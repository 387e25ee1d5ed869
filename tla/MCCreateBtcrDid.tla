-------------------------- MODULE MCCreateBtcrDid --------------------------
(* "f" holds the money: output 0 for "mAddr", whose key the runs have, output *)
(* 1 for "2Addr". A reorganisation puts the stranger's "e", whose output 1 is *)
(* a script of several addresses, where a txref found "f". A run may update,  *)
(* by its txref, the DID another run creates. "mAddr" sorts after "data",     *)
(* "1Addr" before. "2Addr" is the address of a script that bitcoind's wallet  *)
(* knows, "2Other" of one it does not know.                                   *)
EXTENDS CreateBtcrDid

Out(to, value) == [to |-> to, amount |-> value]

g == [in |-> {}, out |-> <<Out("x", 50)>>]
e == [in |-> {}, out |-> <<Out("mAddr", 2), Out("multi", 4)>>]
f == [in |-> {}, out |-> <<Out("mAddr", 6), Out("2Addr", 3)>>]

(* Command lines.                                                             *)
plain == [query |-> "txref", net |-> "test", height |-> 1, index |-> 0, vout |-> 0,
          txid |-> g, txoIndex |-> -1, address |-> "mAddr", key |-> "mAddr", fee |-> 1,
          dryrun |-> FALSE]
elsewhere == [plain EXCEPT !.address = "1Addr", !.fee = 2]
byTxid == [plain EXCEPT !.query = "txid", !.txid = f, !.address = "1Addr", !.fee = 5]
update == [plain EXCEPT !.height = 2, !.vout = 1]
script == [byTxid EXCEPT !.txoIndex = 1, !.key = "2Addr", !.fee = 2]
toScript == [byTxid EXCEPT !.address = "2Other"]
made == Transaction(toScript, <<f, 0>>, 6)
unknown == [byTxid EXCEPT !.txid = made, !.key = "2Other"]
dry == [plain EXCEPT !.dryrun = TRUE, !.fee = 2]

MCRun == {"p", "q"}
Both(a, b) == "p" :> a @@ "q" :> b
MCArgs == { Both(plain, elsewhere),
            Both(plain, update),
            Both(plain, plain),
            Both(dry, byTxid),
            Both(byTxid, [byTxid EXCEPT !.fee = 6]),
            Both([byTxid EXCEPT !.txid = e, !.txoIndex = 1], [plain EXCEPT !.txoIndex = 1]),
            Both([plain EXCEPT !.query = "address"], [plain EXCEPT !.key = "x"]),
            Both([plain EXCEPT !.fee = 7], [plain EXCEPT !.index = 1]),
            Both(script, byTxid),
            Both(toScript, unknown) }

(* What the runs can make of "f", "e" and each other's transactions.          *)
AllArgs == UNION {{a[p] : p \in MCRun} : a \in MCArgs} \ {toScript, unknown, script}
MCOthers == {g, e, f}
Made(o) == {Transaction(a, o, o[1].out[o[2] + 1].amount) :
              a \in {a \in AllArgs : a.fee <= o[1].out[o[2] + 1].amount}}
created == Transaction(plain, <<f, 0>>, 6)
MCTxid == MCOthers \cup Made(<<e, 0>>) \cup Made(<<f, 0>>) \cup Made(<<created, 1>>)
            \cup {made, Transaction(script, <<f, 1>>, 3)}
MCOutputNo == 0..1
MCInputs == [t \in MCTxid |-> t.in]
MCOutputs == [t \in MCTxid |-> 0..(Len(t.out) - 1)]
MCOpReturn == [t \in MCTxid |-> {n \in 0..(Len(t.out) - 1) : t.out[n + 1].to = "data"}]
MCAfterData == {"mAddr"}
MCScriptAddress == {"2Addr", "2Other"}
MCWallet == "2Addr" :> "witness_v0_keyhash"

MCChains == { << <<g>>, <<f>> >>,
              << <<g>>, <<e, f>> >>,
              << <<g>>, <<f>>, <<created>> >>,
              << <<g>>, <<f>>, <<e>> >> }
=============================================================================
