--------------------------- MODULE MCDidLifecycle ---------------------------
(* The creator spends "f" to an address that sorts after "data" or before it; *)
(* "e" is another payment to the owner. The transaction that creates the DID  *)
(* gets 1, 5, 6 and more confirmations, and forks put "e" where it was; the   *)
(* update comes after 6 confirmations, and is taken back once.                *)
EXTENDS DidLifecycle

Out(to, value) == [to |-> to, amount |-> value]

g == [in |-> {}, out |-> <<Out("x", 50)>>]
f == [in |-> {}, out |-> <<Out("mAddr", 6), Out("x", 4)>>]
e == [in |-> {}, out |-> <<Out("x", 1), Out("mAddr", 5)>>]

create == [query |-> "txid", net |-> "test", height |-> 0, index |-> 0, vout |-> 0, txid |-> f, txoIndex |-> -1, address |-> "mAddr",
           key |-> "mAddr", fee |-> 1, dryrun |-> FALSE]
MCCreateArgs == {create, [create EXCEPT !.address = "2Addr"]}
MCUpdateArg == [create EXCEPT !.query = "txref"]

MCOthers == {g, e, f}
data == Out("data", 0)
c == [in |-> {<<f, 0>>}, out |-> <<data, Out("mAddr", 5)>>]
c2 == [in |-> {<<f, 0>>}, out |-> <<Out("2Addr", 5), data>>]
u == [in |-> {<<c, 1>>}, out |-> <<data, Out("mAddr", 4)>>]
v == [in |-> {<<e, 1>>}, out |-> <<data, Out("mAddr", 4)>>]
MCTxid == MCOthers \cup {c, c2, u, v}
MCOutputNo == 0..2
MCInputs == [t \in MCTxid |-> t.in]
MCOutputs == [t \in MCTxid |-> 0..(Len(t.out) - 1)]
MCOpReturn == [t \in MCTxid |-> {n \in MCOutputs[t] : t.out[n + 1].to = "data"}]
MCAfterData == {"mAddr"}
MCScriptAddress == {"2Addr"}
MCWallet == "2Addr" :> "witness_v0_keyhash"

Empty(n) == [i \in 1..n |-> <<>>]
Begin == << <<g>>, <<f>> >>
MCChains ==
    {Begin}
    \cup {Begin \o << <<c>> >> \o Empty(n) : n \in {4, 5, 7}}
    \cup {Begin \o << <<c2>> >> \o Empty(5)}
    \cup {Begin \o << <<c, e>> >> \o Empty(5)}
    \cup {Begin \o << <<e>>, <<c>> >> \o Empty(4)}
    \cup {Begin \o << <<c>> >> \o Empty(5) \o << <<u>> >>}
=============================================================================
