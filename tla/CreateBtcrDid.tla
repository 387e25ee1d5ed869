---------------------------- MODULE CreateBtcrDid ----------------------------
(* createBtcrDid (src/src/createBtcrDid.cpp): runs of the program, each       *)
(* creating or updating a DID with a transaction that spends one output to an *)
(* address and an OP_RETURN. A run asks bitcoind several times before it      *)
(* sends; other runs, miners and reorganisations come in between.             *)
(*                                                                            *)
(* A transaction is the record of what it spends and creates, so that equal   *)
(* contents are equal txids: [in, out], out a sequence of [to, amount].       *)
EXTENDS Bitcoind

CONSTANTS
    Run,        \* runs of the program
    Args,       \* the command lines of the runs: functions from Run to [query,
                \* net, height, index, vout, txid, txoIndex, address, key, fee, dryrun]
    Others,     \* the transactions that no run makes
    AfterData,  \* the addresses that sort after the string "data"
    ScriptAddress, \* the addresses of scripts
    Wallet,     \* the scripts bitcoind's wallet knows: functions to their types
    DustLimit   \* the least amount bitcoind relays

AreRecords ==
    /\ \A t \in Txid : t.out \in Seq([to : STRING, amount : Nat])
    /\ Inputs = [t \in Txid |-> t.in]
    /\ Outputs = [t \in Txid |-> 0..(Len(t.out) - 1)]
    /\ OpReturn = [t \in Txid |-> {n \in 0..(Len(t.out) - 1) : t.out[n + 1].to = "data"}]
ASSUME RecordsAssumption == AreRecords

(* The words "data" and "multi" are no addresses.                             *)
Commands == {args[p] : args \in Args, p \in Run}
AreCommands ==
    /\ 0 \in OutputNo /\ Others \subseteq Txid
    /\ \A a \in Commands :
          /\ a.height \in Nat /\ a.index \in Nat /\ a.vout \in OutputNo
          /\ a.txid \in Txid /\ a.txoIndex \in Int
          /\ a.txoIndex >= 0 => a.txoIndex \in OutputNo
          /\ a.address \notin {"data", "multi"} /\ a.fee \in Int
ASSUME ArgsAssumption == AreCommands

VARIABLES
    arg,        \* arg[p]: the command line of p
    pc,         \* pc[p]: the call that is next, or how the run ended
    spent,      \* spent[p]: txid and txoIndex of the transaction to spend from
    amount,     \* amount[p]: unspentData.amountSatoshis
    tx,         \* tx[p]: the signed transaction: a set of at most one
    sent,       \* every transaction the network was ever given
    disturbed   \* history, read by no step: disturbed[p], since p knew what to
                \* spend the chain was reorganised or a transaction dropped

runVars == <<arg, pc, spent, amount, tx>>
vars == <<nodeVars, runVars, sent, disturbed>>

Started == {"txOut", "build", "send"}
Ended == {"submitted", "dryrun", "failed", "crashed"}

TypeOK ==
    /\ chain \in Chains /\ mempool \subseteq Txid
    /\ arg \in Args
    /\ pc \in [Run -> {"connect", "decode"} \cup Started \cup Ended]
    /\ spent \in [Run -> Place]
    /\ amount \in [Run -> Nat]
    /\ tx \in [Run -> SUBSET Txid]
    /\ sent \subseteq Txid /\ View \subseteq sent
    /\ disturbed \in [Run -> BOOLEAN]

Init ==
    /\ NodeInit
    /\ sent = Others
    /\ View \subseteq sent
    /\ arg \in Args
    /\ pc = [p \in Run |-> "connect"]
    /\ spent = [p \in Run |-> <<Genesis, 0>>]
    /\ amount = [p \in Run |-> 0]
    /\ tx = [p \in Run |-> {}]
    /\ disturbed = [p \in Run |-> FALSE]

-----------------------------------------------------------------------------
(* Miners, other users and reorganisations, with what the network was given.  *)
BitcoindMoves ==
    /\ NodeMoves
    /\ View' \subseteq sent
    /\ disturbed' = [p \in Run |->
            \/ disturbed[p]
            \/ pc[p] \in Started \cup Ended /\ (Reorganised \/ ~(View \subseteq View'))]
    /\ UNCHANGED <<runVars, sent>>

Goto(p, s) ==
    /\ pc' = [pc EXCEPT ![p] = s]
    /\ UNCHANGED <<arg, disturbed>>

-----------------------------------------------------------------------------
(* A call bitcoind refuses or that does not come through.                     *)
RpcFails(p) ==
    /\ pc[p] \notin Ended
    /\ Goto(p, "failed")
    /\ UNCHANGED <<nodeVars, spent, amount, tx, sent>>

(* The facade's constructor, getblockchaininfo, and what the query is. An     *)
(* address is refused; something that is none of the three is asked for as    *)
(* the empty txid, which gettxout refuses.                                    *)
Connect(p) ==
    /\ pc[p] = "connect"
    /\ CASE arg[p].query = "txref" ->
              /\ Goto(p, "decode")
              /\ UNCHANGED spent
         [] arg[p].query = "txid" ->
              /\ spent' = [spent EXCEPT ![p] =
                    <<arg[p].txid, IF arg[p].txoIndex < 0 THEN 0 ELSE arg[p].txoIndex>>]
              /\ Goto(p, "txOut")
         [] OTHER ->
              /\ Goto(p, "failed")
              /\ UNCHANGED spent
    /\ UNCHANGED <<nodeVars, amount, tx, sent>>

(* Mistake: the output is the one of --txoIndex, 0 by default, whatever the   *)
(* txref encodes.                                                             *)
DecodedByOption(a) ==
    <<BlockTx(BlockHash(a.height))[a.index + 1], IF a.txoIndex < 0 THEN 0 ELSE a.txoIndex>>

(* t2t::decodeTxref: the txref must be one of bitcoind's network, and name a  *)
(* block and a transaction in it.                                             *)
Decodes(a) ==
    /\ a.net = network
    /\ HasBlock(a.height)
    /\ a.index < Len(BlockTx(BlockHash(a.height)))
Decoded(a) == <<BlockTx(BlockHash(a.height))[a.index + 1], a.vout>>

(* getTransaction decodes the txref, then looks at --txoIndex: one that       *)
(* differs from the encoded one is an error, unless it is 0.                  *)
DecodeTxref(p) ==
    /\ pc[p] = "decode"
    /\ IF Decodes(arg[p]) /\ ~(arg[p].txoIndex > 0 /\ arg[p].txoIndex # arg[p].vout)
       THEN /\ spent' = [spent EXCEPT ![p] = Decoded(arg[p])]
            /\ Goto(p, "txOut")
       ELSE /\ Goto(p, "failed")
            /\ UNCHANGED spent
    /\ UNCHANGED <<nodeVars, amount, tx, sent>>

OutputOf(o) == o[1].out[o[2] + 1]

(* gettxout: nothing means spent already. An output whose script has not      *)
(* exactly one address trips the assertion. An unconfirmed output will do.    *)
LookAtOutput(p) ==
    LET o == spent[p] IN
    /\ pc[p] = "txOut"
    /\ IF GetTxOut(o)
       THEN /\ amount' = [amount EXCEPT ![p] = OutputOf(o).amount]
            /\ Goto(p, IF OutputOf(o).to = "multi" THEN "crashed" ELSE "build")
       ELSE /\ Goto(p, "failed")
            /\ UNCHANGED amount
    /\ UNCHANGED <<nodeVars, spent, tx, sent>>

(* Mistakes: the change goes back to the address that paid; more is asked for *)
(* than there is; a dry run is sent; a refusal of bitcoind is not looked at.  *)
Payer(a, o) == OutputOf(o).to
AnyChange(a, value) == TRUE
AlwaysSend(a) == "send"
Unnoticed(p) == "submitted"

OutputAddress(a, o) == a.address

(* The outputs go to createrawtransaction in a std::map, so in the order of   *)
(* their keys: the output address and "data". What becomes of the amounts on  *)
(* the way there and back is DidOutputs's.                                    *)
Transaction(a, o, value) ==
    LET change == [to |-> OutputAddress(a, o), amount |-> value - a.fee]
        data   == [to |-> "data", amount |-> 0]
    IN  [in |-> {o}, out |-> IF a.address \in AfterData THEN <<data, change>>
                                                        ELSE <<change, data>>]

(* createrawtransaction refuses a negative amount.                            *)
CreatesRaw(a, value) == value >= a.fee

(* getaddressinfo says whether an address is a script's, and of which type    *)
(* the script is where the wallet knows it. Only that of a witness public key *)
(* hash is passed on.                                                         *)
GetAddressInfo(address) ==
    [isscript |-> address \in ScriptAddress,
     script   |-> IF address \in DOMAIN Wallet THEN Wallet[address] ELSE ""]
RedeemScript(info) == info.isscript /\ info.script = "witness_v0_keyhash"

(* signrawtransactionwithkey is incomplete, or refuses, with another key than *)
(* the output's and without the script that the output wants.                 *)
Signs(a, o) ==
    LET info == GetAddressInfo(OutputOf(o).to) IN
    /\ a.key = OutputOf(o).to
    /\ info.isscript => RedeemScript(info)

(* The outputs a command line can mean, by its txid or in some chain. What a  *)
(* run makes of such an output is a transaction.                              *)
NamedPlaces(a) ==
    IF a.query = "txid"
    THEN {<<a.txid, IF a.txoIndex < 0 THEN 0 ELSE a.txoIndex>>}
    ELSE {<<c[a.height + 1][a.index + 1], a.vout>> :
            c \in {c \in Chains : a.height < Len(c) /\ a.index < Len(c[a.height + 1])}}
ASSUME MadeAssumption ==
    \A a \in Commands : \A o \in NamedPlaces(a) :
        /\ o[1] # Genesis /\ o[2] \in PayOutputs(o[1])
        /\ a.fee <= OutputOf(o).amount /\ Signs(a, o)
        => Transaction(a, o, OutputOf(o).amount) \in Txid \ Others

Signed(a) == IF a.dryrun THEN "dryrun" ELSE "send"

(* getaddressinfo, createrawtransaction and signrawtransactionwithkey.        *)
Build(p) ==
    LET a == arg[p]
        o == spent[p] IN
    /\ pc[p] = "build"
    /\ IF CreatesRaw(a, amount[p]) /\ Signs(a, o)
       THEN /\ tx' = [tx EXCEPT ![p] = {Transaction(a, o, amount[p])}]
            /\ Goto(p, Signed(a))
       ELSE /\ Goto(p, "failed")
            /\ UNCHANGED tx
    /\ UNCHANGED <<nodeVars, spent, amount, sent>>

(* bitcoind takes a transaction that it already has unconfirmed, or that      *)
(* spends what is unspent and creates no dust.                                *)
Accepts(t) ==
    \/ t \in mempool
    \/ /\ t \notin View
       /\ \A o \in t.in : GetTxOut(o)
       /\ \A i \in DOMAIN t.out : t.out[i].to = "data" \/ t.out[i].amount >= DustLimit

Broadcast(t) ==
    /\ mempool' = mempool \cup {t}
    /\ sent' = sent \cup {t}
    /\ UNCHANGED <<chain, network>>

(* sendrawtransaction, and the txid is printed with txoIndex 1.               *)
Send(p) ==
    /\ pc[p] = "send"
    /\ \E t \in tx[p] : Accepts(t) /\ Broadcast(t)
    /\ Goto(p, "submitted")
    /\ UNCHANGED <<spent, amount, tx>>

(* The transaction is taken and the reply lost: the run reports an error.     *)
SendReplyLost(p) ==
    /\ pc[p] = "send"
    /\ \E t \in tx[p] : Accepts(t) /\ Broadcast(t)
    /\ Goto(p, "failed")
    /\ UNCHANGED <<spent, amount, tx>>

(* A refusal is a BitcoinException.                                           *)
Refused(p) == "failed"

Rejected(p) ==
    /\ pc[p] = "send"
    /\ \A t \in tx[p] : ~Accepts(t)
    /\ Goto(p, Refused(p))
    /\ UNCHANGED <<nodeVars, spent, amount, tx, sent>>

PrintedTxoIndex == 1

Program(p) ==
    \/ Connect(p)
    \/ DecodeTxref(p)
    \/ LookAtOutput(p)
    \/ Build(p)
    \/ Send(p)
    \/ SendReplyLost(p)
    \/ Rejected(p)
    \/ RpcFails(p)

Next == BitcoindMoves \/ \E p \in Run : Program(p)

Spec == Init /\ [][Next]_vars

-----------------------------------------------------------------------------
(* What a run spends is what its txref names: the transaction that is now at  *)
(* the encoded height and index, and the encoded output, unless the chain was *)
(* reorganised since it was decoded.                                          *)
SpendsWhatIsNamed ==
    \A p \in Run : \A t \in tx[p] :
        arg[p].query = "txref" /\ ~disturbed[p] =>
            t.in = {<<chain[arg[p].height + 1][arg[p].index + 1], arg[p].vout>>}

(* Of several runs that use the same output, whose gettxout all found it      *)
(* unspent, only one reports its transaction, or all report the same one,     *)
(* until the network drops a transaction.                                     *)
OneUpdatePerOutput ==
    \A p, q \in Run :
        pc[p] = "submitted" /\ pc[q] = "submitted" /\ ~disturbed[p] /\ ~disturbed[q] =>
            \A t \in tx[p], u \in tx[q] : t.in \cap u.in # {} => t = u

(* A dry run gives the network nothing.                                       *)
DryRunSendsNothing ==
    \A p \in Run : \A t \in tx[p] :
        arg[p].dryrun /\ t \in sent => \E q \in Run : t \in tx[q] /\ ~arg[q].dryrun

(* Whoever follows the DID from the output a run spent arrives at the output  *)
(* address of that run, with all the money but the fee on its command line,   *)
(* in whichever order bitcoind was given the outputs. Bitcoin has no field    *)
(* for the fee: a wrong change is silently a wrong fee.                       *)
FollowersReachChange ==
    \A p \in Run : \A t \in tx[p] \cap View :
        \E n \in OutputNo :
            /\ Hop(View, spent[p], <<t, n>>)
            /\ OutputOf(<<t, n>>).to = arg[p].address
            /\ OutputOf(<<t, n>>).amount + arg[p].fee = OutputOf(spent[p]).amount

(* "output bitcoin address: will receive transaction change and be the basis  *)
(* for your DID" (src/README.md:263), and the JSON printed is "to compute     *)
(* your txref and DID" (src/src/createBtcrDid.cpp:383): the txoIndex printed  *)
(* is that of the output address.                                             *)
PrintedIndexIsTheDid ==
    \A p \in Run : pc[p] = "submitted" =>
        \A t \in tx[p] : t.out[PrintedTxoIndex + 1].to = arg[p].address
=============================================================================
