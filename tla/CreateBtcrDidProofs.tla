------------------------ MODULE CreateBtcrDidProofs ------------------------
(* However many runs of createBtcrDid there are, and whatever bitcoind's      *)
(* chain and mempool do between their calls: a run spends what its command    *)
(* line names, two that report success have not spent the same output, a dry  *)
(* run sends nothing, and a follower of the DID arrives at the change.        *)
EXTENDS CreateBtcrDid, BitcoindProofs

-----------------------------------------------------------------------------
(* The inductive invariant.                                                   *)
ViewIsLedger == View \in Ledger

(* A run that has settled what to spend, and one that has looked at it.       *)
Spending(p) == pc[p] \in Started \/ tx[p] # {}
Looked(p) == pc[p] \in {"build", "send"} \/ tx[p] # {}

DecodesTxrefs == \A p \in Run : pc[p] = "decode" => arg[p].query = "txref"

SpentIsNamed == \A p \in Run : Spending(p) => spent[p] \in NamedPlaces(arg[p])

(* What a txref named is there until blocks are replaced.                     *)
StillInPlace ==
    \A p \in Run : arg[p].query = "txref" /\ Spending(p) /\ ~disturbed[p] =>
        /\ arg[p].height + 1 \in 1..Len(chain)
        /\ arg[p].index + 1 \in 1..Len(chain[arg[p].height + 1])
        /\ spent[p] = <<chain[arg[p].height + 1][arg[p].index + 1], arg[p].vout>>

AmountIsRight ==
    \A p \in Run : Looked(p) =>
        /\ spent[p][1] # Genesis /\ spent[p][2] \in PayOutputs(spent[p][1])
        /\ amount[p] = OutputOf(spent[p]).amount

TxIsMade ==
    \A p \in Run :
        /\ pc[p] \in {"connect", "decode", "txOut", "build"} => tx[p] = {}
        /\ \A t \in tx[p] : t \notin Others /\ t = Transaction(arg[p], spent[p], amount[p])

(* What was taken is still known, unless the network dropped something.       *)
SubmittedInView == \A p \in Run : pc[p] = "submitted" /\ ~disturbed[p] => tx[p] \subseteq View

SentByRuns ==
    /\ \A t \in sent : t \in Others \/ \E q \in Run : t \in tx[q] /\ ~arg[q].dryrun
    /\ \A p \in Run : pc[p] = "send" => ~arg[p].dryrun

Inv ==
    /\ TypeOK /\ ViewIsLedger
    /\ DecodesTxrefs /\ SpentIsNamed /\ StillInPlace
    /\ AmountIsRight /\ TxIsMade /\ SubmittedInView /\ SentByRuns

-----------------------------------------------------------------------------
(* A transaction is what it spends and creates.                               *)
LEMMA RecordFacts ==
    ASSUME NEW t \in Txid
    PROVE  /\ Inputs[t] = t.in
           /\ Outputs[t] = 0..(Len(t.out) - 1) /\ Len(t.out) \in Nat
           /\ OpReturn[t] = {n \in 0..(Len(t.out) - 1) : t.out[n + 1].to = "data"}
           /\ \A n \in Outputs[t] : t.out[n + 1].amount \in Nat
<1>1. t.out \in Seq([to : STRING, amount : Nat])
  BY RecordsAssumption DEF RecordsAssumption, AreRecords
<1>2. /\ Inputs[t] = t.in
      /\ Outputs[t] = 0..(Len(t.out) - 1)
      /\ OpReturn[t] = {n \in 0..(Len(t.out) - 1) : t.out[n + 1].to = "data"}
  BY RecordsAssumption DEF RecordsAssumption, AreRecords
<1>3. Len(t.out) \in Nat
  BY <1>1
<1>4. ASSUME NEW n \in Outputs[t]
      PROVE  t.out[n + 1].amount \in Nat
  <2> DEFINE out == t.out
             Output == [to : STRING, amount : Nat]
  <2>1. out \in Seq(Output) /\ n \in 0..(Len(out) - 1)
    BY <1>1, <1>2
  <2> HIDE DEF out, Output
  <2>2. out[n + 1] \in Output
    <3>1. Len(out) \in Nat
      BY <2>1
    <3>2. n + 1 \in 1..Len(out)
      BY <2>1, <3>1
    <3> QED
      BY <2>1, <3>2
  <2>3. out[n + 1].amount \in Nat
    BY <2>2 DEF Output
  <2> QED
    BY <2>3 DEF out
<1> QED
  BY <1>2, <1>3, <1>4

LEMMA PaidAmount ==
    ASSUME NEW o \in Place, o[2] \in PayOutputs(o[1])
    PROVE  OutputOf(o).amount \in Nat
BY RecordFacts DEF Place, PayOutputs, OutputOf

(* The one output of a run's transaction that can be spent is to its address. *)
LEMMA TransactionFacts ==
    ASSUME NEW a \in Commands, NEW o, NEW value, Transaction(a, o, value) \in Txid
    PROVE  /\ Inputs[Transaction(a, o, value)] = {o}
           /\ Transaction(a, o, value).in = {o}
           /\ \E n \in OutputNo :
                 /\ PayOutputs(Transaction(a, o, value)) = {n}
                 /\ Transaction(a, o, value).out[n + 1].to = a.address
                 /\ Transaction(a, o, value).out[n + 1].amount = value - a.fee
<1> DEFINE t      == Transaction(a, o, value)
           change == [to |-> a.address, amount |-> value - a.fee]
           data   == [to |-> "data", amount |-> 0]
<1>1. t.in = {o} /\ t.out = IF a.address \in AfterData THEN <<data, change>> ELSE <<change, data>>
  BY DEF Transaction, OutputAddress
<1>2. a.address # "data"
  BY ArgsAssumption DEF ArgsAssumption, AreCommands
<1>3. change.to = a.address /\ change.amount = value - a.fee /\ data.to = "data"
  OBVIOUS
<1> HIDE DEF t, change, data
<1>4. /\ Inputs[t] = t.in /\ Outputs[t] = 0..(Len(t.out) - 1)
      /\ OpReturn[t] = {n \in 0..(Len(t.out) - 1) : t.out[n + 1].to = "data"}
  BY RecordFacts DEF t
<1>5. Len(t.out) = 2 /\ Outputs[t] = 0..1 /\ 0..1 \subseteq OutputNo
  <2>1. Len(t.out) = 2
    BY <1>1
  <2>2. Outputs[t] = 0..1
    BY <1>4, <2>1
  <2> QED
    BY <2>1, <2>2, GraphAssumption DEF GraphAssumption, t
<1>6. CASE a.address \in AfterData
  <2>1. t.out[1] = data /\ t.out[2] = change
    BY <1>1, <1>6
  <2>2. PayOutputs(t) = {1}
    BY <1>2, <1>3, <1>4, <1>5, <2>1 DEF PayOutputs
  <2>3. t.out[1 + 1] = change
    BY <2>1
  <2> QED
    BY <1>1, <1>3, <1>4, <1>5, <2>2, <2>3 DEF t
<1>7. CASE a.address \notin AfterData
  <2>1. t.out[1] = change /\ t.out[2] = data
    BY <1>1, <1>7
  <2>2. PayOutputs(t) = {0}
    BY <1>2, <1>3, <1>4, <1>5, <2>1 DEF PayOutputs
  <2>3. t.out[0 + 1] = change
    BY <2>1
  <2> QED
    BY <1>1, <1>3, <1>4, <1>5, <2>2, <2>3 DEF t
<1> QED
  BY <1>6, <1>7

LEMMA CommandOf ==
    ASSUME TypeOK, NEW p \in Run
    PROVE  arg[p] \in Commands
BY DEF TypeOK, Commands

LEMMA NamedArePlaces ==
    ASSUME NEW a \in Commands
    PROVE  NamedPlaces(a) \subseteq Place
<1>1. /\ a.height \in Nat /\ a.index \in Nat /\ a.vout \in OutputNo /\ 0 \in OutputNo
      /\ a.txid \in Txid /\ a.txoIndex \in Int
      /\ a.txoIndex >= 0 => a.txoIndex \in OutputNo
  BY ArgsAssumption DEF ArgsAssumption, AreCommands
<1>2. ASSUME NEW c \in Chains, a.height < Len(c), a.index < Len(c[a.height + 1])
      PROVE  <<c[a.height + 1][a.index + 1], a.vout>> \in Place
  <2>1. c \in Seq(Seq(Txid)) /\ Len(c) \in Nat
    BY ChainFacts
  <2>2. a.height + 1 \in 1..Len(c)
    BY <1>1, <1>2, <2>1
  <2>3. a.index + 1 \in 1..Len(c[a.height + 1])
    <3>1. Len(c[a.height + 1]) \in Nat
      BY <2>1, <2>2
    <3> QED
      BY <1>1, <1>2, <3>1
  <2> QED
    BY <1>1, <2>2, <2>3, InBlock DEF Place
<1>3. CASE a.query = "txid"
  BY <1>1, <1>3 DEF NamedPlaces, Place
<1>4. CASE a.query # "txid"
  BY <1>2, <1>4 DEF NamedPlaces
<1> QED
  BY <1>3, <1>4

LEMMA DecodedPlace ==
    ASSUME chain \in Chains, NEW a \in Commands, a.query = "txref", Decodes(a)
    PROVE  /\ a.height + 1 \in 1..Len(chain)
           /\ a.index + 1 \in 1..Len(chain[a.height + 1])
           /\ Decoded(a) = <<chain[a.height + 1][a.index + 1], a.vout>>
           /\ Decoded(a) \in NamedPlaces(a)
<1>1. a.height \in Nat /\ a.index \in Nat
  BY ArgsAssumption DEF ArgsAssumption, AreCommands
<1>2. HasBlock(a.height) /\ a.index < Len(BlockTx(BlockHash(a.height)))
  BY DEF Decodes
<1>3. a.height + 1 \in 1..Len(chain) /\ BlockTx(BlockHash(a.height)) = chain[a.height + 1]
  BY <1>1, <1>2, BlockOfHeight
<1>4. Len(chain[a.height + 1]) \in Nat
  BY <1>3, ChainFacts
<1>5. a.index + 1 \in 1..Len(chain[a.height + 1])
  BY <1>1, <1>2, <1>3, <1>4
<1>6. Decoded(a) = <<chain[a.height + 1][a.index + 1], a.vout>>
  BY <1>3 DEF Decoded
<1>7. a.height < Len(chain) /\ a.index < Len(chain[a.height + 1])
  BY <1>2, <1>3 DEF HasBlock
<1> QED
  BY <1>3, <1>5, <1>6, <1>7 DEF NamedPlaces

(* What Build makes is one of the transactions.                               *)
LEMMA BuildMakes ==
    ASSUME TypeOK, SpentIsNamed, AmountIsRight, NEW p \in Run, pc[p] = "build",
           CreatesRaw(arg[p], amount[p]), Signs(arg[p], spent[p])
    PROVE  Transaction(arg[p], spent[p], amount[p]) \in Txid \ Others
<1>1. arg[p] \in Commands /\ spent[p] \in NamedPlaces(arg[p])
  BY CommandOf DEF SpentIsNamed, Spending, Started
<1>2. /\ spent[p][1] # Genesis /\ spent[p][2] \in PayOutputs(spent[p][1])
      /\ amount[p] = OutputOf(spent[p]).amount
  BY DEF AmountIsRight, Looked
<1>3. arg[p].fee <= OutputOf(spent[p]).amount
  BY <1>1, <1>2, ArgsAssumption DEF CreatesRaw, TypeOK, ArgsAssumption, AreCommands
<1> QED
  BY <1>1, <1>2, <1>3, MadeAssumption DEF MadeAssumption

LEMMA ViewTypes ==
    ASSUME chain \in Chains, mempool \subseteq Txid
    PROVE  View \subseteq Txid
BY ChainFacts DEF View, Confirmed

(* What bitcoind accepts spends nothing twice.                                *)
LEMMA AcceptedFits ==
    ASSUME ViewIsLedger, NEW t \in Txid, Accepts(t)
    PROVE  View \cup {t} \in Ledger
<1>1. View \in SUBSET Txid /\ Inputs[t] = t.in
  BY RecordFacts DEF ViewIsLedger, Ledger
<1>2. CASE t \in mempool
  BY <1>2 DEF ViewIsLedger, View
<1>3. CASE \A o \in t.in : GetTxOut(o)
  <2>1. \A o \in Inputs[t] : o[1] \in View /\ \A u \in View : o \notin Inputs[u]
    BY <1>1, <1>3 DEF GetTxOut, SpentIn
  <2> QED
    BY <1>1, <2>1 DEF ViewIsLedger, Ledger
<1> QED
  BY <1>2, <1>3 DEF Accepts

LEMMA BroadcastView ==
    ASSUME NEW t, Broadcast(t)
    PROVE  View' = View \cup {t} /\ sent' = sent \cup {t}
BY DEF Broadcast, View, Confirmed

-----------------------------------------------------------------------------
(* pc, spent, amount and tx are functions of the runs.                        *)
OfRuns ==
    /\ pc = [p \in Run |-> pc[p]] /\ spent = [p \in Run |-> spent[p]]
    /\ amount = [p \in Run |-> amount[p]] /\ tx = [p \in Run |-> tx[p]]

LEMMA TypesAreOfRuns == TypeOK => OfRuns
BY DEF TypeOK, OfRuns

(* A run changes its own state only, and the view by what it sends.           *)
LEMMA Frame ==
    ASSUME OfRuns, NEW p \in Run, Program(p)
    PROVE  /\ UNCHANGED <<arg, disturbed, chain, network>>
           /\ \A q \in Run : q # p =>
                 /\ pc'[q] = pc[q] /\ spent'[q] = spent[q]
                 /\ amount'[q] = amount[q] /\ tx'[q] = tx[q]
           /\ View \subseteq View'
<1> USE DEF OfRuns, Goto, nodeVars
<1>1. CASE Connect(p) \/ DecodeTxref(p) \/ LookAtOutput(p)
  BY <1>1 DEF Connect, DecodeTxref, LookAtOutput, View, Confirmed
<1>2. CASE Build(p) \/ Rejected(p) \/ RpcFails(p)
  BY <1>2 DEF Build, Rejected, RpcFails, View, Confirmed
<1>3. CASE Send(p) \/ SendReplyLost(p)
  BY <1>3 DEF Send, SendReplyLost, Broadcast, View, Confirmed
<1> QED
  BY <1>1, <1>2, <1>3 DEF Program

(* What each call does to the state of the run that makes it.                 *)
LEMMA ConnectEffect ==
    ASSUME OfRuns, NEW p \in Run, Connect(p)
    PROVE  /\ pc[p] = "connect" /\ UNCHANGED <<mempool, sent, tx, amount>>
           /\ pc'[p] \in {"decode", "txOut", "failed"}
           /\ pc'[p] = "decode" => arg[p].query = "txref"
           /\ pc'[p] = "txOut" =>
                 /\ arg[p].query = "txid"
                 /\ spent' = [spent EXCEPT ![p] =
                       <<arg[p].txid, IF arg[p].txoIndex < 0 THEN 0 ELSE arg[p].txoIndex>>]
           /\ pc'[p] # "txOut" => spent' = spent
BY DEF Connect, Goto, OfRuns, nodeVars

LEMMA DecodeEffect ==
    ASSUME OfRuns, NEW p \in Run, DecodeTxref(p)
    PROVE  /\ pc[p] = "decode" /\ UNCHANGED <<mempool, sent, tx, amount>>
           /\ pc'[p] \in {"txOut", "failed"}
           /\ pc'[p] = "txOut" =>
                 Decodes(arg[p]) /\ spent' = [spent EXCEPT ![p] = Decoded(arg[p])]
           /\ pc'[p] # "txOut" => spent' = spent
BY DEF DecodeTxref, Goto, OfRuns, nodeVars

LEMMA LookEffect ==
    ASSUME OfRuns, NEW p \in Run, LookAtOutput(p)
    PROVE  /\ pc[p] = "txOut" /\ UNCHANGED <<mempool, sent, tx, spent>>
           /\ pc'[p] \in {"build", "crashed", "failed"}
           /\ pc'[p] # "failed" =>
                 GetTxOut(spent[p]) /\ amount' = [amount EXCEPT ![p] = OutputOf(spent[p]).amount]
           /\ pc'[p] = "failed" => amount' = amount
BY DEF LookAtOutput, Goto, OfRuns, nodeVars

LEMMA BuildEffect ==
    ASSUME OfRuns, NEW p \in Run, Build(p)
    PROVE  /\ pc[p] = "build" /\ UNCHANGED <<mempool, sent, spent, amount>>
           /\ pc'[p] \in {"send", "dryrun", "failed"}
           /\ pc'[p] = "send" => ~arg[p].dryrun
           /\ pc'[p] # "failed" =>
                 /\ CreatesRaw(arg[p], amount[p]) /\ Signs(arg[p], spent[p])
                 /\ tx' = [tx EXCEPT ![p] = {Transaction(arg[p], spent[p], amount[p])}]
           /\ pc'[p] = "failed" => tx' = tx
BY DEF Build, Signed, Goto, OfRuns, nodeVars

LEMMA SendEffect ==
    ASSUME OfRuns, NEW p \in Run, Send(p) \/ SendReplyLost(p)
    PROVE  /\ pc[p] = "send" /\ UNCHANGED <<spent, amount, tx>>
           /\ pc'[p] \in {"submitted", "failed"}
           /\ \E t \in tx[p] : Accepts(t) /\ Broadcast(t)
BY DEF Send, SendReplyLost, Goto, OfRuns

LEMMA FailureEffect ==
    ASSUME OfRuns, NEW p \in Run, Rejected(p) \/ RpcFails(p)
    PROVE  pc'[p] = "failed" /\ UNCHANGED <<nodeVars, sent, spent, amount, tx>>
BY DEF Rejected, Refused, RpcFails, Goto, OfRuns

-----------------------------------------------------------------------------
LEMMA InitInv == Init => Inv
<1> SUFFICES ASSUME Init
             PROVE  Inv
  OBVIOUS
<1>1. /\ chain \in Chains /\ mempool \subseteq Txid /\ View \in Ledger
      /\ Genesis \in Txid /\ View \subseteq Txid
  <2>1. chain \in Chains /\ View \in Ledger /\ Genesis \in Txid
    BY ChainFacts DEF Init, NodeInit, Mempools, View, Confirmed
  <2> QED
    BY <2>1 DEF Ledger, View
<1>2. sent \subseteq Txid /\ View \subseteq sent
  BY ArgsAssumption DEF Init, ArgsAssumption, AreCommands
<1>3. <<Genesis, 0>> \in Place
  BY <1>1, ArgsAssumption DEF ArgsAssumption, AreCommands, Place
<1>4. TypeOK
  BY <1>1, <1>2, <1>3 DEF Init, TypeOK
<1>5. ViewIsLedger
  BY <1>1 DEF ViewIsLedger
<1>6. ASSUME NEW p \in Run
      PROVE  pc[p] = "connect" /\ tx[p] = {}
  BY DEF Init
<1>7. DecodesTxrefs /\ SpentIsNamed /\ StillInPlace /\ AmountIsRight
  BY <1>6 DEF DecodesTxrefs, SpentIsNamed, StillInPlace, AmountIsRight, Spending, Looked, Started
<1>8. TxIsMade /\ SubmittedInView /\ SentByRuns
  BY <1>6 DEF Init, TxIsMade, SubmittedInView, SentByRuns
<1> QED
  BY <1>4, <1>5, <1>7, <1>8 DEF Inv

LEMMA TypeStep ==
    ASSUME TypeOK, DecodesTxrefs, SpentIsNamed, AmountIsRight, [Next]_vars
    PROVE  TypeOK'
<1> USE TypesAreOfRuns
<1>1. CASE BitcoindMoves
  <2>1. chain' \in Chains /\ mempool' \subseteq Txid /\ View' \subseteq sent'
        /\ disturbed' \in [Run -> BOOLEAN]
    BY <1>1 DEF BitcoindMoves, NodeMoves, Mempools, Ledger, TypeOK
  <2> QED
    BY <1>1, <2>1 DEF BitcoindMoves, runVars, TypeOK
<1>2. ASSUME NEW p \in Run, Program(p)
      PROVE  TypeOK'
  <2>1. /\ arg' \in Args /\ chain' \in Chains /\ disturbed' \in [Run -> BOOLEAN]
        /\ View \subseteq View' /\ arg[p] \in Commands
    BY <1>2, Frame, CommandOf DEF TypeOK
  <2>2. pc' \in [Run -> {"connect", "decode"} \cup Started \cup Ended]
    <3>1. pc'[p] \in {"connect", "decode"} \cup Started \cup Ended
      BY <1>2, ConnectEffect, DecodeEffect, LookEffect, BuildEffect, SendEffect, FailureEffect
         DEF Program, Started, Ended
    <3>2. pc' = [pc EXCEPT ![p] = pc'[p]]
      BY <1>2 DEF Program, Connect, DecodeTxref, LookAtOutput, Build, Send, SendReplyLost, Rejected,
                  RpcFails, Goto, TypeOK
    <3> QED
      BY <3>1, <3>2 DEF TypeOK
  <2> USE DEF TypeOK
  <2>3. CASE Connect(p)
    <3>1. pc'[p] = "txOut" =>
             <<arg[p].txid, IF arg[p].txoIndex < 0 THEN 0 ELSE arg[p].txoIndex>> \in Place
      BY <2>1, ArgsAssumption DEF ArgsAssumption, AreCommands, Place
    <3>2. spent' \in [Run -> Place]
      BY <2>3, <3>1, ConnectEffect
    <3>3. View' = View
      BY <1>2, <2>3, ConnectEffect, Frame DEF View, Confirmed
    <3> QED
      BY <2>1, <2>2, <2>3, <3>2, <3>3, ConnectEffect
  <2>4. CASE DecodeTxref(p)
    <3>1. pc'[p] = "txOut" => Decoded(arg[p]) \in Place
      BY <2>1, <2>4, DecodeEffect, DecodedPlace, NamedArePlaces DEF DecodesTxrefs
    <3>2. spent' \in [Run -> Place]
      BY <2>4, <3>1, DecodeEffect
    <3>3. View' = View
      BY <1>2, <2>4, DecodeEffect, Frame DEF View, Confirmed
    <3> QED
      BY <2>1, <2>2, <2>4, <3>2, <3>3, DecodeEffect
  <2>5. CASE LookAtOutput(p)
    <3>1. GetTxOut(spent[p]) => OutputOf(spent[p]).amount \in Nat
      BY PaidAmount DEF GetTxOut
    <3>2. amount' \in [Run -> Nat]
      BY <2>5, <3>1, LookEffect
    <3>3. View' = View
      BY <1>2, <2>5, LookEffect, Frame DEF View, Confirmed
    <3> QED
      BY <2>1, <2>2, <2>5, <3>2, <3>3, LookEffect
  <2>6. CASE Build(p)
    <3>1. pc'[p] # "failed" => Transaction(arg[p], spent[p], amount[p]) \in Txid
      BY <2>6, BuildEffect, BuildMakes
    <3>2. tx' \in [Run -> SUBSET Txid]
      BY <2>6, <3>1, BuildEffect
    <3>3. View' = View
      BY <1>2, <2>6, BuildEffect, Frame DEF View, Confirmed
    <3> QED
      BY <2>1, <2>2, <2>6, <3>2, <3>3, BuildEffect
  <2>7. CASE Send(p) \/ SendReplyLost(p)
    <3>1. PICK t \in tx[p] : Broadcast(t)
      BY <2>7, SendEffect
    <3>2. t \in Txid
      BY <3>1
    <3>3. mempool' \subseteq Txid /\ sent' \subseteq Txid /\ View' \subseteq sent'
      BY <3>1, <3>2, BroadcastView DEF Broadcast
    <3> QED
      BY <2>1, <2>2, <2>7, <3>3, SendEffect
  <2>8. CASE Rejected(p) \/ RpcFails(p)
    <3>1. View' = View
      BY <2>8, FailureEffect DEF View, Confirmed, nodeVars
    <3> QED
      BY <2>1, <2>2, <2>8, <3>1, FailureEffect DEF nodeVars
  <2> QED
    BY <1>2, <2>3, <2>4, <2>5, <2>6, <2>7, <2>8 DEF Program
<1>3. CASE UNCHANGED vars
  BY <1>3 DEF vars, nodeVars, runVars, TypeOK, View, Confirmed
<1> QED
  BY <1>1, <1>2, <1>3 DEF Next

LEMMA LedgerStep ==
    ASSUME TypeOK, ViewIsLedger, [Next]_vars
    PROVE  ViewIsLedger'
<1> USE TypesAreOfRuns
<1>1. CASE BitcoindMoves
  BY <1>1 DEF BitcoindMoves, NodeMoves, Mempools, ViewIsLedger, View, Confirmed
<1>2. ASSUME NEW p \in Run, Program(p)
      PROVE  ViewIsLedger'
  <2>1. CASE Send(p) \/ SendReplyLost(p)
    <3>1. PICK t \in tx[p] : Accepts(t) /\ Broadcast(t)
      BY <2>1, SendEffect
    <3>2. View \cup {t} \in Ledger /\ View' = View \cup {t}
      BY <3>1, AcceptedFits, BroadcastView DEF TypeOK
    <3> QED
      BY <3>2 DEF ViewIsLedger
  <2>2. CASE ~(Send(p) \/ SendReplyLost(p))
    <3>1. mempool' = mempool /\ chain' = chain
      BY <1>2, <2>2, Frame, ConnectEffect, DecodeEffect, LookEffect, BuildEffect, FailureEffect
         DEF Program, nodeVars
    <3> QED
      BY <3>1 DEF ViewIsLedger, View, Confirmed
  <2> QED
    BY <2>1, <2>2
<1>3. CASE UNCHANGED vars
  BY <1>3 DEF vars, nodeVars, ViewIsLedger, View, Confirmed
<1> QED
  BY <1>1, <1>2, <1>3 DEF Next

LEMMA DecodesStep ==
    ASSUME TypeOK, DecodesTxrefs, [Next]_vars
    PROVE  DecodesTxrefs'
<1> USE TypesAreOfRuns
<1>1. CASE BitcoindMoves \/ UNCHANGED vars
  BY <1>1 DEF BitcoindMoves, vars, runVars, DecodesTxrefs
<1>2. ASSUME NEW p \in Run, Program(p)
      PROVE  DecodesTxrefs'
  <2>1. pc'[p] = "decode" => arg[p].query = "txref"
    BY <1>2, ConnectEffect, DecodeEffect, LookEffect, BuildEffect, SendEffect, FailureEffect DEF Program
  <2> QED
    BY <1>2, <2>1, Frame DEF DecodesTxrefs
<1> QED
  BY <1>1, <1>2 DEF Next

LEMMA NamedStep ==
    ASSUME TypeOK, DecodesTxrefs, SpentIsNamed, TxIsMade, [Next]_vars
    PROVE  SpentIsNamed'
<1> USE TypesAreOfRuns
<1> USE DEF SpentIsNamed, Spending, Started
<1>1. CASE BitcoindMoves \/ UNCHANGED vars
  BY <1>1 DEF BitcoindMoves, vars, runVars
<1>2. ASSUME NEW p \in Run, Program(p)
      PROVE  SpentIsNamed'
  <2>1. (pc'[p] \in Started \/ tx'[p] # {}) => spent'[p] \in NamedPlaces(arg[p])
    <3>1. CASE Connect(p)
      <4>1. tx'[p] = {}
        BY <3>1, ConnectEffect DEF TxIsMade
      <4> QED
        BY <3>1, <4>1, ConnectEffect DEF NamedPlaces, TypeOK
    <3>2. CASE DecodeTxref(p)
      <4>1. tx'[p] = {}
        BY <3>2, DecodeEffect DEF TxIsMade
      <4>2. Decodes(arg[p]) => Decoded(arg[p]) \in NamedPlaces(arg[p])
        BY <3>2, DecodeEffect, DecodedPlace, CommandOf DEF DecodesTxrefs, TypeOK
      <4> QED
        BY <3>2, <4>1, <4>2, DecodeEffect DEF TypeOK
    <3>3. CASE LookAtOutput(p) \/ Build(p)
      BY <3>3, LookEffect, BuildEffect
    <3>4. CASE Send(p) \/ SendReplyLost(p) \/ Rejected(p) \/ RpcFails(p)
      BY <3>4, SendEffect, FailureEffect
    <3> QED
      BY <1>2, <3>1, <3>2, <3>3, <3>4 DEF Program
  <2> QED
    BY <1>2, <2>1, Frame
<1> QED
  BY <1>1, <1>2 DEF Next

LEMMA InPlaceStep ==
    ASSUME TypeOK, DecodesTxrefs, StillInPlace, TxIsMade, [Next]_vars
    PROVE  StillInPlace'
<1> USE TypesAreOfRuns
<1> DEFINE AtPlace(p, c, o) == /\ arg[p].height + 1 \in 1..Len(c)
                               /\ arg[p].index + 1 \in 1..Len(c[arg[p].height + 1])
                               /\ o = <<c[arg[p].height + 1][arg[p].index + 1], arg[p].vout>>
<1>1. \A p \in Run : arg[p].query = "txref" /\ Spending(p) /\ ~disturbed[p] => AtPlace(p, chain, spent[p])
  BY DEF StillInPlace
<1>2. ASSUME arg' = arg,
             \A p \in Run : arg[p].query = "txref" /\ Spending(p)' /\ ~disturbed'[p] =>
                                AtPlace(p, chain', spent'[p])
      PROVE  StillInPlace'
  BY <1>2 DEF StillInPlace
<1>3. CASE BitcoindMoves
  <2> SUFFICES ASSUME NEW p \in Run, arg[p].query = "txref", Spending(p), ~disturbed'[p]
               PROVE  AtPlace(p, chain', spent[p])
    BY <1>2, <1>3 DEF BitcoindMoves, runVars, Spending
  <2>1. pc[p] \in Started \cup Ended
    BY DEF Spending, Started, Ended, TxIsMade, TypeOK
  <2>2. ~disturbed[p] /\ IsPrefix(chain, chain')
    BY <1>3, <2>1 DEF BitcoindMoves, Reorganised
  <2>3. AtPlace(p, chain, spent[p])
    BY <1>1, <2>2
  <2>4. /\ chain \in Seq(Seq(Txid)) /\ Len(chain) \in Nat
        /\ chain' \in Seq(Seq(Txid)) /\ Len(chain') \in Nat
    BY <1>3, ChainFacts DEF BitcoindMoves, NodeMoves, TypeOK
  <2>5. Len(chain) <= Len(chain') /\ \A h \in 1..Len(chain) : chain[h] = chain'[h]
    BY <2>2, <2>4, PrefixEntries
  <2>6. ASSUME NEW h \in 1..Len(chain)
        PROVE  h \in 1..Len(chain')
    BY <2>4, <2>5
  <2> QED
    BY <2>3, <2>5, <2>6
<1>4. ASSUME NEW p \in Run, Program(p)
      PROVE  StillInPlace'
  <2>1. arg' = arg /\ chain' = chain /\ disturbed' = disturbed
    BY <1>4, Frame
  <2>2. arg[p].query = "txref" /\ Spending(p)' /\ ~disturbed[p] => AtPlace(p, chain, spent'[p])
    <3>1. CASE Connect(p)
      BY <3>1, ConnectEffect DEF TxIsMade, Spending, Started
    <3>2. CASE DecodeTxref(p)
      <4>1. tx'[p] = {}
        BY <3>2, DecodeEffect DEF TxIsMade
      <4>2. Decodes(arg[p]) => AtPlace(p, chain, Decoded(arg[p]))
        BY <3>2, DecodeEffect, DecodedPlace, CommandOf DEF DecodesTxrefs, TypeOK
      <4> QED
        BY <3>2, <4>1, <4>2, DecodeEffect DEF TypeOK, Spending, Started
    <3>3. CASE LookAtOutput(p) \/ Build(p)
      BY <1>1, <3>3, LookEffect, BuildEffect DEF Spending, Started
    <3>4. CASE Send(p) \/ SendReplyLost(p) \/ Rejected(p) \/ RpcFails(p)
      BY <1>1, <3>4, SendEffect, FailureEffect DEF Spending, Started
    <3> QED
      BY <1>4, <3>1, <3>2, <3>3, <3>4 DEF Program
  <2>3. ASSUME NEW q \in Run, q # p, arg[q].query = "txref", Spending(q)', ~disturbed[q]
        PROVE  AtPlace(q, chain, spent'[q])
    BY <1>1, <1>4, <2>3, Frame DEF Spending
  <2> QED
    BY <1>2, <2>1, <2>2, <2>3
<1>5. CASE UNCHANGED vars
  BY <1>5 DEF vars, nodeVars, runVars, StillInPlace, Spending
<1> QED
  BY <1>3, <1>4, <1>5 DEF Next

LEMMA AmountStep ==
    ASSUME TypeOK, AmountIsRight, TxIsMade, [Next]_vars
    PROVE  AmountIsRight'
<1> USE TypesAreOfRuns
<1> USE DEF AmountIsRight, Looked
<1>1. CASE BitcoindMoves \/ UNCHANGED vars
  BY <1>1 DEF BitcoindMoves, vars, runVars
<1>2. ASSUME NEW p \in Run, Program(p)
      PROVE  AmountIsRight'
  <2>1. (pc'[p] \in {"build", "send"} \/ tx'[p] # {}) =>
           /\ spent'[p][1] # Genesis /\ spent'[p][2] \in PayOutputs(spent'[p][1])
           /\ amount'[p] = OutputOf(spent'[p]).amount
    <3>1. CASE Connect(p) \/ DecodeTxref(p)
      BY <3>1, ConnectEffect, DecodeEffect DEF TxIsMade
    <3>2. CASE LookAtOutput(p)
      <4>1. tx'[p] = {} /\ spent' = spent
        BY <3>2, LookEffect DEF TxIsMade
      <4> QED
        BY <3>2, <4>1, LookEffect DEF GetTxOut, TypeOK
    <3>3. CASE Build(p)
      BY <3>3, BuildEffect
    <3>4. CASE Send(p) \/ SendReplyLost(p) \/ Rejected(p) \/ RpcFails(p)
      BY <3>4, SendEffect, FailureEffect
    <3> QED
      BY <1>2, <3>1, <3>2, <3>3, <3>4 DEF Program
  <2> QED
    BY <1>2, <2>1, Frame
<1> QED
  BY <1>1, <1>2 DEF Next

LEMMA TxStep ==
    ASSUME TypeOK, SpentIsNamed, AmountIsRight, TxIsMade, [Next]_vars
    PROVE  TxIsMade'
<1> USE TypesAreOfRuns
<1> USE DEF TxIsMade
<1>1. CASE BitcoindMoves \/ UNCHANGED vars
  BY <1>1 DEF BitcoindMoves, vars, runVars
<1>2. ASSUME NEW p \in Run, Program(p)
      PROVE  TxIsMade'
  <2>1. /\ pc'[p] \in {"connect", "decode", "txOut", "build"} => tx'[p] = {}
        /\ \A t \in tx'[p] : t \notin Others /\ t = Transaction(arg[p], spent'[p], amount'[p])
    <3>1. CASE Connect(p) \/ DecodeTxref(p) \/ LookAtOutput(p)
      BY <3>1, ConnectEffect, DecodeEffect, LookEffect
    <3>2. CASE Build(p)
      <4>1. CASE pc'[p] = "failed"
        BY <3>2, <4>1, BuildEffect
      <4>2. CASE pc'[p] # "failed"
        <5>1. tx'[p] = {Transaction(arg[p], spent[p], amount[p])}
          BY <3>2, <4>2, BuildEffect DEF TypeOK
        <5>2. Transaction(arg[p], spent[p], amount[p]) \notin Others
          BY <3>2, <4>2, BuildEffect, BuildMakes
        <5> QED
          BY <3>2, <4>2, <5>1, <5>2, BuildEffect
      <4> QED
        BY <4>1, <4>2
    <3>3. CASE Send(p) \/ SendReplyLost(p) \/ Rejected(p) \/ RpcFails(p)
      BY <3>3, SendEffect, FailureEffect
    <3> QED
      BY <1>2, <3>1, <3>2, <3>3 DEF Program
  <2> QED
    BY <1>2, <2>1, Frame
<1> QED
  BY <1>1, <1>2 DEF Next

LEMMA SubmittedStep ==
    ASSUME TypeOK, TxIsMade, SubmittedInView, [Next]_vars
    PROVE  SubmittedInView'
<1> USE TypesAreOfRuns
<1> USE DEF SubmittedInView
<1>1. CASE BitcoindMoves
  BY <1>1 DEF BitcoindMoves, runVars, Ended
<1>2. ASSUME NEW p \in Run, Program(p)
      PROVE  SubmittedInView'
  <2>1. pc'[p] = "submitted" => tx'[p] \subseteq View'
    <3>1. CASE Send(p) \/ SendReplyLost(p)
      <4>1. PICK t \in tx[p] : Broadcast(t)
        BY <3>1, SendEffect
      <4>2. tx[p] = {t}
        BY <4>1 DEF TxIsMade
      <4> QED
        BY <3>1, <4>1, <4>2, SendEffect, BroadcastView
    <3>2. CASE ~(Send(p) \/ SendReplyLost(p))
      BY <1>2, <3>2, ConnectEffect, DecodeEffect, LookEffect, BuildEffect, FailureEffect DEF Program
    <3> QED
      BY <3>1, <3>2
  <2> QED
    BY <1>2, <2>1, Frame
<1>3. CASE UNCHANGED vars
  BY <1>3 DEF vars, nodeVars, runVars, View, Confirmed
<1> QED
  BY <1>1, <1>2, <1>3 DEF Next

LEMMA SentStep ==
    ASSUME TypeOK, TxIsMade, SentByRuns, [Next]_vars
    PROVE  SentByRuns'
<1> USE TypesAreOfRuns
<1> USE DEF SentByRuns
<1>1. CASE BitcoindMoves \/ UNCHANGED vars
  BY <1>1 DEF BitcoindMoves, vars, runVars
<1>2. ASSUME NEW p \in Run, Program(p)
      PROVE  SentByRuns'
  <2>1. pc'[p] = "send" => ~arg[p].dryrun
    BY <1>2, ConnectEffect, DecodeEffect, LookEffect, BuildEffect, SendEffect, FailureEffect DEF Program
  <2>2. \A q \in Run : tx[q] \subseteq tx'[q]
    <3>1. tx[p] \subseteq tx'[p]
      <4>1. CASE Build(p)
        BY <4>1, BuildEffect DEF TxIsMade
      <4>2. CASE ~Build(p)
        BY <1>2, <4>2, ConnectEffect, DecodeEffect, LookEffect, SendEffect, FailureEffect DEF Program
      <4> QED
        BY <4>1, <4>2
    <3> QED
      BY <1>2, <3>1, Frame
  <2>3. \A t \in sent' : t \in sent \/ (t \in tx[p] /\ ~arg[p].dryrun)
    <3>1. CASE Send(p) \/ SendReplyLost(p)
      BY <3>1, SendEffect, BroadcastView
    <3>2. CASE ~(Send(p) \/ SendReplyLost(p))
      BY <1>2, <3>2, ConnectEffect, DecodeEffect, LookEffect, BuildEffect, FailureEffect DEF Program
    <3> QED
      BY <3>1, <3>2
  <2> QED
    BY <1>2, <2>1, <2>2, <2>3, Frame
<1> QED
  BY <1>1, <1>2 DEF Next

-----------------------------------------------------------------------------
LEMMA Invariance == Spec => []Inv
<1>1. Inv /\ [Next]_vars => Inv'
  <2> SUFFICES ASSUME Inv, [Next]_vars
               PROVE  Inv'
    OBVIOUS
  <2>1. TypeOK' /\ ViewIsLedger' /\ DecodesTxrefs'
    BY TypeStep, LedgerStep, DecodesStep DEF Inv
  <2>2. SpentIsNamed' /\ StillInPlace' /\ AmountIsRight'
    BY NamedStep, InPlaceStep, AmountStep DEF Inv
  <2>3. TxIsMade' /\ SubmittedInView' /\ SentByRuns'
    BY TxStep, SubmittedStep, SentStep DEF Inv
  <2> QED
    BY <2>1, <2>2, <2>3 DEF Inv
<1> QED
  BY InitInv, <1>1, PTL DEF Spec

(* Whatever the runs and the chains, the state is of its type; bitcoind never *)
(* knows of a transaction that the network was not given.                     *)
THEOREM CreateBtcrDidTypes == Spec => []TypeOK
<1>1. Inv => TypeOK
  BY DEF Inv
<1> QED
  BY Invariance, <1>1, PTL

(* An update spends the output that its txref names, unless the chain was     *)
(* reorganised after the txref was decoded.                                   *)
THEOREM SpendsTheNamedOutput == Spec => []SpendsWhatIsNamed
<1>1. Inv => SpendsWhatIsNamed
  <2> SUFFICES ASSUME Inv, NEW p \in Run, NEW t \in tx[p], arg[p].query = "txref", ~disturbed[p]
               PROVE  t.in = {<<chain[arg[p].height + 1][arg[p].index + 1], arg[p].vout>>}
    BY DEF SpendsWhatIsNamed
  <2>1. t = Transaction(arg[p], spent[p], amount[p]) /\ t \in Txid /\ arg[p] \in Commands
    BY CommandOf DEF Inv, TxIsMade, TypeOK
  <2>2. t.in = {spent[p]}
    BY <2>1, TransactionFacts
  <2>3. spent[p] = <<chain[arg[p].height + 1][arg[p].index + 1], arg[p].vout>>
    BY DEF Inv, StillInPlace, Spending
  <2> QED
    BY <2>2, <2>3
<1> QED
  BY Invariance, <1>1, PTL

(* Of any number of runs that use one output, only one reports success, or    *)
(* they made the same transaction, until the network drops a transaction.     *)
THEOREM NoTwoUpdates == Spec => []OneUpdatePerOutput
<1>1. Inv => OneUpdatePerOutput
  <2> SUFFICES ASSUME Inv, NEW p \in Run, NEW q \in Run,
                      pc[p] = "submitted", pc[q] = "submitted", ~disturbed[p], ~disturbed[q],
                      NEW t \in tx[p], NEW u \in tx[q], t.in \cap u.in # {}
               PROVE  t = u
    BY DEF OneUpdatePerOutput
  <2>1. t \in View /\ u \in View
    BY DEF Inv, SubmittedInView
  <2>2. Inputs[t] = t.in /\ Inputs[u] = u.in
    BY RecordFacts DEF Inv, TypeOK
  <2> QED
    BY <2>1, <2>2 DEF Inv, ViewIsLedger, Ledger
<1> QED
  BY Invariance, <1>1, PTL

(* What a dry run made is on the network only if another run sent the same.   *)
THEOREM DryRunsAreDry == Spec => []DryRunSendsNothing
<1>1. Inv => DryRunSendsNothing
  BY DEF Inv, SentByRuns, TxIsMade, DryRunSendsNothing
<1> QED
  BY Invariance, <1>1, PTL

(* A follower of the DID arrives at the run's output address, and finds all   *)
(* the money there but the fee.                                               *)
THEOREM ChangeIsReached == Spec => []FollowersReachChange
<1>1. Inv => FollowersReachChange
  <2> SUFFICES ASSUME Inv, NEW p \in Run, NEW t \in tx[p], t \in View
               PROVE  \E n \in OutputNo :
                         /\ Hop(View, spent[p], <<t, n>>)
                         /\ OutputOf(<<t, n>>).to = arg[p].address
                         /\ OutputOf(<<t, n>>).amount + arg[p].fee = OutputOf(spent[p]).amount
    BY DEF FollowersReachChange
  <2>1. t = Transaction(arg[p], spent[p], amount[p]) /\ t \in Txid /\ arg[p] \in Commands
    BY CommandOf DEF Inv, TxIsMade, TypeOK
  <2>2. PICK n \in OutputNo :
           /\ PayOutputs(t) = {n}
           /\ t.out[n + 1].to = arg[p].address
           /\ t.out[n + 1].amount = amount[p] - arg[p].fee
    BY <2>1, TransactionFacts
  <2>3. Inputs[t] = {spent[p]}
    BY <2>1, TransactionFacts
  <2>4. n \in Nat
    BY GraphAssumption DEF GraphAssumption
  <2>5. Hop(View, spent[p], <<t, n>>)
    <3>1. n <= n /\ PayOutputs(t) = {n} /\ spent[p] \in Inputs[t]
      BY <2>2, <2>3, <2>4
    <3> QED
      BY <3>1 DEF Hop
  <2>6. amount[p] \in Nat /\ arg[p].fee \in Int /\ amount[p] = OutputOf(spent[p]).amount
    BY <2>1, ArgsAssumption DEF Inv, TypeOK, AmountIsRight, Looked, ArgsAssumption, AreCommands
  <2>7. OutputOf(<<t, n>>) = t.out[n + 1]
    BY DEF OutputOf
  <2>8. OutputOf(<<t, n>>).amount + arg[p].fee = OutputOf(spent[p]).amount
    BY <2>2, <2>6, <2>7
  <2> QED
    BY <2>2, <2>5, <2>7, <2>8
<1> QED
  BY Invariance, <1>1, PTL

=============================================================================
