------------------------- MODULE DidLifecycleProofs -------------------------
(* The three programs together, with their calls interleaved and bitcoind and *)
(* chain.so moving in between: a DID that was named without the warning       *)
(* resolves to its owner's transactions only, an update by its txref spends   *)
(* its output, and an update that both services have is what is resolved.     *)
EXTENDS DidLifecycle, BitcoindProofs, FiniteSetTheorems

(* The facts about txid2txref, for what is asked of it here.                  *)
NamerFacts == INSTANCE Txid2TxrefProofs WITH
    Queries <- Txid \X Int, encoder <- "encodeTxid", query <- Output,
    pc <- namePc, decoder <- network, decoded <- {}

-----------------------------------------------------------------------------
(* The inductive invariant.                                                   *)
Runs == {"creator", "updater"}

(* pc, spent, amount and tx are functions of the runs.                        *)
OfRuns ==
    /\ pc = [p \in Runs |-> pc[p]] /\ spent = [p \in Runs |-> spent[p]]
    /\ amount = [p \in Runs |-> amount[p]] /\ tx = [p \in Runs |-> tx[p]]

Types ==
    /\ chain \in Chains /\ mempool \subseteq Txid /\ network = "test"
    /\ createArg \in CreateArgs /\ OfRuns

(* What gettxout said of the output that is to be spent.                      *)
Looked(p) ==
    /\ spent[p][1] # Genesis /\ spent[p][2] \in PayOutputs(spent[p][1])
    /\ amount[p] = Creator!OutputOf(spent[p]).amount

TxIsMade ==
    \A p \in Runs :
        /\ pc[p] \in {"connect", "decode", "txOut", "build"} => tx[p] = {}
        /\ pc[p] \in {"send", "submitted"} => tx[p] # {}
        /\ \A t \in tx[p] : tx[p] = {t} /\ t \in Txid \ Others /\ Inputs[t] = {spent[p]}

(* The creation spends what others made: there is nothing else yet.           *)
CreatorSpends ==
    /\ pc["creator"] = "decode" => createArg.query = "txref"
    /\ pc["creator"] \in {"txOut", "build"} =>
          spent["creator"] \in Creator!NamedPlaces(createArg)
    /\ pc["creator"] = "build" => Looked("creator")
    /\ pc["creator"] = "build" \/ tx["creator"] # {} => spent["creator"][1] \in Others
    /\ \A t \in tx["creator"] :
          \E o \in Creator!NamedPlaces(createArg) : Makes(createArg, o) /\ t = Made(createArg, o)

(* The update spends the output of the DID.                                   *)
UpdaterSpends ==
    /\ pc["updater"] # "connect" => Named
    /\ pc["updater"] \in {"txOut", "build"} \/ tx["updater"] # {} => spent["updater"] = Output
    /\ pc["updater"] = "build" => Looked("updater")

(* Nothing is named before the creation is submitted.                         *)
NothingNamed ==
    pc["creator"] # "submitted" =>
        namePc = "getRawTransaction" /\ ~warned /\ blockHash = {} /\ txref = {}

(* Both services only know what was sent.                                     *)
SentByOwner ==
    /\ sent \subseteq Others \cup tx["creator"] \cup tx["updater"]
    /\ View \subseteq sent /\ known \subseteq sent

(* The resolver is at the output of the DID, or at the update.                *)
FollowsDid ==
    /\ step \notin {"connect", "failed"} => Named
    /\ step \notin {"connect", "failed", "lookUp"} => txid = Output[1]
    /\ step = "follow" =>
          /\ cur = Output \/ cur[1] \in tx["updater"]
          /\ tipPc = "getTx" => next \subseteq tx["updater"]
          /\ tipPc = "answered" => answer = {cur[1]}

SettledMeans ==
    settled =>
        /\ Updated /\ step # "printed"
        /\ step = "follow" /\ tipPc = "answered" => cur[1] \in tx["updater"]

(* txid2txref's own invariant, but for its second run.                        *)
NameHolds ==
    /\ NamerFacts!TypeOK /\ NamerFacts!Networks /\ NamerFacts!Verifies
    /\ NamerFacts!BlockHasQuery /\ NamerFacts!DeepEnough /\ NamerFacts!Encoded

Inv ==
    /\ Types /\ TxIsMade /\ CreatorSpends /\ UpdaterSpends
    /\ NothingNamed /\ NameHolds /\ SentByOwner /\ FollowsDid /\ SettledMeans

-----------------------------------------------------------------------------
(* What txid2txref assumes of its constants.                                  *)
LEMMA RecordFacts ==
    ASSUME NEW t \in Txid
    PROVE  /\ Inputs[t] = t.in
           /\ Outputs[t] = 0..(Len(t.out) - 1) /\ Len(t.out) \in Nat
           /\ 0..Len(t.out) \subseteq OutputNo
<1>1. t.out \in Seq([to : STRING, amount : Nat]) /\ 0..Len(t.out) \subseteq OutputNo
  BY LifecycleAssumption DEF LifecycleAssumption, Creator!AreRecords
<1>2. Inputs[t] = t.in /\ Outputs[t] = 0..(Len(t.out) - 1)
  BY LifecycleAssumption DEF LifecycleAssumption, Creator!AreRecords
<1>3. Len(t.out) \in Nat
  BY <1>1
<1> QED
  BY <1>1, <1>2, <1>3

LEMMA SameGraph ==
    /\ NamerFacts!Place = Place /\ NamerFacts!Ledger = Ledger
    /\ \A c : NamerFacts!TxsOf(c) = TxsOf(c)
    /\ \A S : NamerFacts!Cardinality(S) = Cardinality(S) /\ Namer!Cardinality(S) = Cardinality(S)
    /\ \A S : NamerFacts!IsFiniteSet(S) = IsFiniteSet(S)
BY DEF NamerFacts!Cardinality, Namer!Cardinality, Cardinality, NamerFacts!IsFiniteSet, IsFiniteSet,
       NamerFacts!Place, Place, NamerFacts!Ledger, Ledger,
       NamerFacts!TxsOf, TxsOf, NamerFacts!ToSet, ToSet

LEMMA NamerAssumptions ==
    /\ OutputNo \subseteq Nat
    /\ Outputs \in [Txid -> SUBSET OutputNo]
    /\ OpReturn \in [Txid -> SUBSET OutputNo]
    /\ Inputs \in [Txid -> SUBSET NamerFacts!Place]
    /\ \A t \in Txid : \A o \in Inputs[t] : o[2] \in Outputs[o[1]] \ OpReturn[o[1]]
    /\ \A c \in Chains :
        /\ c \in Seq(Seq(Txid))
        /\ NamerFacts!IsPrefix(<< <<Genesis>> >>, c)
        /\ NamerFacts!TxsOf(c) \in NamerFacts!Ledger
        /\ \A h, k \in DOMAIN c : \A i \in DOMAIN c[h], j \in DOMAIN c[k] :
              c[h][i] = c[k][j] => h = k /\ i = j
    /\ Txid \X Int \subseteq Txid \X Int
    /\ MaxReorg \in 0..5
    /\ \A t \in Txid :
          /\ NamerFacts!IsFiniteSet(Outputs[t])
          /\ Outputs[t] = 0..(NamerFacts!Cardinality(Outputs[t]) - 1)
          /\ 0..NamerFacts!Cardinality(Outputs[t]) \subseteq OutputNo
<1>1. ASSUME NEW t \in Txid
      PROVE  /\ IsFiniteSet(Outputs[t])
             /\ Outputs[t] = 0..(Cardinality(Outputs[t]) - 1)
             /\ 0..Cardinality(Outputs[t]) \subseteq OutputNo
  <2> DEFINE n == Len(t.out)
  <2>1. Outputs[t] = 0..(n - 1) /\ n \in Nat /\ 0..n \subseteq OutputNo
    BY RecordFacts
  <2> HIDE DEF n
  <2>2. IsFiniteSet(0..(n - 1)) /\ Cardinality(0..(n - 1)) = n
    BY <2>1, FS_Interval
  <2> QED
    BY <2>1, <2>2
<1>2. ASSUME NEW c \in Chains
      PROVE  NamerFacts!IsPrefix(<< <<Genesis>> >>, c)
  BY ChainsAssumption DEF ChainsAssumption, NamerFacts!IsPrefix, IsPrefix
<1>3. MaxReorg \in 0..5
  BY LifecycleAssumption DEF LifecycleAssumption
<1> QED
  BY <1>1, <1>2, <1>3, SameGraph, GraphAssumption, ChainsAssumption
     DEF GraphAssumption, ChainsAssumption

LEMMA SameCalls ==
    /\ NamerFacts!EncodeGetRawTransaction = Namer!EncodeGetRawTransaction
    /\ NamerFacts!EncodeGetBlock = Namer!EncodeGetBlock
    /\ NamerFacts!RpcFails = Namer!RpcFails
    /\ NamerFacts!BitcoindMoves = Namer!BitcoindMoves
<1> USE DEF NamerFacts!Goto, Namer!Goto, NamerFacts!Fails, Namer!Fails,
            NamerFacts!nodeVars, Namer!nodeVars
<1>1. NamerFacts!EncodeGetRawTransaction = Namer!EncodeGetRawTransaction
  BY DEF NamerFacts!EncodeGetRawTransaction, Namer!EncodeGetRawTransaction,
         NamerFacts!GetRawTransaction, Namer!GetRawTransaction, NamerFacts!View, Namer!View,
         NamerFacts!Confirmed, Namer!Confirmed, NamerFacts!TxsOf, Namer!TxsOf,
         NamerFacts!ToSet, Namer!ToSet, NamerFacts!HashOfBlockWith, Namer!HashOfBlockWith,
         NamerFacts!BlockHash, Namer!BlockHash, NamerFacts!BlockTx, Namer!BlockTx,
         NamerFacts!Last, Namer!Last
<1>2. NamerFacts!EncodeGetBlock = Namer!EncodeGetBlock
  BY SameGraph DEF NamerFacts!EncodeGetBlock, Namer!EncodeGetBlock, NamerFacts!Encode, Namer!Encode,
         NamerFacts!TooLarge, Namer!TooLarge, NamerFacts!TxoIndex, Namer!TxoIndex,
         NamerFacts!TooFew, Namer!TooFew, NamerFacts!Confirmations, Namer!Confirmations,
         NamerFacts!IsPrefix, Namer!IsPrefix, NamerFacts!BlockHeight, Namer!BlockHeight,
         NamerFacts!BlockIndex, Namer!BlockIndex, NamerFacts!BlockTx, Namer!BlockTx,
         NamerFacts!Last, Namer!Last
<1>3. NamerFacts!RpcFails = Namer!RpcFails
  BY DEF NamerFacts!RpcFails, Namer!RpcFails, NamerFacts!Encoding, Namer!Encoding,
         NamerFacts!Decoding, Namer!Decoding
<1>4. NamerFacts!BitcoindMoves = Namer!BitcoindMoves
  BY DEF NamerFacts!BitcoindMoves, Namer!BitcoindMoves, NamerFacts!NodeMoves, Namer!NodeMoves,
         NamerFacts!Shallow, Namer!Shallow, NamerFacts!Reorganised, Namer!Reorganised,
         NamerFacts!IsPrefix, Namer!IsPrefix, NamerFacts!runVars, Namer!runVars,
         NamerFacts!Mempools, Namer!Mempools, NamerFacts!Unconfirmed, Namer!Unconfirmed,
         NamerFacts!SmallSets, Namer!SmallSets, NamerFacts!TxsOf, Namer!TxsOf,
         NamerFacts!ToSet, Namer!ToSet, NamerFacts!Ledger, Namer!Ledger
<1> QED
  BY <1>1, <1>2, <1>3, <1>4

(* A step of txid2txref, or one of bitcoind as it sees it.                    *)
LEMMA NamerNext ==
    ASSUME NameHolds, [NamerFacts!Next]_(NamerFacts!vars)
    PROVE  NameHolds'
<1> USE DEF NameHolds
<1>1. NamerFacts!TypeOK'
  BY NamerFacts!TypeStep, NamerAssumptions
<1>2. NamerFacts!Networks' /\ NamerFacts!Verifies'
  BY NamerFacts!NetworkStep, NamerFacts!VerifiesStep, NamerAssumptions
<1>3. NamerFacts!BlockHasQuery' /\ NamerFacts!DeepEnough' /\ NamerFacts!Encoded'
  BY NamerFacts!BlockHasQueryStep, NamerFacts!DeepEnoughStep, NamerFacts!EncodedStep,
     NamerAssumptions
<1> QED
  BY <1>1, <1>2, <1>3

-----------------------------------------------------------------------------
(* What one run of createBtcrDid does, and what it leaves alone.              *)
LEMMA Frame ==
    ASSUME OfRuns, NEW p \in Runs, Creator!Program(p)
    PROVE  /\ UNCHANGED <<chain, network>> /\ OfRuns'
           /\ \A q \in Runs : q # p =>
                 /\ pc'[q] = pc[q] /\ spent'[q] = spent[q]
                 /\ amount'[q] = amount[q] /\ tx'[q] = tx[q]
<1> USE DEF OfRuns, Runs, Creator!Goto, Creator!nodeVars
<1>1. CASE Creator!Connect(p) \/ Creator!DecodeTxref(p) \/ Creator!LookAtOutput(p)
  BY <1>1 DEF Creator!Connect, Creator!DecodeTxref, Creator!LookAtOutput
<1>2. CASE Creator!Build(p) \/ Creator!Rejected(p) \/ Creator!RpcFails(p)
  BY <1>2 DEF Creator!Build, Creator!Rejected, Creator!RpcFails
<1>3. CASE Creator!Send(p) \/ Creator!SendReplyLost(p)
  BY <1>3 DEF Creator!Send, Creator!SendReplyLost, Creator!Broadcast
<1> QED
  BY <1>1, <1>2, <1>3 DEF Creator!Program

Keeps == UNCHANGED <<mempool, sent>>

LEMMA ConnectEffect ==
    ASSUME OfRuns, NEW p \in Runs, Creator!Connect(p)
    PROVE  /\ pc[p] = "connect" /\ UNCHANGED tx /\ Keeps
           /\ pc'[p] \in {"decode", "txOut", "failed"}
           /\ pc'[p] = "decode" => Arg[p].query = "txref"
           /\ pc'[p] = "txOut" =>
                 /\ Arg[p].query = "txid"
                 /\ spent'[p] =
                       <<Arg[p].txid, IF Arg[p].txoIndex < 0 THEN 0 ELSE Arg[p].txoIndex>>
BY DEF Creator!Connect, Creator!Goto, OfRuns, Runs, Creator!nodeVars, Keeps

LEMMA DecodeEffect ==
    ASSUME OfRuns, NEW p \in Runs, Creator!DecodeTxref(p)
    PROVE  /\ pc[p] = "decode" /\ UNCHANGED tx /\ Keeps
           /\ pc'[p] \in {"txOut", "failed"}
           /\ pc'[p] = "txOut" =>
                 Creator!Decodes(Arg[p]) /\ spent'[p] = Creator!Decoded(Arg[p])
BY DEF Creator!DecodeTxref, Creator!Goto, OfRuns, Runs, Creator!nodeVars, Keeps

LEMMA LookEffect ==
    ASSUME OfRuns, NEW p \in Runs, Creator!LookAtOutput(p)
    PROVE  /\ pc[p] = "txOut" /\ UNCHANGED <<tx, spent>> /\ Keeps
           /\ pc'[p] \in {"build", "crashed", "failed"}
           /\ pc'[p] # "failed" =>
                 /\ Creator!GetTxOut(spent[p])
                 /\ amount'[p] = Creator!OutputOf(spent[p]).amount
BY DEF Creator!LookAtOutput, Creator!Goto, OfRuns, Runs, Creator!nodeVars, Keeps

LEMMA BuildEffect ==
    ASSUME OfRuns, NEW p \in Runs, Creator!Build(p)
    PROVE  /\ pc[p] = "build" /\ UNCHANGED <<spent, amount>> /\ Keeps
           /\ pc'[p] \in {"send", "dryrun", "failed"}
           /\ pc'[p] # "failed" =>
                 /\ Creator!CreatesRaw(Arg[p], amount[p]) /\ Creator!Signs(Arg[p], spent[p])
                 /\ tx'[p] = {Creator!Transaction(Arg[p], spent[p], amount[p])}
           /\ pc'[p] = "failed" => tx' = tx
BY DEF Creator!Build, Creator!Signed, Creator!Goto, OfRuns, Runs, Creator!nodeVars, Keeps

LEMMA SendEffect ==
    ASSUME OfRuns, NEW p \in Runs, Creator!Send(p) \/ Creator!SendReplyLost(p)
    PROVE  /\ pc[p] = "send" /\ UNCHANGED <<spent, amount, tx>>
           /\ pc'[p] \in {"submitted", "failed"}
           /\ \E t \in tx[p] : mempool' = mempool \cup {t} /\ sent' = sent \cup {t}
BY DEF Creator!Send, Creator!SendReplyLost, Creator!Broadcast, Creator!Goto, OfRuns, Runs

LEMMA FailureEffect ==
    ASSUME OfRuns, NEW p \in Runs, Creator!Rejected(p) \/ Creator!RpcFails(p)
    PROVE  /\ pc[p] \notin {"submitted", "failed"}
           /\ pc'[p] = "failed" /\ UNCHANGED <<spent, amount, tx>> /\ Keeps
BY DEF Creator!Rejected, Creator!Refused, Creator!RpcFails, Creator!Goto, Creator!Ended,
       OfRuns, Runs, Creator!nodeVars, Keeps

(* A run that has submitted its transaction does nothing more, and one that   *)
(* has made it makes no other.                                                *)
LEMMA MadeOnce ==
    ASSUME OfRuns, TxIsMade, NEW p \in Runs, Creator!Program(p)
    PROVE  /\ pc[p] # "submitted"
           /\ tx[p] # {} => tx'[p] = tx[p] /\ spent'[p] = spent[p]
           /\ tx[p] \subseteq tx'[p]
           /\ Creator!Build(p) \/ tx' = tx
BY ConnectEffect, DecodeEffect, LookEffect, BuildEffect, SendEffect, FailureEffect
   DEF Creator!Program, TxIsMade

(* The command lines.                                                         *)
LEMMA CommandFacts ==
    ASSUME NEW a \in CreateArgs
    PROVE  /\ a.height \in Nat /\ a.index \in Nat /\ a.vout \in OutputNo
           /\ a.txid \in Txid /\ a.txoIndex \in Int /\ a.fee \in Int
<1> DEFINE args == [p \in {"creator", "updater"} |-> a]
<1>1. /\ args["creator"] = a /\ "creator" \in {"creator", "updater"}
      /\ args \in {[p \in {"creator", "updater"} |-> b] : b \in CreateArgs}
  OBVIOUS
<1> HIDE DEF args
<1>2. a \in Creator!Commands
  BY <1>1 DEF Creator!Commands
<1> QED
  BY <1>2, LifecycleAssumption DEF LifecycleAssumption, Creator!AreCommands

(* The transaction that creates the DID is at the place that was named, which *)
(* the chain keeps.                                                           *)
LEMMA NameFacts ==
    ASSUME Types, TxIsMade, NothingNamed, NameHolds, Named
    PROVE  /\ pc["creator"] = "submitted"
           /\ Name.height \in Nat /\ Name.index \in Nat /\ Name.vout = Output[2]
           /\ Name.height + 1 \in 1..Len(chain)
           /\ Name.index + 1 \in 1..Len(chain[Name.height + 1])
           /\ chain[Name.height + 1][Name.index + 1] = Output[1]
           /\ tx["creator"] = {Output[1]} /\ Output[1] \in Txid \ Others
           /\ Output = <<Output[1], Output[2]>>
<1>1. pc["creator"] = "submitted"
  BY DEF NothingNamed, Named
<1>2. tx["creator"] = {Output[1]} /\ Output[1] \in Txid \ Others
  BY <1>1 DEF TxIsMade, Runs, Output
<1>3. Output = <<Output[1], 1>> /\ Output[2] = 1
  BY <1>2 DEF Output, Creator!PrintedTxoIndex
<1>4. Name \in txref
  BY DEF Name, Named, NameHolds, NamerFacts!TypeOK
<1>5. Name.height \in Nat /\ Name.index \in Nat
  BY <1>4 DEF NameHolds, NamerFacts!TypeOK, NamerFacts!Txref
<1>6. Name.vout = Output[2]
  BY <1>3, <1>4 DEF NameHolds, NamerFacts!Encoded, NamerFacts!TxoIndex
<1>7. NamerFacts!NotWarned
  BY DEF Named, NamerFacts!NotWarned, NamerFacts!Encoding
<1>8. /\ Name.height + 1 \in 1..(Len(chain) - 5)
      /\ Name.index + 1 \in 1..Len(chain[Name.height + 1])
      /\ chain[Name.height + 1][Name.index + 1] = Output[1]
  BY <1>4, <1>7 DEF NameHolds, NamerFacts!DeepEnough
<1>9. Name.height + 1 \in 1..Len(chain)
  <2>1. Len(chain) \in Nat
    BY ChainFacts DEF Types
  <2> QED
    BY <1>5, <1>8, <2>1
<1> QED
  BY <1>1, <1>2, <1>3, <1>5, <1>6, <1>8, <1>9

-----------------------------------------------------------------------------
(* What the steps leave alone.                                                *)
LEMMA MovesEffect ==
    ASSUME BitcoindMoves
    PROVE  /\ chain' \in Chains /\ mempool' \subseteq Txid /\ View' \subseteq sent
           /\ UNCHANGED <<network, createArg, pc, spent, amount, tx, sent, namerVars, known>>
           /\ UNCHANGED <<step, txid, tipPc, cur, next, answer>>
<1>1. chain' \in Chains /\ mempool' \subseteq Txid /\ network' = network
  BY DEF BitcoindMoves, Creator!BitcoindMoves, Creator!NodeMoves, Creator!Mempools, Creator!Ledger
<1>2. View' \subseteq sent
  BY DEF BitcoindMoves, Creator!BitcoindMoves, Creator!View, View, Creator!Confirmed, Confirmed,
         Creator!TxsOf, TxsOf, Creator!ToSet, ToSet
<1> QED
  BY <1>1, <1>2 DEF BitcoindMoves, Creator!BitcoindMoves, Creator!runVars,
                    Resolver!BitcoindMoves, Resolver!didVars, Resolver!tipVars

LEMMA ChainSoEffect ==
    ASSUME ChainSoMoves
    PROVE  /\ known' \subseteq sent /\ UNCHANGED <<nodeVars, creatorVars, namerVars>>
           /\ UNCHANGED <<step, txid, tipPc, cur, next, answer>>
BY DEF ChainSoMoves, Resolver!ChainSoMoves, Resolver!didVars, Resolver!tipVars,
       creatorVars, nodeVars

LEMMA NameItEffect ==
    ASSUME NameIt
    PROVE  /\ pc["creator"] = "submitted" /\ ~Named
           /\ UNCHANGED <<nodeVars, creatorVars, known, resolverVars>>
           /\ [NamerFacts!Next]_(NamerFacts!vars)
<1>1. ~Named
  BY DEF NameIt, Namer!EncodeGetRawTransaction, Namer!EncodeGetBlock, Namer!RpcFails,
         Namer!Encoding, Namer!Decoding, Named
<1>2. [NamerFacts!Next]_(NamerFacts!vars)
  BY SameCalls DEF NameIt, NamerFacts!Next, NamerFacts!Program
<1> QED
  BY <1>1, <1>2 DEF NameIt

LEMMA ResolveEffect ==
    ASSUME Resolve
    PROVE  Named /\ UNCHANGED <<nodeVars, creatorVars, namerVars, known>>
BY DEF Resolve, Resolver!Program, Resolver!RpcFails, Resolver!Follow, Resolver!Goto, nodeVars,
       Resolver!nodeVars, Resolver!Connect, Resolver!LookUp, Resolver!Exists,
       Resolver!ExtractDetails, Resolver!PrintOwn, Resolver!AskChainSo

(* A DID that has its name keeps it.                                          *)
LEMMA NameStays ==
    ASSUME Types, TxIsMade, NothingNamed, [Next]_vars
    PROVE  Named => /\ Named' /\ Name' = Name /\ Output' = Output
                    /\ UNCHANGED <<createArg, network>>
                    /\ pc'["creator"] = pc["creator"] /\ tx'["creator"] = tx["creator"]
<1> SUFFICES ASSUME Named
             PROVE  /\ Named' /\ Name' = Name /\ Output' = Output
                    /\ UNCHANGED <<createArg, network>>
                    /\ pc'["creator"] = pc["creator"] /\ tx'["creator"] = tx["creator"]
  OBVIOUS
<1> SUFFICES /\ UNCHANGED <<namerVars, createArg, network>>
             /\ pc'["creator"] = pc["creator"] /\ tx'["creator"] = tx["creator"]
  <2>1. UNCHANGED namerVars => Named' /\ Name' = Name
    BY DEF Named, Name, namerVars
  <2>2. tx'["creator"] = tx["creator"] => Output' = Output
    BY DEF Output, Creator!PrintedTxoIndex
  <2> QED
    BY <2>1, <2>2
<1>1. pc["creator"] = "submitted"
  BY DEF NothingNamed, Named
<1>2. CASE BitcoindMoves \/ ChainSoMoves \/ NameIt \/ Resolve
  BY <1>2, MovesEffect, ChainSoEffect, NameItEffect, ResolveEffect DEF creatorVars, nodeVars
<1>3. CASE Create
  BY <1>1, <1>3, MadeOnce DEF Create, Types, Runs
<1>4. CASE Update
  BY <1>4, Frame DEF Update, Types, Runs
<1>5. CASE UNCHANGED vars
  BY <1>5 DEF vars, creatorVars, nodeVars
<1> QED
  BY <1>2, <1>3, <1>4, <1>5 DEF Next

LEMMA TypesStep ==
    ASSUME Types, TxIsMade, [Next]_vars
    PROVE  Types'
<1>1. CASE BitcoindMoves \/ ChainSoMoves \/ NameIt \/ Resolve
  BY <1>1, MovesEffect, ChainSoEffect, NameItEffect, ResolveEffect
     DEF Types, OfRuns, creatorVars, nodeVars
<1>2. ASSUME NEW p \in Runs, Creator!Program(p), createArg' = createArg
      PROVE  Types'
  <2>1. mempool' \subseteq Txid
    BY <1>2, ConnectEffect, DecodeEffect, LookEffect, BuildEffect, SendEffect, FailureEffect
       DEF Types, TxIsMade, Keeps, Creator!Program
  <2> QED
    BY <1>2, <2>1, Frame DEF Types
<1>3. CASE Create \/ Update
  BY <1>2, <1>3 DEF Create, Update, Runs
<1>4. CASE UNCHANGED vars
  BY <1>4 DEF vars, creatorVars, nodeVars, Types, OfRuns
<1> QED
  BY <1>1, <1>3, <1>4 DEF Next

LEMMA NothingNamedStep ==
    ASSUME Types, TxIsMade, NothingNamed, [Next]_vars
    PROVE  NothingNamed'
<1> USE DEF NothingNamed
<1>1. CASE BitcoindMoves \/ ChainSoMoves \/ NameIt \/ Resolve
  BY <1>1, MovesEffect, ChainSoEffect, NameItEffect, ResolveEffect DEF creatorVars, namerVars
<1>2. CASE Create
  BY <1>2, MadeOnce DEF Create, Types, Runs, namerVars
<1>3. CASE Update
  BY <1>3, Frame DEF Update, Types, Runs, namerVars
<1>4. CASE UNCHANGED vars
  BY <1>4 DEF vars, creatorVars, namerVars
<1> QED
  BY <1>1, <1>2, <1>3, <1>4 DEF Next

(* The other programs leave txid2txref's chain alone, and change what it will *)
(* be asked only before it is.                                                *)
LEMMA NamerUndisturbed ==
    ASSUME NameHolds, Types', UNCHANGED <<chain, network, namerVars>>, Output' \in Txid \X Int,
           \/ Output' = Output
           \/ namePc = "getRawTransaction" /\ blockHash = {} /\ txref = {}
    PROVE  NameHolds'
<1> USE DEF NameHolds, namerVars
<1>1. NamerFacts!TypeOK'
  BY DEF NamerFacts!TypeOK, Types, NamerFacts!Encoding, NamerFacts!Decoding
<1>2. NamerFacts!Networks' /\ NamerFacts!Verifies'
  BY DEF NamerFacts!Networks, NamerFacts!Verifies
<1>3. NamerFacts!BlockHasQuery' /\ NamerFacts!DeepEnough' /\ NamerFacts!Encoded'
  BY DEF NamerFacts!BlockHasQuery, NamerFacts!DeepEnough, NamerFacts!NotWarned,
         NamerFacts!Encoding, NamerFacts!Encoded, NamerFacts!TxoIndex
<1> QED
  BY <1>1, <1>2, <1>3

LEMMA NameHoldsStep ==
    ASSUME Types, TxIsMade, NothingNamed, NameHolds, [Next]_vars, Types', TxIsMade'
    PROVE  NameHolds'
<1>1. CASE BitcoindMoves
  <2>1. NamerFacts!BitcoindMoves
    BY <1>1, SameCalls DEF BitcoindMoves
  <2> QED
    BY <2>1, NamerNext DEF NamerFacts!Next
<1>2. CASE NameIt
  BY <1>2, NameItEffect, NamerNext
<1>3. Output' \in Txid \X Int
  <2>1. Genesis \in Txid
    BY ChainFacts DEF Types
  <2>2. tx'["creator"] \subseteq Txid
    BY DEF TxIsMade, Runs
  <2> QED
    BY <2>1, <2>2 DEF Output, Creator!PrintedTxoIndex
<1>4. CASE ChainSoMoves \/ Resolve \/ UNCHANGED vars
  <2>1. UNCHANGED <<chain, network, namerVars, tx>>
    BY <1>4, ChainSoEffect, ResolveEffect DEF vars, creatorVars, nodeVars
  <2> QED
    BY <1>3, <2>1, NamerUndisturbed DEF Output, Creator!PrintedTxoIndex
<1>5. CASE Create
  <2>1. UNCHANGED <<chain, network, namerVars>> /\ pc["creator"] # "submitted"
    BY <1>5, MadeOnce, Frame DEF Create, Types, Runs
  <2> QED
    BY <1>3, <2>1, NamerUndisturbed DEF NothingNamed
<1>6. CASE Update
  <2>1. UNCHANGED <<chain, network, namerVars>> /\ tx'["creator"] = tx["creator"]
    BY <1>6, Frame DEF Update, Types, Runs
  <2> QED
    BY <1>3, <2>1, NamerUndisturbed DEF Output, Creator!PrintedTxoIndex
<1> QED
  BY <1>1, <1>2, <1>4, <1>5, <1>6 DEF Next

-----------------------------------------------------------------------------
(* createBtcrDid and didResolver see the same bitcoind.                       *)
LEMMA SameNode ==
    /\ Creator!View = View /\ Resolver!View = View /\ Resolver!Confirmed = Confirmed
    /\ \A hash : Creator!BlockTx(hash) = BlockTx(hash) /\ Resolver!BlockTx(hash) = BlockTx(hash)
    /\ \A h : Creator!BlockHash(h) = BlockHash(h) /\ Resolver!BlockHash(h) = BlockHash(h)
    /\ \A h : Creator!HasBlock(h) = HasBlock(h) /\ Resolver!HasBlock(h) = HasBlock(h)
    /\ \A t : Creator!PayOutputs(t) = PayOutputs(t) /\ Resolver!PayOutputs(t) = PayOutputs(t)
BY DEF Creator!View, Resolver!View, View, Creator!Confirmed, Resolver!Confirmed, Confirmed,
       Creator!TxsOf, Resolver!TxsOf, TxsOf, Creator!ToSet, Resolver!ToSet, ToSet,
       Creator!BlockTx, Resolver!BlockTx, BlockTx, Creator!Last, Resolver!Last, Last,
       Creator!BlockHash, Resolver!BlockHash, BlockHash,
       Creator!HasBlock, Resolver!HasBlock, HasBlock,
       Creator!PayOutputs, Resolver!PayOutputs, PayOutputs

LEMMA TransactionFacts ==
    ASSUME NEW a, NEW o, NEW value, Creator!Transaction(a, o, value) \in Txid
    PROVE  Inputs[Creator!Transaction(a, o, value)] = {o}
<1> DEFINE t == Creator!Transaction(a, o, value)
<1>1. t.in = {o}
  BY DEF Creator!Transaction
<1> HIDE DEF t
<1>2. Inputs[t] = t.in
  BY RecordFacts DEF t
<1> QED
  BY <1>1, <1>2 DEF t

(* The update is asked for with the txref, and otherwise as its owner wants.  *)
LEMMA UpdateFacts ==
    ASSUME Named
    PROVE  LET a == Arg["updater"] IN
           /\ a.query = "txref" /\ a.height = Name.height /\ a.index = Name.index
           /\ a.vout = Name.vout
           /\ a.address = UpdateArg.address /\ a.fee = UpdateArg.fee /\ a.key = UpdateArg.key
BY LifecycleAssumption DEF LifecycleAssumption, Arg

LEMMA CreateArgIs == Arg["creator"] = createArg
BY DEF Arg

(* Whatever either run builds is new, and in the graph.                       *)
LEMMA CreationIsTx ==
    ASSUME Types, CreatorSpends, Creator!Build("creator"), pc'["creator"] # "failed"
    PROVE  LET t == Creator!Transaction(createArg, spent["creator"], amount["creator"]) IN
           /\ t \in Txid \ Others /\ tx'["creator"] = {t}
           /\ \E o \in Creator!NamedPlaces(createArg) : Makes(createArg, o) /\ t = Made(createArg, o)
<1>1. /\ pc["creator"] = "build"
      /\ Creator!CreatesRaw(createArg, amount["creator"])
      /\ Creator!Signs(createArg, spent["creator"])
      /\ tx'["creator"] = {Creator!Transaction(createArg, spent["creator"], amount["creator"])}
  BY BuildEffect, CreateArgIs DEF Types, Runs
<1>2. Looked("creator") /\ spent["creator"] \in Creator!NamedPlaces(createArg)
  BY <1>1 DEF CreatorSpends
<1>3. /\ Makes(createArg, spent["creator"])
      /\ Creator!Transaction(createArg, spent["creator"], amount["creator"])
            = Made(createArg, spent["creator"])
  BY <1>1, <1>2 DEF Looked, Makes, Made
<1>4. Made(createArg, spent["creator"]) \in Txid \ Others
  BY <1>2, <1>3, LifecycleAssumption DEF LifecycleAssumption, Types
<1> QED
  BY <1>1, <1>2, <1>3, <1>4

LEMMA UpdateIsTx ==
    ASSUME Types, TxIsMade, CreatorSpends, UpdaterSpends, NothingNamed, NameHolds,
           Creator!Build("updater"), pc'["updater"] # "failed"
    PROVE  LET t == Creator!Transaction(Arg["updater"], spent["updater"], amount["updater"]) IN
           t \in Txid \ Others /\ tx'["updater"] = {t}
<1>1. /\ pc["updater"] = "build"
      /\ Creator!CreatesRaw(Arg["updater"], amount["updater"])
      /\ Creator!Signs(Arg["updater"], spent["updater"])
      /\ tx'["updater"] = {Creator!Transaction(Arg["updater"], spent["updater"], amount["updater"])}
  BY BuildEffect DEF Types, Runs
<1>2. Named /\ Looked("updater") /\ spent["updater"] = Output
  BY <1>1 DEF UpdaterSpends
<1>3. /\ Makes(UpdateArg, Output)
      /\ Creator!Transaction(Arg["updater"], spent["updater"], amount["updater"])
            = Made(UpdateArg, Output)
  BY <1>1, <1>2, UpdateFacts
     DEF Looked, Makes, Made, Creator!CreatesRaw, Creator!Signs, Creator!Transaction,
         Creator!OutputAddress
<1>4. PICK o \in Creator!NamedPlaces(createArg) :
         Makes(createArg, o) /\ Output = <<Made(createArg, o), Creator!PrintedTxoIndex>>
  <2>1. tx["creator"] = {Output[1]} /\ tx["creator"] # {}
    BY <1>2, NameFacts
  <2>2. Output = <<Output[1], Creator!PrintedTxoIndex>>
    BY <2>1 DEF Output
  <2>3. \E o \in Creator!NamedPlaces(createArg) : Makes(createArg, o) /\ Output[1] = Made(createArg, o)
    BY <2>1 DEF CreatorSpends
  <2> QED
    BY <2>2, <2>3
<1>5. Made(UpdateArg, Output) \in Txid \ Others
  BY <1>3, <1>4, LifecycleAssumption DEF LifecycleAssumption, Types
<1> QED
  BY <1>1, <1>3, <1>5

LEMMA TxIsMadeStep ==
    ASSUME Types, TxIsMade, CreatorSpends, UpdaterSpends, NothingNamed, NameHolds, [Next]_vars
    PROVE  TxIsMade'
<1>1. CASE BitcoindMoves \/ ChainSoMoves \/ NameIt \/ Resolve
  BY <1>1, MovesEffect, ChainSoEffect, NameItEffect, ResolveEffect DEF TxIsMade, creatorVars
<1>2. ASSUME NEW p \in Runs, Creator!Program(p),
             Creator!Build(p) /\ pc'[p] # "failed" =>
                \E t \in Txid \ Others : tx'[p] = {t} /\ Inputs[t] = {spent[p]}
      PROVE  TxIsMade'
  <2>1. /\ pc'[p] \in {"connect", "decode", "txOut", "build"} => tx'[p] = {}
        /\ pc'[p] \in {"send", "submitted"} => tx'[p] # {}
        /\ \A t \in tx'[p] : tx'[p] = {t} /\ t \in Txid \ Others /\ Inputs[t] = {spent'[p]}
    <3>1. CASE Creator!Connect(p) \/ Creator!DecodeTxref(p) \/ Creator!LookAtOutput(p)
      BY <3>1, ConnectEffect, DecodeEffect, LookEffect DEF TxIsMade, Types
    <3>2. CASE Creator!Build(p)
      BY <1>2, <3>2, BuildEffect DEF TxIsMade, Types
    <3>3. CASE Creator!Send(p) \/ Creator!SendReplyLost(p) \/ Creator!Rejected(p) \/ Creator!RpcFails(p)
      BY <3>3, SendEffect, FailureEffect DEF TxIsMade, Types
    <3> QED
      BY <1>2, <3>1, <3>2, <3>3 DEF Creator!Program
  <2> QED
    BY <1>2, <2>1, Frame DEF TxIsMade, Types
<1>3. CASE Create
  BY <1>2, <1>3, CreationIsTx, CreateArgIs, TransactionFacts DEF Create, Runs
<1>4. CASE Update
  BY <1>2, <1>4, UpdateIsTx, TransactionFacts DEF Update, Runs
<1>5. CASE UNCHANGED vars
  BY <1>5 DEF vars, creatorVars, TxIsMade
<1> QED
  BY <1>1, <1>3, <1>4, <1>5 DEF Next

(* What has been made is not made again.                                      *)
LEMMA TxGrows ==
    ASSUME Types, TxIsMade, NEW p \in Runs, [Next]_vars
    PROVE  /\ tx[p] \subseteq tx'[p]
           /\ tx[p] # {} => tx'[p] = tx[p] /\ spent'[p] = spent[p]
<1>1. CASE BitcoindMoves \/ ChainSoMoves \/ NameIt \/ Resolve
  BY <1>1, MovesEffect, ChainSoEffect, NameItEffect, ResolveEffect DEF creatorVars
<1>2. CASE Create \/ Update
  BY <1>2, MadeOnce, Frame DEF Create, Update, Types, Runs
<1>3. CASE UNCHANGED vars
  BY <1>3 DEF vars, creatorVars
<1> QED
  BY <1>1, <1>2, <1>3 DEF Next


-----------------------------------------------------------------------------
(* A run that gettxout answered has an output that bitcoind has unspent.      *)
LEMMA LookFacts ==
    ASSUME Types, NEW p \in Runs, Creator!LookAtOutput(p), pc'[p] = "build"
    PROVE  Looked(p)' /\ spent'[p] = spent[p] /\ spent[p][1] \in View
<1>1. /\ Creator!GetTxOut(spent[p]) /\ spent' = spent
      /\ amount'[p] = Creator!OutputOf(spent[p]).amount
  BY LookEffect DEF Types
<1>2. spent[p][1] \in View \ {Genesis} /\ spent[p][2] \in PayOutputs(spent[p][1])
  BY <1>1, SameNode DEF Creator!GetTxOut
<1> QED
  BY <1>1, <1>2 DEF Looked, Creator!OutputOf

(* What is decoded of a command line with a txref is named by it.             *)
LEMMA DecodedIsNamed ==
    ASSUME Types, NEW a \in CreateArgs, a.query = "txref", Creator!Decodes(a)
    PROVE  Creator!Decoded(a) \in Creator!NamedPlaces(a)
<1> DEFINE h == a.height
           i == a.index
<1>1. h \in Nat /\ i \in Nat
  BY CommandFacts
<1>2. h < Len(chain) /\ Len(chain) \in Nat /\ chain \in Chains
  BY ChainFacts DEF Types, Creator!Decodes, Creator!HasBlock
<1>3. BlockTx(BlockHash(h)) = chain[h + 1]
  BY <1>1, <1>2, BlockOfHeight DEF HasBlock
<1>4. i < Len(chain[h + 1]) /\ Creator!Decoded(a) = <<chain[h + 1][i + 1], a.vout>>
  BY <1>3, SameNode DEF Creator!Decodes, Creator!Decoded
<1> QED
  BY <1>2, <1>4 DEF Creator!NamedPlaces

LEMMA CreatorSpendsStep ==
    ASSUME Types, TxIsMade, CreatorSpends, UpdaterSpends, NothingNamed, SentByOwner, [Next]_vars
    PROVE  CreatorSpends'
<1>1. CASE BitcoindMoves \/ ChainSoMoves \/ NameIt \/ Resolve
  BY <1>1, MovesEffect, ChainSoEffect, NameItEffect, ResolveEffect
     DEF CreatorSpends, Looked, creatorVars
<1>2. CASE Update
  BY <1>2, Frame DEF Update, CreatorSpends, Looked, Types, Runs
<1>3. ASSUME Creator!Program("creator"), createArg' = createArg
      PROVE  CreatorSpends'
  <2> USE DEF Runs
  <2>1. OfRuns /\ createArg \in CreateArgs
    BY DEF Types
  <2>2. CASE Creator!Connect("creator")
    <3>1. tx'["creator"] = {} /\ pc'["creator"] \in {"decode", "txOut", "failed"}
      BY <2>1, <2>2, ConnectEffect DEF TxIsMade
    <3>2. pc'["creator"] = "decode" => createArg.query = "txref"
      BY <2>1, <2>2, ConnectEffect, CreateArgIs
    <3>3. pc'["creator"] = "txOut" => spent'["creator"] \in Creator!NamedPlaces(createArg)
      BY <2>1, <2>2, ConnectEffect, CreateArgIs DEF Creator!NamedPlaces
    <3> QED
      BY <1>3, <3>1, <3>2, <3>3 DEF CreatorSpends
  <2>3. CASE Creator!DecodeTxref("creator")
    <3>1. tx'["creator"] = {} /\ pc'["creator"] \in {"txOut", "failed"}
      BY <2>1, <2>3, DecodeEffect DEF TxIsMade
    <3>2. createArg.query = "txref"
      BY <2>1, <2>3, DecodeEffect DEF CreatorSpends
    <3>3. pc'["creator"] = "txOut" => spent'["creator"] \in Creator!NamedPlaces(createArg)
      BY <2>1, <2>3, <3>2, DecodeEffect, DecodedIsNamed, CreateArgIs
    <3> QED
      BY <1>3, <3>1, <3>3 DEF CreatorSpends
  <2>4. CASE Creator!LookAtOutput("creator")
    <3>1. /\ pc["creator"] = "txOut" /\ tx'["creator"] = {} /\ tx["creator"] = {}
          /\ pc'["creator"] \in {"build", "crashed", "failed"}
      BY <2>1, <2>4, LookEffect DEF TxIsMade
    <3>2. spent'["creator"] = spent["creator"] /\ spent["creator"] \in Creator!NamedPlaces(createArg)
      BY <2>1, <2>4, <3>1, LookEffect DEF CreatorSpends
    <3>3. tx["updater"] = {}
      BY <3>1 DEF NothingNamed, Named, UpdaterSpends, TxIsMade
    <3>4. View \subseteq Others
      BY <3>1, <3>3 DEF SentByOwner
    <3>5. pc'["creator"] = "build" => Looked("creator")' /\ spent'["creator"][1] \in Others
      BY <2>4, <3>2, <3>4, LookFacts
    <3> QED
      BY <1>3, <3>1, <3>2, <3>5 DEF CreatorSpends
  <2>5. CASE Creator!Build("creator")
    <3>1. /\ pc["creator"] = "build" /\ spent'["creator"] = spent["creator"]
          /\ pc'["creator"] \in {"send", "dryrun", "failed"}
          /\ pc'["creator"] = "failed" => tx'["creator"] = {}
      BY <2>1, <2>5, BuildEffect DEF TxIsMade
    <3>2. spent["creator"][1] \in Others
      BY <3>1 DEF CreatorSpends
    <3>3. \A t \in tx'["creator"] :
             \E o \in Creator!NamedPlaces(createArg) : Makes(createArg, o) /\ t = Made(createArg, o)
      BY <2>5, <3>1, CreationIsTx
    <3> QED
      BY <1>3, <3>1, <3>2, <3>3 DEF CreatorSpends, Makes, Made
  <2>6. CASE Creator!Send("creator") \/ Creator!SendReplyLost("creator")
    BY <1>3, <2>1, <2>6, SendEffect DEF CreatorSpends
  <2>7. CASE Creator!Rejected("creator") \/ Creator!RpcFails("creator")
    BY <1>3, <2>1, <2>7, FailureEffect DEF CreatorSpends
  <2> QED
    BY <1>3, <2>2, <2>3, <2>4, <2>5, <2>6, <2>7 DEF Creator!Program
<1>4. CASE Create
  BY <1>3, <1>4 DEF Create
<1>5. CASE UNCHANGED vars
  BY <1>5 DEF vars, creatorVars, CreatorSpends, Looked
<1> QED
  BY <1>1, <1>2, <1>4, <1>5 DEF Next

LEMMA UpdaterSpendsStep ==
    ASSUME Types, TxIsMade, UpdaterSpends, NothingNamed, NameHolds, [Next]_vars
    PROVE  UpdaterSpends'
<1>0. Named => Named' /\ Output' = Output
  BY NameStays
<1>1. CASE BitcoindMoves \/ ChainSoMoves \/ NameIt \/ Resolve
  <2>1. UNCHANGED <<pc, spent, amount, tx>>
    BY <1>1, MovesEffect, ChainSoEffect, NameItEffect, ResolveEffect DEF creatorVars
  <2>2. pc["updater"] # "connect" \/ tx["updater"] # {} => Named
    BY DEF UpdaterSpends, TxIsMade, Runs
  <2> QED
    BY <1>0, <2>1, <2>2 DEF UpdaterSpends, Looked
<1>2. CASE Create
  <2>1. /\ pc'["updater"] = pc["updater"] /\ spent'["updater"] = spent["updater"]
        /\ amount'["updater"] = amount["updater"] /\ tx'["updater"] = tx["updater"]
    BY <1>2, Frame DEF Create, Types, Runs
  <2>2. pc["updater"] # "connect" \/ tx["updater"] # {} => Named
    BY DEF UpdaterSpends, TxIsMade, Runs
  <2> QED
    BY <1>0, <2>1, <2>2 DEF UpdaterSpends, Looked
<1>3. CASE Update
  <2> USE DEF Runs
  <2>1. OfRuns /\ Named /\ Named' /\ Output' = Output /\ Creator!Program("updater")
    BY <1>0, <1>3 DEF Types, Update
  <2>2. CASE Creator!Connect("updater")
    <3>1. tx'["updater"] = {} /\ pc'["updater"] \in {"decode", "failed"}
      BY <2>1, <2>2, ConnectEffect, UpdateFacts DEF TxIsMade
    <3> QED
      BY <2>1, <3>1 DEF UpdaterSpends
  <2>3. CASE Creator!DecodeTxref("updater")
    <3>1. tx'["updater"] = {} /\ pc'["updater"] \in {"txOut", "failed"}
      BY <2>1, <2>3, DecodeEffect DEF TxIsMade
    <3>2. Creator!Decoded(Arg["updater"]) = Output
      <4> DEFINE h == Name.height
                 i == Name.index
      <4>1. /\ h \in Nat /\ i \in Nat /\ Name.vout = Output[2] /\ h + 1 \in 1..Len(chain)
            /\ chain[h + 1][i + 1] = Output[1] /\ Output = <<Output[1], Output[2]>>
        BY <2>1, NameFacts
      <4>2. Len(chain) \in Nat /\ chain \in Chains
        BY ChainFacts DEF Types
      <4>3. BlockTx(BlockHash(h)) = chain[h + 1]
        BY <4>1, <4>2, BlockOfHeight DEF HasBlock
      <4>4. Creator!Decoded(Arg["updater"]) = <<BlockTx(BlockHash(h))[i + 1], Name.vout>>
        BY <2>1, SameNode, UpdateFacts DEF Creator!Decoded
      <4> QED
        BY <4>1, <4>3, <4>4
    <3>3. pc'["updater"] = "txOut" => spent'["updater"] = Output
      BY <2>1, <2>3, <3>2, DecodeEffect
    <3> QED
      BY <2>1, <3>1, <3>3 DEF UpdaterSpends
  <2>4. CASE Creator!LookAtOutput("updater")
    <3>1. pc["updater"] = "txOut" /\ tx' = tx /\ spent' = spent
      BY <2>1, <2>4, LookEffect
    <3>2. pc'["updater"] = "build" => Looked("updater")'
      BY <2>4, LookFacts
    <3> QED
      BY <2>1, <3>1, <3>2 DEF UpdaterSpends
  <2>5. CASE Creator!Build("updater")
    <3>1. /\ pc["updater"] = "build" /\ spent' = spent
          /\ pc'["updater"] \in {"send", "dryrun", "failed"}
      BY <2>1, <2>5, BuildEffect
    <3> QED
      BY <2>1, <3>1 DEF UpdaterSpends
  <2>6. CASE Creator!Send("updater") \/ Creator!SendReplyLost("updater")
    BY <2>1, <2>6, SendEffect DEF UpdaterSpends
  <2>7. CASE Creator!Rejected("updater") \/ Creator!RpcFails("updater")
    BY <2>1, <2>7, FailureEffect DEF UpdaterSpends
  <2> QED
    BY <2>1, <2>2, <2>3, <2>4, <2>5, <2>6, <2>7 DEF Creator!Program
<1>4. CASE UNCHANGED vars
  <2>1. UNCHANGED <<pc, spent, amount, tx>>
    BY <1>4 DEF vars, creatorVars
  <2>2. pc["updater"] # "connect" \/ tx["updater"] # {} => Named
    BY DEF UpdaterSpends, TxIsMade, Runs
  <2> QED
    BY <1>0, <2>1, <2>2 DEF UpdaterSpends, Looked
<1> QED
  BY <1>1, <1>2, <1>3, <1>4 DEF Next

(* The network is given what was made.                                        *)
LEMMA SentByOwnerStep ==
    ASSUME Types, TxIsMade, SentByOwner, [Next]_vars
    PROVE  SentByOwner'
<1>0. tx["creator"] \subseteq tx'["creator"] /\ tx["updater"] \subseteq tx'["updater"]
  BY TxGrows DEF Runs
<1>1. CASE BitcoindMoves
  BY <1>0, <1>1, MovesEffect DEF SentByOwner
<1>2. CASE ChainSoMoves \/ NameIt \/ Resolve \/ UNCHANGED vars
  <2>1. UNCHANGED <<chain, mempool, sent>> /\ known' \in {known} \cup SUBSET sent
    BY <1>2, ChainSoEffect, NameItEffect, ResolveEffect DEF vars, nodeVars, creatorVars
  <2> QED
    BY <1>0, <2>1 DEF SentByOwner, View, Confirmed
<1>3. ASSUME NEW p \in Runs, Creator!Program(p), known' = known
      PROVE  SentByOwner'
  <2>1. chain' = chain /\ Confirmed' = Confirmed
    BY <1>3, Frame DEF Types, Confirmed
  <2>2. CASE Keeps
    BY <1>0, <1>3, <2>1, <2>2 DEF SentByOwner, View, Keeps
  <2>3. CASE Creator!Send(p) \/ Creator!SendReplyLost(p)
    <3>1. PICK t \in tx[p] : mempool' = mempool \cup {t} /\ sent' = sent \cup {t}
      BY <2>3, SendEffect DEF Types
    <3>2. t \in tx'["creator"] \cup tx'["updater"]
      BY <1>0, <3>1 DEF Runs
    <3> QED
      BY <1>0, <1>3, <2>1, <3>1, <3>2 DEF SentByOwner, View
  <2> QED
    BY <1>3, <2>2, <2>3, ConnectEffect, DecodeEffect, LookEffect, BuildEffect, FailureEffect
       DEF Types, Creator!Program
<1>4. CASE Create \/ Update
  BY <1>3, <1>4 DEF Create, Update, Runs
<1> QED
  BY <1>1, <1>2, <1>4 DEF Next

-----------------------------------------------------------------------------
(* What a step of the resolver does: before it asks chain.so, ...             *)
LEMMA BeforeFollow ==
    ASSUME Named, network = "test", NEW d, d = Did,
           Resolver!RpcFails \/ Resolver!Connect \/ Resolver!LookUp \/ Resolver!Exists
              \/ Resolver!ExtractDetails \/ Resolver!PrintOwn \/ Resolver!AskChainSo
    PROVE  \/ step' = "failed"
           \/ step = "connect" /\ step' = "lookUp"
           \/ /\ step = "lookUp" /\ step' = "exists"
              /\ txid' = BlockTx(BlockHash(d.height))[d.index + 1]
           \/ /\ step \in {"exists", "details"} /\ step' \in {"details", "txOut"}
              /\ txid' = txid
           \/ /\ step = "txOut" /\ step' = "printed" /\ txid' = txid
              /\ ~SpentIn(View, <<txid, d.vout>>)
           \/ /\ step = "txOut" /\ step' = "follow" /\ txid' = txid
              /\ tipPc' = "isSpent" /\ cur' = <<txid, d.vout>>
<1> USE DEF Resolver!Goto
<1>1. CASE Resolver!RpcFails \/ Resolver!Connect
  BY <1>1 DEF Resolver!RpcFails, Resolver!Connect
<1>2. CASE Resolver!LookUp
  BY <1>2, SameNode DEF Resolver!LookUp, Resolver!NotThere
<1>3. CASE Resolver!Exists \/ Resolver!ExtractDetails
  BY <1>3 DEF Resolver!Exists, Resolver!ExtractDetails
<1>4. CASE Resolver!PrintOwn
  BY <1>4, SameNode DEF Resolver!PrintOwn, Resolver!Unspent, Resolver!GetTxOut,
                        Resolver!SpentIn, SpentIn
<1>5. CASE Resolver!AskChainSo
  BY <1>5 DEF Resolver!AskChainSo, Resolver!Asked, Resolver!AskedAbout, Resolver!Tip!Call
<1> QED
  BY <1>1, <1>2, <1>3, <1>4, <1>5

(* ... and after. On this network the index asked is chain.so's of bitcoind's *)
(* network.                                                                   *)
LEMMA AfterAsking ==
    ASSUME network = "test", Resolver!Follow
    PROVE  /\ step = "follow" /\ step' = "follow" /\ txid' = txid
           /\ tipPc \in {"isSpent", "getTx"}
           /\ \/ tipPc' \in {"crashed", "failed"} /\ cur' = cur
              \/ tipPc' = tipPc /\ cur' = cur /\ next' = next
              \/ tipPc' = "answered" /\ cur' = cur /\ answer' = {cur[1]} /\ ~SpentIn(known, cur)
              \/ /\ tipPc' = "getTx" /\ cur' = cur
                 /\ \E t \in known : cur \in Inputs[t] /\ next' = {t}
              \/ /\ tipPc = "getTx" /\ tipPc' = "isSpent"
                 /\ \E t \in next : cur'[1] = t
<1>1. Resolver!Index = known
  BY DEF Resolver!Index, Resolver!QueryNetwork, Resolver!IsTestnet
<1>2. step = "follow" /\ step' = "follow" /\ txid' = txid
  BY DEF Resolver!Follow, Resolver!didVars
<1>3. CASE Resolver!Tip!Throttled
  BY <1>2, <1>3 DEF Resolver!Tip!Throttled, Resolver!Tip!Again, Resolver!Tip!Asking
<1>4. CASE Resolver!Tip!NothingFound \/ Resolver!Tip!NoNextOutput
           \/ Resolver!Tip!Garbled \/ Resolver!Tip!Incomplete
  BY <1>2, <1>4 DEF Resolver!Tip!NothingFound, Resolver!Tip!NoNextOutput, Resolver!Tip!Garbled,
                    Resolver!Tip!Incomplete, Resolver!Tip!Asking
<1>5. CASE Resolver!Tip!NotSpent
  BY <1>1, <1>2, <1>5 DEF Resolver!Tip!NotSpent, Resolver!Tip!LastTxid, Resolver!Tip!SpentIn, SpentIn
<1>6. CASE Resolver!Tip!Spent
  BY <1>1, <1>2, <1>6 DEF Resolver!Tip!Spent, Resolver!Tip!NextTxid
<1>7. CASE Resolver!Tip!Recurse
  BY <1>2, <1>7 DEF Resolver!Tip!Recurse, Resolver!Tip!NextPlace
<1> QED
  BY <1>3, <1>4, <1>5, <1>6, <1>7
     DEF Resolver!Follow, Resolver!Query, Resolver!Tip!Reply

(* Only the owner spends the output of the DID, or what its update creates.   *)
LEMMA OnlyTheOwnerSpends ==
    ASSUME Types, TxIsMade, CreatorSpends, NothingNamed, NameHolds, SentByOwner, Named,
           cur = Output \/ cur[1] \in tx["updater"],
           NEW t \in known, cur \in Inputs[t]
    PROVE  t \in tx["updater"]
<1>1. cur[1] \notin Others
  BY NameFacts DEF TxIsMade, Runs
<1>2. t \in Others \cup tx["creator"] \cup tx["updater"]
  BY DEF SentByOwner
<1>3. t \notin Others
  BY <1>1, LifecycleAssumption DEF LifecycleAssumption
<1>4. t \notin tx["creator"]
  BY <1>1 DEF TxIsMade, CreatorSpends, Runs
<1> QED
  BY <1>2, <1>3, <1>4

LEMMA FollowsDidStep ==
    ASSUME Types, TxIsMade, CreatorSpends, NothingNamed, NameHolds, SentByOwner, FollowsDid,
           [Next]_vars
    PROVE  FollowsDid'
<1>1. CASE BitcoindMoves \/ ChainSoMoves \/ Create \/ NameIt \/ Update \/ UNCHANGED vars
  <2>1. UNCHANGED <<step, txid, tipPc, cur, next, answer>>
    BY <1>1, MovesEffect, ChainSoEffect, NameItEffect
       DEF Create, Update, vars, resolverVars
  <2>2. tx["updater"] \subseteq tx'["updater"]
    BY TxGrows DEF Runs
  <2>3. Named => Named' /\ Output' = Output
    BY NameStays
  <2> QED
    BY <2>1, <2>2, <2>3 DEF FollowsDid
<1>2. CASE Resolve
  <2>1. Named /\ Named' /\ Output' = Output /\ tx' = tx
    BY <1>2, NameStays, ResolveEffect DEF creatorVars
  <2>2. network = "test"
    BY DEF Types
  <2>3. CASE Resolver!Follow
    <3>1. /\ step = "follow" /\ step' = "follow" /\ txid' = txid
          /\ tipPc \in {"isSpent", "getTx"}
      BY <2>2, <2>3, AfterAsking
    <3>2. cur = Output \/ cur[1] \in tx["updater"]
      BY <3>1 DEF FollowsDid
    <3>3. \A t \in known : cur \in Inputs[t] => t \in tx["updater"]
      BY <2>1, <3>2, OnlyTheOwnerSpends
    <3>4. /\ cur' = Output \/ cur'[1] \in tx["updater"]
          /\ tipPc' = "getTx" => next' \subseteq tx["updater"]
          /\ tipPc' = "answered" => answer' = {cur'[1]}
      BY <2>2, <2>3, <3>1, <3>2, <3>3, AfterAsking DEF FollowsDid
    <3> QED
      BY <2>1, <3>1, <3>4 DEF FollowsDid
  <2>4. CASE ~Resolver!Follow
    <3> DEFINE d == Did
    <3>1. d.height = Name.height /\ d.index = Name.index /\ d.vout = Name.vout
      BY <2>1 DEF Did
    <3>2. BlockTx(BlockHash(d.height))[d.index + 1] = Output[1] /\ <<Output[1], d.vout>> = Output
      <4> DEFINE h == Name.height
                 i == Name.index
      <4>1. /\ h \in Nat /\ i \in Nat /\ Name.vout = Output[2] /\ h + 1 \in 1..Len(chain)
            /\ chain[h + 1][i + 1] = Output[1] /\ Output = <<Output[1], Output[2]>>
        BY <2>1, NameFacts
      <4>2. Len(chain) \in Nat /\ chain \in Chains
        BY ChainFacts DEF Types
      <4>3. BlockTx(BlockHash(h)) = chain[h + 1]
        BY <4>1, <4>2, BlockOfHeight DEF HasBlock
      <4> QED
        BY <3>1, <4>1, <4>3
    <3> HIDE DEF d
    <3>3. \/ step' = "failed"
          \/ step = "connect" /\ step' = "lookUp"
          \/ /\ step = "lookUp" /\ step' = "exists"
             /\ txid' = BlockTx(BlockHash(d.height))[d.index + 1]
          \/ /\ step \in {"exists", "details"} /\ step' \in {"details", "txOut"}
             /\ txid' = txid
          \/ /\ step = "txOut" /\ step' = "printed" /\ txid' = txid
             /\ ~SpentIn(View, <<txid, d.vout>>)
          \/ /\ step = "txOut" /\ step' = "follow" /\ txid' = txid
             /\ tipPc' = "isSpent" /\ cur' = <<txid, d.vout>>
      BY <1>2, <2>1, <2>2, <2>4, BeforeFollow DEF d, Resolve, Resolver!Program
    <3> QED
      BY <2>1, <3>2, <3>3 DEF FollowsDid
  <2> QED
    BY <2>3, <2>4
<1> QED
  BY <1>1, <1>2 DEF Next

(* An update that both services have is not overlooked.                       *)
LEMMA SettledMeansStep ==
    ASSUME Types, TxIsMade, CreatorSpends, UpdaterSpends, NothingNamed, NameHolds, SentByOwner,
           FollowsDid, SettledMeans, [Next]_vars, FollowsDid'
    PROVE  SettledMeans'
<1>1. CASE UNCHANGED vars
  <2>1. UNCHANGED <<chain, tx, known, step, tipPc, cur, settled>>
    BY <1>1 DEF vars, nodeVars, creatorVars, resolverVars
  <2> QED
    BY <2>1 DEF SettledMeans, Updated, Confirmed
<1>2. CASE Next
  <2> SUFFICES ASSUME settled' PROVE SettledMeans'
    BY DEF SettledMeans
  <2>1. Updated' /\ (settled \/ step = "connect")
    BY <1>2 DEF Next, BitcoindMoves, ChainSoMoves, Create, NameIt, Update, Resolve, Settle
  <2>2. CASE BitcoindMoves \/ ChainSoMoves \/ Create \/ NameIt \/ Update
    <3>1. UNCHANGED <<step, tipPc, cur>>
      BY <2>2, MovesEffect, ChainSoEffect, NameItEffect
         DEF Create, Update, resolverVars
    <3>2. tx["updater"] \subseteq tx'["updater"]
      BY TxGrows DEF Runs
    <3> QED
      BY <2>1, <3>1, <3>2 DEF SettledMeans
  <2>3. CASE Resolve
    <3>1. Named /\ tx' = tx /\ network = "test"
      BY <2>3, ResolveEffect DEF Types, creatorVars
    <3>2. settled => SpentIn(View, Output) /\ SpentIn(known, Output)
      BY DEF SettledMeans, Updated, UpdaterSpends, TxIsMade, Runs, SpentIn, View
    <3>3. CASE Resolver!Follow
      <4>1. step = "follow" /\ step' = "follow"
        BY <3>1, <3>3, AfterAsking
      <4>2. tipPc' = "answered" => cur' = cur /\ ~SpentIn(known, cur)
        BY <3>1, <3>3, AfterAsking
      <4>3. cur = Output \/ cur[1] \in tx["updater"]
        BY <4>1 DEF FollowsDid
      <4> QED
        BY <2>1, <3>1, <3>2, <4>1, <4>2, <4>3 DEF SettledMeans
    <3>4. CASE ~Resolver!Follow
      <4> DEFINE d == Did
      <4>1. d.vout = Output[2] /\ Output = <<Output[1], Output[2]>>
        BY <3>1, NameFacts DEF Did
      <4> HIDE DEF d
      <4>2. \/ step' \in {"failed", "lookUp", "exists", "details", "txOut"}
            \/ /\ step = "txOut" /\ step' = "printed" /\ ~SpentIn(View, <<txid, d.vout>>)
            \/ step = "txOut" /\ step' = "follow" /\ tipPc' = "isSpent"
        BY <2>3, <3>1, <3>4, BeforeFollow DEF d, Resolve, Resolver!Program
      <4>3. step = "txOut" => <<txid, d.vout>> = Output
        BY <4>1 DEF FollowsDid
      <4>4. step' # "printed" /\ ~(step' = "follow" /\ tipPc' = "answered")
        BY <2>1, <3>2, <4>2, <4>3
      <4> QED
        BY <2>1, <4>4 DEF SettledMeans
    <3> QED
      BY <3>3, <3>4
  <2> QED
    BY <1>2, <2>2, <2>3 DEF Next
<1> QED
  BY <1>1, <1>2

-----------------------------------------------------------------------------
LEMMA InvInit == Init => Inv
<1> SUFFICES ASSUME Init PROVE Inv
  OBVIOUS
<1>1. chain \in Chains /\ mempool \subseteq Txid /\ network = "test" /\ createArg \in CreateArgs
  BY DEF Init, NodeInit, Mempools, Ledger
<1>2. OfRuns /\ \A p \in Runs : pc[p] = "connect" /\ tx[p] = {}
  BY DEF Init, OfRuns, Runs
<1>3. ~Named /\ NothingNamed
  BY DEF Init, Named, NothingNamed
<1>4. Types
  BY <1>1, <1>2 DEF Types
<1>5. TxIsMade /\ CreatorSpends /\ UpdaterSpends
  BY <1>2 DEF TxIsMade, CreatorSpends, UpdaterSpends, Runs
<1>6. SentByOwner /\ FollowsDid /\ SettledMeans
  BY DEF Init, SentByOwner, FollowsDid, SettledMeans, View
<1>7. NameHolds
  <2>1. Output = <<Genesis, 0>>
    BY <1>2 DEF Output, Runs
  <2>2. Output \in Txid \X Int
    BY <1>1, <2>1, ChainFacts
  <2>3. NamerFacts!TypeOK
    BY <1>1, <2>2 DEF Init, NamerFacts!TypeOK, NamerFacts!Encoding, NamerFacts!Decoding
  <2> QED
    BY <1>1, <2>3 DEF Init, NameHolds, NamerFacts!Networks, NamerFacts!Verifies,
        NamerFacts!BlockHasQuery, NamerFacts!DeepEnough, NamerFacts!NotWarned,
        NamerFacts!Encoding, NamerFacts!Encoded
<1> QED
  BY <1>3, <1>4, <1>5, <1>6, <1>7 DEF Inv

LEMMA InvStep == Inv /\ [Next]_vars => Inv'
<1> SUFFICES ASSUME Inv, [Next]_vars PROVE Inv'
  OBVIOUS
<1> USE DEF Inv
<1>1. Types' /\ TxIsMade'
  BY TypesStep, TxIsMadeStep
<1>2. CreatorSpends' /\ UpdaterSpends'
  BY CreatorSpendsStep, UpdaterSpendsStep
<1>3. NothingNamed' /\ NameHolds'
  BY <1>1, NothingNamedStep, NameHoldsStep
<1>4. SentByOwner' /\ FollowsDid'
  BY SentByOwnerStep, FollowsDidStep
<1>5. SettledMeans'
  BY <1>4, SettledMeansStep
<1> QED
  BY <1>1, <1>2, <1>3, <1>4, <1>5

LEMMA Invariance == Spec => []Inv
BY InvInit, InvStep, PTL DEF Spec

-----------------------------------------------------------------------------
(* How a run of the resolver that printed something ended.                    *)
LEMMA HowItPrinted ==
    ASSUME Printed
    PROVE  \/ step = "printed" /\ Resolver!LastTxid = {txid}
           \/ step = "follow" /\ tipPc = "answered" /\ Resolver!LastTxid = answer
BY DEF Printed, Resolver!Outcome, Resolver!LastTxid, Resolver!Tip!Ended

(* createBtcrDid given the txref (src/src/createBtcrDid.cpp:39-61) spends   *)
(* the output that the txref was printed for, in every order of the calls and *)
(* under every reorganisation that the warning allows for.                    *)
THEOREM UpdateTakesTheDid == Spec => []UpdateSpendsTheDid
<1>1. Inv => UpdateSpendsTheDid
  <2> SUFFICES ASSUME Inv, NEW t \in tx["updater"] PROVE t.in = {Output}
    BY DEF UpdateSpendsTheDid
  <2>1. t \in Txid /\ Inputs[t] = {Output}
    BY DEF Inv, TxIsMade, UpdaterSpends, Runs
  <2> QED
    BY <2>1, RecordFacts
<1> QED
  BY <1>1, Invariance, PTL

(* didResolver (src/src/didResolver.cpp:135-264) given a DID that was named   *)
(* without the warning prints its creation or its update, whoever else makes  *)
(* transactions and however bitcoind and chain.so move between its calls.     *)
THEOREM OwnersOnly == Spec => []ResolvesToItsOwners
<1>1. Inv => ResolvesToItsOwners
  <2> SUFFICES ASSUME Inv, Printed
               PROVE  Resolver!LastTxid \subseteq tx["creator"] \cup tx["updater"]
    BY DEF ResolvesToItsOwners
  <2>1. Named /\ txid = Output[1]
    BY HowItPrinted DEF Inv, FollowsDid
  <2>2. tx["creator"] = {Output[1]}
    BY <2>1, NameFacts DEF Inv
  <2>3. step = "follow" /\ tipPc = "answered" => answer \subseteq {Output[1]} \cup tx["updater"]
    BY DEF Inv, FollowsDid
  <2> QED
    BY <2>1, <2>2, <2>3, HowItPrinted
<1> QED
  BY <1>1, Invariance, PTL

(* And when both services have the update all the while it runs, the update   *)
(* is what it prints (src/src/didResolver.cpp:199-213).                       *)
THEOREM UpdateIsFound == Spec => []LatestIsResolved
<1>1. Inv => LatestIsResolved
  <2> SUFFICES ASSUME Inv, Printed, settled PROVE Resolver!LastTxid = tx["updater"]
    BY DEF LatestIsResolved
  <2>1. step = "follow" /\ tipPc = "answered" /\ Resolver!LastTxid = answer
    BY HowItPrinted DEF Inv, SettledMeans
  <2>2. answer = {cur[1]} /\ cur[1] \in tx["updater"]
    BY <2>1 DEF Inv, FollowsDid, SettledMeans
  <2>3. tx["updater"] = {cur[1]}
    BY <2>2 DEF Inv, TxIsMade, Runs
  <2> QED
    BY <2>1, <2>2, <2>3
<1> QED
  BY <1>1, Invariance, PTL
=============================================================================
