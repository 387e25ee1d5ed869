-------------------------- MODULE DidResolverProofs --------------------------
(* didResolver calls the chain query as FollowTip says, and so what is proved *)
(* of FollowTip holds of the query inside the program: whichever of its two   *)
(* services the answer came from, the txid that is printed belongs to the     *)
(* DID. The position it prints is the DID's, unless the chain was reorganised.*)
EXTENDS DidResolver, BitcoindProofs

(* The facts about FollowTip, for the query as didResolver makes it.          *)
TipFacts == INSTANCE FollowTipProofs WITH known <- Index, pc <- tipPc

-----------------------------------------------------------------------------
(* The inductive invariant. Only a DID is looked up; what was looked up is at *)
(* the DID's place until the chain is reorganised; the query is about the     *)
(* output the DID names, and its cursor is on the DID's path, as FollowTip's  *)
(* invariant has it, still when it has answered.                              *)
IsDid == step \notin {"connect", "failed"} => did.form = "btcr"

AtItsPlace ==
    step \in {"exists", "details", "txOut", "follow", "printed"} /\ ~reorganised =>
        /\ did.height + 1 \in 1..Len(chain)
        /\ did.index + 1 \in 1..Len(chain[did.height + 1])
        /\ chain[did.height + 1][did.index + 1] = txid

AsksAboutDid == step = "follow" => start = <<txid, did.vout>>

AnswerOnPath ==
    tipPc = "answered" =>
        /\ answer = {cur[1]}
        /\ \A K \in Ledger : cur[1] \in K => cur \in Reach(K, start)

Inv ==
    /\ TypeOK /\ IsDid
    /\ AtItsPlace /\ PositionTruthful
    /\ Tip!CursorOnPath /\ AsksAboutDid /\ AnswerOnPath

-----------------------------------------------------------------------------
(* TipFacts speaks of the specification that didResolver's Tip is.            *)
LEMMA SameTypes ==
    /\ TipFacts!TypeOK = Tip!TypeOK /\ TipFacts!TypeOK' = Tip!TypeOK'
    /\ TipFacts!CursorOnPath = Tip!CursorOnPath
    /\ TipFacts!CursorOnPath' = Tip!CursorOnPath'
    /\ TipFacts!vars = Tip!vars /\ TipFacts!vars' = Tip!vars'
    /\ TipFacts!Init = Tip!Init
BY DEF TipFacts!TypeOK, Tip!TypeOK, TipFacts!CursorOnPath, Tip!CursorOnPath,
       TipFacts!vars, Tip!vars, TipFacts!Init, Tip!Init,
       TipFacts!Asking, Tip!Asking, TipFacts!Ended, Tip!Ended,
       TipFacts!Ledger, Tip!Ledger, TipFacts!Place, Tip!Place,
       TipFacts!Reach, Tip!Reach, TipFacts!Stops, Tip!Stops,
       TipFacts!ClosedUnderHops, Tip!ClosedUnderHops, TipFacts!Hop, Tip!Hop,
       TipFacts!PayOutputs, Tip!PayOutputs

LEMMA SameSteps == TipFacts!Next = Tip!Next
<1>1. TipFacts!IndexStep = Tip!IndexStep
  BY DEF TipFacts!IndexStep, Tip!IndexStep, TipFacts!IndexGrows, Tip!IndexGrows,
         TipFacts!IndexRewritten, Tip!IndexRewritten, TipFacts!Asking, Tip!Asking,
         TipFacts!Ledger, Tip!Ledger, TipFacts!Place, Tip!Place
<1>2. \A o : TipFacts!Call(o) = Tip!Call(o)
  BY DEF TipFacts!Call, Tip!Call
<1>3. TipFacts!Throttled = Tip!Throttled
  BY DEF TipFacts!Throttled, Tip!Throttled, TipFacts!Again, Tip!Again,
         TipFacts!Asking, Tip!Asking
<1>4. TipFacts!Reply = Tip!Reply
  BY DEF TipFacts!Reply, Tip!Reply, TipFacts!NothingFound, Tip!NothingFound,
         TipFacts!NotSpent, Tip!NotSpent, TipFacts!Spent, Tip!Spent,
         TipFacts!NoNextOutput, Tip!NoNextOutput, TipFacts!Recurse, Tip!Recurse,
         TipFacts!Garbled, Tip!Garbled, TipFacts!Incomplete, Tip!Incomplete,
         TipFacts!LastTxid, Tip!LastTxid, TipFacts!NextTxid, Tip!NextTxid,
         TipFacts!NextPlace, Tip!NextPlace, TipFacts!OutputNums, Tip!OutputNums,
         TipFacts!NextUtxoIndex, Tip!NextUtxoIndex, TipFacts!Min, Tip!Min, TipFacts!Asking, Tip!Asking,
         TipFacts!ExistsIn, Tip!ExistsIn, TipFacts!SpentIn, Tip!SpentIn
<1> QED
  BY <1>1, <1>2, <1>3, <1>4
     DEF TipFacts!Next, Tip!Next, TipFacts!Place, Tip!Place

(* What TipFacts assumes of its constants.                                    *)
LEMMA TipAssumptions ==
    /\ OutputNo \subseteq Nat
    /\ Outputs \in [Txid -> SUBSET OutputNo]
    /\ OpReturn \in [Txid -> SUBSET OutputNo]
    /\ Inputs \in [Txid -> SUBSET TipFacts!Place]
    /\ \A t \in Txid : \A o \in Inputs[t] : o[2] \in Outputs[o[1]] \ OpReturn[o[1]]
    /\ MaxAttempts \in Nat \ {0}
BY GraphAssumption, DidsAssumption
   DEF GraphAssumption, DidsAssumption, Place, TipFacts!Place

LEMMA QueryTypes == Tip!TypeOK /\ [Tip!Next]_(Tip!vars) => Tip!TypeOK'
<1>1. TipFacts!TypeOK /\ [TipFacts!Next]_(TipFacts!vars) => TipFacts!TypeOK'
  BY TipFacts!TypeStep, TipAssumptions
<1> QED
  BY <1>1, SameTypes, SameSteps

LEMMA QueryPath ==
    Tip!TypeOK /\ Tip!CursorOnPath /\ [Tip!Next]_(Tip!vars) => Tip!CursorOnPath'
<1>1. TipFacts!TypeOK /\ TipFacts!CursorOnPath /\ [TipFacts!Next]_(TipFacts!vars)
      => TipFacts!CursorOnPath'
  BY TipFacts!PathStep, TipAssumptions
<1> QED
  BY <1>1, SameTypes, SameSteps

LEMMA SameGraph ==
    /\ Tip!Ledger = Ledger /\ Tip!Place = Place
    /\ \A K, s : Tip!Reach(K, s) = Reach(K, s)
BY DEF Tip!Ledger, Ledger, Tip!Place, Place, Tip!Reach, Reach, Tip!Stops, Stops,
       Tip!ClosedUnderHops, ClosedUnderHops, Tip!Hop, Hop, Tip!PayOutputs, PayOutputs

(* What the query returned is where its cursor was, which moves no more.      *)
LEMMA QueryAnswers ==
    ASSUME Tip!CursorOnPath, AnswerOnPath, [Tip!Next]_(Tip!vars)
    PROVE  AnswerOnPath'
<1> USE DEF AnswerOnPath
<1>1. CASE Tip!NotSpent
  BY <1>1, SameGraph DEF Tip!NotSpent, Tip!LastTxid, Tip!CursorOnPath, Tip!Asking
<1>2. CASE Tip!IndexStep
  BY <1>2 DEF Tip!IndexStep, Tip!IndexGrows, Tip!IndexRewritten
<1>3. ASSUME NEW o \in Place, Tip!Call(o)
      PROVE  AnswerOnPath'
  BY <1>3 DEF Tip!Call
<1>4. CASE Tip!Throttled
  BY <1>4 DEF Tip!Throttled, Tip!Again, Tip!Asking
<1>5. CASE Tip!NothingFound \/ Tip!Spent \/ Tip!NoNextOutput \/ Tip!Recurse
             \/ Tip!Garbled \/ Tip!Incomplete
  BY <1>5 DEF Tip!NothingFound, Tip!Spent, Tip!NoNextOutput, Tip!Recurse,
              Tip!Garbled, Tip!Incomplete
<1>6. CASE UNCHANGED Tip!vars
  BY <1>6 DEF Tip!vars
<1> QED
  BY <1>1, <1>2, <1>3, <1>4, <1>5, <1>6, SameGraph DEF Tip!Next, Tip!Reply

-----------------------------------------------------------------------------
(* The steps of didResolver, as the query sees them.                          *)
LEMMA NothingAsked ==
    ASSUME UNCHANGED <<network, known, tipVars, disturbed>>
    PROVE  UNCHANGED Tip!vars
BY DEF tipVars, Tip!vars, Index, QueryNetwork, IsTestnet

LEMMA IndexIsLedger ==
    ASSUME NEW K \in Ledger
    PROVE  (IF QueryNetwork = network THEN K ELSE {}) \in Ledger
BY DEF Ledger

LEMMA AskedPlace ==
    ASSUME TypeOK, IsDid, step \notin {"connect", "failed"}
    PROVE  <<txid, did.vout>> \in Place
BY DidsAssumption DEF DidsAssumption, TypeOK, IsDid, Place

(* Every step of the program, of bitcoind and of chain.so is a step of        *)
(* FollowTip, or leaves the query as it is.                                   *)
LEMMA StepSimulation ==
    ASSUME TypeOK, IsDid, [Next]_vars
    PROVE  [Tip!Next]_(Tip!vars)
<1> USE NothingAsked DEF Goto, nodeVars
<1>1. CASE BitcoindMoves
  BY <1>1 DEF BitcoindMoves, NodeMoves
<1>2. CASE ChainSoMoves
  <2>1. network' = network /\ Index' \in Ledger
    <3>1. known' \in Ledger /\ network' = network
      BY <1>2 DEF ChainSoMoves
    <3>2. Index' = IF QueryNetwork = network THEN known' ELSE {}
      BY <3>1 DEF Index, QueryNetwork, IsTestnet
    <3> QED
      BY <3>1, <3>2, IndexIsLedger
  <2>2. /\ UNCHANGED <<tipPc, start, cur, next, attempt, answer>>
        /\ disturbed' = (disturbed \/ (tipPc \in Tip!Asking /\ ~(Index \subseteq Index')))
    BY <1>2 DEF ChainSoMoves, tipVars
  <2>3. disturbed \in BOOLEAN
    BY DEF TypeOK, Tip!TypeOK
  <2>4. Tip!IndexGrows \/ Tip!IndexRewritten
    BY <2>1, <2>2, <2>3, SameGraph DEF Tip!IndexGrows, Tip!IndexRewritten
  <2> QED
    BY <2>4 DEF Tip!Next, Tip!IndexStep
<1>3. CASE RpcFails \/ Connect \/ LookUp \/ Exists \/ ExtractDetails \/ PrintOwn
  BY <1>3 DEF RpcFails, Connect, LookUp, Exists, ExtractDetails, PrintOwn, NotThere
<1>4. CASE AskChainSo
  BY <1>4, AskedPlace, SameGraph DEF AskChainSo, AskedAbout, Tip!Next
<1>5. CASE Follow
  BY <1>5 DEF Follow, Query, Tip!Next
<1>6. CASE UNCHANGED vars
  BY <1>6 DEF vars
<1> QED
  BY <1>1, <1>2, <1>3, <1>4, <1>5, <1>6 DEF Next, Program

-----------------------------------------------------------------------------
(* extractTransactionDetails finds the one place the transaction is at.       *)
LEMMA Details ==
    ASSUME chain \in Chains, txid \in Confirmed
    PROVE  \E h \in 1..Len(chain) : \E i \in 1..Len(chain[h]) :
              /\ chain[h][i] = txid
              /\ BlockHeight(HashOfBlockWith(txid)) = h - 1
              /\ TransactionIndex(HashOfBlockWith(txid)) = i - 1
<1>1. PICK h \in 1..Len(chain) : \E i \in 1..Len(chain[h]) :
         /\ chain[h][i] = txid
         /\ HashOfBlockWith(txid) = BlockHash(h - 1)
         /\ HasBlock(h - 1)
  BY BlockOfTransaction
<1>2. PICK i \in 1..Len(chain[h]) :
         /\ chain[h][i] = txid
         /\ HashOfBlockWith(txid) = BlockHash(h - 1)
         /\ HasBlock(h - 1)
  BY <1>1
<1>3. h - 1 \in Nat /\ (h - 1) + 1 = h
  BY ChainFacts
<1>4. BlockTx(BlockHash(h - 1)) = chain[h] /\ BlockHeight(BlockHash(h - 1)) = h - 1
  BY <1>2, <1>3, BlockOfHeight
<1>5. (CHOOSE j \in DOMAIN chain[h] : chain[h][j] = txid) = i
  BY <1>2, FoundInBlock
<1>6. /\ chain[h][i] = txid
      /\ BlockHeight(HashOfBlockWith(txid)) = h - 1
      /\ TransactionIndex(HashOfBlockWith(txid)) = i - 1
  BY <1>2, <1>4, <1>5 DEF TransactionIndex
<1> QED
  BY <1>6

LEMMA LookUpTypes ==
    ASSUME TypeOK, IsDid, LookUp, step' # "failed"
    PROVE  /\ did.height + 1 \in 1..Len(chain)
           /\ did.index + 1 \in 1..Len(chain[did.height + 1])
           /\ txid' = chain[did.height + 1][did.index + 1]
           /\ txid' \in Txid
<1>1. did.height \in Nat /\ did.index \in Nat /\ chain \in Chains
  BY DidsAssumption DEF DidsAssumption, TypeOK, IsDid, LookUp
<1>2. /\ HasBlock(did.height) /\ did.index < Len(BlockTx(BlockHash(did.height)))
      /\ txid' = BlockTx(BlockHash(did.height))[did.index + 1]
  BY DEF LookUp, Goto, NotThere
<1>3. did.height + 1 \in 1..Len(chain) /\ BlockTx(BlockHash(did.height)) = chain[did.height + 1]
  BY <1>1, <1>2, BlockOfHeight
<1>4. chain[did.height + 1] \in Seq(Txid)
  BY <1>1, <1>3, ChainFacts
<1>5. did.index + 1 \in 1..Len(chain[did.height + 1])
  BY <1>1, <1>2, <1>3, <1>4
<1> QED
  BY <1>1, <1>2, <1>3, <1>5, InBlock

LEMMA TypeStep == TypeOK /\ IsDid /\ [Next]_vars => TypeOK'
<1> SUFFICES ASSUME TypeOK, IsDid, [Next]_vars
             PROVE  TypeOK'
  OBVIOUS
<1>1. Tip!TypeOK'
  BY StepSimulation, QueryTypes DEF TypeOK
<1> USE DEF TypeOK, Rpc, Goto, nodeVars, tipVars, didVars
<1>2. CASE BitcoindMoves
  <2>1. chain' \in Chains /\ mempool' \subseteq Txid
    BY <1>2 DEF BitcoindMoves, NodeMoves, Mempools, Ledger
  <2>2. reorganised' \in BOOLEAN
    BY <1>2 DEF BitcoindMoves
  <2> QED
    BY <1>1, <1>2, <2>1, <2>2 DEF BitcoindMoves
<1>3. CASE ChainSoMoves
  BY <1>1, <1>3 DEF ChainSoMoves
<1>4. CASE RpcFails \/ Connect \/ Exists \/ PrintOwn
  BY <1>1, <1>4 DEF RpcFails, Connect, Exists, PrintOwn
<1>5. CASE LookUp
  <2>1. txid' \in Txid
    BY <1>5, LookUpTypes DEF LookUp, NotThere
  <2> QED
    BY <1>1, <1>5, <2>1 DEF LookUp, NotThere
<1>6. CASE ExtractDetails
  <2>1. pos' \in Nat \X Nat
    <3>1. CASE GetRawTransaction(txid) /\ txid \in Confirmed
      <4>1. PICK h \in 1..Len(chain) : \E i \in 1..Len(chain[h]) :
               /\ BlockHeight(HashOfBlockWith(txid)) = h - 1
               /\ TransactionIndex(HashOfBlockWith(txid)) = i - 1
        BY <3>1, Details
      <4>2. Len(chain) \in Nat /\ Len(chain[h]) \in Nat
        BY ChainFacts
      <4>3. /\ BlockHeight(HashOfBlockWith(txid)) \in Nat
            /\ TransactionIndex(HashOfBlockWith(txid)) \in Nat
        BY <4>1, <4>2
      <4> QED
        BY <1>6, <3>1, <4>3 DEF ExtractDetails
    <3>2. CASE ~(GetRawTransaction(txid) /\ txid \in Confirmed)
      BY <1>6, <3>2 DEF ExtractDetails
    <3> QED
      BY <3>1, <3>2
  <2> QED
    BY <1>1, <1>6, <2>1 DEF ExtractDetails
<1>7. CASE AskChainSo
  BY <1>1, <1>7 DEF AskChainSo, Asked, Tip!Call
<1>8. CASE Follow
  <2>1. tipPc' # "idle"
    BY <1>8 DEF Follow, Query, Tip!Throttled, Tip!Again, Tip!Asking, Tip!Reply, Tip!NothingFound,
                Tip!NotSpent, Tip!Spent, Tip!NoNextOutput, Tip!Recurse, Tip!Garbled, Tip!Incomplete
  <2> QED
    BY <1>1, <1>8, <2>1 DEF Follow
<1>9. CASE UNCHANGED vars
  BY <1>1, <1>9 DEF vars
<1> QED
  BY <1>2, <1>3, <1>4, <1>5, <1>6, <1>7, <1>8, <1>9 DEF Next, Program

-----------------------------------------------------------------------------
LEMMA InitInv == Init => Inv
<1> SUFFICES ASSUME Init
             PROVE  Inv
  OBVIOUS
<1>1. chain \in Chains /\ mempool \subseteq Txid /\ Genesis \in Txid
  BY ChainFacts DEF Init, NodeInit, Mempools, Ledger
<1>2. <<Genesis, 0>> \in Place /\ 0 \in Nat /\ 1 \in 1..MaxAttempts
  BY <1>1, DidsAssumption DEF DidsAssumption, Place
<1>3. Index \in Ledger
  BY IndexIsLedger DEF Init, Index
<1>4. TypeOK
  BY <1>1, <1>2, <1>3, SameGraph DEF Init, TypeOK, Rpc, Tip!TypeOK
<1> QED
  BY <1>4 DEF Init, Inv, IsDid, AtItsPlace, PositionTruthful, Tip!CursorOnPath, Tip!Asking,
              AsksAboutDid, AnswerOnPath

LEMMA DidStep == IsDid /\ [Next]_vars => IsDid'
<1> SUFFICES ASSUME IsDid, [Next]_vars
             PROVE  IsDid'
  OBVIOUS
<1> USE DEF IsDid, Goto
<1>1. CASE BitcoindMoves \/ ChainSoMoves \/ Follow
  BY <1>1 DEF BitcoindMoves, ChainSoMoves, Follow, didVars
<1>2. CASE RpcFails \/ Program
  BY <1>2 DEF RpcFails, Program, Connect, LookUp, Exists, ExtractDetails, PrintOwn, AskChainSo, Rpc
<1>3. CASE UNCHANGED vars
  BY <1>3 DEF vars, didVars
<1> QED
  BY <1>1, <1>2, <1>3 DEF Next

(* Blocks on top of a chain leave what is in it where it is.                  *)
LEMMA PlaceStep ==
    ASSUME TypeOK, IsDid, AtItsPlace, [Next]_vars
    PROVE  AtItsPlace'
<1> USE DEF AtItsPlace, Goto
<1>1. CASE BitcoindMoves
  <2> SUFFICES ASSUME step' \in {"exists", "details", "txOut", "follow", "printed"}, ~reorganised'
               PROVE  /\ did.height + 1 \in 1..Len(chain')
                      /\ did.index + 1 \in 1..Len(chain'[did.height + 1])
                      /\ chain'[did.height + 1][did.index + 1] = txid
    BY <1>1 DEF BitcoindMoves, didVars
  <2>1. step' = step /\ ~reorganised /\ ~Reorganised /\ chain' \in Chains
    BY <1>1 DEF BitcoindMoves, NodeMoves, didVars
  <2>2. chain \in Seq(Seq(Txid)) /\ chain' \in Seq(Seq(Txid)) /\ IsPrefix(chain, chain')
    BY <2>1, ChainFacts DEF Reorganised, TypeOK
  <2>3. Len(chain) <= Len(chain') /\ \A h \in 1..Len(chain) : chain[h] = chain'[h]
    BY <2>2, PrefixEntries
  <2> QED
    BY <2>1, <2>2, <2>3
<1>2. CASE LookUp
  <2>1. step' \in {"exists", "failed"}
    BY <1>2 DEF LookUp, NotThere
  <2>2. chain' = chain /\ did' = did
    BY <1>2 DEF LookUp, nodeVars
  <2> QED
    BY <1>2, <2>1, <2>2, LookUpTypes
<1>3. CASE ChainSoMoves \/ Follow
  BY <1>3 DEF ChainSoMoves, Follow, didVars, nodeVars
<1>4. CASE RpcFails \/ Connect \/ Exists \/ ExtractDetails \/ PrintOwn \/ AskChainSo
  BY <1>4 DEF RpcFails, Connect, Exists, ExtractDetails, PrintOwn, AskChainSo, nodeVars
<1>5. CASE UNCHANGED vars
  BY <1>5 DEF vars, didVars, nodeVars
<1> QED
  BY <1>1, <1>2, <1>3, <1>4, <1>5 DEF Next, Program

(* The block asked for by txid is the one asked for by height.                *)
LEMMA PositionStep ==
    ASSUME TypeOK, IsDid, AtItsPlace, PositionTruthful, [Next]_vars
    PROVE  PositionTruthful'
<1> USE DEF PositionTruthful, Goto
<1>1. CASE ExtractDetails
  <2> SUFFICES ASSUME step' = "txOut", ~reorganised
               PROVE  pos' = <<did.height, did.index>>
    BY <1>1 DEF ExtractDetails
  <2>1. /\ txid \in Confirmed
        /\ pos' = <<BlockHeight(HashOfBlockWith(txid)), TransactionIndex(HashOfBlockWith(txid))>>
    BY <1>1 DEF ExtractDetails
  <2>2. chain \in Chains /\ did.height \in Nat /\ did.index \in Nat
    BY <1>1, DidsAssumption DEF DidsAssumption, TypeOK, IsDid, ExtractDetails
  <2>3. PICK h \in 1..Len(chain) : \E i \in 1..Len(chain[h]) :
              /\ chain[h][i] = txid
              /\ BlockHeight(HashOfBlockWith(txid)) = h - 1
              /\ TransactionIndex(HashOfBlockWith(txid)) = i - 1
    BY <2>1, <2>2, Details
  <2>4. PICK i \in 1..Len(chain[h]) :
              /\ chain[h][i] = txid
              /\ BlockHeight(HashOfBlockWith(txid)) = h - 1
              /\ TransactionIndex(HashOfBlockWith(txid)) = i - 1
    BY <2>3
  <2>5. /\ did.height + 1 \in 1..Len(chain)
        /\ did.index + 1 \in 1..Len(chain[did.height + 1])
        /\ chain[did.height + 1][did.index + 1] = txid
    BY <1>1 DEF ExtractDetails, AtItsPlace
  <2>6. /\ did.height + 1 = h
        /\ did.index + 1 = i
    <3> DEFINE k == did.height + 1
               j == did.index + 1
    <3>1. k \in 1..Len(chain) /\ j \in 1..Len(chain[k]) /\ chain[k][j] = chain[h][i]
      BY <2>4, <2>5
    <3> HIDE DEF k, j
    <3>2. k = h /\ j = i
      BY <2>2, <3>1, OnePlace
    <3> QED
      BY <3>2 DEF k, j
  <2>7. h - 1 = did.height /\ i - 1 = did.index
    BY <2>2, <2>6
  <2> QED
    BY <2>1, <2>4, <2>7
<1>2. CASE BitcoindMoves
  BY <1>2 DEF BitcoindMoves, didVars
<1>3. CASE ChainSoMoves \/ Follow
  BY <1>3 DEF ChainSoMoves, Follow, didVars
<1>4. CASE RpcFails \/ Connect \/ LookUp \/ Exists \/ PrintOwn \/ AskChainSo
  BY <1>4 DEF RpcFails, Connect, LookUp, NotThere, Exists, PrintOwn, AskChainSo, Asked
<1>5. CASE UNCHANGED vars
  BY <1>5 DEF vars, didVars
<1> QED
  BY <1>1, <1>2, <1>3, <1>4, <1>5 DEF Next, Program

LEMMA AskStep ==
    ASSUME TypeOK, AsksAboutDid, [Next]_vars
    PROVE  AsksAboutDid'
<1> USE DEF AsksAboutDid, Goto
<1>1. CASE AskChainSo
  BY <1>1 DEF AskChainSo, AskedAbout, Tip!Call
<1>2. CASE BitcoindMoves \/ ChainSoMoves
  BY <1>2 DEF BitcoindMoves, ChainSoMoves, didVars, tipVars
<1>3. CASE Follow
  <2>1. UNCHANGED <<start, didVars>>
    BY <1>3 DEF Follow, Query, Tip!Throttled, Tip!Reply, Tip!NothingFound,
                Tip!NotSpent, Tip!Spent, Tip!NoNextOutput, Tip!Recurse, Tip!Garbled, Tip!Incomplete
  <2> QED
    BY <2>1 DEF didVars
<1>4. CASE RpcFails \/ Connect \/ LookUp \/ Exists \/ ExtractDetails \/ PrintOwn
  BY <1>4 DEF RpcFails, Connect, LookUp, NotThere, Exists, ExtractDetails, PrintOwn
<1>5. CASE UNCHANGED vars
  BY <1>5 DEF vars, didVars, tipVars
<1> QED
  BY <1>1, <1>2, <1>3, <1>4, <1>5 DEF Next, Program

LEMMA NextInv == Inv /\ [Next]_vars => Inv'
<1> SUFFICES ASSUME Inv, [Next]_vars
             PROVE  Inv'
  OBVIOUS
<1> USE DEF Inv
<1>1. TypeOK' /\ IsDid'
  BY TypeStep, DidStep
<1>2. AtItsPlace' /\ PositionTruthful'
  BY PlaceStep, PositionStep
<1>3. Tip!CursorOnPath' /\ AnswerOnPath'
  BY StepSimulation, QueryPath, QueryAnswers DEF TypeOK
<1>4. AsksAboutDid'
  BY AskStep
<1> QED
  BY <1>1, <1>2, <1>3, <1>4

LEMMA Invariance == Spec => []Inv
BY InitInv, NextInv, PTL DEF Spec

(* The height and index printed are those of the DID unless the active chain  *)
(* was reorganised in the meantime, though the block is looked up twice       *)
(* (src/src/domain/txref.cpp, txid.cpp).                                      *)
THEOREM ResolverPosition == Spec => []PositionTruthful
<1>1. Inv => PositionTruthful
  BY DEF Inv
<1> QED
  BY <1>1, Invariance, PTL

(* Whatever the DID and the graph, the state of the resolver is of its type,  *)
(* with that of the query inside it: it is idle until the resolver follows.   *)
THEOREM ResolverTypes == Spec => []TypeOK
<1>1. Inv => TypeOK
  BY DEF Inv
<1> QED
  BY <1>1, Invariance, PTL

(* The txid printed, be it bitcoind's or the end of the chain of requests to  *)
(* chain.so, is on the DID's path of updates in every ledger that has it.     *)
THEOREM ResolverAnswer == Spec => []AnswerBelongsToDid
<1>1. ASSUME Inv
      PROVE  AnswerBelongsToDid
  <2> SUFFICES ASSUME Outcome = "printed", NEW a \in LastTxid, NEW K \in Ledger, a \in K
               PROVE  \E o \in Reach(K, <<txid, did.vout>>) : o[1] = a
    BY DEF AnswerBelongsToDid
  <2>1. step = "printed" \/ (step = "follow" /\ tipPc = "answered")
    BY DEF Outcome, Tip!Ended
  <2>2. <<txid, did.vout>> \in Place
    BY <1>1, <2>1, AskedPlace DEF Inv
  <2>3. CASE step = "printed"
    <3>1. a = txid
      BY <2>3 DEF LastTxid
    <3> QED
      BY <2>2, <3>1 DEF Reach, Stops
  <2>4. CASE step = "follow" /\ tipPc = "answered"
    <3>1. a = cur[1] /\ start = <<txid, did.vout>>
      BY <1>1, <2>4 DEF LastTxid, Inv, AnswerOnPath, AsksAboutDid
    <3>2. cur \in Reach(K, start)
      BY <1>1, <2>4, <3>1 DEF Inv, AnswerOnPath
    <3> QED
      BY <3>1, <3>2
  <2> QED
    BY <2>1, <2>3, <2>4
<1>2. Inv => AnswerBelongsToDid
  BY <1>1
<1> QED
  BY <1>2, Invariance, PTL

(* didResolver implements FollowTip's specification, so that AnswersWithTheTip *)
(* and the other results about FollowTip hold of the query it makes.          *)
THEOREM ResolverUsesFollowTip == Spec => UsesFollowTip
<1>1. Init => Tip!Init
  <2> SUFFICES ASSUME Init
               PROVE  Tip!Init
    OBVIOUS
  <2>1. Tip!TypeOK
    BY InitInv DEF Inv, TypeOK
  <2> QED
    BY <2>1 DEF Init, Tip!Init, Tip!TypeOK
<1>2. Inv /\ [Next]_vars => [Tip!Next]_(Tip!vars)
  BY StepSimulation DEF Inv
<1> QED
  BY <1>1, <1>2, Invariance, PTL DEF Spec, UsesFollowTip, Tip!Spec

(* So a txid that chain.so is asked for is that of the DID's one tip in the   *)
(* index that gives the last reply, though bitcoind and the index moved.      *)
THEOREM ResolverAnswersWithTheTip == Spec => Tip!AnswerIsTheTip
<1>1. TipFacts!Spec => TipFacts!AnswerIsTheTip
  BY TipFacts!AnswersWithTheTip, TipAssumptions
<1>2. Tip!Init => TipFacts!Init
  BY SameTypes
<1>3. [Tip!Next]_(Tip!vars) => [TipFacts!Next]_(TipFacts!vars)
  BY SameTypes, SameSteps
<1>4. [tipPc' = "answered" /\ tipPc # "answered" =>
          /\ TipFacts!Tips(Index, start) = {cur}
          /\ answer' = {cur[1]}]_(TipFacts!vars)
      => [tipPc' = "answered" /\ tipPc # "answered" =>
          /\ Tip!Tips(Index, start) = {cur}
          /\ answer' = {cur[1]}]_(Tip!vars)
  BY SameTypes
     DEF TipFacts!Tips, Tip!Tips, TipFacts!Reach, Tip!Reach, TipFacts!Stops, Tip!Stops,
         TipFacts!ClosedUnderHops, Tip!ClosedUnderHops, TipFacts!Hop, Tip!Hop,
         TipFacts!PayOutputs, Tip!PayOutputs, TipFacts!Place, Tip!Place,
         TipFacts!ExistsIn, Tip!ExistsIn, TipFacts!SpentIn, Tip!SpentIn
<1>5. Spec => Tip!Spec
  BY ResolverUsesFollowTip DEF UsesFollowTip
<1> QED
  BY <1>1, <1>2, <1>3, <1>4, <1>5, PTL
     DEF Tip!Spec, TipFacts!Spec, Tip!AnswerIsTheTip, TipFacts!AnswerIsTheTip

(* And when didResolver's query fails on the main or the test network, the    *)
(* DID has no tip in the index of that network, as long as the index only     *)
(* grew and its replies were usable: isTestnet() selects the one of bitcoind. *)
THEOREM ResolverQueryFailsForCause == Spec => QueryFailsForCause
<1>1. TipFacts!Spec => TipFacts!FailsForCause
  BY TipFacts!FailsOnlyForCause, TipAssumptions
<1>2. Tip!Init => TipFacts!Init
  BY SameTypes
<1>3. [Tip!Next]_(Tip!vars) => [TipFacts!Next]_(TipFacts!vars)
  BY SameTypes, SameSteps
<1>4. [tipPc' \in {"failed", "crashed"} /\ tipPc \in TipFacts!Asking /\ ~disturbed' =>
          TipFacts!DeadEnd(Index, start)]_(TipFacts!vars)
      => [/\ tipPc \in Tip!Asking /\ tipPc' \in {"failed", "crashed"}
          /\ ~disturbed' /\ network \in {"main", "test"}
          => DeadEnd(known, start)]_vars
  <2>1. ASSUME tipPc \in Tip!Asking, tipPc' \in {"failed", "crashed"},
               ~disturbed', network \in {"main", "test"},
               [tipPc' \in {"failed", "crashed"} /\ tipPc \in TipFacts!Asking /\ ~disturbed' =>
                   TipFacts!DeadEnd(Index, start)]_(TipFacts!vars)
        PROVE  DeadEnd(known, start)
    <3>1. tipPc' # tipPc /\ tipPc \in TipFacts!Asking
      BY <2>1 DEF Tip!Asking, TipFacts!Asking
    <3>2. TipFacts!DeadEnd(Index, start)
      BY <2>1, <3>1 DEF TipFacts!vars
    <3>3. Index = known
      BY <2>1 DEF Index, QueryNetwork, IsTestnet
    <3> QED
      BY <3>2, <3>3
         DEF TipFacts!DeadEnd, DeadEnd, TipFacts!Reach, Reach, TipFacts!Stops, Stops,
             TipFacts!ClosedUnderHops, ClosedUnderHops, TipFacts!Hop, Hop,
             TipFacts!PayOutputs, PayOutputs, TipFacts!Place, Place,
             TipFacts!ExistsIn, ExistsIn
  <2> QED
    BY <2>1
<1>5. Spec => Tip!Spec
  BY ResolverUsesFollowTip DEF UsesFollowTip
<1> QED
  BY <1>1, <1>2, <1>3, <1>4, <1>5, PTL
     DEF Tip!Spec, TipFacts!Spec, QueryFailsForCause, TipFacts!FailsForCause
=============================================================================
