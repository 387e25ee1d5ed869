--------------------------- MODULE FollowTipProofs ---------------------------
(* FollowTip keeps its cursor on the DID's path, answers with the DID's one   *)
(* tip, reports errors for cause, and implements TipQuery, for every graph of *)
(* transactions and however the index moves between the requests.             *)
EXTENDS FollowTip, WellFoundedInduction, TLAPS

-----------------------------------------------------------------------------
(* Following a DID through a ledger. What matters is TipIsUnique: because a   *)
(* ledger holds no double spend, a DID has at most one tip in it.             *)
LEMMA PlaceParts ==
    ASSUME NEW o \in Place
    PROVE  o[1] \in Txid /\ o[2] \in OutputNo /\ o[2] \in Nat /\ o = <<o[1], o[2]>>
<1>1. OutputNo \subseteq Nat
  BY GraphAssumption DEF GraphAssumption
<1>2. o[1] \in Txid /\ o[2] \in OutputNo /\ o = <<o[1], o[2]>>
  BY DEF Place
<1> QED
  BY <1>1, <1>2

(* Reach, unfolded once.                                                      *)
LEMMA ReachDef ==
    ASSUME NEW K \in Ledger, NEW s \in Place
    PROVE  Reach(K, s) =
             {p \in Stops(K, s) :
                \A S \in SUBSET Stops(K, s) : (s \in S /\ ClosedUnderHops(K, S)) => p \in S}
BY DEF Reach

(* A DID is where it starts.                                                  *)
LEMMA StartIsReached ==
    ASSUME NEW K \in Ledger, NEW s \in Place
    PROVE  s \in Reach(K, s)
BY ReachDef DEF Stops

LEMMA ReachedPlaces ==
    ASSUME NEW K \in Ledger, NEW s \in Place
    PROVE  Reach(K, s) \subseteq Stops(K, s) /\ Reach(K, s) \subseteq Place
BY ReachDef DEF Stops

(* A hop from where a DID passes leads to where it passes.                    *)
LEMMA HopIsReached ==
    ASSUME NEW K \in Ledger, NEW s \in Place, NEW o \in Reach(K, s),
           NEW p \in Place, Hop(K, o, p)
    PROVE  p \in Reach(K, s)
<1>1. o \in Place /\ p \in Stops(K, s)
  BY ReachedPlaces DEF Stops
<1>2. ASSUME NEW S \in SUBSET Stops(K, s), s \in S, ClosedUnderHops(K, S)
      PROVE  p \in S
  <2>1. o \in S
    BY <1>2, ReachDef
  <2> QED
    BY <1>2, <2>1 DEF ClosedUnderHops
<1> QED
  BY <1>1, <1>2, ReachDef

(* The reachable places are the least closed set.                             *)
LEMMA ReachIsLeast ==
    ASSUME NEW K \in Ledger, NEW s \in Place,
           NEW S \in SUBSET Stops(K, s), s \in S, ClosedUnderHops(K, S)
    PROVE  Reach(K, s) \subseteq S
BY ReachDef

(* An output is spent once, and the first pay output of a transaction is one  *)
(* output: a DID has at most one next place.                                  *)
LEMMA HopIsUnique ==
    ASSUME NEW K \in Ledger, NEW o \in Place, NEW p \in Place, NEW q \in Place,
           Hop(K, o, p), Hop(K, o, q)
    PROVE  p = q
<1>1. p[1] \in K /\ q[1] \in K /\ o \in Inputs[p[1]] \cap Inputs[q[1]]
  BY DEF Hop
<1>2. p[1] = q[1]
  BY <1>1 DEF Ledger
<1>3. p[2] \in Nat /\ q[2] \in Nat
  BY PlaceParts
<1>4. p[2] <= q[2] /\ q[2] <= p[2]
  BY <1>2 DEF Hop
<1>5. p[2] = q[2]
  BY <1>3, <1>4
<1> QED
  BY <1>2, <1>5, PlaceParts

(* What is reachable from o is o and what is reachable from the next place.   *)
LEMMA ReachFromNext ==
    ASSUME NEW K \in Ledger, NEW o \in Place, NEW p \in Place, Hop(K, o, p)
    PROVE  Reach(K, o) \subseteq {o} \cup Reach(K, p)
<1> DEFINE T == {o} \cup Reach(K, p)
<1>1. T \in SUBSET Stops(K, o)
  BY ReachedPlaces DEF Stops
<1>2. ASSUME NEW q \in Place, NEW x \in T, Hop(K, x, q)
      PROVE  q \in T
  <2>1. CASE x = o
    BY <1>2, <2>1, HopIsUnique, StartIsReached
  <2>2. CASE x \in Reach(K, p)
    BY <1>2, <2>2, HopIsReached
  <2> QED
    BY <2>1, <2>2
<1>3. ClosedUnderHops(K, T)
  BY <1>2 DEF ClosedUnderHops
<1> QED
  BY <1>1, <1>3, ReachIsLeast

(* From an unspent output there is nowhere to go.                             *)
LEMMA UnspentIsLast ==
    ASSUME NEW K \in Ledger, NEW o \in Place, ~SpentIn(K, o)
    PROVE  Reach(K, o) = {o}
<1>1. ClosedUnderHops(K, {o})
  BY DEF ClosedUnderHops, Hop, SpentIn
<1>2. {o} \in SUBSET Stops(K, o)
  BY DEF Stops
<1> QED
  BY <1>1, <1>2, ReachIsLeast, StartIsReached

(* A DID has at most one tip in a ledger: "the" last update of a DID, which   *)
(* the code looks for, is well defined (src/src/chainQuery.h:34-36).          *)
THEOREM TipIsUnique ==
    ASSUME NEW K \in Ledger, NEW s \in Place,
           NEW a \in Tips(K, s), NEW b \in Tips(K, s)
    PROVE  a = b
<1> DEFINE S == {o \in Reach(K, s) : a \in Reach(K, o)}
<1>1. /\ a \in Reach(K, s) /\ b \in Reach(K, s)
      /\ a \in Place /\ b \in Place
      /\ ~SpentIn(K, a) /\ ~SpentIn(K, b)
  BY ReachedPlaces DEF Tips
<1>2. s \in S
  BY <1>1, StartIsReached
<1>3. S \in SUBSET Stops(K, s)
  BY ReachedPlaces
<1>4. ASSUME NEW p \in Place, NEW o \in S, Hop(K, o, p)
      PROVE  p \in S
  <2>1. o \in Place /\ p \in Reach(K, s)
    BY <1>4, HopIsReached, ReachedPlaces
  <2>2. a # o
    BY <1>1, <1>4 DEF Hop, SpentIn
  <2>3. a \in {o} \cup Reach(K, p)
    BY <1>4, <2>1, ReachFromNext
  <2> QED
    BY <2>1, <2>2, <2>3
<1>5. ClosedUnderHops(K, S)
  BY <1>4 DEF ClosedUnderHops
<1>6. b \in S
  BY <1>1, <1>2, <1>3, <1>5, ReachIsLeast
<1>7. Reach(K, b) = {b}
  BY <1>1, UnspentIsLast
<1> QED
  BY <1>6, <1>7

-----------------------------------------------------------------------------
(* A set of output numbers has a smallest member.                             *)
LEMMA SmallestOutputNo ==
    ASSUME NEW S \in SUBSET Nat, S # {}
    PROVE  \E m \in S : \A n \in S : m <= n
<1> DEFINE Less == {d \in Nat \X Nat : d[1] < d[2]}
<1>1. IsWellFoundedOn(Less, Nat)
  BY NatLessThanWellFounded DEF OpToRel
<1>2. PICK m \in S : \A n \in S : <<n, m>> \notin Less
  <2> HIDE DEF Less
  <2> QED
    BY <1>1, WFMin
<1>3. ASSUME NEW n \in S
      PROVE  m <= n
  <2>1. n \in Nat /\ m \in Nat /\ ~(n < m)
    BY <1>2
  <2> QED
    BY <2>1
<1> QED
  BY <1>3

(* What determineNextUtxoIndex computes is the output a hop leads to.         *)
LEMMA NextUtxoIndexIsFirst ==
    ASSUME NEW t \in Txid, OutputNums(t) # {}
    PROVE  /\ NextUtxoIndex(t) \in PayOutputs(t)
           /\ <<t, NextUtxoIndex(t)>> \in Place
           /\ \A n \in PayOutputs(t) : NextUtxoIndex(t) <= n
<1>1. OutputNums(t) \subseteq Nat /\ OutputNums(t) \subseteq OutputNo
  BY GraphAssumption DEF GraphAssumption, OutputNums
<1>2. \E m \in OutputNums(t) : \A n \in OutputNums(t) : m <= n
  BY <1>1, SmallestOutputNo
<1>3. NextUtxoIndex(t) \in OutputNums(t) /\ \A n \in OutputNums(t) : NextUtxoIndex(t) <= n
  BY <1>2 DEF NextUtxoIndex, Min
<1>4. <<t, NextUtxoIndex(t)>> \in Place
  BY <1>1, <1>3 DEF Place
<1> QED
  BY <1>3, <1>4 DEF OutputNums, PayOutputs

LEMMA RecurseHops ==
    ASSUME NEW K \in Ledger, NEW t \in K, NEW o \in Inputs[t], OutputNums(t) # {}
    PROVE  Hop(K, o, <<t, NextUtxoIndex(t)>>)
<1>1. t \in Txid
  BY DEF Ledger
<1> QED
  BY <1>1, NextUtxoIndexIsFirst DEF Hop

(* A ledger that holds a transaction holds those it spends.                   *)
LEMMA AncestorsKnown ==
    ASSUME NEW K \in Ledger, NEW t \in K, NEW o \in Inputs[t]
    PROVE  o[1] \in K
BY DEF Ledger

-----------------------------------------------------------------------------
(* The inductive invariant: each part needs the others.                       *)
Inv == TypeOK /\ CursorOnPath /\ CursorFound

LEMMA InitInv == Init => Inv
<1> SUFFICES ASSUME Init
             PROVE  Inv
  OBVIOUS
<1>1. TypeOK
  <2>1. 1 \in 1..MaxAttempts
    BY MaxAttemptsAssumption DEF MaxAttemptsAssumption
  <2> QED
    BY <2>1 DEF Init, TypeOK
<1>2. CursorOnPath /\ CursorFound
  BY DEF Init, CursorOnPath, CursorFound, Asking
<1> QED
  BY <1>1, <1>2 DEF Inv

LEMMA TypeStep == TypeOK /\ [Next]_vars => TypeOK'
<1> SUFFICES ASSUME TypeOK, [Next]_vars
             PROVE  TypeOK'
  OBVIOUS
<1> USE MaxAttemptsAssumption DEF MaxAttemptsAssumption, TypeOK, Asking, Ended
<1>1. CASE IndexGrows
  BY <1>1 DEF IndexGrows
<1>2. CASE IndexRewritten
  BY <1>2 DEF IndexRewritten
<1>3. ASSUME NEW o \in Place, Call(o)
      PROVE  TypeOK'
  BY <1>3 DEF Call
<1>4. CASE Throttled
  BY <1>4 DEF Throttled, Again
<1>5. CASE NothingFound
  BY <1>5 DEF NothingFound
<1>6. CASE NotSpent
  BY <1>6, PlaceParts DEF NotSpent, LastTxid
<1>7. CASE Spent
  <2>1. known \subseteq Txid
    BY DEF Ledger
  <2> QED
    BY <1>7, <2>1 DEF Spent, NextTxid
<1>8. CASE NoNextOutput
  BY <1>8 DEF NoNextOutput
<1>9. CASE Recurse
  BY <1>9, NextUtxoIndexIsFirst DEF Recurse, NextPlace
<1>10. CASE Garbled
  BY <1>10 DEF Garbled
<1>11. CASE Incomplete
  BY <1>11 DEF Incomplete
<1>12. CASE UNCHANGED vars
  BY <1>12 DEF vars
<1> QED
  BY <1>1, <1>2, <1>3, <1>4, <1>5, <1>6, <1>7, <1>8, <1>9, <1>10, <1>11, <1>12
     DEF Next, IndexStep, Reply

(* Only the steps that move the cursor, or begin to, can leave the path. The  *)
(* index does not enter: CursorOnPath speaks of every ledger.                 *)
LEMMA PathStep == TypeOK /\ CursorOnPath /\ [Next]_vars => CursorOnPath'
<1> SUFFICES ASSUME TypeOK, CursorOnPath, [Next]_vars
             PROVE  CursorOnPath'
  OBVIOUS
<1> USE DEF CursorOnPath, Asking
<1>1. CASE IndexStep
  BY <1>1 DEF IndexStep, IndexGrows, IndexRewritten
<1>2. ASSUME NEW o \in Place, Call(o)
      PROVE  CursorOnPath'
  BY <1>2, StartIsReached DEF Call
<1>3. CASE Throttled
  BY <1>3 DEF Throttled, Again
<1>4. CASE Spent
  BY <1>4 DEF Spent, NextTxid
<1>5. CASE Recurse
  <2>1. PICK t \in next : t \in known /\ OutputNums(t) # {} /\ cur' = <<t, NextUtxoIndex(t)>>
    BY <1>5 DEF Recurse, NextPlace
  <2>2. pc = "getTx" /\ pc' = "isSpent" /\ start' = start /\ cur \in Inputs[t]
    BY <1>5, <2>1 DEF Recurse, NextPlace
  <2>3. ASSUME NEW K \in Ledger, t \in K
        PROVE  cur' \in Reach(K, start)
    <3>1. cur \in Reach(K, start)
      BY <2>2, <2>3, AncestorsKnown
    <3>2. Hop(K, cur, cur')
      BY <2>1, <2>2, <2>3, RecurseHops
    <3>3. start \in Place /\ cur' \in Place
      <4>1. TypeOK'
        BY TypeStep
      <4> QED
        BY <4>1 DEF TypeOK
    <3> QED
      BY <3>1, <3>2, <3>3, HopIsReached
  <2> QED
    BY <2>1, <2>2, <2>3
<1>6. CASE NothingFound \/ NotSpent \/ NoNextOutput \/ Garbled \/ Incomplete
  BY <1>6 DEF NothingFound, NotSpent, LastTxid, NoNextOutput, Garbled, Incomplete
<1>7. CASE UNCHANGED vars
  BY <1>7 DEF vars
<1> QED
  BY <1>1, <1>2, <1>3, <1>4, <1>5, <1>6, <1>7 DEF Next, Reply

LEMMA FoundStep == TypeOK /\ CursorFound /\ [Next]_vars => CursorFound'
<1> SUFFICES ASSUME TypeOK, CursorFound, [Next]_vars
             PROVE  CursorFound'
  OBVIOUS
<1> USE DEF CursorFound, Asking
<1>1. CASE IndexGrows
  BY <1>1 DEF IndexGrows
<1>2. CASE IndexRewritten
  BY <1>2 DEF IndexRewritten
<1>3. ASSUME NEW o \in Place, Call(o)
      PROVE  CursorFound'
  BY <1>3 DEF Call
<1>4. CASE Throttled
  BY <1>4 DEF Throttled, Again
<1>5. CASE Spent
  BY <1>5 DEF Spent, NextTxid
<1>6. CASE Recurse
  BY <1>6, NextUtxoIndexIsFirst DEF Recurse, NextPlace, TypeOK
<1>7. CASE NothingFound \/ NotSpent \/ NoNextOutput \/ Garbled \/ Incomplete
  BY <1>7 DEF NothingFound, NotSpent, LastTxid, NoNextOutput, Garbled, Incomplete
<1>8. CASE UNCHANGED vars
  BY <1>8 DEF vars
<1> QED
  BY <1>1, <1>2, <1>3, <1>4, <1>5, <1>6, <1>7, <1>8 DEF Next, IndexStep, Reply

LEMMA NextInv == Inv /\ [Next]_vars => Inv'
BY TypeStep, PathStep, FoundStep DEF Inv

LEMMA Invariance == Spec => []Inv
<1>1. Init => Inv
  BY InitInv
<1>2. Inv /\ [Next]_vars => Inv'
  BY NextInv
<1> QED
  BY <1>1, <1>2, PTL DEF Spec

(* The variables keep their types.                                            *)
THEOREM FollowTipTypes == Spec => []TypeOK
BY Invariance, PTL DEF Inv

(* What is asked about is on the DID's path, for every graph, every ledger    *)
(* and every order in which the index and the program move.                   *)
THEOREM CursorStaysOnPath == Spec => []CursorOnPath
BY Invariance, PTL DEF Inv

(* After the first hop only outputs that can be spent are asked about, and    *)
(* the index has them as long as it only grew.                                *)
THEOREM CursorIsInIndex == Spec => []CursorFound
BY Invariance, PTL DEF Inv

-----------------------------------------------------------------------------
(* At an answer the cursor is an unspent output on the path, hence the tip.   *)
LEMMA CursorIsTip ==
    ASSUME Inv, NotSpent
    PROVE  cur \in Tips(known, start)
<1>1. cur \in Reach(known, start)
  BY DEF Inv, TypeOK, CursorOnPath, NotSpent, LastTxid, Asking, ExistsIn
<1> QED
  BY <1>1 DEF Tips, NotSpent, LastTxid

LEMMA AnswerStep ==
    ASSUME Inv, [Next]_vars, pc' = "answered", pc # "answered"
    PROVE  NotSpent
BY DEF Next, IndexStep, IndexGrows, IndexRewritten, Call, Throttled, Again, Reply,
       NothingFound, Spent, NextTxid, NoNextOutput, Recurse, NextPlace, Garbled, Incomplete, vars

(* The txid returned is that of the one tip of the DID in the index as it is  *)
(* when the last reply is given.                                              *)
THEOREM AnswersWithTheTip == Spec => AnswerIsTheTip
<1>1. ASSUME Inv, [Next]_vars, pc' = "answered", pc # "answered"
      PROVE  Tips(known, start) = {cur} /\ answer' = {cur[1]}
  <2>1. NotSpent
    BY <1>1, AnswerStep
  <2>2. cur \in Tips(known, start)
    BY <1>1, <2>1, CursorIsTip
  <2>3. \A o \in Tips(known, start) : o = cur
    BY <1>1, <2>2, TipIsUnique DEF Inv, TypeOK
  <2> QED
    BY <2>1, <2>2, <2>3 DEF NotSpent, LastTxid
<1>2. Inv /\ [Next]_vars
      => [pc' = "answered" /\ pc # "answered" =>
            /\ Tips(known, start) = {cur}
            /\ answer' = {cur[1]}]_vars
  BY <1>1
<1>3. Spec => []Inv
  BY Invariance DEF Inv
<1> QED
  BY <1>2, <1>3, PTL DEF Spec, AnswerIsTheTip

-----------------------------------------------------------------------------
(* An error that is reported while nothing disturbed the call has its cause   *)
(* in the index: start is not there, or the path ends without a tip.          *)
LEMMA ErrorHasCause ==
    ASSUME Inv, NothingFound \/ NoNextOutput, ~disturbed
    PROVE  DeadEnd(known, start)
<1> USE DEF Inv, TypeOK, CursorFound, CursorOnPath, Asking
<1>1. CASE NothingFound
  <2>1. ~ExistsIn(known, cur)
    BY <1>1 DEF NothingFound
  <2>2. cur = start
    BY <1>1, <2>1 DEF NothingFound, ExistsIn, PayOutputs
  <2> QED
    BY <2>1, <2>2 DEF DeadEnd
<1>2. CASE NoNextOutput
  <2>1. PICK t \in next : t \notin known \/ OutputNums(t) = {}
    BY <1>2 DEF NoNextOutput
  <2>2. t \in known /\ PayOutputs(t) = {} /\ cur \in Inputs[t]
    BY <1>2, <2>1 DEF NoNextOutput, OutputNums, PayOutputs
  <2>3. cur \in Reach(known, start)
    BY <1>2, <2>2, AncestorsKnown DEF NoNextOutput
  <2> QED
    BY <2>2, <2>3 DEF DeadEnd
<1> QED
  BY <1>1, <1>2

(* determineNextUtxoIndex and extractLastUpdatedTxid report an error only     *)
(* where there is no tip to find, for every graph, while the index only grows *)
(* and the replies are usable (src/src/chainSoQuery.cpp:203-253).             *)
THEOREM FailsOnlyForCause == Spec => FailsForCause
<1>1. ASSUME Inv, [Next]_vars, pc' \in {"failed", "crashed"}, pc \in Asking, ~disturbed'
      PROVE  DeadEnd(known, start)
  <2>1. NothingFound \/ NoNextOutput
    BY <1>1 DEF Next, IndexStep, IndexGrows, IndexRewritten, Call, Throttled, Again, Reply,
                NotSpent, LastTxid, Spent, NextTxid, Recurse, NextPlace, Garbled, Incomplete, vars, Asking
  <2>2. ~disturbed
    BY <1>1, <2>1 DEF NothingFound, NoNextOutput
  <2> QED
    BY <1>1, <2>1, <2>2, ErrorHasCause
<1>2. Inv /\ [Next]_vars
      => [pc' \in {"failed", "crashed"} /\ pc \in Asking /\ ~disturbed' =>
            DeadEnd(known, start)]_vars
  BY <1>1
<1>3. Spec => []Inv
  BY Invariance DEF Inv
<1> QED
  BY <1>2, <1>3, PTL DEF Spec, FailsForCause

-----------------------------------------------------------------------------
(* The promise and the call speak of the same graph.                          *)
LEMMA SameGraph ==
    /\ Promise!Ledger = Ledger
    /\ Promise!Place = Place
    /\ Promise!Tips(known, start) = Tips(known, start)
    /\ Promise!DeadEnd(known, start) = DeadEnd(known, start)
<1>1. Promise!Ledger = Ledger /\ Promise!Place = Place
  BY DEF Promise!Ledger, Ledger, Promise!Place, Place
<1>2. Promise!Reach(known, start) = Reach(known, start)
  BY DEF Promise!Reach, Reach, Promise!Stops, Stops, Promise!ClosedUnderHops,
         ClosedUnderHops, Promise!Hop, Hop, Promise!PayOutputs, PayOutputs,
         Promise!Place, Place
<1>3. Promise!Tips(known, start) = Tips(known, start)
  BY <1>2 DEF Promise!Tips, Tips, Promise!ExistsIn, ExistsIn, Promise!SpentIn, SpentIn
<1>4. Promise!DeadEnd(known, start) = DeadEnd(known, start)
  BY <1>2 DEF Promise!DeadEnd, DeadEnd, Promise!ExistsIn, ExistsIn,
              Promise!PayOutputs, PayOutputs
<1> QED
  BY <1>1, <1>3, <1>4

(* Every step of the request-by-request call is a step of the promise, or     *)
(* leaves it as it is.                                                        *)
LEMMA StepSimulation == Inv /\ [Next]_vars => [Promise!Next]_Promise!vars
<1> SUFFICES ASSUME Inv, [Next]_vars
             PROVE  Promise!Next \/ UNCHANGED Promise!vars
  OBVIOUS
<1> USE DEF Asking, Promise!vars, Promise!Next
<1>1. CASE IndexGrows
  BY SameGraph, <1>1 DEF IndexGrows, Promise!LedgerMoves, Inv, TypeOK
<1>2. CASE IndexRewritten
  BY SameGraph, <1>2 DEF IndexRewritten, Promise!LedgerMoves, Inv, TypeOK, Ended
<1>3. ASSUME NEW o \in Place, Call(o)
      PROVE  Promise!Ask
  BY SameGraph, <1>3 DEF Call, Promise!Ask
<1>4. CASE Throttled \/ Spent
  BY <1>4 DEF Throttled, Again, Spent, NextTxid
<1>5. CASE Recurse
  BY <1>5 DEF Recurse, NextPlace
<1>6. CASE NothingFound \/ NoNextOutput
  <2>1. disturbed \/ DeadEnd(known, start)
    BY <1>6, ErrorHasCause
  <2> QED
    BY <1>6, <2>1, SameGraph DEF NothingFound, NoNextOutput, Promise!Fail, Inv, TypeOK
<1>7. CASE NotSpent
  <2>1. cur \in Tips(known, start)
    BY <1>7, CursorIsTip
  <2> QED
    BY <1>7, <2>1, SameGraph DEF NotSpent, LastTxid, Promise!Answer
<1>8. CASE Garbled
  BY <1>8 DEF Garbled, Promise!Abort
<1>9. CASE Incomplete
  BY <1>9 DEF Incomplete, Promise!Abort, Promise!Fail, Inv, TypeOK
<1>10. CASE UNCHANGED vars
  BY <1>10 DEF vars
<1> QED
  BY <1>1, <1>2, <1>3, <1>4, <1>5, <1>6, <1>7, <1>8, <1>9, <1>10
     DEF Next, IndexStep, Reply

(* The code's sequence of requests implements "follow the chain of            *)
(* transactions until an unspent output is found", as one query of one        *)
(* instant.                                                                   *)
THEOREM FollowTipImplementsTipQuery == Spec => ImplementsTipQuery
<1>1. Init => Promise!Init
  BY SameGraph DEF Init, Promise!Init, Asking
<1>2. Inv /\ [Next]_vars => [Promise!Next]_Promise!vars
  BY StepSimulation
<1>3. Spec => []Inv
  BY Invariance DEF Inv
<1> QED
  BY <1>1, <1>2, <1>3, PTL DEF Spec, ImplementsTipQuery, Promise!Spec
=============================================================================
