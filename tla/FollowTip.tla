------------------------------ MODULE FollowTip ------------------------------
(* ChainSoQuery::getLastUpdatedTxid and what it calls                         *)
(* (src/src/chainSoQuery.cpp): starting at one output of a transaction, ask   *)
(* chain.so whether it is spent; if so fetch the spending transaction, go on  *)
(* with its first non-OP_RETURN output, and stop at one that is not spent.    *)
(* Every question is a web request of its own, a second or more after the     *)
(* one before, and chain.so's index moves in between.                         *)
EXTENDS TxGraph, FiniteSetsExt

CONSTANT MaxAttempts    \* bound: retryAttempt counts no further than this
ASSUME MaxAttemptsAssumption == MaxAttempts \in Nat \ {0}

VARIABLES
    known,      \* chain.so's index of the network asked about (external)
    pc,         \* which request of the call is outstanding, or how it ended
    start,      \* the txid and utxoIndex the caller passed
    cur,        \* txid and utxoIndex of the innermost getLastUpdatedTxid
    next,       \* nextTxid, once cur was seen spent: a set of at most one txid
    attempt,    \* retryAttempt of the outstanding request
    answer,     \* the txid returned: a set of at most one
    disturbed   \* history, read by no step: since the call began the index was
                \* rewritten or a reply was unusable

vars == <<known, pc, start, cur, next, attempt, answer, disturbed>>

Asking == {"isSpent", "getTx"}
Ended  == {"answered", "failed", "crashed"}

TypeOK ==
    /\ known \in Ledger
    /\ pc \in {"idle"} \cup Asking \cup Ended
    /\ start \in Place
    /\ cur \in Place
    /\ next \in SUBSET Txid
    /\ pc = "getTx" => \E t \in Txid : next = {t}
    /\ attempt \in 1..MaxAttempts
    /\ answer \in SUBSET Txid
    /\ disturbed \in BOOLEAN

Init ==
    /\ known \in Ledger
    /\ pc = "idle"
    /\ start \in Place
    /\ cur = start
    /\ next = {}
    /\ attempt = 1
    /\ answer = {}
    /\ disturbed = FALSE

-----------------------------------------------------------------------------
(* chain.so's index, which nothing here controls: it takes up transactions,   *)
(* and a reorganisation or a replaced transaction makes it drop some with     *)
(* everything that spends them.                                               *)
IndexGrows ==
    /\ known' \in Ledger
    /\ known \subseteq known'
    /\ UNCHANGED <<pc, start, cur, next, attempt, answer, disturbed>>

IndexRewritten ==
    /\ known' \in Ledger
    /\ ~(known \subseteq known')
    /\ disturbed' = (disturbed \/ pc \in Asking)
    /\ UNCHANGED <<pc, start, cur, next, attempt, answer>>

-----------------------------------------------------------------------------
(* Mistakes the checks must notice: see "mutants" in README.md.               *)
AllOutputNums(t) == Outputs[t]                      \* OP_RETURN is not skipped
OutputNumsFromOne(t) == {n \in Outputs[t] \ OpReturn[t] : n # 0}
LastUtxoIndex(t) == Max(Outputs[t] \ OpReturn[t])   \* the last output instead

(* determineNextUtxoIndex collects the output numbers whose script does not   *)
(* say OP_RETURN in a set of int and takes the smallest.                      *)
OutputNums(t) == Outputs[t] \ OpReturn[t]
NextUtxoIndex(t) == Min(OutputNums(t))

(* getLastUpdatedTxid's arguments come from outside (didResolver passes what  *)
(* a txref encodes, unchecked), so any place may be asked about.              *)
Call(o) ==
    /\ pc = "idle"
    /\ pc' = "isSpent"
    /\ start' = o
    /\ cur' = o
    /\ attempt' = 1
    /\ UNCHANGED <<known, next, answer, disturbed>>

(* Mistake: the last attempt gives up.                                        *)
GivesUp == IF attempt < MaxAttempts THEN pc ELSE "failed"

Again == pc

(* retrieveJsonData: no data, or a page saying "Too many requests", makes it  *)
(* sleep longer and send the same request again.                              *)
Throttled ==
    /\ pc \in Asking
    /\ pc' = Again
    /\ attempt' = IF attempt < MaxAttempts THEN attempt + 1 ELSE attempt
    /\ UNCHANGED <<known, start, cur, next, answer, disturbed>>

(* is_tx_spent answers status "fail" for an output it does not know:          *)
(* runtime_error "Nothing found for txid".                                    *)
NothingFound ==
    /\ pc = "isSpent"
    /\ ~ExistsIn(known, cur)
    /\ pc' = "failed"
    /\ UNCHANGED <<known, start, cur, next, attempt, answer, disturbed>>

(* Mistake: the txid asked about first is returned.                           *)
FirstTxid == start[1]

LastTxid == cur[1]

(* Not spent: cur's txid is returned.                                         *)
NotSpent ==
    /\ pc = "isSpent"
    /\ ExistsIn(known, cur)
    /\ ~SpentIn(known, cur)
    /\ pc' = "answered"
    /\ answer' = {LastTxid}
    /\ UNCHANGED <<known, start, cur, next, attempt, disturbed>>

(* Mistake: nextTxid is not kept.                                             *)
NotKept(t) == {}

NextTxid(t) == {t}

(* Spent: remember by whom, and ask for that transaction's outputs.           *)
Spent ==
    /\ pc = "isSpent"
    /\ ExistsIn(known, cur)
    /\ \E t \in known : cur \in Inputs[t] /\ next' = NextTxid(t)
    /\ pc' = "getTx"
    /\ attempt' = 1
    /\ UNCHANGED <<known, start, cur, answer, disturbed>>

(* get_tx answers "fail", or lists no output to go on with: runtime_error.    *)
NoNextOutput ==
    /\ pc = "getTx"
    /\ \E t \in next : t \notin known \/ OutputNums(t) = {}
    /\ pc' = "failed"
    /\ UNCHANGED <<known, start, cur, next, attempt, answer, disturbed>>

(* Mistakes: txid and utxoIndex are passed on unchanged; only utxoIndex is.   *)
SameAgain(t) == cur
SameIndex(t) == <<t, cur[2]>>

NextPlace(t) == <<t, NextUtxoIndex(t)>>

(* Recurse with nextTxid and nextUtxoIndex.                                   *)
Recurse ==
    /\ pc = "getTx"
    /\ \E t \in next : /\ t \in known
                       /\ OutputNums(t) # {}
                       /\ cur' = NextPlace(t)
    /\ pc' = "isSpent"
    /\ next' = {}
    /\ attempt' = 1
    /\ UNCHANGED <<known, start, answer, disturbed>>

(* A reply that is not JSON (an error page, or a download cut short: download *)
(* logs the error and returns what came), or whose members have other types   *)
(* than are read. The json::exception thrown is no runtime_error, and no      *)
(* handler of the program catches it.                                         *)
Garbled ==
    /\ pc \in Asking
    /\ pc' = "crashed"
    /\ disturbed' = TRUE
    /\ UNCHANGED <<known, start, cur, next, attempt, answer>>

(* JSON without the members that are read. extractLastUpdatedTxid has a const *)
(* object, whose operator[] asserts that the key is there; the object of      *)
(* determineNextUtxoIndex is not const, an absent "status" or "data" reads as *)
(* null and is reported with a runtime_error.                                 *)
Incomplete ==
    /\ pc \in Asking
    /\ pc' = IF pc = "isSpent" THEN "crashed" ELSE "failed"
    /\ disturbed' = TRUE
    /\ UNCHANGED <<known, start, cur, next, attempt, answer>>

-----------------------------------------------------------------------------
IndexStep == IndexGrows \/ IndexRewritten

(* A reply the program does not ask again after.                              *)
Reply ==
    \/ NothingFound
    \/ NotSpent
    \/ Spent
    \/ NoNextOutput
    \/ Recurse
    \/ Garbled
    \/ Incomplete

Next ==
    \/ IndexStep
    \/ \E o \in Place : Call(o)
    \/ Throttled
    \/ Reply

Spec == Init /\ [][Next]_vars

(* A request that is outstanding is not throttled for ever: the program keeps *)
(* sending it, ever more rarely, and a rate limit lets a rare one through.    *)
Fairness == WF_vars(Reply)

FairSpec == Spec /\ Fairness

-----------------------------------------------------------------------------
(* The output being asked about belongs to the DID that starts at start: it   *)
(* was reached by hops that no rewriting of the index can undo, since a       *)
(* ledger that has cur's transaction has all the transactions before it. So   *)
(* cur is on the path in every ledger in which cur exists at all, however     *)
(* the index moved between the requests.                                      *)
CursorOnPath ==
    /\ pc \in Asking => \A K \in Ledger : cur[1] \in K => cur \in Reach(K, start)
    /\ pc = "getTx" => \A t \in next : cur \in Inputs[t]

(* After the first hop the call never asks about an OP_RETURN output or one   *)
(* that does not exist, and as long as the index only grew, what it asks      *)
(* about is in the index: "Nothing found" can then only concern start.        *)
CursorFound ==
    pc \in Asking =>
        /\ cur # start => cur[2] \in PayOutputs(cur[1])
        /\ cur # start /\ ~disturbed => cur[1] \in known
        /\ pc = "getTx" /\ ~disturbed => next \subseteq known

(* getLastUpdatedTxid returns the one tip of the DID in the index as it is at *)
(* the last reply, though the replies before it were given by other indexes.  *)
AnswerIsTheTip ==
    [][pc' = "answered" /\ pc # "answered" =>
        /\ Tips(known, start) = {cur}
        /\ answer' = {cur[1]}]_vars

(* With an index that only grows and usable replies, the call reports an      *)
(* error only where there is no tip to find.                                  *)
FailsForCause ==
    [][pc' \in {"failed", "crashed"} /\ pc \in Asking /\ ~disturbed' =>
        DeadEnd(known, start)]_vars

(* The calls of getLastUpdatedTxid, taken one request at a time, do what the  *)
(* query promises as a whole.                                                 *)
Promise == INSTANCE TipQuery WITH
    asked <- start,
    outcome <- IF pc \in Asking THEN "waiting" ELSE pc
ImplementsTipQuery == Promise!Spec

(* However the index moves, a call ends: the chain of transactions that spend *)
(* one another is finite, and no request is throttled for ever.               *)
CallEnds == (pc \in Asking) ~> (pc \in Ended)

(* And it ends with the tip, when there is one and nothing disturbs the call. *)
FindsTheTip ==
    [](~disturbed /\ (pc \in Asking => ~DeadEnd(known, start)))
        => ((pc \in Asking) ~> (pc = "answered"))

(* "Chain.so has API rate limits, so in the event of a failure message, we    *)
(* will retry periodically until we get the data"                             *)
(* (src/src/chainSoQuery.cpp:129-131): no reply ends the program otherwise    *)
(* than with data or an error that is reported.                               *)
NoReplyIsFatal == pc # "crashed"
=============================================================================
