------------------------------ MODULE TipQuery ------------------------------
(* What ChainQuery::getLastUpdatedTxid promises its caller                    *)
(* (src/src/chainQuery.h:34-48), as if the whole chain of transactions were   *)
(* read at one instant: "follow the chain of transactions until an unspent    *)
(* output is found. Return that output's txid." The ledger meanwhile grows    *)
(* and is reorganised. The call may fail, but only for a cause the caller can *)
(* be told about, and may be aborted, but only if the service misbehaved.     *)
EXTENDS TxGraph

VARIABLES
    known,      \* the ledger the query is answered from
    asked,      \* the place the caller asked about
    outcome,    \* "idle" (not called), "waiting", "answered", "failed", "crashed"
    answer,     \* what was returned: a set of at most one txid
    disturbed   \* the ledger was rewritten, or a reply was unusable, during the call

vars == <<known, asked, outcome, answer, disturbed>>

Init ==
    /\ known \in Ledger
    /\ asked \in Place
    /\ outcome = "idle"
    /\ answer = {}
    /\ disturbed = FALSE

(* The outside world: the ledger takes any other shape that consensus allows. *)
(* Only growth leaves what was read of it true.                               *)
LedgerMoves ==
    /\ known' \in Ledger
    /\ disturbed' = (disturbed \/ (outcome = "waiting" /\ ~(known \subseteq known')))
    /\ UNCHANGED <<asked, outcome, answer>>

Ask ==
    /\ outcome = "idle"
    /\ asked' \in Place
    /\ outcome' = "waiting"
    /\ UNCHANGED <<known, answer, disturbed>>

Answer ==
    /\ outcome = "waiting"
    /\ \E tip \in Tips(known, asked) : answer' = {tip[1]}
    /\ outcome' = "answered"
    /\ UNCHANGED <<known, asked, disturbed>>

Fail ==
    /\ outcome = "waiting"
    /\ disturbed' \in {disturbed, TRUE}
    /\ disturbed' \/ DeadEnd(known, asked)
    /\ outcome' = "failed"
    /\ UNCHANGED <<known, asked, answer>>

Abort ==
    /\ outcome = "waiting"
    /\ outcome' = "crashed"
    /\ disturbed' = TRUE
    /\ UNCHANGED <<known, asked, answer>>

Next == LedgerMoves \/ Ask \/ Answer \/ Fail \/ Abort

Spec == Init /\ [][Next]_vars
=============================================================================
