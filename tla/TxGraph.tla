------------------------------- MODULE TxGraph -------------------------------
(* The transactions a chain query is asked about, and what "following the     *)
(* transaction chain to the tip" means on them, independently of the code     *)
(* that does it (ChainQuery::getLastUpdatedTxid, src/src/chainQuery.h:34-48). *)
(*                                                                            *)
(* A transaction is an identifier: what it spends and what it creates is      *)
(* fixed by it (a txid is a hash of exactly that), so both are constants. A   *)
(* ledger is the set of transactions somebody currently knows of. A place is  *)
(* an output number of a transaction, whether or not it exists.               *)
EXTENDS Integers

CONSTANTS
    Txid,       \* transaction identifiers
    OutputNo,   \* the output numbers in play
    Outputs,    \* Outputs[t]:  the output numbers transaction t has
    OpReturn,   \* OpReturn[t]: those whose script contains "OP_RETURN"
    Inputs      \* Inputs[t]:   the places transaction t spends

Place == Txid \X OutputNo

(* An OP_RETURN output is provably unspendable, and an input spends an output *)
(* that exists.                                                               *)
ASSUME GraphAssumption ==
    /\ OutputNo \subseteq Nat
    /\ Outputs \in [Txid -> SUBSET OutputNo]
    /\ OpReturn \in [Txid -> SUBSET OutputNo]
    /\ Inputs \in [Txid -> SUBSET Place]
    /\ \A t \in Txid : \A o \in Inputs[t] : o[2] \in Outputs[o[1]] \ OpReturn[o[1]]

PayOutputs(t) == Outputs[t] \ OpReturn[t]

(* What consensus makes of any ledger: a transaction is there with the ones   *)
(* it spends, and no output is spent twice.                                   *)
Ledger == {K \in SUBSET Txid :
              /\ \A t \in K : \A o \in Inputs[t] : o[1] \in K
              /\ \A t, u \in K : Inputs[t] \cap Inputs[u] # {} => t = u}

ExistsIn(K, o) == o[1] \in K /\ o[2] \in Outputs[o[1]]

SpentIn(K, o) == \E u \in K : o \in Inputs[u]

(* One update of a DID: p is the first non-OP_RETURN output of a transaction  *)
(* of K that spends o (src/src/chainSoQuery.cpp:263-264).                     *)
Hop(K, o, p) ==
    /\ p[1] \in K
    /\ o \in Inputs[p[1]]
    /\ p[2] \in PayOutputs(p[1])
    /\ \A n \in PayOutputs(p[1]) : p[2] <= n

(* Where a DID that starts at s can be: at s, or where a hop leads.           *)
Stops(K, s) == {p \in Place : p = s \/ \E o \in Place : Hop(K, o, p)}

ClosedUnderHops(K, S) == \A p \in Place : (\E o \in S : Hop(K, o, p)) => p \in S

(* The places a DID that starts at s passes through in K: the least set that  *)
(* holds s and every hop from one of its members.                             *)
Reach(K, s) ==
    {p \in Stops(K, s) :
        \A S \in SUBSET Stops(K, s) : (s \in S /\ ClosedUnderHops(K, S)) => p \in S}

(* Where following ends: the reachable outputs nothing spends.                *)
Tips(K, s) == {o \in Reach(K, s) : ExistsIn(K, o) /\ ~SpentIn(K, o)}

(* Following from s cannot end at a tip: there is no such output, or the      *)
(* chain runs into a transaction that has no output to go on with.            *)
DeadEnd(K, s) ==
    \/ ~ExistsIn(K, s)
    \/ \E u \in K : PayOutputs(u) = {} /\ Reach(K, s) \cap Inputs[u] # {}
=============================================================================
