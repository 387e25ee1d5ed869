----------------------------- MODULE DidResolver -----------------------------
(* didResolver (src/src/didResolver.cpp, src/src/domain/): turn a DID into a  *)
(* transaction output with bitcoind's help, and find the last transaction of  *)
(* the DID, from bitcoind if it has the output unspent and confirmed, else by *)
(* following the chain of transactions at chain.so. Two services that move    *)
(* independently are read one call at a time; FollowTip models the second.    *)
EXTENDS Bitcoind

CONSTANTS
    Dids,           \* arguments: [form, net, height, index, vout]
    MaxAttempts     \* bound of FollowTip

(* A txref encodes naturals; libtxref's decoder gives no others.              *)
ASSUME DidsAssumption ==
    /\ MaxAttempts \in Nat \ {0}
    /\ 0 \in OutputNo
    /\ \A d \in Dids : d.form = "btcr" =>
          d.height \in Nat /\ d.index \in Nat /\ d.vout \in OutputNo

VARIABLES
    did,            \* the argument
    step,           \* the call that is next, or how the program ended
    txid,           \* pTxref->getTxid()
    pos,            \* its blockHeight and transactionIndex
    known, tipPc, start, cur, next, attempt, answer, disturbed, \* FollowTip's
    reorganised     \* history, read by no step: the active chain was
                    \* reorganised since the program looked at it first

tipVars == <<tipPc, start, cur, next, attempt, answer>>
didVars == <<did, step, txid, pos>>
vars == <<nodeVars, didVars, known, tipVars, disturbed, reorganised>>

-----------------------------------------------------------------------------
(* Txid::isTestnet, and the chain.so network it selects. chain.so's index of  *)
(* another network than bitcoind's holds none of bitcoind's transactions.     *)
IsTestnet == network = "test"
NetworkUnsaid == "main"             \* Mistake: its default, whatever bitcoind's
QueryNetwork == IF IsTestnet THEN "test" ELSE "main"
Index == IF QueryNetwork = network THEN known ELSE {}

Tip == INSTANCE FollowTip WITH known <- Index, pc <- tipPc

(* The steps that wait for bitcoind.                                          *)
Rpc == {"connect", "lookUp", "exists", "details", "txOut"}

(* How the run ended; "" while it has not. Whatever getLastUpdatedTxid        *)
(* returns or throws ends the program.                                        *)
Outcome ==
    CASE step \in {"printed", "failed"} -> step
      [] step = "follow" /\ tipPc \in Tip!Ended ->
             IF tipPc = "answered" THEN "printed" ELSE tipPc
      [] OTHER -> ""

(* "Last txid with unspent output".                                           *)
LastTxid == IF step = "follow" THEN answer ELSE {txid}

TypeOK ==
    /\ chain \in Chains /\ mempool \in SUBSET Txid
    /\ did \in Dids
    /\ step \in Rpc \cup {"follow", "printed", "failed"}
    /\ txid \in Txid
    /\ pos \in Nat \X Nat
    /\ reorganised \in BOOLEAN
    /\ Tip!TypeOK
    /\ step = "follow" <=> tipPc # "idle"

Init ==
    /\ NodeInit
    /\ did \in Dids
    /\ step = "connect"
    /\ txid = Genesis
    /\ pos = <<0, 0>>
    /\ known \in {K \in Ledger : Genesis \in K}
    /\ tipPc = "idle"
    /\ start = <<Genesis, 0>>
    /\ cur = start
    /\ next = {}
    /\ attempt = 1
    /\ answer = {}
    /\ disturbed = FALSE
    /\ reorganised = FALSE

-----------------------------------------------------------------------------
BitcoindMoves ==
    /\ NodeMoves
    /\ reorganised' = (reorganised \/ (step \notin {"connect", "lookUp"} /\ Reorganised))
    /\ UNCHANGED <<didVars, known, tipVars, disturbed>>

ChainSoMoves ==
    /\ known' \in {K \in Ledger : Genesis \in K}
    /\ UNCHANGED network
    /\ disturbed' = (disturbed \/ (tipPc \in Tip!Asking /\ ~(Index \subseteq Index')))
    /\ UNCHANGED <<chain, mempool, didVars, tipVars, reorganised>>

-----------------------------------------------------------------------------
Goto(s) ==
    /\ step' = s
    /\ UNCHANGED <<nodeVars, did, known, disturbed, reorganised>>

(* A call bitcoind refuses or that does not come through: BitcoinException,   *)
(* or the constructor's runtime_error "Can't connect".                        *)
RpcFails ==
    /\ step \in Rpc
    /\ Goto("failed")
    /\ UNCHANGED <<txid, pos, tipVars>>

(* BitcoinRPCFacade's constructor, then Did's: "did:btcr:" and a txref. The   *)
(* network a txref is for is decoded, and not looked at.                      *)
Connect ==
    /\ step = "connect"
    /\ Goto(IF did.form = "btcr" THEN "lookUp" ELSE "failed")
    /\ UNCHANGED <<txid, pos, tipVars>>

(* Mistake: start over when the transaction is not there yet.                 *)
Later == "connect"

NotThere == "failed"

(* Txref's constructor: getblockhash, getblock, and the transaction at the    *)
(* index the txref encodes. The block of a hash never changes.                *)
LookUp ==
    /\ step = "lookUp"
    /\ IF HasBlock(did.height) /\ did.index < Len(BlockTx(BlockHash(did.height)))
       THEN /\ txid' = BlockTx(BlockHash(did.height))[did.index + 1]
            /\ Goto("exists")
       ELSE /\ Goto(NotThere)
            /\ UNCHANGED txid
    /\ UNCHANGED <<pos, tipVars>>

(* Txid::existsInNetwork.                                                     *)
Exists ==
    /\ step = "exists"
    /\ Goto(IF GetRawTransaction(txid) THEN "details" ELSE "failed")
    /\ UNCHANGED <<txid, pos, tipVars>>

(* Mistake: transactions are counted from one.                                *)
IndexFromOne(hash) == CHOOSE i \in DOMAIN BlockTx(hash) : BlockTx(hash)[i] = txid

TransactionIndex(hash) == (CHOOSE i \in DOMAIN BlockTx(hash) : BlockTx(hash)[i] = txid) - 1

(* Txid::extractTransactionDetails: the block is asked for again, by txid. A  *)
(* transaction that is back in the mempool has an empty blockhash, for which  *)
(* getblock fails.                                                            *)
ExtractDetails ==
    /\ step = "details"
    /\ IF GetRawTransaction(txid) /\ txid \in Confirmed
       THEN LET hash == HashOfBlockWith(txid) IN
            /\ pos' = <<BlockHeight(hash), TransactionIndex(hash)>>
            /\ Goto("txOut")
       ELSE /\ Goto("failed")
            /\ UNCHANGED pos
    /\ UNCHANGED <<txid, tipVars>>

(* Mistake: that the transaction is there is enough.                          *)
Known == txid \in Confirmed

(* gettxout has the output, with confirmations: this is the last update.      *)
Unspent == GetTxOut(<<txid, did.vout>>) /\ txid \in Confirmed

PrintOwn ==
    /\ step = "txOut"
    /\ Unspent
    /\ Goto("printed")
    /\ UNCHANGED <<txid, pos, tipVars>>

(* Mistakes: the txref's output index is not passed on; the query's result is *)
(* not waited for.                                                            *)
FirstOutput == <<txid, 0>>
NotAwaited == "printed"

AskedAbout == <<txid, did.vout>>
Asked == "follow"

(* It has not: getLastUpdatedTxid on the network isTestnet() selects.         *)
AskChainSo ==
    /\ step = "txOut"
    /\ ~Unspent
    /\ Goto(Asked)
    /\ Tip!Call(AskedAbout)
    /\ UNCHANGED <<txid, pos>>

(* Mistake: an error of the query is taken for a glitch and asked again.      *)
QueryRetriesErrors ==
    \/ Tip!Throttled \/ Tip!Reply
    \/ /\ tipPc = "failed"
       /\ tipPc' = "isSpent"
       /\ UNCHANGED <<start, cur, next, attempt, answer, disturbed>>

Query == Tip!Throttled \/ Tip!Reply

Follow ==
    /\ step = "follow"
    /\ UNCHANGED <<nodeVars, didVars, known, reorganised>>
    /\ Query

Program == Connect \/ LookUp \/ Exists \/ ExtractDetails \/ PrintOwn \/ AskChainSo

Next == BitcoindMoves \/ ChainSoMoves \/ RpcFails \/ Program \/ Follow

Spec == Init /\ [][Next]_vars

(* bitcoind answers or fails each call; chain.so as in FollowTip.             *)
Fairness == WF_vars(RpcFails \/ Program) /\ WF_vars(Follow /\ Tip!Reply)

FairSpec == Spec /\ Fairness

-----------------------------------------------------------------------------
(* The block height and transaction index that are printed are those the DID  *)
(* encodes, unless the chain was reorganised under the program: it looks the  *)
(* block up twice and never compares.                                         *)
PositionTruthful ==
    step \in {"txOut", "follow", "printed"} /\ ~reorganised =>
        pos = <<did.height, did.index>>

(* Whichever service the answer came from, and however both moved, the txid   *)
(* printed belongs to the DID: in every ledger that has it, it lies on the    *)
(* path of updates from the output the DID names.                             *)
AnswerBelongsToDid ==
    Outcome = "printed" =>
        \A a \in LastTxid, K \in Ledger :
            a \in K => \E o \in Reach(K, <<txid, did.vout>>) : o[1] = a

(* The resolver calls the chain query as FollowTip's specification allows, so *)
(* what is proved of FollowTip holds of the query in the resolver.            *)
UsesFollowTip == Tip!Spec

(* The chain.so network that is asked is bitcoind's: an error of the query    *)
(* means that there is no tip in the index of bitcoind's network, unless the  *)
(* index was rewritten meanwhile or gave an unusable reply. (chain.so has no  *)
(* index of a regtest network; an error is all the query can give there.)     *)
QueryFailsForCause ==
    [][/\ tipPc \in Tip!Asking /\ tipPc' \in {"failed", "crashed"}
       /\ ~disturbed' /\ network \in {"main", "test"}
       => DeadEnd(known, start)]_vars

(* Every run ends, whatever moves meanwhile.                                  *)
RunEnds == <>(Outcome # "")

(* "Error: txref ... will not be found in your bitcoind which is configured   *)
(* for the ... network" (src/src/t2tSupport.cpp:93-95): a DID of one network  *)
(* is not resolved with a bitcoind of another.                                *)
ResolvesOwnNetworkOnly == Outcome = "printed" => did.net = network
=============================================================================
