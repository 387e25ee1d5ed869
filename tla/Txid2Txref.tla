----------------------------- MODULE Txid2Txref -----------------------------
(* txid2txref (src/src/txid2txref.cpp, src/src/t2tSupport.cpp), run twice: by *)
(* somebody who turns a txid into a txref, and later by somebody who turns    *)
(* that txref back. The class Txref (src/src/domain/txref.cpp) is the other   *)
(* encoder: its constructor from a Txid and a Vout. A txref names a           *)
(* transaction by where it is in the active chain, so what it means depends   *)
(* on what becomes of the chain. The program warns of less than 6             *)
(* confirmations: "6 confirmations are required for a valid txref".           *)
(*                                                                            *)
(* libtxref's bech32 string is its content: [net, height, index, vout].       *)
EXTENDS Bitcoind

CONSTANTS
    Queries,    \* the txids and --txoIndex (-1 when not given) of the first run
    MaxReorg    \* the environment: reorganisations replace no more blocks

(* The outputs of a transaction are numbered from 0, and the class Txref      *)
(* takes one more number. 6 confirmations are to be enough against            *)
(* reorganisations of less than 6 blocks.                                     *)
ASSUME Txid2TxrefAssumption ==
    /\ Queries \subseteq Txid \X Int
    /\ MaxReorg \in 0..5
    /\ \A t \in Txid :
          /\ IsFiniteSet(Outputs[t])
          /\ Outputs[t] = 0..(Cardinality(Outputs[t]) - 1)
          /\ 0..Cardinality(Outputs[t]) \subseteq OutputNo

VARIABLES
    encoder,    \* what the first run uses: encodeTxid, or the class Txref
    query,      \* query and txoIndex of the first run
    decoder,    \* the network of the bitcoind of the second
    pc,         \* the call that is next, or how the runs ended
    blockHash,  \* blockHash in encodeTxid and decodeTxref: a set of at most one
    warned,     \* the first run warned of too few confirmations
    txref,      \* what the first run prints: a set of at most one
    decoded     \* txid and txoIndex the second prints: a set of at most one

runVars == <<encoder, query, decoder, pc, blockHash, warned, txref, decoded>>
vars == <<nodeVars, runVars>>

Encoding == {"exists", "getRawTransaction", "getBlock", "verifyVout"}
Decoding == {"getBlockHash", "getBlockOfHash"}
Txref == [net : {"main", "test", "regtest"}, height : Nat, index : Nat, vout : OutputNo]

TypeOK ==
    /\ chain \in Chains /\ mempool \subseteq Txid
    /\ encoder \in {"encodeTxid", "Txref"} /\ query \in Queries
    /\ pc \in Encoding \cup Decoding \cup {"encoded", "decoded", "failed"}
    /\ \A hash \in blockHash : \E c \in Chains : \E h \in 1..Len(c) : hash = SubSeq(c, 1, h)
    /\ warned \in BOOLEAN
    /\ txref \subseteq Txref /\ \A ref, other \in txref : ref = other
    /\ pc \in {"encoded", "decoded"} \cup Decoding => txref # {}
    /\ decoded \subseteq Place

Init ==
    /\ NodeInit
    /\ encoder \in {"encodeTxid", "Txref"}
    /\ query \in Queries
    /\ decoder \in {"main", "test", "regtest"}
    /\ pc = IF encoder = "Txref" THEN "exists" ELSE "getRawTransaction"
    /\ blockHash = {}
    /\ warned = FALSE
    /\ txref = {}
    /\ decoded = {}

-----------------------------------------------------------------------------
(* Blocks come, and others take their place when that makes a longer chain.   *)
Shallow ==
    /\ IsPrefix(SubSeq(chain, 1, Len(chain) - MaxReorg), chain')
    /\ Reorganised => Len(chain') > Len(chain)

BitcoindMoves ==
    /\ NodeMoves
    /\ Shallow
    /\ UNCHANGED runVars

Goto(s) ==
    /\ pc' = s
    /\ UNCHANGED <<nodeVars, encoder, query, decoder>>

Fails ==
    /\ Goto("failed")
    /\ UNCHANGED <<blockHash, warned, txref, decoded>>

(* A call bitcoind refuses or that does not come through.                     *)
RpcFails ==
    /\ pc \in Encoding \cup Decoding
    /\ Fails

-----------------------------------------------------------------------------
(* getblock's "confirmations", which is -1 in a block that was replaced.      *)
Confirmations(hash) == IF IsPrefix(hash, chain) THEN Len(chain) - Len(hash) + 1 ELSE -1

(* Mistake: the -1 that stands for none is used.                              *)
TxoIndexUnset == query[2]

(* --txoIndex, 0 when it is not given.                                        *)
TxoIndex == IF query[2] < 0 THEN 0 ELSE query[2]

(* Mistakes: one confirmation less is enough; one more is an output;          *)
(* transactions are counted from one.                                         *)
TooFewAtFive(n) == n < 5
TooLargeByTwo(t, txoIndex) == txoIndex > Cardinality(Outputs[t])
BlockIndexFromOne(t, hash) == CHOOSE i \in DOMAIN BlockTx(hash) : BlockTx(hash)[i] = t

TooFew(numConfirmations) == numConfirmations < 6
TooLarge(t, txoIndex) == txoIndex >= Cardinality(Outputs[t])
BlockIndex(t, hash) == (CHOOSE i \in DOMAIN BlockTx(hash) : BlockTx(hash)[i] = t) - 1

(* encodeTxid asks for the transaction, and is told its block. There is none  *)
(* while it is in the mempool, and getblock fails for an empty hash.          *)
EncodeGetRawTransaction ==
    /\ pc = "getRawTransaction"
    /\ IF GetRawTransaction(query[1]) /\ query[1] \in Confirmed
       THEN /\ blockHash' = {HashOfBlockWith(query[1])}
            /\ Goto("getBlock")
            /\ UNCHANGED <<warned, txref, decoded>>
       ELSE Fails

(* What is printed of a block.                                                *)
Encode(hash, net) ==
    /\ txref' = {[net |-> net, height |-> BlockHeight(hash),
                  index |-> BlockIndex(query[1], hash), vout |-> TxoIndex]}
    /\ Goto("encoded")
    /\ UNCHANGED <<blockHash, decoded>>

(* It asks for the block, which may have been replaced in the meantime.       *)
EncodeGetBlock ==
    /\ pc = "getBlock" /\ encoder = "encodeTxid"
    /\ \E hash \in blockHash :
          IF TooLarge(query[1], TxoIndex)
          THEN Fails
          ELSE Encode(hash, network) /\ warned' = TooFew(Confirmations(hash))

-----------------------------------------------------------------------------
(* Txid's constructor asks whether the transaction exists, and then as        *)
(* encodeTxid does for the transaction and its block. Vout's refuses a        *)
(* negative index.                                                            *)
TxidExists ==
    /\ pc = "exists"
    /\ IF GetRawTransaction(query[1]) /\ query[2] >= 0
       THEN Goto("getRawTransaction") /\ UNCHANGED <<blockHash, warned, txref, decoded>>
       ELSE Fails

TxidGetBlock ==
    /\ pc = "getBlock" /\ encoder = "Txref"
    /\ Goto("verifyVout")
    /\ UNCHANGED <<blockHash, warned, txref, decoded>>

VoutTooLarge(t, vout) == vout > Cardinality(Outputs[t])

(* Txref's asks for the transaction once more, and encodes for one of two     *)
(* networks. It never warns.                                                  *)
TxrefOfTxid ==
    /\ pc = "verifyVout"
    /\ IF GetRawTransaction(query[1]) /\ ~VoutTooLarge(query[1], query[2])
       THEN /\ \E hash \in blockHash : Encode(hash, IF network = "test" THEN "test" ELSE "main")
            /\ UNCHANGED warned
       ELSE Fails

-----------------------------------------------------------------------------
(* Mistake: the second run does without the network of the txref.             *)
NoMismatch(net) == FALSE

IsNetworkMismatch(net) == net # decoder

(* decodeTxref, any time later.                                               *)
DecodeStart ==
    /\ pc = "encoded"
    /\ IF \E ref \in txref : IsNetworkMismatch(ref.net)
       THEN Fails
       ELSE /\ Goto("getBlockHash")
            /\ UNCHANGED <<blockHash, warned, txref, decoded>>

(* The chain of the second run's bitcoind: on another network, some other.    *)
DecoderChains == IF decoder = network THEN {chain} ELSE Chains

DecodeGetBlockHash ==
    /\ pc = "getBlockHash"
    /\ \E ref \in txref, c \in DecoderChains :
          IF ref.height < Len(c)
          THEN /\ blockHash' = {SubSeq(c, 1, ref.height + 1)}
               /\ Goto("getBlockOfHash")
               /\ UNCHANGED <<warned, txref, decoded>>
          ELSE Fails

DecodeGetBlock ==
    /\ pc = "getBlockOfHash"
    /\ \E ref \in txref, hash \in blockHash :
          IF ref.index < Len(BlockTx(hash))
          THEN /\ decoded' = {<<BlockTx(hash)[ref.index + 1], ref.vout>>}
               /\ Goto("decoded")
               /\ UNCHANGED <<blockHash, warned, txref>>
          ELSE Fails

Program ==
    \/ EncodeGetRawTransaction
    \/ EncodeGetBlock
    \/ TxidExists
    \/ TxidGetBlock
    \/ TxrefOfTxid
    \/ DecodeStart
    \/ DecodeGetBlockHash
    \/ DecodeGetBlock

Next == BitcoindMoves \/ Program \/ RpcFails

Spec == Init /\ [][Next]_vars

-----------------------------------------------------------------------------
NotWarned == encoder = "encodeTxid" /\ pc \notin Encoding \cup {"failed"} /\ ~warned

(* The 6 confirmations are enough, whenever the two runs ask and whatever     *)
(* becomes of the chain between their calls: a txref printed without the      *)
(* warning is and stays the place of the transaction it was asked for, as     *)
(* long as reorganisations replace less than 6 blocks.                        *)
NoWarningMeansForEver ==
    NotWarned =>
        \A ref \in txref :
            /\ HasBlock(ref.height)
            /\ ref.index < Len(chain[ref.height + 1])
            /\ chain[ref.height + 1][ref.index + 1] = query[1]

(* So the second run prints the txid and the output the first was asked for,  *)
(* or an error when its bitcoind is of another network.                       *)
RoundTrip == pc = "decoded" /\ NotWarned => decoded = {<<query[1], TxoIndex>>}

(* A txref that is printed names an output that exists, as txrefs do not say  *)
(* how many there are and nobody checks later.                                *)
NamesAnOutput ==
    encoder = "encodeTxid" => \A ref \in txref : ref.vout \in Outputs[query[1]]

(* "Verify that the transaction referred to by the Txid has enough Vouts"     *)
(* (src/src/domain/txref.h:59): a Txref made of a Txid and a Vout names an    *)
(* output that exists.                                                        *)
VoutIsVerified ==
    encoder = "Txref" => \A ref \in txref : ref.vout \in Outputs[query[1]]
=============================================================================
