-------------------------- MODULE Txid2TxrefProofs --------------------------
(* A txref that is printed without the warning of too few confirmations names *)
(* its transaction for ever, and leads back to it, as long as reorganisations *)
(* replace less than 6 blocks; and it names an output that exists.            *)
EXTENDS Txid2Txref, BitcoindProofs, FiniteSetTheorems

-----------------------------------------------------------------------------
(* The inductive invariant.                                                   *)
Networks == network \in {"main", "test", "regtest"}

(* Only the class Txref looks at the transaction once more.                   *)
Verifies == pc = "verifyVout" => encoder = "Txref"

(* The block that is asked for has, or had, the transaction.                  *)
BlockHasQuery ==
    pc \in {"getBlock", "verifyVout"} =>
        \E c \in Chains : \E h \in 1..Len(c) : \E i \in 1..Len(c[h]) :
            blockHash = {SubSeq(c, 1, h)} /\ c[h][i] = query[1]

(* A txref printed without the warning is under 5 more blocks at least: no    *)
(* reorganisation reaches it, and none makes the chain shorter.               *)
DeepEnough ==
    NotWarned =>
        \A ref \in txref :
            /\ ref.height + 1 \in 1..(Len(chain) - 5)
            /\ ref.index + 1 \in 1..Len(chain[ref.height + 1])
            /\ chain[ref.height + 1][ref.index + 1] = query[1]

(* What encodeTxid prints besides.                                            *)
Encoded ==
    encoder = "encodeTxid" =>
        \A ref \in txref :
            ref.net = network /\ ref.vout = TxoIndex /\ ref.vout \in Outputs[query[1]]

(* The second run goes on only where it is of the txref's network, and then   *)
(* finds the block that the txref is for.                                     *)
SameNetwork == pc \in Decoding => \A ref \in txref : ref.net = decoder
RightBlock ==
    pc = "getBlockOfHash" /\ NotWarned =>
        \A ref \in txref, hash \in blockHash : BlockTx(hash)[ref.index + 1] = query[1]

Inv ==
    /\ TypeOK /\ Networks /\ Verifies
    /\ BlockHasQuery /\ DeepEnough /\ Encoded
    /\ SameNetwork /\ RightBlock /\ RoundTrip

-----------------------------------------------------------------------------
(* The outputs of a transaction are counted.                                  *)
LEMMA OutputCount ==
    ASSUME NEW t \in Txid
    PROVE  /\ Cardinality(Outputs[t]) \in Nat
           /\ Outputs[t] = 0..(Cardinality(Outputs[t]) - 1)
           /\ 0..Cardinality(Outputs[t]) \subseteq OutputNo
BY Txid2TxrefAssumption, FS_CardinalityType DEF Txid2TxrefAssumption

LEMMA QueryTypes ==
    ASSUME TypeOK
    PROVE  query[1] \in Txid /\ query[2] \in Int /\ TxoIndex \in Nat
BY Txid2TxrefAssumption DEF Txid2TxrefAssumption, TypeOK, TxoIndex

(* No output number that is taken is too large for a txref, and encodeTxid    *)
(* takes only those of outputs.                                               *)
LEMMA VoutTypes ==
    ASSUME TypeOK
    PROVE  /\ ~TooLarge(query[1], TxoIndex) => TxoIndex \in Outputs[query[1]] /\ TxoIndex \in OutputNo
           /\ ~VoutTooLarge(query[1], query[2]) => TxoIndex \in OutputNo
<1> DEFINE n == Cardinality(Outputs[query[1]])
<1>1. /\ n \in Nat /\ Outputs[query[1]] = 0..(n - 1) /\ 0..n \subseteq OutputNo
      /\ query[2] \in Int /\ TxoIndex \in Nat
  BY OutputCount, QueryTypes
<1>2. TooLarge(query[1], TxoIndex) = (TxoIndex >= n) /\ VoutTooLarge(query[1], query[2]) = (query[2] > n)
  BY DEF TooLarge, VoutTooLarge
<1> HIDE DEF n
<1>3. ASSUME ~(TxoIndex >= n)
      PROVE  TxoIndex \in 0..(n - 1) /\ TxoIndex \in 0..n
  BY <1>1, <1>3
<1>4. ASSUME ~(query[2] > n)
      PROVE  TxoIndex \in 0..n
  BY <1>1, <1>4 DEF TxoIndex
<1> QED
  BY <1>1, <1>2, <1>3, <1>4

(* What is printed is the place of the transaction in the block asked for.    *)
LEMMA EncodesPlace ==
    ASSUME NEW c \in Chains, NEW h \in 1..Len(c), NEW i \in 1..Len(c[h]), c[h][i] = query[1]
    PROVE  /\ BlockHeight(SubSeq(c, 1, h)) = h - 1 /\ h - 1 \in Nat
           /\ BlockIndex(query[1], SubSeq(c, 1, h)) = i - 1 /\ i - 1 \in Nat
<1>1. Len(c) \in Nat /\ c[h] \in Seq(Txid)
  BY ChainFacts
<1>2. BlockHeight(SubSeq(c, 1, h)) = h - 1 /\ BlockTx(SubSeq(c, 1, h)) = c[h]
  BY HashFacts
<1>3. (CHOOSE j \in DOMAIN c[h] : c[h][j] = query[1]) = i
  BY FoundInBlock
<1>4. BlockIndex(query[1], SubSeq(c, 1, h)) = i - 1
  BY <1>2, <1>3 DEF BlockIndex
<1>5. h - 1 \in Nat /\ i - 1 \in Nat
  BY <1>1
<1> QED
  BY <1>2, <1>4, <1>5

(* A reorganisation of less than 6 blocks leaves what is under 5 more blocks, *)
(* and at least as many above it.                                             *)
LEMMA ShallowKeeps ==
    ASSUME chain \in Chains, chain' \in Chains, Shallow
    PROVE  /\ Len(chain) <= Len(chain')
           /\ \A h \in 1..(Len(chain) - 5) : chain'[h] = chain[h]
<1>1. /\ chain \in Seq(Seq(Txid)) /\ Len(chain) \in Nat
      /\ chain' \in Seq(Seq(Txid)) /\ Len(chain') \in Nat
      /\ MaxReorg \in 0..5
  BY ChainFacts, Txid2TxrefAssumption DEF Txid2TxrefAssumption
<1>2. Len(chain) <= Len(chain')
  BY <1>1, PrefixEntries DEF Shallow, Reorganised
<1>3. ASSUME NEW h \in 1..(Len(chain) - 5)
      PROVE  chain'[h] = chain[h]
  <2> DEFINE m == Len(chain) - MaxReorg
  <2>1. m \in 1..Len(chain) /\ h \in 1..m
    BY <1>1
  <2>2. IsPrefix(SubSeq(chain, 1, m), chain')
    BY DEF Shallow
  <2> HIDE DEF m
  <2>3. /\ SubSeq(chain, 1, m) \in Seq(Seq(Txid)) /\ Len(SubSeq(chain, 1, m)) = m
        /\ SubSeq(chain, 1, m)[h] = chain[h]
    BY <2>1, HashFacts
  <2> QED
    BY <1>1, <2>1, <2>2, <2>3, PrefixEntries
<1> QED
  BY <1>2, <1>3

(* What either encoder prints, of the block it asked for.                     *)
LEMMA Encodes ==
    ASSUME TypeOK, BlockHasQuery, pc \in {"getBlock", "verifyVout"},
           NEW hash \in blockHash, NEW net, Encode(hash, net)
    PROVE  \E c \in Chains : \E h \in 1..Len(c) : \E i \in 1..Len(c[h]) :
              /\ hash = SubSeq(c, 1, h) /\ c[h][i] = query[1]
              /\ h - 1 \in Nat /\ i - 1 \in Nat
              /\ txref' = {[net |-> net, height |-> h - 1, index |-> i - 1, vout |-> TxoIndex]}
<1>1. PICK c \in Chains : \E h \in 1..Len(c) : \E i \in 1..Len(c[h]) :
         blockHash = {SubSeq(c, 1, h)} /\ c[h][i] = query[1]
  BY DEF BlockHasQuery
<1>2. PICK h \in 1..Len(c) : \E i \in 1..Len(c[h]) :
         blockHash = {SubSeq(c, 1, h)} /\ c[h][i] = query[1]
  BY <1>1
<1>3. PICK i \in 1..Len(c[h]) : blockHash = {SubSeq(c, 1, h)} /\ c[h][i] = query[1]
  BY <1>2
<1>4. hash = SubSeq(c, 1, h) /\ c[h][i] = query[1]
  BY <1>3
<1>5. /\ BlockHeight(SubSeq(c, 1, h)) = h - 1 /\ h - 1 \in Nat
      /\ BlockIndex(query[1], SubSeq(c, 1, h)) = i - 1 /\ i - 1 \in Nat
  BY <1>4, EncodesPlace
<1>6. txref' = {[net |-> net, height |-> h - 1, index |-> i - 1, vout |-> TxoIndex]}
  BY <1>4, <1>5 DEF Encode
<1> QED
  BY <1>4, <1>5, <1>6

LEMMA InitInv == Init => Inv
<1> SUFFICES ASSUME Init
             PROVE  Inv
  OBVIOUS
<1>1. chain \in Chains /\ mempool \subseteq Txid
  BY DEF Init, NodeInit, Mempools, Ledger
<1>2. TypeOK
  BY <1>1 DEF Init, TypeOK, Encoding, Decoding
<1> QED
  BY <1>2 DEF Init, NodeInit, Inv, Networks, Verifies, BlockHasQuery, DeepEnough, Encoded,
              SameNetwork, RightBlock, RoundTrip, NotWarned, Encoding, Decoding

LEMMA NetworkStep == Networks /\ [Next]_vars => Networks'
<1> SUFFICES ASSUME Networks, [Next]_vars
             PROVE  Networks'
  OBVIOUS
<1> USE DEF Networks, Goto, Fails, nodeVars
<1>1. CASE BitcoindMoves
  BY <1>1 DEF BitcoindMoves, NodeMoves
<1>2. CASE Program \/ RpcFails
  BY <1>2 DEF Program, RpcFails, EncodeGetRawTransaction, EncodeGetBlock, Encode, TxidExists,
              TxidGetBlock, TxrefOfTxid, DecodeStart, DecodeGetBlockHash, DecodeGetBlock
<1>3. CASE UNCHANGED vars
  BY <1>3 DEF vars
<1> QED
  BY <1>1, <1>2, <1>3 DEF Next

LEMMA VerifiesStep == Verifies /\ [Next]_vars => Verifies'
<1> SUFFICES ASSUME Verifies, [Next]_vars
             PROVE  Verifies'
  OBVIOUS
<1> USE DEF Verifies, Goto, Fails
<1>1. CASE RpcFails \/ EncodeGetRawTransaction \/ EncodeGetBlock \/ TxidExists \/ TxidGetBlock
  BY <1>1 DEF RpcFails, EncodeGetRawTransaction, EncodeGetBlock, Encode, TxidExists, TxidGetBlock
<1>2. CASE TxrefOfTxid \/ DecodeStart \/ DecodeGetBlockHash \/ DecodeGetBlock
  BY <1>2 DEF TxrefOfTxid, Encode, DecodeStart, DecodeGetBlockHash, DecodeGetBlock
<1>3. CASE BitcoindMoves \/ UNCHANGED vars
  BY <1>3 DEF BitcoindMoves, runVars, vars
<1> QED
  BY <1>1, <1>2, <1>3 DEF Next, Program

LEMMA EncodeTypes ==
    ASSUME TypeOK, BlockHasQuery, pc \in {"getBlock", "verifyVout"}, TxoIndex \in OutputNo,
           NEW hash \in blockHash, NEW net \in {"main", "test", "regtest"}, Encode(hash, net)
    PROVE  txref' \subseteq Txref /\ txref' # {} /\ \A ref, other \in txref' : ref = other
<1>1. PICK h \in Nat, i \in Nat :
         txref' = {[net |-> net, height |-> h, index |-> i, vout |-> TxoIndex]}
  <2>1. ASSUME NEW c \in Chains, NEW h \in 1..Len(c), NEW i \in 1..Len(c[h]),
               h - 1 \in Nat, i - 1 \in Nat,
               txref' = {[net |-> net, height |-> h - 1, index |-> i - 1, vout |-> TxoIndex]}
        PROVE  \E m \in Nat, n \in Nat :
                  txref' = {[net |-> net, height |-> m, index |-> n, vout |-> TxoIndex]}
    BY <2>1
  <2> QED
    BY <2>1, Encodes
<1>2. [net |-> net, height |-> h, index |-> i, vout |-> TxoIndex] \in Txref
  BY DEF Txref
<1> QED
  BY <1>1, <1>2

LEMMA TypeStep ==
    ASSUME TypeOK, Networks, BlockHasQuery, [Next]_vars
    PROVE  TypeOK'
<1> USE DEF TypeOK, Goto, Fails, nodeVars, Encoding, Decoding
<1>1. CASE BitcoindMoves
  <2>1. chain' \in Chains /\ mempool' \subseteq Txid
    BY <1>1 DEF BitcoindMoves, NodeMoves, Mempools, Ledger
  <2> QED
    BY <1>1, <2>1 DEF BitcoindMoves, runVars
<1>2. CASE RpcFails \/ TxidExists \/ TxidGetBlock \/ DecodeStart
  BY <1>2 DEF RpcFails, TxidExists, TxidGetBlock, DecodeStart
<1>3. CASE EncodeGetRawTransaction
  <2>1. CASE GetRawTransaction(query[1]) /\ query[1] \in Confirmed
    <3>1. PICK h \in 1..Len(chain) : HashOfBlockWith(query[1]) = BlockHash(h - 1)
      BY <2>1, BlockOfTransaction
    <3>2. (h - 1) + 1 = h
      BY ChainFacts
    <3>3. blockHash' = {SubSeq(chain, 1, h)}
      BY <1>3, <2>1, <3>1, <3>2 DEF EncodeGetRawTransaction, BlockHash
    <3> QED
      BY <1>3, <2>1, <3>3 DEF EncodeGetRawTransaction
  <2>2. CASE ~(GetRawTransaction(query[1]) /\ query[1] \in Confirmed)
    BY <1>3, <2>2 DEF EncodeGetRawTransaction
  <2> QED
    BY <2>1, <2>2
<1>4. CASE EncodeGetBlock
  <2>1. PICK hash \in blockHash :
           IF TooLarge(query[1], TxoIndex)
           THEN Fails
           ELSE Encode(hash, network) /\ warned' = TooFew(Confirmations(hash))
    BY <1>4 DEF EncodeGetBlock
  <2>2. CASE TooLarge(query[1], TxoIndex)
    BY <2>1, <2>2
  <2>3. CASE ~TooLarge(query[1], TxoIndex)
    <3>1. txref' \subseteq Txref /\ txref' # {} /\ \A ref, other \in txref' : ref = other
      BY <1>4, <2>1, <2>3, VoutTypes, EncodeTypes DEF EncodeGetBlock, Networks
    <3>2. TooFew(Confirmations(hash)) \in BOOLEAN
      BY DEF TooFew
    <3> QED
      BY <2>1, <2>3, <3>1, <3>2 DEF Encode
  <2> QED
    BY <2>2, <2>3
<1>5. CASE TxrefOfTxid
  <2>1. CASE GetRawTransaction(query[1]) /\ ~VoutTooLarge(query[1], query[2])
    <3> DEFINE net == IF network = "test" THEN "test" ELSE "main"
    <3>1. PICK hash \in blockHash : Encode(hash, net)
      BY <1>5, <2>1 DEF TxrefOfTxid
    <3>2. txref' \subseteq Txref /\ txref' # {} /\ \A ref, other \in txref' : ref = other
      BY <1>5, <2>1, <3>1, VoutTypes, EncodeTypes DEF TxrefOfTxid
    <3> QED
      BY <1>5, <2>1, <3>1, <3>2 DEF TxrefOfTxid, Encode
  <2>2. CASE ~(GetRawTransaction(query[1]) /\ ~VoutTooLarge(query[1], query[2]))
    BY <1>5, <2>2 DEF TxrefOfTxid
  <2> QED
    BY <2>1, <2>2
<1>6. CASE DecodeGetBlockHash
  <2>1. PICK ref \in txref, c \in DecoderChains :
           IF ref.height < Len(c)
           THEN /\ blockHash' = {SubSeq(c, 1, ref.height + 1)}
                /\ Goto("getBlockOfHash")
                /\ UNCHANGED <<warned, txref, decoded>>
           ELSE Fails
    BY <1>6 DEF DecodeGetBlockHash
  <2>2. c \in Chains /\ ref.height \in Nat /\ Len(c) \in Nat
    BY ChainFacts DEF DecoderChains, Txref
  <2>3. CASE ref.height < Len(c)
    <3>1. ref.height + 1 \in 1..Len(c)
      BY <2>2, <2>3
    <3>2. \A hash \in blockHash' : \E d \in Chains : \E h \in 1..Len(d) : hash = SubSeq(d, 1, h)
      BY <2>1, <2>2, <2>3, <3>1
    <3> QED
      BY <1>6, <2>1, <2>3, <3>2 DEF DecodeGetBlockHash
  <2>4. CASE ~(ref.height < Len(c))
    BY <2>1, <2>4
  <2> QED
    BY <2>3, <2>4
<1>7. CASE DecodeGetBlock
  <2>1. PICK ref \in txref, hash \in blockHash :
           IF ref.index < Len(BlockTx(hash))
           THEN /\ decoded' = {<<BlockTx(hash)[ref.index + 1], ref.vout>>}
                /\ Goto("decoded")
                /\ UNCHANGED <<blockHash, warned, txref>>
           ELSE Fails
    BY <1>7 DEF DecodeGetBlock
  <2>2. CASE ref.index < Len(BlockTx(hash))
    <3>1. PICK c \in Chains : \E h \in 1..Len(c) : hash = SubSeq(c, 1, h)
      OBVIOUS
    <3>2. PICK h \in 1..Len(c) : hash = SubSeq(c, 1, h)
      BY <3>1
    <3>3. /\ BlockTx(SubSeq(c, 1, h)) = c[h] /\ c[h] \in Seq(Txid)
          /\ ref.index \in Nat /\ ref.vout \in OutputNo
      BY HashFacts, ChainFacts DEF Txref
    <3>4. ref.index + 1 \in 1..Len(c[h])
      BY <2>2, <3>2, <3>3
    <3>5. <<BlockTx(hash)[ref.index + 1], ref.vout>> \in Place
      BY <3>2, <3>3, <3>4, InBlock DEF Place
    <3> QED
      BY <1>7, <2>1, <2>2, <3>5 DEF DecodeGetBlock
  <2>3. CASE ~(ref.index < Len(BlockTx(hash)))
    BY <2>1, <2>3
  <2> QED
    BY <2>2, <2>3
<1>8. CASE UNCHANGED vars
  BY <1>8 DEF vars, runVars
<1> QED
  BY <1>1, <1>2, <1>3, <1>4, <1>5, <1>6, <1>7, <1>8 DEF Next, Program

-----------------------------------------------------------------------------
(* The block that getrawtransaction names has the transaction.                *)
LEMMA BlockHasQueryStep ==
    ASSUME TypeOK, BlockHasQuery, [Next]_vars
    PROVE  BlockHasQuery'
<1> USE DEF BlockHasQuery, Goto, Fails, nodeVars
<1>1. CASE EncodeGetRawTransaction
  <2>1. CASE GetRawTransaction(query[1]) /\ query[1] \in Confirmed
    <3>1. PICK h \in 1..Len(chain) : \E i \in 1..Len(chain[h]) :
             chain[h][i] = query[1] /\ HashOfBlockWith(query[1]) = BlockHash(h - 1)
      BY <2>1, BlockOfTransaction DEF TypeOK
    <3>2. (h - 1) + 1 = h /\ chain \in Chains
      BY ChainFacts DEF TypeOK
    <3>3. blockHash' = {SubSeq(chain, 1, h)}
      BY <1>1, <2>1, <3>1, <3>2 DEF EncodeGetRawTransaction, BlockHash
    <3>4. query' = query
      BY <1>1, <2>1 DEF EncodeGetRawTransaction
    <3> QED
      BY <3>1, <3>2, <3>3, <3>4
  <2>2. CASE ~(GetRawTransaction(query[1]) /\ query[1] \in Confirmed)
    BY <1>1, <2>2 DEF EncodeGetRawTransaction
  <2> QED
    BY <2>1, <2>2
<1>2. CASE RpcFails \/ EncodeGetBlock \/ TxidExists \/ TxidGetBlock \/ TxrefOfTxid
  BY <1>2 DEF RpcFails, EncodeGetBlock, Encode, TxidExists, TxidGetBlock, TxrefOfTxid
<1>3. CASE DecodeStart \/ DecodeGetBlockHash \/ DecodeGetBlock
  BY <1>3 DEF DecodeStart, DecodeGetBlockHash, DecodeGetBlock
<1>4. CASE BitcoindMoves \/ UNCHANGED vars
  BY <1>4 DEF BitcoindMoves, runVars, vars
<1> QED
  BY <1>1, <1>2, <1>3, <1>4 DEF Next, Program

(* Which block is deep enough when encodeTxid does not warn of it.            *)
LEMMA NotTooFew ==
    ASSUME chain \in Chains, NEW c \in Chains, NEW h \in 1..Len(c),
           ~TooFew(Confirmations(SubSeq(c, 1, h)))
    PROVE  h \in 1..(Len(chain) - 5) /\ chain[h] = c[h]
<1> DEFINE hash == SubSeq(c, 1, h)
<1>1. /\ hash \in Seq(Seq(Txid)) /\ Len(hash) = h /\ hash[h] = c[h]
      /\ h \in Nat \ {0} /\ Len(chain) \in Nat /\ chain \in Seq(Seq(Txid))
  BY HashFacts, ChainFacts
<1>2. Confirmations(hash) >= 6 \/ Confirmations(hash) \notin Int
  BY DEF TooFew
<1> HIDE DEF hash
<1>3. IsPrefix(hash, chain) /\ Len(chain) - h + 1 >= 6
  BY <1>1, <1>2 DEF Confirmations
<1>4. h \in 1..(Len(chain) - 5)
  BY <1>1, <1>3
<1>5. chain[h] = hash[h]
  BY <1>1, <1>3, PrefixEntries
<1> QED
  BY <1>1, <1>4, <1>5

LEMMA DeepEnoughStep ==
    ASSUME TypeOK, Verifies, BlockHasQuery, DeepEnough, [Next]_vars
    PROVE  DeepEnough'
<1> USE DEF DeepEnough, NotWarned, Goto, Fails, nodeVars, Encoding
<1>1. CASE BitcoindMoves
  <2>1. chain \in Chains /\ chain' \in Chains /\ Shallow
        /\ UNCHANGED <<encoder, query, pc, warned, txref>>
    BY <1>1 DEF TypeOK, BitcoindMoves, NodeMoves, runVars
  <2>2. /\ Len(chain) <= Len(chain') /\ Len(chain) \in Nat /\ Len(chain') \in Nat
        /\ \A h \in 1..(Len(chain) - 5) : chain'[h] = chain[h]
    BY <2>1, ShallowKeeps, ChainFacts
  <2>3. ASSUME NEW ref \in txref, ref.height + 1 \in 1..(Len(chain) - 5)
        PROVE  ref.height + 1 \in 1..(Len(chain') - 5) /\ chain'[ref.height + 1] = chain[ref.height + 1]
    <3> DEFINE h == ref.height + 1
    <3> HIDE DEF h
    <3>1. h \in 1..(Len(chain) - 5)
      BY <2>3 DEF h
    <3>2. h \in 1..(Len(chain') - 5) /\ chain'[h] = chain[h]
      BY <2>2, <3>1
    <3> QED
      BY <3>2 DEF h
  <2> QED
    BY <2>1, <2>3
<1>2. CASE EncodeGetBlock
  <2>1. CASE NotWarned'
    <3>1. PICK hash \in blockHash : Encode(hash, network) /\ warned' = TooFew(Confirmations(hash))
      BY <1>2, <2>1 DEF EncodeGetBlock
    <3>2. ~TooFew(Confirmations(hash)) /\ chain' = chain /\ query' = query
      BY <2>1, <3>1 DEF Encode
    <3>3. PICK c \in Chains : \E h \in 1..Len(c) : \E i \in 1..Len(c[h]) :
             /\ hash = SubSeq(c, 1, h) /\ c[h][i] = query[1]
             /\ h - 1 \in Nat /\ i - 1 \in Nat
             /\ txref' = {[net |-> network, height |-> h - 1, index |-> i - 1, vout |-> TxoIndex]}
      BY <1>2, <3>1, Encodes DEF EncodeGetBlock
    <3>4. PICK h \in 1..Len(c) : \E i \in 1..Len(c[h]) :
             /\ hash = SubSeq(c, 1, h) /\ c[h][i] = query[1]
             /\ h - 1 \in Nat /\ i - 1 \in Nat
             /\ txref' = {[net |-> network, height |-> h - 1, index |-> i - 1, vout |-> TxoIndex]}
      BY <3>3
    <3>5. PICK i \in 1..Len(c[h]) :
             /\ hash = SubSeq(c, 1, h) /\ c[h][i] = query[1]
             /\ h - 1 \in Nat /\ i - 1 \in Nat
             /\ txref' = {[net |-> network, height |-> h - 1, index |-> i - 1, vout |-> TxoIndex]}
      BY <3>4
    <3>6. h \in 1..(Len(chain) - 5) /\ chain[h] = c[h]
      BY <3>2, <3>5, NotTooFew DEF TypeOK
    <3>7. (h - 1) + 1 = h /\ (i - 1) + 1 = i
      BY <3>5, ChainFacts
    <3> QED
      BY <3>2, <3>5, <3>6, <3>7
  <2> QED
    BY <2>1
<1>3. CASE RpcFails \/ EncodeGetRawTransaction \/ TxidExists \/ TxidGetBlock
  BY <1>3 DEF RpcFails, EncodeGetRawTransaction, TxidExists, TxidGetBlock
<1>4. CASE TxrefOfTxid
  <2>1. encoder' # "encodeTxid" \/ pc' = "failed"
    BY <1>4 DEF TxrefOfTxid, Encode, Verifies
  <2> QED
    BY <2>1
<1>5. CASE DecodeStart \/ DecodeGetBlockHash \/ DecodeGetBlock
  BY <1>5 DEF DecodeStart, DecodeGetBlockHash, DecodeGetBlock
<1>6. CASE UNCHANGED vars
  BY <1>6 DEF vars, runVars
<1> QED
  BY <1>1, <1>2, <1>3, <1>4, <1>5, <1>6 DEF Next, Program

LEMMA EncodedStep ==
    ASSUME TypeOK, Networks, Verifies, BlockHasQuery, Encoded, [Next]_vars
    PROVE  Encoded'
<1> USE DEF Encoded, Goto, Fails, nodeVars, TxoIndex
<1>1. CASE EncodeGetBlock
  <2>1. CASE TooLarge(query[1], TxoIndex)
    BY <1>1, <2>1 DEF EncodeGetBlock
  <2>2. CASE ~TooLarge(query[1], TxoIndex)
    <3>1. PICK hash \in blockHash : Encode(hash, network)
      BY <1>1, <2>2 DEF EncodeGetBlock
    <3>2. \A ref \in txref' : ref.net = network /\ ref.vout = TxoIndex
      BY <3>1 DEF Encode
    <3>3. TxoIndex \in Outputs[query[1]] /\ query' = query /\ network' = network
      BY <2>2, <3>1, VoutTypes DEF Encode
    <3> QED
      BY <3>2, <3>3
  <2> QED
    BY <2>1, <2>2
<1>2. CASE TxrefOfTxid
  <2>1. encoder' = encoder /\ encoder # "encodeTxid"
    BY <1>2 DEF TxrefOfTxid, Encode, Verifies
  <2> QED
    BY <2>1
<1>3. CASE RpcFails \/ EncodeGetRawTransaction \/ TxidExists \/ TxidGetBlock
  BY <1>3 DEF RpcFails, EncodeGetRawTransaction, TxidExists, TxidGetBlock
<1>4. CASE DecodeStart \/ DecodeGetBlockHash \/ DecodeGetBlock
  BY <1>4 DEF DecodeStart, DecodeGetBlockHash, DecodeGetBlock
<1>5. CASE BitcoindMoves \/ UNCHANGED vars
  BY <1>5 DEF BitcoindMoves, NodeMoves, runVars, vars
<1> QED
  BY <1>1, <1>2, <1>3, <1>4, <1>5 DEF Next, Program

LEMMA SameNetworkStep ==
    ASSUME TypeOK, SameNetwork, [Next]_vars
    PROVE  SameNetwork'
<1> USE DEF SameNetwork, Goto, Fails, Decoding
<1>1. CASE DecodeStart
  BY <1>1 DEF DecodeStart, IsNetworkMismatch
<1>2. CASE DecodeGetBlockHash \/ DecodeGetBlock
  BY <1>2 DEF DecodeGetBlockHash, DecodeGetBlock
<1>3. CASE RpcFails \/ EncodeGetRawTransaction \/ EncodeGetBlock
  BY <1>3 DEF RpcFails, EncodeGetRawTransaction, EncodeGetBlock, Encode
<1>4. CASE TxidExists \/ TxidGetBlock \/ TxrefOfTxid
  BY <1>4 DEF TxidExists, TxidGetBlock, TxrefOfTxid, Encode
<1>5. CASE BitcoindMoves \/ UNCHANGED vars
  BY <1>5 DEF BitcoindMoves, runVars, vars
<1> QED
  BY <1>1, <1>2, <1>3, <1>4, <1>5 DEF Next, Program

(* The second run is of the network that the txref is for, which is that of   *)
(* the first run: both ask the same chain, and find the same block.           *)
LEMMA RightBlockStep ==
    ASSUME TypeOK, DeepEnough, Encoded, SameNetwork, RightBlock, [Next]_vars
    PROVE  RightBlock'
<1> USE DEF RightBlock, NotWarned, Goto, Fails
<1>1. CASE DecodeGetBlockHash
  <2>1. CASE (pc = "getBlockOfHash" /\ NotWarned)'
    <3>1. /\ encoder = "encodeTxid" /\ ~warned /\ pc = "getBlockHash"
          /\ query' = query /\ txref' = txref
      BY <1>1, <2>1 DEF DecodeGetBlockHash
    <3>2. PICK ref \in txref, c \in DecoderChains : blockHash' = {SubSeq(c, 1, ref.height + 1)}
      BY <1>1, <2>1 DEF DecodeGetBlockHash
    <3>3. c = chain
      BY <3>1, <3>2 DEF Encoded, SameNetwork, Decoding, DecoderChains
    <3>4. NotWarned
      BY <3>1 DEF Encoding
    <3>5. /\ ref.height + 1 \in 1..(Len(chain) - 5)
          /\ chain[ref.height + 1][ref.index + 1] = query[1]
      BY <3>4 DEF DeepEnough
    <3>6. BlockTx(SubSeq(chain, 1, ref.height + 1)) = chain[ref.height + 1]
      <4> DEFINE h == ref.height + 1
      <4> HIDE DEF h
      <4>1. chain \in Chains /\ Len(chain) \in Nat /\ h \in 1..(Len(chain) - 5)
        BY <3>5, ChainFacts DEF TypeOK, h
      <4>2. h \in 1..Len(chain)
        BY <4>1
      <4>3. BlockTx(SubSeq(chain, 1, h)) = chain[h]
        BY <4>1, <4>2, HashFacts
      <4> QED
        BY <4>3 DEF h
    <3>7. ASSUME NEW other \in txref'
          PROVE  other = ref
      BY <3>1 DEF TypeOK
    <3> QED
      BY <3>1, <3>2, <3>3, <3>5, <3>6, <3>7
  <2> QED
    BY <2>1
<1>2. CASE DecodeStart \/ DecodeGetBlock
  BY <1>2 DEF DecodeStart, DecodeGetBlock
<1>3. CASE RpcFails \/ EncodeGetRawTransaction \/ EncodeGetBlock
  BY <1>3 DEF RpcFails, EncodeGetRawTransaction, EncodeGetBlock, Encode
<1>4. CASE TxidExists \/ TxidGetBlock \/ TxrefOfTxid
  BY <1>4 DEF TxidExists, TxidGetBlock, TxrefOfTxid, Encode
<1>5. CASE BitcoindMoves \/ UNCHANGED vars
  BY <1>5 DEF BitcoindMoves, runVars, vars
<1> QED
  BY <1>1, <1>2, <1>3, <1>4, <1>5 DEF Next, Program

LEMMA RoundTripStep ==
    ASSUME TypeOK, Encoded, RightBlock, RoundTrip, [Next]_vars
    PROVE  RoundTrip'
<1> USE DEF RoundTrip, NotWarned, Goto, Fails, TxoIndex
<1>1. CASE DecodeGetBlock
  <2>1. CASE (pc = "decoded" /\ NotWarned)'
    <3>1. /\ encoder = "encodeTxid" /\ ~warned /\ pc = "getBlockOfHash" /\ query' = query
      BY <1>1, <2>1 DEF DecodeGetBlock
    <3>2. PICK ref \in txref, hash \in blockHash :
             decoded' = {<<BlockTx(hash)[ref.index + 1], ref.vout>>}
      BY <1>1, <2>1 DEF DecodeGetBlock
    <3>3. ref.vout = TxoIndex
      BY <3>1 DEF Encoded
    <3>4. BlockTx(hash)[ref.index + 1] = query[1]
      BY <3>1 DEF RightBlock, Encoding
    <3> QED
      BY <3>1, <3>2, <3>3, <3>4
  <2> QED
    BY <2>1
<1>2. CASE DecodeStart \/ DecodeGetBlockHash
  BY <1>2 DEF DecodeStart, DecodeGetBlockHash
<1>3. CASE RpcFails \/ EncodeGetRawTransaction \/ EncodeGetBlock
  BY <1>3 DEF RpcFails, EncodeGetRawTransaction, EncodeGetBlock, Encode
<1>4. CASE TxidExists \/ TxidGetBlock \/ TxrefOfTxid
  BY <1>4 DEF TxidExists, TxidGetBlock, TxrefOfTxid, Encode
<1>5. CASE BitcoindMoves \/ UNCHANGED vars
  BY <1>5 DEF BitcoindMoves, runVars, vars
<1> QED
  BY <1>1, <1>2, <1>3, <1>4, <1>5 DEF Next, Program

-----------------------------------------------------------------------------
LEMMA Invariance == Spec => []Inv
<1>1. Inv /\ [Next]_vars => Inv'
  <2> SUFFICES ASSUME Inv, [Next]_vars
               PROVE  Inv'
    OBVIOUS
  <2>1. TypeOK' /\ Networks' /\ Verifies' /\ BlockHasQuery'
    BY TypeStep, NetworkStep, VerifiesStep, BlockHasQueryStep DEF Inv
  <2>2. DeepEnough' /\ Encoded' /\ SameNetwork'
    BY DeepEnoughStep, EncodedStep, SameNetworkStep DEF Inv
  <2>3. RightBlock' /\ RoundTrip'
    BY RightBlockStep, RoundTripStep DEF Inv
  <2> QED
    BY <2>1, <2>2, <2>3 DEF Inv
<1> QED
  BY InitInv, <1>1, PTL DEF Spec

(* Whatever the transactions, the chains and their reorganisations, the state *)
(* of the two runs is of its type.                                            *)
THEOREM Txid2TxrefTypes == Spec => []TypeOK
<1>1. Inv => TypeOK
  BY DEF Inv
<1> QED
  BY Invariance, <1>1, PTL

(* 6 confirmations are enough (src/src/t2tSupport.cpp:36): a txref printed    *)
(* without the warning is and stays the place of the transaction it was asked *)
(* for, as long as reorganisations replace less than 6 blocks.                *)
THEOREM SixConfirmationsAreEnough == Spec => []NoWarningMeansForEver
<1>1. Inv => NoWarningMeansForEver
  <2> SUFFICES ASSUME Inv, NotWarned, NEW ref \in txref
               PROVE  /\ HasBlock(ref.height)
                      /\ ref.index < Len(chain[ref.height + 1])
                      /\ chain[ref.height + 1][ref.index + 1] = query[1]
    BY DEF NoWarningMeansForEver
  <2>1. /\ ref.height \in Nat /\ ref.index \in Nat /\ Len(chain) \in Nat
        /\ chain \in Seq(Seq(Txid))
    BY ChainFacts DEF Inv, TypeOK, Txref
  <2>2. /\ ref.height + 1 \in 1..(Len(chain) - 5)
        /\ ref.index + 1 \in 1..Len(chain[ref.height + 1])
        /\ chain[ref.height + 1][ref.index + 1] = query[1]
    BY DEF Inv, DeepEnough
  <2>3. HasBlock(ref.height)
    BY <2>1, <2>2 DEF HasBlock
  <2>4. Len(chain[ref.height + 1]) \in Nat
    <3>1. ref.height + 1 \in 1..Len(chain)
      BY <2>1, <2>2
    <3>2. chain[ref.height + 1] \in Seq(Txid)
      BY <2>1, <3>1
    <3> QED
      BY <3>2
  <2>5. ref.index < Len(chain[ref.height + 1])
    BY <2>1, <2>2, <2>4
  <2> QED
    BY <2>2, <2>3, <2>5
<1> QED
  BY Invariance, <1>1, PTL

(* The second run prints what the first was asked for, or an error.           *)
THEOREM TxrefLeadsBack == Spec => []RoundTrip
<1>1. Inv => RoundTrip
  BY DEF Inv
<1> QED
  BY Invariance, <1>1, PTL

(* encodeTxid prints txrefs of outputs that exist only, with --txoIndex and   *)
(* without (src/src/t2tSupport.cpp:58).                                       *)
THEOREM TxrefNamesAnOutput == Spec => []NamesAnOutput
<1>1. Inv => NamesAnOutput
  BY DEF Inv, Encoded, NamesAnOutput
<1> QED
  BY Invariance, <1>1, PTL

=============================================================================
