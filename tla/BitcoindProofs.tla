--------------------------- MODULE BitcoindProofs ---------------------------
(* Facts about the active chain and about the blocks and places in it, which  *)
(* the proofs about every program that asks bitcoind need.                    *)
EXTENDS Bitcoind, TLAPS

(* Block by block, a prefix is what it is a prefix of.                        *)
LEMMA PrefixEntries ==
    ASSUME NEW s \in Seq(Seq(Txid)), NEW t \in Seq(Seq(Txid))
    PROVE  IsPrefix(s, t) <=> Len(s) <= Len(t) /\ \A i \in 1..Len(s) : s[i] = t[i]
<1>1. ASSUME Len(s) <= Len(t)
      PROVE  /\ SubSeq(s, 1, Len(s)) \in Seq(Seq(Txid)) /\ Len(SubSeq(s, 1, Len(s))) = Len(s)
             /\ SubSeq(t, 1, Len(s)) \in Seq(Seq(Txid)) /\ Len(SubSeq(t, 1, Len(s))) = Len(s)
             /\ \A i \in 1..Len(s) : SubSeq(s, 1, Len(s))[i] = s[i]
             /\ \A i \in 1..Len(s) : SubSeq(t, 1, Len(s))[i] = t[i]
  BY <1>1
<1>2. ASSUME Len(s) <= Len(t)
      PROVE  SubSeq(s, 1, Len(s)) = SubSeq(t, 1, Len(s)) <=> \A i \in 1..Len(s) : s[i] = t[i]
  BY <1>1, <1>2
<1> QED
  BY <1>2 DEF IsPrefix

LEMMA PrefixTransitive ==
    ASSUME NEW s \in Seq(Seq(Txid)), NEW t \in Seq(Seq(Txid)), NEW u \in Seq(Seq(Txid)),
           IsPrefix(s, t), IsPrefix(t, u)
    PROVE  IsPrefix(s, u)
BY PrefixEntries

LEMMA ChainFacts ==
    ASSUME NEW c \in Chains
    PROVE  /\ c \in Seq(Seq(Txid))
           /\ Len(c) \in Nat \ {0}
           /\ TxsOf(c) \in Ledger /\ TxsOf(c) \subseteq Txid
           /\ Genesis \in TxsOf(c) /\ Genesis \in Txid
<1>1. c \in Seq(Seq(Txid)) /\ TxsOf(c) \in Ledger /\ IsPrefix(<< <<Genesis>> >>, c)
  BY ChainsAssumption DEF ChainsAssumption
<1>2. Len(c) \in Nat \ {0} /\ c[1] = <<Genesis>>
  <2>1. 1 <= Len(c) /\ SubSeq(<< <<Genesis>> >>, 1, 1) = SubSeq(c, 1, 1)
    BY <1>1 DEF IsPrefix
  <2>2. SubSeq(<< <<Genesis>> >>, 1, 1)[1] = <<Genesis>> /\ SubSeq(c, 1, 1)[1] = c[1]
    BY <1>1, <2>1
  <2> QED
    BY <1>1, <2>1, <2>2
<1>3. TxsOf(c) \subseteq Txid
  BY <1>1 DEF Ledger
<1>4. Genesis \in TxsOf(c)
  BY <1>1, <1>2 DEF TxsOf, ToSet
<1> QED
  BY <1>1, <1>2, <1>3, <1>4

(* A transaction is at one place of a chain.                                  *)
LEMMA OnePlace ==
    ASSUME NEW c \in Chains, NEW h \in 1..Len(c), NEW k \in 1..Len(c),
           NEW i \in 1..Len(c[h]), NEW j \in 1..Len(c[k]), c[h][i] = c[k][j]
    PROVE  h = k /\ i = j
<1>1. c \in Seq(Seq(Txid))
  BY ChainFacts
<1>2. h \in DOMAIN c /\ k \in DOMAIN c /\ i \in DOMAIN c[h] /\ j \in DOMAIN c[k]
  BY <1>1
<1> QED
  BY <1>2, ChainsAssumption DEF ChainsAssumption

LEMMA InBlock ==
    ASSUME NEW c \in Chains, NEW h \in 1..Len(c), NEW i \in 1..Len(c[h])
    PROVE  c[h][i] \in TxsOf(c) /\ c[h][i] \in Txid
<1>1. c \in Seq(Seq(Txid)) /\ h \in DOMAIN c
  BY ChainFacts
<1>2. i \in DOMAIN c[h]
  BY <1>1
<1> QED
  BY <1>1, <1>2, ChainFacts DEF TxsOf, ToSet

(* Looking for a transaction in its block finds where it is.                  *)
LEMMA FoundInBlock ==
    ASSUME NEW c \in Chains, NEW h \in 1..Len(c), NEW i \in 1..Len(c[h])
    PROVE  (CHOOSE j \in DOMAIN c[h] : c[h][j] = c[h][i]) = i
<1>1. c[h] \in Seq(Txid)
  BY ChainFacts
<1>2. DOMAIN c[h] = 1..Len(c[h])
  BY <1>1
<1>3. ASSUME NEW j \in DOMAIN c[h], c[h][j] = c[h][i]
      PROVE  j = i
  BY <1>2, <1>3, OnePlace
<1> QED
  BY <1>2, <1>3

(* The hash of a block, which is the chain up to it.                          *)
LEMMA HashFacts ==
    ASSUME NEW c \in Chains, NEW h \in 1..Len(c)
    PROVE  /\ SubSeq(c, 1, h) \in Seq(Seq(Txid))
           /\ Len(SubSeq(c, 1, h)) = h
           /\ \A i \in 1..h : SubSeq(c, 1, h)[i] = c[i]
           /\ BlockTx(SubSeq(c, 1, h)) = c[h]
           /\ BlockHeight(SubSeq(c, 1, h)) = h - 1
           /\ IsPrefix(SubSeq(c, 1, h), c)
<1> DEFINE hash == SubSeq(c, 1, h)
<1>1. c \in Seq(Seq(Txid)) /\ Len(c) \in Nat
  BY ChainFacts
<1>2. hash \in Seq(Seq(Txid)) /\ Len(hash) = h /\ \A i \in 1..h : hash[i] = c[i]
  BY <1>1
<1>3. IsPrefix(hash, c)
  <2> HIDE DEF hash
  <2>1. Len(hash) <= Len(c) /\ \A i \in 1..Len(hash) : hash[i] = c[i]
    BY <1>1, <1>2
  <2> QED
    BY <1>1, <1>2, <2>1, PrefixEntries
<1>4. BlockTx(hash) = c[h] /\ BlockHeight(hash) = h - 1
  BY <1>1, <1>2 DEF BlockTx, Last, BlockHeight
<1> QED
  BY <1>2, <1>3, <1>4

(* Where getblockhash and getblock find the block of a height.                *)
LEMMA BlockOfHeight ==
    ASSUME chain \in Chains, NEW height \in Nat, HasBlock(height)
    PROVE  /\ height + 1 \in 1..Len(chain)
           /\ BlockTx(BlockHash(height)) = chain[height + 1]
           /\ BlockHeight(BlockHash(height)) = height
<1>1. Len(chain) \in Nat
  BY ChainFacts
<1>2. height + 1 \in 1..Len(chain) /\ (height + 1) - 1 = height
  BY <1>1 DEF HasBlock
<1> QED
  BY <1>2, HashFacts DEF BlockHash

(* The block that getrawtransaction names is that of the transaction's place. *)
LEMMA BlockOfTransaction ==
    ASSUME chain \in Chains, NEW t \in Confirmed
    PROVE  \E h \in 1..Len(chain) : \E i \in 1..Len(chain[h]) :
              /\ chain[h][i] = t
              /\ HashOfBlockWith(t) = BlockHash(h - 1)
              /\ HasBlock(h - 1)
<1> DEFINE Hashes == {BlockHash(h) : h \in 0..(Len(chain) - 1)}
<1>1. chain \in Seq(Seq(Txid)) /\ Len(chain) \in Nat
  BY ChainFacts
<1>2. PICK h \in 1..Len(chain) : t \in ToSet(chain[h])
  <2>1. DOMAIN chain = 1..Len(chain)
    BY <1>1
  <2>2. \E h \in DOMAIN chain : t \in ToSet(chain[h])
    BY DEF Confirmed, TxsOf
  <2> QED
    BY <2>1, <2>2
<1>3. BlockHash(h - 1) \in Hashes /\ t \in ToSet(BlockTx(BlockHash(h - 1)))
  <2>1. h - 1 \in 0..(Len(chain) - 1) /\ h - 1 \in Nat /\ HasBlock(h - 1) /\ (h - 1) + 1 = h
    BY <1>1, <1>2 DEF HasBlock
  <2>2. BlockTx(BlockHash(h - 1)) = chain[h]
    BY <2>1, BlockOfHeight
  <2> QED
    BY <1>2, <2>1, <2>2
<1>4. HashOfBlockWith(t) \in Hashes /\ t \in ToSet(BlockTx(HashOfBlockWith(t)))
  BY <1>3 DEF HashOfBlockWith
<1>5. PICK k \in 0..(Len(chain) - 1) : HashOfBlockWith(t) = BlockHash(k)
  BY <1>4
<1>6. k \in Nat /\ HasBlock(k) /\ k + 1 \in 1..Len(chain) /\ (k + 1) - 1 = k
  BY <1>1, <1>5 DEF HasBlock
<1>7. t \in ToSet(chain[k + 1])
  BY <1>4, <1>5, <1>6, BlockOfHeight
<1>8. PICK i \in 1..Len(chain[k + 1]) : chain[k + 1][i] = t
  <2>1. chain[k + 1] \in Seq(Txid)
    BY <1>1, <1>6
  <2>2. DOMAIN chain[k + 1] = 1..Len(chain[k + 1])
    BY <2>1
  <2> QED
    BY <1>7, <2>2 DEF ToSet
<1> QED
  BY <1>5, <1>6, <1>8
=============================================================================
