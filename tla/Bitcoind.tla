------------------------------ MODULE Bitcoind ------------------------------
(* The bitcoind the programs talk to, as far as the calls of BitcoinRPCFacade *)
(* (src/src/bitcoinRPCFacade.cpp) read it. It is external: between any two    *)
(* calls blocks are found, transactions enter and leave the mempool, and the  *)
(* active chain is reorganised. It runs with txindex=1, as README.md asks.    *)
(*                                                                            *)
(* A block is the sequence of its txids. A block hash commits to all history, *)
(* so the hash of a block is the chain up to and including it.                *)
EXTENDS TxGraph, SequencesExt

CONSTANTS
    Chains,     \* the chains that can be active
    Genesis,    \* the transaction of block 0
    MaxMempool  \* bound: transactions in the mempool at once

VARIABLES
    chain,      \* the active chain
    mempool,    \* unconfirmed transactions
    network     \* the network bitcoind is configured for

nodeVars == <<chain, mempool, network>>

TxsOf(c) == UNION {ToSet(c[h]) : h \in DOMAIN c}

(* A chain starts with the genesis block and holds each transaction once.     *)
ASSUME ChainsAssumption ==
    \A c \in Chains :
        /\ c \in Seq(Seq(Txid))
        /\ IsPrefix(<< <<Genesis>> >>, c)
        /\ TxsOf(c) \in Ledger
        /\ \A h, k \in DOMAIN c : \A i \in DOMAIN c[h], j \in DOMAIN c[k] :
              c[h][i] = c[k][j] => h = k /\ i = j

(* What can be unconfirmed when c is the active chain: transactions with      *)
(* those they spend, and none that spends what is spent.                      *)
SmallSets[n \in 0..MaxMempool] ==
    IF n = 0 THEN {{}} ELSE {m \cup {t} : m \in SmallSets[n - 1], t \in Txid} \cup {{}}
Unconfirmed == SmallSets[MaxMempool]
Mempools(c) == {m \in Unconfirmed : m \cap TxsOf(c) = {} /\ TxsOf(c) \cup m \in Ledger}

NodeInit ==
    /\ chain \in Chains
    /\ mempool \in Mempools(chain)
    /\ network \in {"main", "test", "regtest"}

NodeMoves ==
    /\ chain' \in Chains
    /\ mempool' \in Mempools(chain')
    /\ UNCHANGED network

Reorganised == ~IsPrefix(chain, chain')

-----------------------------------------------------------------------------
(* What the calls return of the state they find.                              *)
Confirmed == TxsOf(chain)
View == Confirmed \cup mempool

HasBlock(height) == height < Len(chain)
BlockHash(height) == SubSeq(chain, 1, height + 1)
BlockTx(hash) == Last(hash)
BlockHeight(hash) == Len(hash) - 1

(* bitcoind cannot retrieve the genesis transaction; on mainnet the facade    *)
(* fakes the reply.                                                           *)
GetRawTransaction(t) == t \in View /\ (t = Genesis => network = "main")

HashOfBlockWith(t) == CHOOSE hash \in {BlockHash(h) : h \in 0..(Len(chain) - 1)} :
                          t \in ToSet(BlockTx(hash))

(* gettxout knows the unspent outputs, those of the mempool included, and     *)
(* counts what the mempool spends as spent. OP_RETURN outputs and the genesis *)
(* transaction are not among them.                                            *)
GetTxOut(o) ==
    /\ o[1] \in View \ {Genesis}
    /\ o[2] \in PayOutputs(o[1])
    /\ ~SpentIn(View, o)
=============================================================================
