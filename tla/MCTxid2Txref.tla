---------------------------- MODULE MCTxid2Txref ----------------------------
(* Chains of up to 9 blocks, enough for a block with 6 confirmations and a    *)
(* reorganisation of 5 blocks after it. Forks move "a" to another index, to   *)
(* another height, or out of the chain.                                       *)
EXTENDS Txid2Txref

MCTxid == {"g", "a", "b"}
MCOutputNo == 0..2
MCOutputs == [g |-> {0}, a |-> {0, 1}, b |-> {0}]
MCOpReturn == [g |-> {}, a |-> {1}, b |-> {}]
MCInputs == [g |-> {}, a |-> {}, b |-> {}]

Empty(n) == [i \in 1..n |-> <<>>]
Starts == { << >>,
            << <<"a">> >>,
            << <<"b", "a">> >>,
            << <<>>, <<"a", "b">> >>,
            << <<>>, <<"b">>, <<"a">> >> }
MCChains == {<< <<"g">> >> \o s \o Empty(n) : s \in Starts, n \in 0..6}

MCQueries == {<<"a", -1>>, <<"a", 1>>, <<"a", 2>>, <<"b", 0>>, <<"g", 0>>}
=============================================================================
