---------------------------- MODULE MCFollowTip ----------------------------
(* A small graph for FollowTip. A DID is created by "a" and updated by "b",   *)
(* whose outputs stand in the order bitcoind gives them for a change address  *)
(* that sorts after "data": OP_RETURN first. "b" is updated by "c" or by "d", *)
(* which spends the same output (a replacement, or the other side of a        *)
(* reorganisation) together with the second output of "a". "c" is updated by  *)
(* "e". "x" ends the DID at "d": it has nothing but an OP_RETURN output.      *)
EXTENDS FollowTip

MCTxid == {"a", "b", "c", "d", "e", "x"}
MCOutputNo == 0..2
MCOutputs == [a |-> {0, 1}, b |-> {0, 1, 2}, c |-> {0}, d |-> {0, 1}, e |-> {0, 1}, x |-> {0}]
MCOpReturn == [a |-> {}, b |-> {0}, c |-> {}, d |-> {1}, e |-> {0}, x |-> {0}]
MCInputs == [a |-> {}, b |-> {<<"a", 0>>}, c |-> {<<"b", 1>>},
             d |-> {<<"b", 1>>, <<"a", 1>>}, e |-> {<<"c", 0>>}, x |-> {<<"d", 0>>}]
=============================================================================
