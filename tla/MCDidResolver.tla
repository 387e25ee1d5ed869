--------------------------- MODULE MCDidResolver ---------------------------
(* A small world for DidResolver: "a" creates a DID in its output 0 (its      *)
(* output 1 is OP_RETURN); "b" or the double spend "c" updates it, "d"        *)
(* updates "b". Reorganisations move "b" to another height and index, replace *)
(* it by "c", and take blocks away. The DIDs name an output that is or may be *)
(* updated, the OP_RETURN output, an output that does not exist, the genesis  *)
(* transaction, a block that may not be there, and something that is no BTCR DID.     *)
EXTENDS DidResolver

MCTxid == {"g", "a", "b", "c", "d"}
MCOutputNo == 0..2
MCOutputs == [g |-> {0}, a |-> {0, 1}, b |-> {0, 1}, c |-> {0}, d |-> {0}]
MCOpReturn == [g |-> {}, a |-> {1}, b |-> {0}, c |-> {}, d |-> {}]
MCInputs == [g |-> {}, a |-> {}, b |-> {<<"a", 0>>}, c |-> {<<"a", 0>>}, d |-> {<<"b", 1>>}]

MCChains == { << <<"g">> >>,
              << <<"g">>, <<"a">> >>,
              << <<"g">>, <<"a">>, <<"b">> >>,
              << <<"g">>, <<"a">>, <<"c">> >>,
              << <<"g">>, <<"a", "b">>, <<"d">> >> }

Did(net, height, index, vout) ==
    [form |-> "btcr", net |-> net, height |-> height, index |-> index, vout |-> vout]

MCDids == { Did("main", 1, 0, 0), Did("main", 1, 0, 1), Did("main", 1, 1, 1),
            Did("main", 2, 0, 0), Did("main", 0, 0, 0), Did("main", 2, 0, 2),
            [Did("main", 1, 0, 0) EXCEPT !.form = "other"] }
=============================================================================
