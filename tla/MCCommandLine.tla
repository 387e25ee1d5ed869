--------------------------- MODULE MCCommandLine ---------------------------
(* Command lines of two pieces, each an option, a flag, something wrong or    *)
(* nothing, with the positional arguments between them; flags alone and       *)
(* grouped after one dash; bitcoin.conf at the default place and at another,  *)
(* with and without a newline at its end, where a digit that memory holds may *)
(* make the port another number.                                              *)
EXTENDS CommandLine

W(w) == <<"word", w>>
Long(n) == <<"--", n>>
Dash(letters) == <<"-", letters>>

Pieces == {
    <<>>,
    <<Long("rpcuser"), W("u1"), Long("rpcpassword"), W("p1")>>,
    <<<<"--", "rpcuser", "u2">>>>,
    <<Long("rpcport"), W("18332")>>, <<<<"--", "rpcport", "8332">>>>,
    <<Long("rpcport"), W("0")>>, <<Long("rpcport"), W("x")>>, <<Long("rpcport")>>,
    <<Long("config"), W("other")>>, <<Long("config"), W("nowhere")>>,
    <<Long("txoIndex"), W("2")>>, <<Long("txoIndex"), Dash(<<"5">>)>>,
    <<Dash(<<"n">>)>>, <<Dash(<<"f", "n">>)>>, <<Long("dryrun")>>,
    <<<<"--", "rpcconnect", "host">>, Dash(<<"n">>)>>,
    <<Dash(<<"h">>)>>, <<Long("exitAfterFollowTip")>>,
    <<Long("nonsense"), W("w")>> }

Positionals == { <<>>, <<W("q")>>, <<W("q"), W("addr"), W("key"), W("0.001")>>,
                 <<W("q"), W("addr"), W("key"), W("ref")>> }

MCCommandLines ==
    {a \o pos \o b : a \in Pieces, b \in Pieces, pos \in Positionals}

File(lines, terminated) == {[lines |-> lines, terminated |-> terminated]}
Credentials == << <<"pair", "rpcuser", "u">>, <<"pair", "rpcpassword", "p">> >>
Testnet == Credentials \o << <<"pair", "rpcport", "18332">> >>
Odd == << <<"just", "n">>, <<"pair", "rpcport", "8332">>, <<"pair", "txoIndex", "1">> >> \o Credentials

MCDisks ==
    {(W("default") :> d) @@ (W("other") :> o) @@ (W("nowhere") :> {}) :
        <<d, o>> \in { <<{}, {}>>,
                       <<File(Credentials, TRUE), File(Testnet, TRUE)>>,
                       <<File(Testnet, FALSE), File(Odd, TRUE)>>,
                       <<File(Odd, TRUE), {}>> }}

MCText == STRING
MCGarbage == {"garbage", "183320"}
MCDefaultConfig == W("default")
MCStoi == (W("0") :> 0) @@ (W("1") :> 1) @@ (W("2") :> 2) @@ (Dash(<<"5">>) :> -5)
          @@ (W("8332") :> 8332) @@ (W("18332") :> 18332) @@ (W("183320") :> 183320)
          @@ (W("0.001") :> 0)
MCStod == {W("0"), W("1"), W("2"), W("0.001"), W("8332"), W("18332")}
=============================================================================
