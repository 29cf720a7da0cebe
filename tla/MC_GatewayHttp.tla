---------------------------- MODULE MC_GatewayHttp ----------------------------
(* GatewayHttp for TLC: three requests in the mixes that compete. *)
EXTENDS GatewayHttp

MCReqs == 1..3
MCMixes == {<<"post", "post", "get">>, <<"post", "docs", "api">>,
            <<"get", "local", "post">>}
=============================================================================
