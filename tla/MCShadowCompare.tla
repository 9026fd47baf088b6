-------------------------- MODULE MCShadowCompare --------------------------
(* An instance of ShadowCompare for TLC: blocks of one or two transactions *)
(* that the shadow fails, logs otherwise, drops or duplicates.             *)
EXTENDS ShadowCompare

MCBlocks  == {<<"ok", "ok">>}
MCShadows == {<<"ok">>, <<"ok", "failed">>, <<"ok with other log", "ok">>,
              <<"ok", "ok", "ok">>}
=============================================================================
