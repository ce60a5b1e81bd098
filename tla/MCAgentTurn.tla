---------------------------- MODULE MCAgentTurn ----------------------------
(***************************************************************************)
(* Values of AgentTurn's constants for TLC.                                *)
(***************************************************************************)
EXTENDS AgentTurn

\* One file touched by every edit; QA generates one test file or none.
OneFile == <<"f">>
OneTestOrNone == {<<>>, <<"t">>}
=============================================================================
