---------------------------- MODULE MCAgentRestart ----------------------------
(***************************************************************************)
(* Two projects and two restarts, in as many processes as it takes.        *)
(***************************************************************************)
EXTENDS AgentRestart, TLC

CONSTANTS p1, p2
TwoProjects == {p1, p2}
Interchangeable == Permutations(TwoProjects)
=============================================================================
