-------------------------- MODULE MCPlatformConfig --------------------------
(* Instances of PlatformConfig for TLC: a goal of one chunk and a goal of  *)
(* two, so that the output table moves and an input can be half written.   *)
EXTENDS PlatformConfig, TLC

CONSTANTS memory, appDirect

Lengths == (memory :> 1) @@ (appDirect :> 2)

Symmetric == Permutations(Procs)
=============================================================================
