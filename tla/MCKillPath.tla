----------------------------- MODULE MCKillPath -----------------------------
(* KillPath on small instances.                                            *)
EXTENDS KillPath, TLC

CONSTANTS c1, c2

Alike == Permutations(Pids) \cup Permutations(Workers) \cup Permutations(Cmds)
=============================================================================
