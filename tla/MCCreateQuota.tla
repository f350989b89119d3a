--------------------------- MODULE MCCreateQuota ---------------------------
(* CreateQuota on small instances: the calls are alike.                    *)
EXTENDS CreateQuota, TLC

CallSymmetry == Permutations(Calls)
=============================================================================
