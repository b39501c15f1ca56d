---------------------------- MODULE MCReleasePage ----------------------------
(* One release in one piece, and one task: installs that overlap a finished  *)
(* one are in MCOtaUpdate; here one that finds no room for its task fails.   *)
EXTENDS ReleasePage

CONSTANT v1

MCSemver == [i \in Images |-> IF i = v1 THEN <<0, 10, 0>> ELSE <<0, 9, 0>>]
=============================================================================
