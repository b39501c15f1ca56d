---------------------------- MODULE MCEntraSignIn ----------------------------
(* Two device codes are enough for a sign-in that is overtaken by another.   *)
EXTENDS EntraSignIn
=============================================================================
