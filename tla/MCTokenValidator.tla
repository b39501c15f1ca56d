--------------------------- MODULE MCTokenValidator ---------------------------
(* Two keys: a cached one can be withdrawn, kept or replaced, and the two     *)
(* tokens can be signed with different ones.                                  *)
EXTENDS TokenValidator
=============================================================================
