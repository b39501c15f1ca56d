------------------------- MODULE MCAdminSessionStore -------------------------
(* A clock of eight values turns several times while one session lives;        *)
(* the absolute limit is longer than the inactivity limit, as on the device. *)
EXTENDS AdminSessionStore
=============================================================================
