-------------------------- MODULE MCWifiProvisioning --------------------------
(* Two protected networks, so that halves of two can meet, one open network  *)
(* and one form that save refuses.                                           *)
EXTENDS WifiProvisioning
=============================================================================
