------------------------------ MODULE MCWifiScan ------------------------------
(* Four networks for a list of three, so that one is pushed out and may come  *)
(* back; three strengths, so that readings are weaker, equal or stronger.    *)
EXTENDS WifiScan, TLC

MCStrengths == {-80, -70, -60}

\* Names are compared for equality only.
Symmetry == Permutations(Names)
=============================================================================
