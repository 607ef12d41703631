------------------------------ MODULE MCMonitor ------------------------------
(***************************************************************************)
(* Instances of Monitor for TLC: two private keys with their public keys.  *)
(***************************************************************************)
EXTENDS Monitor

CONSTANTS k1, k2, p1, p2

Derived == [k \in Keys |-> IF k = k1 THEN p1 ELSE p2]
=============================================================================
