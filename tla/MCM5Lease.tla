------------------------------ MODULE MCM5Lease ------------------------------
(* Instances of M5Lease for TLC.                                           *)
EXTENDS M5Lease

CONSTANTS k1, l1, l2, life
=============================================================================
