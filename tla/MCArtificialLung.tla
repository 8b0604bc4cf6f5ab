--------------------------- MODULE MCArtificialLung ---------------------------
(* Instances of ArtificialLung for TLC.                                    *)
EXTENDS ArtificialLung

CONSTANTS u1, u2, p1, e1, e2
=============================================================================
