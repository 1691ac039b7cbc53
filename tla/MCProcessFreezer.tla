-------------------------- MODULE MCProcessFreezer --------------------------
(* Instances of ProcessFreezer for TLC: two freezes of one node that name   *)
(* overlapping sets of processes.                                           *)
EXTENDS ProcessFreezer, TLC

CONSTANTS p1, p2, p3, f1, f2

Overlapping == (f1 :> {p1, p2} @@ f2 :> {p2, p3})
=============================================================================
