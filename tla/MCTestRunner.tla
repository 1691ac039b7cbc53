---------------------------- MODULE MCTestRunner ----------------------------
(* Instances of TestRunner for TLC. *)
EXTENDS TestRunner

CONSTANTS n1, n2, v1, v2, f1, f2
=============================================================================
