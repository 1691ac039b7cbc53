---------------------------- MODULE MCFaultEngine ----------------------------
(* Instances of FaultEngine for TLC. *)
EXTENDS FaultEngine
=============================================================================
