-------------------------- MODULE MCNetworkLatency --------------------------
(* Two database nodes in two datacenters and a ZooKeeper node in the second  *)
(* one: db1 and zk1 have a band for each of the others, db2 has one band that *)
(* the others share.                                                         *)
EXTENDS NetworkLatency, TLC

CONSTANTS db1, db2, zk1, east, west

MCDbNodes     == <<db1, db2>>
MCExtraNodes  == <<zk1>>
MCDcOf        == db1 :> east @@ db2 :> west @@ zk1 :> west
MCCrossDelays == {east, west} :> 30
=============================================================================
