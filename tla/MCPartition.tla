----------------------------- MODULE MCPartition -----------------------------
(* Instances of Partition for TLC: two database nodes and an extra node, or *)
(* only the three of them, in two datacenters.                              *)
EXTENDS Partition

CONSTANTS db1, db2, zk

TwoDb == <<db1, db2>>
OneZk == <<zk>>
TwoDcs == [east |-> <<db1, zk>>, west |-> <<db2>>]
=============================================================================
