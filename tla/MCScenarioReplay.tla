-------------------------- MODULE MCScenarioReplay --------------------------
(* Instances of ScenarioReplay for TLC.  The classes stand for              *)
(* partition_random_node, partition_random_halves, kill, freeze_processes   *)
(* and freeze_processes_group; of the nodes n3 is an extra node.            *)
EXTENDS ScenarioReplay

CONSTANTS node, halves, kill, freeze, group, n1, n2, n3, db, extra

\* What the lines of these classes are parsed into.
ResumeOf == [c \in Classes |-> CASE c = node   -> "redraw"
                                 [] c = halves -> "crash"
                                 [] c = freeze -> "shift"
                                 [] c = group  -> "spread"
                                 [] OTHER      -> "noop"]

\* What can be drawn: two database nodes, a group, and one target for each of the
\* other classes (the halves, a process of n1).
DrawnBy == [c \in Classes |-> CASE c = node  -> {n1, n2}
                                [] c = group -> {db, extra}
                                [] OTHER     -> {n1}]

\* A garbled group is taken for the database nodes (_target_nodes).
NodesOfTarget == [t \in Targets \cup {Garbled} |-> CASE t \in {db, Garbled} -> {n1, n2}
                                                    [] t = extra          -> {n3}
                                                    [] OTHER              -> {t}]
=============================================================================
