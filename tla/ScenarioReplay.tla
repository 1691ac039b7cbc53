--------------------------- MODULE ScenarioReplay ---------------------------
(***************************************************************************)
(* The scenario log as the link between two test runs: the lines a random  *)
(* run leaves behind (_write_action, called before execute), and their     *)
(* replay by run_replay in a fresh engine on a healed cluster.             *)
(*                                                                         *)
(* A fault action has a class, an ordinal and a target, which stands for   *)
(* all its parameters (node or group, process, direction).  What a combo   *)
(* (the node) or config.action_params fixes is known before execute();     *)
(* whatever is open is drawn by execute(), after the line has been         *)
(* written.  Resume says what becomes of a line written with an open       *)
(* target when it is parsed and executed:                                  *)
(*   "redraw"  the target is None again and drawn anew                     *)
(*             (partition_random_node)                                     *)
(*   "noop"    "None" is parsed as a name and nothing happens on the       *)
(*             cluster (kill: no such process or node, partition_random_dc:*)
(*             no such DC, partition_random_subnet: nothing to block)      *)
(*   "shift"   the missing field shifts the others, and the line written   *)
(*             anew is another one; the node is called like a process:     *)
(*             exec_on_node fails, nothing happens (freeze_processes)      *)
(*   "spread"  as "shift", but the group called like a process is not      *)
(*             "extra", so that all database nodes are frozen, with a      *)
(*             duration for a pattern (freeze_processes_group)             *)
(*   "crash"   deserialize raises IndexError                               *)
(*             (partition_random_halves, partition_majorities_ring)        *)
(*                                                                         *)
(* On the cluster a partition is the iptables chains of its ordinal; a     *)
(* freeze is the one flag file of each node it covers, which the next      *)
(* freeze of the node overwrites and the heal of any freeze of the node    *)
(* removes.  Waits, execute() and heal() failing, and the limit on         *)
(* destructive actions are the business of FaultEngine.                    *)
(***************************************************************************)
EXTENDS Naturals, Sequences, SequencesExt

CONSTANTS
  Classes,      \* fault classes
  Healable,     \* those with healable = True
  Freezes,      \* those derived from BaseFreezeAction
  Resume,       \* see above
  Targets,      \* the targets an action can have
  Drawn,        \* Drawn[c]: those execute() can draw for class c
  Fixable,      \* classes whose whole target can be known before execute()
  Nodes,        \* the nodes freezes can cover
  NodesOf,      \* NodesOf[t]: the nodes a freeze with target t covers
  Unresolved,   \* the target of an action that has not drawn one yet
  Garbled,      \* the target of a line whose fields have shifted
  MaxActions    \* bound on the actions of a recorded run (the code has none)

ASSUME ConstantsAssumption ==
  /\ Healable \subseteq Classes
  /\ Freezes \subseteq Healable
  /\ Resume \in [Classes -> {"redraw", "noop", "shift", "spread", "crash"}]
  /\ \A c \in Freezes : Resume[c] # "redraw"
  /\ Drawn \in [Classes -> SUBSET Targets]
  /\ Fixable \subseteq Classes
  /\ NodesOf \in [Targets \cup {Garbled} -> SUBSET Nodes]
  /\ Unresolved \notin Targets
  /\ Garbled \notin Targets \cup {Unresolved}
  /\ MaxActions \in Nat

Line(heal, c, n, t) == [heal |-> heal, class |-> c, ordinal |-> n, target |-> t]
Lines  == [heal : BOOLEAN, class : Classes, ordinal : 1 .. MaxActions,
           target : Targets \cup {Unresolved, Garbled}]
Deed(c, n, t) == [class |-> c, ordinal |-> n, target |-> t]
Deeds  == [class : Classes, ordinal : 1 .. MaxActions, target : Targets]
Replays == [class : Classes, ordinal : 1 .. MaxActions, target : Targets \cup {Garbled}]

VARIABLES
  (* the recorded run *)
  script,      \* its scenario log
  recorded,    \* what its actions did, in order
  open,        \* its active faults: those a later "-" line may heal
  healing,     \* it is in the heal phase of a cycle
  (* the replay *)
  rpc,         \* the fault thread
  mpc,         \* the main thread
  stopEvent,   \* _stop_event
  pos,         \* the commands done
  newLog,      \* the scenario log the replay writes
  replayed,    \* what its actions did, in order
  activeFaults,\* _active_faults of the replaying engine
  (* the cluster during the replay *)
  chains,      \* ordinals of the partitions that are in effect
  flag         \* flag[m]: the ordinal of the freeze that wrote the flag file of
               \* node m, 0 if there is no file

recVars == <<script, recorded, open, healing>>
cluster == <<chains, flag>>
vars == <<recVars, rpc, mpc, stopEvent, pos, newLog, replayed, activeFaults, cluster>>

TypeOK ==
  /\ script \in Seq(Lines)
  /\ recorded \in Seq(Deeds)
  /\ open \subseteq Deeds
  /\ healing \in BOOLEAN
  /\ rpc \in {"new", "started", "run", "over"}
  /\ mpc \in {"record", "write", "join", "over"}
  /\ stopEvent \in BOOLEAN
  /\ pos \in 0 .. Len(script)
  /\ newLog \in Seq(Lines)
  /\ replayed \in Seq(Replays)
  /\ activeFaults \subseteq Deeds
  /\ chains \subseteq 1 .. MaxActions
  /\ flag \in [Nodes -> 0 .. MaxActions]

Init ==
  /\ script = <<>>
  /\ recorded = <<>>
  /\ open = {}
  /\ healing = FALSE
  /\ rpc = "new"
  /\ mpc = "record"
  /\ stopEvent = FALSE
  /\ pos = 0
  /\ newLog = <<>>
  /\ replayed = <<>>
  /\ activeFaults = {}
  /\ chains = {}
  /\ flag = [m \in Nodes |-> 0]

-----------------------------------------------------------------------------
(* The recorded run.  Its cycles inject, then heal everything; it may be   *)
(* stopped while faults are active, and then heals them with the log       *)
(* already closed.                                                         *)

replayVars == <<rpc, stopEvent, pos, newLog, replayed, activeFaults, cluster>>

RecordInject(c, t, known) ==
  /\ mpc = "record"
  /\ ~healing
  /\ Len(recorded) < MaxActions
  /\ t \in Drawn[c]
  /\ known => c \in Fixable
  /\ LET n == Len(recorded) + 1
     IN /\ script' = Append(script, Line(FALSE, c, n, IF known THEN t ELSE Unresolved))
        /\ recorded' = Append(recorded, Deed(c, n, t))
        /\ open' = open \cup {Deed(c, n, t)}
  /\ UNCHANGED <<healing, mpc, replayVars>>

\* One action of the heal phase; its line is written after heal(), with the
\* target execute() has drawn.  Only healable actions have such a line.
RecordHeal(d) ==
  /\ mpc = "record"
  /\ d \in open
  /\ script' = IF d.class \in Healable
               THEN Append(script, Line(TRUE, d.class, d.ordinal, d.target))
               ELSE script
  /\ open' = open \ {d}
  /\ healing' = (open' # {})
  /\ UNCHANGED <<recorded, mpc, replayVars>>

\* The run ends: stopped in the active phase, or between two cycles.  The
\* replay begins: the runner starts run_replay in a thread.
StartReplay ==
  /\ mpc = "record"
  /\ ~healing
  /\ mpc' = "write"
  /\ rpc' = "started"
  /\ UNCHANGED <<recVars, stopEvent, pos, newLog, replayed, activeFaults, cluster>>

-----------------------------------------------------------------------------
(* The fault thread: run_replay.                                           *)

Crashes(line) == line.target = Unresolved /\ Resume[line.class] = "crash"

\* _parse_log deserializes every line before anything is executed.
Parse ==
  /\ rpc = "started"
  /\ stopEvent' = FALSE
  /\ rpc' = IF \E i \in DOMAIN script : Crashes(script[i]) THEN "over" ELSE "run"
  /\ UNCHANGED <<recVars, mpc, pos, newLog, replayed, activeFaults, cluster>>

\* Faulty variant of TargetsOf: every replayed action draws its target anew.
TargetsOfAny(line) == Drawn[line.class]

\* The targets that executing a parsed line may have, if it has any effect.
TargetsOf(line) ==
  IF line.target # Unresolved THEN {line.target}
  ELSE CASE Resume[line.class] = "redraw" -> Drawn[line.class]
         [] Resume[line.class] = "spread" -> {Garbled}
         [] OTHER                         -> {}

\* The line that serialize() makes of a parsed line.
Rewritten(line) ==
  IF line.target = Unresolved /\ Resume[line.class] \in {"shift", "spread"}
  THEN [line EXCEPT !.target = Garbled]
  ELSE line

\* The nodes whose flag file an action writes or removes (_resolve_targets).
Covered(c, t) == IF c \in Freezes THEN NodesOf[t] ELSE {}

\* Faulty variant of Execute: a flag file that is there is left as it is.
ExecuteOnce(c, n, t) ==
  /\ chains' = IF c \in Healable \ Freezes THEN chains \cup {n} ELSE chains
  /\ flag' = [m \in Nodes |-> IF m \in Covered(c, t) /\ flag[m] = 0 THEN n ELSE flag[m]]

\* What execute() does to the cluster.
Execute(c, n, t) ==
  /\ chains' = IF c \in Healable \ Freezes THEN chains \cup {n} ELSE chains
  /\ flag' = [m \in Nodes |-> IF m \in Covered(c, t) THEN n ELSE flag[m]]

\* Faulty variant of Heal: only the freeze's own flag file is removed.
HealOwn(c, n, t) ==
  /\ chains' = IF c \in Freezes THEN chains ELSE chains \ {n}
  /\ flag' = [m \in Nodes |-> IF m \in Covered(c, t) /\ flag[m] = n THEN 0 ELSE flag[m]]

\* What heal() does to the cluster: a partition is removed by its ordinal,
\* wherever it is, a flag file by its name, whoever wrote it.
Heal(c, n, t) ==
  /\ chains' = IF c \in Freezes THEN chains ELSE chains \ {n}
  /\ flag' = [m \in Nodes |-> IF m \in Covered(c, t) THEN 0 ELSE flag[m]]

\* _log_and_execute; nothing is added to _active_faults.
ReplayInject ==
  /\ rpc = "run"
  /\ ~stopEvent
  /\ pos < Len(script)
  /\ LET line == script[pos + 1]
     IN /\ ~line.heal
        /\ newLog' = Append(newLog, Rewritten(line))
        /\ \/ /\ TargetsOf(line) = {}
              /\ UNCHANGED <<replayed, cluster>>
           \/ \E t \in TargetsOf(line) :
                /\ replayed' = Append(replayed, Deed(line.class, line.ordinal, t))
                /\ Execute(line.class, line.ordinal, t)
  /\ pos' = pos + 1
  /\ UNCHANGED <<recVars, rpc, mpc, stopEvent, activeFaults>>

\* Faulty variants of ReplayHeal: the line is not written; the line that follows
\* is skipped as the wait of the heal.
ReplayHealUnlogged ==
  /\ rpc = "run"
  /\ ~stopEvent
  /\ pos < Len(script)
  /\ LET line == script[pos + 1]
     IN line.heal /\ Heal(line.class, line.ordinal, line.target)
  /\ pos' = pos + 1
  /\ UNCHANGED <<newLog, recVars, rpc, mpc, stopEvent, replayed, activeFaults>>

ReplayHealSkips ==
  /\ rpc = "run"
  /\ ~stopEvent
  /\ pos < Len(script)
  /\ LET line == script[pos + 1]
     IN /\ line.heal
        /\ Heal(line.class, line.ordinal, line.target)
        /\ newLog' = Append(newLog, line)
  /\ pos' = pos + 2
  /\ UNCHANGED <<recVars, rpc, mpc, stopEvent, replayed, activeFaults>>

\* heal() of the action a "-" line was parsed into.
ReplayHeal ==
  /\ rpc = "run"
  /\ ~stopEvent
  /\ pos < Len(script)
  /\ LET line == script[pos + 1]
     IN /\ line.heal
        /\ Heal(line.class, line.ordinal, line.target)
        /\ newLog' = Append(newLog, line)
  /\ pos' = pos + 1
  /\ UNCHANGED <<recVars, rpc, mpc, stopEvent, replayed, activeFaults>>

\* Faulty variant of EndReplay: a stop skips the commands but not the loop.
EndReplayOnlyAtEnd ==
  /\ rpc = "run"
  /\ pos = Len(script)
  /\ rpc' = "over"
  /\ UNCHANGED <<recVars, mpc, stopEvent, pos, newLog, replayed, activeFaults, cluster>>

\* The loop ends with the last command, or before the next one after a stop.
EndReplay ==
  /\ rpc = "run"
  /\ stopEvent \/ pos = Len(script)
  /\ rpc' = "over"
  /\ UNCHANGED <<recVars, mpc, stopEvent, pos, newLog, replayed, activeFaults, cluster>>

RunReplay == Parse \/ ReplayInject \/ ReplayHeal \/ EndReplay

-----------------------------------------------------------------------------
(* The main thread: engine.stop(), join, heal_all().                       *)

Stop ==
  /\ mpc = "write"
  /\ stopEvent' = TRUE
  /\ mpc' = "join"
  /\ UNCHANGED <<recVars, rpc, pos, newLog, replayed, activeFaults, cluster>>

HealAll ==
  /\ mpc = "join"
  /\ rpc = "over"
  /\ chains' = chains \ {d.ordinal : d \in activeFaults}
  /\ flag' = [m \in Nodes |->
       IF \E d \in activeFaults : m \in Covered(d.class, d.target) THEN 0 ELSE flag[m]]
  /\ activeFaults' = {}
  /\ mpc' = "over"
  /\ UNCHANGED <<recVars, rpc, stopEvent, pos, newLog, replayed>>

Terminated == mpc = "over" /\ UNCHANGED vars

Record == \/ \E c \in Classes, t \in Targets, known \in BOOLEAN : RecordInject(c, t, known)
          \/ \E d \in open : RecordHeal(d)
          \/ StartReplay

Next == Record \/ RunReplay \/ Stop \/ HealAll \/ Terminated

Spec == Init /\ [][Next]_vars /\ WF_vars(RunReplay) /\ WF_vars(Stop) /\ WF_vars(HealAll)

-----------------------------------------------------------------------------
(* What a replay promises.                                                 *)

\* Until it meets a line with an open target, a replay does what the recorded
\* run did, in the same order (run_replay, _parse_log).
ReplayRepeats ==
  (\A i \in 1 .. pos : script[i].target # Unresolved) => IsPrefix(replayed, recorded)

\* The log a replay writes is the script, as far as it got, save for lines
\* with an open target; so the replay of a replayable log can be replayed in
\* its turn (serialize and deserialize are inverse).
ReplayRewritesScript ==
  /\ Len(newLog) = pos
  /\ \A i \in 1 .. pos : script[i].target # Unresolved => newLog[i] = script[i]

\* Line i is about node m: executing or healing it writes or removes the flag
\* file of m.
About(i, m) == \E t \in TargetsOf(script[i]) : m \in Covered(script[i].class, t)

\* At every point of a replay a partition is in effect if its "+" line has been
\* replayed, and had an effect, and its "-" line has not; and a node carries
\* the flag file of freeze n if, of the lines replayed that are about the node,
\* the last one is the "+" line of n: the first "-" line ends all the freezes
\* of a node (run_replay, heal of the partitions and of the freezes).
EffectsMatchScript ==
  mpc # "over" =>
    /\ chains = {n \in 1 .. MaxActions :
         /\ \E i \in 1 .. pos : /\ script[i].ordinal = n
                                /\ script[i].class \in Healable \ Freezes
                                /\ TargetsOf(script[i]) # {}
         /\ ~\E i \in 1 .. pos : script[i].ordinal = n /\ script[i].heal}
    /\ \A m \in Nodes, n \in 1 .. MaxActions :
         flag[m] = n <=> \E i \in 1 .. pos : /\ script[i].ordinal = n /\ ~script[i].heal
                                            /\ About(i, m)
                                            /\ \A j \in i + 1 .. pos : ~About(j, m)

\* A complete replay of a log without open targets leaves to heal_all what the
\* recorded run still had open when it ended, the last freeze of each node in
\* its flag file: nothing, if it ended between two cycles.  Overlapping freezes
\* of a node, which the recorded run healed in any order, leave no flag file
\* behind, and no heal of an earlier cycle takes away a later freeze's
\* (run_replay, _heal_all_active).
ReplayLeavesOpenFaults ==
  (mpc \notin {"record", "over"} /\ pos = Len(script) /\ \A i \in 1 .. pos : script[i].target # Unresolved) =>
    /\ chains = {d.ordinal : d \in {d \in open : d.class \in Healable \ Freezes}}
    /\ \A m \in Nodes :
         LET freezes == {d.ordinal : d \in {d \in open : m \in Covered(d.class, d.target)}}
         IN IF freezes = {} THEN flag[m] = 0
            ELSE flag[m] \in freezes /\ \A n \in freezes : n <= flag[m]

\* A replay comes to its end once it has begun.
ReplayEnds == (mpc = "write") ~> (mpc = "over")

\* After heal_all no fault is left on the cluster (heal_all: "Heal all
\* remaining active faults (cleanup)").
NothingLeftBehind == mpc = "over" => chains = {} /\ \A m \in Nodes : flag[m] = 0

\* A replay that nobody stops repeats the recorded actions (FaultEngine:
\* "deterministic replay from a scenario log").
DeterministicReplay ==
  (mpc = "write" /\ rpc = "over") => replayed = recorded
=============================================================================
