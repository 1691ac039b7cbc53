--------------------------- MODULE ProcessFreezer ---------------------------
(***************************************************************************)
(* The freeze actions of faultstorm/faults/actions.py and the daemon       *)
(* faultstorm/scripts/process_freezer.sh on one node.  The two share a     *)
(* flag file: an action creates it with the process name patterns it is    *)
(* about, its heal() removes it, and the daemon stops and continues        *)
(* matching processes, one at a time, as long as the file exists.          *)
(*                                                                         *)
(* A list of patterns is the set of processes it matches.  The daemon is   *)
(* restarted by its supervisor when it exits, and may be stopped by it     *)
(* (SIGTERM); bash runs the trap when the command in the foreground, the   *)
(* sleep of a hold say, has ended.  Processes of the database may die and  *)
(* be restarted under another pid at any time.                             *)
(***************************************************************************)
EXTENDS Naturals, FiniteSets

CONSTANTS
  Procs,        \* the processes of the node
  NoProc,
  Freezes,      \* freeze actions of a scenario, each executed and healed once
  PatternsOf,   \* the processes each of them matches
  MaxTerms,     \* bound on the stops of the daemon (nothing bounds them)
  MaxRestarts   \* bound on the restarts of processes (nothing bounds them)

ASSUME ConstantsAssumption ==
  /\ NoProc \notin Procs
  /\ PatternsOf \in [Freezes -> SUBSET Procs]
  /\ {MaxTerms, MaxRestarts} \subseteq Nat

VARIABLES
  (* the flag file, and the fault engine *)
  flag,      \* the flag file exists
  content,   \* the patterns in it, if it does
  freezes,   \* how far each freeze action is
  (* the daemon *)
  dpc,       \* where it is
  patterns,  \* the patterns it has read
  target,    \* target_pid
  term,      \* a SIGTERM is pending
  (* the node *)
  stopped,   \* the stopped processes
  (* bounds and history *)
  terms, restarts,
  orphaned,  \* processes that were stopped when the daemon was shut down
  lateStops  \* SIGSTOPs since the flag file was removed

engineVars == <<flag, content, freezes>>
daemonVars == <<dpc, patterns, target>>
history    == <<orphaned, lateStops>>
vars == <<engineVars, daemonVars, term, stopped, terms, restarts, history>>

TypeOK ==
  /\ flag \in BOOLEAN
  /\ content \subseteq Procs
  /\ freezes \in [Freezes -> {"new", "writing", "active", "healed"}]
  /\ dpc \in {"poll", "parse", "loop", "choose", "stop", "hold", "pause", "dead"}
  /\ patterns \subseteq Procs
  /\ target \in Procs \cup {NoProc}
  /\ term \in BOOLEAN
  /\ stopped \subseteq Procs
  /\ terms \in 0 .. MaxTerms
  /\ restarts \in 0 .. MaxRestarts
  /\ orphaned \subseteq Procs
  /\ lateStops \in Nat

Init ==
  /\ flag = FALSE
  /\ content = {}
  /\ freezes = [f \in Freezes |-> "new"]
  /\ dpc = "poll"
  /\ patterns = {}
  /\ target = NoProc
  /\ term = FALSE
  /\ stopped = {}
  /\ terms = 0
  /\ restarts = 0
  /\ orphaned = {}
  /\ lateStops = 0

-----------------------------------------------------------------------------
(* The freeze actions; the engine runs one call at a time.                 *)

EngineIdle == \A f \in Freezes : freezes[f] # "writing"

\* execute(): "cat > file" truncates the file before it writes.
Execute(f) ==
  /\ EngineIdle
  /\ freezes[f] = "new"
  /\ freezes' = [freezes EXCEPT ![f] = "writing"]
  /\ flag' = TRUE
  /\ content' = {}
  /\ lateStops' = 0
  /\ UNCHANGED <<daemonVars, term, stopped, terms, restarts, orphaned>>

\* The content arrives, or docker exec fails in between, which is swallowed.
Written(f) ==
  /\ freezes[f] = "writing"
  /\ freezes' = [freezes EXCEPT ![f] = "active"]
  /\ content' \in {content, PatternsOf[f]}
  /\ UNCHANGED <<flag, daemonVars, term, stopped, terms, restarts, history>>

\* heal(): rm -f, whoever has written the file; a failure is swallowed.
Heal(f) ==
  /\ EngineIdle
  /\ freezes[f] = "active"
  /\ freezes' = [freezes EXCEPT ![f] = "healed"]
  /\ flag' \in {flag, FALSE}
  /\ UNCHANGED <<content, daemonVars, term, stopped, terms, restarts, history>>

-----------------------------------------------------------------------------
(* The daemon: the main loop, parse_flag_file, freeze_loop, cleanup.       *)

\* A command of the script; a pending signal is handled first.
Runs(state) == dpc = state /\ ~term

Poll ==
  /\ Runs("poll")
  /\ flag
  /\ dpc' = "parse"
  /\ UNCHANGED <<engineVars, patterns, target, term, stopped, terms, restarts, history>>

\* Nothing to do: sleep "$POLL_INTERVAL".
Sleep ==
  /\ Runs("poll")
  /\ ~flag
  /\ UNCHANGED vars

\* Faulty variant of ParseFlagFile: a file without patterns means all processes.
ParseFlagFileDefault ==
  /\ Runs("parse")
  /\ IF flag
     THEN patterns' = (IF content = {} THEN Procs ELSE content) /\ dpc' = "loop"
     ELSE dpc' = "dead" /\ UNCHANGED patterns
  /\ UNCHANGED <<engineVars, target, term, stopped, terms, restarts, history>>

\* Under set -e the script exits if the file is gone by now; a file without
\* patterns is ignored.
ParseFlagFile ==
  /\ Runs("parse")
  /\ IF flag
     THEN patterns' = content /\ dpc' = IF content = {} THEN "poll" ELSE "loop"
     ELSE dpc' = "dead" /\ UNCHANGED patterns
  /\ UNCHANGED <<engineVars, target, term, stopped, terms, restarts, history>>

\* while [ -f "$FLAG_FILE" ]; the patterns are not read again.
TestFlag ==
  /\ Runs("loop")
  /\ dpc' = IF flag THEN "choose" ELSE "poll"
  /\ UNCHANGED <<engineVars, patterns, target, term, stopped, terms, restarts, history>>

Choose(p) ==
  /\ Runs("choose")
  /\ p \in patterns
  /\ target' = p
  /\ dpc' = "stop"
  /\ UNCHANGED <<engineVars, patterns, term, stopped, terms, restarts, history>>

\* Faulty variant of SigStop: it does not notice that the process is gone.
SigStopBlindly ==
  /\ Runs("stop")
  /\ dpc' = "hold"
  /\ stopped' = stopped \cup {target}
  /\ lateStops' = IF flag THEN lateStops ELSE lateStops + 1
  /\ UNCHANGED <<engineVars, patterns, target, term, terms, restarts, orphaned>>

\* kill -STOP; the process may be gone.
SigStop ==
  /\ Runs("stop")
  /\ IF target = NoProc
     THEN dpc' \in {"loop", "pause"} /\ UNCHANGED <<stopped, lateStops>>
     ELSE /\ dpc' = "hold"
          /\ stopped' = stopped \cup {target}
          /\ lateStops' = IF flag THEN lateStops ELSE lateStops + 1
  /\ UNCHANGED <<engineVars, patterns, target, term, terms, restarts, orphaned>>

\* Faulty variant of SigCont: nothing continues once the flag file is removed.
SigContIfFlagged ==
  /\ Runs("hold")
  /\ stopped' = IF flag THEN stopped \ {target} ELSE stopped
  /\ dpc' = "pause"
  /\ UNCHANGED <<engineVars, patterns, target, term, terms, restarts, history>>

\* The hold is over: kill -CONT, "even if flag was removed".
SigCont ==
  /\ Runs("hold")
  /\ stopped' = stopped \ {target}
  /\ orphaned' = orphaned \ {target}
  /\ dpc' = "pause"
  /\ UNCHANGED <<engineVars, patterns, target, term, terms, restarts, lateStops>>

\* Faulty variant of EndPause: the flag file is not tested again.
EndPauseUntested ==
  /\ Runs("pause")
  /\ dpc' = "choose"
  /\ UNCHANGED <<engineVars, patterns, target, term, stopped, terms, restarts, history>>

\* The pause between two holds.
EndPause ==
  /\ Runs("pause")
  /\ dpc' = "loop"
  /\ UNCHANGED <<engineVars, patterns, target, term, stopped, terms, restarts, history>>

\* The trap: processes matched by the flag file, if there is one, continue.
Cleanup ==
  /\ term
  /\ term' = FALSE
  /\ stopped' = IF flag THEN stopped \ content ELSE stopped
  /\ orphaned' = stopped'
  /\ dpc' = "dead"
  /\ UNCHANGED <<engineVars, patterns, target, terms, restarts, lateStops>>

\* The supervisor starts the daemon again.
Respawn ==
  /\ dpc = "dead"
  /\ dpc' = "poll"
  /\ patterns' = {}
  /\ target' = NoProc
  /\ UNCHANGED <<engineVars, term, stopped, terms, restarts, history>>

Daemon ==
  \/ Poll
  \/ ParseFlagFile
  \/ TestFlag
  \/ \E p \in Procs : Choose(p)
  \/ SigStop
  \/ SigCont
  \/ EndPause
  \/ Cleanup
  \/ Respawn

-----------------------------------------------------------------------------
(* The supervisor and the node.                                            *)

\* supervisorctl stop or restart, or the container going down.
Terminate ==
  /\ terms < MaxTerms
  /\ dpc # "dead"
  /\ ~term
  /\ terms' = terms + 1
  /\ term' = TRUE
  /\ UNCHANGED <<engineVars, daemonVars, stopped, restarts, history>>

\* A process dies and comes back under another pid, running.
Restart(p) ==
  /\ restarts < MaxRestarts
  /\ restarts' = restarts + 1
  /\ stopped' = stopped \ {p}
  /\ orphaned' = orphaned \ {p}
  /\ target' = IF target = p THEN NoProc ELSE target
  /\ UNCHANGED <<engineVars, dpc, patterns, term, terms, lateStops>>

Next ==
  \/ \E f \in Freezes : Execute(f) \/ Written(f) \/ Heal(f)
  \/ Daemon
  \/ Sleep
  \/ Terminate
  \/ \E p \in Procs : Restart(p)

\* The daemon is scheduled, its sleeps end, its supervisor restarts it; the
\* engine may stop anywhere.
Spec == Init /\ [][Next]_vars /\ WF_vars(Daemon)

-----------------------------------------------------------------------------
(* What freezing promises.                                                 *)

\* No process is stopped but the one the daemon holds, and what a shutdown left
\* behind: however heals, new freezes, dying processes and exits of the script
\* interleave with the loop, it loses track of none (freeze_loop sends SIGCONT
\* "even if flag was removed").
OnlyTheHeldIsStopped ==
  stopped \subseteq orphaned \cup (IF dpc = "hold" THEN {target} ELSE {})

\* Once the flag file is removed at most one more process is stopped
\* (freeze_loop tests the file before every choice).
AtMostOneLateStop == lateStops <= 1

\* Only processes named by a freeze that has begun are ever stopped.
OnlyNamedAreStopped ==
  stopped \subseteq UNION {PatternsOf[f] : f \in {g \in Freezes : freezes[g] # "new"}}

\* Once no flag file is left, every process the daemon has stopped continues
\* (heal removes the flag file, the loop always unfreezes), or a new freeze
\* begins.
HealThaws == ~flag ~> (stopped \subseteq orphaned \/ flag)

\* A daemon that was shut down leaves no process stopped (process_freezer.sh:
\* "Cleanup: make sure no processes are left stopped").
NoneLeftStopped == dpc = "dead" => stopped = {}
=============================================================================
