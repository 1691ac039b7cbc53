----------------------------- MODULE TestRunner -----------------------------
(***************************************************************************)
(* faultstorm/runner.py: the main thread of a test, which composes the     *)
(* load generator, the fault engine and the network latency, with the      *)
(* exceptions that may end each part of it.                                *)
(*                                                                         *)
(* The parts appear by what their own modules show that they promise: the  *)
(* writers by SetTest, the fault thread and heal_all() by FaultLedger, the *)
(* latency by the set of nodes that have their rules.  The engine runs in  *)
(* random mode.  An exception is one of the code (setup fails on every     *)
(* node, get_node_ip raises) or a KeyboardInterrupt of the main thread.    *)
(***************************************************************************)
EXTENDS FiniteSets

CONSTANTS
  Nodes,    \* the nodes that get latency rules
  Values,   \* bound on the values written (the code has none)
  Faults    \* bound on the fault actions (the code has none)

ASSUME ConstantsAssumption ==
  IsFiniteSet(Nodes) /\ IsFiniteSet(Values) /\ IsFiniteSet(Faults)

VARIABLES
  (* the main thread *)
  mpc,          \* where it is
  raised,       \* an exception is on its way
  applied,      \* latency_mgr.apply() has returned
  reading,      \* the read phase has begun
  (* the load generator *)
  logOpen,      \* the operations log is open
  writers,      \* the writer threads
  status,       \* what the log says of each value
  (* the fault engine *)
  fpc,          \* the fault thread
  engineStop,   \* its stop event
  outstanding,  \* faults injected and not settled
  settled,      \* faults healed, or given up
  closed,       \* heal_all() has returned
  (* the network *)
  ruled         \* the nodes that have latency rules

mainVars   == <<mpc, raised, applied, reading>>
writeVars  == <<logOpen, writers, status>>
engineVars == <<fpc, engineStop, outstanding, settled, closed>>
vars == <<mainVars, writeVars, engineVars, ruled>>

Test   == INSTANCE SetTest
Ledger == INSTANCE FaultLedger

InTry == {"setup", "write", "join_writers", "stop", "join", "heal", "read", "check"}

TypeOK ==
  /\ mpc \in {"apply", "remove", "over"} \cup InTry
  /\ raised \in BOOLEAN /\ applied \in BOOLEAN /\ closed \in BOOLEAN
  /\ logOpen \in BOOLEAN /\ engineStop \in BOOLEAN
  /\ writers \in {"none", "running", "joined"}
  /\ Test!TypeOK
  /\ fpc \in {"none", "running", "over"}
  /\ outstanding \subseteq Faults
  /\ settled \subseteq Faults
  /\ ruled \subseteq Nodes

Init ==
  /\ mpc = "apply" /\ raised = FALSE /\ applied = FALSE
  /\ logOpen = FALSE /\ writers = "none"
  /\ fpc = "none" /\ engineStop = FALSE
  /\ Test!Init
  /\ Ledger!Init
  /\ ruled = {}

-----------------------------------------------------------------------------
(* run(): the latency around _run_phases.                                  *)

ApplyNode ==
  /\ mpc = "apply"
  /\ \E n \in Nodes \ ruled : ruled' = ruled \cup {n}
  /\ UNCHANGED <<mainVars, writeVars, engineVars>>

\* The phases begin: the operations log is opened, the engine constructed.
EndApply ==
  /\ mpc = "apply" /\ ruled = Nodes
  /\ mpc' = "setup" /\ applied' = TRUE /\ logOpen' = TRUE
  /\ UNCHANGED <<raised, reading, writers, status, engineVars, ruled>>

\* apply() stands before the try: nothing removes the rules there are.
ApplyRaises ==
  /\ mpc = "apply"
  /\ mpc' = "over" /\ raised' = TRUE
  /\ UNCHANGED <<applied, reading, writeVars, engineVars, ruled>>

RemoveNode ==
  /\ mpc = "remove"
  /\ \E n \in ruled : ruled' = ruled \ {n}
  /\ UNCHANGED <<mainVars, writeVars, engineVars>>

EndRun ==
  /\ mpc = "remove" /\ ruled = {}
  /\ mpc' = "over"
  /\ UNCHANGED <<raised, applied, reading, writeVars, engineVars, ruled>>

-----------------------------------------------------------------------------
(* _run_phases                                                             *)

\* Setup has succeeded on some node, and both threads are started.
Start ==
  /\ mpc = "setup"
  /\ fpc' = "running" /\ writers' = "running"
  /\ mpc' = "write"
  /\ UNCHANGED <<raised, applied, reading, logOpen, status, engineStop, outstanding,
                 settled, closed, ruled>>

\* The duration of the write phase is over.
EndWrites ==
  /\ mpc = "write" /\ mpc' = "join_writers"
  /\ UNCHANGED <<raised, applied, reading, writeVars, engineVars, ruled>>

\* Faulty variant of JoinWriters: writers that wait for an answer are left.
JoinWritersAtOnce ==
  /\ mpc = "join_writers" /\ mpc' = "stop" /\ writers' = "joined"
  /\ UNCHANGED <<raised, applied, reading, logOpen, status, engineVars, ruled>>

\* run_write_phase returns when every writer has logged its last outcome.
JoinWriters ==
  /\ mpc = "join_writers"
  /\ \A v \in Values : status[v] # "invoked"
  /\ mpc' = "stop" /\ writers' = "joined"
  /\ UNCHANGED <<raised, applied, reading, logOpen, status, engineVars, ruled>>

StopEngine ==
  /\ mpc = "stop"
  /\ engineStop' = TRUE
  /\ mpc' = "join"
  /\ UNCHANGED <<raised, applied, reading, writeVars, fpc, outstanding, settled, closed,
                 ruled>>

\* Faulty variant of Join: the fault thread is not waited for.
JoinAtOnce ==
  /\ mpc = "join" /\ mpc' = "heal"
  /\ UNCHANGED <<raised, applied, reading, writeVars, engineVars, ruled>>

Join ==
  /\ mpc = "join" /\ fpc = "over"
  /\ mpc' = "heal"
  /\ UNCHANGED <<raised, applied, reading, writeVars, engineVars, ruled>>

\* heal_all() goes through what is still active.
HealOne ==
  /\ mpc = "heal"
  /\ \E a \in outstanding : /\ outstanding' = outstanding \ {a}
                            /\ settled' = settled \cup {a}
  /\ UNCHANGED <<mainVars, writeVars, fpc, engineStop, closed, ruled>>

\* heal_all() returns, and the read phase begins.
StartReads ==
  /\ mpc = "heal" /\ outstanding = {}
  /\ closed' = TRUE /\ reading' = TRUE
  /\ mpc' = "read"
  /\ UNCHANGED <<raised, applied, writeVars, fpc, engineStop, outstanding, settled, ruled>>

\* The log is closed, then checked.
EndReads ==
  /\ mpc = "read"
  /\ logOpen' = FALSE
  /\ mpc' = "check"
  /\ UNCHANGED <<raised, applied, reading, writers, status, engineVars, ruled>>

Check ==
  /\ mpc = "check" /\ mpc' = "remove"
  /\ UNCHANGED <<raised, applied, reading, writeVars, engineVars, ruled>>

\* Faulty variant of Raise: the clean-up is not in a finally clause.
RaiseUncaught ==
  /\ mpc \in InTry
  /\ raised' = TRUE /\ logOpen' = FALSE
  /\ mpc' = "over"
  /\ UNCHANGED <<applied, reading, writers, status, engineVars, ruled>>

\* An exception skips the rest of _run_phases, stop(), join() and heal_all()
\* included, closes the log, and leads to remove().
Raise ==
  /\ mpc \in InTry
  /\ raised' = TRUE /\ logOpen' = FALSE
  /\ mpc' = "remove"
  /\ UNCHANGED <<applied, reading, writers, status, engineVars, ruled>>

Main ==
  \/ ApplyNode \/ EndApply \/ Start \/ EndWrites \/ JoinWriters \/ StopEngine \/ Join
  \/ HealOne \/ StartReads \/ EndReads \/ Check \/ RemoveNode \/ EndRun

-----------------------------------------------------------------------------
(* The writer threads, which need the log, and the fault thread.           *)

\* A writer may have passed the test of its stop event before the event is set.
Invoke(v) ==
  /\ writers = "running" /\ logOpen
  /\ status[v] = "unused"
  /\ status' = [status EXCEPT ![v] = "invoked"]
  /\ UNCHANGED <<mainVars, logOpen, writers, engineVars, ruled>>

\* Faulty variant of Resolve: a call that times out is logged as a timeout.
ResolveRaw(v) ==
  /\ writers = "running" /\ logOpen
  /\ status[v] = "invoked"
  /\ \E o \in {"ok", "fail", "info", "timeout"} : status' = [status EXCEPT ![v] = o]
  /\ UNCHANGED <<mainVars, logOpen, writers, engineVars, ruled>>

Resolve(v) ==
  /\ writers = "running" /\ logOpen
  /\ status[v] = "invoked"
  /\ \E o \in Test!Outcomes : status' = [status EXCEPT ![v] = o]
  /\ UNCHANGED <<mainVars, logOpen, writers, engineVars, ruled>>

\* The thread may go on injecting for a while after stop().
Inject(a) ==
  /\ fpc = "running"
  /\ a \notin outstanding \cup settled
  /\ outstanding' = outstanding \cup {a}
  /\ UNCHANGED <<mainVars, writeVars, fpc, engineStop, settled, closed, ruled>>

Settle(a) ==
  /\ fpc = "running"
  /\ a \in outstanding
  /\ outstanding' = outstanding \ {a}
  /\ settled' = settled \cup {a}
  /\ UNCHANGED <<mainVars, writeVars, fpc, engineStop, closed, ruled>>

\* Faulty variant of EndThread: only stop() ends the thread.
EndThreadIfStopped ==
  /\ fpc = "running" /\ engineStop
  /\ fpc' = "over"
  /\ UNCHANGED <<mainVars, writeVars, engineStop, outstanding, settled, closed, ruled>>

\* The thread ends because it is stopped, because its timer fires, or because
\* something in it raises.
EndThread ==
  /\ fpc = "running" /\ fpc' = "over"
  /\ UNCHANGED <<mainVars, writeVars, engineStop, outstanding, settled, closed, ruled>>

Over == mpc = "over" /\ fpc # "running"

Terminated == Over /\ UNCHANGED vars

Next ==
  \/ Main \/ ApplyRaises \/ Raise
  \/ \E v \in Values : Invoke(v) \/ Resolve(v)
  \/ \E a \in Faults : Inject(a) \/ Settle(a)
  \/ EndThread
  \/ Terminated

\* The main thread runs, every add() has an outcome within its timeout, and the
\* fault thread ends: FaultEngine shows that it does, at the latest with its
\* timer.
Fairness ==
  /\ WF_vars(Main)
  /\ \A v \in Values : WF_vars(Resolve(v))
  /\ WF_vars(EndThread)

Spec == Init /\ [][Next]_vars /\ Fairness

-----------------------------------------------------------------------------
(* Properties                                                              *)

\* With the threads and the exceptions of a run around them, the load generator
\* and the engine keep to their accounts: no value is written and no fault
\* injected once the reads have begun, and they begin when every write has its
\* outcome and no fault is outstanding (_run_phases).
KeepsContracts == Test!Spec /\ Ledger!Spec

\* While the table is read the fault thread is over, what it injected is healed
\* or given up, no write is awaited, and the latency is still in place
\* (TestRunner.run removes it after _run_phases).
ReadsUndisturbed ==
  mpc = "read" => /\ fpc = "over" /\ outstanding = {}
                  /\ \A v \in Values : status[v] # "invoked"
                  /\ ruled = Nodes

\* Once apply() has returned, the latency is in place as long as no exception
\* has come up and the writers or the faults are at work, and it is gone when
\* run() is over, whether it returns or raises.
LatencyLifetime ==
  applied => /\ ~raised /\ "running" \in {writers, fpc} => ruled = Nodes
             /\ mpc = "over" => ruled = {}

\* The run ends, and so does the fault thread that an exception in the write
\* phase leaves running without anybody who would stop it.
Termination == <>[]Over
=============================================================================
