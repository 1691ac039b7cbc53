---------------------------- MODULE LoadGenerator ----------------------------
(***************************************************************************)
(* faultstorm/load_generator.py: writer threads that add unique values to  *)
(* a database through an application-side timeout, the main thread that    *)
(* starts, stops, joins and drains them and then reads the table back, and *)
(* the operations log all of them write and checker.py judges.             *)
(*                                                                         *)
(* The database and its client (db_client.py is an abstract class) are     *)
(* external.  A call runs in a worker thread of its own: it answers before *)
(* the timeout, or later, or never, and the write it carries may take      *)
(* effect at any moment from the call on, also after the call has failed.  *)
(*                                                                         *)
(* DbFaults selects what the database may do wrong:                        *)
(*   "lose"        forget a value it holds                                 *)
(*   "phantom"     show a value nobody ever wrote                          *)
(*   "false_fail"  report a definite failure of a write it has applied     *)
(***************************************************************************)
EXTENDS Checker

CONSTANTS
  Nodes,            \* database nodes
  WritersPerNode,   \* config.writers_per_node
  MaxValue,         \* bound on the values written (the code has none)
  MaxReads,         \* bound on the reads of the read phase (the code has none)
  DbFaults,         \* see above
  SlowOps           \* a database call may outlast the join timeout of the drain

ASSUME ConstantsAssumption ==
  /\ WritersPerNode \in Nat
  /\ MaxValue \in Nat
  /\ MaxReads \in Nat
  /\ DbFaults \subseteq {"lose", "phantom", "false_fail"}
  /\ SlowOps \in BOOLEAN

Values  == 1 .. MaxValue
Phantom == 0                           \* a value that is never issued
Table   == Values \cup {Phantom}       \* what the set table can hold
Writers == Nodes \X (1 .. WritersPerNode)

\* A call of _run_with_timeout: the add of a value or the n-th read.
Add(v)  == <<"add", v>>
Read(n) == <<"read", n>>
Ops     == {Add(v) : v \in Values} \cup {Read(n) : n \in 1 .. MaxReads}

VARIABLES
  (* shared by the threads of the load generator *)
  counter,     \* _counter
  nodeIndex,   \* _node_index: the reads invoked so far
  stopEvent,   \* _stop_event
  opsLog,      \* the operations log
  pending,     \* _pending_threads
  (* the main thread *)
  mpc,         \* where it is
  joining,     \* the threads drain_pending has yet to join
  timeUp,      \* the duration of the read phase is over
  (* the writer threads *)
  wpc,         \* where each of them is
  wval,        \* the value it works on
  outcome,     \* what _run_with_timeout gave the writer of each value
  (* the worker threads of _run_with_timeout *)
  thread,      \* not started, running, or what result_holder holds
  snapshot,    \* the values a read returned
  (* the database *)
  db,          \* the set table
  inflight,    \* writes handed to the database and not yet settled there
  dropped,     \* history: values the database has lost
  earlyFaults  \* history: what it lost or made up before the read phase

progVars == <<counter, nodeIndex, stopEvent, opsLog, pending>>
mainVars == <<mpc, joining, timeUp>>
writerVars == <<wpc, wval, outcome>>
dbVars == <<db, inflight, dropped, earlyFaults>>
vars == <<progVars, mainVars, writerVars, thread, snapshot, dbVars>>

ReadPhase == {"read", "read_call", "read_wait"}
Over      == {"closed", "aborted"}
MainState == {"setup", "spawn", "write", "join", "drain", "drain_join", "clear"}
               \cup ReadPhase \cup Over
WriterState == {"new", "loop", "invoke", "call", "wait", "record", "done"}

TypeOK ==
  /\ counter \in 0 .. MaxValue
  /\ nodeIndex \in 0 .. MaxReads
  /\ stopEvent \in BOOLEAN
  /\ opsLog \in Seq(Event(Table))
  /\ pending \in Seq(Ops)
  /\ mpc \in MainState
  /\ joining \in Seq(Ops)
  /\ timeUp \in BOOLEAN
  /\ wpc \in [Writers -> WriterState]
  /\ wval \in [Writers -> Table]
  /\ outcome \in [Values -> {"none", "ok", "definite", "error", "timeout"}]
  /\ thread \in [Ops -> {"none", "running", "ok", "definite", "error"}]
  /\ snapshot \in [1 .. MaxReads -> SUBSET Table]
  /\ db \subseteq Table
  /\ inflight \subseteq Values
  /\ dropped \subseteq Values
  /\ earlyFaults \subseteq Table

Init ==
  /\ counter = 0
  /\ nodeIndex = 0
  /\ stopEvent = FALSE
  /\ opsLog = <<>>
  /\ pending = <<>>
  /\ mpc = "setup"
  /\ joining = <<>>
  /\ timeUp = FALSE
  /\ wpc = [w \in Writers |-> "new"]
  /\ wval = [w \in Writers |-> Phantom]
  /\ outcome = [v \in Values |-> "none"]
  /\ thread = [op \in Ops |-> "none"]
  /\ snapshot = [n \in 1 .. MaxReads |-> {}]
  /\ db = {}
  /\ inflight = {}
  /\ dropped = {}
  /\ earlyFaults = {}

Log(event) == opsLog' = Append(opsLog, event)

\* done_event of the worker thread is set.
Finished(op) == thread[op] \notin {"none", "running"}

-----------------------------------------------------------------------------
(* Writer threads: _writer_loop, add, and their half of _run_with_timeout. *)

\* Faulty variant of TakeValue: without the lock an increment may be lost.
TakeValueUnlocked(w) ==
  /\ wpc[w] = "loop"
  /\ ~stopEvent
  /\ counter < MaxValue
  /\ counter' \in {counter, counter + 1}
  /\ wval' = [wval EXCEPT ![w] = counter + 1]
  /\ wpc' = [wpc EXCEPT ![w] = "invoke"]
  /\ UNCHANGED <<nodeIndex, stopEvent, opsLog, pending, mainVars, outcome,
                 thread, snapshot, dbVars>>

\* _get_next_value, under _counter_lock.
TakeValue(w) ==
  /\ wpc[w] = "loop"
  /\ ~stopEvent
  /\ counter < MaxValue
  /\ counter' = counter + 1
  /\ wval' = [wval EXCEPT ![w] = counter + 1]
  /\ wpc' = [wpc EXCEPT ![w] = "invoke"]
  /\ UNCHANGED <<nodeIndex, stopEvent, opsLog, pending, mainVars, outcome,
                 thread, snapshot, dbVars>>

Invoke(w) ==
  /\ wpc[w] = "invoke"
  /\ Log(AddEvent("invoke", wval[w]))
  /\ wpc' = [wpc EXCEPT ![w] = "call"]
  /\ UNCHANGED <<counter, nodeIndex, stopEvent, pending, mainVars, wval, outcome,
                 thread, snapshot, dbVars>>

\* The worker thread is started and hands the write to the database.
Call(w) ==
  /\ wpc[w] = "call"
  /\ thread' = [thread EXCEPT ![Add(wval[w])] = "running"]
  /\ inflight' = inflight \cup {wval[w]}
  /\ wpc' = [wpc EXCEPT ![w] = "wait"]
  /\ UNCHANGED <<progVars, mainVars, wval, outcome, snapshot, db, dropped,
                 earlyFaults>>

\* done_event.wait returns in time.
Answer(w) ==
  /\ wpc[w] = "wait"
  /\ Finished(Add(wval[w]))
  /\ outcome' = [outcome EXCEPT ![wval[w]] = thread[Add(wval[w])]]
  /\ wpc' = [wpc EXCEPT ![w] = "record"]
  /\ UNCHANGED <<progVars, mainVars, wval, thread, snapshot, dbVars>>

\* Faulty variant of TimeOut: done_event.wait without a timeout.
TimeOutNever(w) == FALSE

\* done_event.wait times out: the thread is abandoned, not killed.
TimeOut(w) ==
  /\ wpc[w] = "wait"
  /\ ~Finished(Add(wval[w]))
  /\ outcome' = [outcome EXCEPT ![wval[w]] = "timeout"]
  /\ pending' = Append(pending, Add(wval[w]))
  /\ wpc' = [wpc EXCEPT ![w] = "record"]
  /\ UNCHANGED <<counter, nodeIndex, stopEvent, opsLog, mainVars, wval, thread,
                 snapshot, dbVars>>

\* Faulty variant of LoggedType: the outcome is logged as it is.
LoggedTypeRaw(o) == o

\* The type of the event add() logs: only an exception of the client that
\* is_definite_failure accepts is a "fail".
LoggedType(o) ==
  CASE o = "ok"       -> "ok"
    [] o = "definite" -> "fail"
    [] OTHER          -> "info"

\* Faulty variant of Record: a writer that has been stopped logs nothing more.
RecordUnlessStopped(w) ==
  /\ wpc[w] = "record"
  /\ IF stopEvent
     THEN UNCHANGED opsLog
     ELSE Log(AddEvent(LoggedType(outcome[wval[w]]), wval[w]))
  /\ wpc' = [wpc EXCEPT ![w] = "loop"]
  /\ UNCHANGED <<counter, nodeIndex, stopEvent, pending, mainVars, wval, outcome,
                 thread, snapshot, dbVars>>

\* The wait(add_interval) that follows leaves the loop exactly when the loop
\* condition would, so it is folded into the next visit of "loop".
Record(w) ==
  /\ wpc[w] = "record"
  /\ Log(AddEvent(LoggedType(outcome[wval[w]]), wval[w]))
  /\ wpc' = [wpc EXCEPT ![w] = "loop"]
  /\ UNCHANGED <<counter, nodeIndex, stopEvent, pending, mainVars, wval, outcome,
                 thread, snapshot, dbVars>>

LeaveLoop(w) ==
  /\ wpc[w] = "loop"
  /\ stopEvent
  /\ wpc' = [wpc EXCEPT ![w] = "done"]
  /\ UNCHANGED <<progVars, mainVars, wval, outcome, thread, snapshot, dbVars>>

Writer(w) ==
  \/ TakeValue(w)
  \/ Invoke(w)
  \/ Call(w)
  \/ Answer(w)
  \/ TimeOut(w)
  \/ Record(w)
  \/ LeaveLoop(w)

-----------------------------------------------------------------------------
(* The main thread: setup, run_write_phase, drain_pending, run_read_phase. *)

\* setup tries the nodes until one succeeds, and raises if none does.
Setup ==
  /\ mpc = "setup"
  /\ \E up \in SUBSET Nodes : mpc' = IF up # {} THEN "spawn" ELSE "aborted"
  /\ UNCHANGED <<progVars, joining, timeUp, writerVars, thread, snapshot, dbVars>>

\* The threads are started one by one; a thread that has been started may be
\* scheduled arbitrarily late, so starting them together loses nothing.
SpawnWriters ==
  /\ mpc = "spawn"
  /\ wpc' = [w \in Writers |-> "loop"]
  /\ mpc' = "write"
  /\ UNCHANGED <<progVars, joining, timeUp, wval, outcome, thread, snapshot, dbVars>>

\* _stop_event.wait(duration) returns, because time is up or stop() was called.
EndWrites ==
  /\ mpc = "write"
  /\ stopEvent' = TRUE
  /\ mpc' = "join"
  /\ UNCHANGED <<counter, nodeIndex, opsLog, pending, joining, timeUp, writerVars,
                 thread, snapshot, dbVars>>

\* Faulty variant of JoinWriters: it does not wait for the writers.
JoinWritersAtOnce ==
  /\ mpc = "join"
  /\ mpc' = "drain"
  /\ UNCHANGED <<progVars, joining, timeUp, writerVars, thread, snapshot, dbVars>>

\* The main thread waits for every writer to leave its loop.
JoinWriters ==
  /\ mpc = "join"
  /\ \A w \in Writers : wpc[w] = "done"
  /\ mpc' = "drain"
  /\ UNCHANGED <<progVars, joining, timeUp, writerVars, thread, snapshot, dbVars>>

\* drain_pending takes the list, under _pending_lock.
DrainTake ==
  /\ mpc = "drain"
  /\ joining' = pending
  /\ pending' = <<>>
  /\ mpc' = "drain_join"
  /\ UNCHANGED <<counter, nodeIndex, stopEvent, opsLog, timeUp, writerVars, thread,
                 snapshot, dbVars>>

\* t.join(timeout) returns because the thread has ended, or, if calls may
\* take that long, because the join itself timed out.
DrainJoin ==
  /\ mpc = "drain_join"
  /\ joining # <<>>
  /\ Finished(Head(joining)) \/ SlowOps
  /\ joining' = Tail(joining)
  /\ UNCHANGED <<progVars, mpc, timeUp, writerVars, thread, snapshot, dbVars>>

DrainEnd ==
  /\ mpc = "drain_join"
  /\ joining = <<>>
  /\ mpc' = "clear"
  /\ UNCHANGED <<progVars, joining, timeUp, writerVars, thread, snapshot, dbVars>>

\* The last statement of run_write_phase; a stop() that came earlier is gone.
ClearStop ==
  /\ mpc = "clear"
  /\ stopEvent' = FALSE
  /\ mpc' = "read"
  /\ UNCHANGED <<counter, nodeIndex, opsLog, pending, joining, timeUp, writerVars,
                 thread, snapshot, dbVars>>

\* read(): _get_next_node and the INVOKE event.
ReadInvoke ==
  /\ mpc = "read"
  /\ ~timeUp
  /\ ~stopEvent
  /\ nodeIndex < MaxReads
  /\ nodeIndex' = nodeIndex + 1
  /\ Log(ReadEvent("invoke", {}))
  /\ mpc' = "read_call"
  /\ UNCHANGED <<counter, stopEvent, pending, joining, timeUp, writerVars, thread,
                 snapshot, dbVars>>

ReadCall ==
  /\ mpc = "read_call"
  /\ thread' = [thread EXCEPT ![Read(nodeIndex)] = "running"]
  /\ mpc' = "read_wait"
  /\ UNCHANGED <<progVars, joining, timeUp, writerVars, snapshot, dbVars>>

\* No other thread of the load generator runs now, so the answer and the
\* event that records it are one step.
ReadAnswer ==
  /\ mpc = "read_wait"
  /\ Finished(Read(nodeIndex))
  /\ Log(IF thread[Read(nodeIndex)] = "ok"
         THEN ReadEvent("ok", snapshot[nodeIndex])
         ELSE ReadEvent("fail", {}))
  /\ mpc' = "read"
  /\ UNCHANGED <<counter, nodeIndex, stopEvent, pending, joining, timeUp, writerVars,
                 thread, snapshot, dbVars>>

ReadTimeOut ==
  /\ mpc = "read_wait"
  /\ ~Finished(Read(nodeIndex))
  /\ pending' = Append(pending, Read(nodeIndex))
  /\ Log(ReadEvent("fail", {}))
  /\ mpc' = "read"
  /\ UNCHANGED <<counter, nodeIndex, stopEvent, joining, timeUp, writerVars, thread,
                 snapshot, dbVars>>

\* The read phase ends, the runner calls stop() and closes the log.
EndReads ==
  /\ mpc = "read"
  /\ timeUp \/ stopEvent
  /\ stopEvent' = TRUE
  /\ mpc' = "closed"
  /\ UNCHANGED <<counter, nodeIndex, opsLog, pending, joining, timeUp, writerVars,
                 thread, snapshot, dbVars>>

Main ==
  \/ Setup
  \/ SpawnWriters
  \/ EndWrites
  \/ JoinWriters
  \/ DrainTake
  \/ DrainJoin
  \/ DrainEnd
  \/ ClearStop
  \/ ReadInvoke
  \/ ReadCall
  \/ ReadAnswer
  \/ ReadTimeOut
  \/ EndReads

-----------------------------------------------------------------------------
(* The clock and the signal handler.                                       *)

Elapse ==
  /\ mpc \in ReadPhase
  /\ ~timeUp
  /\ timeUp' = TRUE
  /\ UNCHANGED <<progVars, mpc, joining, writerVars, thread, snapshot, dbVars>>

\* stop(), which "is safe to call from a signal handler".
Stop ==
  /\ mpc \notin Over
  /\ ~stopEvent
  /\ stopEvent' = TRUE
  /\ UNCHANGED <<counter, nodeIndex, opsLog, pending, mainVars, writerVars, thread,
                 snapshot, dbVars>>

-----------------------------------------------------------------------------
(* The database and the client calls that run in worker threads.           *)

Applied == (db \cap Values) \cup dropped

\* A write takes effect, perhaps long after its caller gave up.
DbApply(v) ==
  /\ v \in inflight
  /\ db' = db \cup {v}
  /\ inflight' = inflight \ {v}
  /\ UNCHANGED <<progVars, mainVars, writerVars, thread, snapshot, dropped, earlyFaults>>

\* A write is rejected, or lost on its way.
DbReject(v) ==
  /\ v \in inflight
  /\ inflight' = inflight \ {v}
  /\ UNCHANGED <<progVars, mainVars, writerVars, thread, snapshot, db, dropped,
                 earlyFaults>>

Finish(op, result) ==
  /\ thread[op] = "running"
  /\ thread' = [thread EXCEPT ![op] = result]

\* client.add returns: "the value is durably written".
AddReturns(v) ==
  /\ v \in Applied
  /\ Finish(Add(v), "ok")
  /\ UNCHANGED <<progVars, mainVars, writerVars, snapshot, dbVars>>

\* client.add raises what is_definite_failure accepts: the write did not and
\* will not happen, unless the client is wrong about it.
AddFails(v) ==
  /\ v \notin inflight
  /\ v \notin Applied \/ "false_fail" \in DbFaults
  /\ Finish(Add(v), "definite")
  /\ UNCHANGED <<progVars, mainVars, writerVars, snapshot, dbVars>>

\* client.add raises anything else, TimeoutError included.
AddErrors(v) ==
  /\ Finish(Add(v), "error")
  /\ UNCHANGED <<progVars, mainVars, writerVars, snapshot, dbVars>>

\* client.read returns a consistent snapshot.
ReadReturns(n) ==
  /\ Finish(Read(n), "ok")
  /\ snapshot' = [snapshot EXCEPT ![n] = db]
  /\ UNCHANGED <<progVars, mainVars, writerVars, dbVars>>

ReadErrors(n) ==
  /\ Finish(Read(n), "error")
  /\ UNCHANGED <<progVars, mainVars, writerVars, snapshot, dbVars>>

NoteFault(v) ==
  earlyFaults' = IF mpc \in ReadPhase \cup Over THEN earlyFaults ELSE earlyFaults \cup {v}

DbLose(v) ==
  /\ "lose" \in DbFaults
  /\ v \in db \cap Values
  /\ db' = db \ {v}
  /\ dropped' = dropped \cup {v}
  /\ NoteFault(v)
  /\ UNCHANGED <<progVars, mainVars, writerVars, thread, snapshot, inflight>>

DbPhantom ==
  /\ "phantom" \in DbFaults
  /\ Phantom \notin db
  /\ db' = db \cup {Phantom}
  /\ NoteFault(Phantom)
  /\ UNCHANGED <<progVars, mainVars, writerVars, thread, snapshot, inflight, dropped>>

WorkerEnds == \/ \E v \in Values : AddReturns(v) \/ AddFails(v) \/ AddErrors(v)
              \/ \E n \in 1 .. MaxReads : ReadReturns(n) \/ ReadErrors(n)

\* Nothing the database does after the log is closed can be observed.
Database ==
  /\ mpc \notin Over
  /\ \/ WorkerEnds
     \/ \E v \in Values : DbApply(v) \/ DbReject(v) \/ DbLose(v)
     \/ DbPhantom

\* The test is over; abandoned calls may still be running.
Terminated == mpc \in Over /\ UNCHANGED vars

Next ==
  \/ Main
  \/ \E w \in Writers : Writer(w)
  \/ Elapse
  \/ Stop
  \/ Database
  \/ Terminated

\* Threads are scheduled and timers fire.  Nothing is assumed of the database;
\* only if no call outlasts the drain does every call have to end.
Fairness ==
  /\ WF_vars(Main)
  /\ \A w \in Writers : WF_vars(Writer(w))
  /\ WF_vars(Elapse)
  /\ ~SlowOps => WF_vars(mpc \notin Over /\ WorkerEnds)

Spec == Init /\ [][Next]_vars /\ Fairness

-----------------------------------------------------------------------------
(* What the load generator and the checker promise.                        *)

Verdict == CheckConsistency(opsLog)

\* The run is over and at least one read succeeded.
Judged == mpc = "closed" /\ OkReads(opsLog) # {}

\* The values the caller of add() was told are written.
Confirmed == {v \in Values : outcome[v] = "ok"}

\* Whatever the database does, and however answers, timeouts, late commits and
\* the drain interleave, the checker reports a lost value only if the database
\* really lost it and an unexpected value only if nobody wrote it
\* (check_consistency; run_write_phase joins the writers before the reads).
NoFalseAlarm ==
  Judged => /\ Verdict.lost \subseteq dropped
            /\ Verdict.unexpected \subseteq {Phantom}

\* A confirmed value the database lost before the read phase is reported as
\* lost, a value it made up by then as unexpected, so the verdict is not valid
\* (check_consistency, "DATA LOSS" and "CORRUPTION").
FaultsDetected ==
  Judged => /\ Confirmed \cap earlyFaults \subseteq Verdict.lost
            /\ earlyFaults \cap {Phantom} \subseteq Verdict.unexpected
            /\ Verdict.valid => (Confirmed \cup {Phantom}) \cap earlyFaults = {}

\* A recovered value is one whose write was indeterminate: it timed out or
\* failed without a definite reason (model.py: "Indeterminate writes that
\* actually went through").
RecoveredAreIndeterminate ==
  Judged => \A v \in Verdict.recovered : outcome[v] \in {"timeout", "error"}

\* No value has two INVOKE lines or two outcome lines, and its INVOKE line comes
\* first (add() logs "INVOKE before attempting, then OK/FAIL/INFO"; values are
\* unique because _get_next_value holds _counter_lock).
WellFormedLog ==
  \A i, j \in DOMAIN opsLog :
    /\ opsLog[i].action = "add"
    /\ opsLog[j].action = "add"
    /\ opsLog[i].value = opsLog[j].value
    /\ i < j
    => opsLog[i].type = "invoke" /\ opsLog[j].type # "invoke"

\* What the log says of each value, for the refinement of SetTest.
Status == [v \in Values |->
             IF v \notin Attempted(opsLog) THEN "unused"
             ELSE IF v \in Successful(opsLog) THEN "ok"
             ELSE IF v \in Failed(opsLog) THEN "fail"
             ELSE IF v \in AddsOf(opsLog, "info") THEN "info"
             ELSE "invoked"]

Abstract == INSTANCE SetTest WITH status <- Status,
                                  reading <- mpc \in ReadPhase \cup {"closed"}

\* The threads of the load generator implement SetTest: writes are over, and
\* every one of them has its outcome in the log, before the first read
\* (run_write_phase joins all writers before it returns).
ImplementsSetTest == Abstract!Spec

\* The run always ends, even against a database that never answers.
Termination == <>(mpc \in Over)
=============================================================================
