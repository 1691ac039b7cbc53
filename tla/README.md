# A TLA+ verification of faultstorm

faultstorm tests the consistency of a replicated database: it writes unique
integers to a set while it breaks the cluster (network partitions, frozen and
killed processes), heals the cluster, reads the set back and judges the log of
what happened. A tester is only worth its verdicts. It must not accuse a correct
database, must not overlook what a broken one did, and must leave the cluster as
it found it. This project models the parts of faultstorm on which that depends,
checks them with TLC and proves the central facts with TLAPS.

All paths below are relative to `src/faultstorm/` unless they say otherwise.

## 1. The system

| Component | State it keeps | Operations | Talks to |
|---|---|---|---|
| Test runner, `runner.py` | none of its own: the order of the phases and what is acquired and released around them | `run`, `_run_phases` | applies the latency, starts the fault thread, runs the write phase in its own thread, then `stop`, `join`, `heal_all`, the reads, the checker, and removes the latency |
| Load generator, `load_generator.py` | counter, node index, stop event, list of abandoned threads, operations log | `setup`, `add`, `read`, `run_write_phase`, `drain_pending`, `run_read_phase`, `stop` | writer threads; one worker thread per database call; `DatabaseClient` |
| Checker, `checker.py`, `model.py` | sets of attempted, successful and failed values, last read, timestamps | `check_consistency`, write availability, intervals of the problem reports | the operations log |
| Fault engine, random mode, `faults/engine.py` | stop event, ordinal counter, active faults, destructive count, scenario log | `run_random`, `_inject_complex_fault`, `_heal_all_active`, `stop`, `heal_all` | fault actions; called from two threads; a timer |
| Fault engine, replay mode | the same | `run_replay`, `_parse_log` | `serialize`/`deserialize` of the actions |
| Partition actions, `faults/actions.py`, `faults/partitioners.py` | the firewalls of the nodes | `execute`, `heal` of five classes | `ClusterManager.exec_on_node` (docker exec, iptables) |
| Freeze actions and `scripts/process_freezer.sh` | the flag file; the daemon's loop; stopped processes | `execute`, `heal`; the daemon | the file is the only channel between them |
| Kill and wait actions, registry | none | `execute` | |
| Network latency, `network_latency.py` | bands and delays of each node, nodes configured; the tc rules themselves | `apply`, `remove`, `freeze_drop_restore_for_ips` of the manager and of the module | tc on the nodes; called from the main thread and, during a kill, from the fault thread |
| Cluster manager, `cluster.py` | none | `exec_on_node`, `get_node_ip`, `build_dc_map` | docker |
| Database client, `db_client.py` | abstract class | `add`, `read`, `is_definite_failure` | the database |
| Configuration, `config.py` | constants | | |

What is hard in it, and which properties make each part correct:

- **Load generator and checker.** A call that timed out goes on in its thread; its
  write may commit during the drain, between two reads, or never. Writers log
  concurrently; the stop event is shared and is set, and cleared, by several
  threads. Correct means: the log tells the truth about each value, in an order
  the checker can rely on, and the verdict follows from it.
- **Engine.** The engine thread is interrupted by `stop()`, by its own timer and by
  exceptions anywhere in a cycle; the main thread then heals what is left, through
  the same method. Correct means: everything injected is healed exactly once, the
  destructive limit is kept, and the scenario log names what was done before it
  was done.
- **Replay.** A log is written line by line by one run and read by another. Correct
  means: the second does what the first did and writes the same log.
- **Partitions.** Every helper swallows errors and gives up the rest of its work.
  Correct means: the firewalls block what the active partitions are to block,
  nothing that no partition asked for stays blocked, and runs do not disturb one
  another.
- **Freezer.** Two programs share a file and no lock; processes die while they are
  held. Correct means: no process stays stopped.
- **Latency.** The rules are on the nodes, not in the process: a test that dies
  leaves them, the next one finds them and reads them back from what tc prints. A
  freeze changes them for a moment while the main thread may be removing them.
  Correct means: no traffic has a delay that is not configured for it, a killed
  process cannot send while it is killed, and nothing is left at the end.
- **Runner.** Any call may raise, and the main thread may be interrupted. Correct
  means: the reads find a quiet cluster, and the latency goes when the test does.

`PROJECT.json` lists every hazard with its source line and the properties that
cover it.

## 2. Modules

| Module | Models | Extends / uses |
|---|---|---|
| `Checker` | `check_consistency` as operators on a log; availability and report intervals as operators on timestamps | |
| `SetTest` | what a set test promises its checker, without threads: the abstract specification of the load generator | |
| `LoadGenerator` | writers, main thread, worker threads, clock, signal handler, database | `Checker`; implements `SetTest` |
| `FaultLedger` | what the engine promises a test: injected once, settled once, nothing after the account is closed | |
| `FaultEngine` | random mode, the runner's calls, the timer | implements `FaultLedger` |
| `ScenarioReplay` | scenario log, its parsing, replay mode | |
| `Partition` | the five partition classes, their iptables commands, the firewalls | |
| `ProcessFreezer` | flag file, freeze actions, daemon, supervisor | |
| `NetworkLatency` | apply, remove and freeze as sequences of tc commands; several test runs on one cluster | |
| `TestRunner` | `run` and `_run_phases` with the exceptions that may end each part | composes `SetTest` and `FaultLedger`, and implements both |
| `CheckerProofs`, `LoadGeneratorProofs`, `FaultEngineProofs`, `ScenarioReplayProofs`, `PartitionProofs`, `ProcessFreezerProofs`, `NetworkLatencyProofs`, `TestRunnerProofs` | theorems and their proofs | the module of their name |
| `MC...` | the instances for TLC | the module of their name |

Definitions that begin "Faulty variant of" are not part of a specification: they
are plausible bugs, each put in the place of the definition that follows it to
see that a property notices.

### LoadGenerator

`wpc[w]` is the place of a writer thread: `loop` (the `while` test of
`_writer_loop`), `invoke` and `record` (the two log lines of `add`), `call` and
`wait` (the two halves of `_run_with_timeout`). `mpc` is the place of the main
thread, from `setup` to the read phase and the closing of the log. `thread[op]` is
what a worker thread holds in its `result_holder`, and `outcome[v]` what the
caller of the call got; they differ when the call timed out. `Log` appends one
line, atomically, as `_log_lock` makes it. A timeout may strike at any moment
while the call is unfinished, and a join of the drain may give up (`SlowOps`).

The database is external. `DbApply` may happen at any moment after the call, also
after the client's exception and after the timeout; `AddReturns` requires that
the write has been applied, `AddFails` (the exceptions `is_definite_failure`
accepts) that it has not and will not be, as the docstrings of `DatabaseClient`
ask of an implementation. `DbFaults` adds databases that lose or make up values,
and clients that report a definite failure wrongly.

Steps that no other thread can observe are merged, with a comment saying why: the
wait between two writes, the start of all writers, the answer of a read and its
log line.

### Checker

The verdict is a function of the log, so it is a set of operators: the sets the
loop accumulates, the final read (each successful one replaces the last), the
three differences, and the record of the result. `WriteAvailability` and
`ProblemIntervals` are the two figures that come from timestamps. They count in
whole units, of which an interval has `length`; the division cuts off towards
zero as `int()` does, and the interval number is capped above and not below, as
in the code. Each timestamp is `time.time()`, so nothing orders them.

### FaultEngine

One action per region between two points where another thread can see or change
something. `pc["engine"]` walks through `run_random`, the cycle, the injections,
the waits, the heals; `pc["main"]` through start, `stop`, `join`, `heal_all`.
`Heal(t, a)` is one turn of the loop in `_heal_all_active`, run by either thread;
the list is shuffled, so any order is allowed. `MayFail` selects what raises:
opening the log, a constructor, `execute` before or after its effect, `heal`
before or after, or a `heal` that swallows the error and changes nothing. Waits
end at any time, with or without the stop event: how long is not modelled. The
effects on the cluster are kept as a set of actions, which is all the engine's own
properties need; what an effect is, is the subject of `Partition` and
`ProcessFreezer`.

### ScenarioReplay

A recorded run writes `script`: a `+` line before the target is drawn
(`Unresolved`, unless a combo fixed it), a `-` line after the heal. `Resume` says
for each class what becomes of a line without a target when it is read again,
taken from the pair `serialize`/`deserialize` of the class: drawn anew, without
effect, shifted fields without or with an effect, or an exception. What a combo or
`action_params` may fix beforehand is `Fixable`; the runs let every action of such a
class be fixed or not, to any of its targets, which is more than one configuration
allows. Then the replay runs in a fresh engine, with `stop()` at any moment.

The cluster is what the replay leaves on it: `chains`, the ordinals of the partitions
in effect (an ordinal is the name of the chains; `Partition` has their rules), and
`flag`, the freeze that last wrote the flag file of each node (`ProcessFreezer` has the
daemon that reads it). There is one such file per node: `Execute` overwrites it, `Heal`
removes it on the nodes its target covers, whichever freeze wrote it. So the first `-`
line of two freezes of a node ends both, and `EffectsMatchScript` says so: a partition
goes by the lines of its ordinal, a flag file by the last line about its node. That no
freeze is lost or left over for this is `ReplayLeavesOpenFaults`: whatever the overlaps
and the order of the heals, a complete replay of a log without open targets ends with
what the recorded run had open at its end.

An open line of `freeze_processes_group` has its effect on the wrong nodes: the
processes are taken for the group, and `_target_nodes` takes every group but `extra` for
the database nodes. `NodesOf` of the `Garbled` target are therefore the database nodes.
An open line of `freeze_processes` names a process as the node, where the command fails.

### Partition

`execute` and `heal` are plans, sequences of parts; a part is what is done to one
chain of one node, a sequence of commands, built the way the code builds it
(chains per ordinal, directional chains for the subnet class, both sides of a cut,
the ring's window). The order of the nodes in a list that is made by leaving some
out (`Without`) is that of the rules in a chain, which no property tells apart, so
any order stands for it. The state is the three tables of iptables
over all nodes: chains, jumps from `INPUT`/`OUTPUT`, drop rules. `Accepts` and
`Perform` are external: what iptables refuses (an existing chain, a missing one, the
deletion of a chain that is linked or not empty) and what it does. A failing
command skips the followers its helper's `try` skips (`GivesUp`); they are always
in its own part. Several test
runs use the same cluster with ordinals that start again at 1.

### ProcessFreezer

`dpc` follows the script: polling, parsing the flag file, testing it, choosing,
stopping, holding, pausing. SIGTERM is pending until the foreground command ends,
as bash defines it; the trap then runs. Freezes of the same node overlap and share
the file. Processes die and come back under another pid at any time. A pattern
list is the set of the processes it matches; the branch that finds no process at
all only sleeps and tests the flag again, and is not modelled.

### NetworkLatency

The state of a node is what tc has there: the number of bands of the root qdisc,
the delay of each band, the band each address is routed to. `Delay` computes the
configured delays, `BandOf` the order in which the code hands out bands. One
action is one command of `apply`, `remove` or the freeze; `Exec` says whether tc
accepts it and lets an accepted one be reported as failed, with its effect or
without. `Discover` is what the code reads back: tc prints 99999 ms as `100.0s`,
so `Shown` rounds. The manager's steps and those of the freeze interleave.
`Restart` is the next test run on the same nodes, at any moment, also in the middle
of the previous one. `residue` remembers the nodes on which something failed or
was cut short; the properties say what holds of all the others.

How tc lays out its text is external. The parser expects the `flowid` of a filter
after its `match` line (`network_latency.py:219`); with a tc that prints it before
the match no band is ever found, so every freeze takes the bands of the manager
and every recovery finds nothing.

### TestRunner

`mpc` follows `run` and `_run_phases`. The writers appear by `status` and
`reading`, the variables of `SetTest`, and the fault thread by `outstanding`,
`settled` and `closed`, those of `FaultLedger`: that the threads behave so is what
`LoadGenerator` and `FaultEngine` show. `Raise` may happen at every step of the
`try`; it closes the log and goes on with `remove`. `ApplyRaises` is the exception
that nothing catches. `ruled` is the set of nodes with latency rules; commands
that fail are the subject of `NetworkLatency`.

## 3. Checks

### Passing runs

| Run | Instance | What it shows |
|---|---|---|
| `MCLoadGenerator_test` | 2 nodes with a writer each, 2 values, 1 read, a database that loses values, slow calls | the verdict is sound and complete, `RecoveredAreIndeterminate`, `WellFormedLog`, refinement of `SetTest`, `Termination` |
| `MCFaultEngine_random` | 2 classes, both destructive, one healable and host-targetable; 2 injections in a cycle, combos up to 2, limit 2, 2 cycles, all failures | limit, clean-up, log before effect, no double heal, balanced log, refinement of `FaultLedger`, `Termination` |
| `MCScenarioReplay_replay` | 5 classes, one of each way to resume; freezes of a node and of two groups, one of which contains it; all logs of up to 3 actions | what a replay preserves and what it leaves on the cluster, `ReplayEnds` |
| `MCPartition_firewall` | 2 database nodes and an extra node in 2 datacenters; 5 classes; 2 partitions, overlapping; 2 runs; 1 spurious failure | `NothingStray`, `ExactWhileClean`, `RingViews` |
| `MCProcessFreezer_freeze` | 3 processes, 2 freezes that overlap in one of them, 2 process restarts, 1 shutdown | nothing stays stopped, at most one late stop, `HealThaws` |
| `MCNetworkLatency_rules` | 3 nodes in 2 datacenters, one an extra node; two nodes with two bands, one whose two destinations share a band; 2 test runs, 2 freezes of any targets, 1 spurious failure | `ExactWhileClean`, `NoForeignDelay`, `KillIsolated`, `NothingLeft` |
| `MCTestRunner_run` | 2 nodes, 2 values, 2 faults, an exception anywhere | `ReadsUndisturbed`, `LatencyLifetime`, refinement of `SetTest` and `FaultLedger`, `Termination` |

Every property of these runs is broken by a mutant of the definitions listed in
`PROJECT.json`.

Why the bounds are enough. Two writers and two values make every pair of events of
two values interleave, with one timed out and one confirmed; the counter, the log
and the drain treat further values alike, and the proofs drop the bound for the
safety of the verdict. One read is enough for the question what was confirmed
before it; `Checker`'s choice of the last read is proved (`FinalReadAppend`) and
exercised by a value that changes between `DbApply` and the read. Two cycles are
needed for what one cycle leaves to the next, two injections and combos of two for
the counter and the ordinals; again the proofs drop the bounds. Three nodes are the
smallest ring with two distinct majorities, two active partitions the smallest
overlap, two runs the smallest reuse of an ordinal, and of latency rules that an
earlier process left. Two freezes are needed for one that reads what another left. Three actions allow a heal
between two injections and one left open. Two freezes and three processes allow a
freeze whose patterns the running loop has not read. A database that makes up
values is in no run; `VerdictSound` and `DetectsFaults` cover it, for any faults.

Bounds that the code does not have: `MaxValue`, `MaxReads`, `MaxCycles`,
`MaxActions`, `MaxActive`, `MaxOrdinal`, `MaxRuns`, `MaxFreezes`, `MaxFailures`,
`MaxTerms`, `MaxRestarts`, and the sets `Values` and `Faults` of `TestRunner`. Each is a constant of its module. `MaxCombo` is 3 in the code
and 2 in the run.

### Where the program departs from its documentation

| Run | Property | What happens |
|---|---|---|
| `MCScenarioReplay_left` | `NothingLeftBehind` | a replay tracks no active faults, so `heal_all` heals none of those its script leaves open |
| `MCScenarioReplay_redraw` | `DeterministicReplay` | the line of a single fault is written before its target is drawn; the replay draws another one |
| `MCPartition_leak` | `InEffectInCleanRun` | a chain that could not be linked cannot be removed either; a later run that reuses its ordinal gets a partition without effect |
| `MCProcessFreezer_shutdown` | `NoneLeftStopped` | a daemon that is stopped during a hold after the heal leaves the process stopped |
| `MCNetworkLatency_original` | `RestoresOriginal` | a freeze whose callback raises leaves its delay on the band, and the next freeze restores that as the original |

More, seen while modelling and without a run of their own:

- The `+` line of a random group freeze has no group (`faults/actions.py:1088`), and
  `deserialize` takes the processes for it: its replay writes the flag file on the
  database nodes, whatever group the recorded run drew. The model has it (`Resume`
  "spread"); like the redrawn target it breaks `DeterministicReplay`.
- `latency_mgr.apply` stands before the `try` (`runner.py:76`): the rules it has set
  when it raises stay, although `runner.py:82` says "Always clean up latency rules,
  even on failure". The model has it (`ApplyRaises`); `LatencyLifetime` speaks of the
  runs whose `apply` has returned.
- `config.py:78` calls the limit a number of destructive actions "per test run",
  but `engine.py:390` gives the count back when an action is healed, so it limits
  the outstanding ones, which is what `DestructiveWithinLimit` states.
- A `stop()` that comes before `run_random` has cleared its event
  (`faults/engine.py:168`) is lost, and the engine runs until its timer.
  `test_run_random_stop_interrupts` (`tests/unit/test_engine.py:494`) is exposed to
  it: it calls `stop()` straight after `t.start()`, under the comment "Give it a moment
  to start, then stop", and asserts that the thread ends within 5 seconds.
- In an odd ring every pair of nodes is cut in one direction (`OddRingOneWay`): no
  two nodes hear each other, although each hears a majority (`RingMajorities`), as
  the README of the repository says at line 68.
- The docstring at `checker.py:52` puts the availability between 0 and 1.
  `ClockStepExceedsOne` proves it wrong for a clock that steps back, and
  `AvailabilityAtMostOne` right for every other.
- `checker.py` reports the intervals in which unexpected values were invoked; a
  value is unexpected because it was never invoked, so that report is always
  empty (`UnexpectedNeverLocated`).
- The docstring of the subnet action names "other DB nodes + load generator node"
  (`actions.py:526`) for the group `db`; the load generator is never included.
- The docstring of `drain_pending` says writes commit or fail before the reads; its
  joins give up after 30 seconds, so one may commit later, which `NoFalseAlarm`
  shows to be harmless for the verdict.

### Fairness

- `LoadGenerator`: weak fairness of the main thread, of each writer and of the
  clock. Threads are scheduled, `Event.wait` and `join` have timeouts. Nothing is
  assumed of the database: `Termination` holds against one that never answers.
  With `SlowOps` FALSE every call ends, which replaces the timeout of the drain; the
  run has `SlowOps` TRUE, the weaker assumption.
- `FaultEngine`: weak fairness of both threads and of `threading.Timer`. Waits have
  a length, calls on the cluster a timeout. `stop()` is part of the main thread and
  comes eventually, because the write phase has a duration.
- `ScenarioReplay`: weak fairness of the fault thread and of the main thread's steps.
- `ProcessFreezer`: weak fairness of the daemon and its supervisor
  (`autorestart=true`). The engine may stop at any point: no heal is assumed.
- `TestRunner`: weak fairness of the main thread, of the outcome of each write
  (`LoadGenerator`: every call has its timeout) and of the end of the fault thread
  (`FaultEngine`: at the latest by its timer).
- `Partition` and `NetworkLatency` have no liveness property: their plans are finite.

## 4. Proofs

The proofs assume `ConstantsAssumption` of their module and nothing else; TLC
evaluates it in every run.

**FaultEngine.** None of the properties is inductive by itself. `IInv` has four
parts. `Order` relates the two program counters: the main thread heals only when
the engine thread is over, so there is at most one healer. `Tracking` says where
an action can be: `ToCome`, the actions that are current, active, or still on the
list of a healer, contains every effect that is not the fault of a failed heal,
and is disjoint from what was healed or tried. `Ordinals` says that the next
ordinal is fresh. `Counting` says that the destructive count is the
cardinality of the outstanding actions; this is where the filter and the
decrement meet. The steps of the two threads are sorted into a few
kinds by what they do to these variables (`Moves` for pure control, and one lemma
each for choosing, executing, starting, doing and ending a heal). From `IInv`
follow `LimitHolds`, `CleanUp`, `WriteAhead`, `HealedOnce` and `UniqueOrdinals`,
for every set of classes, limit, combo size, number of injections and of cycles,
whatever fails. `Account` adds that the `+` and `-` lines of the log, the actions
that are outstanding and those settled are one account; from it follow
`Balanced` (between two cycles each `+` has its `-`) and `LedgerKept`, the
refinement of `FaultLedger`: each step of the two threads is an `Inject`, a
`Settle`, the `Close` or leaves the account alone.

**LoadGenerator.** `NoFalseAlarm` needs to know that what the log calls `ok` was in
the table when the reads began, and that what a read shows was invoked. `IInv`
says: a log with a successful read has a last one (`HasLast`), nothing is read
before every writer is done (`Phases`), whatever reaches the database or comes
back from it was logged as invoked before, unless the database made it up
(`Attempts`), and a confirmed value has been applied and is in every later read,
or lost (`Confirmations`). `CheckerProofs` has the
two lemmas about one more line of the log. `VerdictSound` concludes for any
number of nodes, writers, values and reads and any set of database faults.

**LoadGenerator, the log.** `Books` says how the log, the writers and the database
know of a value: no two writers work on one (`Unique`), a value is unknown to log
and database until its writer hands it on (`Fresh`), what is invoked and has no
outcome line is in the hands of a writer (`Open`), each value has the outcome line
of its outcome (`Told`), and before the start no writer works (`Idle`). A line is
appended in two places only, and `Books` gives what each needs: `LogWellFormed`
and `SetTestImplemented` follow. `Truth` relates the log to the database: a write
takes effect once, a definite failure never, what is read was applied, and what
the database did wrong before the reads shows in each of them. `DetectsFaults` and
`RecoveredIndeterminate` are its consequences at the end of a run; the second
assumes a client whose definite failures are definite.

**Checker.** Beside the two lemmas on the log, `AvailabilityAtMostOne`: with every
successful write stamped after the first invocation all interval numbers lie between 0 and
the total, so their number is at most the total. `ClockStepExceedsOne` is the
counterexample without that hypothesis.

**ProcessFreezer.** `OnlyTheHeldIsStopped` is inductive with the types.
`AtMostOneLateStop` needs that a daemon on its way to a stop has not made a late
one yet (`Late`), `OnlyNamedAreStopped` that file, patterns and target come from
freezes that have begun (`NamedOnly`).

**TestRunner.** `IInv` ties each phase to the threads that are alive (`Threads`),
to the rules (`Rules`) and to what the reads will find (`Quiet`). `ContractsKept`
maps every step to one of `SetTest` and one of `FaultLedger`, or to a stutter.

**ScenarioReplay.** `ScriptInv` gives the shape of what a recorded run has written,
for logs of any length: each action has one `+` line, after those of the smaller
ordinals, and at most one `-` line, after its `+` line. The replay is proved from
that shape alone. `StepKinds` sorts its steps into those that replay a line and
those that leave alone what was replayed; one lemma for each kind keeps
`Repeating` (line by line the replay has done what the line is about) and
`Matching` (a partition is there if its `+` line has been replayed and its `-` line
has not, the flag file of a node is that of the last line about the node). For
`Matching` a `-` line must be of the class of its `+` line, which is part of
`ScriptInv`, and a freeze must have one target at most (`OneTarget`), which is the
assumption that no freeze is drawn anew. `RewritesScript` follows from `StepKinds`
alone, `Repeats` from `Repeating` and `EffectsFollowScript` from `Matching`.
`LeavesOpenFaults` needs two more invariants: `Settled`, of the recorded run (what is
not open has its `-` line, and outside of a heal phase no `-` line follows the `+` line
of what is open), and `Thawed`, of the replay (on a node without a flag file every
freeze of it is followed by a heal of it).

**NetworkLatency.** `BandNumbers` is about the numbering alone: each distinct delay
of a node gets a band of its own and no band is left out, by a counting argument
on the order in which `_apply_node` meets the delays. `Typed` adds to the types
what the two program counters say of the other variables. `IInv` then says what the rules
of a node can be. A node on which nothing has failed, and that has rules, is in
one of three states: `apply()` is building them and has got to some band and some
filter of it (`BuiltRules`); the freeze has given it a root qdisc of its own
(`TemporaryRules`); or they are settled (`SettledRules`), each band having its
delay, save those the freeze has set to its own (`Iced`) or has taken away to
restore them (`Dropped`). `FreezeInv` says that what the freeze will restore is what was there, and that
it covers its targets; `BandsOf` that the manager knows the bands, also after it
took over the rules of a dead process; `Visited` and `Leftover` what `apply()`
and `remove()` have dealt with. A step touches one node, so two lemmas
(`ApplyFrame`, `FreezeFrame`) deal with the others and each step with its own.
All four safety properties follow, for any nodes, datacenters, delays, test runs,
freezes and spurious failures. No run could do that: a band is wrong only for
some combinations of delays, and TLC has three nodes.

**Partition.** `NothingStray` and `ExactWhileClean` speak of the moments between
two commands, or two plans, and of the firewalls alone; what makes them true is in
the rest of the plan. `IInv` therefore says what a plan may be (`GoodPlan`: each of
its parts makes, links and fills one chain of its action, or flushes, unlinks and
deletes it, in this order, and only the first part may be under way) and ties it to
the tables. Whatever fails, ordinals tell the actions apart (`Engine`), jumps and
rules belong to chains that exist (`Tables`), each rule is there for an action that
is to block just that, or was left by a failed flush (`Attributed`), and a heal still
has the flush of every chain that has rules of its action before it (`ToFlush`); from
that follows `OnlyDesignedTraffic`. The last is needed because the action is out of
force as soon as its heal is over. As long as nothing has failed, moreover, each
chain has its action, and its deletion is to come in a heal (`Owned`), is linked but
for the moment after its creation and before its deletion (`Linked`), what is to be
blocked is blocked or its rule is to come (`Filled`), and what the next command
presupposes is done (`Prepared`): so iptables refuses nothing but to make a chain
again or to flush one that is not there (`RefusedClean`; the heal of a datacenter
without nodes does that), and `ExactFirewalls` follows. TLC
checked `IInv` on the instance of `MCPartition_firewall` before it was proved.
`ExecuteBegins` and `HealPlanFacts` are the other half: for each of the five classes,
with any nodes, order, datacenter and direction, the plan is a `GoodPlan` that
contains the rule of everything the action is to block, and a heal flushes and
deletes every chain of its action. `RingMajorities` is counting modulo the number of
nodes: the window of a node has as many members as a majority (`MajorityVisible`),
and any other node with that node in its window also has the one before it, which
the first has not (`ViewsDiffer`). Any number of partitions may overlap, of test runs follow each
other, of commands fail.

**Only model-checked.** The liveness properties (`Termination` of three modules,
`ReplayEnds`, `HealThaws`): liveness under fairness and ENABLED are out of the
prover's reach. So is induction over data; no property needs it, since the plans and
logs are described by what holds at each of their places. Every safety property of
the passing runs is proved.

## 5. Not modelled

- `config.py`: a dataclass without behaviour; its fields are the CONSTANTS.
- Hand-written scenario files: replay is modelled for the files a run writes.
- The layout of what tc prints, message texts, durations, the command line, how
  results are formatted (`run_and_print`).
- The text of the process lists the freezer reads; a pattern list is the set of
  processes it matches.
- The registry of actions, a dictionary filled at start-up, and which node a call of
  the load generator goes to: no property depends on them.

`PROJECT.json` has the reason for each component.

## 6. Plan

Done: all components but the configuration; type correctness and every safety
property of every module proved, with the refinements of `SetTest` and
`FaultLedger`.

Next: an abstract specification of what a fault action promises the engine (in
effect after `execute`, gone after `heal`), implemented by `Partition` as long as
nothing fails, to tie it to the effects that `FaultEngine` keeps as a set.
