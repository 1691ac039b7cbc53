----------------------------- MODULE FaultEngine -----------------------------
(***************************************************************************)
(* The random mode of faultstorm/faults/engine.py, and the calls runner.py *)
(* makes on the engine: start run_random in a thread of its own, stop() it *)
(* when the write phase is over, join it, heal_all().                      *)
(*                                                                         *)
(* A fault action is its class and its ordinal; target nodes, seconds and  *)
(* other parameters are left out.  What an action does to the cluster is   *)
(* external: "effects" holds the healable actions whose effect is in       *)
(* place.  MayFail selects the calls that may go wrong:                    *)
(*   "start"          run_random raises before its loop (unknown class,    *)
(*                    log cannot be opened)                                *)
(*   "construct"      the constructor raises (wrong action_params)         *)
(*   "execute"        execute() raises, with or without having an effect   *)
(*   "heal_raises"    heal() raises, with or without removing the effect   *)
(*   "heal_swallows"  heal() returns although the effect is still there    *)
(*                    (the actions log and swallow the errors of commands) *)
(***************************************************************************)
EXTENDS Integers, FiniteSets

CONSTANTS
  Classes,         \* the enabled fault classes
  Healable,        \* those with healable = True
  Destructive,     \* those with destructive = True
  HostTargetable,  \* those with host_targetable = True
  ComplexFaults,   \* config.complex_faults_enabled
  ParallelFaults,  \* config.parallel_faults_count
  MaxDestructive,  \* config.max_destructive_actions, or NoLimit
  NoLimit,
  MaxCombo,        \* largest combo (3 in the code)
  MaxCycles,       \* bound on the cycles (the code has none)
  MayFail          \* see above

ASSUME ConstantsAssumption ==
  /\ IsFiniteSet(Classes)
  /\ Healable \subseteq Classes
  /\ Destructive \subseteq Classes
  /\ HostTargetable \subseteq Classes
  /\ ComplexFaults \in BOOLEAN
  /\ ParallelFaults \in Nat
  /\ MaxDestructive \in Nat \cup {NoLimit}
  /\ NoLimit \notin Nat
  /\ MaxCombo \in Nat \ {0}
  /\ MaxCycles \in Nat
  /\ MayFail \subseteq {"start", "construct", "execute", "heal_raises", "heal_swallows"}

Threads == {"engine", "main"}
Action  == [class : Classes, ordinal : Nat]

VARIABLES
  (* the engine object, shared by the threads *)
  stopEvent,        \* _stop_event
  logOpen,          \* _log_file is not None
  active,           \* _active_faults
  nextOrdinal,      \* _next_ordinal
  destructiveCount, \* _destructive_count
  (* the scenario log: waits left out, order recoverable from the ordinals *)
  injected,         \* the actions that have a "+" line, or a plain one
  healLogged,       \* the actions that have a "-" line
  (* threads *)
  pc,               \* where the engine thread and the main thread are
  timer,            \* the timer that ends the random mode
  cycle, slot,      \* cycles begun, injections begun in this cycle
  pool, comboLeft,  \* classes to choose from, faults left in this injection
  current,          \* the action logged and about to be executed, if any
  toHeal,           \* per thread: what _heal_all_active has yet to heal
  (* the cluster, and history *)
  effects,          \* healable actions whose effect is in place
  healed,           \* actions whose heal() returned
  failedHeals       \* actions whose heal() raised, or left the effect in place

logVars == <<logOpen, injected, healLogged>>
loopVars == <<cycle, slot, pool, comboLeft, current>>
ghostVars == <<effects, healed, failedHeals>>
vars == <<stopEvent, active, nextOrdinal, destructiveCount, logVars, pc, timer,
          loopVars, toHeal, ghostVars>>

EngineState == {"new", "started", "cycle", "slot", "choose", "execute", "combo_wait",
                "slot_end", "slot_wait", "active_wait", "heal", "heal_wait",
                "pause_wait", "closing", "over"}
MainState   == {"new", "write", "join", "heal", "heal_wait", "over"}

TypeOK ==
  /\ stopEvent \in BOOLEAN
  /\ logOpen \in BOOLEAN
  /\ active \subseteq Action
  /\ nextOrdinal \in Nat
  /\ destructiveCount \in Int
  /\ injected \subseteq Action
  /\ healLogged \subseteq Action
  /\ pc \in [Threads -> EngineState \cup MainState]
  /\ pc["engine"] \in EngineState
  /\ pc["main"] \in MainState
  /\ timer \in {"off", "armed", "fired", "cancelled"}
  /\ cycle \in Nat
  /\ slot \in 0 .. ParallelFaults
  /\ pool \subseteq Classes
  /\ comboLeft \in 0 .. MaxCombo
  /\ current \subseteq Action
  /\ toHeal \in [Threads -> SUBSET Action]
  /\ effects \subseteq Action
  /\ healed \subseteq Action
  /\ failedHeals \subseteq Action

Init ==
  /\ stopEvent = FALSE
  /\ logOpen = FALSE
  /\ active = {}
  /\ nextOrdinal = 0
  /\ destructiveCount = 0
  /\ injected = {}
  /\ healLogged = {}
  /\ pc = [t \in Threads |-> "new"]
  /\ timer = "off"
  /\ cycle = 0
  /\ slot = 0
  /\ pool = {}
  /\ comboLeft = 0
  /\ current = {}
  /\ toHeal = [t \in Threads |-> {}]
  /\ effects = {}
  /\ healed = {}
  /\ failedHeals = {}

At(t, state)  == pc[t] = state
Go(t, state)  == pc' = [pc EXCEPT ![t] = state]

\* A WaitAction takes an ordinal, is logged, and waits.
BeginWait(t, state) == nextOrdinal' = nextOrdinal + 1 /\ Go(t, state)

-----------------------------------------------------------------------------
(* The engine thread: run_random, _random_loop, _do_random_loop.           *)

\* run_random clears the stop event, opens the log and arms the timer.
RunRandom ==
  /\ At("engine", "started")
  /\ stopEvent' = FALSE
  /\ logOpen' = TRUE
  /\ timer' = "armed"
  /\ Go("engine", "cycle")
  /\ UNCHANGED <<active, nextOrdinal, destructiveCount, injected, healLogged,
                 loopVars, toHeal, ghostVars>>

RunRandomFails ==
  /\ At("engine", "started")
  /\ "start" \in MayFail
  /\ stopEvent' = FALSE
  /\ Go("engine", "over")
  /\ UNCHANGED <<active, nextOrdinal, destructiveCount, logVars, timer, loopVars,
                 toHeal, ghostVars>>

BeginCycle ==
  /\ At("engine", "cycle")
  /\ ~stopEvent
  /\ cycle < MaxCycles
  /\ cycle' = cycle + 1
  /\ slot' = 0
  /\ Go("engine", "slot")
  /\ UNCHANGED <<stopEvent, active, nextOrdinal, destructiveCount, logVars, timer,
                 pool, comboLeft, current, toHeal, ghostVars>>

\* Faulty variant of BeginInjection: one fault too many in a combo.
BeginInjectionOneMore ==
  /\ At("engine", "slot")
  /\ slot < ParallelFaults
  /\ slot' = slot + 1
  /\ \/ pool' = Classes /\ comboLeft' = 1
     \/ /\ ComplexFaults
        /\ HostTargetable # {}
        /\ pool' = HostTargetable
        /\ comboLeft' \in 1 .. MaxCombo + 1
  /\ Go("engine", "choose")
  /\ UNCHANGED <<stopEvent, active, nextOrdinal, destructiveCount, logVars, timer,
                 cycle, current, toHeal, ghostVars>>

\* The head of _inject_complex_fault: a combo on one host, or a single fault.
BeginInjection ==
  /\ At("engine", "slot")
  /\ slot < ParallelFaults
  /\ slot' = slot + 1
  /\ \/ pool' = Classes /\ comboLeft' = 1
     \/ /\ ComplexFaults
        /\ HostTargetable # {}
        /\ pool' = HostTargetable
        /\ comboLeft' \in 1 .. MaxCombo
  /\ Go("engine", "choose")
  /\ UNCHANGED <<stopEvent, active, nextOrdinal, destructiveCount, logVars, timer,
                 cycle, current, toHeal, ghostVars>>

\* Faulty variant of FilterByLimit: off by one.
FilterByLimitLate(classes) ==
  IF MaxDestructive # NoLimit /\ destructiveCount > MaxDestructive
  THEN classes \ Destructive
  ELSE classes

\* _filter_by_destructive_limit
FilterByLimit(classes) ==
  IF MaxDestructive # NoLimit /\ destructiveCount >= MaxDestructive
  THEN classes \ Destructive
  ELSE classes

NothingAvailable ==
  /\ At("engine", "choose")
  /\ FilterByLimit(pool) = {}
  /\ comboLeft' = 0
  /\ Go("engine", "slot_end")
  /\ UNCHANGED <<stopEvent, active, nextOrdinal, destructiveCount, logVars, timer,
                 cycle, slot, pool, current, toHeal, ghostVars>>

\* Faulty variant of Choose: no line is written before execute().
ChooseUnlogged(c) ==
  /\ At("engine", "choose")
  /\ c \in FilterByLimit(pool)
  /\ nextOrdinal' = nextOrdinal + 1
  /\ destructiveCount' = destructiveCount + (IF c \in Destructive THEN 1 ELSE 0)
  /\ current' = {[class |-> c, ordinal |-> nextOrdinal + 1]}
  /\ Go("engine", "execute")
  /\ UNCHANGED <<injected, stopEvent, active, logOpen, healLogged, timer, cycle, slot,
                 pool, comboLeft, toHeal, ghostVars>>

\* Choose a class, construct the action, count it, write its line.
Choose(c) ==
  LET action == [class |-> c, ordinal |-> nextOrdinal + 1]
  IN /\ At("engine", "choose")
     /\ c \in FilterByLimit(pool)
     /\ nextOrdinal' = nextOrdinal + 1
     /\ destructiveCount' = destructiveCount + (IF c \in Destructive THEN 1 ELSE 0)
     /\ injected' = injected \cup {action}
     /\ current' = {action}
     /\ Go("engine", "execute")
     /\ UNCHANGED <<stopEvent, active, logOpen, healLogged, timer, cycle, slot, pool,
                    comboLeft, toHeal, ghostVars>>

\* The constructor raises: the thread unwinds to the finally clauses.
ConstructFails ==
  /\ At("engine", "choose")
  /\ "construct" \in MayFail
  /\ FilterByLimit(pool) # {}
  /\ nextOrdinal' = nextOrdinal + 1
  /\ Go("engine", "closing")
  /\ UNCHANGED <<stopEvent, active, destructiveCount, logVars, timer, loopVars,
                 toHeal, ghostVars>>

\* Faulty variant of Execute: an action whose execute() raises, after having an
\* effect, is not tracked.
ExecuteUntracked ==
  /\ At("engine", "execute")
  /\ effects' = effects \cup {a \in current : a.class \in Healable}
  /\ active' \in {active, active \cup current}
  /\ current' = {}
  /\ comboLeft' = 0
  /\ Go("engine", "slot_end")
  /\ UNCHANGED <<nextOrdinal, stopEvent, destructiveCount, logVars, timer, cycle, slot,
                 pool, toHeal, healed, failedHeals>>

\* execute() runs; an exception is swallowed and the action tracked all the
\* same.  Only healable actions leave an effect behind that heal() removes.
Execute ==
  /\ At("engine", "execute")
  /\ \/ effects' = effects \cup {a \in current : a.class \in Healable}
     \/ "execute" \in MayFail /\ effects' = effects
  /\ active' = active \cup current
  /\ current' = {}
  /\ IF comboLeft > 1
     THEN comboLeft' = comboLeft - 1 /\ BeginWait("engine", "combo_wait")
     ELSE comboLeft' = 0 /\ Go("engine", "slot_end") /\ UNCHANGED nextOrdinal
  /\ UNCHANGED <<stopEvent, destructiveCount, logVars, timer, cycle, slot, pool, toHeal,
                 healed, failedHeals>>

EndComboWait ==
  /\ At("engine", "combo_wait")
  /\ Go("engine", "choose")
  /\ UNCHANGED <<stopEvent, active, nextOrdinal, destructiveCount, logVars, timer,
                 loopVars, toHeal, ghostVars>>

BeginSlotWait ==
  /\ At("engine", "slot_end")
  /\ slot < ParallelFaults
  /\ BeginWait("engine", "slot_wait")
  /\ UNCHANGED <<stopEvent, active, destructiveCount, logVars, timer, loopVars, toHeal,
                 ghostVars>>

EndSlotWait ==
  /\ At("engine", "slot_wait")
  /\ Go("engine", "slot")
  /\ UNCHANGED <<stopEvent, active, nextOrdinal, destructiveCount, logVars, timer,
                 loopVars, toHeal, ghostVars>>

BeginActiveWait ==
  /\ At("engine", "slot_end") \/ At("engine", "slot")
  /\ slot = ParallelFaults
  /\ BeginWait("engine", "active_wait")
  /\ UNCHANGED <<stopEvent, active, destructiveCount, logVars, timer, loopVars, toHeal,
                 ghostVars>>

\* The active phase is over: heal, unless the engine was stopped meanwhile.
EndActiveWait ==
  /\ At("engine", "active_wait")
  /\ IF stopEvent
     THEN Go("engine", "closing") /\ UNCHANGED toHeal
     ELSE Go("engine", "heal") /\ toHeal' = [toHeal EXCEPT !["engine"] = active]
  /\ UNCHANGED <<stopEvent, active, nextOrdinal, destructiveCount, logVars, timer,
                 loopVars, ghostVars>>

EndPauseWait ==
  /\ At("engine", "pause_wait")
  /\ Go("engine", "cycle")
  /\ UNCHANGED <<stopEvent, active, nextOrdinal, destructiveCount, logVars, timer,
                 loopVars, toHeal, ghostVars>>

LeaveLoop ==
  /\ At("engine", "cycle")
  /\ stopEvent
  /\ Go("engine", "closing")
  /\ UNCHANGED <<stopEvent, active, nextOrdinal, destructiveCount, logVars, timer,
                 loopVars, toHeal, ghostVars>>

\* The finally clauses of _random_loop and run_random.
Close ==
  /\ At("engine", "closing")
  /\ timer' = IF timer = "armed" THEN "cancelled" ELSE timer
  /\ logOpen' = FALSE
  /\ Go("engine", "over")
  /\ UNCHANGED <<stopEvent, active, nextOrdinal, destructiveCount, injected, healLogged,
                 loopVars, toHeal, ghostVars>>

-----------------------------------------------------------------------------
(* _heal_all_active, which the engine thread runs at the end of a cycle    *)
(* and the main thread in heal_all.  The list is shuffled: any order.      *)

\* heal() returns, raises, or returns without having removed the effect.
\* The heal() of a class that is not healable does nothing.
HealReturns(a) ==
  /\ healed' = healed \cup {a}
  /\ destructiveCount' = destructiveCount - (IF a.class \in Destructive THEN 1 ELSE 0)
  /\ \/ effects' = effects \ {a} /\ failedHeals' = failedHeals
     \/ /\ "heal_swallows" \in MayFail
        /\ a.class \in Healable
        /\ effects' = effects
        /\ failedHeals' = failedHeals \cup {a}

HealRaises(a) ==
  /\ "heal_raises" \in MayFail
  /\ a.class \in Healable
  /\ effects' \in {effects, effects \ {a}}
  /\ failedHeals' = failedHeals \cup {a}
  /\ UNCHANGED <<healed, destructiveCount>>

\* Faulty variant of Heal: a heal that fails has no "-" line.
HealLoggedIfDone(t, a) ==
  /\ At(t, "heal")
  /\ a \in toHeal[t]
  /\ toHeal' = [toHeal EXCEPT ![t] = @ \ {a}]
  /\ \/ HealReturns(a) /\ healLogged' = IF a.class \in Healable /\ logOpen
                                        THEN healLogged \cup {a} ELSE healLogged
     \/ HealRaises(a) /\ UNCHANGED healLogged
  /\ IF a.class \in Healable THEN BeginWait(t, "heal_wait") ELSE UNCHANGED <<nextOrdinal, pc>>
  /\ UNCHANGED <<stopEvent, active, logOpen, injected, timer, loopVars>>

\* One iteration of the loop; the "-" line is written also after a failure,
\* if the log is still open.
Heal(t, a) ==
  /\ At(t, "heal")
  /\ a \in toHeal[t]
  /\ HealReturns(a) \/ HealRaises(a)
  /\ toHeal' = [toHeal EXCEPT ![t] = @ \ {a}]
  /\ IF a.class \in Healable
     THEN /\ healLogged' = IF logOpen THEN healLogged \cup {a} ELSE healLogged
          /\ BeginWait(t, "heal_wait")
     ELSE UNCHANGED <<healLogged, nextOrdinal, pc>>
  /\ UNCHANGED <<stopEvent, active, logOpen, injected, timer, loopVars>>

EndHealWait(t) ==
  /\ At(t, "heal_wait")
  /\ Go(t, "heal")
  /\ UNCHANGED <<stopEvent, active, nextOrdinal, destructiveCount, logVars, timer,
                 loopVars, toHeal, ghostVars>>

\* Faulty variant of EndHeal: the list is not cleared.
EndHealUncleared(t) ==
  /\ At(t, "heal")
  /\ toHeal[t] = {}
  /\ IF t = "engine"
     THEN BeginWait(t, "pause_wait")
     ELSE Go(t, "over") /\ UNCHANGED nextOrdinal
  /\ UNCHANGED <<active, stopEvent, destructiveCount, logVars, timer, loopVars, toHeal,
                 ghostVars>>

\* The list is cleared, failed heals included; the engine goes on to the pause.
EndHeal(t) ==
  /\ At(t, "heal")
  /\ toHeal[t] = {}
  /\ active' = {}
  /\ IF t = "engine"
     THEN BeginWait(t, "pause_wait")
     ELSE Go(t, "over") /\ UNCHANGED nextOrdinal
  /\ UNCHANGED <<stopEvent, destructiveCount, logVars, timer, loopVars, toHeal,
                 ghostVars>>

HealStep(t) == (\E a \in toHeal[t] : Heal(t, a)) \/ EndHealWait(t) \/ EndHeal(t)

Engine ==
  \/ RunRandom
  \/ RunRandomFails
  \/ BeginCycle
  \/ BeginInjection
  \/ NothingAvailable
  \/ \E c \in Classes : Choose(c)
  \/ ConstructFails
  \/ Execute
  \/ EndComboWait
  \/ BeginSlotWait
  \/ EndSlotWait
  \/ BeginActiveWait
  \/ EndActiveWait
  \/ EndPauseWait
  \/ LeaveLoop
  \/ Close
  \/ HealStep("engine")

-----------------------------------------------------------------------------
(* The main thread (runner.py, _run_phases) and the timer.                 *)

StartThread ==
  /\ At("main", "new")
  /\ pc' = [pc EXCEPT !["main"] = "write", !["engine"] = "started"]
  /\ UNCHANGED <<stopEvent, active, nextOrdinal, destructiveCount, logVars, timer,
                 loopVars, toHeal, ghostVars>>

\* The write phase is over: engine.stop().
Stop ==
  /\ At("main", "write")
  /\ stopEvent' = TRUE
  /\ Go("main", "join")
  /\ UNCHANGED <<active, nextOrdinal, destructiveCount, logVars, timer, loopVars,
                 toHeal, ghostVars>>

\* Faulty variant of Join: heal_all() does not wait for the thread.
JoinAtOnce ==
  /\ At("main", "join")
  /\ toHeal' = [toHeal EXCEPT !["main"] = active]
  /\ Go("main", "heal")
  /\ UNCHANGED <<stopEvent, active, nextOrdinal, destructiveCount, logVars, timer,
                 loopVars, ghostVars>>

\* fault_thread.join() returns, heal_all() begins.
Join ==
  /\ At("main", "join")
  /\ At("engine", "over")
  /\ toHeal' = [toHeal EXCEPT !["main"] = active]
  /\ Go("main", "heal")
  /\ UNCHANGED <<stopEvent, active, nextOrdinal, destructiveCount, logVars, timer,
                 loopVars, ghostVars>>

Main == StartThread \/ Stop \/ Join \/ HealStep("main")

\* Faulty variant of TimerFires: the timer does not set the event.
TimerFiresInVain ==
  /\ timer = "armed"
  /\ timer' = "fired"
  /\ UNCHANGED <<stopEvent, active, nextOrdinal, destructiveCount, logVars, pc, loopVars,
                 toHeal, ghostVars>>

\* The timer of run_random sets the stop event when the duration is over.
TimerFires ==
  /\ timer = "armed"
  /\ timer' = "fired"
  /\ stopEvent' = TRUE
  /\ UNCHANGED <<active, nextOrdinal, destructiveCount, logVars, pc, loopVars, toHeal,
                 ghostVars>>

Terminated == At("main", "over") /\ UNCHANGED vars

Next == Engine \/ Main \/ TimerFires \/ Terminated

\* Both threads are scheduled, waits end, and the timer fires.
Fairness == WF_vars(Engine) /\ WF_vars(Main) /\ WF_vars(TimerFires)

Spec == Init /\ [][Next]_vars /\ Fairness

-----------------------------------------------------------------------------
(* What the engine promises.                                               *)

\* The destructive actions injected and not yet healed.
Outstanding == {a \in injected : a.class \in Destructive} \ healed

\* Never are more destructive actions outstanding than the limit allows, over
\* combos, parallel injections, cycles and failing heals
\* (_filter_by_destructive_limit and the counter that _inject_complex_fault
\* and _heal_all_active keep).
DestructiveWithinLimit ==
  MaxDestructive # NoLimit => Cardinality(Outstanding) <= MaxDestructive

\* When the main thread is done with heal_all nothing is left on the cluster
\* but the effects of actions whose heal failed, wherever the engine thread
\* was interrupted by stop(), by its timer or by an exception.
CleanAtEnd == At("main", "over") => effects \subseteq failedHeals

\* Every effect on the cluster has its line in the scenario log, so a log cut
\* off by a crash names all there is to heal (_log_and_execute writes first).
LoggedBeforeEffect == effects \subseteq injected

\* No action is healed twice, by the engine and by heal_all or by two cycles
\* (_heal_all_active works on a copy and clears the list).
NotHealedTwice == \A t \in Threads : toHeal[t] \cap (healed \cup failedHeals) = {}

\* Between two cycles every "+" line of the scenario log has its "-" line,
\* also if a heal failed (_heal_all_active).
BalancedBetweenCycles ==
  pc["engine"] \in {"cycle", "pause_wait"} =>
     healLogged = {a \in injected : a.class \in Healable}

Settled == healed \cup failedHeals

Ledger == INSTANCE FaultLedger WITH outstanding <- injected \ Settled,
                                    settled     <- Settled,
                                    closed      <- At("main", "over")

\* The engine keeps the account of FaultLedger: from its line in the log on,
\* every action is healed or given up exactly once, by whichever thread, before
\* heal_all returns, and nothing is injected after that.
KeepsLedger == Ledger!Spec

\* The run ends, also if stop() comes before run_random clears the event: the
\* timer then ends it.
Termination == <>At("main", "over")
=============================================================================
