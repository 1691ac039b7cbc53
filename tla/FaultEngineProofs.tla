-------------------------- MODULE FaultEngineProofs --------------------------
(***************************************************************************)
(* Proofs about FaultEngine, for every set of classes, every limit, every  *)
(* number of cycles and every choice of what may fail.                     *)
(***************************************************************************)
EXTENDS FaultEngine, FiniteSetTheorems, TLAPS

\* Thread t is in _heal_all_active.
Healing(t) == pc[t] \in {"heal", "heal_wait"}

\* Who may be where: the engine thread is started by the main thread, which
\* heals only after having joined it.
Order ==
  /\ pc["main"] = "new" => pc["engine"] = "new"
  /\ pc["main"] \in {"heal", "heal_wait", "over"} => pc["engine"] = "over"
  /\ pc["main"] = "over" => active = {}
  /\ pc["engine"] # "execute" => current = {}

\* The actions whose heal() is still to come.
ToCome == IF Healing("engine") THEN toHeal["engine"]
          ELSE IF Healing("main") THEN toHeal["main"]
          ELSE active

\* What the engine tracks has been injected, and is healed only once.
Tracking ==
  /\ active \subseteq injected
  /\ current \subseteq injected
  /\ current \cap (healed \cup failedHeals) = {}
  /\ \A t \in Threads : ~Healing(t) => toHeal[t] = {}
  /\ ToCome \subseteq injected
  /\ ToCome \cap (healed \cup failedHeals) = {}
  /\ healed \subseteq injected
  /\ failedHeals \subseteq injected
  /\ effects \subseteq failedHeals \cup ToCome

\* No two fault actions share an ordinal, from which the names of their chains
\* are made (_get_next_ordinal).
OrdinalsUnique == \A a, b \in injected : a.ordinal = b.ordinal => a = b

Ordinals ==
  /\ \A a \in injected : a.ordinal <= nextOrdinal
  /\ OrdinalsUnique

Counting ==
  /\ IsFiniteSet(injected)
  /\ destructiveCount = Cardinality(Outstanding)
  /\ DestructiveWithinLimit

IInv == Order /\ Tracking /\ Ordinals /\ Counting

-----------------------------------------------------------------------------
\* Every variable stays in its type (the fields of FaultEngine, the log, the
\* states of the threads).
THEOREM TypeCorrect == Spec => []TypeOK
<1>1. Init => TypeOK
  <2> SUFFICES ASSUME Init PROVE TypeOK
    OBVIOUS
  <2>1. /\ pc \in [Threads -> EngineState \cup MainState]
        /\ pc["engine"] \in EngineState
        /\ pc["main"] \in MainState
    BY DEF Init, Threads, EngineState, MainState
  <2>2. toHeal \in [Threads -> SUBSET Action]
    BY DEF Init, Threads
  <2>3. stopEvent \in BOOLEAN /\ logOpen \in BOOLEAN
    BY Zenon DEF Init
  <2>4. slot \in 0 .. ParallelFaults /\ comboLeft \in 0 .. MaxCombo
    BY ConstantsAssumption DEF Init
  <2> QED
    BY <2>1, <2>2, <2>3, <2>4 DEF Init, TypeOK
<1>2. TypeOK /\ [Next]_vars => TypeOK'
  <2> SUFFICES ASSUME TypeOK, [Next]_vars
               PROVE  TypeOK'
    OBVIOUS
  <2> USE ConstantsAssumption
          DEF TypeOK, Threads, EngineState, MainState, At, Go, BeginWait,
              logVars, loopVars, ghostVars
  <2>1. CASE RunRandom \/ RunRandomFails \/ BeginCycle
    <3>1. stopEvent' \in BOOLEAN /\ logOpen' \in BOOLEAN
      BY <2>1, Zenon DEF RunRandom, RunRandomFails, BeginCycle
    <3>2. CASE RunRandom
      BY <3>1, <3>2 DEF RunRandom
    <3>3. CASE RunRandomFails
      BY <3>1, <3>3 DEF RunRandomFails
    <3>4. CASE BeginCycle
      BY <3>1, <3>4 DEF BeginCycle
    <3> QED
      BY <2>1, <3>2, <3>3, <3>4
  <2>2. CASE BeginInjection \/ NothingAvailable \/ ConstructFails
    <3>1. slot' \in 0 .. ParallelFaults
      BY <2>2 DEF BeginInjection, NothingAvailable, ConstructFails
    <3>2. comboLeft' \in 0 .. MaxCombo /\ pool' \subseteq Classes
      BY <2>2 DEF BeginInjection, NothingAvailable, ConstructFails
    <3> QED
      BY <2>2, <3>1, <3>2 DEF BeginInjection, NothingAvailable, ConstructFails
  <2>3. ASSUME NEW c \in Classes, Choose(c)
        PROVE  TypeOK'
    <3>1. [class |-> c, ordinal |-> nextOrdinal + 1] \in Action
      BY DEF Action
    <3> QED
      BY <2>3, <3>1 DEF Choose
  <2>4. CASE Execute
    <3>1. effects' \subseteq Action /\ active' \subseteq Action /\ current' \subseteq Action
      BY <2>4 DEF Execute
    <3>2. comboLeft' \in 0 .. MaxCombo /\ nextOrdinal' \in Nat
      BY <2>4 DEF Execute
    <3>3. /\ pc' \in [Threads -> EngineState \cup MainState]
          /\ pc'["engine"] \in EngineState
          /\ pc'["main"] \in MainState
      BY <2>4 DEF Execute
    <3> QED
      BY <2>4, <3>1, <3>2, <3>3 DEF Execute
  <2>5. CASE EndComboWait \/ BeginSlotWait \/ EndSlotWait \/ BeginActiveWait
    <3>1. /\ pc' \in [Threads -> EngineState \cup MainState]
          /\ pc'["engine"] \in EngineState
          /\ pc'["main"] \in MainState
      BY <2>5 DEF EndComboWait, BeginSlotWait, EndSlotWait, BeginActiveWait
    <3>2. CASE EndComboWait
      BY <3>1, <3>2 DEF EndComboWait
    <3>3. CASE BeginSlotWait
      BY <3>1, <3>3 DEF BeginSlotWait
    <3>4. CASE EndSlotWait
      BY <3>1, <3>4 DEF EndSlotWait
    <3>5. CASE BeginActiveWait
      BY <3>1, <3>5 DEF BeginActiveWait
    <3> QED
      BY <2>5, <3>2, <3>3, <3>4, <3>5
  <2>6. CASE EndActiveWait \/ EndPauseWait \/ LeaveLoop \/ Close
    <3>1. /\ pc' \in [Threads -> EngineState \cup MainState]
          /\ pc'["engine"] \in EngineState
          /\ pc'["main"] \in MainState
      BY <2>6 DEF EndActiveWait, EndPauseWait, LeaveLoop, Close
    <3>2. CASE EndActiveWait
      BY <3>1, <3>2 DEF EndActiveWait
    <3>3. CASE EndPauseWait
      BY <3>1, <3>3 DEF EndPauseWait
    <3>4. CASE LeaveLoop
      BY <3>1, <3>4 DEF LeaveLoop
    <3>5. CASE Close
      BY <3>1, <3>5 DEF Close
    <3> QED
      BY <2>6, <3>2, <3>3, <3>4, <3>5
  <2>7. ASSUME NEW t \in Threads, NEW a \in toHeal[t], Heal(t, a)
        PROVE  TypeOK'
    <3>1. a \in Action
      OBVIOUS
    <3>2. /\ effects' \subseteq Action
          /\ healed' \subseteq Action
          /\ failedHeals' \subseteq Action
          /\ destructiveCount' \in Int
      BY <2>7, <3>1 DEF Heal, HealReturns, HealRaises
    <3>3. /\ healLogged' \subseteq Action
          /\ nextOrdinal' \in Nat
          /\ toHeal' \in [Threads -> SUBSET Action]
          /\ pc' \in [Threads -> EngineState \cup MainState]
          /\ pc'["engine"] \in EngineState
          /\ pc'["main"] \in MainState
      BY <2>7, <3>1 DEF Heal
    <3> QED
      BY <2>7, <3>2, <3>3 DEF Heal
  <2>8. ASSUME NEW t \in Threads, EndHealWait(t) \/ EndHeal(t)
        PROVE  TypeOK'
    BY <2>8 DEF EndHealWait, EndHeal
  <2>9. CASE StartThread \/ Stop \/ Join
    <3>1. CASE StartThread
      <4>1. /\ pc' \in [Threads -> EngineState \cup MainState]
            /\ pc'["engine"] \in EngineState
            /\ pc'["main"] \in MainState
        BY <3>1 DEF StartThread
      <4> QED
        BY <3>1, <4>1 DEF StartThread
    <3>2. CASE Stop
      <4>1. /\ pc' \in [Threads -> EngineState \cup MainState]
            /\ pc'["engine"] \in EngineState
            /\ pc'["main"] \in MainState
        BY <3>2 DEF Stop
      <4> QED
        BY <3>2, <4>1 DEF Stop
    <3>3. CASE Join
      <4>1. toHeal' \in [Threads -> SUBSET Action]
        BY <3>3 DEF Join
      <4> QED
        BY <3>3, <4>1 DEF Join
    <3> QED
      BY <2>9, <3>1, <3>2, <3>3
  <2>10. CASE TimerFires \/ Terminated \/ UNCHANGED vars
    BY <2>10 DEF TimerFires, Terminated, vars
  <2> QED
    BY <2>1, <2>2, <2>3, <2>4, <2>5, <2>6, <2>7, <2>8, <2>9, <2>10
       DEF Next, Engine, Main, HealStep
<1> QED
  BY <1>1, <1>2, PTL DEF Spec

-----------------------------------------------------------------------------
(* The steps, sorted by what they do to the variables of IInv.             *)

\* Nothing but the control of the engine thread changes.
Moves ==
  /\ UNCHANGED <<active, destructiveCount, injected, current, toHeal, ghostVars>>
  /\ nextOrdinal' \in {nextOrdinal, nextOrdinal + 1}
  /\ pc["engine"] \notin {"execute", "heal", "over"}
  /\ pc' = [pc EXCEPT !["engine"] = pc'["engine"]]
  /\ pc'["engine"] \notin {"new", "execute", "heal", "heal_wait"}

\* The engine's own steps that are neither Choose, Execute nor healing.
LEMMA EngineMoves ==
  ASSUME TypeOK,
         \/ RunRandom \/ RunRandomFails \/ BeginCycle \/ BeginInjection
         \/ NothingAvailable \/ ConstructFails \/ EndComboWait \/ BeginSlotWait
         \/ EndSlotWait \/ BeginActiveWait \/ (EndActiveWait /\ stopEvent)
         \/ EndPauseWait \/ LeaveLoop \/ Close
  PROVE  Moves /\ pc["engine"] \notin {"new", "heal_wait"}
<1> USE DEF TypeOK, Threads, Moves, At, Go, BeginWait, logVars, loopVars, ghostVars
<1>1. CASE RunRandom \/ RunRandomFails \/ BeginCycle \/ BeginInjection
  BY <1>1 DEF RunRandom, RunRandomFails, BeginCycle, BeginInjection
<1>2. CASE NothingAvailable \/ ConstructFails \/ EndComboWait \/ BeginSlotWait
  BY <1>2 DEF NothingAvailable, ConstructFails, EndComboWait, BeginSlotWait
<1>3. CASE EndSlotWait \/ BeginActiveWait \/ (EndActiveWait /\ stopEvent)
  BY <1>3 DEF EndSlotWait, BeginActiveWait, EndActiveWait
<1>4. CASE EndPauseWait \/ LeaveLoop \/ Close
  BY <1>4 DEF EndPauseWait, LeaveLoop, Close
<1> QED
  BY <1>1, <1>2, <1>3, <1>4

-----------------------------------------------------------------------------
(* IInv is inductive.                                                      *)

\* Order and Tracking do not read the counters, so the steps that change none
\* of the variables they read preserve IInv if the ordinals do not go back.
LEMMA FrameStep ==
  ASSUME TypeOK, TypeOK', Counting, Ordinals,
         UNCHANGED <<destructiveCount, injected, healed>>, nextOrdinal' >= nextOrdinal
  PROVE  Counting' /\ Ordinals'
<1>1. Counting'
  BY DEF Counting, DestructiveWithinLimit, Outstanding
<1>2. Ordinals'
  BY DEF Ordinals, OrdinalsUnique, TypeOK, Action
<1> QED
  BY <1>1, <1>2

LEMMA MovesStep ==
  ASSUME TypeOK, TypeOK', IInv, Moves, pc["engine"] \notin {"new", "heal_wait"}
  PROVE  IInv'
<1>1. Counting' /\ Ordinals'
  BY FrameStep DEF IInv, Moves, TypeOK, ghostVars
<1>2. Order'
  BY DEF IInv, Order, Moves, TypeOK, Threads
<1>3. Tracking'
  <2>1. \A t \in Threads : Healing(t)' = Healing(t)
    BY DEF Moves, Healing, TypeOK, Threads
  <2>2. ToCome' = ToCome
    BY <2>1 DEF ToCome, Moves, Threads
  <2> QED
    BY <2>1, <2>2 DEF IInv, Tracking, Moves, ghostVars
<1> QED
  BY <1>1, <1>2, <1>3 DEF IInv

\* The limit is tested before the counter goes up, and the new action is new
\* because its ordinal is.
LEMMA ChooseStep ==
  ASSUME TypeOK, TypeOK', IInv, NEW c \in Classes, Choose(c)
  PROVE  IInv'
<1> DEFINE new == [class |-> c, ordinal |-> nextOrdinal + 1]
<1> USE DEF IInv
<1>1. /\ injected' = injected \cup {new}
      /\ current' = {new}
      /\ pc' = [pc EXCEPT !["engine"] = "execute"]
      /\ pc["engine"] = "choose"
      /\ nextOrdinal' = nextOrdinal + 1
      /\ UNCHANGED <<active, toHeal, effects, healed, failedHeals>>
  BY DEF Choose, Go, At, ghostVars
<1>2. new \in Action /\ new.ordinal = nextOrdinal + 1 /\ new.class = c
  BY DEF Action, TypeOK
<1>3. new \notin injected
  BY <1>2 DEF Ordinals, TypeOK, Action
<1>4. Order'
  BY <1>1 DEF Order, TypeOK, Threads
<1>5. Tracking'
  <2>1. \A t \in Threads : Healing(t)' = Healing(t)
    BY <1>1 DEF Healing, TypeOK, Threads
  <2>2. ToCome' = ToCome
    BY <1>1, <2>1 DEF ToCome, Threads
  <2> QED
    BY <1>1, <1>3, <2>1, <2>2 DEF Tracking
<1>6. Ordinals'
  BY <1>1, <1>2 DEF Ordinals, OrdinalsUnique, TypeOK, Action
<1>7. Counting'
  <2>1. IsFiniteSet(injected') /\ IsFiniteSet(Outstanding)
    BY <1>1, FS_AddElement, FS_Subset DEF Counting, Outstanding
  <2>2. CASE c \in Destructive
    <3>1. Outstanding' = Outstanding \cup {new} /\ new \notin Outstanding
      BY <1>1, <1>2, <1>3, <2>2 DEF Outstanding, Tracking
    <3>2. Cardinality(Outstanding') = Cardinality(Outstanding) + 1
      BY <2>1, <3>1, FS_AddElement
    <3>3. destructiveCount' = destructiveCount + 1
      BY <2>2 DEF Choose
    <3>4. MaxDestructive # NoLimit => destructiveCount < MaxDestructive
      BY <2>1, <2>2, FS_CardinalityType, ConstantsAssumption
         DEF Choose, FilterByLimit, Counting
    <3> QED
      BY <2>1, <3>2, <3>3, <3>4, FS_CardinalityType, ConstantsAssumption
         DEF Counting, DestructiveWithinLimit
  <2>3. CASE c \notin Destructive
    <3>1. Outstanding' = Outstanding
      BY <1>1, <1>2, <2>3 DEF Outstanding
    <3>2. destructiveCount' = destructiveCount
      BY <2>3 DEF Choose, TypeOK
    <3> QED
      BY <2>1, <3>1, <3>2 DEF Counting, DestructiveWithinLimit
  <2> QED
    BY <2>2, <2>3
<1> QED
  BY <1>4, <1>5, <1>6, <1>7

LEMMA ExecuteStep ==
  ASSUME TypeOK, TypeOK', IInv, Execute
  PROVE  IInv'
<1> USE DEF IInv
<1>1. /\ pc["engine"] = "execute"
      /\ pc' = [pc EXCEPT !["engine"] = pc'["engine"]]
      /\ pc'["engine"] \in {"combo_wait", "slot_end"}
      /\ nextOrdinal' \in {nextOrdinal, nextOrdinal + 1}
      /\ active' = active \cup current
      /\ current' = {}
      /\ effects' \subseteq effects \cup current
      /\ UNCHANGED <<injected, destructiveCount, toHeal, healed, failedHeals>>
  BY DEF Execute, At, Go, BeginWait, logVars, TypeOK, Threads
<1>2. Counting' /\ Ordinals'
  BY <1>1, FrameStep DEF TypeOK
<1>3. Order'
  BY <1>1 DEF Order, TypeOK, Threads
<1>4. Tracking'
  <2>1. \A t \in Threads : Healing(t)' = Healing(t) /\ ~Healing(t)
    BY <1>1 DEF Healing, TypeOK, Threads, Order
  <2>2. ToCome = active /\ ToCome' = active'
    BY <2>1 DEF ToCome, Threads
  <2> QED
    BY <1>1, <2>1, <2>2 DEF Tracking
<1> QED
  BY <1>2, <1>3, <1>4

\* A thread takes its copy of _active_faults.
LEMMA StartHealStep ==
  ASSUME TypeOK, TypeOK', IInv, (EndActiveWait /\ ~stopEvent) \/ Join
  PROVE  IInv'
<1> USE DEF IInv
<1>1. PICK t \in Threads :
        /\ \/ t = "engine" /\ pc["engine"] = "active_wait" 
           \/ t = "main" /\ pc["main"] = "join" /\ pc["engine"] = "over"
        /\ pc' = [pc EXCEPT ![t] = "heal"]
        /\ toHeal' = [toHeal EXCEPT ![t] = active]
        /\ UNCHANGED <<active, current, injected, destructiveCount, nextOrdinal,
                       effects, healed, failedHeals>>
  BY DEF EndActiveWait, Join, At, Go, logVars, ghostVars, loopVars, Threads
<1>2. Counting' /\ Ordinals'
  BY <1>1, FrameStep DEF TypeOK
<1>3. Order'
  BY <1>1 DEF Order, TypeOK, Threads
<1>4. Tracking'
  <2>1. \A u \in Threads : ~Healing(u) /\ (Healing(u)' <=> u = t)
    BY <1>1 DEF Healing, TypeOK, Threads, Order
  <2>2. ToCome = active /\ ToCome' = active'
    BY <1>1, <2>1 DEF ToCome, Threads, TypeOK
  <2> QED
    BY <1>1, <2>1, <2>2 DEF Tracking, TypeOK
<1> QED
  BY <1>2, <1>3, <1>4

\* The healing thread is the only one, and toHeal[t] is what is to come.
LEMMA OneHealer ==
  ASSUME TypeOK, Order, NEW t \in Threads, Healing(t)
  PROVE  ToCome = toHeal[t] /\ \A u \in Threads : Healing(u) => u = t
BY DEF TypeOK, Order, Healing, ToCome, Threads

LEMMA HealOneStep ==
  ASSUME TypeOK, TypeOK', IInv, NEW t \in Threads, NEW a \in toHeal[t], Heal(t, a)
  PROVE  IInv'
<1> USE DEF IInv
<1>1. /\ pc[t] = "heal"
      /\ pc' = [pc EXCEPT ![t] = pc'[t]]
      /\ pc'[t] \in {"heal", "heal_wait"}
      /\ nextOrdinal' \in {nextOrdinal, nextOrdinal + 1}
      /\ toHeal' = [toHeal EXCEPT ![t] = @ \ {a}]
      /\ UNCHANGED <<active, current, injected>>
  BY DEF Heal, At, Go, BeginWait, loopVars, TypeOK, Threads
<1>2. \/ /\ healed' = healed \cup {a}
         /\ failedHeals' \in {failedHeals, failedHeals \cup {a}}
         /\ destructiveCount' = destructiveCount - (IF a.class \in Destructive THEN 1 ELSE 0)
         /\ effects' \subseteq effects
         /\ a \in effects' => a \in failedHeals'
      \/ /\ UNCHANGED <<healed, destructiveCount>>
         /\ failedHeals' = failedHeals \cup {a}
         /\ effects' \subseteq effects
  BY DEF Heal, HealReturns, HealRaises
<1>3. /\ Healing(t)
      /\ \A u \in Threads : Healing(u)' = Healing(u)
  BY <1>1 DEF Healing, TypeOK, Threads
<1>4. /\ ToCome = toHeal[t]
      /\ \A u \in Threads : Healing(u) => u = t
  BY <1>3, OneHealer
<1>5. ToCome' = ToCome \ {a}
  BY <1>1, <1>3, <1>4 DEF ToCome, Threads, TypeOK
<1>6. a \in injected /\ a \notin healed /\ a \notin failedHeals
  BY <1>4 DEF Tracking
<1>7. Order'
  BY <1>1 DEF Order, TypeOK, Threads
<1>8. Tracking'
  <2>1. current' \cap (healed' \cup failedHeals') = {}
    BY <1>1, <1>3 DEF Order, Tracking, Healing, Threads
  <2>2. \A u \in Threads : ~Healing(u)' => toHeal'[u] = {}
    BY <1>1, <1>3, <1>4 DEF Tracking, TypeOK
  <2>3. /\ healed' \subseteq injected'
        /\ failedHeals' \subseteq injected'
        /\ effects' \subseteq failedHeals' \cup ToCome'
        /\ ToCome' \cap (healed' \cup failedHeals') = {}
    BY <1>1, <1>2, <1>5, <1>6 DEF Tracking
  <2> QED
    BY <1>1, <1>5, <2>1, <2>2, <2>3 DEF Tracking
<1>9. Ordinals'
  BY <1>1 DEF Ordinals, OrdinalsUnique, TypeOK, Action
<1>10. Counting'
  <2>1. IsFiniteSet(injected') /\ IsFiniteSet(Outstanding)
    BY <1>1, FS_Subset DEF Counting, Outstanding
  <2>2. CASE healed' = healed \cup {a} /\ a.class \in Destructive
    <3>1. Outstanding' = Outstanding \ {a} /\ a \in Outstanding
      BY <1>1, <1>6, <2>2 DEF Outstanding
    <3>2. Cardinality(Outstanding') = Cardinality(Outstanding) - 1
      BY <2>1, <3>1, FS_RemoveElement
    <3>3. destructiveCount' = destructiveCount - 1
      BY <1>2, <1>6, <2>2
    <3> QED
      BY <2>1, <3>2, <3>3, FS_CardinalityType, ConstantsAssumption
         DEF Counting, DestructiveWithinLimit
  <2>3. CASE ~(healed' = healed \cup {a} /\ a.class \in Destructive)
    <3>1. Outstanding' = Outstanding
      BY <1>1, <1>2, <2>3 DEF Outstanding
    <3>2. destructiveCount' = destructiveCount
      BY <1>2, <2>3 DEF TypeOK
    <3> QED
      BY <2>1, <3>1, <3>2 DEF Counting, DestructiveWithinLimit
  <2> QED
    BY <2>2, <2>3
<1> QED
  BY <1>7, <1>8, <1>9, <1>10

LEMMA EndHealStep ==
  ASSUME TypeOK, TypeOK', IInv, NEW t \in Threads, EndHealWait(t) \/ EndHeal(t)
  PROVE  IInv'
<1> USE DEF IInv
<1>1. /\ UNCHANGED <<injected, current, toHeal, destructiveCount, effects, healed,
                     failedHeals>>
      /\ nextOrdinal' \in {nextOrdinal, nextOrdinal + 1}
  BY DEF EndHealWait, EndHeal, logVars, loopVars, ghostVars, BeginWait
<1>2. Counting' /\ Ordinals'
  BY <1>1, FrameStep DEF TypeOK
<1>3. CASE EndHealWait(t)
  <2>1. /\ pc[t] = "heal_wait"
        /\ pc' = [pc EXCEPT ![t] = "heal"]
        /\ active' = active
    BY <1>3 DEF EndHealWait, At, Go
  <2>2. \A u \in Threads : Healing(u)' = Healing(u)
    BY <2>1 DEF Healing, TypeOK, Threads
  <2>3. ToCome' = ToCome
    BY <1>1, <2>1, <2>2 DEF ToCome, Threads
  <2>4. Order'
    BY <1>1, <2>1 DEF Order, TypeOK, Threads
  <2>5. Tracking'
    BY <1>1, <2>1, <2>2, <2>3 DEF Tracking
  <2> QED
    BY <1>2, <2>4, <2>5
<1>4. CASE EndHeal(t)
  <2>1. /\ pc[t] = "heal"
        /\ toHeal[t] = {}
        /\ active' = {}
        /\ pc' = [pc EXCEPT ![t] = IF t = "engine" THEN "pause_wait" ELSE "over"]
    BY <1>4 DEF EndHeal, At, Go, BeginWait
  <2>2. ToCome = {} /\ \A u \in Threads : Healing(u) => u = t
    BY <2>1, OneHealer DEF Healing
  <2>3. \A u \in Threads : ~Healing(u)'
    BY <2>1, <2>2 DEF Healing, TypeOK, Threads
  <2>4. ToCome' = {}
    BY <2>1, <2>3 DEF ToCome, Threads
  <2>5. Order'
    BY <1>1, <2>1 DEF Order, TypeOK, Threads
  <2>6. toHeal' = toHeal /\ \A u \in Threads : toHeal[u] = {}
    BY <1>1, <2>1, <2>2 DEF Tracking, Threads
  <2>7. Tracking'
    BY <1>1, <2>1, <2>2, <2>4, <2>6 DEF Tracking
  <2> QED
    BY <1>2, <2>5, <2>7
<1> QED
  BY <1>3, <1>4

\* The remaining steps of the main thread, and the timer.
LEMMA ControlStep ==
  ASSUME TypeOK, TypeOK', IInv,
         StartThread \/ Stop \/ TimerFires \/ Terminated \/ UNCHANGED vars
  PROVE  IInv'
<1> USE DEF IInv
<1>1. /\ UNCHANGED <<active, injected, current, toHeal, destructiveCount, nextOrdinal,
                     effects, healed, failedHeals>>
      /\ \/ pc' = pc
         \/ pc["main"] = "new" /\ pc' = [pc EXCEPT !["main"] = "write", !["engine"] = "started"]
         \/ pc["main"] = "write" /\ pc' = [pc EXCEPT !["main"] = "join"]
  BY DEF StartThread, Stop, TimerFires, Terminated, vars, logVars, loopVars, ghostVars,
         At, Go
<1>2. Counting' /\ Ordinals'
  BY <1>1, FrameStep DEF TypeOK
<1>3. Order'
  BY <1>1 DEF Order, TypeOK, Threads
<1>4. \A u \in Threads : Healing(u)' = Healing(u)
  BY <1>1 DEF Healing, TypeOK, Threads, Order
<1>5. ToCome' = ToCome
  BY <1>1, <1>4 DEF ToCome, Threads
<1>6. Tracking'
  BY <1>1, <1>4, <1>5 DEF Tracking
<1> QED
  BY <1>2, <1>3, <1>6

\* The inductive invariant holds throughout.
THEOREM Inductive == Spec => []IInv
<1>1. Init => IInv
  <2> SUFFICES ASSUME Init PROVE IInv
    OBVIOUS
  <2>1. Order /\ Tracking /\ Ordinals
    BY DEF Init, Order, Tracking, Ordinals, OrdinalsUnique, ToCome, Healing, Threads
  <2>2. Outstanding = {} /\ Cardinality({}) = 0 /\ IsFiniteSet({})
    BY FS_EmptySet DEF Init, Outstanding
  <2>3. Counting
    BY <2>2, ConstantsAssumption DEF Init, Counting, DestructiveWithinLimit
  <2> QED
    BY <2>1, <2>3 DEF IInv
<1>2. TypeOK /\ TypeOK' /\ IInv /\ [Next]_vars => IInv'
  <2> SUFFICES ASSUME TypeOK, TypeOK', IInv, [Next]_vars
               PROVE  IInv'
    OBVIOUS
  <2>1. CASE \/ RunRandom \/ RunRandomFails \/ BeginCycle \/ BeginInjection
             \/ NothingAvailable \/ ConstructFails \/ EndComboWait \/ BeginSlotWait
             \/ EndSlotWait \/ BeginActiveWait \/ (EndActiveWait /\ stopEvent)
             \/ EndPauseWait \/ LeaveLoop \/ Close
    BY <2>1, EngineMoves, MovesStep
  <2>2. CASE \E c \in Classes : Choose(c)
    BY <2>2, ChooseStep
  <2>3. CASE Execute
    BY <2>3, ExecuteStep
  <2>4. CASE (EndActiveWait /\ ~stopEvent) \/ Join
    BY <2>4, StartHealStep
  <2>5. CASE \E t \in Threads : HealStep(t)
    BY <2>5, HealOneStep, EndHealStep DEF HealStep
  <2>6. CASE StartThread \/ Stop \/ TimerFires \/ Terminated \/ UNCHANGED vars
    BY <2>6, ControlStep
  <2> QED
    BY <2>1, <2>2, <2>3, <2>4, <2>5, <2>6 DEF Next, Engine, Main, Threads
<1> QED
  BY <1>1, <1>2, TypeCorrect, PTL DEF Spec

-----------------------------------------------------------------------------
(* What follows from it.                                                   *)

\* At no time are more destructive actions outstanding than the limit allows
\* (_filter_by_destructive_limit and _destructive_count).
THEOREM LimitHolds == Spec => []DestructiveWithinLimit
<1>1. IInv => DestructiveWithinLimit
  BY DEF IInv, Counting
<1> QED
  BY <1>1, Inductive, PTL

\* After heal_all the cluster carries no effect but those of failed heals
\* (heal_all, called by the main thread once the engine thread has ended).
THEOREM CleanUp == Spec => []CleanAtEnd
<1>1. TypeOK /\ IInv => CleanAtEnd
  BY DEF IInv, Order, Tracking, CleanAtEnd, At, ToCome, Healing, Threads
<1> QED
  BY <1>1, Inductive, TypeCorrect, PTL

\* An effect on the cluster has its line in the scenario log
\* (_log_and_execute writes before it executes).
THEOREM WriteAhead == Spec => []LoggedBeforeEffect
<1>1. IInv => LoggedBeforeEffect
  BY DEF IInv, Tracking, LoggedBeforeEffect
<1> QED
  BY <1>1, Inductive, PTL

\* No action is healed twice (_heal_all_active and the clearing of its list).
THEOREM HealedOnce == Spec => []NotHealedTwice
<1>1. TypeOK /\ IInv => NotHealedTwice
  <2> SUFFICES ASSUME TypeOK, IInv, NEW t \in Threads
               PROVE  toHeal[t] \cap (healed \cup failedHeals) = {}
    BY DEF NotHealedTwice
  <2>1. CASE Healing(t)
    BY <2>1, OneHealer DEF IInv, Tracking
  <2>2. CASE ~Healing(t)
    BY <2>2 DEF IInv, Tracking
  <2> QED
    BY <2>1, <2>2
<1> QED
  BY <1>1, Inductive, TypeCorrect, PTL

\* No two fault actions share an ordinal (_get_next_ordinal).
THEOREM UniqueOrdinals == Spec => []OrdinalsUnique
<1>1. IInv => OrdinalsUnique
  BY DEF IInv, Ordinals
<1> QED
  BY <1>1, Inductive, PTL

-----------------------------------------------------------------------------
(* Nothing is forgotten: the account and the log.                          *)

\* What is not settled is tracked, and what is tracked has no "-" line yet.
Account ==
  /\ injected \ Settled \subseteq current \cup ToCome
  /\ pc["engine"] \in {"new", "started"} => injected = {} /\ healLogged = {}
  /\ pc["engine"] \in {"new", "started", "cycle", "pause_wait"} => active = {}
  /\ pc["engine"] \notin {"new", "started", "over"} =>
       logOpen /\ healLogged = {a \in injected : a.class \in Healable} \ (current \cup ToCome)

LEMMA AccountMoves ==
  ASSUME TypeOK, IInv, Account, pc["engine"] \notin {"new", "heal_wait"},
         Moves, UNCHANGED healLogged,
         \/ pc'["engine"] = "over"
         \/ logOpen' = logOpen /\ pc["engine"] # "started"
         \/ logOpen' = TRUE /\ pc'["engine"] = "cycle" /\ pc["engine"] = "started",
         pc'["engine"] # "started",
         pc'["engine"] \in {"cycle", "pause_wait"} =>
           pc["engine"] \in {"started", "cycle", "pause_wait"}
  PROVE  Account'
<1>1. \A t \in Threads : Healing(t)' = Healing(t)
  BY DEF Moves, Healing, TypeOK, Threads
<1>2. ToCome' = ToCome
  BY <1>1 DEF ToCome, Moves, Threads
<1>3. UNCHANGED <<injected, current, active, Settled>>
  BY DEF Moves, Settled, ghostVars
<1>4. CASE pc["engine"] = "started"
  <2>1. ToCome = {} /\ current = {} /\ injected = {} /\ healLogged = {}
    BY <1>4 DEF ToCome, Healing, Account, IInv, Order, Tracking, Threads
  <2> QED
    BY <1>2, <1>3, <1>4, <2>1 DEF Account, Moves
<1>5. CASE pc["engine"] # "started"
  BY <1>2, <1>3, <1>5 DEF Account, Moves
<1> QED
  BY <1>4, <1>5

LEMMA AccountStep ==
  ASSUME TypeOK, TypeOK', IInv, IInv', Account, [Next]_vars
  PROVE  Account'
<1> USE DEF IInv
<1>1. CASE \/ RunRandom \/ RunRandomFails \/ BeginCycle \/ BeginInjection
           \/ NothingAvailable \/ ConstructFails \/ EndComboWait \/ BeginSlotWait
           \/ EndSlotWait \/ BeginActiveWait \/ (EndActiveWait /\ stopEvent)
           \/ EndPauseWait \/ LeaveLoop \/ Close
  <2> USE DEF TypeOK, Threads, At, Go, BeginWait, logVars
  <2>1. Moves /\ pc["engine"] \notin {"new", "heal_wait"}
    BY <1>1, EngineMoves
  <2>2. CASE RunRandom \/ RunRandomFails \/ Close
    BY <2>1, <2>2, AccountMoves DEF RunRandom, RunRandomFails, Close
  <2>3. CASE BeginCycle \/ BeginInjection \/ NothingAvailable \/ ConstructFails
    BY <2>1, <2>3, AccountMoves
       DEF BeginCycle, BeginInjection, NothingAvailable, ConstructFails
  <2>4. CASE EndComboWait \/ BeginSlotWait \/ EndSlotWait \/ BeginActiveWait
    BY <2>1, <2>4, AccountMoves
       DEF EndComboWait, BeginSlotWait, EndSlotWait, BeginActiveWait
  <2>5. CASE (EndActiveWait /\ stopEvent) \/ EndPauseWait \/ LeaveLoop
    BY <2>1, <2>5, AccountMoves DEF EndActiveWait, EndPauseWait, LeaveLoop
  <2> QED
    BY <1>1, <2>2, <2>3, <2>4, <2>5
<1>2. ASSUME NEW c \in Classes, Choose(c)
      PROVE  Account'
  <2> DEFINE new == [class |-> c, ordinal |-> nextOrdinal + 1]
  <2>1. /\ injected' = injected \cup {new}
        /\ current' = {new}
        /\ pc' = [pc EXCEPT !["engine"] = "execute"]
        /\ pc["engine"] = "choose"
        /\ UNCHANGED <<active, toHeal, healed, failedHeals, healLogged, logOpen>>
    BY <1>2 DEF Choose, Go, At, ghostVars
  <2>2. current = {}
    BY <2>1 DEF Order
  <2>3. new \notin injected
    BY DEF Ordinals, TypeOK, Action
  <2>4. \A t \in Threads : Healing(t)' = Healing(t)
    BY <2>1 DEF Healing, TypeOK, Threads
  <2>5. ToCome' = ToCome
    BY <2>1, <2>4 DEF ToCome, Threads
  <2>6. pc'["engine"] = "execute"
    BY <2>1 DEF TypeOK, Threads
  <2>7. healLogged = {a \in injected : a.class \in Healable} \ ToCome /\ logOpen
    BY <2>1, <2>2 DEF Account
  <2>8. {a \in injected' : a.class \in Healable} \ (current' \cup ToCome')
          = {a \in injected : a.class \in Healable} \ ToCome
    BY <2>1, <2>3, <2>5
  <2> QED
    BY <2>1, <2>2, <2>5, <2>6, <2>7, <2>8 DEF Account, Settled
<1>3. CASE Execute
  <2>1. /\ pc["engine"] = "execute"
        /\ pc' = [pc EXCEPT !["engine"] = pc'["engine"]]
        /\ pc'["engine"] \in {"combo_wait", "slot_end"}
        /\ active' = active \cup current
        /\ current' = {}
        /\ UNCHANGED <<injected, toHeal, healed, failedHeals, healLogged, logOpen>>
    BY <1>3 DEF Execute, At, Go, BeginWait, logVars, TypeOK, Threads
  <2>2. \A t \in Threads : Healing(t)' = Healing(t) /\ ~Healing(t)
    BY <2>1 DEF Healing, TypeOK, Threads, Order
  <2>3. ToCome = active /\ ToCome' = active'
    BY <2>2 DEF ToCome, Threads
  <2> QED
    BY <2>1, <2>3 DEF Account, Settled
<1>4. CASE (EndActiveWait /\ ~stopEvent) \/ Join
  <2>1. /\ UNCHANGED <<active, current, injected, healed, failedHeals, healLogged, logOpen>>
        /\ \/ /\ pc["engine"] = "active_wait"
              /\ pc' = [pc EXCEPT !["engine"] = "heal"]
              /\ toHeal' = [toHeal EXCEPT !["engine"] = active]
           \/ /\ pc["main"] = "join" /\ pc["engine"] = "over"
              /\ pc' = [pc EXCEPT !["main"] = "heal"]
              /\ toHeal' = [toHeal EXCEPT !["main"] = active]
    BY <1>4 DEF EndActiveWait, Join, At, Go, logVars, ghostVars, loopVars
  <2>2. ToCome = active /\ ToCome' = active
    BY <2>1 DEF ToCome, Healing, TypeOK, Threads, Order
  <2>3. pc'["engine"] \in {"heal", "over"} /\ (pc'["engine"] = "over" <=> pc["engine"] = "over")
    BY <2>1 DEF TypeOK, Threads
  <2> QED
    BY <2>1, <2>2, <2>3 DEF Account, Settled
<1>5. ASSUME NEW t \in Threads, NEW a \in toHeal[t], Heal(t, a)
      PROVE  Account'
  <2>1. /\ pc[t] = "heal"
        /\ pc' = [pc EXCEPT ![t] = pc'[t]]
        /\ pc'[t] \in {"heal", "heal_wait"}
        /\ toHeal' = [toHeal EXCEPT ![t] = @ \ {a}]
        /\ UNCHANGED <<active, current, injected, logOpen>>
    BY <1>5 DEF Heal, At, Go, BeginWait, loopVars, TypeOK, Threads
  <2>2. /\ Settled' = Settled \cup {a}
        /\ healLogged' = IF a.class \in Healable /\ logOpen THEN healLogged \cup {a}
                                                           ELSE healLogged
    BY <1>5 DEF Heal, HealReturns, HealRaises, Settled
  <2>3. Healing(t) /\ \A u \in Threads : Healing(u)' = Healing(u)
    BY <2>1 DEF Healing, TypeOK, Threads
  <2>4. ToCome = toHeal[t] /\ ToCome' = ToCome \ {a}
    BY <2>1, <2>3, OneHealer DEF ToCome, Threads, TypeOK
  <2>5. a \in injected /\ a \notin current
    BY <2>1, <2>4 DEF Tracking, Order, TypeOK, Threads, Healing
  <2>6. CASE t = "engine"
    <3>1. logOpen /\ healLogged = {b \in injected : b.class \in Healable} \ (current \cup ToCome)
      BY <2>1, <2>6 DEF Account
    <3>2. healLogged' = {b \in injected : b.class \in Healable} \ (current \cup ToCome')
      BY <2>2, <2>4, <2>5, <3>1
    <3> QED
      BY <2>1, <2>2, <2>4, <2>6, <3>1, <3>2 DEF Account
  <2>7. CASE t = "main"
    <3>1. pc["engine"] = "over" /\ pc'["engine"] = "over"
      BY <2>1, <2>7 DEF Order, TypeOK, Threads
    <3> QED
      BY <2>1, <2>2, <2>4, <3>1 DEF Account
  <2> QED
    BY <2>6, <2>7 DEF Threads
<1>6. ASSUME NEW t \in Threads, EndHealWait(t) \/ EndHeal(t)
      PROVE  Account'
  <2>1. UNCHANGED <<injected, current, toHeal, healed, failedHeals, healLogged, logOpen>>
    BY <1>6 DEF EndHealWait, EndHeal, logVars, loopVars, ghostVars, BeginWait
  <2>2. CASE EndHealWait(t)
    <3>1. pc[t] = "heal_wait" /\ pc' = [pc EXCEPT ![t] = "heal"] /\ active' = active
      BY <2>2 DEF EndHealWait, At, Go
    <3>2. \A u \in Threads : Healing(u)' = Healing(u)
      BY <3>1 DEF Healing, TypeOK, Threads
    <3>3. ToCome' = ToCome
      BY <2>1, <3>1, <3>2 DEF ToCome, Threads
    <3>4. pc'["engine"] = pc["engine"] \/ (pc["engine"] = "heal_wait" /\ pc'["engine"] = "heal")
      BY <3>1 DEF TypeOK, Threads
    <3> QED
      BY <2>1, <3>1, <3>3, <3>4 DEF Account, Settled
  <2>3. CASE EndHeal(t)
    <3>1. /\ pc[t] = "heal"
          /\ toHeal[t] = {}
          /\ active' = {}
          /\ pc' = [pc EXCEPT ![t] = IF t = "engine" THEN "pause_wait" ELSE "over"]
      BY <2>3 DEF EndHeal, At, Go, BeginWait
    <3>2. ToCome = {} /\ \A u \in Threads : Healing(u) => u = t
      BY <3>1, OneHealer DEF Healing
    <3>3. ToCome' = {}
      BY <3>1, <3>2 DEF Healing, TypeOK, ToCome, Threads
    <3>4. \/ pc["engine"] = "heal" /\ pc'["engine"] = "pause_wait"
          \/ pc["engine"] = "over" /\ pc'["engine"] = "over"
      BY <3>1 DEF TypeOK, Threads, Order
    <3> QED
      BY <2>1, <3>1, <3>2, <3>3, <3>4 DEF Account, Settled
  <2> QED
    BY <1>6, <2>2, <2>3
<1>7. CASE StartThread \/ Stop \/ TimerFires \/ Terminated \/ UNCHANGED vars
  <2>1. /\ UNCHANGED <<active, injected, current, toHeal, healed, failedHeals, healLogged,
                       logOpen>>
        /\ \/ pc' = pc
           \/ pc["main"] = "new" /\ pc' = [pc EXCEPT !["main"] = "write", !["engine"] = "started"]
           \/ pc["main"] = "write" /\ pc' = [pc EXCEPT !["main"] = "join"]
    BY <1>7 DEF StartThread, Stop, TimerFires, Terminated, vars, logVars, loopVars, ghostVars,
           At, Go
  <2>2. \A u \in Threads : Healing(u)' = Healing(u)
    BY <2>1 DEF Healing, TypeOK, Threads, Order
  <2>3. ToCome' = ToCome
    BY <2>1, <2>2 DEF ToCome, Threads
  <2>4. pc'["engine"] = pc["engine"] \/ (pc["engine"] = "new" /\ pc'["engine"] = "started")
    BY <2>1 DEF TypeOK, Threads, Order
  <2> QED
    BY <2>1, <2>3, <2>4 DEF Account, Settled
<1> QED
  BY <1>1, <1>2, <1>3, <1>4, <1>5, <1>6, <1>7 DEF Next, Engine, Main, HealStep, Threads

THEOREM Accounted == Spec => []Account
<1>1. Init => Account
  BY DEF Init, Account, ToCome, Healing, Threads, Settled
<1> QED
  BY <1>1, AccountStep, TypeCorrect, Inductive, PTL DEF Spec

\* Between two cycles the scenario log has a "-" line for every healable
\* action it has a "+" line for (_heal_all_active).
THEOREM Balanced == Spec => []BalancedBetweenCycles
<1>1. TypeOK /\ IInv /\ Account => BalancedBetweenCycles
  <2> SUFFICES ASSUME TypeOK, IInv, Account, pc["engine"] \in {"cycle", "pause_wait"}
               PROVE  healLogged = {a \in injected : a.class \in Healable}
    BY DEF BalancedBetweenCycles
  <2>1. current = {} /\ ToCome = {}
    BY DEF IInv, Order, ToCome, Healing, Account, Threads
  <2> QED
    BY <2>1 DEF Account
<1> QED
  BY <1>1, Accounted, Inductive, TypeCorrect, PTL

-----------------------------------------------------------------------------
(* The engine implements FaultLedger.                                      *)

\* Every line written is an injection of the ledger, every heal() settles one
\* action, the end of heal_all() closes the account, and all else stutters.
LEMMA LedgerStep ==
  ASSUME TypeOK, TypeOK', IInv, Account, Account', IInv', [Next]_vars
  PROVE  [Ledger!Next]_(Ledger!vars)
<1> DEFINE out == injected \ Settled
           over == pc["main"] = "over"
<1> USE DEF IInv, Ledger!vars, At
<1>1. CASE \/ RunRandom \/ RunRandomFails \/ BeginCycle \/ BeginInjection
           \/ NothingAvailable \/ ConstructFails \/ EndComboWait \/ BeginSlotWait
           \/ EndSlotWait \/ BeginActiveWait \/ (EndActiveWait /\ stopEvent)
           \/ EndPauseWait \/ LeaveLoop \/ Close
  <2>1. UNCHANGED <<injected, Settled>> /\ pc'["main"] = pc["main"]
    BY <1>1, EngineMoves DEF Moves, Settled, ghostVars, TypeOK, Threads
  <2> QED
    BY <2>1
<1>2. ASSUME NEW c \in Classes, Choose(c)
      PROVE  \E a \in out' : Ledger!Inject(a)
  <2> DEFINE new == [class |-> c, ordinal |-> nextOrdinal + 1]
  <2>1. /\ injected' = injected \cup {new}
        /\ UNCHANGED Settled
        /\ pc' = [pc EXCEPT !["engine"] = "execute"]
        /\ pc["engine"] = "choose"
    BY <1>2 DEF Choose, Go, At, ghostVars, Settled
  <2>2. new \notin injected /\ Settled \subseteq injected
    BY DEF Ordinals, TypeOK, Action, Tracking, Settled
  <2>3. ~over /\ ~over'
    BY <2>1 DEF Order, TypeOK, Threads
  <2>4. out' = out \cup {new} /\ new \notin out \cup Settled /\ new \in out'
    BY <2>1, <2>2
  <2> QED
    BY <2>1, <2>3, <2>4 DEF Ledger!Inject
<1>3. CASE Execute \/ (EndActiveWait /\ ~stopEvent) \/ Join \/ StartThread \/ Stop
           \/ TimerFires \/ Terminated \/ UNCHANGED vars
  <2>1. CASE Execute \/ EndActiveWait
    <3>1. UNCHANGED <<injected, Settled>> /\ pc'["main"] = pc["main"]
      BY <2>1 DEF Execute, EndActiveWait, Go, BeginWait, logVars, ghostVars, Settled,
                  TypeOK, Threads
    <3> QED
      BY <3>1
  <2>2. CASE Join \/ StartThread \/ Stop \/ TimerFires \/ Terminated \/ UNCHANGED vars
    <3>1. UNCHANGED <<injected, Settled>> /\ over' = over
      BY <2>2 DEF Join, StartThread, Stop, TimerFires, Terminated, vars, Go, logVars,
                  ghostVars, Settled, TypeOK, Threads
    <3> QED
      BY <3>1
  <2> QED
    BY <1>3, <2>1, <2>2
<1>4. ASSUME NEW t \in Threads, NEW a \in toHeal[t], Heal(t, a)
      PROVE  \E b \in out : Ledger!Settle(b)
  <2>1. /\ pc[t] = "heal"
        /\ pc' = [pc EXCEPT ![t] = pc'[t]]
        /\ pc'[t] \in {"heal", "heal_wait"}
        /\ injected' = injected
        /\ Settled' = Settled \cup {a}
    BY <1>4 DEF Heal, HealReturns, HealRaises, Go, BeginWait, Settled, TypeOK, Threads
  <2>2. a \in ToCome
    BY <2>1, OneHealer DEF Healing
  <2>3. a \in out
    BY <2>2 DEF Tracking, Settled
  <2>4. over' = over
    BY <2>1 DEF TypeOK, Threads
  <2> QED
    BY <2>1, <2>3, <2>4 DEF Ledger!Settle
<1>5. ASSUME NEW t \in Threads, EndHealWait(t) \/ EndHeal(t)
      PROVE  Ledger!Close \/ UNCHANGED Ledger!vars
  <2>1. UNCHANGED <<injected, Settled>>
    BY <1>5 DEF EndHealWait, EndHeal, logVars, ghostVars, Settled
  <2>2. CASE EndHealWait(t) \/ t = "engine"
    <3>1. over' = over
      BY <1>5, <2>2 DEF EndHealWait, EndHeal, Go, BeginWait, TypeOK, Threads
    <3> QED
      BY <2>1, <3>1
  <2>3. CASE EndHeal(t) /\ t = "main"
    <3>1. pc["main"] = "heal" /\ toHeal["main"] = {} /\ pc'["main"] = "over"
      BY <2>3 DEF EndHeal, Go, TypeOK, Threads
    <3>2. ToCome = {} /\ current = {}
      BY <3>1, OneHealer DEF Healing, Order, Threads
    <3>3. out = {}
      BY <3>2 DEF Account
    <3> QED
      BY <2>1, <3>1, <3>3 DEF Ledger!Close
  <2> QED
    BY <1>5, <2>2, <2>3 DEF Threads
<1>6. ASSUME NEW c \in Classes, Choose(c)
      PROVE  Ledger!Next
  BY <1>2, <1>6 DEF Ledger!Next
<1>7. ASSUME NEW t \in Threads, HealStep(t)
      PROVE  [Ledger!Next]_(Ledger!vars)
  <2>1. CASE \E a \in toHeal[t] : Heal(t, a)
    BY <1>4, <2>1 DEF Ledger!Next, Ledger!SettleOne
  <2>2. CASE EndHealWait(t) \/ EndHeal(t)
    BY <1>5, <2>2 DEF Ledger!Next
  <2> QED
    BY <1>7, <2>1, <2>2 DEF HealStep
<1> HIDE DEF out, over, IInv, Ledger!vars, At
<1> QED
  BY <1>1, <1>3, <1>6, <1>7 DEF Next, Engine, Main, Threads

\* The detailed engine implements the ledger, for any classes, limits and
\* failures (KeepsLedger).
THEOREM LedgerKept == Spec => KeepsLedger
<1>1. Init => Ledger!Init
  BY DEF Init, Ledger!Init, Settled, At, Threads
<1>2. Spec => [][Ledger!Next]_(Ledger!vars)
  BY LedgerStep, TypeCorrect, Inductive, Accounted, PTL DEF Spec
<1> QED
  BY <1>1, <1>2, PTL DEF Spec, KeepsLedger, Ledger!Spec
=============================================================================
