-------------------------- MODULE TestRunnerProofs --------------------------
(***************************************************************************)
(* Proofs about TestRunner, for any nodes, values and faults, and an       *)
(* exception at any point of the run.                                      *)
(***************************************************************************)
EXTENDS TestRunner, TLAPS

-----------------------------------------------------------------------------
(* Where the main thread is determines what the threads may still do.      *)

NotReading == {"apply", "setup", "write", "join_writers", "stop", "join", "heal"}

\* The threads come with the phases and are over one after the other.
Threads ==
  /\ mpc \in {"apply", "setup"} \/ ~applied => fpc = "none" /\ writers = "none"
  /\ mpc \in {"stop", "join", "heal", "read", "check"} => writers = "joined"
  /\ mpc \in {"heal", "read", "check"} => fpc = "over"
  /\ mpc \in {"remove", "over"} /\ ~raised /\ applied => writers = "joined" /\ fpc = "over"

\* The rules are there from the end of apply() to remove().
Rules ==
  /\ mpc \in InTry => ruled = Nodes
  /\ mpc \in InTry \cup {"remove"} => applied
  /\ mpc = "apply" => ~applied
  /\ mpc = "over" /\ applied => ruled = {}

\* What the reads find.
Quiet ==
  /\ mpc \in NotReading => ~reading /\ ~closed
  /\ mpc = "read" => outstanding = {}
  /\ closed => fpc = "over"
  /\ reading => writers = "joined"
  /\ writers = "joined" => \A v \in Values : status[v] # "invoked"

IInv == Threads /\ Rules /\ Quiet

Booleans == /\ raised \in BOOLEAN /\ applied \in BOOLEAN /\ reading \in BOOLEAN
            /\ logOpen \in BOOLEAN /\ engineStop \in BOOLEAN /\ closed \in BOOLEAN

LEMMA BooleansStep == ASSUME Booleans, [Next]_vars PROVE Booleans'
<1> USE DEF Booleans, vars, mainVars, writeVars, engineVars
<1>1. CASE ApplyNode \/ EndApply \/ ApplyRaises \/ RemoveNode \/ EndRun
  BY <1>1, Zenon DEF ApplyNode, EndApply, ApplyRaises, RemoveNode, EndRun
<1>2. CASE Start \/ EndWrites \/ JoinWriters \/ StopEngine \/ Join
  BY <1>2, Zenon DEF Start, EndWrites, JoinWriters, StopEngine, Join
<1>3. CASE HealOne \/ StartReads \/ EndReads \/ Check \/ Raise
  BY <1>3, Zenon DEF HealOne, StartReads, EndReads, Check, Raise
<1>4. ASSUME NEW v \in Values, Invoke(v) \/ Resolve(v) PROVE Booleans'
  BY <1>4, Zenon DEF Invoke, Resolve
<1>5. ASSUME NEW a \in Faults, Inject(a) \/ Settle(a) PROVE Booleans'
  BY <1>5, Zenon DEF Inject, Settle
<1>6. CASE EndThread \/ Terminated \/ UNCHANGED vars
  BY <1>6, Zenon DEF EndThread, Terminated
<1> QED
  BY <1>1, <1>2, <1>3, <1>4, <1>5, <1>6 DEF Next, Main

\* Every variable stays in its type (run and _run_phases).
THEOREM TypeCorrect == Spec => []TypeOK
<1>1. Init => TypeOK
  <2> SUFFICES ASSUME Init PROVE TypeOK
    OBVIOUS
  <2>1. Booleans
    BY Zenon DEF Init, Test!Init, Ledger!Init, Booleans
  <2> QED
    BY <2>1 DEF Init, Test!Init, Ledger!Init, Booleans, TypeOK, Test!TypeOK
<1>2. TypeOK /\ [Next]_vars => TypeOK'
  <2> SUFFICES ASSUME TypeOK, [Next]_vars
               PROVE  TypeOK'
    OBVIOUS
  <2>0. Booleans'
    BY BooleansStep, Zenon DEF TypeOK, Test!TypeOK, Booleans
  <2> USE <2>0 DEF TypeOK, Test!TypeOK, Booleans, InTry, vars, mainVars, writeVars, engineVars
  <2>1. CASE ApplyNode \/ EndApply \/ ApplyRaises \/ RemoveNode \/ EndRun
    BY <2>1 DEF ApplyNode, EndApply, ApplyRaises, RemoveNode, EndRun
  <2>2. CASE Start \/ EndWrites \/ JoinWriters \/ StopEngine \/ Join
    BY <2>2 DEF Start, EndWrites, JoinWriters, StopEngine, Join
  <2>3. CASE HealOne \/ StartReads \/ EndReads \/ Check \/ Raise
    BY <2>3 DEF HealOne, StartReads, EndReads, Check, Raise
  <2>4. ASSUME NEW v \in Values, Invoke(v) \/ Resolve(v) PROVE TypeOK'
    BY <2>4 DEF Invoke, Resolve, Test!Outcomes
  <2>5. ASSUME NEW a \in Faults, Inject(a) \/ Settle(a) PROVE TypeOK'
    BY <2>5 DEF Inject, Settle
  <2>6. CASE EndThread \/ Terminated \/ UNCHANGED vars
    BY <2>6 DEF EndThread, Terminated
  <2> QED
    BY <2>1, <2>2, <2>3, <2>4, <2>5, <2>6 DEF Next, Main
<1> QED
  BY <1>1, <1>2, PTL DEF Spec

LEMMA InvStep == ASSUME TypeOK, IInv, [Next]_vars PROVE IInv'
<1>0. Booleans /\ Booleans'
  BY BooleansStep, Zenon DEF TypeOK, Test!TypeOK, Booleans
<1> USE <1>0 DEF IInv, Threads, Rules, Quiet, NotReading, InTry, TypeOK, Test!TypeOK, Booleans,
             vars, mainVars, writeVars, engineVars
<1>1. CASE ApplyNode \/ EndApply \/ ApplyRaises
  BY <1>1 DEF ApplyNode, EndApply, ApplyRaises
<1>2. CASE RemoveNode \/ EndRun
  BY <1>2 DEF RemoveNode, EndRun
<1>3. CASE Start \/ EndWrites
  BY <1>3 DEF Start, EndWrites
<1>4. CASE JoinWriters \/ StopEngine \/ Join
  BY <1>4 DEF JoinWriters, StopEngine, Join
<1>5. CASE HealOne \/ StartReads
  BY <1>5 DEF HealOne, StartReads
<1>6. CASE EndReads \/ Check
  BY <1>6 DEF EndReads, Check
<1>7. CASE Raise
  BY <1>7 DEF Raise
<1>8. ASSUME NEW v \in Values, Invoke(v) \/ Resolve(v) PROVE IInv'
  BY <1>8 DEF Invoke, Resolve
<1>9. ASSUME NEW a \in Faults, Inject(a) \/ Settle(a) PROVE IInv'
  BY <1>9 DEF Inject, Settle
<1>10. CASE EndThread \/ Terminated \/ UNCHANGED vars
  BY <1>10 DEF EndThread, Terminated
<1> QED
  BY <1>1, <1>2, <1>3, <1>4, <1>5, <1>6, <1>7, <1>8, <1>9, <1>10 DEF Next, Main

LEMMA Invariance == Spec => []IInv
<1>1. Init => IInv
  BY DEF Init, Test!Init, Ledger!Init, IInv, Threads, Rules, Quiet, InTry
<1> QED
  BY <1>1, InvStep, TypeCorrect, PTL DEF Spec

\* The reads are undisturbed, whatever number of nodes, values and faults
\* (_run_phases: join and heal_all come before run_read_phase).
THEOREM Undisturbed == Spec => []ReadsUndisturbed
<1>1. TypeOK /\ IInv => ReadsUndisturbed
  BY DEF IInv, Threads, Rules, Quiet, InTry, ReadsUndisturbed
<1> QED
  BY <1>1, Invariance, TypeCorrect, PTL

\* The latency lives as long as the test and no longer (run: try, finally).
THEOREM LatencyBounded == Spec => []LatencyLifetime
<1>1. TypeOK /\ IInv => LatencyLifetime
  BY DEF TypeOK, IInv, Threads, Rules, InTry, LatencyLifetime
<1> QED
  BY <1>1, Invariance, TypeCorrect, PTL

\* Composed, with exceptions at any point, the load generator keeps to SetTest
\* and the engine to FaultLedger.
THEOREM ContractsKept == Spec => KeepsContracts
<1>1. Init => Test!Init /\ Ledger!Init
  BY DEF Init
<1>2. TypeOK /\ IInv /\ [Next]_vars => [Test!Next]_(Test!vars) /\ [Ledger!Next]_(Ledger!vars)
  <2> SUFFICES ASSUME TypeOK, IInv, [Next]_vars
               PROVE  [Test!Next]_(Test!vars) /\ [Ledger!Next]_(Ledger!vars)
    OBVIOUS
  <2> USE DEF Test!vars, Ledger!vars, vars, mainVars, writeVars, engineVars
  <2>1. CASE \/ ApplyNode \/ EndApply \/ ApplyRaises \/ RemoveNode \/ EndRun \/ Start
             \/ EndWrites \/ JoinWriters \/ StopEngine \/ Join \/ EndReads \/ Check \/ Raise
             \/ EndThread \/ Terminated \/ UNCHANGED vars
    <3>1. UNCHANGED <<status, reading, outstanding, settled, closed>>
      BY <2>1 DEF ApplyNode, EndApply, ApplyRaises, RemoveNode, EndRun, Start, EndWrites,
                  JoinWriters, StopEngine, Join, EndReads, Check, Raise, EndThread, Terminated
    <3> QED
      BY <3>1
  <2>2. CASE HealOne
    BY <2>2 DEF HealOne, Ledger!Next, Ledger!SettleOne, Ledger!Settle
  <2>3. CASE StartReads
    <3>1. ~reading /\ ~closed /\ \A v \in Values : status[v] # "invoked"
      BY <2>3 DEF StartReads, IInv, Threads, Quiet, NotReading
    <3>2. Test!StartReads
      BY <2>3, <3>1 DEF StartReads, Test!StartReads
    <3>3. Ledger!Close
      BY <2>3, <3>1 DEF StartReads, Ledger!Close
    <3> QED
      BY <3>2, <3>3 DEF Test!Next, Ledger!Next
  <2>4. ASSUME NEW v \in Values, Invoke(v) \/ Resolve(v)
        PROVE  [Test!Next]_(Test!vars) /\ [Ledger!Next]_(Ledger!vars)
    <3>1. ~reading
      BY <2>4 DEF Invoke, Resolve, IInv, Quiet
    <3>2. Test!Invoke(v) \/ Test!Resolve(v)
      BY <2>4, <3>1 DEF Invoke, Resolve, Test!Invoke, Test!Resolve
    <3>3. UNCHANGED <<outstanding, settled, closed>>
      BY <2>4 DEF Invoke, Resolve
    <3> QED
      BY <3>2, <3>3 DEF Test!Next
  <2>5. ASSUME NEW a \in Faults, Inject(a) \/ Settle(a)
        PROVE  [Test!Next]_(Test!vars) /\ [Ledger!Next]_(Ledger!vars)
    <3>1. ~closed
      BY <2>5 DEF Inject, Settle, IInv, Quiet
    <3>2. Ledger!Next
      BY <2>5, <3>1 DEF Inject, Settle, Ledger!Next, Ledger!Inject, Ledger!SettleOne,
                        Ledger!Settle
    <3>3. UNCHANGED <<status, reading>>
      BY <2>5 DEF Inject, Settle
    <3> QED
      BY <3>2, <3>3
  <2> QED
    BY <2>1, <2>2, <2>3, <2>4, <2>5 DEF Next, Main
<1> QED
  BY <1>1, <1>2, Invariance, TypeCorrect, PTL DEF Spec, KeepsContracts, Test!Spec, Ledger!Spec
=============================================================================
