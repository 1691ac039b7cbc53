------------------------ MODULE ProcessFreezerProofs ------------------------
(***************************************************************************)
(* Proofs about ProcessFreezer, for any processes, any overlapping freezes *)
(* with any patterns, and any number of restarts and shutdowns.            *)
(***************************************************************************)
EXTENDS ProcessFreezer, TLAPS

\* The truth values of the state; the first-order prover knows them better
\* than the arithmetic one.
Flags == flag \in BOOLEAN /\ term \in BOOLEAN

LEMMA FlagsStep == ASSUME Flags, [Next]_vars PROVE Flags'
<1> USE DEF Flags, vars, engineVars, daemonVars, history
<1>1. ASSUME NEW f \in Freezes, Execute(f) \/ Written(f) \/ Heal(f)
      PROVE  Flags'
  BY <1>1, Zenon DEF Execute, Written, Heal
<1>2. CASE Poll \/ ParseFlagFile \/ TestFlag \/ (\E p \in Procs : Choose(p))
  BY <1>2, Zenon DEF Poll, ParseFlagFile, TestFlag, Choose
<1>3. CASE SigStop \/ SigCont \/ EndPause \/ Cleanup \/ Respawn
  BY <1>3, Zenon DEF SigStop, SigCont, EndPause, Cleanup, Respawn
<1>4. CASE Sleep \/ Terminate \/ (\E p \in Procs : Restart(p)) \/ UNCHANGED vars
  BY <1>4, Zenon DEF Sleep, Terminate, Restart
<1> QED
  BY <1>1, <1>2, <1>3, <1>4 DEF Next, Daemon

\* Every variable stays in its type (the flag file, the daemon's loop, the
\* processes of the node).
THEOREM TypeCorrect == Spec => []TypeOK
<1>1. Init => TypeOK
  <2> SUFFICES ASSUME Init PROVE TypeOK
    OBVIOUS
  <2>1. Flags
    BY Zenon DEF Init, Flags
  <2> QED
    BY <2>1, ConstantsAssumption DEF Init, TypeOK, Flags
<1>2. TypeOK /\ [Next]_vars => TypeOK'
  <2> SUFFICES ASSUME TypeOK, [Next]_vars
               PROVE  TypeOK'
    OBVIOUS
  <2>0. Flags'
    BY FlagsStep, Zenon DEF TypeOK, Flags
  <2> USE <2>0, ConstantsAssumption
          DEF TypeOK, Flags, Runs, vars, engineVars, daemonVars, history
  <2>1. ASSUME NEW f \in Freezes, Execute(f) \/ Written(f) \/ Heal(f)
        PROVE  TypeOK'
    <3>1. CASE Execute(f)
      BY <3>1 DEF Execute
    <3>2. CASE Written(f)
      BY <3>2 DEF Written
    <3>3. CASE Heal(f)
      BY <3>3 DEF Heal
    <3> QED
      BY <2>1, <3>1, <3>2, <3>3
  <2>2. CASE Poll \/ TestFlag \/ EndPause
    BY <2>2 DEF Poll, TestFlag, EndPause
  <2>3. CASE ParseFlagFile
    BY <2>3 DEF ParseFlagFile
  <2>4. ASSUME NEW p \in Procs, Choose(p) \/ Restart(p)
        PROVE  TypeOK'
    BY <2>4 DEF Choose, Restart
  <2>5. CASE SigStop
    BY <2>5 DEF SigStop
  <2>6. CASE SigCont
    BY <2>6 DEF SigCont
  <2>7. CASE Cleanup \/ Respawn
    BY <2>7 DEF Cleanup, Respawn
  <2>8. CASE Sleep \/ Terminate \/ UNCHANGED vars
    BY <2>8 DEF Sleep, Terminate
  <2> QED
    BY <2>1, <2>2, <2>3, <2>4, <2>5, <2>6, <2>7, <2>8 DEF Next, Daemon
<1> QED
  BY <1>1, <1>2, PTL DEF Spec

\* What is stopped and not orphaned is what the daemon holds: freezes that begin
\* and end, exits of the script and dying processes make no difference
\* (freeze_loop, cleanup).
THEOREM NothingForgotten == Spec => []OnlyTheHeldIsStopped
<1> USE DEF OnlyTheHeldIsStopped
<1>1. Init => OnlyTheHeldIsStopped
  BY DEF Init
<1>2. TypeOK /\ OnlyTheHeldIsStopped /\ [Next]_vars => OnlyTheHeldIsStopped'
  <2> SUFFICES ASSUME TypeOK, OnlyTheHeldIsStopped, [Next]_vars
               PROVE  OnlyTheHeldIsStopped'
    OBVIOUS
  <2> USE DEF Runs, vars, engineVars, daemonVars, history
  <2>1. ASSUME NEW f \in Freezes, Execute(f) \/ Written(f) \/ Heal(f)
        PROVE  OnlyTheHeldIsStopped'
    BY <2>1 DEF Execute, Written, Heal
  <2>2. CASE Poll \/ ParseFlagFile \/ TestFlag \/ EndPause \/ (\E p \in Procs : Choose(p))
    BY <2>2 DEF Poll, ParseFlagFile, TestFlag, EndPause, Choose
  <2>3. CASE SigStop
    BY <2>3 DEF SigStop
  <2>4. CASE SigCont
    BY <2>4 DEF SigCont
  <2>5. CASE Cleanup
    BY <2>5 DEF Cleanup
  <2>6. CASE Respawn
    BY <2>6 DEF Respawn
  <2>7. ASSUME NEW p \in Procs, Restart(p)
        PROVE  OnlyTheHeldIsStopped'
    BY <2>7 DEF Restart
  <2>8. CASE Sleep \/ Terminate \/ UNCHANGED vars
    BY <2>8 DEF Sleep, Terminate
  <2> QED
    BY <2>1, <2>2, <2>3, <2>4, <2>5, <2>6, <2>7, <2>8 DEF Next, Daemon
<1> QED
  BY <1>1, <1>2, TypeCorrect, PTL DEF Spec

-----------------------------------------------------------------------------
(* Late stops: the daemon is on its way to one only if it has tested the    *)
(* file while it was there, and tests it again before the next.             *)

Late ==
  /\ lateStops \in {0, 1}
  /\ flag \/ dpc \in {"choose", "stop"} => lateStops = 0

\* At most one process is stopped after the flag file is gone (freeze_loop).
THEOREM OneLateStop == Spec => []AtMostOneLateStop
<1>1. Init => Late
  BY DEF Init, Late
<1>2. TypeOK /\ Late /\ [Next]_vars => Late'
  <2> SUFFICES ASSUME TypeOK, Late, [Next]_vars
               PROVE  Late'
    OBVIOUS
  <2> USE DEF Late, Runs, vars, engineVars, daemonVars, history
  <2>1. ASSUME NEW f \in Freezes, Execute(f) \/ Written(f) \/ Heal(f)
        PROVE  Late'
    <3>1. CASE Execute(f)
      BY <3>1 DEF Execute
    <3>2. CASE Written(f) \/ Heal(f)
      <4>1. flag' => flag
        BY <3>2, Zenon DEF Written, Heal, TypeOK
      <4> QED
        BY <3>2, <4>1 DEF Written, Heal
    <3> QED
      BY <2>1, <3>1, <3>2
  <2>2. CASE Poll \/ ParseFlagFile \/ EndPause \/ (\E p \in Procs : Choose(p))
    BY <2>2 DEF Poll, ParseFlagFile, EndPause, Choose
  <2>3. CASE TestFlag
    BY <2>3 DEF TestFlag
  <2>4. CASE SigStop
    BY <2>4 DEF SigStop
  <2>5. CASE SigCont \/ Cleanup \/ Respawn
    BY <2>5 DEF SigCont, Cleanup, Respawn
  <2>6. CASE Sleep \/ Terminate \/ (\E p \in Procs : Restart(p)) \/ UNCHANGED vars
    BY <2>6 DEF Sleep, Terminate, Restart
  <2> QED
    BY <2>1, <2>2, <2>3, <2>4, <2>5, <2>6 DEF Next, Daemon
<1>3. Late => AtMostOneLateStop
  BY DEF Late, AtMostOneLateStop
<1> QED
  BY <1>1, <1>2, <1>3, TypeCorrect, PTL DEF Spec

-----------------------------------------------------------------------------
(* What is named stays named, and it is all that passes through the file,   *)
(* the daemon's copy of it and its choice.                                  *)

Named == UNION {PatternsOf[f] : f \in {g \in Freezes : freezes[g] # "new"}}

NamedOnly ==
  /\ content \subseteq Named
  /\ patterns \subseteq Named
  /\ target \in Named \cup {NoProc}
  /\ stopped \subseteq Named

\* Freezes only ever begin.
LEMMA NamedGrows == ASSUME TypeOK, [Next]_vars PROVE Named \subseteq Named'
<1>1. \A g \in Freezes : freezes[g] # "new" => freezes'[g] # "new"
  <2>1. ASSUME NEW f \in Freezes, Execute(f) \/ Written(f) \/ Heal(f)
        PROVE  \A g \in Freezes : freezes[g] # "new" => freezes'[g] # "new"
    BY <2>1 DEF Execute, Written, Heal, TypeOK
  <2>2. CASE Daemon \/ Sleep \/ Terminate \/ (\E p \in Procs : Restart(p)) \/ UNCHANGED vars
    <3>1. freezes' = freezes
      BY <2>2 DEF Daemon, Sleep, Terminate, Restart, vars, engineVars, Poll, ParseFlagFile,
                  TestFlag, Choose, SigStop, SigCont, EndPause, Cleanup, Respawn
    <3> QED
      BY <3>1
  <2> QED
    BY <2>1, <2>2 DEF Next
<1> QED
  BY <1>1 DEF Named

\* No process is stopped that no freeze has named (parse_flag_file, freeze_loop:
\* a missing, a truncated and a replaced file included).
THEOREM NamedStopped == Spec => []OnlyNamedAreStopped
<1>1. Init => NamedOnly
  BY DEF Init, NamedOnly
<1>2. TypeOK /\ NamedOnly /\ [Next]_vars => NamedOnly'
  <2> SUFFICES ASSUME TypeOK, NamedOnly, [Next]_vars
               PROVE  NamedOnly'
    OBVIOUS
  <2>0. Named \subseteq Named'
    BY NamedGrows
  <2>1. ASSUME NEW f \in Freezes, Execute(f) \/ Written(f) \/ Heal(f)
        PROVE  NamedOnly'
    <3>1. UNCHANGED <<patterns, target, stopped>>
      BY <2>1 DEF Execute, Written, Heal, daemonVars
    <3>2. content' \subseteq Named'
      <4>1. CASE Execute(f) \/ Heal(f)
        BY <2>0, <4>1 DEF Execute, Heal, NamedOnly
      <4>2. CASE Written(f)
        <5>1. freezes'[f] # "new" /\ content' \in {content, PatternsOf[f]}
          BY <4>2 DEF Written, TypeOK
        <5>2. PatternsOf[f] \subseteq Named'
          BY <5>1 DEF Named
        <5> QED
          BY <2>0, <5>1, <5>2 DEF NamedOnly
      <4> QED
        BY <2>1, <4>1, <4>2
    <3> QED
      BY <2>0, <3>1, <3>2 DEF NamedOnly
  <2>2. ASSUME UNCHANGED content,
               patterns' \subseteq patterns \cup content,
               target' \in patterns \cup {target, NoProc},
               stopped' \subseteq stopped \cup ({target} \ {NoProc})
        PROVE  NamedOnly'
    BY <2>0, <2>2 DEF NamedOnly
  <2> USE <2>2 DEF engineVars, daemonVars, history, vars
  <2>3. CASE Poll \/ ParseFlagFile \/ TestFlag \/ EndPause \/ (\E p \in Procs : Choose(p))
    BY <2>3 DEF Poll, ParseFlagFile, TestFlag, EndPause, Choose
  <2>4. CASE SigStop \/ SigCont \/ Cleanup \/ Respawn
    BY <2>4 DEF SigStop, SigCont, Cleanup, Respawn
  <2>5. CASE Sleep \/ Terminate \/ (\E p \in Procs : Restart(p)) \/ UNCHANGED vars
    BY <2>5 DEF Sleep, Terminate, Restart
  <2> QED
    BY <2>1, <2>3, <2>4, <2>5 DEF Next, Daemon
<1>3. NamedOnly => OnlyNamedAreStopped
  BY DEF NamedOnly, Named, OnlyNamedAreStopped
<1> QED
  BY <1>1, <1>2, <1>3, TypeCorrect, PTL DEF Spec
=============================================================================
