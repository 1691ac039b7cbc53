------------------------ MODULE ScenarioReplayProofs ------------------------
(***************************************************************************)
(* Proofs about ScenarioReplay: what a replay preserves of the recorded    *)
(* run, for every set of classes and targets, every way to resume them and *)
(* scenarios of any length.                                                *)
(***************************************************************************)
EXTENDS ScenarioReplay, TLAPS

LEMMA DeedType ==
  ASSUME NEW c \in Classes, NEW n \in 1 .. MaxActions, NEW t \in Targets
  PROVE  /\ Deed(c, n, t) \in Deeds
         /\ Deed(c, n, t).class = c
         /\ Deed(c, n, t).ordinal = n
         /\ Deed(c, n, t).target = t
BY DEF Deed, Deeds

LEMMA DeedsAreReplays == Deeds \subseteq Replays
BY DEF Deeds, Replays

\* What execute() and heal() leave on the cluster.
LEMMA ClusterType ==
  ASSUME chains \subseteq 1 .. MaxActions, flag \in [Nodes -> 0 .. MaxActions],
         NEW c \in Classes, NEW n \in 1 .. MaxActions, NEW t,
         Execute(c, n, t) \/ Heal(c, n, t)
  PROVE  chains' \subseteq 1 .. MaxActions /\ flag' \in [Nodes -> 0 .. MaxActions]
<1>1. MaxActions \in Nat /\ 0 \in 0 .. MaxActions /\ n \in 0 .. MaxActions
  BY ConstantsAssumption
<1>2. flag' \in [Nodes -> 0 .. MaxActions]
  <2>1. ASSUME NEW m \in Nodes
        PROVE  flag[m] \in 0 .. MaxActions
    OBVIOUS
  <2>2. CASE Execute(c, n, t)
    BY <1>1, <2>1, <2>2 DEF Execute
  <2>3. CASE Heal(c, n, t)
    BY <1>1, <2>1, <2>3 DEF Heal
  <2> QED
    BY <2>2, <2>3
<1>3. chains' \subseteq 1 .. MaxActions
  <2>1. chains' \subseteq chains \cup {n}
    BY DEF Execute, Heal
  <2> QED
    BY <2>1
<1> QED
  BY <1>2, <1>3

LEMMA Rewriting ==
  ASSUME NEW line \in Lines
  PROVE  /\ Rewritten(line) \in Lines
         /\ line.target # Unresolved => Rewritten(line) = line
BY DEF Rewritten, Lines

\* Appending leaves what there is in its place.
LEMMA AppendKeeps ==
  ASSUME NEW S, NEW s \in Seq(S), NEW e \in S
  PROVE  /\ Append(s, e) \in Seq(S)
         /\ Len(Append(s, e)) = Len(s) + 1
         /\ Append(s, e)[Len(s) + 1] = e
         /\ \A i \in 1 .. Len(s) : Append(s, e)[i] = s[i]
OBVIOUS

\* The lines of a recorded run have a target or an open one, the "-" lines a target.
HasTarget(line) == /\ line.target \in Targets \cup {Unresolved}
                   /\ line.heal => line.target \in Targets

Readable == \A i \in 1 .. Len(script) : HasTarget(script[i])

\* Every variable stays in its type (the scenario log, the engine of the
\* replay).
THEOREM TypeCorrect == Spec => [](TypeOK /\ Readable)
<1>1. Init => TypeOK /\ Readable
  <2> SUFFICES ASSUME Init PROVE TypeOK /\ Readable
    OBVIOUS
  <2>1. healing \in BOOLEAN /\ stopEvent \in BOOLEAN
    BY Zenon DEF Init
  <2>2. flag \in [Nodes -> 0 .. MaxActions]
    BY ConstantsAssumption DEF Init
  <2>3. Readable
    BY DEF Init, Readable
  <2> QED
    BY <2>1, <2>2, <2>3 DEF Init, TypeOK
<1>2. TypeOK /\ Readable /\ [Next]_vars => TypeOK' /\ Readable'
  <2> SUFFICES ASSUME TypeOK, Readable, [Next]_vars
               PROVE  TypeOK' /\ Readable'
    OBVIOUS
  <2> USE ConstantsAssumption DEF TypeOK, Readable, recVars, replayVars, cluster
  <2>1. ASSUME NEW c \in Classes, NEW t \in Targets, NEW known \in BOOLEAN,
               RecordInject(c, t, known)
        PROVE  TypeOK' /\ Readable'
    <3> DEFINE n == Len(recorded) + 1
               target == IF known THEN t ELSE Unresolved
               line == Line(FALSE, c, n, target)
               deed == Deed(c, n, t)
    <3>1. n \in 1 .. MaxActions
      BY <2>1 DEF RecordInject
    <3>2. line \in Lines /\ HasTarget(line) /\ deed \in Deeds
      <4>1. target \in Targets \cup {Unresolved}
        OBVIOUS
      <4> HIDE DEF n, target
      <4> QED
        BY <3>1, <4>1, DeedType DEF Line, Lines, HasTarget
    <3>3. /\ script' = Append(script, line)
          /\ recorded' = Append(recorded, deed)
          /\ open' = open \cup {deed}
          /\ UNCHANGED <<healing, mpc, replayVars>>
      BY <2>1 DEF RecordInject
    <3> HIDE DEF line, deed, n
    <3>4. /\ script' \in Seq(Lines) /\ Len(script') = Len(script) + 1
          /\ \A i \in 1 .. Len(script) : script'[i] = script[i]
          /\ script'[Len(script) + 1] = line
      BY <3>2, <3>3, AppendKeeps
    <3>5. recorded' \in Seq(Deeds)
      BY <3>2, <3>3, AppendKeeps
    <3> QED
      BY <3>2, <3>3, <3>4, <3>5
  <2>2. ASSUME NEW d \in open, RecordHeal(d)
        PROVE  TypeOK' /\ Readable'
    <3> DEFINE line == Line(TRUE, d.class, d.ordinal, d.target)
    <3>1. line \in Lines /\ HasTarget(line)
      <4>1. d.class \in Classes /\ d.ordinal \in 1 .. MaxActions /\ d.target \in Targets
        BY DEF Deeds
      <4> QED
        BY <4>1 DEF Line, Lines, HasTarget
    <3>2. /\ script' = Append(script, line) \/ script' = script
          /\ open' \subseteq open
          /\ healing' \in BOOLEAN
          /\ UNCHANGED <<recorded, mpc, replayVars>>
      BY <2>2, Zenon DEF RecordHeal
    <3> HIDE DEF line
    <3>3. /\ script' \in Seq(Lines) /\ Len(script') >= Len(script)
          /\ \A i \in 1 .. Len(script') : HasTarget(script'[i])
      <4>1. CASE script' = script
        BY <4>1
      <4>2. CASE script' = Append(script, line)
        BY <3>1, <4>2, AppendKeeps
      <4> QED
        BY <3>2, <4>1, <4>2
    <3> QED
      BY <3>2, <3>3
  <2>3. CASE StartReplay \/ Stop \/ HealAll
    <3>1. CASE HealAll
      <4>1. flag' \in [Nodes -> 0 .. MaxActions]
        BY <3>1 DEF HealAll
      <4> QED
        BY <3>1, <4>1 DEF HealAll
    <3> QED
      BY <2>3, <3>1 DEF StartReplay, Stop
  <2>4. CASE Parse \/ EndReplay
    BY <2>4 DEF Parse, EndReplay
  <2>5. CASE ReplayInject
    <3> DEFINE line == script[pos + 1]
    <3>1. pos + 1 \in 1 .. Len(script) /\ line \in Lines
      BY <2>5 DEF ReplayInject
    <3>2. newLog' \in Seq(Lines)
      BY <2>5, <3>1, Rewriting DEF ReplayInject
    <3>3. TargetsOf(line) \subseteq Targets \cup {Garbled}
      <4>1. line.target # Unresolved => line.target \in Targets
        BY <3>1 DEF HasTarget
      <4>2. Drawn[line.class] \subseteq Targets
        BY <3>1 DEF Lines
      <4> QED
        BY <4>1, <4>2 DEF TargetsOf
    <3>4. ASSUME NEW t \in TargetsOf(line)
          PROVE  Deed(line.class, line.ordinal, t) \in Replays
      BY <3>1, <3>3 DEF Lines, Deed, Replays
    <3>5. CASE TargetsOf(line) = {} /\ UNCHANGED <<replayed, cluster>>
      BY <2>5, <3>1, <3>2, <3>5 DEF ReplayInject
    <3>6. ASSUME NEW t \in TargetsOf(line),
                 replayed' = Append(replayed, Deed(line.class, line.ordinal, t)),
                 Execute(line.class, line.ordinal, t)
          PROVE  TypeOK' /\ Readable'
      <4>1. replayed' \in Seq(Replays)
        BY <3>4, <3>6
      <4>2. chains' \subseteq 1 .. MaxActions /\ flag' \in [Nodes -> 0 .. MaxActions]
        BY <3>1, <3>6, ClusterType DEF Lines
      <4> QED
        BY <2>5, <3>1, <3>2, <4>1, <4>2 DEF ReplayInject
    <3> QED
      BY <2>5, <3>5, <3>6 DEF ReplayInject
  <2>6. CASE ReplayHeal
    <3> DEFINE line == script[pos + 1]
    <3>1. pos + 1 \in 1 .. Len(script) /\ line \in Lines
      BY <2>6 DEF ReplayHeal
    <3>2. chains' \subseteq 1 .. MaxActions /\ flag' \in [Nodes -> 0 .. MaxActions]
      BY <2>6, <3>1, ClusterType DEF ReplayHeal, Lines
    <3>3. newLog' \in Seq(Lines)
      BY <2>6, <3>1 DEF ReplayHeal
    <3> QED
      BY <2>6, <3>1, <3>2, <3>3 DEF ReplayHeal
  <2>7. CASE Terminated \/ UNCHANGED vars
    BY <2>7 DEF Terminated, vars
  <2> QED
    BY <2>1, <2>2, <2>3, <2>4, <2>5, <2>6, <2>7 DEF Next, Record, RunReplay
<1> QED
  BY <1>1, <1>2, PTL DEF Spec

-----------------------------------------------------------------------------
(* The recorded log: an action has one "+" line, in the order of their     *)
(* ordinals, and at most one "-" line, after it.                           *)

Size == Len(script)

\* The line says which of the recorded actions it is about.
Names(line) ==
  /\ recorded[line.ordinal].class = line.class
  /\ line.target # Unresolved => recorded[line.ordinal] = Deed(line.class, line.ordinal, line.target)

Ordered ==
  /\ \A i, j \in 1 .. Size : i < j /\ script[i].ordinal = script[j].ordinal =>
       ~script[i].heal /\ script[j].heal
  /\ \A i \in 1 .. Size : script[i].ordinal <= Len(recorded)
  /\ \A k \in 1 .. Len(recorded) :
       \E i \in 1 .. Size : ~script[i].heal /\ script[i].ordinal = k
  /\ \A i \in 1 .. Size : ~script[i].heal =>
       \A k \in 1 .. script[i].ordinal - 1 :
         \E j \in 1 .. i - 1 : ~script[j].heal /\ script[j].ordinal = k
  /\ \A i \in 1 .. Size : Names(script[i])

\* What a later "-" line may be about.
Pending ==
  /\ \A d \in open : /\ d.ordinal <= Len(recorded) /\ recorded[d.ordinal] = d
                     /\ \A i \in 1 .. Size : script[i].ordinal = d.ordinal => ~script[i].heal
  /\ \A d, e \in open : d.ordinal = e.ordinal => d = e

\* The replay begins when the recording is over.
Before ==
  mpc = "record" => pos = 0 /\ rpc = "new" /\ newLog = <<>> /\ replayed = <<>>

ScriptInv == Ordered /\ Pending /\ Before

\* One more line keeps the order, if it is the "+" line of the next action or the
\* "-" line of an action that has none.
LEMMA OneMoreLine ==
  ASSUME TypeOK, Ordered, NEW line \in Lines,
         script' = Append(script, line),
         Len(recorded') \in Nat, Len(recorded) <= Len(recorded'),
         \A k \in 1 .. Len(recorded) : recorded'[k] = recorded[k],
         line.ordinal <= Len(recorded'),
         \A k \in Len(recorded) + 1 .. Len(recorded') : ~line.heal /\ line.ordinal = k,
         line.heal => \A i \in 1 .. Size : script[i].ordinal = line.ordinal => ~script[i].heal,
         ~line.heal => line.ordinal = Len(recorded) + 1,
         recorded'[line.ordinal].class = line.class,
         line.target # Unresolved =>
           recorded'[line.ordinal] = Deed(line.class, line.ordinal, line.target)
  PROVE  Ordered'
<1>1. /\ Size' = Size + 1 /\ Size \in Nat /\ Len(recorded) \in Nat
      /\ script'[Size + 1] = line
      /\ \A i \in 1 .. Size : script'[i] = script[i] /\ script[i] \in Lines
  BY AppendKeeps DEF TypeOK, Size
<1>2. \A i \in 1 .. Size' : i = Size + 1 \/ i \in 1 .. Size
  BY <1>1
<1>3. \A i \in 1 .. Size : script[i].ordinal \in 1 .. Len(recorded)
  BY <1>1 DEF Ordered, Lines
<1>4. ASSUME NEW i \in 1 .. Size', NEW j \in 1 .. Size', i < j,
             script'[i].ordinal = script'[j].ordinal
      PROVE  ~script'[i].heal /\ script'[j].heal
  <2>1. i \in 1 .. Size
    BY <1>1, <1>4
  <2>2. CASE j = Size + 1
    <3>1. script'[i] = script[i] /\ script'[j] = line
      BY <1>1, <2>1, <2>2
    <3>2. line.heal
      BY <1>1, <1>3, <1>4, <2>1, <3>1
    <3> QED
      BY <1>4, <2>1, <3>1, <3>2
  <2>3. CASE j \in 1 .. Size
    BY <1>1, <1>4, <2>1, <2>3 DEF Ordered
  <2> QED
    BY <1>2, <2>2, <2>3
<1>5. ASSUME NEW i \in 1 .. Size'
      PROVE  script'[i].ordinal <= Len(recorded')
  BY <1>1, <1>2, <1>3
<1>6. ASSUME NEW k \in 1 .. Len(recorded')
      PROVE  \E i \in 1 .. Size' : ~script'[i].heal /\ script'[i].ordinal = k
  <2>1. CASE k \in 1 .. Len(recorded)
    <3>1. PICK i \in 1 .. Size : ~script[i].heal /\ script[i].ordinal = k
      BY <2>1 DEF Ordered
    <3>2. i \in 1 .. Size'
      BY <1>1
    <3>3. script'[i] = script[i]
      BY <1>1
    <3> QED
      BY <3>1, <3>2, <3>3
  <2>2. CASE k \notin 1 .. Len(recorded)
    <3>1. k \in Len(recorded) + 1 .. Len(recorded')
      BY <1>1, <2>2
    <3>2. Size + 1 \in 1 .. Size'
      BY <1>1
    <3> QED
      BY <1>1, <3>1, <3>2
  <2> QED
    BY <2>1, <2>2
<1>7. ASSUME NEW i \in 1 .. Size', ~script'[i].heal, NEW k \in 1 .. script'[i].ordinal - 1
      PROVE  \E j \in 1 .. i - 1 : ~script'[j].heal /\ script'[j].ordinal = k
  <2>1. CASE i = Size + 1
    <3>1. script'[i] = line
      BY <1>1, <2>1
    <3>2. line.ordinal = Len(recorded) + 1
      BY <1>7, <3>1
    <3>3. k \in 1 .. Len(recorded)
      BY <1>1, <1>7, <3>1, <3>2
    <3>4. PICK j \in 1 .. Size : ~script[j].heal /\ script[j].ordinal = k
      BY <3>3 DEF Ordered
    <3>5. j \in 1 .. i - 1
      BY <1>1, <2>1
    <3>6. script'[j] = script[j]
      BY <1>1
    <3> QED
      BY <3>4, <3>5, <3>6
  <2>2. CASE i \in 1 .. Size
    <3>1. script'[i] = script[i]
      BY <1>1, <2>2
    <3>2. PICK j \in 1 .. i - 1 : ~script[j].heal /\ script[j].ordinal = k
      <4>1. ~script[i].heal /\ k \in 1 .. script[i].ordinal - 1
        BY <1>7, <3>1
      <4>2. \A l \in 1 .. script[i].ordinal - 1 :
              \E j \in 1 .. i - 1 : ~script[j].heal /\ script[j].ordinal = l
        BY <2>2, <4>1, Zenon DEF Ordered
      <4> QED
        BY <4>1, <4>2
    <3>3. j \in 1 .. Size
      BY <1>1, <2>2
    <3>4. script'[j] = script[j]
      BY <1>1, <3>3
    <3> QED
      BY <3>2, <3>4
  <2> QED
    BY <1>2, <2>1, <2>2
<1>8. ASSUME NEW i \in 1 .. Size'
      PROVE  Names(script[i])'
  <2>1. CASE i = Size + 1
    BY <1>1, <2>1 DEF Names
  <2>2. CASE i \in 1 .. Size
    <3>1. script'[i] = script[i] /\ recorded'[script[i].ordinal] = recorded[script[i].ordinal]
      BY <1>1, <1>3, <2>2
    <3> QED
      BY <2>2, <3>1 DEF Names, Ordered
  <2> QED
    BY <1>2, <2>1, <2>2
<1> QED
  BY <1>4, <1>5, <1>6, <1>7, <1>8 DEF Ordered

LEMMA ScriptInject ==
  ASSUME TypeOK, ScriptInv,
         NEW c \in Classes, NEW t \in Targets, NEW known \in BOOLEAN, RecordInject(c, t, known)
  PROVE  ScriptInv'
<1> DEFINE n == Len(recorded) + 1
           target == IF known THEN t ELSE Unresolved
           line == Line(FALSE, c, n, target)
           deed == Deed(c, n, t)
<1>0. n \in 1 .. MaxActions
  BY ConstantsAssumption DEF RecordInject, TypeOK
<1>1. /\ n \in 1 .. MaxActions
      /\ script' = Append(script, line)
      /\ recorded' = Append(recorded, deed)
      /\ open' = open \cup {deed}
      /\ UNCHANGED <<mpc, replayVars>>
  BY <1>0 DEF RecordInject
<1>2. target \in {t, Unresolved}
  OBVIOUS
<1> HIDE DEF target
<1>3. /\ line \in Lines /\ ~line.heal /\ line.class = c /\ line.ordinal = n
      /\ line.target = target
  BY <1>1, <1>2 DEF Line, Lines
<1>4. deed \in Deeds /\ deed.ordinal = n
  BY <1>1 DEF Deed, Deeds
<1>5. /\ line.target # Unresolved => Deed(line.class, line.ordinal, line.target) = deed
      /\ deed.class = line.class
  BY <1>2, <1>3 DEF Deed
<1> HIDE DEF line, deed, n
<1>6. /\ Size' = Size + 1 /\ Size \in Nat
      /\ script'[Size + 1] = line
      /\ \A i \in 1 .. Size : script'[i] = script[i] /\ script[i] \in Lines
  BY <1>1, <1>3, AppendKeeps DEF TypeOK, Size
<1>7. /\ Len(recorded') = Len(recorded) + 1 /\ Len(recorded) \in Nat
      /\ recorded'[n] = deed
      /\ \A i \in 1 .. Len(recorded) : recorded'[i] = recorded[i]
  BY <1>1, <1>4, AppendKeeps DEF TypeOK, n
<1>8. n = Len(recorded) + 1
  BY DEF n
<1>9. Ordered'
  <2>1. /\ recorded'[line.ordinal].class = line.class
        /\ line.target # Unresolved =>
             recorded'[line.ordinal] = Deed(line.class, line.ordinal, line.target)
    BY <1>3, <1>5, <1>7
  <2>2. \A k \in Len(recorded) + 1 .. Len(recorded') : ~line.heal /\ line.ordinal = k
    BY <1>3, <1>7, <1>8
  <2> QED
    BY <1>1, <1>3, <1>7, <1>8, <2>1, <2>2, OneMoreLine DEF ScriptInv
<1>10. Pending'
  <2>1. \A i \in 1 .. Size : script[i].ordinal # n
    BY <1>6, <1>7, <1>8 DEF ScriptInv, Ordered, Lines
  <2>2. \A i \in 1 .. Size' : script'[i].ordinal = n => ~script'[i].heal
    BY <1>3, <1>6, <2>1
  <2>3. \A d \in open : /\ d.ordinal # n /\ d.ordinal <= Len(recorded')
                        /\ recorded'[d.ordinal] = d
    BY <1>7, <1>8 DEF ScriptInv, Pending, TypeOK, Deeds
  <2>4. ASSUME NEW d \in open, NEW i \in 1 .. Size', script'[i].ordinal = d.ordinal
        PROVE  ~script'[i].heal
    BY <1>3, <1>6, <2>4 DEF ScriptInv, Pending
  <2>5. \A d \in open' : /\ d.ordinal <= Len(recorded') /\ recorded'[d.ordinal] = d
                          /\ \A i \in 1 .. Size' : script'[i].ordinal = d.ordinal => ~script'[i].heal
    <3>1. \A i \in 1 .. Size' : script'[i].ordinal = deed.ordinal => ~script'[i].heal
      BY <1>4, <2>2
    <3>2. deed.ordinal <= Len(recorded') /\ recorded'[deed.ordinal] = deed
      BY <1>4, <1>7, <1>8
    <3> QED
      BY <1>1, <2>3, <2>4, <3>1, <3>2
  <2>6. \A d, e \in open' : d.ordinal = e.ordinal => d = e
    BY <1>1, <1>4, <2>3 DEF ScriptInv, Pending
  <2> QED
    BY <2>5, <2>6 DEF Pending
<1>11. Before'
  BY <1>1 DEF ScriptInv, Before, replayVars
<1> QED
  BY <1>9, <1>10, <1>11 DEF ScriptInv

LEMMA ScriptHeal ==
  ASSUME TypeOK, ScriptInv, NEW d \in open, RecordHeal(d)
  PROVE  ScriptInv'
<1> DEFINE line == Line(TRUE, d.class, d.ordinal, d.target)
<1>1. /\ open' = open \ {d}
      /\ script' \in {script, Append(script, line)}
      /\ UNCHANGED <<recorded, mpc, replayVars>>
  BY DEF RecordHeal
<1>2. line \in Lines /\ line.heal /\ line.ordinal = d.ordinal
  BY DEF Line, Lines, TypeOK, Deeds
<1>0. /\ recorded'[line.ordinal].class = line.class
      /\ recorded'[line.ordinal] = Deed(line.class, line.ordinal, line.target)
  <2>1. recorded[d.ordinal] = d /\ recorded' = recorded
    BY <1>1 DEF ScriptInv, Pending
  <2>2. Deed(d.class, d.ordinal, d.target) = d
    BY DEF Deed, Deeds, TypeOK
  <2>3. line.class = d.class /\ line.ordinal = d.ordinal /\ line.target = d.target
    BY DEF Line
  <2> HIDE DEF line
  <2> QED
    BY <2>1, <2>2, <2>3
<1>3. Before'
  BY <1>1 DEF ScriptInv, Before, replayVars
<1>4. CASE script' = script
  <2>1. Ordered'
    <3>1. \A entry : Names(entry)' <=> Names(entry)
      BY <1>1 DEF Names
    <3>2. Size' = Size /\ Ordered
      BY <1>4 DEF ScriptInv, Size
    <3> QED
      BY <1>1, <1>4, <3>1, <3>2 DEF Ordered
  <2>2. Pending'
    BY <1>1, <1>4 DEF ScriptInv, Pending, Size
  <2> QED
    BY <1>3, <2>1, <2>2 DEF ScriptInv
<1>5. CASE script' = Append(script, line)
  <2> HIDE DEF line
  <2>1. /\ Size' = Size + 1 /\ Size \in Nat
        /\ script'[Size + 1] = line
        /\ \A i \in 1 .. Size : script'[i] = script[i] /\ script[i] \in Lines
    BY <1>2, <1>5, AppendKeeps DEF TypeOK, Size
  <2>2. Ordered'
    <3>1. /\ d.ordinal <= Len(recorded)
          /\ \A i \in 1 .. Size : script[i].ordinal = d.ordinal => ~script[i].heal
      BY DEF ScriptInv, Pending
    <3>2. Len(recorded) \in Nat /\ recorded' = recorded
      BY <1>1 DEF TypeOK
    <3> QED
      BY <1>0, <1>2, <1>5, <3>1, <3>2, OneMoreLine DEF ScriptInv
  <2>3. Pending'
    BY <1>1, <1>2, <2>1 DEF ScriptInv, Pending
  <2> QED
    BY <1>3, <2>2, <2>3 DEF ScriptInv
<1> QED
  BY <1>1, <1>4, <1>5

LEMMA ScriptInvariance == Spec => []ScriptInv
<1>1. Init => ScriptInv
  BY DEF Init, ScriptInv, Ordered, Pending, Before, Size
<1>2. TypeOK /\ ScriptInv /\ [Next]_vars => ScriptInv'
  <2> SUFFICES ASSUME TypeOK, ScriptInv, [Next]_vars
               PROVE  ScriptInv'
    OBVIOUS
  <2>1. CASE StartReplay \/ RunReplay \/ Stop \/ HealAll \/ Terminated \/ UNCHANGED vars
    <3>1. UNCHANGED <<script, recorded, open>>
      BY <2>1 DEF StartReplay, RunReplay, Parse, ReplayInject, ReplayHeal, EndReplay, Stop,
                  HealAll, Terminated, vars, recVars
    <3>2. mpc' = "record" =>
            UNCHANGED <<mpc, pos, rpc, newLog, replayed>>
      BY <2>1 DEF StartReplay, RunReplay, Parse, ReplayInject, ReplayHeal, EndReplay, Stop,
                  HealAll, Terminated, vars, ScriptInv, Before
    <3>3. Ordered'
      <4>1. \A line : Names(line)' <=> Names(line)
        BY <3>1 DEF Names
      <4>2. Size' = Size
        BY <3>1 DEF Size
      <4> QED
        BY <3>1, <4>1, <4>2 DEF ScriptInv, Ordered
    <3>5. Pending'
      BY <3>1 DEF ScriptInv, Pending, Size
    <3>4. Before'
      BY <3>2 DEF ScriptInv, Before
    <3> QED
      BY <3>3, <3>4, <3>5 DEF ScriptInv
  <2> QED
    BY <2>1, ScriptInject, ScriptHeal DEF Next, Record
<1> QED
  BY <1>1, <1>2, TypeCorrect, PTL DEF Spec

-----------------------------------------------------------------------------
(* The replay.  Every other step leaves alone what it has replayed: it     *)
(* changes neither a line the replay has read, nor its log and its deeds.  *)

Still ==
  /\ UNCHANGED <<pos, newLog, replayed, cluster>>
  /\ \A i \in 1 .. pos : script'[i] = script[i]
  /\ Len(recorded) <= Len(recorded') /\ Len(recorded') \in Nat
  /\ \A k \in 1 .. Len(recorded) : recorded'[k] = recorded[k]

\* Sorts the steps into those that replay a line, and the others.
LEMMA StepKinds ==
  ASSUME TypeOK, [Next]_vars
  PROVE  Still \/ ReplayInject \/ ReplayHeal \/ HealAll
<1> USE DEF recVars, replayVars
<1>1. ASSUME NEW c \in Classes, NEW t \in Targets, NEW known \in BOOLEAN,
             RecordInject(c, t, known)
      PROVE  Still
  <2> DEFINE line == Line(FALSE, c, Len(recorded) + 1, IF known THEN t ELSE Unresolved)
             deed == Deed(c, Len(recorded) + 1, t)
  <2>1. /\ script' = Append(script, line)
        /\ recorded' = Append(recorded, deed)
        /\ UNCHANGED <<pos, newLog, replayed, cluster>>
    BY <1>1 DEF RecordInject
  <2> HIDE DEF line, deed
  <2>2. \A i \in 1 .. pos : script'[i] = script[i]
    BY <2>1 DEF TypeOK
  <2>3. /\ Len(recorded') = Len(recorded) + 1 /\ Len(recorded) \in Nat
        /\ \A k \in 1 .. Len(recorded) : recorded'[k] = recorded[k]
    BY <2>1 DEF TypeOK
  <2>4. Len(recorded) <= Len(recorded') /\ Len(recorded') \in Nat
    BY <2>3
  <2> QED
    BY <2>1, <2>2, <2>3, <2>4 DEF Still
<1>2. ASSUME NEW d \in open, RecordHeal(d)
      PROVE  Still
  <2> DEFINE line == Line(TRUE, d.class, d.ordinal, d.target)
  <2>1. /\ script' \in {script, Append(script, line)}
        /\ UNCHANGED <<recorded, pos, newLog, replayed, cluster>>
    BY <1>2 DEF RecordHeal
  <2> HIDE DEF line
  <2>2. \A i \in 1 .. pos : script'[i] = script[i]
    <3>1. CASE script' = script
      BY <3>1
    <3>2. CASE script' = Append(script, line)
      BY <3>2 DEF TypeOK
    <3> QED
      BY <2>1, <3>1, <3>2
  <2>3. Len(recorded) <= Len(recorded') /\ Len(recorded') \in Nat
    BY <2>1 DEF TypeOK
  <2> QED
    BY <2>1, <2>2, <2>3 DEF Still
<1>3. CASE StartReplay \/ Parse \/ EndReplay \/ Stop \/ Terminated \/ UNCHANGED vars
  <2>1. UNCHANGED <<script, recorded, pos, newLog, replayed, cluster>>
    BY <1>3 DEF StartReplay, Parse, EndReplay, Stop, Terminated, vars
  <2> QED
    BY <2>1 DEF Still, TypeOK
<1> QED
  BY <1>1, <1>2, <1>3 DEF Next, Record, RunReplay

\* The line that is replayed.
LEMMA Replaying ==
  ASSUME TypeOK, ReplayInject \/ ReplayHeal
  PROVE  /\ pos + 1 \in 1 .. Size /\ script[pos + 1] \in Lines
         /\ pos \in Nat /\ pos' = pos + 1
         /\ UNCHANGED <<script, recorded, mpc>>
         /\ newLog' = Append(newLog, IF script[pos + 1].heal THEN script[pos + 1]
                                     ELSE Rewritten(script[pos + 1]))
BY DEF TypeOK, Size, ReplayInject, ReplayHeal, recVars

\* The log a replay writes is the script, but for lines with an open target,
\* for scripts of any length (ReplayRewritesScript).
THEOREM RewritesScript == Spec => []ReplayRewritesScript
<1>1. Init => ReplayRewritesScript
  BY DEF Init, ReplayRewritesScript
<1>2. TypeOK /\ ReplayRewritesScript /\ [Next]_vars => ReplayRewritesScript'
  <2> SUFFICES ASSUME TypeOK, ReplayRewritesScript, [Next]_vars
               PROVE  ReplayRewritesScript'
    OBVIOUS
  <2>1. CASE Still
    BY <2>1 DEF Still, ReplayRewritesScript
  <2>2. CASE ReplayInject \/ ReplayHeal
    <3> DEFINE line == script[pos + 1]
               new  == IF line.heal THEN line ELSE Rewritten(line)
    <3>1. new \in Lines /\ (line.target # Unresolved => new = line)
      BY <2>2, Replaying, Rewriting
    <3>2. newLog' = Append(newLog, new)
      BY <2>2, Replaying
    <3> HIDE DEF new
    <3>3. /\ Len(newLog') = pos + 1 /\ newLog'[pos + 1] = new
          /\ \A i \in 1 .. pos : newLog'[i] = newLog[i]
      BY <3>1, <3>2, AppendKeeps DEF TypeOK, ReplayRewritesScript
    <3>4. \A i \in 1 .. pos + 1 : i = pos + 1 \/ i \in 1 .. pos
      BY <2>2, Replaying
    <3>5. \A i \in 1 .. pos + 1 : script[i].target # Unresolved => newLog'[i] = script[i]
      BY <3>1, <3>3, <3>4 DEF ReplayRewritesScript
    <3> QED
      BY <2>2, <3>3, <3>5, Replaying DEF ReplayRewritesScript
  <2>3. CASE HealAll
    BY <2>3 DEF HealAll, recVars, ReplayRewritesScript
  <2> QED
    BY <2>1, <2>2, <2>3, StepKinds
<1> QED
  BY <1>1, <1>2, TypeCorrect, PTL DEF Spec

-----------------------------------------------------------------------------
(* The actions of a replay.                                                *)

Resolved == \A i \in 1 .. pos : script[i].target # Unresolved

\* As long as every line has had a target, the first actions of the recorded
\* run have been repeated, which are those whose "+" lines have been read.
Repeating ==
  Resolved =>
    /\ Len(replayed) <= Len(recorded)
    /\ \A k \in 1 .. Len(replayed) : replayed[k] = recorded[k]
    /\ \A k \in 1 .. Len(recorded) :
         k <= Len(replayed) <=> \E i \in 1 .. pos : ~script[i].heal /\ script[i].ordinal = k

LEMMA RepeatingStill ==
  ASSUME TypeOK, ScriptInv, Repeating, Still, Resolved'
  PROVE  Repeating'
<1>1. Resolved
  BY DEF Still, Resolved
<1>2. \A i \in 1 .. pos : script[i].ordinal <= Len(recorded)
  BY DEF ScriptInv, Ordered, TypeOK, Size
<1>3. Len(recorded) \in Nat /\ Len(replayed) \in Nat
  BY DEF TypeOK
<1>4. Len(replayed) <= Len(recorded) /\ \A k \in 1 .. Len(replayed) : replayed[k] = recorded[k]
  BY <1>1 DEF Repeating
<1>5. ASSUME NEW k \in 1 .. Len(recorded')
      PROVE  k <= Len(replayed) <=> \E i \in 1 .. pos : ~script'[i].heal /\ script'[i].ordinal = k
  <2>1. CASE k \in 1 .. Len(recorded)
    BY <1>1, <2>1 DEF Repeating, Still
  <2>2. CASE k \notin 1 .. Len(recorded)
    <3>1. k > Len(recorded)
      BY <1>3, <1>5, <2>2 DEF Still
    <3> QED
      BY <1>2, <1>3, <1>4, <3>1 DEF Still
  <2> QED
    BY <2>1, <2>2
<1>6. \A k \in 1 .. Len(replayed) : recorded'[k] = recorded[k]
  BY <1>3, <1>4 DEF Still
<1> QED
  BY <1>3, <1>4, <1>5, <1>6 DEF Repeating, Still

\* The next "+" line is that of the next recorded action.
LEMMA RepeatingInject ==
  ASSUME TypeOK, Readable, ScriptInv, Repeating, ReplayInject, Resolved'
  PROVE  Repeating'
<1> DEFINE line == script[pos + 1]
           n    == line.ordinal
<1>1. /\ pos + 1 \in 1 .. Size /\ line \in Lines /\ pos \in Nat /\ pos' = pos + 1
      /\ UNCHANGED <<script, recorded>>
      /\ ~line.heal
  BY Replaying DEF ReplayInject
<1>2. Resolved /\ line.target # Unresolved
  BY <1>1 DEF Resolved
<1>3. /\ Len(replayed) \in Nat /\ Len(recorded) \in Nat
      /\ n \in 1 .. Len(recorded)
      /\ recorded[n] = Deed(line.class, n, line.target)
  BY <1>1, <1>2 DEF ScriptInv, Ordered, Names, TypeOK, Lines
<1>4. \A i \in 1 .. pos : script[i].ordinal # n
  BY <1>1 DEF ScriptInv, Ordered, Size
<1>5. n > Len(replayed)
  BY <1>2, <1>3, <1>4 DEF Repeating
<1>6. n = Len(replayed) + 1
  <2>1. ASSUME n # Len(replayed) + 1
        PROVE  FALSE
    <3>1. Len(replayed) + 1 \in 1 .. n - 1 /\ Len(replayed) + 1 \in 1 .. Len(recorded)
      BY <1>3, <1>5, <2>1
    <3>2. PICK j \in 1 .. (pos + 1) - 1 : ~script[j].heal /\ script[j].ordinal = Len(replayed) + 1
      BY <1>1, <3>1 DEF ScriptInv, Ordered
    <3>3. j \in 1 .. pos
      BY <1>1
    <3>4. Len(replayed) + 1 <= Len(replayed)
      BY <1>2, <3>1, <3>2, <3>3 DEF Repeating
    <3> QED
      BY <1>3, <3>4
  <2> QED
    BY <2>1
<1>7. replayed' = Append(replayed, recorded[n])
  BY <1>2, <1>3 DEF ReplayInject, TargetsOf
<1>8. /\ Len(replayed') = n
      /\ \A k \in 1 .. n : replayed'[k] = recorded[k]
  <2>1. recorded[n] \in Replays
    BY <1>3, DeedsAreReplays DEF TypeOK
  <2>2. /\ Len(replayed') = Len(replayed) + 1
        /\ replayed'[Len(replayed) + 1] = recorded[n]
        /\ \A k \in 1 .. Len(replayed) : replayed'[k] = replayed[k]
    BY <1>7, <2>1, AppendKeeps DEF TypeOK
  <2>3. \A k \in 1 .. n : k = n \/ k \in 1 .. Len(replayed)
    BY <1>3, <1>6
  <2> QED
    BY <1>2, <1>6, <2>2, <2>3 DEF Repeating
<1>9. ASSUME NEW k \in 1 .. Len(recorded)
      PROVE  k <= n <=> \E i \in 1 .. pos + 1 : ~script[i].heal /\ script[i].ordinal = k
  <2>1. CASE k = n
    BY <1>1, <1>3, <2>1
  <2>2. CASE k # n
    <3>1. k <= n <=> k <= Len(replayed)
      BY <1>3, <1>6, <2>2
    <3>2. (\E i \in 1 .. pos + 1 : ~script[i].heal /\ script[i].ordinal = k)
             <=> \E i \in 1 .. pos : ~script[i].heal /\ script[i].ordinal = k
      <4>1. \A i \in 1 .. pos + 1 : i = pos + 1 \/ i \in 1 .. pos
        BY <1>1
      <4>2. \A i \in 1 .. pos : i \in 1 .. pos + 1
        BY <1>1
      <4> QED
        BY <2>2, <4>1, <4>2
    <3> QED
      BY <1>2, <3>1, <3>2 DEF Repeating
  <2> QED
    BY <2>1, <2>2
<1> QED
  BY <1>1, <1>3, <1>8, <1>9 DEF Repeating

\* A "-" line repeats no action.
LEMMA RepeatingHeal ==
  ASSUME TypeOK, ScriptInv, Repeating, ReplayHeal, Resolved'
  PROVE  Repeating'
<1>1. /\ pos \in Nat /\ pos' = pos + 1
      /\ UNCHANGED <<script, recorded, replayed>>
      /\ script[pos + 1].heal
  BY Replaying DEF ReplayHeal
<1>2. Resolved
  BY <1>1 DEF Resolved
<1>3. /\ \A i \in 1 .. pos + 1 : i = pos + 1 \/ i \in 1 .. pos
      /\ \A i \in 1 .. pos : i \in 1 .. pos + 1
  BY <1>1
<1>4. \A k : (\E i \in 1 .. pos + 1 : ~script[i].heal /\ script[i].ordinal = k)
               <=> \E i \in 1 .. pos : ~script[i].heal /\ script[i].ordinal = k
  BY <1>1, <1>3
<1> QED
  BY <1>1, <1>2, <1>4 DEF Repeating

LEMMA RepeatingInvariance == Spec => []Repeating
<1>1. Init => Repeating
  BY DEF Init, Repeating
<1>2. TypeOK /\ Readable /\ ScriptInv /\ Repeating /\ [Next]_vars => Repeating'
  <2> SUFFICES ASSUME TypeOK, Readable, ScriptInv, Repeating, [Next]_vars, Resolved'
               PROVE  Repeating'
    BY DEF Repeating
  <2>1. CASE HealAll
    BY <2>1 DEF HealAll, recVars, Repeating, Resolved
  <2> QED
    BY <2>1, StepKinds, RepeatingStill, RepeatingInject, RepeatingHeal
<1> QED
  BY <1>1, <1>2, TypeCorrect, ScriptInvariance, PTL DEF Spec

\* Up to the first line with an open target a replay does what the recorded run
\* did, in its order, for scripts of any length (ReplayRepeats).
THEOREM Repeats == Spec => []ReplayRepeats
<1>1. TypeOK /\ Repeating => ReplayRepeats
  <2> SUFFICES ASSUME TypeOK, Repeating, Resolved
               PROVE  IsPrefix(replayed, recorded)
    BY DEF ReplayRepeats, Resolved
  <2>1. /\ replayed \in Seq(Replays) /\ recorded \in Seq(Deeds)
        /\ Len(replayed) \in Nat /\ Len(replayed) <= Len(recorded)
        /\ \A k \in 1 .. Len(replayed) : replayed[k] = recorded[k]
    BY DEF TypeOK, Repeating
  <2>2. SubSeq(replayed, 1, Len(replayed)) = SubSeq(recorded, 1, Len(replayed))
    BY <2>1
  <2> QED
    BY <2>1, <2>2 DEF IsPrefix
<1> QED
  BY <1>1, TypeCorrect, RepeatingInvariance, PTL

-----------------------------------------------------------------------------
(* What the replayed lines leave on the cluster.                           *)

Begun(n) == \E i \in 1 .. pos : /\ script[i].ordinal = n
                                /\ script[i].class \in Healable \ Freezes
                                /\ TargetsOf(script[i]) # {}

Ended(n) == \E i \in 1 .. pos : script[i].ordinal = n /\ script[i].heal

\* Of the replayed lines about node m the last one is the "+" line of n.
LastFreeze(m, n) == \E i \in 1 .. pos : /\ script[i].ordinal = n /\ ~script[i].heal
                                       /\ About(i, m)
                                       /\ \A j \in i + 1 .. pos : ~About(j, m)

\* EffectsMatchScript, said of each ordinal.
Matching ==
  mpc # "over" =>
    /\ \A n \in 1 .. MaxActions : n \in chains <=> Begun(n) /\ ~Ended(n)
    /\ \A m \in Nodes, n \in 1 .. MaxActions : flag[m] = n <=> LastFreeze(m, n)

\* The next line is the only new one: for the partitions, ...
LEMMA NextLine ==
  ASSUME TypeOK, ReplayInject \/ ReplayHeal, NEW n \in 1 .. MaxActions
  PROVE  /\ Begun(n)' <=> \/ Begun(n)
                          \/ /\ script[pos + 1].ordinal = n
                             /\ script[pos + 1].class \in Healable \ Freezes
                             /\ TargetsOf(script[pos + 1]) # {}
         /\ Ended(n)' <=> Ended(n) \/ (script[pos + 1].ordinal = n /\ script[pos + 1].heal)
<1>1. pos \in Nat /\ pos' = pos + 1 /\ script' = script
  BY Replaying
<1>2. /\ \A i \in 1 .. pos + 1 : i = pos + 1 \/ i \in 1 .. pos
      /\ \A i \in 1 .. pos : i \in 1 .. pos + 1
      /\ pos + 1 \in 1 .. pos + 1
  BY <1>1
<1>3. Begun(n)' <=> \E i \in 1 .. pos + 1 : /\ script[i].ordinal = n
                                             /\ script[i].class \in Healable \ Freezes
                                             /\ TargetsOf(script[i]) # {}
  BY <1>1 DEF Begun, TargetsOf
<1>4. Ended(n)' <=> \E i \in 1 .. pos + 1 : script[i].ordinal = n /\ script[i].heal
  BY <1>1 DEF Ended
<1> QED
  BY <1>2, <1>3, <1>4 DEF Begun, Ended

\* ... and for the flag file of a node: it is the last one about the node, or
\* changes nothing.
LEMMA NextFreeze ==
  ASSUME TypeOK, ReplayInject \/ ReplayHeal, NEW m \in Nodes, NEW n \in 1 .. MaxActions
  PROVE  LastFreeze(m, n)' <=>
           IF About(pos + 1, m) THEN script[pos + 1].ordinal = n /\ ~script[pos + 1].heal
           ELSE LastFreeze(m, n)
<1>1. pos \in Nat /\ pos' = pos + 1 /\ script' = script
  BY Replaying
<1>2. LastFreeze(m, n)' <=> \E i \in 1 .. pos + 1 : /\ script[i].ordinal = n /\ ~script[i].heal
                                                   /\ About(i, m)
                                                   /\ \A j \in i + 1 .. pos + 1 : ~About(j, m)
  <2>1. \A i : About(i, m)' <=> About(i, m)
    BY <1>1 DEF About, TargetsOf, Covered
  <2> QED
    BY <1>1, <2>1 DEF LastFreeze
<1>3. CASE About(pos + 1, m)
  <2>1. ASSUME NEW i \in 1 .. pos + 1, \A j \in i + 1 .. pos + 1 : ~About(j, m)
        PROVE  i = pos + 1
    BY <1>1, <1>3, <2>1
  <2>2. pos + 1 \in 1 .. pos + 1 /\ \A j \in (pos + 1) + 1 .. pos + 1 : FALSE
    BY <1>1
  <2> QED
    BY <1>2, <1>3, <2>1, <2>2
<1>4. CASE ~About(pos + 1, m)
  <2>1. ASSUME NEW i \in 1 .. pos + 1, About(i, m)
        PROVE  i \in 1 .. pos
    BY <1>1, <1>4, <2>1
  <2>2. ASSUME NEW i \in 1 .. pos
        PROVE  /\ i \in 1 .. pos + 1
               /\ (\A j \in i + 1 .. pos + 1 : ~About(j, m))
                     <=> \A j \in i + 1 .. pos : ~About(j, m)
    <3>1. \A j \in i + 1 .. pos + 1 : j = pos + 1 \/ j \in i + 1 .. pos
      BY <1>1
    <3>2. \A j \in i + 1 .. pos : j \in i + 1 .. pos + 1
      BY <1>1
    <3>3. i \in 1 .. pos + 1
      BY <1>1
    <3> QED
      BY <1>4, <3>1, <3>2, <3>3
  <2> QED
    BY <1>2, <1>4, <2>1, <2>2 DEF LastFreeze
<1> QED
  BY <1>3, <1>4

\* A freeze that is replayed has at most one target.
LEMMA OneTarget ==
  ASSUME NEW line \in Lines, line.class \in Freezes,
         NEW t \in TargetsOf(line), NEW u \in TargetsOf(line)
  PROVE  t = u
BY ConstantsAssumption DEF TargetsOf

\* A "+" line is the first one of its ordinal: nothing has healed it yet.
LEMMA MatchingInject ==
  ASSUME TypeOK, ScriptInv, Matching, ReplayInject
  PROVE  Matching'
<1> DEFINE line == script[pos + 1]
<1>1. /\ pos + 1 \in 1 .. Size /\ line \in Lines /\ pos \in Nat
      /\ ~line.heal /\ mpc' = mpc
  BY Replaying DEF ReplayInject
<1>2. ~Ended(line.ordinal)
  BY <1>1 DEF ScriptInv, Ordered, Ended, Size
<1> SUFFICES ASSUME mpc # "over"
             PROVE  /\ \A n \in 1 .. MaxActions : n \in chains' <=> Begun(n)' /\ ~Ended(n)'
                    /\ \A m \in Nodes, n \in 1 .. MaxActions : flag'[m] = n <=> LastFreeze(m, n)'
  BY <1>1 DEF Matching
<1>3. \/ TargetsOf(line) = {} /\ UNCHANGED cluster
      \/ \E t \in TargetsOf(line) : Execute(line.class, line.ordinal, t)
  BY DEF ReplayInject
<1>4. ASSUME NEW n \in 1 .. MaxActions
      PROVE  n \in chains' <=> Begun(n)' /\ ~Ended(n)'
  <2>1. n \in chains <=> Begun(n) /\ ~Ended(n)
    BY DEF Matching
  <2>2. Ended(n)' <=> Ended(n)
    BY <1>1, NextLine
  <2>3. CASE TargetsOf(line) # {} /\ line.class \in Healable \ Freezes
    <3>1. Begun(n)' <=> Begun(n) \/ line.ordinal = n
      BY <2>3, NextLine
    <3>2. chains' = chains \cup {line.ordinal}
      BY <1>3, <2>3 DEF Execute
    <3>3. n \in chains' <=> n \in chains \/ line.ordinal = n
      BY <3>2
    <3> QED
      BY <1>2, <2>1, <2>2, <3>1, <3>3, Zenon
  <2>4. CASE ~(TargetsOf(line) # {} /\ line.class \in Healable \ Freezes)
    <3>1. Begun(n)' <=> Begun(n)
      BY <2>4, NextLine
    <3>2. chains' = chains
      BY <1>3, <2>4 DEF Execute, cluster
    <3> QED
      BY <2>1, <2>2, <3>1, <3>2
  <2> QED
    BY <2>3, <2>4
<1>5. ASSUME NEW m \in Nodes, NEW n \in 1 .. MaxActions
      PROVE  flag'[m] = n <=> LastFreeze(m, n)'
  <2>1. flag[m] = n <=> LastFreeze(m, n)
    BY DEF Matching
  <2>2. CASE About(pos + 1, m)
    <3>1. line.class \in Freezes /\ \A t \in TargetsOf(line) : m \in Covered(line.class, t)
      BY <1>1, <2>2, OneTarget DEF About, Covered
    <3>2. flag'[m] = line.ordinal
      BY <1>3, <2>2, <3>1 DEF About, Execute
    <3> QED
      BY <1>1, <2>2, <3>2, NextFreeze
  <2>3. CASE ~About(pos + 1, m)
    <3>1. flag'[m] = flag[m]
      <4>1. CASE UNCHANGED cluster
        BY <4>1 DEF cluster
      <4>2. ASSUME NEW t \in TargetsOf(line), Execute(line.class, line.ordinal, t)
            PROVE  flag'[m] = flag[m]
        BY <2>3, <4>2 DEF About, Execute
      <4> QED
        BY <1>3, <4>1, <4>2
    <3> QED
      BY <2>1, <2>3, <3>1, NextFreeze
  <2> QED
    BY <2>2, <2>3
<1> QED
  BY <1>4, <1>5

\* A "-" line is about what the "+" line of its ordinal has begun.
LEMMA MatchingHeal ==
  ASSUME TypeOK, Readable, ScriptInv, Matching, ReplayHeal
  PROVE  Matching'
<1> DEFINE line == script[pos + 1]
<1>1. /\ pos + 1 \in 1 .. Size /\ line \in Lines /\ pos \in Nat
      /\ line.heal /\ mpc' = mpc /\ Heal(line.class, line.ordinal, line.target)
  BY Replaying DEF ReplayHeal
<1>2. TargetsOf(line) = {line.target}
  BY <1>1, ConstantsAssumption DEF Readable, HasTarget, TargetsOf, Size
<1> SUFFICES ASSUME mpc # "over"
             PROVE  /\ \A n \in 1 .. MaxActions : n \in chains' <=> Begun(n)' /\ ~Ended(n)'
                    /\ \A m \in Nodes, n \in 1 .. MaxActions : flag'[m] = n <=> LastFreeze(m, n)'
  BY <1>1 DEF Matching
<1>3. ASSUME NEW n \in 1 .. MaxActions
      PROVE  n \in chains' <=> Begun(n)' /\ ~Ended(n)'
  <2>1. n \in chains <=> Begun(n) /\ ~Ended(n)
    BY DEF Matching
  <2>2. Ended(n)' <=> Ended(n) \/ line.ordinal = n
    BY <1>1, NextLine
  <2>3. line.ordinal # n => (Begun(n)' <=> Begun(n))
    BY NextLine
  <2>4. line.class \in Freezes /\ line.ordinal = n => ~Begun(n)
    <3>1. \A i \in 1 .. pos : i \in 1 .. Size
      BY <1>1 DEF Size
    <3>2. \A i \in 1 .. pos : script[i].ordinal = line.ordinal => script[i].class = line.class
      BY <1>1, <3>1 DEF ScriptInv, Ordered, Names
    <3> QED
      BY <3>2 DEF Begun
  <2>5. n \in chains' <=> n \in chains /\ (line.class \in Freezes \/ line.ordinal # n)
    BY <1>1 DEF Heal
  <2> QED
    BY <2>1, <2>2, <2>3, <2>4, <2>5, Zenon
<1>4. ASSUME NEW m \in Nodes, NEW n \in 1 .. MaxActions
      PROVE  flag'[m] = n <=> LastFreeze(m, n)'
  <2>1. flag[m] = n <=> LastFreeze(m, n)
    BY DEF Matching
  <2>2. flag'[m] = IF About(pos + 1, m) THEN 0 ELSE flag[m]
    BY <1>1, <1>2 DEF About, Heal
  <2>3. 0 # n
    OBVIOUS
  <2> QED
    BY <1>1, <2>1, <2>2, <2>3, NextFreeze
<1> QED
  BY <1>3, <1>4

LEMMA MatchingStill ==
  ASSUME Matching, Still, [Next]_vars
  PROVE  Matching'
<1>1. mpc' # "over" => mpc # "over"
  BY DEF Next, Record, RecordInject, RecordHeal, StartReplay, RunReplay, Parse, ReplayInject,
         ReplayHeal, EndReplay, Stop, HealAll, Terminated, vars, replayVars
<1>2. ASSUME NEW n \in 1 .. MaxActions
      PROVE  (Begun(n)' <=> Begun(n)) /\ (Ended(n)' <=> Ended(n))
  BY DEF Still, Begun, Ended, TargetsOf
<1>3. ASSUME NEW m \in Nodes, NEW n \in 1 .. MaxActions
      PROVE  LastFreeze(m, n)' <=> LastFreeze(m, n)
  <2>1. \A i \in 1 .. pos : About(i, m)' <=> About(i, m)
    BY DEF Still, About, TargetsOf, Covered
  <2>2. \A i \in 1 .. pos : \A j \in i + 1 .. pos : j \in 1 .. pos
    OBVIOUS
  <2> QED
    BY <2>1, <2>2 DEF Still, LastFreeze
<1>4. UNCHANGED cluster
  BY DEF Still
<1> QED
  BY <1>1, <1>2, <1>3, <1>4 DEF Matching, cluster

MatchingInv == TypeOK /\ Readable /\ ScriptInv /\ Matching

LEMMA MatchingInvariance == Spec => []MatchingInv
<1>1. Init => Matching
  BY DEF Init, Matching, Begun, LastFreeze
<1>2. TypeOK /\ Readable /\ ScriptInv /\ Matching /\ [Next]_vars => Matching'
  <2>1. HealAll => Matching'
    BY DEF HealAll, Matching
  <2> QED
    BY <2>1, StepKinds, MatchingStill, MatchingInject, MatchingHeal
<1> QED
  BY <1>1, <1>2, TypeCorrect, ScriptInvariance, PTL DEF Spec, MatchingInv

\* At every point of a replay the partitions in effect are those whose "+" line
\* has been replayed and whose "-" line has not, and the flag file of a node is
\* that of the last line about it, for any scripts (EffectsMatchScript).
THEOREM EffectsFollowScript == Spec => []EffectsMatchScript
<1>1. TypeOK /\ Matching => EffectsMatchScript
  <2> SUFFICES ASSUME TypeOK, Matching, mpc # "over"
               PROVE  EffectsMatchScript
    BY DEF EffectsMatchScript
  <2>1. chains = {n \in 1 .. MaxActions : Begun(n) /\ ~Ended(n)}
    BY DEF TypeOK, Matching
  <2>2. \A m \in Nodes, n \in 1 .. MaxActions : flag[m] = n <=> LastFreeze(m, n)
    BY DEF Matching
  <2> QED
    BY <2>1, <2>2 DEF EffectsMatchScript, Begun, Ended, LastFreeze
<1> QED
  BY <1>1, MatchingInvariance, PTL DEF MatchingInv

-----------------------------------------------------------------------------
(* What a complete replay leaves on the cluster.                           *)

\* In the recorded run what is not open any more has its "-" line, and outside
\* of a heal phase no "-" line follows the "+" line of what is open.
Settled ==
  /\ \A k \in 1 .. Len(recorded) : recorded[k].ordinal = k
  /\ \A k \in 1 .. Len(recorded) :
       recorded[k].class \in Healable /\ recorded[k] \notin open =>
         \E i \in 1 .. Size : script[i].heal /\ script[i].ordinal = k
  /\ ~healing => \A i, j \in 1 .. Size :
       script[i].heal /\ ~script[j].heal /\ recorded[script[j].ordinal] \in open => i < j
  /\ mpc # "record" => ~healing

LEMMA SettledInject ==
  ASSUME TypeOK, ScriptInv, Settled,
         NEW c \in Classes, NEW t \in Targets, NEW known \in BOOLEAN, RecordInject(c, t, known)
  PROVE  Settled'
<1> DEFINE n == Len(recorded) + 1
           target == IF known THEN t ELSE Unresolved
           line == Line(FALSE, c, n, target)
           deed == Deed(c, n, t)
<1>0. n \in 1 .. MaxActions
  BY ConstantsAssumption DEF RecordInject, TypeOK
<1>1. /\ n \in 1 .. MaxActions
      /\ script' = Append(script, line)
      /\ recorded' = Append(recorded, deed)
      /\ open' = open \cup {deed}
      /\ mpc = "record" /\ UNCHANGED <<healing, mpc>>
  BY <1>0 DEF RecordInject
<1>2. target \in Targets \cup {Unresolved}
  OBVIOUS
<1> HIDE DEF target
<1>3. line \in Lines /\ ~line.heal /\ deed \in Deeds /\ deed.ordinal = n
  BY <1>1, <1>2 DEF Line, Lines, Deed, Deeds
<1> HIDE DEF line, deed
<1>4. /\ Size' = Size + 1 /\ Size \in Nat
      /\ script'[Size + 1] = line
      /\ \A i \in 1 .. Size : script'[i] = script[i] /\ script[i] \in Lines
  BY <1>1, <1>3, AppendKeeps DEF TypeOK, Size
<1>5. /\ Len(recorded') = Len(recorded) + 1 /\ Len(recorded) \in Nat
      /\ recorded'[n] = deed
      /\ \A k \in 1 .. Len(recorded) : recorded'[k] = recorded[k]
  BY <1>1, <1>3, AppendKeeps DEF TypeOK
<1>6. \A k \in 1 .. Len(recorded') : k = n \/ k \in 1 .. Len(recorded)
  BY <1>5
<1>7. \A i \in 1 .. Size' : i = Size + 1 \/ i \in 1 .. Size
  BY <1>4
<1>8. \A k \in 1 .. Len(recorded') : recorded'[k].ordinal = k
  BY <1>3, <1>5, <1>6 DEF Settled
<1>9. ASSUME NEW k \in 1 .. Len(recorded'),
             recorded'[k].class \in Healable, recorded'[k] \notin open'
      PROVE  \E i \in 1 .. Size' : script'[i].heal /\ script'[i].ordinal = k
  <2>1. k \in 1 .. Len(recorded)
    BY <1>1, <1>5, <1>6, <1>9
  <2>2. recorded[k].class \in Healable /\ recorded[k] \notin open
    BY <1>1, <1>5, <1>9, <2>1
  <2>3. PICK i \in 1 .. Size : script[i].heal /\ script[i].ordinal = k
    BY <2>1, <2>2 DEF Settled
  <2>4. i \in 1 .. Size' /\ script'[i] = script[i]
    BY <1>4
  <2> QED
    BY <2>3, <2>4
<1>10. ASSUME ~healing', NEW i \in 1 .. Size', NEW j \in 1 .. Size',
              script'[i].heal, ~script'[j].heal, recorded'[script'[j].ordinal] \in open'
       PROVE  i < j
  <2>1. i \in 1 .. Size /\ script'[i] = script[i]
    BY <1>3, <1>4, <1>7, <1>10
  <2>2. CASE j = Size + 1
    BY <1>4, <2>1, <2>2
  <2>3. CASE j \in 1 .. Size
    <3>1. script'[j] = script[j] /\ script[j].ordinal \in 1 .. Len(recorded)
      BY <1>4, <1>5, <2>3 DEF ScriptInv, Ordered, Lines
    <3>2. /\ recorded'[script[j].ordinal] = recorded[script[j].ordinal]
          /\ recorded[script[j].ordinal].ordinal = script[j].ordinal
      BY <1>5, <3>1 DEF Settled
    <3>3. script[j].ordinal # n
      BY <1>5, <3>1
    <3>4. recorded[script[j].ordinal] \in open
      BY <1>1, <1>3, <1>10, <3>1, <3>2, <3>3
    <3>5. ~healing /\ script[i].heal /\ ~script[j].heal
      BY <1>1, <1>10, <2>1, <3>1
    <3> QED
      BY <2>1, <2>3, <3>4, <3>5 DEF Settled
  <2> QED
    BY <1>7, <2>2, <2>3
<1> QED
  BY <1>1, <1>8, <1>9, <1>10 DEF Settled

LEMMA SettledHeal ==
  ASSUME TypeOK, ScriptInv, Settled, NEW d \in open, RecordHeal(d)
  PROVE  Settled'
<1> DEFINE line == Line(TRUE, d.class, d.ordinal, d.target)
<1>1. /\ open' = open \ {d}
      /\ script' = IF d.class \in Healable THEN Append(script, line) ELSE script
      /\ healing' = (open' # {})
      /\ mpc = "record" /\ UNCHANGED <<recorded, mpc>>
  BY DEF RecordHeal
<1>2. line \in Lines /\ line.heal /\ line.ordinal = d.ordinal
  BY DEF Line, Lines, TypeOK, Deeds
<1> HIDE DEF line
<1>3. ASSUME NEW k \in 1 .. Len(recorded), recorded[k].class \in Healable, recorded[k] \notin open'
      PROVE  \E i \in 1 .. Size' : script'[i].heal /\ script'[i].ordinal = k
  <2>1. CASE recorded[k] = d
    <3>1. d.ordinal = k
      BY <1>3, <2>1 DEF Settled
    <3>2. /\ Size' = Size + 1 /\ Size \in Nat /\ script'[Size + 1] = line
      BY <1>1, <1>2, <1>3, <2>1, AppendKeeps DEF TypeOK, Size
    <3>3. Size + 1 \in 1 .. Size'
      BY <3>2
    <3> QED
      BY <1>2, <3>1, <3>2, <3>3
  <2>2. CASE recorded[k] # d
    <3>1. recorded[k] \notin open
      BY <1>1, <1>3, <2>2
    <3>2. PICK i \in 1 .. Size : script[i].heal /\ script[i].ordinal = k
      BY <1>3, <3>1 DEF Settled
    <3>3. i \in 1 .. Size' /\ script'[i] = script[i]
      <4>1. CASE d.class \in Healable
        BY <1>1, <1>2, <4>1, AppendKeeps DEF TypeOK, Size
      <4>2. CASE d.class \notin Healable
        BY <1>1, <4>2 DEF Size
      <4> QED
        BY <4>1, <4>2
    <3> QED
      BY <3>2, <3>3
  <2> QED
    BY <2>1, <2>2
<1>4. ~healing' => open' = {}
  BY <1>1
<1> QED
  BY <1>1, <1>3, <1>4 DEF Settled

LEMMA SettledInvariance == Spec => []Settled
<1>1. Init => Settled
  BY DEF Init, Settled, Size
<1>2. TypeOK /\ ScriptInv /\ Settled /\ [Next]_vars => Settled'
  <2> SUFFICES ASSUME TypeOK, ScriptInv, Settled, [Next]_vars
               PROVE  Settled'
    OBVIOUS
  <2>1. CASE StartReplay \/ RunReplay \/ Stop \/ HealAll \/ Terminated \/ UNCHANGED vars
    <3>1. UNCHANGED <<script, recorded, open, healing>>
      BY <2>1 DEF StartReplay, RunReplay, Parse, ReplayInject, ReplayHeal, EndReplay, Stop,
                  HealAll, Terminated, vars, recVars
    <3>2. mpc' # "record" => ~healing
      BY <2>1 DEF StartReplay, RunReplay, Parse, ReplayInject, ReplayHeal, EndReplay, Stop,
                  HealAll, Terminated, vars, Settled
    <3>3. Size' = Size
      BY <3>1 DEF Size
    <3> QED
      BY <3>1, <3>2, <3>3 DEF Settled
  <2> QED
    BY <2>1, SettledInject, SettledHeal DEF Next, Record
<1> QED
  BY <1>1, <1>2, TypeCorrect, ScriptInvariance, PTL DEF Spec

\* A node without a flag file has had every freeze of it followed by a heal of it.
Thawed ==
  mpc # "over" =>
    \A m \in Nodes : flag[m] = 0 =>
      \A i \in 1 .. pos : ~script[i].heal /\ About(i, m) =>
        \E j \in i + 1 .. pos : script[j].heal /\ About(j, m)

LEMMA ThawedInject ==
  ASSUME TypeOK, Thawed, Matching', ReplayInject
  PROVE  Thawed'
<1>1. /\ pos \in Nat /\ pos' = pos + 1 /\ script' = script /\ mpc' = mpc
      /\ pos + 1 \in 1 .. Size /\ script[pos + 1] \in Lines /\ ~script[pos + 1].heal
  BY Replaying DEF ReplayInject
<1> SUFFICES ASSUME mpc # "over", NEW m \in Nodes, flag'[m] = 0,
                    NEW i \in 1 .. pos + 1, ~script[i].heal, About(i, m)'
             PROVE  \E j \in i + 1 .. pos + 1 : script[j].heal /\ About(j, m)'
  BY <1>1 DEF Thawed
<1>2. \A j : About(j, m)' <=> About(j, m)
  BY <1>1 DEF About, TargetsOf, Covered
<1>3. ~About(pos + 1, m)
  <2>1. CASE About(pos + 1, m)
    <3>1. script[pos + 1].ordinal \in 1 .. MaxActions
      BY <1>1 DEF Lines
    <3>2. flag'[m] = script[pos + 1].ordinal
      BY <1>1, <2>1, <3>1, NextFreeze DEF Matching
    <3> QED
      BY <3>1, <3>2
  <2> QED
    BY <2>1
<1>4. i \in 1 .. pos
  BY <1>1, <1>2, <1>3
<1>5. flag[m] = 0
  <2>1. CASE UNCHANGED cluster
    BY <2>1 DEF cluster
  <2>2. ASSUME NEW t \in TargetsOf(script[pos + 1]),
               Execute(script[pos + 1].class, script[pos + 1].ordinal, t)
        PROVE  flag[m] = 0
    BY <1>3, <2>2 DEF About, Execute
  <2> QED
    BY <2>1, <2>2 DEF ReplayInject
<1>6. PICK j \in i + 1 .. pos : script[j].heal /\ About(j, m)
  BY <1>2, <1>4, <1>5 DEF Thawed
<1>7. j \in i + 1 .. pos + 1
  BY <1>1, <1>4
<1> QED
  BY <1>2, <1>6, <1>7

LEMMA ThawedHeal ==
  ASSUME TypeOK, Readable, Thawed, ReplayHeal
  PROVE  Thawed'
<1> DEFINE line == script[pos + 1]
<1>1. /\ pos \in Nat /\ pos' = pos + 1 /\ script' = script /\ mpc' = mpc
      /\ pos + 1 \in 1 .. Size /\ line \in Lines /\ line.heal
      /\ Heal(line.class, line.ordinal, line.target)
  BY Replaying DEF ReplayHeal
<1>2. TargetsOf(line) = {line.target}
  BY <1>1, ConstantsAssumption DEF Readable, HasTarget, TargetsOf, Size
<1> SUFFICES ASSUME mpc # "over", NEW m \in Nodes, flag'[m] = 0,
                    NEW i \in 1 .. pos + 1, ~script[i].heal, About(i, m)'
             PROVE  \E j \in i + 1 .. pos + 1 : script[j].heal /\ About(j, m)'
  BY <1>1 DEF Thawed
<1>3. \A j : About(j, m)' <=> About(j, m)
  BY <1>1 DEF About, TargetsOf, Covered
<1>4. i \in 1 .. pos
  BY <1>1
<1>5. CASE About(pos + 1, m)
  <2>1. pos + 1 \in i + 1 .. pos + 1
    BY <1>1, <1>4
  <2> QED
    BY <1>1, <1>3, <1>5, <2>1
<1>6. CASE ~About(pos + 1, m)
  <2>1. flag[m] = 0
    BY <1>1, <1>2, <1>6 DEF About, Heal
  <2>2. PICK j \in i + 1 .. pos : script[j].heal /\ About(j, m)
    BY <1>3, <1>4, <2>1 DEF Thawed
  <2>3. j \in i + 1 .. pos + 1
    BY <1>1, <1>4
  <2> QED
    BY <1>3, <2>2, <2>3
<1> QED
  BY <1>5, <1>6

LEMMA ThawedStill ==
  ASSUME TypeOK, Thawed, Still, [Next]_vars
  PROVE  Thawed'
<1>1. mpc' # "over" => mpc # "over"
  BY DEF Next, Record, RecordInject, RecordHeal, StartReplay, RunReplay, Parse, ReplayInject,
         ReplayHeal, EndReplay, Stop, HealAll, Terminated, vars, replayVars
<1>2. \A m \in Nodes : \A i \in 1 .. pos : About(i, m)' <=> About(i, m)
  BY DEF Still, About, TargetsOf, Covered
<1>3. pos' = pos /\ flag' = flag /\ \A i \in 1 .. pos : script'[i] = script[i]
  BY DEF Still, cluster
<1> SUFFICES ASSUME mpc # "over", NEW m \in Nodes, flag[m] = 0,
                    NEW i \in 1 .. pos, ~script[i].heal, About(i, m)
             PROVE  \E j \in i + 1 .. pos : script'[j].heal /\ About(j, m)'
  BY <1>1, <1>2, <1>3 DEF Thawed
<1>4. PICK j \in i + 1 .. pos : script[j].heal /\ About(j, m)
  BY DEF Thawed
<1>5. j \in 1 .. pos
  BY DEF TypeOK
<1> QED
  BY <1>2, <1>3, <1>4, <1>5

LEMMA ThawedInvariance == Spec => []Thawed
<1>1. Init => Thawed
  BY DEF Init, Thawed
<1>2. MatchingInv /\ MatchingInv' /\ Thawed /\ [Next]_vars => Thawed'
  <2>1. HealAll => Thawed'
    BY DEF HealAll, Thawed
  <2> QED
    BY <2>1, StepKinds, ThawedStill, ThawedInject, ThawedHeal DEF MatchingInv
<1> QED
  BY <1>1, <1>2, MatchingInvariance, PTL DEF Spec

\* At the end of a complete replay.
Replayed == /\ mpc \notin {"record", "over"}
            /\ pos = Size
            /\ \A i \in 1 .. pos : script[i].target # Unresolved

\* Each line of a log without open targets is about one recorded action.
LEMMA LineOf ==
  ASSUME TypeOK, ScriptInv, Settled, Replayed, NEW i \in 1 .. pos
  PROVE  LET d == recorded[script[i].ordinal]
         IN /\ script[i].ordinal \in 1 .. Len(recorded)
            /\ d.ordinal = script[i].ordinal /\ d.class = script[i].class
            /\ TargetsOf(script[i]) = {d.target}
            /\ \A m : About(i, m) <=> m \in Covered(d.class, d.target)
<1> DEFINE n == script[i].ordinal
           d == recorded[n]
<1>1. i \in 1 .. Size /\ script[i] \in Lines /\ script[i].target # Unresolved
  BY DEF Replayed, TypeOK, Size
<1>2. n \in 1 .. Len(recorded)
  <2>1. n \in Nat /\ n >= 1 /\ Len(recorded) \in Nat
    BY <1>1 DEF TypeOK, Lines
  <2>2. n <= Len(recorded)
    BY <1>1 DEF ScriptInv, Ordered
  <2> QED
    BY <2>1, <2>2
<1>3. d = Deed(script[i].class, n, script[i].target)
  BY <1>1 DEF ScriptInv, Ordered, Names
<1>4. d.class = script[i].class /\ d.target = script[i].target /\ d.ordinal = n
  BY <1>3 DEF Deed
<1>5. TargetsOf(script[i]) = {script[i].target}
  BY <1>1 DEF TargetsOf
<1> HIDE DEF d
<1> QED
  BY <1>2, <1>4, <1>5 DEF About, d

\* What is open has its "+" line, and no "-" line after it, whatever it is about.
LEMMA OpenLine ==
  ASSUME TypeOK, ScriptInv, Settled, Replayed, NEW d \in open
  PROVE  /\ d.ordinal \in 1 .. Len(recorded) /\ recorded[d.ordinal] = d
         /\ ~Ended(d.ordinal)
         /\ \E i \in 1 .. pos : /\ ~script[i].heal /\ script[i].ordinal = d.ordinal
                                /\ \A j \in i + 1 .. pos : ~script[j].heal
<1>1. /\ d.ordinal \in 1 .. Len(recorded) /\ recorded[d.ordinal] = d
      /\ \A i \in 1 .. Size : script[i].ordinal = d.ordinal => ~script[i].heal
  BY DEF ScriptInv, Pending, TypeOK, Deeds
<1>2. PICK i \in 1 .. Size : ~script[i].heal /\ script[i].ordinal = d.ordinal
  BY <1>1 DEF ScriptInv, Ordered
<1>3. ASSUME NEW j \in i + 1 .. pos, script[j].heal
      PROVE  FALSE
  <2>1. j \in 1 .. Size /\ i < j /\ ~healing
    BY <1>2 DEF Replayed, Settled, TypeOK, Size
  <2>2. j < i
    BY <1>1, <1>2, <1>3, <2>1 DEF Settled
  <2> QED
    BY <2>1, <2>2
<1> QED
  BY <1>1, <1>2, <1>3 DEF Replayed, Ended

\* What has been begun and not ended is open.
LEMMA StillOpen ==
  ASSUME TypeOK, ScriptInv, Settled, Replayed,
         NEW n \in 1 .. Len(recorded), recorded[n].class \in Healable, ~Ended(n)
  PROVE  recorded[n] \in open
BY DEF Settled, Ended, Replayed

LEMMA OpenPartitions ==
  ASSUME TypeOK, ScriptInv, Settled, Matching, Replayed
  PROVE  chains = {d.ordinal : d \in {d \in open : d.class \in Healable \ Freezes}}
<1>1. ASSUME NEW n \in chains
      PROVE  \E d \in open : d.class \in Healable \ Freezes /\ d.ordinal = n
  <2>1. Begun(n) /\ ~Ended(n)
    BY <1>1 DEF Matching, Replayed, TypeOK
  <2>2. PICK i \in 1 .. pos : script[i].ordinal = n /\ script[i].class \in Healable \ Freezes
    BY <2>1 DEF Begun
  <2>3. /\ n \in 1 .. Len(recorded)
        /\ recorded[n].class \in Healable \ Freezes /\ recorded[n].ordinal = n
    BY <2>2, LineOf
  <2> QED
    BY <2>1, <2>3, StillOpen
<1>2. ASSUME NEW d \in open, d.class \in Healable \ Freezes
      PROVE  d.ordinal \in chains
  <2>1. PICK i \in 1 .. pos : script[i].ordinal = d.ordinal
    BY OpenLine
  <2>2. /\ recorded[d.ordinal] = d /\ ~Ended(d.ordinal)
    BY OpenLine
  <2>3. script[i].class = d.class /\ TargetsOf(script[i]) # {}
    BY <2>1, <2>2, LineOf
  <2>4. Begun(d.ordinal)
    BY <1>2, <2>1, <2>3 DEF Begun
  <2>5. d.ordinal \in 1 .. MaxActions
    BY DEF TypeOK, Deeds
  <2> QED
    BY <2>2, <2>4, <2>5 DEF Matching, Replayed
<1> QED
  BY <1>1, <1>2

\* A freeze that is open has covered its nodes, and its own or a later one's flag
\* file is there.
LEMMA OpenFreeze ==
  ASSUME TypeOK, ScriptInv, Settled, Matching, Thawed, Replayed,
         NEW m \in Nodes, NEW d \in open, m \in Covered(d.class, d.target)
  PROVE  flag[m] # 0 /\ d.ordinal <= flag[m]
<1>1. /\ d.ordinal \in 1 .. Len(recorded) /\ recorded[d.ordinal] = d
      /\ Len(recorded) \in Nat /\ pos \in Nat /\ pos = Size
  BY OpenLine DEF TypeOK, Replayed
<1>2. PICK i \in 1 .. pos : /\ ~script[i].heal /\ script[i].ordinal = d.ordinal
                           /\ \A j \in i + 1 .. pos : ~script[j].heal
  BY OpenLine
<1>3. About(i, m)
  BY <1>1, <1>2, LineOf
<1>4. flag[m] # 0
  BY <1>2, <1>3 DEF Thawed, Replayed
<1>5. flag[m] \in 1 .. MaxActions
  BY <1>4, ConstantsAssumption DEF TypeOK
<1>6. PICK k \in 1 .. pos : /\ script[k].ordinal = flag[m] /\ ~script[k].heal
                           /\ \A j \in k + 1 .. pos : ~About(j, m)
  BY <1>5 DEF Matching, LastFreeze, Replayed
<1>7. i <= k
  BY <1>1, <1>3, <1>6
<1>8. ASSUME flag[m] < d.ordinal
      PROVE  FALSE
  <2>1. flag[m] \in 1 .. script[i].ordinal - 1
    BY <1>1, <1>2, <1>5, <1>8
  <2>2. PICK j \in 1 .. i - 1 : ~script[j].heal /\ script[j].ordinal = flag[m]
    <3>1. i \in 1 .. Size /\ ~script[i].heal
      BY <1>1, <1>2
    <3>2. \A n \in 1 .. script[i].ordinal - 1 :
            \E j \in 1 .. i - 1 : ~script[j].heal /\ script[j].ordinal = n
      BY <3>1, Zenon DEF ScriptInv, Ordered
    <3> QED
      BY <2>1, <3>2
  <2>3. j < k /\ j \in 1 .. Size /\ k \in 1 .. Size
    BY <1>1, <1>7
  <2> QED
    BY <1>6, <2>2, <2>3 DEF ScriptInv, Ordered
<1> QED
  BY <1>1, <1>4, <1>5, <1>8

\* The flag file of a node is that of an open freeze of the node.
LEMMA FlagIsOpen ==
  ASSUME TypeOK, ScriptInv, Settled, Matching, Replayed, NEW m \in Nodes, flag[m] # 0
  PROVE  \E d \in open : m \in Covered(d.class, d.target) /\ d.ordinal = flag[m]
<1> DEFINE n == flag[m]
           d == recorded[n]
<1>1. n \in 1 .. MaxActions /\ pos \in Nat /\ pos = Size
  BY ConstantsAssumption DEF TypeOK, Replayed
<1>2. PICK i \in 1 .. pos : /\ script[i].ordinal = n /\ ~script[i].heal
                           /\ About(i, m) /\ \A j \in i + 1 .. pos : ~About(j, m)
  BY <1>1 DEF Matching, LastFreeze, Replayed
<1>3. n \in 1 .. Len(recorded) /\ d.ordinal = n /\ m \in Covered(d.class, d.target)
  BY <1>2, LineOf
<1>4. d.class \in Healable
  BY <1>3, ConstantsAssumption DEF Covered
<1>5. ASSUME NEW j \in 1 .. pos, script[j].ordinal = n, script[j].heal
      PROVE  FALSE
  <2>1. About(j, m)
    BY <1>3, <1>5, LineOf
  <2>2. i # j
    BY <1>2, <1>5
  <2>3. j < i
    BY <1>1, <1>2, <2>1, <2>2
  <2> QED
    BY <1>1, <1>2, <1>5, <2>3 DEF ScriptInv, Ordered
<1>6. d \in open
  BY <1>3, <1>4, <1>5, StillOpen DEF Ended
<1> QED
  BY <1>3, <1>6

\* A complete replay of a log without open targets leaves what the recorded run
\* had open at its end, for any scripts (ReplayLeavesOpenFaults).
THEOREM LeavesOpenFaults == Spec => []ReplayLeavesOpenFaults
<1>1. MatchingInv /\ Settled /\ Thawed => ReplayLeavesOpenFaults
  <2> SUFFICES ASSUME MatchingInv, Settled, Thawed, Replayed
               PROVE  ReplayLeavesOpenFaults
    BY DEF ReplayLeavesOpenFaults, Replayed, Size
  <2> USE DEF MatchingInv
  <2>1. ASSUME NEW m \in Nodes
        PROVE  LET freezes == {d.ordinal : d \in {d \in open : m \in Covered(d.class, d.target)}}
               IN IF freezes = {} THEN flag[m] = 0
                  ELSE flag[m] \in freezes /\ \A n \in freezes : n <= flag[m]
    <3> DEFINE freezes == {d.ordinal : d \in {d \in open : m \in Covered(d.class, d.target)}}
    <3>1. flag[m] # 0 => flag[m] \in freezes
      BY FlagIsOpen
    <3>2. \A n \in freezes : flag[m] # 0 /\ n <= flag[m]
      BY OpenFreeze
    <3> QED
      BY <3>1, <3>2
  <2> QED
    BY <2>1, OpenPartitions DEF ReplayLeavesOpenFaults
<1> QED
  BY <1>1, MatchingInvariance, SettledInvariance, ThawedInvariance, PTL
=============================================================================
