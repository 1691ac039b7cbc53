--------------------------- MODULE PartitionProofs ---------------------------
(***************************************************************************)
(* Proofs about Partition, for any nodes and datacenters, any classes of   *)
(* partitions, any number of overlapping partitions, of test runs and of   *)
(* commands that fail.                                                     *)
(***************************************************************************)
EXTENDS Partition, FiniteSetTheorems, FunctionTheorems, SequenceTheorems,
        TLAPS

-----------------------------------------------------------------------------
(* An action and the firewalls.                                            *)

\* The hooks and the nodes an action filters, and the chain it has for a hook.
HooksOf(a) == IF a.hooks = <<>> THEN {"INPUT"} ELSE ToSet(a.hooks)
NodesOf(a) == IF a.hooks = <<>> THEN Nodes ELSE {a.node}
ChainOf(a, h) ==
  IF a.hooks = <<>> THEN ChainName(a.ordinal) ELSE DirectionalChainName(a.ordinal, h)

\* The hook a chain is linked to.
HookOf(c) == IF c.suffix = "OUT" THEN "OUTPUT" ELSE "INPUT"

\* The action has a chain c at node n.
Site(a, n, c) == n \in NodesOf(a) /\ HookOf(c) \in HooksOf(a) /\ c = ChainOf(a, HookOf(c))

ActionOK(a) ==
  /\ a \in Action
  /\ a.hooks # <<>> => a.node \in Nodes
  /\ \A b \in a.design : b.at \in NodesOf(a) /\ b.hook \in HooksOf(a)
  /\ a.kind = "ring" =>
       a.hooks = <<>> /\ \E order \in SetToSeqs(Nodes) : a.design = RingDesign(order)

Lookup        == Cmd("lookup", "runner", NoChain, "-", "-")
FlushOf(n, c)  == Cmd("flush", n, c, "-", "-")
DeleteOf(n, c) == Cmd("delete", n, c, "-", "-")
DropOf(a, b)   == Cmd("drop", b.at, ChainOf(a, b.hook), b.hook, b.peer)

-----------------------------------------------------------------------------
(* The plan: what may be in it, and in which order.                        *)

\* Commands of execute() and of heal().
ExecuteCommand(a, c) ==
  /\ c \in Command
  /\ \/ c.op = "lookup"
     \/ c.op = "create" /\ Site(a, c.at, c.chain)
     \/ c.op = "link" /\ Site(a, c.at, c.chain) /\ c.hook = HookOf(c.chain)
     \/ /\ c.op = "drop" /\ Site(a, c.at, c.chain) /\ c.hook = HookOf(c.chain)
        /\ Block(c.at, c.hook, c.peer) \in a.design

HealCommand(a, c) ==
  /\ c \in Command
  /\ c.op \in {"flush", "unlink", "delete"}
  /\ Site(a, c.at, c.chain)
  /\ c.op = "unlink" => c.hook = HookOf(c.chain)

Allowed(p, a, c) == IF p = "execute" THEN ExecuteCommand(a, c) ELSE HealCommand(a, c)

\* What comes next in a part.
Follows(c, d) ==
  \/ c.op = "lookup" /\ d.op = "create"
  \/ /\ c.at = d.at /\ c.chain = d.chain
     /\ \/ c.op = "create" /\ d.op = "link"
        \/ c.op \in {"link", "drop"} /\ d.op = "drop"
        \/ c.op = "flush" /\ d.op = "unlink"
        \/ c.op = "unlink" /\ d.op = "delete"

InOrder(part) ==
  /\ Len(part) > 0
  /\ \A j \in 1 .. Len(part) :
       IF j < Len(part) THEN Follows(part[j], part[j + 1])
       ELSE part[j].op \in {"lookup", "link", "drop", "delete"}

\* A part of the plan of action a in phase p; one of which nothing is done yet.
GoodPart(part, p, a) ==
  /\ part \in Seq(Command)
  /\ InOrder(part)
  /\ \A j \in 1 .. Len(part) : Allowed(p, a, part[j])

Fresh(part) == part[1].op \in {"lookup", "create", "flush"}

\* A plan in which all parts, or all but the first, are fresh.
FreshPlan(s, p, a) ==
  /\ s \in Seq(Seq(Command))
  /\ \A i \in 1 .. Len(s) : GoodPart(s[i], p, a) /\ Fresh(s[i])

GoodPlan(s, p, a) ==
  /\ s \in Seq(Seq(Command))
  /\ \A i \in 1 .. Len(s) : GoodPart(s[i], p, a) /\ (i > 1 => Fresh(s[i]))

InPart(part, c) == \E j \in 1 .. Len(part) : part[j] = c
InPlan(s, c)    == \E i \in 1 .. Len(s) : InPart(s[i], c)

-----------------------------------------------------------------------------
(* The inductive invariant.                                                *)

Concerned == active \cup current

\* The engine has one plan at a time; the ordinals tell the actions apart.
Engine ==
  /\ phase = "idle" => current = {} /\ plan = <<>>
  /\ phase # "idle" => \E a \in current : current = {a} /\ GoodPlan(plan, phase, a)
  /\ active \cap current = {}
  /\ \A a \in Concerned : ActionOK(a) /\ a.ordinal <= ordinal
  /\ \A a, b \in Concerned : a.ordinal = b.ordinal => a = b

\* Jumps and rules are there for chains that exist, jumps from the right hook.
Tables ==
  /\ \A l \in links : <<l[1], l[3]>> \in chains /\ l[2] = HookOf(l[3])
  /\ \A r \in rules : <<r[1], r[2]>> \in chains

\* A rule is there for an action that is to block just that, or a heal has
\* failed to flush it.
Attributed ==
  \A r \in rules : \A h \in Hooks :
    r[3] = Match[h] =>
      \/ Block(r[1], h, r[4]) \in unflushed
      \/ \E a \in Concerned : r[2] = ChainOf(a, h) /\ Block(r[1], h, r[4]) \in a.design

\* A heal is still to flush the chains that have rules of its action.
ToFlush ==
  phase = "heal" =>
    \A r \in rules : \A h \in Hooks : \A a \in current :
      r[3] = Match[h] /\ r[2].id = a.ordinal /\ Block(r[1], h, r[4]) \notin unflushed =>
        InPlan(plan, FlushOf(r[1], r[2]))

Inv == Engine /\ Tables /\ Attributed /\ ToFlush

(* The same, as long as nothing has failed.                                *)

\* Chains are there for an action; a heal is still to delete those of its own.
Owned ==
  \A c \in chains : /\ \E a \in Concerned : Site(a, c[1], c[2])
                    /\ \A a \in current : phase = "heal" /\ c[2].id = a.ordinal =>
                         InPlan(plan, DeleteOf(c[1], c[2]))

\* A chain is linked, but for the moment after its creation and before its deletion.
Linked ==
  \A c \in chains :
    \/ <<c[1], HookOf(c[2]), c[2]>> \in links
    \/ /\ plan # <<>> /\ NextCommand.at = c[1] /\ NextCommand.chain = c[2]
       /\ NextCommand.op \in {"link", "delete"}

\* What is to be blocked is blocked, or its rule is still to come.
Filled ==
  \A a \in Concerned : \A b \in a.design :
    \/ a \in current /\ phase = "heal"
    \/ <<b.at, ChainOf(a, b.hook), Match[b.hook], b.peer>> \in rules
    \/ a \in current /\ InPlan(plan, DropOf(a, b))

\* What the commands before the next one of its part have done.
Prepared ==
  plan # <<>> =>
    LET c == NextCommand
    IN /\ c.op \in {"link", "drop", "unlink", "delete"} => <<c.at, c.chain>> \in chains
       /\ c.op = "unlink" => <<c.at, c.hook, c.chain>> \in links
       /\ c.op \in {"unlink", "delete"} => \A r \in rules : r[1] # c.at \/ r[2] # c.chain
       /\ c.op = "delete" => \A h \in Hooks : <<c.at, h, c.chain>> \notin links

CleanInv == failures = 0 => unflushed = {} /\ Owned /\ Linked /\ Filled /\ Prepared

IInv == TypeOK /\ Inv /\ CleanInv

-----------------------------------------------------------------------------
(* Lists and sets of nodes.                                                *)

LEMMA NodesFinite == /\ AllNodes \in Seq(Nodes)
                     /\ IsFiniteSet(Nodes)
                     /\ Cardinality(Nodes) \in Nat
<1>1. AllNodes \in Seq(Nodes)
  BY ConstantsAssumption DEF AllNodes
<1>2. AllNodes \in Surjection(1 .. Len(AllNodes), Nodes)
  <2>1. AllNodes \in [1 .. Len(AllNodes) -> Nodes] /\ DOMAIN AllNodes = 1 .. Len(AllNodes)
    BY <1>1, LenProperties
  <2>2. \A x \in Nodes : \E i \in 1 .. Len(AllNodes) : AllNodes[i] = x
    BY <2>1 DEF Nodes, ToSet
  <2> QED
    BY <2>1, <2>2, Fun_IsSurj
<1>3. Len(AllNodes) \in Nat /\ IsFiniteSet(1 .. Len(AllNodes))
  BY <1>1, LenProperties, FS_Interval
<1>4. IsFiniteSet(Nodes)
  BY <1>2, <1>3, FS_Surjection
<1> QED
  BY <1>1, <1>4, FS_CardinalityType

\* The elements of a list of nodes.
LEMMA ToSetFacts ==
  ASSUME NEW s \in Seq(Nodes)
  PROVE  /\ DOMAIN s = 1 .. Len(s) /\ Len(s) \in Nat
         /\ \A i \in 1 .. Len(s) : s[i] \in ToSet(s) /\ s[i] \in Nodes
         /\ \A x \in ToSet(s) : \E i \in 1 .. Len(s) : s[i] = x
         /\ ToSet(s) \subseteq Nodes
  BY LenProperties DEF ToSet

\* A list of the elements of a finite set.
LEMMA SetToSeqFacts ==
  ASSUME NEW S \in SUBSET Nodes
  PROVE  SetToSeq(S) \in Seq(Nodes) /\ ToSet(SetToSeq(S)) = S
<1>1. IsFiniteSet(S) /\ Cardinality(S) \in Nat /\ ExistsBijection(1 .. Cardinality(S), S)
  BY NodesFinite, FS_Subset, FS_CardinalityType
<1>2. PICK f : f \in Bijection(1 .. Cardinality(S), S)
  BY <1>1, Fun_ExistsBij
<1>3. f \in [1 .. Cardinality(S) -> S] /\ IsInjective(f)
  BY <1>2, Zenon DEF Bijection, Injection
<1>4. SetToSeq(S) \in [1 .. Cardinality(S) -> S] /\ IsInjective(SetToSeq(S))
  BY <1>3, Zenon DEF SetToSeq
<1> DEFINE t == SetToSeq(S)
<1>5. t \in Injection(1 .. Cardinality(S), S)
  BY <1>4, Fun_IsInj DEF IsInjective
<1>6. t \in Surjection(1 .. Cardinality(S), S)
  BY <1>1, <1>5, FS_Injection, FS_Interval
<1>7. \A x \in S : \E i \in 1 .. Cardinality(S) : t[i] = x
  BY <1>6, Zenon DEF Surjection
<1> HIDE DEF t
<1>8. t \in Seq(S)
  BY <1>1, <1>4, SeqDef DEF t
<1>9. t \in Seq(Nodes)
  BY <1>8, SeqMonotonic
<1>10. ToSet(t) = S
  BY <1>4, <1>7 DEF ToSet, t
<1> QED
  BY <1>9, <1>10 DEF t

LEMMA WithoutFacts ==
  ASSUME NEW s \in Seq(Nodes), NEW S
  PROVE  Without(s, S) \in Seq(Nodes) /\ ToSet(Without(s, S)) = ToSet(s) \ S
<1>1. ToSet(s) \ S \in SUBSET Nodes
  BY ToSetFacts
<1> QED
  BY <1>1, SetToSeqFacts, Zenon DEF Without

\* The orders in which the nodes may be shuffled.
LEMMA OrderFacts ==
  ASSUME NEW order \in SetToSeqs(Nodes)
  PROVE  /\ order \in Seq(Nodes) /\ Len(order) = Cardinality(Nodes)
         /\ DOMAIN order = 1 .. Len(order)
         /\ ToSet(order) = Nodes
         /\ \A i, j \in 1 .. Len(order) : order[i] = order[j] => i = j
         /\ order \in Bijection(1 .. Len(order), Nodes)
<1> DEFINE n == Cardinality(Nodes)
<1>1. n \in Nat
  BY NodesFinite
<1>2. order \in [1 .. n -> Nodes] /\ \A i, j \in 1 .. n : order[i] = order[j] => i = j
  BY Zenon DEF SetToSeqs
<1>3. order \in Seq(Nodes) /\ Len(order) = n /\ DOMAIN order = 1 .. n
  BY <1>1, <1>2, SeqDef
<1>4. order \in Injection(1 .. n, Nodes)
  BY <1>2, Fun_IsInj
<1>5. order \in Surjection(1 .. n, Nodes)
  BY <1>1, <1>4, NodesFinite, FS_Injection, FS_Interval
<1>6. \A x \in Nodes : \E i \in 1 .. n : order[i] = x
  BY <1>5, Zenon DEF Surjection
<1>7. ToSet(order) = Nodes
  BY <1>2, <1>3, <1>6 DEF ToSet
<1>8. order \in Bijection(1 .. n, Nodes)
  BY <1>4, <1>5, Fun_IsBij
<1> QED
  BY <1>2, <1>3, <1>7, <1>8

-----------------------------------------------------------------------------
(* Plans: putting them together, and carrying them out.                    *)

LEMMA FreshIsGood ==
  ASSUME NEW s, NEW p, NEW a, FreshPlan(s, p, a)
  PROVE  GoodPlan(s, p, a)
  BY DEF FreshPlan, GoodPlan

LEMMA FreshConcat ==
  ASSUME NEW s, NEW t, NEW p, NEW a, FreshPlan(s, p, a), FreshPlan(t, p, a)
  PROVE  FreshPlan(s \o t, p, a)
<1>1. s \in Seq(Seq(Command)) /\ t \in Seq(Seq(Command))
  BY DEF FreshPlan
<1>2. /\ s \o t \in Seq(Seq(Command))
      /\ Len(s \o t) = Len(s) + Len(t)
      /\ \A i \in 1 .. Len(s) + Len(t) :
           (s \o t)[i] = IF i <= Len(s) THEN s[i] ELSE t[i - Len(s)]
  BY <1>1, ConcatProperties
<1>3. Len(s) \in Nat /\ Len(t) \in Nat
  BY <1>1, LenProperties
<1>4. ASSUME NEW i \in 1 .. Len(s) + Len(t)
      PROVE  GoodPart((s \o t)[i], p, a) /\ Fresh((s \o t)[i])
  <2>1. CASE i <= Len(s)
    <3>1. i \in 1 .. Len(s) /\ (s \o t)[i] = s[i]
      BY <1>2, <1>3, <2>1
    <3> QED
      BY <3>1 DEF FreshPlan
  <2>2. CASE ~(i <= Len(s))
    <3>1. i - Len(s) \in 1 .. Len(t) /\ (s \o t)[i] = t[i - Len(s)]
      BY <1>2, <1>3, <2>2
    <3> QED
      BY <3>1 DEF FreshPlan
  <2> QED
    BY <2>1, <2>2
<1> QED
  BY <1>2, <1>4, Zenon DEF FreshPlan

LEMMA InConcat ==
  ASSUME NEW s \in Seq(Seq(Command)), NEW t \in Seq(Seq(Command)), NEW c,
         InPlan(s, c) \/ InPlan(t, c)
  PROVE  InPlan(s \o t, c)
<1>2. /\ Len(s \o t) = Len(s) + Len(t)
      /\ \A i \in 1 .. Len(s) + Len(t) :
           (s \o t)[i] = IF i <= Len(s) THEN s[i] ELSE t[i - Len(s)]
  BY ConcatProperties
<1>3. Len(s) \in Nat /\ Len(t) \in Nat
  BY LenProperties
<1>4. CASE InPlan(s, c)
  <2>1. PICK i \in 1 .. Len(s) : InPart(s[i], c)
    BY <1>4 DEF InPlan
  <2>2. i \in 1 .. Len(s \o t) /\ (s \o t)[i] = s[i]
    BY <1>2, <1>3
  <2> QED
    BY <2>1, <2>2 DEF InPlan
<1>5. CASE InPlan(t, c)
  <2>1. PICK i \in 1 .. Len(t) : InPart(t[i], c)
    BY <1>5 DEF InPlan
  <2>2. i + Len(s) \in 1 .. Len(s \o t) /\ (s \o t)[i + Len(s)] = t[i]
    BY <1>2, <1>3
  <2> QED
    BY <2>1, <2>2 DEF InPlan
<1> QED
  BY <1>4, <1>5

\* The next command of a plan.
LEMMA NextFacts ==
  ASSUME NEW p, NEW a, GoodPlan(plan, p, a), plan # <<>>
  PROVE  /\ Len(plan) \in Nat /\ 1 \in 1 .. Len(plan) /\ Head(plan) = plan[1]
         /\ GoodPart(plan[1], p, a)
         /\ Len(plan[1]) \in Nat /\ 1 \in 1 .. Len(plan[1])
         /\ NextCommand = plan[1][1]
         /\ Allowed(p, a, NextCommand) /\ NextCommand \in Command
<1>1. plan \in Seq(Seq(Command)) /\ Len(plan) \in Nat /\ 1 \in 1 .. Len(plan)
  BY EmptySeq, LenProperties DEF GoodPlan
<1>2. GoodPart(plan[1], p, a) /\ Head(plan) = plan[1]
  BY <1>1 DEF GoodPlan
<1>3. plan[1] \in Seq(Command) /\ Len(plan[1]) \in Nat /\ 1 \in 1 .. Len(plan[1])
  BY <1>2, LenProperties DEF GoodPart, InOrder
<1>4. NextCommand = plan[1][1] /\ plan[1][1] \in Command
  BY <1>2, <1>3 DEF NextCommand
<1>5. Allowed(p, a, plan[1][1])
  BY <1>2, <1>3 DEF GoodPart
<1> QED
  BY <1>1, <1>2, <1>3, <1>4, <1>5

\* What is left of a plan: the rest of its first part, if any, and the others.
LEMMA RestFacts ==
  ASSUME NEW p, NEW a, GoodPlan(plan, p, a), plan # <<>>,
         NEW k \in 1 .. Len(plan[1])
  PROVE  /\ GoodPlan(Rest(k), p, a)
         /\ \A c : InPlan(plan, c) =>
              InPlan(Rest(k), c) \/ \E j \in 1 .. k : plan[1][j] = c
         /\ k < Len(plan[1]) => Rest(k) # <<>> /\ Rest(k)[1][1] = plan[1][k + 1]
         /\ k = Len(plan[1]) /\ Rest(k) # <<>> => Fresh(Rest(k)[1])
<1> DEFINE part == plan[1]
<1> DEFINE tail == Tail(plan)
<1> DEFINE rest == SubSeq(part, k + 1, Len(part))
<1>1. /\ plan \in Seq(Seq(Command)) /\ Len(plan) \in Nat /\ Len(plan) >= 1
      /\ Head(plan) = part /\ GoodPart(part, p, a) /\ Len(part) \in Nat
      /\ \A i \in 2 .. Len(plan) : GoodPart(plan[i], p, a) /\ Fresh(plan[i])
  BY NextFacts DEF GoodPlan
<1>2. part \in Seq(Command) /\ DOMAIN part = 1 .. Len(part)
  BY <1>1, LenProperties DEF GoodPart
<1>3. /\ tail \in Seq(Seq(Command)) /\ Len(tail) = Len(plan) - 1
      /\ \A i \in 1 .. Len(tail) : tail[i] = plan[i + 1]
  BY <1>1, HeadTailProperties
<1>4. FreshPlan(tail, p, a)
  <2>1. \A i \in 1 .. Len(tail) : i + 1 \in 2 .. Len(plan)
    BY <1>1, <1>3
  <2> QED
    BY <1>1, <1>3, <2>1 DEF FreshPlan
<1>5. ASSUME NEW c, InPlan(plan, c)
      PROVE  InPlan(tail, c) \/ \E j \in 1 .. Len(part) : part[j] = c
  <2>1. PICK i \in 1 .. Len(plan) : InPart(plan[i], c)
    BY <1>5 DEF InPlan
  <2>2. CASE i = 1
    BY <2>1, <2>2 DEF InPart
  <2>3. CASE i # 1
    <3>1. i - 1 \in 1 .. Len(tail) /\ tail[i - 1] = plan[i]
      BY <1>1, <1>3, <2>3
    <3> QED
      BY <2>1, <3>1 DEF InPlan
  <2> QED
    BY <2>2, <2>3
<1>6. Rest(k) = Part(rest) \o tail
  BY <1>1 DEF Rest
<1> HIDE DEF part, tail
<1>7. CASE k = Len(part)
  <2>1. rest = <<>>
    BY <1>1, <1>7, SubSeqEmpty
  <2>2. Rest(k) = tail
    BY <1>3, <1>6, <2>1, ConcatEmptySeq DEF Part
  <2>3. tail # <<>> => Fresh(tail[1])
    BY <1>3, <1>4, EmptySeq DEF FreshPlan
  <2>4. GoodPlan(tail, p, a)
    BY <1>4, FreshIsGood
  <2> QED
    BY <1>1, <1>5, <1>7, <2>2, <2>3, <2>4 DEF part
<1>8. CASE k < Len(part)
  <2>1. /\ rest \in Seq(Command) /\ Len(rest) = Len(part) - k
        /\ \A i \in 1 .. Len(part) - k : rest[i] = part[k + i]
    <3>1. \A i \in k + 1 .. Len(part) : part[i] \in Command
      BY <1>2, ElementOfSeq
    <3> QED
      BY <1>1, <1>8, <3>1, SubSeqProperties
  <2> HIDE DEF rest
  <2>2. GoodPart(rest, p, a)
    <3>1. \A j \in 1 .. Len(rest) :
            IF j < Len(rest) THEN Follows(rest[j], rest[j + 1])
            ELSE rest[j].op \in {"lookup", "link", "drop", "delete"}
      <4> SUFFICES ASSUME NEW j \in 1 .. Len(rest)
                   PROVE  IF j < Len(rest) THEN Follows(rest[j], rest[j + 1])
                          ELSE rest[j].op \in {"lookup", "link", "drop", "delete"}
        OBVIOUS
      <4>1. /\ k + j \in 1 .. Len(part) /\ rest[j] = part[k + j]
            /\ (j < Len(rest)) = (k + j < Len(part))
        BY <1>1, <1>8, <2>1
      <4>2. j < Len(rest) => rest[j + 1] = part[(k + j) + 1]
        BY <1>1, <1>8, <2>1
      <4>3. IF k + j < Len(part) THEN Follows(part[k + j], part[(k + j) + 1])
            ELSE part[k + j].op \in {"lookup", "link", "drop", "delete"}
        BY <1>1, <4>1, Zenon DEF GoodPart, InOrder
      <4> QED
        BY <4>1, <4>2, <4>3
    <3>2. \A j \in 1 .. Len(rest) : Allowed(p, a, rest[j])
      <4>1. \A j \in 1 .. Len(rest) : k + j \in 1 .. Len(part) /\ rest[j] = part[k + j]
        BY <1>1, <1>8, <2>1
      <4> QED
        BY <1>1, <4>1, Zenon DEF GoodPart
    <3>3. Len(rest) > 0
      BY <1>1, <1>8, <2>1
    <3> QED
      BY <2>1, <3>1, <3>2, <3>3 DEF GoodPart, InOrder
  <2>3. Part(rest) = <<rest>>
    <3>1. rest # <<>>
      BY <1>1, <1>8, <2>1, EmptySeq
    <3> QED
      BY <3>1 DEF Part
  <2>4. <<rest>> \in Seq(Seq(Command))
    BY <2>1
  <2>5. /\ Rest(k) \in Seq(Seq(Command)) /\ Len(Rest(k)) = 1 + Len(tail)
        /\ Rest(k)[1] = rest /\ \A i \in 1 .. Len(tail) : Rest(k)[i + 1] = tail[i]
    <3>1. Len(<<rest>>) = 1 /\ <<rest>>[1] = rest
      OBVIOUS
    <3>2. /\ Rest(k) \in Seq(Seq(Command)) /\ Len(Rest(k)) = 1 + Len(tail)
          /\ \A i \in 1 .. 1 + Len(tail) :
               Rest(k)[i] = IF i <= 1 THEN <<rest>>[i] ELSE tail[i - 1]
      <4>1. Rest(k) = <<rest>> \o tail
        BY <1>6, <2>3
      <4> QED
        BY <1>3, <2>4, <3>1, <4>1, ConcatProperties
    <3>3. Len(tail) \in Nat
      BY <1>3, LenProperties
    <3> QED
      BY <3>1, <3>2, <3>3
  <2>6. GoodPlan(Rest(k), p, a)
    <3>1. ASSUME NEW i \in 1 .. Len(Rest(k))
          PROVE  GoodPart(Rest(k)[i], p, a) /\ (i > 1 => Fresh(Rest(k)[i]))
      <4>1. CASE i = 1
        BY <2>2, <2>5, <4>1
      <4>2. CASE i # 1
        <5>1. i - 1 \in 1 .. Len(tail) /\ Rest(k)[i] = tail[i - 1]
          BY <1>1, <1>3, <2>5, <4>2
        <5> QED
          BY <1>4, <5>1 DEF FreshPlan
      <4> QED
        BY <4>1, <4>2
    <3> QED
      BY <2>5, <3>1, Zenon DEF GoodPlan
  <2>7. ASSUME NEW c, InPlan(plan, c)
        PROVE  InPlan(Rest(k), c) \/ \E j \in 1 .. k : part[j] = c
    <3>1. CASE InPlan(tail, c)
      <4>1. PICK i \in 1 .. Len(tail) : InPart(tail[i], c)
        BY <3>1 DEF InPlan
      <4>2. i + 1 \in 1 .. Len(Rest(k)) /\ Rest(k)[i + 1] = tail[i]
        BY <1>1, <1>3, <2>5
      <4> QED
        BY <4>1, <4>2 DEF InPlan
    <3>2. ASSUME NEW j \in 1 .. Len(part), part[j] = c
          PROVE  InPlan(Rest(k), c) \/ \E i \in 1 .. k : part[i] = c
      <4>1. CASE j <= k
        BY <3>2, <4>1
      <4>2. CASE j > k
        <5>1. j - k \in 1 .. Len(rest) /\ rest[j - k] = c
          BY <1>1, <1>8, <2>1, <3>2, <4>2
        <5>2. 1 \in 1 .. Len(Rest(k))
          BY <1>1, <1>3, <2>5
        <5> QED
          BY <2>5, <5>1, <5>2 DEF InPlan, InPart
      <4> QED
        BY <1>1, <4>1, <4>2
    <3> QED
      BY <1>5, <2>7, <3>1, <3>2
  <2>8. Rest(k)[1][1] = part[k + 1] /\ Rest(k) # <<>>
    BY <1>1, <1>3, <1>8, <2>1, <2>5, EmptySeq
  <2> QED
    BY <1>8, <2>6, <2>7, <2>8 DEF part
<1> QED
  BY <1>1, <1>7, <1>8 DEF part

LEMMA HeadOfPlan ==
  ASSUME NEW s, NEW p, NEW a, GoodPlan(s, p, a), s # <<>>
  PROVE  Head(Head(s)) = s[1][1] /\ Allowed(p, a, s[1][1])
<1>1. s \in Seq(Seq(Command)) /\ Len(s) \in Nat /\ 1 \in 1 .. Len(s)
  BY EmptySeq, LenProperties DEF GoodPlan
<1>2. Head(s) = s[1] /\ GoodPart(s[1], p, a)
  BY <1>1 DEF GoodPlan
<1>3. s[1] \in Seq(Command) /\ Len(s[1]) > 0
  BY <1>2 DEF GoodPart, InOrder
<1>4. 1 \in 1 .. Len(s[1])
  BY <1>3, LenProperties
<1> QED
  BY <1>2, <1>3, <1>4 DEF GoodPart

\* The first command of a plan of which nothing is done yet.
LEMMA BeginsFresh ==
  ASSUME NEW s, NEW p, NEW a, FreshPlan(s, p, a), s # <<>>
  PROVE  Head(Head(s)).op \in {"lookup", "create", "flush"}
<1>1. GoodPlan(s, p, a)
  BY FreshIsGood
<1>2. s \in Seq(Seq(Command))
  BY DEF FreshPlan
<1>3. 1 \in 1 .. Len(s)
  BY <1>2, EmptySeq, LenProperties
<1>4. Fresh(s[1])
  BY <1>3 DEF FreshPlan
<1> QED
  BY <1>1, <1>4, HeadOfPlan DEF Fresh

\* The command after the next one of a part.
LEMMA SecondFacts ==
  ASSUME NEW p, NEW a, GoodPlan(plan, p, a), plan # <<>>,
         NEW j \in 1 .. Len(plan[1])
  PROVE  IF j < Len(plan[1]) THEN Follows(plan[1][j], plan[1][j + 1])
         ELSE plan[1][j].op \in {"lookup", "link", "drop", "delete"}
<1>1. GoodPart(plan[1], p, a)
  BY NextFacts
<1> QED
  BY <1>1, Zenon DEF GoodPart, InOrder

\* The next command has been executed.
LEMMA AfterOne ==
  ASSUME NEW p, NEW a, GoodPlan(plan, p, a), plan # <<>>
  PROVE  /\ GoodPlan(Rest(1), p, a)
         /\ \A d : InPlan(plan, d) => InPlan(Rest(1), d) \/ d = NextCommand
         /\ Rest(1) # <<>> => Fresh(Rest(1)[1]) \/ Follows(NextCommand, Rest(1)[1][1])
         /\ NextCommand.op \in {"create", "flush", "unlink"} =>
              Rest(1) # <<>> /\ Follows(NextCommand, Rest(1)[1][1])
<1>1. 1 \in 1 .. Len(plan[1]) /\ Len(plan[1]) \in Nat /\ NextCommand = plan[1][1]
  BY NextFacts
<1>2. IF 1 < Len(plan[1]) THEN Follows(plan[1][1], plan[1][2])
      ELSE plan[1][1].op \in {"lookup", "link", "drop", "delete"}
  BY <1>1, SecondFacts
<1>3. /\ GoodPlan(Rest(1), p, a)
      /\ \A d : InPlan(plan, d) => InPlan(Rest(1), d) \/ \E j \in 1 .. 1 : plan[1][j] = d
      /\ 1 < Len(plan[1]) => Rest(1) # <<>> /\ Rest(1)[1][1] = plan[1][2]
      /\ 1 = Len(plan[1]) /\ Rest(1) # <<>> => Fresh(Rest(1)[1])
  BY <1>1, RestFacts
<1>4. \A d : InPlan(plan, d) => InPlan(Rest(1), d) \/ d = NextCommand
  <2>1. \A j \in 1 .. 1 : j = 1
    OBVIOUS
  <2> QED
    BY <1>1, <1>3, <2>1, Zenon
<1>5. CASE 1 < Len(plan[1])
  BY <1>1, <1>2, <1>3, <1>4, <1>5
<1>6. CASE 1 = Len(plan[1])
  <2>1. NextCommand.op \in {"lookup", "link", "drop", "delete"}
    BY <1>1, <1>2, <1>6
  <2> QED
    BY <1>3, <1>4, <1>6, <2>1
<1>7. \A n \in Nat : 1 \in 1 .. n => 1 < n \/ 1 = n
  OBVIOUS
<1> QED
  BY <1>1, <1>5, <1>6, <1>7, Zenon

\* The next command has failed.
LEMMA AfterGivingUp ==
  ASSUME NEW p, NEW a, GoodPlan(plan, p, a), plan # <<>>,
         NEW rest, rest = Rest(1 + GivesUp(NextCommand))
  PROVE  /\ GoodPlan(rest, p, a)
         /\ \A d : InPlan(plan, d) =>
              \/ InPlan(rest, d)
              \/ d = NextCommand
              \/ /\ NextCommand.op \in {"create", "flush", "unlink"}
                 /\ d.op \in {"link", "unlink", "delete"}
                 /\ d.at = NextCommand.at /\ d.chain = NextCommand.chain
         /\ rest # <<>> =>
              \/ Fresh(rest[1])
              \/ NextCommand.op = "lookup"
              \/ /\ rest[1][1].op = "drop" /\ rest[1][1].at = NextCommand.at
                 /\ rest[1][1].chain = NextCommand.chain
<1> DEFINE part == plan[1]
<1> DEFINE c == NextCommand
<1> DEFINE n == Len(part)
<1>1. 1 \in 1 .. n /\ n \in Nat /\ c = part[1]
  BY NextFacts
<1>2. ASSUME NEW j \in 1 .. n
      PROVE  IF j < n THEN Follows(part[j], part[j + 1])
             ELSE part[j].op \in {"lookup", "link", "drop", "delete"}
  BY SecondFacts
<1>3. /\ 1 < n => Follows(part[1], part[2])
      /\ 2 < n => Follows(part[2], part[3])
      /\ 3 < n => Follows(part[3], part[4])
      /\ 1 = n => part[1].op \in {"lookup", "link", "drop", "delete"}
      /\ 2 = n => part[2].op \in {"lookup", "link", "drop", "delete"}
  BY <1>1, <1>2
<1>4. ASSUME NEW k \in 1 .. n, rest = Rest(k)
      PROVE  /\ GoodPlan(rest, p, a)
             /\ \A d : InPlan(plan, d) => InPlan(rest, d) \/ \E j \in 1 .. k : part[j] = d
             /\ k < n => rest # <<>> /\ rest[1][1] = part[k + 1]
             /\ k = n /\ rest # <<>> => Fresh(rest[1])
  BY <1>4, RestFacts
<1> HIDE DEF part, c, n
<1>5. CASE c.op = "create"
  <2>1. 2 \in 1 .. n /\ part[2].op = "link" /\ part[2].at = c.at /\ part[2].chain = c.chain
    BY <1>1, <1>3, <1>5 DEF Follows
  <2>2. rest = Rest(2)
    BY <1>5 DEF GivesUp, c
  <2>3. 2 < n => part[3].op = "drop" /\ part[3].at = c.at /\ part[3].chain = c.chain
    BY <1>3, <2>1 DEF Follows
  <2>4. \A j \in 1 .. 2 : j = 1 \/ j = 2
    OBVIOUS
  <2> QED
    BY <1>1, <1>4, <1>5, <2>1, <2>2, <2>3, <2>4 DEF c
<1>6. CASE c.op = "flush"
  <2>1. /\ 2 \in 1 .. n /\ part[2].op = "unlink"
        /\ part[2].at = c.at /\ part[2].chain = c.chain
    BY <1>1, <1>3, <1>6 DEF Follows
  <2>2. /\ 3 \in 1 .. n /\ part[3].op = "delete"
        /\ part[3].at = c.at /\ part[3].chain = c.chain
    BY <1>1, <1>3, <2>1 DEF Follows
  <2>3. rest = Rest(3)
    BY <1>6 DEF GivesUp, c
  <2>4. 3 = n
    BY <1>1, <1>3, <2>2 DEF Follows
  <2>5. \A j \in 1 .. 3 : j = 1 \/ j = 2 \/ j = 3
    OBVIOUS
  <2> QED
    BY <1>1, <1>4, <1>6, <2>1, <2>2, <2>3, <2>4, <2>5 DEF c
<1>7. CASE c.op = "unlink"
  <2>1. /\ 2 \in 1 .. n /\ part[2].op = "delete"
        /\ part[2].at = c.at /\ part[2].chain = c.chain
    BY <1>1, <1>3, <1>7 DEF Follows
  <2>2. rest = Rest(2)
    BY <1>7 DEF GivesUp, c
  <2>3. 2 = n
    BY <1>1, <1>3, <2>1 DEF Follows
  <2>4. \A j \in 1 .. 2 : j = 1 \/ j = 2
    OBVIOUS
  <2> QED
    BY <1>1, <1>4, <1>7, <2>1, <2>2, <2>3, <2>4 DEF c
<1>8. CASE c.op \notin {"create", "flush", "unlink"}
  <2>1. rest = Rest(1)
    BY <1>8 DEF GivesUp, c
  <2>2. 1 < n => c.op = "lookup" \/ /\ part[2].op = "drop" /\ part[2].at = c.at
                                     /\ part[2].chain = c.chain
    BY <1>1, <1>3, <1>8 DEF Follows
  <2>3. \A j \in 1 .. 1 : j = 1
    OBVIOUS
  <2> QED
    BY <1>1, <1>4, <2>1, <2>2, <2>3 DEF c
<1> QED
  BY <1>5, <1>6, <1>7, <1>8

-----------------------------------------------------------------------------
(* Actions, their chains and what they are to block.                       *)

LEMMA HookFacts == Hooks = {"INPUT", "OUTPUT"} /\ \A g, h \in Hooks : Match[g] = Match[h] => g = h
<1>1. Match["INPUT"] = "src" /\ Match["OUTPUT"] = "dst"
  BY DEF Match
<1> QED
  BY <1>1 DEF Hooks

LEMMA BlockFacts ==
  /\ \A n, h, q : Block(n, h, q).at = n /\ Block(n, h, q).hook = h /\ Block(n, h, q).peer = q
  /\ \A b \in Blocks : b = Block(b.at, b.hook, b.peer)
  /\ \A b \in Blocks : b.at \in Nodes /\ b.hook \in Hooks /\ b.peer \in Nodes
  /\ \A n, q \in Nodes, h \in Hooks : Block(n, h, q) \in Blocks
  BY DEF Block, Blocks

LEMMA ActionFacts ==
  ASSUME NEW a, ActionOK(a)
  PROVE  /\ a.ordinal \in 1 .. MaxOrdinal /\ a.design \subseteq Blocks
         /\ NodesOf(a) \subseteq Nodes /\ HooksOf(a) \subseteq Hooks
         /\ \A h \in HooksOf(a) : ChainOf(a, h) \in Chains /\ HookOf(ChainOf(a, h)) = h
         /\ \A h : ChainOf(a, h).id = a.ordinal
<1>1. /\ a \in Action /\ a.ordinal \in 1 .. MaxOrdinal /\ a.design \subseteq Blocks
      /\ a.hooks \in {<<>>, <<"INPUT">>, <<"OUTPUT">>, <<"INPUT", "OUTPUT">>}
  BY DEF ActionOK, Action
<1>2. NodesOf(a) \subseteq Nodes
  BY DEF ActionOK, NodesOf
<1>3. HooksOf(a) \subseteq Hooks
  BY <1>1 DEF HooksOf, ToSet, Hooks
<1>4. ASSUME NEW h \in HooksOf(a)
      PROVE  ChainOf(a, h) \in Chains /\ HookOf(ChainOf(a, h)) = h
  <2>1. CASE a.hooks = <<>>
    BY <1>1, <2>1 DEF HooksOf, ChainOf, ChainName, Chains, HookOf
  <2>2. CASE a.hooks # <<>>
    BY <1>1, <1>3, <2>2 DEF ChainOf, DirectionalChainName, Chains, HookOf, Hooks
  <2> QED
    BY <2>1, <2>2
<1>5. ASSUME NEW h PROVE ChainOf(a, h).id = a.ordinal
  BY DEF ChainOf, ChainName, DirectionalChainName
<1> QED
  BY <1>1, <1>2, <1>3, <1>4, <1>5

LEMMA SiteFacts ==
  ASSUME NEW a, ActionOK(a), NEW n, NEW c, Site(a, n, c)
  PROVE  n \in Nodes /\ c \in Chains /\ c.id = a.ordinal /\ HookOf(c) \in Hooks
         /\ c = ChainOf(a, HookOf(c)) /\ n \in NodesOf(a) /\ HookOf(c) \in HooksOf(a)
<1>1. n \in NodesOf(a) /\ HookOf(c) \in HooksOf(a) /\ c = ChainOf(a, HookOf(c))
  BY DEF Site
<1> QED
  BY <1>1, ActionFacts

LEMMA DesignFacts ==
  ASSUME NEW a, ActionOK(a), NEW b \in a.design
  PROVE  /\ b \in Blocks /\ b.at \in Nodes /\ b.hook \in Hooks /\ b.peer \in Nodes
         /\ b = Block(b.at, b.hook, b.peer)
         /\ HookOf(ChainOf(a, b.hook)) = b.hook
         /\ Site(a, b.at, ChainOf(a, b.hook))
<1>1. b.at \in NodesOf(a) /\ b.hook \in HooksOf(a)
  BY DEF ActionOK
<1>2. b \in Blocks /\ ChainOf(a, b.hook) \in Chains /\ HookOf(ChainOf(a, b.hook)) = b.hook
  BY <1>1, ActionFacts
<1> QED
  BY <1>1, <1>2, BlockFacts DEF Site

-----------------------------------------------------------------------------
(* The plan of execute() is one for the design of its action.              *)

LEMMA CmdFacts ==
  /\ \A op, n, c, h, q : /\ Cmd(op, n, c, h, q).op = op /\ Cmd(op, n, c, h, q).at = n
                         /\ Cmd(op, n, c, h, q).chain = c /\ Cmd(op, n, c, h, q).hook = h
                         /\ Cmd(op, n, c, h, q).peer = q
  /\ \A op \in {"create", "link", "drop", "flush", "unlink", "delete", "lookup"},
        n \in Nodes \cup {"runner"}, c \in Chains \cup {NoChain},
        h \in Hooks \cup {"-"}, q \in Nodes \cup {"-"} : Cmd(op, n, c, h, q) \in Command
  BY DEF Cmd, Command

\* A part that begins with the making of a chain.
Makes(part) == part[1].op = "create"

\* What is done to one chain: the chain is made, linked and filled.
LEMMA ChainPart ==
  ASSUME NEW a, ActionOK(a), NEW node, NEW chain, NEW hook, Site(a, node, chain),
         hook = HookOf(chain), NEW peers \in Seq(Nodes),
         \A q \in ToSet(peers) : Block(node, hook, q) \in a.design,
         NEW part, part = CreateChainForDirection(node, chain, hook)
                            \o AddDropRules(node, chain, hook, peers)
  PROVE  /\ GoodPart(part, "execute", a) /\ Makes(part)
         /\ \A q \in ToSet(peers) : InPart(part, Cmd("drop", node, chain, hook, q))
<1> DEFINE make == CreateChainForDirection(node, chain, hook)
<1> DEFINE fill == AddDropRules(node, chain, hook, peers)
<1>1. node \in Nodes /\ chain \in Chains /\ hook \in Hooks
  BY SiteFacts
<1>2. /\ make \in Seq(Command) /\ Len(make) = 2
      /\ make[1] = Cmd("create", node, chain, "-", "-")
      /\ make[2] = Cmd("link", node, chain, hook, "-")
  <2>1. /\ Cmd("create", node, chain, "-", "-") \in Command
        /\ Cmd("link", node, chain, hook, "-") \in Command
    BY <1>1, CmdFacts
  <2> QED
    BY <2>1 DEF CreateChainForDirection
<1>3. /\ fill \in Seq(Command) /\ Len(fill) = Len(peers) /\ Len(peers) \in Nat
      /\ \A i \in 1 .. Len(peers) : fill[i] = Cmd("drop", node, chain, hook, peers[i])
  <2>1. DOMAIN peers = 1 .. Len(peers) /\ Len(peers) \in Nat
    BY ToSetFacts
  <2>2. \A i \in 1 .. Len(peers) : Cmd("drop", node, chain, hook, peers[i]) \in Command
    BY <1>1, CmdFacts, ToSetFacts
  <2>3. fill = [i \in 1 .. Len(peers) |-> Cmd("drop", node, chain, hook, peers[i])]
    BY <2>1 DEF AddDropRules
  <2> QED
    BY <2>1, <2>2, <2>3
<1> HIDE DEF make, fill
<1>4. /\ part \in Seq(Command) /\ Len(part) = 2 + Len(peers)
      /\ part[1] = Cmd("create", node, chain, "-", "-")
      /\ part[2] = Cmd("link", node, chain, hook, "-")
      /\ \A i \in 1 .. Len(peers) : part[i + 2] = Cmd("drop", node, chain, hook, peers[i])
  <2>1. part = make \o fill
    BY DEF make, fill
  <2>2. /\ part \in Seq(Command) /\ Len(part) = 2 + Len(peers)
        /\ \A i \in 1 .. 2 + Len(peers) : part[i] = IF i <= 2 THEN make[i] ELSE fill[i - 2]
    <3>1. /\ make \o fill \in Seq(Command) /\ Len(make \o fill) = Len(make) + Len(fill)
          /\ \A i \in 1 .. Len(make) + Len(fill) :
               (make \o fill)[i] = IF i <= Len(make) THEN make[i] ELSE fill[i - Len(make)]
      <4>1. make \in Seq(Command) /\ fill \in Seq(Command)
        BY <1>2, <1>3
      <4> QED
        BY <4>1, ConcatProperties, Zenon
    <3> QED
      BY <1>2, <1>3, <2>1, <3>1
  <2> QED
    BY <1>2, <1>3, <2>2
<1>5. ASSUME NEW j \in 1 .. Len(part)
      PROVE  /\ part[j] = IF j = 1 THEN Cmd("create", node, chain, "-", "-")
                          ELSE IF j = 2 THEN Cmd("link", node, chain, hook, "-")
                          ELSE Cmd("drop", node, chain, hook, peers[j - 2])
             /\ j > 2 => peers[j - 2] \in ToSet(peers)
  <2>1. CASE j > 2
    <3>1. j - 2 \in 1 .. Len(peers) /\ j = (j - 2) + 2
      BY <1>3, <1>4, <2>1
    <3> QED
      BY <1>4, <2>1, <3>1, ToSetFacts
  <2> QED
    BY <1>3, <1>4, <2>1
<1>fields. ASSUME NEW j \in 1 .. Len(part)
           PROVE  /\ part[j].at = node /\ part[j].chain = chain
                  /\ part[j].op = IF j = 1 THEN "create" ELSE IF j = 2 THEN "link" ELSE "drop"
  <2>1. CASE j = 1
    <3>1. part[j] = Cmd("create", node, chain, "-", "-")
      BY <1>5, <2>1
    <3> QED
      BY <2>1, <3>1, CmdFacts
  <2>2. CASE j = 2
    <3>1. part[j] = Cmd("link", node, chain, hook, "-")
      BY <1>5, <2>2
    <3> QED
      BY <2>2, <3>1, CmdFacts
  <2>3. CASE j # 1 /\ j # 2
    <3>1. part[j] = Cmd("drop", node, chain, hook, peers[j - 2])
      BY <1>5, <2>3
    <3> QED
      BY <2>3, <3>1, CmdFacts
  <2> QED
    BY <2>1, <2>2, <2>3
<1>6. /\ Len(part) > 0
      /\ \A j \in 1 .. Len(part) :
           IF j < Len(part) THEN Follows(part[j], part[j + 1])
           ELSE part[j].op \in {"lookup", "link", "drop", "delete"}
  <2>1. ASSUME NEW j \in 1 .. Len(part), j < Len(part)
        PROVE  Follows(part[j], part[j + 1])
    <3>1. j + 1 \in 1 .. Len(part)
      BY <1>3, <1>4, <2>1
    <3>2. /\ part[j].at = node /\ part[j].chain = chain
          /\ part[j].op = IF j = 1 THEN "create" ELSE IF j = 2 THEN "link" ELSE "drop"
      BY <1>fields
    <3>3. /\ part[j + 1].at = node /\ part[j + 1].chain = chain
          /\ part[j + 1].op = IF j = 1 THEN "link" ELSE "drop"
      BY <1>fields, <3>1
    <3> QED
      BY <3>2, <3>3 DEF Follows
  <2>2. ASSUME NEW j \in 1 .. Len(part), ~(j < Len(part))
        PROVE  part[j].op \in {"lookup", "link", "drop", "delete"}
    <3>1. j # 1
      BY <1>3, <1>4, <2>2
    <3> QED
      BY <1>fields, <3>1
  <2> QED
    BY <1>3, <1>4, <2>1, <2>2
<1>7. ASSUME NEW j \in 1 .. Len(part)
      PROVE  Allowed("execute", a, part[j])
  <2>1. part[j] \in Command
    BY <1>4, ElementOfSeq
  <2>2. CASE j > 2
    <3>1. /\ part[j] = Cmd("drop", node, chain, hook, peers[j - 2])
          /\ Block(node, hook, peers[j - 2]) \in a.design
      <4>1. peers[j - 2] \in ToSet(peers) /\ j # 1 /\ j # 2
        BY <1>5, <2>2
      <4> QED
        BY <1>5, <4>1, Zenon
    <3> QED
      BY <2>1, <3>1, CmdFacts DEF Allowed, ExecuteCommand
  <2>3. CASE j = 1
    BY <1>5, <2>1, <2>3, CmdFacts DEF Allowed, ExecuteCommand
  <2>4. CASE j = 2
    BY <1>5, <2>1, <2>4, CmdFacts DEF Allowed, ExecuteCommand
  <2> QED
    BY <1>3, <1>4, <2>2, <2>3, <2>4
<1>8. ASSUME NEW q \in ToSet(peers)
      PROVE  InPart(part, Cmd("drop", node, chain, hook, q))
  <2>1. PICK i \in 1 .. Len(peers) : peers[i] = q
    BY ToSetFacts
  <2>2. i + 2 \in 1 .. Len(part)
    BY <1>3, <1>4
  <2> QED
    BY <1>4, <2>1, <2>2 DEF InPart
<1>9. Makes(part)
  BY <1>4, CmdFacts DEF Makes
<1> QED
  BY <1>4, <1>6, <1>7, <1>8, <1>9 DEF GoodPart, InOrder

LEMMA LookupFacts ==
  /\ Lookup \in Command /\ Lookup.op = "lookup"
  /\ \A nodes : GetNodeIps(nodes) = <<>> \/ GetNodeIps(nodes) = <<Lookup>>
<1>1. Lookup \in Command /\ Lookup.op = "lookup"
  BY CmdFacts DEF Lookup
<1>2. ASSUME NEW nodes
      PROVE  GetNodeIps(nodes) = <<>> \/ GetNodeIps(nodes) = <<Lookup>>
  BY Zenon DEF Lookup, GetNodeIps
<1> QED
  BY <1>1, <1>2

\* The same, after the addresses have been looked up.
LEMMA PrefixedPart ==
  ASSUME NEW a, NEW part, GoodPart(part, "execute", a), Makes(part), NEW nodes,
         NEW whole, whole = GetNodeIps(nodes) \o part
  PROVE  /\ GoodPart(whole, "execute", a) /\ Fresh(whole)
         /\ \A c : InPart(part, c) => InPart(whole, c)
<1>1. part \in Seq(Command) /\ Len(part) \in Nat /\ InOrder(part)
  BY LenProperties DEF GoodPart
<1>2. CASE GetNodeIps(nodes) = <<>>
  <2>1. whole = part
    BY <1>1, <1>2, ConcatEmptySeq
  <2> QED
    BY <2>1 DEF Fresh, Makes
<1>3. CASE GetNodeIps(nodes) = <<Lookup>>
  <2>1. <<Lookup>> \in Seq(Command) /\ Len(<<Lookup>>) = 1 /\ <<Lookup>>[1] = Lookup
    BY LookupFacts
  <2>2. /\ whole \in Seq(Command) /\ Len(whole) = 1 + Len(part)
        /\ \A i \in 1 .. 1 + Len(part) :
             whole[i] = IF i <= 1 THEN <<Lookup>>[i] ELSE part[i - 1]
    BY <1>1, <1>3, <2>1, ConcatProperties
  <2>3. whole[1] = Lookup /\ \A i \in 1 .. Len(part) : whole[i + 1] = part[i]
    BY <1>1, <2>1, <2>2
  <2>4. ASSUME NEW j \in 1 .. Len(whole)
        PROVE  IF j < Len(whole) THEN Follows(whole[j], whole[j + 1])
               ELSE whole[j].op \in {"lookup", "link", "drop", "delete"}
    <3>1. CASE j = 1
      <4>1. Len(part) > 0
        BY <1>1 DEF InOrder
      <4>2. whole[2] = part[1]
        <5>1. 1 \in 1 .. Len(part) /\ 1 + 1 = 2
          BY <1>1, <4>1
        <5> QED
          BY <2>3, <5>1
      <4> QED
        BY <1>1, <2>2, <2>3, <3>1, <4>1, <4>2, LookupFacts DEF Follows, Makes
    <3>2. CASE j # 1
      <4>1. j - 1 \in 1 .. Len(part) /\ whole[j] = part[j - 1]
        BY <1>1, <2>2, <3>2
      <4>2. j < Len(whole) => whole[j + 1] = part[(j - 1) + 1]
        BY <1>1, <2>2, <3>2
      <4>3. (j < Len(whole)) = (j - 1 < Len(part))
        BY <1>1, <2>2
      <4>4. IF j - 1 < Len(part) THEN Follows(part[j - 1], part[(j - 1) + 1])
            ELSE part[j - 1].op \in {"lookup", "link", "drop", "delete"}
        BY <1>1, <4>1, Zenon DEF InOrder
      <4> QED
        BY <4>1, <4>2, <4>3, <4>4
    <3> QED
      BY <3>1, <3>2
  <2>5. ASSUME NEW j \in 1 .. Len(whole)
        PROVE  Allowed("execute", a, whole[j])
    <3>1. CASE j = 1
      BY <2>3, <3>1, LookupFacts DEF Allowed, ExecuteCommand
    <3>2. CASE j # 1
      <4>1. j - 1 \in 1 .. Len(part) /\ whole[j] = part[j - 1]
        BY <1>1, <2>2, <3>2
      <4> QED
        BY <4>1 DEF GoodPart
    <3> QED
      BY <3>1, <3>2
  <2>6. ASSUME NEW c, InPart(part, c)
        PROVE  InPart(whole, c)
    <3>1. PICK j \in 1 .. Len(part) : part[j] = c
      BY <2>6 DEF InPart
    <3>2. j + 1 \in 1 .. Len(whole) /\ whole[j + 1] = c
      BY <1>1, <2>2, <2>3, <3>1
    <3> QED
      BY <3>2 DEF InPart
  <2>7. Fresh(whole)
    BY <2>3, LookupFacts DEF Fresh
  <2>8. Len(whole) > 0
    BY <1>1, <2>2
  <2> QED
    BY <2>2, <2>4, <2>5, <2>6, <2>7, <2>8 DEF GoodPart, InOrder
<1> QED
  BY <1>2, <1>3, LookupFacts

LEMMA LookupPlan ==
  ASSUME NEW a, NEW nodes
  PROVE  FreshPlan(Part(GetNodeIps(nodes)), "execute", a)
<1>1. CASE GetNodeIps(nodes) = <<>>
  BY <1>1, EmptySeq DEF FreshPlan, Part
<1>2. CASE GetNodeIps(nodes) = <<Lookup>>
  <2>1. GoodPart(<<Lookup>>, "execute", a) /\ Fresh(<<Lookup>>)
    BY LookupFacts DEF GoodPart, Fresh, InOrder, Allowed, ExecuteCommand
  <2>2. /\ <<<<Lookup>>>> \in Seq(Seq(Command)) /\ Len(<<<<Lookup>>>>) = 1
        /\ <<<<Lookup>>>>[1] = <<Lookup>>
    BY LookupFacts
  <2>3. Part(GetNodeIps(nodes)) = <<<<Lookup>>>>
    BY <1>2 DEF Part
  <2> QED
    BY <2>1, <2>2, <2>3 DEF FreshPlan
<1> QED
  BY <1>1, <1>2, LookupFacts

LEMMA InstallAllFacts ==
  ASSUME NEW a, ActionOK(a), a.hooks = <<>>, NEW nodes \in Seq(Nodes), NEW peers \in Seq(Nodes),
         \A x \in ToSet(nodes), q \in ToSet(peers) : Block(x, "INPUT", q) \in a.design
  PROVE  /\ FreshPlan(InstallAll(a.ordinal, nodes, peers), "execute", a)
         /\ \A x \in ToSet(nodes), q \in ToSet(peers) :
              InPlan(InstallAll(a.ordinal, nodes, peers),
                     Cmd("drop", x, ChainName(a.ordinal), "INPUT", q))
<1> DEFINE n == a.ordinal
<1> DEFINE all == InstallAll(n, nodes, peers)
<1>1. /\ DOMAIN nodes = 1 .. Len(nodes) /\ Len(nodes) \in Nat
      /\ \A i \in 1 .. Len(nodes) : nodes[i] \in ToSet(nodes) /\ nodes[i] \in Nodes
      /\ \A x \in ToSet(nodes) : \E i \in 1 .. Len(nodes) : nodes[i] = x
  BY ToSetFacts
<1>2. all = [i \in 1 .. Len(nodes) |-> Install(n, nodes[i], peers)]
  BY <1>1 DEF InstallAll
<1> HIDE DEF all
<1>3. HookOf(ChainName(n)) = "INPUT"
  BY DEF HookOf, ChainName
<1>4. ASSUME NEW i \in 1 .. Len(nodes)
      PROVE  /\ GoodPart(all[i], "execute", a) /\ Fresh(all[i])
             /\ \A q \in ToSet(peers) :
                  InPart(all[i], Cmd("drop", nodes[i], ChainName(n), "INPUT", q))
  <2>1. Site(a, nodes[i], ChainName(n))
    BY <1>1, <1>3 DEF Site, NodesOf, HooksOf, ChainOf
  <2>2. all[i] = CreateChainForDirection(nodes[i], ChainName(n), "INPUT")
                   \o AddDropRules(nodes[i], ChainName(n), "INPUT", peers)
    BY <1>2 DEF Install
  <2>3. \A q \in ToSet(peers) : Block(nodes[i], "INPUT", q) \in a.design
    BY <1>1
  <2> HIDE DEF n
  <2>4. /\ GoodPart(all[i], "execute", a) /\ Makes(all[i])
        /\ \A q \in ToSet(peers) :
             InPart(all[i], Cmd("drop", nodes[i], ChainName(n), "INPUT", q))
    BY <1>3, <2>1, <2>2, <2>3, ChainPart
  <2> QED
    BY <2>4 DEF Fresh, Makes
<1>5. Len(all) = Len(nodes) /\ all \in Seq(Seq(Command))
  <2>1. \A i \in 1 .. Len(nodes) : all[i] \in Seq(Command)
    BY <1>4 DEF GoodPart
  <2> QED
    BY <1>1, <1>2, <2>1
<1>6. FreshPlan(all, "execute", a)
  BY <1>4, <1>5 DEF FreshPlan
<1>7. ASSUME NEW x \in ToSet(nodes), NEW q \in ToSet(peers)
      PROVE  InPlan(all, Cmd("drop", x, ChainName(n), "INPUT", q))
  <2>1. PICK i \in 1 .. Len(nodes) : nodes[i] = x
    BY <1>1
  <2>2. InPart(all[i], Cmd("drop", x, ChainName(n), "INPUT", q))
    BY <1>4, <2>1
  <2> QED
    BY <1>5, <2>2 DEF InPlan
<1> QED
  BY <1>6, <1>7 DEF all

\* Both sides of a separation get the rules the other one gives rise to.
LEMMA SeparateFacts ==
  ASSUME NEW a, ActionOK(a), a.hooks = <<>>, NEW left \in Seq(Nodes), NEW right \in Seq(Nodes),
         a.design = Separation(ToSet(left), ToSet(right))
  PROVE  /\ FreshPlan(Separate(a.ordinal, left, right), "execute", a)
         /\ \A b \in a.design : InPlan(Separate(a.ordinal, left, right), DropOf(a, b))
<1> DEFINE n == a.ordinal
<1> DEFINE s == Part(GetNodeIps(right)) \o InstallAll(n, left, right)
<1> DEFINE t == Part(GetNodeIps(left)) \o InstallAll(n, right, left)
<1> DEFINE Drop(x, y) == Cmd("drop", x, ChainName(n), "INPUT", y)
<1>1. \A x \in ToSet(left), y \in ToSet(right) : /\ Block(x, "INPUT", y) \in a.design
                                                 /\ Block(y, "INPUT", x) \in a.design
  BY DEF Separation
<1>2. /\ FreshPlan(InstallAll(n, left, right), "execute", a)
      /\ \A x \in ToSet(left), y \in ToSet(right) : InPlan(InstallAll(n, left, right), Drop(x, y))
  BY <1>1, InstallAllFacts
<1>3. /\ FreshPlan(InstallAll(n, right, left), "execute", a)
      /\ \A x \in ToSet(left), y \in ToSet(right) : InPlan(InstallAll(n, right, left), Drop(y, x))
  BY <1>1, InstallAllFacts
<1> HIDE DEF Drop, n
<1>4. FreshPlan(s, "execute", a) /\ FreshPlan(t, "execute", a)
  BY <1>2, <1>3, LookupPlan, FreshConcat
<1>5. \A x \in ToSet(left), y \in ToSet(right) : InPlan(s, Drop(x, y)) /\ InPlan(t, Drop(y, x))
  <2>1. /\ Part(GetNodeIps(right)) \in Seq(Seq(Command))
        /\ Part(GetNodeIps(left)) \in Seq(Seq(Command))
        /\ InstallAll(n, left, right) \in Seq(Seq(Command))
        /\ InstallAll(n, right, left) \in Seq(Seq(Command))
    BY <1>2, <1>3, LookupPlan DEF FreshPlan
  <2> QED
    BY <1>2, <1>3, <2>1, InConcat
<1>6. Separate(n, left, right) = s \o t
  BY DEF Separate
<1> HIDE DEF s, t
<1>7. s \in Seq(Seq(Command)) /\ t \in Seq(Seq(Command))
  BY <1>4 DEF FreshPlan
<1>8. FreshPlan(s \o t, "execute", a)
  BY <1>4, FreshConcat
<1>10. ASSUME NEW b \in a.design
       PROVE  InPlan(s \o t, DropOf(a, b))
  <2>1. PICK x \in ToSet(left), y \in ToSet(right) :
          b = Block(x, "INPUT", y) \/ b = Block(y, "INPUT", x)
    BY DEF Separation
  <2>2. ChainOf(a, "INPUT") = ChainName(n)
    BY DEF ChainOf, n
  <2>3. CASE b = Block(x, "INPUT", y)
    <3>1. DropOf(a, b) = Drop(x, y)
      BY <2>2, <2>3, BlockFacts DEF DropOf, Drop
    <3> QED
      BY <1>5, <1>7, <3>1, InConcat
  <2>4. CASE b = Block(y, "INPUT", x)
    <3>1. DropOf(a, b) = Drop(y, x)
      BY <2>2, <2>4, BlockFacts DEF DropOf, Drop
    <3> QED
      BY <1>5, <1>7, <3>1, InConcat
  <2> QED
    BY <2>1, <2>3, <2>4
<1> QED
  BY <1>6, <1>8, <1>10 DEF n

\* What the invariant needs of an action that begins.
WellBegun(action, commands) ==
  /\ ActionOK(action) /\ action.ordinal = ordinal + 1
  /\ FreshPlan(commands, "execute", action)
  /\ \A b \in action.design : InPlan(commands, DropOf(action, b))

\* An action that cuts two sets of nodes apart.
LEMMA CutBegins ==
  ASSUME NEW kind \in Kinds \ {"ring"}, ordinal \in 0 .. MaxOrdinal, ordinal < MaxOrdinal,
         NEW left \in Seq(Nodes), NEW right \in Seq(Nodes),
         NEW action,
         action = NewAction(kind, <<>>, "-", Separation(ToSet(left), ToSet(right)))
  PROVE  WellBegun(action, Separate(ordinal + 1, left, right))
<1> DEFINE design == Separation(ToSet(left), ToSet(right))
<1>1. /\ ToSet(left) \subseteq Nodes /\ ToSet(right) \subseteq Nodes
      /\ MaxOrdinal \in Nat
  BY ToSetFacts, ConstantsAssumption
<1>2. \A b \in design : b \in Blocks /\ b.at \in Nodes /\ b.hook = "INPUT"
  BY <1>1, BlockFacts DEF Separation, Hooks
<1> HIDE DEF design
<1>3. /\ action.ordinal = ordinal + 1 /\ action.kind = kind /\ action.hooks = <<>>
      /\ action.node = "-" /\ action.design = design
  BY DEF NewAction, design
<1>4. ordinal + 1 \in 1 .. MaxOrdinal
  BY <1>1
<1>5. action \in Action
  BY <1>2, <1>4 DEF NewAction, Action, design
<1>6. ActionOK(action)
  BY <1>2, <1>3, <1>5 DEF ActionOK, NodesOf, HooksOf
<1>7. /\ FreshPlan(Separate(action.ordinal, left, right), "execute", action)
      /\ \A b \in action.design : InPlan(Separate(action.ordinal, left, right), DropOf(action, b))
  BY <1>3, <1>6, SeparateFacts DEF design
<1> QED
  BY <1>3, <1>6, <1>7 DEF WellBegun

-----------------------------------------------------------------------------
(* The ring.                                                               *)

LEMMA ModFacts ==
  ASSUME NEW n \in Nat \ {0}, NEW x \in 0 .. 2 * n - 1
  PROVE  x % n = IF x < n THEN x ELSE x - n
  OBVIOUS

LEMMA MajorityFacts ==
  ASSUME NEW n \in Nat \ {0}
  PROVE  /\ Majority(n) \in 1 .. n /\ 2 * Majority(n) > n
         /\ n > 2 => Majority(n) < n
  BY DEF Majority

\* How far node j comes after node i on the ring.
Distance(n, i, j) == (j + n - i) % n

LEMMA ModBelow ==
  ASSUME NEW n \in Nat \ {0}, NEW x \in Int, 0 <= x, x < n + n
  PROVE  x % n = IF x < n THEN x ELSE x - n
<1>1. x \in 0 .. 2 * n - 1
  OBVIOUS
<1> QED
  BY <1>1, ModFacts, Zenon

LEMMA DistanceValue ==
  ASSUME NEW n \in Nat \ {0}, NEW i \in 1 .. n, NEW j \in 1 .. n
  PROVE  Distance(n, i, j) = IF j >= i THEN j - i ELSE j + n - i
<1> DEFINE x == j + n - i
<1>1. x \in Int /\ 0 <= x /\ x < n + n
  OBVIOUS
<1>2. x < n <=> ~(j >= i)
  OBVIOUS
<1> HIDE DEF x
<1>3. x % n = IF x < n THEN x ELSE x - n
  BY <1>1, ModBelow
<1>4. Distance(n, i, j) = x % n
  BY DEF Distance, x
<1> QED
  BY <1>2, <1>3, <1>4 DEF x

LEMMA DistanceFacts ==
  ASSUME NEW n \in Nat \ {0}, NEW i \in 1 .. n, NEW j \in 1 .. n
  PROVE  /\ Distance(n, i, j) \in 0 .. n - 1
         /\ \A k \in 0 .. n - 1 : ((i + k - 1) % n) + 1 = j <=> Distance(n, i, j) = k
<1>1. Distance(n, i, j) = IF j >= i THEN j - i ELSE j + n - i
  BY DistanceValue
<1>2. ASSUME NEW k \in 0 .. n - 1
      PROVE  ((i + k - 1) % n) + 1 = j <=> Distance(n, i, j) = k
  <2> DEFINE x == i + k - 1
  <2>1. x \in Int /\ 0 <= x /\ x < n + n
    OBVIOUS
  <2> HIDE DEF x
  <2>2. x % n = IF x < n THEN x ELSE x - n
    BY <2>1, ModBelow
  <2>3. (x % n) + 1 = j <=> Distance(n, i, j) = k
    BY <1>1, <2>2 DEF x
  <2> QED
    BY <2>3 DEF x
<1> QED
  BY <1>1, <1>2

\* A node sees those that are less than a majority behind it, itself included.
LEMMA VisibleFacts ==
  ASSUME NEW order \in SetToSeqs(Nodes),
         NEW i \in 1 .. Len(order), NEW j \in 1 .. Len(order)
  PROVE  order[j] \in Visible(order, i)
           <=> Distance(Len(order), i, j) < Majority(Len(order))
<1> DEFINE n == Len(order)
<1> DEFINE next(k) == ((i + k - 1) % n) + 1
<1>1. n \in Nat \ {0} /\ \A g, h \in 1 .. n : order[g] = order[h] => g = h
  BY OrderFacts, LenProperties
<1>2. Majority(n) \in 1 .. n
  BY <1>1, MajorityFacts
<1>3. Visible(order, i) = {order[next(k)] : k \in 0 .. Majority(n) - 1}
  BY DEF Visible
<1> HIDE DEF n
<1>4. \A k \in 0 .. Majority(n) - 1 : k \in 0 .. n - 1 /\ next(k) \in 1 .. n
  BY <1>1, <1>2
<1>5. Distance(n, i, j) \in 0 .. n - 1
      /\ \A k \in 0 .. n - 1 : next(k) = j <=> Distance(n, i, j) = k
  <2>1. i \in 1 .. n /\ j \in 1 .. n
    BY DEF n
  <2> QED
    BY <1>1, <2>1, DistanceFacts
<1> HIDE DEF next
<1>6. ASSUME order[j] \in Visible(order, i)
      PROVE  Distance(n, i, j) < Majority(n)
  <2>1. PICK k \in 0 .. Majority(n) - 1 : order[j] = order[next(k)]
    BY <1>3, <1>6
  <2>2. next(k) = j
    BY <1>1, <1>4, <2>1 DEF n
  <2> QED
    BY <1>2, <1>4, <1>5, <2>2
<1>7. ASSUME Distance(n, i, j) < Majority(n)
      PROVE  order[j] \in Visible(order, i)
  <2>1. Distance(n, i, j) \in 0 .. Majority(n) - 1
    BY <1>2, <1>5, <1>7
  <2>2. next(Distance(n, i, j)) = j
    BY <1>5
  <2> QED
    BY <1>3, <2>1, <2>2
<1> QED
  BY <1>6, <1>7 DEF n

LEMMA VisibleNodes ==
  ASSUME NEW order \in SetToSeqs(Nodes), NEW i \in 1 .. Len(order)
  PROVE  Visible(order, i) \subseteq Nodes
<1> DEFINE n == Len(order)
<1> DEFINE next(k) == ((i + k - 1) % n) + 1
<1>1. n \in Nat \ {0} /\ \A j \in 1 .. n : order[j] \in Nodes
  BY OrderFacts, ToSetFacts
<1>2. Visible(order, i) = {order[next(k)] : k \in 0 .. Majority(n) - 1}
  BY DEF Visible
<1>3. Majority(n) \in 1 .. n
  BY <1>1, MajorityFacts
<1> HIDE DEF n
<1>4. \A k \in 0 .. Majority(n) - 1 : next(k) \in 1 .. n
  BY <1>1, <1>3
<1> QED
  BY <1>1, <1>2, <1>4

\* The ring blocks what a node does not see.
LEMMA RingDesignFacts ==
  ASSUME NEW order \in SetToSeqs(Nodes)
  PROVE  /\ RingDesign(order) \subseteq Blocks
         /\ \A b \in RingDesign(order) : b.hook = "INPUT"
         /\ \A i \in 1 .. Len(order), y \in Nodes :
              Block(order[i], "INPUT", y) \in RingDesign(order) <=> y \notin Visible(order, i)
<1> DEFINE n == Len(order)
<1>1. /\ n \in Nat /\ \A i \in 1 .. n : order[i] \in Nodes
      /\ \A g, h \in 1 .. n : order[g] = order[h] => g = h
      /\ \A y \in Nodes : \E j \in 1 .. n : order[j] = y
  BY OrderFacts, ToSetFacts
<1>2. \A b : b \in RingDesign(order) <=>
        \E i, j \in 1 .. n : /\ Distance(n, i, j) >= Majority(n)
                             /\ b = Block(order[i], "INPUT", order[j])
  <2> DEFINE Pairs == {q \in (1 .. n) \X (1 .. n) : (q[2] + n - q[1]) % n >= Majority(n)}
  <2>1. RingDesign(order) = {Block(order[p[1]], "INPUT", order[p[2]]) : p \in Pairs}
    BY Zenon DEF RingDesign
  <2>2. \A i, j \in 1 .. n : Distance(n, i, j) >= Majority(n) => <<i, j>> \in Pairs
    BY DEF Distance
  <2>3. \A p \in Pairs : /\ p[1] \in 1 .. n /\ p[2] \in 1 .. n
                        /\ Distance(n, p[1], p[2]) >= Majority(n)
    BY DEF Distance
  <2> HIDE DEF Pairs, n
  <2>4. ASSUME NEW b, b \in RingDesign(order)
        PROVE  \E i, j \in 1 .. n : /\ Distance(n, i, j) >= Majority(n)
                                   /\ b = Block(order[i], "INPUT", order[j])
    BY <2>1, <2>3, <2>4
  <2>5. ASSUME NEW i \in 1 .. n, NEW j \in 1 .. n, Distance(n, i, j) >= Majority(n)
        PROVE  Block(order[i], "INPUT", order[j]) \in RingDesign(order)
    <3>1. <<i, j>> \in Pairs /\ <<i, j>>[1] = i /\ <<i, j>>[2] = j
      BY <2>2, <2>5
    <3> QED
      BY <2>1, <3>1
  <2> QED
    BY <2>4, <2>5
<1> HIDE DEF n
<1>3. RingDesign(order) \subseteq Blocks /\ \A b \in RingDesign(order) : b.hook = "INPUT"
  BY <1>1, <1>2, BlockFacts DEF Hooks
<1>4. ASSUME NEW i \in 1 .. n, NEW y \in Nodes
      PROVE  Block(order[i], "INPUT", y) \in RingDesign(order) <=> y \notin Visible(order, i)
  <2>1. PICK j \in 1 .. n : order[j] = y
    BY <1>1
  <2>2. Block(order[i], "INPUT", y) \in RingDesign(order) <=> Distance(n, i, j) >= Majority(n)
    <3>1. ASSUME NEW g \in 1 .. n, NEW h \in 1 .. n,
                 Block(order[i], "INPUT", y) = Block(order[g], "INPUT", order[h])
          PROVE  g = i /\ h = j
      BY <1>1, <2>1, <3>1, BlockFacts
    <3> QED
      BY <1>2, <2>1, <3>1
  <2>3. y \in Visible(order, i) <=> Distance(n, i, j) < Majority(n)
    BY <2>1, VisibleFacts DEF n
  <2>4. Distance(n, i, j) \in Nat /\ Majority(n) \in Nat
    <3>1. n \in Nat \ {0}
      BY <1>1
    <3>2. Distance(n, i, j) \in 0 .. n - 1 /\ Majority(n) \in 1 .. n
      BY <2>1, <3>1, DistanceFacts, MajorityFacts
    <3> QED
      BY <1>1, <3>2
  <2> QED
    BY <2>2, <2>3, <2>4
<1> QED
  BY <1>3, <1>4 DEF n

\* The ring begins well: each node gets the rules for those it is not to see.
LEMMA RingBegins ==
  ASSUME "ring" \in Kinds, ordinal \in 0 .. MaxOrdinal, ordinal < MaxOrdinal,
         NEW order \in SetToSeqs(Nodes)
  PROVE  \A action, peers, commands :
           /\ action = NewAction("ring", <<>>, "-", RingDesign(order))
           /\ \A i \in 1 .. Len(order) : peers[i] = Without(order, Visible(order, i))
           /\ commands = [i \in 1 .. Len(order) |->
                            GetNodeIps(peers[i]) \o Install(ordinal + 1, order[i], peers[i])]
           => WellBegun(action, commands)
<1>0. SUFFICES
        ASSUME NEW action, NEW peers, NEW commands,
               action = NewAction("ring", <<>>, "-", RingDesign(order)),
               \A i \in 1 .. Len(order) : peers[i] = Without(order, Visible(order, i)),
               commands = [i \in 1 .. Len(order) |->
                             GetNodeIps(peers[i]) \o Install(ordinal + 1, order[i], peers[i])]
        PROVE  WellBegun(action, commands)
  BY Zenon
<1> DEFINE n == Len(order)
<1>1. /\ order \in Seq(Nodes) /\ n \in Nat /\ ToSet(order) = Nodes
      /\ \A i \in 1 .. n : order[i] \in Nodes
      /\ \A y \in Nodes : \E j \in 1 .. n : order[j] = y
      /\ MaxOrdinal \in Nat
  BY OrderFacts, ToSetFacts, ConstantsAssumption
<1>2. /\ RingDesign(order) \subseteq Blocks
      /\ \A b \in RingDesign(order) : b.hook = "INPUT" /\ b.at \in Nodes
      /\ \A i \in 1 .. n, y \in Nodes :
           Block(order[i], "INPUT", y) \in RingDesign(order) <=> y \notin Visible(order, i)
  BY RingDesignFacts, BlockFacts
<1>3. /\ action.ordinal = ordinal + 1 /\ action.kind = "ring" /\ action.hooks = <<>>
      /\ action.node = "-" /\ action.design = RingDesign(order)
  BY <1>0 DEF NewAction
<1>4. ActionOK(action)
  <2>1. ordinal + 1 \in 1 .. MaxOrdinal
    BY <1>1
  <2>2. action \in Action
    BY <1>0, <1>2, <2>1 DEF NewAction, Action
  <2> QED
    BY <1>2, <1>3, <2>2 DEF ActionOK, NodesOf, HooksOf
<1> DEFINE chain == ChainName(ordinal + 1)
<1>5. HookOf(chain) = "INPUT" /\ ChainOf(action, "INPUT") = chain
  BY <1>3 DEF HookOf, ChainName, ChainOf
<1> HIDE DEF n, chain
<1>6. ASSUME NEW i \in 1 .. n
      PROVE  /\ GoodPart(commands[i], "execute", action) /\ Fresh(commands[i])
             /\ \A q \in Nodes : q \notin Visible(order, i) =>
                  InPart(commands[i], Cmd("drop", order[i], chain, "INPUT", q))
  <2> DEFINE part == CreateChainForDirection(order[i], chain, "INPUT")
                       \o AddDropRules(order[i], chain, "INPUT", peers[i])
  <2>1. peers[i] \in Seq(Nodes) /\ ToSet(peers[i]) = Nodes \ Visible(order, i)
    <3>1. peers[i] = Without(order, Visible(order, i))
      BY <1>0 DEF n
    <3> QED
      BY <1>1, <3>1, WithoutFacts
  <2>2. \A q \in ToSet(peers[i]) : Block(order[i], "INPUT", q) \in action.design
    BY <1>2, <1>3, <2>1
  <2>3. Site(action, order[i], chain)
    BY <1>1, <1>3, <1>5 DEF Site, NodesOf, HooksOf
  <2>4. commands[i] = GetNodeIps(peers[i]) \o part
    BY <1>0 DEF Install, n, chain
  <2> DEFINE whole == commands[i]
  <2> DEFINE others == peers[i]
  <2>5. part = CreateChainForDirection(order[i], chain, "INPUT")
                 \o AddDropRules(order[i], chain, "INPUT", others)
    OBVIOUS
  <2> HIDE DEF part, whole, others
  <2>6. /\ GoodPart(part, "execute", action) /\ Makes(part)
        /\ \A q \in ToSet(others) : InPart(part, Cmd("drop", order[i], chain, "INPUT", q))
    <3>1. /\ others \in Seq(Nodes)
          /\ \A q \in ToSet(others) : Block(order[i], "INPUT", q) \in action.design
      BY <2>1, <2>2 DEF others
    <3>2. "INPUT" = HookOf(chain)
      BY <1>5
    <3> HIDE DEF chain
    <3> QED
      BY <1>4, <2>3, <2>5, <3>1, <3>2, ChainPart
  <2>7. /\ GoodPart(whole, "execute", action) /\ Fresh(whole)
        /\ \A c : InPart(part, c) => InPart(whole, c)
    <3>1. whole = GetNodeIps(others) \o part
      BY <2>4 DEF whole, others
    <3> QED
      BY <2>6, <3>1, PrefixedPart
  <2> QED
    BY <2>1, <2>6, <2>7 DEF whole, others
<1>7. Len(commands) = n /\ commands \in Seq(Seq(Command))
  <2>1. \A i \in 1 .. n : commands[i] \in Seq(Command)
    BY <1>6 DEF GoodPart
  <2> QED
    <3>1. commands = [i \in 1 .. n |-> commands[i]]
      BY <1>0 DEF n
    <3>2. n \in Nat
      BY <1>1
    <3> QED
      BY <2>1, <3>1, <3>2
<1>8. FreshPlan(commands, "execute", action)
  BY <1>6, <1>7 DEF FreshPlan
<1>9. ASSUME NEW b \in action.design
      PROVE  InPlan(commands, DropOf(action, b))
  <2>1. b \in Blocks /\ b.hook = "INPUT" /\ b = Block(b.at, b.hook, b.peer) /\ b.peer \in Nodes
    BY <1>2, <1>3, BlockFacts
  <2>2. PICK i \in 1 .. n : order[i] = b.at
    BY <1>1, <1>2, <1>3
  <2>3. b.peer \notin Visible(order, i)
    BY <1>2, <1>3, <2>1, <2>2
  <2>4. DropOf(action, b) = Cmd("drop", order[i], chain, "INPUT", b.peer)
    BY <1>5, <2>1, <2>2 DEF DropOf
  <2> QED
    BY <1>6, <1>7, <2>1, <2>3, <2>4 DEF InPlan
<1> QED
  BY <1>3, <1>4, <1>8, <1>9 DEF WellBegun

\* The nodes a subnet action cuts off, and the directions.
LEMMA PeersFacts ==
  ASSUME NEW node, NEW subnet \in {"zk", "db", "all"}
  PROVE  BlockedNodes(node, subnet) \in Seq(Nodes)
<1>1. ExtraNodes \in Seq(Nodes) /\ Without(DbNodes, {node}) \in Seq(Nodes)
  BY ConstantsAssumption, WithoutFacts
<1>2. ExtraNodes \o Without(DbNodes, {node}) \in Seq(Nodes)
  BY <1>1, ConcatProperties
<1>3. CASE subnet = "zk"
  BY <1>1, <1>3 DEF BlockedNodes
<1>4. CASE subnet = "db"
  BY <1>1, <1>4 DEF BlockedNodes
<1>5. CASE subnet = "all"
  BY <1>2, <1>5 DEF BlockedNodes
<1> QED
  BY <1>3, <1>4, <1>5

LEMMA DirectionsFacts ==
  ASSUME NEW direction \in {"input", "output", "both"},
         NEW hooks, hooks = IptablesDirections(direction)
  PROVE  /\ hooks \in {<<"INPUT">>, <<"OUTPUT">>, <<"INPUT", "OUTPUT">>} /\ hooks # <<>>
         /\ Len(hooks) \in Nat /\ DOMAIN hooks = 1 .. Len(hooks)
         /\ \A i \in 1 .. Len(hooks) : hooks[i] \in Hooks /\ hooks[i] \in ToSet(hooks)
         /\ \A h \in ToSet(hooks) : h \in Hooks /\ \E i \in 1 .. Len(hooks) : hooks[i] = h
<1>1. hooks \in {<<"INPUT">>, <<"OUTPUT">>, <<"INPUT", "OUTPUT">>}
  BY DEF IptablesDirections
<1>2. hooks \in Seq(Hooks) /\ hooks # <<>>
  <2>1. "INPUT" \in Hooks /\ "OUTPUT" \in Hooks
    BY DEF Hooks
  <2>2. CASE hooks = <<"INPUT">>
    BY <2>1, <2>2
  <2>3. CASE hooks = <<"OUTPUT">>
    BY <2>1, <2>3
  <2>4. CASE hooks = <<"INPUT", "OUTPUT">>
    BY <2>1, <2>4
  <2> QED
    BY <1>1, <2>2, <2>3, <2>4
<1>3. Len(hooks) \in Nat /\ DOMAIN hooks = 1 .. Len(hooks)
  BY <1>2, LenProperties
<1>4. \A i \in 1 .. Len(hooks) : hooks[i] \in Hooks
  BY <1>2, ElementOfSeq
<1> QED
  BY <1>1, <1>2, <1>3, <1>4 DEF ToSet

\* The subnet class: one node, a chain for each direction.
SubnetDesign(node, hooks, peers) == {Block(node, h, p) : h \in ToSet(hooks), p \in ToSet(peers)}

SubnetParts(n, node, hooks, peers) ==
  [i \in DOMAIN hooks |->
     LET chain == DirectionalChainName(n, hooks[i])
     IN CreateChainForDirection(node, chain, hooks[i])
          \o AddDropRules(node, chain, hooks[i], peers)]

LEMMA SubnetBegins ==
  ASSUME "subnet" \in Kinds, ordinal \in 0 .. MaxOrdinal, ordinal < MaxOrdinal,
         NEW node \in Nodes, NEW peers \in Seq(Nodes),
         NEW direction \in {"input", "output", "both"},
         NEW hooks, hooks = IptablesDirections(direction)
  PROVE  WellBegun(NewAction("subnet", hooks, node, SubnetDesign(node, hooks, peers)),
                   Part(GetNodeIps(peers)) \o SubnetParts(ordinal + 1, node, hooks, peers))
<1> DEFINE design == SubnetDesign(node, hooks, peers)
<1> DEFINE action == NewAction("subnet", hooks, node, design)
<1> DEFINE parts == SubnetParts(ordinal + 1, node, hooks, peers)
<1> DEFINE chain(h) == DirectionalChainName(ordinal + 1, h)
<1> DEFINE n == Len(hooks)
<1>1. /\ hooks \in {<<"INPUT">>, <<"OUTPUT">>, <<"INPUT", "OUTPUT">>} /\ hooks # <<>>
      /\ n \in Nat
      /\ \A i \in 1 .. n : hooks[i] \in Hooks /\ hooks[i] \in ToSet(hooks)
      /\ \A h \in ToSet(hooks) : h \in Hooks /\ \E i \in 1 .. n : hooks[i] = h
  <2>1. /\ hooks \in {<<"INPUT">>, <<"OUTPUT">>, <<"INPUT", "OUTPUT">>} /\ hooks # <<>>
        /\ Len(hooks) \in Nat
    BY DirectionsFacts
  <2>2. /\ \A i \in 1 .. Len(hooks) : hooks[i] \in Hooks /\ hooks[i] \in ToSet(hooks)
        /\ \A h \in ToSet(hooks) : h \in Hooks /\ \E i \in 1 .. Len(hooks) : hooks[i] = h
    BY DirectionsFacts
  <2> QED
    BY <2>1, <2>2
<1>2. /\ ToSet(peers) \subseteq Nodes /\ MaxOrdinal \in Nat
  BY ToSetFacts, ConstantsAssumption
<1>3. \A b \in design : b \in Blocks /\ b.at = node /\ b.hook \in ToSet(hooks)
  BY <1>1, <1>2, BlockFacts DEF SubnetDesign
<1>4. /\ \A h \in ToSet(hooks), p \in ToSet(peers) : Block(node, h, p) \in design
      /\ \A b \in design : \E h \in ToSet(hooks), p \in ToSet(peers) : b = Block(node, h, p)
  BY DEF SubnetDesign
<1>5. /\ DOMAIN parts = 1 .. n /\ parts = [i \in 1 .. n |-> parts[i]]
      /\ \A i \in 1 .. n :
           parts[i] = CreateChainForDirection(node, chain(hooks[i]), hooks[i])
                        \o AddDropRules(node, chain(hooks[i]), hooks[i], peers)
  <2>1. DOMAIN hooks = 1 .. n
    BY DirectionsFacts
  <2>2. parts = [i \in DOMAIN hooks |->
                   CreateChainForDirection(node, chain(hooks[i]), hooks[i])
                     \o AddDropRules(node, chain(hooks[i]), hooks[i], peers)]
    BY DEF SubnetParts
  <2> QED
    BY <2>1, <2>2
<1>6. /\ action.ordinal = ordinal + 1 /\ action.kind = "subnet" /\ action.hooks = hooks
      /\ action.node = node /\ action.design = design
      /\ action = [ordinal |-> ordinal + 1, kind |-> "subnet", hooks |-> hooks,
                   node |-> node, design |-> design]
  BY DEF NewAction
<1>7. /\ NodesOf(action) = {node} /\ HooksOf(action) = ToSet(hooks)
      /\ \A h : ChainOf(action, h) = chain(h)
  BY <1>1, <1>6 DEF NodesOf, HooksOf, ChainOf
<1>8. \A h \in Hooks : HookOf(chain(h)) = h
  BY DEF HookOf, DirectionalChainName, Hooks
<1> HIDE DEF design, action, parts, chain, n
<1>9. ActionOK(action)
  <2>1. ordinal + 1 \in 1 .. MaxOrdinal
    BY <1>2
  <2>2. action \in Action
    <3>1. design \in SUBSET Blocks
      BY <1>3
    <3> QED
      BY <1>1, <1>6, <2>1, <3>1 DEF Action
  <2> QED
    BY <1>3, <1>6, <1>7, <2>2 DEF ActionOK
<1>10. ASSUME NEW i \in 1 .. n
       PROVE  /\ GoodPart(parts[i], "execute", action) /\ Fresh(parts[i])
              /\ \A q \in ToSet(peers) :
                   InPart(parts[i], Cmd("drop", node, chain(hooks[i]), hooks[i], q))
  <2>1. hooks[i] \in Hooks /\ hooks[i] \in ToSet(hooks) /\ HookOf(chain(hooks[i])) = hooks[i]
    BY <1>1, <1>8
  <2>2. Site(action, node, chain(hooks[i]))
    BY <1>7, <2>1 DEF Site
  <2>3. \A q \in ToSet(peers) : Block(node, hooks[i], q) \in action.design
    BY <1>4, <1>6, <2>1
  <2>4. parts[i] = CreateChainForDirection(node, chain(hooks[i]), hooks[i])
                     \o AddDropRules(node, chain(hooks[i]), hooks[i], peers)
    BY <1>5
  <2>5. /\ GoodPart(parts[i], "execute", action) /\ Makes(parts[i])
        /\ \A q \in ToSet(peers) :
             InPart(parts[i], Cmd("drop", node, chain(hooks[i]), hooks[i], q))
    BY <1>9, <2>1, <2>2, <2>3, <2>4, ChainPart
  <2> QED
    BY <2>5 DEF Fresh, Makes
<1>11. Len(parts) = n /\ parts \in Seq(Seq(Command))
  <2>1. \A i \in 1 .. n : parts[i] \in Seq(Command)
    BY <1>10 DEF GoodPart
  <2>2. n \in Nat /\ DOMAIN parts = 1 .. n /\ parts = [i \in 1 .. n |-> parts[i]]
    BY <1>1, <1>5
  <2> QED
    BY <2>1, <2>2
<1>12. FreshPlan(parts, "execute", action)
  BY <1>10, <1>11 DEF FreshPlan
<1>13. FreshPlan(Part(GetNodeIps(peers)), "execute", action)
  BY LookupPlan
<1>14. FreshPlan(Part(GetNodeIps(peers)) \o parts, "execute", action)
  BY <1>12, <1>13, FreshConcat
<1>15. ASSUME NEW b \in action.design
       PROVE  InPlan(Part(GetNodeIps(peers)) \o parts, DropOf(action, b))
  <2>1. PICK h \in ToSet(hooks), q \in ToSet(peers) : b = Block(node, h, q)
    BY <1>4, <1>6
  <2>2. PICK i \in 1 .. n : hooks[i] = h
    BY <1>1
  <2>3. DropOf(action, b) = Cmd("drop", node, chain(hooks[i]), hooks[i], q)
    BY <1>7, <2>1, <2>2, BlockFacts DEF DropOf
  <2>4. InPlan(parts, DropOf(action, b))
    BY <1>10, <1>11, <2>3 DEF InPlan
  <2>5. Part(GetNodeIps(peers)) \in Seq(Seq(Command))
    BY <1>13 DEF FreshPlan
  <2> QED
    BY <1>11, <2>4, <2>5, InConcat
<1> QED
  BY <1>6, <1>9, <1>14, <1>15 DEF WellBegun, design, action, parts

\* Every class of partition begins well.
LEMMA ExecuteBegins ==
  ASSUME ordinal \in 0 .. MaxOrdinal, Execute
  PROVE  \E action, commands : Begin(action, commands) /\ WellBegun(action, commands)
<1> USE DEF Begin
<1>1. ASSUME NEW order \in SetToSeqs(Nodes), ExecuteHalves(order)
      PROVE  \E action, commands : Begin(action, commands) /\ WellBegun(action, commands)
  <2> DEFINE mid == Len(order) \div 2
  <2> DEFINE left == SubSeq(order, 1, mid)
  <2> DEFINE right == SubSeq(order, mid + 1, Len(order))
  <2> DEFINE action == NewAction("halves", <<>>, "-", Separation(ToSet(left), ToSet(right)))
  <2>1. Begin(action, Separate(ordinal + 1, left, right))
    BY <1>1 DEF ExecuteHalves
  <2>2. left \in Seq(Nodes) /\ right \in Seq(Nodes)
    <3>1. /\ Len(order) \in Nat /\ mid \in Int /\ mid >= 0 /\ mid <= Len(order)
          /\ \A i \in 1 .. Len(order) : order[i] \in Nodes
      BY OrderFacts, ToSetFacts
    <3>2. /\ \A i \in 1 .. mid : order[i] \in Nodes
          /\ \A i \in mid + 1 .. Len(order) : order[i] \in Nodes
      BY <3>1
    <3> HIDE DEF mid
    <3> QED
      BY <3>1, <3>2, SubSeqProperties
  <2> HIDE DEF left, right
  <2>3. "halves" \in Kinds \ {"ring"} /\ ordinal < MaxOrdinal
    BY <2>1 DEF NewAction
  <2>4. WellBegun(action, Separate(ordinal + 1, left, right))
    BY <2>2, <2>3, CutBegins
  <2> QED
    BY <2>1, <2>4, Zenon
<1>2. ASSUME NEW order \in SetToSeqs(Nodes), ExecuteRing(order)
      PROVE  \E action, commands : Begin(action, commands) /\ WellBegun(action, commands)
  <2> DEFINE peers == [i \in 1 .. Len(order) |-> Without(order, Visible(order, i))]
  <2> DEFINE action == NewAction("ring", <<>>, "-", RingDesign(order))
  <2> DEFINE commands == [i \in 1 .. Len(order) |->
                            GetNodeIps(peers[i]) \o Install(ordinal + 1, order[i], peers[i])]
  <2>1. Begin(action, commands)
    <3>1. DOMAIN order = 1 .. Len(order)
      BY OrderFacts
    <3> QED
      BY <1>2, <3>1 DEF ExecuteRing
  <2>2. "ring" \in Kinds /\ ordinal < MaxOrdinal
    BY <2>1 DEF NewAction
  <2>3. \A i \in 1 .. Len(order) : peers[i] = Without(order, Visible(order, i))
    OBVIOUS
  <2> HIDE DEF peers
  <2>4. WellBegun(action, commands)
    BY <2>2, <2>3, RingBegins, Zenon
  <2> QED
    BY <2>1, <2>4, Zenon
<1>3. ASSUME NEW node \in Nodes, ExecuteNode(node)
      PROVE  \E action, commands : Begin(action, commands) /\ WellBegun(action, commands)
  <2> DEFINE left == <<node>>
  <2> DEFINE right == Without(AllNodes, {node})
  <2> DEFINE action == NewAction("node", <<>>, "-", Separation(ToSet(left), ToSet(right)))
  <2>1. /\ left \in Seq(Nodes) /\ ToSet(left) = {node}
        /\ right \in Seq(Nodes) /\ ToSet(right) = Nodes \ {node}
    <3>1. left \in Seq(Nodes) /\ ToSet(left) = {node}
      BY DEF ToSet
    <3>2. AllNodes \in Seq(Nodes) /\ ToSet(AllNodes) = Nodes
      BY NodesFinite DEF Nodes
    <3> QED
      BY <3>1, <3>2, WithoutFacts
  <2>2. Begin(action, Separate(ordinal + 1, left, right))
    BY <1>3, <2>1 DEF ExecuteNode
  <2> HIDE DEF left, right
  <2>3. "node" \in Kinds \ {"ring"} /\ ordinal < MaxOrdinal
    BY <2>2 DEF NewAction
  <2>4. WellBegun(action, Separate(ordinal + 1, left, right))
    BY <2>1, <2>3, CutBegins
  <2> QED
    BY <2>2, <2>4, Zenon
<1>4. ASSUME NEW dc \in DOMAIN DcMap, ExecuteDc(dc)
      PROVE  \E action, commands : Begin(action, commands) /\ WellBegun(action, commands)
  <2> DEFINE left == DcMap[dc]
  <2> DEFINE right == Without(AllNodes, ToSet(left))
  <2> DEFINE action == NewAction("dc", <<>>, "-", Separation(ToSet(left), ToSet(right)))
  <2> DEFINE commands == IF left = <<>> THEN <<>> ELSE Separate(ordinal + 1, left, right)
  <2>1. left \in Seq(Nodes)
    BY ConstantsAssumption
  <2>2. right \in Seq(Nodes) /\ ToSet(right) = Nodes \ ToSet(left)
    BY NodesFinite, WithoutFacts DEF Nodes
  <2>3. Begin(action, commands)
    BY <1>4, <2>2 DEF ExecuteDc
  <2> HIDE DEF left, right
  <2>4. "dc" \in Kinds \ {"ring"} /\ ordinal < MaxOrdinal
    BY <2>3 DEF NewAction
  <2>5. WellBegun(action, Separate(ordinal + 1, left, right))
    BY <2>1, <2>2, <2>4, CutBegins
  <2>6. CASE left # <<>>
    BY <2>3, <2>5, <2>6, Zenon
  <2>7. CASE left = <<>>
    <3>1. ToSet(left) = {}
      BY <2>7 DEF ToSet
    <3>2. action.design = {}
      BY <3>1 DEF NewAction, Separation
    <3>3. FreshPlan(<<>>, "execute", action)
      BY EmptySeq DEF FreshPlan
    <3>4. WellBegun(action, commands)
      BY <2>5, <2>7, <3>2, <3>3 DEF WellBegun
    <3> QED
      BY <2>3, <3>4, Zenon
  <2> QED
    BY <2>6, <2>7
<1>5. ASSUME NEW node \in ToSet(DbNodes), NEW direction \in {"input", "output", "both"},
             NEW subnet \in {"zk", "db", "all"}, ExecuteSubnet(node, direction, subnet)
      PROVE  \E action, commands : Begin(action, commands) /\ WellBegun(action, commands)
  <2> DEFINE peers == BlockedNodes(node, subnet)
  <2> DEFINE hooks == IptablesDirections(direction)
  <2> DEFINE action == NewAction("subnet", hooks, node, SubnetDesign(node, hooks, peers))
  <2> DEFINE parts == SubnetParts(ordinal + 1, node, hooks, peers)
  <2>1. Begin(action, Part(GetNodeIps(peers)) \o parts)
    BY <1>5 DEF ExecuteSubnet, SubnetDesign, SubnetParts
  <2>2. "subnet" \in Kinds /\ ordinal < MaxOrdinal
    BY <2>1 DEF NewAction
  <2>3. node \in Nodes /\ peers \in Seq(Nodes)
    BY PeersFacts, ToSetFacts, ConstantsAssumption
  <2>4. WellBegun(action, Part(GetNodeIps(peers)) \o parts)
    <3> HIDE DEF peers
    <3> QED
      BY <2>2, <2>3, SubnetBegins
  <2> HIDE DEF action, parts, peers
  <2> QED
    BY <2>1, <2>4, Zenon
<1> QED
  BY <1>1, <1>2, <1>3, <1>4, <1>5, Zenon DEF Execute

-----------------------------------------------------------------------------
(* The plan of heal() removes every chain of its action.                   *)

LEMMA RemovalPart ==
  ASSUME NEW a, ActionOK(a), NEW node, NEW chain, NEW hook, Site(a, node, chain),
         hook = HookOf(chain),
         NEW part, part = RemoveChainForDirection(node, chain, hook)
  PROVE  /\ GoodPart(part, "heal", a) /\ Fresh(part)
         /\ InPart(part, FlushOf(node, chain)) /\ InPart(part, DeleteOf(node, chain))
<1> DEFINE u == Cmd("unlink", node, chain, hook, "-")
<1>1. node \in Nodes /\ chain \in Chains /\ hook \in Hooks
  BY SiteFacts
<1>2. /\ FlushOf(node, chain) \in Command /\ u \in Command /\ DeleteOf(node, chain) \in Command
      /\ FlushOf(node, chain).op = "flush" /\ u.op = "unlink" /\ DeleteOf(node, chain).op = "delete"
      /\ FlushOf(node, chain).at = node /\ u.at = node /\ DeleteOf(node, chain).at = node
      /\ FlushOf(node, chain).chain = chain /\ u.chain = chain
      /\ DeleteOf(node, chain).chain = chain /\ u.hook = hook
  <2>1. /\ FlushOf(node, chain) \in Command /\ FlushOf(node, chain).op = "flush"
        /\ FlushOf(node, chain).at = node /\ FlushOf(node, chain).chain = chain
    BY <1>1, CmdFacts DEF FlushOf
  <2>2. u \in Command /\ u.op = "unlink" /\ u.at = node /\ u.chain = chain /\ u.hook = hook
    BY <1>1, CmdFacts
  <2>3. /\ DeleteOf(node, chain) \in Command /\ DeleteOf(node, chain).op = "delete"
        /\ DeleteOf(node, chain).at = node /\ DeleteOf(node, chain).chain = chain
    BY <1>1, CmdFacts DEF DeleteOf
  <2> QED
    BY <2>1, <2>2, <2>3
<1>3. part = <<FlushOf(node, chain), u, DeleteOf(node, chain)>>
  BY DEF RemoveChainForDirection, FlushOf, DeleteOf
<1> HIDE DEF u
<1>4. /\ part \in Seq(Command) /\ Len(part) = 3 /\ part[1] = FlushOf(node, chain)
      /\ part[2] = u /\ part[3] = DeleteOf(node, chain)
  BY <1>2, <1>3
<1>5. \A j \in 1 .. Len(part) : j = 1 \/ j = 2 \/ j = 3
  BY <1>4
<1>6. ASSUME NEW j \in 1 .. Len(part)
      PROVE  IF j < Len(part) THEN Follows(part[j], part[j + 1])
             ELSE part[j].op \in {"lookup", "link", "drop", "delete"}
  <2>1. Follows(part[1], part[2]) /\ Follows(part[2], part[3])
    BY <1>2, <1>4 DEF Follows
  <2> QED
    BY <1>2, <1>4, <1>5, <2>1
<1>7. ASSUME NEW j \in 1 .. Len(part)
      PROVE  Allowed("heal", a, part[j])
  <2>1. HealCommand(a, part[1]) /\ HealCommand(a, part[2]) /\ HealCommand(a, part[3])
    BY <1>2, <1>4 DEF HealCommand
  <2> QED
    BY <1>5, <2>1 DEF Allowed
<1>8. Fresh(part)
  BY <1>2, <1>4 DEF Fresh
<1>9. InPart(part, FlushOf(node, chain)) /\ InPart(part, DeleteOf(node, chain))
  <2>1. 1 \in 1 .. Len(part) /\ 3 \in 1 .. Len(part)
    BY <1>4
  <2> QED
    BY <1>4, <2>1 DEF InPart
<1>10. InOrder(part)
  BY <1>4, <1>6 DEF InOrder
<1> QED
  BY <1>4, <1>7, <1>8, <1>9, <1>10 DEF GoodPart

\* The removal of m chains.
Removal(m, node, chain) ==
  [i \in 1 .. m |-> RemoveChainForDirection(node[i], chain[i], HookOf(chain[i]))]

LEMMA RemovalPlan ==
  ASSUME NEW a, ActionOK(a), NEW m \in Nat, NEW node, NEW chain,
         \A i \in 1 .. m : Site(a, node[i], chain[i]),
         \A n, c : Site(a, n, c) => \E i \in 1 .. m : node[i] = n /\ chain[i] = c
  PROVE  /\ FreshPlan(Removal(m, node, chain), "heal", a)
         /\ \A n, c : Site(a, n, c) => /\ InPlan(Removal(m, node, chain), FlushOf(n, c))
                                       /\ InPlan(Removal(m, node, chain), DeleteOf(n, c))
<1> DEFINE s == Removal(m, node, chain)
<1>0. /\ DOMAIN s = 1 .. m /\ s = [i \in 1 .. m |-> s[i]]
      /\ \A i \in 1 .. m : s[i] = RemoveChainForDirection(node[i], chain[i], HookOf(chain[i]))
  BY DEF Removal
<1> HIDE DEF s
<1>1. ASSUME NEW i \in 1 .. m
      PROVE  /\ GoodPart(s[i], "heal", a) /\ Fresh(s[i])
             /\ InPart(s[i], FlushOf(node[i], chain[i]))
             /\ InPart(s[i], DeleteOf(node[i], chain[i]))
  BY <1>0, RemovalPart
<1>2. s \in Seq(Seq(Command)) /\ Len(s) = m
  <2>1. \A i \in 1 .. m : s[i] \in Seq(Command)
    BY <1>1 DEF GoodPart
  <2> QED
    BY <1>0, <2>1
<1>3. FreshPlan(s, "heal", a)
  BY <1>1, <1>2 DEF FreshPlan
<1>4. ASSUME NEW n, NEW c, Site(a, n, c)
      PROVE  InPlan(s, FlushOf(n, c)) /\ InPlan(s, DeleteOf(n, c))
  <2>1. PICK i \in 1 .. m : node[i] = n /\ chain[i] = c
    BY <1>4
  <2> QED
    BY <1>1, <1>2, <2>1 DEF InPlan
<1> QED
  BY <1>3, <1>4 DEF s

LEMMA HealPlanFacts ==
  ASSUME NEW a, ActionOK(a)
  PROVE  /\ FreshPlan(HealPlan(a), "heal", a)
         /\ \A n, c : Site(a, n, c) => /\ InPlan(HealPlan(a), FlushOf(n, c))
                                       /\ InPlan(HealPlan(a), DeleteOf(n, c))
<1> DEFINE s == HealPlan(a)
<1> SUFFICES /\ FreshPlan(s, "heal", a)
             /\ \A n, c : Site(a, n, c) => InPlan(s, FlushOf(n, c)) /\ InPlan(s, DeleteOf(n, c))
  OBVIOUS
<1>2. CASE a.hooks = <<>>
  <2> DEFINE m == Len(AllNodes)
  <2> DEFINE chain == [i \in 1 .. m |-> ChainName(a.ordinal)]
  <2>1. /\ DOMAIN AllNodes = 1 .. m /\ m \in Nat
        /\ \A i \in 1 .. m : AllNodes[i] \in Nodes
        /\ \A x \in Nodes : \E i \in 1 .. m : AllNodes[i] = x
    BY NodesFinite, ToSetFacts DEF Nodes
  <2>2. HookOf(ChainName(a.ordinal)) = "INPUT"
    BY DEF HookOf, ChainName
  <2>3. s = [i \in 1 .. m |->
               RemoveChainForDirection(AllNodes[i], ChainName(a.ordinal), "INPUT")]
    BY <1>2, <2>1 DEF HealPlan, HealPartition
  <2>4. \A n, c : Site(a, n, c) <=> n \in Nodes /\ c = ChainName(a.ordinal)
    BY <1>2, <2>2 DEF Site, NodesOf, HooksOf, ChainOf
  <2> HIDE DEF s, m
  <2>5. \A i \in 1 .. m : Site(a, AllNodes[i], chain[i])
    BY <2>1, <2>4
  <2>7. s = Removal(m, AllNodes, chain)
    BY <2>2, <2>3 DEF Removal
  <2>6. \A n, c : Site(a, n, c) => \E i \in 1 .. m : AllNodes[i] = n /\ chain[i] = c
    BY <2>1, <2>4
  <2> HIDE DEF chain
  <2>8. /\ FreshPlan(Removal(m, AllNodes, chain), "heal", a)
        /\ \A n, c : Site(a, n, c) => /\ InPlan(Removal(m, AllNodes, chain), FlushOf(n, c))
                                      /\ InPlan(Removal(m, AllNodes, chain), DeleteOf(n, c))
    BY <2>1, <2>5, <2>6, RemovalPlan
  <2> QED
    BY <2>7, <2>8
<1>3. CASE a.hooks # <<>>
  <2> DEFINE hooks == a.hooks
  <2> DEFINE m == Len(hooks)
  <2> DEFINE node == [i \in 1 .. m |-> a.node]
  <2> DEFINE chain == [i \in 1 .. m |-> DirectionalChainName(a.ordinal, hooks[i])]
  <2>1. hooks \in {<<"INPUT">>, <<"OUTPUT">>, <<"INPUT", "OUTPUT">>}
    BY <1>3 DEF ActionOK, Action
  <2>2. hooks \in Seq(Hooks)
    <3>1. "INPUT" \in Hooks /\ "OUTPUT" \in Hooks
      BY DEF Hooks
    <3>2. CASE hooks = <<"INPUT">>
      BY <3>1, <3>2
    <3>3. CASE hooks = <<"OUTPUT">>
      BY <3>1, <3>3
    <3>4. CASE hooks = <<"INPUT", "OUTPUT">>
      BY <3>1, <3>4
    <3> QED
      BY <2>1, <3>2, <3>3, <3>4
  <2>3. DOMAIN hooks = 1 .. m /\ m \in Nat /\ \A i \in 1 .. m : hooks[i] \in Hooks
    BY <2>2, LenProperties, ElementOfSeq
  <2>4. /\ \A i \in 1 .. m : hooks[i] \in ToSet(hooks)
        /\ \A h \in ToSet(hooks) : \E i \in 1 .. m : hooks[i] = h
    BY <2>3 DEF ToSet
  <2>5. \A h \in Hooks : HookOf(DirectionalChainName(a.ordinal, h)) = h
    BY DEF HookOf, DirectionalChainName, Hooks
  <2>6. s = [i \in 1 .. m |-> RemoveChainForDirection(a.node,
               DirectionalChainName(a.ordinal, hooks[i]), hooks[i])]
    BY <1>3, <2>3 DEF HealPlan, HealDirectionalPartition
  <2>7. \A n, c : Site(a, n, c) <=>
          /\ n = a.node /\ HookOf(c) \in ToSet(hooks)
          /\ c = DirectionalChainName(a.ordinal, HookOf(c))
    BY <1>3 DEF Site, NodesOf, HooksOf, ChainOf
  <2> HIDE DEF s, m, hooks
  <2>8. ASSUME NEW i \in 1 .. m
        PROVE  /\ node[i] = a.node /\ chain[i] = DirectionalChainName(a.ordinal, hooks[i])
               /\ HookOf(chain[i]) = hooks[i]
    BY <2>3, <2>5
  <2> HIDE DEF node, chain
  <2>9. \A i \in 1 .. m : Site(a, node[i], chain[i])
    BY <2>4, <2>7, <2>8
  <2>11. s = Removal(m, node, chain)
    BY <2>6, <2>8 DEF Removal
  <2>10. \A n, c : Site(a, n, c) => \E i \in 1 .. m : node[i] = n /\ chain[i] = c
    <3> SUFFICES ASSUME NEW n, NEW c, Site(a, n, c)
                 PROVE  \E i \in 1 .. m : node[i] = n /\ chain[i] = c
      OBVIOUS
    <3>1. n = a.node /\ HookOf(c) \in ToSet(hooks) /\ c = DirectionalChainName(a.ordinal, HookOf(c))
      BY <2>7
    <3>2. PICK i \in 1 .. m : hooks[i] = HookOf(c)
      BY <2>4, <3>1
    <3> QED
      BY <2>8, <3>1, <3>2
  <2>12. /\ FreshPlan(Removal(m, node, chain), "heal", a)
         /\ \A n, c : Site(a, n, c) => /\ InPlan(Removal(m, node, chain), FlushOf(n, c))
                                       /\ InPlan(Removal(m, node, chain), DeleteOf(n, c))
    BY <2>3, <2>9, <2>10, RemovalPlan
  <2> QED
    BY <2>11, <2>12
<1> QED
  BY <1>2, <1>3

-----------------------------------------------------------------------------
(* A command of the plan: what it may be, and what it does.                *)

\* The plan of action a is being carried out.
Running(a) ==
  /\ plan # <<>> /\ phase \in {"execute", "heal"}
  /\ current = {a} /\ ActionOK(a)
  /\ GoodPlan(plan, phase, a)

LEMMA SomeRunning ==
  ASSUME TypeOK, Engine, plan # <<>>
  PROVE  \E a : Running(a)
<1>1. phase \in {"execute", "heal"}
  BY DEF TypeOK, Engine
<1>2. PICK a \in current : current = {a} /\ GoodPlan(plan, phase, a)
  BY <1>1 DEF Engine
<1>3. ActionOK(a)
  BY DEF Engine, Concerned
<1> QED
  BY <1>1, <1>2, <1>3 DEF Running

LEMMA CommandFacts ==
  ASSUME NEW a, Running(a), NEW c, c = NextCommand
  PROVE  /\ phase = "execute" => c.op \in {"create", "link", "drop", "lookup"}
         /\ phase = "heal" => c.op \in {"flush", "unlink", "delete"}
         /\ phase = "execute" \/ phase = "heal"
         /\ c.op # "lookup" => /\ Site(a, c.at, c.chain) /\ c.chain.id = a.ordinal
                               /\ c.at \in Nodes /\ c.chain \in Chains
         /\ c.op \in {"link", "drop", "unlink"} => c.hook = HookOf(c.chain) /\ c.hook \in Hooks
         /\ c.op = "drop" => /\ Block(c.at, c.hook, c.peer) \in a.design /\ c.peer \in Nodes
                             /\ c.chain = ChainOf(a, c.hook)
<1>1. Allowed(phase, a, c)
  BY NextFacts DEF Running
<1>2. CASE phase = "execute"
  <2>1. ExecuteCommand(a, c)
    BY <1>1, <1>2 DEF Allowed
  <2>2. c.op # "lookup" => /\ Site(a, c.at, c.chain) /\ c.chain.id = a.ordinal
                           /\ c.at \in Nodes /\ c.chain \in Chains
                           /\ HookOf(c.chain) \in Hooks /\ c.chain = ChainOf(a, HookOf(c.chain))
    BY <2>1, SiteFacts DEF ExecuteCommand, Running
  <2>3. c.op = "drop" => Block(c.at, c.hook, c.peer) \in a.design /\ c.peer \in Nodes
    <3> SUFFICES ASSUME c.op = "drop"
                 PROVE  Block(c.at, c.hook, c.peer) \in a.design /\ c.peer \in Nodes
      OBVIOUS
    <3>1. Block(c.at, c.hook, c.peer) \in a.design
      BY <2>1 DEF ExecuteCommand
    <3>2. Block(c.at, c.hook, c.peer) \in Blocks
      BY <3>1, DesignFacts DEF Running
    <3> QED
      BY <3>1, <3>2, BlockFacts
  <2> QED
    BY <1>2, <2>1, <2>2, <2>3 DEF ExecuteCommand
<1>3. CASE phase = "heal"
  <2>1. HealCommand(a, c)
    BY <1>1, <1>3 DEF Allowed
  <2>2. /\ Site(a, c.at, c.chain) /\ c.chain.id = a.ordinal
        /\ c.at \in Nodes /\ c.chain \in Chains /\ HookOf(c.chain) \in Hooks
    BY <2>1, SiteFacts DEF HealCommand, Running
  <2> QED
    BY <1>3, <2>1, <2>2 DEF HealCommand
<1> QED
  BY <1>2, <1>3 DEF Running

LEMMA PerformFacts ==
  ASSUME NEW c, Perform(c)
  PROVE  /\ chains' = IF c.op = "create" THEN chains \cup {<<c.at, c.chain>>}
                      ELSE IF c.op = "delete" THEN chains \ {<<c.at, c.chain>>} ELSE chains
         /\ links' = IF c.op = "link" THEN links \cup {<<c.at, c.hook, c.chain>>}
                     ELSE IF c.op = "unlink" THEN links \ {<<c.at, c.hook, c.chain>>} ELSE links
         /\ rules' = IF c.op = "drop"
                     THEN rules \cup {<<c.at, c.chain, Match[c.hook], c.peer>>}
                     ELSE IF c.op = "flush" THEN {r \in rules : r[1] # c.at \/ r[2] # c.chain}
                     ELSE rules
  BY DEF Perform

LEMMA AcceptsFacts ==
  ASSUME NEW c
  PROVE  /\ c.op = "create" => (Accepts(c) <=> <<c.at, c.chain>> \notin chains)
         /\ c.op \in {"link", "drop", "flush"} => (Accepts(c) <=> <<c.at, c.chain>> \in chains)
         /\ c.op = "unlink" => (Accepts(c) <=> <<c.at, c.hook, c.chain>> \in links)
         /\ c.op = "delete" =>
              (Accepts(c) <=> /\ <<c.at, c.chain>> \in chains
                              /\ \A h \in Hooks : <<c.at, h, c.chain>> \notin links
                              /\ ~\E r \in rules : r[1] = c.at /\ r[2] = c.chain)
         /\ c.op = "lookup" => Accepts(c)
<1>1. CASE c.op = "create"
  BY <1>1 DEF Accepts
<1>2. CASE c.op \in {"link", "drop", "flush"}
  BY <1>2 DEF Accepts
<1>3. CASE c.op = "unlink"
  BY <1>3 DEF Accepts
<1>4. CASE c.op = "delete"
  BY <1>4 DEF Accepts
<1>5. CASE c.op = "lookup"
  BY <1>5 DEF Accepts
<1> QED
  BY <1>1, <1>2, <1>3, <1>4, <1>5

\* The firewalls in their types.
FirewallOK ==
  /\ chains \subseteq Nodes \X Chains
  /\ links \subseteq Nodes \X Hooks \X Chains
  /\ rules \subseteq Nodes \X Chains \X {"src", "dst"} \X Nodes

LEMMA PerformTyped ==
  ASSUME FirewallOK, NEW a, Running(a), Perform(NextCommand)
  PROVE  FirewallOK'
<1> DEFINE c == NextCommand
<1>1. \A h \in Hooks : Match[h] \in {"src", "dst"}
  BY DEF Hooks, Match
<1>2. /\ c.op # "lookup" => c.at \in Nodes /\ c.chain \in Chains
      /\ c.op \in {"link", "drop", "unlink"} => c.hook \in Hooks
      /\ c.op = "drop" => c.peer \in Nodes
  BY CommandFacts
<1>3. /\ chains' \subseteq chains \cup {<<c.at, c.chain>>}
      /\ c.op # "create" => chains' \subseteq chains
      /\ links' \subseteq links \cup {<<c.at, c.hook, c.chain>>}
      /\ c.op # "link" => links' \subseteq links
      /\ rules' \subseteq rules \cup {<<c.at, c.chain, Match[c.hook], c.peer>>}
      /\ c.op # "drop" => rules' \subseteq rules
  BY PerformFacts
<1> HIDE DEF c
<1>4. chains' \subseteq Nodes \X Chains
  BY <1>2, <1>3 DEF FirewallOK
<1>5. links' \subseteq Nodes \X Hooks \X Chains
  BY <1>2, <1>3 DEF FirewallOK
<1>6. rules' \subseteq Nodes \X Chains \X {"src", "dst"} \X Nodes
  BY <1>1, <1>2, <1>3 DEF FirewallOK
<1> QED
  BY <1>4, <1>5, <1>6 DEF FirewallOK

\* A chain is deleted only when it is empty and not linked.
LEMMA TablesStep ==
  ASSUME FirewallOK, Tables, NEW a, Running(a), Accepts(NextCommand), Perform(NextCommand)
  PROVE  Tables'
<1> DEFINE c == NextCommand
<1>1. /\ c.op = "link" => c.hook = HookOf(c.chain)
      /\ c.op \in {"create", "link", "drop", "lookup", "flush", "unlink", "delete"}
  BY CommandFacts
<1>2. /\ c.op \in {"link", "drop"} => <<c.at, c.chain>> \in chains
      /\ c.op = "delete" => /\ \A h \in Hooks : <<c.at, h, c.chain>> \notin links
                            /\ ~\E r \in rules : r[1] = c.at /\ r[2] = c.chain
  BY AcceptsFacts
<1>3. /\ chains' = IF c.op = "create" THEN chains \cup {<<c.at, c.chain>>}
                   ELSE IF c.op = "delete" THEN chains \ {<<c.at, c.chain>>} ELSE chains
      /\ links' \subseteq links \cup {<<c.at, c.hook, c.chain>>}
      /\ c.op # "link" => links' \subseteq links
      /\ rules' \subseteq rules \cup {<<c.at, c.chain, Match[c.hook], c.peer>>}
      /\ c.op # "drop" => rules' \subseteq rules
  BY PerformFacts
<1> HIDE DEF c
<1>4. ASSUME NEW l \in links'
      PROVE  <<l[1], l[3]>> \in chains' /\ l[2] = HookOf(l[3])
  <2>1. CASE l \in links
    <3>1. <<l[1], l[3]>> \in chains /\ l[2] = HookOf(l[3])
      BY <2>1 DEF Tables
    <3>2. l = <<l[1], l[2], l[3]>> /\ l[2] \in Hooks
      BY <2>1 DEF FirewallOK
    <3>3. c.op = "delete" => <<l[1], l[3]>> # <<c.at, c.chain>>
      BY <1>2, <2>1, <3>2
    <3> QED
      BY <1>3, <3>1, <3>3
  <2>2. CASE l \notin links
    BY <1>1, <1>2, <1>3, <2>2
  <2> QED
    BY <2>1, <2>2
<1>5. ASSUME NEW r \in rules'
      PROVE  <<r[1], r[2]>> \in chains'
  <2>1. CASE r \in rules
    <3>1. <<r[1], r[2]>> \in chains
      BY <2>1 DEF Tables
    <3>2. c.op = "delete" => <<r[1], r[2]>> # <<c.at, c.chain>>
      BY <1>2, <2>1
    <3> QED
      BY <1>3, <3>1, <3>2
  <2>2. CASE r \notin rules
    BY <1>2, <1>3, <2>2
  <2> QED
    BY <2>1, <2>2
<1> QED
  BY <1>4, <1>5 DEF Tables

\* A rule is added for the action whose plan it is.
LEMMA AttributedStep ==
  ASSUME Attributed, NEW a, Running(a), Perform(NextCommand),
         UNCHANGED <<active, current, unflushed>>
  PROVE  Attributed'
<1> DEFINE c == NextCommand
<1>1. c.op = "drop" => /\ c.hook \in Hooks /\ c.chain = ChainOf(a, c.hook)
                       /\ Block(c.at, c.hook, c.peer) \in a.design
  BY CommandFacts
<1>2. /\ rules' \subseteq rules \cup {<<c.at, c.chain, Match[c.hook], c.peer>>}
      /\ c.op # "drop" => rules' \subseteq rules
  BY PerformFacts
<1>3. a \in Concerned /\ Concerned' = Concerned
  BY DEF Running, Concerned
<1> HIDE DEF c
<1>4. ASSUME NEW r \in rules', NEW h \in Hooks, r[3] = Match[h]
      PROVE  \/ Block(r[1], h, r[4]) \in unflushed'
             \/ \E b \in Concerned' : r[2] = ChainOf(b, h) /\ Block(r[1], h, r[4]) \in b.design
  <2>1. CASE r \in rules
    BY <1>3, <1>4, <2>1 DEF Attributed
  <2>2. CASE r \notin rules
    <3>1. c.op = "drop" /\ r = <<c.at, c.chain, Match[c.hook], c.peer>>
      BY <1>2, <2>2
    <3>2. h = c.hook
      BY <1>1, <1>4, <3>1, HookFacts
    <3> QED
      BY <1>1, <1>3, <3>1, <3>2
  <2> QED
    BY <2>1, <2>2
<1> QED
  BY <1>4 DEF Attributed

-----------------------------------------------------------------------------
(* A command of the plan, whatever comes of it.                            *)

LEMMA PlanStep ==
  ASSUME NEW a, Running(a), plan' = Rest(1) \/ GoOn
  PROVE  /\ GoodPlan(plan', phase, a)
         /\ \A d : InPlan(plan, d) =>
              \/ InPlan(plan', d)
              \/ d = NextCommand
              \/ NextCommand.op = "lookup"
              \/ /\ NextCommand.op \in {"create", "flush", "unlink"}
                 /\ d.op \in {"link", "unlink", "delete"}
                 /\ d.at = NextCommand.at /\ d.chain = NextCommand.chain
<1>1. GoodPlan(plan, phase, a) /\ plan # <<>>
  BY DEF Running
<1>2. CASE plan' = Rest(1)
  BY <1>1, <1>2, AfterOne
<1>3. CASE GoOn /\ NextCommand.op = "lookup"
  <2>1. plan' = <<>>
    BY <1>3 DEF GoOn
  <2> QED
    BY <1>3, <2>1, EmptySeq DEF GoodPlan
<1>4. CASE GoOn /\ NextCommand.op # "lookup"
  <2>1. plan' = Rest(1 + GivesUp(NextCommand))
    BY <1>4 DEF GoOn
  <2> QED
    BY <1>1, <1>4, <2>1, AfterGivingUp
<1> QED
  BY <1>2, <1>3, <1>4

LEMMA EngineStep ==
  ASSUME Engine, NEW a, Running(a), plan' = Rest(1) \/ GoOn,
         UNCHANGED <<ordinal, phase, current, active>>
  PROVE  Engine'
<1>1. GoodPlan(plan', phase, a) /\ phase # "idle" /\ current = {a}
  BY PlanStep DEF Running
<1> QED
  BY <1>1 DEF Engine, Concerned

\* What comes of the next command: it is executed or not, and its helper goes
\* on or gives up; a heal that fails to flush is remembered.
Outcome(a) ==
  \/ /\ Accepts(NextCommand) /\ Perform(NextCommand)
     /\ plan' = Rest(1) \/ GoOn
     /\ UNCHANGED unflushed
  \/ /\ UNCHANGED firewall
     /\ GoOn
     /\ \/ ~Accepts(NextCommand) /\ UNCHANGED unflushed
        \/ unflushed' = IF NextCommand.op = "flush"
                        THEN unflushed \cup {b \in a.design : b.at = NextCommand.at}
                        ELSE unflushed

\* The rules of an action that is healed are its own.
LEMMA HealedRules ==
  ASSUME Engine, Attributed, NEW a \in Concerned, NEW r \in rules, NEW h \in Hooks,
         r[3] = Match[h], r[2].id = a.ordinal, Block(r[1], h, r[4]) \notin unflushed
  PROVE  r[2] = ChainOf(a, h) /\ Block(r[1], h, r[4]) \in a.design
<1>1. PICK b \in Concerned : r[2] = ChainOf(b, h) /\ Block(r[1], h, r[4]) \in b.design
  BY DEF Attributed
<1>2. ActionOK(b)
  BY DEF Engine
<1>3. b.ordinal = a.ordinal
  BY <1>1, <1>2, ActionFacts
<1>4. b = a
  BY <1>3 DEF Engine
<1> QED
  BY <1>1, <1>4

\* As long as a chain has rules, and the flush has not failed, it is to come.
LEMMA ToFlushStep ==
  ASSUME Engine, Tables, Attributed, ToFlush, NEW a, Running(a), Outcome(a),
         UNCHANGED <<phase, current, active>>
  PROVE  ToFlush'
<1> DEFINE c == NextCommand
<1> SUFFICES ASSUME phase = "heal", NEW r \in rules', NEW h \in Hooks, r[3] = Match[h],
                    r[2].id = a.ordinal, Block(r[1], h, r[4]) \notin unflushed'
             PROVE  InPlan(plan', FlushOf(r[1], r[2]))
  BY DEF ToFlush, Running
<1>1. /\ c.op \in {"flush", "unlink", "delete"} /\ a \in Concerned
      /\ c.at \in Nodes /\ c.chain \in Chains
  BY CommandFacts DEF Concerned, Running
<1>2. r \in rules /\ (c.op = "flush" /\ Perform(c) => r[1] # c.at \/ r[2] # c.chain)
  <2>1. CASE Perform(c)
    BY <1>1, <2>1, PerformFacts
  <2>2. CASE ~Perform(c)
    BY <2>2 DEF Outcome, firewall
  <2> QED
    BY <2>1, <2>2
<1>3. unflushed \subseteq unflushed'
  BY DEF Outcome
<1>4. Block(r[1], h, r[4]) \in a.design /\ Block(r[1], h, r[4]) \notin unflushed
  BY <1>1, <1>2, <1>3, HealedRules
<1>5. InPlan(plan, FlushOf(r[1], r[2]))
  BY <1>2, <1>4 DEF ToFlush, Running
<1>6. plan' = Rest(1) \/ GoOn
  BY DEF Outcome
<1>7. FlushOf(r[1], r[2]).op = "flush" /\ FlushOf(r[1], r[2]).at = r[1]
      /\ FlushOf(r[1], r[2]).chain = r[2]
  BY CmdFacts DEF FlushOf
<1>8. InPlan(plan', FlushOf(r[1], r[2])) \/ FlushOf(r[1], r[2]) = c
  BY <1>1, <1>5, <1>6, <1>7, PlanStep
<1>9. ASSUME c = FlushOf(r[1], r[2])
      PROVE  FALSE
  <2>1. c.op = "flush" /\ c.at = r[1] /\ c.chain = r[2]
    BY <1>7, <1>9
  <2>2. ~Perform(c)
    BY <1>2, <2>1
  <2>3. <<c.at, c.chain>> \in chains
    BY <1>2, <2>1 DEF Tables
  <2>4. Accepts(c)
    BY <2>1, <2>3, AcceptsFacts
  <2>5. unflushed' = unflushed \cup {b \in a.design : b.at = c.at}
    BY <2>1, <2>2, <2>4 DEF Outcome
  <2>6. Block(r[1], h, r[4]).at = r[1]
    BY BlockFacts
  <2> QED
    BY <1>4, <2>1, <2>5, <2>6
<1> QED
  BY <1>8, <1>9

-----------------------------------------------------------------------------
(* A command of the plan, as long as nothing has failed.                   *)

CleanOutcome ==
  \/ Accepts(NextCommand) /\ Perform(NextCommand) /\ plan' = Rest(1)
  \/ ~Accepts(NextCommand) /\ UNCHANGED firewall /\ GoOn

\* iptables refuses nothing but to make a chain again, and to flush one that
\* is not there.
LEMMA RefusedClean ==
  ASSUME Prepared, NEW a, Running(a), ~Accepts(NextCommand)
  PROVE  NextCommand.op \in {"create", "flush"}
<1> DEFINE c == NextCommand
<1>1. c.op \in {"create", "link", "drop", "lookup", "flush", "unlink", "delete"}
  BY CommandFacts
<1>2. /\ c.op \in {"link", "drop", "unlink", "delete"} => <<c.at, c.chain>> \in chains
      /\ c.op = "unlink" => <<c.at, c.hook, c.chain>> \in links
      /\ c.op = "delete" => /\ \A r \in rules : r[1] # c.at \/ r[2] # c.chain
                            /\ \A h \in Hooks : <<c.at, h, c.chain>> \notin links
  BY DEF Prepared, Running
<1> HIDE DEF c
<1>3. c.op \notin {"link", "drop", "unlink", "delete", "lookup"}
  BY <1>2, AcceptsFacts DEF c
<1> QED
  BY <1>1, <1>3 DEF c

\* The command that comes next, if any.
LEMMA NextAfter ==
  ASSUME NEW a, Running(a), CleanOutcome, UNCHANGED phase
  PROVE  LET c == NextCommand
             d == NextCommand'
         IN /\ plan' # <<>> => Allowed(phase, a, d)
            /\ plan' = Rest(1) /\ plan' # <<>> =>
                 Follows(c, d) \/ d.op \in {"lookup", "create", "flush"}
            /\ plan' = Rest(1) /\ c.op \in {"create", "flush", "unlink"} =>
                 plan' # <<>> /\ Follows(c, d)
            /\ GoOn /\ c.op # "lookup" /\ plan' # <<>> =>
                 \/ d.op \in {"lookup", "create", "flush"}
                 \/ d.op = "drop" /\ d.at = c.at /\ d.chain = c.chain
<1> DEFINE c == NextCommand
<1> DEFINE d == NextCommand'
<1>1. GoodPlan(plan, phase, a) /\ plan # <<>> /\ GoodPlan(plan', phase, a)
  BY PlanStep DEF Running, CleanOutcome
<1>2. plan' # <<>> => d = plan'[1][1] /\ Allowed(phase, a, d)
  BY <1>1, HeadOfPlan DEF NextCommand
<1> HIDE DEF c, d
<1>3. ASSUME plan' = Rest(1)
      PROVE  /\ plan' # <<>> => Follows(c, d) \/ d.op \in {"lookup", "create", "flush"}
             /\ c.op \in {"create", "flush", "unlink"} => plan' # <<>> /\ Follows(c, d)
  <2>1. /\ plan' # <<>> => Fresh(plan'[1]) \/ Follows(c, plan'[1][1])
        /\ c.op \in {"create", "flush", "unlink"} => plan' # <<>> /\ Follows(c, plan'[1][1])
    BY <1>1, <1>3, AfterOne DEF c
  <2> QED
    BY <1>2, <2>1 DEF Fresh
<1>4. ASSUME GoOn, c.op # "lookup", plan' # <<>>
      PROVE  \/ d.op \in {"lookup", "create", "flush"}
             \/ d.op = "drop" /\ d.at = c.at /\ d.chain = c.chain
  <2>1. plan' = Rest(1 + GivesUp(c))
    BY <1>4 DEF GoOn, c
  <2>2. \/ Fresh(plan'[1])
        \/ plan'[1][1].op = "drop" /\ plan'[1][1].at = c.at /\ plan'[1][1].chain = c.chain
    BY <1>1, <1>4, <2>1, AfterGivingUp DEF c
  <2> QED
    BY <1>2, <1>4, <2>2 DEF Fresh
<1> QED
  BY <1>2, <1>3, <1>4 DEF c, d

\* A chain belongs to an action, and a heal does not end before it is deleted.
LEMMA OwnedStep ==
  ASSUME FirewallOK, Owned, Prepared, NEW a, Running(a), CleanOutcome,
         UNCHANGED <<phase, current, active>>
  PROVE  Owned'
<1> DEFINE c == NextCommand
<1>1. /\ a \in Concerned /\ Concerned' = Concerned /\ current = {a} /\ plan # <<>>
      /\ GoodPlan(plan, phase, a)
  BY DEF Running, Concerned
<1>2. /\ c.op = "create" => /\ Site(a, c.at, c.chain) /\ phase = "execute"
                            /\ c.at \in Nodes /\ c.chain \in Chains
      /\ phase = "heal" => c.op \in {"flush", "unlink", "delete"}
  BY CommandFacts
<1>3. /\ chains' \subseteq chains \cup {<<c.at, c.chain>>}
      /\ c.op # "create" => chains' \subseteq chains
      /\ Accepts(c) /\ c.op = "delete" => chains' = chains \ {<<c.at, c.chain>>}
  BY PerformFacts DEF CleanOutcome, firewall
<1> HIDE DEF c
<1>4. ASSUME NEW k \in chains', k \in chains
      PROVE  \E b \in Concerned' : Site(b, k[1], k[2])
  BY <1>1, <1>4 DEF Owned
<1>5. ASSUME NEW k \in chains', k \notin chains
      PROVE  \E b \in Concerned' : Site(b, k[1], k[2])
  <2>1. k = <<c.at, c.chain>> /\ c.op = "create"
    BY <1>3, <1>5
  <2> QED
    BY <1>1, <1>2, <2>1
<1>6. ASSUME NEW k \in chains', phase = "heal", k[2].id = a.ordinal
      PROVE  InPlan(plan', DeleteOf(k[1], k[2]))
  <2> DEFINE d == DeleteOf(k[1], k[2])
  <2>1. k \in chains /\ k = <<k[1], k[2]>> /\ c.op \in {"flush", "unlink", "delete"}
    BY <1>2, <1>3, <1>6 DEF FirewallOK
  <2>2. InPlan(plan, d)
    BY <1>1, <1>6, <2>1 DEF Owned
  <2>3. d.op = "delete" /\ d.at = k[1] /\ d.chain = k[2]
    BY CmdFacts DEF DeleteOf
  <2> HIDE DEF d
  <2>4. CASE Accepts(c)
    <3>1. plan' = Rest(1)
      BY <2>4 DEF CleanOutcome, c
    <3>2. InPlan(plan', d) \/ d = c
      BY <1>1, <2>2, <3>1, AfterOne DEF c
    <3>3. d # c
      BY <1>3, <1>6, <2>1, <2>3, <2>4
    <3> QED
      BY <3>2, <3>3 DEF d
  <2>5. CASE ~Accepts(c)
    <3>1. c.op = "flush"
      BY <2>1, <2>5, RefusedClean DEF c
    <3>2. <<c.at, c.chain>> \notin chains
      BY <2>5, <3>1, AcceptsFacts
    <3>3. plan' = Rest(1 + GivesUp(c))
      BY <2>5, <3>1 DEF CleanOutcome, GoOn, c
    <3>4. InPlan(plan', d) \/ d = c \/ (d.at = c.at /\ d.chain = c.chain)
      BY <1>1, <2>2, <3>3, AfterGivingUp DEF c
    <3> QED
      BY <2>1, <2>3, <3>1, <3>2, <3>4 DEF d
  <2> QED
    BY <2>4, <2>5
<1> QED
  BY <1>1, <1>4, <1>5, <1>6 DEF Owned

\* A chain is linked but between its creation and the link, and between its
\* unlinking and its deletion.
LEMMA LinkedStep ==
  ASSUME FirewallOK, Linked, Prepared, NEW a, Running(a), CleanOutcome, UNCHANGED phase
  PROVE  Linked'
<1> DEFINE c == NextCommand
<1> DEFINE d == NextCommand'
<1>1. /\ c.op \in {"create", "link", "drop", "lookup", "flush", "unlink", "delete"}
      /\ c.op = "link" => c.hook = HookOf(c.chain)
  BY CommandFacts
<1>2. plan' = Rest(1) /\ c.op \in {"create", "unlink"} =>
        /\ plan' # <<>> /\ d.op \in {"link", "delete"}
        /\ d.at = c.at /\ d.chain = c.chain
  BY NextAfter DEF Follows
<1>3. \A k \in chains : \/ <<k[1], HookOf(k[2]), k[2]>> \in links
                        \/ c.op \in {"link", "delete"} /\ c.at = k[1] /\ c.chain = k[2]
  BY DEF Linked
<1>4. \A k \in chains : k = <<k[1], k[2]>>
  BY DEF FirewallOK
<1> SUFFICES ASSUME NEW k \in chains'
             PROVE  \/ <<k[1], HookOf(k[2]), k[2]>> \in links'
                    \/ /\ plan' # <<>> /\ d.at = k[1] /\ d.chain = k[2]
                       /\ d.op \in {"link", "delete"}
  BY DEF Linked
<1>5. CASE ~Accepts(c)
  <2>1. c.op \in {"create", "flush"} /\ UNCHANGED firewall
    BY <1>5, RefusedClean DEF CleanOutcome
  <2> QED
    BY <1>3, <2>1 DEF firewall
<1>6. CASE Accepts(c)
  <2>1. Perform(c) /\ plan' = Rest(1)
    BY <1>6 DEF CleanOutcome
  <2>2. /\ chains' = IF c.op = "create" THEN chains \cup {<<c.at, c.chain>>}
                     ELSE IF c.op = "delete" THEN chains \ {<<c.at, c.chain>>} ELSE chains
        /\ links' = IF c.op = "link" THEN links \cup {<<c.at, c.hook, c.chain>>}
                    ELSE IF c.op = "unlink" THEN links \ {<<c.at, c.hook, c.chain>>} ELSE links
    BY <2>1, PerformFacts
  <2> HIDE DEF c, d
  <2>3. CASE k = <<c.at, c.chain>>
    <3>1. k[1] = c.at /\ k[2] = c.chain /\ c.op # "delete"
      BY <2>2, <2>3
    <3>2. CASE c.op \in {"create", "unlink"}
      BY <1>2, <2>1, <3>1, <3>2
    <3>3. CASE c.op = "link"
      BY <1>1, <2>2, <3>1, <3>3
    <3>4. CASE c.op \in {"drop", "lookup", "flush"}
      BY <1>3, <2>2, <3>4
    <3> QED
      BY <1>1, <3>1, <3>2, <3>3, <3>4
  <2>4. CASE k # <<c.at, c.chain>>
    <3>1. k \in chains /\ k = <<k[1], k[2]>>
      BY <1>4, <2>2, <2>4
    <3>2. <<k[1], HookOf(k[2]), k[2]>> \in links
      BY <1>3, <2>4, <3>1
    <3>3. <<k[1], HookOf(k[2]), k[2]>> # <<c.at, c.hook, c.chain>>
      BY <2>4, <3>1
    <3> QED
      BY <2>2, <3>2, <3>3
  <2> QED
    BY <2>3, <2>4
<1> QED
  BY <1>5, <1>6

\* The rules of an action in force stay, those of one in the making are to come.
LEMMA FilledStep ==
  ASSUME Engine, Prepared, Filled, NEW a, Running(a), CleanOutcome,
         UNCHANGED <<phase, current, active>>
  PROVE  Filled'
<1> DEFINE c == NextCommand
<1> DEFINE RuleOf(e, b) == <<b.at, ChainOf(e, b.hook), Match[b.hook], b.peer>>
<1>1. /\ a \in Concerned /\ Concerned' = Concerned /\ current = {a} /\ plan # <<>>
      /\ GoodPlan(plan, phase, a)
  BY DEF Running, Concerned
<1>2. /\ phase = "execute" => c.op \in {"create", "link", "drop", "lookup"}
      /\ phase \in {"execute", "heal"}
      /\ c.op = "flush" => phase = "heal" /\ c.chain.id = a.ordinal
  BY CommandFacts
<1> SUFFICES ASSUME NEW e \in Concerned, NEW b \in e.design
             PROVE  \/ e \in current /\ phase = "heal"
                    \/ RuleOf(e, b) \in rules'
                    \/ e \in current /\ InPlan(plan', DropOf(e, b))
  BY <1>1 DEF Filled
<1>3. \/ e \in current /\ phase = "heal"
      \/ RuleOf(e, b) \in rules
      \/ e \in current /\ InPlan(plan, DropOf(e, b))
  BY DEF Filled
<1>4. CASE RuleOf(e, b) \in rules
  <2>1. CASE ~Accepts(c) \/ c.op # "flush"
    <3>1. rules \subseteq rules'
      BY <2>1, PerformFacts DEF CleanOutcome, firewall
    <3> QED
      BY <1>4, <3>1
  <2>2. CASE Accepts(c) /\ c.op = "flush"
    <3>1. rules' = {r \in rules : r[1] # c.at \/ r[2] # c.chain}
      BY <2>2, PerformFacts DEF CleanOutcome
    <3>2. CASE ChainOf(e, b.hook) = c.chain
      <4>1. e.ordinal = a.ordinal
        BY <1>2, <2>2, <3>2, ActionFacts DEF Engine
      <4>2. e = a
        BY <1>1, <4>1 DEF Engine
      <4> QED
        BY <1>1, <1>2, <2>2, <4>2
    <3>3. CASE ChainOf(e, b.hook) # c.chain
      BY <1>4, <3>1, <3>3
    <3> QED
      BY <3>2, <3>3
  <2> QED
    BY <2>1, <2>2
<1>5. CASE e \in current /\ InPlan(plan, DropOf(e, b)) /\ phase = "execute"
  <2> DEFINE d == DropOf(e, b)
  <2>1. /\ d.op = "drop" /\ d.at = b.at /\ d.chain = ChainOf(e, b.hook)
        /\ d.hook = b.hook /\ d.peer = b.peer
    BY CmdFacts DEF DropOf
  <2> HIDE DEF c, d
  <2>2. CASE Accepts(c)
    <3>1. Perform(c) /\ plan' = Rest(1)
      BY <2>2 DEF CleanOutcome, c
    <3>2. InPlan(plan', d) \/ d = c
      BY <1>1, <1>5, <3>1, AfterOne DEF c, d
    <3>3. CASE d = c
      <4>1. rules' = rules \cup {<<c.at, c.chain, Match[c.hook], c.peer>>}
        BY <2>1, <3>1, <3>3, PerformFacts
      <4> QED
        BY <2>1, <3>3, <4>1
    <3> QED
      BY <1>5, <3>2, <3>3 DEF d
  <2>3. CASE ~Accepts(c)
    <3>1. c.op = "create"
      BY <1>2, <1>5, <2>3, RefusedClean DEF c
    <3>2. plan' = Rest(1 + GivesUp(c))
      BY <2>3, <3>1 DEF CleanOutcome, GoOn, c
    <3>3. InPlan(plan', d) \/ d = c \/ d.op \in {"link", "unlink", "delete"}
      BY <1>1, <1>5, <3>2, AfterGivingUp DEF c, d
    <3> QED
      BY <1>5, <2>1, <3>1, <3>3 DEF d
  <2> QED
    BY <2>2, <2>3
<1> QED
  BY <1>2, <1>3, <1>4, <1>5

\* What the next command counts on is done.
LEMMA PreparedStep ==
  ASSUME FirewallOK, Tables, Linked, Prepared, NEW a, Running(a), CleanOutcome, UNCHANGED phase
  PROVE  Prepared'
<1> DEFINE c == NextCommand
<1> DEFINE d == NextCommand'
<1> SUFFICES ASSUME plan' # <<>>
             PROVE  /\ d.op \in {"link", "drop", "unlink", "delete"} => <<d.at, d.chain>> \in chains'
                    /\ d.op = "unlink" => <<d.at, d.hook, d.chain>> \in links'
                    /\ d.op \in {"unlink", "delete"} =>
                         \A r \in rules' : r[1] # d.at \/ r[2] # d.chain
                    /\ d.op = "delete" => \A h \in Hooks : <<d.at, h, d.chain>> \notin links'
  BY DEF Prepared
<1>1. /\ phase = "execute" => c.op \in {"create", "link", "drop", "lookup"}
      /\ phase = "heal" => c.op \in {"flush", "unlink", "delete"}
      /\ phase \in {"execute", "heal"}
      /\ c.op \in {"link", "drop", "unlink"} => c.hook = HookOf(c.chain)
  BY CommandFacts
<1>2. /\ phase = "heal" => d.op \in {"flush", "unlink", "delete"}
      /\ d.op = "unlink" => d.hook = HookOf(d.chain)
  BY NextAfter DEF Allowed, ExecuteCommand, HealCommand, Running
<1>3. /\ c.op \in {"link", "drop", "unlink", "delete"} => <<c.at, c.chain>> \in chains
      /\ c.op \in {"unlink", "delete"} => \A r \in rules : r[1] # c.at \/ r[2] # c.chain
  BY DEF Prepared, Running
<1>4. plan' = Rest(1) => Follows(c, d) \/ d.op \in {"lookup", "create", "flush"}
  BY NextAfter
<1>5. GoOn /\ c.op # "lookup" =>
        \/ d.op \in {"lookup", "create", "flush"}
        \/ d.op = "drop" /\ d.at = c.at /\ d.chain = c.chain
  BY NextAfter
<1>6. CASE ~Accepts(c)
  <2>1. c.op \in {"create", "flush"} /\ GoOn /\ UNCHANGED firewall
    BY <1>6, RefusedClean DEF CleanOutcome
  <2>2. c.op = "create" => <<c.at, c.chain>> \in chains
    BY <1>6, AcceptsFacts
  <2> HIDE DEF c, d
  <2> QED
    BY <1>1, <1>2, <1>5, <2>1, <2>2 DEF firewall
<1>7. CASE Accepts(c)
  <2>1. Perform(c) /\ plan' = Rest(1)
    BY <1>7 DEF CleanOutcome
  <2>2. /\ chains' = IF c.op = "create" THEN chains \cup {<<c.at, c.chain>>}
                     ELSE IF c.op = "delete" THEN chains \ {<<c.at, c.chain>>} ELSE chains
        /\ links' = IF c.op = "link" THEN links \cup {<<c.at, c.hook, c.chain>>}
                    ELSE IF c.op = "unlink" THEN links \ {<<c.at, c.hook, c.chain>>} ELSE links
        /\ rules' = IF c.op = "drop"
                    THEN rules \cup {<<c.at, c.chain, Match[c.hook], c.peer>>}
                    ELSE IF c.op = "flush" THEN {r \in rules : r[1] # c.at \/ r[2] # c.chain}
                    ELSE rules
    BY <2>1, PerformFacts
  <2>3. c.op = "flush" => /\ <<c.at, c.chain>> \in chains
                          /\ <<c.at, HookOf(c.chain), c.chain>> \in links
    <3>1. c.op = "flush" => <<c.at, c.chain>> \in chains
      BY <1>7, AcceptsFacts
    <3> QED
      BY <3>1 DEF Linked
  <2> HIDE DEF c, d
  <2>4. CASE c.op = "create" /\ d.op = "link" /\ c.at = d.at /\ c.chain = d.chain
    BY <2>2, <2>4
  <2>5. CASE c.op \in {"link", "drop"} /\ d.op = "drop" /\ c.at = d.at /\ c.chain = d.chain
    BY <1>3, <2>2, <2>5
  <2>6. CASE c.op = "flush" /\ d.op = "unlink" /\ c.at = d.at /\ c.chain = d.chain
    BY <1>2, <2>2, <2>3, <2>6
  <2>7. CASE c.op = "unlink" /\ d.op = "delete" /\ c.at = d.at /\ c.chain = d.chain
    <3>1. ASSUME NEW h \in Hooks, <<d.at, h, d.chain>> \in links'
          PROVE  FALSE
      <4>1. <<c.at, h, c.chain>> \in links /\ <<c.at, h, c.chain>> # <<c.at, c.hook, c.chain>>
        BY <2>2, <2>7, <3>1
      <4>2. h = HookOf(c.chain)
        BY <4>1 DEF Tables
      <4> QED
        BY <1>1, <2>7, <4>1, <4>2
    <3> QED
      BY <1>3, <2>2, <2>7, <3>1
  <2>8. CASE d.op \in {"lookup", "create", "flush"}
    BY <2>8
  <2>9. CASE c.op = "lookup" /\ d.op = "create"
    BY <2>9
  <2> QED
    BY <1>4, <2>1, <2>4, <2>5, <2>6, <2>7, <2>8, <2>9 DEF Follows
<1> QED
  BY <1>6, <1>7

-----------------------------------------------------------------------------
(* Every step keeps the inductive invariant.                               *)

LEMMA EmptyPlan ==
  /\ \A c : ~InPlan(<<>>, c)
  /\ \A p, a : GoodPlan(<<>>, p, a)
  BY DEF InPlan, GoodPlan

\* Between two plans, as long as nothing has failed.
LEMMA IdleFacts ==
  ASSUME Engine, phase = "idle"
  PROVE  current = {} /\ plan = <<>> /\ Concerned = active
  BY DEF Engine, Concerned

LEMMA InitInvariant == Init => IInv
<1> SUFFICES ASSUME Init
             PROVE  IInv
  OBVIOUS
<1>1. TypeOK
  BY ConstantsAssumption, EmptySeq DEF Init, TypeOK
<1>2. Inv
  BY DEF Init, Inv, Engine, Tables, Attributed, ToFlush, Concerned
<1>3. CleanInv
  BY DEF Init, CleanInv, Owned, Linked, Filled, Prepared, Concerned
<1> QED
  BY <1>1, <1>2, <1>3 DEF IInv

\* execute() is called.
LEMMA BeginStep ==
  ASSUME IInv, NEW action, NEW commands,
         Begin(action, commands), WellBegun(action, commands)
  PROVE  IInv'
<1>1. /\ phase = "idle" /\ current = {} /\ plan = <<>> /\ Concerned = active
      /\ ordinal' = ordinal + 1 /\ ordinal < MaxOrdinal /\ phase' = "execute"
      /\ plan' = commands /\ current' = {action}
      /\ UNCHANGED <<run, active, chains, links, rules, failures, runFailures, unflushed>>
  BY IdleFacts DEF IInv, Inv, Begin, firewall, history
<1>2. /\ ActionOK(action) /\ action.ordinal = ordinal + 1
      /\ FreshPlan(commands, "execute", action) /\ GoodPlan(commands, "execute", action)
      /\ \A b \in action.design : InPlan(commands, DropOf(action, b))
  BY FreshIsGood DEF WellBegun
<1>3. /\ Concerned' = active \cup {action}
      /\ \A a \in active : ActionOK(a) /\ a.ordinal <= ordinal /\ a.ordinal \in 1 .. MaxOrdinal
  BY <1>1, ActionFacts DEF Concerned, IInv, Inv, Engine
<1>4. /\ MaxOrdinal \in Nat /\ ordinal \in 0 .. MaxOrdinal
      /\ \A a \in active : a.ordinal # action.ordinal
  BY <1>2, <1>3, ConstantsAssumption DEF IInv, TypeOK
<1>5. TypeOK'
  <2>1. ordinal' \in 0 .. MaxOrdinal
    BY <1>1, <1>4
  <2>2. plan' \in Seq(Seq(Command)) /\ current' \subseteq Action
    BY <1>1, <1>2 DEF GoodPlan, ActionOK
  <2> QED
    BY <1>1, <2>1, <2>2 DEF IInv, TypeOK
<1>6. Engine'
  <2>1. active' \cap current' = {}
    BY <1>1, <1>4
  <2>2. \A a \in Concerned' : ActionOK(a) /\ a.ordinal <= ordinal'
    BY <1>1, <1>2, <1>3, <1>4
  <2>3. \A a, b \in Concerned' : a.ordinal = b.ordinal => a = b
    BY <1>1, <1>3, <1>4 DEF IInv, Inv, Engine
  <2>4. GoodPlan(plan', phase', action)
    BY <1>1, <1>2
  <2> QED
    BY <1>1, <2>1, <2>2, <2>3, <2>4 DEF Engine
<1>7. Tables'
  BY <1>1 DEF IInv, Inv, Tables
<1>8. Attributed'
  BY <1>1, <1>3 DEF IInv, Inv, Attributed
<1>9. ToFlush'
  BY <1>1 DEF ToFlush
<1>10. ASSUME failures' = 0
       PROVE  unflushed' = {} /\ Owned' /\ Linked' /\ Filled' /\ Prepared'
  <2>1. unflushed = {} /\ Owned /\ Linked /\ Filled
    BY <1>1, <1>10 DEF IInv, CleanInv
  <2>2. Owned'
    BY <1>1, <1>3, <2>1 DEF Owned
  <2>3. Linked'
    BY <1>1, <2>1 DEF Linked
  <2>4. Filled'
    <3> SUFFICES ASSUME NEW a \in Concerned', NEW b \in a.design
                 PROVE  \/ <<b.at, ChainOf(a, b.hook), Match[b.hook], b.peer>> \in rules'
                        \/ a \in current' /\ InPlan(plan', DropOf(a, b))
      BY <1>1 DEF Filled
    <3>1. CASE a \in active
      BY <1>1, <2>1, <3>1 DEF Filled
    <3>2. CASE a = action
      BY <1>1, <1>2, <3>2
    <3> QED
      BY <1>3, <3>1, <3>2
  <2>5. Prepared'
    <3>1. plan' # <<>> => NextCommand'.op \in {"lookup", "create", "flush"}
      BY <1>1, <1>2, BeginsFresh DEF NextCommand
    <3> QED
      BY <3>1 DEF Prepared
  <2> QED
    BY <1>1, <2>1, <2>2, <2>3, <2>4, <2>5
<1> QED
  BY <1>5, <1>6, <1>7, <1>8, <1>9, <1>10 DEF IInv, Inv, CleanInv

\* heal() is called.
LEMMA HealStep ==
  ASSUME IInv, NEW action \in active, Heal(action)
  PROVE  IInv'
<1>1. /\ phase = "idle" /\ current = {} /\ plan = <<>> /\ Concerned = active
      /\ phase' = "heal" /\ plan' = HealPlan(action) /\ current' = {action}
      /\ active' = active \ {action}
      /\ UNCHANGED <<run, ordinal, chains, links, rules, failures, runFailures, unflushed>>
  BY IdleFacts DEF IInv, Inv, Heal, firewall, history
<1>2. ActionOK(action) /\ action \in Concerned /\ Concerned' = Concerned
  BY <1>1 DEF IInv, Inv, Engine, Concerned
<1>3. /\ FreshPlan(plan', "heal", action) /\ GoodPlan(plan', "heal", action)
      /\ \A n, c : Site(action, n, c) => /\ InPlan(plan', FlushOf(n, c))
                                         /\ InPlan(plan', DeleteOf(n, c))
  <2>1. /\ FreshPlan(HealPlan(action), "heal", action)
        /\ \A n, c : Site(action, n, c) => /\ InPlan(HealPlan(action), FlushOf(n, c))
                                           /\ InPlan(HealPlan(action), DeleteOf(n, c))
    BY <1>2, HealPlanFacts
  <2> QED
    BY <1>1, <2>1, FreshIsGood
<1>4. TypeOK'
  <2>1. plan' \in Seq(Seq(Command)) /\ current' \subseteq Action
    BY <1>1, <1>2, <1>3 DEF GoodPlan, ActionOK
  <2> QED
    BY <1>1, <2>1 DEF IInv, TypeOK
<1>5. Engine'
  <2>1. /\ \A a \in Concerned' : ActionOK(a) /\ a.ordinal <= ordinal'
        /\ \A a, b \in Concerned' : a.ordinal = b.ordinal => a = b
    BY <1>1, <1>2 DEF IInv, Inv, Engine
  <2> QED
    BY <1>1, <1>3, <2>1 DEF Engine
<1>6. Tables'
  BY <1>1 DEF IInv, Inv, Tables
<1>7. Attributed'
  BY <1>1, <1>2 DEF IInv, Inv, Attributed
<1>8. ToFlush'
  <2> SUFFICES ASSUME NEW r \in rules, NEW h \in Hooks, r[3] = Match[h],
                      r[2].id = action.ordinal, Block(r[1], h, r[4]) \notin unflushed
               PROVE  InPlan(plan', FlushOf(r[1], r[2]))
    BY <1>1 DEF ToFlush
  <2>1. r[2] = ChainOf(action, h) /\ Block(r[1], h, r[4]) \in action.design
    BY <1>2, HealedRules DEF IInv, Inv
  <2>2. Site(action, r[1], r[2])
    BY <1>2, <2>1, DesignFacts, BlockFacts
  <2> QED
    BY <1>3, <2>2
<1>9. ASSUME failures' = 0
      PROVE  unflushed' = {} /\ Owned' /\ Linked' /\ Filled' /\ Prepared'
  <2>1. unflushed = {} /\ Owned /\ Linked /\ Filled
    BY <1>1, <1>9 DEF IInv, CleanInv
  <2>2. Owned'
    <3>1. \A c \in chains : \E a \in Concerned : Site(a, c[1], c[2])
      BY <2>1 DEF Owned
    <3>2. ASSUME NEW c \in chains, c[2].id = action.ordinal
          PROVE  InPlan(plan', DeleteOf(c[1], c[2]))
      <4>1. PICK a \in Concerned : Site(a, c[1], c[2])
        BY <3>1
      <4>2. ActionOK(a)
        BY DEF IInv, Inv, Engine
      <4>3. a.ordinal = action.ordinal
        BY <3>2, <4>1, <4>2, SiteFacts
      <4>4. a = action
        BY <1>2, <4>3 DEF IInv, Inv, Engine
      <4> QED
        BY <1>3, <4>1, <4>4
    <3> QED
      BY <1>1, <1>2, <3>1, <3>2 DEF Owned
  <2>3. Linked'
    BY <1>1, <2>1 DEF Linked
  <2>4. Filled'
    BY <1>1, <1>2, <2>1 DEF Filled
  <2>5. Prepared'
    <3>1. plan' # <<>> => NextCommand'.op \in {"lookup", "create", "flush"}
      BY <1>3, BeginsFresh DEF NextCommand
    <3> QED
      BY <3>1 DEF Prepared
  <2> QED
    BY <1>1, <2>1, <2>2, <2>3, <2>4, <2>5
<1> QED
  BY <1>4, <1>5, <1>6, <1>7, <1>8, <1>9 DEF IInv, Inv, CleanInv

\* A command of the plan: it is executed, refused, or fails spuriously.
LEMMA CommandOutcome ==
  ASSUME NEW a, Running(a), failures \in Nat, Succeed \/ Refused \/ FailSpuriously
  PROVE  /\ Outcome(a)
         /\ UNCHANGED <<run, ordinal, phase, current, active>>
         /\ UNCHANGED failures => CleanOutcome /\ UNCHANGED <<runFailures, unflushed>>
<1>1. CASE Succeed
  BY <1>1 DEF Succeed, Outcome, CleanOutcome, history
<1>2. CASE Refused
  BY <1>2 DEF Refused, Outcome, CleanOutcome, history
<1>3. CASE FailSpuriously
  <2>1. {b \in UNION {e.design : e \in current} : b.at = NextCommand.at}
          = {b \in a.design : b.at = NextCommand.at}
    BY DEF Running
  <2>2. Outcome(a) /\ UNCHANGED <<run, ordinal, phase, current, active>>
    BY <1>3, <2>1 DEF FailSpuriously, Outcome
  <2>3. failures' # failures
    BY <1>3 DEF FailSpuriously
  <2> QED
    BY <2>2, <2>3
<1> QED
  BY <1>1, <1>2, <1>3

LEMMA CommandStep ==
  ASSUME IInv, plan # <<>>, Succeed \/ Refused \/ FailSpuriously
  PROVE  IInv'
<1>1. PICK a : Running(a)
  BY SomeRunning DEF IInv, Inv
<1>0. failures \in Nat
  BY ConstantsAssumption DEF IInv, TypeOK
<1>2. Outcome(a) /\ UNCHANGED <<run, ordinal, phase, current, active>>
  BY <1>0, <1>1, CommandOutcome
<1>3. FirewallOK
  BY DEF IInv, TypeOK, FirewallOK
<1>4. \/ Accepts(NextCommand) /\ Perform(NextCommand) /\ UNCHANGED unflushed
      \/ UNCHANGED firewall /\ unflushed \subseteq unflushed'
  BY <1>2 DEF Outcome
<1>5. plan' = Rest(1) \/ GoOn
  BY <1>2 DEF Outcome
<1>6. Engine'
  BY <1>1, <1>2, <1>5, EngineStep DEF IInv, Inv
<1>7. TypeOK'
  <2>1. GoodPlan(plan', phase, a)
    BY <1>1, <1>5, PlanStep
  <2>2. FirewallOK'
    <3>1. CASE Perform(NextCommand)
      BY <1>1, <1>3, <3>1, PerformTyped
    <3>2. CASE UNCHANGED firewall
      BY <1>3, <3>2 DEF FirewallOK, firewall
    <3> QED
      BY <1>4, <3>1, <3>2
  <2>3. unflushed' \subseteq Blocks
    <3>1. a.design \subseteq Blocks
      BY <1>1, ActionFacts DEF Running
    <3> QED
      BY <1>2, <3>1 DEF Outcome, IInv, TypeOK
  <2>4. failures' \in 0 .. MaxFailures /\ runFailures' \in 0 .. failures'
    <3>1. \/ UNCHANGED <<failures, runFailures>>
          \/ failures < MaxFailures /\ failures' = failures + 1 /\ runFailures' = runFailures + 1
      BY DEF Succeed, Refused, FailSpuriously, history
    <3>2. MaxFailures \in Nat /\ failures \in 0 .. MaxFailures /\ runFailures \in 0 .. failures
      BY ConstantsAssumption DEF IInv, TypeOK
    <3> QED
      BY <3>1, <3>2
  <2> QED
    BY <1>2, <2>1, <2>2, <2>3, <2>4 DEF IInv, TypeOK, FirewallOK, GoodPlan
<1>8. Tables'
  <2>1. CASE Accepts(NextCommand) /\ Perform(NextCommand)
    BY <1>1, <1>3, <2>1, TablesStep DEF IInv, Inv
  <2>2. CASE UNCHANGED firewall
    BY <2>2 DEF firewall, IInv, Inv, Tables
  <2> QED
    BY <1>4, <2>1, <2>2
<1>9. Attributed'
  <2>1. CASE Perform(NextCommand) /\ UNCHANGED unflushed
    BY <1>1, <1>2, <2>1, AttributedStep DEF IInv, Inv
  <2>2. CASE UNCHANGED firewall /\ unflushed \subseteq unflushed'
    BY <1>2, <2>2 DEF firewall, IInv, Inv, Attributed, Concerned
  <2> QED
    BY <1>4, <2>1, <2>2
<1>10. ToFlush'
  BY <1>1, <1>2, ToFlushStep DEF IInv, Inv
<1>11. CleanInv'
  <2> SUFFICES ASSUME failures' = 0
               PROVE  unflushed' = {} /\ Owned' /\ Linked' /\ Filled' /\ Prepared'
    BY DEF CleanInv
  <2>1. failures = 0 /\ failures' = failures
    <3>1. UNCHANGED failures \/ failures' = failures + 1
      BY DEF Succeed, Refused, FailSpuriously, history
    <3>2. failures \in Nat
      BY ConstantsAssumption DEF IInv, TypeOK
    <3> QED
      BY <3>1, <3>2
  <2>2. unflushed = {} /\ Owned /\ Linked /\ Filled /\ Prepared
    BY <2>1 DEF IInv, CleanInv
  <2>3. CleanOutcome /\ UNCHANGED unflushed
    BY <1>0, <1>1, <2>1, CommandOutcome
  <2>4. Engine /\ Tables
    BY DEF IInv, Inv
  <2>5. Owned'
    BY <1>1, <1>2, <1>3, <2>2, <2>3, OwnedStep
  <2>6. Linked'
    BY <1>1, <1>2, <1>3, <2>2, <2>3, LinkedStep
  <2>7. Filled'
    BY <1>1, <1>2, <2>2, <2>3, <2>4, FilledStep
  <2>8. Prepared'
    BY <1>1, <1>2, <1>3, <2>2, <2>3, <2>4, PreparedStep
  <2> QED
    BY <2>2, <2>3, <2>5, <2>6, <2>7, <2>8
<1> QED
  BY <1>6, <1>7, <1>8, <1>9, <1>10, <1>11 DEF IInv, Inv

\* execute() or heal() returns.
LEMMA FinishStep ==
  ASSUME IInv, Finish
  PROVE  IInv'
<1>1. /\ phase # "idle" /\ plan = <<>> /\ phase' = "idle" /\ current' = {}
      /\ active' = IF phase = "execute" THEN active \cup current ELSE active
      /\ UNCHANGED <<run, ordinal, plan, chains, links, rules, failures, runFailures, unflushed>>
  BY DEF Finish, firewall, history
<1>2. PICK a : current = {a}
  BY <1>1 DEF IInv, Inv, Engine
<1>3. /\ a \in Concerned /\ Concerned' \subseteq Concerned
      /\ phase = "execute" => Concerned' = Concerned
      /\ phase # "execute" => phase = "heal" /\ Concerned' = Concerned \ {a}
      /\ ActionOK(a)
  BY <1>1, <1>2 DEF IInv, TypeOK, Inv, Engine, Concerned
<1>4. TypeOK'
  BY <1>1 DEF IInv, TypeOK
<1>5. Engine'
  BY <1>1, <1>3 DEF IInv, Inv, Engine
<1>6. Tables'
  BY <1>1 DEF IInv, Inv, Tables
<1>7. Attributed'
  <2> SUFFICES ASSUME NEW r \in rules, NEW h \in Hooks, r[3] = Match[h],
                      Block(r[1], h, r[4]) \notin unflushed
               PROVE  \E b \in Concerned' :
                        r[2] = ChainOf(b, h) /\ Block(r[1], h, r[4]) \in b.design
    BY <1>1 DEF Attributed
  <2>1. PICK b \in Concerned : r[2] = ChainOf(b, h) /\ Block(r[1], h, r[4]) \in b.design
    BY DEF IInv, Inv, Attributed
  <2>2. CASE phase = "execute" \/ b # a
    BY <1>3, <2>1, <2>2
  <2>3. CASE phase = "heal" /\ b = a
    <3>1. r[2].id = a.ordinal
      BY <1>3, <2>1, <2>3, ActionFacts
    <3>2. InPlan(plan, FlushOf(r[1], r[2]))
      BY <1>2, <2>3, <3>1 DEF IInv, Inv, ToFlush
    <3> QED
      BY <1>1, <3>2, EmptyPlan
  <2> QED
    BY <1>3, <2>2, <2>3
<1>8. ToFlush'
  BY <1>1 DEF ToFlush
<1>9. ASSUME failures' = 0
      PROVE  unflushed' = {} /\ Owned' /\ Linked' /\ Filled' /\ Prepared'
  <2>1. unflushed = {} /\ Owned /\ Linked /\ Filled
    BY <1>1, <1>9 DEF IInv, CleanInv
  <2>2. Owned'
    <3> SUFFICES ASSUME NEW c \in chains
                 PROVE  \E b \in Concerned' : Site(b, c[1], c[2])
      BY <1>1 DEF Owned
    <3>1. PICK b \in Concerned : Site(b, c[1], c[2])
      BY <2>1 DEF Owned
    <3>2. CASE phase = "execute" \/ b # a
      BY <1>3, <3>1, <3>2
    <3>3. CASE phase = "heal" /\ b = a
      <4>1. c[2].id = a.ordinal
        BY <1>3, <3>1, <3>3, SiteFacts
      <4>2. InPlan(plan, DeleteOf(c[1], c[2]))
        BY <1>2, <2>1, <3>3, <4>1 DEF Owned
      <4> QED
        BY <1>1, <4>2, EmptyPlan
    <3> QED
      BY <1>3, <3>2, <3>3
  <2>3. Linked'
    BY <1>1, <2>1 DEF Linked
  <2>4. Filled'
    <3> SUFFICES ASSUME NEW e \in Concerned', NEW b \in e.design
                 PROVE  <<b.at, ChainOf(e, b.hook), Match[b.hook], b.peer>> \in rules
      BY <1>1 DEF Filled
    <3>1. e \in Concerned /\ ~(e \in current /\ phase = "heal")
      BY <1>2, <1>3
    <3>2. ~InPlan(plan, DropOf(e, b))
      BY <1>1, EmptyPlan
    <3> QED
      BY <2>1, <3>1, <3>2 DEF Filled
  <2>5. Prepared'
    BY <1>1 DEF Prepared
  <2> QED
    BY <1>1, <2>1, <2>2, <2>3, <2>4, <2>5
<1> QED
  BY <1>4, <1>5, <1>6, <1>7, <1>8, <1>9 DEF IInv, Inv, CleanInv

\* A test run is over, and the next one begins; what is in the firewalls stays.
LEMMA NewRunStep ==
  ASSUME IInv, NewRun
  PROVE  IInv'
<1>1. /\ phase = "idle" /\ active = {} /\ current = {} /\ plan = <<>> /\ Concerned' = Concerned
      /\ run < MaxRuns /\ run' = run + 1 /\ ordinal' = 0 /\ runFailures' = 0
      /\ UNCHANGED <<phase, plan, current, active, chains, links, rules, failures, unflushed>>
  BY IdleFacts DEF IInv, Inv, NewRun, firewall, Concerned
<1>2. TypeOK'
  <2>1. MaxRuns \in Nat /\ MaxOrdinal \in Nat /\ MaxFailures \in Nat
    BY ConstantsAssumption
  <2>2. run' \in 1 .. MaxRuns /\ ordinal' \in 0 .. MaxOrdinal /\ runFailures' \in 0 .. failures'
    BY <1>1, <2>1 DEF IInv, TypeOK
  <2> QED
    BY <1>1, <2>2 DEF IInv, TypeOK
<1>3. Engine'
  BY <1>1 DEF Engine, Concerned
<1>4. Tables' /\ Attributed' /\ ToFlush'
  BY <1>1 DEF IInv, Inv, Tables, Attributed, ToFlush
<1>5. CleanInv'
  BY <1>1 DEF IInv, CleanInv, Owned, Linked, Filled, Prepared
<1> QED
  BY <1>2, <1>3, <1>4, <1>5 DEF IInv, Inv

LEMMA StutterStep ==
  ASSUME IInv, UNCHANGED vars
  PROVE  IInv'
<1>1. UNCHANGED <<run, ordinal, phase, plan, current, active, chains, links, rules,
                  failures, runFailures, unflushed>>
  BY DEF vars, engineVars, firewall, history
<1>2. Concerned' = Concerned
  BY <1>1 DEF Concerned
<1>3. TypeOK'
  BY <1>1 DEF IInv, TypeOK
<1>4. Engine'
  BY <1>1, <1>2 DEF IInv, Inv, Engine
<1>5. Tables' /\ Attributed' /\ ToFlush'
  BY <1>1, <1>2 DEF IInv, Inv, Tables, Attributed, ToFlush
<1>6. CleanInv'
  <2>1. NextCommand' = NextCommand
    BY <1>1 DEF NextCommand
  <2> QED
    BY <1>1, <1>2, <2>1 DEF IInv, CleanInv, Owned, Linked, Filled, Prepared
<1> QED
  BY <1>3, <1>4, <1>5, <1>6 DEF IInv, Inv

\* The invariant of the firewalls and the engine: what they hold, what the plan
\* in the making is still to do to them, and for which partitions; whatever
\* commands fail (partitioners.py) and however often test runs follow each other.
THEOREM Invariant == Spec => []IInv
<1>1. Init => IInv
  BY InitInvariant
<1>2. IInv /\ [Next]_vars => IInv'
  <2> SUFFICES ASSUME IInv, [Next]_vars
               PROVE  IInv'
    OBVIOUS
  <2>1. CASE Execute
    <3>1. ordinal \in 0 .. MaxOrdinal
      BY DEF IInv, TypeOK
    <3> QED
      BY <2>1, <3>1, ExecuteBegins, BeginStep
  <2>2. CASE \E action \in active : Heal(action)
    BY <2>2, HealStep
  <2>3. CASE Succeed
    BY <2>3, CommandStep DEF Succeed
  <2>4. CASE Refused
    BY <2>4, CommandStep DEF Refused
  <2>5. CASE FailSpuriously
    BY <2>5, CommandStep DEF FailSpuriously
  <2>6. CASE Finish
    BY <2>6, FinishStep
  <2>7. CASE NewRun
    BY <2>7, NewRunStep
  <2>8. CASE Terminated \/ UNCHANGED vars
    BY <2>8, StutterStep DEF Terminated
  <2> QED
    BY <2>1, <2>2, <2>3, <2>4, <2>5, <2>6, <2>7, <2>8 DEF Next
<1> QED
  BY <1>1, <1>2, PTL DEF Spec

-----------------------------------------------------------------------------
(* What partitions promise.                                                *)

LEMMA InvariantIsTyped == IInv => TypeOK
  BY DEF IInv

LEMMA NothingIsStray == IInv => NothingStray
<1> SUFFICES ASSUME IInv, NEW b \in BlockedTraffic
             PROVE  b \in Designed(active \cup current) \cup unflushed
  BY DEF NothingStray
<1>1. b \in Blocks
  BY DEF BlockedTraffic
<1>2. PICK c \in Chains : <<b.at, c, Match[b.hook], b.peer>> \in rules
  BY DEF BlockedTraffic
<1>3. b.hook \in Hooks /\ b = Block(b.at, b.hook, b.peer)
  BY <1>1, BlockFacts
<1>4. \/ Block(b.at, b.hook, b.peer) \in unflushed
      \/ \E a \in Concerned : Block(b.at, b.hook, b.peer) \in a.design
  <2> DEFINE r == <<b.at, c, Match[b.hook], b.peer>>
  <2>1. r[1] = b.at /\ r[3] = Match[b.hook] /\ r[4] = b.peer
    OBVIOUS
  <2> HIDE DEF r
  <2>2. r \in rules
    BY <1>2 DEF r
  <2> QED
    BY <1>3, <2>1, <2>2 DEF IInv, Inv, Attributed
<1> QED
  BY <1>3, <1>4 DEF Concerned, Designed

LEMMA CleanIsExact == IInv => ExactWhileClean
<1> SUFFICES ASSUME IInv, failures = 0, phase = "idle"
             PROVE  /\ BlockedTraffic = Designed(active)
                    /\ \A c \in chains : \E a \in active : c[2].id = a.ordinal
  BY DEF ExactWhileClean
<1>1. /\ current = {} /\ plan = <<>> /\ Concerned = active
      /\ unflushed = {} /\ Owned /\ Linked /\ Filled
  BY IdleFacts DEF IInv, Inv, CleanInv
<1>2. \A a \in active : ActionOK(a)
  BY <1>1 DEF IInv, Inv, Engine
<1>3. BlockedTraffic \subseteq Designed(active)
  BY <1>1, NothingIsStray DEF NothingStray
<1>4. ASSUME NEW a \in active, NEW b \in a.design
      PROVE  b \in BlockedTraffic
  <2> DEFINE c == ChainOf(a, b.hook)
  <2>1. b \in Blocks /\ HookOf(c) = b.hook /\ c \in Chains
    BY <1>2, DesignFacts, SiteFacts
  <2>2. <<b.at, c, Match[b.hook], b.peer>> \in rules
    BY <1>1 DEF Filled
  <2>3. <<b.at, c>> \in chains
    BY <2>2 DEF IInv, Inv, Tables
  <2>4. <<b.at, HookOf(c), c>> \in links
    BY <1>1, <2>3 DEF Linked
  <2> QED
    BY <2>1, <2>2, <2>4 DEF BlockedTraffic
<1>5. ASSUME NEW c \in chains
      PROVE  \E a \in active : c[2].id = a.ordinal
  <2>1. PICK a \in active : Site(a, c[1], c[2])
    BY <1>1 DEF Owned
  <2> QED
    BY <1>2, <2>1, SiteFacts
<1> QED
  BY <1>3, <1>4, <1>5 DEF Designed

\* A ring of at least three: what a node sees is a majority, and its own.
LEMMA MajorityVisible ==
  ASSUME NEW order \in SetToSeqs(Nodes), NEW i \in 1 .. Len(order)
  PROVE  2 * Cardinality(Visible(order, i)) > Len(order)
<1> DEFINE n == Len(order)
<1> DEFINE m == Majority(n)
<1> DEFINE next(k) == ((i + k - 1) % n) + 1
<1> DEFINE S == Visible(order, i)
<1> DEFINE f == [k \in 0 .. m - 1 |-> order[next(k)]]
<1>1. n \in Nat \ {0} /\ \A g, h \in 1 .. n : order[g] = order[h] => g = h
  BY OrderFacts, LenProperties
<1>2. m \in 1 .. n /\ 2 * m > n
  BY <1>1, MajorityFacts
<1>3. S = {order[next(k)] : k \in 0 .. m - 1}
  BY DEF Visible
<1> HIDE DEF n, m, S
<1>4. \A k \in 0 .. m - 1 : k \in 0 .. n - 1 /\ next(k) \in 1 .. n
  BY <1>1, <1>2
<1>5. ASSUME NEW k \in 0 .. m - 1, NEW l \in 0 .. m - 1, next(k) = next(l)
      PROVE  k = l
  <2>1. i \in 1 .. n
    BY DEF n
  <2> DEFINE j == next(k)
  <2>2. j \in 1 .. n /\ next(k) = j /\ next(l) = j /\ k \in 0 .. n - 1 /\ l \in 0 .. n - 1
    BY <1>4, <1>5
  <2> HIDE DEF j
  <2>3. \A x \in 0 .. n - 1 : next(x) = j <=> Distance(n, i, j) = x
    BY <1>1, <2>1, <2>2, DistanceFacts
  <2> QED
    BY <2>2, <2>3
<1> HIDE DEF next
<1>6. f \in Bijection(0 .. m - 1, S)
  <2>1. f \in [0 .. m - 1 -> S] /\ \A s \in S : \E k \in 0 .. m - 1 : f[k] = s
    BY <1>3
  <2>2. \A k, l \in 0 .. m - 1 : f[k] = f[l] => k = l
    BY <1>1, <1>4, <1>5 DEF n
  <2> HIDE DEF f
  <2> QED
    BY <2>1, <2>2 DEF Bijection, Injection, IsInjective, Surjection
<1>7. Cardinality(S) = m
  <2>1. IsFiniteSet(0 .. m - 1) /\ Cardinality(0 .. m - 1) = m
    BY <1>1, <1>2, FS_Interval
  <2>2. ExistsBijection(0 .. m - 1, S)
    BY <1>6 DEF ExistsBijection
  <2> QED
    BY <2>1, <2>2, FS_Bijection
<1> QED
  BY <1>2, <1>7 DEF S, n

LEMMA ViewsDiffer ==
  ASSUME NEW order \in SetToSeqs(Nodes), Len(order) > 2,
         NEW i \in 1 .. Len(order), NEW j \in 1 .. Len(order),
         Visible(order, i) = Visible(order, j)
  PROVE  i = j
<1> DEFINE n == Len(order)
<1> DEFINE p == IF i = 1 THEN n ELSE i - 1
<1>1. n \in Nat \ {0} /\ n > 2 /\ i \in 1 .. n /\ j \in 1 .. n
  BY OrderFacts, LenProperties
<1>2. Majority(n) \in 1 .. n /\ Majority(n) < n
  BY <1>1, MajorityFacts
<1>3. \A g, h \in 1 .. n : order[h] \in Visible(order, g) <=> Distance(n, g, h) < Majority(n)
  BY VisibleFacts
<1> HIDE DEF n
<1>4. ASSUME NEW g \in 1 .. n, NEW h \in 1 .. n
      PROVE  Distance(n, g, h) = IF h >= g THEN h - g ELSE h + n - g
  BY <1>1, DistanceValue
<1>5. p \in 1 .. n
  BY <1>1
<1>6. Distance(n, i, p) = n - 1 /\ Distance(n, i, i) = 0
  <2>1. /\ Distance(n, i, p) = IF p >= i THEN p - i ELSE p + n - i
        /\ Distance(n, i, i) = IF i >= i THEN i - i ELSE i + n - i
    BY <1>1, <1>4, <1>5
  <2> QED
    BY <1>1, <2>1
<1>7. i # j => Distance(n, j, p) = Distance(n, j, i) - 1
  <2>1. /\ Distance(n, j, p) = IF p >= j THEN p - j ELSE p + n - j
        /\ Distance(n, j, i) = IF i >= j THEN i - j ELSE i + n - j
    BY <1>1, <1>4, <1>5
  <2> QED
    BY <1>1, <2>1
<1> HIDE DEF p
<1>8. Distance(n, j, i) \in 0 .. n - 1
  BY <1>1, DistanceFacts
<1>9. order[i] \in Visible(order, i) /\ order[p] \notin Visible(order, i)
  BY <1>1, <1>2, <1>3, <1>5, <1>6
<1>10. Distance(n, j, i) < Majority(n) /\ ~(Distance(n, j, p) < Majority(n))
  BY <1>1, <1>3, <1>5, <1>9
<1> QED
  BY <1>1, <1>2, <1>7, <1>8, <1>10

\* In a ring of an odd number of nodes no two of them hear each other: of any two
\* one drops what comes from the other (the window of execute() of the ring
\* class, which README.md calls a majority that each node sees).
THEOREM OddRingOneWay ==
  ASSUME NEW order \in SetToSeqs(Nodes), Len(order) % 2 = 1,
         NEW i \in 1 .. Len(order), NEW j \in 1 .. Len(order), i # j,
         order[j] \in Visible(order, i)
  PROVE  order[i] \notin Visible(order, j)
<1> DEFINE n == Len(order)
<1>1. n \in Nat \ {0} /\ i \in 1 .. n /\ j \in 1 .. n /\ n % 2 = 1
  BY OrderFacts, LenProperties
<1>2. /\ Distance(n, i, j) < Majority(n)
      /\ order[i] \in Visible(order, j) <=> Distance(n, j, i) < Majority(n)
  BY VisibleFacts
<1> HIDE DEF n
<1>3. Distance(n, i, j) = IF j >= i THEN j - i ELSE j + n - i
  BY <1>1, DistanceValue
<1>4. Distance(n, j, i) = IF i >= j THEN i - j ELSE i + n - j
  BY <1>1, DistanceValue
<1>5. Distance(n, i, j) + Distance(n, j, i) = n
  BY <1>1, <1>3, <1>4
<1>6. 2 * Majority(n) = n + 1 /\ Majority(n) \in Nat
  BY <1>1 DEF Majority
<1>7. Distance(n, i, j) \in Nat /\ Distance(n, j, i) \in Nat /\ n \in Nat
  BY <1>1, <1>3, <1>4
<1>8. ~(Distance(n, j, i) < Majority(n))
  BY <1>2, <1>5, <1>6, <1>7
<1> QED
  BY <1>2, <1>8

\* As long as nothing has failed, the firewalls are what the only ring made them.
LEMMA SeenInRing ==
  ASSUME IInv, LoneRing
  PROVE  \E order \in SetToSeqs(Nodes) :
           \A i \in 1 .. Len(order) : Seen(order[i]) = Visible(order, i)
<1>1. failures = 0 /\ phase = "idle" /\ Cardinality(active) = 1
      /\ \A a \in active : a.kind = "ring"
  BY DEF LoneRing
<1>2. Concerned = active /\ \A a \in active : ActionOK(a)
  BY <1>1, IdleFacts DEF IInv, Inv, Engine
<1>3. \E a : active = {a}
  <2>1. IsFiniteSet(active)
    <3> DEFINE f == [a \in active |-> a.ordinal]
    <3>1. f \in Injection(active, 1 .. MaxOrdinal)
      <4>1. f \in [active -> 1 .. MaxOrdinal]
        BY <1>2, ActionFacts
      <4>2. \A a, b \in active : f[a] = f[b] => a = b
        BY <1>2 DEF IInv, Inv, Engine
      <4> QED
        BY <4>1, <4>2 DEF Injection, IsInjective
    <3>2. IsFiniteSet(1 .. MaxOrdinal)
      BY ConstantsAssumption, FS_Interval
    <3> HIDE DEF f
    <3> QED
      BY <3>1, <3>2, FS_Injection
  <2> QED
    BY <1>1, <2>1, FS_Singleton
<1>4. PICK a : active = {a}
  BY <1>3
<1>5. PICK order \in SetToSeqs(Nodes) : a.design = RingDesign(order)
  BY <1>1, <1>2, <1>4 DEF ActionOK
<1>6. BlockedTraffic = RingDesign(order)
  <2>1. BlockedTraffic = Designed(active)
    BY <1>1, CleanIsExact DEF ExactWhileClean
  <2> QED
    BY <1>4, <1>5, <2>1 DEF Designed
<1>7. ASSUME NEW i \in 1 .. Len(order)
      PROVE  Seen(order[i]) = Visible(order, i)
  <2>1. \A y \in Nodes : Block(order[i], "INPUT", y) \in RingDesign(order)
                           <=> y \notin Visible(order, i)
    BY RingDesignFacts
  <2>2. Visible(order, i) \subseteq Nodes
    BY VisibleNodes
  <2> QED
    BY <1>6, <2>1, <2>2 DEF Seen
<1> QED
  BY <1>7

LEMMA RingsAreRight == IInv => RingViews
<1> SUFFICES ASSUME IInv, LoneRing, Cardinality(Nodes) > 2, NEW x \in Nodes, NEW y \in Nodes
             PROVE  /\ 2 * Cardinality(Seen(x)) > Cardinality(Nodes)
                    /\ Seen(x) = Seen(y) => x = y
  BY DEF RingViews
<1>1. PICK order \in SetToSeqs(Nodes) :
        \A i \in 1 .. Len(order) : Seen(order[i]) = Visible(order, i)
  BY SeenInRing
<1>2. order \in Seq(Nodes) /\ Len(order) = Cardinality(Nodes) /\ ToSet(order) = Nodes
  BY OrderFacts
<1>3. PICK i \in 1 .. Len(order) : order[i] = x
  BY <1>2, ToSetFacts
<1>4. PICK j \in 1 .. Len(order) : order[j] = y
  BY <1>2, ToSetFacts
<1>5. 2 * Cardinality(Seen(x)) > Cardinality(Nodes)
  BY <1>1, <1>2, <1>3, MajorityVisible
<1>6. ASSUME Seen(x) = Seen(y)
      PROVE  x = y
  <2>1. Visible(order, i) = Visible(order, j)
    BY <1>1, <1>3, <1>4, <1>6
  <2> QED
    BY <1>2, <1>3, <1>4, <2>1, ViewsDiffer
<1> QED
  BY <1>5, <1>6

\* The commands that partitioners.py still has to issue, the engine's actions
\* and the firewalls of the nodes are always of their types.
THEOREM TypeCorrect == Spec => []TypeOK
  BY Invariant, InvariantIsTyped, PTL

\* Whatever fails, and in whatever order partitions are made and healed, nothing
\* is dropped that no partition in force or in the making is to drop, but for
\* what a heal failed to flush (remove_chain flushes before it unlinks).
THEOREM OnlyDesignedTraffic == Spec => []NothingStray
  BY Invariant, NothingIsStray, PTL

\* As long as no command has failed spuriously, the firewalls drop between two
\* plans exactly what the partitions in force are to drop, of all five classes
\* and overlapping ones included, and keep no chain of one that has been healed.
THEOREM ExactFirewalls == Spec => []ExactWhileClean
  BY Invariant, CleanIsExact, PTL

\* Under a ring of any size above two, every node receives packets from a
\* majority of the nodes, itself included, and no two nodes from the same one.
THEOREM RingMajorities == Spec => []RingViews
  BY Invariant, RingsAreRight, PTL

=============================================================================
