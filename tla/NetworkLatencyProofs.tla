------------------------ MODULE NetworkLatencyProofs ------------------------
(***************************************************************************)
(* Proofs about NetworkLatency: what delays a node has while apply(),      *)
(* remove() and a freeze work on it, for all configurations of nodes,      *)
(* datacenters and delays, any number of test runs, freezes and failures.  *)
(***************************************************************************)
EXTENDS NetworkLatency, FiniteSetTheorems, NaturalsInduction, TLAPS

-----------------------------------------------------------------------------
(* The bands of a node.                                                    *)

Count == Len(AllNodes)

LEMMA AllNodesType ==
  /\ Count \in Nat \ {0}
  /\ \A i \in 1 .. Count : AllNodes[i] \in Nodes
  /\ DOMAIN AllNodes = 1 .. Count
  /\ \A n \in Nodes : \E i \in 1 .. Count : AllNodes[i] = n
<1>1. AllNodes \in Seq(DbSet \cup ExtraSet) /\ Len(AllNodes) # 0
  BY ConstantsAssumption DEF AllNodes
<1>2. DOMAIN AllNodes = 1 .. Len(AllNodes) /\ Len(AllNodes) \in Nat
  BY <1>1
<1> QED
  BY <1>1, <1>2 DEF Nodes, Count

LEMMA DelayType ==
  \A n, m \in Nodes : Delay(n, m) \in Nat
<1>1. \A p \in DOMAIN CrossDelays : CrossDelays[p] \in Nat
  BY ConstantsAssumption
<1>2. \A n, m \in Nodes : CrossDelay(n, m) \in Nat
  BY <1>1 DEF CrossDelay
<1> QED
  BY <1>2, ConstantsAssumption DEF Delay

\* Any set of nodes has a first one.
LEMMA FirstIndex ==
  ASSUME NEW S \in SUBSET Nodes, S # {}
  PROVE  \E i \in 1 .. Count : AllNodes[i] \in S /\ \A j \in 1 .. i - 1 : AllNodes[j] \notin S
<1> DEFINE T == {i \in 1 .. Count : AllNodes[i] \in S}
<1>1. T # {} /\ T \subseteq Nat
  BY AllNodesType
<1>2. \A i, j \in Nat : j < i => <<j, i>> \in OpToRel(<, Nat)
  BY DEF OpToRel
<1>3. PICK i \in T : \A j \in T : <<j, i>> \notin OpToRel(<, Nat)
  <2> HIDE DEF T
  <2> DEFINE R == OpToRel(<, Nat)
  <2>1. IsWellFoundedOn(R, Nat)
    BY NatLessThanWellFounded
  <2> HIDE DEF R
  <2>2. \E i \in T : \A j \in T : <<j, i>> \notin R
    BY <1>1, <2>1, WFMin
  <2> QED
    BY <2>2 DEF R
<1>4. \A j \in 1 .. i - 1 : j \in Nat /\ j < i /\ j \in 1 .. Count
  BY AllNodesType
<1>5. i \in Nat
  BY AllNodesType
<1>6. \A j \in 1 .. i - 1 : AllNodes[j] \notin S
  BY <1>2, <1>3, <1>4, <1>5
<1> QED
  BY <1>6

LEMMA FirstIn ==
  ASSUME NEW S \in SUBSET Nodes, S # {}
  PROVE  First(S) \in S
<1>1. PICK i \in 1 .. Count : AllNodes[i] \in S /\ \A j \in 1 .. i - 1 : AllNodes[j] \notin S
  BY FirstIndex
<1>2. \E m \in S : \E k \in DOMAIN AllNodes :
        AllNodes[k] = m /\ \A j \in 1 .. k - 1 : AllNodes[j] \notin S
  BY <1>1, AllNodesType
<1> QED
  BY <1>2 DEF First

LEMMA LowestIn ==
  ASSUME NEW S \in SUBSET Bands, S # {}
  PROVE  Lowest(S) \in S
<1> DEFINE R == OpToRel(<, Nat)
<1>1. IsWellFoundedOn(R, Nat)
  BY NatLessThanWellFounded
<1>2. \A i, j \in Nat : j < i => <<j, i>> \in R
  BY DEF OpToRel
<1> HIDE DEF R
<1>3. S \subseteq Nat
  BY AllNodesType DEF Bands, Count
<1>4. PICK b \in S : \A c \in S : <<c, b>> \notin R
  BY <1>1, <1>3, WFMin
<1>5. ASSUME NEW c \in S
      PROVE  b <= c
  <2>1. b \in Nat /\ c \in Nat
    BY <1>3
  <2>2. ~(c < b)
    BY <1>2, <1>4, <2>1
  <2> QED
    BY <2>1, <2>2
<1> QED
  BY <1>5 DEF Lowest

LEMMA DelaysType ==
  ASSUME NEW n \in Nodes
  PROVE  /\ Dests(n) \subseteq Nodes \ {n}
         /\ \A m \in Dests(n) : Delay(n, m) \in Delays(n)
         /\ \A d \in Delays(n) : d \in Nat /\ d > 0 /\ \E m \in Dests(n) : d = Delay(n, m)
BY DelayType DEF Dests, Delays

\* Before is a strict total order on the delays of a node.
LEMMA BeforeOrder ==
  ASSUME NEW n \in Nodes, NEW c \in Delays(n), NEW d \in Delays(n), NEW e \in Delays(n)
  PROVE  /\ ~Before(n, d, d)
         /\ d # e => Before(n, d, e) \/ Before(n, e, d)
         /\ Before(n, c, d) /\ Before(n, d, e) => Before(n, c, e)
<1> DEFINE At(i, x) == AllNodes[i] \in Dests(n) /\ Delay(n, AllNodes[i]) = x
<1>1. ASSUME NEW x, NEW y
      PROVE  Before(n, x, y) <=>
               \E i \in 1 .. Count : At(i, x) /\ \A j \in 1 .. i : ~At(j, y)
  BY AllNodesType DEF Before
<1> HIDE DEF At
<1>2. ~Before(n, d, d)
  BY <1>1, AllNodesType
<1>3. ASSUME d # e
      PROVE  Before(n, d, e) \/ Before(n, e, d)
  <2> DEFINE S == {m \in Dests(n) : Delay(n, m) \in {d, e}}
  <2>1. S \in SUBSET Nodes /\ S # {}
    BY DelaysType
  <2>2. PICK i \in 1 .. Count : AllNodes[i] \in S /\ \A j \in 1 .. i - 1 : AllNodes[j] \notin S
    BY <2>1, FirstIndex
  <2>3. \A j \in 1 .. i : j = i \/ j \in 1 .. i - 1
    BY AllNodesType
  <2>4. At(i, d) \/ At(i, e)
    BY <2>2 DEF At
  <2>5. \A j \in 1 .. i - 1 : ~At(j, d) /\ ~At(j, e)
    BY <2>2 DEF At
  <2>6. ~(At(i, d) /\ At(i, e))
    BY <1>3 DEF At
  <2> HIDE DEF S
  <2> QED
    BY <1>1, <2>3, <2>4, <2>5, <2>6
<1>4. ASSUME Before(n, c, d), Before(n, d, e)
      PROVE  Before(n, c, e)
  <2>1. PICK i \in 1 .. Count : At(i, c) /\ \A j \in 1 .. i : ~At(j, d)
    BY <1>1, <1>4
  <2>2. PICK k \in 1 .. Count : At(k, d) /\ \A j \in 1 .. k : ~At(j, e)
    BY <1>1, <1>4
  <2>3. i < k
    BY <2>1, <2>2, AllNodesType
  <2>4. \A j \in 1 .. i : ~At(j, e)
    BY <2>2, <2>3, AllNodesType
  <2> QED
    BY <1>1, <2>1, <2>4
<1> QED
  BY <1>2, <1>3, <1>4

LEMMA DelaysFinite ==
  ASSUME NEW n \in Nodes
  PROVE  /\ IsFiniteSet(Delays(n))
         /\ Cardinality(Delays(n)) \in Nat
         /\ Cardinality(Delays(n)) < Count
         /\ Delays(n) # {} => Cardinality(Delays(n)) > 0
<1>1. IsFiniteSet(Nodes) /\ Cardinality(Nodes) <= Count
  <2>1. IsFiniteSet(1 .. Count) /\ Cardinality(1 .. Count) = Count
    BY AllNodesType, FS_Interval
  <2>2. [i \in 1 .. Count |-> AllNodes[i]] \in Surjection(1 .. Count, Nodes)
    BY AllNodesType DEF Surjection
  <2> QED
    BY <2>1, <2>2, FS_Surjection
<1>2. IsFiniteSet(Nodes \ {n}) /\ Cardinality(Nodes \ {n}) = Cardinality(Nodes) - 1
  BY <1>1, FS_RemoveElement
<1>3. IsFiniteSet(Dests(n)) /\ Cardinality(Dests(n)) <= Cardinality(Nodes \ {n})
  BY <1>2, FS_Subset, DelaysType
<1>4. IsFiniteSet(Delays(n)) /\ Cardinality(Delays(n)) <= Cardinality(Dests(n))
  <2>1. [m \in Dests(n) |-> Delay(n, m)] \in Surjection(Dests(n), Delays(n))
    BY DelaysType DEF Surjection
  <2> QED
    BY <1>3, <2>1, FS_Surjection
<1>5. Cardinality(Nodes) \in Nat /\ Cardinality(Dests(n)) \in Nat /\ Cardinality(Delays(n)) \in Nat
  BY <1>1, <1>3, <1>4, FS_CardinalityType
<1>6. Cardinality(Delays(n)) < Count
  BY <1>1, <1>2, <1>3, <1>4, <1>5, AllNodesType
<1> QED
  BY <1>4, <1>5, <1>6, FS_EmptySet

\* Each delay of a node gets a band of its own, and no band is left out
\* (_apply_node): bands can be told from delays and delays from bands.
THEOREM BandNumbers ==
  ASSUME NEW n \in Nodes
  PROVE  /\ NumBands(n) \in 1 .. Count
         /\ \A d \in Delays(n) : BandOf(n, d) \in 2 .. NumBands(n)
         /\ \A d, e \in Delays(n) : BandOf(n, d) = BandOf(n, e) => d = e
         /\ \A b \in 2 .. NumBands(n) : \E d \in Delays(n) : BandOf(n, d) = b
<1> DEFINE Earlier(d) == {e \in Delays(n) : Before(n, e, d)}
           Rank(d)    == Cardinality(Earlier(d))
           N          == Cardinality(Delays(n))
<1>1. N \in Nat /\ N < Count /\ IsFiniteSet(Delays(n))
  BY DelaysFinite
<1>2. \A d \in Delays(n) : /\ IsFiniteSet(Earlier(d)) /\ Rank(d) \in Nat /\ Rank(d) < N
  <2> SUFFICES ASSUME NEW d \in Delays(n)
               PROVE  IsFiniteSet(Earlier(d)) /\ Rank(d) \in Nat /\ Rank(d) < N
    OBVIOUS
  <2>1. Earlier(d) \in SUBSET Delays(n) /\ Earlier(d) # Delays(n)
    BY BeforeOrder
  <2> HIDE DEF Earlier
  <2> QED
    BY <1>1, <2>1, FS_Subset, FS_CardinalityType
<1>3. ASSUME NEW d \in Delays(n), NEW e \in Delays(n), Before(n, d, e)
      PROVE  Rank(d) < Rank(e)
  <2>1. Earlier(d) \in SUBSET Earlier(e) /\ d \in Earlier(e) /\ d \notin Earlier(d)
    BY <1>3, BeforeOrder
  <2>2. Earlier(d) # Earlier(e)
    BY <2>1
  <2>3. Rank(d) \in Nat /\ Rank(e) \in Nat /\ IsFiniteSet(Earlier(e))
    BY <1>2
  <2> HIDE DEF Earlier
  <2> QED
    BY <2>1, <2>2, <2>3, FS_Subset
<1>4. \A d \in Delays(n) : BandOf(n, d) = 2 + Rank(d)
  BY DEF BandOf
<1>5. NumBands(n) = N + 1
  BY DEF NumBands
<1> HIDE DEF Earlier, Rank, N
<1>6. NumBands(n) \in 1 .. Count
  BY <1>1, <1>5, AllNodesType
<1>7. \A d \in Delays(n) : BandOf(n, d) \in 2 .. NumBands(n)
  BY <1>1, <1>2, <1>4, <1>5
<1>8. ASSUME NEW d \in Delays(n), NEW e \in Delays(n), BandOf(n, d) = BandOf(n, e)
      PROVE  d = e
  <2>1. Rank(d) = Rank(e) /\ Rank(d) \in Nat /\ Rank(e) \in Nat
    BY <1>2, <1>4, <1>8
  <2>2. ~(Rank(d) < Rank(e)) /\ ~(Rank(e) < Rank(d))
    BY <2>1
  <2> QED
    BY <1>3, <2>2, BeforeOrder
<1>9. \A b \in 2 .. NumBands(n) : \E d \in Delays(n) : BandOf(n, d) = b
  <2> DEFINE f == [d \in Delays(n) |-> BandOf(n, d)]
  <2>1. f \in Injection(Delays(n), 2 .. NumBands(n))
    BY <1>7, <1>8 DEF Injection, IsInjective
  <2>2. IsFiniteSet(2 .. NumBands(n)) /\ Cardinality(2 .. NumBands(n)) = N
    BY <1>1, <1>5, FS_Interval
  <2>3. f \in Surjection(Delays(n), 2 .. NumBands(n))
    BY <2>1, <2>2, FS_Injection DEF N
  <2> QED
    BY <2>3 DEF Surjection
<1> QED
  BY <1>6, <1>7, <1>8, <1>9

\* The band of an address, and the addresses of a band.
LEMMA BandFacts ==
  ASSUME NEW n \in Nodes
  PROVE  /\ NumBands(n) \in Nat /\ NumBands(n) <= Count
         /\ \A b \in 1 .. NumBands(n) : b \in Bands
         /\ Dests(n) # {} => NumBands(n) >= 2
         /\ \A m \in Dests(n) : /\ m \in Nodes /\ m # n
                                /\ BandOf(n, Delay(n, m)) \in 2 .. NumBands(n)
                                /\ BandDelay(n, BandOf(n, Delay(n, m))) = Delay(n, m)
         /\ \A b \in 2 .. NumBands(n) :
              /\ BandDelay(n, b) \in Nat /\ BandDelay(n, b) > 0
              /\ \E m \in Dests(n) : BandOf(n, Delay(n, m)) = b
              /\ InBand(n, b) = {m \in Dests(n) : BandOf(n, Delay(n, m)) = b}
              /\ InBand(n, b) # {}
<1>1. /\ NumBands(n) \in 1 .. Count
      /\ \A d \in Delays(n) : BandOf(n, d) \in 2 .. NumBands(n)
      /\ \A d, e \in Delays(n) : BandOf(n, d) = BandOf(n, e) => d = e
      /\ \A b \in 2 .. NumBands(n) : \E d \in Delays(n) : BandOf(n, d) = b
  BY BandNumbers
<1>2. NumBands(n) \in Nat /\ NumBands(n) <= Count /\ \A b \in 1 .. NumBands(n) : b \in Bands
  BY <1>1, AllNodesType DEF Bands, Count
<1>3. \A b \in 2 .. NumBands(n) : BandDelay(n, b) \in Delays(n) /\ BandOf(n, BandDelay(n, b)) = b
  BY <1>1 DEF BandDelay
<1>4. \A d \in Delays(n) : BandDelay(n, BandOf(n, d)) = d
  BY <1>1, <1>3
<1>5. Dests(n) # {} => NumBands(n) >= 2
  BY <1>1, <1>2, DelaysType
<1>6. \A b \in 2 .. NumBands(n) : InBand(n, b) = {m \in Dests(n) : BandOf(n, Delay(n, m)) = b}
  BY <1>3, <1>4, DelaysType DEF InBand
<1>7. \A b \in 2 .. NumBands(n) : \E m \in Dests(n) : BandOf(n, Delay(n, m)) = b
  BY <1>1, DelaysType
<1> QED
  BY <1>1, <1>2, <1>3, <1>4, <1>5, <1>6, <1>7, DelaysType

\* What tc shows of a delay is still that delay, and shown again it is the same.
LEMMA ShownFacts ==
  ASSUME NEW d \in Nat
  PROVE  /\ Shown(d) \in Nat /\ Shown(Shown(d)) = Shown(d)
         /\ d > 0 => Shown(d) > 0
         /\ Shown(0) = 0
<1>1. CASE d < 1000
  BY <1>1 DEF Shown
<1>2. CASE ~(d < 1000)
  <2> DEFINE q == (d + 50) \div 100
  <2>1. q \in Nat /\ q >= 10
    BY <1>2
  <2>2. Shown(d) = q * 100
    BY <1>2 DEF Shown
  <2> HIDE DEF q
  <2>3. q * 100 \in Nat /\ ~(q * 100 < 1000) /\ (q * 100 + 50) \div 100 = q
    BY <2>1
  <2> QED
    BY <2>1, <2>2, <2>3 DEF Shown
<1> QED
  BY <1>1, <1>2

-----------------------------------------------------------------------------
(* Types, and what the two program counters say of the other variables.    *)

\* The manager.
ManagerAt ==
  /\ mpc = "new" => at = 1 /\ band = 1
  /\ mpc \in {"root", "netem", "filter", "raised"} => at <= Count
  /\ mpc = "applied" => at > Count
  /\ mpc = "root" => Dests(Node) # {}
  /\ mpc \in {"node", "root"} => band = 1
  /\ mpc = "netem" => band \in 2 .. NumBands(Node) + 1
  /\ mpc = "filter" => /\ band \in 2 .. NumBands(Node)
                       /\ todo # {} /\ todo \subseteq InBand(Node, band)

\* The freeze, which waits for apply().
FreezeAt ==
  /\ fpc # "idle" => mpc \in {"applied", "removing", "removed"} /\ at > Count
  /\ Freezing => targets # {} /\ fnode \notin targets
  /\ frozen \in [DOMAIN frozen -> Nat]
  /\ fpc \in {"freeze", "drop", "restore"} => ftodo # {} /\ ftodo \subseteq DOMAIN frozen
  /\ fpc = "temp_filter" => ftodo # {} /\ ftodo \subseteq targets
  /\ fpc \in {"temp_root", "temp_netem", "temp_filter", "remove_temp"} => frozen = <<>>
  /\ temp /\ fpc = "kill" => frozen = <<>>
  /\ temp => fpc \in {"temp_filter", "kill", "remove_temp", "done"}
  /\ fpc = "temp_filter" => temp

Typed == TypeOK /\ ManagerAt /\ FreezeAt

LEMMA NodeType ==
  ASSUME TypeOK, at <= Count
  PROVE  Node \in Nodes
BY AllNodesType DEF TypeOK, Node, Count

LEMMA BareType ==
  \A r \in 0 .. Count + 1 : /\ BareRoot(r) \in Rules
                            /\ BareRoot(r).root = r
                            /\ \A b \in Bands : BareRoot(r).netem[b] = 0
                            /\ \A m \in Nodes : BareRoot(r).route[m] = 1
<1>1. 1 \in Bands
  BY AllNodesType DEF Bands, Count
<1>2. [b \in Bands |-> 0] \in [Bands -> Nat] /\ [m \in Nodes |-> 1] \in [Nodes -> Bands]
  BY <1>1
<1> QED
  BY <1>2 DEF BareRoot, Rules, Count

LEMMA NoRulesType ==
  /\ NoRules \in Rules
  /\ NoRules.root = 0
  /\ \A b \in Bands : NoRules.netem[b] = 0
  /\ \A m \in Nodes : NoRules.route[m] = 1
BY BareType, AllNodesType DEF NoRules

\* What a command does with the rules of a node.
LEMMA RulesType ==
  ASSUME NEW r \in Rules, NEW b \in Bands, NEW d \in Nat, NEW m \in Nodes
  PROVE  /\ [r EXCEPT !.netem[b] = d] \in Rules
         /\ [r EXCEPT !.netem[b] = d].root = r.root
         /\ [r EXCEPT !.netem[b] = d].route = r.route
         /\ \A c \in Bands : [r EXCEPT !.netem[b] = d].netem[c] = IF c = b THEN d ELSE r.netem[c]
         /\ [r EXCEPT !.route[m] = b] \in Rules
         /\ [r EXCEPT !.route[m] = b].root = r.root
         /\ [r EXCEPT !.route[m] = b].netem = r.netem
         /\ \A k \in Nodes : [r EXCEPT !.route[m] = b].route[k] = IF k = m THEN b ELSE r.route[k]
BY DEF Rules

LEMMA ExecType ==
  ASSUME TypeOK, NEW n \in Nodes, NEW accepted, NEW rules \in Rules, NEW ok \in BOOLEAN,
         Exec(n, accepted, rules, ok)
  PROVE  /\ DOMAIN tc' = Nodes /\ \A k \in Nodes : tc'[k] \in Rules
         /\ failures' \in 0 .. MaxFailures
         /\ residue' \subseteq Nodes
BY ConstantsAssumption DEF Exec, TypeOK

LEMMA AddNetemType ==
  ASSUME TypeOK, NEW n \in Nodes, NEW b \in Bands, NEW d \in Nat, NEW ok \in BOOLEAN,
         QdiscAddNetem(n, b, d, ok)
  PROVE  /\ DOMAIN tc' = Nodes /\ \A k \in Nodes : tc'[k] \in Rules
         /\ failures' \in 0 .. MaxFailures
         /\ residue' \subseteq Nodes
<1> DEFINE rules == [tc[n] EXCEPT !.netem[b] = d]
           accepted == b \in 1 .. tc[n].root /\ tc[n].netem[b] = 0
<1>1. rules \in Rules
  BY AllNodesType, RulesType DEF TypeOK
<1>2. Exec(n, accepted, rules, ok)
  BY DEF QdiscAddNetem
<1> HIDE DEF rules, accepted
<1> QED
  BY <1>1, <1>2, ExecType

LEMMA SetNetemType ==
  ASSUME TypeOK, NEW n \in Nodes, NEW b \in Bands, NEW d \in Nat, NEW ok \in BOOLEAN,
         Exec(n, tc[n].netem[b] > 0, [tc[n] EXCEPT !.netem[b] = d], ok)
  PROVE  /\ DOMAIN tc' = Nodes /\ \A k \in Nodes : tc'[k] \in Rules
         /\ failures' \in 0 .. MaxFailures
         /\ residue' \subseteq Nodes
<1> DEFINE rules == [tc[n] EXCEPT !.netem[b] = d]
           accepted == tc[n].netem[b] > 0
<1>1. rules \in Rules
  BY AllNodesType, RulesType DEF TypeOK
<1>2. Exec(n, accepted, rules, ok)
  OBVIOUS
<1> HIDE DEF rules, accepted
<1> QED
  BY <1>1, <1>2, ExecType

LEMMA RouteType ==
  ASSUME NEW r \in Rules, NEW m \in Nodes, NEW b \in Bands
  PROVE  [r EXCEPT !.route[m] = b] \in Rules
BY DEF Rules

LEMMA DiscoverType ==
  ASSUME TypeOK, NEW n \in Nodes, NEW T \in SUBSET Nodes, NEW found \in Discoveries(n, T)
  PROVE  /\ DOMAIN found \subseteq T
         /\ \A m \in DOMAIN found : found[m] \in BandInfo
         /\ found # <<>> => DOMAIN found # {}
<1>1. \A m \in Nodes : Effective(n, m) \in Nat /\ tc[n].route[m] \in Bands
  BY DEF TypeOK, Rules, Effective
<1>2. \A m \in Nodes : Shown(Effective(n, m)) \in Nat
  BY <1>1, ShownFacts
<1>3. found # <<>> => DOMAIN found # {}
  <2> DEFINE S == {m \in T : Effective(n, m) > 0}
  <2>1. \/ found = <<>>
        \/ found = [m \in S |-> [band |-> tc[n].route[m], delay |-> Shown(Effective(n, m))]]
    BY DEF Discoveries, Discover
  <2> HIDE DEF S
  <2> QED
    BY <2>1
<1> QED
  BY <1>1, <1>2, <1>3 DEF Discoveries, Discover, BandInfo

LEMMA FrozenBandsType ==
  ASSUME NEW found, \A m \in DOMAIN found : found[m] \in BandInfo
  PROVE  /\ FrozenBands(found) \in [DOMAIN FrozenBands(found) -> Nat]
         /\ DOMAIN FrozenBands(found) = {found[m].band : m \in DOMAIN found}
         /\ DOMAIN FrozenBands(found) \subseteq Bands
         /\ found = <<>> => FrozenBands(found) = <<>>
         /\ \A b \in DOMAIN FrozenBands(found) :
              \E m \in DOMAIN found : found[m].band = b /\ FrozenBands(found)[b] = found[m].delay
<1> DEFINE S == {found[m].band : m \in DOMAIN found}
           Of(b) == CHOOSE m \in DOMAIN found : found[m].band = b
<1>1. \A b \in S : Of(b) \in DOMAIN found /\ found[Of(b)].band = b
  OBVIOUS
<1>2. FrozenBands(found) = [b \in S |-> found[Of(b)].delay]
  BY DEF FrozenBands
<1>3. \A m \in DOMAIN found : found[m].band \in Bands /\ found[m].delay \in Nat
  BY DEF BandInfo
<1> HIDE DEF Of
<1>4. found = <<>> => FrozenBands(found) = <<>>
  <2> SUFFICES ASSUME found = <<>> PROVE FrozenBands(found) = <<>>
    OBVIOUS
  <2>1. S = {}
    OBVIOUS
  <2> HIDE DEF S
  <2> QED
    BY <1>2, <2>1
<1> QED
  BY <1>1, <1>2, <1>3, <1>4

LEMMA NextNodeTyped ==
  ASSUME Typed, mpc \in {"root", "netem"}, NextNode, UNCHANGED freezeVars
  PROVE  /\ mpc' = "node" /\ at' \in 1 .. Count + 1 /\ band' = 1 /\ band' \in Bands
         /\ configured' \subseteq Nodes
         /\ ManagerAt' /\ FreezeAt'
<1>1. at <= Count /\ Node \in Nodes /\ fpc = "idle"
  BY NodeType DEF Typed, ManagerAt, FreezeAt
<1>2. mpc' = "node" /\ at' \in 1 .. Count + 1 /\ band' = 1 /\ band' \in Bands
  BY <1>1, AllNodesType DEF NextNode, Typed, TypeOK, Bands, Count
<1>3. configured' \subseteq Nodes
  BY <1>1 DEF NextNode, Typed, TypeOK
<1>4. ManagerAt'
  BY <1>2 DEF ManagerAt
<1>5. FreezeAt'
  BY <1>1, <1>2, Zenon DEF FreezeAt, Freezing, Typed, freezeVars
<1> QED
  BY <1>2, <1>3, <1>4, <1>5

LEMMA ApplyTyped ==
  ASSUME Typed, Apply
  PROVE  Typed'
<1> USE DEF Typed
<1>0. fpc = "idle" /\ UNCHANGED freezeVars
  BY DEF Apply, BeginApply, BeginNode, EndApply, AddRoot, RecoverBands, GiveUpNode, AddNetem,
         AddFilter, AddFilterTo, EndNode, FreezeAt
<1>1. FreezeAt'
  BY <1>0 DEF FreezeAt, Freezing, freezeVars
<1>2. CASE BeginApply
  BY <1>1, <1>2, AllNodesType DEF BeginApply, TypeOK, ManagerAt, freezeVars, Applying
<1>3. CASE BeginNode
  <2>1. Node \in Nodes
    BY <1>3, NodeType DEF BeginNode, Count
  <2>2. TypeOK'
    <3>1. at' \in 1 .. Len(AllNodes) + 1
      BY <1>3, AllNodesType DEF BeginNode, TypeOK
    <3>2. failures' \in 0 .. MaxFailures
      BY <1>3, ConstantsAssumption DEF BeginNode, TypeOK
    <3>3. mpc' \in {"node", "root", "raised"}
      BY <1>3 DEF BeginNode
    <3>4. UNCHANGED <<tc, band, todo, configured, nodeBands, freezeVars, runs, freezes, residue>>
      BY <1>3 DEF BeginNode
    <3> QED
      BY <3>1, <3>2, <3>3, <3>4 DEF TypeOK, freezeVars, Applying
  <2>3. ManagerAt'
    BY <1>3 DEF BeginNode, ManagerAt, Node, Count
  <2> QED
    BY <1>1, <2>2, <2>3
<1>4. CASE EndApply
  BY <1>1, <1>4 DEF EndApply, TypeOK, ManagerAt, freezeVars, Applying, Count
<1>5. CASE AddRoot
  <2>1. Node \in Nodes /\ NumBands(Node) >= 2 /\ NumBands(Node) <= Count /\ NumBands(Node) \in Nat
    BY <1>5, NodeType, BandFacts DEF AddRoot, ManagerAt
  <2>2. BareRoot(NumBands(Node)) \in Rules
    <3>1. NumBands(Node) \in 0 .. Count + 1
      BY <2>1, AllNodesType
    <3> QED
      BY <3>1, BareType
  <2>3. /\ tc' = [tc EXCEPT ![Node] = BareRoot(NumBands(Node))]
        /\ UNCHANGED <<failures, residue, at, todo, configured, nodeBands, freezeVars, runs, freezes>>
        /\ mpc' = "netem" /\ band' = 2
    BY <1>5 DEF AddRoot, QdiscAddRoot, Exec
  <2>4. 2 \in Bands
    BY AllNodesType DEF Bands, Count
  <2>5. DOMAIN tc' = Nodes /\ \A n \in Nodes : tc'[n] \in Rules
    BY <2>2, <2>3 DEF TypeOK
  <2>6. TypeOK'
    BY <2>3, <2>4, <2>5 DEF TypeOK, freezeVars, Applying
  <2>7. ManagerAt'
    BY <1>5, <2>1, <2>3 DEF AddRoot, ManagerAt, Node
  <2> QED
    BY <1>1, <2>6, <2>7
<1>6. CASE RecoverBands
  <2>1. Node \in Nodes /\ Dests(Node) \in SUBSET Nodes
    BY <1>6, NodeType, DelaysType DEF RecoverBands, ManagerAt
  <2>2. PICK found \in Discoveries(Node, Dests(Node)) :
          /\ Discovery(Node, Dests(Node), found)
          /\ nodeBands' = IF found = <<>> THEN nodeBands ELSE [nodeBands EXCEPT ![Node] = found]
    BY <1>6 DEF RecoverBands
  <2>3. DOMAIN found \subseteq Nodes /\ \A m \in DOMAIN found : found[m] \in BandInfo
    BY <2>1, DiscoverType
  <2>4. /\ DOMAIN nodeBands' = Nodes
        /\ \A n \in Nodes : /\ DOMAIN nodeBands'[n] \subseteq Nodes
                            /\ \A m \in DOMAIN nodeBands'[n] : nodeBands'[n][m] \in BandInfo
    BY <2>2, <2>3 DEF TypeOK
  <2>5. failures' \in 0 .. MaxFailures /\ residue' \subseteq Nodes
    BY <2>1, <2>2, ConstantsAssumption DEF Discovery, TypeOK
  <2>6. UNCHANGED <<tc, todo, freezeVars, runs, freezes>> /\ NextNode /\ mpc = "root"
    BY <1>6 DEF RecoverBands
  <2>7. /\ mpc' = "node" /\ at' \in 1 .. Count + 1 /\ band' \in Bands
        /\ configured' \subseteq Nodes /\ ManagerAt'
    BY <2>6, NextNodeTyped
  <2> QED
    BY <1>1, <2>4, <2>5, <2>6, <2>7 DEF TypeOK, freezeVars, Applying, Count
<1>7. CASE GiveUpNode
  <2>1. Node \in Nodes /\ NumBands(Node) <= Count /\ NumBands(Node) \in Nat
    BY <1>7, NodeType, BandFacts DEF GiveUpNode, ManagerAt
  <2>2. BareRoot(NumBands(Node)) \in Rules
    <3>1. NumBands(Node) \in 0 .. Count + 1
      BY <2>1, AllNodesType
    <3> QED
      BY <3>1, BareType
  <2>3. /\ DOMAIN tc' = Nodes /\ \A k \in Nodes : tc'[k] \in Rules
        /\ failures' \in 0 .. MaxFailures /\ residue' \subseteq Nodes
    BY <1>7, <2>1, <2>2, ExecType DEF GiveUpNode, QdiscAddRoot
  <2>4. UNCHANGED <<todo, nodeBands, freezeVars, runs, freezes>> /\ NextNode /\ mpc = "root"
    BY <1>7 DEF GiveUpNode
  <2>5. /\ mpc' = "node" /\ at' \in 1 .. Count + 1 /\ band' \in Bands
        /\ configured' \subseteq Nodes /\ ManagerAt'
    BY <2>4, NextNodeTyped
  <2> QED
    BY <1>1, <2>3, <2>4, <2>5 DEF TypeOK, freezeVars, Applying, Count
<1>8. CASE AddNetem
  <2>1. /\ Node \in Nodes /\ NumBands(Node) <= Count /\ NumBands(Node) \in Nat
        /\ band \in 2 .. NumBands(Node) /\ band \in Bands /\ band + 1 \in Bands
    <3>1. Node \in Nodes /\ band \in 2 .. NumBands(Node) + 1 /\ band <= NumBands(Node)
      BY <1>8, NodeType DEF AddNetem, ManagerAt
    <3>2. NumBands(Node) <= Count /\ NumBands(Node) \in Nat
      BY <3>1, BandFacts
    <3> QED
      BY <3>1, <3>2, AllNodesType DEF Bands, Count
  <2>2. /\ BandDelay(Node, band) \in Nat /\ InBand(Node, band) \subseteq Nodes
        /\ InBand(Node, band) # {}
    BY <2>1, BandFacts DEF InBand
  <2>3. [tc[Node] EXCEPT !.netem[band] = BandDelay(Node, band)] \in Rules
    BY <2>1, <2>2, RulesType DEF TypeOK
  <2>4. /\ DOMAIN tc' = Nodes /\ \A k \in Nodes : tc'[k] \in Rules
        /\ failures' \in 0 .. MaxFailures /\ residue' \subseteq Nodes
    BY <1>8, <2>1, <2>3, ExecType DEF AddNetem, QdiscAddNetem
  <2>5. /\ UNCHANGED <<at, configured, nodeBands, freezeVars, runs, freezes>> /\ mpc = "netem"
        /\ \/ mpc' = "filter" /\ todo' = InBand(Node, band) /\ band' = band
           \/ mpc' = "netem" /\ todo' = todo /\ band' = band + 1
    BY <1>8 DEF AddNetem
  <2>6. ManagerAt'
    BY <2>1, <2>2, <2>5 DEF ManagerAt, Node
  <2> QED
    BY <1>1, <2>1, <2>2, <2>4, <2>5, <2>6 DEF TypeOK, freezeVars, Applying
<1>9. CASE AddFilter
  <2> DEFINE m == First(todo)
  <2>1. /\ Node \in Nodes /\ NumBands(Node) <= Count /\ NumBands(Node) \in Nat
        /\ band \in 2 .. NumBands(Node) /\ band \in Bands /\ band + 1 \in Bands
    <3>1. Node \in Nodes /\ band \in 2 .. NumBands(Node)
      BY <1>9, NodeType DEF AddFilter, ManagerAt
    <3>2. NumBands(Node) <= Count /\ NumBands(Node) \in Nat
      BY <3>1, BandFacts
    <3> QED
      BY <3>1, <3>2, AllNodesType DEF Bands, Count
  <2>2. m \in todo /\ m \in Nodes /\ todo \subseteq InBand(Node, band)
    BY <1>9, FirstIn DEF AddFilter, ManagerAt, TypeOK
  <2> DEFINE new == [band |-> band, delay |-> BandDelay(Node, band)]
  <2>3. new \in BandInfo
    BY <2>1, BandFacts DEF BandInfo
  <2>4. [tc[Node] EXCEPT !.route[m] = band] \in Rules
    <3>1. tc[Node] \in Rules
      BY <2>1 DEF TypeOK
    <3> QED
      BY <3>1, <2>1, <2>2, RouteType
  <2>5. AddFilterTo(m, todo \ {m})
    BY <1>9 DEF AddFilter
  <2> HIDE DEF m, new
  <2>6. /\ DOMAIN tc' = Nodes /\ \A k \in Nodes : tc'[k] \in Rules
        /\ failures' \in 0 .. MaxFailures /\ residue' \subseteq Nodes
    <3>1. PICK ok \in BOOLEAN : FilterAdd(Node, m, band, ok)
      BY <2>5 DEF AddFilterTo
    <3> QED
      BY <3>1, <2>1, <2>4, ExecType DEF FilterAdd
  <2>7. /\ DOMAIN nodeBands' = Nodes
        /\ \A n \in Nodes : /\ DOMAIN nodeBands'[n] \subseteq Nodes
                            /\ \A k \in DOMAIN nodeBands'[n] : nodeBands'[n][k] \in BandInfo
    <3>1. nodeBands' = [nodeBands EXCEPT ![Node] = With(nodeBands[Node], m, new)]
      BY <2>5 DEF AddFilterTo, new
    <3>2. /\ DOMAIN With(nodeBands[Node], m, new) \subseteq Nodes
          /\ \A k \in DOMAIN With(nodeBands[Node], m, new) :
               With(nodeBands[Node], m, new)[k] \in BandInfo
      BY <2>1, <2>2, <2>3 DEF TypeOK, With
    <3> QED
      BY <3>1, <3>2, <2>1 DEF TypeOK
  <2>8. /\ UNCHANGED <<at, configured, freezeVars, runs, freezes>> /\ mpc = "filter"
        /\ todo' = todo \ {m}
        /\ \/ todo' = {} /\ mpc' = "netem" /\ band' = band + 1
           \/ todo' # {} /\ mpc' = mpc /\ band' = band
    BY <2>5, <1>9 DEF AddFilterTo, AddFilter
  <2>9. ManagerAt'
    BY <2>1, <2>2, <2>8 DEF ManagerAt, Node
  <2> QED
    BY <1>1, <2>1, <2>6, <2>7, <2>8, <2>9 DEF TypeOK, freezeVars, Applying
<1>10. CASE EndNode
  <2>1. mpc = "netem" /\ NextNode /\ UNCHANGED <<tc, todo, nodeBands, freezeVars, runs, freezes, failures, residue>>
    BY <1>10 DEF EndNode
  <2>2. /\ mpc' = "node" /\ at' \in 1 .. Count + 1 /\ band' \in Bands
        /\ configured' \subseteq Nodes /\ ManagerAt'
    BY <2>1, NextNodeTyped
  <2> QED
    BY <1>1, <2>1, <2>2 DEF TypeOK, freezeVars, Applying, Count
<1> QED
  BY <1>2, <1>3, <1>4, <1>5, <1>6, <1>7, <1>8, <1>9, <1>10 DEF Apply

LEMMA RemoveTyped ==
  ASSUME Typed, Remove
  PROVE  Typed'
<1> USE DEF Typed
<1>1. /\ UNCHANGED <<at, band, freezeVars, runs, freezes>>
      /\ fpc # "idle" => mpc \in {"applied", "removing", "removed"}
  BY DEF Remove, BeginRemove, RemoveNode, EndRemove, FreezeAt
<1>2. mpc' \in {"removing", "removed"}
  BY DEF Remove, BeginRemove, RemoveNode, EndRemove
<1>3. ManagerAt' /\ FreezeAt'
  BY <1>1, <1>2 DEF ManagerAt, FreezeAt, Freezing, freezeVars
<1>4. CASE \E force \in BOOLEAN : BeginRemove(force)
  BY <1>1, <1>2, <1>3, <1>4 DEF BeginRemove, TypeOK, freezeVars
<1>5. CASE RemoveNode
  <2>1. PICK n \in todo :
          /\ \/ /\ tc' = [tc EXCEPT ![n] = NoRules]
                /\ residue' = residue \ {n} /\ failures' = failures
             \/ QdiscDelRoot(n, FALSE)
          /\ todo' = todo \ {n}
    BY <1>5 DEF RemoveNode
  <2>2. n \in Nodes
    BY DEF TypeOK
  <2>3. /\ DOMAIN tc' = Nodes /\ \A k \in Nodes : tc'[k] \in Rules
        /\ failures' \in 0 .. MaxFailures /\ residue' \subseteq Nodes
    BY <2>1, <2>2, NoRulesType, ExecType DEF QdiscDelRoot, TypeOK
  <2>4. UNCHANGED <<mpc, configured, nodeBands>> /\ todo' \subseteq Nodes
    BY <1>5, <2>1 DEF RemoveNode, TypeOK
  <2> QED
    BY <1>1, <1>3, <2>3, <2>4 DEF TypeOK, freezeVars
<1>6. CASE EndRemove
  BY <1>1, <1>3, <1>6 DEF EndRemove, TypeOK, freezeVars
<1> QED
  BY <1>4, <1>5, <1>6 DEF Remove

LEMMA EmptyDomain ==
  ASSUME NEW f, f \in [DOMAIN f -> Nat], DOMAIN f = {}
  PROVE  f = <<>>
OBVIOUS

LEMMA BeginTyped ==
  ASSUME Typed, NEW n \in Nodes, NEW T \in SUBSET Nodes, T # {}, n \notin T, NEW found,
         \A m \in DOMAIN found : found[m] \in BandInfo,
         found # <<>> => DOMAIN found # {},
         NEW otherwise \in {"temp_root", "kill"},
         BeginFreeze(n, T, found, otherwise),
         failures' \in 0 .. MaxFailures, residue' \subseteq Nodes
  PROVE  Typed'
<1> USE DEF Typed
<1>1. /\ FrozenBands(found) \in [DOMAIN FrozenBands(found) -> Nat]
      /\ DOMAIN FrozenBands(found) = {found[m].band : m \in DOMAIN found}
      /\ DOMAIN FrozenBands(found) \subseteq Bands
      /\ found = <<>> => FrozenBands(found) = <<>>
  BY FrozenBandsType
<1>2. found # <<>> => DOMAIN FrozenBands(found) # {}
  BY <1>1
<1>3. /\ Available /\ freezes < MaxFreezes /\ freezes' = freezes + 1
      /\ fnode' = n /\ targets' = T /\ temp' = FALSE
      /\ frozen' = FrozenBands(found) /\ ftodo' = DOMAIN frozen'
      /\ fpc' = IF found = <<>> THEN otherwise ELSE "freeze"
      /\ UNCHANGED <<tc, managerVars, runs>>
  BY DEF BeginFreeze
<1> HIDE DEF BeginFreeze
<1>4. mpc \in {"applied", "removing", "removed"} /\ at > Count
  BY <1>3, AllNodesType DEF Available, ManagerAt, TypeOK, Applying, Count
<1>5. FreezeAt'
  <2>1. fpc' \in {"temp_root", "kill", "freeze"}
    BY <1>3
  <2>2. fpc' \in {"temp_root", "kill"} => frozen' = <<>>
    BY <1>1, <1>3
  <2>3. fpc' = "freeze" => ftodo' # {} /\ ftodo' = DOMAIN frozen'
    BY <1>2, <1>3
  <2>4. frozen' \in [DOMAIN frozen' -> Nat] /\ targets' # {} /\ fnode' \notin targets'
    BY <1>1, <1>3
  <2> QED
    BY <1>3, <1>4, <2>1, <2>2, <2>3, <2>4 DEF FreezeAt, Freezing, managerVars
<1>6. ManagerAt'
  BY <1>3 DEF ManagerAt, managerVars, Node
<1>7. TypeOK'
  <2>1. fpc' \in {"temp_root", "kill", "freeze"}
    BY <1>3
  <2>2. DOMAIN frozen' \subseteq Bands /\ \A b \in DOMAIN frozen' : frozen'[b] \in Nat
    BY <1>1, <1>3
  <2>3. freezes' \in 0 .. MaxFreezes
    BY <1>3, ConstantsAssumption DEF TypeOK
  <2>4. /\ DOMAIN tc' = Nodes /\ \A k \in Nodes : tc'[k] \in Rules
        /\ fnode' \in Nodes /\ targets' \subseteq Nodes /\ ftodo' \subseteq Bands \cup Nodes
        /\ temp' \in BOOLEAN
    BY <1>3, <2>2 DEF TypeOK
  <2> QED
    BY <1>3, <2>1, <2>2, <2>3, <2>4 DEF TypeOK, managerVars
<1> QED
  BY <1>5, <1>6, <1>7

LEMMA FreezeStepTyped ==
  ASSUME Typed, FreezeStep
  PROVE  Typed'
<1> USE DEF Typed
<1>1. UNCHANGED <<managerVars, fnode, targets, runs, freezes>>
  BY DEF FreezeStep, FreezeBand, FreezeFirst, TempRoot, TempNetem, TempFilter, Kill, KillRaises,
         DropBand, RestoreBand, RestoreAs, RemoveTemp
<1>2. ManagerAt'
  BY <1>1 DEF ManagerAt, managerVars, Node
<1>3. /\ fnode \in Nodes /\ fpc # "idle"
      /\ mpc \in {"applied", "removing", "removed"} /\ at > Count
  BY DEF TypeOK, FreezeAt, FreezeStep, FreezeBand, FreezeFirst, TempRoot, TempNetem, TempFilter,
         Kill, KillRaises, DropBand, RestoreBand, RestoreAs, RemoveTemp
<1> DEFINE Low == Lowest(ftodo)
<1>4. fpc \in {"freeze", "drop", "restore"} =>
        /\ Low \in ftodo /\ Low \in Bands /\ Low \in DOMAIN frozen /\ frozen[Low] \in Nat
        /\ ftodo \subseteq Bands
  BY LowestIn DEF FreezeAt, TypeOK
<1> DEFINE Fine == /\ DOMAIN tc' = Nodes /\ \A k \in Nodes : tc'[k] \in Rules
                   /\ failures' \in 0 .. MaxFailures /\ residue' \subseteq Nodes
<1>5. ASSUME NEW b \in Bands, NEW d \in Nat, NEW m \in Nodes
      PROVE  /\ [tc[fnode] EXCEPT !.netem[b] = d] \in Rules
             /\ [tc[fnode] EXCEPT !.route[m] = b] \in Rules
  BY <1>3, RulesType DEF TypeOK
<1>6. 2 \in Bands /\ BareRoot(2) \in Rules /\ FreezeDelay \in Nat /\ 0 \in Nat
  <2>1. 2 \in 0 .. Count + 1
    BY AllNodesType
  <2> QED
    BY <2>1, BareType, AllNodesType, ConstantsAssumption DEF Bands, Count
<1>7. CASE FreezeBand
  <2>1. fpc = "freeze" /\ FreezeFirst(Low, ftodo \ {Low})
    BY <1>7 DEF FreezeBand
  <2>2. PICK ok \in BOOLEAN : QdiscChange(fnode, Low, FreezeDelay, ok)
    BY <2>1 DEF FreezeFirst
  <2>3. Fine
    BY <1>3, <1>4, <1>6, <2>1, <2>2, SetNetemType DEF QdiscChange
  <2>4. /\ UNCHANGED <<frozen, temp>> /\ ftodo' = ftodo \ {Low}
        /\ fpc' = IF ftodo' = {} THEN "kill" ELSE fpc
    BY <2>1 DEF FreezeFirst
  <2>5. FreezeAt'
    BY <1>1, <1>3, <2>1, <2>4 DEF FreezeAt, Freezing, managerVars
  <2> QED
    BY <1>1, <1>2, <2>1, <2>3, <2>4, <2>5 DEF TypeOK, managerVars
<1>8. CASE TempRoot
  <2>1. PICK ok \in BOOLEAN :
          /\ QdiscAddRoot(fnode, 2, ok)
          /\ fpc' = IF ok THEN "temp_netem" ELSE "kill"
    BY <1>8 DEF TempRoot
  <2>2. Fine
    BY <1>3, <1>6, <2>1, ExecType DEF QdiscAddRoot
  <2>3. UNCHANGED <<frozen, ftodo, temp>> /\ fpc = "temp_root"
    BY <1>8 DEF TempRoot
  <2>4. FreezeAt'
    BY <1>1, <1>3, <2>1, <2>3 DEF FreezeAt, Freezing, managerVars
  <2> QED
    BY <1>1, <1>2, <2>1, <2>2, <2>3, <2>4 DEF TypeOK, managerVars
<1>9. CASE TempNetem
  <2>1. PICK ok \in BOOLEAN :
          /\ QdiscAddNetem(fnode, 2, FreezeDelay, ok) /\ temp' = ok
          /\ fpc' = IF ok THEN "temp_filter" ELSE "remove_temp"
    BY <1>9 DEF TempNetem
  <2>2. Fine
    BY <1>3, <1>6, <2>1, AddNetemType
  <2>3. UNCHANGED frozen /\ ftodo' = targets /\ fpc = "temp_netem"
    BY <1>9 DEF TempNetem
  <2>4. FreezeAt'
    BY <1>1, <1>3, <2>1, <2>3 DEF FreezeAt, Freezing, managerVars
  <2> QED
    BY <1>1, <1>2, <2>1, <2>2, <2>3, <2>4 DEF TypeOK, managerVars
<1>10. CASE TempFilter
  <2> DEFINE m == First(ftodo)
  <2>1. PICK ok \in BOOLEAN : FilterAdd(fnode, m, 2, ok)
    BY <1>10 DEF TempFilter
  <2>2. m \in ftodo /\ m \in Nodes
    BY <1>10, FirstIn DEF TempFilter, FreezeAt, TypeOK
  <2>3. Fine
    BY <1>3, <1>5, <1>6, <2>1, <2>2, ExecType DEF FilterAdd
  <2>4. /\ UNCHANGED <<frozen, temp>> /\ ftodo' = ftodo \ {m} /\ fpc = "temp_filter"
        /\ fpc' = IF ftodo' = {} THEN "kill" ELSE fpc
    BY <1>10 DEF TempFilter
  <2> HIDE DEF m
  <2>5. FreezeAt'
    BY <1>1, <1>3, <2>4 DEF FreezeAt, Freezing, managerVars
  <2> QED
    BY <1>1, <1>2, <2>3, <2>4, <2>5 DEF TypeOK, managerVars
<1>11. CASE Kill
  <2>1. /\ UNCHANGED <<tc, frozen, temp, failures, residue>> /\ fpc = "kill"
        /\ fpc' = IF frozen # <<>> THEN "drop" ELSE IF temp THEN "remove_temp" ELSE "done"
        /\ ftodo' = DOMAIN frozen
    BY <1>11 DEF Kill
  <2>2. frozen # <<>> => DOMAIN frozen # {}
    BY EmptyDomain DEF FreezeAt
  <2>3. FreezeAt'
    BY <1>1, <1>3, <2>1, <2>2 DEF FreezeAt, Freezing, managerVars
  <2> QED
    BY <1>1, <1>2, <2>1, <2>3 DEF TypeOK, managerVars
<1>12. CASE KillRaises
  <2>1. /\ UNCHANGED <<tc, ftodo, failures>> /\ fpc' = "idle" /\ frozen' = <<>> /\ temp' = FALSE
        /\ residue' \in {residue, residue \cup {fnode}}
    BY <1>12 DEF KillRaises
  <2>2. frozen' \in [{} -> Nat] /\ DOMAIN frozen' = {}
    BY <2>1
  <2>3. FreezeAt'
    BY <2>1, <2>2 DEF FreezeAt, Freezing
  <2> QED
    BY <1>1, <1>2, <1>3, <2>1, <2>2, <2>3 DEF TypeOK, managerVars
<1>13. CASE DropBand
  <2>1. PICK ok \in BOOLEAN : QdiscDelNetem(fnode, Low, ok)
    BY <1>13 DEF DropBand
  <2>2. Fine
    <3>1. fpc = "drop" /\ Low \in Bands
      BY <1>4, <1>13 DEF DropBand
    <3> QED
      BY <1>3, <1>6, <2>1, <3>1, SetNetemType DEF QdiscDelNetem
  <2>3. UNCHANGED <<frozen, ftodo, temp>> /\ fpc = "drop" /\ fpc' = "restore"
    BY <1>13 DEF DropBand
  <2>4. FreezeAt'
    BY <1>1, <1>3, <2>3 DEF FreezeAt, Freezing, managerVars
  <2> QED
    BY <1>1, <1>2, <2>2, <2>3, <2>4 DEF TypeOK, managerVars
<1>14. CASE RestoreBand
  <2>1. fpc = "restore" /\ RestoreAs(frozen[Low])
    BY <1>14 DEF RestoreBand
  <2>2. PICK ok \in BOOLEAN : QdiscAddNetem(fnode, Low, frozen[Low], ok)
    BY <2>1 DEF RestoreAs
  <2>3. Fine
    BY <1>3, <1>4, <2>1, <2>2, AddNetemType
  <2>4. /\ UNCHANGED <<frozen, temp>> /\ ftodo' = ftodo \ {Low}
        /\ fpc' = IF ftodo' = {} THEN "done" ELSE "drop"
    BY <2>1 DEF RestoreAs
  <2>5. FreezeAt'
    BY <1>1, <1>3, <2>1, <2>4 DEF FreezeAt, Freezing, managerVars
  <2> QED
    BY <1>1, <1>2, <2>3, <2>4, <2>5 DEF TypeOK, managerVars
<1>15. CASE RemoveTemp
  <2>1. PICK ok \in BOOLEAN : QdiscDelRoot(fnode, ok)
    BY <1>15 DEF RemoveTemp
  <2>2. Fine
    BY <1>3, <2>1, NoRulesType, ExecType DEF QdiscDelRoot
  <2>3. /\ UNCHANGED <<frozen, ftodo, temp>> /\ fpc = "remove_temp"
        /\ fpc' = IF temp THEN "done" ELSE "kill"
    BY <1>15 DEF RemoveTemp
  <2>4. FreezeAt'
    BY <1>1, <1>3, <2>3 DEF FreezeAt, Freezing, managerVars
  <2> QED
    BY <1>1, <1>2, <2>2, <2>3, <2>4 DEF TypeOK, managerVars
<1> QED
  BY <1>7, <1>8, <1>9, <1>10, <1>11, <1>12, <1>13, <1>14, <1>15 DEF FreezeStep

LEMMA FreezeLiveTyped ==
  ASSUME Typed, NEW n \in Nodes, NEW T \in SUBSET Nodes, T # {}, n \notin T, FreezeLive(n, T)
  PROVE  Typed'
<1>1. PICK found \in Discoveries(n, T) :
        Discovery(n, T, found) /\ BeginFreeze(n, T, found, "temp_root")
  BY DEF FreezeLive, Discovery, Discoveries
<1>2. /\ \A m \in DOMAIN found : found[m] \in BandInfo
      /\ found # <<>> => DOMAIN found # {}
  BY DiscoverType DEF Typed
<1>3. failures' \in 0 .. MaxFailures /\ residue' \subseteq Nodes
  BY <1>1, ConstantsAssumption DEF Discovery, Typed, TypeOK
<1> QED
  BY <1>1, <1>2, <1>3, BeginTyped

\* The stored bands of the targets.
Stored(n, T) == [m \in T \cap DOMAIN nodeBands[n] |-> nodeBands[n][m]]

LEMMA StoredType ==
  ASSUME TypeOK, NEW n \in Nodes, NEW T \in SUBSET Nodes
  PROVE  /\ DOMAIN Stored(n, T) = T \cap DOMAIN nodeBands[n]
         /\ \A m \in DOMAIN Stored(n, T) : Stored(n, T)[m] \in BandInfo /\ Stored(n, T)[m] = nodeBands[n][m]
         /\ Stored(n, T) # <<>> => DOMAIN Stored(n, T) # {}
<1> DEFINE S == T \cap DOMAIN nodeBands[n]
<1>1. Stored(n, T) = [m \in S |-> nodeBands[n][m]]
  BY DEF Stored
<1>2. \A m \in S : nodeBands[n][m] \in BandInfo
  BY DEF TypeOK
<1>3. S = {} => Stored(n, T) = <<>>
  <2> HIDE DEF S
  <2> QED
    BY <1>1
<1> QED
  BY <1>1, <1>2, <1>3

LEMMA FreezeStoredTyped ==
  ASSUME Typed, NEW n \in Nodes, NEW T \in SUBSET Nodes, T # {}, n \notin T, FreezeStored(n, T)
  PROVE  Typed'
<1>1. BeginFreeze(n, T, Stored(n, T), "kill") /\ UNCHANGED <<failures, residue>>
  BY DEF FreezeStored, Stored
<1>2. failures' \in 0 .. MaxFailures /\ residue' \subseteq Nodes
  BY <1>1 DEF Typed, TypeOK
<1>3. /\ \A m \in DOMAIN Stored(n, T) : Stored(n, T)[m] \in BandInfo
      /\ Stored(n, T) # <<>> => DOMAIN Stored(n, T) # {}
  BY StoredType DEF Typed
<1> HIDE DEF Stored
<1> QED
  BY <1>1, <1>2, <1>3, BeginTyped

LEMMA RestartTyped ==
  ASSUME Typed, Restart
  PROVE  Typed'
<1> USE DEF Typed
<1>1. /\ mpc' = "new" /\ at' = 1 /\ band' = 1 /\ todo' = {} /\ configured' = {}
      /\ nodeBands' = [n \in Nodes |-> <<>>]
      /\ fpc' = "idle" /\ targets' = {} /\ frozen' = <<>> /\ ftodo' = {} /\ temp' = FALSE
      /\ runs' \in 0 .. MaxRuns
      /\ UNCHANGED <<tc, fnode, freezes, failures>>
  BY ConstantsAssumption DEF Restart, TypeOK
<1>2. ManagerAt'
  BY <1>1 DEF ManagerAt
<1>3. frozen' \in [{} -> Nat] /\ DOMAIN frozen' = {}
  BY <1>1
<1>4. FreezeAt'
  BY <1>1, <1>3 DEF FreezeAt, Freezing
<1>5. residue' \subseteq Nodes
  <2>1. mpc \in {"netem", "filter"} => Node \in Nodes
    BY NodeType DEF ManagerAt
  <2> QED
    BY <2>1 DEF Restart, TypeOK
<1>6. 1 \in 1 .. Count + 1 /\ 1 \in Bands
  BY AllNodesType DEF Bands, Count
<1> QED
  BY <1>1, <1>2, <1>3, <1>4, <1>5, <1>6 DEF TypeOK, Count

LEMMA InitTyped == Init => Typed
<1> SUFFICES ASSUME Init PROVE Typed
  OBVIOUS
<1>1. /\ tc = [n \in Nodes |-> NoRules]
      /\ mpc = "new" /\ at = 1 /\ band = 1 /\ todo = {} /\ configured = {}
      /\ nodeBands = [n \in Nodes |-> <<>>]
      /\ fpc = "idle" /\ fnode = AllNodes[1] /\ targets = {} /\ frozen = <<>> /\ ftodo = {}
      /\ temp = FALSE
      /\ runs = 1 /\ freezes = 0 /\ failures = 0
      /\ residue = {}
  BY DEF Init, NewManager
<1>2. 1 \in 1 .. Count + 1 /\ 1 \in Bands /\ AllNodes[1] \in Nodes
  BY AllNodesType DEF Bands, Count
<1>3. frozen \in [{} -> Nat] /\ DOMAIN frozen = {}
  BY <1>1
<1>4. ManagerAt
  BY <1>1 DEF ManagerAt
<1>5. FreezeAt
  BY <1>1, <1>3 DEF FreezeAt, Freezing
<1>6. /\ 1 \in 0 .. MaxRuns /\ 0 \in 0 .. MaxFreezes /\ 0 \in 0 .. MaxFailures
  BY ConstantsAssumption
<1>7. DOMAIN tc = Nodes /\ \A n \in Nodes : tc[n] \in Rules
  BY <1>1, NoRulesType
<1>8. DOMAIN nodeBands = Nodes /\ \A n \in Nodes : DOMAIN nodeBands[n] = {}
  BY <1>1
<1> QED
  BY <1>1, <1>2, <1>3, <1>4, <1>5, <1>6, <1>7, <1>8 DEF Typed, TypeOK, Count

LEMMA TypedInvariance == Spec => []Typed
<1>1. Typed /\ [Next]_vars => Typed'
  <2> SUFFICES ASSUME Typed, [Next]_vars
               PROVE  Typed'
    OBVIOUS
  <2>1. CASE UNCHANGED vars
    BY <2>1 DEF Typed, TypeOK, ManagerAt, FreezeAt, vars, managerVars, freezeVars, Node, Freezing
  <2>2. CASE Next
    BY <2>2, ApplyTyped, RemoveTyped, FreezeStepTyped, RestartTyped, FreezeLiveTyped,
       FreezeStoredTyped DEF Next, Freeze
  <2> QED
    BY <2>1, <2>2
<1> QED
  BY <1>1, InitTyped, PTL DEF Spec

\* Every variable stays in its type: bands and nodes exist, delays are natural
\* numbers, for every configuration.
THEOREM TypeCorrect == Spec => []TypeOK
<1>1. Typed => TypeOK
  BY DEF Typed
<1> QED
  BY <1>1, TypedInvariance, PTL

-----------------------------------------------------------------------------
(* The rules of a node.  A node on which nothing has failed has either     *)
(* none, or those apply() gives it, as far as it has got, but for the bands*)
(* of a freeze, or those of a freeze that works on a node without rules.   *)

Ruled(n) == tc[n].root # 0
Clean(n) == n \notin residue /\ Ruled(n)

Band(n, m) == BandOf(n, Delay(n, m))

\* The freeze has given the node a root qdisc of its own.
Temporary(n) ==
  n = fnode /\ (fpc \in {"temp_netem", "temp_filter", "remove_temp"} \/ (fpc = "kill" /\ temp))

TemporaryRules(n) ==
  /\ tc[n].root = 2
  /\ \A m \in Nodes : tc[n].route[m] =
       IF temp /\ m \in targets /\ ~(fpc = "temp_filter" /\ m \in ftodo) THEN 2 ELSE 1
  /\ \A b \in Bands : tc[n].netem[b] = IF temp /\ b = 2 THEN FreezeDelay ELSE 0

\* apply() is at work on the node, and has got to one of its bands.
Building(n) == mpc \in {"netem", "filter"} /\ n = Node
HasNetem(b) == b < band \/ (mpc = "filter" /\ b = band)
Routed(n, m) == Band(n, m) < band \/ (mpc = "filter" /\ Band(n, m) = band /\ m \notin todo)

BuiltRules(n) ==
  /\ tc[n].root = NumBands(n)
  /\ \A m \in Nodes : tc[n].route[m] = IF m \in Dests(n) /\ Routed(n, m) THEN Band(n, m) ELSE 1
  /\ \A b \in Bands : tc[n].netem[b] =
       IF b \in 2 .. NumBands(n) /\ HasNetem(b) THEN BandDelay(n, b) ELSE 0
  /\ DOMAIN nodeBands[n] = {m \in Dests(n) : Routed(n, m)}

\* The bands the freeze has frozen, and the one it has taken away to restore it.
Iced(n, b) ==
  /\ n = fnode /\ b \in DOMAIN frozen
  /\ \/ fpc = "freeze" /\ b \notin ftodo
     \/ fpc = "kill"
     \/ fpc = "drop" /\ b \in ftodo
     \/ fpc = "restore" /\ b \in ftodo /\ b # Lowest(ftodo)

Dropped(n, b) == n = fnode /\ fpc = "restore" /\ b = Lowest(ftodo)

SettledRules(n) ==
  /\ tc[n].root = NumBands(n)
  /\ \A m \in Nodes : tc[n].route[m] = IF m \in Dests(n) THEN Band(n, m) ELSE 1
  /\ \A b \in Bands :
       /\ Iced(n, b) => tc[n].netem[b] = FreezeDelay
       /\ Dropped(n, b) \/ b \notin 2 .. NumBands(n) => tc[n].netem[b] = 0
       /\ ~Iced(n, b) /\ ~Dropped(n, b) /\ b \in 2 .. NumBands(n) =>
            Alike(tc[n].netem[b], BandDelay(n, b))

RulesOf(n) ==
  /\ ~Ruled(n) => tc[n] = NoRules
  /\ Building(n) => Ruled(n)
  /\ Clean(n) /\ Temporary(n) => TemporaryRules(n)
  /\ Clean(n) /\ ~Temporary(n) => /\ Dests(n) # {}
                                  /\ Building(n) => BuiltRules(n)
                                  /\ ~Building(n) => SettledRules(n)

\* What the freeze is to restore, and that it has got all its targets.
FreezeInv ==
  /\ fpc \in {"temp_root", "freeze", "kill", "drop", "restore"} /\ ~temp /\ Clean(fnode) =>
       /\ \A b \in DOMAIN frozen : /\ b \in 2 .. NumBands(fnode)
                                   /\ Alike(frozen[b], BandDelay(fnode, b))
       /\ \A m \in targets \cap Dests(fnode) : Band(fnode, m) \in DOMAIN frozen

\* What the manager knows of the bands of a node.
BandsOf(n) ==
  /\ DOMAIN nodeBands[n] \subseteq Dests(n)
  /\ Clean(n) /\ ~Temporary(n) =>
       \A m \in DOMAIN nodeBands[n] : /\ nodeBands[n][m].band = Band(n, m)
                                      /\ Alike(nodeBands[n][m].delay, Delay(n, m))
  /\ mpc \in {"new"} \cup Applying /\ ~Ruled(n) => DOMAIN nodeBands[n] = {}
  /\ mpc \in {"applied", "removing"} /\ at > Count /\ Clean(n) /\ ~Temporary(n) =>
       DOMAIN nodeBands[n] = Dests(n)

\* A node that apply() has dealt with.
Served(n) ==
  Dests(n) # {} =>
    /\ n \in configured
    /\ n \notin residue => Ruled(n) /\ ~Temporary(n) /\ DOMAIN nodeBands[n] = Dests(n)

Visited == mpc \in Applying \cup {"applied"} => \A i \in 1 .. at - 1 : Served(AllNodes[i])

\* What remove() still has to deal with.
Leftover ==
  mpc \in {"removing", "removed"} =>
    \A n \in Nodes : Clean(n) /\ ~Temporary(n) => mpc = "removing" /\ n \in todo

NodesInv == \A n \in Nodes : RulesOf(n) /\ BandsOf(n)

IInv == NodesInv /\ FreezeInv /\ Visited /\ Leftover

LEMMA AlikeFacts ==
  ASSUME NEW d \in Nat, d > 0
  PROVE  /\ Alike(d, d)
         /\ \A x : Alike(x, d) => x \in Nat /\ x > 0 /\ x # 0 /\ Alike(Shown(x), d)
BY ShownFacts DEF Alike

\* The numbers and delays of the bands of a node.
LEMMA BandTypes ==
  ASSUME NEW n \in Nodes
  PROVE  /\ NumBands(n) \in Nat
         /\ Dests(n) # {} => NumBands(n) >= 2
         /\ \A m \in Dests(n) : /\ m \in Nodes /\ m # n
                                /\ Band(n, m) \in 2 .. NumBands(n) /\ Band(n, m) \in Bands
                                /\ BandDelay(n, Band(n, m)) = Delay(n, m)
                                /\ Delay(n, m) \in Nat /\ Delay(n, m) > 0
         /\ \A b \in 2 .. NumBands(n) : /\ b \in Bands
                                        /\ BandDelay(n, b) \in Nat /\ BandDelay(n, b) > 0
                                        /\ InBand(n, b) = {m \in Dests(n) : Band(n, m) = b}
<1>1. \A b \in 2 .. NumBands(n) : b \in Bands
  BY BandFacts
<1>2. \A m \in Dests(n) : Delay(n, m) \in Nat /\ Delay(n, m) > 0
  BY DelaysType
<1> QED
  BY <1>1, <1>2, BandFacts DEF Band

LEMMA InitIInv == Init => IInv
<1> SUFFICES ASSUME Init PROVE IInv
  OBVIOUS
<1>1. /\ mpc = "new" /\ at = 1 /\ fpc = "idle"
      /\ \A n \in Nodes : tc[n] = NoRules /\ DOMAIN nodeBands[n] = {}
  BY DEF Init, NewManager
<1>2. \A n \in Nodes : ~Ruled(n) /\ ~Building(n)
  BY <1>1, NoRulesType DEF Ruled, Building
<1> QED
  BY <1>1, <1>2 DEF IInv, NodesInv, RulesOf, BandsOf, Clean, FreezeInv, Visited, Leftover

-----------------------------------------------------------------------------
(* apply()                                                                 *)

\* A node that a step of apply() does not touch.
LEMMA ApplyElsewhere ==
  ASSUME NEW n \in Nodes, RulesOf(n), BandsOf(n), fpc = "idle", UNCHANGED freezeVars,
         tc'[n] = tc[n], n \in residue' <=> n \in residue, nodeBands'[n] = nodeBands[n],
         ~Building(n), ~Building(n)', mpc \in {"new"} \cup Applying,
         mpc' \in Applying \cup {"raised"}
  PROVE  RulesOf(n)' /\ BandsOf(n)' /\ (Clean(n)' <=> Clean(n)) /\ ~Temporary(n)'
<1>1. /\ Ruled(n)' <=> Ruled(n)
      /\ Clean(n)' <=> Clean(n)
      /\ ~Temporary(n) /\ ~Temporary(n)'
  BY DEF Ruled, Clean, Temporary, freezeVars
<1>2. \A b \in Bands : ~Iced(n, b) /\ ~Dropped(n, b) /\ ~Iced(n, b)' /\ ~Dropped(n, b)'
  BY DEF Iced, Dropped, freezeVars
<1>3. SettledRules(n) => SettledRules(n)'
  BY <1>2 DEF SettledRules
<1>4. RulesOf(n)'
  BY <1>1, <1>3 DEF RulesOf
<1>5. BandsOf(n)'
  BY <1>1 DEF BandsOf, Applying
<1> QED
  BY <1>1, <1>4, <1>5

\* What every step of apply() has in common, for the nodes it does not touch.
LEMMA ApplyOthers ==
  ASSUME Typed, IInv, fpc = "idle", UNCHANGED freezeVars, mpc \in {"root", "netem", "filter"},
         mpc' \in Applying \cup {"raised"}, at' = at \/ mpc' \notin {"netem", "filter"},
         \A n \in Nodes \ {Node} :
            tc'[n] = tc[n] /\ nodeBands'[n] = nodeBands[n] /\ (n \in residue' <=> n \in residue)
  PROVE  \A n \in Nodes \ {Node} :
            RulesOf(n)' /\ BandsOf(n)' /\ (Clean(n)' <=> Clean(n)) /\ ~Temporary(n)'
<1> SUFFICES ASSUME NEW n \in Nodes \ {Node}
             PROVE  RulesOf(n)' /\ BandsOf(n)' /\ (Clean(n)' <=> Clean(n)) /\ ~Temporary(n)'
  OBVIOUS
<1>1. ~Building(n) /\ ~Building(n)'
  BY DEF Building, Node
<1>2. mpc \in {"new"} \cup Applying
  BY DEF Applying
<1> QED
  BY <1>1, <1>2, ApplyElsewhere DEF IInv, NodesInv

\* What the steps of apply() on node k have in common.
LEMMA ApplyFrame ==
  ASSUME Typed, IInv, NEW k \in Nodes, k = Node, fpc = "idle", UNCHANGED freezeVars,
         mpc \in {"root", "netem", "filter"}, mpc' \in Applying,
         configured \subseteq configured',
         \A n \in Nodes \ {k} :
            tc'[n] = tc[n] /\ nodeBands'[n] = nodeBands[n] /\ (n \in residue' <=> n \in residue),
         RulesOf(k)', BandsOf(k)',
         \/ at' = at /\ (Served(k) => Served(k)')
         \/ at' = at + 1 /\ mpc' = "node" /\ Served(k)'
  PROVE  IInv'
<1>1. \A n \in Nodes : RulesOf(n)' /\ BandsOf(n)'
  BY ApplyOthers
<1>2. FreezeInv' /\ Leftover'
  BY DEF FreezeInv, freezeVars, Leftover, Applying
<1>3. Visited'
  <2> SUFFICES ASSUME NEW i \in 1 .. at' - 1
               PROVE  Served(AllNodes[i])'
    BY DEF Visited
  <2>1. at \in 1 .. Count + 1 /\ at <= Count
    BY DEF Typed, TypeOK, ManagerAt, Count
  <2>2. PICK n \in Nodes : n = AllNodes[i]
    BY <2>1, AllNodesType
  <2>3. ASSUME i \in 1 .. at - 1 PROVE Served(n)
    BY <2>2, <2>3 DEF IInv, Visited, Applying
  <2>4. CASE n # k
    <3>1. i \in 1 .. at - 1
      BY <2>1, <2>2, <2>4 DEF Node
    <3>2. Served(n)'
      BY <2>3, <2>4, <3>1 DEF Served, Ruled, Temporary, freezeVars
    <3> QED
      BY <2>2, <3>2
  <2>5. CASE n = k
    <3>1. Served(n)'
      BY <2>1, <2>3, <2>5
    <3> QED
      BY <2>2, <3>1
  <2> QED
    BY <2>4, <2>5
<1> QED
  BY <1>1, <1>2, <1>3 DEF IInv, NodesInv

LEMMA BeginApplyStep ==
  ASSUME Typed, IInv, BeginApply \/ BeginNode
  PROVE  IInv'
<1>1. /\ mpc \in {"new", "node"} /\ mpc' \in {"node", "root", "raised"} /\ fpc = "idle"
      /\ UNCHANGED <<tc, band, todo, configured, nodeBands, freezeVars, residue>>
  BY DEF BeginApply, BeginNode, Typed, FreezeAt
<1>2. \A n \in Nodes : RulesOf(n)' /\ BandsOf(n)' /\ (Served(n)' <=> Served(n))
  <2> SUFFICES ASSUME NEW n \in Nodes
               PROVE  RulesOf(n)' /\ BandsOf(n)' /\ (Served(n)' <=> Served(n))
    OBVIOUS
  <2>1. ~Building(n) /\ ~Building(n)'
    BY <1>1 DEF Building
  <2>2. RulesOf(n)' /\ BandsOf(n)'
    BY <1>1, <2>1, ApplyElsewhere DEF IInv, NodesInv, Applying
  <2> QED
    BY <1>1, <2>2 DEF Served, Ruled, Temporary, freezeVars
<1>3. FreezeInv'
  BY <1>1 DEF FreezeInv, freezeVars
<1>4. Visited'
  <2> SUFFICES ASSUME mpc' \in Applying, NEW i \in 1 .. at' - 1
               PROVE  Served(AllNodes[i])'
    BY <1>1 DEF Visited, Applying
  <2>1. at \in 1 .. Count + 1
    BY DEF Typed, TypeOK, Count
  <2>2. CASE BeginApply
    BY <2>1, <2>2 DEF BeginApply, Typed, ManagerAt
  <2>3. CASE BeginNode
    <3>1. /\ mpc = "node" /\ at <= Count
          /\ at' = at \/ (at' = at + 1 /\ Dests(Node) = {})
      BY <2>3 DEF BeginNode, Count
    <3>2. AllNodes[i] \in Nodes /\ i \in 1 .. at
      BY <2>1, <3>1, AllNodesType
    <3>3. CASE i \in 1 .. at - 1
      BY <1>2, <3>1, <3>2, <3>3 DEF IInv, Visited, Applying
    <3>4. CASE i = at
      BY <2>1, <3>1, <3>4 DEF Served, Node
    <3> QED
      BY <2>1, <3>2, <3>3, <3>4
  <2> QED
    BY <2>2, <2>3
<1>5. Leftover'
  BY <1>1 DEF Leftover
<1> QED
  BY <1>2, <1>3, <1>4, <1>5 DEF IInv, NodesInv

\* apply() returns: it has served every node.
LEMMA EndApplyStep ==
  ASSUME Typed, IInv, EndApply
  PROVE  IInv'
<1>1. /\ mpc = "node" /\ at > Count /\ mpc' = "applied" /\ fpc = "idle"
      /\ UNCHANGED <<tc, at, band, todo, configured, nodeBands, freezeVars, residue>>
  BY DEF EndApply, Typed, FreezeAt, Count
<1>2. ASSUME NEW n \in Nodes
      PROVE  Served(n)
  <2>1. PICK i \in 1 .. Count : AllNodes[i] = n
    BY AllNodesType
  <2>2. i \in 1 .. at - 1
    BY <1>1, AllNodesType DEF Typed, TypeOK
  <2> QED
    BY <1>1, <2>1, <2>2 DEF IInv, Visited, Applying
<1>3. ASSUME NEW n \in Nodes
      PROVE  RulesOf(n)' /\ BandsOf(n)' /\ Served(n)'
  <2>1. ~Building(n) /\ ~Building(n)'
    BY <1>1 DEF Building
  <2>2. RulesOf(n) /\ BandsOf(n)
    BY DEF IInv, NodesInv
  <2>3. /\ Ruled(n)' <=> Ruled(n)
        /\ Clean(n)' <=> Clean(n)
        /\ ~Temporary(n) /\ ~Temporary(n)'
    BY <1>1 DEF Ruled, Clean, Temporary, freezeVars
  <2>4. SettledRules(n) => SettledRules(n)'
    BY <1>1 DEF SettledRules, Iced, Dropped, freezeVars
  <2>5. RulesOf(n)'
    BY <1>1, <2>1, <2>2, <2>3, <2>4 DEF RulesOf
  <2>6. Served(n)'
    BY <1>1, <1>2, <2>3 DEF Served
  <2>7. BandsOf(n)'
    BY <1>1, <1>2, <2>1, <2>2, <2>3 DEF BandsOf, Served, Applying, RulesOf, Clean
  <2> QED
    BY <2>5, <2>6, <2>7
<1>4. FreezeInv' /\ Leftover'
  BY <1>1 DEF FreezeInv, freezeVars, Leftover
<1>5. Visited'
  BY <1>1, <1>3, AllNodesType DEF Visited, Typed, TypeOK, Count
<1> QED
  BY <1>3, <1>4, <1>5 DEF IInv, NodesInv

\* What a command may do to the rules.
LEMMA ExecEffect ==
  ASSUME TypeOK, NEW n \in Nodes, NEW accepted, NEW rules, NEW ok \in BOOLEAN,
         Exec(n, accepted, rules, ok)
  PROVE  /\ \A k \in Nodes \ {n} : tc'[k] = tc[k] /\ (k \in residue' <=> k \in residue)
         /\ residue \subseteq residue'
         /\ tc'[n] = tc[n] \/ (accepted /\ tc'[n] = rules)
         /\ n \notin residue' => /\ ok => accepted /\ tc'[n] = rules
                                 /\ ~ok => ~accepted /\ tc'[n] = tc[n]
         /\ ok => tc'[n] = rules
BY DEF Exec, TypeOK

\* What setting or removing the delay of a band changes.
LEMMA NetemRules ==
  ASSUME NEW r \in Rules, NEW b \in Bands, NEW d \in Nat, NEW s, s = [r EXCEPT !.netem[b] = d]
  PROVE  /\ s.root = r.root /\ s.route = r.route
         /\ \A c \in Bands : s.netem[c] = IF c = b THEN d ELSE r.netem[c]
BY DEF Rules

LEMMA AddRootStep ==
  ASSUME Typed, IInv, AddRoot
  PROVE  IInv'
<1>1. /\ mpc = "root" /\ mpc' = "netem" /\ band' = 2 /\ fpc = "idle"
      /\ UNCHANGED <<at, todo, configured, nodeBands, freezeVars, residue>>
      /\ tc[Node].root = 0
      /\ tc' = [tc EXCEPT ![Node] = BareRoot(NumBands(Node))]
  BY DEF AddRoot, QdiscAddRoot, Exec, Typed, FreezeAt
<1>2. PICK k \in Nodes : k = Node
  BY <1>1, NodeType DEF Typed, ManagerAt
<1>3. /\ Dests(k) # {} /\ NumBands(k) \in Nat /\ NumBands(k) >= 2
      /\ \A m \in Dests(k) : Band(k, m) \in 2 .. NumBands(k)
  BY <1>1, <1>2, BandTypes DEF Typed, ManagerAt
<1>4. NumBands(k) \in 0 .. Count + 1
  BY <1>3, BandFacts, AllNodesType
<1>5. /\ tc'[k].root = NumBands(k)
      /\ \A b \in Bands : tc'[k].netem[b] = 0
      /\ \A m \in Nodes : tc'[k].route[m] = 1
  BY <1>1, <1>2, <1>4, BareType DEF Typed, TypeOK
<1>6. DOMAIN nodeBands[k] = {} /\ (k \in configured /\ Served(k) => k \in residue)
  BY <1>1, <1>2, <1>3 DEF IInv, NodesInv, BandsOf, Ruled, Applying, Served
<1>7. Ruled(k)' /\ ~Temporary(k)'
  BY <1>1, <1>3, <1>5 DEF Ruled, Temporary, freezeVars
<1>8. BuiltRules(k)'
  <2>1. \A m \in Dests(k) : ~Routed(k, m)'
    BY <1>1, <1>3 DEF Routed
  <2>2. \A b \in 2 .. NumBands(k) : ~HasNetem(b)'
    BY <1>1 DEF HasNetem
  <2> QED
    BY <1>1, <1>5, <1>6, <2>1, <2>2 DEF BuiltRules
<1>9. RulesOf(k)'
  BY <1>1, <1>2, <1>3, <1>7, <1>8 DEF RulesOf, Building, Node
<1>10. BandsOf(k)'
  BY <1>1, <1>6, <1>7 DEF BandsOf
<1>11. Served(k) => Served(k)'
  BY <1>1, <1>3, <1>6 DEF Served
<1>12. \A n \in Nodes \ {k} :
          tc'[n] = tc[n] /\ nodeBands'[n] = nodeBands[n] /\ (n \in residue' <=> n \in residue)
  BY <1>1, <1>2 DEF Typed, TypeOK
<1> QED
  BY <1>1, <1>2, <1>9, <1>10, <1>11, <1>12, ApplyFrame DEF Applying

LEMMA GiveUpNodeStep ==
  ASSUME Typed, IInv, GiveUpNode
  PROVE  IInv'
<1>1. /\ mpc = "root" /\ mpc' = "node" /\ at' = at + 1 /\ fpc = "idle"
      /\ configured' = configured \cup {Node}
      /\ UNCHANGED <<todo, nodeBands, freezeVars>>
      /\ tc[Node].root = 0
      /\ Exec(Node, tc[Node].root = 0, BareRoot(NumBands(Node)), FALSE)
  BY DEF GiveUpNode, QdiscAddRoot, Typed, FreezeAt, NextNode
<1>2. PICK k \in Nodes : k = Node
  BY <1>1, NodeType DEF Typed, ManagerAt
<1>3. /\ \A n \in Nodes \ {k} : tc'[n] = tc[n] /\ (n \in residue' <=> n \in residue)
      /\ tc'[k] = tc[k] \/ tc'[k] = BareRoot(NumBands(k))
      /\ k \in residue'
  BY <1>1, <1>2, ExecEffect DEF Typed
<1>4. NumBands(k) \in 0 .. Count + 1 /\ NumBands(k) # 0
  <2>1. NumBands(k) \in Nat /\ NumBands(k) >= 2 /\ NumBands(k) <= Count
    BY <1>1, <1>2, BandFacts DEF Typed, ManagerAt
  <2> QED
    BY <2>1, AllNodesType
<1>5. BareRoot(NumBands(k)).root # 0
  BY <1>4, BareType
<1>6. RulesOf(k)'
  BY <1>1, <1>3, <1>5 DEF RulesOf, Ruled, Clean, Building, IInv, NodesInv
<1>7. BandsOf(k)'
  BY <1>1, <1>2, <1>3 DEF BandsOf, Clean, Ruled, IInv, NodesInv, Applying
<1>8. Served(k)'
  BY <1>1, <1>2, <1>3 DEF Served
<1> QED
  BY <1>1, <1>2, <1>3, <1>6, <1>7, <1>8, ApplyFrame DEF Applying

\* What a node that nobody is at work on lets a discovery find.
LEMMA DiscoverSettled ==
  ASSUME TypeOK, NEW n \in Nodes, SettledRules(n), NEW T \in SUBSET Nodes,
         \A b \in Bands : ~Iced(n, b) /\ ~Dropped(n, b)
  PROVE  /\ DOMAIN Discover(n, T) = T \cap Dests(n)
         /\ \A m \in T \cap Dests(n) : /\ Discover(n, T)[m].band = Band(n, m)
                                       /\ Alike(Discover(n, T)[m].delay, Delay(n, m))
<1>1. ASSUME NEW m \in Dests(n)
      PROVE  /\ tc[n].route[m] = Band(n, m)
             /\ Effective(n, m) > 0
             /\ Alike(Shown(Effective(n, m)), Delay(n, m))
  <2>1. /\ m \in Nodes /\ Band(n, m) \in 2 .. NumBands(n) /\ Band(n, m) \in Bands
        /\ BandDelay(n, Band(n, m)) = Delay(n, m)
        /\ Delay(n, m) \in Nat /\ Delay(n, m) > 0
    BY BandTypes
  <2>2. tc[n].route[m] = Band(n, m) /\ Alike(tc[n].netem[Band(n, m)], Delay(n, m))
    BY <2>1 DEF SettledRules
  <2> QED
    BY <2>1, <2>2, AlikeFacts DEF Effective
<1>2. ASSUME NEW m \in Nodes \ Dests(n)
      PROVE  ~(Effective(n, m) > 0)
  <2>1. tc[n].route[m] = 1 /\ 1 \in Bands /\ 1 \notin 2 .. NumBands(n)
    BY AllNodesType DEF SettledRules, Bands, Count
  <2> QED
    BY <2>1 DEF Effective, SettledRules
<1> DEFINE S == {m \in T : Effective(n, m) > 0}
<1>3. S = T \cap Dests(n)
  BY <1>1, <1>2, DelaysType
<1>4. Discover(n, T) = [m \in S |-> [band |-> tc[n].route[m], delay |-> Shown(Effective(n, m))]]
  BY DEF Discover
<1> HIDE DEF S
<1> QED
  BY <1>1, <1>3, <1>4

LEMMA RecoverBandsStep ==
  ASSUME Typed, IInv, RecoverBands
  PROVE  IInv'
<1>1. /\ mpc = "root" /\ mpc' = "node" /\ at' = at + 1 /\ fpc = "idle"
      /\ configured' = configured \cup {Node}
      /\ UNCHANGED <<tc, todo, freezeVars>>
      /\ tc[Node].root > 0
  BY DEF RecoverBands, Typed, FreezeAt, NextNode
<1>2. PICK k \in Nodes : k = Node
  BY <1>1, NodeType DEF Typed, ManagerAt
<1>3. PICK found \in Discoveries(k, Dests(k)) :
        /\ Discovery(k, Dests(k), found)
        /\ nodeBands' = IF found = <<>> THEN nodeBands ELSE [nodeBands EXCEPT ![k] = found]
  BY <1>2 DEF RecoverBands
<1>4. Dests(k) # {} /\ Dests(k) \subseteq Nodes
  BY <1>1, <1>2, DelaysType DEF Typed, ManagerAt
<1>5. /\ Ruled(k) /\ ~Building(k) /\ ~Building(k)' /\ ~Temporary(k) /\ ~Temporary(k)'
      /\ (Ruled(k)' <=> Ruled(k))
      /\ RulesOf(k) /\ BandsOf(k)
  BY <1>1, <1>2 DEF Ruled, Building, Temporary, freezeVars, IInv, NodesInv, Typed, TypeOK, Rules
<1>6. \A b \in Bands : ~Iced(k, b) /\ ~Dropped(k, b) /\ ~Iced(k, b)' /\ ~Dropped(k, b)'
  BY <1>1 DEF Iced, Dropped, freezeVars
<1>7. residue' \in {residue, residue \cup {k}} /\ (Clean(k)' => Clean(k))
  BY <1>3, <1>5 DEF Discovery, Clean
<1>8. RulesOf(k)'
  <2>1. SettledRules(k) => SettledRules(k)'
    BY <1>1, <1>6 DEF SettledRules
  <2> QED
    BY <1>5, <1>7, <2>1 DEF RulesOf
<1>9. /\ DOMAIN found \subseteq Dests(k)
      /\ found # <<>> => DOMAIN found # {}
  BY <1>4, DiscoverType DEF Typed
<1>10. ASSUME Clean(k)'
       PROVE  /\ nodeBands'[k] = found /\ DOMAIN found = Dests(k)
              /\ \A m \in DOMAIN found : /\ found[m].band = Band(k, m)
                                         /\ Alike(found[m].delay, Delay(k, m))
  <2>1. SettledRules(k)
    BY <1>5, <1>7, <1>10 DEF RulesOf
  <2>2. found = Discover(k, Dests(k))
    BY <1>3, <1>10 DEF Discovery, Clean
  <2>3. /\ DOMAIN found = Dests(k)
        /\ \A m \in DOMAIN found : /\ found[m].band = Band(k, m)
                                   /\ Alike(found[m].delay, Delay(k, m))
    BY <1>4, <1>6, <2>1, <2>2, DiscoverSettled DEF Typed
  <2>4. found # <<>>
    BY <1>4, <2>3
  <2> QED
    BY <1>3, <2>3, <2>4 DEF Typed, TypeOK
<1>11. BandsOf(k)'
  <2>1. DOMAIN nodeBands'[k] \subseteq Dests(k)
    BY <1>3, <1>5, <1>9 DEF BandsOf, Typed, TypeOK
  <2> QED
    BY <1>1, <1>5, <1>10, <2>1 DEF BandsOf
<1>12. Served(k)'
  BY <1>1, <1>2, <1>5, <1>10 DEF Served, Clean
<1>13. \A n \in Nodes \ {k} :
          tc'[n] = tc[n] /\ nodeBands'[n] = nodeBands[n] /\ (n \in residue' <=> n \in residue)
  BY <1>1, <1>3, <1>7 DEF Typed, TypeOK
<1> QED
  BY <1>1, <1>2, <1>8, <1>11, <1>12, <1>13, ApplyFrame DEF Applying
LEMMA AddNetemStep ==
  ASSUME Typed, IInv, AddNetem
  PROVE  IInv'
<1>1. /\ mpc = "netem" /\ band <= NumBands(Node) /\ fpc = "idle"
      /\ UNCHANGED <<at, configured, nodeBands, freezeVars>>
  BY DEF AddNetem, Typed, FreezeAt
<1>2. PICK k \in Nodes : k = Node
  BY <1>1, NodeType DEF Typed, ManagerAt
<1>3. PICK b \in 2 .. NumBands(k) : b = band /\ b \in Bands
  BY <1>1, <1>2, BandTypes DEF Typed, ManagerAt
<1>4. PICK d \in Nat : d = BandDelay(k, b) /\ d > 0
  BY <1>3, BandTypes
<1> DEFINE rules == [tc[k] EXCEPT !.netem[b] = d]
           accepted == b \in 1 .. tc[k].root /\ tc[k].netem[b] = 0
<1>5. PICK ok \in BOOLEAN :
        /\ Exec(k, accepted, rules, ok)
        /\ \/ ok /\ mpc' = "filter" /\ todo' = InBand(k, b) /\ band' = b
           \/ ~ok /\ mpc' = "netem" /\ todo' = todo /\ band' = b + 1
  BY <1>1, <1>2, <1>3, <1>4 DEF AddNetem, QdiscAddNetem
<1>6. tc[k] \in Rules
  BY DEF Typed, TypeOK
<1>7. /\ rules.root = tc[k].root /\ rules.route = tc[k].route
      /\ \A c \in Bands : rules.netem[c] = IF c = b THEN d ELSE tc[k].netem[c]
  <2>1. PICK r \in Rules : r = tc[k]
    BY <1>6
  <2>2. rules = [r EXCEPT !.netem[b] = d]
    BY <2>1
  <2> HIDE DEF rules
  <2> QED
    BY <1>3, <2>1, <2>2, NetemRules
<1> HIDE DEF rules, accepted
<1>8. /\ \A n \in Nodes \ {k} : tc'[n] = tc[n] /\ (n \in residue' <=> n \in residue)
      /\ residue \subseteq residue'
      /\ tc'[k] = tc[k] \/ tc'[k] = rules
      /\ k \notin residue' => /\ ok => accepted /\ tc'[k] = rules
                              /\ ~ok => ~accepted /\ tc'[k] = tc[k]
  BY <1>5, ExecEffect DEF Typed
<1>9. /\ Ruled(k) /\ Ruled(k)' /\ Building(k) /\ ~Temporary(k) /\ ~Temporary(k)'
      /\ RulesOf(k) /\ BandsOf(k) /\ (Clean(k)' => Clean(k))
  <2>1. Building(k) /\ RulesOf(k) /\ BandsOf(k)
    BY <1>1, <1>2 DEF Building, IInv, NodesInv
  <2> QED
    BY <1>1, <1>7, <1>8, <2>1 DEF Ruled, Clean, Temporary, freezeVars, RulesOf
<1>10. ASSUME Clean(k)'
       PROVE  BuiltRules(k) /\ ok /\ tc'[k] = rules
  <2>1. BuiltRules(k)
    BY <1>9, <1>10 DEF RulesOf
  <2>2. ~HasNetem(b)
    BY <1>1, <1>3 DEF HasNetem
  <2>3. tc[k].root = NumBands(k) /\ tc[k].netem[b] = 0
    BY <1>3, <2>1, <2>2 DEF BuiltRules
  <2>4. accepted
    BY <1>3, <2>3 DEF accepted
  <2> QED
    BY <1>8, <1>10, <2>1, <2>4 DEF Clean
<1>11. ASSUME Clean(k)'
       PROVE  BuiltRules(k)'
  <2>1. BuiltRules(k) /\ tc'[k] = rules /\ mpc' = "filter" /\ todo' = InBand(k, b) /\ band' = b
    BY <1>5, <1>10, <1>11
  <2>2. \A m \in Dests(k) : Routed(k, m)' <=> Routed(k, m)
    <3>1. \A m \in Dests(k) : Band(k, m) = b => m \in InBand(k, b)
      BY <1>3, BandTypes
    <3> QED
      BY <1>1, <1>3, <2>1, <3>1 DEF Routed
  <2>3. \A c \in Bands : HasNetem(c)' <=> HasNetem(c) \/ c = b
    BY <1>1, <1>3, <2>1 DEF HasNetem
  <2>4. \A c \in Bands : tc'[k].netem[c] =
          IF c \in 2 .. NumBands(k) /\ HasNetem(c)' THEN BandDelay(k, c) ELSE 0
    BY <1>3, <1>4, <1>7, <2>1, <2>3 DEF BuiltRules
  <2> QED
    BY <1>1, <1>7, <2>1, <2>2, <2>4 DEF BuiltRules
<1>12. RulesOf(k)'
  <2>1. mpc' \in {"netem", "filter"} /\ Node' = Node
    BY <1>1, <1>5 DEF Node
  <2> QED
    BY <1>2, <1>9, <1>10, <1>11, <2>1 DEF RulesOf, Building, BuiltRules, Routed
<1>13. BandsOf(k)'
  BY <1>1, <1>5, <1>9 DEF BandsOf
<1>14. Served(k) => Served(k)'
  BY <1>1, <1>8, <1>9 DEF Served
<1>15. mpc' \in Applying
  BY <1>5 DEF Applying
<1> QED
  BY <1>1, <1>2, <1>8, <1>12, <1>13, <1>14, <1>15, ApplyFrame

LEMMA EndNodeStep ==
  ASSUME Typed, IInv, EndNode
  PROVE  IInv'
<1>1. /\ mpc = "netem" /\ band > NumBands(Node) /\ fpc = "idle"
      /\ mpc' = "node" /\ at' = at + 1 /\ configured' = configured \cup {Node}
      /\ UNCHANGED <<tc, todo, nodeBands, freezeVars, residue>>
  BY DEF EndNode, NextNode, Typed, FreezeAt
<1>2. PICK k \in Nodes : k = Node
  BY <1>1, NodeType DEF Typed, ManagerAt
<1>3. band = NumBands(k) + 1 /\ NumBands(k) \in Nat
  BY <1>1, <1>2, BandTypes DEF Typed, ManagerAt
<1>4. /\ Ruled(k) /\ (Ruled(k)' <=> Ruled(k)) /\ Building(k) /\ ~Building(k)'
      /\ ~Temporary(k) /\ ~Temporary(k)'
      /\ RulesOf(k) /\ BandsOf(k) /\ (Clean(k)' <=> Clean(k))
  <2>1. Building(k) /\ RulesOf(k) /\ BandsOf(k)
    BY <1>1, <1>2 DEF Building, IInv, NodesInv
  <2> QED
    BY <1>1, <2>1 DEF Ruled, Clean, Temporary, freezeVars, RulesOf, Building
<1>5. ASSUME Clean(k)
      PROVE  SettledRules(k)' /\ DOMAIN nodeBands[k] = Dests(k)
  <2>1. BuiltRules(k)
    BY <1>4, <1>5 DEF RulesOf
  <2>2. \A m \in Dests(k) : Routed(k, m)
    BY <1>3, BandTypes DEF Routed
  <2>3. \A b \in 2 .. NumBands(k) : HasNetem(b) /\ Alike(BandDelay(k, b), BandDelay(k, b))
    BY <1>3 DEF HasNetem, Alike
  <2>4. \A b \in Bands : ~Iced(k, b)' /\ ~Dropped(k, b)'
    BY <1>1 DEF Iced, Dropped, freezeVars
  <2> QED
    BY <1>1, <2>1, <2>2, <2>3, <2>4 DEF BuiltRules, SettledRules
<1>6. RulesOf(k)'
  BY <1>4, <1>5 DEF RulesOf
<1>7. BandsOf(k)'
  BY <1>1, <1>4 DEF BandsOf
<1>8. Served(k)'
  BY <1>1, <1>2, <1>4, <1>5 DEF Served, Clean
<1> QED
  BY <1>1, <1>2, <1>6, <1>7, <1>8, ApplyFrame DEF Applying
LEMMA AddFilterStep ==
  ASSUME Typed, IInv, AddFilter
  PROVE  IInv'
<1>1. /\ mpc = "filter" /\ AddFilterTo(First(todo), todo \ {First(todo)}) /\ fpc = "idle"
      /\ UNCHANGED <<at, configured, freezeVars>>
  BY DEF AddFilter, AddFilterTo, Typed, FreezeAt
<1>2. PICK k \in Nodes : k = Node
  BY <1>1, NodeType DEF Typed, ManagerAt
<1>3. PICK b \in 2 .. NumBands(k) : b = band /\ b \in Bands
  BY <1>1, <1>2, BandTypes DEF Typed, ManagerAt
<1>4. PICK addr \in Nodes : addr = First(todo) /\ addr \in Dests(k) /\ addr \in todo /\ Band(k, addr) = b
  <2>1. First(todo) \in todo /\ First(todo) \in InBand(k, b)
    BY <1>1, <1>2, <1>3, FirstIn DEF Typed, TypeOK, ManagerAt
  <2> QED
    BY <2>1, BandTypes
<1> DEFINE rules == [tc[k] EXCEPT !.route[addr] = b]
           accepted == tc[k].root > 0
           entry == [band |-> b, delay |-> BandDelay(k, b)]
<1>5. PICK ok \in BOOLEAN : Exec(k, accepted, rules, ok)
  BY <1>1, <1>2, <1>3, <1>4 DEF AddFilterTo, FilterAdd
<1>6. /\ nodeBands' = [nodeBands EXCEPT ![k] = With(nodeBands[k], addr, entry)]
      /\ todo' = todo \ {addr}
      /\ \/ todo' = {} /\ mpc' = "netem" /\ band' = b + 1
         \/ mpc' = "filter" /\ band' = b
  BY <1>1, <1>2, <1>3, <1>4 DEF AddFilterTo
<1>7. /\ rules.root = tc[k].root /\ rules.netem = tc[k].netem
      /\ \A x \in Nodes : rules.route[x] = IF x = addr THEN b ELSE tc[k].route[x]
  <2>1. PICK r \in Rules : r = tc[k]
    BY DEF Typed, TypeOK
  <2>2. rules = [r EXCEPT !.route[addr] = b]
    BY <2>1
  <2>3. b \in Bands /\ addr \in Nodes
    BY <1>3, <1>4
  <2>4. PICK s : s = rules
    OBVIOUS
  <2>5. s = [r EXCEPT !.route[addr] = b]
    BY <2>2, <2>4
  <2> HIDE DEF rules
  <2>6. /\ s.root = r.root /\ s.netem = r.netem
        /\ \A x \in Nodes : s.route[x] = IF x = addr THEN b ELSE r.route[x]
    BY <2>3, <2>5 DEF Rules
  <2> QED
    BY <2>1, <2>4, <2>6
<1> HIDE DEF rules, accepted, entry
<1>8. /\ \A n \in Nodes \ {k} : tc'[n] = tc[n] /\ (n \in residue' <=> n \in residue)
      /\ residue \subseteq residue'
      /\ tc'[k] = tc[k] \/ tc'[k] = rules
      /\ k \notin residue' => /\ ok => accepted /\ tc'[k] = rules
                              /\ ~ok => ~accepted /\ tc'[k] = tc[k]
  BY <1>5, ExecEffect DEF Typed
<1>9. /\ Ruled(k) /\ Ruled(k)' /\ Building(k) /\ ~Temporary(k) /\ ~Temporary(k)'
      /\ RulesOf(k) /\ BandsOf(k) /\ (Clean(k)' => Clean(k))
  <2>1. Building(k) /\ RulesOf(k) /\ BandsOf(k)
    BY <1>1, <1>2 DEF Building, IInv, NodesInv
  <2> QED
    BY <1>1, <1>7, <1>8, <2>1 DEF Ruled, Clean, Temporary, freezeVars, RulesOf
<1>10. ASSUME Clean(k)'
       PROVE  tc'[k] = rules
  <2>1. accepted
    BY <1>9 DEF accepted, Ruled, Typed, TypeOK, Rules
  <2> QED
    BY <1>8, <1>10, <2>1 DEF Clean
<1>11. /\ DOMAIN nodeBands'[k] = DOMAIN nodeBands[k] \cup {addr}
       /\ nodeBands'[k][addr] = entry
       /\ \A x \in DOMAIN nodeBands[k] \ {addr} : nodeBands'[k][x] = nodeBands[k][x]
  <2>1. nodeBands'[k] = With(nodeBands[k], addr, entry)
    BY <1>6 DEF Typed, TypeOK
  <2> QED
    BY <2>1 DEF With
<1>12. ~Routed(k, addr)
  BY <1>1, <1>3, <1>4 DEF Routed
<1>13. ASSUME Clean(k)'
       PROVE  BuiltRules(k)'
  <2>1. BuiltRules(k)
    BY <1>9, <1>13 DEF RulesOf
  <2>2. \A x \in Dests(k) : Routed(k, x)' <=> Routed(k, x) \/ x = addr
    <3>1. \A x \in Dests(k) : Band(k, x) \in Nat /\ band \in Nat
      BY <1>3, BandTypes
    <3>2. \A x \in Dests(k) : Routed(k, x) <=> Band(k, x) < b \/ (Band(k, x) = b /\ x \notin todo)
      BY <1>1, <1>3 DEF Routed
    <3>3. CASE todo' = {} /\ mpc' = "netem" /\ band' = b + 1
      <4>1. \A x \in Dests(k) : Routed(k, x)' <=> Band(k, x) < b + 1
        BY <3>3 DEF Routed
      <4>2. todo = {addr}
        BY <1>4, <1>6, <3>3
      <4> QED
        BY <1>3, <1>4, <3>1, <3>2, <4>1, <4>2
    <3>4. CASE mpc' = "filter" /\ band' = b
      <4>1. \A x \in Dests(k) : Routed(k, x)' <=>
              Band(k, x) < b \/ (Band(k, x) = b /\ x \notin todo \ {addr})
        BY <1>6, <3>4 DEF Routed
      <4> QED
        BY <1>3, <1>4, <3>1, <3>2, <4>1
    <3> QED
      BY <1>6, <3>3, <3>4
  <2>3. \A c \in 2 .. NumBands(k) : HasNetem(c)' <=> HasNetem(c)
    BY <1>1, <1>3, <1>6 DEF HasNetem
  <2>4. tc'[k] = rules
    BY <1>10, <1>13
  <2>5. \A x \in Nodes : tc'[k].route[x] =
          IF x \in Dests(k) /\ Routed(k, x)' THEN Band(k, x) ELSE 1
    BY <1>4, <1>7, <2>1, <2>2, <2>4 DEF BuiltRules
  <2>6. \A c \in Bands : tc'[k].netem[c] =
          IF c \in 2 .. NumBands(k) /\ HasNetem(c)' THEN BandDelay(k, c) ELSE 0
    BY <1>7, <2>1, <2>3, <2>4 DEF BuiltRules
  <2>7. DOMAIN nodeBands'[k] = {x \in Dests(k) : Routed(k, x)'}
    BY <1>4, <1>11, <2>1, <2>2 DEF BuiltRules
  <2>8. tc'[k].root = NumBands(k)
    BY <1>7, <2>1, <2>4 DEF BuiltRules
  <2> HIDE DEF Routed, HasNetem
  <2> QED
    BY <2>5, <2>6, <2>7, <2>8 DEF BuiltRules
<1>14. RulesOf(k)'
  <2>1. Building(k)' /\ Dests(k) # {}
    BY <1>1, <1>2, <1>4, <1>6 DEF Building, Node
  <2> QED
    BY <1>9, <1>13, <2>1 DEF RulesOf
<1>15. BandsOf(k)'
  <2>1. DOMAIN nodeBands'[k] \subseteq Dests(k)
    BY <1>4, <1>9, <1>11 DEF BandsOf
  <2>2. entry.band = Band(k, addr) /\ Alike(entry.delay, Delay(k, addr))
    BY <1>4, BandTypes DEF entry, Alike
  <2>3. Clean(k)' => \A x \in DOMAIN nodeBands'[k] :
          nodeBands'[k][x].band = Band(k, x) /\ Alike(nodeBands'[k][x].delay, Delay(k, x))
    BY <1>9, <1>11, <2>2 DEF BandsOf
  <2> QED
    BY <1>6, <1>9, <2>1, <2>3 DEF BandsOf
<1>16. Served(k) => Served(k)'
  <2>1. Clean(k) => addr \notin DOMAIN nodeBands[k]
    BY <1>9, <1>12 DEF RulesOf, BuiltRules
  <2>2. Served(k) => k \in configured /\ k \in residue
    BY <1>4, <1>9, <2>1 DEF Served, Clean
  <2> QED
    BY <1>1, <1>8, <2>2 DEF Served
<1>17. mpc' \in Applying
  BY <1>6 DEF Applying
<1>18. \A n \in Nodes \ {k} : nodeBands'[n] = nodeBands[n]
  BY <1>6 DEF Typed, TypeOK
<1> QED
  BY <1>1, <1>2, <1>8, <1>14, <1>15, <1>16, <1>17, <1>18, ApplyFrame

LEMMA ApplyStep ==
  ASSUME Typed, IInv, Apply
  PROVE  IInv'
BY BeginApplyStep, EndApplyStep, AddRootStep, RecoverBandsStep, GiveUpNodeStep, AddNetemStep,
   AddFilterStep, EndNodeStep DEF Apply
-----------------------------------------------------------------------------
(* remove(), and the next run                                              *)

LEMMA BeginRemoveStep ==
  ASSUME Typed, IInv, NEW force \in BOOLEAN, BeginRemove(force)
  PROVE  IInv'
<1>1. /\ mpc \in {"new", "applied", "raised"} /\ mpc' = "removing" /\ todo' = configured'
      /\ configured' = Nodes \/ (mpc = "applied" /\ configured' = configured)
      /\ UNCHANGED <<tc, at, band, nodeBands, freezeVars, residue>>
  BY DEF BeginRemove
<1>2. at > Count => mpc = "applied"
  <2>1. at \in Nat /\ Count \in Nat /\ Count >= 1
    BY AllNodesType DEF Typed, TypeOK
  <2> QED
    BY <1>1, <2>1 DEF Typed, ManagerAt
<1>3. ASSUME NEW n \in Nodes
      PROVE  /\ RulesOf(n)' /\ BandsOf(n)'
             /\ Clean(n)' <=> Clean(n)
             /\ Temporary(n)' <=> Temporary(n)
  <2>1. ~Building(n) /\ ~Building(n)' /\ RulesOf(n) /\ BandsOf(n)
    BY <1>1 DEF Building, IInv, NodesInv
  <2>2. /\ Ruled(n)' <=> Ruled(n)
        /\ Clean(n)' <=> Clean(n)
        /\ Temporary(n)' <=> Temporary(n)
    BY <1>1 DEF Ruled, Clean, Temporary, freezeVars
  <2>3. /\ SettledRules(n) => SettledRules(n)'
        /\ TemporaryRules(n) => TemporaryRules(n)'
    BY <1>1 DEF SettledRules, TemporaryRules, Iced, Dropped, freezeVars
  <2>4. RulesOf(n)'
    BY <1>1, <2>1, <2>2, <2>3 DEF RulesOf
  <2>5. BandsOf(n)'
    BY <1>1, <1>2, <2>1, <2>2 DEF BandsOf, Applying
  <2> QED
    BY <2>2, <2>4, <2>5
<1>4. FreezeInv'
  BY <1>1 DEF FreezeInv, freezeVars, IInv, Clean, Ruled
<1>5. Visited'
  BY <1>1 DEF Visited, Applying
<1>6. Leftover'
  <2> SUFFICES ASSUME NEW n \in Nodes, Clean(n)', ~Temporary(n)'
               PROVE  n \in configured'
    BY <1>1 DEF Leftover
  <2>1. CASE configured' = Nodes
    BY <2>1
  <2>2. CASE mpc = "applied" /\ configured' = configured
    <3>1. PICK i \in 1 .. Count : AllNodes[i] = n
      BY AllNodesType
    <3>2. i \in 1 .. at - 1
      BY <2>2, AllNodesType DEF Typed, TypeOK, ManagerAt, Count
    <3>3. Served(n)
      BY <2>2, <3>1, <3>2 DEF IInv, Visited
    <3>4. Dests(n) # {}
      BY <1>3 DEF IInv, NodesInv, RulesOf
    <3> QED
      BY <2>2, <3>3, <3>4 DEF Served
  <2> QED
    BY <1>1, <2>1, <2>2
<1> QED
  BY <1>3, <1>4, <1>5, <1>6 DEF IInv, NodesInv

LEMMA RemoveNodeStep ==
  ASSUME Typed, IInv, RemoveNode
  PROVE  IInv'
<1>1. /\ mpc = "removing"
      /\ UNCHANGED <<mpc, at, band, configured, nodeBands, freezeVars>>
  BY DEF RemoveNode
<1>2. PICK k \in todo :
        /\ \/ /\ tc[k].root > 0
              /\ tc' = [tc EXCEPT ![k] = NoRules]
              /\ residue' = residue \ {k}
           \/ QdiscDelRoot(k, FALSE)
        /\ todo' = todo \ {k}
  BY DEF RemoveNode
<1>3. k \in Nodes /\ tc[k] \in Rules
  BY DEF Typed, TypeOK
<1>4. /\ \A n \in Nodes \ {k} : tc'[n] = tc[n] /\ (n \in residue' <=> n \in residue)
      /\ tc'[k] = tc[k] \/ tc'[k] = NoRules
      /\ k \notin residue' => tc'[k] = NoRules \/ (~(tc[k].root > 0) /\ tc'[k] = tc[k])
  <2>1. CASE tc' = [tc EXCEPT ![k] = NoRules] /\ residue' = residue \ {k}
    BY <1>3, <2>1 DEF Typed, TypeOK
  <2>2. CASE QdiscDelRoot(k, FALSE)
    BY <1>3, <2>2, ExecEffect DEF QdiscDelRoot, Typed
  <2> QED
    BY <1>2, <2>1, <2>2
<1>5. ~Clean(k)' /\ (~Ruled(k)' => tc'[k] = NoRules)
  BY <1>3, <1>4, NoRulesType DEF Clean, Ruled, Rules, IInv, NodesInv, RulesOf
<1>6. ASSUME NEW n \in Nodes
      PROVE  /\ RulesOf(n)' /\ BandsOf(n)'
             /\ Clean(n)' => Clean(n) /\ n # k
             /\ Temporary(n)' <=> Temporary(n)
  <2>1. ~Building(n) /\ ~Building(n)' /\ RulesOf(n) /\ BandsOf(n)
    BY <1>1 DEF Building, IInv, NodesInv
  <2>2. Temporary(n)' <=> Temporary(n)
    BY <1>1 DEF Temporary, freezeVars
  <2>3. CASE n # k
    <3>1. /\ Ruled(n)' <=> Ruled(n)
          /\ Clean(n)' <=> Clean(n)
          /\ tc'[n] = tc[n]
      BY <1>4, <2>3 DEF Ruled, Clean
    <3>2. /\ SettledRules(n) => SettledRules(n)'
          /\ TemporaryRules(n) => TemporaryRules(n)'
      BY <1>1, <3>1 DEF SettledRules, TemporaryRules, Iced, Dropped, freezeVars
    <3>3. RulesOf(n)'
      BY <2>1, <2>2, <3>1, <3>2 DEF RulesOf
    <3>4. BandsOf(n)'
      BY <1>1, <2>1, <2>2, <3>1 DEF BandsOf
    <3> QED
      BY <2>2, <2>3, <3>1, <3>3, <3>4
  <2>4. CASE n = k
    <3>1. RulesOf(n)'
      BY <1>5, <2>1, <2>4 DEF RulesOf
    <3>2. BandsOf(n)'
      BY <1>1, <1>5, <2>1, <2>4 DEF BandsOf, Applying
    <3> QED
      BY <1>5, <2>2, <2>4, <3>1, <3>2
  <2> QED
    BY <2>3, <2>4
<1>7. FreezeInv'
  <2>1. Clean(fnode)' => Clean(fnode)
    <3>1. PICK n \in Nodes : n = fnode
      BY DEF Typed, TypeOK
    <3> QED
      BY <1>1, <1>6, <3>1 DEF freezeVars, Clean, Ruled
  <2> QED
    BY <1>1, <2>1 DEF FreezeInv, freezeVars, IInv
<1>8. Visited'
  BY <1>1 DEF Visited, Applying
<1>9. Leftover'
  BY <1>1, <1>2, <1>6 DEF Leftover, IInv
<1> QED
  BY <1>6, <1>7, <1>8, <1>9 DEF IInv, NodesInv

LEMMA EndRemoveStep ==
  ASSUME Typed, IInv, EndRemove
  PROVE  IInv'
<1>1. /\ mpc = "removing" /\ todo = {} /\ mpc' = "removed"
      /\ \A n \in Nodes : DOMAIN nodeBands'[n] = {}
      /\ UNCHANGED <<tc, at, band, todo, freezeVars, residue>>
  BY DEF EndRemove
<1>2. ASSUME NEW n \in Nodes
      PROVE  RulesOf(n)' /\ BandsOf(n)' /\ ~(Clean(n)' /\ ~Temporary(n)')
  <2>1. ~Building(n) /\ ~Building(n)' /\ RulesOf(n)
    BY <1>1 DEF Building, IInv, NodesInv
  <2>2. /\ Ruled(n)' <=> Ruled(n)
        /\ Clean(n)' <=> Clean(n)
        /\ Temporary(n)' <=> Temporary(n)
    BY <1>1 DEF Ruled, Clean, Temporary, freezeVars
  <2>3. /\ SettledRules(n) => SettledRules(n)'
        /\ TemporaryRules(n) => TemporaryRules(n)'
    BY <1>1 DEF SettledRules, TemporaryRules, Iced, Dropped, freezeVars
  <2>4. RulesOf(n)'
    BY <1>1, <2>1, <2>2, <2>3 DEF RulesOf
  <2>5. ~(Clean(n)' /\ ~Temporary(n)')
    BY <1>1, <2>2 DEF IInv, Leftover
  <2>6. BandsOf(n)'
    BY <1>1, <2>5 DEF BandsOf
  <2> QED
    BY <2>4, <2>5, <2>6
<1>3. FreezeInv'
  BY <1>1 DEF FreezeInv, freezeVars, IInv, Clean, Ruled
<1>4. Visited' /\ Leftover'
  BY <1>1, <1>2 DEF Visited, Leftover, Applying
<1> QED
  BY <1>2, <1>3, <1>4 DEF IInv, NodesInv

LEMMA RestartStep ==
  ASSUME Typed, IInv, Restart
  PROVE  IInv'
<1>1. /\ mpc' = "new" /\ fpc' = "idle" /\ UNCHANGED tc
      /\ \A n \in Nodes : DOMAIN nodeBands'[n] = {}
      /\ residue' = residue \cup (IF mpc \in {"netem", "filter"} THEN {Node} ELSE {})
                            \cup (IF Freezing THEN {fnode} ELSE {})
  BY DEF Restart
<1>2. ASSUME NEW n \in Nodes
      PROVE  RulesOf(n)' /\ BandsOf(n)'
  <2>1. /\ ~Building(n)' /\ ~Temporary(n)' /\ (Ruled(n)' <=> Ruled(n)) /\ RulesOf(n)
    BY <1>1 DEF Building, Temporary, Ruled, IInv, NodesInv
  <2>2. ASSUME Clean(n)'
        PROVE  Dests(n) # {} /\ SettledRules(n)'
    <3>1. Clean(n) /\ ~Building(n) /\ ~(Freezing /\ n = fnode)
      BY <1>1, <2>1, <2>2 DEF Clean, Building
    <3>2. ~Temporary(n) /\ \A b \in Bands : ~Iced(n, b) /\ ~Dropped(n, b)
      BY <3>1 DEF Freezing, Temporary, Iced, Dropped
    <3>3. Dests(n) # {} /\ SettledRules(n)
      BY <2>1, <3>1, <3>2 DEF RulesOf
    <3>4. \A b \in Bands : ~Iced(n, b)' /\ ~Dropped(n, b)'
      BY <1>1 DEF Iced, Dropped
    <3> QED
      BY <1>1, <3>2, <3>3, <3>4 DEF SettledRules
  <2>3. RulesOf(n)'
    BY <1>1, <2>1, <2>2 DEF RulesOf
  <2>4. BandsOf(n)'
    BY <1>1 DEF BandsOf
  <2> QED
    BY <2>3, <2>4
<1>3. FreezeInv' /\ Visited' /\ Leftover'
  BY <1>1 DEF FreezeInv, Visited, Leftover, Applying
<1> QED
  BY <1>2, <1>3 DEF IInv, NodesInv
-----------------------------------------------------------------------------
(* The freeze                                                              *)

\* What the steps of a freeze on node k have in common.
LEMMA FreezeFrame ==
  ASSUME Typed, IInv, NEW k \in Nodes, k = fnode, fpc # "idle",
         UNCHANGED <<managerVars, fnode, targets>>,
         \A n \in Nodes \ {k} : tc'[n] = tc[n] /\ (n \in residue' <=> n \in residue),
         residue \subseteq residue', RulesOf(k)', FreezeInv',
         Clean(k)' /\ ~Temporary(k)' => Clean(k) /\ ~Temporary(k),
         k \notin residue' /\ Ruled(k) /\ ~Temporary(k) => Ruled(k)' /\ ~Temporary(k)'
  PROVE  IInv'
<1>1. mpc \in {"applied", "removing", "removed"}
  BY DEF Typed, FreezeAt
<1>2. ASSUME NEW n \in Nodes
      PROVE  /\ RulesOf(n)' /\ BandsOf(n)'
             /\ Clean(n)' /\ ~Temporary(n)' => Clean(n) /\ ~Temporary(n)
             /\ Served(n) => Served(n)'
  <2>1. ~Building(n) /\ ~Building(n)' /\ RulesOf(n) /\ BandsOf(n)
    BY <1>1 DEF Building, managerVars, IInv, NodesInv
  <2>2. CASE n # k
    <3>1. /\ Ruled(n)' <=> Ruled(n)
          /\ Clean(n)' <=> Clean(n)
          /\ ~Temporary(n) /\ ~Temporary(n)' /\ tc'[n] = tc[n]
      BY <2>2 DEF Ruled, Clean, Temporary
    <3>2. \A b \in Bands : ~Iced(n, b) /\ ~Dropped(n, b) /\ ~Iced(n, b)' /\ ~Dropped(n, b)'
      BY <2>2 DEF Iced, Dropped
    <3>3. SettledRules(n) => SettledRules(n)'
      BY <3>1, <3>2 DEF SettledRules
    <3>4. RulesOf(n)'
      BY <2>1, <3>1, <3>3 DEF RulesOf
    <3>5. BandsOf(n)'
      BY <2>1, <3>1 DEF BandsOf, managerVars
    <3>6. Served(n) => Served(n)'
      BY <2>2, <3>1 DEF Served, managerVars
    <3> QED
      BY <3>1, <3>4, <3>5, <3>6
  <2>3. CASE n = k
    <3>1. BandsOf(n)'
      BY <1>1, <2>1, <2>3 DEF BandsOf, managerVars, Applying
    <3>2. Served(n) => Served(n)'
      BY <2>3 DEF Served, managerVars
    <3> QED
      BY <2>3, <3>1, <3>2
  <2> QED
    BY <2>2, <2>3
<1>3. Visited'
  <2> SUFFICES ASSUME mpc' = "applied", NEW i \in 1 .. at - 1
               PROVE  Served(AllNodes[i])'
    BY <1>1 DEF Visited, Applying, managerVars
  <2>1. PICK n \in Nodes : n = AllNodes[i]
    BY AllNodesType DEF Typed, TypeOK, Count
  <2>2. Served(n)
    BY <2>1 DEF IInv, Visited, managerVars
  <2>3. Served(n)'
    BY <1>2, <2>2
  <2> QED
    BY <2>1, <2>3
<1>4. Leftover'
  BY <1>2 DEF Leftover, IInv, managerVars
<1> QED
  BY <1>2, <1>3, <1>4 DEF IInv, NodesInv

\* A command that sets or removes the delay of a band.
LEMMA NetemCommand ==
  ASSUME Typed, IInv, NEW k \in Nodes, NEW b \in Bands, NEW d \in Nat, NEW accepted,
         NEW ok \in BOOLEAN, Exec(k, accepted, [tc[k] EXCEPT !.netem[b] = d], ok),
         accepted => Ruled(k)
  PROVE  /\ \A n \in Nodes \ {k} : tc'[n] = tc[n] /\ (n \in residue' <=> n \in residue)
         /\ residue \subseteq residue'
         /\ tc'[k].root = tc[k].root /\ tc'[k].route = tc[k].route
         /\ Ruled(k)' <=> Ruled(k)
         /\ ~Ruled(k)' => tc'[k] = NoRules
         /\ Clean(k)' => Clean(k)
         /\ Clean(k)' /\ accepted =>
              /\ ok /\ tc'[k].netem[b] = d
              /\ \A c \in Bands \ {b} : tc'[k].netem[c] = tc[k].netem[c]
<1> DEFINE rules == [tc[k] EXCEPT !.netem[b] = d]
<1>1. /\ rules.root = tc[k].root /\ rules.route = tc[k].route
      /\ \A c \in Bands : rules.netem[c] = IF c = b THEN d ELSE tc[k].netem[c]
  <2>1. PICK r \in Rules : r = tc[k]
    BY DEF Typed, TypeOK
  <2>2. rules = [r EXCEPT !.netem[b] = d]
    BY <2>1
  <2> HIDE DEF rules
  <2> QED
    BY <2>1, <2>2, NetemRules
<1>2. Exec(k, accepted, rules, ok)
  OBVIOUS
<1> HIDE DEF rules
<1>3. /\ \A n \in Nodes \ {k} : tc'[n] = tc[n] /\ (n \in residue' <=> n \in residue)
      /\ residue \subseteq residue'
      /\ tc'[k] = tc[k] \/ (accepted /\ tc'[k] = rules)
      /\ k \notin residue' => /\ ok => accepted /\ tc'[k] = rules
                              /\ ~ok => ~accepted /\ tc'[k] = tc[k]
  BY <1>2, ExecEffect DEF Typed
<1>4. tc'[k].root = tc[k].root /\ tc'[k].route = tc[k].route
  BY <1>1, <1>3
<1>5. (Ruled(k)' <=> Ruled(k)) /\ (Clean(k)' => Clean(k))
  BY <1>3, <1>4 DEF Ruled, Clean
<1>6. ~Ruled(k)' => tc'[k] = NoRules
  BY <1>3, <1>5 DEF IInv, NodesInv, RulesOf
<1>7. ASSUME Clean(k)', accepted
      PROVE  ok /\ tc'[k] = rules
  BY <1>3, <1>7 DEF Clean
<1> QED
  BY <1>1, <1>3, <1>4, <1>5, <1>6, <1>7

\* A freeze is at work on a node.
LEMMA FreezeNode ==
  ASSUME Typed, fpc # "idle"
  PROVE  \E k \in Nodes : k = fnode /\ ~Building(k)
BY DEF Typed, TypeOK, FreezeAt, Building

\* The bands of a freeze, on a node on which nothing has failed.
LEMMA FrozenBand ==
  ASSUME Typed, IInv, NEW k \in Nodes, k = fnode, Clean(k),
         fpc \in {"freeze", "drop", "restore"}
  PROVE  \E b \in 2 .. NumBands(k) :
           /\ b = Lowest(ftodo) /\ b \in ftodo /\ b \in DOMAIN frozen /\ b \in Bands
           /\ frozen[b] \in Nat /\ Alike(frozen[b], BandDelay(k, b))
           /\ BandDelay(k, b) \in Nat /\ BandDelay(k, b) > 0
           /\ ~temp /\ ~Temporary(k) /\ ~Building(k) /\ SettledRules(k) /\ Dests(k) # {}
<1>1. /\ ftodo # {} /\ ftodo \subseteq DOMAIN frozen /\ ftodo \subseteq Bands /\ ~temp
      /\ \A b \in DOMAIN frozen : frozen[b] \in Nat
  BY DEF Typed, FreezeAt, TypeOK
<1>2. Lowest(ftodo) \in ftodo
  BY <1>1, LowestIn
<1>3. \A b \in DOMAIN frozen : b \in 2 .. NumBands(k) /\ Alike(frozen[b], BandDelay(k, b))
  BY <1>1 DEF IInv, FreezeInv
<1>4. ~Temporary(k) /\ ~Building(k)
  BY DEF Temporary, Building, Typed, FreezeAt
<1>5. SettledRules(k) /\ Dests(k) # {}
  BY <1>4 DEF IInv, NodesInv, RulesOf
<1> QED
  BY <1>1, <1>2, <1>3, <1>4, <1>5, BandTypes
\* The band that a freeze is at.
LEMMA BandAt ==
  ASSUME Typed, fpc \in {"freeze", "drop", "restore"}
  PROVE  \E b \in Bands : /\ b = Lowest(ftodo) /\ b \in ftodo /\ b \in DOMAIN frozen
                          /\ frozen[b] \in Nat /\ ~temp
<1>1. ftodo # {} /\ ftodo \subseteq DOMAIN frozen /\ ftodo \subseteq Bands /\ ~temp
  BY DEF Typed, FreezeAt, TypeOK
<1>2. Lowest(ftodo) \in ftodo
  BY <1>1, LowestIn
<1> QED
  BY <1>1, <1>2 DEF Typed, TypeOK

LEMMA FreezeBandStep ==
  ASSUME Typed, IInv, FreezeBand
  PROVE  IInv'
<1>1. fpc = "freeze" /\ UNCHANGED <<managerVars, fnode, targets, frozen, temp>>
  BY DEF FreezeBand, FreezeFirst
<1>2. PICK k \in Nodes : k = fnode /\ ~Building(k)
  BY <1>1, FreezeNode
<1>3. PICK b \in Bands : b = Lowest(ftodo) /\ b \in ftodo /\ b \in DOMAIN frozen /\ ~temp
  BY <1>1, BandAt
<1>4. /\ ftodo' = ftodo \ {b}
      /\ \/ ftodo' = {} /\ fpc' = "kill"
         \/ fpc' = "freeze"
  BY <1>1, <1>3 DEF FreezeBand, FreezeFirst
<1> DEFINE accepted == tc[k].netem[b] > 0
<1>5. PICK ok \in BOOLEAN : Exec(k, accepted, [tc[k] EXCEPT !.netem[b] = FreezeDelay], ok)
  BY <1>2, <1>3 DEF FreezeBand, FreezeFirst, QdiscChange
<1>6. FreezeDelay \in Nat /\ FreezeDelay > 0
  BY ConstantsAssumption
<1>7. accepted => Ruled(k)
  BY <1>2, <1>3, NoRulesType DEF IInv, NodesInv, RulesOf
<1> HIDE DEF accepted
<1>8. /\ \A n \in Nodes \ {k} : tc'[n] = tc[n] /\ (n \in residue' <=> n \in residue)
      /\ residue \subseteq residue'
      /\ tc'[k].root = tc[k].root /\ tc'[k].route = tc[k].route
      /\ Ruled(k)' <=> Ruled(k)
      /\ ~Ruled(k)' => tc'[k] = NoRules
      /\ Clean(k)' => Clean(k)
      /\ Clean(k)' /\ accepted =>
           /\ ok /\ tc'[k].netem[b] = FreezeDelay
           /\ \A c \in Bands \ {b} : tc'[k].netem[c] = tc[k].netem[c]
  BY <1>5, <1>6, <1>7, NetemCommand
<1>9. ~Temporary(k) /\ ~Temporary(k)' /\ ~Building(k)'
  BY <1>1, <1>2, <1>3, <1>4 DEF Temporary, Building, managerVars, Node
<1>10. ASSUME Clean(k)'
       PROVE  SettledRules(k)' /\ Dests(k) # {}
  <2>1. Clean(k)
    BY <1>8, <1>10
  <2>2. /\ b \in 2 .. NumBands(k) /\ BandDelay(k, b) \in Nat /\ BandDelay(k, b) > 0
        /\ SettledRules(k) /\ Dests(k) # {}
    BY <1>1, <1>2, <1>3, <2>1, FrozenBand
  <2>3. \A c \in Bands : ~Dropped(k, c) /\ ~Dropped(k, c)'
    BY <1>1, <1>4 DEF Dropped
  <2>4. \A c \in Bands : Iced(k, c)' <=> Iced(k, c) \/ c = b
    BY <1>1, <1>2, <1>3, <1>4 DEF Iced
  <2>5. ~Iced(k, b)
    BY <1>1, <1>3 DEF Iced
  <2>6. tc[k].netem[b] > 0
    BY <1>3, <2>2, <2>3, <2>5, AlikeFacts DEF SettledRules
  <2>7. /\ tc'[k].netem[b] = FreezeDelay
        /\ \A c \in Bands \ {b} : tc'[k].netem[c] = tc[k].netem[c]
    BY <1>8, <1>10, <2>6 DEF accepted
  <2> QED
    BY <1>8, <2>2, <2>3, <2>4, <2>7 DEF SettledRules
<1>11. RulesOf(k)'
  BY <1>8, <1>9, <1>10 DEF RulesOf, Clean
<1>12. FreezeInv'
  <2>1. Clean(fnode)' => Clean(k)
    BY <1>1, <1>2, <1>8 DEF Clean, Ruled
  <2> QED
    BY <1>1, <1>2, <2>1 DEF FreezeInv, IInv
<1> QED
  BY <1>1, <1>2, <1>8, <1>9, <1>11, <1>12, FreezeFrame

LEMMA DropBandStep ==
  ASSUME Typed, IInv, DropBand
  PROVE  IInv'
<1>1. /\ fpc = "drop" /\ fpc' = "restore"
      /\ UNCHANGED <<managerVars, fnode, targets, frozen, ftodo, temp>>
  BY DEF DropBand
<1>2. PICK k \in Nodes : k = fnode /\ ~Building(k)
  BY <1>1, FreezeNode
<1>3. PICK b \in Bands : b = Lowest(ftodo) /\ b \in ftodo /\ b \in DOMAIN frozen /\ ~temp
  BY <1>1, BandAt
<1> DEFINE accepted == tc[k].netem[b] > 0
<1>4. PICK ok \in BOOLEAN : Exec(k, accepted, [tc[k] EXCEPT !.netem[b] = 0], ok)
  BY <1>2, <1>3 DEF DropBand, QdiscDelNetem
<1>5. accepted => Ruled(k)
  BY <1>2, <1>3, NoRulesType DEF IInv, NodesInv, RulesOf
<1>6. 0 \in Nat
  OBVIOUS
<1> HIDE DEF accepted
<1>7. /\ \A n \in Nodes \ {k} : tc'[n] = tc[n] /\ (n \in residue' <=> n \in residue)
      /\ residue \subseteq residue'
      /\ tc'[k].root = tc[k].root /\ tc'[k].route = tc[k].route
      /\ Ruled(k)' <=> Ruled(k)
      /\ ~Ruled(k)' => tc'[k] = NoRules
      /\ Clean(k)' => Clean(k)
      /\ Clean(k)' /\ accepted =>
           /\ ok /\ tc'[k].netem[b] = 0
           /\ \A c \in Bands \ {b} : tc'[k].netem[c] = tc[k].netem[c]
  BY <1>4, <1>5, <1>6, NetemCommand
<1>8. ~Temporary(k) /\ ~Temporary(k)' /\ ~Building(k)'
  BY <1>1, <1>2, <1>3 DEF Temporary, Building, managerVars, Node
<1>9. ASSUME Clean(k)'
      PROVE  SettledRules(k)' /\ Dests(k) # {}
  <2>1. Clean(k)
    BY <1>7, <1>9
  <2>2. b \in 2 .. NumBands(k) /\ SettledRules(k) /\ Dests(k) # {}
    BY <1>1, <1>2, <1>3, <2>1, FrozenBand
  <2>3. \A c \in Bands : ~Dropped(k, c) /\ (Dropped(k, c)' <=> c = b)
    BY <1>1, <1>2, <1>3 DEF Dropped
  <2>4. \A c \in Bands : Iced(k, c)' <=> Iced(k, c) /\ c # b
    BY <1>1, <1>3 DEF Iced
  <2>5. Iced(k, b)
    BY <1>1, <1>2, <1>3 DEF Iced
  <2>6. tc[k].netem[b] > 0
    BY <1>3, <2>2, <2>5, ConstantsAssumption DEF SettledRules
  <2>7. /\ tc'[k].netem[b] = 0
        /\ \A c \in Bands \ {b} : tc'[k].netem[c] = tc[k].netem[c]
    BY <1>7, <1>9, <2>6 DEF accepted
  <2> QED
    BY <1>7, <2>2, <2>3, <2>4, <2>7 DEF SettledRules
<1>10. RulesOf(k)'
  BY <1>7, <1>8, <1>9 DEF RulesOf, Clean
<1>11. FreezeInv'
  <2>1. Clean(fnode)' => Clean(k)
    BY <1>1, <1>2, <1>7 DEF Clean, Ruled
  <2> QED
    BY <1>1, <1>2, <2>1 DEF FreezeInv, IInv
<1> QED
  BY <1>1, <1>2, <1>7, <1>8, <1>10, <1>11, FreezeFrame

LEMMA RestoreBandStep ==
  ASSUME Typed, IInv, RestoreBand
  PROVE  IInv'
<1>1. /\ fpc = "restore"
      /\ UNCHANGED <<managerVars, fnode, targets, frozen, temp>>
  BY DEF RestoreBand, RestoreAs
<1>2. PICK k \in Nodes : k = fnode /\ ~Building(k)
  BY <1>1, FreezeNode
<1>3. PICK b \in Bands : /\ b = Lowest(ftodo) /\ b \in ftodo /\ b \in DOMAIN frozen
                         /\ frozen[b] \in Nat /\ ~temp
  BY <1>1, BandAt
<1>4. /\ ftodo' = ftodo \ {b}
      /\ \/ ftodo' = {} /\ fpc' = "done"
         \/ fpc' = "drop"
  BY <1>1, <1>3 DEF RestoreBand, RestoreAs
<1>5. PICK d \in Nat : d = frozen[b]
  BY <1>3
<1> DEFINE accepted == b \in 1 .. tc[k].root /\ tc[k].netem[b] = 0
<1>6. PICK ok \in BOOLEAN : Exec(k, accepted, [tc[k] EXCEPT !.netem[b] = d], ok)
  BY <1>2, <1>3, <1>5 DEF RestoreBand, RestoreAs, QdiscAddNetem
<1>7. accepted => Ruled(k)
  BY <1>3, NoRulesType DEF Ruled, Bands
<1> HIDE DEF accepted
<1>8. /\ \A n \in Nodes \ {k} : tc'[n] = tc[n] /\ (n \in residue' <=> n \in residue)
      /\ residue \subseteq residue'
      /\ tc'[k].root = tc[k].root /\ tc'[k].route = tc[k].route
      /\ Ruled(k)' <=> Ruled(k)
      /\ ~Ruled(k)' => tc'[k] = NoRules
      /\ Clean(k)' => Clean(k)
      /\ Clean(k)' /\ accepted =>
           /\ ok /\ tc'[k].netem[b] = d
           /\ \A c \in Bands \ {b} : tc'[k].netem[c] = tc[k].netem[c]
  BY <1>6, <1>7, NetemCommand
<1>9. ~Temporary(k) /\ ~Temporary(k)' /\ ~Building(k)'
  BY <1>1, <1>2, <1>3, <1>4 DEF Temporary, Building, managerVars, Node
<1>10. ASSUME Clean(k)'
       PROVE  SettledRules(k)' /\ Dests(k) # {}
  <2>1. Clean(k)
    BY <1>8, <1>10
  <2>2. /\ b \in 2 .. NumBands(k) /\ Alike(d, BandDelay(k, b))
        /\ SettledRules(k) /\ Dests(k) # {}
    BY <1>1, <1>2, <1>3, <1>5, <2>1, FrozenBand
  <2>3. \A c \in Bands : (Dropped(k, c) <=> c = b) /\ ~Dropped(k, c)'
    BY <1>1, <1>2, <1>3, <1>4 DEF Dropped
  <2>4. \A c \in Bands : Iced(k, c)' <=> Iced(k, c)
    BY <1>1, <1>2, <1>3, <1>4 DEF Iced
  <2>5. tc[k].netem[b] = 0 /\ b \in 1 .. tc[k].root /\ ~Iced(k, b)
    BY <1>1, <1>3, <2>2, <2>3 DEF SettledRules, Iced
  <2>6. /\ tc'[k].netem[b] = d
        /\ \A c \in Bands \ {b} : tc'[k].netem[c] = tc[k].netem[c]
    BY <1>8, <1>10, <2>5 DEF accepted
  <2> QED
    BY <1>8, <2>2, <2>3, <2>4, <2>5, <2>6 DEF SettledRules
<1>11. RulesOf(k)'
  BY <1>8, <1>9, <1>10 DEF RulesOf, Clean
<1>12. FreezeInv'
  <2>1. Clean(fnode)' => Clean(k)
    BY <1>1, <1>2, <1>8 DEF Clean, Ruled
  <2> QED
    BY <1>1, <1>2, <2>1 DEF FreezeInv, IInv
<1> QED
  BY <1>1, <1>2, <1>8, <1>9, <1>11, <1>12, FreezeFrame
LEMMA KillStep ==
  ASSUME Typed, IInv, Kill
  PROVE  IInv'
<1>1. /\ fpc = "kill" /\ ftodo' = DOMAIN frozen
      /\ fpc' = IF frozen # <<>> THEN "drop" ELSE IF temp THEN "remove_temp" ELSE "done"
      /\ UNCHANGED <<tc, managerVars, fnode, targets, frozen, temp, residue>>
  BY DEF Kill
<1>2. PICK k \in Nodes : k = fnode /\ ~Building(k)
  BY <1>1, FreezeNode
<1>3. /\ frozen # <<>> => ~temp
      /\ frozen = <<>> => DOMAIN frozen = {}
  BY <1>1 DEF Typed, FreezeAt
<1>4. /\ Ruled(k)' <=> Ruled(k)
      /\ Clean(k)' <=> Clean(k)
      /\ Temporary(k)' <=> Temporary(k)
      /\ ~Building(k)' /\ RulesOf(k)
  BY <1>1, <1>2, <1>3 DEF Ruled, Clean, Temporary, Building, managerVars, Node, IInv, NodesInv
<1>5. SettledRules(k) => SettledRules(k)'
  <2>1. \A c \in Bands : ~Dropped(k, c) /\ ~Dropped(k, c)' /\ (Iced(k, c)' <=> Iced(k, c))
    BY <1>1, <1>3 DEF Dropped, Iced
  <2> QED
    BY <1>1, <2>1 DEF SettledRules
<1>6. Temporary(k) /\ TemporaryRules(k) => TemporaryRules(k)'
  BY <1>1 DEF TemporaryRules
<1>7. RulesOf(k)'
  BY <1>1, <1>2, <1>4, <1>5, <1>6 DEF RulesOf
<1>8. FreezeInv'
  BY <1>1 DEF FreezeInv, IInv, Clean, Ruled
<1> QED
  BY <1>1, <1>2, <1>4, <1>7, <1>8, FreezeFrame

LEMMA KillRaisesStep ==
  ASSUME Typed, IInv, KillRaises
  PROVE  IInv'
<1>1. /\ fpc = "kill" /\ fpc' = "idle"
      /\ residue' = IF frozen # <<>> \/ temp THEN residue \cup {fnode} ELSE residue
      /\ UNCHANGED <<tc, managerVars, fnode, targets>>
  BY DEF KillRaises
<1>2. PICK k \in Nodes : k = fnode /\ ~Building(k)
  BY <1>1, FreezeNode
<1>3. /\ Ruled(k)' <=> Ruled(k)
      /\ Clean(k)' => Clean(k) /\ frozen = <<>> /\ ~temp
      /\ k \notin residue' => frozen = <<>> /\ ~temp
      /\ ~Temporary(k)' /\ ~Building(k)' /\ RulesOf(k)
  BY <1>1, <1>2 DEF Ruled, Clean, Temporary, Building, managerVars, Node, IInv, NodesInv
<1>4. ~temp => ~Temporary(k)
  BY <1>1 DEF Temporary
<1>5. frozen = <<>> /\ SettledRules(k) => SettledRules(k)'
  <2>1. \A c \in Bands : /\ ~Dropped(k, c) /\ ~Dropped(k, c)' /\ ~Iced(k, c)'
                         /\ frozen = <<>> => ~Iced(k, c)
    BY <1>1 DEF Dropped, Iced
  <2> QED
    BY <1>1, <2>1 DEF SettledRules
<1>6. RulesOf(k)'
  BY <1>1, <1>2, <1>3, <1>4, <1>5 DEF RulesOf
<1>7. FreezeInv'
  BY <1>1 DEF FreezeInv
<1>8. \A n \in Nodes \ {k} : tc'[n] = tc[n] /\ (n \in residue' <=> n \in residue)
  BY <1>1, <1>2
<1> QED
  BY <1>1, <1>2, <1>3, <1>4, <1>6, <1>7, <1>8, FreezeFrame

LEMMA TempRootStep ==
  ASSUME Typed, IInv, TempRoot
  PROVE  IInv'
<1>1. /\ fpc = "temp_root" /\ frozen = <<>> /\ ~temp
      /\ UNCHANGED <<managerVars, fnode, targets, frozen, ftodo, temp>>
  BY DEF TempRoot, Typed, FreezeAt
<1>2. PICK k \in Nodes : k = fnode /\ ~Building(k)
  BY <1>1, FreezeNode
<1>3. PICK ok \in BOOLEAN : /\ Exec(k, tc[k].root = 0, BareRoot(2), ok)
                            /\ fpc' = IF ok THEN "temp_netem" ELSE "kill"
  BY <1>2 DEF TempRoot, QdiscAddRoot
<1>4. /\ \A n \in Nodes \ {k} : tc'[n] = tc[n] /\ (n \in residue' <=> n \in residue)
      /\ residue \subseteq residue'
      /\ tc'[k] = tc[k] \/ (tc[k].root = 0 /\ tc'[k] = BareRoot(2))
      /\ k \notin residue' => /\ ok => tc[k].root = 0 /\ tc'[k] = BareRoot(2)
                              /\ ~ok => tc[k].root # 0 /\ tc'[k] = tc[k]
      /\ ok => tc'[k] = BareRoot(2)
  <2> DEFINE accepted == tc[k].root = 0
             rules    == BareRoot(2)
  <2>1. Exec(k, accepted, rules, ok)
    BY <1>3
  <2> HIDE DEF accepted, rules
  <2>2. /\ \A n \in Nodes \ {k} : tc'[n] = tc[n] /\ (n \in residue' <=> n \in residue)
        /\ residue \subseteq residue'
        /\ tc'[k] = tc[k] \/ (accepted /\ tc'[k] = rules)
        /\ k \notin residue' => /\ ok => accepted /\ tc'[k] = rules
                                /\ ~ok => ~accepted /\ tc'[k] = tc[k]
        /\ ok => tc'[k] = rules
    BY <2>1, ExecEffect DEF Typed
  <2> QED
    BY <2>2 DEF accepted, rules
<1>5. /\ BareRoot(2).root = 2
      /\ \A b \in Bands : BareRoot(2).netem[b] = 0
      /\ \A m \in Nodes : BareRoot(2).route[m] = 1
  <2>1. 2 \in 0 .. Count + 1
    BY AllNodesType
  <2> QED
    BY <2>1, BareType
<1>6. /\ ~Temporary(k) /\ (Temporary(k)' <=> ok) /\ ~Building(k)'
      /\ RulesOf(k)
  BY <1>1, <1>2, <1>3 DEF Temporary, Building, managerVars, Node, IInv, NodesInv
<1>7. ~Ruled(k)' => tc'[k] = NoRules
  BY <1>4, <1>5, <1>6 DEF Ruled, RulesOf
<1>8. ASSUME Clean(k)', ok
      PROVE  TemporaryRules(k)'
  <2>1. tc'[k] = BareRoot(2)
    BY <1>4, <1>8
  <2> QED
    BY <1>1, <1>5, <2>1 DEF TemporaryRules
<1>9. ASSUME Clean(k)', ~ok
      PROVE  Clean(k) /\ SettledRules(k)' /\ Dests(k) # {}
  <2>1. tc'[k] = tc[k] /\ Clean(k)
    BY <1>4, <1>9 DEF Clean, Ruled
  <2>2. SettledRules(k) /\ Dests(k) # {}
    BY <1>2, <1>6, <2>1 DEF RulesOf
  <2>3. \A c \in Bands : ~Dropped(k, c) /\ ~Dropped(k, c)' /\ ~Iced(k, c) /\ ~Iced(k, c)'
    BY <1>1, <1>3, <1>9 DEF Dropped, Iced
  <2> QED
    BY <2>1, <2>2, <2>3 DEF SettledRules
<1>10. RulesOf(k)'
  BY <1>6, <1>7, <1>8, <1>9 DEF RulesOf, Clean
<1>11. FreezeInv'
  <2>1. Clean(fnode)' /\ ~ok => Clean(fnode)
    BY <1>1, <1>2, <1>9 DEF Clean, Ruled
  <2> QED
    BY <1>1, <1>3, <2>1 DEF FreezeInv, IInv
<1>12. k \notin residue' /\ Ruled(k) => Ruled(k)' /\ ~ok
  BY <1>4 DEF Ruled
<1> QED
  BY <1>1, <1>2, <1>4, <1>6, <1>9, <1>10, <1>11, <1>12, FreezeFrame

LEMMA TempNetemStep ==
  ASSUME Typed, IInv, TempNetem
  PROVE  IInv'
<1>1. /\ fpc = "temp_netem" /\ ~temp /\ ftodo' = targets
      /\ UNCHANGED <<managerVars, fnode, targets, frozen>>
  BY DEF TempNetem, Typed, FreezeAt
<1>2. PICK k \in Nodes : k = fnode /\ ~Building(k)
  BY <1>1, FreezeNode
<1> DEFINE accepted == 2 \in 1 .. tc[k].root /\ tc[k].netem[2] = 0
<1>3. PICK ok \in BOOLEAN :
        /\ Exec(k, accepted, [tc[k] EXCEPT !.netem[2] = FreezeDelay], ok)
        /\ temp' = ok
        /\ fpc' = IF ok THEN "temp_filter" ELSE "remove_temp"
  BY <1>2 DEF TempNetem, QdiscAddNetem
<1>4. FreezeDelay \in Nat /\ 2 \in Bands
  BY ConstantsAssumption, AllNodesType DEF Bands, Count
<1>5. accepted => Ruled(k)
  BY NoRulesType DEF Ruled
<1>6. ASSUME Clean(k)
      PROVE  TemporaryRules(k) /\ accepted
  <2>1. TemporaryRules(k)
    BY <1>1, <1>2, <1>6 DEF IInv, NodesInv, RulesOf, Temporary
  <2> QED
    BY <1>1, <1>4, <2>1 DEF TemporaryRules
<1> HIDE DEF accepted
<1>7. /\ \A n \in Nodes \ {k} : tc'[n] = tc[n] /\ (n \in residue' <=> n \in residue)
      /\ residue \subseteq residue'
      /\ tc'[k].root = tc[k].root /\ tc'[k].route = tc[k].route
      /\ Ruled(k)' <=> Ruled(k)
      /\ ~Ruled(k)' => tc'[k] = NoRules
      /\ Clean(k)' => Clean(k)
      /\ Clean(k)' /\ accepted =>
           /\ ok /\ tc'[k].netem[2] = FreezeDelay
           /\ \A c \in Bands \ {2} : tc'[k].netem[c] = tc[k].netem[c]
  BY <1>3, <1>4, <1>5, NetemCommand
<1>8. Temporary(k) /\ Temporary(k)' /\ ~Building(k)'
  BY <1>1, <1>2, <1>3 DEF Temporary, Building, managerVars, Node
<1>9. Clean(k)' => TemporaryRules(k)'
  <2> SUFFICES ASSUME Clean(k)'
               PROVE  TemporaryRules(k)'
    OBVIOUS
  <2>1. TemporaryRules(k) /\ temp' = TRUE /\ fpc' = "temp_filter"
    BY <1>3, <1>6, <1>7
  <2>2. /\ tc'[k].netem[2] = FreezeDelay
        /\ \A c \in Bands \ {2} : tc'[k].netem[c] = tc[k].netem[c]
    BY <1>6, <1>7
  <2> QED
    BY <1>1, <1>7, <2>1, <2>2 DEF TemporaryRules
<1>10. RulesOf(k)'
  BY <1>7, <1>8, <1>9 DEF RulesOf
<1>11. FreezeInv'
  BY <1>3 DEF FreezeInv
<1> QED
  BY <1>1, <1>2, <1>7, <1>8, <1>10, <1>11, FreezeFrame

LEMMA TempFilterStep ==
  ASSUME Typed, IInv, TempFilter
  PROVE  IInv'
<1>1. /\ fpc = "temp_filter" /\ temp /\ ftodo # {} /\ ftodo \subseteq targets
      /\ UNCHANGED <<managerVars, fnode, targets, frozen, temp>>
  BY DEF TempFilter, Typed, FreezeAt
<1>2. PICK k \in Nodes : k = fnode /\ ~Building(k)
  BY <1>1, FreezeNode
<1>3. PICK addr \in Nodes : addr = First(ftodo) /\ addr \in ftodo
  BY <1>1, FirstIn DEF Typed, TypeOK
<1>4. /\ ftodo' = ftodo \ {addr}
      /\ fpc' = IF ftodo' = {} THEN "kill" ELSE "temp_filter"
  BY <1>1, <1>3 DEF TempFilter
<1> DEFINE rules == [tc[k] EXCEPT !.route[addr] = 2]
<1>5. PICK ok \in BOOLEAN : Exec(k, tc[k].root > 0, rules, ok)
  BY <1>2, <1>3 DEF TempFilter, FilterAdd
<1>6. /\ rules.root = tc[k].root /\ rules.netem = tc[k].netem
      /\ \A x \in Nodes : rules.route[x] = IF x = addr THEN 2 ELSE tc[k].route[x]
  <2>1. PICK r \in Rules : r = tc[k]
    BY DEF Typed, TypeOK
  <2>2. PICK s : s = rules
    OBVIOUS
  <2>3. s = [r EXCEPT !.route[addr] = 2]
    BY <2>1, <2>2
  <2> HIDE DEF rules
  <2>4. /\ s.root = r.root /\ s.netem = r.netem
        /\ \A x \in Nodes : s.route[x] = IF x = addr THEN 2 ELSE r.route[x]
    BY <2>3 DEF Rules
  <2> QED
    BY <2>1, <2>2, <2>4
<1> HIDE DEF rules
<1>7. /\ \A n \in Nodes \ {k} : tc'[n] = tc[n] /\ (n \in residue' <=> n \in residue)
      /\ residue \subseteq residue'
      /\ tc'[k] = tc[k] \/ (tc[k].root > 0 /\ tc'[k] = rules)
      /\ k \notin residue' => tc'[k] = rules \/ (~(tc[k].root > 0) /\ tc'[k] = tc[k])
  <2> DEFINE accepted == tc[k].root > 0
  <2>1. Exec(k, accepted, rules, ok)
    BY <1>5
  <2> HIDE DEF accepted
  <2>2. /\ \A n \in Nodes \ {k} : tc'[n] = tc[n] /\ (n \in residue' <=> n \in residue)
        /\ residue \subseteq residue'
        /\ tc'[k] = tc[k] \/ (accepted /\ tc'[k] = rules)
        /\ k \notin residue' => tc'[k] = rules \/ (~accepted /\ tc'[k] = tc[k])
    BY <2>1, ExecEffect DEF Typed
  <2> QED
    BY <2>2 DEF accepted
<1>8. Temporary(k) /\ Temporary(k)' /\ ~Building(k)'
  BY <1>1, <1>2, <1>4 DEF Temporary, Building, managerVars, Node
<1>9. tc[k].root \in Nat /\ RulesOf(k)
  BY DEF Typed, TypeOK, Rules, IInv, NodesInv
<1>10. (Ruled(k)' <=> Ruled(k)) /\ (Clean(k)' => Clean(k))
  BY <1>6, <1>7 DEF Ruled, Clean
<1>11. ~Ruled(k)' => tc'[k] = NoRules
  BY <1>7, <1>9, <1>10 DEF RulesOf, Ruled
<1>12. ASSUME Clean(k)'
       PROVE  TemporaryRules(k)'
  <2>1. TemporaryRules(k)
    BY <1>8, <1>9, <1>10, <1>12 DEF RulesOf
  <2>2. tc'[k] = rules
    BY <1>7, <1>12, <2>1 DEF Clean, TemporaryRules
  <2>3. \A x \in Nodes :
          /\ x \in targets /\ ~(fpc' = "temp_filter" /\ x \in ftodo')
               <=> x = addr \/ (x \in targets /\ x \notin ftodo)
    BY <1>1, <1>3, <1>4
  <2> QED
    BY <1>1, <1>6, <2>1, <2>2, <2>3 DEF TemporaryRules
<1>13. RulesOf(k)'
  BY <1>8, <1>11, <1>12 DEF RulesOf
<1>14. FreezeInv'
  BY <1>1, <1>4 DEF FreezeInv
<1> QED
  BY <1>1, <1>2, <1>7, <1>8, <1>13, <1>14, FreezeFrame

LEMMA RemoveTempStep ==
  ASSUME Typed, IInv, RemoveTemp
  PROVE  IInv'
<1>1. /\ fpc = "remove_temp" /\ fpc' \in {"done", "kill"}
      /\ UNCHANGED <<managerVars, fnode, targets>>
  BY DEF RemoveTemp
<1>2. PICK k \in Nodes : k = fnode /\ ~Building(k)
  BY <1>1, FreezeNode
<1>3. PICK ok \in BOOLEAN : Exec(k, tc[k].root > 0, NoRules, ok)
  BY <1>2 DEF RemoveTemp, QdiscDelRoot
<1>4. /\ \A n \in Nodes \ {k} : tc'[n] = tc[n] /\ (n \in residue' <=> n \in residue)
      /\ residue \subseteq residue'
      /\ tc'[k] = tc[k] \/ tc'[k] = NoRules
      /\ k \notin residue' => tc'[k] = NoRules \/ (~(tc[k].root > 0) /\ tc'[k] = tc[k])
  <2> DEFINE accepted == tc[k].root > 0
  <2>1. Exec(k, accepted, NoRules, ok)
    BY <1>3
  <2> HIDE DEF accepted
  <2>2. /\ \A n \in Nodes \ {k} : tc'[n] = tc[n] /\ (n \in residue' <=> n \in residue)
        /\ residue \subseteq residue'
        /\ tc'[k] = tc[k] \/ (accepted /\ tc'[k] = NoRules)
        /\ k \notin residue' => tc'[k] = NoRules \/ (~accepted /\ tc'[k] = tc[k])
    BY <2>1, ExecEffect DEF Typed
  <2> QED
    BY <2>2 DEF accepted
<1>5. tc[k].root \in Nat /\ RulesOf(k) /\ Temporary(k) /\ ~Building(k)'
  BY <1>1, <1>2 DEF Typed, TypeOK, Rules, IInv, NodesInv, Temporary, Building, managerVars, Node
<1>6. ~Clean(k)' /\ (~Ruled(k)' => tc'[k] = NoRules)
  BY <1>4, <1>5, NoRulesType DEF Clean, Ruled, RulesOf
<1>7. RulesOf(k)'
  BY <1>5, <1>6 DEF RulesOf
<1>8. FreezeInv'
  <2>1. ~Clean(fnode)'
    BY <1>1, <1>2, <1>6 DEF Clean, Ruled
  <2> QED
    BY <2>1 DEF FreezeInv
<1> QED
  BY <1>1, <1>2, <1>4, <1>5, <1>6, <1>7, <1>8, FreezeFrame
LEMMA BeginFreezeStep ==
  ASSUME Typed, IInv, NEW k \in Nodes, NEW T \in SUBSET Nodes, NEW found,
         NEW otherwise \in {"temp_root", "kill"}, BeginFreeze(k, T, found, otherwise),
         \A m \in DOMAIN found : found[m] \in BandInfo,
         \A n \in Nodes \ {k} : n \in residue' <=> n \in residue,
         residue \subseteq residue',
         Clean(k) /\ k \notin residue' =>
           /\ T \cap Dests(k) \subseteq DOMAIN found
           /\ \A m \in DOMAIN found : /\ m \in Dests(k) /\ found[m].band = Band(k, m)
                                      /\ Alike(found[m].delay, Delay(k, m))
  PROVE  IInv'
<1>1. /\ FrozenBands(found) \in [DOMAIN FrozenBands(found) -> Nat]
      /\ DOMAIN FrozenBands(found) = {found[m].band : m \in DOMAIN found}
      /\ found = <<>> => FrozenBands(found) = <<>>
      /\ \A b \in DOMAIN FrozenBands(found) :
           \E m \in DOMAIN found : found[m].band = b /\ FrozenBands(found)[b] = found[m].delay
  BY FrozenBandsType
<1>2. /\ fpc \in {"idle", "done"} /\ fnode' = k /\ targets' = T /\ temp' = FALSE
      /\ frozen' = FrozenBands(found) /\ ftodo' = DOMAIN frozen'
      /\ fpc' = IF found = <<>> THEN otherwise ELSE "freeze"
      /\ at > Count /\ mpc # "node"
      /\ UNCHANGED <<tc, managerVars>>
  BY DEF BeginFreeze, Freezing, Available, Count
<1> HIDE DEF BeginFreeze
<1>3. mpc \in {"applied", "removing", "removed"}
  BY <1>2, AllNodesType DEF Typed, ManagerAt, TypeOK, Applying
<1>4. /\ fpc' \in {"temp_root", "kill", "freeze"}
      /\ fpc' = "kill" => DOMAIN frozen' = {}
  <2>1. fpc' = "kill" => frozen' = <<>>
    BY <1>1, <1>2
  <2> QED
    BY <1>2, <2>1
<1>5. ASSUME NEW n \in Nodes
      PROVE  /\ RulesOf(n)' /\ BandsOf(n)'
             /\ ~Temporary(n) /\ (Clean(n)' => Clean(n))
             /\ Served(n) => Served(n)'
  <2>1. ~Building(n) /\ ~Building(n)' /\ RulesOf(n) /\ BandsOf(n)
    BY <1>2, <1>3 DEF Building, managerVars, IInv, NodesInv
  <2>2. /\ Ruled(n)' <=> Ruled(n)
        /\ Clean(n)' => Clean(n)
        /\ ~Temporary(n) /\ ~Temporary(n)'
    BY <1>2, <1>4 DEF Ruled, Clean, Temporary
  <2>3. \A b \in Bands : ~Iced(n, b) /\ ~Dropped(n, b) /\ ~Iced(n, b)' /\ ~Dropped(n, b)'
    BY <1>2, <1>4 DEF Iced, Dropped
  <2>4. SettledRules(n) => SettledRules(n)'
    BY <1>2, <2>3 DEF SettledRules
  <2>5. RulesOf(n)'
    BY <1>2, <2>1, <2>2, <2>4 DEF RulesOf
  <2>6. BandsOf(n)'
    BY <1>2, <2>1, <2>2 DEF BandsOf, managerVars
  <2>7. Served(n) => Served(n)'
    BY <1>2, <2>2 DEF Served, managerVars
  <2> QED
    BY <2>2, <2>5, <2>6, <2>7
<1>6. FreezeInv'
  <2> SUFFICES ASSUME Clean(fnode)'
               PROVE  /\ \A b \in DOMAIN frozen' : /\ b \in 2 .. NumBands(k)
                                                   /\ Alike(frozen'[b], BandDelay(k, b))
                      /\ \A m \in T \cap Dests(k) : Band(k, m) \in DOMAIN frozen'
    BY <1>2 DEF FreezeInv
  <2>1. Clean(k) /\ k \notin residue'
    BY <1>2, <1>5 DEF Clean, Ruled
  <2>2. /\ T \cap Dests(k) \subseteq DOMAIN found
        /\ \A m \in DOMAIN found : /\ m \in Dests(k) /\ found[m].band = Band(k, m)
                                   /\ Alike(found[m].delay, Delay(k, m))
    BY <2>1
  <2>3. \A b \in DOMAIN frozen' :
          \E m \in DOMAIN found : found[m].band = b /\ frozen'[b] = found[m].delay
    BY <1>1, <1>2
  <2>4. \A m \in DOMAIN found : found[m].band \in DOMAIN frozen'
    BY <1>1, <1>2
  <2> QED
    BY <2>2, <2>3, <2>4, BandTypes
<1>7. Visited'
  <2> SUFFICES ASSUME mpc' = "applied", NEW i \in 1 .. at - 1
               PROVE  Served(AllNodes[i])'
    BY <1>2, <1>3 DEF Visited, Applying, managerVars
  <2>1. PICK n \in Nodes : n = AllNodes[i]
    BY AllNodesType DEF Typed, TypeOK, Count
  <2>2. Served(n)
    BY <1>2, <2>1 DEF IInv, Visited, managerVars
  <2>3. Served(n)'
    BY <1>5, <2>2
  <2> QED
    BY <2>1, <2>3
<1>8. Leftover'
  BY <1>2, <1>5 DEF Leftover, IInv, managerVars
<1> QED
  BY <1>5, <1>6, <1>7, <1>8 DEF IInv, NodesInv

\* Nobody is at work on a node: its rules are settled.
LEMMA SettledNode ==
  ASSUME Typed, IInv, NEW n \in Nodes, Clean(n), ~(Freezing /\ n = fnode),
         mpc \in {"applied", "removing", "removed"}
  PROVE  /\ ~Temporary(n) /\ SettledRules(n) /\ Dests(n) # {}
         /\ \A b \in Bands : ~Iced(n, b) /\ ~Dropped(n, b)
<1>1. ~Temporary(n) /\ ~Building(n)
  BY DEF Freezing, Temporary, Building
<1>2. \A b \in Bands : ~Iced(n, b) /\ ~Dropped(n, b)
  BY DEF Freezing, Iced, Dropped
<1> QED
  BY <1>1, <1>2 DEF IInv, NodesInv, RulesOf

LEMMA FreezeLiveStep ==
  ASSUME Typed, IInv, NEW n \in Nodes, NEW T \in SUBSET Nodes, FreezeLive(n, T)
  PROVE  IInv'
<1>1. PICK found \in Discoveries(n, T) :
        Discovery(n, T, found) /\ BeginFreeze(n, T, found, "temp_root")
  BY DEF FreezeLive, Discovery, Discoveries
<1>2. \A m \in DOMAIN found : found[m] \in BandInfo
  BY DiscoverType DEF Typed
<1>3. ~Freezing /\ mpc \in {"applied", "removing", "removed"}
  BY <1>1, AllNodesType DEF BeginFreeze, Available, Typed, ManagerAt, TypeOK, Applying, Count
<1>4. residue' \in {residue, residue \cup {n}} /\ (n \notin residue' => found = Discover(n, T))
  BY <1>1 DEF Discovery
<1>5. ASSUME Clean(n), n \notin residue'
      PROVE  /\ T \cap Dests(n) \subseteq DOMAIN found
             /\ \A m \in DOMAIN found : /\ m \in Dests(n) /\ found[m].band = Band(n, m)
                                        /\ Alike(found[m].delay, Delay(n, m))
  <2>1. SettledRules(n) /\ \A b \in Bands : ~Iced(n, b) /\ ~Dropped(n, b)
    BY <1>3, <1>5, SettledNode
  <2>2. /\ DOMAIN Discover(n, T) = T \cap Dests(n)
        /\ \A m \in T \cap Dests(n) : /\ Discover(n, T)[m].band = Band(n, m)
                                      /\ Alike(Discover(n, T)[m].delay, Delay(n, m))
    BY <2>1, DiscoverSettled DEF Typed
  <2> QED
    BY <1>4, <1>5, <2>2
<1> QED
  BY <1>1, <1>2, <1>4, <1>5, BeginFreezeStep

LEMMA FreezeStoredStep ==
  ASSUME Typed, IInv, NEW n \in Nodes, NEW T \in SUBSET Nodes, FreezeStored(n, T)
  PROVE  IInv'
<1>1. BeginFreeze(n, T, Stored(n, T), "kill") /\ UNCHANGED residue
  BY DEF FreezeStored, Stored
<1>2. /\ DOMAIN Stored(n, T) = T \cap DOMAIN nodeBands[n]
      /\ \A m \in DOMAIN Stored(n, T) :
           Stored(n, T)[m] \in BandInfo /\ Stored(n, T)[m] = nodeBands[n][m]
  BY StoredType DEF Typed
<1>3. ~Freezing /\ at > Count /\ mpc \in {"applied", "removing", "removed"}
  BY <1>1, AllNodesType DEF BeginFreeze, Available, Typed, ManagerAt, TypeOK, Applying, Count
<1>4. ASSUME Clean(n)
      PROVE  /\ T \cap Dests(n) \subseteq DOMAIN Stored(n, T)
             /\ \A m \in DOMAIN Stored(n, T) :
                  /\ m \in Dests(n) /\ Stored(n, T)[m].band = Band(n, m)
                  /\ Alike(Stored(n, T)[m].delay, Delay(n, m))
  <2>1. ~Temporary(n)
    BY <1>3, <1>4, SettledNode
  <2>2. mpc # "removed"
    BY <1>4, <2>1 DEF IInv, Leftover
  <2>3. /\ DOMAIN nodeBands[n] = Dests(n)
        /\ \A m \in DOMAIN nodeBands[n] : /\ nodeBands[n][m].band = Band(n, m)
                                          /\ Alike(nodeBands[n][m].delay, Delay(n, m))
    BY <1>3, <1>4, <2>1, <2>2 DEF IInv, NodesInv, BandsOf
  <2> QED
    BY <1>2, <2>3
<1> HIDE DEF Stored
<1> QED
  BY <1>1, <1>2, <1>4, BeginFreezeStep

LEMMA Invariance == Spec => [](Typed /\ IInv)
<1>1. Typed /\ IInv /\ [Next]_vars => IInv'
  <2> SUFFICES ASSUME Typed, IInv, [Next]_vars
               PROVE  IInv'
    OBVIOUS
  <2>1. CASE UNCHANGED vars
    BY <2>1 DEF IInv, NodesInv, RulesOf, BandsOf, FreezeInv, Visited, Leftover, Ruled, Clean,
       Temporary, TemporaryRules, Building, HasNetem, Routed, BuiltRules, Iced, Dropped,
       SettledRules, Served, Node, vars, managerVars, freezeVars
  <2>2. CASE Remove
    BY <2>2, BeginRemoveStep, RemoveNodeStep, EndRemoveStep DEF Remove
  <2>3. CASE FreezeStep
    BY <2>3, FreezeBandStep, TempRootStep, TempNetemStep, TempFilterStep, KillStep,
       KillRaisesStep, DropBandStep, RestoreBandStep, RemoveTempStep DEF FreezeStep
  <2>4. CASE \E n \in Nodes, T \in SUBSET Nodes : FreezeLive(n, T) \/ FreezeStored(n, T)
    BY <2>4, FreezeLiveStep, FreezeStoredStep
  <2> QED
    BY <2>1, <2>2, <2>3, <2>4, ApplyStep, RestartStep DEF Next, Freeze
<1> QED
  BY <1>1, InitIInv, TypedInvariance, PTL DEF Spec
-----------------------------------------------------------------------------
(* What follows                                                            *)

\* What a node with settled rules does to what it sends to another node.
LEMMA SettledDelay ==
  ASSUME Typed, NEW n \in Nodes, NEW m \in Nodes, SettledRules(n)
  PROVE  /\ m \notin Dests(n) => Effective(n, m) = 0
         /\ m \in Dests(n) =>
              /\ tc[n].route[m] = Band(n, m)
              /\ Iced(n, Band(n, m)) => Effective(n, m) = FreezeDelay
              /\ Dropped(n, Band(n, m)) => Effective(n, m) = 0
              /\ ~Iced(n, Band(n, m)) /\ ~Dropped(n, Band(n, m)) =>
                   Alike(Effective(n, m), Delay(n, m))
<1>1. ASSUME m \notin Dests(n) PROVE Effective(n, m) = 0
  <2>1. tc[n].route[m] = 1 /\ 1 \in Bands /\ 1 \notin 2 .. NumBands(n)
    BY <1>1, AllNodesType DEF SettledRules, Bands, Count
  <2> QED
    BY <2>1 DEF Effective, SettledRules
<1>2. ASSUME m \in Dests(n)
      PROVE  /\ tc[n].route[m] = Band(n, m)
             /\ Iced(n, Band(n, m)) => Effective(n, m) = FreezeDelay
             /\ Dropped(n, Band(n, m)) => Effective(n, m) = 0
             /\ ~Iced(n, Band(n, m)) /\ ~Dropped(n, Band(n, m)) =>
                  Alike(Effective(n, m), Delay(n, m))
  <2>1. /\ Band(n, m) \in 2 .. NumBands(n) /\ Band(n, m) \in Bands
        /\ BandDelay(n, Band(n, m)) = Delay(n, m)
    BY <1>2, BandTypes
  <2>2. tc[n].route[m] = Band(n, m)
    BY <1>2 DEF SettledRules
  <2>3. Effective(n, m) = tc[n].netem[Band(n, m)]
    BY <2>2 DEF Effective
  <2> QED
    BY <2>1, <2>2, <2>3 DEF SettledRules
<1> QED
  BY <1>1, <1>2

\* A node without rules delays nothing.
LEMMA NoDelay ==
  ASSUME IInv, NEW n \in Nodes, ~Ruled(n)
  PROVE  tc[n] = NoRules /\ \A m \in Nodes : Effective(n, m) = 0
<1>1. tc[n] = NoRules
  BY DEF IInv, NodesInv, RulesOf
<1>2. 1 \in Bands
  BY AllNodesType DEF Bands, Count
<1> QED
  BY <1>1, <1>2, NoRulesType DEF Effective

\* A node that the freeze has given rules: all goes to the targets it has dealt
\* with, or to nobody.
LEMMA TemporaryDelay ==
  ASSUME Typed, NEW n \in Nodes, NEW m \in Nodes, TemporaryRules(n)
  PROVE  /\ Effective(n, m) \in {0, FreezeDelay}
         /\ temp /\ m \in targets /\ fpc # "temp_filter" => Effective(n, m) = FreezeDelay
<1>1. 1 \in Bands /\ 2 \in Bands
  BY AllNodesType DEF Bands, Count
<1> QED
  BY <1>1 DEF TemporaryRules, Effective

\* No traffic is delayed by what is not configured for it, at any time and
\* whatever rules an earlier or a dead process has left: _apply_node, the recovery
\* of its bands, and freeze_drop_restore_for_ips.
THEOREM Separation == Spec => []NoForeignDelay
<1>1. ASSUME Typed, IInv
      PROVE  NoForeignDelay
  <2> SUFFICES ASSUME NEW n \in Nodes \ residue, NEW m \in Nodes
               PROVE  \/ Effective(n, m) = 0
                      \/ m # n /\ Alike(Effective(n, m), Delay(n, m))
                      \/ Freezing /\ n = fnode /\ Alike(Effective(n, m), FreezeDelay)
    BY DEF NoForeignDelay
  <2>1. RulesOf(n)
    BY <1>1 DEF IInv, NodesInv
  <2>2. CASE ~Ruled(n)
    BY <1>1, <2>2, NoDelay
  <2>3. CASE Clean(n) /\ Temporary(n)
    <3>1. Effective(n, m) \in {0, FreezeDelay}
      BY <1>1, <2>1, <2>3, TemporaryDelay DEF RulesOf
    <3> QED
      BY <2>3, <3>1 DEF Temporary, Freezing, Alike
  <2>4. CASE Clean(n) /\ ~Temporary(n) /\ Building(n)
    <3>1. BuiltRules(n) /\ 1 \in Bands /\ 1 \notin 2 .. NumBands(n)
      BY <2>1, <2>4, AllNodesType DEF RulesOf, Bands, Count
    <3>2. CASE m \in Dests(n) /\ Routed(n, m)
      <4>1. /\ Band(n, m) \in 2 .. NumBands(n) /\ Band(n, m) \in Bands
            /\ BandDelay(n, Band(n, m)) = Delay(n, m) /\ m # n
        BY <3>2, BandTypes
      <4>2. HasNetem(Band(n, m))
        BY <3>2 DEF HasNetem, Routed
      <4> QED
        BY <3>1, <3>2, <4>1, <4>2 DEF BuiltRules, Effective, Alike
    <3>3. CASE ~(m \in Dests(n) /\ Routed(n, m))
      BY <3>1, <3>3 DEF BuiltRules, Effective
    <3> QED
      BY <3>2, <3>3
  <2>5. CASE Clean(n) /\ ~Temporary(n) /\ ~Building(n)
    <3>1. SettledRules(n)
      BY <2>1, <2>5 DEF RulesOf
    <3>2. \A b : Iced(n, b) => Freezing /\ n = fnode
      BY DEF Iced, Freezing
    <3>3. m \in Dests(n) => m # n
      BY DEF Dests
    <3> QED
      BY <1>1, <3>1, <3>2, <3>3, SettledDelay DEF Alike
  <2> QED
    BY <2>2, <2>3, <2>4, <2>5 DEF Clean
<1> QED
  BY <1>1, Invariance, PTL

\* While the process is killed, the targets are cut off, for any number of bands
\* and whether or not the node had rules: freeze_drop_restore_for_ips.
THEOREM Isolation == Spec => []KillIsolated
<1>1. ASSUME Typed, IInv
      PROVE  KillIsolated
  <2> SUFFICES ASSUME fpc = "kill", fnode \notin residue, tc[fnode].root > 0,
                      NEW m \in targets, Delay(fnode, m) > 0 \/ temp
               PROVE  Effective(fnode, m) = FreezeDelay
    BY DEF KillIsolated
  <2>1. PICK k \in Nodes : k = fnode /\ ~Building(k)
    BY <1>1, FreezeNode
  <2>2. m \in Nodes /\ m # k
    BY <1>1, <2>1 DEF Typed, TypeOK, FreezeAt, Freezing
  <2>3. Clean(k) /\ RulesOf(k)
    BY <1>1, <2>1 DEF Clean, Ruled, IInv, NodesInv
  <2>4. CASE temp
    <3>1. TemporaryRules(k)
      BY <2>1, <2>3, <2>4 DEF Temporary, RulesOf
    <3> QED
      BY <1>1, <2>1, <2>2, <2>4, <3>1, TemporaryDelay
  <2>5. CASE ~temp
    <3>1. SettledRules(k)
      BY <2>1, <2>3, <2>5 DEF Temporary, RulesOf
    <3>2. m \in Dests(k)
      BY <2>1, <2>2, <2>5 DEF Dests
    <3>3. Iced(k, Band(k, m))
      BY <1>1, <2>1, <2>3, <2>5, <3>2 DEF IInv, FreezeInv, Iced
    <3> QED
      BY <1>1, <2>1, <2>2, <3>1, <3>2, <3>3, SettledDelay
  <2> QED
    BY <2>4, <2>5
<1> QED
  BY <1>1, Invariance, PTL

\* When apply() has returned, each node delays what the configuration says, and
\* the manager knows its bands: apply, _apply_node, _restore_from_tc, and freezes
\* that have ended.
THEOREM Exactness == Spec => []ExactWhileClean
<1>1. ASSUME Typed, IInv
      PROVE  ExactWhileClean
  <2> SUFFICES ASSUME mpc = "applied", NEW n \in Nodes \ residue, ~(Freezing /\ n = fnode)
               PROVE  /\ \A m \in Nodes \ {n} : Alike(Effective(n, m), Delay(n, m))
                      /\ DOMAIN nodeBands[n] = Dests(n)
                      /\ \A m \in Dests(n) : /\ nodeBands[n][m].band = tc[n].route[m]
                                             /\ Alike(nodeBands[n][m].delay, Delay(n, m))
    BY DEF ExactWhileClean
  <2>1. BandsOf(n)
    BY <1>1 DEF IInv, NodesInv
  <2>2. at > Count
    BY <1>1 DEF Typed, ManagerAt
  <2>3. Served(n)
    <3>1. PICK i \in 1 .. Count : AllNodes[i] = n
      BY AllNodesType
    <3>2. i \in 1 .. at - 1
      BY <1>1, <2>2, AllNodesType DEF Typed, TypeOK
    <3> QED
      BY <1>1, <3>1, <3>2 DEF IInv, Visited
  <2>4. ASSUME NEW m \in Nodes \ {n}, m \notin Dests(n)
        PROVE  Delay(n, m) = 0 /\ Alike(0, Delay(n, m))
    BY <2>4, DelayType DEF Dests, Alike
  <2>5. CASE ~Ruled(n)
    <3>1. Dests(n) = {}
      BY <2>3, <2>5 DEF Served
    <3>2. \A m \in Nodes : Effective(n, m) = 0
      BY <1>1, <2>5, NoDelay
    <3> QED
      BY <2>1, <2>4, <3>1, <3>2 DEF BandsOf
  <2>6. CASE Ruled(n)
    <3>1. Clean(n)
      BY <2>6 DEF Clean
    <3>2. /\ ~Temporary(n) /\ SettledRules(n)
          /\ \A b \in Bands : ~Iced(n, b) /\ ~Dropped(n, b)
      BY <1>1, <3>1, SettledNode
    <3>3. \A m \in Dests(n) : m \in Nodes /\ Band(n, m) \in Bands
      BY BandTypes
    <3>4. \A m \in Nodes \ {n} : Alike(Effective(n, m), Delay(n, m))
      BY <1>1, <2>4, <3>2, <3>3, SettledDelay
    <3>5. \A m \in Dests(n) : tc[n].route[m] = Band(n, m)
      BY <1>1, <3>2, <3>3, SettledDelay
    <3> QED
      BY <2>1, <2>2, <3>1, <3>2, <3>4, <3>5 DEF BandsOf
  <2> QED
    BY <2>5, <2>6
<1> QED
  BY <1>1, Invariance, PTL

\* remove() leaves no rules behind, of whatever run: apply, remove.
THEOREM Cleanup == Spec => []NothingLeft
<1>1. ASSUME Typed, IInv
      PROVE  NothingLeft
  <2> SUFFICES ASSUME mpc = "removed", ~Freezing, NEW n \in Nodes \ residue
               PROVE  tc[n] = NoRules
    BY DEF NothingLeft
  <2>1. ~Clean(n)
    <3>1. ~Temporary(n)
      BY DEF Temporary, Freezing
    <3> QED
      BY <1>1, <3>1 DEF IInv, Leftover
  <2> QED
    BY <1>1, <2>1, NoDelay DEF Clean
<1> QED
  BY <1>1, Invariance, PTL
=============================================================================
