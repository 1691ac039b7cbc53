---------------------------- MODULE CheckerProofs ----------------------------
(***************************************************************************)
(* What one more event does to the sets of the checker.  The checker       *)
(* streams over the log, so these lemmas are its loop body.                *)
(***************************************************************************)
EXTENDS Checker, FiniteSetTheorems, TLAPS

\* The log has a last successful read if it has any.
HasLast(log) ==
  OkReads(log) # {} => \E i \in OkReads(log) : \A j \in OkReads(log) : j <= i

IsAdd(e, type) == e.action = "add" /\ e.type = type
IsOkRead(e)    == e.action = "read" /\ e.type = "ok"

\* An event joins the set of its type and no other.
LEMMA AddsOfAppend ==
  ASSUME NEW E, NEW log \in Seq(E), NEW e \in E, NEW type
  PROVE  AddsOf(Append(log, e), type)
           = AddsOf(log, type) \cup (IF IsAdd(e, type) THEN {e.value} ELSE {})
<1> DEFINE new == Append(log, e)
           Is(l, i) == l[i].action = "add" /\ l[i].type = type
<1>1. /\ DOMAIN new = DOMAIN log \cup {Len(log) + 1}
      /\ new[Len(log) + 1] = e
      /\ \A i \in DOMAIN log : new[i] = log[i]
      /\ Len(log) + 1 \notin DOMAIN log
  OBVIOUS
<1>2. AddsOf(new, type) \subseteq
        AddsOf(log, type) \cup (IF IsAdd(e, type) THEN {e.value} ELSE {})
  <2> SUFFICES ASSUME NEW i \in DOMAIN new, Is(new, i)
               PROVE  new[i].value \in
                        AddsOf(log, type) \cup (IF IsAdd(e, type) THEN {e.value} ELSE {})
    BY DEF AddsOf
  <2>1. CASE i \in DOMAIN log
    BY <1>1, <2>1 DEF AddsOf
  <2>2. CASE i = Len(log) + 1
    BY <1>1, <2>2 DEF IsAdd
  <2> QED
    BY <1>1, <2>1, <2>2
<1>3. AddsOf(log, type) \subseteq AddsOf(new, type)
  <2> SUFFICES ASSUME NEW i \in DOMAIN log, Is(log, i)
               PROVE  log[i].value \in AddsOf(new, type)
    BY DEF AddsOf
  <2> QED
    BY <1>1 DEF AddsOf
<1>4. IsAdd(e, type) => e.value \in AddsOf(new, type)
  BY <1>1 DEF AddsOf, IsAdd
<1> QED
  BY <1>2, <1>3, <1>4

\* A successful read becomes the last one; nothing else changes it.
LEMMA FinalReadAppend ==
  ASSUME NEW E, NEW log \in Seq(E), NEW e \in E, HasLast(log)
  PROVE  /\ HasLast(Append(log, e))
         /\ OkReads(Append(log, e)) # {} <=> OkReads(log) # {} \/ IsOkRead(e)
         /\ FinalRead(Append(log, e)) = IF IsOkRead(e) THEN e.values ELSE FinalRead(log)
<1> DEFINE new == Append(log, e)
           n == Len(log) + 1
<1>1. /\ DOMAIN new = DOMAIN log \cup {n}
      /\ DOMAIN log = 1 .. Len(log)
      /\ Len(log) \in Nat
      /\ new[n] = e
      /\ \A i \in DOMAIN log : new[i] = log[i]
      /\ n \notin DOMAIN log
  OBVIOUS
<1>2. OkReads(new) = OkReads(log) \cup (IF IsOkRead(e) THEN {n} ELSE {})
  BY <1>1 DEF OkReads, IsOkRead
<1>3. OkReads(log) \subseteq 1 .. Len(log)
  BY <1>1 DEF OkReads
<1>4. CASE IsOkRead(e)
  <2>1. n \in OkReads(new) /\ \A j \in OkReads(new) : j <= n
    BY <1>1, <1>2, <1>3, <1>4
  <2>2. LastOkRead(new) = n
    <3>1. /\ LastOkRead(new) \in OkReads(new)
          /\ \A j \in OkReads(new) : j <= LastOkRead(new)
      BY <2>1 DEF LastOkRead
    <3> QED
      BY <1>1, <1>2, <1>3, <2>1, <3>1
  <2> QED
    BY <1>1, <1>4, <2>1, <2>2 DEF FinalRead, HasLast
<1>5. CASE ~IsOkRead(e)
  <2>1. OkReads(new) = OkReads(log)
    BY <1>2, <1>5
  <2>2. LastOkRead(new) = LastOkRead(log)
    BY <2>1 DEF LastOkRead
  <2>3. OkReads(log) # {} => LastOkRead(log) \in OkReads(log)
    BY DEF HasLast, LastOkRead
  <2>4. FinalRead(new) = FinalRead(log)
    BY <1>1, <1>3, <2>1, <2>2, <2>3 DEF FinalRead
  <2> QED
    BY <1>5, <2>1, <2>4 DEF HasLast
<1> QED
  BY <1>4, <1>5

-----------------------------------------------------------------------------
(* The figures computed from timestamps.                                   *)

\* The first of finitely many timestamps is one of them and below all others,
\* and the last above (a fact about min and max).
LEMMA FirstAndLast ==
  ASSUME NEW lo, NEW hi, NEW times \in SUBSET Int, lo \in times, hi \in times,
         \A t \in times : lo <= t /\ t <= hi
  PROVE  First(times) = lo /\ Last(times) = hi
<1>1. First(times) \in times /\ \A u \in times : First(times) <= u
  BY DEF First
<1>2. Last(times) \in times /\ \A u \in times : Last(times) >= u
  BY DEF Last
<1>3. First(times) \in Int /\ First(times) <= lo /\ lo <= First(times)
  BY <1>1
<1>4. Last(times) \in Int /\ Last(times) >= hi /\ hi >= Last(times)
  BY <1>2
<1>5. lo \in Int /\ hi \in Int
  OBVIOUS
<1>6. First(times) = lo
  BY <1>3, <1>5
<1>7. Last(times) = hi
  BY <1>4, <1>5
<1> QED
  BY <1>6, <1>7

\* If the clock steps back between the last invocation and an answer, the
\* availability can exceed one: two writers are invoked at time 20, one is
\* answered, and the clock is back at 0 when the other is; there is one interval
\* and two are counted as available.  The docstring of
\* _compute_interval_availability promises a figure from 0 to 1.
THEOREM ClockStepExceedsOne ==
  WriteAvailability({20}, {0, 20}, 10) = [available |-> 2, total |-> 1]
<1>1. First({20}) = 20 /\ Last({20}) = 20
  <2>1. First({20}) \in {20} /\ Last({20}) \in {20}
    BY DEF First, Last
  <2> QED
    BY <2>1
<1>2. TotalIntervals({20}, 10) = 1
  BY <1>1 DEF TotalIntervals, RoundedUp
<1>3. IntervalOf(0, {20}, 10) = -2 /\ IntervalOf(20, {20}, 10) = 0
  BY <1>1, <1>2 DEF IntervalOf, Truncated
<1>4. AvailableIntervals({20}, {0, 20}, 10) = {-2, 0}
  BY <1>3 DEF AvailableIntervals
<1>5. Cardinality({-2, 0}) = 2
  <2>1. IsFiniteSet({-2}) /\ Cardinality({-2}) = 1
    BY FS_Singleton
  <2>2. 0 \notin {-2} /\ {-2} \cup {0} = {-2, 0}
    OBVIOUS
  <2>3. Cardinality({-2} \cup {0}) = 1 + 1
    BY <2>1, <2>2, FS_AddElement
  <2> QED
    BY <2>2, <2>3
<1> QED
  BY <1>2, <1>4, <1>5 DEF WriteAvailability

\* As long as no successful write is stamped before the first invocation, the
\* availability is at most one: every available interval is one of the total
\* (_compute_interval_availability).
THEOREM AvailabilityAtMostOne ==
  ASSUME NEW invokes \in SUBSET Int, NEW oks \in SUBSET Int, NEW length \in Nat \ {0},
         NEW lo \in invokes, NEW hi \in invokes,
         \A t \in invokes : lo <= t /\ t <= hi,
         \A t \in oks : lo <= t
  PROVE  LET w == WriteAvailability(invokes, oks, length) IN w.available <= w.total
<1> DEFINE total == TotalIntervals(invokes, length)
           avail == AvailableIntervals(invokes, oks, length)
<1>1. First(invokes) = lo /\ Last(invokes) = hi
  BY FirstAndLast
<1>2. total \in Nat /\ total >= 1
  <2>1. RoundedUp(hi - lo, length) \in Int
    BY DEF RoundedUp
  <2> QED
    BY <1>1, <2>1 DEF TotalIntervals
<1>3. avail \subseteq 0 .. (total - 1)
  <2> SUFFICES ASSUME NEW t \in oks
               PROVE  IntervalOf(t, invokes, length) \in 0 .. (total - 1)
    BY DEF AvailableIntervals
  <2>1. Truncated(t - lo, length) \in Nat
    BY DEF Truncated
  <2> QED
    BY <1>1, <1>2, <2>1 DEF IntervalOf
<1>4. IsFiniteSet(0 .. (total - 1)) /\ Cardinality(0 .. (total - 1)) = total
  <2>1. total - 1 \in Int /\ 0 <= total - 1 /\ (total - 1) - 0 + 1 = total
    BY <1>2
  <2> HIDE DEF total
  <2> QED
    BY <2>1, FS_Interval
<1>5. Cardinality(avail) <= total
  BY <1>3, <1>4, FS_Subset
<1> QED
  BY <1>5 DEF WriteAvailability

\* The report of unexpected values names no interval, whatever the log: it looks
\* for the invocation of values that are unexpected because they have none
\* (check_consistency, _log_problem_intervals).
THEOREM UnexpectedNeverLocated ==
  ASSUME NEW log, NEW invokeTs, DOMAIN invokeTs \subseteq Attempted(log), NEW length
  PROVE  ProblemIntervals(Unexpected(log), invokeTs, length) = {}
BY DEF ProblemIntervals, Unexpected
=============================================================================
