------------------------------- MODULE Checker -------------------------------
(***************************************************************************)
(* The verdict that faultstorm/checker.py computes from an operations log. *)
(*                                                                         *)
(* A log is a sequence of events.  An "add" event carries the value it is  *)
(* about; a "read" event carries the set of values the database returned   *)
(* (empty unless its type is "ok").  Timestamps, node names and error      *)
(* texts do not influence the verdict and are left out of the log; the two *)
(* figures that are computed from timestamps are operators on them.        *)
(***************************************************************************)
EXTENDS Integers, Sequences, FiniteSets

AddEvent(type, v)   == [action |-> "add",  type |-> type, value |-> v, values |-> {}]
ReadEvent(type, vs) == [action |-> "read", type |-> type, value |-> 0, values |-> vs]

EventType == {"invoke", "ok", "fail", "info"}

Event(Vals) == [action : {"add", "read"}, type : EventType,
                value : Vals, values : SUBSET Vals]

-----------------------------------------------------------------------------
(* The sets the checker accumulates while it streams over the log.         *)

AddsOf(log, type) ==
  { log[i].value : i \in { j \in DOMAIN log : /\ log[j].action = "add"
                                              /\ log[j].type = type } }

Attempted(log)  == AddsOf(log, "invoke")
Successful(log) == AddsOf(log, "ok")
Failed(log)     == AddsOf(log, "fail")

OkReads(log) == { i \in DOMAIN log : log[i].action = "read" /\ log[i].type = "ok" }

LastOkRead(log) == CHOOSE i \in OkReads(log) : \A j \in OkReads(log) : j <= i

\* Every successful read overwrites the previous one.
FinalRead(log) == IF OkReads(log) = {} THEN {} ELSE log[LastOkRead(log)].values

-----------------------------------------------------------------------------
(* The three sets of the result, and the result itself.                    *)

\* Faulty variant of Recovered: confirmed values count as recovered, too.
RecoveredOrConfirmed(log) == FinalRead(log) \cap Attempted(log)

Lost(log)       == Successful(log) \ FinalRead(log)
Unexpected(log) == FinalRead(log) \ Attempted(log)
Recovered(log)  == (FinalRead(log) \cap Attempted(log)) \ Successful(log)

CheckConsistency(log) ==
  IF OkReads(log) = {}
  THEN [valid |-> FALSE, lost |-> {}, unexpected |-> {}, recovered |-> {},
        errors |-> "no successful reads"]
  ELSE [valid |-> Lost(log) = {} /\ Unexpected(log) = {},
        lost |-> Lost(log), unexpected |-> Unexpected(log),
        recovered |-> Recovered(log), errors |-> "none"]

-----------------------------------------------------------------------------
(* What is computed from timestamps: whole numbers here, as is the length  *)
(* of an interval (0.1 s in the code).  time.time() may step back.         *)

First(times) == CHOOSE t \in times : \A u \in times : t <= u
Last(times)  == CHOOSE t \in times : \A u \in times : t >= u

\* int() cuts off towards zero.
Truncated(d, n) == IF d >= 0 THEN d \div n ELSE -((-d) \div n)
RoundedUp(d, n) == -((-d) \div n)

TotalIntervals(invokes, length) ==
  LET n == RoundedUp(Last(invokes) - First(invokes), length)
  IN  IF n > 1 THEN n ELSE 1

\* Capped above, not below.
IntervalOf(t, invokes, length) ==
  LET i    == Truncated(t - First(invokes), length)
      last == TotalIntervals(invokes, length) - 1
  IN  IF i < last THEN i ELSE last

AvailableIntervals(invokes, oks, length) == { IntervalOf(t, invokes, length) : t \in oks }

\* The availability is the quotient of the two numbers.
WriteAvailability(invokes, oks, length) ==
  IF invokes = {} THEN [available |-> 0, total |-> 1]
  ELSE [available |-> Cardinality(AvailableIntervals(invokes, oks, length)),
        total     |-> TotalIntervals(invokes, length)]

\* The intervals that the report of lost or of unexpected values names;
\* invokeTs is the timestamp of the invocation of each value attempted.
ProblemIntervals(values, invokeTs, length) ==
  LET invokes == { invokeTs[v] : v \in DOMAIN invokeTs }
      At(v)   == IntervalOf(invokeTs[v], invokes, length)
  IN  { IF At(v) > 0 THEN At(v) ELSE 0 : v \in values \cap DOMAIN invokeTs }
=============================================================================
