------------------------------- MODULE SetTest -------------------------------
(***************************************************************************)
(* What a set test promises its checker, without threads, timeouts or a    *)
(* database: every value is invoked at most once, an invoked value gets    *)
(* one outcome, and reading begins only when every invoked value has its   *)
(* outcome, after which nothing is invoked any more.                       *)
(***************************************************************************)
CONSTANT Values

Outcomes == {"ok", "fail", "info"}

VARIABLES status,   \* what the log says of each value
          reading   \* the reads have begun

vars == <<status, reading>>

TypeOK == /\ status \in [Values -> {"unused", "invoked"} \cup Outcomes]
          /\ reading \in BOOLEAN

Init == /\ status = [v \in Values |-> "unused"]
        /\ reading = FALSE

Invoke(v) == /\ ~reading
             /\ status[v] = "unused"
             /\ status' = [status EXCEPT ![v] = "invoked"]
             /\ UNCHANGED reading

Resolve(v) == /\ status[v] = "invoked"
              /\ \E o \in Outcomes : status' = [status EXCEPT ![v] = o]
              /\ UNCHANGED reading

StartReads == /\ ~reading
              /\ \A v \in Values : status[v] # "invoked"
              /\ reading' = TRUE
              /\ UNCHANGED status

Next == \/ \E v \in Values : Invoke(v) \/ Resolve(v)
        \/ StartReads

Spec == Init /\ [][Next]_vars
=============================================================================
