----------------------------- MODULE FaultLedger -----------------------------
(***************************************************************************)
(* What the fault engine promises the test it disturbs, without threads,   *)
(* logs or calls that fail: every fault action is injected at most once,   *)
(* everything injected is settled exactly once (healed, or given up after  *)
(* one attempt), and the account is closed only when nothing is            *)
(* outstanding, after which nothing is injected any more.                  *)
(***************************************************************************)
VARIABLES outstanding,  \* injected and not settled
          settled,      \* healed, or given up
          closed        \* heal_all() has returned

vars == <<outstanding, settled, closed>>

Init == /\ outstanding = {}
        /\ settled = {}
        /\ closed = FALSE

Inject(a) == /\ ~closed
             /\ a \notin outstanding \cup settled
             /\ outstanding' = outstanding \cup {a}
             /\ UNCHANGED <<settled, closed>>

Settle(a) == /\ a \in outstanding
             /\ outstanding' = outstanding \ {a}
             /\ settled' = settled \cup {a}
             /\ UNCHANGED closed

Close == /\ ~closed
         /\ outstanding = {}
         /\ closed' = TRUE
         /\ UNCHANGED <<outstanding, settled>>

SettleOne == \E a \in outstanding : Settle(a)

Next == (\E a \in outstanding' : Inject(a)) \/ SettleOne \/ Close

Spec == Init /\ [][Next]_vars
=============================================================================
