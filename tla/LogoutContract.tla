--------------------------- MODULE LogoutContract ---------------------------
(***************************************************************************)
(* What the back-channel logout queue promises for each row, whoever works *)
(* on it: a delivery begins on a waiting row that nobody delivers, only    *)
(* that delivery answers it, an acknowledged row is never sent again, and  *)
(* a failed or partial one only when it is due or an operator resends it.  *)
(***************************************************************************)
CONSTANT Rows

VARIABLES
    status,   \* the row's status; "absent" before it is queued and after it is removed
    sending   \* sending[d]: a delivery of row d is under way

Enqueue(d) ==
    /\ status[d] = "absent" /\ ~sending[d]
    /\ status'[d] \in {"pending", "skipped_no_endpoint"} /\ ~sending'[d]

Begin(d) ==
    /\ status[d] \in {"pending", "failed"} /\ ~sending[d]
    /\ status'[d] = "in_flight" /\ sending'[d]

Answer(d) ==
    /\ status[d] = "in_flight" /\ sending[d]
    /\ status'[d] \in {"succeeded", "partial", "failed", "given_up"} /\ ~sending'[d]

Resend(d) ==
    /\ status[d] \in {"failed", "partial", "given_up"} /\ ~sending[d]
    /\ status'[d] = "pending" /\ ~sending'[d]

\* The row is pruned, or goes with its SP while a delivery may still be under way.
Remove(d) == status'[d] = "absent" /\ sending'[d] = sending[d]

\* A delivery ends without an outcome: the process died, a write failed or the row is gone.
Abandon(d) ==
    /\ sending[d] /\ ~sending'[d]
    /\ status[d] \in {"in_flight", "absent"} /\ status'[d] = status[d]

Stay(d) == status'[d] = status[d] /\ sending'[d] = sending[d]

\* One step of the implementation may move several rows (a prune, a crash).
RowNext(d) ==
    Enqueue(d) \/ Begin(d) \/ Answer(d) \/ Resend(d) \/ Remove(d) \/ Abandon(d) \/ Stay(d)

Init == status = [d \in Rows |-> "absent"] /\ sending = [d \in Rows |-> FALSE]

Next == \A d \in Rows : RowNext(d)

Spec == Init /\ [][Next]_<<status, sending>>
=============================================================================
