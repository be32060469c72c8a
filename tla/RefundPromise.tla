---------------------------- MODULE RefundPromise ----------------------------
(***************************************************************************)
(* What the refund queue promises about one refund, without workers,       *)
(* claims, retries or webhooks.  money is where the payment is, as far as  *)
(* the provider's refund that OCG follows is concerned; local is what OCG  *)
(* made of it: nothing yet, settled (the seat is given up, the discount    *)
(* code returned, the attendee told), waiting for an operator because the  *)
(* provider took the refund back, or recovered by the operator.            *)
(*                                                                         *)
(* It is settled or recovered from open only once: the attendee is told    *)
(* once and inventory is returned once, and never before the money moved   *)
(* or failed to.                                                           *)
(***************************************************************************)
VARIABLES money, local

promise == <<money, local>>

PromiseInit == money = "owed" /\ local = "open"

Return == money = "owed" /\ money' = "returned" /\ UNCHANGED local

\* The provider fails the refund, possibly after it reported success.
Fail == money \in {"owed", "returned"} /\ money' = "failed" /\ UNCHANGED local

\* A refund that failed before OCG knew of it is tried again.
Retry ==
    /\ money = "failed" /\ local = "open"
    /\ money' \in {"owed", "returned"}
    /\ UNCHANGED local

\* The success may have been taken back by the time OCG settles it.
Settle == money # "owed" /\ local = "open" /\ local' = "settled" /\ UNCHANGED money

Notice == money = "failed" /\ local = "settled" /\ local' = "recovering" /\ UNCHANGED money

Recover ==
    /\ money = "failed"
    /\ local \in {"open", "recovering"}
    /\ local' = "recovered"
    /\ UNCHANGED money

PromiseNext == Return \/ Fail \/ Retry \/ Settle \/ Notice \/ Recover

PromiseSpec == PromiseInit /\ [][PromiseNext]_promise
=============================================================================
