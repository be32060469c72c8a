-------------------------- MODULE EnrollmentRefunds --------------------------
(***************************************************************************)
(* Enrollment together with the operations that take a seat back after it  *)
(* was paid: attendee refund requests and their review, the organizer's    *)
(* attendance cancellation, the cancellation of the event, and the end of  *)
(* a durable refund job: finalized, failed for good at the provider (even  *)
(* after it was finalized), or recovered by an operator.                   *)
(*                                                                         *)
(* How a job is claimed, retried and matched with the provider is left     *)
(* out; here the provider accepts or fails it at any time.                 *)
(***************************************************************************)
EXTENDS Enrollment

SetPurchase(p, q) ==
    /\ purchase' = Replace(purchase, p, q)
    /\ UNCHANGED <<now, canceled, waitlist, offer, attendee, available>>

-----------------------------------------------------------------------------
(* Requests *)

RequestRefund(p, ts) ==
    /\ StartsAt > ts
    /\ p.status = "completed"
    /\ PurchaseAmount(p) > 0
    /\ p.request = "none"
    /\ SetPurchase(p, [p EXCEPT !.status = "refund-requested", !.request = "pending"])

\* A repeated approval finds its job and changes nothing.
ApproveRefund(p) ==
    /\ p.status = "refund-requested"
    /\ p.request \in {"approving", "pending"}
    /\ p.refund = "none"
    /\ SetPurchase(p, [p EXCEPT !.request = "approving",
                                !.refund = "refund-request-approval", !.job = "queued"])

RejectRefund(p) ==
    /\ p.status = "refund-requested"
    /\ p.request = "pending"
    /\ PurchaseAllowed(Db, p)
    /\ SetPurchase(p, [p EXCEPT !.status = "completed", !.request = "rejected"])

\* The organizer removes a paid attendee, who stays seated until the refund
\* is finalized.  (A free attendee leaves as in LeaveAttendance.)
CancelAttendance(p, ts) ==
    /\ Enrollable(ts)
    /\ Attendee(Db, p.user, {"confirmed"})
    /\ p \in Attending(Db, p.user)
    /\ PurchaseAmount(p) > 0
    /\ p.refund = "none"
    /\ p.request # "approved"
    /\ SetPurchase(p, [p EXCEPT !.status = "refund-requested", !.request = "approving",
                                !.refund = "attendance-cancellation", !.job = "queued"])

-----------------------------------------------------------------------------
(* Cancellation of the event *)

\* close_event_enrollment.  An offer in checkout passes through pending, and
\* so through the trigger on active offers.
CloseEnrollment(s, ts) ==
    LET expired == Expire(s, {p \in s.purchase : p.status = "pending"}, ts)
        active == {o \in s.offer : o.status \in ActiveOffer}
    IN Require(
        [expired EXCEPT !.offer = (@ \ active) \cup {[o EXCEPT !.status = "released"] : o \in active},
                        !.waitlist = {}],
        \A o \in active : o.status = "checkout_pending" => OfferAllowed(expired, o.user, o.id))

\* A paid seat gets a refund job, unless it has one.
HandToRefund(p) ==
    [p EXCEPT !.status = "refund-pending", !.hold = None,
              !.refund = IF @ = "none" THEN "event-cancellation" ELSE @,
              !.job = IF @ = "none" THEN "queued" ELSE @,
              !.request = IF @ = "pending" THEN "approving" ELSE @]

CancelEvent(ts) ==
    LET closed == CloseEnrollment(Db, ts)
        vacated == SetAttendance(closed,
                       {a \in closed.attendee : a.status \in {"confirmed", "registration-questions-pending"}},
                       "attendance-canceled")
        seated == {p \in vacated.purchase : p.status \in {"completed", "refund-requested"}}
        free == {p \in seated : PurchaseAmount(p) = 0}
    IN
    /\ Enrollable(ts)
    /\ canceled' = TRUE
    /\ Write([vacated EXCEPT
                !.purchase = (@ \ seated) \cup {[p EXCEPT !.status = "refunded"] : p \in free}
                                          \cup {HandToRefund(p) : p \in seated \ free},
                !.available = @ + Cardinality({p \in free : p.code})])
    /\ UNCHANGED now

-----------------------------------------------------------------------------
(* The end of a refund job *)

EndAttendance_Always(s, p) ==   \* mutant: another purchase is not looked for
    SetAttendance(s,
        {a \in Of(s.attendee, p.user) : a.status \in {"confirmed", "registration-questions-pending"}},
        "attendance-canceled")

\* Ends the attendance that purchase p paid for, unless another one pays.
EndAttendance(s, p) ==
    SetAttendance(s,
        {a \in Of(s.attendee, p.user) :
            /\ a.status \in {"confirmed", "registration-questions-pending"}
            /\ \A q \in Attending(s, p.user) : q.id = p.id},
        "attendance-canceled")

Refunded_LeavesRequest(s, p, job) ==   \* mutant: the request stays open
    [s EXCEPT !.purchase = Replace(@, p, [p EXCEPT !.status = "refunded", !.job = job, !.finalized = TRUE])]

Refunded(s, p, job) ==
    [s EXCEPT !.purchase = Replace(@, p,
        [p EXCEPT !.status = "refunded", !.job = job, !.finalized = TRUE,
                  !.request = IF @ = "approving" THEN "approved" ELSE @])]

ReturnCode_Always(s, p) == [s EXCEPT !.available = @ + Units(p.code)]   \* mutant: returned twice

\* An automatic refund returned its code when the checkout failed.
ReturnCode(s, p) == [s EXCEPT !.available = @ + Units(p.code /\ p.refund # "automatic")]

Finalized(p, ts) ==
    LET r == Reconcile(Db, {p.tier}, ProviderReady, ts)
    IN Reconcile(ReturnCode(Refunded(EndAttendance(r, p), p, "finalized"), p),
                 {p.tier}, ProviderReady, ts)

\* The worker that owns the claim finalizes a refund the provider made.
FinalizeRefund(p, ts) == p.job = "queued" /\ Commit(Finalized(p, ts))

\* The provider reports that the refund failed for good, or reverses one that
\* was finalized.
RefundFails(p) ==
    /\ p.job \in {"queued", "finalized"}
    /\ SetPurchase(p, [p EXCEPT !.job = "failed",
                                !.status = IF p.finalized THEN "refund-recovery-pending" ELSE @])

\* An operator closes a failed refund that was settled elsewhere.  What
\* finalization would have done is done now if it was not.
Recovered(p, ts) ==
    LET r == Reconcile(Db, {p.tier}, ProviderReady, ts)
        ended == IF p.refund \in {"attendance-cancellation", "refund-request-approval"}
                 THEN EndAttendance(r, p) ELSE r
    IN Reconcile(
        IF p.finalized THEN Refunded(r, p, "recovered")
        ELSE ReturnCode(Refunded(ended, p, "recovered"), p),
        {p.tier}, ProviderReady, ts)

CompleteRecovery(p, ts) ==
    /\ p.job = "failed"
    /\ IF p.finalized THEN p.status \in {"refund-recovery-pending", "refunded"}
       ELSE IF p.refund \in {"automatic", "event-cancellation"} THEN p.status = "refund-pending"
       ELSE p.status = "refund-requested" \/ (p.status = "refund-pending" /\ canceled)
    /\ Commit(Recovered(p, ts))

-----------------------------------------------------------------------------

RefundStep(p) ==
    \/ ApproveRefund(p) \/ RejectRefund(p) \/ RefundFails(p)
    \/ \E ts \in Timestamps :
          \/ RequestRefund(p, ts)
          \/ CancelAttendance(p, ts)
          \/ FinalizeRefund(p, ts)
          \/ CompleteRecovery(p, ts)

RefundsNext ==
    \/ Next
    \/ \E p \in purchase : RefundStep(p)
    \/ \E ts \in Timestamps : CancelEvent(ts)

RefundsSpec == Init /\ [][RefundsNext]_vars

-----------------------------------------------------------------------------
(* Properties *)

\* A refund request stays open exactly as long as its money is owed: pending
\* until somebody decides, approving while a refund job is outstanding or
\* failed, approved once the refund was finalized or recovered, whichever of
\* the attendee, the organizer and the canceled event started the refund.
RefundRequestConsistent ==
    \A p \in purchase :
        /\ p.status = "refund-requested" => p.request \in {"pending", "approving"}
        /\ p.request = "pending" => p.status = "refund-requested" /\ p.job = "none"
        /\ p.request = "approving" =>
              /\ p.status \in {"refund-requested", "refund-pending"}
              /\ p.job \in {"queued", "failed"} /\ ~p.finalized
        /\ p.request = "approved" =>
              p.finalized /\ p.status \in {"refunded", "refund-recovery-pending"}

\* A refund that failed after it was finalized blocks another checkout of its
\* user until an operator recovers it.
RecoveryBlocksCheckout ==
    [][\A p \in purchase' :
          p.status = "pending" /\ (\A q \in Of(purchase, p.user) : q.id # p.id) =>
              \A q \in Of(purchase, p.user) : q.status # "refund-recovery-pending"]_vars

=============================================================================
