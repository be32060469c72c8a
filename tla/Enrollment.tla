----------------------------- MODULE Enrollment -----------------------------
(***************************************************************************)
(* Seat allocation of one event: the FIFO waiting list of every ticket     *)
(* tier, the admission offers that reserve a promoted or invited user's    *)
(* seat, the checkout holds and purchases, the attendee rows, and the      *)
(* discount code inventory.                                                *)
(*                                                                         *)
(* Every operation is a database function whose transaction locks the      *)
(* event row before it touches any of these tables, so an operation is one *)
(* action, taken when that lock is granted.  (Two of the refund functions, *)
(* queue_event_refund_request_approval and reject_event_refund_request,    *)
(* lock only the purchase row; they read and write nothing but that row.)  *)
(*                                                                         *)
(* PostgreSQL freezes current_timestamp at the START of the transaction,   *)
(* so an operation sees a timestamp ts that may be older than `now', by as *)
(* much as the lock wait: a transaction that started earlier can run after *)
(* one that started later.                                                 *)
(*                                                                         *)
(* The tables are sets of rows.  A function body is a chain of state       *)
(* transformers on the record `Db' of the tables.  Its field ok turns      *)
(* FALSE where the code, a trigger or a constraint raises an exception;    *)
(* such a transaction rolls back and is not a step.                        *)
(***************************************************************************)
EXTENDS Integers, FiniteSets

CONSTANTS
    Users,             \* a set of naturals: user ids, which order queue ties
    Invitees,          \* bound: the users organizers invite
    Tiers,
    Public,            \* the tiers sold publicly; the others by invitation
    SeatsTotal,        \* [Tiers -> Nat]
    Price,             \* [Tiers -> Nat], the active price window
    Discount,          \* amount the discount code takes off
    InitialAvailable,  \* discount code: available
    TotalAvailable,    \* discount code: total_available
    HasQuestions,      \* the event asks registration questions
    WaitlistEnabled,
    ProviderReady,     \* a provider and a matching payment recipient are set
    HoldTime,          \* a checkout hold lives 15 minutes
    OfferLife,         \* an offer lives 24 hours
    RegistrationEnds, StartsAt, EndsAt,
    MaxLockWait,       \* bound: ticks a transaction may wait for the event
    MaxTime,           \* bound on the clock
    MaxOffers,         \* bound on the offers of a user
    MaxPurchases       \* bound on the purchases of a user

ASSUME EnrollmentAssumption ==
    /\ Users \subseteq Nat /\ Invitees \subseteq Users
    /\ Public \subseteq Tiers
    /\ SeatsTotal \in [Tiers -> Nat] /\ Price \in [Tiers -> Nat]
    /\ {Discount, HoldTime, OfferLife} \subseteq Nat \ {0}
    /\ {InitialAvailable, TotalAvailable, MaxLockWait, MaxTime} \subseteq Nat
    /\ {RegistrationEnds, StartsAt, EndsAt} \subseteq Nat
    /\ StartsAt <= EndsAt
    /\ {HasQuestions, WaitlistEnabled, ProviderReady} \subseteq BOOLEAN

VARIABLES
    now,        \* the database clock
    canceled,   \* event.canceled
    waitlist,   \* event_waitlist
    offer,      \* admission_offer
    purchase,   \* event_purchase, each row with its event_purchase_refund and
                \* event_refund_request rows and the state of its checkout
                \* session at the provider
    attendee,   \* event_attendee
    available   \* event_discount_code.available

vars == <<now, canceled, waitlist, offer, purchase, attendee, available>>

None == -1   \* a NULL timestamp

ActiveOffer == {"checkout_pending", "pending"}
\* released: declined by its user or canceled by an organizer
OfferStatuses == ActiveOffer \cup {"released", "completed", "expired"}
SeatHolding == {"completed", "refund-pending", "refund-recovery-pending", "refund-requested"}
PurchaseStatuses == SeatHolding \cup {"pending", "expired", "refunded"}
AttendeeStatuses == {"confirmed", "attendance-canceled", "registration-questions-pending"}
RefundKinds == {"none", "automatic", "attendance-cancellation", "event-cancellation",
                "refund-request-approval"}

\* Provider side of a checkout: paid until the completion webhook is
\* acknowledged, settled afterwards (it may still be redelivered).
Sessions == {"none", "open", "paid", "settled", "expired"}

\* The rows.  job is the durable refund job: queued while the provider has
\* not answered or failed for good, finalized (finalized_at is kept when the
\* refund fails afterwards), recovered when an operator closed it.  Ids count
\* the rows of a user; a purchase with offer 0 is direct.
WaitlistRow == [user: Users, tier: Public, created_at: Nat]
OfferRow == [user: Users, id: Nat, status: OfferStatuses, tier: Tiers, expires: Nat,
             source: {"waitlist", "organizer_invitation"},
             snapshot: {"none", "full", "discounted"}]
PurchaseRow == [user: Users, id: Nat, status: PurchaseStatuses, tier: Tiers, offer: Nat,
                code: BOOLEAN, hold: Nat \cup {None}, session: Sessions, refund: RefundKinds,
                job: {"none", "queued", "failed", "finalized", "recovered"}, finalized: BOOLEAN,
                request: {"none", "pending", "approving", "approved", "rejected"}]
AttendeeRow == [user: Users, status: AttendeeStatuses, manual: BOOLEAN]

-----------------------------------------------------------------------------
(* Transactions *)

Db == [waitlist |-> waitlist, offer |-> offer, purchase |-> purchase,
       attendee |-> attendee, available |-> available, ok |-> TRUE]

Require(s, condition) == [s EXCEPT !.ok = @ /\ condition]

Of(table, u) == {row \in table : row.user = u}
Row(table, u, id) == CHOOSE row \in table : row.user = u /\ row.id = id
Replace(table, old, new) == (table \ {old}) \cup {new}

\* Writes s; a row the bounds leave no room for is not inserted.
Write(s) ==
    /\ s.ok
    /\ s.available >= 0
    /\ \A o \in s.offer : o.id <= MaxOffers
    /\ \A p \in s.purchase : p.id <= MaxPurchases
    /\ waitlist' = s.waitlist
    /\ offer' = s.offer
    /\ purchase' = s.purchase
    /\ attendee' = s.attendee
    /\ available' = s.available

Commit(s) == Write(s) /\ UNCHANGED <<now, canceled>>

Timestamps == {ts \in (now - MaxLockWait)..now : ts >= 0}

Min2(a, b) == IF a <= b THEN a ELSE b
Queued(s, u) == Of(s.waitlist, u) # {}
Attendee(s, u, statuses) == \E a \in Of(s.attendee, u) : a.status \in statuses
Amount(t, code) == IF ~code THEN Price[t] ELSE IF Price[t] > Discount THEN Price[t] - Discount ELSE 0
PurchaseAmount(p) == Amount(p.tier, p.code)
Units(code) == IF code THEN 1 ELSE 0
LivePending(p, ts) == p.status = "pending" /\ p.hold > ts
LiveOffer(o, ts) == o.status \in ActiveOffer /\ o.expires > ts
ActiveOffers(s, u) == {o \in Of(s.offer, u) : o.status \in ActiveOffer}

\* coalesce(e.ends_at, e.starts_at) >= current_timestamp, on an active event
Enrollable(ts) == ~canceled /\ EndsAt >= ts
RegistrationOpen(ts) == ts < RegistrationEnds
PromotionOpen(ts) == ~canceled /\ StartsAt > ts /\ RegistrationOpen(ts)

-----------------------------------------------------------------------------
(* Triggers and constraints *)

\* Offer id may not become active beside attendance, a queue position, or a
\* purchase that is not its own; a user has one active offer.
OfferAllowed(s, u, id) ==
    /\ ~Attendee(s, u, {"confirmed", "registration-questions-pending"})
    /\ ~Queued(s, u)
    /\ \A p \in Of(s.purchase, u) : p.status \in SeatHolding \cup {"pending"} => p.offer = id
    /\ \A o \in ActiveOffers(s, u) : o.id = id

AttendeeAllowed(s, u, status) ==
    /\ ~Queued(s, u)
    /\ \A o \in ActiveOffers(s, u) :
          status = "registration-questions-pending" /\ o.status = "checkout_pending"

WaitlistAllowed(s, u) == Of(s.attendee, u) = {} /\ ActiveOffers(s, u) = {}

\* A purchase may not become pending or completed beside an offer it is not
\* linked to, and a user has one such purchase.
PurchaseAllowed(s, p) ==
    /\ p.offer = 0 => ActiveOffers(s, p.user) = {}
    /\ \A q \in Of(s.purchase, p.user) :
          q.id # p.id => q.status \notin {"completed", "pending", "refund-requested"}

-----------------------------------------------------------------------------
(* Reconciliation *)

\* An offer and the purchases linked to it are one seat.
SeatKey(p) == IF p.offer # 0 THEN <<p.user, "offer", p.offer>> ELSE <<p.user, "purchase", p.id>>

SeatKeys(offers, purchases) ==
    {<<o.user, "offer", o.id>> : o \in offers} \cup {SeatKey(p) : p \in purchases}

Allocated_NoHolds(s, t, ts) ==   \* mutant: pending holds are not counted
    Cardinality(SeatKeys(
        {o \in s.offer : o.tier = t /\ LiveOffer(o, ts)},
        {p \in s.purchase : p.tier = t /\ p.status \in SeatHolding}))

\* get_event_ticket_type_allocated_seat_count
Allocated(s, t, ts) ==
    Cardinality(SeatKeys(
        {o \in s.offer : o.tier = t /\ LiveOffer(o, ts)},
        {p \in s.purchase : p.tier = t /\ (p.status \in SeatHolding \/ LivePending(p, ts))}))

\* release_event_checkout_attendee_hold, for the users us
ReleaseAttendeeHolds(s, us, ts) ==
    [s EXCEPT !.attendee = {a \in @ :
        ~ /\ a.user \in us
          /\ a.status = "registration-questions-pending"
          /\ ~a.manual
          /\ \A p \in Of(s.purchase, a.user) :
                p.status \notin {"completed", "refund-requested"} /\ ~LivePending(p, ts)}]

\* Expires pending purchases: the hold ends, the code and the attendee row
\* kept for the answers are given back.
Expire(s, rows, ts) ==
    ReleaseAttendeeHolds(
        [s EXCEPT
            !.purchase = (@ \ rows) \cup {[p EXCEPT !.status = "expired", !.hold = Min2(@, ts)] : p \in rows},
            !.available = @ + Cardinality({p \in rows : p.code})],
        {p.user : p \in rows}, ts)

\* Holds that lapsed, or that outlive their offer.
ExpireHolds(s, ts) ==
    Expire(s,
        {p \in s.purchase :
            /\ p.status = "pending"
            /\ \/ p.hold <= ts
               \/ \E o \in ActiveOffers(s, p.user) : o.id = p.offer /\ o.expires <= ts},
        ts)

SettleOffers_KeepsAbandoned(s, ts) ==   \* mutant: abandoned checkouts keep their offer
    LET due == {o \in s.offer : o.status \in ActiveOffer /\ o.expires <= ts} IN
    [s EXCEPT !.offer = (@ \ due) \cup {[o EXCEPT !.status = "expired"] : o \in due}]

\* Offers that lapsed expire; an abandoned checkout gives its offer back.
SettleOffers(s, ts) ==
    LET due == {o \in s.offer : o.status \in ActiveOffer /\ o.expires <= ts}
        abandoned == {o \in s.offer \ due :
            /\ o.status = "checkout_pending"
            /\ \A p \in Of(s.purchase, o.user) :
                  p.offer = o.id => p.status \notin SeatHolding /\ ~LivePending(p, ts)}
    IN Require(
        [s EXCEPT !.offer = (@ \ (due \cup abandoned))
            \cup {[o EXCEPT !.status = "expired"] : o \in due}
            \cup {[o EXCEPT !.status = "pending"] : o \in abandoned}],
        \A o \in abandoned : OfferAllowed(s, o.user, o.id))

Ahead(v, w) == v.created_at < w.created_at \/ (v.created_at = w.created_at /\ v.user < w.user)

Promotable_Lifo(s, T, ready, ts) ==   \* mutant: the latest entries come first
    {w \in s.waitlist :
        /\ PromotionOpen(ts)
        /\ w.tier \in T \cap Public
        /\ Price[w.tier] = 0 \/ ready
        /\ Cardinality({v \in s.waitlist : v.tier = w.tier /\ Ahead(w, v)})
              < SeatsTotal[w.tier] - Allocated(s, w.tier, ts)}

\* The queue entries a reconciliation of the tiers T turns into offers.  Each
\* one takes a seat, so they are as many of a queue's heads as it has seats.
\* A paid queue waits until the provider is ready.
Promotable(s, T, ready, ts) ==
    {w \in s.waitlist :
        /\ PromotionOpen(ts)
        /\ w.tier \in T \cap Public
        /\ Price[w.tier] = 0 \/ ready
        /\ Cardinality({v \in s.waitlist : v.tier = w.tier /\ Ahead(v, w)})
              < SeatsTotal[w.tier] - Allocated(s, w.tier, ts)}

NextId(table, u) == Cardinality(Of(table, u)) + 1

NewOffer(s, u, t, expires, source) ==
    [user |-> u, id |-> NextId(s.offer, u), status |-> "pending", tier |-> t,
     expires |-> expires, source |-> source, snapshot |-> "none"]

Promote(s, T, ready, ts) ==
    LET heads == Promotable(s, T, ready, ts)
        expires == Min2(ts + OfferLife, Min2(RegistrationEnds, StartsAt))
        left == [s EXCEPT !.waitlist = @ \ heads]
    IN Require(
        [left EXCEPT !.offer = @ \cup {NewOffer(s, w.user, w.tier, expires, "waitlist") : w \in heads}],
        \A w \in heads : OfferAllowed(left, w.user, NextId(s.offer, w.user)))

Reconcile(s, T, ready, ts) == Promote(SettleOffers(ExpireHolds(s, ts), ts), T, ready, ts)

-----------------------------------------------------------------------------
(* Joining and leaving *)

IsSimpleRsvp == \E t \in Public : Public = {t} /\ Price[t] = 0

JoinWaitlist(s, u, t, ts) ==
    LET out == [s EXCEPT
            !.waitlist = @ \ Of(@, u),
            !.attendee = {a \in @ : ~(a.user = u /\ a.status = "attendance-canceled")}]
    IN Require(
        [out EXCEPT !.waitlist = @ \cup {[user |-> u, tier |-> t, created_at |-> ts]}],
        WaitlistAllowed(out, u))

AttendEvent_ForgetsHold(u, t, ts) ==   \* mutant: the user's own hold is not looked up
    LET r == Reconcile(Db, Tiers, FALSE, ts) IN
    /\ Enrollable(ts)
    /\ RegistrationOpen(ts)
    /\ t \in Public
    /\ ~Attendee(r, u, {"confirmed"})
    /\ \A o \in Of(r.offer, u) : ~LiveOffer(o, ts)
    /\ \A p \in Of(r.purchase, u) : p.status \notin SeatHolding
    /\ Commit(IF \/ Allocated(r, t, ts) < SeatsTotal[t]
                 \/ ~WaitlistEnabled
                 \/ \E w \in Of(r.waitlist, u) : w.tier = t
              THEN r
              ELSE JoinWaitlist(r, u, t, ts))

\* Answers whether the user may go on to checkout, or queues the user.
AttendEvent(u, t, ts) ==
    LET r == Reconcile(Db, Tiers, FALSE, ts)
        holds == {p \in Of(r.purchase, u) : LivePending(p, ts)}
    IN
    /\ Enrollable(ts)
    /\ RegistrationOpen(ts)
    /\ t \in Public
    /\ ~Attendee(r, u, {"confirmed"})
    /\ \A o \in Of(r.offer, u) : ~LiveOffer(o, ts)
    /\ \A p \in Of(r.purchase, u) : p.status \notin SeatHolding
    /\ \A p \in holds : IsSimpleRsvp /\ p.tier = t /\ PurchaseAmount(p) = 0
    /\ Commit(IF \/ holds # {}
                 \/ Allocated(r, t, ts) < SeatsTotal[t]
                 \/ ~WaitlistEnabled
                 \/ \E w \in Of(r.waitlist, u) : w.tier = t
              THEN r
              ELSE JoinWaitlist(r, u, t, ts))

\* Changes the status of the rows the update finds, under their trigger.
SetAttendance(s, rows, status) ==
    Require(
        [s EXCEPT !.attendee = (@ \ rows) \cup {[a EXCEPT !.status = status] : a \in rows}],
        \A a \in rows : AttendeeAllowed(s, a.user, status))

RefundFree(s, p) ==
    Require(
        [s EXCEPT !.purchase = Replace(@, p, [p EXCEPT !.status = "refunded"]),
                  !.available = @ + Units(p.code)],
        PurchaseAmount(p) = 0)

\* The purchase behind a user's attendance (at most one).
Attending(s, u) == {p \in Of(s.purchase, u) : p.status \in {"completed", "refund-requested"}}

\* Only a free attendee leaves.  (Attendance without a purchase predates
\* purchases and is not in the model.)
LeaveAttendance(u, ts) ==
    /\ Enrollable(ts)
    /\ Attendee(Db, u, {"confirmed"})
    /\ \E p \in Attending(Db, u) :
          Commit(Reconcile(
              RefundFree(SetAttendance(Db, Of(attendee, u), "attendance-canceled"), p),
              {p.tier}, ProviderReady, ts))

LeaveWaitlist(u, ts) ==
    /\ Enrollable(ts)
    /\ \A p \in Attending(Db, u) : PurchaseAmount(p) = 0
    /\ ~Attendee(Db, u, {"confirmed"})
    /\ Queued(Db, u)
    /\ Commit([Db EXCEPT !.waitlist = @ \ Of(@, u)])

-----------------------------------------------------------------------------
(* Organizer invitations and the release of an offer *)

InvitationExpiry(ts) == Min2(ts + OfferLife, IF StartsAt > ts THEN StartsAt ELSE EndsAt)

Invite(s, u, t, ts) ==
    LET out == [s EXCEPT !.waitlist = @ \ Of(@, u)]
        new == NewOffer(s, u, t, InvitationExpiry(ts), "organizer_invitation")
    IN Require([out EXCEPT !.offer = @ \cup {new}], OfferAllowed(out, u, new.id))

\* r is the tier, reconciled.
InviteAttendee(r, u, t, ts) ==
    /\ Enrollable(ts)
    /\ IF \/ \E w \in Db.waitlist \ r.waitlist : w.user = u
          \/ Allocated(r, t, ts) >= SeatsTotal[t]
       THEN Commit(r)
       ELSE /\ Price[t] = 0 \/ ProviderReady
            /\ ~Attendee(r, u, {"confirmed", "registration-questions-pending"})
            /\ ActiveOffers(r, u) = {}
            /\ InvitationExpiry(ts) > ts
            /\ Commit(Invite(r, u, t, ts))

\* The live offer o ends, with the checkout it is in.
Released(s, o, ts) ==
    LET linked == {p \in Of(s.purchase, o.user) : p.offer = o.id /\ p.status = "pending"} IN
    [Expire(s, linked, ts) EXCEPT !.offer = Replace(@, o, [o EXCEPT !.status = "released"])]

\* Declined by its user or canceled by an organizer, with the same effect.
ReleaseOffer(o, ts) ==
    LET r == Reconcile(Db, {o.tier}, ProviderReady, ts)
        held == Row(r.offer, o.user, o.id)
    IN
    /\ LiveOffer(held, ts)
    /\ Commit(Reconcile(Released(r, held, ts), {o.tier}, ProviderReady, ts))

-----------------------------------------------------------------------------
(* Checkout *)

\* upsert_pending_registration_answers
UpsertAnswers(s, u) ==
    LET status == "registration-questions-pending" IN
    IF ~HasQuestions THEN s
    ELSE IF Of(s.attendee, u) # {}
    THEN Require(SetAttendance(s, {a \in Of(s.attendee, u) : a.status # "confirmed"}, status),
                 AttendeeAllowed(s, u, status))
    ELSE Require([s EXCEPT !.attendee = @ \cup {[user |-> u, status |-> status, manual |-> FALSE]}],
                 AttendeeAllowed(s, u, status))

\* The purchases a checkout of user u for offer id (0: direct) runs into.
ExistingPurchases(s, u, id, ts) ==
    {p \in Of(s.purchase, u) : p.offer = id /\ (p.status \in SeatHolding \/ LivePending(p, ts))}

\* The user may start a checkout: neither attending nor queued.
CheckoutAttendee(s, u) == ~Attendee(s, u, {"confirmed"}) /\ ~Queued(s, u)

\* Prices are resolved anew unless an earlier checkout of the offer fixed them.
FreshPrice(s, u, id) == id = 0 \/ Row(s.offer, u, id).snapshot = "none"

SelectedCode(s, u, id, code) ==
    IF FreshPrice(s, u, id) THEN code ELSE Row(s.offer, u, id).snapshot = "discounted"

\* Whether a checkout names the discount code, where the event has one.
Codes == IF TotalAvailable = 0 THEN {FALSE} ELSE BOOLEAN

CodeRedeemable(s, t, ts) ==
    /\ Price[t] > 0
    /\ s.available > 0
    /\ Cardinality({p \in s.purchase :
          p.code /\ (p.status \in {"completed", "refund-requested"} \/ LivePending(p, ts))}) < TotalAvailable

\* The selected tier has no room for a direct checkout.
TierUnavailable(s, t, ts) ==
    \/ t \notin Public
    \/ \E w \in s.waitlist : w.tier = t
    \/ Allocated(s, t, ts) >= SeatsTotal[t]

\* Moves the linked offer into checkout and inserts the pending purchase.
InsertHold(s, u, t, id, code, ts) ==
    LET o == Row(s.offer, u, id)
        claimed == IF id = 0 THEN s
                   ELSE Require(
                       [s EXCEPT !.offer = Replace(@, o, [o EXCEPT !.status = "checkout_pending",
                            !.snapshot = IF code THEN "discounted" ELSE "full"])],
                       OfferAllowed(s, u, id))
        new == [user |-> u, id |-> NextId(s.purchase, u), status |-> "pending", tier |-> t,
                offer |-> id, code |-> code,
                hold |-> IF id = 0 THEN ts + HoldTime ELSE Min2(ts + HoldTime, o.expires),
                session |-> "none", refund |-> "none", job |-> "none", finalized |-> FALSE,
                request |-> "none"]
        held == [UpsertAnswers(claimed, u) EXCEPT !.purchase = @ \cup {new}, !.available = @ - Units(code)]
    IN Require(held, PurchaseAllowed(held, new))

\* An offer that is named must be claimable, and a live offer must be named.
OfferMismatch(s, u, t, id, ts) ==
    IF id # 0 THEN LET o == Row(s.offer, u, id) IN o.tier # t \/ ~LiveOffer(o, ts)
    ELSE \E o \in Of(s.offer, u) : LiveOffer(o, ts)

\* prepare_event_checkout_purchase, in three parts; r is the tier, reconciled.
\* A call that answers with a conflict, or with a purchase that needs nothing
\* more, commits that reconciliation.
CheckoutConflict(r, u, t, id, code, ts) ==
    LET c == SelectedCode(r, u, id, code)
        existing == ExistingPurchases(r, u, id, ts)
    IN
    /\ ~canceled /\ EndsAt > ts
    /\ \/ OfferMismatch(r, u, t, id, ts)
       \/ (code => c) /\ \E p \in existing : p.status # "pending"
       \/ /\ code => c
          /\ \A p \in existing : p.tier # t \/ p.code # c
          /\ id = 0 => RegistrationOpen(ts)
          /\ FreshPrice(r, u, id) => CheckoutAttendee(r, u)
          /\ \/ id = 0 /\ TierUnavailable(r, t, ts)
             \/ /\ FreshPrice(r, u, id) /\ c => CodeRedeemable(r, t, ts)
                /\ Amount(t, c) > 0 /\ ~ProviderReady
    /\ Commit(r)

\* A pending purchase of the same tier and code is reused.
ReuseCheckout(r, u, t, id, code, ts) ==
    LET c == SelectedCode(r, u, id, code)
        existing == ExistingPurchases(r, u, id, ts)
    IN
    /\ ~canceled /\ EndsAt > ts
    /\ ~OfferMismatch(r, u, t, id, ts)
    /\ code => c
    /\ \A p \in existing : p.status = "pending"
    /\ \E p \in existing : p.tier = t /\ p.code = c
    /\ CheckoutAttendee(r, u)
    /\ Commit(UpsertAnswers(r, u))

\* Creates a hold, in the place of the user's hold on another selection.
StartCheckout(r, u, t, id, code, ts) ==
    LET c == SelectedCode(r, u, id, code)
        existing == ExistingPurchases(r, u, id, ts)
    IN
    /\ ~canceled /\ EndsAt > ts
    /\ ~OfferMismatch(r, u, t, id, ts)
    /\ code => c
    /\ \A p \in existing : p.status = "pending" /\ (p.tier # t \/ p.code # c)
    /\ id = 0 => RegistrationOpen(ts) /\ ~TierUnavailable(r, t, ts)
    /\ FreshPrice(r, u, id) => CheckoutAttendee(r, u) /\ (c => CodeRedeemable(r, t, ts))
    /\ Amount(t, c) = 0 \/ ProviderReady
    /\ Commit(InsertHold(Expire(r, existing, ts), u, t, id, c, ts))

\* Expires purchase p if it is still pending, between two reconciliations.
ExpireOne(p, ts) ==
    LET r == Reconcile(Db, {p.tier}, ProviderReady, ts)
        q == Row(r.purchase, p.user, p.id)
    IN IF q.status = "pending"
       THEN Reconcile(Expire(r, {q}, ts), {p.tier}, ProviderReady, ts)
       ELSE r

\* The purchase is resolved before the event lock is taken; when it is no
\* longer pending once the lock is granted only the reconciliation is left.
CancelCheckout(p, ts) ==
    /\ LivePending(p, ts) \/ ts < now
    /\ Commit(ExpireOne(p, ts))

-----------------------------------------------------------------------------
(* Completion *)

\* Turns pending purchase p into attendance, its offer first.
Complete(s, p) ==
    LET o == Row(s.offer, p.user, p.offer)
        claimed == IF p.offer = 0 THEN s
                   ELSE Require([s EXCEPT !.offer = Replace(@, o, [o EXCEPT !.status = "completed"])],
                                o.status = "checkout_pending")
        row == [user |-> p.user, status |-> "confirmed",
                manual |-> p.offer # 0 /\ o.source = "organizer_invitation"]
        seated == Require([claimed EXCEPT !.attendee = (@ \ Of(@, p.user)) \cup {row}],
                          AttendeeAllowed(claimed, p.user, "confirmed"))
    IN Require(
        [seated EXCEPT !.purchase = Replace(@, p, [p EXCEPT !.status = "completed", !.hold = None])],
        PurchaseAllowed(seated, p))

RecoveryPending(s, p) ==
    \E q \in Of(s.purchase, p.user) : q.id # p.id /\ q.status = "refund-recovery-pending"

CompleteFree(p, ts) ==
    LET r == Reconcile(Db, {p.tier}, FALSE, ts)
        q == Row(r.purchase, p.user, p.id)
    IN
    /\ LivePending(q, ts)
    /\ PurchaseAmount(q) = 0
    /\ ~RecoveryPending(r, q)
    /\ ~canceled /\ EndsAt > ts
    /\ Commit(Complete(r, q))

SetSession(p, session) ==
    /\ purchase' = Replace(purchase, p, [p EXCEPT !.session = session])
    /\ UNCHANGED <<now, canceled, waitlist, offer, attendee, available>>

\* The manager creates a session at the provider and attaches it.
AttachSession(p) ==
    /\ p.status = "pending"
    /\ PurchaseAmount(p) > 0
    /\ p.session = "none"
    /\ SetSession(p, "open")

\* At the provider the user pays, whatever became of the local hold, or the
\* session runs out.
PayCheckout(p) == p.session = "open" /\ SetSession(p, "paid")
SessionExpires(p) == p.session = "open" /\ SetSession(p, "expired")

\* The paid checkout can no longer become attendance.
Unfulfillable(s, p, ts) ==
    \/ canceled \/ EndsAt <= ts
    \/ \E o \in Of(s.offer, p.user) :
          o.id = p.offer /\ (o.status # "checkout_pending" \/ o.expires <= ts)

HoldExpired(p, ts) == p.hold # None /\ p.hold <= ts

Reconcilable_PendingOnly(p, ts) ==   \* mutant: a payment for an expired hold is ignored
    p.status \in {"pending", "refund-pending"}

\* A payment the webhook still has to settle locally.
Reconcilable(p, ts) ==
    p.status \in {"pending", "refund-pending"} \/ (p.status = "expired" /\ HoldExpired(p, ts))

\* Queues the refund of a payment that bought nothing.
QueueAutomaticRefund(s, p, ts) ==
    ReleaseAttendeeHolds(
        [s EXCEPT
            !.purchase = Replace(@, p, [p EXCEPT !.status = "refund-pending", !.hold = None,
                                                 !.refund = "automatic", !.job = "queued"]),
            !.available = @ + Units(p.status = "pending" /\ p.code)],
        {p.user}, ts)

\* The completion webhook, which the provider may deliver late and again.
CheckoutCompleted(p, ts) ==
    LET q == [p EXCEPT !.session = "settled"]
        acked == [Db EXCEPT !.purchase = Replace(@, p, q)]
        refund == \/ p.status = "refund-pending"
                  \/ HoldExpired(p, ts)
                  \/ RecoveryPending(Db, p)
                  \/ Unfulfillable(Db, p, ts)
        settled == IF refund /\ p.status # "refund-pending" THEN QueueAutomaticRefund(acked, q, ts)
                   ELSE acked
        r == Reconcile(settled, {p.tier}, ProviderReady, ts)
    IN
    /\ p.session \in {"paid", "settled"}
    /\ Commit(IF ~Reconcilable(p, ts) THEN acked ELSE IF refund THEN r ELSE Complete(r, q))

\* The expiry webhook.
CheckoutExpired(p, ts) == p.session = "expired" /\ Commit(ExpireOne(p, ts))

-----------------------------------------------------------------------------
(* The enrollment worker *)

NeedsReconciliation_AnyTime(s, ts) ==   \* mutant: queues count after promotion closed
    \/ \E o \in s.offer : o.status \in ActiveOffer /\ o.expires <= ts
    \/ \E p \in s.purchase : p.status = "pending" /\ p.hold <= ts
    \/ \E w \in s.waitlist :
          /\ w.tier \in Public
          /\ Allocated(s, w.tier, ts) < SeatsTotal[w.tier]
          /\ Price[w.tier] = 0 \/ ProviderReady

\* The event has a due reservation, or a queue with a seat to give.
NeedsReconciliation(s, ts) ==
    \/ \E o \in s.offer : o.status \in ActiveOffer /\ o.expires <= ts
    \/ \E p \in s.purchase : p.status = "pending" /\ p.hold <= ts
    \/ /\ PromotionOpen(ts)
       /\ \E w \in s.waitlist :
             /\ w.tier \in Public
             /\ Allocated(s, w.tier, ts) < SeatsTotal[w.tier]
             /\ Price[w.tier] = 0 \/ ProviderReady

\* It skips an event that is locked, so it never waits for the lock.
ReconcileNext ==
    /\ NeedsReconciliation(Db, now)
    /\ Commit(Reconcile(Db, Tiers, ProviderReady, now))

Tick ==
    /\ now < MaxTime
    /\ now' = now + 1
    /\ UNCHANGED <<canceled, waitlist, offer, purchase, attendee, available>>

-----------------------------------------------------------------------------

Init ==
    /\ now = 0
    /\ canceled = FALSE
    /\ waitlist = {}
    /\ offer = {}
    /\ purchase = {}
    /\ attendee = {}
    /\ available = InitialAvailable

UserStep(u, ts) ==
    \/ LeaveAttendance(u, ts) \/ LeaveWaitlist(u, ts)
    \/ \E t \in Tiers : AttendEvent(u, t, ts)

\* The operations that first reconcile the tier they are about.
TierStep(t, ts) ==
    LET r == Reconcile(Db, {t}, ProviderReady, ts) IN
    \E u \in Users :
        \/ u \in Invitees /\ InviteAttendee(r, u, t, ts)
        \/ \E id \in {0} \cup {o.id : o \in Of(offer, u)}, code \in Codes :
              \/ CheckoutConflict(r, u, t, id, code, ts)
              \/ ReuseCheckout(r, u, t, id, code, ts)
              \/ StartCheckout(r, u, t, id, code, ts)

PurchaseStep(p) ==
    \/ AttachSession(p) \/ PayCheckout(p) \/ SessionExpires(p)
    \/ \E ts \in Timestamps :
          \/ CancelCheckout(p, ts)
          \/ CompleteFree(p, ts)
          \/ CheckoutCompleted(p, ts)
          \/ CheckoutExpired(p, ts)

Next ==
    \/ \E u \in Users, ts \in Timestamps : UserStep(u, ts)
    \/ \E t \in Tiers, ts \in Timestamps : TierStep(t, ts)
    \/ \E o \in offer, ts \in Timestamps : ReleaseOffer(o, ts)
    \/ \E p \in purchase : PurchaseStep(p)
    \/ ReconcileNext
    \/ Tick

Spec == Init /\ [][Next]_vars

-----------------------------------------------------------------------------
(* Properties *)

\* Purchases that stand for a seat whatever the clock says.  A payment that
\* is only waiting to be refunded automatically, or to be recovered, does not.
Committed(p) ==
    \/ p.status \in {"pending", "completed", "refund-requested"}
    \/ p.status = "refund-pending" /\ p.refund # "automatic"

\* Seats of tier t promised to somebody: active offers and pending holds,
\* lapsed or not, and purchases.
Promised(t) ==
    SeatKeys({o \in offer : o.tier = t /\ o.status \in ActiveOffer},
             {p \in purchase : p.tier = t /\ Committed(p)})

\* No tier is oversold.  Promotion, invitation and checkout each count the
\* seats on their own (get_event_ticket_type_allocated_seat_count) with a
\* timestamp that may be older than the last writer's; together they never
\* promise more seats than the tier has.
NoOverselling == \A t \in Tiers : Cardinality(Promised(t)) <= SeatsTotal[t]

\* A queued user holds nothing else: no active offer, no hold, no seat.  The
\* queue, offer, checkout and attendee tables exclude each other by triggers
\* that each look at the other tables.
QueueExclusive ==
    \A w \in waitlist :
        /\ ActiveOffers(Db, w.user) = {}
        /\ ~Attendee(Db, w.user, {"confirmed", "registration-questions-pending"})
        /\ \A p \in Of(purchase, w.user) : p.status \notin {"pending", "completed", "refund-requested"}

\* Attendance and payment agree: the users who are confirmed are those with a
\* purchase that is completed (or its refund requested and not yet decided);
\* the refund of an older purchase (finalize_event_purchase_refund) does not
\* end the attendance a newer one bought.
AttendanceMatchesPurchase ==
    ~canceled =>
        {a.user : a \in {b \in attendee : b.status = "confirmed"}}
            = {p.user : p \in {q \in purchase : q.status \in {"completed", "refund-requested"}}}

\* An offer in checkout is never stranded: a purchase linked to it is pending
\* or was paid and holds the seat; a completed offer led to a paid purchase.
OfferInCheckoutHasPurchase ==
    \A o \in offer : o.status \in {"checkout_pending", "completed"} =>
        \E p \in Of(purchase, o.user) :
            /\ p.offer = o.id
            /\ p.status \in IF o.status = "completed" THEN SeatHolding \cup {"refunded"}
                            ELSE {"pending", "refund-pending", "refund-recovery-pending"}

\* The discount inventory is conserved: every unit is either available or
\* held by exactly one purchase, through expiry, replacement, late payment,
\* cancellation, refunds and reversals.
DiscountConserved ==
    available + Cardinality({p \in purchase : p.code /\ Committed(p)}) = InitialAvailable

\* What is sold is there: no seat twice (get_event_ticket_type_allocated_seat_count)
\* and no unit of the code twice or lost (release_event_discount_code_availability).
InventoryConserved == NoOverselling /\ DiscountConserved

Missed(p) == p.session = "settled" /\ p.status \notin SeatHolding \cup {"refunded"}

\* Every captured payment whose webhook was acknowledged is accounted for: it
\* bought a seat, or is refunded, or is on its way to be.
CapturedPaymentAccounted ==
    \A p \in purchase : ~Missed(p)

\* A payment is missed in one way only: its hold lapsed and was expired while
\* the transaction of its webhook, which had started before, was waiting.
MissedByLateWebhookOnly ==
    \A p \in purchase' : Missed(p) =>
        \/ \E q \in purchase : Missed(q) /\ q.user = p.user /\ q.id = p.id
        \/ p.status = "expired" /\ p.hold \in (now - MaxLockWait + 1)..now

\* The enrollment worker makes progress: it continues immediately after it
\* was given an event, so selecting one that reconciliation leaves as it is
\* would be a busy loop.  Of a reconciliation that raises this says nothing:
\* it rolls back, and whether one can is the question of WorkerNeverStuck.
WorkerProgresses ==
    NeedsReconciliation(Db, now) =>
        LET s == Reconcile(Db, Tiers, ProviderReady, now) IN s.ok => s # Db

\* The reconciliation the worker starts never raises.  The worker picks the
\* same event again after an error, so one that raises holds up all others.
WorkerNeverStuck ==
    NeedsReconciliation(Db, now) => Reconcile(Db, Tiers, ProviderReady, now).ok

\* A seat goes to the queue first: while promotion is open, no step gives a
\* seat of a tier to a user who was not ahead of one who stays queued there.
QueueStep ==
    \A w \in waitlist \cap waitlist' :
        PromotionOpen(now) =>
            \A key \in Promised(w.tier)' \ Promised(w.tier) :
                \E v \in waitlist : v.user = key[1] /\ v.tier = w.tier /\ Ahead(v, w)

\* In every step of attend_event, the checkout, the invitation, the webhooks
\* and the worker.
QueueRespected == [][QueueStep]_vars

=============================================================================
