-------------------------- MODULE EnrollmentProofs --------------------------
(***************************************************************************)
(* Seat allocation for any users, tiers, prices, bounds and lock waits.    *)
(*                                                                         *)
(* The operations are chains of transformers of the record of the tables.  *)
(* For each of them a lemma says what its result has in every field, and a *)
(* second one that the invariant passes from the record it is given to the *)
(* record it returns, unless it raises.  An operation is then a chain of   *)
(* these lemmas.                                                           *)
(***************************************************************************)
EXTENDS EnrollmentRefunds, FiniteSetTheorems, TLAPS

DbFields == {"waitlist", "offer", "purchase", "attendee", "available", "ok"}
OfferFields == {"user", "id", "status", "tier", "expires", "source", "snapshot"}
PurchaseFields == {"user", "id", "status", "tier", "offer", "code", "hold", "session", "refund", "job",
                   "finalized", "request"}
AttendeeFields == {"user", "status", "manual"}

\* The rows, as far as the arguments need them: a pending purchase has a hold.
Entry(w) == w \in WaitlistRow
Offered(o) == DOMAIN o = OfferFields /\ o.expires \in Nat
Bought(p) ==
    /\ DOMAIN p = PurchaseFields /\ p.hold \in Int
    /\ p.status = "pending" => p.hold # None
Attends(a) == DOMAIN a = AttendeeFields

Shape(s) ==
    /\ DOMAIN s = DbFields
    /\ IsFiniteSet(s.waitlist) /\ IsFiniteSet(s.offer) /\ IsFiniteSet(s.purchase)
    /\ \A w \in s.waitlist : Entry(w)
    /\ \A o \in s.offer : Offered(o)
    /\ \A p \in s.purchase : Bought(p)
    /\ \A a \in s.attendee : Attends(a)

-----------------------------------------------------------------------------
(* What the transformers return. *)

ExpiredRow(p, ts) == [p EXCEPT !.status = "expired", !.hold = Min2(@, ts)]

LEMMA ReleaseFields ==
  ASSUME NEW s, DOMAIN s = DbFields, NEW us, NEW ts
  PROVE  /\ DOMAIN ReleaseAttendeeHolds(s, us, ts) = DbFields
         /\ ReleaseAttendeeHolds(s, us, ts).waitlist = s.waitlist
         /\ ReleaseAttendeeHolds(s, us, ts).offer = s.offer
         /\ ReleaseAttendeeHolds(s, us, ts).purchase = s.purchase
         /\ ReleaseAttendeeHolds(s, us, ts).attendee \subseteq s.attendee
         /\ ReleaseAttendeeHolds(s, us, ts).available = s.available
         /\ ReleaseAttendeeHolds(s, us, ts).ok = s.ok
  BY DEF ReleaseAttendeeHolds, DbFields

LEMMA ExpireFields ==
  ASSUME NEW s, DOMAIN s = DbFields, NEW rows, NEW ts
  PROVE  /\ DOMAIN Expire(s, rows, ts) = DbFields
         /\ Expire(s, rows, ts).waitlist = s.waitlist
         /\ Expire(s, rows, ts).offer = s.offer
         /\ Expire(s, rows, ts).purchase = (s.purchase \ rows) \cup {ExpiredRow(p, ts) : p \in rows}
         /\ Expire(s, rows, ts).attendee \subseteq s.attendee
         /\ Expire(s, rows, ts).ok = s.ok
  <1>. DEFINE x == [s EXCEPT !.purchase = (@ \ rows) \cup {[p EXCEPT !.status = "expired", !.hold = Min2(@, ts)] : p \in rows},
                             !.available = @ + Cardinality({p \in rows : p.code})]
  <1>1. /\ DOMAIN x = DbFields /\ x.waitlist = s.waitlist /\ x.offer = s.offer
        /\ x.purchase = (s.purchase \ rows) \cup {ExpiredRow(p, ts) : p \in rows}
        /\ x.attendee = s.attendee /\ x.ok = s.ok
    BY DEF DbFields, ExpiredRow
  <1>2. Expire(s, rows, ts) = ReleaseAttendeeHolds(x, {p.user : p \in rows}, ts)
    BY DEF Expire
  <1>. HIDE DEF x
  <1>. QED
    BY <1>1, <1>2, ReleaseFields

\* The offers that end, and those that a lapsed checkout gives back.
Due(s, ts) == {o \in s.offer : o.status \in ActiveOffer /\ o.expires <= ts}
AbandonedOffers(s, ts) ==
    {o \in s.offer \ Due(s, ts) :
        /\ o.status = "checkout_pending"
        /\ \A p \in Of(s.purchase, o.user) : p.offer = o.id => p.status \notin SeatHolding /\ ~LivePending(p, ts)}

LEMMA SettleFields ==
  ASSUME NEW s, DOMAIN s = DbFields, NEW ts
  PROVE  /\ DOMAIN SettleOffers(s, ts) = DbFields
         /\ SettleOffers(s, ts).waitlist = s.waitlist
         /\ SettleOffers(s, ts).purchase = s.purchase
         /\ SettleOffers(s, ts).attendee = s.attendee
         /\ SettleOffers(s, ts).available = s.available
         /\ SettleOffers(s, ts).offer =
                (s.offer \ (Due(s, ts) \cup AbandonedOffers(s, ts)))
                \cup {[o EXCEPT !.status = "expired"] : o \in Due(s, ts)}
                \cup {[o EXCEPT !.status = "pending"] : o \in AbandonedOffers(s, ts)}
         /\ SettleOffers(s, ts).ok => s.ok
  BY DEF SettleOffers, Require, DbFields, Due, AbandonedOffers

PromotionExpiry(ts) == Min2(ts + OfferLife, Min2(RegistrationEnds, StartsAt))
PromotedOffer(s, w, ts) == NewOffer(s, w.user, w.tier, PromotionExpiry(ts), "waitlist")

LEMMA PromoteFields ==
  ASSUME NEW s, DOMAIN s = DbFields, NEW T, NEW ready, NEW ts
  PROVE  /\ DOMAIN Promote(s, T, ready, ts) = DbFields
         /\ Promote(s, T, ready, ts).waitlist = s.waitlist \ Promotable(s, T, ready, ts)
         /\ Promote(s, T, ready, ts).purchase = s.purchase
         /\ Promote(s, T, ready, ts).attendee = s.attendee
         /\ Promote(s, T, ready, ts).available = s.available
         /\ Promote(s, T, ready, ts).offer =
                s.offer \cup {PromotedOffer(s, w, ts) : w \in Promotable(s, T, ready, ts)}
         /\ Promote(s, T, ready, ts).ok => s.ok
         /\ Promote(s, T, ready, ts).ok =>
                \A w \in Promotable(s, T, ready, ts) :
                    \A v \in s.waitlist \ Promotable(s, T, ready, ts) : v.user # w.user
  <1>. DEFINE heads == Promotable(s, T, ready, ts)
              left == [s EXCEPT !.waitlist = @ \ heads]
              n == Promote(s, T, ready, ts)
  <1>. HIDE DEF heads
  <1>1. /\ DOMAIN left = DbFields /\ left.waitlist = s.waitlist \ heads /\ left.offer = s.offer
        /\ left.purchase = s.purchase /\ left.attendee = s.attendee
        /\ left.available = s.available /\ left.ok = s.ok
    BY DEF DbFields
  <1>2. n = Require([left EXCEPT !.offer = @ \cup {PromotedOffer(s, w, ts) : w \in heads}],
                    \A w \in heads : OfferAllowed(left, w.user, NextId(s.offer, w.user)))
    BY DEF Promote, PromotedOffer, PromotionExpiry, heads
  <1>. HIDE DEF left, n
  <1>3. /\ DOMAIN n = DbFields /\ n.waitlist = left.waitlist /\ n.purchase = left.purchase
        /\ n.attendee = left.attendee /\ n.available = left.available
        /\ n.offer = left.offer \cup {PromotedOffer(s, w, ts) : w \in heads}
        /\ n.ok = (left.ok /\ \A w \in heads : OfferAllowed(left, w.user, NextId(s.offer, w.user)))
    BY <1>1, <1>2 DEF Require, DbFields
  <1>4. ASSUME n.ok, NEW w \in heads, NEW v \in left.waitlist PROVE v.user # w.user
    BY <1>3, <1>4 DEF OfferAllowed, Queued, Of
  <1>. QED
    BY <1>1, <1>3, <1>4 DEF n, heads

-----------------------------------------------------------------------------
(* Counting. *)

\* The image of a finite set is finite and no larger.
LEMMA FiniteImage ==
  ASSUME NEW S, IsFiniteSet(S), NEW f
  PROVE  /\ IsFiniteSet({f[x] : x \in S})
         /\ Cardinality({f[x] : x \in S}) <= Cardinality(S)
  <1>. DEFINE T == {f[x] : x \in S}
              g == [x \in S |-> f[x]]
  <1>1. g \in Surjection(S, T)
    BY DEF Surjection
  <1>. HIDE DEF T, g
  <1>2. IsFiniteSet(T) /\ Cardinality(T) <= Cardinality(S)
    BY <1>1, FS_Surjection
  <1>. QED
    BY <1>2 DEF T

\* At most k entries of a queue have fewer than k others ahead of them.
LEMMA HeadsOfQueue ==
  ASSUME NEW Q, IsFiniteSet(Q), \A w \in Q : Entry(w), NEW t, \A w \in Q : w.tier = t,
         NEW k \in Int,
         NEW H, H = {w \in Q : Cardinality({v \in Q : Ahead(v, w)}) < k}
  PROVE  IsFiniteSet(H) /\ (H = {} \/ Cardinality(H) <= k)
  <1>. DEFINE before(w) == {v \in Q : Ahead(v, w)}
              rank == [w \in H |-> Cardinality(before(w))]
  <1>0. \A w \in Q : w.user \in Nat /\ w.created_at \in Nat
    BY EnrollmentAssumption DEF Entry, WaitlistRow
  <1>1. IsFiniteSet(H)
    BY FS_Subset
  <1>2. \A w \in Q : IsFiniteSet(before(w)) /\ Cardinality(before(w)) \in Nat
    BY FS_Subset, FS_CardinalityType
  <1>3. ASSUME NEW v \in Q, NEW w \in Q, v # w
        PROVE  Cardinality(before(v)) # Cardinality(before(w))
    <2>1. Ahead(v, w) \/ Ahead(w, v)
      <3>1. v.created_at # w.created_at \/ v.user # w.user
        BY <1>3 DEF Entry, WaitlistRow
      <3>. QED
        BY <1>0, <3>1 DEF Ahead
    <2>2. ASSUME NEW a \in Q, NEW b \in Q, Ahead(a, b)
          PROVE  Cardinality(before(a)) # Cardinality(before(b))
      <3>1. before(a) \subseteq before(b)
        BY <1>0, <2>2 DEF Ahead
      <3>2. a \in before(b) /\ a \notin before(a)
        BY <1>0, <2>2 DEF Ahead
      <3>. QED
        BY <1>2, <3>1, <3>2, FS_Subset
    <2>. QED
      BY <2>1, <2>2
  <1>4. ASSUME H # {} PROVE Cardinality(H) <= k
    <2>1. k > 0
      <3>1. PICK w \in H : TRUE
        BY <1>4
      <3>2. Cardinality(before(w)) \in Nat /\ Cardinality(before(w)) < k
        BY <1>2, <3>1
      <3>. HIDE DEF before
      <3>. QED
        BY <3>2
    <2>2. rank \in Injection(H, 0..(k - 1))
      BY <1>2, <1>3 DEF Injection, IsInjective
    <2>3. IsFiniteSet(0..(k - 1)) /\ Cardinality(0..(k - 1)) = k
      BY <2>1, FS_Interval
    <2>. HIDE DEF rank
    <2>. QED
      BY <2>2, <2>3, FS_Injection
  <1>. QED
    BY <1>1, <1>4

-----------------------------------------------------------------------------
(* The invariant. *)

\* Seats of tier t that the tables s promise to somebody.
PromisedOf(s, t) ==
    SeatKeys({o \in s.offer : o.tier = t /\ o.status \in ActiveOffer},
             {p \in s.purchase : p.tier = t /\ Committed(p)})

Sold(s) == \A t \in Tiers : Cardinality(PromisedOf(s, t)) <= SeatsTotal[t]

Present == {"confirmed", "registration-questions-pending"}
Engaged == {"pending", "completed", "refund-requested"}

Exclusive(s) ==
    \A w \in s.waitlist :
        /\ \A o \in s.offer : o.user = w.user => o.status \notin ActiveOffer
        /\ \A a \in s.attendee : a.user = w.user => a.status \notin Present
        /\ \A p \in s.purchase : p.user = w.user => p.status \notin Engaged

\* A purchase, its refund job and its refund request.
Requested(p) ==
    /\ p.status = "refund-requested" => p.request \in {"pending", "approving"}
    /\ p.request = "pending" => p.status = "refund-requested" /\ p.job = "none"
    /\ p.request = "approving" =>
          /\ p.status \in {"refund-requested", "refund-pending"}
          /\ p.job \in {"queued", "failed"} /\ ~p.finalized
    /\ p.request = "approved" => p.finalized /\ p.status \in {"refunded", "refund-recovery-pending"}
    /\ p.finalized => p.status \in {"refunded", "refund-recovery-pending"}
    /\ p.status \in {"pending", "expired", "completed"} => p.job = "none"
    /\ p.request \in {"pending", "approving"} => PurchaseAmount(p) > 0

Requests(s) == \A p \in s.purchase : Requested(p)

\* A purchase names an offer of its user.
HasOffer(s, p) == p.offer # 0 => \E o \in s.offer : o.user = p.user /\ o.id = p.offer
Linked(s) == \A p \in s.purchase : HasOffer(s, p)

Good(s) == Shape(s) /\ Sold(s) /\ Exclusive(s) /\ Requests(s) /\ Linked(s)

LEMMA PromisedFinite ==
  ASSUME NEW s, Shape(s), NEW t
  PROVE  IsFiniteSet(PromisedOf(s, t)) /\ Cardinality(PromisedOf(s, t)) \in Nat
  <1>. DEFINE O == {o \in s.offer : o.tier = t /\ o.status \in ActiveOffer}
              P == {p \in s.purchase : p.tier = t /\ Committed(p)}
              f == [o \in O |-> <<o.user, "offer", o.id>>]
              g == [p \in P |-> SeatKey(p)]
  <1>1. IsFiniteSet(O) /\ IsFiniteSet(P)
    BY FS_Subset DEF Shape
  <1>2. IsFiniteSet({f[o] : o \in O}) /\ IsFiniteSet({g[p] : p \in P})
    BY ZenonT(40), <1>1, FiniteImage
  <1>3. PromisedOf(s, t) = {f[o] : o \in O} \cup {g[p] : p \in P}
    BY DEF PromisedOf, SeatKeys
  <1>. HIDE DEF O, P, f, g
  <1>4. IsFiniteSet(PromisedOf(s, t))
    BY <1>2, <1>3, FS_Union
  <1>. QED
    BY <1>4, FS_CardinalityType

\* n promises and holds nothing that s does not.
Narrower(s, n) ==
    /\ n.waitlist \subseteq s.waitlist
    /\ \A o \in n.offer : o.status \in ActiveOffer =>
          \E o1 \in s.offer : o1.status \in ActiveOffer /\ o1.tier = o.tier /\ o1.user = o.user /\ o1.id = o.id
    /\ \A p \in n.purchase : Committed(p) =>
          \E q \in s.purchase : Committed(q) /\ q.tier = p.tier /\ SeatKey(q) = SeatKey(p)
    /\ \A p \in n.purchase : p.status \in Engaged => \E q \in s.purchase : q.status \in Engaged /\ q.user = p.user
    /\ \A a \in n.attendee : a.status \in Present => \E b \in s.attendee : b.status \in Present /\ b.user = a.user

LEMMA NarrowerPromises ==
  ASSUME NEW s, NEW n, Narrower(s, n), NEW t
  PROVE  PromisedOf(n, t) \subseteq PromisedOf(s, t)
  BY DEF Narrower, PromisedOf, SeatKeys

LEMMA FewerPromised ==
  ASSUME NEW s, Good(s), NEW n, \A t \in Tiers : PromisedOf(n, t) \subseteq PromisedOf(s, t)
  PROVE  Sold(n)
  <1>1. ASSUME NEW t \in Tiers PROVE Cardinality(PromisedOf(n, t)) <= SeatsTotal[t]
    <2>1. IsFiniteSet(PromisedOf(s, t)) /\ Cardinality(PromisedOf(s, t)) \in Nat
      BY PromisedFinite DEF Good
    <2>2. Cardinality(PromisedOf(n, t)) <= Cardinality(PromisedOf(s, t)) /\ Cardinality(PromisedOf(n, t)) \in Nat
      BY <2>1, FS_Subset, FS_CardinalityType
    <2>. QED
      BY <2>1, <2>2, EnrollmentAssumption DEF Good, Sold
  <1>. QED
    BY <1>1 DEF Sold

LEMMA Narrowed ==
  ASSUME NEW s, Good(s), NEW n, Shape(n), Narrower(s, n), Requests(n), Linked(n)
  PROVE  Good(n)
  <1>1. Sold(n)
    BY NarrowerPromises, FewerPromised
  <1>2. Exclusive(n)
    BY DEF Good, Exclusive, Narrower
  <1>. QED
    BY <1>1, <1>2 DEF Good

\* Attendees only go away, or are no longer present.
FewerPresent(s, n) ==
    \A a \in n.attendee :
        /\ Attends(a)
        /\ a.status \in Present => \E b \in s.attendee : b.status \in Present /\ b.user = a.user

\* The purchase q may stand for p, which is one of the purchases of s.
Succeeds(s, q, p) ==
    /\ Bought(q) /\ Requested(q) /\ HasOffer(s, q)
    /\ Committed(q) => p \in s.purchase /\ Committed(p) /\ q.tier = p.tier /\ SeatKey(q) = SeatKey(p)
    /\ q.status \in Engaged => p \in s.purchase /\ p.status \in Engaged /\ q.user = p.user

LEMMA PurchasesRewritten ==
  ASSUME NEW s, Good(s), NEW n, DOMAIN n = DbFields,
         n.waitlist \subseteq s.waitlist, n.offer = s.offer, FewerPresent(s, n),
         NEW rows, IsFiniteSet(rows), NEW f, n.purchase \subseteq s.purchase \cup {f[p] : p \in rows},
         \A p \in rows : Succeeds(s, f[p], p)
  PROVE  Good(n) /\ Narrower(s, n)
  <1>1. Shape(n)
    <2>1. IsFiniteSet(n.purchase)
      <3>1. IsFiniteSet({f[p] : p \in rows})
        BY FiniteImage
      <3>2. IsFiniteSet(s.purchase \cup {f[p] : p \in rows})
        BY <3>1, FS_Union DEF Good, Shape
      <3>. QED
        BY <3>2, FS_Subset
    <2>2. IsFiniteSet(n.waitlist) /\ IsFiniteSet(n.offer)
      BY FS_Subset DEF Good, Shape
    <2>3. \A p \in n.purchase : Bought(p)
      BY DEF Good, Shape, Succeeds
    <2>. QED
      BY <2>1, <2>2, <2>3 DEF Good, Shape, FewerPresent
  <1>2. Requests(n)
    BY DEF Good, Requests, Succeeds
  <1>3. Narrower(s, n)
    <2>1. \A p \in n.purchase : Committed(p) =>
            \E q \in s.purchase : Committed(q) /\ q.tier = p.tier /\ SeatKey(q) = SeatKey(p)
      BY DEF Succeeds
    <2>2. \A p \in n.purchase : p.status \in Engaged => \E q \in s.purchase : q.status \in Engaged /\ q.user = p.user
      BY DEF Succeeds
    <2>3. \A o \in n.offer : o.status \in ActiveOffer =>
            \E o1 \in s.offer : o1.status \in ActiveOffer /\ o1.tier = o.tier /\ o1.user = o.user /\ o1.id = o.id
      OBVIOUS
    <2>. QED
      BY <2>1, <2>2, <2>3 DEF Narrower, FewerPresent
  <1>4. Linked(n)
    BY DEF Good, Linked, HasOffer, Succeeds
  <1>. QED
    BY <1>1, <1>2, <1>3, <1>4, Narrowed

LEMMA SubsetPresent ==
  ASSUME NEW s, Good(s), NEW n, n.attendee \subseteq s.attendee
  PROVE  FewerPresent(s, n)
  BY DEF Good, Shape, FewerPresent

\* The same for one row.
LEMMA PurchaseReplaced ==
  ASSUME NEW s, Good(s), NEW n, DOMAIN n = DbFields,
         n.waitlist \subseteq s.waitlist, n.offer = s.offer, FewerPresent(s, n),
         NEW p, NEW q, n.purchase = Replace(s.purchase, p, q), Succeeds(s, q, p)
  PROVE  Good(n)
  <1>. DEFINE f == [x \in {p} |-> q]
  <1>1. f[p] = q /\ {f[x] : x \in {p}} = {q}
    OBVIOUS
  <1>2. IsFiniteSet({p})
    BY FS_Singleton
  <1>3. n.purchase \subseteq s.purchase \cup {f[x] : x \in {p}}
    BY <1>1 DEF Replace
  <1>4. \A x \in {p} : Succeeds(s, f[x], x)
    BY <1>1
  <1>. HIDE DEF f
  <1>. QED
    BY <1>2, <1>3, <1>4, PurchasesRewritten

LEMMA ExpiredSucceeds ==
  ASSUME NEW s, NEW p, Bought(p), Requested(p), HasOffer(s, p), p.status = "pending", NEW ts \in Int
  PROVE  Succeeds(s, ExpiredRow(p, ts), p)
  <1>. DEFINE q == ExpiredRow(p, ts)
  <1>1. /\ DOMAIN q = PurchaseFields /\ q.status = "expired" /\ q.hold = Min2(p.hold, ts)
        /\ q.request = p.request /\ q.job = p.job /\ q.finalized = p.finalized
        /\ q.tier = p.tier /\ q.code = p.code /\ q.offer = p.offer /\ q.user = p.user
    BY DEF ExpiredRow, Bought, PurchaseFields
  <1>2. q.hold \in Int
    BY <1>1 DEF Min2, Bought
  <1>. HIDE DEF q
  <1>3. Bought(q)
    BY <1>1, <1>2 DEF Bought
  <1>4. Requested(q)
    BY <1>1 DEF Requested, PurchaseAmount
  <1>. QED
    BY <1>1, <1>3, <1>4 DEF Succeeds, HasOffer, Committed, Engaged, q

LEMMA ExpireGood ==
  ASSUME NEW s, Good(s), NEW rows, rows \subseteq {p \in s.purchase : p.status = "pending"}, NEW ts \in Int
  PROVE  Good(Expire(s, rows, ts)) /\ Narrower(s, Expire(s, rows, ts))
  <1>. DEFINE n == Expire(s, rows, ts)
              f == [p \in rows |-> ExpiredRow(p, ts)]
  <1>0. DOMAIN s = DbFields
    BY DEF Good, Shape
  <1>1. IsFiniteSet(rows)
    BY FS_Subset DEF Good, Shape
  <1>2. /\ DOMAIN n = DbFields /\ n.waitlist = s.waitlist /\ n.offer = s.offer
        /\ n.attendee \subseteq s.attendee
        /\ n.purchase \subseteq s.purchase \cup {f[p] : p \in rows}
    BY <1>0, ExpireFields
  <1>3. \A p \in rows : Succeeds(s, f[p], p)
    BY ExpiredSucceeds DEF Good, Shape, Requests, Linked
  <1>. HIDE DEF n, f
  <1>4. FewerPresent(s, n)
    BY <1>2, SubsetPresent
  <1>5. Good(n) /\ Narrower(s, n)
    BY <1>1, <1>2, <1>3, <1>4, PurchasesRewritten
  <1>. QED
    BY <1>5 DEF n

LEMMA SettleGood ==
  ASSUME NEW s, Good(s), NEW ts \in Int
  PROVE  /\ Good(SettleOffers(s, ts))
         /\ \A o \in s.offer : \E o1 \in SettleOffers(s, ts).offer : o1.user = o.user /\ o1.id = o.id
  <1>. DEFINE n == SettleOffers(s, ts)
              due == Due(s, ts)
              back == AbandonedOffers(s, ts)
              ended == [o \in due |-> [o EXCEPT !.status = "expired"]]
              given == [o \in back |-> [o EXCEPT !.status = "pending"]]
  <1>0. DOMAIN s = DbFields /\ \A o \in s.offer : DOMAIN o = OfferFields /\ o.expires \in Nat
    BY DEF Good, Shape, Offered
  <1>1. /\ DOMAIN n = DbFields /\ n.waitlist = s.waitlist /\ n.purchase = s.purchase
        /\ n.attendee = s.attendee
        /\ n.offer = (s.offer \ (due \cup back)) \cup {ended[o] : o \in due} \cup {given[o] : o \in back}
    BY <1>0, SettleFields
  <1>2. due \subseteq s.offer /\ back \subseteq s.offer /\ \A o \in back : o.status \in ActiveOffer
    BY DEF Due, AbandonedOffers, ActiveOffer
  <1>3. \A o \in due : /\ Offered(ended[o]) /\ ended[o].status \notin ActiveOffer
                       /\ ended[o].user = o.user /\ ended[o].id = o.id
    BY <1>0, <1>2 DEF Offered, OfferFields, ActiveOffer
  <1>4. \A o \in back : /\ Offered(given[o]) /\ given[o].tier = o.tier
                        /\ given[o].user = o.user /\ given[o].id = o.id
    BY <1>0, <1>2 DEF Offered, OfferFields
  <1>. HIDE DEF n, due, back, ended, given
  <1>5. IsFiniteSet(n.offer)
    <2>0. IsFiniteSet(s.offer) /\ s.offer \ (due \cup back) \subseteq s.offer
      BY DEF Good, Shape
    <2>1. IsFiniteSet(due) /\ IsFiniteSet(back) /\ IsFiniteSet(s.offer \ (due \cup back))
      BY <1>2, <2>0, FS_Subset
    <2>2. IsFiniteSet({ended[o] : o \in due}) /\ IsFiniteSet({given[o] : o \in back})
      BY <2>1, FiniteImage
    <2>3. IsFiniteSet((s.offer \ (due \cup back)) \cup {ended[o] : o \in due})
      BY <2>1, <2>2, FS_Union
    <2>4. IsFiniteSet((s.offer \ (due \cup back)) \cup {ended[o] : o \in due} \cup {given[o] : o \in back})
      BY <2>2, <2>3, FS_Union
    <2>. QED
      BY <1>1, <2>4
  <1>6. \A o \in n.offer : Offered(o)
    BY <1>1, <1>3, <1>4 DEF Good, Shape
  <1>7. Shape(n)
    BY <1>1, <1>5, <1>6 DEF Good, Shape
  <1>8. \A o \in n.offer : o.status \in ActiveOffer =>
            \E o1 \in s.offer : o1.status \in ActiveOffer /\ o1.tier = o.tier /\ o1.user = o.user /\ o1.id = o.id
    BY <1>1, <1>2, <1>3, <1>4
  <1>9. Narrower(s, n)
    BY <1>1, <1>8 DEF Narrower
  <1>10. \A o \in s.offer : \E o1 \in n.offer : o1.user = o.user /\ o1.id = o.id
    <2>1. ASSUME NEW o \in s.offer PROVE \E o1 \in n.offer : o1.user = o.user /\ o1.id = o.id
      <3>1. CASE o \in due
        BY <1>1, <1>3, <3>1
      <3>2. CASE o \in back
        BY <1>1, <1>4, <3>2
      <3>3. CASE o \notin due \cup back
        BY <1>1, <3>3
      <3>. QED
        BY <3>1, <3>2, <3>3
    <2>. QED
      BY <2>1
  <1>11. Linked(n)
    BY <1>1, <1>10 DEF Good, Linked, HasOffer
  <1>12. Good(n)
    BY <1>1, <1>7, <1>9, <1>11, Narrowed DEF Good, Requests
  <1>. QED
    BY <1>10, <1>12 DEF n

\* Nothing has lapsed at ts.
Live(s, ts) ==
    /\ \A o \in s.offer : o.status \in ActiveOffer => o.expires > ts
    /\ \A p \in s.purchase : p.status = "pending" => p.hold > ts

\* The seats that get_event_ticket_type_allocated_seat_count counts.
AllocatedOf(s, t, ts) ==
    SeatKeys({o \in s.offer : o.tier = t /\ LiveOffer(o, ts)},
             {p \in s.purchase : p.tier = t /\ (p.status \in SeatHolding \/ LivePending(p, ts))})

LEMMA AllocatedFinite ==
  ASSUME NEW s, IsFiniteSet(s.offer), IsFiniteSet(s.purchase), NEW t, NEW ts
  PROVE  /\ Allocated(s, t, ts) = Cardinality(AllocatedOf(s, t, ts))
         /\ IsFiniteSet(AllocatedOf(s, t, ts)) /\ Allocated(s, t, ts) \in Nat
  <1>. DEFINE O == {o \in s.offer : o.tier = t /\ LiveOffer(o, ts)}
              P == {p \in s.purchase : p.tier = t /\ (p.status \in SeatHolding \/ LivePending(p, ts))}
              f == [o \in O |-> <<o.user, "offer", o.id>>]
              g == [p \in P |-> SeatKey(p)]
  <1>0. Allocated(s, t, ts) = Cardinality(AllocatedOf(s, t, ts))
    BY DEF Allocated, AllocatedOf
  <1>1. IsFiniteSet(O) /\ IsFiniteSet(P)
    BY FS_Subset
  <1>2. IsFiniteSet({f[o] : o \in O}) /\ IsFiniteSet({g[p] : p \in P})
    BY ZenonT(40), <1>1, FiniteImage
  <1>3. AllocatedOf(s, t, ts) = {f[o] : o \in O} \cup {g[p] : p \in P}
    BY DEF AllocatedOf, SeatKeys
  <1>. HIDE DEF O, P, f, g
  <1>4. IsFiniteSet(AllocatedOf(s, t, ts))
    BY <1>2, <1>3, FS_Union
  <1>. QED
    BY <1>0, <1>4, FS_CardinalityType

LEMMA AllocatedCounts ==
  ASSUME NEW s, Shape(s), NEW t, NEW ts
  PROVE  /\ Allocated(s, t, ts) = Cardinality(AllocatedOf(s, t, ts))
         /\ IsFiniteSet(AllocatedOf(s, t, ts)) /\ Allocated(s, t, ts) \in Nat
  BY AllocatedFinite DEF Shape

\* When nothing has lapsed every promised seat is counted.
LEMMA PromisedCounted ==
  ASSUME NEW s, Shape(s), NEW ts, Live(s, ts), NEW t
  PROVE  /\ Cardinality(PromisedOf(s, t)) <= Allocated(s, t, ts)
         /\ Cardinality(PromisedOf(s, t)) \in Nat /\ Allocated(s, t, ts) \in Nat
  <1>1. \A o \in s.offer : o.status \in ActiveOffer => LiveOffer(o, ts)
    BY DEF Live, LiveOffer
  <1>2. \A p \in s.purchase : Committed(p) => p.status \in SeatHolding \/ LivePending(p, ts)
    BY DEF Live, Committed, SeatHolding, LivePending
  <1>3. PromisedOf(s, t) \subseteq AllocatedOf(s, t, ts)
    BY <1>1, <1>2 DEF PromisedOf, AllocatedOf, SeatKeys
  <1>. QED
    BY <1>3, AllocatedCounts, PromisedFinite, FS_Subset

LEMMA ExpireHoldsGood ==
  ASSUME NEW s, Good(s), NEW ts \in Nat
  PROVE  /\ Good(ExpireHolds(s, ts))
         /\ \A p \in ExpireHolds(s, ts).purchase : p.status = "pending" => p.hold > ts
         /\ ExpireHolds(s, ts).ok = s.ok
         /\ ExpireHolds(s, ts).waitlist = s.waitlist /\ ExpireHolds(s, ts).offer = s.offer
         /\ \A p \in s.purchase : \E q \in ExpireHolds(s, ts).purchase : q.user = p.user /\ q.id = p.id
         /\ \A p \in s.purchase :
                \/ p \in ExpireHolds(s, ts).purchase
                \/ /\ p.status = "pending"
                   /\ p.hold <= ts \/ \E o \in ActiveOffers(s, p.user) : o.id = p.offer /\ o.expires <= ts
  <1>. DEFINE rows == {p \in s.purchase :
                        /\ p.status = "pending"
                        /\ \/ p.hold <= ts
                           \/ \E o \in ActiveOffers(s, p.user) : o.id = p.offer /\ o.expires <= ts}
  <1>1. ExpireHolds(s, ts) = Expire(s, rows, ts)
    BY DEF ExpireHolds
  <1>2. Good(Expire(s, rows, ts))
    BY ExpireGood
  <1>3. /\ Expire(s, rows, ts).purchase = (s.purchase \ rows) \cup {ExpiredRow(p, ts) : p \in rows}
        /\ Expire(s, rows, ts).ok = s.ok
        /\ Expire(s, rows, ts).waitlist = s.waitlist /\ Expire(s, rows, ts).offer = s.offer
    BY ExpireFields DEF Good, Shape
  <1>4. \A p \in rows : /\ ExpiredRow(p, ts).status # "pending"
                        /\ ExpiredRow(p, ts).user = p.user /\ ExpiredRow(p, ts).id = p.id
    BY DEF ExpiredRow, Good, Shape, Bought, PurchaseFields
  <1>5. \A p \in s.purchase \ rows : p.status = "pending" => p.hold > ts
    BY DEF Good, Shape, Bought
  <1>6. \A p \in rows : /\ p.status = "pending"
                        /\ p.hold <= ts \/ \E o \in ActiveOffers(s, p.user) : o.id = p.offer /\ o.expires <= ts
    OBVIOUS
  <1>. HIDE DEF rows
  <1>7. \A p \in s.purchase : \E q \in ExpireHolds(s, ts).purchase : q.user = p.user /\ q.id = p.id
    <2>1. ASSUME NEW p \in s.purchase PROVE \E q \in Expire(s, rows, ts).purchase : q.user = p.user /\ q.id = p.id
      <3>1. CASE p \in rows
        BY <1>3, <1>4, <3>1
      <3>2. CASE p \notin rows
        BY <1>3, <3>2
      <3>. QED
        BY <3>1, <3>2
    <2>. QED
      BY <1>1, <2>1
  <1>. QED
    BY <1>1, <1>2, <1>3, <1>4, <1>5, <1>6, <1>7

LEMMA SettleLive ==
  ASSUME NEW s, Good(s), NEW ts \in Nat, \A p \in s.purchase : p.status = "pending" => p.hold > ts
  PROVE  Live(SettleOffers(s, ts), ts)
  <1>0. DOMAIN s = DbFields /\ \A o \in s.offer : DOMAIN o = OfferFields /\ o.expires \in Nat
    BY DEF Good, Shape, Offered
  <1>1. /\ SettleOffers(s, ts).purchase = s.purchase
        /\ SettleOffers(s, ts).offer =
                (s.offer \ (Due(s, ts) \cup AbandonedOffers(s, ts)))
                \cup {[o EXCEPT !.status = "expired"] : o \in Due(s, ts)}
                \cup {[o EXCEPT !.status = "pending"] : o \in AbandonedOffers(s, ts)}
    BY <1>0, SettleFields
  <1>2. \A o \in s.offer \ Due(s, ts) : o.status \in ActiveOffer => o.expires > ts
    BY <1>0 DEF Due
  <1>3. \A o \in Due(s, ts) : [o EXCEPT !.status = "expired"].status \notin ActiveOffer
    BY <1>0 DEF Due, OfferFields, ActiveOffer
  <1>4. \A o \in AbandonedOffers(s, ts) : [o EXCEPT !.status = "pending"].expires > ts
    BY <1>0, <1>2 DEF AbandonedOffers, OfferFields, ActiveOffer
  <1>. QED
    BY <1>1, <1>2, <1>3, <1>4 DEF Live

\* The entries of one tier that a promotion takes are no more than its seats.
LEMMA HeadsFit ==
  ASSUME NEW s, Good(s), NEW T, NEW ready, NEW ts \in Nat, NEW t \in Tiers,
         NEW heads, heads = {w \in Promotable(s, T, ready, ts) : w.tier = t}
  PROVE  /\ IsFiniteSet(heads)
         /\ heads = {} \/ Cardinality(heads) <= SeatsTotal[t] - Allocated(s, t, ts)
  <1>. DEFINE Q == {w \in s.waitlist : w.tier = t}
              k == SeatsTotal[t] - Allocated(s, t, ts)
              H == {w \in Q : Cardinality({v \in Q : Ahead(v, w)}) < k}
  <1>1. IsFiniteSet(Q) /\ (\A w \in Q : Entry(w)) /\ k \in Int
    <2>1. SeatsTotal[t] \in Nat
      BY EnrollmentAssumption
    <2>2. Allocated(s, t, ts) \in Nat
      BY AllocatedCounts DEF Good
    <2>. QED
      BY <2>1, <2>2, FS_Subset DEF Good, Shape
  <1>2. heads \subseteq H
    <2>1. ASSUME NEW w \in heads PROVE w \in H
      <3>1. /\ w \in Q
            /\ Cardinality({v \in s.waitlist : v.tier = w.tier /\ Ahead(v, w)}) < SeatsTotal[w.tier] - Allocated(s, w.tier, ts)
        BY DEF Promotable
      <3>2. {v \in s.waitlist : v.tier = w.tier /\ Ahead(v, w)} = {v \in Q : Ahead(v, w)}
        BY <3>1
      <3>. QED
        BY <3>1, <3>2
    <2>. QED
      BY <2>1
  <1>3. \A w \in Q : w.tier = t
    OBVIOUS
  <1>. HIDE DEF Q, k
  <1>4. IsFiniteSet(H) /\ (H = {} \/ Cardinality(H) <= k)
    BY <1>1, <1>3, HeadsOfQueue
  <1>. HIDE DEF H
  <1>5. IsFiniteSet(heads) /\ Cardinality(heads) <= Cardinality(H)
    BY <1>2, <1>4, FS_Subset
  <1>6. Cardinality(heads) \in Nat /\ Cardinality(H) \in Nat
    BY <1>4, <1>5, FS_CardinalityType
  <1>7. heads = {} \/ Cardinality(heads) <= k
    BY <1>1, <1>2, <1>4, <1>5, <1>6
  <1>. QED
    BY <1>5, <1>7 DEF k

LEMMA PromotedLive ==
  ASSUME NEW s, NEW T, NEW ready, NEW ts \in Nat, NEW w \in Promotable(s, T, ready, ts)
  PROVE  /\ Offered(PromotedOffer(s, w, ts))
         /\ PromotedOffer(s, w, ts).expires > ts
         /\ PromotedOffer(s, w, ts).user = w.user /\ PromotedOffer(s, w, ts).tier = w.tier
  <1>1. StartsAt > ts /\ RegistrationEnds > ts
    BY EnrollmentAssumption DEF Promotable, PromotionOpen, RegistrationOpen
  <1>2. PromotionExpiry(ts) \in Nat /\ PromotionExpiry(ts) > ts
    BY <1>1, EnrollmentAssumption DEF PromotionExpiry, Min2
  <1>. QED
    BY <1>2 DEF PromotedOffer, NewOffer, Offered, OfferFields

LEMMA PromoteGood ==
  ASSUME NEW s, Good(s), NEW T, NEW ready, NEW ts \in Nat, Live(s, ts), Promote(s, T, ready, ts).ok
  PROVE  Good(Promote(s, T, ready, ts)) /\ Live(Promote(s, T, ready, ts), ts)
  <1>. DEFINE n == Promote(s, T, ready, ts)
              heads == Promotable(s, T, ready, ts)
              f == [w \in heads |-> PromotedOffer(s, w, ts)]
  <1>0. Shape(s) /\ DOMAIN s = DbFields
    BY DEF Good, Shape
  <1>1. /\ DOMAIN n = DbFields /\ n.waitlist = s.waitlist \ heads
        /\ n.purchase = s.purchase /\ n.attendee = s.attendee
        /\ n.offer = s.offer \cup {f[w] : w \in heads}
        /\ \A w \in heads : \A v \in n.waitlist : v.user # w.user
    BY <1>0, PromoteFields
  <1>2. \A w \in heads : Offered(f[w]) /\ f[w].expires > ts /\ f[w].user = w.user /\ f[w].tier = w.tier
    BY PromotedLive
  <1>3. heads \subseteq s.waitlist /\ IsFiniteSet(heads)
    BY <1>0, FS_Subset DEF Promotable, Shape
  <1>. HIDE DEF n, f
  <1>4. Shape(n)
    <2>1. IsFiniteSet({f[w] : w \in heads})
      BY <1>3, FiniteImage
    <2>2. IsFiniteSet(s.offer \cup {f[w] : w \in heads})
      BY <1>0, <2>1, FS_Union DEF Shape
    <2>3. IsFiniteSet(n.waitlist)
      BY <1>0, <1>1, FS_Subset DEF Shape
    <2>. QED
      BY <1>0, <1>1, <1>2, <2>2, <2>3 DEF Shape
  <1>5. ASSUME NEW t \in Tiers PROVE Cardinality(PromisedOf(n, t)) <= SeatsTotal[t]
    <2>. DEFINE mine == {w \in heads : w.tier = t}
                key == [w \in mine |-> <<f[w].user, "offer", f[w].id>>]
                new == {key[w] : w \in mine}
    <2>1. IsFiniteSet(mine) /\ (mine = {} \/ Cardinality(mine) <= SeatsTotal[t] - Allocated(s, t, ts))
      BY HeadsFit
    <2>2. PromisedOf(n, t) \subseteq PromisedOf(s, t) \cup new
      <3>1. ASSUME NEW o \in n.offer, o.tier = t, o.status \in ActiveOffer
            PROVE  <<o.user, "offer", o.id>> \in PromisedOf(s, t) \cup new
        <4>1. CASE o \in s.offer
          BY <3>1, <4>1 DEF PromisedOf, SeatKeys
        <4>2. ASSUME NEW w \in heads, o = f[w] PROVE <<o.user, "offer", o.id>> \in new
          BY <1>2, <3>1, <4>2
        <4>. QED
          BY <1>1, <4>1, <4>2
      <3>2. ASSUME NEW p \in n.purchase, p.tier = t, Committed(p) PROVE SeatKey(p) \in PromisedOf(s, t)
        BY <1>1, <3>2 DEF PromisedOf, SeatKeys
      <3>. HIDE DEF new
      <3>3. \A k \in PromisedOf(n, t) :
                \/ \E o \in n.offer : o.tier = t /\ o.status \in ActiveOffer /\ k = <<o.user, "offer", o.id>>
                \/ \E p \in n.purchase : p.tier = t /\ Committed(p) /\ k = SeatKey(p)
        BY DEF PromisedOf, SeatKeys
      <3>. QED
        BY <3>1, <3>2, <3>3
    <2>3. /\ Cardinality(PromisedOf(s, t)) <= Allocated(s, t, ts)
          /\ Cardinality(PromisedOf(s, t)) \in Nat /\ Allocated(s, t, ts) \in Nat
          /\ IsFiniteSet(PromisedOf(s, t))
      BY <1>0, PromisedCounted, PromisedFinite
    <2>4. SeatsTotal[t] \in Nat
      BY EnrollmentAssumption
    <2>5. CASE mine = {}
      <3>1. PromisedOf(n, t) \subseteq PromisedOf(s, t)
        BY <2>2, <2>5
      <3>2. Cardinality(PromisedOf(n, t)) <= Cardinality(PromisedOf(s, t)) /\ Cardinality(PromisedOf(n, t)) \in Nat
        BY <2>3, <3>1, FS_Subset, FS_CardinalityType
      <3>. QED
        BY <2>3, <2>4, <3>2 DEF Good, Sold
    <2>6. CASE mine # {}
      <3>. HIDE DEF key, mine
      <3>1. IsFiniteSet(new) /\ Cardinality(new) <= Cardinality(mine)
        BY <2>1, FiniteImage
      <3>. HIDE DEF new
      <3>2. Cardinality(new) \in Nat /\ Cardinality(mine) \in Nat /\ Cardinality(PromisedOf(s, t) \cap new) \in Nat
        BY <2>1, <3>1, FS_CardinalityType, FS_Subset
      <3>3. /\ IsFiniteSet(PromisedOf(s, t) \cup new)
            /\ Cardinality(PromisedOf(s, t) \cup new) =
                 Cardinality(PromisedOf(s, t)) + Cardinality(new) - Cardinality(PromisedOf(s, t) \cap new)
        BY <2>3, <3>1, FS_Union
      <3>4. Cardinality(PromisedOf(n, t)) <= Cardinality(PromisedOf(s, t) \cup new) /\ Cardinality(PromisedOf(n, t)) \in Nat
        BY <2>2, <3>3, FS_Subset, FS_CardinalityType
      <3>. QED
        BY <2>1, <2>3, <2>4, <2>6, <3>1, <3>2, <3>3, <3>4
    <2>. QED
      BY <2>5, <2>6
  <1>6. Exclusive(n)
    BY <1>1, <1>2 DEF Good, Exclusive
  <1>7. Live(n, ts)
    BY <1>1, <1>2 DEF Live
  <1>8. Requests(n)
    BY <1>1 DEF Good, Requests
  <1>9. Linked(n)
    BY <1>1 DEF Good, Linked, HasOffer
  <1>. QED
    BY <1>4, <1>5, <1>6, <1>7, <1>8, <1>9 DEF Good, Sold, n

\* Reconciliation keeps the invariant, and after it nothing has lapsed.
LEMMA ReconcileGood ==
  ASSUME NEW s, Good(s), NEW T, NEW ready, NEW ts \in Nat, Reconcile(s, T, ready, ts).ok
  PROVE  /\ Good(Reconcile(s, T, ready, ts)) /\ Live(Reconcile(s, T, ready, ts), ts)
         /\ s.ok
         /\ \A o \in s.offer : \E o1 \in Reconcile(s, T, ready, ts).offer : o1.user = o.user /\ o1.id = o.id
         /\ Reconcile(s, T, ready, ts).purchase = ExpireHolds(s, ts).purchase
  <1>. DEFINE a == ExpireHolds(s, ts)
              b == SettleOffers(a, ts)
              n == Promote(b, T, ready, ts)
  <1>0. n = Reconcile(s, T, ready, ts)
    BY DEF Reconcile
  <1>1. Good(a) /\ (\A p \in a.purchase : p.status = "pending" => p.hold > ts) /\ a.ok = s.ok /\ a.offer = s.offer
    BY ExpireHoldsGood
  <1>. HIDE DEF a
  <1>2. /\ Good(b) /\ Live(b, ts) /\ DOMAIN b = DbFields /\ (b.ok => a.ok) /\ b.purchase = a.purchase
        /\ \A o \in a.offer : \E o1 \in b.offer : o1.user = o.user /\ o1.id = o.id
    BY <1>1, SettleGood, SettleLive, SettleFields DEF Good, Shape
  <1>. HIDE DEF b
  <1>3. n.ok /\ b.ok /\ b.offer \subseteq n.offer /\ n.purchase = b.purchase
    BY <1>0, <1>2, PromoteFields
  <1>4. Good(n) /\ Live(n, ts)
    BY <1>2, <1>3, PromoteGood
  <1>. HIDE DEF n
  <1>5. \A o \in s.offer : \E o1 \in n.offer : o1.user = o.user /\ o1.id = o.id
    BY <1>1, <1>2, <1>3
  <1>6. n.purchase = ExpireHolds(s, ts).purchase
    BY <1>2, <1>3 DEF a
  <1>. QED
    BY <1>0, <1>1, <1>2, <1>3, <1>4, <1>5, <1>6

-----------------------------------------------------------------------------
(* Queues and attendance. *)

\* The same offers and purchases promise the same.
LEMMA SameInventory ==
  ASSUME NEW s, Good(s), NEW n, n.offer = s.offer, n.purchase = s.purchase
  PROVE  Sold(n) /\ Requests(n) /\ Linked(n)
  <1>1. \A t \in Tiers : PromisedOf(n, t) = PromisedOf(s, t)
    BY DEF PromisedOf
  <1>. QED
    BY <1>1 DEF Good, Sold, Requests, Linked, HasOffer

LEMMA JoinGood ==
  ASSUME NEW s, Good(s), NEW u \in Users, NEW t \in Public, NEW ts \in Nat,
         \A p \in s.purchase : p.user = u => p.status \notin Engaged,
         JoinWaitlist(s, u, t, ts).ok
  PROVE  Good(JoinWaitlist(s, u, t, ts))
  <1>. DEFINE n == JoinWaitlist(s, u, t, ts)
              out == [s EXCEPT !.waitlist = @ \ Of(@, u),
                               !.attendee = {a \in @ : ~(a.user = u /\ a.status = "attendance-canceled")}]
              new == [user |-> u, tier |-> t, created_at |-> ts]
  <1>0. Shape(s) /\ DOMAIN s = DbFields
    BY DEF Good, Shape
  <1>1. /\ DOMAIN out = DbFields /\ out.waitlist \subseteq s.waitlist /\ out.attendee \subseteq s.attendee
        /\ out.offer = s.offer /\ out.purchase = s.purchase /\ out.ok = s.ok
    BY <1>0 DEF DbFields
  <1>2. n = Require([out EXCEPT !.waitlist = @ \cup {new}], WaitlistAllowed(out, u))
    BY DEF JoinWaitlist
  <1>3. Entry(new) /\ new.user = u
    BY DEF Entry, WaitlistRow
  <1>. HIDE DEF out, n, new
  <1>4. /\ DOMAIN n = DbFields /\ n.waitlist = out.waitlist \cup {new} /\ n.attendee = out.attendee
        /\ n.offer = s.offer /\ n.purchase = s.purchase
        /\ n.ok = (out.ok /\ WaitlistAllowed(out, u))
    BY <1>1, <1>2 DEF Require, DbFields
  <1>5. /\ \A a \in n.attendee : a.user # u
        /\ \A o \in n.offer : o.user = u => o.status \notin ActiveOffer
    <2>1. WaitlistAllowed(out, u)
      BY <1>4 DEF n
    <2>. QED
      BY <1>1, <1>4, <2>1 DEF WaitlistAllowed, Of, ActiveOffers
  <1>6. Shape(n)
    <2>1. IsFiniteSet(out.waitlist)
      BY <1>0, <1>1, FS_Subset DEF Shape
    <2>2. IsFiniteSet(out.waitlist \cup {new})
      BY <2>1, FS_AddElement
    <2>. QED
      BY <1>0, <1>1, <1>3, <1>4, <2>2 DEF Shape
  <1>7. Exclusive(n)
    BY <1>1, <1>3, <1>4, <1>5 DEF Good, Exclusive
  <1>. QED
    BY <1>4, <1>6, <1>7, SameInventory DEF Good, n

\* Attendees of the users in rows change their status to one their trigger
\* allows, which it does for nobody who is queued.
LEMMA AttendanceFields ==
  ASSUME NEW s, DOMAIN s = DbFields, NEW rows, NEW status
  PROVE  /\ DOMAIN SetAttendance(s, rows, status) = DbFields
         /\ SetAttendance(s, rows, status).waitlist = s.waitlist
         /\ SetAttendance(s, rows, status).offer = s.offer
         /\ SetAttendance(s, rows, status).purchase = s.purchase
         /\ SetAttendance(s, rows, status).available = s.available
         /\ SetAttendance(s, rows, status).attendee =
                (s.attendee \ rows) \cup {[a EXCEPT !.status = status] : a \in rows}
         /\ SetAttendance(s, rows, status).ok => s.ok
         /\ SetAttendance(s, rows, status).ok => \A a \in rows : \A w \in s.waitlist : w.user # a.user
  <1>. DEFINE n == SetAttendance(s, rows, status)
  <1>1. /\ DOMAIN n = DbFields /\ n.waitlist = s.waitlist /\ n.offer = s.offer
        /\ n.purchase = s.purchase /\ n.available = s.available
        /\ n.attendee = (s.attendee \ rows) \cup {[a EXCEPT !.status = status] : a \in rows}
        /\ n.ok = (s.ok /\ \A a \in rows : AttendeeAllowed(s, a.user, status))
    BY DEF SetAttendance, Require, DbFields
  <1>. HIDE DEF n
  <1>2. ASSUME n.ok, NEW a \in rows, NEW w \in s.waitlist PROVE w.user # a.user
    BY <1>1, <1>2 DEF AttendeeAllowed, Queued, Of
  <1>. QED
    BY <1>1, <1>2 DEF n

LEMMA AttendanceGood ==
  ASSUME NEW s, Good(s), NEW rows, rows \subseteq s.attendee, NEW status,
         SetAttendance(s, rows, status).ok
  PROVE  Good(SetAttendance(s, rows, status))
  <1>. DEFINE n == SetAttendance(s, rows, status)
  <1>0. Shape(s) /\ DOMAIN s = DbFields /\ \A a \in rows : DOMAIN a = AttendeeFields
    BY DEF Good, Shape, Attends
  <1>1. /\ DOMAIN n = DbFields /\ n.waitlist = s.waitlist /\ n.offer = s.offer /\ n.purchase = s.purchase
        /\ n.attendee = (s.attendee \ rows) \cup {[a EXCEPT !.status = status] : a \in rows}
        /\ \A a \in rows : \A w \in s.waitlist : w.user # a.user
    BY <1>0, AttendanceFields
  <1>. HIDE DEF n
  <1>2. \A a \in rows : Attends([a EXCEPT !.status = status]) /\ [a EXCEPT !.status = status].user = a.user
    BY <1>0 DEF Attends, AttendeeFields
  <1>3. Shape(n)
    BY <1>0, <1>1, <1>2 DEF Shape
  <1>4. \A b \in n.attendee : b \in s.attendee \/ \E a \in rows : b.user = a.user
    BY ZenonT(40), <1>1, <1>2
  <1>5. \A w \in n.waitlist : \A b \in n.attendee : b.user = w.user => b \in s.attendee
    BY <1>1, <1>4
  <1>6. Exclusive(n)
    <2>1. \A w \in n.waitlist : \A a \in n.attendee : a.user = w.user => a.status \notin Present
      BY <1>1, <1>5 DEF Good, Exclusive
    <2>. QED
      BY <1>1, <2>1 DEF Good, Exclusive
  <1>. QED
    BY <1>1, <1>3, <1>6, SameInventory DEF Good, n

LEMMA UpsertGood ==
  ASSUME NEW s, Good(s), NEW u, UpsertAnswers(s, u).ok
  PROVE  /\ Good(UpsertAnswers(s, u)) /\ s.ok
         /\ UpsertAnswers(s, u).waitlist = s.waitlist
         /\ UpsertAnswers(s, u).offer = s.offer /\ UpsertAnswers(s, u).purchase = s.purchase
  <1>. DEFINE n == UpsertAnswers(s, u)
              status == "registration-questions-pending"
              rows == {a \in Of(s.attendee, u) : a.status # "confirmed"}
              m == SetAttendance(s, rows, status)
              new == [user |-> u, status |-> status, manual |-> FALSE]
  <1>0. Shape(s) /\ DOMAIN s = DbFields
    BY DEF Good, Shape
  <1>1. CASE ~HasQuestions
    <2>1. UpsertAnswers(s, u) = s
      BY <1>1 DEF UpsertAnswers
    <2>. QED
      BY <2>1
  <1>2. CASE HasQuestions /\ Of(s.attendee, u) # {}
    <2>1. n = Require(m, AttendeeAllowed(s, u, status))
      BY <1>2 DEF UpsertAnswers
    <2>2. /\ DOMAIN m = DbFields /\ m.waitlist = s.waitlist /\ m.offer = s.offer /\ m.purchase = s.purchase
          /\ m.ok => s.ok
      BY <1>0, AttendanceFields
    <2>. HIDE DEF n, m
    <2>3. /\ DOMAIN n = DbFields /\ n.waitlist = m.waitlist /\ n.offer = m.offer /\ n.purchase = m.purchase
          /\ n.attendee = m.attendee /\ n.ok = (m.ok /\ AttendeeAllowed(s, u, status))
      BY <2>1, <2>2 DEF Require, DbFields
    <2>4. m.ok
      BY <2>3 DEF n
    <2>5. Good(m)
      BY <2>4, AttendanceGood DEF Of, m
    <2>6. Shape(n) /\ Exclusive(n)
      BY <2>3, <2>5 DEF Good, Shape, Exclusive
    <2>7. Good(n)
      BY <2>3, <2>5, <2>6, SameInventory DEF Good
    <2>. QED
      BY <2>2, <2>3, <2>4, <2>7 DEF n
  <1>3. CASE HasQuestions /\ Of(s.attendee, u) = {}
    <2>1. n = Require([s EXCEPT !.attendee = @ \cup {new}], AttendeeAllowed(s, u, status))
      BY <1>3 DEF UpsertAnswers
    <2>. HIDE DEF n
    <2>2. /\ DOMAIN n = DbFields /\ n.waitlist = s.waitlist /\ n.offer = s.offer /\ n.purchase = s.purchase
          /\ n.attendee = s.attendee \cup {new} /\ n.ok = (s.ok /\ AttendeeAllowed(s, u, status))
      BY <1>0, <2>1 DEF Require, DbFields
    <2>3. s.ok /\ \A w \in s.waitlist : w.user # u
      BY <2>2 DEF n, AttendeeAllowed, Queued, Of
    <2>4. Attends(new) /\ new.user = u
      BY DEF Attends, AttendeeFields
    <2>. HIDE DEF new
    <2>5. Shape(n)
      BY <1>0, <2>2, <2>4 DEF Shape
    <2>6. Exclusive(n)
      BY <2>2, <2>3, <2>4 DEF Good, Exclusive
    <2>. QED
      BY <2>2, <2>3, <2>5, <2>6, SameInventory DEF Good, n
  <1>. HIDE DEF n, m, new, rows
  <1>. QED
    BY <1>1, <1>2, <1>3

-----------------------------------------------------------------------------
(* Seats given away. *)

\* One more key fits a tier whose allocated seats are fewer than its seats.
LEMMA OneMoreSeat ==
  ASSUME NEW s, Good(s), NEW ts, Live(s, ts), NEW t, Allocated(s, t, ts) < SeatsTotal[t], NEW n, NEW key,
         \A x \in Tiers : PromisedOf(n, x) \subseteq PromisedOf(s, x) \/ x = t,
         PromisedOf(n, t) \subseteq PromisedOf(s, t) \cup {key}
  PROVE  Sold(n)
  <1>. SUFFICES ASSUME NEW x \in Tiers PROVE Cardinality(PromisedOf(n, x)) <= SeatsTotal[x]
    BY DEF Sold
  <1>0. Shape(s) /\ SeatsTotal[x] \in Nat
    BY EnrollmentAssumption DEF Good
  <1>1. /\ IsFiniteSet(PromisedOf(s, x)) /\ Cardinality(PromisedOf(s, x)) \in Nat
        /\ Cardinality(PromisedOf(s, x)) <= SeatsTotal[x]
    BY <1>0, PromisedFinite DEF Good, Sold
  <1>2. CASE PromisedOf(n, x) \subseteq PromisedOf(s, x)
    <2>1. Cardinality(PromisedOf(n, x)) <= Cardinality(PromisedOf(s, x)) /\ Cardinality(PromisedOf(n, x)) \in Nat
      BY <1>1, <1>2, FS_Subset, FS_CardinalityType
    <2>. QED
      BY <1>0, <1>1, <2>1
  <1>3. CASE x = t
    <2>. DEFINE more == PromisedOf(s, t) \cup {key}
    <2>0. IsFiniteSet(PromisedOf(s, t)) /\ Cardinality(PromisedOf(s, t)) \in Nat
      BY <1>1, <1>3
    <2>1. IsFiniteSet(more) /\ Cardinality(more) <= Cardinality(PromisedOf(s, t)) + 1 /\ Cardinality(more) \in Nat
      <3>1. /\ IsFiniteSet(more)
            /\ Cardinality(more) = IF key \in PromisedOf(s, t) THEN Cardinality(PromisedOf(s, t))
                                   ELSE Cardinality(PromisedOf(s, t)) + 1
        BY <2>0, FS_AddElement
      <3>. HIDE DEF more
      <3>. QED
        BY <2>0, <3>1
    <2>2. PromisedOf(n, t) \subseteq more
      OBVIOUS
    <2>. HIDE DEF more
    <2>3. Cardinality(PromisedOf(n, t)) <= Cardinality(more) /\ Cardinality(PromisedOf(n, t)) \in Nat
      BY <2>1, <2>2, FS_Subset, FS_CardinalityType
    <2>4. /\ Cardinality(PromisedOf(s, t)) <= Allocated(s, t, ts) /\ Allocated(s, t, ts) \in Nat
      BY <1>0, PromisedCounted
    <2>. QED
      BY <1>0, <1>1, <1>3, <2>1, <2>3, <2>4
  <1>. QED
    BY <1>2, <1>3

LEMMA InviteGood ==
  ASSUME NEW s, Good(s), NEW u, NEW t, NEW ts \in Nat, Live(s, ts), Allocated(s, t, ts) < SeatsTotal[t],
         InvitationExpiry(ts) > ts, Invite(s, u, t, ts).ok
  PROVE  Good(Invite(s, u, t, ts))
  <1>. DEFINE n == Invite(s, u, t, ts)
              out == [s EXCEPT !.waitlist = @ \ Of(@, u)]
              new == NewOffer(s, u, t, InvitationExpiry(ts), "organizer_invitation")
  <1>0. Shape(s) /\ DOMAIN s = DbFields
    BY DEF Good, Shape
  <1>1. /\ DOMAIN out = DbFields /\ out.waitlist \subseteq s.waitlist /\ (\A w \in out.waitlist : w.user # u)
        /\ out.offer = s.offer /\ out.purchase = s.purchase /\ out.attendee = s.attendee
    BY <1>0 DEF DbFields, Of
  <1>2. n = Require([out EXCEPT !.offer = @ \cup {new}], OfferAllowed(out, u, new.id))
    BY DEF Invite
  <1>3. Offered(new) /\ new.user = u /\ new.tier = t
    <2>1. InvitationExpiry(ts) \in Nat
      BY EnrollmentAssumption DEF InvitationExpiry, Min2
    <2>. QED
      BY <2>1 DEF NewOffer, Offered, OfferFields
  <1>. HIDE DEF out, n, new
  <1>4. /\ DOMAIN n = DbFields /\ n.waitlist = out.waitlist /\ n.attendee = s.attendee
        /\ n.offer = s.offer \cup {new} /\ n.purchase = s.purchase
    BY <1>1, <1>2 DEF Require, DbFields
  <1>5. Shape(n)
    <2>1. IsFiniteSet(s.waitlist) /\ IsFiniteSet(s.offer)
      BY <1>0 DEF Shape
    <2>2. IsFiniteSet(n.waitlist)
      BY <1>1, <1>4, <2>1, FS_Subset
    <2>3. IsFiniteSet(s.offer \cup {new})
      BY <2>1, FS_AddElement
    <2>. QED
      BY <1>0, <1>1, <1>3, <1>4, <2>2, <2>3 DEF Shape
  <1>6. Sold(n)
    <2>1. \A x : x # t => PromisedOf(n, x) \subseteq PromisedOf(s, x)
      BY <1>3, <1>4 DEF PromisedOf, SeatKeys
    <2>2. PromisedOf(n, t) \subseteq PromisedOf(s, t) \cup {<<new.user, "offer", new.id>>}
      BY <1>4 DEF PromisedOf, SeatKeys
    <2>. QED
      BY <2>1, <2>2, OneMoreSeat
  <1>7. Exclusive(n)
    BY <1>1, <1>3, <1>4 DEF Good, Exclusive
  <1>8. Requests(n) /\ Linked(n)
    BY <1>4 DEF Good, Requests, Linked, HasOffer
  <1>. QED
    BY <1>5, <1>6, <1>7, <1>8 DEF Good, n

LEMMA RowOf ==
  ASSUME NEW table, NEW u, NEW id, \E r \in table : r.user = u /\ r.id = id
  PROVE  Row(table, u, id) \in table /\ Row(table, u, id).user = u /\ Row(table, u, id).id = id
  BY DEF Row

\* An offer is replaced by one of the same user, id and tier that is not
\* active unless the first one was.
LEMMA OfferReplaced ==
  ASSUME NEW s, Good(s), NEW n, DOMAIN n = DbFields,
         n.waitlist = s.waitlist, n.purchase = s.purchase, n.attendee = s.attendee,
         NEW o \in s.offer, NEW o1, n.offer = Replace(s.offer, o, o1),
         Offered(o1), o1.user = o.user, o1.id = o.id, o1.tier = o.tier,
         o1.status \in ActiveOffer => o.status \in ActiveOffer
  PROVE  Good(n)
  <1>1. Shape(n)
    <2>1. IsFiniteSet(n.offer)
      <3>1. IsFiniteSet(s.offer \cup {o1})
        BY FS_AddElement DEF Good, Shape
      <3>2. n.offer \subseteq s.offer \cup {o1}
        BY DEF Replace
      <3>. QED
        BY <3>1, <3>2, FS_Subset
    <2>. QED
      BY <2>1 DEF Good, Shape, Replace
  <1>2. Narrower(s, n)
    <2>1. \A x \in n.offer : x.status \in ActiveOffer =>
            \E x1 \in s.offer : x1.status \in ActiveOffer /\ x1.tier = x.tier /\ x1.user = x.user /\ x1.id = x.id
      BY DEF Replace
    <2>. QED
      BY <2>1 DEF Narrower
  <1>3. Linked(n)
    <2>1. \A x \in s.offer : \E x1 \in n.offer : x1.user = x.user /\ x1.id = x.id
      BY DEF Replace
    <2>. QED
      BY <2>1 DEF Good, Linked, HasOffer
  <1>. QED
    BY <1>1, <1>2, <1>3, Narrowed DEF Good, Requests

LEMMA ReleasedGood ==
  ASSUME NEW s, Good(s), NEW o \in s.offer, NEW ts \in Nat
  PROVE  Good(Released(s, o, ts)) /\ Released(s, o, ts).ok = s.ok
  <1>. DEFINE linked == {p \in Of(s.purchase, o.user) : p.offer = o.id /\ p.status = "pending"}
              m == Expire(s, linked, ts)
              o1 == [o EXCEPT !.status = "released"]
              n == Released(s, o, ts)
  <1>0. DOMAIN s = DbFields /\ DOMAIN o = OfferFields /\ o.expires \in Nat
    BY DEF Good, Shape, Offered
  <1>1. linked \subseteq {p \in s.purchase : p.status = "pending"}
    BY DEF Of
  <1>. HIDE DEF linked
  <1>2. Good(m) /\ DOMAIN m = DbFields /\ m.offer = s.offer /\ m.ok = s.ok
    BY <1>0, <1>1, ExpireGood, ExpireFields
  <1>3. n = [m EXCEPT !.offer = Replace(@, o, o1)]
    BY DEF Released, linked
  <1>4. /\ Offered(o1) /\ o1.user = o.user /\ o1.id = o.id /\ o1.tier = o.tier
        /\ o1.status \notin ActiveOffer
    BY <1>0 DEF Offered, OfferFields, ActiveOffer
  <1>. HIDE DEF m, n, o1
  <1>5. /\ DOMAIN n = DbFields /\ n.waitlist = m.waitlist /\ n.purchase = m.purchase /\ n.attendee = m.attendee
        /\ n.offer = Replace(m.offer, o, o1) /\ n.ok = m.ok
    BY <1>2, <1>3 DEF DbFields
  <1>6. Good(n)
    BY <1>2, <1>4, <1>5, OfferReplaced
  <1>. QED
    BY <1>2, <1>5, <1>6 DEF n
\* A purchase is added; nobody who is queued may have one.
LEMMA PurchaseAdded ==
  ASSUME NEW s, Good(s), NEW n, DOMAIN n = DbFields,
         n.waitlist = s.waitlist, n.offer = s.offer, n.attendee = s.attendee,
         NEW new, n.purchase = s.purchase \cup {new}, Bought(new), Requested(new), HasOffer(s, new),
         \A w \in s.waitlist : w.user # new.user, Sold(n)
  PROVE  Good(n)
  <1>0. Shape(s) /\ IsFiniteSet(s.purchase)
    BY DEF Good, Shape
  <1>1. IsFiniteSet(s.purchase \cup {new})
    BY <1>0, FS_AddElement
  <1>2. Shape(n)
    BY <1>0, <1>1 DEF Shape
  <1>3. Exclusive(n)
    BY DEF Good, Exclusive
  <1>4. Requests(n) /\ Linked(n)
    BY DEF Good, Requests, Linked, HasOffer
  <1>. QED
    BY <1>2, <1>3, <1>4 DEF Good

\* The offer a checkout claims, and the purchase it inserts.
ClaimedRow(o, code) == [o EXCEPT !.status = "checkout_pending", !.snapshot = IF code THEN "discounted" ELSE "full"]

Claimed(s, u, id, code) ==
    IF id = 0 THEN s
    ELSE Require([s EXCEPT !.offer = Replace(@, Row(s.offer, u, id), ClaimedRow(Row(s.offer, u, id), code))],
                 OfferAllowed(s, u, id))

NewPurchase(s, u, t, id, code, ts) ==
    [user |-> u, id |-> NextId(s.purchase, u), status |-> "pending", tier |-> t,
     offer |-> id, code |-> code,
     hold |-> IF id = 0 THEN ts + HoldTime ELSE Min2(ts + HoldTime, Row(s.offer, u, id).expires),
     session |-> "none", refund |-> "none", job |-> "none", finalized |-> FALSE,
     request |-> "none"]

LEMMA UpsertFields ==
  ASSUME NEW s, DOMAIN s = DbFields, NEW u
  PROVE  DOMAIN UpsertAnswers(s, u) = DbFields /\ (UpsertAnswers(s, u).ok => s.ok)
  <1>. DEFINE status == "registration-questions-pending"
              rows == {a \in Of(s.attendee, u) : a.status # "confirmed"}
              m == SetAttendance(s, rows, status)
              new == [user |-> u, status |-> status, manual |-> FALSE]
  <1>1. DOMAIN m = DbFields /\ (m.ok => s.ok)
    BY AttendanceFields
  <1>. HIDE DEF m
  <1>2. DOMAIN Require(m, AttendeeAllowed(s, u, status)) = DbFields /\ (Require(m, AttendeeAllowed(s, u, status)).ok => s.ok)
    BY <1>1 DEF Require, DbFields
  <1>3. LET x == Require([s EXCEPT !.attendee = @ \cup {new}], AttendeeAllowed(s, u, status))
        IN  DOMAIN x = DbFields /\ (x.ok => s.ok)
    BY DEF Require, DbFields
  <1>. QED
    BY <1>2, <1>3 DEF UpsertAnswers, m

LEMMA ClaimedFields ==
  ASSUME NEW s, DOMAIN s = DbFields, NEW u, NEW id, NEW code
  PROVE  /\ DOMAIN Claimed(s, u, id, code) = DbFields
         /\ Claimed(s, u, id, code).waitlist = s.waitlist
         /\ Claimed(s, u, id, code).purchase = s.purchase
         /\ Claimed(s, u, id, code).attendee = s.attendee
         /\ Claimed(s, u, id, code).ok => s.ok
         /\ id # 0 => /\ Claimed(s, u, id, code).offer =
                             Replace(s.offer, Row(s.offer, u, id), ClaimedRow(Row(s.offer, u, id), code))
                      /\ Claimed(s, u, id, code).ok => \A w \in s.waitlist : w.user # u
         /\ id = 0 => Claimed(s, u, id, code) = s
  <1>1. CASE id = 0
    BY <1>1 DEF Claimed
  <1>2. CASE id # 0
    <2>. DEFINE n == Claimed(s, u, id, code)
                offers == Replace(s.offer, Row(s.offer, u, id), ClaimedRow(Row(s.offer, u, id), code))
    <2>1. n = Require([s EXCEPT !.offer = offers], OfferAllowed(s, u, id))
      BY <1>2 DEF Claimed
    <2>. HIDE DEF n, offers
    <2>2. /\ DOMAIN n = DbFields /\ n.waitlist = s.waitlist /\ n.purchase = s.purchase /\ n.attendee = s.attendee
          /\ n.offer = offers /\ n.ok = (s.ok /\ OfferAllowed(s, u, id))
      BY <2>1 DEF Require, DbFields
    <2>3. OfferAllowed(s, u, id) => \A w \in s.waitlist : w.user # u
      BY DEF OfferAllowed, Queued, Of
    <2>. QED
      BY <1>2, <2>2, <2>3 DEF n, offers
  <1>. QED
    BY <1>1, <1>2

LEMMA InsertHoldFields ==
  ASSUME NEW s, DOMAIN s = DbFields, NEW u, NEW t, NEW id, NEW code, NEW ts,
         NEW a, a = UpsertAnswers(Claimed(s, u, id, code), u)
  PROVE  /\ DOMAIN InsertHold(s, u, t, id, code, ts) = DbFields
         /\ InsertHold(s, u, t, id, code, ts).waitlist = a.waitlist
         /\ InsertHold(s, u, t, id, code, ts).offer = a.offer
         /\ InsertHold(s, u, t, id, code, ts).attendee = a.attendee
         /\ InsertHold(s, u, t, id, code, ts).purchase = a.purchase \cup {NewPurchase(s, u, t, id, code, ts)}
         /\ InsertHold(s, u, t, id, code, ts).ok => a.ok /\ s.ok
  <1>. DEFINE new == NewPurchase(s, u, t, id, code, ts)
              n == InsertHold(s, u, t, id, code, ts)
              held == [a EXCEPT !.purchase = @ \cup {new}, !.available = @ - Units(code)]
  <1>1. n = Require(held, PurchaseAllowed(held, new))
    BY DEF InsertHold, NewPurchase, Claimed, ClaimedRow
  <1>2. DOMAIN a = DbFields /\ (a.ok => s.ok)
    BY ClaimedFields, UpsertFields
  <1>. HIDE DEF n, new
  <1>3. /\ DOMAIN held = DbFields /\ held.waitlist = a.waitlist /\ held.offer = a.offer
        /\ held.attendee = a.attendee /\ held.purchase = a.purchase \cup {new} /\ held.ok = a.ok
    BY <1>2 DEF DbFields
  <1>. HIDE DEF held
  <1>4. /\ DOMAIN n = DbFields /\ n.waitlist = a.waitlist /\ n.offer = a.offer
        /\ n.attendee = a.attendee /\ n.purchase = a.purchase \cup {new}
        /\ n.ok = (a.ok /\ PurchaseAllowed(held, new))
    BY <1>1, <1>3 DEF Require, DbFields
  <1>. QED
    BY <1>2, <1>4 DEF n, new

\* A hold takes the seat of its offer, or one that is counted as free.
LEMMA InsertHoldGood ==
  ASSUME NEW s, Good(s), NEW u, NEW t, NEW id, NEW code, NEW ts \in Nat, InsertHold(s, u, t, id, code, ts).ok,
         id # 0 => /\ \E o \in s.offer : o.user = u /\ o.id = id
                   /\ Row(s.offer, u, id).tier = t /\ Row(s.offer, u, id).status \in ActiveOffer,
         NEW r,
         id = 0 => /\ Good(r) /\ Live(r, ts) /\ Allocated(r, t, ts) < SeatsTotal[t]
                   /\ Narrower(r, s)
                   /\ \A w \in s.waitlist : w.user # u
  PROVE  Good(InsertHold(s, u, t, id, code, ts))
  <1>. DEFINE o == Row(s.offer, u, id)
              c == Claimed(s, u, id, code)
              a == UpsertAnswers(c, u)
              new == NewPurchase(s, u, t, id, code, ts)
              n == InsertHold(s, u, t, id, code, ts)
  <1>0. DOMAIN s = DbFields
    BY DEF Good, Shape
  <1>1. /\ DOMAIN n = DbFields /\ n.waitlist = a.waitlist /\ n.offer = a.offer /\ n.attendee = a.attendee
        /\ n.purchase = a.purchase \cup {new} /\ a.ok
    BY <1>0, InsertHoldFields
  <1>2. /\ DOMAIN c = DbFields /\ c.waitlist = s.waitlist /\ c.purchase = s.purchase /\ c.attendee = s.attendee
        /\ id # 0 => c.offer = Replace(s.offer, o, ClaimedRow(o, code))
        /\ id # 0 => (c.ok => \A w \in s.waitlist : w.user # u)
        /\ id = 0 => c = s
    BY <1>0, ClaimedFields
  <1>3. id # 0 => o \in s.offer /\ o.user = u /\ o.id = id /\ o.tier = t /\ o.status \in ActiveOffer /\ Offered(o)
    BY RowOf DEF Good, Shape
  <1>4. id # 0 => /\ Offered(ClaimedRow(o, code)) /\ ClaimedRow(o, code).user = u /\ ClaimedRow(o, code).id = id
                  /\ ClaimedRow(o, code).tier = t /\ ClaimedRow(o, code).status \in ActiveOffer
    BY <1>3 DEF ClaimedRow, Offered, OfferFields, ActiveOffer
  <1>5. /\ Bought(new) /\ Requested(new) /\ new.user = u /\ new.tier = t /\ new.offer = id
        /\ new.status = "pending"
    <2>1. new.hold \in Nat
      BY <1>3, EnrollmentAssumption DEF NewPurchase, Min2, Offered
    <2>. QED
      BY <2>1 DEF NewPurchase, Bought, Requested, PurchaseFields, None
  <1>. HIDE DEF o, c, new, n
  <1>6. Good(c)
    <2>1. CASE id = 0
      BY <1>2, <2>1
    <2>2. CASE id # 0
      BY <1>2, <1>3, <1>4, <2>2, OfferReplaced
    <2>. QED
      BY <2>1, <2>2
  <1>7. /\ Good(a) /\ c.ok /\ a.waitlist = s.waitlist /\ a.offer = c.offer /\ a.purchase = s.purchase
    BY <1>1, <1>2, <1>6, UpsertGood
  <1>. HIDE DEF a
  <1>8. \A w \in a.waitlist : w.user # new.user
    BY <1>2, <1>5, <1>7
  <1>9. HasOffer(a, new)
    BY <1>2, <1>3, <1>4, <1>5, <1>7 DEF HasOffer, Replace
  <1>10. \A x : \A key \in PromisedOf(n, x) : key \in PromisedOf(a, x) \/ (x = t /\ key = SeatKey(new))
    BY <1>1, <1>5 DEF PromisedOf, SeatKeys
  <1>11. Sold(n)
    <2>1. CASE id = 0
      <3>1. \A x : PromisedOf(a, x) = PromisedOf(s, x)
        BY <1>2, <1>7, <2>1 DEF PromisedOf
      <3>2. \A x : PromisedOf(s, x) \subseteq PromisedOf(r, x)
        BY <2>1, NarrowerPromises
      <3>. QED
        BY <1>10, <2>1, <3>1, <3>2, OneMoreSeat
    <2>2. CASE id # 0
      <3>1. SeatKey(new) = <<u, "offer", id>>
        BY <1>5, <2>2 DEF SeatKey
      <3>2. ClaimedRow(o, code) \in a.offer
        BY <1>2, <1>7, <2>2 DEF Replace
      <3>3. SeatKey(new) \in PromisedOf(a, t)
        BY <1>4, <2>2, <3>1, <3>2 DEF PromisedOf, SeatKeys
      <3>4. \A x : PromisedOf(n, x) \subseteq PromisedOf(a, x)
        BY <1>10, <3>3
      <3>. QED
        BY <1>7, <3>4, FewerPromised
    <2>. QED
      BY <2>1, <2>2
  <1>12. Good(n)
    BY <1>1, <1>5, <1>7, <1>8, <1>9, <1>11, PurchaseAdded
  <1>. QED
    BY <1>12 DEF n
-----------------------------------------------------------------------------
(* Purchases that change their status. *)

\* Only what the arguments look at matters.
LEMMA SameTables ==
  ASSUME NEW s, Good(s), NEW n, DOMAIN n = DbFields, n.waitlist = s.waitlist, n.offer = s.offer,
         n.purchase = s.purchase, n.attendee = s.attendee
  PROVE  Good(n)
  <1>1. Shape(n) /\ Exclusive(n)
    BY DEF Good, Shape, Exclusive
  <1>. QED
    BY <1>1, SameInventory DEF Good

\* q is row p after a step that leaves its identity and its selection alone.
SameSale(p, q) ==
    /\ DOMAIN q = PurchaseFields
    /\ q.user = p.user /\ q.id = p.id /\ q.tier = p.tier /\ q.offer = p.offer /\ q.code = p.code

LEMMA SameSaleSucceeds ==
  ASSUME NEW s, NEW p \in s.purchase, NEW q, SameSale(p, q), HasOffer(s, p),
         Bought(q), Requested(q), Committed(q) => Committed(p), q.status \in Engaged => p.status \in Engaged
  PROVE  Succeeds(s, q, p)
  <1>1. SeatKey(q) = SeatKey(p) /\ HasOffer(s, q)
    BY DEF SameSale, SeatKey, HasOffer
  <1>. QED
    BY <1>1 DEF Succeeds, SameSale

\* Turning p, which is pending, into a completed purchase.
CompletedRow(p) == [p EXCEPT !.status = "completed", !.hold = None]
UsedOffers(s, p) ==
    IF p.offer = 0 THEN s.offer
    ELSE Replace(s.offer, Row(s.offer, p.user, p.offer), [Row(s.offer, p.user, p.offer) EXCEPT !.status = "completed"])
SeatedRow(s, p) ==
    [user |-> p.user, status |-> "confirmed",
     manual |-> p.offer # 0 /\ Row(s.offer, p.user, p.offer).source = "organizer_invitation"]
SeatedRows(s, p) == (s.attendee \ Of(s.attendee, p.user)) \cup {SeatedRow(s, p)}

LEMMA CompleteFields ==
  ASSUME NEW s, DOMAIN s = DbFields, NEW p
  PROVE  /\ DOMAIN Complete(s, p) = DbFields
         /\ Complete(s, p).waitlist = s.waitlist
         /\ Complete(s, p).purchase = Replace(s.purchase, p, CompletedRow(p))
         /\ Complete(s, p).offer = UsedOffers(s, p)
         /\ Complete(s, p).attendee = SeatedRows(s, p)
         /\ Complete(s, p).ok => s.ok /\ \A w \in s.waitlist : w.user # p.user
  <1>. DEFINE o == Row(s.offer, p.user, p.offer)
              offers == Replace(s.offer, o, [o EXCEPT !.status = "completed"])
              q == CompletedRow(p)
              claimed == IF p.offer = 0 THEN s
                         ELSE Require([s EXCEPT !.offer = offers], o.status = "checkout_pending")
              row == SeatedRow(s, p)
              rows == (claimed.attendee \ Of(claimed.attendee, p.user)) \cup {row}
              seated == Require([claimed EXCEPT !.attendee = rows], AttendeeAllowed(claimed, p.user, "confirmed"))
              n == Complete(s, p)
  <1>1. n = Require([seated EXCEPT !.purchase = Replace(@, p, q)], PurchaseAllowed(seated, p))
    BY DEF Complete, CompletedRow, SeatedRow
  <1>. HIDE DEF n, q, row
  <1>3. /\ DOMAIN claimed = DbFields /\ claimed.waitlist = s.waitlist /\ claimed.purchase = s.purchase
        /\ claimed.attendee = s.attendee /\ (claimed.ok => s.ok)
        /\ claimed.offer = IF p.offer = 0 THEN s.offer ELSE offers
    <2>. HIDE DEF offers, o
    <2>1. CASE p.offer = 0
      BY <2>1
    <2>2. CASE p.offer # 0
      BY <2>2 DEF Require, DbFields
    <2>. QED
      BY <2>1, <2>2
  <1>. HIDE DEF claimed
  <1>4. /\ DOMAIN seated = DbFields /\ seated.waitlist = s.waitlist /\ seated.purchase = s.purchase
        /\ seated.offer = claimed.offer /\ seated.attendee = rows
        /\ seated.ok = (claimed.ok /\ AttendeeAllowed(claimed, p.user, "confirmed"))
    <2>. HIDE DEF rows
    <2>. QED
      BY <1>3 DEF Require, DbFields
  <1>. HIDE DEF seated
  <1>5. /\ DOMAIN n = DbFields /\ n.waitlist = s.waitlist /\ n.purchase = Replace(s.purchase, p, q)
        /\ n.offer = claimed.offer /\ n.attendee = rows
        /\ n.ok = (seated.ok /\ PurchaseAllowed(seated, p))
    <2>. HIDE DEF rows
    <2>. QED
      BY <1>1, <1>4 DEF Require, DbFields
  <1>6. AttendeeAllowed(claimed, p.user, "confirmed") => \A w \in s.waitlist : w.user # p.user
    BY <1>3 DEF AttendeeAllowed, Queued, Of
  <1>7. n.attendee = (s.attendee \ Of(s.attendee, p.user)) \cup {row}
    BY <1>3, <1>5
  <1>. HIDE DEF rows
  <1>8. n.ok => s.ok /\ \A w \in s.waitlist : w.user # p.user
    BY <1>3, <1>4, <1>5, <1>6
  <1>. QED
    BY <1>3, <1>5, <1>7, <1>8 DEF n, q, row, UsedOffers, SeatedRows

LEMMA CompleteGood ==
  ASSUME NEW s, Good(s), NEW p \in s.purchase, p.status = "pending", Complete(s, p).ok
  PROVE  Good(Complete(s, p))
  <1>. DEFINE n == Complete(s, p)
              o == Row(s.offer, p.user, p.offer)
              o1 == [o EXCEPT !.status = "completed"]
              q == CompletedRow(p)
              row == SeatedRow(s, p)
              c == [s EXCEPT !.offer = n.offer]
              d == [c EXCEPT !.attendee = n.attendee]
  <1>0. Shape(s) /\ DOMAIN s = DbFields /\ Bought(p) /\ Requested(p) /\ HasOffer(s, p)
    BY DEF Good, Shape, Requests, Linked
  <1>1. /\ DOMAIN n = DbFields /\ n.waitlist = s.waitlist /\ n.purchase = Replace(s.purchase, p, q)
        /\ n.offer = UsedOffers(s, p) /\ n.attendee = SeatedRows(s, p)
    <2>. HIDE DEF c, d, o, o1
    <2>1. DOMAIN n = DbFields
      BY <1>0, CompleteFields
    <2>2. n.waitlist = s.waitlist
      BY <1>0, CompleteFields
    <2>3. n.purchase = Replace(s.purchase, p, q)
      <3>1. DOMAIN s = DbFields
        BY <1>0
      <3>2. Complete(s, p).purchase = Replace(s.purchase, p, CompletedRow(p))
        BY ZenonT(60), <3>1, CompleteFields
      <3>. QED
        BY <3>2
    <2>4. n.offer = UsedOffers(s, p)
      BY <1>0, CompleteFields
    <2>5. n.attendee = SeatedRows(s, p)
      BY <1>0, CompleteFields
    <2>. QED
      BY <2>1, <2>2, <2>3, <2>4, <2>5
  <1>a. \A w \in s.waitlist : w.user # p.user
    BY <1>0, CompleteFields
  <1>2. Attends(row) /\ row.user = p.user
    BY DEF Attends, AttendeeFields, SeatedRow
  <1>b. SeatedRows(s, p) = (s.attendee \ Of(s.attendee, p.user)) \cup {row}
    BY DEF SeatedRows
  <1>. HIDE DEF n, row
  <1>3. /\ DOMAIN c = DbFields /\ c.waitlist = s.waitlist /\ c.purchase = s.purchase /\ c.attendee = s.attendee
        /\ c.offer = n.offer
    BY <1>0 DEF DbFields
  <1>. HIDE DEF c
  <1>4. /\ DOMAIN d = DbFields /\ d.waitlist = s.waitlist /\ d.purchase = s.purchase /\ d.attendee = n.attendee
        /\ d.offer = n.offer
    BY <1>3 DEF DbFields
  <1>. HIDE DEF d
  <1>5. Good(c)
    <2>1. CASE p.offer = 0
      BY <1>1, <1>3, <2>1, SameTables DEF UsedOffers
    <2>2. CASE p.offer # 0
      <3>1. o \in s.offer /\ Offered(o)
        BY <1>0, <2>2, RowOf DEF HasOffer, Shape
      <3>2. /\ Offered(o1) /\ o1.user = o.user /\ o1.id = o.id /\ o1.tier = o.tier /\ o1.status \notin ActiveOffer
        BY <3>1 DEF Offered, OfferFields, ActiveOffer
      <3>3. c.offer = Replace(s.offer, o, o1)
        BY <1>1, <1>3, <2>2 DEF UsedOffers
      <3>. HIDE DEF o, o1
      <3>. QED
        BY <1>3, <3>1, <3>2, <3>3, OfferReplaced
    <2>. QED
      BY <2>1, <2>2
  <1>6. Good(d)
    <2>1. Shape(d)
      BY <1>1, <1>2, <1>b, <1>3, <1>4, <1>5 DEF Good, Shape
    <2>2. Exclusive(d)
      BY <1>1, <1>a, <1>2, <1>b, <1>3, <1>4, <1>5 DEF Good, Exclusive
    <2>. QED
      BY <1>3, <1>4, <1>5, <2>1, <2>2, SameInventory DEF Good
  <1>7. Succeeds(d, q, p)
    <2>1. /\ SameSale(p, q) /\ q.status = "completed" /\ q.hold = None /\ q.job = p.job
          /\ q.request = p.request /\ q.finalized = p.finalized
      BY <1>0 DEF Bought, SameSale, PurchaseFields, CompletedRow
    <2>. HIDE DEF q
    <2>2. Bought(q)
      BY <2>1 DEF Bought, SameSale, None
    <2>3. Requested(q)
      BY <1>0, <2>1 DEF Requested
    <2>4. HasOffer(d, p) /\ p \in d.purchase
      BY <1>4, <1>6 DEF Good, Linked
    <2>. QED
      BY <2>1, <2>2, <2>3, <2>4, SameSaleSucceeds DEF Committed, Engaged
  <1>8. FewerPresent(d, n)
    BY <1>4, <1>6, SubsetPresent
  <1>. HIDE DEF q, o, o1
  <1>9. Good(n)
    BY <1>1, <1>4, <1>6, <1>7, <1>8, PurchaseReplaced
  <1>. QED
    BY <1>9 DEF n
LEMMA ReconcileFields ==
  ASSUME NEW s, DOMAIN s = DbFields, NEW T, NEW ready, NEW ts
  PROVE  /\ DOMAIN Reconcile(s, T, ready, ts) = DbFields
         /\ Reconcile(s, T, ready, ts).ok => s.ok
  <1>. DEFINE a == ExpireHolds(s, ts)
              b == SettleOffers(a, ts)
  <1>1. DOMAIN a = DbFields /\ a.ok = s.ok
    BY ExpireFields DEF ExpireHolds
  <1>. HIDE DEF a
  <1>2. DOMAIN b = DbFields /\ (b.ok => a.ok)
    BY <1>1, SettleFields
  <1>. HIDE DEF b
  <1>3. DOMAIN Promote(b, T, ready, ts) = DbFields /\ (Promote(b, T, ready, ts).ok => b.ok)
    BY <1>2, PromoteFields
  <1>. QED
    BY <1>1, <1>2, <1>3 DEF Reconcile, a, b

\* A free purchase that is given back.
RefundedFree(p) == [p EXCEPT !.status = "refunded"]

LEMMA RefundedFreeSucceeds ==
  ASSUME NEW s, NEW p \in s.purchase, Bought(p), Requested(p), HasOffer(s, p),
         p.status \in {"completed", "refund-requested"}, PurchaseAmount(p) = 0
  PROVE  Succeeds(s, RefundedFree(p), p)
  <1>. DEFINE q == RefundedFree(p)
  <1>1. /\ SameSale(p, q) /\ q.status = "refunded" /\ q.hold = p.hold /\ q.job = p.job
        /\ q.request = p.request /\ q.finalized = p.finalized
    BY DEF Bought, SameSale, PurchaseFields, RefundedFree
  <1>. HIDE DEF q
  <1>2. Bought(q)
    BY <1>1 DEF Bought, SameSale
  <1>3. Requested(q)
    <2>1. p.request \notin {"pending", "approving", "approved"}
      BY DEF Requested
    <2>. QED
      BY <1>1, <2>1 DEF Requested
  <1>4. Succeeds(s, q, p)
    BY <1>1, <1>2, <1>3, SameSaleSucceeds DEF Committed, Engaged
  <1>. QED
    BY <1>4 DEF q

LEMMA RefundFreeFields ==
  ASSUME NEW s, DOMAIN s = DbFields, NEW p
  PROVE  /\ DOMAIN RefundFree(s, p) = DbFields
         /\ RefundFree(s, p).waitlist = s.waitlist
         /\ RefundFree(s, p).offer = s.offer
         /\ RefundFree(s, p).attendee = s.attendee
         /\ RefundFree(s, p).purchase = Replace(s.purchase, p, RefundedFree(p))
         /\ RefundFree(s, p).ok = (s.ok /\ PurchaseAmount(p) = 0)
  BY DEF RefundFree, RefundedFree, Require, DbFields

LEMMA RefundFreeGood ==
  ASSUME NEW s, Good(s), NEW p \in s.purchase, p.status \in {"completed", "refund-requested"}, RefundFree(s, p).ok
  PROVE  Good(RefundFree(s, p))
  <1>. DEFINE n == RefundFree(s, p)
  <1>0. DOMAIN s = DbFields /\ Bought(p) /\ Requested(p) /\ HasOffer(s, p)
    BY DEF Good, Shape, Requests, Linked
  <1>1. /\ DOMAIN n = DbFields /\ n.waitlist = s.waitlist /\ n.offer = s.offer /\ n.attendee = s.attendee
        /\ n.purchase = Replace(s.purchase, p, RefundedFree(p)) /\ n.ok = (s.ok /\ PurchaseAmount(p) = 0)
    BY <1>0, RefundFreeFields
  <1>2. PurchaseAmount(p) = 0
    BY <1>1
  <1>. HIDE DEF n
  <1>3. Succeeds(s, RefundedFree(p), p) /\ FewerPresent(s, n)
    BY <1>0, <1>1, <1>2, RefundedFreeSucceeds, SubsetPresent
  <1>4. Good(n)
    BY <1>1, <1>3, PurchaseReplaced
  <1>. QED
    BY <1>4 DEF n

\* A payment that bought nothing and is refunded promises no seat.
AutomaticRow(p) == [p EXCEPT !.status = "refund-pending", !.hold = None, !.refund = "automatic", !.job = "queued"]

LEMMA QueueAutomaticRefundGood ==
  ASSUME NEW s, Good(s), NEW p \in s.purchase, p.status \in {"pending", "expired"}, NEW ts
  PROVE  Good(QueueAutomaticRefund(s, p, ts))
  <1>. DEFINE n == QueueAutomaticRefund(s, p, ts)
              q == AutomaticRow(p)
              m == [s EXCEPT !.purchase = Replace(@, p, q),
                             !.available = @ + Units(p.status = "pending" /\ p.code)]
  <1>0. DOMAIN s = DbFields /\ Bought(p) /\ Requested(p) /\ HasOffer(s, p)
    BY DEF Good, Shape, Requests, Linked
  <1>1. n = ReleaseAttendeeHolds(m, {p.user}, ts)
    BY DEF QueueAutomaticRefund, AutomaticRow
  <1>2. /\ DOMAIN m = DbFields /\ m.waitlist = s.waitlist /\ m.offer = s.offer /\ m.attendee = s.attendee
        /\ m.purchase = Replace(s.purchase, p, q)
    <2>. HIDE DEF q
    <2>. QED
      BY <1>0 DEF DbFields
  <1>. HIDE DEF m, n
  <1>3. /\ DOMAIN n = DbFields /\ n.waitlist = s.waitlist /\ n.offer = s.offer /\ n.attendee \subseteq s.attendee
        /\ n.purchase = Replace(s.purchase, p, q)
    BY <1>1, <1>2, ReleaseFields
  <1>4. /\ SameSale(p, q) /\ q.status = "refund-pending" /\ q.hold = None /\ q.job = "queued"
        /\ q.refund = "automatic" /\ q.request = p.request /\ q.finalized = p.finalized
    BY <1>0 DEF Bought, SameSale, PurchaseFields, AutomaticRow
  <1>. HIDE DEF q
  <1>5. Bought(q)
    BY <1>4 DEF Bought, SameSale, None
  <1>6. Requested(q)
    BY <1>0, <1>4 DEF Requested
  <1>7. Succeeds(s, q, p) /\ FewerPresent(s, n)
    BY <1>0, <1>3, <1>4, <1>5, <1>6, SameSaleSucceeds, SubsetPresent DEF Committed, Engaged
  <1>8. Good(n)
    BY <1>3, <1>7, PurchaseReplaced
  <1>. QED
    BY <1>8 DEF n

\* The provider's side of a purchase.
LEMMA SessionSucceeds ==
  ASSUME NEW s, NEW p \in s.purchase, Bought(p), Requested(p), HasOffer(s, p), NEW session
  PROVE  Succeeds(s, [p EXCEPT !.session = session], p)
  <1>. DEFINE q == [p EXCEPT !.session = session]
  <1>1. /\ SameSale(p, q) /\ q.status = p.status /\ q.hold = p.hold /\ q.job = p.job /\ q.refund = p.refund
        /\ q.request = p.request /\ q.finalized = p.finalized
    BY DEF Bought, SameSale, PurchaseFields
  <1>. HIDE DEF q
  <1>2. Bought(q)
    BY <1>1 DEF Bought, SameSale
  <1>3. Requested(q)
    BY <1>1 DEF Requested, PurchaseAmount, SameSale
  <1>4. Succeeds(s, q, p)
    BY <1>1, <1>2, <1>3, SameSaleSucceeds DEF Committed, Engaged
  <1>. QED
    BY <1>4 DEF q

-----------------------------------------------------------------------------
(* Refunds of paid seats. *)

FinalRow(p, job) ==
    [p EXCEPT !.status = "refunded", !.job = job, !.finalized = TRUE,
              !.request = IF @ = "approving" THEN "approved" ELSE @]

LEMMA RefundedFields ==
  ASSUME NEW s, DOMAIN s = DbFields, NEW p, NEW job
  PROVE  /\ DOMAIN Refunded(s, p, job) = DbFields
         /\ Refunded(s, p, job).waitlist = s.waitlist
         /\ Refunded(s, p, job).offer = s.offer
         /\ Refunded(s, p, job).attendee = s.attendee
         /\ Refunded(s, p, job).purchase = Replace(s.purchase, p, FinalRow(p, job))
         /\ Refunded(s, p, job).ok = s.ok
  BY DEF Refunded, FinalRow, DbFields

LEMMA ReturnCodeFields ==
  ASSUME NEW s, DOMAIN s = DbFields, NEW p
  PROVE  /\ DOMAIN ReturnCode(s, p) = DbFields
         /\ ReturnCode(s, p).waitlist = s.waitlist
         /\ ReturnCode(s, p).offer = s.offer
         /\ ReturnCode(s, p).attendee = s.attendee
         /\ ReturnCode(s, p).purchase = s.purchase
         /\ ReturnCode(s, p).ok = s.ok
  BY DEF ReturnCode, DbFields

\* A refund that was made closes the request it belongs to.
LEMMA RefundedGood ==
  ASSUME NEW s, Good(s), NEW p \in s.purchase, p.job # "none", NEW job
  PROVE  Good(Refunded(s, p, job))
  <1>. DEFINE n == Refunded(s, p, job)
              q == FinalRow(p, job)
  <1>0. DOMAIN s = DbFields /\ Bought(p) /\ Requested(p) /\ HasOffer(s, p)
    BY DEF Good, Shape, Requests, Linked
  <1>1. /\ DOMAIN n = DbFields /\ n.waitlist = s.waitlist /\ n.offer = s.offer /\ n.attendee = s.attendee
        /\ n.purchase = Replace(s.purchase, p, q)
    BY <1>0, RefundedFields
  <1>2. /\ SameSale(p, q) /\ q.status = "refunded" /\ q.hold = p.hold /\ q.finalized = TRUE
        /\ q.request = IF p.request = "approving" THEN "approved" ELSE p.request
    BY <1>0 DEF Bought, SameSale, PurchaseFields, FinalRow
  <1>. HIDE DEF n, q
  <1>3. Bought(q)
    BY <1>0, <1>2 DEF Bought, SameSale
  <1>4. Requested(q)
    BY <1>0, <1>2 DEF Requested
  <1>5. Succeeds(s, q, p) /\ FewerPresent(s, n)
    BY <1>0, <1>1, <1>2, <1>3, <1>4, SameSaleSucceeds, SubsetPresent DEF Committed, Engaged
  <1>6. Good(n)
    BY <1>1, <1>5, PurchaseReplaced
  <1>. QED
    BY <1>6 DEF n

LEMMA EndAttendanceGood ==
  ASSUME NEW s, DOMAIN s = DbFields, NEW p
  PROVE  /\ DOMAIN EndAttendance(s, p) = DbFields
         /\ EndAttendance(s, p).purchase = s.purchase
         /\ EndAttendance(s, p).ok => s.ok
         /\ EndAttendance(s, p).ok /\ Good(s) => Good(EndAttendance(s, p))
  <1>. DEFINE rows == {a \in Of(s.attendee, p.user) :
                        /\ a.status \in {"confirmed", "registration-questions-pending"}
                        /\ \A q \in Attending(s, p.user) : q.id = p.id}
  <1>1. EndAttendance(s, p) = SetAttendance(s, rows, "attendance-canceled")
    BY DEF EndAttendance
  <1>2. rows \subseteq s.attendee
    BY DEF Of
  <1>. HIDE DEF rows
  <1>. QED
    BY <1>1, <1>2, AttendanceFields, AttendanceGood
-----------------------------------------------------------------------------
(* Cancellation of the event. *)

LEMMA CloseEnrollmentGood ==
  ASSUME NEW s, Good(s), NEW ts \in Nat
  PROVE  /\ DOMAIN CloseEnrollment(s, ts) = DbFields
         /\ Good(CloseEnrollment(s, ts))
  <1>. DEFINE n == CloseEnrollment(s, ts)
              m == Expire(s, {p \in s.purchase : p.status = "pending"}, ts)
              active == {o \in s.offer : o.status \in ActiveOffer}
              f == [o \in active |-> [o EXCEPT !.status = "released"]]
              offers == (s.offer \ active) \cup {f[o] : o \in active}
  <1>0. DOMAIN s = DbFields /\ IsFiniteSet(s.offer) /\ \A o \in s.offer : Offered(o)
    BY DEF Good, Shape
  <1>1. Good(m) /\ DOMAIN m = DbFields /\ m.offer = s.offer
    BY <1>0, ExpireGood, ExpireFields
  <1>2. n = Require([m EXCEPT !.offer = offers, !.waitlist = {}],
                    \A o \in active : o.status = "checkout_pending" => OfferAllowed(m, o.user, o.id))
    <2>1. {f[o] : o \in active} = {[o EXCEPT !.status = "released"] : o \in active}
      OBVIOUS
    <2>2. m.offer = s.offer
      BY <1>1
    <2>. HIDE DEF f, active
    <2>3. n = Require([m EXCEPT !.offer = (@ \ active) \cup {[o EXCEPT !.status = "released"] : o \in active}, !.waitlist = {}],
                    \A o \in active : o.status = "checkout_pending" => OfferAllowed(m, o.user, o.id))
      BY DEF CloseEnrollment, active
    <2>. HIDE DEF m, n
    <2>. QED
      BY <2>1, <2>2, <2>3
  <1>3. /\ active \subseteq s.offer
        /\ \A o \in active : /\ Offered(f[o]) /\ f[o].status \notin ActiveOffer
                             /\ f[o].user = o.user /\ f[o].id = o.id
    BY <1>0 DEF Offered, OfferFields, ActiveOffer
  <1>4. \A o \in s.offer \ active : o.status \notin ActiveOffer
    OBVIOUS
  <1>. HIDE DEF n, m, active, f
  <1>5. /\ DOMAIN n = DbFields /\ n.waitlist = {} /\ n.offer = offers /\ n.purchase = m.purchase
        /\ n.attendee = m.attendee
    <2>. HIDE DEF offers
    <2>. QED
      BY <1>1, <1>2 DEF Require, DbFields
  <1>6. IsFiniteSet(offers)
    <2>1. IsFiniteSet(active) /\ IsFiniteSet(s.offer \ active)
      BY <1>0, <1>3, FS_Subset
    <2>2. IsFiniteSet({f[o] : o \in active})
      BY <2>1, FiniteImage
    <2>. QED
      BY <2>1, <2>2, FS_Union
  <1>7. \A o \in offers : Offered(o) /\ o.status \notin ActiveOffer
    BY <1>0, <1>3, <1>4
  <1>8. \A o \in s.offer : \E o1 \in offers : o1.user = o.user /\ o1.id = o.id
    <2>1. ASSUME NEW o \in s.offer PROVE \E o1 \in offers : o1.user = o.user /\ o1.id = o.id
      <3>1. CASE o \in active
        BY <1>3, <3>1
      <3>2. CASE o \notin active
        BY <3>2
      <3>. QED
        BY <3>1, <3>2
    <2>. QED
      BY <2>1
  <1>. HIDE DEF offers
  <1>9. Shape(n)
    <2>1. IsFiniteSet(n.waitlist)
      BY <1>5, FS_EmptySet
    <2>. QED
      BY <1>1, <1>5, <1>6, <1>7, <2>1 DEF Good, Shape
  <1>10. Narrower(m, n)
    BY <1>5, <1>7 DEF Narrower
  <1>11. Requests(n) /\ Linked(n)
    BY <1>1, <1>5, <1>8 DEF Good, Requests, Linked, HasOffer
  <1>12. Good(n)
    BY <1>1, <1>9, <1>10, <1>11, Narrowed
  <1>. QED
    BY <1>5, <1>12 DEF n

\* A paid seat that is handed to a refund job keeps its seat until the end.
LEMMA HandedSucceeds ==
  ASSUME NEW s, NEW p \in s.purchase, Bought(p), Requested(p), HasOffer(s, p),
         p.status \in {"completed", "refund-requested"}
  PROVE  Succeeds(s, HandToRefund(p), p)
  <1>. DEFINE q == HandToRefund(p)
  <1>1. /\ SameSale(p, q) /\ q.status = "refund-pending" /\ q.hold = None
        /\ q.job = IF p.job = "none" THEN "queued" ELSE p.job
        /\ q.request = IF p.request = "pending" THEN "approving" ELSE p.request
        /\ q.finalized = p.finalized
    BY DEF Bought, SameSale, PurchaseFields, HandToRefund
  <1>. HIDE DEF q
  <1>2. Bought(q)
    BY <1>1 DEF Bought, SameSale, None
  <1>3. Requested(q)
    <2>1. PurchaseAmount(q) = PurchaseAmount(p)
      BY <1>1 DEF PurchaseAmount, SameSale
    <2>. QED
      BY <1>1, <2>1 DEF Requested
  <1>4. Succeeds(s, q, p)
    BY <1>1, <1>2, <1>3, SameSaleSucceeds DEF Committed, Engaged
  <1>. QED
    BY <1>4 DEF q

\* The tables a canceled event is left with.
Vacated(s, ts) ==
    LET closed == CloseEnrollment(s, ts)
    IN SetAttendance(closed,
           {a \in closed.attendee : a.status \in {"confirmed", "registration-questions-pending"}},
           "attendance-canceled")

LEMMA VacatedGood ==
  ASSUME NEW s, Good(s), NEW ts \in Nat
  PROVE  /\ DOMAIN Vacated(s, ts) = DbFields
         /\ Vacated(s, ts).ok => Good(Vacated(s, ts))
  <1>. DEFINE c == CloseEnrollment(s, ts)
              rows == {a \in c.attendee : a.status \in {"confirmed", "registration-questions-pending"}}
  <1>1. Good(c) /\ DOMAIN c = DbFields
    BY CloseEnrollmentGood
  <1>2. Vacated(s, ts) = SetAttendance(c, rows, "attendance-canceled")
    BY DEF Vacated
  <1>. HIDE DEF c
  <1>3. rows \subseteq c.attendee
    OBVIOUS
  <1>. HIDE DEF rows
  <1>. QED
    BY <1>1, <1>2, <1>3, AttendanceFields, AttendanceGood

LEMMA CancelEventGood ==
  ASSUME NEW v, Good(v), NEW seated, seated = {p \in v.purchase : p.status \in {"completed", "refund-requested"}},
         NEW free, free = {p \in seated : PurchaseAmount(p) = 0},
         NEW n, DOMAIN n = DbFields, n.waitlist = v.waitlist, n.offer = v.offer, n.attendee = v.attendee,
         n.purchase = (v.purchase \ seated) \cup {RefundedFree(p) : p \in free}
                                            \cup {HandToRefund(p) : p \in seated \ free}
  PROVE  Good(n)
  <1>. DEFINE f == [p \in seated |-> IF p \in free THEN RefundedFree(p) ELSE HandToRefund(p)]
  <1>1. IsFiniteSet(seated)
    <2>1. IsFiniteSet(v.purchase) /\ seated \subseteq v.purchase
      BY DEF Good, Shape
    <2>. QED
      BY <2>1, FS_Subset
  <1>2. \A p \in seated : Succeeds(v, f[p], p)
    <2>1. ASSUME NEW p \in seated PROVE Succeeds(v, f[p], p)
      <3>1. p \in v.purchase /\ Bought(p) /\ Requested(p) /\ HasOffer(v, p) /\ p.status \in {"completed", "refund-requested"}
        BY DEF Good, Shape, Requests, Linked
      <3>2. CASE p \in free
        BY <3>1, <3>2, RefundedFreeSucceeds
      <3>3. CASE p \notin free
        BY <3>1, <3>3, HandedSucceeds
      <3>. QED
        BY <3>2, <3>3
    <2>. QED
      BY <2>1
  <1>3. n.purchase \subseteq v.purchase \cup {f[p] : p \in seated}
    <2>1. ASSUME NEW q \in n.purchase PROVE q \in v.purchase \cup {f[p] : p \in seated}
      <3>1. CASE q \in v.purchase
        BY <3>1
      <3>2. ASSUME NEW p \in free, q = RefundedFree(p) PROVE q \in {f[x] : x \in seated}
        BY <3>2
      <3>3. ASSUME NEW p \in seated \ free, q = HandToRefund(p) PROVE q \in {f[x] : x \in seated}
        BY <3>3
      <3>. QED
        BY <3>1, <3>2, <3>3
    <2>. QED
      BY <2>1
  <1>. HIDE DEF f
  <1>4. FewerPresent(v, n)
    BY SubsetPresent
  <1>. QED
    BY <1>1, <1>2, <1>3, <1>4, PurchasesRewritten

-----------------------------------------------------------------------------
(* The steps. *)

EnrollmentInv == Good(Db) /\ now \in Nat

LEMMA DbTables ==
  /\ DOMAIN Db = DbFields /\ Db.waitlist = waitlist /\ Db.offer = offer /\ Db.purchase = purchase
  /\ Db.attendee = attendee /\ Db.available = available /\ Db.ok = TRUE
  BY DEF Db, DbFields

\* A transaction that commits good tables leaves good tables.
LEMMA WriteGood ==
  ASSUME NEW s, Write(s), Good(s)
  PROVE  Good(Db)'
  <1>. DEFINE n == [waitlist |-> waitlist', offer |-> offer', purchase |-> purchase',
                    attendee |-> attendee', available |-> available', ok |-> TRUE]
  <1>1. /\ DOMAIN n = DbFields /\ n.waitlist = s.waitlist /\ n.offer = s.offer
        /\ n.purchase = s.purchase /\ n.attendee = s.attendee
    BY DEF Write, DbFields
  <1>2. n = Db'
    BY DEF Db
  <1>. HIDE DEF n
  <1>3. Good(n)
    BY <1>1, SameTables
  <1>. QED
    BY <1>2, <1>3

LEMMA UnchangedGood ==
  ASSUME Good(Db), UNCHANGED <<waitlist, offer, purchase, attendee, available>>
  PROVE  Good(Db)'
  <1>1. Db' = Db
    BY DEF Db
  <1>. QED
    BY <1>1

LEMMA InitGood == Init => EnrollmentInv
  <1>. SUFFICES ASSUME Init PROVE EnrollmentInv
    OBVIOUS
  <1>1. waitlist = {} /\ offer = {} /\ purchase = {} /\ attendee = {} /\ now \in Nat
    BY DEF Init
  <1>2. Shape(Db)
    BY <1>1, DbTables, FS_EmptySet DEF Shape
  <1>3. Sold(Db)
    <2>1. \A t \in Tiers : PromisedOf(Db, t) = {}
      BY <1>1, DbTables DEF PromisedOf, SeatKeys
    <2>. QED
      BY <2>1, FS_EmptySet, EnrollmentAssumption DEF Sold
  <1>4. Exclusive(Db) /\ Requests(Db) /\ Linked(Db)
    BY <1>1, DbTables DEF Exclusive, Requests, Linked
  <1>. QED
    BY <1>1, <1>2, <1>3, <1>4 DEF EnrollmentInv, Good
LEMMA JoinRaises ==
  ASSUME NEW s, DOMAIN s = DbFields, NEW u, NEW t, NEW ts, JoinWaitlist(s, u, t, ts).ok
  PROVE  s.ok
  BY DEF JoinWaitlist, Require, DbFields

LEMMA InviteRaises ==
  ASSUME NEW s, DOMAIN s = DbFields, NEW u, NEW t, NEW ts, Invite(s, u, t, ts).ok
  PROVE  s.ok
  BY DEF Invite, Require, DbFields

\* Every operation that reconciles first has good, live tables after it, or
\* raises.
LEMMA ReconciledDb ==
  ASSUME EnrollmentInv, NEW T, NEW ready, NEW ts \in Nat, Reconcile(Db, T, ready, ts).ok
  PROVE  /\ Good(Reconcile(Db, T, ready, ts)) /\ Live(Reconcile(Db, T, ready, ts), ts)
         /\ \A o \in offer : \E o1 \in Reconcile(Db, T, ready, ts).offer : o1.user = o.user /\ o1.id = o.id
         /\ Reconcile(Db, T, ready, ts).purchase = ExpireHolds(Db, ts).purchase
  BY ReconcileGood, DbTables DEF EnrollmentInv

LEMMA AttendEventGood ==
  ASSUME EnrollmentInv, NEW u \in Users, NEW t, NEW ts \in Nat, AttendEvent(u, t, ts)
  PROVE  Good(Db)'
  <1>. DEFINE r == Reconcile(Db, Tiers, FALSE, ts)
              holds == {p \in Of(r.purchase, u) : LivePending(p, ts)}
              stays == \/ holds # {} \/ Allocated(r, t, ts) < SeatsTotal[t] \/ ~WaitlistEnabled
                       \/ \E w \in Of(r.waitlist, u) : w.tier = t
              n == IF stays THEN r ELSE JoinWaitlist(r, u, t, ts)
  <1>1. /\ t \in Public /\ (\A p \in Of(r.purchase, u) : p.status \notin SeatHolding)
        /\ Write(n)
    BY DEF AttendEvent, Commit
  <1>2. DOMAIN r = DbFields
    BY ReconcileFields, DbTables
  <1>3. n.ok
    BY <1>1 DEF Write
  <1>4. CASE stays
    <2>1. r = n /\ r.ok
      BY <1>3, <1>4
    <2>2. Good(r)
      BY <2>1, ReconciledDb
    <2>. HIDE DEF n, r, stays
    <2>. QED
      BY <1>1, <2>1, <2>2, WriteGood
  <1>5. CASE ~stays
    <2>1. n = JoinWaitlist(r, u, t, ts) /\ holds = {}
      BY <1>5
    <2>. HIDE DEF n, stays
    <2>2. r.ok
      BY <1>2, <1>3, <2>1, JoinRaises
    <2>3. Good(r) /\ Live(r, ts)
      BY <2>2, ReconciledDb
    <2>. HIDE DEF r
    <2>4. \A p \in r.purchase : p.user = u => p.status \notin Engaged
      BY <1>1, <2>1, <2>3 DEF Live, LivePending, Of, Engaged, SeatHolding
    <2>5. Good(n)
      BY <1>1, <1>3, <2>1, <2>3, <2>4, JoinGood
    <2>. QED
      BY <1>1, <2>5, WriteGood
  <1>. HIDE DEF stays, n, r
  <1>. QED
    BY <1>4, <1>5

LEMMA LeaveAttendanceGood ==
  ASSUME EnrollmentInv, NEW u, NEW ts \in Nat, LeaveAttendance(u, ts)
  PROVE  Good(Db)'
  <1>. DEFINE a == SetAttendance(Db, Of(attendee, u), "attendance-canceled")
  <1>1. PICK p \in Attending(Db, u) : Write(Reconcile(RefundFree(a, p), {p.tier}, ProviderReady, ts))
    BY DEF LeaveAttendance, Commit
  <1>. DEFINE b == RefundFree(a, p)
              n == Reconcile(b, {p.tier}, ProviderReady, ts)
  <1>2. DOMAIN a = DbFields /\ a.purchase = purchase
    BY AttendanceFields, DbTables
  <1>. HIDE DEF a
  <1>3. DOMAIN b = DbFields /\ (b.ok => a.ok)
    BY <1>2, RefundFreeFields
  <1>. HIDE DEF b
  <1>4. n.ok /\ b.ok /\ a.ok
    <2>1. n.ok
      BY <1>1 DEF Write, b
    <2>. QED
      BY <1>3, <2>1, ReconcileFields
  <1>5. Good(a)
    <2>1. Of(attendee, u) \subseteq Db.attendee
      BY DbTables DEF Of
    <2>. QED
      BY <1>4, <2>1, AttendanceGood DEF a, EnrollmentInv
  <1>6. p \in a.purchase /\ p.status \in {"completed", "refund-requested"}
    BY <1>2, DbTables DEF Attending, Of
  <1>7. Good(b)
    BY <1>4, <1>5, <1>6, RefundFreeGood DEF b
  <1>8. Good(n)
    BY <1>4, <1>7, ReconcileGood
  <1>. QED
    BY <1>1, <1>8, WriteGood DEF b

LEMMA LeaveWaitlistGood ==
  ASSUME EnrollmentInv, NEW u, NEW ts, LeaveWaitlist(u, ts)
  PROVE  Good(Db)'
  <1>. DEFINE n == [Db EXCEPT !.waitlist = @ \ Of(@, u)]
  <1>1. Write(n)
    BY DEF LeaveWaitlist, Commit
  <1>2. /\ DOMAIN n = DbFields /\ n.waitlist \subseteq Db.waitlist /\ n.offer = Db.offer
        /\ n.purchase = Db.purchase /\ n.attendee = Db.attendee
    BY DbTables DEF DbFields
  <1>. HIDE DEF n
  <1>3. Good(Db) /\ Shape(Db) /\ IsFiniteSet(Db.waitlist)
    BY DEF EnrollmentInv, Good, Shape
  <1>4. IsFiniteSet(n.waitlist)
    BY <1>2, <1>3, FS_Subset
  <1>5. Shape(n) /\ Exclusive(n)
    BY <1>2, <1>3, <1>4 DEF Good, Shape, Exclusive
  <1>6. Good(n)
    BY <1>2, <1>3, <1>5, SameInventory DEF Good
  <1>. QED
    BY <1>1, <1>6, WriteGood

LEMMA InviteAttendeeGood ==
  ASSUME EnrollmentInv, NEW t \in Tiers, NEW ts \in Nat, NEW ready, NEW r, r = Reconcile(Db, {t}, ready, ts),
         NEW u, InviteAttendee(r, u, t, ts)
  PROVE  Good(Db)'
  <1>1. DOMAIN r = DbFields
    BY ReconcileFields, DbTables
  <1>2. CASE Write(r)
    <2>1. Good(r)
      BY <1>2, ReconciledDb DEF Write
    <2>. QED
      BY <1>2, <2>1, WriteGood
  <1>3. CASE Write(Invite(r, u, t, ts)) /\ InvitationExpiry(ts) > ts /\ ~(Allocated(r, t, ts) >= SeatsTotal[t])
    <2>1. Invite(r, u, t, ts).ok /\ r.ok
      BY <1>1, <1>3, InviteRaises DEF Write
    <2>2. Good(r) /\ Live(r, ts)
      BY <2>1, ReconciledDb
    <2>3. Allocated(r, t, ts) < SeatsTotal[t]
      <3>1. Allocated(r, t, ts) \in Nat
        BY <2>2, AllocatedCounts DEF Good
      <3>. QED
        BY <1>3, <3>1, EnrollmentAssumption
    <2>4. Good(Invite(r, u, t, ts))
      BY <1>3, <2>1, <2>2, <2>3, InviteGood
    <2>. QED
      BY <1>3, <2>4, WriteGood
  <1>. QED
    BY <1>2, <1>3 DEF InviteAttendee, Commit
LEMMA ReleaseOfferGood ==
  ASSUME EnrollmentInv, NEW o \in offer, NEW ts \in Nat, ReleaseOffer(o, ts)
  PROVE  Good(Db)'
  <1>. DEFINE r == Reconcile(Db, {o.tier}, ProviderReady, ts)
              held == Row(r.offer, o.user, o.id)
              m == Released(r, held, ts)
              n == Reconcile(m, {o.tier}, ProviderReady, ts)
  <1>1. Write(n)
    BY DEF ReleaseOffer, Commit
  <1>2. DOMAIN r = DbFields
    BY ReconcileFields, DbTables
  <1>. HIDE DEF r
  <1>3. DOMAIN m = DbFields /\ m.ok = r.ok
    <2>. DEFINE linked == {p \in Of(r.purchase, held.user) : p.offer = held.id /\ p.status = "pending"}
                x == Expire(r, linked, ts)
    <2>1. m = [x EXCEPT !.offer = Replace(@, held, [held EXCEPT !.status = "released"])]
      BY DEF Released
    <2>. HIDE DEF linked, held
    <2>2. DOMAIN x = DbFields /\ x.ok = r.ok
      BY <1>2, ExpireFields
    <2>. HIDE DEF x, m
    <2>. QED
      BY <2>1, <2>2 DEF DbFields
  <1>. HIDE DEF held, m
  <1>4. n.ok /\ m.ok /\ r.ok
    BY <1>1, <1>3, ReconcileFields DEF Write
  <1>5. Good(r) /\ \E o1 \in r.offer : o1.user = o.user /\ o1.id = o.id
    BY <1>4, ReconciledDb DEF r
  <1>6. held \in r.offer
    BY <1>5, RowOf DEF held
  <1>7. Good(m)
    BY <1>5, <1>6, ReleasedGood DEF m
  <1>8. Good(n)
    BY <1>4, <1>7, ReconcileGood
  <1>. QED
    BY <1>1, <1>8, WriteGood

LEMMA CheckoutConflictGood ==
  ASSUME EnrollmentInv, NEW t, NEW ts \in Nat, NEW ready, NEW r, r = Reconcile(Db, {t}, ready, ts),
         NEW u, NEW id, NEW code, CheckoutConflict(r, u, t, id, code, ts)
  PROVE  Good(Db)'
  <1>1. Write(r)
    BY DEF CheckoutConflict, Commit
  <1>2. Good(r)
    BY <1>1, ReconciledDb DEF Write
  <1>. QED
    BY <1>1, <1>2, WriteGood

LEMMA ReuseCheckoutGood ==
  ASSUME EnrollmentInv, NEW t, NEW ts \in Nat, NEW ready, NEW r, r = Reconcile(Db, {t}, ready, ts),
         NEW u, NEW id, NEW code, ReuseCheckout(r, u, t, id, code, ts)
  PROVE  Good(Db)'
  <1>1. Write(UpsertAnswers(r, u))
    BY DEF ReuseCheckout, Commit
  <1>2. DOMAIN r = DbFields
    BY ReconcileFields, DbTables
  <1>3. UpsertAnswers(r, u).ok /\ r.ok
    BY <1>1, <1>2, UpsertFields DEF Write
  <1>4. Good(r)
    BY <1>3, ReconciledDb
  <1>5. Good(UpsertAnswers(r, u))
    BY <1>3, <1>4, UpsertGood
  <1>. QED
    BY <1>1, <1>5, WriteGood

LEMMA StartCheckoutGood ==
  ASSUME EnrollmentInv, NEW t \in Tiers, NEW ts \in Nat, NEW ready, NEW r, r = Reconcile(Db, {t}, ready, ts),
         NEW u, NEW id, id = 0 \/ (\E o \in offer : o.user = u /\ o.id = id),
         NEW code, StartCheckout(r, u, t, id, code, ts)
  PROVE  Good(Db)'
  <1>. DEFINE c == SelectedCode(r, u, id, code)
              existing == ExistingPurchases(r, u, id, ts)
              e == Expire(r, existing, ts)
              n == InsertHold(e, u, t, id, c, ts)
  <1>1. /\ Write(n) /\ ~OfferMismatch(r, u, t, id, ts)
        /\ \A p \in existing : p.status = "pending"
        /\ id = 0 => ~TierUnavailable(r, t, ts)
        /\ FreshPrice(r, u, id) => CheckoutAttendee(r, u)
    BY DEF StartCheckout, Commit
  <1>2. DOMAIN r = DbFields
    BY ReconcileFields, DbTables
  <1>3. existing \subseteq r.purchase
    BY DEF ExistingPurchases, Of
  <1>. HIDE DEF c, existing
  <1>4. DOMAIN e = DbFields /\ e.ok = r.ok /\ e.offer = r.offer /\ e.waitlist = r.waitlist
    BY <1>2, ExpireFields
  <1>. HIDE DEF e
  <1>5. n.ok /\ e.ok /\ r.ok
    BY <1>1, <1>4, InsertHoldFields DEF Write
  <1>. HIDE DEF n
  <1>6. Good(r) /\ Live(r, ts)
    BY <1>5, ReconciledDb
  <1>a. \A o \in offer : \E o1 \in r.offer : o1.user = o.user /\ o1.id = o.id
    BY <1>5, ReconciledDb
  <1>7. Good(e) /\ Narrower(r, e)
    <2>1. existing \subseteq {p \in r.purchase : p.status = "pending"}
      BY <1>1, <1>3
    <2>2. ts \in Int /\ Good(r)
      BY <1>6
    <2>3. Good(Expire(r, existing, ts)) /\ Narrower(r, Expire(r, existing, ts))
      BY ONLY <2>1, <2>2, ExpireGood
    <2>. QED
      BY <2>3 DEF e
  <1>8. id # 0 => /\ \E o \in e.offer : o.user = u /\ o.id = id
                  /\ Row(e.offer, u, id).tier = t /\ Row(e.offer, u, id).status \in ActiveOffer
    <2>1. id # 0 => Row(r.offer, u, id).tier = t /\ Row(r.offer, u, id).status \in ActiveOffer
      BY <1>1 DEF OfferMismatch, LiveOffer
    <2>. QED
      BY <1>4, <1>a, <2>1
  <1>9. id = 0 => /\ Allocated(r, t, ts) < SeatsTotal[t] /\ \A w \in e.waitlist : w.user # u
    <2>1. Allocated(r, t, ts) \in Nat
      BY <1>6, AllocatedCounts DEF Good
    <2>2. id = 0 => ~(Allocated(r, t, ts) >= SeatsTotal[t])
      BY <1>1 DEF TierUnavailable
    <2>3. id = 0 => ~Queued(r, u)
      BY <1>1 DEF FreshPrice, CheckoutAttendee
    <2>4. id = 0 => Allocated(r, t, ts) < SeatsTotal[t]
      BY <2>1, <2>2, EnrollmentAssumption
    <2>5. id = 0 => \A w \in e.waitlist : w.user # u
      BY <1>4, <2>3 DEF Queued, Of
    <2>. QED
      BY <2>4, <2>5
  <1>10. Good(n)
    BY <1>5, <1>6, <1>7, <1>8, <1>9, InsertHoldGood DEF n
  <1>. QED
    BY <1>1, <1>10, WriteGood

LEMMA ExpireOneGood ==
  ASSUME EnrollmentInv, NEW p \in purchase, NEW ts \in Nat, Write(ExpireOne(p, ts))
  PROVE  Good(Db)'
  <1>. DEFINE r == Reconcile(Db, {p.tier}, ProviderReady, ts)
              q == Row(r.purchase, p.user, p.id)
              e == Expire(r, {q}, ts)
              n == Reconcile(e, {p.tier}, ProviderReady, ts)
  <1>1. ExpireOne(p, ts) = IF q.status = "pending" THEN n ELSE r
    BY DEF ExpireOne
  <1>2. DOMAIN r = DbFields
    BY ReconcileFields, DbTables
  <1>3. r.ok => Good(r) /\ \E x \in r.purchase : x.user = p.user /\ x.id = p.id
    <2>1. ASSUME r.ok PROVE Good(r) /\ r.purchase = ExpireHolds(Db, ts).purchase
      BY <2>1, ReconciledDb
    <2>2. \E x \in ExpireHolds(Db, ts).purchase : x.user = p.user /\ x.id = p.id
      BY ExpireHoldsGood, DbTables DEF EnrollmentInv
    <2>. QED
      BY <2>1, <2>2
  <1>. HIDE DEF r
  <1>4. CASE q.status = "pending"
    <2>1. Write(n)
      BY <1>1, <1>4
    <2>. HIDE DEF q
    <2>2. DOMAIN e = DbFields /\ e.ok = r.ok
      BY <1>2, ExpireFields
    <2>. HIDE DEF e
    <2>3. n.ok /\ e.ok /\ r.ok
      BY <2>1, <2>2, ReconcileFields DEF Write
    <2>4. q \in r.purchase /\ Good(r)
      BY <1>3, <2>3, RowOf DEF q
    <2>5. Good(e)
      BY <1>4, <2>4, ExpireGood DEF e
    <2>6. Good(n)
      BY <2>3, <2>5, ReconcileGood
    <2>. QED
      BY <2>1, <2>6, WriteGood
  <1>5. CASE q.status # "pending"
    <2>1. Write(r)
      BY <1>1, <1>5
    <2>2. Good(r)
      BY <1>3, <2>1 DEF Write
    <2>. QED
      BY <2>1, <2>2, WriteGood
  <1>. QED
    BY <1>4, <1>5

LEMMA CompleteFreeGood ==
  ASSUME EnrollmentInv, NEW p \in purchase, NEW ts \in Nat, CompleteFree(p, ts)
  PROVE  Good(Db)'
  <1>. DEFINE r == Reconcile(Db, {p.tier}, FALSE, ts)
              q == Row(r.purchase, p.user, p.id)
              n == Complete(r, q)
  <1>1. Write(n) /\ q.status = "pending"
    BY DEF CompleteFree, Commit, LivePending
  <1>2. DOMAIN r = DbFields
    BY ReconcileFields, DbTables
  <1>3. r.ok => Good(r) /\ \E x \in r.purchase : x.user = p.user /\ x.id = p.id
    <2>1. ASSUME r.ok PROVE Good(r) /\ r.purchase = ExpireHolds(Db, ts).purchase
      BY ZenonT(40), <2>1, ReconciledDb
    <2>2. \E x \in ExpireHolds(Db, ts).purchase : x.user = p.user /\ x.id = p.id
      BY ExpireHoldsGood, DbTables DEF EnrollmentInv
    <2>. QED
      BY <2>1, <2>2
  <1>. HIDE DEF r, q
  <1>4. n.ok
    BY <1>1 DEF Write
  <1>5. r.ok
    BY <1>2, <1>4, CompleteFields
  <1>6. Good(r) /\ q \in r.purchase
    BY <1>3, <1>5, RowOf DEF q
  <1>7. Good(n)
    BY <1>1, <1>4, <1>6, CompleteGood
  <1>. QED
    BY <1>1, <1>7, WriteGood
\* The webhook acknowledges row p as q.
LEMMA CheckoutCompletedGood ==
  ASSUME EnrollmentInv, NEW p \in purchase, NEW ts \in Nat, CheckoutCompleted(p, ts)
  PROVE  Good(Db)'
  <1>. DEFINE q == [p EXCEPT !.session = "settled"]
              acked == [Db EXCEPT !.purchase = Replace(@, p, q)]
              refund == \/ p.status = "refund-pending" \/ HoldExpired(p, ts)
                        \/ RecoveryPending(Db, p) \/ Unfulfillable(Db, p, ts)
              settled == IF refund /\ p.status # "refund-pending" THEN QueueAutomaticRefund(acked, q, ts) ELSE acked
              r == Reconcile(settled, {p.tier}, ProviderReady, ts)
              n == IF ~Reconcilable(p, ts) THEN acked ELSE IF refund THEN r ELSE Complete(r, q)
  <1>1. Write(n)
    BY DEF CheckoutCompleted, Commit
  <1>2. Good(Db) /\ Bought(p) /\ Requested(p) /\ HasOffer(Db, p)
    BY DbTables DEF EnrollmentInv, Good, Shape, Requests, Linked
  <1>3. /\ q.status = p.status /\ q.hold = p.hold /\ q.offer = p.offer /\ q.user = p.user
    BY <1>2 DEF Bought, PurchaseFields
  <1>4. Succeeds(Db, q, p)
    BY <1>2, DbTables, SessionSucceeds
  <1>. HIDE DEF q
  <1>5. /\ DOMAIN acked = DbFields /\ acked.waitlist = waitlist /\ acked.offer = offer /\ acked.attendee = attendee
        /\ acked.purchase = Replace(purchase, p, q)
    BY DbTables DEF DbFields
  <1>. HIDE DEF acked
  <1>6. Good(acked) /\ q \in acked.purchase
    <2>1. FewerPresent(Db, acked)
      BY <1>2, <1>5, DbTables, SubsetPresent
    <2>2. Good(acked)
      BY <1>2, <1>4, <1>5, <2>1, DbTables, PurchaseReplaced
    <2>. QED
      BY <1>5, <2>2 DEF Replace
  <1>7. CASE ~Reconcilable(p, ts)
    <2>1. n = acked
      BY <1>7
    <2>. HIDE DEF n
    <2>. QED
      BY <1>1, <1>6, <2>1, WriteGood
  <1>8. CASE Reconcilable(p, ts) /\ refund
    <2>1. n = r /\ (p.status # "refund-pending" => settled = QueueAutomaticRefund(acked, q, ts))
          /\ (p.status = "refund-pending" => settled = acked)
      BY <1>8
    <2>2. p.status # "refund-pending" => p.status \in {"pending", "expired"}
      BY <1>8 DEF Reconcilable
    <2>. HIDE DEF n, settled, refund
    <2>3. Good(settled)
      <3>1. CASE p.status = "refund-pending"
        BY <1>6, <2>1, <3>1
      <3>2. CASE p.status # "refund-pending"
        <4>1. Good(QueueAutomaticRefund(acked, q, ts))
          BY <1>3, <1>6, <2>2, <3>2, QueueAutomaticRefundGood
        <4>. QED
          BY <2>1, <3>2, <4>1
      <3>. QED
        BY <3>1, <3>2
    <2>4. r.ok
      BY <1>1, <2>1 DEF Write
    <2>5. Good(r)
      BY <2>3, <2>4, ReconcileGood
    <2>. QED
      BY <1>1, <2>1, <2>5, WriteGood
  <1>9. CASE Reconcilable(p, ts) /\ ~refund
    <2>1. n = Complete(r, q) /\ settled = acked
      BY <1>9
    <2>2. p.status = "pending" /\ p.hold > ts
      <3>1. ~HoldExpired(p, ts) /\ p.status # "refund-pending"
        BY <1>9
      <3>2. p.status = "pending"
        BY <1>9, <3>1 DEF Reconcilable
      <3>. QED
        BY <1>2, <3>1, <3>2 DEF HoldExpired, Bought
    <2>3. \A o \in Of(offer, p.user) : o.id = p.offer => ~(o.expires <= ts)
      <3>1. ~Unfulfillable(Db, p, ts)
        BY <1>9
      <3>. QED
        BY <3>1, DbTables DEF Unfulfillable
    <2>. HIDE DEF n, settled, refund
    <2>4. n.ok /\ r.ok
      <3>1. n.ok
        BY <1>1 DEF Write
      <3>2. DOMAIN r = DbFields
        BY <1>5, <2>1, ReconcileFields
      <3>. QED
        BY <2>1, <3>1, <3>2, CompleteFields
    <2>5. Good(r) /\ r.purchase = ExpireHolds(acked, ts).purchase
      BY <1>6, <2>1, <2>4, ReconcileGood
    <2>6. q \in r.purchase
      <3>1. \/ q \in ExpireHolds(acked, ts).purchase
            \/ q.hold <= ts
            \/ \E o \in ActiveOffers(acked, q.user) : o.id = q.offer /\ o.expires <= ts
        BY <1>6, ExpireHoldsGood
      <3>2. ~(q.hold <= ts)
        BY <1>2, <1>3, <2>2 DEF Bought
      <3>3. ~\E o \in ActiveOffers(acked, q.user) : o.id = q.offer /\ o.expires <= ts
        BY <1>3, <1>5, <2>3 DEF ActiveOffers, Of
      <3>. QED
        BY <2>5, <3>1, <3>2, <3>3
    <2>. HIDE DEF r
    <2>7. Good(n)
      BY <1>3, <2>1, <2>2, <2>4, <2>5, <2>6, CompleteGood
    <2>. QED
      BY <1>1, <2>7, WriteGood
  <1>. HIDE DEF refund, n
  <1>. QED
    BY <1>7, <1>8, <1>9

LEMMA ReconcileNextGood ==
  ASSUME EnrollmentInv, ReconcileNext
  PROVE  Good(Db)'
  <1>. DEFINE r == Reconcile(Db, Tiers, ProviderReady, now)
  <1>1. Write(r) /\ now \in Nat
    BY DEF ReconcileNext, Commit, EnrollmentInv
  <1>2. Good(r)
    BY <1>1, ReconciledDb DEF Write
  <1>. HIDE DEF r
  <1>. QED
    BY <1>1, <1>2, WriteGood

\* Steps that change one row.
LEMMA SetPurchaseGood ==
  ASSUME EnrollmentInv, NEW p \in purchase, NEW q, Succeeds(Db, q, p),
         purchase' = Replace(purchase, p, q), UNCHANGED <<waitlist, offer, attendee, available>>
  PROVE  Good(Db)'
  <1>. DEFINE n == [waitlist |-> waitlist', offer |-> offer', purchase |-> purchase',
                    attendee |-> attendee', available |-> available', ok |-> TRUE]
  <1>1. /\ DOMAIN n = DbFields /\ n.waitlist = Db.waitlist /\ n.offer = Db.offer
        /\ n.purchase = Replace(Db.purchase, p, q) /\ n.attendee = Db.attendee
    BY DbTables DEF DbFields
  <1>2. n = Db'
    BY DEF Db
  <1>. HIDE DEF n
  <1>3. Good(Db) /\ FewerPresent(Db, n)
    BY <1>1, SubsetPresent DEF EnrollmentInv
  <1>4. Good(n)
    BY <1>1, <1>3, PurchaseReplaced
  <1>. QED
    BY <1>2, <1>4

LEMMA SessionStepsGood ==
  ASSUME EnrollmentInv, NEW p \in purchase, AttachSession(p) \/ PayCheckout(p) \/ SessionExpires(p)
  PROVE  Good(Db)'
  <1>1. p \in Db.purchase /\ Bought(p) /\ Requested(p) /\ HasOffer(Db, p)
    BY DbTables DEF EnrollmentInv, Good, Shape, Requests, Linked
  <1>2. PICK session : SetSession(p, session)
    BY DEF AttachSession, PayCheckout, SessionExpires
  <1>3. Succeeds(Db, [p EXCEPT !.session = session], p)
    BY <1>1, SessionSucceeds
  <1>. QED
    BY <1>2, <1>3, SetPurchaseGood DEF SetSession

\* The row that a request, its review, the organizer or the provider leaves.
LEMMA RefundRowsGood ==
  ASSUME EnrollmentInv, NEW p \in purchase, NEW ts,
         \/ ApproveRefund(p) \/ RejectRefund(p) \/ RefundFails(p)
         \/ RequestRefund(p, ts) \/ CancelAttendance(p, ts)
  PROVE  Good(Db)'
  <1>1. p \in Db.purchase /\ Bought(p) /\ Requested(p) /\ HasOffer(Db, p)
    BY DbTables DEF EnrollmentInv, Good, Shape, Requests, Linked
  <1>2. ASSUME NEW q, SetPurchase(p, q), SameSale(p, q), q.hold = p.hold, q.status # "pending",
               Requested(q), Committed(q) => Committed(p), q.status \in Engaged => p.status \in Engaged
        PROVE  Good(Db)'
    <2>1. Bought(q)
      BY <1>1, <1>2 DEF Bought, SameSale
    <2>2. Succeeds(Db, q, p)
      BY <1>1, <1>2, <2>1, SameSaleSucceeds
    <2>. QED
      BY <1>2, <2>2, SetPurchaseGood DEF SetPurchase
  <1>3. CASE ApproveRefund(p)
    <2>. DEFINE q == [p EXCEPT !.request = "approving", !.refund = "refund-request-approval", !.job = "queued"]
    <2>1. SetPurchase(p, q) /\ p.status = "refund-requested"
      BY <1>3 DEF ApproveRefund
    <2>2. /\ SameSale(p, q) /\ q.hold = p.hold /\ q.status = p.status /\ q.request = "approving"
          /\ q.job = "queued" /\ q.finalized = p.finalized
      BY <1>1 DEF Bought, SameSale, PurchaseFields
    <2>. HIDE DEF q
    <2>3. PurchaseAmount(q) = PurchaseAmount(p)
      BY <2>2 DEF PurchaseAmount, SameSale
    <2>4. Requested(q)
      BY <1>1, <2>1, <2>2, <2>3 DEF Requested
    <2>. QED
      BY <1>2, <2>1, <2>2, <2>4 DEF Committed, Engaged
  <1>4. CASE RejectRefund(p)
    <2>. DEFINE q == [p EXCEPT !.status = "completed", !.request = "rejected"]
    <2>1. SetPurchase(p, q) /\ p.status = "refund-requested" /\ p.request = "pending"
      BY <1>4 DEF RejectRefund
    <2>2. /\ SameSale(p, q) /\ q.hold = p.hold /\ q.status = "completed" /\ q.request = "rejected"
          /\ q.job = p.job /\ q.finalized = p.finalized
      BY <1>1 DEF Bought, SameSale, PurchaseFields
    <2>. HIDE DEF q
    <2>3. Requested(q)
      BY <1>1, <2>1, <2>2 DEF Requested
    <2>. QED
      BY <1>2, <2>1, <2>2, <2>3 DEF Committed, Engaged
  <1>5. CASE RefundFails(p)
    <2>. DEFINE q == [p EXCEPT !.job = "failed", !.status = IF p.finalized THEN "refund-recovery-pending" ELSE @]
    <2>1. SetPurchase(p, q) /\ p.job \in {"queued", "finalized"}
      BY <1>5 DEF RefundFails
    <2>2. /\ SameSale(p, q) /\ q.hold = p.hold /\ q.request = p.request
          /\ q.status = (IF p.finalized THEN "refund-recovery-pending" ELSE p.status)
          /\ q.job = "failed" /\ q.finalized = p.finalized /\ q.refund = p.refund
      BY <1>1 DEF Bought, SameSale, PurchaseFields
    <2>. HIDE DEF q
    <2>3. PurchaseAmount(q) = PurchaseAmount(p)
      BY <2>2 DEF PurchaseAmount, SameSale
    <2>4. Requested(q) /\ q.status # "pending"
      BY <1>1, <2>1, <2>2, <2>3 DEF Requested
    <2>5. (Committed(q) => Committed(p)) /\ (q.status \in Engaged => p.status \in Engaged)
      BY <2>2 DEF Committed, Engaged
    <2>. QED
      BY <1>2, <2>1, <2>2, <2>4, <2>5
  <1>6. CASE RequestRefund(p, ts)
    <2>. DEFINE q == [p EXCEPT !.status = "refund-requested", !.request = "pending"]
    <2>1. SetPurchase(p, q) /\ p.status = "completed" /\ PurchaseAmount(p) > 0
      BY <1>6 DEF RequestRefund
    <2>2. /\ SameSale(p, q) /\ q.hold = p.hold /\ q.status = "refund-requested" /\ q.request = "pending"
          /\ q.job = p.job /\ q.finalized = p.finalized
      BY <1>1 DEF Bought, SameSale, PurchaseFields
    <2>. HIDE DEF q
    <2>3. PurchaseAmount(q) = PurchaseAmount(p)
      BY <2>2 DEF PurchaseAmount, SameSale
    <2>4. Requested(q)
      BY <1>1, <2>1, <2>2, <2>3 DEF Requested
    <2>. QED
      BY <1>2, <2>1, <2>2, <2>4 DEF Committed, Engaged
  <1>7. CASE CancelAttendance(p, ts)
    <2>. DEFINE q == [p EXCEPT !.status = "refund-requested", !.request = "approving",
                               !.refund = "attendance-cancellation", !.job = "queued"]
    <2>1. SetPurchase(p, q) /\ p.status \in {"completed", "refund-requested"} /\ PurchaseAmount(p) > 0
      BY <1>7 DEF CancelAttendance, Attending
    <2>2. /\ SameSale(p, q) /\ q.hold = p.hold /\ q.status = "refund-requested" /\ q.request = "approving"
          /\ q.job = "queued" /\ q.finalized = p.finalized
      BY <1>1 DEF Bought, SameSale, PurchaseFields
    <2>. HIDE DEF q
    <2>3. PurchaseAmount(q) = PurchaseAmount(p)
      BY <2>2 DEF PurchaseAmount, SameSale
    <2>4. Requested(q)
      BY <1>1, <2>1, <2>2, <2>3 DEF Requested
    <2>. QED
      BY <1>2, <2>1, <2>2, <2>4 DEF Committed, Engaged
  <1>. QED
    BY <1>3, <1>4, <1>5, <1>6, <1>7
\* A row with a refund job is no hold, so reconciliation leaves it alone.
LEMMA JobSurvives ==
  ASSUME EnrollmentInv, NEW p \in purchase, p.job # "none", NEW T, NEW ready, NEW ts \in Nat,
         Reconcile(Db, T, ready, ts).ok
  PROVE  Good(Reconcile(Db, T, ready, ts)) /\ p \in Reconcile(Db, T, ready, ts).purchase
  <1>1. p.status # "pending"
    BY DbTables DEF EnrollmentInv, Good, Requests, Requested
  <1>2. p \in ExpireHolds(Db, ts).purchase
    BY <1>1, ExpireHoldsGood, DbTables DEF EnrollmentInv
  <1>. QED
    BY <1>2, ReconciledDb

LEMMA FinalizeRefundGood ==
  ASSUME EnrollmentInv, NEW p \in purchase, NEW ts \in Nat, FinalizeRefund(p, ts)
  PROVE  Good(Db)'
  <1>. DEFINE r == Reconcile(Db, {p.tier}, ProviderReady, ts)
              e == EndAttendance(r, p)
              f == Refunded(e, p, "finalized")
              c == ReturnCode(f, p)
              n == Reconcile(c, {p.tier}, ProviderReady, ts)
  <1>1. Write(n) /\ p.job = "queued"
    BY DEF FinalizeRefund, Commit, Finalized
  <1>2. DOMAIN r = DbFields
    BY ReconcileFields, DbTables
  <1>3. r.ok => Good(r) /\ p \in r.purchase
    BY <1>1, JobSurvives
  <1>. HIDE DEF r
  <1>4. DOMAIN e = DbFields /\ e.purchase = r.purchase /\ (e.ok => r.ok) /\ (e.ok /\ Good(r) => Good(e))
    BY <1>2, EndAttendanceGood
  <1>. HIDE DEF e
  <1>5. DOMAIN f = DbFields /\ f.ok = e.ok
    BY <1>4, RefundedFields
  <1>6. e.ok => Good(f)
    BY <1>1, <1>3, <1>4, RefundedGood
  <1>. HIDE DEF f
  <1>7. /\ DOMAIN c = DbFields /\ c.ok = f.ok /\ c.waitlist = f.waitlist /\ c.offer = f.offer
        /\ c.purchase = f.purchase /\ c.attendee = f.attendee
    BY <1>5, ReturnCodeFields
  <1>. HIDE DEF c
  <1>8. n.ok /\ c.ok
    BY <1>1, <1>7, ReconcileFields DEF Write
  <1>9. Good(c)
    BY <1>5, <1>6, <1>7, <1>8, SameTables
  <1>10. Good(n)
    BY <1>8, <1>9, ReconcileGood
  <1>. QED
    BY <1>1, <1>10, WriteGood

LEMMA CompleteRecoveryGood ==
  ASSUME EnrollmentInv, NEW p \in purchase, NEW ts \in Nat, CompleteRecovery(p, ts)
  PROVE  Good(Db)'
  <1>. DEFINE r == Reconcile(Db, {p.tier}, ProviderReady, ts)
              ends == p.refund \in {"attendance-cancellation", "refund-request-approval"}
              e == IF ends THEN EndAttendance(r, p) ELSE r
              f == Refunded(e, p, "recovered")
              c == IF p.finalized THEN Refunded(r, p, "recovered") ELSE ReturnCode(f, p)
              n == Reconcile(c, {p.tier}, ProviderReady, ts)
  <1>1. Write(n) /\ p.job = "failed"
    BY DEF CompleteRecovery, Commit, Recovered
  <1>2. DOMAIN r = DbFields
    BY ReconcileFields, DbTables
  <1>3. r.ok => Good(r) /\ p \in r.purchase
    BY <1>1, JobSurvives
  <1>. HIDE DEF r
  <1>4. DOMAIN e = DbFields /\ e.purchase = r.purchase /\ (e.ok => r.ok) /\ (e.ok /\ Good(r) => Good(e))
    <2>1. CASE ends
      BY <1>2, <2>1, EndAttendanceGood
    <2>2. CASE ~ends
      BY <1>2, <2>2
    <2>. QED
      BY <2>1, <2>2
  <1>. HIDE DEF e
  <1>5. DOMAIN f = DbFields /\ f.ok = e.ok
    BY <1>4, RefundedFields
  <1>6. e.ok => Good(f)
    BY <1>1, <1>3, <1>4, RefundedGood
  <1>. HIDE DEF f
  <1>7. DOMAIN c = DbFields /\ (c.ok => Good(c))
    <2>1. CASE p.finalized
      <3>. DEFINE g == Refunded(r, p, "recovered")
      <3>1. c = g
        BY <2>1
      <3>2. DOMAIN g = DbFields /\ g.ok = r.ok
        BY <1>2, RefundedFields
      <3>3. r.ok => Good(g)
        BY <1>1, <1>3, RefundedGood
      <3>. HIDE DEF g, c
      <3>. QED
        BY <3>1, <3>2, <3>3
    <2>2. CASE ~p.finalized
      <3>. DEFINE g == ReturnCode(f, p)
      <3>1. c = g
        BY <2>2
      <3>2. /\ DOMAIN g = DbFields /\ g.ok = f.ok /\ g.waitlist = f.waitlist /\ g.offer = f.offer
            /\ g.purchase = f.purchase /\ g.attendee = f.attendee
        BY <1>5, ReturnCodeFields
      <3>. HIDE DEF g, c
      <3>3. f.ok => Good(g)
        BY <1>5, <1>6, <3>2, SameTables
      <3>. QED
        BY <3>1, <3>2, <3>3
    <2>. QED
      BY <2>1, <2>2
  <1>. HIDE DEF c
  <1>8. n.ok /\ c.ok
    BY <1>1, <1>7, ReconcileFields DEF Write
  <1>9. Good(n)
    BY <1>7, <1>8, ReconcileGood
  <1>. QED
    BY <1>1, <1>9, WriteGood

LEMMA CancelEventStepGood ==
  ASSUME EnrollmentInv, NEW ts \in Nat, CancelEvent(ts)
  PROVE  Good(Db)'
  <1>. DEFINE v == Vacated(Db, ts)
              seated == {p \in v.purchase : p.status \in {"completed", "refund-requested"}}
              free == {p \in seated : PurchaseAmount(p) = 0}
              rows == (v.purchase \ seated) \cup {RefundedFree(p) : p \in free}
                                            \cup {HandToRefund(p) : p \in seated \ free}
              n == [v EXCEPT !.purchase = rows, !.available = @ + Cardinality({p \in free : p.code})]
  <1>1. Write(n)
    BY DEF CancelEvent, Vacated, RefundedFree
  <1>2. DOMAIN v = DbFields /\ (v.ok => Good(v))
    BY VacatedGood DEF EnrollmentInv
  <1>. HIDE DEF v
  <1>3. /\ DOMAIN n = DbFields /\ n.waitlist = v.waitlist /\ n.offer = v.offer /\ n.attendee = v.attendee
        /\ n.purchase = rows /\ n.ok = v.ok
    <2>. HIDE DEF rows
    <2>. QED
      BY <1>2 DEF DbFields
  <1>. HIDE DEF n
  <1>4. Good(v)
    BY <1>1, <1>2, <1>3 DEF Write
  <1>5. Good(n)
    BY <1>3, <1>4, CancelEventGood
  <1>. QED
    BY <1>1, <1>5, WriteGood

LEMMA NextGood ==
  ASSUME EnrollmentInv, Next
  PROVE  EnrollmentInv'
  <1>0. Timestamps \subseteq Nat
    BY EnrollmentAssumption DEF Timestamps, EnrollmentInv
  <1>1. now' \in Nat
    <2>1. now' = now \/ now' = now + 1
      <3>0. \A s : Commit(s) => now' = now
        BY DEF Commit
      <3>1. ASSUME NEW u, NEW ts, UserStep(u, ts) PROVE now' = now
        BY <3>0, <3>1 DEF UserStep, AttendEvent, LeaveAttendance, LeaveWaitlist
      <3>2. ASSUME NEW r, NEW u, NEW t, NEW ts, InviteAttendee(r, u, t, ts) PROVE now' = now
        BY <3>0, <3>2 DEF InviteAttendee
      <3>3. ASSUME NEW r, NEW u, NEW t, NEW id, NEW code, NEW ts,
                   \/ CheckoutConflict(r, u, t, id, code, ts)
                   \/ ReuseCheckout(r, u, t, id, code, ts)
                   \/ StartCheckout(r, u, t, id, code, ts)
            PROVE  now' = now
        BY <3>0, <3>3 DEF CheckoutConflict, ReuseCheckout, StartCheckout
      <3>4. ASSUME NEW t, NEW ts, TierStep(t, ts) PROVE now' = now
        BY <3>2, <3>3, <3>4 DEF TierStep
      <3>5. ASSUME NEW o, NEW ts, ReleaseOffer(o, ts) PROVE now' = now
        BY <3>0, <3>5 DEF ReleaseOffer
      <3>6. ASSUME NEW p, PurchaseStep(p) PROVE now' = now
        BY <3>0, <3>6 DEF PurchaseStep, AttachSession, PayCheckout, SessionExpires, SetSession, CancelCheckout,
                          CompleteFree, CheckoutCompleted, CheckoutExpired
      <3>7. ReconcileNext => now' = now
        BY <3>0 DEF ReconcileNext
      <3>8. Tick => now' = now + 1
        BY DEF Tick
      <3>. QED
        BY <3>1, <3>4, <3>5, <3>6, <3>7, <3>8 DEF Next
    <2>. QED
      BY <2>1 DEF EnrollmentInv
  <1>2. ASSUME NEW u \in Users, NEW ts \in Timestamps, UserStep(u, ts) PROVE Good(Db)'
    BY <1>0, <1>2, AttendEventGood, LeaveAttendanceGood, LeaveWaitlistGood DEF UserStep
  <1>3. ASSUME NEW t \in Tiers, NEW ts \in Timestamps, TierStep(t, ts) PROVE Good(Db)'
    <2>. DEFINE r == Reconcile(Db, {t}, ProviderReady, ts)
    <2>. HIDE DEF r
    <2>1. PICK u \in Users :
            \/ InviteAttendee(r, u, t, ts)
            \/ \E id \in {0} \cup {o.id : o \in Of(offer, u)}, code \in Codes :
                  \/ CheckoutConflict(r, u, t, id, code, ts)
                  \/ ReuseCheckout(r, u, t, id, code, ts)
                  \/ StartCheckout(r, u, t, id, code, ts)
      BY <1>3 DEF TierStep, r
    <2>2. ts \in Nat /\ r = Reconcile(Db, {t}, ProviderReady, ts)
      BY <1>0 DEF r
    <2>3. CASE InviteAttendee(r, u, t, ts)
      BY <2>2, <2>3, InviteAttendeeGood
    <2>4. ASSUME NEW id \in {0} \cup {o.id : o \in Of(offer, u)}, NEW code \in Codes,
                 \/ CheckoutConflict(r, u, t, id, code, ts)
                 \/ ReuseCheckout(r, u, t, id, code, ts)
                 \/ StartCheckout(r, u, t, id, code, ts)
          PROVE  Good(Db)'
      <3>1. id = 0 \/ \E o \in offer : o.user = u /\ o.id = id
        BY DEF Of
      <3>2. CASE CheckoutConflict(r, u, t, id, code, ts)
        BY <2>2, <3>2, CheckoutConflictGood
      <3>3. CASE ReuseCheckout(r, u, t, id, code, ts)
        BY <2>2, <3>3, ReuseCheckoutGood
      <3>4. CASE StartCheckout(r, u, t, id, code, ts)
        BY <2>2, <3>1, <3>4, StartCheckoutGood
      <3>. QED
        BY <2>4, <3>2, <3>3, <3>4
    <2>. QED
      BY <2>1, <2>3, <2>4
  <1>4. ASSUME NEW o \in offer, NEW ts \in Timestamps, ReleaseOffer(o, ts) PROVE Good(Db)'
    BY <1>0, <1>4, ReleaseOfferGood
  <1>5. ASSUME NEW p \in purchase, PurchaseStep(p) PROVE Good(Db)'
    <2>1. CASE AttachSession(p) \/ PayCheckout(p) \/ SessionExpires(p)
      BY <2>1, SessionStepsGood
    <2>2. ASSUME NEW ts \in Timestamps, CancelCheckout(p, ts) \/ CheckoutExpired(p, ts) PROVE Good(Db)'
      BY <1>0, <2>2, ExpireOneGood DEF CancelCheckout, CheckoutExpired, Commit
    <2>3. ASSUME NEW ts \in Timestamps, CompleteFree(p, ts) PROVE Good(Db)'
      BY <1>0, <2>3, CompleteFreeGood
    <2>4. ASSUME NEW ts \in Timestamps, CheckoutCompleted(p, ts) PROVE Good(Db)'
      BY <1>0, <2>4, CheckoutCompletedGood
    <2>. QED
      BY <1>5, <2>1, <2>2, <2>3, <2>4 DEF PurchaseStep
  <1>6. ASSUME Tick PROVE Good(Db)'
    BY <1>6, UnchangedGood DEF Tick, EnrollmentInv
  <1>7. Good(Db)'
    BY <1>2, <1>3, <1>4, <1>5, <1>6, ReconcileNextGood DEF Next
  <1>. QED
    BY <1>1, <1>7 DEF EnrollmentInv

LEMMA StepGood ==
  ASSUME EnrollmentInv, [RefundsNext]_vars
  PROVE  EnrollmentInv'
  <1>0. Timestamps \subseteq Nat
    BY EnrollmentAssumption DEF Timestamps, EnrollmentInv
  <1>1. CASE Next
    BY <1>1, NextGood
  <1>2. ASSUME NEW p \in purchase, RefundStep(p) PROVE EnrollmentInv'
    <2>1. now' = now
      BY <1>2 DEF RefundStep, ApproveRefund, RejectRefund, RefundFails, RequestRefund, CancelAttendance,
                  FinalizeRefund, CompleteRecovery, SetPurchase, Commit
    <2>2. Good(Db)'
      <3>1. ASSUME NEW ts \in Timestamps, FinalizeRefund(p, ts) PROVE Good(Db)'
        BY <1>0, <3>1, FinalizeRefundGood
      <3>2. ASSUME NEW ts \in Timestamps, CompleteRecovery(p, ts) PROVE Good(Db)'
        BY <1>0, <3>2, CompleteRecoveryGood
      <3>. QED
        BY <1>2, <3>1, <3>2, RefundRowsGood DEF RefundStep
    <2>. QED
      BY <2>1, <2>2 DEF EnrollmentInv
  <1>3. ASSUME NEW ts \in Timestamps, CancelEvent(ts) PROVE EnrollmentInv'
    <2>1. Good(Db)'
      BY <1>0, <1>3, CancelEventStepGood
    <2>. QED
      BY <1>3, <2>1 DEF CancelEvent, EnrollmentInv
  <1>4. CASE UNCHANGED vars
    BY <1>4, UnchangedGood DEF vars, EnrollmentInv
  <1>. QED
    BY <1>1, <1>2, <1>3, <1>4 DEF RefundsNext

-----------------------------------------------------------------------------
(* The theorems. *)

LEMMA GoodProperties ==
  ASSUME EnrollmentInv
  PROVE  NoOverselling /\ QueueExclusive /\ RefundRequestConsistent
  <1>1. NoOverselling
    <2>1. \A t \in Tiers : Promised(t) = PromisedOf(Db, t)
      BY DbTables DEF Promised, PromisedOf
    <2>. QED
      BY <2>1 DEF NoOverselling, EnrollmentInv, Good, Sold
  <1>2. QueueExclusive
    BY DbTables DEF QueueExclusive, EnrollmentInv, Good, Exclusive, ActiveOffers, Attendee, Of, Present, Engaged
  <1>3. RefundRequestConsistent
    BY DbTables DEF RefundRequestConsistent, EnrollmentInv, Good, Requests, Requested
  <1>. QED
    BY <1>1, <1>2, <1>3

\* Enrollment and refunds keep the invariant: the tables are well formed, no
\* tier is oversold, queues exclude everything else, every purchase agrees
\* with its refund job and request, and names an offer that exists.
THEOREM EnrollmentInvariant == RefundsSpec => []EnrollmentInv
  <1>1. EnrollmentInv /\ [RefundsNext]_vars => EnrollmentInv'
    BY StepGood
  <1>. QED
    BY InitGood, <1>1, PTL DEF RefundsSpec

\* No tier is oversold, whatever the number of users, seats and tiers, however
\* long transactions wait for the event lock and in whatever order promotion,
\* invitation, checkout, late webhooks, refunds and the cancellation of the
\* event run: get_event_ticket_type_allocated_seat_count counts, after a
\* reconciliation with the same timestamp, every seat that is promised.
THEOREM TiersNotOversold == RefundsSpec => []NoOverselling
  <1>1. EnrollmentInv => NoOverselling
    BY GoodProperties
  <1>. QED
    BY EnrollmentInvariant, <1>1, PTL

\* Nobody who is queued has an active offer, a hold, a seat or attendance: the
\* triggers of the four tables and attend_event's look-up of holds suffice.
THEOREM QueuedHoldNothing == RefundsSpec => []QueueExclusive
  <1>1. EnrollmentInv => QueueExclusive
    BY GoodProperties
  <1>. QED
    BY EnrollmentInvariant, <1>1, PTL

\* A refund request stays open exactly as long as its money is owed, whoever
\* started the refund (request_event_refund, the organizer, the canceled event)
\* and however it ended, reversals and recoveries included.
THEOREM RequestsAreConsistent == RefundsSpec => []RefundRequestConsistent
  <1>1. EnrollmentInv => RefundRequestConsistent
    BY GoodProperties
  <1>. QED
    BY EnrollmentInvariant, <1>1, PTL

\* The same for seats and queues where nothing that was paid is refunded.
THEOREM EnrollmentAlone == Spec => [](NoOverselling /\ QueueExclusive)
  <1>1. [Next]_vars => [RefundsNext]_vars
    BY DEF RefundsNext
  <1>2. Spec => RefundsSpec
    BY <1>1, PTL DEF Spec, RefundsSpec
  <1>. QED
    BY <1>2, TiersNotOversold, QueuedHoldNothing, PTL
=============================================================================
