------------------------- MODULE EnrollmentAccounts -------------------------
(***************************************************************************)
(* What enrollment owes: rows have keys, the discount code is neither lost *)
(* nor invented, a completed offer was paid for, an offer in checkout has  *)
(* its purchase, attendance is paid for, an acknowledged payment bought a  *)
(* seat or goes back, and a seat goes to the head of its queue.            *)
(*                                                                         *)
(* As in EnrollmentProofs, a lemma per transformer says that the accounts  *)
(* pass from the record it is given to the one it returns; a step is a     *)
(* chain of these lemmas.  The last part does the same for what a step may *)
(* give away while somebody is queued.                                     *)
(***************************************************************************)
EXTENDS EnrollmentProofs

\* (user, id) is a key, and the ids of a user are counted up.
Keyed(table) ==
    /\ \A x, y \in table : x.user = y.user /\ x.id = y.id => x = y
    /\ \A x \in table : x.id \in 1..Cardinality(Of(table, x.user))

\* What one purchase says by itself.
Recorded(p) ==
    /\ p.status \in PurchaseStatuses /\ p.code \in BOOLEAN
    /\ p.status = "pending" => p.hold \in Nat
    /\ p.status = "expired" => p.hold \in 0..now
    /\ p.refund = "automatic" => p.status \in {"refund-pending", "refunded", "refund-recovery-pending"}
    /\ p.job = "queued" => p.status \in {"refund-pending", "refund-requested"}
    /\ p.status = "refund-requested" /\ p.job # "none" =>
          p.refund \in {"attendance-cancellation", "refund-request-approval"}

\* The units of the discount code that purchases hold.
Coded(P) == {p \in P : p.code /\ Committed(p)}
Conserved(s) == s.available \in Int /\ s.available + Cardinality(Coded(s.purchase)) = InitialAvailable

OneEngaged(s) ==
    \A p, q \in s.purchase : p.user = q.user /\ p.status \in Engaged /\ q.status \in Engaged => p.id = q.id

\* A purchase linked to an offer that was paid for, and the offer it took.
PaidFor(p) == Committed(p) /\ p.status # "pending"
Final(p) == p.status \in SeatHolding \cup {"refunded"}
PaidOffers(s) ==
    \A p \in s.purchase : p.offer # 0 /\ PaidFor(p) =>
        \A o \in s.offer : o.user = p.user /\ o.id = p.offer => o.status = "completed"
SoldOffers(s) ==
    \A o \in s.offer : o.status = "completed" =>
        \E p \in s.purchase : p.user = o.user /\ p.offer = o.id /\ Final(p)

Ledger(s) ==
    /\ Keyed(s.offer) /\ Keyed(s.purchase)
    /\ \A v, w \in s.waitlist : v.user = w.user => v = w
    /\ \A p \in s.purchase : Recorded(p)
    /\ Conserved(s) /\ OneEngaged(s) /\ PaidOffers(s) /\ SoldOffers(s)

\* No payment is missed in n that was not missed in s.
NoneMissed(s, n) ==
    \A p \in n.purchase : Missed(p) =>
        \E q \in s.purchase : Missed(q) /\ q.user = p.user /\ q.id = p.id

\* Nor is that of row r.
NoneMissedBut(s, r, n) ==
    \A p \in n.purchase : Missed(p) =>
        \E q \in s.purchase : q # r /\ Missed(q) /\ q.user = p.user /\ q.id = p.id

\* The users who attend are those who have a seat.
Confirms(a) == a.status = "confirmed"
HasSeat(p) == p.status \in {"completed", "refund-requested"}
Seats(s) ==
    \A u : (\E a \in s.attendee : a.user = u /\ Confirms(a)) <=> (\E p \in s.purchase : p.user = u /\ HasSeat(p))

\* An offer in checkout has a purchase that is not decided yet.
Undecided(p) == p.status \in {"pending", "refund-pending", "refund-recovery-pending"}
Claims(s) ==
    \A o \in s.offer : o.status = "checkout_pending" =>
        \E p \in s.purchase : p.user = o.user /\ p.offer = o.id /\ Undecided(p)

-----------------------------------------------------------------------------
(* Keys. *)

\* A one-to-one image has as many members.
LEMMA InjectiveImage ==
  ASSUME NEW S, IsFiniteSet(S), NEW f, \A x, y \in S : f[x] = f[y] => x = y
  PROVE  IsFiniteSet({f[x] : x \in S}) /\ Cardinality({f[x] : x \in S}) = Cardinality(S)
  <1>. DEFINE T == {f[x] : x \in S}
              g == [x \in S |-> f[x]]
  <1>1. g \in Surjection(S, T) /\ g \in Injection(S, T)
    BY DEF Surjection, Injection, IsInjective
  <1>. HIDE DEF T, g
  <1>2. IsFiniteSet(T) /\ Cardinality(T) = Cardinality(S)
    BY <1>1, FS_Surjection
  <1>. QED
    BY <1>2 DEF T

\* The rows of P after a step that keeps their keys: f[x] is what x becomes.
Renewed(P, f, N) == N = {f[x] : x \in P} /\ \A x \in P : f[x].user = x.user /\ f[x].id = x.id

LEMMA KeyedRenewed ==
  ASSUME NEW P, IsFiniteSet(P), Keyed(P), NEW f, NEW N, Renewed(P, f, N)
  PROVE  Keyed(N) /\ \A x, y \in P : f[x] = f[y] => x = y
  <1>1. \A x, y \in P : f[x] = f[y] => x = y
    BY DEF Renewed, Keyed
  <1>2. \A x, y \in N : x.user = y.user /\ x.id = y.id => x = y
    BY DEF Renewed, Keyed
  <1>3. ASSUME NEW u PROVE Cardinality(Of(N, u)) = Cardinality(Of(P, u))
    <2>1. Of(N, u) = {f[x] : x \in Of(P, u)}
      BY DEF Renewed, Of
    <2>2. IsFiniteSet(Of(P, u)) /\ Of(P, u) \subseteq P
      BY FS_Subset DEF Of
    <2>. QED
      BY <1>1, <2>1, <2>2, InjectiveImage
  <1>4. \A x \in N : x.id \in 1..Cardinality(Of(N, x.user))
    BY <1>3 DEF Renewed, Keyed
  <1>. QED
    BY <1>1, <1>2, <1>4 DEF Keyed

\* The next id of a user is not taken.
LEMMA NextIdFresh ==
  ASSUME NEW P, IsFiniteSet(P), Keyed(P), NEW u
  PROVE  /\ NextId(P, u) \in Nat \ {0} /\ Cardinality(Of(P, u)) \in Nat
         /\ \A x \in P : x.user = u => x.id # NextId(P, u)
  <1>1. IsFiniteSet(Of(P, u)) /\ Cardinality(Of(P, u)) \in Nat
    <2>1. Of(P, u) \subseteq P
      BY DEF Of
    <2>. QED
      BY <2>1, FS_Subset, FS_CardinalityType
  <1>2. \A x \in P : x.user = u => x.id \in 1..Cardinality(Of(P, u))
    BY DEF Keyed
  <1>. QED
    BY <1>1, <1>2 DEF NextId

\* Rows with the next ids of different users are added.
LEMMA KeyedAdded ==
  ASSUME NEW P, IsFiniteSet(P), Keyed(P), NEW A,
         \A x \in A : x.id = NextId(P, x.user),
         \A x, y \in A : x.user = y.user => x = y
  PROVE  Keyed(P \cup A)
  <1>. DEFINE N == P \cup A
  <1>0. \A x \in P : \A y \in A : x.user = y.user => x.id # y.id
    BY NextIdFresh
  <1>1. \A x, y \in N : x.user = y.user /\ x.id = y.id => x = y
    BY <1>0 DEF Keyed
  <1>2. ASSUME NEW x \in N PROVE x.id \in 1..Cardinality(Of(N, x.user))
    <2>. DEFINE u == x.user
    <2>1. /\ NextId(P, u) = Cardinality(Of(P, u)) + 1 /\ Cardinality(Of(P, u)) \in Nat
          /\ IsFiniteSet(Of(P, u))
      <3>1. IsFiniteSet(Of(P, u))
        BY FS_Subset DEF Of
      <3>. QED
        BY <3>1, NextIdFresh DEF NextId
    <2>2. CASE \E y \in A : y.user = u
      <3>1. PICK y \in A : y.user = u
        BY <2>2
      <3>2. Of(N, u) = Of(P, u) \cup {y}
        BY <3>1 DEF Of
      <3>3. y \notin Of(P, u)
        BY <1>0, <3>1 DEF Of
      <3>4. Cardinality(Of(N, u)) = Cardinality(Of(P, u)) + 1
        BY <2>1, <3>2, <3>3, FS_AddElement
      <3>5. CASE x \in P
        <4>1. x.id \in 1..Cardinality(Of(P, u))
          BY <3>5 DEF Keyed
        <4>. QED
          BY <2>1, <3>4, <4>1
      <3>6. CASE x \in A
        BY <2>1, <3>4, <3>6
      <3>. QED
        BY <3>5, <3>6
    <2>3. CASE ~\E y \in A : y.user = u
      <3>1. Of(N, u) = Of(P, u) /\ x \in P
        BY <2>3 DEF Of
      <3>. QED
        BY <3>1 DEF Keyed
    <2>. QED
      BY <2>2, <2>3
  <1>. QED
    BY <1>1, <1>2 DEF Keyed

-----------------------------------------------------------------------------
(* Purchases that change. *)

\* q is what becomes of the row p.
Follows(p, q) ==
    /\ SameSale(p, q) /\ Recorded(q)
    /\ Committed(q) => Committed(p)
    /\ PaidFor(q) => PaidFor(p)
    /\ q.status \in Engaged => p.status \in Engaged
    /\ Final(p) => Final(q)

\* The units of the code that are given back.
Returned(P, f) == {p \in P : p.code /\ Committed(p) /\ ~Committed(f[p])}

LEMMA CodedRenewed ==
  ASSUME NEW P, IsFiniteSet(P), Keyed(P), NEW f, NEW N, Renewed(P, f, N),
         \A p \in P : p.code \in BOOLEAN /\ f[p].code = p.code /\ (Committed(f[p]) => Committed(p))
  PROVE  /\ Cardinality(Coded(P)) \in Nat /\ Cardinality(Coded(N)) \in Nat /\ Cardinality(Returned(P, f)) \in Nat
         /\ Cardinality(Coded(P)) = Cardinality(Coded(N)) + Cardinality(Returned(P, f))
  <1>. DEFINE kept == {p \in Coded(P) : Committed(f[p])}
  <1>1. IsFiniteSet(Coded(P)) /\ kept \subseteq Coded(P) /\ Returned(P, f) \subseteq Coded(P)
    BY FS_Subset DEF Coded, Returned
  <1>2. IsFiniteSet(kept) /\ IsFiniteSet(Returned(P, f))
    BY <1>1, FS_Subset
  <1>3. Coded(N) = {f[p] : p \in kept}
    BY DEF Renewed, Coded
  <1>4. \A p, q \in kept : f[p] = f[q] => p = q
    BY KeyedRenewed DEF Coded
  <1>5. Coded(P) = kept \cup Returned(P, f) /\ kept \cap Returned(P, f) = {}
    BY DEF Coded, Returned
  <1>. HIDE DEF kept
  <1>6. IsFiniteSet(Coded(N)) /\ Cardinality(Coded(N)) = Cardinality(kept)
    BY <1>2, <1>3, <1>4, InjectiveImage
  <1>7. Cardinality(Coded(P)) = Cardinality(kept) + Cardinality(Returned(P, f)) - Cardinality({})
    BY <1>2, <1>5, FS_Union
  <1>. QED
    BY <1>1, <1>2, <1>6, <1>7, FS_CardinalityType, FS_EmptySet

LEMMA LedgerRenewed ==
  ASSUME NEW s, Good(s), Ledger(s), NEW n, n.waitlist \subseteq s.waitlist, n.offer = s.offer,
         NEW f, Renewed(s.purchase, f, n.purchase), \A p \in s.purchase : Follows(p, f[p]),
         n.available = s.available + Cardinality(Returned(s.purchase, f))
  PROVE  /\ Ledger(n)
         /\ (\A p \in s.purchase : f[p].session = "settled" => p.session = "settled" \/ Final(f[p]))
            => NoneMissed(s, n)
  <1>1. IsFiniteSet(s.purchase) /\ Keyed(s.purchase) /\ \A p \in s.purchase : Recorded(p)
    BY DEF Good, Shape, Ledger
  <1>2. Keyed(n.purchase)
    BY <1>1, KeyedRenewed
  <1>3. Conserved(n)
    <2>1. /\ Cardinality(Coded(s.purchase)) \in Nat /\ Cardinality(Coded(n.purchase)) \in Nat
          /\ Cardinality(Returned(s.purchase, f)) \in Nat
          /\ Cardinality(Coded(s.purchase)) = Cardinality(Coded(n.purchase)) + Cardinality(Returned(s.purchase, f))
      <3>1. \A p \in s.purchase : p.code \in BOOLEAN /\ f[p].code = p.code /\ (Committed(f[p]) => Committed(p))
        BY <1>1 DEF Recorded, Follows, SameSale
      <3>. QED
        BY <1>1, <3>1, CodedRenewed
    <2>2. s.available \in Int /\ s.available + Cardinality(Coded(s.purchase)) = InitialAvailable
      BY DEF Ledger, Conserved
    <2>. QED
      BY <2>1, <2>2 DEF Conserved
  <1>4. OneEngaged(n)
    BY DEF Ledger, OneEngaged, Renewed, Follows
  <1>5. PaidOffers(n)
    BY DEF Ledger, PaidOffers, Renewed, Follows, SameSale
  <1>6. SoldOffers(n)
    BY DEF Ledger, SoldOffers, Renewed, Follows, SameSale
  <1>7. \A p \in n.purchase : Recorded(p)
    BY DEF Renewed, Follows
  <1>8. Ledger(n)
    BY <1>2, <1>3, <1>4, <1>5, <1>6, <1>7 DEF Ledger
  <1>9. ASSUME \A p \in s.purchase : f[p].session = "settled" => p.session = "settled" \/ Final(f[p])
        PROVE  NoneMissed(s, n)
    <2>1. \A p \in s.purchase : Missed(f[p]) => Missed(p)
      BY <1>9 DEF Missed, Final, Follows
    <2>. QED
      BY <2>1 DEF NoneMissed, Renewed
  <1>. QED
    BY <1>8, <1>9

\* The same for one row.
LEMMA LedgerReplaced ==
  ASSUME NEW s, Good(s), Ledger(s), NEW n, n.waitlist \subseteq s.waitlist, n.offer = s.offer,
         NEW p \in s.purchase, NEW q, n.purchase = Replace(s.purchase, p, q), Follows(p, q),
         n.available = s.available + Units(p.code /\ Committed(p) /\ ~Committed(q))
  PROVE  /\ Ledger(n)
         /\ (q.session = "settled" => p.session = "settled" \/ Final(q)) => NoneMissed(s, n)
  <1>. DEFINE f == [x \in s.purchase |-> IF x = p THEN q ELSE x]
  <1>0. \A x \in s.purchase : Recorded(x) /\ Bought(x)
    BY DEF Good, Shape, Ledger
  <1>1. Renewed(s.purchase, f, n.purchase)
    BY DEF Renewed, Replace, Follows, SameSale
  <1>2. ASSUME NEW x \in s.purchase PROVE Follows(x, f[x])
    BY <1>0 DEF Follows, SameSale, Bought
  <1>3. Cardinality(Returned(s.purchase, f)) = Units(p.code /\ Committed(p) /\ ~Committed(q))
    <2>1. CASE p.code /\ Committed(p) /\ ~Committed(q)
      <3>1. Returned(s.purchase, f) = {p}
        BY <2>1 DEF Returned
      <3>. QED
        BY <2>1, <3>1, FS_Singleton DEF Units
    <2>2. CASE ~(p.code /\ Committed(p) /\ ~Committed(q))
      <3>1. Returned(s.purchase, f) = {}
        BY <2>2 DEF Returned
      <3>. QED
        BY <2>2, <3>1, FS_EmptySet DEF Units
    <2>. QED
      BY <2>1, <2>2
  <1>4. f[p] = q /\ \A x \in s.purchase : x # p => f[x] = x
    OBVIOUS
  <1>. HIDE DEF f
  <1>. QED
    BY <1>1, <1>2, <1>3, <1>4, LedgerRenewed

-----------------------------------------------------------------------------
(* Reconciliation. *)

\* The accounts pass from s to n.
Keeps(s, n) == Ledger(n) /\ NoneMissed(s, n) /\ (Seats(s) => Seats(n))

LEMMA MissedTransitive ==
  ASSUME NEW s, NEW n, NEW m, NoneMissed(s, n), NoneMissed(n, m)
  PROVE  NoneMissed(s, m)
  <1>. SUFFICES ASSUME NEW p \in m.purchase, Missed(p)
                PROVE  \E q \in s.purchase : Missed(q) /\ q.user = p.user /\ q.id = p.id
    BY DEF NoneMissed
  <1>1. PICK x \in n.purchase : Missed(x) /\ x.user = p.user /\ x.id = p.id
    BY DEF NoneMissed
  <1>2. PICK y \in s.purchase : Missed(y) /\ y.user = x.user /\ y.id = x.id
    BY <1>1 DEF NoneMissed
  <1>. QED
    BY <1>1, <1>2

LEMMA KeepsTransitive ==
  ASSUME NEW s, NEW n, NEW m, Keeps(s, n), Keeps(n, m)
  PROVE  Keeps(s, m)
  <1>1. NoneMissed(s, m)
    BY MissedTransitive DEF Keeps
  <1>. QED
    BY <1>1 DEF Keeps

\* A transaction's timestamp.
Moment(ts) == now \in Nat /\ ts \in Nat /\ ts <= now

SameConfirmed(s, n) == \A a : Confirms(a) => (a \in s.attendee <=> a \in n.attendee)

LEMMA ReleaseConfirmed ==
  ASSUME NEW s, DOMAIN s = DbFields, NEW us, NEW ts
  PROVE  SameConfirmed(s, ReleaseAttendeeHolds(s, us, ts))
  BY DEF ReleaseAttendeeHolds, DbFields, SameConfirmed, Confirms

LEMMA ExpireAccounts ==
  ASSUME NEW s, DOMAIN s = DbFields, NEW rows, NEW ts
  PROVE  /\ Expire(s, rows, ts).available = s.available + Cardinality({p \in rows : p.code})
         /\ SameConfirmed(s, Expire(s, rows, ts))
  <1>. DEFINE x == [s EXCEPT !.purchase = (@ \ rows) \cup {[p EXCEPT !.status = "expired", !.hold = Min2(@, ts)] : p \in rows},
                             !.available = @ + Cardinality({p \in rows : p.code})]
  <1>1. /\ DOMAIN x = DbFields /\ x.attendee = s.attendee
        /\ x.available = s.available + Cardinality({p \in rows : p.code})
    BY DEF DbFields
  <1>2. Expire(s, rows, ts) = ReleaseAttendeeHolds(x, {p.user : p \in rows}, ts)
    BY DEF Expire
  <1>. HIDE DEF x
  <1>. QED
    BY <1>1, <1>2, ReleaseFields, ReleaseConfirmed DEF SameConfirmed

LEMMA ExpiredFollows ==
  ASSUME NEW p, Bought(p), Recorded(p), p.status = "pending", NEW ts, Moment(ts)
  PROVE  /\ Follows(p, ExpiredRow(p, ts)) /\ ExpiredRow(p, ts).status = "expired"
         /\ ExpiredRow(p, ts).session = p.session
  <1>. DEFINE q == ExpiredRow(p, ts)
  <1>1. /\ SameSale(p, q) /\ q.status = "expired" /\ q.hold = Min2(p.hold, ts)
        /\ q.job = p.job /\ q.refund = p.refund /\ q.session = p.session
    BY DEF ExpiredRow, Bought, PurchaseFields, SameSale
  <1>2. q.hold \in 0..now
    BY <1>1 DEF Recorded, Min2, Moment
  <1>. HIDE DEF q
  <1>3. Recorded(q)
    BY <1>1, <1>2 DEF Recorded, SameSale, PurchaseStatuses
  <1>4. Follows(p, q)
    BY <1>1, <1>3 DEF Follows, Committed, PaidFor, Engaged, Final, SeatHolding
  <1>. QED
    BY <1>1, <1>4 DEF q

LEMMA SeatsKept ==
  ASSUME NEW s, Good(s), NEW n, SameConfirmed(s, n),
         NEW f, Renewed(s.purchase, f, n.purchase), \A p \in s.purchase : HasSeat(f[p]) <=> HasSeat(p)
  PROVE  Seats(s) => Seats(n)
  BY DEF Seats, SameConfirmed, Renewed

LEMMA ExpireKeeps ==
  ASSUME NEW s, Good(s), Ledger(s), NEW rows, rows \subseteq {p \in s.purchase : p.status = "pending"},
         NEW ts, Moment(ts)
  PROVE  Keeps(s, Expire(s, rows, ts))
  <1>. DEFINE n == Expire(s, rows, ts)
              f == [p \in s.purchase |-> IF p \in rows THEN ExpiredRow(p, ts) ELSE p]
  <1>0. DOMAIN s = DbFields /\ \A p \in s.purchase : Bought(p) /\ Recorded(p)
    BY DEF Good, Shape, Ledger
  <1>1. /\ n.waitlist = s.waitlist /\ n.offer = s.offer
        /\ n.purchase = (s.purchase \ rows) \cup {ExpiredRow(p, ts) : p \in rows}
        /\ n.available = s.available + Cardinality({p \in rows : p.code})
        /\ SameConfirmed(s, n)
    BY <1>0, ExpireFields, ExpireAccounts
  <1>2. \A p \in rows : /\ Follows(p, ExpiredRow(p, ts)) /\ ExpiredRow(p, ts).status = "expired"
                        /\ ExpiredRow(p, ts).session = p.session /\ p \in s.purchase /\ p.status = "pending"
    BY <1>0, ExpiredFollows
  <1>3. \A p \in s.purchase : Follows(p, p)
    BY <1>0 DEF Follows, SameSale, Bought
  <1>4. /\ \A p \in s.purchase \ rows : f[p] = p
        /\ \A p \in rows : f[p] = ExpiredRow(p, ts)
        /\ n.purchase = {f[p] : p \in s.purchase}
    BY <1>1
  <1>. HIDE DEF n, f
  <1>5. \A p \in s.purchase : Follows(p, f[p]) /\ f[p].session = p.session /\ (HasSeat(f[p]) <=> HasSeat(p))
    BY <1>2, <1>3, <1>4 DEF HasSeat
  <1>6. Renewed(s.purchase, f, n.purchase)
    BY <1>4, <1>5 DEF Renewed, Follows, SameSale
  <1>7. Returned(s.purchase, f) = {p \in rows : p.code}
    BY <1>2, <1>4 DEF Returned, Committed
  <1>8. n.available = s.available + Cardinality(Returned(s.purchase, f))
    BY <1>1, <1>7
  <1>9. \A p \in s.purchase : f[p].session = "settled" => p.session = "settled" \/ Final(f[p])
    BY <1>5
  <1>10. Ledger(n) /\ NoneMissed(s, n)
    BY <1>1, <1>5, <1>6, <1>8, <1>9, LedgerRenewed
  <1>11. Seats(s) => Seats(n)
    BY <1>1, <1>5, <1>6, SeatsKept
  <1>. QED
    BY <1>10, <1>11 DEF Keeps, n

LEMMA ExpireHoldsKeeps ==
  ASSUME NEW s, Good(s), Ledger(s), NEW ts, Moment(ts)
  PROVE  Keeps(s, ExpireHolds(s, ts))
  <1>. DEFINE rows == {p \in s.purchase :
                        /\ p.status = "pending"
                        /\ \/ p.hold <= ts
                           \/ \E o \in ActiveOffers(s, p.user) : o.id = p.offer /\ o.expires <= ts}
  <1>1. ExpireHolds(s, ts) = Expire(s, rows, ts)
    BY DEF ExpireHolds
  <1>2. rows \subseteq {p \in s.purchase : p.status = "pending"}
    OBVIOUS
  <1>. HIDE DEF rows
  <1>. QED
    BY <1>1, <1>2, ExpireKeeps

\* Offers that change, none of them to or from completed.
LEMMA OffersRenewed ==
  ASSUME NEW s, Good(s), Ledger(s), NEW n, n.waitlist \subseteq s.waitlist, n.purchase = s.purchase,
         SameConfirmed(s, n), n.available = s.available,
         NEW h, Renewed(s.offer, h, n.offer),
         \A o \in s.offer : h[o].status = "completed" <=> o.status = "completed"
  PROVE  Keeps(s, n)
  <1>1. Keyed(n.offer)
    BY KeyedRenewed DEF Good, Shape, Ledger
  <1>2. PaidOffers(n) /\ SoldOffers(n)
    BY DEF Renewed, Ledger, PaidOffers, SoldOffers
  <1>3. Conserved(n) /\ OneEngaged(n)
    BY DEF Ledger, Conserved, OneEngaged
  <1>4. Ledger(n)
    BY <1>1, <1>2, <1>3 DEF Ledger
  <1>5. NoneMissed(s, n)
    BY DEF NoneMissed
  <1>6. Seats(s) => Seats(n)
    BY DEF Seats, SameConfirmed
  <1>. QED
    BY <1>4, <1>5, <1>6 DEF Keeps

\* Offers that lapsed end, abandoned ones are given back, and those that stay
\* in checkout have an undecided purchase.
LEMMA SettleKeeps ==
  ASSUME NEW s, Good(s), Ledger(s), NEW ts, Moment(ts)
  PROVE  Keeps(s, SettleOffers(s, ts)) /\ Claims(SettleOffers(s, ts))
  <1>. DEFINE n == SettleOffers(s, ts)
              due == Due(s, ts)
              back == AbandonedOffers(s, ts)
              ended == [o \in due |-> [o EXCEPT !.status = "expired"]]
              given == [o \in back |-> [o EXCEPT !.status = "pending"]]
              h == [o \in s.offer |-> IF o \in due THEN ended[o] ELSE IF o \in back THEN given[o] ELSE o]
  <1>0. DOMAIN s = DbFields /\ \A o \in s.offer : DOMAIN o = OfferFields
    BY DEF Good, Shape, Offered
  <1>1. /\ n.waitlist = s.waitlist /\ n.purchase = s.purchase /\ n.attendee = s.attendee
        /\ n.available = s.available
        /\ n.offer = (s.offer \ (due \cup back)) \cup {ended[o] : o \in due} \cup {given[o] : o \in back}
    BY <1>0, SettleFields
  <1>2. /\ due \subseteq s.offer /\ back \subseteq s.offer \ due
        /\ \A o \in due : o.status \in {"checkout_pending", "pending"}
        /\ \A o \in back : o.status = "checkout_pending"
    BY DEF Due, AbandonedOffers, ActiveOffer
  <1>a. \A o \in s.offer : o.status = "checkout_pending" /\ o \notin due \cup back =>
            \E p \in s.purchase : p.user = o.user /\ p.offer = o.id /\ (p.status \in SeatHolding \/ LivePending(p, ts))
    BY DEF AbandonedOffers, Of
  <1>3. \A o \in due : ended[o].user = o.user /\ ended[o].id = o.id /\ ended[o].status = "expired"
    BY <1>0, <1>2 DEF OfferFields
  <1>b. \A o \in back : given[o].user = o.user /\ given[o].id = o.id /\ given[o].status = "pending"
    BY <1>0, <1>2 DEF OfferFields
  <1>. HIDE DEF n, due, back, ended, given
  <1>4. /\ \A o \in due : h[o] = ended[o]
        /\ \A o \in back : h[o] = given[o]
        /\ \A o \in s.offer \ (due \cup back) : h[o] = o
    BY <1>2
  <1>5. n.offer = {h[o] : o \in s.offer}
    <2>. HIDE DEF h
    <2>1. {h[o] : o \in s.offer} =
              {h[o] : o \in s.offer \ (due \cup back)} \cup {h[o] : o \in due} \cup {h[o] : o \in back}
      BY <1>2
    <2>2. /\ {ended[o] : o \in due} = {h[o] : o \in due}
          /\ {given[o] : o \in back} = {h[o] : o \in back}
          /\ s.offer \ (due \cup back) = {h[o] : o \in s.offer \ (due \cup back)}
      BY <1>4
    <2>. QED
      BY <1>1, <2>1, <2>2
  <1>. HIDE DEF h
  <1>6. Renewed(s.offer, h, n.offer)
    BY <1>3, <1>b, <1>4, <1>5 DEF Renewed
  <1>7. \A o \in s.offer : h[o].status = "completed" <=> o.status = "completed"
    BY <1>2, <1>3, <1>b, <1>4
  <1>8. SameConfirmed(s, n)
    BY <1>1 DEF SameConfirmed
  <1>9. Keeps(s, n)
    <2>1. n.waitlist \subseteq s.waitlist /\ n.purchase = s.purchase /\ n.available = s.available
      BY <1>1
    <2>. QED
      BY ONLY Good(s), Ledger(s), <1>6, <1>7, <1>8, <2>1, OffersRenewed
  <1>10. Claims(n)
    <2>1. ASSUME NEW o \in n.offer, o.status = "checkout_pending"
          PROVE  \E p \in n.purchase : p.user = o.user /\ p.offer = o.id /\ Undecided(p)
      <3>1. o \in s.offer \ (due \cup back)
        BY <1>1, <1>3, <1>b, <2>1
      <3>2. PICK p \in s.purchase : p.user = o.user /\ p.offer = o.id /\ (p.status \in SeatHolding \/ LivePending(p, ts))
        BY <1>a, <2>1, <3>1
      <3>3. p.offer # 0
        BY <3>1, <3>2 DEF Ledger, Keyed
      <3>4. ~PaidFor(p)
        BY <2>1, <3>1, <3>2, <3>3 DEF Ledger, PaidOffers
      <3>5. Undecided(p)
        BY <3>2, <3>4 DEF PaidFor, Committed, Undecided, SeatHolding, LivePending
      <3>. QED
        BY <1>1, <3>2, <3>5
    <2>. QED
      BY <2>1 DEF Claims
  <1>. QED
    BY <1>9, <1>10 DEF n

\* Pending offers with the next ids of different users are added.
LEMMA OffersAdded ==
  ASSUME NEW s, Good(s), Ledger(s), NEW n, n.waitlist \subseteq s.waitlist, n.purchase = s.purchase,
         n.attendee = s.attendee, n.available = s.available,
         NEW new, n.offer = s.offer \cup new,
         \A x \in new : x.id = NextId(s.offer, x.user),
         \A x \in new : x.status = "pending",
         \A x, y \in new : x.user = y.user => x = y
  PROVE  Keeps(s, n) /\ (Claims(s) => Claims(n))
  <1>0. IsFiniteSet(s.offer) /\ Keyed(s.offer)
    BY DEF Good, Shape, Ledger
  <1>1. Keyed(n.offer)
    <2>1. Keyed(s.offer \cup new)
      BY <1>0, KeyedAdded
    <2>. QED
      BY <2>1
  <1>2. PaidOffers(n)
    <2>1. ASSUME NEW p \in s.purchase, p.offer # 0, NEW o \in new, o.user = p.user, o.id = p.offer PROVE FALSE
      <3>1. PICK x \in s.offer : x.user = p.user /\ x.id = p.offer
        BY <2>1 DEF Good, Linked, HasOffer
      <3>. QED
        BY <1>0, <2>1, <3>1, NextIdFresh
    <2>. QED
      BY <2>1 DEF Ledger, PaidOffers
  <1>3. SoldOffers(n) /\ Conserved(n) /\ OneEngaged(n)
    BY DEF Ledger, SoldOffers, Conserved, OneEngaged
  <1>4. Ledger(n)
    BY <1>1, <1>2, <1>3 DEF Ledger
  <1>5. NoneMissed(s, n) /\ (Seats(s) => Seats(n)) /\ (Claims(s) => Claims(n))
    BY DEF NoneMissed, Seats, Claims
  <1>. QED
    BY <1>4, <1>5 DEF Keeps

LEMMA PromoteKeeps ==
  ASSUME NEW s, Good(s), Ledger(s), NEW T, NEW ready, NEW ts
  PROVE  /\ Keeps(s, Promote(s, T, ready, ts))
         /\ Claims(s) => Claims(Promote(s, T, ready, ts))
  <1>. DEFINE n == Promote(s, T, ready, ts)
              heads == Promotable(s, T, ready, ts)
              new == {PromotedOffer(s, w, ts) : w \in heads}
  <1>0. DOMAIN s = DbFields
    BY DEF Good, Shape
  <1>1. /\ n.waitlist \subseteq s.waitlist /\ n.purchase = s.purchase /\ n.attendee = s.attendee
        /\ n.available = s.available /\ n.offer = s.offer \cup new
    BY <1>0, PromoteFields
  <1>2. heads \subseteq s.waitlist
    BY DEF Promotable
  <1>3. \A w \in heads : LET o == PromotedOffer(s, w, ts)
                         IN  o.user = w.user /\ o.id = NextId(s.offer, w.user) /\ o.status = "pending"
    BY DEF PromotedOffer, NewOffer
  <1>4. \A x \in new : x.id = NextId(s.offer, x.user)
    BY <1>3
  <1>5. \A x \in new : x.status = "pending"
    BY <1>3
  <1>6. \A x, y \in new : x.user = y.user => x = y
    BY <1>2, <1>3 DEF Ledger
  <1>. HIDE DEF n, new, heads
  <1>7. Keeps(s, n) /\ (Claims(s) => Claims(n))
    BY <1>1, <1>4, <1>5, <1>6, OffersAdded
  <1>. QED
    BY <1>7 DEF n

LEMMA ReconcileKeeps ==
  ASSUME NEW s, Good(s), Ledger(s), NEW T, NEW ready, NEW ts, Moment(ts)
  PROVE  Keeps(s, Reconcile(s, T, ready, ts)) /\ Claims(Reconcile(s, T, ready, ts))
  <1>. DEFINE a == ExpireHolds(s, ts)
              b == SettleOffers(a, ts)
              n == Promote(b, T, ready, ts)
  <1>1. Good(a) /\ Keeps(s, a)
    BY ExpireHoldsGood, ExpireHoldsKeeps DEF Moment
  <1>. HIDE DEF a
  <1>2. Good(b) /\ Keeps(a, b) /\ Claims(b)
    BY <1>1, SettleGood, SettleKeeps DEF Moment, Keeps
  <1>. HIDE DEF b
  <1>3. Keeps(b, n) /\ Claims(n)
    BY <1>2, PromoteKeeps DEF Keeps
  <1>. HIDE DEF n
  <1>4. Keeps(s, n)
    BY <1>1, <1>2, <1>3, KeepsTransitive
  <1>5. n = Reconcile(s, T, ready, ts)
    BY DEF Reconcile, n, a, b
  <1>. QED
    BY <1>3, <1>4, <1>5

-----------------------------------------------------------------------------
(* Queues, invitations and answers. *)

\* The same offers and purchases, the same confirmed attendees.
LEMMA SalesUntouched ==
  ASSUME NEW s, Ledger(s), NEW n, n.offer = s.offer, n.purchase = s.purchase, n.available = s.available,
         \A v, w \in n.waitlist : v.user = w.user => v = w, SameConfirmed(s, n)
  PROVE  Keeps(s, n) /\ (Claims(s) => Claims(n))
  <1>1. Ledger(n)
    BY DEF Ledger, Conserved, OneEngaged, PaidOffers, SoldOffers
  <1>. QED
    BY <1>1 DEF Keeps, NoneMissed, Seats, SameConfirmed, Claims

LEMMA JoinKeeps ==
  ASSUME NEW s, Good(s), Ledger(s), NEW u, NEW t, NEW ts
  PROVE  /\ Keeps(s, JoinWaitlist(s, u, t, ts))
         /\ Claims(s) => Claims(JoinWaitlist(s, u, t, ts))
  <1>. DEFINE n == JoinWaitlist(s, u, t, ts)
              out == [s EXCEPT !.waitlist = @ \ Of(@, u),
                               !.attendee = {a \in @ : ~(a.user = u /\ a.status = "attendance-canceled")}]
              new == [user |-> u, tier |-> t, created_at |-> ts]
  <1>0. DOMAIN s = DbFields
    BY DEF Good, Shape
  <1>1. /\ DOMAIN out = DbFields /\ out.waitlist = s.waitlist \ Of(s.waitlist, u) /\ SameConfirmed(s, out)
        /\ out.offer = s.offer /\ out.purchase = s.purchase /\ out.available = s.available
    BY <1>0 DEF DbFields, SameConfirmed, Confirms
  <1>2. n = Require([out EXCEPT !.waitlist = @ \cup {new}], WaitlistAllowed(out, u))
    BY DEF JoinWaitlist
  <1>3. new.user = u
    OBVIOUS
  <1>. HIDE DEF out, n, new
  <1>4. /\ n.waitlist = out.waitlist \cup {new} /\ n.attendee = out.attendee
        /\ n.offer = s.offer /\ n.purchase = s.purchase /\ n.available = s.available
    BY <1>1, <1>2 DEF Require, DbFields
  <1>5. \A v, w \in n.waitlist : v.user = w.user => v = w
    BY <1>1, <1>3, <1>4 DEF Ledger, Of
  <1>6. SameConfirmed(s, n)
    BY <1>1, <1>4 DEF SameConfirmed
  <1>7. Keeps(s, n) /\ (Claims(s) => Claims(n))
    BY <1>4, <1>5, <1>6, SalesUntouched
  <1>. QED
    BY <1>7 DEF n

LEMMA InviteKeeps ==
  ASSUME NEW s, Good(s), Ledger(s), NEW u, NEW t, NEW ts
  PROVE  /\ Keeps(s, Invite(s, u, t, ts))
         /\ Claims(s) => Claims(Invite(s, u, t, ts))
  <1>. DEFINE n == Invite(s, u, t, ts)
              out == [s EXCEPT !.waitlist = @ \ Of(@, u)]
              new == NewOffer(s, u, t, InvitationExpiry(ts), "organizer_invitation")
  <1>0. DOMAIN s = DbFields
    BY DEF Good, Shape
  <1>1. /\ DOMAIN out = DbFields /\ out.waitlist \subseteq s.waitlist
        /\ out.offer = s.offer /\ out.purchase = s.purchase /\ out.attendee = s.attendee
        /\ out.available = s.available
    BY <1>0 DEF DbFields
  <1>2. n = Require([out EXCEPT !.offer = @ \cup {new}], OfferAllowed(out, u, new.id))
    BY DEF Invite
  <1>3. new.user = u /\ new.id = NextId(s.offer, u) /\ new.status = "pending"
    BY DEF NewOffer
  <1>. HIDE DEF out, n, new
  <1>4. /\ n.waitlist \subseteq s.waitlist /\ n.purchase = s.purchase /\ n.attendee = s.attendee
        /\ n.available = s.available /\ n.offer = s.offer \cup {new}
    BY <1>1, <1>2 DEF Require, DbFields
  <1>. DEFINE one == {new}
  <1>5. \A x \in one : x.id = NextId(s.offer, x.user)
    BY <1>3
  <1>6. \A x \in one : x.status = "pending"
    BY <1>3
  <1>7. (\A x, y \in one : x.user = y.user => x = y) /\ n.offer = s.offer \cup one
    BY <1>4
  <1>. HIDE DEF one
  <1>8. Keeps(s, n) /\ (Claims(s) => Claims(n))
    BY <1>4, <1>5, <1>6, <1>7, OffersAdded
  <1>. QED
    BY <1>8 DEF n

LEMMA UpsertAccounts ==
  ASSUME NEW s, Good(s), NEW u
  PROVE  /\ UpsertAnswers(s, u).available = s.available
         /\ UpsertAnswers(s, u).waitlist = s.waitlist
         /\ UpsertAnswers(s, u).offer = s.offer
         /\ UpsertAnswers(s, u).purchase = s.purchase
         /\ SameConfirmed(s, UpsertAnswers(s, u))
  <1>. DEFINE status == "registration-questions-pending"
              rows == {a \in Of(s.attendee, u) : a.status # "confirmed"}
              m == SetAttendance(s, rows, status)
              new == [user |-> u, status |-> status, manual |-> FALSE]
              added == Require([s EXCEPT !.attendee = @ \cup {new}], AttendeeAllowed(s, u, status))
              changed == Require(m, AttendeeAllowed(s, u, status))
  <1>0. DOMAIN s = DbFields /\ \A a \in s.attendee : DOMAIN a = AttendeeFields
    BY DEF Good, Shape, Attends
  <1>1. /\ DOMAIN m = DbFields /\ m.waitlist = s.waitlist /\ m.offer = s.offer /\ m.purchase = s.purchase
        /\ m.available = s.available
        /\ m.attendee = (s.attendee \ rows) \cup {[a EXCEPT !.status = status] : a \in rows}
    BY <1>0, AttendanceFields
  <1>2. rows \subseteq s.attendee /\ \A a \in rows : a.status # "confirmed"
    BY DEF Of
  <1>3. \A a \in rows : [a EXCEPT !.status = status].status = status
    BY <1>0, <1>2 DEF AttendeeFields
  <1>. HIDE DEF m, rows
  <1>4. SameConfirmed(s, m)
    BY <1>1, <1>2, <1>3 DEF SameConfirmed, Confirms
  <1>5. /\ changed.waitlist = s.waitlist /\ changed.offer = s.offer /\ changed.purchase = s.purchase
        /\ changed.available = s.available /\ changed.attendee = m.attendee
    BY <1>1 DEF Require, DbFields
  <1>6. /\ added.waitlist = s.waitlist /\ added.offer = s.offer /\ added.purchase = s.purchase
        /\ added.available = s.available /\ added.attendee = s.attendee \cup {new}
    BY <1>0 DEF Require, DbFields
  <1>7. SameConfirmed(s, changed)
    BY <1>4, <1>5 DEF SameConfirmed
  <1>8. SameConfirmed(s, added)
    <2>1. new.status # "confirmed"
      OBVIOUS
    <2>. HIDE DEF new, added
    <2>. QED
      BY <1>6, <2>1 DEF SameConfirmed, Confirms
  <1>9. SameConfirmed(s, s)
    BY DEF SameConfirmed
  <1>10. UpsertAnswers(s, u) \in {s, changed, added}
    BY DEF UpsertAnswers, m, rows
  <1>. HIDE DEF changed, added
  <1>. QED
    BY <1>5, <1>6, <1>7, <1>8, <1>9, <1>10

LEMMA UpsertKeeps ==
  ASSUME NEW s, Good(s), Ledger(s), NEW u
  PROVE  /\ Keeps(s, UpsertAnswers(s, u))
         /\ Claims(s) => Claims(UpsertAnswers(s, u))
  <1>1. \A v, w \in UpsertAnswers(s, u).waitlist : v.user = w.user => v = w
    BY UpsertAccounts DEF Ledger
  <1>. QED
    BY <1>1, UpsertAccounts, SalesUntouched

-----------------------------------------------------------------------------
(* Offers and holds. *)

LEMMA OfferReplacedKeeps ==
  ASSUME NEW s, Good(s), Ledger(s), NEW n, n.waitlist \subseteq s.waitlist, n.purchase = s.purchase,
         SameConfirmed(s, n), n.available = s.available,
         NEW o \in s.offer, NEW o1, n.offer = Replace(s.offer, o, o1), o1.user = o.user, o1.id = o.id,
         o1.status = "completed" <=> o.status = "completed"
  PROVE  Keeps(s, n)
  <1>. DEFINE h == [x \in s.offer |-> IF x = o THEN o1 ELSE x]
  <1>1. Renewed(s.offer, h, n.offer)
    BY DEF Renewed, Replace
  <1>2. \A x \in s.offer : h[x].status = "completed" <=> x.status = "completed"
    OBVIOUS
  <1>. HIDE DEF h
  <1>. QED
    BY <1>1, <1>2, OffersRenewed

LEMMA ReleasedKeeps ==
  ASSUME NEW s, Good(s), Ledger(s), NEW o \in s.offer, o.status \in ActiveOffer, NEW ts, Moment(ts)
  PROVE  Keeps(s, Released(s, o, ts))
  <1>. DEFINE linked == {p \in Of(s.purchase, o.user) : p.offer = o.id /\ p.status = "pending"}
              m == Expire(s, linked, ts)
              o1 == [o EXCEPT !.status = "released"]
              n == Released(s, o, ts)
  <1>0. DOMAIN s = DbFields /\ DOMAIN o = OfferFields
    BY DEF Good, Shape, Offered
  <1>1. linked \subseteq {p \in s.purchase : p.status = "pending"}
    BY DEF Of
  <1>. HIDE DEF linked
  <1>2. Good(m) /\ DOMAIN m = DbFields /\ m.offer = s.offer /\ Keeps(s, m)
    BY <1>0, <1>1, ExpireGood, ExpireFields, ExpireKeeps DEF Moment
  <1>3. n = [m EXCEPT !.offer = Replace(@, o, o1)]
    BY DEF Released, linked
  <1>4. o1.user = o.user /\ o1.id = o.id /\ (o1.status = "completed" <=> o.status = "completed")
    BY <1>0 DEF OfferFields, ActiveOffer
  <1>. HIDE DEF m, n, o1
  <1>5. /\ n.waitlist = m.waitlist /\ n.purchase = m.purchase /\ n.attendee = m.attendee
        /\ n.offer = Replace(m.offer, o, o1) /\ n.available = m.available
    BY <1>2, <1>3 DEF DbFields
  <1>6. SameConfirmed(m, n)
    BY <1>5 DEF SameConfirmed
  <1>7. Keeps(m, n)
    BY <1>2, <1>4, <1>5, <1>6, OfferReplacedKeeps DEF Keeps
  <1>. QED
    BY <1>2, <1>7, KeepsTransitive DEF n

LEMMA ClaimedKeeps ==
  ASSUME NEW s, Good(s), Ledger(s), NEW u, NEW id, NEW code,
         id # 0 => /\ \E o \in s.offer : o.user = u /\ o.id = id
                   /\ Row(s.offer, u, id).status \in ActiveOffer
  PROVE  Keeps(s, Claimed(s, u, id, code)) /\ Claimed(s, u, id, code).available = s.available
  <1>. DEFINE o == Row(s.offer, u, id)
              o1 == ClaimedRow(o, code)
              n == Claimed(s, u, id, code)
  <1>0. DOMAIN s = DbFields
    BY DEF Good, Shape
  <1>1. CASE id = 0
    <2>1. n = s
      BY <1>1 DEF Claimed
    <2>. QED
      BY <2>1 DEF Keeps, NoneMissed
  <1>2. CASE id # 0
    <2>1. o \in s.offer /\ o.user = u /\ o.id = id /\ o.status \in ActiveOffer /\ DOMAIN o = OfferFields
      BY <1>2, RowOf DEF Good, Shape, Offered
    <2>2. n = Require([s EXCEPT !.offer = Replace(@, o, o1)], OfferAllowed(s, u, id))
      BY <1>2 DEF Claimed
    <2>. HIDE DEF o, n
    <2>3. o1.user = o.user /\ o1.id = o.id /\ (o1.status = "completed" <=> o.status = "completed")
      BY <2>1 DEF ClaimedRow, OfferFields, ActiveOffer
    <2>. HIDE DEF o1
    <2>4. /\ n.waitlist = s.waitlist /\ n.purchase = s.purchase /\ n.attendee = s.attendee
          /\ n.available = s.available /\ n.offer = Replace(s.offer, o, o1)
      BY <1>0, <2>2 DEF Require, DbFields
    <2>5. SameConfirmed(s, n)
      BY <2>4 DEF SameConfirmed
    <2>6. Keeps(s, n)
      BY <2>1, <2>3, <2>4, <2>5, OfferReplacedKeeps
    <2>. QED
      BY <2>4, <2>6 DEF n
  <1>. QED
    BY <1>1, <1>2

\* A hold is added: it takes a unit of its code.
LEMMA HoldAdded ==
  ASSUME NEW s, Good(s), Ledger(s), NEW n, n.waitlist = s.waitlist, n.offer = s.offer,
         SameConfirmed(s, n),
         NEW new, n.purchase = s.purchase \cup {new}, Recorded(new), new.id = NextId(s.purchase, new.user),
         new.status = "pending", new.session = "none",
         \A q \in s.purchase : q.user = new.user /\ q.id # new.id => q.status \notin Engaged,
         n.available = s.available - Units(new.code)
  PROVE  Keeps(s, n)
  <1>0. IsFiniteSet(s.purchase) /\ Keyed(s.purchase)
    BY DEF Good, Shape, Ledger
  <1>1. \A q \in s.purchase : q.user = new.user => q.id # new.id
    BY <1>0, NextIdFresh
  <1>2. Keyed(n.purchase)
    <2>. DEFINE one == {new}
    <2>1. \A x \in one : x.id = NextId(s.purchase, x.user)
      OBVIOUS
    <2>2. \A x, y \in one : x.user = y.user => x = y
      OBVIOUS
    <2>3. n.purchase = s.purchase \cup one
      OBVIOUS
    <2>. HIDE DEF one
    <2>4. Keyed(s.purchase \cup one)
      BY <1>0, <2>1, <2>2, KeyedAdded
    <2>. QED
      BY <2>3, <2>4
  <1>3. Conserved(n)
    <2>1. IsFiniteSet(Coded(s.purchase)) /\ Cardinality(Coded(s.purchase)) \in Nat
      <3>1. Coded(s.purchase) \subseteq s.purchase
        BY DEF Coded
      <3>. QED
        BY <1>0, <3>1, FS_Subset, FS_CardinalityType
    <2>2. s.available \in Int /\ s.available + Cardinality(Coded(s.purchase)) = InitialAvailable
      BY DEF Ledger, Conserved
    <2>3. CASE new.code
      <3>1. Coded(n.purchase) = Coded(s.purchase) \cup {new}
        BY <2>3 DEF Coded, Committed
      <3>2. new \notin Coded(s.purchase)
        BY <1>1 DEF Coded
      <3>3. Cardinality(Coded(n.purchase)) = Cardinality(Coded(s.purchase)) + 1
        BY <2>1, <3>1, <3>2, FS_AddElement
      <3>. QED
        BY <2>1, <2>2, <2>3, <3>3 DEF Conserved, Units
    <2>4. CASE ~new.code
      <3>1. Coded(n.purchase) = Coded(s.purchase)
        BY <2>4 DEF Coded
      <3>. QED
        BY <2>1, <2>2, <2>4, <3>1 DEF Conserved, Units
    <2>. QED
      BY <2>3, <2>4
  <1>4. OneEngaged(n)
    <2>1. \A p, q \in s.purchase : p.user = q.user /\ p.status \in Engaged /\ q.status \in Engaged => p.id = q.id
      BY DEF Ledger, OneEngaged
    <2>2. \A q \in s.purchase : q.user = new.user => q.status \notin Engaged
      BY <1>1
    <2>. QED
      BY <2>1, <2>2 DEF OneEngaged
  <1>5. PaidOffers(n)
    BY DEF Ledger, PaidOffers, PaidFor
  <1>6. SoldOffers(n)
    BY DEF Ledger, SoldOffers
  <1>7. Ledger(n)
    BY <1>2, <1>3, <1>4, <1>5, <1>6 DEF Ledger
  <1>8. NoneMissed(s, n)
    BY DEF NoneMissed, Missed
  <1>9. Seats(s) => Seats(n)
    BY DEF Seats, SameConfirmed, HasSeat
  <1>. QED
    BY <1>7, <1>8, <1>9 DEF Keeps

LEMMA InsertHoldAccounts ==
  ASSUME NEW s, DOMAIN s = DbFields, NEW u, NEW t, NEW id, NEW code, NEW ts,
         NEW a, a = UpsertAnswers(Claimed(s, u, id, code), u)
  PROVE  /\ InsertHold(s, u, t, id, code, ts).available = a.available - Units(code)
         /\ InsertHold(s, u, t, id, code, ts).ok =>
                \A q \in a.purchase : q.user = u /\ q.id # NewPurchase(s, u, t, id, code, ts).id => q.status \notin Engaged
  <1>. DEFINE new == NewPurchase(s, u, t, id, code, ts)
              n == InsertHold(s, u, t, id, code, ts)
              held == [a EXCEPT !.purchase = @ \cup {new}, !.available = @ - Units(code)]
  <1>1. n = Require(held, PurchaseAllowed(held, new))
    BY DEF InsertHold, NewPurchase, Claimed, ClaimedRow
  <1>2. DOMAIN a = DbFields
    BY ClaimedFields, UpsertFields
  <1>0. new.user = u
    BY DEF NewPurchase
  <1>. HIDE DEF n, new
  <1>3. DOMAIN held = DbFields /\ held.purchase = a.purchase \cup {new} /\ held.available = a.available - Units(code)
    BY <1>2 DEF DbFields
  <1>. HIDE DEF held
  <1>4. n.available = held.available /\ (n.ok => PurchaseAllowed(held, new))
    BY <1>1, <1>3 DEF Require, DbFields
  <1>5. PurchaseAllowed(held, new) => \A q \in a.purchase : q.user = u /\ q.id # new.id => q.status \notin Engaged
    BY <1>0, <1>3 DEF PurchaseAllowed, Of, Engaged
  <1>. QED
    BY <1>3, <1>4, <1>5 DEF n, new

LEMMA InsertHoldKeeps ==
  ASSUME NEW s, Good(s), Ledger(s), NEW u, NEW t, NEW id, NEW code \in BOOLEAN, NEW ts, Moment(ts),
         InsertHold(s, u, t, id, code, ts).ok,
         Good(UpsertAnswers(Claimed(s, u, id, code), u)), Good(Claimed(s, u, id, code)),
         id # 0 => /\ \E o \in s.offer : o.user = u /\ o.id = id
                   /\ Row(s.offer, u, id).status \in ActiveOffer
  PROVE  /\ Keeps(s, InsertHold(s, u, t, id, code, ts))
         /\ /\ \A o \in s.offer : o.status = "checkout_pending" /\ (id = 0 \/ o.user # u \/ o.id # id) =>
                   \E p \in s.purchase : p.user = o.user /\ p.offer = o.id /\ Undecided(p)
            => Claims(InsertHold(s, u, t, id, code, ts))
  <1>. DEFINE c == Claimed(s, u, id, code)
              a == UpsertAnswers(c, u)
              new == NewPurchase(s, u, t, id, code, ts)
              n == InsertHold(s, u, t, id, code, ts)
              o == Row(s.offer, u, id)
  <1>0. DOMAIN s = DbFields
    BY DEF Good, Shape
  <1>1. /\ n.waitlist = a.waitlist /\ n.offer = a.offer /\ n.attendee = a.attendee
        /\ n.purchase = a.purchase \cup {new} /\ n.available = a.available - Units(code)
        /\ \A q \in a.purchase : q.user = u /\ q.id # new.id => q.status \notin Engaged
    BY <1>0, InsertHoldFields, InsertHoldAccounts
  <1>2. /\ new.user = u /\ new.id = NextId(s.purchase, u) /\ new.status = "pending" /\ new.offer = id
        /\ new.code = code /\ new.session = "none" /\ new.refund = "none" /\ new.job = "none"
        /\ new.hold = IF id = 0 THEN ts + HoldTime ELSE Min2(ts + HoldTime, o.expires)
    BY DEF NewPurchase
  <1>3. id # 0 => o \in s.offer /\ o.user = u /\ o.id = id /\ Offered(o)
    BY RowOf DEF Good, Shape
  <1>4. Recorded(new)
    <2>1. new.hold \in Nat
      BY <1>2, <1>3, EnrollmentAssumption DEF Min2, Offered, Moment
    <2>. QED
      BY <1>2, <2>1 DEF Recorded, PurchaseStatuses
  <1>5. Good(c) /\ Good(a)
    OBVIOUS
  <1>6. Keeps(s, c) /\ c.purchase = s.purchase
    BY <1>0, ClaimedKeeps, ClaimedFields
  <1>7. id # 0 => c.offer = Replace(s.offer, o, ClaimedRow(o, code))
    BY <1>0, ClaimedFields
  <1>8. id = 0 => c = s
    BY DEF Claimed
  <1>. HIDE DEF c, new, n, o
  <1>9. Keeps(c, a) /\ a.purchase = s.purchase /\ a.offer = c.offer
    BY <1>5, <1>6, UpsertKeeps, UpsertAccounts DEF Keeps
  <1>. HIDE DEF a
  <1>10. SameConfirmed(a, n)
    BY <1>1 DEF SameConfirmed
  <1>11. Keeps(a, n)
    <2>1. \A q \in a.purchase : q.user = new.user /\ q.id # new.id => q.status \notin Engaged
      BY <1>1, <1>2
    <2>2. new.id = NextId(a.purchase, new.user) /\ n.available = a.available - Units(new.code)
      BY <1>1, <1>2, <1>9
    <2>3. Ledger(a)
      BY <1>9 DEF Keeps
    <2>. QED
      BY <1>1, <1>2, <1>4, <1>5, <1>10, <2>1, <2>2, <2>3, HoldAdded
  <1>12. Keeps(s, n)
    BY <1>6, <1>9, <1>11, KeepsTransitive
  <1>13. ASSUME \A x \in s.offer : x.status = "checkout_pending" /\ (id = 0 \/ x.user # u \/ x.id # id) =>
                   \E p \in s.purchase : p.user = x.user /\ p.offer = x.id /\ Undecided(p)
         PROVE  Claims(n)
    <2>1. ASSUME NEW x \in n.offer, x.status = "checkout_pending"
          PROVE  \E p \in n.purchase : p.user = x.user /\ p.offer = x.id /\ Undecided(p)
      <3>1. CASE id # 0 /\ x.user = u /\ x.id = id
        BY <1>1, <1>2, <3>1 DEF Undecided
      <3>2. CASE id = 0 \/ x.user # u \/ x.id # id
        <4>1. x \in s.offer
          <5>1. CASE id = 0
            BY <1>1, <1>8, <1>9, <5>1
          <5>2. CASE id # 0
            <6>1. ClaimedRow(o, code).user = u /\ ClaimedRow(o, code).id = id
              BY <1>3, <5>2 DEF ClaimedRow, Offered, OfferFields
            <6>. QED
              BY <1>1, <1>7, <1>9, <3>2, <5>2, <6>1 DEF Replace
          <5>. QED
            BY <5>1, <5>2
        <4>. QED
          BY <1>1, <1>9, <1>13, <2>1, <3>2, <4>1
      <3>. QED
        BY <3>1, <3>2
    <2>. QED
      BY <2>1 DEF Claims
  <1>. QED
    BY <1>12, <1>13 DEF n

-----------------------------------------------------------------------------
(* Completion. *)

LEMMA CompleteAccounts ==
  ASSUME NEW s, DOMAIN s = DbFields, NEW p
  PROVE  Complete(s, p).available = s.available
  <1>. DEFINE o == Row(s.offer, p.user, p.offer)
              offers == Replace(s.offer, o, [o EXCEPT !.status = "completed"])
              q == [p EXCEPT !.status = "completed", !.hold = None]
              claimed == IF p.offer = 0 THEN s
                         ELSE Require([s EXCEPT !.offer = offers], o.status = "checkout_pending")
              row == SeatedRow(s, p)
              rows == (claimed.attendee \ Of(claimed.attendee, p.user)) \cup {row}
              seated == Require([claimed EXCEPT !.attendee = rows], AttendeeAllowed(claimed, p.user, "confirmed"))
              n == Complete(s, p)
  <1>1. n = Require([seated EXCEPT !.purchase = Replace(@, p, q)], PurchaseAllowed(seated, p))
    BY DEF Complete, SeatedRow
  <1>. HIDE DEF n, q, row
  <1>2. DOMAIN claimed = DbFields /\ claimed.available = s.available
    <2>. HIDE DEF offers, o
    <2>1. CASE p.offer = 0
      BY <2>1
    <2>2. CASE p.offer # 0
      BY <2>2 DEF Require, DbFields
    <2>. QED
      BY <2>1, <2>2
  <1>. HIDE DEF claimed
  <1>3. DOMAIN seated = DbFields /\ seated.available = s.available
    <2>. HIDE DEF rows
    <2>. QED
      BY <1>2 DEF Require, DbFields
  <1>. HIDE DEF seated
  <1>4. n.available = s.available
    BY <1>1, <1>3 DEF Require, DbFields
  <1>. QED
    BY <1>4 DEF n

\* The offer of p, and its row, become completed; nobody else is concerned.
LEMMA CompleteKeeps ==
  ASSUME NEW s, Good(s), Ledger(s), NEW p \in s.purchase, p.status = "pending"
  PROVE  /\ Ledger(Complete(s, p))
         /\ Seats(s) => Seats(Complete(s, p))
         /\ NoneMissedBut(s, p, Complete(s, p))
         /\ Claims(s) => Claims(Complete(s, p))
  <1>. DEFINE n == Complete(s, p)
              o == Row(s.offer, p.user, p.offer)
              o1 == [o EXCEPT !.status = "completed"]
              q == CompletedRow(p)
              row == SeatedRow(s, p)
              f == [x \in s.purchase |-> IF x = p THEN q ELSE x]
              h == [x \in s.offer |-> IF x = o THEN o1 ELSE x]
  <1>0. DOMAIN s = DbFields /\ Bought(p) /\ Recorded(p) /\ IsFiniteSet(s.purchase) /\ IsFiniteSet(s.offer)
    BY DEF Good, Shape, Ledger
  <1>1. /\ n.waitlist = s.waitlist /\ n.purchase = Replace(s.purchase, p, q)
        /\ n.offer = UsedOffers(s, p) /\ n.available = s.available
        /\ n.attendee = (s.attendee \ Of(s.attendee, p.user)) \cup {row}
    <2>1. Complete(s, p).attendee = SeatedRows(s, p)
      BY <1>0, CompleteFields
    <2>2. Complete(s, p).purchase = Replace(s.purchase, p, CompletedRow(p))
      BY ZenonT(60), <1>0, CompleteFields
    <2>3. Complete(s, p).waitlist = s.waitlist /\ Complete(s, p).offer = UsedOffers(s, p)
      BY <1>0, CompleteFields
    <2>4. Complete(s, p).available = s.available
      BY <1>0, CompleteAccounts
    <2>. QED
      BY <2>1, <2>2, <2>3, <2>4 DEF SeatedRows
  <1>2. /\ SameSale(p, q) /\ q.status = "completed" /\ q.session = p.session /\ q.refund = p.refund /\ q.job = p.job
    BY <1>0 DEF CompletedRow, Bought, PurchaseFields, SameSale
  <1>3. row.user = p.user /\ row.status = "confirmed"
    BY DEF SeatedRow
  <1>4. p.offer # 0 => /\ o \in s.offer /\ o.user = p.user /\ o.id = p.offer
                       /\ o1.user = o.user /\ o1.id = o.id /\ o1.status = "completed"
    <2>1. HasOffer(s, p) /\ \A x \in s.offer : Offered(x)
      BY DEF Good, Linked, Shape
    <2>2. p.offer # 0 => o \in s.offer /\ o.user = p.user /\ o.id = p.offer
      BY <2>1, RowOf DEF HasOffer
    <2>. QED
      BY <2>1, <2>2 DEF Offered, OfferFields
  <1>5. n.offer = IF p.offer = 0 THEN s.offer ELSE Replace(s.offer, o, o1)
    BY <1>1 DEF UsedOffers
  <1>6. f[p] = q /\ \A x \in s.purchase : x # p => f[x] = x
    OBVIOUS
  <1>7. (o \in s.offer => h[o] = o1) /\ \A x \in s.offer : x # o => h[x] = x
    OBVIOUS
  <1>8. n.purchase = {f[x] : x \in s.purchase}
    BY <1>1 DEF Replace
  <1>9. p.offer # 0 => n.offer = {h[x] : x \in s.offer}
    <2>. HIDE DEF h
    <2>. QED
      BY <1>4, <1>5, <1>7 DEF Replace
  <1>. HIDE DEF n, o, o1, q, row, f, h
  <1>10. Renewed(s.purchase, f, n.purchase)
    BY <1>2, <1>6, <1>8 DEF Renewed, SameSale
  <1>11. Recorded(q)
    BY <1>0, <1>2 DEF Recorded, SameSale, PurchaseStatuses, SeatHolding
  <1>12. Keyed(n.purchase) /\ Keyed(n.offer)
    <2>1. Keyed(n.purchase)
      BY <1>0, <1>10, KeyedRenewed DEF Ledger
    <2>2. CASE p.offer = 0
      BY <1>5, <2>1, <2>2 DEF Ledger
    <2>3. CASE p.offer # 0
      <3>1. Renewed(s.offer, h, n.offer)
        BY <1>4, <1>7, <1>9, <2>3 DEF Renewed
      <3>. QED
        BY <1>0, <2>1, <3>1, KeyedRenewed DEF Ledger
    <2>. QED
      BY <2>2, <2>3
  <1>13. Conserved(n)
    <2>1. \A x \in s.purchase : x.code \in BOOLEAN /\ f[x].code = x.code /\ (Committed(f[x]) => Committed(x))
      BY <1>2, <1>6 DEF Ledger, Recorded, SameSale, Committed
    <2>2. Returned(s.purchase, f) = {}
      BY <1>2, <1>6 DEF Returned, Committed
    <2>3. Cardinality(Coded(s.purchase)) = Cardinality(Coded(n.purchase)) + 0 /\ Cardinality(Coded(n.purchase)) \in Nat
      BY <1>0, <1>10, <2>1, <2>2, CodedRenewed, FS_EmptySet DEF Ledger
    <2>. QED
      BY <1>1, <2>3 DEF Ledger, Conserved
  <1>14. OneEngaged(n)
    <2>1. \A x \in s.purchase : f[x].user = x.user /\ f[x].id = x.id /\ (f[x].status \in Engaged => x.status \in Engaged)
      BY <1>2, <1>6 DEF SameSale, Engaged
    <2>. QED
      BY <1>8, <2>1 DEF Ledger, OneEngaged
  <1>15. \A x \in n.purchase : x = q \/ x \in s.purchase
    BY <1>1 DEF Replace
  <1>16. \A x \in s.purchase : x = p \/ x \in n.purchase
    BY <1>1 DEF Replace
  <1>17. q \in n.purchase
    BY <1>1 DEF Replace
  <1>18. \A x \in n.offer : x \in s.offer \/ (p.offer # 0 /\ x = o1)
    BY <1>5 DEF Replace
  <1>19. PaidOffers(n)
    <2>1. ASSUME NEW x \in n.purchase, x.offer # 0, PaidFor(x), NEW y \in n.offer, y.user = x.user, y.id = x.offer
          PROVE  y.status = "completed"
      <3>1. CASE x = q
        <4>1. p.offer # 0 /\ y.user = o1.user /\ y.id = o1.id
          BY <1>2, <1>4, <2>1, <3>1 DEF SameSale
        <4>2. o1 \in n.offer
          BY <1>5, <4>1 DEF Replace
        <4>. QED
          BY <1>4, <1>12, <4>1, <4>2 DEF Keyed
      <3>2. CASE x # q
        BY <1>4, <1>15, <1>18, <2>1, <3>2 DEF Ledger, PaidOffers
      <3>. QED
        BY <3>1, <3>2
    <2>. QED
      BY <2>1 DEF PaidOffers
  <1>20. SoldOffers(n)
    <2>1. ASSUME NEW y \in n.offer, y.status = "completed"
          PROVE  \E x \in n.purchase : x.user = y.user /\ x.offer = y.id /\ Final(x)
      <3>1. CASE p.offer # 0 /\ y = o1
        BY <1>2, <1>4, <1>17, <3>1 DEF SameSale, Final, SeatHolding
      <3>2. CASE y \in s.offer
        <4>1. PICK x \in s.purchase : x.user = y.user /\ x.offer = y.id /\ Final(x)
          BY <2>1, <3>2 DEF Ledger, SoldOffers
        <4>2. x # p
          BY <4>1 DEF Final, SeatHolding
        <4>. QED
          BY <1>16, <4>1, <4>2
      <3>. QED
        BY <1>18, <3>1, <3>2
    <2>. QED
      BY <2>1 DEF SoldOffers
  <1>21. Ledger(n)
    <2>1. \A v, w \in n.waitlist : v.user = w.user => v = w
      BY <1>1 DEF Ledger
    <2>2. \A x \in n.purchase : Recorded(x)
      BY <1>11, <1>15 DEF Ledger
    <2>. QED
      BY <1>12, <1>13, <1>14, <1>19, <1>20, <2>1, <2>2 DEF Ledger
  <1>22. ASSUME Seats(s) PROVE Seats(n)
    <2>1. ASSUME NEW u
          PROVE  (\E a \in n.attendee : a.user = u /\ Confirms(a)) <=> (\E x \in n.purchase : x.user = u /\ HasSeat(x))
      <3>1. CASE u = p.user
        BY <1>1, <1>2, <1>3, <1>17, <3>1 DEF SameSale, HasSeat, Confirms
      <3>2. CASE u # p.user
        <4>1. (\E a \in n.attendee : a.user = u /\ Confirms(a)) <=> (\E a \in s.attendee : a.user = u /\ Confirms(a))
          BY <1>1, <1>3, <3>2 DEF Of
        <4>2. (\E x \in n.purchase : x.user = u /\ HasSeat(x)) <=> (\E x \in s.purchase : x.user = u /\ HasSeat(x))
          BY <1>2, <1>15, <1>16, <3>2 DEF SameSale
        <4>. QED
          BY <1>22, <4>1, <4>2 DEF Seats
      <3>. QED
        BY <3>1, <3>2
    <2>. QED
      BY <2>1 DEF Seats
  <1>23. NoneMissedBut(s, p, n)
    <2>1. \A x \in n.purchase : x # q => x \in s.purchase /\ x # p
      BY <1>1 DEF Replace
    <2>. QED
      BY <1>2, <2>1 DEF NoneMissedBut, Missed, SeatHolding
  <1>24. ASSUME Claims(s) PROVE Claims(n)
    <2>1. ASSUME NEW y \in n.offer, y.status = "checkout_pending"
          PROVE  \E x \in n.purchase : x.user = y.user /\ x.offer = y.id /\ Undecided(x)
      <3>1. y \in s.offer
        BY <1>4, <1>18, <2>1
      <3>2. PICK x \in s.purchase : x.user = y.user /\ x.offer = y.id /\ Undecided(x)
        BY <1>24, <2>1, <3>1 DEF Claims
      <3>3. x # p
        <4>1. SUFFICES ASSUME x = p PROVE FALSE
          OBVIOUS
        <4>2. p.offer # 0
          BY <3>1, <3>2, <4>1 DEF Ledger, Keyed
        <4>3. y = o
          BY <1>4, <3>1, <3>2, <4>1, <4>2 DEF Ledger, Keyed
        <4>. QED
          BY <1>4, <1>5, <2>1, <4>2, <4>3 DEF Replace
      <3>. QED
        BY <1>16, <3>2, <3>3
    <2>. QED
      BY <2>1 DEF Claims
  <1>. QED
    BY <1>21, <1>22, <1>23, <1>24 DEF n

-----------------------------------------------------------------------------
(* Seats that are given back. *)

\* One purchase changes beside the attendance it stands for.
LEMMA RowKeeps ==
  ASSUME NEW s, Good(s), Ledger(s), NEW n, n.waitlist \subseteq s.waitlist, n.offer = s.offer, SameConfirmed(s, n),
         NEW p \in s.purchase, NEW q, n.purchase = Replace(s.purchase, p, q), Follows(p, q),
         HasSeat(q) <=> HasSeat(p),
         n.available = s.available + Units(p.code /\ Committed(p) /\ ~Committed(q))
  PROVE  /\ Ledger(n) /\ (Seats(s) => Seats(n))
         /\ (q.session = "settled" => p.session = "settled" \/ Final(q)) => Keeps(s, n)
         /\ (Undecided(p) => Undecided(q)) /\ Claims(s) => Claims(n)
  <1>1. Ledger(n) /\ ((q.session = "settled" => p.session = "settled" \/ Final(q)) => NoneMissed(s, n))
    BY LedgerReplaced
  <1>2. /\ \A x \in n.purchase : x = q \/ x \in s.purchase
        /\ \A x \in s.purchase : x = p \/ x \in n.purchase
        /\ q \in n.purchase /\ q.user = p.user /\ q.offer = p.offer
    BY DEF Replace, Follows, SameSale
  <1>3. ASSUME Seats(s) PROVE Seats(n)
    <2>1. ASSUME NEW u
          PROVE  (\E a \in n.attendee : a.user = u /\ Confirms(a)) <=> (\E x \in n.purchase : x.user = u /\ HasSeat(x))
      <3>1. (\E a \in n.attendee : a.user = u /\ Confirms(a)) <=> (\E a \in s.attendee : a.user = u /\ Confirms(a))
        BY DEF SameConfirmed
      <3>2. (\E x \in n.purchase : x.user = u /\ HasSeat(x)) <=> (\E x \in s.purchase : x.user = u /\ HasSeat(x))
        BY <1>2
      <3>. QED
        BY <1>3, <3>1, <3>2 DEF Seats
    <2>. QED
      BY <2>1 DEF Seats
  <1>4. (Undecided(p) => Undecided(q)) /\ Claims(s) => Claims(n)
    BY <1>2 DEF Claims
  <1>. QED
    BY <1>1, <1>3, <1>4 DEF Keeps

\* The seat of p ends together with the attendance of its user.
LEMMA SeatEnded ==
  ASSUME NEW s, Good(s), Ledger(s), Seats(s), NEW n,
         NEW p \in s.purchase, NEW q, n.purchase = Replace(s.purchase, p, q), SameSale(p, q), ~HasSeat(q),
         \A a : a.user # p.user /\ Confirms(a) => (a \in n.attendee <=> a \in s.attendee),
         HasSeat(p) => \A a \in n.attendee : a.user = p.user => ~Confirms(a),
         ~HasSeat(p) => \A a : a.user = p.user /\ Confirms(a) => (a \in n.attendee <=> a \in s.attendee)
  PROVE  Seats(n)
  <1>1. /\ \A x \in n.purchase : x = q \/ (x \in s.purchase /\ x # p)
        /\ \A x \in s.purchase : x = p \/ x \in n.purchase
        /\ q.user = p.user
    BY DEF Replace, SameSale
  <1>2. HasSeat(p) => \A x \in s.purchase : x.user = p.user /\ HasSeat(x) => x = p
    BY DEF Ledger, Keyed, OneEngaged, HasSeat, Engaged
  <1>3. ASSUME NEW u
        PROVE  (\E a \in n.attendee : a.user = u /\ Confirms(a)) <=> (\E x \in n.purchase : x.user = u /\ HasSeat(x))
    <2>1. CASE u = p.user /\ HasSeat(p)
      BY <1>1, <1>2, <2>1
    <2>2. CASE u # p.user \/ ~HasSeat(p)
      <3>1. (\E a \in n.attendee : a.user = u /\ Confirms(a)) <=> (\E a \in s.attendee : a.user = u /\ Confirms(a))
        BY <2>2
      <3>2. (\E x \in n.purchase : x.user = u /\ HasSeat(x)) <=> (\E x \in s.purchase : x.user = u /\ HasSeat(x))
        BY <1>1, <2>2
      <3>. QED
        BY <3>1, <3>2 DEF Seats
    <2>. QED
      BY <2>1, <2>2
  <1>. QED
    BY <1>3 DEF Seats

\* Rows whose status becomes attendance-canceled.
LEMMA CanceledRows ==
  ASSUME NEW s, Good(s), NEW rows, rows \subseteq s.attendee,
         NEW n, n.attendee = (s.attendee \ rows) \cup {[a EXCEPT !.status = "attendance-canceled"] : a \in rows}
  PROVE  \A a : Confirms(a) => (a \in n.attendee <=> a \in s.attendee \ rows)
  <1>. DEFINE out == [a \in rows |-> [a EXCEPT !.status = "attendance-canceled"]]
  <1>1. \A a \in rows : ~Confirms(out[a])
    BY DEF Good, Shape, Attends, AttendeeFields, Confirms
  <1>2. n.attendee = (s.attendee \ rows) \cup {out[a] : a \in rows}
    OBVIOUS
  <1>. HIDE DEF out, Confirms
  <1>. QED
    BY ONLY <1>1, <1>2

\* A free attendee leaves.
LEMMA LeaveKeeps ==
  ASSUME NEW s, Good(s), Ledger(s), NEW u, NEW p \in Attending(s, u),
         NEW a, a = SetAttendance(s, Of(s.attendee, u), "attendance-canceled"), RefundFree(a, p).ok
  PROVE  Keeps(s, RefundFree(a, p))
  <1>. DEFINE n == RefundFree(a, p)
              q == RefundedFree(p)
              rows == Of(s.attendee, u)
  <1>0. /\ DOMAIN s = DbFields /\ p \in s.purchase /\ p.user = u /\ Bought(p) /\ Recorded(p) /\ Requested(p)
        /\ p.status \in {"completed", "refund-requested"} /\ rows \subseteq s.attendee
    BY DEF Good, Shape, Ledger, Requests, Attending, Of
  <1>1. /\ DOMAIN a = DbFields /\ a.waitlist = s.waitlist /\ a.offer = s.offer /\ a.purchase = s.purchase
        /\ a.available = s.available
        /\ a.attendee = (s.attendee \ rows) \cup {[x EXCEPT !.status = "attendance-canceled"] : x \in rows}
    BY <1>0, AttendanceFields
  <1>2. /\ n.waitlist = s.waitlist /\ n.offer = s.offer /\ n.attendee = a.attendee
        /\ n.purchase = Replace(s.purchase, p, q)
    BY <1>1, RefundFreeFields
  <1>a. PurchaseAmount(p) = 0
    <2>1. n.ok = (a.ok /\ PurchaseAmount(p) = 0)
      BY <1>1, RefundFreeFields
    <2>. QED
      BY <2>1
  <1>3. n.available = s.available + Units(p.code)
    BY <1>1 DEF RefundFree, Require, DbFields
  <1>4. /\ SameSale(p, q) /\ q.status = "refunded" /\ q.refund = p.refund /\ q.job = p.job
        /\ q.session = p.session
    BY <1>0 DEF RefundedFree, Bought, PurchaseFields, SameSale
  <1>5. p.job # "queued"
    BY <1>0, <1>a DEF Requested
  <1>. HIDE DEF n, q, rows
  <1>6. Follows(p, q) /\ Committed(p) /\ ~Committed(q) /\ Final(q)
    <2>1. Recorded(q)
      BY <1>0, <1>4, <1>5 DEF Recorded, SameSale, PurchaseStatuses
    <2>. QED
      BY <1>0, <1>4, <2>1 DEF Follows, Committed, PaidFor, Engaged, Final
  <1>7. Ledger(n) /\ NoneMissed(s, n)
    <2>1. n.available = s.available + Units(p.code /\ Committed(p) /\ ~Committed(q))
      BY <1>3, <1>6 DEF Units
    <2>2. n.waitlist \subseteq s.waitlist
      BY <1>2
    <2>. QED
      BY <1>0, <1>2, <1>6, <2>1, <2>2, LedgerReplaced
  <1>8. ASSUME Seats(s) PROVE Seats(n)
    <2>1. \A x : Confirms(x) => (x \in n.attendee <=> x \in s.attendee \ rows)
      <3>1. n.attendee = (s.attendee \ rows) \cup {[x EXCEPT !.status = "attendance-canceled"] : x \in rows}
        BY <1>1, <1>2
      <3>2. rows \subseteq s.attendee
        BY <1>0
      <3>. QED
        BY ONLY Good(s), <3>1, <3>2, CanceledRows
    <2>2. \A x : x.user # p.user /\ Confirms(x) => (x \in n.attendee <=> x \in s.attendee)
      BY <1>0, <2>1 DEF Of, rows
    <2>3. \A x \in n.attendee : x.user = p.user => ~Confirms(x)
      BY <1>0, <2>1 DEF Of, rows
    <2>4. HasSeat(p) /\ ~HasSeat(q)
      BY <1>0, <1>4 DEF HasSeat
    <2>. QED
      BY <1>0, <1>2, <1>4, <1>8, <2>2, <2>3, <2>4, SeatEnded
  <1>. QED
    BY <1>7, <1>8 DEF Keeps, n

LEMMA EndAttendanceFields ==
  ASSUME NEW s, Good(s), NEW p
  PROVE  /\ EndAttendance(s, p).waitlist = s.waitlist /\ EndAttendance(s, p).offer = s.offer
         /\ EndAttendance(s, p).purchase = s.purchase /\ EndAttendance(s, p).available = s.available
         /\ \A a : a.user # p.user /\ Confirms(a) => (a \in EndAttendance(s, p).attendee <=> a \in s.attendee)
         /\ (\A q \in Attending(s, p.user) : q.id = p.id) =>
                \A a \in EndAttendance(s, p).attendee : a.user = p.user => ~Confirms(a)
         /\ (\E q \in Attending(s, p.user) : q.id # p.id) =>
                \A a : Confirms(a) => (a \in EndAttendance(s, p).attendee <=> a \in s.attendee)
  <1>. DEFINE e == EndAttendance(s, p)
              rows == {a \in Of(s.attendee, p.user) :
                        /\ a.status \in {"confirmed", "registration-questions-pending"}
                        /\ \A q \in Attending(s, p.user) : q.id = p.id}
  <1>0. DOMAIN s = DbFields /\ rows \subseteq s.attendee
    BY DEF Good, Shape, Of
  <1>1. e = SetAttendance(s, rows, "attendance-canceled")
    BY DEF EndAttendance
  <1>2. /\ \A a \in rows : a.user = p.user
        /\ (\A q \in Attending(s, p.user) : q.id = p.id) =>
               \A a \in s.attendee : a.user = p.user /\ Confirms(a) => a \in rows
        /\ (\E q \in Attending(s, p.user) : q.id # p.id) => rows = {}
    BY DEF Of, Confirms
  <1>. HIDE DEF rows, e
  <1>3. /\ e.waitlist = s.waitlist /\ e.offer = s.offer /\ e.purchase = s.purchase /\ e.available = s.available
        /\ e.attendee = (s.attendee \ rows) \cup {[a EXCEPT !.status = "attendance-canceled"] : a \in rows}
    BY <1>0, <1>1, AttendanceFields
  <1>4. \A a : Confirms(a) => (a \in e.attendee <=> a \in s.attendee \ rows)
    BY <1>0, <1>3, CanceledRows
  <1>5. \A a : a.user # p.user /\ Confirms(a) => (a \in e.attendee <=> a \in s.attendee)
    BY <1>2, <1>4
  <1>6. (\A q \in Attending(s, p.user) : q.id = p.id) => \A a \in e.attendee : a.user = p.user => ~Confirms(a)
    BY <1>2, <1>4
  <1>7. (\E q \in Attending(s, p.user) : q.id # p.id) => \A a : Confirms(a) => (a \in e.attendee <=> a \in s.attendee)
    BY <1>2, <1>4
  <1>. QED
    BY <1>3, <1>5, <1>6, <1>7 DEF e

\* The refund of p is final: a unit of the code is given back with the seat,
\* and the attendance that p alone paid for ends.
LEMMA RefundedKeeps ==
  ASSUME NEW s, Good(s), Ledger(s), NEW p \in s.purchase, NEW job \in {"finalized", "recovered"},
         NEW n, n.waitlist = s.waitlist, n.offer = s.offer, n.purchase = Replace(s.purchase, p, FinalRow(p, job)),
         n.available = s.available + Units(p.code /\ Committed(p)),
         \/ n.attendee = EndAttendance(s, p).attendee
         \/ n.attendee = s.attendee /\ ~HasSeat(p)
  PROVE  Keeps(s, n)
  <1>. DEFINE q == FinalRow(p, job)
  <1>0. Bought(p) /\ Recorded(p)
    BY DEF Good, Shape, Ledger
  <1>1. SameSale(p, q) /\ q.status = "refunded" /\ q.refund = p.refund /\ q.job = job
    BY <1>0 DEF FinalRow, Bought, PurchaseFields, SameSale
  <1>. HIDE DEF q
  <1>2. Follows(p, q) /\ ~Committed(q) /\ Final(q) /\ ~HasSeat(q)
    <2>1. Recorded(q)
      BY <1>0, <1>1 DEF Recorded, SameSale, PurchaseStatuses
    <2>. QED
      BY <1>1, <2>1 DEF Follows, Committed, PaidFor, Engaged, Final, HasSeat
  <1>3. Ledger(n) /\ NoneMissed(s, n)
    <2>1. n.available = s.available + Units(p.code /\ Committed(p) /\ ~Committed(q))
      BY <1>2 DEF Units
    <2>2. n.purchase = Replace(s.purchase, p, q) /\ n.waitlist \subseteq s.waitlist
      BY DEF q
    <2>. QED
      BY <1>2, <2>1, <2>2, LedgerReplaced
  <1>4. ASSUME Seats(s) PROVE Seats(n)
    <2>1. \A a : a.user # p.user /\ Confirms(a) => (a \in n.attendee <=> a \in s.attendee)
      BY EndAttendanceFields
    <2>2. \A x \in Attending(s, p.user) : x \in s.purchase /\ x.user = p.user /\ HasSeat(x)
      BY DEF Attending, Of, HasSeat
    <2>3. ASSUME HasSeat(p) PROVE \A a \in n.attendee : a.user = p.user => ~Confirms(a)
      <3>1. \A x \in Attending(s, p.user) : x.id = p.id
        BY <2>2, <2>3 DEF Ledger, OneEngaged, HasSeat, Engaged
      <3>. QED
        BY <2>3, <3>1, EndAttendanceFields
    <2>4. ASSUME ~HasSeat(p) PROVE \A a : a.user = p.user /\ Confirms(a) => (a \in n.attendee <=> a \in s.attendee)
      <3>1. CASE n.attendee = s.attendee
        BY <3>1
      <3>2. CASE n.attendee = EndAttendance(s, p).attendee /\ \E x \in Attending(s, p.user) : x.id # p.id
        BY <3>2, EndAttendanceFields
      <3>3. CASE n.attendee = EndAttendance(s, p).attendee /\ \A x \in Attending(s, p.user) : x.id = p.id
        <4>1. ~\E x \in s.purchase : x.user = p.user /\ HasSeat(x)
          <5>1. SUFFICES ASSUME NEW x \in s.purchase, x.user = p.user, HasSeat(x) PROVE FALSE
            OBVIOUS
          <5>2. x.id = p.id
            BY <3>3, <5>1 DEF Attending, Of, HasSeat
          <5>. QED
            BY <2>4, <5>1, <5>2 DEF Ledger, Keyed
        <4>2. ~\E a \in s.attendee : a.user = p.user /\ Confirms(a)
          BY <1>4, <4>1 DEF Seats
        <4>3. \A a \in n.attendee : a.user = p.user => ~Confirms(a)
          BY <3>3, EndAttendanceFields
        <4>. QED
          BY <4>2, <4>3
      <3>. QED
        BY <3>1, <3>2, <3>3
    <2>5. n.purchase = Replace(s.purchase, p, q)
      BY DEF q
    <2>. QED
      BY <1>1, <1>2, <1>4, <2>1, <2>3, <2>4, <2>5, SeatEnded
  <1>. QED
    BY <1>3, <1>4 DEF Keeps

\* A payment that bought nothing gives its unit of the code back at once.
LEMMA QueueAutomaticRefundKeeps ==
  ASSUME NEW s, Good(s), Ledger(s), NEW p \in s.purchase, p.status \in {"pending", "expired"}, NEW ts
  PROVE  /\ Ledger(QueueAutomaticRefund(s, p, ts))
         /\ Seats(s) => Seats(QueueAutomaticRefund(s, p, ts))
         /\ NoneMissedBut(s, p, QueueAutomaticRefund(s, p, ts))
  <1>. DEFINE n == QueueAutomaticRefund(s, p, ts)
              q == AutomaticRow(p)
              m == [s EXCEPT !.purchase = Replace(@, p, q),
                             !.available = @ + Units(p.status = "pending" /\ p.code)]
  <1>0. DOMAIN s = DbFields /\ Bought(p) /\ Recorded(p)
    BY DEF Good, Shape, Ledger
  <1>1. n = ReleaseAttendeeHolds(m, {p.user}, ts)
    BY DEF QueueAutomaticRefund, AutomaticRow
  <1>2. /\ SameSale(p, q) /\ q.status = "refund-pending" /\ q.refund = "automatic" /\ q.job = "queued"
        /\ q.session = p.session
    BY <1>0 DEF AutomaticRow, Bought, PurchaseFields, SameSale
  <1>. HIDE DEF q
  <1>3. /\ DOMAIN m = DbFields /\ m.waitlist = s.waitlist /\ m.offer = s.offer /\ m.attendee = s.attendee
        /\ m.purchase = Replace(s.purchase, p, q)
        /\ m.available = s.available + Units(p.status = "pending" /\ p.code)
    BY <1>0 DEF DbFields
  <1>. HIDE DEF m, n
  <1>4. /\ n.waitlist = s.waitlist /\ n.offer = s.offer /\ n.purchase = Replace(s.purchase, p, q)
        /\ n.available = m.available
    BY <1>1, <1>3, ReleaseFields
  <1>5. SameConfirmed(s, n)
    BY <1>1, <1>3, ReleaseConfirmed DEF SameConfirmed
  <1>6. Follows(p, q) /\ ~Committed(q) /\ Final(q) /\ (HasSeat(q) <=> HasSeat(p))
    <2>1. Recorded(q)
      BY <1>0, <1>2 DEF Recorded, SameSale, PurchaseStatuses, SeatHolding
    <2>. QED
      BY <1>2, <2>1 DEF Follows, Committed, PaidFor, Engaged, Final, HasSeat, SeatHolding
  <1>7. n.available = s.available + Units(p.code /\ Committed(p) /\ ~Committed(q))
    BY <1>3, <1>4, <1>6 DEF Units, Committed
  <1>8. n.waitlist \subseteq s.waitlist
    BY <1>4
  <1>9. Keeps(s, n)
    BY <1>4, <1>5, <1>6, <1>7, <1>8, RowKeeps
  <1>10. NoneMissedBut(s, p, n)
    BY <1>4, <1>6 DEF NoneMissedBut, Missed, Final, Replace
  <1>. QED
    BY <1>9, <1>10 DEF Keeps, n

-----------------------------------------------------------------------------
(* The canceled event. *)

LEMMA CloseKeeps ==
  ASSUME NEW s, Good(s), Ledger(s), NEW ts, Moment(ts)
  PROVE  /\ Keeps(s, CloseEnrollment(s, ts))
         /\ \A o \in CloseEnrollment(s, ts).offer : o.status \notin ActiveOffer
  <1>. DEFINE n == CloseEnrollment(s, ts)
              pending == {p \in s.purchase : p.status = "pending"}
              m == Expire(s, pending, ts)
              active == {o \in s.offer : o.status \in ActiveOffer}
              out == [o \in active |-> [o EXCEPT !.status = "released"]]
              offers == (s.offer \ active) \cup {out[o] : o \in active}
              h == [o \in s.offer |-> IF o \in active THEN out[o] ELSE o]
  <1>0. DOMAIN s = DbFields /\ \A o \in s.offer : DOMAIN o = OfferFields
    BY DEF Good, Shape, Offered
  <1>1. Good(m) /\ Keeps(s, m)
    <2>1. pending \subseteq {p \in s.purchase : p.status = "pending"} /\ ts \in Int
      BY DEF Moment
    <2>. HIDE DEF pending
    <2>. QED
      BY <2>1, ExpireGood, ExpireKeeps
  <1>2. DOMAIN m = DbFields /\ m.offer = s.offer
    BY <1>0, ExpireFields
  <1>3. n = Require([m EXCEPT !.offer = offers, !.waitlist = {}],
                    \A o \in active : o.status = "checkout_pending" => OfferAllowed(m, o.user, o.id))
    <2>1. {out[o] : o \in active} = {[o EXCEPT !.status = "released"] : o \in active}
      OBVIOUS
    <2>. HIDE DEF out, active
    <2>2. n = Require([m EXCEPT !.offer = (@ \ active) \cup {[o EXCEPT !.status = "released"] : o \in active}, !.waitlist = {}],
                    \A o \in active : o.status = "checkout_pending" => OfferAllowed(m, o.user, o.id))
      BY DEF CloseEnrollment, active
    <2>. HIDE DEF m, n
    <2>. QED
      BY <1>2, <2>1, <2>2
  <1>4. /\ active \subseteq s.offer
        /\ \A o \in active : /\ out[o].user = o.user /\ out[o].id = o.id /\ out[o].status = "released"
                             /\ o.status # "completed"
        /\ \A o \in s.offer \ active : o.status \notin ActiveOffer
    BY <1>0 DEF OfferFields, ActiveOffer
  <1>. HIDE DEF n, m, active, out
  <1>5. /\ n.waitlist = {} /\ n.offer = offers /\ n.purchase = m.purchase /\ n.attendee = m.attendee
        /\ n.available = m.available
    <2>. HIDE DEF offers
    <2>. QED
      BY <1>2, <1>3 DEF Require, DbFields
  <1>6. (\A o \in active : h[o] = out[o]) /\ \A o \in s.offer \ active : h[o] = o
    BY <1>4
  <1>7. n.offer = {h[o] : o \in s.offer}
    <2>. HIDE DEF h
    <2>1. {h[o] : o \in s.offer} = {h[o] : o \in s.offer \ active} \cup {h[o] : o \in active}
      BY <1>4
    <2>2. {out[o] : o \in active} = {h[o] : o \in active} /\ s.offer \ active = {h[o] : o \in s.offer \ active}
      BY <1>6
    <2>. QED
      BY <1>5, <2>1, <2>2
  <1>. HIDE DEF h
  <1>8. Renewed(m.offer, h, n.offer)
    BY <1>2, <1>4, <1>6, <1>7 DEF Renewed
  <1>9. \A o \in m.offer : h[o].status = "completed" <=> o.status = "completed"
    BY <1>2, <1>4, <1>6
  <1>10. Keeps(m, n)
    <2>1. SameConfirmed(m, n) /\ n.waitlist \subseteq m.waitlist
      BY <1>5 DEF SameConfirmed
    <2>2. Good(m) /\ Ledger(m)
      BY <1>1 DEF Keeps
    <2>3. n.purchase = m.purchase /\ n.available = m.available
      BY <1>5
    <2>. QED
      BY ONLY <2>2, <2>1, <2>3, <1>8, <1>9, OffersRenewed
  <1>11. \A o \in n.offer : o.status \notin ActiveOffer
    BY <1>4, <1>5 DEF ActiveOffer
  <1>. QED
    BY <1>1, <1>10, <1>11, KeepsTransitive DEF n

\* Free seats are refunded, paid ones are handed to a refund job.
LEMMA CancelKeeps ==
  ASSUME NEW v, Good(v), Ledger(v), NEW seated, seated = {p \in v.purchase : p.status \in {"completed", "refund-requested"}},
         NEW free, free = {p \in seated : PurchaseAmount(p) = 0},
         NEW n, n.waitlist = v.waitlist, n.offer = v.offer,
         n.purchase = (v.purchase \ seated) \cup {RefundedFree(p) : p \in free}
                                            \cup {HandToRefund(p) : p \in seated \ free},
         n.available = v.available + Cardinality({p \in free : p.code})
  PROVE  Ledger(n) /\ NoneMissed(v, n)
  <1>. DEFINE fr == [p \in free |-> RefundedFree(p)]
              ha == [p \in seated \ free |-> HandToRefund(p)]
              f == [p \in v.purchase |-> IF p \in free THEN fr[p] ELSE IF p \in seated THEN ha[p] ELSE p]
  <1>0. \A p \in v.purchase : Bought(p) /\ Recorded(p) /\ Requested(p)
    BY DEF Good, Shape, Ledger, Requests
  <1>1. /\ free \subseteq seated /\ seated \subseteq v.purchase
        /\ \A p \in seated : p.status \in {"completed", "refund-requested"}
        /\ \A p \in free : PurchaseAmount(p) = 0
    OBVIOUS
  <1>2. ASSUME NEW p \in free
        PROVE  /\ Follows(p, fr[p]) /\ fr[p].session = p.session
               /\ Committed(p) /\ ~Committed(fr[p])
    <2>. DEFINE q == fr[p]
    <2>0. q = RefundedFree(p) /\ p \in v.purchase
      BY <1>1
    <2>1. /\ SameSale(p, q) /\ q.status = "refunded" /\ q.refund = p.refund /\ q.job = p.job
          /\ q.session = p.session
      BY <1>0, <2>0 DEF RefundedFree, Bought, PurchaseFields, SameSale
    <2>2. p.job # "queued"
      BY <1>0, <1>1, <2>0 DEF Requested
    <2>. HIDE DEF q
    <2>3. Recorded(q)
      BY <1>0, <2>0, <2>1, <2>2 DEF Recorded, SameSale, PurchaseStatuses
    <2>4. Follows(p, q) /\ Committed(p) /\ ~Committed(q)
      BY <1>1, <2>1, <2>3 DEF Follows, Committed, PaidFor, Engaged, Final
    <2>. QED
      BY <2>1, <2>4 DEF q
  <1>3. ASSUME NEW p \in seated \ free
        PROVE  Follows(p, ha[p]) /\ ha[p].session = p.session /\ Committed(ha[p])
    <2>. DEFINE q == ha[p]
    <2>0. q = HandToRefund(p) /\ p \in v.purchase
      BY <1>1
    <2>. HIDE DEF q
    <2>a. Bought(p)
      BY <1>0, <2>0
    <2>1. /\ SameSale(p, q) /\ q.status = "refund-pending"
          /\ q.refund = IF p.refund = "none" THEN "event-cancellation" ELSE p.refund
          /\ q.session = p.session
      BY ONLY <2>0, <2>a DEF HandToRefund, Bought, PurchaseFields, SameSale
    <2>2. p.refund # "automatic"
      BY <1>0, <1>1, <2>0 DEF Recorded
    <2>3. Recorded(q)
      BY <1>0, <2>0, <2>1, <2>2 DEF Recorded, SameSale, PurchaseStatuses, SeatHolding
    <2>4. Follows(p, q) /\ Committed(q)
      BY <1>1, <2>1, <2>2, <2>3 DEF Follows, Committed, PaidFor, Engaged, Final, SeatHolding
    <2>. QED
      BY <2>1, <2>4 DEF q
  <1>4. {RefundedFree(p) : p \in free} = {fr[p] : p \in free}
    OBVIOUS
  <1>5. {HandToRefund(p) : p \in seated \ free} = {ha[p] : p \in seated \ free}
    OBVIOUS
  <1>6. n.purchase = (v.purchase \ seated) \cup {fr[p] : p \in free} \cup {ha[p] : p \in seated \ free}
    BY <1>4, <1>5
  <1>. HIDE DEF fr, ha
  <1>7. /\ \A p \in free : f[p] = fr[p]
        /\ \A p \in seated \ free : f[p] = ha[p]
        /\ \A p \in v.purchase \ seated : f[p] = p
    BY <1>1
  <1>8. n.purchase = {f[p] : p \in v.purchase}
    <2>. HIDE DEF f
    <2>1. {f[p] : p \in v.purchase} =
              {f[p] : p \in v.purchase \ seated} \cup {f[p] : p \in free} \cup {f[p] : p \in seated \ free}
      BY <1>1
    <2>2. {fr[p] : p \in free} = {f[p] : p \in free}
      BY <1>7
    <2>3. {ha[p] : p \in seated \ free} = {f[p] : p \in seated \ free}
      BY <1>7
    <2>4. v.purchase \ seated = {f[p] : p \in v.purchase \ seated}
      BY <1>7
    <2>. QED
      BY ONLY <1>6, <2>1, <2>2, <2>3, <2>4
  <1>. HIDE DEF f
  <1>9. \A p \in v.purchase : Follows(p, f[p]) /\ f[p].session = p.session
    <2>1. \A p \in v.purchase : Follows(p, p)
      BY <1>0 DEF Follows, SameSale, Bought
    <2>. QED
      BY <1>2, <1>3, <1>7, <2>1
  <1>10. Renewed(v.purchase, f, n.purchase)
    BY <1>8, <1>9 DEF Renewed, Follows, SameSale
  <1>11. Returned(v.purchase, f) = {p \in free : p.code}
    BY <1>1, <1>2, <1>3, <1>7 DEF Returned
  <1>12. n.available = v.available + Cardinality(Returned(v.purchase, f)) /\ n.waitlist \subseteq v.waitlist
    BY <1>11
  <1>13. \A p \in v.purchase : f[p].session = "settled" => p.session = "settled" \/ Final(f[p])
    BY <1>9
  <1>14. \A p \in v.purchase : Follows(p, f[p])
    BY <1>9
  <1>. QED
    BY <1>10, <1>12, <1>13, <1>14, LedgerRenewed

-----------------------------------------------------------------------------
(* The steps. *)

\* Attendance says nothing once the event is canceled.
AccountsInv ==
    /\ Ledger(Db) /\ Claims(Db)
    /\ ~canceled => Seats(Db)

\* What every step but the webhook of a payment does.
AccountsKept ==
    /\ AccountsInv'
    /\ \A p \in purchase' : Missed(p) =>
          \E q \in purchase : Missed(q) /\ q.user = p.user /\ q.id = p.id

\* The tables that a transaction leaves.
LEMMA TablesAccounts ==
  ASSUME NEW s, waitlist' = s.waitlist, offer' = s.offer, purchase' = s.purchase, attendee' = s.attendee,
         available' = s.available, Ledger(s), now' = now
  PROVE  /\ Ledger(Db)' /\ (Claims(s) => Claims(Db)')
         /\ (Seats(s) => Seats(Db)') /\ (NoneMissed(Db, s) /\ AccountsInv' => AccountsKept)
  <1>. DEFINE n == [waitlist |-> waitlist', offer |-> offer', purchase |-> purchase',
                    attendee |-> attendee', available |-> available', ok |-> TRUE]
  <1>1. /\ n.waitlist = s.waitlist /\ n.offer = s.offer /\ n.purchase = s.purchase
        /\ n.attendee = s.attendee /\ n.available = s.available
    OBVIOUS
  <1>2. n = Db'
    BY DEF Db
  <1>. HIDE DEF n
  <1>3. \A p : Recorded(p) => Recorded(p)'
    BY DEF Recorded
  <1>4. \A p \in n.purchase : Recorded(p)'
    BY <1>1, <1>3 DEF Ledger
  <1>5. /\ Keyed(n.offer) /\ Keyed(n.purchase) /\ (\A v, w \in n.waitlist : v.user = w.user => v = w)
        /\ Conserved(n) /\ OneEngaged(n) /\ PaidOffers(n) /\ SoldOffers(n)
    BY <1>1 DEF Ledger, Conserved, OneEngaged, PaidOffers, SoldOffers
  <1>6. Ledger(Db)'
    BY <1>2, <1>4, <1>5 DEF Ledger
  <1>7. (Claims(s) => Claims(n)) /\ (Seats(s) => Seats(n))
    BY <1>1 DEF Claims, Seats
  <1>8. NoneMissed(Db, s) /\ AccountsInv' => AccountsKept
    BY DbTables DEF NoneMissed, AccountsKept
  <1>. QED
    BY <1>2, <1>6, <1>7, <1>8

LEMMA WriteAccounts ==
  ASSUME NEW s, Write(s), Ledger(s), now' = now
  PROVE  /\ Ledger(Db)' /\ (Claims(s) => Claims(Db)')
         /\ (Seats(s) => Seats(Db)') /\ (NoneMissed(Db, s) /\ AccountsInv' => AccountsKept)
  BY TablesAccounts DEF Write

LEMMA CommitAccounts ==
  ASSUME NEW s, Commit(s), Ledger(s), Claims(s), ~canceled => Seats(s)
  PROVE  AccountsInv' /\ (NoneMissed(Db, s) => AccountsKept)
  BY WriteAccounts DEF Commit, AccountsInv

LEMMA CommitKeeps ==
  ASSUME AccountsInv, NEW s, Commit(s), Keeps(Db, s), Claims(s)
  PROVE  AccountsKept
  <1>1. Ledger(s) /\ (~canceled => Seats(s)) /\ NoneMissed(Db, s)
    BY DEF Keeps, AccountsInv
  <1>. QED
    BY <1>1, CommitAccounts

\* An operation that reconciles first.
LEMMA ReconciledAccounts ==
  ASSUME EnrollmentInv, AccountsInv, NEW T, NEW ready, NEW ts, Moment(ts)
  PROVE  /\ Keeps(Db, Reconcile(Db, T, ready, ts)) /\ Claims(Reconcile(Db, T, ready, ts))
         /\ Reconcile(Db, T, ready, ts).ok => Good(Reconcile(Db, T, ready, ts))
         /\ DOMAIN Reconcile(Db, T, ready, ts) = DbFields
  BY ReconcileKeeps, ReconciledDb, ReconcileFields, DbTables DEF EnrollmentInv, AccountsInv, Moment

\* An operation that reconciles last.
LEMMA ReconcileLast ==
  ASSUME NEW s, Good(s), Keeps(Db, s), NEW T, NEW ready, NEW ts, Moment(ts)
  PROVE  Keeps(Db, Reconcile(s, T, ready, ts)) /\ Claims(Reconcile(s, T, ready, ts))
  BY ReconcileKeeps, KeepsTransitive DEF Keeps

LEMMA AttendEventAccounts ==
  ASSUME EnrollmentInv, AccountsInv, NEW u \in Users, NEW t, NEW ts, Moment(ts), AttendEvent(u, t, ts)
  PROVE  AccountsKept
  <1>. DEFINE r == Reconcile(Db, Tiers, FALSE, ts)
              holds == {p \in Of(r.purchase, u) : LivePending(p, ts)}
              stays == \/ holds # {} \/ Allocated(r, t, ts) < SeatsTotal[t] \/ ~WaitlistEnabled
                       \/ \E w \in Of(r.waitlist, u) : w.tier = t
              n == IF stays THEN r ELSE JoinWaitlist(r, u, t, ts)
  <1>1. Commit(n)
    BY DEF AttendEvent
  <1>2. Keeps(Db, r) /\ Claims(r) /\ (r.ok => Good(r)) /\ DOMAIN r = DbFields
    BY ReconciledAccounts
  <1>. HIDE DEF r, stays
  <1>3. CASE stays
    BY <1>1, <1>2, <1>3, CommitKeeps
  <1>4. CASE ~stays
    <2>1. n = JoinWaitlist(r, u, t, ts)
      BY <1>4
    <2>. HIDE DEF n
    <2>2. Good(r)
      BY <1>1, <1>2, <2>1, JoinRaises DEF Commit, Write
    <2>3. Keeps(r, n) /\ Claims(n)
      BY <1>2, <2>1, <2>2, JoinKeeps DEF Keeps
    <2>4. Keeps(Db, n)
      BY <1>2, <2>3, KeepsTransitive
    <2>. QED
      BY <1>1, <2>3, <2>4, CommitKeeps
  <1>. QED
    BY <1>3, <1>4

LEMMA LeaveAttendanceAccounts ==
  ASSUME EnrollmentInv, AccountsInv, NEW u, NEW ts, Moment(ts), LeaveAttendance(u, ts)
  PROVE  AccountsKept
  <1>. DEFINE a == SetAttendance(Db, Of(attendee, u), "attendance-canceled")
  <1>1. PICK p \in Attending(Db, u) : Commit(Reconcile(RefundFree(a, p), {p.tier}, ProviderReady, ts))
    BY DEF LeaveAttendance
  <1>. DEFINE b == RefundFree(a, p)
              n == Reconcile(b, {p.tier}, ProviderReady, ts)
  <1>2. DOMAIN a = DbFields /\ a.purchase = purchase
    BY AttendanceFields, DbTables
  <1>3. a = SetAttendance(Db, Of(Db.attendee, u), "attendance-canceled")
    BY DbTables
  <1>. HIDE DEF a
  <1>4. DOMAIN b = DbFields /\ (b.ok => a.ok)
    BY <1>2, RefundFreeFields
  <1>. HIDE DEF b
  <1>5. b.ok /\ a.ok
    <2>1. n.ok
      BY <1>1 DEF Commit, Write, b
    <2>. QED
      BY <1>4, <2>1, ReconcileFields
  <1>6. Good(Db) /\ Ledger(Db)
    BY DEF EnrollmentInv, AccountsInv
  <1>7. Good(a)
    <2>1. Of(Db.attendee, u) \subseteq Db.attendee
      BY DEF Of
    <2>. QED
      BY <1>3, <1>5, <1>6, <2>1, AttendanceGood
  <1>8. p \in a.purchase /\ p.status \in {"completed", "refund-requested"}
    BY <1>2, DbTables DEF Attending, Of
  <1>9. Good(b)
    BY <1>5, <1>7, <1>8, RefundFreeGood DEF b
  <1>10. Keeps(Db, b)
    BY <1>3, <1>5, <1>6, LeaveKeeps DEF b
  <1>11. Keeps(Db, n) /\ Claims(n)
    BY <1>9, <1>10, ReconcileLast
  <1>12. Commit(n)
    BY <1>1 DEF b
  <1>. HIDE DEF n
  <1>. QED
    BY <1>11, <1>12, CommitKeeps

LEMMA LeaveWaitlistAccounts ==
  ASSUME EnrollmentInv, AccountsInv, NEW u, NEW ts, LeaveWaitlist(u, ts)
  PROVE  AccountsKept
  <1>. DEFINE n == [Db EXCEPT !.waitlist = @ \ Of(@, u)]
  <1>1. Commit(n)
    BY DEF LeaveWaitlist
  <1>2. /\ n.waitlist \subseteq Db.waitlist /\ n.offer = Db.offer /\ n.purchase = Db.purchase
        /\ n.attendee = Db.attendee /\ n.available = Db.available
    BY DbTables DEF DbFields
  <1>. HIDE DEF n
  <1>3. SameConfirmed(Db, n) /\ (\A v, w \in n.waitlist : v.user = w.user => v = w) /\ Ledger(Db) /\ Claims(Db)
    BY <1>2 DEF SameConfirmed, AccountsInv, Ledger
  <1>4. Keeps(Db, n) /\ Claims(n)
    BY <1>2, <1>3, SalesUntouched
  <1>. QED
    BY <1>1, <1>4, CommitKeeps

LEMMA InviteAttendeeAccounts ==
  ASSUME EnrollmentInv, AccountsInv, NEW t, NEW ts, Moment(ts), NEW ready, NEW r, r = Reconcile(Db, {t}, ready, ts),
         NEW u, InviteAttendee(r, u, t, ts)
  PROVE  AccountsKept
  <1>1. Keeps(Db, r) /\ Claims(r) /\ (r.ok => Good(r)) /\ DOMAIN r = DbFields
    BY ReconciledAccounts
  <1>2. CASE Commit(r)
    BY <1>1, <1>2, CommitKeeps
  <1>3. CASE Commit(Invite(r, u, t, ts))
    <2>1. Good(r)
      BY <1>1, <1>3, InviteRaises DEF Commit, Write
    <2>2. Keeps(r, Invite(r, u, t, ts)) /\ Claims(Invite(r, u, t, ts))
      BY <1>1, <2>1, InviteKeeps DEF Keeps
    <2>3. Keeps(Db, Invite(r, u, t, ts))
      BY <1>1, <2>2, KeepsTransitive
    <2>. QED
      BY <1>3, <2>2, <2>3, CommitKeeps
  <1>. QED
    BY <1>2, <1>3 DEF InviteAttendee

LEMMA ReleaseOfferAccounts ==
  ASSUME EnrollmentInv, AccountsInv, NEW o \in offer, NEW ts, Moment(ts), ReleaseOffer(o, ts)
  PROVE  AccountsKept
  <1>. DEFINE r == Reconcile(Db, {o.tier}, ProviderReady, ts)
              held == Row(r.offer, o.user, o.id)
              m == Released(r, held, ts)
              n == Reconcile(m, {o.tier}, ProviderReady, ts)
  <1>1. Commit(n) /\ held.status \in ActiveOffer
    BY DEF ReleaseOffer, LiveOffer
  <1>2. Keeps(Db, r) /\ (r.ok => Good(r)) /\ DOMAIN r = DbFields
    BY ReconciledAccounts
  <1>3. r.ok => \E o1 \in r.offer : o1.user = o.user /\ o1.id = o.id
    BY ReconciledDb DEF Moment
  <1>. HIDE DEF r
  <1>4. DOMAIN m = DbFields /\ m.ok = r.ok
    <2>. DEFINE linked == {p \in Of(r.purchase, held.user) : p.offer = held.id /\ p.status = "pending"}
                x == Expire(r, linked, ts)
    <2>1. m = [x EXCEPT !.offer = Replace(@, held, [held EXCEPT !.status = "released"])]
      BY DEF Released
    <2>. HIDE DEF linked, held
    <2>2. DOMAIN x = DbFields /\ x.ok = r.ok
      BY <1>2, ExpireFields
    <2>. HIDE DEF x, m
    <2>. QED
      BY <2>1, <2>2 DEF DbFields
  <1>. HIDE DEF held, m
  <1>5. Good(r) /\ \E o1 \in r.offer : o1.user = o.user /\ o1.id = o.id
    <2>1. n.ok
      BY <1>1 DEF Commit, Write
    <2>2. r.ok
      BY <1>4, <2>1, ReconcileFields
    <2>. QED
      BY <1>2, <1>3, <2>2
  <1>6. held \in r.offer
    BY <1>5, RowOf DEF held
  <1>7. Good(m) /\ Keeps(r, m)
    BY <1>1, <1>2, <1>5, <1>6, ReleasedGood, ReleasedKeeps DEF m, Moment, Keeps
  <1>8. Keeps(Db, m)
    BY <1>2, <1>7, KeepsTransitive
  <1>9. Keeps(Db, n) /\ Claims(n)
    BY <1>7, <1>8, ReconcileLast
  <1>. HIDE DEF n
  <1>. QED
    BY <1>1, <1>9, CommitKeeps

LEMMA CheckoutConflictAccounts ==
  ASSUME EnrollmentInv, AccountsInv, NEW t, NEW ts, Moment(ts), NEW ready, NEW r, r = Reconcile(Db, {t}, ready, ts),
         NEW u, NEW id, NEW code, CheckoutConflict(r, u, t, id, code, ts)
  PROVE  AccountsKept
  <1>1. Commit(r)
    BY DEF CheckoutConflict
  <1>2. Keeps(Db, r) /\ Claims(r)
    BY ReconciledAccounts
  <1>. QED
    BY <1>1, <1>2, CommitKeeps

LEMMA ReuseCheckoutAccounts ==
  ASSUME EnrollmentInv, AccountsInv, NEW t, NEW ts, Moment(ts), NEW ready, NEW r, r = Reconcile(Db, {t}, ready, ts),
         NEW u, NEW id, NEW code, ReuseCheckout(r, u, t, id, code, ts)
  PROVE  AccountsKept
  <1>. DEFINE n == UpsertAnswers(r, u)
  <1>1. Commit(n)
    BY DEF ReuseCheckout
  <1>2. Keeps(Db, r) /\ Claims(r) /\ (r.ok => Good(r)) /\ DOMAIN r = DbFields
    BY ReconciledAccounts
  <1>3. Good(r) /\ Ledger(r)
    BY <1>1, <1>2, UpsertFields DEF Commit, Write, Keeps
  <1>4. Keeps(r, n) /\ Claims(n)
    BY <1>2, <1>3, UpsertKeeps
  <1>5. Keeps(Db, n)
    BY <1>2, <1>4, KeepsTransitive
  <1>. HIDE DEF n
  <1>. QED
    BY <1>1, <1>4, <1>5, CommitKeeps

\* The offer that a checkout claims stays a good row.
LEMMA ClaimedGood ==
  ASSUME NEW s, Good(s), NEW u, NEW id, NEW code,
         id # 0 => /\ \E o \in s.offer : o.user = u /\ o.id = id
                   /\ Row(s.offer, u, id).status \in ActiveOffer
  PROVE  Good(Claimed(s, u, id, code))
  <1>. DEFINE n == Claimed(s, u, id, code)
              o == Row(s.offer, u, id)
              o1 == ClaimedRow(o, code)
  <1>0. DOMAIN s = DbFields /\ \A x \in s.offer : Offered(x)
    BY DEF Good, Shape
  <1>1. CASE id = 0
    BY <1>0, <1>1, ClaimedFields
  <1>2. CASE id # 0
    <2>1. o \in s.offer /\ o.status \in ActiveOffer
      BY <1>2, RowOf
    <2>2. /\ DOMAIN n = DbFields /\ n.waitlist = s.waitlist /\ n.purchase = s.purchase /\ n.attendee = s.attendee
          /\ n.offer = Replace(s.offer, o, o1)
      BY <1>0, <1>2, ClaimedFields
    <2>. HIDE DEF n, o
    <2>3. /\ o1.user = o.user /\ o1.id = o.id /\ o1.tier = o.tier /\ o1.expires = o.expires
          /\ DOMAIN o1 = OfferFields
      BY <1>0, <2>1 DEF Offered, OfferFields, ClaimedRow
    <2>4. Offered(o1)
      BY <1>0, <2>1, <2>3 DEF Offered
    <2>. HIDE DEF o1
    <2>. QED
      BY <2>1, <2>2, <2>3, <2>4, OfferReplaced DEF n
  <1>. QED
    BY <1>1, <1>2

LEMMA StartCheckoutAccounts ==
  ASSUME EnrollmentInv, AccountsInv, NEW t, NEW ts, Moment(ts), NEW ready, NEW r, r = Reconcile(Db, {t}, ready, ts),
         NEW u, NEW id, id = 0 \/ (\E o \in offer : o.user = u /\ o.id = id),
         NEW code \in Codes, StartCheckout(r, u, t, id, code, ts)
  PROVE  AccountsKept
  <1>. DEFINE c == SelectedCode(r, u, id, code)
              existing == ExistingPurchases(r, u, id, ts)
              e == Expire(r, existing, ts)
              a == Claimed(e, u, id, c)
              b == UpsertAnswers(a, u)
              n == InsertHold(e, u, t, id, c, ts)
  <1>1. /\ Commit(n) /\ ~OfferMismatch(r, u, t, id, ts)
        /\ \A p \in existing : p.status = "pending"
    BY DEF StartCheckout
  <1>2. Keeps(Db, r) /\ Claims(r) /\ (r.ok => Good(r)) /\ DOMAIN r = DbFields
    BY ReconciledAccounts
  <1>3. r.ok => \A o \in offer : \E o1 \in r.offer : o1.user = o.user /\ o1.id = o.id
    BY ReconciledDb DEF Moment
  <1>4. \A p \in existing : p \in r.purchase /\ p.user = u /\ p.offer = id
    BY DEF ExistingPurchases, Of
  <1>5. c \in BOOLEAN
    BY DEF SelectedCode, Codes
  <1>. HIDE DEF c, existing
  <1>6. /\ DOMAIN e = DbFields /\ e.ok = r.ok /\ e.offer = r.offer
        /\ e.purchase = (r.purchase \ existing) \cup {ExpiredRow(p, ts) : p \in existing}
    <2>1. DOMAIN r = DbFields
      BY <1>2
    <2>. QED
      BY ONLY <2>1, ExpireFields
  <1>. HIDE DEF e
  <1>7. n.ok
    BY <1>1 DEF Commit, Write
  <1>8. b.ok /\ e.ok
    BY <1>6, <1>7, InsertHoldFields
  <1>9. Good(r) /\ Ledger(r)
    BY <1>2, <1>6, <1>8 DEF Keeps
  <1>10. Good(e) /\ Keeps(r, e)
    <2>1. existing \subseteq {p \in r.purchase : p.status = "pending"}
      BY <1>1, <1>4
    <2>2. ts \in Int
      BY DEF Moment
    <2>3. Good(Expire(r, existing, ts))
      BY ONLY <1>9, <2>1, <2>2, ExpireGood
    <2>4. Keeps(r, Expire(r, existing, ts))
      BY ONLY <1>9, <2>1, Moment(ts), ExpireKeeps
    <2>. QED
      BY <2>3, <2>4 DEF e
  <1>11. id # 0 => /\ \E o \in e.offer : o.user = u /\ o.id = id
                   /\ Row(e.offer, u, id).status \in ActiveOffer
    <2>1. id # 0 => Row(r.offer, u, id).status \in ActiveOffer
      BY <1>1 DEF OfferMismatch, LiveOffer
    <2>2. e.offer = r.offer /\ (id # 0 => \E o \in r.offer : o.user = u /\ o.id = id)
      BY <1>3, <1>6, <1>8
    <2>. QED
      BY ONLY <2>1, <2>2
  <1>12. Good(a)
    BY <1>10, <1>11, ClaimedGood
  <1>13. Good(b)
    <2>. HIDE DEF a
    <2>. QED
      BY <1>8, <1>12, UpsertGood
  <1>14. \A o \in e.offer : o.status = "checkout_pending" /\ (id = 0 \/ o.user # u \/ o.id # id) =>
             \E p \in e.purchase : p.user = o.user /\ p.offer = o.id /\ Undecided(p)
    <2>1. ASSUME NEW o \in e.offer, o.status = "checkout_pending", id = 0 \/ o.user # u \/ o.id # id
          PROVE  \E p \in e.purchase : p.user = o.user /\ p.offer = o.id /\ Undecided(p)
      <3>1. PICK p \in r.purchase : p.user = o.user /\ p.offer = o.id /\ Undecided(p)
        BY <1>2, <1>6, <2>1 DEF Claims
      <3>2. o.id # 0
        <4>1. Keyed(r.offer) /\ o \in r.offer
          BY <1>6, <1>9 DEF Ledger
        <4>. QED
          BY ONLY <4>1 DEF Keyed
      <3>3. p \notin existing
        BY <1>4, <2>1, <3>1, <3>2
      <3>. QED
        BY <1>6, <3>1, <3>3
    <2>. QED
      BY <2>1
  <1>15. Ledger(e)
    BY <1>10 DEF Keeps
  <1>. HIDE DEF n
  <1>16. Keeps(e, n) /\ Claims(n)
    <2>. USE DEF n
    <2>. QED
      BY ONLY <1>5, <1>7, <1>10, <1>11, <1>12, <1>13, <1>14, <1>15, Moment(ts), InsertHoldKeeps DEF n, a, b
  <1>17. Keeps(Db, n)
    BY <1>2, <1>10, <1>16, KeepsTransitive
  <1>. QED
    BY <1>1, <1>16, <1>17, CommitKeeps

LEMMA ExpireOneAccounts ==
  ASSUME EnrollmentInv, AccountsInv, NEW p \in purchase, NEW ts, Moment(ts), Commit(ExpireOne(p, ts))
  PROVE  AccountsKept
  <1>. DEFINE r == Reconcile(Db, {p.tier}, ProviderReady, ts)
              q == Row(r.purchase, p.user, p.id)
              e == Expire(r, {q}, ts)
              n == Reconcile(e, {p.tier}, ProviderReady, ts)
  <1>1. ExpireOne(p, ts) = IF q.status = "pending" THEN n ELSE r
    BY DEF ExpireOne
  <1>2. Keeps(Db, r) /\ Claims(r) /\ (r.ok => Good(r)) /\ DOMAIN r = DbFields
    BY ReconciledAccounts
  <1>3. r.ok => \E x \in r.purchase : x.user = p.user /\ x.id = p.id
    <2>1. ASSUME r.ok PROVE r.purchase = ExpireHolds(Db, ts).purchase
      BY ZenonT(40), <2>1, ReconciledDb DEF Moment
    <2>2. \E x \in ExpireHolds(Db, ts).purchase : x.user = p.user /\ x.id = p.id
      BY ExpireHoldsGood, DbTables DEF EnrollmentInv, Moment
    <2>. QED
      BY <2>1, <2>2
  <1>. HIDE DEF r
  <1>4. CASE q.status = "pending"
    <2>1. Commit(n)
      BY <1>1, <1>4
    <2>. HIDE DEF q
    <2>2. DOMAIN e = DbFields /\ e.ok = r.ok
      BY <1>2, ExpireFields
    <2>. HIDE DEF e
    <2>3. n.ok /\ e.ok /\ r.ok
      BY <2>1, <2>2, ReconcileFields DEF Commit, Write
    <2>4. q \in r.purchase /\ Good(r) /\ Ledger(r)
      BY <1>2, <1>3, <2>3, RowOf DEF q, Keeps
    <2>5. Good(e) /\ Keeps(r, e)
      <3>1. {q} \subseteq {x \in r.purchase : x.status = "pending"} /\ ts \in Int
        BY <1>4, <2>4 DEF Moment
      <3>2. Good(Expire(r, {q}, ts))
        BY ONLY <2>4, <3>1, ExpireGood
      <3>3. Keeps(r, Expire(r, {q}, ts))
        BY ONLY <2>4, <3>1, Moment(ts), ExpireKeeps
      <3>. QED
        BY <3>2, <3>3 DEF e
    <2>6. Keeps(Db, e)
      BY <1>2, <2>5, KeepsTransitive
    <2>7. Keeps(Db, n) /\ Claims(n)
      BY <2>5, <2>6, ReconcileLast
    <2>. HIDE DEF n
    <2>. QED
      BY <2>1, <2>7, CommitKeeps
  <1>5. CASE q.status # "pending"
    <2>1. Commit(r)
      BY <1>1, <1>5
    <2>. QED
      BY <1>2, <2>1, CommitKeeps
  <1>. QED
    BY <1>4, <1>5

LEMMA CompleteFreeAccounts ==
  ASSUME EnrollmentInv, AccountsInv, NEW p \in purchase, NEW ts, Moment(ts), CompleteFree(p, ts)
  PROVE  AccountsKept
  <1>. DEFINE r == Reconcile(Db, {p.tier}, FALSE, ts)
              q == Row(r.purchase, p.user, p.id)
              n == Complete(r, q)
  <1>1. Commit(n) /\ q.status = "pending"
    BY DEF CompleteFree, LivePending
  <1>2. Keeps(Db, r) /\ Claims(r) /\ (r.ok => Good(r)) /\ DOMAIN r = DbFields
    BY ReconciledAccounts
  <1>3. r.ok => \E x \in r.purchase : x.user = p.user /\ x.id = p.id
    <2>1. ASSUME r.ok PROVE r.purchase = ExpireHolds(Db, ts).purchase
      BY ZenonT(40), <2>1, ReconciledDb DEF Moment
    <2>2. \E x \in ExpireHolds(Db, ts).purchase : x.user = p.user /\ x.id = p.id
      BY ExpireHoldsGood, DbTables DEF EnrollmentInv, Moment
    <2>. QED
      BY <2>1, <2>2
  <1>. HIDE DEF r, q
  <1>4. n.ok
    BY <1>1 DEF Commit, Write
  <1>5. r.ok
    BY <1>2, <1>4, CompleteFields
  <1>6. Good(r) /\ Ledger(r) /\ q \in r.purchase
    BY <1>2, <1>3, <1>5, RowOf DEF q, Keeps
  <1>7. /\ Ledger(n) /\ (Seats(r) => Seats(n)) /\ NoneMissed(r, n) /\ Claims(n)
    <2>1. NoneMissedBut(r, q, n) => NoneMissed(r, n)
      BY DEF NoneMissedBut, NoneMissed
    <2>. QED
      BY <1>1, <1>2, <1>6, <2>1, CompleteKeeps
  <1>8. Keeps(Db, n)
    BY <1>2, <1>7, KeepsTransitive DEF Keeps
  <1>. HIDE DEF n
  <1>. QED
    BY <1>1, <1>7, <1>8, CommitKeeps

\* The webhook's acknowledgement of row p as q.
LEMMA AckedAccounts ==
  ASSUME EnrollmentInv, AccountsInv, NEW p \in purchase, NEW q, q = [p EXCEPT !.session = "settled"],
         NEW s, s = [Db EXCEPT !.purchase = Replace(@, p, q)]
  PROVE  /\ Good(s) /\ Ledger(s) /\ Claims(s) /\ (Seats(Db) => Seats(s))
         /\ DOMAIN s = DbFields /\ q \in s.purchase /\ s.offer = offer
         /\ q.status = p.status /\ q.hold = p.hold /\ q.offer = p.offer /\ q.user = p.user
         /\ \A x \in s.purchase : x = q \/ x \in purchase
  <1>1. /\ Good(Db) /\ Ledger(Db) /\ Claims(Db)
        /\ p \in Db.purchase /\ Bought(p) /\ Requested(p) /\ HasOffer(Db, p) /\ Recorded(p)
    BY DbTables DEF EnrollmentInv, AccountsInv, Good, Shape, Requests, Linked, Ledger
  <1>2. /\ SameSale(p, q) /\ q.status = p.status /\ q.hold = p.hold /\ q.refund = p.refund /\ q.job = p.job
    BY <1>1 DEF Bought, PurchaseFields, SameSale
  <1>3. Succeeds(Db, q, p)
    BY <1>1, SessionSucceeds
  <1>4. /\ DOMAIN s = DbFields /\ s.waitlist = Db.waitlist /\ s.offer = Db.offer /\ s.attendee = Db.attendee
        /\ s.available = Db.available /\ s.purchase = Replace(Db.purchase, p, q)
    BY DbTables DEF DbFields
  <1>5. Good(s)
    <2>1. FewerPresent(Db, s)
      BY <1>1, <1>4, SubsetPresent
    <2>. QED
      BY <1>1, <1>3, <1>4, <2>1, PurchaseReplaced
  <1>6. Recorded(q)
    BY <1>1, <1>2 DEF Recorded, SameSale
  <1>7. Follows(p, q)
    BY <1>2, <1>6 DEF Follows, Committed, PaidFor, Final
  <1>8. s.available = Db.available + Units(p.code /\ Committed(p) /\ ~Committed(q))
    <2>1. Units(p.code /\ Committed(p) /\ ~Committed(q)) = 0
      BY <1>2 DEF Units, Committed
    <2>2. Db.available \in Int
      BY <1>1 DEF Ledger, Conserved
    <2>. QED
      BY <1>4, <2>1, <2>2
  <1>9. SameConfirmed(Db, s) /\ (HasSeat(q) <=> HasSeat(p)) /\ (Undecided(p) => Undecided(q))
    BY <1>2, <1>4 DEF SameConfirmed, HasSeat, Undecided
  <1>10. Ledger(s) /\ (Seats(Db) => Seats(s)) /\ Claims(s)
    <2>1. /\ s.waitlist \subseteq Db.waitlist /\ s.offer = Db.offer
          /\ s.purchase = Replace(Db.purchase, p, q)
      BY <1>4
    <2>2. Good(Db) /\ Ledger(Db) /\ p \in Db.purchase
      BY <1>1
    <2>3. Ledger(s) /\ (Seats(Db) => Seats(s)) /\ ((Undecided(p) => Undecided(q)) /\ Claims(Db) => Claims(s))
      BY ONLY <1>7, <1>8, <1>9, <2>1, <2>2, RowKeeps
    <2>. QED
      BY <1>1, <1>9, <2>3
  <1>11. \A x \in s.purchase : x = q \/ x \in purchase
    BY <1>4, DbTables DEF Replace
  <1>12. q \in s.purchase /\ s.offer = offer
    BY <1>4, DbTables DEF Replace
  <1>. QED
    BY <1>2, <1>4, <1>5, <1>10, <1>11, <1>12 DEF SameSale

\* The webhook misses its own payment if another transaction expired the hold
\* that had not ended when the webhook's transaction started.
LEMMA CheckoutCompletedAccounts ==
  ASSUME EnrollmentInv, AccountsInv, NEW p \in purchase, NEW ts, Moment(ts), CheckoutCompleted(p, ts)
  PROVE  /\ AccountsInv'
         /\ AccountsKept \/ \A x \in purchase' : Missed(x) =>
                               \/ \E y \in purchase : Missed(y) /\ y.user = x.user /\ y.id = x.id
                               \/ x.status = "expired" /\ x.hold \in (ts + 1)..now
  <1>. DEFINE q == [p EXCEPT !.session = "settled"]
              acked == [Db EXCEPT !.purchase = Replace(@, p, q)]
              refund == \/ p.status = "refund-pending" \/ HoldExpired(p, ts)
                        \/ RecoveryPending(Db, p) \/ Unfulfillable(Db, p, ts)
              settled == IF refund /\ p.status # "refund-pending" THEN QueueAutomaticRefund(acked, q, ts) ELSE acked
              r == Reconcile(settled, {p.tier}, ProviderReady, ts)
              n == IF ~Reconcilable(p, ts) THEN acked ELSE IF refund THEN r ELSE Complete(r, q)
  <1>1. Commit(n)
    BY DEF CheckoutCompleted
  <1>a. q = [p EXCEPT !.session = "settled"] /\ acked = [Db EXCEPT !.purchase = Replace(@, p, q)]
    OBVIOUS
  <1>. HIDE DEF q, acked
  <1>2. /\ Good(acked) /\ Ledger(acked) /\ Claims(acked) /\ (Seats(Db) => Seats(acked))
        /\ DOMAIN acked = DbFields /\ q \in acked.purchase /\ acked.offer = offer
        /\ q.status = p.status /\ q.hold = p.hold /\ q.offer = p.offer /\ q.user = p.user
        /\ \A x \in acked.purchase : x = q \/ x \in purchase
    BY <1>a, AckedAccounts
  <1>3. Bought(p) /\ Recorded(p) /\ (~canceled => Seats(Db))
    BY DbTables DEF EnrollmentInv, AccountsInv, Good, Shape, Ledger
  <1>4. ts \in Nat /\ now \in Nat
    BY DEF Moment
  <1>5. /\ Final(q) => NoneMissed(Db, acked)
        /\ \A m : NoneMissedBut(acked, q, m) => NoneMissed(Db, m)
    BY <1>2, DbTables DEF NoneMissed, NoneMissedBut, Missed, Final
  <1>6. CASE ~Reconcilable(p, ts)
    <2>1. n = acked
      BY <1>6
    <2>. HIDE DEF n
    <2>2. /\ AccountsInv' /\ (NoneMissed(Db, acked) => AccountsKept)
          /\ purchase' = acked.purchase
      BY <1>1, <1>2, <1>3, <2>1, CommitAccounts DEF Commit, Write
    <2>3. ~Final(q) => q.status = "expired" /\ q.hold \in (ts + 1)..now
      <3>1. p.status \notin {"pending", "refund-pending"} /\ ~(p.status = "expired" /\ HoldExpired(p, ts))
        BY <1>6 DEF Reconcilable
      <3>2. p.status = "expired" => p.hold \in (ts + 1)..now
        BY <1>3, <1>4, <3>1 DEF Recorded, HoldExpired, None
      <3>. QED
        BY <1>2, <1>3, <3>1, <3>2 DEF Recorded, PurchaseStatuses, Final
    <2>4. \A x \in purchase' : Missed(x) => x = q \/ x \in purchase
      BY <1>2, <2>2, DbTables
    <2>. QED
      BY <1>5, <2>2, <2>3, <2>4
  <1>7. CASE Reconcilable(p, ts) /\ refund
    <2>1. n = r /\ (p.status # "refund-pending" => settled = QueueAutomaticRefund(acked, q, ts))
          /\ (p.status = "refund-pending" => settled = acked)
      BY <1>7
    <2>2. p.status # "refund-pending" => p.status \in {"pending", "expired"}
      BY <1>7 DEF Reconcilable
    <2>. HIDE DEF n, settled, refund
    <2>3. /\ Good(settled) /\ Ledger(settled) /\ (Seats(acked) => Seats(settled))
          /\ NoneMissed(Db, settled)
      <3>1. CASE p.status = "refund-pending"
        <4>1. Final(q)
          BY <1>2, <3>1 DEF Final, SeatHolding
        <4>. QED
          BY <1>2, <1>5, <2>1, <3>1, <4>1
      <3>2. CASE p.status # "refund-pending"
        <4>1. q.status \in {"pending", "expired"}
          BY <1>2, <2>2, <3>2
        <4>2. Good(QueueAutomaticRefund(acked, q, ts))
          BY <1>2, <4>1, QueueAutomaticRefundGood
        <4>3. /\ Ledger(QueueAutomaticRefund(acked, q, ts))
              /\ Seats(acked) => Seats(QueueAutomaticRefund(acked, q, ts))
              /\ NoneMissed(Db, QueueAutomaticRefund(acked, q, ts))
          BY <1>2, <1>5, <4>1, QueueAutomaticRefundKeeps
        <4>. QED
          BY <2>1, <3>2, <4>2, <4>3
      <3>. QED
        BY <3>1, <3>2
    <2>4. Keeps(settled, r) /\ Claims(r)
      BY <2>3, ReconcileKeeps
    <2>5. Ledger(r) /\ (~canceled => Seats(r)) /\ NoneMissed(Db, r)
      BY <1>2, <1>3, <2>3, <2>4, MissedTransitive DEF Keeps
    <2>. QED
      BY <1>1, <2>1, <2>4, <2>5, CommitAccounts
  <1>8. CASE Reconcilable(p, ts) /\ ~refund
    <2>1. n = Complete(r, q) /\ settled = acked
      BY <1>8
    <2>2. p.status = "pending" /\ p.hold > ts
      <3>1. ~HoldExpired(p, ts) /\ p.status # "refund-pending"
        BY <1>8
      <3>2. p.status = "pending"
        BY <1>8, <3>1 DEF Reconcilable
      <3>. QED
        BY <1>3, <1>4, <3>1, <3>2 DEF HoldExpired, Bought
    <2>3. \A o \in Of(offer, p.user) : o.id = p.offer => ~(o.expires <= ts)
      <3>1. ~Unfulfillable(Db, p, ts)
        BY <1>8
      <3>. QED
        BY <3>1, DbTables DEF Unfulfillable
    <2>. HIDE DEF n, settled, refund
    <2>4. n.ok /\ r.ok
      <3>1. n.ok
        BY <1>1 DEF Commit, Write
      <3>2. DOMAIN r = DbFields
        BY <1>2, <2>1, ReconcileFields
      <3>. QED
        BY <2>1, <3>1, <3>2, CompleteFields
    <2>5. Good(r) /\ r.purchase = ExpireHolds(acked, ts).purchase
      BY <1>2, <1>4, <2>1, <2>4, ReconcileGood
    <2>6. Keeps(acked, r) /\ Claims(r)
      BY <1>2, <2>1, ReconcileKeeps
    <2>7. q \in r.purchase
      <3>1. \/ q \in ExpireHolds(acked, ts).purchase
            \/ q.hold <= ts
            \/ \E o \in ActiveOffers(acked, q.user) : o.id = q.offer /\ o.expires <= ts
        BY <1>2, <1>4, ExpireHoldsGood
      <3>2. ~(q.hold <= ts)
        BY <1>2, <1>3, <1>4, <2>2 DEF Bought
      <3>3. ~\E o \in ActiveOffers(acked, q.user) : o.id = q.offer /\ o.expires <= ts
        BY <1>2, <2>3 DEF ActiveOffers, Of
      <3>. QED
        BY <2>5, <3>1, <3>2, <3>3
    <2>8. Keyed(r.purchase) /\ NoneMissed(acked, r)
      BY <2>6 DEF Keeps, Ledger
    <2>. HIDE DEF r
    <2>9. Ledger(r) /\ (Seats(acked) => Seats(r)) /\ q.status = "pending"
      BY <1>2, <2>2, <2>6 DEF Keeps
    <2>10. /\ Ledger(n) /\ (Seats(r) => Seats(n)) /\ NoneMissedBut(r, q, n) /\ Claims(n)
      BY <2>1, <2>5, <2>6, <2>7, <2>9, CompleteKeeps
    <2>11. NoneMissed(Db, n)
      <3>1. NoneMissedBut(acked, q, n)
        <4>1. \A y \in r.purchase : y.user = q.user /\ y.id = q.id => y = q
          BY <2>7, <2>8 DEF Keyed
        <4>. QED
          BY <2>8, <2>10, <4>1 DEF NoneMissed, NoneMissedBut
      <3>. QED
        BY <1>5, <3>1
    <2>. QED
      BY <1>1, <1>2, <1>3, <2>9, <2>10, <2>11, CommitAccounts
  <1>. HIDE DEF refund, n
  <1>. QED
    BY <1>6, <1>7, <1>8

LEMMA ReconcileNextAccounts ==
  ASSUME EnrollmentInv, AccountsInv, ReconcileNext
  PROVE  AccountsKept
  <1>. DEFINE r == Reconcile(Db, Tiers, ProviderReady, now)
  <1>1. Commit(r) /\ Moment(now)
    BY DEF ReconcileNext, EnrollmentInv, Moment
  <1>2. Keeps(Db, r) /\ Claims(r)
    BY <1>1, ReconciledAccounts
  <1>. HIDE DEF r
  <1>. QED
    BY <1>1, <1>2, CommitKeeps

\* Steps that change one row.
LEMMA SetPurchaseAccounts ==
  ASSUME EnrollmentInv, AccountsInv, NEW p \in purchase, NEW q, SetPurchase(p, q), Follows(p, q),
         HasSeat(q) <=> HasSeat(p), Committed(p) => Committed(q), Undecided(p) => Undecided(q),
         q.session = "settled" => p.session = "settled" \/ Final(q)
  PROVE  AccountsKept
  <1>. DEFINE n == [Db EXCEPT !.purchase = Replace(@, p, q)]
  <1>1. /\ n.waitlist = Db.waitlist /\ n.offer = Db.offer /\ n.purchase = Replace(Db.purchase, p, q)
        /\ n.attendee = Db.attendee /\ n.available = Db.available
    BY DbTables DEF DbFields
  <1>. HIDE DEF n
  <1>2. Good(Db) /\ Ledger(Db) /\ p \in Db.purchase
    BY DbTables DEF EnrollmentInv, AccountsInv
  <1>3. n.available = Db.available + Units(p.code /\ Committed(p) /\ ~Committed(q))
    <2>1. Units(p.code /\ Committed(p) /\ ~Committed(q)) = 0
      BY DEF Units
    <2>2. Db.available \in Int
      BY <1>2 DEF Ledger, Conserved
    <2>. QED
      BY <1>1, <2>1, <2>2
  <1>4. n.waitlist \subseteq Db.waitlist /\ SameConfirmed(Db, n)
    BY <1>1 DEF SameConfirmed
  <1>5. Keeps(Db, n) /\ (Claims(Db) => Claims(n))
    <2>1. n.offer = Db.offer /\ n.purchase = Replace(Db.purchase, p, q)
      BY <1>1
    <2>. QED
      BY <1>2, <1>3, <1>4, <2>1, RowKeeps
  <1>6. /\ waitlist' = n.waitlist /\ offer' = n.offer /\ purchase' = n.purchase /\ attendee' = n.attendee
        /\ available' = n.available /\ now' = now /\ canceled' = canceled
    BY <1>1, DbTables DEF SetPurchase
  <1>. QED
    BY <1>5, <1>6, TablesAccounts DEF AccountsInv, Keeps

LEMMA SessionStepsAccounts ==
  ASSUME EnrollmentInv, AccountsInv, NEW p \in purchase, AttachSession(p) \/ PayCheckout(p) \/ SessionExpires(p)
  PROVE  AccountsKept
  <1>1. Bought(p) /\ Recorded(p)
    BY DbTables DEF EnrollmentInv, AccountsInv, Good, Shape, Ledger
  <1>2. PICK session \in {"open", "paid", "expired"} : SetSession(p, session)
    BY DEF AttachSession, PayCheckout, SessionExpires
  <1>. DEFINE q == [p EXCEPT !.session = session]
  <1>3. /\ SameSale(p, q) /\ q.status = p.status /\ q.hold = p.hold /\ q.refund = p.refund /\ q.job = p.job
        /\ q.session = session
    BY <1>1 DEF Bought, PurchaseFields, SameSale
  <1>4. SetPurchase(p, q)
    BY <1>2 DEF SetSession, SetPurchase
  <1>. HIDE DEF q
  <1>5. Recorded(q)
    BY <1>1, <1>3 DEF Recorded, SameSale
  <1>6. Follows(p, q)
    BY <1>3, <1>5 DEF Follows, Committed, PaidFor, Final
  <1>7. /\ (HasSeat(q) <=> HasSeat(p)) /\ (Committed(p) => Committed(q)) /\ (Undecided(p) => Undecided(q))
        /\ q.session # "settled"
    BY <1>3 DEF HasSeat, Committed, Undecided
  <1>. QED
    BY <1>4, <1>6, <1>7, SetPurchaseAccounts

\* The row that a request, its review, the organizer or the provider leaves.
LEMMA RefundRowsAccounts ==
  ASSUME EnrollmentInv, AccountsInv, NEW p \in purchase, NEW ts,
         \/ ApproveRefund(p) \/ RejectRefund(p) \/ RefundFails(p)
         \/ RequestRefund(p, ts) \/ CancelAttendance(p, ts)
  PROVE  AccountsKept
  <1>1. Bought(p) /\ Requested(p) /\ Recorded(p)
    BY DbTables DEF EnrollmentInv, AccountsInv, Good, Shape, Requests, Ledger
  <1>2. ASSUME NEW q, SetPurchase(p, q), SameSale(p, q), q.hold = p.hold, q.session = p.session, Recorded(q),
               Committed(q) <=> Committed(p), PaidFor(q) <=> PaidFor(p), HasSeat(q) <=> HasSeat(p),
               q.status \in Engaged => p.status \in Engaged, Final(q), Undecided(p) => Undecided(q)
        PROVE  AccountsKept
    <2>1. Follows(p, q)
      BY <1>2 DEF Follows
    <2>. QED
      BY <1>2, <2>1, SetPurchaseAccounts
  <1>3. CASE ApproveRefund(p)
    <2>. DEFINE q == [p EXCEPT !.request = "approving", !.refund = "refund-request-approval", !.job = "queued"]
    <2>1. SetPurchase(p, q) /\ p.status = "refund-requested"
      BY <1>3 DEF ApproveRefund
    <2>2. /\ SameSale(p, q) /\ q.hold = p.hold /\ q.session = p.session /\ q.status = p.status
          /\ q.refund = "refund-request-approval" /\ q.job = "queued"
      BY <1>1 DEF Bought, SameSale, PurchaseFields
    <2>. HIDE DEF q
    <2>3. Recorded(q)
      BY <1>1, <2>1, <2>2 DEF Recorded, SameSale
    <2>4. /\ Committed(q) /\ Committed(p) /\ PaidFor(q) /\ PaidFor(p) /\ HasSeat(q) /\ HasSeat(p) /\ ~Undecided(p)
          /\ Final(q) /\ p.status \in Engaged
      BY <2>1, <2>2 DEF Committed, PaidFor, HasSeat, Undecided, Final, SeatHolding, Engaged
    <2>. QED
      BY <1>2, <2>1, <2>2, <2>3, <2>4
  <1>4. CASE RejectRefund(p)
    <2>. DEFINE q == [p EXCEPT !.status = "completed", !.request = "rejected"]
    <2>1. SetPurchase(p, q) /\ p.status = "refund-requested" /\ p.request = "pending"
      BY <1>4 DEF RejectRefund
    <2>2. /\ SameSale(p, q) /\ q.hold = p.hold /\ q.session = p.session /\ q.status = "completed"
          /\ q.refund = p.refund /\ q.job = p.job
      BY <1>1 DEF Bought, SameSale, PurchaseFields
    <2>. HIDE DEF q
    <2>3. Recorded(q)
      BY <1>1, <2>1, <2>2 DEF Recorded, Requested, SameSale, PurchaseStatuses, SeatHolding
    <2>4. /\ Committed(q) /\ Committed(p) /\ PaidFor(q) /\ PaidFor(p) /\ HasSeat(q) /\ HasSeat(p) /\ ~Undecided(p)
          /\ Final(q) /\ p.status \in Engaged
      BY <2>1, <2>2 DEF Committed, PaidFor, HasSeat, Undecided, Final, SeatHolding, Engaged
    <2>. QED
      BY <1>2, <2>1, <2>2, <2>3, <2>4
  <1>5. CASE RefundFails(p)
    <2>. DEFINE q == [p EXCEPT !.job = "failed", !.status = IF p.finalized THEN "refund-recovery-pending" ELSE @]
    <2>1. SetPurchase(p, q) /\ p.job \in {"queued", "finalized"}
      BY <1>5 DEF RefundFails
    <2>2. /\ SameSale(p, q) /\ q.hold = p.hold /\ q.session = p.session
          /\ q.status = (IF p.finalized THEN "refund-recovery-pending" ELSE p.status)
          /\ q.job = "failed" /\ q.refund = p.refund
      BY <1>1 DEF Bought, SameSale, PurchaseFields
    <2>. HIDE DEF q
    <2>3. /\ p.finalized => p.status \in {"refunded", "refund-recovery-pending"}
          /\ p.status \in {"refund-pending", "refund-requested", "refunded", "refund-recovery-pending"}
      BY <1>1, <2>1 DEF Requested, Recorded, PurchaseStatuses, SeatHolding
    <2>4. Recorded(q)
      BY <1>1, <2>1, <2>2, <2>3 DEF Recorded, SameSale, PurchaseStatuses, SeatHolding
    <2>5. /\ (Committed(q) <=> Committed(p)) /\ (PaidFor(q) <=> PaidFor(p)) /\ (HasSeat(q) <=> HasSeat(p))
          /\ (Undecided(p) => Undecided(q)) /\ Final(q) /\ (q.status \in Engaged => p.status \in Engaged)
      BY <2>2, <2>3 DEF Committed, PaidFor, HasSeat, Undecided, Final, SeatHolding, Engaged
    <2>. QED
      BY <1>2, <2>1, <2>2, <2>4, <2>5
  <1>6. CASE RequestRefund(p, ts)
    <2>. DEFINE q == [p EXCEPT !.status = "refund-requested", !.request = "pending"]
    <2>1. SetPurchase(p, q) /\ p.status = "completed"
      BY <1>6 DEF RequestRefund
    <2>2. /\ SameSale(p, q) /\ q.hold = p.hold /\ q.session = p.session /\ q.status = "refund-requested"
          /\ q.refund = p.refund /\ q.job = p.job
      BY <1>1 DEF Bought, SameSale, PurchaseFields
    <2>. HIDE DEF q
    <2>3. Recorded(q)
      BY <1>1, <2>1, <2>2 DEF Recorded, Requested, SameSale, PurchaseStatuses, SeatHolding
    <2>4. /\ Committed(q) /\ Committed(p) /\ PaidFor(q) /\ PaidFor(p) /\ HasSeat(q) /\ HasSeat(p) /\ ~Undecided(p)
          /\ Final(q) /\ p.status \in Engaged
      BY <2>1, <2>2 DEF Committed, PaidFor, HasSeat, Undecided, Final, SeatHolding, Engaged
    <2>. QED
      BY <1>2, <2>1, <2>2, <2>3, <2>4
  <1>7. CASE CancelAttendance(p, ts)
    <2>. DEFINE q == [p EXCEPT !.status = "refund-requested", !.request = "approving",
                               !.refund = "attendance-cancellation", !.job = "queued"]
    <2>1. SetPurchase(p, q) /\ p.status \in {"completed", "refund-requested"}
      BY <1>7 DEF CancelAttendance, Attending
    <2>2. /\ SameSale(p, q) /\ q.hold = p.hold /\ q.session = p.session /\ q.status = "refund-requested"
          /\ q.refund = "attendance-cancellation" /\ q.job = "queued"
      BY <1>1 DEF Bought, SameSale, PurchaseFields
    <2>. HIDE DEF q
    <2>3. Recorded(q)
      BY <1>1, <2>1, <2>2 DEF Recorded, SameSale, PurchaseStatuses, SeatHolding
    <2>4. /\ Committed(q) /\ Committed(p) /\ PaidFor(q) /\ PaidFor(p) /\ HasSeat(q) /\ HasSeat(p) /\ ~Undecided(p)
          /\ Final(q) /\ p.status \in Engaged
      BY <2>1, <2>2 DEF Committed, PaidFor, HasSeat, Undecided, Final, SeatHolding, Engaged
    <2>. QED
      BY <1>2, <2>1, <2>2, <2>3, <2>4
  <1>. QED
    BY <1>3, <1>4, <1>5, <1>6, <1>7

\* The code that a refund job gives back.
LEMMA ReturnCodeAccounts ==
  ASSUME NEW s, DOMAIN s = DbFields, NEW p, NEW job
  PROVE  /\ Refunded(s, p, job).available = s.available
         /\ ReturnCode(s, p).available = s.available + Units(p.code /\ p.refund # "automatic")
  BY DEF Refunded, ReturnCode, DbFields

\* A refund job owes the code exactly if its purchase still holds it.
LEMMA JobOwesCode ==
  ASSUME NEW p, p.status \in {"refund-pending", "refund-requested"}, Recorded(p)
  PROVE  (p.refund # "automatic") <=> Committed(p)
  BY DEF Recorded, Committed

LEMMA FinalizeRefundAccounts ==
  ASSUME EnrollmentInv, AccountsInv, NEW p \in purchase, NEW ts, Moment(ts), FinalizeRefund(p, ts)
  PROVE  AccountsKept
  <1>. DEFINE r == Reconcile(Db, {p.tier}, ProviderReady, ts)
              e == EndAttendance(r, p)
              f == Refunded(e, p, "finalized")
              c == ReturnCode(f, p)
              n == Reconcile(c, {p.tier}, ProviderReady, ts)
  <1>1. Commit(n) /\ p.job = "queued"
    BY DEF FinalizeRefund, Finalized
  <1>2. Keeps(Db, r) /\ DOMAIN r = DbFields
    BY ReconciledAccounts
  <1>3. r.ok => Good(r) /\ p \in r.purchase
    BY <1>1, JobSurvives DEF Moment
  <1>. HIDE DEF r
  <1>4. DOMAIN e = DbFields /\ e.purchase = r.purchase /\ (e.ok => r.ok) /\ (e.ok /\ Good(r) => Good(e))
    BY <1>2, EndAttendanceGood
  <1>5. Good(r) => /\ e.waitlist = r.waitlist /\ e.offer = r.offer /\ e.available = r.available
    BY EndAttendanceFields
  <1>6. e.attendee = EndAttendance(r, p).attendee
    OBVIOUS
  <1>. HIDE DEF e
  <1>7. /\ DOMAIN f = DbFields /\ f.ok = e.ok /\ f.waitlist = e.waitlist /\ f.offer = e.offer
        /\ f.attendee = e.attendee /\ f.purchase = Replace(e.purchase, p, FinalRow(p, "finalized"))
        /\ f.available = e.available
    BY <1>4, RefundedFields, ReturnCodeAccounts
  <1>8. e.ok => Good(f)
    BY <1>1, <1>3, <1>4, RefundedGood
  <1>. HIDE DEF f
  <1>9. /\ DOMAIN c = DbFields /\ c.ok = f.ok /\ c.waitlist = f.waitlist /\ c.offer = f.offer
        /\ c.purchase = f.purchase /\ c.attendee = f.attendee
        /\ c.available = f.available + Units(p.code /\ p.refund # "automatic")
    BY <1>7, ReturnCodeFields, ReturnCodeAccounts
  <1>. HIDE DEF c
  <1>10. n.ok /\ c.ok
    BY <1>1, <1>9, ReconcileFields DEF Commit, Write
  <1>11. Good(c)
    BY <1>7, <1>8, <1>9, <1>10, SameTables
  <1>12. Good(r) /\ Ledger(r) /\ p \in r.purchase
    BY <1>2, <1>3, <1>4, <1>7, <1>9, <1>10 DEF Keeps
  <1>13. c.available = r.available + Units(p.code /\ Committed(p))
    <2>1. Recorded(p) /\ p.status \in {"refund-pending", "refund-requested"}
      BY <1>1, <1>12 DEF Ledger, Recorded
    <2>2. (p.refund # "automatic") <=> Committed(p)
      BY <2>1, JobOwesCode
    <2>. QED
      BY <1>5, <1>7, <1>9, <1>12, <2>2 DEF Units
  <1>14. Keeps(r, c)
    <2>1. /\ c.waitlist = r.waitlist /\ c.offer = r.offer
          /\ c.purchase = Replace(r.purchase, p, FinalRow(p, "finalized"))
          /\ c.attendee = EndAttendance(r, p).attendee
      BY <1>4, <1>5, <1>6, <1>7, <1>9, <1>12
    <2>2. "finalized" \in {"finalized", "recovered"}
      OBVIOUS
    <2>. QED
      BY ONLY <1>12, <1>13, <2>1, <2>2, RefundedKeeps
  <1>15. Keeps(Db, c)
    BY <1>2, <1>14, KeepsTransitive
  <1>16. Keeps(Db, n) /\ Claims(n)
    BY <1>11, <1>15, ReconcileLast
  <1>. HIDE DEF n
  <1>. QED
    BY <1>1, <1>16, CommitKeeps

LEMMA CompleteRecoveryAccounts ==
  ASSUME EnrollmentInv, AccountsInv, NEW p \in purchase, NEW ts, Moment(ts), CompleteRecovery(p, ts)
  PROVE  AccountsKept
  <1>. DEFINE r == Reconcile(Db, {p.tier}, ProviderReady, ts)
              ends == p.refund \in {"attendance-cancellation", "refund-request-approval"}
              e == IF ends THEN EndAttendance(r, p) ELSE r
              f == Refunded(e, p, "recovered")
              g == Refunded(r, p, "recovered")
              h == ReturnCode(f, p)
              c == IF p.finalized THEN g ELSE h
              n == Reconcile(c, {p.tier}, ProviderReady, ts)
  <1>1. /\ Commit(n) /\ p.job = "failed"
        /\ IF p.finalized THEN p.status \in {"refund-recovery-pending", "refunded"}
           ELSE IF p.refund \in {"automatic", "event-cancellation"} THEN p.status = "refund-pending"
           ELSE p.status \in {"refund-requested", "refund-pending"}
    BY DEF CompleteRecovery, Recovered
  <1>2. Keeps(Db, r) /\ DOMAIN r = DbFields
    BY ReconciledAccounts
  <1>3. r.ok => Good(r) /\ p \in r.purchase
    BY <1>1, JobSurvives DEF Moment
  <1>. HIDE DEF r
  <1>4. /\ DOMAIN e = DbFields /\ e.purchase = r.purchase /\ (e.ok => r.ok) /\ (e.ok /\ Good(r) => Good(e))
        /\ Good(r) => e.waitlist = r.waitlist /\ e.offer = r.offer /\ e.available = r.available
        /\ e.attendee = EndAttendance(r, p).attendee \/ (e.attendee = r.attendee /\ ~ends)
    <2>1. CASE ends
      BY <1>2, <2>1, EndAttendanceGood, EndAttendanceFields
    <2>2. CASE ~ends
      BY <1>2, <2>2
    <2>. QED
      BY <2>1, <2>2
  <1>. HIDE DEF e
  <1>5. /\ DOMAIN f = DbFields /\ f.ok = e.ok /\ f.waitlist = e.waitlist /\ f.offer = e.offer
        /\ f.attendee = e.attendee /\ f.purchase = Replace(e.purchase, p, FinalRow(p, "recovered"))
        /\ f.available = e.available
    BY <1>4, RefundedFields, ReturnCodeAccounts
  <1>6. /\ DOMAIN g = DbFields /\ g.ok = r.ok /\ g.waitlist = r.waitlist /\ g.offer = r.offer
        /\ g.attendee = r.attendee /\ g.purchase = Replace(r.purchase, p, FinalRow(p, "recovered"))
        /\ g.available = r.available
    BY <1>2, RefundedFields, ReturnCodeAccounts
  <1>7. (e.ok => Good(f)) /\ (r.ok => Good(g))
    BY <1>1, <1>3, <1>4, RefundedGood
  <1>. HIDE DEF f, g
  <1>8. /\ DOMAIN h = DbFields /\ h.ok = f.ok /\ h.waitlist = f.waitlist /\ h.offer = f.offer
        /\ h.purchase = f.purchase /\ h.attendee = f.attendee
        /\ h.available = f.available + Units(p.code /\ p.refund # "automatic")
    BY <1>5, ReturnCodeFields, ReturnCodeAccounts
  <1>. HIDE DEF h
  <1>9. DOMAIN c = DbFields /\ (c.ok => r.ok /\ Good(c))
    <2>1. f.ok => Good(h)
      BY <1>5, <1>7, <1>8, SameTables
    <2>. QED
      BY <1>4, <1>5, <1>6, <1>7, <1>8, <2>1
  <1>10. n.ok /\ c.ok
    <2>1. n.ok
      BY <1>1 DEF Commit, Write
    <2>. HIDE DEF c
    <2>. QED
      BY <1>9, <2>1, ReconcileFields
  <1>11. Good(r) /\ Ledger(r) /\ p \in r.purchase /\ Good(c)
    BY <1>2, <1>3, <1>9, <1>10 DEF Keeps
  <1>12. Recorded(p) /\ Requested(p) /\ r.available \in Int
    BY <1>11 DEF Good, Requests, Ledger, Conserved
  <1>13. Keeps(r, c)
    <2>0. "recovered" \in {"finalized", "recovered"}
      OBVIOUS
    <2>1. CASE p.finalized
      <3>1. c = g
        BY <2>1
      <3>2. ~Committed(p) /\ ~HasSeat(p)
        BY <1>1, <2>1 DEF Committed, HasSeat
      <3>3. g.available = r.available + Units(p.code /\ Committed(p))
        BY <1>6, <1>12, <3>2 DEF Units
      <3>4. /\ g.waitlist = r.waitlist /\ g.offer = r.offer /\ g.attendee = r.attendee
            /\ g.purchase = Replace(r.purchase, p, FinalRow(p, "recovered"))
        BY <1>6
      <3>5. Keeps(r, g)
        BY ONLY <1>11, <2>0, <3>2, <3>3, <3>4, RefundedKeeps
      <3>. QED
        BY <3>1, <3>5
    <2>2. CASE ~p.finalized
      <3>1. c = h
        BY <2>2
      <3>2. p.status \in {"refund-pending", "refund-requested"}
        BY <1>1, <2>2
      <3>3. h.available = r.available + Units(p.code /\ Committed(p))
        <4>1. (p.refund # "automatic") <=> Committed(p)
          BY <1>12, <3>2, JobOwesCode
        <4>. QED
          BY <1>4, <1>5, <1>8, <1>11, <4>1 DEF Units
      <3>4. ~ends => ~HasSeat(p)
        BY <1>1, <1>12, <2>2, <3>2 DEF Recorded, HasSeat
      <3>5. /\ h.waitlist = r.waitlist /\ h.offer = r.offer
            /\ h.purchase = Replace(r.purchase, p, FinalRow(p, "recovered"))
            /\ h.attendee = EndAttendance(r, p).attendee \/ (h.attendee = r.attendee /\ ~HasSeat(p))
        BY <1>4, <1>5, <1>8, <1>11, <3>4
      <3>6. Keeps(r, h)
        BY ONLY <1>11, <2>0, <3>3, <3>5, RefundedKeeps
      <3>. QED
        BY <3>1, <3>6
    <2>. QED
      BY <2>1, <2>2
  <1>. HIDE DEF c
  <1>14. Keeps(Db, c)
    BY <1>2, <1>13, KeepsTransitive
  <1>15. Keeps(Db, n) /\ Claims(n)
    BY <1>11, <1>14, ReconcileLast
  <1>. HIDE DEF n
  <1>. QED
    BY <1>1, <1>15, CommitKeeps

LEMMA CancelEventAccounts ==
  ASSUME EnrollmentInv, AccountsInv, NEW ts, Moment(ts), CancelEvent(ts)
  PROVE  AccountsKept
  <1>. DEFINE d == CloseEnrollment(Db, ts)
              gone == {a \in d.attendee : a.status \in {"confirmed", "registration-questions-pending"}}
              v == Vacated(Db, ts)
              seated == {p \in v.purchase : p.status \in {"completed", "refund-requested"}}
              free == {p \in seated : PurchaseAmount(p) = 0}
              rows == (v.purchase \ seated) \cup {RefundedFree(p) : p \in free}
                                            \cup {HandToRefund(p) : p \in seated \ free}
              n == [v EXCEPT !.purchase = rows, !.available = @ + Cardinality({p \in free : p.code})]
  <1>1. Write(n) /\ canceled' = TRUE /\ now' = now
    BY DEF CancelEvent, Vacated, RefundedFree
  <1>2. Good(Db) /\ Ledger(Db) /\ ts \in Nat
    BY DEF EnrollmentInv, AccountsInv, Moment
  <1>3. DOMAIN v = DbFields /\ (v.ok => Good(v))
    BY <1>2, VacatedGood
  <1>4. DOMAIN d = DbFields /\ Keeps(Db, d) /\ (\A o \in d.offer : o.status \notin ActiveOffer)
    BY <1>2, CloseKeeps, CloseEnrollmentGood
  <1>5. v = SetAttendance(d, gone, "attendance-canceled")
    BY DEF Vacated
  <1>. HIDE DEF d, gone, v
  <1>6. /\ v.waitlist = d.waitlist /\ v.offer = d.offer /\ v.purchase = d.purchase
        /\ v.available = d.available
    BY <1>4, <1>5, AttendanceFields
  <1>7. Ledger(v) /\ NoneMissed(Db, v)
    <2>1. Ledger(d) /\ NoneMissed(Db, d)
      BY <1>4 DEF Keeps
    <2>2. Conserved(v) /\ OneEngaged(v) /\ PaidOffers(v) /\ SoldOffers(v)
      BY <1>6, <2>1 DEF Ledger, Conserved, OneEngaged, PaidOffers, SoldOffers
    <2>. QED
      BY <1>6, <2>1, <2>2 DEF Ledger, NoneMissed
  <1>8. /\ n.waitlist = v.waitlist /\ n.offer = v.offer /\ n.attendee = v.attendee
        /\ n.purchase = rows /\ n.available = v.available + Cardinality({p \in free : p.code}) /\ n.ok = v.ok
    <2>. HIDE DEF rows, free
    <2>. QED
      BY <1>3 DEF DbFields
  <1>. HIDE DEF n
  <1>9. Good(v)
    BY <1>1, <1>3, <1>8 DEF Write
  <1>10. Ledger(n) /\ NoneMissed(v, n)
    <2>1. /\ seated = {p \in v.purchase : p.status \in {"completed", "refund-requested"}}
          /\ free = {p \in seated : PurchaseAmount(p) = 0}
          /\ n.purchase = (v.purchase \ seated) \cup {RefundedFree(p) : p \in free}
                                               \cup {HandToRefund(p) : p \in seated \ free}
      BY <1>8
    <2>2. /\ n.waitlist = v.waitlist /\ n.offer = v.offer
          /\ n.available = v.available + Cardinality({p \in free : p.code})
      BY <1>8
    <2>3. Ledger(v)
      BY <1>7
    <2>. HIDE DEF seated, free
    <2>. QED
      BY ONLY <1>9, <2>1, <2>2, <2>3, CancelKeeps
  <1>11. Claims(n)
    BY <1>4, <1>6, <1>8 DEF Claims, ActiveOffer
  <1>. QED
    <2>1. AccountsInv' /\ (NoneMissed(Db, n) => AccountsKept)
      BY <1>1, <1>10, <1>11, WriteAccounts DEF AccountsInv
    <2>. QED
      BY <1>7, <1>10, <2>1, MissedTransitive

\* Time passes: what ended stays ended.
LEMMA TickAccounts ==
  ASSUME EnrollmentInv, AccountsInv, now' \in Nat, now <= now',
         UNCHANGED <<canceled, waitlist, offer, purchase, attendee, available>>
  PROVE  AccountsKept
  <1>1. Db' = Db
    BY DEF Db
  <1>2. \A p : Recorded(p) => Recorded(p)'
    BY DEF EnrollmentInv, Recorded
  <1>3. Ledger(Db)'
    <2>1. /\ Keyed(Db.offer) /\ Keyed(Db.purchase) /\ (\A v, w \in Db.waitlist : v.user = w.user => v = w)
          /\ Conserved(Db) /\ OneEngaged(Db) /\ PaidOffers(Db) /\ SoldOffers(Db)
          /\ \A p \in Db.purchase : Recorded(p)'
      BY <1>2 DEF AccountsInv, Ledger
    <2>2. /\ Keyed(Db.offer)' /\ Keyed(Db.purchase)' /\ (\A v, w \in Db.waitlist : v.user = w.user => v = w)'
          /\ Conserved(Db)' /\ OneEngaged(Db)' /\ PaidOffers(Db)' /\ SoldOffers(Db)'
      BY <1>1, <2>1
    <2>3. (\A p \in Db.purchase : Recorded(p))'
      BY <1>1, <2>1
    <2>. QED
      BY <2>2, <2>3 DEF Ledger
  <1>4. Claims(Db)' /\ (~canceled' => Seats(Db)')
    BY <1>1 DEF AccountsInv
  <1>5. \A p \in purchase' : Missed(p) => \E q \in purchase : Missed(q) /\ q.user = p.user /\ q.id = p.id
    OBVIOUS
  <1>. QED
    BY <1>3, <1>4, <1>5 DEF AccountsInv, AccountsKept

LEMMA InitAccounts == Init => AccountsInv
  <1>. SUFFICES ASSUME Init PROVE AccountsInv
    OBVIOUS
  <1>1. /\ Db.waitlist = {} /\ Db.offer = {} /\ Db.purchase = {} /\ Db.attendee = {}
        /\ Db.available = InitialAvailable
    BY DbTables DEF Init
  <1>2. Conserved(Db)
    <2>1. Coded(Db.purchase) = {} /\ InitialAvailable \in Nat
      BY <1>1, EnrollmentAssumption DEF Coded
    <2>. QED
      BY <1>1, <2>1, FS_EmptySet DEF Conserved
  <1>3. Ledger(Db)
    BY <1>1, <1>2 DEF Ledger, Keyed, OneEngaged, PaidOffers, SoldOffers
  <1>. QED
    BY <1>1, <1>3 DEF AccountsInv, Claims, Seats

LEMMA AccountsStep ==
  ASSUME EnrollmentInv, AccountsInv, [RefundsNext]_vars
  PROVE  AccountsInv' /\ MissedByLateWebhookOnly
  <1>0. \A ts \in Timestamps : Moment(ts) /\ now - MaxLockWait <= ts
    BY EnrollmentAssumption DEF Timestamps, EnrollmentInv, Moment
  <1>1. ASSUME NEW u \in Users, NEW ts \in Timestamps, UserStep(u, ts) PROVE AccountsKept
    BY <1>0, <1>1, AttendEventAccounts, LeaveAttendanceAccounts, LeaveWaitlistAccounts DEF UserStep
  <1>2. ASSUME NEW t \in Tiers, NEW ts \in Timestamps, TierStep(t, ts) PROVE AccountsKept
    <2>. DEFINE r == Reconcile(Db, {t}, ProviderReady, ts)
    <2>. HIDE DEF r
    <2>1. PICK u \in Users :
            \/ InviteAttendee(r, u, t, ts)
            \/ \E id \in {0} \cup {o.id : o \in Of(offer, u)}, code \in Codes :
                  \/ CheckoutConflict(r, u, t, id, code, ts)
                  \/ ReuseCheckout(r, u, t, id, code, ts)
                  \/ StartCheckout(r, u, t, id, code, ts)
      BY <1>2 DEF TierStep, r
    <2>2. Moment(ts) /\ r = Reconcile(Db, {t}, ProviderReady, ts)
      BY <1>0 DEF r
    <2>3. CASE InviteAttendee(r, u, t, ts)
      BY <2>2, <2>3, InviteAttendeeAccounts
    <2>4. ASSUME NEW id \in {0} \cup {o.id : o \in Of(offer, u)}, NEW code \in Codes,
                 \/ CheckoutConflict(r, u, t, id, code, ts)
                 \/ ReuseCheckout(r, u, t, id, code, ts)
                 \/ StartCheckout(r, u, t, id, code, ts)
          PROVE  AccountsKept
      <3>1. id = 0 \/ \E o \in offer : o.user = u /\ o.id = id
        BY DEF Of
      <3>2. CASE CheckoutConflict(r, u, t, id, code, ts)
        BY <2>2, <3>2, CheckoutConflictAccounts
      <3>3. CASE ReuseCheckout(r, u, t, id, code, ts)
        BY <2>2, <3>3, ReuseCheckoutAccounts
      <3>4. CASE StartCheckout(r, u, t, id, code, ts)
        BY <2>2, <3>1, <3>4, StartCheckoutAccounts
      <3>. QED
        BY <2>4, <3>2, <3>3, <3>4
    <2>. QED
      BY <2>1, <2>3, <2>4
  <1>3. ASSUME NEW o \in offer, NEW ts \in Timestamps, ReleaseOffer(o, ts) PROVE AccountsKept
    BY <1>0, <1>3, ReleaseOfferAccounts
  <1>4. ASSUME NEW p \in purchase, PurchaseStep(p), ~\E ts \in Timestamps : CheckoutCompleted(p, ts) PROVE AccountsKept
    <2>1. CASE AttachSession(p) \/ PayCheckout(p) \/ SessionExpires(p)
      BY <2>1, SessionStepsAccounts
    <2>2. ASSUME NEW ts \in Timestamps, CancelCheckout(p, ts) \/ CheckoutExpired(p, ts) PROVE AccountsKept
      BY <1>0, <2>2, ExpireOneAccounts DEF CancelCheckout, CheckoutExpired
    <2>3. ASSUME NEW ts \in Timestamps, CompleteFree(p, ts) PROVE AccountsKept
      BY <1>0, <2>3, CompleteFreeAccounts
    <2>. QED
      BY <1>4, <2>1, <2>2, <2>3 DEF PurchaseStep
  <1>5. ASSUME NEW p \in purchase, RefundStep(p) PROVE AccountsKept
    <2>1. ASSUME NEW ts \in Timestamps, FinalizeRefund(p, ts) PROVE AccountsKept
      BY <1>0, <2>1, FinalizeRefundAccounts
    <2>2. ASSUME NEW ts \in Timestamps, CompleteRecovery(p, ts) PROVE AccountsKept
      BY <1>0, <2>2, CompleteRecoveryAccounts
    <2>. QED
      BY <1>5, <2>1, <2>2, RefundRowsAccounts DEF RefundStep
  <1>6. ASSUME NEW ts \in Timestamps, CancelEvent(ts) PROVE AccountsKept
    BY <1>0, <1>6, CancelEventAccounts
  <1>7. ASSUME Tick PROVE AccountsKept
    BY <1>7, TickAccounts DEF Tick, EnrollmentInv
  <1>8. ASSUME UNCHANGED vars PROVE AccountsKept
    BY <1>8, TickAccounts DEF vars, EnrollmentInv
  <1>9. AccountsKept => AccountsInv' /\ MissedByLateWebhookOnly
    BY DEF AccountsKept, MissedByLateWebhookOnly
  <1>10. ASSUME NEW p \in purchase, NEW ts \in Timestamps, CheckoutCompleted(p, ts)
         PROVE  AccountsInv' /\ MissedByLateWebhookOnly
    <2>1. /\ AccountsInv'
          /\ AccountsKept \/ \A x \in purchase' : Missed(x) =>
                                \/ \E y \in purchase : Missed(y) /\ y.user = x.user /\ y.id = x.id
                                \/ x.status = "expired" /\ x.hold \in (ts + 1)..now
      BY <1>0, <1>10, CheckoutCompletedAccounts
    <2>2. (ts + 1)..now \subseteq (now - MaxLockWait + 1)..now
      BY <1>0, EnrollmentAssumption DEF Moment
    <2>. QED
      BY <1>9, <2>1, <2>2 DEF MissedByLateWebhookOnly
  <1>. QED
    BY <1>1, <1>2, <1>3, <1>4, <1>5, <1>6, <1>7, <1>8, <1>9, <1>10, ReconcileNextAccounts DEF RefundsNext, Next, PurchaseStep

-----------------------------------------------------------------------------
(* The theorems. *)

\* Every operation of the system keeps the accounts.
THEOREM AccountsInvariant == RefundsSpec => [](EnrollmentInv /\ AccountsInv)
  <1>1. EnrollmentInv /\ AccountsInv /\ [RefundsNext]_vars => EnrollmentInv' /\ AccountsInv'
    BY StepGood, AccountsStep
  <1>. QED
    BY InitGood, InitAccounts, <1>1, PTL DEF RefundsSpec

\* No tier is oversold (get_event_ticket_type_allocated_seat_count), and every
\* unit of the discount code is available or held by exactly one purchase:
\* what a checkout takes, its expiry, its late payment, its refund and the
\* reversal of that refund return exactly once.
THEOREM InventoryIsConserved == RefundsSpec => []InventoryConserved
  <1>1. EnrollmentInv /\ AccountsInv => InventoryConserved
    <2>. SUFFICES ASSUME EnrollmentInv, AccountsInv PROVE InventoryConserved
      OBVIOUS
    <2>1. Db.available = available /\ Db.purchase = purchase
      BY DEF Db
    <2>2. Conserved(Db)
      BY DEF AccountsInv, Ledger
    <2>3. DiscountConserved
      BY <2>1, <2>2 DEF Conserved, Coded, DiscountConserved
    <2>. QED
      BY <2>3, GoodProperties DEF InventoryConserved
  <1>. QED
    BY AccountsInvariant, <1>1, PTL

\* An offer in checkout is never stranded: whatever order expiry, release,
\* replacement, payment and refund come in, the purchase it waits for is
\* undecided, and an offer is completed only with a purchase that was paid.
THEOREM OffersKeepTheirPurchase == RefundsSpec => []OfferInCheckoutHasPurchase
  <1>1. AccountsInv => OfferInCheckoutHasPurchase
    <2>. SUFFICES ASSUME AccountsInv, NEW o \in offer, o.status \in {"checkout_pending", "completed"}
                  PROVE  \E p \in Of(purchase, o.user) :
                            /\ p.offer = o.id
                            /\ p.status \in IF o.status = "completed" THEN SeatHolding \cup {"refunded"}
                                            ELSE {"pending", "refund-pending", "refund-recovery-pending"}
      BY DEF OfferInCheckoutHasPurchase
    <2>1. Db.offer = offer /\ Db.purchase = purchase
      BY DEF Db
    <2>2. CASE o.status = "completed"
      BY <2>1, <2>2 DEF AccountsInv, Ledger, SoldOffers, Final, Of
    <2>3. CASE o.status = "checkout_pending"
      BY <2>1, <2>3 DEF AccountsInv, Claims, Undecided, Of
    <2>. QED
      BY <2>2, <2>3
  <1>. QED
    BY AccountsInvariant, <1>1, PTL

\* Until the event is canceled, the users who are confirmed are exactly those
\* with a purchase that gives them the seat: neither a refund that succeeds,
\* one that fails and is reopened, nor the refund of an older purchase takes
\* the seat of a newer one or leaves one that nobody paid for.
THEOREM AttendanceIsPaidFor == RefundsSpec => []AttendanceMatchesPurchase
  <1>1. AccountsInv => AttendanceMatchesPurchase
    <2>. SUFFICES ASSUME AccountsInv, ~canceled
                  PROVE  {a.user : a \in {b \in attendee : b.status = "confirmed"}}
                            = {p.user : p \in {q \in purchase : q.status \in {"completed", "refund-requested"}}}
      BY DEF AttendanceMatchesPurchase
    <2>1. Db.attendee = attendee /\ Db.purchase = purchase /\ Seats(Db)
      BY DEF AccountsInv, Db
    <2>2. \A u : (\E a \in attendee : a.user = u /\ a.status = "confirmed")
                    <=> (\E p \in purchase : p.user = u /\ p.status \in {"completed", "refund-requested"})
      BY <2>1 DEF Seats, Confirms, HasSeat
    <2>. QED
      BY <2>2
  <1>. QED
    BY AccountsInvariant, <1>1, PTL

\* A payment whose webhook was acknowledged bought a seat or goes back, with
\* one exception: the hold it paid lapsed, and was expired, while the webhook
\* (reconcile_event_purchase_for_checkout_session) waited for the event lock.
\* No refund, reversal, cancellation or other webhook loses a payment, however
\* long transactions wait, and if none waits none is lost.  (The exception
\* happens: the run late_webhook shows it.)
THEOREM PaymentsAreAccounted ==
  RefundsSpec => /\ [][MissedByLateWebhookOnly]_vars
                 /\ MaxLockWait = 0 => []CapturedPaymentAccounted
  <1>1. EnrollmentInv /\ AccountsInv /\ [RefundsNext]_vars => [MissedByLateWebhookOnly]_vars
    BY AccountsStep
  <1>2. RefundsSpec => [][MissedByLateWebhookOnly]_vars
    BY AccountsInvariant, <1>1, PTL DEF RefundsSpec
  <1>3. Init => CapturedPaymentAccounted
    BY DEF Init, CapturedPaymentAccounted
  <1>4. ASSUME MaxLockWait = 0
        PROVE  EnrollmentInv /\ CapturedPaymentAccounted /\ [MissedByLateWebhookOnly]_vars
                  => CapturedPaymentAccounted'
    <2>. SUFFICES ASSUME EnrollmentInv, CapturedPaymentAccounted, [MissedByLateWebhookOnly]_vars,
                         NEW p \in purchase', Missed(p)
                  PROVE  FALSE
      BY DEF CapturedPaymentAccounted
    <2>1. CASE MissedByLateWebhookOnly
      <3>1. p.hold \in (now - MaxLockWait + 1)..now
        BY <2>1 DEF MissedByLateWebhookOnly, CapturedPaymentAccounted
      <3>. QED
        BY <1>4, <3>1 DEF EnrollmentInv
    <2>2. CASE UNCHANGED vars
      BY <2>2 DEF vars, CapturedPaymentAccounted
    <2>. QED
      BY <2>1, <2>2
  <1>5. MaxLockWait = 0 => (RefundsSpec => []CapturedPaymentAccounted)
    <2>. SUFFICES ASSUME MaxLockWait = 0 PROVE RefundsSpec => []CapturedPaymentAccounted
      OBVIOUS
    <2>. QED
      BY AccountsInvariant, <1>2, <1>3, <1>4, PTL DEF RefundsSpec
  <1>. QED
    BY <1>2, <1>5, PTL

-----------------------------------------------------------------------------
(* The worker. *)

\* Somebody is first in every queue.
LEMMA FrontOfQueue ==
  ASSUME NEW Q, IsFiniteSet(Q), Q # {}, \A w \in Q : Entry(w)
  PROVE  \E w \in Q : {v \in Q : Ahead(v, w)} = {}
  <1>. DEFINE before == [w \in Q |-> {v \in Q : Ahead(v, w)}]
              F == {before[w] : w \in Q}
              R == StrictSubsetOrdering(Q)
              S == FiniteSubsetsOf(Q)
  <1>1. IsWellFoundedOn(R, S)
    BY FS_StrictSubsetOrderingWellFounded
  <1>2. F \subseteq S /\ F # {}
    <2>1. \A w \in Q : before[w] \in S
      BY FS_Subset DEF FiniteSubsetsOf
    <2>. HIDE DEF before, S
    <2>. QED
      BY <2>1
  <1>3. \A v, w \in Q : Ahead(v, w) => before[v] \subseteq before[w] /\ v \in before[w] /\ v \notin before[v]
    <2>1. \A w \in Q : w.user \in Nat /\ w.created_at \in Nat
      BY EnrollmentAssumption DEF Entry, WaitlistRow
    <2>. QED
      BY <2>1 DEF Ahead
  <1>4. \A w \in Q : before[w] \subseteq Q
    OBVIOUS
  <1>. HIDE DEF R, S, F
  <1>5. \E X \in F : \A Y \in F : <<Y, X>> \notin R
    BY <1>1, <1>2, WFMin
  <1>6. PICK w \in Q : \A v \in Q : <<before[v], before[w]>> \notin R
    BY <1>5 DEF F
  <1>7. ASSUME NEW v \in Q, Ahead(v, w) PROVE FALSE
    <2>1. <<before[v], before[w]>> \in R
      <3>. HIDE DEF before
      <3>. QED
        BY <1>3, <1>4, <1>6, <1>7 DEF R, StrictSubsetOrdering
    <2>. QED
      BY <1>6, <1>7, <2>1
  <1>. QED
    BY <1>6, <1>7

\* A promotion that takes nobody leaves no queue with a seat to give.
LEMMA IdlePromotion ==
  ASSUME NEW s, Good(s), NEW T, NEW ready, NEW ts \in Nat, Promotable(s, T, ready, ts) = {}, PromotionOpen(ts),
         NEW w \in s.waitlist, w.tier \in T \cap Public, Price[w.tier] = 0 \/ ready
  PROVE  ~(Allocated(s, w.tier, ts) < SeatsTotal[w.tier])
  <1>. DEFINE Q == {v \in s.waitlist : v.tier = w.tier}
  <1>1. IsFiniteSet(Q) /\ Q # {} /\ \A v \in Q : Entry(v)
    BY FS_Subset DEF Good, Shape
  <1>2. PICK v \in Q : {x \in Q : Ahead(x, v)} = {}
    BY <1>1, FrontOfQueue
  <1>3. {x \in s.waitlist : x.tier = v.tier /\ Ahead(x, v)} = {}
    BY <1>2
  <1>4. Cardinality({x \in s.waitlist : x.tier = v.tier /\ Ahead(x, v)}) = 0
    BY <1>3, FS_EmptySet
  <1>5. Allocated(s, w.tier, ts) \in Nat /\ SeatsTotal[w.tier] \in Nat
    BY AllocatedCounts, EnrollmentAssumption DEF Good
  <1>6. ASSUME Allocated(s, w.tier, ts) < SeatsTotal[w.tier] PROVE FALSE
    <2>1. 0 < SeatsTotal[v.tier] - Allocated(s, v.tier, ts)
      BY <1>5, <1>6
    <2>2. v \in Promotable(s, T, ready, ts)
      BY <1>4, <2>1 DEF Promotable
    <2>. QED
      BY <2>2
  <1>. QED
    BY <1>6

\* The worker continues immediately after it was given an event; the selection
\* (NeedsReconciliation) gives it none that a reconciliation which goes through
\* leaves as it is: a lapsed offer or hold does not survive one, and a queue
\* with a seat to give has somebody first.  (One that raises rolls back and
\* leaves the event to be selected again: the run worker_stuck.)
THEOREM WorkerMakesProgress == RefundsSpec => []WorkerProgresses
  <1>1. EnrollmentInv => WorkerProgresses
    <2>. SUFFICES ASSUME EnrollmentInv, NeedsReconciliation(Db, now),
                         Reconcile(Db, Tiers, ProviderReady, now).ok,
                         Reconcile(Db, Tiers, ProviderReady, now) = Db
                  PROVE  FALSE
      BY DEF WorkerProgresses
    <2>. DEFINE a == ExpireHolds(Db, now)
                b == SettleOffers(a, now)
                heads == Promotable(b, Tiers, ProviderReady, now)
    <2>1. Good(Db) /\ now \in Nat /\ Reconcile(Db, Tiers, ProviderReady, now).ok
      BY DEF EnrollmentInv
    <2>2. Live(Db, now)
      BY <2>1, ReconcileGood
    <2>3. Good(a) /\ a.waitlist = waitlist
      BY <2>1, ExpireHoldsGood, DbTables
    <2>. HIDE DEF a
    <2>4. Good(b) /\ b.waitlist = waitlist /\ DOMAIN b = DbFields
      BY <2>1, <2>3, SettleGood, SettleFields DEF Good, Shape
    <2>5. Promote(b, Tiers, ProviderReady, now) = Db
      BY DEF Reconcile, a
    <2>. HIDE DEF b
    <2>6. waitlist = b.waitlist \ heads /\ purchase = b.purchase
          /\ offer = b.offer \cup {PromotedOffer(b, w, now) : w \in heads}
      BY <2>4, <2>5, PromoteFields, DbTables
    <2>7. heads = {}
      BY <2>4, <2>6 DEF Promotable
    <2>8. offer = b.offer
      BY <2>6, <2>7
    <2>. HIDE DEF heads
    <2>9. \A t : Allocated(Db, t, now) = Allocated(b, t, now)
      BY <2>6, <2>8, DbTables DEF Allocated
    <2>10. PICK w \in waitlist : PromotionOpen(now) /\ w.tier \in Public /\ Allocated(Db, w.tier, now) < SeatsTotal[w.tier]
                                 /\ (Price[w.tier] = 0 \/ ProviderReady)
      <3>1. \A o \in offer : ~(o.status \in ActiveOffer /\ o.expires <= now)
        BY <2>1, <2>2, DbTables DEF Live, Good, Shape, Offered
      <3>2. \A p \in purchase : ~(p.status = "pending" /\ p.hold <= now)
        BY <2>1, <2>2, DbTables DEF Live, Good, Shape, Bought
      <3>. QED
        BY <3>1, <3>2, DbTables DEF NeedsReconciliation
    <2>11. w.tier \in Tiers \cap Public
      BY <2>10, EnrollmentAssumption
    <2>12. w \in b.waitlist /\ Promotable(b, Tiers, ProviderReady, now) = {}
      BY <2>4, <2>7, <2>10 DEF heads
    <2>13. ~(Allocated(b, w.tier, now) < SeatsTotal[w.tier])
      BY <2>1, <2>4, <2>10, <2>11, <2>12, IdlePromotion
    <2>. QED
      BY <2>9, <2>10, <2>13
  <1>. QED
    BY EnrollmentInvariant, <1>1, PTL

-----------------------------------------------------------------------------
(* The queue. *)

\* What the arguments about the queue need of the tables, whether or not the
\* transaction raises.
Tables(s) ==
    /\ DOMAIN s = DbFields
    /\ IsFiniteSet(s.waitlist) /\ IsFiniteSet(s.offer) /\ IsFiniteSet(s.purchase)
    /\ \A w \in s.waitlist : Entry(w)
    /\ \A o \in s.offer : DOMAIN o = OfferFields
    /\ \A p \in s.purchase : DOMAIN p = PurchaseFields

\* Between the tables s and n every seat that was given away went to a user
\* of the queue of s, ahead of those of its tier who are left in n.
InTurn(s, n, t, key) ==
    \A w \in n.waitlist : w.tier = t =>
        \E v \in s.waitlist : v.user = key[1] /\ v.tier = t /\ Ahead(v, w)

Turn(s, n) ==
    /\ n.waitlist \subseteq s.waitlist
    /\ PromotionOpen(now) => \A t : \A key \in PromisedOf(n, t) \ PromisedOf(s, t) : InTurn(s, n, t, key)

Moves(s, n) == Tables(n) /\ Turn(s, n)

LEMMA TurnAgain ==
  ASSUME NEW s, NEW m, NEW n, Turn(s, m), Turn(m, n)
  PROVE  Turn(s, n)
  <1>1. ASSUME PromotionOpen(now), NEW t, NEW key \in PromisedOf(n, t) \ PromisedOf(s, t) PROVE InTurn(s, n, t, key)
    <2>1. CASE key \in PromisedOf(m, t)
      BY <1>1, <2>1 DEF Turn, InTurn
    <2>2. CASE key \notin PromisedOf(m, t)
      BY <1>1, <2>2 DEF Turn, InTurn
    <2>. QED
      BY <2>1, <2>2
  <1>. QED
    BY <1>1 DEF Turn

\* No seat is given away.
LEMMA NothingGiven ==
  ASSUME NEW s, NEW n, n.waitlist \subseteq s.waitlist, \A t : PromisedOf(n, t) \subseteq PromisedOf(s, t)
  PROVE  Turn(s, n)
  BY DEF Turn

\* A purchase of n promises no seat, or the seat that one of s promises.
SameSeat(s, q) ==
    /\ DOMAIN q = PurchaseFields
    /\ Committed(q) => \E p \in s.purchase : Committed(p) /\ p.tier = q.tier /\ SeatKey(p) = SeatKey(q)

LEMMA PurchasesMove ==
  ASSUME NEW s, Tables(s), NEW n, DOMAIN n = DbFields, n.waitlist \subseteq s.waitlist, n.offer = s.offer,
         IsFiniteSet(n.purchase), \A q \in n.purchase : SameSeat(s, q)
  PROVE  Moves(s, n)
  <1>1. IsFiniteSet(n.waitlist)
    BY FS_Subset DEF Tables
  <1>2. Tables(n)
    BY <1>1 DEF Tables, SameSeat
  <1>3. \A t : PromisedOf(n, t) \subseteq PromisedOf(s, t)
    BY DEF PromisedOf, SeatKeys, SameSeat
  <1>. QED
    BY <1>2, <1>3, NothingGiven DEF Moves

LEMMA SeatKept ==
  ASSUME NEW s, Tables(s), NEW q \in s.purchase
  PROVE  SameSeat(s, q)
  BY DEF Tables, SameSeat

LEMMA SamePurchases ==
  ASSUME NEW s, Tables(s), NEW n, DOMAIN n = DbFields, n.waitlist \subseteq s.waitlist, n.offer = s.offer,
         n.purchase = s.purchase
  PROVE  Moves(s, n)
  BY SeatKept, PurchasesMove DEF Tables

LEMMA RowMoves ==
  ASSUME NEW s, Tables(s), NEW n, DOMAIN n = DbFields, n.waitlist \subseteq s.waitlist, n.offer = s.offer,
         NEW p, NEW q, n.purchase = Replace(s.purchase, p, q), SameSeat(s, q)
  PROVE  Moves(s, n)
  <1>1. \A x \in n.purchase : SameSeat(s, x)
    BY SeatKept DEF Replace
  <1>2. IsFiniteSet((s.purchase \ {p}) \cup {q})
    BY FS_RemoveElement, FS_AddElement DEF Tables
  <1>. QED
    BY <1>1, <1>2, PurchasesMove DEF Replace

LEMMA ExpireMoves ==
  ASSUME NEW s, Tables(s), NEW rows, rows \subseteq s.purchase, NEW ts
  PROVE  Moves(s, Expire(s, rows, ts))
  <1>. DEFINE n == Expire(s, rows, ts)
  <1>1. /\ DOMAIN n = DbFields /\ n.waitlist = s.waitlist /\ n.offer = s.offer
        /\ n.purchase = (s.purchase \ rows) \cup {ExpiredRow(p, ts) : p \in rows}
    BY ExpireFields DEF Tables
  <1>2. ASSUME NEW p \in rows PROVE SameSeat(s, ExpiredRow(p, ts))
    <2>1. DOMAIN ExpiredRow(p, ts) = PurchaseFields /\ ExpiredRow(p, ts).status = "expired"
      BY DEF Tables, ExpiredRow, PurchaseFields
    <2>. QED
      BY <2>1 DEF SameSeat, Committed
  <1>. HIDE DEF n
  <1>3. \A q \in n.purchase : SameSeat(s, q)
    BY <1>1, <1>2, SeatKept
  <1>4. IsFiniteSet(n.purchase)
    <2>. DEFINE f == [p \in rows |-> ExpiredRow(p, ts)]
    <2>1. IsFiniteSet(rows) /\ IsFiniteSet(s.purchase \ rows)
      BY FS_Subset DEF Tables
    <2>2. IsFiniteSet({f[p] : p \in rows})
      BY <2>1, FiniteImage
    <2>3. {f[p] : p \in rows} = {ExpiredRow(p, ts) : p \in rows}
      OBVIOUS
    <2>. HIDE DEF f
    <2>4. IsFiniteSet((s.purchase \ rows) \cup {f[p] : p \in rows})
      BY <2>1, <2>2, FS_Union
    <2>. QED
      BY <1>1, <2>3, <2>4
  <1>5. Moves(s, n)
    BY <1>1, <1>3, <1>4, PurchasesMove
  <1>. QED
    BY <1>5 DEF n

LEMMA ExpireHoldsMoves ==
  ASSUME NEW s, Tables(s), NEW ts
  PROVE  Moves(s, ExpireHolds(s, ts))
  <1>. DEFINE rows == {p \in s.purchase :
                        /\ p.status = "pending"
                        /\ \/ p.hold <= ts
                           \/ \E o \in ActiveOffers(s, p.user) : o.id = p.offer /\ o.expires <= ts}
  <1>1. rows \subseteq s.purchase /\ ExpireHolds(s, ts) = Expire(s, rows, ts)
    BY DEF ExpireHolds
  <1>. HIDE DEF rows
  <1>. QED
    BY <1>1, ExpireMoves

\* Offers of n that are active were active in s.
SameOffer(s, o) ==
    /\ DOMAIN o = OfferFields
    /\ o.status \in ActiveOffer =>
          \E o1 \in s.offer : o1.status \in ActiveOffer /\ o1.tier = o.tier /\ o1.user = o.user /\ o1.id = o.id

LEMMA OffersMove ==
  ASSUME NEW s, Tables(s), NEW n, DOMAIN n = DbFields, n.waitlist \subseteq s.waitlist, n.purchase = s.purchase,
         IsFiniteSet(n.offer), \A o \in n.offer : SameOffer(s, o)
  PROVE  Moves(s, n)
  <1>1. IsFiniteSet(n.waitlist)
    BY FS_Subset DEF Tables
  <1>2. Tables(n)
    BY <1>1 DEF Tables, SameOffer
  <1>3. \A t : PromisedOf(n, t) \subseteq PromisedOf(s, t)
    BY DEF PromisedOf, SeatKeys, SameOffer
  <1>. QED
    BY <1>2, <1>3, NothingGiven DEF Moves

LEMMA SettleMoves ==
  ASSUME NEW s, Tables(s), NEW ts
  PROVE  Moves(s, SettleOffers(s, ts))
  <1>. DEFINE n == SettleOffers(s, ts)
  <1>1. /\ DOMAIN n = DbFields /\ n.waitlist = s.waitlist /\ n.purchase = s.purchase
        /\ n.offer = (s.offer \ (Due(s, ts) \cup AbandonedOffers(s, ts)))
                     \cup {[o EXCEPT !.status = "expired"] : o \in Due(s, ts)}
                     \cup {[o EXCEPT !.status = "pending"] : o \in AbandonedOffers(s, ts)}
    BY SettleFields DEF Tables
  <1>2. ASSUME NEW o \in Due(s, ts) PROVE SameOffer(s, [o EXCEPT !.status = "expired"])
    BY DEF Tables, Due, SameOffer, OfferFields, ActiveOffer
  <1>3. ASSUME NEW o \in AbandonedOffers(s, ts) PROVE SameOffer(s, [o EXCEPT !.status = "pending"])
    BY DEF Tables, AbandonedOffers, SameOffer, OfferFields, ActiveOffer
  <1>4. \A o \in s.offer : SameOffer(s, o)
    BY DEF Tables, SameOffer
  <1>. HIDE DEF n
  <1>5. \A o \in n.offer : SameOffer(s, o)
    BY <1>1, <1>2, <1>3, <1>4
  <1>6. IsFiniteSet(n.offer)
    <2>. DEFINE due == Due(s, ts)
                back == AbandonedOffers(s, ts)
                ended == [o \in due |-> [o EXCEPT !.status = "expired"]]
                given == [o \in back |-> [o EXCEPT !.status = "pending"]]
    <2>1. due \subseteq s.offer /\ back \subseteq s.offer
      BY DEF Due, AbandonedOffers
    <2>2. n.offer = (s.offer \ (due \cup back)) \cup {ended[o] : o \in due} \cup {given[o] : o \in back}
      BY <1>1
    <2>. HIDE DEF due, back, ended, given
    <2>3. IsFiniteSet(due) /\ IsFiniteSet(back) /\ IsFiniteSet(s.offer \ (due \cup back))
      BY <2>1, FS_Subset DEF Tables
    <2>4. IsFiniteSet({ended[o] : o \in due}) /\ IsFiniteSet({given[o] : o \in back})
      BY <2>3, FiniteImage
    <2>5. IsFiniteSet((s.offer \ (due \cup back)) \cup {ended[o] : o \in due})
      BY <2>3, <2>4, FS_Union
    <2>6. IsFiniteSet((s.offer \ (due \cup back)) \cup {ended[o] : o \in due} \cup {given[o] : o \in back})
      BY <2>4, <2>5, FS_Union
    <2>. QED
      BY <2>2, <2>6
  <1>7. Moves(s, n)
    BY <1>1, <1>5, <1>6, OffersMove
  <1>. QED
    BY <1>7 DEF n

\* Of two entries of a tier one is ahead, and it has fewer entries before it.
LEMMA QueueOrder ==
  ASSUME NEW Q, IsFiniteSet(Q), \A w \in Q : Entry(w), NEW t, \A w \in Q : w.tier = t,
         NEW v \in Q, NEW w \in Q, v # w
  PROVE  \/ Ahead(v, w)
         \/ /\ Ahead(w, v)
            /\ Cardinality({x \in Q : Ahead(x, w)}) <= Cardinality({x \in Q : Ahead(x, v)})
            /\ Cardinality({x \in Q : Ahead(x, w)}) \in Nat /\ Cardinality({x \in Q : Ahead(x, v)}) \in Nat
  <1>1. \A x \in Q : x.user \in Nat /\ x.created_at \in Nat
    BY EnrollmentAssumption DEF Entry, WaitlistRow
  <1>2. v.created_at # w.created_at \/ v.user # w.user
    BY DEF Entry, WaitlistRow
  <1>3. Ahead(v, w) \/ Ahead(w, v)
    BY <1>1, <1>2 DEF Ahead
  <1>4. ASSUME Ahead(w, v) PROVE {x \in Q : Ahead(x, w)} \subseteq {x \in Q : Ahead(x, v)}
    BY <1>1, <1>4 DEF Ahead
  <1>5. IsFiniteSet({x \in Q : Ahead(x, w)}) /\ IsFiniteSet({x \in Q : Ahead(x, v)})
    BY FS_Subset
  <1>. QED
    BY <1>3, <1>4, <1>5, FS_Subset, FS_CardinalityType

\* The offers of a promotion go to the heads of the queues.
LEMMA PromoteMoves ==
  ASSUME NEW s, Tables(s), NEW T, NEW ready, NEW ts
  PROVE  Moves(s, Promote(s, T, ready, ts))
  <1>. DEFINE n == Promote(s, T, ready, ts)
              heads == Promotable(s, T, ready, ts)
  <1>1. /\ DOMAIN n = DbFields /\ n.waitlist = s.waitlist \ heads /\ n.purchase = s.purchase
        /\ n.offer = s.offer \cup {PromotedOffer(s, w, ts) : w \in heads}
    BY PromoteFields DEF Tables
  <1>2. \A w \in heads : /\ w \in s.waitlist
                         /\ DOMAIN PromotedOffer(s, w, ts) = OfferFields
                         /\ PromotedOffer(s, w, ts).user = w.user /\ PromotedOffer(s, w, ts).tier = w.tier
    BY DEF Promotable, PromotedOffer, NewOffer, OfferFields
  <1>3. ASSUME NEW v \in heads, NEW w \in s.waitlist \ heads, w.tier = v.tier PROVE Ahead(v, w)
    <2>. DEFINE Q == {x \in s.waitlist : x.tier = w.tier}
                k == SeatsTotal[w.tier] - Allocated(s, w.tier, ts)
                before(y) == {x \in s.waitlist : x.tier = y.tier /\ Ahead(x, y)}
    <2>1. v \in s.waitlist /\ Cardinality(before(v)) < k /\ ~(Cardinality(before(w)) < k)
      BY <1>3 DEF Promotable
    <2>2. before(v) = {x \in Q : Ahead(x, v)} /\ before(w) = {x \in Q : Ahead(x, w)}
      BY <1>3
    <2>3. IsFiniteSet(Q) /\ (\A x \in Q : Entry(x)) /\ (\A x \in Q : x.tier = w.tier) /\ v \in Q /\ w \in Q /\ v # w
      BY <1>3, <2>1, FS_Subset DEF Tables
    <2>. HIDE DEF Q, before, heads
    <2>4. SeatsTotal[w.tier] \in Nat
      BY <1>3, EnrollmentAssumption DEF Tables, Entry, WaitlistRow
    <2>5. k \in Int
      BY <2>4, AllocatedFinite DEF Tables
    <2>. HIDE DEF k
    <2>6. \/ Ahead(v, w)
          \/ /\ Cardinality(before(w)) <= Cardinality(before(v))
             /\ Cardinality(before(w)) \in Nat /\ Cardinality(before(v)) \in Nat
      BY <2>2, <2>3, QueueOrder
    <2>7. Cardinality(before(v)) < k /\ ~(Cardinality(before(w)) < k)
      BY <2>1
    <2>. QED
      BY <2>5, <2>6, <2>7
  <1>. HIDE DEF n, heads
  <1>4. IsFiniteSet(n.waitlist) /\ IsFiniteSet(n.offer)
    <2>. DEFINE f == [w \in heads |-> PromotedOffer(s, w, ts)]
    <2>1. IsFiniteSet(heads) /\ IsFiniteSet(s.waitlist \ heads)
      BY <1>2, FS_Subset DEF Tables
    <2>2. IsFiniteSet({f[w] : w \in heads})
      BY <2>1, FiniteImage
    <2>3. {f[w] : w \in heads} = {PromotedOffer(s, w, ts) : w \in heads}
      OBVIOUS
    <2>. HIDE DEF f
    <2>4. IsFiniteSet(s.offer \cup {f[w] : w \in heads})
      BY <2>2, FS_Union DEF Tables
    <2>. QED
      BY <1>1, <2>1, <2>3, <2>4
  <1>5. Tables(n)
    BY <1>1, <1>2, <1>4 DEF Tables
  <1>6. ASSUME NEW t, NEW key \in PromisedOf(n, t) \ PromisedOf(s, t) PROVE InTurn(s, n, t, key)
    <2>1. PICK o \in n.offer : o.tier = t /\ o.status \in ActiveOffer /\ key = <<o.user, "offer", o.id>>
      BY <1>1, <1>6 DEF PromisedOf, SeatKeys
    <2>2. o \notin s.offer
      BY <1>6, <2>1 DEF PromisedOf, SeatKeys
    <2>3. PICK v \in heads : o = PromotedOffer(s, v, ts)
      BY <1>1, <2>1, <2>2
    <2>4. v \in s.waitlist /\ v.user = key[1] /\ v.tier = t
      BY <1>2, <2>1, <2>3
    <2>. QED
      BY <1>1, <1>3, <2>3, <2>4 DEF InTurn
  <1>7. Moves(s, n)
    BY <1>1, <1>5, <1>6 DEF Moves, Turn
  <1>. QED
    BY <1>7 DEF n


LEMMA ReconcileMoves ==
  ASSUME NEW s, Tables(s), NEW T, NEW ready, NEW ts
  PROVE  Moves(s, Reconcile(s, T, ready, ts))
  <1>. DEFINE a == ExpireHolds(s, ts)
              b == SettleOffers(a, ts)
              n == Promote(b, T, ready, ts)
  <1>1. Moves(s, a)
    BY ExpireHoldsMoves
  <1>. HIDE DEF a
  <1>2. Moves(a, b)
    BY <1>1, SettleMoves DEF Moves
  <1>. HIDE DEF b
  <1>3. Moves(b, n)
    BY <1>2, PromoteMoves DEF Moves
  <1>. HIDE DEF n
  <1>4. Moves(s, n)
    BY <1>1, <1>2, <1>3, TurnAgain DEF Moves
  <1>. QED
    BY <1>4 DEF Reconcile, a, b, n

\* An entry that a reconciliation takes off the queue has an offer.
LEMMA LeftWithOffer ==
  ASSUME NEW s, Tables(s), NEW T, NEW ready, NEW ts,
         NEW w \in s.waitlist, w \notin Reconcile(s, T, ready, ts).waitlist
  PROVE  \E o \in Reconcile(s, T, ready, ts).offer : o.user = w.user /\ o.status \in ActiveOffer
  <1>. DEFINE a == ExpireHolds(s, ts)
              b == SettleOffers(a, ts)
              n == Promote(b, T, ready, ts)
              heads == Promotable(b, T, ready, ts)
  <1>1. Moves(s, a) /\ a.waitlist = s.waitlist
    BY ExpireHoldsMoves, ExpireFields DEF ExpireHolds, Tables
  <1>. HIDE DEF a
  <1>2. DOMAIN b = DbFields /\ b.waitlist = s.waitlist
    BY <1>1, SettleFields DEF Moves, Tables
  <1>. HIDE DEF b
  <1>3. n.waitlist = b.waitlist \ heads /\ n.offer = b.offer \cup {PromotedOffer(b, v, ts) : v \in heads}
    BY <1>2, PromoteFields
  <1>4. n = Reconcile(s, T, ready, ts)
    BY DEF Reconcile, a, b
  <1>5. w \in heads
    BY <1>2, <1>3, <1>4
  <1>6. PromotedOffer(b, w, ts).user = w.user /\ PromotedOffer(b, w, ts).status \in ActiveOffer
    BY DEF PromotedOffer, NewOffer, ActiveOffer
  <1>. HIDE DEF n, heads
  <1>. QED
    BY <1>3, <1>4, <1>5, <1>6

LEMMA ReconcilePurchases ==
  ASSUME NEW s, Tables(s), NEW T, NEW ready, NEW ts
  PROVE  Reconcile(s, T, ready, ts).purchase = ExpireHolds(s, ts).purchase
  <1>. DEFINE a == ExpireHolds(s, ts)
              b == SettleOffers(a, ts)
  <1>1. DOMAIN a = DbFields
    BY ExpireHoldsMoves DEF Moves, Tables
  <1>. HIDE DEF a
  <1>2. DOMAIN b = DbFields /\ b.purchase = a.purchase
    BY <1>1, SettleFields
  <1>. HIDE DEF b
  <1>3. Promote(b, T, ready, ts).purchase = b.purchase
    BY <1>2, PromoteFields
  <1>. QED
    BY <1>2, <1>3 DEF Reconcile, a, b

\* After a promotion a queue is left only where no seat is.
LEMMA PromotedFull ==
  ASSUME NEW s, Good(s), Ledger(s), NEW T, NEW ready, NEW ts \in Nat, PromotionOpen(ts),
         NEW n, n = Promote(s, T, ready, ts), Shape(n),
         NEW w \in n.waitlist, w.tier \in T \cap Public, Price[w.tier] = 0 \/ ready
  PROVE  ~(Allocated(n, w.tier, ts) < SeatsTotal[w.tier])
  <1>. DEFINE heads == Promotable(s, T, ready, ts)
              Q == {v \in s.waitlist : v.tier = w.tier}
              mine == {v \in heads : v.tier = w.tier}
              left == Q \ mine
              k == SeatsTotal[w.tier] - Allocated(s, w.tier, ts)
              f == [v \in mine |-> <<v.user, "offer", NextId(s.offer, v.user)>>]
              new == {f[v] : v \in mine}
              old == AllocatedOf(s, w.tier, ts)
  <1>1. /\ DOMAIN s = DbFields /\ n.waitlist = s.waitlist \ heads /\ n.purchase = s.purchase
        /\ n.offer = s.offer \cup {PromotedOffer(s, v, ts) : v \in heads}
    BY PromoteFields DEF Good, Shape
  <1>2. IsFiniteSet(Q) /\ (\A v \in Q : Entry(v)) /\ w \in left /\ mine \subseteq Q
    BY <1>1, FS_Subset DEF Good, Shape, Promotable
  <1>3. IsFiniteSet(left) /\ IsFiniteSet(mine) /\ left \subseteq Q
    BY <1>2, FS_Subset
  <1>4. PICK v \in left : {x \in left : Ahead(x, v)} = {}
    BY <1>2, <1>3, FrontOfQueue
  <1>5. {x \in s.waitlist : x.tier = v.tier /\ Ahead(x, v)} \subseteq mine
    BY <1>4
  <1>6. SeatsTotal[w.tier] \in Nat /\ old = AllocatedOf(s, w.tier, ts) /\ IsFiniteSet(old)
        /\ Allocated(s, w.tier, ts) = Cardinality(old) /\ Cardinality(old) \in Nat
    BY AllocatedCounts, EnrollmentAssumption DEF Good
  <1>7. ~(Cardinality({x \in s.waitlist : x.tier = v.tier /\ Ahead(x, v)}) < k)
    <2>1. v \in s.waitlist /\ v.tier = w.tier /\ v \notin heads
      BY <1>4
    <2>. QED
      BY <2>1 DEF Promotable
  <1>8. Cardinality(mine) \in Nat /\ Cardinality(mine) >= k
    <2>. DEFINE before == {x \in s.waitlist : x.tier = v.tier /\ Ahead(x, v)}
    <2>1. Cardinality(before) <= Cardinality(mine) /\ Cardinality(before) \in Nat /\ Cardinality(mine) \in Nat
      BY <1>3, <1>5, FS_Subset, FS_CardinalityType
    <2>2. ~(Cardinality(before) < k) /\ k \in Int
      BY <1>6, <1>7
    <2>. HIDE DEF before, k, mine
    <2>. QED
      BY <2>1, <2>2
  <1>9. IsFiniteSet(new) /\ Cardinality(new) = Cardinality(mine)
    <2>1. \A x, y \in mine : f[x] = f[y] => x = y
      BY DEF Promotable, Ledger
    <2>. HIDE DEF f, mine
    <2>. QED
      BY <1>3, <2>1, InjectiveImage
  <1>10. old \cap new = {}
    <2>. SUFFICES ASSUME NEW x \in mine, f[x] \in old PROVE FALSE
      OBVIOUS
    <2>1. \A o \in s.offer : o.user = x.user => o.id # NextId(s.offer, x.user)
      BY NextIdFresh DEF Good, Shape, Ledger
    <2>2. f[x] = <<x.user, "offer", NextId(s.offer, x.user)>>
      OBVIOUS
    <2>3. CASE \E o \in s.offer : f[x] = <<o.user, "offer", o.id>>
      BY <2>1, <2>2, <2>3
    <2>4. CASE \E p \in s.purchase : f[x] = SeatKey(p)
      <3>1. PICK p \in s.purchase : f[x] = SeatKey(p)
        BY <2>4
      <3>2. p.offer # 0 /\ p.user = x.user /\ p.offer = NextId(s.offer, x.user)
        BY <2>2, <3>1 DEF SeatKey
      <3>. QED
        BY <2>1, <3>2 DEF Good, Linked, HasOffer
    <2>. QED
      BY <2>3, <2>4 DEF AllocatedOf, SeatKeys
  <1>11. old \cup new \subseteq AllocatedOf(n, w.tier, ts)
    <2>1. old \subseteq AllocatedOf(n, w.tier, ts)
      BY <1>1 DEF AllocatedOf, SeatKeys
    <2>2. ASSUME NEW x \in mine PROVE f[x] \in AllocatedOf(n, w.tier, ts)
      <3>. DEFINE o == PromotedOffer(s, x, ts)
      <3>1. o \in n.offer /\ o.tier = w.tier /\ o.expires > ts
        BY <1>1, PromotedLive
      <3>2. o.status \in ActiveOffer /\ f[x] = <<o.user, "offer", o.id>>
        BY DEF PromotedOffer, NewOffer, ActiveOffer
      <3>. HIDE DEF o
      <3>. QED
        BY <3>1, <3>2 DEF AllocatedOf, SeatKeys, LiveOffer
    <2>. QED
      BY <2>1, <2>2
  <1>. HIDE DEF old, new, mine, heads, Q, left
  <1>12. Cardinality(old \cup new) = Cardinality(old) + Cardinality(mine) /\ IsFiniteSet(old \cup new)
    <2>1. Cardinality(old \cap new) = 0 /\ Cardinality(new) \in Nat
      BY <1>9, <1>10, FS_EmptySet, FS_CardinalityType
    <2>2. IsFiniteSet(old \cup new)
          /\ Cardinality(old \cup new) = Cardinality(old) + Cardinality(new) - Cardinality(old \cap new)
      BY <1>6, <1>9, FS_Union
    <2>3. Cardinality(old) \in Nat
      BY <1>6
    <2>. QED
      BY <1>9, <2>1, <2>2, <2>3
  <1>13. Allocated(n, w.tier, ts) >= Cardinality(old) + Cardinality(mine) /\ Allocated(n, w.tier, ts) \in Nat
    BY <1>11, <1>12, AllocatedCounts, FS_Subset, FS_CardinalityType
  <1>. QED
    BY <1>6, <1>8, <1>13


LEMMA GoodTables ==
  ASSUME NEW s, Good(s)
  PROVE  Tables(s)
  BY DEF Good, Shape, Offered, Bought, Tables

LEMMA WriteTurn ==
  ASSUME NEW n, Write(n), Turn(Db, n)
  PROVE  QueueStep
  <1>1. waitlist' = n.waitlist /\ offer' = n.offer /\ purchase' = n.purchase
    BY DEF Write
  <1>2. ASSUME NEW w \in waitlist \cap waitlist', PromotionOpen(now), NEW key \in Promised(w.tier)' \ Promised(w.tier)
        PROVE  \E v \in waitlist : v.user = key[1] /\ v.tier = w.tier /\ Ahead(v, w)
    <2>1. Promised(w.tier)' = PromisedOf(n, w.tier) /\ Promised(w.tier) = PromisedOf(Db, w.tier)
      BY <1>1, DbTables DEF Promised, PromisedOf
    <2>2. InTurn(Db, n, w.tier, key)
      BY <1>2, <2>1 DEF Turn
    <2>. QED
      BY <1>1, <1>2, <2>2, DbTables DEF InTurn
  <1>. QED
    BY <1>2 DEF QueueStep

\* A step that gives no seat away.
LEMMA FewerGiven ==
  ASSUME \A t : Promised(t)' \subseteq Promised(t)
  PROVE  QueueStep
  BY DEF QueueStep

\* After a reconciliation a step gives no other seat away.
LEMMA NothingElse ==
  ASSUME NEW s, NEW r, Turn(s, r), NEW n, n.waitlist \subseteq r.waitlist,
         \A t : PromisedOf(n, t) \subseteq PromisedOf(r, t) \cup PromisedOf(s, t)
  PROVE  Turn(s, n)
  <1>1. ASSUME PromotionOpen(now), NEW t, NEW key \in PromisedOf(n, t) \ PromisedOf(s, t) PROVE InTurn(s, n, t, key)
    BY <1>1 DEF Turn, InTurn
  <1>. QED
    BY <1>1 DEF Turn

LEMMA ReconciledMoves ==
  ASSUME EnrollmentInv, NEW T, NEW ready, NEW ts
  PROVE  Tables(Db) /\ Moves(Db, Reconcile(Db, T, ready, ts))
  BY GoodTables, ReconcileMoves DEF EnrollmentInv

LEMMA MovesAgain ==
  ASSUME NEW s, NEW m, NEW n, Moves(s, m), Moves(m, n)
  PROVE  Moves(s, n)
  BY TurnAgain DEF Moves

LEMMA ExpireOneTurn ==
  ASSUME EnrollmentInv, NEW p \in purchase, NEW ts \in Nat, Write(ExpireOne(p, ts))
  PROVE  QueueStep
  <1>. DEFINE r == Reconcile(Db, {p.tier}, ProviderReady, ts)
              q == Row(r.purchase, p.user, p.id)
              e == Expire(r, {q}, ts)
              n == Reconcile(e, {p.tier}, ProviderReady, ts)
  <1>1. ExpireOne(p, ts) = IF q.status = "pending" THEN n ELSE r
    BY DEF ExpireOne
  <1>2. Moves(Db, r)
    BY ReconciledMoves
  <1>3. \E x \in r.purchase : x.user = p.user /\ x.id = p.id
    <2>1. \E x \in ExpireHolds(Db, ts).purchase : x.user = p.user /\ x.id = p.id
      BY ExpireHoldsGood, DbTables DEF EnrollmentInv
    <2>. QED
      BY <2>1, ReconciledMoves, ReconcilePurchases
  <1>. HIDE DEF r
  <1>4. q \in r.purchase
    BY <1>3, RowOf
  <1>. HIDE DEF q
  <1>5. Moves(r, e)
    BY <1>2, <1>4, ExpireMoves DEF Moves
  <1>. HIDE DEF e
  <1>6. Moves(e, n)
    BY <1>5, ReconcileMoves DEF Moves
  <1>. HIDE DEF n
  <1>7. Moves(Db, n)
    BY <1>2, <1>5, <1>6, MovesAgain
  <1>. QED
    BY <1>1, <1>2, <1>7, WriteTurn DEF Moves

LEMMA ReconcileNextTurn ==
  ASSUME EnrollmentInv, ReconcileNext
  PROVE  QueueStep
  BY ReconciledMoves, WriteTurn DEF ReconcileNext, Commit, Moves

LEMMA LeaveAttendanceTurn ==
  ASSUME EnrollmentInv, NEW u, NEW ts, LeaveAttendance(u, ts)
  PROVE  QueueStep
  <1>. DEFINE a == SetAttendance(Db, Of(attendee, u), "attendance-canceled")
  <1>1. PICK p \in Attending(Db, u) : Write(Reconcile(RefundFree(a, p), {p.tier}, ProviderReady, ts))
    BY DEF LeaveAttendance, Commit
  <1>. DEFINE b == RefundFree(a, p)
              n == Reconcile(b, {p.tier}, ProviderReady, ts)
  <1>2. Tables(Db)
    BY ReconciledMoves
  <1>3. DOMAIN a = DbFields /\ a.purchase = purchase /\ a.waitlist = waitlist /\ a.offer = offer
    BY AttendanceFields, DbTables
  <1>. HIDE DEF a
  <1>4. Moves(Db, a)
    BY <1>2, <1>3, DbTables, SamePurchases
  <1>5. DOMAIN b = DbFields /\ b.waitlist = a.waitlist /\ b.offer = a.offer
        /\ b.purchase = Replace(a.purchase, p, RefundedFree(p))
    BY <1>3, RefundFreeFields
  <1>6. SameSeat(a, RefundedFree(p))
    <2>1. DOMAIN p = PurchaseFields
      BY <1>2, DbTables DEF Attending, Of, Tables
    <2>2. DOMAIN RefundedFree(p) = PurchaseFields /\ RefundedFree(p).status = "refunded"
      BY <2>1 DEF RefundedFree, PurchaseFields
    <2>. QED
      BY <2>2 DEF SameSeat, Committed
  <1>. HIDE DEF b
  <1>7. Moves(a, b)
    BY <1>4, <1>5, <1>6, RowMoves DEF Moves
  <1>8. Moves(b, n)
    BY <1>7, ReconcileMoves DEF Moves
  <1>9. Write(n)
    BY <1>1 DEF b
  <1>. HIDE DEF n
  <1>10. Moves(Db, n)
    BY <1>4, <1>7, <1>8, MovesAgain
  <1>. QED
    BY <1>9, <1>10, WriteTurn DEF Moves

LEMMA LeaveWaitlistTurn ==
  ASSUME NEW u, NEW ts, LeaveWaitlist(u, ts)
  PROVE  QueueStep
  <1>. DEFINE n == [Db EXCEPT !.waitlist = @ \ Of(@, u)]
  <1>1. Write(n) /\ n.offer = offer /\ n.purchase = purchase
    BY DbTables DEF LeaveWaitlist, Commit, DbFields
  <1>. HIDE DEF n
  <1>2. offer' = offer /\ purchase' = purchase
    BY <1>1 DEF Write
  <1>. QED
    BY <1>2, FewerGiven DEF Promised

LEMMA CheckoutConflictTurn ==
  ASSUME EnrollmentInv, NEW t, NEW ts, NEW ready, NEW r, r = Reconcile(Db, {t}, ready, ts),
         NEW u, NEW id, NEW code, CheckoutConflict(r, u, t, id, code, ts)
  PROVE  QueueStep
  BY ReconciledMoves, WriteTurn DEF CheckoutConflict, Commit, Moves

LEMMA AnswersFields ==
  ASSUME NEW s, DOMAIN s = DbFields, NEW u
  PROVE  /\ UpsertAnswers(s, u).waitlist = s.waitlist
         /\ UpsertAnswers(s, u).offer = s.offer /\ UpsertAnswers(s, u).purchase = s.purchase
  BY DEF UpsertAnswers, SetAttendance, Require, DbFields

LEMMA ReuseCheckoutTurn ==
  ASSUME EnrollmentInv, NEW t, NEW ts, NEW ready, NEW r, r = Reconcile(Db, {t}, ready, ts),
         NEW u, NEW id, NEW code, ReuseCheckout(r, u, t, id, code, ts)
  PROVE  QueueStep
  <1>. DEFINE n == UpsertAnswers(r, u)
  <1>1. Write(n) /\ Moves(Db, r)
    BY ReconciledMoves DEF ReuseCheckout, Commit
  <1>2. n.waitlist = r.waitlist /\ n.offer = r.offer /\ n.purchase = r.purchase /\ DOMAIN n = DbFields
    BY <1>1, AnswersFields, UpsertFields DEF Moves, Tables
  <1>. HIDE DEF n
  <1>3. Moves(r, n)
    BY <1>1, <1>2, SamePurchases DEF Moves
  <1>. QED
    BY <1>1, <1>3, MovesAgain, WriteTurn DEF Moves


LEMMA RowTurn ==
  ASSUME EnrollmentInv, NEW p, NEW q, SameSeat(Db, q), purchase' = Replace(purchase, p, q), offer' = offer
  PROVE  QueueStep
  <1>1. \A t : Promised(t)' \subseteq Promised(t)
    BY DbTables DEF Promised, SeatKeys, SameSeat, Replace
  <1>. QED
    BY <1>1, FewerGiven

\* The sale that a purchase stands for stays; it is not promised again.
LEMMA SaleSeat ==
  ASSUME NEW s, NEW p \in s.purchase, NEW q, SameSale(p, q), Committed(q) => Committed(p)
  PROVE  SameSeat(s, q)
  <1>1. SeatKey(p) = SeatKey(q)
    BY DEF SameSale, SeatKey
  <1>. QED
    BY <1>1 DEF SameSale, SameSeat

LEMMA SessionStepsTurn ==
  ASSUME EnrollmentInv, NEW p \in purchase, AttachSession(p) \/ PayCheckout(p) \/ SessionExpires(p)
  PROVE  QueueStep
  <1>1. PICK session : SetSession(p, session)
    BY DEF AttachSession, PayCheckout, SessionExpires
  <1>. DEFINE q == [p EXCEPT !.session = session]
  <1>2. DOMAIN p = PurchaseFields
    BY DbTables DEF EnrollmentInv, Good, Shape, Bought
  <1>3. SameSale(p, q) /\ (Committed(q) => Committed(p))
    BY <1>2 DEF SameSale, PurchaseFields, Committed
  <1>4. purchase' = Replace(purchase, p, q) /\ offer' = offer
    BY <1>1 DEF SetSession
  <1>. HIDE DEF q
  <1>. QED
    BY <1>3, <1>4, DbTables, SaleSeat, RowTurn

LEMMA RefundRowsTurn ==
  ASSUME EnrollmentInv, NEW p \in purchase, NEW ts,
         \/ ApproveRefund(p) \/ RejectRefund(p) \/ RefundFails(p)
         \/ RequestRefund(p, ts) \/ CancelAttendance(p, ts)
  PROVE  QueueStep
  <1>1. DOMAIN p = PurchaseFields
    BY DbTables DEF EnrollmentInv, Good, Shape, Bought
  <1>2. \E q : /\ SetPurchase(p, q) /\ SameSale(p, q)
               /\ Committed(q) => Committed(p)
    <2>1. CASE ApproveRefund(p)
      <3>. DEFINE q == [p EXCEPT !.request = "approving", !.refund = "refund-request-approval", !.job = "queued"]
      <3>1. SetPurchase(p, q) /\ p.status = "refund-requested"
        BY <2>1 DEF ApproveRefund
      <3>2. SameSale(p, q) /\ (Committed(q) => Committed(p))
        BY <1>1, <3>1 DEF SameSale, PurchaseFields, Committed
      <3>. QED
        BY <3>1, <3>2
    <2>2. CASE RejectRefund(p)
      <3>. DEFINE q == [p EXCEPT !.status = "completed", !.request = "rejected"]
      <3>1. SetPurchase(p, q) /\ p.status = "refund-requested"
        BY <2>2 DEF RejectRefund
      <3>2. SameSale(p, q) /\ (Committed(q) => Committed(p))
        BY <1>1, <3>1 DEF SameSale, PurchaseFields, Committed
      <3>. QED
        BY <3>1, <3>2
    <2>3. CASE RefundFails(p)
      <3>. DEFINE q == [p EXCEPT !.job = "failed", !.status = IF p.finalized THEN "refund-recovery-pending" ELSE @]
      <3>1. SetPurchase(p, q)
        BY <2>3 DEF RefundFails
      <3>2. SameSale(p, q) /\ (Committed(q) => Committed(p))
        BY <1>1 DEF SameSale, PurchaseFields, Committed
      <3>. QED
        BY <3>1, <3>2
    <2>4. CASE RequestRefund(p, ts)
      <3>. DEFINE q == [p EXCEPT !.status = "refund-requested", !.request = "pending"]
      <3>1. SetPurchase(p, q) /\ p.status = "completed"
        BY <2>4 DEF RequestRefund
      <3>2. SameSale(p, q) /\ (Committed(q) => Committed(p))
        BY <1>1, <3>1 DEF SameSale, PurchaseFields, Committed
      <3>. QED
        BY <3>1, <3>2
    <2>5. CASE CancelAttendance(p, ts)
      <3>. DEFINE q == [p EXCEPT !.status = "refund-requested", !.request = "approving",
                                 !.refund = "attendance-cancellation", !.job = "queued"]
      <3>1. SetPurchase(p, q) /\ p.status \in {"completed", "refund-requested"}
        BY <2>5 DEF CancelAttendance, Attending
      <3>2. SameSale(p, q) /\ (Committed(q) => Committed(p))
        BY <1>1, <3>1 DEF SameSale, PurchaseFields, Committed
      <3>. QED
        BY <3>1, <3>2
    <2>. QED
      BY <2>1, <2>2, <2>3, <2>4, <2>5
  <1>3. PICK q : SetPurchase(p, q) /\ SameSale(p, q) /\ (Committed(q) => Committed(p))
    BY <1>2
  <1>4. purchase' = Replace(purchase, p, q) /\ offer' = offer
    BY <1>3 DEF SetPurchase
  <1>. QED
    BY <1>3, <1>4, DbTables, SaleSeat, RowTurn

LEMMA EndAttendanceMoves ==
  ASSUME NEW s, Tables(s), NEW p
  PROVE  Moves(s, EndAttendance(s, p))
  BY AttendanceFields, SamePurchases DEF EndAttendance, Tables

LEMMA RefundedMoves ==
  ASSUME NEW s, Tables(s), NEW p, DOMAIN p = PurchaseFields, NEW job
  PROVE  Moves(s, Refunded(s, p, job))
  <1>1. SameSeat(s, FinalRow(p, job))
    <2>1. DOMAIN FinalRow(p, job) = PurchaseFields /\ FinalRow(p, job).status = "refunded"
      BY DEF FinalRow, PurchaseFields
    <2>. QED
      BY <2>1 DEF SameSeat, Committed
  <1>2. Tables(s) /\ DOMAIN s = DbFields
    BY DEF Tables
  <1>. DEFINE n == Refunded(s, p, job)
  <1>3. DOMAIN n = DbFields /\ n.waitlist \subseteq s.waitlist /\ n.offer = s.offer
        /\ n.purchase = Replace(s.purchase, p, FinalRow(p, job))
    BY <1>2, RefundedFields
  <1>. HIDE DEF n
  <1>4. Moves(s, n)
    BY <1>1, <1>2, <1>3, RowMoves
  <1>. QED
    BY <1>4 DEF n

LEMMA ReturnCodeMoves ==
  ASSUME NEW s, Tables(s), NEW p
  PROVE  Moves(s, ReturnCode(s, p))
  BY ReturnCodeFields, SamePurchases DEF Tables

LEMMA FinalizeRefundTurn ==
  ASSUME EnrollmentInv, NEW p \in purchase, NEW ts, FinalizeRefund(p, ts)
  PROVE  QueueStep
  <1>. DEFINE r == Reconcile(Db, {p.tier}, ProviderReady, ts)
              e == EndAttendance(r, p)
              f == Refunded(e, p, "finalized")
              c == ReturnCode(f, p)
              n == Reconcile(c, {p.tier}, ProviderReady, ts)
  <1>1. Write(n) /\ DOMAIN p = PurchaseFields
    BY DbTables DEF FinalizeRefund, Commit, Finalized, EnrollmentInv, Good, Shape, Bought
  <1>2. Moves(Db, r)
    BY ReconciledMoves
  <1>. HIDE DEF r
  <1>3. Moves(r, e)
    BY <1>2, EndAttendanceMoves DEF Moves
  <1>. HIDE DEF e
  <1>4. Moves(e, f)
    BY <1>1, <1>3, RefundedMoves DEF Moves
  <1>. HIDE DEF f
  <1>5. Moves(f, c)
    BY <1>4, ReturnCodeMoves DEF Moves
  <1>. HIDE DEF c
  <1>6. Moves(c, n)
    BY <1>5, ReconcileMoves DEF Moves
  <1>. HIDE DEF n
  <1>7. Moves(Db, n)
    BY <1>2, <1>3, <1>4, <1>5, <1>6, MovesAgain
  <1>. QED
    BY <1>1, <1>7, WriteTurn DEF Moves

LEMMA CompleteRecoveryTurn ==
  ASSUME EnrollmentInv, NEW p \in purchase, NEW ts, CompleteRecovery(p, ts)
  PROVE  QueueStep
  <1>. DEFINE r == Reconcile(Db, {p.tier}, ProviderReady, ts)
              ends == p.refund \in {"attendance-cancellation", "refund-request-approval"}
              e == IF ends THEN EndAttendance(r, p) ELSE r
              f == Refunded(e, p, "recovered")
              g == Refunded(r, p, "recovered")
              c == IF p.finalized THEN g ELSE ReturnCode(f, p)
              n == Reconcile(c, {p.tier}, ProviderReady, ts)
  <1>1. Write(n) /\ DOMAIN p = PurchaseFields
    BY DbTables DEF CompleteRecovery, Commit, Recovered, EnrollmentInv, Good, Shape, Bought
  <1>2. Moves(Db, r) /\ Tables(r)
    BY ReconciledMoves DEF Moves
  <1>. HIDE DEF r
  <1>3. Moves(r, EndAttendance(r, p)) /\ Moves(r, g)
    BY <1>1, <1>2, EndAttendanceMoves, RefundedMoves
  <1>4. Moves(Db, e)
    BY <1>2, <1>3, MovesAgain
  <1>. HIDE DEF e
  <1>5. Moves(e, f)
    BY <1>1, <1>4, RefundedMoves DEF Moves
  <1>. HIDE DEF f, g
  <1>6. Moves(f, ReturnCode(f, p))
    BY <1>5, ReturnCodeMoves DEF Moves
  <1>7. Moves(Db, c)
    BY <1>2, <1>3, <1>4, <1>5, <1>6, MovesAgain
  <1>. HIDE DEF c
  <1>8. Moves(c, n)
    BY <1>7, ReconcileMoves DEF Moves
  <1>. HIDE DEF n
  <1>9. Moves(Db, n)
    BY <1>7, <1>8, MovesAgain
  <1>. QED
    BY <1>1, <1>9, WriteTurn DEF Moves

\* The cancellation of the event closes every queue.
LEMMA CancelEventTurn ==
  ASSUME EnrollmentInv, NEW ts, CancelEvent(ts)
  PROVE  QueueStep
  <1>. DEFINE x == Expire(Db, {p \in Db.purchase : p.status = "pending"}, ts)
              closed == CloseEnrollment(Db, ts)
              v == Vacated(Db, ts)
  <1>1. DOMAIN closed = DbFields /\ closed.waitlist = {}
    <2>1. DOMAIN x = DbFields
      BY DbTables, ExpireFields
    <2>. HIDE DEF x
    <2>2. \A rows, active : [x EXCEPT !.offer = rows, !.waitlist = {}, !.ok = active].waitlist = {}
      BY <2>1 DEF DbFields
    <2>. QED
      BY <2>1 DEF CloseEnrollment, Require, DbFields, x
  <1>2. DOMAIN v = DbFields /\ v.waitlist = {}
    BY <1>1, AttendanceFields DEF Vacated
  <1>. HIDE DEF v
  <1>3. \E rows, units : Write([v EXCEPT !.purchase = rows, !.available = units])
    BY DEF CancelEvent, v, Vacated
  <1>4. waitlist' = {}
    BY <1>2, <1>3 DEF Write, DbFields
  <1>. QED
    BY <1>4 DEF QueueStep


LEMMA ReleaseOfferTurn ==
  ASSUME EnrollmentInv, NEW o \in offer, NEW ts \in Nat, ReleaseOffer(o, ts)
  PROVE  QueueStep
  <1>. DEFINE r == Reconcile(Db, {o.tier}, ProviderReady, ts)
              held == Row(r.offer, o.user, o.id)
              linked == {p \in Of(r.purchase, held.user) : p.offer = held.id /\ p.status = "pending"}
              x == Expire(r, linked, ts)
              m == [x EXCEPT !.offer = Replace(@, held, [held EXCEPT !.status = "released"])]
              n == Reconcile(m, {o.tier}, ProviderReady, ts)
  <1>1. Write(n)
    BY DEF ReleaseOffer, Commit, Released
  <1>2. Moves(Db, r) /\ Tables(r)
    BY ReconciledMoves DEF Moves
  <1>3. r.ok => \E o1 \in r.offer : o1.user = o.user /\ o1.id = o.id
    BY ReconciledDb
  <1>4. linked \subseteq r.purchase
    BY DEF Of
  <1>. HIDE DEF r, linked
  <1>5. Moves(r, x) /\ x.offer = r.offer /\ x.ok = r.ok
    BY <1>2, <1>4, ExpireMoves, ExpireFields DEF Tables
  <1>. HIDE DEF x, held
  <1>6. /\ DOMAIN m = DbFields /\ m.waitlist = x.waitlist /\ m.purchase = x.purchase /\ m.ok = x.ok
        /\ m.offer = Replace(x.offer, held, [held EXCEPT !.status = "released"])
    BY <1>5 DEF Moves, Tables, DbFields
  <1>. HIDE DEF m
  <1>7. r.ok
    BY <1>1, <1>5, <1>6, ReconcileFields DEF Write
  <1>8. held \in r.offer
    BY <1>3, <1>7, RowOf DEF held
  <1>9. \A o1 \in m.offer : SameOffer(x, o1)
    <2>1. SameOffer(x, [held EXCEPT !.status = "released"])
      BY <1>2, <1>8 DEF Tables, SameOffer, OfferFields, ActiveOffer
    <2>2. \A o1 \in x.offer : SameOffer(x, o1)
      BY <1>5 DEF Moves, Tables, SameOffer
    <2>. QED
      BY <1>6, <2>1, <2>2 DEF Replace
  <1>10. IsFiniteSet(m.offer)
    <2>1. IsFiniteSet((x.offer \ {held}) \cup {[held EXCEPT !.status = "released"]})
      BY <1>5, FS_RemoveElement, FS_AddElement DEF Moves, Tables
    <2>. QED
      BY <1>6, <2>1 DEF Replace
  <1>11. Moves(x, m)
    BY <1>5, <1>6, <1>9, <1>10, OffersMove DEF Moves
  <1>12. Moves(m, n)
    BY <1>11, ReconcileMoves DEF Moves
  <1>. HIDE DEF n
  <1>13. Moves(Db, n)
    BY <1>2, <1>5, <1>11, <1>12, MovesAgain
  <1>. QED
    BY <1>1, <1>13, WriteTurn DEF Moves

\* A user who queues takes no seat, and the entry is new: an older one of the
\* same user either stays as it is or was promoted.
LEMMA AttendEventTurn ==
  ASSUME EnrollmentInv, NEW u, NEW t, NEW ts, AttendEvent(u, t, ts)
  PROVE  QueueStep
  <1>. DEFINE r == Reconcile(Db, Tiers, FALSE, ts)
              holds == {p \in Of(r.purchase, u) : LivePending(p, ts)}
              stays == \/ holds # {} \/ Allocated(r, t, ts) < SeatsTotal[t] \/ ~WaitlistEnabled
                       \/ \E w \in Of(r.waitlist, u) : w.tier = t
              j == JoinWaitlist(r, u, t, ts)
              new == [user |-> u, tier |-> t, created_at |-> ts]
              n == IF stays THEN r ELSE j
  <1>1. Write(n)
    BY DEF AttendEvent, Commit
  <1>2. Tables(Db) /\ Moves(Db, r) /\ Tables(r)
    BY ReconciledMoves DEF Moves
  <1>3. ASSUME NEW w \in waitlist, w \notin r.waitlist PROVE \E o \in r.offer : o.user = w.user /\ o.status \in ActiveOffer
    <2>1. w \in Db.waitlist /\ Tables(Db)
      BY <1>2, DbTables
    <2>2. \A ready : w \notin Reconcile(Db, Tiers, ready, ts).waitlist =>
                        \E o \in Reconcile(Db, Tiers, ready, ts).offer : o.user = w.user /\ o.status \in ActiveOffer
      BY <2>1, LeftWithOffer
    <2>. QED
      BY <1>3, <2>2
  <1>4. CASE stays
    <2>1. n = r
      BY <1>4
    <2>. HIDE DEF n, r, stays
    <2>. QED
      BY <1>1, <1>2, <2>1, WriteTurn DEF Moves
  <1>5. CASE ~stays
    <2>1. n = j /\ \A w \in Of(r.waitlist, u) : w.tier # t
      BY <1>5
    <2>. HIDE DEF n, stays, r
    <2>2. /\ j.offer = r.offer /\ j.purchase = r.purchase
          /\ j.waitlist = (r.waitlist \ Of(r.waitlist, u)) \cup {new}
          /\ j.ok => ActiveOffers(r, u) = {}
      BY <1>2 DEF JoinWaitlist, Require, WaitlistAllowed, ActiveOffers, Tables, DbFields
    <2>. HIDE DEF j
    <2>3. j.ok /\ waitlist' = j.waitlist /\ offer' = j.offer /\ purchase' = j.purchase
      BY <1>1, <2>1 DEF Write
    <2>4. waitlist \cap j.waitlist \subseteq r.waitlist
      <3>. SUFFICES ASSUME new \in waitlist, new \notin r.waitlist PROVE FALSE
        BY <2>2
      <3>1. PICK o \in r.offer : o.user = u /\ o.status \in ActiveOffer
        BY <1>3
      <3>. QED
        BY <2>2, <2>3, <3>1 DEF ActiveOffers, Of
    <2>5. ASSUME NEW w \in waitlist \cap waitlist', PromotionOpen(now), NEW key \in Promised(w.tier)' \ Promised(w.tier)
          PROVE  \E v \in waitlist : v.user = key[1] /\ v.tier = w.tier /\ Ahead(v, w)
      <3>1. Promised(w.tier)' = PromisedOf(r, w.tier) /\ Promised(w.tier) = PromisedOf(Db, w.tier)
        BY <2>2, <2>3, DbTables DEF Promised, PromisedOf
      <3>2. InTurn(Db, r, w.tier, key) /\ w \in r.waitlist
        BY <1>2, <2>3, <2>4, <2>5, <3>1 DEF Moves, Turn
      <3>. QED
        BY <3>2, DbTables DEF InTurn
    <2>. QED
      BY <2>5 DEF QueueStep
  <1>. QED
    BY <1>4, <1>5

\* A completed purchase stands for the seat of the pending one.
LEMMA CompleteGives ==
  ASSUME NEW r, Tables(r), NEW q, DOMAIN q = PurchaseFields, HasOffer(r, q)
  PROVE  /\ Complete(r, q).waitlist = r.waitlist
         /\ \A t : \A key \in PromisedOf(Complete(r, q), t) :
                key \in PromisedOf(r, t) \/ (t = q.tier /\ key = SeatKey(q))
  <1>. DEFINE n == Complete(r, q)
              o == Row(r.offer, q.user, q.offer)
  <1>1. n.waitlist = r.waitlist /\ n.offer = UsedOffers(r, q) /\ n.purchase = Replace(r.purchase, q, CompletedRow(q))
    BY CompleteFields DEF Tables
  <1>2. CompletedRow(q).tier = q.tier /\ SeatKey(CompletedRow(q)) = SeatKey(q)
    BY DEF CompletedRow, SeatKey, PurchaseFields
  <1>3. \A x \in n.offer : x.status \in ActiveOffer => x \in r.offer
    <2>1. q.offer # 0 => o \in r.offer
      BY RowOf DEF HasOffer
    <2>. HIDE DEF o
    <2>2. q.offer # 0 => [o EXCEPT !.status = "completed"].status = "completed"
      BY <2>1 DEF Tables, OfferFields
    <2>3. n.offer = IF q.offer = 0 THEN r.offer ELSE Replace(r.offer, o, [o EXCEPT !.status = "completed"])
      BY <1>1 DEF UsedOffers, o
    <2>. QED
      BY <2>2, <2>3 DEF Replace, ActiveOffer
  <1>. HIDE DEF n
  <1>4. \A x \in n.purchase : x \in r.purchase \/ x = CompletedRow(q)
    BY <1>1 DEF Replace
  <1>5. ASSUME NEW t, NEW key \in PromisedOf(n, t) PROVE key \in PromisedOf(r, t) \/ (t = q.tier /\ key = SeatKey(q))
    BY <1>2, <1>3, <1>4, <1>5 DEF PromisedOf, SeatKeys
  <1>. QED
    BY <1>1, <1>5 DEF n

LEMMA CompleteFreeTurn ==
  ASSUME EnrollmentInv, NEW p \in purchase, NEW ts \in Nat, CompleteFree(p, ts)
  PROVE  QueueStep
  <1>. DEFINE r == Reconcile(Db, {p.tier}, FALSE, ts)
              q == Row(r.purchase, p.user, p.id)
              n == Complete(r, q)
  <1>1. Write(n) /\ q.status = "pending"
    BY DEF CompleteFree, Commit, LivePending
  <1>2. Moves(Db, r) /\ Tables(r)
    BY ReconciledMoves DEF Moves
  <1>3. q \in r.purchase
    <2>1. \E x \in ExpireHolds(Db, ts).purchase : x.user = p.user /\ x.id = p.id
      BY ExpireHoldsGood, DbTables DEF EnrollmentInv
    <2>2. r.purchase = ExpireHolds(Db, ts).purchase
      BY ReconciledMoves, ReconcilePurchases
    <2>3. \E x \in r.purchase : x.user = p.user /\ x.id = p.id
      BY <2>1, <2>2
    <2>. HIDE DEF r
    <2>. QED
      BY <2>3, RowOf
  <1>4. r.ok => Good(r)
    BY ReconciledDb
  <1>. HIDE DEF r, q
  <1>5. HasOffer(r, q) /\ DOMAIN q = PurchaseFields
    <2>1. n.ok /\ DOMAIN r = DbFields
      BY <1>1, <1>2 DEF Write, Tables
    <2>. HIDE DEF n
    <2>2. r.ok
      BY <2>1, CompleteFields DEF n
    <2>. QED
      BY <1>2, <1>3, <1>4, <2>2 DEF Good, Linked, Tables
  <1>6. SeatKey(q) \in PromisedOf(r, q.tier)
    BY <1>1, <1>3 DEF PromisedOf, SeatKeys, Committed
  <1>7. n.waitlist = r.waitlist /\ \A t : PromisedOf(n, t) \subseteq PromisedOf(r, t)
    BY <1>2, <1>5, <1>6, CompleteGives
  <1>. HIDE DEF n
  <1>8. Turn(Db, n)
    BY <1>2, <1>7, NothingElse DEF Moves
  <1>. QED
    BY <1>1, <1>8, WriteTurn


LEMMA AutomaticMoves ==
  ASSUME NEW s, Tables(s), NEW p, DOMAIN p = PurchaseFields, NEW ts
  PROVE  Moves(s, QueueAutomaticRefund(s, p, ts))
  <1>. DEFINE m == [s EXCEPT !.purchase = Replace(@, p, AutomaticRow(p)),
                             !.available = @ + Units(p.status = "pending" /\ p.code)]
              n == ReleaseAttendeeHolds(m, {p.user}, ts)
  <1>1. DOMAIN m = DbFields /\ m.waitlist = s.waitlist /\ m.offer = s.offer
        /\ m.purchase = Replace(s.purchase, p, AutomaticRow(p))
    BY DEF Tables, DbFields
  <1>2. SameSeat(s, AutomaticRow(p))
    <2>1. /\ DOMAIN AutomaticRow(p) = PurchaseFields
          /\ AutomaticRow(p).status = "refund-pending" /\ AutomaticRow(p).refund = "automatic"
      BY DEF AutomaticRow, PurchaseFields
    <2>. QED
      BY <2>1 DEF SameSeat, Committed
  <1>3. n = QueueAutomaticRefund(s, p, ts)
    BY DEF QueueAutomaticRefund, AutomaticRow
  <1>. HIDE DEF m
  <1>4. Moves(s, m)
    BY <1>1, <1>2, RowMoves
  <1>5. DOMAIN n = DbFields /\ n.waitlist = m.waitlist /\ n.offer = m.offer /\ n.purchase = m.purchase
    BY <1>1, ReleaseFields
  <1>. HIDE DEF n
  <1>6. Moves(m, n)
    BY <1>4, <1>5, SamePurchases DEF Moves
  <1>. QED
    BY <1>3, <1>4, <1>6, MovesAgain

LEMMA CheckoutCompletedTurn ==
  ASSUME EnrollmentInv, AccountsInv, NEW p \in purchase, NEW ts \in Nat, CheckoutCompleted(p, ts)
  PROVE  QueueStep
  <1>. DEFINE q == [p EXCEPT !.session = "settled"]
              acked == [Db EXCEPT !.purchase = Replace(@, p, q)]
              refund == \/ p.status = "refund-pending" \/ HoldExpired(p, ts)
                        \/ RecoveryPending(Db, p) \/ Unfulfillable(Db, p, ts)
              settled == IF refund /\ p.status # "refund-pending" THEN QueueAutomaticRefund(acked, q, ts) ELSE acked
              r == Reconcile(settled, {p.tier}, ProviderReady, ts)
              n == IF ~Reconcilable(p, ts) THEN acked ELSE IF refund THEN r ELSE Complete(r, q)
  <1>1. Write(n)
    BY DEF CheckoutCompleted, Commit
  <1>2. Tables(Db) /\ p \in Db.purchase /\ DOMAIN p = PurchaseFields
    BY ReconciledMoves, DbTables DEF Tables
  <1>3. SameSale(p, q) /\ q.status = p.status /\ q.refund = p.refund
    BY <1>2 DEF SameSale, PurchaseFields
  <1>4. Good(acked) /\ acked.offer = offer /\ q \in acked.purchase
    BY AckedAccounts
  <1>. HIDE DEF q
  <1>5. /\ DOMAIN acked = DbFields /\ acked.waitlist = Db.waitlist /\ acked.offer = Db.offer
        /\ acked.purchase = Replace(Db.purchase, p, q)
    BY DbTables DEF DbFields
  <1>. HIDE DEF acked
  <1>6. SameSeat(Db, q)
    BY <1>2, <1>3, SaleSeat DEF Committed
  <1>7. Moves(Db, acked)
    BY <1>2, <1>5, <1>6, RowMoves
  <1>8. Moves(acked, QueueAutomaticRefund(acked, q, ts))
    BY <1>3, <1>7, AutomaticMoves DEF Moves, SameSale
  <1>9. Moves(Db, settled)
    BY <1>7, <1>8, MovesAgain
  <1>10. ~refund => settled = acked
    OBVIOUS
  <1>. HIDE DEF settled
  <1>11. Moves(Db, r) /\ Tables(r)
    BY <1>9, ReconcileMoves, MovesAgain DEF Moves
  <1>12. CASE ~Reconcilable(p, ts)
    BY <1>1, <1>7, <1>12, WriteTurn DEF Moves
  <1>13. CASE Reconcilable(p, ts) /\ refund
    <2>1. n = r
      BY <1>13
    <2>. HIDE DEF n, r
    <2>. QED
      BY <1>1, <1>11, <2>1, WriteTurn DEF Moves
  <1>14. CASE Reconcilable(p, ts) /\ ~refund
    <2>. DEFINE c == Complete(r, q)
    <2>1. n = c /\ settled = acked
      BY <1>10, <1>14
    <2>2. p.status = "pending"
      BY <1>14 DEF Reconcilable
    <2>3. SeatKey(q) \in PromisedOf(Db, q.tier)
      <3>1. SeatKey(q) = SeatKey(p) /\ q.tier = p.tier
        BY <1>3 DEF SameSale, SeatKey
      <3>. QED
        BY <1>2, <2>2, <3>1 DEF PromisedOf, SeatKeys, Committed
    <2>4. c.ok
      BY <1>1, <2>1 DEF Write
    <2>5. r.ok
      BY <1>11, <2>4, CompleteFields DEF Tables
    <2>6. HasOffer(r, q)
      <3>1. \A o \in acked.offer : \E o1 \in r.offer : o1.user = o.user /\ o1.id = o.id
        BY <1>4, <2>1, <2>5, ReconcileGood
      <3>2. HasOffer(acked, q)
        BY <1>4 DEF Good, Linked
      <3>. HIDE DEF r
      <3>. QED
        BY <3>1, <3>2 DEF HasOffer
    <2>. HIDE DEF n, r
    <2>7. /\ c.waitlist = r.waitlist
          /\ \A t : PromisedOf(c, t) \subseteq PromisedOf(r, t) \cup PromisedOf(Db, t)
      BY <1>3, <1>11, <2>3, <2>6, CompleteGives DEF SameSale
    <2>. HIDE DEF c
    <2>8. Turn(Db, c)
      BY <1>11, <2>7, NothingElse DEF Moves
    <2>. QED
      BY <1>1, <2>1, <2>8, WriteTurn
  <1>. QED
    BY <1>12, <1>13, <1>14

\* The reconciliation before it left no queue with a seat to give.
LEMMA ReconciledFull ==
  ASSUME EnrollmentInv, AccountsInv, NEW t, NEW ts, Moment(ts), NEW r, r = Reconcile(Db, {t}, ProviderReady, ts), r.ok,
         PromotionOpen(now), Price[t] = 0 \/ ProviderReady, NEW w \in r.waitlist, w.tier = t
  PROVE  ~(Allocated(r, t, ts) < SeatsTotal[t])
  <1>. DEFINE a == ExpireHolds(Db, ts)
              b == SettleOffers(a, ts)
  <1>1. Good(Db) /\ Ledger(Db) /\ Good(r) /\ ts \in Nat
    BY ReconciledDb DEF EnrollmentInv, AccountsInv, Moment
  <1>2. Good(a) /\ Ledger(a)
    BY <1>1, ExpireHoldsGood, ExpireHoldsKeeps DEF Keeps
  <1>. HIDE DEF a
  <1>3. Good(b) /\ Ledger(b)
    BY <1>1, <1>2, SettleGood, SettleKeeps DEF Keeps
  <1>. HIDE DEF b
  <1>4. r = Promote(b, {t}, ProviderReady, ts)
    BY DEF Reconcile, a, b
  <1>5. PromotionOpen(ts)
    BY EnrollmentAssumption DEF PromotionOpen, RegistrationOpen, Moment
  <1>6. t \in {t} \cap Public /\ Shape(r)
    BY <1>1 DEF Good, Shape, Entry, WaitlistRow
  <1>. QED
    BY <1>1, <1>3, <1>4, <1>5, <1>6, PromotedFull

LEMMA InviteAttendeeTurn ==
  ASSUME EnrollmentInv, AccountsInv, NEW t \in Tiers, NEW ts, Moment(ts), NEW r, r = Reconcile(Db, {t}, ProviderReady, ts),
         NEW u, InviteAttendee(r, u, t, ts)
  PROVE  QueueStep
  <1>1. Moves(Db, r) /\ DOMAIN r = DbFields
    BY ReconciledMoves DEF Moves, Tables
  <1>2. CASE Write(r)
    BY <1>1, <1>2, WriteTurn DEF Moves
  <1>3. CASE Write(Invite(r, u, t, ts)) /\ (Price[t] = 0 \/ ProviderReady) /\ ~(Allocated(r, t, ts) >= SeatsTotal[t])
    <2>. DEFINE n == Invite(r, u, t, ts)
                out == [r EXCEPT !.waitlist = @ \ Of(@, u)]
                new == NewOffer(r, u, t, InvitationExpiry(ts), "organizer_invitation")
                m == [out EXCEPT !.offer = @ \cup {new}]
    <2>1. n.ok
      BY <1>3 DEF Write
    <2>2. r.ok
      BY <1>1, <2>1, InviteRaises
    <2>3. Allocated(r, t, ts) < SeatsTotal[t]
      <3>1. Good(r)
        BY <2>2, ReconciledDb DEF Moment
      <3>2. Allocated(r, t, ts) \in Nat
        BY <3>1, AllocatedCounts DEF Good
      <3>. QED
        BY <1>3, <3>2, EnrollmentAssumption
    <2>4. \/ ~PromotionOpen(now)
          \/ \A w \in r.waitlist : w.tier # t
      BY <1>3, <2>2, <2>3, ReconciledFull
    <2>5. n.waitlist \subseteq r.waitlist /\ n.purchase = r.purchase /\ n.offer \subseteq r.offer \cup {new}
      <3>1. n = [m EXCEPT !.ok = @ /\ OfferAllowed(out, u, new.id)]
        BY DEF Invite, Require
      <3>. HIDE DEF new
      <3>2. /\ DOMAIN m = DbFields /\ m.waitlist = r.waitlist \ Of(r.waitlist, u) /\ m.purchase = r.purchase
            /\ m.offer = r.offer \cup {new}
        BY <1>1 DEF DbFields
      <3>. HIDE DEF m, n, out
      <3>. QED
        BY <3>1, <3>2 DEF DbFields
    <2>6. new.tier = t
      BY DEF NewOffer
    <2>. HIDE DEF n, new, m, out
    <2>7. ASSUME NEW x, NEW key \in PromisedOf(n, x), x # t PROVE key \in PromisedOf(r, x)
      BY <2>5, <2>6, <2>7 DEF PromisedOf, SeatKeys
    <2>8. ASSUME PromotionOpen(now), NEW x, NEW key \in PromisedOf(n, x) \ PromisedOf(Db, x) PROVE InTurn(Db, n, x, key)
      <3>1. CASE x = t
        BY <2>4, <2>5, <2>8, <3>1 DEF InTurn
      <3>2. CASE x # t
        <4>1. key \in PromisedOf(r, x) \ PromisedOf(Db, x)
          BY <2>7, <2>8, <3>2
        <4>2. InTurn(Db, r, x, key)
          BY <1>1, <2>8, <4>1 DEF Moves, Turn
        <4>. QED
          BY <2>5, <4>2 DEF InTurn
      <3>. QED
        BY <3>1, <3>2
    <2>9. Turn(Db, n)
      BY <1>1, <2>5, <2>8 DEF Moves, Turn
    <2>. QED
      BY <1>3, <2>9, WriteTurn DEF n
  <1>. QED
    BY <1>2, <1>3 DEF InviteAttendee, Commit


\* A checkout takes the seat of its own offer, or one of a tier nobody queues
\* for.
LEMMA StartCheckoutTurn ==
  ASSUME EnrollmentInv, NEW t, NEW ts \in Nat, NEW ready, NEW r, r = Reconcile(Db, {t}, ready, ts),
         NEW u, NEW id, id = 0 \/ (\E o \in offer : o.user = u /\ o.id = id),
         NEW code, StartCheckout(r, u, t, id, code, ts)
  PROVE  QueueStep
  <1>. DEFINE c == SelectedCode(r, u, id, code)
              existing == ExistingPurchases(r, u, id, ts)
              e == Expire(r, existing, ts)
              a == Claimed(e, u, id, c)
              b == UpsertAnswers(a, u)
              n == InsertHold(e, u, t, id, c, ts)
              new == NewPurchase(e, u, t, id, c, ts)
              row == Row(e.offer, u, id)
  <1>1. /\ Write(n) /\ ~OfferMismatch(r, u, t, id, ts)
        /\ id = 0 => ~TierUnavailable(r, t, ts)
    BY DEF StartCheckout, Commit
  <1>2. Moves(Db, r) /\ Tables(r) /\ DOMAIN r = DbFields
    BY ReconciledMoves DEF Moves, Tables
  <1>3. r.ok => \A o \in offer : \E o1 \in r.offer : o1.user = o.user /\ o1.id = o.id
    BY ReconciledDb
  <1>4. existing \subseteq r.purchase
    BY DEF ExistingPurchases, Of
  <1>. HIDE DEF c, existing
  <1>5. Moves(r, e) /\ e.offer = r.offer /\ e.ok = r.ok /\ DOMAIN e = DbFields
    <2>1. Tables(r) /\ DOMAIN r = DbFields
      BY <1>2
    <2>2. Moves(r, e)
      BY ONLY <1>4, <2>1, ExpireMoves
    <2>3. e.offer = r.offer /\ e.ok = r.ok /\ DOMAIN e = DbFields
      BY ONLY <2>1, ExpireFields
    <2>. QED
      BY <2>2, <2>3
  <1>6. n.ok
    BY <1>1 DEF Write
  <1>. HIDE DEF e
  <1>7. /\ n.waitlist = b.waitlist /\ n.offer = b.offer /\ n.purchase = b.purchase \cup {new}
        /\ n.ok => e.ok
    BY <1>5, InsertHoldFields
  <1>8. /\ DOMAIN a = DbFields /\ a.waitlist = e.waitlist /\ a.purchase = e.purchase
        /\ id # 0 => a.offer = Replace(e.offer, row, ClaimedRow(row, c))
        /\ id = 0 => a.offer = e.offer
    BY <1>5, ClaimedFields
  <1>. HIDE DEF a, n
  <1>9. b.waitlist = a.waitlist /\ b.offer = a.offer /\ b.purchase = a.purchase
    BY <1>8, AnswersFields
  <1>. HIDE DEF b
  <1>10. new.tier = t /\ SeatKey(new) = IF id # 0 THEN <<u, "offer", id>> ELSE <<u, "purchase", new.id>>
    BY DEF NewPurchase, SeatKey
  <1>. HIDE DEF new
  <1>11. id # 0 => row \in e.offer /\ row.user = u /\ row.id = id /\ row.tier = t /\ row.status \in ActiveOffer
    <2>1. id # 0 => Row(r.offer, u, id).tier = t /\ Row(r.offer, u, id).status \in ActiveOffer
      BY <1>1 DEF OfferMismatch, LiveOffer
    <2>2. r.ok /\ e.offer = r.offer
      BY <1>5, <1>6, <1>7
    <2>3. id # 0 => \E o1 \in e.offer : o1.user = u /\ o1.id = id
      BY <1>3, <2>2
    <2>4. id # 0 => row \in e.offer /\ row.user = u /\ row.id = id
      BY ONLY <2>3, RowOf
    <2>5. row = Row(r.offer, u, id)
      BY <2>2
    <2>. HIDE DEF row
    <2>. QED
      BY ONLY <2>1, <2>4, <2>5
  <1>. HIDE DEF row
  <1>12. \A o \in n.offer : SameOffer(e, o)
    <2>1. \A o \in e.offer : SameOffer(e, o)
      BY <1>5 DEF Moves, Tables, SameOffer
    <2>2. id # 0 => SameOffer(e, ClaimedRow(row, c))
      <3>1. id # 0 => /\ DOMAIN ClaimedRow(row, c) = OfferFields
                      /\ ClaimedRow(row, c).tier = row.tier /\ ClaimedRow(row, c).user = row.user
                      /\ ClaimedRow(row, c).id = row.id
        BY <1>5, <1>11 DEF Moves, Tables, ClaimedRow, OfferFields
      <3>. QED
        BY <1>11, <3>1 DEF SameOffer
    <2>. QED
      BY <1>7, <1>8, <1>9, <2>1, <2>2 DEF Replace
  <1>13. ASSUME NEW x, NEW key \in PromisedOf(n, x)
         PROVE  key \in PromisedOf(e, x) \/ (x = t /\ key = SeatKey(new))
    <2>1. CASE \E o \in n.offer : o.tier = x /\ o.status \in ActiveOffer /\ key = <<o.user, "offer", o.id>>
      BY <1>12, <2>1 DEF SameOffer, PromisedOf, SeatKeys
    <2>2. CASE \E p \in n.purchase : p.tier = x /\ Committed(p) /\ key = SeatKey(p)
      BY <1>7, <1>8, <1>9, <1>10, <2>2 DEF PromisedOf, SeatKeys
    <2>. QED
      BY <1>13, <2>1, <2>2 DEF PromisedOf, SeatKeys
  <1>14. id # 0 => SeatKey(new) \in PromisedOf(e, t)
    BY <1>10, <1>11 DEF PromisedOf, SeatKeys
  <1>15. id = 0 => \A w \in r.waitlist : w.tier # t
    BY <1>1 DEF TierUnavailable
  <1>16. n.waitlist \subseteq e.waitlist /\ e.waitlist \subseteq r.waitlist
    BY <1>5, <1>7, <1>8, <1>9 DEF Moves, Turn
  <1>17. Turn(Db, e)
    BY <1>2, <1>5, TurnAgain DEF Moves
  <1>18. ASSUME PromotionOpen(now), NEW x, NEW key \in PromisedOf(n, x) \ PromisedOf(Db, x) PROVE InTurn(Db, n, x, key)
    <2>1. CASE key \in PromisedOf(e, x)
      <3>1. InTurn(Db, e, x, key)
        BY <1>17, <1>18, <2>1 DEF Turn
      <3>. QED
        BY <1>16, <3>1 DEF InTurn
    <2>2. CASE key \notin PromisedOf(e, x)
      <3>1. x = t /\ id = 0
        BY <1>13, <1>14, <1>18, <2>2
      <3>. QED
        BY <1>15, <1>16, <3>1 DEF InTurn
    <2>. QED
      BY <2>1, <2>2
  <1>19. Turn(Db, n)
    BY <1>16, <1>17, <1>18 DEF Turn
  <1>. QED
    BY <1>1, <1>19, WriteTurn DEF n


LEMMA QueueSteps ==
  ASSUME EnrollmentInv, AccountsInv, RefundsNext
  PROVE  QueueStep
  <1>0. \A ts \in Timestamps : Moment(ts) /\ ts \in Nat
    BY EnrollmentAssumption DEF Timestamps, EnrollmentInv, Moment
  <1>1. ASSUME NEW u \in Users, NEW ts \in Timestamps, UserStep(u, ts) PROVE QueueStep
    BY <1>1, AttendEventTurn, LeaveAttendanceTurn, LeaveWaitlistTurn DEF UserStep
  <1>2. ASSUME NEW t \in Tiers, NEW ts \in Timestamps, TierStep(t, ts) PROVE QueueStep
    <2>. DEFINE r == Reconcile(Db, {t}, ProviderReady, ts)
    <2>. HIDE DEF r
    <2>1. PICK u \in Users :
            \/ InviteAttendee(r, u, t, ts)
            \/ \E id \in {0} \cup {o.id : o \in Of(offer, u)}, code \in Codes :
                  \/ CheckoutConflict(r, u, t, id, code, ts)
                  \/ ReuseCheckout(r, u, t, id, code, ts)
                  \/ StartCheckout(r, u, t, id, code, ts)
      BY <1>2 DEF TierStep, r
    <2>2. Moment(ts) /\ ts \in Nat /\ r = Reconcile(Db, {t}, ProviderReady, ts)
      BY <1>0 DEF r
    <2>3. CASE InviteAttendee(r, u, t, ts)
      BY <2>2, <2>3, InviteAttendeeTurn
    <2>4. ASSUME NEW id \in {0} \cup {o.id : o \in Of(offer, u)}, NEW code \in Codes,
                 \/ CheckoutConflict(r, u, t, id, code, ts)
                 \/ ReuseCheckout(r, u, t, id, code, ts)
                 \/ StartCheckout(r, u, t, id, code, ts)
          PROVE  QueueStep
      <3>1. id = 0 \/ \E o \in offer : o.user = u /\ o.id = id
        BY DEF Of
      <3>2. CASE CheckoutConflict(r, u, t, id, code, ts)
        BY <2>2, <3>2, CheckoutConflictTurn
      <3>3. CASE ReuseCheckout(r, u, t, id, code, ts)
        BY <2>2, <3>3, ReuseCheckoutTurn
      <3>4. CASE StartCheckout(r, u, t, id, code, ts)
        BY <2>2, <3>1, <3>4, StartCheckoutTurn
      <3>. QED
        BY <2>4, <3>2, <3>3, <3>4
    <2>. QED
      BY <2>1, <2>3, <2>4
  <1>3. ASSUME NEW o \in offer, NEW ts \in Timestamps, ReleaseOffer(o, ts) PROVE QueueStep
    BY <1>0, <1>3, ReleaseOfferTurn
  <1>4. ASSUME NEW p \in purchase, PurchaseStep(p) PROVE QueueStep
    <2>1. CASE AttachSession(p) \/ PayCheckout(p) \/ SessionExpires(p)
      BY <2>1, SessionStepsTurn
    <2>2. ASSUME NEW ts \in Timestamps, CancelCheckout(p, ts) \/ CheckoutExpired(p, ts) PROVE QueueStep
      BY <1>0, <2>2, ExpireOneTurn DEF CancelCheckout, CheckoutExpired, Commit
    <2>3. ASSUME NEW ts \in Timestamps, CompleteFree(p, ts) PROVE QueueStep
      BY <1>0, <2>3, CompleteFreeTurn
    <2>4. ASSUME NEW ts \in Timestamps, CheckoutCompleted(p, ts) PROVE QueueStep
      BY <1>0, <2>4, CheckoutCompletedTurn
    <2>. QED
      BY <1>4, <2>1, <2>2, <2>3, <2>4 DEF PurchaseStep
  <1>5. ASSUME NEW p \in purchase, RefundStep(p) PROVE QueueStep
    BY <1>5, FinalizeRefundTurn, CompleteRecoveryTurn, RefundRowsTurn DEF RefundStep
  <1>6. ASSUME NEW ts \in Timestamps, CancelEvent(ts) PROVE QueueStep
    BY <1>6, CancelEventTurn
  <1>7. CASE Tick
    <2>1. \A t : Promised(t)' \subseteq Promised(t)
      BY <1>7 DEF Tick, Promised
    <2>. QED
      BY <2>1, FewerGiven
  <1>. QED
    BY <1>1, <1>2, <1>3, <1>4, <1>5, <1>6, <1>7, ReconcileNextTurn DEF RefundsNext, Next

\* A seat goes to the queue first, whichever of attend_event, the checkout,
\* the invitation, a release, a refund, a webhook or the worker gives it: a
\* promotion takes the heads of a queue, and a seat that an operation finds
\* free after its reconciliation is one that nobody who stays queued waits for.
THEOREM QueueIsRespected == RefundsSpec => QueueRespected
  <1>1. EnrollmentInv /\ AccountsInv /\ [RefundsNext]_vars => [QueueStep]_vars
    BY QueueSteps
  <1>. QED
    BY AccountsInvariant, <1>1, PTL DEF RefundsSpec, QueueRespected

-----------------------------------------------------------------------------
=============================================================================
