------------------------ MODULE NotificationDelivery ------------------------
(***************************************************************************)
(* The durable e-mail queue: the `notification` table, the delivery        *)
(* workers that claim and send rows, the recovery worker that reviews      *)
(* abandoned claims, and the operator's manual requeue.                    *)
(*                                                                         *)
(* Every database function runs in one transaction and is one action.  The *)
(* claim is two steps, because its timestamp (current_timestamp) is taken  *)
(* when the transaction starts and the advisory lock is obtained later.    *)
(* That timestamp is also the identity of the claim: PostgreSQL stamps     *)
(* transactions with microseconds, so starting one takes a fresh tick.     *)
(***************************************************************************)
EXTENDS Integers, FiniteSets

CONSTANTS
    Notifications,    \* identities of the rows that may be enqueued
    Users,
    Recipient,        \* [Notifications -> Users]
    Kind,             \* [Notifications -> Kinds]
    OptedOut,         \* users with optional notifications disabled
    Allowed,          \* users the configured recipients whitelist lets through
    Workers,          \* delivery workers, over all server instances
    MaxClaims,        \* DELIVERY_MAX_CLAIMS
    SendAttempts,     \* DELIVERY_SEND_MAX_ATTEMPTS
    RateLimit,        \* claims allowed in a window
    RateWindow,       \* length of the window, in ticks
    Timeout,          \* DELIVERY_PROCESSING_TIMEOUT
    BaseDelay,        \* DELIVERY_REQUEUE_BASE_DELAY
    MaxDelay,         \* DELIVERY_REQUEUE_MAX_DELAY
    ClaimHorizon,     \* bound: no claim transaction starts after this tick
    MaxTime,          \* bound on the clock
    MaxRequeues       \* bound on manual requeues of a row

Kinds == {"email-verification", "admission-offer", "optional", "required"}

None == -1  \* a NULL timestamp

ASSUME ConstantsAssumption ==
    /\ Recipient \in [Notifications -> Users]
    /\ Kind \in [Notifications -> Kinds]
    /\ IsFiniteSet(Workers) /\ IsFiniteSet(Notifications)
    /\ MaxClaims \in Nat \ {0} /\ SendAttempts \in Nat \ {0}
    /\ RateLimit \in Nat \ {0} /\ RateWindow \in Nat \ {0}
    /\ Timeout \in Nat \ {0}
    /\ BaseDelay \in Nat \ {0} /\ MaxDelay \in Nat /\ BaseDelay <= MaxDelay
    /\ ClaimHorizon \in Nat /\ MaxTime \in Nat /\ MaxRequeues \in Nat

VARIABLES
    now,            \* the database clock
    user_status,    \* registration_status and email_verified of each user
    \* the columns of the notification table
    delivery_status, created_at, delivery_attempts, delivery_claimed_at,
    next_delivery_attempt_at,
    \* the local state of each delivery worker
    pc, job, claimed_at, attempt, outcome,
    delivered,      \* history: messages the mail server accepted, per row
    accepted,       \* history: the claims <<row, claim time>> that delivered
    claims,         \* history: every claim <<row, claim time>> ever made
    requeues        \* history: manual requeues of each row

notification == <<delivery_status, created_at, delivery_attempts,
                  delivery_claimed_at, next_delivery_attempt_at>>

worker == <<pc, job, claimed_at, attempt, outcome>>

history == <<delivered, accepted, claims, requeues>>

vars == <<now, user_status, notification, worker, history>>

UserStatuses == {"pre-registered", "unverified", "verified"}

Statuses == {"absent", "pending", "processing", "processed", "failed",
             "delivery-unknown"}

\* The error classes of the e-mail sender, "none" before the first send.
Outcomes == {"none", "sent", "retryable", "terminal", "unknown"}

Init ==
    /\ now = 0
    /\ user_status \in [Users -> UserStatuses]
    /\ delivery_status = [n \in Notifications |-> "absent"]
    /\ created_at = [n \in Notifications |-> None]
    /\ delivery_attempts = [n \in Notifications |-> 0]
    /\ delivery_claimed_at = [n \in Notifications |-> None]
    /\ next_delivery_attempt_at = [n \in Notifications |-> None]
    /\ pc = [w \in Workers |-> "idle"]
    /\ job \in [Workers -> Notifications]  \* read only after a claim
    /\ claimed_at = [w \in Workers |-> None]
    /\ attempt = [w \in Workers |-> 0]
    /\ outcome = [w \in Workers |-> "none"]
    /\ delivered = [n \in Notifications |-> 0]
    /\ accepted = {}
    /\ claims = {}
    /\ requeues = [n \in Notifications |-> 0]

----------------------------------------------------------------------------
\* A pre-registered user signs up; a registered user confirms the address.
ActivateUser(u) ==
    /\ user_status[u] = "pre-registered"
    /\ user_status' = [user_status EXCEPT ![u] = "unverified"]
    /\ UNCHANGED <<now, notification, worker, history>>

VerifyEmail(u) ==
    /\ user_status[u] = "unverified"
    /\ user_status' = [user_status EXCEPT ![u] = "verified"]
    /\ UNCHANGED <<now, notification, worker, history>>

\* One row per recipient of one call; users who opted out of optional kinds
\* get none, and a call left without recipients inserts nothing.
EnqueueNotification(k, S) ==
    LET kept == {n \in S : k = "optional" => Recipient[n] \notin OptedOut} IN
    /\ kept # {}
    /\ \A n \in S : Kind[n] = k /\ delivery_status[n] = "absent"
    /\ delivery_status' = [n \in Notifications |->
            IF n \in kept THEN "pending" ELSE delivery_status[n]]
    /\ created_at' = [n \in Notifications |-> IF n \in kept THEN now ELSE created_at[n]]
    /\ UNCHANGED <<now, user_status, delivery_attempts, delivery_claimed_at,
                   next_delivery_attempt_at, worker, history>>

----------------------------------------------------------------------------
\* Who may receive a message of this kind.
Deliverable(n) ==
    \/ user_status[Recipient[n]] = "verified"
    \/ Kind[n] = "email-verification"
    \/ Kind[n] = "admission-offer" /\ user_status[Recipient[n]] = "pre-registered"

Claimable(n, at) ==
    /\ delivery_status[n] = "pending"
    /\ next_delivery_attempt_at[n] <= at
    /\ Deliverable(n)

\* The rows that count against the limit: one per row, by its last claim.
CountedClaims(at) == {n \in Notifications : delivery_claimed_at[n] # None
                                /\ delivery_claimed_at[n] >= at - RateWindow}

RateLimited(at) == Cardinality(CountedClaims(at)) >= RateLimit

Reset(w) ==
    /\ pc' = [pc EXCEPT ![w] = "idle"]
    /\ claimed_at' = [claimed_at EXCEPT ![w] = None]
    /\ attempt' = [attempt EXCEPT ![w] = 0]
    /\ outcome' = [outcome EXCEPT ![w] = "none"]
    /\ UNCHANGED job

BeginClaim(w) ==
    /\ pc[w] = "idle"
    /\ now < ClaimHorizon
    /\ now' = now + 1
    /\ pc' = [pc EXCEPT ![w] = "claiming"]
    /\ claimed_at' = [claimed_at EXCEPT ![w] = now + 1]
    /\ UNCHANGED <<user_status, notification, job, attempt, outcome, history>>

ClaimNothing(w) ==
    /\ pc[w] = "claiming"
    /\ \/ RateLimited(claimed_at[w])
       \/ \A n \in Notifications : ~Claimable(n, claimed_at[w])
    /\ Reset(w)
    /\ UNCHANGED <<now, user_status, notification, history>>

ClaimPendingNotification(w, n) ==
    LET at == claimed_at[w] IN
    /\ pc[w] = "claiming"
    /\ ~RateLimited(at)
    /\ Claimable(n, at)
    /\ \A m \in Notifications : Claimable(m, at) => created_at[n] <= created_at[m]
    /\ delivery_status' = [delivery_status EXCEPT ![n] = "processing"]
    /\ delivery_attempts' = [delivery_attempts EXCEPT ![n] = @ + 1]
    /\ delivery_claimed_at' = [delivery_claimed_at EXCEPT ![n] = at]
    /\ next_delivery_attempt_at' = [next_delivery_attempt_at EXCEPT ![n] = None]
    /\ pc' = [pc EXCEPT ![w] = "claimed"]
    /\ job' = [job EXCEPT ![w] = n]
    /\ attempt' = [attempt EXCEPT ![w] = 1]
    /\ claims' = claims \cup {<<n, at>>}
    /\ UNCHANGED <<now, user_status, created_at, claimed_at, outcome, delivered,
                   accepted, requeues>>

----------------------------------------------------------------------------
FinishSending(w, o) ==
    /\ pc' = [pc EXCEPT ![w] = "recording"]
    /\ outcome' = [outcome EXCEPT ![w] = o]
    /\ UNCHANGED <<job, claimed_at, attempt>>

\* A missing attachment, unreadable template data or a message that cannot be
\* built is final before anything is sent.
PrepareFails(w) ==
    /\ pc[w] = "claimed"
    /\ attempt[w] = 1
    /\ FinishSending(w, "terminal")
    /\ UNCHANGED <<now, user_status, notification, history>>

\* The mail server takes the message of the worker's claim.
Deliver(w) ==
    /\ delivered' = [delivered EXCEPT ![job[w]] = @ + 1]
    /\ accepted' = accepted \cup {<<job[w], claimed_at[w]>>}
    /\ UNCHANGED <<claims, requeues>>

\* A recipient outside the whitelist is skipped and counts as sent.
SendSucceeds(w) ==
    /\ pc[w] = "claimed"
    /\ FinishSending(w, "sent")
    /\ IF Recipient[job[w]] \in Allowed THEN Deliver(w) ELSE UNCHANGED history
    /\ UNCHANGED <<now, user_status, notification>>

\* Connection, transient and shutdown errors precede the submission, so the
\* same claim sends again until its attempts are used up.
SendAgain(w) ==
    /\ pc[w] = "claimed"
    /\ Recipient[job[w]] \in Allowed
    /\ attempt[w] < SendAttempts
    /\ attempt' = [attempt EXCEPT ![w] = @ + 1]
    /\ UNCHANGED <<now, user_status, notification, pc, job, claimed_at, outcome,
                   history>>

SendGivesUp(w) ==
    /\ pc[w] = "claimed"
    /\ Recipient[job[w]] \in Allowed
    /\ attempt[w] = SendAttempts
    /\ FinishSending(w, "retryable")
    /\ UNCHANGED <<now, user_status, notification, history>>

SendFailsTerminal(w) ==
    /\ pc[w] = "claimed"
    /\ Recipient[job[w]] \in Allowed
    /\ FinishSending(w, "terminal")
    /\ UNCHANGED <<now, user_status, notification, history>>

\* A network error or timeout: the server may or may not have the message.
SendFailsUnknown(w) ==
    /\ pc[w] = "claimed"
    /\ Recipient[job[w]] \in Allowed
    /\ FinishSending(w, "unknown")
    /\ Deliver(w) \/ UNCHANGED history
    /\ UNCHANGED <<now, user_status, notification>>

----------------------------------------------------------------------------
\* Mutated forms (suffix _Mut) are plausible mistakes in the definition that
\* follows them; each one breaks the property it is paired with.
\* The update filters on the status alone.
HoldsClaim_Mut(w) == delivery_status[job[w]] = "processing"

\* The claim identity every finalizing update filters on.
HoldsClaim(w) ==
    /\ delivery_status[job[w]] = "processing"
    /\ delivery_claimed_at[job[w]] = claimed_at[w]

SmallerOf(a, b) == IF a <= b THEN a ELSE b

\* The retry is due at once.
Backoff_Mut(attempts) == 0

Backoff(attempts) ==
    SmallerOf(MaxDelay,
        BaseDelay * 2^SmallerOf(IF attempts > 1 THEN attempts - 1 ELSE 0, 30))

\* The budget is compared with > instead of >=.
BudgetUsedUp_Mut(n) == delivery_attempts[n] > MaxClaims

BudgetUsedUp(n) == delivery_attempts[n] >= MaxClaims

\* The row update of update_notification and mark_notification_delivery_unknown.
Finalize(n, status) ==
    /\ delivery_status' = [delivery_status EXCEPT ![n] = status]
    /\ next_delivery_attempt_at' = [next_delivery_attempt_at EXCEPT ![n] = None]

Requeue(n) ==
    /\ delivery_status' = [delivery_status EXCEPT ![n] = "pending"]
    /\ next_delivery_attempt_at' = [next_delivery_attempt_at EXCEPT
            ![n] = now + Backoff(delivery_attempts[n])]

\* The outcome is recorded in a later transaction than the claim.
Recording(w, o) ==
    /\ pc[w] = "recording"
    /\ outcome[w] = o
    /\ now > claimed_at[w]
    /\ Reset(w)
    /\ UNCHANGED <<now, user_status, created_at, delivery_attempts,
                   delivery_claimed_at, history>>

\* An unknown outcome is retried like a transient one.
MarkDeliveryUnknown_Mut(w) ==
    /\ Recording(w, "unknown")
    /\ HoldsClaim(w)
    /\ Requeue(job[w])

MarkDeliveryUnknown(w) ==
    /\ Recording(w, "unknown")
    /\ HoldsClaim(w)
    /\ Finalize(job[w], "delivery-unknown")

UpdateNotification(w) ==
    /\ HoldsClaim(w)
    /\ \/ Recording(w, "sent") /\ Finalize(job[w], "processed")
       \/ Recording(w, "terminal") /\ Finalize(job[w], "failed")

RequeueNotification(w) ==
    /\ Recording(w, "retryable")
    /\ HoldsClaim(w)
    /\ IF BudgetUsedUp(job[w]) THEN Finalize(job[w], "failed") ELSE Requeue(job[w])

\* A claim that is no longer the worker's own raises; the worker logs it.
RecordRejected(w) ==
    /\ ~HoldsClaim(w)
    /\ \E o \in Outcomes : Recording(w, o)
    /\ UNCHANGED <<delivery_status, next_delivery_attempt_at>>

\* The process dies, or a database call of the worker fails: its local state
\* is lost and what it had done stays done.
WorkerLost(w) ==
    /\ pc[w] # "idle"
    /\ Reset(w)
    /\ UNCHANGED <<now, user_status, notification, history>>

----------------------------------------------------------------------------
\* Only claims that used up their budget are reviewed.
StaleClaims_Mut == {n \in Notifications : delivery_status[n] = "processing"
                                /\ delivery_attempts[n] >= MaxClaims
                                /\ delivery_claimed_at[n] < now - Timeout}

StaleClaims == {n \in Notifications : delivery_status[n] = "processing"
                                /\ delivery_claimed_at[n] < now - Timeout}

MarkStaleProcessingUnknown ==
    /\ StaleClaims # {}
    /\ delivery_status' = [n \in Notifications |->
            IF n \in StaleClaims THEN "delivery-unknown" ELSE delivery_status[n]]
    /\ next_delivery_attempt_at' = [n \in Notifications |->
            IF n \in StaleClaims THEN None ELSE next_delivery_attempt_at[n]]
    /\ UNCHANGED <<now, user_status, created_at, delivery_attempts,
                   delivery_claimed_at, worker, history>>

\* The operator's selection; rows that are not terminal are passed over.
ManualRequeue(S) ==
    LET selected == {n \in S : delivery_status[n] \in {"delivery-unknown", "failed"}}
        Set(column, value) == [n \in Notifications |->
                                IF n \in selected THEN value ELSE column[n]]
    IN
    /\ selected # {}
    /\ \A n \in selected : requeues[n] < MaxRequeues
    /\ delivery_status' = Set(delivery_status, "pending")
    /\ delivery_attempts' = Set(delivery_attempts, 0)
    /\ delivery_claimed_at' = Set(delivery_claimed_at, None)
    /\ next_delivery_attempt_at' = Set(next_delivery_attempt_at, None)
    /\ requeues' = [n \in Notifications |->
            IF n \in selected THEN requeues[n] + 1 ELSE requeues[n]]
    /\ UNCHANGED <<now, user_status, created_at, worker, delivered, accepted, claims>>

Tick ==
    /\ now < MaxTime
    /\ now' = now + 1
    /\ UNCHANGED <<user_status, notification, worker, history>>

----------------------------------------------------------------------------
WorkerStep(w) ==
    \/ BeginClaim(w)
    \/ ClaimNothing(w)
    \/ \E n \in Notifications : ClaimPendingNotification(w, n)
    \/ PrepareFails(w)
    \/ SendSucceeds(w)
    \/ SendAgain(w)
    \/ SendGivesUp(w)
    \/ SendFailsTerminal(w)
    \/ SendFailsUnknown(w)
    \/ UpdateNotification(w)
    \/ MarkDeliveryUnknown(w)
    \/ RequeueNotification(w)
    \/ RecordRejected(w)
    \/ WorkerLost(w)

Next ==
    \/ \E u \in Users : ActivateUser(u) \/ VerifyEmail(u)
    \/ \E k \in Kinds, S \in SUBSET Notifications : EnqueueNotification(k, S)
    \/ \E w \in Workers : WorkerStep(w)
    \/ MarkStaleProcessingUnknown
    \/ \E S \in SUBSET Notifications : ManualRequeue(S)
    \/ Tick

Spec == Init /\ [][Next]_vars

\* The clock runs and the recovery worker loops for as long as the server
\* does; nothing is assumed of the delivery workers, the users or operators.
FairSpec == Spec /\ WF_vars(Tick) /\ WF_vars(MarkStaleProcessingUnknown)

----------------------------------------------------------------------------
WorkerStates == {"idle", "claiming", "claimed", "recording"}

Times == Nat \cup {None}

\* Type invariant.  It bounds the claims of a row between two manual requeues
\* by DELIVERY_MAX_CLAIMS and the sends of a claim by DELIVERY_SEND_MAX_ATTEMPTS.
TypeOK ==
    /\ now \in Nat
    /\ user_status \in [Users -> UserStatuses]
    /\ delivery_status \in [Notifications -> Statuses]
    /\ created_at \in [Notifications -> Times]
    /\ delivery_attempts \in [Notifications -> 0..MaxClaims]
    /\ delivery_claimed_at \in [Notifications -> Times]
    /\ next_delivery_attempt_at \in [Notifications -> Int]
    /\ pc \in [Workers -> WorkerStates]
    /\ job \in [Workers -> Notifications]
    /\ claimed_at \in [Workers -> Times]
    /\ attempt \in [Workers -> 0..SendAttempts]
    /\ outcome \in [Workers -> Outcomes]
    /\ delivered \in [Notifications -> Nat]
    /\ accepted \subseteq Notifications \X Nat
    /\ claims \subseteq Notifications \X Nat
    /\ requeues \in [Notifications -> Nat]

\* Whatever workers crash, stall past the timeout or lose their database
\* connection, a recipient gets a message at most once for every time it was
\* queued by hand or by the program: only an operator can cause a duplicate
\* ("finalize the claim without risking an automatic duplicate delivery").
AtMostOncePerRequeue ==
    \A n \in Notifications : delivered[n] <= 1 + requeues[n]

\* The recorded status tells the truth about the claim named by
\* delivery_claimed_at: a processed row was accepted by the mail server under
\* that very claim (or its recipient is outside the whitelist), and a failed
\* or requeued row was not, even when a worker that lost its claim to the
\* recovery worker reports late.
OutcomeMatchesClaim ==
    \A n \in Notifications :
        LET claim == <<n, delivery_claimed_at[n]>> IN
        /\ delivery_status[n] = "processed" =>
                claim \in accepted \/ Recipient[n] \notin Allowed
        /\ delivery_status[n] \in {"failed", "pending"} => claim \notin accepted

\* The claims in the window that ends with claim c.
Window(S, c) == {d \in S : c[2] - RateWindow <= d[2] /\ d[2] <= c[2]}

NothingRequeued == \A n \in Notifications : requeues[n] = 0

\* No window of RateWindow ticks contains more than RateLimit claims: the
\* limit of claim_pending_notification, which counts each row only by its
\* last claim and by timestamps taken before the lock is obtained.  It speaks
\* of what the program does: an operator's requeue erases the claim time.
ClaimRateRespected ==
    NothingRequeued => \A c \in claims : Cardinality(Window(claims, c)) <= RateLimit

\* A claim abandoned by a crashed or stuck worker is always taken out of
\* processing by the recovery worker, so that an operator can see it.
AbandonedClaimsResolved ==
    \A n \in Notifications :
        delivery_status[n] = "processing" ~> delivery_status[n] # "processing"
============================================================================
