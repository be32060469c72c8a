# Verification of Open Community Groups

TLA+ models of the parts of Open Community Groups (OCG) in which several actors
work on the same state: the seats of an event and the money paid for them,
refunds and the documents that follow them, e-mails, video meetings, badges,
the events themselves, sessions and teams. TLC checks small instances; TLAPS
proves some of the properties for every instance.

All paths below are relative to the repository. `F/` stands for
`database/migrations/functions/`, `S/` for `ocg-server/src/services/`, `H/` for
`ocg-server/src/handlers/`.

## 1. The system

OCG is a Rust server (`ocg-server`, axum) over PostgreSQL. The core logic is in
about 330 database functions: a handler or a background worker calls one
function, and one call is one transaction (a few handlers hold one transaction
over several calls). The server keeps no authoritative state. Several server
instances may run at once, each with its own background workers, so every worker
competes with its twins, with the handlers and with webhooks of the payment
provider.

Three facts shape the models:

* A transaction that changes an event's enrollment first locks the `event` row,
  so such transactions run one after the other and each is a single step. (The
  approval and the rejection of a refund request lock only the purchase, which
  is all they change.)
* `current_timestamp` is frozen when the transaction *starts*. A transaction that
  waited for the lock runs with a timestamp older than that of transactions
  which committed before it.
* Calls to Stripe, Zoom and the mail server happen between transactions, with
  no lock held. What a handler or worker read before such a call may be old when
  it is used, the answer may be lost, and the process may stop.

### Inventory

| component | state | operations | what is hard | properties |
|---|---|---|---|---|
| Notification delivery (`F/notifications`, `S/notifications.rs`) | `notification` rows: status, attempts, claim time, next attempt | enqueue, claim within a rate limit, send with retries, record the outcome, review of abandoned claims, operator requeue | workers that stop or stall after the mail server accepted a message, late reports, claims counted by timestamps taken before the lock | no automatic duplicate, truthful status, rate limit, no claim stuck |
| Enrollment (`F/event`, parts of `F/dashboard-*`, `S/enrollment.rs`, triggers in `schema/0068`) | `event_waitlist`, `admission_offer`, `event_attendee` | attend, leave, invite, decline or cancel an offer, reconcile (expire, settle, promote), the reconciliation worker, close | three tables that exclude each other through triggers, FIFO queues, expiry, old timestamps | no overselling, queue order, exclusivity, the worker progresses |
| Checkout (`F/payments/prepare_event_checkout_*`, `complete_free_*`, `reconcile_*`, `S/payments/manager.rs`, `webhook_reconciler.rs`) | `event_purchase`, discount code inventory, page at the provider | hold, reuse, replace, cancel, complete free, open and attach the page, completion and expiry webhooks | late and repeated webhooks, holds that expire while the user pays, two tabs | every captured payment buys a seat or is refunded, at most one is kept; code units conserved |
| Refunds (`F/payments/*refund*`, `cancel_event*`, `S/payments/workers/refund.rs`) | `event_refund_request`, `event_purchase_refund` | request, approve, reject, organizer cancellation, event cancellation, claim, look up, create, record, finalize, requeue, recover | four initiators of one job, answers that are lost, late, repeated or reversed, expired claims | paid back at most once, recorded truthfully, resolved; the request mirrors the job; attendance mirrors payment |
| Credit notes, application-fee adjustments (`F/payments/*credit_note*`, `*application_fee*`, `S/payments/workers/`) | one job row each per purchase | claim, look up, create, record, requeue, recover | lost answers, the abandoned last attempt | one object at the provider, nothing stuck |
| Meetings (`F/meetings`, `S/meetings.rs`, `S/meetings/zoom*`) | sync and auto-end claims on events, sessions and meetings; reserved hosts | claim, create, update, delete at the provider, record, end, recover | edits while a worker is at the provider, removal of a session, the host pool | what is shown in sync is, who can exceed the host limit, what can leak, claims end |
| Badges (`S/badges*`, badge functions) | award jobs, awards, revocation lists; caches of signed documents | award, claim, process a batch, revoke, recover; serve lists and exports, verify | interrupted batches, overlapping requests, stale caches, key rotation | one active award, distinct bits, nobody passed over; served documents are fresh and verify |
| Event lifecycle (`H/dashboard/group/events.rs`, `F/dashboard-group/*event*`, `F/dashboard-common/update_group.sql`) | `event`, the group's fiscal sponsor | publish, update, unpublish, cancel, delete, of an event or a series; replace the sponsor | checks with the provider before the transaction that relies on them | what is on sale can be sold; people are told |
| Recurring series (`H/dashboard/group/events/recurrence.rs`) | none | dates and payloads of a series | fifth weekdays, changes of summer time | the series follows its pattern |
| Authentication, teams and roles (`H/auth.rs`, `ocg-server/src/auth.rs`, `db/auth.rs`, team functions) | `auth_session`, `community_team`, `group_team` | log in and out, change of password, selection, invite, answer, change role, remove | sessions copied by concurrent requests, last administrator | log-out is final, which selections fit, an administrator stays |
| Activity tracker (`ocg-server/src/activity_tracker.rs`) | two channels, counters | track, aggregate, flush, shut down | shutdown order, full channels | each view counted once |
| Ticket types and codes, call for speakers, reminders, redirector, web layer | rows and lookups | | little | not modelled, see section 8 |

Components interact through the tables: a checkout, a refund or an invitation
calls `reconcile_event_enrollment` inside its own transaction; a webhook or a
refund worker ends in the same function; a refund that succeeds queues the credit
note and the return of the fee; every save or publication of an event marks its
meetings; every operation that concerns a person inserts notifications in its
transaction, which the delivery workers pick up. `PROJECT.json` lists the
hazards at the lines where they bite.

## 2. Modules

| module | models |
|---|---|
| `NotificationDelivery` | the e-mail queue and its workers |
| `Enrollment` | queues, offers, holds, purchases, attendees, discount inventory, webhooks, the enrollment worker |
| `EnrollmentRefunds` | extends `Enrollment` with refunds, recovery and the cancellation of the event |
| `RefundQueue` | one refund job between workers, the provider, webhooks and operators |
| `RefundPromise` | what the refund queue promises; `RefundQueue` implements it |
| `FinancialWork` | the credit-note and application-fee queues |
| `MeetingSync` | automatic meetings of one event and its sessions |
| `BadgeAwards`, `BadgeCredentials` | award jobs; caches of signed lists and exports |
| `EventLifecycle`, `EventSeries` | requests of organizers; the dates of a series |
| `CheckoutSession` | one buyer's tabs and the provider's hosted pages |
| `DashboardAccess` | sessions, selections and teams |
| `ActivityTracker` | page-view counters |
| `MC*` | instances for TLC |
| `*Proofs`, `EnrollmentAccounts` | theorems (section 6): `EnrollmentProofs` (seats and queues) and `EnrollmentAccounts` (codes, offers, attendance, payments) for `Enrollment` with `EnrollmentRefunds`; `RequestProofs` for `CheckoutSession` and `DashboardAccess`; `DurableWorkProofs` for `FinancialWork`, `BadgeAwards`, `BadgeCredentials` and `ActivityTracker`; one module each for `NotificationDelivery`, `RefundQueue`, `EventLifecycle` and `MeetingSync` |

Operators named `X_Something` with the comment *mutant* are broken variants of
`X`; `PROJECT.json` says which property rejects each of them.

The modules that model independent parts are checked together: in
`MCDurableWork` and `MCRequests` a variable `part`, fixed in the initial state,
says which part a behaviour is about, and the others do not move.
`MCEnrollmentScenarios`, `MCRefunds` and `MCNotificationDelivery` do the same with
instances of one module that differ in their constants; they share the constants
the properties depend on. `MCRefunds` has the refund job at the provider as one
more scenario, and in the others that job is out of attempts and left to an
administrator. The parts meet where the
code's own transactions keep them apart: `CheckoutSession` takes a hold as
granted, which `Enrollment` decides; `EnrollmentRefunds` takes the refund job as
queued, failed, finalized or recovered, which `RefundQueue` details; and
`RefundQueue` inserts the follow-up work that `FinancialWork` processes.

### NotificationDelivery

The columns of `notification` are functions of the row; each delivery worker has
a program counter (`idle`, `claiming`, `claimed`, `recording`), the row it works
on and the claim time it holds. A claim is two steps: `BeginClaim` starts the
transaction and takes the timestamp, `ClaimPendingNotification` (or
`ClaimNothing`) runs under the advisory lock. Sending and recording are separate
steps, so a worker can be lost (`WorkerLost`) or overtaken between any two. The
outcomes of a send are the four classes of `EmailDeliveryError`: sent,
retryable, terminal, unknown. Claim times are unique, as PostgreSQL's
microsecond timestamps are; they are what `update_notification`,
`requeue_notification` and `mark_notification_delivery_unknown` compare.
History variables record what the mail server accepted and every claim made.

### Enrollment

The tables are sets of rows. A function body is a chain of operators on the
record `Db` of all tables; `Require` marks the point where the code, a trigger or
a unique index raises, which rolls the transaction back. `Commit` writes the
result. An operation takes a timestamp `ts` from `Timestamps`: any of the last
`MaxLockWait` ticks.

| action | code |
|---|---|
| `AttendEvent`, `LeaveAttendance`, `LeaveWaitlist` | `attend_event`, `leave_event` |
| `InviteAttendee`, `ReleaseOffer` | `invite_event_attendee`; `decline_event_admission_offer` and `cancel_event_admission_offer`, which differ only in who calls them |
| `CheckoutConflict`, `ReuseCheckout`, `StartCheckout` | `prepare_event_checkout_purchase` and its helpers, by outcome |
| `CancelCheckout`, `CompleteFree`, `AttachSession` | the functions of these names |
| `PayCheckout`, `SessionExpires` | the provider (external) |
| `CheckoutCompleted`, `CheckoutExpired` | the two webhooks; a completion may be delivered any number of times |
| `ReconcileNext` | the enrollment worker |

`Reconcile` is `reconcile_event_enrollment`: `ExpireHolds`, `SettleOffers`,
`Promote`. `Allocated` is the seat count. `OfferAllowed`, `AttendeeAllowed`,
`WaitlistAllowed` and `PurchaseAllowed` are the triggers and unique indexes.

Data is abstracted: an amount is a price minus an optional discount, one
discount code, answers to registration questions are present or not. One row of
`purchase` also carries its refund job, its refund request and the state of its
session at the provider. `declined` and `canceled` offers are one status, since
nothing reads the difference.

### EnrollmentRefunds

`RequestRefund`, `ApproveRefund`, `RejectRefund`, `CancelAttendance` (organizer),
`CancelEvent`, `FinalizeRefund`, `RefundFails` (before or after finalization) and
`CompleteRecovery`. How workers claim and retry the job is `RefundQueue`.

### RefundQueue and RefundPromise

One job, since jobs do not interact. A worker's run is a sequence of steps:
`ClaimEventPurchaseRefund`, `FindRefund` (the lookup of an existing refund),
`RefundPayment` (creation under an idempotency key; the answer may be lost),
`RecordAnswer`, `FinalizeJob`, `ReleaseRetryableFailure`; `StepFails` and
`WorkerLost` cut it short. `RecordPending`, `RecordSucceeded` and
`RecordTerminalFailed` are the three recording functions, `Raises` the check of
the claim and of the pinned refund they share. The webhook reads the job
(`LoadRefundEvent`), may ask the provider again (`RefreshUnpinnedSuccess`) and
records (`ReconcileRefundStatus`) in a later transaction. `RefundMoves` is the
provider: a pending refund succeeds or fails, and a success may be reversed.
`RequeueStaleClaims` may hit a slow worker that is still running. An administrator
may requeue the job (`RequeueEventPurchaseRefund`) or record that a failed refund was
made otherwise (`RecoverJob`).

`RefundPromise` has two variables. `money` says whether the provider owes,
returned or failed to return the payment; `local` says what OCG made of it
(open, settled, recovering, recovered). `RefundQueue` maps them with `Money`
(the state of the refund the job follows) and `Local` (purchase status and
recovery), and `KeepsPromise` says that every step of workers, webhooks, sweeps
and operators is a step of the promise or changes neither: settlement happens
once and after the money moved, recovery once and after it failed.

### FinancialWork

The two queues have the same functions and workers; `kind` tells credit notes,
fee returns and tax reconciliation apart. `gate` is the condition for work to be
due (the refund still stands; the application fee is attached). `ProcessNext`
claims or, when nothing is due, surfaces an abandoned last attempt; `Lookup`,
`Create`, `RecordSucceeded`, `RecordFailure` are the worker; `RequeueStaleClaims`,
`Requeue` and `CompleteRecovery` the sweep and the administrator.

### MeetingSync

`owner` holds the event row and the session rows (request, content, sync flag,
claim, reserved host), `rows` the `meeting` table, `zoom` the provider.
`UpdateEvent` is `update_event` with `sync_event_sessions`: every session in the
form is saved, one left out is deleted and its meeting row orphaned. `SetLive`
is publish, unpublish, cancel and delete. Any save may be repeated, also one
without the meeting while its deletion is pending. `ClaimOwner` and `ClaimOrphan` are
`claim_meeting_out_of_sync` in its order of preference; `AssignHost` is
`assign_zoom_host_user`; `CreateMeeting`, `UpdateMeeting` and `DeleteMeeting` the
provider; `RecordResult`, `SetMeetingError` and `ReleaseSyncClaim` complete the
claim by comparing the state hash (`Complete`). Two history variables explain what
the code does not guarantee: `drops` counts the claims whose meeting an edit
switched off or removed, and `forgotten` the meetings the database itself gave
up, in `add_meeting` without a claim and in `set_meeting_error` for an orphan. `ClaimForAutoEnd`, `AutoEnd` and
`MarkStaleClaims` are the other two workers.

### BadgeAwards and BadgeCredentials

`BadgeAwards`: a request becomes a job with the accepted recipients; a worker
claims a job for one batch (`ProcessBatch`, bounded by the rolling budget per minute), each
award takes the next position of the group's status list, permuted by offset and
stride (`RevocationBitsDistinct` is about that map). `RecoverStaleJob`,
`RequeueBadgeAwardJob`, `CleanupJob`, `RevokeBadge`, `DeleteBadge` go on
meanwhile. `BadgeCredentials`: a request reads the database first, then looks
into the cache, then waits for the signing lock and looks again, then signs and
stores. Between these steps awards are revoked, the owner changes address,
entries are evicted and the server restarts with another key.

### EventLifecycle and EventSeries

A request of `EventLifecycle` has two or three steps: what the handler reads and
asks the provider (`Validate*`, `Load*`), and its transaction (`Commit*`,
`UpdateGroup`, `Unpublish`, `Delete`). `Bound` is the comparison of the sponsor
that was checked with the one locked now, `Replaceable` the reverse check of a
new sponsor against the events on sale. Cancellation locks the events first
(`LockCancel`), so that the recipients it reads are the ones it cancels.

`EventSeries` is a pure algorithm with one action, the handler: occurrences
(`MonthlyOccurrences` skips months that lack a fifth weekday), the shift of
fields that hold local times, and the shift of instants that keeps the time on
the local clock (`ShiftPreservingWallTime`). Calendar and time zone are external
(chrono). `SeriesIsRegular` compares the result with a definition that counts
days instead of computing them.

### CheckoutSession

A tab's request takes a hold, completes it when it is free, provisions the tax
product, opens the provider's page under an idempotency key per purchase,
attaches the page and reads the attached page back. A page that was opened stays
payable until it expires, whatever became of its hold. `HandleCompletedCheckout`
finds the purchase by the page, so an unattached page is not acknowledged.

### DashboardAccess

A request holds a copy of its session (`Arrive`) and writes the copy back at the
end (`Save`, `SaveSession`) if it changed. `EnterDashboard` is the chain of
middleware that repairs a selection, checks the permission or ends the session.
A log-in starts a session (`LogIn`) or goes on with the one the browser has
(`LogInOver`: another tab, or the callback of a provider), as the same or another
user, with what was selected in it; the history `left` marks a session whose
group such a log-in left beside another community.
Team changes lock the rows of the team (`ReadTeam`), count accepted
administrators and write (`WriteTeam`).

### ActivityTracker

A view is an identity, so that double counting shows. `Track` waits for room;
`FlushTick`, `SendBatch`, `AggregateActivity`, `Cancelled`, `SendLast` are the
aggregator; `TakeBatch`, `WriteViews`, `FlusherEnds` the flusher. A write that
fails is logged and its counts are gone, as in the code (`unwritten`).

## 3. Properties and runs

| run | instance | properties |
|---|---|---|
| `notification_claims` | 2 parts with 2 workers: 1 row, 2 claims of 2 sends, 1 operator requeue; 2 rows, 1 send each, a limit of 2 claims per window of 2 ticks | `TypeOK`, `AtMostOncePerRequeue`, `OutcomeMatchesClaim`, `ClaimRateRespected`, `AbandonedClaimsResolved` |
| `enrollment` | 3 scenarios: 3 users on 1 free seat; 2 users, 1 seat, invitations, lock waits, the end of registration; 2 tiers with a code that makes one free, questions, no provider | `InventoryConserved`, `QueueExclusive`, `OfferInCheckoutHasPurchase`, `WorkerProgresses`, `QueueRespected` |
| `refunds` | 3 scenarios: 1 invited user with 2 paid purchases and 1 code unit; 2 users on 1 paid seat; 1 refund job with 2 workers, 1 attempt, 1 requeue, 2 provider refunds, 1 fault, keys that expire | `InventoryConserved`, `AttendanceMatchesPurchase`, `CapturedPaymentAccounted`, `RefundRequestConsistent`, `AtMostOneLiveRefund`, `RecordMatchesProvider`, `FollowUpQueued`, `KeepsPromise`, `RefundResolves` |
| `durable_work` | 4 parts: financial work, badge awards, badge credentials, page views | `AtMostOneObject`, `WorkSurfaces`, `AtMostOneActiveAward`, `RevocationBitsDistinct`, `NobodyPassedOver`, `AwardsResolve`, `ServedListIsFresh`, `DownloadVerifies`, `ViewsCountedOnce` |
| `meeting_sync` | 1 event with 1 session, 2 workers, 1 host, 2 organizer actions or faults | `InSyncIsTrue`, `OverbookedByDropsOnly`, `NoLeak`, `ClaimsEnd` |
| `requests` | 4 parts: 2 events and 2 requests of organizers; 2 tabs of a buyer; 2 members, 2 communities, 1 group, 3 requests; series forms | `SponsorFitsSales`, `CancellationTold`, `NobodyLeftBehind`, `AcknowledgedPaymentsSettled`, `GroupLeftOnlyByLogIn`, `SeriesIsRegular`, `LoggedOutStaysOut`, `AdminKept` |

What they show:

* `AtMostOncePerRequeue`: only an operator can cause a second copy of a message.
  `OutcomeMatchesClaim`: a status is true of the very claim it names.
* `ClaimRateRespected`: although a row remembers only its last claim, retries do
  not exceed the rate, *because* the backoff is at least as long as the window.
  The part about two rows keeps this relation (`BaseDelay >= RateWindow`), as the
  defaults do (one minute each). The property is about behaviours in which no
  operator has requeued a row (`NothingRequeued`).
* `InventoryConserved`: active offers, pending holds and
  purchases of a tier, lapsed or not, never exceed its seats, and each unit of a
  code is available or held by exactly one purchase. Automatic refunds of
  payments that came too late and reversed refunds are not counted: the code
  takes such a payment into its seat count after the seat may have been given
  away, so its own count can exceed the total; no second person is admitted.
* `QueueRespected`: while promotion is open nobody gets a seat before a user who is
  ahead of them in the queue of that tier. `QueueExclusive`: a queued user
  has no offer, hold or seat. `OfferInCheckoutHasPurchase`: no offer stays in checkout
  without a purchase. `WorkerProgresses`: the worker, which loops without a pause
  while it is given events, is never given one that a reconciliation goes through
  and leaves unchanged. (One that raises is rolled back and does leave it
  unchanged: `worker_stuck`.)
* `AttendanceMatchesPurchase`: a user is confirmed exactly while a purchase pays.
  `CapturedPaymentAccounted`: an acknowledged payment bought a seat, was refunded
  or is queued for it. `RefundRequestConsistent`: a refund request is open
  exactly while money is owed.
* `AtMostOneLiveRefund`: of all refunds made for a payment at most one did not
  fail, also when an answer was lost and the idempotency key forgotten.
  `RecordMatchesProvider`: no success or failure is recorded that did not happen.
  `FollowUpQueued`: invoice first or refund first, the credit note is queued.
  `RefundResolves`: a job ends finalized, failed for good, or exhausted and
  visible to an administrator.
* `AtMostOneObject`, `WorkSurfaces`: the same for credit notes and fees, the
  abandoned last attempt included.
* `InSyncIsTrue`: what is shown in sync before the start is in sync, whatever was
  edited while the worker was at the provider. `NoLeak`: without lost answers or
  workers (Zoom has no idempotency key; a lost answer does leave a meeting
  behind, and the code accepts that) a meeting is forgotten only when its session
  was removed, and only where the database itself gives it up: `add_meeting` finds
  that the claim went with the session, or the provider refuses to delete the
  orphan for good and `set_meeting_error` drops its row. Every other edit, refusal
  and retry keeps the meeting on record. `OverbookedByDropsOnly` counts meetings
  that are being created: a host has at most one meeting too many for each claim
  whose meeting was switched off or removed under it, and without such a drop
  none (`meeting_hosts` shows the drop).
* `AtMostOneActiveAward`, `NobodyPassedOver`, `AwardsResolve`: overlapping award
  requests and interrupted batches neither repeat nor skip a recipient.
* `ServedListIsFresh`: a list covers each revocation committed before its request
  came in. `DownloadVerifies`: an export is signed with a published key and
  carries the identity bound for it.
* `SponsorFitsSales`: the checks at publication, at an update and on the settings
  page each precede their transaction; together they never leave an event on
  sale with an account the provider did not accept for it. `CancellationTold` and
  `NobodyLeftBehind` are about people whose place ends.
* `AcknowledgedPaymentsSettled`: two tabs, replaced selections and pages that stay
  open never lead to two kept payments or an acknowledged one that is lost.
* `LoggedOutStaysOut`, `GroupLeftOnlyByLogIn`, `AdminKept`: sessions written back
  from old copies, and teams changed by two administrators at once. A selected
  group is of another community than the selected one only where a log-in over
  the session left it there (`log_in`).
* `ViewsCountedOnce`: a view is in exactly one place until it is written or
  reported as unwritten, and nowhere on the way after the shutdown.

### Disagreements between the code and its documentation

Six runs are expected to be violated; `PROJECT.json` quotes the texts.

* `late_webhook`: a completion webhook starts just before its hold ends and waits
  for the event lock while another transaction expires the purchase. It then
  finds an expired purchase whose hold is, by its own old timestamp, still
  running, and answers `noop`. The captured payment is neither completed nor
  refunded.
* `worker_stuck`: a user pays for a hold that was canceled, is invited meanwhile
  and starts a checkout of the offer. The late payment is queued for refund. When
  the second checkout lapses, reconciliation returns the offer to `pending`, and
  the trigger on active offers raises because of the other purchase. The worker
  selects the same event again after every error.
* `recovery_checkout`: the lookup that blocks a checkout during recovery only sees
  purchases of the same offer, so a reversed refund of an invited attendee does
  not block a direct checkout.
* `meeting_deletion`: an event whose meeting awaits deletion is saved again; the
  flag that marks the deletion is recomputed to null, no worker claims it, and
  the meeting stays at the provider.
* `meeting_hosts`: a worker has reserved a host and is creating a meeting when the
  form switches the meeting off. The save clears the provider of the row, so
  `assign_zoom_host_user` no longer counts the reservation, and another worker gets
  the same slot of the host.
* `log_in`: a member of a community team logs in over a live session. There is no
  group to choose from, so only the community is stored, and the group of
  another community stays selected; the group dashboard then ends the session.

`CapturedPaymentAccounted` holds without lock waits (`refunds`) and fails with
them (`late_webhook`). The two strict properties of `meeting_hosts` and `log_in`,
`HostCapacityRespected` and `SelectionConsistent`, are each false in one way only:
`OverbookedByDropsOnly` and `GroupLeftOnlyByLogIn` say so, are checked in
`meeting_sync` and `requests`, and are proved.
`WorkerNeverStuck`, `RecoveryBlocksCheckout` and `DeletionNotForgotten` appear only
in the runs that violate them.

### Observations outside the runs

Read in the code, not covered by a property:

* A manual requeue of a notification erases the claim time the rate limit counts
  (`F/notifications/manual_requeue_notifications.sql:35`), so an operator can push
  one more claim into a window; `ClaimRateRespected` is about rows that nobody
  requeues by hand.
* A refund that is asked for again after its key expired, while an earlier
  unrecorded refund fails late, produces a failure event for a refund the job
  does not follow (`S/payments/provider/stripe.rs:1538`).
* A resumed purchase does not carry the tax identifiers of the first attempt; the
  repeated creation of its page has other parameters under the same key and is
  refused until the hold expires
  (`F/payments/prepare_event_checkout_purchase.sql:231`).
* A meeting moved to another time keeps its host without counting the host's
  meetings at the new time (`S/meetings.rs:563`); a revoked token stays cached
  until it expires (`S/meetings/zoom/client.rs:84`).
* Two overlapping updates or publications of an event may skip or repeat the
  reschedule or publication notice (`H/dashboard/group/events.rs:585`, `:765`).
* A price window shorter than an hour whose start falls into the skipped hour of
  spring is inverted, and the database refuses the series
  (`H/dashboard/group/events/recurrence.rs:437`).
* Permissions are checked before the handler runs and may be withdrawn before
  the operation commits (`H/auth.rs:869`).

## 4. Bounds

Times of `NotificationDelivery` and `Enrollment` are ticks. What matters of a
duration is which deadline comes first: `HoldTime` < `OfferLife`, deadlines before,
at and after the end of registration and the start of the event. `MaxTime` lets
holds lapse in all enrollment scenarios and offers lapse in two of them.
`MaxOffers` and `MaxPurchases` bound the rows of a user; two purchases are needed
for a replacement beside a refund. One seat makes every second reservation a
conflict. Three users give a queue of two behind a seat that is taken.
`MaxLockWait = 1` reorders two transactions across one deadline. `MaxClaims`,
`SendAttempts` and `MaxRequeues` of one or two reach the end of each budget.
`ClaimHorizon` stops new claims so that runs end; `MaxTime` of `notification_claims`
leaves the last of them time to become stale.

In the job queues time is abstracted further: a job is due, and a claim stale, at
any moment. A claim that is taken from a worker still running counts as a fault.

* `RefundQueue`: one attempt and one requeue are two rounds with a budget that is
  exhausted in between; two provider refunds are one more than allowed; a claim
  id nobody remembers may be drawn again, so four are enough for two workers, the
  webhook and the row.
* `FinancialWork`: two attempts, one requeue, two faults: the last attempt is
  abandoned, and a slow worker meets its successor.
* `BadgeAwards`: lists of two entries and three recipients force a new list in the
  middle of a batch of two; two jobs overlap.
* `BadgeCredentials`: two requests, one revocation, two addresses, two keys.
* `ActivityTracker`: three views of three kinds, channels of two and one, so that
  each can be full.
* `MeetingSync`: `MaxMeetingEvents = 2` counts organizer actions and faults
  together; one host for two owners makes every second meeting a conflict.
* `EventLifecycle`: `MaxRequests = 2` overlapping requests over two events of a
  series; `CheckoutSession`: two holds and two tabs; `DashboardAccess`:
  `MaxVisits = 3` requests, two at a time, two members of three teams.
* `EventSeries`: hours as the grain of time; forms at two in the morning, the hour
  that summer time skips and repeats, for every day of a month, a week before each
  change and a fifth Sunday, with 12 and 13 additional events (one too many), a
  form without recurrence and one without a start. `MaxMonths = 40` months are
  enough for twelve fifth weekdays.

`requests` declares symmetry: events, requests, tabs, members and visits are model
values that no definition tells apart, and its properties are invariants and
action properties. No other run uses symmetry.

Deadlock checking is off where a model may stop: clocks and budgets of an
instance are finite, a canceled or past event accepts nothing more, and a queue
that is empty waits.

## 5. Fairness

Weak fairness is assumed only of loops that run for as long as a server does:

* `NotificationDelivery`: the clock and the recovery worker. Nothing is assumed of
  the delivery workers.
* `RefundQueue`, `FinancialWork`: each worker takes its next step, which may be a
  failing one, and the sweep for stale claims runs every minute. A worker may
  still be lost, at most `MaxFaults` times. Nothing is assumed of webhooks,
  administrators or the provider; `RefundResolves` speaks of behaviours in which the
  webhook handler comes to rest.
* `BadgeAwards`: the award workers and the recovery of their jobs.
* `MeetingSync`: the sync workers, the auto-end worker and the recovery worker.

Users, organizers and operators are never assumed to act.

## 6. Proofs

Eight modules hold theorems. Each theorem is about the specification the runs
check and is proved for every value of the constants: any sets of users, rows,
workers, sessions and requests, any capacities, and any naturals for the bounds
(`MaxTime`, `MaxMeetings`, ...). What the proofs assume of the constants are the
named `ASSUME`s of the component modules. Besides the ranges of the limits they
say that marker values are no members of the sets they stand beside
(`UnsetIsNothing`, `NoneIsNothing`, `MeetingNames`; a missing id is no id), that
sets that are counted are finite, and that the size of a status list is a power of
two (`PowerOfTwo`; it is 131072 in the code). TLC evaluates them on every run.

### NotificationDelivery

* `TypeCorrect`: `TypeOK` contains the budgets, so it is strengthened (`TypeInv`) by:
  a pending row has budget left, and a worker past its claim has a claim time.
* `AtMostOnceDelivery` (`AtMostOncePerRequeue`). The inductive invariant is an
  account: messages delivered, plus workers that may still send for a row, plus
  one credit if the row can be claimed again, never exceed one plus its requeues.
  Each action moves at most one unit between the three terms.
* `RecordedOutcomeTruthful` (`OutcomeMatchesClaim`). The inductive invariant adds
  that claim times lie in the past and identify a claim, that a worker knows
  whether its own claim delivered, and that no worker is still under the last
  claim of a row that is failed or pending again.
* `RateIsRespected` (`ClaimRateRespected`). The inductive invariant `RateInv` says that
  two claims of one row are more than a window apart, that a row remembers its
  last claim, and that a row waiting for its retry waits for longer than a window.
  So the claims of a window belong to different rows, and each of those rows is
  still counted by whoever claims with a timestamp in the window, however late
  its transaction gets the lock. The hypothesis is `BaseDelay >= RateWindow` (both
  are one minute in the code, and the comparison at the boundary is strict). The
  property, and so the invariant, speaks of the time before the first manual
  requeue, which erases a claim time, and with it the count.
  The delay doubles up to an exponent of 30; the provers evaluate each power.

### Enrollment and EnrollmentRefunds

`TiersNotOversold`, `QueuedHoldNothing` and `RequestsAreConsistent` follow from
`EnrollmentInvariant`, which is about the composed specification `RefundsSpec`;
`EnrollmentAlone` carries seats and queues over to `Spec`. The operations are
chains of transformers of the record of the tables (`Db`). For each transformer
one lemma says what its result has in every field and another that the invariant
passes from the record it is given to the one it returns; an operation is a
chain of these lemmas. The counting part compares what is promised
(`Promised(t)`) with what `get_event_ticket_type_allocated_seat_count` counts: after
a reconciliation with the timestamp of the transaction, however old, everything
that is promised is counted, so a seat found free is free. The invariant adds
that purchases name offers that exist, and that each purchase agrees with its
refund job and its request.

`EnrollmentAccounts` goes on with the accounts, in the same way. Its invariant
(`AccountsInvariant`) says that (user, id) is a key of offers and purchases and that
ids are counted up, so that a new row never takes an old one's place; that the
units of the code that are available and those that purchases hold add up to the
initial ones; that a user has one engaged purchase; that the offer of a purchase
that was paid is completed, and a completed offer has a purchase that was; that
the hold of an expired purchase ended in the past; and that a refund job agrees
with the status of its purchase.

* `InventoryIsConserved`: a transformer that ends purchases returns one unit for
  each of them that held one, and finds each of them once because rows have keys.
* `OffersKeepTheirPurchase`: an offer in checkout without a purchase that will
  decide it is returned by the next `SettleOffers`, and every operation that could
  leave one behind reconciles, takes the offer with the purchase, or completes it.
* `AttendanceIsPaidFor`: since a user has one engaged purchase, the refund of another
  one leaves the attendance alone.
* `PaymentsAreAccounted` has two parts. For any waits, a step that makes a payment
  missed leaves it on an expired purchase whose hold ended within the last
  `MaxLockWait` ticks (`MissedByLateWebhookOnly`): a webhook that misses it started
  before the end of the hold and waited until it was over. For `MaxLockWait = 0`
  there is no such tick, so `CapturedPaymentAccounted` follows. Each operation
  other than the two webhooks leaves settled payments where they are or moves
  them on towards a refund.
* `WorkerMakesProgress` is about reconciliations that go through: nothing that is
  due survives one, and every
  queue has somebody first (a smallest set of predecessors), who is promoted when
  there is a seat.
* `QueueIsRespected`: a promotion takes the heads of a queue, since an entry behind
  has at least as many before it. After it a tier with a queue has no seat to give
  (each promoted user takes a seat nobody was counted for), so an invitation that
  finds one meets no queue; a direct checkout asks for the queue itself; and every
  other operation hands on a seat that was already promised to the same user.

### RefundQueue

`RefundedOnce`, `RecordsAreTrue`, `FollowUpComes`, and the refinement
`QueueKeepsPromise` (initial states map to initial states of `RefundPromise`, every
step to a step of it or a stutter). The invariant `QueueInv` speaks of everything
the provider ever emitted: what somebody still holds was emitted, and what was
emitted bounds what the refund can be now. A worker about to create is covered by
the idempotency key or by all earlier refunds having failed; and a refund that
failed for good keeps its row, since only an operator moves it from there. An
attempt at this proof showed that the first version of `Local` had overlapping
`CASE` arms, whose result TLA+ leaves open although TLC takes the first; the arms
are disjoint now, in the order of the code's `if`s.

### DurableWork

* `WorkDoneOnce` (`FinancialWork`): whoever is about to create finds nothing made, or
  the provider still has the key of what was made; the key is forgotten only
  when nobody is about to create, and from then on the lookup finds the object.
* `ListsAreFresh`, `DownloadsVerify` (`BadgeCredentials`): what a request has read stays
  a lower bound of what is revoked, a cached list is indexed by the state it was
  signed for, and a cached export by the identity and key it carries.
* `OneActiveAward`, `BitsDistinct`, `NobodySkipped` (`BadgeAwards`): jobs that are still
  owed have disjoint recipients, those after a job's cursor hold no credential of
  it, and every bit in use belongs to a position that was handed out. Positions
  become bits by an odd stride, which is a permutation because the size of a list
  is a power of two. A batch is a recursive function over its recipients; what it
  keeps is shown up to the size of the batch, by taking the least step that would
  fail.
* `EachViewOnce` (`ActivityTracker`): for each view, the positions it has in the two
  channels, the batches, the tables and the log add up to one if it was accepted
  and to zero otherwise.

### CheckoutSession, DashboardAccess, EventLifecycle

* `PaymentsSettled`: a page is recorded only on the purchase it was opened for, and a
  user is only sent to a recorded page, so a paid page finds its purchase; and
  only the newest purchase can be pending or completed, so that at most one
  payment is kept.
* `SelectionsAgree` (`GroupLeftOnlyByLogIn`), `EndedSessionsStay`, `TeamsKeepAnAdmin`:
  every copy of a session, stored or in flight, has a group of its community or
  the mark of the log-in that left it, so writing back an old one does no harm; a
  request that is about to write a team holds its lock and read, under it, that
  another accepted administrator remains.
* `EveryoneIsTold`, `DeletionIsClean`: between the lock of a cancellation and its
  commit nobody enters, leaves, publishes or ends the locked events, so the
  recipients that were read are those who lose their place. `SalesFit`: a check
  that a request brings along is about the account it names, and the
  transaction that uses it finds that account to be the sponsor.

### MeetingSync

The invariant `SyncInv` says that, while its owner exists, a worker has the owner's
claim, so that nobody else makes, changes or deletes that meeting; that a meeting
has one row and an owner one meeting; and that what the worker did at the
provider is true of the state it claimed, which a completion compares with the
current one.

* `SyncedMeansSynced` (`InSyncIsTrue`), for any saves and faults.
* `NothingForgotten` (`NoLeak`) adds `RecordsTell`: a row, and a worker about to record
  a meeting, name the owner the meeting was made for, and a row is an orphan only
  when that owner is gone. So an owner that still exists has not lost the claim
  under which its meeting is recorded, and an orphan that is given up is the
  meeting of a removed session.
* `HostsNotOverbooked` (`OverbookedByDropsOnly`) adds `HostsFit`: a host's meetings on
  record and the owners whose meetings take it up fit its slots and `drops`. The
  owners that take up a host but are not counted as reservations (`Dropped`) are at
  most as many as `drops`, so a slot found free costs at most that many too many.
  It holds with every save, and `meeting_hosts` shows that the term is needed.

### What stays with TLC

* Liveness (`AbandonedClaimsResolved`, `RefundResolves`, `WorkSurfaces`, `AwardsResolve`,
  `ClaimsEnd`) and `ENABLED`: outside the prover's reach.
* `EventSeries` (`SeriesIsRegular`): what the calendar computes for every form, an
  induction over months and days.
* The properties the code does not have, which the six violation runs are about.

## 7. Plan

All safety and action properties of the passing runs are proved, except
`SeriesIsRegular`. What would come next:

1. `RecoveryBlocksCheckout` for direct checkouts, the part of it that holds.
2. An abstract specification of enrollment (a tier gives each seat to one user at
   a time, the queue first) that `EnrollmentRefunds` implements.
3. Approval of registrations and edits of tiers while people hold seats.

## 8. Not modelled

* Events that require approval, invitations of people without an account, and
  attendee statuses of the older invitation scheme.
* Amounts beyond zero or not zero, taxes, fees, currencies, price windows that
  change while a checkout is under way.
* Edits of tiers and codes while people hold them: a tier with sales cannot be
  removed, and the rest is validation of a form.
* The text of notifications and the audit log. Operations of `Enrollment` insert
  notifications in their transaction; delivery is modelled from the insert on.
  Reminders are inserted in the same way. Reschedule and publication notices.
* The recording webhook of meetings (one append to a row) and the provider's
  tokens and rate limits.
* Call for speakers: a status of one row that two people change under its lock.
* OAuth and OIDC exchanges, sign-up, password hashing; the table of single
  permissions, which is reduced to reading and managing.
* Signing, PNG files, and encodings of badges: cryptography and formatting.
* Search, statistics, templates, images, configuration, the redirector: lookups
  without state. These, with the Rust types, the query wrappers and the test
  doubles, are most of the Rust code; most of the modelled logic is SQL.
