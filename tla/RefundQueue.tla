----------------------------- MODULE RefundQueue -----------------------------
(***************************************************************************)
(* One durable refund job (event_purchase_refund) from the moment it is    *)
(* queued: the refund workers that claim it, look the refund up at the     *)
(* provider or create it, record the answer and finalize it; the webhooks  *)
(* that report the same refund on their own schedule; the recovery worker  *)
(* that releases abandoned claims; and the operators.  Jobs do not         *)
(* interact, so one is enough.                                             *)
(*                                                                         *)
(* A database function is one transaction and one action.  Between two of  *)
(* them a worker or a webhook handler works with the row it read before.   *)
(* Times are abstracted: a job is due, and a claim older than fifteen      *)
(* minutes, at any moment.                                                 *)
(***************************************************************************)
EXTENDS Integers, Sequences, FiniteSets

CONSTANTS
    Workers,
    ClaimIds,      \* claim ids; one that nobody remembers may be drawn again
    MaxAttempts,   \* automatic claims of a job (10)
    MaxRequeues,   \* bound: administrator requeues
    MaxRefunds,    \* bound: refunds the provider creates
    MaxFaults,     \* bound: lost workers and claims that expire under a worker
    KeysExpire     \* the provider forgets the idempotency key before a requeue

ASSUME RefundQueueAssumption ==
    /\ MaxAttempts \in Nat \ {0}
    /\ {MaxRequeues, MaxRefunds, MaxFaults} \subseteq Nat
    /\ KeysExpire \in BOOLEAN
    /\ "none" \notin ClaimIds

VARIABLES
    job,            \* the event_purchase_refund row
    purchaseStatus, \* event_purchase.status
    invoice,        \* provider_invoice_id is set
    queued,         \* follow-up work that was inserted
    refunds,        \* provider: status of each refund of the payment
    key,            \* provider: the answer kept for the idempotency key
    emitted,        \* provider: refund events, delivered at least once
    worker,         \* the workers: pc, held claim, row read, provider answer
    hook,           \* the webhook handler: pc, event, row read
    requeues, faults

jobVars == <<job, purchaseStatus, invoice, queued, refunds, key, emitted, worker, hook, requeues, faults>>

Statuses == {"provider-pending", "processing", "provider-succeeded", "provider-failed", "finalized"}
RefundStatuses == {"pending", "succeeded", "failed"}
NoAnswer == [id |-> 0, status |-> "none"]
Answers == [id: 1..MaxRefunds, status: RefundStatuses]

\* id is the pinned provider refund, 0 for none; refunded, finalized and
\* recovered say whether the column of that name (.._at) is set.
Rows == [status: Statuses, attempts: 0..MaxAttempts, claim: ClaimIds \cup {"none"},
         id: 0..MaxRefunds, refunded: BOOLEAN, terminal: BOOLEAN, finalized: BOOLEAN,
         recovered: BOOLEAN]

Idle == [pc |-> "idle", claim |-> "none", id |-> 0, answer |-> NoAnswer]
NoEvent == [pc |-> "idle", event |-> NoAnswer, row |-> [claim |-> "none", id |-> 0, terminal |-> FALSE]]

-----------------------------------------------------------------------------
(* Recording a provider answer; c is the claim the caller expects.  Each    *)
(* operator is the row after the transaction.  Where it raises nothing is   *)
(* written: see Raises.                                                     *)

\* The claim moved on, or another refund is pinned.
Raises(r, c, id) == r.claim # c \/ (r.id # 0 /\ r.id # id)

TerminallyFailed(r) == r.status = "provider-failed" /\ r.terminal

RecordPending(r, id) ==
    IF r.status \in {"finalized", "provider-succeeded"} \/ TerminallyFailed(r) THEN r
    ELSE [r EXCEPT !.claim = "none", !.id = id, !.status = "provider-pending", !.terminal = FALSE]

RecordSucceeded(r, id) ==
    IF TerminallyFailed(r) \/ r.status = "finalized" THEN r
    ELSE [r EXCEPT !.id = id, !.refunded = TRUE, !.terminal = FALSE,
            !.status = IF r.claim # "none" THEN "processing"
                       ELSE IF ~r.finalized THEN "provider-succeeded" ELSE "finalized"]

RecordTerminalFailed(r, id) ==
    IF TerminallyFailed(r) /\ r.id = id THEN r
    ELSE [r EXCEPT !.claim = "none", !.id = id, !.refunded = FALSE,
                   !.status = "provider-failed", !.terminal = TRUE]

\* persist_provider_refund_result: row is what the caller read before.
Persist(row, answer) ==
    CASE answer.status = "failed" ->
            /\ job' = IF row.terminal /\ row.id = answer.id THEN job
                      ELSE RecordTerminalFailed(job, answer.id)
            /\ purchaseStatus' = IF job' # job /\ job.finalized THEN "refund-recovery-pending" ELSE purchaseStatus
            /\ UNCHANGED queued
      [] answer.status = "pending" ->
            /\ job' = RecordPending(job, answer.id)
            /\ UNCHANGED <<purchaseStatus, queued>>
      [] answer.status = "succeeded" ->
            /\ job' = RecordSucceeded(job, answer.id)
            /\ IF TerminallyFailed(job) THEN UNCHANGED <<purchaseStatus, queued>>
               ELSE /\ purchaseStatus' = IF job.finalized THEN "refunded" ELSE purchaseStatus
                    /\ queued' = queued \cup {"fee-return"}
                                        \cup (IF invoice THEN {"credit-note"} ELSE {})

-----------------------------------------------------------------------------
(* The provider *)

Emit(id, status) == emitted' = emitted \cup {[id |-> id, status |-> status]}

\* POST /refunds.  A known key gets the answer it got the first time.
Create(answer) ==
    IF key # NoAnswer
    THEN answer = key /\ UNCHANGED <<refunds, key, emitted>>
    ELSE /\ Len(refunds) < MaxRefunds
         /\ answer.id = Len(refunds) + 1
         /\ refunds' = Append(refunds, answer.status)
         /\ key' = answer
         /\ Emit(answer.id, answer.status)

\* A pending refund succeeds or fails; one that succeeded may still fail.
RefundMoves(id, status) ==
    /\ \/ refunds[id] = "pending" /\ status \in {"succeeded", "failed"}
       \/ refunds[id] = "succeeded" /\ status = "failed"
    /\ refunds' = [refunds EXCEPT ![id] = status]
    /\ Emit(id, status)
    /\ UNCHANGED <<job, purchaseStatus, invoice, queued, key, worker, hook, requeues, faults>>

Matching_Any(pinned) == {}   \* mutant: the lookup finds nothing

\* The refunds a lookup considers: the pinned one, else those that did not fail.
Matching(pinned) ==
    {id \in DOMAIN refunds : IF pinned # 0 THEN id = pinned ELSE refunds[id] # "failed"}

\* The most useful of them; a success comes before a pending refund.
Found(pinned, answer) ==
    /\ answer.id \in Matching(pinned)
    /\ answer.status = refunds[answer.id]
    /\ answer.status # "succeeded" => \A id \in Matching(pinned) : refunds[id] # "succeeded"

-----------------------------------------------------------------------------
(* The workers *)

Remembered == {worker[w].claim : w \in Workers} \cup {hook.row.claim, job.claim}

Claimable ==
    \/ job.status = "provider-succeeded"
    \/ /\ job.status \in {"provider-pending", "provider-failed"}
       /\ ~job.terminal
       /\ job.attempts < MaxAttempts

Goto(w, pc) == worker' = [worker EXCEPT ![w].pc = pc]
Leave(w) == worker' = [worker EXCEPT ![w] = Idle]

\* claim_event_purchase_refund, and the worker's choice between finalizing a
\* success that is already recorded and asking the provider.
ClaimEventPurchaseRefund(w) ==
    LET c == CHOOSE id \in ClaimIds \ Remembered : TRUE IN
        /\ worker[w].pc = "idle"
        /\ Claimable
        /\ ClaimIds \ Remembered # {}
        /\ job' = [job EXCEPT !.status = "processing", !.claim = c,
                     !.attempts = IF job.status = "provider-succeeded" THEN @ ELSE @ + 1]
        /\ worker' = [worker EXCEPT ![w] = [pc |-> IF job.refunded THEN "finalize" ELSE "lookup",
                        claim |-> c, id |-> job.id, answer |-> NoAnswer]]
        /\ UNCHANGED <<purchaseStatus, invoice, queued, refunds, key, emitted, hook, requeues, faults>>

FindRefund(w) ==
    /\ worker[w].pc = "lookup"
    /\ IF Matching(worker[w].id) = {} THEN Goto(w, "create")
       ELSE \E answer \in Answers :
                /\ Found(worker[w].id, answer)
                /\ worker' = [worker EXCEPT ![w].pc = "record", ![w].answer = answer]
    /\ UNCHANGED <<job, purchaseStatus, invoice, queued, refunds, key, emitted, hook, requeues, faults>>

\* The answer to a refund that was created may be lost on its way back.
RefundPayment(w) ==
    /\ worker[w].pc = "create"
    /\ \E answer \in Answers :
          /\ Create(answer)
          /\ \/ worker' = [worker EXCEPT ![w].pc = "record", ![w].answer = answer]
             \/ Goto(w, "release")
    /\ UNCHANGED <<job, purchaseStatus, invoice, queued, hook, requeues, faults>>

\* A provider call or the composition of the notification fails.
StepFails(w) ==
    /\ worker[w].pc \in {"lookup", "create", "finalize"}
    /\ Goto(w, "release")
    /\ UNCHANGED <<job, purchaseStatus, invoice, queued, refunds, key, emitted, hook, requeues, faults>>

\* Records the answer, and goes on to finalize a success.
RecordAnswer(w) ==
    LET answer == worker[w].answer IN
    /\ worker[w].pc = "record"
    /\ IF Raises(job, worker[w].claim, answer.id)
       THEN Goto(w, "release") /\ UNCHANGED <<job, purchaseStatus, queued>>
       ELSE /\ Persist([id |-> worker[w].id, terminal |-> FALSE], answer)
            /\ IF answer.status = "succeeded" THEN Goto(w, "finalize") ELSE Leave(w)
    /\ UNCHANGED <<invoice, refunds, key, emitted, hook, requeues, faults>>

FinalizeAllowed(w) == job.claim = worker[w].claim /\ job.refunded

\* finalize_event_purchase_refund: the purchase is refunded and the attendee
\* told in the same transaction.
FinalizeJob(w) ==
    /\ worker[w].pc = "finalize"
    /\ IF job.status = "finalized" THEN Leave(w) /\ UNCHANGED <<job, purchaseStatus>>
       ELSE IF ~FinalizeAllowed(w) THEN Goto(w, "release") /\ UNCHANGED <<job, purchaseStatus>>
       ELSE /\ job' = [job EXCEPT !.status = "finalized", !.claim = "none", !.finalized = TRUE]
            /\ purchaseStatus' = "refunded"
            /\ Leave(w)
    /\ UNCHANGED <<invoice, queued, refunds, key, emitted, hook, requeues, faults>>

RetryRow_Terminal(r) ==   \* mutant: an error of the connection counts as a refusal
    [r EXCEPT !.status = "provider-failed", !.claim = "none", !.terminal = TRUE]

RetryRow(r) == [r EXCEPT !.status = "provider-failed", !.claim = "none", !.terminal = FALSE]

\* Releases the claim for another attempt, if it is still the worker's own.
ReleaseRetryableFailure(w) ==
    /\ worker[w].pc = "release"
    /\ job' = IF job.claim = worker[w].claim /\ job.status = "processing"
              THEN RetryRow(job) ELSE job
    /\ Leave(w)
    /\ UNCHANGED <<purchaseStatus, invoice, queued, refunds, key, emitted, hook, requeues, faults>>

\* The server stops; a durable claim stays behind.
WorkerLost(w) ==
    /\ worker[w].pc # "idle"
    /\ faults < MaxFaults
    /\ faults' = faults + 1
    /\ Leave(w)
    /\ UNCHANGED <<job, purchaseStatus, invoice, queued, refunds, key, emitted, hook, requeues>>

-----------------------------------------------------------------------------
(* Recovery, webhooks and operators *)

RequeueStale(r) ==
    [r EXCEPT !.claim = "none", !.terminal = FALSE,
              !.status = IF r.refunded THEN "provider-succeeded" ELSE "provider-failed"]

Stale_Attempts == job.status = "processing" /\ job.attempts < MaxAttempts   \* mutant: a last attempt is not released

Stale == job.status = "processing"

\* requeue_stale_event_purchase_refund_claims.  A claim whose worker still
\* runs expires too when the worker is slow.
RequeueStaleClaims ==
    LET alive == \E w \in Workers : worker[w].claim = job.claim IN
    /\ Stale
    /\ alive => faults < MaxFaults
    /\ faults' = IF alive THEN faults + 1 ELSE faults
    /\ job' = RequeueStale(job)
    /\ UNCHANGED <<purchaseStatus, invoice, queued, refunds, key, emitted, worker, hook, requeues>>

\* handle_refund_updated reads the job and drops what it must not apply.
LoadRefundEvent(event) ==
    /\ hook.pc = "idle"
    /\ event \in emitted
    /\ job.id \in {0, event.id}
    /\ event.status # "failed" =>
          ~TerminallyFailed(job) /\ job.status \notin {"finalized", "provider-succeeded"}
    /\ hook' = [pc |-> IF event.status = "succeeded" /\ job.id = 0 THEN "refresh" ELSE "persist",
                event |-> event, row |-> [claim |-> job.claim, id |-> job.id, terminal |-> job.terminal]]
    /\ UNCHANGED <<job, purchaseStatus, invoice, queued, refunds, key, emitted, worker, requeues, faults>>

RefreshedStatus(event) == refunds[event.id]

\* The status of a success that is not pinned is asked for again.
RefreshUnpinnedSuccess ==
    /\ hook.pc = "refresh"
    /\ hook' = [hook EXCEPT !.pc = "persist", !.event.status = RefreshedStatus(hook.event)]
    /\ UNCHANGED <<job, purchaseStatus, invoice, queued, refunds, key, emitted, worker, requeues, faults>>

\* A handler that raises is not acknowledged and the event comes again.
ReconcileRefundStatus ==
    /\ hook.pc = "persist"
    /\ IF Raises(job, hook.row.claim, hook.event.id) THEN UNCHANGED <<job, purchaseStatus, queued>>
       ELSE Persist(hook.row, hook.event)
    /\ hook' = NoEvent
    /\ UNCHANGED <<invoice, refunds, key, emitted, worker, requeues, faults>>

QueueCreditNote_Never == queued   \* mutant: an invoice that comes late queues nothing

QueueCreditNote == IF job.refunded THEN queued \cup {"credit-note"} ELSE queued

\* The invoice webhook, before or after the refund.
AttachInvoice ==
    /\ ~invoice
    /\ invoice' = TRUE
    /\ queued' = QueueCreditNote
    /\ UNCHANGED <<job, purchaseStatus, refunds, key, emitted, worker, hook, requeues, faults>>

\* An administrator retries exhausted work, possibly days later.
RequeueEventPurchaseRefund ==
    /\ requeues < MaxRequeues
    /\ job.status \in {"provider-failed", "provider-pending"}
    /\ ~job.terminal
    /\ job.attempts >= MaxAttempts
    /\ requeues' = requeues + 1
    /\ job' = [job EXCEPT !.attempts = 0, !.status = "provider-pending"]
    /\ key' \in {key} \cup
          (IF KeysExpire /\ \A w \in Workers : worker[w].pc # "create" THEN {NoAnswer} ELSE {})
    /\ UNCHANGED <<purchaseStatus, invoice, queued, refunds, emitted, worker, hook, faults>>

Recoverable_AnyFailure == job.status = "provider-failed" /\ job.id # 0 /\ ~job.recovered   \* mutant: retryable failures too

Recoverable == TerminallyFailed(job) /\ job.id # 0 /\ ~job.recovered

\* An operator closes a terminal failure that was settled elsewhere.
RecoverJob ==
    /\ Recoverable
    /\ purchaseStatus \in IF job.finalized THEN {"refund-recovery-pending", "refunded"} ELSE {"refund-pending"}
    /\ job' = [job EXCEPT !.finalized = TRUE, !.recovered = TRUE]
    /\ purchaseStatus' = "refunded"
    /\ UNCHANGED <<invoice, queued, refunds, key, emitted, worker, hook, requeues, faults>>

-----------------------------------------------------------------------------

JobInit ==
    /\ job = [status |-> "provider-pending", attempts |-> 0, claim |-> "none", id |-> 0,
              refunded |-> FALSE, terminal |-> FALSE, finalized |-> FALSE, recovered |-> FALSE]
    /\ purchaseStatus = "refund-pending"
    /\ invoice = FALSE
    /\ queued = {}
    /\ refunds = <<>>
    /\ key = NoAnswer
    /\ emitted = {}
    /\ worker = [w \in Workers |-> Idle]
    /\ hook = NoEvent
    /\ requeues = 0
    /\ faults = 0

WorkerStep(w) ==
    \/ ClaimEventPurchaseRefund(w) \/ FindRefund(w) \/ RefundPayment(w) \/ StepFails(w)
    \/ RecordAnswer(w) \/ FinalizeJob(w) \/ ReleaseRetryableFailure(w)

HookStep == RefreshUnpinnedSuccess \/ ReconcileRefundStatus

JobNext ==
    \/ \E w \in Workers : WorkerStep(w) \/ WorkerLost(w)
    \/ \E id \in DOMAIN refunds, status \in RefundStatuses : RefundMoves(id, status)
    \/ \E event \in emitted : LoadRefundEvent(event)
    \/ HookStep
    \/ RequeueStaleClaims
    \/ AttachInvoice
    \/ RequeueEventPurchaseRefund
    \/ RecoverJob

JobSpec == JobInit /\ [][JobNext]_jobVars

\* The workers loop for as long as the server runs and always take their next
\* step, a failing one at worst; the recovery worker sweeps every minute.
FairJobSpec ==
    /\ JobSpec
    /\ \A w \in Workers : WF_jobVars(WorkerStep(w))
    /\ WF_jobVars(RequeueStaleClaims)

-----------------------------------------------------------------------------
(* Properties *)

\* The customer is not paid twice: of all refunds the provider was asked for,
\* by workers that lost answers, claims or their key, at most one did not
\* fail.
AtMostOneLiveRefund ==
    Cardinality({id \in DOMAIN refunds : refunds[id] # "failed"}) <= 1

\* What is recorded was true: a terminal failure names a refund that failed,
\* and a recorded success one that succeeded (it may have failed since).
RecordMatchesProvider ==
    /\ TerminallyFailed(job) => job.id \in DOMAIN refunds /\ refunds[job.id] = "failed"
    /\ job.refunded => [id |-> job.id, status |-> "succeeded"] \in emitted

\* Whichever of the invoice and the refund is recorded first, the credit note
\* that links them is queued, and so is the return of the fee.
FollowUpQueued ==
    job.refunded => "fee-return" \in queued /\ (invoice => "credit-note" \in queued)

\* A refund does not stay in the middle: once the provider is done repeating
\* its events, it is and remains finalized, or failed for good, or out of
\* attempts and left to an administrator.
RefundResolves ==
    <>[](hook.pc = "idle") =>
    <>[](\/ job.status = "finalized" \/ TerminallyFailed(job)
         \/ job.attempts = MaxAttempts /\ job.status \in {"provider-pending", "provider-failed"})

-----------------------------------------------------------------------------
(* The promise *)

\* The refund that the job follows: the pinned one, or the last one made.
Money ==
    LET id == IF job.id # 0 THEN job.id ELSE Len(refunds) IN
    CASE id = 0 -> "owed"
      [] id # 0 /\ refunds[id] = "pending" -> "owed"
      [] id # 0 /\ refunds[id] = "succeeded" -> "returned"
      [] id # 0 /\ refunds[id] = "failed" -> "failed"

Local ==
    IF job.recovered THEN "recovered"
    ELSE CASE purchaseStatus = "refund-recovery-pending" -> "recovering"
           [] purchaseStatus = "refunded" -> "settled"
           [] purchaseStatus = "refund-pending" -> "open"

Promise == INSTANCE RefundPromise WITH money <- Money, local <- Local

\* The queue keeps the promise: settled once, only after the provider paid,
\* recovered once, only after the provider failed.
KeepsPromise == Promise!PromiseSpec
=============================================================================
