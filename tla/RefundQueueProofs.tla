-------------------------- MODULE RefundQueueProofs --------------------------
(***************************************************************************)
(* The refund queue for any workers, claims, attempts, requeues and faults:*)
(* at most one refund of a payment is alive, what is recorded was true at  *)
(* the provider, the follow-up work is queued and the promise is kept.     *)
(*                                                                         *)
(* The argument: everything a worker or a webhook handler holds was once   *)
(* emitted by the provider, and what was emitted bounds what the refund    *)
(* can be now.  A worker about to create is covered by the idempotency key *)
(* or by all earlier refunds having failed.  A refund that failed for good *)
(* keeps its row: only an operator moves it from there.                    *)
(***************************************************************************)
EXTENDS RefundQueue, FiniteSetTheorems, TLAPS

\* The columns of the row and what the argument needs of their types.
RowTypes ==
    /\ DOMAIN job = {"status", "attempts", "claim", "id", "refunded", "terminal", "finalized",
                     "recovered"}
    /\ job.id \in Nat
    /\ {job.refunded, job.terminal, job.finalized, job.recovered} \subseteq BOOLEAN

AnswerTypes == [id: Nat, status: RefundStatuses]

\* The types of what the provider keeps.
ProviderTypes ==
    /\ refunds \in Seq(RefundStatuses)
    /\ emitted \in SUBSET AnswerTypes

\* The shape of what the workers and the webhook handler remember.
HolderTypes ==
    /\ DOMAIN worker = Workers
    /\ \A w \in Workers : DOMAIN worker[w] = {"pc", "claim", "id", "answer"}
    /\ DOMAIN hook = {"pc", "event", "row"}

\* What the provider emitted bounds what a refund is now.
EmittedHolds ==
    \A e \in emitted :
        /\ e.id \in DOMAIN refunds
        /\ e.status = "failed" => refunds[e.id] = "failed"
        /\ e.status = "succeeded" => refunds[e.id] # "pending"

\* What a refund is now was emitted.
StatusEmitted == \A id \in DOMAIN refunds : [id |-> id, status |-> refunds[id]] \in emitted

\* Every answer that somebody still holds was emitted.
AnswersEmitted ==
    /\ key # NoAnswer => key \in emitted
    /\ \A w \in Workers : worker[w].pc = "record" => worker[w].answer \in emitted
    /\ hook.pc # "idle" => hook.event \in emitted

\* All refunds but the last have failed.
OnlyLastLives ==
    \A id \in DOMAIN refunds : id # Len(refunds) => refunds[id] = "failed"

\* A worker about to create holds no success that the lookup missed: the key
\* is known, or all that was made has failed.
CreationCovered ==
    \A w \in Workers : worker[w].pc = "create" =>
        key # NoAnswer \/ \A id \in DOMAIN refunds : refunds[id] = "failed"

\* A pinned refund exists, and whoever read a pin finds the refund again.
PinKnown == job.id # 0 => job.id \in DOMAIN refunds

ReadPinsKnown ==
    \A w \in Workers : worker[w].pc = "lookup" => worker[w].id = 0 \/ worker[w].id \in DOMAIN refunds

\* What the row and the purchase say of each other.
PurchaseFollows ==
    /\ ~job.finalized => purchaseStatus = "refund-pending" /\ ~job.recovered
    /\ job.finalized => job.id # 0
    /\ job.finalized /\ ~TerminallyFailed(job) => purchaseStatus = "refunded" /\ ~job.recovered
    /\ job.finalized /\ TerminallyFailed(job) /\ ~job.recovered => purchaseStatus = "refund-recovery-pending"
    /\ job.recovered => purchaseStatus = "refunded"
    /\ TerminallyFailed(job) => ~job.refunded

ProviderInv == ProviderTypes /\ EmittedHolds /\ StatusEmitted /\ OnlyLastLives
HoldersInv == HolderTypes /\ AnswersEmitted /\ CreationCovered /\ ReadPinsKnown
RowInv == RowTypes /\ PinKnown /\ RecordMatchesProvider /\ FollowUpQueued /\ PurchaseFollows

QueueInv == ProviderInv /\ HoldersInv /\ RowInv

LEMMA InitQueueInv == JobInit => QueueInv
  <1>. SUFFICES ASSUME JobInit PROVE QueueInv
    OBVIOUS
  <1>1. ProviderInv
    BY DEF JobInit, ProviderInv, ProviderTypes, EmittedHolds, StatusEmitted, OnlyLastLives
  <1>2. HoldersInv
    BY DEF JobInit, HoldersInv, HolderTypes, AnswersEmitted, CreationCovered, ReadPinsKnown, Idle, NoEvent
  <1>3. RowInv
    BY DEF JobInit, RowInv, RowTypes, PinKnown, RecordMatchesProvider, FollowUpQueued, PurchaseFollows,
           TerminallyFailed
  <1>. QED
    BY <1>1, <1>2, <1>3 DEF QueueInv

-----------------------------------------------------------------------------
(* The row *)

LEMMA RefundedIsPinned ==
  ASSUME ProviderInv, RowInv
  PROVE  job.refunded \/ TerminallyFailed(job) => job.id # 0
  <1>1. \A e \in emitted : e.id \in DOMAIN refunds
    BY DEF ProviderInv, EmittedHolds
  <1>2. DOMAIN refunds = 1..Len(refunds) /\ Len(refunds) \in Nat
    BY DEF ProviderInv, ProviderTypes
  <1>3. job.refunded => [id |-> job.id, status |-> "succeeded"].id \in DOMAIN refunds
    BY <1>1 DEF RowInv, RecordMatchesProvider
  <1>. QED
    BY <1>2, <1>3 DEF RowInv, RecordMatchesProvider

LEMMA RowPersist ==
  ASSUME ProviderInv, RowInv, NEW row, NEW answer \in emitted,
         ~(job.id # 0 /\ job.id # answer.id), Persist(row, answer),
         UNCHANGED <<invoice, refunds, emitted>>
  PROVE  RowInv'
  <1>. USE DEF RowInv, RowTypes, PinKnown, RecordMatchesProvider, FollowUpQueued, PurchaseFollows,
               TerminallyFailed
  <1>0. answer.id \in Nat \ {0} /\ answer.id \in DOMAIN refunds
        /\ (answer.status = "failed" => refunds[answer.id] = "failed")
        /\ [id |-> answer.id, status |-> answer.status] = answer
    BY DEF ProviderInv, ProviderTypes, EmittedHolds, AnswerTypes
  <1>1. CASE answer.status = "failed"
    <2>1. /\ job' = job \/ job' = RecordTerminalFailed(job, answer.id)
          /\ purchaseStatus' = IF job' # job /\ job.finalized THEN "refund-recovery-pending" ELSE purchaseStatus
          /\ queued' = queued
      BY <1>1 DEF Persist
    <2>2. CASE job' = job
      BY <2>1, <2>2
    <2>3. CASE /\ ~TerminallyFailed(job)
               /\ job' = [job EXCEPT !.claim = "none", !.id = answer.id, !.refunded = FALSE,
                                     !.status = "provider-failed", !.terminal = TRUE]
      <3>1. /\ RowTypes' /\ job'.id = answer.id /\ TerminallyFailed(job)' /\ ~job'.refunded
            /\ job'.finalized = job.finalized /\ job'.recovered = job.recovered
        BY <1>0, <2>3
      <3>2. job' # job
        BY <2>3, <3>1
      <3>. QED
        BY <1>0, <1>1, <2>1, <2>3, <3>1, <3>2
    <2>4. TerminallyFailed(job) => job.id = answer.id
      BY RefundedIsPinned
    <2>. QED
      BY <2>1, <2>2, <2>3, <2>4 DEF RecordTerminalFailed
  <1>2. CASE answer.status = "pending"
    <2>1. purchaseStatus' = purchaseStatus /\ queued' = queued /\ job' = RecordPending(job, answer.id)
      BY <1>2 DEF Persist
    <2>2. CASE job' = job
      BY <2>1, <2>2
    <2>3. CASE /\ ~TerminallyFailed(job)
               /\ job' = [job EXCEPT !.claim = "none", !.id = answer.id,
                                     !.status = "provider-pending", !.terminal = FALSE]
      <3>1. /\ RowTypes' /\ job'.id = answer.id /\ ~TerminallyFailed(job)'
            /\ job'.refunded = job.refunded /\ job'.finalized = job.finalized
            /\ job'.recovered = job.recovered
        BY <1>0, <2>3
      <3>2. job.refunded => job.id = answer.id
        BY RefundedIsPinned
      <3>. QED
        BY <1>0, <2>1, <2>3, <3>1, <3>2
    <2>. QED
      BY <2>1, <2>2, <2>3 DEF RecordPending
  <1>3. CASE answer.status = "succeeded"
    <2>1. job' = RecordSucceeded(job, answer.id)
      BY <1>3 DEF Persist
    <2>2. CASE TerminallyFailed(job)
      <3>1. job' = job /\ UNCHANGED <<purchaseStatus, queued>>
        BY <1>3, <2>1, <2>2 DEF Persist, RecordSucceeded
      <3>. QED
        BY <3>1
    <2>3. CASE ~TerminallyFailed(job)
      <3>1. /\ purchaseStatus' = IF job.finalized THEN "refunded" ELSE purchaseStatus
            /\ queued' = queued \cup {"fee-return"} \cup (IF invoice THEN {"credit-note"} ELSE {})
        BY <1>3, <2>3 DEF Persist
      <3>2. \/ job' = job
            \/ \E status \in {"processing", "provider-succeeded", "finalized"} :
                  job' = [job EXCEPT !.id = answer.id, !.refunded = TRUE, !.terminal = FALSE,
                                     !.status = status]
        BY <2>1 DEF RecordSucceeded
      <3>3. CASE job' = job
        BY <1>0, <2>3, <3>1, <3>3
      <3>4. ASSUME NEW status \in {"processing", "provider-succeeded", "finalized"},
                   job' = [job EXCEPT !.id = answer.id, !.refunded = TRUE, !.terminal = FALSE,
                                      !.status = status]
            PROVE  RowInv'
        <4>1. /\ RowTypes' /\ job'.id = answer.id /\ ~TerminallyFailed(job)' /\ job'.refunded
              /\ job'.finalized = job.finalized /\ job'.recovered = job.recovered
          BY <1>0, <3>4
        <4>. QED
          BY <1>0, <1>3, <2>3, <3>1, <4>1
      <3>. QED
        BY <3>2, <3>3, <3>4
    <2>. QED
      BY <2>2, <2>3
  <1>. QED
    BY <1>1, <1>2, <1>3 DEF ProviderInv, ProviderTypes, AnswerTypes, RefundStatuses

\* A row that nobody writes stays right while the provider goes on.
LEMMA RowKept ==
  ASSUME RowInv, UNCHANGED <<job, purchaseStatus, invoice, queued>>,
         emitted \subseteq emitted', DOMAIN refunds \subseteq DOMAIN refunds',
         \A id \in DOMAIN refunds : refunds[id] = "failed" => refunds'[id] = "failed"
  PROVE  RowInv'
  BY DEF RowInv, RowTypes, PinKnown, RecordMatchesProvider, FollowUpQueued, PurchaseFollows,
         TerminallyFailed

-----------------------------------------------------------------------------
(* The provider *)

LEMMA ProviderCreate ==
  ASSUME ProviderInv, NEW answer \in Answers, Create(answer),
         key # NoAnswer => key \in emitted,
         key # NoAnswer \/ \A id \in DOMAIN refunds : refunds[id] = "failed"
  PROVE  /\ ProviderInv'
         /\ answer \in emitted' /\ key' = answer
         /\ emitted \subseteq emitted' /\ DOMAIN refunds \subseteq DOMAIN refunds'
         /\ \A id \in DOMAIN refunds : refunds'[id] = refunds[id]
  <1>. USE DEF ProviderInv, ProviderTypes
  <1>1. CASE key # NoAnswer
    BY <1>1 DEF Create, EmittedHolds, StatusEmitted, OnlyLastLives
  <1>2. CASE key = NoAnswer
    <2>1. /\ answer.id = Len(refunds) + 1 /\ refunds' = Append(refunds, answer.status)
          /\ key' = answer /\ emitted' = emitted \cup {answer}
          /\ answer \in AnswerTypes /\ answer.status \in RefundStatuses
      BY <1>2 DEF Create, Emit, Answers, AnswerTypes
    <2>2. /\ refunds' \in Seq(RefundStatuses) /\ Len(refunds') = Len(refunds) + 1
          /\ DOMAIN refunds' = DOMAIN refunds \cup {answer.id}
          /\ refunds'[answer.id] = answer.status
          /\ \A id \in DOMAIN refunds : id # answer.id /\ refunds'[id] = refunds[id]
      BY <2>1
    <2>3. EmittedHolds'
      BY <2>1, <2>2 DEF EmittedHolds
    <2>4. StatusEmitted'
      <3>1. answer = [id |-> answer.id, status |-> refunds'[answer.id]]
        BY <2>1, <2>2 DEF AnswerTypes
      <3>2. \A id \in DOMAIN refunds : [id |-> id, status |-> refunds'[id]] \in emitted
        BY <2>2 DEF StatusEmitted
      <3>. QED
        BY <2>1, <2>2, <3>1, <3>2 DEF StatusEmitted
    <2>5. OnlyLastLives'
      BY <1>2, <2>1, <2>2 DEF OnlyLastLives
    <2>. QED
      BY <2>1, <2>2, <2>3, <2>4, <2>5
  <1>. QED
    BY <1>1, <1>2

LEMMA ProviderMove ==
  ASSUME ProviderInv, NEW id \in DOMAIN refunds, NEW status \in RefundStatuses,
         RefundMoves(id, status)
  PROVE  /\ ProviderInv'
         /\ emitted \subseteq emitted' /\ DOMAIN refunds = DOMAIN refunds'
         /\ \A i \in DOMAIN refunds : refunds[i] = "failed" => refunds'[i] = "failed"
  <1>. USE DEF ProviderInv, ProviderTypes
  <1>1. /\ refunds' \in Seq(RefundStatuses) /\ DOMAIN refunds' = DOMAIN refunds
        /\ Len(refunds') = Len(refunds)
        /\ refunds'[id] = status /\ status # "pending"
        /\ refunds[id] # "failed"
        /\ status = "succeeded" => refunds[id] = "pending"
        /\ \A i \in DOMAIN refunds : i # id => refunds'[i] = refunds[i]
    BY DEF RefundMoves
  <1>2. emitted' = emitted \cup {[id |-> id, status |-> status]} /\ id \in Nat
    BY DEF RefundMoves, Emit
  <1>3. EmittedHolds'
    BY <1>1, <1>2 DEF EmittedHolds
  <1>4. StatusEmitted'
    <2>1. \A i \in DOMAIN refunds : i # id => [id |-> i, status |-> refunds'[i]] \in emitted
      BY <1>1 DEF StatusEmitted
    <2>2. [id |-> id, status |-> refunds'[id]] = [id |-> id, status |-> status]
      BY <1>1
    <2>. QED
      BY <1>1, <1>2, <2>1, <2>2 DEF StatusEmitted
  <1>5. OnlyLastLives'
    BY <1>1 DEF OnlyLastLives
  <1>. QED
    BY <1>1, <1>2, <1>3, <1>4, <1>5 DEF AnswerTypes

LEMMA ProviderKept ==
  ASSUME ProviderInv, UNCHANGED <<refunds, emitted>>
  PROVE  ProviderInv'
  BY DEF ProviderInv, ProviderTypes, EmittedHolds, StatusEmitted, OnlyLastLives

-----------------------------------------------------------------------------
(* The inductive step, action by action *)

LEMMA NextQueueInv == QueueInv /\ [JobNext]_jobVars => QueueInv'
  <1>. SUFFICES ASSUME QueueInv, [JobNext]_jobVars PROVE QueueInv'
    OBVIOUS
  <1>. ProviderInv /\ HoldersInv /\ RowInv
    BY DEF QueueInv
  <1>. USE DEF HoldersInv, HolderTypes, AnswersEmitted, CreationCovered, ReadPinsKnown
  <1>1. ASSUME NEW w \in Workers, ClaimEventPurchaseRefund(w) PROVE QueueInv'
    <2>1. ProviderInv'
      BY <1>1, ProviderKept DEF ClaimEventPurchaseRefund
    <2>2. HoldersInv'
      BY <1>1 DEF ClaimEventPurchaseRefund, RowInv, PinKnown
    <2>3. RowInv'
      BY <1>1 DEF ClaimEventPurchaseRefund, Claimable, RowInv, RowTypes, PinKnown,
                  RecordMatchesProvider, FollowUpQueued, PurchaseFollows, TerminallyFailed
    <2>. QED
      BY <2>1, <2>2, <2>3 DEF QueueInv
  <1>2. ASSUME NEW w \in Workers, FindRefund(w) PROVE QueueInv'
    <2>1. ProviderInv' /\ RowInv'
      BY <1>2, ProviderKept, RowKept DEF FindRefund
    <2>2. CASE Matching(worker[w].id) = {} /\ Goto(w, "create")
      <3>1. \A id \in DOMAIN refunds : refunds[id] = "failed"
        BY <1>2, <2>2 DEF Matching, FindRefund
      <3>2. HoldersInv'
        BY <1>2, <2>2, <3>1 DEF FindRefund, Goto
      <3>. QED
        BY <2>1, <3>2 DEF QueueInv
    <2>3. ASSUME NEW answer \in Answers, Found(worker[w].id, answer),
                 worker' = [worker EXCEPT ![w].pc = "record", ![w].answer = answer]
          PROVE  QueueInv'
      <3>1. answer = [id |-> answer.id, status |-> refunds[answer.id]] /\ answer.id \in DOMAIN refunds
        BY <2>3 DEF Found, Matching, Answers
      <3>2. answer \in emitted
        BY <3>1 DEF ProviderInv, StatusEmitted
      <3>3. /\ UNCHANGED <<hook, key, emitted, refunds>> /\ DOMAIN worker' = Workers
            /\ \A v \in Workers : v # w => worker'[v] = worker[v]
            /\ DOMAIN worker'[w] = DOMAIN worker[w] /\ worker'[w].pc = "record"
            /\ worker'[w].answer = answer
        BY <1>2, <2>3 DEF FindRefund
      <3>4. HoldersInv'
        BY <3>2, <3>3
      <3>. QED
        BY <2>1, <3>4 DEF QueueInv
    <2>. QED
      BY <1>2, <2>2, <2>3 DEF FindRefund
  <1>3. ASSUME NEW w \in Workers, RefundPayment(w) PROVE QueueInv'
    <2>1. PICK answer \in Answers :
              /\ Create(answer)
              /\ \/ worker' = [worker EXCEPT ![w].pc = "record", ![w].answer = answer]
                 \/ Goto(w, "release")
      BY <1>3 DEF RefundPayment
    <2>2. worker[w].pc = "create" /\ UNCHANGED <<job, purchaseStatus, invoice, queued, hook>>
      BY <1>3 DEF RefundPayment
    <2>3. /\ ProviderInv'
          /\ answer \in emitted' /\ key' = answer
          /\ emitted \subseteq emitted' /\ DOMAIN refunds \subseteq DOMAIN refunds'
          /\ \A id \in DOMAIN refunds : refunds'[id] = refunds[id]
      BY <2>1, <2>2, ProviderCreate
    <2>4. RowInv'
      BY <2>2, <2>3, RowKept
    <2>5. key' # NoAnswer
      BY <2>3, NoAnswer.status \notin RefundStatuses DEF Answers, NoAnswer, RefundStatuses
    <2>6. HoldersInv'
      BY <2>1, <2>2, <2>3, <2>5 DEF Goto
    <2>. QED
      BY <2>3, <2>4, <2>6 DEF QueueInv
  <1>4. ASSUME NEW w \in Workers, StepFails(w) PROVE QueueInv'
    <2>1. ProviderInv' /\ RowInv'
      BY <1>4, ProviderKept, RowKept DEF StepFails
    <2>2. HoldersInv'
      BY <1>4 DEF StepFails, Goto
    <2>. QED
      BY <2>1, <2>2 DEF QueueInv
  <1>5. ASSUME NEW w \in Workers, RecordAnswer(w) PROVE QueueInv'
    <2>1. ProviderInv'
      BY <1>5, ProviderKept DEF RecordAnswer
    <2>2. HoldersInv'
      BY <1>5 DEF RecordAnswer, Goto, Leave, Idle
    <2>3. RowInv'
      <3>1. CASE UNCHANGED <<job, purchaseStatus, queued>>
        BY <1>5, <3>1, RowKept DEF RecordAnswer
      <3>2. CASE /\ ~Raises(job, worker[w].claim, worker[w].answer.id)
                 /\ Persist([id |-> worker[w].id, terminal |-> FALSE], worker[w].answer)
        <4>1. worker[w].answer \in emitted /\ UNCHANGED <<invoice, refunds, emitted>>
          BY <1>5 DEF RecordAnswer
        <4>2. ~(job.id # 0 /\ job.id # worker[w].answer.id)
          BY <3>2 DEF Raises
        <4>. QED
          BY <3>2, <4>1, <4>2, RowPersist
      <3>. QED
        BY <1>5, <3>1, <3>2 DEF RecordAnswer
    <2>. QED
      BY <2>1, <2>2, <2>3 DEF QueueInv
  <1>6. ASSUME NEW w \in Workers, FinalizeJob(w) PROVE QueueInv'
    <2>1. ProviderInv'
      BY <1>6, ProviderKept DEF FinalizeJob
    <2>2. HoldersInv'
      BY <1>6 DEF FinalizeJob, Goto, Leave, Idle
    <2>3. RowInv'
      <3>1. CASE UNCHANGED <<job, purchaseStatus>>
        BY <1>6, <3>1, RowKept DEF FinalizeJob
      <3>2. CASE /\ job.refunded /\ purchaseStatus' = "refunded"
                 /\ job' = [job EXCEPT !.status = "finalized", !.claim = "none", !.finalized = TRUE]
        <4>1. job.id # 0
          BY <3>2, RefundedIsPinned
        <4>2. /\ UNCHANGED <<invoice, queued, refunds, emitted>>
              /\ DOMAIN job' = DOMAIN job /\ job'.id = job.id /\ job'.refunded = job.refunded
              /\ job'.terminal = job.terminal /\ job'.recovered = job.recovered
              /\ job'.finalized = TRUE /\ ~TerminallyFailed(job)'
          BY <1>6, <3>2 DEF FinalizeJob, RowInv, RowTypes, TerminallyFailed
        <4>3. ~job.recovered
          BY <3>2 DEF RowInv, PurchaseFollows
        <4>. QED
          BY <3>2, <4>1, <4>2, <4>3 DEF RowInv, RowTypes, PinKnown, RecordMatchesProvider,
                                        FollowUpQueued, PurchaseFollows
      <3>. QED
        BY <1>6, <3>1, <3>2 DEF FinalizeJob, FinalizeAllowed
    <2>. QED
      BY <2>1, <2>2, <2>3 DEF QueueInv
  <1>7. ASSUME NEW w \in Workers, ReleaseRetryableFailure(w) PROVE QueueInv'
    <2>1. ProviderInv'
      BY <1>7, ProviderKept DEF ReleaseRetryableFailure
    <2>2. HoldersInv'
      BY <1>7 DEF ReleaseRetryableFailure, Leave, Idle
    <2>3. RowInv'
      <3>1. CASE job' = job
        BY <1>7, <3>1, RowKept DEF ReleaseRetryableFailure
      <3>2. CASE job.status = "processing" /\ job' = RetryRow(job)
        BY ZenonT(40), <1>7, <3>2 DEF ReleaseRetryableFailure, RetryRow, RowInv, RowTypes, PinKnown,
                RecordMatchesProvider, FollowUpQueued, PurchaseFollows, TerminallyFailed
      <3>. QED
        BY <1>7, <3>1, <3>2 DEF ReleaseRetryableFailure
    <2>. QED
      BY <2>1, <2>2, <2>3 DEF QueueInv
  <1>8. ASSUME NEW w \in Workers, WorkerLost(w) PROVE QueueInv'
    <2>1. ProviderInv' /\ RowInv'
      BY <1>8, ProviderKept, RowKept DEF WorkerLost
    <2>2. HoldersInv'
      BY <1>8 DEF WorkerLost, Leave, Idle
    <2>. QED
      BY <2>1, <2>2 DEF QueueInv
  <1>9. ASSUME NEW id \in DOMAIN refunds, NEW status \in RefundStatuses, RefundMoves(id, status)
        PROVE  QueueInv'
    <2>1. /\ ProviderInv'
          /\ emitted \subseteq emitted' /\ DOMAIN refunds = DOMAIN refunds'
          /\ \A i \in DOMAIN refunds : refunds[i] = "failed" => refunds'[i] = "failed"
      BY <1>9, ProviderMove
    <2>2. UNCHANGED <<job, purchaseStatus, invoice, queued, key, worker, hook>>
      BY <1>9 DEF RefundMoves
    <2>3. RowInv'
      BY <2>1, <2>2, RowKept
    <2>4. HoldersInv'
      BY <2>1, <2>2
    <2>. QED
      BY <2>1, <2>3, <2>4 DEF QueueInv
  <1>10. ASSUME NEW event \in emitted, LoadRefundEvent(event) PROVE QueueInv'
    <2>1. ProviderInv' /\ RowInv'
      BY <1>10, ProviderKept, RowKept DEF LoadRefundEvent
    <2>2. HoldersInv'
      BY <1>10 DEF LoadRefundEvent
    <2>. QED
      BY <2>1, <2>2 DEF QueueInv
  <1>11. CASE RefreshUnpinnedSuccess
    <2>1. ProviderInv' /\ RowInv'
      BY <1>11, ProviderKept, RowKept DEF RefreshUnpinnedSuccess
    <2>2. hook.event \in emitted /\ hook.event \in AnswerTypes /\ hook.event.id \in DOMAIN refunds
      BY <1>11 DEF RefreshUnpinnedSuccess, ProviderInv, ProviderTypes, EmittedHolds
    <2>3. hook'.event = [id |-> hook.event.id, status |-> refunds[hook.event.id]]
      BY <1>11, <2>2 DEF RefreshUnpinnedSuccess, RefreshedStatus, AnswerTypes
    <2>4. hook'.event \in emitted
      BY <2>2, <2>3 DEF ProviderInv, StatusEmitted
    <2>5. HoldersInv'
      BY <1>11, <2>4 DEF RefreshUnpinnedSuccess
    <2>. QED
      BY <2>1, <2>5 DEF QueueInv
  <1>12. CASE ReconcileRefundStatus
    <2>1. ProviderInv'
      BY <1>12, ProviderKept DEF ReconcileRefundStatus
    <2>2. HoldersInv'
      BY <1>12 DEF ReconcileRefundStatus, NoEvent
    <2>3. RowInv'
      <3>1. CASE UNCHANGED <<job, purchaseStatus, queued>>
        BY <1>12, <3>1, RowKept DEF ReconcileRefundStatus
      <3>2. CASE ~Raises(job, hook.row.claim, hook.event.id) /\ Persist(hook.row, hook.event)
        <4>1. hook.event \in emitted /\ UNCHANGED <<invoice, refunds, emitted>>
          BY <1>12 DEF ReconcileRefundStatus
        <4>2. ~(job.id # 0 /\ job.id # hook.event.id)
          BY <3>2 DEF Raises
        <4>. QED
          BY <3>2, <4>1, <4>2, RowPersist
      <3>. QED
        BY <1>12, <3>1, <3>2 DEF ReconcileRefundStatus
    <2>. QED
      BY <2>1, <2>2, <2>3 DEF QueueInv
  <1>13. CASE RequeueStaleClaims
    <2>1. ProviderInv' /\ HoldersInv'
      BY <1>13, ProviderKept DEF RequeueStaleClaims
    <2>2. RowInv'
      BY <1>13 DEF RequeueStaleClaims, RequeueStale, Stale, RowInv, RowTypes, PinKnown,
                   RecordMatchesProvider, FollowUpQueued, PurchaseFollows, TerminallyFailed
    <2>. QED
      BY <2>1, <2>2 DEF QueueInv
  <1>14. CASE AttachInvoice
    <2>1. ProviderInv' /\ HoldersInv'
      BY <1>14, ProviderKept DEF AttachInvoice
    <2>2. RowInv'
      BY <1>14 DEF AttachInvoice, QueueCreditNote, RowInv, RowTypes, PinKnown,
                   RecordMatchesProvider, FollowUpQueued, PurchaseFollows, TerminallyFailed
    <2>. QED
      BY <2>1, <2>2 DEF QueueInv
  <1>15. CASE RequeueEventPurchaseRefund
    <2>1. ProviderInv'
      BY <1>15, ProviderKept DEF RequeueEventPurchaseRefund
    <2>2. HoldersInv'
      BY <1>15 DEF RequeueEventPurchaseRefund
    <2>3. RowInv'
      BY <1>15 DEF RequeueEventPurchaseRefund, RowInv, RowTypes, PinKnown,
                   RecordMatchesProvider, FollowUpQueued, PurchaseFollows, TerminallyFailed
    <2>. QED
      BY <2>1, <2>2, <2>3 DEF QueueInv
  <1>16. CASE RecoverJob
    <2>1. ProviderInv' /\ HoldersInv'
      BY <1>16, ProviderKept DEF RecoverJob
    <2>2. RowInv'
      BY <1>16 DEF RecoverJob, Recoverable, RowInv, RowTypes, PinKnown,
                   RecordMatchesProvider, FollowUpQueued, PurchaseFollows, TerminallyFailed
    <2>. QED
      BY <2>1, <2>2 DEF QueueInv
  <1>17. CASE UNCHANGED jobVars
    <2>1. ProviderInv' /\ RowInv' /\ HoldersInv'
      BY <1>17, ProviderKept, RowKept DEF jobVars
    <2>. QED
      BY <2>1 DEF QueueInv
  <1>. QED
    BY <1>1, <1>2, <1>3, <1>4, <1>5, <1>6, <1>7, <1>8, <1>9, <1>10, <1>11, <1>12, <1>13, <1>14,
       <1>15, <1>16, <1>17
    DEF JobNext, WorkerStep, HookStep

LEMMA QueueInvariance == JobSpec => []QueueInv
  BY InitQueueInv, NextQueueInv, PTL DEF JobSpec

-----------------------------------------------------------------------------
(* The results *)

\* The customer is not paid twice: however many workers lose answers, claims
\* and idempotency keys, at most one refund of the payment has not failed.
THEOREM RefundedOnce == JobSpec => []AtMostOneLiveRefund
  <1>1. QueueInv => AtMostOneLiveRefund
    <2>. SUFFICES ASSUME QueueInv PROVE AtMostOneLiveRefund
      OBVIOUS
    <2>. DEFINE live == {id \in DOMAIN refunds : refunds[id] # "failed"}
    <2>1. live \subseteq {Len(refunds)}
      BY DEF QueueInv, ProviderInv, OnlyLastLives
    <2>2. IsFiniteSet({Len(refunds)}) /\ Cardinality({Len(refunds)}) = 1
      BY FS_Singleton
    <2>3. Cardinality(live) <= 1
      BY <2>1, <2>2, FS_Subset
    <2>. QED
      BY <2>3 DEF AtMostOneLiveRefund
  <1>. QED
    BY <1>1, QueueInvariance, PTL

\* What OCG records of a refund was true at the provider, whichever of the
\* worker and the webhook recorded it and whatever it had read before.
THEOREM RecordsAreTrue == JobSpec => []RecordMatchesProvider
  <1>1. QueueInv => RecordMatchesProvider
    BY DEF QueueInv, RowInv
  <1>. QED
    BY <1>1, QueueInvariance, PTL

\* A recorded success has its fee return queued, and its credit note as soon
\* as the invoice is there, in whichever order the two arrive.
THEOREM FollowUpComes == JobSpec => []FollowUpQueued
  <1>1. QueueInv => FollowUpQueued
    BY DEF QueueInv, RowInv
  <1>. QED
    BY <1>1, QueueInvariance, PTL

-----------------------------------------------------------------------------
(* The refinement: every step of the queue is a step of the promise or      *)
(* leaves it alone.                                                         *)

\* The refund that the promise follows.
Followed == IF job.id # 0 THEN job.id ELSE Len(refunds)

\* The money of the promise is where the followed refund is.
MoneyFollows ==
    /\ Followed # 0 => Followed \in DOMAIN refunds /\ refunds[Followed] \in RefundStatuses
    /\ Followed = 0 => Money = "owed"
    /\ Followed # 0 /\ refunds[Followed] = "pending" => Money = "owed"
    /\ Followed # 0 /\ refunds[Followed] = "succeeded" => Money = "returned"
    /\ Followed # 0 /\ refunds[Followed] = "failed" => Money = "failed"

LEMMA MoneyOf == QueueInv => MoneyFollows
  <1>. SUFFICES ASSUME QueueInv PROVE MoneyFollows
    OBVIOUS
  <1>1. Followed # 0 => Followed \in DOMAIN refunds
    BY DEF QueueInv, ProviderInv, ProviderTypes, RowInv, RowTypes, PinKnown, Followed
  <1>2. Followed # 0 => refunds[Followed] \in RefundStatuses
    BY <1>1 DEF QueueInv, ProviderInv, ProviderTypes
  <1>3. Followed = 0 => Money = "owed"
    BY DEF Followed, Money
  <1>4. Followed # 0 => (refunds[Followed] = "pending" => Money = "owed")
    BY DEF Followed, Money
  <1>5. Followed # 0 => (refunds[Followed] = "succeeded" => Money = "returned")
    BY DEF Followed, Money
  <1>6. Followed # 0 => (refunds[Followed] = "failed" => Money = "failed")
    BY DEF Followed, Money
  <1>. QED
    BY ONLY <1>1, <1>2, <1>3, <1>4, <1>5, <1>6 DEF MoneyFollows

\* The row says where the promise is locally.
LocalFollows ==
    /\ ~job.finalized => Local = "open"
    /\ job.finalized /\ ~TerminallyFailed(job) => Local = "settled"
    /\ job.finalized /\ TerminallyFailed(job) /\ ~job.recovered => Local = "recovering"
    /\ job.recovered => Local = "recovered"

LEMMA LocalOf == QueueInv => LocalFollows
  <1>. SUFFICES ASSUME QueueInv PROVE LocalFollows
    OBVIOUS
  <1>. USE DEF QueueInv, RowInv, RowTypes, PurchaseFollows, TerminallyFailed
  <1>1. ~job.finalized => Local = "open"
    BY DEF Local
  <1>2. job.finalized => (~TerminallyFailed(job) => Local = "settled")
    BY DEF Local
  <1>3. job.finalized => (TerminallyFailed(job) /\ ~job.recovered => Local = "recovering")
    BY DEF Local
  <1>4. job.recovered => Local = "recovered"
    BY DEF Local
  <1>. QED
    BY <1>1, <1>2, <1>3, <1>4 DEF LocalFollows

LEMMA FollowsNext == QueueInv' => MoneyFollows' /\ LocalFollows'
  <1>1. (QueueInv => MoneyFollows /\ LocalFollows)'
    <2>1. QueueInv => MoneyFollows /\ LocalFollows
      BY MoneyOf, LocalOf
    <2>. QED
      BY <2>1, PTL
  <1>. QED
    BY <1>1

\* A step of the promise, or none.
PromiseStep == Promise!PromiseNext \/ (Money' = Money /\ Local' = Local)

LEMMA NothingPromised ==
  ASSUME UNCHANGED <<refunds, purchaseStatus>>, job'.id = job.id, job'.recovered = job.recovered
  PROVE  PromiseStep
  <1>1. Money' = Money
    BY DEF Money
  <1>2. Local' = Local
    BY DEF Local
  <1>. QED
    BY <1>1, <1>2 DEF PromiseStep

\* Only the refund that is followed moves the promise.
LEMMA PromiseMove ==
  ASSUME QueueInv, QueueInv', NEW id \in DOMAIN refunds, NEW status \in RefundStatuses,
         RefundMoves(id, status)
  PROVE  PromiseStep
  <1>1. UNCHANGED <<job, purchaseStatus>> /\ Local' = Local
    BY DEF RefundMoves, Local
  <1>2. /\ DOMAIN refunds' = DOMAIN refunds /\ Len(refunds') = Len(refunds)
        /\ refunds'[id] = status
        /\ \A i \in DOMAIN refunds : i # id => refunds'[i] = refunds[i]
    BY DEF RefundMoves, QueueInv, ProviderInv, ProviderTypes
  <1>3. Followed' = Followed
    BY <1>1, <1>2 DEF Followed
  <1>4. MoneyFollows /\ MoneyFollows'
    BY MoneyOf, FollowsNext
  <1>5. CASE Followed # id
    <2>1. Money' = Money
      BY <1>2, <1>3, <1>4, <1>5 DEF MoneyFollows, RefundStatuses
    <2>. QED
      BY <1>1, <2>1 DEF PromiseStep
  <1>6. CASE Followed = id
    <2>0. id # 0
      BY DEF QueueInv, ProviderInv, ProviderTypes
    <2>1. \/ Money = "owed" /\ Money' = "returned"
          \/ Money \in {"owed", "returned"} /\ Money' = "failed"
      BY <1>2, <1>3, <1>4, <1>6, <2>0 DEF MoneyFollows, RefundMoves
    <2>. QED
      BY <1>1, <2>1 DEF PromiseStep, Promise!PromiseNext, Promise!Return, Promise!Fail
  <1>. QED
    BY <1>5, <1>6

\* A new refund returns the money, fails, or tries again what had failed
\* before anything was settled.
LEMMA PromiseCreate ==
  ASSUME QueueInv, QueueInv', NEW w \in Workers, RefundPayment(w)
  PROVE  PromiseStep
  <1>1. UNCHANGED <<job, purchaseStatus>> /\ Local' = Local
    BY DEF RefundPayment, Local
  <1>2. PICK answer \in Answers : Create(answer)
    BY DEF RefundPayment
  <1>3. MoneyFollows /\ MoneyFollows' /\ LocalFollows
    BY MoneyOf, LocalOf, FollowsNext
  <1>4. CASE key # NoAnswer
    BY <1>1, <1>2, <1>4, NothingPromised DEF Create
  <1>5. CASE key = NoAnswer
    <2>1. \A id \in DOMAIN refunds : refunds[id] = "failed"
      BY <1>5 DEF RefundPayment, QueueInv, HoldersInv, CreationCovered
    <2>2. refunds' = Append(refunds, answer.status) /\ refunds \in Seq(RefundStatuses)
          /\ answer.status \in RefundStatuses
      BY <1>2, <1>5 DEF Create, Answers, QueueInv, ProviderInv, ProviderTypes
    <2>3. /\ Len(refunds) \in Nat /\ DOMAIN refunds = 1..Len(refunds)
          /\ Len(refunds') = Len(refunds) + 1
          /\ refunds'[Len(refunds) + 1] = answer.status
          /\ \A id \in DOMAIN refunds : refunds'[id] = refunds[id]
      BY <2>2
    <2>4. CASE job.id # 0
      <3>1. Followed' = Followed /\ Followed # 0
        BY <1>1, <2>4 DEF Followed
      <3>2. Money' = "failed" /\ Money = "failed"
        BY <1>3, <2>1, <2>3, <3>1 DEF MoneyFollows
      <3>. QED
        BY <1>1, <3>2 DEF PromiseStep
    <2>5. CASE job.id = 0
      <3>1. Followed = Len(refunds) /\ Followed' = Len(refunds) + 1 /\ Followed' # 0
        BY <1>1, <2>3, <2>5 DEF Followed
      <3>2. Local = "open"
        BY <1>3, <2>5 DEF LocalFollows, QueueInv, RowInv, PurchaseFollows
      <3>3. Money \in {"owed", "failed"}
        BY <1>3, <2>1, <2>3, <3>1 DEF MoneyFollows
      <3>4. Money' \in {"owed", "returned", "failed"}
        BY <1>3, <2>2, <2>3, <3>1 DEF MoneyFollows, RefundStatuses
      <3>. QED
        BY <1>1, <3>2, <3>3, <3>4
        DEF PromiseStep, Promise!PromiseNext, Promise!Return, Promise!Fail, Promise!Retry
    <2>. QED
      BY <2>4, <2>5
  <1>. QED
    BY <1>4, <1>5

\* Recording an answer pins a refund, or notices that a settled one failed.
LEMMA PromisePersist ==
  ASSUME QueueInv, QueueInv', NEW row, NEW answer \in emitted,
         ~(job.id # 0 /\ job.id # answer.id), Persist(row, answer), UNCHANGED refunds
  PROVE  PromiseStep
  <1>1. MoneyFollows /\ MoneyFollows' /\ LocalFollows /\ LocalFollows'
    BY MoneyOf, LocalOf, FollowsNext
  <1>2. /\ answer.status \in RefundStatuses /\ answer.id \in DOMAIN refunds
        /\ answer.id # 0
        /\ answer.status = "failed" => refunds[answer.id] = "failed"
    BY DEF QueueInv, ProviderInv, ProviderTypes, EmittedHolds, AnswerTypes
  <1>3. RowTypes
    BY DEF QueueInv, RowInv
  <1>4. job'.finalized = job.finalized /\ job'.recovered = job.recovered
    BY <1>2, <1>3 DEF Persist, RecordTerminalFailed, RecordPending, RecordSucceeded, RowTypes,
                     RefundStatuses
  <1>5. job'.id \in {job.id, answer.id}
    BY <1>2, <1>3 DEF Persist, RecordTerminalFailed, RecordPending, RecordSucceeded, RowTypes,
                     RefundStatuses
  <1>6. CASE job.id = 0
    <2>1. Local = "open" /\ Local' = "open"
      BY <1>1, <1>4, <1>6 DEF LocalFollows, QueueInv, RowInv, PurchaseFollows
    <2>2. CASE job'.id = 0 \/ job'.id = Len(refunds)
      <3>1. Followed' = Followed
        BY <1>6, <2>2 DEF Followed
      <3>2. Money' = Money
        BY <1>1, <3>1 DEF MoneyFollows, RefundStatuses
      <3>. QED
        BY <2>1, <3>2 DEF PromiseStep
    <2>3. CASE job'.id = answer.id /\ answer.id # Len(refunds)
      <3>1. Followed' = answer.id /\ refunds[answer.id] = "failed"
        BY <1>2, <2>3 DEF Followed, QueueInv, ProviderInv, OnlyLastLives
      <3>2. Money' = "failed"
        BY <1>1, <1>2, <3>1 DEF MoneyFollows
      <3>3. Money \in {"owed", "returned", "failed"}
        BY <1>1 DEF MoneyFollows, RefundStatuses
      <3>. QED
        BY <2>1, <3>2, <3>3 DEF PromiseStep, Promise!PromiseNext, Promise!Fail
    <2>. QED
      BY <1>5, <1>6, <2>2, <2>3
  <1>7. CASE job.id # 0
    <2>1. job'.id = job.id /\ answer.id = job.id
      BY <1>5, <1>7
    <2>2. Followed' = Followed /\ Money' = Money
      <3>1. Followed' = Followed
        BY <1>7, <2>1 DEF Followed
      <3>2. Money' = Money
        BY <1>1, <3>1 DEF MoneyFollows, RefundStatuses
      <3>. QED
        BY <3>1, <3>2
    <2>3. CASE TerminallyFailed(job)
      <3>1. job' = job /\ purchaseStatus' = purchaseStatus
        BY <1>2, <2>1, <2>3 DEF Persist, RecordTerminalFailed, RecordPending, RecordSucceeded,
                               RefundStatuses
      <3>. QED
        BY <3>1, NothingPromised
    <2>4. CASE ~TerminallyFailed(job) /\ ~TerminallyFailed(job)'
      <3>1. Local' = Local
        BY <1>1, <1>4, <2>4 DEF LocalFollows
      <3>. QED
        BY <2>2, <3>1 DEF PromiseStep
    <2>5. CASE ~TerminallyFailed(job) /\ TerminallyFailed(job)'
      <3>1. answer.status = "failed"
        BY <1>2, <1>3, <2>5 DEF Persist, RecordPending, RecordSucceeded, RowTypes, TerminallyFailed,
                               RefundStatuses
      <3>2. Money = "failed"
        BY <1>1, <1>2, <1>7, <2>1, <3>1 DEF MoneyFollows, Followed
      <3>3. CASE ~job.finalized
        <4>1. Local' = Local
          BY <1>1, <1>4, <3>3 DEF LocalFollows
        <4>. QED
          BY <2>2, <4>1 DEF PromiseStep
      <3>4. CASE job.finalized
        <4>1. Local = "settled" /\ Local' = "recovering"
          BY <1>1, <1>4, <2>5, <3>4 DEF LocalFollows, QueueInv, RowInv, PurchaseFollows
        <4>. QED
          BY <2>2, <3>2, <4>1 DEF PromiseStep, Promise!PromiseNext, Promise!Notice
      <3>. QED
        BY <3>3, <3>4
    <2>. QED
      BY <2>3, <2>4, <2>5
  <1>. QED
    BY <1>6, <1>7

LEMMA PromiseKept == QueueInv /\ QueueInv' /\ [JobNext]_jobVars => PromiseStep
  <1>. SUFFICES ASSUME QueueInv, QueueInv', [JobNext]_jobVars PROVE PromiseStep
    OBVIOUS
  <1>0. RowTypes /\ MoneyFollows /\ LocalFollows /\ MoneyFollows' /\ LocalFollows'
    BY MoneyOf, LocalOf, FollowsNext DEF QueueInv, RowInv
  <1>1. CASE UNCHANGED <<job, purchaseStatus, refunds>>
    BY <1>1, NothingPromised
  <1>2. ASSUME NEW w \in Workers, ClaimEventPurchaseRefund(w) PROVE PromiseStep
    <2>1. job'.id = job.id /\ job'.recovered = job.recovered /\ UNCHANGED <<refunds, purchaseStatus>>
      BY <1>0, <1>2 DEF ClaimEventPurchaseRefund, RowTypes
    <2>. QED
      BY <2>1, NothingPromised
  <1>3. ASSUME NEW w \in Workers, RecordAnswer(w) PROVE PromiseStep
    <2>1. worker[w].answer \in emitted /\ UNCHANGED refunds
      BY <1>3 DEF RecordAnswer, QueueInv, HoldersInv, AnswersEmitted
    <2>2. CASE /\ ~Raises(job, worker[w].claim, worker[w].answer.id)
               /\ Persist([id |-> worker[w].id, terminal |-> FALSE], worker[w].answer)
      BY <2>1, <2>2, PromisePersist DEF Raises
    <2>. QED
      BY <1>1, <1>3, <2>1, <2>2 DEF RecordAnswer
  <1>4. ASSUME NEW w \in Workers, FinalizeJob(w) PROVE PromiseStep
    <2>1. CASE /\ job.refunded /\ purchaseStatus' = "refunded" /\ UNCHANGED refunds
               /\ job' = [job EXCEPT !.status = "finalized", !.claim = "none", !.finalized = TRUE]
      <3>1. /\ job'.id = job.id /\ job'.finalized /\ job.id # 0 /\ ~TerminallyFailed(job)
            /\ ~TerminallyFailed(job)'
        BY <1>0, <2>1, RefundedIsPinned DEF RowTypes, QueueInv, RowInv, PurchaseFollows, TerminallyFailed
      <3>2. refunds[job.id] \in {"succeeded", "failed"}
        <4>1. [id |-> job.id, status |-> "succeeded"] \in emitted
          BY <2>1 DEF QueueInv, RowInv, RecordMatchesProvider
        <4>2. job.id \in DOMAIN refunds /\ refunds[job.id] # "pending"
          BY <4>1 DEF QueueInv, ProviderInv, EmittedHolds
        <4>. QED
          BY <4>2 DEF QueueInv, ProviderInv, ProviderTypes, RefundStatuses
      <3>3. Money \in {"returned", "failed"}
        BY <1>0, <3>1, <3>2 DEF MoneyFollows, Followed
      <3>4. Money' = Money
        BY <2>1, <3>1 DEF Money
      <3>5. Local' = "settled"
        BY <1>0, <3>1 DEF LocalFollows
      <3>6. Local \in {"open", "settled"}
        BY <1>0, <3>1 DEF LocalFollows, RowTypes
      <3>. QED
        BY <3>3, <3>4, <3>5, <3>6 DEF PromiseStep, Promise!PromiseNext, Promise!Settle
    <2>. QED
      BY <1>1, <1>4, <2>1 DEF FinalizeJob, FinalizeAllowed
  <1>5. ASSUME NEW w \in Workers, ReleaseRetryableFailure(w) PROVE PromiseStep
    <2>1. job'.id = job.id /\ job'.recovered = job.recovered /\ UNCHANGED <<refunds, purchaseStatus>>
      BY <1>0, <1>5 DEF ReleaseRetryableFailure, RetryRow, RowTypes
    <2>. QED
      BY <2>1, NothingPromised
  <1>6. CASE ReconcileRefundStatus
    <2>1. hook.event \in emitted /\ UNCHANGED refunds
      BY <1>6 DEF ReconcileRefundStatus, QueueInv, HoldersInv, AnswersEmitted
    <2>2. CASE ~Raises(job, hook.row.claim, hook.event.id) /\ Persist(hook.row, hook.event)
      BY <2>1, <2>2, PromisePersist DEF Raises
    <2>. QED
      BY <1>1, <1>6, <2>1, <2>2 DEF ReconcileRefundStatus
  <1>7. CASE RequeueStaleClaims \/ RequeueEventPurchaseRefund
    <2>1. job'.id = job.id /\ job'.recovered = job.recovered /\ UNCHANGED <<refunds, purchaseStatus>>
      BY <1>0, <1>7 DEF RequeueStaleClaims, RequeueStale, RequeueEventPurchaseRefund, RowTypes
    <2>. QED
      BY <2>1, NothingPromised
  <1>8. CASE RecoverJob
    <2>1. /\ job'.id = job.id /\ job'.recovered /\ UNCHANGED refunds
          /\ TerminallyFailed(job) /\ ~job.recovered /\ job.id # 0 /\ refunds[job.id] = "failed"
      BY <1>0, <1>8 DEF RecoverJob, Recoverable, RowTypes, QueueInv, RowInv, RecordMatchesProvider
    <2>2. Money = "failed"
      BY <1>0, <2>1 DEF MoneyFollows, Followed
    <2>3. Money' = Money
      BY <2>1 DEF Money
    <2>4. Local \in {"open", "recovering"} /\ Local' = "recovered"
      BY <1>0, <2>1 DEF LocalFollows, RowTypes
    <2>. QED
      BY <2>2, <2>3, <2>4 DEF PromiseStep, Promise!PromiseNext, Promise!Recover
  <1>9. ASSUME NEW w \in Workers, FindRefund(w) \/ StepFails(w) \/ WorkerLost(w) PROVE PromiseStep
    BY <1>1, <1>9 DEF FindRefund, StepFails, WorkerLost
  <1>10. CASE RefreshUnpinnedSuccess \/ AttachInvoice \/ UNCHANGED jobVars
    BY <1>1, <1>10 DEF RefreshUnpinnedSuccess, AttachInvoice, jobVars
  <1>11. ASSUME NEW event \in emitted, LoadRefundEvent(event) PROVE PromiseStep
    BY <1>1, <1>11 DEF LoadRefundEvent
  <1>. QED
    BY <1>2, <1>3, <1>4, <1>5, <1>6, <1>7, <1>8, <1>9, <1>10, <1>11, PromiseCreate, PromiseMove
    DEF JobNext, WorkerStep, HookStep

\* The queue refines its promise: a refund is settled once and only after the
\* provider paid, and recovered once and only after the provider failed.
THEOREM QueueKeepsPromise == JobSpec => KeepsPromise
  <1>1. JobInit => Promise!PromiseInit
    <2>. SUFFICES ASSUME JobInit PROVE Promise!PromiseInit
      OBVIOUS
    <2>1. Money = "owed"
      BY DEF JobInit, Money
    <2>2. Local = "open"
      BY DEF JobInit, Local
    <2>. QED
      BY <2>1, <2>2 DEF Promise!PromiseInit
  <1>2. QueueInv /\ QueueInv' /\ [JobNext]_jobVars => [Promise!PromiseNext]_(Promise!promise)
    BY PromiseKept DEF PromiseStep, Promise!promise
  <1>. QED
    BY <1>1, <1>2, QueueInvariance, PTL DEF JobSpec, KeepsPromise, Promise!PromiseSpec
=============================================================================
