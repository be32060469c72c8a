---------------------- MODULE NotificationDeliveryProofs ----------------------
(***************************************************************************)
(* Proofs about NotificationDelivery, for any rows, users and workers and  *)
(* any values of the bounds.                                               *)
(***************************************************************************)
EXTENDS NotificationDelivery, FiniteSetTheorems, TLAPS

\* A row that may still be claimed has claims left, which is why a claim keeps
\* the count within the budget.
PendingHasBudget ==
    \A n \in Notifications :
        delivery_status[n] \in {"absent", "pending"} => delivery_attempts[n] < MaxClaims

\* A busy worker knows the time of its claim transaction.
BusyHasTime == \A w \in Workers : pc[w] # "idle" => claimed_at[w] \in Nat

TypeInv == TypeOK /\ PendingHasBudget /\ BusyHasTime

\* The retry delay is a number whatever the attempt count.
LEMMA BackoffType == \A a \in Nat : Backoff(a) \in Int
  <1>1. \A k \in Nat : 2^k \in Int
    BY SMT
  <1>. QED
    BY <1>1, ConstantsAssumption DEF Backoff, SmallerOf

LEMMA InitTypeInv == Init => TypeInv
  BY ConstantsAssumption
  DEF Init, TypeInv, TypeOK, PendingHasBudget, BusyHasTime, Statuses, Times,
      WorkerStates, Outcomes, None

LEMMA NextTypeInv == TypeInv /\ [Next]_vars => TypeInv'
  <1>. SUFFICES ASSUME TypeInv, [Next]_vars PROVE TypeInv'
    OBVIOUS
  <1>. USE ConstantsAssumption
       DEF TypeInv, TypeOK, PendingHasBudget, BusyHasTime, notification, worker,
           history, None, Times
  <1>1. ASSUME NEW u \in Users, ActivateUser(u) \/ VerifyEmail(u)
        PROVE TypeInv'
    BY <1>1 DEF ActivateUser, VerifyEmail, UserStatuses
  <1>2. ASSUME NEW k \in Kinds, NEW S \in SUBSET Notifications,
               EnqueueNotification(k, S)
        PROVE TypeInv'
    BY <1>2 DEF EnqueueNotification, Statuses
  <1>3. ASSUME NEW w \in Workers, BeginClaim(w)
        PROVE TypeInv'
    BY <1>3 DEF BeginClaim, WorkerStates
  <1>4. ASSUME NEW w \in Workers, ClaimNothing(w) \/ WorkerLost(w)
        PROVE TypeInv'
    BY <1>4 DEF ClaimNothing, WorkerLost, Reset, WorkerStates, Outcomes
  <1>5. ASSUME NEW w \in Workers, NEW n \in Notifications,
               ClaimPendingNotification(w, n)
        PROVE TypeInv'
    BY <1>5 DEF ClaimPendingNotification, Claimable, Statuses, WorkerStates
  <1>6. ASSUME NEW w \in Workers,
               PrepareFails(w) \/ SendFailsTerminal(w) \/ SendGivesUp(w)
        PROVE TypeInv'
    BY <1>6 DEF PrepareFails, SendFailsTerminal, SendGivesUp, FinishSending,
                WorkerStates, Outcomes
  <1>7. ASSUME NEW w \in Workers, SendSucceeds(w) \/ SendFailsUnknown(w)
        PROVE TypeInv'
    BY <1>7 DEF SendSucceeds, SendFailsUnknown, FinishSending, Deliver,
                WorkerStates, Outcomes
  <1>8. ASSUME NEW w \in Workers, SendAgain(w)
        PROVE TypeInv'
    BY <1>8 DEF SendAgain
  <1>9. ASSUME NEW w \in Workers,
               UpdateNotification(w) \/ MarkDeliveryUnknown(w) \/ RecordRejected(w)
        PROVE TypeInv'
    <2>1. ASSUME NEW o \in Outcomes, NEW st \in Statuses \ {"absent", "pending"},
                 Recording(w, o), Finalize(job[w], st)
          PROVE TypeInv'
      BY <2>1 DEF Recording, Finalize, Reset, WorkerStates, Outcomes
    <2>2. CASE RecordRejected(w)
      BY <2>2 DEF RecordRejected, Recording, Reset, WorkerStates, Outcomes
    <2>. QED
      BY <1>9, <2>1, <2>2
      DEF UpdateNotification, MarkDeliveryUnknown, Outcomes, Statuses
  <1>10. ASSUME NEW w \in Workers, RequeueNotification(w)
         PROVE TypeInv'
    <2>1. Backoff(delivery_attempts[job[w]]) \in Int
      BY BackoffType
    <2>. QED
      BY <1>10, <2>1 DEF RequeueNotification, Recording, Requeue, Finalize, Reset,
                         BudgetUsedUp, WorkerStates, Outcomes, Statuses
  <1>11. CASE MarkStaleProcessingUnknown
    BY <1>11 DEF MarkStaleProcessingUnknown, Statuses
  <1>12. ASSUME NEW S \in SUBSET Notifications, ManualRequeue(S)
         PROVE TypeInv'
    BY <1>12 DEF ManualRequeue, Statuses
  <1>13. CASE Tick
    BY <1>13 DEF Tick
  <1>14. CASE UNCHANGED vars
    BY <1>14 DEF vars
  <1>. QED
    BY <1>1, <1>2, <1>3, <1>4, <1>5, <1>6, <1>7, <1>8, <1>9, <1>10, <1>11,
       <1>12, <1>13, <1>14 DEF Next, WorkerStep

\* Type correctness of the queue: in particular no row is ever claimed more
\* than DELIVERY_MAX_CLAIMS times between two manual requeues.
THEOREM TypeCorrect == Spec => []TypeOK
  <1>1. TypeInv => TypeOK
    BY DEF TypeInv
  <1>. QED
    BY <1>1, InitTypeInv, NextTypeInv, PTL DEF Spec

-------------------------------------------------------------------------------
(***************************************************************************)
(* At most one delivery per (manual) queueing.  A row that may be claimed  *)
(* and every worker that may still hand its message to the mail server, or *)
(* put it back in the queue, hold one credit each; credits are only        *)
(* created by an operator.                                                 *)
(***************************************************************************)
Senders(n) ==
    {w \in Workers : job[w] = n /\ \/ pc[w] = "claimed"
                                   \/ pc[w] = "recording" /\ outcome[w] = "retryable"}

Credit(n) == IF delivery_status[n] \in {"absent", "pending"} THEN 1 ELSE 0

CreditInv ==
    \A n \in Notifications :
        delivered[n] + Cardinality(Senders(n)) + Credit(n) <= 1 + requeues[n]

LEMMA SendersFinite ==
    \A n : IsFiniteSet(Senders(n)) /\ Cardinality(Senders(n)) \in Nat
  BY ConstantsAssumption, FS_Subset, FS_CardinalityType DEF Senders

\* Worker w leaves the senders of its row, or was none and nothing changes.
LEMMA DropSender ==
    ASSUME TypeInv, NEW w \in Workers, pc'[w] \in {"idle"} \/ outcome'[w] # "retryable",
           pc'[w] \in {"idle", "recording"}, job' = job,
           \A v \in Workers \ {w} : pc'[v] = pc[v] /\ outcome'[v] = outcome[v],
           NEW n \in Notifications
    PROVE  /\ Cardinality(Senders(n)') <= Cardinality(Senders(n))
           /\ w \in Senders(n) => Cardinality(Senders(n)') = Cardinality(Senders(n)) - 1
  <1>1. Senders(n)' = Senders(n) \ {w}
    BY DEF Senders
  <1>. QED
    BY <1>1, SendersFinite, FS_RemoveElement

LEMMA SameSenders ==
    ASSUME UNCHANGED <<pc, job, outcome>>
    PROVE  \A n : Senders(n)' = Senders(n)
  BY DEF Senders

LEMMA InitCreditInv == Init => CreditInv
  <1>. SUFFICES ASSUME Init, NEW n \in Notifications
                PROVE  delivered[n] + Cardinality(Senders(n)) + Credit(n) <= 1 + requeues[n]
    BY DEF CreditInv
  <1>1. Senders(n) = {}
    BY DEF Init, Senders
  <1>2. Cardinality(Senders(n)) = 0
    BY <1>1, FS_EmptySet
  <1>. QED
    BY <1>2 DEF Init, Credit

LEMMA NextCreditInv == TypeInv /\ CreditInv /\ [Next]_vars => CreditInv'
  <1>. SUFFICES ASSUME TypeInv, CreditInv, [Next]_vars, NEW n \in Notifications
                PROVE  (delivered[n] + Cardinality(Senders(n)) + Credit(n)
                            <= 1 + requeues[n])'
    BY DEF CreditInv
  <1>. DEFINE Goal == (delivered[n] + Cardinality(Senders(n)) + Credit(n)
                            <= 1 + requeues[n])'
  <1>0. /\ delivered[n] + Cardinality(Senders(n)) + Credit(n) <= 1 + requeues[n]
        /\ Cardinality(Senders(n)) \in Nat /\ delivered[n] \in Nat /\ requeues[n] \in Nat
        /\ Credit(n) \in {0, 1} /\ Cardinality(Senders(n)') \in Nat
    <2>1. IsFiniteSet(Senders(n)')
      BY ConstantsAssumption, FS_Subset DEF Senders
    <2>. QED
      BY <2>1, SendersFinite, FS_CardinalityType DEF CreditInv, TypeInv, TypeOK, Credit
  <1>. USE <1>0 DEF notification, worker, history
  <1>1. ASSUME UNCHANGED <<worker, delivered, requeues>>, Credit(n)' <= Credit(n),
               Credit(n)' \in {0, 1}
        PROVE Goal
    BY <1>1, SameSenders
  <1>2. ASSUME NEW u \in Users, ActivateUser(u) \/ VerifyEmail(u)
        PROVE Goal
    BY <1>1, <1>2 DEF ActivateUser, VerifyEmail, Credit
  <1>3. ASSUME NEW k \in Kinds, NEW S \in SUBSET Notifications,
               EnqueueNotification(k, S)
        PROVE Goal
    BY <1>1, <1>3 DEF EnqueueNotification, Credit, TypeInv, TypeOK
  <1>4. ASSUME NEW w \in Workers, BeginClaim(w)
        PROVE Goal
    <2>1. Senders(n)' = Senders(n)
      BY <1>4 DEF BeginClaim, Senders, TypeInv, TypeOK
    <2>. QED
      BY <1>4, <2>1 DEF BeginClaim, Credit
  <1>5. ASSUME NEW w \in Workers, ClaimNothing(w) \/ WorkerLost(w)
        PROVE Goal
    <2>1. Cardinality(Senders(n)') <= Cardinality(Senders(n))
      BY <1>5, DropSender DEF ClaimNothing, WorkerLost, Reset, TypeInv, TypeOK
    <2>. QED
      BY <1>5, <2>1 DEF ClaimNothing, WorkerLost, Credit
  <1>6. ASSUME NEW w \in Workers, NEW m \in Notifications,
               ClaimPendingNotification(w, m)
        PROVE Goal
    <2>1. CASE m = n
      <3>1. Senders(n)' = Senders(n) \cup {w} /\ w \notin Senders(n)
        BY <1>6, <2>1 DEF ClaimPendingNotification, Senders, TypeInv, TypeOK
      <3>2. Cardinality(Senders(n)') = Cardinality(Senders(n)) + 1
        BY <3>1, SendersFinite, FS_AddElement
      <3>3. Credit(n) = 1 /\ Credit(n)' = 0
        BY <1>6, <2>1 DEF ClaimPendingNotification, Claimable, Credit, TypeInv, TypeOK
      <3>. QED
        BY <1>6, <3>2, <3>3 DEF ClaimPendingNotification
    <2>2. CASE m # n
      <3>1. Senders(n)' = Senders(n)
        BY <1>6, <2>2 DEF ClaimPendingNotification, Senders, TypeInv, TypeOK
      <3>2. Credit(n)' = Credit(n)
        BY <1>6, <2>2 DEF ClaimPendingNotification, Credit, TypeInv, TypeOK
      <3>. QED
        BY <1>6, <3>1, <3>2 DEF ClaimPendingNotification
    <2>. QED
      BY <2>1, <2>2
  <1>7. ASSUME NEW w \in Workers, PrepareFails(w) \/ SendFailsTerminal(w)
        PROVE Goal
    <2>1. Cardinality(Senders(n)') <= Cardinality(Senders(n))
      BY <1>7, DropSender DEF PrepareFails, SendFailsTerminal, FinishSending, TypeInv, TypeOK
    <2>. QED
      BY <1>7, <2>1 DEF PrepareFails, SendFailsTerminal, Credit
  <1>8. ASSUME NEW w \in Workers, SendSucceeds(w) \/ SendFailsUnknown(w)
        PROVE Goal
    <2>1. /\ Cardinality(Senders(n)') <= Cardinality(Senders(n))
          /\ w \in Senders(n) => Cardinality(Senders(n)') = Cardinality(Senders(n)) - 1
      BY <1>8, DropSender
      DEF SendSucceeds, SendFailsUnknown, FinishSending, TypeInv, TypeOK
    <2>2. \/ delivered'[n] = delivered[n]
          \/ job[w] = n /\ delivered'[n] = delivered[n] + 1
      BY <1>8 DEF SendSucceeds, SendFailsUnknown, Deliver, TypeInv, TypeOK
    <2>3. job[w] = n => w \in Senders(n)
      BY <1>8 DEF SendSucceeds, SendFailsUnknown, Senders
    <2>4. requeues' = requeues /\ Credit(n)' = Credit(n)
      BY <1>8 DEF SendSucceeds, SendFailsUnknown, Deliver, Credit
    <2>. QED
      BY <2>1, <2>2, <2>3, <2>4
  <1>9. ASSUME NEW w \in Workers, SendAgain(w) \/ SendGivesUp(w)
        PROVE Goal
    <2>1. Senders(n)' = Senders(n)
      BY <1>9 DEF SendAgain, SendGivesUp, FinishSending, Senders, TypeInv, TypeOK
    <2>. QED
      BY <1>9, <2>1 DEF SendAgain, SendGivesUp, Credit
  <1>10. ASSUME NEW w \in Workers,
                UpdateNotification(w) \/ MarkDeliveryUnknown(w) \/ RecordRejected(w)
         PROVE Goal
    <2>1. Cardinality(Senders(n)') <= Cardinality(Senders(n))
      BY <1>10, DropSender DEF UpdateNotification, MarkDeliveryUnknown, RecordRejected,
                               Recording, Reset, TypeInv, TypeOK
    <2>2. Credit(n)' <= Credit(n) /\ Credit(n)' \in {0, 1}
      BY <1>10 DEF UpdateNotification, MarkDeliveryUnknown, RecordRejected, Finalize,
                   HoldsClaim, Credit, TypeInv, TypeOK
    <2>3. UNCHANGED <<delivered, requeues>>
      BY <1>10 DEF UpdateNotification, MarkDeliveryUnknown, RecordRejected, Recording
    <2>. QED
      BY <2>1, <2>2, <2>3
  <1>11. ASSUME NEW w \in Workers, RequeueNotification(w)
         PROVE Goal
    <2>1. /\ Cardinality(Senders(n)') <= Cardinality(Senders(n))
          /\ w \in Senders(n) => Cardinality(Senders(n)') = Cardinality(Senders(n)) - 1
      BY <1>11, DropSender DEF RequeueNotification, Recording, Reset, TypeInv, TypeOK
    <2>2. job[w] = n => w \in Senders(n)
      BY <1>11 DEF RequeueNotification, Recording, Senders
    <2>3. /\ Credit(n)' \in {0, 1}
          /\ job[w] # n => Credit(n)' = Credit(n)
      BY <1>11 DEF RequeueNotification, Requeue, Finalize, Credit, TypeInv, TypeOK
    <2>4. job[w] = n => Credit(n) = 0
      BY <1>11 DEF RequeueNotification, HoldsClaim, Credit
    <2>5. UNCHANGED <<delivered, requeues>>
      BY <1>11 DEF RequeueNotification, Recording
    <2>. QED
      BY <2>1, <2>2, <2>3, <2>4, <2>5
  <1>12. CASE MarkStaleProcessingUnknown
    BY <1>1, <1>12 DEF MarkStaleProcessingUnknown, StaleClaims, Credit, TypeInv, TypeOK
  <1>13. ASSUME NEW S \in SUBSET Notifications, ManualRequeue(S)
         PROVE Goal
    <2>1. Senders(n)' = Senders(n)
      BY <1>13, SameSenders DEF ManualRequeue
    <2>2. \/ requeues'[n] = requeues[n] + 1 /\ Credit(n) = 0 /\ Credit(n)' = 1
          \/ requeues'[n] = requeues[n] /\ Credit(n)' = Credit(n)
      BY <1>13 DEF ManualRequeue, Credit, TypeInv, TypeOK
    <2>. QED
      BY <1>13, <2>1, <2>2 DEF ManualRequeue
  <1>14. CASE Tick
    BY <1>1, <1>14 DEF Tick, Credit
  <1>15. CASE UNCHANGED vars
    BY <1>1, <1>15 DEF vars, Credit
  <1>. QED
    BY <1>2, <1>3, <1>4, <1>5, <1>6, <1>7, <1>8, <1>9, <1>10, <1>11, <1>12, <1>13,
       <1>14, <1>15 DEF Next, WorkerStep

\* However many workers there are and wherever they crash or stall, only an
\* operator's manual requeue can lead to a second message for a row.
THEOREM AtMostOnceDelivery == Spec => []AtMostOncePerRequeue
  <1>1. TypeInv /\ CreditInv => AtMostOncePerRequeue
    <2>. SUFFICES ASSUME TypeInv, CreditInv, NEW n \in Notifications
                  PROVE  delivered[n] <= 1 + requeues[n]
      BY DEF AtMostOncePerRequeue
    <2>. QED
      BY SendersFinite DEF CreditInv, TypeInv, TypeOK, Credit
  <1>. QED
    BY <1>1, InitTypeInv, NextTypeInv, InitCreditInv, NextCreditInv, PTL DEF Spec

-------------------------------------------------------------------------------
(***************************************************************************)
(* Recorded outcomes are truthful.  The argument is that the timestamp of  *)
(* a claim transaction identifies one worker's claim (ClaimTimes), so the  *)
(* filter on delivery_claimed_at lets exactly that worker write, and that  *)
(* a row out of processing has no worker left under its claim              *)
(* (NoLateSender) that could still deliver.                                *)
(***************************************************************************)
Busy(w) == pc[w] # "idle"

ClaimTimes ==
    /\ \A w \in Workers : Busy(w) => claimed_at[w] <= now
    /\ \A v, w \in Workers : v # w /\ Busy(v) /\ Busy(w) => claimed_at[v] # claimed_at[w]
    /\ \A n \in Notifications : delivery_claimed_at[n] <= now
    /\ \A n \in Notifications, t \in Nat : <<n, t>> \in accepted => t <= now
    /\ \A w \in Workers, n \in Notifications :
            pc[w] = "claiming" => /\ delivery_claimed_at[n] # claimed_at[w]
                                  /\ <<n, claimed_at[w]>> \notin accepted

WorkerKnows ==
    \A w \in Workers :
        LET claim == <<job[w], claimed_at[w]>> IN
        /\ pc[w] = "claimed" => claim \notin accepted
        /\ pc[w] = "recording" /\ outcome[w] = "sent" =>
                claim \in accepted \/ Recipient[job[w]] \notin Allowed
        /\ pc[w] = "recording" /\ outcome[w] \in {"retryable", "terminal"} =>
                claim \notin accepted

NoLateSender ==
    \A w \in Workers, n \in Notifications :
        /\ pc[w] \in {"claimed", "recording"} /\ job[w] = n
        /\ delivery_status[n] \in {"failed", "pending"}
        => claimed_at[w] # delivery_claimed_at[n]

AbsentUnclaimed ==
    \A n \in Notifications : delivery_status[n] = "absent" => delivery_claimed_at[n] = None

TruthInv == ClaimTimes /\ WorkerKnows /\ NoLateSender /\ AbsentUnclaimed
                /\ OutcomeMatchesClaim

LEMMA InitTruthInv == Init => TruthInv
  BY DEF Init, TruthInv, ClaimTimes, WorkerKnows, NoLateSender, AbsentUnclaimed,
         OutcomeMatchesClaim, Busy, None

LEMMA ResetFacts ==
    ASSUME TypeOK, NEW w \in Workers, Reset(w)
    PROVE  /\ pc'[w] = "idle" /\ job' = job
           /\ \A v \in Workers : v # w => /\ pc'[v] = pc[v]
                                          /\ claimed_at'[v] = claimed_at[v]
                                          /\ outcome'[v] = outcome[v]
  BY DEF Reset, TypeOK

LEMMA FinishFacts ==
    ASSUME TypeOK, NEW w \in Workers, NEW o, FinishSending(w, o)
    PROVE  /\ pc'[w] = "recording" /\ outcome'[w] = o
           /\ UNCHANGED <<job, claimed_at>>
           /\ \A v \in Workers : v # w => pc'[v] = pc[v] /\ outcome'[v] = outcome[v]
  BY DEF FinishSending, TypeOK

\* A worker that goes idle takes nothing from what is known of the others.
LEMMA ResetKeeps ==
    ASSUME TypeInv, TruthInv, NEW w \in Workers, Reset(w),
           UNCHANGED <<now, delivery_claimed_at, accepted>>
    PROVE  ClaimTimes' /\ WorkerKnows'
  <1>. USE ResetFacts DEF TypeInv, TruthInv, Busy
  <1>1. ClaimTimes'
    BY DEF ClaimTimes
  <1>2. WorkerKnows'
    BY DEF WorkerKnows
  <1>. QED
    BY <1>1, <1>2

\* The holder of a claim writes a final status and goes idle: no other worker
\* is under the same claim, because claim times differ.
LEMMA FinalizeKeeps ==
    ASSUME TypeInv, TruthInv, NEW w \in Workers, pc[w] = "recording", HoldsClaim(w),
           NEW o \in Outcomes, outcome[w] = o, Recording(w, o), NEW st \in Statuses,
           delivery_status' = [delivery_status EXCEPT ![job[w]] = st],
           o = "sent" => st = "processed",
           o = "unknown" => st = "delivery-unknown",
           o \in {"retryable", "terminal"} => st \in {"failed", "pending"},
           o # "none"
    PROVE  TruthInv'
  <1>1. Reset(w) /\ UNCHANGED <<now, delivery_claimed_at, accepted>>
    BY DEF Recording, history
  <1>2. ClaimTimes' /\ WorkerKnows'
    BY <1>1, ResetKeeps
  <1>3. /\ delivery_status'[job[w]] = st /\ job[w] \in Notifications
        /\ \A n \in Notifications : n # job[w] => delivery_status'[n] = delivery_status[n]
    BY DEF TypeInv, TypeOK
  <1>4. NoLateSender'
    <2>. SUFFICES ASSUME NEW v \in Workers, NEW n \in Notifications,
                         pc'[v] \in {"claimed", "recording"}, job'[v] = n,
                         delivery_status'[n] \in {"failed", "pending"}
                  PROVE  claimed_at'[v] # delivery_claimed_at'[n]
      BY DEF NoLateSender
    <2>1. v # w /\ pc'[v] = pc[v] /\ claimed_at'[v] = claimed_at[v] /\ job[v] = n
      BY <1>1, ResetFacts DEF TypeInv
    <2>2. CASE n = job[w]
      BY <1>1, <2>1, <2>2 DEF HoldsClaim, TruthInv, ClaimTimes, Busy
    <2>3. CASE n # job[w]
      BY <1>1, <1>3, <2>1, <2>3 DEF TruthInv, NoLateSender
    <2>. QED
      BY <2>2, <2>3
  <1>5. AbsentUnclaimed'
    BY <1>1, <1>3 DEF TruthInv, AbsentUnclaimed, Outcomes
  <1>6. OutcomeMatchesClaim'
    <2>. SUFFICES ASSUME NEW n \in Notifications
                  PROVE  LET claim == <<n, delivery_claimed_at[n]>> IN
                         /\ delivery_status'[n] = "processed" =>
                                claim \in accepted \/ Recipient[n] \notin Allowed
                         /\ delivery_status'[n] \in {"failed", "pending"} =>
                                claim \notin accepted
      BY <1>1 DEF OutcomeMatchesClaim
    <2>1. CASE n = job[w]
      BY <1>3, <2>1 DEF HoldsClaim, TruthInv, WorkerKnows, Outcomes
    <2>2. CASE n # job[w]
      BY <1>3, <2>2 DEF TruthInv, OutcomeMatchesClaim
    <2>. QED
      BY <2>1, <2>2
  <1>. QED
    BY <1>2, <1>4, <1>5, <1>6 DEF TruthInv

\* The end of a send, with or without a delivery under the worker's own claim.
LEMMA SendKeeps ==
    ASSUME TypeInv, TruthInv, NEW w \in Workers, pc[w] = "claimed", NEW o \in Outcomes,
           FinishSending(w, o), UNCHANGED <<now, delivery_status, delivery_claimed_at>>,
           \/ accepted' = accepted
           \/ accepted' = accepted \cup {<<job[w], claimed_at[w]>>},
           o \in {"retryable", "terminal"} => accepted' = accepted,
           o = "sent" => \/ <<job[w], claimed_at[w]>> \in accepted'
                         \/ Recipient[job[w]] \notin Allowed
    PROVE  TruthInv'
  <1>1. /\ pc'[w] = "recording" /\ outcome'[w] = o
        /\ UNCHANGED <<job, claimed_at>>
        /\ \A v \in Workers : v # w => pc'[v] = pc[v] /\ outcome'[v] = outcome[v]
    BY FinishFacts DEF TypeInv
  <1>2. job[w] \in Notifications /\ claimed_at[w] \in Nat /\ claimed_at[w] <= now
    BY DEF TypeInv, TypeOK, BusyHasTime, TruthInv, ClaimTimes, Busy
  <1>3. \A n, t : <<n, t>> \in accepted' =>
                    <<n, t>> \in accepted \/ (n = job[w] /\ t = claimed_at[w])
    OBVIOUS
  <1>4. \A v \in Workers : v # w /\ pc[v] # "idle" => claimed_at[v] # claimed_at[w]
    BY DEF TruthInv, ClaimTimes, Busy
  <1>5. ClaimTimes'
    BY <1>1, <1>2, <1>3, <1>4 DEF TruthInv, ClaimTimes, Busy
  <1>6. WorkerKnows'
    <2>. SUFFICES ASSUME NEW v \in Workers
                  PROVE  LET claim == <<job[v], claimed_at[v]>> IN
                    /\ pc'[v] = "claimed" => claim \notin accepted'
                    /\ pc'[v] = "recording" /\ outcome'[v] = "sent" =>
                            claim \in accepted' \/ Recipient[job[v]] \notin Allowed
                    /\ pc'[v] = "recording" /\ outcome'[v] \in {"retryable", "terminal"} =>
                            claim \notin accepted'
      BY <1>1 DEF WorkerKnows
    <2>1. CASE v = w
      BY <1>1, <2>1 DEF TruthInv, WorkerKnows
    <2>2. CASE v # w
      BY <1>1, <1>3, <1>4, <2>2 DEF TruthInv, WorkerKnows
    <2>. QED
      BY <2>1, <2>2
  <1>7. NoLateSender'
    BY <1>1 DEF TruthInv, NoLateSender
  <1>8. AbsentUnclaimed'
    BY DEF TruthInv, AbsentUnclaimed
  <1>9. OutcomeMatchesClaim'
    BY <1>3 DEF TruthInv, OutcomeMatchesClaim, NoLateSender
  <1>. QED
    BY <1>5, <1>6, <1>7, <1>8, <1>9 DEF TruthInv

LEMMA NextTruthInv == TypeInv /\ TruthInv /\ [Next]_vars => TruthInv'
  <1>. SUFFICES ASSUME TypeInv, TruthInv, [Next]_vars PROVE TruthInv'
    OBVIOUS
  <1>. USE DEF notification, worker, history
  <1>1. ASSUME UNCHANGED <<delivery_status, delivery_claimed_at, worker, accepted>>,
               now' \in Nat, now <= now'
        PROVE TruthInv'
    <2>1. ClaimTimes'
      BY <1>1 DEF TypeInv, TypeOK, BusyHasTime, TruthInv, ClaimTimes, Busy, Times, None
    <2>2. WorkerKnows'
      BY <1>1 DEF TruthInv, WorkerKnows
    <2>3. NoLateSender' /\ AbsentUnclaimed' /\ OutcomeMatchesClaim'
      BY <1>1 DEF TruthInv, NoLateSender, AbsentUnclaimed, OutcomeMatchesClaim
    <2>. QED
      BY <2>1, <2>2, <2>3 DEF TruthInv
  <1>2. ASSUME NEW u \in Users, ActivateUser(u) \/ VerifyEmail(u)
        PROVE TruthInv'
    BY <1>1, <1>2 DEF ActivateUser, VerifyEmail, TypeInv, TypeOK
  <1>3. ASSUME NEW k \in Kinds, NEW S \in SUBSET Notifications,
               EnqueueNotification(k, S)
        PROVE TruthInv'
    BY <1>3
    DEF EnqueueNotification, TypeInv, TypeOK, BusyHasTime, TruthInv, ClaimTimes,
        WorkerKnows, NoLateSender, AbsentUnclaimed, OutcomeMatchesClaim, Busy, None, Times
  <1>4. ASSUME NEW w \in Workers, BeginClaim(w)
        PROVE TruthInv'
    BY <1>4
    DEF BeginClaim, TypeInv, TypeOK, BusyHasTime, TruthInv, ClaimTimes,
        WorkerKnows, NoLateSender, AbsentUnclaimed, OutcomeMatchesClaim, Busy, None, Times
  <1>5. ASSUME NEW w \in Workers, Reset(w),
               UNCHANGED <<now, delivery_status, delivery_claimed_at, accepted>>
        PROVE TruthInv'
    <2>1. ClaimTimes' /\ WorkerKnows'
      BY <1>5, ResetKeeps
    <2>2. NoLateSender' /\ AbsentUnclaimed' /\ OutcomeMatchesClaim'
      BY <1>5, ResetFacts
      DEF TypeInv, TruthInv, NoLateSender, AbsentUnclaimed, OutcomeMatchesClaim
    <2>. QED
      BY <2>1, <2>2 DEF TruthInv
  <1>6. ASSUME NEW w \in Workers, ClaimNothing(w) \/ WorkerLost(w) \/ RecordRejected(w)
        PROVE TruthInv'
    BY <1>5, <1>6 DEF ClaimNothing, WorkerLost, RecordRejected, Recording
  <1>7. ASSUME NEW w \in Workers, NEW n \in Notifications,
               ClaimPendingNotification(w, n)
        PROVE TruthInv'
    <2>. USE <1>7
         DEF ClaimPendingNotification, TypeInv, TypeOK, BusyHasTime, TruthInv,
             ClaimTimes, Busy, None, Times
    <2>1. ClaimTimes'
      OBVIOUS
    <2>2. WorkerKnows'
      BY DEF WorkerKnows
    <2>3. NoLateSender'
      BY DEF NoLateSender
    <2>4. AbsentUnclaimed' /\ OutcomeMatchesClaim'
      BY DEF AbsentUnclaimed, OutcomeMatchesClaim
    <2>. QED
      BY <2>1, <2>2, <2>3, <2>4
  <1>8. ASSUME NEW w \in Workers,
               PrepareFails(w) \/ SendFailsTerminal(w) \/ SendGivesUp(w)
        PROVE TruthInv'
    BY <1>8, SendKeeps DEF PrepareFails, SendFailsTerminal, SendGivesUp, Outcomes
  <1>9. ASSUME NEW w \in Workers, SendSucceeds(w)
        PROVE TruthInv'
    BY <1>9, SendKeeps DEF SendSucceeds, Deliver, Outcomes
  <1>10. ASSUME NEW w \in Workers, SendFailsUnknown(w)
         PROVE TruthInv'
    BY <1>10, SendKeeps DEF SendFailsUnknown, Deliver, Outcomes
  <1>11. ASSUME NEW w \in Workers, SendAgain(w)
         PROVE TruthInv'
    BY <1>11
    DEF SendAgain, TruthInv, ClaimTimes, WorkerKnows, NoLateSender, AbsentUnclaimed,
        OutcomeMatchesClaim, Busy
  <1>12. ASSUME NEW w \in Workers, UpdateNotification(w)
         PROVE TruthInv'
    BY <1>12, FinalizeKeeps DEF UpdateNotification, Recording, Finalize, Outcomes, Statuses
  <1>13. ASSUME NEW w \in Workers, MarkDeliveryUnknown(w)
         PROVE TruthInv'
    BY <1>13, FinalizeKeeps DEF MarkDeliveryUnknown, Recording, Finalize, Outcomes, Statuses
  <1>14. ASSUME NEW w \in Workers, RequeueNotification(w)
         PROVE TruthInv'
    BY <1>14, FinalizeKeeps
    DEF RequeueNotification, Recording, Finalize, Requeue, Outcomes, Statuses
  <1>15. CASE MarkStaleProcessingUnknown
    BY <1>15
    DEF MarkStaleProcessingUnknown, StaleClaims, TypeInv, TypeOK, TruthInv, ClaimTimes,
        WorkerKnows, NoLateSender, AbsentUnclaimed, OutcomeMatchesClaim, Busy
  <1>16. ASSUME NEW S \in SUBSET Notifications, ManualRequeue(S)
         PROVE TruthInv'
    <2>0. /\ \A n \in Notifications :
                delivery_claimed_at'[n] \in {None, delivery_claimed_at[n]}
          /\ UNCHANGED <<now, worker, accepted>>
      BY <1>16 DEF ManualRequeue, TypeInv, TypeOK
    <2>1. ClaimTimes'
      <3>1. \A n \in Notifications : delivery_claimed_at'[n] <= now
        BY SMTT(40), <2>0 DEF TypeInv, TypeOK, TruthInv, ClaimTimes, None, Times
      <3>2. \A w \in Workers, n \in Notifications :
                pc[w] = "claiming" => delivery_claimed_at'[n] # claimed_at[w]
        <4>. SUFFICES ASSUME NEW w \in Workers, NEW n \in Notifications,
                             pc[w] = "claiming"
                      PROVE  delivery_claimed_at'[n] # claimed_at[w]
          OBVIOUS
        <4>1. claimed_at[w] \in Nat /\ claimed_at[w] # None
          BY DEF TypeInv, BusyHasTime, None
        <4>2. delivery_claimed_at[n] # claimed_at[w]
          BY DEF TruthInv, ClaimTimes
        <4>. QED
          BY <2>0, <4>1, <4>2
      <3>. QED
        BY <2>0, <3>1, <3>2 DEF TruthInv, ClaimTimes, Busy
    <2>2. WorkerKnows'
      BY <2>0 DEF TruthInv, WorkerKnows
    <2>3. NoLateSender'
      BY <1>16 DEF ManualRequeue, TypeInv, TypeOK, BusyHasTime, TruthInv, NoLateSender,
                   None, Times
    <2>4. AbsentUnclaimed' /\ OutcomeMatchesClaim'
      BY <1>16 DEF ManualRequeue, TypeInv, TypeOK, TruthInv, AbsentUnclaimed,
                   OutcomeMatchesClaim, None, Times
    <2>. QED
      BY <2>1, <2>2, <2>3, <2>4 DEF TruthInv
  <1>17. CASE Tick
    BY <1>1, <1>17 DEF Tick, TypeInv, TypeOK
  <1>18. CASE UNCHANGED vars
    BY <1>1, <1>18 DEF vars, TypeInv, TypeOK
  <1>. QED
    BY <1>2, <1>3, <1>4, <1>6, <1>7, <1>8, <1>9, <1>10, <1>11, <1>12, <1>13,
       <1>14, <1>15, <1>16, <1>17, <1>18 DEF Next, WorkerStep

\* A processed row was delivered under the claim it names and a failed or
\* requeued one was not, even when workers report after losing their claim.
THEOREM RecordedOutcomeTruthful == Spec => []OutcomeMatchesClaim
  <1>1. TruthInv => OutcomeMatchesClaim
    BY DEF TruthInv
  <1>. QED
    BY <1>1, InitTypeInv, NextTypeInv, InitTruthInv, NextTruthInv, PTL DEF Spec

----------------------------------------------------------------------------
(***************************************************************************)
(* The rate.  A window never holds two claims of one row, since a retry    *)
(* backs off for longer than a window.  So each claim of a window is the   *)
(* claim of a row of its own, and that row's last claim is still counted   *)
(* by whoever claims with a timestamp in the window, in whatever order the *)
(* claim transactions obtain the lock.                                     *)
(***************************************************************************)

\* Two claims of a row are more than a window apart.
ClaimsSpaced ==
    \A c, d \in claims : c[1] = d[1] /\ c # d => c[2] > d[2] + RateWindow \/ d[2] > c[2] + RateWindow

\* A row remembers its last claim.
LastClaimKnown ==
    \A c \in claims : delivery_claimed_at[c[1]] # None /\ c[2] <= delivery_claimed_at[c[1]]

\* A row that waits for its retry waits for more than a window.
RetriesBackOff ==
    \A n \in Notifications : delivery_status[n] = "pending" /\ delivery_claimed_at[n] # None =>
        next_delivery_attempt_at[n] > delivery_claimed_at[n] + RateWindow

\* Every window is within the limit.
WindowsFit == \A c \in claims : Cardinality(Window(claims, c)) <= RateLimit

RateInv ==
    IsFiniteSet(claims) /\ ClaimsSpaced /\ LastClaimKnown /\ RetriesBackOff /\ WindowsFit

\* The exponent of the delay is at most 30.
LEMMA PowersPositive == \A k \in 0..30 : 2^k \in Nat \ {0}
  <1>. DEFINE Pow(k) == 2^k
  <1>1. Pow(0) = 1 /\ Pow(1) = 2 /\ Pow(2) = 4 /\ Pow(3) = 8 /\ Pow(4) = 16 /\ Pow(5) = 32
        /\ Pow(6) = 64 /\ Pow(7) = 128 /\ Pow(8) = 256 /\ Pow(9) = 512 /\ Pow(10) = 1024
        /\ Pow(11) = 2048 /\ Pow(12) = 4096 /\ Pow(13) = 8192 /\ Pow(14) = 16384
        /\ Pow(15) = 32768 /\ Pow(16) = 65536 /\ Pow(17) = 131072 /\ Pow(18) = 262144
        /\ Pow(19) = 524288 /\ Pow(20) = 1048576 /\ Pow(21) = 2097152 /\ Pow(22) = 4194304
        /\ Pow(23) = 8388608 /\ Pow(24) = 16777216 /\ Pow(25) = 33554432
        /\ Pow(26) = 67108864 /\ Pow(27) = 134217728 /\ Pow(28) = 268435456
        /\ Pow(29) = 536870912 /\ Pow(30) = 1073741824
    OBVIOUS
  <1>2. \A k \in 0..30 :
           k = 0 \/ k = 1 \/ k = 2 \/ k = 3 \/ k = 4 \/ k = 5 \/ k = 6 \/ k = 7 \/ k = 8
           \/ k = 9 \/ k = 10 \/ k = 11 \/ k = 12 \/ k = 13 \/ k = 14 \/ k = 15 \/ k = 16
           \/ k = 17 \/ k = 18 \/ k = 19 \/ k = 20 \/ k = 21 \/ k = 22 \/ k = 23 \/ k = 24
           \/ k = 25 \/ k = 26 \/ k = 27 \/ k = 28 \/ k = 29 \/ k = 30
    OBVIOUS
  <1>. HIDE DEF Pow
  <1>3. \A k \in 0..30 : Pow(k) \in Nat \ {0}
    BY <1>1, <1>2
  <1>. QED
    BY <1>3 DEF Pow

LEMMA BackoffIsLong ==
  ASSUME NEW a \in Nat, BaseDelay >= RateWindow
  PROVE  Backoff(a) \in Int /\ Backoff(a) >= RateWindow
  <1>. DEFINE k == SmallerOf(IF a > 1 THEN a - 1 ELSE 0, 30)
  <1>1. k \in 0..30
    BY DEF SmallerOf
  <1>. HIDE DEF k
  <1>2. 2^k \in Nat \ {0}
    BY <1>1, PowersPositive
  <1>3. \A x \in Nat \ {0} : BaseDelay * x \in Int /\ BaseDelay * x >= BaseDelay
    BY ConstantsAssumption
  <1>4. BaseDelay * 2^k \in Int /\ BaseDelay * 2^k >= BaseDelay
    BY <1>2, <1>3
  <1>5. \A y \in Int : y >= BaseDelay => SmallerOf(MaxDelay, y) \in Int /\ SmallerOf(MaxDelay, y) >= RateWindow
    BY ConstantsAssumption DEF SmallerOf
  <1>. QED
    BY <1>4, <1>5 DEF Backoff, k

LEMMA InitRateInv == Init => RateInv
  BY FS_EmptySet DEF Init, RateInv, ClaimsSpaced, LastClaimKnown, RetriesBackOff, WindowsFit

\* Whoever claims later than a claim of the window counts all of the window.
LEMMA WindowCounted ==
  ASSUME TypeInv, RateInv, NEW at \in Nat, NEW c \in Notifications \X Nat, at <= c[2], ~RateLimited(at)
  PROVE  IsFiniteSet(Window(claims, c)) /\ Cardinality(Window(claims, c)) < RateLimit
  <1>. DEFINE Q == Window(claims, c)
              f == [d \in Q |-> d[1]]
  <1>0. claims \subseteq Notifications \X Nat /\ RateWindow \in Nat /\ RateLimit \in Nat
        /\ delivery_claimed_at \in [Notifications -> Times] /\ c[2] \in Nat
    BY ConstantsAssumption DEF TypeInv, TypeOK
  <1>1. ASSUME NEW d \in Q PROVE d[1] \in CountedClaims(at)
    <2>1. d \in claims /\ d[1] \in Notifications /\ d[2] \in Nat /\ c[2] - RateWindow <= d[2]
      BY <1>0 DEF Window
    <2>2. delivery_claimed_at[d[1]] # None /\ d[2] <= delivery_claimed_at[d[1]] /\ delivery_claimed_at[d[1]] \in Nat
      BY <1>0, <2>1 DEF RateInv, LastClaimKnown, Times
    <2>. QED
      BY <1>0, <2>1, <2>2 DEF CountedClaims
  <1>2. ASSUME NEW d \in Q, NEW e \in Q, d[1] = e[1] PROVE d = e
    <2>1. d \in claims /\ e \in claims /\ d[2] \in Nat /\ e[2] \in Nat
          /\ c[2] - RateWindow <= d[2] /\ d[2] <= c[2] /\ c[2] - RateWindow <= e[2] /\ e[2] <= c[2]
      BY <1>0 DEF Window
    <2>. QED
      BY <1>0, <1>2, <2>1 DEF RateInv, ClaimsSpaced
  <1>3. f \in [Q -> CountedClaims(at)] /\ \A d, e \in Q : f[d] = f[e] => d = e
    BY <1>1, <1>2
  <1>4. DOMAIN f = Q
    OBVIOUS
  <1>. HIDE DEF f
  <1>5. f \in Injection(Q, CountedClaims(at))
    BY <1>3, <1>4 DEF Injection, IsInjective
  <1>6. CountedClaims(at) \in SUBSET Notifications /\ IsFiniteSet(Notifications)
    BY ConstantsAssumption DEF CountedClaims
  <1>7. IsFiniteSet(CountedClaims(at))
    BY <1>6, FS_Subset
  <1>8. IsFiniteSet(Q) /\ Cardinality(Q) <= Cardinality(CountedClaims(at))
    BY <1>5, <1>7, FS_Injection
  <1>9. Cardinality(Q) \in Nat
    BY <1>8, FS_CardinalityType
  <1>10. Cardinality(CountedClaims(at)) \in Nat
    BY <1>7, FS_CardinalityType
  <1>. QED
    BY <1>0, <1>8, <1>9, <1>10 DEF RateLimited

\* A new claim joins the windows that end at it or after it.
LEMMA ClaimKeepsRate ==
  ASSUME TypeInv, RateInv, NEW w \in Workers, NEW n \in Notifications, ClaimPendingNotification(w, n)
  PROVE  RateInv'
  <1>. DEFINE at == claimed_at[w]
              e == <<n, at>>
  <1>0. /\ claims \subseteq Notifications \X Nat /\ RateWindow \in Nat /\ RateLimit \in Nat \ {0}
        /\ delivery_claimed_at \in [Notifications -> Times] /\ delivery_status \in [Notifications -> Statuses]
        /\ next_delivery_attempt_at \in [Notifications -> Int]
        /\ at \in Nat /\ at # None
    BY ConstantsAssumption DEF TypeInv, TypeOK, BusyHasTime, ClaimPendingNotification, None
  <1>1. /\ claims' = claims \cup {e} /\ delivery_claimed_at' = [delivery_claimed_at EXCEPT ![n] = at]
        /\ delivery_status' = [delivery_status EXCEPT ![n] = "processing"]
        /\ next_delivery_attempt_at' = [next_delivery_attempt_at EXCEPT ![n] = None]
        /\ delivery_status[n] = "pending" /\ next_delivery_attempt_at[n] <= at /\ ~RateLimited(at)
    BY DEF ClaimPendingNotification, Claimable
  <1>. HIDE DEF at
  <1>2. ASSUME NEW c \in claims, c[1] = n PROVE at > c[2] + RateWindow
    <2>1. c[2] \in Nat /\ delivery_claimed_at[n] \in Nat /\ c[2] <= delivery_claimed_at[n] /\ delivery_claimed_at[n] # None
      BY <1>0, <1>2 DEF RateInv, LastClaimKnown, Times
    <2>2. next_delivery_attempt_at[n] > delivery_claimed_at[n] + RateWindow
      BY <1>1, <2>1 DEF RateInv, RetriesBackOff
    <2>. QED
      BY <1>0, <1>1, <2>1, <2>2
  <1>3. IsFiniteSet(claims')
    BY <1>1, FS_AddElement DEF RateInv
  <1>4. ClaimsSpaced'
    <2>1. ASSUME NEW c \in claims', NEW d \in claims', c[1] = d[1], c # d
          PROVE  c[2] > d[2] + RateWindow \/ d[2] > c[2] + RateWindow
      <3>1. CASE c \in claims /\ d \in claims
        BY <2>1, <3>1 DEF RateInv, ClaimsSpaced
      <3>2. CASE c = e /\ d \in claims
        BY <1>2, <2>1, <3>2
      <3>3. CASE d = e /\ c \in claims
        BY <1>2, <2>1, <3>3
      <3>. QED
        BY <1>1, <2>1, <3>1, <3>2, <3>3
    <2>. QED
      BY <2>1 DEF ClaimsSpaced
  <1>5. LastClaimKnown'
    <2>1. ASSUME NEW c \in claims'
          PROVE  delivery_claimed_at'[c[1]] # None /\ c[2] <= delivery_claimed_at'[c[1]]
      <3>1. CASE c \in claims /\ c[1] # n
        BY <1>0, <1>1, <3>1 DEF RateInv, LastClaimKnown
      <3>2. CASE c \in claims /\ c[1] = n
        <4>1. at > c[2] + RateWindow /\ c[2] \in Nat
          BY <1>0, <1>2, <3>2
        <4>. QED
          BY <1>0, <1>1, <3>2, <4>1
      <3>3. CASE c = e
        BY <1>0, <1>1, <3>3
      <3>. QED
        BY <1>1, <3>1, <3>2, <3>3
    <2>. QED
      BY <2>1 DEF LastClaimKnown
  <1>6. RetriesBackOff'
    BY <1>0, <1>1 DEF RateInv, RetriesBackOff
  <1>7. ASSUME NEW c \in claims' PROVE Cardinality(Window(claims', c)) <= RateLimit
    <2>0. c \in Notifications \X Nat
      BY <1>0, <1>1
    <2>1. CASE c[2] < at
      <3>1. c \in claims
        BY <1>0, <1>1, <2>0, <2>1
      <3>2. Window(claims', c) = Window(claims, c)
        BY <1>0, <1>1, <2>0, <2>1 DEF Window
      <3>. QED
        BY <3>1, <3>2 DEF RateInv, WindowsFit, Window
    <2>2. CASE c[2] >= at
      <3>1. IsFiniteSet(Window(claims, c)) /\ Cardinality(Window(claims, c)) < RateLimit
        BY <1>0, <1>1, <2>0, <2>2, WindowCounted
      <3>2. Window(claims', c) \in SUBSET (Window(claims, c) \cup {e})
        BY <1>1 DEF Window
      <3>3. /\ IsFiniteSet(Window(claims, c) \cup {e})
            /\ Cardinality(Window(claims, c) \cup {e})
               = IF e \in Window(claims, c) THEN Cardinality(Window(claims, c)) ELSE Cardinality(Window(claims, c)) + 1
        BY <3>1, FS_AddElement
      <3>4. IsFiniteSet(Window(claims', c)) /\ Cardinality(Window(claims', c)) <= Cardinality(Window(claims, c) \cup {e})
        BY <3>2, <3>3, FS_Subset
      <3>5. Cardinality(Window(claims, c)) \in Nat
        BY <3>1, FS_CardinalityType
      <3>6. Cardinality(Window(claims', c)) \in Nat
        BY <3>4, FS_CardinalityType
      <3>. QED
        BY <1>0, <3>1, <3>3, <3>4, <3>5, <3>6
    <2>. QED
      BY <1>0, <2>0, <2>1, <2>2
  <1>8. WindowsFit'
    BY <1>7 DEF WindowsFit, Window
  <1>. QED
    BY <1>3, <1>4, <1>5, <1>6, <1>8 DEF RateInv

\* A step that makes no claim and brings no row back earlier.
LEMMA RateKept ==
  ASSUME RateInv, UNCHANGED <<delivery_claimed_at, claims>>,
         \A n \in Notifications : delivery_status'[n] = "pending" /\ delivery_claimed_at[n] # None =>
             \/ delivery_status[n] = "pending" /\ next_delivery_attempt_at'[n] = next_delivery_attempt_at[n]
             \/ next_delivery_attempt_at'[n] > delivery_claimed_at[n] + RateWindow
  PROVE  RateInv'
  BY DEF RateInv, ClaimsSpaced, LastClaimKnown, RetriesBackOff, WindowsFit

\* What was requeued once stays so.
LEMMA RequeuesGrow ==
  TypeInv /\ [Next]_vars /\ NothingRequeued' => NothingRequeued
  <1>. SUFFICES ASSUME TypeInv, [Next]_vars, NothingRequeued' PROVE NothingRequeued
    OBVIOUS
  <1>. USE DEF notification, worker, history, NothingRequeued
  <1>0. requeues \in [Notifications -> Nat]
    BY DEF TypeInv, TypeOK
  <1>1. ASSUME NEW S \in SUBSET Notifications, ManualRequeue(S) PROVE FALSE
    BY <1>0, <1>1 DEF ManualRequeue
  <1>2. CASE UNCHANGED requeues
    BY <1>2
  <1>3. ASSUME NEW w \in Workers, WorkerStep(w) PROVE UNCHANGED requeues
    BY <1>3 DEF WorkerStep, BeginClaim, ClaimNothing, ClaimPendingNotification, PrepareFails, SendSucceeds,
        SendAgain, SendGivesUp, SendFailsTerminal, SendFailsUnknown, UpdateNotification, MarkDeliveryUnknown,
        RequeueNotification, RecordRejected, WorkerLost, Recording, Deliver
  <1>4. ASSUME NEW k \in Kinds, NEW S \in SUBSET Notifications, EnqueueNotification(k, S) PROVE UNCHANGED requeues
    BY <1>4 DEF EnqueueNotification
  <1>5. ASSUME NEW u \in Users, ActivateUser(u) \/ VerifyEmail(u) PROVE UNCHANGED requeues
    BY <1>5 DEF ActivateUser, VerifyEmail
  <1>6. CASE MarkStaleProcessingUnknown \/ Tick \/ UNCHANGED vars
    BY <1>2, <1>6 DEF MarkStaleProcessingUnknown, Tick, vars
  <1>. QED
    BY <1>1, <1>2, <1>3, <1>4, <1>5, <1>6 DEF Next

LEMMA NextRateInv ==
  ASSUME BaseDelay >= RateWindow
  PROVE  TypeInv /\ TruthInv /\ RateInv /\ [Next]_vars /\ NothingRequeued' => RateInv'
  <1>. SUFFICES ASSUME TypeInv, TruthInv, RateInv, [Next]_vars, NothingRequeued' PROVE RateInv'
    OBVIOUS
  <1>. USE DEF notification, worker, history
  <1>0. /\ delivery_status \in [Notifications -> Statuses] /\ delivery_claimed_at \in [Notifications -> Times]
        /\ next_delivery_attempt_at \in [Notifications -> Int] /\ job \in [Workers -> Notifications]
        /\ requeues \in [Notifications -> Nat] /\ delivery_attempts \in [Notifications -> 0..MaxClaims]
        /\ now \in Nat /\ RateWindow \in Nat /\ MaxClaims \in Nat
    BY ConstantsAssumption DEF TypeInv, TypeOK
  <1>1. ASSUME UNCHANGED <<delivery_status, delivery_claimed_at, next_delivery_attempt_at, claims>> PROVE RateInv'
    BY <1>1, RateKept
  <1>2. ASSUME NEW k \in Kinds, NEW S \in SUBSET Notifications, EnqueueNotification(k, S) PROVE RateInv'
    <2>1. /\ UNCHANGED <<delivery_claimed_at, next_delivery_attempt_at, claims>>
          /\ \A n \in Notifications : delivery_status'[n] = delivery_status[n] \/ delivery_status[n] = "absent"
      BY <1>0, <1>2 DEF EnqueueNotification
    <2>2. \A n \in Notifications : delivery_status[n] = "absent" => delivery_claimed_at[n] = None
      BY DEF TruthInv, AbsentUnclaimed
    <2>. QED
      BY <2>1, <2>2, RateKept
  <1>3. ASSUME NEW w \in Workers, NEW st \in Statuses, Finalize(job[w], st), st # "pending",
               UNCHANGED <<delivery_claimed_at, claims>> PROVE RateInv'
    BY <1>0, <1>3, RateKept DEF Finalize
  <1>4. ASSUME NEW w \in Workers, Recording(w, "retryable"), HoldsClaim(w), Requeue(job[w]) PROVE RateInv'
    <2>. DEFINE n == job[w]
    <2>1. n \in Notifications /\ delivery_claimed_at[n] = claimed_at[w] /\ now > claimed_at[w]
          /\ claimed_at[w] \in Nat /\ delivery_attempts[n] \in Nat /\ UNCHANGED <<delivery_claimed_at, claims>>
      BY <1>0, <1>4 DEF HoldsClaim, Recording, TypeInv, BusyHasTime
    <2>2. Backoff(delivery_attempts[n]) \in Int /\ Backoff(delivery_attempts[n]) >= RateWindow
      BY <2>1, BackoffIsLong
    <2>3. /\ \A m \in Notifications : m # n => delivery_status'[m] = delivery_status[m]
                                              /\ next_delivery_attempt_at'[m] = next_delivery_attempt_at[m]
          /\ next_delivery_attempt_at'[n] = now + Backoff(delivery_attempts[n])
      BY <1>0, <1>4, <2>1 DEF Requeue
    <2>. HIDE DEF n
    <2>4. next_delivery_attempt_at'[n] > delivery_claimed_at[n] + RateWindow
      BY <1>0, <2>1, <2>2, <2>3
    <2>. QED
      BY <2>1, <2>3, <2>4, RateKept
  <1>5. CASE MarkStaleProcessingUnknown
    <2>1. /\ UNCHANGED <<delivery_claimed_at, claims>>
          /\ \A n \in Notifications :
                \/ delivery_status'[n] = delivery_status[n] /\ next_delivery_attempt_at'[n] = next_delivery_attempt_at[n]
                \/ delivery_status'[n] = "delivery-unknown"
      BY <1>5 DEF MarkStaleProcessingUnknown
    <2>. QED
      BY <2>1, RateKept
  <1>6. ASSUME NEW S \in SUBSET Notifications, ManualRequeue(S) PROVE FALSE
    BY <1>0, <1>6 DEF ManualRequeue, NothingRequeued
  <1>7. ASSUME NEW w \in Workers, UpdateNotification(w) \/ MarkDeliveryUnknown(w) PROVE RateInv'
    BY <1>3, <1>7 DEF UpdateNotification, MarkDeliveryUnknown, Recording, Statuses
  <1>8. ASSUME NEW w \in Workers, RequeueNotification(w) PROVE RateInv'
    BY <1>3, <1>4, <1>8 DEF RequeueNotification, Recording, Statuses
  <1>9. ASSUME NEW w \in Workers,
               BeginClaim(w) \/ ClaimNothing(w) \/ PrepareFails(w) \/ SendSucceeds(w) \/ SendAgain(w)
               \/ SendGivesUp(w) \/ SendFailsTerminal(w) \/ SendFailsUnknown(w) \/ RecordRejected(w) \/ WorkerLost(w)
        PROVE RateInv'
    BY <1>1, <1>9
    DEF BeginClaim, ClaimNothing, PrepareFails, SendSucceeds, SendAgain, SendGivesUp, SendFailsTerminal,
        SendFailsUnknown, RecordRejected, WorkerLost, Recording, Deliver
  <1>10. ASSUME NEW w \in Workers, WorkerStep(w) PROVE RateInv'
    BY <1>7, <1>8, <1>9, <1>10, ClaimKeepsRate DEF WorkerStep
  <1>11. CASE Tick \/ UNCHANGED vars \/ \E u \in Users : ActivateUser(u) \/ VerifyEmail(u)
    BY <1>1, <1>11 DEF Tick, vars, ActivateUser, VerifyEmail
  <1>. QED
    BY <1>2, <1>5, <1>6, <1>10, <1>11 DEF Next

\* No window contains more claims than the limit of claim_pending_notification,
\* although a row remembers only its last claim and the timestamps of claims
\* are older than the lock, provided the backoff is not shorter than the window
\* and for as long as no operator has requeued a row (which erases its claim time).
THEOREM RateIsRespected ==
  ASSUME BaseDelay >= RateWindow
  PROVE  Spec => []ClaimRateRespected
  <1>. DEFINE J == NothingRequeued => RateInv
  <1>1. Init => J
    BY InitRateInv
  <1>2. TypeInv /\ TruthInv /\ J /\ [Next]_vars => J'
    BY NextRateInv, RequeuesGrow
  <1>3. J => ClaimRateRespected
    BY DEF RateInv, WindowsFit, ClaimRateRespected
  <1>. HIDE DEF J
  <1>. QED
    BY <1>1, <1>2, <1>3, InitTypeInv, NextTypeInv, InitTruthInv, NextTruthInv, PTL DEF Spec
===============================================================================
