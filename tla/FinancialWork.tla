---------------------------- MODULE FinancialWork ----------------------------
(***************************************************************************)
(* One durable job that follows a refund or a payment: a credit note       *)
(* (event_purchase_credit_note) or the return of an application fee, in    *)
(* whole after a refund or in part to settle the tax                       *)
(* (event_purchase_application_fee_adjustment).  The two queues have the   *)
(* same functions and workers of the same shape; kind tells them apart     *)
(* where they differ.  A worker claims the job, lists what the provider    *)
(* has, creates what is missing under a durable idempotency key and        *)
(* records it.  Ten attempts fail before an operator decides: requeue, or  *)
(* enter the document that was made outside OCG.                           *)
(***************************************************************************)
EXTENDS Integers, FiniteSets

CONSTANTS
    Workers,
    MaxAttempts,   \* automatic claims of a job (10)
    MaxRequeues,   \* bound: administrator requeues
    MaxFaults,     \* bound: lost workers and claims that expire under one
    MaxObjects     \* bound: objects the provider creates

ASSUME FinancialWorkAssumption ==
    /\ MaxAttempts \in Nat \ {0}
    /\ {MaxRequeues, MaxFaults, MaxObjects} \subseteq Nat

VARIABLES
    kind,
    job,         \* the row; object is the provider id it names, 0 for none
    gate,        \* the refund succeeded, or the application fee is attached
    reconciled,  \* event_purchase.financially_reconciled_at is set
    made,        \* provider: the objects OCG created, exact or of a wrong amount
    key,         \* provider: the object kept for the idempotency key
    worker,
    claims,      \* claims so far: the id of a claim
    requeues, faults

workVars == <<kind, job, gate, reconciled, made, key, worker, claims, requeues, faults>>

Kinds == {"credit-note", "fee-return", "tax-reconciliation"}
Outside == -1   \* an object that an operator made and named
IdleWorker == [pc |-> "idle", claim |-> 0, object |-> 0]

-----------------------------------------------------------------------------
(* The database functions *)

Stale_BelowLimit == job.status = "processing" /\ job.attempts < MaxAttempts   \* mutant: final attempts stay

Stale == job.status = "processing"

\* A claim first gives up a stale final attempt.
SurfaceAbandoned(r) ==
    IF Stale /\ r.attempts >= MaxAttempts THEN [r EXCEPT !.status = "failed", !.claim = 0] ELSE r

\* Due work, or a claim that an interrupted worker left behind.
Claimable(r) ==
    /\ gate
    /\ r.attempts < MaxAttempts
    /\ r.status \in {"pending", "failed", "processing"}

OwnsClaim(w) == job.status = "processing" /\ job.claim = worker[w].claim

Done(object) ==
    /\ job' = [job EXCEPT !.status = "done", !.claim = 0, !.object = object]
    /\ reconciled' = (reconciled \/ kind = "tax-reconciliation")

Goto(w, pc) == worker' = [worker EXCEPT ![w].pc = pc]
Leave(w) == worker' = [worker EXCEPT ![w] = IdleWorker]

\* A claim that runs out under a worker that is only slow is a fault.
Expires ==
    LET alive == \E w \in Workers : worker[w].claim = job.claim IN
    /\ alive => faults < MaxFaults
    /\ faults' = IF alive THEN faults + 1 ELSE faults

-----------------------------------------------------------------------------
(* The worker *)

\* process_next_..: a worker that finds nothing due still surfaces an
\* abandoned final attempt.
ProcessNext(w) ==
    LET r == SurfaceAbandoned(job) IN
    /\ worker[w].pc = "idle"
    /\ IF Stale THEN Expires ELSE UNCHANGED faults
    /\ \/ /\ Claimable(r)
          /\ claims' = claims + 1
          /\ job' = [r EXCEPT !.status = "processing", !.attempts = @ + 1, !.claim = claims + 1]
          /\ worker' = [worker EXCEPT ![w] = [pc |-> "lookup", claim |-> claims + 1, object |-> 0]]
       \/ /\ ~Claimable(r)
          /\ r # job
          /\ job' = r
          /\ UNCHANGED <<worker, claims>>
    /\ UNCHANGED <<kind, gate, reconciled, made, key, requeues>>

Existing_None == {}   \* mutant: what the provider already has is not listed

\* Objects whose metadata name this job; an operator's carries none.
Existing == {o.id : o \in made}

\* An existing object of a wrong amount is an error, never replaced.
Lookup(w) ==
    /\ worker[w].pc = "lookup"
    /\ IF Existing = {} THEN Goto(w, "create")
       ELSE \E o \in made :
              worker' = [worker EXCEPT ![w].pc = IF o.exact THEN "record" ELSE "release", ![w].object = o.id]
    /\ UNCHANGED <<kind, job, gate, reconciled, made, key, claims, requeues, faults>>

\* What the provider makes of a request; a preview makes a wrong credit note
\* unlikely but the note itself is compared again.
NewObject(o) ==
    IF key # {}
    THEN o \in key /\ UNCHANGED <<made, key>>
    ELSE /\ o.id = Cardinality(made) + 1 /\ o.id <= MaxObjects
         /\ kind # "credit-note" => o.exact
         /\ made' = made \cup {o}
         /\ key' = {o}

\* The answer may be lost; one of a wrong amount is refused.
Create(w) ==
    /\ worker[w].pc = "create"
    /\ \E o \in [id: 1..MaxObjects, exact: BOOLEAN] :
          /\ NewObject(o)
          /\ \/ o.exact /\ worker' = [worker EXCEPT ![w].pc = "record", ![w].object = o.id]
             \/ Goto(w, "release")
    /\ UNCHANGED <<kind, job, gate, reconciled, claims, requeues, faults>>

\* A listing, the invoice lines or the preview cannot be had.
ProviderFails(w) ==
    /\ worker[w].pc \in {"lookup", "create"}
    /\ Goto(w, "release")
    /\ UNCHANGED <<kind, job, gate, reconciled, made, key, claims, requeues, faults>>

\* record_.._succeeded: a stale claim raises and nothing is written.
RecordSucceeded(w) ==
    /\ worker[w].pc = "record"
    /\ IF OwnsClaim(w) THEN Done(worker[w].object) ELSE UNCHANGED <<job, reconciled>>
    /\ Leave(w)
    /\ UNCHANGED <<kind, gate, made, key, claims, requeues, faults>>

RecordFailure(w) ==
    /\ worker[w].pc = "release"
    /\ job' = IF OwnsClaim(w) THEN [job EXCEPT !.status = "failed", !.claim = 0] ELSE job
    /\ Leave(w)
    /\ UNCHANGED <<kind, gate, reconciled, made, key, claims, requeues, faults>>

WorkerLost(w) ==
    /\ worker[w].pc # "idle"
    /\ faults < MaxFaults
    /\ faults' = faults + 1
    /\ Leave(w)
    /\ UNCHANGED <<kind, job, gate, reconciled, made, key, claims, requeues>>

-----------------------------------------------------------------------------
(* Everyone else *)

RequeueStaleClaims ==
    /\ Stale
    /\ Expires
    /\ job' = [job EXCEPT !.status = "failed", !.claim = 0]
    /\ UNCHANGED <<kind, gate, reconciled, made, key, worker, claims, requeues>>

Exhausted == job.status = "failed" /\ job.attempts >= MaxAttempts

\* Possibly days later, when the provider has forgotten the key.
Requeue ==
    /\ Exhausted
    /\ requeues < MaxRequeues
    /\ requeues' = requeues + 1
    /\ job' = [job EXCEPT !.status = "pending", !.attempts = 0]
    /\ key' \in {key} \cup (IF \A w \in Workers : worker[w].pc # "create" THEN {{}} ELSE {})
    /\ UNCHANGED <<kind, gate, reconciled, made, worker, claims, faults>>

Recoverable == Exhausted

\* The operator names the provider's object, OCG's own or one made by hand.
CompleteRecovery ==
    /\ Recoverable
    /\ \E object \in Existing \cup {Outside} : Done(object)
    /\ UNCHANGED <<kind, gate, made, key, worker, claims, requeues, faults>>

\* The webhook attaches the application fee, or the refund is taken back for
\* good before the credit note was issued.
GateMoves ==
    /\ gate <=> kind = "credit-note"
    /\ gate' = ~gate
    /\ UNCHANGED <<kind, job, reconciled, made, key, worker, claims, requeues, faults>>

-----------------------------------------------------------------------------

WorkInit ==
    /\ kind \in Kinds
    /\ job = [status |-> "pending", attempts |-> 0, claim |-> 0, object |-> 0]
    /\ gate \in {TRUE, kind = "credit-note"}
    /\ reconciled = FALSE
    /\ made = {} /\ key = {}
    /\ worker = [w \in Workers |-> IdleWorker]
    /\ claims = 0 /\ requeues = 0 /\ faults = 0

WorkerStep(w) ==
    \/ ProcessNext(w) \/ Lookup(w) \/ Create(w) \/ ProviderFails(w)
    \/ RecordSucceeded(w) \/ RecordFailure(w)

WorkNext ==
    \/ \E w \in Workers : WorkerStep(w) \/ WorkerLost(w)
    \/ RequeueStaleClaims \/ Requeue \/ CompleteRecovery \/ GateMoves

WorkSpec == WorkInit /\ [][WorkNext]_workVars

FairWorkSpec == WorkSpec /\ (\A w \in Workers : WF_workVars(WorkerStep(w))) /\ WF_workVars(RequeueStaleClaims)

-----------------------------------------------------------------------------
(* Properties *)

\* One fee return and one credit note: lost answers, expired claims and
\* forgotten keys never make OCG create a second object, and a finished job
\* names the one it made or the one its operator made.
AtMostOneObject ==
    /\ Cardinality(made) <= 1
    /\ job.object \in {0, Outside} \cup {o.id : o \in made}

\* Nothing is lost: work whose gate stays open is completed or, attempts used
\* up, shown to an operator, also when the worker of its last attempt is lost.
WorkSurfaces == <>[]gate => <>[](job.status = "done" \/ Exhausted)
=============================================================================
