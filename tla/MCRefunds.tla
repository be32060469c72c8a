------------------------------ MODULE MCRefunds ------------------------------
(***************************************************************************)
(* Refunds at an event and at the provider, in one run of TLC.  A          *)
(* behaviour stays in one scenario, each with its own constants.           *)
(*                                                                         *)
(*   again   the constants of the configuration: one invited user, two     *)
(*           purchases, one unit of a discount code, questions;            *)
(*   rivals  two users who compete for one seat while purchases are        *)
(*           refunded, refunds fail and the event is canceled;             *)
(*   job     one refund between workers, the provider, webhooks and        *)
(*           operators.                                                    *)
(*                                                                         *)
(* The events share the constants the properties depend on: the seats, and *)
(* the units of the code, which nobody can use where TotalAvailable is 0.  *)
(* Beside an event the job is out of attempts and left to an               *)
(* administrator, so that nothing is to be done about it.                  *)
(***************************************************************************)
EXTENDS EnrollmentRefunds, RefundQueue

OneTier == {"t"}
OneSeat == [t \in Tiers |-> 1]
Paid == [t \in Tiers |-> 2]

Rivals == INSTANCE EnrollmentRefunds WITH
    Users <- {1, 2}, Invitees <- {}, TotalAvailable <- 0,
    HasQuestions <- FALSE, RegistrationEnds <- 2, StartsAt <- 2, EndsAt <- 3,
    MaxTime <- 1, MaxPurchases <- 1

VARIABLE scenario

OutOfAttempts ==
    /\ job = [status |-> "provider-pending", attempts |-> MaxAttempts, claim |-> "none", id |-> 0,
              refunded |-> FALSE, terminal |-> FALSE, finalized |-> FALSE, recovered |-> FALSE]
    /\ purchaseStatus = "refund-pending" /\ invoice = FALSE /\ queued = {}
    /\ refunds = <<>> /\ key = NoAnswer /\ emitted = {}
    /\ worker = [w \in Workers |-> Idle] /\ hook = NoEvent
    /\ requeues = 0 /\ faults = 0

ScenarioInit ==
    \/ scenario = "again" /\ Init /\ OutOfAttempts
    \/ scenario = "rivals" /\ Rivals!Init /\ OutOfAttempts
    \/ scenario = "job" /\ Init /\ JobInit

ScenarioNext ==
    \/ scenario = "again" /\ RefundsNext /\ UNCHANGED <<scenario, jobVars>>
    \/ scenario = "rivals" /\ Rivals!RefundsNext /\ UNCHANGED <<scenario, jobVars>>
    \/ scenario = "job" /\ JobNext /\ UNCHANGED <<scenario, vars>>

\* The fairness of the job, which asks nothing of the events.
ScenarioSpec ==
    /\ ScenarioInit /\ [][ScenarioNext]_<<scenario, vars, jobVars>>
    /\ \A w \in Workers : WF_jobVars(scenario = "job" /\ WorkerStep(w))
    /\ WF_jobVars(scenario = "job" /\ RequeueStaleClaims)
=============================================================================
