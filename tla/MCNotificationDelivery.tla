----------------------- MODULE MCNotificationDelivery -----------------------
(* One row through crashes, late reports and a requeue by hand, or two rows  *)
(* that wait for the rate limit, in each behaviour.  The parts share the     *)
(* constants of the limit, and the second row is never enqueued in "claims". *)
EXTENDS NotificationDelivery

CONSTANTS n1, n2

VARIABLE part

MCRecipient == [n \in Notifications |-> "u"]
MCKind == [n \in Notifications |-> IF n = n1 THEN "optional" ELSE "admission-offer"]

Rate == INSTANCE NotificationDelivery WITH
    SendAttempts <- 1, Timeout <- 2, BaseDelay <- 2, MaxDelay <- 4,
    ClaimHorizon <- 4, MaxTime <- 4, MaxRequeues <- 0

MCInit ==
    /\ part \in {"claims", "rate"}
    /\ Init
    /\ \A w \in Workers : job[w] = n1
    /\ part = "rate" => user_status["u"] = "verified"

MCNext ==
    \/ part = "claims" /\ Next /\ delivery_status'[n2] = "absent" /\ UNCHANGED part
    \/ part = "rate" /\ Rate!Next /\ UNCHANGED part

\* The clock of "rate" stops before claims become stale, which its fairness
\* excludes: AbandonedClaimsResolved speaks of "claims".
MCSpec == MCInit /\ [][MCNext]_<<part, vars>> /\ WF_vars(Tick) /\ WF_vars(MarkStaleProcessingUnknown)
=============================================================================
