---------------------------- MODULE MCDurableWork ----------------------------
(* The independent job queues and caches, one of them in each behaviour. *)
EXTENDS FinancialWork, BadgeAwards, BadgeCredentials, ActivityTracker

VARIABLE part

allVars == <<part, workVars, awardVars, credentialVars, trackerVars>>

MCInit ==
    /\ part \in {"work", "awards", "credentials", "tracker"}
    /\ WorkInit /\ AwardInit /\ CredentialInit /\ TrackerInit
    /\ part # "work" => kind = "fee-return" /\ ~gate   \* nothing to do

MCNext ==
    \/ part = "work" /\ WorkNext /\ UNCHANGED <<part, awardVars, credentialVars, trackerVars>>
    \/ part = "awards" /\ AwardNext /\ UNCHANGED <<part, workVars, credentialVars, trackerVars>>
    \/ part = "credentials" /\ CredentialNext /\ UNCHANGED <<part, workVars, awardVars, trackerVars>>
    \/ part = "tracker" /\ TrackerNext /\ UNCHANGED <<part, workVars, awardVars, credentialVars>>

MCFairness ==
    /\ \A w \in Workers : WF_workVars(part = "work" /\ WorkerStep(w))
    /\ WF_workVars(part = "work" /\ RequeueStaleClaims)
    /\ \A w \in Replicas : WF_awardVars(part = "awards" /\ AwarderStep(w))
    /\ WF_awardVars(part = "awards" /\ \E j \in DOMAIN jobs : RecoverStaleJob(j))

MCSpec == MCInit /\ [][MCNext]_allVars /\ MCFairness
=============================================================================
