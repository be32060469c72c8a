----------------------------- MODULE BadgeAwards -----------------------------
(***************************************************************************)
(* Awards of one badge definition of a group.  An organizer's request is   *)
(* kept as a job with its accepted recipients; workers of several replicas *)
(* claim a job for one batch at a time and issue credentials, each with a  *)
(* bit of a revocation list.  Claims of lost workers are recovered,        *)
(* failures counted, jobs requeued by an operator and removed later, while *)
(* credentials are revoked and the definition may be deleted.              *)
(***************************************************************************)
EXTENDS Integers, Sequences, FiniteSets, SequencesExt

CONSTANTS
    Recipients,     \* users who are eligible, identified by numbers
    Replicas,       \* award workers, one of each server
    BatchSize,      \* AWARD_BATCH_SIZE
    MaxFailures,    \* MAX_FAILURES
    ListSize,       \* entries of a status list, a power of two
    MaxJobs,        \* bound: requests that leave work
    MaxRevocations, \* bound: credentials revoked
    MaxTroubles     \* bound: lost workers, failures, early expiries, rate limits, requeues

ASSUME BadgeAwardsAssumption ==
    /\ Recipients \subseteq Nat /\ IsFiniteSet(Recipients)
    /\ {BatchSize, MaxFailures, ListSize} \subseteq Nat \ {0}
    /\ {MaxJobs, MaxRevocations, MaxTroubles} \subseteq Nat

\* ListSize is a power of two (131072): all its divisors but 1 are even.
ASSUME PowerOfTwo == \A m \in 2..ListSize : ListSize % m = 0 => m % 2 = 0

VARIABLES
    defined,   \* the badge definition exists
    jobs,      \* badge_award_job with its recipients
    awards,    \* user_badge, in the order of issuance
    lists,     \* badge_status_list of the group
    awarder,   \* the award workers: the job they claimed, 0 for none
    troubles

awardVars == <<defined, jobs, awards, lists, awarder, troubles>>

Trouble == troubles < MaxTroubles /\ troubles' = troubles + 1

-----------------------------------------------------------------------------
(* Organizers and recipients *)

\* badge_id is set to null when the definition is deleted, and null equals
\* nothing: a holder is then no longer recognized.
IsHolder(u, given) == defined /\ \E i \in DOMAIN given : given[i].user = u /\ ~given[i].revoked

Queued(u) ==
    \E j \in DOMAIN jobs : jobs[j].status \in {"failed", "pending", "processing"} /\ u \in ToSet(jobs[j].recipients)

Accepted_HoldersOnly(users) ==   \* mutant: work that is already queued is not considered
    {u \in users : ~IsHolder(u, awards)}

Accepted(users) == {u \in users : ~IsHolder(u, awards) /\ ~Queued(u)}

\* array_agg(... order by user_id)
InOrder(users) ==
    [i \in 1..Cardinality(users) |-> CHOOSE u \in users : Cardinality({v \in users : v < u}) = i - 1]

NewJob(users) ==
    [recipients |-> InOrder(Accepted(users)), requested |-> Cardinality(users), next |-> 0, awarded |-> 0,
     skipped |-> Cardinality(users) - Cardinality(Accepted(users)), status |-> "pending", claim |-> 0, failures |-> 0]

\* The award request of a dashboard; all skipped leaves no job.
AwardBadge(users) ==
    /\ defined
    /\ users # {} /\ Accepted(users) # {}
    /\ Len(jobs) < MaxJobs
    /\ jobs' = Append(jobs, NewJob(users))
    /\ UNCHANGED <<defined, awards, lists, awarder, troubles>>

\* delete_badge, waiting for requests that read the definition.
DeleteBadge ==
    /\ defined
    /\ defined' = FALSE
    /\ UNCHANGED <<jobs, awards, lists, awarder, troubles>>

\* By the group or by the recipient; it is for good.
RevokeBadge(i) ==
    /\ Cardinality({k \in DOMAIN awards : awards[k].revoked}) < MaxRevocations
    /\ ~awards[i].revoked
    /\ awards' = [awards EXCEPT ![i].revoked = TRUE]
    /\ UNCHANGED <<defined, jobs, lists, awarder, troubles>>

-----------------------------------------------------------------------------
(* The award workers *)

ClaimBadgeAwardJob(w, j) ==
    /\ awarder[w] = 0
    /\ jobs[j].status = "pending"
    /\ jobs' = [jobs EXCEPT ![j].status = "processing", ![j].claim = w]
    /\ awarder' = [awarder EXCEPT ![w] = j]
    /\ UNCHANGED <<defined, awards, lists, troubles>>

OwnsJob(w) == jobs[awarder[w]].status = "processing" /\ jobs[awarder[w]].claim = w

StatusListIndex_Doubled(list) == (list.offset + list.position * (list.stride + 1)) % ListSize   \* mutant: an even stride

\* A permutation of the list, because the stride is odd.
StatusListIndex(list) == (list.offset + list.position * list.stride) % ListSize

\* The newest list with room, or one more: random offset and odd stride.
ListsWithRoom(ls) ==
    IF ls # << >> /\ Last(ls).position < ListSize THEN {ls}
    ELSE {Append(ls, [offset |-> o, stride |-> s, position |-> 0]) :
            o \in 0..(ListSize - 1), s \in {k \in 1..(ListSize - 1) : k % 2 = 1}}

Slice(job, allowed) == SubSeq(job.recipients, job.next + 1, job.next + allowed)

\* One credential, or a skip when the recipient already holds the badge.
IssueTo(u, out) ==
    IF IsHolder(u, out.awards) THEN {[out EXCEPT !.skipped = @ + 1]}
    ELSE {[awards |-> Append(out.awards, [user |-> u, list |-> Len(ls), index |-> StatusListIndex(Last(ls)),
                                          revoked |-> FALSE]),
           lists |-> [ls EXCEPT ![Len(ls)].position = @ + 1],
           awarded |-> out.awarded + 1, skipped |-> out.skipped] : ls \in ListsWithRoom(out.lists)}

\* The possible results of a batch for these recipients, in their order.
BatchOutcomes(users) ==
    LET outs[n \in 0..Len(users)] ==
            IF n = 0 THEN {[awards |-> awards, lists |-> lists, awarded |-> 0, skipped |-> 0]}
            ELSE UNION {IssueTo(users[n], out) : out \in outs[n - 1]}
    IN outs[Len(users)]

Advanced_WholeBatch(job, allowed, out) ==   \* mutant: a batch cut by the rate limit moves on by its full size
    LET next == IF job.next + BatchSize < Len(job.recipients) THEN job.next + BatchSize ELSE Len(job.recipients) IN
    [job EXCEPT !.next = next, !.claim = 0, !.awarded = @ + out.awarded, !.skipped = @ + out.skipped,
                !.status = IF next >= Len(job.recipients) THEN "completed" ELSE "pending"]

Advanced(job, allowed, out) ==
    LET next == job.next + allowed IN
    [job EXCEPT !.next = next, !.claim = 0, !.awarded = @ + out.awarded, !.skipped = @ + out.skipped,
                !.status = IF next >= Len(job.recipients) THEN "completed" ELSE "pending"]

\* process_badge_award_job_batch: batch size, remaining work and what is left
\* of the rolling budget bound the slice.  With no budget the job is put back.
ProcessBatch(w, budget) ==
    LET j == awarder[w]
        job == jobs[j]
        remaining == Len(job.recipients) - job.next
        allowed == CHOOSE n \in {BatchSize, budget, remaining} : \A m \in {BatchSize, budget, remaining} : n <= m
    IN /\ j # 0 /\ OwnsJob(w)
       /\ IF budget < BatchSize THEN Trouble ELSE UNCHANGED troubles
       /\ IF allowed = 0
          THEN jobs' = [jobs EXCEPT ![j].status = "pending", ![j].claim = 0] /\ UNCHANGED <<awards, lists>>
          ELSE \E out \in BatchOutcomes(Slice(job, allowed)) :
                 /\ awards' = out.awards /\ lists' = out.lists
                 /\ jobs' = [jobs EXCEPT ![j] = Advanced(job, allowed, out)]
       /\ awarder' = [awarder EXCEPT ![w] = 0]
       /\ UNCHANGED defined

Failed(job) ==
    [job EXCEPT !.claim = 0, !.failures = @ + 1,
                !.status = IF job.failures + 1 >= MaxFailures THEN "failed" ELSE "pending"]

\* The batch was rolled back: the failure is recorded if the claim is still held.
ReleaseFailure(w) ==
    /\ awarder[w] # 0
    /\ IF OwnsJob(w) THEN Trouble /\ jobs' = [jobs EXCEPT ![awarder[w]] = Failed(@)]
       ELSE UNCHANGED <<troubles, jobs>>
    /\ awarder' = [awarder EXCEPT ![w] = 0]
    /\ UNCHANGED <<defined, awards, lists>>

AwarderLost(w) ==
    /\ awarder[w] # 0
    /\ Trouble
    /\ awarder' = [awarder EXCEPT ![w] = 0]
    /\ UNCHANGED <<defined, jobs, awards, lists>>

-----------------------------------------------------------------------------
(* Maintenance *)

Expired_Never(j) == FALSE   \* mutant: the recovery worker finds nothing

Expired(j) == jobs[j].status = "processing"

\* After fifteen minutes; that a worker is still at it is a rare trouble.
RecoverStaleJob(j) ==
    /\ Expired(j)
    /\ IF awarder[jobs[j].claim] = j THEN Trouble ELSE UNCHANGED troubles
    /\ jobs' = [jobs EXCEPT ![j] = Failed(@)]
    /\ UNCHANGED <<defined, awards, lists, awarder>>

RequeueBadgeAwardJob(j) ==
    /\ jobs[j].status = "failed"
    /\ Trouble
    /\ jobs' = [jobs EXCEPT ![j].status = "pending", ![j].failures = 0]
    /\ UNCHANGED <<defined, awards, lists, awarder>>

\* The summary and the recipients of a finished or failed job.
CleanupJob(j) ==
    /\ jobs[j].status \in {"completed", "failed"}
    /\ jobs' = [jobs EXCEPT ![j].status = "removed"]
    /\ UNCHANGED <<defined, awards, lists, awarder, troubles>>

-----------------------------------------------------------------------------

AwardInit ==
    /\ defined = TRUE
    /\ jobs = << >> /\ awards = << >> /\ lists = << >>
    /\ awarder = [w \in Replicas |-> 0]
    /\ troubles = 0

AwarderStep(w) ==
    \/ \E j \in DOMAIN jobs : ClaimBadgeAwardJob(w, j)
    \/ \E budget \in 0..BatchSize : ProcessBatch(w, budget)
    \/ ReleaseFailure(w)

AwardNext ==
    \/ \E users \in SUBSET Recipients : AwardBadge(users)
    \/ DeleteBadge
    \/ \E i \in DOMAIN awards : RevokeBadge(i)
    \/ \E w \in Replicas : AwarderStep(w) \/ AwarderLost(w)
    \/ \E j \in DOMAIN jobs : RecoverStaleJob(j) \/ RequeueBadgeAwardJob(j) \/ CleanupJob(j)

AwardSpec == AwardInit /\ [][AwardNext]_awardVars

-----------------------------------------------------------------------------
(* Properties *)

\* Nobody holds the badge twice, although requests overlap, batches are
\* repeated after lost workers, and the unique index no longer applies once
\* the definition is deleted.
AtMostOneActiveAward ==
    \A i, k \in DOMAIN awards :
        i # k /\ ~awards[i].revoked /\ ~awards[k].revoked => awards[i].user # awards[k].user

\* Two credentials never share a revocation bit, so that revoking one leaves
\* every other valid, across the turnover to a new list.
RevocationBitsDistinct ==
    \A i, k \in DOMAIN awards :
        i # k => awards[i].list # awards[k].list \/ awards[i].index # awards[k].index

\* Nobody is passed over: every accepted recipient up to the cursor of a job
\* was issued a credential, whatever interrupted its batches.
NobodyPassedOver ==
    \A j \in DOMAIN jobs : \A p \in 1..jobs[j].next :
        \E i \in DOMAIN awards : awards[i].user = jobs[j].recipients[p]

\* Accepted work is issued or handed to an operator in the end.
AwardsResolve ==
    \A j \in 1..MaxJobs : (j \in DOMAIN jobs) ~> (j \in DOMAIN jobs /\ jobs[j].status \in {"completed", "failed", "removed"})
=============================================================================
