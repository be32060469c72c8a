-------------------------- MODULE DurableWorkProofs --------------------------
(***************************************************************************)
(* Four components that do something once although it is retried, cached   *)
(* or handed on: credit notes and fee returns, published badge             *)
(* credentials, counted page views and badge awards.  Everything is for    *)
(* any number of workers, requests, attempts and faults, and any size of   *)
(* the channels, batches and status lists.                                 *)
(***************************************************************************)
EXTENDS FinancialWork, BadgeAwards, BadgeCredentials, ActivityTracker,
        FiniteSetTheorems, SequenceTheorems, WellFoundedInduction, TLAPS

-----------------------------------------------------------------------------
(***************************************************************************)
(* One credit note and one fee return.  Whoever is about to create either  *)
(* finds nothing made, or the provider still has the idempotency key of    *)
(* what was made.  The key is forgotten only when nobody is about to       *)
(* create, and from then on the lookup finds the object.                   *)
(***************************************************************************)

Objects == [id: Nat, exact: BOOLEAN]

WorkerRecords == [pc: {"idle", "lookup", "create", "record", "release"}, claim: Nat, object: Nat]

JobRecords ==
    [status: {"pending", "processing", "failed", "done"}, attempts: Nat, claim: Nat, object: Int]

\* The types of what the argument is about.
WorkTypes ==
    /\ made \in SUBSET Objects
    /\ key \in SUBSET Objects
    /\ worker \in [Workers -> WorkerRecords]
    /\ job \in JobRecords
    /\ claims \in Nat

\* All that was made is one object, and it is what the key stands for.
OneMade ==
    /\ \A o, p \in made : o = p
    /\ key \subseteq made

\* A worker about to create is covered: by there being nothing yet, or by the
\* key, which the provider has not forgotten.
CreationCovered ==
    \A w \in Workers : worker[w].pc = "create" => made = {} \/ key # {}

\* A worker that records names an object that exists.
RecordsExisting ==
    \A w \in Workers : worker[w].pc = "record" => worker[w].object \in Existing

JobNamesObject == job.object \in {0, Outside} \cup Existing

WorkInv == WorkTypes /\ OneMade /\ CreationCovered /\ RecordsExisting /\ JobNamesObject

LEMMA InitWorkInv == WorkInit => WorkInv
  BY DEF WorkInit, WorkInv, WorkTypes, OneMade, CreationCovered, RecordsExisting,
         JobNamesObject, IdleWorker, WorkerRecords, JobRecords, Objects

LEMMA ClaimedJob ==
  ASSUME NEW r \in JobRecords, NEW c \in Nat,
         NEW n, n = [r EXCEPT !.status = "processing", !.attempts = @ + 1, !.claim = c]
  PROVE  n \in JobRecords /\ n.object = r.object
  <1>1. n = [status |-> "processing", attempts |-> r.attempts + 1, claim |-> c, object |-> r.object]
    BY DEF JobRecords
  <1>. QED
    BY <1>1 DEF JobRecords

LEMMA DoneJob ==
  ASSUME NEW r \in JobRecords, NEW o \in Int,
         NEW n, n = [r EXCEPT !.status = "done", !.claim = 0, !.object = o]
  PROVE  n \in JobRecords /\ n.object = o
  <1>1. n = [status |-> "done", attempts |-> r.attempts, claim |-> 0, object |-> o]
    BY DEF JobRecords
  <1>. QED
    BY <1>1 DEF JobRecords

LEMMA NextWorkInv == WorkInv /\ [WorkNext]_workVars => WorkInv'
  <1>. SUFFICES ASSUME WorkInv, [WorkNext]_workVars PROVE WorkInv'
    OBVIOUS
  <1>. USE DEF WorkInv, WorkTypes, OneMade, CreationCovered, RecordsExisting,
               JobNamesObject, WorkerRecords, JobRecords, Outside
  <1>1. ASSUME NEW w \in Workers, ProcessNext(w) PROVE WorkInv'
    <2>1. SurfaceAbandoned(job) \in JobRecords /\ SurfaceAbandoned(job).object = job.object
      BY DEF SurfaceAbandoned
    <2>2. made' = made /\ key' = key /\ Existing' = Existing
      BY <1>1 DEF ProcessNext, Existing
    <2>3. CASE UNCHANGED <<worker, claims>> /\ job' = SurfaceAbandoned(job)
      BY <2>1, <2>2, <2>3
    <2>4. CASE /\ claims' = claims + 1
               /\ job' = [SurfaceAbandoned(job) EXCEPT !.status = "processing", !.attempts = @ + 1,
                                                       !.claim = claims + 1]
               /\ worker' = [worker EXCEPT ![w] = [pc |-> "lookup", claim |-> claims + 1, object |-> 0]]
      <3>1. job' \in JobRecords /\ job'.object = job.object
        BY <2>1, <2>4, claims + 1 \in Nat, ClaimedJob
      <3>2. worker' \in [Workers -> WorkerRecords] /\ claims' \in Nat
        BY <2>4
      <3>3. CreationCovered' /\ RecordsExisting'
        BY <2>2, <2>4
      <3>. QED
        BY <2>2, <3>1, <3>2, <3>3
    <2>. QED
      BY <1>1, <2>3, <2>4 DEF ProcessNext
  <1>2. ASSUME NEW w \in Workers, Lookup(w) PROVE WorkInv'
    <2>1. made' = made /\ key' = key /\ job' = job /\ claims' = claims /\ Existing' = Existing
      BY <1>2 DEF Lookup, Existing
    <2>2. CASE Existing = {} /\ Goto(w, "create")
      <3>1. made = {}
        <4>1. \A o \in made : o.id \in Existing
          BY DEF Existing
        <4>. QED
          BY <2>2, <4>1
      <3>. QED
        <4>1. worker' \in [Workers -> WorkerRecords]
          BY <2>2 DEF Goto
        <4>2. RecordsExisting'
          BY <2>1, <2>2 DEF Goto
        <4>3. CreationCovered'
          BY <2>1, <2>2, <3>1 DEF Goto
        <4>4. OneMade' /\ JobNamesObject' /\ WorkTypes'
          BY <2>1, <4>1
        <4>. QED
          BY <4>2, <4>3, <4>4
    <2>3. ASSUME NEW o \in made,
                 worker' = [worker EXCEPT ![w].pc = IF o.exact THEN "record" ELSE "release",
                                          ![w].object = o.id]
          PROVE WorkInv'
      <3>1. o.id \in Nat /\ o.id \in Existing
        BY DEF Objects, Existing
      <3>. QED
        BY ZenonT(40), <2>1, <2>3, <3>1
    <2>. QED
      BY <1>2, <2>2, <2>3 DEF Lookup
  <1>3. ASSUME NEW w \in Workers, Create(w) PROVE WorkInv'
    <2>1. job' = job /\ claims' = claims /\ worker[w].pc = "create"
      BY <1>3 DEF Create
    <2>2. PICK o \in [id: 1..MaxObjects, exact: BOOLEAN] :
              /\ NewObject(o)
              /\ \/ o.exact /\ worker' = [worker EXCEPT ![w].pc = "record", ![w].object = o.id]
                 \/ Goto(w, "release")
      BY <1>3 DEF Create
    <2>3. /\ made' \in SUBSET Objects /\ key' \in SUBSET Objects
          /\ o \in made' /\ key' # {} /\ key' \subseteq made' /\ made \subseteq made'
          /\ \A p, q \in made' : p = q
      BY <2>1, <2>2 DEF NewObject, Objects
    <2>4. o.id \in Nat /\ o.id \in Existing' /\ Existing \subseteq Existing'
      BY <2>3 DEF Existing, Objects
    <2>5. worker' \in [Workers -> WorkerRecords] /\ RecordsExisting'
      BY <2>2, <2>4 DEF Goto
    <2>. QED
      BY <2>1, <2>3, <2>4, <2>5
  <1>4. ASSUME NEW w \in Workers, ProviderFails(w) PROVE WorkInv'
    BY <1>4 DEF ProviderFails, Goto, Existing
  <1>5. ASSUME NEW w \in Workers, RecordSucceeded(w) PROVE WorkInv'
    <2>1. made' = made /\ key' = key /\ claims' = claims /\ Existing' = Existing
      BY <1>5 DEF RecordSucceeded, Existing
    <2>2. worker[w].object \in Nat /\ worker[w].object \in Existing
      BY <1>5 DEF RecordSucceeded
    <2>3. job' \in JobRecords /\ job'.object \in {job.object, worker[w].object}
      <3>1. CASE OwnsClaim(w)
        <4>1. job' = [job EXCEPT !.status = "done", !.claim = 0, !.object = worker[w].object]
          BY <1>5, <3>1 DEF RecordSucceeded, Done
        <4>2. job' \in JobRecords /\ job'.object = worker[w].object
          BY <2>2, <4>1, worker[w].object \in Int, job \in JobRecords, DoneJob
        <4>. QED
          BY <4>2
      <3>2. CASE ~OwnsClaim(w)
        BY <1>5, <3>2 DEF RecordSucceeded
      <3>. QED
        BY <3>1, <3>2
    <2>. QED
      BY <1>5, <2>1, <2>2, <2>3 DEF RecordSucceeded, Leave, IdleWorker
  <1>6. ASSUME NEW w \in Workers, RecordFailure(w) PROVE WorkInv'
    BY <1>6 DEF RecordFailure, Leave, IdleWorker, Existing
  <1>7. ASSUME NEW w \in Workers, WorkerLost(w) PROVE WorkInv'
    BY <1>7 DEF WorkerLost, Leave, IdleWorker, Existing
  <1>8. CASE RequeueStaleClaims
    BY <1>8 DEF RequeueStaleClaims, Existing
  <1>9. CASE Requeue
    BY <1>9 DEF Requeue, Existing
  <1>10. CASE CompleteRecovery
    <2>1. made' = made /\ key' = key /\ claims' = claims /\ worker' = worker /\ Existing' = Existing
      BY <1>10 DEF CompleteRecovery, Existing
    <2>2. Existing \cup {Outside} \subseteq Int
      BY DEF Existing, Outside, Objects
    <2>3. PICK object \in Existing \cup {Outside} : Done(object)
      BY <1>10 DEF CompleteRecovery
    <2>. QED
      BY <2>1, <2>2, <2>3 DEF Done
  <1>11. CASE GateMoves
    BY <1>11 DEF GateMoves, Existing
  <1>12. CASE UNCHANGED workVars
    BY <1>12 DEF workVars, Existing
  <1>. QED
    BY <1>1, <1>2, <1>3, <1>4, <1>5, <1>6, <1>7, <1>8, <1>9, <1>10, <1>11, <1>12
    DEF WorkNext, WorkerStep

\* Whatever answers, claims and keys are lost, at most one credit note or fee
\* return is created for a job, and a finished job names it or the one its
\* operator made.
THEOREM WorkDoneOnce == WorkSpec => []AtMostOneObject
  <1>1. WorkInv => AtMostOneObject
    <2>. SUFFICES ASSUME WorkInv PROVE AtMostOneObject
      OBVIOUS
    <2>1. Cardinality(made) <= 1
      <3>1. CASE made = {}
        BY <3>1, FS_EmptySet
      <3>2. CASE made # {}
        <4>1. PICK o \in made : made = {o}
          BY <3>2 DEF WorkInv, OneMade
        <4>. QED
          BY <4>1, FS_Singleton
      <3>. QED
        BY <3>1, <3>2
    <2>. QED
      BY <2>1 DEF WorkInv, JobNamesObject, Existing, AtMostOneObject
  <1>. QED
    BY <1>1, InitWorkInv, NextWorkInv, PTL DEF WorkSpec

-----------------------------------------------------------------------------
(***************************************************************************)
(* A served list covers what was revoked when its request came in: until   *)
(* it is served a request keeps the state it read, and the cache answers   *)
(* only with a representation of that state.                               *)
(***************************************************************************)
RequestSteps ==
    {"idle", "list", "lock-list", "sign-list", "served", "bind", "export", "lock-export", "sign-export", "delivered"}

Identities == [salt: Nat, email: Emails \cup {NoIdentity.email}]
Exports == [identity: Identities, key: Keys \cup {NoExport.key}]

RequestRecords ==
    [pc: RequestSteps, read: SUBSET Bits, since: SUBSET Bits, list: SUBSET Bits,
     identity: Identities, export: Exports]

CredentialTypes ==
    /\ revoked \in SUBSET Bits
    /\ email \in Emails \cup {NoIdentity.email}
    /\ binding \in Identities
    /\ keys \in [signing: Keys \cup {NoExport.key}, known: SUBSET (Keys \cup {NoExport.key})]
    /\ statusCache \in SUBSET (SUBSET Bits)
    /\ exportCache \in SUBSET [slot: Nat, export: Exports]
    /\ request \in [Requests -> RequestRecords]

ReadStateKept ==
    \A r \in Requests :
        request[r].pc \in {"list", "lock-list", "sign-list"} => request[r].since = request[r].read

\* The identities in use: of the award, of requests and of cached exports.
IdentitiesInUse ==
    {NoIdentity, binding} \cup {request[r].identity : r \in Requests} \cup {c.export.identity : c \in exportCache}

\* A salt names one identity, and the binding has the newest.
SaltsName ==
    /\ \A i \in IdentitiesInUse : i.salt <= binding.salt
    /\ \A i, j \in IdentitiesInUse : i.salt = j.salt => i = j

\* Cached exports are found by the salt they carry, and their keys are known.
CacheTrue ==
    /\ keys.signing \in keys.known
    /\ \A c \in exportCache : c.slot = c.export.identity.salt /\ c.export.key \in keys.known

DeliveredTrue ==
    \A r \in Requests : request[r].pc = "delivered" =>
        request[r].export.identity = request[r].identity /\ request[r].export.key \in keys.known

CredentialInv ==
    CredentialTypes /\ ReadStateKept /\ ServedListIsFresh /\ SaltsName /\ CacheTrue /\ DeliveredTrue

LEMMA IdleFacts ==
  /\ NoIdentity \in Identities /\ NoIdentity.salt = 0
  /\ IdleRequest \in RequestRecords /\ IdleRequest.pc = "idle" /\ IdleRequest.identity = NoIdentity
  <1>1. NoIdentity \in Identities /\ NoIdentity.salt = 0
    BY DEF NoIdentity, Identities
  <1>2. NoExport \in Exports
    BY <1>1 DEF NoExport, Exports
  <1>. QED
    BY <1>1, <1>2 DEF IdleRequest, RequestRecords, RequestSteps

LEMMA InUseTyped == CredentialTypes => IdentitiesInUse \subseteq Identities
  <1>. SUFFICES ASSUME CredentialTypes, NEW i \in IdentitiesInUse PROVE i \in Identities
    OBVIOUS
  <1>1. CASE i \in {NoIdentity, binding}
    BY <1>1, IdleFacts DEF CredentialTypes
  <1>2. CASE \E r \in Requests : i = request[r].identity
    BY <1>2 DEF CredentialTypes, RequestRecords
  <1>3. CASE \E c \in exportCache : i = c.export.identity
    BY <1>3 DEF CredentialTypes, Exports
  <1>. QED
    BY <1>1, <1>2, <1>3 DEF IdentitiesInUse

\* Only a binding with a new salt enters.
LEMMA SaltsKept ==
  ASSUME CredentialTypes, SaltsName, binding' \in Identities,
         IdentitiesInUse' \subseteq IdentitiesInUse \cup {binding'},
         binding' = binding \/ binding'.salt = binding.salt + 1
  PROVE  SaltsName'
  <1>1. /\ \A i \in IdentitiesInUse : i.salt \in Nat
        /\ binding.salt \in Nat /\ binding'.salt \in Nat /\ binding \in IdentitiesInUse
    BY InUseTyped DEF Identities, CredentialTypes, IdentitiesInUse
  <1>2. \A i \in IdentitiesInUse : i.salt <= binding.salt
    BY DEF SaltsName
  <1>3. \A i, j \in IdentitiesInUse : i.salt = j.salt => i = j
    BY DEF SaltsName
  <1>4. \A i \in IdentitiesInUse' : i.salt <= binding'.salt
    BY <1>1, <1>2
  <1>5. \A i, j \in IdentitiesInUse' : i.salt = j.salt => i = j
    BY <1>1, <1>2, <1>3
  <1>. QED
    BY <1>4, <1>5 DEF SaltsName

LEMMA InitCredentialInv == CredentialInit => CredentialInv
  <1>. SUFFICES ASSUME CredentialInit PROVE CredentialInv
    OBVIOUS
  <1>1. CredentialTypes
    BY IdleFacts DEF CredentialInit, CredentialTypes, VerificationKeys
  <1>2. ReadStateKept /\ ServedListIsFresh /\ DeliveredTrue /\ CacheTrue
    BY IdleFacts DEF CredentialInit, ReadStateKept, ServedListIsFresh, DeliveredTrue, CacheTrue, VerificationKeys
  <1>3. \A i \in IdentitiesInUse : i = NoIdentity
    BY IdleFacts DEF CredentialInit, IdentitiesInUse
  <1>4. SaltsName
    BY <1>3, IdleFacts DEF SaltsName, CredentialInit
  <1>. QED
    BY <1>1, <1>2, <1>4 DEF CredentialInv

\* A request that only changes what it is told to.
LEMMA RequestBecomes ==
  ASSUME CredentialInv, NEW r \in Requests, NEW rec \in RequestRecords, Becomes(r, rec),
         UNCHANGED keys, CacheTrue', binding' \in Identities,
         binding' = binding \/ binding'.salt = binding.salt + 1,
         rec.identity \in {NoIdentity, request[r].identity, binding'},
         \A c \in exportCache' : c.export.identity \in IdentitiesInUse,
         rec.pc \in {"list", "lock-list", "sign-list"} => rec.since = rec.read,
         rec.pc = "served" => rec.since \subseteq rec.list,
         rec.pc = "delivered" => rec.export.identity = rec.identity /\ rec.export.key \in keys.known
  PROVE  ReadStateKept' /\ ServedListIsFresh' /\ SaltsName' /\ DeliveredTrue' /\ request' \in [Requests -> RequestRecords]
  <1>1. /\ request' \in [Requests -> RequestRecords] /\ request'[r] = rec
        /\ \A s \in Requests : s # r => request'[s] = request[s]
    BY DEF Becomes, CredentialInv, CredentialTypes
  <1>2. ReadStateKept' /\ ServedListIsFresh' /\ DeliveredTrue'
    BY <1>1 DEF CredentialInv, ReadStateKept, ServedListIsFresh, DeliveredTrue
  <1>3. \A s \in Requests : request'[s].identity \in IdentitiesInUse \cup {binding'}
    BY <1>1 DEF IdentitiesInUse
  <1>4. IdentitiesInUse' \subseteq IdentitiesInUse \cup {binding'}
    <2>1. IdentitiesInUse' = {NoIdentity, binding'} \cup {request'[s].identity : s \in Requests}
                             \cup {c.export.identity : c \in exportCache'}
      BY DEF IdentitiesInUse
    <2>2. NoIdentity \in IdentitiesInUse
      BY DEF IdentitiesInUse
    <2>. QED
      BY <1>3, <2>1, <2>2
  <1>5. SaltsName'
    BY <1>4, SaltsKept DEF CredentialInv
  <1>. QED
    BY <1>1, <1>2, <1>5

\* The same for a request that leaves the binding and the exports alone.
LEMMA OnlyRequest ==
  ASSUME CredentialInv, NEW r \in Requests, NEW rec \in RequestRecords, Becomes(r, rec),
         UNCHANGED <<revoked, email, binding, keys, exportCache>>,
         statusCache' \in SUBSET (SUBSET Bits),
         rec.identity \in {NoIdentity, request[r].identity},
         rec.pc \in {"list", "lock-list", "sign-list"} => rec.since = rec.read,
         rec.pc = "served" => rec.since \subseteq rec.list,
         rec.pc = "delivered" => rec.export.identity = rec.identity /\ rec.export.key \in keys.known
  PROVE  CredentialInv'
  <1>1. CacheTrue'
    BY DEF CredentialInv, CacheTrue
  <1>2. binding' \in Identities /\ binding' = binding
    BY DEF CredentialInv, CredentialTypes
  <1>3. \A c \in exportCache' : c.export.identity \in IdentitiesInUse
    BY DEF IdentitiesInUse
  <1>4. ReadStateKept' /\ ServedListIsFresh' /\ SaltsName' /\ DeliveredTrue' /\ request' \in [Requests -> RequestRecords]
    BY <1>1, <1>2, <1>3, RequestBecomes
  <1>. QED
    BY <1>1, <1>4 DEF CredentialInv, CredentialTypes

LEMMA ListStepKeeps ==
  ASSUME CredentialInv, NEW r \in Requests,
         StatusList(r) \/ LookUpList(r) \/ LockList(r) \/ SignList(r)
  PROVE  CredentialInv'
  <1>. DEFINE q == request[r]
  <1>0. q \in RequestRecords /\ CredentialTypes
    BY DEF CredentialInv, CredentialTypes
  <1>1. CASE StatusList(r)
    <2>. DEFINE rec == [IdleRequest EXCEPT !.pc = "list", !.read = revoked, !.since = revoked]
    <2>1. rec \in RequestRecords /\ rec.identity = NoIdentity /\ rec.pc = "list" /\ rec.since = rec.read
      BY <1>0, IdleFacts DEF RequestRecords, RequestSteps, CredentialTypes
    <2>2. Becomes(r, rec) /\ UNCHANGED <<revoked, email, binding, keys, statusCache, exportCache>>
      BY <1>1 DEF StatusList
    <2>. HIDE DEF rec
    <2>. QED
      BY <1>0, <2>1, <2>2, OnlyRequest DEF CredentialTypes
  \* The list is the state the request read.
  <1>2. ASSUME q.pc \in {"list", "lock-list", "sign-list"}, ServeList(r, q.read),
               UNCHANGED <<revoked, email, binding, keys, exportCache>>,
               statusCache' \in SUBSET (SUBSET Bits)
        PROVE CredentialInv'
    <2>. DEFINE rec == [q EXCEPT !.pc = "served", !.list = q.read]
    <2>1. rec \in RequestRecords /\ rec.identity = q.identity /\ rec.pc = "served"
          /\ rec.since = q.since /\ rec.list = q.read
      BY <1>0 DEF RequestRecords, RequestSteps
    <2>2. q.since = q.read
      BY <1>2 DEF CredentialInv, ReadStateKept
    <2>3. Becomes(r, rec)
      BY <1>2 DEF ServeList
    <2>. HIDE DEF rec
    <2>. QED
      BY <1>2, <2>1, <2>2, <2>3, OnlyRequest
  <1>3. ASSUME NEW pc \in {"lock-list", "sign-list"}, q.pc \in {"list", "lock-list"}, StepTo(r, pc),
               UNCHANGED <<revoked, email, binding, keys, statusCache, exportCache>>
        PROVE CredentialInv'
    <2>. DEFINE rec == [q EXCEPT !.pc = pc]
    <2>1. rec \in RequestRecords /\ rec.identity = q.identity /\ rec.pc = pc
          /\ rec.since = q.since /\ rec.read = q.read
      BY <1>0 DEF RequestRecords, RequestSteps
    <2>2. q.since = q.read
      BY <1>3 DEF CredentialInv, ReadStateKept
    <2>3. Becomes(r, rec)
      BY <1>3 DEF StepTo, Becomes
    <2>. HIDE DEF rec
    <2>. QED
      BY <1>0, <1>3, <2>1, <2>2, <2>3, OnlyRequest DEF CredentialTypes
  <1>4. CASE LookUpList(r)
    BY <1>0, <1>2, <1>3, <1>4 DEF LookUpList, StatusCacheGet, CredentialTypes
  <1>5. CASE LockList(r)
    BY <1>0, <1>2, <1>3, <1>5 DEF LockList, StatusCacheGet, CredentialTypes
  <1>6. CASE SignList(r)
    <2>1. q.read \in SUBSET Bits
      BY <1>0 DEF RequestRecords
    <2>. QED
      BY <1>2, <1>6, <2>1 DEF SignList
  <1>. QED
    BY <1>1, <1>4, <1>5, <1>6

\* What a cached export found for an identity carries that identity.
LEMMA FoundExport ==
  ASSUME CredentialInv, NEW r \in Requests, NEW c \in ExportCacheGet(request[r].identity)
  PROVE  /\ c.export \in Exports
         /\ c.export.identity = request[r].identity
         /\ c.export.key \in keys.known
  <1>1. c \in exportCache /\ c.slot = request[r].identity.salt
    BY DEF ExportCacheGet, ExportKey
  <1>2. c.slot = c.export.identity.salt /\ c.export.key \in keys.known
    BY <1>1 DEF CredentialInv, CacheTrue
  <1>3. request[r].identity \in IdentitiesInUse /\ c.export.identity \in IdentitiesInUse
    BY <1>1 DEF IdentitiesInUse
  <1>4. c.export.identity = request[r].identity
    BY <1>1, <1>2, <1>3 DEF CredentialInv, SaltsName
  <1>. QED
    BY <1>1, <1>2, <1>4 DEF CredentialInv, CredentialTypes

LEMMA ExportStepKeeps ==
  ASSUME CredentialInv, NEW r \in Requests,
         \/ Export(r) \/ Credential(r) \/ RefreshUserBadgeIdentity(r)
         \/ LookUpExport(r) \/ LockExport(r) \/ SignExport(r)
  PROVE  CredentialInv'
  <1>. DEFINE q == request[r]
  <1>0. q \in RequestRecords /\ CredentialTypes /\ statusCache \in SUBSET (SUBSET Bits)
    BY DEF CredentialInv, CredentialTypes
  <1>1. ASSUME NEW pc \in {"bind", "export"}, Becomes(r, [IdleRequest EXCEPT !.pc = pc]),
               UNCHANGED <<revoked, email, binding, keys, statusCache, exportCache>>
        PROVE CredentialInv'
    <2>. DEFINE rec == [IdleRequest EXCEPT !.pc = pc]
    <2>1. rec \in RequestRecords /\ rec.identity = NoIdentity /\ rec.pc = pc
      BY IdleFacts DEF RequestRecords, RequestSteps
    <2>2. Becomes(r, rec)
      BY <1>1
    <2>. HIDE DEF rec
    <2>. QED
      BY <1>0, <1>1, <2>1, <2>2, OnlyRequest
  <1>2. ASSUME Becomes(r, IdleRequest), UNCHANGED <<revoked, email, binding, keys, statusCache, exportCache>>
        PROVE CredentialInv'
    BY <1>0, <1>2, IdleFacts, OnlyRequest
  <1>3. ASSUME NEW pc \in {"lock-export", "sign-export"}, StepTo(r, pc),
               UNCHANGED <<revoked, email, binding, keys, statusCache, exportCache>>
        PROVE CredentialInv'
    <2>. DEFINE rec == [q EXCEPT !.pc = pc]
    <2>1. rec \in RequestRecords /\ rec.identity = q.identity /\ rec.pc = pc
      BY <1>0 DEF RequestRecords, RequestSteps
    <2>2. Becomes(r, rec)
      BY <1>3 DEF StepTo, Becomes
    <2>. HIDE DEF rec
    <2>. QED
      BY <1>0, <1>3, <2>1, <2>2, OnlyRequest
  <1>4. ASSUME NEW c \in ExportCacheGet(q.identity), Deliver(r, c.export),
               UNCHANGED <<revoked, email, binding, keys, statusCache, exportCache>>
        PROVE CredentialInv'
    <2>. DEFINE rec == [q EXCEPT !.pc = "delivered", !.export = c.export]
    <2>1. c.export \in Exports /\ c.export.identity = q.identity /\ c.export.key \in keys.known
      BY FoundExport
    <2>2. rec \in RequestRecords /\ rec.identity = q.identity /\ rec.pc = "delivered" /\ rec.export = c.export
      BY <1>0, <2>1 DEF RequestRecords, RequestSteps
    <2>3. Becomes(r, rec)
      BY <1>4 DEF Deliver
    <2>. HIDE DEF rec
    <2>. QED
      BY <1>0, <1>4, <2>1, <2>2, <2>3, OnlyRequest
  <1>5. CASE Export(r)
    BY <1>1, <1>5 DEF Export
  <1>6. CASE Credential(r)
    BY <1>1, <1>6 DEF Credential
  <1>7. CASE LookUpExport(r)
    BY <1>3, <1>4, <1>7 DEF LookUpExport
  <1>8. CASE LockExport(r)
    BY <1>2, <1>3, <1>4, <1>8 DEF LockExport
  <1>9. CASE RefreshUserBadgeIdentity(r)
    <2>1. CASE Own \in revoked
      BY <1>2, <1>9, <2>1 DEF RefreshUserBadgeIdentity
    <2>2. CASE Own \notin revoked
      <3>. DEFINE rec == [q EXCEPT !.pc = "export", !.identity = binding']
      <3>1. binding.salt \in Nat /\ email \in Emails \cup {NoIdentity.email} /\ binding \in Identities
        BY <1>0 DEF CredentialTypes, Identities
      <3>2. /\ binding' \in Identities
            /\ binding' = binding \/ binding'.salt = binding.salt + 1
            /\ Becomes(r, rec)
            /\ UNCHANGED <<revoked, email, keys, statusCache, exportCache>>
        BY <1>9, <2>2, <3>1 DEF RefreshUserBadgeIdentity, Identities
      <3>3. rec \in RequestRecords /\ rec.identity = binding' /\ rec.pc = "export"
        BY <1>0, <3>2 DEF RequestRecords, RequestSteps
      <3>4. CacheTrue'
        BY <3>2 DEF CacheTrue, CredentialInv
      <3>5. \A c \in exportCache' : c.export.identity \in IdentitiesInUse
        BY <3>2 DEF IdentitiesInUse
      <3>. HIDE DEF rec
      <3>6. ReadStateKept' /\ ServedListIsFresh' /\ SaltsName' /\ DeliveredTrue' /\ request' \in [Requests -> RequestRecords]
        BY <3>2, <3>3, <3>4, <3>5, RequestBecomes
      <3>. QED
        BY <1>0, <3>2, <3>4, <3>6 DEF CredentialInv, CredentialTypes
    <2>. QED
      BY <2>1, <2>2
  <1>10. CASE SignExport(r)
    <2>. DEFINE export == [identity |-> q.identity, key |-> keys.signing]
                rec == [q EXCEPT !.pc = "delivered", !.export = export]
                entry == [slot |-> q.identity.salt, export |-> export]
    <2>1. export \in Exports /\ export.identity = q.identity /\ export.key \in keys.known
      BY <1>0 DEF Exports, RequestRecords, CredentialTypes, CredentialInv, CacheTrue
    <2>2. /\ Becomes(r, rec) /\ UNCHANGED <<revoked, email, binding, keys, statusCache>>
          /\ exportCache' = ExportCacheInsert(exportCache, entry)
      BY <1>10 DEF SignExport, Deliver, ExportKey
    <2>3. entry \in [slot: Nat, export: Exports] /\ entry.slot = entry.export.identity.salt
          /\ entry.export = export
      BY <1>0, <2>1 DEF RequestRecords, Identities
    <2>. HIDE DEF export
    <2>4. rec \in RequestRecords /\ rec.identity = q.identity /\ rec.pc = "delivered" /\ rec.export = export
      BY <1>0, <2>1 DEF RequestRecords, RequestSteps
    <2>. HIDE DEF rec, entry
    <2>5. \A c \in exportCache' : c \in exportCache \/ c = entry
      BY <2>2 DEF ExportCacheInsert
    <2>6. CacheTrue' /\ exportCache' \in SUBSET [slot: Nat, export: Exports]
      BY <1>0, <2>1, <2>2, <2>3, <2>5 DEF CacheTrue, CredentialInv, CredentialTypes
    <2>7. \A c \in exportCache' : c.export.identity \in IdentitiesInUse
      BY <2>1, <2>3, <2>5 DEF IdentitiesInUse
    <2>8. ReadStateKept' /\ ServedListIsFresh' /\ SaltsName' /\ DeliveredTrue' /\ request' \in [Requests -> RequestRecords]
      BY <1>0, <2>1, <2>2, <2>4, <2>6, <2>7, RequestBecomes DEF CredentialTypes
    <2>. QED
      BY <1>0, <2>2, <2>6, <2>8 DEF CredentialInv, CredentialTypes
  <1>. QED
    BY <1>5, <1>6, <1>7, <1>8, <1>9, <1>10

LEMMA NextCredentialInv == CredentialInv /\ [CredentialNext]_credentialVars => CredentialInv'
  <1>. SUFFICES ASSUME CredentialInv, [CredentialNext]_credentialVars PROVE CredentialInv'
    OBVIOUS
  <1>0. CredentialTypes
    BY DEF CredentialInv
  <1>1. CASE ListStep
    BY <1>1, ListStepKeeps DEF ListStep
  <1>2. CASE ExportStep
    BY <1>2, ExportStepKeeps DEF ExportStep
  <1>3. ASSUME NEW r \in Requests, Answered(r) PROVE CredentialInv'
    BY <1>0, <1>3, IdleFacts, OnlyRequest DEF Answered, CredentialTypes
  \* The database changes under the requests, or a cache forgets.
  <1>4. ASSUME UNCHANGED <<binding, keys, request>>, exportCache' \subseteq exportCache,
               revoked' \in SUBSET Bits, email' \in Emails \cup {NoIdentity.email},
               statusCache' \in SUBSET (SUBSET Bits)
        PROVE CredentialInv'
    <2>1. CredentialTypes' /\ ReadStateKept' /\ ServedListIsFresh' /\ CacheTrue' /\ DeliveredTrue'
      BY <1>0, <1>4 DEF CredentialInv, CredentialTypes, ReadStateKept, ServedListIsFresh, CacheTrue, DeliveredTrue
    <2>2. IdentitiesInUse' \subseteq IdentitiesInUse \cup {binding'}
      BY <1>4 DEF IdentitiesInUse
    <2>3. SaltsName'
      BY <1>0, <1>4, <2>1, <2>2, SaltsKept DEF CredentialInv, CredentialTypes
    <2>. QED
      BY <2>1, <2>3 DEF CredentialInv
  <1>5. ASSUME NEW b \in Bits, Revoke(b) PROVE CredentialInv'
    BY <1>0, <1>4, <1>5 DEF Revoke, CredentialTypes
  <1>6. ASSUME NEW e \in Emails, ChangeEmail(e) PROVE CredentialInv'
    BY <1>0, <1>4, <1>6 DEF ChangeEmail, CredentialTypes
  <1>7. CASE Evict
    BY <1>0, <1>4, <1>7 DEF Evict, CredentialTypes
  <1>8. ASSUME NEW signing \in Keys, NEW retained \in SUBSET Keys, Restart(signing, retained)
        PROVE CredentialInv'
    <2>1. CredentialTypes'
      BY <1>0, <1>8, IdleFacts DEF Restart, CredentialTypes, VerificationKeys
    <2>2. ReadStateKept' /\ ServedListIsFresh' /\ CacheTrue' /\ DeliveredTrue'
      BY <1>8, IdleFacts DEF Restart, ReadStateKept, ServedListIsFresh, CacheTrue, DeliveredTrue, VerificationKeys
    <2>3. IdentitiesInUse' \subseteq IdentitiesInUse \cup {binding'}
      BY <1>8, IdleFacts DEF Restart, IdentitiesInUse
    <2>4. SaltsName'
      BY <1>0, <1>8, <2>1, <2>3, SaltsKept DEF CredentialInv, CredentialTypes, Restart
    <2>. QED
      BY <2>1, <2>2, <2>4 DEF CredentialInv
  <1>9. CASE UNCHANGED credentialVars
    BY <1>0, <1>4, <1>9 DEF credentialVars, CredentialTypes
  <1>. QED
    BY <1>1, <1>2, <1>3, <1>5, <1>6, <1>7, <1>8, <1>9 DEF CredentialNext

\* Whichever requests fill the cache of revocation lists in between, a served
\* list covers every revocation committed when its request came in.
THEOREM ListsAreFresh == CredentialSpec => []ServedListIsFresh
  <1>1. CredentialInv => ServedListIsFresh
    BY DEF CredentialInv
  <1>. QED
    BY <1>1, InitCredentialInv, NextCredentialInv, PTL DEF CredentialSpec

\* A delivered export is signed by a published key and carries the identity
\* its request bound, through any changes of address, key and cache.
THEOREM DownloadsVerify == CredentialSpec => []DownloadVerifies
  <1>1. CredentialInv => DownloadVerifies
    BY IdleFacts DEF CredentialInv, DeliveredTrue, DownloadVerifies, Accepts, Superseded
  <1>. QED
    BY <1>1, InitCredentialInv, NextCredentialInv, PTL DEF CredentialSpec

-----------------------------------------------------------------------------
(***************************************************************************)
(* A view is in exactly one place.  The places are counted, and two facts  *)
(* about counting positions of a sequence carry the argument: appending    *)
(* adds at most the last position, and taking the head shifts the others.  *)
(***************************************************************************)
One(b) == IF b THEN 1 ELSE 0

LEMMA PositionsFinite ==
  ASSUME NEW n \in Nat, NEW P \in SUBSET (1..n)
  PROVE  IsFiniteSet(P) /\ Cardinality(P) \in Nat
  <1>1. IsFiniteSet(1..n)
    BY FS_Interval
  <1>2. IsFiniteSet(P)
    BY <1>1, FS_Subset
  <1>. QED
    BY <1>2, FS_CardinalityType

LEMMA PositionAdded ==
  ASSUME NEW n \in Nat, NEW P \in SUBSET (1..n), NEW Q \in SUBSET (1..(n + 1)),
         \A i \in 1..n : i \in Q <=> i \in P
  PROVE  Cardinality(Q) = Cardinality(P) + One(n + 1 \in Q)
  <1>1. IsFiniteSet(P) /\ Cardinality(P) \in Nat
    BY PositionsFinite
  <1>0. \A i \in 1..(n + 1) : i \in 1..n \/ i = n + 1
    OBVIOUS
  <1>2. CASE n + 1 \in Q
    <2>1. n + 1 \notin P
      OBVIOUS
    <2>3. \A i : i \in Q <=> i \in P \/ i = n + 1
      BY <1>0, <1>2
    <2>4. Q = P \cup {n + 1}
      BY <2>3
    <2>2. Cardinality(P \cup {n + 1}) = Cardinality(P) + 1
      BY <1>1, <2>1, FS_AddElement
    <2>. QED
      BY <1>2, <2>4, <2>2 DEF One
  <1>3. CASE n + 1 \notin Q
    <2>1. Q = P
      BY <1>0, <1>3
    <2>. QED
      BY <1>1, <1>3, <2>1 DEF One
  <1>. QED
    BY <1>2, <1>3

LEMMA PositionsShifted ==
  ASSUME NEW n \in Nat, n # 0, NEW P \in SUBSET (1..n), NEW Q \in SUBSET (1..(n - 1)),
         \A i \in 1..(n - 1) : i \in Q <=> i + 1 \in P
  PROVE  Cardinality(P) = Cardinality(Q) + One(1 \in P)
  <1>1. n - 1 \in Nat
    OBVIOUS
  <1>2. IsFiniteSet(Q) /\ Cardinality(Q) \in Nat
    BY <1>1, PositionsFinite
  <1>. DEFINE f == [i \in Q |-> i + 1]
  <1>3. f \in Bijection(Q, P \ {1})
    <2>1. f \in [Q -> P \ {1}]
      OBVIOUS
    <2>2. \A i, j \in Q : f[i] = f[j] => i = j
      OBVIOUS
    <2>3. \A p \in P \ {1} : \E i \in Q : f[i] = p
      <3>. TAKE p \in P \ {1}
      <3>1. p - 1 \in 1..(n - 1) /\ (p - 1) + 1 = p
        OBVIOUS
      <3>2. p - 1 \in Q
        BY <3>1
      <3>. WITNESS p - 1 \in Q
      <3>. QED
        BY <3>1, <3>2
    <2>. QED
      BY <2>1, <2>2, <2>3 DEF Bijection, Injection, Surjection, IsInjective
  <1>4. Cardinality(P \ {1}) = Cardinality(Q)
    <2>1. ExistsBijection(Q, P \ {1})
      BY <1>3 DEF ExistsBijection
    <2>. QED
      BY <1>2, <2>1, FS_Bijection
  <1>5. IsFiniteSet(P) /\ Cardinality(P) \in Nat
    BY PositionsFinite
  <1>6. Cardinality(P \ {1}) = IF 1 \in P THEN Cardinality(P) - 1 ELSE Cardinality(P)
    BY <1>5, FS_RemoveElement
  <1>. QED
    BY <1>2, <1>4, <1>5, <1>6 DEF One

\* Positions of a view in the channel of activities, and in that of batches.
InQueue(s, v) == {i \in DOMAIN s : s[i] = v}
InBatches(s, v) == {i \in DOMAIN s : v \in s[i]}

LEMMA QueuedCounts ==
  ASSUME NEW s \in Seq(Views), NEW v \in Views
  PROVE  /\ Cardinality(InQueue(s, v)) \in Nat
         /\ \A x \in Views : Cardinality(InQueue(Append(s, x), v)) = Cardinality(InQueue(s, v)) + One(x = v)
         /\ s # <<>> => Cardinality(InQueue(s, v)) = Cardinality(InQueue(Tail(s), v)) + One(Head(s) = v)
         /\ Cardinality(InQueue(s, v)) = 0 <=> \A i \in DOMAIN s : s[i] # v
  <1>. DEFINE P == InQueue(s, v)
  <1>1. Len(s) \in Nat /\ P \in SUBSET (1..Len(s)) /\ DOMAIN s = 1..Len(s)
    BY DEF InQueue
  <1>2. IsFiniteSet(P) /\ Cardinality(P) \in Nat
    BY <1>1, PositionsFinite
  <1>3. ASSUME NEW x \in Views PROVE Cardinality(InQueue(Append(s, x), v)) = Cardinality(P) + One(x = v)
    <2>. DEFINE Q == InQueue(Append(s, x), v)
    <2>1. /\ Q \in SUBSET (1..(Len(s) + 1))
          /\ \A i \in 1..Len(s) : i \in Q <=> i \in P
          /\ Len(s) + 1 \in Q <=> x = v
      BY <1>1 DEF InQueue
    <2>. HIDE DEF P, Q
    <2>2. Cardinality(Q) = Cardinality(P) + One(Len(s) + 1 \in Q)
      BY <1>1, <2>1, PositionAdded
    <2>. QED
      BY <2>1, <2>2 DEF Q, One
  <1>4. ASSUME s # <<>> PROVE Cardinality(P) = Cardinality(InQueue(Tail(s), v)) + One(Head(s) = v)
    <2>. DEFINE Q == InQueue(Tail(s), v)
    <2>1. /\ Len(s) # 0 /\ Q \in SUBSET (1..(Len(s) - 1))
          /\ \A i \in 1..(Len(s) - 1) : i \in Q <=> i + 1 \in P
          /\ 1 \in P <=> Head(s) = v
      BY <1>1, <1>4 DEF InQueue
    <2>. HIDE DEF P, Q
    <2>2. Cardinality(P) = Cardinality(Q) + One(1 \in P)
      BY <1>1, <2>1, PositionsShifted
    <2>. QED
      BY <2>1, <2>2 DEF Q, One
  <1>5. Cardinality(P) = 0 <=> P = {}
    BY <1>2, FS_EmptySet
  <1>6. P = {} <=> \A i \in DOMAIN s : s[i] # v
    BY DEF InQueue
  <1>. QED
    BY <1>2, <1>3, <1>4, <1>5, <1>6

LEMMA BatchedCounts ==
  ASSUME NEW s \in Seq(SUBSET Views), NEW v \in Views
  PROVE  /\ Cardinality(InBatches(s, v)) \in Nat
         /\ \A x \in SUBSET Views :
               Cardinality(InBatches(Append(s, x), v)) = Cardinality(InBatches(s, v)) + One(v \in x)
         /\ s # <<>> => Cardinality(InBatches(s, v)) = Cardinality(InBatches(Tail(s), v)) + One(v \in Head(s))
         /\ s = <<>> => Cardinality(InBatches(s, v)) = 0
  <1>. DEFINE P == InBatches(s, v)
  <1>1. Len(s) \in Nat /\ P \in SUBSET (1..Len(s)) /\ DOMAIN s = 1..Len(s)
    BY DEF InBatches
  <1>2. IsFiniteSet(P) /\ Cardinality(P) \in Nat
    BY <1>1, PositionsFinite
  <1>3. ASSUME NEW x \in SUBSET Views PROVE Cardinality(InBatches(Append(s, x), v)) = Cardinality(P) + One(v \in x)
    <2>. DEFINE Q == InBatches(Append(s, x), v)
    <2>1. /\ Q \in SUBSET (1..(Len(s) + 1))
          /\ \A i \in 1..Len(s) : i \in Q <=> i \in P
          /\ Len(s) + 1 \in Q <=> v \in x
      BY <1>1 DEF InBatches
    <2>. HIDE DEF P, Q
    <2>2. Cardinality(Q) = Cardinality(P) + One(Len(s) + 1 \in Q)
      BY <1>1, <2>1, PositionAdded
    <2>. QED
      BY <2>1, <2>2 DEF Q, One
  <1>4. ASSUME s # <<>> PROVE Cardinality(P) = Cardinality(InBatches(Tail(s), v)) + One(v \in Head(s))
    <2>. DEFINE Q == InBatches(Tail(s), v)
    <2>1. /\ Len(s) # 0 /\ Q \in SUBSET (1..(Len(s) - 1))
          /\ \A i \in 1..(Len(s) - 1) : i \in Q <=> i + 1 \in P
          /\ 1 \in P <=> v \in Head(s)
      BY <1>1, <1>4 DEF InBatches
    <2>. HIDE DEF P, Q
    <2>2. Cardinality(P) = Cardinality(Q) + One(1 \in P)
      BY <1>1, <2>1, PositionsShifted
    <2>. QED
      BY <2>1, <2>2 DEF Q, One
  <1>5. ASSUME s = <<>> PROVE Cardinality(P) = 0
    BY <1>5, FS_EmptySet DEF InBatches
  <1>. QED
    BY <1>2, <1>3, <1>4, <1>5

LEMMA TwoHolders ==
  ASSUME NEW b, NEW f, NEW v
  PROVE  Cardinality({p \in {"batch", "flusher"} : v \in IF p = "batch" THEN b ELSE f}) = One(v \in b) + One(v \in f)
  <1>. DEFINE S == {p \in {"batch", "flusher"} : v \in IF p = "batch" THEN b ELSE f}
  <1>1. CASE v \in b /\ v \in f
    <2>1. S = {"batch"} \cup {"flusher"}
      BY <1>1
    <2>2. IsFiniteSet({"batch"}) /\ Cardinality({"batch"}) = 1 /\ "flusher" \notin {"batch"}
      BY FS_Singleton
    <2>3. Cardinality({"batch"} \cup {"flusher"}) = 2
      BY <2>2, FS_AddElement
    <2>. QED
      BY <1>1, <2>1, <2>3 DEF One
  <1>2. CASE v \in b /\ v \notin f
    <2>1. S = {"batch"}
      BY <1>2
    <2>. QED
      BY <1>2, <2>1, FS_Singleton DEF One
  <1>3. CASE v \notin b /\ v \in f
    <2>1. S = {"flusher"}
      BY <1>3
    <2>. QED
      BY <1>3, <2>1, FS_Singleton DEF One
  <1>4. CASE v \notin b /\ v \notin f
    <2>1. S = {}
      BY <1>4
    <2>. QED
      BY <1>4, <2>1, FS_EmptySet DEF One
  <1>. QED
    BY <1>1, <1>2, <1>3, <1>4

TrackerTypes ==
    /\ asked \in SUBSET Views /\ tracked \in SUBSET Views
    /\ activities \in Seq(Views) /\ batch \in SUBSET Views
    /\ batches \in Seq(SUBSET Views)
    /\ flusher \in [at: {"waiting", "community", "event", "group", "ended"}, batch: SUBSET Views]
    /\ written \in [Views -> Nat] /\ unwritten \in SUBSET Views

\* The sum of the counts.
Total(acts, bats, b, f, w, u, v) ==
    Cardinality(InQueue(acts, v)) + Cardinality(InBatches(bats, v)) + One(v \in b) + One(v \in f) + w[v] + One(v \in u)

\* In one place when it was accepted, in none before.
OnePlace ==
    \A v \in Views : Total(activities, batches, batch, flusher.batch, written, unwritten, v) = One(v \in tracked)

\* What is left behind by a part of the tracker that stopped: nothing.
StoppedEmpty ==
    /\ aggregator \in {"sendingLast", "ended"} => server = "stopped" /\ activities = <<>>
    /\ aggregator = "ended" => batch = {}
    /\ flusher.at = "ended" => aggregator = "ended" /\ batches = <<>>

\* The flusher has written the kinds before the one it writes next.
KindsWritten ==
    /\ flusher.at \in {"waiting", "ended"} => flusher.batch = {}
    /\ flusher.at \in {"event", "group"} => flusher.batch \cap CommunityViews = {}
    /\ flusher.at = "group" => flusher.batch \cap EventViews = {}

TrackerInv == TrackerTypes /\ OnePlace /\ StoppedEmpty /\ KindsWritten /\ asked \cap tracked = {}

LEMMA InitTrackerInv == TrackerInit => TrackerInv
  <1>. SUFFICES ASSUME TrackerInit PROVE TrackerInv
    OBVIOUS
  <1>1. TrackerTypes /\ StoppedEmpty /\ KindsWritten /\ asked \cap tracked = {}
    BY DEF TrackerInit, TrackerTypes, StoppedEmpty, KindsWritten
  <1>2. ASSUME NEW v \in Views
        PROVE Total(activities, batches, batch, flusher.batch, written, unwritten, v) = One(v \in tracked)
    <2>1. Cardinality(InQueue(activities, v)) = 0
      <3>1. InQueue(activities, v) = {}
        BY DEF TrackerInit, InQueue
      <3>. QED
        BY <3>1, FS_EmptySet
    <2>2. Cardinality(InBatches(batches, v)) = 0
      <3>1. InBatches(batches, v) = {}
        BY DEF TrackerInit, InBatches
      <3>. QED
        BY <3>1, FS_EmptySet
    <2>. QED
      BY <2>1, <2>2 DEF TrackerInit, Total, One
  <1>. QED
    BY <1>1, <1>2 DEF TrackerInv, OnePlace

LEMMA NextTrackerInv == TrackerInv /\ [TrackerNext]_trackerVars => TrackerInv'
  <1>. SUFFICES ASSUME TrackerInv, [TrackerNext]_trackerVars PROVE TrackerInv'
    OBVIOUS
  <1>. DEFINE A(v) == Cardinality(InQueue(activities, v))
              B(v) == Cardinality(InBatches(batches, v))
  <1>0. TrackerTypes /\ OnePlace /\ StoppedEmpty /\ KindsWritten /\ asked \cap tracked = {}
    BY DEF TrackerInv
  \* What each place can hold follows from the total.
  <1>1. \A v \in Views :
          /\ A(v) \in Nat /\ B(v) \in Nat /\ written[v] \in Nat
          /\ A(v) + B(v) + One(v \in batch) + One(v \in flusher.batch) + written[v] + One(v \in unwritten)
               = One(v \in tracked)
    BY <1>0, QueuedCounts, BatchedCounts DEF TrackerTypes, OnePlace, Total
  <1>3. ASSUME NEW x \in Views, Track(x) PROVE TrackerInv'
    <2>1. CASE UNCHANGED <<activities, tracked>>
      BY <1>0, <1>3, <2>1 DEF Track, TrackerInv, TrackerTypes, OnePlace, StoppedEmpty, KindsWritten
    <2>2. CASE activities' = Append(activities, x) /\ tracked' = tracked \cup {x}
      <3>1. TrackerTypes' /\ KindsWritten' /\ (asked \cap tracked)' = {}
        BY <1>0, <1>3, <2>2 DEF Track, TrackerTypes, KindsWritten
      <3>2. StoppedEmpty'
        BY <1>0, <1>3, <2>2 DEF Track, StoppedEmpty
      <3>3. ASSUME NEW v \in Views PROVE Cardinality(InQueue(activities', v)) = A(v) + One(x = v)
        BY <1>0, <2>2, QueuedCounts DEF TrackerTypes
      <3>4. x \notin tracked
        BY <1>0, <1>3 DEF Track
      <3>5. UNCHANGED <<batch, batches, flusher, written, unwritten>>
        BY <1>3 DEF Track
      <3>6. ASSUME NEW v \in Views
            PROVE Total(activities, batches, batch, flusher.batch, written, unwritten, v)' = One(v \in tracked')
        <4>1. Cardinality(InQueue(activities', v)) = A(v) + One(x = v)
          BY <3>3
        <4>. HIDE DEF A
        <4>2. CASE x = v
          BY <1>1, <2>2, <3>4, <3>5, <4>1, <4>2 DEF Total, One
        <4>3. CASE x # v
          BY <1>1, <2>2, <3>5, <4>1, <4>3 DEF Total, One
        <4>. QED
          BY <4>2, <4>3
      <3>7. OnePlace'
        BY <3>6 DEF OnePlace
      <3>. QED
        BY <3>1, <3>2, <3>7 DEF TrackerInv
    <2>. QED
      BY <1>3, <2>1, <2>2 DEF Track
  <1>4. CASE Shutdown \/ FlushTick \/ FlusherEnds
    <2>1. UNCHANGED <<tracked, activities, batch, batches, written, unwritten>> /\ flusher'.batch = flusher.batch
      BY <1>0, <1>4 DEF Shutdown, FlushTick, FlusherEnds, TrackerTypes
    <2>2. OnePlace'
      BY <1>0, <2>1 DEF OnePlace
    <2>3. TrackerTypes' /\ StoppedEmpty' /\ KindsWritten' /\ (asked \cap tracked)' = {}
      BY <1>0, <1>4 DEF Shutdown, FlushTick, FlusherEnds, TrackerTypes, StoppedEmpty, KindsWritten
    <2>. QED
      BY <2>2, <2>3 DEF TrackerInv
  <1>5. CASE SendBatch \/ SendLast
    <2>1. /\ batches' = Append(batches, batch) /\ batch' = {}
          /\ UNCHANGED <<asked, tracked, activities, flusher, written, unwritten>>
      BY <1>5 DEF SendBatch, SendLast
    <2>2. TrackerTypes' /\ KindsWritten' /\ (asked \cap tracked)' = {}
      BY <1>0, <2>1 DEF TrackerTypes, KindsWritten
    <2>3. StoppedEmpty'
      BY <1>0, <1>5 DEF SendBatch, SendLast, StoppedEmpty
    <2>4. ASSUME NEW v \in Views PROVE Cardinality(InBatches(batches', v)) = B(v) + One(v \in batch)
      BY <1>0, <2>1, BatchedCounts DEF TrackerTypes
    <2>. HIDE DEF B
    <2>5. OnePlace'
      BY <1>1, <2>1, <2>4 DEF OnePlace, Total, One
    <2>. QED
      BY <2>2, <2>3, <2>5 DEF TrackerInv
  <1>6. CASE AggregateActivity
    <2>1. /\ activities # <<>> /\ Head(activities) \in Views
          /\ batch' = batch \cup {Head(activities)} /\ activities' = Tail(activities)
          /\ UNCHANGED <<asked, tracked, batches, flusher, written, unwritten>>
      BY <1>0, <1>6 DEF AggregateActivity, TrackerTypes
    <2>2. TrackerTypes' /\ KindsWritten' /\ (asked \cap tracked)' = {}
      BY <1>0, <2>1 DEF TrackerTypes, KindsWritten
    <2>3. StoppedEmpty'
      BY <1>0, <1>6 DEF AggregateActivity, StoppedEmpty
    <2>4. ASSUME NEW v \in Views
          PROVE /\ A(v) = Cardinality(InQueue(activities', v)) + One(Head(activities) = v)
                /\ Cardinality(InQueue(activities', v)) \in Nat
      <3>1. activities \in Seq(Views) /\ activities' \in Seq(Views)
        BY <1>0, <2>2 DEF TrackerTypes
      <3>2. A(v) = Cardinality(InQueue(Tail(activities), v)) + One(Head(activities) = v)
        BY <2>1, <3>1, QueuedCounts
      <3>3. Cardinality(InQueue(activities', v)) \in Nat
        BY <3>1, QueuedCounts
      <3>. QED
        BY <2>1, <3>2, <3>3
    <2>6. ASSUME NEW v \in Views
          PROVE Total(activities, batches, batch, flusher.batch, written, unwritten, v)' = One(v \in tracked')
      <3>1. /\ A(v) = Cardinality(InQueue(activities', v)) + One(Head(activities) = v)
            /\ Cardinality(InQueue(activities', v)) \in Nat
        BY <2>4
      <3>. HIDE DEF A
      <3>2. CASE Head(activities) = v
        <4>1. A(v) = Cardinality(InQueue(activities', v)) + 1 /\ v \in batch'
          BY <2>1, <3>1, <3>2 DEF One
        <4>2. v \notin batch
          BY <1>1, <3>1, <4>1 DEF One
        <4>3. One(v \in batch') = One(v \in batch) + 1
          BY <4>1, <4>2 DEF One
        <4>. QED
          BY <1>1, <2>1, <3>1, <4>1, <4>3 DEF Total, One
      <3>3. CASE Head(activities) # v
        BY <1>1, <2>1, <3>1, <3>3 DEF Total, One
      <3>. QED
        BY <3>2, <3>3
    <2>5. OnePlace'
      BY <2>6 DEF OnePlace
    <2>. QED
      BY <2>2, <2>3, <2>5 DEF TrackerInv
  <1>7. CASE Cancelled
    <2>1. /\ activities' = <<>> /\ batch' = batch \cup {activities[i] : i \in DOMAIN activities}
          /\ UNCHANGED <<asked, tracked, batches, flusher, written, unwritten>>
      BY <1>7 DEF Cancelled, DrainQueuedActivities
    <2>2. TrackerTypes' /\ KindsWritten' /\ (asked \cap tracked)' = {}
      BY <1>0, <2>1 DEF TrackerTypes, KindsWritten
    <2>3. StoppedEmpty'
      BY <1>0, <1>7 DEF Cancelled, StoppedEmpty
    <2>4. ASSUME NEW v \in Views
          PROVE /\ Cardinality(InQueue(activities', v)) = 0
                /\ v \in batch' <=> v \in batch \/ A(v) # 0
      <3>1. A(v) = 0 <=> \A i \in DOMAIN activities : activities[i] # v
        BY <1>0, QueuedCounts DEF TrackerTypes
      <3>2. InQueue(activities', v) = {}
        BY <2>1 DEF InQueue
      <3>. HIDE DEF A
      <3>. QED
        BY <2>1, <3>1, <3>2, FS_EmptySet
    <2>6. ASSUME NEW v \in Views
          PROVE Total(activities, batches, batch, flusher.batch, written, unwritten, v)' = One(v \in tracked')
      <3>1. Cardinality(InQueue(activities', v)) = 0 /\ (v \in batch' <=> v \in batch \/ A(v) # 0)
        BY <2>4
      <3>. HIDE DEF A
      <3>2. CASE A(v) = 0
        BY <1>1, <2>1, <3>1, <3>2 DEF Total, One
      <3>3. CASE A(v) # 0
        BY SMTT(40), <1>1, <2>1, <3>1, <3>3 DEF Total, One
      <3>. QED
        BY <3>2, <3>3
    <2>5. OnePlace'
      BY <2>6 DEF OnePlace
    <2>. QED
      BY <2>2, <2>3, <2>5 DEF TrackerInv
  <1>8. CASE TakeBatch
    <2>1. /\ batches # <<>> /\ Head(batches) \in SUBSET Views /\ batches' = Tail(batches)
          /\ flusher.batch = {} /\ flusher' = [at |-> "community", batch |-> Head(batches)]
          /\ UNCHANGED <<asked, tracked, activities, batch, written, unwritten>>
      BY <1>0, <1>8 DEF TakeBatch, TrackerTypes, KindsWritten
    <2>2. TrackerTypes' /\ KindsWritten' /\ (asked \cap tracked)' = {}
      BY <1>0, <2>1 DEF TrackerTypes, KindsWritten
    <2>3. StoppedEmpty'
      BY <1>0, <1>8 DEF TakeBatch, StoppedEmpty
    <2>4. ASSUME NEW v \in Views
          PROVE B(v) = Cardinality(InBatches(batches', v)) + One(v \in Head(batches))
                /\ Cardinality(InBatches(batches', v)) \in Nat
      BY <1>0, <2>1, <2>2, BatchedCounts DEF TrackerTypes
    <2>. HIDE DEF B
    <2>5. OnePlace'
      BY <1>1, <2>1, <2>4 DEF OnePlace, Total, One
    <2>. QED
      BY <2>2, <2>3, <2>5 DEF TrackerInv
  <1>9. CASE WriteViews
    <2>1. Due \subseteq flusher.batch /\ Due \subseteq Views
      BY <1>0, <1>9 DEF WriteViews, Due, After, TrackerTypes
    <2>2. /\ flusher' = [at |-> After[flusher.at], batch |-> flusher.batch \ Due]
          /\ flusher.at \in {"community", "event", "group"}
          /\ UNCHANGED <<asked, tracked, activities, aggregator, batch, batches, server>>
          /\ \/ written' = [v \in Views |-> written[v] + One(v \in Due)] /\ UNCHANGED unwritten
             \/ unwritten' = unwritten \cup Due /\ UNCHANGED written
      BY <1>9 DEF WriteViews, After, One
    <2>3. KindsWritten' /\ flusher'.at \in {"event", "group", "waiting"}
      <3>1. CASE flusher.at = "community"
        BY <1>0, <2>2, <3>1 DEF KindsWritten, Due, After
      <3>2. CASE flusher.at = "event"
        BY <1>0, <2>2, <3>2, TrackerAssumption DEF KindsWritten, Due, After
      <3>3. CASE flusher.at = "group"
        BY <1>0, <2>2, <3>3 DEF KindsWritten, Due, After
      <3>. QED
        BY <2>2, <3>1, <3>2, <3>3
    <2>. HIDE DEF Due
    <2>4. TrackerTypes' /\ (asked \cap tracked)' = {}
      BY <1>0, <2>1, <2>2, <2>3 DEF TrackerTypes, One
    <2>5. StoppedEmpty'
      BY <1>0, <2>2, <2>3 DEF StoppedEmpty
    <2>. HIDE DEF A, B
    <2>6. \A v \in Views : One(v \in flusher'.batch) + written'[v] + One(v \in unwritten')
                           = One(v \in flusher.batch) + written[v] + One(v \in unwritten)
      BY <1>1, <2>1, <2>2 DEF One
    <2>8. ASSUME NEW v \in Views
          PROVE Total(activities, batches, batch, flusher.batch, written, unwritten, v)' = One(v \in tracked')
      <3>1. Total(activities, batches, batch, flusher.batch, written, unwritten, v)'
              = A(v) + B(v) + One(v \in batch) + One(v \in flusher'.batch) + written'[v] + One(v \in unwritten')
        BY <2>2 DEF Total, A, B
      <3>2. One(v \in batch) \in Nat /\ One(v \in flusher.batch) \in Nat /\ One(v \in flusher'.batch) \in Nat
            /\ One(v \in unwritten) \in Nat /\ One(v \in unwritten') \in Nat /\ written'[v] \in Nat
        BY <2>4 DEF One, TrackerTypes
      <3>3. tracked' = tracked
        BY <2>2
      <3>4. One(v \in flusher'.batch) + written'[v] + One(v \in unwritten')
              = One(v \in flusher.batch) + written[v] + One(v \in unwritten)
        BY <2>6
      <3>5. A(v) \in Nat /\ B(v) \in Nat /\ written[v] \in Nat
        BY <1>1
      <3>6. Total(activities, batches, batch, flusher.batch, written, unwritten, v)'
              = A(v) + B(v) + One(v \in batch) + One(v \in flusher.batch) + written[v] + One(v \in unwritten)
        BY <3>1, <3>2, <3>4, <3>5
      <3>. QED
        BY <1>1, <3>3, <3>6
    <2>7. OnePlace'
      BY <2>8 DEF OnePlace
    <2>. QED
      BY <2>3, <2>4, <2>5, <2>7 DEF TrackerInv
  <1>10. CASE UNCHANGED trackerVars
    BY <1>0, <1>10 DEF trackerVars, TrackerInv, TrackerTypes, OnePlace, StoppedEmpty, KindsWritten
  <1>. QED
    BY <1>3, <1>4, <1>5, <1>6, <1>7, <1>8, <1>9, <1>10 DEF TrackerNext

\* Whatever the sizes of the channels and wherever the shutdown comes, a view
\* that was accepted is on its way, written or reported in exactly one place,
\* and nothing is on its way when the tracker has stopped.
THEOREM EachViewOnce == TrackerSpec => []ViewsCountedOnce
  <1>1. TrackerInv => ViewsCountedOnce
    <2>. SUFFICES ASSUME TrackerInv PROVE ViewsCountedOnce
      OBVIOUS
    <2>1. ASSUME NEW v \in tracked
          PROVE /\ Places(v) = 1
                /\ flusher.at = "ended" => written[v] = 1 \/ v \in unwritten
      <3>1. v \in Views /\ Total(activities, batches, batch, flusher.batch, written, unwritten, v) = 1
        BY DEF TrackerInv, TrackerTypes, OnePlace, One
      <3>2. Places(v) = 1
        <4>. DEFINE H == Cardinality({p \in {"batch", "flusher"} : v \in IF p = "batch" THEN batch ELSE flusher.batch})
        <4>1. H = One(v \in batch) + One(v \in flusher.batch)
          BY TwoHolders
        <4>2. Places(v) = Cardinality(InQueue(activities, v)) + Cardinality(InBatches(batches, v)) + H + written[v]
                          + One(v \in unwritten)
          BY DEF Places, InQueue, InBatches, One
        <4>3. /\ Cardinality(InQueue(activities, v)) \in Nat /\ Cardinality(InBatches(batches, v)) \in Nat
              /\ written[v] \in Nat
          BY <3>1, QueuedCounts, BatchedCounts DEF TrackerInv, TrackerTypes
        <4>. HIDE DEF H
        <4>. QED
          BY <3>1, <4>1, <4>2, <4>3 DEF Total, One
      <3>3. ASSUME flusher.at = "ended" PROVE written[v] = 1 \/ v \in unwritten
        <4>1. activities = <<>> /\ batches = <<>> /\ batch = {} /\ flusher.batch = {}
          BY <3>3 DEF TrackerInv, StoppedEmpty, KindsWritten
        <4>2. InQueue(activities, v) = {} /\ InBatches(batches, v) = {}
          BY <4>1 DEF InQueue, InBatches
        <4>3. Cardinality(InQueue(activities, v)) = 0 /\ Cardinality(InBatches(batches, v)) = 0
          BY <4>2, FS_EmptySet
        <4>4. written[v] \in Nat
          BY <3>1 DEF TrackerInv, TrackerTypes
        <4>. QED
          BY <3>1, <4>1, <4>3, <4>4 DEF Total, One
      <3>. QED
        BY <3>2, <3>3
    <2>. QED
      BY <2>1 DEF ViewsCountedOnce
  <1>. QED
    BY <1>1, InitTrackerInv, NextTrackerInv, PTL DEF TrackerSpec

-----------------------------------------------------------------------------
(***************************************************************************)
(* Numbers.  A set of naturals has a least element because its initial     *)
(* segments are well-founded under inclusion; induction up to a bound and  *)
(* the remainders of an odd stride follow from it.                         *)
(***************************************************************************)
\* Every nonempty set of naturals has a least element.
LEMMA LeastNatural ==
  ASSUME NEW T \in SUBSET Nat, T # {}
  PROVE  \E x \in T : \A y \in T : x <= y
  <1>. DEFINE R == StrictSubsetOrdering(Nat)
              S == FiniteSubsetsOf(Nat)
              F == {0..x : x \in T}
  <1>1. IsWellFoundedOn(R, S)
    BY FS_StrictSubsetOrderingWellFounded
  <1>2. F \subseteq S /\ F # {}
    <2>1. \A x \in Nat : 0..x \in S
      BY FS_Interval DEF FiniteSubsetsOf
    <2>. HIDE DEF S
    <2>. QED
      BY <2>1
  <1>. HIDE DEF R, S, F
  <1>3. \E X \in F : \A Y \in F : <<Y, X>> \notin R
    BY <1>1, <1>2, WFMin
  <1>4. PICK x \in T : \A y \in T : <<0..y, 0..x>> \notin R
    BY <1>3 DEF F
  <1>5. ASSUME NEW y \in T, y < x PROVE FALSE
    <2>1. 0..y \subseteq 0..x /\ x \in 0..x /\ x \notin 0..y /\ 0..y \subseteq Nat /\ 0..x \subseteq Nat
      BY <1>5
    <2>. QED
      BY <1>4, <2>1 DEF R, StrictSubsetOrdering
  <1>. QED
    BY <1>4, <1>5

\* What holds at 0 and passes to the next number holds up to n.
LEMMA UpTo ==
  ASSUME NEW n \in Nat, NEW Holds, 0 \in Holds, \A k \in 1..n : k - 1 \in Holds => k \in Holds
  PROVE  \A k \in 0..n : k \in Holds
  <1>. DEFINE T == {k \in 0..n : k \notin Holds}
  <1>1. ASSUME T # {} PROVE FALSE
    <2>0. T \in SUBSET Nat
      OBVIOUS
    <2>1. PICK x \in T : \A y \in T : x <= y
      <3>. HIDE DEF T
      <3>. QED
        BY <1>1, <2>0, LeastNatural
    <2>2. x \in 1..n /\ x - 1 \in 0..n /\ x - 1 \notin T
      BY <2>1
    <2>. QED
      BY <2>1, <2>2
  <1>. QED
    BY <1>1

\* Division by d.
LEMMA DivisionFacts ==
  ASSUME NEW x \in Nat, NEW d \in Nat \ {0}
  PROVE  x = d * (x \div d) + (x % d) /\ x % d \in 0..(d - 1) /\ x \div d \in Nat
  BY Z3

LEMMA Multiple ==
  ASSUME NEW x \in Nat, NEW d \in Nat \ {0}
  PROVE  (x * d) % d = 0
  OBVIOUS

LEMMA Odd ==
  ASSUME NEW x \in Nat
  PROVE  (2 * x) % 2 = 0
  OBVIOUS

LEMMA Cancel ==
  ASSUME NEW a \in Int, NEW b \in Int, NEW c \in Int, a # 0, a * b = a * c
  PROVE  b = c
  OBVIOUS

\* An odd stride and a power of two have no factor in common: the multiples of
\* the stride come back to a multiple of the size no earlier than after it.
LEMMA OddStride ==
  ASSUME NEW s \in Nat, s % 2 = 1, NEW d \in 1..(ListSize - 1), NEW k \in Nat, d * s = k * ListSize
  PROVE  FALSE
  <1>. DEFINE N == ListSize
              D == {e \in 1..N : \E i \in Nat : e * s = i * N}
  <1>1. N \in Nat \ {0}
    BY BadgeAwardsAssumption
  <1>2. d \in D /\ N \in D /\ D \in SUBSET Nat
    <2>1. N * s = s * N
      BY <1>1
    <2>. QED
      BY <1>1, <2>1
  <1>. HIDE DEF N
  <1>3. PICK e \in D : \A x \in D : e <= x
    <2>. HIDE DEF D
    <2>. QED
      BY <1>2, LeastNatural
  <1>4. PICK i \in Nat : e * s = i * N
    BY <1>3
  <1>5. e \in Nat \ {0} /\ e <= d /\ d < N /\ e < N
    BY <1>1, <1>2, <1>3 DEF N
  <1>. DEFINE q == N \div e
              r == N % e
  <1>6. N = e * q + r /\ r \in 0..(e - 1) /\ q \in Nat
    BY <1>1, <1>5, DivisionFacts
  <1>. HIDE DEF q, r
  <1>7. r = 0
    <2>1. r * s = N * s - q * (e * s)
      <3>1. r = N - e * q
        BY <1>1, <1>5, <1>6
      <3>2. r * s = (N - e * q) * s
        BY <3>1
      <3>3. (N - e * q) * s = N * s - (e * q) * s
        BY <1>1, <1>5, <1>6
      <3>4. (e * q) * s = q * (e * s)
        BY <1>5, <1>6
      <3>. QED
        BY <3>2, <3>3, <3>4
    <2>2. r * s = (s - q * i) * N
      BY <2>1, <1>4, <1>1, <1>6
    <2>3. s - q * i >= 0
      <3>1. r * s >= 0
        BY <1>6, <1>5
      <3>. QED
        BY <2>2, <3>1, <1>1, <1>6
    <2>4. s - q * i \in Nat
      BY <2>3, <1>6
    <2>5. r # 0 => r \in D
      BY <1>1, <1>5, <1>6, <2>2, <2>4
    <2>. QED
      BY <1>3, <1>5, <1>6, <2>5
  <1>8. N = q * e /\ N = e * q
    BY <1>1, <1>5, <1>6, <1>7
  <1>9. q \in 2..N
    BY <1>1, <1>5, <1>6, <1>8
  <1>10. N % q = 0
    BY <1>5, <1>8, <1>9, Multiple
  <1>11. q % 2 = 0
    BY <1>9, <1>10, PowerOfTwo DEF N
  <1>12. e * s = e * (i * q)
    BY <1>4, <1>5, <1>6, <1>8
  <1>13. s = i * q
    BY <1>5, <1>6, <1>12, Cancel
  <1>14. PICK h \in Nat : q = 2 * h
    <2>1. q = 2 * (q \div 2) + (q % 2) /\ q \div 2 \in Nat
      BY <1>6, DivisionFacts
    <2>. QED
      BY <1>11, <2>1
  <1>15. s = 2 * (i * h)
    BY <1>13, <1>14
  <1>16. i * h \in Nat
    OBVIOUS
  <1>. QED
    BY <1>15, <1>16, Odd

\* The positions of a list have different bits.
LEMMA BitsOfPositions ==
  ASSUME NEW o \in Nat, NEW s \in Nat, s % 2 = 1,
         NEW p \in 0..(ListSize - 1), NEW q \in 0..(ListSize - 1), p < q
  PROVE  (o + p * s) % ListSize # (o + q * s) % ListSize
  <1>. DEFINE N == ListSize
              x == o + p * s
              y == o + q * s
  <1>1. N \in Nat \ {0}
    BY BadgeAwardsAssumption
  <1>2. x \in Nat /\ y \in Nat /\ y - x = (q - p) * s /\ y >= x
    <2>1. q - p \in Nat /\ p \in Nat /\ q \in Nat
      BY <1>1
    <2>2. (q - p) * s = q * s - p * s /\ (q - p) * s \in Nat /\ p * s \in Nat /\ q * s \in Nat
      BY <2>1
    <2>. QED
      BY <2>2
  <1>. HIDE DEF N, x, y
  <1>3. ASSUME x % N = y % N PROVE FALSE
    <2>0. \A z \in Nat : z = N * (z \div N) + (z % N) /\ z \div N \in Nat /\ z % N \in Nat
      <3>1. 0..(N - 1) \subseteq Nat
        BY <1>1
      <3>. QED
        BY <1>1, <3>1, DivisionFacts
    <2>1. /\ x = N * (x \div N) + (x % N) /\ x \div N \in Nat /\ x % N \in Nat
          /\ y = N * (y \div N) + (y % N) /\ y \div N \in Nat
      BY <1>2, <2>0
    <2>. DEFINE a == x \div N
                b == y \div N
                c == x % N
    <2>2. x = N * a + c /\ y = N * b + c /\ a \in Nat /\ b \in Nat /\ c \in Nat
      BY <1>3, <2>1
    <2>. HIDE DEF a, b, c
    <2>3. y - x = (b - a) * N
      BY <1>1, <2>2
    <2>4. b - a \in Nat
      BY <1>1, <1>2, <2>2, <2>3
    <2>5. q - p \in 1..(ListSize - 1)
      BY <1>1 DEF N
    <2>6. (q - p) * s = (b - a) * ListSize
      BY <1>2, <2>3 DEF N
    <2>. QED
      BY <2>4, <2>5, <2>6, OddStride
  <1>. QED
    BY <1>3 DEF x, y, N

-----------------------------------------------------------------------------
(***************************************************************************)
(* A batch is computed recipient by recipient.  The recursive function of  *)
(* its outcomes exists, so that it may be unrolled.                        *)
(***************************************************************************)
Begin == [awards |-> awards, lists |-> lists, awarded |-> 0, skipped |-> 0]
Unrolled(outs, users, n) ==
    outs = [k \in 0..n |-> IF k = 0 THEN {Begin} ELSE UNION {IssueTo(users[k], out) : out \in outs[k - 1]}]

LEMMA Unrolls ==
  ASSUME NEW users, NEW n \in Nat
  PROVE  \E outs : Unrolled(outs, users, n)
  <1>. DEFINE H == {k \in 0..n : \E outs : Unrolled(outs, users, k)}
  <1>1. 0 \in H
    <2>1. Unrolled([k \in 0..0 |-> {Begin}], users, 0)
      BY DEF Unrolled
    <2>. QED
      BY <2>1
  <1>2. ASSUME NEW k \in 1..n, k - 1 \in H PROVE k \in H
    <2>1. PICK outs : Unrolled(outs, users, k - 1)
      BY <1>2
    <2>. DEFINE step(x, f) == IF x = 0 THEN {Begin} ELSE UNION {IssueTo(users[x], out) : out \in f[x - 1]}
                g == [x \in 0..k |-> IF x = k THEN step(x, outs) ELSE outs[x]]
    <2>2. \A x \in 0..(k - 1) : outs[x] = step(x, outs)
      <3>1. outs = [x \in 0..(k - 1) |-> step(x, outs)]
        BY <2>1 DEF Unrolled
      <3>. HIDE DEF step
      <3>. QED
        BY <3>1
    <2>3. \A x \in 0..k : g[x] = step(x, outs)
      <3>1. \A x \in 0..k : x = k \/ x \in 0..(k - 1)
        OBVIOUS
      <3>2. \A x \in 0..k : g[x] = IF x = k THEN step(x, outs) ELSE outs[x]
        OBVIOUS
      <3>. HIDE DEF g, step
      <3>. QED
        BY <2>2, <3>1, <3>2
    <2>4. \A x \in 0..k : step(x, outs) = step(x, g)
      <3>1. \A x \in 0..(k - 1) : g[x] = outs[x]
        OBVIOUS
      <3>. HIDE DEF g
      <3>. QED
        BY <3>1
    <2>5. g = [x \in 0..k |-> step(x, g)]
      <3>1. g = [x \in 0..k |-> g[x]]
        OBVIOUS
      <3>. HIDE DEF g, step
      <3>. QED
        BY <2>3, <2>4, <3>1
    <2>6. Unrolled(g, users, k)
      <3>. HIDE DEF g
      <3>. QED
        BY <2>5 DEF Unrolled
    <2>. QED
      BY <2>6
  <1>. HIDE DEF H
  <1>3. n \in H
    BY <1>1, <1>2, UpTo
  <1>. QED
    BY <1>3 DEF H

LEMMA BatchUnrolls ==
  ASSUME NEW users, Len(users) \in Nat
  PROVE  \E outs : Unrolled(outs, users, Len(users)) /\ BatchOutcomes(users) = outs[Len(users)]
  <1>. DEFINE outs == CHOOSE f : Unrolled(f, users, Len(users))
  <1>1. Unrolled(outs, users, Len(users))
    BY Unrolls
  <1>2. BatchOutcomes(users) = outs[Len(users)]
    BY DEF BatchOutcomes, Unrolled, Begin
  <1>. QED
    BY <1>1, <1>2

-----------------------------------------------------------------------------
(***************************************************************************)
(* The accepted recipients in order: each of them once.                    *)
(***************************************************************************)
\* The recipients of a job are those accepted, each once.
LEMMA InOrderFacts ==
  ASSUME NEW S \in SUBSET Nat, IsFiniteSet(S)
  PROVE  /\ InOrder(S) \in Seq(S) /\ Len(InOrder(S)) = Cardinality(S)
         /\ \A i, j \in 1..Cardinality(S) : InOrder(S)[i] = InOrder(S)[j] => i = j
  <1>. DEFINE below == [u \in S |-> {v \in S : v < u}]
              n == Cardinality(S)
              rank == [u \in S |-> Cardinality(below[u]) + 1]
              r == InOrder(S)
  <1>1. n \in Nat
    BY FS_CardinalityType
  <1>2. \A u \in S : IsFiniteSet(below[u]) /\ Cardinality(below[u]) \in Nat /\ Cardinality(below[u]) < n
    <2>1. ASSUME NEW u \in S
          PROVE  IsFiniteSet(below[u]) /\ Cardinality(below[u]) \in Nat /\ Cardinality(below[u]) < n
      <3>1. below[u] \subseteq S /\ below[u] # S
        <4>1. u \notin below[u]
          OBVIOUS
        <4>. QED
          BY <4>1
      <3>. HIDE DEF below
      <3>2. IsFiniteSet(below[u]) /\ Cardinality(below[u]) <= n /\ (Cardinality(below[u]) = n => below[u] = S)
        BY <3>1, FS_Subset
      <3>3. Cardinality(below[u]) \in Nat
        BY <3>2, FS_CardinalityType
      <3>. QED
        BY <1>1, <3>1, <3>2, <3>3
    <2>. QED
      BY <2>1
  <1>3. ASSUME NEW u \in S, NEW v \in S, u < v PROVE Cardinality(below[u]) # Cardinality(below[v])
    <2>1. below[u] \subseteq below[v] /\ u \in below[v] /\ u \notin below[u]
      <3>1. \A w \in S : w < u => w < v
        BY <1>3
      <3>2. ~(u < u)
        OBVIOUS
      <3>. QED
        BY <1>3, <3>1, <3>2
    <2>2. IsFiniteSet(below[v])
      BY <1>2
    <2>. HIDE DEF below
    <2>. QED
      BY <2>1, <2>2, FS_Subset
  <1>4. \A u \in S : rank[u] \in 1..n
    BY <1>1, <1>2
  <1>5. \A u, v \in S : rank[u] = rank[v] => u = v
    <2>1. ASSUME NEW u \in S, NEW v \in S, rank[u] = rank[v] PROVE u = v
      <3>1. Cardinality(below[u]) = Cardinality(below[v])
        <4>1. Cardinality(below[u]) + 1 = Cardinality(below[v]) + 1
          BY <2>1
        <4>2. \A a, b \in Nat : a + 1 = b + 1 => a = b
          OBVIOUS
        <4>. HIDE DEF rank, below
        <4>. QED
          BY <1>2, <4>1, <4>2
      <3>2. ~(u < v) /\ ~(v < u)
        BY <1>3, <3>1
      <3>3. u \in Nat /\ v \in Nat
        OBVIOUS
      <3>. QED
        BY <3>2, <3>3
    <2>. QED
      BY <2>1
  <1>6. rank \in Injection(S, 1..n)
    <2>1. rank \in [S -> 1..n]
      BY <1>4
    <2>. HIDE DEF rank
    <2>. QED
      BY <1>5, <2>1 DEF Injection, IsInjective
  <1>7. IsFiniteSet(1..n) /\ Cardinality(1..n) = n
    BY <1>1, FS_Interval
  <1>8. \A i \in 1..n : \E u \in S : rank[u] = i
    <2>. HIDE DEF rank
    <2>1. rank \in Surjection(S, 1..n)
      BY <1>6, <1>7, FS_Injection
    <2>. QED
      BY <2>1 DEF Surjection
  <1>9. \A i \in 1..n : r[i] \in S /\ Cardinality(below[r[i]]) = i - 1
    <2>1. ASSUME NEW i \in 1..n PROVE r[i] \in S /\ Cardinality(below[r[i]]) = i - 1
      <3>1. \E u \in S : Cardinality(below[u]) = i - 1
        <4>1. PICK u \in S : rank[u] = i
          BY <1>8
        <4>2. Cardinality(below[u]) \in Nat /\ rank[u] = Cardinality(below[u]) + 1
          BY <1>2
        <4>3. Cardinality(below[u]) = i - 1
          <5>1. Cardinality(below[u]) + 1 = i
            BY <4>1, <4>2
          <5>2. \A a, b \in Int : a + 1 = b => a = b - 1
            OBVIOUS
          <5>3. i \in Int
            BY <1>1
          <5>. HIDE DEF rank, below
          <5>. QED
            BY <4>2, <5>1, <5>2, <5>3
        <4>. QED
          BY <4>3
      <3>2. r[i] = CHOOSE u \in S : Cardinality({v \in S : v < u}) = i - 1
        BY DEF InOrder
      <3>3. \E u \in S : Cardinality({v \in S : v < u}) = i - 1
        BY <3>1
      <3>4. r[i] \in S /\ Cardinality({v \in S : v < r[i]}) = i - 1
        BY <3>2, <3>3
      <3>. HIDE DEF r
      <3>. QED
        BY <3>4
    <2>. QED
      BY <2>1
  <1>10. r = [i \in 1..n |-> r[i]]
    <2>1. r = [i \in 1..n |-> CHOOSE u \in S : Cardinality({v \in S : v < u}) = i - 1]
      BY DEF InOrder
    <2>. HIDE DEF r
    <2>. QED
      BY <2>1
  <1>. HIDE DEF r, n, below
  <1>11. r \in Seq(S) /\ Len(r) = n
    BY <1>1, <1>9, <1>10
  <1>12. \A i, j \in 1..n : r[i] = r[j] => i = j
    BY <1>1, <1>9
  <1>. QED
    BY <1>11, <1>12 DEF r, n

-----------------------------------------------------------------------------
(***************************************************************************)
(* Credentials and their bits.  Every bit in use is that of a position     *)
(* already handed out of its list, so the next position is new.            *)
(***************************************************************************)
JobRows ==
    [recipients: Seq(Recipients), requested: Int, next: Nat, awarded: Int, skipped: Int,
     status: {"failed", "pending", "processing", "completed", "removed"}, claim: Replicas \cup {0}, failures: Int]
AwardRows == [user: Recipients, list: Nat, index: Nat, revoked: BOOLEAN]
StatusLists == [offset: Nat, stride: {k \in Nat : k % 2 = 1}, position: 0..ListSize]
Results == [awards: Seq(AwardRows), lists: Seq(StatusLists), awarded: Int, skipped: Int]

Holding(given, u) == \E i \in DOMAIN given : given[i].user = u /\ ~given[i].revoked
Single(given) ==
    \A i, k \in DOMAIN given : i # k /\ ~given[i].revoked /\ ~given[k].revoked => given[i].user # given[k].user
Apart(given) ==
    \A i, k \in DOMAIN given : i # k => given[i].list # given[k].list \/ given[i].index # given[k].index

\* Every bit that is used is the one of a position handed out.
Bit(list, p) == (list.offset + p * list.stride) % ListSize
Mapped(given, ls) ==
    \A i \in DOMAIN given :
        /\ given[i].list \in 1..Len(ls)
        /\ \E p \in 0..(ls[given[i].list].position - 1) : given[i].index = Bit(ls[given[i].list], p)

Issued(given, ls) == Single(given) /\ Apart(given) /\ Mapped(given, ls)

LEMMA ListRoom ==
  ASSUME NEW ls \in Seq(StatusLists), NEW given \in Seq(AwardRows), Mapped(given, ls), NEW n \in ListsWithRoom(ls)
  PROVE  /\ n \in Seq(StatusLists) /\ Len(n) \in Nat \ {0} /\ n[Len(n)] \in StatusLists
         /\ n[Len(n)].position < ListSize /\ Mapped(given, n)
  <1>0. ListSize \in Nat \ {0}
    BY BadgeAwardsAssumption
  <1>1. CASE ls # << >> /\ Last(ls).position < ListSize /\ n = ls
    <2>1. Len(ls) \in Nat \ {0} /\ ls[Len(ls)] \in StatusLists
      BY <1>1
    <2>. QED
      BY <1>1, <2>1 DEF Last
  <1>2. ASSUME NEW o \in 0..(ListSize - 1), NEW s \in {k \in 1..(ListSize - 1) : k % 2 = 1},
               n = Append(ls, [offset |-> o, stride |-> s, position |-> 0])
        PROVE  /\ n \in Seq(StatusLists) /\ Len(n) \in Nat \ {0} /\ n[Len(n)] \in StatusLists
               /\ n[Len(n)].position < ListSize /\ Mapped(given, n)
    <2>. DEFINE new == [offset |-> o, stride |-> s, position |-> 0]
    <2>1. new \in StatusLists /\ new.position = 0
      BY <1>0 DEF StatusLists
    <2>. HIDE DEF new
    <2>2. /\ n \in Seq(StatusLists) /\ Len(n) = Len(ls) + 1 /\ n[Len(n)] = new
          /\ \A i \in 1..Len(ls) : n[i] = ls[i]
      BY <1>2, <2>1 DEF new
    <2>3. Len(ls) \in Nat
      OBVIOUS
    <2>4. Mapped(given, n)
      <3>1. ASSUME NEW i \in DOMAIN given
            PROVE  /\ given[i].list \in 1..Len(n)
                   /\ \E p \in 0..(n[given[i].list].position - 1) : given[i].index = Bit(n[given[i].list], p)
        <4>1. given[i].list \in 1..Len(ls)
          BY DEF Mapped
        <4>2. n[given[i].list] = ls[given[i].list]
          BY <2>2, <4>1
        <4>3. given[i].list \in 1..Len(n)
          BY <2>2, <2>3, <4>1
        <4>. QED
          BY <4>2, <4>3 DEF Mapped
      <3>. QED
        BY <3>1 DEF Mapped
    <2>. QED
      BY <1>0, <2>1, <2>2, <2>3, <2>4
  <1>3. \/ ls # << >> /\ Last(ls).position < ListSize /\ n = ls
        \/ \E o \in 0..(ListSize - 1), s \in {k \in 1..(ListSize - 1) : k % 2 = 1} :
              n = Append(ls, [offset |-> o, stride |-> s, position |-> 0])
    BY DEF ListsWithRoom
  <1>. QED
    BY <1>1, <1>2, <1>3

\* The next position of a list is the bit of nobody else.
LEMMA NextBit ==
  ASSUME NEW ls \in Seq(StatusLists), Len(ls) > 0, ls[Len(ls)].position < ListSize, NEW given \in Seq(AwardRows),
         Mapped(given, ls), NEW i \in DOMAIN given, given[i].list = Len(ls)
  PROVE  given[i].index # StatusListIndex(ls[Len(ls)])
  <1>. DEFINE l == ls[Len(ls)]
  <1>1. l \in StatusLists
    OBVIOUS
  <1>. HIDE DEF l
  <1>2. /\ l.offset \in Nat /\ l.stride \in Nat /\ l.stride % 2 = 1 /\ l.position \in 0..ListSize
        /\ ListSize \in Nat \ {0}
    BY <1>1, BadgeAwardsAssumption DEF StatusLists
  <1>3. PICK p \in 0..(l.position - 1) : given[i].index = (l.offset + p * l.stride) % ListSize
    BY DEF Mapped, Bit, l
  <1>4. l.position < ListSize
    BY DEF l
  <1>5. p < l.position /\ p \in 0..(ListSize - 1) /\ l.position \in 0..(ListSize - 1)
    BY <1>2, <1>4
  <1>6. (l.offset + p * l.stride) % ListSize # (l.offset + l.position * l.stride) % ListSize
    BY <1>2, <1>5, BitsOfPositions
  <1>. QED
    BY <1>3, <1>6 DEF StatusListIndex, l

\* One more credential.
LEMMA OneIssued ==
  ASSUME NEW given \in Seq(AwardRows), NEW ls \in Seq(StatusLists), Issued(given, ls), NEW u \in Recipients,
         ~Holding(given, u), NEW n \in ListsWithRoom(ls),
         NEW row, row = [user |-> u, list |-> Len(n), index |-> StatusListIndex(Last(n)), revoked |-> FALSE],
         NEW ls1, ls1 = [n EXCEPT ![Len(n)].position = @ + 1]
  PROVE  /\ Append(given, row) \in Seq(AwardRows) /\ ls1 \in Seq(StatusLists)
         /\ Issued(Append(given, row), ls1)
  <1>. DEFINE l == n[Len(n)]
              aw == Append(given, row)
              m == Len(given)
  <1>1. /\ n \in Seq(StatusLists) /\ Len(n) \in Nat \ {0} /\ l \in StatusLists
        /\ l.position < ListSize /\ Mapped(given, n)
    BY ListRoom DEF Issued
  <1>2. Last(n) = l
    BY DEF Last
  <1>. HIDE DEF l
  <1>3. /\ l.offset \in Nat /\ l.stride \in Nat /\ l.position \in 0..ListSize /\ ListSize \in Nat \ {0}
        /\ StatusListIndex(l) = Bit(l, l.position) /\ Bit(l, l.position) \in Nat
    <2>1. l.offset \in Nat /\ l.stride \in Nat /\ l.position \in 0..ListSize /\ ListSize \in Nat \ {0}
      BY <1>1, BadgeAwardsAssumption DEF StatusLists
    <2>2. l.offset + l.position * l.stride \in Nat
      <3>1. l.position * l.stride \in Nat
        BY <2>1
      <3>. QED
        BY <2>1, <3>1
    <2>3. (l.offset + l.position * l.stride) % ListSize \in Nat
      <3>1. (l.offset + l.position * l.stride) % ListSize \in 0..(ListSize - 1)
        BY <2>1, <2>2, DivisionFacts
      <3>. QED
        BY <2>1, <3>1
    <2>. QED
      BY <2>1, <2>3 DEF StatusListIndex, Bit
  <1>4. row \in AwardRows /\ row.user = u /\ row.list = Len(n) /\ row.index = Bit(l, l.position) /\ row.revoked = FALSE
    BY <1>1, <1>2, <1>3 DEF AwardRows
  <1>5. /\ aw \in Seq(AwardRows) /\ Len(aw) = m + 1 /\ m \in Nat /\ aw[m + 1] = row
        /\ DOMAIN aw = 1..(m + 1) /\ DOMAIN given = 1..m /\ \A i \in 1..m : aw[i] = given[i]
    BY <1>4
  <1>6. /\ ls1 \in Seq(StatusLists) /\ Len(ls1) = Len(n)
        /\ \A i \in 1..Len(n) : i # Len(n) => ls1[i] = n[i]
        /\ ls1[Len(n)] = [l EXCEPT !.position = @ + 1]
    <2>1. [l EXCEPT !.position = @ + 1] \in StatusLists
      <3>1. l.position + 1 \in 0..ListSize
        BY <1>1, <1>3
      <3>. QED
        BY <1>1, <3>1 DEF StatusLists
    <2>2. ls1 = [n EXCEPT ![Len(n)] = [l EXCEPT !.position = @ + 1]]
      BY DEF l
    <2>. DEFINE x == [l EXCEPT !.position = @ + 1]
    <2>3. x \in StatusLists /\ ls1 = [n EXCEPT ![Len(n)] = x]
      BY <2>1, <2>2
    <2>4. Len(n) \in 1..Len(n) /\ DOMAIN n = 1..Len(n)
      BY <1>1
    <2>. HIDE DEF x
    <2>5. ls1 \in Seq(StatusLists) /\ Len(ls1) = Len(n) /\ \A i \in 1..Len(n) : ls1[i] = IF i = Len(n) THEN x ELSE n[i]
      <3>1. n \in Seq(StatusLists)
        BY <1>1
      <3>. QED
        BY <2>3, <2>4, <3>1, ExceptSeq
    <2>. QED
      BY <2>4, <2>5 DEF x
  <1>7. ls1[Len(n)].offset = l.offset /\ ls1[Len(n)].stride = l.stride /\ ls1[Len(n)].position = l.position + 1
    BY <1>1, <1>6 DEF StatusLists
  <1>. HIDE DEF aw
  <1>8. Single(aw)
    <2>1. \A i \in 1..m : ~given[i].revoked => given[i].user # u
      BY <1>5 DEF Holding
    <2>2. \A i, k \in 1..m : i # k /\ ~given[i].revoked /\ ~given[k].revoked => given[i].user # given[k].user
      BY <1>5 DEF Issued, Single
    <2>3. \A i \in 1..(m + 1) : i \in 1..m \/ i = m + 1
      BY <1>5
    <2>. QED
      BY <1>4, <1>5, <2>1, <2>2, <2>3 DEF Single
  <1>9. Apart(aw)
    <2>1. \A i \in 1..m : given[i].list = Len(n) => given[i].index # row.index
      <3>1. StatusListIndex(n[Len(n)]) = row.index /\ n[Len(n)].position < ListSize
        BY <1>1, <1>3, <1>4 DEF l
      <3>2. Len(n) > 0
        BY <1>1
      <3>. QED
        BY <1>1, <1>5, <3>1, <3>2, NextBit
    <2>2. \A i, k \in 1..m : i # k => given[i].list # given[k].list \/ given[i].index # given[k].index
      BY <1>5 DEF Issued, Apart
    <2>3. \A i \in 1..(m + 1) : i \in 1..m \/ i = m + 1
      BY <1>5
    <2>. QED
      BY <1>4, <1>5, <2>1, <2>2, <2>3 DEF Apart
  <1>10. Mapped(aw, ls1)
    <2>1. ASSUME NEW i \in 1..m
          PROVE  /\ aw[i].list \in 1..Len(ls1)
                 /\ \E p \in 0..(ls1[aw[i].list].position - 1) : aw[i].index = Bit(ls1[aw[i].list], p)
      <3>1. given[i].list \in 1..Len(n) /\ aw[i] = given[i]
        BY <1>1, <1>5 DEF Mapped
      <3>2. PICK p \in 0..(n[given[i].list].position - 1) : given[i].index = Bit(n[given[i].list], p)
        BY <1>1, <1>5 DEF Mapped
      <3>3. CASE given[i].list # Len(n)
        BY <1>6, <3>1, <3>2, <3>3
      <3>4. CASE given[i].list = Len(n)
        <4>1. p \in 0..(l.position - 1) /\ given[i].index = Bit(l, p)
          BY <3>2, <3>4 DEF l
        <4>2. Bit(ls1[Len(n)], p) = Bit(l, p)
          BY <1>7 DEF Bit
        <4>3. p \in 0..(ls1[Len(n)].position - 1)
          <5>1. \A x \in Nat : x + 1 - 1 = x /\ 0..(x - 1) \subseteq 0..x
            OBVIOUS
          <5>. QED
            BY <1>3, <1>7, <4>1, <5>1
        <4>. QED
          BY <1>6, <3>1, <3>4, <4>1, <4>2, <4>3
      <3>. QED
        BY <3>3, <3>4
    <2>2. /\ row.list \in 1..Len(ls1)
          /\ \E p \in 0..(ls1[row.list].position - 1) : row.index = Bit(ls1[row.list], p)
      <3>1. l.position \in 0..(ls1[Len(n)].position - 1) /\ Bit(ls1[Len(n)], l.position) = Bit(l, l.position)
        BY <1>3, <1>7 DEF Bit
      <3>. QED
        BY <1>1, <1>4, <1>6, <3>1
    <2>3. \A i \in 1..(m + 1) : i \in 1..m \/ i = m + 1
      BY <1>5
    <2>. QED
      BY <1>5, <2>1, <2>2, <2>3 DEF Mapped
  <1>. QED
    BY <1>5, <1>6, <1>8, <1>9, <1>10 DEF Issued, aw

\* What a batch has come to after the first n recipients.
Batched(out, users, n) ==
    /\ out \in Results /\ Issued(out.awards, out.lists)
    /\ Len(awards) <= Len(out.awards)
    /\ \A i \in 1..Len(awards) : out.awards[i] = awards[i]
    /\ \A i \in (Len(awards) + 1)..Len(out.awards) : \E p \in 1..n : out.awards[i].user = users[p]
    /\ \A p \in 1..n : \E i \in DOMAIN out.awards : out.awards[i].user = users[p]

LEMMA OneBatched ==
  ASSUME awards \in Seq(AwardRows), NEW users, NEW n \in Nat, NEW out, Batched(out, users, n),
         users[n + 1] \in Recipients, ~Holding(awards, users[n + 1]), \A p \in 1..n : users[p] # users[n + 1],
         NEW new \in IssueTo(users[n + 1], out)
  PROVE  Batched(new, users, n + 1)
  <1>. DEFINE u == users[n + 1]
              given == out.awards
              m == Len(given)
  <1>1. /\ given \in Seq(AwardRows) /\ out.lists \in Seq(StatusLists) /\ out.awarded \in Int /\ out.skipped \in Int
        /\ DOMAIN given = 1..m /\ m \in Nat /\ Len(awards) \in Nat /\ DOMAIN awards = 1..Len(awards)
        /\ \A p \in 1..(n + 1) : p \in 1..n \/ p = n + 1
    BY DEF Batched, Results
  <1>2. CASE IsHolder(u, given)
    <2>1. new = [out EXCEPT !.skipped = @ + 1]
      BY <1>2 DEF IssueTo
    <2>2. new \in Results /\ new.awards = given /\ new.lists = out.lists
      <3>1. out \in Results
        BY DEF Batched
      <3>2. out.skipped + 1 \in Int
        BY <1>1
      <3>. QED
        BY <2>1, <3>1, <3>2 DEF Results
    <2>3. \E i \in DOMAIN given : given[i].user = u
      BY <1>2 DEF IsHolder
    <2>4. \A i \in (Len(awards) + 1)..m : \E p \in 1..(n + 1) : given[i].user = users[p]
      BY DEF Batched
    <2>5. \A p \in 1..(n + 1) : \E i \in DOMAIN given : given[i].user = users[p]
      BY <1>1, <2>3 DEF Batched
    <2>. HIDE DEF u, given, m
    <2>. QED
      BY <2>2, <2>4, <2>5 DEF Batched, given, m
  <1>3. CASE ~IsHolder(u, given)
    <2>1. ~Holding(given, u)
      <3>1. ASSUME NEW i \in 1..m, given[i].user = u, ~given[i].revoked PROVE FALSE
        <4>1. CASE i \in 1..Len(awards)
          BY <1>1, <3>1, <4>1 DEF Batched, Holding
        <4>2. CASE i \in (Len(awards) + 1)..m
          BY <3>1, <4>2 DEF Batched
        <4>. QED
          BY <1>1, <4>1, <4>2
      <3>. QED
        BY <1>1, <3>1 DEF Holding
    <2>2. PICK ls \in ListsWithRoom(out.lists) :
             new = [awards |-> Append(given, [user |-> u, list |-> Len(ls), index |-> StatusListIndex(Last(ls)),
                                              revoked |-> FALSE]),
                    lists |-> [ls EXCEPT ![Len(ls)].position = @ + 1],
                    awarded |-> out.awarded + 1, skipped |-> out.skipped]
      BY <1>3 DEF IssueTo
    <2>. DEFINE row == [user |-> u, list |-> Len(ls), index |-> StatusListIndex(Last(ls)), revoked |-> FALSE]
    <2>3. new.awards \in Seq(AwardRows) /\ new.lists \in Seq(StatusLists) /\ Issued(new.awards, new.lists)
      BY <1>1, <2>1, <2>2, OneIssued DEF Batched
    <2>4. new \in Results
      BY <1>1, <2>2, <2>3 DEF Results
    <2>5. /\ Len(new.awards) = m + 1 /\ DOMAIN new.awards = 1..(m + 1)
          /\ new.awards[m + 1].user = u /\ \A i \in 1..m : new.awards[i] = given[i]
      <3>1. new.awards = Append(given, row)
        BY <2>2
      <3>2. row.user = u
        OBVIOUS
      <3>. HIDE DEF row, u
      <3>. QED
        BY <1>1, <3>1, <3>2
    <2>. HIDE DEF row
    <2>6. Len(awards) <= m /\ \A i \in 1..Len(awards) : i \in 1..m /\ given[i] = awards[i]
      BY <1>1 DEF Batched
    <2>7. \A i \in (Len(awards) + 1)..(m + 1) : \E p \in 1..(n + 1) : new.awards[i].user = users[p]
      <3>1. ASSUME NEW i \in (Len(awards) + 1)..m PROVE \E p \in 1..(n + 1) : new.awards[i].user = users[p]
        <4>1. i \in 1..m
          BY <1>1
        <4>2. PICK p \in 1..n : given[i].user = users[p]
          BY DEF Batched
        <4>3. p \in 1..(n + 1) /\ new.awards[i] = given[i]
          BY <2>5, <4>1
        <4>. HIDE DEF given
        <4>. QED
          BY <4>2, <4>3
      <3>2. \A a, b, i \in Int : i \in (a + 1)..(b + 1) => i \in (a + 1)..b \/ i = b + 1
        OBVIOUS
      <3>3. \A i \in (Len(awards) + 1)..(m + 1) : i \in Int
        BY <1>1
      <3>4. n + 1 \in 1..(n + 1) /\ Len(awards) \in Int /\ m \in Int
        BY <1>1
      <3>. HIDE DEF m, given
      <3>. QED
        BY <2>5, <3>1, <3>2, <3>3, <3>4
    <2>8. \A p \in 1..(n + 1) : \E i \in 1..(m + 1) : new.awards[i].user = users[p]
      <3>1. ASSUME NEW p \in 1..n PROVE \E i \in 1..(m + 1) : new.awards[i].user = users[p]
        <4>1. PICK i \in 1..m : given[i].user = users[p]
          BY <1>1 DEF Batched
        <4>2. i \in 1..(m + 1) /\ new.awards[i] = given[i]
          BY <1>1, <2>5
        <4>. HIDE DEF given, m
        <4>. QED
          BY <4>1, <4>2
      <3>2. \E i \in 1..(m + 1) : new.awards[i].user = users[n + 1]
        <4>1. m + 1 \in 1..(m + 1)
          BY <1>1
        <4>. HIDE DEF given, m
        <4>. QED
          BY <2>5, <4>1
      <3>. QED
        BY <1>1, <3>1, <3>2
    <2>. HIDE DEF u, given, m
    <2>9. Len(awards) <= Len(new.awards) /\ \A i \in 1..Len(awards) : new.awards[i] = awards[i]
      BY <1>1, <2>5, <2>6
    <2>. QED
      BY <2>3, <2>4, <2>5, <2>7, <2>8, <2>9 DEF Batched
  <1>. QED
    BY <1>2, <1>3

\* A batch for recipients who hold no badge.
LEMMA BatchIssued ==
  ASSUME awards \in Seq(AwardRows), lists \in Seq(StatusLists), Issued(awards, lists),
         NEW users \in Seq(Recipients), \A p, q \in 1..Len(users) : users[p] = users[q] => p = q,
         \A p \in 1..Len(users) : ~Holding(awards, users[p]), NEW out \in BatchOutcomes(users)
  PROVE  Batched(out, users, Len(users))
  <1>. DEFINE k == Len(users)
  <1>0. k \in Nat
    OBVIOUS
  <1>1. PICK outs : Unrolled(outs, users, k) /\ BatchOutcomes(users) = outs[k]
    BY <1>0, BatchUnrolls
  <1>2. \A n \in 0..k : outs[n] = IF n = 0 THEN {Begin} ELSE UNION {IssueTo(users[n], o) : o \in outs[n - 1]}
    <2>. DEFINE step(n, f) == IF n = 0 THEN {Begin} ELSE UNION {IssueTo(users[n], o) : o \in f[n - 1]}
    <2>1. outs = [n \in 0..k |-> step(n, outs)]
      BY <1>1 DEF Unrolled
    <2>. HIDE DEF step, k
    <2>2. \A n \in 0..k : outs[n] = step(n, outs)
      BY <2>1
    <2>. QED
      BY <2>2 DEF step
  <1>. DEFINE H == {n \in 0..k : \A o \in outs[n] : Batched(o, users, n)}
  <1>3. 0 \in H
    <2>1. Begin \in Results /\ Begin.awards = awards /\ Begin.lists = lists
      BY DEF Begin, Results
    <2>2. Len(awards) \in Nat
      OBVIOUS
    <2>3. Batched(Begin, users, 0)
      BY <2>1, <2>2 DEF Batched
    <2>4. outs[0] = {Begin}
      <3>1. 0 \in 0..k
        BY <1>0
      <3>. HIDE DEF k
      <3>. QED
        BY <1>2, <3>1
    <2>. QED
      BY <1>0, <2>3, <2>4
  <1>4. ASSUME NEW n \in 1..k, n - 1 \in H PROVE n \in H
    <2>1. ASSUME NEW o \in outs[n] PROVE Batched(o, users, n)
      <3>1. outs[n] = UNION {IssueTo(users[n], x) : x \in outs[n - 1]}
        <4>1. n \in 0..k /\ n # 0
          BY <1>0
        <4>. HIDE DEF k
        <4>. QED
          BY <1>2, <4>1
      <3>2. PICK x \in outs[n - 1] : o \in IssueTo(users[n], x)
        BY <2>1, <3>1
      <3>3. Batched(x, users, n - 1)
        BY <1>4
      <3>4. /\ n - 1 \in Nat /\ (n - 1) + 1 = n /\ users[n] \in Recipients /\ ~Holding(awards, users[n])
            /\ \A p \in 1..(n - 1) : users[p] # users[n]
        BY <1>0
      <3>. HIDE DEF H, k
      <3>. QED
        BY <3>2, <3>3, <3>4, OneBatched
    <2>. QED
      BY <1>0, <2>1
  <1>. HIDE DEF H
  <1>5. k \in H
    <2>. HIDE DEF k
    <2>1. \A n \in 1..k : n - 1 \in H => n \in H
      BY <1>4
    <2>2. \A n \in 0..k : n \in H
      BY <1>0, <1>3, <2>1, UpTo
    <2>. QED
      BY <1>0, <2>2
  <1>. QED
    BY <1>1, <1>5 DEF H

-----------------------------------------------------------------------------
(***************************************************************************)
(* The invariant of the award jobs: jobs that are owed have no recipient in *)
(* common, and the recipients after the cursor of such a job hold no badge. *)
(* That is why a batch skips nobody and issues nothing twice.              *)
(***************************************************************************)
Owed == {"failed", "pending", "processing"}

\* A job has reached those up to its cursor; who is left has no badge.
Reached(task, given) ==
    /\ task.next <= Len(task.recipients)
    /\ \A p, q \in 1..Len(task.recipients) : task.recipients[p] = task.recipients[q] => p = q
    /\ \A p \in 1..task.next : \E i \in DOMAIN given : given[i].user = task.recipients[p]
    /\ task.status \in Owed => \A p \in (task.next + 1)..Len(task.recipients) : ~Holding(given, task.recipients[p])

\* Two jobs that are owed have no recipient in common.
Meet(task, other) ==
    \E p \in 1..Len(task.recipients), q \in 1..Len(other.recipients) : task.recipients[p] = other.recipients[q]
Separate(rows) ==
    \A j, k \in 1..Len(rows) : j # k /\ rows[j].status \in Owed /\ rows[k].status \in Owed => ~Meet(rows[j], rows[k])

AwardTypes ==
    /\ defined \in BOOLEAN
    /\ jobs \in Seq(JobRows) /\ awards \in Seq(AwardRows) /\ lists \in Seq(StatusLists)
    /\ awarder \in [Replicas -> Nat] /\ \A w \in Replicas : awarder[w] = 0 \/ awarder[w] \in 1..Len(jobs)

AwardInv ==
    /\ AwardTypes /\ Issued(awards, lists)
    /\ \A j \in 1..Len(jobs) : Reached(jobs[j], awards)
    /\ Separate(jobs)

LEMMA InitAwardInv == AwardInit => AwardInv
  <1>. SUFFICES ASSUME AwardInit PROVE AwardInv
    OBVIOUS
  <1>1. jobs = << >> /\ awards = << >> /\ lists = << >> /\ defined = TRUE /\ awarder = [w \in Replicas |-> 0]
    BY DEF AwardInit
  <1>2. Len(jobs) = 0 /\ DOMAIN awards = {}
    BY <1>1
  <1>3. AwardTypes
    BY <1>1 DEF AwardTypes
  <1>. QED
    BY <1>2, <1>3 DEF AwardInv, Issued, Single, Apart, Mapped, Separate

\* A job row that is rewritten.
LEMMA JobRewritten ==
  ASSUME AwardInv, NEW j \in 1..Len(jobs), NEW n \in JobRows, n.recipients = jobs[j].recipients,
         n.status \in Owed => jobs[j].status \in Owed, jobs' = [jobs EXCEPT ![j] = n]
  PROVE  /\ jobs' \in Seq(JobRows) /\ Len(jobs') = Len(jobs) /\ jobs'[j] = n
         /\ \A k \in 1..Len(jobs) : k # j => jobs'[k] = jobs[k]
         /\ Separate(jobs)'
  <1>1. jobs \in Seq(JobRows)
    BY DEF AwardInv, AwardTypes
  <1>2. /\ jobs' \in Seq(JobRows) /\ Len(jobs') = Len(jobs)
        /\ \A k \in 1..Len(jobs) : jobs'[k] = IF k = j THEN n ELSE jobs[k]
    BY <1>1, ExceptSeq
  <1>3. \A k \in 1..Len(jobs) : jobs'[k].recipients = jobs[k].recipients /\ (jobs'[k].status \in Owed => jobs[k].status \in Owed)
    BY <1>2
  <1>4. Separate(jobs')
    BY <1>2, <1>3 DEF AwardInv, Separate, Meet
  <1>. QED
    BY <1>2, <1>4 DEF Separate, Meet

\* A job that is claimed, put back, given up, resumed or removed.
LEMMA JobMoves ==
  ASSUME AwardInv, NEW j \in 1..Len(jobs), NEW n \in JobRows, n.recipients = jobs[j].recipients, n.next = jobs[j].next,
         n.status \in Owed => jobs[j].status \in Owed, jobs' = [jobs EXCEPT ![j] = n],
         UNCHANGED <<defined, awards, lists>>,
         awarder' \in [Replicas -> Nat], \A w \in Replicas : awarder'[w] = 0 \/ awarder'[w] \in 1..Len(jobs)
  PROVE  AwardInv'
  <1>1. /\ jobs' \in Seq(JobRows) /\ Len(jobs') = Len(jobs) /\ jobs'[j] = n
        /\ \A k \in 1..Len(jobs) : k # j => jobs'[k] = jobs[k]
        /\ Separate(jobs)'
    BY JobRewritten
  <1>2. AwardTypes'
    BY <1>1 DEF AwardInv, AwardTypes
  <1>3. Issued(awards, lists)'
    BY DEF AwardInv, Issued, Single, Apart, Mapped, Bit
  <1>4. Reached(n, awards)
    BY DEF AwardInv, Reached
  <1>5. \A k \in 1..Len(jobs') : Reached(jobs'[k], awards')
    BY <1>1, <1>4 DEF AwardInv
  <1>6. (\A k \in 1..Len(jobs) : Reached(jobs[k], awards))'
    BY <1>5 DEF Reached, Holding
  <1>. QED
    BY <1>1, <1>2, <1>3, <1>6 DEF AwardInv

LEMMA ClaimAwards ==
  ASSUME AwardInv, NEW w \in Replicas, NEW j \in DOMAIN jobs, ClaimBadgeAwardJob(w, j)
  PROVE  AwardInv'
  <1>. DEFINE n == [jobs[j] EXCEPT !.status = "processing", !.claim = w]
  <1>1. jobs \in Seq(JobRows) /\ j \in 1..Len(jobs) /\ jobs[j] \in JobRows /\ j \in Nat
    BY DEF AwardInv, AwardTypes
  <1>2. n \in JobRows /\ n.recipients = jobs[j].recipients /\ n.next = jobs[j].next /\ jobs[j].status \in Owed
    BY <1>1 DEF JobRows, ClaimBadgeAwardJob, Owed
  <1>3. jobs' = [jobs EXCEPT ![j] = n] /\ UNCHANGED <<defined, awards, lists>>
    BY DEF ClaimBadgeAwardJob
  <1>4. awarder' \in [Replicas -> Nat] /\ \A x \in Replicas : awarder'[x] = 0 \/ awarder'[x] \in 1..Len(jobs)
    BY <1>1 DEF ClaimBadgeAwardJob, AwardInv, AwardTypes
  <1>. HIDE DEF n
  <1>. QED
    BY <1>1, <1>2, <1>3, <1>4, JobMoves

LEMMA FailedRow ==
  ASSUME NEW row \in JobRows, row.status = "processing"
  PROVE  /\ Failed(row) \in JobRows /\ Failed(row).recipients = row.recipients /\ Failed(row).next = row.next
         /\ row.status \in Owed
  <1>. DEFINE st == IF row.failures + 1 >= MaxFailures THEN "failed" ELSE "pending"
              f == row.failures + 1
  <1>1. f \in Int
    BY DEF JobRows
  <1>2. st \in {"failed", "pending"}
    OBVIOUS
  <1>3. Failed(row) = [row EXCEPT !.claim = 0, !.failures = f, !.status = st]
    BY DEF Failed
  <1>. HIDE DEF st, f
  <1>4. [row EXCEPT !.claim = 0, !.failures = f, !.status = st] \in JobRows
    BY <1>1, <1>2 DEF JobRows
  <1>. QED
    BY <1>3, <1>4 DEF JobRows, Owed

LEMMA ResumedRow ==
  ASSUME NEW row \in JobRows, NEW new, new = [row EXCEPT !.status = "pending", !.failures = 0]
  PROVE  new \in JobRows /\ new.recipients = row.recipients /\ new.next = row.next
  <1>. DEFINE f == 0
  <1>1. f \in Int
    OBVIOUS
  <1>2. new = [row EXCEPT !.status = "pending", !.failures = f]
    OBVIOUS
  <1>. HIDE DEF f
  <1>. QED
    BY <1>1, <1>2 DEF JobRows

\* A worker lets its job go.
LEMMA LetGo ==
  ASSUME AwardInv, NEW w \in Replicas, awarder' = [awarder EXCEPT ![w] = 0]
  PROVE  awarder' \in [Replicas -> Nat] /\ \A x \in Replicas : awarder'[x] = 0 \/ awarder'[x] \in 1..Len(jobs)
  BY DEF AwardInv, AwardTypes

\* Nothing that the invariant speaks of changes but the workers' jobs.
LEMMA OnlyAwarders ==
  ASSUME AwardInv, UNCHANGED <<jobs, awards, lists>>, defined' \in BOOLEAN,
         awarder' \in [Replicas -> Nat], \A w \in Replicas : awarder'[w] = 0 \/ awarder'[w] \in 1..Len(jobs)
  PROVE  AwardInv'
  <1>1. AwardTypes'
    BY DEF AwardInv, AwardTypes
  <1>. QED
    BY <1>1 DEF AwardInv, Issued, Single, Apart, Mapped, Bit, Reached, Holding, Separate, Meet

LEMMA FailureAwards ==
  ASSUME AwardInv, NEW w \in Replicas, ReleaseFailure(w) \/ AwarderLost(w)
  PROVE  AwardInv'
  <1>1. awarder' = [awarder EXCEPT ![w] = 0] /\ awarder[w] # 0 /\ UNCHANGED <<defined, awards, lists>>
    BY DEF ReleaseFailure, AwarderLost
  <1>2. jobs \in Seq(JobRows) /\ awarder[w] \in 1..Len(jobs) /\ jobs[awarder[w]] \in JobRows /\ defined \in BOOLEAN
    BY <1>1 DEF AwardInv, AwardTypes
  <1>3. awarder' \in [Replicas -> Nat] /\ \A x \in Replicas : awarder'[x] = 0 \/ awarder'[x] \in 1..Len(jobs)
    BY <1>1, LetGo
  <1>4. CASE UNCHANGED jobs
    BY <1>1, <1>2, <1>3, <1>4, OnlyAwarders
  <1>5. CASE OwnsJob(w) /\ jobs' = [jobs EXCEPT ![awarder[w]] = Failed(@)]
    BY <1>1, <1>2, <1>3, <1>5, FailedRow, JobMoves DEF OwnsJob
  <1>. QED
    BY <1>4, <1>5 DEF ReleaseFailure, AwarderLost

LEMMA MaintenanceAwards ==
  ASSUME AwardInv, NEW j \in DOMAIN jobs, RecoverStaleJob(j) \/ RequeueBadgeAwardJob(j) \/ CleanupJob(j)
  PROVE  AwardInv'
  <1>1. jobs \in Seq(JobRows) /\ j \in 1..Len(jobs) /\ jobs[j] \in JobRows /\ UNCHANGED <<defined, awards, lists, awarder>>
    BY DEF AwardInv, AwardTypes, RecoverStaleJob, RequeueBadgeAwardJob, CleanupJob
  <1>2. awarder' \in [Replicas -> Nat] /\ \A x \in Replicas : awarder'[x] = 0 \/ awarder'[x] \in 1..Len(jobs)
    BY <1>1 DEF AwardInv, AwardTypes
  <1>3. CASE RecoverStaleJob(j)
    BY <1>1, <1>2, <1>3, FailedRow, JobMoves DEF RecoverStaleJob, Expired
  <1>4. CASE RequeueBadgeAwardJob(j)
    <2>. DEFINE n == [jobs[j] EXCEPT !.status = "pending", !.failures = 0]
    <2>1. n \in JobRows /\ n.recipients = jobs[j].recipients /\ n.next = jobs[j].next /\ jobs[j].status \in Owed
      <3>1. n = [jobs[j] EXCEPT !.status = "pending", !.failures = 0]
        OBVIOUS
      <3>2. jobs[j].status \in Owed
        BY <1>4 DEF RequeueBadgeAwardJob, Owed
      <3>. HIDE DEF n
      <3>. QED
        BY <1>1, <3>1, <3>2, ResumedRow
    <2>2. jobs' = [jobs EXCEPT ![j] = n]
      BY <1>4 DEF RequeueBadgeAwardJob
    <2>. HIDE DEF n
    <2>. QED
      BY <1>1, <1>2, <2>1, <2>2, JobMoves
  <1>5. CASE CleanupJob(j)
    <2>. DEFINE n == [jobs[j] EXCEPT !.status = "removed"]
    <2>1. n \in JobRows /\ n.recipients = jobs[j].recipients /\ n.next = jobs[j].next /\ n.status \notin Owed
      BY <1>1 DEF JobRows, Owed
    <2>2. jobs' = [jobs EXCEPT ![j] = n]
      BY <1>5 DEF CleanupJob
    <2>. HIDE DEF n
    <2>. QED
      BY <1>1, <1>2, <2>1, <2>2, JobMoves
  <1>. QED
    BY <1>3, <1>4, <1>5

LEMMA RevokeAwards ==
  ASSUME AwardInv, NEW i \in DOMAIN awards, RevokeBadge(i)
  PROVE  AwardInv'
  <1>. DEFINE m == Len(awards)
              row == [awards[i] EXCEPT !.revoked = TRUE]
  <1>1. awards \in Seq(AwardRows) /\ m \in Nat /\ DOMAIN awards = 1..m /\ i \in 1..m /\ awards[i] \in AwardRows
    BY DEF AwardInv, AwardTypes
  <1>2. awards' = [awards EXCEPT ![i] = row] /\ UNCHANGED <<defined, jobs, lists, awarder>>
    BY DEF RevokeBadge
  <1>3. row \in AwardRows /\ row.user = awards[i].user /\ row.list = awards[i].list /\ row.index = awards[i].index /\ row.revoked
    BY <1>1 DEF AwardRows
  <1>. HIDE DEF row
  <1>4. awards' \in Seq(AwardRows) /\ Len(awards') = m /\ \A k \in 1..m : awards'[k] = IF k = i THEN row ELSE awards[k]
    BY <1>1, <1>2, <1>3, ExceptSeq
  <1>5. DOMAIN awards' = 1..m
    BY <1>4
  <1>6. \A k \in 1..m : /\ awards'[k].user = awards[k].user /\ awards'[k].list = awards[k].list
                        /\ awards'[k].index = awards[k].index /\ (~awards'[k].revoked => ~awards[k].revoked)
    BY <1>3, <1>4
  <1>. HIDE DEF m
  <1>7. AwardTypes'
    BY <1>2, <1>4 DEF AwardInv, AwardTypes
  <1>8. Issued(awards', lists)
    <2>1. Single(awards') /\ Apart(awards')
      BY <1>1, <1>5, <1>6 DEF AwardInv, Issued, Single, Apart
    <2>2. Mapped(awards', lists)
      BY <1>1, <1>5, <1>6 DEF AwardInv, Issued, Mapped
    <2>. QED
      BY <2>1, <2>2 DEF Issued
  <1>9. \A j \in 1..Len(jobs) : Reached(jobs[j], awards')
    <2>1. \A u : Holding(awards', u) => Holding(awards, u)
      BY <1>1, <1>5, <1>6 DEF Holding
    <2>2. \A u : (\E k \in DOMAIN awards : awards[k].user = u) => \E k \in DOMAIN awards' : awards'[k].user = u
      BY <1>1, <1>5, <1>6
    <2>. QED
      BY <2>1, <2>2 DEF AwardInv, Reached
  <1>10. Issued(awards, lists)'
    BY <1>2, <1>8 DEF Issued, Single, Apart, Mapped, Bit
  <1>11. (\A j \in 1..Len(jobs) : Reached(jobs[j], awards))'
    BY <1>2, <1>9 DEF Reached, Holding
  <1>12. Separate(jobs)'
    BY <1>2 DEF AwardInv, Separate, Meet
  <1>. QED
    BY <1>7, <1>10, <1>11, <1>12 DEF AwardInv

\* The job of a request is apart from all that is owed.
LEMMA RequestAwards ==
  ASSUME AwardInv, NEW users \in SUBSET Recipients, AwardBadge(users)
  PROVE  AwardInv'
  <1>. DEFINE n == NewJob(users)
              S == Accepted(users)
              m == Len(jobs)
  <1>1. /\ defined /\ jobs' = Append(jobs, n) /\ UNCHANGED <<defined, awards, lists, awarder>>
        /\ jobs \in Seq(JobRows) /\ m \in Nat
    BY DEF AwardBadge, AwardInv, AwardTypes
  <1>2. /\ S \in SUBSET Nat /\ S \subseteq Recipients /\ IsFiniteSet(S) /\ IsFiniteSet(users)
        /\ \A u \in S : ~Holding(awards, u) /\ ~Queued(u)
    <2>1. IsFiniteSet(users) /\ users \subseteq Nat
      BY BadgeAwardsAssumption, FS_Subset
    <2>2. S \subseteq users
      BY DEF Accepted
    <2>3. IsFiniteSet(S)
      BY <2>1, <2>2, FS_Subset
    <2>. QED
      BY <1>1, <2>1, <2>2, <2>3 DEF Accepted, IsHolder, Holding
  <1>. HIDE DEF S
  <1>3. /\ InOrder(S) \in Seq(S) /\ Len(InOrder(S)) = Cardinality(S) /\ Cardinality(S) \in Nat /\ Cardinality(users) \in Nat
        /\ \A p, q \in 1..Cardinality(S) : InOrder(S)[p] = InOrder(S)[q] => p = q
    BY <1>2, InOrderFacts, FS_CardinalityType
  <1>. DEFINE r == InOrder(S)
              a == Cardinality(users)
              b == Cardinality(S)
  <1>4. n = [recipients |-> r, requested |-> a, next |-> 0, awarded |-> 0, skipped |-> a - b,
             status |-> "pending", claim |-> 0, failures |-> 0]
    BY DEF NewJob, S
  <1>5. r \in Seq(Recipients) /\ \A p \in 1..Len(r) : r[p] \in S
    <2>1. r \in Seq(S) /\ S \subseteq Recipients
      BY <1>2, <1>3
    <2>. HIDE DEF r
    <2>2. \A p \in 1..Len(r) : r[p] \in S
      BY <2>1
    <2>. QED
      BY <2>1, <2>2
  <1>. HIDE DEF r, a, b
  <1>6. a \in Int /\ b \in Int /\ a - b \in Int
    BY <1>3 DEF a, b
  <1>. HIDE DEF n
  <1>7. /\ n.recipients = r /\ n.next = 0 /\ n.status = "pending"
        /\ n \in JobRows
    <2>. DEFINE z == 0
                d == a - b
    <2>1. z \in Int /\ z \in Nat /\ d \in Int
      BY <1>6
    <2>2. n = [recipients |-> r, requested |-> a, next |-> z, awarded |-> z, skipped |-> d,
               status |-> "pending", claim |-> 0, failures |-> z]
      BY <1>4
    <2>. HIDE DEF z, d
    <2>3. n \in JobRows
      BY <1>5, <1>6, <2>1, <2>2 DEF JobRows
    <2>. QED
      BY <1>4, <2>3
  <1>8. /\ jobs' \in Seq(JobRows) /\ Len(jobs') = m + 1 /\ jobs'[m + 1] = n
        /\ \A j \in 1..m : jobs'[j] = jobs[j]
    BY <1>1, <1>7, AppendProperties
  <1>. HIDE DEF m
  <1>9. AwardTypes'
    <2>1. \A w \in Replicas : awarder[w] = 0 \/ awarder[w] \in 1..(m + 1)
      BY <1>1 DEF AwardInv, AwardTypes, m
    <2>. QED
      BY <1>1, <1>8, <2>1 DEF AwardInv, AwardTypes
  <1>10. Reached(n, awards)
    <2>1. \A p, q \in 1..Len(r) : r[p] = r[q] => p = q
      BY <1>3 DEF r
    <2>2. \A p \in 1..Len(r) : ~Holding(awards, r[p])
      BY <1>2, <1>5
    <2>3. Len(r) \in Nat
      BY <1>5
    <2>. QED
      BY <1>7, <2>1, <2>2, <2>3 DEF Reached
  <1>11. \A j \in 1..m : jobs[j].status \in Owed => ~Meet(jobs[j], n) /\ ~Meet(n, jobs[j])
    <2>1. ASSUME NEW j \in 1..m, jobs[j].status \in Owed,
                 NEW p \in 1..Len(jobs[j].recipients), NEW q \in 1..Len(r), jobs[j].recipients[p] = r[q]
          PROVE  FALSE
      <3>1. jobs[j].recipients \in Seq(Recipients) /\ j \in DOMAIN jobs
        <4>1. j \in DOMAIN jobs /\ jobs[j] \in JobRows
          BY <1>1 DEF m
        <4>. QED
          BY <4>1 DEF JobRows
      <3>2. r[q] \in ToSet(jobs[j].recipients)
        BY <2>1, <3>1 DEF ToSet
      <3>3. Queued(r[q])
        BY <2>1, <3>1, <3>2 DEF Queued, Owed
      <3>. QED
        BY <1>2, <1>5, <3>3
    <2>. QED
      BY <1>7, <2>1 DEF Meet
  <1>12. Separate(jobs')
    <2>1. \A j, k \in 1..(m + 1) : j # k /\ jobs'[j].status \in Owed /\ jobs'[k].status \in Owed => ~Meet(jobs'[j], jobs'[k])
      <3>1. \A j \in 1..(m + 1) : j \in 1..m \/ j = m + 1
        BY <1>1 DEF m
      <3>2. \A j, k \in 1..m : j # k /\ jobs[j].status \in Owed /\ jobs[k].status \in Owed => ~Meet(jobs[j], jobs[k])
        BY DEF AwardInv, Separate, m
      <3>. QED
        BY <1>8, <1>11, <3>1, <3>2
    <2>. QED
      BY <1>8, <2>1 DEF Separate
  <1>13. \A j \in 1..Len(jobs') : Reached(jobs'[j], awards)
    <2>1. \A j \in 1..(m + 1) : j \in 1..m \/ j = m + 1
      BY <1>1 DEF m
    <2>2. \A j \in 1..m : Reached(jobs[j], awards)
      BY DEF AwardInv, m
    <2>. QED
      BY <1>8, <1>10, <2>1, <2>2
  <1>14. Issued(awards, lists)'
    BY <1>1 DEF AwardInv, Issued, Single, Apart, Mapped, Bit
  <1>15. (\A j \in 1..Len(jobs) : Reached(jobs[j], awards))'
    BY <1>1, <1>13 DEF Reached, Holding
  <1>16. Separate(jobs)'
    BY <1>12 DEF Separate, Meet
  <1>. QED
    BY <1>9, <1>14, <1>15, <1>16 DEF AwardInv

\* The part of a job that a batch takes on.
LEMMA SliceFacts ==
  ASSUME NEW task \in JobRows, NEW m \in Nat, task.next + m <= Len(task.recipients)
  PROVE  /\ Slice(task, m) \in Seq(Recipients) /\ Len(Slice(task, m)) = m
         /\ \A p \in 1..m : Slice(task, m)[p] = task.recipients[task.next + p]
  <1>. DEFINE r == task.recipients
              c == task.next
  <1>1. r \in Seq(Recipients) /\ c \in Nat /\ Len(r) \in Nat /\ c + m <= Len(r)
    BY DEF JobRows
  <1>2. Slice(task, m) = SubSeq(r, c + 1, c + m)
    BY DEF Slice
  <1>. HIDE DEF r, c
  <1>3. c + 1 \in Int /\ c + m \in Int /\ \A i \in (c + 1)..(c + m) : r[i] \in Recipients
    BY <1>1
  <1>4. /\ SubSeq(r, c + 1, c + m) \in Seq(Recipients)
        /\ Len(SubSeq(r, c + 1, c + m)) = IF c + 1 <= c + m THEN (c + m) - (c + 1) + 1 ELSE 0
        /\ \A i \in 1..((c + m) - (c + 1) + 1) : SubSeq(r, c + 1, c + m)[i] = r[(c + 1) + i - 1]
    BY <1>3, SubSeqProperties
  <1>5. (IF c + 1 <= c + m THEN (c + m) - (c + 1) + 1 ELSE 0) = m
    BY <1>1
  <1>6. \A i \in 1..m : i \in 1..((c + m) - (c + 1) + 1) /\ (c + 1) + i - 1 = c + i
    BY <1>1
  <1>. QED
    BY <1>2, <1>4, <1>5, <1>6 DEF r, c

LEMMA AdvancedRow ==
  ASSUME NEW task \in JobRows, NEW m \in Nat, NEW out \in Results
  PROVE  /\ Advanced(task, m, out) \in JobRows /\ Advanced(task, m, out).recipients = task.recipients
         /\ Advanced(task, m, out).next = task.next + m
  <1>. DEFINE next == task.next + m
              st == IF next >= Len(task.recipients) THEN "completed" ELSE "pending"
              a == task.awarded + out.awarded
              b == task.skipped + out.skipped
  <1>1. /\ next \in Nat /\ a \in Int /\ b \in Int
    BY DEF JobRows, Results
  <1>2. st \in {"completed", "pending"}
    OBVIOUS
  <1>3. Advanced(task, m, out) = [task EXCEPT !.next = next, !.claim = 0, !.awarded = a, !.skipped = b, !.status = st]
    BY DEF Advanced, JobRows
  <1>. HIDE DEF next, st, a, b
  <1>4. LET new == [task EXCEPT !.next = next, !.claim = 0, !.awarded = a, !.skipped = b, !.status = st]
        IN new \in JobRows /\ new.recipients = task.recipients /\ new.next = next
    BY <1>1, <1>2 DEF JobRows
  <1>. QED
    BY <1>3, <1>4 DEF next

\* A job keeps what it has reached when credentials are added for others.
LEMMA StaysReached ==
  ASSUME NEW given \in Seq(AwardRows), NEW more \in Seq(AwardRows), Len(given) <= Len(more),
         \A i \in 1..Len(given) : more[i] = given[i], NEW task \in JobRows, Reached(task, given),
         \A i \in (Len(given) + 1)..Len(more) : task.status \in Owed =>
             \A p \in (task.next + 1)..Len(task.recipients) : more[i].user # task.recipients[p]
  PROVE  Reached(task, more)
  <1>1. /\ Len(given) \in Nat /\ Len(more) \in Nat /\ DOMAIN given = 1..Len(given) /\ DOMAIN more = 1..Len(more)
    OBVIOUS
  <1>2. \A i \in DOMAIN more : (i \in DOMAIN given /\ more[i] = given[i]) \/ i \in (Len(given) + 1)..Len(more)
    BY <1>1
  <1>3. \A i \in DOMAIN given : i \in DOMAIN more /\ more[i] = given[i]
    BY <1>1
  <1>4. ASSUME task.status \in Owed, NEW p \in (task.next + 1)..Len(task.recipients) PROVE ~Holding(more, task.recipients[p])
    <2>1. ~Holding(given, task.recipients[p])
      BY <1>4 DEF Reached
    <2>. QED
      BY <1>2, <1>4, <2>1 DEF Holding
  <1>5. \A p \in 1..task.next : \E i \in DOMAIN more : more[i].user = task.recipients[p]
    <2>1. ASSUME NEW p \in 1..task.next PROVE \E i \in DOMAIN more : more[i].user = task.recipients[p]
      <3>1. PICK i \in DOMAIN given : given[i].user = task.recipients[p]
        BY DEF Reached
      <3>. QED
        BY <1>3, <3>1
    <2>. QED
      BY <2>1
  <1>. QED
    BY <1>4, <1>5 DEF Reached

\* A batch issues credentials for the next recipients of its job only.
LEMMA BatchAwards ==
  ASSUME AwardInv, NEW j \in 1..Len(jobs), jobs[j].status = "processing",
         NEW m \in Nat, jobs[j].next + m <= Len(jobs[j].recipients), NEW out \in BatchOutcomes(Slice(jobs[j], m)),
         awards' = out.awards, lists' = out.lists, jobs' = [jobs EXCEPT ![j] = Advanced(jobs[j], m, out)],
         defined' = defined,
         awarder' \in [Replicas -> Nat], \A w \in Replicas : awarder'[w] = 0 \/ awarder'[w] \in 1..Len(jobs)
  PROVE  AwardInv'
  <1>. DEFINE task == jobs[j]
              s == Slice(task, m)
              n == Advanced(task, m, out)
              r == task.recipients
              c == task.next
              old == Len(awards)
  <1>1. /\ jobs \in Seq(JobRows) /\ awards \in Seq(AwardRows) /\ lists \in Seq(StatusLists)
        /\ task \in JobRows /\ Issued(awards, lists) /\ old \in Nat /\ defined \in BOOLEAN
    BY DEF AwardInv, AwardTypes
  <1>2. r \in Seq(Recipients) /\ c \in Nat /\ Len(r) \in Nat
    <2>1. task \in JobRows
      BY <1>1
    <2>. HIDE DEF task
    <2>2. r \in Seq(Recipients) /\ c \in Nat
      BY <2>1 DEF JobRows
    <2>. HIDE DEF r, c
    <2>. QED
      BY <2>2
  <1>3. Reached(task, awards) /\ task.status = "processing" /\ c + m <= Len(r)
    BY DEF AwardInv
  <1>. HIDE DEF task, s
  <1>4. s \in Seq(Recipients) /\ Len(s) = m /\ \A p \in 1..m : s[p] = r[c + p]
    BY <1>1, <1>3, SliceFacts DEF s
  <1>. HIDE DEF n, r, c
  <1>5. \A p, q \in 1..Len(r) : r[p] = r[q] => p = q
    BY <1>3 DEF Reached, r
  <1>6. \A p \in (c + 1)..Len(r) : ~Holding(awards, r[p])
    BY <1>3 DEF Reached, Owed, r, c
  <1>7. \A p \in 1..m : c + p \in 1..Len(r) /\ c + p \in (c + 1)..Len(r) /\ c + p \in (c + 1)..(c + m)
    BY <1>2, <1>3
  <1>8. \A p, q \in 1..Len(s) : s[p] = s[q] => p = q
    <2>1. ASSUME NEW p \in 1..m, NEW q \in 1..m, r[c + p] = r[c + q] PROVE p = q
      <3>1. c + p = c + q
        BY <1>5, <1>7, <2>1
      <3>. QED
        BY <1>2, <3>1
    <2>. QED
      BY <1>4, <2>1
  <1>9. \A p \in 1..Len(s) : ~Holding(awards, s[p])
    BY <1>4, <1>6, <1>7
  <1>10. out \in BatchOutcomes(s)
    BY DEF s, task
  <1>11. Batched(out, s, m)
    BY <1>1, <1>4, <1>8, <1>9, <1>10, BatchIssued
  <1>. DEFINE more == out.awards
  <1>12. out \in Results /\ more \in Seq(AwardRows) /\ out.lists \in Seq(StatusLists) /\ Issued(more, out.lists)
    BY <1>11 DEF Batched, Results
  <1>13. /\ old <= Len(more)
         /\ \A i \in 1..old : more[i] = awards[i]
         /\ \A i \in (old + 1)..Len(more) : \E p \in 1..m : more[i].user = s[p]
         /\ \A p \in 1..m : \E i \in DOMAIN more : more[i].user = s[p]
    BY <1>11 DEF Batched
  <1>. HIDE DEF more, old
  <1>14. n \in JobRows /\ n.recipients = r /\ n.next = c + m
    BY <1>1, <1>12, AdvancedRow DEF n, r, c
  <1>15. jobs' = [jobs EXCEPT ![j] = n]
    BY DEF n, task
  <1>16. /\ jobs' \in Seq(JobRows) /\ Len(jobs') = Len(jobs) /\ jobs'[j] = n
         /\ \A k \in 1..Len(jobs) : k # j => jobs'[k] = jobs[k]
         /\ Separate(jobs)'
    <2>1. task.status \in Owed
      BY <1>3 DEF Owed
    <2>. QED
      BY <1>14, <1>15, <2>1, JobRewritten DEF r, task
  <1>17. AwardTypes'
    BY <1>1, <1>12, <1>16 DEF AwardTypes, more
  <1>18. Reached(n, more)
    <2>1. \A i \in (old + 1)..Len(more) : \A p \in (c + m + 1)..Len(r) : more[i].user # r[p]
      <3>1. ASSUME NEW i \in (old + 1)..Len(more), NEW p \in (c + m + 1)..Len(r), more[i].user = r[p]
            PROVE  FALSE
        <4>1. PICK q \in 1..m : more[i].user = s[q]
          BY <1>13
        <4>2. p \in 1..Len(r) /\ c + q \in 1..Len(r) /\ p # c + q
          BY <1>2, <1>3, <1>7
        <4>. QED
          BY <1>4, <1>5, <3>1, <4>1, <4>2
      <3>. QED
        BY <3>1
    <2>2. ASSUME NEW p \in (c + m + 1)..Len(r) PROVE ~Holding(more, r[p])
      <3>1. ~Holding(awards, r[p])
        <4>1. p \in (c + 1)..Len(r)
          BY <1>2
        <4>. QED
          BY <1>6, <4>1
      <3>2. \A i \in DOMAIN more : (i \in DOMAIN awards /\ more[i] = awards[i]) \/ i \in (old + 1)..Len(more)
        <4>1. DOMAIN awards = 1..old /\ old \in Nat
          BY <1>1 DEF old
        <4>2. DOMAIN more = 1..Len(more) /\ Len(more) \in Nat
          BY <1>12
        <4>3. \A i \in 1..Len(more) : i \in 1..old \/ i \in (old + 1)..Len(more)
          BY <4>1, <4>2
        <4>. QED
          BY <1>13, <4>1, <4>2, <4>3
      <3>. QED
        BY <2>1, <3>1, <3>2 DEF Holding
    <2>3. ASSUME NEW p \in 1..(c + m) PROVE \E i \in DOMAIN more : more[i].user = r[p]
      <3>1. CASE p \in 1..c
        <4>1. PICK i \in DOMAIN awards : awards[i].user = r[p]
          BY <1>3, <3>1 DEF Reached, r, c
        <4>2. i \in DOMAIN more /\ more[i] = awards[i]
          <5>1. DOMAIN awards = 1..old /\ old \in Nat
            BY <1>1 DEF old
          <5>2. DOMAIN more = 1..Len(more) /\ Len(more) \in Nat
            BY <1>12
          <5>3. i \in 1..old /\ i \in 1..Len(more)
            BY <1>13, <4>1, <5>1, <5>2
          <5>. QED
            BY <1>13, <5>2, <5>3
        <4>. QED
          BY <4>1, <4>2
      <3>2. CASE p \notin 1..c
        <4>1. p - c \in 1..m /\ c + (p - c) = p
          BY <1>2, <3>2
        <4>2. s[p - c] = r[p]
          BY <1>4, <4>1
        <4>. QED
          BY <1>13, <4>1, <4>2
      <3>. QED
        BY <3>1, <3>2
    <2>4. c + m <= Len(r)
      BY <1>3 DEF r, c
    <2>. QED
      BY <1>5, <1>14, <2>2, <2>3, <2>4 DEF Reached
  <1>19. ASSUME NEW k \in 1..Len(jobs), k # j PROVE Reached(jobs[k], more)
    <2>1. Reached(jobs[k], awards) /\ jobs[k] \in JobRows
      BY <1>1 DEF AwardInv
    <2>2. ASSUME NEW i \in (old + 1)..Len(more), jobs[k].status \in Owed,
                 NEW p \in (jobs[k].next + 1)..Len(jobs[k].recipients), more[i].user = jobs[k].recipients[p]
          PROVE  FALSE
      <3>1. PICK q \in 1..m : more[i].user = s[q]
        BY <1>13
      <3>2. p \in 1..Len(jobs[k].recipients)
        <4>1. jobs[k].next \in Nat /\ Len(jobs[k].recipients) \in Nat
          BY <2>1 DEF JobRows
        <4>. QED
          BY <4>1
      <3>3. c + q \in 1..Len(r) /\ r[c + q] = jobs[k].recipients[p]
        BY <1>4, <1>7, <2>2, <3>1
      <3>4. Meet(jobs[j], jobs[k])
        BY <3>2, <3>3 DEF Meet, r, task
      <3>5. ~Meet(jobs[j], jobs[k])
        BY <1>3, <1>19, <2>2 DEF AwardInv, Separate, Owed, task
      <3>. QED
        BY <3>4, <3>5
    <2>. QED
      BY <1>1, <1>12, <1>13, <2>1, <2>2, StaysReached DEF old
  <1>20. \A k \in 1..Len(jobs') : Reached(jobs'[k], more)
    BY <1>16, <1>18, <1>19
  <1>21. (\A k \in 1..Len(jobs) : Reached(jobs[k], awards))'
    BY <1>20 DEF more, Reached, Holding
  <1>22. Issued(awards, lists)'
    BY <1>12 DEF more, Issued, Single, Apart, Mapped, Bit
  <1>. QED
    BY <1>16, <1>17, <1>21, <1>22 DEF AwardInv

LEMMA ProcessAwards ==
  ASSUME AwardInv, NEW w \in Replicas, NEW budget \in 0..BatchSize, ProcessBatch(w, budget)
  PROVE  AwardInv'
  <1>. DEFINE j == awarder[w]
              task == jobs[j]
              remaining == Len(task.recipients) - task.next
              sizes == {BatchSize, budget, remaining}
              allowed == CHOOSE n \in sizes : \A m \in sizes : n <= m
  <1>1. /\ j # 0 /\ OwnsJob(w) /\ awarder' = [awarder EXCEPT ![w] = 0] /\ defined' = defined
        /\ \/ /\ allowed = 0 /\ jobs' = [jobs EXCEPT ![j].status = "pending", ![j].claim = 0]
              /\ UNCHANGED <<awards, lists>>
           \/ \E out \in BatchOutcomes(Slice(task, allowed)) :
                /\ awards' = out.awards /\ lists' = out.lists
                /\ jobs' = [jobs EXCEPT ![j] = Advanced(task, allowed, out)]
    BY DEF ProcessBatch
  <1>. HIDE DEF allowed
  <1>2. jobs \in Seq(JobRows) /\ j \in 1..Len(jobs) /\ task \in JobRows /\ task.status = "processing"
    BY <1>1 DEF AwardInv, AwardTypes, OwnsJob
  <1>3. Reached(task, awards)
    BY <1>2 DEF AwardInv
  <1>. HIDE DEF j
  <1>4. awarder' \in [Replicas -> Nat] /\ \A x \in Replicas : awarder'[x] = 0 \/ awarder'[x] \in 1..Len(jobs)
    BY <1>1, LetGo
  <1>. HIDE DEF task
  <1>5. task.next \in Nat /\ Len(task.recipients) \in Nat /\ task.next <= Len(task.recipients)
    BY <1>2, <1>3 DEF JobRows, Reached
  <1>6. remaining \in Nat /\ BatchSize \in Nat /\ budget \in Nat
    BY <1>5, BadgeAwardsAssumption
  <1>. HIDE DEF remaining
  <1>7. allowed \in Nat /\ allowed <= remaining
    <2>1. \E n \in sizes : \A m \in sizes : n <= m
      <3>1. CASE BatchSize <= budget /\ BatchSize <= remaining
        BY <1>6, <3>1
      <3>2. CASE budget <= BatchSize /\ budget <= remaining
        BY <1>6, <3>2
      <3>3. CASE remaining <= BatchSize /\ remaining <= budget
        BY <1>6, <3>3
      <3>. QED
        BY <1>6, <3>1, <3>2, <3>3
    <2>. HIDE DEF sizes
    <2>2. allowed \in sizes /\ \A m \in sizes : allowed <= m
      BY <2>1 DEF allowed
    <2>. QED
      BY <1>6, <2>2 DEF sizes
  <1>8. task.next + allowed <= Len(task.recipients)
    BY <1>5, <1>7 DEF remaining
  <1>9. CASE allowed = 0 /\ jobs' = [jobs EXCEPT ![j].status = "pending", ![j].claim = 0] /\ UNCHANGED <<awards, lists>>
    <2>. DEFINE n == [task EXCEPT !.status = "pending", !.claim = 0]
    <2>1. n \in JobRows /\ n.recipients = task.recipients /\ n.next = task.next
      BY <1>2 DEF JobRows
    <2>2. jobs' = [jobs EXCEPT ![j] = n]
      BY <1>9 DEF task
    <2>3. task.status \in Owed
      BY <1>2 DEF Owed
    <2>. HIDE DEF n
    <2>. QED
      BY <1>1, <1>2, <1>4, <1>9, <2>1, <2>2, <2>3, JobMoves DEF task
  <1>10. ASSUME NEW out \in BatchOutcomes(Slice(task, allowed)), awards' = out.awards, lists' = out.lists,
                jobs' = [jobs EXCEPT ![j] = Advanced(task, allowed, out)]
         PROVE  AwardInv'
    BY <1>1, <1>2, <1>4, <1>7, <1>8, <1>10, BatchAwards DEF task
  <1>. QED
    BY <1>1, <1>9, <1>10

\* The argument is kept by every step of organizers, workers and maintenance.
LEMMA NextAwardInv == AwardInv /\ [AwardNext]_awardVars => AwardInv'
  <1>. SUFFICES ASSUME AwardInv, [AwardNext]_awardVars PROVE AwardInv'
    OBVIOUS
  <1>1. ASSUME NEW users \in SUBSET Recipients, AwardBadge(users) PROVE AwardInv'
    BY <1>1, RequestAwards
  <1>2. CASE DeleteBadge
    <2>1. awarder' \in [Replicas -> Nat] /\ \A w \in Replicas : awarder'[w] = 0 \/ awarder'[w] \in 1..Len(jobs)
      BY <1>2 DEF DeleteBadge, AwardInv, AwardTypes
    <2>. QED
      BY <1>2, <2>1, OnlyAwarders DEF DeleteBadge
  <1>3. ASSUME NEW i \in DOMAIN awards, RevokeBadge(i) PROVE AwardInv'
    BY <1>3, RevokeAwards
  <1>4. ASSUME NEW w \in Replicas, AwarderStep(w) PROVE AwardInv'
    BY <1>4, ClaimAwards, ProcessAwards, FailureAwards DEF AwarderStep
  <1>5. ASSUME NEW w \in Replicas, AwarderLost(w) PROVE AwardInv'
    BY <1>5, FailureAwards
  <1>6. ASSUME NEW j \in DOMAIN jobs, RecoverStaleJob(j) \/ RequeueBadgeAwardJob(j) \/ CleanupJob(j) PROVE AwardInv'
    BY <1>6, MaintenanceAwards
  <1>7. CASE UNCHANGED awardVars
    <2>1. awarder' \in [Replicas -> Nat] /\ (\A w \in Replicas : awarder'[w] = 0 \/ awarder'[w] \in 1..Len(jobs))
          /\ defined' \in BOOLEAN
      BY <1>7 DEF awardVars, AwardInv, AwardTypes
    <2>. QED
      BY <1>7, <2>1, OnlyAwarders DEF awardVars
  <1>. QED
    BY <1>1, <1>2, <1>3, <1>4, <1>5, <1>6, <1>7 DEF AwardNext

LEMMA AwardsInvariant == AwardSpec => []AwardInv
  BY InitAwardInv, NextAwardInv, PTL DEF AwardSpec

\* Nobody holds the badge twice, however requests overlap and batches of
\* process_badge_award_job_batch are interrupted, and after the definition is gone.
THEOREM OneActiveAward == AwardSpec => []AtMostOneActiveAward
  <1>1. AwardInv => AtMostOneActiveAward
    BY DEF AwardInv, Issued, Single, AtMostOneActiveAward
  <1>. QED
    BY <1>1, AwardsInvariant, PTL

\* No two credentials share a revocation bit: process_badge_award_job_batch
\* hands out each position of a status list once and the odd stride permutes them.
THEOREM BitsDistinct == AwardSpec => []RevocationBitsDistinct
  <1>1. AwardInv => RevocationBitsDistinct
    BY DEF AwardInv, Issued, Apart, RevocationBitsDistinct
  <1>. QED
    BY <1>1, AwardsInvariant, PTL

\* Every accepted recipient up to the cursor of a job was issued a credential,
\* whatever interrupted, rolled back or cut the batches.
THEOREM NobodySkipped == AwardSpec => []NobodyPassedOver
  <1>1. ASSUME AwardInv PROVE NobodyPassedOver
    <2>1. DOMAIN jobs = 1..Len(jobs)
      BY <1>1 DEF AwardInv, AwardTypes
    <2>. QED
      BY <1>1, <2>1 DEF AwardInv, Reached, NobodyPassedOver
  <1>. QED
    BY <1>1, AwardsInvariant, PTL
=============================================================================
