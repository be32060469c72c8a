----------------------------- MODULE MeetingSync -----------------------------
(***************************************************************************)
(* Automatic meetings of one event and its sessions: organizers edit and   *)
(* publish the event, sync workers claim what is out of sync and talk to   *)
(* the provider without holding a lock, a worker ends meetings that run    *)
(* on, and a recovery worker gives up claims of lost workers.              *)
(*                                                                         *)
(* A completed claim compares the hash of the state it was made for with   *)
(* the current one, so that an edit in between is synchronized again.  All *)
(* meetings overlap in time, so that the host pool is contended.           *)
(***************************************************************************)
EXTENDS Integers, FiniteSets

CONSTANTS
    Event, Sessions,   \* the owners of meetings
    Syncers, Hosts,
    HostSlots,         \* max_simultaneous_meetings_per_host
    MaxMeetings,       \* bound: meetings made at the provider
    MaxMeetingFaults,  \* bound: lost workers and answers
    MaxMeetingEvents   \* bound: organizer actions and faults together

ASSUME MeetingSyncAssumption ==
    /\ Event \notin Sessions
    /\ HostSlots \in Nat \ {0}
    /\ {MaxMeetings, MaxMeetingFaults, MaxMeetingEvents} \subseteq Nat

VARIABLES
    live,     \* the event is published, not canceled and not deleted
    started,  \* it has begun; overdue meetings are ended some time after
    owner,    \* the event and session rows
    rows,     \* the meeting table
    zoom,     \* provider: the meetings made
    syncer,   \* the sync workers
    ender,    \* the auto-end worker
    edits, mishaps,
    drops,    \* history: claims of meetings that were switched off or removed meanwhile
    forgotten \* history: meetings the database took off its record, or never recorded

meetingVars == <<live, started, owner, rows, zoom, syncer, ender, edits, mishaps, drops, forgotten>>

Owners == {Event} \cup Sessions
Orphan == "orphan"
NoHost == "none"

ASSUME MeetingNames ==
    /\ Orphan \notin Owners /\ NoHost \notin Hosts /\ 0 \notin Syncers
    /\ IsFiniteSet(Sessions) /\ IsFiniteSet(Syncers)

\* get_event_meeting_sync_state_hash: content stands for times, hosts, names.
Hash(o) == [live |-> live, requested |-> owner[o].requested, content |-> owner[o].content]

MayFail == mishaps < MaxMeetingFaults /\ edits + mishaps < MaxMeetingEvents

RowsOf(o) == {r \in rows : r.owner = o}

IdleSyncer == [pc |-> "idle", owner |-> Orphan, action |-> "none", id |-> 0,
               hash |-> [live |-> FALSE, requested |-> FALSE, content |-> 0], host |-> NoHost]

-----------------------------------------------------------------------------
(* Organizers *)

\* meeting_in_sync after a save: pending work stays, a started meeting is
\* settled, else any relevant change makes it out of sync.
InSync(o, requested, changed) ==
    IF owner[o].sync = "no" /\ requested THEN "no"
    ELSE IF ~requested THEN IF owner[o].requested THEN "no" ELSE "null"
    ELSE IF owner[o].requested /\ owner[o].sync = "yes" /\ started THEN "yes"
    ELSE IF owner[o].requested /\ ~changed THEN "yes" ELSE "no"

Saved(o, requested, changed) ==
    [owner[o] EXCEPT !.requested = requested, !.sync = InSync(o, requested, changed),
                     !.content = IF changed THEN 1 - @ ELSE @]

Orphaned_Cascade(removed) == {r \in rows : r.owner \notin removed}   \* mutant: rows are deleted with the session

Orphaned(removed) == {[r EXCEPT !.owner = IF @ \in removed THEN Orphan ELSE @] : r \in rows}

\* update_event and sync_event_sessions: one owner is changed and every other
\* is saved as it was.  A session left out of the form is deleted, and its
\* meeting row is orphaned.
UpdateEvent(o, requested, changed, removed) ==
    LET present == {p \in Owners : owner[p].exists}
        unwanted == IF requested THEN removed ELSE removed \cup {o}
    IN
    /\ edits + mishaps < MaxMeetingEvents
    /\ owner[o].exists /\ removed \subseteq (present \cap Sessions) \ {o}
    /\ edits' = edits + 1
    /\ owner' = [p \in Owners |->
         CASE p \in removed -> [owner[p] EXCEPT !.exists = FALSE, !.sync = "null", !.claim = 0,
                                                !.host = NoHost, !.requested = FALSE]
           [] p = o -> Saved(p, requested, changed)
           [] p \in present \ (removed \cup {o}) -> Saved(p, owner[p].requested, FALSE)
           [] OTHER -> owner[p]]
    /\ rows' = Orphaned(removed)
    /\ drops' = drops + Cardinality({p \in unwanted : owner[p].requested /\ owner[p].claim # 0})
    /\ UNCHANGED <<live, started, zoom, syncer, ender, mishaps, forgotten>>

\* publish_event; and unpublish_event, cancel_event, delete_event, which
\* differ only in whether it can be published again.
SetLive(value) ==
    /\ edits + mishaps < MaxMeetingEvents
    /\ live # value
    /\ edits' = edits + 1
    /\ live' = value
    /\ owner' = [o \in Owners |-> IF owner[o].exists /\ owner[o].requested
                                  THEN [owner[o] EXCEPT !.sync = "no"] ELSE owner[o]]
    /\ UNCHANGED <<started, rows, zoom, syncer, ender, mishaps, drops, forgotten>>

TimePasses ==
    /\ ~started
    /\ started' = TRUE
    /\ UNCHANGED <<live, owner, rows, zoom, syncer, ender, edits, mishaps, drops, forgotten>>

-----------------------------------------------------------------------------
(* Claiming *)

Wanted(o) == owner[o].requested /\ live

\* Creation and updates stop at the start of the meeting, deletions do not.
OutOfSync(o) ==
    /\ owner[o].exists /\ owner[o].sync = "no" /\ owner[o].claim = 0
    /\ Wanted(o) => ~started

\* The first kind of work there is, in the order of claim_meeting_out_of_sync.
Work ==
    LET ready(S, wanted) == {o \in S : OutOfSync(o) /\ Wanted(o) = wanted}
        kinds == <<ready({Event}, TRUE), ready(Sessions, TRUE), ready({Event}, FALSE), ready(Sessions, FALSE)>>
        some == {k \in 1..4 : kinds[k] # {}}
    IN IF some = {} THEN {} ELSE kinds[CHOOSE k \in some : \A j \in some : k <= j]

SyncAction(o) ==
    IF ~Wanted(o) THEN "delete" ELSE IF RowsOf(o) = {} THEN "create" ELSE "update"

\* What the worker does first; without a provider id there is nothing to delete.
FirstStep(action, id) ==
    CASE action = "create" -> "assign" [] action = "update" -> "update"
      [] action = "delete" -> IF id = 0 THEN "remove" ELSE "delete"

ClaimOwner(w, o) ==
    LET id == IF RowsOf(o) = {} THEN 0 ELSE (CHOOSE r \in RowsOf(o) : TRUE).id IN
    /\ syncer[w].pc = "idle" /\ o \in Work
    /\ owner' = [owner EXCEPT ![o].claim = w, ![o].error = "none"]
    /\ syncer' = [syncer EXCEPT ![w] = [pc |-> FirstStep(SyncAction(o), id), owner |-> o,
                    action |-> SyncAction(o), id |-> id, hash |-> Hash(o),
                    host |-> owner[o].host]]
    /\ UNCHANGED <<live, started, rows, zoom, ender, edits, mishaps, drops, forgotten>>

ClaimOrphan(w, r) ==
    /\ syncer[w].pc = "idle" /\ Work = {}
    /\ r.owner = Orphan /\ r.claim = 0
    /\ rows' = (rows \ {r}) \cup {[r EXCEPT !.claim = w]}
    /\ syncer' = [syncer EXCEPT ![w] = [IdleSyncer EXCEPT !.pc = "delete", !.action = "delete",
                    !.id = r.id]]
    /\ UNCHANGED <<live, started, owner, zoom, ender, edits, mishaps, drops, forgotten>>

-----------------------------------------------------------------------------
(* Talking to the provider *)

MoveTo(w, pc) == syncer' = [syncer EXCEPT ![w].pc = pc]
LeaveSync(w) == syncer' = [syncer EXCEPT ![w] = IdleSyncer]

Holds(w) ==
    IF syncer[w].owner = Orphan THEN \E r \in rows : r.id = syncer[w].id /\ r.claim = w
    ELSE owner[syncer[w].owner].claim = w

Load_NoReservations(h) == Cardinality({r \in rows : r.host = h /\ r.owner # Orphan})   \* mutant: claims do not count

\* Meetings on record, and reservations of workers that hold a claim.  The
\* form that switches a meeting off clears its provider, and a reservation
\* without a provider is not counted.
Load(h) ==
    Cardinality({r \in rows : r.host = h /\ r.owner # Orphan})
    + Cardinality({o \in Owners : /\ owner[o].host = h /\ owner[o].claim # 0
                                  /\ owner[o].sync = "no" /\ owner[o].requested})

\* assign_zoom_host_user, under the advisory lock.  Without a free host, or
\* without the claim, the meeting cannot be made and that is final.
AssignHost(w) ==
    LET free == {h \in Hosts : Load(h) < HostSlots} IN
    /\ syncer[w].pc = "assign"
    /\ IF syncer[w].host # NoHost THEN MoveTo(w, "create") /\ UNCHANGED owner
       ELSE IF free = {} \/ ~Holds(w) THEN MoveTo(w, "error") /\ UNCHANGED owner
       ELSE \E h \in {x \in free : \A y \in free : Load(x) <= Load(y)} :
              /\ owner' = [owner EXCEPT ![syncer[w].owner].host = h]
              /\ syncer' = [syncer EXCEPT ![w].pc = "create", ![w].host = h]
    /\ UNCHANGED <<live, started, rows, zoom, ender, edits, mishaps, drops, forgotten>>

\* A call that did nothing: refused by the client or by the provider (final),
\* or a token, rate limit, network or server error (tried again).
CallFails(w) ==
    /\ syncer[w].pc \in {"create", "update", "delete"}
    /\ \/ MoveTo(w, "error")
       \/ MoveTo(w, "release")
    /\ UNCHANGED <<live, started, owner, rows, zoom, ender, edits, mishaps, drops, forgotten>>

\* The answer may be lost, and the record may fail to be written: both are
\* taken for an error worth another attempt.
Lost(w) == MayFail /\ mishaps' = mishaps + 1 /\ MoveTo(w, "release")

CreateMeeting(w) ==
    /\ syncer[w].pc = "create"
    /\ Cardinality(DOMAIN zoom) < MaxMeetings
    /\ LET id == Cardinality(DOMAIN zoom) + 1 IN
         /\ zoom' = [i \in DOMAIN zoom \cup {id} |-> IF i = id
                       THEN [content |-> syncer[w].hash.content, gone |-> FALSE, for |-> syncer[w].owner]
                       ELSE zoom[i]]
         /\ \/ syncer' = [syncer EXCEPT ![w].pc = "add", ![w].id = id] /\ UNCHANGED mishaps
            \/ Lost(w)
    /\ UNCHANGED <<live, started, owner, rows, ender, edits, drops, forgotten>>

\* A meeting that is gone is a final error.
UpdateMeeting(w) ==
    /\ syncer[w].pc = "update"
    /\ IF zoom[syncer[w].id].gone THEN MoveTo(w, "error") /\ UNCHANGED <<zoom, mishaps>>
       ELSE /\ zoom' = [zoom EXCEPT ![syncer[w].id].content = syncer[w].hash.content]
            /\ \/ MoveTo(w, "save") /\ UNCHANGED mishaps
               \/ Lost(w)
    /\ UNCHANGED <<live, started, owner, rows, ender, edits, drops, forgotten>>

\* A meeting that is gone is as good as deleted.
DeleteMeeting(w) ==
    /\ syncer[w].pc = "delete"
    /\ zoom' = [zoom EXCEPT ![syncer[w].id].gone = TRUE]
    /\ \/ MoveTo(w, "remove") /\ UNCHANGED mishaps
       \/ Lost(w)
    /\ UNCHANGED <<live, started, owner, rows, ender, edits, drops, forgotten>>

-----------------------------------------------------------------------------
(* Completing a claim *)

Complete_Always(o, w, error) ==   \* mutant: the state hash is not compared
    [owner[o] EXCEPT !.claim = 0, !.host = NoHost, !.sync = "yes", !.error = error]

\* The owner is in sync when it still is what the claim was made for.
Complete(o, w, error) ==
    LET same == Hash(o) = syncer[w].hash IN
    [owner[o] EXCEPT !.claim = 0, !.host = NoHost, !.sync = IF same THEN "yes" ELSE "no",
                     !.error = IF same THEN error ELSE @]

CompleteOwner(w, error) ==
    LET o == syncer[w].owner IN
    owner' = IF o # Orphan /\ Holds(w) THEN [owner EXCEPT ![o] = Complete(o, w, error)] ELSE owner

NewRow(w) == [id |-> syncer[w].id, owner |-> syncer[w].owner, host |-> syncer[w].host, claim |-> 0, check |-> "none"]

Forget(w, lost) == forgotten' = IF lost THEN forgotten \cup {syncer[w].id} ELSE forgotten

\* add_meeting, update_meeting, delete_meeting: nothing without the claim.
RecordResult(w) ==
    /\ syncer[w].pc \in {"add", "save", "remove"}
    /\ Forget(w, syncer[w].pc = "add" /\ ~Holds(w))
    /\ rows' = IF ~Holds(w) THEN rows
               ELSE CASE syncer[w].pc = "add" -> rows \cup {NewRow(w)}
                      [] syncer[w].pc = "save" -> rows
                      [] syncer[w].pc = "remove" -> {r \in rows : r.id # syncer[w].id}
    /\ CompleteOwner(w, "none")
    /\ LeaveSync(w)
    /\ UNCHANGED <<live, started, zoom, ender, edits, mishaps, drops>>

\* set_meeting_error; an orphan is given up.
SetMeetingError(w) ==
    /\ syncer[w].pc = "error"
    /\ CompleteOwner(w, "failed")
    /\ rows' = IF syncer[w].owner = Orphan /\ Holds(w) THEN {r \in rows : r.id # syncer[w].id} ELSE rows
    /\ Forget(w, syncer[w].owner = Orphan /\ Holds(w))
    /\ LeaveSync(w)
    /\ UNCHANGED <<live, started, zoom, ender, edits, mishaps, drops>>

SyncReleased(o) == [owner[o] EXCEPT !.claim = 0, !.host = NoHost]

ReleaseSyncClaim(w) ==
    LET o == syncer[w].owner IN
    /\ syncer[w].pc = "release"
    /\ owner' = IF o # Orphan /\ Holds(w) /\ owner[o].sync = "no"
                THEN [owner EXCEPT ![o] = SyncReleased(o)] ELSE owner
    /\ rows' = IF o = Orphan /\ Holds(w)
               THEN {[r EXCEPT !.claim = IF r.id = syncer[w].id THEN 0 ELSE @] : r \in rows} ELSE rows
    /\ LeaveSync(w)
    /\ UNCHANGED <<live, started, zoom, ender, edits, mishaps, drops, forgotten>>

SyncerLost(w) ==
    /\ syncer[w].pc # "idle"
    /\ MayFail
    /\ mishaps' = mishaps + 1
    /\ LeaveSync(w)
    /\ UNCHANGED <<live, started, owner, rows, zoom, ender, edits, drops, forgotten>>

-----------------------------------------------------------------------------
(* Ending meetings, and recovery *)

\* One overdue meeting that was synchronized, checked once.
ClaimForAutoEnd(r) ==
    /\ ender = 0
    /\ r \in rows /\ r.owner # Orphan /\ r.check = "none"
    /\ started /\ Wanted(r.owner) /\ owner[r.owner].sync = "yes"
    /\ rows' = (rows \ {r}) \cup {[r EXCEPT !.check = "claimed"]}
    /\ ender' = r.id
    /\ UNCHANGED <<live, started, owner, zoom, syncer, edits, mishaps, drops, forgotten>>

\* The outcome is recorded (ended, not running, gone or failed), or the claim
\* released for another try; the worker may be lost before either.
AutoEnd ==
    /\ ender # 0
    /\ \E check \in {"done", "none", "claimed"} :
          /\ rows' = {[r EXCEPT !.check = IF r.id = ender /\ @ = "claimed" THEN check ELSE @] : r \in rows}
          /\ mishaps' = IF check = "claimed" THEN mishaps + 1 ELSE mishaps
          /\ (mishaps' = mishaps \/ MayFail)
    /\ ender' = 0
    /\ UNCHANGED <<live, started, owner, zoom, syncer, edits, drops, forgotten>>

Abandoned_Wanted(o, claim) == claim # 0 /\ syncer[claim].owner # o /\ Wanted(o)   \* mutant: not for deletions

\* The worker of the claim is no longer at it.
Abandoned(o, claim) == claim # 0 /\ syncer[claim].owner # o
AbandonedOrphan(r) == r.claim # 0 /\ syncer[r.claim].id # r.id

\* After fifteen minutes; the workers' calls end long before.  A sync is
\* settled with an error for review, a deletion of an orphan is retried.
MarkStaleClaims ==
    LET stale == {o \in Owners : Abandoned(o, owner[o].claim)}
        checks == {r \in rows : r.check = "claimed" /\ r.id # ender}
        orphans == {r \in rows : AbandonedOrphan(r)}
    IN /\ stale # {} \/ checks # {} \/ orphans # {}
       /\ owner' = [o \in Owners |-> IF o \in stale
                      THEN [SyncReleased(o) EXCEPT !.sync = "yes", !.error = "unknown"]
                      ELSE owner[o]]
       /\ rows' = {[r EXCEPT !.check = IF r \in checks THEN "done" ELSE @,
                             !.claim = IF r \in orphans THEN 0 ELSE @] : r \in rows}
       /\ UNCHANGED <<live, started, zoom, syncer, ender, edits, mishaps, drops, forgotten>>

-----------------------------------------------------------------------------

MeetingInit ==
    /\ live = TRUE
    /\ started = FALSE
    /\ owner = [o \in Owners |-> [exists |-> TRUE, requested |-> TRUE, content |-> 0, sync |-> "no",
                                  claim |-> 0, host |-> NoHost, error |-> "none"]]
    /\ rows = {}
    /\ zoom = [i \in {} |-> 0]
    /\ syncer = [w \in Syncers |-> IdleSyncer]
    /\ ender = 0 /\ edits = 0 /\ mishaps = 0 /\ drops = 0 /\ forgotten = {}

SyncerStep(w) ==
    \/ \E o \in Owners : ClaimOwner(w, o)
    \/ \E r \in rows : ClaimOrphan(w, r)
    \/ AssignHost(w) \/ CallFails(w) \/ CreateMeeting(w) \/ UpdateMeeting(w) \/ DeleteMeeting(w)
    \/ RecordResult(w) \/ SetMeetingError(w) \/ ReleaseSyncClaim(w)

Organizer ==
    \/ \E o \in Owners, requested, changed \in BOOLEAN, removed \in SUBSET Sessions :
          UpdateEvent(o, requested, changed, removed)
    \/ \E value \in BOOLEAN : SetLive(value)

MeetingNext ==
    \/ \E w \in Syncers : SyncerStep(w) \/ SyncerLost(w)
    \/ Organizer \/ TimePasses
    \/ (\E r \in rows : ClaimForAutoEnd(r)) \/ AutoEnd \/ MarkStaleClaims

MeetingSpec == MeetingInit /\ [][MeetingNext]_meetingVars

FairMeetingSpec ==
    MeetingSpec /\ WF_meetingVars(MarkStaleClaims) /\ WF_meetingVars(AutoEnd) /\ \A w \in Syncers : WF_meetingVars(SyncerStep(w))

-----------------------------------------------------------------------------
(* Properties *)

Settled(o) == owner[o].exists /\ owner[o].sync = "yes" /\ owner[o].error = "none" /\ owner[o].claim = 0

\* What is shown as synchronized before the start is: a wanted meeting is on
\* record and the provider has its current content, an unwanted one is gone,
\* although edits, publishing and two workers overlap.
InSyncIsTrue ==
    ~started =>
    \A o \in Owners : Settled(o) =>
        IF Wanted(o)
        THEN \E r \in RowsOf(o) : ~zoom[r.id].gone /\ zoom[r.id].content = owner[o].content
        ELSE RowsOf(o) = {}

\* The meetings of a host, those that workers are about to create included.
Booked(h) ==
    Cardinality({r \in rows : r.host = h /\ r.owner # Orphan})
    + Cardinality({w \in Syncers : syncer[w].host = h /\ syncer[w].pc \in {"create", "add"}})

\* No host is given more simultaneous meetings than the configuration allows.
\* assign_zoom_host_user breaks it: the reservation of a worker is not counted
\* any more when the meeting it creates was switched off meanwhile.
HostCapacityRespected == \A h \in Hosts : Booked(h) <= HostSlots

\* Nothing else does: two workers that choose a host before either has stored
\* its meeting never share a slot, and a host has at most one meeting too many
\* for every claim to create one whose reservation an edit dropped.
OverbookedByDropsOnly == \A h \in Hosts : Booked(h) <= HostSlots + drops

\* Without a lost answer or worker every meeting at the provider is on record
\* or about to be recorded by the worker that made it, whatever is edited.
\* The meeting of a removed session alone can be forgotten, in two ways:
\* add_meeting finds that the claim went with the session, or the deletion of
\* the orphan is refused for good and set_meeting_error gives it up.
NoLeak ==
    mishaps = 0 => \A id \in DOMAIN zoom :
        \/ zoom[id].gone \/ (\E r \in rows : r.id = id)
        \/ \E w \in Syncers : syncer[w].id = id /\ syncer[w].pc = "add"
        \/ id \in forgotten /\ ~owner[zoom[id].for].exists

\* A claim is given up sooner or later, whatever becomes of its worker.
ClaimsEnd == \A o \in Owners : owner[o].claim # 0 ~> owner[o].claim = 0 \/ ~owner[o].exists

\* A meeting that is no longer wanted stays marked for deletion until it was
\* deleted or an error was shown.
DeletionNotForgotten ==
    \A o \in Owners : owner[o].exists /\ RowsOf(o) # {} /\ ~Wanted(o) =>
        owner[o].sync = "no" \/ owner[o].error # "none" \/ owner[o].claim # 0
=============================================================================
