-------------------------- MODULE MeetingSyncProofs --------------------------
(***************************************************************************)
(* Meetings are what they are shown to be, only those of removed sessions  *)
(* are forgotten, and no host has too many but for dropped reservations,   *)
(* for any number of sessions, workers, hosts, edits and faults.           *)
(*                                                                         *)
(* The argument: while its owner exists, a worker has the owner's claim,   *)
(* so nobody else makes, changes or deletes that meeting; the meeting a    *)
(* worker has in hand is its owner's or was orphaned under it.  What the   *)
(* worker did is true of the state it claimed, and completing a claim      *)
(* compares that state with the current one.                               *)
(***************************************************************************)
EXTENDS MeetingSync, FiniteSetTheorems, TLAPS

Hashes == [live: BOOLEAN, requested: BOOLEAN, content: {0, 1}]

OwnerRecords ==
    [exists: BOOLEAN, requested: BOOLEAN, content: {0, 1}, sync: {"yes", "no", "null"},
     claim: Syncers \cup {0}, host: Hosts \cup {NoHost}, error: {"none", "failed", "unknown"}]

RowRecords ==
    [id: Nat, owner: Owners \cup {Orphan}, host: Hosts \cup {NoHost}, claim: Syncers \cup {0},
     check: {"none", "claimed", "done"}]

ZoomRecords == [content: {0, 1}, gone: BOOLEAN, for: Owners]

SyncerSteps ==
    {"idle", "assign", "create", "add", "update", "save", "delete", "remove", "error", "release"}

SyncerRecords ==
    [pc: SyncerSteps, owner: Owners \cup {Orphan}, action: {"none", "create", "update", "delete"},
     id: Nat, hash: Hashes, host: Hosts \cup {NoHost}]

Made == Cardinality(DOMAIN zoom)

MeetingTypes ==
    /\ live \in BOOLEAN /\ started \in BOOLEAN
    /\ owner \in [Owners -> OwnerRecords]
    /\ rows \in SUBSET RowRecords /\ IsFiniteSet(rows)
    /\ Made \in Nat /\ zoom \in [1..Made -> ZoomRecords]
    /\ syncer \in [Syncers -> SyncerRecords]
    /\ ender \in Nat /\ edits \in Nat /\ mishaps \in Nat

\* A removed owner is out of the game, claimed work is not shown as done, and
\* a host is reserved only under a claim.
OwnersSound ==
    \A o \in Owners :
        /\ ~owner[o].exists => owner[o].claim = 0 /\ ~owner[o].requested
        /\ owner[o].claim # 0 => owner[o].sync # "yes"
        /\ owner[o].exists /\ owner[o].requested => owner[o].sync # "null"
        /\ owner[o].claim = 0 => owner[o].host = NoHost

\* A worker has the claim of its owner, unless the owner was removed.
WorkersHold ==
    \A w \in Syncers :
        /\ syncer[w].pc = "idle" => syncer[w] = IdleSyncer
        /\ \A o \in Owners : syncer[w].owner = o /\ owner[o].exists =>
               owner[o].claim = w /\ owner[o].host = syncer[w].host

\* A meeting has one row and an owner has one meeting.
RowsSound ==
    /\ \A r, s \in rows : r.id = s.id => r = s
    /\ \A r, s \in rows : r.owner = s.owner /\ r.owner # Orphan => r = s
    /\ \A r \in rows : r.id \in DOMAIN zoom /\ (r.owner \in Owners => owner[r.owner].exists)

\* The meeting a worker has in hand is its owner's or an orphan; the one it
\* has just made is known to nobody else.
IdsSound ==
    \A w \in Syncers :
        /\ syncer[w].id = 0 \/ syncer[w].id \in DOMAIN zoom
        /\ \A r \in rows : r.id = syncer[w].id => r.owner \in {syncer[w].owner, Orphan}
        /\ syncer[w].pc = "add" =>
              /\ syncer[w].id # 0
              /\ \A r \in rows : r.id # syncer[w].id
              /\ \A v \in Syncers \ {w} : syncer[v].id # syncer[w].id

\* Where a worker is fits the state it claimed.
StepsSound ==
    \A w \in Syncers :
        /\ syncer[w].pc \in {"assign", "create", "add", "update", "save"} =>
               syncer[w].owner \in Owners /\ syncer[w].hash.live /\ syncer[w].hash.requested
        /\ syncer[w].pc \in {"delete", "remove"} /\ syncer[w].owner \in Owners =>
               ~(syncer[w].hash.live /\ syncer[w].hash.requested)
        /\ syncer[w].pc \in {"assign", "create"} => syncer[w].id = 0
        /\ syncer[w].pc \in {"update", "save", "delete"} => syncer[w].id # 0
        /\ syncer[w].pc = "remove" /\ syncer[w].id # 0 => zoom[syncer[w].id].gone

\* The rows of an owner a worker is at, as the worker takes them to be.
RowsInHand ==
    \A w \in Syncers, o \in Owners : syncer[w].owner = o /\ owner[o].exists =>
        /\ syncer[w].pc \in {"assign", "create", "add"} => RowsOf(o) = {}
        /\ syncer[w].pc \in {"delete", "remove"} => \A r \in RowsOf(o) : r.id = syncer[w].id
        /\ syncer[w].pc \in {"update", "save"} => \E r \in RowsOf(o) : r.id = syncer[w].id

\* The provider has the content the worker claimed.
ProviderHas(w) == ~zoom[syncer[w].id].gone /\ zoom[syncer[w].id].content = syncer[w].hash.content

ProviderDone ==
    \A w \in Syncers :
        /\ syncer[w].pc = "add" => ProviderHas(w)
        /\ \A o \in Owners : syncer[w].pc = "save" /\ syncer[w].owner = o /\ owner[o].exists => ProviderHas(w)

SyncInv ==
    /\ MeetingTypes /\ OwnersSound /\ WorkersHold /\ RowsSound /\ IdsSound /\ StepsSound
    /\ RowsInHand /\ ProviderDone

-----------------------------------------------------------------------------
(* Initial states, and what the invariant says of one worker *)

LEMMA IdleTyped ==
  /\ IdleSyncer \in SyncerRecords /\ IdleSyncer.pc = "idle" /\ IdleSyncer.owner = Orphan
  /\ IdleSyncer.id = 0 /\ IdleSyncer.host = NoHost
  BY DEF IdleSyncer, SyncerRecords, SyncerSteps, Hashes

LEMMA InitSync == MeetingInit => SyncInv /\ InSyncIsTrue
  <1>. SUFFICES ASSUME MeetingInit PROVE SyncInv /\ InSyncIsTrue
    OBVIOUS
  <1>1. DOMAIN zoom = {} /\ Made = 0 /\ zoom \in [1..0 -> ZoomRecords]
    BY FS_EmptySet DEF MeetingInit, Made
  <1>2. MeetingTypes
    BY <1>1, IdleTyped, FS_EmptySet DEF MeetingInit, MeetingTypes, OwnerRecords
  <1>3. OwnersSound /\ WorkersHold
    BY IdleTyped, MeetingNames DEF MeetingInit, OwnersSound, WorkersHold
  <1>4. RowsSound /\ IdsSound /\ StepsSound
    BY IdleTyped DEF MeetingInit, RowsSound, IdsSound, StepsSound
  <1>5. RowsInHand /\ ProviderDone
    BY IdleTyped DEF MeetingInit, RowsInHand, ProviderDone
  <1>6. InSyncIsTrue
    BY DEF MeetingInit, InSyncIsTrue, Settled
  <1>. QED
    BY <1>2, <1>3, <1>4, <1>5, <1>6 DEF SyncInv

\* Two workers are never at the same owner, nor one at a settled owner's row.
LEMMA OneWorker ==
  ASSUME SyncInv, NEW v \in Syncers, NEW w \in Syncers,
         syncer[v].owner \in Owners, syncer[v].owner = syncer[w].owner,
         owner[syncer[v].owner].exists
  PROVE  v = w
  BY DEF SyncInv, WorkersHold

LEMMA RowInHand ==
  ASSUME SyncInv, NEW w \in Syncers, NEW r \in rows, r.id = syncer[w].id, r.owner \in Owners
  PROVE  syncer[w].owner = r.owner /\ owner[r.owner].exists /\ owner[r.owner].claim = w
  BY MeetingNames DEF SyncInv, IdsSound, RowsSound, WorkersHold

-----------------------------------------------------------------------------
(* Steps that leave the tables alone *)

\* A worker gives up, fails, or goes on to the creation.
LEMMA WorkerMoves ==
  ASSUME SyncInv, NEW w \in Syncers, UNCHANGED <<live, started, owner, rows, zoom>>,
         ender' \in Nat, edits' \in Nat, mishaps' \in Nat,
         \/ LeaveSync(w) \/ MoveTo(w, "error") \/ MoveTo(w, "release")
         \/ syncer[w].pc = "assign" /\ MoveTo(w, "create")
  PROVE  SyncInv'
  <1>0. syncer \in [Syncers -> SyncerRecords]
    BY DEF SyncInv, MeetingTypes
  <1>1. /\ syncer' \in [Syncers -> SyncerRecords]
        /\ \A v \in Syncers : v # w => syncer'[v] = syncer[v]
        /\ \/ syncer'[w] = IdleSyncer
           \/ /\ syncer'[w].owner = syncer[w].owner /\ syncer'[w].id = syncer[w].id
              /\ syncer'[w].hash = syncer[w].hash /\ syncer'[w].host = syncer[w].host
              /\ \/ syncer'[w].pc \in {"error", "release"}
                 \/ syncer[w].pc = "assign" /\ syncer'[w].pc = "create"
    BY <1>0, IdleTyped DEF LeaveSync, MoveTo, SyncerRecords, SyncerSteps
  <1>2. MeetingTypes' /\ OwnersSound' /\ RowsSound'
    BY <1>1 DEF SyncInv, MeetingTypes, Made, OwnersSound, RowsSound
  <1>3. WorkersHold'
    BY <1>1, IdleTyped, MeetingNames DEF SyncInv, WorkersHold
  <1>4. IdsSound'
    <2>1. \A v \in Syncers : syncer'[v].id \in {0, syncer[v].id}
      BY <1>1, IdleTyped
    <2>2. \A v \in Syncers : syncer'[v].pc = "add" => v # w
      BY <1>1, IdleTyped
    <2>3. \A r \in rows : r.id # 0
      BY DEF SyncInv, RowsSound, MeetingTypes
    <2>4. ASSUME NEW v \in Syncers
          PROVE  /\ syncer'[v].id = 0 \/ syncer'[v].id \in DOMAIN zoom'
                 /\ \A r \in rows' : r.id = syncer'[v].id => r.owner \in {syncer'[v].owner, Orphan}
      BY <1>1, <2>1, <2>3, IdleTyped DEF SyncInv, IdsSound
    <2>5. ASSUME NEW v \in Syncers, syncer'[v].pc = "add"
          PROVE  /\ syncer'[v].id # 0
                 /\ \A r \in rows' : r.id # syncer'[v].id
                 /\ \A u \in Syncers \ {v} : syncer'[u].id # syncer'[v].id
      BY <1>1, <2>1, <2>2, <2>5 DEF SyncInv, IdsSound
    <2>. QED
      BY <2>4, <2>5 DEF IdsSound
  <1>5. StepsSound'
    BY <1>1, IdleTyped DEF SyncInv, StepsSound
  <1>6. RowsInHand'
    BY <1>1, IdleTyped DEF SyncInv, RowsInHand, RowsOf
  <1>7. ProviderDone'
    <2>1. \A v \in Syncers : syncer'[v].pc \in {"add", "save"} => v # w
      BY <1>1, IdleTyped
    <2>. QED
      BY <1>1, <2>1 DEF SyncInv, ProviderDone, ProviderHas
  <1>. QED
    BY <1>2, <1>3, <1>4, <1>5, <1>6, <1>7 DEF SyncInv

LEMMA InSyncKept ==
  ASSUME InSyncIsTrue, UNCHANGED <<live, started, owner, rows, zoom>>
  PROVE  InSyncIsTrue'
  BY DEF InSyncIsTrue, Settled, Wanted, RowsOf

\* The provider's meeting changes in the hand of its worker, and no other
\* owner's does.
LEMMA MeetingInHandChanges ==
  ASSUME SyncInv, InSyncIsTrue, NEW w \in Syncers, UNCHANGED <<live, started, owner, rows>>,
         syncer[w].id # 0, syncer[w].pc \in {"update", "delete"},
         NEW z \in ZoomRecords, zoom' = [zoom EXCEPT ![syncer[w].id] = z],
         zoom[syncer[w].id].gone => z.gone,
         NEW pc \in {"save", "remove", "release"}, MoveTo(w, pc),
         pc = "save" => syncer[w].pc = "update" /\ ~z.gone /\ z.content = syncer[w].hash.content,
         pc = "remove" => syncer[w].pc = "delete" /\ z.gone,
         ender' \in Nat, edits' \in Nat, mishaps' \in Nat
  PROVE  SyncInv' /\ InSyncIsTrue'
  <1>0. syncer \in [Syncers -> SyncerRecords] /\ zoom \in [1..Made -> ZoomRecords] /\ Made \in Nat
    BY DEF SyncInv, MeetingTypes
  <1>1. /\ syncer' \in [Syncers -> SyncerRecords]
        /\ \A v \in Syncers : v # w => syncer'[v] = syncer[v]
        /\ syncer'[w].owner = syncer[w].owner /\ syncer'[w].id = syncer[w].id
        /\ syncer'[w].hash = syncer[w].hash /\ syncer'[w].host = syncer[w].host
        /\ syncer'[w].pc = pc
    BY <1>0 DEF MoveTo, SyncerRecords, SyncerSteps
  <1>2. /\ DOMAIN zoom' = DOMAIN zoom /\ Made' = Made /\ zoom' \in [1..Made' -> ZoomRecords]
        /\ \A i \in DOMAIN zoom : i # syncer[w].id => zoom'[i] = zoom[i]
        /\ syncer[w].id \in DOMAIN zoom /\ zoom'[syncer[w].id] = z
    BY <1>0 DEF Made, SyncInv, IdsSound
  <1>3. MeetingTypes' /\ OwnersSound' /\ RowsSound'
    BY <1>1, <1>2 DEF SyncInv, MeetingTypes, OwnersSound, RowsSound
  <1>4. WorkersHold'
    BY <1>1 DEF SyncInv, WorkersHold
  <1>5. IdsSound'
    BY <1>1, <1>2 DEF SyncInv, IdsSound
  <1>6. StepsSound'
    <2>1. \A i \in DOMAIN zoom : zoom[i].gone => zoom'[i].gone
      BY <1>2
    <2>2. \A v \in Syncers : syncer[v].id = 0 \/ syncer[v].id \in DOMAIN zoom
      BY DEF SyncInv, IdsSound
    <2>. QED
      BY <1>1, <1>2, <2>1, <2>2 DEF SyncInv, StepsSound
  <1>7. RowsInHand'
    BY <1>1 DEF SyncInv, RowsInHand, RowsOf
  <1>8. ProviderDone'
    <2>1. ASSUME NEW v \in Syncers, syncer'[v].pc = "add" PROVE ProviderHas(v)'
      <3>1. v # w /\ syncer[v].pc = "add" /\ syncer[v].id # syncer[w].id /\ syncer[v].id \in DOMAIN zoom
        BY <1>1, <2>1 DEF SyncInv, IdsSound
      <3>. QED
        BY <1>1, <1>2, <3>1 DEF SyncInv, ProviderDone, ProviderHas
    <2>2. ASSUME NEW v \in Syncers, NEW o \in Owners, syncer'[v].pc = "save", syncer'[v].owner = o, owner'[o].exists
          PROVE  ProviderHas(v)'
      <3>1. CASE v = w
        BY <1>1, <1>2, <2>2, <3>1 DEF ProviderHas
      <3>2. CASE v # w
        <4>1. syncer[v].pc = "save" /\ syncer[v].owner = o /\ owner[o].exists
          BY <1>1, <2>2, <3>2
        <4>2. PICK r \in RowsOf(o) : r.id = syncer[v].id
          BY <4>1 DEF SyncInv, RowsInHand
        <4>3. r \in rows /\ r.owner = o
          BY <4>2 DEF RowsOf
        <4>4. owner[o].claim = v
          BY <4>1 DEF SyncInv, WorkersHold
        <4>5. syncer[v].id # syncer[w].id
          BY <3>2, <4>2, <4>3, <4>4, RowInHand
        <4>6. syncer[v].id \in DOMAIN zoom
          BY <4>1 DEF SyncInv, IdsSound, StepsSound
        <4>7. zoom'[syncer[v].id] = zoom[syncer[v].id] /\ syncer'[v] = syncer[v]
          BY <1>1, <1>2, <3>2, <4>5, <4>6
        <4>. QED
          BY <4>1, <4>7 DEF SyncInv, ProviderDone, ProviderHas
      <3>. QED
        BY <3>1, <3>2
    <2>. QED
      BY <2>1, <2>2 DEF ProviderDone
  <1>9. InSyncIsTrue'
    <2>. SUFFICES ASSUME ~started, NEW o \in Owners, Settled(o), Wanted(o)
                  PROVE  \E r \in RowsOf(o) : ~zoom'[r.id].gone /\ zoom'[r.id].content = owner[o].content
      BY DEF InSyncIsTrue, Settled, Wanted, RowsOf
    <2>1. PICK r \in RowsOf(o) : ~zoom[r.id].gone /\ zoom[r.id].content = owner[o].content
      BY DEF InSyncIsTrue
    <2>2. r \in rows /\ r.owner = o /\ r.id \in DOMAIN zoom
      BY <2>1 DEF RowsOf, SyncInv, RowsSound
    <2>3. r.id # syncer[w].id
      BY <2>2, RowInHand, MeetingNames DEF Settled
    <2>. QED
      BY <1>2, <2>1, <2>2, <2>3
  <1>. QED
    BY <1>3, <1>4, <1>5, <1>6, <1>7, <1>8, <1>9 DEF SyncInv

LEMMA UpdateMeetingSync ==
  ASSUME SyncInv, InSyncIsTrue, NEW w \in Syncers, UpdateMeeting(w)
  PROVE  SyncInv' /\ InSyncIsTrue'
  <1>0. ender \in Nat /\ edits \in Nat /\ mishaps \in Nat /\ mishaps + 1 \in Nat
    BY DEF SyncInv, MeetingTypes
  <1>1. CASE zoom[syncer[w].id].gone
    BY <1>0, <1>1, WorkerMoves, InSyncKept DEF UpdateMeeting
  <1>2. CASE ~zoom[syncer[w].id].gone
    <2>. DEFINE z == [zoom[syncer[w].id] EXCEPT !.content = syncer[w].hash.content]
    <2>1. syncer[w].id # 0 /\ syncer[w].pc = "update" /\ syncer[w].id \in DOMAIN zoom
      BY DEF UpdateMeeting, SyncInv, StepsSound, IdsSound
    <2>2. zoom[syncer[w].id] \in ZoomRecords /\ syncer[w].hash.content \in {0, 1}
      BY <2>1 DEF SyncInv, MeetingTypes, SyncerRecords, Hashes
    <2>3. z \in ZoomRecords /\ ~z.gone /\ z.content = syncer[w].hash.content
      BY <1>2, <2>2 DEF ZoomRecords
    <2>4. /\ zoom' = [zoom EXCEPT ![syncer[w].id] = z]
          /\ UNCHANGED <<live, started, owner, rows>> /\ ender' \in Nat /\ edits' \in Nat
          /\ mishaps' \in Nat
          /\ MoveTo(w, "save") \/ MoveTo(w, "release")
      BY <1>0, <1>2 DEF UpdateMeeting, Lost
    <2>. HIDE DEF z
    <2>. QED
      BY <1>2, <2>1, <2>3, <2>4, MeetingInHandChanges
  <1>. QED
    BY <1>1, <1>2

LEMMA DeleteMeetingSync ==
  ASSUME SyncInv, InSyncIsTrue, NEW w \in Syncers, DeleteMeeting(w)
  PROVE  SyncInv' /\ InSyncIsTrue'
  <1>0. ender \in Nat /\ edits \in Nat /\ mishaps \in Nat /\ mishaps + 1 \in Nat
    BY DEF SyncInv, MeetingTypes
  <1>. DEFINE z == [zoom[syncer[w].id] EXCEPT !.gone = TRUE]
  <1>1. syncer[w].id # 0 /\ syncer[w].pc = "delete" /\ syncer[w].id \in DOMAIN zoom
    BY DEF DeleteMeeting, SyncInv, StepsSound, IdsSound
  <1>2. zoom[syncer[w].id] \in ZoomRecords
    BY <1>1 DEF SyncInv, MeetingTypes
  <1>3. z \in ZoomRecords /\ z.gone
    BY <1>2 DEF ZoomRecords
  <1>4. /\ zoom' = [zoom EXCEPT ![syncer[w].id] = z]
        /\ UNCHANGED <<live, started, owner, rows>> /\ ender' \in Nat /\ edits' \in Nat
        /\ mishaps' \in Nat
        /\ MoveTo(w, "remove") \/ MoveTo(w, "release")
    BY <1>0 DEF DeleteMeeting, Lost
  <1>. HIDE DEF z
  <1>. QED
    BY <1>1, <1>3, <1>4, MeetingInHandChanges

\* A new meeting, in the hand of its worker or lost.
LEMMA NewZoom ==
  ASSUME SyncInv, NEW w \in Syncers, CreateMeeting(w)
  PROVE  /\ DOMAIN zoom' = DOMAIN zoom \cup {Made + 1} /\ Made + 1 \notin DOMAIN zoom /\ Made + 1 # 0
         /\ Made' = Made + 1 /\ Made' \in Nat /\ zoom' \in [1..Made' -> ZoomRecords]
         /\ \A i \in DOMAIN zoom : zoom'[i] = zoom[i]
         /\ ~zoom'[Made + 1].gone /\ zoom'[Made + 1].content = syncer[w].hash.content
         /\ zoom'[Made + 1].for = syncer[w].owner
  <1>0. Made \in Nat /\ zoom \in [1..Made -> ZoomRecords] /\ DOMAIN zoom = 1..Made
    BY DEF SyncInv, MeetingTypes
  <1>1. syncer[w].hash.content \in {0, 1} /\ syncer[w].owner \in Owners
    BY DEF SyncInv, MeetingTypes, SyncerRecords, Hashes, StepsSound, CreateMeeting
  <1>2. zoom' = [i \in DOMAIN zoom \cup {Made + 1} |-> IF i = Made + 1
                   THEN [content |-> syncer[w].hash.content, gone |-> FALSE, for |-> syncer[w].owner] ELSE zoom[i]]
    BY DEF CreateMeeting, Made
  <1>3. DOMAIN zoom' = 1..(Made + 1) /\ Made + 1 \notin DOMAIN zoom
    BY <1>0, <1>2
  <1>4. Cardinality(1..(Made + 1)) = Made + 1
    <2>1. 1 \in Int /\ Made + 1 \in Int /\ ~(1 > Made + 1)
      BY <1>0
    <2>. HIDE DEF Made
    <2>. QED
      BY <2>1, FS_Interval
  <1>5. Made' = Made + 1
    BY <1>3, <1>4 DEF Made
  <1>6. \A i \in 1..(Made + 1) : zoom'[i] \in ZoomRecords
    BY <1>0, <1>1, <1>2 DEF ZoomRecords
  <1>. HIDE DEF Made
  <1>7. zoom' \in [1..Made' -> ZoomRecords]
    BY <1>2, <1>3, <1>5, <1>6
  <1>8. DOMAIN zoom' = DOMAIN zoom \cup {Made + 1}
    BY <1>2
  <1>9. zoom'[Made + 1] = [content |-> syncer[w].hash.content, gone |-> FALSE, for |-> syncer[w].owner]
    BY <1>2
  <1>10. \A i \in DOMAIN zoom : zoom'[i] = zoom[i]
    BY <1>2, <1>3
  <1>. QED
    BY <1>0, <1>3, <1>5, <1>7, <1>8, <1>9, <1>10

LEMMA CreateMeetingSync ==
  ASSUME SyncInv, InSyncIsTrue, NEW w \in Syncers, CreateMeeting(w)
  PROVE  SyncInv' /\ InSyncIsTrue'
  <1>0. /\ syncer \in [Syncers -> SyncerRecords] /\ Made \in Nat
        /\ UNCHANGED <<live, started, owner, rows, ender, edits>> /\ mishaps' \in Nat /\ syncer[w].pc = "create"
    BY DEF CreateMeeting, Lost, SyncInv, MeetingTypes
  <1>1. /\ syncer' \in [Syncers -> SyncerRecords]
        /\ \A v \in Syncers : v # w => syncer'[v] = syncer[v]
        /\ syncer'[w].owner = syncer[w].owner
        /\ syncer'[w].hash = syncer[w].hash /\ syncer'[w].host = syncer[w].host
        /\ \/ syncer'[w].pc = "add" /\ syncer'[w].id = Made + 1
           \/ syncer'[w].pc = "release" /\ syncer'[w].id = syncer[w].id
    <2>1. \/ syncer' = [syncer EXCEPT ![w].pc = "add", ![w].id = Made + 1]
          \/ syncer' = [syncer EXCEPT ![w].pc = "release"]
      BY DEF CreateMeeting, Lost, MoveTo, Made
    <2>. HIDE DEF Made
    <2>. QED
      BY <1>0, <2>1 DEF SyncerRecords, SyncerSteps
  <1>. HIDE DEF Made
  <1>2. /\ DOMAIN zoom' = DOMAIN zoom \cup {Made + 1} /\ Made + 1 \notin DOMAIN zoom /\ Made + 1 # 0
        /\ Made' = Made + 1 /\ Made' \in Nat /\ zoom' \in [1..Made' -> ZoomRecords]
        /\ \A i \in DOMAIN zoom : zoom'[i] = zoom[i]
        /\ ~zoom'[Made + 1].gone /\ zoom'[Made + 1].content = syncer[w].hash.content
    BY NewZoom
  <1>3. MeetingTypes' /\ OwnersSound' /\ RowsSound'
    BY <1>0, <1>1, <1>2 DEF SyncInv, MeetingTypes, OwnersSound, RowsSound
  <1>4. WorkersHold'
    BY <1>0, <1>1 DEF SyncInv, WorkersHold
  <1>5. /\ \A v \in Syncers : syncer[v].id = 0 \/ syncer[v].id \in DOMAIN zoom
        /\ \A r \in rows : r.id \in DOMAIN zoom
        /\ 0 \notin DOMAIN zoom
    BY DEF SyncInv, IdsSound, RowsSound, MeetingTypes
  <1>6. IdsSound'
    <2>1. ASSUME NEW v \in Syncers
          PROVE  /\ syncer'[v].id = 0 \/ syncer'[v].id \in DOMAIN zoom'
                 /\ \A r \in rows' : r.id = syncer'[v].id => r.owner \in {syncer'[v].owner, Orphan}
      BY <1>0, <1>1, <1>2, <1>5 DEF SyncInv, IdsSound
    <2>2. ASSUME NEW v \in Syncers, syncer'[v].pc = "add"
          PROVE  /\ syncer'[v].id # 0
                 /\ \A r \in rows' : r.id # syncer'[v].id
                 /\ \A u \in Syncers \ {v} : syncer'[u].id # syncer'[v].id
      <3>1. CASE v = w
        BY <1>0, <1>1, <1>2, <1>5, <2>2, <3>1
      <3>2. CASE v # w
        <4>1. syncer'[v] = syncer[v] /\ syncer[v].pc = "add"
          BY <1>1, <2>2, <3>2
        <4>2. syncer[v].id # 0 /\ (\A r \in rows : r.id # syncer[v].id)
              /\ \A u \in Syncers \ {v} : syncer[u].id # syncer[v].id
          BY <4>1 DEF SyncInv, IdsSound
        <4>. QED
          BY <1>0, <1>1, <1>2, <1>5, <4>1, <4>2
      <3>. QED
        BY <3>1, <3>2
    <2>. QED
      BY <2>1, <2>2 DEF IdsSound
  <1>7. StepsSound'
    BY <1>0, <1>1, <1>2, <1>5 DEF SyncInv, StepsSound
  <1>8. RowsInHand'
    BY <1>0, <1>1 DEF SyncInv, RowsInHand, RowsOf
  <1>9. ProviderDone'
    BY <1>0, <1>1, <1>2, <1>5 DEF SyncInv, ProviderDone, ProviderHas, StepsSound, IdsSound
  <1>10. InSyncIsTrue'
    BY <1>0, <1>2, <1>5 DEF InSyncIsTrue, Settled, Wanted, RowsOf
  <1>. QED
    BY <1>3, <1>4, <1>6, <1>7, <1>8, <1>9, <1>10 DEF SyncInv

-----------------------------------------------------------------------------
(* Claims *)

LEMMA AssignHostSync ==
  ASSUME SyncInv, InSyncIsTrue, NEW w \in Syncers, AssignHost(w)
  PROVE  SyncInv' /\ InSyncIsTrue'
  <1>. DEFINE o == syncer[w].owner
  <1>0. /\ syncer \in [Syncers -> SyncerRecords] /\ owner \in [Owners -> OwnerRecords]
        /\ UNCHANGED <<live, started, rows, zoom, ender, edits, mishaps>>
        /\ ender \in Nat /\ edits \in Nat /\ mishaps \in Nat
        /\ syncer[w].pc = "assign" /\ o \in Owners /\ o # Orphan
    BY MeetingNames DEF AssignHost, SyncInv, MeetingTypes, StepsSound
  <1>1. CASE UNCHANGED owner /\ (MoveTo(w, "create") \/ MoveTo(w, "error"))
    BY <1>0, <1>1, WorkerMoves, InSyncKept
  <1>2. ASSUME NEW h \in Hosts, Holds(w), owner' = [owner EXCEPT ![o].host = h],
               syncer' = [syncer EXCEPT ![w].pc = "create", ![w].host = h]
        PROVE  SyncInv' /\ InSyncIsTrue'
    <2>1. owner[o].claim = w /\ w # 0 /\ owner[o].exists
      BY <1>0, <1>2, MeetingNames DEF Holds, SyncInv, OwnersSound
    <2>2. /\ syncer' \in [Syncers -> SyncerRecords]
          /\ \A v \in Syncers : v # w => syncer'[v] = syncer[v]
          /\ syncer'[w].owner = o /\ syncer'[w].id = syncer[w].id
          /\ syncer'[w].hash = syncer[w].hash /\ syncer'[w].host = h /\ syncer'[w].pc = "create"
      BY ZenonT(40), <1>0, <1>2 DEF SyncerRecords, SyncerSteps
    <2>3. /\ owner' \in [Owners -> OwnerRecords]
          /\ \A p \in Owners : p # o => owner'[p] = owner[p]
          /\ \A p \in Owners : /\ owner'[p].exists = owner[p].exists /\ owner'[p].requested = owner[p].requested
                              /\ owner'[p].claim = owner[p].claim /\ owner'[p].sync = owner[p].sync
                              /\ owner'[p].content = owner[p].content /\ owner'[p].error = owner[p].error
          /\ owner'[o].host = h
      BY <1>0, <1>2 DEF OwnerRecords
    <2>. HIDE DEF o
    <2>4. MeetingTypes' /\ RowsSound'
      BY <1>0, <2>2, <2>3 DEF SyncInv, MeetingTypes, Made, RowsSound
    <2>5. OwnersSound'
      BY <1>0, <2>1, <2>3 DEF SyncInv, OwnersSound
    <2>6. WorkersHold'
      <3>1. \A v \in Syncers : v # w /\ syncer[v].owner = o => v = w
        BY <1>0, <2>1, OneWorker DEF o
      <3>. QED
        BY <1>0, <2>1, <2>2, <2>3, <3>1 DEF SyncInv, WorkersHold
    <2>7. IdsSound' /\ StepsSound'
      BY <1>0, <2>2 DEF SyncInv, IdsSound, StepsSound, o
    <2>8. RowsInHand'
      BY <1>0, <2>2, <2>3 DEF SyncInv, RowsInHand, RowsOf, o
    <2>9. ProviderDone'
      BY <1>0, <2>2, <2>3 DEF SyncInv, ProviderDone, ProviderHas, o
    <2>10. InSyncIsTrue'
      BY <1>0, <2>3 DEF InSyncIsTrue, Settled, Wanted, RowsOf
    <2>. QED
      BY <2>4, <2>5, <2>6, <2>7, <2>8, <2>9, <2>10 DEF SyncInv
  <1>. QED
    BY <1>1, <1>2 DEF AssignHost

LEMMA WorkIsOutOfSync ==
  ASSUME NEW o \in Work
  PROVE  o \in Owners /\ OutOfSync(o)
  <1>. DEFINE ready(S, wanted) == {p \in S : OutOfSync(p) /\ Wanted(p) = wanted}
              kinds == <<ready({Event}, TRUE), ready(Sessions, TRUE), ready({Event}, FALSE), ready(Sessions, FALSE)>>
              some == {k \in 1..4 : kinds[k] # {}}
  <1>1. \E k \in 1..4 : o \in kinds[k]
    <2>1. some # {}
      BY DEF Work
    <2>2. \E k \in some : \A j \in some : k <= j
      <3>1. some \subseteq {1, 2, 3, 4}
        OBVIOUS
      <3>. HIDE DEF some
      <3>2. CASE 1 \in some
        BY <3>1, <3>2
      <3>3. CASE 1 \notin some /\ 2 \in some
        BY <3>1, <3>3
      <3>4. CASE some \subseteq {3, 4}
        <4>1. CASE 3 \in some
          BY <3>4, <4>1
        <4>2. CASE some = {4}
          BY <4>2
        <4>. QED
          BY <2>1, <3>4, <4>1, <4>2
      <3>. QED
        BY <3>1, <3>2, <3>3, <3>4
    <2>. DEFINE first == CHOOSE k \in some : \A j \in some : k <= j
    <2>3. first \in some
      BY <2>2
    <2>4. o \in kinds[first]
      BY <2>1 DEF Work
    <2>. QED
      BY <2>3, <2>4
  <1>2. \A k \in 1..4 : \A p \in kinds[k] : p \in Owners /\ OutOfSync(p)
    BY DEF Owners
  <1>. QED
    BY <1>1, <1>2

\* What a worker takes on with the claim of an owner.
LEMMA ClaimedWork ==
  ASSUME SyncInv, NEW w \in Syncers, NEW o \in Owners, ClaimOwner(w, o)
  PROVE  /\ owner[o].exists /\ owner[o].claim = 0 /\ owner[o].sync = "no" /\ syncer[w].pc = "idle"
         /\ syncer'[w].owner = o /\ syncer'[w].hash = Hash(o) /\ syncer'[w].host = owner[o].host
         /\ syncer'[w] \in SyncerRecords
         /\ \/ RowsOf(o) = {} /\ syncer'[w].id = 0
            \/ \E r \in RowsOf(o) : syncer'[w].id = r.id /\ RowsOf(o) = {r}
         /\ \/ Wanted(o) /\ RowsOf(o) = {} /\ syncer'[w].pc = "assign"
            \/ Wanted(o) /\ RowsOf(o) # {} /\ syncer'[w].pc = "update"
            \/ ~Wanted(o) /\ RowsOf(o) # {} /\ syncer'[w].pc = "delete"
            \/ ~Wanted(o) /\ RowsOf(o) = {} /\ syncer'[w].pc = "remove"
         /\ \A v \in Syncers : v # w => syncer'[v] = syncer[v]
         /\ syncer' \in [Syncers -> SyncerRecords]
  <1>. DEFINE id == IF RowsOf(o) = {} THEN 0 ELSE (CHOOSE r \in RowsOf(o) : TRUE).id
              new == [pc |-> FirstStep(SyncAction(o), id), owner |-> o,
                      action |-> SyncAction(o), id |-> id, hash |-> Hash(o), host |-> owner[o].host]
  <1>0. /\ syncer \in [Syncers -> SyncerRecords] /\ owner[o] \in OwnerRecords
        /\ live \in BOOLEAN /\ rows \in SUBSET RowRecords
    BY DEF SyncInv, MeetingTypes
  <1>1. owner[o].exists /\ owner[o].claim = 0 /\ owner[o].sync = "no" /\ syncer[w].pc = "idle"
    BY WorkIsOutOfSync DEF ClaimOwner, OutOfSync
  <1>2. syncer' = [syncer EXCEPT ![w] = new]
    BY DEF ClaimOwner
  <1>3. \/ RowsOf(o) = {} /\ id = 0
        \/ \E r \in RowsOf(o) : id = r.id /\ RowsOf(o) = {r}
    <2>1. CASE RowsOf(o) # {}
      <3>. DEFINE r == CHOOSE x \in RowsOf(o) : TRUE
      <3>1. r \in RowsOf(o) /\ id = r.id
        BY <2>1
      <3>2. \A x \in RowsOf(o) : x = r
        <4>1. o # Orphan
          BY MeetingNames
        <4>2. \A x, y \in RowsOf(o) : x = y
          BY <4>1 DEF RowsOf, SyncInv, RowsSound
        <4>. QED
          BY <3>1, <4>2
      <3>. HIDE DEF r, id
      <3>. QED
        BY <3>1, <3>2
    <2>. QED
      BY <2>1
  <1>4. id \in Nat /\ (RowsOf(o) # {} => id # 0)
    <2>1. \A r \in RowsOf(o) : r.id \in Nat /\ r.id # 0
      BY <1>0 DEF RowsOf, SyncInv, RowsSound, MeetingTypes, RowRecords
    <2>. HIDE DEF id
    <2>. QED
      BY <1>3, <2>1
  <1>. HIDE DEF id
  <1>5. /\ \/ Wanted(o) /\ RowsOf(o) = {} /\ FirstStep(SyncAction(o), id) = "assign"
           \/ Wanted(o) /\ RowsOf(o) # {} /\ FirstStep(SyncAction(o), id) = "update"
           \/ ~Wanted(o) /\ RowsOf(o) # {} /\ FirstStep(SyncAction(o), id) = "delete"
           \/ ~Wanted(o) /\ RowsOf(o) = {} /\ FirstStep(SyncAction(o), id) = "remove"
        /\ SyncAction(o) \in {"create", "update", "delete"}
    BY <1>3, <1>4 DEF FirstStep, SyncAction
  <1>6. Hash(o) \in Hashes
    BY <1>0 DEF Hash, Hashes, OwnerRecords
  <1>7. new \in SyncerRecords
    BY <1>0, <1>4, <1>5, <1>6 DEF SyncerRecords, SyncerSteps, OwnerRecords
  <1>8. new.pc = FirstStep(SyncAction(o), id) /\ new.owner = o /\ new.id = id /\ new.hash = Hash(o) /\ new.host = owner[o].host
    OBVIOUS
  <1>. HIDE DEF new
  <1>9. syncer' \in [Syncers -> SyncerRecords] /\ syncer'[w] = new /\ \A v \in Syncers : v # w => syncer'[v] = syncer[v]
    BY <1>0, <1>2, <1>7
  <1>10. \/ RowsOf(o) = {} /\ syncer'[w].id = 0
         \/ \E r \in RowsOf(o) : syncer'[w].id = r.id /\ RowsOf(o) = {r}
    BY <1>3, <1>8, <1>9
  <1>11. \/ Wanted(o) /\ RowsOf(o) = {} /\ syncer'[w].pc = "assign"
         \/ Wanted(o) /\ RowsOf(o) # {} /\ syncer'[w].pc = "update"
         \/ ~Wanted(o) /\ RowsOf(o) # {} /\ syncer'[w].pc = "delete"
         \/ ~Wanted(o) /\ RowsOf(o) = {} /\ syncer'[w].pc = "remove"
    BY <1>5, <1>8, <1>9
  <1>. QED
    BY <1>1, <1>7, <1>8, <1>9, <1>10, <1>11

LEMMA ClaimOwnerSync ==
  ASSUME SyncInv, InSyncIsTrue, NEW w \in Syncers, NEW o \in Owners, ClaimOwner(w, o)
  PROVE  SyncInv' /\ InSyncIsTrue'
  <1>0. /\ owner \in [Owners -> OwnerRecords] /\ w # 0 /\ o # Orphan
        /\ UNCHANGED <<live, started, rows, zoom, ender, edits, mishaps>>
        /\ owner' = [owner EXCEPT ![o].claim = w, ![o].error = "none"]
    BY MeetingNames DEF ClaimOwner, SyncInv, MeetingTypes
  <1>1. /\ owner[o].exists /\ owner[o].claim = 0 /\ owner[o].sync = "no" /\ syncer[w].pc = "idle"
        /\ syncer'[w].owner = o /\ syncer'[w].hash = Hash(o) /\ syncer'[w].host = owner[o].host
        /\ syncer'[w] \in SyncerRecords
    BY ClaimedWork
  <1>2. /\ \/ RowsOf(o) = {} /\ syncer'[w].id = 0
           \/ \E r \in RowsOf(o) : syncer'[w].id = r.id /\ RowsOf(o) = {r}
        /\ \/ Wanted(o) /\ RowsOf(o) = {} /\ syncer'[w].pc = "assign"
           \/ Wanted(o) /\ RowsOf(o) # {} /\ syncer'[w].pc = "update"
           \/ ~Wanted(o) /\ RowsOf(o) # {} /\ syncer'[w].pc = "delete"
           \/ ~Wanted(o) /\ RowsOf(o) = {} /\ syncer'[w].pc = "remove"
    BY ClaimedWork
  <1>3. (\A v \in Syncers : v # w => syncer'[v] = syncer[v]) /\ syncer' \in [Syncers -> SyncerRecords]
    BY ClaimedWork
  <1>4. /\ owner' \in [Owners -> OwnerRecords]
        /\ \A p \in Owners : p # o => owner'[p] = owner[p]
        /\ \A p \in Owners : /\ owner'[p].exists = owner[p].exists /\ owner'[p].requested = owner[p].requested
                            /\ owner'[p].sync = owner[p].sync /\ owner'[p].host = owner[p].host
                            /\ owner'[p].content = owner[p].content
        /\ owner'[o].claim = w
    BY ZenonT(40), <1>0 DEF OwnerRecords
  \* Nobody else is at this owner or has its meeting.
  <1>5. \A v \in Syncers : syncer[v].owner # o
    BY <1>0, <1>1, MeetingNames DEF SyncInv, WorkersHold
  <1>6. \A v \in Syncers : v # w /\ syncer'[w].id # 0 => syncer[v].id # syncer'[w].id
    BY <1>2, <1>5, RowInHand, MeetingNames DEF RowsOf
  <1>7. MeetingTypes' /\ RowsSound'
    BY <1>0, <1>3, <1>4 DEF SyncInv, MeetingTypes, Made, RowsSound
  <1>8. OwnersSound'
    BY <1>0, <1>1, <1>4 DEF SyncInv, OwnersSound
  <1>9. WorkersHold'
    BY <1>0, <1>1, <1>2, <1>3, <1>4, <1>5 DEF SyncInv, WorkersHold
  <1>10. \A r \in rows : r.id \in DOMAIN zoom /\ r.id # 0
    BY DEF SyncInv, RowsSound, MeetingTypes
  <1>11. IdsSound'
    <2>1. syncer'[w].id = 0 \/ syncer'[w].id \in DOMAIN zoom'
      BY <1>0, <1>2, <1>10 DEF RowsOf
    <2>2. \A r \in rows : r.id = syncer'[w].id => r.owner = o
      BY <1>2, <1>10 DEF RowsOf, SyncInv, RowsSound
    <2>3. ASSUME NEW v \in Syncers, syncer'[v].pc = "add"
          PROVE  /\ syncer'[v].id # 0
                 /\ \A r \in rows' : r.id # syncer'[v].id
                 /\ \A u \in Syncers \ {v} : syncer'[u].id # syncer'[v].id
      <3>1. v # w /\ syncer'[v] = syncer[v]
        BY <1>2, <1>3, <2>3
      <3>. QED
        BY <1>0, <1>3, <1>6, <2>3, <3>1 DEF SyncInv, IdsSound
    <2>. QED
      BY <1>0, <1>1, <1>3, <2>1, <2>2, <2>3 DEF SyncInv, IdsSound
  <1>12. StepsSound'
    <2>1. syncer'[w].hash.live /\ syncer'[w].hash.requested <=> Wanted(o)
      BY <1>1 DEF Hash, Wanted
    <2>2. RowsOf(o) # {} => syncer'[w].id # 0
      BY <1>2, <1>10 DEF RowsOf
    <2>3. RowsOf(o) = {} => syncer'[w].id = 0
      BY <1>2
    <2>. QED
      BY <1>0, <1>1, <1>2, <1>3, <2>1, <2>2, <2>3 DEF SyncInv, StepsSound
  <1>13. RowsInHand'
    <2>1. ASSUME NEW v \in Syncers, NEW p \in Owners, syncer'[v].owner = p, owner'[p].exists
          PROVE  /\ syncer'[v].pc \in {"assign", "create", "add"} => RowsOf(p)' = {}
                 /\ syncer'[v].pc \in {"delete", "remove"} => \A r \in RowsOf(p)' : r.id = syncer'[v].id
                 /\ syncer'[v].pc \in {"update", "save"} => \E r \in RowsOf(p)' : r.id = syncer'[v].id
      <3>1. RowsOf(p)' = RowsOf(p)
        BY <1>0 DEF RowsOf
      <3>2. CASE v = w
        BY <1>1, <1>2, <2>1, <3>1, <3>2
      <3>3. CASE v # w
        BY <1>3, <1>4, <2>1, <3>1, <3>3 DEF SyncInv, RowsInHand
      <3>. QED
        BY <3>2, <3>3
    <2>. QED
      BY <2>1 DEF RowsInHand
  <1>14. ProviderDone'
    <2>1. \A v \in Syncers : syncer'[v].pc \in {"add", "save"} => v # w
      BY <1>2
    <2>. QED
      BY <1>0, <1>3, <1>4, <2>1 DEF SyncInv, ProviderDone, ProviderHas
  <1>15. InSyncIsTrue'
    <2>1. \A p \in Owners : Settled(p)' => p # o
      BY <1>0, <1>4 DEF Settled
    <2>. QED
      BY <1>0, <1>4, <2>1 DEF InSyncIsTrue, Settled, Wanted, RowsOf
  <1>. QED
    BY <1>7, <1>8, <1>9, <1>11, <1>12, <1>13, <1>14, <1>15 DEF SyncInv

-----------------------------------------------------------------------------
(* The meeting table *)

\* The row of the same meeting, later.
Follows(r, s) == s.id = r.id /\ s.host = r.host /\ s.owner \in {r.owner, Orphan}

Descend(R, S) ==
    /\ S \in SUBSET RowRecords
    /\ \A s, t \in S : s.id = t.id => s = t
    /\ \A s \in S : \E r \in R : Follows(r, s)

Survives(r, S) == \E s \in S : s.id = r.id /\ s.owner = r.owner

LEMMA DescendFinite ==
  ASSUME NEW R, NEW S, IsFiniteSet(R), Descend(R, S)
  PROVE  IsFiniteSet(S) /\ Cardinality(S) <= Cardinality(R)
  <1>. DEFINE f == [s \in S |-> CHOOSE r \in R : Follows(r, s)]
  <1>1. \A s \in S : f[s] \in R /\ Follows(f[s], s)
    BY DEF Descend
  <1>2. \A s, t \in S : f[s] = f[t] => s = t
    BY <1>1 DEF Descend, Follows
  <1>3. f \in [S -> R]
    BY <1>1
  <1>4. DOMAIN f = S
    OBVIOUS
  <1>. HIDE DEF f
  <1>5. f \in Injection(S, R)
    BY <1>2, <1>3, <1>4 DEF Injection, IsInjective
  <1>. QED
    BY <1>5, FS_Injection

\* The rows that take up a host.
OnHost(R, h) == {r \in R : r.host = h /\ r.owner # Orphan}

LEMMA DescendOnHost ==
  ASSUME NEW R, NEW S, NEW h, Descend(R, S)
  PROVE  Descend(OnHost(R, h), OnHost(S, h))
  <1>1. OnHost(S, h) \in SUBSET RowRecords /\ \A s, t \in OnHost(S, h) : s.id = t.id => s = t
    BY DEF Descend, OnHost
  <1>2. ASSUME NEW s \in OnHost(S, h) PROVE \E r \in OnHost(R, h) : Follows(r, s)
    <2>1. s \in S /\ s.host = h /\ s.owner # Orphan
      BY DEF OnHost
    <2>2. PICK r \in R : Follows(r, s)
      BY <2>1 DEF Descend
    <2>3. r \in OnHost(R, h)
      BY <2>1, <2>2 DEF OnHost, Follows
    <2>. QED
      BY <2>2, <2>3
  <1>. QED
    BY <1>1, <1>2 DEF Descend

\* Rows and owners change while the workers and the provider stand still.
LEMMA TablesChange ==
  ASSUME SyncInv, UNCHANGED <<zoom, syncer>>, live' \in BOOLEAN, started' \in BOOLEAN,
         ender' \in Nat, edits' \in Nat, mishaps' \in Nat,
         owner' \in [Owners -> OwnerRecords], OwnersSound',
         \A o \in Owners : owner'[o].exists => owner[o].exists,
         \A w \in Syncers, o \in Owners : syncer[w].owner = o /\ owner'[o].exists =>
             owner'[o].claim = owner[o].claim /\ owner'[o].host = owner[o].host,
         Descend(rows, rows'),
         \A s \in rows' : s.owner \in Owners => owner'[s.owner].exists,
         \A r \in rows : r.owner \in Owners /\ owner'[r.owner].exists => Survives(r, rows')
  PROVE  SyncInv'
  <1>1. IsFiniteSet(rows')
    BY DescendFinite DEF SyncInv, MeetingTypes
  <1>2. MeetingTypes'
    BY <1>1 DEF SyncInv, MeetingTypes, Made, Descend
  <1>3. WorkersHold'
    BY DEF SyncInv, WorkersHold
  <1>4. \A s \in rows' : \E r \in rows : Follows(r, s)
    BY DEF Descend
  <1>5. RowsSound'
    <2>1. \A r, s \in rows' : r.id = s.id => r = s
      BY DEF Descend
    <2>2. ASSUME NEW s \in rows', NEW t \in rows', s.owner = t.owner, s.owner # Orphan PROVE s = t
      <3>1. PICK r \in rows : Follows(r, s)
        BY <1>4
      <3>2. PICK q \in rows : Follows(q, t)
        BY <1>4
      <3>3. r = q
        BY <2>2, <3>1, <3>2 DEF Follows, SyncInv, RowsSound
      <3>. QED
        BY <2>1, <3>1, <3>2, <3>3 DEF Follows
    <2>3. \A s \in rows' : s.id \in DOMAIN zoom'
      BY <1>4 DEF Follows, SyncInv, RowsSound
    <2>. QED
      BY <2>1, <2>2, <2>3 DEF RowsSound
  <1>6. IdsSound'
    <2>1. ASSUME NEW w \in Syncers, NEW s \in rows', s.id = syncer[w].id PROVE s.owner \in {syncer[w].owner, Orphan}
      <3>1. PICK r \in rows : Follows(r, s)
        BY <1>4
      <3>. QED
        BY <2>1, <3>1 DEF Follows, SyncInv, IdsSound
    <2>2. ASSUME NEW w \in Syncers, NEW s \in rows', syncer[w].pc = "add" PROVE s.id # syncer[w].id
      <3>1. PICK r \in rows : Follows(r, s)
        BY <1>4
      <3>. QED
        BY <2>2, <3>1 DEF Follows, SyncInv, IdsSound
    <2>. QED
      BY <2>1, <2>2 DEF SyncInv, IdsSound
  <1>7. StepsSound'
    BY DEF SyncInv, StepsSound
  <1>8. RowsInHand'
    <2>1. ASSUME NEW w \in Syncers, NEW o \in Owners, syncer[w].owner = o, owner'[o].exists
          PROVE  /\ syncer[w].pc \in {"assign", "create", "add"} => RowsOf(o)' = {}
                 /\ syncer[w].pc \in {"delete", "remove"} => \A r \in RowsOf(o)' : r.id = syncer[w].id
                 /\ syncer[w].pc \in {"update", "save"} => \E r \in RowsOf(o)' : r.id = syncer[w].id
      <3>0. owner[o].exists /\ o # Orphan
        BY <2>1, MeetingNames
      <3>1. \A s \in RowsOf(o)' : \E r \in RowsOf(o) : r.id = s.id
        BY <1>4, <3>0 DEF RowsOf, Follows
      <3>2. \A r \in RowsOf(o) : \E s \in RowsOf(o)' : s.id = r.id
        BY <2>1 DEF RowsOf, Survives
      <3>3. /\ syncer[w].pc \in {"assign", "create", "add"} => RowsOf(o) = {}
            /\ syncer[w].pc \in {"delete", "remove"} => \A r \in RowsOf(o) : r.id = syncer[w].id
            /\ syncer[w].pc \in {"update", "save"} => \E r \in RowsOf(o) : r.id = syncer[w].id
        BY <2>1, <3>0 DEF SyncInv, RowsInHand
      <3>. QED
        BY <3>1, <3>2, <3>3
    <2>. QED
      BY <2>1 DEF RowsInHand
  <1>9. ProviderDone'
    BY DEF SyncInv, ProviderDone, ProviderHas
  <1>. QED
    BY <1>2, <1>3, <1>5, <1>6, <1>7, <1>8, <1>9 DEF SyncInv

\* What is shown as synchronized stays so when the row of a settled owner
\* stays, or the owner has none.
LEMMA RowsOfKept ==
  ASSUME NEW o \in Owners, \A s \in rows' : \E r \in rows : Follows(r, s),
         \A r \in RowsOf(o) : Survives(r, rows')
  PROVE  /\ RowsOf(o) = {} => RowsOf(o)' = {}
         /\ \A r \in RowsOf(o) : \E s \in RowsOf(o)' : s.id = r.id
  <1>1. o # Orphan
    BY MeetingNames
  <1>2. RowsOf(o) = {} => RowsOf(o)' = {}
    BY <1>1 DEF RowsOf, Follows
  <1>3. \A r \in RowsOf(o) : \E s \in RowsOf(o)' : s.id = r.id
    BY DEF RowsOf, Survives
  <1>. QED
    BY <1>2, <1>3

LEMMA InSyncStays ==
  ASSUME SyncInv, InSyncIsTrue, UNCHANGED <<live, zoom>>, started => started',
         \A s \in rows' : \E r \in rows : Follows(r, s),
         \A o \in Owners : ~started' /\ Settled(o)' =>
             /\ Settled(o) /\ owner'[o].requested = owner[o].requested /\ owner'[o].content = owner[o].content
             /\ \A r \in RowsOf(o) : Survives(r, rows')
  PROVE  InSyncIsTrue'
  <1>. SUFFICES ASSUME ~started', NEW o \in Owners, Settled(o)'
                PROVE  IF Wanted(o)'
                       THEN \E r \in RowsOf(o)' : ~zoom'[r.id].gone /\ zoom'[r.id].content = owner'[o].content
                       ELSE RowsOf(o)' = {}
    BY DEF InSyncIsTrue
  <1>1. /\ Settled(o) /\ owner'[o].requested = owner[o].requested /\ owner'[o].content = owner[o].content
        /\ \A r \in RowsOf(o) : Survives(r, rows')
    OBVIOUS
  <1>2. /\ RowsOf(o) = {} => RowsOf(o)' = {}
        /\ \A r \in RowsOf(o) : \E s \in RowsOf(o)' : s.id = r.id
    BY <1>1, RowsOfKept
  <1>3. Wanted(o)' <=> Wanted(o)
    BY <1>1 DEF Wanted
  <1>4. IF Wanted(o)
        THEN \E r \in RowsOf(o) : ~zoom[r.id].gone /\ zoom[r.id].content = owner[o].content
        ELSE RowsOf(o) = {}
    BY <1>1 DEF InSyncIsTrue
  <1>. QED
    BY <1>1, <1>2, <1>3, <1>4

\* Rows rewritten one by one, each to a row of the same meeting.
LEMMA Rewritten ==
  ASSUME SyncInv, NEW f \in [rows -> RowRecords], \A r \in rows : Follows(r, f[r]),
         NEW S, S = {f[r] : r \in rows}
  PROVE  /\ Descend(rows, S)
         /\ \A r \in rows : f[r].owner = r.owner => Survives(r, S)
  <1>1. S \in SUBSET RowRecords /\ \A s \in S : \E r \in rows : s = f[r] /\ Follows(r, s)
    OBVIOUS
  <1>2. \A s, t \in S : s.id = t.id => s = t
    BY <1>1 DEF Follows, SyncInv, RowsSound
  <1>3. \A r \in rows : f[r].owner = r.owner => Survives(r, S)
    BY DEF Survives, Follows
  <1>. QED
    BY <1>1, <1>2, <1>3 DEF Descend

\* The same with nothing but the rows changed.
LEMMA OnlyRows ==
  ASSUME SyncInv, InSyncIsTrue, NEW f \in [rows -> RowRecords],
         \A r \in rows : Follows(r, f[r]) /\ f[r].owner = r.owner,
         rows' = {f[r] : r \in rows}, UNCHANGED <<live, started, owner, zoom, syncer>>,
         ender' \in Nat, edits' \in Nat, mishaps' \in Nat
  PROVE  SyncInv' /\ InSyncIsTrue' /\ Descend(rows, rows') /\ \A r \in rows : Survives(r, rows')
  <1>1. Descend(rows, rows') /\ \A r \in rows : Survives(r, rows')
    BY Rewritten
  <1>2. \A s \in rows' : s.owner \in Owners => owner'[s.owner].exists
    BY DEF SyncInv, RowsSound
  <1>3. OwnersSound' /\ owner' \in [Owners -> OwnerRecords] /\ live' \in BOOLEAN /\ started' \in BOOLEAN
    BY DEF SyncInv, OwnersSound, MeetingTypes
  <1>4. SyncInv'
    BY <1>1, <1>2, <1>3, TablesChange
  <1>5. InSyncIsTrue'
    <2>1. \A s \in rows' : \E r \in rows : Follows(r, s)
      BY <1>1 DEF Descend
    <2>2. \A o \in Owners : Settled(o)' => Settled(o)
      BY DEF Settled
    <2>3. \A o \in Owners : \A r \in RowsOf(o) : Survives(r, rows')
      BY <1>1 DEF RowsOf
    <2>. QED
      BY <2>1, <2>2, <2>3, InSyncStays
  <1>. QED
    BY <1>1, <1>4, <1>5

\* A row with another check or claim.
LEMMA RowEdited ==
  ASSUME NEW r \in RowRecords, NEW check \in {"none", "claimed", "done"}, NEW claim \in Syncers \cup {0},
         NEW n, n = [id |-> r.id, owner |-> r.owner, host |-> r.host, claim |-> claim, check |-> check]
  PROVE  n \in RowRecords /\ Follows(r, n) /\ n.owner = r.owner /\ n.claim = claim
  BY DEF RowRecords, Follows

\* One row replaced by an edited one, as a function on the rows.
LEMMA OneRowEdited ==
  ASSUME NEW q \in rows, NEW n, rows \subseteq RowRecords
  PROVE  (rows \ {q}) \cup {n} = {[r \in rows |-> IF r = q THEN n ELSE r][x] : x \in rows}
  OBVIOUS

LEMMA TimePassesSync ==
  ASSUME SyncInv, InSyncIsTrue, TimePasses
  PROVE  SyncInv' /\ InSyncIsTrue'
  <1>1. InSyncIsTrue'
    BY DEF TimePasses, InSyncIsTrue
  <1>2. SyncInv'
    BY DEF TimePasses, SyncInv, MeetingTypes, Made, OwnersSound, WorkersHold, RowsSound, IdsSound, StepsSound,
           RowsInHand, RowsOf, ProviderDone, ProviderHas
  <1>. QED
    BY <1>1, <1>2

LEMMA AutoEndFrame ==
  ASSUME SyncInv, InSyncIsTrue, AutoEnd \/ \E q \in rows : ClaimForAutoEnd(q)
  PROVE  /\ SyncInv' /\ InSyncIsTrue' /\ Descend(rows, rows')
         /\ \A r \in rows : \E s \in rows' : s.id = r.id /\ s.owner = r.owner /\ s.claim = r.claim
  <1>0. /\ rows \subseteq RowRecords /\ mishaps \in Nat /\ mishaps + 1 \in Nat /\ edits \in Nat /\ ender \in Nat
        /\ \A r \in rows : r.id \in Nat /\ r.claim \in Syncers \cup {0} /\ r.check \in {"none", "claimed", "done"}
    BY DEF SyncInv, MeetingTypes, RowRecords
  <1>1. ASSUME NEW q \in rows, ClaimForAutoEnd(q)
        PROVE  /\ SyncInv' /\ InSyncIsTrue' /\ Descend(rows, rows')
               /\ \A r \in rows : \E s \in rows' : s.id = r.id /\ s.owner = r.owner /\ s.claim = r.claim
    <2>. DEFINE n == [q EXCEPT !.check = "claimed"]
                f == [r \in rows |-> IF r = q THEN n ELSE r]
    <2>1. n = [id |-> q.id, owner |-> q.owner, host |-> q.host, claim |-> q.claim, check |-> "claimed"]
      BY <1>0 DEF RowRecords
    <2>2. n \in RowRecords /\ Follows(q, n) /\ n.owner = q.owner /\ n.claim = q.claim
      <3>. HIDE DEF n
      <3>1. q \in RowRecords /\ q.claim \in Syncers \cup {0}
        BY <1>0
      <3>. QED
        BY <2>1, <3>1, RowEdited
    <2>3. rows' = {f[r] : r \in rows} /\ UNCHANGED <<live, started, owner, zoom, syncer, edits, mishaps>> /\ ender' = q.id
      BY <1>0, <1>1, OneRowEdited DEF ClaimForAutoEnd
    <2>. HIDE DEF n
    <2>4. f \in [rows -> RowRecords]
      BY <1>0, <2>2
    <2>5. \A r \in rows : Follows(r, f[r]) /\ f[r].owner = r.owner /\ f[r].claim = r.claim
      BY <2>2 DEF Follows
    <2>. HIDE DEF f
    <2>6. SyncInv' /\ InSyncIsTrue' /\ Descend(rows, rows')
      BY <1>0, <2>3, <2>4, <2>5, OnlyRows
    <2>. QED
      BY <2>3, <2>5, <2>6 DEF Follows
  <1>2. CASE AutoEnd
    <2>1. PICK check \in {"done", "none", "claimed"} :
             /\ rows' = {[r EXCEPT !.check = IF r.id = ender /\ @ = "claimed" THEN check ELSE @] : r \in rows}
             /\ mishaps' = IF check = "claimed" THEN mishaps + 1 ELSE mishaps
      BY <1>2 DEF AutoEnd
    <2>. DEFINE f == [r \in rows |-> [r EXCEPT !.check = IF r.id = ender /\ @ = "claimed" THEN check ELSE @]]
    <2>2. ASSUME NEW r \in rows
          PROVE  f[r] \in RowRecords /\ Follows(r, f[r]) /\ f[r].owner = r.owner /\ f[r].claim = r.claim
      <3>1. r \in RowRecords
        BY <1>0
      <3>. DEFINE c == IF r.id = ender /\ r.check = "claimed" THEN check ELSE r.check
      <3>2. f[r] = [id |-> r.id, owner |-> r.owner, host |-> r.host, claim |-> r.claim, check |-> c]
        BY <3>1 DEF RowRecords
      <3>3. c \in {"none", "claimed", "done"} /\ r.claim \in Syncers \cup {0}
        BY <1>0
      <3>. HIDE DEF f, c
      <3>. QED
        BY <3>1, <3>2, <3>3, RowEdited
    <2>3. rows' = {f[r] : r \in rows}
      BY <2>1
    <2>4. f \in [rows -> RowRecords]
      BY <2>2
    <2>5. UNCHANGED <<live, started, owner, zoom, syncer, edits>> /\ ender' = 0 /\ mishaps' \in Nat
      BY <1>0, <1>2, <2>1 DEF AutoEnd
    <2>. HIDE DEF f
    <2>6. SyncInv' /\ InSyncIsTrue' /\ Descend(rows, rows')
      BY <1>0, <2>2, <2>3, <2>4, <2>5, OnlyRows
    <2>. QED
      BY <2>2, <2>3, <2>6 DEF Follows
  <1>. QED
    BY <1>1, <1>2

LEMMA SetLiveSync ==
  ASSUME SyncInv, InSyncIsTrue, NEW value \in BOOLEAN, SetLive(value)
  PROVE  SyncInv' /\ InSyncIsTrue'
  <1>0. /\ owner \in [Owners -> OwnerRecords] /\ edits \in Nat /\ edits' \in Nat /\ live' \in BOOLEAN
        /\ UNCHANGED <<started, rows, zoom, syncer, ender, mishaps>>
    BY DEF SetLive, SyncInv, MeetingTypes
  <1>1. /\ owner' \in [Owners -> OwnerRecords]
        /\ \A o \in Owners : /\ owner'[o].exists = owner[o].exists /\ owner'[o].requested = owner[o].requested
                            /\ owner'[o].claim = owner[o].claim /\ owner'[o].host = owner[o].host
                            /\ owner'[o].content = owner[o].content /\ owner'[o].error = owner[o].error
                            /\ owner'[o].sync = IF owner[o].exists /\ owner[o].requested THEN "no" ELSE owner[o].sync
    BY <1>0 DEF SetLive, OwnerRecords
  <1>2. OwnersSound'
    BY <1>1 DEF SyncInv, OwnersSound
  <1>3. Descend(rows, rows')
    BY <1>0 DEF Descend, Follows, SyncInv, RowsSound, MeetingTypes
  <1>4. \A r \in rows : Survives(r, rows') /\ (r.owner \in Owners => owner'[r.owner].exists)
    BY <1>0, <1>1 DEF Survives, SyncInv, RowsSound
  <1>5. started \in BOOLEAN /\ ender \in Nat /\ mishaps \in Nat
    BY DEF SyncInv, MeetingTypes
  <1>6. SyncInv'
    BY <1>0, <1>1, <1>2, <1>3, <1>4, <1>5, TablesChange
  <1>7. InSyncIsTrue'
    <2>. SUFFICES ASSUME ~started', NEW o \in Owners, Settled(o)'
                  PROVE  ~Wanted(o)' /\ RowsOf(o)' = {}
      BY DEF InSyncIsTrue
    <2>1. ~owner[o].requested /\ Settled(o)
      BY <1>1 DEF Settled
    <2>. QED
      BY <1>0, <1>1, <2>1 DEF InSyncIsTrue, Wanted, RowsOf
  <1>. QED
    BY <1>6, <1>7

\* A save keeps the claim, never hides claimed work, and leaves an owner in
\* sync only when it was and nothing changed.
LEMMA SavedFacts ==
  ASSUME SyncInv, NEW o \in Owners, owner[o].exists, NEW requested \in BOOLEAN, NEW changed \in BOOLEAN,
         NEW n, n = Saved(o, requested, changed)
  PROVE  /\ n \in OwnerRecords /\ n.exists /\ n.requested = requested
         /\ n.claim = owner[o].claim /\ n.host = owner[o].host /\ n.error = owner[o].error
         /\ n.sync = InSync(o, requested, changed)
         /\ n.claim # 0 => n.sync # "yes"
         /\ requested => n.sync # "null"
         /\ ~started /\ n.sync = "yes" => owner[o].sync = "yes" /\ owner[o].requested = requested /\ n.content = owner[o].content
  <1>0. /\ owner[o] \in OwnerRecords /\ owner[o].requested \in BOOLEAN /\ owner[o].content \in {0, 1}
        /\ owner[o].sync \in {"yes", "no", "null"}
    BY DEF SyncInv, MeetingTypes, OwnerRecords
  <1>. DEFINE c == IF changed THEN 1 - owner[o].content ELSE owner[o].content
              y == InSync(o, requested, changed)
  <1>1. c \in {0, 1} /\ y \in {"yes", "no", "null"} /\ (~changed => c = owner[o].content)
    BY <1>0 DEF InSync
  <1>2. n = [owner[o] EXCEPT !.requested = requested, !.sync = y, !.content = c]
    BY DEF Saved
  <1>3. /\ owner[o].claim # 0 => owner[o].sync # "yes"
        /\ owner[o].requested => owner[o].sync # "null"
    BY DEF SyncInv, OwnersSound
  <1>4. owner[o].claim # 0 => y # "yes"
    BY <1>0, <1>3 DEF InSync
  <1>5. requested => y # "null"
    BY DEF InSync
  <1>6. ~started /\ y = "yes" => owner[o].sync = "yes" /\ owner[o].requested = requested /\ ~changed
    BY <1>0, <1>3 DEF InSync
  <1>. HIDE DEF c, y
  <1>7. /\ n \in OwnerRecords /\ n.exists = owner[o].exists /\ n.requested = requested /\ n.sync = y /\ n.content = c
        /\ n.claim = owner[o].claim /\ n.host = owner[o].host /\ n.error = owner[o].error
    BY <1>0, <1>1, <1>2 DEF OwnerRecords
  <1>. QED
    BY <1>1, <1>4, <1>5, <1>6, <1>7 DEF y

Present == {p \in Owners : owner[p].exists}

\* A removed owner's record.
Gone(p) == [owner[p] EXCEPT !.exists = FALSE, !.sync = "null", !.claim = 0, !.host = NoHost, !.requested = FALSE]

LEMMA GoneFacts ==
  ASSUME SyncInv, NEW p \in Owners, NEW n, n = Gone(p)
  PROVE  n \in OwnerRecords /\ ~n.exists /\ n.sync = "null" /\ n.claim = 0 /\ n.host = NoHost /\ ~n.requested
  <1>1. owner[p] \in OwnerRecords
    BY DEF SyncInv, MeetingTypes
  <1>. QED
    BY <1>1 DEF Gone, OwnerRecords

LEMMA UpdateEventOwners ==
  ASSUME SyncInv, NEW o \in Owners, NEW requested \in BOOLEAN, NEW changed \in BOOLEAN,
         NEW removed \in SUBSET Sessions, UpdateEvent(o, requested, changed, removed)
  PROVE  /\ o \in Present /\ o \notin removed /\ removed \subseteq Present
         /\ DOMAIN owner' = Owners /\ owner' = [p \in Owners |-> owner'[p]]
         /\ \A p \in removed : owner'[p] = Gone(p)
         /\ owner'[o] = Saved(o, requested, changed)
         /\ \A p \in Present \ (removed \cup {o}) : owner'[p] = Saved(p, owner[p].requested, FALSE)
         /\ \A p \in Owners \ Present : owner'[p] = owner[p]
  <1>1. owner' = [p \in Owners |->
         CASE p \in removed -> Gone(p)
           [] p = o -> Saved(p, requested, changed)
           [] p \in Present \ (removed \cup {o}) -> Saved(p, owner[p].requested, FALSE)
           [] OTHER -> owner[p]]
    BY DEF UpdateEvent, Gone, Present
  <1>2. o \in Present /\ o \notin removed /\ removed \subseteq Present
    BY DEF UpdateEvent, Present
  <1>3. DOMAIN owner' = Owners /\ owner' = [p \in Owners |-> owner'[p]]
    BY <1>1
  <1>4. \A p \in removed : p \in Owners
    BY DEF Owners
  <1>5. ASSUME NEW p \in removed PROVE owner'[p] = Gone(p)
    BY <1>1, <1>2, <1>4
  <1>6. owner'[o] = Saved(o, requested, changed)
    BY <1>1, <1>2
  <1>7. \A p \in Present \ (removed \cup {o}) : owner'[p] = Saved(p, owner[p].requested, FALSE)
    BY <1>1 DEF Present
  <1>8. \A p \in Owners \ Present : owner'[p] = owner[p]
    BY <1>1, <1>2 DEF Present
  <1>. QED
    BY <1>2, <1>3, <1>5, <1>6, <1>7, <1>8

\* Each owner was saved with some form, removed, or already gone.
LEMMA UpdateEventOwner ==
  ASSUME SyncInv, NEW o \in Owners, NEW requested \in BOOLEAN, NEW changed \in BOOLEAN,
         NEW removed \in SUBSET Sessions, UpdateEvent(o, requested, changed, removed), NEW p \in Owners
  PROVE  \/ p \in removed /\ owner[p].exists /\ owner'[p] = Gone(p)
         \/ p \notin removed /\ ~owner[p].exists /\ owner'[p] = owner[p]
         \/ p \notin removed /\ owner[p].exists /\ \E q, c \in BOOLEAN : owner'[p] = Saved(p, q, c)
  <1>1. /\ o \in Present /\ o \notin removed /\ removed \subseteq Present
        /\ \A x \in removed : owner'[x] = Gone(x)
        /\ owner'[o] = Saved(o, requested, changed)
        /\ \A x \in Present \ (removed \cup {o}) : owner'[x] = Saved(x, owner[x].requested, FALSE)
        /\ \A x \in Owners \ Present : owner'[x] = owner[x]
    BY ZenonT(40), UpdateEventOwners
  <1>3. owner[p].requested \in BOOLEAN
    BY DEF SyncInv, MeetingTypes, OwnerRecords
  <1>4. CASE p \in removed
    BY <1>1, <1>4 DEF Present
  <1>5. CASE p = o
    <2>1. owner[p].exists /\ p \notin removed /\ owner'[p] = Saved(p, requested, changed)
      BY <1>1, <1>5 DEF Present
    <2>. QED
      BY <2>1
  <1>6. CASE p \in Present \ (removed \cup {o})
    <2>1. owner[p].exists /\ p \notin removed /\ owner'[p] = Saved(p, owner[p].requested, FALSE)
      BY <1>1, <1>6 DEF Present
    <2>. QED
      BY <1>3, <2>1
  <1>7. CASE p \in Owners \ Present
    BY <1>1, <1>7 DEF Present
  <1>. QED
    BY <1>4, <1>5, <1>6, <1>7

\* The rows of removed sessions are orphaned and no other.
LEMMA OrphanedRows ==
  ASSUME SyncInv, NEW removed \in SUBSET Sessions
  PROVE  /\ Descend(rows, Orphaned(removed))
         /\ \A s \in Orphaned(removed) : s.owner \notin removed
         /\ \A r \in rows : r.owner \notin removed => r \in Orphaned(removed)
         /\ \A r \in rows : \E s \in Orphaned(removed) : s.id = r.id
  <1>. DEFINE f == [r \in rows |-> [r EXCEPT !.owner = IF @ \in removed THEN Orphan ELSE @]]
  <1>0. rows \subseteq RowRecords /\ Orphan \notin removed
    BY MeetingNames DEF SyncInv, MeetingTypes, Owners
  <1>1. ASSUME NEW r \in rows
        PROVE  /\ f[r] \in RowRecords /\ Follows(r, f[r]) /\ f[r].owner \notin removed
               /\ r.owner \notin removed => f[r] = r
    <2>1. r \in RowRecords
      BY <1>0
    <2>2. f[r] = [id |-> r.id, owner |-> IF r.owner \in removed THEN Orphan ELSE r.owner, host |-> r.host,
                  claim |-> r.claim, check |-> r.check]
      BY <2>1 DEF RowRecords
    <2>3. r = [id |-> r.id, owner |-> r.owner, host |-> r.host, claim |-> r.claim, check |-> r.check]
      BY <2>1 DEF RowRecords
    <2>. HIDE DEF f
    <2>. QED
      BY <1>0, <2>1, <2>2, <2>3 DEF RowRecords, Follows
  <1>2. Orphaned(removed) = {f[r] : r \in rows}
    BY DEF Orphaned
  <1>3. f \in [rows -> RowRecords]
    BY <1>1
  <1>. HIDE DEF f
  <1>4. Descend(rows, Orphaned(removed))
    BY <1>1, <1>2, <1>3, Rewritten
  <1>. QED
    BY <1>1, <1>2, <1>4 DEF Follows

LEMMA UpdateEventSync ==
  ASSUME SyncInv, InSyncIsTrue, NEW o \in Owners, NEW requested \in BOOLEAN, NEW changed \in BOOLEAN,
         NEW removed \in SUBSET Sessions, UpdateEvent(o, requested, changed, removed)
  PROVE  SyncInv' /\ InSyncIsTrue'
  <1>9. mishaps' = mishaps
    BY DEF UpdateEvent
  <1>10. edits' = edits + 1 /\ UNCHANGED <<live, started, zoom, syncer, ender>> /\ rows' = Orphaned(removed)
    BY DEF UpdateEvent
  <1>0. /\ UNCHANGED <<live, started, zoom, syncer, ender>> /\ edits' \in Nat /\ mishaps' \in Nat /\ ender \in Nat
        /\ live \in BOOLEAN /\ started \in BOOLEAN /\ rows' = Orphaned(removed)
    BY <1>9, <1>10 DEF SyncInv, MeetingTypes
  <1>1. ASSUME NEW p \in Owners
        PROVE  /\ owner'[p] \in OwnerRecords
               /\ ~owner'[p].exists => owner'[p].claim = 0 /\ ~owner'[p].requested
               /\ owner'[p].claim # 0 => owner'[p].sync # "yes"
               /\ owner'[p].exists /\ owner'[p].requested => owner'[p].sync # "null"
               /\ owner'[p].claim = 0 => owner'[p].host = NoHost
               /\ owner'[p].exists => owner[p].exists /\ owner'[p].claim = owner[p].claim /\ owner'[p].host = owner[p].host
               /\ owner'[p].exists <=> owner[p].exists /\ p \notin removed
               /\ ~started /\ owner'[p].exists /\ owner'[p].sync = "yes" =>
                     /\ owner[p].sync = "yes" /\ owner[p].error = owner'[p].error
                     /\ owner'[p].requested = owner[p].requested /\ owner'[p].content = owner[p].content
    <2>0. /\ owner[p] \in OwnerRecords
          /\ ~owner[p].exists => owner[p].claim = 0 /\ ~owner[p].requested
          /\ owner[p].claim = 0 => owner[p].host = NoHost
      BY DEF SyncInv, MeetingTypes, OwnersSound
    <2>1. CASE p \in removed /\ owner[p].exists /\ owner'[p] = Gone(p)
      BY <2>1, GoneFacts
    <2>2. CASE p \notin removed /\ ~owner[p].exists /\ owner'[p] = owner[p]
      BY <2>0, <2>2
    <2>3. ASSUME p \notin removed, owner[p].exists, NEW q \in BOOLEAN, NEW c \in BOOLEAN, owner'[p] = Saved(p, q, c)
          PROVE  /\ owner'[p] \in OwnerRecords
                 /\ owner'[p].exists
                 /\ owner'[p].claim # 0 => owner'[p].sync # "yes"
                 /\ owner'[p].requested => owner'[p].sync # "null"
                 /\ owner'[p].claim = owner[p].claim /\ owner'[p].host = owner[p].host
                 /\ ~started /\ owner'[p].sync = "yes" =>
                       /\ owner[p].sync = "yes" /\ owner[p].error = owner'[p].error
                       /\ owner'[p].requested = owner[p].requested /\ owner'[p].content = owner[p].content
      BY <2>3, SavedFacts
    <2>. QED
      BY <2>0, <2>1, <2>2, <2>3, UpdateEventOwner
  <1>2. owner' \in [Owners -> OwnerRecords]
    BY <1>1, UpdateEventOwners
  <1>3. OwnersSound'
    BY <1>1 DEF OwnersSound
  <1>4. /\ Descend(rows, rows') /\ (\A s \in rows' : s.owner \notin removed)
        /\ \A r \in rows : r.owner \notin removed => r \in rows'
    BY <1>0, OrphanedRows
  <1>5. \A s \in rows' : s.owner \in Owners => owner'[s.owner].exists
    <2>1. ASSUME NEW s \in rows', s.owner \in Owners PROVE owner'[s.owner].exists
      <3>1. PICK r \in rows : Follows(r, s)
        BY <1>4 DEF Descend
      <3>2. r.owner = s.owner /\ owner[s.owner].exists
        BY <2>1, <3>1, MeetingNames DEF Follows, SyncInv, RowsSound
      <3>. QED
        BY <1>1, <1>4, <2>1, <3>2
    <2>. QED
      BY <2>1
  <1>6. \A r \in rows : r.owner \in Owners /\ owner'[r.owner].exists => Survives(r, rows')
    BY <1>1, <1>4 DEF Survives
  <1>7. SyncInv'
    BY <1>0, <1>1, <1>2, <1>3, <1>4, <1>5, <1>6, TablesChange
  <1>8. InSyncIsTrue'
    <2>1. \A s \in rows' : \E r \in rows : Follows(r, s)
      BY <1>4 DEF Descend
    <2>2. ASSUME NEW p \in Owners, ~started', Settled(p)'
          PROVE  /\ Settled(p) /\ owner'[p].requested = owner[p].requested /\ owner'[p].content = owner[p].content
                 /\ \A r \in RowsOf(p) : Survives(r, rows')
      <3>1. Settled(p) /\ owner'[p].requested = owner[p].requested /\ owner'[p].content = owner[p].content
        BY <1>0, <1>1, <2>2 DEF Settled
      <3>2. \A r \in RowsOf(p) : Survives(r, rows')
        BY <1>6, <2>2 DEF RowsOf, Settled
      <3>. QED
        BY <3>1, <3>2
    <2>. QED
      BY <1>0, <2>1, <2>2, InSyncStays
  <1>. QED
    BY <1>7, <1>8

\* The owners and rows that recovery changes.
LEMMA MarkStaleFrame ==
  ASSUME SyncInv, MarkStaleClaims
  PROVE  /\ UNCHANGED <<live, started, zoom, syncer, ender, edits, mishaps>>
         /\ owner' \in [Owners -> OwnerRecords]
         /\ \A o \in Owners :
               \/ owner'[o] = owner[o]
               \/ /\ owner[o].claim # 0 /\ \A w \in Syncers : owner[o].exists => syncer[w].owner # o
                  /\ owner'[o].claim = 0 /\ owner'[o].host = NoHost /\ owner'[o].sync = "yes" /\ owner'[o].error = "unknown"
                  /\ owner'[o].exists = owner[o].exists /\ owner'[o].requested = owner[o].requested
         /\ Descend(rows, rows')
         /\ \A r \in rows : \E s \in rows' : s.id = r.id /\ s.owner = r.owner /\ (s.claim = r.claim \/ AbandonedOrphan(r))
  <1>. DEFINE stale == {o \in Owners : Abandoned(o, owner[o].claim)}
              checks == {r \in rows : r.check = "claimed" /\ r.id # ender}
              orphans == {r \in rows : AbandonedOrphan(r)}
              f == [r \in rows |-> [r EXCEPT !.check = IF r \in checks THEN "done" ELSE @,
                                             !.claim = IF r \in orphans THEN 0 ELSE @]]
  <1>0. /\ owner \in [Owners -> OwnerRecords] /\ rows \subseteq RowRecords
        /\ \A r \in rows : r.claim \in Syncers \cup {0} /\ r.check \in {"none", "claimed", "done"}
    BY DEF SyncInv, MeetingTypes, RowRecords
  <1>1. /\ UNCHANGED <<live, started, zoom, syncer, ender, edits, mishaps>>
        /\ owner' = [o \in Owners |-> IF o \in stale THEN [SyncReleased(o) EXCEPT !.sync = "yes", !.error = "unknown"]
                                                     ELSE owner[o]]
        /\ rows' = {f[r] : r \in rows}
    BY DEF MarkStaleClaims
  <1>2. ASSUME NEW r \in rows
        PROVE  /\ f[r] \in RowRecords /\ Follows(r, f[r]) /\ f[r].owner = r.owner
               /\ f[r].claim = r.claim \/ AbandonedOrphan(r)
    <2>. DEFINE check == IF r \in checks THEN "done" ELSE r.check
                claim == IF r \in orphans THEN 0 ELSE r.claim
    <2>1. r \in RowRecords
      BY <1>0
    <2>2. f[r] = [id |-> r.id, owner |-> r.owner, host |-> r.host, claim |-> claim, check |-> check]
      BY <2>1 DEF RowRecords
    <2>3. check \in {"none", "claimed", "done"} /\ claim \in Syncers \cup {0} /\ (claim = r.claim \/ AbandonedOrphan(r))
      BY <1>0
    <2>. HIDE DEF f, check, claim
    <2>. QED
      BY <2>1, <2>2, <2>3, RowEdited
  <1>3. f \in [rows -> RowRecords]
    BY <1>2
  <1>. HIDE DEF f
  <1>4. Descend(rows, rows')
    BY <1>1, <1>2, <1>3, Rewritten
  <1>5. \A r \in rows : \E s \in rows' : s.id = r.id /\ s.owner = r.owner /\ (s.claim = r.claim \/ AbandonedOrphan(r))
    BY <1>1, <1>2 DEF Follows
  <1>6. ASSUME NEW o \in Owners
        PROVE  /\ owner'[o] \in OwnerRecords
               /\ \/ owner'[o] = owner[o]
                  \/ /\ o \in stale
                     /\ owner'[o].claim = 0 /\ owner'[o].host = NoHost /\ owner'[o].sync = "yes" /\ owner'[o].error = "unknown"
                     /\ owner'[o].exists = owner[o].exists /\ owner'[o].requested = owner[o].requested
    <2>. HIDE DEF stale
    <2>1. CASE o \in stale
      <3>1. owner'[o] = [SyncReleased(o) EXCEPT !.sync = "yes", !.error = "unknown"]
        BY <1>1, <2>1
      <3>2. owner[o] \in OwnerRecords
        BY <1>0
      <3>. QED
        BY <2>1, <3>1, <3>2 DEF SyncReleased, OwnerRecords
    <2>2. CASE o \notin stale
      BY <1>0, <1>1, <2>2
    <2>. QED
      BY <2>1, <2>2
  <1>7. ASSUME NEW o \in stale PROVE owner[o].claim # 0 /\ \A w \in Syncers : owner[o].exists => syncer[w].owner # o
    BY DEF Abandoned, SyncInv, WorkersHold
  <1>8. owner' \in [Owners -> OwnerRecords]
    BY <1>1, <1>6
  <1>. HIDE DEF stale, checks, orphans
  <1>9. \A o \in Owners :
               \/ owner'[o] = owner[o]
               \/ /\ owner[o].claim # 0 /\ \A w \in Syncers : owner[o].exists => syncer[w].owner # o
                  /\ owner'[o].claim = 0 /\ owner'[o].host = NoHost /\ owner'[o].sync = "yes" /\ owner'[o].error = "unknown"
                  /\ owner'[o].exists = owner[o].exists /\ owner'[o].requested = owner[o].requested
    BY <1>6, <1>7
  <1>. QED
    BY <1>1, <1>4, <1>5, <1>8, <1>9

LEMMA MarkStaleSync ==
  ASSUME SyncInv, InSyncIsTrue, MarkStaleClaims
  PROVE  SyncInv' /\ InSyncIsTrue'
  <1>1. /\ UNCHANGED <<live, started, zoom, syncer, ender, edits, mishaps>>
        /\ owner' \in [Owners -> OwnerRecords] /\ Descend(rows, rows')
        /\ \A r \in rows : Survives(r, rows')
    BY MarkStaleFrame DEF Survives
  <1>2. \A o \in Owners :
               \/ owner'[o] = owner[o]
               \/ /\ owner[o].claim # 0 /\ \A w \in Syncers : owner[o].exists => syncer[w].owner # o
                  /\ owner'[o].claim = 0 /\ owner'[o].host = NoHost /\ owner'[o].sync = "yes" /\ owner'[o].error = "unknown"
                  /\ owner'[o].exists = owner[o].exists /\ owner'[o].requested = owner[o].requested
    BY MarkStaleFrame
  <1>3. OwnersSound'
    BY <1>2 DEF SyncInv, OwnersSound
  <1>4. \A o \in Owners : owner'[o].exists = owner[o].exists
    BY <1>2
  <1>5. \A s \in rows' : s.owner \in Owners => owner'[s.owner].exists
    BY <1>1, <1>4, MeetingNames DEF Descend, Follows, SyncInv, RowsSound
  <1>6. live \in BOOLEAN /\ started \in BOOLEAN /\ ender \in Nat /\ edits \in Nat /\ mishaps \in Nat
    BY DEF SyncInv, MeetingTypes
  <1>7. \A w \in Syncers, o \in Owners : syncer[w].owner = o /\ owner'[o].exists =>
             owner'[o].claim = owner[o].claim /\ owner'[o].host = owner[o].host
    BY <1>2, <1>4
  <1>8. SyncInv'
    BY <1>1, <1>3, <1>4, <1>5, <1>6, <1>7, TablesChange
  <1>9. InSyncIsTrue'
    <2>1. \A s \in rows' : \E r \in rows : Follows(r, s)
      BY <1>1 DEF Descend
    <2>2. \A o \in Owners : Settled(o)' => owner'[o] = owner[o]
      BY <1>2 DEF Settled
    <2>3. \A o \in Owners : \A r \in RowsOf(o) : Survives(r, rows')
      BY <1>1 DEF RowsOf
    <2>4. \A o \in Owners : Settled(o)' => Settled(o)
      BY <2>2 DEF Settled
    <2>. QED
      BY <1>1, <2>1, <2>2, <2>3, <2>4, InSyncStays
  <1>. QED
    BY <1>8, <1>9

LEMMA ClaimOrphanFrame ==
  ASSUME SyncInv, NEW w \in Syncers, NEW q \in rows, ClaimOrphan(w, q)
  PROVE  /\ UNCHANGED <<live, started, owner, zoom, ender, edits, mishaps>>
         /\ syncer[w] = IdleSyncer /\ q.owner = Orphan /\ q.claim = 0
         /\ syncer' \in [Syncers -> SyncerRecords] /\ \A v \in Syncers : v # w => syncer'[v] = syncer[v]
         /\ syncer'[w].pc = "delete" /\ syncer'[w].id = q.id /\ syncer'[w].owner = Orphan /\ syncer'[w].host = NoHost
         /\ Descend(rows, rows')
         /\ \A r \in rows : \E s \in rows' : s.id = r.id /\ s.owner = r.owner
                                           /\ s.claim = IF r = q THEN w ELSE r.claim
  <1>. DEFINE n == [q EXCEPT !.claim = w]
              f == [r \in rows |-> IF r = q THEN n ELSE r]
  <1>0. /\ rows \subseteq RowRecords /\ syncer \in [Syncers -> SyncerRecords]
        /\ q \in RowRecords /\ q.check \in {"none", "claimed", "done"} /\ q.id \in Nat
    BY DEF SyncInv, MeetingTypes, RowRecords
  <1>1. n = [id |-> q.id, owner |-> q.owner, host |-> q.host, claim |-> w, check |-> q.check]
    BY <1>0 DEF RowRecords
  <1>2. rows' = {f[r] : r \in rows}
    BY <1>0, OneRowEdited DEF ClaimOrphan
  <1>. HIDE DEF n
  <1>3. n \in RowRecords /\ Follows(q, n) /\ n.owner = q.owner /\ n.claim = w
    BY <1>0, <1>1, RowEdited
  <1>4. f \in [rows -> RowRecords]
    BY <1>0, <1>3
  <1>5. \A r \in rows : Follows(r, f[r]) /\ f[r].owner = r.owner /\ f[r].claim = IF r = q THEN w ELSE r.claim
    BY <1>3 DEF Follows
  <1>. HIDE DEF f
  <1>6. Descend(rows, rows')
    BY <1>2, <1>4, <1>5, Rewritten
  <1>7. \A r \in rows : \E s \in rows' : s.id = r.id /\ s.owner = r.owner /\ s.claim = IF r = q THEN w ELSE r.claim
    BY <1>2, <1>5 DEF Follows
  <1>8. /\ UNCHANGED <<live, started, owner, zoom, ender, edits, mishaps>>
        /\ syncer[w] = IdleSyncer /\ q.owner = Orphan /\ q.claim = 0
        /\ syncer' = [syncer EXCEPT ![w] = [IdleSyncer EXCEPT !.pc = "delete", !.action = "delete", !.id = q.id]]
    BY DEF ClaimOrphan, SyncInv, WorkersHold
  <1>. DEFINE rec == [IdleSyncer EXCEPT !.pc = "delete", !.action = "delete", !.id = q.id]
  <1>9. rec \in SyncerRecords /\ rec.pc = "delete" /\ rec.id = q.id /\ rec.owner = Orphan /\ rec.host = NoHost
    BY <1>0, IdleTyped DEF SyncerRecords, SyncerSteps
  <1>. HIDE DEF rec
  <1>10. syncer' \in [Syncers -> SyncerRecords] /\ syncer'[w] = rec /\ \A v \in Syncers : v # w => syncer'[v] = syncer[v]
    BY <1>0, <1>8, <1>9 DEF rec
  <1>. QED
    BY <1>6, <1>7, <1>8, <1>9, <1>10

LEMMA ClaimOrphanSync ==
  ASSUME SyncInv, InSyncIsTrue, NEW w \in Syncers, NEW q \in rows, ClaimOrphan(w, q)
  PROVE  SyncInv' /\ InSyncIsTrue'
  <1>1. /\ UNCHANGED <<live, started, owner, zoom, ender, edits, mishaps>>
        /\ syncer[w] = IdleSyncer /\ q.owner = Orphan
        /\ syncer' \in [Syncers -> SyncerRecords] /\ \A v \in Syncers : v # w => syncer'[v] = syncer[v]
        /\ syncer'[w].pc = "delete" /\ syncer'[w].id = q.id /\ syncer'[w].owner = Orphan /\ syncer'[w].host = NoHost
        /\ Descend(rows, rows') /\ \A r \in rows : Survives(r, rows')
    BY ClaimOrphanFrame DEF Survives
  <1>2. /\ \A s \in rows' : \E r \in rows : r.id = s.id /\ s.owner \in {r.owner, Orphan}
        /\ \A s, t \in rows' : s.id = t.id => s = t
        /\ rows' \subseteq RowRecords
    BY <1>1 DEF Descend, Follows
  <1>3. IsFiniteSet(rows')
    BY <1>1, DescendFinite DEF SyncInv, MeetingTypes
  <1>4. MeetingTypes' /\ OwnersSound'
    BY <1>1, <1>2, <1>3 DEF SyncInv, MeetingTypes, Made, OwnersSound
  <1>5. WorkersHold'
    BY <1>1, MeetingNames DEF SyncInv, WorkersHold
  <1>6. RowsSound'
    <2>1. ASSUME NEW s \in rows', NEW t \in rows', s.owner = t.owner, s.owner # Orphan PROVE s = t
      <3>1. PICK r \in rows : r.id = s.id /\ r.owner = s.owner
        BY <1>2, <2>1
      <3>2. PICK p \in rows : p.id = t.id /\ p.owner = t.owner
        BY <1>2, <2>1
      <3>3. r = p
        BY <2>1, <3>1, <3>2 DEF SyncInv, RowsSound
      <3>. QED
        BY <1>2, <3>1, <3>2, <3>3
    <2>2. ASSUME NEW s \in rows' PROVE s.id \in DOMAIN zoom' /\ (s.owner \in Owners => owner'[s.owner].exists)
      BY <1>1, <1>2, MeetingNames DEF SyncInv, RowsSound
    <2>. QED
      BY <1>2, <2>1, <2>2 DEF RowsSound
  <1>7. q.id \in DOMAIN zoom /\ q.id # 0 /\ \A r \in rows : r.id = q.id => r.owner = Orphan
    BY <1>1 DEF SyncInv, RowsSound, MeetingTypes
  <1>8. IdsSound'
    <2>1. ASSUME NEW v \in Syncers
          PROVE  /\ syncer'[v].id = 0 \/ syncer'[v].id \in DOMAIN zoom'
                 /\ \A s \in rows' : s.id = syncer'[v].id => s.owner \in {syncer'[v].owner, Orphan}
      <3>1. CASE v = w
        BY <1>1, <1>2, <1>7, <3>1
      <3>2. CASE v # w
        BY <1>1, <1>2, <3>2 DEF SyncInv, IdsSound
      <3>. QED
        BY <3>1, <3>2
    <2>2. ASSUME NEW v \in Syncers, syncer'[v].pc = "add"
          PROVE  /\ syncer'[v].id # 0
                 /\ \A s \in rows' : s.id # syncer'[v].id
                 /\ \A u \in Syncers \ {v} : syncer'[u].id # syncer'[v].id
      <3>1. v # w /\ syncer'[v] = syncer[v]
        BY <1>1, <2>2
      <3>2. /\ syncer[v].id # 0 /\ (\A r \in rows : r.id # syncer[v].id)
            /\ \A u \in Syncers \ {v} : syncer[u].id # syncer[v].id
        BY <2>2, <3>1 DEF SyncInv, IdsSound
      <3>. QED
        BY <1>1, <1>2, <3>1, <3>2
    <2>. QED
      BY <2>1, <2>2 DEF IdsSound
  <1>9. StepsSound'
    BY <1>1, <1>7, MeetingNames DEF SyncInv, StepsSound
  <1>10. RowsInHand'
    <2>1. ASSUME NEW v \in Syncers, NEW o \in Owners, syncer'[v].owner = o, owner'[o].exists
          PROVE  /\ syncer'[v].pc \in {"assign", "create", "add"} => RowsOf(o)' = {}
                 /\ syncer'[v].pc \in {"delete", "remove"} => \A r \in RowsOf(o)' : r.id = syncer'[v].id
                 /\ syncer'[v].pc \in {"update", "save"} => \E r \in RowsOf(o)' : r.id = syncer'[v].id
      <3>0. v # w /\ o # Orphan /\ syncer'[v] = syncer[v] /\ owner[o].exists
        BY <1>1, <2>1, MeetingNames
      <3>1. \A s \in RowsOf(o)' : \E r \in RowsOf(o) : r.id = s.id
        BY <1>2, <3>0 DEF RowsOf
      <3>2. \A r \in RowsOf(o) : \E s \in RowsOf(o)' : s.id = r.id
        BY <1>1 DEF RowsOf, Survives
      <3>3. /\ syncer[v].pc \in {"assign", "create", "add"} => RowsOf(o) = {}
            /\ syncer[v].pc \in {"delete", "remove"} => \A r \in RowsOf(o) : r.id = syncer[v].id
            /\ syncer[v].pc \in {"update", "save"} => \E r \in RowsOf(o) : r.id = syncer[v].id
        BY <2>1, <3>0 DEF SyncInv, RowsInHand
      <3>. QED
        BY <3>0, <3>1, <3>2, <3>3
    <2>. QED
      BY <2>1 DEF RowsInHand
  <1>11. ProviderDone'
    <2>1. \A v \in Syncers : syncer'[v].pc \in {"add", "save"} => v # w
      BY <1>1
    <2>. QED
      BY <1>1, <2>1 DEF SyncInv, ProviderDone, ProviderHas
  <1>12. InSyncIsTrue'
    <2>1. \A s \in rows' : \E r \in rows : Follows(r, s)
      BY <1>1 DEF Descend
    <2>2. \A o \in Owners : Settled(o)' => Settled(o)
      BY <1>1 DEF Settled
    <2>3. \A o \in Owners : \A r \in RowsOf(o) : Survives(r, rows')
      BY <1>1 DEF RowsOf
    <2>. QED
      BY <1>1, <2>1, <2>2, <2>3, InSyncStays
  <1>. QED
    BY <1>4, <1>5, <1>6, <1>8, <1>9, <1>10, <1>11, <1>12 DEF SyncInv

-----------------------------------------------------------------------------
(* Completing, failing and releasing a claim *)

\* What is shown as synchronized is, for one owner.
Shown(o) ==
    IF Wanted(o)
    THEN \E r \in RowsOf(o) : ~zoom[r.id].gone /\ zoom[r.id].content = owner[o].content
    ELSE RowsOf(o) = {}

\* The owner of a worker that leaves, when its claim ends.
Ended(p, w) ==
    /\ p = syncer[w].owner /\ owner[p].claim = w
    /\ owner'[p].exists = owner[p].exists /\ owner'[p].requested = owner[p].requested
    /\ owner'[p].claim = 0 /\ owner'[p].host = NoHost /\ owner'[p].sync # "null"

\* The row a worker that made a meeting adds.
Added(s, w) ==
    /\ syncer[w].pc = "add" /\ s.id = syncer[w].id /\ s.owner = syncer[w].owner
    /\ s.owner \in Owners /\ owner[s.owner].exists

LEMMA WorkerLeaves ==
  ASSUME SyncInv, InSyncIsTrue, NEW w \in Syncers, LeaveSync(w), UNCHANGED <<live, started, zoom>>,
         ender' \in Nat, edits' \in Nat, mishaps' \in Nat,
         owner' \in [Owners -> OwnerRecords],
         \A p \in Owners : owner'[p] = owner[p] \/ Ended(p, w),
         \A p \in Owners : ~started /\ Ended(p, w) /\ Settled(p)' => Shown(p)',
         rows' \in SUBSET RowRecords, IsFiniteSet(rows'),
         \A s, t \in rows' : s.id = t.id => s = t,
         \A s \in rows' : Added(s, w) \/ \E r \in rows : Follows(r, s),
         \A r \in rows : r.id # syncer[w].id => Survives(r, rows')
  PROVE  SyncInv' /\ InSyncIsTrue'
  <1>0. syncer \in [Syncers -> SyncerRecords] /\ w # 0
    BY MeetingNames DEF SyncInv, MeetingTypes
  <1>1. /\ syncer' \in [Syncers -> SyncerRecords] /\ syncer'[w] = IdleSyncer
        /\ \A v \in Syncers : v # w => syncer'[v] = syncer[v]
    BY <1>0, IdleTyped DEF LeaveSync
  <1>2. MeetingTypes'
    BY <1>1 DEF SyncInv, MeetingTypes, Made
  <1>3. \A p \in Owners : owner'[p].exists = owner[p].exists
    BY DEF Ended
  <1>4. OwnersSound'
    BY DEF SyncInv, OwnersSound, Ended
  \* The owners of the others are as they were.
  <1>5. ASSUME NEW v \in Syncers, v # w, NEW p \in Owners, syncer[v].owner = p, owner[p].exists
        PROVE  owner'[p] = owner[p] /\ syncer[w].owner # p /\ \A r \in RowsOf(p) : Survives(r, rows')
    <2>1. owner[p].claim = v
      BY <1>5 DEF SyncInv, WorkersHold
    <2>2. syncer[w].owner # p
      BY <1>5, OneWorker
    <2>3. \A r \in RowsOf(p) : r.id # syncer[w].id
      BY <2>2, RowInHand DEF RowsOf
    <2>. QED
      BY <1>5, <2>1, <2>2, <2>3 DEF Ended, RowsOf
  <1>6. WorkersHold'
    BY <1>1, <1>3, <1>5, IdleTyped, MeetingNames DEF SyncInv, WorkersHold
  \* An added row is the first of its owner and known to nobody.
  <1>7. ASSUME NEW s \in rows', Added(s, w)
        PROVE  /\ RowsOf(s.owner) = {} /\ s.id \in DOMAIN zoom /\ s.owner # Orphan
               /\ \A v \in Syncers : v # w => syncer[v].id # s.id
    BY <1>7, MeetingNames DEF Added, SyncInv, RowsInHand, IdsSound
  <1>8. RowsSound'
    <2>1. ASSUME NEW s \in rows', NEW t \in rows', s.owner = t.owner, s.owner # Orphan PROVE s = t
      <3>1. CASE Added(s, w) /\ Added(t, w)
        BY <3>1 DEF Added
      <3>2. ASSUME NEW x \in rows', NEW y \in rows', x.owner = y.owner, x.owner # Orphan,
                   Added(x, w), NEW r \in rows, Follows(r, y)
            PROVE  FALSE
        <4>1. r \in RowsOf(x.owner)
          BY <3>2 DEF Follows, RowsOf
        <4>. QED
          BY <1>7, <3>2, <4>1
      <3>3. CASE (\E r \in rows : Follows(r, s)) /\ (\E r \in rows : Follows(r, t))
        <4>1. PICK r \in rows : Follows(r, s)
          BY <3>3
        <4>2. PICK q \in rows : Follows(q, t)
          BY <3>3
        <4>3. r = q
          BY <2>1, <4>1, <4>2 DEF Follows, SyncInv, RowsSound
        <4>. QED
          BY <4>1, <4>2, <4>3 DEF Follows
      <3>. QED
        BY <2>1, <3>1, <3>2, <3>3
    <2>2. ASSUME NEW s \in rows' PROVE s.id \in DOMAIN zoom' /\ (s.owner \in Owners => owner'[s.owner].exists)
      <3>1. CASE Added(s, w)
        BY <1>3, <1>7, <3>1 DEF Added
      <3>2. ASSUME NEW r \in rows, Follows(r, s) PROVE s.id \in DOMAIN zoom' /\ (s.owner \in Owners => owner'[s.owner].exists)
        BY <1>3, <3>2, MeetingNames DEF Follows, SyncInv, RowsSound
      <3>. QED
        BY <3>1, <3>2
    <2>. QED
      BY <2>1, <2>2 DEF RowsSound
  <1>9. \A s \in rows' : s.id # 0
    <2>1. 0 \notin DOMAIN zoom
      BY DEF SyncInv, MeetingTypes
    <2>. QED
      BY <1>8, <2>1 DEF RowsSound
  <1>10. IdsSound'
    <2>1. syncer'[w].id = 0 /\ syncer'[w].pc = "idle"
      BY <1>1, IdleTyped
    <2>2. ASSUME NEW v \in Syncers, v # w
          PROVE  /\ syncer'[v].id = 0 \/ syncer'[v].id \in DOMAIN zoom'
                 /\ \A s \in rows' : s.id = syncer'[v].id => s.owner \in {syncer'[v].owner, Orphan}
                 /\ syncer'[v].pc = "add" =>
                       /\ syncer'[v].id # 0
                       /\ \A s \in rows' : s.id # syncer'[v].id
                       /\ \A u \in Syncers \ {v} : syncer'[u].id # syncer'[v].id
      <3>1. syncer'[v] = syncer[v]
        BY <1>1, <2>2
      <3>2. ASSUME NEW s \in rows', s.id = syncer[v].id
            PROVE  s.owner \in {syncer[v].owner, Orphan} /\ syncer[v].pc # "add"
        <4>1. PICK r \in rows : Follows(r, s)
          BY <1>7, <2>2, <3>2
        <4>. QED
          BY ZenonT(40), <3>2, <4>1 DEF Follows, SyncInv, IdsSound
      <3>3. syncer[v].id = 0 \/ syncer[v].id \in DOMAIN zoom
        BY DEF SyncInv, IdsSound
      <3>4. syncer[v].pc = "add" => syncer[v].id # 0 /\ \A u \in Syncers \ {v} : syncer[u].id # syncer[v].id
        BY DEF SyncInv, IdsSound
      <3>5. \A u \in Syncers : syncer'[u].id \in {0, syncer[u].id}
        BY <1>1, <2>1
      <3>. QED
        BY <3>1, <3>2, <3>3, <3>4, <3>5
    <2>. QED
      BY <1>9, <2>1, <2>2 DEF IdsSound
  <1>11. StepsSound'
    BY <1>1, IdleTyped DEF SyncInv, StepsSound
  <1>12. RowsInHand'
    <2>1. ASSUME NEW v \in Syncers, NEW o \in Owners, syncer'[v].owner = o, owner'[o].exists
          PROVE  /\ syncer'[v].pc \in {"assign", "create", "add"} => RowsOf(o)' = {}
                 /\ syncer'[v].pc \in {"delete", "remove"} => \A r \in RowsOf(o)' : r.id = syncer'[v].id
                 /\ syncer'[v].pc \in {"update", "save"} => \E r \in RowsOf(o)' : r.id = syncer'[v].id
      <3>0. v # w /\ o # Orphan /\ syncer'[v] = syncer[v] /\ owner[o].exists
        BY <1>1, <1>3, <2>1, IdleTyped, MeetingNames
      <3>1. \A s \in RowsOf(o)' : \E r \in RowsOf(o) : r.id = s.id
        BY <1>5, <2>1, <3>0 DEF RowsOf, Added, Follows
      <3>2. \A r \in RowsOf(o) : \E s \in RowsOf(o)' : s.id = r.id
        BY <1>5, <2>1, <3>0 DEF RowsOf, Survives
      <3>3. /\ syncer[v].pc \in {"assign", "create", "add"} => RowsOf(o) = {}
            /\ syncer[v].pc \in {"delete", "remove"} => \A r \in RowsOf(o) : r.id = syncer[v].id
            /\ syncer[v].pc \in {"update", "save"} => \E r \in RowsOf(o) : r.id = syncer[v].id
        BY <2>1, <3>0 DEF SyncInv, RowsInHand
      <3>. QED
        BY <3>0, <3>1, <3>2, <3>3
    <2>. QED
      BY <2>1 DEF RowsInHand
  <1>13. ProviderDone'
    <2>1. \A v \in Syncers : syncer'[v].pc \in {"add", "save"} => v # w
      BY <1>1, IdleTyped
    <2>. QED
      BY <1>1, <1>3, <2>1 DEF SyncInv, ProviderDone, ProviderHas
  <1>14. InSyncIsTrue'
    <2>. SUFFICES ASSUME ~started, NEW p \in Owners, Settled(p)' PROVE Shown(p)'
      BY DEF InSyncIsTrue, Shown
    <2>1. CASE Ended(p, w)
      BY <2>1
    <2>2. CASE owner'[p] = owner[p]
      <3>1. Settled(p) /\ owner[p].claim = 0 /\ owner[p].exists /\ p # Orphan
        BY <2>2, MeetingNames DEF Settled
      <3>2. syncer[w].owner # p
        BY <1>0, <3>1 DEF SyncInv, WorkersHold
      <3>3. \A r \in RowsOf(p) : Survives(r, rows')
        BY <3>2, RowInHand DEF RowsOf
      <3>4. \A s \in RowsOf(p)' : \E r \in RowsOf(p) : r.id = s.id
        BY <3>1, <3>2 DEF RowsOf, Added, Follows
      <3>5. \A r \in RowsOf(p) : \E s \in RowsOf(p)' : s.id = r.id
        BY <3>3 DEF RowsOf, Survives
      <3>6. Shown(p)
        BY <3>1 DEF InSyncIsTrue, Shown
      <3>7. Wanted(p)' <=> Wanted(p)
        BY <2>2 DEF Wanted
      <3>. QED
        BY <2>2, <3>4, <3>5, <3>6, <3>7 DEF Shown
    <2>. QED
      BY <2>1, <2>2
  <1>. QED
    BY <1>2, <1>4, <1>6, <1>8, <1>10, <1>11, <1>12, <1>13, <1>14 DEF SyncInv

LEMMA CompletedOwner ==
  ASSUME SyncInv, NEW w \in Syncers, NEW error \in {"none", "failed"}, CompleteOwner(w, error)
  PROVE  /\ owner' \in [Owners -> OwnerRecords]
         /\ \A p \in Owners :
               \/ owner'[p] = owner[p] /\ (p = syncer[w].owner => ~Holds(w))
               \/ /\ Ended(p, w) /\ Holds(w) /\ owner[p].exists
                  /\ owner'[p].content = owner[p].content
                  /\ owner'[p].sync = "yes" => Hash(p) = syncer[w].hash /\ owner'[p].error = error
  <1>. DEFINE o == syncer[w].owner
  <1>0. owner \in [Owners -> OwnerRecords] /\ o \in Owners \cup {Orphan} /\ w # 0
    BY MeetingNames DEF SyncInv, MeetingTypes, SyncerRecords
  <1>1. CASE o # Orphan /\ Holds(w)
    <2>. DEFINE n == Complete(o, w, error)
    <2>1. owner' = [owner EXCEPT ![o] = n] /\ o \in Owners /\ owner[o] \in OwnerRecords
      BY <1>0, <1>1 DEF CompleteOwner
    <2>2. owner[o].claim = w /\ owner[o].exists
      BY <1>0, <1>1, <2>1 DEF Holds, SyncInv, OwnersSound
    <2>3. /\ n \in OwnerRecords /\ n.exists = owner[o].exists /\ n.requested = owner[o].requested
          /\ n.content = owner[o].content /\ n.claim = 0 /\ n.host = NoHost /\ n.sync # "null"
          /\ n.sync = "yes" => Hash(o) = syncer[w].hash /\ n.error = error
      BY <2>1 DEF Complete, OwnerRecords
    <2>. HIDE DEF n, o
    <2>4. owner' \in [Owners -> OwnerRecords] /\ owner'[o] = n /\ \A p \in Owners : p # o => owner'[p] = owner[p]
      BY <1>0, <2>1, <2>3
    <2>5. Ended(o, w)
      BY <2>2, <2>3, <2>4 DEF Ended, o
    <2>. QED
      BY <1>1, <2>2, <2>3, <2>4, <2>5 DEF o
  <1>2. CASE ~(o # Orphan /\ Holds(w))
    <2>1. owner' = owner
      BY <1>2 DEF CompleteOwner
    <2>. QED
      BY <1>0, <1>2, <2>1, MeetingNames
  <1>. QED
    BY <1>1, <1>2

\* What a recorded result does to the rows.
LEMMA RecordedRows ==
  ASSUME SyncInv, NEW w \in Syncers, RecordResult(w)
  PROVE  /\ rows' \in SUBSET RowRecords /\ IsFiniteSet(rows')
         /\ \A s, t \in rows' : s.id = t.id => s = t
         /\ \A s \in rows' : (Added(s, w) /\ s = NewRow(w) /\ Holds(w)) \/ s \in rows
         /\ \A r \in rows : r.id # syncer[w].id => r \in rows'
         /\ ~Holds(w) => rows' = rows
         /\ Holds(w) /\ syncer[w].pc = "add" => rows' = rows \cup {NewRow(w)} /\ Added(NewRow(w), w)
         /\ syncer[w].pc = "save" => rows' = rows
         /\ Holds(w) /\ syncer[w].pc = "remove" => rows' = {r \in rows : r.id # syncer[w].id}
  <1>0. /\ rows \in SUBSET RowRecords /\ IsFiniteSet(rows) /\ syncer[w] \in SyncerRecords /\ w # 0
        /\ \A s, t \in rows : s.id = t.id => s = t
    BY MeetingNames DEF SyncInv, MeetingTypes, RowsSound
  <1>1. /\ syncer[w].pc \in {"add", "save", "remove"}
        /\ ~Holds(w) => rows' = rows
        /\ Holds(w) /\ syncer[w].pc = "add" => rows' = rows \cup {NewRow(w)}
        /\ syncer[w].pc = "save" => rows' = rows
        /\ Holds(w) /\ syncer[w].pc = "remove" => rows' = {r \in rows : r.id # syncer[w].id}
    BY DEF RecordResult
  <1>2. ASSUME Holds(w), syncer[w].pc = "add"
        PROVE  /\ NewRow(w) \in RowRecords /\ Added(NewRow(w), w) /\ \A r \in rows : r.id # NewRow(w).id
               /\ IsFiniteSet(rows \cup {NewRow(w)})
    <2>1. syncer[w].owner \in Owners /\ \A r \in rows : r.id # syncer[w].id
      BY <1>2 DEF SyncInv, StepsSound, IdsSound
    <2>2. owner[syncer[w].owner].exists
      BY <1>0, <1>2, <2>1, MeetingNames DEF Holds, SyncInv, OwnersSound
    <2>3. NewRow(w) \in RowRecords /\ NewRow(w).id = syncer[w].id /\ NewRow(w).owner = syncer[w].owner
      BY <1>0 DEF NewRow, RowRecords, SyncerRecords
    <2>. HIDE DEF NewRow
    <2>4. IsFiniteSet(rows \cup {NewRow(w)})
      BY <1>0, FS_AddElement
    <2>. QED
      BY <1>2, <2>1, <2>2, <2>3, <2>4 DEF Added
  <1>3. CASE rows' = rows
    BY <1>0, <1>1, <1>2, <1>3
  <1>4. CASE Holds(w) /\ syncer[w].pc = "add"
    <2>1. rows' = rows \cup {NewRow(w)}
      BY <1>1, <1>4
    <2>2. /\ NewRow(w) \in RowRecords /\ Added(NewRow(w), w) /\ \A r \in rows : r.id # NewRow(w).id
          /\ IsFiniteSet(rows \cup {NewRow(w)})
      BY <1>2, <1>4
    <2>. QED
      BY <1>0, <1>1, <1>4, <2>1, <2>2
  <1>5. CASE Holds(w) /\ syncer[w].pc = "remove"
    <2>1. rows' = {r \in rows : r.id # syncer[w].id}
      BY <1>1, <1>5
    <2>2. rows' \in SUBSET rows
      BY <2>1
    <2>3. IsFiniteSet(rows')
      BY <1>0, <2>2, FS_Subset
    <2>. QED
      BY <1>0, <1>1, <1>5, <2>1, <2>3
  <1>. QED
    BY <1>1, <1>3, <1>4, <1>5

LEMMA RecordResultSync ==
  ASSUME SyncInv, InSyncIsTrue, NEW w \in Syncers, RecordResult(w)
  PROVE  SyncInv' /\ InSyncIsTrue'
  <1>1. /\ LeaveSync(w) /\ UNCHANGED <<live, started, zoom, ender, edits, mishaps>> /\ CompleteOwner(w, "none")
        /\ syncer[w].pc \in {"add", "save", "remove"}
    BY DEF RecordResult
  <1>2. owner' \in [Owners -> OwnerRecords]
    BY <1>1, CompletedOwner
  <1>3. \A p \in Owners :
          \/ owner'[p] = owner[p]
          \/ /\ Ended(p, w) /\ Holds(w) /\ owner[p].exists /\ owner'[p].content = owner[p].content
             /\ owner'[p].sync = "yes" => Hash(p) = syncer[w].hash
    BY <1>1, CompletedOwner
  <1>4. ender \in Nat /\ edits \in Nat /\ mishaps \in Nat
    BY DEF SyncInv, MeetingTypes
  <1>5. ASSUME NEW p \in Owners, Ended(p, w), Settled(p)' PROVE Shown(p)'
    <2>0. /\ Holds(w) /\ owner[p].exists /\ owner'[p].content = owner[p].content /\ p = syncer[w].owner
          /\ Hash(p) = syncer[w].hash /\ owner'[p].requested = owner[p].requested
      <3>1. owner'[p].claim = 0 /\ owner[p].claim = w /\ w # 0 /\ owner'[p].sync = "yes"
        BY <1>5, MeetingNames DEF Ended, Settled
      <3>. QED
        BY <1>3, <1>5, <3>1 DEF Ended
    <2>1. syncer[w].hash.live = live /\ syncer[w].hash.requested = owner[p].requested /\ syncer[w].hash.content = owner[p].content
      BY <2>0 DEF Hash
    <2>2. CASE syncer[w].pc = "add"
      <3>1. Wanted(p)'
        BY <1>1, <2>0, <2>1, <2>2 DEF SyncInv, StepsSound, Wanted
      <3>2. NewRow(w) \in RowsOf(p)' /\ NewRow(w).id = syncer[w].id
        <4>1. NewRow(w) \in rows'
          BY <2>0, <2>2, RecordedRows
        <4>. QED
          BY <2>0, <4>1 DEF RowsOf, NewRow
      <3>3. ~zoom[syncer[w].id].gone /\ zoom[syncer[w].id].content = owner[p].content
        BY <2>1, <2>2 DEF SyncInv, ProviderDone, ProviderHas
      <3>. QED
        BY <1>1, <2>0, <3>1, <3>2, <3>3 DEF Shown
    <2>3. CASE syncer[w].pc = "save"
      <3>1. Wanted(p)'
        BY <1>1, <2>0, <2>1, <2>3 DEF SyncInv, StepsSound, Wanted
      <3>2. PICK r \in RowsOf(p) : r.id = syncer[w].id
        BY <2>0, <2>3 DEF SyncInv, RowsInHand
      <3>3. r \in RowsOf(p)'
        BY <2>3, <3>2, RecordedRows DEF RowsOf
      <3>4. ~zoom[syncer[w].id].gone /\ zoom[syncer[w].id].content = owner[p].content
        BY <2>0, <2>1, <2>3 DEF SyncInv, ProviderDone, ProviderHas
      <3>. QED
        BY <1>1, <2>0, <3>1, <3>2, <3>3, <3>4 DEF Shown
    <2>4. CASE syncer[w].pc = "remove"
      <3>1. ~Wanted(p)'
        BY <1>1, <2>0, <2>1, <2>4 DEF SyncInv, StepsSound, Wanted
      <3>2. \A r \in RowsOf(p) : r.id = syncer[w].id
        BY <2>0, <2>4 DEF SyncInv, RowsInHand
      <3>3. rows' = {r \in rows : r.id # syncer[w].id}
        BY <2>0, <2>4, RecordedRows
      <3>4. RowsOf(p)' = {}
        BY <3>2, <3>3 DEF RowsOf
      <3>. QED
        BY <3>1, <3>4 DEF Shown
    <2>. QED
      BY <1>1, <2>2, <2>3, <2>4
  <1>6. /\ rows' \in SUBSET RowRecords /\ IsFiniteSet(rows')
        /\ \A s, t \in rows' : s.id = t.id => s = t
    BY RecordedRows
  <1>7. \A s \in rows' : Added(s, w) \/ \E r \in rows : Follows(r, s)
    BY RecordedRows DEF Follows
  <1>8. \A r \in rows : r.id # syncer[w].id => Survives(r, rows')
    BY RecordedRows DEF Survives
  <1>. QED
    BY <1>1, <1>2, <1>3, <1>4, <1>5, <1>6, <1>7, <1>8, WorkerLeaves

LEMMA SetMeetingErrorSync ==
  ASSUME SyncInv, InSyncIsTrue, NEW w \in Syncers, SetMeetingError(w)
  PROVE  SyncInv' /\ InSyncIsTrue'
  <1>1. /\ LeaveSync(w) /\ UNCHANGED <<live, started, zoom, ender, edits>> /\ CompleteOwner(w, "failed")
        /\ rows' = rows \/ rows' = {r \in rows : r.id # syncer[w].id}
    BY DEF SetMeetingError
  <1>2. owner' \in [Owners -> OwnerRecords]
    BY <1>1, CompletedOwner
  <1>3. \A p \in Owners :
          owner'[p] = owner[p] \/ (Ended(p, w) /\ (owner'[p].sync = "yes" => owner'[p].error = "failed"))
    BY <1>1, CompletedOwner
  <1>4. ender \in Nat /\ edits \in Nat /\ mishaps' \in Nat
    BY DEF SyncInv, MeetingTypes, SetMeetingError
  <1>5. \A p \in Owners : Ended(p, w) => ~Settled(p)'
    BY <1>3, MeetingNames DEF Ended, Settled
  <1>6. /\ rows \in SUBSET RowRecords /\ IsFiniteSet(rows) /\ \A s, t \in rows : s.id = t.id => s = t
    BY DEF SyncInv, MeetingTypes, RowsSound
  <1>7. rows' \in SUBSET rows
    BY <1>1
  <1>8. IsFiniteSet(rows')
    BY <1>6, <1>7, FS_Subset
  <1>9. /\ rows' \in SUBSET RowRecords /\ \A s, t \in rows' : s.id = t.id => s = t
    BY <1>6, <1>7
  <1>10. \A s \in rows' : Added(s, w) \/ \E r \in rows : Follows(r, s)
    BY <1>7 DEF Follows
  <1>11. \A r \in rows : r.id # syncer[w].id => Survives(r, rows')
    BY <1>1 DEF Survives
  <1>. QED
    BY <1>1, <1>2, <1>3, <1>4, <1>5, <1>8, <1>9, <1>10, <1>11, WorkerLeaves

\* What a release does to the tables.
LEMMA ReleaseFrame ==
  ASSUME SyncInv, NEW w \in Syncers, ReleaseSyncClaim(w)
  PROVE  /\ LeaveSync(w) /\ UNCHANGED <<live, started, zoom, ender, edits, mishaps>>
         /\ owner' \in [Owners -> OwnerRecords]
         /\ \A p \in Owners : owner'[p] = owner[p] \/ (Ended(p, w) /\ owner'[p].sync = "no")
         /\ Descend(rows, rows')
         /\ \A r \in rows : \E s \in rows' : s.id = r.id /\ s.owner = r.owner
                                           /\ (s.claim = r.claim \/ r.id = syncer[w].id)
  <1>. DEFINE o == syncer[w].owner
              f == [r \in rows |-> IF o = Orphan /\ Holds(w)
                                   THEN [r EXCEPT !.claim = IF r.id = syncer[w].id THEN 0 ELSE @] ELSE r]
  <1>0. /\ owner \in [Owners -> OwnerRecords] /\ o \in Owners \cup {Orphan} /\ w # 0 /\ rows \subseteq RowRecords
        /\ \A r \in rows : r.claim \in Syncers \cup {0} /\ r.check \in {"none", "claimed", "done"}
    BY MeetingNames DEF SyncInv, MeetingTypes, SyncerRecords, RowRecords
  <1>1. /\ LeaveSync(w) /\ UNCHANGED <<live, started, zoom, ender, edits, mishaps>>
    BY DEF ReleaseSyncClaim
  <1>2. rows' = {f[r] : r \in rows}
    <2>1. rows' = IF o = Orphan /\ Holds(w)
                  THEN {[r EXCEPT !.claim = IF r.id = syncer[w].id THEN 0 ELSE @] : r \in rows} ELSE rows
      BY DEF ReleaseSyncClaim
    <2>. QED
      BY <2>1
  <1>3. ASSUME NEW r \in rows
        PROVE  /\ f[r] \in RowRecords /\ Follows(r, f[r]) /\ f[r].owner = r.owner
               /\ f[r].claim = r.claim \/ r.id = syncer[w].id
    <2>1. r \in RowRecords /\ r.check \in {"none", "claimed", "done"}
      BY <1>0
    <2>. DEFINE claim == IF o = Orphan /\ Holds(w) /\ r.id = syncer[w].id THEN 0 ELSE r.claim
    <2>2. f[r] = [id |-> r.id, owner |-> r.owner, host |-> r.host, claim |-> claim, check |-> r.check]
      BY <2>1 DEF RowRecords
    <2>3. claim \in Syncers \cup {0} /\ (claim = r.claim \/ r.id = syncer[w].id)
      BY <1>0
    <2>. HIDE DEF f, claim
    <2>. QED
      BY <2>1, <2>2, <2>3, RowEdited
  <1>4. f \in [rows -> RowRecords]
    BY <1>3
  <1>. HIDE DEF f
  <1>5. Descend(rows, rows')
    BY <1>2, <1>3, <1>4, Rewritten
  <1>6. \A r \in rows : \E s \in rows' : s.id = r.id /\ s.owner = r.owner
                                        /\ (s.claim = r.claim \/ r.id = syncer[w].id)
    BY <1>2, <1>3 DEF Follows
  <1>7. /\ owner' \in [Owners -> OwnerRecords]
        /\ \A p \in Owners : owner'[p] = owner[p] \/ (Ended(p, w) /\ owner'[p].sync = "no")
    <2>1. CASE o # Orphan /\ Holds(w) /\ owner[o].sync = "no"
      <3>. DEFINE n == SyncReleased(o)
      <3>1. owner' = [owner EXCEPT ![o] = n] /\ o \in Owners /\ owner[o] \in OwnerRecords /\ owner[o].claim = w
        BY <1>0, <2>1 DEF ReleaseSyncClaim, Holds
      <3>2. /\ n \in OwnerRecords /\ n.exists = owner[o].exists /\ n.requested = owner[o].requested
            /\ n.claim = 0 /\ n.host = NoHost /\ n.sync = "no"
        BY <2>1, <3>1 DEF SyncReleased, OwnerRecords
      <3>. HIDE DEF n, o
      <3>3. owner' \in [Owners -> OwnerRecords] /\ owner'[o] = n /\ \A p \in Owners : p # o => owner'[p] = owner[p]
        BY <1>0, <3>1, <3>2
      <3>4. Ended(o, w)
        BY <3>1, <3>2, <3>3 DEF Ended, o
      <3>. QED
        BY <3>2, <3>3, <3>4
    <2>2. CASE ~(o # Orphan /\ Holds(w) /\ owner[o].sync = "no")
      BY <1>0, <2>2 DEF ReleaseSyncClaim
    <2>. QED
      BY <2>1, <2>2
  <1>. QED
    BY <1>1, <1>5, <1>6, <1>7

LEMMA ReleaseSync ==
  ASSUME SyncInv, InSyncIsTrue, NEW w \in Syncers, ReleaseSyncClaim(w)
  PROVE  SyncInv' /\ InSyncIsTrue'
  <1>1. /\ LeaveSync(w) /\ UNCHANGED <<live, started, zoom, ender, edits, mishaps>>
        /\ owner' \in [Owners -> OwnerRecords] /\ Descend(rows, rows') /\ \A r \in rows : Survives(r, rows')
    BY ReleaseFrame DEF Survives
  <1>2. \A p \in Owners : owner'[p] = owner[p] \/ (Ended(p, w) /\ owner'[p].sync = "no")
    BY ReleaseFrame
  <1>3. \A p \in Owners : Ended(p, w) => ~Settled(p)'
    BY <1>2, MeetingNames DEF Ended, Settled
  <1>4. ender \in Nat /\ edits \in Nat /\ mishaps \in Nat /\ IsFiniteSet(rows)
    BY DEF SyncInv, MeetingTypes
  <1>5. IsFiniteSet(rows')
    BY <1>1, <1>4, DescendFinite
  <1>6. /\ rows' \in SUBSET RowRecords /\ \A s, t \in rows' : s.id = t.id => s = t
        /\ \A s \in rows' : Added(s, w) \/ \E r \in rows : Follows(r, s)
    BY <1>1 DEF Descend
  <1>. QED
    BY <1>1, <1>2, <1>3, <1>4, <1>5, <1>6, WorkerLeaves

LEMMA NextSync ==
  SyncInv /\ InSyncIsTrue /\ [MeetingNext]_meetingVars => SyncInv' /\ InSyncIsTrue'
  <1>. SUFFICES ASSUME SyncInv, InSyncIsTrue, [MeetingNext]_meetingVars PROVE SyncInv' /\ InSyncIsTrue'
    OBVIOUS
  <1>0. ender \in Nat /\ edits \in Nat /\ mishaps \in Nat /\ mishaps + 1 \in Nat
    BY DEF SyncInv, MeetingTypes
  <1>1. ASSUME NEW w \in Syncers, SyncerStep(w) PROVE SyncInv' /\ InSyncIsTrue'
    <2>1. CASE CallFails(w)
      BY <1>0, <2>1, WorkerMoves, InSyncKept DEF CallFails
    <2>. QED
      BY <1>1, <2>1, ClaimOwnerSync, ClaimOrphanSync, AssignHostSync, CreateMeetingSync, UpdateMeetingSync,
         DeleteMeetingSync, RecordResultSync, SetMeetingErrorSync, ReleaseSync DEF SyncerStep
  <1>2. ASSUME NEW w \in Syncers, SyncerLost(w) PROVE SyncInv' /\ InSyncIsTrue'
    BY <1>0, <1>2, WorkerMoves, InSyncKept DEF SyncerLost
  <1>3. CASE Organizer
    BY <1>3, UpdateEventSync, SetLiveSync DEF Organizer
  <1>4. CASE UNCHANGED meetingVars
    BY <1>4 DEF meetingVars, SyncInv, MeetingTypes, Made, OwnersSound, WorkersHold, RowsSound, IdsSound, StepsSound,
           RowsInHand, RowsOf, ProviderDone, ProviderHas, InSyncIsTrue, Settled, Wanted
  <1>. QED
    BY <1>1, <1>2, <1>3, <1>4, TimePassesSync, AutoEndFrame, MarkStaleSync DEF MeetingNext

\* Whatever edits, removals, faults and workers overlap, a meeting shown as
\* synchronized before its start is on record and has the current content at
\* the provider, and one that is no longer wanted has no row.
THEOREM SyncedMeansSynced == MeetingSpec => []InSyncIsTrue
  BY InitSync, NextSync, PTL DEF MeetingSpec

-----------------------------------------------------------------------------
(* No meeting is forgotten *)

\* A row or a worker that is to record a meeting knows whose meeting it is,
\* and the meeting of an orphaned row has lost its owner.
RecordsTell ==
    /\ \A r \in rows : IF r.owner = Orphan THEN ~owner[zoom[r.id].for].exists ELSE r.owner = zoom[r.id].for
    /\ \A w \in Syncers : syncer[w].pc = "add" => zoom[syncer[w].id].for = syncer[w].owner

\* The meeting is deleted, on record, or rightly forgotten.
Accounted(id) ==
    zoom[id].gone \/ (\E r \in rows : r.id = id) \/ (id \in forgotten /\ ~owner[zoom[id].for].exists)

\* A step keeps every meeting accounted for when rows keep their owners or
\* lose removed ones, and what leaves a worker or the table is accounted for.
LEMMA LeakKept ==
  ASSUME SyncInv, RecordsTell, NoLeak, mishaps' = 0 => mishaps = 0,
         DOMAIN zoom' = DOMAIN zoom, zoom' \in [DOMAIN zoom -> ZoomRecords],
         \A i \in DOMAIN zoom : zoom'[i].for = zoom[i].for /\ (zoom[i].gone => zoom'[i].gone),
         \A o \in Owners : owner'[o].exists => owner[o].exists,
         forgotten \subseteq forgotten',
         \A s \in rows' :
            \/ s.owner # Orphan /\ s.owner = zoom[s.id].for /\ s.id \in DOMAIN zoom
            \/ \E r \in rows : s.id = r.id /\ s.owner = r.owner
            \/ s.owner = Orphan /\ \E r \in rows : s.id = r.id /\ r.owner \in Owners /\ ~owner'[r.owner].exists,
         \A r \in rows : Accounted(r.id)',
         \A w \in Syncers :
            /\ syncer'[w].pc = "add" =>
                  syncer[w].pc = "add" /\ syncer'[w].id = syncer[w].id /\ syncer'[w].owner = syncer[w].owner
            /\ syncer[w].pc = "add" /\ mishaps' = 0 =>
                  (syncer'[w].pc = "add" /\ syncer'[w].id = syncer[w].id)
                  \/ \E id \in DOMAIN zoom : id = syncer[w].id /\ Accounted(id)'
  PROVE  RecordsTell' /\ NoLeak'
  <1>0. /\ \A i \in DOMAIN zoom : zoom[i].for \in Owners
        /\ \A r \in rows : r.id \in DOMAIN zoom
        /\ \A w \in Syncers : syncer[w].pc = "add" => syncer[w].id \in DOMAIN zoom
        /\ Orphan \notin Owners
    BY MeetingNames DEF SyncInv, MeetingTypes, ZoomRecords, RowsSound, IdsSound
  <1>1. ASSUME NEW s \in rows'
        PROVE  IF s.owner = Orphan THEN ~owner'[zoom'[s.id].for].exists ELSE s.owner = zoom'[s.id].for
    <2>1. CASE s.owner # Orphan /\ s.owner = zoom[s.id].for /\ s.id \in DOMAIN zoom
      BY <2>1
    <2>2. ASSUME NEW r \in rows, s.id = r.id, s.owner = r.owner
          PROVE  IF s.owner = Orphan THEN ~owner'[zoom'[s.id].for].exists ELSE s.owner = zoom'[s.id].for
      <3>1. r.id \in DOMAIN zoom /\ zoom[r.id].for \in Owners /\ zoom'[r.id].for = zoom[r.id].for
        BY <1>0
      <3>. QED
        BY <2>2, <3>1 DEF RecordsTell
    <2>3. ASSUME s.owner = Orphan, NEW r \in rows, s.id = r.id, r.owner \in Owners, ~owner'[r.owner].exists
          PROVE  ~owner'[zoom'[s.id].for].exists
      <3>1. r.id \in DOMAIN zoom /\ zoom'[r.id].for = zoom[r.id].for /\ zoom[r.id].for = r.owner
        BY <1>0, <2>3 DEF RecordsTell
      <3>. QED
        BY <2>3, <3>1
    <2>. QED
      BY <2>1, <2>2, <2>3
  <1>2. ASSUME NEW w \in Syncers, syncer'[w].pc = "add" PROVE zoom'[syncer'[w].id].for = syncer'[w].owner
    BY <1>0, <1>2 DEF RecordsTell
  <1>3. ASSUME mishaps' = 0, NEW id \in DOMAIN zoom
        PROVE  Accounted(id)' \/ \E w \in Syncers : syncer'[w].id = id /\ syncer'[w].pc = "add"
    <2>1. CASE zoom[id].gone
      BY <2>1 DEF Accounted
    <2>2. CASE \E r \in rows : r.id = id
      BY <2>2
    <2>3. CASE \E w \in Syncers : syncer[w].id = id /\ syncer[w].pc = "add"
      BY <1>3, <2>3
    <2>4. CASE id \in forgotten /\ ~owner[zoom[id].for].exists
      BY <1>0, <2>4 DEF Accounted
    <2>. QED
      BY <1>3, <2>1, <2>2, <2>3, <2>4 DEF NoLeak
  <1>4. NoLeak'
    BY <1>3 DEF NoLeak, Accounted
  <1>. QED
    BY <1>1, <1>2, <1>4 DEF RecordsTell

\* A step that makes no meeting and leaves every row and recording worker.
LEMMA NothingMoves ==
  ASSUME SyncInv, RecordsTell, NoLeak, mishaps' = 0 => mishaps = 0, forgotten' = forgotten,
         DOMAIN zoom' = DOMAIN zoom, zoom' \in [DOMAIN zoom -> ZoomRecords],
         \A i \in DOMAIN zoom : zoom'[i].for = zoom[i].for /\ (zoom[i].gone => zoom'[i].gone),
         \A o \in Owners : owner'[o].exists => owner[o].exists,
         \A s \in rows' : \E r \in rows : s.id = r.id /\ s.owner = r.owner,
         \A r \in rows : \E s \in rows' : s.id = r.id,
         \A w \in Syncers : IF syncer[w].pc = "add" THEN mishaps' = 0 => syncer'[w] = syncer[w]
                                                    ELSE syncer'[w].pc # "add",
         \A w \in Syncers : syncer'[w].pc = "add" => syncer'[w] = syncer[w]
  PROVE  RecordsTell' /\ NoLeak'
  <1>1. \A r \in rows : Accounted(r.id)'
    BY DEF Accounted
  <1>. QED
    BY <1>1, LeakKept

\* The provider as it was.
LEMMA SameZoom ==
  ASSUME SyncInv, zoom' = zoom
  PROVE  /\ DOMAIN zoom' = DOMAIN zoom /\ zoom' \in [DOMAIN zoom -> ZoomRecords]
         /\ \A i \in DOMAIN zoom : zoom'[i].for = zoom[i].for /\ (zoom[i].gone => zoom'[i].gone)
  BY DEF SyncInv, MeetingTypes

LEMMA CallsLeak ==
  ASSUME SyncInv, RecordsTell, NoLeak, NEW w \in Syncers,
         AssignHost(w) \/ CallFails(w) \/ UpdateMeeting(w) \/ DeleteMeeting(w)
  PROVE  RecordsTell' /\ NoLeak'
  <1>0. /\ syncer \in [Syncers -> SyncerRecords] /\ owner \in [Owners -> OwnerRecords] /\ mishaps \in Nat
        /\ zoom \in [1..Made -> ZoomRecords] /\ syncer[w].hash.content \in {0, 1}
    BY DEF SyncInv, MeetingTypes, SyncerRecords, Hashes
  <1>1. rows' = rows /\ forgotten' = forgotten /\ (mishaps' = 0 => mishaps = 0)
    BY <1>0 DEF AssignHost, CallFails, UpdateMeeting, DeleteMeeting, Lost
  <1>2. /\ DOMAIN zoom' = DOMAIN zoom /\ zoom' \in [DOMAIN zoom -> ZoomRecords]
        /\ \A i \in DOMAIN zoom : zoom'[i].for = zoom[i].for /\ (zoom[i].gone => zoom'[i].gone)
    <2>1. \/ zoom' = zoom
          \/ zoom' = [zoom EXCEPT ![syncer[w].id].content = syncer[w].hash.content]
          \/ zoom' = [zoom EXCEPT ![syncer[w].id].gone = TRUE]
      BY DEF AssignHost, CallFails, UpdateMeeting, DeleteMeeting
    <2>. DEFINE id == syncer[w].id
                z == zoom[id]
    <2>2. ASSUME NEW n \in ZoomRecords, n.for = z.for, z.gone => n.gone, zoom' = [zoom EXCEPT ![id] = n]
          PROVE  /\ DOMAIN zoom' = DOMAIN zoom /\ zoom' \in [DOMAIN zoom -> ZoomRecords]
                 /\ \A i \in DOMAIN zoom : zoom'[i].for = zoom[i].for /\ (zoom[i].gone => zoom'[i].gone)
      <3>. HIDE DEF id
      <3>. QED
        BY <1>0, <2>2
    <2>3. CASE zoom' = zoom
      BY <1>0, <2>3
    <2>4. CASE zoom' # zoom /\ id \notin DOMAIN zoom
      BY <1>0, <2>1, <2>4
    <2>5. CASE zoom' # zoom /\ id \in DOMAIN zoom
      <3>1. z \in ZoomRecords
        BY <1>0, <2>5
      <3>2. /\ [z EXCEPT !.content = syncer[w].hash.content] \in ZoomRecords
            /\ [z EXCEPT !.content = syncer[w].hash.content].for = z.for
            /\ [z EXCEPT !.content = syncer[w].hash.content].gone = z.gone
            /\ [z EXCEPT !.gone = TRUE] \in ZoomRecords
            /\ [z EXCEPT !.gone = TRUE].for = z.for /\ [z EXCEPT !.gone = TRUE].gone
        <4>. HIDE DEF z
        <4>. QED
          BY <1>0, <3>1 DEF ZoomRecords
      <3>. QED
        BY <2>1, <2>2, <2>5, <3>2
    <2>. QED
      BY <2>3, <2>4, <2>5
  <1>3. \A o \in Owners : owner'[o].exists => owner[o].exists
    <2>1. owner' = owner \/ \E h \in Hosts : owner' = [owner EXCEPT ![syncer[w].owner].host = h]
      BY DEF AssignHost, CallFails, UpdateMeeting, DeleteMeeting
    <2>. QED
      BY ZenonT(40), <1>0, <2>1 DEF OwnerRecords
  <1>4. syncer[w].pc # "add" /\ syncer'[w].pc # "add" /\ \A v \in Syncers : v # w => syncer'[v] = syncer[v]
    <2>1. syncer[w].pc # "add"
      BY DEF AssignHost, CallFails, UpdateMeeting, DeleteMeeting
    <2>2. \/ \E pc \in SyncerSteps \ {"add"} : MoveTo(w, pc)
          \/ \E h \in Hosts : syncer' = [syncer EXCEPT ![w].pc = "create", ![w].host = h]
      BY DEF AssignHost, CallFails, UpdateMeeting, DeleteMeeting, Lost, SyncerSteps
    <2>3. ASSUME NEW pc \in SyncerSteps \ {"add"}, MoveTo(w, pc)
          PROVE  syncer'[w].pc # "add" /\ \A v \in Syncers : v # w => syncer'[v] = syncer[v]
      BY <1>0, <2>3 DEF SyncerRecords, MoveTo
    <2>4. ASSUME NEW h \in Hosts, syncer' = [syncer EXCEPT ![w].pc = "create", ![w].host = h]
          PROVE  syncer'[w].pc # "add" /\ \A v \in Syncers : v # w => syncer'[v] = syncer[v]
      BY <1>0, <2>4 DEF SyncerRecords
    <2>. QED
      BY <2>1, <2>2, <2>3, <2>4
  <1>5. \A v \in Syncers : /\ IF syncer[v].pc = "add" THEN syncer'[v] = syncer[v] ELSE syncer'[v].pc # "add"
                           /\ syncer'[v].pc = "add" => syncer'[v] = syncer[v]
    BY <1>4
  <1>. QED
    BY <1>1, <1>2, <1>3, <1>5, NothingMoves

LEMMA CreateLeak ==
  ASSUME SyncInv, RecordsTell, NoLeak, NEW w \in Syncers, CreateMeeting(w)
  PROVE  RecordsTell' /\ NoLeak'
  <1>0. /\ syncer \in [Syncers -> SyncerRecords] /\ mishaps \in Nat /\ syncer[w].pc = "create"
        /\ UNCHANGED <<owner, rows, forgotten>>
    BY DEF SyncInv, MeetingTypes, CreateMeeting
  <1>1. /\ \A v \in Syncers : v # w => syncer'[v] = syncer[v]
        /\ syncer'[w].owner = syncer[w].owner
        /\ \/ syncer'[w].pc = "add" /\ syncer'[w].id = Made + 1 /\ mishaps' = mishaps
           \/ syncer'[w].pc = "release" /\ mishaps' = mishaps + 1
    <2>1. \/ syncer' = [syncer EXCEPT ![w].pc = "add", ![w].id = Made + 1] /\ mishaps' = mishaps
          \/ syncer' = [syncer EXCEPT ![w].pc = "release"] /\ mishaps' = mishaps + 1
      BY DEF CreateMeeting, Lost, MoveTo, Made
    <2>. HIDE DEF Made
    <2>. QED
      BY <1>0, <2>1 DEF SyncerRecords
  <1>. HIDE DEF Made
  <1>2. /\ DOMAIN zoom' = DOMAIN zoom \cup {Made + 1} /\ Made + 1 \notin DOMAIN zoom
        /\ \A i \in DOMAIN zoom : zoom'[i] = zoom[i]
        /\ zoom'[Made + 1].for = syncer[w].owner
    BY NewZoom
  <1>3. /\ \A r \in rows : r.id \in DOMAIN zoom
        /\ \A v \in Syncers : syncer[v].pc = "add" => syncer[v].id \in DOMAIN zoom
    BY DEF SyncInv, RowsSound, IdsSound
  <1>4. RecordsTell'
    BY <1>0, <1>1, <1>2, <1>3 DEF RecordsTell
  <1>5. ASSUME mishaps' = 0 PROVE NoLeak'
    <2>1. mishaps = 0 /\ syncer'[w].pc = "add" /\ syncer'[w].id = Made + 1
      BY <1>0, <1>1, <1>5
    <2>2. ASSUME NEW id \in DOMAIN zoom
          PROVE  \/ zoom'[id].gone \/ (\E r \in rows' : r.id = id)
                 \/ (\E v \in Syncers : syncer'[v].id = id /\ syncer'[v].pc = "add")
                 \/ id \in forgotten' /\ ~owner'[zoom'[id].for].exists
      <3>1. zoom'[id] = zoom[id]
        BY <1>2
      <3>2. \A v \in Syncers : syncer[v].pc = "add" => syncer'[v] = syncer[v]
        BY <1>0, <1>1
      <3>. QED
        BY <1>0, <2>1, <3>1, <3>2 DEF NoLeak
    <2>. QED
      BY <1>2, <2>1, <2>2 DEF NoLeak
  <1>. QED
    BY <1>4, <1>5 DEF NoLeak

\* The meeting a result is about is recorded, unless its owner was removed.
LEMMA RecordResultLeak ==
  ASSUME SyncInv, RecordsTell, NoLeak, NEW w \in Syncers, RecordResult(w)
  PROVE  RecordsTell' /\ NoLeak'
  <1>0. /\ LeaveSync(w) /\ UNCHANGED <<zoom, mishaps>> /\ CompleteOwner(w, "none")
        /\ syncer[w].pc \in {"add", "save", "remove"}
        /\ forgotten' = IF syncer[w].pc = "add" /\ ~Holds(w) THEN forgotten \cup {syncer[w].id} ELSE forgotten
        /\ syncer \in [Syncers -> SyncerRecords]
    BY DEF RecordResult, Forget, SyncInv, MeetingTypes
  <1>1. syncer'[w] = IdleSyncer /\ \A v \in Syncers : v # w => syncer'[v] = syncer[v]
    BY <1>0 DEF LeaveSync
  <1>2. \A o \in Owners : owner'[o].exists => owner[o].exists
    BY <1>0, CompletedOwner DEF Ended
  <1>3. ASSUME NEW s \in rows'
        PROVE  \/ s.owner # Orphan /\ s.owner = zoom[s.id].for /\ s.id \in DOMAIN zoom
               \/ \E r \in rows : s.id = r.id /\ s.owner = r.owner
    <2>1. CASE s = NewRow(w) /\ Added(s, w)
      BY <2>1, MeetingNames DEF NewRow, Added, RecordsTell, SyncInv, StepsSound, IdsSound
    <2>. QED
      BY <2>1, RecordedRows
  <1>4. ASSUME NEW r \in rows PROVE Accounted(r.id)'
    <2>1. CASE r.id # syncer[w].id \/ syncer[w].pc # "remove"
      BY <2>1, <1>0, RecordedRows DEF Accounted
    <2>2. CASE r.id = syncer[w].id /\ syncer[w].pc = "remove"
      <3>1. r.id # 0
        BY DEF SyncInv, RowsSound, MeetingTypes
      <3>. QED
        BY <1>0, <2>2, <3>1 DEF Accounted, SyncInv, StepsSound
    <2>. QED
      BY <2>1, <2>2
  <1>5. ASSUME syncer[w].pc = "add", NEW id, id = syncer[w].id PROVE id \in DOMAIN zoom /\ Accounted(id)'
    <2>0. id \in DOMAIN zoom /\ \A i \in DOMAIN zoom : zoom[i].for \in Owners
      BY <1>5 DEF SyncInv, IdsSound, MeetingTypes, ZoomRecords
    <2>1. CASE Holds(w)
      <3>1. NewRow(w) \in rows' /\ NewRow(w).id = id
        BY <1>5, <2>1, RecordedRows DEF NewRow
      <3>. QED
        BY <2>0, <3>1 DEF Accounted
    <2>2. CASE ~Holds(w)
      <3>1. syncer[w].owner \in Owners /\ syncer[w].owner # Orphan /\ zoom[syncer[w].id].for = syncer[w].owner
        BY <1>5, MeetingNames DEF SyncInv, StepsSound, RecordsTell
      <3>2. ~owner[syncer[w].owner].exists
        BY <2>2, <3>1 DEF SyncInv, WorkersHold, Holds
      <3>3. id \in forgotten' /\ zoom'[id].for = syncer[w].owner /\ ~owner'[syncer[w].owner].exists
        BY <1>0, <1>2, <1>5, <2>2, <3>1, <3>2
      <3>. QED
        BY <2>0, <3>3 DEF Accounted
    <2>. QED
      BY <2>1, <2>2
  <1>6. \A v \in Syncers :
           /\ syncer'[v].pc = "add" =>
                 syncer[v].pc = "add" /\ syncer'[v].id = syncer[v].id /\ syncer'[v].owner = syncer[v].owner
           /\ syncer[v].pc = "add" =>
                 (syncer'[v].pc = "add" /\ syncer'[v].id = syncer[v].id)
                 \/ \E id \in DOMAIN zoom : id = syncer[v].id /\ Accounted(id)'
    BY <1>1, <1>5, IdleTyped
  <1>7. forgotten \subseteq forgotten' /\ mishaps' = mishaps
    BY <1>0
  <1>. QED
    BY <1>0, <1>2, <1>3, <1>4, <1>6, <1>7, SameZoom, LeakKept

\* An orphan is given up only after its owner was removed.
LEMMA SetMeetingErrorLeak ==
  ASSUME SyncInv, RecordsTell, NoLeak, NEW w \in Syncers, SetMeetingError(w)
  PROVE  RecordsTell' /\ NoLeak'
  <1>0. /\ LeaveSync(w) /\ UNCHANGED <<zoom, mishaps>> /\ CompleteOwner(w, "failed") /\ syncer[w].pc = "error"
        /\ forgotten' = IF syncer[w].owner = Orphan /\ Holds(w) THEN forgotten \cup {syncer[w].id} ELSE forgotten
        /\ rows' = IF syncer[w].owner = Orphan /\ Holds(w) THEN {r \in rows : r.id # syncer[w].id} ELSE rows
        /\ syncer \in [Syncers -> SyncerRecords]
    BY DEF SetMeetingError, Forget, SyncInv, MeetingTypes
  <1>1. syncer'[w] = IdleSyncer /\ \A v \in Syncers : v # w => syncer'[v] = syncer[v]
    BY <1>0 DEF LeaveSync
  <1>2. \A o \in Owners : owner'[o].exists => owner[o].exists
    BY <1>0, CompletedOwner DEF Ended
  <1>3. \A s \in rows' : s \in rows
    BY <1>0
  <1>4. ASSUME NEW r \in rows PROVE Accounted(r.id)'
    <2>1. CASE r \in rows'
      BY <2>1 DEF Accounted
    <2>2. CASE r \notin rows'
      <3>1. r.id = syncer[w].id /\ syncer[w].owner = Orphan /\ r.id \in forgotten'
        BY <1>0, <2>2
      <3>2. r.id \in DOMAIN zoom /\ zoom[r.id].for \in Owners /\ r.owner = Orphan
        BY <3>1 DEF SyncInv, RowsSound, IdsSound, MeetingTypes, ZoomRecords
      <3>. QED
        BY <1>0, <1>2, <3>1, <3>2 DEF RecordsTell, Accounted
    <2>. QED
      BY <2>1, <2>2
  <1>5. \A v \in Syncers :
           /\ syncer'[v].pc = "add" => syncer'[v] = syncer[v]
           /\ syncer[v].pc = "add" => syncer'[v] = syncer[v]
    BY <1>0, <1>1, IdleTyped
  <1>6. forgotten \subseteq forgotten' /\ mishaps' = mishaps
    BY <1>0
  <1>. QED
    BY <1>0, <1>2, <1>3, <1>4, <1>5, <1>6, SameZoom, LeakKept

\* Rows are orphaned with the removal of their owners.
LEMMA UpdateEventLeak ==
  ASSUME SyncInv, RecordsTell, NoLeak, NEW o \in Owners, NEW requested \in BOOLEAN, NEW changed \in BOOLEAN,
         NEW removed \in SUBSET Sessions, UpdateEvent(o, requested, changed, removed)
  PROVE  RecordsTell' /\ NoLeak'
  <1>0. UNCHANGED <<zoom, syncer, mishaps, forgotten>> /\ rows' = Orphaned(removed)
    BY DEF UpdateEvent
  <1>1. ASSUME NEW p \in Owners
        PROVE  (owner'[p].exists => owner[p].exists) /\ (p \in removed => ~owner'[p].exists)
    BY UpdateEventOwner, GoneFacts
  <1>2. ASSUME NEW s \in rows'
        PROVE  \/ \E r \in rows : s.id = r.id /\ s.owner = r.owner
               \/ s.owner = Orphan /\ \E r \in rows : s.id = r.id /\ r.owner \in Owners /\ ~owner'[r.owner].exists
    <2>1. PICK r \in rows : Follows(r, s)
      BY <1>0, OrphanedRows DEF Descend
    <2>2. CASE s.owner = r.owner
      BY <2>1, <2>2 DEF Follows
    <2>3. CASE s.owner # r.owner
      <3>1. s.owner = Orphan /\ s.id = r.id
        BY <2>1, <2>3 DEF Follows
      <3>2. r.owner \in removed
        <4>1. ASSUME r.owner \notin removed PROVE s = r
          <5>1. r \in rows' /\ \A x, y \in rows' : x.id = y.id => x = y
            BY <1>0, <4>1, OrphanedRows DEF Descend
          <5>. QED
            BY <3>1, <5>1
        <4>. QED
          BY <2>3, <4>1
      <3>. QED
        BY <1>1, <3>1, <3>2 DEF Owners
    <2>. QED
      BY <2>2, <2>3
  <1>3. \A r \in rows : Accounted(r.id)'
    BY <1>0, OrphanedRows DEF Accounted
  <1>. QED
    BY <1>0, <1>1, <1>2, <1>3, SameZoom, LeakKept

LEMMA ClaimsLeak ==
  ASSUME SyncInv, RecordsTell, NoLeak, NEW w \in Syncers,
         (\E o \in Owners : ClaimOwner(w, o)) \/ (\E r \in rows : ClaimOrphan(w, r))
  PROVE  RecordsTell' /\ NoLeak'
  <1>0. /\ owner \in [Owners -> OwnerRecords] /\ syncer[w].pc = "idle"
        /\ UNCHANGED <<zoom, mishaps, forgotten>>
    BY DEF ClaimOwner, ClaimOrphan, SyncInv, MeetingTypes
  <1>1. /\ \A o \in Owners : owner'[o].exists => owner[o].exists
        /\ \A s \in rows' : \E r \in rows : s.id = r.id /\ s.owner = r.owner
        /\ \A r \in rows : \E s \in rows' : s.id = r.id
        /\ syncer'[w].pc # "add" /\ \A v \in Syncers : v # w => syncer'[v] = syncer[v]
    <2>1. ASSUME NEW o \in Owners, ClaimOwner(w, o)
          PROVE  /\ \A p \in Owners : owner'[p].exists => owner[p].exists
                 /\ rows' = rows /\ syncer'[w].pc # "add" /\ \A v \in Syncers : v # w => syncer'[v] = syncer[v]
      <3>1. rows' = rows /\ owner' = [owner EXCEPT ![o].claim = w, ![o].error = "none"]
        BY <2>1 DEF ClaimOwner
      <3>2. syncer'[w].pc # "add" /\ \A v \in Syncers : v # w => syncer'[v] = syncer[v]
        BY <2>1, ClaimedWork
      <3>. QED
        BY <1>0, <3>1, <3>2 DEF OwnerRecords
    <2>2. ASSUME NEW q \in rows, ClaimOrphan(w, q)
          PROVE  /\ owner' = owner
                 /\ \A s \in rows' : \E r \in rows : s.id = r.id /\ s.owner = r.owner
                 /\ \A r \in rows : \E s \in rows' : s.id = r.id
                 /\ syncer'[w].pc # "add" /\ \A v \in Syncers : v # w => syncer'[v] = syncer[v]
      <3>1. rows' = (rows \ {q}) \cup {[q EXCEPT !.claim = w]} /\ q \in RowRecords
        BY <2>2 DEF ClaimOrphan, SyncInv, MeetingTypes
      <3>2. [q EXCEPT !.claim = w].id = q.id /\ [q EXCEPT !.claim = w].owner = q.owner
        BY <3>1 DEF RowRecords
      <3>. QED
        BY <2>2, <3>1, <3>2, ClaimOrphanFrame
    <2>. QED
      BY <2>1, <2>2
  <1>2. \A v \in Syncers : /\ IF syncer[v].pc = "add" THEN syncer'[v] = syncer[v] ELSE syncer'[v].pc # "add"
                           /\ syncer'[v].pc = "add" => syncer'[v] = syncer[v]
    BY <1>0, <1>1
  <1>. QED
    BY <1>0, <1>1, <1>2, SameZoom, NothingMoves

\* A claim is released, or its worker is lost.
LEMMA ReleaseLeak ==
  ASSUME SyncInv, RecordsTell, NoLeak, NEW w \in Syncers, ReleaseSyncClaim(w) \/ SyncerLost(w)
  PROVE  RecordsTell' /\ NoLeak'
  <1>0. /\ LeaveSync(w) /\ zoom' = zoom /\ forgotten' = forgotten /\ syncer \in [Syncers -> SyncerRecords]
        /\ (mishaps' = 0 => mishaps = 0 /\ syncer[w].pc = "release")
    BY DEF ReleaseSyncClaim, SyncerLost, SyncInv, MeetingTypes
  <1>1. syncer'[w] = IdleSyncer /\ \A v \in Syncers : v # w => syncer'[v] = syncer[v]
    BY <1>0 DEF LeaveSync
  <1>2. /\ \A p \in Owners : owner'[p].exists => owner[p].exists
        /\ \A s \in rows' : \E r \in rows : s.id = r.id /\ s.owner = r.owner
        /\ \A r \in rows : \E s \in rows' : s.id = r.id
    <2>1. CASE SyncerLost(w)
      BY <2>1 DEF SyncerLost
    <2>2. CASE ReleaseSyncClaim(w)
      <3>1. /\ \A p \in Owners : owner'[p] = owner[p] \/ Ended(p, w)
            /\ \A r \in rows : \E s \in rows' : s.id = r.id /\ s.owner = r.owner
            /\ Descend(rows, rows')
        BY <2>2, ReleaseFrame
      <3>2. \A s \in rows' : \E r \in rows : s.id = r.id /\ s.owner = r.owner
        BY <3>1 DEF Descend, Follows
      <3>. QED
        BY <3>1, <3>2 DEF Ended
    <2>. QED
      BY <2>1, <2>2
  <1>3. \A v \in Syncers : /\ IF syncer[v].pc = "add" THEN mishaps' = 0 => syncer'[v] = syncer[v] ELSE syncer'[v].pc # "add"
                           /\ syncer'[v].pc = "add" => syncer'[v] = syncer[v]
    BY <1>0, <1>1, IdleTyped
  <1>. QED
    BY <1>0, <1>2, <1>3, SameZoom, NothingMoves

LEMMA NextLeak ==
  SyncInv /\ InSyncIsTrue /\ RecordsTell /\ NoLeak /\ [MeetingNext]_meetingVars => RecordsTell' /\ NoLeak'
  <1>. SUFFICES ASSUME SyncInv, InSyncIsTrue, RecordsTell, NoLeak, [MeetingNext]_meetingVars
                PROVE  RecordsTell' /\ NoLeak'
    OBVIOUS
  <1>1. ASSUME NEW w \in Syncers, SyncerStep(w) \/ SyncerLost(w) PROVE RecordsTell' /\ NoLeak'
    BY <1>1, ClaimsLeak, CallsLeak, CreateLeak, RecordResultLeak, SetMeetingErrorLeak, ReleaseLeak DEF SyncerStep
  <1>2. ASSUME UNCHANGED <<zoom, syncer, forgotten>>, mishaps' = 0 => mishaps = 0,
               \A o \in Owners : owner'[o].exists => owner[o].exists,
               Descend(rows, rows'), \A r \in rows : \E s \in rows' : s.id = r.id /\ s.owner = r.owner
        PROVE  RecordsTell' /\ NoLeak'
    <2>1. \A s \in rows' : \E r \in rows : s.id = r.id /\ s.owner = r.owner
      BY <1>2 DEF Descend, Follows
    <2>. QED
      BY <1>2, <2>1, SameZoom, NothingMoves
  <1>3. ASSUME NEW value \in BOOLEAN, SetLive(value) PROVE RecordsTell' /\ NoLeak'
    <2>1. UNCHANGED <<rows, zoom, syncer, mishaps, forgotten>> /\ owner \in [Owners -> OwnerRecords]
      BY <1>3 DEF SetLive, SyncInv, MeetingTypes
    <2>2. \A o \in Owners : owner'[o].exists => owner[o].exists
      BY <1>3, <2>1 DEF SetLive, OwnerRecords
    <2>3. Descend(rows, rows')
      BY <2>1 DEF SyncInv, MeetingTypes, RowsSound, Descend, Follows
    <2>. QED
      BY <1>2, <2>1, <2>2, <2>3
  <1>4. CASE AutoEnd \/ \E r \in rows : ClaimForAutoEnd(r)
    <2>1. UNCHANGED <<zoom, syncer, owner, forgotten>> /\ (mishaps' = 0 => mishaps = 0)
      BY <1>4 DEF AutoEnd, ClaimForAutoEnd, SyncInv, MeetingTypes
    <2>2. Descend(rows, rows') /\ \A r \in rows : \E s \in rows' : s.id = r.id /\ s.owner = r.owner
      BY <1>4, AutoEndFrame
    <2>. QED
      BY <1>2, <2>1, <2>2
  <1>5. CASE TimePasses \/ UNCHANGED meetingVars
    <2>1. UNCHANGED <<zoom, syncer, owner, rows, mishaps, forgotten>>
      BY <1>5 DEF TimePasses, meetingVars
    <2>2. Descend(rows, rows')
      BY <2>1 DEF SyncInv, MeetingTypes, RowsSound, Descend, Follows
    <2>. QED
      BY <1>2, <2>1, <2>2
  <1>6. CASE MarkStaleClaims
    <2>1. /\ UNCHANGED <<zoom, syncer, mishaps, forgotten>>
          /\ Descend(rows, rows')
          /\ \A r \in rows : \E s \in rows' : s.id = r.id /\ s.owner = r.owner /\ (s.claim = r.claim \/ AbandonedOrphan(r))
      BY <1>6, MarkStaleFrame DEF MarkStaleClaims
    <2>2. \A o \in Owners : owner'[o].exists = owner[o].exists
      BY <1>6, MarkStaleFrame
    <2>3. \A r \in rows : \E s \in rows' : s.id = r.id /\ s.owner = r.owner
      BY <2>1
    <2>. QED
      BY <1>2, <2>1, <2>2, <2>3
  <1>. QED
    BY <1>1, <1>3, <1>4, <1>5, <1>6, UpdateEventLeak DEF MeetingNext, Organizer

\* Whatever edits, removals, final errors and workers overlap, while no answer
\* and no worker is lost every meeting made at the provider is deleted there,
\* on record, or about to be recorded by the worker that made it; only
\* meetings of removed sessions are forgotten, and only because add_meeting
\* found no claim or set_meeting_error gave the orphan up.
THEOREM NothingForgotten == MeetingSpec => []NoLeak
  <1>1. MeetingInit => RecordsTell /\ NoLeak
    BY IdleTyped DEF MeetingInit, RecordsTell, NoLeak
  <1>. QED
    BY <1>1, InitSync, NextSync, NextLeak, PTL DEF MeetingSpec

-----------------------------------------------------------------------------
(* No host has too many meetings, but for dropped reservations *)

\* The owners for whose meetings a host is reserved.
Reserved(h) == {o \in Owners : owner[o].host = h /\ owner[o].claim # 0 /\ owner[o].sync = "no" /\ owner[o].requested}

Creating(w) == syncer[w].pc \in {"assign", "create", "add"}

\* The owners whose meetings take up a host before they are on record, whether
\* their reservations count or not.
Occupying(h) ==
    {o \in Owners : owner[o].host = h
                    \/ \E w \in Syncers : syncer[w].owner = o /\ Creating(w) /\ syncer[w].host = h}

\* The owners whose reservations an edit dropped.
Dropped ==
    {o \in Owners : ~owner[o].requested
                    /\ (owner[o].host \in Hosts \/ \E w \in Syncers : syncer[w].owner = o /\ Creating(w))}

\* A reservation that does not count was dropped, each one is counted in
\* drops, and nothing else exceeds the limit.
HostsFit ==
    /\ drops \in Nat /\ Cardinality(Dropped) <= drops
    /\ \A h \in Hosts : Cardinality(OnHost(rows, h)) + Cardinality(Occupying(h)) <= HostSlots + drops
    /\ \A v, w \in Syncers : syncer[v].owner = syncer[w].owner /\ syncer[v].owner \in Owners => v = w

LEMMA FiniteOwners ==
  ASSUME NEW S \in SUBSET Owners
  PROVE  IsFiniteSet(S) /\ Cardinality(S) \in Nat
  <1>1. IsFiniteSet(Owners)
    BY MeetingNames, FS_Singleton, FS_Union DEF Owners
  <1>2. IsFiniteSet(S)
    BY <1>1, FS_Subset
  <1>. QED
    BY <1>2, FS_CardinalityType

LEMMA OneMore ==
  ASSUME NEW S, IsFiniteSet(S), NEW x
  PROVE  IsFiniteSet(S \cup {x}) /\ Cardinality(S \cup {x}) \in Nat /\ Cardinality(S \cup {x}) <= Cardinality(S) + 1
  <1>1. /\ IsFiniteSet(S \cup {x}) /\ Cardinality(S) \in Nat
        /\ Cardinality(S \cup {x}) = IF x \in S THEN Cardinality(S) ELSE Cardinality(S) + 1
    BY FS_AddElement, FS_CardinalityType
  <1>. QED
    BY <1>1

LEMMA FiniteOnHost ==
  ASSUME NEW R, IsFiniteSet(R), NEW h
  PROVE  IsFiniteSet(OnHost(R, h)) /\ Cardinality(OnHost(R, h)) \in Nat
  <1>1. OnHost(R, h) \in SUBSET R
    BY DEF OnHost
  <1>. QED
    BY <1>1, FS_Subset, FS_CardinalityType

\* Whatever takes up a host without counting was dropped.
LEMMA CountedOrDropped ==
  ASSUME SyncInv, NEW h \in Hosts
  PROVE  Occupying(h) \subseteq Reserved(h) \cup Dropped
  <1>. SUFFICES ASSUME NEW o \in Occupying(h), owner[o].requested PROVE o \in Reserved(h)
    BY DEF Occupying, Dropped
  <1>1. o \in Owners /\ owner[o].exists /\ h # NoHost /\ owner[o].sync \in {"yes", "no", "null"}
    BY MeetingNames DEF Occupying, SyncInv, OwnersSound, MeetingTypes, OwnerRecords
  <1>2. owner[o].host = h
    BY <1>1 DEF Occupying, SyncInv, WorkersHold
  <1>. QED
    BY <1>1, <1>2 DEF Reserved, SyncInv, OwnersSound

\* A step that gives no owner a host, adds no meeting and drops nothing.
LEMMA FitKept ==
  ASSUME SyncInv, HostsFit, Descend(rows, rows'), drops' = drops,
         \A h \in Hosts : Occupying(h)' \subseteq Occupying(h), Dropped' \subseteq Dropped,
         \A v, w \in Syncers : syncer'[v].owner = syncer'[w].owner /\ syncer'[v].owner \in Owners => v = w
  PROVE  HostsFit'
  <1>1. ASSUME NEW h \in Hosts
        PROVE  Cardinality(OnHost(rows', h)) + Cardinality(Occupying(h)') <= HostSlots + drops
    <2>1. /\ IsFiniteSet(OnHost(rows, h)) /\ Cardinality(OnHost(rows, h)) \in Nat
          /\ Descend(OnHost(rows, h), OnHost(rows', h))
      BY FiniteOnHost, DescendOnHost DEF SyncInv, MeetingTypes
    <2>2. IsFiniteSet(OnHost(rows', h)) /\ Cardinality(OnHost(rows', h)) <= Cardinality(OnHost(rows, h))
      BY <2>1, DescendFinite
    <2>3. Cardinality(OnHost(rows', h)) \in Nat
      BY <2>2, FS_CardinalityType
    <2>4. IsFiniteSet(Occupying(h)) /\ Cardinality(Occupying(h)) \in Nat
      BY FiniteOwners DEF Occupying
    <2>5. Cardinality(Occupying(h)') <= Cardinality(Occupying(h)) /\ Cardinality(Occupying(h)') \in Nat
      BY <2>4, FS_Subset, FS_CardinalityType
    <2>6. Cardinality(OnHost(rows, h)) + Cardinality(Occupying(h)) <= HostSlots + drops /\ HostSlots + drops \in Nat
      BY MeetingSyncAssumption DEF HostsFit
    <2>. QED
      BY <2>1, <2>2, <2>3, <2>4, <2>5, <2>6
  <1>2. Cardinality(Dropped') <= drops
    <2>1. IsFiniteSet(Dropped) /\ Cardinality(Dropped) \in Nat
      BY FiniteOwners DEF Dropped
    <2>2. Cardinality(Dropped') <= Cardinality(Dropped) /\ Cardinality(Dropped') \in Nat
      BY <2>1, FS_Subset, FS_CardinalityType
    <2>. QED
      BY <2>1, <2>2 DEF HostsFit
  <1>. QED
    BY <1>1, <1>2 DEF HostsFit

\* The rows as they are descend from themselves.
LEMMA SameRows == ASSUME SyncInv, rows' \in SUBSET rows PROVE Descend(rows, rows')
  BY DEF SyncInv, MeetingTypes, RowsSound, Descend, Follows

\* Most steps keep or clear the hosts of owners, and keep or end creations.
LEMMA TablesFit ==
  ASSUME SyncInv, HostsFit, Descend(rows, rows'), drops' = drops,
         \A o \in Owners : /\ owner'[o].host \in {owner[o].host, NoHost}
                           /\ owner'[o].requested = owner[o].requested,
         \A w \in Syncers : /\ syncer'[w].owner \in {syncer[w].owner, Orphan}
                            /\ Creating(w)' => Creating(w) /\ syncer'[w].host = syncer[w].host
  PROVE  HostsFit'
  <1>0. NoHost \notin Hosts /\ Orphan \notin Owners
    BY MeetingNames
  <1>1. \A h \in Hosts : Occupying(h)' \subseteq Occupying(h)
    BY <1>0 DEF Occupying
  <1>2. Dropped' \subseteq Dropped
    BY <1>0 DEF Dropped
  <1>3. \A v, w \in Syncers : syncer'[v].owner = syncer'[w].owner /\ syncer'[v].owner \in Owners => v = w
    BY <1>0 DEF HostsFit
  <1>. QED
    BY <1>1, <1>2, <1>3, FitKept

\* A host is given under the lock, when what counts leaves room.
LEMMA AssignHostFits ==
  ASSUME SyncInv, HostsFit, NEW w \in Syncers, AssignHost(w)
  PROVE  HostsFit'
  <1>. DEFINE o == syncer[w].owner
  <1>0. /\ owner \in [Owners -> OwnerRecords] /\ syncer \in [Syncers -> SyncerRecords] /\ rows' = rows /\ drops' = drops
        /\ o \in Owners /\ syncer[w].pc = "assign" /\ Descend(rows, rows')
    BY SameRows DEF AssignHost, SyncInv, MeetingTypes, StepsSound
  <1>1. ASSUME owner' = owner, MoveTo(w, "create") \/ MoveTo(w, "error") PROVE HostsFit'
    <2>1. \A v \in Syncers : /\ syncer'[v].owner = syncer[v].owner /\ syncer'[v].host = syncer[v].host
                             /\ Creating(v)' => Creating(v)
      BY <1>0, <1>1 DEF MoveTo, Creating, SyncerRecords
    <2>. QED
      BY <1>0, <1>1, <2>1, TablesFit
  <1>2. ASSUME NEW h \in Hosts, Load(h) < HostSlots, owner' = [owner EXCEPT ![o].host = h],
               syncer' = [syncer EXCEPT ![w].pc = "create", ![w].host = h]
        PROVE  HostsFit'
    <2>1. /\ \A p \in Owners : p # o => owner'[p] = owner[p]
          /\ owner'[o].host = h /\ owner'[o].requested = owner[o].requested
      BY <1>0, <1>2 DEF OwnerRecords
    <2>2. /\ \A v \in Syncers : v # w => syncer'[v] = syncer[v]
          /\ syncer'[w].owner = o /\ syncer'[w].host = h /\ Creating(w)
      BY <1>0, <1>2 DEF SyncerRecords, Creating
    <2>. HIDE DEF o
    <2>3. Dropped' \subseteq Dropped
      BY <1>0, <2>1, <2>2 DEF Dropped, Creating, o
    <2>4. Occupying(h)' \subseteq Occupying(h) \cup {o} /\ \A k \in Hosts \ {h} : Occupying(k)' \subseteq Occupying(k)
      BY <1>0, <2>1, <2>2 DEF Occupying, Creating
    <2>5. ASSUME NEW k \in Hosts
          PROVE  Cardinality(OnHost(rows, k)) + Cardinality(Occupying(k)') <= HostSlots + drops
      <3>0. /\ HostSlots \in Nat /\ drops \in Nat /\ Cardinality(Dropped) <= drops
            /\ Cardinality(OnHost(rows, k)) + Cardinality(Occupying(k)) <= HostSlots + drops
        BY MeetingSyncAssumption DEF HostsFit
      <3>1. /\ Cardinality(OnHost(rows, k)) \in Nat
            /\ IsFiniteSet(Occupying(k)) /\ Cardinality(Occupying(k)) \in Nat
            /\ IsFiniteSet(Reserved(k)) /\ Cardinality(Reserved(k)) \in Nat
            /\ IsFiniteSet(Dropped) /\ Cardinality(Dropped) \in Nat
        BY FiniteOnHost, FiniteOwners DEF SyncInv, MeetingTypes, Occupying, Reserved, Dropped
      <3>2. CASE k # h
        <4>1. Cardinality(Occupying(k)') <= Cardinality(Occupying(k)) /\ Cardinality(Occupying(k)') \in Nat
          BY <2>4, <3>1, <3>2, FS_Subset, FS_CardinalityType
        <4>. QED
          BY <3>0, <3>1, <4>1
      <3>3. CASE k = h
        <4>. DEFINE U == Reserved(k) \cup Dropped
        <4>1. /\ IsFiniteSet(U) /\ Cardinality(U) \in Nat
              /\ Cardinality(U) <= Cardinality(Reserved(k)) + Cardinality(Dropped)
          <5>1. /\ IsFiniteSet(U)
                /\ Cardinality(U) = Cardinality(Reserved(k)) + Cardinality(Dropped) - Cardinality(Reserved(k) \cap Dropped)
            BY <3>1, FS_Union
          <5>2. Cardinality(U) \in Nat /\ Cardinality(Reserved(k) \cap Dropped) \in Nat
            BY <3>1, <5>1, FS_Intersection, FS_CardinalityType
          <5>. QED
            BY <3>1, <5>1, <5>2
        <4>2. Occupying(k)' \subseteq U \cup {o}
          BY <2>4, <3>3, CountedOrDropped
        <4>. HIDE DEF U
        <4>3. IsFiniteSet(U \cup {o}) /\ Cardinality(U \cup {o}) \in Nat /\ Cardinality(U \cup {o}) <= Cardinality(U) + 1
          BY <4>1, OneMore
        <4>4. Cardinality(Occupying(k)') <= Cardinality(U \cup {o}) /\ Cardinality(Occupying(k)') \in Nat
          BY <4>2, <4>3, FS_Subset, FS_CardinalityType
        <4>5. Cardinality(OnHost(rows, k)) + Cardinality(Reserved(k)) + 1 <= HostSlots
          <5>1. Load(k) = Cardinality(OnHost(rows, k)) + Cardinality(Reserved(k))
            BY DEF Load, OnHost, Reserved
          <5>. QED
            BY <1>2, <3>0, <3>1, <3>3, <5>1
        <4>. QED
          BY <3>0, <3>1, <4>1, <4>3, <4>4, <4>5
      <3>. QED
        BY <3>2, <3>3
    <2>6. Cardinality(Dropped') <= drops
      <3>1. IsFiniteSet(Dropped) /\ Cardinality(Dropped) \in Nat
        BY FiniteOwners DEF Dropped
      <3>2. Cardinality(Dropped') <= Cardinality(Dropped) /\ Cardinality(Dropped') \in Nat
        BY <2>3, <3>1, FS_Subset, FS_CardinalityType
      <3>. QED
        BY <3>1, <3>2 DEF HostsFit
    <2>7. \A v \in Syncers : syncer'[v].owner = syncer[v].owner
      BY <2>2 DEF o
    <2>. QED
      BY <1>0, <2>5, <2>6, <2>7 DEF HostsFit
  <1>. QED
    BY <1>1, <1>2 DEF AssignHost

\* The row takes the place of the reservation.
LEMMA AddedFits ==
  ASSUME SyncInv, HostsFit, NEW w \in Syncers, RecordResult(w), syncer[w].pc = "add", Holds(w)
  PROVE  HostsFit'
  <1>. DEFINE o == syncer[w].owner
              n == NewRow(w)
  <1>0. /\ o \in Owners /\ o # Orphan /\ w # 0 /\ owner[o].claim = w /\ owner[o].exists
        /\ owner[o].host = syncer[w].host /\ drops' = drops /\ syncer \in [Syncers -> SyncerRecords] /\ LeaveSync(w)
    BY MeetingNames DEF Holds, SyncInv, StepsSound, OwnersSound, WorkersHold, RecordResult, MeetingTypes
  <1>1. rows' = rows \cup {n} /\ n.host = syncer[w].host
    BY RecordedRows DEF NewRow
  <1>2. \A p \in Owners : /\ owner'[p] = owner[p] \/ owner'[p].host = NoHost
                          /\ owner'[p].requested = owner[p].requested
    BY CompletedOwner DEF RecordResult, Ended
  <1>3. owner'[o].host = NoHost
    BY <1>0, CompletedOwner DEF RecordResult, Ended
  <1>4. syncer'[w] = IdleSyncer /\ \A v \in Syncers : v # w => syncer'[v] = syncer[v] /\ syncer[v].owner # o
    BY <1>0 DEF LeaveSync, HostsFit
  <1>. HIDE DEF n
  <1>5. \A k \in Hosts : Occupying(k)' \subseteq Occupying(k) \ {o}
    BY <1>0, <1>2, <1>3, <1>4, IdleTyped, MeetingNames DEF Occupying, Creating
  <1>6. Dropped' \subseteq Dropped
    BY <1>0, <1>2, <1>4, IdleTyped, MeetingNames DEF Dropped, Creating
  <1>7. ASSUME NEW k \in Hosts
        PROVE  Cardinality(OnHost(rows', k)) + Cardinality(Occupying(k)') <= HostSlots + drops
    <2>. HIDE DEF o
    <2>0. /\ HostSlots \in Nat /\ drops \in Nat
          /\ Cardinality(OnHost(rows, k)) + Cardinality(Occupying(k)) <= HostSlots + drops
      BY MeetingSyncAssumption DEF HostsFit
    <2>1. /\ IsFiniteSet(OnHost(rows, k)) /\ Cardinality(OnHost(rows, k)) \in Nat
          /\ IsFiniteSet(Occupying(k)) /\ Cardinality(Occupying(k)) \in Nat
      BY FiniteOnHost, FiniteOwners DEF SyncInv, MeetingTypes, Occupying
    <2>2. CASE n.host # k
      <3>1. OnHost(rows', k) = OnHost(rows, k)
        BY <1>1, <2>2 DEF OnHost
      <3>2. Cardinality(Occupying(k)') <= Cardinality(Occupying(k)) /\ Cardinality(Occupying(k)') \in Nat
        <4>1. Occupying(k)' \subseteq Occupying(k)
          BY <1>5
        <4>. QED
          BY <2>1, <4>1, FS_Subset, FS_CardinalityType
      <3>. QED
        BY <2>0, <2>1, <3>1, <3>2
    <2>3. CASE n.host = k
      <3>1. o \in Occupying(k)
        BY <1>0, <1>1, <2>3 DEF Occupying
      <3>2. IsFiniteSet(Occupying(k) \ {o}) /\ Cardinality(Occupying(k) \ {o}) = Cardinality(Occupying(k)) - 1
        BY <2>1, <3>1, FS_RemoveElement
      <3>3. Cardinality(Occupying(k)') <= Cardinality(Occupying(k)) - 1 /\ Cardinality(Occupying(k)') \in Nat
        BY <1>5, <3>2, FS_Subset, FS_CardinalityType
      <3>4. OnHost(rows', k) \subseteq OnHost(rows, k) \cup {n}
        BY <1>1 DEF OnHost
      <3>5. /\ IsFiniteSet(OnHost(rows, k) \cup {n}) /\ Cardinality(OnHost(rows, k) \cup {n}) \in Nat
            /\ Cardinality(OnHost(rows, k) \cup {n}) <= Cardinality(OnHost(rows, k)) + 1
        BY <2>1, OneMore
      <3>6. Cardinality(OnHost(rows', k)) <= Cardinality(OnHost(rows, k) \cup {n}) /\ Cardinality(OnHost(rows', k)) \in Nat
        BY <3>4, <3>5, FS_Subset, FS_CardinalityType
      <3>. QED
        BY <2>0, <2>1, <3>3, <3>5, <3>6
    <2>. QED
      BY <2>2, <2>3
  <1>8. Cardinality(Dropped') <= drops
    <2>1. IsFiniteSet(Dropped) /\ Cardinality(Dropped) \in Nat
      BY FiniteOwners DEF Dropped
    <2>2. Cardinality(Dropped') <= Cardinality(Dropped) /\ Cardinality(Dropped') \in Nat
      BY <1>6, <2>1, FS_Subset, FS_CardinalityType
    <2>. QED
      BY <2>1, <2>2 DEF HostsFit
  <1>9. \A u, v \in Syncers : syncer'[u].owner = syncer'[v].owner /\ syncer'[u].owner \in Owners => u = v
    BY <1>4, IdleTyped, MeetingNames DEF HostsFit
  <1>. QED
    BY <1>0, <1>7, <1>8, <1>9 DEF HostsFit

\* A worker that adds no row gives its reservation back, or is lost with it.
LEMMA LeavingFits ==
  ASSUME SyncInv, HostsFit, NEW w \in Syncers, LeaveSync(w), Descend(rows, rows'), drops' = drops,
         \A p \in Owners : owner'[p] = owner[p] \/ Ended(p, w)
  PROVE  HostsFit'
  <1>1. \A p \in Owners : owner'[p].host \in {owner[p].host, NoHost} /\ owner'[p].requested = owner[p].requested
    BY DEF Ended
  <1>2. \A v \in Syncers : /\ syncer'[v].owner \in {syncer[v].owner, Orphan}
                           /\ Creating(v)' => Creating(v) /\ syncer'[v].host = syncer[v].host
    <2>1. syncer'[w] = IdleSyncer /\ \A v \in Syncers : v # w => syncer'[v] = syncer[v]
      BY DEF LeaveSync, SyncInv, MeetingTypes
    <2>. QED
      BY <2>1, IdleTyped DEF Creating
  <1>. QED
    BY <1>1, <1>2, TablesFit

\* A form without a requested meeting, or without its session, drops the
\* reservation of the claim that is at work for it.
LEMMA UpdateEventFits ==
  ASSUME SyncInv, HostsFit, NEW o \in Owners, NEW requested \in BOOLEAN, NEW changed \in BOOLEAN,
         NEW removed \in SUBSET Sessions, UpdateEvent(o, requested, changed, removed)
  PROVE  HostsFit'
  <1>. DEFINE unwanted == IF requested THEN removed ELSE removed \cup {o}
              X == {p \in unwanted : owner[p].requested /\ owner[p].claim # 0}
  <1>0. drops' = drops + Cardinality(X) /\ syncer' = syncer
    BY DEF UpdateEvent
  <1>1. Descend(rows, rows')
    BY OrphanedRows DEF UpdateEvent
  <1>2. ASSUME NEW p \in Owners
        PROVE  /\ owner'[p].host \in {owner[p].host, NoHost}
               /\ owner[p].requested /\ ~owner'[p].requested => p \in unwanted
    <2>1. /\ \A x \in removed : owner'[x] = Gone(x)
          /\ owner'[o] = Saved(o, requested, changed) /\ o \in Present
          /\ \A x \in Present \ (removed \cup {o}) : owner'[x] = Saved(x, owner[x].requested, FALSE)
          /\ \A x \in Owners \ Present : owner'[x] = owner[x]
      BY ZenonT(40), UpdateEventOwners
    <2>2. owner[p].requested \in BOOLEAN
      BY DEF SyncInv, MeetingTypes, OwnerRecords
    <2>3. CASE p \in removed
      BY <2>1, <2>3, GoneFacts
    <2>4. CASE p = o
      <3>1. owner'[p].host = owner[p].host /\ owner'[p].requested = requested
        BY <2>1, <2>4, SavedFacts DEF Present
      <3>2. ~requested => p \in unwanted
        BY <2>4
      <3>. HIDE DEF unwanted
      <3>. QED
        BY <3>1, <3>2
    <2>5. CASE p \in Present \ (removed \cup {o})
      <3>1. PICK q, c \in BOOLEAN : q = owner[p].requested /\ c = FALSE
        BY <2>2
      <3>2. owner[p].exists /\ owner'[p] = Saved(p, q, c)
        BY <2>1, <2>5, <3>1 DEF Present
      <3>3. owner'[p].host = owner[p].host /\ owner'[p].requested = q
        BY <3>2, SavedFacts
      <3>4. owner'[p].host = owner[p].host /\ owner'[p].requested = owner[p].requested
        BY <3>1, <3>3
      <3>. HIDE DEF unwanted
      <3>. QED
        BY Zenon, <3>4
    <2>6. CASE p \in Owners \ Present
      BY <2>1, <2>6
    <2>. QED
      BY <2>3, <2>4, <2>5, <2>6
  <1>3. X \subseteq Owners
    BY DEF Owners
  <1>4. IsFiniteSet(X) /\ Cardinality(X) \in Nat
    BY <1>3, FiniteOwners
  <1>. HIDE DEF unwanted
  <1>5. Dropped' \subseteq Dropped \cup X
    <2>. SUFFICES ASSUME NEW p \in Owners, p \in Dropped', owner[p].requested PROVE p \in X
      BY <1>0, <1>2, MeetingNames DEF Dropped, Creating
    <2>1. p \in unwanted /\ owner[p].exists
      BY <1>2 DEF Dropped, SyncInv, OwnersSound
    <2>2. owner[p].host \in Hosts \/ \E w \in Syncers : syncer[w].owner = p
      BY <1>0, <1>2, MeetingNames DEF Dropped, Creating
    <2>3. owner[p].claim # 0
      BY <2>1, <2>2, MeetingNames DEF SyncInv, OwnersSound, WorkersHold
    <2>. QED
      BY <2>1, <2>3
  <1>6. \A h \in Hosts : Occupying(h)' \subseteq Occupying(h)
    BY <1>0, <1>2, MeetingNames DEF Occupying, Creating
  <1>. HIDE DEF X
  <1>7. Cardinality(Dropped') <= drops'
    <2>1. IsFiniteSet(Dropped) /\ Cardinality(Dropped) \in Nat
      BY FiniteOwners DEF Dropped
    <2>2. IsFiniteSet(Dropped \cup X) /\ Cardinality(Dropped \cup X) <= Cardinality(Dropped) + Cardinality(X)
      <3>1. /\ IsFiniteSet(Dropped \cup X)
            /\ Cardinality(Dropped \cup X) = Cardinality(Dropped) + Cardinality(X) - Cardinality(Dropped \cap X)
        BY <1>4, <2>1, FS_Union
      <3>2. Cardinality(Dropped \cap X) \in Nat
        BY <2>1, FS_Intersection, FS_CardinalityType
      <3>. QED
        BY <1>4, <2>1, <3>1, <3>2
    <2>3. Cardinality(Dropped') <= Cardinality(Dropped \cup X)
      BY <1>5, <2>2, FS_Subset
    <2>4. Cardinality(Dropped \cup X) \in Nat /\ Cardinality(Dropped') \in Nat
      BY <1>5, <2>2, FS_Subset, FS_CardinalityType
    <2>. QED
      BY <1>0, <1>4, <2>1, <2>2, <2>3, <2>4 DEF HostsFit
  <1>8. ASSUME NEW h \in Hosts
        PROVE  Cardinality(OnHost(rows', h)) + Cardinality(Occupying(h)') <= HostSlots + drops'
    <2>1. /\ IsFiniteSet(OnHost(rows, h)) /\ Cardinality(OnHost(rows, h)) \in Nat
          /\ Descend(OnHost(rows, h), OnHost(rows', h))
      BY <1>1, FiniteOnHost, DescendOnHost DEF SyncInv, MeetingTypes
    <2>2. IsFiniteSet(OnHost(rows', h)) /\ Cardinality(OnHost(rows', h)) <= Cardinality(OnHost(rows, h))
      BY <2>1, DescendFinite
    <2>3. Cardinality(OnHost(rows', h)) \in Nat
      BY <2>2, FS_CardinalityType
    <2>4. IsFiniteSet(Occupying(h)) /\ Cardinality(Occupying(h)) \in Nat
      BY FiniteOwners DEF Occupying
    <2>5. Cardinality(Occupying(h)') <= Cardinality(Occupying(h)) /\ Cardinality(Occupying(h)') \in Nat
      BY <1>6, <2>4, FS_Subset, FS_CardinalityType
    <2>6. /\ Cardinality(OnHost(rows, h)) + Cardinality(Occupying(h)) <= HostSlots + drops
          /\ HostSlots \in Nat /\ drops \in Nat
      BY MeetingSyncAssumption DEF HostsFit
    <2>. QED
      BY <1>0, <1>4, <2>1, <2>2, <2>3, <2>4, <2>5, <2>6
  <1>9. drops' \in Nat
    BY <1>0, <1>4 DEF HostsFit
  <1>. QED
    BY <1>0, <1>7, <1>8, <1>9 DEF HostsFit

\* Only owners without a host are claimed, and only wanted meetings
\* are created.
LEMMA ClaimOwnerFits ==
  ASSUME SyncInv, HostsFit, NEW w \in Syncers, NEW o \in Owners, ClaimOwner(w, o)
  PROVE  HostsFit'
  <1>0. /\ rows' = rows /\ drops' = drops /\ owner \in [Owners -> OwnerRecords] /\ Descend(rows, rows')
        /\ owner' = [owner EXCEPT ![o].claim = w, ![o].error = "none"] /\ o # Orphan
    BY SameRows, MeetingNames DEF ClaimOwner, SyncInv, MeetingTypes
  <1>1. \A p \in Owners : owner'[p].host = owner[p].host /\ owner'[p].requested = owner[p].requested
    BY <1>0 DEF OwnerRecords
  <1>2. /\ owner[o].exists /\ owner[o].claim = 0 /\ syncer'[w].owner = o /\ syncer'[w].host = NoHost
        /\ Creating(w)' => owner[o].requested
        /\ \A v \in Syncers : v # w => syncer'[v] = syncer[v]
    <2>1. /\ owner[o].exists /\ owner[o].claim = 0 /\ syncer'[w].owner = o /\ syncer'[w].host = owner[o].host
          /\ Creating(w)' => Wanted(o)
          /\ \A v \in Syncers : v # w => syncer'[v] = syncer[v]
      BY ClaimedWork DEF Creating
    <2>. QED
      BY <2>1 DEF SyncInv, OwnersSound, Wanted
  <1>3. \A v \in Syncers : syncer[v].owner # o
    BY <1>2, MeetingNames DEF SyncInv, WorkersHold
  <1>4. \A h \in Hosts : Occupying(h)' \subseteq Occupying(h)
    BY <1>1, <1>2, MeetingNames DEF Occupying, Creating
  <1>5. Dropped' \subseteq Dropped
    BY <1>1, <1>2, MeetingNames DEF Dropped, Creating
  <1>6. \A u, v \in Syncers : syncer'[u].owner = syncer'[v].owner /\ syncer'[u].owner \in Owners => u = v
    BY <1>2, <1>3 DEF HostsFit
  <1>. QED
    BY <1>0, <1>4, <1>5, <1>6, FitKept

LEMMA RecordResultFits ==
  ASSUME SyncInv, HostsFit, NEW w \in Syncers, RecordResult(w)
  PROVE  HostsFit'
  <1>1. CASE syncer[w].pc = "add" /\ Holds(w)
    BY <1>1, AddedFits
  <1>2. CASE ~(syncer[w].pc = "add" /\ Holds(w))
    <2>1. rows' \in SUBSET rows
      BY <1>2, RecordedRows DEF Added
    <2>2. Descend(rows, rows') /\ LeaveSync(w) /\ drops' = drops
      BY <2>1, SameRows DEF RecordResult
    <2>3. \A p \in Owners : owner'[p] = owner[p] \/ Ended(p, w)
      BY CompletedOwner DEF RecordResult
    <2>. QED
      BY <2>2, <2>3, LeavingFits
  <1>. QED
    BY <1>1, <1>2

LEMMA NextFits ==
  SyncInv /\ InSyncIsTrue /\ HostsFit /\ [MeetingNext]_meetingVars => HostsFit'
  <1>. SUFFICES ASSUME SyncInv, InSyncIsTrue, HostsFit, [MeetingNext]_meetingVars PROVE HostsFit'
    OBVIOUS
  <1>0. owner \in [Owners -> OwnerRecords] /\ syncer \in [Syncers -> SyncerRecords]
    BY DEF SyncInv, MeetingTypes
  <1>1. ASSUME owner' = owner, drops' = drops, Descend(rows, rows'),
               \A w \in Syncers : /\ syncer'[w].owner \in {syncer[w].owner, Orphan}
                                  /\ Creating(w)' => Creating(w) /\ syncer'[w].host = syncer[w].host
        PROVE  HostsFit'
    BY <1>1, TablesFit
  <1>2. ASSUME NEW w \in Syncers, NEW r \in rows, ClaimOrphan(w, r) PROVE HostsFit'
    <2>1. /\ owner' = owner /\ Descend(rows, rows') /\ drops' = drops
          /\ syncer'[w].pc = "delete" /\ syncer'[w].owner = Orphan
          /\ \A v \in Syncers : v # w => syncer'[v] = syncer[v]
      BY <1>2, ClaimOrphanFrame DEF ClaimOrphan
    <2>2. \A v \in Syncers : /\ syncer'[v].owner \in {syncer[v].owner, Orphan}
                             /\ Creating(v)' => Creating(v) /\ syncer'[v].host = syncer[v].host
      BY <2>1 DEF Creating
    <2>. QED
      BY <1>1, <2>1, <2>2
  <1>3. ASSUME NEW w \in Syncers, SetMeetingError(w) PROVE HostsFit'
    <2>1. rows' \in SUBSET rows /\ CompleteOwner(w, "failed") /\ LeaveSync(w) /\ drops' = drops
      BY <1>3 DEF SetMeetingError
    <2>2. \A p \in Owners : owner'[p] = owner[p] \/ Ended(p, w)
      BY <2>1, CompletedOwner
    <2>. QED
      BY <2>1, <2>2, SameRows, LeavingFits
  <1>4. ASSUME NEW w \in Syncers, ReleaseSyncClaim(w) PROVE HostsFit'
    <2>1. drops' = drops
      BY <1>4 DEF ReleaseSyncClaim
    <2>. QED
      BY <1>4, <2>1, ReleaseFrame, LeavingFits
  <1>5. ASSUME NEW w \in Syncers, CallFails(w) \/ CreateMeeting(w) \/ UpdateMeeting(w) \/ DeleteMeeting(w)
        PROVE  HostsFit'
    <2>1. owner' = owner /\ drops' = drops /\ rows' = rows
      BY <1>5 DEF CallFails, CreateMeeting, UpdateMeeting, DeleteMeeting
    <2>2. \/ \E pc \in {"error", "release", "save", "remove"} : syncer' = [syncer EXCEPT ![w].pc = pc]
          \/ syncer[w].pc = "create" /\ \E id \in Nat : syncer' = [syncer EXCEPT ![w].pc = "add", ![w].id = id]
      <3>1. Cardinality(DOMAIN zoom) + 1 \in Nat
        BY DEF SyncInv, MeetingTypes, Made
      <3>. QED
        BY <1>5, <3>1 DEF CallFails, CreateMeeting, UpdateMeeting, DeleteMeeting, Lost, MoveTo
    <2>3. \A v \in Syncers : /\ syncer'[v].owner \in {syncer[v].owner, Orphan}
                             /\ Creating(v)' => Creating(v) /\ syncer'[v].host = syncer[v].host
      BY <1>0, <2>2 DEF Creating, SyncerRecords
    <2>. QED
      BY <1>1, <2>1, <2>3, SameRows
  <1>6. ASSUME NEW w \in Syncers, SyncerStep(w) PROVE HostsFit'
    BY <1>2, <1>3, <1>4, <1>5, <1>6, ClaimOwnerFits, AssignHostFits, RecordResultFits DEF SyncerStep
  <1>7. ASSUME NEW w \in Syncers, SyncerLost(w) PROVE HostsFit'
    BY <1>7, SameRows, LeavingFits DEF SyncerLost
  <1>8. ASSUME NEW value \in BOOLEAN, SetLive(value) PROVE HostsFit'
    <2>1. /\ rows' = rows /\ syncer' = syncer /\ drops' = drops
          /\ \A p \in Owners : owner'[p].host = owner[p].host /\ owner'[p].requested = owner[p].requested
      BY <1>0, <1>8 DEF SetLive, OwnerRecords
    <2>. QED
      BY <2>1, SameRows, TablesFit DEF Creating
  <1>9. CASE AutoEnd \/ \E r \in rows : ClaimForAutoEnd(r)
    <2>1. owner' = owner /\ syncer' = syncer /\ drops' = drops /\ Descend(rows, rows')
      BY <1>9, AutoEndFrame DEF AutoEnd, ClaimForAutoEnd
    <2>. QED
      BY <1>1, <2>1 DEF Creating
  <1>10. CASE MarkStaleClaims
    <2>1. /\ Descend(rows, rows') /\ syncer' = syncer /\ drops' = drops
          /\ \A p \in Owners : owner'[p].host \in {owner[p].host, NoHost} /\ owner'[p].requested = owner[p].requested
      BY <1>10, MarkStaleFrame DEF MarkStaleClaims
    <2>. QED
      BY <2>1, TablesFit DEF Creating
  <1>11. CASE TimePasses \/ UNCHANGED meetingVars
    BY <1>1, <1>11, SameRows DEF TimePasses, meetingVars, Creating
  <1>. QED
    BY <1>6, <1>7, <1>8, <1>9, <1>10, <1>11, UpdateEventFits DEF MeetingNext, Organizer

\* A worker about to create a meeting on a host is counted with its owner.
LEMMA FitMeansBooked ==
  ASSUME SyncInv, HostsFit
  PROVE  OverbookedByDropsOnly
  <1>. SUFFICES ASSUME NEW h \in Hosts PROVE Booked(h) <= HostSlots + drops
    BY DEF OverbookedByDropsOnly
  <1>. DEFINE busy == {w \in Syncers : syncer[w].host = h /\ syncer[w].pc \in {"create", "add"}}
              f == [w \in busy |-> syncer[w].owner]
  <1>1. ASSUME NEW w \in busy PROVE f[w] \in Occupying(h) /\ f[w] = syncer[w].owner /\ f[w] \in Owners
    BY DEF Occupying, Creating, SyncInv, StepsSound
  <1>2. f \in [busy -> Occupying(h)] /\ DOMAIN f = busy
    BY <1>1
  <1>3. \A v, w \in busy : f[v] = f[w] => v = w
    BY <1>1 DEF HostsFit
  <1>. HIDE DEF f
  <1>4. f \in Injection(busy, Occupying(h))
    BY <1>2, <1>3 DEF Injection, IsInjective
  <1>5. /\ Cardinality(OnHost(rows, h)) \in Nat
        /\ IsFiniteSet(Occupying(h)) /\ Cardinality(Occupying(h)) \in Nat
    BY FiniteOnHost, FiniteOwners DEF SyncInv, MeetingTypes, Occupying
  <1>6. IsFiniteSet(busy) /\ Cardinality(busy) <= Cardinality(Occupying(h))
    BY <1>4, <1>5, FS_Injection
  <1>7. Cardinality(busy) \in Nat
    BY <1>6, FS_CardinalityType
  <1>8. /\ Cardinality(OnHost(rows, h)) + Cardinality(Occupying(h)) <= HostSlots + drops
        /\ HostSlots \in Nat /\ drops \in Nat
    BY MeetingSyncAssumption DEF HostsFit
  <1>9. Booked(h) = Cardinality(OnHost(rows, h)) + Cardinality(busy)
    BY DEF Booked, OnHost
  <1>. QED
    BY <1>5, <1>6, <1>7, <1>8, <1>9

\* However workers, saves, removals, publishing and faults overlap, a host is
\* given at most one simultaneous meeting more than configured for every claim
\* whose meeting was switched off or removed while it was made, the meetings
\* about to be created included: assign_zoom_host_user never gives a slot
\* twice otherwise.
THEOREM HostsNotOverbooked == MeetingSpec => []OverbookedByDropsOnly
  <1>1. MeetingInit => HostsFit
    <2>. SUFFICES ASSUME MeetingInit PROVE HostsFit
      OBVIOUS
    <2>1. \A w \in Syncers : syncer[w].owner = Orphan /\ ~Creating(w)
      BY IdleTyped DEF MeetingInit, Creating
    <2>2. Dropped = {} /\ \A h \in Hosts : OnHost(rows, h) = {} /\ Occupying(h) = {}
      BY <2>1, MeetingNames DEF MeetingInit, OnHost, Occupying, Dropped
    <2>3. Cardinality({}) = 0 /\ HostSlots \in Nat /\ drops = 0
      BY FS_EmptySet, MeetingSyncAssumption DEF MeetingInit
    <2>. QED
      BY <2>1, <2>2, <2>3, MeetingNames DEF HostsFit
  <1>2. SyncInv /\ HostsFit => OverbookedByDropsOnly
    BY FitMeansBooked
  <1>. QED
    BY <1>1, <1>2, InitSync, NextSync, NextFits, PTL DEF MeetingSpec
=============================================================================
