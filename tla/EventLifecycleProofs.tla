------------------------ MODULE EventLifecycleProofs ------------------------
(***************************************************************************)
(* The events of a series for any events, people, requests and accounts:   *)
(* a cancellation tells everyone it takes a place from, deletion leaves    *)
(* nobody behind, and whatever is on sale can be sold.                     *)
(*                                                                         *)
(* Two arguments that do not meet.  Between the lock of a cancellation and *)
(* its commit nobody enters, leaves, publishes or ends the locked events,  *)
(* so the recipients that were read are still those who lose their place.  *)
(* And a check that a request brings along is about the account it names:  *)
(* the transaction that uses it finds that account to be the sponsor.      *)
(***************************************************************************)
EXTENDS EventLifecycle, TLAPS

RowFields == {"published", "canceled", "deleted", "past", "ever", "paid", "tax", "rates"}

\* The shape of the state.
LifecycleShape ==
    /\ DOMAIN event = Events /\ \A e \in Events : DOMAIN event[e] = RowFields
    /\ DOMAIN place = Events /\ \A e \in Events : DOMAIN place[e] = Users
    /\ DOMAIN request = Requests
    /\ DOMAIN locked = Events
    /\ DOMAIN lost = Events /\ DOMAIN told = Events

\* A cancellation that holds its locks will tell those who are there now.
CancelHolds(r) ==
    request[r].op = "cancel" =>
        /\ request[r].ids \subseteq Events
        /\ request[r].step = "commit" => \A e \in request[r].ids :
              /\ locked[e] = r
              /\ Active(event[e])
              /\ event[e].published => Enrolled(e) \subseteq request[r].tell[e]

CancelsHold == \A r \in Requests : CancelHolds(r)

\* Nobody has a place at an event that was canceled.
CanceledEmpty == \A e \in Events : event[e].canceled => Enrolled(e) = {}

CancelInv == LifecycleShape /\ CancelsHold /\ CanceledEmpty /\ CancellationTold /\ NobodyLeftBehind

LEMMA InitCancelInv == LifecycleInit => CancelInv
  <1>. SUFFICES ASSUME LifecycleInit PROVE CancelInv
    OBVIOUS
  <1>1. LifecycleShape
    BY DEF LifecycleInit, LifecycleShape, RowFields
  <1>2. \A e \in Events : ~event[e].canceled /\ ~event[e].deleted /\ told[e] = {}
    BY DEF LifecycleInit
  <1>3. \A r \in Requests : request[r].op # "cancel"
    BY DEF LifecycleInit, Idle
  <1>. QED
    BY <1>1, <1>2, <1>3 DEF CancelInv, CancelsHold, CancelHolds, CanceledEmpty, CancellationTold, NobodyLeftBehind

\* What a step leaves of an event as far as cancellation is concerned.
SameEvent(e) ==
    /\ event'[e].published = event[e].published
    /\ event'[e].canceled = event[e].canceled
    /\ event'[e].deleted = event[e].deleted
    /\ place'[e] = place[e]
    /\ locked'[e] = locked[e]

\* A request's cancellation is not disturbed by a step that leaves the events
\* it locked alone.
LEMMA OtherCancel ==
  ASSUME CancelInv, NEW q \in Requests, request'[q] = request[q],
         \A e \in Events : locked[e] = q => SameEvent(e)
  PROVE  CancelHolds(q)'
  <1>. SUFFICES ASSUME request[q].op = "cancel"
                PROVE  /\ request[q].ids \subseteq Events
                       /\ request[q].step = "commit" => \A e \in request[q].ids :
                             /\ locked'[e] = q
                             /\ Active(event'[e])
                             /\ event'[e].published => Enrolled(e)' \subseteq request[q].tell[e]
    BY DEF CancelHolds
  <1>1. request[q].ids \subseteq Events
    BY DEF CancelInv, CancelsHold, CancelHolds
  <1>2. ASSUME NEW e \in request[q].ids, request[q].step = "commit"
        PROVE  /\ locked'[e] = q
               /\ Active(event'[e])
               /\ event'[e].published => Enrolled(e)' \subseteq request[q].tell[e]
    <2>1. /\ locked[e] = q /\ Active(event[e]) /\ e \in Events
          /\ event[e].published => Enrolled(e) \subseteq request[q].tell[e]
      BY <1>1, <1>2 DEF CancelInv, CancelsHold, CancelHolds
    <2>2. SameEvent(e)
      BY <2>1
    <2>. QED
      BY <2>1, <2>2 DEF SameEvent, Active, Enrolled
  <1>. QED
    BY <1>1, <1>2

\* The same for all requests, when r's step does not end in a commit to come.
LEMMA CancelsKept ==
  ASSUME CancelInv, NEW r \in Requests, NEW held, request' = [request EXCEPT ![r] = held],
         held.op = "cancel" => held.ids \subseteq Events /\ held.step # "commit",
         \A e \in Events : locked[e] \in Requests \ {r} => SameEvent(e)
  PROVE  CancelsHold'
  <1>0. DOMAIN request = Requests
    BY DEF CancelInv, LifecycleShape
  <1>1. CancelHolds(r)'
    BY <1>0 DEF CancelHolds
  <1>2. ASSUME NEW q \in Requests, q # r PROVE CancelHolds(q)'
    BY <1>0, <1>2, OtherCancel
  <1>. QED
    BY <1>1, <1>2 DEF CancelsHold

\* A step that only moves a request on.
LEMMA OnlyRequest ==
  ASSUME CancelInv, NEW r \in Requests, NEW held, request' = [request EXCEPT ![r] = held],
         held.op = "cancel" => held.ids \subseteq Events /\ held.step # "commit",
         UNCHANGED <<event, place, locked, lost, told>>
  PROVE  CancelInv'
  <1>1. CancelsHold'
    BY CancelsKept DEF SameEvent
  <1>. QED
    BY <1>1 DEF CancelInv, LifecycleShape, CanceledEmpty, CancellationTold, NobodyLeftBehind, Enrolled

LEMMA FailKeeps ==
  ASSUME CancelInv, NEW r \in Requests, Fail(r)
  PROVE  CancelInv'
  <1>1. Idle.op # "cancel"
    BY DEF Idle
  <1>. QED
    BY <1>1, OnlyRequest DEF Fail, Finish

\* Publishing, updating and the settings leave places, cancellations and
\* deletions as they are; what they publish is active.
LEMMA RowsRewritten ==
  ASSUME CancelInv, NEW r \in Requests, Finish(r), UNCHANGED <<place, locked, lost, told>>,
         DOMAIN event' = Events,
         \A e \in Events :
            /\ DOMAIN event'[e] = RowFields
            /\ event'[e].canceled = event[e].canceled
            /\ event'[e].deleted = event[e].deleted
            /\ event'[e].past = event[e].past
            /\ event'[e].published # event[e].published => Active(event[e]) /\ locked[e] = None
  PROVE  CancelInv'
  <1>1. CancelsHold'
    <2>1. Idle.op # "cancel"
      BY DEF Idle
    <2>2. \A e \in Events : locked[e] \in Requests \ {r} => SameEvent(e)
      BY NoneIsNothing DEF SameEvent
    <2>. QED
      BY <2>1, <2>2, CancelsKept DEF Finish
  <1>2. LifecycleShape'
    BY DEF CancelInv, LifecycleShape, Finish
  <1>3. CanceledEmpty' /\ NobodyLeftBehind'
    BY DEF CancelInv, CanceledEmpty, NobodyLeftBehind, Enrolled
  <1>4. CancellationTold'
    BY DEF CancelInv, CancellationTold, Active
  <1>. QED
    BY <1>1, <1>2, <1>3, <1>4 DEF CancelInv

LEMMA PublishKeeps ==
  ASSUME CancelInv, NEW r \in Requests, CommitPublish(r)
  PROVE  CancelInv'
  <1>. DEFINE fresh == {e \in request[r].ids : ~event[e].published}
  <1>1. CASE /\ \A e \in request[r].ids : Active(event[e])
             /\ Unlocked(request[r].ids)
             /\ event' = [e \in Events |-> IF e \in fresh THEN PublishEvent(event[e]) ELSE event[e]]
             /\ Finish(r) /\ UNCHANGED <<sponsor, place, locked, lost, told>>
    <2>1. \A e \in Events : DOMAIN event[e] = RowFields
      BY DEF CancelInv, LifecycleShape
    <2>2. ASSUME NEW e \in Events
          PROVE  /\ DOMAIN event'[e] = RowFields
                 /\ event'[e].canceled = event[e].canceled
                 /\ event'[e].deleted = event[e].deleted
                 /\ event'[e].past = event[e].past
                 /\ event'[e].published # event[e].published => Active(event[e]) /\ locked[e] = None
      <3>1. CASE e \in fresh
        BY <1>1, <2>1, <3>1 DEF PublishEvent, RowFields, Unlocked
      <3>2. CASE e \notin fresh
        BY <1>1, <2>1, <3>2
      <3>. QED
        BY <3>1, <3>2
    <2>. QED
      BY <1>1, <2>2, RowsRewritten
  <1>. QED
    BY <1>1, FailKeeps DEF CommitPublish

LEMMA UpdateKeeps ==
  ASSUME CancelInv, NEW r \in Requests, CommitUpdate(r)
  PROVE  CancelInv'
  <1>1. CASE /\ event' = [event EXCEPT ![request[r].e] = UpdateEvent(@, request[r].t)]
             /\ Finish(r) /\ UNCHANGED <<sponsor, place, locked, lost, told>>
    <2>1. DOMAIN event = Events /\ \A e \in Events : DOMAIN event[e] = RowFields
      BY DEF CancelInv, LifecycleShape
    <2>2. ASSUME NEW e \in Events
          PROVE  /\ DOMAIN event'[e] = RowFields
                 /\ event'[e].canceled = event[e].canceled
                 /\ event'[e].deleted = event[e].deleted
                 /\ event'[e].past = event[e].past
                 /\ event'[e].published = event[e].published
      <3>1. CASE e = request[r].e
        <4>1. event'[e] = UpdateEvent(event[e], request[r].t)
          BY <1>1, <2>1, <3>1
        <4>. QED
          BY <2>1, <4>1 DEF UpdateEvent, RowFields
      <3>2. CASE e # request[r].e
        BY <1>1, <2>1, <3>2
      <3>. QED
        BY <3>1, <3>2
    <2>. QED
      BY <1>1, <2>1, <2>2, RowsRewritten
  <1>. QED
    BY <1>1, FailKeeps DEF CommitUpdate

LEMMA SettingsKeep ==
  ASSUME CancelInv, NEW r \in Requests, UpdateGroup(r)
  PROVE  CancelInv'
  <1>1. CASE /\ event' = [e \in Events |-> ClearedRates(event[e], request[r].a)]
             /\ Finish(r) /\ UNCHANGED <<place, locked, lost, told>>
    <2>1. \A e \in Events : DOMAIN event[e] = RowFields
      BY DEF CancelInv, LifecycleShape
    <2>2. ASSUME NEW e \in Events
          PROVE  /\ DOMAIN event'[e] = RowFields
                 /\ event'[e].canceled = event[e].canceled
                 /\ event'[e].deleted = event[e].deleted
                 /\ event'[e].past = event[e].past
                 /\ event'[e].published = event[e].published
      BY <1>1, <2>1 DEF ClearedRates, RowFields
    <2>. QED
      BY <1>1, <2>2, RowsRewritten
  <1>. QED
    BY <1>1, FailKeeps DEF UpdateGroup

LEMMA LockKeeps ==
  ASSUME CancelInv, NEW r \in Requests, LockCancel(r)
  PROVE  CancelInv'
  <1>. DEFINE ids == request[r].ids
              held == [op |-> "cancel", step |-> "commit", ids |-> ids,
                       tell |-> [e \in ids |-> CancelRecipients(e)]]
  <1>1. CASE /\ Unlocked(ids) /\ \A e \in ids : Active(event[e]) /\ ~event[e].past
             /\ LockEventsForCancellation(r, ids)
             /\ request' = [request EXCEPT ![r] = held]
             /\ UNCHANGED <<event, sponsor, place, lost, told, used>>
    <2>0. DOMAIN request = Requests /\ DOMAIN locked = Events /\ ids \subseteq Events
      BY DEF CancelInv, LifecycleShape, CancelsHold, CancelHolds, LockCancel
    <2>1. CancelHolds(r)'
      <3>1. request'[r] = held
        BY <1>1, <2>0
      <3>2. ASSUME NEW e \in ids
            PROVE  /\ locked'[e] = r
                   /\ Active(event'[e])
                   /\ event'[e].published => Enrolled(e)' \subseteq held.tell[e]
        BY <1>1, <2>0, <3>2 DEF LockEventsForCancellation, CancelRecipients, Enrolled
      <3>. QED
        BY <2>0, <3>1, <3>2 DEF CancelHolds
    <2>2. ASSUME NEW q \in Requests, q # r PROVE CancelHolds(q)'
      <3>1. \A e \in Events : locked[e] = q => SameEvent(e)
        BY <1>1, NoneIsNothing DEF Unlocked, LockEventsForCancellation, SameEvent
      <3>2. request'[q] = request[q]
        BY <1>1, <2>0, <2>2
      <3>. QED
        BY <3>1, <3>2, OtherCancel
    <2>3. LifecycleShape'
      BY <1>1 DEF CancelInv, LifecycleShape, LockEventsForCancellation
    <2>4. CanceledEmpty' /\ CancellationTold' /\ NobodyLeftBehind'
      BY <1>1 DEF CancelInv, CanceledEmpty, CancellationTold, NobodyLeftBehind, Enrolled
    <2>. QED
      BY <2>1, <2>2, <2>3, <2>4 DEF CancelInv, CancelsHold
  <1>. QED
    BY <1>1, FailKeeps DEF LockCancel

\* The commit of a cancellation ends places at events that were not canceled
\* before, and those who held them are among the recipients.
LEMMA CommitCancelKeeps ==
  ASSUME CancelInv, NEW r \in Requests, CommitCancel(r)
  PROVE  CancelInv'
  <1>. DEFINE ids == request[r].ids
  <1>0. LifecycleShape
    BY DEF CancelInv
  <1>1. \A e \in ids : /\ e \in Events /\ locked[e] = r /\ Active(event[e])
                       /\ event[e].published => Enrolled(e) \subseteq request[r].tell[e]
    BY DEF CancelInv, CancelsHold, CancelHolds, CommitCancel
  <1>2. LifecycleShape'
    BY <1>0 DEF LifecycleShape, CommitCancel, Unlock, Finish, RowFields
  <1>3. ASSUME NEW e \in Events, e \in ids
        PROVE  /\ event'[e].canceled /\ event'[e].deleted = event[e].deleted
               /\ event'[e].published = event[e].published
               /\ Enrolled(e)' = {} /\ lost'[e] = Enrolled(e)
               /\ told'[e] = told[e] \cup request[r].tell[e]
    BY <1>0, <1>3 DEF CommitCancel, LifecycleShape, RowFields, Enrolled
  <1>4. ASSUME NEW e \in Events, e \notin ids
        PROVE  /\ event'[e] = event[e] /\ place'[e] = place[e]
               /\ lost'[e] = lost[e] /\ told'[e] = told[e] /\ Enrolled(e)' = Enrolled(e)
    BY <1>4 DEF CommitCancel, Enrolled
  <1>5. CancelsHold'
    <2>1. Idle.op # "cancel"
      BY DEF Idle
    <2>2. \A e \in Events : locked[e] \in Requests \ {r} => SameEvent(e)
      BY <1>1, <1>4 DEF SameEvent, CommitCancel, Unlock
    <2>. QED
      BY <2>1, <2>2, CancelsKept DEF CommitCancel, Finish
  <1>6. CanceledEmpty' /\ NobodyLeftBehind'
    BY <1>1, <1>3, <1>4 DEF CancelInv, CanceledEmpty, NobodyLeftBehind, Active
  <1>7. CancellationTold'
    BY <1>1, <1>3, <1>4 DEF CancelInv, CancellationTold
  <1>. QED
    BY <1>2, <1>5, <1>6, <1>7 DEF CancelInv

LEMMA RollbackKeeps ==
  ASSUME CancelInv, NEW r \in Requests, RollbackCancel(r)
  PROVE  CancelInv'
  <1>1. LifecycleShape'
    BY DEF CancelInv, LifecycleShape, RollbackCancel, Unlock, Finish
  <1>2. CancelsHold'
    <2>1. Idle.op # "cancel"
      BY DEF Idle
    <2>2. \A e \in Events : locked[e] \in Requests \ {r} => SameEvent(e)
      BY DEF SameEvent, RollbackCancel, Unlock
    <2>. QED
      BY <2>1, <2>2, CancelsKept DEF RollbackCancel, Finish
  <1>3. CanceledEmpty' /\ CancellationTold' /\ NobodyLeftBehind'
    BY DEF CancelInv, CanceledEmpty, CancellationTold, NobodyLeftBehind, Enrolled, RollbackCancel
  <1>. QED
    BY <1>1, <1>2, <1>3 DEF CancelInv

LEMMA UnpublishKeeps ==
  ASSUME CancelInv, NEW r \in Requests, Unpublish(r)
  PROVE  CancelInv'
  <1>. DEFINE ids == request[r].ids
  <1>1. CASE /\ Unlocked(ids)
             /\ event' = [e \in Events |->
                            IF e \in ids THEN [event[e] EXCEPT !.published = FALSE] ELSE event[e]]
             /\ place' = [e \in Events |->
                            IF e \in ids /\ event[e].published
                            THEN [u \in Users |-> IF place[e][u] = "queued" THEN None
                                                  ELSE place[e][u]]
                            ELSE place[e]]
             /\ Finish(r) /\ UNCHANGED <<sponsor, locked, lost, told>>
    <2>0. LifecycleShape
      BY DEF CancelInv
    <2>1. LifecycleShape'
      BY <1>1, <2>0 DEF LifecycleShape, Finish, RowFields
    <2>2. \A e \in Events : /\ event'[e].canceled = event[e].canceled
                            /\ event'[e].deleted = event[e].deleted
                            /\ event'[e].past = event[e].past
                            /\ event'[e].published => event[e].published
      BY <1>1, <2>0 DEF LifecycleShape, RowFields
    <2>3. ASSUME NEW e \in Events PROVE Enrolled(e)' \subseteq Enrolled(e)
      BY <1>1 DEF Enrolled
    <2>4. CancelsHold'
      <3>1. Idle.op # "cancel"
        BY DEF Idle
      <3>2. \A e \in Events : locked[e] \in Requests \ {r} => SameEvent(e)
        BY <1>1, NoneIsNothing DEF Unlocked, SameEvent
      <3>. QED
        BY <1>1, <3>1, <3>2, CancelsKept DEF Finish
    <2>5. CanceledEmpty' /\ NobodyLeftBehind'
      BY <2>2, <2>3 DEF CancelInv, CanceledEmpty, NobodyLeftBehind
    <2>6. CancellationTold'
      BY <1>1, <2>2 DEF CancelInv, CancellationTold
    <2>. QED
      BY <2>1, <2>4, <2>5, <2>6 DEF CancelInv
  <1>. QED
    BY <1>1, FailKeeps DEF Unpublish

\* What may be deleted is canceled, and so empty, or past, or was never open.
LEMMA DeleteKeeps ==
  ASSUME CancelInv, NEW r \in Requests, Delete(r)
  PROVE  CancelInv'
  <1>. DEFINE ids == request[r].ids
  <1>1. CASE /\ Unlocked(ids)
             /\ \A e \in ids : ~event[e].deleted /\ DeleteEligible(e)
             /\ event' = [e \in Events |->
                            IF e \in ids
                            THEN [event[e] EXCEPT !.deleted = TRUE, !.published = FALSE]
                            ELSE event[e]]
             /\ Finish(r) /\ UNCHANGED <<sponsor, place, locked, lost, told>>
    <2>0. LifecycleShape
      BY DEF CancelInv
    <2>1. LifecycleShape'
      BY <1>1, <2>0 DEF LifecycleShape, Finish, RowFields
    <2>2. \A e \in Events : /\ event'[e].canceled = event[e].canceled
                            /\ event'[e].past = event[e].past
                            /\ event'[e].published => event[e].published
                            /\ e \notin ids => event'[e] = event[e]
      BY <1>1, <2>0 DEF LifecycleShape, RowFields
    <2>3. \A e \in Events : Enrolled(e)' = Enrolled(e)
      BY <1>1 DEF Enrolled
    <2>4. CancelsHold'
      <3>1. Idle.op # "cancel"
        BY DEF Idle
      <3>2. \A e \in Events : locked[e] \in Requests \ {r} => SameEvent(e)
        BY <1>1, NoneIsNothing DEF Unlocked, SameEvent
      <3>. QED
        BY <1>1, <3>1, <3>2, CancelsKept DEF Finish
    <2>5. CanceledEmpty'
      BY <2>2, <2>3 DEF CancelInv, CanceledEmpty
    <2>6. CancellationTold'
      BY <1>1, <2>2 DEF CancelInv, CancellationTold
    <2>7. ASSUME NEW e \in Events, event'[e].deleted, ~event'[e].past PROVE Enrolled(e) = {}
      <3>1. CASE e \in ids
        BY <1>1, <2>2, <2>7, <3>1 DEF CancelInv, CanceledEmpty, DeleteEligible
      <3>2. CASE e \notin ids
        BY <2>2, <2>7, <3>2 DEF CancelInv, NobodyLeftBehind
      <3>. QED
        BY <3>1, <3>2
    <2>. QED
      BY <2>1, <2>3, <2>4, <2>5, <2>6, <2>7 DEF CancelInv, NobodyLeftBehind
  <1>. QED
    BY <1>1, FailKeeps DEF Delete

\* People come and go only at events nobody has locked.
LEMMA PlacesKeep ==
  ASSUME CancelInv, NEW e \in Events, NEW u \in Users, Attend(e, u) \/ Leave(e, u)
  PROVE  CancelInv'
  <1>0. LifecycleShape
    BY DEF CancelInv
  <1>1. PICK status : /\ place' = [place EXCEPT ![e][u] = status]
                      /\ status = None \/ Active(event[e])
    BY DEF Attend, Leave
  <1>2. locked[e] = None /\ UNCHANGED <<event, sponsor, request, locked, lost, told, used>>
    BY DEF Attend, Leave
  <1>3. LifecycleShape'
    BY <1>0, <1>1, <1>2 DEF LifecycleShape
  <1>4. CancelsHold'
    <2>1. \A f \in Events : locked[f] \in Requests => SameEvent(f)
      BY <1>0, <1>1, <1>2, NoneIsNothing DEF LifecycleShape, SameEvent
    <2>. QED
      BY <1>2, <2>1, OtherCancel DEF CancelsHold
  <1>5. \A f \in Events : Enrolled(f)' \subseteq Enrolled(f) \/ Active(event[f])
    BY <1>0, <1>1, <1>2 DEF LifecycleShape, Enrolled
  <1>6. CanceledEmpty' /\ NobodyLeftBehind'
    BY <1>2, <1>5 DEF CancelInv, CanceledEmpty, NobodyLeftBehind, Active
  <1>7. CancellationTold'
    BY <1>2 DEF CancelInv, CancellationTold
  <1>. QED
    BY <1>3, <1>4, <1>6, <1>7 DEF CancelInv

LEMMA PassKeeps ==
  ASSUME CancelInv, NEW e \in Events, Pass(e)
  PROVE  CancelInv'
  <1>0. LifecycleShape
    BY DEF CancelInv
  <1>1. LifecycleShape'
    BY <1>0 DEF LifecycleShape, Pass, RowFields
  <1>2. \A f \in Events : /\ event'[f].canceled = event[f].canceled
                          /\ event'[f].deleted = event[f].deleted
                          /\ event'[f].published = event[f].published
                          /\ event'[f].past = event[f].past \/ event'[f].past
                          /\ Enrolled(f)' = Enrolled(f)
    BY <1>0 DEF LifecycleShape, Pass, RowFields, Enrolled
  <1>3. CancelsHold'
    BY <1>2, OtherCancel DEF CancelsHold, SameEvent, Pass
  <1>4. CanceledEmpty' /\ NobodyLeftBehind'
    BY <1>2 DEF CancelInv, CanceledEmpty, NobodyLeftBehind
  <1>5. CancellationTold'
    BY <1>2 DEF CancelInv, CancellationTold, Pass
  <1>. QED
    BY <1>1, <1>3, <1>4, <1>5 DEF CancelInv

\* The requests that begin or read on.
LEMMA BeginsKeep ==
  ASSUME CancelInv, NEW r \in Requests, NEW held, request' = [request EXCEPT ![r] = held],
         held.op # "cancel", UNCHANGED <<event, sponsor, place, locked, lost, told>>
  PROVE  CancelInv'
  BY OnlyRequest

LEMMA NextCancelInv == CancelInv /\ [LifecycleNext]_lifecycleVars => CancelInv'
  <1>. SUFFICES ASSUME CancelInv, [LifecycleNext]_lifecycleVars PROVE CancelInv'
    OBVIOUS
  <1>1. ASSUME NEW r \in Requests, NEW e \in Events, NEW scope \in Scopes, ValidatePublish(r, e, scope)
        PROVE  CancelInv'
    <2>1. PICK check : /\ request' = [request EXCEPT ![r] = [op |-> "publish", step |-> "load", e |-> e, scope |-> scope, check |-> check]]
                    /\ UNCHANGED <<event, sponsor, place, locked, lost, told>>
      BY <1>1 DEF ValidatePublish, Begin
    <2>. DEFINE held == [op |-> "publish", step |-> "load", e |-> e, scope |-> scope, check |-> check]
    <2>2. held.op # "cancel"
      OBVIOUS
    <2>3. request' = [request EXCEPT ![r] = held]
      BY <2>1
    <2>. HIDE DEF held
    <2>. QED
      BY <2>1, <2>2, <2>3, BeginsKeep
  <1>2. ASSUME NEW r \in Requests, NEW e \in Events, NEW scope \in Scopes, LoadCancel(r, e, scope)
        PROVE  CancelInv'
    <2>. DEFINE held == [op |-> "cancel", step |-> "lock", ids |-> CancelIds(e, scope)]
    <2>1. CancelIds(e, scope) \subseteq Events
      BY DEF CancelIds
    <2>2. /\ request' = [request EXCEPT ![r] = held]
          /\ UNCHANGED <<event, place, locked, lost, told>>
      BY <1>2 DEF LoadCancel, Begin
    <2>3. held.ids \subseteq Events /\ held.step # "commit"
      BY <2>1
    <2>. QED
      BY <2>2, <2>3, OnlyRequest
  <1>3. ASSUME NEW r \in Requests, NEW e \in Events, NEW scope \in Scopes,
               NEW op \in {"unpublish", "delete"}, LoadAction(r, op, e, scope)
        PROVE  CancelInv'
    <2>1. PICK ids : /\ request' = [request EXCEPT ![r] = [op |-> op, ids |-> ids]]
                    /\ UNCHANGED <<event, sponsor, place, locked, lost, told>>
      BY <1>3 DEF LoadAction, Begin
    <2>. DEFINE held == [op |-> op, ids |-> ids]
    <2>2. held.op # "cancel"
      OBVIOUS
    <2>3. request' = [request EXCEPT ![r] = held]
      BY <2>1
    <2>. HIDE DEF held
    <2>. QED
      BY <2>1, <2>2, <2>3, BeginsKeep
  <1>4. ASSUME NEW r \in Requests, NEW e \in Events, NEW t \in Ticketing, ValidateUpdate(r, e, t)
        PROVE  CancelInv'
    <2>1. PICK check : /\ request' = [request EXCEPT ![r] = [op |-> "update", e |-> e, t |-> t, check |-> check]]
                    /\ UNCHANGED <<event, sponsor, place, locked, lost, told>>
      BY <1>4 DEF ValidateUpdate, Begin
    <2>. DEFINE held == [op |-> "update", e |-> e, t |-> t, check |-> check]
    <2>2. held.op # "cancel"
      OBVIOUS
    <2>3. request' = [request EXCEPT ![r] = held]
      BY <2>1
    <2>. HIDE DEF held
    <2>. QED
      BY <2>1, <2>2, <2>3, BeginsKeep
  <1>5. ASSUME NEW r \in Requests, NEW a \in Accounts \cup {None}, ValidateSettings(r, a)
        PROVE  CancelInv'
    <2>1. PICK check : /\ request' = [request EXCEPT ![r] = [op |-> "settings", a |-> a, check |-> check]]
                    /\ UNCHANGED <<event, sponsor, place, locked, lost, told>>
      BY <1>5 DEF ValidateSettings, Begin
    <2>. DEFINE held == [op |-> "settings", a |-> a, check |-> check]
    <2>2. held.op # "cancel"
      OBVIOUS
    <2>3. request' = [request EXCEPT ![r] = held]
      BY <2>1
    <2>. HIDE DEF held
    <2>. QED
      BY <2>1, <2>2, <2>3, BeginsKeep
  <1>6. ASSUME NEW r \in Requests, LoadPublish(r) PROVE CancelInv'
    <2>1. PICK ids : /\ request' = [request EXCEPT ![r] = [op |-> "publish", step |-> "commit", ids |-> ids, check |-> request[r].check]]
                    /\ UNCHANGED <<event, sponsor, place, locked, lost, told>>
      BY <1>6 DEF LoadPublish
    <2>. DEFINE held == [op |-> "publish", step |-> "commit", ids |-> ids, check |-> request[r].check]
    <2>2. held.op # "cancel"
      OBVIOUS
    <2>3. request' = [request EXCEPT ![r] = held]
      BY <2>1
    <2>. HIDE DEF held
    <2>. QED
      BY <2>1, <2>2, <2>3, BeginsKeep
  <1>7. CASE UNCHANGED lifecycleVars
    BY <1>7 DEF lifecycleVars, CancelInv, LifecycleShape, CancelsHold, CancelHolds, CanceledEmpty,
                CancellationTold, NobodyLeftBehind, Enrolled
  <1>. QED
    BY <1>1, <1>2, <1>3, <1>4, <1>5, <1>6, <1>7, PublishKeeps, UpdateKeeps, SettingsKeep, LockKeeps,
       CommitCancelKeeps, RollbackKeeps, UnpublishKeeps, DeleteKeeps, PlacesKeep, PassKeeps
    DEF LifecycleNext

\* Everyone whose place the cancellation of a visible event ended was told of
\* it, and nobody was told of a cancellation that did not happen.
THEOREM EveryoneIsTold == LifecycleSpec => []CancellationTold
  BY InitCancelInv, NextCancelInv, PTL DEF LifecycleSpec, CancelInv

\* An event that is not over is only deleted when nobody has a place at it,
\* and nobody gets one after.
THEOREM DeletionIsClean == LifecycleSpec => []NobodyLeftBehind
  BY InitCancelInv, NextCancelInv, PTL DEF LifecycleSpec, CancelInv
-----------------------------------------------------------------------------
(* Sales. *)

\* The provider accepted the account of a check for what the check is about.
CheckSound(check) ==
    check # NoCheck /\ check.automatic /\ check.recipient # None => check.recipient \in TaxReady

RatesChecked(t, check) ==
    check # NoCheck /\ t.tax = "manual" /\ check.recipient # None => t.rates = check.recipient

RequestSound(q) ==
    /\ q.op = "publish" => CheckSound(q.check)
    /\ q.op = "update" => q.t \in Ticketing /\ CheckSound(q.check) /\ RatesChecked(q.t, q.check)
    /\ q.op = "settings" => (q.check # NoCheck /\ q.check.automatic => q.a \in TaxReady)

ChecksSound == \A r \in Requests : RequestSound(request[r])

\* Drafts too hold no rates of an account that is no longer the sponsor.
PaidFits ==
    \A e \in Events :
        Active(event[e]) /\ ~event[e].past /\ event[e].paid /\ event[e].tax = "manual"
            => event[e].rates \in {None, sponsor}

SalesInv == LifecycleShape /\ ChecksSound /\ PaidFits /\ SponsorFitsSales

LEMMA InitSalesInv == LifecycleInit => SalesInv
  <1>. SUFFICES ASSUME LifecycleInit PROVE SalesInv
    OBVIOUS
  <1>1. LifecycleShape
    BY InitCancelInv DEF CancelInv
  <1>2. ChecksSound
    BY DEF LifecycleInit, ChecksSound, RequestSound, Idle
  <1>3. PaidFits
    BY DEF LifecycleInit, PaidFits
  <1>4. SponsorFitsSales
    <2>1. ASSUME NEW e \in Events, Selling(event[e])
          PROVE  /\ sponsor # None
                 /\ event[e].tax = "automatic" => sponsor \in TaxReady
                 /\ event[e].tax = "manual" => event[e].rates = sponsor
      <3>1. event[e].paid /\ event[e].published
        BY <2>1 DEF Selling
      <3>2. Ready(TicketingOf(event[e])) /\ event[e].rates \in {None, sponsor}
        BY <3>1 DEF LifecycleInit
      <3>. QED
        BY <3>1, <3>2 DEF LifecycleInit, Ready, TicketingOf
    <2>. QED
      BY <2>1 DEF SponsorFitsSales
  <1>. QED
    BY <1>1, <1>2, <1>3, <1>4 DEF SalesInv

LEMMA ChecksKept ==
  ASSUME SalesInv, NEW r \in Requests, NEW held, request' = [request EXCEPT ![r] = held],
         RequestSound(held)
  PROVE  ChecksSound'
  <1>1. DOMAIN request = Requests
    BY DEF SalesInv, LifecycleShape
  <1>2. ASSUME NEW q \in Requests PROVE RequestSound(request'[q])
    BY <1>1 DEF SalesInv, ChecksSound
  <1>. QED
    BY <1>2 DEF ChecksSound, RequestSound, CheckSound, RatesChecked

LEMMA IdleSound == RequestSound(Idle)
  BY DEF RequestSound, Idle

\* A request that begins or reads on.
LEMMA BeginSells ==
  ASSUME SalesInv, LifecycleShape', NEW r \in Requests, NEW held, request' = [request EXCEPT ![r] = held],
         RequestSound(held), UNCHANGED <<event, sponsor>>
  PROVE  SalesInv'
  <1>1. ChecksSound'
    BY ChecksKept
  <1>. QED
    BY <1>1 DEF SalesInv, PaidFits, SponsorFitsSales

\* A step that puts nothing on sale and changes no ticketing.
LEMMA NothingNewOnSale ==
  ASSUME SalesInv, LifecycleShape', ChecksSound', UNCHANGED sponsor,
         \A e \in Events :
            /\ event'[e].paid = event[e].paid
            /\ event'[e].tax = event[e].tax
            /\ event'[e].rates = event[e].rates
            /\ event'[e].published => event[e].published
            /\ event'[e].past = event[e].past \/ event'[e].past
            /\ Active(event'[e]) => Active(event[e])
  PROVE  SalesInv'
  <1>1. PaidFits'
    BY DEF SalesInv, PaidFits, Active
  <1>2. SponsorFitsSales'
    BY DEF SalesInv, SponsorFitsSales, Selling, Active
  <1>. QED
    BY <1>1, <1>2 DEF SalesInv

LEMMA FailSells ==
  ASSUME SalesInv, LifecycleShape', NEW r \in Requests, Fail(r)
  PROVE  SalesInv'
  BY IdleSound, BeginSells DEF Fail, Finish

\* What a publication puts on sale was checked for the sponsor of now.
LEMMA PublishSells ==
  ASSUME SalesInv, LifecycleShape', NEW r \in Requests, CommitPublish(r)
  PROVE  SalesInv'
  <1>. DEFINE check == request[r].check
              fresh == {e \in request[r].ids : ~event[e].published}
  <1>1. CASE /\ \A e \in request[r].ids : Active(event[e])
             /\ \A e \in fresh : /\ Bound(TicketingOf(event[e]), check)
                                 /\ Ready(TicketingOf(event[e]))
             /\ event' = [e \in Events |-> IF e \in fresh THEN PublishEvent(event[e]) ELSE event[e]]
             /\ Finish(r) /\ UNCHANGED <<sponsor, place, locked, lost, told>>
    <2>1. ChecksSound'
      BY <1>1, IdleSound, ChecksKept DEF Finish
    <2>2. \A e \in Events : DOMAIN event[e] = RowFields
      BY DEF SalesInv, LifecycleShape
    <2>3. ASSUME NEW e \in Events
          PROVE  /\ event'[e].canceled = event[e].canceled
                 /\ event'[e].deleted = event[e].deleted
                 /\ event'[e].past = event[e].past
                 /\ event'[e].paid = event[e].paid
                 /\ event'[e].tax = event[e].tax
                 /\ event'[e].rates = event[e].rates
                 /\ e \notin fresh => event'[e] = event[e]
      <3>1. CASE e \in fresh
        BY <1>1, <2>2, <3>1 DEF PublishEvent, RowFields
      <3>2. CASE e \notin fresh
        BY <1>1, <3>2
      <3>. QED
        BY <3>1, <3>2
    <2>4. PaidFits'
      BY <1>1, <2>3 DEF SalesInv, PaidFits, Active
    <2>5. CheckSound(check)
      BY DEF SalesInv, ChecksSound, RequestSound, CommitPublish
    <2>6. ASSUME NEW e \in Events, Selling(event'[e])
          PROVE  /\ sponsor # None
                 /\ event'[e].tax = "automatic" => sponsor \in TaxReady
                 /\ event'[e].tax = "manual" => event'[e].rates = sponsor
      <3>1. CASE e \in fresh
        <4>1. event[e].paid /\ Active(event[e]) /\ ~event[e].past
          BY <2>3, <2>6 DEF Selling, Active
        <4>2. Bound(TicketingOf(event[e]), check) /\ Ready(TicketingOf(event[e]))
          BY <1>1, <3>1
        <4>3. /\ check # NoCheck /\ check.recipient = sponsor /\ sponsor # None
              /\ event[e].tax = "automatic" => check.automatic
              /\ event[e].tax = "manual" => event[e].rates # None
          BY <4>1, <4>2 DEF Bound, Ready, TicketingOf
        <4>. QED
          BY <2>3, <2>5, <4>1, <4>3 DEF CheckSound, SalesInv, PaidFits
      <3>2. CASE e \notin fresh
        BY <2>3, <2>6, <3>2 DEF SalesInv, SponsorFitsSales
      <3>. QED
        BY <3>1, <3>2
    <2>7. SponsorFitsSales'
      BY <1>1, <2>6 DEF SponsorFitsSales
    <2>. QED
      BY <2>1, <2>4, <2>7 DEF SalesInv
  <1>. QED
    BY <1>1, FailSells DEF CommitPublish

\* An update either leaves the ticketing of an event on sale as it was, or
\* brings one that was checked for the sponsor of now.
LEMMA UpdateSells ==
  ASSUME SalesInv, LifecycleShape', NEW r \in Requests, CommitUpdate(r)
  PROVE  SalesInv'
  <1>. DEFINE q == request[r]
  <1>1. CASE /\ Updatable(q.e, q.t, q.check)
             /\ event' = [event EXCEPT ![q.e] = UpdateEvent(@, q.t)]
             /\ Finish(r) /\ UNCHANGED <<sponsor, place, locked, lost, told>>
    <2>1. ChecksSound'
      BY <1>1, IdleSound, ChecksKept DEF Finish
    <2>2. DOMAIN event = Events /\ \A e \in Events : DOMAIN event[e] = RowFields
      BY DEF SalesInv, LifecycleShape
    <2>3. q.t \in Ticketing /\ CheckSound(q.check) /\ RatesChecked(q.t, q.check)
      BY DEF SalesInv, ChecksSound, RequestSound, CommitUpdate
    <2>4. ASSUME NEW e \in Events, e # q.e PROVE event'[e] = event[e]
      BY <1>1, <2>2, <2>4
    <2>5. ASSUME q.e \in Events
          PROVE  /\ event'[q.e].canceled = event[q.e].canceled
                 /\ event'[q.e].deleted = event[q.e].deleted
                 /\ event'[q.e].past = event[q.e].past
                 /\ event'[q.e].published = event[q.e].published
                 /\ event'[q.e].paid = q.t.paid
                 /\ event'[q.e].tax = q.t.tax
                 /\ event'[q.e].rates = q.t.rates
      <3>1. event'[q.e] = UpdateEvent(event[q.e], q.t)
        BY <1>1, <2>2, <2>5
      <3>. QED
        BY <2>2, <2>5, <3>1 DEF UpdateEvent, RowFields
    <2>6. ASSUME q.e \in Events, q.t.paid
          PROVE  \/ /\ q.t.paid = event[q.e].paid
                    /\ q.t.tax = event[q.e].tax
                    /\ q.t.rates = event[q.e].rates
                 \/ /\ sponsor # None
                    /\ q.t.tax = "automatic" => sponsor \in TaxReady
                    /\ q.t.tax = "manual" => q.t.rates = sponsor
      <3>1. CASE TicketingChanged(q.e, q.t)
        <4>1. Bound(q.t, q.check) /\ Ready(q.t)
          BY <1>1, <3>1 DEF Updatable
        <4>. QED
          BY <2>3, <2>6, <4>1 DEF Bound, Ready, CheckSound, RatesChecked
      <3>2. CASE q.t = TicketingOf(event[q.e])
        BY <3>2 DEF TicketingOf
      <3>. QED
        BY <2>6, <3>1, <3>2 DEF TicketingChanged
    <2>7. ASSUME NEW e \in Events,
                 Active(event'[e]), ~event'[e].past, event'[e].paid, event'[e].tax = "manual"
          PROVE  event'[e].rates \in {None, sponsor}
      <3>1. CASE e = q.e
        BY <2>5, <2>6, <2>7, <3>1 DEF SalesInv, PaidFits, Active
      <3>2. CASE e # q.e
        BY <2>4, <2>7, <3>2 DEF SalesInv, PaidFits
      <3>. QED
        BY <3>1, <3>2
    <2>8. ASSUME NEW e \in Events, Selling(event'[e])
          PROVE  /\ sponsor # None
                 /\ event'[e].tax = "automatic" => sponsor \in TaxReady
                 /\ event'[e].tax = "manual" => event'[e].rates = sponsor
      <3>1. CASE e = q.e
        BY <2>5, <2>6, <2>8, <3>1 DEF SalesInv, SponsorFitsSales, Selling, Active
      <3>2. CASE e # q.e
        BY <2>4, <2>8, <3>2 DEF SalesInv, SponsorFitsSales
      <3>. QED
        BY <3>1, <3>2
    <2>. QED
      BY <1>1, <2>1, <2>7, <2>8 DEF SalesInv, PaidFits, SponsorFitsSales
  <1>. QED
    BY <1>1, FailSells DEF CommitUpdate

\* The sponsor changes only to an account that fits what is on sale, and the
\* drafts lose the rates of the old one.
LEMMA SettingsSell ==
  ASSUME SalesInv, LifecycleShape', NEW r \in Requests, UpdateGroup(r)
  PROVE  SalesInv'
  <1>. DEFINE q == request[r]
  <1>1. CASE /\ Replaceable(q.a, q.check)
             /\ event' = [e \in Events |-> ClearedRates(event[e], q.a)]
             /\ sponsor' = q.a
             /\ Finish(r) /\ UNCHANGED <<place, locked, lost, told>>
    <2>1. ChecksSound'
      BY <1>1, IdleSound, ChecksKept DEF Finish
    <2>2. \A e \in Events : DOMAIN event[e] = RowFields
      BY DEF SalesInv, LifecycleShape
    <2>3. ASSUME NEW e \in Events
          PROVE  /\ event'[e].canceled = event[e].canceled
                 /\ event'[e].deleted = event[e].deleted
                 /\ event'[e].past = event[e].past
                 /\ event'[e].published = event[e].published
                 /\ event'[e].paid = event[e].paid
                 /\ event'[e].tax = event[e].tax
                 /\ event'[e].rates = event[e].rates
                       \/ (q.a # sponsor /\ ~event[e].published /\ event'[e].rates = None)
      BY <1>1, <2>2 DEF ClearedRates, RowFields
    <2>4. ASSUME q.a # sponsor, NEW e \in Events, Active(event[e]), ~event[e].published, event[e].tax = "manual"
          PROVE  event'[e].rates = None
      BY <1>1, <2>2, <2>4 DEF ClearedRates, RowFields
    <2>5. q.check # NoCheck /\ q.check.automatic => q.a \in TaxReady
      BY DEF SalesInv, ChecksSound, RequestSound, UpdateGroup
    <2>6. ASSUME q.a # sponsor, NEW e \in Events, Selling(event[e])
          PROVE  q.a # None /\ event[e].tax = "automatic" => q.a \in TaxReady
      <3>1. RequiresAutomaticTax \/ event[e].tax # "automatic"
        BY <2>6 DEF RequiresAutomaticTax
      <3>. QED
        BY <1>1, <2>5, <2>6, <3>1 DEF Replaceable
    <2>7. ASSUME q.a # sponsor, NEW e \in Events, Selling(event[e])
          PROVE  q.a # None /\ event[e].tax # "manual"
      BY <1>1, <2>7 DEF Replaceable, SalesInv, SponsorFitsSales
    <2>8. ASSUME NEW e \in Events,
                 Active(event'[e]), ~event'[e].past, event'[e].paid, event'[e].tax = "manual"
          PROVE  event'[e].rates \in {None, q.a}
      <3>1. Active(event[e]) /\ ~event[e].past /\ event[e].paid /\ event[e].tax = "manual"
        BY <2>3, <2>8 DEF Active
      <3>2. CASE q.a = sponsor
        BY <2>3, <3>1, <3>2 DEF SalesInv, PaidFits
      <3>3. CASE q.a # sponsor
        BY <2>4, <2>7, <3>1, <3>3 DEF Selling
      <3>. QED
        BY <3>2, <3>3
    <2>9. ASSUME NEW e \in Events, Selling(event'[e])
          PROVE  /\ q.a # None
                 /\ event'[e].tax = "automatic" => q.a \in TaxReady
                 /\ event'[e].tax = "manual" => event'[e].rates = q.a
      <3>1. Selling(event[e])
        BY <2>3, <2>9 DEF Selling, Active
      <3>2. CASE q.a = sponsor
        BY <2>3, <3>1, <3>2 DEF SalesInv, SponsorFitsSales
      <3>3. CASE q.a # sponsor
        BY <2>3, <2>6, <2>7, <3>1, <3>3
      <3>. QED
        BY <3>2, <3>3
    <2>. QED
      BY <1>1, <2>1, <2>8, <2>9 DEF SalesInv, PaidFits, SponsorFitsSales
  <1>. QED
    BY <1>1, FailSells DEF UpdateGroup

\* What the handlers remember of the provider's answer is what it said.
LEMMA PublishChecked ==
  ASSUME SalesInv, LifecycleShape', NEW r \in Requests, NEW e \in Events, NEW scope \in Scopes,
         ValidatePublish(r, e, scope)
  PROVE  SalesInv'
  <1>. DEFINE ids == PublishIds(e, scope)
              paid == {i \in ids : event[i].paid}
              automatic == \E i \in paid : event[i].tax = "automatic"
              check == IF paid = {} THEN NoCheck ELSE [recipient |-> sponsor, automatic |-> automatic]
              held == [op |-> "publish", step |-> "load", e |-> e, scope |-> scope, check |-> check]
  <1>1. /\ request' = [request EXCEPT ![r] = held]
        /\ UNCHANGED <<event, sponsor>>
    BY DEF ValidatePublish, Begin
  <1>2. sponsor # None /\ paid # {} /\ automatic => sponsor \in TaxReady
    BY DEF ValidatePublish, ValidateFiscalSponsor
  <1>3. CheckSound(check)
    <2>1. CASE paid = {}
      BY <2>1 DEF CheckSound
    <2>2. CASE paid # {}
      <3>. HIDE DEF paid, automatic
      <3>1. check.recipient = sponsor /\ check.automatic = automatic
        BY <2>2
      <3>. QED
        BY <1>2, <2>2, <3>1 DEF CheckSound
    <2>. QED
      BY <2>1, <2>2
  <1>4. RequestSound(held)
    <2>. HIDE DEF check
    <2>. QED
      BY <1>3 DEF RequestSound
  <1>. HIDE DEF held
  <1>. QED
    BY <1>1, <1>4, BeginSells

LEMMA LoadChecked ==
  ASSUME SalesInv, LifecycleShape', NEW r \in Requests, LoadPublish(r)
  PROVE  SalesInv'
  <1>. DEFINE q == request[r]
              held == [op |-> "publish", step |-> "commit", ids |-> PublishIds(q.e, q.scope), check |-> q.check]
  <1>1. /\ request' = [request EXCEPT ![r] = held]
        /\ UNCHANGED <<event, sponsor>>
    BY DEF LoadPublish
  <1>2. RequestSound(held)
    BY DEF SalesInv, ChecksSound, RequestSound, LoadPublish
  <1>. HIDE DEF held
  <1>. QED
    BY <1>1, <1>2, BeginSells

LEMMA UpdateChecked ==
  ASSUME SalesInv, LifecycleShape', NEW r \in Requests, NEW e \in Events, NEW t \in Ticketing,
         ValidateUpdate(r, e, t)
  PROVE  SalesInv'
  <1>. DEFINE selection == t.tax = "manual" /\ t.rates # None
              checked == TicketingChanged(e, t) \/ selection
              automatic == t.tax = "automatic"
              check == IF checked THEN [recipient |-> sponsor, automatic |-> automatic] ELSE NoCheck
              held == [op |-> "update", e |-> e, t |-> t, check |-> check]
  <1>1. /\ request' = [request EXCEPT ![r] = held]
        /\ UNCHANGED <<event, sponsor>>
    BY DEF ValidateUpdate, Begin
  <1>2. checked /\ sponsor # None =>
            /\ automatic => sponsor \in TaxReady
            /\ t.tax = "manual" => t.rates = sponsor
    BY DEF ValidateUpdate, ValidateFiscalSponsor, ValidateTaxRates
  <1>3. CheckSound(check) /\ RatesChecked(t, check)
    <2>1. CASE ~checked
      BY <2>1 DEF CheckSound, RatesChecked
    <2>2. CASE checked
      <3>. HIDE DEF checked, automatic
      <3>1. check.recipient = sponsor /\ check.automatic = automatic
        BY <2>2
      <3>. QED
        BY <1>2, <2>2, <3>1 DEF CheckSound, RatesChecked
    <2>. QED
      BY <2>1, <2>2
  <1>4. RequestSound(held)
    <2>. HIDE DEF check
    <2>. QED
      BY <1>3 DEF RequestSound
  <1>. HIDE DEF held
  <1>. QED
    BY <1>1, <1>4, BeginSells

LEMMA SettingsChecked ==
  ASSUME SalesInv, LifecycleShape', NEW r \in Requests, NEW a \in Accounts \cup {None},
         ValidateSettings(r, a)
  PROVE  SalesInv'
  <1>. DEFINE changed == a \notin {None, sponsor}
              check == IF changed THEN [expected |-> sponsor, automatic |-> RequiresAutomaticTax] ELSE NoCheck
              held == [op |-> "settings", a |-> a, check |-> check]
  <1>1. /\ request' = [request EXCEPT ![r] = held]
        /\ UNCHANGED <<event, sponsor>>
    BY DEF ValidateSettings, Begin
  <1>2. changed => (RequiresAutomaticTax => a \in TaxReady)
    BY DEF ValidateSettings, ValidateFiscalSponsor
  <1>3. check # NoCheck /\ check.automatic => a \in TaxReady
    <2>1. CASE ~changed
      BY <2>1
    <2>2. CASE changed
      <3>1. check.automatic = RequiresAutomaticTax
        BY <2>2
      <3>. QED
        BY <1>2, <2>2, <3>1
    <2>. QED
      BY <2>1, <2>2
  <1>4. RequestSound(held)
    <2>. HIDE DEF check
    <2>. QED
      BY <1>3 DEF RequestSound
  <1>. HIDE DEF held
  <1>. QED
    BY <1>1, <1>4, BeginSells

\* Cancelling, unpublishing, deleting and time put nothing on sale.
LEMMA OthersSell ==
  ASSUME SalesInv, LifecycleShape', NEW r \in Requests,
         LockCancel(r) \/ CommitCancel(r) \/ RollbackCancel(r) \/ Unpublish(r) \/ Delete(r)
  PROVE  SalesInv'
  <1>0. DOMAIN event = Events /\ \A e \in Events : DOMAIN event[e] = RowFields
    BY DEF SalesInv, LifecycleShape
  <1>1. CASE LockCancel(r)
    <2>1. PICK held : /\ request' = [request EXCEPT ![r] = held] /\ held.op \in {"cancel", "idle"}
                      /\ UNCHANGED <<event, sponsor>>
      <3>1. CASE Fail(r)
        <4>1. Idle.op = "idle"
          BY DEF Idle
        <4>. QED
          BY <3>1, <4>1 DEF Fail, Finish
      <3>2. CASE ~Fail(r)
        <4>. DEFINE held == [op |-> "cancel", step |-> "commit", ids |-> request[r].ids,
                             tell |-> [e \in request[r].ids |-> CancelRecipients(e)]]
        <4>1. /\ request' = [request EXCEPT ![r] = held]
              /\ UNCHANGED <<event, sponsor>>
          BY <1>1, <3>2 DEF LockCancel
        <4>2. held.op = "cancel"
          OBVIOUS
        <4>. HIDE DEF held
        <4>. QED
          BY <4>1, <4>2
      <3>. QED
        BY <3>1, <3>2
    <2>2. RequestSound(held)
      BY <2>1 DEF RequestSound
    <2>. QED
      BY <2>1, <2>2, BeginSells
  <1>2. CASE ~LockCancel(r)
    <2>1. ChecksSound'
      BY <1>2, IdleSound, ChecksKept DEF CommitCancel, RollbackCancel, Unpublish, Delete, Fail, Finish
    <2>2. UNCHANGED sponsor
      BY <1>2 DEF CommitCancel, RollbackCancel, Unpublish, Delete, Fail
    <2>3. ASSUME NEW e \in Events
          PROVE  /\ event'[e].paid = event[e].paid
                 /\ event'[e].tax = event[e].tax
                 /\ event'[e].rates = event[e].rates
                 /\ event'[e].published => event[e].published
                 /\ event'[e].past = event[e].past
                 /\ Active(event'[e]) => Active(event[e])
      <3>1. \/ event'[e] = event[e]
            \/ event'[e] = [event[e] EXCEPT !.canceled = TRUE]
            \/ event'[e] = [event[e] EXCEPT !.published = FALSE]
            \/ event'[e] = [event[e] EXCEPT !.deleted = TRUE, !.published = FALSE]
        BY <1>2 DEF CommitCancel, RollbackCancel, Unpublish, Delete, Fail
      <3>. QED
        BY <1>0, <3>1 DEF RowFields, Active
    <2>. QED
      BY <2>1, <2>2, <2>3, NothingNewOnSale
  <1>. QED
    BY <1>1, <1>2

LEMMA NextSalesInv == CancelInv /\ CancelInv' /\ SalesInv /\ [LifecycleNext]_lifecycleVars => SalesInv'
  <1>. SUFFICES ASSUME CancelInv, CancelInv', SalesInv, [LifecycleNext]_lifecycleVars PROVE SalesInv'
    OBVIOUS
  <1>0. LifecycleShape'
    BY DEF CancelInv
  <1>1. ASSUME NEW r \in Requests, NEW e \in Events, NEW scope \in Scopes, LoadCancel(r, e, scope)
        PROVE  SalesInv'
    <2>. DEFINE held == [op |-> "cancel", step |-> "lock", ids |-> CancelIds(e, scope)]
    <2>1. request' = [request EXCEPT ![r] = held] /\ UNCHANGED <<event, sponsor>>
      BY <1>1 DEF LoadCancel, Begin
    <2>2. RequestSound(held)
      BY DEF RequestSound
    <2>. HIDE DEF held
    <2>. QED
      BY <1>0, <2>1, <2>2, BeginSells
  <1>2. ASSUME NEW r \in Requests, NEW e \in Events, NEW scope \in Scopes,
               NEW op \in {"unpublish", "delete"}, LoadAction(r, op, e, scope)
        PROVE  SalesInv'
    <2>. DEFINE held == [op |-> op, ids |-> SeriesIds(e, scope)]
    <2>1. request' = [request EXCEPT ![r] = held] /\ UNCHANGED <<event, sponsor>>
      BY <1>2 DEF LoadAction, Begin
    <2>2. RequestSound(held)
      BY DEF RequestSound
    <2>. HIDE DEF held
    <2>. QED
      BY <1>0, <2>1, <2>2, BeginSells
  <1>3. CASE UNCHANGED <<event, sponsor, request>>
    BY <1>0, <1>3 DEF SalesInv, ChecksSound, PaidFits, SponsorFitsSales
  <1>4. ASSUME NEW e \in Events, Pass(e) PROVE SalesInv'
    <2>1. ChecksSound'
      BY <1>4 DEF SalesInv, ChecksSound, Pass
    <2>2. \A f \in Events :
            /\ event'[f].paid = event[f].paid
            /\ event'[f].tax = event[f].tax
            /\ event'[f].rates = event[f].rates
            /\ event'[f].published = event[f].published
            /\ event'[f].past = event[f].past \/ event'[f].past
            /\ Active(event'[f]) = Active(event[f])
      BY <1>4 DEF SalesInv, LifecycleShape, RowFields, Pass, Active
    <2>. QED
      BY <1>0, <1>4, <2>1, <2>2, NothingNewOnSale DEF Pass
  <1>. QED
    BY <1>0, <1>1, <1>2, <1>3, <1>4, PublishChecked, LoadChecked, UpdateChecked, SettingsChecked,
       PublishSells, UpdateSells, SettingsSell, OthersSell
    DEF LifecycleNext, lifecycleVars, Attend, Leave

\* Every event on sale can be sold by the sponsor the group has now, however
\* publishing, updating and the settings page interleave with the checks.
THEOREM SalesFit == LifecycleSpec => []SponsorFitsSales
  <1>1. SalesInv => SponsorFitsSales
    BY DEF SalesInv
  <1>. QED
    BY <1>1, InitCancelInv, NextCancelInv, InitSalesInv, NextSalesInv, PTL DEF LifecycleSpec
=============================================================================
