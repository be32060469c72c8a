--------------------------- MODULE EventLifecycle ---------------------------
(***************************************************************************)
(* The events of a recurring series between organizers who publish,        *)
(* update, unpublish, cancel and delete them, and the group's fiscal       *)
(* sponsor, whose account the payment provider checks over the network.    *)
(*                                                                         *)
(* Every request first reads without a lock, often calls the provider, and *)
(* then runs one database transaction with the notifications it queues.    *)
(* The transaction re-reads what it needs under the locks of the group and *)
(* the events; what it took from the first part may be old by then.        *)
(*                                                                         *)
(* A payment provider is configured and no event is a test event.  An      *)
(* account is named by its owner's identifier; the rates of a manual-tax   *)
(* event are named by the account they belong to.                          *)
(***************************************************************************)
EXTENDS Integers, FiniteSets

CONSTANTS
    Events,         \* the occurrences of the series
    Users,          \* people who may attend or queue
    Speakers,       \* people named as speakers of every event
    Requests,       \* organizers' requests under way
    Accounts,       \* connected accounts at the provider
    TaxReady,       \* those whose automatic tax is set up
    MaxRequests     \* bound: requests and events that pass, in a behaviour

ASSUME LifecycleAssumption ==
    /\ TaxReady \subseteq Accounts
    /\ MaxRequests \in Nat

None == "none"

ASSUME NoneIsNothing == None \notin Accounts \cup Requests

VARIABLES
    event,      \* rows of event
    sponsor,    \* group.payment_recipient
    place,      \* place[e][u]: a row of event_attendee or event_waitlist
    request,    \* request[r]: what a handler holds between its steps
    locked,     \* locked[e]: the request whose transaction holds the row
    lost,       \* lost[e]: people whose place the cancellation ended
    told,       \* told[e]: recipients of the cancellation notices
    used        \* requests begun and events that passed

lifecycleVars == <<event, sponsor, place, request, locked, lost, told, used>>

Idle == [op |-> "idle"]
NoCheck == [op |-> "none"]     \* the provider was not asked
Scopes == {"this", "series"}

Ticketing == {t \in [paid : BOOLEAN, tax : {"automatic", "manual"}, rates : Accounts \cup {None}] :
                t.tax = "automatic" => t.rates = None}

TicketingOf(row) == [paid |-> row.paid, tax |-> row.tax, rates |-> row.rates]
-----------------------------------------------------------------------------
(* What the database asks of a paid configuration. *)

(* validate_event_ticketing_payment_readiness. *)
Ready(t) == t.paid => sponsor # None /\ (t.tax = "manual" => t.rates # None)

(* The binding of a provider check to the sponsor now locked.  The check   *)
(* is NoCheck when the handler had nothing to ask the provider.               *)
Bound_Presence(t, check) == t.paid => check # NoCheck   \* mutant: only that a check was made

Bound(t, check) ==
    t.paid =>
        /\ check # NoCheck
        /\ check.recipient = sponsor
        /\ t.tax = "automatic" => check.automatic

(* The provider's answer about account a for a configuration that needs    *)
(* automatic tax, or whose rates must belong to the account.               *)
ValidateFiscalSponsor(a, automatic) == automatic => a \in TaxReady
ValidateTaxRates(a, rates) == rates = a

Active(row) == ~row.canceled /\ ~row.deleted
Selling(row) == Active(row) /\ row.published /\ row.paid /\ ~row.past
RequiresAutomaticTax == \E e \in Events : Selling(event[e]) /\ event[e].tax = "automatic"
-----------------------------------------------------------------------------
(* A series as add_event_series leaves it, some of its events published. *)
LifecycleInit ==
    /\ sponsor \in Accounts \cup {None}
    /\ event \in [Events -> [published : BOOLEAN, canceled : {FALSE}, deleted : {FALSE},
                             past : {FALSE}, ever : BOOLEAN,
                             paid : BOOLEAN, tax : {"automatic", "manual"},
                             rates : Accounts \cup {None}]]
    /\ \A e \in Events :
        /\ event[e].ever = event[e].published
        /\ TicketingOf(event[e]) \in Ticketing
        /\ event[e].rates \in {None, sponsor}
        /\ event[e].paid /\ event[e].published => Ready(TicketingOf(event[e]))
        /\ event[e].paid /\ event[e].tax = "automatic" => sponsor \in TaxReady
    /\ \A e, f \in Events : TicketingOf(event[e]) = TicketingOf(event[f])
    /\ place = [e \in Events |-> [u \in Users |-> None]]
    /\ request = [r \in Requests |-> Idle]
    /\ locked = [e \in Events |-> None]
    /\ lost = [e \in Events |-> {}]
    /\ told = [e \in Events |-> {}]
    /\ used = 0

(* A request enters its next step, or ends. *)
Begin(r, held) ==
    /\ request[r] = Idle /\ used < MaxRequests
    /\ request' = [request EXCEPT ![r] = held]
    /\ used' = used + 1

Finish(r) == request' = [request EXCEPT ![r] = Idle] /\ UNCHANGED used
Unlocked(ids) == \A e \in ids : locked[e] = None

(* An error before the transaction commits leaves no trace. *)
Fail(r) == Finish(r) /\ UNCHANGED <<event, sponsor, place, locked, lost, told>>
-----------------------------------------------------------------------------
(* Publishing. *)

PublishableIds(e) ==
    IF Active(event[e]) /\ ~event[e].published
    THEN {i \in Events : Active(event[i]) /\ ~event[i].published}
    ELSE {}

PublishIds(e, scope) == IF scope = "series" THEN PublishableIds(e) ELSE {e}

(* validate_publish_fiscal_sponsor: what the provider is asked, and what   *)
(* the handler remembers of the answer.                                    *)
ValidatePublish(r, e, scope) ==
    LET ids == PublishIds(e, scope)
        paid == {i \in ids : event[i].paid}
        manual == {i \in ids : event[i].tax = "manual" /\ (event[i].paid \/ event[i].rates # None)}
        automatic == \E i \in paid : event[i].tax = "automatic"
    IN /\ ~event[e].deleted
       /\ sponsor # None => /\ paid \cup manual # {} => ValidateFiscalSponsor(sponsor, automatic)
                            /\ \A i \in manual : ValidateTaxRates(sponsor, event[i].rates)
       /\ sponsor = None => ~automatic /\ \A i \in manual : event[i].rates = None
       /\ Begin(r, [op |-> "publish", step |-> "load", e |-> e, scope |-> scope,
                    check |-> IF paid = {} THEN NoCheck
                              ELSE [recipient |-> sponsor, automatic |-> automatic]])
       /\ UNCHANGED <<event, sponsor, place, locked, lost, told>>

(* The transaction lists the events again and reads their summaries. *)
LoadPublish(r) ==
    LET q == request[r]
    IN /\ q.op = "publish" /\ q.step = "load"
       /\ request' = [request EXCEPT ![r] =
            [op |-> "publish", step |-> "commit", ids |-> PublishIds(q.e, q.scope), check |-> q.check]]
       /\ UNCHANGED <<event, sponsor, place, locked, lost, told, used>>

(* publish_event for every event, or for none. *)
PublishEvent(row) == [row EXCEPT !.published = TRUE, !.ever = TRUE]

CommitPublish(r) ==
    LET q == request[r]
        fresh == {e \in q.ids : ~event[e].published}
    IN /\ q.op = "publish" /\ q.step = "commit"
       /\ Unlocked(q.ids)
       /\ \/ /\ q.ids # {}
             /\ \A e \in q.ids : Active(event[e])
             /\ \A e \in fresh : /\ Bound(TicketingOf(event[e]), q.check)
                                 /\ Ready(TicketingOf(event[e]))
             /\ event' = [e \in Events |-> IF e \in fresh THEN PublishEvent(event[e]) ELSE event[e]]
             /\ Finish(r) /\ UNCHANGED <<sponsor, place, locked, lost, told>>
          \/ /\ \/ q.ids = {} \/ \E e \in q.ids : ~Active(event[e])
                \/ \E e \in fresh : ~(/\ Bound(TicketingOf(event[e]), q.check)
                                      /\ Ready(TicketingOf(event[e])))
             /\ Fail(r)
-----------------------------------------------------------------------------
(* Updating one event with the ticketing t of the form.  What else the     *)
(* form holds does not touch the state kept here.                          *)
TicketingChanged(e, t) == t.paid /\ t # TicketingOf(event[e])

ValidateUpdate(r, e, t) ==
    LET selection == t.tax = "manual" /\ t.rates # None
        checked == TicketingChanged(e, t) \/ selection
    IN /\ checked /\ sponsor # None =>
            /\ ValidateFiscalSponsor(sponsor, t.tax = "automatic")
            /\ t.tax = "manual" => ValidateTaxRates(sponsor, t.rates)
       /\ checked /\ sponsor = None => ~selection
       /\ Begin(r, [op |-> "update", e |-> e, t |-> t,
                    check |-> IF checked
                              THEN [recipient |-> sponsor, automatic |-> t.tax = "automatic"]
                              ELSE NoCheck])
       /\ UNCHANGED <<event, sponsor, place, locked, lost, told>>

UpdateEvent(row, t) == [row EXCEPT !.paid = t.paid, !.tax = t.tax, !.rates = t.rates]

Updatable(e, t, check) ==
    /\ Active(event[e])
    /\ TicketingChanged(e, t) => Bound(t, check) /\ Ready(t)

CommitUpdate(r) ==
    LET q == request[r]
    IN /\ q.op = "update"
       /\ Unlocked({q.e})
       /\ \/ /\ Updatable(q.e, q.t, q.check)
             /\ event' = [event EXCEPT ![q.e] = UpdateEvent(@, q.t)]
             /\ Finish(r) /\ UNCHANGED <<sponsor, place, locked, lost, told>>
          \/ ~Updatable(q.e, q.t, q.check) /\ Fail(r)
-----------------------------------------------------------------------------
(* The group's settings: the sponsor becomes a, or is removed. *)

ValidateSettings(r, a) ==
    LET changed == a \notin {None, sponsor}
    IN /\ changed => ValidateFiscalSponsor(a, RequiresAutomaticTax)
       /\ Begin(r, [op |-> "settings", a |-> a,
                    check |-> IF changed
                              THEN [expected |-> sponsor, automatic |-> RequiresAutomaticTax]
                              ELSE NoCheck])
       /\ UNCHANGED <<event, sponsor, place, locked, lost, told>>

Replaceable(a, check) ==
    /\ a \notin {None, sponsor} =>
        /\ check # NoCheck /\ check.expected = sponsor /\ check.automatic = RequiresAutomaticTax
        /\ sponsor = None \/ ~\E e \in Events : Selling(event[e]) /\ event[e].tax = "manual"
    /\ a = None /\ a # sponsor => ~\E e \in Events : Selling(event[e])

(* Drafts must choose rates of the new account. *)
ClearedRates(row, a) ==
    IF a # sponsor /\ Active(row) /\ ~row.published /\ row.tax = "manual"
    THEN [row EXCEPT !.rates = None]
    ELSE row

UpdateGroup(r) ==
    LET q == request[r]
    IN /\ q.op = "settings"
       /\ \/ /\ Replaceable(q.a, q.check)
             /\ Unlocked({e \in Events : ClearedRates(event[e], q.a) # event[e]})
             /\ event' = [e \in Events |-> ClearedRates(event[e], q.a)]
             /\ sponsor' = q.a
             /\ Finish(r) /\ UNCHANGED <<place, locked, lost, told>>
          \/ ~Replaceable(q.a, q.check) /\ Fail(r)
-----------------------------------------------------------------------------
(* Cancellation: the rows are locked before the recipients are read, and   *)
(* the places end in the same transaction.                                 *)

CancelIds(e, scope) ==
    LET open == {i \in Events : Active(event[i]) /\ ~event[i].past}
    IN IF scope = "series" /\ open # {} THEN open ELSE {e}

LoadCancel(r, e, scope) ==
    /\ ~event[e].deleted
    /\ Begin(r, [op |-> "cancel", step |-> "lock", ids |-> CancelIds(e, scope)])
    /\ UNCHANGED <<event, sponsor, place, locked, lost, told>>

Enrolled(e) == {u \in Users : place[e][u] # None}

CancelRecipients(e) == IF event[e].published THEN Enrolled(e) \cup Speakers ELSE {}

LockEventsForCancellation_Reads(r, ids) == UNCHANGED locked    \* mutant: rows are read, not locked

LockEventsForCancellation(r, ids) ==
    locked' = [e \in Events |-> IF e \in ids THEN r ELSE locked[e]]

LockCancel(r) ==
    LET q == request[r]
    IN /\ q.op = "cancel" /\ q.step = "lock"
       /\ Unlocked(q.ids)
       /\ \/ /\ \A e \in q.ids : Active(event[e]) /\ ~event[e].past
             /\ LockEventsForCancellation(r, q.ids)
             /\ request' = [request EXCEPT ![r] =
                    [op |-> "cancel", step |-> "commit", ids |-> q.ids,
                     tell |-> [e \in q.ids |-> CancelRecipients(e)]]]
             /\ UNCHANGED <<event, sponsor, place, lost, told, used>>
          \/ (\E e \in q.ids : ~Active(event[e]) \/ event[e].past) /\ Fail(r)

Unlock(r) == locked' = [e \in Events |-> IF locked[e] = r THEN None ELSE locked[e]]

CommitCancel(r) ==
    LET q == request[r]
    IN /\ q.op = "cancel" /\ q.step = "commit"
       /\ told' = [e \in Events |-> IF e \in q.ids THEN told[e] \cup q.tell[e] ELSE told[e]]
       /\ lost' = [e \in Events |-> IF e \in q.ids THEN Enrolled(e) ELSE lost[e]]
       /\ place' = [e \in Events |-> IF e \in q.ids THEN [u \in Users |-> None] ELSE place[e]]
       /\ event' = [e \in Events |->
                        IF e \in q.ids THEN [event[e] EXCEPT !.canceled = TRUE] ELSE event[e]]
       /\ Unlock(r) /\ Finish(r) /\ UNCHANGED sponsor

(* A notification cannot be queued, or a refund cannot be handed over: the *)
(* unit of work is dropped and rolls back.                                 *)
RollbackCancel(r) ==
    /\ request[r].op = "cancel" /\ request[r].step = "commit"
    /\ Unlock(r) /\ Finish(r)
    /\ UNCHANGED <<event, sponsor, place, lost, told>>
-----------------------------------------------------------------------------
(* Unpublishing and deleting: the ids are listed, then one call acts on    *)
(* all of them or on none.                                                 *)

SeriesIds(e, scope) == IF scope = "series" THEN {i \in Events : ~event[i].deleted} ELSE {e}

LoadAction(r, op, e, scope) ==
    /\ ~event[e].deleted
    /\ Begin(r, [op |-> op, ids |-> SeriesIds(e, scope)])
    /\ UNCHANGED <<event, sponsor, place, locked, lost, told>>

(* Attendees keep their place; close_event_enrollment empties the queue. *)
Unpublish(r) ==
    LET q == request[r]
    IN /\ q.op = "unpublish"
       /\ Unlocked(q.ids)
       /\ \/ /\ \A e \in q.ids : ~event[e].deleted
             /\ event' = [e \in Events |->
                            IF e \in q.ids THEN [event[e] EXCEPT !.published = FALSE] ELSE event[e]]
             /\ place' = [e \in Events |->
                            IF e \in q.ids /\ event[e].published
                            THEN [u \in Users |-> IF place[e][u] = "queued" THEN None
                                                  ELSE place[e][u]]
                            ELSE place[e]]
             /\ Finish(r) /\ UNCHANGED <<sponsor, locked, lost, told>>
          \/ (\E e \in q.ids : event[e].deleted) /\ Fail(r)

(* get_event_delete_eligibility; purchases are those of EnrollmentRefunds. *)
DeleteEligible_Unpublished(e) ==    \* mutant: any event that is not published now
    /\ ~\E u \in Users : place[e][u] = "queued"
    /\ event[e].canceled \/ event[e].past \/ ~event[e].published

DeleteEligible(e) ==
    /\ ~\E u \in Users : place[e][u] = "queued"
    /\ \/ event[e].canceled
       \/ event[e].past
       \/ ~event[e].published /\ ~event[e].ever /\ Enrolled(e) = {}

Delete(r) ==
    LET q == request[r]
    IN /\ q.op = "delete"
       /\ Unlocked(q.ids)
       /\ \/ /\ \A e \in q.ids : ~event[e].deleted /\ DeleteEligible(e)
             /\ event' = [e \in Events |->
                            IF e \in q.ids
                            THEN [event[e] EXCEPT !.deleted = TRUE, !.published = FALSE]
                            ELSE event[e]]
             /\ Finish(r) /\ UNCHANGED <<sponsor, place, locked, lost, told>>
          \/ (\E e \in q.ids : event[e].deleted \/ ~DeleteEligible(e)) /\ Fail(r)
-----------------------------------------------------------------------------
(* The public side, under the event's lock. *)
Attend(e, u) ==
    /\ locked[e] = None /\ Active(event[e]) /\ event[e].published /\ ~event[e].past
    /\ place[e][u] = None
    /\ \E status \in {"attending", "queued"} : place' = [place EXCEPT ![e][u] = status]
    /\ UNCHANGED <<event, sponsor, request, locked, lost, told, used>>

Leave(e, u) ==
    /\ locked[e] = None /\ place[e][u] # None
    /\ place' = [place EXCEPT ![e][u] = None]
    /\ UNCHANGED <<event, sponsor, request, locked, lost, told, used>>

(* Time passes the end of an event. *)
Pass(e) ==
    /\ ~event[e].past /\ locked[e] = None /\ used < MaxRequests
    /\ event' = [event EXCEPT ![e].past = TRUE]
    /\ used' = used + 1
    /\ UNCHANGED <<sponsor, place, request, locked, lost, told>>

LifecycleNext ==
    \/ \E r \in Requests, e \in Events, scope \in Scopes :
        \/ ValidatePublish(r, e, scope)
        \/ LoadCancel(r, e, scope)
        \/ \E op \in {"unpublish", "delete"} : LoadAction(r, op, e, scope)
    \/ \E r \in Requests, e \in Events, t \in Ticketing : ValidateUpdate(r, e, t)
    \/ \E r \in Requests, a \in Accounts \cup {None} : ValidateSettings(r, a)
    \/ \E r \in Requests :
        \/ LoadPublish(r) \/ CommitPublish(r)
        \/ CommitUpdate(r)
        \/ UpdateGroup(r)
        \/ LockCancel(r) \/ CommitCancel(r) \/ RollbackCancel(r)
        \/ Unpublish(r) \/ Delete(r)
    \/ \E e \in Events, u \in Users : Attend(e, u) \/ Leave(e, u)
    \/ \E e \in Events : Pass(e)

LifecycleSpec == LifecycleInit /\ [][LifecycleNext]_lifecycleVars
-----------------------------------------------------------------------------
(* Every event on sale can be sold: the group's current account is one the *)
(* provider accepted for the event's kind of tax, and manual rates belong  *)
(* to it, however the checks of publishing, updating and the settings page *)
(* interleave.                                                             *)
SponsorFitsSales ==
    \A e \in Events : Selling(event[e]) =>
        /\ sponsor # None
        /\ event[e].tax = "automatic" => sponsor \in TaxReady
        /\ event[e].tax = "manual" => event[e].rates = sponsor

(* Everyone whose place a cancellation of a visible event ends is told of  *)
(* it, and nobody is told of a cancellation that was rolled back.          *)
CancellationTold ==
    \A e \in Events :
        /\ event[e].canceled /\ event[e].published => lost[e] \subseteq told[e]
        /\ told[e] # {} => event[e].canceled

(* Deletion leaves nobody behind: a future event is only removed once      *)
(* no one has a place at it.                                               *)
NobodyLeftBehind ==
    \A e \in Events : event[e].deleted /\ ~event[e].past => Enrolled(e) = {}
=============================================================================
