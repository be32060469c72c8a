--------------------------- MODULE DashboardAccess ---------------------------
(***************************************************************************)
(* Who may work in a dashboard, and in which one: the teams of communities *)
(* and groups, the stored login sessions with the community and the group  *)
(* they have selected, and the requests that use them.                     *)
(*                                                                         *)
(* A request reads its whole session record once, changes its own copy,    *)
(* and when it ends writes the copy back if it was changed.  Two tabs of a *)
(* browser share a session, so a copy may be old when it is written: the   *)
(* session may have been changed, or ended, in between.                    *)
(*                                                                         *)
(* Accounts are registered and verified; groups are neither added nor      *)
(* deleted.  A list the code takes the first element of, in the order of   *)
(* names, is a set any element of which may be first.                      *)
(***************************************************************************)
EXTENDS Naturals, Sequences

CONSTANTS
    Members,
    Communities,
    Groups,
    CommunityOf,    \* [Groups -> Communities]
    Restricted,     \* communities that manage the teams of their groups
    Visits,         \* requests in flight
    MaxVisits       \* bound: requests of a behaviour

ASSUME AccessAssumption ==
    /\ CommunityOf \in [Groups -> Communities]
    /\ Restricted \subseteq Communities
    /\ MaxVisits \in Nat

Teams == Communities \cup Groups
Unset == "unset"

ASSUME UnsetIsNothing == Unset \notin Teams \cup Visits

VARIABLES
    team,       \* team[t][u]: a row of community_team or group_team
    epoch,      \* epoch[u]: user.auth_hash, numbered by password changes
    session,    \* rows of auth_session, in the order created
    visit,      \* visit[v]: what a request holds between its steps
    teamLock,   \* teamLock[t]: the request whose transaction locked the rows
    visits      \* requests begun

accessVars == <<team, epoch, session, visit, teamLock, visits>>

NotMember == [role |-> "none", accepted |-> FALSE]
Absent == [at |-> "absent"]

Accepted(tm, t, u) == tm[t][u].accepted
AcceptedAdmin(tm, t, u) == tm[t][u] = [role |-> "admin", accepted |-> TRUE]

AccessInit ==
    /\ team \in [Teams -> [Members -> {NotMember, [role |-> "admin", accepted |-> TRUE]}]]
    /\ \A t \in Teams : \E u \in Members : AcceptedAdmin(team, t, u)
    /\ epoch = [u \in Members |-> 0]
    /\ session = <<>>
    /\ visit = [v \in Visits |-> Absent]
    /\ teamLock = [t \in Teams |-> Unset]
    /\ visits = 0
-----------------------------------------------------------------------------
(* Permissions: of the roles only what they may do to a team is kept. *)

(* user_has_group_permission, user_has_community_permission. *)
MayRead(tm, u, t) ==
    Accepted(tm, t, u) \/ (t \in Groups /\ Accepted(tm, CommunityOf[t], u))

MayManage(tm, u, t) ==
    IF t \in Communities THEN AcceptedAdmin(tm, t, u)
    ELSE \/ AcceptedAdmin(tm, t, u) /\ CommunityOf[t] \notin Restricted
         \/ AcceptedAdmin(tm, CommunityOf[t], u)

UserGroups(tm, u) == {g \in Groups : MayRead(tm, u, g)}
UserCommunities(tm, u) == {c \in Communities : Accepted(tm, c, u)}
-----------------------------------------------------------------------------
(* Selections: the records that may become of rec.  A record's left is     *)
(* history, and no guard reads it: the group was selected before a log-in  *)
(* over the session that selected a community and found no group.          *)

SelectFirst(tm, rec) ==
    LET gs == UserGroups(tm, rec.user)
        cs == UserCommunities(tm, rec.user)
    IN IF gs # {} THEN {[rec EXCEPT !.community = CommunityOf[g], !.group = g, !.left = FALSE] : g \in gs}
       ELSE IF cs # {} THEN {[rec EXCEPT !.community = c, !.left = rec.group # Unset] : c \in cs}
       ELSE {rec}

GroupsIn(rec, c) == {g \in UserGroups(team, rec.user) : CommunityOf[g] = c}

SyncSelected_KeepsGroup(rec, c) ==  \* mutant: the group of another community stays selected
    IF GroupsIn(rec, c) = {} THEN {[rec EXCEPT !.community = c]}
    ELSE {[rec EXCEPT !.community = c, !.group = g, !.left = FALSE] : g \in GroupsIn(rec, c)}

SyncSelected(rec, c) ==
    IF GroupsIn(rec, c) = {} THEN {[rec EXCEPT !.community = c, !.group = Unset, !.left = FALSE]}
    ELSE {[rec EXCEPT !.community = c, !.group = g, !.left = FALSE] : g \in GroupsIn(rec, c)}

SelectAccessibleCommunity(rec) ==
    UNION {SyncSelected(rec, c) : c \in UserCommunities(team, rec.user)}

SelectAccessibleGroup(rec) ==
    LET own == GroupsIn(rec, rec.community)
    IN {[rec EXCEPT !.community = CommunityOf[g], !.group = g, !.left = FALSE] :
            g \in IF own # {} THEN own ELSE UserGroups(team, rec.user)}
-----------------------------------------------------------------------------
(* Requests begin and end. *)

Enter(v, held) ==
    /\ visit[v] = Absent /\ visits < MaxVisits
    /\ visit' = [visit EXCEPT ![v] = held]
    /\ visits' = visits + 1

Reply(v) == visit' = [visit EXCEPT ![v] = Absent]

(* The reply leaves with the copy rec, which is written back if it was     *)
(* changed: a selection, or a message for the next page, which the session *)
(* carries too and any reply may leave or consume.                         *)
ReplyWith(v, rec) ==
    \/ rec = visit[v].rec /\ Reply(v)
    \/ visit' = [visit EXCEPT ![v] = [at |-> "save", sid |-> visit[v].sid, rec |-> rec]]

(* Logging out deletes the row at once. *)
Flush(sid) == session' = [session EXCEPT ![sid].live = FALSE]

(* A session whose hash is not the account's any more is ended instead of  *)
(* being used.                                                             *)
Arrive(v, sid, op) ==
    /\ session[sid].live
    /\ \/ /\ session[sid].hash = epoch[session[sid].user]
          /\ Enter(v, [at |-> op.kind, sid |-> sid, rec |-> session[sid], op |-> op])
          /\ UNCHANGED session
       \/ /\ session[sid].hash # epoch[session[sid].user]
          /\ Enter(v, Absent)
          /\ Flush(sid)
    /\ UNCHANGED <<team, epoch, teamLock>>

(* Password, OAuth2 and OIDC end alike.  A browser that is not logged in   *)
(* gets a session with a new id, stored when the request ends.             *)
LogIn(v, u) ==
    /\ \E rec \in SelectFirst(team, [live |-> TRUE, user |-> u, hash |-> epoch[u],
                                     community |-> Unset, group |-> Unset, left |-> FALSE]) :
            Enter(v, [at |-> "save", sid |-> 0, rec |-> rec])
    /\ UNCHANGED <<team, epoch, session, teamLock>>

(* In a browser that is logged in already (another tab, a provider's       *)
(* callback), as the same or as another user, the session keeps its id and *)
(* what it had selected.                                                   *)
LogInOver(v) ==
    LET q == visit[v]
    IN /\ q.at = "log-in"
       /\ \E rec \in SelectFirst(team, [q.rec EXCEPT !.user = q.op.member,
                                                     !.hash = epoch[q.op.member]]) :
             visit' = [visit EXCEPT ![v] = [at |-> "save", sid |-> q.sid, rec |-> rec]]
       /\ UNCHANGED <<team, epoch, session, teamLock, visits>>

(* create_session, or update_session, which finds no row to update after   *)
(* the session was deleted.                                                *)
SaveSession_Upsert(sid, rec) ==     \* mutant: the row is inserted when it is missing
    session' = IF sid = 0 THEN Append(session, rec) ELSE [session EXCEPT ![sid] = rec]

SaveSession(sid, rec) ==
    session' = IF sid = 0 THEN Append(session, rec)
               ELSE IF session[sid].live THEN [session EXCEPT ![sid] = rec]
               ELSE session

Save(v) ==
    /\ visit[v].at = "save"
    /\ SaveSession(visit[v].sid, visit[v].rec)
    /\ Reply(v)
    /\ UNCHANGED <<team, epoch, teamLock, visits>>

LogOut(v) ==
    /\ visit[v].at = "log-out"
    /\ Flush(visit[v].sid)
    /\ Reply(v)
    /\ UNCHANGED <<team, epoch, teamLock, visits>>

(* The answer sends the browser to log out, which is another request. *)
UpdateUserPassword(v) ==
    /\ visit[v].at = "password"
    /\ epoch' = [epoch EXCEPT ![visit[v].rec.user] = @ + 1]
    /\ ReplyWith(v, visit[v].rec)
    /\ UNCHANGED <<team, session, teamLock, visits>>
-----------------------------------------------------------------------------
(* Choosing what to work on. *)

(* From the community dashboard (read permission, a group is optional) or  *)
(* from the group dashboard (a group is required).                         *)
SelectCommunity(v) ==
    LET rec == visit[v].rec
        c == visit[v].op.target
    IN /\ visit[v].at = "select-community"
       /\ \/ /\ Accepted(team, c, rec.user) \/ GroupsIn(rec, c) # {}
             /\ \E new \in SyncSelected(rec, c) : ReplyWith(v, new)
          \/ ~Accepted(team, c, rec.user) /\ GroupsIn(rec, c) = {} /\ Reply(v)
       /\ UNCHANGED <<team, epoch, session, teamLock, visits>>

SelectGroup(v) ==
    LET rec == visit[v].rec
        g == visit[v].op.target
        allowed == CommunityOf[g] = rec.community /\ MayRead(team, rec.user, g)
    IN /\ visit[v].at = "select-group"
       /\ \/ allowed /\ ReplyWith(v, [rec EXCEPT !.group = g, !.left = FALSE])
          \/ ~allowed /\ Reply(v)
       /\ UNCHANGED <<team, epoch, session, teamLock, visits>>

(* The dashboards' middleware: a missing selection is repaired, one the    *)
(* user may not read any more ends the session.  A request that changes    *)
(* the team goes on with the repaired copy.                                *)
Contexts(rec, scope) ==
    IF scope = "group"
    THEN IF Unset \in {rec.community, rec.group} THEN SelectAccessibleGroup(rec) ELSE {rec}
    ELSE IF rec.community = Unset THEN SelectAccessibleCommunity(rec) ELSE {rec}

Target(rec, scope) == IF scope = "group" THEN rec.group ELSE rec.community
Selected(rec, scope) == scope = "group" => CommunityOf[rec.group] = rec.community

EnterDashboard(v) ==
    LET q == visit[v]
        scope == q.op.scope
        readable(rec) == /\ Selected(rec, scope)
                         /\ MayRead(team, rec.user, Target(rec, scope))
        granted(rec) == /\ readable(rec)
                        /\ MayManage(team, rec.user, Target(rec, scope))
    IN /\ q.at = "dashboard"
       /\ \/ Contexts(q.rec, scope) = {} /\ Reply(v) /\ UNCHANGED session
          \/ \E rec \in Contexts(q.rec, scope) :
                \/ /\ q.op.change = "none" \/ ~granted(rec)
                   /\ readable(rec)
                   /\ ReplyWith(v, rec)
                   /\ UNCHANGED session
                \/ /\ q.op.change # "none" /\ granted(rec)
                   /\ visit' = [visit EXCEPT ![v] =
                        [at |-> "team", sid |-> q.sid, rec |-> q.rec, new |-> rec,
                         t |-> Target(rec, scope), u |-> q.op.member, change |-> q.op.change]]
                   /\ UNCHANGED session
                \/ ~readable(rec) /\ Flush(q.sid) /\ Reply(v)
       /\ UNCHANGED <<team, epoch, teamLock, visits>>
-----------------------------------------------------------------------------
(* Teams. *)

AddTeamMember(v) ==
    LET q == visit[v]
    IN /\ q.at = "team" /\ q.change = "invite"
       /\ team' = IF team[q.t][q.u] # NotMember THEN team
                  ELSE [team EXCEPT ![q.t][q.u] = [role |-> "admin", accepted |-> FALSE]]
       /\ ReplyWith(v, q.new)
       /\ UNCHANGED <<epoch, session, teamLock, visits>>

(* Removing a member or changing a role first locks every row of the team, *)
(* then counts its accepted admins, then writes.                           *)
LockTeam_Reads(v, t) == UNCHANGED teamLock     \* mutant: the rows are read, not locked

LockTeam(v, t) == teamLock' = [teamLock EXCEPT ![t] = v]

LastAdmin(t, u) ==
    AcceptedAdmin(team, t, u) /\ ~\E w \in Members \ {u} : AcceptedAdmin(team, t, w)

ReadTeam(v) ==
    LET q == visit[v]
    IN /\ q.at = "team" /\ q.change \in {"remove", "demote"}
       /\ teamLock[q.t] = Unset
       /\ \/ /\ team[q.t][q.u] # NotMember /\ ~LastAdmin(q.t, q.u)
             /\ LockTeam(v, q.t)
             /\ visit' = [visit EXCEPT ![v].at = "write"]
          \/ /\ team[q.t][q.u] = NotMember \/ LastAdmin(q.t, q.u)
             /\ ReplyWith(v, q.new)
             /\ UNCHANGED teamLock
       /\ UNCHANGED <<team, epoch, session, visits>>

(* A member who removed themselves and lost the dashboard is logged out. *)
WriteTeam(v) ==
    LET q == visit[v]
        rows == [team EXCEPT ![q.t][q.u] =
                    IF q.change = "remove" THEN NotMember ELSE [@ EXCEPT !.role = "viewer"]]
        left == /\ q.change = "remove" /\ q.u = q.new.user
                /\ q.t \in Communities \/ ~MayRead(rows, q.u, q.t)
    IN /\ q.at = "write"
       /\ team' = rows
       /\ teamLock' = [t \in Teams |-> IF teamLock[t] = v THEN Unset ELSE teamLock[t]]
       /\ \/ left /\ Flush(q.sid) /\ Reply(v)
          \/ ~left /\ ReplyWith(v, q.new) /\ UNCHANGED session
       /\ UNCHANGED <<epoch, visits>>

(* The invited user answers.  Accepting selects a dashboard when the       *)
(* session has none.                                                       *)
AnswerInvitation(v) ==
    LET q == visit[v]
        u == q.rec.user
        t == q.op.target
        pending == team[t][u] # NotMember /\ ~Accepted(team, t, u)
        rows == [team EXCEPT ![t][u] =
                    IF q.op.accept THEN [@ EXCEPT !.accepted = TRUE] ELSE NotMember]
    IN /\ q.at = "answer"
       /\ teamLock[t] = Unset
       /\ \/ /\ pending
             /\ team' = rows
             /\ \E rec \in IF q.op.accept /\ q.rec.community = Unset
                           THEN SelectFirst(rows, q.rec) ELSE {q.rec} :
                    ReplyWith(v, rec)
          \/ ~pending /\ Reply(v) /\ UNCHANGED team
       /\ UNCHANGED <<epoch, session, teamLock, visits>>
-----------------------------------------------------------------------------
Ops ==
    [kind : {"log-out", "password"}] \cup
    [kind : {"log-in"}, member : Members] \cup
    [kind : {"select-community"}, target : Communities] \cup
    [kind : {"select-group"}, target : Groups] \cup
    [kind : {"answer"}, target : Teams, accept : BOOLEAN] \cup
    [kind : {"dashboard"}, scope : {"community", "group"},
     change : {"none", "invite", "remove", "demote"}, member : Members]

AccessNext ==
    \/ \E v \in Visits, u \in Members : LogIn(v, u)
    \/ \E v \in Visits, sid \in DOMAIN session, op \in Ops : Arrive(v, sid, op)
    \/ \E v \in Visits :
        \/ LogInOver(v) \/ Save(v) \/ LogOut(v) \/ UpdateUserPassword(v)
        \/ SelectCommunity(v) \/ SelectGroup(v) \/ EnterDashboard(v)
        \/ AddTeamMember(v) \/ ReadTeam(v) \/ WriteTeam(v) \/ AnswerInvitation(v)

AccessSpec == AccessInit /\ [][AccessNext]_accessVars
-----------------------------------------------------------------------------
(* The selected group is one of the selected community's: the group        *)
(* dashboard ends the session otherwise.  select_first_community_and_group *)
(* breaks it, when a log-in over a session finds a community and no group. *)
SelectionConsistent ==
    \A sid \in DOMAIN session :
        session[sid].live /\ session[sid].group # Unset =>
            session[sid].community = CommunityOf[session[sid].group]

(* Nothing else does, although tabs select at the same time and write back *)
(* old copies: a selected group is of another community only after such a  *)
(* log-in, and only until a community or a group is selected again.        *)
GroupLeftOnlyByLogIn ==
    \A sid \in DOMAIN session :
        LET rec == session[sid]
        IN rec.live /\ rec.group # Unset /\ ~rec.left => rec.community = CommunityOf[rec.group]

(* A session that was logged out, by any of its tabs or because it was     *)
(* stale, is not brought back by a request that was still under way.       *)
LoggedOutStaysOut ==
    [][\A sid \in DOMAIN session : ~session[sid].live => ~session'[sid].live]_accessVars

(* A team with an accepted admin never loses the last one, however         *)
(* removals, demotions and self-removals interleave.                       *)
AdminKept ==
    [][\A t \in Teams :
        (\E u \in Members : AcceptedAdmin(team, t, u))
            => \E u \in Members : AcceptedAdmin(team', t, u)]_accessVars
=============================================================================
