------------------------------- MODULE Roster -------------------------------
(***************************************************************************)
(* TeamsService and SquadsService (src/modules/teams, src/modules/squads)  *)
(* on top of the events (module Events): teams of an event, squads of a    *)
(* team, their members and leaders.  Every call reads its squad, the event *)
(* and the memberships one after the other, then writes by id.  Deleting   *)
(* an event or a team deletes what belongs to it (ON DELETE CASCADE), and  *)
(* a row cannot be inserted for a parent that is gone (foreign keys).      *)
(***************************************************************************)
EXTENDS Events

CONSTANTS
    Teams, EventOf,     \* ids of teams, and the event of each
    Squads, TeamOf,     \* ids of squads, and the team of each
    Operators,
    NoOne,              \* no leader
    Keep,               \* a field a PATCH does not mention
    Patches             \* what a PATCH of a squad may say: [leader, status]

EventOfSquad(q) == EventOf[TeamOf[q]]
SquadStatuses == {"ACTIVE", "INACTIVE", "DISBANDED"}

ASSUME RosterConstants ==
    /\ EventOf \in [Teams -> Events]
    /\ TeamOf \in [Squads -> Teams]
    /\ Patches \subseteq [leader : Operators \cup {NoOne, Keep}, status : SquadStatuses \cup {Keep}]
    /\ NoOne \notin Operators /\ Keep \notin Operators \cup {NoOne}

VARIABLES
    team,       \* team[t]: "none" yet, "exists" or "deleted"
    squad,      \* squad[q]: the same, or ACTIVE, INACTIVE, DISBANDED
    leader,     \* leader[q]: leader_id or NoOne
    members     \* members[q]: operators with a squad_members row

rosterVars == <<team, squad, leader, members>>
vars == <<eventVars, doing, contended, rosterVars>>

Exists(q) == squad[q] \in SquadStatuses

TeamKinds == {"createTeam", "removeTeam"}
SquadKinds == {"createSquad", "updateSquad", "removeSquad", "addMember", "removeMember"}
MemberKinds == {"addMember", "removeMember"}

\* What a client may ask: the event is the one of the team or the squad, about
\* is what the call writes (its squad, and who of the operators is in which
\* squad), and leads is set by removeMember if it finds the operator leading.
TeamCall(k, t) ==
    [kind |-> k, at |-> "roster", team |-> t, event |-> EventOf[t],
     about |-> {}, heeds |-> {EventOf[t]}]

SquadCall(k, q) ==
    [kind |-> k, at |-> "roster", squad |-> q, event |-> EventOfSquad(q),
     about |-> {q}, heeds |-> {EventOfSquad(q)}]

PatchCall(q, f) ==
    [kind |-> "updateSquad", at |-> "roster", squad |-> q, event |-> EventOfSquad(q),
     leader |-> f.leader, status |-> f.status,
     about |-> {q}, heeds |-> {EventOfSquad(q)}]

MemberCall(k, q, o) ==
    [kind |-> k, at |-> "roster", squad |-> q, event |-> EventOfSquad(q),
     operator |-> o, leads |-> FALSE,
     about |-> {q, o}, heeds |-> {EventOfSquad(q)}]

AnyCall ==
    {TeamCall(k, t) : k \in TeamKinds, t \in Teams}
    \cup {SquadCall(k, q) : k \in {"createSquad", "removeSquad"}, q \in Squads}
    \cup {PatchCall(q, f) : q \in Squads, f \in Patches}
    \cup {MemberCall(k, q, o) : k \in MemberKinds, q \in Squads, o \in Operators}

Requests == {c \in AnyCall : c.kind \in Asked}

RosterInit ==
    /\ EventInit
    /\ team = [t \in Teams |-> "none"]
    /\ squad = [q \in Squads |-> "none"]
    /\ leader = [q \in Squads |-> NoOne]
    /\ members = [q \in Squads |-> {}]

-----------------------------------------------------------------------------
(* Reads *)

\* Mutant of Permits: DISBANDED is not looked at.
PermitsDisbanded(c) == TRUE

\* DISBANDED squads take no members and no other status.
Permits(c) ==
    squad[c.squad] = "DISBANDED" =>
        /\ c.kind # "addMember"
        /\ c.kind = "updateSquad" => c.status \in {Keep, "DISBANDED"}

\* removeMember notes whether the operator leads the squad.
Noted(c) ==
    IF c.kind = "removeMember" THEN [c EXCEPT !.leads = (leader[c.squad] = c.operator)] ELSE c

\* A call arrives; one about a squad that exists reads it (requireSquad).
ReadSquad(s) ==
    /\ doing[s] = Idle
    /\ \E c \in Requests :
          IF c.kind \in SquadKinds \ {"createSquad"} => Exists(c.squad) /\ Permits(c)
          THEN Begin(s, Noted(c))
          ELSE UNCHANGED <<doing, contended>>
    /\ UNCHANGED <<eventVars, rosterVars>>

\* Mutant of EventAllows: ENDED is not looked at.
EventAllowsAlways(c) ==
    /\ status[c.event] \in {"DRAFT", "ACTIVE", "ENDED"}
    /\ c.kind = "createTeam" => team[c.team] = "none"
    /\ c.kind = "removeTeam" => team[c.team] = "exists"
    /\ c.kind \in SquadKinds => team[TeamOf[c.squad]] = "exists"
    /\ c.kind = "createSquad" => squad[c.squad] = "none"

\* requireEvent, requireEventForTeam: deletion only in DRAFT, nothing once the
\* event is over.  A new team or squad needs a free name and its parent.
EventAllows(c) ==
    /\ status[c.event] \in {"DRAFT", "ACTIVE"}
    /\ c.kind \in {"removeTeam", "removeSquad"} => status[c.event] = "DRAFT"
    /\ c.kind = "createTeam" => team[c.team] = "none"
    /\ c.kind = "removeTeam" => team[c.team] = "exists"
    /\ c.kind \in SquadKinds => team[TeamOf[c.squad]] = "exists"
    /\ c.kind = "createSquad" => squad[c.squad] = "none"

ReadsMembers(c) ==
    c.kind \in MemberKinds \/ (c.kind = "updateSquad" /\ c.leader \in Operators)

CheckEvent(s) ==
    /\ \E k \in TeamKinds \cup SquadKinds : At(s, k, "roster")
    /\ Pass(s, EventAllows(doing[s]), IF ReadsMembers(doing[s]) THEN "members" ELSE "writing")
    /\ UNCHANGED <<eventVars, rosterVars>>

\* Mutant of MembersAllow: only the same squad counts.
MembersAllowSquadOnly(c) ==
    CASE c.kind = "addMember" -> c.operator \notin members[c.squad]
      [] c.kind = "removeMember" -> c.operator \in members[c.squad]
      [] c.kind = "updateSquad" -> c.leader \in members[c.squad]

\* Mutant of MembersAllow: anybody may lead.
MembersAllowAnyLeader(c) ==
    CASE c.kind = "addMember" ->
            \A q \in Squads : EventOfSquad(q) = c.event => c.operator \notin members[q]
      [] c.kind = "removeMember" -> c.operator \in members[c.squad]
      [] c.kind = "updateSquad" -> TRUE

\* findActiveMembershipInEvent for a new member, findMember for the others.
MembersAllow(c) ==
    CASE c.kind = "addMember" ->
            \A q \in Squads : EventOfSquad(q) = c.event => c.operator \notin members[q]
      [] c.kind = "removeMember" -> c.operator \in members[c.squad]
      [] c.kind = "updateSquad" -> c.leader \in members[c.squad]

ReadMembers(s) ==
    /\ \E k \in SquadKinds : At(s, k, "members")
    /\ Pass(s, MembersAllow(doing[s]), "writing")
    /\ UNCHANGED <<eventVars, rosterVars>>

-----------------------------------------------------------------------------
(* Writes; one whose row or parent row is gone fails and changes nothing. *)

Write(s, kind) == At(s, kind, "writing") /\ Leave(s) /\ UNCHANGED <<eventVars, contended>>

CreateTeam(s) ==
    /\ Write(s, "createTeam")
    /\ team' = IF team[doing[s].team] = "none" /\ status[doing[s].event] # "deleted"
               THEN [team EXCEPT ![doing[s].team] = "exists"] ELSE team
    /\ UNCHANGED <<squad, leader, members>>

DropSquads(gone) ==
    /\ squad' = [q \in Squads |-> IF q \in gone /\ Exists(q) THEN "deleted" ELSE squad[q]]
    /\ leader' = [q \in Squads |-> IF q \in gone THEN NoOne ELSE leader[q]]
    /\ members' = [q \in Squads |-> IF q \in gone THEN {} ELSE members[q]]

DropTeams(gone) ==
    /\ team' = [t \in Teams |-> IF t \in gone /\ team[t] = "exists" THEN "deleted" ELSE team[t]]
    /\ DropSquads({q \in Squads : TeamOf[q] \in gone})

RemoveTeam(s) ==
    /\ Write(s, "removeTeam")
    /\ DropTeams({doing[s].team})

CreateSquad(s) ==
    LET q == doing[s].squad IN
    /\ Write(s, "createSquad")
    /\ squad' = IF squad[q] = "none" /\ team[TeamOf[q]] = "exists"
                THEN [squad EXCEPT ![q] = "ACTIVE"] ELSE squad
    /\ UNCHANGED <<team, leader, members>>

Patched(old, new) == IF new = Keep THEN old ELSE new

UpdateSquad(s) ==
    LET c == doing[s] IN
    /\ Write(s, "updateSquad")
    /\ IF Exists(c.squad)
       THEN /\ squad' = [squad EXCEPT ![c.squad] = Patched(@, c.status)]
            /\ leader' = [leader EXCEPT ![c.squad] = Patched(@, c.leader)]
       ELSE UNCHANGED <<squad, leader>>
    /\ UNCHANGED <<team, members>>

RemoveSquad(s) ==
    /\ Write(s, "removeSquad")
    /\ DropSquads({doing[s].squad})
    /\ UNCHANGED team

\* Mutant of AddMember: no foreign key.
AddMemberAnywhere(s) ==
    /\ Write(s, "addMember")
    /\ members' = [members EXCEPT ![doing[s].squad] = @ \cup {doing[s].operator}]
    /\ UNCHANGED <<team, squad, leader>>

AddMember(s) ==
    LET q == doing[s].squad IN
    /\ Write(s, "addMember")
    /\ members' = IF Exists(q) THEN [members EXCEPT ![q] = @ \cup {doing[s].operator}]
                  ELSE members
    /\ UNCHANGED <<team, squad, leader>>

\* One transaction: delete the row and, if the squad as first read was led by
\* the operator, clear the leader.
RemoveMember(s) ==
    LET c == doing[s] IN
    /\ Write(s, "removeMember")
    /\ IF c.operator \in members[c.squad]
       THEN /\ members' = [members EXCEPT ![c.squad] = @ \ {c.operator}]
            /\ leader' = [leader EXCEPT ![c.squad] = IF c.leads THEN NoOne ELSE @]
       ELSE UNCHANGED <<members, leader>>
    /\ UNCHANGED <<team, squad>>

\* The events go on by themselves; a deleted one takes its teams along.
EventMove ==
    /\ \/ \E e \in Events : CreateEvent(e)
       \/ \E s \in Slots : EventStep(s)
    /\ IF \E e \in Events : status'[e] = "deleted" /\ status[e] # "deleted"
       THEN DropTeams({t \in Teams : status'[EventOf[t]] = "deleted"})
       ELSE UNCHANGED rosterVars

RosterStep(s) ==
    \/ ReadSquad(s) \/ CheckEvent(s) \/ ReadMembers(s)
    \/ CreateTeam(s) \/ RemoveTeam(s)
    \/ CreateSquad(s) \/ UpdateSquad(s) \/ RemoveSquad(s)
    \/ AddMember(s) \/ RemoveMember(s)

RosterNext == EventMove \/ \E s \in Slots : RosterStep(s)

RosterSpec == RosterInit /\ [][RosterNext]_vars

-----------------------------------------------------------------------------
(* Properties *)

\* Every variable has its type and every row its parent: members and leaders
\* belong to squads that exist, squads to teams, teams to events.
RosterTypeOK ==
    /\ EventTypeOK
    /\ team \in [Teams -> {"none", "exists", "deleted"}]
    /\ squad \in [Squads -> SquadStatuses \cup {"none", "deleted"}]
    /\ leader \in [Squads -> Operators \cup {NoOne}]
    /\ members \in [Squads -> SUBSET Operators]
    /\ \A t \in Teams : team[t] = "exists" => status[EventOf[t]] \notin {"none", "deleted"}
    /\ \A q \in Squads : Exists(q) => team[TeamOf[q]] = "exists"
    /\ \A q \in Squads : members[q] # {} \/ leader[q] # NoOne => Exists(q)

SquadsOf(o, e) == {q \in Squads : EventOfSquad(q) = e /\ o \in members[q]}

\* "One squad per operator per event": holds for operators that no two calls
\* were about at once, through joins, removals and deletions in any order.
OneSquadPerEventUnlessContended ==
    \A o \in Operators \ contended, e \in Events :
        \A p, q \in SquadsOf(o, e) : p = q

\* "leaderId must be a member of the squad": holds for squads that no two calls
\* were about at once.
LeaderIsMemberUnlessContended ==
    \A q \in Squads \ contended : leader[q] # NoOne => leader[q] \in members[q]

\* What is over stays as it is.  "Cannot add members in ENDED events", "Cannot
\* remove members in ENDED events", "Cannot edit squads of ENDED events": the
\* roster of an event that is over does not change, unless a call was under way
\* when it ended.  And "DISBANDED is terminal", with nobody joining a disbanded
\* squad that no two calls were about at once.
WhatIsOverIsFrozenUnlessContended ==
    [][\A q \in Squads :
          /\ status[EventOfSquad(q)] = "ENDED" /\ EventOfSquad(q) \notin contended =>
                /\ members'[q] = members[q]
                /\ leader'[q] = leader[q]
                /\ squad'[q] = squad[q]
          /\ squad[q] = "DISBANDED" /\ q \notin contended =>
                /\ squad'[q] \in {"DISBANDED", "deleted"}
                /\ members'[q] \subseteq members[q]]_rosterVars
=============================================================================
