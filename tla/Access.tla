-------------------------------- MODULE Access --------------------------------
(***************************************************************************)
(* VoiceService and MqttService (src/modules/voice, mqtt): who is let into *)
(* a voice room, and who may publish positions of which event.  Both read  *)
(* the roster (module Roster) query by query and then sign a grant that    *)
(* nothing takes back before it expires.                                   *)
(***************************************************************************)
EXTENDS Roster

CONSTANTS
    Staff,      \* users of role ADMIN or INSTRUCTOR; they may be operators, too
    Guests      \* users that are neither staff nor operators

\* The ids of squads, teams and events differ: a room belongs to one of them.
ASSUME AccessConstants ==
    /\ Squads \cap Teams = {} /\ Squads \cap Events = {} /\ Teams \cap Events = {}
    /\ NoOne \notin Squads \cup Teams \cup Events

VARIABLE grant  \* the last grant signed since a call began

Users == Operators \cup Staff \cup Guests
NoGrant == [room |-> NoOne, event |-> NoOne, user |-> NoOne, publish |-> FALSE, for |-> NoOne]

\* A grant for MQTT is for no room, but for a squad that was found.
Grant(room, e, u, publish) ==
    [room |-> room, event |-> e, user |-> u, publish |-> publish, for |-> room]

\* issueToken reads the user and what the room belongs to: a squad must be
\* ACTIVE, and so must its event.  COMMAND is for staff and decided at once.  The
\* queries of one include are a single read here.
AskVoice(s) ==
    \/ \E u \in Users, q \in Squads :
          /\ squad[q] = "ACTIVE" /\ status[EventOfSquad(q)] = "ACTIVE"
          /\ Begin(s, [kind |-> "voice", at |-> "member", user |-> u, room |-> q,
                       event |-> EventOfSquad(q), squads |-> {q}, about |-> {},
                       heeds |-> {q, u, EventOfSquad(q)}])
          /\ grant' = NoGrant
    \/ \E u \in Users, t \in Teams :
          /\ team[t] = "exists" /\ status[EventOf[t]] = "ACTIVE"
          /\ Begin(s, [kind |-> "voice", at |-> "member", user |-> u, room |-> t,
                       event |-> EventOf[t], squads |-> {q \in Squads : TeamOf[q] = t},
                       about |-> {}, heeds |-> {u, EventOf[t]}])
          /\ grant' = NoGrant
    \/ \E u \in Staff, e \in Events :
          /\ status[e] = "ACTIVE" /\ doing[s] = Idle
          /\ grant' = Grant(e, e, u, TRUE)
          /\ UNCHANGED <<doing, contended>>

\* Mutant of VoiceGrant: staff who observe may speak.
VoiceGrantAloud(c) ==
    IF \E q \in c.squads : c.user \in members[q] \/ c.user \in Staff
    THEN Grant(c.room, c.event, c.user, TRUE) ELSE NoGrant

\* resolveSquad, resolveTeam: members may speak, staff may listen.
VoiceGrant(c) ==
    IF \E q \in c.squads : c.user \in members[q]
    THEN Grant(c.room, c.event, c.user, TRUE)
    ELSE IF c.user \in Staff THEN Grant(c.room, c.event, c.user, FALSE) ELSE NoGrant

SignVoice(s) ==
    /\ At(s, "voice", "member")
    /\ grant' = IF VoiceGrant(doing[s]) = NoGrant THEN grant ELSE VoiceGrant(doing[s])
    /\ Leave(s)
    /\ UNCHANGED contended

\* issueForUser: one query finds any membership of the operator with its squad
\* and event; both must be ACTIVE.
AskMqtt(s) ==
    /\ \E o \in Operators : \E q \in {p \in Squads : o \in members[p]} :
          /\ squad[q] = "ACTIVE" /\ status[EventOfSquad(q)] = "ACTIVE"
          /\ Begin(s, [kind |-> "mqtt", at |-> "assume", user |-> o, event |-> EventOfSquad(q),
                       squads |-> {q},
                       about |-> {}, heeds |-> {q, o, EventOfSquad(q)}])
    /\ grant' = NoGrant

\* AWS answers with credentials for the event's topic of the operator, or the
\* call fails.
SignMqtt(s) ==
    /\ At(s, "mqtt", "assume")
    /\ \/ UNCHANGED grant
       \/ \E q \in doing[s].squads :
             grant' = [Grant(NoOne, doing[s].event, doing[s].user, TRUE) EXCEPT !.for = q]
    /\ Leave(s)
    /\ UNCHANGED contended

AccessStep(s) ==
    /\ AskVoice(s) \/ SignVoice(s) \/ AskMqtt(s) \/ SignMqtt(s)
    /\ UNCHANGED <<eventVars, rosterVars>>

-----------------------------------------------------------------------------
(* Properties *)

\* "We don't hand out voice keys to ended runs", "member operators get publish,
\* ADMIN/INSTRUCTOR can observe", "the operator is a member of an ACTIVE squad
\* [whose] team belongs to an ACTIVE event": a new grant is for an ACTIVE event,
\* to speak or publish in it takes a membership there (of the room's squad,
\* which is ACTIVE, or team), and nobody else but staff gets one; unless the
\* squad, the operator or the event changed while the grant was prepared.
MaySpeak(g) ==
    IF g.room \in Squads THEN squad[g.room] = "ACTIVE" /\ g.user \in members[g.room]
    ELSE IF g.room \in Teams THEN \E q \in SquadsOf(g.user, g.event) : TeamOf[q] = g.room
    ELSE IF g.room \in Events THEN g.user \in Staff
    ELSE \E q \in SquadsOf(g.user, g.event) : squad[q] = "ACTIVE"

GrantsFollowTheRosterUnlessContended ==
    [][LET g == grant' IN
       g \notin {grant, NoGrant} /\ {g.for, g.event, g.user} \cap contended = {} =>
          /\ status[g.event] = "ACTIVE"
          /\ IF g.publish THEN MaySpeak(g) ELSE g.user \in Staff]_grant
=============================================================================
