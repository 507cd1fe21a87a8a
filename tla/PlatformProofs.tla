---------------------------- MODULE PlatformProofs ----------------------------
(***************************************************************************)
(* Theorems about Events and Roster, and about the Platform, where rounds, *)
(* missions, zones, training, voice rooms, reviews, friends and anti-cheat *)
(* run beside them.                                                        *)
(*                                                                         *)
(* The services write by id what an earlier read allowed.  A call past its *)
(* check still finds what it checked, because whoever changes that is      *)
(* about the same thing, and two calls about one thing are on record       *)
(* (contended); deletions cascade, but only to where a write then fails.   *)
(*                                                                         *)
(* Each section states the invariant of one service and shows that the     *)
(* steps of that service keep it, given the invariant of the rosters, and  *)
(* so do the cascades of theirs; the last sections put the parts together. *)
(***************************************************************************)
EXTENDS Platform, SumProofs

USE DEF EventKinds, TeamKinds, MemberKinds, SquadKinds

-----------------------------------------------------------------------------
(* The calls *)

AtPlaces == {"roster", "members", "writing"}

EventShape ==
    [kind : EventKinds, at : {"event"}, event : Events,
     about : SUBSET Events, heeds : SUBSET Events]

TeamShape ==
    [kind : TeamKinds, at : AtPlaces, team : Teams, event : Events,
     about : SUBSET Squads, heeds : SUBSET Events]

SquadShape ==
    [kind : {"createSquad", "removeSquad"}, at : AtPlaces, squad : Squads, event : Events,
     about : SUBSET Squads, heeds : SUBSET Events]

PatchShape ==
    [kind : {"updateSquad"}, at : AtPlaces, squad : Squads, event : Events,
     leader : Operators \cup {NoOne, Keep}, status : SquadStatuses \cup {Keep},
     about : SUBSET Squads, heeds : SUBSET Events]

MemberShape ==
    [kind : MemberKinds, at : AtPlaces, squad : Squads, event : Events,
     operator : Operators, leads : BOOLEAN,
     about : SUBSET (Squads \cup Operators), heeds : SUBSET Events]

RosterKinds == EventKinds \cup TeamKinds \cup SquadKinds

USE DEF RosterKinds

OfSquad(c) == c.event = EventOfSquad(c.squad) /\ c.squad \in c.about /\ c.heeds = {c.event}

\* What a call is about never changes while it is handled; the calls of the
\* services that only read the roster come later.
Shaped(c) ==
    \/ c \in EventShape /\ c.about = {c.event} /\ c.heeds = {}
    \/ c \in TeamShape /\ c.event = EventOf[c.team] /\ c.about = {} /\ c.heeds = {c.event}
    \/ c \in SquadShape /\ OfSquad(c) /\ c.about = {c.squad}
    \/ c \in PatchShape /\ OfSquad(c) /\ c.about = {c.squad}
    \/ c \in MemberShape /\ OfSquad(c) /\ c.about = {c.squad, c.operator}
    \/ c.kind \notin RosterKinds

Busy(s) == doing[s] # Idle

SlotsShaped ==
    /\ DOMAIN doing = Slots
    /\ \A s \in Slots : Busy(s) => Shaped(doing[s])

\* Two calls that are in each other's way are on record.
Rivals ==
    \A s, t \in Slots : s # t /\ Busy(s) /\ Busy(t) =>
        Disputed(doing[s], doing[t]) \subseteq contended

\* A call of an event kind still finds the status it insists on.
EventFact(c) ==
    c.kind \in EventKinds =>
        /\ status[c.event] # "none"
        /\ c.event \notin contended => status[c.event] \in Required(c.kind)

\* A call past the check of its event still finds it not over, and a removal
\* finds it in DRAFT.
PastFact(c) ==
    c.kind \in TeamKinds \cup SquadKinds /\ c.at # "roster" =>
        /\ status[c.event] # "none"
        /\ c.event \notin contended =>
              /\ status[c.event] # "ENDED"
              /\ c.kind \in {"removeTeam", "removeSquad"} => status[c.event] = "DRAFT"

\* A call about a squad still finds it not disbanded, if it minds.
SquadFact(c) ==
    c.kind \in SquadKinds \ {"createSquad"} =>
        /\ squad[c.squad] # "none"
        /\ c.squad \notin contended /\ squad[c.squad] = "DISBANDED" =>
              /\ c.kind # "addMember"
              /\ c.kind = "updateSquad" => c.status \in {Keep, "DISBANDED"}

\* A promotion still finds the membership, a removal whether the member leads.
LeadFact(c) ==
    /\ c.kind = "updateSquad" /\ c.at = "writing" /\ c.leader \in Operators
          /\ c.squad \notin contended /\ Exists(c.squad) => c.leader \in members[c.squad]
    /\ c.kind = "removeMember" /\ c.squad \notin contended /\ leader[c.squad] = c.operator =>
          c.leads = TRUE

\* A new member is still in no squad of the event.
JoinFact(c) ==
    c.kind = "addMember" /\ c.at = "writing" /\ c.operator \notin contended =>
        \A q \in Squads : EventOfSquad(q) = c.event => c.operator \notin members[q]

Facts(c) == EventFact(c) /\ PastFact(c) /\ SquadFact(c) /\ LeadFact(c) /\ JoinFact(c)

RosterInv ==
    /\ SlotsShaped
    /\ Rivals
    /\ \A s \in Slots : Busy(s) => Facts(doing[s])
    /\ RosterTypeOK
    /\ OneSquadPerEventUnlessContended
    /\ LeaderIsMemberUnlessContended

LEMMA RequestsShaped ==
    ASSUME NEW c \in Requests
    PROVE  Shaped(Noted(c)) /\ Noted(c).kind = c.kind /\ c.at = "roster" /\ Noted(c).at = "roster"
  <1> USE RosterConstants DEF AtPlaces, EventOfSquad
  <1>1. CASE \E k \in TeamKinds, t \in Teams : c = TeamCall(k, t)
    BY <1>1 DEF TeamCall, TeamShape, Shaped, Noted
  <1>2. CASE \E k \in {"createSquad", "removeSquad"}, q \in Squads : c = SquadCall(k, q)
    BY <1>2 DEF SquadCall, SquadShape, OfSquad, Shaped, Noted
  <1>3. CASE \E q \in Squads, f \in Patches : c = PatchCall(q, f)
    BY <1>3 DEF PatchCall, PatchShape, OfSquad, Shaped, Noted
  <1>4. CASE \E k \in MemberKinds, q \in Squads, o \in Operators : c = MemberCall(k, q, o)
    <2>1. PICK k \in MemberKinds, q \in Squads, o \in Operators : c = MemberCall(k, q, o)
      BY <1>4
    <2>2. c \in MemberShape /\ OfSquad(c) /\ c.about = {c.squad, c.operator} /\ c.kind = k /\ c.at = "roster"
      BY <2>1 DEF MemberCall, MemberShape, OfSquad
    <2>3. CASE k = "removeMember"
      BY <2>2, <2>3 DEF Noted, MemberShape, OfSquad, Shaped
    <2>4. CASE k # "removeMember"
      BY <2>2, <2>4 DEF Noted, Shaped
    <2> QED
      BY <2>3, <2>4
  <1> QED
    BY <1>1, <1>2, <1>3, <1>4 DEF Requests, AnyCall

LEMMA GotoShaped ==
    ASSUME NEW c, Shaped(c), c.kind \in RosterKinds \ EventKinds, NEW p \in AtPlaces
    PROVE  LET d == [c EXCEPT !.at = p] IN
           /\ Shaped(d) /\ d.at = p
           /\ d.kind = c.kind /\ d.event = c.event /\ d.about = c.about /\ d.heeds = c.heeds
           /\ c.kind \in SquadKinds => d.squad = c.squad
           /\ c.kind = "updateSquad" => d.leader = c.leader /\ d.status = c.status
           /\ c.kind \in MemberKinds => d.operator = c.operator /\ d.leads = c.leads
  <1>1. CASE c \in TeamShape /\ c.event = EventOf[c.team] /\ c.about = {} /\ c.heeds = {c.event}
    BY <1>1 DEF TeamShape, Shaped
  <1>2. CASE c \in SquadShape /\ OfSquad(c) /\ c.about = {c.squad}
    BY <1>2 DEF SquadShape, OfSquad, Shaped
  <1>3. CASE c \in PatchShape /\ OfSquad(c) /\ c.about = {c.squad}
    BY <1>3 DEF PatchShape, OfSquad, Shaped
  <1>4. CASE c \in MemberShape /\ OfSquad(c) /\ c.about = {c.squad, c.operator}
    BY <1>4 DEF MemberShape, OfSquad, Shaped
  <1> QED
    BY <1>1, <1>2, <1>3, <1>4 DEF Shaped, EventShape, RosterKinds

-----------------------------------------------------------------------------
(* The steps *)

\* A call begins, goes on, or ends; what the others know is as it was.
Begins(s, c) ==
    /\ Begin(s, c) /\ Shaped(c)
    /\ UNCHANGED <<eventVars, rosterVars>>

GoesOn(s, p) ==
    /\ Busy(s) /\ doing[s].kind \in RosterKinds \ EventKinds /\ p \in AtPlaces \ {"roster"} /\ Goto(s, p)
    /\ UNCHANGED <<eventVars, rosterVars>>

\* A call writes only what it is about, or drops squads with all they have.
Dropped(q) ==
    /\ \/ squad'[q] = "deleted"
       \/ squad'[q] = squad[q] /\ ~Exists(q)
    /\ leader'[q] = NoOne
    /\ members'[q] = {}

Ends(s) ==
    /\ Busy(s) /\ Leave(s) /\ contended' = contended
    /\ \A e \in Events :
          /\ status'[e] = status[e] \/ e \in doing[s].about
          /\ status[e] # "none" => status'[e] # "none"
    /\ \A q \in Squads :
          /\ \/ q \in doing[s].about
             \/ squad'[q] = squad[q] /\ leader'[q] = leader[q] /\ members'[q] = members[q]
             \/ Dropped(q)
          /\ squad[q] # "none" => squad'[q] # "none"
          /\ \A o \in members'[q] : o \in members[q] \/ o \in doing[s].about

\* A transition of the roster only creates an event, or is one of these.
LEMMA EventWriteEnds ==
    ASSUME RosterTypeOK, SlotsShaped, NEW s \in Slots, WriteEvent(s) \/ Crash(s), EventMove
    PROVE  Ends(s)
  <1> DEFINE e == doing[s].event
  <1>1. Busy(s) /\ Leave(s) /\ contended' = contended
    BY DEF WriteEvent, Crash, Dies, Busy
  <1>2. \A f \in Events : status'[f] = status[f] \/ (f \in doing[s].about /\ WriteEvent(s))
    BY <1>1 DEF WriteEvent, Crash, eventVars, RosterTypeOK, EventTypeOK, SlotsShaped, Shaped,
                EventShape, TeamShape, SquadShape, PatchShape, MemberShape
  <1>3. \A f \in Events : status[f] # "none" => status'[f] # "none"
    BY <1>1 DEF WriteEvent, Crash, eventVars, RosterTypeOK, EventTypeOK
  <1>4. \A q \in Squads : \/ squad'[q] = squad[q] /\ leader'[q] = leader[q] /\ members'[q] = members[q]
                          \/ Dropped(q)
    BY DEF EventMove, DropTeams, DropSquads, Dropped, rosterVars, RosterTypeOK
  <1>5. \A q \in Squads : squad[q] # "none" => squad'[q] # "none"
    BY <1>4 DEF Dropped
  <1> QED
    BY <1>1, <1>2, <1>3, <1>4, <1>5 DEF Ends, Dropped

LEMMA RosterWriteEnds ==
    ASSUME RosterTypeOK, SlotsShaped, NEW s \in Slots,
           \/ CreateTeam(s) \/ RemoveTeam(s) \/ CreateSquad(s) \/ UpdateSquad(s)
           \/ RemoveSquad(s) \/ AddMember(s) \/ RemoveMember(s)
    PROVE  Ends(s)
  <1> USE DEF Write, At, Busy, eventVars
  <1>1. Busy(s) /\ Leave(s) /\ contended' = contended /\ status' = status
    BY DEF CreateTeam, RemoveTeam, CreateSquad, UpdateSquad, RemoveSquad, AddMember, RemoveMember
  <1>2. Shaped(doing[s])
    BY <1>1 DEF SlotsShaped
  <1>3. ASSUME \A q \in Squads : \/ squad'[q] = squad[q] /\ leader'[q] = leader[q] /\ members'[q] = members[q]
                                 \/ Dropped(q)
        PROVE  Ends(s)
    BY <1>1, <1>3 DEF Ends, Dropped
  <1>4. CASE CreateTeam(s)
    BY <1>3, <1>4 DEF CreateTeam
  <1>5. CASE RemoveTeam(s)
    BY <1>3, <1>5 DEF RemoveTeam, DropTeams, DropSquads, Dropped, RosterTypeOK
  <1>6. CASE RemoveSquad(s)
    BY <1>3, <1>6 DEF RemoveSquad, DropSquads, Dropped, RosterTypeOK
  <1>7. CASE CreateSquad(s)
    <2>1. doing[s] \in SquadShape /\ OfSquad(doing[s])
      BY <1>2, <1>7 DEF CreateSquad, Shaped, EventShape, TeamShape, PatchShape, MemberShape
    <2> QED
      BY <1>1, <1>7, <2>1 DEF CreateSquad, OfSquad, SquadShape, Ends, RosterTypeOK
  <1>8. CASE UpdateSquad(s)
    <2>1. doing[s] \in PatchShape /\ OfSquad(doing[s])
      BY <1>2, <1>8 DEF UpdateSquad, Shaped, EventShape, TeamShape, SquadShape, MemberShape
    <2>2. Patched(squad[doing[s].squad], doing[s].status) # "none" \/ ~Exists(doing[s].squad)
      BY <2>1 DEF PatchShape, SquadStatuses, Patched, Exists
    <2> QED
      BY <1>1, <1>8, <2>1, <2>2 DEF UpdateSquad, OfSquad, PatchShape, Ends, RosterTypeOK
  <1>9. CASE AddMember(s)
    <2>1. doing[s] \in MemberShape /\ OfSquad(doing[s]) /\ doing[s].operator \in doing[s].about
      BY <1>2, <1>9 DEF AddMember, Shaped, EventShape, TeamShape, SquadShape, PatchShape
    <2> QED
      BY <1>1, <1>9, <2>1 DEF AddMember, OfSquad, MemberShape, Ends, RosterTypeOK
  <1>10. CASE RemoveMember(s)
    <2>1. doing[s] \in MemberShape /\ OfSquad(doing[s])
      BY <1>2, <1>10 DEF RemoveMember, Shaped, EventShape, TeamShape, SquadShape, PatchShape
    <2> QED
      BY <1>1, <1>10, <2>1 DEF RemoveMember, OfSquad, MemberShape, Ends, RosterTypeOK
  <1> QED
    BY <1>4, <1>5, <1>6, <1>7, <1>8, <1>9, <1>10

\* CheckEvent and ReadMembers go on or give up.
LEMMA CheckMoves ==
    ASSUME RosterTypeOK, SlotsShaped, NEW s \in Slots, CheckEvent(s) \/ ReadMembers(s)
    PROVE  Ends(s) \/ \E p \in AtPlaces : GoesOn(s, p)
  <1>1. Busy(s) /\ doing[s].kind \in RosterKinds \ EventKinds
    BY DEF CheckEvent, ReadMembers, At, Busy, RosterKinds
  <1>2. UNCHANGED <<eventVars, rosterVars>>
    BY DEF CheckEvent, ReadMembers
  <1>3. \/ Leave(s) /\ contended' = contended
        \/ \E p \in {"members", "writing"} : Goto(s, p)
    BY DEF CheckEvent, ReadMembers, Pass
  <1> QED
    BY <1>1, <1>2, <1>3 DEF Ends, GoesOn, AtPlaces, eventVars, rosterVars

LEMMA RosterCases ==
    ASSUME RosterTypeOK, SlotsShaped, [RosterNext]_vars
    PROVE  \/ UNCHANGED vars
           \/ UNCHANGED <<doing, contended, rosterVars>> /\ \E e \in Events : CreateEvent(e)
           \/ \E s \in Slots : Ends(s)
           \/ \E s \in Slots : \E c : ReadEvent(s) /\ Begins(s, c)
           \/ \E s \in Slots, c \in Requests : ReadSquad(s) /\ Begins(s, Noted(c))
           \/ \E s \in Slots, p \in AtPlaces : (CheckEvent(s) \/ ReadMembers(s)) /\ GoesOn(s, p)
  <1>1. ASSUME NEW e \in Events, CreateEvent(e), EventMove
        PROVE  UNCHANGED <<doing, contended, rosterVars>> /\ CreateEvent(e)
    BY <1>1 DEF CreateEvent, EventMove, EventTypeOK, RosterTypeOK
  <1>2. ASSUME NEW s \in Slots, ReadEvent(s), EventMove
        PROVE  UNCHANGED vars \/ \E c : Begins(s, c)
    <2>1. UNCHANGED eventVars
      BY <1>2 DEF ReadEvent
    <2>2. UNCHANGED rosterVars
      BY <1>2, <2>1 DEF EventMove, eventVars
    <2>3. \/ UNCHANGED <<doing, contended>>
          \/ \E k \in EventKinds, e \in Events :
                Begin(s, [kind |-> k, at |-> "event", event |-> e, about |-> {e}, heeds |-> {}])
      BY <1>2 DEF ReadEvent
    <2>4. ASSUME NEW k \in EventKinds, NEW e \in Events
          PROVE  Shaped([kind |-> k, at |-> "event", event |-> e, about |-> {e}, heeds |-> {}])
      BY DEF Shaped, EventShape
    <2> QED
      BY <2>1, <2>2, <2>3, <2>4 DEF Begins, vars
  <1>3. ASSUME NEW s \in Slots, ReadSquad(s)
        PROVE  UNCHANGED vars \/ \E c \in Requests : Begins(s, Noted(c))
    BY <1>3, RequestsShaped DEF ReadSquad, Begins, vars
  <1> QED
    BY <1>1, <1>2, <1>3, EventWriteEnds, RosterWriteEnds, CheckMoves
       DEF RosterNext, RosterStep, EventMove, EventStep

-----------------------------------------------------------------------------
(* What the calls know is preserved *)

LEMMA SlotsShapedNext ==
    ASSUME RosterTypeOK, SlotsShaped, [RosterNext]_vars
    PROVE  SlotsShaped'
  <1>1. CASE UNCHANGED <<doing, contended>>
    BY <1>1 DEF SlotsShaped, Busy
  <1>2. ASSUME NEW s \in Slots, Ends(s) PROVE SlotsShaped'
    BY <1>2 DEF Ends, Leave, SlotsShaped, Busy
  <1>3. ASSUME NEW s \in Slots, NEW c, Begins(s, c) PROVE SlotsShaped'
    BY <1>3 DEF Begins, Begin, SlotsShaped, Busy
  <1>4. ASSUME NEW s \in Slots, NEW p \in AtPlaces, GoesOn(s, p) PROVE SlotsShaped'
    <2>1. doing' = [doing EXCEPT ![s] = [doing[s] EXCEPT !.at = p]]
      BY <1>4 DEF GoesOn, Goto
    <2>2. Shaped([doing[s] EXCEPT !.at = p])
      BY <1>4, GotoShaped DEF GoesOn, SlotsShaped
    <2> QED
      BY <2>1, <2>2 DEF SlotsShaped, Busy
  <1> QED
    BY <1>1, <1>2, <1>3, <1>4, RosterCases DEF vars

LEMMA RivalsNext ==
    ASSUME RosterTypeOK, SlotsShaped, Rivals, [RosterNext]_vars
    PROVE  Rivals' /\ contended \subseteq contended'
  <1>1. CASE UNCHANGED <<doing, contended>>
    BY <1>1 DEF Rivals, Busy
  <1>2. ASSUME NEW s \in Slots, Ends(s) PROVE Rivals' /\ contended \subseteq contended'
    BY <1>2 DEF Ends, Leave, Rivals, SlotsShaped, Busy
  <1>3. ASSUME NEW s \in Slots, NEW c, Begins(s, c) PROVE Rivals' /\ contended \subseteq contended'
    <2>1. contended \subseteq contended'
      BY <1>3 DEF Begins, Begin
    <2>2. ASSUME NEW t \in Slots, t # s, Busy(t)
          PROVE  Disputed(c, doing[t]) \subseteq contended' /\ Disputed(doing[t], c) \subseteq contended'
      <3>1. Disputed(c, doing[t]) \subseteq contended'
        BY <1>3, <2>2 DEF Begins, Begin, Busy
      <3>2. Disputed(c, doing[t]) = Disputed(doing[t], c)
        BY DEF Disputed
      <3> QED
        BY <3>1, <3>2
    <2>3. /\ doing'[s] = c
          /\ \A t \in Slots \ {s} : doing'[t] = doing[t]
      BY <1>3 DEF Begins, Begin, SlotsShaped
    <2>4. ASSUME NEW t \in Slots, NEW u \in Slots, t # u, Busy(t)', Busy(u)'
          PROVE  Disputed(doing'[t], doing'[u]) \subseteq contended'
      BY <2>1, <2>2, <2>3, <2>4 DEF Rivals, Busy
    <2>5. Rivals'
      BY <2>4 DEF Rivals, Disputed
    <2> QED
      BY <2>1, <2>5
  <1>4. ASSUME NEW s \in Slots, NEW p \in AtPlaces, GoesOn(s, p)
        PROVE  Rivals' /\ contended \subseteq contended'
    <2>1. doing' = [doing EXCEPT ![s] = [doing[s] EXCEPT !.at = p]] /\ contended' = contended
      BY <1>4 DEF GoesOn, Goto
    <2>2. /\ [doing[s] EXCEPT !.at = p].about = doing[s].about
          /\ [doing[s] EXCEPT !.at = p].heeds = doing[s].heeds
      BY <1>4, GotoShaped DEF GoesOn, SlotsShaped
    <2>3. \A t \in Slots : doing'[t].about = doing[t].about /\ doing'[t].heeds = doing[t].heeds
      BY <2>1, <2>2 DEF SlotsShaped
    <2>4. \A t \in Slots : Busy(t)' => Busy(t)
      BY <1>4, <2>1 DEF Busy, GoesOn, SlotsShaped
    <2> QED
      BY <2>1, <2>3, <2>4 DEF Rivals, Disputed
  <1> QED
    BY <1>1, <1>2, <1>3, <1>4, RosterCases DEF vars

\* What another call writes is not what a call knows, or it is on record.
LEMMA OthersKeepFacts ==
    ASSUME SlotsShaped, Rivals, NEW s \in Slots, NEW t \in Slots, s # t, Ends(s),
           Busy(t), Facts(doing[t])
    PROVE  Facts(doing[t])'
  <1> DEFINE c == doing[t]
  <1>1. Shaped(c)
    BY DEF SlotsShaped
  <1>2. /\ doing'[t] = c /\ contended' = contended
        /\ \A x \in c.about \cup c.heeds : x \in doing[s].about => x \in contended
    BY DEF Ends, Leave, SlotsShaped, Rivals, Disputed, Busy
  <1>3. EventFact(c)'
    <2> SUFFICES ASSUME c.kind \in EventKinds PROVE EventFact(c)'
      BY <1>2 DEF EventFact
    <2>1. c.event \in Events /\ c.event \in c.about
      BY <1>1 DEF Shaped, EventShape, TeamShape, SquadShape, PatchShape, MemberShape
    <2> QED
      BY <1>2, <2>1 DEF EventFact, Facts, Ends
  <1>4. PastFact(c)'
    <2> SUFFICES ASSUME c.kind \in TeamKinds \cup SquadKinds PROVE PastFact(c)'
      BY <1>2 DEF PastFact
    <2>1. c.event \in Events /\ c.event \in c.heeds
      BY <1>1 DEF Shaped, OfSquad, EventShape, TeamShape, SquadShape, PatchShape, MemberShape
    <2> QED
      BY <1>2, <2>1 DEF PastFact, Facts, Ends
  <1>5. ASSUME c.kind \in SquadKinds
        PROVE  /\ c.squad \in Squads
               /\ c.squad \notin contended =>
                     \/ /\ squad'[c.squad] = squad[c.squad] /\ leader'[c.squad] = leader[c.squad]
                        /\ members'[c.squad] = members[c.squad]
                     \/ Dropped(c.squad)
               /\ squad[c.squad] # "none" => squad'[c.squad] # "none"
    <2>1. c.squad \in Squads /\ c.squad \in c.about
      BY <1>1, <1>5 DEF Shaped, OfSquad, EventShape, TeamShape, SquadShape, PatchShape, MemberShape
    <2> QED
      BY <1>2, <2>1 DEF Ends
  <1>6. SquadFact(c)'
    BY <1>2, <1>5 DEF SquadFact, Facts, Dropped, Exists, SquadStatuses
  <1>7. LeadFact(c)'
    <2>1. c.kind \in MemberKinds => c.operator # NoOne
      BY <1>1, RosterConstants
         DEF Shaped, EventShape, TeamShape, SquadShape, PatchShape, MemberShape
    <2> QED
      BY <1>2, <1>5, <2>1 DEF LeadFact, Facts, Dropped, Exists, SquadStatuses
  <1>8. JoinFact(c)'
    <2>1. c.kind = "addMember" => c.operator \in c.about
      BY <1>1 DEF Shaped, OfSquad, EventShape, TeamShape, SquadShape, PatchShape, MemberShape
    <2> QED
      BY <1>2, <2>1 DEF JoinFact, Facts, Ends
  <1> QED
    BY <1>3, <1>4, <1>6, <1>7, <1>8 DEF Facts

\* More on record, with all else as it is, takes no fact away.
LEMMA FactsStay ==
    ASSUME NEW t \in Slots, Busy(t), doing'[t] = doing[t], Facts(doing[t]),
           contended \subseteq contended', UNCHANGED <<eventVars, rosterVars>>
    PROVE  Facts(doing[t])'
  BY DEF Facts, EventFact, PastFact, SquadFact, LeadFact, JoinFact, Exists, eventVars, rosterVars

\* A call that begins knows what its first read found.
LEMMA EventCallFacts ==
    ASSUME SlotsShaped, NEW s \in Slots, ~Busy(s), ReadEvent(s), UNCHANGED rosterVars, Busy(s)'
    PROVE  Facts(doing[s])'
  <1>1. PICK k \in EventKinds, e \in Events :
           /\ status[e] \in Required(k)
           /\ doing'[s] = [kind |-> k, at |-> "event", event |-> e, about |-> {e}, heeds |-> {}]
    BY DEF ReadEvent, Begin, SlotsShaped, Busy
  <1>2. status[e] # "none"
    BY <1>1 DEF Required
  <1>3. UNCHANGED eventVars
    BY DEF ReadEvent
  <1> QED
    BY <1>1, <1>2, <1>3
       DEF Facts, EventFact, PastFact, SquadFact, LeadFact, JoinFact, eventVars

LEMMA NotedFacts ==
    ASSUME NEW c \in Requests, c.kind \in SquadKinds \ {"createSquad"} => Exists(c.squad) /\ Permits(c)
    PROVE  Facts(Noted(c))
  <1> USE RosterConstants DEF Facts, EventFact, PastFact, SquadFact, LeadFact, JoinFact, Permits,
                              Exists, SquadStatuses, Noted
  <1>1. CASE \E k \in TeamKinds, t \in Teams : c = TeamCall(k, t)
    BY <1>1 DEF TeamCall
  <1>2. CASE \E k \in {"createSquad", "removeSquad"}, q \in Squads : c = SquadCall(k, q)
    BY <1>2 DEF SquadCall
  <1>3. CASE \E q \in Squads, f \in Patches : c = PatchCall(q, f)
    BY <1>3 DEF PatchCall
  <1>4. CASE \E k \in MemberKinds, q \in Squads, o \in Operators : c = MemberCall(k, q, o)
    <2>1. PICK k \in MemberKinds, q \in Squads, o \in Operators : c = MemberCall(k, q, o)
      BY <1>4
    <2>2. CASE k = "removeMember"
      <3>1. c.kind = "removeMember" /\ c.squad = q
        BY <2>1, <2>2 DEF MemberCall
      <3>2. Noted(c) = [MemberCall(k, q, o) EXCEPT !.leads = (leader[q] = o)]
        BY <2>1, <2>2 DEF MemberCall
      <3>3. Noted(c).kind = "removeMember" /\ Noted(c).at = "roster" /\ Noted(c).squad = q
            /\ Noted(c).operator = o
        BY <2>2, <3>2 DEF MemberCall
      <3>4. leader[q] = o => Noted(c).leads = TRUE
        BY <3>2 DEF MemberCall
      <3> HIDE DEF Noted
      <3> QED
        BY <3>1, <3>3, <3>4
    <2>3. CASE k = "addMember"
      BY <2>1, <2>3 DEF MemberCall
    <2> QED
      BY <2>2, <2>3
  <1> HIDE DEF Facts, Noted
  <1> QED
    BY <1>1, <1>2, <1>3, <1>4 DEF Requests, AnyCall

LEMMA RosterCallFacts ==
    ASSUME SlotsShaped, NEW s \in Slots, ~Busy(s), ReadSquad(s), Busy(s)'
    PROVE  Facts(doing[s])'
  <1>1. PICK c \in Requests :
           /\ c.kind \in SquadKinds \ {"createSquad"} => Exists(c.squad) /\ Permits(c)
           /\ Begin(s, Noted(c))
    BY DEF ReadSquad, SlotsShaped, Busy
  <1>2. Facts(Noted(c))
    BY <1>1, NotedFacts
  <1>3. doing'[s] = Noted(c) /\ contended \subseteq contended'
    BY <1>1 DEF Begin, SlotsShaped
  <1> QED
    BY <1>2, <1>3 DEF ReadSquad, Facts, EventFact, PastFact, SquadFact, LeadFact, JoinFact, Exists,
                      eventVars, rosterVars

\* A call that goes on knows what its last read found.
LEMMA CheckedFacts ==
    ASSUME SlotsShaped, RosterTypeOK, NEW s \in Slots, NEW p \in AtPlaces, GoesOn(s, p),
           CheckEvent(s) \/ ReadMembers(s), Facts(doing[s]), Busy(s)'
    PROVE  Facts(doing[s])'
  <1> DEFINE c == doing[s]
             d == [c EXCEPT !.at = p]
  <1>1. /\ Shaped(c) /\ c.kind \in TeamKinds \cup SquadKinds
        /\ p \in {"members", "writing"} /\ contended' = contended
        /\ UNCHANGED <<eventVars, rosterVars>> /\ doing'[s] = d
    BY DEF GoesOn, Goto, SlotsShaped, Busy, CheckEvent, ReadMembers, At, AtPlaces
  <1>2. ASSUME NEW q \in AtPlaces, doing'[s] = [c EXCEPT !.at = q] PROVE q = p
    <2>1. [c EXCEPT !.at = q].at = q /\ [c EXCEPT !.at = p].at = p
      BY <1>1, GotoShaped
    <2> QED
      BY <1>1, <1>2, <2>1
  <1>3. /\ Shaped(d) /\ d.at = p /\ d.kind = c.kind /\ d.event = c.event
        /\ c.kind \in SquadKinds => d.squad = c.squad
        /\ c.kind = "updateSquad" => d.leader = c.leader /\ d.status = c.status
        /\ c.kind \in MemberKinds => d.operator = c.operator /\ d.leads = c.leads
    BY <1>1, GotoShaped
  <1>4. ASSUME NEW test, NEW q \in AtPlaces, Pass(s, test, q) PROVE test /\ q = p
    BY <1>2, <1>4 DEF Pass, Goto, Leave, SlotsShaped, Busy
  <1>5. CASE CheckEvent(s)
    <2>1. EventAllows(c) /\ p = IF ReadsMembers(c) THEN "members" ELSE "writing"
      BY <1>4, <1>5 DEF CheckEvent, AtPlaces
    <2> QED
      BY <1>1, <1>3, <2>1 DEF EventAllows, ReadsMembers, Facts, EventFact, PastFact, SquadFact,
         LeadFact, JoinFact, Exists, eventVars, rosterVars
  <1>6. CASE ReadMembers(s)
    <2>1. MembersAllow(c) /\ p = "writing" /\ c.at = "members"
      BY <1>4, <1>6 DEF ReadMembers, AtPlaces, At
    <2>2. /\ c.kind = "addMember" => \A q \in Squads : EventOfSquad(q) = c.event => c.operator \notin members[q]
          /\ c.kind = "updateSquad" => c.leader \in members[c.squad]
      BY <2>1 DEF MembersAllow
    <2> QED
      BY <1>1, <1>3, <2>1, <2>2 DEF Facts, EventFact, PastFact, SquadFact,
         LeadFact, JoinFact, Exists, eventVars, rosterVars
  <1> QED
    BY <1>5, <1>6

LEMMA FactsNext ==
    ASSUME RosterTypeOK, SlotsShaped, Rivals, \A s \in Slots : Busy(s) => Facts(doing[s]),
           [RosterNext]_vars
    PROVE  (\A s \in Slots : Busy(s) => Facts(doing[s]))'
  <1>0. contended \subseteq contended'
    BY RivalsNext
  <1> SUFFICES ASSUME NEW t \in Slots, Busy(t)' PROVE Facts(doing[t])'
    OBVIOUS
  <1>1. CASE UNCHANGED vars
    BY <1>0, <1>1, FactsStay DEF vars, Busy
  <1>2. ASSUME NEW e \in Events, CreateEvent(e), UNCHANGED <<doing, contended, rosterVars>>
        PROVE  Facts(doing[t])'
    <2>1. Busy(t) /\ doing'[t] = doing[t] /\ Facts(doing[t])
      BY <1>2 DEF Busy
    <2>2. \A f : status[f] # "none" => status'[f] = status[f]
      BY <1>2 DEF CreateEvent
    <2> QED
      BY <1>2, <2>1, <2>2
         DEF Facts, EventFact, PastFact, SquadFact, LeadFact, JoinFact, Exists, rosterVars
  <1>3. ASSUME NEW s \in Slots, Ends(s) PROVE Facts(doing[t])'
    <2>1. t # s
      BY <1>3 DEF Ends, Leave, SlotsShaped, Busy
    <2>2. Busy(t)
      BY <1>3, <2>1 DEF Ends, Leave, SlotsShaped, Busy
    <2> QED
      BY <1>3, <2>1, <2>2, OthersKeepFacts
  <1>4. ASSUME NEW s \in Slots, t # s, UNCHANGED <<eventVars, rosterVars>>, doing'[t] = doing[t]
        PROVE  Facts(doing[t])'
    BY <1>0, <1>4, FactsStay DEF Busy
  <1>5. ASSUME NEW s \in Slots, NEW c, ReadEvent(s) \/ ReadSquad(s), Begins(s, c)
        PROVE  Facts(doing[t])'
    <2>1. CASE t = s
      BY <1>5, <2>1, EventCallFacts, RosterCallFacts DEF Begins, Begin, Busy
    <2>2. CASE t # s
      BY <1>4, <1>5, <2>2 DEF Begins, Begin, SlotsShaped
    <2> QED
      BY <2>1, <2>2
  <1>6. ASSUME NEW s \in Slots, NEW p \in AtPlaces, CheckEvent(s) \/ ReadMembers(s), GoesOn(s, p)
        PROVE  Facts(doing[t])'
    <2>1. CASE t = s
      BY <1>6, <2>1, CheckedFacts DEF GoesOn, Busy
    <2>2. CASE t # s
      BY <1>4, <1>6, <2>2 DEF GoesOn, Goto, SlotsShaped
    <2> QED
      BY <2>1, <2>2
  <1> QED
    BY <1>1, <1>2, <1>3, <1>5, <1>6, RosterCases

-----------------------------------------------------------------------------
(* Rows and their parents *)

\* Only a write of an event changes events; it takes the roster below along.
LEMMA EventMoveTypes ==
    ASSUME RosterTypeOK, SlotsShaped, \A s \in Slots : Busy(s) => Facts(doing[s]), EventMove
    PROVE  RosterTypeOK'
  <1> USE RosterConstants DEF RosterTypeOK, EventTypeOK, EventStatuses
  <1> DEFINE typed ==
               /\ status' \in [Events -> EventStatuses]
               /\ footprint' \in [Events -> {0, 1}]
               /\ \A e \in Events : status[e] # "none" => status'[e] # "none"
               /\ \A e \in Events : status'[e] = "none" => footprint'[e] = 0
  <1>1. typed
    <2>1. ASSUME NEW e \in Events, CreateEvent(e) PROVE typed
      BY <2>1 DEF CreateEvent
    <2>2. ASSUME NEW s \in Slots, ReadEvent(s) \/ Crash(s) PROVE typed
      BY <2>2 DEF ReadEvent, Crash, eventVars
    <2>3. ASSUME NEW s \in Slots, WriteEvent(s) PROVE typed
      <3> DEFINE e == doing[s].event
      <3>1. Busy(s) /\ doing[s].kind \in EventKinds
        BY <2>3 DEF WriteEvent, Busy
      <3>2. status[e] # "none"
        BY <3>1 DEF Facts, EventFact
      <3>3. e \in Events
        BY <3>1 DEF SlotsShaped, Shaped, EventShape, TeamShape, SquadShape, PatchShape, MemberShape
      <3> HIDE DEF e
      <3>4. CASE UNCHANGED eventVars
        BY <3>4 DEF eventVars
      <3>5. CASE footprint' = [footprint EXCEPT ![e] = 1 - @] /\ UNCHANGED status
        <4>1. 1 - footprint[e] \in {0, 1}
          BY <3>3
        <4> QED
          BY <3>2, <3>5, <4>1
      <3>6. ASSUME NEW st \in {"ACTIVE", "ENDED", "deleted"}, UNCHANGED footprint,
                   status' = [status EXCEPT ![e] = st]
            PROVE  typed
        BY <3>2, <3>3, <3>6
      <3>7. \/ UNCHANGED eventVars
            \/ footprint' = [footprint EXCEPT ![e] = 1 - @] /\ UNCHANGED status
            \/ /\ UNCHANGED footprint
               /\ \E st \in {"ACTIVE", "ENDED", "deleted"} : status' = [status EXCEPT ![e] = st]
        BY <2>3 DEF WriteEvent, e
      <3> QED
        BY <3>4, <3>5, <3>6, <3>7
    <2> QED
      BY <2>1, <2>2, <2>3 DEF EventMove, EventStep
  <1> DEFINE gone == {t \in Teams : status'[EventOf[t]] = "deleted"}
  <1>2. CASE DropTeams(gone)
    <2>1. /\ team' \in [Teams -> {"none", "exists", "deleted"}]
          /\ \A t \in Teams : team'[t] = "exists" => team[t] = "exists" /\ t \notin gone
      BY <1>2 DEF DropTeams
    <2>2. /\ squad' \in [Squads -> SquadStatuses \cup {"none", "deleted"}]
          /\ leader' \in [Squads -> Operators \cup {NoOne}]
          /\ members' \in [Squads -> SUBSET Operators]
          /\ \A q \in Squads : Exists(q)' => Exists(q) /\ TeamOf[q] \notin gone
          /\ \A q \in Squads : members'[q] # {} \/ leader'[q] # NoOne =>
                TeamOf[q] \notin gone /\ members'[q] = members[q] /\ leader'[q] = leader[q]
                /\ squad'[q] = squad[q]
      BY <1>2 DEF DropTeams, DropSquads, Exists, SquadStatuses
    <2>3. \A t \in Teams : team'[t] = "exists" => status'[EventOf[t]] \notin {"none", "deleted"}
      BY <1>1, <2>1
    <2>4. \A q \in Squads : Exists(q)' => team'[TeamOf[q]] = "exists"
      BY <1>2, <2>2 DEF DropTeams
    <2>5. \A q \in Squads : members'[q] # {} \/ leader'[q] # NoOne => Exists(q)'
      BY <2>2 DEF Exists
    <2> QED
      BY <1>1, <2>1, <2>2, <2>3, <2>4, <2>5
  <1>3. CASE UNCHANGED rosterVars /\ ~\E e \in Events : status'[e] = "deleted" /\ status[e] # "deleted"
    BY <1>1, <1>3 DEF rosterVars, Exists
  <1> QED
    BY <1>2, <1>3 DEF EventMove

LEMMA RosterWriteTypes ==
    ASSUME RosterTypeOK, SlotsShaped, NEW s \in Slots, Busy(s) => Facts(doing[s]),
           \/ CreateTeam(s) \/ RemoveTeam(s) \/ CreateSquad(s) \/ UpdateSquad(s)
           \/ RemoveSquad(s) \/ AddMember(s) \/ RemoveMember(s)
    PROVE  RosterTypeOK'
  <1> USE RosterConstants DEF RosterTypeOK, EventTypeOK, Exists, SquadStatuses
  <1> DEFINE c == doing[s]
  <1>1. Busy(s) /\ UNCHANGED eventVars /\ Shaped(c) /\ c.at = "writing" /\ c.kind \in TeamKinds \cup SquadKinds
    BY DEF CreateTeam, RemoveTeam, CreateSquad, UpdateSquad, RemoveSquad, AddMember, RemoveMember,
           Write, At, Busy, SlotsShaped
  <1>2. status[c.event] # "none"
    BY <1>1 DEF Facts, PastFact
  <1>3. EventTypeOK'
    BY <1>1 DEF eventVars
  <1>4. c.kind \in TeamKinds => c.team \in Teams /\ c.event = EventOf[c.team]
    BY <1>1 DEF Shaped, EventShape, TeamShape, SquadShape, PatchShape, MemberShape
  <1>5. c.kind \in SquadKinds => c.squad \in Squads
    BY <1>1 DEF Shaped, EventShape, TeamShape, SquadShape, PatchShape, MemberShape
  <1>6. CASE CreateTeam(s)
    BY <1>1, <1>2, <1>3, <1>4, <1>6 DEF CreateTeam, eventVars, Write, At
  <1>7. CASE RemoveTeam(s)
    BY <1>1, <1>3, <1>7 DEF RemoveTeam, DropTeams, DropSquads, eventVars
  <1>8. CASE CreateSquad(s)
    BY <1>1, <1>3, <1>5, <1>8 DEF CreateSquad, eventVars
  <1>9. CASE UpdateSquad(s)
    <2>1. /\ c.status \in SquadStatuses \cup {Keep}
          /\ c.leader \in Operators \cup {NoOne, Keep}
      BY <1>1, <1>9 DEF UpdateSquad, Write, At, Shaped, EventShape, TeamShape, SquadShape, PatchShape, MemberShape
    <2>2. Exists(c.squad) => /\ Patched(squad[c.squad], c.status) \in SquadStatuses
                             /\ Patched(leader[c.squad], c.leader) \in Operators \cup {NoOne}
      BY <1>1, <1>5, <1>9, <2>1 DEF UpdateSquad, Write, At, Patched
    <2> QED
      BY <1>1, <1>3, <1>5, <1>9, <2>2 DEF UpdateSquad, eventVars, Write, At
  <1>10. CASE RemoveSquad(s)
    BY <1>1, <1>3, <1>10 DEF RemoveSquad, DropSquads, eventVars
  <1>11. ASSUME AddMember(s) \/ RemoveMember(s) PROVE RosterTypeOK'
    <2>1. c.operator \in Operators /\ c.squad \in Squads
      BY <1>1, <1>5, <1>11 DEF AddMember, RemoveMember, Write, At, Shaped, EventShape, TeamShape,
         SquadShape, PatchShape, MemberShape
    <2>2. CASE AddMember(s)
      BY <1>1, <1>3, <2>1, <2>2 DEF AddMember, eventVars
    <2>3. CASE RemoveMember(s)
      BY <1>1, <1>3, <2>1, <2>3 DEF RemoveMember, eventVars
    <2> QED
      BY <1>11, <2>2, <2>3
  <1> QED
    BY <1>6, <1>7, <1>8, <1>9, <1>10, <1>11

LEMMA TypesNext ==
    ASSUME RosterTypeOK, SlotsShaped, \A s \in Slots : Busy(s) => Facts(doing[s]),
           [RosterNext]_vars
    PROVE  RosterTypeOK'
  <1>1. CASE UNCHANGED vars
    BY <1>1 DEF vars, eventVars, rosterVars, RosterTypeOK, EventTypeOK, Exists
  <1>2. ASSUME NEW s \in Slots, ReadSquad(s) \/ CheckEvent(s) \/ ReadMembers(s)
        PROVE  RosterTypeOK'
    BY <1>2 DEF ReadSquad, CheckEvent, ReadMembers, eventVars, rosterVars, RosterTypeOK,
                EventTypeOK, Exists
  <1> QED
    BY <1>1, <1>2, EventMoveTypes, RosterWriteTypes DEF RosterNext, RosterStep

\* Only an addition makes a member, and the members of a squad are left alone
\* or dropped unless its own call writes them.
LEMMA MembershipNext ==
    ASSUME RosterInv, [RosterNext]_vars
    PROVE  OneSquadPerEventUnlessContended'
  <1> USE DEF OneSquadPerEventUnlessContended, SquadsOf
  <1>1. contended \subseteq contended'
    BY RivalsNext DEF RosterInv
  <1>2. CASE \A q \in Squads : members'[q] \subseteq members[q]
    BY <1>1, <1>2 DEF RosterInv
  <1>3. ASSUME NEW s \in Slots, AddMember(s), ~\A q \in Squads : members'[q] \subseteq members[q]
        PROVE  OneSquadPerEventUnlessContended'
    <2> DEFINE c == doing[s]
    <2>1. Busy(s) /\ Shaped(c) /\ JoinFact(c) /\ c.kind = "addMember" /\ c.at = "writing"
          /\ contended' = contended
      BY <1>3 DEF AddMember, Write, At, Busy, RosterInv, SlotsShaped, Facts
    <2>2. c.squad \in Squads /\ c.event = EventOfSquad(c.squad)
      BY <2>1 DEF Shaped, OfSquad, EventShape, TeamShape, SquadShape, PatchShape, MemberShape
    <2>3. \A q \in Squads, o \in Operators :
              o \in members'[q] => o \in members[q] \/ (q = c.squad /\ o = c.operator)
      BY <1>3, <2>2 DEF AddMember, RosterInv, RosterTypeOK
    <2>4. c.operator \notin contended =>
              \A q \in Squads : EventOfSquad(q) = c.event => c.operator \notin members[q]
      BY <2>1 DEF JoinFact
    <2>5. ASSUME NEW o \in Operators \ contended', NEW e \in Events,
                 NEW p \in Squads, NEW q \in Squads,
                 EventOfSquad(p) = e, EventOfSquad(q) = e, o \in members'[p], o \in members'[q]
          PROVE  p = q
      <3>1. CASE o \in members[p] /\ o \in members[q]
        BY <2>1, <2>5, <3>1 DEF RosterInv
      <3>2. CASE o = c.operator /\ c.squad \in {p, q}
        BY <2>1, <2>2, <2>3, <2>4, <2>5, <3>2
      <3> QED
        BY <2>3, <2>5, <3>1, <3>2
    <2> QED
      BY <2>5 DEF EventOfSquad
  <1>4. (\A q \in Squads : members'[q] \subseteq members[q]) \/ \E s \in Slots : AddMember(s)
    <2>1. CASE EventMove
      BY <2>1 DEF EventMove, DropTeams, DropSquads, rosterVars
    <2>2. ASSUME NEW s \in Slots, RosterStep(s), ~AddMember(s)
          PROVE  \A q \in Squads : members'[q] \subseteq members[q]
      <3>1. CASE ReadSquad(s) \/ CheckEvent(s) \/ ReadMembers(s)
        BY <3>1 DEF ReadSquad, CheckEvent, ReadMembers, rosterVars
      <3>2. CASE CreateTeam(s) \/ CreateSquad(s) \/ UpdateSquad(s)
        BY <3>2 DEF CreateTeam, CreateSquad, UpdateSquad
      <3>3. CASE RemoveTeam(s) \/ RemoveSquad(s)
        BY <3>3 DEF RemoveTeam, RemoveSquad, DropTeams, DropSquads
      <3>4. CASE RemoveMember(s)
        BY <3>4 DEF RemoveMember, RosterInv, RosterTypeOK
      <3> QED
        BY <2>2, <3>1, <3>2, <3>3, <3>4 DEF RosterStep
    <2>3. CASE UNCHANGED vars
      BY <2>3 DEF vars, rosterVars
    <2> QED
      BY <2>1, <2>2, <2>3 DEF RosterNext
  <1> QED
    BY <1>2, <1>3, <1>4

LEMMA LeadersNext ==
    ASSUME RosterInv, [RosterNext]_vars
    PROVE  LeaderIsMemberUnlessContended'
  <1> USE DEF LeaderIsMemberUnlessContended
  <1>1. contended \subseteq contended'
    BY RivalsNext DEF RosterInv
  <1>2. CASE \A q \in Squads : \/ leader'[q] = leader[q] /\ members[q] \subseteq members'[q]
                               \/ leader'[q] = NoOne
    BY <1>1, <1>2 DEF RosterInv
  <1>3. CASE EventMove \/ UNCHANGED vars
    BY <1>2, <1>3 DEF EventMove, DropTeams, DropSquads, vars, rosterVars
  <1>4. ASSUME NEW s \in Slots, RosterStep(s) PROVE LeaderIsMemberUnlessContended'
    <2> DEFINE c == doing[s]
    <2>1. CASE ReadSquad(s) \/ CheckEvent(s) \/ ReadMembers(s)
      BY <1>2, <2>1 DEF ReadSquad, CheckEvent, ReadMembers, rosterVars
    <2>2. CASE CreateTeam(s) \/ CreateSquad(s)
      BY <1>2, <2>2 DEF CreateTeam, CreateSquad
    <2>3. CASE RemoveTeam(s) \/ RemoveSquad(s)
      BY <1>2, <2>3 DEF RemoveTeam, RemoveSquad, DropTeams, DropSquads
    <2>4. CASE AddMember(s)
      BY <1>2, <2>4 DEF AddMember, RosterInv, RosterTypeOK
    <2>5. CASE UpdateSquad(s) \/ RemoveMember(s)
      <3>1. Busy(s) /\ Shaped(c) /\ LeadFact(c) /\ c.at = "writing" /\ contended' = contended
        BY <2>5 DEF UpdateSquad, RemoveMember, Write, At, Busy, RosterInv, SlotsShaped, Facts
      <3>2. c.squad \in Squads
        BY <2>5, <3>1 DEF UpdateSquad, RemoveMember, Write, At, Shaped, EventShape, TeamShape,
           SquadShape, PatchShape, MemberShape
      <3>3. CASE UpdateSquad(s)
        <4>1. /\ c.kind = "updateSquad" /\ members' = members
              /\ \A q \in Squads \ {c.squad} : leader'[q] = leader[q]
              /\ \/ leader'[c.squad] = leader[c.squad]
                 \/ Exists(c.squad) /\ leader'[c.squad] = c.leader /\ c.leader # Keep
          BY <3>2, <3>3 DEF UpdateSquad, Write, At, Patched, RosterInv, RosterTypeOK
        <4>2. c.leader \in Operators \cup {NoOne, Keep}
          BY <3>1, <4>1 DEF Shaped, EventShape, TeamShape, SquadShape, PatchShape, MemberShape
        <4> QED
          BY <3>1, <3>2, <4>1, <4>2 DEF LeadFact, RosterInv
      <3>4. CASE RemoveMember(s)
        <4>1. /\ c.kind = "removeMember"
              /\ \A q \in Squads \ {c.squad} : leader'[q] = leader[q] /\ members'[q] = members[q]
              /\ \/ leader'[c.squad] = leader[c.squad] /\ members'[c.squad] = members[c.squad]
                 \/ /\ members'[c.squad] = members[c.squad] \ {c.operator}
                    /\ leader'[c.squad] = IF c.leads THEN NoOne ELSE leader[c.squad]
          BY <3>2, <3>4 DEF RemoveMember, Write, At, RosterInv, RosterTypeOK
        <4>2. c.leads \in BOOLEAN
          BY <3>1, <4>1 DEF Shaped, EventShape, TeamShape, SquadShape, PatchShape, MemberShape
        <4>3. CASE c.squad \in contended
          BY <3>1, <4>1, <4>3 DEF RosterInv
        <4>4. CASE c.squad \notin contended
          <5>1. leader[c.squad] = c.operator => c.leads = TRUE
            BY <3>1, <4>1, <4>4 DEF LeadFact
          <5> QED
            BY <3>1, <4>1, <4>2, <5>1 DEF RosterInv
        <4> QED
          BY <4>3, <4>4
      <3> QED
        BY <2>5, <3>3, <3>4
    <2> QED
      BY <1>4, <2>1, <2>2, <2>3, <2>4, <2>5 DEF RosterStep
  <1> QED
    BY <1>3, <1>4 DEF RosterNext

-----------------------------------------------------------------------------
(* The theorems *)

LEMMA RosterInvInit == RosterInit => RosterInv
  BY RosterConstants DEF RosterInit, EventInit, SlotInit, RosterInv, SlotsShaped, Rivals, Busy,
     RosterTypeOK, EventTypeOK, EventStatuses, Exists, SquadStatuses, SquadsOf,
     OneSquadPerEventUnlessContended, LeaderIsMemberUnlessContended

LEMMA RosterInvNext == RosterInv /\ [RosterNext]_vars => RosterInv'
  BY SlotsShapedNext, RivalsNext, FactsNext, TypesNext, MembershipNext, LeadersNext DEF RosterInv

\* Members and leaders belong to squads that exist, squads to teams, teams to
\* events, whatever is deleted while calls about it are under way.
THEOREM RosterTypeCorrect == RosterSpec => []RosterTypeOK
  <1>1. RosterInv => RosterTypeOK
    BY DEF RosterInv
  <1> QED
    BY RosterInvInit, RosterInvNext, <1>1, PTL DEF RosterSpec

\* For any number of calls at once, an operator no two of them were about at
\* the same time is in one squad of an event.
THEOREM OneSquadPerEvent == RosterSpec => []OneSquadPerEventUnlessContended
  <1>1. RosterInv => OneSquadPerEventUnlessContended
    BY DEF RosterInv
  <1> QED
    BY RosterInvInit, RosterInvNext, <1>1, PTL DEF RosterSpec

\* The leader of a squad no two calls were about at once is one of its members.
THEOREM LeaderIsMember == RosterSpec => []LeaderIsMemberUnlessContended
  <1>1. RosterInv => LeaderIsMemberUnlessContended
    BY DEF RosterInv
  <1> QED
    BY RosterInvInit, RosterInvNext, <1>1, PTL DEF RosterSpec

\* The life of an event: a call past its check still finds the status it
\* insists on, so an event no two calls were about moves as its documents say.
LEMMA LifecycleStep ==
    ASSUME RosterInv, RosterNext, NEW e \in Events \ contended
    PROVE  /\ status'[e] # status[e] => <<status[e], status'[e]>> \in Moves
           /\ footprint'[e] # footprint[e] => status[e] = "DRAFT"
  <1>1. ASSUME NEW f \in Events, CreateEvent(f)
        PROVE  /\ status'[e] # status[e] => <<status[e], status'[e]>> \in Moves
               /\ footprint' = footprint
    BY <1>1 DEF CreateEvent, Moves, RosterInv, RosterTypeOK, EventTypeOK
  <1>2. ASSUME NEW s \in Slots, WriteEvent(s)
        PROVE  /\ status'[e] # status[e] => <<status[e], status'[e]>> \in Moves
               /\ footprint'[e] # footprint[e] => status[e] = "DRAFT"
    <2> DEFINE k == doing[s].kind
               f == doing[s].event
    <2>1. k \in EventKinds /\ Busy(s)
      BY <1>2 DEF WriteEvent, Busy
    <2>2. e = f => status[e] \in Required(k)
      BY <2>1 DEF RosterInv, Facts, EventFact
    <2>3. e # f => status'[e] = status[e] /\ footprint'[e] = footprint[e]
      BY <1>2 DEF WriteEvent, eventVars, RosterInv, RosterTypeOK, EventTypeOK
    <2>4. CASE e = f /\ k = "patch"
      BY <1>2, <2>2, <2>4 DEF WriteEvent, eventVars, Required
    <2>5. CASE e = f /\ k = "activate"
      BY <1>2, <2>2, <2>5 DEF WriteEvent, eventVars, Required, Moves, RosterInv, RosterTypeOK, EventTypeOK
    <2>6. CASE e = f /\ k = "end"
      BY <1>2, <2>2, <2>6 DEF WriteEvent, eventVars, Required, Moves, RosterInv, RosterTypeOK, EventTypeOK
    <2>7. CASE e = f /\ k = "remove"
      BY <1>2, <2>2, <2>7 DEF WriteEvent, eventVars, Required, Moves, RosterInv, RosterTypeOK, EventTypeOK
    <2> QED
      BY <2>1, <2>3, <2>4, <2>5, <2>6, <2>7
  <1>3. ASSUME NEW s \in Slots, RosterStep(s) \/ ReadEvent(s) \/ Crash(s) PROVE UNCHANGED eventVars
    BY <1>3 DEF RosterStep, ReadEvent, Crash, ReadSquad, CheckEvent, ReadMembers, CreateTeam,
       RemoveTeam, CreateSquad, UpdateSquad, RemoveSquad, AddMember, RemoveMember, Write, eventVars
  <1> QED
    BY <1>1, <1>2, <1>3 DEF RosterNext, EventMove, EventStep, eventVars

\* "Only DRAFT can be activated", "only ACTIVE can be ended", "only DRAFT can be
\* deleted", for any number of events and calls at once.
THEOREM EventLifecycle == RosterSpec => LifecycleUnlessContended
  <1>1. RosterInv /\ [RosterNext]_vars =>
          [\A e \in Events \ contended :
              /\ status'[e] # status[e] => <<status[e], status'[e]>> \in Moves
              /\ footprint'[e] # footprint[e] => status[e] = "DRAFT"]_eventVars
    BY LifecycleStep DEF vars, eventVars
  <1> QED
    BY RosterInvInit, RosterInvNext, <1>1, PTL DEF RosterSpec, LifecycleUnlessContended

\* An ended event's squads: whoever would write them is past a check that
\* found the event not over.
LEMMA EndedStep ==
    ASSUME RosterInv, RosterNext, NEW q \in Squads,
           status[EventOfSquad(q)] = "ENDED", EventOfSquad(q) \notin contended
    PROVE  members'[q] = members[q] /\ leader'[q] = leader[q] /\ squad'[q] = squad[q]
  <1> DEFINE e == EventOfSquad(q)
             kept == members'[q] = members[q] /\ leader'[q] = leader[q] /\ squad'[q] = squad[q]
  <1>1. e \in Events
    BY RosterConstants DEF EventOfSquad
  <1>2. CASE EventMove
    <2>1. status'[e] = status[e]
      <3>1. \A st : <<"ENDED", st>> \notin Moves
        BY DEF Moves
      <3> QED
        BY <1>1, <3>1, LifecycleStep
    <2> QED
      BY <1>2, <2>1 DEF EventMove, DropTeams, DropSquads, rosterVars, EventOfSquad, RosterInv, RosterTypeOK
  <1>3. ASSUME NEW s \in Slots, RosterStep(s) PROVE kept
    <2> DEFINE c == doing[s]
    <2>1. CASE ReadSquad(s) \/ CheckEvent(s) \/ ReadMembers(s) \/ CreateTeam(s)
      BY <2>1 DEF ReadSquad, CheckEvent, ReadMembers, CreateTeam, rosterVars
    <2>2. CASE RemoveTeam(s)
      <3>1. Busy(s) /\ c.event # e
        BY <2>2 DEF RemoveTeam, Write, At, Busy, RosterInv, Facts, PastFact
      <3>2. c.event = EventOf[c.team]
        BY <2>2, <3>1 DEF RemoveTeam, Write, At, RosterInv, SlotsShaped, Shaped, EventShape, TeamShape,
           SquadShape, PatchShape, MemberShape
      <3> QED
        BY <2>2, <3>1, <3>2 DEF RemoveTeam, DropTeams, DropSquads, EventOfSquad, RosterInv, RosterTypeOK
    <2>3. CASE CreateSquad(s) \/ UpdateSquad(s) \/ RemoveSquad(s) \/ AddMember(s) \/ RemoveMember(s)
      <3>1. Busy(s) /\ c.kind \in SquadKinds /\ c.at = "writing"
        BY <2>3 DEF CreateSquad, UpdateSquad, RemoveSquad, AddMember, RemoveMember, Write, At, Busy
      <3>2. c.event # e
        BY <3>1 DEF RosterInv, Facts, PastFact
      <3>3. c.squad # q
        BY <3>1, <3>2 DEF RosterInv, SlotsShaped, Shaped, OfSquad, EventShape, TeamShape,
           SquadShape, PatchShape, MemberShape
      <3> QED
        BY <2>3, <3>3 DEF CreateSquad, UpdateSquad, RemoveSquad, AddMember, RemoveMember, DropSquads,
           RosterInv, RosterTypeOK
    <2> QED
      BY <1>3, <2>1, <2>2, <2>3 DEF RosterStep
  <1> QED
    BY <1>2, <1>3 DEF RosterNext

LEMMA DisbandedStep ==
    ASSUME RosterInv, RosterNext, NEW q \in Squads, squad[q] = "DISBANDED", q \notin contended
    PROVE  squad'[q] \in {"DISBANDED", "deleted"} /\ members'[q] \subseteq members[q]
  <1> DEFINE kept == squad'[q] \in {"DISBANDED", "deleted"} /\ members'[q] \subseteq members[q]
  <1>1. CASE EventMove
    BY <1>1 DEF EventMove, DropTeams, DropSquads, rosterVars
  <1>2. ASSUME NEW s \in Slots, RosterStep(s) PROVE kept
    <2> DEFINE c == doing[s]
    <2>1. CASE ReadSquad(s) \/ CheckEvent(s) \/ ReadMembers(s) \/ CreateTeam(s)
      BY <2>1 DEF ReadSquad, CheckEvent, ReadMembers, CreateTeam, rosterVars
    <2>2. CASE RemoveTeam(s) \/ RemoveSquad(s)
      BY <2>2 DEF RemoveTeam, RemoveSquad, DropTeams, DropSquads
    <2>3. CASE CreateSquad(s)
      BY <2>3 DEF CreateSquad, RosterInv, RosterTypeOK
    <2>4. CASE RemoveMember(s)
      BY <2>4 DEF RemoveMember, RosterInv, RosterTypeOK
    <2>5. CASE UpdateSquad(s)
      <3>1. Busy(s) /\ c.kind = "updateSquad"
        BY <2>5 DEF UpdateSquad, Write, At, Busy
      <3>2. c.squad = q => c.status \in {Keep, "DISBANDED"}
        BY <3>1 DEF RosterInv, Facts, SquadFact
      <3> QED
        BY <2>5, <3>2 DEF UpdateSquad, Patched, RosterInv, RosterTypeOK
    <2>6. CASE AddMember(s)
      <3>1. Busy(s) /\ c.kind = "addMember"
        BY <2>6 DEF AddMember, Write, At, Busy
      <3>2. c.squad # q
        BY <3>1 DEF RosterInv, Facts, SquadFact
      <3> QED
        BY <2>6, <3>2 DEF AddMember, RosterInv, RosterTypeOK
    <2> QED
      BY <1>2, <2>1, <2>2, <2>3, <2>4, <2>5, <2>6 DEF RosterStep
  <1> QED
    BY <1>1, <1>2 DEF RosterNext

\* The roster of an event that is over, and a disbanded squad, stay as they are.
THEOREM OverIsFrozen == RosterSpec => WhatIsOverIsFrozenUnlessContended
  <1>1. RosterInv /\ [RosterNext]_vars =>
          [\A q \in Squads :
              /\ status[EventOfSquad(q)] = "ENDED" /\ EventOfSquad(q) \notin contended =>
                    /\ members'[q] = members[q]
                    /\ leader'[q] = leader[q]
                    /\ squad'[q] = squad[q]
              /\ squad[q] = "DISBANDED" /\ q \notin contended =>
                    /\ squad'[q] \in {"DISBANDED", "deleted"}
                    /\ members'[q] \subseteq members[q]]_rosterVars
    BY EndedStep, DisbandedStep DEF vars, rosterVars
  <1> QED
    BY RosterInvInit, RosterInvNext, <1>1, PTL DEF RosterSpec, WhatIsOverIsFrozenUnlessContended

-----------------------------------------------------------------------------
(* The slots of all services *)

IsCall(c) == c = [x \in DOMAIN c |-> c[x]] /\ {"kind", "at", "about", "heeds"} \subseteq DOMAIN c

\* A call of one of the kinds begins, goes on or ends in slot s; another one is
\* left alone, and if they are in each other's way, that is on record.
Handles(s, kinds) ==
    /\ DOMAIN doing' = Slots
    /\ \A t \in Slots \ {s} : doing'[t] = doing[t]
    /\ contended \subseteq contended'
    /\ Busy(s) => doing[s].kind \in kinds
    /\ Busy(s)' =>
          /\ doing'[s].kind \in kinds
          /\ \/ Busy(s) /\ doing'[s].about = doing[s].about /\ doing'[s].heeds = doing[s].heeds
             \/ ~Busy(s) /\ \A t \in Slots \ {s} :
                               Busy(t) => Disputed(doing'[s], doing[t]) \subseteq contended'

\* The calls of these kinds that are under way after a step are as before.
Spares(kinds) ==
    /\ contended \subseteq contended'
    /\ \A t \in Slots : Busy(t)' /\ doing'[t].kind \in kinds => doing'[t] = doing[t]

LEMMA BeginMoves ==
    ASSUME DOMAIN doing = Slots, NEW s \in Slots, NEW c, NEW kinds, Begin(s, c), c.kind \in kinds
    PROVE  Handles(s, kinds) /\ doing'[s] = c /\ ~Busy(s)
  BY DEF Begin, Handles, Busy, Disputed

LEMMA GotoMoves ==
    ASSUME DOMAIN doing = Slots, NEW s \in Slots, NEW p, NEW kinds, Goto(s, p), Busy(s),
           IsCall(doing[s]), doing[s].kind \in kinds
    PROVE  Handles(s, kinds) /\ doing'[s] = [doing[s] EXCEPT !.at = p]
  <1>1. doing' = [doing EXCEPT ![s] = [doing[s] EXCEPT !.at = p]] /\ contended' = contended
    BY DEF Goto
  <1>2. LET d == [doing[s] EXCEPT !.at = p] IN
        d.about = doing[s].about /\ d.heeds = doing[s].heeds /\ d.kind = doing[s].kind
    BY DEF IsCall
  <1> QED
    BY <1>1, <1>2 DEF Handles, Busy

LEMMA LeaveMoves ==
    ASSUME DOMAIN doing = Slots, NEW s \in Slots, NEW kinds, Leave(s), contended' = contended,
           Busy(s) => doing[s].kind \in kinds
    PROVE  Handles(s, kinds) /\ ~Busy(s)'
  BY DEF Leave, Handles, Busy

LEMMA PassMoves ==
    ASSUME DOMAIN doing = Slots, NEW s \in Slots, NEW test, NEW p, NEW kinds, Pass(s, test, p),
           Busy(s), IsCall(doing[s]), doing[s].kind \in kinds
    PROVE  /\ Handles(s, kinds)
           /\ Busy(s)' => test /\ doing'[s] = [doing[s] EXCEPT !.at = p]
  BY GotoMoves, LeaveMoves DEF Pass

LEMMA MovesSpare ==
    ASSUME NEW s \in Slots, NEW kinds, Handles(s, kinds), NEW others, kinds \cap others = {}
    PROVE  Spares(others)
  BY DEF Handles, Spares

LEMMA MovesKeepRivals ==
    ASSUME Rivals, NEW s \in Slots, NEW kinds, Handles(s, kinds)
    PROVE  Rivals'
  <1> SUFFICES ASSUME NEW t \in Slots, NEW u \in Slots, t # u, Busy(t)', Busy(u)'
               PROVE  Disputed(doing'[t], doing'[u]) \subseteq contended'
    BY DEF Rivals, Disputed
  <1>1. \A c, d : Disputed(c, d) = Disputed(d, c)
    BY DEF Disputed
  <1>2. ASSUME NEW v \in Slots, v # s, Busy(v)', Busy(s)'
        PROVE  Disputed(doing'[s], doing'[v]) \subseteq contended'
    <2>1. Busy(v) /\ doing'[v] = doing[v] /\ contended \subseteq contended'
      BY <1>2 DEF Handles, Busy
    <2>2. CASE Busy(s) /\ doing'[s].about = doing[s].about /\ doing'[s].heeds = doing[s].heeds
      <3>1. Disputed(doing[s], doing[v]) \subseteq contended
        BY <1>2, <2>1, <2>2 DEF Rivals
      <3> QED
        BY <2>1, <2>2, <3>1 DEF Disputed
    <2> QED
      BY <1>2, <2>1, <2>2 DEF Handles
  <1>3. CASE t = s
    BY <1>2, <1>3
  <1>4. CASE u = s
    BY <1>1, <1>2, <1>4
  <1>5. CASE t # s /\ u # s
    BY <1>5 DEF Handles, Busy, Rivals
  <1> QED
    BY <1>3, <1>4, <1>5

\* A service that only reads the roster leaves what is known about it alone.
LEMMA RosterInvStays ==
    ASSUME RosterInv, DOMAIN doing' = Slots, Rivals', Spares(RosterKinds),
           UNCHANGED <<eventVars, rosterVars>>
    PROVE  RosterInv'
  <1>1. contended \subseteq contended'
    BY DEF Spares
  <1>2. SlotsShaped'
    BY DEF RosterInv, SlotsShaped, Spares, Shaped, Busy
  <1>3. ASSUME NEW t \in Slots, Busy(t)' PROVE Facts(doing[t])'
    <2>1. CASE doing'[t].kind \in RosterKinds
      <3>1. doing'[t] = doing[t] /\ Busy(t)
        BY <1>3, <2>1 DEF Spares, Busy
      <3> QED
        BY <1>1, <3>1, FactsStay DEF RosterInv
    <2>2. CASE doing'[t].kind \notin RosterKinds
      BY <2>2 DEF Facts, EventFact, PastFact, SquadFact, LeadFact, JoinFact
    <2> QED
      BY <2>1, <2>2
  <1>4. RosterTypeOK'
    BY DEF RosterInv, RosterTypeOK, EventTypeOK, Exists, eventVars, rosterVars
  <1>5. OneSquadPerEventUnlessContended' /\ LeaderIsMemberUnlessContended'
    BY <1>1 DEF RosterInv, OneSquadPerEventUnlessContended, LeaderIsMemberUnlessContended, SquadsOf,
                rosterVars
  <1> QED
    BY <1>2, <1>3, <1>4, <1>5 DEF RosterInv

\* What a call of another service relies on, a call of the roster changes only
\* on record, if it is not a squad that is dropped.
LEMMA RosterSpares ==
    ASSUME RosterInv, [RosterNext]_vars, NEW others, others \cap RosterKinds = {}
    PROVE  /\ Spares(others)
           /\ \A t \in Slots : Busy(t)' /\ doing'[t].kind \in others =>
                 \A x \in (doing[t].about \cup doing[t].heeds) \ contended' :
                    /\ x \in Events /\ status[x] # "none" => status'[x] = status[x]
                    /\ x \in Squads =>
                          \/ squad'[x] = squad[x] /\ members'[x] = members[x]
                          \/ Dropped(x)
                    /\ x \in Operators =>
                          \A q \in Squads : x \in members'[q] => x \in members[q]
  <1> DEFINE spared ==
        \A t \in Slots : Busy(t)' /\ doing'[t].kind \in others =>
           \A x \in (doing[t].about \cup doing[t].heeds) \ contended' :
              /\ x \in Events /\ status[x] # "none" => status'[x] = status[x]
              /\ x \in Squads => \/ squad'[x] = squad[x] /\ members'[x] = members[x]
                                 \/ Dropped(x)
              /\ x \in Operators => \A q \in Squads : x \in members'[q] => x \in members[q]
  <1>0. RosterTypeOK /\ SlotsShaped /\ contended \subseteq contended'
    BY RivalsNext DEF RosterInv
  <1>1. CASE UNCHANGED vars
    BY <1>1 DEF vars, eventVars, rosterVars, Spares, Busy
  <1>2. CASE UNCHANGED <<doing, contended, rosterVars>> /\ \E e \in Events : CreateEvent(e)
    BY <1>2 DEF CreateEvent, rosterVars, Spares, Busy
  <1>3. ASSUME NEW s \in Slots, Ends(s) PROVE Spares(others) /\ spared
    <2>1. ~Busy(s)' /\ \A t \in Slots \ {s} : doing'[t] = doing[t] /\ (Busy(t)' => Busy(t))
      BY <1>0, <1>3 DEF Ends, Leave, SlotsShaped, Busy
    <2>2. Spares(others)
      BY <1>0, <2>1 DEF Spares
    <2>3. ASSUME NEW t \in Slots, Busy(t)', NEW x \in (doing[t].about \cup doing[t].heeds) \ contended'
          PROVE  x \notin doing[s].about
      <3>1. t # s /\ Busy(t) /\ Busy(s)
        BY <1>3, <2>1, <2>3 DEF Ends
      <3>2. Disputed(doing[s], doing[t]) \subseteq contended
        BY <3>1 DEF RosterInv, Rivals
      <3> QED
        BY <1>0, <2>3, <3>2 DEF Disputed
    <2> QED
      BY <1>3, <2>2, <2>3 DEF Ends
  <1>4. ASSUME NEW s \in Slots, NEW c, Begins(s, c), c.kind \in RosterKinds \/ c = Idle
        PROVE  Spares(others) /\ spared
    <2>1. doing'[s] = c /\ \A t \in Slots \ {s} : doing'[t] = doing[t]
      BY <1>0, <1>4 DEF Begins, Begin, SlotsShaped
    <2> QED
      BY <1>0, <1>4, <2>1 DEF Spares, Begins, Busy, eventVars, rosterVars
  <1>5. ASSUME NEW s \in Slots, NEW p \in AtPlaces, GoesOn(s, p)
        PROVE  Spares(others) /\ spared
    <2>1. /\ doing' = [doing EXCEPT ![s] = [doing[s] EXCEPT !.at = p]]
          /\ [doing[s] EXCEPT !.at = p].kind = doing[s].kind
          /\ doing[s].kind \in RosterKinds
      BY <1>0, <1>5, GotoShaped DEF GoesOn, Goto, SlotsShaped
    <2>2. doing'[s].kind \notin others /\ \A t \in Slots \ {s} : doing'[t] = doing[t]
      BY <1>0, <2>1 DEF SlotsShaped
    <2> QED
      BY <1>0, <1>5, <2>2 DEF Spares, GoesOn, eventVars, rosterVars
  <1>6. ASSUME NEW s \in Slots, NEW c, ReadEvent(s), Begins(s, c)
        PROVE  c.kind \in RosterKinds \/ c = Idle
    <2>1. doing'[s] = c /\ doing[s] = Idle
      BY <1>0, <1>6 DEF Begins, Begin, SlotsShaped
    <2>2. CASE UNCHANGED <<doing, contended>>
      BY <2>1, <2>2
    <2>3. ASSUME NEW k \in EventKinds, NEW e \in Events,
                 Begin(s, [kind |-> k, at |-> "event", event |-> e, about |-> {e}, heeds |-> {}])
          PROVE  c.kind \in RosterKinds
      <3>1. doing'[s] = [kind |-> k, at |-> "event", event |-> e, about |-> {e}, heeds |-> {}]
        BY <1>0, <2>3 DEF Begin, SlotsShaped
      <3> QED
        BY <2>1, <3>1
    <2> QED
      BY <1>6, <2>2, <2>3 DEF ReadEvent
  <1>7. \A c \in Requests : Noted(c).kind \in RosterKinds
    BY RequestsShaped DEF Requests, AnyCall, TeamCall, SquadCall, PatchCall, MemberCall
  <1> QED
    BY <1>0, <1>1, <1>2, <1>3, <1>4, <1>5, <1>6, <1>7, RosterCases

\* What the other services see of a step of the roster.
LEMMA RosterGrows ==
    ASSUME RosterInv, [RosterNext]_vars
    PROVE  /\ \A e \in Events : status[e] # "none" => status'[e] # "none"
           /\ \A t \in Teams : team[t] = "exists" => team'[t] \in {"exists", "deleted"}
  <1>0. RosterTypeOK /\ SlotsShaped
    BY DEF RosterInv
  <1>1. \A e \in Events : status[e] # "none" => status'[e] # "none"
    <2>1. ASSUME NEW f \in Events, CreateEvent(f)
          PROVE  \A e \in Events : status[e] # "none" => status'[e] # "none"
      BY <1>0, <2>1 DEF CreateEvent, RosterTypeOK, EventTypeOK
    <2>2. ASSUME NEW s \in Slots, Ends(s)
          PROVE  \A e \in Events : status[e] # "none" => status'[e] # "none"
      BY <2>2 DEF Ends
    <2>3. CASE UNCHANGED eventVars
      BY <2>3 DEF eventVars
    <2> QED
      BY <1>0, <2>1, <2>2, <2>3, RosterCases DEF vars, Begins, GoesOn
  <1>2. CASE UNCHANGED vars
    BY <1>1, <1>2 DEF vars, rosterVars
  <1>3. CASE EventMove
    <2>1. CASE UNCHANGED rosterVars
      BY <1>1, <2>1 DEF rosterVars
    <2>2. ASSUME NEW gone, DropTeams(gone)
          PROVE  \A t \in Teams : team[t] = "exists" => team'[t] \in {"exists", "deleted"}
      BY <2>2 DEF DropTeams
    <2> QED
      BY <1>1, <1>3, <2>1, <2>2 DEF EventMove
  <1>4. ASSUME NEW s \in Slots, RosterStep(s)
        PROVE  \A t \in Teams : team[t] = "exists" => team'[t] \in {"exists", "deleted"}
    BY <1>0, <1>4 DEF RosterStep, ReadSquad, CheckEvent, ReadMembers, CreateTeam, RemoveTeam,
       CreateSquad, UpdateSquad, RemoveSquad, AddMember, RemoveMember, DropTeams, rosterVars,
       RosterTypeOK
  <1> QED
    BY <1>1, <1>2, <1>3, <1>4 DEF RosterNext

\* A call that goes on is the same but for where it is.
LEMMA GoesKeeps ==
    ASSUME NEW c, IsCall(c), NEW p
    PROVE  LET d == [c EXCEPT !.at = p] IN
           /\ IsCall(d) /\ DOMAIN d = DOMAIN c /\ d.at = p
           /\ \A x \in DOMAIN c : x # "at" => d[x] = c[x]
  BY DEF IsCall

-----------------------------------------------------------------------------
(* Rounds *)

MatchKinds == {"createRound", "updateRound", "eliminate", "pardon"}

\* What a call of the matches knows; a creator has found that its event has no
\* active round, and whoever relies on a round, that it was active.
MatchCall(c) ==
    /\ c.kind = "createRound" =>
          /\ IsCall(c) /\ {"event", "number"} \subseteq DOMAIN c
          /\ c.at \in {"active", "latest", "writing"} /\ c.event \in Events
          /\ c.about = {<<c.event, 0>>} /\ c.heeds = {c.event}
          /\ status[c.event] # "none"
          /\ c.at # "active" /\ <<c.event, 0>> \notin contended =>
                \A n \in 1..MaxRounds : ~Active(<<c.event, n>>)
    /\ c.kind = "updateRound" =>
          /\ IsCall(c) /\ {"round", "status", "winner"} \subseteq DOMAIN c
          /\ c.at \in {"team", "writing"} /\ c.round \in Rounds
          /\ c.about = {c.round} /\ c.heeds = {}
          /\ c.status \in {"COMPLETED", "CANCELLED", Keep} /\ c.winner \in Teams \cup {NoOne, Keep}
          /\ c.round \notin contended => round[c.round].status \in {"ACTIVE", "none"}
    /\ c.kind = "eliminate" =>
          /\ IsCall(c) /\ {"round", "victim", "killer"} \subseteq DOMAIN c
          /\ c.at \in {"roster", "killer", "writing"} /\ c.round \in Rounds
          /\ c.about = {} /\ c.heeds = {c.round}
          /\ c.victim \in Operators /\ c.killer \in Operators \cup {NoOne}
          /\ c.at = "writing" => c.victim # c.killer
          /\ c.round \notin contended => round[c.round].status \in {"ACTIVE", "none"}
    /\ c.kind = "pardon" =>
          /\ IsCall(c) /\ {"round", "victim"} \subseteq DOMAIN c
          /\ c.at = "writing" /\ c.round \in Rounds /\ c.about = {} /\ c.heeds = {}

RoundShape == [status : {"none", "ACTIVE"} \cup Over, winner : Teams \cup {NoOne}]

OneRoundAtATime ==
    \A e \in Events : <<e, 0>> \notin contended =>
        \A n, m \in 1..MaxRounds : Active(<<e, n>>) /\ Active(<<e, m>>) => n = m

RoundParents ==
    \A r \in Rounds :
        /\ Played(r) => Live(r[1])
        /\ round[r].winner # NoOne => team[round[r].winner] = "exists"

MatchInv ==
    /\ \A s \in Slots : Busy(s) => MatchCall(doing[s])
    /\ round \in [Rounds -> RoundShape]
    /\ DOMAIN out = Rounds /\ \A r \in Rounds : out[r] = [o \in DOMAIN out[r] |-> out[r][o]]
    /\ MatchTypeOK
    /\ RoundParents
    /\ OneRoundAtATime

LEMMA MatchCallStays ==
    ASSUME NEW c, MatchCall(c), UNCHANGED <<eventVars, matchVars>>, contended \subseteq contended'
    PROVE  MatchCall(c)'
  BY DEF MatchCall, Active, eventVars, matchVars

\* Nothing is written; a call of the matches begins or goes on at most.
LEMMA MatchInvStays ==
    ASSUME MatchInv, contended \subseteq contended',
           UNCHANGED <<eventVars, rosterVars, matchVars>>,
           \A t \in Slots : Busy(t)' /\ doing'[t].kind \in MatchKinds =>
               (Busy(t) /\ doing'[t] = doing[t]) \/ MatchCall(doing[t])'
    PROVE  MatchInv'
  <1>1. ASSUME NEW t \in Slots, Busy(t)' PROVE MatchCall(doing[t])'
    <2>1. CASE doing'[t].kind \notin MatchKinds
      BY <2>1 DEF MatchCall, MatchKinds
    <2>2. CASE Busy(t) /\ doing'[t] = doing[t]
      BY <2>2, MatchCallStays DEF MatchInv
    <2> QED
      BY <1>1, <2>1, <2>2
  <1>2. MatchTypeOK' /\ RoundParents'
    BY DEF MatchInv, MatchTypeOK, RoundParents, Played, NoRound, Live, eventVars, rosterVars, matchVars
  <1>3. OneRoundAtATime'
    BY DEF MatchInv, OneRoundAtATime, Active, matchVars
  <1> QED
    BY <1>1, <1>2, <1>3 DEF MatchInv, matchVars

\* The rounds go with their event.
LEMMA MatchInvRoster ==
    ASSUME RosterInv, RosterTypeOK', [RosterNext]_vars, MatchCascade, MatchInv
    PROVE  MatchInv'
  <1> DEFINE gone(r) == status'[r[1]] = "deleted"
             noted(r) == \/ round'[r] = NoRound
                         \/ /\ ~gone(r) /\ round'[r].status = round[r].status
                            /\ round'[r] \in RoundShape
                            /\ \/ round'[r].winner = NoOne
                               \/ round'[r].winner = round[r].winner /\ team'[round[r].winner] # "deleted"
  <1>1. /\ Spares(MatchKinds) /\ contended \subseteq contended'
        /\ \A e \in Events : status[e] # "none" => status'[e] # "none"
        /\ \A t \in Teams : team[t] = "exists" => team'[t] \in {"exists", "deleted"}
    <2>1. MatchKinds \cap RosterKinds = {}
      BY DEF MatchKinds
    <2> QED
      BY <2>1, RosterSpares, RosterGrows DEF Spares
  <1>2. ASSUME NEW r \in Rounds
        PROVE  noted(r) /\ ((gone(r) => round'[r] = NoRound) /\ (~Played(r) => round'[r] = NoRound))
    <2>1. CASE gone(r)
      BY <2>1 DEF MatchCascade
    <2>2. CASE ~gone(r) /\ round[r].winner \in {t \in Teams : team'[t] = "deleted"}
      <3>1. round'[r] = [round[r] EXCEPT !.winner = NoOne]
        BY <2>2 DEF MatchCascade
      <3> QED
        BY <2>2, <3>1 DEF MatchInv, RoundShape, MatchTypeOK, NoRound
    <2>3. CASE ~gone(r) /\ round[r].winner \notin {t \in Teams : team'[t] = "deleted"}
      <3>1. round'[r] = round[r]
        BY <2>3 DEF MatchCascade
      <3> QED
        BY <2>3, <3>1 DEF MatchInv, RoundShape, MatchTypeOK
    <2> QED
      BY <2>1, <2>2, <2>3
  <1>3. ASSUME NEW r \in Rounds
        PROVE  out'[r] = <<>> \/ (out'[r] = out[r] /\ ~gone(r))
    BY DEF MatchCascade
  <1>4. round' \in [Rounds -> RoundShape]
    <2>1. NoRound \in RoundShape
      BY DEF NoRound, RoundShape
    <2>2. round' = [r \in Rounds |-> round'[r]]
      BY DEF MatchCascade
    <2> QED
      BY <1>2, <2>1, <2>2
  <1>5. DOMAIN out' = Rounds /\ \A r \in Rounds : out'[r] = [o \in DOMAIN out'[r] |-> out'[r][o]]
    BY <1>3 DEF MatchCascade, MatchInv
  <1>6. MatchTypeOK'
    <2> SUFFICES ASSUME NEW r \in Rounds
                 PROVE  /\ round'[r].status \in {"none", "ACTIVE"} \cup Over
                        /\ round'[r].winner \in Teams \cup {NoOne}
                        /\ ~Played(r)' => round'[r] = NoRound /\ out'[r] = <<>>
                        /\ \A o \in DOMAIN out'[r] : out'[r][o] \in (Operators \ {o}) \cup {NoOne}
      BY DEF MatchTypeOK
    <2>1. round'[r].status \in {"none", "ACTIVE"} \cup Over /\ round'[r].winner \in Teams \cup {NoOne}
      BY <1>4 DEF RoundShape
    <2>2. \A o \in DOMAIN out'[r] : out'[r][o] \in (Operators \ {o}) \cup {NoOne}
      BY <1>3 DEF MatchInv, MatchTypeOK
    <2>3. ~Played(r)' => round'[r] = NoRound /\ out'[r] = <<>>
      BY <1>2, <1>3 DEF Played, MatchInv, MatchTypeOK, MatchCascade
    <2> QED
      BY <2>1, <2>2, <2>3
  <1>7. RoundParents'
    <2> SUFFICES ASSUME NEW r \in Rounds
                 PROVE  /\ Played(r)' => Live(r[1])'
                        /\ round'[r].winner # NoOne => team'[round'[r].winner] = "exists"
      BY DEF RoundParents
    <2>1. r[1] \in Events
      BY DEF Rounds
    <2> QED
      BY <1>1, <1>2, <2>1 DEF RoundParents, MatchInv, MatchTypeOK, Played, NoRound, Live
  <1>8. OneRoundAtATime'
    <2>1. \A e \in Events, n \in 1..MaxRounds : Active(<<e, n>>)' => Active(<<e, n>>)
      BY <1>2 DEF Active, NoRound, Rounds
    <2> QED
      BY <1>1, <2>1 DEF OneRoundAtATime, MatchInv
  <1>9. ASSUME NEW t \in Slots, Busy(t)' PROVE MatchCall(doing[t])'
    <2>1. CASE doing'[t].kind \notin MatchKinds
      BY <2>1 DEF MatchCall, MatchKinds
    <2>2. CASE doing'[t].kind \in MatchKinds
      <3>1. doing'[t] = doing[t] /\ MatchCall(doing[t])
        BY <1>1, <1>9, <2>2 DEF Spares, Busy, MatchInv
      <3>2. \A e \in Events, n \in 1..MaxRounds : Active(<<e, n>>)' => Active(<<e, n>>)
        BY <1>2 DEF Active, NoRound, Rounds
      <3>3. \A r \in Rounds : round[r].status \in {"ACTIVE", "none"} => round'[r].status \in {"ACTIVE", "none"}
        BY <1>2 DEF NoRound
      <3> QED
        BY <1>1, <3>1, <3>2, <3>3 DEF MatchCall
    <2> QED
      BY <2>1, <2>2
  <1> QED
    BY <1>4, <1>5, <1>6, <1>7, <1>8, <1>9 DEF MatchInv

\* A call of the matches that begins or goes on knows what it should.
LEMMA MatchBegins ==
    ASSUME RosterInv, MatchInv, NEW s \in Slots, NEW c, Begin(s, c), MatchCall(c)',
           c.kind \in MatchKinds, UNCHANGED <<eventVars, rosterVars, matchVars>>
    PROVE  MatchInv' /\ Handles(s, MatchKinds)
  <1>1. Handles(s, MatchKinds) /\ doing'[s] = c /\ ~Busy(s)
    BY BeginMoves DEF RosterInv, SlotsShaped
  <1>2. \A t \in Slots : t # s /\ Busy(t)' => Busy(t) /\ doing'[t] = doing[t]
    BY <1>1 DEF Handles, Busy
  <1> QED
    BY <1>1, <1>2, MatchInvStays DEF Handles

LEMMA MatchGoesOn ==
    ASSUME RosterInv, MatchInv, NEW s \in Slots, NEW test, NEW p, Pass(s, test, p),
           Busy(s), doing[s].kind \in MatchKinds,
           UNCHANGED <<eventVars, rosterVars, matchVars>>,
           test => MatchCall([doing[s] EXCEPT !.at = p])
    PROVE  MatchInv' /\ Handles(s, MatchKinds)
  <1>1. IsCall(doing[s])
    BY DEF MatchInv, MatchCall, MatchKinds
  <1>2. Handles(s, MatchKinds) /\ (Busy(s)' => test /\ doing'[s] = [doing[s] EXCEPT !.at = p])
    BY <1>1, PassMoves DEF RosterInv, SlotsShaped
  <1>3. \A t \in Slots : t # s /\ Busy(t)' => Busy(t) /\ doing'[t] = doing[t]
    BY <1>2 DEF Handles, Busy
  <1>4. Busy(s)' => MatchCall(doing[s])'
    BY <1>2, MatchCallStays DEF Handles
  <1> QED
    BY <1>2, <1>3, <1>4, MatchInvStays DEF Handles

\* A round is written by who is about it.
LEMMA MatchWrites ==
    ASSUME RosterInv, MatchInv, NEW s \in Slots, Busy(s), doing[s].kind \in MatchKinds,
           Leave(s), contended' = contended, UNCHANGED <<eventVars, rosterVars>>,
           \A r \in Rounds : \/ round'[r].status = round[r].status
                             \/ r \in doing[s].about /\ round'[r].status \in Over
                             \/ /\ <<r[1], 0>> \in doing[s].about
                                /\ round[r].status = "none" /\ round'[r].status = "ACTIVE"
    PROVE  Handles(s, MatchKinds) /\ \A t \in Slots : Busy(t)' => MatchCall(doing[t])'
  <1>1. Handles(s, MatchKinds) /\ ~Busy(s)'
    BY LeaveMoves DEF RosterInv, SlotsShaped
  <1>2. ASSUME NEW t \in Slots, Busy(t)' PROVE MatchCall(doing[t])'
    <2> DEFINE c == doing[t]
    <2>1. t # s /\ Busy(t) /\ doing'[t] = c /\ MatchCall(c)
      BY <1>1, <1>2 DEF Handles, Busy, MatchInv
    <2>2. Disputed(doing[s], c) \subseteq contended
      BY <2>1 DEF RosterInv, Rivals
    <2>3. CASE c.kind = "createRound"
      <3>1. <<c.event, 0>> \notin contended =>
               \A n \in 1..MaxRounds : round'[<<c.event, n>>].status = "ACTIVE" => Active(<<c.event, n>>)
        <4> SUFFICES ASSUME <<c.event, 0>> \notin contended, NEW n \in 1..MaxRounds,
                            round'[<<c.event, n>>].status = "ACTIVE"
                     PROVE  Active(<<c.event, n>>)
          OBVIOUS
        <4>1. <<c.event, n>> \in Rounds /\ <<c.event, 0>> \notin doing[s].about
          BY <2>1, <2>2, <2>3 DEF Rounds, MatchCall, Disputed
        <4> DEFINE r == <<c.event, n>>
        <4>2. r[1] = c.event
          OBVIOUS
        <4>3. ~(r \in doing[s].about /\ round'[r].status \in Over) /\ <<r[1], 0>> \notin doing[s].about
          BY <4>1, <4>2 DEF Active, Over
        <4> QED
          BY <4>1, <4>3 DEF Active
      <3> QED
        BY <2>1, <2>3, <3>1 DEF MatchCall, Active, eventVars
    <2>4. CASE c.kind \in {"updateRound", "eliminate"}
      <3>1. c.round \notin contended /\ round[c.round].status \in {"ACTIVE", "none"} =>
               round'[c.round].status \in {"ACTIVE", "none"}
        <4>1. c.round \in Rounds /\ (c.round \notin contended => c.round \notin doing[s].about)
          BY <2>1, <2>2, <2>4 DEF MatchCall, Disputed
        <4> QED
          BY <4>1 DEF Over
      <3> QED
        BY <2>1, <2>4, <3>1 DEF MatchCall
    <2>5. CASE c.kind \notin {"createRound", "updateRound", "eliminate"}
      BY <2>1, <2>5 DEF MatchCall
    <2> QED
      BY <2>3, <2>4, <2>5
  <1> QED
    BY <1>1, <1>2

LEMMA MatchAsks ==
    ASSUME RosterInv, MatchInv, NEW s \in Slots, UNCHANGED <<eventVars, rosterVars>>,
           AskRound(s) \/ AskUpdate(s) \/ AskElimination(s) \/ AskPardon(s)
    PROVE  MatchInv' /\ Handles(s, MatchKinds)
  <1> USE MatchConstants DEF MatchKinds, MatchCall, IsCall
  <1>1. CASE AskRound(s)
    <2>1. PICK e \in Competitive :
             /\ status[e] = "ACTIVE"
             /\ Begin(s, [kind |-> "createRound", at |-> "active", event |-> e, number |-> 0,
                          about |-> {<<e, 0>>}, heeds |-> {e}])
      BY <1>1 DEF AskRound
    <2> DEFINE c == [kind |-> "createRound", at |-> "active", event |-> e, number |-> 0,
                     about |-> {<<e, 0>>}, heeds |-> {e}]
    <2>2. MatchCall(c)'
      BY <2>1 DEF eventVars
    <2> HIDE DEF MatchCall, IsCall
    <2> QED
      BY <1>1, <2>1, <2>2, MatchBegins DEF AskRound
  <1>2. CASE AskUpdate(s)
    <2>1. PICK r \in Rounds, p \in RoundPatches :
             /\ Active(r)
             /\ Begin(s, [kind |-> "updateRound", round |-> r, about |-> {r}, heeds |-> {},
                          at |-> IF p.status = "COMPLETED" /\ p.winner \in Teams
                                 THEN "team" ELSE "writing",
                          status |-> p.status,
                          winner |-> IF p.status = "CANCELLED" THEN NoOne ELSE p.winner])
      BY <1>2 DEF AskUpdate
    <2> DEFINE c == [kind |-> "updateRound", round |-> r, about |-> {r}, heeds |-> {},
                     at |-> IF p.status = "COMPLETED" /\ p.winner \in Teams
                            THEN "team" ELSE "writing",
                     status |-> p.status,
                     winner |-> IF p.status = "CANCELLED" THEN NoOne ELSE p.winner]
    <2>2. MatchCall(c)'
      BY <1>2, <2>1 DEF AskUpdate, matchVars, Active
    <2> HIDE DEF MatchCall, IsCall
    <2> QED
      BY <1>2, <2>1, <2>2, MatchBegins DEF AskUpdate
  <1>3. CASE AskElimination(s)
    <2>1. PICK r \in Rounds, o \in Operators, k \in Operators \cup {NoOne} :
             /\ Active(r)
             /\ Begin(s, [kind |-> "eliminate", at |-> "roster", round |-> r, victim |-> o,
                          killer |-> k, about |-> {}, heeds |-> {r}])
      BY <1>3 DEF AskElimination
    <2> DEFINE c == [kind |-> "eliminate", at |-> "roster", round |-> r, victim |-> o,
                     killer |-> k, about |-> {}, heeds |-> {r}]
    <2>2. MatchCall(c)'
      BY <1>3, <2>1 DEF AskElimination, matchVars, Active
    <2> HIDE DEF MatchCall, IsCall
    <2> QED
      BY <1>3, <2>1, <2>2, MatchBegins DEF AskElimination
  <1>4. CASE AskPardon(s)
    <2>1. PICK r \in Rounds : \E o \in DOMAIN out[r] :
             Begin(s, [kind |-> "pardon", at |-> "writing", round |-> r, victim |-> o,
                       about |-> {}, heeds |-> {}])
      BY <1>4 DEF AskPardon
    <2>2. PICK o \in DOMAIN out[r] :
             Begin(s, [kind |-> "pardon", at |-> "writing", round |-> r, victim |-> o,
                       about |-> {}, heeds |-> {}])
      BY <2>1
    <2> DEFINE c == [kind |-> "pardon", at |-> "writing", round |-> r, victim |-> o,
                     about |-> {}, heeds |-> {}]
    <2>3. MatchCall(c)'
      OBVIOUS
    <2> HIDE DEF MatchCall, IsCall
    <2> QED
      BY <1>4, <2>2, <2>3, MatchBegins DEF AskPardon
  <1> QED
    BY <1>1, <1>2, <1>3, <1>4

LEMMA MatchFinds ==
    ASSUME RosterInv, MatchInv, NEW s \in Slots, UNCHANGED <<eventVars, rosterVars>>,
           FindActive(s) \/ FindLatest(s) \/ FindTeam(s) \/ FindVictim(s) \/ FindKiller(s)
    PROVE  MatchInv' /\ Handles(s, MatchKinds)
  <1> DEFINE c == doing[s]
  <1>0. Busy(s) /\ c.kind \in MatchKinds /\ MatchCall(c) /\ IsCall(c)
    BY DEF FindActive, FindLatest, FindTeam, FindVictim, FindKiller, At, Busy, MatchInv, MatchKinds,
           MatchCall
  <1>1. CASE FindActive(s)
    <2>1. c.kind = "createRound" /\ {"event", "number"} \subseteq DOMAIN c
      BY <1>0, <1>1 DEF FindActive, At, MatchCall
    <2>2. (~\E n \in 1..MaxRounds : Active(<<c.event, n>>)) =>
             MatchCall([c EXCEPT !.at = "latest"])
      BY <1>0, <2>1, GoesKeeps DEF MatchCall, IsCall
    <2> QED
      BY <1>0, <1>1, <2>2, MatchGoesOn DEF FindActive
  <1>2. CASE FindTeam(s)
    <2>1. c.kind = "updateRound" /\ {"round", "status", "winner"} \subseteq DOMAIN c
      BY <1>0, <1>2 DEF FindTeam, At, MatchCall
    <2>2. MatchCall([c EXCEPT !.at = "writing"])
      BY <1>0, <2>1, GoesKeeps DEF MatchCall, IsCall
    <2> QED
      BY <1>0, <1>2, <2>2, MatchGoesOn DEF FindTeam
  <1>3. CASE FindKiller(s)
    <2>1. c.kind = "eliminate" /\ {"round", "victim", "killer"} \subseteq DOMAIN c
      BY <1>0, <1>3 DEF FindKiller, At, MatchCall
    <2>2. c.victim # c.killer => MatchCall([c EXCEPT !.at = "writing"])
      BY <1>0, <2>1, GoesKeeps DEF MatchCall, IsCall
    <2> QED
      BY <1>0, <1>3, <2>2, MatchGoesOn DEF FindKiller
  <1>4. CASE FindLatest(s)
    <2>1. c.kind = "createRound" /\ {"event", "number"} \subseteq DOMAIN c /\ c.at = "latest"
      BY <1>0, <1>4 DEF FindLatest, At, MatchCall
    <2>2. PICK n : doing' = [doing EXCEPT ![s].at = "writing", ![s].number = n]
      BY <1>4 DEF FindLatest
    <2> DEFINE d == [c EXCEPT !.at = "writing", !.number = n]
    <2>3. /\ IsCall(d) /\ DOMAIN d = DOMAIN c /\ d.at = "writing"
          /\ \A x \in DOMAIN c \ {"at", "number"} : d[x] = c[x]
      BY <1>0, <2>1 DEF IsCall
    <2>4. d.kind = c.kind /\ d.event = c.event /\ d.about = c.about /\ d.heeds = c.heeds
      BY <1>0, <2>1, <2>3 DEF IsCall
    <2>5. MatchCall(d)
      BY <1>0, <2>1, <2>3, <2>4 DEF MatchCall
    <2>6. doing'[s] = d /\ contended' = contended /\ DOMAIN doing' = Slots
          /\ \A t \in Slots \ {s} : doing'[t] = doing[t]
      BY <1>4, <2>2 DEF FindLatest, RosterInv, SlotsShaped
    <2> HIDE DEF d
    <2>7. Handles(s, MatchKinds)
      BY <1>0, <2>4, <2>6 DEF Handles
    <2>8. MatchCall(doing[s])'
      BY <1>4, <2>5, <2>6, MatchCallStays DEF FindLatest
    <2>9. UNCHANGED matchVars
      BY <1>4 DEF FindLatest
    <2> QED
      BY <2>6, <2>7, <2>8, <2>9, MatchInvStays DEF Busy
  <1>5. CASE FindVictim(s)
    <2>1. c.kind = "eliminate" /\ {"round", "victim", "killer"} \subseteq DOMAIN c
      BY <1>0, <1>5 DEF FindVictim, At, MatchCall
    <2>2. MatchCall([c EXCEPT !.at = "killer"])
      BY <1>0, <2>1, GoesKeeps DEF MatchCall, IsCall
    <2> QED
      BY <1>0, <1>5, <2>2, MatchGoesOn DEF FindVictim
  <1> QED
    BY <1>1, <1>2, <1>3, <1>4, <1>5

\* The writes, one after the other: first what becomes of the rounds,
LEMMA RoundsWritten ==
    ASSUME RosterInv, MatchInv, NEW s \in Slots, UNCHANGED <<eventVars, rosterVars>>,
           contended' = contended, CreateRound(s) \/ UpdateRound(s)
    PROVE  /\ round' \in [Rounds -> RoundShape] /\ out' = out
           /\ MatchTypeOK' /\ RoundParents' /\ OneRoundAtATime'
           /\ \A r \in Rounds : \/ round'[r].status = round[r].status
                                \/ r \in doing[s].about /\ round'[r].status \in Over
                                \/ /\ <<r[1], 0>> \in doing[s].about
                                   /\ round[r].status = "none" /\ round'[r].status = "ACTIVE"
  <1> DEFINE c == doing[s]
  <1>0. Busy(s) /\ MatchCall(c) /\ out' = out
    BY DEF CreateRound, UpdateRound, At, Busy, MatchInv
  <1>1. ASSUME UNCHANGED round
        PROVE  /\ round' \in [Rounds -> RoundShape]
               /\ MatchTypeOK' /\ RoundParents' /\ OneRoundAtATime'
    BY <1>0, <1>1 DEF MatchInv, MatchTypeOK, RoundParents, OneRoundAtATime, Played, Active, NoRound,
       Live, eventVars, rosterVars
  <1>2. CASE CreateRound(s) /\ round' # round
    <2> DEFINE r == <<c.event, c.number>>
               new == [status |-> "ACTIVE", winner |-> NoOne]
    <2>1. /\ c.kind = "createRound" /\ c.at = "writing"
          /\ r \in Rounds /\ ~Played(r) /\ status[r[1]] # "deleted"
          /\ round' = [round EXCEPT ![r] = new]
      BY <1>2 DEF CreateRound, At
    <2>2. /\ c.event \in Events /\ c.number \in 1..MaxRounds /\ r[1] = c.event /\ Live(c.event)
          /\ <<c.event, 0>> \notin contended => \A n \in 1..MaxRounds : ~Active(<<c.event, n>>)
          /\ <<c.event, 0>> \in c.about
      BY <1>0, <2>1 DEF MatchCall, Rounds, Live
    <2> HIDE DEF r
    <2>3. round'[r] = new /\ \A x \in Rounds : x # r => round'[x] = round[x]
      BY <2>1 DEF MatchInv
    <2>4. round' \in [Rounds -> RoundShape]
      BY <2>1 DEF MatchInv, RoundShape
    <2>5. MatchTypeOK' /\ RoundParents'
      BY <1>0, <2>2, <2>3 DEF MatchInv, MatchTypeOK, RoundParents, Played, NoRound, Live, eventVars, rosterVars
    <2>6. OneRoundAtATime'
      <3> SUFFICES ASSUME NEW e \in Events, <<e, 0>> \notin contended,
                          NEW n \in 1..MaxRounds, NEW m \in 1..MaxRounds,
                          Active(<<e, n>>)', Active(<<e, m>>)'
                   PROVE  n = m
        BY DEF OneRoundAtATime
      <3>1. <<e, n>> \in Rounds /\ <<e, m>> \in Rounds
        BY DEF Rounds
      <3>2. CASE e = c.event
        <4>1. \A k \in 1..MaxRounds : <<e, k>> = r => k = c.number
          BY DEF r
        <4>2. <<e, n>> = r /\ <<e, m>> = r
          BY <2>2, <2>3, <3>1, <3>2 DEF Active
        <4> QED
          BY <4>1, <4>2
      <3>3. CASE e # c.event
        <4>1. <<e, n>> # r /\ <<e, m>> # r
          BY <3>3 DEF r
        <4> QED
          BY <2>3, <3>1, <4>1 DEF Active, MatchInv, OneRoundAtATime
      <3> QED
        BY <3>2, <3>3
    <2>7. \A x \in Rounds : \/ round'[x].status = round[x].status
                            \/ /\ <<x[1], 0>> \in c.about
                               /\ round[x].status = "none" /\ round'[x].status = "ACTIVE"
      BY <2>1, <2>2, <2>3 DEF Played
    <2> QED
      BY <1>0, <2>4, <2>5, <2>6, <2>7
  <1>3. CASE UpdateRound(s) /\ round' # round
    <2> DEFINE r == c.round
               new == [status |-> Patched(round[r].status, c.status),
                       winner |-> Patched(round[r].winner, c.winner)]
    <2>1. /\ c.kind = "updateRound" /\ c.at = "writing"
          /\ Played(r) /\ (c.winner \in Teams => team[c.winner] = "exists")
          /\ round' = [round EXCEPT ![r] = new]
      BY <1>3 DEF UpdateRound, At
    <2>2. /\ r \in Rounds /\ r \in c.about
          /\ c.status \in {"COMPLETED", "CANCELLED", Keep} /\ c.winner \in Teams \cup {NoOne, Keep}
      BY <1>0, <2>1 DEF MatchCall
    <2>3. /\ new.status = round[r].status \/ new.status \in Over
          /\ new.status \in {"ACTIVE"} \cup Over /\ new.winner \in Teams \cup {NoOne}
          /\ new.winner # NoOne => team[new.winner] = "exists"
      BY <2>1, <2>2 DEF Patched, Over, MatchInv, MatchTypeOK, RoundParents, Played
    <2>4. new \in RoundShape
      BY <2>3 DEF RoundShape
    <2> HIDE DEF new, r
    <2>5. round'[r] = new /\ \A x \in Rounds : x # r => round'[x] = round[x]
      BY <2>1, <2>2 DEF MatchInv
    <2>6. round' \in [Rounds -> RoundShape]
      BY <2>1, <2>4 DEF MatchInv
    <2>7. MatchTypeOK' /\ RoundParents'
      BY <1>0, <2>1, <2>2, <2>3, <2>5
         DEF MatchInv, MatchTypeOK, RoundParents, Played, NoRound, Live, eventVars, rosterVars, Over
    <2>8. \A x \in Rounds : round'[x].status = "ACTIVE" => round[x].status = "ACTIVE"
      BY <2>3, <2>5 DEF Over
    <2>9. OneRoundAtATime'
      BY <2>8 DEF OneRoundAtATime, MatchInv, Active, Rounds
    <2>10. \A x \in Rounds : \/ round'[x].status = round[x].status
                             \/ x \in c.about /\ round'[x].status \in Over
      BY <2>2, <2>3, <2>5
    <2> QED
      BY <1>0, <2>6, <2>7, <2>9, <2>10
  <1>4. CASE UNCHANGED round
    BY <1>0, <1>1, <1>4
  <1> QED
    BY <1>2, <1>3, <1>4

\* then what becomes of the eliminations.
LEMMA OutWritten ==
    ASSUME RosterInv, MatchInv, NEW s \in Slots, UNCHANGED <<eventVars, rosterVars>>,
           contended' = contended, Eliminate(s) \/ Pardon(s)
    PROVE  /\ round' = round /\ DOMAIN out' = Rounds
           /\ \A r \in Rounds : out'[r] = [o \in DOMAIN out'[r] |-> out'[r][o]]
           /\ MatchTypeOK' /\ RoundParents' /\ OneRoundAtATime'
  <1> DEFINE c == doing[s]
             r == c.round
  <1>0. Busy(s) /\ MatchCall(c) /\ round' = round
    BY DEF Eliminate, Pardon, At, Busy, MatchInv
  <1>1. RoundParents' /\ OneRoundAtATime'
    BY <1>0 DEF MatchInv, RoundParents, OneRoundAtATime, Played, Active, Live, eventVars, rosterVars
  <1>2. CASE out' = out
    BY <1>0, <1>1, <1>2 DEF MatchInv, MatchTypeOK, Played, NoRound
  <1>3. ASSUME NEW f, r \in Rounds, out' = [out EXCEPT ![r] = f],
               f = [o \in DOMAIN f |-> f[o]],
               \A o \in DOMAIN f : f[o] \in (Operators \ {o}) \cup {NoOne},
               ~Played(r) => f = <<>>
        PROVE  /\ DOMAIN out' = Rounds
               /\ \A x \in Rounds : out'[x] = [o \in DOMAIN out'[x] |-> out'[x][o]]
               /\ MatchTypeOK'
    <2>1. DOMAIN out' = Rounds /\ out'[r] = f /\ \A x \in Rounds : x # r => out'[x] = out[x]
      BY <1>3 DEF MatchInv
    <2> QED
      BY <1>0, <1>3, <2>1 DEF MatchInv, MatchTypeOK, Played, NoRound
  <1>4. CASE Eliminate(s) /\ out' # out
    <2> DEFINE f == [o \in DOMAIN out[r] \cup {c.victim} |->
                        IF o \in DOMAIN out[r] THEN out[r][o] ELSE c.killer]
    <2>1. c.kind = "eliminate" /\ c.at = "writing" /\ Played(r) /\ out' = [out EXCEPT ![r] = f]
      BY <1>4 DEF Eliminate, At
    <2>2. r \in Rounds /\ c.killer \in (Operators \ {c.victim}) \cup {NoOne}
      BY <1>0, <2>1 DEF MatchCall
    <2>3. \A o \in DOMAIN f : f[o] \in (Operators \ {o}) \cup {NoOne}
      BY <2>2 DEF MatchInv, MatchTypeOK
    <2> QED
      BY <1>0, <1>1, <1>3, <2>1, <2>2, <2>3
  <1>5. CASE Pardon(s)
    <2> DEFINE f == [o \in DOMAIN out[r] \ {c.victim} |-> out[r][o]]
    <2>1. c.kind = "pardon" /\ out' = [out EXCEPT ![r] = f]
      BY <1>5 DEF Pardon, At
    <2>2. r \in Rounds
      BY <1>0, <2>1 DEF MatchCall
    <2>3. \A o \in DOMAIN f : f[o] \in (Operators \ {o}) \cup {NoOne}
      BY <2>2 DEF MatchInv, MatchTypeOK
    <2>4. ~Played(r) => f = <<>>
      BY <2>2 DEF MatchInv, MatchTypeOK
    <2>5. f = [o \in DOMAIN f |-> f[o]]
      OBVIOUS
    <2> HIDE DEF f
    <2> QED
      BY <1>0, <1>1, <1>3, <2>1, <2>2, <2>3, <2>4, <2>5
  <1> QED
    BY <1>2, <1>4, <1>5

LEMMA MatchInvNext ==
    ASSUME RosterInv, MatchInv, NEW s \in Slots, MatchStep(s)
    PROVE  MatchInv' /\ Handles(s, MatchKinds)
  <1>0. UNCHANGED <<eventVars, rosterVars>>
    BY DEF MatchStep
  <1>1. CASE CreateRound(s) \/ UpdateRound(s)
    <2>1. Busy(s) /\ doing[s].kind \in MatchKinds /\ Leave(s) /\ contended' = contended
      BY <1>1 DEF CreateRound, UpdateRound, At, Busy, MatchKinds
    <2>2. Handles(s, MatchKinds) /\ \A t \in Slots : Busy(t)' => MatchCall(doing[t])'
      BY <1>0, <1>1, <2>1, RoundsWritten, MatchWrites
    <2> QED
      BY <1>0, <1>1, <2>1, <2>2, RoundsWritten DEF MatchInv
  <1>2. CASE Eliminate(s) \/ Pardon(s)
    <2>1. Busy(s) /\ doing[s].kind \in MatchKinds /\ Leave(s) /\ contended' = contended
      BY <1>2 DEF Eliminate, Pardon, At, Busy, MatchKinds
    <2>2. round' = round
      BY <1>2 DEF Eliminate, Pardon
    <2>3. Handles(s, MatchKinds) /\ \A t \in Slots : Busy(t)' => MatchCall(doing[t])'
      BY <1>0, <2>1, <2>2, MatchWrites
    <2> QED
      BY <1>0, <1>2, <2>1, <2>2, <2>3, OutWritten DEF MatchInv
  <1> QED
    BY <1>0, <1>1, <1>2, MatchAsks, MatchFinds DEF MatchStep

\* A round that is over keeps its result: who would write it found it active.
LEMMA ResultIsFinalStep ==
    ASSUME RosterInv, MatchInv, NEW s \in Slots, MatchStep(s),
           NEW r \in Rounds \ contended, round[r].status \in Over
    PROVE  /\ round'[r].status = round[r].status
           /\ round'[r].winner \in {round[r].winner, NoOne}
           /\ DOMAIN out'[r] \subseteq DOMAIN out[r]
  <1> DEFINE c == doing[s]
  <1>1. CASE CreateRound(s)
    BY <1>1 DEF CreateRound, Played, Over, MatchInv
  <1>2. CASE UpdateRound(s)
    <2>1. Busy(s) /\ c.kind = "updateRound"
      BY <1>2 DEF UpdateRound, At, Busy
    <2>2. c.round # r
      BY <2>1 DEF MatchInv, MatchCall, Over
    <2> QED
      BY <1>2, <2>2 DEF UpdateRound, MatchInv
  <1>3. CASE Eliminate(s)
    <2>1. Busy(s) /\ c.kind = "eliminate"
      BY <1>3 DEF Eliminate, At, Busy
    <2>2. c.round # r
      BY <2>1 DEF MatchInv, MatchCall, Over
    <2> QED
      BY <1>3, <2>2 DEF Eliminate, MatchInv
  <1>4. CASE Pardon(s)
    BY <1>4 DEF Pardon, MatchInv
  <1>5. CASE UNCHANGED matchVars
    BY <1>5 DEF matchVars
  <1> QED
    BY <1>1, <1>2, <1>3, <1>4, <1>5
       DEF MatchStep, AskRound, FindActive, FindLatest, AskUpdate, FindTeam, AskElimination,
           FindVictim, FindKiller, AskPardon

\* Nor does the cascade change it, but that a deleted team is no winner.
LEMMA ResultSurvivesCascade ==
    ASSUME MatchInv, MatchCascade, NEW r \in Rounds, round'[r] # NoRound
    PROVE  /\ round'[r].status = round[r].status
           /\ round'[r].winner \in {round[r].winner, NoOne}
           /\ DOMAIN out'[r] \subseteq DOMAIN out[r]
  <1>1. round[r] \in RoundShape
    BY DEF MatchInv
  <1>2. status'[r[1]] # "deleted"
    BY DEF MatchCascade
  <1>3. out'[r] = out[r]
    BY <1>2 DEF MatchCascade
  <1>4. round'[r] = round[r] \/ round'[r] = [round[r] EXCEPT !.winner = NoOne]
    BY <1>2 DEF MatchCascade
  <1> QED
    BY <1>1, <1>3, <1>4 DEF RoundShape

LEMMA OneRoundIsOne ==
    ASSUME OneRoundAtATime
    PROVE  OneActiveRoundUnlessContended
  <1> SUFFICES ASSUME NEW e \in Events, <<e, 0>> \notin contended
               PROVE  Cardinality({r \in Of(e) : Active(r)}) <= 1
    BY DEF OneActiveRoundUnlessContended
  <1> DEFINE here == {r \in Of(e) : Active(r)}
  <1>1. ASSUME NEW q \in here, NEW r \in here PROVE q = r
    <2>1. PICK n \in 1..MaxRounds, m \in 1..MaxRounds : q = <<e, n>> /\ r = <<e, m>>
      BY <1>1 DEF Of, Rounds
    <2> QED
      BY <1>1, <2>1 DEF OneRoundAtATime
  <1>2. CASE here = {}
    BY <1>2, FS_EmptySet
  <1>3. ASSUME NEW r \in here PROVE Cardinality(here) <= 1
    <2>1. here = {r}
      BY <1>1, <1>3
    <2> HIDE DEF here
    <2>2. Cardinality(here) = 1
      BY <2>1, FS_Singleton
    <2> QED
      BY <2>2
  <1> QED
    BY <1>2, <1>3

-----------------------------------------------------------------------------
(* Missions and zones *)

PlaceKinds == {"createPlace", "updatePlace", "removePlace"}

Onto(k) == IF k = "removePlace" THEN {"DRAFT"} ELSE {"DRAFT", "ACTIVE"}

\* What a call about a place knows: a new place is its own, another one's event
\* is as it was read; past the first check that event is in its phase, and past
\* the last one a zone is in the event.
PlaceFact(c) ==
    c.kind \in PlaceKinds =>
        /\ IsCall(c) /\ {"place", "event", "name", "zone"} \subseteq DOMAIN c
        /\ c.at \in {"phase", "name", "zone", "writing"}
        /\ c.place \in Places /\ c.event \in Events
        /\ c.name \in PlaceNames \cup {Nowhere} /\ c.zone \in Zones \cup {Nowhere}
        /\ c.about = {c.place} /\ c.heeds = {c.event}
        /\ c.at # "phase" =>
              /\ status[c.event] # "none"
              /\ c.event \notin contended => status[c.event] \in Onto(c.kind)
        /\ c.kind = "createPlace" =>
              /\ c.name \in PlaceNames /\ plan[c.place].state = "unused"
              /\ c.zone # Nowhere => c.place \in Tasks
              /\ c.zone # Nowhere /\ c.at = "writing" =>
                    /\ plan[c.zone].state # "unused"
                    /\ There(c.zone) => plan[c.zone].event = c.event
        /\ c.kind # "createPlace" =>
              /\ c.zone = Nowhere /\ plan[c.place].state # "unused"
              /\ There(c.place) => plan[c.place].event = c.event

PlaceRow ==
    [state : {"unused", "there", "gone"}, event : Events \cup {Nowhere},
     name : PlaceNames \cup {Nowhere}, zone : Zones \cup {Nowhere}, rev : {0, 1}]

PlanTyped ==
    /\ plan \in [Places -> PlaceRow]
    /\ \A p \in Places :
          /\ There(p) => plan[p].event \in Events /\ plan[p].name \in PlaceNames /\ Live(plan[p].event)
          /\ ~There(p) => plan[p].event = Nowhere /\ plan[p].zone = Nowhere

\* Nobody else creates the place.
PlacesApart ==
    \A s, t \in Slots : s # t /\ Busy(s) /\ Busy(t)
        /\ doing[s].kind = "createPlace" /\ doing[t].kind = "createPlace" =>
            doing[s].place # doing[t].place

PlaceInv ==
    /\ \A s \in Slots : Busy(s) => PlaceFact(doing[s])
    /\ PlacesApart
    /\ PlanTyped
    /\ PlanIsSound

\* A place is created once, keeps its event, and is gone for good.
PlaceGoes(p) ==
    plan[p].state # "unused" =>
        /\ plan'[p].state # "unused"
        /\ There(p)' => There(p) /\ plan'[p].event = plan[p].event

LEMMA PlaceFactStays ==
    ASSUME NEW c, PlaceFact(c), contended \subseteq contended',
           c.kind \in PlaceKinds /\ status[c.event] # "none" =>
               /\ status'[c.event] # "none"
               /\ c.event \notin contended' => status'[c.event] = status[c.event],
           \A p \in Places : PlaceGoes(p),
           c.kind = "createPlace" => plan'[c.place].state = "unused"
    PROVE  PlaceFact(c)'
  <1> SUFFICES ASSUME c.kind \in PlaceKinds PROVE PlaceFact(c)'
    BY DEF PlaceFact
  <1>1. c.place \in Places /\ (c.zone # Nowhere => c.zone \in Places)
    BY DEF PlaceFact, Places
  <1>2. CASE c.kind = "createPlace"
    BY <1>1, <1>2 DEF PlaceFact, PlaceGoes, There
  <1>3. CASE c.kind # "createPlace"
    BY <1>1, <1>3 DEF PlaceFact, PlaceGoes, There
  <1> QED
    BY <1>2, <1>3

LEMMA PlaceFactSame ==
    ASSUME NEW c, PlaceFact(c), contended \subseteq contended', UNCHANGED <<eventVars, plan>>
    PROVE  PlaceFact(c)'
  <1>1. \A p \in Places : PlaceGoes(p)
    BY DEF PlaceGoes, There
  <1> QED
    BY <1>1, PlaceFactStays DEF PlaceFact, eventVars

\* Nothing is written; a call about a place begins or goes on at most.
LEMMA PlaceInvStays ==
    ASSUME PlaceInv, contended \subseteq contended', UNCHANGED <<eventVars, plan>>, PlacesApart',
           \A t \in Slots : Busy(t)' /\ doing'[t].kind \in PlaceKinds =>
               (Busy(t) /\ doing'[t] = doing[t]) \/ PlaceFact(doing[t])'
    PROVE  PlaceInv'
  <1>1. ASSUME NEW t \in Slots, Busy(t)' PROVE PlaceFact(doing[t])'
    <2>1. CASE doing'[t].kind \notin PlaceKinds
      BY <2>1 DEF PlaceFact
    <2>2. CASE Busy(t) /\ doing'[t] = doing[t]
      BY <2>2, PlaceFactSame DEF PlaceInv
    <2> QED
      BY <1>1, <2>1, <2>2
  <1>2. PlanTyped' /\ PlanIsSound'
    BY DEF PlaceInv, PlanTyped, PlanIsSound, There, Live, eventVars
  <1> QED
    BY <1>1, <1>2 DEF PlaceInv

\* What dropping places leaves is as sound as it was.
LEMMA DropKeepsRows ==
    ASSUME PlanTyped, PlanIsSound, NEW gone \in SUBSET Places, DropPlaces(gone),
           \A e \in Events : Live(e) => Live(e)' \/ \A p \in Places : There(p) /\ plan[p].event = e => p \in gone
    PROVE  /\ PlanTyped' /\ PlanIsSound'
           /\ \A p \in Places : /\ p \in gone => plan'[p] = Blank("gone")
                                /\ p \notin gone =>
                                      /\ plan'[p].state = plan[p].state /\ plan'[p].event = plan[p].event
                                      /\ plan'[p].name = plan[p].name
                                      /\ plan[p].zone \notin gone => plan'[p] = plan[p]
  <1> USE PlaceConstants
  <1>1. ASSUME NEW p \in Places
        PROVE  /\ p \in gone => plan'[p] = Blank("gone")
               /\ p \notin gone =>
                     /\ plan'[p].state = plan[p].state /\ plan'[p].event = plan[p].event
                     /\ plan'[p].name = plan[p].name /\ plan'[p].rev = plan[p].rev
                     /\ plan[p].zone \notin gone => plan'[p] = plan[p]
                     /\ plan[p].zone \in gone => plan'[p].zone = Nowhere
                     /\ plan'[p] \in PlaceRow
    <2>1. plan[p] \in PlaceRow
      BY DEF PlanTyped
    <2>2. plan'[p] = IF p \in gone THEN Blank("gone") ELSE Unzoned(gone, p)
      BY DEF DropPlaces
    <2> QED
      BY <2>1, <2>2 DEF Unzoned, PlaceRow
  <1>2. Blank("gone") \in PlaceRow /\ Blank("gone").state = "gone" /\ Blank("gone").event = Nowhere
        /\ Blank("gone").zone = Nowhere
    BY DEF Blank, PlaceRow
  <1>3. plan' \in [Places -> PlaceRow]
    BY <1>1, <1>2 DEF DropPlaces
  <1>4. \A p \in Places : There(p)' => There(p) /\ p \notin gone
    BY <1>1, <1>2 DEF There
  <1>5. PlanTyped'
    BY <1>1, <1>2, <1>3, <1>4 DEF PlanTyped, There
  <1>6. PlanIsSound'
    <2>1. ASSUME NEW p \in Places, plan'[p].zone # Nowhere
          PROVE  p \in Tasks /\ There(plan[p].zone)' /\ plan'[plan'[p].zone].event = plan'[p].event
                 /\ plan'[p].zone = plan[p].zone
      <3>1. p \notin gone /\ plan[p].zone \notin gone /\ plan'[p] = plan[p]
        BY <1>1, <1>2, <2>1
      <3>2. plan[p].zone \in Places
        BY <2>1, <3>1 DEF PlanTyped, PlaceRow, Places
      <3> QED
        BY <1>1, <2>1, <3>1, <3>2 DEF PlanIsSound, There
    <2>2. ASSUME NEW p \in Places, NEW q \in Places, There(p)', There(q)', plan'[p].event = plan'[q].event,
                 plan'[p].name = plan'[q].name, (p \in Zones) = (q \in Zones)
          PROVE  p = q
      BY <1>1, <1>4, <2>2 DEF PlanIsSound
    <2> QED
      BY <2>1, <2>2 DEF PlanIsSound, There
  <1> QED
    BY <1>1, <1>5, <1>6

\* A call about a place that begins or goes on knows what it should.
LEMMA PlaceBegins ==
    ASSUME RosterInv, PlaceInv, NEW s \in Slots, NEW c, Begin(s, c), PlaceFact(c),
           c.kind \in PlaceKinds, c.kind = "createPlace" => c.place \notin Taken,
           UNCHANGED <<eventVars, plan>>
    PROVE  PlaceInv' /\ Handles(s, PlaceKinds)
  <1>1. Handles(s, PlaceKinds) /\ doing'[s] = c /\ ~Busy(s)
    BY BeginMoves DEF RosterInv, SlotsShaped
  <1>2. \A t \in Slots : t # s /\ Busy(t)' => Busy(t) /\ doing'[t] = doing[t]
    BY <1>1 DEF Handles, Busy
  <1>3. contended \subseteq contended'
    BY <1>1 DEF Handles
  <1>4. PlaceFact(doing[s])'
    BY <1>1, <1>3, PlaceFactSame
  <1>5. PlacesApart'
    <2>1. ASSUME NEW t \in Slots, t # s, Busy(t), doing[t].kind = "createPlace", c.kind = "createPlace"
          PROVE  doing[t].place # c.place
      BY <2>1 DEF PlaceInv, PlaceFact, PlaceKinds, Taken, Busy
    <2> QED
      BY <1>1, <1>2, <2>1 DEF PlaceInv, PlacesApart
  <1> QED
    BY <1>1, <1>2, <1>3, <1>4, <1>5, PlaceInvStays

LEMMA PlaceGoesOn ==
    ASSUME RosterInv, PlaceInv, NEW s \in Slots, NEW test, NEW p, Pass(s, test, p),
           Busy(s), doing[s].kind \in PlaceKinds, UNCHANGED <<eventVars, plan>>,
           test => PlaceFact([doing[s] EXCEPT !.at = p])
    PROVE  PlaceInv' /\ Handles(s, PlaceKinds)
  <1> DEFINE c == doing[s]
  <1>1. IsCall(c) /\ {"place"} \subseteq DOMAIN c
    BY DEF PlaceInv, PlaceFact
  <1>2. Handles(s, PlaceKinds) /\ (Busy(s)' => test /\ doing'[s] = [doing[s] EXCEPT !.at = p])
    BY <1>1, PassMoves DEF RosterInv, SlotsShaped
  <1>3. \A t \in Slots : t # s /\ Busy(t)' => Busy(t) /\ doing'[t] = doing[t]
    BY <1>2 DEF Handles, Busy
  <1>4. contended \subseteq contended'
    BY <1>2 DEF Handles
  <1>5. Busy(s)' => doing'[s].kind = c.kind /\ doing'[s].place = c.place
    BY <1>1, <1>2 DEF IsCall
  <1>6. PlacesApart'
    BY <1>3, <1>5 DEF PlaceInv, PlacesApart
  <1>7. Busy(s)' => PlaceFact(doing[s])'
    BY <1>2, <1>4, PlaceFactSame
  <1> QED
    BY <1>2, <1>3, <1>4, <1>6, <1>7, PlaceInvStays

LEMMA PlaceAsks ==
    ASSUME RosterInv, PlaceInv, NEW s \in Slots, UNCHANGED eventVars, AskPlace(s)
    PROVE  PlaceInv' /\ Handles(s, PlaceKinds)
  <1> USE PlaceConstants DEF PlaceKinds
  <1>1. PICK p \in Places : \E c \in PlaceCalls(p) :
           /\ c.kind = "removePlace" => c.name = Nowhere
           /\ Begin(s, c)
    BY DEF AskPlace
  <1>2. PICK c \in PlaceCalls(p) : (c.kind = "removePlace" => c.name = Nowhere) /\ Begin(s, c)
    BY <1>1
  <1>3. ASSUME NEW e \in Events, NEW n \in PlaceNames, NEW z \in Zones \cup {Nowhere},
               plan[p].state = "unused", p \notin Taken, z # Nowhere => p \in Tasks,
               c = PlaceCall("createPlace", p, e, n, z)
        PROVE  PlaceFact(c) /\ c.kind \in PlaceKinds /\ (c.kind = "createPlace" => c.place \notin Taken)
    BY <1>3 DEF PlaceFact, PlaceCall, IsCall
  <1>4. ASSUME NEW k \in {"updatePlace", "removePlace"}, NEW n \in PlaceNames \cup {Nowhere}, There(p),
               c = PlaceCall(k, p, plan[p].event, n, Nowhere)
        PROVE  PlaceFact(c) /\ c.kind \in PlaceKinds /\ (c.kind = "createPlace" => c.place \notin Taken)
    BY <1>4 DEF PlaceFact, PlaceCall, IsCall, There, PlaceInv, PlanTyped
  <1>5. PlaceFact(c) /\ c.kind \in PlaceKinds /\ (c.kind = "createPlace" => c.place \notin Taken)
    <2>1. CASE c \in {PlaceCall("createPlace", p, e, n, z) :
                      e \in {f \in Events : plan[p].state = "unused" /\ p \notin Taken}, n \in PlaceNames,
                      z \in IF p \in Tasks THEN Zones \cup {Nowhere} ELSE {Nowhere}}
      BY <1>3, <2>1
    <2>2. CASE c \in {PlaceCall(k, p, plan[p].event, n, Nowhere) :
                      k \in {l \in {"updatePlace", "removePlace"} : There(p)},
                      n \in PlaceNames \cup {Nowhere}}
      BY <1>4, <2>2
    <2> QED
      BY <2>1, <2>2 DEF PlaceCalls
  <1> HIDE DEF PlaceKinds
  <1> QED
    BY <1>2, <1>5, PlaceBegins DEF AskPlace

\* The checks, one after the other.
LEMMA PlaceChecks ==
    ASSUME RosterInv, PlaceInv, NEW s \in Slots, UNCHANGED eventVars,
           CheckPhase(s) \/ CheckName(s) \/ CheckZone(s),
           Busy(s) /\ doing[s].at = "name" => doing[s].kind \in PlaceKinds
    PROVE  PlaceInv' /\ Handles(s, PlaceKinds)
  <1> DEFINE c == doing[s]
  <1>0. /\ Busy(s) /\ c.kind \in PlaceKinds /\ PlaceFact(c) /\ UNCHANGED plan
        /\ IsCall(c) /\ {"place", "event", "name", "zone"} \subseteq DOMAIN c
    BY DEF CheckPhase, CheckName, CheckZone, At, Busy, PlaceKinds, PlaceInv, PlaceFact
  <1>1. ASSUME NEW p \in {"name", "zone", "writing"},
               status[c.event] # "none",
               c.event \notin contended => status[c.event] \in Onto(c.kind),
               c.kind = "createPlace" /\ c.zone # Nowhere /\ p = "writing" =>
                   There(c.zone) /\ plan[c.zone].event = c.event
        PROVE  PlaceFact([c EXCEPT !.at = p])
    <2> DEFINE d == [c EXCEPT !.at = p]
    <2>1. /\ IsCall(d) /\ DOMAIN d = DOMAIN c /\ d.at = p /\ d.kind = c.kind /\ d.place = c.place
          /\ d.event = c.event /\ d.name = c.name /\ d.zone = c.zone
          /\ d.about = c.about /\ d.heeds = c.heeds
      BY <1>0, GoesKeeps DEF IsCall
    <2> SUFFICES PlaceFact(d)
      OBVIOUS
    <2> HIDE DEF d
    <2> QED
      BY <1>0, <1>1, <2>1 DEF PlaceFact, There
  <1>2. CASE CheckPhase(s)
    <2>1. PICK p \in {"name", "writing"} :
             /\ Pass(s, PhaseAllows(c), p)
             /\ p = (IF c.name # Nowhere THEN "name" ELSE "writing")
      BY <1>2 DEF CheckPhase
    <2>2. c.kind = "createPlace" => c.name # Nowhere
      BY <1>0, PlaceConstants DEF PlaceFact
    <2>3. PhaseAllows(c) => status[c.event] # "none" /\ status[c.event] \in Onto(c.kind)
      BY DEF PhaseAllows, Onto
    <2>4. PhaseAllows(c) => PlaceFact([c EXCEPT !.at = p])
      BY <1>1, <2>1, <2>2, <2>3
    <2> QED
      BY <1>0, <2>1, <2>4, PlaceGoesOn
  <1>3. CASE CheckName(s)
    <2> DEFINE test == Named(c.name, c.event, c.place) \subseteq
                          IF c.kind = "createPlace" THEN {} ELSE {c.place}
    <2>1. PICK p \in {"zone", "writing"} :
             /\ Pass(s, test, p)
             /\ p = (IF c.zone # Nowhere THEN "zone" ELSE "writing")
      BY <1>3 DEF CheckName
    <2>2. c.at = "name"
      BY <1>3 DEF CheckName
    <2>3. PlaceFact([c EXCEPT !.at = p])
      BY <1>0, <1>1, <2>1, <2>2 DEF PlaceFact
    <2> HIDE DEF test
    <2> QED
      BY <1>0, <2>1, <2>3, PlaceGoesOn
  <1>4. CASE CheckZone(s)
    <2> DEFINE test == There(c.zone) /\ plan[c.zone].event = c.event
    <2>1. c.at = "zone" /\ Pass(s, test, "writing")
      BY <1>4 DEF CheckZone, At
    <2>2. test => PlaceFact([c EXCEPT !.at = "writing"])
      BY <1>0, <1>1, <2>1 DEF PlaceFact
    <2> HIDE DEF test
    <2> QED
      BY <1>0, <2>1, <2>2, PlaceGoesOn
  <1> QED
    BY <1>2, <1>3, <1>4

\* What a write does to the rows, and whose place it is about.
LEMMA PlaceWritten ==
    ASSUME PlaceInv, NEW s \in Slots, UNCHANGED eventVars, WritePlace(s), plan' # plan
    PROVE  /\ PlanTyped' /\ PlanIsSound' /\ \A p \in Places : PlaceGoes(p)
           /\ \A p \in Places : plan[p].state = "unused" /\ plan'[p].state # "unused" =>
                 doing[s].kind = "createPlace" /\ doing[s].place = p
           /\ doing[s].kind = "createPlace" =>
                 /\ plan'[doing[s].place].event = doing[s].event
                 /\ \A p \in Places \ {doing[s].place} : plan'[p] = plan[p]
           /\ doing[s].kind = "updatePlace" =>
                 /\ plan'[doing[s].place].event = doing[s].event
                 /\ plan[doing[s].place].event = doing[s].event
                 /\ plan'[doing[s].place].zone = plan[doing[s].place].zone
                 /\ plan'[doing[s].place].state = "there"
                 /\ \A p \in Places \ {doing[s].place} : plan'[p] = plan[p]
           /\ doing[s].kind = "removePlace" =>
                 /\ plan'[doing[s].place].event = Nowhere
                 /\ plan[doing[s].place].event = doing[s].event
                 /\ \A p \in Places \ {doing[s].place} :
                       /\ plan'[p].event = plan[p].event
                       /\ plan[p].event = doing[s].event \/ plan'[p] = plan[p]
  <1> USE PlaceConstants
  <1> DEFINE c == doing[s]
             p == c.place
  <1>0. /\ Busy(s) /\ c.kind \in PlaceKinds /\ c.at = "writing" /\ PlaceFact(c)
        /\ p \in Places /\ c.event \in Events
    BY DEF WritePlace, At, Busy, PlaceKinds, PlaceInv, PlaceFact
  <1>1. ~WriteFails(c)
    BY DEF WritePlace
  <1>2. plan \in [Places -> PlaceRow] /\ PlanTyped /\ PlanIsSound
    BY DEF PlaceInv, PlanTyped
  <1>3. CASE c.kind = "createPlace"
    <2> DEFINE new == [state |-> "there", event |-> c.event, name |-> c.name, zone |-> c.zone, rev |-> 0]
    <2>1. plan' = [plan EXCEPT ![p] = new]
      BY <1>1, <1>3 DEF WritePlace
    <2>2. /\ new \in PlaceRow /\ Live(c.event) /\ c.name \in PlaceNames /\ plan[p].state = "unused"
          /\ c.zone # Nowhere => p \in Tasks /\ There(c.zone) /\ plan[c.zone].event = c.event /\ c.zone \in Places
          /\ Named(c.name, c.event, p) \ {p} = {}
      BY <1>0, <1>1, <1>3 DEF PlaceFact, PlaceRow, WriteFails, Live, There, Places
    <2> DEFINE row == plan'[p]
    <2>3. /\ row \in PlaceRow /\ row.state = "there" /\ row.event = c.event /\ row.name = c.name
          /\ row.zone = c.zone
          /\ \A q \in Places \ {p} : plan'[q] = plan[q]
          /\ plan' \in [Places -> PlaceRow]
      BY <1>0, <1>2, <2>1, <2>2
    <2>4. PlanTyped'
      BY <1>0, <1>2, <2>2, <2>3 DEF PlanTyped, There, Live, eventVars
    <2>5. ASSUME NEW q \in Places, plan'[q].zone # Nowhere
          PROVE  q \in Tasks /\ There(plan[q].zone)' /\ plan'[plan'[q].zone].event = plan'[q].event
      <3>1. CASE q = p
        <4>1. c.zone # p
          BY <2>2, <2>3, <2>5, <3>1 DEF There
        <4> QED
          BY <2>2, <2>3, <2>5, <3>1, <4>1 DEF There
      <3>2. CASE q # p
        <4>1. plan'[q] = plan[q] /\ There(plan[q].zone) /\ q \in Tasks
              /\ plan[plan[q].zone].event = plan[q].event
          BY <1>2, <2>3, <2>5, <3>2 DEF PlanIsSound
        <4>2. plan[q].zone \in Places \ {p}
          BY <1>2, <2>2, <2>5, <4>1 DEF There, PlaceRow, Places
        <4> QED
          BY <2>3, <4>1, <4>2 DEF There
      <3> QED
        BY <3>1, <3>2
    <2>6. ASSUME NEW q \in Places, NEW r \in Places, There(q)', There(r)', plan'[q].event = plan'[r].event,
                 plan'[q].name = plan'[r].name, (q \in Zones) = (r \in Zones)
          PROVE  q = r
      <3>1. ASSUME NEW x \in Places, x # p, There(x)', plan'[x].event = c.event,
                   plan'[x].name = c.name, (x \in Zones) = (p \in Zones)
            PROVE  FALSE
        BY <2>2, <2>3, <3>1 DEF Named, There
      <3> QED
        BY <1>2, <2>3, <2>6, <3>1 DEF PlanIsSound, There
    <2>7. PlanIsSound'
      BY <2>5, <2>6 DEF PlanIsSound, There
    <2>8. \A q \in Places : PlaceGoes(q)
      BY <2>2, <2>3 DEF PlaceGoes, There
    <2> HIDE DEF new
    <2> QED
      BY <1>0, <1>3, <2>2, <2>3, <2>4, <2>7, <2>8
  <1>4. CASE c.kind = "updatePlace"
    <2> DEFINE new == [plan[p] EXCEPT !.name = IF c.name = Nowhere THEN @ ELSE c.name, !.rev = 1 - @]
    <2>1. plan' = [plan EXCEPT ![p] = new]
      <3>1. plan' = [plan EXCEPT ![p].name = IF c.name = Nowhere THEN @ ELSE c.name, ![p].rev = 1 - @]
        BY <1>1, <1>4 DEF WritePlace
      <3> QED
        BY <1>0, <1>2, <3>1 DEF PlaceRow
    <2>2. /\ There(p) /\ plan[p].event = c.event /\ plan[p] \in PlaceRow
          /\ c.name # Nowhere => c.name \in PlaceNames /\ Named(c.name, c.event, p) \ {p} = {}
      BY <1>0, <1>1, <1>2, <1>4 DEF PlaceFact, WriteFails
    <2>3. /\ new.state = "there" /\ new.event = c.event /\ new.zone = plan[p].zone
          /\ new.name = IF c.name = Nowhere THEN plan[p].name ELSE c.name
      BY <2>2 DEF PlaceRow, There
    <2>4. new \in PlaceRow
      <3>1. 1 - plan[p].rev \in {0, 1}
        BY <2>2 DEF PlaceRow
      <3> QED
        BY <2>2, <2>3, <3>1 DEF PlaceRow
    <2> HIDE DEF new
    <2>5. /\ plan'[p] = new /\ \A q \in Places \ {p} : plan'[q] = plan[q]
          /\ plan' \in [Places -> PlaceRow]
      BY <1>0, <1>2, <2>1, <2>4
    <2>6. \A q \in Places : /\ There(q)' = There(q) /\ plan'[q].event = plan[q].event
                            /\ plan'[q].zone = plan[q].zone
      BY <2>2, <2>3, <2>5 DEF There
    <2>7. PlanTyped'
      BY <1>0, <1>2, <2>2, <2>3, <2>5, <2>6 DEF PlanTyped, There, Live, eventVars
    <2>8. ASSUME NEW q \in Places, plan'[q].zone # Nowhere
          PROVE  q \in Tasks /\ There(plan[q].zone)' /\ plan'[plan'[q].zone].event = plan'[q].event
      <3>1. plan'[q].zone = plan[q].zone /\ plan[q].zone \in Places
        BY <1>2, <2>6, <2>8 DEF PlaceRow, Places
      <3> QED
        BY <1>2, <2>6, <2>8, <3>1 DEF PlanIsSound, There
    <2>9. ASSUME NEW q \in Places, NEW r \in Places, There(q)', There(r)', plan'[q].event = plan'[r].event,
                 plan'[q].name = plan'[r].name, (q \in Zones) = (r \in Zones)
          PROVE  q = r
      <3>1. CASE c.name = Nowhere
        <4>1. \A x \in Places : plan'[x].name = plan[x].name
          BY <2>3, <2>5, <3>1
        <4> QED
          BY <1>2, <2>6, <2>9, <4>1 DEF PlanIsSound
      <3>2. CASE c.name # Nowhere
        <4>1. ASSUME NEW x \in Places, x # p, There(x)', plan'[x].event = c.event,
                     plan'[x].name = c.name, (x \in Zones) = (p \in Zones)
              PROVE  FALSE
          BY <2>2, <2>5, <3>2, <4>1 DEF Named, There
        <4> QED
          BY <1>2, <2>3, <2>5, <2>6, <2>9, <3>2, <4>1 DEF PlanIsSound
      <3> QED
        BY <3>1, <3>2
    <2>10. PlanIsSound'
      BY <2>8, <2>9 DEF PlanIsSound, There
    <2>11. \A q \in Places : PlaceGoes(q)
      BY <2>2, <2>3, <2>5, <2>6 DEF PlaceGoes, There
    <2>12. \A q \in Places : ~(plan[q].state = "unused" /\ plan'[q].state # "unused")
      BY <2>2, <2>5 DEF There
    <2> QED
      BY <1>0, <1>4, <2>2, <2>3, <2>5, <2>6, <2>7, <2>10, <2>11, <2>12
  <1>5. CASE c.kind = "removePlace"
    <2>1. DropPlaces({p}) /\ {p} \in SUBSET Places
      BY <1>0, <1>1, <1>5 DEF WritePlace
    <2>2. There(p) /\ plan[p].event = c.event
      BY <1>0, <1>1, <1>5 DEF PlaceFact, WriteFails
    <2>3. \A e \in Events : Live(e) => Live(e)'
      BY DEF Live, eventVars
    <2>4. /\ PlanTyped' /\ PlanIsSound'
          /\ \A q \in Places : /\ q \in {p} => plan'[q] = Blank("gone")
                               /\ q \notin {p} => /\ plan'[q].state = plan[q].state
                                                  /\ plan'[q].event = plan[q].event
                                                  /\ plan[q].zone \notin {p} => plan'[q] = plan[q]
      BY <1>2, <2>1, <2>3, DropKeepsRows
    <2>5. Blank("gone").state = "gone" /\ Blank("gone").event = Nowhere
      BY DEF Blank
    <2>6. \A q \in Places : PlaceGoes(q)
      BY <2>2, <2>4, <2>5 DEF PlaceGoes, There
    <2>7. \A q \in Places : ~(plan[q].state = "unused" /\ plan'[q].state # "unused")
      BY <2>2, <2>4 DEF There
    <2>8. \A q \in Places \ {p} : plan[q].zone = p => plan[q].event = c.event
      BY <1>0, <1>2, <2>2 DEF PlanIsSound, Places
    <2> QED
      BY <1>0, <1>5, <2>2, <2>4, <2>5, <2>6, <2>7, <2>8
  <1> QED
    BY <1>0, <1>3, <1>4, <1>5 DEF PlaceKinds

LEMMA PlaceWrites ==
    ASSUME RosterInv, PlaceInv, NEW s \in Slots, UNCHANGED eventVars, WritePlace(s)
    PROVE  PlaceInv' /\ Handles(s, PlaceKinds)
  <1>0. Busy(s) /\ doing[s].kind \in PlaceKinds /\ Leave(s) /\ contended' = contended
    BY DEF WritePlace, At, Busy, PlaceKinds
  <1>1. Handles(s, PlaceKinds) /\ ~Busy(s)'
    BY <1>0, LeaveMoves DEF RosterInv, SlotsShaped
  <1>2. \A t \in Slots : Busy(t)' => t # s /\ Busy(t) /\ doing'[t] = doing[t]
    BY <1>1 DEF Handles, Busy
  <1>3. PlacesApart'
    BY <1>2 DEF PlaceInv, PlacesApart
  <1>4. CASE UNCHANGED plan
    BY <1>0, <1>1, <1>2, <1>3, <1>4, PlaceInvStays
  <1>5. CASE plan' # plan
    <2>1. ASSUME NEW t \in Slots, Busy(t)' PROVE PlaceFact(doing[t])'
      <3> DEFINE c == doing[t]
      <3>1. t # s /\ Busy(t) /\ doing'[t] = c /\ PlaceFact(c)
        BY <1>2, <2>1 DEF PlaceInv
      <3>2. c.kind = "createPlace" => plan'[c.place].state = "unused"
        BY <1>0, <1>5, <3>1, PlaceWritten DEF PlaceFact, PlaceKinds, PlaceInv, PlacesApart
      <3>3. \A p \in Places : PlaceGoes(p)
        BY <1>5, PlaceWritten
      <3>4. ASSUME NEW d, d = c PROVE PlaceFact(d)'
        BY <1>0, <3>1, <3>2, <3>3, <3>4, PlaceFactStays DEF eventVars
      <3> QED
        BY <3>1, <3>4
    <2> QED
      BY <1>1, <1>3, <1>5, <2>1, PlaceWritten DEF PlaceInv
  <1> QED
    BY <1>1, <1>4, <1>5

LEMMA PlaceInvNext ==
    ASSUME RosterInv, PlaceInv, NEW s \in Slots, PlaceStep(s),
           Busy(s) /\ doing[s].at = "name" => doing[s].kind \in PlaceKinds
    PROVE  PlaceInv' /\ Handles(s, PlaceKinds)
  BY PlaceAsks, PlaceChecks, PlaceWrites DEF PlaceStep

\* The places go with their event.
LEMMA CascadeKeepsRows ==
    ASSUME RosterInv, [RosterNext]_vars, PlaceCascade, PlaceInv
    PROVE  /\ PlanTyped' /\ PlanIsSound'
           /\ \A p \in Places : \/ plan'[p] = plan[p]
                                \/ There(p) /\ plan'[p] = Blank("gone") /\ status'[plan[p].event] = "deleted"
  <1> DEFINE gone == {p \in Places : There(p) /\ status'[plan[p].event] = "deleted"}
  <1>1. DropPlaces(gone) /\ gone \in SUBSET Places
    BY DEF PlaceCascade
  <1>2. PlanTyped /\ PlanIsSound
    BY DEF PlaceInv
  <1>3. \A e \in Events : Live(e) => Live(e)' \/ \A p \in Places : There(p) /\ plan[p].event = e => p \in gone
    <2>1. \A e \in Events : Live(e) => status'[e] # "none"
      BY RosterGrows DEF Live
    <2> QED
      BY <2>1 DEF Live
  <1>4. \A p \in Places \ gone : plan[p].zone \notin gone
    <2> SUFFICES ASSUME NEW p \in Places \ gone, plan[p].zone \in gone PROVE FALSE
      OBVIOUS
    <2>1. plan[p].zone # Nowhere
      BY PlaceConstants
    <2>2. plan[plan[p].zone].event = plan[p].event
      BY <1>2, <2>1 DEF PlanIsSound
    <2>3. There(p)
      BY <1>2, <2>1 DEF PlanTyped
    <2> QED
      BY <2>2, <2>3
  <1>5. /\ PlanTyped' /\ PlanIsSound'
        /\ \A p \in Places : /\ p \in gone => plan'[p] = Blank("gone")
                             /\ p \notin gone => plan'[p] = plan[p]
    <2> HIDE DEF gone
    <2> QED
      BY <1>1, <1>2, <1>3, <1>4, DropKeepsRows
  <1> QED
    BY <1>5

LEMMA PlaceInvRoster ==
    ASSUME RosterInv, [RosterNext]_vars, PlaceCascade, PlaceInv
    PROVE  PlaceInv'
  <1>1. /\ Spares(PlaceKinds) /\ contended \subseteq contended'
        /\ \A t \in Slots : Busy(t)' /\ doing'[t].kind \in PlaceKinds =>
              \A x \in doing[t].heeds : x \in Events /\ status[x] # "none" =>
                  /\ status'[x] # "none"
                  /\ x \notin contended' => status'[x] = status[x]
    <2>1. PlaceKinds \cap RosterKinds = {}
      BY DEF PlaceKinds
    <2> QED
      BY <2>1, RosterSpares, RosterGrows DEF Spares
  <1>2. /\ PlanTyped' /\ PlanIsSound'
        /\ \A p \in Places : plan'[p] = plan[p] \/ (There(p) /\ plan'[p] = Blank("gone"))
    BY CascadeKeepsRows
  <1>3. \A p \in Places : PlaceGoes(p)
    BY <1>2 DEF PlaceGoes, Blank, There
  <1>4. ASSUME NEW t \in Slots, Busy(t)', doing'[t].kind \in PlaceKinds
        PROVE  Busy(t) /\ doing'[t] = doing[t] /\ PlaceFact(doing[t])
    BY <1>1, <1>4 DEF Spares, Busy, PlaceInv
  <1>5. ASSUME NEW t \in Slots, Busy(t)' PROVE PlaceFact(doing[t])'
    <2>1. CASE doing'[t].kind \notin PlaceKinds
      BY <2>1 DEF PlaceFact
    <2>2. CASE doing'[t].kind \in PlaceKinds
      <3> DEFINE c == doing[t]
      <3>1. doing'[t] = c /\ PlaceFact(c)
        BY <1>4, <1>5, <2>2
      <3>2. c.kind = "createPlace" => plan'[c.place].state = "unused"
        BY <1>2, <2>2, <3>1 DEF PlaceFact, There
      <3>3. status[c.event] # "none" =>
               /\ status'[c.event] # "none"
               /\ c.event \notin contended' => status'[c.event] = status[c.event]
        BY <1>1, <1>5, <2>2, <3>1 DEF PlaceFact
      <3>4. ASSUME NEW d, d = c PROVE PlaceFact(d)'
        BY <1>1, <1>3, <3>1, <3>2, <3>3, <3>4, PlaceFactStays
      <3> QED
        BY <3>1, <3>4
    <2> QED
      BY <2>1, <2>2
  <1>6. PlacesApart'
    BY <1>4 DEF PlacesApart, PlaceInv, PlaceKinds
  <1> QED
    BY <1>2, <1>5, <1>6 DEF PlaceInv

\* The ground of an event that is over or under way, through a step of a call
\* about a place,
LEMMA GroundStep ==
    ASSUME PlaceInv, NEW s \in Slots, PlaceStep(s), NEW e \in Events \ contended
    PROVE  /\ status[e] = "ENDED" => Ground(e)' = Ground(e)
           /\ status[e] = "ACTIVE" =>
                 \A p \in {q \in Places : plan[q].event = e} :
                     There(p)' /\ plan'[p].zone = plan[p].zone
  <1> USE PlaceConstants
  <1> DEFINE c == doing[s]
  <1>1. CASE UNCHANGED plan
    BY <1>1 DEF Ground, There, PlaceInv, PlanTyped
  <1>2. CASE plan' # plan
    <2>1. WritePlace(s) /\ UNCHANGED eventVars
      BY <1>2 DEF PlaceStep, AskPlace, CheckPhase, CheckName, CheckZone
    <2>2. Busy(s) /\ c.kind \in PlaceKinds /\ c.at = "writing" /\ PlaceFact(c)
      BY <2>1 DEF WritePlace, At, Busy, PlaceKinds, PlaceInv
    <2>3. /\ c.event # Nowhere /\ e # Nowhere /\ c.place \in Places
          /\ status[e] = "ENDED" => c.event # e
          /\ status[e] = "ACTIVE" /\ c.kind = "removePlace" => c.event # e
      BY <2>2 DEF PlaceFact, Onto
    <2>4. CASE c.event # e
      <3>1. \A p \in Places : /\ plan'[p].event = e <=> plan[p].event = e
                              /\ plan[p].event = e => plan'[p] = plan[p]
        <4>1. CASE c.kind = "createPlace"
          <5>1. plan[c.place].event # e
            BY <2>2, <2>3, <4>1 DEF PlaceFact, PlaceInv, PlanTyped, There
          <5> QED
            BY <1>2, <2>1, <2>3, <2>4, <4>1, <5>1, PlaceWritten
        <4>2. CASE c.kind = "updatePlace"
          BY <1>2, <2>1, <2>3, <2>4, <4>2, PlaceWritten
        <4>3. CASE c.kind = "removePlace"
          <5>1. plan'[c.place].event = Nowhere /\ plan[c.place].event = c.event
            BY <1>2, <2>1, <4>3, PlaceWritten
          <5>2. \A p \in Places \ {c.place} : /\ plan'[p].event = plan[p].event
                                              /\ plan[p].event = c.event \/ plan'[p] = plan[p]
            BY <1>2, <2>1, <4>3, PlaceWritten
          <5> QED
            BY <2>3, <2>4, <5>1, <5>2
        <4> QED
          BY <2>2, <4>1, <4>2, <4>3 DEF PlaceKinds
      <3>2. Ground(e)' = Ground(e)
        BY <3>1 DEF Ground
      <3> QED
        BY <2>3, <3>1, <3>2 DEF There, PlaceInv, PlanTyped
    <2>5. CASE c.event = e /\ status[e] = "ACTIVE" /\ c.kind \in {"createPlace", "updatePlace"}
      <3> SUFFICES ASSUME NEW p \in Places, plan[p].event = e
                   PROVE  plan'[p].state = "there" /\ plan'[p].zone = plan[p].zone
        BY <2>5 DEF There
      <3>1. There(p)
        BY <2>3 DEF PlaceInv, PlanTyped
      <3>2. CASE c.kind = "createPlace"
        <4>1. p # c.place
          BY <2>2, <3>1, <3>2 DEF PlaceFact, There
        <4> QED
          BY <1>2, <2>1, <3>1, <3>2, <4>1, PlaceWritten DEF There
      <3>3. CASE c.kind = "updatePlace"
        BY <1>2, <2>1, <3>1, <3>3, PlaceWritten DEF There
      <3> QED
        BY <2>5, <3>2, <3>3
    <2>6. CASE status[e] \notin {"ENDED", "ACTIVE"}
      BY <2>6
    <2> QED
      BY <2>2, <2>3, <2>4, <2>5, <2>6 DEF PlaceKinds
  <1> QED
    BY <1>1, <1>2

\* and through one of the roster.
LEMMA GroundSurvivesCascade ==
    ASSUME RosterInv, RosterNext, PlaceCascade, PlaceInv, NEW e \in Events \ contended
    PROVE  /\ status[e] = "ENDED" => Ground(e)' = Ground(e)
           /\ status[e] = "ACTIVE" =>
                 \A p \in {q \in Places : plan[q].event = e} :
                     There(p)' /\ plan'[p].zone = plan[p].zone
  <1> SUFFICES ASSUME status[e] \in {"ACTIVE", "ENDED"}
               PROVE  /\ Ground(e)' = Ground(e)
                      /\ \A p \in Places : plan[p].event = e =>
                            plan'[p].state = "there" /\ plan'[p].zone = plan[p].zone
    BY DEF There
  <1>1. status'[e] # "deleted"
    <2>1. /\ \A st : <<"ENDED", st>> \notin Moves
          /\ <<"ACTIVE", "deleted">> \notin Moves
      BY DEF Moves
    <2> QED
      BY <2>1, LifecycleStep
  <1>2. e # Nowhere
    BY PlaceConstants
  <1>3. \A p \in Places : \/ plan'[p] = plan[p]
                          \/ There(p) /\ plan'[p] = Blank("gone") /\ status'[plan[p].event] = "deleted"
    BY CascadeKeepsRows
  <1>4. \A p \in Places : /\ plan'[p].event = e <=> plan[p].event = e
                          /\ plan[p].event = e => plan'[p] = plan[p]
    BY <1>1, <1>2, <1>3 DEF Blank
  <1>5. Ground(e)' = Ground(e)
    BY <1>4 DEF Ground
  <1> QED
    BY <1>2, <1>4, <1>5 DEF PlaceInv, PlanTyped, There

-----------------------------------------------------------------------------
(* Training *)

UnitKinds == {"createUnit", "updateUnit", "deleteUnit", "assign", "unassign"}
ClassKinds == {"createClass", "updateClass", "deleteClass"}
ExerciseKinds == {"createExercise", "updateExercise", "deleteExercise"}
LessonKinds == ClassKinds \cup ExerciseKinds
TrainingKinds == UnitKinds \cup LessonKinds
NewKinds == {"createUnit", "createClass", "createExercise"}

\* What a call about a unit or an assignment knows.
UnitFact(c) ==
    c.kind \in UnitKinds =>
        /\ IsCall(c) /\ {"unit", "with"} \subseteq DOMAIN c
        /\ c.at = "writing" /\ c.unit \in Units /\ c.heeds = {}
        /\ c.kind \in {"createUnit", "updateUnit", "deleteUnit"} => c.about = {c.unit}
        /\ c.kind \in {"createUnit", "updateUnit"} => c.with \in UnitNames
        /\ c.kind \in {"assign", "unassign"} => c.about = {<<c.unit, c.with>>} /\ c.with \in Instructors
        /\ c.kind = "createUnit" <=> unit[c.unit] = "unused"

\* What a call about a class or exercise knows: it belongs to the unit, the
\* caller was assigned to that, and the times are in order.
LessonFact(c) ==
    c.kind \in LessonKinds =>
        /\ IsCall(c)
        /\ {"actor", "unit", "of", "event", "starts", "ends", "lesson"} \subseteq DOMAIN c
        /\ c.at \in {"assoc", "drill", "saving"} /\ c.unit \in Units
        /\ c.about = {c.lesson} /\ c.heeds = {<<c.unit, c.actor>>}
        /\ unit[c.unit] # "unused"
        /\ c.at # "assoc" /\ UnitThere(c.unit) =>
              MayTeach(c.actor, c.unit) \/ <<c.unit, c.actor>> \in contended

ClassFact(c) ==
    c.kind \in ClassKinds =>
        /\ c.lesson \in Courses
        /\ c.kind = "createClass" =>
              /\ course[c.lesson].state = "unused" /\ InOrder(c.starts, c.ends)
              /\ c.starts \in Hours /\ c.ends \in Hours \cup {None}
        /\ c.kind # "createClass" =>
              /\ course[c.lesson].state # "unused"
              /\ CourseThere(c.lesson) => course[c.lesson].unit = c.unit
        /\ c.kind = "updateClass" =>
              /\ c.starts \in Hours \cup {Same} /\ c.ends \in Hours \cup {None, Same}
              /\ CourseThere(c.lesson) /\ c.lesson \notin contended =>
                    InOrder(Chosen(c.starts, course[c.lesson].starts),
                            Chosen(c.ends, course[c.lesson].ends))

ExerciseFact(c) ==
    c.kind \in ExerciseKinds =>
        /\ c.lesson \in Exercises /\ c.event \in Events \cup {None, Same}
        /\ c.kind = "createExercise" =>
              /\ exercise[c.lesson].state = "unused" /\ c.event \in Events \cup {None}
              /\ c.of \in Courses /\ course[c.of].state # "unused"
              /\ CourseThere(c.of) => course[c.of].unit = c.unit
        /\ c.kind # "createExercise" =>
              /\ exercise[c.lesson].state # "unused"
              /\ ExerciseThere(c.lesson) => course[exercise[c.lesson].course].unit = c.unit

TrainingFact(c) == UnitFact(c) /\ LessonFact(c) /\ ClassFact(c) /\ ExerciseFact(c)

RowStates == {"unused", "there", "gone"}
CourseRow ==
    [state : RowStates, unit : Units \cup {None}, starts : Hours \cup {0}, ends : Hours \cup {None}]
ExerciseRow == [state : RowStates, course : Courses \cup {None}, event : Events \cup {None}]

TrainingTyped ==
    /\ DOMAIN unit = Units /\ course \in [Courses -> CourseRow] /\ exercise \in [Exercises -> ExerciseRow]
    /\ \A a \in assigned : UnitThere(a[1]) /\ a \in Units \X Instructors
    /\ \A k \in Courses : CourseThere(k) => course[k].unit \in Units /\ UnitThere(course[k].unit)
    /\ \A x \in Exercises :
          /\ ExerciseThere(x) => exercise[x].course \in Courses /\ CourseThere(exercise[x].course)
          /\ ~ExerciseThere(x) => exercise[x] = NoExercise(exercise[x].state)
          /\ exercise[x].event # None => Live(exercise[x].event)

\* Nobody else creates the row.
TrainingApart ==
    \A s, t \in Slots : s # t /\ Busy(s) /\ Busy(t)
        /\ doing[s].kind \in NewKinds /\ doing[t].kind = doing[s].kind =>
            doing[s].about # doing[t].about

TrainingInv ==
    /\ \A s \in Slots : Busy(s) => TrainingFact(doing[s])
    /\ TrainingApart
    /\ TrainingTyped
    /\ ClassEndsAfterItStartsUnlessContended

\* Rows are created once, keep their parents, and are gone for good.
RowsGo ==
    /\ \A u \in Units : unit[u] # "unused" =>
          unit'[u] # "unused" /\ (UnitThere(u)' => UnitThere(u))
    /\ \A k \in Courses : course[k].state # "unused" =>
          /\ course'[k].state # "unused"
          /\ CourseThere(k)' => CourseThere(k) /\ course'[k].unit = course[k].unit
    /\ \A x \in Exercises : exercise[x].state # "unused" =>
          /\ exercise'[x].state # "unused"
          /\ ExerciseThere(x)' => ExerciseThere(x) /\ exercise'[x].course = exercise[x].course

\* The new row of a call is still its own,
StillNew(c) ==
    /\ c.kind = "createUnit" => unit'[c.unit] = "unused"
    /\ c.kind = "createClass" => course'[c.lesson].state = "unused"
    /\ c.kind = "createExercise" => exercise'[c.lesson].state = "unused"

\* and what it relies on has not changed behind its back.
StillSo(c) ==
    /\ c.kind \in LessonKinds /\ UnitThere(c.unit)' /\ MayTeach(c.actor, c.unit) =>
          MayTeach(c.actor, c.unit)' \/ <<c.unit, c.actor>> \in contended'
    /\ c.kind = "updateClass" /\ c.lesson \notin contended' /\ CourseThere(c.lesson)' =>
          course'[c.lesson].starts = course[c.lesson].starts /\ course'[c.lesson].ends = course[c.lesson].ends

LEMMA TrainingFactStays ==
    ASSUME NEW c, TrainingFact(c), TrainingTyped, TrainingTyped', contended \subseteq contended',
           RowsGo, StillNew(c), StillSo(c)
    PROVE  TrainingFact(c)'
  <1>1. UnitFact(c)'
    <2> SUFFICES ASSUME c.kind \in UnitKinds PROVE UnitFact(c)'
      BY DEF UnitFact
    <2>1. CASE c.kind = "createUnit"
      BY <2>1 DEF TrainingFact, UnitFact, StillNew
    <2>2. CASE c.kind # "createUnit"
      BY <2>2 DEF TrainingFact, UnitFact, RowsGo
    <2> QED
      BY <2>1, <2>2
  <1>2. LessonFact(c)'
    <2> SUFFICES ASSUME c.kind \in LessonKinds PROVE LessonFact(c)'
      BY DEF LessonFact
    <2>1. unit'[c.unit] # "unused" /\ (UnitThere(c.unit)' => UnitThere(c.unit)) /\ LessonFact(c)
      BY DEF TrainingFact, LessonFact, RowsGo
    <2> QED
      BY <2>1 DEF LessonFact, StillSo
  <1>3. ClassFact(c)'
    <2> SUFFICES ASSUME c.kind \in ClassKinds PROVE ClassFact(c)'
      BY DEF ClassFact
    <2>1. CASE c.kind = "createClass"
      BY <2>1 DEF TrainingFact, ClassFact, StillNew, InOrder
    <2>2. CASE c.kind # "createClass"
      <3>1. /\ course'[c.lesson].state # "unused"
            /\ CourseThere(c.lesson)' =>
                  CourseThere(c.lesson) /\ course'[c.lesson].unit = course[c.lesson].unit
        BY <2>2 DEF TrainingFact, ClassFact, RowsGo
      <3> QED
        BY <2>2, <3>1 DEF TrainingFact, ClassFact, StillSo, InOrder
    <2> QED
      BY <2>1, <2>2
  <1>4. ExerciseFact(c)'
    <2> SUFFICES ASSUME c.kind \in ExerciseKinds PROVE ExerciseFact(c)'
      BY DEF ExerciseFact
    <2>1. CASE c.kind = "createExercise"
      BY <2>1 DEF TrainingFact, ExerciseFact, StillNew, RowsGo
    <2>2. CASE c.kind # "createExercise"
      <3>1. /\ exercise'[c.lesson].state # "unused" /\ c.lesson \in Exercises
            /\ ExerciseThere(c.lesson)' =>
                  ExerciseThere(c.lesson) /\ exercise'[c.lesson].course = exercise[c.lesson].course
        BY <2>2 DEF TrainingFact, ExerciseFact, RowsGo
      <3> QED
        <4> SUFFICES ASSUME ExerciseThere(c.lesson)'
                     PROVE  course'[exercise'[c.lesson].course].unit = c.unit
          BY <2>2, <3>1 DEF TrainingFact, ExerciseFact
        <4> DEFINE k == exercise[c.lesson].course
        <4>1. k \in Courses /\ CourseThere(k) /\ course[k].unit = c.unit
          BY <2>2, <3>1 DEF TrainingFact, ExerciseFact, TrainingTyped
        <4>2. CourseThere(k)'
          BY <3>1 DEF TrainingTyped
        <4> QED
          BY <3>1, <4>1, <4>2 DEF RowsGo, CourseThere
    <2> QED
      BY <2>1, <2>2
  <1> QED
    BY <1>1, <1>2, <1>3, <1>4 DEF TrainingFact

LEMMA TrainingFactSame ==
    ASSUME NEW c, TrainingFact(c), TrainingTyped, contended \subseteq contended',
           UNCHANGED <<eventVars, trainingVars>>
    PROVE  TrainingFact(c)'
  <1>1. UNCHANGED <<unit, assigned, course, exercise, status>>
    BY DEF trainingVars, eventVars
  <1>2. TrainingTyped'
    BY <1>1 DEF TrainingTyped, UnitThere, CourseThere, ExerciseThere, Live
  <1>3. RowsGo
    BY <1>1 DEF RowsGo, UnitThere, CourseThere, ExerciseThere
  <1>4. StillNew(c)
    BY <1>1 DEF StillNew, TrainingFact, UnitFact, ClassFact, ExerciseFact, UnitKinds, ClassKinds, ExerciseKinds
  <1>5. StillSo(c)
    BY <1>1 DEF StillSo, MayTeach
  <1> QED
    BY <1>2, <1>3, <1>4, <1>5, TrainingFactStays

\* Nothing is written; a call of the training begins or goes on at most.
LEMMA TrainingInvStays ==
    ASSUME TrainingInv, contended \subseteq contended', UNCHANGED <<eventVars, trainingVars>>,
           TrainingApart',
           \A t \in Slots : Busy(t)' /\ doing'[t].kind \in TrainingKinds =>
               (Busy(t) /\ doing'[t] = doing[t]) \/ TrainingFact(doing[t])'
    PROVE  TrainingInv'
  <1>1. ASSUME NEW t \in Slots, Busy(t)' PROVE TrainingFact(doing[t])'
    <2>1. CASE doing'[t].kind \notin TrainingKinds
      BY <2>1 DEF TrainingFact, UnitFact, LessonFact, ClassFact, ExerciseFact, TrainingKinds, LessonKinds
    <2>2. CASE Busy(t) /\ doing'[t] = doing[t]
      BY <2>2, TrainingFactSame DEF TrainingInv
    <2> QED
      BY <1>1, <2>1, <2>2
  <1>2. TrainingTyped' /\ ClassEndsAfterItStartsUnlessContended'
    BY DEF TrainingInv, TrainingTyped, ClassEndsAfterItStartsUnlessContended, UnitThere, CourseThere,
           ExerciseThere, Live, eventVars, trainingVars
  <1> QED
    BY <1>1, <1>2 DEF TrainingInv

LEMMA TrainingBegins ==
    ASSUME RosterInv, TrainingInv, NEW s \in Slots, NEW c, Begin(s, c), TrainingFact(c),
           c.kind \in TrainingKinds,
           c.kind \in NewKinds => \E x : c.about = {x} /\ x \notin Taken,
           UNCHANGED <<eventVars, trainingVars>>
    PROVE  TrainingInv' /\ Handles(s, TrainingKinds)
  <1>1. Handles(s, TrainingKinds) /\ doing'[s] = c /\ ~Busy(s)
    BY BeginMoves DEF RosterInv, SlotsShaped
  <1>2. \A t \in Slots : t # s /\ Busy(t)' => Busy(t) /\ doing'[t] = doing[t]
    BY <1>1 DEF Handles, Busy
  <1>3. contended \subseteq contended'
    BY <1>1 DEF Handles
  <1>4. TrainingFact(doing[s])'
    BY <1>1, <1>3, TrainingFactSame DEF TrainingInv
  <1>5. TrainingApart'
    <2>1. ASSUME NEW t \in Slots, t # s, Busy(t), c.kind \in NewKinds
          PROVE  doing[t].about # c.about
      BY <2>1 DEF Taken, Busy
    <2> QED
      BY <1>1, <1>2, <2>1 DEF TrainingInv, TrainingApart
  <1> QED
    BY <1>1, <1>2, <1>3, <1>4, <1>5, TrainingInvStays

LEMMA TrainingGoesOn ==
    ASSUME RosterInv, TrainingInv, NEW s \in Slots, NEW test, NEW p, Pass(s, test, p),
           Busy(s), doing[s].kind \in TrainingKinds, UNCHANGED <<eventVars, trainingVars>>,
           test => TrainingFact([doing[s] EXCEPT !.at = p])
    PROVE  TrainingInv' /\ Handles(s, TrainingKinds)
  <1> DEFINE c == doing[s]
  <1>1. IsCall(c)
    BY DEF TrainingInv, TrainingFact, UnitFact, LessonFact, TrainingKinds
  <1>2. Handles(s, TrainingKinds) /\ (Busy(s)' => test /\ doing'[s] = [doing[s] EXCEPT !.at = p])
    BY <1>1, PassMoves DEF RosterInv, SlotsShaped
  <1>3. \A t \in Slots : t # s /\ Busy(t)' => Busy(t) /\ doing'[t] = doing[t]
    BY <1>2 DEF Handles, Busy
  <1>4. contended \subseteq contended'
    BY <1>2 DEF Handles
  <1>5. Busy(s)' => doing'[s].kind = c.kind /\ doing'[s].about = c.about
    BY <1>1, <1>2 DEF IsCall
  <1>6. TrainingApart'
    BY <1>3, <1>5 DEF TrainingInv, TrainingApart
  <1>7. Busy(s)' => TrainingFact(doing[s])'
    BY <1>2, <1>4, TrainingFactSame DEF TrainingInv
  <1> QED
    BY <1>2, <1>3, <1>4, <1>6, <1>7, TrainingInvStays

LEMMA UnitAsks ==
    ASSUME RosterInv, TrainingInv, NEW s \in Slots, UNCHANGED eventVars, AskUnit(s)
    PROVE  TrainingInv' /\ Handles(s, TrainingKinds)
  <1> DEFINE fits(c) == /\ TrainingFact(c) /\ c.kind \in TrainingKinds
                        /\ c.kind \in NewKinds => \E x : c.about = {x} /\ x \notin Taken
  <1>1. UNCHANGED trainingVars
    BY DEF AskUnit
  <1>2. ASSUME NEW k \in UnitKinds, NEW u \in Units, NEW x, NEW a,
               k \in {"createUnit", "updateUnit", "deleteUnit"} => a = {u},
               k \in {"createUnit", "updateUnit"} => x \in UnitNames,
               k \in {"assign", "unassign"} => a = {<<u, x>>} /\ x \in Instructors,
               k = "createUnit" <=> unit[u] = "unused",
               k = "createUnit" => u \notin Taken
        PROVE  fits(UnitCall(k, u, x, a, {}))
    <2> DEFINE c == UnitCall(k, u, x, a, {})
    <2>1. UnitFact(c) /\ c.kind = k /\ c.about = a
      BY <1>2 DEF UnitFact, UnitCall, IsCall
    <2>2. k \notin LessonKinds /\ k \in TrainingKinds /\ (k \in NewKinds => k = "createUnit")
      BY DEF UnitKinds, LessonKinds, ClassKinds, ExerciseKinds, TrainingKinds, NewKinds
    <2>3. LessonFact(c) /\ ClassFact(c) /\ ExerciseFact(c)
      BY <2>1, <2>2 DEF LessonFact, ClassFact, ExerciseFact, LessonKinds
    <2> QED
      BY <1>2, <2>1, <2>2, <2>3 DEF TrainingFact
  <1>3. PICK u \in Units :
          \/ \E n \in UnitNames :
                \/ /\ unit[u] = "unused" /\ u \notin Taken
                   /\ Begin(s, UnitCall("createUnit", u, n, {u}, {}))
                \/ UnitThere(u) /\ Begin(s, UnitCall("updateUnit", u, n, {u}, {}))
          \/ UnitThere(u) /\ Begin(s, UnitCall("deleteUnit", u, None, {u}, {}))
          \/ \E i \in Instructors :
                \/ UnitThere(u) /\ Begin(s, UnitCall("assign", u, i, {<<u, i>>}, {}))
                \/ UnitThere(u) /\ Begin(s, UnitCall("unassign", u, i, {<<u, i>>}, {}))
    BY DEF AskUnit
  <1>4. \E c : fits(c) /\ Begin(s, c)
    <2> HIDE DEF fits
    <2>1. CASE \E n \in UnitNames :
                  /\ unit[u] = "unused" /\ u \notin Taken
                  /\ Begin(s, UnitCall("createUnit", u, n, {u}, {}))
      BY <1>2, <2>1 DEF UnitKinds
    <2>2. CASE \E n \in UnitNames : UnitThere(u) /\ Begin(s, UnitCall("updateUnit", u, n, {u}, {}))
      BY <1>2, <2>2 DEF UnitKinds, UnitThere
    <2>3. CASE UnitThere(u) /\ Begin(s, UnitCall("deleteUnit", u, None, {u}, {}))
      BY <1>2, <2>3 DEF UnitKinds, UnitThere
    <2>4. CASE \E i \in Instructors : UnitThere(u) /\ Begin(s, UnitCall("assign", u, i, {<<u, i>>}, {}))
      BY <1>2, <2>4 DEF UnitKinds, UnitThere
    <2>5. CASE \E i \in Instructors : UnitThere(u) /\ Begin(s, UnitCall("unassign", u, i, {<<u, i>>}, {}))
      BY <1>2, <2>5 DEF UnitKinds, UnitThere
    <2> QED
      BY <1>3, <2>1, <2>2, <2>3, <2>4, <2>5
  <1> QED
    BY <1>1, <1>4, TrainingBegins

LEMMA LessonAsks ==
    ASSUME RosterInv, TrainingInv, NEW s \in Slots, UNCHANGED eventVars, AskLesson(s)
    PROVE  TrainingInv' /\ Handles(s, TrainingKinds)
  <1> DEFINE fits(c) == /\ TrainingFact(c) /\ c.kind \in TrainingKinds
                        /\ c.kind \in NewKinds => \E x : c.about = {x} /\ x \notin Taken
  <1>1. UNCHANGED trainingVars
    BY Zenon DEF AskLesson
  <1>2. ASSUME NEW k \in LessonKinds, NEW i, NEW u \in Units, unit[u] # "unused", NEW x,
               NEW c, IsCall(c), {"actor", "unit", "of", "event", "starts", "ends", "lesson"} \subseteq DOMAIN c,
               c.kind = k, c.at = "assoc", c.unit = u, c.actor = i, c.lesson = x,
               c.about = {x}, c.heeds = {<<u, i>>}, ClassFact(c), ExerciseFact(c),
               k \in NewKinds => x \notin Taken
        PROVE  fits(c)
    BY <1>2 DEF TrainingFact, UnitFact, LessonFact, UnitKinds, TrainingKinds, LessonKinds, ClassKinds,
       ExerciseKinds
  <1>3. ASSUME NEW k, NEW i, NEW u, NEW x
        PROVE  LET c == Lesson(k, i, u, x) IN
               /\ IsCall(c)
               /\ {"actor", "unit", "of", "event", "starts", "ends", "lesson"} \subseteq DOMAIN c
               /\ c.kind = k /\ c.at = "assoc" /\ c.unit = u /\ c.actor = i /\ c.lesson = x
               /\ c.about = {x} /\ c.heeds = {<<u, i>>} /\ c.event = None
    BY Zenon DEF Lesson, IsCall
  <1> HIDE DEF fits
  <1>4. PICK i \in Instructors \cup {Admin} :
          \/ \E k \in Courses, u \in Units, b \in Hours, e \in Hours \cup {None} :
                /\ course[k].state = "unused" /\ k \notin Taken
                /\ UnitThere(u) /\ InOrder(b, e)
                /\ Begin(s, [Lesson("createClass", i, u, k) EXCEPT !.starts = b, !.ends = e])
          \/ \E k \in Courses, b \in Hours \cup {Same}, e \in Hours \cup {None, Same} :
                /\ CourseThere(k)
                /\ InOrder(Chosen(b, course[k].starts), Chosen(e, course[k].ends))
                /\ Begin(s, [Lesson("updateClass", i, course[k].unit, k)
                                EXCEPT !.starts = b, !.ends = e])
          \/ \E k \in Courses :
                /\ CourseThere(k) /\ ExercisesOf(k) = {}
                /\ Begin(s, Lesson("deleteClass", i, course[k].unit, k))
          \/ \E x \in Exercises, k \in Courses, e \in Events \cup {None} :
                /\ exercise[x].state = "unused" /\ x \notin Taken /\ CourseThere(k)
                /\ Begin(s, [Lesson("createExercise", i, course[k].unit, x)
                                EXCEPT !.of = k, !.event = e])
          \/ \E x \in Exercises, e \in Events \cup {None, Same} :
                /\ ExerciseThere(x)
                /\ Begin(s, [Lesson("updateExercise", i, course[exercise[x].course].unit, x)
                                EXCEPT !.event = e])
          \/ \E x \in Exercises :
                /\ ExerciseThere(x)
                /\ Begin(s, Lesson("deleteExercise", i, course[exercise[x].course].unit, x))
    BY Zenon DEF AskLesson
  <1>5. \A k \in Courses : CourseThere(k) =>
           course[k].unit \in Units /\ unit[course[k].unit] # "unused" /\ course[k].state # "unused"
    BY DEF TrainingInv, TrainingTyped, UnitThere, CourseThere
  <1>6. \A x \in Exercises : ExerciseThere(x) =>
           exercise[x].course \in Courses /\ CourseThere(exercise[x].course) /\ exercise[x].state # "unused"
    BY DEF TrainingInv, TrainingTyped, ExerciseThere
  <1>7. ASSUME NEW k \in Courses, NEW u \in Units, NEW b \in Hours, NEW e \in Hours \cup {None},
               course[k].state = "unused", k \notin Taken, UnitThere(u), InOrder(b, e)
        PROVE  fits([Lesson("createClass", i, u, k) EXCEPT !.starts = b, !.ends = e])
    <2> DEFINE l == Lesson("createClass", i, u, k)
               c == [l EXCEPT !.starts = b, !.ends = e]
    <2>1. /\ IsCall(c) /\ DOMAIN c = DOMAIN l /\ c.starts = b /\ c.ends = e
          /\ c.kind = "createClass" /\ c.at = "assoc" /\ c.unit = u /\ c.actor = i /\ c.lesson = k
          /\ c.about = {k} /\ c.heeds = {<<u, i>>}
          /\ {"actor", "unit", "of", "event", "starts", "ends", "lesson"} \subseteq DOMAIN c
      BY DEF Lesson, IsCall
    <2> HIDE DEF c
    <2>2. ClassFact(c) /\ ExerciseFact(c)
      BY <1>7, <2>1 DEF ClassFact, ExerciseFact, ClassKinds, ExerciseKinds
    <2>3. unit[u] # "unused" /\ "createClass" \in LessonKinds
      BY <1>7 DEF UnitThere, LessonKinds, ClassKinds
    <2>4. fits(c)
      BY <1>2, <1>7, <2>1, <2>2, <2>3
    <2> QED
      BY <2>4 DEF c
  <1>8. ASSUME NEW k \in Courses, NEW b \in Hours \cup {Same}, NEW e \in Hours \cup {None, Same},
               CourseThere(k), InOrder(Chosen(b, course[k].starts), Chosen(e, course[k].ends))
        PROVE  fits([Lesson("updateClass", i, course[k].unit, k) EXCEPT !.starts = b, !.ends = e])
    <2> DEFINE u == course[k].unit
               l == Lesson("updateClass", i, u, k)
               c == [l EXCEPT !.starts = b, !.ends = e]
    <2>1. /\ IsCall(c) /\ DOMAIN c = DOMAIN l /\ c.starts = b /\ c.ends = e
          /\ c.kind = "updateClass" /\ c.at = "assoc" /\ c.unit = u /\ c.actor = i /\ c.lesson = k
          /\ c.about = {k} /\ c.heeds = {<<u, i>>}
          /\ {"actor", "unit", "of", "event", "starts", "ends", "lesson"} \subseteq DOMAIN c
      BY DEF Lesson, IsCall
    <2> HIDE DEF c
    <2>2. ClassFact(c) /\ ExerciseFact(c)
      BY <1>5, <1>8, <2>1 DEF ClassFact, ExerciseFact, ClassKinds, ExerciseKinds
    <2>3. u \in Units /\ unit[u] # "unused" /\ "updateClass" \in LessonKinds /\ "updateClass" \notin NewKinds
      BY <1>5, <1>8 DEF LessonKinds, ClassKinds, NewKinds
    <2>4. fits(c)
      BY <1>2, <2>1, <2>2, <2>3
    <2> QED
      BY <2>4 DEF c
  <1>9. ASSUME NEW k \in Courses, CourseThere(k)
        PROVE  fits(Lesson("deleteClass", i, course[k].unit, k))
    <2> DEFINE u == course[k].unit
               c == Lesson("deleteClass", i, u, k)
    <2>1. /\ IsCall(c) /\ {"actor", "unit", "of", "event", "starts", "ends", "lesson"} \subseteq DOMAIN c
          /\ c.kind = "deleteClass" /\ c.at = "assoc" /\ c.unit = u /\ c.actor = i /\ c.lesson = k
          /\ c.about = {k} /\ c.heeds = {<<u, i>>}
      BY <1>3
    <2> HIDE DEF c
    <2>2. ClassFact(c) /\ ExerciseFact(c)
      BY <1>5, <1>9, <2>1 DEF ClassFact, ExerciseFact, ClassKinds, ExerciseKinds
    <2>3. u \in Units /\ unit[u] # "unused" /\ "deleteClass" \in LessonKinds /\ "deleteClass" \notin NewKinds
      BY <1>5, <1>9 DEF LessonKinds, ClassKinds, NewKinds
    <2>4. fits(c)
      BY <1>2, <2>1, <2>2, <2>3
    <2> QED
      BY <2>4 DEF c
  <1>10. ASSUME NEW x \in Exercises, NEW k \in Courses, NEW e \in Events \cup {None},
                exercise[x].state = "unused", x \notin Taken, CourseThere(k)
         PROVE  fits([Lesson("createExercise", i, course[k].unit, x) EXCEPT !.of = k, !.event = e])
    <2> DEFINE u == course[k].unit
               l == Lesson("createExercise", i, u, x)
               c == [l EXCEPT !.of = k, !.event = e]
    <2>1. /\ IsCall(c) /\ DOMAIN c = DOMAIN l /\ c.of = k /\ c.event = e
          /\ c.kind = "createExercise" /\ c.at = "assoc" /\ c.unit = u /\ c.actor = i /\ c.lesson = x
          /\ c.about = {x} /\ c.heeds = {<<u, i>>}
          /\ {"actor", "unit", "of", "event", "starts", "ends", "lesson"} \subseteq DOMAIN c
      BY DEF Lesson, IsCall
    <2> HIDE DEF c
    <2>2. ClassFact(c) /\ ExerciseFact(c)
      BY <1>5, <1>10, <2>1 DEF ClassFact, ExerciseFact, ClassKinds, ExerciseKinds
    <2>3. u \in Units /\ unit[u] # "unused" /\ "createExercise" \in LessonKinds
      BY <1>5, <1>10 DEF LessonKinds, ExerciseKinds
    <2>4. fits(c)
      BY <1>2, <1>10, <2>1, <2>2, <2>3
    <2> QED
      BY <2>4 DEF c
  <1>11. ASSUME NEW x \in Exercises, NEW e \in Events \cup {None, Same}, ExerciseThere(x)
         PROVE  fits([Lesson("updateExercise", i, course[exercise[x].course].unit, x) EXCEPT !.event = e])
    <2> DEFINE u == course[exercise[x].course].unit
               l == Lesson("updateExercise", i, u, x)
               c == [l EXCEPT !.event = e]
    <2>1. /\ IsCall(c) /\ DOMAIN c = DOMAIN l /\ c.event = e
          /\ c.kind = "updateExercise" /\ c.at = "assoc" /\ c.unit = u /\ c.actor = i /\ c.lesson = x
          /\ c.about = {x} /\ c.heeds = {<<u, i>>}
          /\ {"actor", "unit", "of", "event", "starts", "ends", "lesson"} \subseteq DOMAIN c
      BY DEF Lesson, IsCall
    <2> HIDE DEF c
    <2>2. ClassFact(c) /\ ExerciseFact(c)
      BY <1>6, <1>11, <2>1 DEF ClassFact, ExerciseFact, ClassKinds, ExerciseKinds
    <2>3. u \in Units /\ unit[u] # "unused" /\ "updateExercise" \in LessonKinds /\ "updateExercise" \notin NewKinds
      BY <1>5, <1>6, <1>11 DEF LessonKinds, ExerciseKinds, NewKinds
    <2>4. fits(c)
      BY <1>2, <2>1, <2>2, <2>3
    <2> QED
      BY <2>4 DEF c
  <1>12. ASSUME NEW x \in Exercises, ExerciseThere(x)
         PROVE  fits(Lesson("deleteExercise", i, course[exercise[x].course].unit, x))
    <2> DEFINE u == course[exercise[x].course].unit
               c == Lesson("deleteExercise", i, u, x)
    <2>1. /\ IsCall(c) /\ {"actor", "unit", "of", "event", "starts", "ends", "lesson"} \subseteq DOMAIN c
          /\ c.kind = "deleteExercise" /\ c.at = "assoc" /\ c.unit = u /\ c.actor = i /\ c.lesson = x
          /\ c.about = {x} /\ c.heeds = {<<u, i>>} /\ c.event = None
      BY <1>3
    <2> HIDE DEF c
    <2>2. ClassFact(c) /\ ExerciseFact(c)
      BY <1>6, <1>12, <2>1 DEF ClassFact, ExerciseFact, ClassKinds, ExerciseKinds
    <2>3. u \in Units /\ unit[u] # "unused" /\ "deleteExercise" \in LessonKinds /\ "deleteExercise" \notin NewKinds
      BY <1>5, <1>6, <1>12 DEF LessonKinds, ExerciseKinds, NewKinds
    <2>4. fits(c)
      BY <1>2, <2>1, <2>2, <2>3, Zenon
    <2> QED
      BY <2>4 DEF c
  <1>13. \E c : fits(c) /\ Begin(s, c)
    <2>1. CASE \E k \in Courses, u \in Units, b \in Hours, e \in Hours \cup {None} :
                /\ course[k].state = "unused" /\ k \notin Taken
                /\ UnitThere(u) /\ InOrder(b, e)
                /\ Begin(s, [Lesson("createClass", i, u, k) EXCEPT !.starts = b, !.ends = e])
      BY <1>7, <2>1
    <2>2. CASE \E k \in Courses, b \in Hours \cup {Same}, e \in Hours \cup {None, Same} :
                /\ CourseThere(k)
                /\ InOrder(Chosen(b, course[k].starts), Chosen(e, course[k].ends))
                /\ Begin(s, [Lesson("updateClass", i, course[k].unit, k)
                                EXCEPT !.starts = b, !.ends = e])
      BY <1>8, <2>2
    <2>3. CASE \E k \in Courses :
                /\ CourseThere(k) /\ ExercisesOf(k) = {}
                /\ Begin(s, Lesson("deleteClass", i, course[k].unit, k))
      BY <1>9, <2>3
    <2>4. CASE \E x \in Exercises, k \in Courses, e \in Events \cup {None} :
                /\ exercise[x].state = "unused" /\ x \notin Taken /\ CourseThere(k)
                /\ Begin(s, [Lesson("createExercise", i, course[k].unit, x)
                                EXCEPT !.of = k, !.event = e])
      BY <1>10, <2>4
    <2>5. CASE \E x \in Exercises, e \in Events \cup {None, Same} :
                /\ ExerciseThere(x)
                /\ Begin(s, [Lesson("updateExercise", i, course[exercise[x].course].unit, x)
                                EXCEPT !.event = e])
      BY <1>11, <2>5
    <2>6. CASE \E x \in Exercises :
                /\ ExerciseThere(x)
                /\ Begin(s, Lesson("deleteExercise", i, course[exercise[x].course].unit, x))
      BY <1>12, <2>6
    <2> QED
      BY <1>4, <2>1, <2>2, <2>3, <2>4, <2>5, <2>6, Zenon
  <1> QED
    BY <1>1, <1>13, TrainingBegins, Zenon DEF fits

LEMMA LessonChecks ==
    ASSUME RosterInv, TrainingInv, NEW s \in Slots, UNCHANGED eventVars,
           CheckAssoc(s) \/ CheckDrill(s), doing[s].kind \in LessonKinds
    PROVE  TrainingInv' /\ Handles(s, TrainingKinds)
  <1> DEFINE c == doing[s]
  <1>0. /\ Busy(s) /\ UNCHANGED trainingVars /\ IsCall(c) /\ TrainingFact(c) /\ c.kind \in TrainingKinds
        /\ {"actor", "unit", "of", "event", "starts", "ends", "lesson"} \subseteq DOMAIN c
    BY DEF CheckAssoc, CheckDrill, Busy, TrainingInv, TrainingFact, LessonFact, TrainingKinds
  <1>1. ASSUME NEW p \in {"drill", "saving"},
               UnitThere(c.unit) => MayTeach(c.actor, c.unit) \/ <<c.unit, c.actor>> \in contended
        PROVE  TrainingFact([c EXCEPT !.at = p])
    <2> DEFINE d == [c EXCEPT !.at = p]
    <2>1. /\ IsCall(d) /\ DOMAIN d = DOMAIN c /\ d.at = p /\ d.kind = c.kind /\ d.actor = c.actor
          /\ d.unit = c.unit /\ d.of = c.of /\ d.event = c.event /\ d.starts = c.starts
          /\ d.ends = c.ends /\ d.lesson = c.lesson /\ d.about = c.about /\ d.heeds = c.heeds
      BY <1>0, GoesKeeps DEF IsCall
    <2> SUFFICES TrainingFact(d)
      OBVIOUS
    <2> HIDE DEF d
    <2>2. c.kind \notin UnitKinds
      BY DEF LessonKinds, ClassKinds, ExerciseKinds, UnitKinds
    <2>3. UnitFact(d) /\ LessonFact(d)
      BY <1>0, <1>1, <2>1, <2>2 DEF TrainingFact, UnitFact, LessonFact
    <2>4. ClassFact(d)
      BY <1>0, <2>1 DEF TrainingFact, ClassFact
    <2>5. ExerciseFact(d)
      BY <1>0, <2>1 DEF TrainingFact, ExerciseFact
    <2> QED
      BY <2>3, <2>4, <2>5 DEF TrainingFact
  <1>2. CASE CheckAssoc(s)
    <2>1. PICK p \in {"drill", "saving"} : Pass(s, MayTeach(c.actor, c.unit), p)
      BY <1>2 DEF CheckAssoc
    <2>2. MayTeach(c.actor, c.unit) => TrainingFact([c EXCEPT !.at = p])
      BY <1>1
    <2> QED
      BY <1>0, <2>1, <2>2, TrainingGoesOn
  <1>3. CASE CheckDrill(s)
    <2> DEFINE test == c.event \in Drills /\ status[c.event] \notin {"none", "deleted"}
    <2>1. Pass(s, test, "saving") /\ c.at = "drill"
      BY <1>3 DEF CheckDrill
    <2>2. TrainingFact([c EXCEPT !.at = "saving"])
      BY <1>0, <1>1, <2>1 DEF TrainingFact, LessonFact
    <2> HIDE DEF test
    <2> QED
      BY <1>0, <2>1, <2>2, TrainingGoesOn
  <1> QED
    BY <1>2, <1>3

\* Another call under way.
Other(s, d) == \E t \in Slots \ {s} : Busy(t) /\ d = doing[t]

LEMMA TrainingWritten ==
    ASSUME RosterInv, TrainingInv, NEW s \in Slots, Busy(s), doing[s].kind \in TrainingKinds,
           Leave(s), UNCHANGED contended, TrainingTyped', RowsGo,
           ClassEndsAfterItStartsUnlessContended',
           \A d : Other(s, d) => StillNew(d) /\ StillSo(d)
    PROVE  TrainingInv' /\ Handles(s, TrainingKinds)
  <1>1. Handles(s, TrainingKinds) /\ ~Busy(s)'
    BY LeaveMoves DEF RosterInv, SlotsShaped
  <1>2. \A t \in Slots : Busy(t)' => t # s /\ Busy(t) /\ doing'[t] = doing[t]
    BY <1>1 DEF Handles, Busy
  <1>3. ASSUME NEW t \in Slots, Busy(t)' PROVE TrainingFact(doing[t])'
    <2>1. ASSUME NEW d, d = doing[t] PROVE TrainingFact(d)'
      <3>1. Other(s, d) /\ TrainingFact(d)
        BY <1>2, <1>3, <2>1 DEF Other, TrainingInv
      <3> QED
        BY <3>1, TrainingFactStays DEF TrainingInv
    <2> QED
      BY <1>2, <1>3, <2>1
  <1>4. TrainingApart'
    BY <1>2 DEF TrainingInv, TrainingApart
  <1> QED
    BY <1>1, <1>3, <1>4 DEF TrainingInv

LEMMA WriteUnitHolds ==
    ASSUME RosterInv, TrainingInv, NEW s \in Slots, UNCHANGED eventVars, WriteUnit(s),
           doing[s].kind \in UnitKinds
    PROVE  TrainingInv' /\ Handles(s, TrainingKinds)
  <1> DEFINE c == doing[s]
             u == c.unit
  <1>1. /\ Busy(s) /\ UnitFact(c) /\ u \in Units /\ c.kind \in TrainingKinds
        /\ Leave(s) /\ UNCHANGED <<course, exercise, contended, status>>
    BY DEF WriteUnit, Busy, TrainingInv, TrainingFact, UnitFact, TrainingKinds, eventVars
  <1>2. \/ c.kind \in {"createUnit", "updateUnit"} /\ assigned' = assigned
           /\ (unit' = unit \/ (unit' = [unit EXCEPT ![u] = c.with]
                                /\ (c.kind = "updateUnit" => UnitThere(u))))
        \/ c.kind = "deleteUnit" /\ CoursesOf(u) = {} /\ unit' = [unit EXCEPT ![u] = "gone"]
           /\ assigned' = {a \in assigned : a[1] # u}
        \/ c.kind = "assign" /\ unit' = unit
           /\ assigned' = assigned \cup {a \in {<<u, c.with>>} : UnitThere(u)}
        \/ c.kind = "unassign" /\ unit' = unit /\ assigned' = assigned \ {<<u, c.with>>}
        \/ UNCHANGED <<unit, assigned>>
    BY DEF WriteUnit
  <1>3. TrainingTyped
    BY DEF TrainingInv
  <1>4. /\ \A v \in Units : unit[v] # "unused" =>
               unit'[v] # "unused" /\ (UnitThere(v)' => UnitThere(v))
        /\ \A v \in Units : UnitThere(v) =>
               UnitThere(v)' \/ (v = u /\ c.kind = "deleteUnit" /\ CoursesOf(u) = {})
        /\ \A v \in Units : unit[v] = "unused" => unit'[v] = "unused" \/ (v = u /\ c.kind = "createUnit")
        /\ DOMAIN unit' = Units
    <2>1. CASE unit' = unit
      BY <1>3, <2>1 DEF UnitThere, TrainingTyped
    <2>2. CASE c.kind \in {"createUnit", "updateUnit"} /\ unit' = [unit EXCEPT ![u] = c.with]
               /\ (c.kind = "updateUnit" => UnitThere(u))
      <3>1. c.with \notin {"unused", "gone"} /\ (c.kind = "createUnit" <=> unit[u] = "unused")
        BY <1>1, <2>2, TrainingConstants DEF UnitFact
      <3> QED
        BY <1>1, <1>3, <2>2, <3>1 DEF UnitThere, TrainingTyped
    <2>3. CASE c.kind = "deleteUnit" /\ CoursesOf(u) = {} /\ unit' = [unit EXCEPT ![u] = "gone"]
      <3>1. unit[u] # "unused"
        BY <1>1, <2>3 DEF UnitFact
      <3> QED
        BY <1>1, <1>3, <2>3, <3>1 DEF UnitThere, TrainingTyped
    <2> QED
      BY <1>2, <2>1, <2>2, <2>3
  <1>5. RowsGo
    BY <1>1, <1>4 DEF RowsGo, CourseThere, ExerciseThere
  <1>6. TrainingTyped'
    <2>1. \A a \in assigned' : UnitThere(a[1])' /\ a \in Units \X Instructors
      <3>1. CASE c.kind = "deleteUnit" /\ assigned' = {a \in assigned : a[1] # u}
        BY <1>3, <1>4, <3>1 DEF TrainingTyped
      <3>2. CASE c.kind = "assign" /\ unit' = unit
                 /\ assigned' = assigned \cup {a \in {<<u, c.with>>} : UnitThere(u)}
        <4>1. c.with \in Instructors
          BY <1>1, <3>2 DEF UnitFact
        <4> QED
          BY <1>1, <1>3, <3>2, <4>1 DEF TrainingTyped, UnitThere
      <3>3. CASE c.kind = "unassign" /\ unit' = unit /\ assigned' = assigned \ {<<u, c.with>>}
        BY <1>3, <3>3 DEF TrainingTyped, UnitThere
      <3>4. CASE assigned' = assigned /\ c.kind # "deleteUnit"
        BY <1>3, <1>4, <3>4 DEF TrainingTyped
      <3>5. CASE UNCHANGED <<unit, assigned>>
        BY <1>3, <3>5 DEF TrainingTyped, UnitThere
      <3> QED
        BY <1>2, <3>1, <3>2, <3>3, <3>4, <3>5
    <2>2. \A k \in Courses : CourseThere(k)' => course'[k].unit \in Units /\ UnitThere(course[k].unit)'
      BY <1>1, <1>3, <1>4 DEF TrainingTyped, CourseThere, CoursesOf
    <2>3. course' \in [Courses -> CourseRow] /\ exercise' \in [Exercises -> ExerciseRow]
      BY <1>1, <1>3 DEF TrainingTyped
    <2>4. \A x \in Exercises :
            /\ ExerciseThere(x)' => exercise'[x].course \in Courses /\ CourseThere(exercise[x].course)'
            /\ ~ExerciseThere(x)' => exercise'[x] = NoExercise(exercise'[x].state)
            /\ exercise'[x].event # None => Live(exercise[x].event)'
      BY <1>1, <1>3 DEF TrainingTyped, CourseThere, ExerciseThere, Live
    <2> QED
      BY <1>4, <2>1, <2>2, <2>3, <2>4 DEF TrainingTyped
  <1>7. ClassEndsAfterItStartsUnlessContended'
    BY <1>1 DEF TrainingInv, ClassEndsAfterItStartsUnlessContended, CourseThere
  <1>8. ASSUME NEW d, Other(s, d) PROVE StillNew(d)
    <2>1. PICK t \in Slots \ {s} : Busy(t) /\ d = doing[t]
      BY <1>8 DEF Other
    <2>2. TrainingFact(d)
      BY <2>1 DEF TrainingInv
    <2>3. d.kind = "createUnit" /\ c.kind = "createUnit" => d.unit # u
      <3> SUFFICES ASSUME d.kind = "createUnit", c.kind = "createUnit" PROVE d.unit # u
        OBVIOUS
      <3>1. d.about # c.about
        BY <1>1, <2>1 DEF TrainingInv, TrainingApart, NewKinds
      <3>2. d.about = {d.unit} /\ c.about = {c.unit}
        BY <1>1, <2>2 DEF UnitFact, TrainingFact, UnitKinds
      <3> QED
        BY <3>1, <3>2
    <2> QED
      BY <1>1, <1>4, <2>2, <2>3 DEF StillNew, TrainingFact, UnitFact, ClassFact, ExerciseFact, UnitKinds,
         ClassKinds, ExerciseKinds
  <1>9. ASSUME NEW d, Other(s, d) PROVE StillSo(d)
    <2> SUFFICES ASSUME d.kind \in LessonKinds, UnitThere(d.unit)', MayTeach(d.actor, d.unit)
                 PROVE  MayTeach(d.actor, d.unit)' \/ <<d.unit, d.actor>> \in contended'
      BY <1>1 DEF StillSo
    <2>1. PICK t \in Slots \ {s} : Busy(t) /\ d = doing[t]
      BY <1>9 DEF Other
    <2>2. LessonFact(d) /\ d.unit \in Units /\ d.heeds = {<<d.unit, d.actor>>}
      BY <2>1 DEF TrainingInv, TrainingFact, LessonFact
    <2>3. CASE <<d.unit, d.actor>> \in assigned'
      BY <2>3 DEF MayTeach
    <2>4. CASE c.kind = "deleteUnit" /\ unit' = [unit EXCEPT ![u] = "gone"]
               /\ assigned' = {a \in assigned : a[1] # u}
      <3>1. d.unit # u
        BY <1>1, <1>3, <2>4 DEF UnitThere, TrainingTyped
      <3> QED
        BY <2>4, <3>1 DEF MayTeach
    <2>5. CASE c.kind = "unassign" /\ assigned' = assigned \ {<<u, c.with>>}
      <3>1. CASE <<d.unit, d.actor>> = <<u, c.with>>
        <4>1. <<u, c.with>> \in c.about \cap d.heeds
          BY <1>1, <2>2, <2>5, <3>1 DEF UnitFact
        <4>2. Disputed(c, d) \subseteq contended
          BY <1>1, <2>1 DEF RosterInv, Rivals
        <4> QED
          BY <1>1, <3>1, <4>1, <4>2 DEF Disputed
      <3>2. CASE <<d.unit, d.actor>> # <<u, c.with>>
        BY <2>5, <3>2 DEF MayTeach
      <3> QED
        BY <3>1, <3>2
    <2>6. CASE assigned \subseteq assigned'
      BY <2>6 DEF MayTeach
    <2> QED
      BY <1>2, <2>4, <2>5, <2>6
  <1> QED
    BY <1>1, <1>5, <1>6, <1>7, <1>8, <1>9, TrainingWritten

LEMMA SaveClassHolds ==
    ASSUME RosterInv, TrainingInv, NEW s \in Slots, UNCHANGED eventVars, SaveClass(s),
           NEW c, c = doing[s], NEW k, k = c.lesson, c.kind \in LessonKinds
    PROVE  TrainingInv' /\ Handles(s, TrainingKinds)
  <1>1. /\ Busy(s) /\ ClassFact(c) /\ c.kind \in ClassKinds /\ k \in Courses /\ c.unit \in Units
        /\ c.about = {k} /\ Leave(s) /\ UNCHANGED <<unit, assigned, exercise, contended, status>>
        /\ c.kind \in TrainingKinds
    BY DEF SaveClass, Busy, TrainingInv, TrainingFact, ClassFact, LessonFact, TrainingKinds, ClassKinds,
           eventVars, LessonKinds
  <1>2. TrainingTyped
    BY DEF TrainingInv
  <1>3. /\ \A h \in Courses \ {k} : course'[h] = course[h]
        /\ course' \in [Courses -> CourseRow]
        /\ \/ course' = course
           \/ /\ c.kind = "createClass" /\ UnitThere(c.unit)
              /\ course'[k] = [state |-> "there", unit |-> c.unit, starts |-> c.starts, ends |-> c.ends]
           \/ /\ c.kind = "updateClass" /\ CourseThere(k)
              /\ course'[k] = [course[k] EXCEPT !.starts = Chosen(c.starts, @),
                                                !.ends = Chosen(c.ends, @)]
           \/ /\ c.kind = "deleteClass" /\ CourseThere(k) /\ ExercisesOf(k) = {}
              /\ course'[k] = NoCourse("gone")
    <2>1. CASE course' = course
      BY <1>2, <2>1 DEF TrainingTyped
    <2>2. CASE c.kind = "createClass" /\ UnitThere(c.unit)
               /\ course' = [course EXCEPT ![k] = [state |-> "there", unit |-> c.unit,
                                                   starts |-> c.starts, ends |-> c.ends]]
      <3>1. c.starts \in Hours /\ c.ends \in Hours \cup {None}
        BY <1>1, <2>2 DEF ClassFact
      <3>2. [state |-> "there", unit |-> c.unit, starts |-> c.starts, ends |-> c.ends] \in CourseRow
        BY <1>1, <3>1 DEF CourseRow, RowStates
      <3> QED
        BY <1>1, <1>2, <2>2, <3>2 DEF TrainingTyped
    <2>3. CASE c.kind = "updateClass" /\ CourseThere(k)
               /\ course' = [course EXCEPT ![k].starts = Chosen(c.starts, @),
                                           ![k].ends = Chosen(c.ends, @)]
      <3> DEFINE row == [course[k] EXCEPT !.starts = Chosen(c.starts, @), !.ends = Chosen(c.ends, @)]
      <3>1. c.starts \in Hours \cup {Same} /\ c.ends \in Hours \cup {None, Same} /\ course[k] \in CourseRow
        BY <1>1, <1>2, <2>3 DEF ClassFact, TrainingTyped
      <3>2. row \in CourseRow
        BY <3>1 DEF CourseRow, Chosen
      <3>3. course' = [course EXCEPT ![k] = row]
        BY <1>1, <1>2, <2>3 DEF TrainingTyped, CourseRow
      <3> HIDE DEF row
      <3>4. course'[k] = row /\ course' \in [Courses -> CourseRow]
        BY <1>1, <1>2, <3>2, <3>3 DEF TrainingTyped
      <3> QED
        BY <1>2, <2>3, <3>3, <3>4 DEF row, TrainingTyped
    <2>4. CASE c.kind = "deleteClass" /\ CourseThere(k) /\ ExercisesOf(k) = {}
               /\ course' = [course EXCEPT ![k] = NoCourse("gone")]
      <3>1. NoCourse("gone") \in CourseRow
        BY DEF CourseRow, RowStates, NoCourse
      <3> QED
        BY <1>1, <1>2, <2>4, <3>1 DEF TrainingTyped
    <2> QED
      BY <1>1, <2>1, <2>2, <2>3, <2>4 DEF SaveClass
  <1>4. /\ course[k] \in CourseRow
        /\ c.kind = "createClass" => course[k].state = "unused"
        /\ c.kind # "createClass" => course[k].state # "unused"
    BY <1>1, <1>2 DEF ClassFact, TrainingTyped
  <1>5. /\ course[k].state # "unused" => course'[k].state # "unused"
        /\ CourseThere(k)' =>
              IF c.kind = "createClass" /\ course' # course
              THEN UnitThere(c.unit) /\ course'[k].unit = c.unit
              ELSE CourseThere(k) /\ course'[k].unit = course[k].unit
        /\ CourseThere(k) => CourseThere(k)' \/ ExercisesOf(k) = {}
        /\ c.kind # "createClass" => (course[k].state = "unused" <=> course'[k].state = "unused")
    <2>1. CASE course' = course
      BY <2>1 DEF CourseThere
    <2>2. CASE c.kind = "createClass" /\ UnitThere(c.unit)
               /\ course'[k] = [state |-> "there", unit |-> c.unit, starts |-> c.starts, ends |-> c.ends]
      BY <1>4, <2>2 DEF CourseThere
    <2>3. CASE c.kind = "updateClass" /\ CourseThere(k)
               /\ course'[k] = [course[k] EXCEPT !.starts = Chosen(c.starts, @), !.ends = Chosen(c.ends, @)]
      <3>1. course'[k].state = course[k].state /\ course'[k].unit = course[k].unit
        BY <1>4, <2>3 DEF CourseRow
      <3> QED
        BY <2>3, <3>1 DEF CourseThere
    <2>4. CASE c.kind = "deleteClass" /\ CourseThere(k) /\ ExercisesOf(k) = {}
               /\ course'[k] = NoCourse("gone")
      BY <2>4 DEF CourseThere, NoCourse
    <2> QED
      BY <1>3, <2>1, <2>2, <2>3, <2>4
  <1>6. RowsGo
    BY <1>1, <1>3, <1>4, <1>5 DEF RowsGo, CourseThere, UnitThere, ExerciseThere
  <1>7. TrainingTyped'
    <2>1. ASSUME NEW h \in Courses, CourseThere(h)'
          PROVE  course'[h].unit \in Units /\ UnitThere(course[h].unit)'
      BY <1>1, <1>2, <1>3, <1>5, <2>1 DEF TrainingTyped, CourseThere, UnitThere
    <2>2. ASSUME NEW x \in Exercises, ExerciseThere(x)'
          PROVE  exercise'[x].course \in Courses /\ CourseThere(exercise[x].course)'
      <3>1. PICK h \in Courses : /\ h = exercise[x].course /\ exercise' = exercise
                                 /\ CourseThere(h) /\ x \in ExercisesOf(h)
        BY <1>1, <1>2, <2>2 DEF TrainingTyped, ExerciseThere, ExercisesOf
      <3>2. CourseThere(h)'
        BY <1>3, <1>5, <3>1 DEF CourseThere
      <3> QED
        BY <3>1, <3>2 DEF CourseThere
    <2>3. /\ \A x \in Exercises : /\ ~ExerciseThere(x)' => exercise'[x] = NoExercise(exercise'[x].state)
                                  /\ exercise'[x].event # None => Live(exercise[x].event)'
          /\ \A a \in assigned' : UnitThere(a[1])' /\ a \in Units \X Instructors
          /\ DOMAIN unit' = Units /\ exercise' \in [Exercises -> ExerciseRow]
      BY <1>1, <1>2 DEF TrainingTyped, ExerciseThere, Live, UnitThere
    <2> QED
      BY <1>3, <2>1, <2>2, <2>3 DEF TrainingTyped
  <1>8. ClassEndsAfterItStartsUnlessContended'
    <2> SUFFICES ASSUME NEW h \in Courses \ contended, CourseThere(h)'
                 PROVE  course'[h].ends = None \/ course'[h].ends > course'[h].starts
      BY <1>1 DEF ClassEndsAfterItStartsUnlessContended
    <2>1. CASE course'[h] = course[h]
      BY <2>1 DEF TrainingInv, ClassEndsAfterItStartsUnlessContended, CourseThere
    <2>2. CASE h = k /\ c.kind = "createClass"
               /\ course'[k] = [state |-> "there", unit |-> c.unit, starts |-> c.starts, ends |-> c.ends]
      <3>1. InOrder(c.starts, c.ends)
        BY <1>1, <2>2 DEF ClassFact
      <3> QED
        BY <2>2, <3>1 DEF InOrder
    <2>3. CASE h = k /\ c.kind = "updateClass" /\ CourseThere(k)
               /\ course'[k] = [course[k] EXCEPT !.starts = Chosen(c.starts, @), !.ends = Chosen(c.ends, @)]
      <3>1. InOrder(Chosen(c.starts, course[k].starts), Chosen(c.ends, course[k].ends))
        BY <1>1, <2>3 DEF ClassFact
      <3>2. /\ course'[k].starts = Chosen(c.starts, course[k].starts)
            /\ course'[k].ends = Chosen(c.ends, course[k].ends)
        BY <1>4, <2>3 DEF CourseRow
      <3> QED
        BY <2>3, <3>1, <3>2 DEF InOrder
    <2>4. CASE h = k /\ course'[k] = NoCourse("gone")
      BY <2>4 DEF CourseThere, NoCourse
    <2> QED
      BY <1>3, <2>1, <2>2, <2>3, <2>4
  <1>9. ASSUME NEW d, Other(s, d) PROVE StillNew(d) /\ StillSo(d)
    <2>1. PICK t \in Slots \ {s} : Busy(t) /\ d = doing[t]
      BY <1>9 DEF Other
    <2>2. TrainingFact(d)
      BY <2>1 DEF TrainingInv
    <2>3. d.kind = "createClass" /\ c.kind = "createClass" => d.lesson # k
      <3> SUFFICES ASSUME d.kind = "createClass", c.kind = "createClass" PROVE d.lesson # k
        OBVIOUS
      <3>1. d.about # c.about
        BY <1>1, <2>1 DEF TrainingInv, TrainingApart, NewKinds
      <3>2. d.about = {d.lesson}
        BY <2>2 DEF LessonFact, TrainingFact, LessonKinds, ClassKinds
      <3> QED
        BY <1>1, <3>1, <3>2
    <2>4. StillNew(d)
      <3>1. d.kind = "createClass" => d.lesson \in Courses /\ course[d.lesson].state = "unused"
        BY <2>2 DEF TrainingFact, ClassFact, ClassKinds
      <3>2. d.kind = "createUnit" => unit[d.unit] = "unused"
        BY <2>2 DEF TrainingFact, UnitFact, UnitKinds
      <3>3. d.kind = "createExercise" => exercise[d.lesson].state = "unused"
        BY <2>2 DEF TrainingFact, ExerciseFact, ExerciseKinds
      <3> QED
        BY <1>1, <1>3, <1>5, <2>3, <3>1, <3>2, <3>3 DEF StillNew
    <2>5. d.kind = "updateClass" /\ d.lesson \notin contended => d.lesson # k
      <3> SUFFICES ASSUME d.kind = "updateClass", d.lesson = k PROVE k \in contended
        OBVIOUS
      <3>1. d.about = {k}
        BY <2>2 DEF LessonFact, TrainingFact, LessonKinds, ClassKinds
      <3>2. Disputed(c, d) \subseteq contended
        BY <1>1, <2>1 DEF RosterInv, Rivals
      <3> QED
        BY <1>1, <3>1, <3>2 DEF Disputed
    <2>6. d.kind = "updateClass" => d.lesson \in Courses
      BY <2>2 DEF TrainingFact, ClassFact, ClassKinds
    <2> QED
      BY <1>1, <1>3, <2>4, <2>5, <2>6 DEF StillSo, MayTeach
  <1> QED
    BY <1>1, <1>6, <1>7, <1>8, <1>9, TrainingWritten

LEMMA SaveExerciseHolds ==
    ASSUME RosterInv, TrainingInv, NEW s \in Slots, UNCHANGED eventVars, SaveExercise(s),
           NEW c, c = doing[s], NEW z, z = c.lesson, c.kind \in LessonKinds
    PROVE  TrainingInv' /\ Handles(s, TrainingKinds)
  <1>1. /\ Busy(s) /\ ExerciseFact(c) /\ c.kind \in ExerciseKinds /\ z \in Exercises
        /\ c.about = {z} /\ Leave(s) /\ UNCHANGED <<unit, assigned, course, contended, status>>
        /\ c.kind \in TrainingKinds
    BY DEF SaveExercise, Busy, TrainingInv, TrainingFact, ExerciseFact, LessonFact, TrainingKinds,
           ExerciseKinds, eventVars, LessonKinds
  <1>2. TrainingTyped /\ exercise[z] \in ExerciseRow
    BY <1>1 DEF TrainingInv, TrainingTyped
  <1>3. /\ \A x \in Exercises \ {z} : exercise'[x] = exercise[x]
        /\ exercise' \in [Exercises -> ExerciseRow]
        /\ \/ exercise' = exercise
           \/ /\ c.kind = "createExercise" /\ CourseThere(c.of) /\ EventFree(c)
              /\ exercise'[z] = [state |-> "there", course |-> c.of, event |-> c.event]
           \/ /\ c.kind = "updateExercise" /\ ExerciseThere(z) /\ EventFree(c)
              /\ exercise'[z] = [exercise[z] EXCEPT !.event = Chosen(c.event, @)]
           \/ c.kind = "deleteExercise" /\ exercise'[z] = NoExercise("gone")
    <2>1. CASE exercise' = exercise
      BY <1>2, <2>1 DEF TrainingTyped
    <2>2. CASE c.kind = "createExercise" /\ CourseThere(c.of) /\ EventFree(c)
               /\ exercise' = [exercise EXCEPT ![z] =
                                  [state |-> "there", course |-> c.of, event |-> c.event]]
      <3>1. [state |-> "there", course |-> c.of, event |-> c.event] \in ExerciseRow
        BY <1>1, <2>2 DEF ExerciseRow, RowStates, ExerciseFact
      <3> QED
        BY <1>1, <1>2, <2>2, <3>1 DEF TrainingTyped
    <2>3. CASE c.kind = "updateExercise" /\ ExerciseThere(z) /\ EventFree(c)
               /\ exercise' = [exercise EXCEPT ![z].event = Chosen(c.event, @)]
      <3>1. [exercise[z] EXCEPT !.event = Chosen(c.event, @)] \in ExerciseRow
        BY <1>1, <1>2 DEF ExerciseRow, Chosen, ExerciseFact
      <3> QED
        BY <1>1, <1>2, <2>3, <3>1 DEF TrainingTyped
    <2>4. CASE c.kind = "deleteExercise" /\ exercise' = [exercise EXCEPT ![z] = NoExercise("gone")]
      <3>1. NoExercise("gone") \in ExerciseRow
        BY DEF ExerciseRow, RowStates, NoExercise
      <3> QED
        BY <1>1, <1>2, <2>4, <3>1 DEF TrainingTyped
    <2> QED
      BY <1>1, <2>1, <2>2, <2>3, <2>4 DEF SaveExercise
  <1>4. /\ c.kind = "createExercise" => exercise[z].state = "unused" /\ c.of \in Courses
        /\ c.kind # "createExercise" => exercise[z].state # "unused"
    BY <1>1 DEF ExerciseFact
  <1>5. /\ exercise[z].state # "unused" => exercise'[z].state # "unused"
        /\ ExerciseThere(z)' =>
              IF c.kind = "createExercise" /\ exercise' # exercise
              THEN c.of \in Courses /\ CourseThere(c.of) /\ exercise'[z].course = c.of
              ELSE ExerciseThere(z) /\ exercise'[z].course = exercise[z].course
        /\ c.kind # "createExercise" => (exercise[z].state = "unused" <=> exercise'[z].state = "unused")
        /\ ~ExerciseThere(z)' => exercise'[z] = NoExercise(exercise'[z].state)
        /\ exercise'[z].event # None => Live(exercise'[z].event)
    <2>1. CASE exercise' = exercise
      BY <1>1, <1>2, <2>1 DEF ExerciseThere, TrainingTyped
    <2>2. CASE c.kind = "createExercise" /\ CourseThere(c.of) /\ EventFree(c)
               /\ exercise'[z] = [state |-> "there", course |-> c.of, event |-> c.event]
      <3>1. c.event # None => Live(c.event)
        BY <1>1, <2>2 DEF EventFree, Live, ExerciseFact
      <3> QED
        BY <1>4, <2>2, <3>1 DEF ExerciseThere
    <2>3. CASE c.kind = "updateExercise" /\ ExerciseThere(z) /\ EventFree(c)
               /\ exercise'[z] = [exercise[z] EXCEPT !.event = Chosen(c.event, @)]
      <3>1. /\ exercise'[z].state = exercise[z].state /\ exercise'[z].course = exercise[z].course
            /\ exercise'[z].event = Chosen(c.event, exercise[z].event)
        BY <1>2, <2>3 DEF ExerciseRow
      <3>2. c.event \in Events => Live(c.event)
        BY <2>3 DEF EventFree, Live
      <3>3. exercise[z].event # None => Live(exercise[z].event)
        BY <1>1, <1>2 DEF TrainingTyped
      <3>4. exercise'[z].event # None => Live(exercise'[z].event)
        BY <1>1, <3>1, <3>2, <3>3 DEF Chosen, ExerciseFact
      <3> QED
        BY <2>3, <3>1, <3>4 DEF ExerciseThere
    <2>4. CASE c.kind = "deleteExercise" /\ exercise'[z] = NoExercise("gone")
      BY <1>4, <2>4 DEF ExerciseThere, NoExercise
    <2> QED
      BY <1>3, <2>1, <2>2, <2>3, <2>4
  <1>6. RowsGo
    BY <1>1, <1>3, <1>4, <1>5 DEF RowsGo, CourseThere, UnitThere, ExerciseThere
  <1>7. TrainingTyped'
    <2>1. ASSUME NEW x \in Exercises
          PROVE  /\ ExerciseThere(x)' => exercise'[x].course \in Courses /\ CourseThere(exercise'[x].course)
                 /\ ~ExerciseThere(x)' => exercise'[x] = NoExercise(exercise'[x].state)
                 /\ exercise'[x].event # None => Live(exercise'[x].event)
      <3>1. CASE x = z
        BY <1>1, <1>2, <1>5, <3>1 DEF TrainingTyped
      <3>2. CASE x # z
        BY <1>1, <1>2, <1>3, <3>2 DEF TrainingTyped, ExerciseThere
      <3> QED
        BY <3>1, <3>2
    <2>2. /\ \A k \in Courses : CourseThere(k)' => course'[k].unit \in Units /\ UnitThere(course[k].unit)'
          /\ \A a \in assigned' : UnitThere(a[1])' /\ a \in Units \X Instructors
          /\ DOMAIN unit' = Units /\ course' \in [Courses -> CourseRow]
      BY <1>1, <1>2 DEF TrainingTyped, CourseThere, UnitThere
    <2>3. \A x \in Exercises :
            /\ ExerciseThere(x)' => exercise'[x].course \in Courses /\ CourseThere(exercise[x].course)'
            /\ exercise'[x].event # None => Live(exercise[x].event)'
      BY <1>1, <2>1 DEF CourseThere, Live
    <2> QED
      BY <1>3, <2>1, <2>2, <2>3 DEF TrainingTyped
  <1>8. ClassEndsAfterItStartsUnlessContended'
    BY <1>1 DEF TrainingInv, ClassEndsAfterItStartsUnlessContended, CourseThere
  <1>9. ASSUME NEW d, Other(s, d) PROVE StillNew(d) /\ StillSo(d)
    <2>1. PICK t \in Slots \ {s} : Busy(t) /\ d = doing[t]
      BY <1>9 DEF Other
    <2>2. TrainingFact(d)
      BY <2>1 DEF TrainingInv
    <2>3. d.kind = "createExercise" /\ c.kind = "createExercise" => d.lesson # z
      <3> SUFFICES ASSUME d.kind = "createExercise", c.kind = "createExercise" PROVE d.lesson # z
        OBVIOUS
      <3>1. d.about # c.about
        BY <1>1, <2>1 DEF TrainingInv, TrainingApart, NewKinds
      <3>2. d.about = {d.lesson}
        BY <2>2 DEF LessonFact, TrainingFact, LessonKinds, ExerciseKinds
      <3> QED
        BY <1>1, <3>1, <3>2
    <2>4. StillNew(d)
      <3>1. d.kind = "createClass" => course[d.lesson].state = "unused"
        BY <2>2 DEF TrainingFact, ClassFact, ClassKinds
      <3>2. d.kind = "createUnit" => unit[d.unit] = "unused"
        BY <2>2 DEF TrainingFact, UnitFact, UnitKinds
      <3>3. d.kind = "createExercise" => d.lesson \in Exercises /\ exercise[d.lesson].state = "unused"
        BY <2>2 DEF TrainingFact, ExerciseFact, ExerciseKinds
      <3> QED
        BY <1>1, <1>3, <1>5, <2>3, <3>1, <3>2, <3>3 DEF StillNew
    <2> QED
      BY <1>1, <2>4 DEF StillSo, MayTeach
  <1> QED
    BY <1>1, <1>6, <1>7, <1>8, <1>9, TrainingWritten

LEMMA TrainingInvNext ==
    ASSUME RosterInv, TrainingInv, NEW s \in Slots, TrainingStep(s),
           Busy(s) /\ doing[s].at \in {"assoc", "drill"} => doing[s].kind \in LessonKinds
    PROVE  TrainingInv' /\ Handles(s, TrainingKinds)
  <1>0. UNCHANGED eventVars
    BY DEF TrainingStep
  <1>1. CASE WriteUnit(s)
    <2>1. doing[s].kind \in UnitKinds
      BY <1>1 DEF WriteUnit, UnitKinds
    <2> QED
      BY <1>0, <1>1, <2>1, WriteUnitHolds
  <1>2. CASE CheckAssoc(s) \/ CheckDrill(s)
    <2>1. doing[s].kind \in LessonKinds
      BY <1>2 DEF CheckAssoc, CheckDrill, Busy
    <2> QED
      BY <1>0, <1>2, <2>1, LessonChecks
  <1>3. CASE SaveClass(s)
    <2>1. doing[s].kind \in LessonKinds
      BY <1>3 DEF SaveClass, LessonKinds, ClassKinds
    <2> QED
      BY <1>0, <1>3, <2>1, SaveClassHolds
  <1>4. CASE SaveExercise(s)
    <2>1. doing[s].kind \in LessonKinds
      BY <1>4 DEF SaveExercise, LessonKinds, ExerciseKinds
    <2> QED
      BY <1>0, <1>4, <2>1, SaveExerciseHolds
  <1> QED
    BY <1>0, <1>1, <1>2, <1>3, <1>4, UnitAsks, LessonAsks DEF TrainingStep

LEMMA TrainingInvRoster ==
    ASSUME RosterInv, [RosterNext]_vars, TrainingCascade, TrainingInv
    PROVE  TrainingInv'
  <1>1. Spares(TrainingKinds) /\ contended \subseteq contended'
    <2>1. TrainingKinds \cap RosterKinds = {}
      BY DEF TrainingKinds, UnitKinds, LessonKinds, ClassKinds, ExerciseKinds
    <2> QED
      BY <2>1, RosterSpares DEF Spares
  <1>2. UNCHANGED <<unit, assigned, course>> /\ TrainingTyped
    BY DEF TrainingCascade, TrainingInv
  <1>3. /\ exercise' \in [Exercises -> ExerciseRow]
        /\ \A x \in Exercises :
              \/ exercise'[x] = exercise[x] /\ ~(exercise[x].event \in Events /\ status'[exercise[x].event] = "deleted")
              \/ exercise'[x] = [exercise[x] EXCEPT !.event = None]
    <2>1. \A x \in Exercises : [exercise[x] EXCEPT !.event = None] \in ExerciseRow
      BY <1>2 DEF TrainingTyped, ExerciseRow
    <2> QED
      BY <1>2, <2>1 DEF TrainingCascade, TrainingTyped
  <1>4. \A x \in Exercises : exercise'[x].state = exercise[x].state /\ exercise'[x].course = exercise[x].course
    BY <1>2, <1>3 DEF TrainingTyped, ExerciseRow
  <1>5. TrainingTyped'
    <2>1. ASSUME NEW x \in Exercises
          PROVE  /\ ExerciseThere(x)' => exercise'[x].course \in Courses /\ CourseThere(exercise[x].course)'
                 /\ ~ExerciseThere(x)' => exercise'[x] = NoExercise(exercise'[x].state)
                 /\ exercise'[x].event # None => Live(exercise[x].event)'
      <3>1. exercise[x] \in ExerciseRow
        BY <1>2 DEF TrainingTyped
      <3>2. CASE exercise'[x] = [exercise[x] EXCEPT !.event = None]
        <4>1. exercise'[x].event = None
          BY <3>1, <3>2 DEF ExerciseRow
        <4>2. exercise'[x] = [state |-> exercise[x].state, course |-> exercise[x].course, event |-> None]
          BY <3>1, <3>2 DEF ExerciseRow
        <4>3. ~ExerciseThere(x)' => exercise'[x] = NoExercise(exercise'[x].state)
          BY <1>2, <1>4, <4>2 DEF TrainingTyped, ExerciseThere, NoExercise
        <4>4. ExerciseThere(x)' => exercise'[x].course \in Courses /\ course'[exercise'[x].course].state = "there"
          BY <1>2, <1>4 DEF TrainingTyped, ExerciseThere, CourseThere
        <4> QED
          BY <4>1, <4>3, <4>4 DEF CourseThere
      <3>3. CASE exercise'[x] = exercise[x]
                 /\ ~(exercise[x].event \in Events /\ status'[exercise[x].event] = "deleted")
        <4>1. exercise[x].event # None => exercise[x].event \in Events /\ Live(exercise[x].event)
          BY <1>2, <3>1 DEF TrainingTyped, ExerciseRow
        <4>2. exercise'[x].event # None => Live(exercise[x].event)'
          BY <3>3, <4>1, RosterGrows DEF Live
        <4>3. ExerciseThere(x)' => exercise'[x].course \in Courses /\ course'[exercise'[x].course].state = "there"
          BY <1>2, <3>3 DEF TrainingTyped, ExerciseThere, CourseThere
        <4> QED
          BY <1>2, <3>3, <4>2, <4>3 DEF TrainingTyped, ExerciseThere, CourseThere
      <3> QED
        BY <1>3, <3>2, <3>3
    <2>2. /\ \A k \in Courses : CourseThere(k)' => course'[k].unit \in Units /\ UnitThere(course[k].unit)'
          /\ \A a \in assigned' : UnitThere(a[1])' /\ a \in Units \X Instructors
          /\ DOMAIN unit' = Units /\ course' \in [Courses -> CourseRow]
      BY <1>2 DEF TrainingTyped, CourseThere, UnitThere
    <2> QED
      BY <1>3, <2>1, <2>2 DEF TrainingTyped
  <1>6. RowsGo
    BY <1>2, <1>4 DEF RowsGo, CourseThere, UnitThere, ExerciseThere
  <1>7. ASSUME NEW t \in Slots, Busy(t)' PROVE TrainingFact(doing[t])'
    <2>1. CASE doing'[t].kind \notin TrainingKinds
      BY <2>1 DEF TrainingFact, UnitFact, LessonFact, ClassFact, ExerciseFact, TrainingKinds, LessonKinds
    <2>2. CASE doing'[t].kind \in TrainingKinds
      <3>1. doing'[t] = doing[t] /\ Busy(t)
        BY <1>1, <1>7, <2>2 DEF Spares, Busy
      <3>2. ASSUME NEW d, d = doing[t] PROVE TrainingFact(d)'
        <4>1. TrainingFact(d)
          BY <3>1, <3>2 DEF TrainingInv
        <4>2. StillNew(d)
          <5>1. /\ d.kind = "createUnit" => unit[d.unit] = "unused"
                /\ d.kind = "createClass" => course[d.lesson].state = "unused"
            BY <4>1 DEF TrainingFact, UnitFact, UnitKinds, ClassFact, ClassKinds
          <5>2. d.kind = "createExercise" => d.lesson \in Exercises /\ exercise[d.lesson].state = "unused"
            BY <4>1 DEF TrainingFact, ExerciseFact, ExerciseKinds
          <5> QED
            BY <1>2, <1>4, <5>1, <5>2 DEF StillNew
        <4>3. StillSo(d)
          BY <1>2 DEF StillSo, MayTeach
        <4> QED
          BY <1>1, <1>2, <1>5, <1>6, <4>1, <4>2, <4>3, TrainingFactStays
      <3> QED
        BY <3>1, <3>2
    <2> QED
      BY <2>1, <2>2
  <1>8. TrainingApart'
    <2>1. ASSUME NEW t \in Slots, Busy(t)', doing'[t].kind \in NewKinds
          PROVE  Busy(t) /\ doing'[t] = doing[t]
      BY <1>1, <2>1 DEF Spares, Busy, NewKinds, TrainingKinds, UnitKinds, LessonKinds, ClassKinds, ExerciseKinds
    <2> QED
      BY <2>1 DEF TrainingApart, TrainingInv
  <1>9. ClassEndsAfterItStartsUnlessContended'
    BY <1>1, <1>2 DEF TrainingInv, ClassEndsAfterItStartsUnlessContended, CourseThere
  <1> QED
    BY <1>5, <1>7, <1>8, <1>9 DEF TrainingInv

\* Who changes a class or an exercise teaches its unit, through a step of the
\* training,
LEMMA TaughtStep ==
    ASSUME TrainingInv, NEW s \in Slots, TrainingStep(s), course' # course \/ exercise' # exercise,
           NEW t \in Slots, Busy(t), doing'[t] = Idle, DOMAIN doing = Slots
    PROVE  doing[t].actor = Admin \/ <<doing[t].unit, doing[t].actor>> \in assigned \cup contended
  <1>1. SaveClass(s) \/ SaveExercise(s)
    BY Zenon DEF TrainingStep, AskUnit, WriteUnit, AskLesson, CheckAssoc, CheckDrill, trainingVars
  <1>2. Leave(s) /\ Busy(s)
    BY <1>1 DEF SaveClass, SaveExercise, Busy
  <1>3. t = s
    BY <1>2 DEF Leave, Busy
  <1> DEFINE c == doing[s]
  <1>4. TrainingFact(c) /\ TrainingTyped
    BY <1>2 DEF TrainingInv
  <1>5. CASE SaveClass(s)
    <2>1. c.kind \in ClassKinds /\ c.at = "saving" /\ ClassFact(c)
      BY <1>4, <1>5 DEF SaveClass, ClassKinds, TrainingFact
    <2>2. course' # course
      BY <1>5 DEF SaveClass
    <2>3. \/ c.kind = "createClass" /\ UnitThere(c.unit)
          \/ c.kind # "createClass" /\ CourseThere(c.lesson)
      BY <1>5, <2>2 DEF SaveClass
    <2>4. UnitThere(c.unit)
      BY <1>4, <2>1, <2>3 DEF ClassFact, TrainingTyped
    <2> QED
      BY <1>3, <1>4, <2>1, <2>4 DEF TrainingFact, LessonFact, LessonKinds, MayTeach
  <1>6. CASE SaveExercise(s)
    <2>1. c.kind \in ExerciseKinds /\ c.at = "saving" /\ ExerciseFact(c)
      BY <1>4, <1>6 DEF SaveExercise, ExerciseKinds, TrainingFact
    <2>2. exercise' # exercise
      BY <1>6 DEF SaveExercise
    <2>3. \/ c.kind = "createExercise" /\ CourseThere(c.of)
          \/ c.kind # "createExercise" /\ ExerciseThere(c.lesson)
      <3>1. CASE c.kind = "deleteExercise" /\ exercise' = [exercise EXCEPT ![c.lesson] = NoExercise("gone")]
        <4>1. exercise[c.lesson] # NoExercise("gone")
          BY <1>4, <2>2, <3>1 DEF TrainingTyped
        <4>2. c.lesson \in Exercises /\ exercise[c.lesson].state # "unused" /\ exercise[c.lesson] \in ExerciseRow
          BY <1>4, <2>1, <3>1 DEF ExerciseFact, TrainingTyped
        <4>3. exercise[c.lesson].state \in {"there", "gone"}
          BY <4>2 DEF ExerciseRow, RowStates
        <4> QED
          BY <1>4, <3>1, <4>1, <4>2, <4>3 DEF TrainingTyped, ExerciseThere
      <3> QED
        BY <1>6, <2>2, <3>1 DEF SaveExercise
    <2>4. UnitThere(c.unit)
      BY <1>4, <2>1, <2>3 DEF ExerciseFact, TrainingTyped
    <2> QED
      BY <1>3, <1>4, <2>1, <2>4 DEF TrainingFact, LessonFact, LessonKinds, MayTeach
  <1> QED
    BY <1>1, <1>5, <1>6, Zenon

\* and a step of the roster changes an exercise only by deleting its event.
LEMMA CascadeTeachesNothing ==
    ASSUME TrainingInv, TrainingCascade
    PROVE  course' = course /\ (status' = status => exercise' = exercise)
  <1> SUFFICES ASSUME status' = status PROVE exercise' = exercise
    BY DEF TrainingCascade
  <1>1. TrainingTyped
    BY DEF TrainingInv
  <1>2. \A x \in Exercises : exercise[x].event \notin {e \in Events : status'[e] = "deleted"}
    BY <1>1, TrainingConstants DEF TrainingTyped, Live
  <1>3. exercise' = [x \in Exercises |-> exercise[x]]
    BY <1>2 DEF TrainingCascade
  <1> QED
    BY <1>1, <1>3 DEF TrainingTyped

-----------------------------------------------------------------------------
(* Voice rooms and MQTT credentials *)

AccessKinds == {"voice", "mqtt"}

\* A call for a voice room knows that its event is ACTIVE, and so is the squad if
\* the room is a squad's, unless somebody is about them;
VoiceFact(c) ==
    c.kind = "voice" =>
        /\ c.event \in Events /\ {c.user, c.event} \subseteq c.heeds
        /\ status[c.event] # "none"
        /\ c.event \notin contended => status[c.event] = "ACTIVE"
        /\ \/ /\ c.room \in Squads /\ c.room \in c.heeds /\ c.squads = {c.room}
              /\ c.event = EventOfSquad(c.room)
              /\ c.room \notin contended => squad[c.room] \in {"ACTIVE", "deleted"}
           \/ /\ c.room \in Teams /\ c.event = EventOf[c.room]
              /\ c.squads = {q \in Squads : TeamOf[q] = c.room}

\* one for credentials that the operator is in such a squad.
MqttFact(c) ==
    c.kind = "mqtt" =>
        /\ c.event \in Events /\ status[c.event] # "none"
        /\ c.event \notin contended => status[c.event] = "ACTIVE"
        /\ \E q \in Squads :
              /\ c.squads = {q} /\ c.event = EventOfSquad(q) /\ c.heeds = {q, c.user, c.event}
              /\ {q, c.event} \cap contended = {} => squad[q] = "ACTIVE" /\ c.user \in members[q]

AccessFact(c) == VoiceFact(c) /\ MqttFact(c)

AccessInv == \A s \in Slots : Busy(s) => AccessFact(doing[s])

LEMMA AccessFactSame ==
    ASSUME NEW c, AccessFact(c), contended \subseteq contended', UNCHANGED <<eventVars, rosterVars>>
    PROVE  AccessFact(c)'
  BY DEF AccessFact, VoiceFact, MqttFact, eventVars, rosterVars

\* Nothing is written; a call for a grant begins at most.
LEMMA AccessInvStays ==
    ASSUME AccessInv, contended \subseteq contended', UNCHANGED <<eventVars, rosterVars>>,
           \A t \in Slots : Busy(t)' /\ doing'[t].kind \in AccessKinds =>
               (Busy(t) /\ doing'[t] = doing[t]) \/ AccessFact(doing[t])'
    PROVE  AccessInv'
  <1> SUFFICES ASSUME NEW t \in Slots, Busy(t)' PROVE AccessFact(doing[t])'
    BY DEF AccessInv
  <1>1. CASE doing'[t].kind \notin AccessKinds
    BY <1>1 DEF AccessFact, VoiceFact, MqttFact, AccessKinds
  <1>2. CASE Busy(t) /\ doing'[t] = doing[t]
    BY <1>2, AccessFactSame DEF AccessInv
  <1> QED
    BY <1>1, <1>2

LEMMA AccessInvNext ==
    ASSUME RosterInv, AccessInv, NEW s \in Slots, AccessStep(s)
    PROVE  AccessInv' /\ Handles(s, AccessKinds)
  <1> USE RosterConstants, AccessConstants
  <1>0. UNCHANGED <<eventVars, rosterVars>> /\ RosterTypeOK /\ DOMAIN doing = Slots
    BY DEF AccessStep, RosterInv, SlotsShaped
  <1>1. ASSUME NEW c, Begin(s, c), AccessFact(c), c.kind \in AccessKinds
        PROVE  AccessInv' /\ Handles(s, AccessKinds)
    <2>1. Handles(s, AccessKinds) /\ doing'[s] = c
      BY <1>0, <1>1, BeginMoves
    <2>2. AccessFact(doing[s])'
      BY <1>0, <1>1, <2>1, AccessFactSame DEF Handles
    <2>3. \A t \in Slots : t # s => doing'[t] = doing[t]
      BY <2>1 DEF Handles
    <2> QED
      BY <1>0, <2>1, <2>2, <2>3, AccessInvStays DEF Handles, Busy
  <1>2. CASE SignVoice(s) \/ SignMqtt(s)
    <2>1. Leave(s) /\ contended' = contended /\ Busy(s) /\ doing[s].kind \in AccessKinds
      BY <1>2 DEF SignVoice, SignMqtt, At, Busy, AccessKinds
    <2>2. Handles(s, AccessKinds) /\ ~Busy(s)'
      BY <1>0, <2>1, LeaveMoves
    <2>3. \A t \in Slots : Busy(t)' => Busy(t) /\ doing'[t] = doing[t]
      BY <2>2 DEF Handles, Busy
    <2> QED
      BY <1>0, <2>2, <2>3, AccessInvStays DEF Handles
  <1>3. CASE AskVoice(s)
    <2>1. CASE UNCHANGED <<doing, contended>>
      BY <1>0, <1>3, <2>1, AccessInvStays DEF AskVoice, Handles, Busy, Begin
    <2>2. ASSUME NEW u \in Users, NEW q \in Squads,
                 squad[q] = "ACTIVE", status[EventOfSquad(q)] = "ACTIVE",
                 Begin(s, [kind |-> "voice", at |-> "member", user |-> u, room |-> q,
                           event |-> EventOfSquad(q), squads |-> {q}, about |-> {},
                           heeds |-> {q, u, EventOfSquad(q)}])
          PROVE  AccessInv' /\ Handles(s, AccessKinds)
      BY <1>1, <2>2 DEF AccessFact, VoiceFact, MqttFact, AccessKinds, EventOfSquad
    <2>3. ASSUME NEW u \in Users, NEW t \in Teams, status[EventOf[t]] = "ACTIVE",
                 Begin(s, [kind |-> "voice", at |-> "member", user |-> u, room |-> t,
                           event |-> EventOf[t], squads |-> {q \in Squads : TeamOf[q] = t},
                           about |-> {}, heeds |-> {u, EventOf[t]}])
          PROVE  AccessInv' /\ Handles(s, AccessKinds)
      BY <1>1, <2>3 DEF AccessFact, VoiceFact, MqttFact, AccessKinds
    <2> QED
      BY <1>3, <2>1, <2>2, <2>3 DEF AskVoice
  <1>4. CASE AskMqtt(s)
    <2>1. PICK o \in Operators, q \in Squads :
            /\ o \in members[q] /\ squad[q] = "ACTIVE" /\ status[EventOfSquad(q)] = "ACTIVE"
            /\ Begin(s, [kind |-> "mqtt", at |-> "assume", user |-> o, event |-> EventOfSquad(q),
                         squads |-> {q}, about |-> {}, heeds |-> {q, o, EventOfSquad(q)}])
      BY <1>4 DEF AskMqtt
    <2> QED
      BY <1>1, <2>1 DEF AccessFact, VoiceFact, MqttFact, AccessKinds, EventOfSquad
  <1> QED
    BY <1>2, <1>3, <1>4 DEF AccessStep

\* No squad of an ACTIVE event is deleted.
LEMMA ActiveKeepsSquads ==
    ASSUME RosterInv, RosterNext, NEW q \in Squads, Exists(q),
           status[EventOfSquad(q)] = "ACTIVE", EventOfSquad(q) \notin contended
    PROVE  squad'[q] # "deleted"
  <1> DEFINE e == EventOfSquad(q)
  <1>1. e \in Events /\ squad[q] # "deleted" /\ RosterTypeOK
    BY RosterConstants DEF EventOfSquad, Exists, SquadStatuses, RosterInv
  <1>2. CASE EventMove
    <2>1. status'[e] # "deleted"
      <3>1. <<"ACTIVE", "deleted">> \notin Moves
        BY DEF Moves
      <3> QED
        BY <1>1, <3>1, LifecycleStep
    <2> QED
      BY <1>1, <1>2, <2>1 DEF EventMove, DropTeams, DropSquads, rosterVars, EventOfSquad, RosterTypeOK
  <1>3. ASSUME NEW s \in Slots, RosterStep(s) PROVE squad'[q] # "deleted"
    <2> DEFINE c == doing[s]
    <2>1. CASE ReadSquad(s) \/ CheckEvent(s) \/ ReadMembers(s) \/ CreateTeam(s)
      BY <1>1, <2>1 DEF ReadSquad, CheckEvent, ReadMembers, CreateTeam, rosterVars
    <2>2. CASE RemoveTeam(s)
      <3>1. Busy(s) /\ c.event # e
        BY <2>2 DEF RemoveTeam, Write, At, Busy, RosterInv, Facts, PastFact
      <3>2. c.event = EventOf[c.team]
        BY <2>2, <3>1 DEF RemoveTeam, Write, At, RosterInv, SlotsShaped, Shaped, EventShape, TeamShape,
           SquadShape, PatchShape, MemberShape
      <3> QED
        BY <1>1, <2>2, <3>1, <3>2 DEF RemoveTeam, DropTeams, DropSquads, EventOfSquad, RosterTypeOK
    <2>3. CASE RemoveSquad(s)
      <3>1. Busy(s) /\ c.event # e
        BY <2>3 DEF RemoveSquad, Write, At, Busy, RosterInv, Facts, PastFact
      <3>2. c.squad # q
        BY <2>3, <3>1 DEF RemoveSquad, Write, At, RosterInv, SlotsShaped, Shaped, OfSquad, EventShape,
           TeamShape, SquadShape, PatchShape, MemberShape
      <3> QED
        BY <1>1, <2>3, <3>2 DEF RemoveSquad, DropSquads, RosterTypeOK
    <2>4. CASE UpdateSquad(s)
      <3>1. Busy(s) /\ c.kind = "updateSquad" /\ c.squad \in Squads
        BY <2>4 DEF UpdateSquad, Write, At, Busy, RosterInv, SlotsShaped, Shaped, OfSquad, EventShape,
           TeamShape, SquadShape, PatchShape, MemberShape
      <3>2. c.status \in SquadStatuses \cup {Keep}
        BY <2>4, <3>1 DEF UpdateSquad, Write, At, RosterInv, SlotsShaped, Shaped, OfSquad, EventShape,
           TeamShape, SquadShape, PatchShape, MemberShape
      <3> QED
        BY <1>1, <2>4, <3>1, <3>2 DEF UpdateSquad, Patched, RosterTypeOK, SquadStatuses
    <2>5. CASE CreateSquad(s) \/ AddMember(s) \/ RemoveMember(s)
      BY <1>1, <2>5 DEF CreateSquad, AddMember, RemoveMember, RosterTypeOK
    <2> QED
      BY <1>3, <2>1, <2>2, <2>3, <2>4, <2>5 DEF RosterStep
  <1> QED
    BY <1>2, <1>3 DEF RosterNext

LEMMA AccessInvRoster ==
    ASSUME RosterInv, [RosterNext]_vars, AccessInv
    PROVE  AccessInv'
  <1>1. /\ Spares(AccessKinds) /\ contended \subseteq contended' /\ RosterTypeOK
        /\ \A t \in Slots : Busy(t)' /\ doing'[t].kind \in AccessKinds =>
              \A x \in doing[t].heeds \ contended' :
                 /\ x \in Events /\ status[x] # "none" => status'[x] = status[x]
                 /\ x \in Squads => \/ squad'[x] = squad[x] /\ members'[x] = members[x]
                                    \/ Dropped(x)
    <2>1. AccessKinds \cap RosterKinds = {}
      BY DEF AccessKinds
    <2> QED
      BY <2>1, RosterSpares DEF Spares, RosterInv
  <1> SUFFICES ASSUME NEW t \in Slots, Busy(t)', doing'[t].kind \in AccessKinds
               PROVE  AccessFact(doing[t])'
    BY DEF AccessInv, AccessFact, VoiceFact, MqttFact, AccessKinds
  <1>2. doing'[t] = doing[t] /\ Busy(t) /\ AccessFact(doing[t])
    BY <1>1 DEF Spares, Busy, AccessInv
  <1>3. ASSUME NEW c, c = doing[t] PROVE AccessFact(c)'
    <2>1. AccessFact(c) /\ c.kind \in AccessKinds
      BY <1>2, <1>3
    <2>2. /\ \A x \in c.heeds \cap Events :
                status[x] # "none" => status'[x] # "none" /\ (x \notin contended' => status'[x] = status[x])
          /\ \A x \in (c.heeds \cap Squads) \ contended' :
                (squad'[x] = squad[x] /\ members'[x] = members[x]) \/ Dropped(x)
      BY <1>1, <1>3, RosterGrows
    <2>3. VoiceFact(c)'
      <3> SUFFICES ASSUME c.kind = "voice" PROVE VoiceFact(c)'
        BY DEF VoiceFact
      <3>1. VoiceFact(c)
        BY <2>1 DEF AccessFact
      <3>2. c.room \in Squads /\ c.room \in c.heeds /\ c.room \notin contended'
               /\ squad[c.room] \in {"ACTIVE", "deleted"} => squad'[c.room] \in {"ACTIVE", "deleted"}
        BY <2>2 DEF Dropped
      <3> QED
        BY <1>1, <2>2, <3>1, <3>2 DEF VoiceFact
    <2>4. MqttFact(c)'
      <3> SUFFICES ASSUME c.kind = "mqtt" PROVE MqttFact(c)'
        BY DEF MqttFact
      <3>1. MqttFact(c) /\ c.event \in Events
        BY <2>1 DEF AccessFact, MqttFact
      <3>2. PICK q \in Squads :
              /\ c.squads = {q} /\ c.event = EventOfSquad(q) /\ c.heeds = {q, c.user, c.event}
              /\ {q, c.event} \cap contended = {} => squad[q] = "ACTIVE" /\ c.user \in members[q]
        BY <3>1 DEF MqttFact
      <3>3. ASSUME {q, c.event} \cap contended' = {}
            PROVE  squad'[q] = "ACTIVE" /\ c.user \in members'[q]
        <4>1. /\ squad[q] = "ACTIVE" /\ c.user \in members[q] /\ status[c.event] = "ACTIVE"
              /\ c.event \notin contended
          BY <1>1, <3>1, <3>2, <3>3 DEF MqttFact
        <4>2. squad'[q] # "deleted"
          <5>1. CASE RosterNext
            BY <3>2, <4>1, <5>1, ActiveKeepsSquads DEF Exists, SquadStatuses
          <5>2. CASE UNCHANGED vars
            BY <4>1, <5>2 DEF vars, rosterVars
          <5> QED
            BY <5>1, <5>2
        <4>3. ~Dropped(q)
          BY <4>1, <4>2 DEF Dropped, Exists, SquadStatuses
        <4> QED
          BY <2>2, <3>2, <3>3, <4>1, <4>3
      <3> QED
        BY <1>1, <2>2, <3>1, <3>2, <3>3 DEF MqttFact
    <2> QED
      BY <2>3, <2>4 DEF AccessFact
  <1> QED
    BY <1>2, <1>3

\* Who gets a grant may have it, if nobody is about what it relies on.
LEMMA GrantStep ==
    ASSUME RosterInv, AccessInv, NEW s \in Slots, AccessStep(s), NEW g, g = grant',
           g \notin {grant, NoGrant}, {g.for, g.event, g.user} \cap contended = {}
    PROVE  /\ status[g.event] = "ACTIVE"
           /\ IF g.publish THEN MaySpeak(g) ELSE g.user \in Staff
  <1> USE RosterConstants, AccessConstants
  <1>0. RosterTypeOK
    BY DEF RosterInv
  <1>1. CASE AskVoice(s)
    <2>1. PICK u \in Staff, e \in Events : status[e] = "ACTIVE" /\ g = Grant(e, e, u, TRUE)
      BY <1>1 DEF AskVoice
    <2> QED
      BY <2>1 DEF Grant, MaySpeak
  <1>2. CASE SignVoice(s)
    <2> DEFINE c == doing[s]
    <2>1. c.kind = "voice" /\ VoiceFact(c) /\ g = VoiceGrant(c)
      BY <1>2 DEF SignVoice, At, AccessInv, AccessFact, Busy
    <2>2. CASE \E q \in c.squads : c.user \in members[q]
      <3>1. g = Grant(c.room, c.event, c.user, TRUE)
        BY <2>1, <2>2 DEF VoiceGrant
      <3>2. g.for = c.room /\ g.room = c.room /\ g.event = c.event /\ g.user = c.user /\ g.publish = TRUE
        BY <3>1 DEF Grant
      <3>3. status[g.event] = "ACTIVE"
        BY <2>1, <3>2 DEF VoiceFact
      <3>4. CASE c.room \in Squads /\ c.squads = {c.room}
                 /\ (c.room \notin contended => squad[c.room] \in {"ACTIVE", "deleted"})
        <4>1. c.user \in members[c.room] /\ squad[c.room] \in {"ACTIVE", "deleted"}
          BY <2>2, <3>2, <3>4
        <4>2. squad[c.room] # "deleted"
          BY <1>0, <3>4, <4>1 DEF RosterTypeOK, Exists, SquadStatuses
        <4> QED
          BY <3>2, <3>3, <3>4, <4>1, <4>2 DEF MaySpeak
      <3>5. CASE c.room \in Teams /\ c.event = EventOf[c.room]
                 /\ c.squads = {q \in Squads : TeamOf[q] = c.room}
        <4>1. PICK q \in Squads : TeamOf[q] = c.room /\ c.user \in members[q]
          BY <2>2, <3>5
        <4>2. q \in SquadsOf(c.user, c.event)
          BY <3>5, <4>1 DEF SquadsOf, EventOfSquad
        <4>3. MaySpeak(g)
          BY <3>2, <3>5, <4>1, <4>2 DEF MaySpeak
        <4> QED
          BY <3>2, <3>3, <4>3
      <3> QED
        BY <2>1, <3>4, <3>5 DEF VoiceFact
    <2>3. CASE ~\E q \in c.squads : c.user \in members[q]
      <3>1. c.user \in Staff /\ g = Grant(c.room, c.event, c.user, FALSE)
        BY <2>1, <2>3 DEF VoiceGrant
      <3>2. g.event = c.event /\ g.user = c.user /\ g.publish = FALSE
        BY <3>1 DEF Grant
      <3> QED
        BY <2>1, <3>1, <3>2 DEF VoiceFact
    <2> QED
      BY <2>2, <2>3
  <1>3. CASE AskMqtt(s)
    BY <1>3 DEF AskMqtt
  <1>4. CASE SignMqtt(s)
    <2> DEFINE c == doing[s]
    <2>1. c.kind = "mqtt" /\ MqttFact(c)
      BY <1>4 DEF SignMqtt, At, AccessInv, AccessFact, Busy
    <2>2. PICK q \in c.squads : g = [Grant(NoOne, c.event, c.user, TRUE) EXCEPT !.for = q]
      BY <1>4 DEF SignMqtt
    <2>3. g.for = q /\ g.room = NoOne /\ g.event = c.event /\ g.user = c.user /\ g.publish = TRUE
      BY <2>2 DEF Grant
    <2>4. /\ q \in Squads /\ c.event = EventOfSquad(q) /\ squad[q] = "ACTIVE" /\ c.user \in members[q]
          /\ status[c.event] = "ACTIVE"
      <3>1. {q, c.event} \cap contended = {}
        BY <2>3
      <3> QED
        BY <2>1, <2>2, <3>1 DEF MqttFact
    <2>5. q \in SquadsOf(g.user, g.event)
      BY <2>3, <2>4 DEF SquadsOf
    <2>6. MaySpeak(g)
      BY <2>3, <2>4, <2>5 DEF MaySpeak
    <2> QED
      BY <2>3, <2>4, <2>6
  <1> QED
    BY <1>1, <1>2, <1>3, <1>4 DEF AccessStep

-----------------------------------------------------------------------------
(* What an event came to *)

\* The event under review has begun, and what would take it back has not.
DayInv ==
    /\ status[FixesOf] \in {"ACTIVE", "ENDED"}
    /\ \A s \in Slots : Busy(s) /\ doing[s].kind \in EventKinds /\ doing[s].event = FixesOf =>
          doing[s].kind = "end"

\* A mission somebody has tried is there.
ProgressParents ==
    /\ DOMAIN progress = Operators \X Tasks
    /\ \A x \in Operators \X Tasks : progress[x] # "none" => There(x[2])

Tied(f) == \E g \in fixes : g # f /\ g[2] = f[2]

\* Up to the cursor every fix that was there at the start has been seen, or
\* shares its time with another.
ReviewInv ==
    /\ fixes \subseteq Tracked \X (1..MaxTime) /\ IsFiniteSet(fixes)
    /\ review \in [on : BOOLEAN, cursor : Nat, start : SUBSET fixes, seen : SUBSET fixes, count : Nat]
    /\ review.count = Cardinality(review.seen)
    /\ review.on =>
          /\ \A f \in review.seen : f[2] <= review.cursor
          /\ \A f \in review.start \ review.seen : f[2] > review.cursor \/ Tied(f)
    /\ ~review.on /\ review.count > 0 => \A f \in review.start \ review.seen : Tied(f)

StandingInv == DayInv /\ ProgressParents /\ ReviewInv

LEMMA DayRoster ==
    ASSUME RosterInv, [RosterNext]_vars, DayInv
    PROVE  DayInv'
  <1>0. RosterTypeOK /\ SlotsShaped /\ FixesOf \in Events
    BY StandingConstants DEF RosterInv
  <1>1. status'[FixesOf] \in {"ACTIVE", "ENDED"}
    <2>1. CASE UNCHANGED status
      BY <2>1 DEF DayInv
    <2>2. ASSUME NEW e \in Events, CreateEvent(e) PROVE status'[FixesOf] \in {"ACTIVE", "ENDED"}
      BY <1>0, <2>2 DEF CreateEvent, DayInv, RosterTypeOK, EventTypeOK
    <2>3. ASSUME NEW s \in Slots, WriteEvent(s) PROVE status'[FixesOf] \in {"ACTIVE", "ENDED"}
      <3>1. status' # status => Busy(s) /\ doing[s].kind \in EventKinds
        BY <2>3 DEF WriteEvent, Busy
      <3>2. doing[s].event = FixesOf /\ status' # status => doing[s].kind = "end"
        BY <3>1 DEF DayInv
      <3> QED
        BY <1>0, <2>1, <2>3, <3>2 DEF WriteEvent, DayInv, RosterTypeOK, EventTypeOK, eventVars
    <2>4. ASSUME NEW s \in Slots, ReadEvent(s) \/ Crash(s) \/ RosterStep(s) PROVE UNCHANGED status
      BY <2>4 DEF ReadEvent, Crash, RosterStep, ReadSquad, CheckEvent, ReadMembers, CreateTeam,
         RemoveTeam, CreateSquad, UpdateSquad, RemoveSquad, AddMember, RemoveMember, Write, eventVars
    <2> QED
      BY <2>1, <2>2, <2>3, <2>4 DEF RosterNext, EventMove, EventStep, vars, eventVars
  <1>2. ASSUME NEW t \in Slots, Busy(t)', doing'[t].kind \in EventKinds, doing'[t].event = FixesOf
        PROVE  doing'[t].kind = "end"
    <2>1. CASE doing'[t] = doing[t]
      BY <1>2, <2>1 DEF DayInv, Busy
    <2>2. ASSUME NEW s \in Slots, Ends(s) PROVE doing'[t] = doing[t]
      BY <1>0, <1>2, <2>2 DEF Ends, Leave, SlotsShaped, Busy
    <2>3. ASSUME NEW s \in Slots, NEW c, ReadEvent(s), Begins(s, c) PROVE doing'[t].kind = "end"
      <3>1. CASE t # s
        BY <1>0, <2>1, <2>3, <3>1 DEF Begins, Begin, SlotsShaped
      <3>2. CASE t = s /\ ~Busy(s)'
        BY <1>2, <3>2
      <3>3. CASE t = s /\ Busy(s)'
        <4>1. ~Busy(s)
          BY <2>3 DEF ReadEvent, Busy
        <4>2. PICK k \in EventKinds, e \in Events :
                /\ status[e] \in Required(k)
                /\ doing'[s] = [kind |-> k, at |-> "event", event |-> e, about |-> {e}, heeds |-> {}]
          BY <1>0, <2>3, <3>3, <4>1 DEF ReadEvent, Begin, SlotsShaped, Busy
        <4> QED
          BY <1>2, <3>3, <4>2 DEF DayInv, Required
      <3> QED
        BY <3>1, <3>2, <3>3
    <2>4. ASSUME NEW s \in Slots, NEW c \in Requests, Begins(s, Noted(c)) PROVE doing'[t] = doing[t]
      <3>1. Noted(c).kind \notin EventKinds
        BY RequestsShaped DEF Requests, AnyCall, TeamCall, SquadCall, PatchCall, MemberCall
      <3> QED
        BY <1>0, <1>2, <2>4, <3>1 DEF Begins, Begin, SlotsShaped
    <2>5. ASSUME NEW s \in Slots, NEW p \in AtPlaces, GoesOn(s, p) PROVE doing'[t] = doing[t]
      <3>1. /\ doing' = [doing EXCEPT ![s] = [doing[s] EXCEPT !.at = p]]
            /\ [doing[s] EXCEPT !.at = p].kind = doing[s].kind
            /\ doing[s].kind \in RosterKinds \ EventKinds
        BY <1>0, <2>5, GotoShaped DEF GoesOn, Goto, SlotsShaped
      <3> QED
        BY <1>0, <1>2, <3>1 DEF SlotsShaped
    <2> QED
      BY <1>0, <2>1, <2>2, <2>3, <2>4, <2>5, RosterCases DEF vars
  <1> QED
    BY <1>1, <1>2 DEF DayInv

\* A step of another service leaves the day alone.
LEMMA DayStays ==
    ASSUME DayInv, UNCHANGED eventVars, Spares(RosterKinds)
    PROVE  DayInv'
  BY DEF DayInv, eventVars, Spares, Busy

LEMMA MaxIsMost ==
    ASSUME NEW S \in SUBSET Nat, S # {}, NEW n \in Nat, \A x \in S : x <= n
    PROVE  Max(S) \in S /\ \A y \in S : y <= Max(S)
  <1> DEFINE above(x) == {y \in 0..n : y > x}
             T == {above(x) : x \in S}
  <1>1. T \subseteq FiniteSubsetsOf(0..n) /\ T # {}
    <2>1. \A x \in S : above(x) \subseteq 0..n /\ IsFiniteSet(above(x))
      <3>1. IsFiniteSet(0..n)
        BY FS_Interval
      <3>2. \A x \in S : above(x) \in SUBSET (0..n)
        OBVIOUS
      <3> HIDE DEF above
      <3> QED
        BY <3>1, <3>2, FS_Subset
    <2> QED
      BY <2>1 DEF FiniteSubsetsOf
  <1> HIDE DEF T
  <1>2. PICK z \in T : \A y \in T : <<y, z>> \notin StrictSubsetOrdering(0..n)
    BY <1>1, FS_StrictSubsetOrderingWellFounded, WFMin
  <1> USE DEF T
  <1>3. PICK x \in S : z = above(x)
    BY <1>2
  <1>4. ASSUME NEW y \in S PROVE y <= x
    <2> SUFFICES ASSUME y > x PROVE FALSE
      OBVIOUS
    <2>1. above(y) \subseteq above(x) /\ y \in above(x) /\ y \notin above(y)
      OBVIOUS
    <2>2. <<above(y), z>> \in StrictSubsetOrdering(0..n)
      BY <1>3, <2>1 DEF StrictSubsetOrdering
    <2> QED
      BY <1>2, <2>2
  <1>5. Max(S) \in S /\ \A y \in S : Max(S) >= y
    BY <1>4 DEF Max
  <1> QED
    BY <1>5

LEMMA MinOfTwo ==
    ASSUME NEW a \in Nat, NEW b \in Nat
    PROVE  Min({a, b}) = IF a <= b THEN a ELSE b
  BY DEF Min

LEMMA ReadPageHolds ==
    ASSUME ReviewInv, ReadPage
    PROVE  ReviewInv'
  <1> DEFINE rows == {f \in fixes : f[2] > review.cursor}
             old == review.seen
  <1>1. PICK page \in SUBSET rows :
          /\ Cardinality(page) = Min({PageSize, Cardinality(rows)})
          /\ \A f \in page, g \in rows \ page : f[2] <= g[2]
          /\ review' = [review EXCEPT !.on = (rows \ page) # {},
                                      !.cursor = IF rows \ page = {} THEN @ ELSE NextCursor(page, rows \ page),
                                      !.seen = @ \cup page,
                                      !.count = @ + Cardinality(page)]
    BY Zenon DEF ReadPage
  <1> DEFINE rest == rows \ page
             next == IF rest = {} THEN review.cursor ELSE NextCursor(page, rest)
  <1>2. /\ review.on /\ fixes' = fixes /\ IsFiniteSet(fixes) /\ old \subseteq fixes
        /\ fixes \subseteq Tracked \X (1..MaxTime) /\ review.cursor \in Nat /\ review.count = Cardinality(old)
        /\ review \in [on : BOOLEAN, cursor : Nat, start : SUBSET fixes, seen : SUBSET fixes, count : Nat]
    BY DEF ReadPage, ReviewInv
  <1>3. IsFiniteSet(rows) /\ IsFiniteSet(page) /\ IsFiniteSet(old)
    <2>1. rows \in SUBSET fixes /\ page \in SUBSET fixes /\ old \in SUBSET fixes
      BY <1>2
    <2> HIDE DEF rows, old
    <2> QED
      BY <1>2, <2>1, FS_Subset
  <1>4. \A f \in fixes : f[2] \in 1..MaxTime
    BY <1>2
  <1>5. old \cap page = {}
    BY <1>2, <1>4 DEF ReviewInv
  <1>6. /\ Cardinality(old \cup page) = Cardinality(old) + Cardinality(page)
        /\ Cardinality(old \cup page) \in Nat
    <2> HIDE DEF old
    <2>1. Cardinality(old \cup page) = Cardinality(old) + Cardinality(page) - Cardinality(old \cap page)
      BY <1>3, FS_Union
    <2>2. Cardinality(old) \in Nat /\ Cardinality(page) \in Nat
      BY <1>3, FS_CardinalityType
    <2>3. Cardinality(old \cap page) = 0
      BY <1>5, FS_EmptySet
    <2> QED
      BY <2>1, <2>2, <2>3
  <1>7. rest # {} =>
          /\ next \in Nat /\ next > review.cursor
          /\ \E f \in page : f[2] = next
          /\ \A f \in page : f[2] <= next
    <2> SUFFICES ASSUME rest # {}
                 PROVE  /\ next \in Nat /\ next > review.cursor
                        /\ \E f \in page : f[2] = next
                        /\ \A f \in page : f[2] <= next
      OBVIOUS
    <2>1. page # {}
      <3>1. Cardinality(rows) \in Nat /\ Cardinality(rows) # 0 /\ PageSize \in Nat \ {0}
        BY <1>3, FS_CardinalityType, FS_EmptySet, StandingConstants
      <3>2. Cardinality(page) # 0
        BY <1>1, <3>1, MinOfTwo
      <3> QED
        BY <3>2, FS_EmptySet
    <2> DEFINE times == {f[2] : f \in page}
    <2>2. /\ times \in SUBSET Nat /\ times # {} /\ MaxTime \in Nat /\ \A x \in times : x <= MaxTime
          /\ \A x \in times : x > review.cursor
      BY <1>2, <1>4, <2>1, StandingConstants
    <2>3. Max(times) \in times /\ \A y \in times : y <= Max(times)
      <3> HIDE DEF times
      <3> QED
        BY <2>2, MaxIsMost
    <2>4. next = Max(times)
      BY DEF NextCursor
    <2> QED
      BY <2>2, <2>3, <2>4
  <1>8. next \in Nat
    BY <1>2, <1>7
  <1>9. /\ review'.on = (rest # {}) /\ review'.cursor = next /\ review'.start = review.start
        /\ review'.seen = old \cup page /\ review'.count = review.count + Cardinality(page)
        /\ review' \in [on : BOOLEAN, cursor : Nat, start : SUBSET fixes, seen : SUBSET fixes, count : Nat]
    <2>1. review' = [on |-> rest # {}, cursor |-> next, start |-> review.start, seen |-> old \cup page,
                     count |-> review.count + Cardinality(page)]
      BY <1>1, <1>2
    <2>2. (rest # {}) \in BOOLEAN /\ review.start \in SUBSET fixes /\ old \cup page \in SUBSET fixes
          /\ review.count + Cardinality(page) \in Nat
      BY <1>2, <1>6
    <2> HIDE DEF rest, next, old
    <2> QED
      BY <1>8, <2>1, <2>2
  <1>10. ASSUME NEW f \in review.start \ (old \cup page)
         PROVE  Tied(f) \/ (rest # {} /\ f[2] > next)
    <2>1. f \in fixes /\ f[2] \in Nat /\ (f[2] > review.cursor \/ Tied(f))
      BY <1>2, <1>4, <1>10 DEF ReviewInv
    <2>2. CASE f[2] > review.cursor
      <3>1. f \in rest
        BY <1>10, <2>1, <2>2
      <3>2. PICK g \in page : g[2] = next
        BY <1>7, <3>1
      <3>3. next <= f[2] /\ g # f /\ g \in fixes
        BY <1>1, <3>1, <3>2
      <3>4. CASE f[2] = next
        BY <3>2, <3>3, <3>4 DEF Tied
      <3>5. CASE f[2] # next
        BY <1>8, <2>1, <3>1, <3>3, <3>5
      <3> QED
        BY <3>4, <3>5
    <2> QED
      BY <2>1, <2>2
  <1>11. ASSUME rest # {}, NEW f \in old \cup page PROVE f[2] <= next
    <2>1. f \in old => f[2] \in Nat /\ f[2] <= review.cursor
      BY <1>2, <1>4 DEF ReviewInv
    <2> QED
      BY <1>2, <1>7, <1>8, <1>11, <2>1
  <1>12. \A f : Tied(f) => Tied(f)'
    BY <1>2 DEF Tied
  <1>13. review'.count = Cardinality(review'.seen)
    BY <1>2, <1>6, <1>9
  <1>14. review'.on =>
          /\ \A f \in review'.seen : f[2] <= review'.cursor
          /\ \A f \in review'.start \ review'.seen : f[2] > review'.cursor \/ Tied(f)'
    BY <1>9, <1>10, <1>11, <1>12
  <1>15. ~review'.on => \A f \in review'.start \ review'.seen : Tied(f)'
    BY <1>9, <1>10, <1>12
  <1> QED
    BY <1>2, <1>9, <1>13, <1>14, <1>15, Zenon DEF ReviewInv

LEMMA ReviewInvNext ==
    ASSUME ReviewInv, Reviewing
    PROVE  ReviewInv'
  <1>1. CASE \E f \in Tracked \X (1..MaxTime) : StoreFix(f)
    <2>1. PICK f \in Tracked \X (1..MaxTime) : fixes' = fixes \cup {f} /\ review' = review
      BY <1>1 DEF StoreFix
    <2>2. \A g : Tied(g) => Tied(g)'
      BY <2>1 DEF Tied
    <2>3. IsFiniteSet(fixes')
      BY <2>1, FS_AddElement DEF ReviewInv
    <2>4. review' \in [on : BOOLEAN, cursor : Nat, start : SUBSET fixes', seen : SUBSET fixes', count : Nat]
      BY <2>1 DEF ReviewInv
    <2> QED
      BY <2>1, <2>2, <2>3, <2>4 DEF ReviewInv
  <1>2. CASE StartReview
    <2>1. review' = [on |-> TRUE, cursor |-> 0, start |-> fixes, seen |-> {}, count |-> 0] /\ fixes' = fixes
      BY <1>2 DEF StartReview, NoReview
    <2>2. \A f \in fixes : f[2] > 0
      BY DEF ReviewInv
    <2>3. Cardinality({}) = 0
      BY FS_EmptySet
    <2> QED
      BY <2>1, <2>2, <2>3 DEF ReviewInv
  <1> QED
    BY <1>1, <1>2, ReadPageHolds DEF Reviewing

LEMMA PagesAreSound ==
    ASSUME ReviewInv
    PROVE  PagesMissOnlyTies
  BY DEF ReviewInv, PagesMissOnlyTies, Tied

LEMMA ProgressKept ==
    ASSUME ProgressParents, StandingCascade, status'[FixesOf] # "deleted"
    PROVE  ProgressParents' /\ fixes' = fixes /\ review' = review
  <1>1. /\ DOMAIN progress' = Operators \X Tasks
        /\ \A x \in Operators \X Tasks : progress'[x] # "none" => plan'[x[2]].state = "there"
    BY DEF StandingCascade
  <1>2. \A x \in Operators \X Tasks : progress'[x] # "none" => There(x[2])'
    BY <1>1 DEF There
  <1> QED
    BY <1>1, <1>2 DEF StandingCascade, ProgressParents

LEMMA ProgressMade ==
    ASSUME ProgressParents, Playing, UNCHANGED plan
    PROVE  ProgressParents'
  <1>1. PICK o \in Operators, m \in Tasks : Advance(o, m)
    BY DEF Playing
  <1>2. /\ DOMAIN progress' = Operators \X Tasks
        /\ \A x \in Operators \X Tasks : x # <<o, m>> => progress'[x] = progress[x]
        /\ There(m)
    BY <1>1 DEF Advance, ProgressParents
  <1>3. \A x \in Operators \X Tasks : progress'[x] # "none" => There(x[2])
    BY <1>2 DEF ProgressParents
  <1> QED
    BY <1>2, <1>3 DEF ProgressParents, There

\* The standings follow the roster and the places,
LEMMA StandingInvRoster ==
    ASSUME RosterInv, [RosterNext]_vars, StandingCascade, StandingInv
    PROVE  StandingInv'
  <1>1. DayInv'
    BY DayRoster DEF StandingInv
  <1>2. ProgressParents' /\ UNCHANGED <<fixes, review>>
    BY <1>1, ProgressKept DEF StandingInv, DayInv
  <1> QED
    BY <1>1, <1>2 DEF StandingInv, ReviewInv, Tied

LEMMA StandingInvPlaces ==
    ASSUME StandingCascade, StandingInv, UNCHANGED eventVars, Spares(RosterKinds)
    PROVE  StandingInv'
  <1>1. DayInv'
    BY DayStays DEF StandingInv
  <1>2. ProgressParents' /\ UNCHANGED <<fixes, review>>
    BY <1>1, ProgressKept DEF StandingInv, DayInv
  <1> QED
    BY <1>1, <1>2 DEF StandingInv, ReviewInv, Tied

\* move by themselves,
LEMMA StandingInvNext ==
    ASSUME StandingInv, Playing \/ Reviewing, UNCHANGED <<doing, eventVars, plan>>
    PROVE  StandingInv'
  <1>1. DayInv'
    BY DEF StandingInv, DayInv, Busy, eventVars
  <1>2. CASE Playing
    <2>1. ProgressParents' /\ UNCHANGED <<fixes, review>>
      BY <1>2, ProgressMade DEF StandingInv, Playing, Advance
    <2> QED
      BY <1>1, <2>1 DEF StandingInv, ReviewInv, Tied
  <1>3. CASE Reviewing
    <2>1. ReviewInv' /\ UNCHANGED progress
      BY <1>3, ReviewInvNext DEF StandingInv, Reviewing, StoreFix, StartReview, ReadPage
    <2> QED
      BY <1>1, <2>1 DEF StandingInv, ProgressParents, There
  <1> QED
    BY <1>2, <1>3

\* and nobody else changes them.
LEMMA StandingInvStays ==
    ASSUME StandingInv, UNCHANGED <<eventVars, plan, standingVars>>, Spares(RosterKinds)
    PROVE  StandingInv'
  <1>1. DayInv'
    BY DayStays DEF StandingInv
  <1> QED
    BY <1>1 DEF StandingInv, ReviewInv, Tied, ProgressParents, There, standingVars

-----------------------------------------------------------------------------
(* Profiles, friends and posts *)

SocialKinds == {"profile", "befriend", "answer", "code", "redeem"}
FriendRow == [from : People, to : People, status : {"PENDING", "ACCEPTED", "BLOCKED", "deleted"}]

SocialTyped ==
    /\ callsign \in [People -> Callsigns \cup {NoName}]
    /\ friendship \in Seq(FriendRow)
    /\ post \in [Posts -> [author : People \cup {NoName}, likes : Nat, comments : Nat]]
    /\ comment \in [Posts -> Nat] /\ IsFiniteSet(like)
    /\ referrer \in [People -> People \cup {NoName}]

\* Two friendships of the same two, if the two asked each other at once.
Both(u, v) == {<<u, v>>, <<v, u>>}
FriendsApart ==
    /\ \A i \in DOMAIN friendship : friendship[i].from # friendship[i].to
    /\ \A i, j \in Rows : i # j /\ Pair(i) = Pair(j) =>
          Both(friendship[i].from, friendship[i].to) \subseteq contended

ProfileFact(c) ==
    c.kind = "profile" => IsCall(c) /\ c.user \in People /\ c.name \in Callsigns

\* Past its check, a request found no friendship of the two.
BefriendFact(c) ==
    c.kind = "befriend" =>
        /\ IsCall(c) /\ {"from", "to"} \subseteq DOMAIN c
        /\ c.from \in Profiled /\ c.to \in Profiled /\ c.from # c.to
        /\ c.about = Both(c.from, c.to)
        /\ c.at = "writing" => \A i \in Rows : Pair(i) = {c.from, c.to} => c.about \subseteq contended

AnswerFact(c) ==
    c.kind = "answer" =>
        /\ c.id \in DOMAIN friendship /\ c.status \in {"ACCEPTED", "BLOCKED", "deleted"}
        /\ c.about = {<<c.id>>}
        /\ friendship[c.id].status = "PENDING" \/ <<c.id>> \in contended

ReferralFact(c) ==
    /\ c.kind = "code" => c.user \in Profiled
    /\ c.kind = "redeem" =>
          IsCall(c) /\ {"user", "by"} \subseteq DOMAIN c /\ c.user \in Profiled /\ c.by \in code \ {c.user}

SocialFact(c) == ProfileFact(c) /\ BefriendFact(c) /\ AnswerFact(c) /\ ReferralFact(c)

SocialInv ==
    /\ \A s \in Slots : Busy(s) => SocialFact(doing[s])
    /\ SocialTyped /\ SocialIsSound /\ FriendsApart

LEMMA SocialFactSame ==
    ASSUME NEW c, SocialFact(c), contended \subseteq contended', UNCHANGED socialVars
    PROVE  SocialFact(c)'
  <1>1. UNCHANGED <<callsign, friendship, code>>
    BY DEF socialVars
  <1>2. ProfileFact(c)' /\ AnswerFact(c)' /\ ReferralFact(c)'
    BY <1>1 DEF SocialFact, ProfileFact, AnswerFact, ReferralFact, Profiled
  <1>3. BefriendFact(c)'
    BY <1>1 DEF SocialFact, BefriendFact, Profiled, Rows, Pair
  <1> QED
    BY <1>2, <1>3 DEF SocialFact

LEMMA SocialInvStays ==
    ASSUME SocialInv, contended \subseteq contended', UNCHANGED socialVars,
           \A t \in Slots : Busy(t)' /\ doing'[t].kind \in SocialKinds =>
               (Busy(t) /\ doing'[t] = doing[t]) \/ SocialFact(doing[t])'
    PROVE  SocialInv'
  <1>1. ASSUME NEW t \in Slots, Busy(t)' PROVE SocialFact(doing[t])'
    <2>1. CASE doing'[t].kind \notin SocialKinds
      BY <2>1 DEF SocialFact, ProfileFact, BefriendFact, AnswerFact, ReferralFact, SocialKinds
    <2>2. CASE Busy(t) /\ doing'[t] = doing[t]
      BY <2>2, SocialFactSame DEF SocialInv
    <2> QED
      BY <1>1, <2>1, <2>2
  <1>2. UNCHANGED <<callsign, friendship, post, like, comment, code, referrer>>
    BY DEF socialVars
  <1>3. SocialTyped'
    BY <1>2 DEF SocialInv, SocialTyped
  <1>4. SocialIsSound'
    BY <1>2 DEF SocialInv, SocialIsSound, Profiled, Posted, Pair
  <1>5. FriendsApart'
    BY <1>2 DEF SocialInv, FriendsApart, Rows, Pair
  <1> QED
    BY <1>1, <1>3, <1>4, <1>5 DEF SocialInv

LEMMA SocialBegins ==
    ASSUME DOMAIN doing = Slots, SocialInv, NEW s \in Slots, NEW c, Begin(s, c), SocialFact(c),
           c.kind \in SocialKinds, UNCHANGED socialVars
    PROVE  SocialInv' /\ Handles(s, SocialKinds)
  <1>1. Handles(s, SocialKinds) /\ doing'[s] = c
    BY BeginMoves
  <1>2. SocialFact(doing[s])'
    BY <1>1, SocialFactSame DEF Handles
  <1>3. \A t \in Slots : t # s => doing'[t] = doing[t]
    BY <1>1 DEF Handles
  <1> QED
    BY <1>1, <1>2, <1>3, SocialInvStays DEF Handles, Busy

LEMMA SocialGoesOn ==
    ASSUME DOMAIN doing = Slots, SocialInv, NEW s \in Slots, NEW test, NEW p, Pass(s, test, p),
           Busy(s), IsCall(doing[s]), doing[s].kind \in SocialKinds, UNCHANGED socialVars,
           test => SocialFact([doing[s] EXCEPT !.at = p])
    PROVE  SocialInv' /\ Handles(s, SocialKinds)
  <1>1. Handles(s, SocialKinds) /\ (Busy(s)' => test /\ doing'[s] = [doing[s] EXCEPT !.at = p])
    BY PassMoves
  <1>2. Busy(s)' => SocialFact(doing[s])'
    BY <1>1, SocialFactSame DEF Handles
  <1>3. \A t \in Slots : t # s => doing'[t] = doing[t]
    BY <1>1 DEF Handles
  <1> QED
    BY <1>1, <1>2, <1>3, SocialInvStays DEF Handles, Busy

LEMMA SocialWritten ==
    ASSUME DOMAIN doing = Slots, NEW s \in Slots, Busy(s), doing[s].kind \in SocialKinds,
           Leave(s), UNCHANGED contended, SocialTyped', SocialIsSound', FriendsApart',
           \A d : Other(s, d) => SocialFact(d)'
    PROVE  SocialInv' /\ Handles(s, SocialKinds)
  <1>1. Handles(s, SocialKinds) /\ ~Busy(s)'
    BY LeaveMoves
  <1>2. \A t \in Slots : Busy(t)' => t # s /\ Busy(t) /\ doing'[t] = doing[t]
    BY <1>1 DEF Handles, Busy
  <1>3. ASSUME NEW t \in Slots, Busy(t)' PROVE SocialFact(doing[t])'
    <2>1. ASSUME NEW d, d = doing[t] PROVE SocialFact(d)'
      BY <1>2, <1>3, <2>1 DEF Other
    <2> QED
      BY <1>2, <1>3, <2>1
  <1> QED
    BY <1>1, <1>3 DEF SocialInv

LEMMA SocialAsks ==
    ASSUME DOMAIN doing = Slots, SocialInv, NEW s \in Slots,
           AskProfile(s) \/ AskFriend(s) \/ AskAnswer(s) \/ AskCode(s) \/ AskRedeem(s)
    PROVE  SocialInv' /\ Handles(s, SocialKinds)
  <1> USE DEF SocialFact, ProfileFact, BefriendFact, AnswerFact, ReferralFact, IsCall, Both
  <1>1. UNCHANGED socialVars
    BY DEF AskProfile, AskFriend, AskAnswer, AskCode, AskRedeem
  <1>2. CASE AskProfile(s)
    <2>1. PICK u \in People, n \in Callsigns :
            Begin(s, [kind |-> "profile", at |-> "callsign", user |-> u, name |-> n,
                      new |-> u \notin Profiled, about |-> {}, heeds |-> {}])
      BY <1>2 DEF AskProfile
    <2> DEFINE c == [kind |-> "profile", at |-> "callsign", user |-> u, name |-> n,
                     new |-> u \notin Profiled, about |-> {}, heeds |-> {}]
    <2>2. SocialFact(c) /\ c.kind \in SocialKinds
      BY DEF SocialKinds
    <2> HIDE DEF SocialFact
    <2> QED
      BY <1>1, <2>1, <2>2, SocialBegins
  <1>3. CASE AskFriend(s)
    <2>1. PICK u \in Profiled, v \in Profiled :
            /\ u # v
            /\ Begin(s, [kind |-> "befriend", at |-> "pair", from |-> u, to |-> v,
                         about |-> {<<u, v>>, <<v, u>>}, heeds |-> {}])
      BY <1>3 DEF AskFriend
    <2> DEFINE c == [kind |-> "befriend", at |-> "pair", from |-> u, to |-> v,
                     about |-> {<<u, v>>, <<v, u>>}, heeds |-> {}]
    <2>2. SocialFact(c) /\ c.kind \in SocialKinds
      BY <2>1 DEF SocialKinds
    <2> HIDE DEF SocialFact
    <2> QED
      BY <1>1, <2>1, <2>2, SocialBegins
  <1>4. CASE AskAnswer(s)
    <2>1. PICK i \in Rows, answer \in {"ACCEPTED", "BLOCKED", "deleted"} :
            /\ friendship[i].status = "PENDING"
            /\ Begin(s, [kind |-> "answer", at |-> "writing", id |-> i, status |-> answer,
                         about |-> {<<i>>}, heeds |-> {}])
      BY <1>4 DEF AskAnswer
    <2> DEFINE c == [kind |-> "answer", at |-> "writing", id |-> i, status |-> answer,
                     about |-> {<<i>>}, heeds |-> {}]
    <2>2. SocialFact(c) /\ c.kind \in SocialKinds
      BY <2>1 DEF SocialKinds, Rows
    <2> HIDE DEF SocialFact
    <2> QED
      BY <1>1, <2>1, <2>2, SocialBegins
  <1>5. CASE AskCode(s)
    <2>1. PICK u \in Profiled :
            Begin(s, [kind |-> "code", at |-> "writing", user |-> u, about |-> {}, heeds |-> {}])
      BY <1>5 DEF AskCode
    <2> DEFINE c == [kind |-> "code", at |-> "writing", user |-> u, about |-> {}, heeds |-> {}]
    <2>2. SocialFact(c) /\ c.kind \in SocialKinds
      BY <2>1 DEF SocialKinds
    <2> HIDE DEF SocialFact
    <2> QED
      BY <1>1, <2>1, <2>2, SocialBegins
  <1>6. CASE AskRedeem(s)
    <2>1. PICK u \in Profiled : \E v \in code \ {u} :
            Begin(s, [kind |-> "redeem", at |-> "already", user |-> u, by |-> v,
                      about |-> {}, heeds |-> {}])
      BY <1>6 DEF AskRedeem
    <2>2. PICK v \in code \ {u} :
            Begin(s, [kind |-> "redeem", at |-> "already", user |-> u, by |-> v,
                      about |-> {}, heeds |-> {}])
      BY <2>1
    <2> DEFINE c == [kind |-> "redeem", at |-> "already", user |-> u, by |-> v,
                     about |-> {}, heeds |-> {}]
    <2>3. SocialFact(c) /\ c.kind \in SocialKinds
      BY DEF SocialKinds
    <2> HIDE DEF SocialFact
    <2> QED
      BY <1>1, <2>2, <2>3, SocialBegins
  <1> QED
    BY <1>2, <1>3, <1>4, <1>5, <1>6

LEMMA SocialChecks ==
    ASSUME DOMAIN doing = Slots, SocialInv, NEW s \in Slots,
           CheckCallsign(s) \/ CheckPair(s) \/ CheckRedeemed(s)
    PROVE  SocialInv' /\ Handles(s, SocialKinds)
  <1> DEFINE c == doing[s]
             d == [c EXCEPT !.at = "writing"]
  <1>1. UNCHANGED socialVars /\ Busy(s) /\ SocialFact(c) /\ c.kind \in {"profile", "befriend", "redeem"}
    BY DEF CheckCallsign, CheckPair, CheckRedeemed, At, Busy, SocialInv
  <1>2. IsCall(c) /\ c.kind \in SocialKinds
    BY <1>1 DEF SocialFact, ProfileFact, BefriendFact, ReferralFact, SocialKinds
  <1>3. IsCall(d) /\ DOMAIN d = DOMAIN c /\ d.at = "writing" /\ \A x \in DOMAIN c : x # "at" => d[x] = c[x]
    BY <1>2, GoesKeeps
  <1>4. d.kind = c.kind /\ d.about = c.about
    BY <1>2, <1>3 DEF IsCall
  <1>5. CASE CheckCallsign(s)
    <2>1. c.kind = "profile" /\ Pass(s, \A u \in People : callsign[u] # c.name, "writing")
      BY <1>5 DEF CheckCallsign, At
    <2>2. d.user = c.user /\ d.name = c.name
      BY <1>2 DEF IsCall
    <2>3. SocialFact(d)
      <3> HIDE DEF d
      <3> QED
        BY <1>1, <1>3, <1>4, <2>1, <2>2 DEF SocialFact, ProfileFact, BefriendFact, AnswerFact, ReferralFact
    <2> QED
      BY <1>1, <1>2, <2>1, <2>3, SocialGoesOn
  <1>6. CASE CheckPair(s)
    <2>1. c.kind = "befriend" /\ Pass(s, StrangersYet(c), "writing") /\ BefriendFact(c)
      BY <1>1, <1>6 DEF CheckPair, At, SocialFact
    <2>2. d.from = c.from /\ d.to = c.to
      BY <1>3, <2>1 DEF BefriendFact
    <2>3. StrangersYet(c) => SocialFact(d)
      <3> HIDE DEF d
      <3> QED
        BY <1>1, <1>3, <1>4, <2>1, <2>2
           DEF SocialFact, ProfileFact, BefriendFact, AnswerFact, ReferralFact, StrangersYet
    <2> QED
      BY <1>1, <1>2, <2>1, <2>3, SocialGoesOn
  <1>7. CASE CheckRedeemed(s)
    <2>1. c.kind = "redeem" /\ Pass(s, referrer[c.user] = NoName, "writing") /\ ReferralFact(c)
      BY <1>1, <1>7 DEF CheckRedeemed, At, SocialFact
    <2>2. d.user = c.user /\ d.by = c.by
      BY <1>3, <2>1 DEF ReferralFact
    <2>3. SocialFact(d)
      <3> HIDE DEF d
      <3> QED
        BY <1>1, <1>3, <1>4, <2>1, <2>2 DEF SocialFact, ProfileFact, BefriendFact, AnswerFact, ReferralFact
    <2> QED
      BY <1>1, <1>2, <2>1, <2>3, SocialGoesOn
  <1> QED
    BY <1>5, <1>6, <1>7

\* Profiles and codes stay.
LEMMA SocialFactGrows ==
    ASSUME NEW d, SocialFact(d), UNCHANGED <<friendship, contended>>,
           \A u \in Profiled : u \in Profiled', code \subseteq code'
    PROVE  SocialFact(d)'
  <1>1. ProfileFact(d)' /\ AnswerFact(d)' /\ ReferralFact(d)'
    BY DEF SocialFact, ProfileFact, AnswerFact, ReferralFact
  <1>2. BefriendFact(d)'
    BY DEF SocialFact, BefriendFact, Rows, Pair
  <1> QED
    BY <1>1, <1>2 DEF SocialFact

LEMMA SaveProfileHolds ==
    ASSUME DOMAIN doing = Slots, SocialInv, NEW s \in Slots, SaveProfile(s)
    PROVE  SocialInv' /\ Handles(s, SocialKinds)
  <1> DEFINE c == doing[s]
  <1>1. /\ Busy(s) /\ c.kind \in SocialKinds /\ Leave(s)
        /\ UNCHANGED <<friendship, post, like, comment, code, referrer, contended>>
        /\ c.user \in People /\ c.name \in Callsigns /\ c.name # NoName
    BY SocialConstants DEF SaveProfile, At, Busy, SocialKinds, SocialInv, SocialFact, ProfileFact
  <1>2. SocialTyped /\ SocialIsSound /\ FriendsApart
    BY DEF SocialInv
  <1>3. \/ callsign' = callsign
        \/ /\ callsign' = [callsign EXCEPT ![c.user] = c.name]
           /\ \A u \in People \ {c.user} : callsign[u] # c.name
    BY DEF SaveProfile
  <1>4. callsign' \in [People -> Callsigns \cup {NoName}]
    BY <1>1, <1>2, <1>3 DEF SocialTyped
  <1>5. \A u \in Profiled : u \in Profiled'
    BY <1>1, <1>2, <1>3 DEF Profiled, SocialTyped
  <1>6. \A u, v \in Profiled' : callsign'[u] = callsign'[v] => u = v
    <2>1. CASE callsign' = callsign
      BY <1>2, <2>1 DEF Profiled, SocialIsSound
    <2>2. CASE /\ callsign' = [callsign EXCEPT ![c.user] = c.name]
               /\ \A u \in People \ {c.user} : callsign[u] # c.name
      <3> SUFFICES ASSUME NEW u \in People, NEW v \in People, callsign'[u] # NoName,
                          callsign'[u] = callsign'[v]
                   PROVE  u = v
        BY DEF Profiled
      <3>1. callsign'[c.user] = c.name /\ \A w \in People : w # c.user => callsign'[w] = callsign[w]
        BY <1>1, <1>2, <2>2 DEF SocialTyped
      <3>2. CASE u # c.user /\ v # c.user
        <4>1. u \in Profiled /\ v \in Profiled /\ callsign[u] = callsign[v]
          BY <3>1, <3>2 DEF Profiled
        <4> QED
          BY <1>2, <4>1 DEF SocialIsSound
      <3> QED
        BY <2>2, <3>1, <3>2
    <2> QED
      BY <1>3, <2>1, <2>2
  <1>7. SocialIsSound'
    <2>1. /\ \A p \in Posts :
               /\ post'[p].likes = Cardinality({l \in like' : l[1] = p})
               /\ post'[p].comments = comment'[p]
               /\ ~Posted(p)' => post'[p] = NoPost
      BY <1>1, <1>2 DEF SocialIsSound, Posted
    <2>2. code' \cup {post'[p].author : p \in {q \in Posts : Posted(q)'}} \subseteq Profiled'
      <3> HIDE DEF c
      <3>1. post' = post /\ code' = code
        BY <1>1
      <3>2. code \cup {post[p].author : p \in {q \in Posts : Posted(q)}} \subseteq Profiled
        BY <1>2 DEF SocialIsSound
      <3>3. \A q \in Posts : Posted(q)' <=> Posted(q)
        BY <3>1 DEF Posted
      <3> QED
        BY <1>5, <3>1, <3>2, <3>3
    <2>3. \A i \in DOMAIN friendship' : Cardinality(Pair(i)') = 2 /\ Pair(i)' \subseteq Profiled'
      <3>1. \A i \in DOMAIN friendship : Cardinality(Pair(i)) = 2 /\ Pair(i) \subseteq Profiled
        BY <1>2 DEF SocialIsSound
      <3>2. DOMAIN friendship' = DOMAIN friendship /\ \A i : Pair(i)' = Pair(i)
        BY <1>1 DEF Pair
      <3> QED
        BY <1>5, <3>1, <3>2
    <2>4. \A u \in People : referrer'[u] # NoName => referrer'[u] \in code' \ {u}
      BY <1>1, <1>2 DEF SocialIsSound
    <2> QED
      BY <1>6, <2>1, <2>2, <2>3, <2>4 DEF SocialIsSound
  <1>8. SocialTyped' /\ FriendsApart'
    BY <1>1, <1>2, <1>4 DEF SocialTyped, FriendsApart, Rows, Pair
  <1>9. \A d : Other(s, d) => SocialFact(d)'
    BY <1>1, <1>5, SocialFactGrows DEF Other, SocialInv
  <1> QED
    BY <1>1, <1>7, <1>8, <1>9, SocialWritten

LEMMA SaveReferralHolds ==
    ASSUME DOMAIN doing = Slots, SocialInv, NEW s \in Slots, SaveCode(s) \/ SaveRedeem(s)
    PROVE  SocialInv' /\ Handles(s, SocialKinds)
  <1> DEFINE c == doing[s]
  <1>1. /\ Busy(s) /\ c.kind \in {"code", "redeem"} /\ Leave(s)
        /\ UNCHANGED <<callsign, friendship, post, like, comment, contended>>
    BY DEF SaveCode, SaveRedeem, At, Busy
  <1>2. SocialTyped /\ SocialIsSound /\ FriendsApart /\ ReferralFact(c) /\ c.kind \in SocialKinds
    BY <1>1 DEF SocialInv, SocialFact, SocialKinds
  <1>3. code \subseteq code' /\ code' \subseteq Profiled /\ Profiled' = Profiled
    BY <1>1, <1>2 DEF SaveCode, SaveRedeem, At, ReferralFact, SocialIsSound, Profiled
  <1>4. /\ referrer' \in [People -> People \cup {NoName}]
        /\ \A u \in People : referrer'[u] # NoName => referrer'[u] \in code' \ {u}
    <2>1. CASE SaveCode(s)
      BY <1>2, <1>3, <2>1 DEF SaveCode, SocialTyped, SocialIsSound
    <2>2. CASE SaveRedeem(s)
      <3>1. c.user \in People /\ c.by \in code \ {c.user} /\ c.by \in People
        BY <1>2, <2>2 DEF SaveRedeem, At, ReferralFact, SocialIsSound, Profiled
      <3>2. referrer' = [referrer EXCEPT ![c.user] = IF @ = NoName THEN c.by ELSE @]
        BY <2>2 DEF SaveRedeem
      <3> QED
        BY <1>2, <1>3, <3>1, <3>2 DEF SocialTyped, SocialIsSound
    <2> QED
      BY <2>1, <2>2
  <1>5. SocialTyped' /\ FriendsApart'
    BY <1>1, <1>2, <1>4 DEF SocialTyped, FriendsApart, Rows, Pair
  <1>6. SocialIsSound'
    BY <1>1, <1>2, <1>3, <1>4 DEF SocialIsSound, Posted, Pair
  <1>7. \A d : Other(s, d) => SocialFact(d)'
    BY <1>1, <1>3, SocialFactGrows DEF Other, SocialInv
  <1> QED
    BY <1>1, <1>2, <1>5, <1>6, <1>7, SocialWritten

\* What writing a friendship or an answer does to the rows.
LEMMA FriendshipWritten ==
    ASSUME DOMAIN doing = Slots, SocialInv, NEW s \in Slots, NEW c, c = doing[s],
           SaveFriend(s) \/ SaveAnswer(s)
    PROVE  /\ Busy(s) /\ SocialFact(c) /\ Leave(s)
           /\ UNCHANGED <<callsign, post, like, comment, code, referrer, contended>>
           /\ friendship' \in Seq(FriendRow) /\ DOMAIN friendship \subseteq DOMAIN friendship'
           /\ \A i \in DOMAIN friendship :
                 /\ friendship'[i].from = friendship[i].from /\ friendship'[i].to = friendship[i].to
                 /\ friendship[i].status = "deleted" => friendship'[i] = friendship[i]
                 /\ friendship'[i] # friendship[i] => c.kind = "answer" /\ c.id = i
           /\ \A i \in DOMAIN friendship' \ DOMAIN friendship :
                 /\ c.kind = "befriend" /\ c.at = "writing"
                 /\ friendship'[i].from = c.from /\ friendship'[i].to = c.to
                 /\ friendship'[i].status = "PENDING"
                 /\ DOMAIN friendship' = DOMAIN friendship \cup {i}
  <1>1. /\ Busy(s) /\ SocialFact(c) /\ Leave(s)
        /\ UNCHANGED <<callsign, post, like, comment, code, referrer, contended>>
        /\ friendship \in Seq(FriendRow)
    BY DEF SaveFriend, SaveAnswer, At, Busy, SocialInv, SocialTyped
  <1>2. CASE friendship' = friendship
    BY <1>1, <1>2
  <1>3. CASE SaveFriend(s) /\ friendship' # friendship
    <2> DEFINE row == [from |-> c.from, to |-> c.to, status |-> "PENDING"]
               n == Len(friendship) + 1
    <2>1. friendship' = Append(friendship, row) /\ c.kind = "befriend" /\ c.at = "writing"
      BY <1>3 DEF SaveFriend, At
    <2>2. row \in FriendRow
      BY <1>1, <2>1 DEF SocialFact, BefriendFact, Profiled, FriendRow
    <2>3. /\ friendship' \in Seq(FriendRow) /\ DOMAIN friendship' = 1..n
          /\ DOMAIN friendship = 1..(n - 1) /\ friendship'[n] = row
          /\ \A i \in 1..(n - 1) : friendship'[i] = friendship[i]
      <3> HIDE DEF row
      <3> QED
        BY <1>1, <2>1, <2>2
    <2>4. Len(friendship) \in Nat
      BY <1>1
    <2>5. DOMAIN friendship' = DOMAIN friendship \cup {n} /\ n \notin DOMAIN friendship
      BY <2>3, <2>4
    <2>6. friendship'[n].from = c.from /\ friendship'[n].to = c.to /\ friendship'[n].status = "PENDING"
      BY <2>3
    <2> HIDE DEF n, row
    <2> QED
      BY <1>1, <2>1, <2>3, <2>5, <2>6
  <1>4. CASE SaveAnswer(s) /\ friendship' # friendship
    <2>1. /\ c.kind = "answer" /\ c.id \in Rows
          /\ friendship' = [friendship EXCEPT ![c.id].status = c.status]
      BY <1>4 DEF SaveAnswer, At
    <2>2. c.id \in DOMAIN friendship /\ c.status \in {"ACCEPTED", "BLOCKED", "deleted"}
          /\ friendship[c.id].status # "deleted"
      BY <1>1, <2>1 DEF SocialFact, AnswerFact, Rows
    <2> DEFINE row == [friendship[c.id] EXCEPT !.status = c.status]
    <2>3. friendship[c.id] \in FriendRow
      BY <1>1, <2>2
    <2>4. row \in FriendRow /\ row.from = friendship[c.id].from /\ row.to = friendship[c.id].to
      BY <2>2, <2>3 DEF FriendRow
    <2>5. friendship' = [friendship EXCEPT ![c.id] = row]
      BY <2>1
    <2> HIDE DEF row
    <2>6. /\ DOMAIN friendship' = DOMAIN friendship /\ friendship'[c.id] = row
          /\ \A i \in DOMAIN friendship : i # c.id => friendship'[i] = friendship[i]
      BY <1>1, <2>2, <2>5
    <2>7. friendship' \in Seq(FriendRow)
      <3>1. \A i \in 1..Len(friendship) : friendship'[i] \in FriendRow
        BY <1>1, <2>4, <2>6
      <3>2. DOMAIN friendship' = 1..Len(friendship) /\ Len(friendship) \in Nat
        BY <1>1, <2>6
      <3>3. friendship \in [1..Len(friendship) -> FriendRow]
        BY <1>1
      <3>4. friendship' \in [1..Len(friendship) -> FriendRow]
        BY <2>2, <2>4, <2>5, <3>2, <3>3
      <3> QED
        BY <3>2, <3>4
    <2> QED
      BY <1>1, <2>1, <2>2, <2>4, <2>6, <2>7
  <1> QED
    BY <1>2, <1>3, <1>4

LEMMA TwoAreTwo ==
    ASSUME NEW a, NEW b, a # b
    PROVE  Cardinality({a, b}) = 2
  <1>1. IsFiniteSet({a}) /\ Cardinality({a}) = 1
    BY FS_Singleton
  <1>2. {a, b} = {a} \cup {b} /\ b \notin {a}
    OBVIOUS
  <1>3. Cardinality({a} \cup {b}) = 1 + 1
    BY <1>1, <1>2, FS_AddElement
  <1> QED
    BY <1>2, <1>3

LEMMA SameTwoBoth ==
    ASSUME NEW a, NEW b, NEW u, NEW v, {a, b} = {u, v}, a # b
    PROVE  Both(a, b) = Both(u, v)
  <1>1. (a = u /\ b = v) \/ (a = v /\ b = u)
    OBVIOUS
  <1> QED
    BY <1>1 DEF Both

\* The rows a call writes keep what is known of friendships, and of the other
\* calls about them.
LEMMA FriendshipHolds ==
    ASSUME DOMAIN doing = Slots, Rivals, SocialInv, NEW s \in Slots, SaveFriend(s) \/ SaveAnswer(s)
    PROVE  SocialInv' /\ Handles(s, SocialKinds)
  <1>0. PICK c : c = doing[s]
    OBVIOUS
  <1>1. /\ Busy(s) /\ SocialFact(c) /\ Leave(s)
        /\ UNCHANGED <<callsign, post, like, comment, code, referrer, contended>>
        /\ friendship' \in Seq(FriendRow) /\ DOMAIN friendship \subseteq DOMAIN friendship'
    BY <1>0, FriendshipWritten
  <1>2. \A i \in DOMAIN friendship :
            /\ friendship'[i].from = friendship[i].from /\ friendship'[i].to = friendship[i].to
            /\ friendship[i].status = "deleted" => friendship'[i] = friendship[i]
            /\ friendship'[i] # friendship[i] => c.kind = "answer" /\ c.id = i
    BY <1>0, FriendshipWritten
  <1>3. \A i \in DOMAIN friendship' \ DOMAIN friendship :
            /\ c.kind = "befriend" /\ c.at = "writing"
            /\ friendship'[i].from = c.from /\ friendship'[i].to = c.to
            /\ DOMAIN friendship' = DOMAIN friendship \cup {i}
    BY ZenonT(40), <1>0, FriendshipWritten
  <1>4. /\ Profiled' = Profiled /\ Profiled \subseteq People
        /\ SocialTyped /\ SocialIsSound /\ FriendsApart
    BY <1>1 DEF Profiled, SocialInv
  <1>5. \A i \in DOMAIN friendship : Pair(i)' = Pair(i) /\ (i \in Rows' => i \in Rows)
    BY <1>2 DEF Pair, Rows
  <1>6. \A i \in DOMAIN friendship' \ DOMAIN friendship :
            /\ Pair(i)' = {c.from, c.to} /\ c.from # c.to /\ c.from \in Profiled /\ c.to \in Profiled
            /\ c.about = Both(c.from, c.to)
            /\ \A j \in Rows : Pair(j) = {c.from, c.to} => c.about \subseteq contended
    BY <1>1, <1>3 DEF Pair, SocialFact, BefriendFact
  <1>7. SocialTyped'
    BY <1>1, <1>4 DEF SocialTyped
  <1>8. \A i \in DOMAIN friendship' : friendship'[i].from # friendship'[i].to
    BY <1>2, <1>3, <1>4, <1>6 DEF FriendsApart
  <1>9. SocialIsSound'
    <2>1. ASSUME NEW i \in DOMAIN friendship'
          PROVE  Cardinality(Pair(i)') = 2 /\ Pair(i)' \subseteq Profiled'
      <3>1. CASE i \in DOMAIN friendship
        BY <1>4, <1>5, <3>1 DEF SocialIsSound
      <3>2. CASE i \notin DOMAIN friendship
        <4>1. /\ Pair(i)' = {c.from, c.to} /\ c.from # c.to
              /\ c.from \in Profiled /\ c.to \in Profiled
          BY <1>6, <3>2
        <4>2. Cardinality({c.from, c.to}) = 2
          BY <4>1, TwoAreTwo
        <4> QED
          BY <1>4, <4>1, <4>2
      <3> QED
        BY <3>1, <3>2
    <2>2. post' = post /\ like' = like /\ comment' = comment /\ callsign' = callsign /\ code' = code
          /\ referrer' = referrer
      BY <1>1
    <2>3. /\ \A p \in Posts :
               /\ post'[p].likes = Cardinality({l \in like' : l[1] = p})
               /\ post'[p].comments = comment'[p]
               /\ ~Posted(p)' => post'[p] = NoPost
          /\ code' \cup {post'[p].author : p \in {q \in Posts : Posted(q)'}} \subseteq Profiled'
      BY <1>4, <2>2 DEF SocialIsSound, Posted
    <2>4. /\ \A u, v \in Profiled' : callsign'[u] = callsign'[v] => u = v
          /\ \A u \in People : referrer'[u] # NoName => referrer'[u] \in code' \ {u}
      BY <1>4, <2>2 DEF SocialIsSound
    <2> QED
      BY <2>1, <2>3, <2>4 DEF SocialIsSound
  <1>10. FriendsApart'
    <2>1. ASSUME NEW i \in Rows', NEW j \in Rows', i # j, Pair(i)' = Pair(j)'
          PROVE  Both(friendship'[i].from, friendship'[i].to) \subseteq contended'
      <3>1. i \in DOMAIN friendship' /\ j \in DOMAIN friendship' /\ contended' = contended
        BY <1>1, <2>1 DEF Rows
      <3>2. CASE i \in DOMAIN friendship /\ j \in DOMAIN friendship
        <4>1. i \in Rows /\ j \in Rows /\ Pair(i) = Pair(j)
          BY <1>5, <2>1, <3>2
        <4> QED
          BY <1>2, <1>4, <2>1, <3>1, <3>2, <4>1 DEF FriendsApart
      <3>3. CASE i \notin DOMAIN friendship
        <4>1. j \in DOMAIN friendship /\ j \in Rows
          BY <1>3, <1>5, <2>1, <3>1, <3>3
        <4>2. Pair(j) = {c.from, c.to}
          BY <1>5, <1>6, <2>1, <3>1, <3>3, <4>1
        <4>3. c.about \subseteq contended /\ c.about = Both(c.from, c.to)
          BY <1>6, <3>1, <3>3, <4>1, <4>2
        <4> QED
          BY <1>3, <3>1, <3>3, <4>3
      <3>4. CASE i \in DOMAIN friendship /\ j \notin DOMAIN friendship
        <4>1. i \in Rows /\ Pair(i) = {c.from, c.to}
          BY <1>5, <1>6, <2>1, <3>1, <3>4
        <4>2. c.about \subseteq contended /\ c.about = Both(c.from, c.to) /\ c.from # c.to
          BY <1>6, <3>1, <3>4, <4>1
        <4>3. Both(friendship[i].from, friendship[i].to) = Both(c.from, c.to)
          BY <1>4, <3>4, <4>1, <4>2, SameTwoBoth DEF FriendsApart, Pair
        <4> QED
          BY <1>2, <3>1, <3>4, <4>2, <4>3
      <3> QED
        BY <3>2, <3>3, <3>4
    <2> QED
      BY <1>8, <2>1 DEF FriendsApart
  <1>11. ASSUME NEW d, Other(s, d) PROVE SocialFact(d)'
    <2>1. SocialFact(d) /\ Disputed(c, d) \subseteq contended /\ contended' = contended
      BY <1>0, <1>1, <1>11 DEF Other, Rivals, SocialInv
    <2>2. ProfileFact(d)' /\ ReferralFact(d)'
      BY <1>1, <1>4, <2>1 DEF SocialFact, ProfileFact, ReferralFact
    <2>3. AnswerFact(d)'
      <3> SUFFICES ASSUME d.kind = "answer"
                   PROVE  /\ d.id \in DOMAIN friendship' /\ d.status \in {"ACCEPTED", "BLOCKED", "deleted"}
                          /\ d.about = {<<d.id>>}
                          /\ friendship'[d.id].status = "PENDING" \/ <<d.id>> \in contended'
        BY DEF AnswerFact
      <3>1. /\ d.id \in DOMAIN friendship /\ d.status \in {"ACCEPTED", "BLOCKED", "deleted"}
            /\ d.about = {<<d.id>>}
            /\ friendship[d.id].status = "PENDING" \/ <<d.id>> \in contended
        BY <2>1 DEF SocialFact, AnswerFact
      <3>2. friendship'[d.id] # friendship[d.id] => <<d.id>> \in contended
        <4> HAVE friendship'[d.id] # friendship[d.id]
        <4>1. c.kind = "answer" /\ c.id = d.id
          BY <1>2, <3>1
        <4>2. c.about = {<<d.id>>}
          BY <1>1, <4>1 DEF SocialFact, AnswerFact
        <4> QED
          BY <2>1, <3>1, <4>2 DEF Disputed
      <3> QED
        BY <1>1, <2>1, <3>1, <3>2
    <2>4. BefriendFact(d)'
      <3> SUFFICES ASSUME d.kind = "befriend", d.at = "writing", NEW i \in Rows',
                          Pair(i)' = {d.from, d.to}
                   PROVE  d.about \subseteq contended
        BY <1>1, <1>4, <2>1 DEF SocialFact, BefriendFact
      <3>1. /\ d.about = Both(d.from, d.to) /\ d.from # d.to
            /\ \A j \in Rows : Pair(j) = {d.from, d.to} => d.about \subseteq contended
        BY <2>1 DEF SocialFact, BefriendFact
      <3>2. i \in DOMAIN friendship'
        BY DEF Rows
      <3>3. CASE i \in DOMAIN friendship
        BY <1>5, <3>1, <3>3
      <3>4. CASE i \notin DOMAIN friendship
        <4>1. c.about = Both(c.from, c.to) /\ {d.from, d.to} = {c.from, c.to}
          BY <1>6, <3>2, <3>4
        <4>2. d.about = c.about
          BY <3>1, <4>1, SameTwoBoth
        <4> QED
          BY <2>1, <4>2 DEF Disputed
      <3> QED
        BY <3>3, <3>4
    <2> QED
      BY <2>2, <2>3, <2>4 DEF SocialFact
  <1>12. c.kind \in SocialKinds
    BY <1>0, <1>1 DEF SaveFriend, SaveAnswer, At, SocialKinds
  <1> QED
    BY <1>0, <1>1, <1>7, <1>9, <1>10, <1>11, <1>12, SocialWritten

-----------------------------------------------------------------------------
(* The feed *)

\* Writing a post, a like or a comment keeps its counters in step.
LEMMA FeedHolds ==
    ASSUME SocialTyped, SocialIsSound, NEW u \in Profiled, FeedStep(u)
    PROVE  /\ SocialTyped' /\ SocialIsSound'
           /\ UNCHANGED <<callsign, friendship, code, referrer>>
  <1>1. PICK p \in Posts : CreatePost(u, p) \/ LikePost(u, p) \/ UnlikePost(u, p) \/ CommentOnPost(u, p)
    BY DEF FeedStep
  <1>2. UNCHANGED <<callsign, friendship, code, referrer>>
    BY <1>1 DEF CreatePost, LikePost, UnlikePost, CommentOnPost
  <1>3. u \in People /\ u # NoName /\ Profiled' = Profiled /\ Posted(p)' = (post'[p].author # NoName)
    BY <1>2, SocialConstants DEF Profiled, Posted
  <1> DEFINE Mine == {l \in like : l[1] = p}
             Row == [author : People \cup {NoName}, likes : Nat, comments : Nat]
  <1>4. IsFiniteSet(Mine) /\ Cardinality(Mine) \in Nat /\ post[p] \in Row /\ comment[p] \in Nat
        /\ post[p].likes = Cardinality(Mine)
    <2>1. IsFiniteSet(Mine)
      BY FS_Subset DEF SocialTyped
    <2> QED
      BY <2>1, FS_CardinalityType DEF SocialTyped, SocialIsSound
  <1>5. PICK row : row = post'[p]
    OBVIOUS
  <1>6. /\ row \in Row /\ post' = [post EXCEPT ![p] = row]
        /\ row.likes = Cardinality({l \in like' : l[1] = p}) /\ row.comments = comment'[p]
        /\ row.author # NoName /\ row.author \in Profiled
        /\ IsFiniteSet(like') /\ comment' \in [Posts -> Nat]
        /\ \A q \in Posts \ {p} : {l \in like' : l[1] = q} = {l \in like : l[1] = q} /\ comment'[q] = comment[q]
    <2>1. Posted(p) => post[p].author \in Profiled /\ post[p].author # NoName
      BY DEF SocialIsSound, Posted
    <2>2. CASE CreatePost(u, p)
      BY <1>3, <1>4, <1>5, <2>2 DEF CreatePost, SocialTyped, SocialIsSound
    <2>3. CASE LikePost(u, p)
      <3>1. {l \in like' : l[1] = p} = Mine \cup {<<p, u>>} /\ <<p, u>> \notin Mine
        BY <2>3 DEF LikePost
      <3>2. Cardinality(Mine \cup {<<p, u>>}) = Cardinality(Mine) + 1
        BY <1>4, <3>1, FS_AddElement
      <3>3. IsFiniteSet(like')
        BY <2>3, FS_AddElement DEF LikePost, SocialTyped
      <3>4. \A q \in Posts \ {p} : {l \in like' : l[1] = q} = {l \in like : l[1] = q}
        BY <2>3 DEF LikePost
      <3>5. /\ row = [post[p] EXCEPT !.likes = @ + 1] /\ post' = [post EXCEPT ![p] = row]
            /\ comment' = comment /\ comment \in [Posts -> Nat] /\ post[p].comments = comment[p]
        BY <1>5, <2>3 DEF LikePost, SocialTyped, SocialIsSound
      <3>6. /\ row \in Row /\ row.likes = Cardinality(Mine) + 1 /\ row.comments = post[p].comments
            /\ row.author = post[p].author
        <4> HIDE DEF Mine
        <4> QED
          BY <1>4, <3>5
      <3> QED
        BY <2>1, <2>3, <3>1, <3>2, <3>3, <3>4, <3>5, <3>6 DEF LikePost
    <2>4. CASE UnlikePost(u, p)
      <3>1. {l \in like' : l[1] = p} = Mine \ {<<p, u>>} /\ <<p, u>> \in Mine
        BY <2>4 DEF UnlikePost
      <3>2. Cardinality(Mine \ {<<p, u>>}) = Cardinality(Mine) - 1
        BY <1>4, <3>1, FS_RemoveElement
      <3>3. IsFiniteSet(like') /\ Cardinality(Mine \ {<<p, u>>}) \in Nat
        BY <1>4, <2>4, FS_RemoveElement, FS_CardinalityType DEF UnlikePost, SocialTyped
      <3>4. \A q \in Posts \ {p} : {l \in like' : l[1] = q} = {l \in like : l[1] = q}
        BY <2>4 DEF UnlikePost
      <3>5. /\ row = [post[p] EXCEPT !.likes = @ - 1] /\ post' = [post EXCEPT ![p] = row]
            /\ comment' = comment /\ comment \in [Posts -> Nat] /\ post[p].comments = comment[p]
        BY <1>5, <2>4 DEF UnlikePost, SocialTyped, SocialIsSound
      <3>6. /\ row \in Row /\ row.likes = Cardinality(Mine) - 1 /\ row.comments = post[p].comments
            /\ row.author = post[p].author
        <4> HIDE DEF Mine
        <4> QED
          BY <1>4, <3>2, <3>3, <3>5
      <3>7. Posted(p)
        <4> SUFFICES ASSUME ~Posted(p) PROVE FALSE
          OBVIOUS
        <4>1. Cardinality(Mine) = 0
          BY <1>4 DEF SocialIsSound, NoPost
        <4>2. Mine = {}
          BY <1>4, <4>1, FS_EmptySet
        <4> QED
          BY <3>1, <4>2
      <3> QED
        BY <2>1, <3>1, <3>2, <3>3, <3>4, <3>5, <3>6, <3>7
    <2>5. CASE CommentOnPost(u, p)
      <3>1. /\ row = [post[p] EXCEPT !.comments = @ + 1] /\ post' = [post EXCEPT ![p] = row]
            /\ comment' = [comment EXCEPT ![p] = @ + 1] /\ comment \in [Posts -> Nat]
            /\ post[p].comments = comment[p]
            /\ like' = like /\ IsFiniteSet(like) /\ Posted(p)
        BY <1>5, <2>5 DEF CommentOnPost, SocialTyped, SocialIsSound
      <3>2. /\ row \in Row /\ row.likes = post[p].likes /\ row.comments = post[p].comments + 1
            /\ row.author = post[p].author
        <4> HIDE DEF Mine
        <4> QED
          BY <1>4, <3>1
      <3>3. /\ comment' \in [Posts -> Nat] /\ comment'[p] = comment[p] + 1
            /\ \A q \in Posts \ {p} : comment'[q] = comment[q]
        BY <1>4, <3>1
      <3> QED
        BY <1>4, <2>1, <3>1, <3>2, <3>3
    <2> QED
      BY <1>1, <2>2, <2>3, <2>4, <2>5
  <1> HIDE DEF Mine
  <1>7. post \in [Posts -> Row] /\ post'[p] = row /\ \A q \in Posts \ {p} : post'[q] = post[q]
    BY <1>6 DEF SocialTyped
  <1>8. SocialTyped'
    BY <1>2, <1>6, <1>7 DEF SocialTyped
  <1>9. \A q \in Posts : /\ post'[q].likes = Cardinality({l \in like' : l[1] = q})
                         /\ post'[q].comments = comment'[q]
                         /\ ~Posted(q)' => post'[q] = NoPost
    <2> SUFFICES ASSUME NEW q \in Posts
                 PROVE  /\ post'[q].likes = Cardinality({l \in like' : l[1] = q})
                        /\ post'[q].comments = comment'[q]
                        /\ ~Posted(q)' => post'[q] = NoPost
      OBVIOUS
    <2>1. CASE q = p
      BY <1>6, <1>7, <2>1 DEF Posted
    <2>2. CASE q # p
      <3>1. /\ post[q].likes = Cardinality({l \in like : l[1] = q})
            /\ post[q].comments = comment[q]
            /\ post[q].author = NoName => post[q] = NoPost
        BY DEF SocialIsSound, Posted
      <3>2. /\ post'[q] = post[q] /\ comment'[q] = comment[q]
            /\ {l \in like' : l[1] = q} = {l \in like : l[1] = q}
        BY <1>6, <1>7, <2>2
      <3>3. Posted(q)' = (post'[q].author # NoName)
        BY DEF Posted
      <3> HIDE DEF Row
      <3> QED
        BY <3>1, <3>2, <3>3
    <2> QED
      BY <2>1, <2>2
  <1>10. code' \cup {post'[q].author : q \in {q \in Posts : Posted(q)'}} \subseteq Profiled'
    <2>1. \A q \in Posts : Posted(q) => post[q].author \in Profiled
      BY DEF SocialIsSound
    <2>2. \A q \in Posts : Posted(q)' => post'[q].author \in Profiled
      BY <1>6, <1>7, <2>1 DEF Posted
    <2>3. code \subseteq Profiled
      BY DEF SocialIsSound
    <2> QED
      BY <1>2, <1>3, <2>2, <2>3
  <1>11. /\ \A w, v \in Profiled' : callsign'[w] = callsign'[v] => w = v
         /\ \A i \in DOMAIN friendship' : Cardinality(Pair(i)') = 2 /\ Pair(i)' \subseteq Profiled'
         /\ \A w \in People : referrer'[w] # NoName => referrer'[w] \in code' \ {w}
    BY <1>2, <1>3 DEF SocialIsSound, Pair
  <1> QED
    BY <1>2, <1>8, <1>9, <1>10, <1>11 DEF SocialIsSound

LEMMA SocialInvNext ==
    ASSUME DOMAIN doing = Slots, Rivals, SocialInv, NEW s \in Slots, SocialStep(s)
    PROVE  SocialInv' /\ Handles(s, SocialKinds)
  BY SocialAsks, SocialChecks, SaveProfileHolds, SaveReferralHolds, FriendshipHolds DEF SocialStep

LEMMA SocialInvFeed ==
    ASSUME SocialInv, NEW u \in Profiled, FeedStep(u), UNCHANGED <<doing, contended>>
    PROVE  SocialInv'
  <1>1. SocialTyped' /\ SocialIsSound' /\ UNCHANGED <<callsign, friendship, code, referrer>>
    BY FeedHolds DEF SocialInv
  <1>2. FriendsApart'
    BY <1>1 DEF SocialInv, FriendsApart, Rows, Pair
  <1>3. ASSUME NEW t \in Slots, Busy(t)' PROVE SocialFact(doing[t])'
    <2>1. ASSUME NEW d, SocialFact(d) PROVE SocialFact(d)'
      BY <1>1, <2>1, SocialFactGrows DEF Profiled
    <2>2. ASSUME NEW d, d = doing[t] PROVE SocialFact(d)'
      BY <1>3, <2>1, <2>2 DEF SocialInv, Busy
    <2> QED
      BY <1>3, <2>2
  <1> QED
    BY <1>1, <1>2, <1>3 DEF SocialInv

LEMMA SocialInvCalls ==
    ASSUME SocialInv, UNCHANGED socialVars, Spares(SocialKinds)
    PROVE  SocialInv'
  BY SocialInvStays DEF Spares, Busy

\* What FriendsUnlessCrossed says of a step.
FriendsStep ==
    /\ \A i, j \in Rows' : Pair(i)' = Pair(j)' /\ i # j =>
          <<friendship'[i].from, friendship'[i].to>> \in contended'
    /\ \A i \in Rows :
          friendship[i].status # "PENDING" /\ friendship'[i] # friendship[i] => <<i>> \in contended
    /\ \A u, v \in People :
          v \in Related(u, "BLOCKED")' /\ (\E p \in Feed(u)' : post[p].author = v) =>
              <<u, v>> \in contended'

LEMMA FriendsStepHolds ==
    ASSUME DOMAIN doing = Slots, Rivals, SocialInv, NEW s \in Slots, SocialStep(s),
           friendship' # friendship
    PROVE  FriendsStep
  <1>0. PICK c : c = doing[s]
    OBVIOUS
  <1>1. SaveFriend(s) \/ SaveAnswer(s)
    <2>1. ~(CheckCallsign(s) \/ CheckPair(s) \/ CheckRedeemed(s) \/ AskProfile(s) \/ AskFriend(s)
            \/ AskAnswer(s) \/ AskCode(s) \/ AskRedeem(s))
      BY DEF CheckCallsign, CheckPair, CheckRedeemed, AskProfile, AskFriend, AskAnswer, AskCode,
             AskRedeem, socialVars
    <2>2. ~(SaveProfile(s) \/ SaveCode(s) \/ SaveRedeem(s))
      BY DEF SaveProfile, SaveCode, SaveRedeem
    <2> QED
      BY <2>1, <2>2 DEF SocialStep
  <1>2. SocialInv'
    BY SocialInvNext
  <1>3. SocialFact(c) /\ post' = post
        /\ \A i \in DOMAIN friendship :
              friendship'[i] # friendship[i] => c.kind = "answer" /\ c.id = i
    BY <1>0, <1>1, FriendshipWritten
  <1>4. ASSUME NEW i \in Rows', NEW j \in Rows', Pair(i)' = Pair(j)', i # j
        PROVE  Both(friendship'[i].from, friendship'[i].to) \subseteq contended'
    BY <1>2, <1>4 DEF SocialInv, FriendsApart
  <1>5. ASSUME NEW i \in Rows, friendship[i].status # "PENDING", friendship'[i] # friendship[i]
        PROVE  <<i>> \in contended
    <2>1. c.kind = "answer" /\ c.id = i
      BY <1>3, <1>5 DEF Rows
    <2> QED
      BY <1>3, <1>5, <2>1 DEF SocialFact, AnswerFact
  <1>6. ASSUME NEW u \in People, NEW v \in People, v \in Related(u, "BLOCKED")',
               NEW p \in Feed(u)', post[p].author = v
        PROVE  <<u, v>> \in contended'
    <2>1. PICK i \in Rows' : Pair(i)' = {u, v} /\ friendship'[i].status = "BLOCKED"
      BY <1>6 DEF Related
    <2>2. friendship'[i].from # friendship'[i].to /\ Pair(i)' = {friendship'[i].from, friendship'[i].to}
      BY <1>2, <2>1 DEF SocialInv, FriendsApart, Rows, Pair
    <2>3. u # v
      BY <2>1, <2>2
    <2>4. v \in {u} \cup Related(u, "ACCEPTED")'
      BY <1>3, <1>6 DEF Feed
    <2>5. PICK j \in Rows' : Pair(j)' = {u, v} /\ friendship'[j].status = "ACCEPTED"
      BY <2>3, <2>4 DEF Related
    <2>6. Both(friendship'[i].from, friendship'[i].to) \subseteq contended'
      BY <1>4, <2>1, <2>5
    <2>7. Both(friendship'[i].from, friendship'[i].to) = Both(u, v)
      BY <2>1, <2>2, SameTwoBoth
    <2> QED
      BY <2>6, <2>7 DEF Both
  <1> QED
    BY <1>4, <1>5, <1>6 DEF FriendsStep, Both

-----------------------------------------------------------------------------
(* Anti-cheat *)

HitRow == [detector : {"SPEED_IMPOSSIBLE", "LOCATION_JUMP", "GPS_INCONSISTENCY"},
           severity : {"MINOR", "MAJOR", "SEVERE"}]
WatchRow == [fix : Fixes \cup {NoFix}, run : Nat, hits : SUBSET HitRow,
             step : {"idle", "suspecting", "punishing"}]
JobRow == [state : {"absent", "waiting", "active", "done", "failed"}, tries : Nat,
           stalls : Nat, by : Workers \cup {Nobody}]

ConductTyped ==
    /\ stored \subseteq Fixes
    /\ inspection \in [Fixes -> JobRow]
    /\ inspector \in [Workers -> WatchRow]
    /\ runs \in [Fixes -> Nat]

\* A worker at rest has nothing, another one is about a fix; who holds a job works
\* on its fix; and no job is without its fix.
InspectorsApart ==
    /\ \A w \in Workers :
          IF inspector[w].step = "idle" THEN inspector[w] = Watching
          ELSE inspector[w].fix \in Fixes /\ inspector[w].run \in 1..runs[inspector[w].fix]
    /\ \A w, v \in Workers :
          w # v /\ inspector[w].fix = inspector[v].fix /\ inspector[w].fix \in Fixes =>
              inspector[w].run # inspector[v].run
    /\ \A f \in Fixes :
          /\ inspection[f].state # "absent" => f \in stored
          /\ inspection[f].by \in Workers => inspector[inspection[f].by].fix = f
          /\ inspection[f].by \in Workers <=> inspection[f].state = "active"

LEMMA DistanceIsInt ==
    ASSUME NEW f \in Fixes, NEW g \in Fixes
    PROVE  Distance(f, g) \in Int
  <1> DEFINE a == Place[f] - Place[g]
             b == Place[g] - Place[f]
  <1>1. a \in Int /\ b \in Int
    BY ConductConstants
  <1>2. \E x \in {a, b} : \A y \in {a, b} : x >= y
    <2> HIDE DEF a, b
    <2> QED
      BY <1>1
  <1>3. Max({a, b}) \in {a, b}
    <2> HIDE DEF a, b
    <2> QED
      BY <1>2 DEF Max
  <1> QED
    BY <1>1, <1>3 DEF Distance

LEMMA HitsAreRows ==
    ASSUME NEW g, NEW window, NEW f
    PROVE  Hits(g, window, f) \subseteq HitRow
  <1>1. evaluateSpeed(g, f) \subseteq HitRow
    BY DEF evaluateSpeed, Hit, HitRow
  <1>2. evaluateJump(g, f) \subseteq HitRow /\ evaluateGpsInconsistency(g, window, f) \subseteq HitRow
    BY DEF evaluateJump, evaluateGpsInconsistency, Hit, HitRow
  <1> QED
    BY <1>1, <1>2 DEF Hits

Honest == HonestWalk /\ \A f \in stored : ~Clamped(f)

\* Between two fixes of an honest walk no detector finds a grave hit.
LEMMA HonestHits ==
    ASSUME Honest, stored \subseteq Fixes, NEW f \in stored, NEW g \in stored,
           RecordedAt(g) < RecordedAt(f), NEW window, NEW h \in Hits(g, window, f)
    PROVE  ~Punished(h)
  <1> DEFINE dt == RecordedAt(f) - RecordedAt(g)
  <1>1. dt \in Int /\ dt > 0 /\ dt = Captured[f] - Captured[g]
    BY ConductConstants DEF Honest, RecordedAt
  <1>2. Captured[f] >= Captured[g]
    BY <1>1, ConductConstants
  <1>3. Distance(f, g) \in Int /\ Distance(f, g) <= 60 * dt
    BY <1>1, <1>2, DistanceIsInt DEF Honest, HonestWalk, HonestSpeed
  <1>4. ~(Distance(f, g) > 60 * dt) /\ ~(Distance(f, g) > 120 * dt) /\ ~(Distance(f, g) > 250 * dt)
    <2> HIDE DEF dt
    <2> QED
      BY <1>1, <1>3
  <1>5. ~(dt < 5 /\ Distance(f, g) > 500)
    <2> HIDE DEF dt
    <2> QED
      BY <1>1, <1>3
  <1>6. evaluateSpeed(g, f) = {}
    BY <1>4 DEF evaluateSpeed
  <1>7. evaluateJump(g, f) = {}
    BY <1>5 DEF evaluateJump
  <1>8. h \in evaluateGpsInconsistency(g, window, f)
    BY <1>6, <1>7 DEF Hits
  <1>9. h = Hit("GPS_INCONSISTENCY", "MINOR")
    BY <1>8 DEF evaluateGpsInconsistency
  <1> QED
    BY <1>9 DEF Punished, Hit

\* While the operator is honest, no grave hit is on its way.
HonestInv == Honest => penalty = {} /\ \A w \in Workers : \A h \in inspector[w].hits : ~Punished(h)

\* What is kept belongs to an inspection that was begun; of the only one of a
\* fix, the grave hits are punished, swallowed or on their way.
Kept == suspicion \cup penalty \cup swallowed
GraveOf(f) == {h \in suspicion : h.fix = f /\ Punished(h)}
PaidOf(f) == {h \in penalty \cup swallowed : h.fix = f}

AuditInv ==
    /\ penalty \subseteq suspicion
    /\ \A h \in Kept : h.fix \in Fixes /\ h.run \in 1..runs[h.fix]
    /\ \A w \in Workers : inspector[w].step = "punishing" =>
          /\ Tagged(w, inspector[w].hits) \subseteq suspicion
          /\ \A h \in inspector[w].hits : Punished(h)
    /\ \A w \in Workers : inspector[w].fix \in Fixes /\ runs[inspector[w].fix] = 1 =>
          /\ inspector[w].step = "suspecting" => \A h \in Kept : h.fix # inspector[w].fix
          /\ inspector[w].step = "punishing" =>
                GraveOf(inspector[w].fix) =
                PaidOf(inspector[w].fix) \cup Tagged(w, inspector[w].hits)
    /\ \A f \in Fixes : inspection[f].state = "done" /\ runs[f] = 1 =>
          GraveOf(f) = PaidOf(f) /\ \A w \in Workers : inspector[w].fix # f

\* An ADMIN makes one entry at a time.
ManualTyped == IsFiniteSet(manual) /\ manual \subseteq ManualEntries

ConductInv == ConductTyped /\ InspectorsApart /\ HonestInv /\ AuditInv /\ ManualTyped

\* The parts of a worker's row that an EXCEPT on its hits and step leaves.
LEMMA WatchGoesOn ==
    ASSUME inspector \in [Workers -> WatchRow], NEW w \in Workers, NEW H \in SUBSET HitRow,
           NEW step \in {"suspecting", "punishing"},
           inspector' = [inspector EXCEPT ![w] = [@ EXCEPT !.step = step, !.hits = H]]
    PROVE  /\ inspector' \in [Workers -> WatchRow]
           /\ inspector'[w].fix = inspector[w].fix /\ inspector'[w].run = inspector[w].run
           /\ inspector'[w].hits = H /\ inspector'[w].step = step
           /\ \A v \in Workers \ {w} : inspector'[v] = inspector[v]
  <1> DEFINE row == [inspector[w] EXCEPT !.step = step, !.hits = H]
  <1>1. inspector[w] \in WatchRow
    OBVIOUS
  <1>2. /\ row \in WatchRow /\ row.fix = inspector[w].fix /\ row.run = inspector[w].run
        /\ row.hits = H /\ row.step = step
    BY <1>1 DEF WatchRow
  <1>3. inspector' = [inspector EXCEPT ![w] = row]
    OBVIOUS
  <1> HIDE DEF row
  <1> QED
    BY <1>2, <1>3

LEMMA SuspectWrites ==
    ASSUME inspector \in [Workers -> WatchRow], NEW w \in Workers, Suspect(w)
    PROVE  /\ inspector' \in [Workers -> WatchRow]
           /\ inspector'[w].fix = inspector[w].fix /\ inspector'[w].run = inspector[w].run
           /\ inspector'[w].hits = {h \in inspector[w].hits : Punished(h)}
           /\ inspector'[w].step = "punishing" /\ inspector[w].step = "suspecting"
           /\ \A v \in Workers \ {w} : inspector'[v] = inspector[v]
           /\ suspicion' = suspicion \cup Tagged(w, inspector[w].hits)
           /\ UNCHANGED <<stored, inspection, runs, penalty, manual, swallowed>>
  <1> DEFINE H == {h \in inspector[w].hits : Punished(h)}
  <1>1. inspector[w] \in WatchRow /\ H \in SUBSET HitRow
    BY DEF WatchRow
  <1>2. inspector' = [inspector EXCEPT ![w] = [@ EXCEPT !.step = "punishing", !.hits = H]]
    BY <1>1 DEF Suspect, WatchRow
  <1> HIDE DEF H
  <1>3. /\ inspector' \in [Workers -> WatchRow]
        /\ inspector'[w].fix = inspector[w].fix /\ inspector'[w].run = inspector[w].run
        /\ inspector'[w].hits = H /\ inspector'[w].step = "punishing"
        /\ \A v \in Workers \ {w} : inspector'[v] = inspector[v]
    BY <1>1, <1>2, WatchGoesOn
  <1> QED
    BY <1>3 DEF H, Suspect, Watches

LEMMA HitSettled ==
    ASSUME inspector \in [Workers -> WatchRow], NEW w \in Workers, Penalize(w) \/ Swallow(w)
    PROVE  \E h \in inspector[w].hits :
             /\ inspector' \in [Workers -> WatchRow]
             /\ inspector'[w].fix = inspector[w].fix /\ inspector'[w].run = inspector[w].run
             /\ inspector'[w].hits = inspector[w].hits \ {h}
             /\ inspector'[w].step = "punishing" /\ inspector[w].step = "punishing"
             /\ \A v \in Workers \ {w} : inspector'[v] = inspector[v]
             /\ \/ penalty' = penalty \cup Tagged(w, {h}) /\ swallowed' = swallowed
                \/ swallowed' = swallowed \cup Tagged(w, {h}) /\ penalty' = penalty
             /\ UNCHANGED <<stored, inspection, runs, suspicion, manual>>
  <1>1. PICK h \in inspector[w].hits :
            /\ inspector' = [inspector EXCEPT ![w].hits = @ \ {h}]
            /\ \/ penalty' = penalty \cup Tagged(w, {h}) /\ swallowed' = swallowed
               \/ swallowed' = swallowed \cup Tagged(w, {h}) /\ penalty' = penalty
    BY DEF Penalize, Swallow
  <1>2. inspector[w].step = "punishing" /\ UNCHANGED <<stored, inspection, runs, suspicion, manual>>
    BY DEF Penalize, Swallow, Watches
  <1> DEFINE H == inspector[w].hits \ {h}
  <1>3. inspector[w] \in WatchRow /\ H \in SUBSET HitRow
    BY DEF WatchRow
  <1>4. inspector' = [inspector EXCEPT ![w] = [@ EXCEPT !.step = "punishing", !.hits = H]]
    <2>1. [inspector[w] EXCEPT !.hits = H] = [inspector[w] EXCEPT !.step = "punishing", !.hits = H]
      BY <1>2, <1>3 DEF WatchRow
    <2> QED
      BY <1>1, <2>1
  <1> HIDE DEF H
  <1>5. /\ inspector' \in [Workers -> WatchRow]
        /\ inspector'[w].fix = inspector[w].fix /\ inspector'[w].run = inspector[w].run
        /\ inspector'[w].hits = H /\ inspector'[w].step = "punishing"
        /\ \A v \in Workers \ {w} : inspector'[v] = inspector[v]
    BY <1>3, <1>4, WatchGoesOn
  <1> QED
    BY <1>1, <1>2, <1>5 DEF H

\* A worker that lets go of a fix, and what becomes of the job.
LetsGo(w) ==
    /\ inspector[w].step # "idle" /\ inspector[w].fix \in Fixes
    /\ inspector' = [inspector EXCEPT ![w] = Watching] \/ inspector' = inspector
    /\ DOMAIN inspection' = Fixes
    /\ \A f \in Fixes \ {inspector[w].fix} : inspection'[f] = inspection[f]
    /\ LET f == inspector[w].fix IN
       \/ inspection'[f] = inspection[f] /\ inspection[f].by # w
       \/ inspection[f].by = w /\ inspection'[f].by = Nobody /\ inspection'[f] \in JobRow
          /\ inspection'[f].state \in {"waiting", "done", "failed"}
    /\ UNCHANGED <<stored, runs, penalty, manual, swallowed>>

LEMMA JobEnds ==
    ASSUME NEW j \in JobRow, NEW w \in Workers, NEW k,
           k = FinishedBy(j, w) \/ k = FailedBy(j, w) \/ k = ReleasedBy(j, w)
    PROVE  \/ k = j /\ j.by # w
           \/ j.by = w /\ k.by = Nobody /\ k \in JobRow /\ k.state \in {"waiting", "done", "failed"}
  <1>1. j \in JobRow /\ Nobody \in Workers \cup {Nobody}
    OBVIOUS
  <1>2. CASE k = FinishedBy(j, w)
    BY <1>1, <1>2 DEF FinishedBy, JobRow
  <1>3. CASE k = FailedBy(j, w)
    <2>1. CASE j.by # w
      BY <1>3, <2>1 DEF FailedBy
    <2>2. CASE j.by = w
      <3>1. k = [state |-> IF j.tries + 1 < Attempts THEN "waiting" ELSE "failed",
                 tries |-> j.tries + 1, stalls |-> j.stalls, by |-> Nobody]
        BY <1>3, <2>2 DEF FailedBy, JobRow
      <3> QED
        BY <2>2, <3>1 DEF JobRow
    <2> QED
      BY <2>1, <2>2
  <1>4. CASE k = ReleasedBy(j, w)
    <2>1. CASE j.by # w
      BY <1>4, <2>1 DEF ReleasedBy
    <2>2. CASE j.by = w /\ j.stalls < MaxStalled
      <3>1. k = [state |-> "waiting", tries |-> j.tries, stalls |-> j.stalls + 1, by |-> Nobody]
        BY <1>4, <2>2 DEF ReleasedBy, JobRow
      <3> QED
        BY <2>2, <3>1 DEF JobRow
    <2>3. CASE j.by = w /\ ~(j.stalls < MaxStalled)
      <3>1. k = [state |-> "failed", tries |-> j.tries, stalls |-> j.stalls, by |-> Nobody]
        BY <1>4, <2>3 DEF ReleasedBy, JobRow
      <3> QED
        BY <2>3, <3>1 DEF JobRow
    <2> QED
      BY <2>1, <2>2, <2>3
  <1> QED
    BY <1>2, <1>3, <1>4

LEMMA JobFails ==
    ASSUME NEW j \in JobRow, NEW w \in Workers, NEW k, k = FailedBy(j, w) \/ k = ReleasedBy(j, w),
           j.by = w
    PROVE  k.state \in {"waiting", "failed"}
  <1>1. CASE k = FailedBy(j, w)
    BY <1>1 DEF FailedBy, JobRow
  <1>2. CASE k = ReleasedBy(j, w)
    BY <1>2 DEF ReleasedBy, JobRow
  <1> QED
    BY <1>1, <1>2

LEMMA WorkerLetsGo ==
    ASSUME ConductTyped, InspectorsApart, NEW w \in Workers,
           Finish(w) \/ FailInspection(w) \/ LoseInspection(w)
    PROVE  /\ LetsGo(w)
           /\ inspection' # inspection /\ inspection'[inspector[w].fix].state = "done" => Finish(w)
  <1> DEFINE f == inspector[w].fix
  <1>1. inspector[w].step # "idle" /\ f \in Fixes /\ inspection[f] \in JobRow
    BY DEF Finish, FailInspection, LoseInspection, Watches, InspectorsApart, ConductTyped
  <1>2. PICK k : /\ inspection' = [inspection EXCEPT ![f] = k]
                 /\ k = FinishedBy(inspection[f], w) \/ k = FailedBy(inspection[f], w)
                    \/ k = ReleasedBy(inspection[f], w)
                 /\ Finish(w) \/ k = FailedBy(inspection[f], w) \/ k = ReleasedBy(inspection[f], w)
    BY DEF Finish, FailInspection, LoseInspection
  <1>3. \/ k = inspection[f] /\ inspection[f].by # w
        \/ inspection[f].by = w /\ k.by = Nobody /\ k \in JobRow /\ k.state \in {"waiting", "done", "failed"}
           /\ (k.state = "done" => Finish(w))
    BY <1>1, <1>2, JobEnds, JobFails
  <1>4. inspection'[f] = k /\ DOMAIN inspection' = Fixes /\ \A g \in Fixes \ {f} : inspection'[g] = inspection[g]
    BY <1>1, <1>2 DEF ConductTyped
  <1>5. /\ inspector' = [inspector EXCEPT ![w] = Watching] \/ inspector' = inspector
        /\ UNCHANGED <<stored, runs, penalty, manual, swallowed>>
    BY DEF Finish, FailInspection, LoseInspection
  <1>6. k = inspection[f] => inspection' = inspection
    BY <1>2 DEF ConductTyped
  <1> QED
    BY <1>1, <1>3, <1>4, <1>5, <1>6 DEF LetsGo

LEMMA InspectBegins ==
    ASSUME ConductTyped, InspectorsApart, NEW w \in Workers, NEW f \in Fixes, Inspect(w, f)
    PROVE  \E H \in SUBSET HitRow :
             /\ f \in stored /\ inspector[w] = Watching /\ inspection[f].by \notin Workers
             /\ inspector' = [inspector EXCEPT ![w] =
                    [fix |-> f, run |-> runs[f] + 1, hits |-> H, step |-> "suspecting"]]
             /\ inspector' \in [Workers -> WatchRow]
             /\ inspection' = [inspection EXCEPT ![f] = TakenBy(@, w)]
             /\ inspection' \in [Fixes -> JobRow]
             /\ inspection'[f].by = w /\ inspection'[f].state = "active"
             /\ runs' = [runs EXCEPT ![f] = @ + 1]
             /\ Honest => \A h \in H : ~Punished(h)
             /\ UNCHANGED <<stored, suspicion, penalty, manual, swallowed>>
  <1> DEFINE before == {g \in stored : RecordedAt(g) < RecordedAt(f)}
             latest(G) == {g \in G : \A h \in G : RecordedAt(h) <= RecordedAt(g)}
             Begun1(H) == inspector' = [inspector EXCEPT ![w] =
                           [fix |-> f, run |-> runs[f] + 1, hits |-> H, step |-> "suspecting"]]
  <1>1. /\ inspector[w] = Watching /\ inspection[f].state = "waiting"
        /\ inspection' = [inspection EXCEPT ![f] = TakenBy(@, w)]
        /\ runs' = [runs EXCEPT ![f] = @ + 1]
        /\ UNCHANGED <<stored, suspicion, penalty, manual, swallowed>>
    BY DEF Inspect
  <1>2. f \in stored /\ inspection[f].by \notin Workers
    BY <1>1 DEF InspectorsApart
  <1>3. \E H \in SUBSET HitRow : Begun1(H) /\ (Honest => \A h \in H : ~Punished(h))
    <2>1. CASE Begun1({})
      <3> HIDE DEF Begun1
      <3>1. {} \in SUBSET HitRow /\ \A h \in {} : ~Punished(h)
        OBVIOUS
      <3> QED
        BY <2>1, <3>1
    <2>2. CASE \E g \in before : \E window : Begun1(Hits(g, window, f))
      <3>1. PICK g \in before : \E window : Begun1(Hits(g, window, f))
        BY <2>2
      <3>5. PICK window : Begun1(Hits(g, window, f))
        BY <3>1
      <3>2. Hits(g, window, f) \in SUBSET HitRow
        BY HitsAreRows
      <3>3. g \in stored /\ RecordedAt(g) < RecordedAt(f)
        OBVIOUS
      <3>4. Honest => \A h \in Hits(g, window, f) : ~Punished(h)
        BY <1>2, <3>3, HonestHits DEF ConductTyped
      <3> HIDE DEF Begun1
      <3> QED
        BY <3>5, <3>2, <3>4
    <2> QED
      BY <2>1, <2>2 DEF Inspect
  <1>4. PICK H \in SUBSET HitRow : Begun1(H) /\ (Honest => \A h \in H : ~Punished(h))
    BY <1>3
  <1>5. inspector' \in [Workers -> WatchRow]
    <2>1. [fix |-> f, run |-> runs[f] + 1, hits |-> H, step |-> "suspecting"] \in WatchRow
      BY DEF WatchRow, ConductTyped
    <2> QED
      BY <1>4, <2>1 DEF ConductTyped
  <1>6. inspection' \in [Fixes -> JobRow] /\ inspection'[f].by = w /\ inspection'[f].state = "active"
    <2>1. inspection[f] \in JobRow
      BY DEF ConductTyped
    <2>2. TakenBy(inspection[f], w) \in JobRow /\ TakenBy(inspection[f], w).by = w
          /\ TakenBy(inspection[f], w).state = "active"
      BY <2>1 DEF TakenBy, JobRow
    <2> QED
      BY <1>1, <2>2 DEF ConductTyped
  <1> QED
    BY <1>1, <1>2, <1>4, <1>5, <1>6

\* What the jobs and the workers of a queue do keeps one of them to a run.
LEMMA InspectorsNext ==
    ASSUME ConductTyped, InspectorsApart, ConductNext
    PROVE  ConductTyped' /\ InspectorsApart'
  <1> USE DEF ConductTyped
  <1>1. ASSUME NEW f \in Fixes, StoreFixOf(f) PROVE ConductTyped' /\ InspectorsApart'
    BY <1>1 DEF StoreFixOf, InspectorsApart
  <1>2. ASSUME NEW f \in Fixes, Enqueue(f) PROVE ConductTyped' /\ InspectorsApart'
    <2>1. /\ inspection' = [inspection EXCEPT ![f] = Added(@)] /\ f \in stored
          /\ UNCHANGED <<stored, inspector, runs>>
      BY <1>2 DEF Enqueue
    <2>2. Added(inspection[f]) \in JobRow /\ Added(inspection[f]).by = inspection[f].by
          /\ (Added(inspection[f]).state = "active" <=> inspection[f].state = "active")
      BY DEF Added, JobRow
    <2> QED
      BY <2>1, <2>2 DEF InspectorsApart
  <1>3. ASSUME NEW w \in Workers, NEW f \in Fixes, Inspect(w, f) PROVE ConductTyped' /\ InspectorsApart'
    <2>1. PICK H \in SUBSET HitRow :
             /\ f \in stored /\ inspector[w] = Watching /\ inspection[f].by \notin Workers
             /\ inspector' = [inspector EXCEPT ![w] =
                    [fix |-> f, run |-> runs[f] + 1, hits |-> H, step |-> "suspecting"]]
             /\ inspector' \in [Workers -> WatchRow]
             /\ inspection' = [inspection EXCEPT ![f] = TakenBy(@, w)]
             /\ inspection' \in [Fixes -> JobRow]
             /\ inspection'[f].by = w /\ inspection'[f].state = "active"
             /\ runs' = [runs EXCEPT ![f] = @ + 1]
             /\ stored' = stored
      BY <1>3, InspectBegins
    <2>2. /\ inspector'[w].fix = f /\ inspector'[w].run = runs[f] + 1 /\ inspector'[w].step = "suspecting"
          /\ \A v \in Workers \ {w} : inspector'[v] = inspector[v]
          /\ inspector[w].fix = NoFix /\ inspector[w].step = "idle"
      BY <2>1 DEF Watching
    <2>3. /\ runs' \in [Fixes -> Nat] /\ runs'[f] = runs[f] + 1 /\ runs[f] \in Nat
          /\ \A g \in Fixes \ {f} : runs'[g] = runs[g]
      BY <2>1
    <2>4. \A g \in Fixes \ {f} : inspection'[g] = inspection[g]
      BY <2>1
    <2>5. \A v \in Workers : IF inspector'[v].step = "idle" THEN inspector'[v] = Watching
            ELSE inspector'[v].fix \in Fixes /\ inspector'[v].run \in 1..runs'[inspector'[v].fix]
      BY <2>2, <2>3 DEF InspectorsApart
    <2>6. ASSUME NEW v \in Workers, NEW u \in Workers, v # u, inspector'[v].fix = inspector'[u].fix,
                 inspector'[v].fix \in Fixes
          PROVE  inspector'[v].run # inspector'[u].run
      <3>1. \A x \in Workers \ {w} : inspector[x].fix = f => inspector[x].run \in 1..runs[f]
        BY ConductConstants DEF InspectorsApart, Watching
      <3> QED
        BY <2>2, <2>3, <2>6, <3>1 DEF InspectorsApart
    <2>7. \A g \in Fixes :
            /\ inspection'[g].state # "absent" => g \in stored'
            /\ inspection'[g].by \in Workers => inspector'[inspection'[g].by].fix = g
            /\ inspection'[g].by \in Workers <=> inspection'[g].state = "active"
      <3> SUFFICES ASSUME NEW g \in Fixes
                   PROVE  /\ inspection'[g].state # "absent" => g \in stored'
                          /\ inspection'[g].by \in Workers => inspector'[inspection'[g].by].fix = g
                          /\ inspection'[g].by \in Workers <=> inspection'[g].state = "active"
        OBVIOUS
      <3>1. CASE g = f
        BY <2>1, <2>2, <3>1
      <3>2. CASE g # f
        <4>1. inspection[g].by \in Workers => inspection[g].by # w
          BY <2>2, ConductConstants DEF InspectorsApart
        <4> QED
          BY <2>1, <2>2, <2>4, <3>2, <4>1 DEF InspectorsApart
      <3> QED
        BY <3>1, <3>2
    <2> QED
      BY <2>1, <2>3, <2>5, <2>6, <2>7 DEF InspectorsApart
  <1>4. ASSUME NEW w \in Workers, Suspect(w) \/ Penalize(w) \/ Swallow(w)
        PROVE  ConductTyped' /\ InspectorsApart'
    <2>1. /\ inspector' \in [Workers -> WatchRow]
          /\ inspector'[w].fix = inspector[w].fix /\ inspector'[w].run = inspector[w].run
          /\ inspector'[w].step = "punishing" /\ inspector[w].step # "idle"
          /\ \A v \in Workers \ {w} : inspector'[v] = inspector[v]
          /\ UNCHANGED <<stored, inspection, runs>>
      BY <1>4, SuspectWrites, HitSettled
    <2>2. \A v \in Workers : inspector'[v].fix = inspector[v].fix /\ inspector'[v].run = inspector[v].run
      BY <2>1
    <2>3. \A v \in Workers : IF inspector'[v].step = "idle" THEN inspector'[v] = Watching
            ELSE inspector'[v].fix \in Fixes /\ inspector'[v].run \in 1..runs'[inspector'[v].fix]
      BY <2>1 DEF InspectorsApart
    <2> QED
      BY <2>1, <2>2, <2>3 DEF InspectorsApart
  <1>5. ASSUME NEW w \in Workers, Finish(w) \/ FailInspection(w) \/ LoseInspection(w)
        PROVE  ConductTyped' /\ InspectorsApart'
    <2>1. LetsGo(w)
      BY <1>5, WorkerLetsGo
    <2>2. PICK f \in Fixes : f = inspector[w].fix
      BY <2>1 DEF LetsGo
    <2>3. /\ inspector[w].step # "idle" /\ UNCHANGED <<stored, runs>>
          /\ inspector' = [inspector EXCEPT ![w] = Watching] \/ inspector' = inspector
      BY <2>1 DEF LetsGo
    <2>4. /\ DOMAIN inspection' = Fixes /\ \A g \in Fixes \ {f} : inspection'[g] = inspection[g]
          /\ \/ inspection'[f] = inspection[f] /\ inspection[f].by # w
             \/ inspection[f].by = w /\ inspection'[f].by = Nobody /\ inspection'[f] \in JobRow
                /\ inspection'[f].state \in {"waiting", "done", "failed"}
      BY <2>1, <2>2 DEF LetsGo
    <2>5. inspection' = [g \in Fixes |-> inspection'[g]]
      BY <1>5 DEF Finish, FailInspection, LoseInspection
    <2>6. inspection' \in [Fixes -> JobRow]
      BY <2>4, <2>5
    <2>7. Watching \in WatchRow /\ Watching.fix = NoFix /\ Watching.step = "idle"
      BY DEF Watching, WatchRow
    <2>8. inspector' \in [Workers -> WatchRow] /\ \A v \in Workers \ {w} : inspector'[v] = inspector[v]
      BY <2>3, <2>7
    <2>9. inspector'[w] = inspector[w] \/ inspector'[w] = Watching
      BY <2>3
    <2>10. \A g \in Fixes \ {f} : inspection[g].by \in Workers => inspection[g].by # w
      BY <2>2 DEF InspectorsApart
    <2>11. \A g \in Fixes :
            /\ inspection'[g].state # "absent" => g \in stored'
            /\ inspection'[g].by \in Workers => inspector'[inspection'[g].by].fix = g
            /\ inspection'[g].by \in Workers <=> inspection'[g].state = "active"
      <3> SUFFICES ASSUME NEW g \in Fixes
                   PROVE  /\ inspection'[g].state # "absent" => g \in stored'
                          /\ inspection'[g].by \in Workers => inspector'[inspection'[g].by].fix = g
                          /\ inspection'[g].by \in Workers <=> inspection'[g].state = "active"
        OBVIOUS
      <3>1. CASE inspection'[g] = inspection[g] /\ inspection[g].by # w
        BY <2>3, <2>8, <3>1 DEF InspectorsApart
      <3>2. CASE g = f /\ inspection[f].by = w /\ inspection'[f].by = Nobody
                 /\ inspection'[f].state \in {"waiting", "done", "failed"}
        <4>1. inspection[f].state = "active"
          BY <3>2 DEF InspectorsApart
        <4> QED
          BY <2>3, <3>2, <4>1, QueueConstants DEF InspectorsApart
      <3> QED
        BY <2>4, <2>10, <3>1, <3>2
    <2>12. \A v \in Workers : IF inspector'[v].step = "idle" THEN inspector'[v] = Watching
            ELSE inspector'[v].fix \in Fixes /\ inspector'[v].run \in 1..runs'[inspector'[v].fix]
      BY <2>3, <2>7, <2>8, <2>9 DEF InspectorsApart
    <2>13. \A v, u \in Workers :
            v # u /\ inspector'[v].fix = inspector'[u].fix /\ inspector'[v].fix \in Fixes =>
                inspector'[v].run # inspector'[u].run
      BY <2>7, <2>8, <2>9, ConductConstants DEF InspectorsApart
    <2> QED
      BY <2>3, <2>6, <2>8, <2>11, <2>12, <2>13 DEF InspectorsApart
  <1> QED
    BY <1>1, <1>2, <1>3, <1>4, <1>5 DEF ConductNext

LEMMA HonestBefore ==
    ASSUME Honest', stored \subseteq stored'
    PROVE  Honest
  BY DEF Honest, HonestWalk

LEMMA HonestNext ==
    ASSUME ConductInv, ConductNext
    PROVE  HonestInv'
  <1> SUFFICES ASSUME Honest'
               PROVE  penalty' = {} /\ \A w \in Workers : \A h \in inspector'[w].hits : ~Punished(h)
    BY DEF HonestInv
  <1>1. stored \subseteq stored'
    BY DEF ConductNext, StoreFixOf, Enqueue, Inspect, Suspect, Penalize, Finish, FailInspection,
           Swallow, LoseInspection
  <1>2. Honest /\ penalty = {} /\ \A w \in Workers : \A h \in inspector[w].hits : ~Punished(h)
    BY <1>1, HonestBefore DEF ConductInv, HonestInv
  <1>3. inspector \in [Workers -> WatchRow]
    BY DEF ConductInv, ConductTyped
  <1>4. CASE \E f \in Fixes : StoreFixOf(f) \/ Enqueue(f)
    BY <1>2, <1>4 DEF StoreFixOf, Enqueue
  <1>5. ASSUME NEW w \in Workers, NEW f \in Fixes, Inspect(w, f)
        PROVE  penalty' = {} /\ \A v \in Workers : \A h \in inspector'[v].hits : ~Punished(h)
    <2>1. PICK H \in SUBSET HitRow :
             /\ inspector' = [inspector EXCEPT ![w] =
                    [fix |-> f, run |-> runs[f] + 1, hits |-> H, step |-> "suspecting"]]
             /\ \A h \in H : ~Punished(h)
             /\ penalty' = penalty
      BY SMTT(30), <1>2, <1>5, InspectBegins DEF ConductInv
    <2>2. inspector'[w].hits = H /\ \A v \in Workers \ {w} : inspector'[v] = inspector[v]
      BY <1>3, <2>1
    <2> QED
      BY <1>2, <2>1, <2>2
  <1>6. ASSUME NEW w \in Workers, Suspect(w)
        PROVE  penalty' = {} /\ \A v \in Workers : \A h \in inspector'[v].hits : ~Punished(h)
    BY <1>2, <1>3, <1>6, SuspectWrites
  <1>7. ASSUME NEW w \in Workers, Penalize(w) \/ Swallow(w)
        PROVE  FALSE
    <2>1. \E h \in inspector[w].hits : inspector[w].step = "punishing"
      BY <1>3, <1>7, HitSettled
    <2> QED
      BY <1>2, <2>1 DEF ConductInv, AuditInv
  <1>8. ASSUME NEW w \in Workers, Finish(w) \/ FailInspection(w) \/ LoseInspection(w)
        PROVE  penalty' = {} /\ \A v \in Workers : \A h \in inspector'[v].hits : ~Punished(h)
    <2>1. LetsGo(w)
      BY <1>8, WorkerLetsGo DEF ConductInv
    <2>2. penalty' = penalty /\ (inspector' = [inspector EXCEPT ![w] = Watching] \/ inspector' = inspector)
      BY <2>1 DEF LetsGo
    <2>3. \A v \in Workers : inspector'[v] = inspector[v] \/ inspector'[v] = Watching
      BY <1>3, <2>2
    <2> QED
      BY <1>2, <2>2, <2>3 DEF Watching
  <1> QED
    BY <1>4, <1>5, <1>6, <1>7, <1>8 DEF ConductNext

LEMMA TaggedParts ==
    ASSUME NEW w \in Workers, NEW H, NEW h \in Tagged(w, H)
    PROVE  /\ h.fix = inspector[w].fix /\ h.run = inspector[w].run
           /\ \E g \in H : h.severity = g.severity /\ (Punished(h) <=> Punished(g))
  BY DEF Tagged, Punished

LEMMA AuditStays ==
    ASSUME AuditInv, UNCHANGED <<inspector, runs, suspicion, penalty, swallowed>>,
           \A f \in Fixes : inspection'[f].state = "done" => inspection[f].state = "done"
    PROVE  AuditInv'
  <1>1. Kept' = Kept /\ \A f \in Fixes : GraveOf(f)' = GraveOf(f) /\ PaidOf(f)' = PaidOf(f)
    BY DEF Kept, GraveOf, PaidOf
  <1>3. \A w \in Workers : Tagged(w, inspector[w].hits)' = Tagged(w, inspector[w].hits)
    BY DEF Tagged
  <1> QED
    BY <1>1, <1>3 DEF AuditInv

LEMMA AuditInspect ==
    ASSUME ConductInv, NEW w \in Workers, NEW f \in Fixes, Inspect(w, f)
    PROVE  AuditInv'
  <1> USE DEF ConductInv
  <1>1. PICK H \in SUBSET HitRow :
           /\ inspector[w] = Watching
           /\ inspector' = [inspector EXCEPT ![w] =
                  [fix |-> f, run |-> runs[f] + 1, hits |-> H, step |-> "suspecting"]]
           /\ inspection' = [inspection EXCEPT ![f] = TakenBy(@, w)]
           /\ inspection'[f].state = "active"
           /\ runs' = [runs EXCEPT ![f] = @ + 1]
           /\ UNCHANGED <<stored, suspicion, penalty, manual, swallowed>>
    BY InspectBegins
  <1>2. /\ inspector'[w].fix = f /\ inspector'[w].step = "suspecting"
        /\ \A v \in Workers \ {w} : inspector'[v] = inspector[v]
    BY <1>1 DEF ConductTyped
  <1>3. /\ runs[f] \in Nat /\ runs'[f] = runs[f] + 1 /\ \A g \in Fixes \ {f} : runs'[g] = runs[g]
        /\ \A g \in Fixes : runs[g] \in Nat
    BY <1>1 DEF ConductTyped
  <1>4. \A g \in Fixes \ {f} : inspection'[g] = inspection[g]
    BY <1>1 DEF ConductTyped
  <1>5. Kept' = Kept /\ \A g \in Fixes : GraveOf(g)' = GraveOf(g) /\ PaidOf(g)' = PaidOf(g)
    BY <1>1 DEF Kept, GraveOf, PaidOf
  <1>6. \A v \in Workers \ {w} : Tagged(v, inspector[v].hits)' = Tagged(v, inspector[v].hits)
    BY <1>2 DEF Tagged
  <1>7. penalty' \subseteq suspicion' /\ \A h \in Kept' : h.fix \in Fixes /\ h.run \in 1..runs'[h.fix]
    BY <1>1, <1>3, <1>5 DEF AuditInv
  <1>8. runs'[f] = 1 => \A h \in Kept : h.fix # f
    BY <1>3 DEF AuditInv
  <1>9. runs'[f] = 1 => \A v \in Workers \ {w} : inspector[v].fix # f
    BY <1>3, ConductConstants DEF InspectorsApart, Watching
  <1>10. \A v \in Workers : inspector'[v].step = "punishing" =>
            /\ Tagged(v, inspector[v].hits)' \subseteq suspicion'
            /\ \A h \in inspector'[v].hits : Punished(h)
    BY <1>1, <1>2, <1>6 DEF AuditInv
  <1>11. ASSUME NEW v \in Workers, inspector'[v].fix \in Fixes, runs'[inspector'[v].fix] = 1
         PROVE  /\ inspector'[v].step = "suspecting" => \A h \in Kept' : h.fix # inspector'[v].fix
                /\ inspector'[v].step = "punishing" =>
                     GraveOf(inspector[v].fix)' =
                     PaidOf(inspector[v].fix)' \cup Tagged(v, inspector[v].hits)'
    <2>1. CASE v = w
      BY <1>2, <1>5, <1>8, <1>11, <2>1
    <2>2. CASE v # w
      <3>1. inspector'[v] = inspector[v] /\ inspector[v].fix # f /\ runs[inspector[v].fix] = 1
        BY <1>2, <1>3, <1>9, <1>11, <2>2
      <3>2. GraveOf(inspector[v].fix)' = GraveOf(inspector[v].fix)
            /\ PaidOf(inspector[v].fix)' = PaidOf(inspector[v].fix)
        BY <1>1, <3>1 DEF GraveOf, PaidOf
      <3> QED
        BY <1>5, <1>6, <1>11, <2>2, <3>1, <3>2 DEF AuditInv
    <2> QED
      BY <2>1, <2>2
  <1>12. \A g \in Fixes : inspection'[g].state = "done" /\ runs'[g] = 1 =>
            GraveOf(g)' = PaidOf(g)' /\ \A v \in Workers : inspector'[v].fix # g
    BY <1>1, <1>2, <1>3, <1>4, <1>5 DEF AuditInv
  <1> QED
    BY <1>7, <1>10, <1>11, <1>12 DEF AuditInv

\* The only inspection of a fix is one worker's.
LEMMA OneInspector ==
    ASSUME InspectorsApart, NEW w \in Workers, inspector[w].step # "idle",
           runs[inspector[w].fix] = 1, NEW v \in Workers \ {w}
    PROVE  inspector[v].fix # inspector[w].fix
  <1> SUFFICES ASSUME inspector[v].fix = inspector[w].fix
               PROVE  FALSE
    OBVIOUS
  <1>1. inspector[w].fix \in Fixes /\ inspector[w].run = 1
    BY DEF InspectorsApart
  <1>2. inspector[v].run = 1
    BY <1>1, ConductConstants DEF InspectorsApart, Watching
  <1> QED
    BY <1>1, <1>2 DEF InspectorsApart

\* What the records of worker w's inspection of f leave alone.
Elsewhere(w, f) ==
    /\ \A g \in Fixes \ {f} : GraveOf(g)' = GraveOf(g) /\ PaidOf(g)' = PaidOf(g)
    /\ \A v \in Workers \ {w} : inspector[v].step = "punishing" =>
          /\ Tagged(v, inspector[v].hits)' \subseteq suspicion'
          /\ \A h \in inspector'[v].hits : Punished(h)
    /\ \A v \in Workers \ {w} : inspector[v].fix \in Fixes /\ runs[inspector[v].fix] = 1 =>
          /\ inspector[v].fix # f
          /\ inspector[v].step = "suspecting" => \A h \in Kept' : h.fix # inspector'[v].fix
          /\ inspector[v].step = "punishing" =>
                GraveOf(inspector[v].fix)' =
                PaidOf(inspector[v].fix)' \cup Tagged(v, inspector[v].hits)'

LEMMA AuditElsewhere ==
    ASSUME ConductInv, NEW w \in Workers, NEW f, f = inspector[w].fix,
           inspector[w].step # "idle", runs' = runs,
           \A v \in Workers \ {w} : inspector'[v] = inspector[v],
           suspicion \subseteq suspicion', penalty \subseteq penalty', swallowed \subseteq swallowed',
           \A h \in Kept' \ Kept : h.fix = f,
           \A h \in suspicion' \ suspicion : h.fix = f,
           \A h \in penalty' \ penalty : h.fix = f,
           \A h \in swallowed' \ swallowed : h.fix = f
    PROVE  Elsewhere(w, f)
  <1> USE DEF ConductInv
  <1>1. \A g \in Fixes \ {f} : GraveOf(g)' = GraveOf(g) /\ PaidOf(g)' = PaidOf(g)
    BY DEF GraveOf, PaidOf
  <1>2. \A v \in Workers \ {w} : Tagged(v, inspector[v].hits)' = Tagged(v, inspector[v].hits)
    BY DEF Tagged
  <1>3. ASSUME NEW v \in Workers \ {w}, inspector[v].fix \in Fixes, runs[inspector[v].fix] = 1
        PROVE  /\ inspector[v].fix # f
               /\ inspector[v].step = "suspecting" => \A h \in Kept' : h.fix # inspector'[v].fix
               /\ inspector[v].step = "punishing" =>
                     GraveOf(inspector[v].fix)' =
                     PaidOf(inspector[v].fix)' \cup Tagged(v, inspector[v].hits)'
    <2>1. inspector[v].fix # f
      BY <1>3, OneInspector
    <2>2. GraveOf(inspector[v].fix)' = GraveOf(inspector[v].fix)
          /\ PaidOf(inspector[v].fix)' = PaidOf(inspector[v].fix)
      BY <2>1 DEF GraveOf, PaidOf
    <2> QED
      BY <1>2, <1>3, <2>1, <2>2 DEF AuditInv
  <1> QED
    BY <1>1, <1>2, <1>3 DEF AuditInv, Elsewhere

LEMMA AuditSuspect ==
    ASSUME ConductInv, NEW w \in Workers, Suspect(w)
    PROVE  AuditInv'
  <1> USE DEF ConductInv
  <1>0. PICK f : f = inspector[w].fix
    OBVIOUS
  <1>01. PICK T : T = Tagged(w, inspector[w].hits)
    OBVIOUS
  <1>1. /\ inspector'[w].fix = f /\ inspector'[w].run = inspector[w].run
        /\ inspector'[w].hits = {h \in inspector[w].hits : Punished(h)}
        /\ inspector'[w].step = "punishing" /\ inspector[w].step = "suspecting"
        /\ \A v \in Workers \ {w} : inspector'[v] = inspector[v]
        /\ suspicion' = suspicion \cup T
        /\ UNCHANGED <<stored, inspection, runs, penalty, manual, swallowed>>
    BY <1>0, <1>01, SuspectWrites DEF ConductTyped
  <1>2. \A h \in T : h.fix = f /\ h.run = inspector[w].run
    BY <1>0, <1>01, TaggedParts
  <1>3. f \in Fixes /\ inspector[w].run \in 1..runs[f]
    BY <1>0, <1>1 DEF InspectorsApart
  <1>4. Tagged(w, inspector[w].hits)' = {h \in T : Punished(h)}
    BY <1>0, <1>01, <1>1 DEF Tagged, Punished
  <1>5. Kept' = Kept \cup T
    BY <1>1 DEF Kept
  <1>6. /\ \A g \in Fixes \ {f} : GraveOf(g)' = GraveOf(g) /\ PaidOf(g)' = PaidOf(g)
        /\ \A v \in Workers \ {w} : inspector[v].step = "punishing" =>
              /\ Tagged(v, inspector[v].hits)' \subseteq suspicion'
              /\ \A h \in inspector'[v].hits : Punished(h)
        /\ \A v \in Workers \ {w} : inspector[v].fix \in Fixes /\ runs[inspector[v].fix] = 1 =>
              /\ inspector[v].fix # f
              /\ inspector[v].step = "suspecting" => \A h \in Kept' : h.fix # inspector'[v].fix
              /\ inspector[v].step = "punishing" =>
                    GraveOf(inspector[v].fix)' =
                    PaidOf(inspector[v].fix)' \cup Tagged(v, inspector[v].hits)'
    BY <1>0, <1>1, <1>2, <1>5, AuditElsewhere DEF Elsewhere
  <1>7. runs[f] = 1 => GraveOf(f)' = PaidOf(f)' \cup Tagged(w, inspector[w].hits)'
    <2> HAVE runs[f] = 1
    <2>1. \A h \in Kept : h.fix # f
      BY <1>0, <1>1, <1>3 DEF AuditInv
    <2>2. GraveOf(f)' = {h \in T : Punished(h)}
      BY <1>1, <1>2, <2>1 DEF GraveOf, Kept
    <2>3. PaidOf(f)' = {}
      BY <1>1, <2>1 DEF PaidOf, Kept
    <2> QED
      BY <1>4, <2>2, <2>3
  <1>8. \A g \in Fixes : inspection'[g].state = "done" /\ runs'[g] = 1 =>
            GraveOf(g)' = PaidOf(g)' /\ \A v \in Workers : inspector'[v].fix # g
    BY <1>0, <1>1, <1>6 DEF AuditInv
  <1>9. penalty' \subseteq suspicion' /\ \A h \in Kept' : h.fix \in Fixes /\ h.run \in 1..runs'[h.fix]
    BY <1>1, <1>2, <1>3, <1>5 DEF AuditInv
  <1>10. \A v \in Workers : inspector'[v].step = "punishing" =>
            /\ Tagged(v, inspector[v].hits)' \subseteq suspicion'
            /\ \A h \in inspector'[v].hits : Punished(h)
    BY <1>1, <1>4, <1>6
  <1>11. ASSUME NEW v \in Workers, inspector'[v].fix \in Fixes, runs'[inspector'[v].fix] = 1
         PROVE  /\ inspector'[v].step = "suspecting" => \A h \in Kept' : h.fix # inspector'[v].fix
                /\ inspector'[v].step = "punishing" =>
                     GraveOf(inspector[v].fix)' =
                     PaidOf(inspector[v].fix)' \cup Tagged(v, inspector[v].hits)'
    <2>1. CASE v = w
      <3>1. GraveOf(inspector[v].fix)' = GraveOf(f)' /\ PaidOf(inspector[v].fix)' = PaidOf(f)'
        BY <1>1, <2>1 DEF GraveOf, PaidOf
      <3> QED
        BY <1>1, <1>7, <1>11, <2>1, <3>1
    <2>2. CASE v # w
      BY <1>1, <1>6, <1>11, <2>2
    <2> QED
      BY <2>1, <2>2
  <1> QED
    BY <1>8, <1>9, <1>10, <1>11 DEF AuditInv

LEMMA AuditSettled ==
    ASSUME ConductInv, NEW w \in Workers, Penalize(w) \/ Swallow(w)
    PROVE  AuditInv'
  <1> USE DEF ConductInv
  <1>0. PICK f : f = inspector[w].fix
    OBVIOUS
  <1>01. PICK T : T = Tagged(w, inspector[w].hits)
    OBVIOUS
  <1>1. PICK h \in inspector[w].hits :
             /\ inspector'[w].fix = f /\ inspector'[w].run = inspector[w].run
             /\ inspector'[w].hits = inspector[w].hits \ {h}
             /\ inspector'[w].step = "punishing" /\ inspector[w].step = "punishing"
             /\ \A v \in Workers \ {w} : inspector'[v] = inspector[v]
             /\ \/ penalty' = penalty \cup Tagged(w, {h}) /\ swallowed' = swallowed
                \/ swallowed' = swallowed \cup Tagged(w, {h}) /\ penalty' = penalty
             /\ UNCHANGED <<stored, inspection, runs, suspicion, manual>>
    BY <1>0, HitSettled DEF ConductTyped
  <1>2. PICK one : one = Tagged(w, {h})
    OBVIOUS
  <1>3. f \in Fixes /\ T \subseteq suspicion /\ one \subseteq T /\ \A g \in T : g.fix = f
    <2>1. f \in Fixes /\ T \subseteq suspicion
      BY <1>0, <1>01, <1>1 DEF InspectorsApart, AuditInv
    <2>2. one \subseteq T
      BY <1>01, <1>2 DEF Tagged
    <2> QED
      BY <1>0, <1>01, <2>1, <2>2, TaggedParts
  <1>4. Tagged(w, inspector[w].hits)' \cup one = T
    BY <1>0, <1>01, <1>1, <1>2 DEF Tagged
  <1>5. Kept' = Kept /\ PaidOf(f)' = PaidOf(f) \cup one /\ GraveOf(f)' = GraveOf(f)
    <2>1. penalty' \cup swallowed' = penalty \cup swallowed \cup one
      BY <1>1, <1>2
    <2> QED
      BY <1>1, <1>3, <2>1 DEF Kept, PaidOf, GraveOf
  <1>6. /\ \A g \in Fixes \ {f} : GraveOf(g)' = GraveOf(g) /\ PaidOf(g)' = PaidOf(g)
        /\ \A v \in Workers \ {w} : inspector[v].step = "punishing" =>
              /\ Tagged(v, inspector[v].hits)' \subseteq suspicion'
              /\ \A g \in inspector'[v].hits : Punished(g)
        /\ \A v \in Workers \ {w} : inspector[v].fix \in Fixes /\ runs[inspector[v].fix] = 1 =>
              /\ inspector[v].fix # f
              /\ inspector[v].step = "suspecting" => \A g \in Kept' : g.fix # inspector'[v].fix
              /\ inspector[v].step = "punishing" =>
                    GraveOf(inspector[v].fix)' =
                    PaidOf(inspector[v].fix)' \cup Tagged(v, inspector[v].hits)'
    <2>1. /\ penalty \subseteq penalty' /\ swallowed \subseteq swallowed' /\ suspicion' = suspicion
          /\ \A g \in penalty' \ penalty : g.fix = f
          /\ \A g \in swallowed' \ swallowed : g.fix = f
      BY <1>1, <1>2, <1>3
    <2>2. inspector[w].step # "idle" /\ runs' = runs
          /\ \A v \in Workers \ {w} : inspector'[v] = inspector[v]
      BY <1>1
    <2>3. /\ \A g \in Kept' \ Kept : g.fix = f
          /\ suspicion \subseteq suspicion' /\ \A g \in suspicion' \ suspicion : g.fix = f
      BY <1>5, <2>1
    <2> HIDE DEF ConductInv
    <2>4. Elsewhere(w, f)
      BY <1>0, <2>1, <2>2, <2>3, AuditElsewhere
    <2> QED
      BY <2>4 DEF Elsewhere
  <1>7. runs[f] = 1 => GraveOf(f)' = PaidOf(f)' \cup Tagged(w, inspector[w].hits)'
    <2> HAVE runs[f] = 1
    <2>1. GraveOf(f) = PaidOf(f) \cup T
      BY <1>0, <1>01, <1>1, <1>3 DEF AuditInv
    <2> QED
      BY <1>4, <1>5, <2>1
  <1>8. \A g \in Fixes : inspection'[g].state = "done" /\ runs'[g] = 1 =>
            GraveOf(g)' = PaidOf(g)' /\ \A v \in Workers : inspector'[v].fix # g
    BY <1>0, <1>1, <1>6 DEF AuditInv
  <1>9. penalty' \subseteq suspicion' /\ \A g \in Kept' : g.fix \in Fixes /\ g.run \in 1..runs'[g.fix]
    BY <1>1, <1>2, <1>3, <1>5 DEF AuditInv
  <1>10. \A v \in Workers : inspector'[v].step = "punishing" =>
            /\ Tagged(v, inspector[v].hits)' \subseteq suspicion'
            /\ \A g \in inspector'[v].hits : Punished(g)
    BY <1>1, <1>3, <1>4, <1>6 DEF AuditInv
  <1>11. ASSUME NEW v \in Workers, inspector'[v].fix \in Fixes, runs'[inspector'[v].fix] = 1
         PROVE  /\ inspector'[v].step = "suspecting" => \A g \in Kept' : g.fix # inspector'[v].fix
                /\ inspector'[v].step = "punishing" =>
                     GraveOf(inspector[v].fix)' =
                     PaidOf(inspector[v].fix)' \cup Tagged(v, inspector[v].hits)'
    <2>1. CASE v = w
      <3>1. GraveOf(inspector[v].fix)' = GraveOf(f)' /\ PaidOf(inspector[v].fix)' = PaidOf(f)'
        BY <1>1, <2>1 DEF GraveOf, PaidOf
      <3> QED
        BY <1>1, <1>7, <1>11, <2>1, <3>1
    <2>2. CASE v # w
      BY <1>1, <1>6, <1>11, <2>2
    <2> QED
      BY <2>1, <2>2
  <1> QED
    BY <1>8, <1>9, <1>10, <1>11 DEF AuditInv

LEMMA AuditLetsGo ==
    ASSUME ConductInv, NEW w \in Workers, Finish(w) \/ FailInspection(w) \/ LoseInspection(w)
    PROVE  AuditInv'
  <1> USE DEF ConductInv
  <1>0. PICK f : f = inspector[w].fix
    OBVIOUS
  <1>1. LetsGo(w) /\ (inspection' # inspection /\ inspection'[f].state = "done" => Finish(w))
    BY <1>0, WorkerLetsGo
  <1>2. /\ inspector[w].step # "idle" /\ f \in Fixes /\ runs' = runs
        /\ inspector' = [inspector EXCEPT ![w] = Watching] \/ inspector' = inspector
        /\ \A g \in Fixes \ {f} : inspection'[g] = inspection[g]
        /\ penalty' = penalty /\ swallowed' = swallowed
    BY <1>0, <1>1 DEF LetsGo
  <1>3. /\ \A v \in Workers \ {w} : inspector'[v] = inspector[v]
        /\ inspector'[w] = Watching \/ inspector' = inspector
    BY <1>2 DEF ConductTyped
  <1>4. PICK T : suspicion' = suspicion \cup T /\ T \subseteq Tagged(w, inspector[w].hits)
                 /\ (T = {} \/ inspector'[w] = Watching)
    <2>1. CASE FailInspection(w)
      <3>1. PICK kept \in SUBSET inspector[w].hits : suspicion' = suspicion \cup Tagged(w, kept)
        BY <2>1 DEF FailInspection
      <3>2. Tagged(w, kept) \subseteq Tagged(w, inspector[w].hits)
        BY DEF Tagged
      <3>3. inspector'[w] = Watching
        BY <2>1 DEF FailInspection, ConductTyped
      <3> QED
        BY <3>1, <3>2, <3>3
    <2>2. CASE Finish(w) \/ LoseInspection(w)
      <3>1. suspicion' = suspicion \cup {}
        BY <2>2 DEF Finish, LoseInspection
      <3> QED
        BY <3>1
    <2> QED
      BY <2>1, <2>2
  <1>5. \A h \in T : h.fix = f /\ h.run = inspector[w].run
    BY <1>0, <1>4, TaggedParts
  <1>6. Kept' = Kept \cup T
    BY <1>2, <1>4 DEF Kept
  <1>7. /\ \A g \in Fixes \ {f} : GraveOf(g)' = GraveOf(g) /\ PaidOf(g)' = PaidOf(g)
        /\ \A v \in Workers \ {w} : inspector[v].step = "punishing" =>
              /\ Tagged(v, inspector[v].hits)' \subseteq suspicion'
              /\ \A h \in inspector'[v].hits : Punished(h)
        /\ \A v \in Workers \ {w} : inspector[v].fix \in Fixes /\ runs[inspector[v].fix] = 1 =>
              /\ inspector[v].fix # f
              /\ inspector[v].step = "suspecting" => \A h \in Kept' : h.fix # inspector'[v].fix
              /\ inspector[v].step = "punishing" =>
                    GraveOf(inspector[v].fix)' =
                    PaidOf(inspector[v].fix)' \cup Tagged(v, inspector[v].hits)'
    <2>1. /\ \A g \in Kept' \ Kept : g.fix = f
          /\ suspicion \subseteq suspicion' /\ \A g \in suspicion' \ suspicion : g.fix = f
          /\ penalty \subseteq penalty' /\ \A g \in penalty' \ penalty : g.fix = f
          /\ swallowed \subseteq swallowed' /\ \A g \in swallowed' \ swallowed : g.fix = f
      BY <1>2, <1>4, <1>5, <1>6
    <2> HIDE DEF ConductInv
    <2>4. Elsewhere(w, f)
      BY <1>0, <1>2, <1>3, <2>1, AuditElsewhere
    <2> QED
      BY <2>4 DEF Elsewhere
  <1>8. inspector' = inspector => Kept' = Kept /\ suspicion' = suspicion
    <2>1. Watching.step = "idle"
      BY DEF Watching
    <2> QED
      BY <1>2, <1>4, <1>6, <2>1
  <1>9. penalty' \subseteq suspicion' /\ \A h \in Kept' : h.fix \in Fixes /\ h.run \in 1..runs'[h.fix]
    <2>1. inspector[w].run \in 1..runs[f]
      BY <1>0, <1>2 DEF InspectorsApart
    <2> QED
      BY <1>2, <1>4, <1>5, <1>6, <2>1 DEF AuditInv
  <1>10. \A v \in Workers : inspector'[v].step = "punishing" =>
            /\ Tagged(v, inspector[v].hits)' \subseteq suspicion'
            /\ \A h \in inspector'[v].hits : Punished(h)
    <2> SUFFICES ASSUME NEW v \in Workers, inspector'[v].step = "punishing"
                 PROVE  /\ Tagged(v, inspector[v].hits)' \subseteq suspicion'
                        /\ \A h \in inspector'[v].hits : Punished(h)
      OBVIOUS
    <2>1. CASE v = w
      <3>1. inspector' = inspector /\ suspicion' = suspicion
        BY <1>3, <1>8, <2>1 DEF Watching
      <3>2. Tagged(v, inspector[v].hits)' = Tagged(v, inspector[v].hits)
        BY <3>1 DEF Tagged
      <3> QED
        BY <3>1, <3>2 DEF AuditInv
    <2>2. CASE v # w
      BY <1>3, <1>7, <2>2
    <2> QED
      BY <2>1, <2>2
  <1>11. ASSUME NEW v \in Workers, inspector'[v].fix \in Fixes, runs'[inspector'[v].fix] = 1
         PROVE  /\ inspector'[v].step = "suspecting" => \A h \in Kept' : h.fix # inspector'[v].fix
                /\ inspector'[v].step = "punishing" =>
                     GraveOf(inspector[v].fix)' =
                     PaidOf(inspector[v].fix)' \cup Tagged(v, inspector[v].hits)'
    <2>1. CASE inspector' = inspector
      <3>1. /\ Tagged(v, inspector[v].hits)' = Tagged(v, inspector[v].hits)
            /\ GraveOf(inspector[v].fix)' = GraveOf(inspector[v].fix)
            /\ PaidOf(inspector[v].fix)' = PaidOf(inspector[v].fix)
        BY <1>2, <1>8, <2>1 DEF Tagged, GraveOf, PaidOf
      <3> QED
        BY <1>2, <1>8, <1>11, <2>1, <3>1 DEF AuditInv
    <2>2. CASE v = w /\ inspector'[w] = Watching
      BY <1>11, <2>2, ConductConstants DEF Watching
    <2>3. CASE v # w
      BY <1>2, <1>3, <1>7, <1>11, <2>3
    <2> QED
      BY <1>3, <2>1, <2>2, <2>3
  <1>12. ASSUME NEW g \in Fixes, inspection'[g].state = "done", runs'[g] = 1
         PROVE  GraveOf(g)' = PaidOf(g)' /\ \A v \in Workers : inspector'[v].fix # g
    <2>1. CASE g # f
      <3>1. inspection[g].state = "done" /\ runs[g] = 1
        BY <1>2, <1>12, <2>1
      <3>2. GraveOf(g) = PaidOf(g) /\ \A v \in Workers : inspector[v].fix # g
        BY <3>1 DEF AuditInv
      <3> QED
        BY <1>3, <1>7, <2>1, <3>2, ConductConstants DEF Watching
    <2>2. CASE g = f
      <3>1. inspection' # inspection
        BY <1>0, <1>2, <1>12, <2>2 DEF AuditInv
      <3>2. Finish(w)
        BY <1>1, <1>12, <2>2, <3>1
      <3>3. /\ inspector[w].step = "punishing" /\ inspector[w].hits = {}
            /\ inspector'[w] = Watching /\ suspicion' = suspicion
        BY <3>2 DEF Finish, Watches, ConductTyped
      <3>4. Tagged(w, {}) = {}
        BY DEF Tagged
      <3>5. GraveOf(f) = PaidOf(f)
        BY <1>0, <1>2, <1>12, <2>2, <3>3, <3>4 DEF AuditInv
      <3>6. GraveOf(f)' = PaidOf(f)'
        BY <1>2, <3>3, <3>5 DEF GraveOf, PaidOf
      <3>7. \A v \in Workers \ {w} : inspector'[v].fix # f
        BY <1>0, <1>2, <1>3, <1>12, <2>2, OneInspector
      <3> QED
        BY <2>2, <3>3, <3>6, <3>7, ConductConstants DEF Watching
    <2> QED
      BY <2>1, <2>2
  <1> QED
    BY <1>9, <1>10, <1>11, <1>12 DEF AuditInv

LEMMA ConductInvNext ==
    ASSUME ConductInv, ConductNext \/ (\E e \in ManualEntries : RecordEntry(e))
    PROVE  ConductInv'
  <1>1. CASE ConductNext
    <2>1. ConductTyped' /\ InspectorsApart' /\ HonestInv'
      BY <1>1, InspectorsNext, HonestNext DEF ConductInv
    <2>2. ASSUME NEW f \in Fixes, StoreFixOf(f) \/ Enqueue(f) PROVE AuditInv'
      <3>1. /\ UNCHANGED <<inspector, runs, suspicion, penalty, swallowed>>
            /\ inspection' = inspection \/ inspection' = [inspection EXCEPT ![f] = Added(@)]
        BY <2>2 DEF StoreFixOf, Enqueue
      <3>2. \A g \in Fixes : inspection'[g].state = "done" => inspection[g].state = "done"
        BY <3>1 DEF ConductInv, ConductTyped, Added, JobRow
      <3> QED
        BY <3>1, <3>2, AuditStays DEF ConductInv
    <2>3. AuditInv'
      BY <1>1, <2>2, AuditInspect, AuditSuspect, AuditSettled, AuditLetsGo DEF ConductNext
    <2>4. manual' = manual
      BY <1>1 DEF ConductNext, StoreFixOf, Enqueue, Inspect, Suspect, Penalize, Finish,
                  FailInspection, Swallow, LoseInspection
    <2> QED
      BY <2>1, <2>3, <2>4 DEF ConductInv, ManualTyped
  <1>2. CASE \E e \in ManualEntries : RecordEntry(e)
    <2>1. UNCHANGED <<stored, inspection, inspector, runs, suspicion, penalty, swallowed>>
      BY <1>2 DEF RecordEntry
    <2>2. ConductTyped' /\ InspectorsApart' /\ HonestInv'
      BY <2>1 DEF ConductInv, ConductTyped, InspectorsApart, HonestInv, Honest, HonestWalk
    <2>3. ManualTyped'
      BY <1>2, FS_AddElement DEF RecordEntry, ConductInv, ManualTyped
    <2> QED
      BY <2>1, <2>2, <2>3, AuditStays DEF ConductInv
  <1> QED
    BY <1>1, <1>2

LEMMA AuditAddsUp ==
    ASSUME ConductInv
    PROVE  AuditAddsUpUnlessRetried
  BY DEF ConductInv, AuditInv, AuditAddsUpUnlessRetried, GraveOf, PaidOf

\* The recursive function behind the sum of the entries.
LEMMA ScoreSums ==
    ASSUME NEW S, IsFiniteSet(S)
    PROVE  MapThenSumSet(computeDelta, S) = SumOver([e \in S |-> computeDelta(e)], S)
  <1> DEFINE g == [e \in S |-> computeDelta(e)]
             Is(t) == t = [s \in SUBSET S |-> IF s = {} THEN 0
                              ELSE computeDelta(AnyOf(s)) + t[s \ {AnyOf(s)}]]
  <1>1. MapThenSumSet(computeDelta, S) = (CHOOSE t : Is(t))[S]
    BY DEF MapThenSumSet, MapThenFoldSet, AnyOf
  <1>2. \A t : Is(t) <=> IsSumTable(t, g, SUBSET S)
    <2>1. \A s \in SUBSET S : s # {} => g[AnyOf(s)] = computeDelta(AnyOf(s))
      BY AnyOfIsIn
    <2> QED
      BY <2>1 DEF IsSumTable
  <1>3. Is(CHOOSE t : Is(t))
    <2>1. \E t : Is(t)
      BY <1>2, SumTableExists
    <2> HIDE DEF Is
    <2> QED
      BY <2>1
  <1> HIDE DEF Is, g
  <1> QED
    BY <1>1, <1>2, <1>3, SumTableUnique DEF g

LEMMA PenaltySums ==
    MapThenSumSet(LAMBDA h : Magnitude(h.severity), {}) = 0
  <1> DEFINE Is(t) == t = [s \in SUBSET {} |-> IF s = {} THEN 0
                              ELSE Magnitude(AnyOf(s).severity) + t[s \ {AnyOf(s)}]]
  <1>1. MapThenSumSet(LAMBDA h : Magnitude(h.severity), {}) = (CHOOSE t : Is(t))[{}]
    BY DEF MapThenSumSet, MapThenFoldSet, AnyOf
  <1>2. Is([s \in SUBSET {} |-> 0])
    OBVIOUS
  <1>3. Is(CHOOSE t : Is(t))
    <2> HIDE DEF Is
    <2> QED
      BY <1>2
  <1> QED
    BY <1>1, <1>3

LEMMA HonestGoesUnpunished ==
    ASSUME ConductInv
    PROVE  HonestNeverPunishedUnlessClamped
  <1> SUFFICES ASSUME Honest
               PROVE  penalty = {} /\ Score = 100 + MapThenSumSet(computeDelta, manual)
    BY DEF HonestNeverPunishedUnlessClamped, Honest
  <1>1. penalty = {}
    BY DEF ConductInv, HonestInv
  <1> DEFINE g == [e \in manual |-> computeDelta(e)]
  <1>2. \A e \in manual : g[e] \in Int
    BY ConductConstants DEF ConductInv, ManualTyped, computeDelta, Magnitude
  <1>3. MapThenSumSet(computeDelta, manual) \in Int
    <2>1. SumOver(g, manual) \in Int
      <3> HIDE DEF g
      <3> QED
        BY <1>2, SumIsInt DEF ConductInv, ManualTyped
    <2> QED
      BY <2>1, ScoreSums DEF ConductInv, ManualTyped
  <1>4. PICK n \in Int : n = MapThenSumSet(computeDelta, manual)
    BY <1>3
  <1>5. MapThenSumSet(LAMBDA h : Magnitude(h.severity), penalty) = 0
    BY <1>1, PenaltySums
  <1>6. Score = 100 + n - 0
    BY <1>4, <1>5 DEF Score
  <1> QED
    BY <1>1, <1>4, <1>6

-----------------------------------------------------------------------------
(* All services together *)

AllKinds == RosterKinds \cup MatchKinds \cup PlaceKinds \cup TrainingKinds \cup AccessKinds
            \cup SocialKinds
Checkpoints == {"name", "assoc", "drill"}

\* Every call is one of a service; those of the voice, MQTT and social services
\* never wait where the checks of the others pick up theirs.
Stations ==
    \A s \in Slots : Busy(s) =>
        /\ doing[s].kind \in AllKinds
        /\ doing[s].kind \in AccessKinds \cup SocialKinds => doing[s].at \notin Checkpoints

PlatformInv ==
    /\ RosterInv /\ MatchInv /\ PlaceInv /\ TrainingInv /\ AccessInv
    /\ StandingInv /\ SocialInv /\ ConductInv /\ Stations

LEMMA StationsTell ==
    ASSUME PlatformInv, NEW s \in Slots, Busy(s)
    PROVE  /\ doing[s].at = "name" => doing[s].kind \in PlaceKinds
           /\ doing[s].at \in {"assoc", "drill"} => doing[s].kind \in LessonKinds
  <1> DEFINE c == doing[s]
  <1>1. c.kind \in RosterKinds => c.at \notin Checkpoints
    BY DEF PlatformInv, RosterInv, SlotsShaped, Shaped, EventShape, TeamShape, SquadShape,
           PatchShape, MemberShape, AtPlaces, Checkpoints
  <1>2. c.kind \in MatchKinds => c.at \notin Checkpoints
    BY DEF PlatformInv, MatchInv, MatchCall, MatchKinds, Checkpoints
  <1>3. c.kind \in PlaceKinds => c.at \notin {"assoc", "drill"}
    BY DEF PlatformInv, PlaceInv, PlaceFact, Checkpoints
  <1>4. c.kind \in TrainingKinds => c.at # "name" /\ (c.at \in {"assoc", "drill"} => c.kind \in LessonKinds)
    BY DEF PlatformInv, TrainingInv, TrainingFact, UnitFact, LessonFact, TrainingKinds, Checkpoints
  <1> QED
    BY <1>1, <1>2, <1>3, <1>4 DEF PlatformInv, Stations, AllKinds, Checkpoints

LEMMA MatchKept ==
    ASSUME MatchInv, Spares(MatchKinds), UNCHANGED <<eventVars, rosterVars, matchVars>>
    PROVE  MatchInv'
  BY MatchInvStays DEF Spares, Busy

LEMMA PlaceKept ==
    ASSUME PlaceInv, Spares(PlaceKinds), UNCHANGED <<eventVars, plan>>
    PROVE  PlaceInv'
  <1>1. PlacesApart'
    BY DEF Spares, PlaceInv, PlacesApart, PlaceKinds, Busy
  <1> QED
    BY <1>1, PlaceInvStays DEF Spares, Busy

LEMMA TrainingKept ==
    ASSUME TrainingInv, Spares(TrainingKinds), UNCHANGED <<eventVars, trainingVars>>
    PROVE  TrainingInv'
  <1>1. NewKinds \subseteq TrainingKinds
    BY DEF NewKinds, TrainingKinds, UnitKinds, LessonKinds, ClassKinds, ExerciseKinds
  <1>2. TrainingApart'
    BY <1>1 DEF Spares, TrainingInv, TrainingApart, Busy
  <1> QED
    BY <1>2, TrainingInvStays DEF Spares, Busy

LEMMA AccessKept ==
    ASSUME AccessInv, Spares(AccessKinds), UNCHANGED <<eventVars, rosterVars>>
    PROVE  AccessInv'
  BY AccessInvStays DEF Spares, Busy

\* The calls of one service leave the roster alone.
LEMMA RosterKept ==
    ASSUME RosterInv, NEW s \in Slots, NEW kinds, Handles(s, kinds), kinds \cap RosterKinds = {},
           UNCHANGED <<eventVars, rosterVars>>
    PROVE  RosterInv' /\ Spares(RosterKinds)
  <1>1. Rivals' /\ DOMAIN doing' = Slots /\ Spares(RosterKinds)
    BY MovesKeepRivals, MovesSpare DEF RosterInv, Handles
  <1> QED
    BY <1>1, RosterInvStays

\* Nor do they mix with the calls of another one.
LEMMA StationsKept ==
    ASSUME Stations, NEW s \in Slots, NEW kinds, Handles(s, kinds), kinds \subseteq AllKinds,
           Busy(s)' => doing'[s].at \notin Checkpoints \/ kinds \cap (AccessKinds \cup SocialKinds) = {}
    PROVE  Stations'
  <1> SUFFICES ASSUME NEW t \in Slots, Busy(t)'
               PROVE  /\ doing'[t].kind \in AllKinds
                      /\ doing'[t].kind \in AccessKinds \cup SocialKinds =>
                            doing'[t].at \notin Checkpoints
    BY DEF Stations
  <1>1. CASE t = s
    BY <1>1 DEF Handles
  <1>2. CASE t # s
    BY <1>2 DEF Handles, Stations, Busy
  <1> QED
    BY <1>1, <1>2

LEMMA KindsApart ==
    /\ MatchKinds \cap RosterKinds = {} /\ PlaceKinds \cap RosterKinds = {}
    /\ TrainingKinds \cap RosterKinds = {} /\ AccessKinds \cap RosterKinds = {}
    /\ SocialKinds \cap RosterKinds = {}
    /\ MatchKinds \cap PlaceKinds = {} /\ MatchKinds \cap TrainingKinds = {}
    /\ MatchKinds \cap AccessKinds = {} /\ MatchKinds \cap SocialKinds = {}
    /\ PlaceKinds \cap TrainingKinds = {} /\ PlaceKinds \cap AccessKinds = {}
    /\ PlaceKinds \cap SocialKinds = {}
    /\ TrainingKinds \cap AccessKinds = {} /\ TrainingKinds \cap SocialKinds = {}
    /\ AccessKinds \cap SocialKinds = {}
    /\ MatchKinds \cup PlaceKinds \cup TrainingKinds \cup AccessKinds \cup SocialKinds \subseteq AllKinds
  BY DEF MatchKinds, PlaceKinds, TrainingKinds, UnitKinds, LessonKinds, ClassKinds, ExerciseKinds,
         AccessKinds, SocialKinds, TeamKinds, SquadKinds, EventKinds, AllKinds

LEMMA AccessStation ==
    ASSUME DOMAIN doing = Slots, NEW s \in Slots, AccessStep(s), Stations
    PROVE  Busy(s)' => doing'[s].at \notin Checkpoints
  <1>1. CASE SignVoice(s) \/ SignMqtt(s)
    BY <1>1 DEF SignVoice, SignMqtt, Leave, Busy
  <1>2. CASE AskMqtt(s)
    BY <1>2 DEF AskMqtt, Begin, Checkpoints
  <1>3. CASE AskVoice(s)
    <2>1. \/ \E c : Begin(s, c) /\ c.at = "member"
          \/ doing[s] = Idle /\ doing' = doing
      <3>1. CASE \E u \in Staff, e \in Events : doing[s] = Idle /\ doing' = doing
        BY <3>1
      <3>2. CASE \E u \in Users, q \in Squads :
                   Begin(s, [kind |-> "voice", at |-> "member", user |-> u, room |-> q,
                             event |-> EventOfSquad(q), squads |-> {q}, about |-> {},
                             heeds |-> {q, u, EventOfSquad(q)}])
        BY <3>2
      <3>3. CASE \E u \in Users, t \in Teams :
                   Begin(s, [kind |-> "voice", at |-> "member", user |-> u, room |-> t,
                             event |-> EventOf[t], squads |-> {q \in Squads : TeamOf[q] = t},
                             about |-> {}, heeds |-> {u, EventOf[t]}])
        BY <3>3
      <3> QED
        BY <1>3, <3>1, <3>2, <3>3 DEF AskVoice
    <2> QED
      BY <2>1 DEF Begin, Checkpoints, Busy
  <1> QED
    BY <1>1, <1>2, <1>3 DEF AccessStep

LEMMA SocialStation ==
    ASSUME DOMAIN doing = Slots, NEW s \in Slots, SocialStep(s), SocialInv
    PROVE  Busy(s)' => doing'[s].at \notin Checkpoints
  <1>1. CASE SaveProfile(s) \/ SaveFriend(s) \/ SaveAnswer(s) \/ SaveCode(s) \/ SaveRedeem(s)
    BY <1>1 DEF SaveProfile, SaveFriend, SaveAnswer, SaveCode, SaveRedeem, Leave, Busy
  <1>2. CASE AskProfile(s) \/ AskFriend(s) \/ AskAnswer(s) \/ AskCode(s) \/ AskRedeem(s)
    <2>1. \E c : Begin(s, c) /\ c.at \in {"callsign", "pair", "writing", "already"}
      <3>1. CASE AskProfile(s)
        BY <3>1 DEF AskProfile
      <3>2. CASE AskFriend(s)
        BY <3>2 DEF AskFriend
      <3>3. CASE AskAnswer(s)
        BY <3>3 DEF AskAnswer
      <3>4. CASE AskCode(s)
        BY <3>4 DEF AskCode
      <3>5. CASE AskRedeem(s)
        BY <3>5 DEF AskRedeem
      <3> QED
        BY <1>2, <3>1, <3>2, <3>3, <3>4, <3>5
    <2> QED
      BY <2>1 DEF Begin, Checkpoints
  <1>3. CASE CheckCallsign(s) \/ CheckPair(s) \/ CheckRedeemed(s)
    <2>1. /\ Busy(s) /\ IsCall(doing[s])
          /\ \E test : Pass(s, test, "writing")
      BY <1>3 DEF CheckCallsign, CheckPair, CheckRedeemed, At, Busy, SocialInv, SocialFact, ProfileFact,
                  BefriendFact, ReferralFact
    <2>2. Busy(s)' => doing'[s] = [doing[s] EXCEPT !.at = "writing"]
      BY <2>1, PassMoves
    <2>3. [doing[s] EXCEPT !.at = "writing"].at = "writing"
      BY <2>1 DEF IsCall
    <2> QED
      BY <2>2, <2>3 DEF Checkpoints
  <1> QED
    BY <1>1, <1>2, <1>3 DEF SocialStep

LEMMA PlatformInvInit ==
    ASSUME PlatformInit
    PROVE  PlatformInv
  <1> USE StartConstants
  <1>0. \A s \in Slots : ~Busy(s)
    BY DEF PlatformInit, SlotInit, Busy
  <1>1. RosterInv
    <2>1. SlotsShaped /\ Rivals
      BY <1>0 DEF SlotsShaped, Rivals, PlatformInit, SlotInit
    <2>2. EventTypeOK
      BY DEF PlatformInit, EventTypeOK
    <2>3. RosterTypeOK
      <3>1. \A q \in Squads : TeamOf[q] \in Teams
        BY RosterConstants
      <3> QED
        BY <2>2, <3>1 DEF PlatformInit, RosterTypeOK, Exists, SquadStatuses
    <2>4. OneSquadPerEventUnlessContended
      BY DEF PlatformInit, OneSquadPerEventUnlessContended, SquadsOf
    <2>5. LeaderIsMemberUnlessContended
      BY DEF PlatformInit, LeaderIsMemberUnlessContended
    <2> QED
      BY <1>0, <2>1, <2>3, <2>4, <2>5 DEF RosterInv
  <1>2. MatchInv
    <2>1. round = Start.round /\ round \in [Rounds -> RoundShape]
      BY DEF PlatformInit, RoundShape
    <2>2. \A r \in Rounds : out[r] = <<>> /\ DOMAIN out = Rounds
      BY DEF PlatformInit
    <2>3. DOMAIN out = Rounds /\ \A r \in Rounds : out[r] = [o \in DOMAIN out[r] |-> out[r][o]]
      BY DEF PlatformInit
    <2>4. MatchTypeOK
      <3> SUFFICES ASSUME NEW r \in Rounds
                   PROVE  /\ round[r].status \in {"none", "ACTIVE"} \cup Over
                          /\ round[r].winner \in Teams \cup {NoOne}
                          /\ ~Played(r) => round[r] = NoRound /\ out[r] = <<>>
                          /\ \A o \in DOMAIN out[r] : out[r][o] \in (Operators \ {o}) \cup {NoOne}
        BY DEF MatchTypeOK
      <3>1. round[r] \in RoundShape
        BY <2>1
      <3>2. round[r].status = "none" => round[r].winner = NoOne
        BY <2>1
      <3>3. ~Played(r) => round[r] = NoRound
        BY <3>1, <3>2 DEF Played, NoRound, RoundShape
      <3> QED
        BY <2>2, <3>1, <3>3 DEF RoundShape
    <2>5. RoundParents
      <3>1. \A r \in Rounds : round[r].winner \in Teams \cup {NoOne}
        BY <2>1 DEF RoundShape
      <3>2. status = Start.status /\ team = [t \in Teams |-> "exists"]
        BY DEF PlatformInit
      <3> QED
        BY <2>1, <3>1, <3>2 DEF RoundParents, Played, Live
    <2>6. OneRoundAtATime
      BY <2>1 DEF OneRoundAtATime, Active
    <2> QED
      BY <1>0, <2>1, <2>3, <2>4, <2>5, <2>6 DEF MatchInv
  <1>3. PlaceInv
    <2>1. plan = Start.plan /\ status = Start.status
      BY DEF PlatformInit
    <2>2. \A p \in Places : \/ plan[p] = Blank("unused")
                            \/ plan[p] \in [state : {"there"}, event : Events, name : PlaceNames,
                                            zone : Zones \cup {Nowhere}, rev : {0}]
      BY <2>1
    <2>3. PlanTyped
      <3>1. \A p \in Places : plan[p] \in PlaceRow
        BY <2>2 DEF Blank, PlaceRow
      <3>2. plan \in [Places -> PlaceRow]
        BY <2>1, <3>1
      <3>3. \A p \in Places :
              /\ There(p) => plan[p].event \in Events /\ plan[p].name \in PlaceNames /\ Live(plan[p].event)
              /\ ~There(p) => plan[p].event = Nowhere /\ plan[p].zone = Nowhere
        BY <2>1, <2>2 DEF There, Blank, Live
      <3> QED
        BY <3>2, <3>3 DEF PlanTyped
    <2>4. PlanIsSound
      <3>1. \A p \in Places : plan[p].zone # Nowhere =>
               p \in Tasks /\ There(plan[p].zone) /\ plan[plan[p].zone].event = plan[p].event
        BY <2>1, <2>2 DEF There, Blank
      <3>2. \A p, q \in Places : There(p) /\ There(q) /\ plan[p].event = plan[q].event
               /\ plan[p].name = plan[q].name /\ (p \in Zones) = (q \in Zones) => p = q
        BY <2>1 DEF There
      <3> QED
        BY <3>1, <3>2 DEF PlanIsSound
    <2> QED
      BY <1>0, <2>3, <2>4 DEF PlaceInv, PlacesApart
  <1>4. TrainingInv
    <2>1. /\ unit = Start.unit /\ assigned = Start.assigned /\ course = Start.course
          /\ exercise = [x \in Exercises |-> NoExercise("unused")]
      BY DEF PlatformInit
    <2>2. \A k \in Courses : \/ course[k] = NoCourse("unused")
                             \/ course[k] \in [state : {"there"}, unit : Units, starts : Hours,
                                               ends : Hours \cup {None}]
      BY <2>1
    <2>3. \A k \in Courses : course[k] \in CourseRow
      BY <2>2 DEF CourseRow, NoCourse, RowStates
    <2>4. course \in [Courses -> CourseRow]
      BY <2>1, <2>3
    <2>5. exercise \in [Exercises -> ExerciseRow]
      BY <2>1 DEF NoExercise, ExerciseRow, RowStates
    <2>6. \A a \in assigned : UnitThere(a[1]) /\ a \in Units \X Instructors
      BY <2>1 DEF UnitThere
    <2>7. \A k \in Courses : CourseThere(k) => course[k].unit \in Units /\ UnitThere(course[k].unit)
      BY <2>1, <2>2 DEF CourseThere, UnitThere, NoCourse
    <2>8. \A x \in Exercises :
            /\ ExerciseThere(x) => exercise[x].course \in Courses /\ CourseThere(exercise[x].course)
            /\ ~ExerciseThere(x) => exercise[x] = NoExercise(exercise[x].state)
            /\ exercise[x].event # None => Live(exercise[x].event)
      BY <2>1 DEF NoExercise, ExerciseThere
    <2>9. TrainingTyped
      BY <2>1, <2>4, <2>5, <2>6, <2>7, <2>8 DEF TrainingTyped
    <2>10. ClassEndsAfterItStartsUnlessContended
      <3>1. \A k \in Courses : CourseThere(k) => Start.course[k].ends = None
                                              \/ Start.course[k].ends > Start.course[k].starts
        BY <2>1, <2>2 DEF CourseThere, InOrder, NoCourse
      <3> QED
        BY <2>1, <3>1 DEF ClassEndsAfterItStartsUnlessContended
    <2> QED
      BY <1>0, <2>9, <2>10 DEF TrainingInv, TrainingApart
  <1>5. AccessInv /\ Stations
    BY <1>0 DEF AccessInv, Stations
  <1>6. StandingInv
    <2>1. DayInv /\ ProgressParents
      BY <1>0 DEF PlatformInit, DayInv, ProgressParents
    <2>2. ReviewInv
      BY FS_EmptySet DEF PlatformInit, ReviewInv, NoReview
    <2> QED
      BY <2>1, <2>2 DEF StandingInv
  <1>7. SocialInv
    <2>1. /\ callsign \in [People -> Callsigns \cup {NoName}]
          /\ \A u, v \in People : callsign[u] = callsign[v] /\ callsign[u] # NoName => u = v
      BY DEF PlatformInit
    <2>2. /\ friendship = <<>> /\ post = [p \in Posts |-> NoPost] /\ like = {}
          /\ comment = [p \in Posts |-> 0] /\ code = {} /\ referrer = [u \in People |-> NoName]
      BY DEF PlatformInit, SocialInit
    <2>3. SocialTyped
      <3>1. NoPost \in [author : People \cup {NoName}, likes : Nat, comments : Nat]
        BY DEF NoPost
      <3>2. friendship \in Seq(FriendRow)
        BY <2>2
      <3> QED
        BY <2>1, <2>2, <3>1, <3>2, FS_EmptySet DEF SocialTyped
    <2>4. \A p \in Posts : ~Posted(p) /\ post[p].likes = 0 /\ post[p].comments = 0 /\ post[p] = NoPost
                           /\ {l \in like : l[1] = p} = {}
      BY <2>2 DEF Posted, NoPost
    <2>5. SocialIsSound
      BY <2>1, <2>2, <2>4, FS_EmptySet DEF SocialIsSound, Profiled
    <2>6. FriendsApart
      BY <2>2 DEF FriendsApart, Rows
    <2> QED
      BY <1>0, <2>3, <2>5, <2>6 DEF SocialInv
  <1>8. ConductInv
    <2>1. ConductTyped
      BY DEF PlatformInit, ConductInit, ConductTyped, NoJob, JobRow, Watching, WatchRow
    <2>2. /\ inspection = [f \in Fixes |-> NoJob] /\ inspector = [w \in Workers |-> Watching]
          /\ runs = [f \in Fixes |-> 0] /\ suspicion = {} /\ penalty = {} /\ swallowed = {}
      BY DEF PlatformInit, ConductInit
    <2>3. InspectorsApart
      BY <2>2, ConductConstants, QueueConstants DEF InspectorsApart, NoJob, Watching
    <2>4. HonestInv
      BY <2>2 DEF HonestInv, Watching
    <2>5. AuditInv
      BY <2>2 DEF AuditInv, Kept, NoJob, Watching
    <2>6. ManualTyped
      BY FS_EmptySet DEF PlatformInit, ConductInit, ManualTyped
    <2> QED
      BY <2>1, <2>3, <2>4, <2>5, <2>6 DEF ConductInv
  <1> QED
    BY <1>1, <1>2, <1>3, <1>4, <1>5, <1>6, <1>7, <1>8 DEF PlatformInv

LEMMA ConductKept ==
    ASSUME ConductInv, UNCHANGED conductVars
    PROVE  ConductInv'
  <1>0. UNCHANGED <<stored, inspection, inspector, runs, suspicion, penalty, swallowed>>
    BY DEF conductVars
  <1>1. ConductTyped' /\ InspectorsApart'
    BY <1>0 DEF ConductInv, ConductTyped, InspectorsApart
  <1>2. HonestInv'
    BY <1>0 DEF ConductInv, HonestInv, Honest, HonestWalk
  <1>3. AuditInv'
    BY <1>0, AuditStays DEF ConductInv
  <1>4. ManualTyped'
    BY DEF conductVars, ConductInv, ManualTyped
  <1> QED
    BY <1>1, <1>2, <1>3, <1>4 DEF ConductInv

LEMMA PlatformKeepsRoster ==
    ASSUME PlatformInv, RosterMove, UNCHANGED conductVars
    PROVE  PlatformInv'
  <1>1. [RosterNext]_vars
    BY DEF RosterMove, RosterNext
  <1>2. RosterInv' /\ RosterTypeOK'
    BY <1>1, RosterInvNext DEF PlatformInv, RosterInv
  <1>3. MatchInv' /\ PlaceInv' /\ TrainingInv' /\ AccessInv' /\ StandingInv'
    BY <1>1, <1>2, MatchInvRoster, PlaceInvRoster, TrainingInvRoster, AccessInvRoster,
       StandingInvRoster DEF PlatformInv, RosterMove
  <1>4. SocialInv'
    <2>1. Spares(SocialKinds)
      BY <1>1, RosterSpares, KindsApart DEF PlatformInv
    <2> QED
      BY <2>1, SocialInvCalls DEF PlatformInv, RosterMove
  <1>5. Stations'
    <2> DEFINE rest == MatchKinds \cup PlaceKinds \cup TrainingKinds \cup AccessKinds \cup SocialKinds
    <2>1. rest \cap RosterKinds = {}
      BY KindsApart
    <2>2. Spares(rest)
      BY <1>1, <2>1, RosterSpares DEF PlatformInv
    <2>3. Spares(AllKinds \ RosterKinds)
      BY <2>2 DEF Spares, AllKinds
    <2>4. \A t \in Slots : Busy(t)' => doing'[t].kind \in AllKinds
      <3> SUFFICES ASSUME NEW t \in Slots, Busy(t)', doing'[t].kind \notin AllKinds
                   PROVE  FALSE
        OBVIOUS
      <3> DEFINE odd == {doing'[t].kind}
      <3>1. odd \cap RosterKinds = {}
        BY DEF AllKinds
      <3>2. Spares(odd)
        BY <1>1, <3>1, RosterSpares DEF PlatformInv
      <3>3. doing'[t] = doing[t]
        BY <3>2 DEF Spares
      <3> QED
        BY <3>3 DEF PlatformInv, Stations, Busy
    <2>5. \A t \in Slots : Busy(t)' /\ doing'[t].kind \in AccessKinds \cup SocialKinds =>
              doing'[t] = doing[t]
      BY <2>2 DEF Spares
    <2> QED
      BY <2>4, <2>5 DEF PlatformInv, Stations, Busy
  <1> QED
    BY <1>2, <1>3, <1>4, <1>5, ConductKept DEF PlatformInv

\* A step of one service, in one slot: what it handles, and what it leaves alone.
LEMMA OthersSpared ==
    ASSUME NEW s \in Slots, NEW kinds, Handles(s, kinds), NEW others, kinds \cap others = {}
    PROVE  Spares(others)
  BY MovesSpare

LEMMA PlatformKeepsContests ==
    ASSUME PlatformInv, NEW s \in Slots, Contests(s), UNCHANGED conductVars
    PROVE  PlatformInv'
  <1>1. MatchInv' /\ Handles(s, MatchKinds)
    BY MatchInvNext DEF PlatformInv, Contests
  <1>2. UNCHANGED <<eventVars, rosterVars, plan, trainingVars, grant, standingVars, socialVars>>
    BY DEF Contests, MatchStep
  <1>3. RosterInv' /\ Spares(RosterKinds)
    BY <1>1, <1>2, RosterKept, KindsApart DEF PlatformInv
  <1>4. Spares(PlaceKinds) /\ Spares(TrainingKinds) /\ Spares(AccessKinds) /\ Spares(SocialKinds)
    BY <1>1, OthersSpared, KindsApart
  <1>5. PlaceInv' /\ TrainingInv' /\ AccessInv' /\ SocialInv' /\ StandingInv' /\ ConductInv'
    BY <1>2, <1>3, <1>4, PlaceKept, TrainingKept, AccessKept, SocialInvCalls, StandingInvStays,
       ConductKept DEF PlatformInv
  <1>6. Stations'
    BY <1>1, StationsKept, KindsApart DEF PlatformInv
  <1> QED
    BY <1>1, <1>3, <1>5, <1>6 DEF PlatformInv

LEMMA PlatformKeepsGrounds ==
    ASSUME PlatformInv, NEW s \in Slots, Grounds(s), UNCHANGED conductVars
    PROVE  PlatformInv'
  <1>1. PlaceInv' /\ Handles(s, PlaceKinds)
    BY PlaceInvNext, StationsTell DEF PlatformInv, Grounds
  <1>2. UNCHANGED <<eventVars, rosterVars, matchVars, trainingVars, grant, socialVars>>
    BY DEF Grounds, PlaceStep
  <1>3. RosterInv' /\ Spares(RosterKinds)
    BY <1>1, <1>2, RosterKept, KindsApart DEF PlatformInv
  <1>4. Spares(MatchKinds) /\ Spares(TrainingKinds) /\ Spares(AccessKinds) /\ Spares(SocialKinds)
    BY <1>1, OthersSpared, KindsApart
  <1>5. MatchInv' /\ TrainingInv' /\ AccessInv' /\ SocialInv' /\ ConductInv'
    BY <1>2, <1>4, MatchKept, TrainingKept, AccessKept, SocialInvCalls, ConductKept DEF PlatformInv
  <1>6. StandingInv'
    BY <1>2, <1>3, StandingInvPlaces DEF PlatformInv, Grounds
  <1>7. Stations'
    BY <1>1, StationsKept, KindsApart DEF PlatformInv
  <1> QED
    BY <1>1, <1>3, <1>5, <1>6, <1>7 DEF PlatformInv

LEMMA PlatformKeepsLessons ==
    ASSUME PlatformInv, NEW s \in Slots, Lessons(s), UNCHANGED conductVars
    PROVE  PlatformInv'
  <1>1. TrainingInv' /\ Handles(s, TrainingKinds)
    BY TrainingInvNext, StationsTell DEF PlatformInv, Lessons
  <1>2. UNCHANGED <<eventVars, rosterVars, matchVars, plan, grant, standingVars, socialVars>>
    BY DEF Lessons, TrainingStep
  <1>3. RosterInv' /\ Spares(RosterKinds)
    BY <1>1, <1>2, RosterKept, KindsApart DEF PlatformInv
  <1>4. Spares(MatchKinds) /\ Spares(PlaceKinds) /\ Spares(AccessKinds) /\ Spares(SocialKinds)
    BY <1>1, OthersSpared, KindsApart
  <1>5. MatchInv' /\ PlaceInv' /\ AccessInv' /\ SocialInv' /\ StandingInv' /\ ConductInv'
    BY <1>2, <1>3, <1>4, MatchKept, PlaceKept, AccessKept, SocialInvCalls, StandingInvStays,
       ConductKept DEF PlatformInv
  <1>6. Stations'
    BY <1>1, StationsKept, KindsApart DEF PlatformInv
  <1> QED
    BY <1>1, <1>3, <1>5, <1>6 DEF PlatformInv

LEMMA PlatformKeepsGrants ==
    ASSUME PlatformInv, NEW s \in Slots, Grants(s), UNCHANGED conductVars
    PROVE  PlatformInv'
  <1>1. AccessInv' /\ Handles(s, AccessKinds)
    BY AccessInvNext DEF PlatformInv, Grants
  <1>2. UNCHANGED <<eventVars, rosterVars, matchVars, plan, trainingVars, standingVars, socialVars>>
    BY DEF Grants, AccessStep
  <1>3. RosterInv' /\ Spares(RosterKinds)
    BY <1>1, <1>2, RosterKept, KindsApart DEF PlatformInv
  <1>4. Spares(MatchKinds) /\ Spares(PlaceKinds) /\ Spares(TrainingKinds) /\ Spares(SocialKinds)
    BY <1>1, OthersSpared, KindsApart
  <1>5. MatchInv' /\ PlaceInv' /\ TrainingInv' /\ SocialInv' /\ StandingInv' /\ ConductInv'
    BY <1>2, <1>3, <1>4, MatchKept, PlaceKept, TrainingKept, SocialInvCalls, StandingInvStays,
       ConductKept DEF PlatformInv
  <1>6. Stations'
    <2>1. Busy(s)' => doing'[s].at \notin Checkpoints
      BY AccessStation DEF PlatformInv, RosterInv, SlotsShaped, Grants
    <2> QED
      BY <1>1, <2>1, StationsKept, KindsApart DEF PlatformInv
  <1> QED
    BY <1>1, <1>3, <1>5, <1>6 DEF PlatformInv

LEMMA PlatformKeepsMeetings ==
    ASSUME PlatformInv, NEW s \in Slots, Meetings(s), UNCHANGED conductVars
    PROVE  PlatformInv'
  <1>0. DOMAIN doing = Slots /\ Rivals
    BY DEF PlatformInv, RosterInv, SlotsShaped
  <1>1. SocialInv' /\ Handles(s, SocialKinds)
    BY <1>0, SocialInvNext DEF PlatformInv, Meetings
  <1>2. UNCHANGED <<eventVars, rosterVars, matchVars, plan, trainingVars, grant, standingVars>>
    BY DEF Meetings
  <1>3. RosterInv' /\ Spares(RosterKinds)
    BY <1>1, <1>2, RosterKept, KindsApart DEF PlatformInv
  <1>4. Spares(MatchKinds) /\ Spares(PlaceKinds) /\ Spares(TrainingKinds) /\ Spares(AccessKinds)
    BY <1>1, OthersSpared, KindsApart
  <1>5. MatchInv' /\ PlaceInv' /\ TrainingInv' /\ AccessInv' /\ StandingInv' /\ ConductInv'
    BY <1>2, <1>3, <1>4, MatchKept, PlaceKept, TrainingKept, AccessKept, StandingInvStays,
       ConductKept DEF PlatformInv
  <1>6. Stations'
    <2>1. Busy(s)' => doing'[s].at \notin Checkpoints
      BY <1>0, SocialStation DEF PlatformInv, Meetings
    <2> QED
      BY <1>1, <2>1, StationsKept, KindsApart DEF PlatformInv
  <1> QED
    BY <1>1, <1>3, <1>5, <1>6 DEF PlatformInv

\* While no call moves, every service keeps what its rows do not disturb.
LEMMA CallsAtRest ==
    ASSUME PlatformInv, UNCHANGED <<doing, contended, eventVars, rosterVars>>
    PROVE  RosterInv' /\ Stations' /\ \A kinds : Spares(kinds)
  <1>1. \A kinds : Spares(kinds)
    BY DEF Spares
  <1>2. DOMAIN doing' = Slots /\ Rivals'
    BY DEF PlatformInv, RosterInv, SlotsShaped, Rivals, Busy
  <1>3. RosterInv'
    BY <1>1, <1>2, RosterInvStays DEF PlatformInv
  <1>4. Stations'
    BY DEF PlatformInv, Stations, Busy
  <1> QED
    BY <1>1, <1>3, <1>4

LEMMA PlatformKeepsAtOnce ==
    ASSUME PlatformInv, AtOnce, UNCHANGED conductVars
    PROVE  PlatformInv'
  <1>1. UNCHANGED <<doing, contended, eventVars, rosterVars, matchVars, plan, trainingVars, grant>>
    BY DEF AtOnce
  <1>2. RosterInv' /\ Stations' /\ \A kinds : Spares(kinds)
    BY <1>1, CallsAtRest
  <1>3. MatchInv' /\ PlaceInv' /\ TrainingInv' /\ AccessInv' /\ ConductInv'
    BY <1>1, <1>2, MatchKept, PlaceKept, TrainingKept, AccessKept, ConductKept DEF PlatformInv
  <1>4. StandingInv' /\ SocialInv'
    <2>1. CASE (Playing \/ Reviewing) /\ UNCHANGED socialVars
      BY <1>1, <1>2, <2>1, StandingInvNext, SocialInvCalls DEF PlatformInv
    <2>2. CASE (\E u \in Profiled : FeedStep(u)) /\ UNCHANGED standingVars
      BY <1>1, <1>2, <2>2, StandingInvStays, SocialInvFeed DEF PlatformInv
    <2> QED
      BY <2>1, <2>2 DEF AtOnce
  <1> QED
    BY <1>2, <1>3, <1>4 DEF PlatformInv

LEMMA PlatformKeepsWatch ==
    ASSUME PlatformInv, Watch
    PROVE  PlatformInv'
  <1>1. UNCHANGED <<doing, contended, eventVars, rosterVars, matchVars, plan, trainingVars, grant,
                    standingVars, socialVars>>
    BY DEF Watch
  <1>2. RosterInv' /\ Stations' /\ \A kinds : Spares(kinds)
    BY <1>1, CallsAtRest
  <1>3. /\ MatchInv' /\ PlaceInv' /\ TrainingInv' /\ AccessInv'
        /\ StandingInv' /\ SocialInv'
    BY <1>1, <1>2, MatchKept, PlaceKept, TrainingKept, AccessKept, StandingInvStays,
       SocialInvCalls DEF PlatformInv
  <1>4. ConductInv'
    BY ConductInvNext DEF PlatformInv, Watch
  <1> QED
    BY <1>2, <1>3, <1>4 DEF PlatformInv

LEMMA PlatformInvNext ==
    ASSUME PlatformInv, [PlatformNext]_allVars
    PROVE  PlatformInv'
  <1>1. CASE UNCHANGED allVars
    <2>1. UNCHANGED <<doing, contended, eventVars, rosterVars, matchVars, plan, trainingVars, grant,
                      standingVars, socialVars, conductVars>>
      BY <1>1 DEF allVars
    <2>2. RosterInv' /\ Stations' /\ \A kinds : Spares(kinds)
      BY <2>1, CallsAtRest
    <2>3. /\ MatchInv' /\ PlaceInv' /\ TrainingInv' /\ AccessInv'
          /\ StandingInv' /\ SocialInv' /\ ConductInv'
      BY <2>1, <2>2, MatchKept, PlaceKept, TrainingKept, AccessKept, StandingInvStays,
         SocialInvCalls, ConductKept DEF PlatformInv
    <2> QED
      BY <2>2, <2>3 DEF PlatformInv
  <1>2. CASE PlatformNext
    BY <1>2, PlatformKeepsRoster, PlatformKeepsContests, PlatformKeepsGrounds, PlatformKeepsLessons,
       PlatformKeepsGrants, PlatformKeepsMeetings, PlatformKeepsAtOnce, PlatformKeepsWatch
       DEF PlatformNext
  <1> QED
    BY <1>1, <1>2

\* Which steps change what, for the properties of steps.
LEMMA OnlyTheRosterMoves ==
    ASSUME PlatformNext, eventVars' # eventVars \/ rosterVars' # rosterVars
    PROVE  RosterNext
  BY DEF PlatformNext, RosterMove, RosterNext, Contests, Grounds, Lessons, Grants, Meetings, AtOnce,
         Watch, MatchStep, PlaceStep, TrainingStep, AccessStep

LEMMA WhoChangesRounds ==
    ASSUME PlatformNext, matchVars' # matchVars
    PROVE  MatchCascade \/ \E s \in Slots : MatchStep(s)
  BY DEF PlatformNext, RosterMove, Contests, Grounds, Lessons, Grants, Meetings, AtOnce, Watch

LEMMA WhoChangesThePlan ==
    ASSUME PlatformNext, plan' # plan
    PROVE  (RosterNext /\ PlaceCascade) \/ \E s \in Slots : PlaceStep(s)
  BY DEF PlatformNext, RosterMove, RosterNext, Contests, Grounds, Lessons, Grants, Meetings, AtOnce,
         Watch

LEMMA WhoChangesLessons ==
    ASSUME PlatformNext, <<course, exercise>>' # <<course, exercise>>
    PROVE  TrainingCascade \/ \E s \in Slots : TrainingStep(s)
  BY DEF PlatformNext, RosterMove, Contests, Grounds, Lessons, Grants, Meetings, AtOnce, Watch,
         trainingVars

LEMMA WhoGrants ==
    ASSUME PlatformNext, grant' # grant
    PROVE  \E s \in Slots : AccessStep(s)
  BY DEF PlatformNext, RosterMove, Contests, Grounds, Lessons, Grants, Meetings, AtOnce, Watch

LEMMA WhoBefriends ==
    ASSUME PlatformNext, friendship' # friendship
    PROVE  \E s \in Slots : SocialStep(s)
  BY DEF PlatformNext, RosterMove, Contests, Grounds, Lessons, Grants, Meetings, AtOnce, Watch,
         socialVars, FeedStep, CreatePost, LikePost, UnlikePost, CommentOnPost

\* A platform with any number of calls, rows and people is in a state of the
\* inductive invariant.
LEMMA PlatformAlways == PlatformSpec => []PlatformInv
  BY PlatformInvInit, PlatformInvNext, PTL DEF PlatformSpec

\* No cascade, however it meets the calls under way, leaves a row without its
\* parents or a counter beside its rows.
THEOREM EveryRowHasParents == PlatformSpec => []RowsHaveParents
  <1>1. PlatformInv => RowsHaveParents
    <2> SUFFICES ASSUME PlatformInv PROVE RowsHaveParents
      OBVIOUS
    <2>1. RosterTypeOK /\ MatchTypeOK /\ PlanIsSound /\ SocialIsSound /\ RoundParents
      BY DEF PlatformInv, RosterInv, MatchInv, PlaceInv, SocialInv
    <2>2. \A p \in Places : There(p) => Live(plan[p].event)
      BY DEF PlatformInv, PlaceInv, PlanTyped
    <2>3. \A x \in DOMAIN progress : progress[x] # "none" => There(x[2])
      BY DEF PlatformInv, StandingInv, ProgressParents
    <2>4. TrainingTyped
      BY DEF PlatformInv, TrainingInv
    <2> QED
      BY <2>1, <2>2, <2>3, <2>4 DEF RowsHaveParents, RoundParents, TrainingTyped
  <1> QED
    BY PlatformAlways, <1>1, PTL

\* The roster keeps its promises while matches, lessons, grants and friends go
\* on around it: one squad per operator and event, and the leader is a member.
THEOREM RosterHoldsInPlatform ==
    PlatformSpec => [](OneSquadPerEventUnlessContended /\ LeaderIsMemberUnlessContended)
  <1>1. PlatformInv => OneSquadPerEventUnlessContended /\ LeaderIsMemberUnlessContended
    BY DEF PlatformInv, RosterInv
  <1> QED
    BY PlatformAlways, <1>1, PTL

\* And the events go through their life, and what is over stays as it is.
THEOREM LifecycleHoldsInPlatform ==
    PlatformSpec => LifecycleUnlessContended /\ WhatIsOverIsFrozenUnlessContended
  <1>1. PlatformInv /\ [PlatformNext]_allVars =>
          [\A e \in Events \ contended :
              /\ status'[e] # status[e] => <<status[e], status'[e]>> \in Moves
              /\ footprint'[e] # footprint[e] => status[e] = "DRAFT"]_eventVars
    BY OnlyTheRosterMoves, LifecycleStep DEF PlatformInv, allVars
  <1>2. PlatformInv /\ [PlatformNext]_allVars =>
          [\A q \in Squads :
              /\ status[EventOfSquad(q)] = "ENDED" /\ EventOfSquad(q) \notin contended =>
                    /\ members'[q] = members[q]
                    /\ leader'[q] = leader[q]
                    /\ squad'[q] = squad[q]
              /\ squad[q] = "DISBANDED" /\ q \notin contended =>
                    /\ squad'[q] \in {"DISBANDED", "deleted"}
                    /\ members'[q] \subseteq members[q]]_rosterVars
    BY OnlyTheRosterMoves, EndedStep, DisbandedStep DEF PlatformInv, allVars
  <1> QED
    BY PlatformInvInit, PlatformInvNext, <1>1, <1>2, PTL DEF PlatformSpec, LifecycleUnlessContended,
       WhatIsOverIsFrozenUnlessContended

\* An event whose rounds were never created by two calls at once has at most
\* one ACTIVE round, whatever their numbers, updates and deletions.
THEOREM OneActiveRound == PlatformSpec => []OneActiveRoundUnlessContended
  <1>1. PlatformInv => OneActiveRoundUnlessContended
    BY OneRoundIsOne DEF PlatformInv, MatchInv
  <1> QED
    BY PlatformAlways, <1>1, PTL

\* The result of a round that is over stands: its status, its eliminations, and
\* its winner, unless the winning team is deleted.
THEOREM ResultIsFinal == PlatformSpec => ResultIsFinalUnlessContended
  <1>1. PlatformInv /\ [PlatformNext]_allVars =>
          [\A r \in Rounds \ contended :
              round[r].status \in Over /\ round'[r] # NoRound =>
                  /\ round'[r].status = round[r].status
                  /\ round'[r].winner \in {round[r].winner, NoOne}
                  /\ DOMAIN out'[r] \subseteq DOMAIN out[r]]_matchVars
    BY WhoChangesRounds, ResultIsFinalStep, ResultSurvivesCascade DEF PlatformInv, allVars
  <1> QED
    BY PlatformInvInit, PlatformInvNext, <1>1, PTL DEF PlatformSpec, ResultIsFinalUnlessContended

\* Missions and zones of an ENDED event stay as they are, those of an ACTIVE
\* one stay where they are.
THEOREM GroundIsKept == PlatformSpec => GroundIsKeptUnlessContended
  <1>1. PlatformInv /\ [PlatformNext]_allVars =>
          [\A e \in Events \ contended :
              /\ status[e] = "ENDED" => Ground(e)' = Ground(e)
              /\ status[e] = "ACTIVE" =>
                    \A p \in {q \in Places : plan[q].event = e} :
                        There(p)' /\ plan'[p].zone = plan[p].zone]_plan
    <2> SUFFICES ASSUME PlatformInv, [PlatformNext]_allVars, plan' # plan, NEW e \in Events \ contended
                 PROVE  /\ status[e] = "ENDED" => Ground(e)' = Ground(e)
                        /\ status[e] = "ACTIVE" =>
                              \A p \in {q \in Places : plan[q].event = e} :
                                  There(p)' /\ plan'[p].zone = plan[p].zone
      OBVIOUS
    <2>1. PlatformNext
      BY DEF allVars
    <2> QED
      BY <2>1, WhoChangesThePlan, GroundStep, GroundSurvivesCascade DEF PlatformInv
  <1> QED
    BY PlatformInvInit, PlatformInvNext, <1>1, PTL DEF PlatformSpec, GroundIsKeptUnlessContended

\* A class that no two calls were about at once ends after it starts, for any
\* order of patches of either time.
THEOREM ClassTimesInOrder == PlatformSpec => []ClassEndsAfterItStartsUnlessContended
  <1>1. PlatformInv => ClassEndsAfterItStartsUnlessContended
    BY DEF PlatformInv, TrainingInv
  <1> QED
    BY PlatformAlways, <1>1, PTL

\* Who changes a class or exercise is an ADMIN or assigned to its unit when the
\* row is written, though it was checked when the call began.
THEOREM TaughtByTheUnit == PlatformSpec => TaughtByTheUnitUnlessContended
  <1>1. PlatformInv /\ [PlatformNext]_allVars =>
          [\A s \in Slots :
              /\ doing[s] # Idle /\ doing'[s] = Idle
              /\ course' # course \/ (exercise' # exercise /\ status' = status)
              => \/ doing[s].actor = Admin
                 \/ <<doing[s].unit, doing[s].actor>> \in assigned \cup contended]_<<course, exercise>>
    <2> SUFFICES ASSUME PlatformInv, [PlatformNext]_allVars, NEW s \in Slots,
                        doing[s] # Idle, doing'[s] = Idle,
                        course' # course \/ (exercise' # exercise /\ status' = status)
                 PROVE  \/ doing[s].actor = Admin
                        \/ <<doing[s].unit, doing[s].actor>> \in assigned \cup contended
      OBVIOUS
    <2>1. PlatformNext
      BY DEF allVars, trainingVars
    <2>2. PICK t \in Slots : TrainingStep(t)
      BY <2>1, WhoChangesLessons, CascadeTeachesNothing DEF PlatformInv
    <2>3. Busy(s) /\ DOMAIN doing = Slots
      BY DEF Busy, PlatformInv, RosterInv, SlotsShaped
    <2> QED
      BY <2>2, <2>3, TaughtStep DEF PlatformInv
  <1> QED
    BY PlatformInvInit, PlatformInvNext, <1>1, PTL DEF PlatformSpec, TaughtByTheUnitUnlessContended

\* A voice or MQTT grant that nothing crossed follows from the roster as it is
\* when the grant is signed, though it was read query by query before.
THEOREM GrantsFollowTheRoster == PlatformSpec => GrantsFollowTheRosterUnlessContended
  <1>1. PlatformInv /\ [PlatformNext]_allVars =>
          [LET g == grant' IN
           g \notin {grant, NoGrant} /\ {g.for, g.event, g.user} \cap contended = {} =>
              /\ status[g.event] = "ACTIVE"
              /\ IF g.publish THEN MaySpeak(g) ELSE g.user \in Staff]_grant
    <2> SUFFICES ASSUME PlatformInv, [PlatformNext]_allVars, NEW g, g = grant',
                        g \notin {grant, NoGrant}, {g.for, g.event, g.user} \cap contended = {}
                 PROVE  /\ status[g.event] = "ACTIVE"
                        /\ IF g.publish THEN MaySpeak(g) ELSE g.user \in Staff
      OBVIOUS
    <2>1. PlatformNext
      BY DEF allVars
    <2>2. PICK s \in Slots : AccessStep(s)
      BY <2>1, WhoGrants
    <2> QED
      BY <2>2, GrantStep DEF PlatformInv
  <1> QED
    BY PlatformInvInit, PlatformInvNext, <1>1, PTL DEF PlatformSpec,
       GrantsFollowTheRosterUnlessContended

\* Paging through the positions of an event misses only fixes that share their
\* time with another, and repeats none, for any page size.
THEOREM PagesMissNothingElse == PlatformSpec => []PagesMissOnlyTies
  <1>1. PlatformInv => PagesMissOnlyTies
    BY PagesAreSound DEF PlatformInv, StandingInv
  <1> QED
    BY PlatformAlways, <1>1, PTL

\* Two operators have one friendship and its answer stands, unless they crossed.
THEOREM FriendsOnce == PlatformSpec => FriendsUnlessCrossed
  <1>1. PlatformInv /\ [PlatformNext]_allVars => [FriendsStep]_friendship
    <2> SUFFICES ASSUME PlatformInv, [PlatformNext]_allVars, friendship' # friendship
                 PROVE  FriendsStep
      OBVIOUS
    <2>1. PlatformNext
      BY DEF allVars, socialVars
    <2>2. PICK s \in Slots : SocialStep(s)
      BY <2>1, WhoBefriends
    <2> QED
      BY <2>2, FriendsStepHolds DEF PlatformInv, RosterInv, SlotsShaped
  <1>2. PlatformInv /\ [PlatformNext]_allVars =>
          [/\ \A i, j \in Rows' : Pair(i)' = Pair(j)' /\ i # j =>
                <<friendship'[i].from, friendship'[i].to>> \in contended'
           /\ \A i \in Rows :
                friendship[i].status # "PENDING" /\ friendship'[i] # friendship[i] =>
                    <<i>> \in contended
           /\ \A u, v \in People :
                v \in Related(u, "BLOCKED")' /\ (\E p \in Feed(u)' : post[p].author = v) =>
                    <<u, v>> \in contended']_friendship
    BY <1>1 DEF FriendsStep
  <1> QED
    BY PlatformInvInit, PlatformInvNext, <1>2, PTL DEF PlatformSpec, FriendsUnlessCrossed

\* Who never moved faster than the lowest threshold is never punished, in
\* whatever order and however often his fixes are inspected.
THEOREM HonestNeverPunished == PlatformSpec => []HonestNeverPunishedUnlessClamped
  <1>1. PlatformInv => HonestNeverPunishedUnlessClamped
    BY HonestGoesUnpunished DEF PlatformInv
  <1> QED
    BY PlatformAlways, <1>1, PTL

\* The audit trail explains every penalty; an inspection that ran once punished
\* each grave suspicion once.
THEOREM AuditExplainsPenalties == PlatformSpec => []AuditAddsUpUnlessRetried
  <1>1. PlatformInv => AuditAddsUpUnlessRetried
    BY AuditAddsUp DEF PlatformInv
  <1> QED
    BY PlatformAlways, <1>1, PTL
=============================================================================
