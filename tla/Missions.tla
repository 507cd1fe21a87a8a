------------------------------- MODULE Missions -------------------------------
(***************************************************************************)
(* MissionsService and ZonesService (src/modules/missions, zones): where   *)
(* an event takes place and what is to be done there.  The two services    *)
(* share their handlers' shape, so a mission or zone is a "place": every   *)
(* call reads the row, then its event, then who has the name, then a       *)
(* mission's zone, and writes by id.                                       *)
(***************************************************************************)
EXTENDS Events

CONSTANTS
    Zones, Tasks,       \* ids of zones and of missions, each used once
    Spatial,            \* the missions of a SPATIAL_MISSION_TYPES type
    PlaceNames,
    Nowhere             \* no zone, no event, no other name

Places == Zones \cup Tasks

ASSUME PlaceConstants ==
    /\ Zones \cap Tasks = {}
    /\ Nowhere \notin Places \cup Events \cup PlaceNames

VARIABLE plan   \* plan[p]: the row of place p

Blank(st) == [state |-> st, event |-> Nowhere, name |-> Nowhere, zone |-> Nowhere, rev |-> 0]

There(p) == plan[p].state = "there"

\* The places of an event that have name n, of the kind of p.
Named(n, e, p) ==
    {q \in Places : There(q) /\ plan[q].event = e /\ plan[q].name = n
                    /\ (q \in Zones) = (p \in Zones)}

PlaceCall(k, p, e, n, z) ==
    [kind |-> k, at |-> "phase", place |-> p, event |-> e, name |-> n, zone |-> z,
     about |-> {p}, heeds |-> {e}]

\* What a client may ask about place p.  An update that does not rename
\* changes the description, boundary, points or status of the place.
PlaceCalls(p) ==
    {PlaceCall("createPlace", p, e, n, z) :
        e \in {f \in Events : plan[p].state = "unused" /\ p \notin Taken}, n \in PlaceNames,
        z \in IF p \in Tasks THEN Zones \cup {Nowhere} ELSE {Nowhere}}
    \cup {PlaceCall(k, p, plan[p].event, n, Nowhere) :
             k \in {l \in {"updatePlace", "removePlace"} : There(p)},
             n \in PlaceNames \cup {Nowhere}}

\* A spatial mission is created with a zone or not at all.
AskPlace(s) ==
    /\ \E p \in Places : \E c \in PlaceCalls(p) :
          /\ c.kind = "removePlace" => c.name = Nowhere
          /\ c.kind = "createPlace" /\ p \in Spatial => c.zone # Nowhere
          /\ Begin(s, c)
    /\ UNCHANGED plan

\* Mutant of PhaseAllows: only that the event exists is looked at.
PhaseAllowsAlways(c) == status[c.event] \in {"DRAFT", "ACTIVE", "ENDED"}

\* requireEvent: an ENDED event takes no changes, only a DRAFT no deletions.
PhaseAllows(c) ==
    status[c.event] \in IF c.kind = "removePlace" THEN {"DRAFT"} ELSE {"DRAFT", "ACTIVE"}

CheckPhase(s) ==
    /\ \E k \in {"createPlace", "updatePlace", "removePlace"} : At(s, k, "phase")
    /\ LET c == doing[s] IN
       Pass(s, PhaseAllows(c), IF c.name # Nowhere THEN "name" ELSE "writing")
    /\ UNCHANGED plan

\* findByEventAndName: nobody else has the name.
CheckName(s) ==
    /\ doing[s] # Idle /\ doing[s].at = "name"
    /\ LET c == doing[s] IN
       Pass(s, Named(c.name, c.event, c.place) \subseteq
                  IF c.kind = "createPlace" THEN {} ELSE {c.place},
            IF c.zone # Nowhere THEN "zone" ELSE "writing")
    /\ UNCHANGED plan

CheckZone(s) ==
    /\ At(s, "createPlace", "zone")
    /\ LET z == doing[s].zone IN
       Pass(s, There(z) /\ plan[z].event = doing[s].event, "writing")
    /\ UNCHANGED plan

\* The name is unique in its event, the event and zone are foreign keys, and a
\* row that is gone cannot be updated: any of it makes the write fail.
WriteFails(c) ==
    \/ c.kind # "createPlace" /\ ~There(c.place)
    \/ c.kind = "createPlace" /\ status[c.event] = "deleted"
    \/ c.zone # Nowhere /\ ~There(c.zone)
    \/ c.name # Nowhere /\ Named(c.name, c.event, c.place) \ {c.place} # {}

\* Mutant of Unzoned: the mission keeps the id of the zone.
UnzonedNot(gone, q) == plan[q]

\* A mission whose zone is deleted has none (ON DELETE SET NULL).
Unzoned(gone, q) ==
    IF plan[q].zone \in gone THEN [plan[q] EXCEPT !.zone = Nowhere] ELSE plan[q]

DropPlaces(gone) ==
    plan' = [q \in Places |-> IF q \in gone THEN Blank("gone") ELSE Unzoned(gone, q)]

WritePlace(s) ==
    LET c == doing[s] IN
    /\ \E k \in {"createPlace", "updatePlace", "removePlace"} : At(s, k, "writing")
    /\ CASE WriteFails(c) -> UNCHANGED plan
         [] ~WriteFails(c) /\ c.kind = "createPlace" ->
               plan' = [plan EXCEPT ![c.place] =
                  [state |-> "there", event |-> c.event, name |-> c.name,
                   zone |-> c.zone, rev |-> 0]]
         [] ~WriteFails(c) /\ c.kind = "updatePlace" ->
               plan' = [plan EXCEPT ![c.place].name = IF c.name = Nowhere THEN @ ELSE c.name,
                                    ![c.place].rev = 1 - @]
         [] ~WriteFails(c) /\ c.kind = "removePlace" -> DropPlaces({c.place})
    /\ Leave(s)
    /\ UNCHANGED contended

PlaceStep(s) ==
    /\ AskPlace(s) \/ CheckPhase(s) \/ CheckName(s) \/ CheckZone(s) \/ WritePlace(s)
    /\ UNCHANGED eventVars

\* Places go with their event (ON DELETE CASCADE).
PlaceCascade == DropPlaces({p \in Places : There(p) /\ status'[plan[p].event] = "deleted"})

-----------------------------------------------------------------------------
(* Properties *)

Ground(e) == {<<p, plan[p]>> : p \in {q \in Places : plan[q].event = e}}

\* "Cannot edit missions of ENDED events", "Cannot create zones in ENDED
\* events", "only DRAFT allows deletion": the missions and zones of an event
\* that is over stay as they are, and those of an ACTIVE event stay and keep
\* their ground, unless the event or the place was in dispute.
GroundIsKeptUnlessContended ==
    [][\A e \in Events \ contended :
          /\ status[e] = "ENDED" => Ground(e)' = Ground(e)
          /\ status[e] = "ACTIVE" =>
                \A p \in {q \in Places : plan[q].event = e} :
                    There(p)' /\ plan'[p].zone = plan[p].zone]_plan

\* A mission's zone exists and belongs to the mission's event, no two places
\* of one kind share a name, and only zones have missions.
PlanIsSound ==
    /\ \A p \in Places : plan[p].zone # Nowhere =>
          p \in Tasks /\ There(plan[p].zone) /\ plan[plan[p].zone].event = plan[p].event
    /\ \A p, q \in Places : There(p) /\ There(q) /\ plan[p].event = plan[q].event
          /\ plan[p].name = plan[q].name /\ (p \in Zones) = (q \in Zones) => p = q
=============================================================================
