----------------------------- MODULE MCPlatform -----------------------------
(***************************************************************************)
(* The day of a competitive event, with two teams and three operators, and *)
(* of a training event that one of them takes part in, too.                *)
(***************************************************************************)
EXTENDS Platform

CONSTANTS
    cup, drill, red, blue, cadets, alpha, bravo, delta, ana, bo, cy, ida,
    field, ditch, capture, patrol, raid, fox, owl, elk, ram,
    sword, shield, lance, basics, sequel, crawl, climb, gate, path, tunnel, road

MCEventOf == (red :> cup @@ blue :> cup @@ cadets :> drill)
MCTeamOf == (alpha :> red @@ bravo :> blue @@ delta :> cadets)
MCCallsignOf == (ana :> 3 @@ bo :> 1 @@ cy :> 2)
MCPoints == (capture :> 1 @@ patrol :> 2 @@ raid :> 4)

Patch(l, st) == [leader |-> l, status |-> st]
MCPatches == {Patch(NoOne, "DISBANDED"), Patch(NoOne, "INACTIVE")}

Result(st, w) == [status |-> st, winner |-> w]
MCRoundPatches ==
    {Result("COMPLETED", red), Result("COMPLETED", cadets), Result("CANCELLED", NoOne),
     Result(Keep, cadets)}

Site(e, n, z) == [state |-> "there", event |-> e, name |-> n, zone |-> z, rev |-> 0]

MCStart ==
    [status |-> (cup :> "ACTIVE" @@ drill :> "DRAFT"),
     round |-> [r \in Rounds |-> IF r = <<cup, 1>>
                   THEN [status |-> "ACTIVE", winner |-> NoOne] ELSE NoRound],
     members |-> (alpha :> {ana} @@ bravo :> {bo, cy} @@ delta :> {ana}),
     plan |-> (field :> Site(cup, "one", Nowhere) @@ capture :> Site(cup, "one", field)
               @@ patrol :> Site(drill, "one", Nowhere)
               @@ ditch :> Blank("unused") @@ raid :> Blank("unused")),
     unit |-> (sword :> "one" @@ shield :> "two" @@ lance :> "unused"),
     assigned |-> {<<sword, ida>>},
     course |-> (basics :> [state |-> "there", unit |-> sword, starts |-> 1, ends |-> None]
                 @@ sequel :> NoCourse("unused")),
     callsign |-> (ana :> fox @@ bo :> owl @@ cy :> elk @@ ida :> NoName)]

Scene(parts, calls, cast, slots) ==
    [parts |-> parts, calls |-> calls, cast |-> cast, slots |-> slots]

\* In this order: roster, rounds, places, training, grants, standings, people, conduct.
MCScenes ==
    {Scene({}, {"addMember", "removeMember", "removeSquad", "removeTeam", "remove"}, {cy, delta}, 2),
     Scene({"rounds"}, {"createRound", "updateRound", "end"}, {}, 2),
     Scene({"rounds"}, {"createRound", "updateRound", "eliminate"}, {ana, bo}, 1),
     Scene({"rounds"}, {"updateRound", "eliminate"}, {ana, bo}, 2),
     Scene({"rounds"}, {"eliminate", "pardon", "removeMember"}, {ana, bo, cy, alpha}, 1),
     Scene({"places"}, {"createPlace", "updatePlace", "end"}, {raid, field}, 2),
     Scene({"places"}, {"updatePlace", "removePlace", "activate"}, {patrol, ditch}, 2),
     Scene({"places"}, {"createPlace", "removePlace", "activate", "remove"}, {ditch, raid}, 2),
     Scene({"training"}, {"createUnit", "updateUnit", "deleteUnit", "assign", "unassign"},
           {sword, lance}, 2),
     Scene({"training"}, {"updateClass", "assign", "unassign"}, {ida, sword, basics}, 2),
     Scene({"training"}, {"updateClass", "createClass", "deleteClass", "deleteUnit"},
           {ida, Admin, sword, shield, sequel}, 1),
     Scene({"training"}, {"createClass", "deleteClass", "deleteUnit"}, {Admin, shield, sequel}, 2),
     Scene({"training"}, {"createExercise", "updateExercise", "remove"},
           {ida, sword, crawl, climb}, 2),
     Scene({"training"}, {"createExercise", "deleteExercise", "deleteClass", "assign", "unassign"},
           {ida, sword, crawl, basics}, 2),
     Scene({"access"}, {"voice", "removeMember", "addMember"}, {cy, alpha, bravo, blue}, 2),
     Scene({"access"}, {"voice", "mqtt", "updateSquad", "end"}, {ana, ida, alpha, red}, 2),
     Scene({"access"}, {"mqtt", "removeMember", "activate", "end"}, {ana, alpha}, 2),
     Scene({"standings"}, {"removeMember"}, {ana, alpha}, 1),
     Scene({"review"}, {}, {}, 1),
     Scene({"social"}, {"befriend", "answer"}, {ana, bo}, 2),
     Scene({"social", "feed"}, {"befriend", "answer"}, {ana, bo}, 1),
     Scene({"social"}, {"profile", "redeem", "code"}, {ana, ida}, 2),
     Scene({"conduct"}, {}, {gate, path, road}, 1),
     Scene({"conduct"}, {}, {path, tunnel, road}, 1),
     Scene({"conduct", "reputation"}, {}, {path, road}, 1)}

\* A phone without reception sends a fix of the path ten minutes late, a car
\* takes the operator along the road, and somebody mocks the gate's.
MCCaptured == (gate :> 0 @@ path :> 1 @@ tunnel :> 10 @@ road :> 399)
MCReceived == (gate :> 0 @@ path :> 1 @@ tunnel :> 400 @@ road :> 399)
MCPlace == (gate :> 0 @@ path :> 40 @@ tunnel :> 60 @@ road :> 4000)
MCClaimed == (gate :> 0 @@ path :> 5 @@ tunnel :> 5 @@ road :> 20)
MCManual == {[kind |-> "COMMENDATION", severity |-> "MINOR"]}

MCAsked == UNION {c.calls : c \in MCScenes}

Symmetric == Permutations(Slots) \cup Permutations(Workers)
=============================================================================
