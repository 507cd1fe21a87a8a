------------------------------ MODULE MCRoster ------------------------------
(* One event with a team of two squads. *)
EXTENDS Roster

CONSTANTS ana, red

MCEventOf == [t \in Teams |-> CHOOSE e \in Events : TRUE]
MCTeamOf == [q \in Squads |-> red]

Patch(l, st) == [leader |-> l, status |-> st]
MCPatches == {Patch(ana, "ACTIVE"), Patch(NoOne, "DISBANDED")}

Symmetric == Permutations(Slots) \cup Permutations(Squads)
=============================================================================
