--------------------------- MODULE MCMissionEngine ---------------------------
(* One operator who walks into a zone, stays and leaves; a hill to hold for   *)
(* one second and a flag to reach before the end.                             *)
EXTENDS MissionEngine, TLC

CONSTANTS ana, hill, flag, final

MCOperatorOf == [p \in Packets |-> ana]
MCEventOf == [p \in Packets |-> final]
MCCapturedAt == [p \in Packets |-> IF p = 3 THEN 9 ELSE p]
MCReceivedAt == [p \in Packets |-> p]
MCMissionEvent == [m \in Missions |-> final]
MCTypeOf == [m \in Missions |-> IF m = hill THEN "HOLD" ELSE "TIME"]
MCInside == [m \in Missions |-> {1, 2}]
MCTargetOf == [m \in Missions |-> 1]
MCWindowOf == [m \in Missions |-> 2..3]

Symmetric == Permutations(Workers)
=============================================================================
