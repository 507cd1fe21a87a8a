--------------------------- MODULE MCNotifications ---------------------------
(* A notification for one operator, who has a device that nobody else uses and *)
(* one that she shares.                                                        *)
EXTENDS Notifications, TLC

CONSTANTS ana, single, t1

MCAudienceOf == [n \in Notes |-> IF n = single THEN {ana} ELSE Users]
MCOwnerAtStart == [t \in Tokens |-> IF t = t1 THEN None ELSE ana]

Symmetric == Permutations(Workers) \cup Permutations(Requests)
=============================================================================
