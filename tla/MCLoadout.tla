----------------------------- MODULE MCLoadout -----------------------------
EXTENDS Loadout, TLC

CONSTANTS wolf, bear, camo

\* Two cosmetics for the patch slot are enough for a conflict, three for a
\* circle of calls; the skin shows that slots do not interfere.
MCKindOf == [c \in Cosmetics |-> IF c = camo THEN "SKIN" ELSE "PATCH"]

CallSymmetry == Permutations(Calls)
=============================================================================
