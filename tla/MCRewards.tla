----------------------------- MODULE MCRewards -----------------------------
(***************************************************************************)
(* Level 1 has a free and a premium reward, level 2 a free bonus, level 0  *)
(* is none but can be asked for.  The wolf patch is bought as well as      *)
(* earned, the eagle is shown and cannot be had.                           *)
(***************************************************************************)
EXTENDS Rewards, TLC

CONSTANTS wolf, bear, eagle

MCPrice == [c \in Cosmetics |-> IF c = wolf THEN 2 ELSE 0]

MCRewardsOf == [l \in Levels |-> IF l = 1 THEN
      {[premiumOnly |-> FALSE, cosmetic |-> wolf, bonus |-> 0],
       [premiumOnly |-> TRUE, cosmetic |-> bear, bonus |-> 3]}
    ELSE IF l = 2 THEN
      {[premiumOnly |-> FALSE, cosmetic |-> NoCosmetic, bonus |-> 1]}
    ELSE {}]

CallSymmetry == Permutations(Calls)
=============================================================================
