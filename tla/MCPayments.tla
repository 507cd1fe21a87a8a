----------------------------- MODULE MCPayments -----------------------------
(***************************************************************************)
(* Events of both providers: for an operator, for nobody, for a user that  *)
(* has no operator profile, and one of Pagar.me that reports no amount.    *)
(***************************************************************************)
EXTENDS Payments

CONSTANTS ana, zoe, s1, s2, p1, p2, p3

MCEventUser == [e \in Events |-> CASE e \in {s1, p1, p2} -> ana
                                   [] e = s2 -> NoUser
                                   [] e = p3 -> zoe]
MCEventAmount == [e \in Events |-> IF e = p2 THEN 0 ELSE 1]
=============================================================================
