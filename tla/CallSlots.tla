------------------------------ MODULE CallSlots ------------------------------
(***************************************************************************)
(* The calls an API process has under way.  The handlers in src/modules    *)
(* await one query after the other, and nothing keeps another call from    *)
(* running in between.  A slot takes the next call when it is idle, so the *)
(* number of slots bounds how many calls run at once, not how many run.    *)
(***************************************************************************)
EXTENDS Naturals, TLC

CONSTANTS
    Slots,      \* calls that can be handled at a time
    Idle        \* nothing to do

VARIABLES
    doing,      \* doing[s]: the call that slot s handles, and where it is
    contended   \* history: what two calls were handled for at once

SlotInit ==
    /\ doing = [s \in Slots |-> Idle]
    /\ contended = {}

\* What calls c and d are in each other's way about: what both write, or one
\* writes and the other only relies on.
Disputed(c, d) ==
    (c.about \cap (d.about \cup d.heeds)) \cup (c.heeds \cap d.about)

\* Call c, about the things in c.about and relying on those in c.heeds, has
\* made its first read.
Begin(s, c) ==
    /\ doing[s] = Idle
    /\ doing' = [doing EXCEPT ![s] = c]
    /\ contended' = contended \cup
          UNION {Disputed(c, doing[t]) : t \in {u \in Slots : doing[u] # Idle}}

\* What the calls under way write; a new id is not among it.
Taken == UNION {doing[t].about : t \in {u \in Slots : doing[u] # Idle}}

At(s, kind, place) ==
    doing[s] # Idle /\ doing[s].kind = kind /\ doing[s].at = place

Goto(s, place) == doing' = [doing EXCEPT ![s].at = place] /\ UNCHANGED contended

\* The call is answered, with a result or an error, or its process dies.
Leave(s) == doing' = [doing EXCEPT ![s] = Idle]

Pass(s, test, place) ==
    IF test THEN Goto(s, place) ELSE Leave(s) /\ UNCHANGED contended

Dies(s) == doing[s] # Idle /\ Leave(s) /\ UNCHANGED contended
=============================================================================
