------------------------------- MODULE Loadout -------------------------------
(***************************************************************************)
(* CosmeticsService.equip (src/modules/cosmetics/cosmetics.service.ts):    *)
(* the user_cosmetics rows of one operator, and transactions that unequip  *)
(* every other row of a kind and then equip one.                           *)
(*                                                                         *)
(* Under READ COMMITTED the first statement of such a transaction fixes    *)
(* the rows it will write when it starts, locks them one after the other,  *)
(* and its writes show when the transaction commits.  Rows are added by    *)
(* purchases and battle pass rewards at any time.                          *)
(***************************************************************************)
EXTENDS Integers, SequencesExt, FiniteSets

CONSTANTS
    Cosmetics,
    KindOf,     \* KindOf[c]: PATCH, SKIN, ...; one slot per kind
    Calls,      \* identities of equip calls; each is made at most once
    Unlocked    \* no call, no lock

ASSUME LoadoutConstants ==
    /\ IsFiniteSet(Cosmetics)
    /\ Unlocked \notin Calls

VARIABLES
    owned,      \* cosmetics with a user_cosmetics row
    equipped,   \* the rows whose committed is_equipped is true
    phase,      \* progress of each call
    chosen,     \* the cosmetic it equips
    rows,       \* the rows it locks, in the order it locks them
    nextRow,    \* index of the row it works on
    lock,       \* lock[c]: the call that holds the lock of c's row, or Unlocked
    grown       \* history: kinds that got a row while a call was unequipping

loadoutVars == <<owned, equipped, phase, chosen, rows, nextRow, lock, grown>>

Phases == {"new", "owner", "locking", "done", "rejected", "aborted"}

LoadoutInit ==
    /\ owned = {}
    /\ equipped = {}
    /\ phase = [t \in Calls |-> "new"]
    /\ chosen = [t \in Calls |-> Unlocked]
    /\ rows = [t \in Calls |-> <<>>]
    /\ nextRow = [t \in Calls |-> 1]
    /\ lock = [c \in Cosmetics |-> Unlocked]
    /\ grown = {}

\* The call that keeps t from its next lock, or Unlocked.
EquipBlocker(t) ==
    IF phase[t] = "locking" /\ nextRow[t] <= Len(rows[t]) /\ lock[rows[t][nextRow[t]]] # t
    THEN lock[rows[t][nextRow[t]]]
    ELSE Unlocked

\* t waits for a call that waits for ... that waits for t.
EquipDeadlocked(t) == \E S \in SUBSET Calls : t \in S /\ {EquipBlocker(u) : u \in S} = S

-----------------------------------------------------------------------------

\* buy or claim inserts a row, not equipped.
Acquire(c) ==
    /\ c \notin owned
    /\ owned' = owned \cup {c}
    /\ grown' = IF \E t \in Calls : phase[t] = "locking" /\ KindOf[chosen[t]] = KindOf[c]
                THEN grown \cup {KindOf[c]} ELSE grown
    /\ UNCHANGED <<equipped, phase, chosen, rows, nextRow, lock>>

\* The ownership check, before the transaction.
FindOwnership(t, c) ==
    /\ phase[t] = "new"
    /\ phase' = [phase EXCEPT ![t] = IF c \in owned THEN "owner" ELSE "rejected"]
    /\ chosen' = [chosen EXCEPT ![t] = c]
    /\ UNCHANGED <<owned, equipped, rows, nextRow, lock, grown>>

OfKind(t) == {c \in owned : KindOf[c] = KindOf[chosen[t]]}

\* Mutant of Others: only rows that are equipped need to be unequipped.
EquippedOthers(t) == {c \in OfKind(t) : c # chosen[t] /\ c \in equipped}

\* Where updateMany looks: same operator, same kind, any state, not the row.
Others(t) == {c \in OfKind(t) : c # chosen[t]}

\* The orders in which a scan may meet the rows of a set.
Scans(S) == {s \in [1..Cardinality(S) -> S] : \A c \in S : \E i \in DOMAIN s : s[i] = c}

\* updateMany starts; the row itself is written after the others.
StartUnequip(t) ==
    /\ phase[t] = "owner"
    /\ phase' = [phase EXCEPT ![t] = "locking"]
    /\ \E s \in Scans(Others(t)) : rows' = [rows EXCEPT ![t] = Append(s, chosen[t])]
    /\ UNCHANGED <<owned, equipped, chosen, nextRow, lock, grown>>

\* Mutant of LockRow: no transaction, so that what is unequipped shows at once.
LockRowInTheOpen(t) ==
    /\ phase[t] = "locking"
    /\ nextRow[t] <= Len(rows[t])
    /\ EquipBlocker(t) = Unlocked
    /\ lock' = [lock EXCEPT ![rows[t][nextRow[t]]] = t]
    /\ nextRow' = [nextRow EXCEPT ![t] = @ + 1]
    /\ equipped' = equipped \ {rows[t][nextRow[t]]}
    /\ UNCHANGED <<owned, phase, chosen, rows, grown>>

LockRow(t) ==
    /\ phase[t] = "locking"
    /\ nextRow[t] <= Len(rows[t])
    /\ EquipBlocker(t) = Unlocked
    /\ lock' = [lock EXCEPT ![rows[t][nextRow[t]]] = t]
    /\ nextRow' = [nextRow EXCEPT ![t] = @ + 1]
    /\ UNCHANGED <<owned, equipped, phase, chosen, rows, grown>>

End(t, outcome) ==
    /\ phase' = [phase EXCEPT ![t] = outcome]
    /\ lock' = [c \in Cosmetics |-> IF lock[c] = t THEN Unlocked ELSE lock[c]]
    /\ UNCHANGED <<owned, chosen, rows, nextRow, grown>>

\* Mutant of CommitEquip: equip() returns before its transaction is over.
CommitUnawaited(t) ==
    /\ phase[t] = "locking"
    /\ nextRow[t] > Len(rows[t])
    /\ equipped' = equipped
    /\ phase' = [phase EXCEPT ![t] = "done"]
    /\ UNCHANGED <<owned, chosen, rows, nextRow, lock, grown>>

CommitEquip(t) ==
    /\ phase[t] = "locking"
    /\ nextRow[t] > Len(rows[t])
    /\ equipped' = (equipped \ ToSet(rows[t])) \cup {chosen[t]}
    /\ End(t, "done")

\* The database breaks a circle of waiting transactions.
AbortEquip(t) ==
    /\ EquipDeadlocked(t)
    /\ End(t, "aborted")
    /\ UNCHANGED equipped

\* The process dies; the database rolls its transaction back.
CrashEquip(t) ==
    /\ phase[t] \in {"owner", "locking"}
    /\ End(t, "aborted")
    /\ UNCHANGED equipped

Step(t) == StartUnequip(t) \/ LockRow(t) \/ CommitEquip(t) \/ AbortEquip(t)

LoadoutNext ==
    \/ \E c \in Cosmetics : Acquire(c)
    \/ \E t \in Calls : \/ \E c \in Cosmetics : FindOwnership(t, c)
                        \/ Step(t)
                        \/ CrashEquip(t)

LoadoutSpec == LoadoutInit /\ [][LoadoutNext]_loadoutVars

\* A transaction that is not waiting goes on.
LoadoutFairSpec == LoadoutSpec /\ \A t \in Calls : WF_loadoutVars(Step(t))

-----------------------------------------------------------------------------
(* Properties *)

\* Every variable has its type; only owned cosmetics are equipped.
LoadoutTypeOK ==
    /\ equipped \subseteq owned /\ owned \subseteq Cosmetics
    /\ phase \in [Calls -> Phases]
    /\ chosen \in [Calls -> Cosmetics \cup {Unlocked}]
    /\ \A t \in Calls : ToSet(rows[t]) \subseteq owned /\ nextRow[t] \in 1..Len(rows[t]) + 1
    /\ lock \in [Cosmetics -> Calls \cup {Unlocked}]
    /\ grown \subseteq {KindOf[c] : c \in Cosmetics}

\* "One equipped per slot": no two cosmetics of a kind are equipped, however
\* many equip calls run at once, because each of them locks every row of the
\* kind; rows inserted while one of them runs are the exception.
OnePerSlotUnlessGrown ==
    \A a, b \in equipped : KindOf[a] = KindOf[b] /\ KindOf[a] \notin grown => a = b

\* A kind something of which was once equipped is never left empty: readers
\* see the old choice or a new one, and aborted calls change nothing.
SlotStaysFilled ==
    [][\A a \in equipped : \E b \in equipped' : KindOf[a] = KindOf[b]]_loadoutVars

\* Calls that lock the rows of a kind in opposite orders are all answered.
EveryEquipAnswered ==
    \A t \in Calls : phase[t] = "owner" ~> phase[t] \in {"done", "aborted"}
=============================================================================
