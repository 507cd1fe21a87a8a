------------------------------ MODULE SumProofs ------------------------------
(***************************************************************************)
(* Sums over finite sets, for the proofs about balances, scores and rows.  *)
(* MapThenSumSet of the community modules is a recursive function on the   *)
(* subsets of a set; that it has values, and which, follows from a         *)
(* smallest subset for which something else would be true.                 *)
(***************************************************************************)
EXTENDS FiniteSetsExt, FiniteSetTheorems, WellFoundedInduction, Integers, TLAPS

-----------------------------------------------------------------------------
(* Sums: what MapThenSumSet, which is a recursive function, computes *)

AnyOf(s) == CHOOSE x \in s : TRUE
IsSumTable(t, g, D) ==
    t = [s \in D |-> IF s = {} THEN 0 ELSE g[AnyOf(s)] + t[s \ {AnyOf(s)}]]
SumTable(g, S) == CHOOSE t : IsSumTable(t, g, SUBSET S)
SumOver(g, S) == SumTable(g, S)[S]

\* Families of subsets of S for which there is a table of sums.
Summable(g, S) ==
    {D \in SUBSET SUBSET S : /\ \A s \in D : s # {} => s \ {AnyOf(s)} \in D
                             /\ \E t : IsSumTable(t, g, D)}

LEMMA AnyOfIsIn == ASSUME NEW s, s # {} PROVE AnyOf(s) \in s
  BY DEF AnyOf

\* The smallest of a family of finite sets.
LEMMA Smallest ==
    ASSUME NEW S, IsFiniteSet(S), NEW F \in SUBSET SUBSET S, F # {}
    PROVE  \E s \in F : \A r \in F : r \subseteq s => r = s
  <1>1. F \subseteq FiniteSubsetsOf(S)
    BY FS_Subset DEF FiniteSubsetsOf
  <1>2. PICK s \in F : \A r \in F : <<r, s>> \notin StrictSubsetOrdering(S)
    BY <1>1, FS_StrictSubsetOrderingWellFounded, WFMin
  <1> QED
    BY <1>2 DEF StrictSubsetOrdering

LEMMA AllSummable ==
    ASSUME NEW g, NEW S, IsFiniteSet(S)
    PROVE  SUBSET S \in Summable(g, S)
  <1> DEFINE left(D) == (SUBSET S) \ D
             F == {left(D) : D \in Summable(g, S)}
  <1>1. F \in SUBSET SUBSET SUBSET S /\ IsFiniteSet(SUBSET S)
    BY FS_SUBSET
  <1>2. {} \in Summable(g, S)
    <2>1. IsSumTable([s \in {} |-> 0], g, {})
      BY DEF IsSumTable
    <2> QED
      BY <2>1 DEF Summable
  <1>3. F # {}
    BY <1>2
  <1>4. PICK L \in F : \A K \in F : K \subseteq L => K = L
    <2> HIDE DEF F
    <2> QED
      BY <1>1, <1>3, Smallest
  <1>5. PICK D \in Summable(g, S) : L = left(D)
    OBVIOUS
  <1>6. \A C \in Summable(g, S) : D \subseteq C => C = D
    <2> SUFFICES ASSUME NEW C \in Summable(g, S), D \subseteq C PROVE C = D
      OBVIOUS
    <2>1. left(C) \in F /\ left(C) \subseteq L
      BY <1>5
    <2>2. left(C) = left(D)
      BY <1>4, <1>5, <2>1
    <2> QED
      BY <2>2 DEF Summable
  <1>7. CASE D = SUBSET S
    BY <1>7
  <1>8. CASE D # SUBSET S
    <2>1. left(D) \in SUBSET SUBSET S /\ left(D) # {}
      BY <1>8 DEF Summable
    <2>2. PICK s \in left(D) : \A r \in left(D) : r \subseteq s => r = s
      <3> HIDE DEF left
      <3> QED
        BY <2>1, Smallest
    <2>3. PICK t : IsSumTable(t, g, D)
      BY DEF Summable
    <2> DEFINE C == D \cup {s}
               u == [r \in C |-> IF r = {} THEN 0 ELSE g[AnyOf(r)] + t[r \ {AnyOf(r)}]]
    <2>4. s \subseteq S /\ s \notin D /\ D \subseteq SUBSET S
      BY DEF Summable
    <2>5. \A r \in C : r # {} => r \ {AnyOf(r)} \in D
      <3>1. \A r \in D : r # {} => r \ {AnyOf(r)} \in D
        BY DEF Summable
      <3>2. s # {} => s \ {AnyOf(s)} \in D
        <4> HAVE s # {}
        <4>1. s \ {AnyOf(s)} \subseteq s /\ s \ {AnyOf(s)} # s
          BY AnyOfIsIn
        <4> QED
          BY <2>2, <2>4, <4>1
      <3> QED
        BY <3>1, <3>2
    <2>6. \A r \in D : u[r] = t[r]
      BY <2>3 DEF IsSumTable
    <2>7. IsSumTable(u, g, C)
      <3>1. \A r \in C : u[r] = IF r = {} THEN 0 ELSE g[AnyOf(r)] + u[r \ {AnyOf(r)}]
        BY <2>5, <2>6
      <3>2. u = [r \in C |-> u[r]]
        OBVIOUS
      <3> HIDE DEF u, C
      <3> QED
        BY <3>1, <3>2 DEF IsSumTable
    <2>8. C \in Summable(g, S)
      <3> HIDE DEF u
      <3> QED
        BY <2>4, <2>5, <2>7 DEF Summable
    <2> QED
      BY <1>6, <2>4, <2>8
  <1> QED
    BY <1>7, <1>8

LEMMA SumTableIs ==
    ASSUME NEW g, NEW S, IsFiniteSet(S)
    PROVE  \A s \in SUBSET S : SumTable(g, S)[s] =
               IF s = {} THEN 0 ELSE g[AnyOf(s)] + SumTable(g, S)[s \ {AnyOf(s)}]
  <1>1. \E t : IsSumTable(t, g, SUBSET S)
    BY AllSummable DEF Summable
  <1>2. IsSumTable(SumTable(g, S), g, SUBSET S)
    BY <1>1 DEF SumTable
  <1>3. PICK t : t = SumTable(g, S)
    OBVIOUS
  <1>4. \A s \in SUBSET S : t[s] = IF s = {} THEN 0 ELSE g[AnyOf(s)] + t[s \ {AnyOf(s)}]
    BY <1>2, <1>3 DEF IsSumTable
  <1> QED
    BY <1>3, <1>4

\* Every subset has the same sum in the table of a larger set.
LEMMA SumTablesAgree ==
    ASSUME NEW g, NEW S, IsFiniteSet(S), NEW h, NEW T \in SUBSET S, \A x \in T : g[x] = h[x]
    PROVE  SumTable(g, S)[T] = SumOver(h, T)
  <1> DEFINE F == {s \in SUBSET T : SumTable(g, S)[s] # SumTable(h, T)[s]}
  <1>1. IsFiniteSet(T)
    BY FS_Subset
  <1>2. \A s \in SUBSET T : SumTable(g, S)[s] = IF s = {} THEN 0
                                  ELSE g[AnyOf(s)] + SumTable(g, S)[s \ {AnyOf(s)}]
    <2>1. SUBSET T \subseteq SUBSET S
      OBVIOUS
    <2>2. \A s \in SUBSET S : SumTable(g, S)[s] = IF s = {} THEN 0
                                  ELSE g[AnyOf(s)] + SumTable(g, S)[s \ {AnyOf(s)}]
      BY SumTableIs
    <2> QED
      BY <2>1, <2>2
  <1>3. \A s \in SUBSET T : SumTable(h, T)[s] = IF s = {} THEN 0
                                  ELSE h[AnyOf(s)] + SumTable(h, T)[s \ {AnyOf(s)}]
    BY <1>1, SumTableIs
  <1>4. F = {}
    <2> SUFFICES ASSUME F # {} PROVE FALSE
      OBVIOUS
    <2>0. F \in SUBSET SUBSET T
      OBVIOUS
    <2>1. PICK s \in F : \A r \in F : r \subseteq s => r = s
      <3> HIDE DEF F
      <3> QED
        BY <1>1, <2>0, Smallest
    <2>2. s # {} /\ AnyOf(s) \in s /\ g[AnyOf(s)] = h[AnyOf(s)]
      BY <1>2, <1>3, AnyOfIsIn
    <2>3. s \ {AnyOf(s)} \in SUBSET T /\ s \ {AnyOf(s)} \notin F
      BY <2>1, <2>2
    <2> QED
      BY <1>2, <1>3, <2>2, <2>3
  <1> QED
    BY <1>4 DEF SumOver

LEMMA SumOfNone ==
    ASSUME NEW g
    PROVE  SumOver(g, {}) = 0
  <1>1. IsFiniteSet({}) /\ {} \in SUBSET {}
    BY FS_EmptySet
  <1>2. SumTable(g, {})[{}] = 0
    BY <1>1, SumTableIs
  <1> QED
    BY <1>2 DEF SumOver

LEMMA SumUnfolds ==
    ASSUME NEW g, NEW S, IsFiniteSet(S), S # {}
    PROVE  SumOver(g, S) = g[AnyOf(S)] + SumOver(g, S \ {AnyOf(S)})
  <1>1. SumTable(g, S)[S \ {AnyOf(S)}] = SumOver(g, S \ {AnyOf(S)})
    BY SumTablesAgree
  <1>2. SumTable(g, S)[S] = g[AnyOf(S)] + SumTable(g, S)[S \ {AnyOf(S)}]
    <2>1. S \in SUBSET S
      OBVIOUS
    <2> QED
      BY <2>1, SumTableIs
  <1> QED
    BY <1>1, <1>2 DEF SumOver

LEMMA SumIsInt ==
    ASSUME NEW g, NEW S, IsFiniteSet(S), \A x \in S : g[x] \in Int
    PROVE  SumOver(g, S) \in Int
  <1> DEFINE F == {s \in SUBSET S : SumOver(g, s) \notin Int}
  <1> SUFFICES ASSUME F # {} PROVE FALSE
    OBVIOUS
  <1>0. F \in SUBSET SUBSET S
    OBVIOUS
  <1>1. PICK s \in F : \A r \in F : r \subseteq s => r = s
    <2> HIDE DEF F
    <2> QED
      BY <1>0, Smallest
  <1>2. s # {} /\ AnyOf(s) \in s /\ IsFiniteSet(s)
    <2>1. s # {}
      BY SumOfNone
    <2> QED
      BY <2>1, AnyOfIsIn, FS_Subset
  <1>3. SumOver(g, s) = g[AnyOf(s)] + SumOver(g, s \ {AnyOf(s)})
    BY <1>2, SumUnfolds
  <1>4. SumOver(g, s \ {AnyOf(s)}) \in Int
    BY <1>1, <1>2
  <1> QED
    BY <1>2, <1>3, <1>4

\* The order of the summands does not matter.
LEMMA SumWithout ==
    ASSUME NEW g, NEW S, IsFiniteSet(S), \A x \in S : g[x] \in Int, NEW x \in S
    PROVE  SumOver(g, S) = g[x] + SumOver(g, S \ {x})
  <1> DEFINE F == {s \in SUBSET S : \E y \in s : SumOver(g, s) # g[y] + SumOver(g, s \ {y})}
  <1> SUFFICES ASSUME F # {} PROVE FALSE
    OBVIOUS
  <1>0. F \in SUBSET SUBSET S
    OBVIOUS
  <1>1. PICK s \in F : \A r \in F : r \subseteq s => r = s
    <2> HIDE DEF F
    <2> QED
      BY <1>0, Smallest
  <1>2. PICK y \in s : SumOver(g, s) # g[y] + SumOver(g, s \ {y})
    OBVIOUS
  <1>3. PICK a \in s : a = AnyOf(s)
    BY AnyOfIsIn
  <1>4. SumOver(g, s) = g[a] + SumOver(g, s \ {a})
    BY <1>3, FS_Subset, SumUnfolds
  <1>5. a # y
    BY <1>2, <1>4
  <1>6. s \ {a} \in SUBSET S /\ y \in s \ {a} /\ s \ {a} \notin F
    BY <1>1, <1>5
  <1>7. SumOver(g, s \ {a}) = g[y] + SumOver(g, (s \ {a}) \ {y})
    BY <1>6
  <1>8. s \ {y} \in SUBSET S /\ a \in s \ {y} /\ s \ {y} \notin F
    BY <1>1, <1>2, <1>5
  <1>9. SumOver(g, s \ {y}) = g[a] + SumOver(g, (s \ {y}) \ {a})
    BY <1>8
  <1>10. (s \ {a}) \ {y} = (s \ {y}) \ {a} /\ IsFiniteSet((s \ {a}) \ {y})
    BY FS_Subset
  <1>11. SumOver(g, (s \ {a}) \ {y}) \in Int /\ g[a] \in Int /\ g[y] \in Int
    BY <1>10, SumIsInt
  <1>12. PICK n \in Int : n = SumOver(g, (s \ {a}) \ {y})
    BY <1>11
  <1>13. SumOver(g, s \ {a}) = g[y] + n /\ SumOver(g, s \ {y}) = g[a] + n
    BY <1>7, <1>9, <1>10, <1>12
  <1>14. SumOver(g, s) = g[a] + (g[y] + n) /\ SumOver(g, s) # g[y] + (g[a] + n)
    BY <1>2, <1>4, <1>13
  <1> QED
    BY <1>11, <1>14

LEMMA SumWith ==
    ASSUME NEW g, NEW S, IsFiniteSet(S), NEW x, x \notin S, \A y \in S \cup {x} : g[y] \in Int
    PROVE  SumOver(g, S \cup {x}) = SumOver(g, S) + g[x]
  <1>1. IsFiniteSet(S \cup {x}) /\ (S \cup {x}) \ {x} = S
    BY FS_AddElement
  <1>2. SumOver(g, S \cup {x}) = g[x] + SumOver(g, S)
    BY <1>1, SumWithout
  <1>3. SumOver(g, S) \in Int
    BY SumIsInt
  <1> QED
    BY <1>2, <1>3

LEMMA SameSum ==
    ASSUME NEW g, NEW h, NEW S, IsFiniteSet(S), \A x \in S : g[x] = h[x]
    PROVE  SumOver(g, S) = SumOver(h, S)
  BY SumTablesAgree DEF SumOver

\* Whatever satisfies the equation of the table is the sum: so is what
\* MapThenSumSet chooses.
LEMMA SumTableUnique ==
    ASSUME NEW g, NEW S, IsFiniteSet(S), NEW t, IsSumTable(t, g, SUBSET S)
    PROVE  t[S] = SumOver(g, S)
  <1> DEFINE F == {s \in SUBSET S : t[s] # SumTable(g, S)[s]}
  <1>1. \A s \in SUBSET S : t[s] = IF s = {} THEN 0 ELSE g[AnyOf(s)] + t[s \ {AnyOf(s)}]
    BY DEF IsSumTable
  <1>2. \A s \in SUBSET S : SumTable(g, S)[s] = IF s = {} THEN 0
                                  ELSE g[AnyOf(s)] + SumTable(g, S)[s \ {AnyOf(s)}]
    BY SumTableIs
  <1>3. F = {}
    <2> SUFFICES ASSUME F # {} PROVE FALSE
      OBVIOUS
    <2>0. F \in SUBSET SUBSET S
      OBVIOUS
    <2>1. PICK s \in F : \A r \in F : r \subseteq s => r = s
      <3> HIDE DEF F
      <3> QED
        BY <2>0, Smallest
    <2>2. s # {} /\ AnyOf(s) \in s
      BY <1>1, <1>2, AnyOfIsIn
    <2>3. s \ {AnyOf(s)} \in SUBSET S /\ s \ {AnyOf(s)} \notin F
      BY <2>1, <2>2
    <2> QED
      BY <1>1, <1>2, <2>2, <2>3
  <1> QED
    BY <1>3 DEF SumOver

LEMMA SumTableExists ==
    ASSUME NEW g, NEW S, IsFiniteSet(S)
    PROVE  \E t : IsSumTable(t, g, SUBSET S)
  BY AllSummable DEF Summable

\* Sums of two functions whose values are at most each other's; a sum of
\* natural numbers is one; and a sum of sums.
LEMMA SumAtMost ==
    ASSUME NEW g, NEW h, NEW S, IsFiniteSet(S), \A x \in S : g[x] \in Int /\ h[x] \in Int,
           \A x \in S : g[x] <= h[x]
    PROVE  SumOver(g, S) <= SumOver(h, S)
  <1> DEFINE F == {s \in SUBSET S : ~(SumOver(g, s) <= SumOver(h, s))}
  <1> SUFFICES ASSUME F # {} PROVE FALSE
    OBVIOUS
  <1>0. F \in SUBSET SUBSET S
    OBVIOUS
  <1>1. PICK s \in F : \A r \in F : r \subseteq s => r = s
    <2> HIDE DEF F
    <2> QED
      BY <1>0, Smallest
  <1>2. s # {} /\ IsFiniteSet(s)
    <2>1. SumOver(g, {}) = 0 /\ SumOver(h, {}) = 0
      BY SumOfNone
    <2>2. {} \notin F
      BY <2>1
    <2> QED
      BY <2>2, FS_Subset
  <1>3. PICK a \in s : a = AnyOf(s)
    BY <1>2, AnyOfIsIn
  <1>4. SumOver(g, s) = g[a] + SumOver(g, s \ {a}) /\ SumOver(h, s) = h[a] + SumOver(h, s \ {a})
    BY <1>2, <1>3, SumUnfolds
  <1>5. s \ {a} \in SUBSET S /\ s \ {a} \notin F
    BY <1>1
  <1>6. SumOver(g, s \ {a}) <= SumOver(h, s \ {a})
    BY <1>5
  <1>7. IsFiniteSet(s \ {a})
    BY <1>2, FS_Subset
  <1>8. SumOver(g, s \ {a}) \in Int /\ SumOver(h, s \ {a}) \in Int
    BY <1>7, SumIsInt
  <1>9. g[a] \in Int /\ h[a] \in Int /\ g[a] <= h[a]
    OBVIOUS
  <1>10. SumOver(g, s) <= SumOver(h, s)
    BY <1>4, <1>6, <1>8, <1>9
  <1> QED
    BY <1>10

LEMMA SumOfNothing ==
    ASSUME NEW g, NEW S, IsFiniteSet(S), \A x \in S : g[x] = 0
    PROVE  SumOver(g, S) = 0
  <1> DEFINE F == {s \in SUBSET S : SumOver(g, s) # 0}
  <1> SUFFICES ASSUME F # {} PROVE FALSE
    OBVIOUS
  <1>0. F \in SUBSET SUBSET S
    OBVIOUS
  <1>1. PICK s \in F : \A r \in F : r \subseteq s => r = s
    <2> HIDE DEF F
    <2> QED
      BY <1>0, Smallest
  <1>2. s # {} /\ IsFiniteSet(s)
    BY SumOfNone, FS_Subset
  <1>3. AnyOf(s) \in s /\ SumOver(g, s) = g[AnyOf(s)] + SumOver(g, s \ {AnyOf(s)})
    BY <1>2, AnyOfIsIn, SumUnfolds
  <1>4. s \ {AnyOf(s)} \in SUBSET S /\ s \ {AnyOf(s)} \notin F
    BY <1>1, <1>3
  <1> QED
    BY <1>3, <1>4

LEMMA SumIsNat ==
    ASSUME NEW g, NEW S, IsFiniteSet(S), \A x \in S : g[x] \in Nat
    PROVE  SumOver(g, S) \in Nat
  <1> DEFINE zero == [x \in S |-> 0]
  <1>1. SumOver(zero, S) = 0
    BY SumOfNothing
  <1>2. SumOver(zero, S) <= SumOver(g, S)
    BY SumAtMost
  <1>3. SumOver(g, S) \in Int
    BY SumIsInt
  <1> QED
    BY <1>1, <1>2, <1>3

LEMMA SumOfSums ==
    ASSUME NEW g, NEW h, NEW k, NEW S, IsFiniteSet(S), \A x \in S : g[x] \in Int /\ h[x] \in Int,
           \A x \in S : k[x] = g[x] + h[x]
    PROVE  SumOver(k, S) = SumOver(g, S) + SumOver(h, S)
  <1> DEFINE F == {s \in SUBSET S : SumOver(k, s) # SumOver(g, s) + SumOver(h, s)}
  <1> SUFFICES ASSUME F # {} PROVE FALSE
    OBVIOUS
  <1>0. F \in SUBSET SUBSET S
    OBVIOUS
  <1>1. PICK s \in F : \A r \in F : r \subseteq s => r = s
    <2> HIDE DEF F
    <2> QED
      BY <1>0, Smallest
  <1>2. s # {} /\ IsFiniteSet(s)
    <2>1. SumOver(g, {}) = 0 /\ SumOver(h, {}) = 0 /\ SumOver(k, {}) = 0
      BY SumOfNone
    <2>2. {} \notin F
      BY <2>1
    <2> QED
      BY <2>2, FS_Subset
  <1>3. PICK a \in s : a = AnyOf(s)
    BY <1>2, AnyOfIsIn
  <1>4. /\ SumOver(g, s) = g[a] + SumOver(g, s \ {a})
        /\ SumOver(h, s) = h[a] + SumOver(h, s \ {a})
        /\ SumOver(k, s) = k[a] + SumOver(k, s \ {a})
    BY <1>2, <1>3, SumUnfolds
  <1>5. s \ {a} \in SUBSET S /\ s \ {a} \notin F
    BY <1>1
  <1>6. SumOver(k, s \ {a}) = SumOver(g, s \ {a}) + SumOver(h, s \ {a})
    BY <1>5
  <1>7. IsFiniteSet(s \ {a})
    BY <1>2, FS_Subset
  <1>8. SumOver(g, s \ {a}) \in Int /\ SumOver(h, s \ {a}) \in Int
    BY <1>7, SumIsInt
  <1>9. g[a] \in Int /\ h[a] \in Int /\ k[a] = g[a] + h[a]
    OBVIOUS
  <1>10. SumOver(k, s) = SumOver(g, s) + SumOver(h, s)
    BY <1>4, <1>6, <1>8, <1>9
  <1> QED
    BY <1>10

\* One summand changes.
LEMMA SumChanges ==
    ASSUME NEW g, NEW h, NEW S, IsFiniteSet(S), \A x \in S : g[x] \in Int /\ h[x] \in Int,
           NEW x \in S, \A y \in S \ {x} : h[y] = g[y]
    PROVE  SumOver(h, S) = SumOver(g, S) + (h[x] - g[x])
  <1>1. IsFiniteSet(S \ {x})
    BY FS_Subset
  <1>2. SumOver(g, S) = g[x] + SumOver(g, S \ {x}) /\ SumOver(h, S) = h[x] + SumOver(h, S \ {x})
    BY SumWithout
  <1>3. SumOver(h, S \ {x}) = SumOver(g, S \ {x})
    BY <1>1, SameSum
  <1>4. SumOver(g, S \ {x}) \in Int
    BY <1>1, SumIsInt
  <1> QED
    BY <1>2, <1>3, <1>4

-----------------------------------------------------------------------------
(* Sums and sizes by key, and the first of a set *)

\* A sum is the sum, over the values of a key, of the sums of those with that key.
Keyed(k, s, t) == {d \in s : k[d] = t}
PartSums(g, k, s, T) == [t \in T |-> SumOver(g, Keyed(k, s, t))]

LEMMA PartsAddUp ==
    ASSUME NEW g, NEW k, NEW D, IsFiniteSet(D), NEW T, IsFiniteSet(T),
           \A d \in D : k[d] \in T /\ g[d] \in Int
    PROVE  SumOver(g, D) = SumOver(PartSums(g, k, D, T), T)
  <1> DEFINE F == {s \in SUBSET D : SumOver(g, s) # SumOver(PartSums(g, k, s, T), T)}
  <1> SUFFICES ASSUME F # {} PROVE FALSE
    OBVIOUS
  <1>0. F \in SUBSET SUBSET D
    OBVIOUS
  <1>1. PICK s \in F : \A r \in F : r \subseteq s => r = s
    <2> HIDE DEF F
    <2> QED
      BY <1>0, Smallest
  <1>2. s # {} /\ IsFiniteSet(s)
    <2>1. \A t \in T : PartSums(g, k, {}, T)[t] = 0
      <3>1. \A t \in T : {d \in {} : k[d] = t} = {}
        OBVIOUS
      <3> QED
        BY <3>1, SumOfNone DEF PartSums, Keyed
    <2>2. SumOver(PartSums(g, k, {}, T), T) = 0
      BY <2>1, SumOfNothing
    <2>3. {} \notin F
      BY <2>2, SumOfNone
    <2> QED
      BY <2>3, FS_Subset
  <1>3. PICK a \in s : TRUE
    BY <1>2
  <1>4. PICK r \in SUBSET D : r = s \ {a}
    OBVIOUS
  <1>5. IsFiniteSet(r) /\ a \notin r /\ r \cup {a} = s /\ k[a] \in T /\ g[a] \in Int
    BY <1>2, <1>4, FS_Subset
  <1>6. SumOver(g, r) = SumOver(PartSums(g, k, r, T), T)
    BY <1>1, <1>4
  <1>7. SumOver(g, s) = SumOver(g, r) + g[a]
    BY <1>5, SumWith
  <1>8. \A u \in SUBSET D, t \in T : PartSums(g, k, u, T)[t] \in Int
    <2> SUFFICES ASSUME NEW u \in SUBSET D, NEW t \in T
                 PROVE  SumOver(g, {d \in u : k[d] = t}) \in Int
      BY DEF PartSums, Keyed
    <2>1. IsFiniteSet({d \in u : k[d] = t})
      BY FS_Subset
    <2> QED
      BY <2>1, SumIsInt
  <1>9. \A t \in T \ {k[a]} : PartSums(g, k, s, T)[t] = PartSums(g, k, r, T)[t]
    <2>1. \A t \in T \ {k[a]} : {d \in s : k[d] = t} = {d \in r : k[d] = t}
      BY <1>5
    <2> QED
      BY <2>1 DEF PartSums, Keyed
  <1>10. PartSums(g, k, s, T)[k[a]] = PartSums(g, k, r, T)[k[a]] + g[a]
    <2> DEFINE like == {d \in r : k[d] = k[a]}
    <2>1. {d \in s : k[d] = k[a]} = like \cup {a} /\ a \notin like
      BY <1>5
    <2>2. IsFiniteSet(like)
      BY <1>5, FS_Subset
    <2>3. SumOver(g, like \cup {a}) = SumOver(g, like) + g[a]
      <3>1. \A y \in like \cup {a} : g[y] \in Int
        BY <1>5
      <3> HIDE DEF like
      <3> QED
        BY <2>1, <2>2, <3>1, SumWith
    <2> QED
      BY <1>5, <2>1, <2>3 DEF PartSums, Keyed
  <1>11. SumOver(PartSums(g, k, s, T), T)
             = SumOver(PartSums(g, k, r, T), T) + (PartSums(g, k, s, T)[k[a]] - PartSums(g, k, r, T)[k[a]])
    BY <1>5, <1>8, <1>9, SumChanges
  <1>12. SumOver(PartSums(g, k, r, T), T) \in Int
    BY <1>8, SumIsInt
  <1>13. PartSums(g, k, r, T)[k[a]] \in Int /\ PartSums(g, k, s, T)[k[a]] \in Int
    BY <1>5, <1>8
  <1>14. SumOver(PartSums(g, k, s, T), T) = SumOver(g, s)
    BY <1>5, <1>6, <1>7, <1>10, <1>11, <1>12, <1>13
  <1> QED
    BY <1>14

LEMMA SumByKey ==
    ASSUME NEW g, NEW k, NEW D, IsFiniteSet(D), NEW T, IsFiniteSet(T),
           \A d \in D : k[d] \in T /\ g[d] \in Int,
           NEW h, \A t \in T : h[t] = SumOver(g, Keyed(k, D, t))
    PROVE  SumOver(g, D) = SumOver(h, T)
  <1>1. \A t \in T : PartSums(g, k, D, T)[t] = h[t]
    BY DEF PartSums
  <1>2. SumOver(PartSums(g, k, D, T), T) = SumOver(h, T)
    BY <1>1, SameSum
  <1> QED
    BY <1>2, PartsAddUp

\* A cardinality is a sum of ones.
LEMMA SumOfOnes ==
    ASSUME NEW g, NEW S, IsFiniteSet(S), \A x \in S : g[x] = 1
    PROVE  SumOver(g, S) = Cardinality(S)
  <1> DEFINE F == {s \in SUBSET S : SumOver(g, s) # Cardinality(s)}
  <1> SUFFICES ASSUME F # {} PROVE FALSE
    OBVIOUS
  <1>0. F \in SUBSET SUBSET S
    OBVIOUS
  <1>1. PICK s \in F : \A r \in F : r \subseteq s => r = s
    <2> HIDE DEF F
    <2> QED
      BY <1>0, Smallest
  <1>2. s # {} /\ IsFiniteSet(s)
    BY SumOfNone, FS_EmptySet, FS_Subset
  <1>3. PICK a \in s : TRUE
    BY <1>2
  <1>4. PICK r \in SUBSET S : r = s \ {a}
    OBVIOUS
  <1>5. IsFiniteSet(r) /\ a \notin r /\ r \cup {a} = s
    BY <1>2, <1>4, FS_Subset
  <1>6. SumOver(g, r) = Cardinality(r)
    BY <1>1, <1>4
  <1>7. SumOver(g, s) = SumOver(g, r) + 1
    <2>1. \A y \in r \cup {a} : g[y] \in Int /\ g[a] = 1
      BY <1>5
    <2> QED
      BY <1>5, <2>1, SumWith
  <1>8. Cardinality(s) = Cardinality(r) + 1
    BY <1>5, FS_AddElement
  <1> QED
    BY <1>6, <1>7, <1>8

LEMMA CountByKey ==
    ASSUME NEW k, NEW D, IsFiniteSet(D), NEW T, IsFiniteSet(T), \A d \in D : k[d] \in T,
           NEW h, \A t \in T : h[t] = Cardinality(Keyed(k, D, t))
    PROVE  Cardinality(D) = SumOver(h, T)
  <1> DEFINE one == [d \in D |-> 1]
  <1>1. \A d \in D : one[d] = 1
    OBVIOUS
  <1>2. SumOver(one, D) = Cardinality(D)
    <2> HIDE DEF one
    <2> QED
      BY <1>1, SumOfOnes
  <1>3. \A t \in T : h[t] = SumOver(one, Keyed(k, D, t))
    <2> SUFFICES ASSUME NEW t \in T
                 PROVE  SumOver(one, Keyed(k, D, t)) = Cardinality(Keyed(k, D, t))
      OBVIOUS
    <2>1. IsFiniteSet(Keyed(k, D, t))
      BY FS_Subset DEF Keyed
    <2>2. \A d \in Keyed(k, D, t) : one[d] = 1
      BY DEF Keyed
    <2> HIDE DEF one
    <2> QED
      BY <2>1, <2>2, SumOfOnes
  <1>4. \A d \in D : k[d] \in T /\ one[d] \in Int
    OBVIOUS
  <1>5. SumOver(one, D) = SumOver(h, T)
    <2> HIDE DEF one
    <2> QED
      BY <1>3, <1>4, SumByKey
  <1> QED
    BY <1>2, <1>5

\* Sets between which a function is one to one are of one size.
LEMMA SameSize ==
    ASSUME NEW S, IsFiniteSet(S), NEW T, NEW f, \A x \in S : f[x] \in T,
           \A x \in S, y \in S : f[x] = f[y] => x = y,
           \A t \in T : \E x \in S : f[x] = t
    PROVE  IsFiniteSet(T) /\ Cardinality(T) = Cardinality(S)
  <1> DEFINE b == [x \in S |-> f[x]]
  <1>1. b \in Bijection(S, T)
    BY DEF Bijection, Injection, Surjection, IsInjective
  <1>2. ExistsBijection(S, T)
    BY <1>1 DEF ExistsBijection
  <1> QED
    BY <1>2, FS_Bijection

\* A total order on a finite set has a first element.
LEMMA FirstExists ==
    ASSUME NEW S, IsFiniteSet(S), S # {}, NEW R,
           \A x \in S, y \in S : <<x, y>> \in R \/ <<y, x>> \in R,
           \A x \in S, y \in S, z \in S : <<x, y>> \in R /\ <<y, z>> \in R => <<x, z>> \in R
    PROVE  \E x \in S : \A y \in S : <<x, y>> \in R
  <1> DEFINE F == {s \in SUBSET S : s # {} /\ ~\E x \in s : \A y \in s : <<x, y>> \in R}
  <1> SUFFICES ASSUME F # {} PROVE FALSE
    OBVIOUS
  <1>0. F \in SUBSET SUBSET S
    OBVIOUS
  <1>1. PICK s \in F : \A r \in F : r \subseteq s => r = s
    <2> HIDE DEF F
    <2> QED
      BY <1>0, Smallest
  <1>2. PICK a \in s : TRUE
    OBVIOUS
  <1>3. PICK r \in SUBSET S : r = s \ {a}
    OBVIOUS
  <1>4. r \notin F
    <2>1. r \subseteq s /\ r # s
      BY <1>2, <1>3
    <2> HIDE DEF F
    <2> QED
      BY <1>1, <2>1
  <1>5. CASE r = {}
    <2>1. \A y \in s : <<a, y>> \in R
      BY <1>3, <1>5
    <2> QED
      BY <2>1
  <1>6. CASE r # {}
    <2>1. PICK b \in r : \A y \in r : <<b, y>> \in R
      BY <1>4, <1>6
    <2>2. a \in S /\ b \in S /\ r \subseteq S
      BY <1>3
    <2>3. CASE <<a, b>> \in R
      <3>1. \A y \in s : <<a, y>> \in R
        BY <1>3, <2>1, <2>2, <2>3
      <3> QED
        BY <3>1
    <2>4. CASE <<b, a>> \in R
      <3>1. \A y \in s : <<b, y>> \in R
        BY <1>3, <2>1, <2>4
      <3> QED
        BY <1>3, <3>1
    <2> QED
      BY <2>2, <2>3, <2>4
  <1> QED
    BY <1>5, <1>6

\* The pairs of a join, counted from the one side and from the other.
PairedWith(D, A, b) == {a \in A : <<a, b>> \in D}
PairedFrom(D, B, a) == {b \in B : <<a, b>> \in D}

LEMMA CountPairs ==
    ASSUME NEW A, IsFiniteSet(A), NEW B, IsFiniteSet(B), NEW D \in SUBSET (A \X B),
           NEW h, \A b \in B : h[b] = Cardinality(PairedWith(D, A, b))
    PROVE  Cardinality(D) = SumOver(h, B)
  <1> DEFINE k == [p \in D |-> p[2]]
  <1>1. IsFiniteSet(D)
    BY FS_Product, FS_Subset
  <1>2. ASSUME NEW b \in B
        PROVE  h[b] = Cardinality(Keyed(k, D, b))
    <2> DEFINE S == PairedWith(D, A, b)
               f == [a \in S |-> <<a, b>>]
    <2>1. IsFiniteSet(S)
      BY FS_Subset DEF PairedWith
    <2>2. \A a \in S : f[a] \in Keyed(k, D, b)
      BY DEF PairedWith, Keyed
    <2>3. \A a \in S, c \in S : f[a] = f[c] => a = c
      OBVIOUS
    <2>4. \A p \in Keyed(k, D, b) : \E a \in S : f[a] = p
      BY DEF PairedWith, Keyed
    <2> HIDE DEF f, k
    <2> QED
      BY <2>1, <2>2, <2>3, <2>4, SameSize
  <1>3. \A p \in D : k[p] \in B
    OBVIOUS
  <1> HIDE DEF k
  <1> QED
    BY <1>1, <1>2, <1>3, CountByKey

LEMMA CountPairsFirst ==
    ASSUME NEW A, IsFiniteSet(A), NEW B, IsFiniteSet(B), NEW D \in SUBSET (A \X B),
           NEW h, \A a \in A : h[a] = Cardinality(PairedFrom(D, B, a))
    PROVE  Cardinality(D) = SumOver(h, A)
  <1> DEFINE k == [p \in D |-> p[1]]
  <1>1. IsFiniteSet(D)
    BY FS_Product, FS_Subset
  <1>2. ASSUME NEW a \in A
        PROVE  h[a] = Cardinality(Keyed(k, D, a))
    <2> DEFINE S == PairedFrom(D, B, a)
               f == [b \in S |-> <<a, b>>]
    <2>1. IsFiniteSet(S)
      BY FS_Subset DEF PairedFrom
    <2>2. \A b \in S : f[b] \in Keyed(k, D, a)
      BY DEF PairedFrom, Keyed
    <2>3. \A b \in S, c \in S : f[b] = f[c] => b = c
      OBVIOUS
    <2>4. \A p \in Keyed(k, D, a) : \E b \in S : f[b] = p
      BY DEF PairedFrom, Keyed
    <2> HIDE DEF f, k
    <2> QED
      BY <2>1, <2>2, <2>3, <2>4, SameSize
  <1>3. \A p \in D : k[p] \in A
    OBVIOUS
  <1> HIDE DEF k
  <1> QED
    BY <1>1, <1>2, <1>3, CountByKey

LEMMA SumOfOne ==
    ASSUME NEW g, NEW x, g[x] \in Int
    PROVE  SumOver(g, {x}) = g[x]
  <1>1. IsFiniteSet({x}) /\ {x} \ {x} = {}
    BY FS_Singleton
  <1>2. SumOver(g, {x}) = g[x] + SumOver(g, {x} \ {x})
    BY <1>1, SumWithout
  <1> QED
    BY <1>1, <1>2, SumOfNone

\* The summands under other names.
LEMMA SumRenamed ==
    ASSUME NEW S, IsFiniteSet(S), NEW T, NEW f, \A x \in S : f[x] \in T,
           \A x \in S, y \in S : f[x] = f[y] => x = y,
           \A t \in T : \E x \in S : f[x] = t,
           NEW g, NEW h, \A x \in S : g[x] \in Int /\ h[f[x]] = g[x]
    PROVE  SumOver(g, S) = SumOver(h, T)
  <1>1. IsFiniteSet(T)
    BY SameSize
  <1>2. ASSUME NEW t \in T
        PROVE  h[t] = SumOver(g, Keyed(f, S, t))
    <2>1. PICK x \in S : f[x] = t
      OBVIOUS
    <2>2. Keyed(f, S, t) = {x}
      BY <2>1 DEF Keyed
    <2>3. SumOver(g, {x}) = g[x]
      BY <2>1, SumOfOne
    <2> QED
      BY <2>1, <2>2, <2>3
  <1> QED
    BY <1>1, <1>2, SumByKey

\* Summands that are nothing may be left out.
LEMMA SumOfSome ==
    ASSUME NEW S, IsFiniteSet(S), NEW T \in SUBSET S, NEW g, \A x \in S : g[x] \in Int,
           \A x \in S \ T : g[x] = 0
    PROVE  SumOver(g, S) = SumOver(g, T)
  <1> DEFINE F == {r \in SUBSET S : T \subseteq r /\ SumOver(g, r) = SumOver(g, T)}
  <1>1. \A r \in F : \A x \in S \ r : r \cup {x} \in F
    <2> SUFFICES ASSUME NEW r \in F, NEW x \in S \ r
                 PROVE  SumOver(g, r \cup {x}) = SumOver(g, T)
      OBVIOUS
    <2>1. IsFiniteSet(r) /\ IsFiniteSet(T)
      BY FS_Subset
    <2>2. SumOver(g, r \cup {x}) = SumOver(g, r) + g[x]
      BY <2>1, SumWith
    <2>3. g[x] = 0 /\ SumOver(g, T) \in Int
      BY <2>1, SumIsInt
    <2> QED
      BY <2>2, <2>3
  <1>2. PICK s \in {S \ r : r \in F} : \A r \in {S \ q : q \in F} : r \subseteq s => r = s
    <2>1. T \in F
      OBVIOUS
    <2> DEFINE E == {S \ r : r \in F}
    <2>2. E # {} /\ E \in SUBSET SUBSET S
      BY <2>1
    <2> HIDE DEF E
    <2>3. \E s \in E : \A r \in E : r \subseteq s => r = s
      BY <2>2, Smallest
    <2> QED
      BY <2>3 DEF E
  <1>3. PICK r \in F : s = S \ r
    BY <1>2
  <1>4. s = {}
    <2> SUFFICES ASSUME NEW x \in s PROVE FALSE
      OBVIOUS
    <2>1. r \cup {x} \in F
      BY <1>1, <1>3
    <2>2. S \ (r \cup {x}) \subseteq s /\ S \ (r \cup {x}) # s
      BY <1>3
    <2> QED
      BY <1>2, <2>1, <2>2
  <1> QED
    BY <1>3, <1>4

LEMMA SumOfFewer ==
    ASSUME NEW S, IsFiniteSet(S), NEW T \in SUBSET S, NEW g, \A x \in S : g[x] \in Nat
    PROVE  SumOver(g, T) <= SumOver(g, S)
  <1> DEFINE h == [x \in S |-> IF x \in T THEN g[x] ELSE 0]
  <1>1. \A x \in S : h[x] \in Int /\ g[x] \in Int /\ h[x] <= g[x]
    OBVIOUS
  <1>2. (\A x \in S \ T : h[x] = 0) /\ (\A x \in T : h[x] = g[x])
    OBVIOUS
  <1> HIDE DEF h
  <1>3. SumOver(h, S) <= SumOver(g, S)
    BY <1>1, SumAtMost
  <1>4. SumOver(h, S) = SumOver(h, T)
    BY <1>1, <1>2, SumOfSome
  <1>5. SumOver(h, T) = SumOver(g, T)
    <2>1. IsFiniteSet(T)
      BY FS_Subset
    <2> QED
      BY <1>2, <2>1, SameSum
  <1> QED
    BY <1>3, <1>4, <1>5

\* What the sums of functions of the community modules compute.
LEMMA SumFunctionIs ==
    ASSUME NEW g
    PROVE  /\ SumFunction(g) = SumOver(g, DOMAIN g)
           /\ \A S : SumFunctionOnSet(g, S) = SumOver(g, S)
  BY DEF SumFunction, SumFunctionOnSet, FoldFunctionOnSet, MapThenFoldSet, SumOver, SumTable,
         IsSumTable, AnyOf
=============================================================================
