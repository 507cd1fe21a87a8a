----------------------------- MODULE ViewProofs -----------------------------
(***************************************************************************)
(* Proofs about the views of Matches and Standings in the Platform: the    *)
(* scoreboard, the ranking and the analysis of an event are computed in    *)
(* queries of their own, and agree in every state of the Platform.         *)
(***************************************************************************)
EXTENDS PlatformProofs

-----------------------------------------------------------------------------
(* The scoreboard *)

\* Who was eliminated is an operator.
VictimsKnown == \A r \in Rounds : DOMAIN out[r] \subseteq Operators

BoardFacts == RosterTypeOK /\ MatchInv /\ VictimsKnown

LEMMA VictimsKnownNext ==
    ASSUME MatchInv, VictimsKnown, [PlatformNext]_allVars
    PROVE  VictimsKnown'
  <1>1. CASE UNCHANGED matchVars
    BY <1>1 DEF matchVars, VictimsKnown
  <1>2. CASE MatchCascade
    <2>1. \A r \in Rounds : out'[r] = <<>> \/ out'[r] = out[r]
      BY <1>2 DEF MatchCascade
    <2> QED
      BY <2>1 DEF VictimsKnown
  <1>3. ASSUME NEW s \in Slots, MatchStep(s) PROVE VictimsKnown'
    <2>1. CASE Eliminate(s)
      <3>1. MatchCall(doing[s]) /\ doing[s].kind = "eliminate"
        BY <2>1 DEF Eliminate, At, MatchInv, Busy
      <3> DEFINE c == doing[s]
      <3>2. c.victim \in Operators /\ c.round \in Rounds
        BY <3>1 DEF MatchCall
      <3>3. \/ out' = out
            \/ out' = [out EXCEPT ![c.round] = [o \in DOMAIN out[c.round] \cup {c.victim} |->
                           IF o \in DOMAIN out[c.round] THEN out[c.round][o] ELSE c.killer]]
        BY <2>1 DEF Eliminate
      <3>4. \A r \in Rounds : DOMAIN out'[r] \subseteq DOMAIN out[r] \cup {c.victim}
        BY <3>2, <3>3 DEF MatchInv
      <3> QED
        BY <3>2, <3>4 DEF VictimsKnown
    <2>2. CASE Pardon(s)
      <3>1. \A r \in Rounds : DOMAIN out'[r] \subseteq DOMAIN out[r]
        BY <2>2 DEF Pardon, MatchInv
      <3> QED
        BY <3>1 DEF VictimsKnown
    <2>3. CASE UNCHANGED out
      BY <2>3 DEF VictimsKnown
    <2> QED
      BY <1>3, <2>1, <2>2, <2>3
         DEF MatchStep, AskRound, FindActive, FindLatest, CreateRound, AskUpdate, FindTeam,
             UpdateRound, AskElimination, FindVictim, FindKiller, AskPardon, matchVars
  <1>4. [PlatformNext]_allVars /\ matchVars' # matchVars => PlatformNext
    BY DEF allVars, matchVars
  <1> QED
    BY <1>1, <1>2, <1>3, <1>4, WhoChangesRounds

\* The rows of an event's scoreboard are finitely many.
LEMMA RoundsAreFinite ==
    ASSUME NEW e \in Events
    PROVE  IsFiniteSet(Of(e)) /\ Of(e) \subseteq Rounds
  <1> DEFINE all == {e} \X (1..MaxRounds)
  <1>1. IsFiniteSet({e}) /\ IsFiniteSet(1..MaxRounds)
    <2>1. MaxRounds \in Int /\ 1 \in Int
      BY MatchConstants
    <2>2. IsFiniteSet(1..MaxRounds)
      BY <2>1, FS_Interval
    <2>3. IsFiniteSet({e})
      BY FS_Singleton
    <2> QED
      BY <2>2, <2>3
  <1>2. IsFiniteSet(all)
    BY <1>1, FS_Product
  <1>3. Of(e) \in SUBSET all
    BY DEF Of, Rounds
  <1>4. IsFiniteSet(Of(e))
    <2> HIDE DEF all
    <2> QED
      BY <1>2, <1>3, FS_Subset
  <1> QED
    BY <1>4 DEF Of

LEMMA EliminationsAreFinite ==
    ASSUME BoardFacts, NEW rs \in SUBSET Rounds, IsFiniteSet(rs)
    PROVE  /\ IsFiniteSet(Eliminations(rs))
           /\ \A x : x \in Eliminations(rs) <=>
                  \E r \in rs : \E o \in DOMAIN out[r] : o \in Operators /\ x = <<r, o>>
  <1>1. \A x : x \in Eliminations(rs) <=>
            \E r \in rs : \E o \in DOMAIN out[r] : o \in Operators /\ x = <<r, o>>
    BY DEF Eliminations, BoardFacts, VictimsKnown
  <1>2. Eliminations(rs) \subseteq rs \X Operators
    BY <1>1
  <1>3. IsFiniteSet(rs \X Operators)
    BY FS_Product, MatchConstants
  <1> QED
    BY <1>1, <1>2, <1>3, FS_Subset

LEMMA RanksAreFinite ==
    ASSUME BoardFacts, NEW e \in Events
    PROVE  /\ IsFiniteSet(Ranks(e))
           /\ \A m \in Ranks(e) : /\ m = <<m[1], m[2]>> /\ m[1] \in Squads /\ m[2] \in Operators
                                  /\ EventOfSquad(m[1]) = e
  <1>1. Ranks(e) \subseteq Squads \X Operators
    BY DEF Ranks
  <1>2. IsFiniteSet(Squads \X Operators)
    BY FS_Product, MatchConstants
  <1>3. IsFiniteSet(Ranks(e))
    BY <1>1, <1>2, FS_Subset
  <1> QED
    BY <1>1, <1>3 DEF Ranks

LEMMA RowsAreFinite ==
    ASSUME BoardFacts, NEW e \in Events
    PROVE  IsFiniteSet(PlayerRows(e))
  <1> DEFINE f == [m \in Ranks(e) |-> PlayerRow(m)]
  <1>1. f \in Surjection(Ranks(e), PlayerRows(e))
    BY DEF Surjection, PlayerRows
  <1> QED
    BY <1>1, RanksAreFinite, FS_Surjection

\* What a row says of a player, and that rows tell squads and players apart.
LEMMA RowSays ==
    ASSUME BoardFacts, NEW e \in Events, NEW m \in Ranks(e)
    PROVE  LET a == PlayerRow(m) IN
           /\ a.squad = m[1] /\ a.player = m[2] /\ a.team = TeamOf[m[1]]
           /\ a.kills = Kills(m[2], Of(e)) /\ a.deaths = Deaths(m[2], Of(e))
           /\ a.survived = Max({0, Cardinality(Of(e)) - Deaths(m[2], Of(e))})
           /\ a \in PlayerRows(e)
           /\ \A n \in Ranks(e) : PlayerRow(n) = a => n = m
  <1>1. EventOfSquad(m[1]) = e
    BY RanksAreFinite
  <1>2. \A n \in Ranks(e) : PlayerRow(n) = PlayerRow(m) => n = m
    BY RanksAreFinite DEF PlayerRow
  <1> QED
    BY <1>1, <1>2 DEF PlayerRow, PlayerRows

\* The players of a team, by their ranks and by their rows.
TeamRanks(t) == {m \in Ranks(EventOf[t]) : TeamOf[m[1]] = t}
TeamPlayers(t) == {r \in PlayerRows(EventOf[t]) : r.team = t}

LEMMA TeamPlayersRanked ==
    ASSUME BoardFacts, NEW t \in Teams, NEW f, f = [m \in TeamRanks(t) |-> PlayerRow(m)]
    PROVE  /\ IsFiniteSet(TeamRanks(t))
           /\ \A m \in TeamRanks(t) : f[m] \in TeamPlayers(t)
           /\ \A m \in TeamRanks(t), n \in TeamRanks(t) : f[m] = f[n] => m = n
           /\ \A r \in TeamPlayers(t) : \E m \in TeamRanks(t) : f[m] = r
  <1>0. EventOf[t] \in Events
    BY RosterConstants
  <1>1. IsFiniteSet(TeamRanks(t)) /\ TeamRanks(t) \subseteq Ranks(EventOf[t])
    BY <1>0, RanksAreFinite, FS_Subset DEF TeamRanks
  <1>2. \A m \in Ranks(EventOf[t]) :
            /\ PlayerRow(m) \in PlayerRows(EventOf[t]) /\ PlayerRow(m).team = TeamOf[m[1]]
            /\ \A n \in Ranks(EventOf[t]) : PlayerRow(n) = PlayerRow(m) => n = m
    BY <1>0, RowSays
  <1> QED
    BY <1>1, <1>2 DEF TeamRanks, TeamPlayers, PlayerRows

\* An elimination counts for a team as often as its killer has a row there.
LEMMA TeamKills ==
    ASSUME BoardFacts, NEW t \in Teams
    PROVE  TeamRow(t).kills = SumFunction([r \in TeamPlayers(t) |-> r.kills])
  <1> DEFINE e == EventOf[t]
             own == Eliminations(Of(e))
             ranks == TeamRanks(t)
             D == {p \in own \X ranks : KillerOf(p[1]) = p[2][2]}
             g == [m \in ranks |-> Kills(m[2], Of(e))]
             h == [r \in TeamPlayers(t) |-> r.kills]
             f == [m \in ranks |-> PlayerRow(m)]
  <1>1. e \in Events
    BY RosterConstants
  <1>2. IsFiniteSet(own) /\ IsFiniteSet(ranks)
    BY <1>1, RoundsAreFinite, EliminationsAreFinite, TeamPlayersRanked
  <1>3. ASSUME NEW m \in ranks
        PROVE  g[m] = Cardinality(PairedWith(D, own, m)) /\ g[m] \in Nat
    <2>1. PairedWith(D, own, m) = {x \in own : KillerOf(x) = m[2]}
      BY DEF PairedWith
    <2>2. IsFiniteSet({x \in own : KillerOf(x) = m[2]})
      BY <1>2, FS_Subset
    <2> QED
      BY <2>1, <2>2, FS_CardinalityType DEF Kills
  <1>4. Cardinality(D) = SumOver(g, ranks)
    <2>1. D \in SUBSET (own \X ranks)
      OBVIOUS
    <2> HIDE DEF D, own, ranks, g
    <2> QED
      BY <1>2, <1>3, <2>1, CountPairs
  <1>5. SumOver(g, ranks) = SumOver(h, TeamPlayers(t))
    <2>1. \A m \in ranks : f[m] \in TeamPlayers(t) /\ h[f[m]] = g[m]
      <3> SUFFICES ASSUME NEW m \in ranks PROVE f[m] \in TeamPlayers(t) /\ h[f[m]] = g[m]
        OBVIOUS
      <3>1. m \in Ranks(e)
        BY DEF TeamRanks
      <3>2. PlayerRow(m).kills = Kills(m[2], Of(e))
        BY <1>1, <3>1, RowSays
      <3> QED
        BY <3>2, TeamPlayersRanked
    <2>2. /\ \A m \in ranks, n \in ranks : f[m] = f[n] => m = n
          /\ \A r \in TeamPlayers(t) : \E m \in ranks : f[m] = r
      BY TeamPlayersRanked
    <2> DEFINE rows == TeamPlayers(t)
    <2> HIDE DEF f, g, h, ranks, rows
    <2>3. \A m \in ranks : g[m] \in Nat
      BY <1>3
    <2>4. \A m \in ranks : f[m] \in rows
      BY <2>1 DEF rows
    <2>7. \A m \in ranks : g[m] \in Int /\ h[f[m]] = g[m]
      BY <2>1, <2>3
    <2>5. \A r \in rows : \E m \in ranks : f[m] = r
      BY <2>2 DEF rows
    <2>6. SumOver(g, ranks) = SumOver(h, rows)
      BY <1>2, <2>2, <2>4, <2>7, <2>5, SumRenamed
    <2> QED
      BY <2>6 DEF rows
  <1>6. SumFunction(h) = SumOver(h, TeamPlayers(t))
    BY SumFunctionIs
  <1>7. TeamRow(t).kills = Cardinality(D)
    BY DEF TeamRow, TeamRanks
  <1> QED
    BY <1>4, <1>5, <1>6, <1>7

\* And against it as often as its victim has one.
LEMMA TeamDeaths ==
    ASSUME BoardFacts, NEW t \in Teams
    PROVE  TeamRow(t).deaths = SumFunction([r \in TeamPlayers(t) |-> r.deaths])
  <1> DEFINE e == EventOf[t]
             own == Eliminations(Of(e))
             ranks == TeamRanks(t)
             D == {p \in own \X ranks : p[1][2] = p[2][2]}
             g == [m \in ranks |-> Deaths(m[2], Of(e))]
             h == [r \in TeamPlayers(t) |-> r.deaths]
             f == [m \in ranks |-> PlayerRow(m)]
  <1>1. e \in Events
    BY RosterConstants
  <1>2. IsFiniteSet(own) /\ IsFiniteSet(ranks)
    BY <1>1, RoundsAreFinite, EliminationsAreFinite, TeamPlayersRanked
  <1>3. ASSUME NEW m \in ranks
        PROVE  g[m] = Cardinality(PairedWith(D, own, m)) /\ g[m] \in Nat
    <2>1. PairedWith(D, own, m) = {x \in own : x[2] = m[2]}
      BY DEF PairedWith
    <2>2. IsFiniteSet({x \in own : x[2] = m[2]})
      BY <1>2, FS_Subset
    <2> QED
      BY <2>1, <2>2, FS_CardinalityType DEF Deaths
  <1>4. Cardinality(D) = SumOver(g, ranks)
    <2>1. D \in SUBSET (own \X ranks)
      OBVIOUS
    <2> HIDE DEF D, own, ranks, g
    <2> QED
      BY <1>2, <1>3, <2>1, CountPairs
  <1>5. SumOver(g, ranks) = SumOver(h, TeamPlayers(t))
    <2>1. \A m \in ranks : f[m] \in TeamPlayers(t) /\ h[f[m]] = g[m]
      <3> SUFFICES ASSUME NEW m \in ranks PROVE f[m] \in TeamPlayers(t) /\ h[f[m]] = g[m]
        OBVIOUS
      <3>1. m \in Ranks(e)
        BY DEF TeamRanks
      <3>2. PlayerRow(m).deaths = Deaths(m[2], Of(e))
        BY <1>1, <3>1, RowSays
      <3> QED
        BY <3>2, TeamPlayersRanked
    <2>2. /\ \A m \in ranks, n \in ranks : f[m] = f[n] => m = n
          /\ \A r \in TeamPlayers(t) : \E m \in ranks : f[m] = r
      BY TeamPlayersRanked
    <2> DEFINE rows == TeamPlayers(t)
    <2> HIDE DEF f, g, h, ranks, rows
    <2>3. \A m \in ranks : g[m] \in Nat
      BY <1>3
    <2>4. \A m \in ranks : f[m] \in rows
      BY <2>1 DEF rows
    <2>7. \A m \in ranks : g[m] \in Int /\ h[f[m]] = g[m]
      BY <2>1, <2>3
    <2>5. \A r \in rows : \E m \in ranks : f[m] = r
      BY <2>2 DEF rows
    <2>6. SumOver(g, ranks) = SumOver(h, rows)
      BY <1>2, <2>2, <2>4, <2>7, <2>5, SumRenamed
    <2> QED
      BY <2>6 DEF rows
  <1>6. SumFunction(h) = SumOver(h, TeamPlayers(t))
    BY SumFunctionIs
  <1>7. TeamRow(t).deaths = Cardinality(D)
    BY DEF TeamRow, TeamRanks
  <1> QED
    BY <1>4, <1>5, <1>6, <1>7

\* Nobody dies more often than there are rounds.
LEMMA DeathsAtMostRounds ==
    ASSUME BoardFacts, NEW e \in Events, NEW o
    PROVE  /\ Deaths(o, Of(e)) \in Nat /\ Cardinality(Of(e)) \in Nat
           /\ Deaths(o, Of(e)) <= Cardinality(Of(e))
  <1> DEFINE S == {x \in Eliminations(Of(e)) : x[2] = o}
             f == [x \in S |-> x[1]]
  <1>1. IsFiniteSet(Of(e)) /\ Of(e) \in SUBSET Rounds
    BY RoundsAreFinite
  <1>2. \A x \in S : x = <<x[1], o>> /\ x[1] \in Of(e)
    BY <1>1, EliminationsAreFinite
  <1>3. f \in Injection(S, Of(e))
    BY <1>2 DEF Injection, IsInjective
  <1>4. IsFiniteSet(S) /\ Cardinality(S) <= Cardinality(Of(e))
    <2> HIDE DEF S, f
    <2> QED
      BY <1>1, <1>3, FS_Injection
  <1> QED
    BY <1>1, <1>4, FS_CardinalityType DEF Deaths

LEMMA SurvivorsAddUp ==
    ASSUME BoardFacts, NEW e \in Events, NEW r \in PlayerRows(e)
    PROVE  r.survived + r.deaths = Cardinality(Of(e))
  <1>1. PICK m \in Ranks(e) : r = PlayerRow(m)
    BY DEF PlayerRows
  <1>2. PICK n \in Nat : n = Cardinality(Of(e))
    BY DeathsAtMostRounds
  <1>3. PICK d \in Nat : d = Deaths(m[2], Of(e))
    BY DeathsAtMostRounds
  <1>4. d <= n
    BY <1>2, <1>3, DeathsAtMostRounds
  <1>5. r.survived = Max({0, n - d}) /\ r.deaths = d
    BY <1>1, <1>2, <1>3, RowSays
  <1>6. Max({0, n - d}) = n - d
    BY <1>4 DEF Max
  <1> QED
    BY <1>2, <1>5, <1>6

-----------------------------------------------------------------------------
(* The most valuable players *)

\* More kills, then fewer deaths, then the callsign: of finitely many players
\* with callsigns of their own, one is the best.
Better(k, d, c, o, p) ==
    \/ k[o] > k[p]
    \/ k[o] = k[p] /\ d[o] < d[p]
    \/ k[o] = k[p] /\ d[o] = d[p] /\ c[o] <= c[p]

LEMMA OneIsBest ==
    ASSUME NEW S, IsFiniteSet(S), S # {}, NEW k \in [S -> Nat], NEW d \in [S -> Nat],
           NEW c \in [S -> Nat], \A o \in S, p \in S : c[o] = c[p] => o = p
    PROVE  \E o \in S : /\ \A p \in S : Better(k, d, c, o, p)
                        /\ \A q \in S : (\A p \in S : Better(k, d, c, q, p)) => q = o
  <1> DEFINE R == {x \in S \X S : Better(k, d, c, x[1], x[2])}
  <1>1. \A o \in S, p \in S : <<o, p>> \in R <=> Better(k, d, c, o, p)
    OBVIOUS
  <1> HIDE DEF R
  <1>2. \A o \in S, p \in S : <<o, p>> \in R \/ <<p, o>> \in R
    <2> SUFFICES ASSUME NEW o \in S, NEW p \in S
                 PROVE  Better(k, d, c, o, p) \/ Better(k, d, c, p, o)
      BY <1>1
    <2>1. /\ k[o] \in Nat /\ d[o] \in Nat /\ c[o] \in Nat
          /\ k[p] \in Nat /\ d[p] \in Nat /\ c[p] \in Nat
      OBVIOUS
    <2> QED
      BY <2>1 DEF Better
  <1>3. \A o \in S, p \in S, q \in S : <<o, p>> \in R /\ <<p, q>> \in R => <<o, q>> \in R
    BY <1>1 DEF Better
  <1>4. PICK o \in S : \A p \in S : <<o, p>> \in R
    BY <1>2, <1>3, FirstExists
  <1>5. \A q \in S : Better(k, d, c, q, o) /\ Better(k, d, c, o, q) => q = o
    BY DEF Better
  <1> QED
    BY <1>1, <1>4, <1>5

Killers(r) == {KillerOf(x) : x \in Eliminations({r})} \ {NoOne}

First(r, o, p) ==
    \/ Kills(o, {r}) > Kills(p, {r})
    \/ /\ Kills(o, {r}) = Kills(p, {r})
       /\ \/ o \notin DOMAIN out[r] /\ p \in DOMAIN out[r]
          \/ (o \in DOMAIN out[r] <=> p \in DOMAIN out[r]) /\ CallsignOf[o] <= CallsignOf[p]

LEMMA RoundMvpIs ==
    ASSUME NEW r
    PROVE  RoundMvp(r) = IF Killers(r) = {} THEN NoOne
                         ELSE CHOOSE o \in Killers(r) : \A p \in Killers(r) : First(r, o, p)
  BY DEF RoundMvp, Killers, First

\* In a single round, who kills is an operator, and one dies once or not at all.
LEMMA OneRoundCounts ==
    ASSUME BoardFacts, NEW r \in Rounds
    PROVE  /\ IsFiniteSet(Killers(r)) /\ Killers(r) \subseteq Operators
           /\ \A o : /\ Kills(o, {r}) \in Nat
                     /\ o # NoOne => (Kills(o, {r}) > 0 <=> o \in Killers(r))
                     /\ Deaths(o, {r}) = IF o \in DOMAIN out[r] THEN 1 ELSE 0
  <1> DEFINE all == Eliminations({r})
  <1>1. {r} \in SUBSET Rounds /\ IsFiniteSet({r})
    BY FS_Singleton
  <1>2. /\ IsFiniteSet(all)
        /\ \A x : x \in all <=> \E o \in DOMAIN out[r] : o \in Operators /\ x = <<r, o>>
    BY <1>1, EliminationsAreFinite
  <1>3. \A o \in DOMAIN out[r] : o \in Operators /\ out[r][o] \in Operators \cup {NoOne}
    BY DEF BoardFacts, VictimsKnown, MatchInv, MatchTypeOK
  <1>4. \A x \in all : KillerOf(x) \in Operators \cup {NoOne}
    BY <1>2, <1>3 DEF KillerOf
  <1> HIDE DEF all
  <1>5. IsFiniteSet(Killers(r)) /\ Killers(r) \subseteq Operators
    BY <1>4, MatchConstants, FS_Subset DEF Killers, all
  <1>6. ASSUME NEW o
        PROVE  /\ Kills(o, {r}) \in Nat
               /\ o # NoOne => (Kills(o, {r}) > 0 <=> o \in Killers(r))
    <2> DEFINE S == {x \in all : KillerOf(x) = o}
    <2>1. IsFiniteSet(S)
      BY <1>2, FS_Subset
    <2>2. PICK n \in Nat : n = Cardinality(S)
      BY <2>1, FS_CardinalityType
    <2>3. n = 0 <=> S = {}
      BY <2>1, <2>2, FS_EmptySet
    <2>4. Kills(o, {r}) = n
      BY <2>2 DEF Kills, all
    <2>5. o # NoOne => (o \in Killers(r) <=> S # {})
      BY DEF Killers, all
    <2> QED
      BY <2>3, <2>4, <2>5
  <1>7. ASSUME NEW o
        PROVE  Deaths(o, {r}) = IF o \in DOMAIN out[r] THEN 1 ELSE 0
    <2>1. {x \in all : x[2] = o} = IF o \in DOMAIN out[r] THEN {<<r, o>>} ELSE {}
      BY <1>2, <1>3
    <2>2. Deaths(o, {r}) = Cardinality({x \in all : x[2] = o})
      BY DEF Deaths, all
    <2> QED
      BY <2>1, <2>2, FS_Singleton, FS_EmptySet
  <1> QED
    BY <1>5, <1>6, <1>7

\* Where an event has one round, and whoever killed is still in a squad, the
\* best row of the event is one of the best player of the round.
LEMMA BestOfTheRound ==
    ASSUME BoardFacts, NEW e \in Events, NEW r \in Rounds, Of(e) = {r},
           \A x \in Eliminations({r}) : KillerOf(x) = NoOne \/ Rostered(KillerOf(x), e)
    PROVE  MatchMvp(e) = RoundMvp(r)
  <1> DEFINE K == Killers(r)
             rows == {a \in PlayerRows(e) : a.kills > 0}
             k == [o \in K |-> Kills(o, {r})]
             d == [o \in K |-> Deaths(o, {r})]
             c == [o \in K |-> CallsignOf[o]]
  <1>1. \A a \in PlayerRows(e) :
            /\ a.player \in Operators
            /\ a.kills = Kills(a.player, {r}) /\ a.deaths = Deaths(a.player, {r})
    <2> SUFFICES ASSUME NEW m \in Ranks(e)
                 PROVE  LET a == PlayerRow(m) IN
                        /\ a.player \in Operators
                        /\ a.kills = Kills(a.player, {r}) /\ a.deaths = Deaths(a.player, {r})
      BY DEF PlayerRows
    <2>1. m[2] \in Operators
      BY RanksAreFinite
    <2> QED
      BY <2>1, RowSays
  <1>2. \A a \in rows : a.player \in K
    <2> SUFFICES ASSUME NEW a \in rows PROVE a.player \in K
      OBVIOUS
    <2>1. a.player \in Operators /\ Kills(a.player, {r}) > 0
      BY <1>1
    <2>2. a.player # NoOne
      BY <2>1, RosterConstants
    <2> QED
      BY <2>1, <2>2, OneRoundCounts
  <1>3. \A o \in K : \E a \in rows : a.player = o
    <2> SUFFICES ASSUME NEW o \in K PROVE \E a \in rows : a.player = o
      OBVIOUS
    <2>1. o \in Operators /\ o # NoOne /\ Rostered(o, e)
      BY OneRoundCounts DEF Killers
    <2>2. PICK q \in Squads : EventOfSquad(q) = e /\ o \in members[q]
      BY <2>1 DEF Rostered, SquadsOf
    <2>3. <<q, o>> \in Ranks(e)
      BY <2>1, <2>2 DEF Ranks
    <2>4. PlayerRow(<<q, o>>) \in PlayerRows(e) /\ PlayerRow(<<q, o>>).player = o
      BY <2>3, RowSays
    <2>5. Kills(o, {r}) > 0
      BY <2>1, OneRoundCounts
    <2> QED
      BY <1>1, <2>4, <2>5
  <1>4. CASE K = {}
    <2>1. rows = {}
      BY <1>2, <1>4
    <2> QED
      BY <1>4, <2>1, RoundMvpIs DEF MatchMvp
  <1>5. CASE K # {}
    <2>1. K \subseteq Operators /\ IsFiniteSet(K)
      BY OneRoundCounts
    <2>2. k \in [K -> Nat] /\ d \in [K -> Nat] /\ c \in [K -> Nat]
      <3>1. \A o : Kills(o, {r}) \in Nat /\ Deaths(o, {r}) \in {0, 1}
        BY OneRoundCounts
      <3>2. \A o \in K : CallsignOf[o] \in Nat
        BY <2>1, MatchConstants
      <3> HIDE DEF K
      <3> QED
        BY <3>1, <3>2
    <2>3. \A o \in K, p \in K : c[o] = c[p] => o = p
      BY <2>1, MatchConstants
    <2>4. \A o \in K, p \in K : First(r, o, p) <=> Better(k, d, c, o, p)
      <3> SUFFICES ASSUME NEW o \in K, NEW p \in K
                   PROVE  First(r, o, p) <=> Better(k, d, c, o, p)
        OBVIOUS
      <3>1. /\ d[o] = IF o \in DOMAIN out[r] THEN 1 ELSE 0
            /\ d[p] = IF p \in DOMAIN out[r] THEN 1 ELSE 0
            /\ k[o] = Kills(o, {r}) /\ k[p] = Kills(p, {r})
            /\ c[o] = CallsignOf[o] /\ c[p] = CallsignOf[p]
        BY OneRoundCounts
      <3> HIDE DEF k, d, c
      <3> QED
        BY <3>1 DEF First, Better
    <2>5. \A a \in rows, b \in rows : Ahead(a, b) <=> Better(k, d, c, a.player, b.player)
      BY <1>1, <1>2 DEF Ahead, Better
    <2> HIDE DEF k, d, c, K, rows
    <2>6. PICK o \in K : /\ \A p \in K : Better(k, d, c, o, p)
                         /\ \A q \in K : (\A p \in K : Better(k, d, c, q, p)) => q = o
      BY <1>5, <2>1, <2>2, <2>3, OneIsBest
    <2>7. RoundMvp(r) = o
      <3>1. RoundMvp(r) = CHOOSE q \in K : \A p \in K : First(r, q, p)
        BY <1>5, RoundMvpIs DEF K
      <3> QED
        BY <2>4, <2>6, <3>1
    <2>8. rows # {}
      BY <1>3, <1>5
    <2> DEFINE best == CHOOSE a \in rows : \A b \in rows : Ahead(a, b)
    <2>9. \E a \in rows : \A b \in rows : Ahead(a, b)
      <3>1. PICK a \in rows : a.player = o
        BY <1>3, <2>6
      <3> QED
        BY <1>2, <2>5, <2>6, <3>1
    <2>10. best \in rows /\ \A b \in rows : Ahead(best, b)
      BY <2>9
    <2>11. MatchMvp(e) = best.player
      BY <2>8 DEF MatchMvp, rows
    <2> HIDE DEF best
    <2>12. \A p \in K : Better(k, d, c, best.player, p)
      <3> SUFFICES ASSUME NEW p \in K PROVE Better(k, d, c, best.player, p)
        OBVIOUS
      <3>1. PICK b \in rows : b.player = p
        BY <1>3
      <3> QED
        BY <2>5, <2>10, <3>1
    <2> QED
      BY <1>2, <2>6, <2>7, <2>10, <2>11, <2>12
  <1> QED
    BY <1>4, <1>5

\* The scoreboard adds up, whatever is asked for in whatever order.
LEMMA BoardHolds ==
    ASSUME BoardFacts
    PROVE  BoardAddsUp
  <1> SUFFICES ASSUME NEW e \in Events
               PROVE  /\ \A t \in {u \in Teams : EventOf[u] = e} :
                            /\ TeamRow(t).kills =
                                  SumFunction([r \in {a \in PlayerRows(e) : a.team = t} |-> r.kills])
                            /\ TeamRow(t).deaths =
                                  SumFunction([r \in {a \in PlayerRows(e) : a.team = t} |-> r.deaths])
                      /\ \A r \in PlayerRows(e) : r.survived + r.deaths = Cardinality(Of(e))
                      /\ \A r \in Rounds :
                            Of(e) = {r} /\ (\A x \in Eliminations({r}) :
                                                KillerOf(x) = NoOne \/ Rostered(KillerOf(x), e))
                                => MatchMvp(e) = RoundMvp(r)
    BY DEF BoardAddsUp
  <1> QED
    BY TeamKills, TeamDeaths, SurvivorsAddUp, BestOfTheRound DEF TeamPlayers

-----------------------------------------------------------------------------
(* Ranking and analytics *)

LEMMA MissionsAreFinite ==
    ASSUME NEW o, NEW e
    PROVE  /\ IsFiniteSet(Completed(o, e)) /\ IsFiniteSet(Tried(o, e))
           /\ Completed(o, e) \subseteq Tried(o, e) /\ Tried(o, e) \subseteq Tasks
           /\ Cardinality(Completed(o, e)) \in Nat
           /\ Cardinality(Completed(o, e)) <= Cardinality(Tried(o, e))
           /\ Completed(o, e) = {} => Cardinality(Completed(o, e)) = 0
  <1>1. Completed(o, e) \subseteq Tried(o, e) /\ Tried(o, e) \subseteq Tasks
    BY DEF Completed, Tried
  <1>2. IsFiniteSet(Tried(o, e))
    BY <1>1, StandingConstants, FS_Subset
  <1>3. IsFiniteSet(Completed(o, e)) /\ Cardinality(Completed(o, e)) <= Cardinality(Tried(o, e))
    BY <1>1, <1>2, FS_Subset
  <1> QED
    BY <1>1, <1>2, <1>3, FS_CardinalityType, FS_EmptySet

LEMMA PointsAreNat ==
    ASSUME NEW ms \in SUBSET Tasks
    PROVE  PointsOf(ms) \in Nat /\ (ms = {} => PointsOf(ms) = 0)
  <1>1. PointsOf(ms) = SumOver(Points, ms)
    BY SumFunctionIs DEF PointsOf
  <1>2. IsFiniteSet(ms) /\ \A m \in ms : Points[m] \in Nat
    BY StandingConstants, FS_Subset
  <1> QED
    BY <1>1, <1>2, SumIsNat, SumOfNone

LEMMA MembersAreFinite ==
    ASSUME RosterTypeOK, NEW q \in Squads
    PROVE  members[q] \subseteq Operators /\ IsFiniteSet(members[q])
  <1>1. members[q] \subseteq Operators
    BY DEF RosterTypeOK
  <1> QED
    BY <1>1, StandingConstants, FS_Subset

\* Whoever is ranked is analysed, with the same numbers.
LEMMA RankedAreAnalysed ==
    ASSUME NEW e \in Events, NEW r \in RankedOperators(e)
    PROVE  \E a \in AnalysedOperators(e) :
              /\ a.operator = r.operator /\ a.squad = r.squad
              /\ a.points = r.points /\ a.completed = r.completed
  <1>1. PICK x \in Operators \X (Squads \cup {NoOne}) :
            /\ Completed(x[1], e) # {} /\ x[2] \in SquadOrNone(x[1], e)
            /\ r = [operator |-> x[1], squad |-> x[2], points |-> PointsOf(Completed(x[1], e)),
                    completed |-> Cardinality(Completed(x[1], e))]
    BY DEF RankedOperators
  <1>2. x[1] \in SeenIn(e)
    BY <1>1, MissionsAreFinite DEF SeenIn
  <1> DEFINE a == [operator |-> x[1], squad |-> x[2], tried |-> Cardinality(Tried(x[1], e)),
                   completed |-> Cardinality(Completed(x[1], e)),
                   points |-> PointsOf(Completed(x[1], e)),
                   fixes |-> Cardinality(FixesBy(x[1], e))]
  <1>3. a \in AnalysedOperators(e)
    <2>1. x \in {y \in SeenIn(e) \X (Squads \cup {NoOne}) : y[2] \in SquadOrNone(y[1], e)}
      BY <1>1, <1>2
    <2> QED
      BY <2>1 DEF AnalysedOperators
  <1> QED
    BY <1>1, <1>3

LEMMA CompletedAreTried ==
    ASSUME NEW e, NEW a \in AnalysedOperators(e)
    PROVE  a.completed <= a.tried
  <1>1. PICK x \in SeenIn(e) \X (Squads \cup {NoOne}) :
            /\ a.tried = Cardinality(Tried(x[1], e))
            /\ a.completed = Cardinality(Completed(x[1], e))
    BY DEF AnalysedOperators
  <1> QED
    BY <1>1, MissionsAreFinite

\* What the members of a squad have in its event.
LEMMA SquadPointsAre ==
    ASSUME RosterTypeOK, NEW e \in Events, NEW q \in Squads, EventOfSquad(q) = e,
           NEW g, g = [o \in members[q] |-> PointsOf(Completed(o, e))]
    PROVE  /\ RankedSquad(q).points = SumOver(g, members[q])
           /\ AnalysedSquad(q).points = RankedSquad(q).points
           /\ \A o \in members[q] : /\ g[o] \in Nat
                                    /\ Completed(o, e) = {} => g[o] = 0
  <1>1. SumFunction(g) = SumOver(g, members[q])
    BY SumFunctionIs
  <1>2. RankedSquad(q).points = SumFunction(g) /\ AnalysedSquad(q).points = SumFunction(g)
    BY DEF RankedSquad, AnalysedSquad
  <1>3. \A o : Completed(o, e) \in SUBSET Tasks
    BY MissionsAreFinite
  <1> QED
    BY <1>1, <1>2, <1>3, PointsAreNat

RankedIn(q, e) == {a \in RankedOperators(e) : a.squad = q}

\* The points of a squad are those of the rows of its members.
LEMMA SquadPointsAddUp ==
    ASSUME RosterTypeOK, NEW e \in Events, NEW q \in Squads, EventOfSquad(q) = e
    PROVE  RankedSquad(q).points = SumFunction([r \in RankedIn(q, e) |-> r.points])
  <1> DEFINE M == members[q]
             N == {o \in M : Completed(o, e) # {}}
             rows == RankedIn(q, e)
             g == [o \in M |-> PointsOf(Completed(o, e))]
             h == [r \in rows |-> r.points]
             f == [o \in N |-> [operator |-> o, squad |-> q, points |-> PointsOf(Completed(o, e)),
                                completed |-> Cardinality(Completed(o, e))]]
  <1>1. M \subseteq Operators /\ IsFiniteSet(M)
    BY MembersAreFinite
  <1>2. IsFiniteSet(N)
    BY <1>1, FS_Subset
  <1>3. \A o \in M : g[o] \in Nat /\ (Completed(o, e) = {} => g[o] = 0)
    BY SquadPointsAre
  <1>4. q # NoOne
    BY StandingConstants
  <1>5. \A o \in Operators : q \in SquadOrNone(o, e) <=> o \in M
    BY <1>4 DEF SquadOrNone
  <1>6. \A o \in N : f[o] \in rows
    <2> SUFFICES ASSUME NEW o \in N PROVE f[o] \in RankedOperators(e) /\ f[o].squad = q
      BY DEF RankedIn
    <2> DEFINE x == <<o, q>>
    <2>1. /\ x \in Operators \X (Squads \cup {NoOne}) /\ x[1] = o /\ x[2] = q
          /\ Completed(x[1], e) # {} /\ x[2] \in SquadOrNone(x[1], e)
      BY <1>1, <1>5
    <2>2. f[o] = [operator |-> x[1], squad |-> x[2], points |-> PointsOf(Completed(x[1], e)),
                  completed |-> Cardinality(Completed(x[1], e))]
      OBVIOUS
    <2> HIDE DEF x
    <2> QED
      BY <2>1, <2>2 DEF RankedOperators
  <1>7. \A r \in rows : \E o \in N : f[o] = r
    <2> SUFFICES ASSUME NEW r \in rows PROVE \E o \in N : f[o] = r
      OBVIOUS
    <2>1. PICK x \in Operators \X (Squads \cup {NoOne}) :
              /\ Completed(x[1], e) # {} /\ x[2] \in SquadOrNone(x[1], e)
              /\ r = [operator |-> x[1], squad |-> x[2], points |-> PointsOf(Completed(x[1], e)),
                      completed |-> Cardinality(Completed(x[1], e))]
      BY DEF RankedIn, RankedOperators
    <2>2. x[2] = q
      BY <2>1 DEF RankedIn
    <2>3. x[1] \in N
      BY <1>5, <2>1, <2>2
    <2> QED
      BY <2>1, <2>2, <2>3
  <1>8. \A o \in N, p \in N : f[o] = f[p] => o = p
    OBVIOUS
  <1>9. \A o \in N : h[f[o]] = g[o]
    BY <1>6
  <1>10. RankedSquad(q).points = SumOver(g, M) /\ SumFunction(h) = SumOver(h, rows)
    BY SquadPointsAre, SumFunctionIs
  <1>11. N \in SUBSET M /\ \A o \in M \ N : g[o] = 0
    BY <1>3
  <1>12. \A o \in M : g[o] \in Int
    BY <1>3
  <1>13. \A o \in N : g[o] \in Int /\ h[f[o]] = g[o]
    BY <1>9, <1>12
  <1> HIDE DEF M, N, rows, g, h, f
  <1>14. SumOver(g, M) = SumOver(g, N)
    BY <1>1, <1>11, <1>12, SumOfSome
  <1>15. SumOver(g, N) = SumOver(h, rows)
    BY <1>2, <1>6, <1>8, <1>7, <1>13, SumRenamed
  <1> QED
    BY <1>10, <1>14, <1>15 DEF h, rows

\* What a squad completed in its event is part of what it completed anywhere.
LEMMA SquadCompletedElsewhere ==
    ASSUME RosterTypeOK, NEW e \in Events, NEW q \in Squads, EventOfSquad(q) = e
    PROVE  AnalysedSquad(q).completed <= RankedSquad(q).completed
  <1> DEFINE M == members[q]
             all == M \X Events
             here == M \X {e}
             g == [o \in M |-> Cardinality(Completed(o, e))]
             h == [x \in all |-> Cardinality(Completed(x[1], x[2]))]
             f == [o \in M |-> <<o, e>>]
  <1>1. IsFiniteSet(M)
    BY MembersAreFinite
  <1>2. IsFiniteSet(all) /\ here \in SUBSET all
    BY <1>1, StandingConstants, FS_Product
  <1>3. \A x \in all : h[x] \in Nat
    BY MissionsAreFinite
  <1>4. \A o \in M : f[o] \in here /\ g[o] \in Int /\ h[f[o]] = g[o]
    BY MissionsAreFinite
  <1>5. (\A o \in M, p \in M : f[o] = f[p] => o = p) /\ (\A x \in here : \E o \in M : f[o] = x)
    OBVIOUS
  <1>6. /\ AnalysedSquad(q).completed = SumOver(g, M)
        /\ RankedSquad(q).completed = SumOver(h, all)
    <2>1. SumFunction(g) = SumOver(g, M) /\ SumFunction(h) = SumOver(h, all)
      BY SumFunctionIs
    <2>2. AnalysedSquad(q).completed = SumFunction(g) /\ RankedSquad(q).completed = SumFunction(h)
      BY DEF AnalysedSquad, RankedSquad
    <2> QED
      BY <2>1, <2>2
  <1> HIDE DEF M, all, here, g, h, f
  <1>7. SumOver(g, M) = SumOver(h, here)
    BY <1>1, <1>4, <1>5, SumRenamed
  <1>8. SumOver(h, here) <= SumOver(h, all)
    BY <1>2, <1>3, SumOfFewer
  <1> QED
    BY <1>6, <1>7, <1>8

TeamMembers(t) == {m \in Squads \X Operators : TeamOf[m[1]] = t /\ m[2] \in members[m[1]]}
TeamSquads(t, e) == {q \in SquadsIn(e) : TeamOf[q] = t}

\* The points of a team are those of its squads.
LEMMA TeamPointsAddUp ==
    ASSUME RosterTypeOK, NEW e \in Events, NEW t \in Teams, EventOf[t] = e
    PROVE  RankedTeam(t).points = SumFunction([q \in TeamSquads(t, e) |-> RankedSquad(q).points])
  <1> DEFINE D == TeamMembers(t)
             T == TeamSquads(t, e)
             g == [m \in D |-> PointsOf(Completed(m[2], e))]
             h == [q \in T |-> RankedSquad(q).points]
             k == [m \in D |-> m[1]]
  <1>1. IsFiniteSet(D)
    BY StandingConstants, FS_Product, FS_Subset DEF TeamMembers
  <1>2. IsFiniteSet(T)
    BY StandingConstants, FS_Subset DEF TeamSquads, SquadsIn
  <1>3. \A m \in D : k[m] \in T
    <2> SUFFICES ASSUME NEW m \in D PROVE m[1] \in T
      OBVIOUS
    <2>1. m[1] \in Squads /\ TeamOf[m[1]] = t /\ m[2] \in members[m[1]]
      BY DEF TeamMembers
    <2>2. Exists(m[1])
      BY <2>1 DEF RosterTypeOK
    <2> QED
      BY <2>1, <2>2 DEF TeamSquads, SquadsIn, EventOfSquad
  <1>4. \A m \in D : g[m] \in Int
    <2>1. \A o : Completed(o, e) \in SUBSET Tasks
      BY MissionsAreFinite
    <2> QED
      BY <2>1, PointsAreNat
  <1>5. ASSUME NEW q \in T
        PROVE  h[q] = SumOver(g, Keyed(k, D, q))
    <2> DEFINE M == members[q]
               i == [o \in M |-> PointsOf(Completed(o, e))]
               f == [o \in M |-> <<q, o>>]
               part == Keyed(k, D, q)
    <2>1. q \in Squads /\ EventOfSquad(q) = e /\ TeamOf[q] = t
      BY DEF TeamSquads, SquadsIn
    <2>2. M \subseteq Operators /\ IsFiniteSet(M)
      BY <2>1, MembersAreFinite
    <2>3. \A o \in M : f[o] \in D /\ f[o] \in part
      BY <2>1, <2>2 DEF TeamMembers, Keyed
    <2>4. \A m \in part : \E o \in M : f[o] = m
      BY DEF TeamMembers, Keyed
    <2>5. \A o \in M, p \in M : f[o] = f[p] => o = p
      OBVIOUS
    <2>6. RankedSquad(q).points = SumOver(i, M) /\ \A o \in M : i[o] \in Nat
      BY <2>1, SquadPointsAre
    <2>7. \A o \in M : i[o] \in Int /\ g[f[o]] = i[o]
      <3>1. \A o \in M : g[f[o]] = i[o]
        BY <2>3
      <3> HIDE DEF M, i, f, g
      <3> QED
        BY <2>6, <3>1
    <2>8. h[q] = RankedSquad(q).points
      OBVIOUS
    <2> HIDE DEF M, i, f, part, g, h, D, T, k
    <2>9. SumOver(i, M) = SumOver(g, part)
      BY <2>2, <2>3, <2>4, <2>5, <2>7, SumRenamed
    <2> QED
      BY <2>6, <2>8, <2>9 DEF part
  <1>6. RankedTeam(t).points = SumOver(g, D) /\ SumFunction(h) = SumOver(h, T)
    <2>1. SumFunction(g) = SumOver(g, D) /\ SumFunction(h) = SumOver(h, T)
      BY SumFunctionIs
    <2>2. RankedTeam(t).points = SumFunction(g)
      BY DEF RankedTeam, TeamMembers
    <2> QED
      BY <2>1, <2>2
  <1> HIDE DEF D, T, g, h, k
  <1>7. SumOver(g, D) = SumOver(h, T)
    BY <1>1, <1>2, <1>3, <1>4, <1>5, SumByKey
  <1> QED
    BY <1>6, <1>7 DEF h, T

MissionsOf(e) == {m \in Tasks : In(m, e)}
Counted(e) == Participants(e) \cup {o \in Operators : SquadOrNone(o, e) = {}}

\* What was completed in an event, counted by mission and by operator.
LEMMA CompletionsAddUp ==
    ASSUME NEW e \in Events
    PROVE  SumFunction([m \in MissionsOf(e) |-> Completions(m)]) =
               SumFunction([o \in Counted(e) |-> Cardinality(Completed(o, e))])
  <1> DEFINE B == MissionsOf(e)
             D == {p \in Operators \X B : progress[<<p[1], p[2]>>] = "COMPLETED"}
             P == Counted(e)
             h == [m \in B |-> Completions(m)]
             g == [o \in Operators |-> Cardinality(Completed(o, e))]
             i == [o \in P |-> Cardinality(Completed(o, e))]
  <1>1. IsFiniteSet(Operators) /\ IsFiniteSet(B)
    BY StandingConstants, FS_Subset DEF MissionsOf
  <1>2. \A m \in B : h[m] = Cardinality(PairedWith(D, Operators, m))
    <2> SUFFICES ASSUME NEW m \in B
                 PROVE  PairedWith(D, Operators, m) =
                            {o \in Operators : progress[<<o, m>>] = "COMPLETED"}
      BY DEF Completions
    <2> QED
      BY DEF PairedWith
  <1>3. \A o \in Operators : g[o] = Cardinality(PairedFrom(D, B, o))
    <2> SUFFICES ASSUME NEW o \in Operators PROVE PairedFrom(D, B, o) = Completed(o, e)
      OBVIOUS
    <2> QED
      BY DEF PairedFrom, Completed, MissionsOf
  <1>4. P \in SUBSET Operators
    <2>1. \A a \in AnalysedOperators(e) : a.operator \in Operators
      BY DEF AnalysedOperators, SeenIn
    <2> QED
      BY <2>1 DEF Counted, Participants
  <1>5. \A o \in Operators \ P : g[o] = 0
    <2> SUFFICES ASSUME NEW o \in Operators, o \notin P PROVE Completed(o, e) = {}
      BY MissionsAreFinite
    <2> SUFFICES ASSUME Completed(o, e) # {} PROVE FALSE
      OBVIOUS
    <2>1. o \in SeenIn(e)
      BY MissionsAreFinite DEF SeenIn
    <2>2. PICK q \in SquadOrNone(o, e) : TRUE
      BY DEF Counted
    <2>3. q \in Squads \cup {NoOne}
      BY <2>2 DEF SquadOrNone
    <2> DEFINE x == <<o, q>>
               a == [operator |-> x[1], squad |-> x[2], tried |-> Cardinality(Tried(x[1], e)),
                     completed |-> Cardinality(Completed(x[1], e)),
                     points |-> PointsOf(Completed(x[1], e)),
                     fixes |-> Cardinality(FixesBy(x[1], e))]
    <2>4. x \in {y \in SeenIn(e) \X (Squads \cup {NoOne}) : y[2] \in SquadOrNone(y[1], e)}
      BY <2>1, <2>2, <2>3
    <2>5. a.operator = o
      OBVIOUS
    <2>6. a \in AnalysedOperators(e)
      <3> HIDE DEF x
      <3> QED
        BY <2>4 DEF AnalysedOperators
    <2> QED
      BY <2>5, <2>6 DEF Counted, Participants
  <1>6. \A o \in Operators : g[o] \in Int
    BY MissionsAreFinite
  <1>7. SumFunction(h) = SumOver(h, B) /\ SumFunction(i) = SumOver(i, P)
    BY SumFunctionIs
  <1>8. D \in SUBSET (Operators \X B) /\ \A o \in P : g[o] = i[o]
    BY <1>4
  <1> HIDE DEF B, D, P, h, g, i
  <1>9. Cardinality(D) = SumOver(h, B)
    BY <1>1, <1>2, <1>8, CountPairs
  <1>10. Cardinality(D) = SumOver(g, Operators)
    BY <1>1, <1>3, <1>8, CountPairsFirst
  <1>11. SumOver(g, Operators) = SumOver(g, P)
    BY <1>1, <1>4, <1>5, <1>6, SumOfSome
  <1>12. SumOver(g, P) = SumOver(i, P)
    <2>1. IsFiniteSet(P)
      BY <1>1, <1>4, FS_Subset
    <2> QED
      BY <1>8, <2>1, SameSum
  <1> QED
    BY <1>7, <1>9, <1>10, <1>11, <1>12 DEF h, B, i, P

LEMMA StandingsHold ==
    ASSUME RosterTypeOK
    PROVE  StandingsAgree
  <1> SUFFICES ASSUME NEW e \in Events
               PROVE  /\ \A r \in RankedOperators(e) : \E a \in AnalysedOperators(e) :
                            /\ a.operator = r.operator /\ a.squad = r.squad
                            /\ a.points = r.points /\ a.completed = r.completed
                      /\ \A a \in AnalysedOperators(e) : a.completed <= a.tried
                      /\ \A q \in SquadsIn(e) :
                            /\ RankedSquad(q).points = AnalysedSquad(q).points
                            /\ RankedSquad(q).points = SumFunction([r \in RankedIn(q, e) |-> r.points])
                            /\ AnalysedSquad(q).completed <= RankedSquad(q).completed
                      /\ \A t \in {u \in Teams : EventOf[u] = e} :
                            RankedTeam(t).points =
                               SumFunction([q \in TeamSquads(t, e) |-> RankedSquad(q).points])
                      /\ SumFunction([m \in MissionsOf(e) |-> Completions(m)]) =
                            SumFunction([o \in Counted(e) |-> Cardinality(Completed(o, e))])
    BY DEF StandingsAgree, RankedIn, TeamSquads, MissionsOf, Counted
  <1>1. \A q \in SquadsIn(e) : q \in Squads /\ EventOfSquad(q) = e
    BY DEF SquadsIn
  <1>2. \A q \in SquadsIn(e) : RankedSquad(q).points = AnalysedSquad(q).points
    BY <1>1, SquadPointsAre
  <1> QED
    BY <1>1, <1>2, RankedAreAnalysed, CompletedAreTried, SquadPointsAddUp, SquadCompletedElsewhere,
       TeamPointsAddUp, CompletionsAddUp

\* In whatever state the calls of all services leave the database: team rows of
\* the scoreboard add up its player rows, the rounds of a player are survived or
\* died in, and both queries for the best player agree on an event of one round
\* whose killers are rostered.  Whoever is ranked is analysed with the same
\* points and completions; points add up from members to squads to teams, while
\* completions of a squad are only compared one way, since the ranking counts
\* those of every event; the export counts the completions of participants and of
\* those who are in no squad of the event.
THEOREM ViewsAlwaysAgree == PlatformSpec => []ViewsAgree
  <1>1. PlatformInit => VictimsKnown
    BY DEF PlatformInit, VictimsKnown
  <1>2. PlatformInv /\ VictimsKnown /\ [PlatformNext]_allVars => VictimsKnown'
    BY VictimsKnownNext DEF PlatformInv
  <1>3. PlatformInv /\ VictimsKnown => ViewsAgree
    BY BoardHolds, StandingsHold DEF ViewsAgree, BoardFacts, PlatformInv, RosterInv
  <1> QED
    BY PlatformAlways, <1>1, <1>2, <1>3, PTL DEF PlatformSpec
=============================================================================
