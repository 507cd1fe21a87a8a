------------------------------ MODULE Standings ------------------------------
(***************************************************************************)
(* RankingService, AnalyticsService and AarService (src/modules/ranking,   *)
(* analytics, aar): what an event came to.  Each view joins the progress   *)
(* rows and fixes of operators with the roster of the event, in a query of *)
(* its own.  An operator may play in several events, and in no squad.  The *)
(* LIMIT of the rankings and the filters of getPositions are left out.     *)
(***************************************************************************)
EXTENDS Roster, Missions, FiniteSetsExt

CONSTANTS
    Points,         \* points_reward of each mission
    MaxTime,        \* bound: times at which fixes are recorded
    PageSize,       \* rows on a page of getPositions
    FixesOf,        \* the event whose positions are reviewed,
    Tracked         \* and whose fixes arrive meanwhile

ASSUME StandingConstants ==
    /\ PageSize \in Nat \ {0} /\ MaxTime \in Nat
    /\ FixesOf \in Events
    /\ NoOne \notin Squads
    /\ IsFiniteSet(Operators) /\ IsFiniteSet(Squads)
    /\ IsFiniteSet(Events) /\ IsFiniteSet(Tasks)
    /\ Points \in [Tasks -> Nat]

VARIABLES
    progress,   \* progress[<<o, m>>]: "none", IN_PROGRESS or COMPLETED
    fixes,      \* position_history of FixesOf: pairs of an operator and a time
    review      \* a client that pages through getPositions

standingVars == <<progress, fixes, review>>

NoReview == [on |-> FALSE, cursor |-> 0, start |-> {}, seen |-> {}, count |-> 0]

-----------------------------------------------------------------------------
(* Joins *)

In(m, e) == There(m) /\ plan[m].event = e
Tried(o, e) == {m \in Tasks : In(m, e) /\ progress[<<o, m>>] # "none"}
Completed(o, e) == {m \in Tasks : In(m, e) /\ progress[<<o, m>>] = "COMPLETED"}
PointsOf(ms) == SumFunctionOnSet(Points, ms)

\* LEFT JOIN squad_members, squads, and teams of the event, WHERE s.id IS NULL
\* OR t.id IS NOT NULL: one row per squad of the event, one without a squad
\* for who is in none at all, and no row for who is only in others.
SquadOrNone(o, e) ==
    LET all == {q \in Squads : o \in members[q]} IN
    IF all = {} THEN {NoOne} ELSE {q \in all : EventOfSquad(q) = e}

SquadsIn(e) == {q \in Squads : Exists(q) /\ EventOfSquad(q) = e}

-----------------------------------------------------------------------------
(* RankingService *)

RankedOperators(e) ==
    {[operator |-> x[1], squad |-> x[2], points |-> PointsOf(Completed(x[1], e)),
      completed |-> Cardinality(Completed(x[1], e))] :
        x \in {y \in Operators \X (Squads \cup {NoOne}) :
                  Completed(y[1], e) # {} /\ y[2] \in SquadOrNone(y[1], e)}}

\* Mutant of RankedSquad: the missions are not joined by their event.
RankedSquadEverywhere(q) ==
    [points |-> SumFunction([x \in members[q] \X Events |-> PointsOf(Completed(x[1], x[2]))]),
     completed |-> SumFunction([x \in members[q] \X Events |-> Cardinality(Completed(x[1], x[2]))])]

\* The points are those of the event; COUNT(mp.id) counts what the members
\* completed in any event.
RankedSquad(q) ==
    [points |-> SumFunction([o \in members[q] |-> PointsOf(Completed(o, EventOfSquad(q)))]),
     completed |-> SumFunction([x \in members[q] \X Events |-> Cardinality(Completed(x[1], x[2]))])]

RankedTeam(t) ==
    LET ranks == {m \in Squads \X Operators : TeamOf[m[1]] = t /\ m[2] \in members[m[1]]} IN
    [points |-> SumFunction([m \in ranks |-> PointsOf(Completed(m[2], EventOf[t]))]),
     completed |-> SumFunction([x \in ranks \X Events |-> Cardinality(Completed(x[1][2], x[2]))])]

-----------------------------------------------------------------------------
(* AnalyticsService *)

FixesBy(o, e) == {f \in fixes : e = FixesOf /\ f[1] = o}
SeenIn(e) == {o \in Operators : FixesBy(o, e) # {} \/ Tried(o, e) # {}}

AnalysedOperators(e) ==
    {[operator |-> x[1], squad |-> x[2], tried |-> Cardinality(Tried(x[1], e)),
      completed |-> Cardinality(Completed(x[1], e)), points |-> PointsOf(Completed(x[1], e)),
      fixes |-> Cardinality(FixesBy(x[1], e))] :
        x \in {y \in SeenIn(e) \X (Squads \cup {NoOne}) : y[2] \in SquadOrNone(y[1], e)}}

AnalysedSquad(q) ==
    LET e == EventOfSquad(q) IN
    [tried |-> SumFunction([o \in members[q] |-> Cardinality(Tried(o, e))]),
     completed |-> SumFunction([o \in members[q] |-> Cardinality(Completed(o, e))]),
     points |-> SumFunction([o \in members[q] |-> PointsOf(Completed(o, e))]),
     fixes |-> SumFunction([o \in members[q] |-> Cardinality(FixesBy(o, e))])]

\* exportEvent: completions of a mission by anybody, and participants.
Completions(m) == Cardinality({o \in Operators : progress[<<o, m>>] = "COMPLETED"})
Participants(e) == {r.operator : r \in AnalysedOperators(e)}

-----------------------------------------------------------------------------
(* AarService.getPositions, one page after the other while fixes arrive    *)

\* The engine starts or completes a mission, the processor stores a fix.
Advance(o, m) ==
    /\ There(m) /\ progress[<<o, m>>] # "COMPLETED"
    /\ progress' = [progress EXCEPT ![<<o, m>>] =
                       IF @ = "none" THEN "IN_PROGRESS" ELSE "COMPLETED"]
    /\ UNCHANGED <<fixes, review>>

StoreFix(f) ==
    /\ f \notin fixes
    /\ fixes' = fixes \cup {f}
    /\ UNCHANGED <<progress, review>>

StartReview ==
    /\ ~review.on
    /\ review' = [NoReview EXCEPT !.on = TRUE, !.start = fixes]
    /\ UNCHANGED <<progress, fixes>>

\* Mutant of NextCursor: the cursor is the row fetched beyond the page.
NextCursorBeyond(page, rest) == Min({f[2] : f \in rest})

\* The last row's recordedAt.
NextCursor(page, rest) == Max({f[2] : f \in page})

\* The page is the first rows after the cursor, in an order that leaves ties
\* open; there is a next one if the query found one row more.
ReadPage ==
    LET rows == {f \in fixes : f[2] > review.cursor} IN
    /\ review.on
    /\ \E page \in SUBSET rows :
          LET rest == rows \ page IN
          /\ Cardinality(page) = Min({PageSize, Cardinality(rows)})
          /\ \A f \in page, g \in rest : f[2] <= g[2]
          /\ review' = [review EXCEPT !.on = rest # {},
                                      !.cursor = IF rest = {} THEN @ ELSE NextCursor(page, rest),
                                      !.seen = @ \cup page,
                                      !.count = @ + Cardinality(page)]
    /\ UNCHANGED <<progress, fixes>>

Playing == \E o \in Operators, m \in Tasks : Advance(o, m)

Reviewing ==
    \/ \E f \in Tracked \X (1..MaxTime) : StoreFix(f)
    \/ StartReview
    \/ ReadPage

\* Progress rows go with their mission, fixes with their event.
StandingCascade ==
    /\ progress' = [x \in Operators \X Tasks |->
                       IF plan'[x[2]].state = "there" THEN progress[x] ELSE "none"]
    /\ fixes' = IF status'[FixesOf] = "deleted" THEN {} ELSE fixes
    /\ UNCHANGED review

-----------------------------------------------------------------------------
(* Properties *)

\* Ranking and analytics compute points in queries of their own, from joins
\* that multiply rows, and must agree for every operator and squad; a team has
\* the points of its squads, a squad those of its members ("an operator would
\* appear in multiple squad rows but never inflate their own point total"),
\* everybody ranked is analysed; and the completions of an event's missions in
\* the export are those of its participants, and of operators whose only squads
\* are in other events.
StandingsAgree ==
    \A e \in {f \in Events : \E o \in Operators : Tried(o, f) # {}} :
        LET ranked == RankedOperators(e)
            analysed == AnalysedOperators(e)
        IN  /\ \A r \in ranked : \E a \in analysed :
                  /\ a.operator = r.operator /\ a.squad = r.squad
                  /\ a.points = r.points /\ a.completed = r.completed
            /\ \A a \in analysed : a.completed <= a.tried
            /\ \A q \in SquadsIn(e) :
                  /\ RankedSquad(q).points = AnalysedSquad(q).points
                  /\ RankedSquad(q).points =
                        SumFunction([r \in {a \in ranked : a.squad = q} |-> r.points])
                  /\ AnalysedSquad(q).completed <= RankedSquad(q).completed
            /\ \A t \in {u \in Teams : EventOf[u] = e} :
                  RankedTeam(t).points =
                     SumFunction([q \in {p \in SquadsIn(e) : TeamOf[p] = t} |->
                                     RankedSquad(q).points])
            /\ SumFunction([m \in {n \in Tasks : In(n, e)} |-> Completions(m)]) =
                  SumFunction([o \in Participants(e) \cup {p \in Operators : SquadOrNone(p, e) = {}} |->
                                  Cardinality(Completed(o, e))])

\* "If [collisions] happen, the only consequence is a single dropped row, never
\* duplicates": no row is on two pages, whatever arrives in between; and once
\* the last page is read, every fix that was there when the first one was, and
\* that shares its time with no other, has been on one.
PagesMissOnlyTies ==
    /\ Cardinality(review.seen) = review.count
    /\ ~review.on /\ review.count > 0 =>
          \A f \in review.start \ review.seen : \E g \in fixes : g # f /\ g[2] = f[2]
=============================================================================
