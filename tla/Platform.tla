------------------------------ MODULE Platform ------------------------------
(***************************************************************************)
(* The services around an event, together: events and roster, rounds,      *)
(* missions and zones, training, voice and MQTT grants, standings and the  *)
(* review, profiles and friends, anti-cheat and reputation.  They meet in  *)
(* the database: a call of one service relies on rows that another one     *)
(* changes meanwhile, and what is deleted takes the rows of the others     *)
(* along.                                                                  *)
(*                                                                         *)
(* A behaviour plays one scene, which says what is asked for in it, about  *)
(* whom, and how many calls are handled at a time, so that the instances   *)
(* of the services add up instead of multiplying.                          *)
(***************************************************************************)
EXTENDS Matches, Training, Access, Standings, Social, Conduct

CONSTANTS
    Scenes,     \* of the form [parts, calls, cast, slots]
    Start       \* where a scene starts: an event day under way

\* The day starts from rows that have their parents and names of their own, an
\* operator is in one squad of an event, and an event in one round; and the event
\* whose positions are reviewed has begun.
ASSUME StartConstants ==
    /\ Start.status \in [Events -> EventStatuses]
    /\ \A t \in Teams : Start.status[EventOf[t]] \notin {"none", "deleted"}
    /\ Start.status[FixesOf] \in {"ACTIVE", "ENDED"}
    /\ Start.members \in [Squads -> SUBSET Operators]
    /\ \A p, q \in Squads : EventOfSquad(p) = EventOfSquad(q) /\ p # q =>
          Start.members[p] \cap Start.members[q] = {}
    /\ Start.round \in [Rounds -> [status : {"none", "ACTIVE"} \cup Over,
                                   winner : Teams \cup {NoOne}]]
    /\ \A r \in Rounds :
          /\ Start.round[r].status = "none" => Start.round[r].winner = NoOne
          /\ Start.round[r].status # "none" => Start.status[r[1]] \notin {"none", "deleted"}
    /\ \A e \in Events : \A n, m \in 1..MaxRounds :
          Start.round[<<e, n>>].status = "ACTIVE" /\ Start.round[<<e, m>>].status = "ACTIVE" => n = m
    /\ Start.plan \in [Places -> [state : {"there"}, event : Events, name : PlaceNames,
                                  zone : Zones \cup {Nowhere}, rev : {0}]
                               \cup {Blank("unused")}]
    /\ \A p \in Places : Start.plan[p].state = "there" =>
          /\ Start.status[Start.plan[p].event] \notin {"none", "deleted"}
          /\ Start.plan[p].zone # Nowhere =>
                /\ p \in Tasks /\ Start.plan[Start.plan[p].zone].state = "there"
                /\ Start.plan[Start.plan[p].zone].event = Start.plan[p].event
    /\ \A p, q \in Places :
          /\ Start.plan[p].state = "there" /\ Start.plan[q].state = "there"
          /\ Start.plan[p].event = Start.plan[q].event /\ Start.plan[p].name = Start.plan[q].name
          /\ (p \in Zones) = (q \in Zones)
          => p = q
    /\ DOMAIN Start.unit = Units /\ Start.unit = [u \in Units |-> Start.unit[u]]
    /\ Start.assigned \subseteq {u \in Units : Start.unit[u] \notin {"unused", "gone"}} \X Instructors
    /\ Start.course \in [Courses -> [state : {"there"}, unit : Units,
                                     starts : Hours, ends : Hours \cup {None}]
                                  \cup {NoCourse("unused")}]
    /\ \A k \in Courses : Start.course[k].state = "there" =>
          /\ Start.unit[Start.course[k].unit] \notin {"unused", "gone"}
          /\ InOrder(Start.course[k].starts, Start.course[k].ends)
    /\ Start.callsign \in [People -> Callsigns \cup {NoName}]
    /\ \A u, v \in People :
          Start.callsign[u] = Start.callsign[v] /\ Start.callsign[u] # NoName => u = v

VARIABLE scene

allVars ==
    <<scene, doing, contended, eventVars, rosterVars, matchVars, plan, trainingVars, grant,
      standingVars, socialVars, conductVars>>

PlatformInit ==
    /\ scene \in Scenes
    /\ SlotInit
    /\ status = Start.status
    /\ footprint = [e \in Events |-> 0]
    /\ team = [t \in Teams |-> "exists"]
    /\ squad = [q \in Squads |-> "ACTIVE"]
    /\ leader = [q \in Squads |-> NoOne]
    /\ members = Start.members
    /\ round = Start.round
    /\ out = [r \in Rounds |-> <<>>]
    /\ plan = Start.plan
    /\ unit = Start.unit
    /\ assigned = Start.assigned
    /\ course = Start.course
    /\ exercise = [x \in Exercises |-> NoExercise("unused")]
    /\ grant = NoGrant
    /\ progress = [x \in Operators \X Tasks |-> "none"]
    /\ fixes = {}
    /\ review = NoReview
    /\ callsign = Start.callsign
    /\ SocialInit
    /\ ConductInit

-----------------------------------------------------------------------------

On(part) == part \in scene.parts

Parties == {"squad", "operator", "user", "room", "place", "victim", "from", "to",
            "unit", "actor", "lesson"}

\* Only what the scene asks for is begun, about its cast, and no more of it at
\* a time than it says.
Begun ==
    /\ \A s \in Slots : doing[s] = Idle /\ doing'[s] # Idle =>
          /\ doing'[s].kind \in scene.calls
          /\ \A f \in DOMAIN doing'[s] \cap Parties : doing'[s][f] \in scene.cast
    /\ Cardinality({s \in Slots : doing'[s] # Idle}) <= scene.slots

\* The roster and events move, and what hangs on them goes along.
RosterMove ==
    /\ \/ EventMove
       \/ scene.calls \cap (TeamKinds \cup SquadKinds) # {} /\ \E s \in Slots : RosterStep(s)
    /\ Begun
    /\ MatchCascade /\ PlaceCascade /\ TrainingCascade /\ StandingCascade
    /\ UNCHANGED <<grant, socialVars>>

Contests(s) ==
    /\ On("rounds") /\ MatchStep(s)
    /\ UNCHANGED <<plan, trainingVars, grant, standingVars, socialVars>>

Grounds(s) ==
    /\ On("places") /\ PlaceStep(s) /\ StandingCascade
    /\ UNCHANGED <<rosterVars, matchVars, trainingVars, grant, socialVars>>

Lessons(s) ==
    /\ On("training") /\ TrainingStep(s)
    /\ UNCHANGED <<rosterVars, matchVars, plan, grant, standingVars, socialVars>>

Grants(s) ==
    /\ On("access") /\ AccessStep(s)
    /\ UNCHANGED <<matchVars, plan, trainingVars, standingVars, socialVars>>

Meetings(s) ==
    /\ On("social") /\ SocialStep(s)
    /\ UNCHANGED <<eventVars, rosterVars, matchVars, plan, trainingVars, grant, standingVars>>

\* What takes one query or transaction.
AtOnce ==
    /\ \/ On("standings") /\ Playing /\ UNCHANGED socialVars
       \/ On("review") /\ Reviewing /\ UNCHANGED socialVars
       \/ On("feed") /\ (\E u \in Profiled \cap scene.cast : FeedStep(u)) /\ UNCHANGED standingVars
    /\ UNCHANGED <<doing, contended, eventVars, rosterVars, matchVars, plan, trainingVars, grant>>

Watch ==
    /\ \/ On("conduct") /\ ConductNext /\ stored' \ stored \subseteq scene.cast
       \/ On("reputation") /\ (\E e \in ManualEntries : RecordEntry(e))
    /\ UNCHANGED <<doing, contended, eventVars, rosterVars, matchVars, plan, trainingVars, grant,
                   standingVars, socialVars>>

PlatformNext ==
    /\ \/ /\ \/ RosterMove
             \/ \E s \in Slots :
                   /\ Contests(s) \/ Grounds(s) \/ Lessons(s) \/ Grants(s) \/ Meetings(s)
                   /\ Begun
             \/ AtOnce
          /\ UNCHANGED conductVars
       \/ Watch
    /\ UNCHANGED scene

PlatformSpec == PlatformInit /\ [][PlatformNext]_allVars

-----------------------------------------------------------------------------
(* Properties *)

Live(e) == status[e] \notin {"none", "deleted"}

\* Every row has its parents, whatever is deleted while it is written, and the
\* counters kept beside the rows of a post agree with them: the foreign keys
\* and transactions of the schema hold the services together where their
\* checks do not.
RowsHaveParents ==
    /\ RosterTypeOK /\ MatchTypeOK /\ PlanIsSound /\ SocialIsSound
    /\ \A r \in Rounds :
          /\ Played(r) => Live(r[1])
          /\ round[r].winner # NoOne => team[round[r].winner] = "exists"
    /\ \A p \in Places : There(p) => Live(plan[p].event)
    /\ \A x \in DOMAIN progress : progress[x] # "none" => There(x[2])
    /\ \A a \in assigned : UnitThere(a[1])
    /\ \A k \in Courses : CourseThere(k) => UnitThere(course[k].unit)
    /\ \A x \in Exercises :
          /\ ExerciseThere(x) => CourseThere(exercise[x].course)
          /\ exercise[x].event # None => Live(exercise[x].event)

\* The scoreboard, ranking and analytics compute their numbers in queries of
\* their own; what two of them both say agrees, as far as BoardAddsUp and
\* StandingsAgree go.
ViewsAgree == BoardAddsUp /\ StandingsAgree
=============================================================================
