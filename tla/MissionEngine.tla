---------------------------- MODULE MissionEngine ----------------------------
(***************************************************************************)
(* MissionEngineService (src/modules/mission-engine/mission-engine.        *)
(* service.ts) on top of the position pipeline: a worker takes a tick,     *)
(* finds the missions of the event that are not over, and for each of them *)
(* that has something to say reads the operator's mission_progress row,    *)
(* writes it and publishes it.                                             *)
(*                                                                         *)
(* The read and the write are two statements outside any transaction.      *)
(***************************************************************************)
EXTENDS Positions, FiniteSetsExt

CONSTANTS
    Missions,
    MissionEvent, \* MissionEvent[m]: the event of m
    TypeOf,     \* TypeOf[m]: the mission's type
    Inside,     \* Inside[m]: packets inside its zone; all, for a TIME mission
                \* without one (the other types have a zone)
    TargetOf,   \* TargetOf[m]: thresholdSeconds or durationSeconds
    WindowOf    \* WindowOf[m]: the times between windowStart and windowEnd

Discrete == {"CHECKPOINT", "TIME"}
Cumulative == {"CAPTURE", "HOLD", "DEFEND"}

ASSUME MissionConstants ==
    /\ MissionEvent \in [Missions -> Events]
    /\ TypeOf \in [Missions -> Discrete \cup Cumulative \cup {"SQUAD", "FACTION"}]
    /\ Inside \in [Missions -> SUBSET Packets]
    /\ TargetOf \in [Missions -> Nat \ {0}]
    /\ None \notin Nat

VARIABLES
    offered,    \* missions neither COMPLETED nor CANCELLED
    progress,   \* progress[<<m, o>>]: the row, Fresh if there is none
    engine,     \* what each worker of mission-progress is doing
    announced,  \* <<m, o>> published as COMPLETED
    patched,    \* history: missions whose status was changed
    applied,    \* history: applied[m, o]: packets whose ticks wrote the row
    overlapped, \* history: <<m, o>> written by a worker whose read was stale
    misordered, \* history: <<m, o>> written by a tick older than another
    muted       \* history: <<m, o>> of which a message was lost

engineVars == <<offered, progress, engine, announced, patched, applied,
                overlapped, misordered, muted>>

allVars == <<posVars, engineVars>>

Pairs == Missions \X Operators

\* secondsAccumulated and lastInsideAt are the JSON of cumulative missions.
Fresh == [completed |-> FALSE, seconds |-> 0, insideAt |-> None, completedAt |-> None]

Resting == [packet |-> None, todo |-> {}, mission |-> None, row |-> Fresh, step |-> "idle"]

EngineInit ==
    /\ PosInit
    /\ offered = Missions
    /\ progress = [x \in Pairs |-> Fresh]
    /\ engine = [w \in Workers |-> Resting]
    /\ announced = {}
    /\ patched = {}
    /\ applied = [x \in Pairs |-> {}]
    /\ overlapped = {}
    /\ misordered = {}
    /\ muted = {}

-----------------------------------------------------------------------------
(* The rules *)

Inhabits(p, m) == p \in Inside[m]

\* Mutant of Decides: missions the operator has completed are skipped.
DecidesOpen(m, p) ==
    /\ MissionEvent[m] = EventOf[p]
    /\ ~progress[<<m, OperatorOf[p]>>].completed
    /\ \/ TypeOf[m] \in Cumulative
       \/ TypeOf[m] = "CHECKPOINT" /\ Inhabits(p, m)
       \/ TypeOf[m] = "TIME" /\ Inhabits(p, m) /\ adjustTimestamp(p) \in WindowOf[m]

\* Missions of the packet's event that evaluate() has an opinion about.
Decides(m, p) ==
    /\ MissionEvent[m] = EventOf[p]
    /\ \/ TypeOf[m] \in Cumulative
       \/ TypeOf[m] = "CHECKPOINT" /\ Inhabits(p, m)
       \/ TypeOf[m] = "TIME" /\ Inhabits(p, m) /\ adjustTimestamp(p) \in WindowOf[m]

\* Mutant of Gained: time counts from the last visit to the end of an absence.
GainedAnywhere(row, m, p) ==
    IF row.insideAt # None /\ adjustTimestamp(p) > row.insideAt
    THEN adjustTimestamp(p) - row.insideAt ELSE 0

\* Time since the last position, if both are inside.
Gained(row, m, p) ==
    IF Inhabits(p, m) /\ row.insideAt # None /\ adjustTimestamp(p) > row.insideAt
    THEN adjustTimestamp(p) - row.insideAt
    ELSE 0

\* Mutant of Cumulate: a completion is dated by the last tick.
CumulateLatest(row, m, p) ==
    LET seconds == row.seconds + Gained(row, m, p)
        reached == seconds >= TargetOf[m]
    IN  [completed |-> reached,
         seconds |-> seconds,
         insideAt |-> IF Inhabits(p, m) THEN adjustTimestamp(p) ELSE None,
         completedAt |-> IF reached THEN adjustTimestamp(p) ELSE None]

\* CAPTURE, HOLD and DEFEND: "once COMPLETED, stay COMPLETED".
Cumulate(row, m, p) ==
    LET seconds == row.seconds + Gained(row, m, p)
        reached == seconds >= TargetOf[m]
    IN  [completed |-> row.completed \/ reached,
         seconds |-> seconds,
         insideAt |-> IF Inhabits(p, m) THEN adjustTimestamp(p) ELSE None,
         completedAt |-> IF row.completedAt = None /\ reached
                         THEN adjustTimestamp(p) ELSE row.completedAt]

\* CHECKPOINT and TIME: a completed row is left as it is.
Complete(row, p) ==
    IF row.completed THEN row
    ELSE [Fresh EXCEPT !.completed = TRUE, !.completedAt = adjustTimestamp(p)]

Written(row, m, p) ==
    IF TypeOf[m] \in Cumulative THEN Cumulate(row, m, p) ELSE Complete(row, p)

-----------------------------------------------------------------------------
(* The worker *)

Key(w) == <<engine[w].mission, OperatorOf[engine[w].packet]>>

\* The end of the job, or the next mission.
Proceed(w) ==
    LET left == engine[w].todo \ {engine[w].mission} IN
    IF left = {}
    THEN /\ engine' = [engine EXCEPT ![w] = Resting]
         /\ tick' = [tick EXCEPT ![engine[w].packet] = FinishedBy(@, w)]
    ELSE /\ engine' = [engine EXCEPT ![w] = [@ EXCEPT !.todo = left, !.mission = None,
                                                      !.row = Fresh, !.step = "read"]]
         /\ UNCHANGED tick

pipelineVars == <<ingested, run, dedup, history, live, inspect, expired, broken>>

\* processPosition up to its loop.
TakeTick(w, p) ==
    /\ engine[w] = Resting
    /\ tick[p].state = "waiting"
    /\ LET todo == {m \in offered : Decides(m, p)} IN
       IF todo = {}
       THEN /\ tick' = [tick EXCEPT ![p] = FinishedBy(TakenBy(@, w), w)]
            /\ UNCHANGED engine
       ELSE /\ tick' = [tick EXCEPT ![p] = TakenBy(@, w)]
            /\ engine' = [engine EXCEPT ![w] =
                   [Resting EXCEPT !.packet = p, !.todo = todo, !.step = "read"]]
    /\ UNCHANGED <<pipelineVars, faults, offered, progress, announced, patched,
                   applied, overlapped, misordered, muted>>

FindProgress(w, m) ==
    /\ engine[w].step = "read"
    /\ m \in engine[w].todo
    /\ engine' = [engine EXCEPT ![w] =
           [@ EXCEPT !.mission = m, !.step = "write",
                     !.row = progress[<<m, OperatorOf[engine[w].packet]>>]]]
    /\ UNCHANGED <<posVars, offered, progress, announced, patched, applied,
                   overlapped, misordered, muted>>

Rewrites(w) ==
    ~(TypeOf[engine[w].mission] \in Discrete /\ engine[w].row.completed)

\* upsertProgress after its read; the row it returns is published.
Upsert(w) ==
    LET m == engine[w].mission
        p == engine[w].packet
        x == Key(w)
        row == Written(engine[w].row, m, p)
    IN
    /\ engine[w].step = "write"
    /\ engine' = [engine EXCEPT ![w] = [@ EXCEPT !.row = row, !.step = "publish"]]
    /\ IF Rewrites(w)
       THEN /\ progress' = [progress EXCEPT ![x] = row]
            /\ applied' = [applied EXCEPT ![x] = @ \cup {p}]
            /\ overlapped' = IF progress[x] # engine[w].row
                             THEN overlapped \cup {x} ELSE overlapped
            /\ misordered' = IF \E q \in applied[x] : adjustTimestamp(q) > adjustTimestamp(p)
                             THEN misordered \cup {x} ELSE misordered
       ELSE UNCHANGED <<progress, applied, overlapped, misordered>>
    /\ UNCHANGED <<posVars, offered, announced, patched, muted>>

Publish(w) ==
    /\ engine[w].step = "publish"
    /\ announced' = IF engine[w].row.completed THEN announced \cup {Key(w)} ELSE announced
    /\ Proceed(w)
    /\ UNCHANGED <<pipelineVars, faults, offered, progress, patched, applied,
                   overlapped, misordered, muted>>

-----------------------------------------------------------------------------
(* What goes wrong *)

\* A message that cannot be published is logged and forgotten.
LoseMessage(w) ==
    /\ engine[w].step = "publish"
    /\ Fault
    /\ muted' = muted \cup {Key(w)}
    /\ Proceed(w)
    /\ UNCHANGED <<pipelineVars, offered, progress, announced, patched, applied,
                   overlapped, misordered>>

\* The database throws: the attempt fails, with some missions done.
FailTick(w) ==
    /\ engine[w].step \in {"read", "write"}
    /\ Fault
    /\ tick' = [tick EXCEPT ![engine[w].packet] = FailedBy(@, w)]
    /\ engine' = [engine EXCEPT ![w] = Resting]
    /\ UNCHANGED <<pipelineVars, offered, progress, announced, patched, applied,
                   overlapped, misordered, muted>>

\* The process dies, or pauses until the lock on its job expires.  What a
\* worker without a lock was about to publish is lost when it dies.
LoseTick(w) ==
    /\ engine[w] # Resting
    /\ Fault
    /\ tick' = [tick EXCEPT ![engine[w].packet] = ReleasedBy(@, w)]
    /\ \/ /\ engine' = [engine EXCEPT ![w] = Resting]
          /\ muted' = IF engine[w].step = "publish" /\ tick' = tick
                      THEN muted \cup {Key(w)} ELSE muted
       \/ tick' # tick /\ UNCHANGED <<engine, muted>>
    /\ UNCHANGED <<pipelineVars, offered, progress, announced, patched, applied,
                   overlapped, misordered>>

\* MissionsService.update; any status may follow any other.  Not a fault, but
\* bounded with them.
PatchStatus(m) ==
    /\ Fault
    /\ offered' = IF m \in offered THEN offered \ {m} ELSE offered \cup {m}
    /\ patched' = patched \cup {m}
    /\ UNCHANGED <<pipelineVars, tick, progress, engine, announced, applied,
                   overlapped, misordered, muted>>

-----------------------------------------------------------------------------

Work(w) ==
    \/ \E p \in Packets : TakeTick(w, p)
    \/ \E m \in Missions : FindProgress(w, m)
    \/ Upsert(w)
    \/ Publish(w)

EngineNext ==
    \/ PosNext /\ UNCHANGED engineVars
    \/ \E w \in Workers : Work(w) \/ LoseMessage(w) \/ FailTick(w) \/ LoseTick(w)
    \/ \E m \in Missions : PatchStatus(m)

EngineSpec == EngineInit /\ [][EngineNext]_allVars

-----------------------------------------------------------------------------
(* Properties *)

Rows == [completed : BOOLEAN, seconds : Nat, insideAt : Nat \cup {None},
         completedAt : Nat \cup {None}]

\* Every variable has its type, and only the holder of a tick can finish it.
EngineTypeOK ==
    /\ PosTypeOK
    /\ offered \subseteq Missions /\ patched \subseteq Missions
    /\ progress \in [Pairs -> Rows]
    /\ \A w \in Workers :
          \/ engine[w] = Resting
          \/ /\ engine[w].packet \in Packets /\ engine[w].row \in Rows
             /\ engine[w].todo \subseteq Missions
             /\ engine[w].step \in {"write", "publish"} => engine[w].mission \in engine[w].todo
    /\ \A p \in Packets, w \in Workers : tick[p].by = w => engine[w].packet = p
    /\ announced \cup overlapped \cup misordered \cup muted \subseteq Pairs
    /\ applied \in [Pairs -> SUBSET Packets]

\* "Never regress when operator leaves": no tick takes a completion back or
\* moves its time, whatever is retried, delivered twice or out of order, as
\* long as no two workers write one row at the same time.
CompletionIsFinalUnlessOverlapped ==
    [][\A x \in Pairs \ overlapped' :
          progress[x].completed => /\ progress'[x].completed
                                   /\ progress'[x].completedAt = progress[x].completedAt]_allVars

\* Reference definition: time between positions next to each other in time that
\* are both inside.
Occupancy(m, S) ==
    LET Adjacent(q, p) ==
            /\ adjustTimestamp(q) < adjustTimestamp(p)
            /\ ~\E r \in S : /\ adjustTimestamp(q) < adjustTimestamp(r)
                             /\ adjustTimestamp(r) < adjustTimestamp(p)
    IN  MapThenSumSet(LAMBDA z : adjustTimestamp(z[2]) - adjustTimestamp(z[1]),
            {z \in (S \cap Inside[m]) \X (S \cap Inside[m]) : Adjacent(z[1], z[2])})

\* "Cumulative seconds the operator has been inside the zone": what a row has
\* added up tick by tick is the time between its positions, with no interval
\* lost or counted twice by a failed and repeated tick.
SecondsMatchPresence ==
    \A x \in Pairs \ (overlapped \cup misordered) :
        TypeOf[x[1]] \in Cumulative =>
            progress[x].seconds = Occupancy(x[1], applied[x])

\* The engine "reads server-canonical state, never the mobile payload": a
\* completion is dated by a position that the operator sent for that event, in
\* the history, inside the zone and the window, even if workers overlap.
CompletionIsEarned ==
    \A x \in Pairs :
        progress[x].completed =>
            \E p \in Packets : /\ history[p] > 0
                               /\ EventOf[p] = MissionEvent[x[1]] /\ OperatorOf[p] = x[2]
                               /\ adjustTimestamp(p) = progress[x].completedAt
                               /\ Inhabits(p, x[1])
                               /\ (TypeOf[x[1]] = "TIME" =>
                                      adjustTimestamp(p) \in WindowOf[x[1]])

\* When the tick that completed a mission is done, the completion has been
\* published, also if the first attempt stopped between write and message: the
\* next one publishes the row it finds.  Lost messages, missions that an admin
\* closed between two attempts, and rows that a stale worker wrote over are the
\* exceptions.
CompletionIsAnnounced ==
    \A x \in Pairs \ (announced \cup muted \cup overlapped) :
        progress[x].completed /\ x[1] \notin patched =>
            \/ \E w \in Workers : engine[w].step = "publish" /\ Key(w) = x
            \/ \E p \in Packets : /\ EventOf[p] = MissionEvent[x[1]] /\ OperatorOf[p] = x[2]
                                  /\ adjustTimestamp(p) = progress[x].completedAt
                                  /\ tick[p].state \in {"waiting", "active", "failed"}

\* A tick that is done has been counted: every checkpoint and window it hits is
\* completed and every zone to hold knows of it, although an attempt may have
\* stopped after some of the missions; a status changed meanwhile excepted.
DoneTickCounts ==
    \A p \in Packets, m \in Missions \ patched :
        LET x == <<m, OperatorOf[p]>> IN
        tick[p].state = "done" /\ Decides(m, p) =>
            \/ p \in applied[x]
            \/ TypeOf[m] \in Discrete /\ progress[x].completed
=============================================================================
