--------------------------- MODULE PipelineProofs ---------------------------
(* Proofs about Positions and MissionEngine, for any operators, packets,     *)
(* clocks, workers, missions, zones and targets, and any number of faults.   *)
EXTENDS MissionEngine, SumProofs

-----------------------------------------------------------------------------
(* A packet is recorded once *)

Runs == {Idle} \cup [packet : Packets, step : {"insert", "show", "enqueue"}]

Recording(w, p) == run[w].packet = p /\ run[w].step = "insert"

\* As long as its key lasts, a packet that has no key was never recorded and is
\* in nobody's hands, and whoever has yet to record it is alone and the first.
FirstRecording(p) ==
    /\ history[p] <= 1
    /\ p \notin dedup => history[p] = 0 /\ \A w \in Workers : run[w].packet # p
    /\ \A w \in Workers : Recording(w, p) => history[p] = 0
    /\ \A v, w \in Workers : Recording(v, p) /\ Recording(w, p) => v = w

RecordInv ==
    /\ run \in [Workers -> Runs]
    /\ history \in [Packets -> Nat]
    /\ \A p \in Packets \ expired : FirstRecording(p)

LEMMA RecordInit == PosInit => RecordInv
  BY PositionConstants
     DEF PosInit, RecordInv, FirstRecording, Recording, Runs, Idle

\* The insertion is the only step that adds a row, and taking a job the only
\* one that lets a worker record a packet.
LEMMA DedupRecords ==
  ASSUME RecordInv, NEW w \in Workers, NEW p \in Packets, Dedup(w, p)
  PROVE  RecordInv'
  <1>1. CASE p \in dedup
    BY <1>1 DEF RecordInv, FirstRecording, Recording, Dedup
  <1>2. CASE p \notin dedup
    <2>1. /\ run' = [run EXCEPT ![w] = [packet |-> p, step |-> "insert"]]
          /\ dedup' = dedup \cup {p}
          /\ UNCHANGED <<history, expired>>
      BY <1>2 DEF Dedup
    <2>2. run' \in [Workers -> Runs]
      BY <2>1 DEF RecordInv, Runs
    <2>3. ASSUME NEW q \in Packets \ expired PROVE FirstRecording(q)'
      <3>1. CASE q = p
        BY <1>2, <2>1, <2>3, <3>1 DEF RecordInv, FirstRecording, Recording
      <3>2. CASE q # p
        BY <2>1, <2>3, <3>2 DEF RecordInv, FirstRecording, Recording
      <3> QED BY <3>1, <3>2
    <2> QED BY <2>1, <2>2, <2>3 DEF RecordInv
  <1> QED BY <1>1, <1>2

LEMMA InsertRecords ==
  ASSUME RecordInv, NEW w \in Workers, Insert(w)
  PROVE  RecordInv'
  <1>1. /\ run[w].step = "insert"
        /\ history' = [history EXCEPT ![run[w].packet] = @ + 1]
        /\ run' = [run EXCEPT ![w].step = "show"]
        /\ UNCHANGED <<dedup, expired>>
    BY DEF Insert, At, Goto
  <1>2. run[w] \in [packet : Packets, step : {"insert", "show", "enqueue"}]
    BY <1>1 DEF RecordInv, Runs, Idle
  <1>3. run' \in [Workers -> Runs] /\ run'[w] = [packet |-> run[w].packet, step |-> "show"]
    BY <1>1, <1>2 DEF RecordInv, Runs
  <1>4. history' \in [Packets -> Nat]
    BY <1>1, <1>2 DEF RecordInv
  <1>5. ASSUME NEW q \in Packets \ expired PROVE FirstRecording(q)'
    <2>1. CASE q = run[w].packet
      <3>1. Recording(w, q) /\ history[q] = 0 /\ q \in dedup
        BY <1>1, <1>5, <2>1 DEF RecordInv, FirstRecording, Recording
      <3>2. history'[q] = 1
        BY <1>1, <1>2, <2>1, <3>1 DEF RecordInv
      <3>3. \A v \in Workers : ~Recording(v, q)'
        BY <1>1, <1>3, <1>5, <3>1 DEF RecordInv, FirstRecording, Recording
      <3> QED BY <1>1, <3>1, <3>2, <3>3 DEF FirstRecording
    <2>2. CASE q # run[w].packet
      BY <1>1, <1>2, <1>3, <1>5, <2>2 DEF RecordInv, FirstRecording, Recording
    <2> QED BY <2>1, <2>2
  <1> QED BY <1>1, <1>3, <1>4, <1>5 DEF RecordInv

\* A worker that moves on, or lets go of its packet, records nothing any more.
LEMMA LaterStepsRecord ==
  ASSUME RecordInv, NEW w \in Workers,
         run'[w].step # "insert",
         run'[w].packet \in {run[w].packet, None},
         run' \in [Workers -> Runs],
         \A v \in Workers \ {w} : run'[v] = run[v],
         UNCHANGED <<dedup, history, expired>>
  PROVE  RecordInv'
  BY PositionConstants DEF RecordInv, FirstRecording, Recording

LEMMA PosRecords ==
  ASSUME RecordInv, PosNext
  PROVE  RecordInv'
  <1>1. ASSUME NEW o \in Operators, Fade(o) PROVE RecordInv'
    BY <1>1 DEF Fade, RecordInv, FirstRecording, Recording
  <1>2. ASSUME NEW p \in Packets, Ingest(p) PROVE RecordInv'
    BY <1>2 DEF Ingest, RecordInv, FirstRecording, Recording
  <1>3. ASSUME NEW p \in Packets, Expire(p) PROVE RecordInv'
    BY <1>3 DEF Expire, RecordInv, FirstRecording, Recording
  <1>4. ASSUME NEW p \in Packets, Purge(p) PROVE RecordInv'
    BY <1>4 DEF Purge, RecordInv, FirstRecording, Recording
  <1>5. ASSUME NEW w \in Workers, NEW p \in Packets, Dedup(w, p) PROVE RecordInv'
    BY <1>5, DedupRecords
  <1>6. ASSUME NEW w \in Workers, Insert(w) PROVE RecordInv'
    BY <1>6, InsertRecords
  <1>7. ASSUME NEW w \in Workers, Show(w) PROVE RecordInv'
    <2>1. /\ run[w].step = "show" /\ run' = [run EXCEPT ![w].step = "enqueue"]
          /\ UNCHANGED <<dedup, history, expired>>
      BY <1>7 DEF Show, At, Goto
    <2>2. run[w] \in [packet : Packets, step : {"insert", "show", "enqueue"}]
      BY <2>1 DEF RecordInv, Runs, Idle
    <2>3. run'[w] = [packet |-> run[w].packet, step |-> "enqueue"]
      BY <2>1, <2>2 DEF RecordInv
    <2> QED BY <2>1, <2>2, <2>3, LaterStepsRecord DEF RecordInv, Runs
  <1>8. ASSUME NEW w \in Workers, FanOut(w) \/ LoseEnqueue(w) \/ FailRun(w) PROVE RecordInv'
    <2>1. run' = [run EXCEPT ![w] = Idle] /\ UNCHANGED <<dedup, history, expired>>
      BY <1>8 DEF FanOut, LoseEnqueue, FailRun, Return
    <2> QED BY <2>1, LaterStepsRecord DEF RecordInv, Runs, Idle
  <1>9. ASSUME NEW w \in Workers, LoseLock(w) PROVE RecordInv'
    <2>1. UNCHANGED <<dedup, history, expired>>
      BY <1>9 DEF LoseLock
    <2>2. CASE run' = [run EXCEPT ![w] = Idle]
      BY <2>1, <2>2, LaterStepsRecord DEF RecordInv, Runs, Idle
    <2>3. CASE UNCHANGED run
      BY <2>1, <2>3 DEF RecordInv, FirstRecording, Recording
    <2> QED BY <1>9, <2>2, <2>3 DEF LoseLock
  <1>10. ASSUME NEW w \in Workers, NEW p \in Packets, FailDedup(w, p) PROVE RecordInv'
    BY <1>10 DEF FailDedup, RecordInv, FirstRecording, Recording
  <1> QED BY <1>1, <1>2, <1>3, <1>4, <1>5, <1>6, <1>7, <1>8, <1>9, <1>10
          DEF PosNext, Process

\* The engine reads the pipeline through its ticks and leaves the rest alone.
EngineStep ==
    \/ \E w \in Workers : Work(w) \/ LoseMessage(w) \/ FailTick(w) \/ LoseTick(w)
    \/ \E m \in Missions : PatchStatus(m)

LEMMA EngineLeavesPipeline ==
  EngineStep => UNCHANGED <<run, dedup, history, live, expired>>
  BY DEF EngineStep, Work, TakeTick, FindProgress, Upsert, Publish, LoseMessage,
         FailTick, LoseTick, PatchStatus, pipelineVars, posVars

LEMMA EngineSteps == EngineNext <=> (PosNext /\ UNCHANGED engineVars) \/ EngineStep
  BY DEF EngineNext, EngineStep

\* However often a packet is sent, retried, or run by two workers at once, it
\* has one row until its dedup key expires (positions.processor.ts:46-51).
THEOREM RecordedOnce == EngineSpec => []RecordedOnceUnlessExpired
  <1>1. EngineInit => RecordInv
    BY RecordInit DEF EngineInit
  <1>2. RecordInv /\ [EngineNext]_allVars => RecordInv'
    <2> SUFFICES ASSUME RecordInv, [EngineNext]_allVars PROVE RecordInv'
      OBVIOUS
    <2>1. CASE PosNext
      BY <2>1, PosRecords
    <2>2. CASE UNCHANGED <<run, dedup, history, live, expired>>
      BY <2>2 DEF RecordInv, FirstRecording, Recording
    <2>3. CASE UNCHANGED allVars
      BY <2>2, <2>3 DEF allVars, posVars
    <2> QED BY <2>1, <2>2, <2>3, EngineSteps, EngineLeavesPipeline
  <1>3. RecordInv => RecordedOnceUnlessExpired
    BY DEF RecordInv, FirstRecording, RecordedOnceUnlessExpired
  <1> QED BY <1>1, <1>2, <1>3, PTL DEF EngineSpec

-----------------------------------------------------------------------------
(* What is shown, ticked and counted is in the history *)

JobRecords == [state : {"absent", "waiting", "active", "done", "failed"},
               tries : Nat, stalls : Nat, by : Workers \cup {Nobody}]

ShownInv ==
    /\ live \in [Operators -> Packets \cup {None}]
    /\ \A w \in Workers :
          run[w].step \in {"show", "enqueue"} => history[run[w].packet] > 0
    /\ LiveIsRecorded

TickInv ==
    /\ tick \in [Packets -> JobRecords]
    /\ \A p \in Packets : tick[p].state # "absent" => history[p] > 0

PosInv == RecordInv /\ ShownInv /\ TickInv

LEMMA PosInitInv == PosInit => PosInv
  <1> SUFFICES ASSUME PosInit PROVE ShownInv /\ TickInv
    BY RecordInit DEF PosInv
  <1> QED
    BY QueueConstants, PositionConstants
       DEF PosInit, ShownInv, TickInv, LiveIsRecorded, JobRecords, NoJob, Idle

LEMMA HistoryGrows ==
  ASSUME RecordInv, PosNext, NEW p \in Packets
  PROVE  history'[p] \in Nat /\ history'[p] >= history[p]
  <1>1. CASE \E w \in Workers : Insert(w)
    <2> PICK w \in Workers : Insert(w)
      BY <1>1
    <2>1. history' = [history EXCEPT ![run[w].packet] = @ + 1]
      BY DEF Insert
    <2> QED BY <2>1 DEF RecordInv
  <1>2. CASE UNCHANGED history
    BY <1>2 DEF RecordInv
  <1> QED
    BY <1>1, <1>2 DEF PosNext, Process, Fade, Ingest, Expire, Purge, Dedup, Show,
                      FanOut, LoseEnqueue, FailRun, LoseLock, FailDedup

\* What becomes of a job that its holder fails or loses, field by field.
LEMMA JobForms ==
  ASSUME NEW j \in JobRecords, NEW w, j.by = w
  PROVE  /\ FailedBy(j, w) = [state |-> IF j.tries + 1 < Attempts THEN "waiting" ELSE "failed",
                              tries |-> j.tries + 1, stalls |-> j.stalls, by |-> Nobody]
         /\ j.stalls < MaxStalled => ReleasedBy(j, w) =
               [state |-> "waiting", tries |-> j.tries, stalls |-> j.stalls + 1, by |-> Nobody]
         /\ ~(j.stalls < MaxStalled) => ReleasedBy(j, w) =
               [state |-> "failed", tries |-> j.tries, stalls |-> j.stalls, by |-> Nobody]
  <1>1. FailedBy(j, w) = [state |-> IF j.tries + 1 < Attempts THEN "waiting" ELSE "failed",
                          tries |-> j.tries + 1, stalls |-> j.stalls, by |-> Nobody]
    BY DEF JobRecords, FailedBy
  <1>2. j.stalls < MaxStalled => ReleasedBy(j, w) =
            [state |-> "waiting", tries |-> j.tries, stalls |-> j.stalls + 1, by |-> Nobody]
    BY DEF JobRecords, ReleasedBy
  <1>3. ~(j.stalls < MaxStalled) => ReleasedBy(j, w) =
            [state |-> "failed", tries |-> j.tries, stalls |-> j.stalls, by |-> Nobody]
    BY DEF JobRecords, ReleasedBy
  <1> QED BY <1>1, <1>2, <1>3

\* A job that is changed by its holder keeps its type.
LEMMA JobSteps ==
  ASSUME NEW j \in JobRecords, NEW w \in Workers
  PROVE  /\ Added(j) \in JobRecords /\ TakenBy(j, w) \in JobRecords
         /\ FinishedBy(j, w) \in JobRecords /\ FailedBy(j, w) \in JobRecords
         /\ ReleasedBy(j, w) \in JobRecords
  <1> USE DEF JobRecords
  <1>1. Added(j) \in JobRecords /\ TakenBy(j, w) \in JobRecords
    BY DEF Added, TakenBy
  <1>2. FinishedBy(j, w) \in JobRecords /\ ReleasedBy(j, w) \in JobRecords
    <2>1. FinishedBy(j, w) \in JobRecords
      BY DEF FinishedBy
    <2>2. CASE j.by # w
      BY <2>1, <2>2 DEF ReleasedBy
    <2>3. CASE j.by = w
      BY <2>1, <2>3, JobForms
    <2> QED BY <2>1, <2>2, <2>3
  <1>3. FailedBy(j, w) \in JobRecords
    <2>1. CASE j.by # w
      BY <2>1 DEF FailedBy
    <2>2. CASE j.by = w
      BY <2>2, JobForms
    <2> QED BY <2>1, <2>2
  <1> QED BY <1>1, <1>2, <1>3

\* Only a packet with a row is queued for the engine.
LEMMA EnqueueTicks ==
  ASSUME TickInv, NEW p \in Packets, history[p] > 0, UNCHANGED history, EnqueueTick(p)
  PROVE  TickInv'
  <1>1. Added(tick[p]) \in JobRecords
    BY DEF TickInv, JobRecords, Added
  <1> QED
    BY <1>1 DEF TickInv, EnqueueTick

LEMMA PosTicks ==
  ASSUME PosInv, PosNext
  PROVE  TickInv'
  <1>1. ASSUME NEW w \in Workers, FanOut(w) \/ LoseEnqueue(w) PROVE TickInv'
    <2>1. run[w] \in [packet : Packets, step : {"insert", "show", "enqueue"}]
          /\ history[run[w].packet] > 0
      BY <1>1 DEF FanOut, LoseEnqueue, At, PosInv, RecordInv, ShownInv, Runs, Idle
    <2>2. UNCHANGED history
      BY <1>1 DEF FanOut, LoseEnqueue
    <2>3. EnqueueTick(run[w].packet) \/ UNCHANGED tick
      BY <1>1 DEF FanOut, LoseEnqueue
    <2> QED BY <2>1, <2>2, <2>3, EnqueueTicks DEF PosInv, TickInv
  <1>2. CASE UNCHANGED tick
    BY <1>2, HistoryGrows DEF PosInv, RecordInv, TickInv
  <1> QED
    BY <1>1, <1>2 DEF PosNext, Process, Fade, Ingest, Expire, Purge, Dedup, Insert,
                      Show, FailRun, LoseLock, FailDedup

LEMMA PosShows ==
  ASSUME PosInv, PosNext
  PROVE  ShownInv'
  <1> USE DEF PosInv
  <1>1. ASSUME NEW w \in Workers, Show(w) PROVE ShownInv'
    <2>1. /\ run[w].step = "show"
          /\ live' = [live EXCEPT ![OperatorOf[run[w].packet]] = run[w].packet]
          /\ run' = [run EXCEPT ![w].step = "enqueue"]
          /\ UNCHANGED history
      BY <1>1 DEF Show, At, Goto
    <2>2. run[w] \in [packet : Packets, step : {"insert", "show", "enqueue"}]
          /\ history[run[w].packet] > 0
      BY <2>1 DEF RecordInv, ShownInv, Runs, Idle
    <2>3. OperatorOf[run[w].packet] \in Operators
      BY <2>2, PositionConstants
    <2>4. /\ run'[w] = [packet |-> run[w].packet, step |-> "enqueue"]
          /\ \A v \in Workers \ {w} : run'[v] = run[v]
      BY <2>1, <2>2 DEF RecordInv
    <2> QED BY <2>1, <2>2, <2>3, <2>4 DEF ShownInv, LiveIsRecorded
  <1>2. ASSUME NEW o \in Operators, Fade(o) PROVE ShownInv'
    BY <1>2 DEF Fade, ShownInv, LiveIsRecorded
  <1>3. ASSUME UNCHANGED live,
               \A w \in Workers :
                   run'[w].step \in {"show", "enqueue"} => history'[run'[w].packet] > 0
        PROVE  ShownInv'
    BY <1>3, HistoryGrows DEF RecordInv, ShownInv, LiveIsRecorded
  <1>4. ASSUME NEW w \in Workers, Insert(w) PROVE ShownInv'
    <2>1. /\ run[w].step = "insert"
          /\ history' = [history EXCEPT ![run[w].packet] = @ + 1]
          /\ run' = [run EXCEPT ![w].step = "show"]
          /\ UNCHANGED live
      BY <1>4 DEF Insert, At, Goto
    <2>2. run[w] \in [packet : Packets, step : {"insert", "show", "enqueue"}]
      BY <2>1 DEF RecordInv, Runs, Idle
    <2>3. /\ run'[w] = [packet |-> run[w].packet, step |-> "show"]
          /\ \A v \in Workers \ {w} : run'[v] = run[v]
          /\ history'[run[w].packet] > 0
      BY <2>1, <2>2 DEF RecordInv
    <2>4. \A v \in Workers : run[v].step \in {"show", "enqueue"} => run[v].packet \in Packets
      BY DEF RecordInv, Runs, Idle
    <2> QED BY <1>3, <2>1, <2>3, <2>4, HistoryGrows DEF ShownInv, RecordInv
  <1>5. ASSUME UNCHANGED <<live, history>>, NEW w \in Workers,
               run' = run \/ run' = [run EXCEPT ![w] = Idle]
                          \/ \E p \in Packets :
                                 run' = [run EXCEPT ![w] = [packet |-> p, step |-> "insert"]]
        PROVE  ShownInv'
    BY <1>3, <1>5 DEF RecordInv, ShownInv, Idle
  <1>6. ASSUME NEW p \in Packets, Ingest(p) \/ Expire(p) \/ Purge(p) PROVE ShownInv'
    BY <1>6 DEF Ingest, Expire, Purge, ShownInv, LiveIsRecorded
  <1>7. ASSUME NEW w \in Workers, NEW p \in Packets, Dedup(w, p) \/ FailDedup(w, p)
        PROVE  ShownInv'
    BY <1>5, <1>7 DEF Dedup, FailDedup
  <1>8. ASSUME NEW w \in Workers, FanOut(w) \/ LoseEnqueue(w) \/ FailRun(w) \/ LoseLock(w)
        PROVE  ShownInv'
    BY <1>5, <1>8 DEF FanOut, LoseEnqueue, FailRun, LoseLock, Return
  <1> QED BY <1>1, <1>2, <1>4, <1>6, <1>7, <1>8 DEF PosNext, Process

LEMMA PosPreserves == PosInv /\ PosNext => PosInv'
  BY PosRecords, PosShows, PosTicks DEF PosInv

-----------------------------------------------------------------------------
(* Completions *)

EngineRecords ==
    [packet : Packets \cup {None}, todo : SUBSET Missions,
     mission : Missions \cup {None}, row : Rows,
     step : {"idle", "read", "write", "publish"}]

\* The position of packet p earns its operator o a completion of mission m.
Earns(p, m, o) ==
    /\ history[p] > 0
    /\ EventOf[p] = MissionEvent[m] /\ OperatorOf[p] = o
    /\ Inhabits(p, m)
    /\ (TypeOf[m] = "TIME" => adjustTimestamp(p) \in WindowOf[m])

\* A row is dated when it is completed, by a position that earned it; and a
\* zone that is not yet held has less than its target, so that the tick which
\* reaches the target gained time, inside.
GoodRow(m, o, row) ==
    /\ row.completed <=> row.completedAt # None
    /\ TypeOf[m] \in Cumulative /\ ~row.completed => row.seconds < TargetOf[m]
    /\ row.completed => \E p \in Packets : /\ Earns(p, m, o)
                                           /\ adjustTimestamp(p) = row.completedAt

\* What a worker of the engine holds is in the history, and every mission on
\* its list has something to say about it.
WorkerInv(w) ==
    engine[w] # Resting =>
        /\ engine[w].packet \in Packets /\ history[engine[w].packet] > 0
        /\ \A m \in engine[w].todo : Decides(m, engine[w].packet)
        /\ engine[w].step \in {"write", "publish"} => engine[w].mission \in engine[w].todo
        /\ engine[w].step = "write" =>
              GoodRow(engine[w].mission, OperatorOf[engine[w].packet], engine[w].row)

CompletionInv ==
    /\ offered \subseteq Missions
    /\ engine \in [Workers -> EngineRecords]
    /\ progress \in [Pairs -> Rows]
    /\ \A w \in Workers : WorkerInv(w)
    /\ \A m \in Missions, o \in Operators : GoodRow(m, o, progress[<<m, o>>])

LEMMA TimesAreNat ==
  ASSUME NEW p \in Packets
  PROVE  adjustTimestamp(p) \in Nat
  BY PositionConstants DEF adjustTimestamp

LEMMA GainedIsNat ==
  ASSUME NEW row \in Rows, NEW m \in Missions, NEW p \in Packets
  PROVE  Gained(row, m, p) \in Nat /\ (Gained(row, m, p) > 0 => Inhabits(p, m))
  BY TimesAreNat, MissionConstants DEF Gained, Rows

\* What is written of a good row is a good row, and a completion stays as it is.
LEMMA WrittenIsGood ==
  ASSUME NEW m \in Missions, NEW p \in Packets, NEW row \in Rows,
         history[p] > 0, Decides(m, p), GoodRow(m, OperatorOf[p], row)
  PROVE  /\ Written(row, m, p) \in Rows
         /\ GoodRow(m, OperatorOf[p], Written(row, m, p))
         /\ row.completed => /\ Written(row, m, p).completed
                             /\ Written(row, m, p).completedAt = row.completedAt
  <1> DEFINE o == OperatorOf[p]
             at == adjustTimestamp(p)
  <1>1. at \in Nat /\ at # None /\ TargetOf[m] \in Nat \ {0}
    BY TimesAreNat, MissionConstants
  <1>2. CASE TypeOf[m] \in Cumulative
    <2> DEFINE seconds == row.seconds + Gained(row, m, p)
               reached == seconds >= TargetOf[m]
               new == Cumulate(row, m, p)
    <2>1. Written(row, m, p) = new
      BY <1>2 DEF Written
    <2>2. seconds \in Nat /\ row.seconds \in Nat /\ row.completed \in BOOLEAN
      BY GainedIsNat DEF Rows
    <2>3. new = [completed |-> row.completed \/ reached,
                 seconds |-> seconds,
                 insideAt |-> IF Inhabits(p, m) THEN at ELSE None,
                 completedAt |-> IF row.completedAt = None /\ reached
                                 THEN at ELSE row.completedAt]
      BY DEF Cumulate
    <2>4. new.completed = (row.completed \/ reached)
      BY DEF Cumulate
    <2>5. new \in Rows
      BY <1>1, <2>2, <2>3 DEF Rows
    <2>6. CASE row.completed
      <3>1. row.completedAt # None
        BY <2>6 DEF GoodRow
      <3>2. new.completed /\ new.completedAt = row.completedAt
        <4>1. new.completedAt = row.completedAt
          BY <2>3, <3>1
        <4>2. new.completed
          BY <2>6, <2>4, Zenon
        <4> QED BY <4>1, <4>2
      <3>3. GoodRow(m, o, new)
        BY <2>6, <3>1, <3>2 DEF GoodRow
      <3> QED BY <2>1, <2>5, <3>2, <3>3
    <2>7. CASE ~row.completed /\ ~reached
      <3>1. ~new.completed /\ new.completedAt = None /\ new.seconds < TargetOf[m]
        BY <1>1, <2>2, <2>3, <2>7 DEF GoodRow
      <3> QED BY <2>1, <2>5, <2>7, <3>1 DEF GoodRow
    <2>8. CASE ~row.completed /\ reached
      <3>1. new.completed /\ new.completedAt = at
        <4>1. row.completedAt = None
          BY <2>8 DEF GoodRow
        <4>2. new.completedAt = at
          BY <2>3, <2>8, <4>1
        <4>3. new.completed
          BY <2>8, <2>4, Zenon
        <4> QED BY <4>2, <4>3
      <3>2. Inhabits(p, m)
        BY <1>1, <1>2, <2>2, <2>8, GainedIsNat DEF GoodRow
      <3>3. Earns(p, m, o)
        BY <1>2, <3>2 DEF Earns, Cumulative, Decides
      <3> QED BY <1>1, <2>1, <2>5, <2>8, <3>1, <3>3 DEF GoodRow
    <2> QED BY <2>2, <2>6, <2>7, <2>8
  <1>3. CASE TypeOf[m] \notin Cumulative
    <2>1. Written(row, m, p) = Complete(row, p)
      BY <1>3 DEF Written
    <2>2. CASE row.completed
      BY <2>1, <2>2 DEF Complete
    <2>3. CASE ~row.completed
      <3>1. Complete(row, p) = [Fresh EXCEPT !.completed = TRUE, !.completedAt = at]
        BY <2>3 DEF Complete
      <3>2. Earns(p, m, o)
        BY <1>3 DEF Earns, Decides
      <3>3. Complete(row, p) = [completed |-> TRUE, seconds |-> 0,
                                insideAt |-> None, completedAt |-> at]
        BY <3>1 DEF Fresh
      <3>4. Complete(row, p) \in Rows
        BY <1>1, <3>3 DEF Rows
      <3>5. GoodRow(m, o, Complete(row, p))
        BY <1>1, <3>2, <3>3 DEF GoodRow
      <3> QED BY <2>1, <2>3, <3>4, <3>5
    <2> QED BY <2>2, <2>3
  <1> QED BY <1>2, <1>3

LEMMA FreshIsRow == Fresh \in Rows
  BY DEF Fresh, Rows

LEMMA CompletionInitInv == EngineInit => PosInv /\ CompletionInv
  <1> SUFFICES ASSUME EngineInit PROVE CompletionInv
    BY PosInitInv DEF EngineInit
  <1>1. Fresh \in Rows /\ Resting \in EngineRecords
    BY FreshIsRow DEF Resting, EngineRecords
  <1>2. engine \in [Workers -> EngineRecords] /\ progress \in [Pairs -> Rows]
    BY <1>1 DEF EngineInit
  <1>3. ASSUME NEW m \in Missions, NEW o \in Operators PROVE GoodRow(m, o, progress[<<m, o>>])
    <2>1. <<m, o>> \in Pairs
      BY DEF Pairs
    <2>2. progress[<<m, o>>] = Fresh
      BY <2>1 DEF EngineInit
    <2>3. TargetOf[m] > 0
      BY MissionConstants
    <2> QED BY <2>2, <2>3 DEF GoodRow, Fresh
  <1> QED BY <1>2, <1>3 DEF CompletionInv, WorkerInv, EngineInit

\* Rows of history are only added, so what was earned stays earned.
LEMMA StaysGood ==
  ASSUME \A p \in Packets : history[p] > 0 => history'[p] > 0,
         NEW m, NEW o, NEW row, GoodRow(m, o, row)
  PROVE  \A r : r = row => GoodRow(m, o, r)'
  BY DEF GoodRow, Earns, Inhabits, adjustTimestamp

\* A step that leaves the rows alone and lets one worker go on, or none.
LEMMA RowsStay ==
  ASSUME CompletionInv, UNCHANGED progress, offered' \subseteq Missions,
         engine' \in [Workers -> EngineRecords],
         \A p \in Packets : history[p] > 0 => history'[p] > 0,
         \A w \in Workers : engine'[w] = engine[w] \/ WorkerInv(w)'
  PROVE  CompletionInv'
  <1>1. ASSUME NEW m \in Missions, NEW o \in Operators PROVE GoodRow(m, o, progress[<<m, o>>])'
    BY StaysGood DEF CompletionInv
  <1>2. ASSUME NEW w \in Workers, engine'[w] = engine[w] PROVE WorkerInv(w)'
    <2>1. WorkerInv(w)
      BY DEF CompletionInv
    <2> QED BY <1>2, <2>1, StaysGood DEF WorkerInv, Decides, Inhabits, adjustTimestamp
  <1> QED BY <1>1, <1>2 DEF CompletionInv

\* A worker that only moves the tick it holds.
LEMMA TickMoves ==
  ASSUME TickInv, UNCHANGED history, NEW p \in Packets, history[p] > 0,
         NEW j \in JobRecords, tick' = [tick EXCEPT ![p] = j]
  PROVE  TickInv'
  BY DEF TickInv

EngineInv == PosInv /\ CompletionInv

LEMMA PosVarsStay ==
  ASSUME PosInv, EngineStep, TickInv'
  PROVE  PosInv'
  <1>1. UNCHANGED <<run, dedup, history, live, expired>>
    BY EngineLeavesPipeline
  <1>2. RecordInv'
    BY <1>1 DEF PosInv, RecordInv, FirstRecording, Recording
  <1>3. ShownInv'
    BY <1>1 DEF PosInv, ShownInv, LiveIsRecorded
  <1> QED BY <1>2, <1>3 DEF PosInv

LEMMA TakeTickInv ==
  ASSUME EngineInv, NEW w \in Workers, NEW p \in Packets, TakeTick(w, p)
  PROVE  TickInv' /\ CompletionInv'
  <1>1. tick[p] \in JobRecords /\ history[p] > 0
    BY DEF EngineInv, PosInv, TickInv, TakeTick
  <1>2. UNCHANGED <<history, progress, offered>>
    BY DEF TakeTick, pipelineVars
  <1>3. CASE {m \in offered : Decides(m, p)} = {}
    <2>1. tick' = [tick EXCEPT ![p] = FinishedBy(TakenBy(@, w), w)] /\ UNCHANGED engine
      BY <1>3 DEF TakeTick
    <2>2. FinishedBy(TakenBy(tick[p], w), w) \in JobRecords
      BY <1>1, JobSteps
    <2>3. TickInv'
      BY <1>1, <1>2, <2>1, <2>2, TickMoves DEF EngineInv, PosInv
    <2> QED BY <1>2, <2>1, <2>3, RowsStay DEF EngineInv, CompletionInv
  <1>4. CASE {m \in offered : Decides(m, p)} # {}
    <2> DEFINE list == {m \in offered : Decides(m, p)}
    <2>1. /\ tick' = [tick EXCEPT ![p] = TakenBy(@, w)]
          /\ engine' = [engine EXCEPT ![w] =
                 [Resting EXCEPT !.packet = p, !.todo = list, !.step = "read"]]
      BY <1>4 DEF TakeTick
    <2>2. TickInv'
      BY <1>1, <1>2, <2>1, JobSteps, TickMoves DEF EngineInv, PosInv
    <2>3. engine'[w] = [packet |-> p, todo |-> list, mission |-> None, row |-> Fresh,
                        step |-> "read"]
      BY <2>1 DEF EngineInv, CompletionInv, Resting
    <2>4. engine' \in [Workers -> EngineRecords]
      <3>1. list \subseteq Missions
        BY DEF EngineInv, CompletionInv
      <3>2. engine'[w] \in EngineRecords
        BY <2>3, <3>1, FreshIsRow DEF EngineRecords
      <3> QED BY <2>1, <3>2 DEF EngineInv, CompletionInv
    <2>5. WorkerInv(w)'
      <3>1. \A m \in engine'[w].todo : Decides(m, p)
        BY <2>3
      <3>2. engine'[w].packet = p /\ engine'[w].step = "read"
        BY <2>3
      <3> HIDE DEF list
      <3> QED
        BY <1>1, <1>2, <3>1, <3>2 DEF WorkerInv, Decides, Inhabits, adjustTimestamp
    <2> QED BY <1>2, <2>1, <2>2, <2>4, <2>5, RowsStay DEF EngineInv, CompletionInv
  <1> QED BY <1>3, <1>4

LEMMA FindProgressInv ==
  ASSUME EngineInv, NEW w \in Workers, NEW m \in Missions, FindProgress(w, m)
  PROVE  TickInv' /\ CompletionInv'
  <1>1. UNCHANGED <<history, progress, tick, offered>>
    BY DEF FindProgress, posVars
  <1>2. /\ engine[w] # Resting
        /\ m \in engine[w].todo
        /\ engine[w] \in EngineRecords
        /\ engine[w].packet \in Packets /\ history[engine[w].packet] > 0
        /\ \A n \in engine[w].todo : Decides(n, engine[w].packet)
    BY DEF FindProgress, Resting, EngineInv, CompletionInv, WorkerInv
  <1>3. PICK p \in Packets : p = engine[w].packet
    BY <1>2
  <1>4. OperatorOf[p] \in Operators /\ <<m, OperatorOf[p]>> \in Pairs
    BY PositionConstants DEF Pairs
  <1>5. PICK row \in Rows : row = progress[<<m, OperatorOf[p]>>]
    BY <1>4 DEF EngineInv, CompletionInv
  <1>6. /\ engine' = [engine EXCEPT ![w] = engine'[w]]
        /\ engine'[w] = [packet |-> p, todo |-> engine[w].todo, mission |-> m,
                         row |-> row, step |-> "write"]
    BY <1>2, <1>3, <1>5 DEF FindProgress, EngineInv, CompletionInv, EngineRecords
  <1>7. engine' \in [Workers -> EngineRecords]
    BY <1>2, <1>6 DEF EngineInv, CompletionInv, EngineRecords
  <1>8. GoodRow(m, OperatorOf[p], row)'
    BY <1>1, <1>4, <1>5, StaysGood DEF EngineInv, CompletionInv
  <1>9. WorkerInv(w)'
    BY <1>1, <1>2, <1>3, <1>6, <1>8 DEF WorkerInv, Decides, Inhabits, adjustTimestamp
  <1>10. TickInv'
    BY <1>1 DEF EngineInv, PosInv, TickInv
  <1> QED BY <1>1, <1>6, <1>7, <1>9, <1>10, RowsStay DEF EngineInv, CompletionInv

\* What Upsert does to its worker's row and to the table.
Upserted(w, m, p, old, new) ==
    /\ m \in engine[w].todo
    /\ history[p] > 0 /\ OperatorOf[p] \in Operators
    /\ engine[w].packet = p /\ Decides(m, p)
    /\ engine[w].row = old /\ Key(w) = <<m, OperatorOf[p]>>
    /\ new = Written(old, m, p)
    /\ GoodRow(m, OperatorOf[p], new)
    /\ old.completed => new.completed /\ new.completedAt = old.completedAt
    /\ engine' = [engine EXCEPT ![w] = [@ EXCEPT !.row = new, !.step = "publish"]]
    /\ \/ UNCHANGED progress
       \/ /\ progress' = [progress EXCEPT ![<<m, OperatorOf[p]>>] = new]
          /\ progress[<<m, OperatorOf[p]>>] = old
                \/ <<m, OperatorOf[p]>> \in overlapped'

LEMMA UpsertStep ==
  ASSUME EngineInv, NEW w \in Workers, Upsert(w)
  PROVE  \E m \in Missions, p \in Packets, old \in Rows, new \in Rows :
            Upserted(w, m, p, old, new)
  <1>1. engine[w].step = "write"
    BY DEF Upsert
  <1>2. /\ engine[w] \in EngineRecords
        /\ engine[w].packet \in Packets /\ history[engine[w].packet] > 0
        /\ engine[w].mission \in engine[w].todo
        /\ Decides(engine[w].mission, engine[w].packet)
        /\ GoodRow(engine[w].mission, OperatorOf[engine[w].packet], engine[w].row)
    BY <1>1 DEF EngineInv, CompletionInv, WorkerInv, Resting
  <1>3. PICK p \in Packets : p = engine[w].packet
    BY <1>2
  <1>4. PICK m \in Missions : m = engine[w].mission
    BY <1>2 DEF EngineRecords
  <1>5. PICK old \in Rows : old = engine[w].row
    BY <1>2 DEF EngineRecords
  <1>6. OperatorOf[p] \in Operators /\ Key(w) = <<m, OperatorOf[p]>>
    BY <1>3, <1>4, PositionConstants DEF Key
  <1>7. /\ Written(old, m, p) \in Rows
        /\ GoodRow(m, OperatorOf[p], Written(old, m, p))
        /\ old.completed => /\ Written(old, m, p).completed
                            /\ Written(old, m, p).completedAt = old.completedAt
    BY <1>2, <1>3, <1>4, <1>5, WrittenIsGood
  <1>8. PICK new \in Rows : new = Written(old, m, p)
    BY <1>7
  <1>9. engine' = [engine EXCEPT ![w] = [@ EXCEPT !.row = new, !.step = "publish"]]
    BY <1>3, <1>4, <1>5, <1>8 DEF Upsert
  <1>10. CASE Rewrites(w)
    <2>1. /\ progress' = [progress EXCEPT ![<<m, OperatorOf[p]>>] = new]
          /\ overlapped' = IF progress[<<m, OperatorOf[p]>>] # old
                           THEN overlapped \cup {<<m, OperatorOf[p]>>} ELSE overlapped
      BY <1>3, <1>4, <1>5, <1>6, <1>8, <1>10 DEF Upsert
    <2> QED BY <1>2, <1>3, <1>4, <1>5, <1>6, <1>7, <1>8, <1>9, <2>1 DEF Upserted
  <1>11. CASE ~Rewrites(w)
    <2>1. UNCHANGED progress
      BY <1>11 DEF Upsert
    <2> QED BY <1>2, <1>3, <1>4, <1>5, <1>6, <1>7, <1>8, <1>9, <2>1 DEF Upserted
  <1> QED BY <1>10, <1>11

LEMMA UpsertInv ==
  ASSUME EngineInv, NEW w \in Workers, Upsert(w)
  PROVE  TickInv' /\ CompletionInv'
  <1>1. PICK m \in Missions, p \in Packets, old \in Rows, new \in Rows :
            Upserted(w, m, p, old, new)
    BY UpsertStep
  <1> USE DEF Upserted
  <1>2. UNCHANGED <<history, tick, offered>> /\ engine[w].step = "write"
    BY DEF Upsert, posVars
  <1>3. TickInv'
    BY <1>2 DEF EngineInv, PosInv, TickInv
  <1>4. progress' \in [Pairs -> Rows]
    BY <1>1 DEF EngineInv, CompletionInv, Pairs
  <1>5. GoodRow(m, OperatorOf[p], new)'
    BY <1>1, <1>2, StaysGood
  <1>6. ASSUME NEW n \in Missions, NEW o \in Operators PROVE GoodRow(n, o, progress[<<n, o>>])'
    <2>1. CASE progress'[<<n, o>>] = progress[<<n, o>>]
      BY <1>2, <2>1, StaysGood DEF EngineInv, CompletionInv
    <2>2. CASE n = m /\ o = OperatorOf[p] /\ progress'[<<n, o>>] = new
      BY <1>5, <2>2
    <2>3. <<n, o>> \in Pairs
      BY DEF Pairs
    <2> QED BY <1>1, <2>1, <2>2, <2>3 DEF EngineInv, CompletionInv
  <1>7. /\ engine[w] \in EngineRecords /\ engine[w] # Resting
        /\ \A n \in engine[w].todo : Decides(n, p)
        /\ engine[w].mission \in engine[w].todo
    BY <1>1, <1>2 DEF EngineInv, CompletionInv, WorkerInv, Resting
  <1>8. /\ engine'[w] \in EngineRecords
        /\ engine'[w].packet = p /\ engine'[w].todo = engine[w].todo
        /\ engine'[w].mission = engine[w].mission /\ engine'[w].step = "publish"
    BY <1>1, <1>7 DEF EngineInv, CompletionInv, EngineRecords
  <1>9. engine' \in [Workers -> EngineRecords]
    BY <1>1, <1>8 DEF EngineInv, CompletionInv
  <1>10. WorkerInv(w)'
    BY <1>1, <1>2, <1>7, <1>8 DEF WorkerInv, Decides, Inhabits, adjustTimestamp
  <1>11. ASSUME NEW v \in Workers PROVE WorkerInv(v)'
    <2>1. CASE v = w
      BY <1>10, <2>1
    <2>2. CASE v # w
      <3>1. engine'[v] = engine[v] /\ WorkerInv(v)
        BY <1>1, <2>2 DEF EngineInv, CompletionInv
      <3> QED
        BY <1>2, <3>1, StaysGood DEF WorkerInv, Decides, Inhabits, adjustTimestamp
    <2> QED BY <2>1, <2>2
  <1>12. offered' \subseteq Missions
    BY <1>2 DEF EngineInv, CompletionInv
  <1> QED BY <1>3, <1>4, <1>6, <1>9, <1>11, <1>12 DEF CompletionInv

\* A worker that ends its job, or goes on to the next mission, and its tick.
LEMMA ReleaseInv ==
  ASSUME EngineInv, NEW w \in Workers, engine[w] # Resting,
         UNCHANGED <<history, progress, offered>>,
         NEW j \in JobRecords,
         UNCHANGED tick \/ tick' = [tick EXCEPT ![engine[w].packet] = j],
         NEW left \in SUBSET engine[w].todo,
         \/ UNCHANGED engine
         \/ engine' = [engine EXCEPT ![w] = Resting]
         \/ engine' = [engine EXCEPT ![w] = [@ EXCEPT !.todo = left, !.mission = None,
                                                      !.row = Fresh, !.step = "read"]]
  PROVE  TickInv' /\ CompletionInv'
  <1>1. /\ engine[w] \in EngineRecords
        /\ engine[w].packet \in Packets /\ history[engine[w].packet] > 0
        /\ \A m \in engine[w].todo : Decides(m, engine[w].packet)
    BY DEF EngineInv, CompletionInv, WorkerInv
  <1>2. TickInv'
    <2>1. CASE UNCHANGED tick
      BY <2>1 DEF EngineInv, PosInv, TickInv
    <2>2. CASE tick' = [tick EXCEPT ![engine[w].packet] = j]
      BY <1>1, <2>2, TickMoves DEF EngineInv, PosInv
    <2> QED BY <2>1, <2>2
  <1>3. /\ CompletionInv /\ UNCHANGED progress /\ offered' \subseteq Missions
        /\ \A p \in Packets : history[p] > 0 => history'[p] > 0
        /\ engine \in [Workers -> EngineRecords]
    BY DEF EngineInv, CompletionInv
  <1>4. CASE UNCHANGED engine
    BY <1>2, <1>3, <1>4, RowsStay
  <1>5. CASE engine' = [engine EXCEPT ![w] = Resting]
    <2>1. engine'[w] = Resting /\ Resting \in EngineRecords
      BY <1>3, <1>5, FreshIsRow DEF Resting, EngineRecords
    <2>2. WorkerInv(w)'
      BY <2>1 DEF WorkerInv, Resting
    <2>3. /\ engine' \in [Workers -> EngineRecords]
          /\ \A v \in Workers \ {w} : engine'[v] = engine[v]
      BY <1>3, <1>5, <2>1
    <2> QED BY <1>2, <1>3, <2>2, <2>3, RowsStay
  <1>6. CASE engine' = [engine EXCEPT ![w] = [@ EXCEPT !.todo = left, !.mission = None,
                                                       !.row = Fresh, !.step = "read"]]
    <2>1. engine'[w] = [packet |-> engine[w].packet, todo |-> left, mission |-> None,
                        row |-> Fresh, step |-> "read"]
      BY <1>1, <1>3, <1>6 DEF EngineRecords
    <2>2. engine'[w] \in EngineRecords
      BY <1>1, <2>1, FreshIsRow DEF EngineRecords
    <2>3. WorkerInv(w)'
      <3>1. /\ engine'[w].packet = engine[w].packet /\ engine'[w].step = "read"
            /\ \A m \in engine'[w].todo : Decides(m, engine[w].packet)
        BY <1>1, <2>1
      <3> QED BY <1>1, <3>1 DEF WorkerInv, Decides, Inhabits, adjustTimestamp
    <2>4. /\ engine' \in [Workers -> EngineRecords]
          /\ \A v \in Workers \ {w} : engine'[v] = engine[v]
      BY <1>3, <1>6, <2>2
    <2> QED BY <1>2, <1>3, <2>3, <2>4, RowsStay
  <1> QED BY <1>4, <1>5, <1>6

LEMMA EngineStepInv ==
  ASSUME EngineInv, EngineStep
  PROVE  EngineInv'
  <1> SUFFICES TickInv' /\ CompletionInv'
    BY PosVarsStay DEF EngineInv
  <1>1. ASSUME NEW w \in Workers, NEW p \in Packets, TakeTick(w, p)
        PROVE  TickInv' /\ CompletionInv'
    BY <1>1, TakeTickInv
  <1>2. ASSUME NEW w \in Workers, NEW m \in Missions, FindProgress(w, m)
        PROVE  TickInv' /\ CompletionInv'
    BY <1>2, FindProgressInv
  <1>3. ASSUME NEW w \in Workers, Upsert(w) PROVE TickInv' /\ CompletionInv'
    BY <1>3, UpsertInv
  <1>4. ASSUME NEW w \in Workers, Publish(w) \/ LoseMessage(w) \/ FailTick(w) \/ LoseTick(w)
        PROVE  TickInv' /\ CompletionInv'
    <2>1. UNCHANGED <<history, progress, offered>> /\ engine[w] # Resting
      BY <1>4 DEF Publish, LoseMessage, FailTick, LoseTick, pipelineVars, Resting
    <2>2. engine[w].packet \in Packets
      BY <2>1 DEF EngineInv, CompletionInv, WorkerInv
    <2>3. PICK j \in JobRecords : j = tick[engine[w].packet]
      BY <2>2 DEF EngineInv, PosInv, TickInv
    <2>4. /\ FinishedBy(j, w) \in JobRecords /\ FailedBy(j, w) \in JobRecords
          /\ ReleasedBy(j, w) \in JobRecords
      BY JobSteps
    <2>5. CASE Publish(w) \/ LoseMessage(w)
      <3>1. Proceed(w)
        BY <2>5 DEF Publish, LoseMessage
      <3>2. PICK left \in SUBSET engine[w].todo : left = engine[w].todo \ {engine[w].mission}
        OBVIOUS
      <3>3. CASE left = {}
        <4>1. /\ engine' = [engine EXCEPT ![w] = Resting]
              /\ tick' = [tick EXCEPT ![engine[w].packet] = FinishedBy(j, w)]
          BY <2>3, <3>1, <3>2, <3>3 DEF Proceed
        <4> QED BY <2>1, <2>4, <4>1, ReleaseInv
      <3>4. CASE left # {}
        <4>1. /\ engine' = [engine EXCEPT ![w] = [@ EXCEPT !.todo = left, !.mission = None,
                                                           !.row = Fresh, !.step = "read"]]
              /\ UNCHANGED tick
          BY <3>1, <3>2, <3>4 DEF Proceed
        <4> QED BY <2>1, <2>4, <4>1, ReleaseInv
      <3> QED BY <3>3, <3>4
    <2>6. CASE FailTick(w)
      <3>1. /\ engine' = [engine EXCEPT ![w] = Resting]
            /\ tick' = [tick EXCEPT ![engine[w].packet] = FailedBy(j, w)]
        BY <2>3, <2>6 DEF FailTick
      <3> QED BY <2>1, <2>4, <3>1, ReleaseInv
    <2>7. CASE LoseTick(w)
      <3>1. /\ engine' = [engine EXCEPT ![w] = Resting] \/ UNCHANGED engine
            /\ tick' = [tick EXCEPT ![engine[w].packet] = ReleasedBy(j, w)]
        BY <2>3, <2>7 DEF LoseTick
      <3> QED BY <2>1, <2>4, <3>1, ReleaseInv
    <2> QED BY <1>4, <2>5, <2>6, <2>7
  <1>5. ASSUME NEW m \in Missions, PatchStatus(m) PROVE TickInv' /\ CompletionInv'
    <2>1. UNCHANGED <<history, progress, engine, tick>> /\ offered' \subseteq Missions
      BY <1>5 DEF PatchStatus, pipelineVars, EngineInv, CompletionInv
    <2> QED BY <2>1, RowsStay DEF EngineInv, PosInv, TickInv, CompletionInv
  <1> QED BY <1>1, <1>2, <1>3, <1>4, <1>5 DEF EngineStep, Work

LEMMA EngineInvariant == EngineSpec => []EngineInv
  <1>1. EngineInit => EngineInv
    BY CompletionInitInv DEF EngineInv
  <1>2. EngineInv /\ [EngineNext]_allVars => EngineInv'
    <2> SUFFICES ASSUME EngineInv, [EngineNext]_allVars PROVE EngineInv'
      OBVIOUS
    <2>1. CASE PosNext /\ UNCHANGED engineVars
      <3>1. PosInv'
        BY <2>1, PosPreserves DEF EngineInv
      <3>2. \A p \in Packets : history[p] > 0 => history'[p] > 0
        BY <2>1, HistoryGrows DEF EngineInv, PosInv, RecordInv
      <3>3. CompletionInv'
        BY <2>1, <3>2, RowsStay DEF engineVars, EngineInv, CompletionInv
      <3> QED BY <3>1, <3>3 DEF EngineInv
    <2>2. CASE EngineStep
      BY <2>2, EngineStepInv
    <2>3. CASE UNCHANGED allVars
      <3>1. UNCHANGED <<run, dedup, history, live, tick, expired, offered, progress, engine>>
        BY <2>3 DEF allVars, posVars, engineVars
      <3>2. PosInv'
        BY <3>1 DEF EngineInv, PosInv, RecordInv, FirstRecording, Recording, ShownInv,
                    LiveIsRecorded, TickInv
      <3>3. CompletionInv'
        BY <3>1, RowsStay DEF EngineInv, CompletionInv
      <3> QED BY <3>2, <3>3 DEF EngineInv
    <2> QED BY <2>1, <2>2, <2>3, EngineSteps
  <1> QED BY <1>1, <1>2, PTL DEF EngineSpec

\* The live map never runs ahead of the history, whatever fails between the two
\* stores (positions.processor.ts:57-84).
THEOREM ShownIsRecorded == EngineSpec => []LiveIsRecorded
  <1>1. EngineInv => LiveIsRecorded
    BY DEF EngineInv, PosInv, ShownInv
  <1> QED BY <1>1, EngineInvariant, PTL

\* A completed mission was earned by a recorded position of that operator inside
\* the zone and the window (mission-engine.service.ts:74-212).
THEOREM CompletionEarned == EngineSpec => []CompletionIsEarned
  <1>1. EngineInv => CompletionIsEarned
    <2> SUFFICES ASSUME EngineInv, NEW m \in Missions, NEW o \in Operators,
                        progress[<<m, o>>].completed
                 PROVE  \E p \in Packets : /\ Earns(p, m, o)
                                           /\ adjustTimestamp(p) = progress[<<m, o>>].completedAt
      BY DEF CompletionIsEarned, Pairs, Earns
    <2> QED BY DEF EngineInv, CompletionInv, GoodRow
  <1> QED BY <1>1, EngineInvariant, PTL

\* A completion is never taken back and never dated anew, except where two
\* workers wrote one row at once (mission-engine.service.ts:185-212).
THEOREM CompletionFinal == EngineSpec => CompletionIsFinalUnlessOverlapped
  <1> DEFINE Final ==
        \A x \in Pairs \ overlapped' :
            progress[x].completed => /\ progress'[x].completed
                                     /\ progress'[x].completedAt = progress[x].completedAt
  <1>1. EngineInv /\ [EngineNext]_allVars => Final
    <2> SUFFICES ASSUME EngineInv, [EngineNext]_allVars PROVE Final
      OBVIOUS
    <2>1. ASSUME NEW w \in Workers, Upsert(w) PROVE Final
      <3>1. PICK m \in Missions, p \in Packets, old \in Rows, new \in Rows :
                Upserted(w, m, p, old, new)
        BY <2>1, UpsertStep
      <3> QED BY <3>1 DEF Upserted, EngineInv, CompletionInv, Pairs
    <2>2. CASE UNCHANGED progress
      BY <2>2
    <2> QED
      BY <2>1, <2>2 DEF EngineNext, engineVars, allVars, Work, TakeTick, FindProgress,
                        Publish, LoseMessage, FailTick, LoseTick, PatchStatus
  <1>2. EngineInv /\ [EngineNext]_allVars => [Final]_allVars
    BY <1>1
  <1> QED BY <1>2, EngineInvariant, PTL DEF EngineSpec, CompletionIsFinalUnlessOverlapped

-----------------------------------------------------------------------------
(* Types: a job, and who holds it *)

\* A job that is not over has an attempt left, and only a job that is being run
\* has a holder.
JobOK(j) ==
    /\ j \in Jobs
    /\ j.state \in {"absent", "waiting", "active"} => j.tries < Attempts
    /\ j.by # Nobody => j.state = "active"

LEMMA JobsAreOK ==
  ASSUME NEW j, JobOK(j), NEW w \in Workers
  PROVE  /\ JobOK(NoJob) /\ JobOK(Added(j)) /\ JobOK(FinishedBy(j, w))
         /\ JobOK(FailedBy(j, w)) /\ JobOK(ReleasedBy(j, w))
         /\ j.state = "waiting" => /\ JobOK(TakenBy(j, w)) /\ TakenBy(j, w).by = w
                                   /\ JobOK(FinishedBy(TakenBy(j, w), w))
                                   /\ JobOK(FailedBy(TakenBy(j, w), w))
  <1> USE QueueConstants DEF JobOK, Jobs
  <1>1. JobOK(NoJob) /\ JobOK(Added(j))
    BY DEF NoJob, Added
  <1>2. JobOK(FinishedBy(j, w)) /\ JobOK(ReleasedBy(j, w))
    <2>1. JobOK(FinishedBy(j, w))
      BY DEF FinishedBy
    <2>2. CASE j.by # w
      BY <2>1, <2>2 DEF ReleasedBy
    <2>3. CASE j.by = w
      <3>1. /\ j \in JobRecords
            /\ j.stalls \in 0..MaxStalled /\ j.tries \in 0..Attempts /\ j.tries < Attempts
        BY <2>3 DEF JobRecords
      <3>2. j.stalls < MaxStalled => j.stalls + 1 \in 0..MaxStalled
        BY <3>1
      <3>3. CASE j.stalls < MaxStalled
        <4>1. ReleasedBy(j, w) =
                [state |-> "waiting", tries |-> j.tries, stalls |-> j.stalls + 1, by |-> Nobody]
          BY <2>3, <3>1, <3>3, JobForms
        <4> QED BY <2>1, <3>1, <3>2, <3>3, <4>1
      <3>4. CASE ~(j.stalls < MaxStalled)
        <4>1. ReleasedBy(j, w) =
                [state |-> "failed", tries |-> j.tries, stalls |-> j.stalls, by |-> Nobody]
          BY <2>3, <3>1, <3>4, JobForms
        <4> QED BY <2>1, <3>1, <4>1
      <3> QED BY <3>3, <3>4
    <2> QED BY <2>1, <2>2, <2>3
  <1>3. ASSUME NEW k, JobOK(k) PROVE JobOK(FinishedBy(k, w)) /\ JobOK(FailedBy(k, w))
    <2>1. JobOK(FinishedBy(k, w))
      BY <1>3 DEF FinishedBy
    <2>2. CASE k.by # w
      BY <1>3, <2>1, <2>2 DEF FailedBy
    <2>3. CASE k.by = w
      <3>1. k.tries + 1 \in 0..Attempts
        BY <1>3, <2>3
      <3>2. FailedBy(k, w) = [state |-> IF k.tries + 1 < Attempts THEN "waiting" ELSE "failed",
                              tries |-> k.tries + 1, stalls |-> k.stalls, by |-> Nobody]
        <4>1. k \in JobRecords
          BY <1>3 DEF JobRecords
        <4> QED BY <2>3, <4>1, JobForms
      <3>3. k.stalls \in 0..MaxStalled
        BY <1>3
      <3> QED BY <2>1, <3>1, <3>2, <3>3
    <2> QED BY <2>2, <2>3
  <1>4. ASSUME j.state = "waiting" PROVE JobOK(TakenBy(j, w)) /\ TakenBy(j, w).by = w
    BY <1>4 DEF TakenBy
  <1> QED BY <1>1, <1>2, <1>3, <1>4

\* Nobody holds a job by failing it, finishing it or losing it.
LEMMA Holders ==
  ASSUME NEW j \in Jobs, NEW w \in Workers, NEW v \in Workers
  PROVE  /\ NoJob.by # v /\ Added(j).by = j.by
         /\ FinishedBy(j, w).by = v => j.by = v /\ v # w
         /\ FailedBy(j, w).by = v => j.by = v /\ v # w
         /\ ReleasedBy(j, w).by = v => j.by = v /\ v # w
         /\ TakenBy(j, w).by = v => v = w
         /\ FinishedBy(TakenBy(j, w), w).by # v
         /\ FailedBy(TakenBy(j, w), w).by # v
  BY QueueConstants DEF Jobs, NoJob, Added, FinishedBy, FailedBy, ReleasedBy, TakenBy

\* A worker that holds a job in the queue is working on it.
IngestJobs ==
    \A p \in Packets : /\ JobOK(ingested[p])
                       /\ \A w \in Workers : ingested[p].by = w => run[w].packet = p
TickJobs ==
    \A p \in Packets : /\ JobOK(tick[p])
                       /\ \A w \in Workers : tick[p].by = w => engine[w].packet = p

JobInv ==
    /\ ingested \in [Packets -> Jobs] /\ tick \in [Packets -> Jobs]
    /\ IngestJobs /\ TickJobs

\* One job changes, and one worker takes it up or lets it go.
LEMMA IngestMoves ==
  ASSUME JobInv,
         NEW p \in Packets, NEW j \in Jobs, JobOK(j), ingested' = [ingested EXCEPT ![p] = j],
         NEW w \in Workers,
         run[w].packet \in {p, None},
         \A v \in Workers \ {w} : run'[v].packet = run[v].packet,
         \A v \in Workers \ {w} : j.by = v => ingested[p].by = v,
         j.by = w => run'[w].packet = p
  PROVE  ingested' \in [Packets -> Jobs] /\ IngestJobs'
  <1>1. ingested' \in [Packets -> Jobs]
    BY DEF JobInv, JobOK
  <1>2. ASSUME NEW q \in Packets, NEW v \in Workers, ingested'[q].by = v
        PROVE  run'[v].packet = q
    <2>1. CASE q = p
      BY <1>2, <2>1 DEF JobInv, IngestJobs
    <2>2. CASE q # p
      BY <1>2, <2>2, PositionConstants DEF JobInv, IngestJobs
    <2> QED BY <2>1, <2>2
  <1>3. ASSUME NEW q \in Packets PROVE JobOK(ingested'[q])
    BY DEF JobInv, IngestJobs
  <1> QED BY <1>1, <1>2, <1>3 DEF IngestJobs, JobOK

LEMMA TickJobMoves ==
  ASSUME JobInv,
         NEW p \in Packets, NEW j \in Jobs, JobOK(j), tick' = [tick EXCEPT ![p] = j],
         NEW w \in Workers,
         engine[w].packet \in {p, None},
         \A v \in Workers \ {w} : engine'[v].packet = engine[v].packet,
         \A v \in Workers \ {w} : j.by = v => tick[p].by = v,
         j.by = w => engine'[w].packet = p
  PROVE  tick' \in [Packets -> Jobs] /\ TickJobs'
  <1>1. tick' \in [Packets -> Jobs]
    BY DEF JobInv, JobOK
  <1>2. ASSUME NEW q \in Packets, NEW v \in Workers, tick'[q].by = v
        PROVE  engine'[v].packet = q
    <2>1. CASE q = p
      BY <1>2, <2>1 DEF JobInv, TickJobs
    <2>2. CASE q # p
      BY <1>2, <2>2, PositionConstants DEF JobInv, TickJobs
    <2> QED BY <2>1, <2>2
  <1>3. ASSUME NEW q \in Packets PROVE JobOK(tick'[q])
    BY DEF JobInv, TickJobs
  <1> QED BY <1>1, <1>2, <1>3 DEF TickJobs, JobOK

\* The engine stands still while the pipeline moves, and the other way round.
LEMMA EnqueueTickJobs ==
  ASSUME TickJobs, tick \in [Packets -> Jobs], UNCHANGED engine,
         NEW p \in Packets, EnqueueTick(p)
  PROVE  tick' \in [Packets -> Jobs] /\ TickJobs'
  <1>1. CASE UNCHANGED tick
    BY <1>1 DEF TickJobs, JobOK
  <1>2. CASE tick' = [tick EXCEPT ![p] = Added(@)]
    <2>1. Added(tick[p]).by = tick[p].by /\ Added(tick[p]) \in Jobs
      BY DEF Added, Jobs
    <2>2. JobOK(Added(tick[p]))
      BY QueueConstants DEF TickJobs, JobOK, Added, Jobs
    <2> QED BY <1>2, <2>1, <2>2 DEF TickJobs, JobOK
  <1> QED BY <1>1, <1>2 DEF EnqueueTick

LEMMA JobInitInv == EngineInit => JobInv
  <1> SUFFICES ASSUME EngineInit PROVE JobInv
    OBVIOUS
  <1>1. JobOK(NoJob) /\ \A w \in Workers : NoJob.by # w
    BY QueueConstants DEF JobOK, Jobs, NoJob
  <1> QED BY <1>1 DEF EngineInit, PosInit, JobInv, IngestJobs, TickJobs, JobOK

LEMMA PosJobs ==
  ASSUME EngineInv, JobInv, PosNext, UNCHANGED engine
  PROVE  JobInv'
  <1> USE DEF EngineInv, PosInv, RecordInv
  <1> DEFINE Ingests == ingested' \in [Packets -> Jobs] /\ IngestJobs'
             Ticks == tick' \in [Packets -> Jobs] /\ TickJobs'
  <1>1. ASSUME UNCHANGED tick PROVE Ticks
    BY <1>1 DEF JobInv, TickJobs, JobOK
  <1>2. ASSUME UNCHANGED ingested, \A w \in Workers : run'[w].packet = run[w].packet
        PROVE  Ingests
    BY <1>2 DEF JobInv, IngestJobs, JobOK
  <1>3. ASSUME NEW o \in Operators, Fade(o) PROVE Ingests /\ Ticks
    BY <1>1, <1>2, <1>3 DEF Fade
  <1>4. ASSUME NEW p \in Packets, Ingest(p) \/ Expire(p) \/ Purge(p) PROVE Ingests /\ Ticks
    <2>1. CASE UNCHANGED ingested
      BY <1>1, <1>2, <1>4, <2>1 DEF Ingest, Expire, Purge
    <2>2. CASE Ingest(p) \/ Purge(p)
      <3>1. PICK j : /\ j \in {NoJob, Added(ingested[p])}
                     /\ ingested' = [ingested EXCEPT ![p] = j]
        BY <2>2 DEF Ingest, Purge
      <3>2. JobOK(j) /\ \A w \in Workers : j.by = w => ingested[p].by = w
        <4>1. JobOK(ingested[p]) /\ \A w \in Workers : NoJob.by # w
          BY QueueConstants DEF JobInv, IngestJobs, JobOK, NoJob
        <4>2. CASE j = NoJob
          BY <4>1, <4>2, QueueConstants DEF JobOK, NoJob, Jobs
        <4>3. CASE j = Added(ingested[p])
          BY <4>1, <4>3, QueueConstants DEF JobOK, Added, Jobs
        <4> QED BY <3>1, <4>2, <4>3
      <3>3. UNCHANGED <<run, tick>>
        BY <2>2 DEF Ingest, Purge
      <3>4. Ingests
        BY <3>1, <3>2, <3>3 DEF JobInv, IngestJobs, JobOK
      <3> QED BY <1>1, <3>3, <3>4
    <2> QED BY <1>4, <2>1, <2>2 DEF Expire
  <1>5. ASSUME NEW w \in Workers, NEW p \in Packets, Dedup(w, p) \/ FailDedup(w, p)
        PROVE  Ingests /\ Ticks
    <2>1. /\ ingested[p].state = "waiting" /\ JobOK(ingested[p]) /\ ingested[p] \in Jobs
          /\ run[w].packet = None /\ UNCHANGED tick
      BY <1>5 DEF Dedup, FailDedup, JobInv, IngestJobs, Idle
    <2>2. CASE /\ ingested' = [ingested EXCEPT ![p] = TakenBy(@, w)]
               /\ run' = [run EXCEPT ![w] = [packet |-> p, step |-> "insert"]]
      <3>1. /\ JobOK(TakenBy(ingested[p], w))
            /\ \A v \in Workers \ {w} : TakenBy(ingested[p], w).by # v
        BY <2>1, JobsAreOK, Holders
      <3>2. run'[w].packet = p /\ \A v \in Workers \ {w} : run'[v].packet = run[v].packet
        BY <2>2
      <3>3. PICK j \in Jobs : j = TakenBy(ingested[p], w)
        BY <3>1 DEF JobOK
      <3>4. ingested' = [ingested EXCEPT ![p] = j]
        BY <2>2, <3>3
      <3>5. /\ run[w].packet \in {p, None} /\ JobOK(j) /\ run'[w].packet = p
            /\ \A v \in Workers \ {w} : j.by = v => ingested[p].by = v
        BY <2>1, <3>1, <3>2, <3>3
      <3>6. Ingests
        BY ZenonT(40), <3>2, <3>4, <3>5, IngestMoves
      <3> QED BY <1>1, <2>1, <3>6
    <2>3. CASE /\ UNCHANGED run
               /\ \/ ingested' = [ingested EXCEPT ![p] = FinishedBy(TakenBy(@, w), w)]
                  \/ ingested' = [ingested EXCEPT ![p] = FailedBy(TakenBy(@, w), w)]
      <3>1. PICK j \in Jobs : /\ ingested' = [ingested EXCEPT ![p] = j]
                               /\ j \in {FinishedBy(TakenBy(ingested[p], w), w),
                                         FailedBy(TakenBy(ingested[p], w), w)}
        BY <2>1, <2>3, JobsAreOK DEF JobOK
      <3>2. JobOK(j) /\ \A v \in Workers : j.by # v
        BY <2>1, <3>1, JobsAreOK, Holders
      <3>3. /\ run[w].packet \in {p, None}
            /\ \A v \in Workers \ {w} : run'[v].packet = run[v].packet
            /\ \A v \in Workers \ {w} : j.by = v => ingested[p].by = v
            /\ j.by = w => run'[w].packet = p
        BY <2>1, <2>3, <3>2
      <3>4. ingested' = [ingested EXCEPT ![p] = j] /\ JobOK(j)
        BY <3>1, <3>2
      <3>5. Ingests
        BY ZenonT(40), <3>3, <3>4, IngestMoves
      <3> QED BY <1>1, <2>1, <3>5
    <2> QED BY <1>5, <2>2, <2>3 DEF Dedup, FailDedup
  <1>6. ASSUME NEW w \in Workers, Insert(w) \/ Show(w) PROVE Ingests /\ Ticks
    <2>1. \E s : run' = [run EXCEPT ![w].step = s]
      BY <1>6 DEF Insert, Show, Goto
    <2>2. run[w] \in [packet : Packets, step : {"insert", "show", "enqueue"}]
      BY <1>6 DEF Insert, Show, At, Runs, Idle
    <2>3. \A v \in Workers : run'[v].packet = run[v].packet
      BY <2>1, <2>2
    <2> QED BY <1>1, <1>2, <1>6, <2>3 DEF Insert, Show
  <1>7. ASSUME NEW w \in Workers, FanOut(w) \/ LoseEnqueue(w) \/ FailRun(w) \/ LoseLock(w)
        PROVE  Ingests /\ Ticks
    <2>1. PICK p \in Packets : p = run[w].packet
      BY <1>7 DEF FanOut, LoseEnqueue, FailRun, LoseLock, At, Runs, Idle
    <2>2. PICK j \in Jobs : /\ ingested' = [ingested EXCEPT ![p] = j]
                             /\ j \in {FinishedBy(ingested[p], w), FailedBy(ingested[p], w),
                                       ReleasedBy(ingested[p], w)}
      <3>1. /\ FinishedBy(ingested[p], w) \in Jobs /\ FailedBy(ingested[p], w) \in Jobs
            /\ ReleasedBy(ingested[p], w) \in Jobs
        BY JobsAreOK DEF JobInv, IngestJobs, JobOK
      <3> QED BY <1>7, <2>1, <3>1 DEF FanOut, LoseEnqueue, FailRun, LoseLock, Return
    <2>3. JobOK(j) /\ \A v \in Workers : j.by = v => ingested[p].by = v /\ v # w
      BY <2>2, JobsAreOK, Holders DEF JobInv, IngestJobs
    <2>4. \A v \in Workers \ {w} : run'[v].packet = run[v].packet
      BY <1>7 DEF FanOut, LoseEnqueue, FailRun, LoseLock, Return
    <2>5. Ingests
      <3>1. /\ run[w].packet \in {p, None}
            /\ \A v \in Workers \ {w} : j.by = v => ingested[p].by = v
            /\ j.by = w => run'[w].packet = p
        BY <2>1, <2>3
      <3>2. ingested' = [ingested EXCEPT ![p] = j] /\ JobOK(j)
        BY <2>2, <2>3
      <3> QED BY ZenonT(40), <2>4, <3>1, <3>2, IngestMoves
    <2>6. EnqueueTick(p) \/ UNCHANGED tick
      BY <1>7, <2>1 DEF FanOut, LoseEnqueue, FailRun, LoseLock
    <2>7. Ticks
      BY <1>1, <2>6, EnqueueTickJobs DEF JobInv
    <2> QED BY <2>5, <2>7
  <1> QED BY <1>3, <1>4, <1>5, <1>6, <1>7 DEF PosNext, Process, JobInv

LEMMA EngineJobs ==
  ASSUME EngineInv, JobInv, EngineStep
  PROVE  JobInv'
  <1>1. ingested' \in [Packets -> Jobs] /\ IngestJobs'
    <2>1. UNCHANGED <<ingested, run>>
      BY DEF EngineStep, Work, TakeTick, FindProgress, Upsert, Publish, LoseMessage,
             FailTick, LoseTick, PatchStatus, pipelineVars, posVars
    <2> QED BY <2>1 DEF JobInv, IngestJobs, JobOK
  <1> DEFINE Ticks == tick' \in [Packets -> Jobs] /\ TickJobs'
  <1>2. ASSUME UNCHANGED tick, \A w \in Workers : engine'[w].packet = engine[w].packet
        PROVE  Ticks
    BY <1>2 DEF JobInv, TickJobs, JobOK
  <1>3. ASSUME NEW w \in Workers, NEW p \in Packets, TakeTick(w, p) PROVE Ticks
    <2>1. /\ tick[p].state = "waiting" /\ JobOK(tick[p]) /\ tick[p] \in Jobs
          /\ engine[w].packet = None /\ engine \in [Workers -> EngineRecords]
      BY <1>3 DEF TakeTick, JobInv, TickJobs, Resting, EngineInv, CompletionInv
    <2>2. PICK todo : todo = {m \in offered : Decides(m, p)}
      OBVIOUS
    <2>3. CASE todo # {}
      <3>1. /\ tick' = [tick EXCEPT ![p] = TakenBy(@, w)]
            /\ engine' = [engine EXCEPT ![w] =
                   [Resting EXCEPT !.packet = p, !.todo = todo, !.step = "read"]]
        BY <1>3, <2>2, <2>3 DEF TakeTick
      <3>2. PICK j \in Jobs : j = TakenBy(tick[p], w) /\ JobOK(j)
        BY <2>1, JobsAreOK DEF JobOK
      <3>3. tick' = [tick EXCEPT ![p] = j] /\ JobOK(j)
        BY <3>1, <3>2
      <3>4. /\ engine[w].packet \in {p, None}
            /\ \A v \in Workers \ {w} : engine'[v].packet = engine[v].packet
            /\ \A v \in Workers \ {w} : j.by = v => tick[p].by = v
            /\ j.by = w => engine'[w].packet = p
        BY <2>1, <3>1, <3>2, Holders DEF Resting
      <3> QED BY ZenonT(40), <3>3, <3>4, TickJobMoves
    <2>4. CASE todo = {}
      <3>1. tick' = [tick EXCEPT ![p] = FinishedBy(TakenBy(@, w), w)] /\ UNCHANGED engine
        BY <1>3, <2>2, <2>4 DEF TakeTick
      <3>2. PICK j \in Jobs : j = FinishedBy(TakenBy(tick[p], w), w) /\ JobOK(j)
        BY <2>1, JobsAreOK DEF JobOK
      <3>3. tick' = [tick EXCEPT ![p] = j] /\ JobOK(j)
        BY <3>1, <3>2
      <3>4. /\ engine[w].packet \in {p, None}
            /\ \A v \in Workers \ {w} : engine'[v].packet = engine[v].packet
            /\ \A v \in Workers \ {w} : j.by = v => tick[p].by = v
            /\ j.by = w => engine'[w].packet = p
        BY <2>1, <3>1, <3>2, Holders
      <3> QED BY ZenonT(40), <3>3, <3>4, TickJobMoves
    <2> QED BY <2>3, <2>4
  <1>4. ASSUME NEW w \in Workers, NEW m \in Missions, FindProgress(w, m) PROVE Ticks
    <2>1. UNCHANGED tick /\ engine' = [engine EXCEPT ![w] =
             [@ EXCEPT !.mission = m, !.step = "write",
                       !.row = progress[<<m, OperatorOf[engine[w].packet]>>]]]
      BY <1>4 DEF FindProgress, posVars
    <2>2. engine[w] \in EngineRecords
      BY DEF EngineInv, CompletionInv
    <2>3. \A v \in Workers : engine'[v].packet = engine[v].packet
      BY <2>1, <2>2 DEF EngineInv, CompletionInv, EngineRecords
    <2> QED BY <1>2, <2>1, <2>3
  <1>5. ASSUME NEW w \in Workers, Upsert(w) PROVE Ticks
    <2>1. PICK row : engine' = [engine EXCEPT ![w] = [@ EXCEPT !.row = row, !.step = "publish"]]
      BY <1>5 DEF Upsert
    <2>2. engine[w] \in EngineRecords
      BY DEF EngineInv, CompletionInv
    <2>3. \A v \in Workers : engine'[v].packet = engine[v].packet
      BY <2>1, <2>2 DEF EngineInv, CompletionInv, EngineRecords
    <2> QED BY <1>2, <1>5, <2>3 DEF Upsert, posVars
  <1>6. ASSUME NEW w \in Workers, Publish(w) \/ LoseMessage(w) \/ FailTick(w) \/ LoseTick(w)
        PROVE  Ticks
    <2>1. engine[w] # Resting
      BY <1>6 DEF Publish, LoseMessage, FailTick, LoseTick, Resting
    <2>2. PICK p \in Packets : p = engine[w].packet
      BY <2>1 DEF EngineInv, CompletionInv, WorkerInv
    <2>3. engine[w] \in EngineRecords
      BY DEF EngineInv, CompletionInv
    <2>4. CASE /\ UNCHANGED tick
               /\ engine' = [engine EXCEPT ![w] = [@ EXCEPT
                      !.todo = engine[w].todo \ {engine[w].mission}, !.mission = None,
                      !.row = Fresh, !.step = "read"]]
      <3>1. \A v \in Workers : engine'[v].packet = engine[v].packet
        BY <2>3, <2>4 DEF EngineInv, CompletionInv, EngineRecords
      <3> QED BY <1>2, <2>4, <3>1
    <2>5. CASE /\ UNCHANGED engine \/ engine' = [engine EXCEPT ![w] = Resting]
               /\ \/ tick' = [tick EXCEPT ![p] = FinishedBy(@, w)]
                  \/ tick' = [tick EXCEPT ![p] = FailedBy(@, w)]
                  \/ tick' = [tick EXCEPT ![p] = ReleasedBy(@, w)]
      <3>1. /\ JobOK(FinishedBy(tick[p], w)) /\ JobOK(FailedBy(tick[p], w))
            /\ JobOK(ReleasedBy(tick[p], w))
        BY JobsAreOK DEF JobInv, TickJobs
      <3>2. PICK j \in Jobs : /\ tick' = [tick EXCEPT ![p] = j] /\ JobOK(j)
                              /\ j \in {FinishedBy(tick[p], w), FailedBy(tick[p], w),
                                        ReleasedBy(tick[p], w)}
        BY <2>5, <3>1 DEF JobOK
      <3>3. \A v \in Workers : j.by = v => tick[p].by = v /\ v # w
        BY <3>2, Holders DEF JobInv, TickJobs
      <3>4. tick' = [tick EXCEPT ![p] = j] /\ JobOK(j)
        BY <3>2
      <3>5. /\ engine[w].packet \in {p, None}
            /\ \A v \in Workers \ {w} : engine'[v].packet = engine[v].packet
            /\ \A v \in Workers \ {w} : j.by = v => tick[p].by = v
            /\ j.by = w => engine'[w].packet = p
        <4>1. \A v \in Workers \ {w} : engine'[v].packet = engine[v].packet
          BY <2>5 DEF EngineInv, CompletionInv
        <4> QED BY <2>2, <3>3, <4>1
      <3> QED BY ZenonT(40), <3>4, <3>5, TickJobMoves
    <2> QED
      BY <1>6, <2>2, <2>4, <2>5 DEF Publish, LoseMessage, FailTick, LoseTick, Proceed
  <1>7. ASSUME NEW m \in Missions, PatchStatus(m) PROVE Ticks
    BY <1>2, <1>7 DEF PatchStatus
  <1> QED BY <1>1, <1>3, <1>4, <1>5, <1>6, <1>7 DEF EngineStep, Work, JobInv

\* Histories hold packets and rows, and faults are counted.
SetInv ==
    /\ dedup \cup inspect \cup expired \cup broken \subseteq Packets
    /\ announced \cup overlapped \cup misordered \cup muted \subseteq Pairs
    /\ patched \subseteq Missions
    /\ applied \in [Pairs -> SUBSET Packets]
    /\ faults \in 0..MaxFaults

LEMMA PosSets ==
  ASSUME EngineInv, SetInv, PosNext, UNCHANGED engineVars
  PROVE  SetInv'
  <1> SUFFICES /\ dedup' \cup inspect' \cup expired' \cup broken' \subseteq Packets
               /\ faults' \in 0..MaxFaults
    BY DEF SetInv, engineVars
  <1>1. \A w \in Workers : run[w] # Idle => run[w].packet \in Packets
    BY DEF EngineInv, PosInv, RecordInv, Runs
  <1>2. \A w \in Workers : run[w].step # "idle" => run[w].packet \in Packets
    BY <1>1 DEF Idle
  <1>3. UNCHANGED faults \/ Fault
    BY DEF PosNext, Process, Fade, Ingest, Expire, Purge, Dedup, Insert, Show,
           FanOut, LoseEnqueue, FailRun, LoseLock, FailDedup
  <1>4. faults' \in 0..MaxFaults
    BY <1>3, PositionConstants DEF SetInv, Fault
  <1>5. ASSUME NEW w \in Workers, FanOut(w) \/ LoseEnqueue(w) \/ FailRun(w)
        PROVE  dedup' \cup inspect' \cup expired' \cup broken' \subseteq Packets
    BY <1>2, <1>5 DEF FanOut, LoseEnqueue, FailRun, At, EnqueueInspect, Breaks, SetInv
  <1>6. ASSUME NEW w \in Workers, LoseLock(w)
        PROVE  dedup' \cup inspect' \cup expired' \cup broken' \subseteq Packets
    BY <1>1, <1>6 DEF LoseLock, Breaks, SetInv
  <1>7. ASSUME NEW w \in Workers, NEW p \in Packets, Dedup(w, p) \/ FailDedup(w, p)
        PROVE  dedup' \cup inspect' \cup expired' \cup broken' \subseteq Packets
    BY <1>7 DEF Dedup, FailDedup, SetInv
  <1>8. ASSUME NEW w \in Workers, Insert(w) \/ Show(w)
        PROVE  dedup' \cup inspect' \cup expired' \cup broken' \subseteq Packets
    BY <1>8 DEF Insert, Show, SetInv
  <1>9. ASSUME NEW o \in Operators, Fade(o)
        PROVE  dedup' \cup inspect' \cup expired' \cup broken' \subseteq Packets
    BY <1>9 DEF Fade, SetInv
  <1>10. ASSUME NEW p \in Packets, Ingest(p) \/ Expire(p) \/ Purge(p)
        PROVE  dedup' \cup inspect' \cup expired' \cup broken' \subseteq Packets
    BY <1>10 DEF Ingest, Expire, Purge, SetInv
  <1> QED
    BY <1>4, <1>5, <1>6, <1>7, <1>8, <1>9, <1>10 DEF PosNext, Process

LEMMA KeyIsPair ==
  ASSUME EngineInv, NEW w \in Workers, engine[w].step \in {"write", "publish"}
  PROVE  Key(w) \in Pairs /\ engine[w].packet \in Packets
  <1>1. engine[w] # Resting
    BY DEF Resting
  <1>2. engine[w].packet \in Packets /\ engine[w].mission \in Missions
    BY <1>1 DEF EngineInv, CompletionInv, WorkerInv, EngineRecords
  <1> QED BY <1>2, PositionConstants DEF Key, Pairs

LEMMA EngineSets ==
  ASSUME EngineInv, SetInv, EngineStep
  PROVE  SetInv'
  <1>1. UNCHANGED <<dedup, inspect, expired, broken>>
    BY DEF EngineStep, Work, TakeTick, FindProgress, Upsert, Publish, LoseMessage,
           FailTick, LoseTick, PatchStatus, pipelineVars, posVars
  <1>2. UNCHANGED faults \/ Fault
    <2>1. ASSUME NEW w \in Workers, Work(w) PROVE UNCHANGED faults
      BY <2>1 DEF Work, TakeTick, FindProgress, Upsert, Publish, posVars
    <2>2. ASSUME NEW w \in Workers, LoseMessage(w) \/ FailTick(w) \/ LoseTick(w) PROVE Fault
      BY <2>2 DEF LoseMessage, FailTick, LoseTick
    <2>3. ASSUME NEW m \in Missions, PatchStatus(m) PROVE Fault
      BY <2>3 DEF PatchStatus
    <2> QED BY <2>1, <2>2, <2>3 DEF EngineStep
  <1>3. faults' \in 0..MaxFaults
    BY <1>2, PositionConstants DEF SetInv, Fault
  <1> DEFINE Sets == /\ announced' \cup overlapped' \cup misordered' \cup muted' \subseteq Pairs
                     /\ patched' \subseteq Missions
                     /\ applied' \in [Pairs -> SUBSET Packets]
  <1>4. CASE UNCHANGED <<announced, overlapped, misordered, muted, patched, applied>>
    BY <1>1, <1>3, <1>4 DEF SetInv
  <1>5. ASSUME NEW w \in Workers, Upsert(w) PROVE Sets
    <2>1. Key(w) \in Pairs /\ engine[w].packet \in Packets
      BY <1>5, KeyIsPair DEF Upsert
    <2>2. CASE UNCHANGED <<applied, overlapped, misordered>>
      BY <1>5, <2>2 DEF Upsert, SetInv
    <2>3. CASE /\ applied' = [applied EXCEPT ![Key(w)] = @ \cup {engine[w].packet}]
               /\ overlapped' \in {overlapped, overlapped \cup {Key(w)}}
               /\ misordered' \in {misordered, misordered \cup {Key(w)}}
      <3>1. applied' \in [Pairs -> SUBSET Packets]
        BY <2>1, <2>3 DEF SetInv
      <3>2. overlapped' \subseteq Pairs /\ misordered' \subseteq Pairs
        BY <2>1, <2>3 DEF SetInv
      <3> QED BY <1>5, <3>1, <3>2 DEF Upsert, SetInv
    <2> QED BY <1>5, <2>2, <2>3 DEF Upsert
  <1>6. ASSUME NEW w \in Workers, Publish(w) \/ LoseMessage(w) \/ LoseTick(w) PROVE Sets
    <2>1. engine[w].step = "publish" => Key(w) \in Pairs
      BY KeyIsPair
    <2> QED BY <1>6, <2>1 DEF Publish, LoseMessage, LoseTick, SetInv
  <1>7. ASSUME NEW m \in Missions, PatchStatus(m) PROVE Sets
    BY <1>7 DEF PatchStatus, SetInv
  <1> QED
    BY <1>1, <1>3, <1>4, <1>5, <1>6, <1>7
       DEF EngineStep, Work, TakeTick, FindProgress, FailTick, SetInv, posVars

LEMMA TypeInvariant == EngineSpec => [](JobInv /\ SetInv)
  <1>1. EngineInit => JobInv /\ SetInv
    <2>1. EngineInit => SetInv
      BY PositionConstants DEF EngineInit, PosInit, SetInv
    <2> QED BY <2>1, JobInitInv
  <1>2. EngineInv /\ JobInv /\ SetInv /\ [EngineNext]_allVars => JobInv' /\ SetInv'
    <2> SUFFICES ASSUME EngineInv, JobInv, SetInv, [EngineNext]_allVars
                 PROVE  JobInv' /\ SetInv'
      OBVIOUS
    <2>1. CASE PosNext /\ UNCHANGED engineVars
      BY <2>1, PosJobs, PosSets DEF engineVars
    <2>2. CASE EngineStep
      BY <2>2, EngineJobs, EngineSets
    <2>3. CASE UNCHANGED allVars
      <3>1. JobInv'
        BY <2>3 DEF allVars, posVars, engineVars, JobInv, IngestJobs, TickJobs, JobOK
      <3>2. SetInv'
        BY <2>3 DEF allVars, posVars, engineVars, SetInv
      <3> QED BY <3>1, <3>2
    <2> QED BY <2>1, <2>2, <2>3, EngineSteps
  <1> QED BY <1>1, <1>2, EngineInvariant, PTL DEF EngineSpec

\* Every variable of the pipeline has its type, a job that is not over has an
\* attempt left, and a worker that holds a job is working on it.
THEOREM EngineTypeCorrect == EngineSpec => []EngineTypeOK
  <1>1. EngineInv /\ JobInv /\ SetInv => EngineTypeOK
    <2> SUFFICES ASSUME EngineInv, JobInv, SetInv PROVE EngineTypeOK
      OBVIOUS
    <2>1. PosTypeOK
      BY DEF EngineInv, PosInv, RecordInv, ShownInv, Runs, JobInv, IngestJobs,
             SetInv, PosTypeOK
    <2>2. ASSUME NEW w \in Workers, engine[w] # Resting
          PROVE  /\ engine[w].packet \in Packets /\ engine[w].row \in Rows
                 /\ engine[w].todo \subseteq Missions
                 /\ engine[w].step \in {"write", "publish"} => engine[w].mission \in engine[w].todo
      BY <2>2 DEF EngineInv, CompletionInv, WorkerInv, EngineRecords
    <2> QED
      BY <2>1, <2>2 DEF EngineInv, CompletionInv, JobInv, TickJobs, SetInv, EngineTypeOK
  <1> QED BY <1>1, EngineInvariant, TypeInvariant, PTL

-----------------------------------------------------------------------------
(* An accepted position reaches the engine *)

\* A packet whose key is set or whose job is done is in someone's hands, or
\* went all the way.
Tracked(p) ==
    ingested[p].state = "done" \/ p \in dedup =>
        \/ \E w \in Workers : run[w].packet = p
        \/ history[p] > 0 /\ Ticked(p)

TrackInv == \A p \in Packets \ broken : Tracked(p)

\* A queued tick is never queued afresh, whatever becomes of it.
LEMMA QueuedStays ==
  ASSUME NEW j \in JobRecords, NEW w \in Workers, j.state # "absent"
  PROVE  /\ Added(j).state # "absent" /\ TakenBy(j, w).state # "absent"
         /\ FinishedBy(j, w).state # "absent" /\ FailedBy(j, w).state # "absent"
         /\ ReleasedBy(j, w).state # "absent"
         /\ FinishedBy(TakenBy(j, w), w).state # "absent"
  BY DEF JobRecords, Added, TakenBy, FinishedBy, FailedBy, ReleasedBy

TicksStay == \A q \in Packets : tick[q].state # "absent" => tick'[q].state # "absent"

LEMMA EnqueueKeepsTicks ==
  ASSUME TickInv, NEW p \in Packets, EnqueueTick(p)
  PROVE  TicksStay /\ Ticked(p)'
  <1>1. CASE Ticked(p)
    <2>1. tick' = tick
      BY <1>1 DEF EnqueueTick
    <2> QED BY <1>1, <2>1 DEF TicksStay, Ticked, SameTick, adjustTimestamp
  <1>2. CASE ~Ticked(p)
    <2>1. SameTick(p, p)
      BY DEF SameTick
    <2>2. tick[p].state = "absent" /\ tick[p] \in JobRecords
      BY <1>2, <2>1 DEF Ticked, TickInv
    <2>3. tick' = [tick EXCEPT ![p] = Added(@)]
      BY <1>2 DEF EnqueueTick
    <2>4. tick'[p].state = "waiting"
      BY <2>2, <2>3 DEF TickInv, JobRecords, Added
    <2>5. Ticked(p)'
      BY <2>1, <2>4 DEF Ticked, SameTick, adjustTimestamp
    <2>6. TicksStay
      BY <2>2, <2>3 DEF TicksStay, TickInv
    <2> QED BY <2>5, <2>6
  <1> QED BY <1>1, <1>2

LEMMA PosKeepsTicks ==
  ASSUME PosInv, PosNext
  PROVE  TicksStay
  <1>1. ASSUME NEW w \in Workers, FanOut(w) \/ LoseEnqueue(w) PROVE TicksStay
    <2>1. run[w].packet \in Packets
      BY <1>1 DEF FanOut, LoseEnqueue, At, PosInv, RecordInv, Runs, Idle
    <2>2. EnqueueTick(run[w].packet) \/ UNCHANGED tick
      BY <1>1 DEF FanOut, LoseEnqueue
    <2> QED BY <2>1, <2>2, EnqueueKeepsTicks DEF PosInv, TicksStay
  <1>2. CASE UNCHANGED tick
    BY <1>2 DEF TicksStay
  <1> QED
    BY <1>1, <1>2 DEF PosNext, Process, Fade, Ingest, Expire, Purge, Dedup, Insert,
                      Show, FailRun, LoseLock, FailDedup

LEMMA EngineKeepsTicks ==
  ASSUME EngineInv, EngineStep
  PROVE  TicksStay
  <1>1. ASSUME NEW w \in Workers, NEW p \in Packets, TakeTick(w, p) PROVE TicksStay
    <2>1. tick[p] \in JobRecords /\ tick[p].state # "absent"
      BY <1>1 DEF TakeTick, EngineInv, PosInv, TickInv
    <2>2. \/ tick' = [tick EXCEPT ![p] = FinishedBy(TakenBy(@, w), w)]
          \/ tick' = [tick EXCEPT ![p] = TakenBy(@, w)]
      BY <1>1 DEF TakeTick
    <2> QED BY <2>1, <2>2, QueuedStays DEF TicksStay, EngineInv, PosInv, TickInv
  <1>2. ASSUME NEW w \in Workers, Publish(w) \/ LoseMessage(w) \/ FailTick(w) \/ LoseTick(w)
        PROVE  TicksStay
    <2>1. engine[w] # Resting
      BY <1>2 DEF Publish, LoseMessage, FailTick, LoseTick, Resting
    <2>2. PICK p \in Packets : p = engine[w].packet
      BY <2>1 DEF EngineInv, CompletionInv, WorkerInv
    <2>3. \/ UNCHANGED tick
          \/ tick' = [tick EXCEPT ![p] = FinishedBy(@, w)]
          \/ tick' = [tick EXCEPT ![p] = FailedBy(@, w)]
          \/ tick' = [tick EXCEPT ![p] = ReleasedBy(@, w)]
      BY <1>2, <2>2 DEF Publish, LoseMessage, FailTick, LoseTick, Proceed
    <2>4. tick[p] \in JobRecords
      BY DEF EngineInv, PosInv, TickInv
    <2> QED BY <2>3, <2>4, QueuedStays DEF TicksStay, EngineInv, PosInv, TickInv
  <1>3. CASE UNCHANGED tick
    BY <1>3 DEF TicksStay
  <1> QED
    BY <1>1, <1>2, <1>3 DEF EngineStep, Work, FindProgress, Upsert, PatchStatus, posVars

\* What is tracked stays tracked if no job becomes done, no key is set and no
\* packet is let go of.
LEMMA StaysTracked ==
  ASSUME TrackInv, TicksStay, broken \subseteq broken',
         \A p \in Packets : history[p] > 0 => history'[p] > 0,
         NEW p \in Packets \ broken',
         ingested'[p].state = "done" \/ p \in dedup' =>
             ingested[p].state = "done" \/ p \in dedup,
         \A w \in Workers : run[w].packet = p => run'[w].packet = p
  PROVE  Tracked(p)'
  <1>1. Tracked(p)
    BY DEF TrackInv
  <1>2. Ticked(p) => Ticked(p)'
    BY DEF Ticked, TicksStay, SameTick, adjustTimestamp
  <1> QED BY <1>1, <1>2 DEF Tracked

\* A worker that ends a run it was not cut off from has queued the tick.
LEMMA FanOutTracks ==
  ASSUME EngineInv, JobInv, TrackInv, NEW w \in Workers, FanOut(w), TicksStay,
         NEW p \in Packets \ broken'
  PROVE  Tracked(p)'
  <1>1. /\ run[w].packet \in Packets /\ history[run[w].packet] > 0
        /\ UNCHANGED <<history, dedup, broken>> /\ EnqueueTick(run[w].packet)
        /\ run' = [run EXCEPT ![w] = Idle]
        /\ ingested' = [ingested EXCEPT ![run[w].packet] = FinishedBy(@, w)]
    BY DEF FanOut, Return, At, EngineInv, PosInv, RecordInv, ShownInv, Runs, Idle
  <1>2. CASE p = run[w].packet
    BY <1>1, <1>2, EnqueueKeepsTicks DEF EngineInv, PosInv, Tracked
  <1>3. CASE p # run[w].packet
    <2>1. ingested'[p] = ingested[p]
      BY <1>1, <1>3 DEF JobInv
    <2>2. \A v \in Workers : run[v].packet = p => run'[v].packet = p
      BY <1>1, <1>3 DEF EngineInv, PosInv, RecordInv
    <2>3. \A q \in Packets : history[q] > 0 => history'[q] > 0
      BY <1>1
    <2> QED BY <1>1, <2>1, <2>2, <2>3, StaysTracked
  <1> QED BY <1>2, <1>3

\* A worker that lets go of its packet early breaks it.
LEMMA BrokenOff ==
  ASSUME EngineInv, JobInv, TrackInv, NEW w \in Workers,
         LoseEnqueue(w) \/ FailRun(w) \/ LoseLock(w), TicksStay,
         NEW p \in Packets \ broken'
  PROVE  Tracked(p)'
  <1>1. /\ run[w].packet \in Packets /\ UNCHANGED <<history, dedup>>
        /\ \E j : ingested' = [ingested EXCEPT ![run[w].packet] = j]
        /\ broken \subseteq broken'
    BY DEF LoseEnqueue, FailRun, LoseLock, Return, Breaks, At, EngineInv, PosInv,
           RecordInv, Runs, Idle
  <1>2. \A q \in Packets : history[q] > 0 => history'[q] > 0
    BY <1>1
  <1>3. CASE p # run[w].packet
    <2>1. ingested'[p] = ingested[p]
      BY <1>1, <1>3 DEF JobInv
    <2>2. \A v \in Workers : run[v].packet = p => run'[v].packet = p
      BY <1>3 DEF LoseEnqueue, FailRun, LoseLock, Return, EngineInv, PosInv, RecordInv
    <2> QED BY <1>1, <1>2, <2>1, <2>2, StaysTracked
  <1>4. CASE p = run[w].packet
    <2>1. LoseLock(w) /\ UNCHANGED run
      BY <1>4 DEF LoseEnqueue, FailRun, LoseLock, Breaks
    <2>2. ingested' = [ingested EXCEPT ![p] = ReleasedBy(@, w)]
      BY <1>4, <2>1 DEF LoseLock
    <2>3. ingested'[p].state = "done" => ingested[p].state = "done"
      BY <2>2 DEF JobInv, Jobs, ReleasedBy
    <2> QED BY <1>1, <1>2, <2>1, <2>3, StaysTracked
  <1> QED BY <1>3, <1>4

LEMMA PosTracks ==
  ASSUME EngineInv, JobInv, TrackInv, PosNext
  PROVE  TrackInv'
  <1>1. TicksStay /\ \A q \in Packets : history[q] > 0 => history'[q] > 0
    BY PosKeepsTicks, HistoryGrows DEF EngineInv, PosInv, RecordInv
  <1> USE DEF TrackInv
  <1>2. ASSUME NEW w \in Workers, FanOut(w) PROVE TrackInv'
    BY <1>1, <1>2, FanOutTracks
  <1>3. ASSUME NEW w \in Workers, LoseEnqueue(w) \/ FailRun(w) \/ LoseLock(w) PROVE TrackInv'
    BY <1>1, <1>3, BrokenOff
  <1>4. ASSUME NEW w \in Workers, Insert(w) \/ Show(w) PROVE TrackInv'
    <2>1. run[w] \in [packet : Packets, step : {"insert", "show", "enqueue"}]
      BY <1>4 DEF Insert, Show, At, EngineInv, PosInv, RecordInv, Runs, Idle
    <2>2. \E s : run' = [run EXCEPT ![w].step = s]
      BY <1>4 DEF Insert, Show, Goto
    <2>3. \A v \in Workers : run'[v].packet = run[v].packet
      BY <2>1, <2>2 DEF EngineInv, PosInv, RecordInv
    <2>4. UNCHANGED <<ingested, dedup, broken>>
      BY <1>4 DEF Insert, Show
    <2> QED BY <1>1, <2>3, <2>4, StaysTracked
  <1>5. ASSUME NEW w \in Workers, NEW p \in Packets, Dedup(w, p) PROVE TrackInv'
    <2>1. /\ UNCHANGED broken /\ run[w].packet = None
          /\ \A q \in Packets \ {p} : ingested'[q] = ingested[q]
      BY <1>5 DEF Dedup, JobInv, Idle
    <2>2. ASSUME NEW q \in Packets, q # p \/ p \in dedup,
                 NEW v \in Workers, run[v].packet = q
          PROVE  run'[v].packet = q
      BY <1>5, <2>1, <2>2, PositionConstants DEF Dedup, EngineInv, PosInv, RecordInv
    <2>3. CASE p \in dedup
      <3>1. UNCHANGED dedup
        BY <1>5, <2>3 DEF Dedup
      <3> QED BY <1>1, <2>1, <2>2, <2>3, <3>1, StaysTracked
    <2>4. CASE p \notin dedup
      <3>1. /\ dedup' = dedup \cup {p}
            /\ run' = [run EXCEPT ![w] = [packet |-> p, step |-> "insert"]]
        BY <1>5, <2>4 DEF Dedup
      <3>2. run'[w].packet = p
        BY <3>1 DEF EngineInv, PosInv, RecordInv
      <3>3. Tracked(p)'
        BY <3>2 DEF Tracked
      <3>4. ASSUME NEW q \in Packets \ broken', q # p PROVE Tracked(q)'
        BY <1>1, <2>1, <2>2, <3>1, <3>4, StaysTracked
      <3> QED BY <3>3, <3>4
    <2> QED BY <2>3, <2>4
  <1>6. ASSUME NEW w \in Workers, NEW p \in Packets, FailDedup(w, p) PROVE TrackInv'
    <2>1. /\ ingested' = [ingested EXCEPT ![p] = FailedBy(TakenBy(@, w), w)]
          /\ UNCHANGED <<run, dedup, broken>>
      BY <1>6 DEF FailDedup
    <2>2. FailedBy(TakenBy(ingested[p], w), w).state # "done"
      BY DEF JobInv, Jobs, FailedBy, TakenBy
    <2>3. \A q \in Packets : ingested'[q].state = "done" => ingested[q].state = "done"
      BY <2>1, <2>2 DEF JobInv
    <2> QED BY <1>1, <2>1, <2>3, StaysTracked
  <1>7. ASSUME NEW p \in Packets, Ingest(p) \/ Expire(p) \/ Purge(p) PROVE TrackInv'
    <2>1. UNCHANGED <<run, broken>> /\ dedup' \subseteq dedup
      BY <1>7 DEF Ingest, Expire, Purge
    <2>2. \/ UNCHANGED ingested
          \/ ingested' = [ingested EXCEPT ![p] = Added(@)]
          \/ ingested' = [ingested EXCEPT ![p] = NoJob]
      BY <1>7 DEF Ingest, Expire, Purge
    <2>3. \A q \in Packets : ingested'[q].state = "done" => ingested[q].state = "done"
      BY <2>2 DEF JobInv, Jobs, Added, NoJob
    <2> QED BY <1>1, <2>1, <2>3, StaysTracked
  <1>8. ASSUME NEW o \in Operators, Fade(o) PROVE TrackInv'
    BY <1>1, <1>8, StaysTracked DEF Fade
  <1> QED BY <1>2, <1>3, <1>4, <1>5, <1>6, <1>7, <1>8 DEF PosNext, Process

\* Unless a run of it was cut off, a position whose job is done and that nobody
\* still holds is in the history and was queued for the engine
\* (positions.processor.ts:46-130).
THEOREM AcceptedTracked == EngineSpec => []AcceptedIsTracked
  <1>1. EngineInit => TrackInv
    BY DEF EngineInit, PosInit, TrackInv, Tracked, NoJob
  <1>2. EngineInv /\ JobInv /\ TrackInv /\ [EngineNext]_allVars => TrackInv'
    <2> SUFFICES ASSUME EngineInv, JobInv, TrackInv, [EngineNext]_allVars PROVE TrackInv'
      OBVIOUS
    <2>1. CASE EngineStep
      <3>1. UNCHANGED <<ingested, run, dedup, history, broken>>
        BY <2>1 DEF EngineStep, Work, TakeTick, FindProgress, Upsert, Publish, LoseMessage,
                    FailTick, LoseTick, PatchStatus, pipelineVars, posVars
      <3>2. TicksStay
        BY <2>1, EngineKeepsTicks
      <3> QED BY <3>1, <3>2, StaysTracked DEF TrackInv
    <2>2. CASE UNCHANGED allVars
      BY <2>2, StaysTracked DEF allVars, posVars, TrackInv, TicksStay
    <2> QED BY <2>1, <2>2, PosTracks, EngineSteps
  <1>3. TrackInv => AcceptedIsTracked
    BY DEF TrackInv, Tracked, AcceptedIsTracked
  <1> QED BY <1>1, <1>2, <1>3, EngineInvariant, TypeInvariant, PTL DEF EngineSpec

-----------------------------------------------------------------------------
(* A tick that is done has been counted *)

Counted(p, m) ==
    \/ p \in applied[<<m, OperatorOf[p]>>]
    \/ TypeOf[m] \in Discrete /\ progress[<<m, OperatorOf[p]>>].completed

\* A mission that has something to say about a tick is on its worker's list
\* until it has counted it, and is offered unless its status was changed.
WorkerCounts(w) ==
    /\ engine[w] # Resting =>
          \A m \in Missions \ patched :
              Decides(m, engine[w].packet) =>
                  m \in engine[w].todo \/ Counted(engine[w].packet, m)
    /\ engine[w].step = "write" /\ TypeOf[engine[w].mission] \in Discrete =>
          (engine[w].row.completed => progress[Key(w)].completed)
    /\ engine[w].step = "publish" => Counted(engine[w].packet, engine[w].mission)

CountInv ==
    /\ Missions \ patched \subseteq offered
    /\ \A w \in Workers : WorkerCounts(w)
    /\ DoneTickCounts

CountsStay ==
    /\ \A x \in Pairs : applied[x] \subseteq applied'[x]
    /\ \A x \in Pairs : TypeOf[x[1]] \in Discrete /\ progress[x].completed
                            => progress'[x].completed

LEMMA CountedStays ==
  ASSUME CountsStay, NEW p \in Packets, NEW m \in Missions, Counted(p, m)
  PROVE  Counted(p, m)'
  <1>1. <<m, OperatorOf[p]>> \in Pairs /\ <<m, OperatorOf[p]>>[1] = m
    BY PositionConstants DEF Pairs
  <1> QED BY <1>1 DEF CountsStay, Counted

LEMMA UpsertCounts ==
  ASSUME EngineInv, SetInv, NEW w \in Workers, Upsert(w), WorkerCounts(w)
  PROVE  CountsStay /\ Counted(engine[w].packet, engine[w].mission)'
  <1>1. PICK m \in Missions, p \in Packets : m = engine[w].mission /\ p = engine[w].packet
    <2>1. engine[w] # Resting
      BY DEF Upsert, Resting
    <2> QED BY <2>1 DEF Upsert, EngineInv, CompletionInv, WorkerInv, EngineRecords
  <1>2. engine'[w].packet = p /\ engine'[w].mission = m
    <2>1. PICK row : engine' = [engine EXCEPT ![w] = [@ EXCEPT !.row = row, !.step = "publish"]]
      BY DEF Upsert
    <2>2. engine[w] \in EngineRecords /\ engine \in [Workers -> EngineRecords]
      BY DEF EngineInv, CompletionInv
    <2> QED BY <1>1, <2>1, <2>2 DEF EngineRecords
  <1>3. /\ Key(w) = <<m, OperatorOf[p]>> /\ <<m, OperatorOf[p]>> \in Pairs
        /\ <<m, OperatorOf[p]>>[1] = m
    BY <1>1, PositionConstants DEF Key, Pairs
  <1>4. CASE Rewrites(w)
    <2>1. PICK row : row = Written(engine[w].row, m, p)
      OBVIOUS
    <2>2. /\ progress' = [progress EXCEPT ![<<m, OperatorOf[p]>>] = row]
          /\ applied' = [applied EXCEPT ![<<m, OperatorOf[p]>>] = @ \cup {p}]
      BY <1>1, <1>3, <1>4, <2>1 DEF Upsert
    <2>3. ASSUME TypeOf[m] \in Discrete PROVE row.completed
      <3>1. row = Complete(engine[w].row, p) /\ ~engine[w].row.completed
        BY <1>1, <1>4, <2>1, <2>3 DEF Written, Rewrites, Discrete, Cumulative
      <3> QED BY <3>1 DEF Complete, Fresh
    <2>4. p \in applied'[<<m, OperatorOf[p]>>]
      BY <1>3, <2>2 DEF SetInv
    <2>5. Counted(p, m)'
      BY <2>4 DEF Counted
    <2>6. CountsStay
      BY <1>3, <2>2, <2>3 DEF CountsStay, SetInv, EngineInv, CompletionInv
    <2> QED BY <1>2, <2>5, <2>6
  <1>5. CASE ~Rewrites(w)
    <2>1. UNCHANGED <<progress, applied>>
      BY <1>5 DEF Upsert
    <2>2. Counted(p, m)
      BY <1>1, <1>3, <1>5 DEF Upsert, Rewrites, WorkerCounts, Counted
    <2> QED BY <1>2, <2>1, <2>2 DEF CountsStay, Counted
  <1> QED BY <1>4, <1>5

LEMMA StepsCount ==
  ASSUME EngineInv, SetInv, EngineNext, CountInv
  PROVE  CountsStay
  <1>1. ASSUME NEW w \in Workers, Upsert(w) PROVE CountsStay
    BY <1>1, UpsertCounts DEF CountInv
  <1>2. CASE UNCHANGED <<progress, applied>>
    BY <1>2 DEF CountsStay
  <1> QED
    BY <1>1, <1>2 DEF EngineNext, engineVars, Work, TakeTick, FindProgress, Publish,
                      LoseMessage, FailTick, LoseTick, PatchStatus

\* What one worker does leaves what the others have counted alone.
LEMMA OthersCount ==
  ASSUME EngineInv, CountsStay, patched \subseteq patched',
         NEW w \in Workers, WorkerCounts(w), engine'[w] = engine[w]
  PROVE  WorkerCounts(w)'
  <1>1. ASSUME NEW m \in Missions \ patched', engine[w] # Resting,
               Decides(m, engine[w].packet), m \notin engine[w].todo
        PROVE  Counted(engine[w].packet, m)'
    <2>1. Counted(engine[w].packet, m) /\ engine[w].packet \in Packets
      BY <1>1 DEF WorkerCounts, EngineInv, CompletionInv, WorkerInv
    <2> QED BY <1>1, <2>1, CountedStays
  <1>2. ASSUME engine[w].step = "publish"
        PROVE  Counted(engine[w].packet, engine[w].mission)'
    <2>1. engine[w] # Resting
      BY <1>2 DEF Resting
    <2>2. /\ engine[w].packet \in Packets /\ engine[w].mission \in Missions
          /\ Counted(engine[w].packet, engine[w].mission)
      BY <1>2, <2>1 DEF WorkerCounts, EngineInv, CompletionInv, WorkerInv, EngineRecords
    <2> QED BY <2>2, CountedStays
  <1>3. ASSUME engine[w].step = "write", TypeOf[engine[w].mission] \in Discrete,
               engine[w].row.completed
        PROVE  progress'[Key(w)].completed
    <2>1. Key(w) \in Pairs /\ Key(w)[1] = engine[w].mission
      BY <1>3, KeyIsPair DEF Key
    <2> QED BY <1>3, <2>1 DEF WorkerCounts, CountsStay
  <1>4. (Key(w))' = Key(w)
    BY DEF Key
  <1> QED
    BY <1>1, <1>2, <1>3, <1>4
       DEF WorkerCounts, Counted, Decides, Inhabits, adjustTimestamp

\* A tick becomes done when a worker finishes it, and then all is counted.
LEMMA TickDone ==
  ASSUME EngineInv, JobInv, CountInv, CountsStay, patched \subseteq patched',
         \A p \in Packets : tick'[p].state = "done" =>
             \/ tick[p].state = "done"
             \/ \A m \in Missions \ patched : Decides(m, p) => Counted(p, m)
  PROVE  DoneTickCounts'
  <1>1. ASSUME NEW p \in Packets, NEW m \in Missions \ patched',
               tick'[p].state = "done", Decides(m, p)
        PROVE  Counted(p, m)'
    <2>1. Counted(p, m)
      BY <1>1 DEF CountInv, DoneTickCounts, Counted
    <2> QED BY <2>1, CountedStays
  <1> QED BY <1>1 DEF DoneTickCounts, Counted, Decides, Inhabits, adjustTimestamp

LEMMA PosCounts ==
  ASSUME EngineInv, JobInv, SetInv, CountInv, PosNext, UNCHANGED engineVars
  PROVE  CountInv'
  <1>1. UNCHANGED <<offered, progress, engine, patched, applied>> /\ CountsStay
    BY DEF engineVars, CountsStay
  <1>2. \A w \in Workers : WorkerCounts(w)'
    BY <1>1, OthersCount DEF CountInv
  <1>3. ASSUME NEW p \in Packets, tick'[p].state = "done" PROVE tick[p].state = "done"
    <2>1. CASE UNCHANGED tick
      BY <1>3, <2>1
    <2>2. CASE \E w \in Workers : EnqueueTick(run[w].packet)
      <3>1. PICK q : UNCHANGED tick \/ tick' = [tick EXCEPT ![q] = Added(@)]
        BY <2>2 DEF EnqueueTick
      <3> QED BY <1>3, <3>1 DEF JobInv, Jobs, Added
    <2> QED
      BY <2>1, <2>2 DEF PosNext, Process, Fade, Ingest, Expire, Purge, Dedup, Insert,
                        Show, FanOut, LoseEnqueue, FailRun, LoseLock, FailDedup
  <1>4. DoneTickCounts'
    BY <1>1, <1>3, TickDone
  <1> QED BY <1>1, <1>2, <1>4 DEF CountInv

\* A worker that takes a tick lists every mission that it decides.
LEMMA TakeTickCounts ==
  ASSUME EngineInv, JobInv, SetInv, CountInv, NEW w \in Workers, NEW p \in Packets,
         TakeTick(w, p)
  PROVE  CountInv'
  <1>1. UNCHANGED <<offered, progress, patched, applied>> /\ CountsStay
    BY DEF TakeTick, CountsStay
  <1>2. PICK todo : todo = {m \in offered : Decides(m, p)}
    OBVIOUS
  <1>3. \A m \in Missions \ patched : Decides(m, p) => m \in todo
    BY <1>2 DEF CountInv
  <1>4. tick[p] \in Jobs /\ tick \in [Packets -> Jobs] /\ engine \in [Workers -> EngineRecords]
    BY DEF JobInv, EngineInv, CompletionInv
  <1>5. CASE todo = {}
    <2>1. /\ tick' = [tick EXCEPT ![p] = FinishedBy(TakenBy(@, w), w)]
          /\ UNCHANGED engine
      BY <1>2, <1>5 DEF TakeTick
    <2>2. \A v \in Workers : WorkerCounts(v)'
      BY <1>1, <2>1, OthersCount DEF CountInv
    <2>3. DoneTickCounts'
      BY <1>1, <1>3, <1>4, <1>5, <2>1, TickDone
    <2> QED BY <1>1, <2>2, <2>3 DEF CountInv
  <1>6. CASE todo # {}
    <2>1. /\ tick' = [tick EXCEPT ![p] = TakenBy(@, w)]
          /\ engine' = [engine EXCEPT ![w] =
                 [Resting EXCEPT !.packet = p, !.todo = todo, !.step = "read"]]
      BY <1>2, <1>6 DEF TakeTick
    <2>2. engine'[w] = [Resting EXCEPT !.packet = p, !.todo = todo, !.step = "read"]
      BY <1>4, <2>1
    <2>3. /\ engine'[w].packet = p /\ engine'[w].todo = todo /\ engine'[w].step = "read"
      BY <2>2 DEF Resting
    <2>4. WorkerCounts(w)'
      BY <1>1, <1>3, <2>3 DEF WorkerCounts, Decides, Inhabits, adjustTimestamp
    <2>5. ASSUME NEW v \in Workers PROVE WorkerCounts(v)'
      BY <1>1, <1>4, <2>1, <2>4, OthersCount DEF CountInv
    <2>6. \A q \in Packets : tick'[q].state = "done" => tick[q].state = "done"
      BY <1>4, <2>1 DEF Jobs, TakenBy
    <2>7. DoneTickCounts'
      BY <1>1, <2>6, TickDone
    <2> QED BY <1>1, <2>5, <2>7 DEF CountInv
  <1> QED BY <1>5, <1>6

LEMMA FindProgressCounts ==
  ASSUME EngineInv, JobInv, SetInv, CountInv, NEW w \in Workers, NEW m \in Missions,
         FindProgress(w, m)
  PROVE  CountInv'
  <1>1. UNCHANGED <<offered, progress, patched, applied, tick>> /\ CountsStay
    BY DEF FindProgress, posVars, CountsStay
  <1>2. PICK p \in Packets : p = engine[w].packet
    BY DEF FindProgress, EngineInv, CompletionInv, WorkerInv, Resting
  <1>3. /\ engine[w] \in EngineRecords /\ engine \in [Workers -> EngineRecords]
        /\ engine[w] # Resting
    BY DEF EngineInv, CompletionInv, FindProgress, Resting
  <1>4. PICK row : row = progress[<<m, OperatorOf[p]>>]
    OBVIOUS
  <1>5. engine' = [engine EXCEPT ![w] = [@ EXCEPT !.mission = m, !.step = "write", !.row = row]]
    BY <1>2, <1>4 DEF FindProgress
  <1>6. /\ engine'[w].packet = p /\ engine'[w].todo = engine[w].todo
        /\ engine'[w].mission = m /\ engine'[w].step = "write" /\ engine'[w].row = row
    BY <1>2, <1>3, <1>5 DEF EngineRecords
  <1>7. Key(w)' = <<m, OperatorOf[p]>>
    BY <1>6 DEF Key
  <1>8. WorkerCounts(w)'
    BY <1>1, <1>2, <1>3, <1>4, <1>6, <1>7
       DEF CountInv, WorkerCounts, Counted, Decides, Inhabits, adjustTimestamp
  <1>9. ASSUME NEW v \in Workers PROVE WorkerCounts(v)'
    BY <1>1, <1>3, <1>5, <1>8, OthersCount DEF CountInv
  <1>10. DoneTickCounts'
    BY <1>1, TickDone
  <1> QED BY <1>1, <1>9, <1>10 DEF CountInv

LEMMA UpsertCountsAll ==
  ASSUME EngineInv, JobInv, SetInv, CountInv, NEW w \in Workers, Upsert(w)
  PROVE  CountInv'
  <1>1. UNCHANGED <<offered, patched, tick>>
    BY DEF Upsert, posVars
  <1>2. CountsStay /\ Counted(engine[w].packet, engine[w].mission)'
    BY UpsertCounts DEF CountInv
  <1>3. PICK row : engine' = [engine EXCEPT ![w] = [@ EXCEPT !.row = row, !.step = "publish"]]
    BY DEF Upsert
  <1>4. /\ engine[w] \in EngineRecords /\ engine \in [Workers -> EngineRecords]
        /\ engine[w] # Resting
    BY DEF EngineInv, CompletionInv, Upsert, Resting
  <1>5. PICK p \in Packets : p = engine[w].packet
    BY <1>4 DEF EngineInv, CompletionInv, WorkerInv
  <1>6. /\ engine'[w].packet = p /\ engine'[w].todo = engine[w].todo
        /\ engine'[w].step = "publish"
    BY <1>3, <1>4, <1>5 DEF EngineRecords
  <1>7. ASSUME NEW m \in Missions \ patched, Decides(m, p), m \notin engine[w].todo
        PROVE  Counted(p, m)'
    <2>1. Counted(p, m)
      BY <1>4, <1>5, <1>7 DEF CountInv, WorkerCounts
    <2> QED BY <1>2, <2>1, CountedStays
  <1>8. WorkerCounts(w)'
    BY <1>1, <1>2, <1>6, <1>7
       DEF WorkerCounts, Counted, Decides, Inhabits, adjustTimestamp
  <1>9. ASSUME NEW v \in Workers PROVE WorkerCounts(v)'
    BY <1>1, <1>2, <1>3, <1>4, <1>8, OthersCount DEF CountInv
  <1>10. DoneTickCounts'
    BY <1>1, <1>2, TickDone
  <1> QED BY <1>1, <1>9, <1>10 DEF CountInv

\* A worker finishes its tick when its list is down to the mission it has just
\* counted, and otherwise strikes that mission off.
LEMMA ProceedCounts ==
  ASSUME EngineInv, JobInv, SetInv, CountInv, NEW w \in Workers, Proceed(w),
         engine[w].step = "publish", UNCHANGED <<offered, progress, patched, applied>>
  PROVE  CountInv'
  <1>1. CountsStay
    BY DEF CountsStay
  <1>2. PICK p \in Packets : p = engine[w].packet
    BY DEF EngineInv, CompletionInv, WorkerInv, Resting
  <1>3. /\ engine[w] \in EngineRecords /\ engine \in [Workers -> EngineRecords]
        /\ engine[w] # Resting
    BY DEF EngineInv, CompletionInv, Resting
  <1>4. PICK left : left = engine[w].todo \ {engine[w].mission}
    OBVIOUS
  <1>5. \A m \in Missions \ patched : Decides(m, p) => m \in left \/ Counted(p, m)
    BY <1>2, <1>3, <1>4 DEF CountInv, WorkerCounts
  <1>6. CASE left = {}
    <2>1. /\ engine' = [engine EXCEPT ![w] = Resting]
          /\ tick' = [tick EXCEPT ![p] = FinishedBy(@, w)]
      BY <1>2, <1>4, <1>6 DEF Proceed
    <2>2. engine'[w] = Resting
      BY <1>3, <2>1
    <2>3. WorkerCounts(w)'
      BY <2>2 DEF WorkerCounts, Resting
    <2>4. ASSUME NEW v \in Workers PROVE WorkerCounts(v)'
      BY <1>1, <1>3, <2>1, <2>3, OthersCount DEF CountInv
    <2>5. DoneTickCounts'
      BY <1>1, <1>5, <1>6, <2>1, TickDone DEF JobInv
    <2> QED BY <2>4, <2>5 DEF CountInv
  <1>7. CASE left # {}
    <2>1. /\ UNCHANGED tick
          /\ engine' = [engine EXCEPT ![w] = [@ EXCEPT !.todo = left, !.mission = None,
                                                       !.row = Fresh, !.step = "read"]]
      BY <1>4, <1>7 DEF Proceed
    <2>2. engine'[w].packet = p /\ engine'[w].todo = left /\ engine'[w].step = "read"
      BY <1>2, <1>3, <2>1 DEF EngineRecords
    <2>3. WorkerCounts(w)'
      BY <1>5, <2>2 DEF WorkerCounts, Counted, Decides, Inhabits, adjustTimestamp
    <2>4. ASSUME NEW v \in Workers PROVE WorkerCounts(v)'
      BY <1>1, <1>3, <2>1, <2>3, OthersCount DEF CountInv
    <2>5. DoneTickCounts'
      BY <1>1, <2>1, TickDone
    <2> QED BY <2>4, <2>5 DEF CountInv
  <1> QED BY <1>6, <1>7

LEMMA LetGoCounts ==
  ASSUME EngineInv, JobInv, SetInv, CountInv, NEW w \in Workers, FailTick(w) \/ LoseTick(w)
  PROVE  CountInv'
  <1>1. UNCHANGED <<offered, progress, patched, applied>> /\ CountsStay
    BY DEF FailTick, LoseTick, CountsStay
  <1>2. PICK p \in Packets : p = engine[w].packet
    BY DEF FailTick, LoseTick, EngineInv, CompletionInv, WorkerInv, Resting
  <1>3. /\ engine' = [engine EXCEPT ![w] = Resting] \/ UNCHANGED engine
        /\ engine \in [Workers -> EngineRecords]
    BY DEF FailTick, LoseTick, EngineInv, CompletionInv
  <1>4. \/ tick' = [tick EXCEPT ![p] = FailedBy(@, w)]
        \/ tick' = [tick EXCEPT ![p] = ReleasedBy(@, w)]
    BY <1>2 DEF FailTick, LoseTick
  <1>5. \A q \in Packets : tick'[q].state = "done" => tick[q].state = "done"
    <2>1. tick \in [Packets -> Jobs] /\ tick[p] \in Jobs
      BY DEF JobInv
    <2>2. /\ FailedBy(tick[p], w).state = "done" => tick[p].state = "done"
          /\ ReleasedBy(tick[p], w).state = "done" => tick[p].state = "done"
      BY <2>1 DEF Jobs, FailedBy, ReleasedBy
    <2>3. \A q \in Packets \ {p} : tick'[q] = tick[q]
      BY <1>4, <2>1
    <2>4. tick'[p].state = "done" => tick[p].state = "done"
      BY <1>4, <2>1, <2>2
    <2> QED BY <2>3, <2>4
  <1>6. DoneTickCounts'
    BY <1>1, <1>5, TickDone
  <1>7. ASSUME NEW v \in Workers PROVE WorkerCounts(v)'
    <2>1. CASE engine'[v] = engine[v]
      BY <1>1, <2>1, OthersCount DEF CountInv
    <2>2. CASE engine'[v] = Resting
      BY <2>2 DEF WorkerCounts, Resting
    <2> QED BY <1>3, <2>1, <2>2
  <1> QED BY <1>1, <1>6, <1>7 DEF CountInv

LEMMA PatchCounts ==
  ASSUME EngineInv, JobInv, SetInv, CountInv, NEW m \in Missions, PatchStatus(m)
  PROVE  CountInv'
  <1>1. /\ UNCHANGED <<progress, engine, applied, tick>> /\ CountsStay
        /\ patched' = patched \cup {m}
        /\ offered' \in {offered \ {m}, offered \cup {m}}
    BY DEF PatchStatus, CountsStay
  <1>2. \A v \in Workers : WorkerCounts(v)'
    BY <1>1, OthersCount DEF CountInv
  <1>3. DoneTickCounts'
    BY <1>1, TickDone
  <1>4. Missions \ patched' \subseteq offered'
    BY <1>1 DEF CountInv
  <1> QED BY <1>2, <1>3, <1>4 DEF CountInv

LEMMA CountInvariant == EngineSpec => []CountInv
  <1>1. EngineInit => CountInv
    <2> SUFFICES ASSUME EngineInit PROVE CountInv
      OBVIOUS
    <2>1. ASSUME NEW w \in Workers PROVE WorkerCounts(w)
      <3>1. engine[w] = Resting
        BY DEF EngineInit
      <3>2. Resting.step = "idle"
        BY DEF Resting
      <3> QED BY <3>1, <3>2 DEF WorkerCounts
    <2>2. DoneTickCounts
      BY DEF EngineInit, PosInit, NoJob, DoneTickCounts
    <2> QED BY <2>1, <2>2 DEF EngineInit, CountInv
  <1>2. EngineInv /\ JobInv /\ SetInv /\ CountInv /\ [EngineNext]_allVars => CountInv'
    <2> SUFFICES ASSUME EngineInv, JobInv, SetInv, CountInv, [EngineNext]_allVars
                 PROVE  CountInv'
      OBVIOUS
    <2>1. CASE PosNext /\ UNCHANGED engineVars
      BY <2>1, PosCounts
    <2>2. ASSUME NEW w \in Workers, Work(w) PROVE CountInv'
      BY <2>2, TakeTickCounts, FindProgressCounts, UpsertCountsAll, ProceedCounts
         DEF Work, Publish
    <2>3. ASSUME NEW w \in Workers, LoseMessage(w) PROVE CountInv'
      BY <2>3, ProceedCounts DEF LoseMessage
    <2>4. ASSUME NEW w \in Workers, FailTick(w) \/ LoseTick(w) PROVE CountInv'
      BY <2>4, LetGoCounts
    <2>5. ASSUME NEW m \in Missions, PatchStatus(m) PROVE CountInv'
      BY <2>5, PatchCounts
    <2>6. CASE UNCHANGED allVars
      <3>1. UNCHANGED <<tick, offered, progress, engine, patched, applied>> /\ CountsStay
        BY <2>6 DEF allVars, posVars, engineVars, CountsStay
      <3>2. \A v \in Workers : WorkerCounts(v)'
        BY <3>1, OthersCount DEF CountInv
      <3>3. DoneTickCounts'
        BY <3>1, TickDone
      <3> QED BY <3>1, <3>2, <3>3 DEF CountInv
    <2> QED BY <2>1, <2>2, <2>3, <2>4, <2>5, <2>6 DEF EngineNext
  <1> QED BY <1>1, <1>2, EngineInvariant, TypeInvariant, PTL DEF EngineSpec

\* A tick that is done has been counted for every mission it says something
\* about, whatever attempts were cut short (mission-engine.service.ts:33-71).
THEOREM DoneIsCounted == EngineSpec => []DoneTickCounts
  <1>1. CountInv => DoneTickCounts
    BY DEF CountInv
  <1> QED BY <1>1, CountInvariant, PTL

-----------------------------------------------------------------------------
(* A completion is announced *)

\* The worker that holds the tick of a completion has yet to come to it.
Ahead(w, m) ==
    m \in engine[w].todo /\ ~(engine[w].step = "publish" /\ engine[w].mission = m)

Publishing(w, p, m) ==
    /\ engine[w].step = "publish" /\ engine[w].packet = p /\ engine[w].mission = m
    /\ engine[w].row.completed

\* A completion that is not announced yet was dated by a tick that is being
\* published, will be taken (again), or whose holder will come to it.
Promised(m, p) ==
    /\ Decides(m, p)
    /\ adjustTimestamp(p) = progress[<<m, OperatorOf[p]>>].completedAt
    /\ \/ \E w \in Workers : Publishing(w, p, m)
       \/ tick[p].state \in {"waiting", "failed"}
       \/ tick[p].state = "active" /\ \E w \in Workers : tick[p].by = w /\ Ahead(w, m)

Silent == Pairs \ (announced \cup muted \cup overlapped)

AnnounceInv ==
    \A m \in Missions \ patched, o \in Operators :
        <<m, o>> \in Silent /\ progress[<<m, o>>].completed =>
            \E p \in Packets : OperatorOf[p] = o /\ Promised(m, p)

\* A step that leaves the row, the publishers and the tick alone keeps a promise.
LEMMA PromiseStays ==
  ASSUME NEW m \in Missions, NEW p \in Packets, Promised(m, p),
         progress'[<<m, OperatorOf[p]>>].completedAt = progress[<<m, OperatorOf[p]>>].completedAt,
         \A w \in Workers : Publishing(w, p, m) => Publishing(w, p, m)',
         \/ tick'[p] = tick[p] /\ \A w \in Workers : tick[p].by = w /\ Ahead(w, m) => Ahead(w, m)'
         \/ tick'[p].state \in {"waiting", "failed"}
         \/ tick'[p].state = "active" /\ \E w \in Workers : tick'[p].by = w /\ Ahead(w, m)'
  PROVE  Promised(m, p)'
  <1>1. (Decides(m, p) => Decides(m, p)') /\ adjustTimestamp(p)' = adjustTimestamp(p)
    BY DEF Decides, Inhabits, adjustTimestamp
  <1>2. OperatorOf' = OperatorOf
    OBVIOUS
  <1> QED BY <1>1, <1>2 DEF Promised

AllInv == EngineInv /\ JobInv /\ SetInv /\ CountInv

\* What a worker holds, and that it holds it alone.
LEMMA HolderFacts ==
  ASSUME AllInv, NEW p \in Packets
  PROVE  /\ JobOK(tick[p]) /\ tick[p] \in Jobs
         /\ \A w \in Workers : tick[p].by = w =>
               tick[p].state = "active" /\ engine[w].packet = p /\ engine[w] # Resting
         /\ tick \in [Packets -> Jobs] /\ engine \in [Workers -> EngineRecords]
  BY QueueConstants, PositionConstants
     DEF AllInv, JobInv, TickJobs, JobOK, EngineInv, CompletionInv, Resting

\* A step in which nobody completes anything.
LEMMA AnnounceStays ==
  ASSUME AnnounceInv, UNCHANGED progress, Silent' \subseteq Silent, patched \subseteq patched',
         \A m \in Missions \ patched', p \in Packets :
             <<m, OperatorOf[p]>> \in Silent' /\ Promised(m, p) => Promised(m, p)'
  PROVE  AnnounceInv'
  BY DEF AnnounceInv

LEMMA PosAnnounces ==
  ASSUME AllInv, AnnounceInv, PosNext, UNCHANGED engineVars
  PROVE  AnnounceInv'
  <1>1. /\ UNCHANGED <<progress, engine, patched>> /\ Silent' = Silent
    BY DEF engineVars, Silent, Pairs
  <1>2. ASSUME NEW p \in Packets, tick[p].state # "absent" PROVE tick'[p] = tick[p]
    <2>1. CASE UNCHANGED tick
      BY <2>1
    <2>2. CASE \E w \in Workers : EnqueueTick(run[w].packet)
      <3>1. PICK q : UNCHANGED tick \/ tick' = [tick EXCEPT ![q] = Added(@)]
        BY <2>2 DEF EnqueueTick
      <3>2. Added(tick[p]) = tick[p]
        BY <1>2 DEF Added
      <3> QED BY <3>1, <3>2 DEF AllInv, JobInv
    <2> QED
      BY <2>1, <2>2 DEF PosNext, Process, Fade, Ingest, Expire, Purge, Dedup, Insert,
                        Show, FanOut, LoseEnqueue, FailRun, LoseLock, FailDedup
  <1>3. ASSUME NEW m \in Missions, NEW p \in Packets, Promised(m, p) PROVE Promised(m, p)'
    <2>1. \A w \in Workers : /\ Publishing(w, p, m) => Publishing(w, p, m)'
                             /\ Ahead(w, m) => Ahead(w, m)'
      BY <1>1 DEF Publishing, Ahead
    <2>2. CASE tick[p].state # "absent"
      BY <1>1, <1>2, <1>3, <2>1, <2>2, PromiseStays
    <2>3. CASE tick[p].state = "absent"
      <3>1. \E w \in Workers : Publishing(w, p, m)'
        BY <1>3, <2>1, <2>3 DEF Promised
      <3> QED
        BY <1>1, <1>3, <3>1 DEF Promised, Decides, Inhabits, adjustTimestamp
    <2> QED BY <2>2, <2>3
  <1> QED BY <1>1, <1>3, AnnounceStays

LEMMA TakeTickAnnounces ==
  ASSUME AllInv, AnnounceInv, NEW w \in Workers, NEW q \in Packets, TakeTick(w, q)
  PROVE  AnnounceInv'
  <1>1. /\ UNCHANGED <<progress, patched>> /\ Silent' = Silent /\ engine[w] = Resting
        /\ tick[q].state = "waiting"
    BY DEF TakeTick, Silent, Pairs
  <1>2. PICK todo : todo = {m \in offered : Decides(m, q)}
    OBVIOUS
  <1>3. ASSUME NEW m \in Missions \ patched, NEW p \in Packets, Promised(m, p)
        PROVE  Promised(m, p)'
    <2>1. engine[w].step = "idle" /\ \A v \in Workers \ {w} : engine'[v] = engine[v]
      BY <1>1 DEF TakeTick, Resting, AllInv, EngineInv, CompletionInv
    <2>2. \A v \in Workers : /\ Publishing(v, p, m) => Publishing(v, p, m)'
                             /\ v # w /\ Ahead(v, m) => Ahead(v, m)'
      BY <2>1 DEF Publishing, Ahead
    <2>3. CASE p # q
      <3>1. tick'[p] = tick[p]
        BY <2>3 DEF TakeTick, AllInv, JobInv
      <3>2. tick[p].by # w
        BY <1>1, HolderFacts
      <3> QED BY <1>1, <1>3, <2>2, <3>1, <3>2, PromiseStays
    <2>4. CASE p = q
      <3>1. m \in todo
        BY <1>2, <1>3, <2>4 DEF AllInv, CountInv, Promised
      <3>2. /\ tick' = [tick EXCEPT ![q] = TakenBy(@, w)]
            /\ engine' = [engine EXCEPT ![w] =
                   [Resting EXCEPT !.packet = q, !.todo = todo, !.step = "read"]]
        BY <1>2, <3>1 DEF TakeTick
      <3>3. engine'[w] = [Resting EXCEPT !.packet = q, !.todo = todo, !.step = "read"]
        BY <3>2, HolderFacts
      <3>4. engine'[w].todo = todo /\ engine'[w].step = "read"
        BY <3>3 DEF Resting
      <3>5. Ahead(w, m)'
        BY <3>1, <3>4 DEF Ahead
      <3>6. TakenBy(tick[p], w).state = "active" /\ TakenBy(tick[p], w).by = w
        BY HolderFacts DEF Jobs, TakenBy
      <3>7. tick'[p] = TakenBy(tick[p], w)
        BY <2>4, <3>2, HolderFacts
      <3> QED BY <1>1, <1>3, <2>2, <3>5, <3>6, <3>7, PromiseStays
    <2> QED BY <2>3, <2>4
  <1> QED BY <1>1, <1>3, AnnounceStays

LEMMA FindProgressAnnounces ==
  ASSUME AllInv, AnnounceInv, NEW w \in Workers, NEW n \in Missions, FindProgress(w, n)
  PROVE  AnnounceInv'
  <1>1. /\ UNCHANGED <<progress, patched, tick>> /\ Silent' = Silent /\ engine[w].step = "read"
    BY DEF FindProgress, Silent, Pairs, posVars
  <1>2. PICK row : row = progress[<<n, OperatorOf[engine[w].packet]>>]
    OBVIOUS
  <1>3. engine' = [engine EXCEPT ![w] = [@ EXCEPT !.mission = n, !.step = "write", !.row = row]]
    BY <1>2 DEF FindProgress
  <1>4. engine[w] \in EngineRecords /\ engine \in [Workers -> EngineRecords]
    BY DEF AllInv, EngineInv, CompletionInv
  <1>5. engine'[w].todo = engine[w].todo /\ engine'[w].step = "write"
    BY <1>3, <1>4 DEF EngineRecords
  <1>6. \A v \in Workers \ {w} : engine'[v] = engine[v]
    BY <1>3, <1>4
  <1>7. ASSUME NEW m \in Missions, NEW p \in Packets, Promised(m, p) PROVE Promised(m, p)'
    <2>1. \A v \in Workers : /\ Publishing(v, p, m) => Publishing(v, p, m)'
                             /\ Ahead(v, m) => Ahead(v, m)'
      BY <1>1, <1>5, <1>6 DEF Publishing, Ahead
    <2> QED BY <1>1, <1>7, <2>1, PromiseStays
  <1> QED BY <1>1, <1>7, AnnounceStays

\* The mission that a worker writes is in its hands until it is published; what
\* it completes it dates by its own tick.
LEMMA UpsertAnnounces ==
  ASSUME AllInv, AnnounceInv, NEW w \in Workers, Upsert(w)
  PROVE  AnnounceInv'
  <1>1. PICK n \in Missions, q \in Packets, old \in Rows, new \in Rows :
            Upserted(w, n, q, old, new)
    BY UpsertStep DEF AllInv
  <1>2. /\ UNCHANGED <<tick, patched>> /\ Silent' \subseteq Silent
        /\ engine[w].step = "write" /\ engine[w].mission = n
    <2>1. UNCHANGED <<tick, patched, announced, muted>> /\ overlapped \subseteq overlapped'
      BY DEF Upsert, posVars
    <2>2. engine[w].mission = n
      BY <1>1 DEF Upserted, Key
    <2> QED BY <2>1, <2>2 DEF Upsert, Silent, Pairs
  <1>3. engine[w] \in EngineRecords /\ engine \in [Workers -> EngineRecords]
    BY DEF AllInv, EngineInv, CompletionInv
  <1>4. /\ engine'[w].todo = engine[w].todo /\ engine'[w].packet = q
        /\ engine'[w].mission = n /\ engine'[w].row = new /\ engine'[w].step = "publish"
    <2>1. engine'[w] = [engine[w] EXCEPT !.row = new, !.step = "publish"]
      BY <1>1, <1>3 DEF Upserted
    <2> QED BY <1>1, <1>2, <1>3, <2>1 DEF Upserted, EngineRecords
  <1>5. \A v \in Workers \ {w} : engine'[v] = engine[v]
    BY <1>1, <1>3 DEF Upserted
  <1>6. ASSUME NEW m \in Missions, NEW p \in Packets
        PROVE  /\ \A v \in Workers : Publishing(v, p, m) => Publishing(v, p, m)'
               /\ \A v \in Workers \ {w} : Ahead(v, m) => Ahead(v, m)'
               /\ m # n /\ Ahead(w, m) => Ahead(w, m)'
               /\ tick[p].by = w => p = q
    <2>1. tick[p].by = w => p = q
      BY <1>1, HolderFacts DEF Upserted
    <2> QED BY <1>2, <1>4, <1>5, <2>1 DEF Publishing, Ahead
  <1>7. ASSUME NEW m \in Missions \ patched', NEW o \in Operators,
               <<m, o>> \in Silent', progress'[<<m, o>>].completed
        PROVE  \E p \in Packets : OperatorOf[p] = o /\ Promised(m, p)'
    <2>1. CASE progress[<<m, o>>].completed
      <3>1. PICK p \in Packets : OperatorOf[p] = o /\ Promised(m, p)
        BY <1>2, <1>7, <2>1 DEF AnnounceInv
      <3>2. progress'[<<m, o>>].completedAt = progress[<<m, o>>].completedAt
        <4>1. <<m, o>> \notin overlapped' /\ <<m, o>> \in Pairs
          BY <1>7 DEF Silent, Pairs
        <4>2. progress \in [Pairs -> Rows]
          BY DEF AllInv, EngineInv, CompletionInv
        <4> QED BY <1>1, <2>1, <4>1, <4>2 DEF Upserted
      <3>3. CASE m = n /\ tick[p].by = w
        <4>1. p = q
          BY <1>6, <3>3
        <4>2. new.completed
          <5>1. CASE Rewrites(w)
            <6>1. progress'[<<m, o>>] = Written(old, n, q)
              <7>1. <<m, o>> = Key(w) /\ <<m, o>> \in Pairs
                BY <1>1, <3>1, <3>3, <4>1 DEF Upserted, Pairs
              <7>2. progress \in [Pairs -> Rows]
                BY DEF AllInv, EngineInv, CompletionInv
              <7>3. progress' = [progress EXCEPT ![Key(w)] = Written(old, n, q)]
                BY <1>1, <1>2, <5>1 DEF Upsert, Upserted
              <7> QED BY <7>1, <7>2, <7>3
            <6> QED BY <1>1, <1>7, <6>1 DEF Upserted
          <5>2. CASE ~Rewrites(w)
            BY <1>1, <5>2 DEF Rewrites, Upserted
          <5> QED BY <5>1, <5>2
        <4>3. Publishing(w, p, m)'
          BY <1>4, <3>3, <4>1, <4>2 DEF Publishing
        <4> QED
          BY <3>1, <3>2, <4>3 DEF Promised, Decides, Inhabits, adjustTimestamp
      <3>4. CASE ~(m = n /\ tick[p].by = w)
        <4>1. /\ tick'[p] = tick[p]
              /\ \A v \in Workers : tick[p].by = v /\ Ahead(v, m) => Ahead(v, m)'
              /\ \A v \in Workers : Publishing(v, p, m) => Publishing(v, p, m)'
          BY <1>2, <1>6, <3>4
        <4> QED BY <3>1, <3>2, <4>1, PromiseStays
      <3> QED BY <3>3, <3>4
    <2>2. CASE ~progress[<<m, o>>].completed
      <3>1. <<m, o>> \notin overlapped' /\ <<m, o>> \in Pairs
        BY <1>7 DEF Silent, Pairs
      <3>2. progress \in [Pairs -> Rows]
        BY DEF AllInv, EngineInv, CompletionInv
      <3>3. /\ m = n /\ o = OperatorOf[q] /\ progress'[<<m, o>>] = new
            /\ progress[<<m, o>>] = old
        BY <1>1, <1>7, <2>2, <3>1, <3>2 DEF Upserted
      <3>4. new.completed /\ ~old.completed /\ new = Written(old, n, q) /\ Decides(n, q)
        BY <1>1, <1>7, <2>2, <3>3 DEF Upserted
      <3>5. old.completedAt = None
        BY <3>3, <3>4 DEF AllInv, EngineInv, CompletionInv, GoodRow
      <3>6. new.completedAt = adjustTimestamp(q)
        <4>1. CASE TypeOf[n] \in Cumulative
          <5>1. new = Cumulate(old, n, q)
            BY <3>4, <4>1 DEF Written
          <5>2. CASE old.seconds + Gained(old, n, q) >= TargetOf[n]
            BY <3>5, <5>1, <5>2 DEF Cumulate
          <5>3. CASE ~(old.seconds + Gained(old, n, q) >= TargetOf[n])
            <6>1. new.completed =
                      (old.completed \/ old.seconds + Gained(old, n, q) >= TargetOf[n])
              BY <5>1 DEF Cumulate
            <6> QED BY <3>4, <5>3, <6>1, Zenon
          <5> QED BY <5>2, <5>3
        <4>2. CASE TypeOf[n] \notin Cumulative
          <5>1. new = [Fresh EXCEPT !.completed = TRUE, !.completedAt = adjustTimestamp(q)]
            BY <3>4, <4>2 DEF Written, Complete
          <5> QED BY <5>1 DEF Fresh
        <4> QED BY <4>1, <4>2
      <3>7. Publishing(w, q, n)'
        BY <1>4, <3>4 DEF Publishing
      <3> QED
        BY <3>3, <3>4, <3>6, <3>7 DEF Promised, Decides, Inhabits, adjustTimestamp
    <2> QED BY <2>1, <2>2
  <1> QED BY <1>7 DEF AnnounceInv

\* Publishing keeps the promise made for the mission it is about; the tick goes
\* on being held while another mission is ahead.
LEMMA ProceedAnnounces ==
  ASSUME AllInv, AnnounceInv, NEW w \in Workers, Proceed(w), engine[w].step = "publish",
         UNCHANGED <<progress, patched>>, Silent' \subseteq Silent,
         engine[w].row.completed => Key(w) \notin Silent'
  PROVE  AnnounceInv'
  <1>1. /\ engine[w] \in EngineRecords /\ engine \in [Workers -> EngineRecords]
        /\ engine[w] # Resting
    BY DEF AllInv, EngineInv, CompletionInv, Resting
  <1>2. PICK q \in Packets : q = engine[w].packet
    BY <1>1 DEF AllInv, EngineInv, CompletionInv, WorkerInv
  <1>3. PICK left : left = engine[w].todo \ {engine[w].mission}
    OBVIOUS
  <1>4. \A v \in Workers \ {w} : engine'[v] = engine[v]
    BY <1>1 DEF Proceed
  <1>5. ASSUME NEW m \in Missions, NEW p \in Packets,
               <<m, OperatorOf[p]>> \in Silent', Promised(m, p)
        PROVE  Promised(m, p)'
    <2>1. \A v \in Workers \ {w} : /\ Publishing(v, p, m) => Publishing(v, p, m)'
                                   /\ Ahead(v, m) => Ahead(v, m)'
      BY <1>4 DEF Publishing, Ahead
    <2>2. ~Publishing(w, p, m)
      BY <1>5 DEF Publishing, Key
    <2>3. CASE left = {}
      <3>1. tick' = [tick EXCEPT ![q] = FinishedBy(@, w)]
        BY <1>2, <1>3, <2>3 DEF Proceed
      <3>2. ~Ahead(w, m)
        BY <1>3, <2>3 DEF Ahead
      <3>3. CASE tick[p].by = w
        <4>1. tick[p].state = "active"
          BY <3>3, HolderFacts
        <4>2. \E v \in Workers : Publishing(v, p, m)
          BY <1>5, <3>2, <3>3, <4>1 DEF Promised
        <4>3. \E v \in Workers : Publishing(v, p, m)'
          BY <2>1, <2>2, <4>2
        <4> QED
          BY <1>5, <4>3 DEF Promised, Decides, Inhabits, adjustTimestamp
      <3>4. CASE tick[p].by # w
        <4>1. tick'[p] = tick[p]
          BY <3>1, <3>4, HolderFacts DEF FinishedBy
        <4> QED BY <1>5, <2>1, <2>2, <3>4, <4>1, PromiseStays
      <3> QED BY <3>3, <3>4
    <2>4. CASE left # {}
      <3>1. /\ UNCHANGED tick
            /\ engine' = [engine EXCEPT ![w] = [@ EXCEPT !.todo = left, !.mission = None,
                                                         !.row = Fresh, !.step = "read"]]
        BY <1>3, <2>4 DEF Proceed
      <3>2. engine'[w].todo = left /\ engine'[w].step = "read"
        BY <1>1, <3>1 DEF EngineRecords
      <3>3. Ahead(w, m) => Ahead(w, m)'
        BY <1>3, <3>2 DEF Ahead
      <3> QED BY <1>5, <2>1, <2>2, <3>1, <3>3, PromiseStays
    <2> QED BY <2>3, <2>4
  <1> QED BY <1>5, AnnounceStays

\* A worker that loses its tick gives it back, so that the next attempt comes to
\* the completion; without a tick, only a message can be lost.
LEMMA LetGoAnnounces ==
  ASSUME AllInv, AnnounceInv, NEW w \in Workers, FailTick(w) \/ LoseTick(w)
  PROVE  AnnounceInv'
  <1>1. /\ UNCHANGED <<progress, patched>> /\ Silent' \subseteq Silent
        /\ engine[w] # Resting
    BY DEF FailTick, LoseTick, Silent, Pairs, Resting
  <1>2. PICK q \in Packets : q = engine[w].packet
    BY <1>1 DEF AllInv, EngineInv, CompletionInv, WorkerInv
  <1>3. \A v \in Workers \ {w} : engine'[v] = engine[v]
    BY DEF FailTick, LoseTick, AllInv, EngineInv, CompletionInv
  <1>4. \/ tick' = [tick EXCEPT ![q] = FailedBy(@, w)]
        \/ tick' = [tick EXCEPT ![q] = ReleasedBy(@, w)]
    BY <1>2 DEF FailTick, LoseTick
  <1>5. ASSUME NEW p \in Packets, tick[p].by = w PROVE tick'[p].state \in {"waiting", "failed"}
    <2>1. p = q /\ tick[p] \in Jobs
      BY <1>2, <1>5, HolderFacts
    <2>2. /\ FailedBy(tick[p], w).state \in {"waiting", "failed"}
          /\ ReleasedBy(tick[p], w).state \in {"waiting", "failed"}
      BY <1>5, <2>1 DEF Jobs, FailedBy, ReleasedBy
    <2> QED BY <1>4, <2>1, <2>2, HolderFacts
  <1>6. ASSUME NEW p \in Packets, tick[p].by # w PROVE tick'[p] = tick[p]
    BY <1>4, <1>6, HolderFacts DEF FailedBy, ReleasedBy
  <1>7. ASSUME NEW m \in Missions, NEW p \in Packets,
               <<m, OperatorOf[p]>> \in Silent', Promised(m, p)
        PROVE  Promised(m, p)'
    <2>1. \A v \in Workers \ {w} : /\ Publishing(v, p, m) => Publishing(v, p, m)'
                                   /\ Ahead(v, m) => Ahead(v, m)'
      BY <1>3 DEF Publishing, Ahead
    <2>2. CASE tick[p].by = w
      <3>1. tick'[p].state \in {"waiting", "failed"}
        BY <1>5, <2>2
      <3> QED
        BY <1>1, <1>7, <3>1 DEF Promised, Decides, Inhabits, adjustTimestamp
    <2>3. CASE tick[p].by # w
      <3>1. tick'[p] = tick[p]
        BY <1>6, <2>3
      <3>2. Publishing(w, p, m) => Publishing(w, p, m)'
        <4>1. SUFFICES ASSUME Publishing(w, p, m) PROVE Publishing(w, p, m)'
          OBVIOUS
        <4>2. p = q /\ engine[w].step = "publish" /\ Key(w) = <<m, OperatorOf[p]>>
          BY <1>2, <4>1 DEF Publishing, Key
        <4>3. tick' = tick
          BY <1>4, <2>3, <4>2, HolderFacts DEF FailedBy, ReleasedBy
        <4>4. Key(w) \in muted' \/ UNCHANGED engine
          BY <4>2, <4>3 DEF FailTick, LoseTick
        <4> QED BY <1>7, <4>1, <4>2, <4>4 DEF Publishing, Silent
      <3> QED BY <1>1, <1>7, <2>1, <2>3, <3>1, <3>2, PromiseStays
    <2> QED BY <2>2, <2>3
  <1> QED BY <1>1, <1>7, AnnounceStays

LEMMA PatchAnnounces ==
  ASSUME AllInv, AnnounceInv, NEW n \in Missions, PatchStatus(n)
  PROVE  AnnounceInv'
  <1>1. /\ UNCHANGED <<progress, engine, tick>> /\ Silent' = Silent /\ patched \subseteq patched'
    BY DEF PatchStatus, Silent, Pairs
  <1>2. ASSUME NEW m \in Missions, NEW p \in Packets, Promised(m, p) PROVE Promised(m, p)'
    <2>1. \A v \in Workers : /\ Publishing(v, p, m) => Publishing(v, p, m)'
                             /\ Ahead(v, m) => Ahead(v, m)'
      BY <1>1 DEF Publishing, Ahead
    <2> QED BY <1>1, <1>2, <2>1, PromiseStays
  <1> QED BY <1>1, <1>2, AnnounceStays

\* A completion that no message was lost of and no stale worker wrote over has
\* been published when its tick is done (mission-engine.service.ts:57-70).
THEOREM CompletionAnnounced == EngineSpec => []CompletionIsAnnounced
  <1>1. EngineInit => AnnounceInv
    <2> SUFFICES ASSUME EngineInit, NEW m \in Missions, NEW o \in Operators
                 PROVE  ~progress[<<m, o>>].completed
      BY DEF AnnounceInv
    <2>1. progress[<<m, o>>] = Fresh
      BY DEF EngineInit, Pairs
    <2> QED BY <2>1 DEF Fresh
  <1>2. AllInv /\ AnnounceInv /\ [EngineNext]_allVars => AnnounceInv'
    <2> SUFFICES ASSUME AllInv, AnnounceInv, [EngineNext]_allVars PROVE AnnounceInv'
      OBVIOUS
    <2>1. CASE PosNext /\ UNCHANGED engineVars
      BY <2>1, PosAnnounces
    <2>2. ASSUME NEW w \in Workers, Publish(w) PROVE AnnounceInv'
      <3>1. /\ Proceed(w) /\ engine[w].step = "publish" /\ UNCHANGED <<progress, patched>>
            /\ Silent' \subseteq Silent /\ (engine[w].row.completed => Key(w) \notin Silent')
        BY <2>2 DEF Publish, Silent, Pairs
      <3> QED BY <3>1, ProceedAnnounces
    <2>3. ASSUME NEW w \in Workers, LoseMessage(w) PROVE AnnounceInv'
      <3>1. /\ Proceed(w) /\ engine[w].step = "publish" /\ UNCHANGED <<progress, patched>>
            /\ Silent' \subseteq Silent /\ Key(w) \notin Silent'
        BY <2>3 DEF LoseMessage, Silent, Pairs
      <3> QED BY <3>1, ProceedAnnounces
    <2>4. ASSUME NEW w \in Workers, FailTick(w) \/ LoseTick(w) PROVE AnnounceInv'
      BY <2>4, LetGoAnnounces
    <2>5. ASSUME NEW w \in Workers, Work(w) PROVE AnnounceInv'
      BY <2>2, <2>5, TakeTickAnnounces, FindProgressAnnounces, UpsertAnnounces DEF Work
    <2>6. ASSUME NEW m \in Missions, PatchStatus(m) PROVE AnnounceInv'
      BY <2>6, PatchAnnounces
    <2>7. CASE UNCHANGED allVars
      <3>1. UNCHANGED <<progress, engine, tick, patched>> /\ Silent' = Silent
        BY <2>7 DEF allVars, posVars, engineVars, Silent, Pairs
      <3>2. ASSUME NEW m \in Missions, NEW p \in Packets, Promised(m, p)
            PROVE  Promised(m, p)'
        <4>1. \A v \in Workers : /\ Publishing(v, p, m) => Publishing(v, p, m)'
                                 /\ Ahead(v, m) => Ahead(v, m)'
          BY <3>1 DEF Publishing, Ahead
        <4> QED BY <3>1, <3>2, <4>1, PromiseStays
      <3> QED BY <3>1, <3>2, AnnounceStays
    <2> QED BY <2>1, <2>3, <2>4, <2>5, <2>6, <2>7 DEF EngineNext
  <1>3. AllInv /\ AnnounceInv => CompletionIsAnnounced
    <2> SUFFICES ASSUME AnnounceInv, NEW m \in Missions \ patched, NEW o \in Operators,
                        <<m, o>> \in Silent, progress[<<m, o>>].completed
                 PROVE  \/ \E w \in Workers : engine[w].step = "publish" /\ Key(w) = <<m, o>>
                        \/ \E p \in Packets :
                              /\ EventOf[p] = MissionEvent[m] /\ OperatorOf[p] = o
                              /\ adjustTimestamp(p) = progress[<<m, o>>].completedAt
                              /\ tick[p].state \in {"waiting", "active", "failed"}
      BY DEF CompletionIsAnnounced, Silent, Pairs
    <2>1. PICK p \in Packets : OperatorOf[p] = o /\ Promised(m, p)
      BY DEF AnnounceInv
    <2>2. CASE \E w \in Workers : Publishing(w, p, m)
      BY <2>1, <2>2 DEF Publishing, Key
    <2>3. CASE tick[p].state \in {"waiting", "active", "failed"}
      BY <2>1, <2>3 DEF Promised, Decides
    <2> QED BY <2>1, <2>2, <2>3 DEF Promised
  <1> QED
    BY <1>1, <1>2, <1>3, EngineInvariant, TypeInvariant, CountInvariant, PTL
       DEF EngineSpec, AllInv

-----------------------------------------------------------------------------
(* Seconds held are the time between visits *)

\* Positions next to each other in time, both inside, and the time between them.
Between(S, q, p) ==
    \E r \in S : /\ adjustTimestamp(q) < adjustTimestamp(r)
                 /\ adjustTimestamp(r) < adjustTimestamp(p)
Visits(m, S) ==
    {z \in (S \cap Inside[m]) \X (S \cap Inside[m]) :
        adjustTimestamp(z[1]) < adjustTimestamp(z[2]) /\ ~Between(S, z[1], z[2])}
Stretch == [z \in Packets \X Packets |-> adjustTimestamp(z[2]) - adjustTimestamp(z[1])]

LEMMA VisitsAreFinite ==
  ASSUME NEW m \in Missions, NEW S \in SUBSET Packets, IsFiniteSet(S)
  PROVE  /\ IsFiniteSet(Visits(m, S)) /\ Visits(m, S) \subseteq Packets \X Packets
         /\ \A z \in Visits(m, S) : Stretch[z] \in Int
  <1>1. IsFiniteSet(S \cap Inside[m])
    BY FS_Subset
  <1>2. IsFiniteSet((S \cap Inside[m]) \X (S \cap Inside[m]))
    BY <1>1, FS_Product
  <1>3. Visits(m, S) \subseteq (S \cap Inside[m]) \X (S \cap Inside[m])
    BY DEF Visits
  <1>4. IsFiniteSet(Visits(m, S))
    BY <1>2, <1>3, FS_Subset
  <1>5. \A z \in Packets \X Packets : Stretch[z] \in Int
    BY TimesAreNat DEF Stretch
  <1> QED
    BY <1>3, <1>4, <1>5

LEMMA OccupancySums ==
  ASSUME NEW m \in Missions, NEW S \in SUBSET Packets, IsFiniteSet(S)
  PROVE  Occupancy(m, S) = SumOver(Stretch, Visits(m, S))
  <1> DEFINE Is(t) == t = [s \in SUBSET Visits(m, S) |-> IF s = {} THEN 0
                 ELSE (adjustTimestamp(AnyOf(s)[2]) - adjustTimestamp(AnyOf(s)[1]))
                          + t[s \ {AnyOf(s)}]]
  <1>1. Occupancy(m, S) = (CHOOSE t : Is(t))[Visits(m, S)]
    BY DEF Occupancy, Visits, Between, MapThenSumSet, MapThenFoldSet, AnyOf
  <1>2. \A t : Is(t) <=> IsSumTable(t, Stretch, SUBSET Visits(m, S))
    <2>1. \A s \in SUBSET Visits(m, S) : s # {} =>
              Stretch[AnyOf(s)] = adjustTimestamp(AnyOf(s)[2]) - adjustTimestamp(AnyOf(s)[1])
      BY AnyOfIsIn, VisitsAreFinite DEF Stretch
    <2> QED
      BY <2>1 DEF IsSumTable
  <1>3. Is(CHOOSE t : Is(t))
    <2>1. \E t : Is(t)
      BY <1>2, VisitsAreFinite, SumTableExists
    <2> HIDE DEF Is
    <2> QED
      BY <2>1
  <1>4. (CHOOSE t : Is(t))[Visits(m, S)] = SumOver(Stretch, Visits(m, S))
    <2> HIDE DEF Is
    <2> QED
      BY <1>2, <1>3, VisitsAreFinite, SumTableUnique
  <1> QED
    BY <1>1, <1>4

\* What a row says of the positions that wrote it, if they came in order.
LastOf(S, p) == p \in S /\ \A q \in S : adjustTimestamp(q) <= adjustTimestamp(p)

Accounts(m, S, row) ==
    /\ row.seconds = SumOver(Stretch, Visits(m, S))
    /\ \A p \in S : LastOf(S, p) =>
           row.insideAt = IF p \in Inside[m] THEN adjustTimestamp(p) ELSE None
    /\ row.insideAt # None =>
           \E p \in S : LastOf(S, p) /\ p \in Inside[m] /\ adjustTimestamp(p) = row.insideAt

\* A later position makes at most one new visit, with the last one before it.
LEMMA VisitsGrow ==
  ASSUME NEW m \in Missions, NEW S \in SUBSET Packets, NEW p \in Packets,
         \A q \in S : adjustTimestamp(q) < adjustTimestamp(p)
  PROVE  Visits(m, S \cup {p}) =
             Visits(m, S) \cup {z \in S \X {p} : z[1] \in Inside[m] /\ p \in Inside[m]
                                                 /\ LastOf(S, z[1])}
  <1> DEFINE T == S \cup {p}
             new == {z \in S \X {p} : z[1] \in Inside[m] /\ p \in Inside[m] /\ LastOf(S, z[1])}
  <1>0. \A q \in Packets : adjustTimestamp(q) \in Nat
    BY TimesAreNat
  <1>1. ASSUME NEW q \in T, NEW r \in T, <<q, r>> \in Visits(m, T)
        PROVE  <<q, r>> \in Visits(m, S) \/ <<q, r>> \in new
    <2>1. /\ q \in Inside[m] /\ r \in Inside[m]
          /\ adjustTimestamp(q) < adjustTimestamp(r) /\ ~Between(T, q, r)
      BY <1>1 DEF Visits
    <2>2. q \in S
      BY <1>0, <2>1
    <2>3. CASE r \in S
      BY <2>1, <2>2, <2>3 DEF Visits, Between
    <2>4. CASE r = p
      <3>1. LastOf(S, q)
        BY <1>0, <2>1, <2>2, <2>4 DEF LastOf, Between
      <3> QED
        BY <2>1, <2>2, <2>4, <3>1
    <2> QED
      BY <2>3, <2>4
  <1>2. ASSUME NEW q \in S, NEW r \in S, <<q, r>> \in Visits(m, S) PROVE <<q, r>> \in Visits(m, T)
    <2>1. /\ q \in Inside[m] /\ r \in Inside[m]
          /\ adjustTimestamp(q) < adjustTimestamp(r) /\ ~Between(S, q, r)
      BY <1>2 DEF Visits
    <2>2. ~Between(T, q, r)
      BY <1>0, <2>1 DEF Between
    <2> QED
      BY <2>1, <2>2 DEF Visits
  <1>3. ASSUME NEW q \in S, q \in Inside[m], p \in Inside[m], LastOf(S, q)
        PROVE  <<q, p>> \in Visits(m, T)
    <2>1. ~Between(T, q, p)
      BY <1>0, <1>3 DEF Between, LastOf
    <2> QED
      BY <1>3, <2>1 DEF Visits
  <1>4. Visits(m, T) \subseteq T \X T /\ Visits(m, S) \subseteq S \X S /\ new \subseteq S \X {p}
    BY DEF Visits
  <1>5. \A z \in Visits(m, T) : z \in Visits(m, S) \/ z \in new
    <2> HIDE DEF T, new
    <2> QED
      BY <1>1, <1>4
  <1>6. \A z \in Visits(m, S) : z \in Visits(m, T)
    BY <1>2, <1>4
  <1>7. \A z \in new : z \in Visits(m, T)
    <2> SUFFICES ASSUME NEW z \in new PROVE z \in Visits(m, T)
      OBVIOUS
    <2>1. PICK q \in S : z = <<q, p>>
      BY <1>4
    <2> QED
      BY <1>3, <2>1
  <1> QED
    BY <1>5, <1>6, <1>7

LEMMA RowAccounts ==
  ASSUME NEW m \in Missions, TypeOf[m] \in Cumulative,
         NEW S \in SUBSET Packets, IsFiniteSet(S), NEW p \in Packets,
         \A q \in S : adjustTimestamp(q) <= adjustTimestamp(p),
         \A q \in S \cup {p}, r \in S \cup {p} :
             adjustTimestamp(q) = adjustTimestamp(r) => q = r,
         NEW row \in Rows, Accounts(m, S, row)
  PROVE  Accounts(m, S \cup {p}, Written(row, m, p))
  <1>0. /\ \A q \in Packets : adjustTimestamp(q) \in Nat
        /\ row.seconds \in Nat /\ row.insideAt \in Nat \cup {None}
        /\ None \notin Nat
    BY TimesAreNat, MissionConstants DEF Rows
  <1>1. /\ Written(row, m, p).seconds = row.seconds + Gained(row, m, p)
        /\ Written(row, m, p).insideAt = IF p \in Inside[m] THEN adjustTimestamp(p) ELSE None
    BY DEF Written, Cumulate, Inhabits
  <1>2. PICK new : new = Written(row, m, p)
    OBVIOUS
  <1>3. LastOf(S \cup {p}, p) /\ \A q \in S \cup {p} : LastOf(S \cup {p}, q) => q = p
    <2>1. \A q \in S : adjustTimestamp(q) >= adjustTimestamp(p) => q = p
      BY <1>0
    <2> QED
      BY <1>0, <2>1 DEF LastOf
  <1>4. CASE p \in S
    <2>1. S \cup {p} = S /\ row.insideAt = IF p \in Inside[m] THEN adjustTimestamp(p) ELSE None
      BY <1>3, <1>4 DEF Accounts
    <2>2. Gained(row, m, p) = 0
      BY <1>0, <2>1 DEF Gained, Inhabits
    <2>3. new.seconds = row.seconds /\ new.insideAt = row.insideAt
      BY <1>0, <1>1, <1>2, <2>1, <2>2
    <2> QED
      BY <1>2, <2>1, <2>3 DEF Accounts
  <1>5. CASE p \notin S
    <2>1. \A q \in S : adjustTimestamp(q) < adjustTimestamp(p)
      BY <1>0, <1>5
    <2> DEFINE later == {z \in S \X {p} : z[1] \in Inside[m] /\ p \in Inside[m]
                                          /\ LastOf(S, z[1])}
    <2>2. Visits(m, S \cup {p}) = Visits(m, S) \cup later
      BY <2>1, VisitsGrow
    <2>3. IsFiniteSet(Visits(m, S)) /\ Visits(m, S) \subseteq S \X S
          /\ \A z \in Visits(m, S) : Stretch[z] \in Int
      BY VisitsAreFinite DEF Visits
    <2>4. new.seconds = SumOver(Stretch, Visits(m, S \cup {p}))
      <3>1. CASE p \in Inside[m] /\ row.insideAt # None
        <4>1. PICK q \in S : LastOf(S, q) /\ q \in Inside[m] /\ adjustTimestamp(q) = row.insideAt
          BY <3>1 DEF Accounts
        <4>2. ASSUME NEW r \in S, LastOf(S, r), r \in Inside[m] PROVE adjustTimestamp(r) = row.insideAt
          BY <4>2, <3>1 DEF Accounts
        <4>3. \A r \in S : LastOf(S, r) /\ r \in Inside[m] => r = q
          BY <4>1, <4>2
        <4>4. later = {<<q, p>>}
          <5>1. <<q, p>> \in later
            BY <3>1, <4>1
          <5>2. \A z \in later : z = <<q, p>>
            BY <4>3
          <5> QED
            BY <5>1, <5>2
        <4>5. <<q, p>> \notin Visits(m, S) /\ <<q, p>> \in Packets \X Packets
          BY <1>5, <2>3
        <4>6. Stretch[<<q, p>>] = adjustTimestamp(p) - adjustTimestamp(q)
          BY <4>5 DEF Stretch
        <4>7. adjustTimestamp(p) \in Nat /\ adjustTimestamp(q) \in Nat
          BY <1>0
        <4>8. SumOver(Stretch, Visits(m, S) \cup {<<q, p>>})
                  = SumOver(Stretch, Visits(m, S)) + (adjustTimestamp(p) - adjustTimestamp(q))
          <5>1. \A z \in Visits(m, S) \cup {<<q, p>>} : Stretch[z] \in Int
            BY <2>3, <4>6, <4>7
          <5> QED
            BY <2>3, <4>5, <4>6, <5>1, SumWith
        <4>9. Gained(row, m, p) = adjustTimestamp(p) - adjustTimestamp(q)
          BY <2>1, <3>1, <4>1 DEF Gained, Inhabits
        <4> QED
          BY <1>1, <1>2, <2>2, <4>4, <4>8, <4>9 DEF Accounts
      <3>2. CASE p \notin Inside[m]
        <4>1. later = {}
          BY <3>2
        <4>2. Gained(row, m, p) = 0
          BY <3>2 DEF Gained, Inhabits
        <4>3. new.seconds = row.seconds
          BY <1>0, <1>1, <1>2, <4>2
        <4>4. Visits(m, S \cup {p}) = Visits(m, S)
          BY <2>2, <4>1
        <4> QED
          BY <4>3, <4>4 DEF Accounts
      <3>3. CASE row.insideAt = None
        <4>1. later = {}
          BY <1>0, <3>3 DEF Accounts
        <4>2. Gained(row, m, p) = 0
          BY <3>3 DEF Gained
        <4>3. new.seconds = row.seconds
          BY <1>0, <1>1, <1>2, <4>2
        <4>4. Visits(m, S \cup {p}) = Visits(m, S)
          BY <2>2, <4>1
        <4> QED
          BY <4>3, <4>4 DEF Accounts
      <3> QED
        BY <3>1, <3>2, <3>3
    <2> QED
      BY <1>1, <1>2, <1>3, <2>4 DEF Accounts
  <1> QED
    BY <1>4, <1>5
-----------------------------------------------------------------------------
\* One tick per event, operator and time; every tick that is being worked on, or that
\* wrote a row, is in the queue; and rows account for what wrote them.
OneTick ==
    \A p \in Packets, q \in Packets :
        tick[p].state # "absent" /\ tick[q].state # "absent" /\ SameTick(p, q) => p = q

TakenTicks ==
    \A w \in Workers : engine[w] # Resting => tick[engine[w].packet].state # "absent"

Steady == Pairs \ (overlapped \cup misordered)

RowsAccount ==
    \A m \in Missions, o \in Operators :
        <<m, o>> \in Steady /\ TypeOf[m] \in Cumulative =>
            Accounts(m, applied[<<m, o>>], progress[<<m, o>>])

AppliedTick(m, o, p) ==
    EventOf[p] = MissionEvent[m] /\ OperatorOf[p] = o /\ tick[p].state # "absent"

VisitInv ==
    /\ OneTick /\ TakenTicks
    /\ \A m \in Missions, o \in Operators :
          /\ IsFiniteSet(applied[<<m, o>>])
          /\ \A p \in applied[<<m, o>>] : AppliedTick(m, o, p)
    /\ RowsAccount

LEMMA VisitInit == EngineInit => VisitInv
  <1> SUFFICES ASSUME EngineInit PROVE VisitInv
    OBVIOUS
  <1>1. OneTick /\ TakenTicks
    BY DEF EngineInit, PosInit, NoJob, OneTick, TakenTicks
  <1>2. ASSUME NEW m \in Missions, NEW o \in Operators
        PROVE  applied[<<m, o>>] = {} /\ progress[<<m, o>>] = Fresh
    BY DEF EngineInit, Pairs
  <1>3. ASSUME NEW m \in Missions PROVE Accounts(m, {}, Fresh)
    <2>1. Visits(m, {}) = {}
      BY DEF Visits
    <2> QED
      BY <2>1, SumOfNone DEF Accounts, Fresh
  <1>4. IsFiniteSet({})
    BY FS_EmptySet
  <1> QED
    BY <1>1, <1>2, <1>3, <1>4 DEF VisitInv, RowsAccount

\* Queueing a tick again adds none to the operator and time it stands for.
LEMMA EnqueueOnce ==
  ASSUME TickInv, OneTick, NEW p \in Packets, EnqueueTick(p)
  PROVE  OneTick'
  <1>1. CASE Ticked(p)
    BY <1>1 DEF EnqueueTick, OneTick, SameTick, adjustTimestamp
  <1>2. CASE ~Ticked(p)
    <2>1. tick' = [tick EXCEPT ![p] = Added(@)]
      BY <1>2 DEF EnqueueTick
    <2>2. \A q \in Packets \ {p} : tick'[q] = tick[q]
      BY <2>1 DEF TickInv
    <2>3. \A q \in Packets : SameTick(p, q) \/ SameTick(q, p) => tick[q].state = "absent"
      BY <1>2 DEF Ticked, SameTick
    <2>4. \A q \in Packets, r \in Packets : SameTick(q, r)' = SameTick(q, r)
      BY DEF SameTick, adjustTimestamp
    <2> QED
      BY <2>2, <2>3, <2>4 DEF OneTick
  <1> QED
    BY <1>1, <1>2

LEMMA PosOneTick ==
  ASSUME PosInv, OneTick, PosNext
  PROVE  OneTick'
  <1>1. ASSUME NEW w \in Workers, FanOut(w) \/ LoseEnqueue(w) PROVE OneTick'
    <2>1. run[w].packet \in Packets
      BY <1>1 DEF FanOut, LoseEnqueue, At, PosInv, RecordInv, Runs, Idle
    <2>2. CASE EnqueueTick(run[w].packet)
      BY <2>1, <2>2, EnqueueOnce DEF PosInv
    <2>3. CASE UNCHANGED tick
      BY <2>3 DEF OneTick, SameTick, adjustTimestamp
    <2> QED
      BY <1>1, <2>2, <2>3 DEF FanOut, LoseEnqueue
  <1>2. CASE UNCHANGED tick
    BY <1>2 DEF OneTick, SameTick, adjustTimestamp
  <1> QED
    BY <1>1, <1>2 DEF PosNext, Process, Fade, Ingest, Expire, Purge, Dedup, Insert,
                      Show, FailRun, LoseLock, FailDedup

\* The engine queues nothing.
LEMMA EngineOneTick ==
  ASSUME EngineInv, OneTick, TakenTicks, EngineStep
  PROVE  OneTick'
  <1>1. \A q \in Packets : tick[q].state = "absent" => tick'[q].state = "absent"
    <2>1. ASSUME NEW w \in Workers, NEW p \in Packets, TakeTick(w, p)
          PROVE  \A q \in Packets : tick[q].state = "absent" => tick'[q].state = "absent"
      <3>1. \/ tick' = [tick EXCEPT ![p] = FinishedBy(TakenBy(@, w), w)]
            \/ tick' = [tick EXCEPT ![p] = TakenBy(@, w)]
        BY <2>1 DEF TakeTick
      <3>2. tick[p].state = "waiting"
        BY <2>1 DEF TakeTick
      <3> QED
        BY <3>1, <3>2 DEF EngineInv, PosInv, TickInv
    <2>2. ASSUME NEW w \in Workers, Publish(w) \/ LoseMessage(w) \/ FailTick(w) \/ LoseTick(w)
          PROVE  \A q \in Packets : tick[q].state = "absent" => tick'[q].state = "absent"
      <3>1. engine[w] # Resting
        BY <2>2 DEF Publish, LoseMessage, FailTick, LoseTick, Resting
      <3>2. PICK p \in Packets : p = engine[w].packet
        BY <3>1 DEF EngineInv, CompletionInv, WorkerInv
      <3>3. UNCHANGED tick \/ \E j : tick' = [tick EXCEPT ![p] = j]
        BY <2>2, <3>2 DEF Publish, LoseMessage, FailTick, LoseTick, Proceed
      <3>4. tick[p].state # "absent"
        BY <3>1, <3>2 DEF TakenTicks
      <3> QED
        BY <3>3, <3>4 DEF EngineInv, PosInv, TickInv
    <2>3. CASE UNCHANGED tick
      BY <2>3
    <2> QED
      BY <2>1, <2>2, <2>3
         DEF EngineStep, Work, FindProgress, Upsert, PatchStatus, posVars
  <1>2. \A q \in Packets, r \in Packets : SameTick(q, r)' = SameTick(q, r)
    BY DEF SameTick, adjustTimestamp
  <1> QED
    BY <1>1, <1>2 DEF OneTick

\* A worker takes up a tick that is waiting, and ticks stay in the queue.
LEMMA TakenStay ==
  ASSUME EngineInv, TakenTicks, EngineStep
  PROVE  TakenTicks'
  <1>1. TicksStay
    BY EngineKeepsTicks
  <1>2. \A v \in Workers : engine[v] # Resting => engine[v].packet \in Packets
    BY DEF EngineInv, CompletionInv, WorkerInv
  <1>3. ASSUME NEW w \in Workers, NEW p \in Packets, TakeTick(w, p) PROVE TakenTicks'
    <2>1. tick'[p].state # "absent"
      BY <1>1, <1>3 DEF TakeTick, TicksStay
    <2>2. UNCHANGED engine \/ \E e : engine' = [engine EXCEPT ![w] = e] /\ e.packet = p
      <3>1. PICK e : e = [Resting EXCEPT !.packet = p, !.todo = {m \in offered : Decides(m, p)},
                                         !.step = "read"]
        OBVIOUS
      <3>2. e.packet = p
        BY <3>1 DEF Resting
      <3>3. UNCHANGED engine \/ engine' = [engine EXCEPT ![w] = e]
        BY <1>3, <3>1 DEF TakeTick
      <3> QED
        BY <3>2, <3>3
    <2> QED
      BY <1>1, <1>2, <2>1, <2>2 DEF TakenTicks, TicksStay, EngineInv, CompletionInv
  <1>4. ASSUME NEW w \in Workers, engine[w] # Resting,
               \/ UNCHANGED engine
               \/ engine' = [engine EXCEPT ![w] = Resting]
               \/ \E e : engine' = [engine EXCEPT ![w] = e] /\ e.packet = engine[w].packet
        PROVE  TakenTicks'
    BY <1>1, <1>2, <1>4 DEF TakenTicks, TicksStay, EngineInv, CompletionInv
  <1>5. ASSUME NEW w \in Workers, \/ Upsert(w) \/ Publish(w) \/ LoseMessage(w)
                                   \/ FailTick(w) \/ LoseTick(w)
                                   \/ \E m \in Missions : FindProgress(w, m)
        PROVE  TakenTicks'
    <2>1. engine[w] # Resting /\ engine[w] \in EngineRecords
      <3>1. engine[w].step # "idle" \/ engine[w] # Resting
        BY <1>5 DEF Upsert, Publish, LoseMessage, FailTick, LoseTick, FindProgress
      <3> QED
        BY <3>1 DEF Resting, EngineInv, CompletionInv
    <2>2. CASE \E m \in Missions : FindProgress(w, m)
      <3>1. PICK m \in Missions : FindProgress(w, m)
        BY <2>2
      <3>2. engine' = [engine EXCEPT ![w] = [engine[w] EXCEPT !.mission = m, !.step = "write",
                           !.row = progress[<<m, OperatorOf[engine[w].packet]>>]]]
        BY <3>1 DEF FindProgress
      <3>3. PICK e : e = [engine[w] EXCEPT !.mission = m, !.step = "write",
                           !.row = progress[<<m, OperatorOf[engine[w].packet]>>]]
        OBVIOUS
      <3>4. e.packet = engine[w].packet
        BY <2>1, <3>3 DEF EngineRecords
      <3> QED
        BY <1>4, <2>1, <3>2, <3>3, <3>4
    <2>3. CASE Upsert(w)
      <3>1. PICK e : e = [engine[w] EXCEPT !.step = "publish",
                    !.row = Written(engine[w].row, engine[w].mission, engine[w].packet)]
        OBVIOUS
      <3>2. engine' = [engine EXCEPT ![w] = e] /\ e.packet = engine[w].packet
        BY <2>1, <2>3, <3>1 DEF Upsert, EngineRecords
      <3> QED
        BY <1>4, <2>1, <3>2
    <2>4. CASE Proceed(w)
      <3>1. PICK e : e = [engine[w] EXCEPT !.todo = engine[w].todo \ {engine[w].mission},
                              !.mission = None, !.row = Fresh, !.step = "read"]
        OBVIOUS
      <3>2. e.packet = engine[w].packet
        BY <2>1, <3>1 DEF EngineRecords
      <3>3. engine' = [engine EXCEPT ![w] = Resting] \/ engine' = [engine EXCEPT ![w] = e]
        BY <2>4, <3>1 DEF Proceed
      <3> QED
        BY <1>4, <2>1, <3>2, <3>3
    <2>5. CASE FailTick(w) \/ LoseTick(w)
      BY <1>4, <2>1, <2>5 DEF FailTick, LoseTick
    <2> QED
      BY <1>5, <2>2, <2>3, <2>4, <2>5 DEF Publish, LoseMessage
  <1>6. ASSUME NEW m \in Missions, PatchStatus(m) PROVE TakenTicks'
    BY <1>6 DEF PatchStatus, TakenTicks
  <1> QED
    BY <1>3, <1>5, <1>6 DEF EngineStep, Work

\* A step that writes no row.
LEMMA UnwrittenAccounts ==
  ASSUME VisitInv, TicksStay, SetInv, UNCHANGED <<progress, applied, overlapped, misordered>>,
         OneTick', TakenTicks'
  PROVE  VisitInv'
  <1>1. ASSUME NEW m \in Missions, NEW o \in Operators
        PROVE  /\ IsFiniteSet(applied'[<<m, o>>])
               /\ \A p \in applied'[<<m, o>>] : AppliedTick(m, o, p)'
    <2>1. applied[<<m, o>>] \subseteq Packets
      BY DEF SetInv, Pairs
    <2> QED
      BY <2>1 DEF VisitInv, TicksStay, AppliedTick
  <1>2. ASSUME NEW m \in Missions, NEW S, NEW row, Accounts(m, S, row)
        PROVE  Accounts(m, S, row)'
    BY <1>2 DEF Accounts, Visits, Between, Stretch, LastOf, adjustTimestamp
  <1>3. RowsAccount'
    <2> SUFFICES ASSUME NEW m \in Missions, NEW o \in Operators,
                        <<m, o>> \in Steady, TypeOf[m] \in Cumulative
                 PROVE  Accounts(m, applied[<<m, o>>], progress[<<m, o>>])'
      BY DEF RowsAccount, Steady
    <2>1. PICK S, row : S = applied[<<m, o>>] /\ row = progress[<<m, o>>]
      OBVIOUS
    <2>2. Accounts(m, S, row)
      BY <2>1 DEF VisitInv, RowsAccount
    <2>3. applied'[<<m, o>>] = S /\ progress'[<<m, o>>] = row
      BY <2>1
    <2> QED
      BY <1>2, <2>2, <2>3 DEF Accounts
  <1> QED
    BY <1>1, <1>3 DEF VisitInv

\* The row that a tick writes accounts for its position too, unless the worker
\* wrote over what it had not read, or a later position came before.
LEMMA UpsertAccounts ==
  ASSUME EngineInv, SetInv, VisitInv, TicksStay, OneTick', TakenTicks',
         NEW w \in Workers, Upsert(w)
  PROVE  VisitInv'
  <1>1. engine[w].step = "write" /\ UNCHANGED tick
    BY DEF Upsert, posVars
  <1>2. engine[w] # Resting
    BY <1>1 DEF Resting
  <1>3. PICK m \in Missions, p \in Packets, old \in Rows, new \in Rows :
            Upserted(w, m, p, old, new)
    BY UpsertStep
  <1>4. PICK o \in Operators : o = OperatorOf[p]
    BY PositionConstants
  <1>5. PICK x \in Pairs : x = <<m, o>>
    BY DEF Pairs
  <1>6. /\ engine[w].packet = p /\ engine[w].row = old /\ Key(w) = x
        /\ new = Written(old, m, p) /\ engine[w].mission = m
    BY <1>3, <1>4, <1>5 DEF Upserted, Key
  <1>7. CASE ~Rewrites(w)
    <2>1. UNCHANGED <<progress, applied, overlapped, misordered>>
      BY <1>7 DEF Upsert
    <2> QED
      BY <2>1, UnwrittenAccounts
  <1>8. CASE Rewrites(w)
    <2>1. /\ progress' = [progress EXCEPT ![x] = new]
          /\ applied' = [applied EXCEPT ![x] = @ \cup {p}]
          /\ overlapped' = IF progress[x] # old THEN overlapped \cup {x} ELSE overlapped
          /\ misordered' = IF \E q \in applied[x] : adjustTimestamp(q) > adjustTimestamp(p)
                           THEN misordered \cup {x} ELSE misordered
      BY <1>6, <1>8 DEF Upsert
    <2>2. PICK S \in SUBSET Packets : S = applied[x]
      BY DEF SetInv
    <2>3. applied'[x] = S \cup {p} /\ progress'[x] = new
      BY <2>1, <2>2 DEF SetInv, EngineInv, CompletionInv
    <2>4. \A n \in Missions, u \in Operators : <<n, u>> # x =>
              applied'[<<n, u>>] = applied[<<n, u>>] /\ progress'[<<n, u>>] = progress[<<n, u>>]
      BY <2>1 DEF Pairs, SetInv, EngineInv, CompletionInv
    <2>5. IsFiniteSet(S) /\ \A q \in S : AppliedTick(m, o, q)
      BY <1>5, <2>2 DEF VisitInv
    <2>6. AppliedTick(m, o, p)
      <3>1. Decides(m, p)
        BY <1>1, <1>2, <1>6 DEF EngineInv, CompletionInv, WorkerInv
      <3> QED
        BY <1>2, <1>4, <1>6, <3>1 DEF VisitInv, TakenTicks, AppliedTick, Decides
    <2>7. ASSUME NEW n \in Missions, NEW u \in Operators
          PROVE  /\ IsFiniteSet(applied'[<<n, u>>])
                 /\ \A q \in applied'[<<n, u>>] : AppliedTick(n, u, q)'
      <3>1. CASE <<n, u>> = x
        <4>1. u = o /\ n = m
          BY <1>5, <3>1
        <4>2. IsFiniteSet(S \cup {p})
          BY <2>5, FS_AddElement
        <4> QED
          BY <1>1, <2>3, <2>5, <2>6, <3>1, <4>1, <4>2 DEF AppliedTick
      <3>2. CASE <<n, u>> # x
        BY <1>1, <2>4, <3>2 DEF VisitInv, AppliedTick
      <3> QED
        BY <3>1, <3>2
    <2>8. ASSUME x \in Steady', TypeOf[m] \in Cumulative PROVE Accounts(m, S \cup {p}, new)
      <3>1. /\ x \in Steady /\ progress[x] = old
            /\ ~\E q \in S : adjustTimestamp(q) > adjustTimestamp(p)
        BY <2>1, <2>2, <2>8 DEF Steady
      <3>2. Accounts(m, S, old)
        BY <1>5, <2>2, <2>8, <3>1 DEF VisitInv, RowsAccount
      <3>3. \A q \in S : adjustTimestamp(q) <= adjustTimestamp(p)
        BY <3>1, TimesAreNat
      <3>4. \A q \in S \cup {p}, r \in S \cup {p} :
                adjustTimestamp(q) = adjustTimestamp(r) => q = r
        BY <2>5, <2>6 DEF VisitInv, OneTick, SameTick, AppliedTick
      <3> QED
        BY <1>6, <2>5, <2>8, <3>2, <3>3, <3>4, RowAccounts
    <2>9. ASSUME NEW n \in Missions, NEW S1, NEW row, Accounts(n, S1, row)
          PROVE  Accounts(n, S1, row)'
      BY <2>9 DEF Accounts, Visits, Between, Stretch, LastOf, adjustTimestamp
    <2>10. RowsAccount'
      <3> SUFFICES ASSUME NEW n \in Missions, NEW u \in Operators,
                          (<<n, u>> \in Steady)', TypeOf[n] \in Cumulative
                   PROVE  Accounts(n, applied[<<n, u>>], progress[<<n, u>>])'
        BY DEF RowsAccount
      <3>1. PICK S1, row : S1 = applied'[<<n, u>>] /\ row = progress'[<<n, u>>]
        OBVIOUS
      <3>2. CASE <<n, u>> = x
        <4>1. n = m /\ S1 = S \cup {p} /\ row = new
          BY <1>5, <2>3, <3>1, <3>2
        <4>2. Accounts(n, S1, row)
          BY <2>8, <3>2, <4>1
        <4> QED
          BY <2>9, <3>1, <4>2 DEF Accounts
      <3>3. CASE <<n, u>> # x
        <4>1. <<n, u>> \in Steady
          BY <2>1, <3>3 DEF Steady
        <4>2. S1 = applied[<<n, u>>] /\ row = progress[<<n, u>>]
          BY <2>4, <3>1, <3>3
        <4>3. Accounts(n, S1, row)
          BY <4>1, <4>2 DEF VisitInv, RowsAccount
        <4> QED
          BY <2>9, <3>1, <4>3 DEF Accounts
      <3> QED
        BY <3>2, <3>3
    <2> QED
      BY <2>7, <2>10 DEF VisitInv
  <1> QED
    BY <1>7, <1>8

\* What a row has added up, tick by tick, is the time between its positions that
\* are next to each other and both inside, unless a stale worker wrote over it
\* or a tick came before an older one (mission-engine.service.ts:129-163).
THEOREM SecondsAddUp == EngineSpec => []SecondsMatchPresence
  <1>1. EngineInv /\ SetInv /\ VisitInv /\ [EngineNext]_allVars => VisitInv'
    <2> SUFFICES ASSUME EngineInv, SetInv, VisitInv, [EngineNext]_allVars PROVE VisitInv'
      OBVIOUS
    <2>1. CASE PosNext /\ UNCHANGED engineVars
      <3>1. TicksStay /\ OneTick'
        BY <2>1, PosKeepsTicks, PosOneTick DEF EngineInv, VisitInv
      <3>2. TakenTicks'
        BY <2>1, <3>1 DEF engineVars, VisitInv, TakenTicks, TicksStay, EngineInv,
                          CompletionInv, WorkerInv
      <3> QED
        BY <2>1, <3>1, <3>2, UnwrittenAccounts DEF engineVars
    <2>2. CASE EngineStep
      <3>1. TicksStay /\ OneTick' /\ TakenTicks'
        BY <2>2, EngineKeepsTicks, EngineOneTick, TakenStay DEF VisitInv
      <3>2. CASE UNCHANGED <<progress, applied, overlapped, misordered>>
        BY <3>1, <3>2, UnwrittenAccounts
      <3>3. CASE \E w \in Workers : Upsert(w)
        BY <3>1, <3>3, UpsertAccounts
      <3> QED
        BY <2>2, <3>2, <3>3 DEF EngineStep, Work, TakeTick, FindProgress, Publish, LoseMessage,
                                FailTick, LoseTick, PatchStatus
    <2>3. CASE UNCHANGED allVars
      <3>1. UNCHANGED <<tick, engine, progress, applied, overlapped, misordered>>
        BY <2>3 DEF allVars, posVars, engineVars
      <3>2. TicksStay /\ OneTick' /\ TakenTicks'
        BY <3>1 DEF TicksStay, VisitInv, OneTick, TakenTicks, SameTick, adjustTimestamp
      <3> QED
        BY <3>1, <3>2, UnwrittenAccounts
    <2> QED
      BY <2>1, <2>2, <2>3, EngineSteps
  <1>2. SetInv /\ VisitInv => SecondsMatchPresence
    <2> SUFFICES ASSUME SetInv, VisitInv, NEW m \in Missions, NEW o \in Operators,
                        <<m, o>> \in Steady, TypeOf[m] \in Cumulative
                 PROVE  progress[<<m, o>>].seconds = Occupancy(m, applied[<<m, o>>])
      BY DEF SecondsMatchPresence, Steady, Pairs
    <2>1. PICK S \in SUBSET Packets : S = applied[<<m, o>>]
      BY DEF SetInv, Pairs
    <2>2. IsFiniteSet(S) /\ Accounts(m, S, progress[<<m, o>>])
      BY <2>1 DEF VisitInv, RowsAccount
    <2> QED
      BY <2>1, <2>2, OccupancySums DEF Accounts
  <1> QED
    BY <1>1, <1>2, VisitInit, EngineInvariant, TypeInvariant, PTL DEF EngineSpec
=============================================================================
