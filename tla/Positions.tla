------------------------------ MODULE Positions ------------------------------
(***************************************************************************)
(* The position pipeline up to the two queues it feeds: PositionsService.  *)
(* ingest (src/modules/positions/positions.service.ts) checks a packet and *)
(* queues it under its clientEventId; PositionsProcessor (positions.       *)
(* processor.ts) keeps it in position_history, shows it as the live        *)
(* position of its operator and queues a tick for the mission engine and   *)
(* an inspection for the anti-cheat, whose jobId is the event, the operator *)
(* and the time of the position.                                           *)
(***************************************************************************)
EXTENDS JobQueue, FiniteSets

CONSTANTS
    Events,
    Operators,
    Packets,        \* clientEventIds
    EventOf,        \* EventOf[p]: the event p was sent for
    OperatorOf,     \* OperatorOf[p]: from the token, never from the body
    CapturedAt,     \* CapturedAt[p]: recordedAt by the clock of the device
    ReceivedAt,     \* ReceivedAt[p]: by the clock of the server
    MaxDrift,
    None,
    MaxFaults       \* bound: failures, stalls, crashes, expiries and purges

ASSUME PositionConstants ==
    /\ EventOf \in [Packets -> Events] /\ OperatorOf \in [Packets -> Operators]
    /\ CapturedAt \in [Packets -> Nat] /\ ReceivedAt \in [Packets -> Nat]
    /\ MaxDrift \in Nat /\ MaxFaults \in Nat
    /\ None \notin Packets

VARIABLES
    ingested,   \* the job of each packet in positions-ingest
    run,        \* what each worker of positions-ingest is doing
    dedup,      \* packets whose dedup:position key is set
    history,    \* history[p]: rows of p in position_history
    live,       \* live:position of each operator, or None
    tick,       \* tick[p]: the mission-progress job queued for p
    inspect,    \* packets with a job in the anti-cheat queue
    expired,    \* history: packets whose dedup key has expired
    broken,     \* history: packets a run of which failed or was cut off
    faults      \* faults so far

posVars == <<ingested, run, dedup, history, live, tick, inspect, expired, broken, faults>>

Idle == [packet |-> None, step |-> "idle"]

PosInit ==
    /\ ingested = [p \in Packets |-> NoJob]
    /\ run = [w \in Workers |-> Idle]
    /\ dedup = {}
    /\ history = [p \in Packets |-> 0]
    /\ live = [o \in Operators |-> None]
    /\ tick = [p \in Packets |-> NoJob]
    /\ inspect = {}
    /\ expired = {}
    /\ broken = {}
    /\ faults = 0

\* A clock that is off by more than MaxDrift is overruled by the server's.
adjustTimestamp(p) ==
    IF ReceivedAt[p] - CapturedAt[p] \in -MaxDrift..MaxDrift
    THEN CapturedAt[p] ELSE ReceivedAt[p]

\* Packets whose ticks, and whose inspections, have the same jobId.
SameTick(p, q) ==
    /\ EventOf[p] = EventOf[q] /\ OperatorOf[p] = OperatorOf[q]
    /\ adjustTimestamp(p) = adjustTimestamp(q)

-----------------------------------------------------------------------------
(* The service and the processor *)

\* ingest: the roster decides which packets are refused, which changes nothing
\* here, and may change its mind before the job is queued; so any packet may
\* be queued at any time.  A packet whose job is kept is not queued again.
Ingest(p) ==
    /\ ingested[p].state = "absent"
    /\ ingested' = [ingested EXCEPT ![p] = Added(@)]
    /\ UNCHANGED <<run, dedup, history, live, tick, inspect, expired, broken, faults>>

\* Mutant of Dedup: the key is looked up, and nobody sets it.
DedupLookup(w, p) ==
    /\ run[w] = Idle
    /\ ingested[p].state = "waiting"
    /\ p \notin dedup
    /\ ingested' = [ingested EXCEPT ![p] = TakenBy(@, w)]
    /\ run' = [run EXCEPT ![w] = [packet |-> p, step |-> "insert"]]
    /\ UNCHANGED <<dedup, history, live, tick, inspect, expired, broken, faults>>

\* Mutant of Dedup: one key per operator.
DedupOperator(w, p) ==
    /\ run[w] = Idle
    /\ ingested[p].state = "waiting"
    /\ IF \E q \in dedup : OperatorOf[q] = OperatorOf[p]
       THEN /\ ingested' = [ingested EXCEPT ![p] = FinishedBy(TakenBy(@, w), w)]
            /\ UNCHANGED <<run, dedup>>
       ELSE /\ ingested' = [ingested EXCEPT ![p] = TakenBy(@, w)]
            /\ dedup' = dedup \cup {p}
            /\ run' = [run EXCEPT ![w] = [packet |-> p, step |-> "insert"]]
    /\ UNCHANGED <<history, live, tick, inspect, expired, broken, faults>>

\* process takes a job and tries SET key NX.
Dedup(w, p) ==
    /\ run[w] = Idle
    /\ ingested[p].state = "waiting"
    /\ IF p \in dedup
       THEN /\ ingested' = [ingested EXCEPT ![p] = FinishedBy(TakenBy(@, w), w)]
            /\ UNCHANGED <<run, dedup>>
       ELSE /\ ingested' = [ingested EXCEPT ![p] = TakenBy(@, w)]
            /\ dedup' = dedup \cup {p}
            /\ run' = [run EXCEPT ![w] = [packet |-> p, step |-> "insert"]]
    /\ UNCHANGED <<history, live, tick, inspect, expired, broken, faults>>

At(w, s) == run[w].step = s

Goto(w, s) == run' = [run EXCEPT ![w].step = s]

Insert(w) ==
    /\ At(w, "insert")
    /\ history' = [history EXCEPT ![run[w].packet] = @ + 1]
    /\ Goto(w, "show")
    /\ UNCHANGED <<ingested, dedup, live, tick, inspect, expired, broken, faults>>

\* The snapshot; the message to the live map changes no state.
Show(w) ==
    /\ At(w, "show")
    /\ live' = [live EXCEPT ![OperatorOf[run[w].packet]] = run[w].packet]
    /\ Goto(w, "enqueue")
    /\ UNCHANGED <<ingested, dedup, history, tick, inspect, expired, broken, faults>>

Ticked(p) == \E q \in Packets : SameTick(p, q) /\ tick[q].state # "absent"

EnqueueTick(p) ==
    tick' = IF Ticked(p) THEN tick ELSE [tick EXCEPT ![p] = Added(@)]

EnqueueInspect(p) ==
    inspect' = IF \E q \in inspect : SameTick(p, q) THEN inspect ELSE inspect \cup {p}

Return(w) ==
    /\ run' = [run EXCEPT ![w] = Idle]
    /\ ingested' = [ingested EXCEPT ![run[w].packet] = FinishedBy(@, w)]

\* The two queues do not depend on each other, so one step adds to both.
FanOut(w) ==
    /\ At(w, "enqueue")
    /\ EnqueueTick(run[w].packet)
    /\ EnqueueInspect(run[w].packet)
    /\ Return(w)
    /\ UNCHANGED <<dedup, history, live, expired, broken, faults>>

-----------------------------------------------------------------------------
(* What goes wrong *)

Fault ==
    /\ faults < MaxFaults
    /\ faults' = faults + 1

Breaks(w) == broken' = broken \cup {run[w].packet}

\* An add() that throws is logged and swallowed.
LoseEnqueue(w) ==
    /\ At(w, "enqueue")
    /\ Fault
    /\ \/ EnqueueTick(run[w].packet) /\ UNCHANGED inspect
       \/ EnqueueInspect(run[w].packet) /\ UNCHANGED tick
    /\ Breaks(w)
    /\ Return(w)
    /\ UNCHANGED <<dedup, history, live, expired>>

\* Redis throws before the key is set: the next attempt starts afresh.
FailDedup(w, p) ==
    /\ run[w] = Idle
    /\ ingested[p].state = "waiting"
    /\ Fault
    /\ ingested' = [ingested EXCEPT ![p] = FailedBy(TakenBy(@, w), w)]
    /\ UNCHANGED <<run, dedup, history, live, tick, inspect, expired, broken>>

\* Redis or the database throws later: the key stays.
FailRun(w) ==
    /\ At(w, "insert") \/ At(w, "show")
    /\ Fault
    /\ Breaks(w)
    /\ run' = [run EXCEPT ![w] = Idle]
    /\ ingested' = [ingested EXCEPT ![run[w].packet] = FailedBy(@, w)]
    /\ UNCHANGED <<dedup, history, live, tick, inspect, expired>>

\* The lock on the job expires, because the process died or because it paused.
LoseLock(w) ==
    /\ run[w] # Idle
    /\ Fault
    /\ ingested' = [ingested EXCEPT ![run[w].packet] = ReleasedBy(@, w)]
    /\ \/ run' = [run EXCEPT ![w] = Idle] /\ Breaks(w)
       \/ ingested' # ingested /\ UNCHANGED <<run, broken>>
    /\ UNCHANGED <<dedup, history, live, tick, inspect, expired>>

\* The five minutes of a dedup key are over.
Expire(p) ==
    /\ p \in dedup
    /\ Fault
    /\ dedup' = dedup \ {p}
    /\ expired' = expired \cup {p}
    /\ UNCHANGED <<ingested, run, history, live, tick, inspect, broken>>

\* A finished job is removed when a thousand others have finished, and its
\* packet may be queued again.  Ticks and inspections are taken as kept.
Purge(p) ==
    /\ Purgeable(ingested[p])
    /\ Fault
    /\ ingested' = [ingested EXCEPT ![p] = NoJob]
    /\ UNCHANGED <<run, dedup, history, live, tick, inspect, expired, broken>>

\* The sixty seconds of a snapshot are over.
Fade(o) ==
    /\ live[o] # None
    /\ Fault
    /\ live' = [live EXCEPT ![o] = None]
    /\ UNCHANGED <<ingested, run, dedup, history, tick, inspect, expired, broken>>

-----------------------------------------------------------------------------

Process(w) ==
    \/ \E p \in Packets : Dedup(w, p)
    \/ Insert(w) \/ Show(w) \/ FanOut(w)

PosNext ==
    \/ \E o \in Operators : Fade(o)
    \/ \E p \in Packets : Ingest(p) \/ Expire(p) \/ Purge(p)
    \/ \E w \in Workers : \/ Process(w) \/ LoseEnqueue(w) \/ FailRun(w) \/ LoseLock(w)
                          \/ \E p \in Packets : FailDedup(w, p)

PosSpec == PosInit /\ [][PosNext]_posVars

-----------------------------------------------------------------------------
(* Properties *)

\* Every variable has its type, and a worker that holds a job works on it.
PosTypeOK ==
    /\ ingested \in [Packets -> Jobs] /\ tick \in [Packets -> Jobs]
    /\ \A w \in Workers : \/ run[w] = Idle
                          \/ run[w] \in [packet : Packets, step : {"insert", "show", "enqueue"}]
    /\ \A p \in Packets, w \in Workers : ingested[p].by = w => run[w].packet = p
    /\ dedup \cup inspect \cup expired \cup broken \subseteq Packets
    /\ history \in [Packets -> Nat]
    /\ live \in [Operators -> Packets \cup {None}]
    /\ faults \in 0..MaxFaults

\* "The Redis SETNX in the processor is the definitive guard": a packet is
\* recorded at most once however often it is sent, retried, or run by two
\* workers at once, until its key expires.
RecordedOnceUnlessExpired ==
    \A p \in Packets \ expired : history[p] <= 1

\* The live map never shows a position that is not in the history, where the
\* review after the action would look for it, and shows it for its operator.
LiveIsRecorded ==
    \A o \in Operators :
        live[o] # None => history[live[o]] > 0 /\ OperatorOf[live[o]] = o

\* A packet whose job is done, that no paused worker still holds and none of
\* whose runs was cut off went all the way: it is in the history, and it or a
\* packet of the same event, operator and time was queued for the engine.
AcceptedIsTracked ==
    \A p \in Packets \ broken :
        ingested[p].state = "done" /\ (\A w \in Workers : run[w].packet # p)
        => history[p] > 0 /\ Ticked(p)
=============================================================================
