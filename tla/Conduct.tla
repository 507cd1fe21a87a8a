------------------------------- MODULE Conduct -------------------------------
(***************************************************************************)
(* AntiCheatService and ReputationService (src/modules/anti-cheat,         *)
(* reputation) for one operator of an event: every fix that the position   *)
(* processor keeps is compared with the fixes recorded before it, hits are *)
(* kept as suspicions, and grave ones cost reputation.  Inspections are    *)
(* jobs of a queue (module JobQueue), run in any order and again after a   *)
(* failure.                                                                *)
(***************************************************************************)
EXTENDS JobQueue, FiniteSetsExt, TLC

CONSTANTS
    Fixes,          \* packets of the operator
    Captured,       \* Captured[f]: by the device, in seconds
    Received,       \* Received[f]: by the server
    Place,          \* Place[f]: metres along a line
    Inaccurate,     \* fixes whose accuracyM is above GPS_BAD_ACCURACY_M
    Claimed,        \* Claimed[f]: the device's own speed, in m/s
    ManualEntries,  \* entries an ADMIN may record: [kind, severity]
    NoFix,
    MaxFailures     \* bound: failures and lost locks

ASSUME ConductConstants ==
    /\ Captured \in [Fixes -> Int] /\ Received \in [Fixes -> Int] /\ Place \in [Fixes -> Int]
    /\ NoFix \notin Fixes
    /\ ManualEntries \subseteq [kind : {"PENALTY", "COMMENDATION"},
                               severity : {"MINOR", "MAJOR", "SEVERE"}]

MaxDrift == 300
HonestSpeed == 60

VARIABLES
    stored,     \* fixes in position_history
    inspection, \* inspection[f]: the job queued for f
    inspector,  \* inspector[w]: what a worker of the queue is doing
    runs,       \* history: runs[f]: how often an inspection of f was begun
    suspicion,  \* cheat_suspicions, with the run that wrote them
    penalty,    \* reputation_logs of the anti-cheat, the same way
    manual,     \* reputation_logs by an ADMIN
    swallowed,  \* history: hits whose penalty was lost
    failures    \* failures so far

conductVars ==
    <<stored, inspection, inspector, runs, suspicion, penalty, manual, swallowed, failures>>

Watching == [fix |-> NoFix, run |-> 0, hits |-> {}, step |-> "idle"]

ConductInit ==
    /\ stored = {}
    /\ inspection = [f \in Fixes |-> NoJob]
    /\ inspector = [w \in Workers |-> Watching]
    /\ runs = [f \in Fixes |-> 0]
    /\ suspicion = {} /\ penalty = {} /\ manual = {} /\ swallowed = {}
    /\ failures = 0

-----------------------------------------------------------------------------
(* The detectors *)

Distance(f, g) == Max({Place[f] - Place[g], Place[g] - Place[f]})
Clamped(f) == Received[f] - Captured[f] \notin -MaxDrift..MaxDrift
RecordedAt(f) == IF Clamped(f) THEN Received[f] ELSE Captured[f]

Hit(d, s) == [detector |-> d, severity |-> s]

\* Multiplied by the time, which is positive: only earlier fixes are compared.
evaluateSpeed(g, f) ==
    LET dt == RecordedAt(f) - RecordedAt(g)
        faster(speed) == Distance(f, g) > speed * dt
    IN  CASE faster(250) -> {Hit("SPEED_IMPOSSIBLE", "SEVERE")}
          [] faster(120) /\ ~faster(250) -> {Hit("SPEED_IMPOSSIBLE", "MAJOR")}
          [] faster(60) /\ ~faster(120) -> {Hit("SPEED_IMPOSSIBLE", "MINOR")}
          [] OTHER -> {}

evaluateJump(g, f) ==
    IF RecordedAt(f) - RecordedAt(g) < 5 /\ Distance(f, g) > 500
    THEN {Hit("LOCATION_JUMP", "MAJOR")} ELSE {}

\* The last fix before f, and the one before that, are in window.
evaluateGpsInconsistency(g, window, f) ==
    LET dt == RecordedAt(f) - RecordedAt(g)
        claimed == Claimed[f] * dt
    IN  IF \/ Cardinality(window) = 2 /\ window \cup {f} \subseteq Inaccurate
           \/ claimed - Distance(f, g) \notin (-50 * dt)..(50 * dt)
        THEN {Hit("GPS_INCONSISTENCY", "MINOR")} ELSE {}

\* Without an earlier fix there is nothing to compare.
Hits(g, window, f) ==
    evaluateSpeed(g, f) \cup evaluateJump(g, f) \cup evaluateGpsInconsistency(g, window, f)

\* Mutant of Punished: every hit costs reputation.
PunishedAlways(h) == TRUE

\* mapToReputationSeverity
Punished(h) == h.severity \in {"MAJOR", "SEVERE"}

-----------------------------------------------------------------------------
(* Jobs *)

\* The processor keeps the fix, and then queues an inspection under its time.
StoreFixOf(f) ==
    /\ f \notin stored
    /\ stored' = stored \cup {f}
    /\ UNCHANGED <<inspection, inspector, runs, suspicion, penalty, manual, swallowed, failures>>

Enqueue(f) ==
    /\ f \in stored
    /\ \A g \in Fixes : RecordedAt(g) = RecordedAt(f) => inspection[g] = NoJob
    /\ inspection' = [inspection EXCEPT ![f] = Added(@)]
    /\ UNCHANGED <<stored, inspector, runs, suspicion, penalty, manual, swallowed, failures>>

Tagged(w, hits) ==
    {[detector |-> h.detector, severity |-> h.severity,
      fix |-> inspector[w].fix, run |-> inspector[w].run] : h \in hits}

\* inspectPosition reads the last two fixes recorded before f, ties in any order.
Inspect(w, f) ==
    LET before == {g \in stored : RecordedAt(g) < RecordedAt(f)}
        latest(G) == {g \in G : \A h \in G : RecordedAt(h) <= RecordedAt(g)}
        begin(hits) == inspector' = [inspector EXCEPT ![w] =
                           [fix |-> f, run |-> runs[f] + 1, hits |-> hits, step |-> "suspecting"]]
    IN  /\ inspector[w] = Watching /\ inspection[f].state = "waiting"
        /\ inspection' = [inspection EXCEPT ![f] = TakenBy(@, w)]
        /\ runs' = [runs EXCEPT ![f] = @ + 1]
        /\ \/ before = {} /\ begin({})
           \/ \E g \in latest(before) :
                 LET rest == before \ {g} IN
                 \E window \in IF rest = {} THEN {{g}} ELSE {{g, h} : h \in latest(rest)} :
                     begin(Hits(g, window, f))
        /\ UNCHANGED <<stored, suspicion, penalty, manual, swallowed, failures>>

Watches(w, step) == inspector[w].step = step

\* Mutant of Suspect: only one of the hits is kept.
SuspectFirst(w) ==
    /\ Watches(w, "suspecting")
    /\ suspicion' = suspicion \cup
          {h \in Tagged(w, inspector[w].hits) : h.detector # "LOCATION_JUMP"}
    /\ inspector' = [inspector EXCEPT ![w].step = "punishing", ![w].hits = {h \in @ : Punished(h)}]
    /\ UNCHANGED <<stored, inspection, runs, penalty, manual, swallowed, failures>>

\* Promise.all of the inserts.
Suspect(w) ==
    /\ Watches(w, "suspecting")
    /\ suspicion' = suspicion \cup Tagged(w, inspector[w].hits)
    /\ inspector' = [inspector EXCEPT ![w].step = "punishing", ![w].hits = {h \in @ : Punished(h)}]
    /\ UNCHANGED <<stored, inspection, runs, penalty, manual, swallowed, failures>>

\* recordEntry for one hit after the other.
Penalize(w) ==
    /\ Watches(w, "punishing")
    /\ \E h \in inspector[w].hits :
          /\ penalty' = penalty \cup Tagged(w, {h})
          /\ inspector' = [inspector EXCEPT ![w].hits = @ \ {h}]
    /\ UNCHANGED <<stored, inspection, runs, suspicion, manual, swallowed, failures>>

Finish(w) ==
    /\ Watches(w, "punishing") /\ inspector[w].hits = {}
    /\ inspection' = [inspection EXCEPT ![inspector[w].fix] = FinishedBy(@, w)]
    /\ inspector' = [inspector EXCEPT ![w] = Watching]
    /\ UNCHANGED <<stored, runs, suspicion, penalty, manual, swallowed, failures>>

RecordEntry(e) ==
    /\ e \notin manual
    /\ manual' = manual \cup {e}
    /\ UNCHANGED <<stored, inspection, inspector, runs, suspicion, penalty, swallowed, failures>>

Failure == failures < MaxFailures /\ failures' = failures + 1

\* The query fails, or some of the inserts: the others are kept, the job fails.
FailInspection(w) ==
    LET f == inspector[w].fix IN
    /\ Watches(w, "suspecting") /\ Failure
    /\ \E kept \in SUBSET inspector[w].hits : suspicion' = suspicion \cup Tagged(w, kept)
    /\ inspection' = [inspection EXCEPT ![f] = FailedBy(@, w)]
    /\ inspector' = [inspector EXCEPT ![w] = Watching]
    /\ UNCHANGED <<stored, runs, penalty, manual, swallowed>>

\* "Reputation failures must not abort the suspicion write."
Swallow(w) ==
    /\ Watches(w, "punishing") /\ Failure
    /\ \E h \in inspector[w].hits :
          /\ swallowed' = swallowed \cup Tagged(w, {h})
          /\ inspector' = [inspector EXCEPT ![w].hits = @ \ {h}]
    /\ UNCHANGED <<stored, inspection, runs, suspicion, penalty, manual>>

\* The process dies, or pauses for longer than its lock on the job lasts.
LoseInspection(w) ==
    /\ inspector[w] # Watching /\ Failure
    /\ inspection' = [inspection EXCEPT ![inspector[w].fix] = ReleasedBy(@, w)]
    /\ inspector' \in {inspector, [inspector EXCEPT ![w] = Watching]}
    /\ UNCHANGED <<stored, runs, suspicion, penalty, manual, swallowed>>

ConductNext ==
    \/ \E f \in Fixes : StoreFixOf(f) \/ Enqueue(f)
    \/ \E w \in Workers :
          \/ \E f \in Fixes : Inspect(w, f)
          \/ Suspect(w) \/ Penalize(w) \/ Finish(w)
          \/ FailInspection(w) \/ Swallow(w) \/ LoseInspection(w)

-----------------------------------------------------------------------------
(* getOperatorReputation *)

Magnitude(severity) ==
    CASE severity = "MINOR" -> 5 [] severity = "MAJOR" -> 15 [] severity = "SEVERE" -> 50

computeDelta(e) == IF e.kind = "PENALTY" THEN -Magnitude(e.severity) ELSE Magnitude(e.severity)

Score ==
    100 + MapThenSumSet(computeDelta, manual)
        - MapThenSumSet(LAMBDA h : Magnitude(h.severity), penalty)

-----------------------------------------------------------------------------
(* Properties *)

\* Thresholds "flag obvious cheating without punishing legitimate hardware
\* noise": who never moved faster than the lowest of them loses no reputation,
\* in whatever order his fixes arrive and are inspected, and however often;
\* unless the server replaced one of his times by its own.
HonestWalk ==
    \A f, g \in stored :
        Captured[f] >= Captured[g] => Distance(f, g) <= HonestSpeed * (Captured[f] - Captured[g])

HonestNeverPunishedUnlessClamped ==
    HonestWalk /\ (\A f \in stored : ~Clamped(f)) =>
        penalty = {} /\ Score = 100 + MapThenSumSet(computeDelta, manual)

\* "The audit trail in cheat_suspicions stays canonical": nobody is punished
\* for what is not kept as a suspicion; and an inspection that is done and was
\* begun once has punished each of its grave hits once, except those whose
\* failure it swallowed.
AuditAddsUpUnlessRetried ==
    /\ penalty \subseteq suspicion
    /\ \A f \in Fixes : inspection[f].state = "done" /\ runs[f] = 1 =>
          {h \in penalty \cup swallowed : h.fix = f} =
          {h \in suspicion : h.fix = f /\ Punished(h)}
=============================================================================
