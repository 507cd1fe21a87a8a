------------------------------- MODULE JobQueue -------------------------------
(***************************************************************************)
(* A job of a BullMQ queue, as the services and processors of src/ use it: *)
(* add() with a jobId, attempts: 3, and workers that take one job at a     *)
(* time and renew a lock on it.  BullMQ itself is not in the repository.   *)
(***************************************************************************)
EXTENDS Integers

CONSTANTS
    Workers,    \* the API processes; each runs one worker per queue
    Nobody,
    Attempts,   \* the attempts option of every add()
    MaxStalled  \* maxStalledCount, which no worker sets: 1 by default

ASSUME QueueConstants ==
    Nobody \notin Workers /\ Attempts \in Nat \ {0} /\ MaxStalled \in Nat

Jobs == [state : {"absent", "waiting", "active", "done", "failed"},
         tries : 0..Attempts,
         stalls : 0..MaxStalled,
         by : Workers \cup {Nobody}]

NoJob == [state |-> "absent", tries |-> 0, stalls |-> 0, by |-> Nobody]

\* add() with the jobId of a job that is still kept changes nothing.
Added(j) == IF j.state = "absent" THEN [j EXCEPT !.state = "waiting"] ELSE j

TakenBy(j, w) == [j EXCEPT !.state = "active", !.by = w]

\* A worker that lost its lock no longer decides what becomes of the job.
FinishedBy(j, w) ==
    IF j.by = w THEN [j EXCEPT !.state = "done", !.by = Nobody] ELSE j

FailedBy(j, w) ==
    IF j.by # w THEN j
    ELSE [j EXCEPT !.state = IF j.tries + 1 < Attempts THEN "waiting" ELSE "failed",
                   !.tries = @ + 1, !.by = Nobody]

\* The lock of a stalled worker expires, and the job can be taken again, unless
\* it has stalled too often.
ReleasedBy(j, w) ==
    IF j.by # w THEN j
    ELSE IF j.stalls < MaxStalled
    THEN [j EXCEPT !.state = "waiting", !.stalls = @ + 1, !.by = Nobody]
    ELSE [j EXCEPT !.state = "failed", !.by = Nobody]

\* removeOnComplete, removeOnFail: only the last 1000 finished jobs are kept.
Purgeable(j) == j.state \in {"done", "failed"}
=============================================================================
