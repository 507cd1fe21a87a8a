---------------------------- MODULE Notifications ----------------------------
(***************************************************************************)
(* Push notifications: NotificationsService (src/modules/notifications/    *)
(* notifications.service.ts) stores a PENDING row and queues its dispatch, *)
(* NotificationsProcessor (notifications.processor.ts) sends it to the     *)
(* devices its audience has by then and settles the row as SENT or FAILED, *)
(* and NotificationsMissionListener creates one for every message of the   *)
(* mission engine about a completed mission.                               *)
(***************************************************************************)
EXTENDS JobQueue, FiniteSets

CONSTANTS
    Users,
    Tokens,     \* device tokens, issued by Firebase
    Notes,      \* notification ids
    AudienceOf, \* AudienceOf[n]: the users (target, targetId) stands for
    OwnerAtStart, \* OwnerAtStart[t]: the user of the device row, or None
    Movable,    \* bound: tokens that apps register and unregister
    Requests,   \* requests about devices that can be under way at once
    None,
    MaxFaults   \* bound: failed, paused and killed steps

ASSUME NotificationConstants ==
    /\ AudienceOf \in [Notes -> SUBSET Users]
    /\ OwnerAtStart \in [Tokens -> Users \cup {None}]
    /\ Movable \subseteq Tokens
    /\ None \notin Users \cup Notes \cup Tokens
    /\ MaxFaults \in Nat

VARIABLES
    status,     \* status of each notification row; "none" before it exists
    creating,   \* notifications stored and not yet queued
    job,        \* the dispatch job of each notification
    sender,     \* what each worker is doing
    owner,      \* owner[t]: the user of the device_tokens row of t, or None
    valid,      \* tokens Firebase still knows
    request,    \* requests about devices after their first read
    pushed,     \* pushed[<<n, t>>]: times Firebase accepted n for t
    addressed,  \* history: addressed[n]: tokens the last dispatch of n resolved
    cut,        \* history: notifications whose settling was interrupted
    retaken,    \* history: tokens that changed hands under an unregister
    faults

notificationVars ==
    <<status, creating, job, sender, owner, valid, request, pushed, addressed, cut, retaken, faults>>

Resting == [note |-> None, step |-> "idle", tokens |-> {}, rejected |-> {}, failed |-> {}]
Quiet == [op |-> "none", user |-> None, token |-> None, found |-> FALSE]

NotificationInit ==
    /\ status = [n \in Notes |-> "none"]
    /\ creating = {}
    /\ job = [n \in Notes |-> NoJob]
    /\ sender = [w \in Workers |-> Resting]
    /\ owner = OwnerAtStart
    /\ valid = Tokens
    /\ request = [r \in Requests |-> Quiet]
    /\ pushed = [x \in Notes \X Tokens |-> 0]
    /\ addressed = [n \in Notes |-> {}]
    /\ cut = {}
    /\ retaken = {}
    /\ faults = 0

dispatchVars == <<status, creating, job, sender, pushed, addressed, cut>>
deviceVars == <<owner, valid, request, retaken>>

Fault ==
    /\ faults < MaxFaults
    /\ faults' = faults + 1

-----------------------------------------------------------------------------
(* create *)

\* An admin, or the listener for a message that says COMPLETED.
Create(n) ==
    /\ status[n] = "none"
    /\ status' = [status EXCEPT ![n] = "PENDING"]
    /\ creating' = creating \cup {n}
    /\ UNCHANGED <<job, sender, pushed, addressed, cut, deviceVars, faults>>

EnqueueDispatch(n) ==
    /\ n \in creating
    /\ creating' = creating \ {n}
    /\ job' = [job EXCEPT ![n] = Added(@)]
    /\ UNCHANGED <<status, sender, pushed, addressed, cut, deviceVars, faults>>

\* add() throws, or the process dies: the row stays, nothing will send it.
Abandon(n) ==
    /\ n \in creating
    /\ Fault
    /\ creating' = creating \ {n}
    /\ UNCHANGED <<status, job, sender, pushed, addressed, cut, deviceVars>>

-----------------------------------------------------------------------------
(* process *)

Note(w) == sender[w].note

Goto(w, s) == sender' = [sender EXCEPT ![w].step = s]

\* Mutant of TakeDispatch: the row's status is not looked at.
TakeAnyDispatch(w, n) ==
    /\ sender[w] = Resting
    /\ job[n].state = "waiting"
    /\ job' = [job EXCEPT ![n] = TakenBy(@, w)]
    /\ sender' = [sender EXCEPT ![w].note = n, ![w].step = "resolve"]
    /\ UNCHANGED <<status, creating, pushed, addressed, cut, deviceVars, faults>>

\* A job is taken and its row read; what is settled is not sent again.
TakeDispatch(w, n) ==
    /\ sender[w] = Resting
    /\ job[n].state = "waiting"
    /\ IF status[n] = "PENDING"
       THEN /\ job' = [job EXCEPT ![n] = TakenBy(@, w)]
            /\ sender' = [sender EXCEPT ![w].note = n, ![w].step = "resolve"]
       ELSE /\ job' = [job EXCEPT ![n] = FinishedBy(TakenBy(@, w), w)]
            /\ UNCHANGED sender
    /\ UNCHANGED <<status, creating, pushed, addressed, cut, deviceVars, faults>>

DevicesOf(n) == {t \in Tokens : owner[t] \in AudienceOf[n]}

\* Mutant of Resolve: nothing to do for an audience without devices.
ResolveOrReturn(w) ==
    LET found == DevicesOf(Note(w)) IN
    /\ sender[w].step = "resolve"
    /\ addressed' = [addressed EXCEPT ![Note(w)] = found]
    /\ IF found = {}
       THEN /\ sender' = [sender EXCEPT ![w] = Resting]
            /\ job' = [job EXCEPT ![Note(w)] = FinishedBy(@, w)]
       ELSE /\ sender' = [sender EXCEPT ![w].tokens = found, ![w].step = "push"]
            /\ UNCHANGED job
    /\ UNCHANGED <<status, creating, pushed, cut, deviceVars, faults>>

\* "At dispatch time (not at create time)".
Resolve(w) ==
    LET found == DevicesOf(Note(w)) IN
    /\ sender[w].step = "resolve"
    /\ addressed' = [addressed EXCEPT ![Note(w)] = found]
    /\ sender' = [sender EXCEPT ![w].tokens = found,
                                ![w].step = IF found = {} THEN "settle" ELSE "push"]
    /\ UNCHANGED <<status, creating, job, pushed, cut, deviceVars, faults>>

Accept(n, S) ==
    pushed' = [x \in Notes \X Tokens |->
                  IF x[1] = n /\ x[2] \in S THEN pushed[x] + 1 ELSE pushed[x]]

\* sendEachForMulticast answers token by token; those it does not know are
\* rejected for good, others may fail this time.
Push(w) ==
    LET rejected == sender[w].tokens \ valid
        lost(S) == sender' = [sender EXCEPT ![w].rejected = rejected, ![w].step = "prune",
                                            ![w].failed = rejected \cup S]
    IN
    /\ sender[w].step = "push"
    /\ \/ /\ lost({})
          /\ Accept(Note(w), sender[w].tokens \cap valid)
          /\ UNCHANGED faults
       \/ \E t \in sender[w].tokens \cap valid :
              /\ Fault
              /\ lost({t})
              /\ Accept(Note(w), (sender[w].tokens \cap valid) \ {t})
    /\ UNCHANGED <<status, creating, job, addressed, cut, deviceVars>>

\* deleteDeviceTokens
Prune(w) ==
    /\ sender[w].step = "prune"
    /\ owner' = [t \in Tokens |-> IF t \in sender[w].rejected THEN None ELSE owner[t]]
    /\ Goto(w, "mark")
    /\ UNCHANGED <<status, creating, job, pushed, addressed, cut, valid, request,
                   retaken, faults>>

Settle(w, s) ==
    /\ status' = [status EXCEPT ![Note(w)] = s]
    /\ sender' = [sender EXCEPT ![w] = Resting]

\* markStatus, with devices or without; then the job is finished.
Mark(w) ==
    /\ sender[w].step \in {"mark", "settle"}
    /\ Settle(w, IF sender[w].failed = {} THEN "SENT" ELSE "FAILED")
    /\ job' = [job EXCEPT ![Note(w)] = FinishedBy(@, w)]
    /\ UNCHANGED <<creating, pushed, addressed, cut, deviceVars, faults>>

\* The catch block: the row is FAILED and the error makes the queue try again.
MarkFailed(w) ==
    /\ sender[w].step = "catch"
    /\ Settle(w, "FAILED")
    /\ job' = [job EXCEPT ![Note(w)] = FailedBy(@, w)]
    /\ UNCHANGED <<creating, pushed, addressed, cut, deviceVars, faults>>

\* Firebase, Prune or Mark throws inside the try.
Throw(w) ==
    /\ sender[w].step \in {"push", "prune", "mark"}
    /\ Fault
    /\ Goto(w, "catch")
    /\ UNCHANGED <<status, creating, job, pushed, addressed, cut, deviceVars>>

\* The database throws outside the try, or in the catch block.
FailDispatch(w) ==
    /\ sender[w].step \in {"resolve", "settle", "catch"}
    /\ Fault
    /\ job' = [job EXCEPT ![Note(w)] = FailedBy(@, w)]
    /\ cut' = IF sender[w].step = "catch" THEN cut \cup {Note(w)} ELSE cut
    /\ sender' = [sender EXCEPT ![w] = Resting]
    /\ UNCHANGED <<status, creating, pushed, addressed, deviceVars>>

\* The process dies, or pauses until the lock on its job expires.
LoseDispatch(w) ==
    /\ sender[w] # Resting
    /\ Fault
    /\ job' = [job EXCEPT ![Note(w)] = ReleasedBy(@, w)]
    /\ cut' = cut \cup {Note(w)}
    /\ \/ sender' = [sender EXCEPT ![w] = Resting]
       \/ job' # job /\ UNCHANGED sender
    /\ UNCHANGED <<status, creating, pushed, addressed, deviceVars>>

-----------------------------------------------------------------------------
(* Devices *)

Ask(r, op, u, t) ==
    /\ request[r] = Quiet
    /\ request' = [request EXCEPT ![r] =
           [op |-> op, user |-> u, token |-> t, found |-> owner[t] # None]]
    /\ UNCHANGED <<dispatchVars, owner, valid, retaken, faults>>

Answered(r) == request' = [request EXCEPT ![r] = Quiet]

\* registerDevice up to its search, for a token of a device in use.
FindDevice(r, u, t) == t \in valid /\ Ask(r, "register", u, t)

\* Update what was found or create what was not: either fails if it is too late.
RegisterDevice(r) ==
    LET u == request[r].user
        t == request[r].token
    IN
    /\ request[r].op = "register"
    /\ Answered(r)
    /\ IF request[r].found = (owner[t] # None)
       THEN /\ owner' = [owner EXCEPT ![t] = u]
            /\ retaken' = IF \E q \in Requests : /\ request[q].op = "unregister"
                                                 /\ request[q].token = t
                                                 /\ request[q].user # u
                          THEN retaken \cup {t} ELSE retaken
       ELSE UNCHANGED <<owner, retaken>>
    /\ UNCHANGED <<dispatchVars, valid, faults>>

\* unregisterDevice up to its check: unknown tokens and those of others end it.
FindOwnDevice(r, u, t) == owner[t] = u /\ Ask(r, "unregister", u, t)

\* The row is deleted by its token alone; deleting what is gone throws.
UnregisterDevice(r) ==
    /\ request[r].op = "unregister"
    /\ Answered(r)
    /\ owner' = [owner EXCEPT ![request[r].token] = None]
    /\ UNCHANGED <<dispatchVars, valid, retaken, faults>>

\* The app is uninstalled; Firebase never takes the token again.
Invalidate(t) ==
    /\ t \in valid
    /\ valid' = valid \ {t}
    /\ UNCHANGED <<dispatchVars, owner, request, retaken, faults>>

-----------------------------------------------------------------------------

Dispatch(w) ==
    \/ \E n \in Notes : TakeDispatch(w, n)
    \/ Resolve(w) \/ Push(w) \/ Prune(w) \/ Mark(w) \/ MarkFailed(w)

Device(r) ==
    \/ \E u \in Users, t \in Movable : FindDevice(r, u, t) \/ FindOwnDevice(r, u, t)
    \/ RegisterDevice(r) \/ UnregisterDevice(r)

NotificationNext ==
    \/ \E n \in Notes : Create(n) \/ EnqueueDispatch(n) \/ Abandon(n)
    \/ \E w \in Workers : Dispatch(w) \/ Throw(w) \/ FailDispatch(w) \/ LoseDispatch(w)
    \/ \E r \in Requests : Device(r)
    \/ \E t \in Tokens : Invalidate(t)

NotificationSpec == NotificationInit /\ [][NotificationNext]_notificationVars

-----------------------------------------------------------------------------
(* Properties *)

\* Every variable has its type, and only the worker that holds a job has it.
NotificationTypeOK ==
    /\ status \in [Notes -> {"none", "PENDING", "SENT", "FAILED"}]
    /\ job \in [Notes -> Jobs]
    /\ \A w \in Workers : sender[w] = Resting \/ Note(w) \in Notes
    /\ \A n \in Notes, w \in Workers : job[n].by = w => Note(w) = n
    /\ owner \in [Tokens -> Users \cup {None}]
    /\ valid \cup retaken \subseteq Tokens /\ creating \cup cut \subseteq Notes
    /\ pushed \in [Notes \X Tokens -> Nat]
    /\ faults \in 0..MaxFaults

\* "Idempotency - concurrent retries land here as no-ops": no device gets a
\* notification twice, unless a worker was paused or killed while it sent it
\* or could not even record the failure.
PushedOnceUnlessCut ==
    \A n \in Notes \ cut, t \in Tokens : pushed[<<n, t>>] <= 1

\* SENT tells the admin that every device the audience had at dispatch got the
\* notification; devices pruned or moved since do not change that.
SentReachedEveryDevice ==
    \A n \in Notes \ cut :
        status[n] = "SENT" => \A t \in addressed[n] : pushed[<<n, t>>] > 0

\* A job the queue takes for done has settled its notification: none is left
\* PENDING that nothing will ever send.
DoneIsSettled ==
    \A n \in Notes : job[n].state = "done" => status[n] \in {"SENT", "FAILED"}

\* "Only the owner can unregister": a device row goes because its user asked
\* for it or because Firebase rejected its token, unless the token changed
\* hands between the check and the delete.
RemovedByOwnerUnlessRetaken ==
    [][\A t \in Tokens \ retaken :
          owner[t] # None /\ owner'[t] = None =>
              \/ t \notin valid
              \/ \E r \in Requests : /\ request[r].op = "unregister"
                                     /\ request[r].user = owner[t]
                                     /\ request[r].token = t]_notificationVars
=============================================================================
