------------------------------- MODULE Events -------------------------------
(***************************************************************************)
(* EventsService (src/modules/events/events.service.ts): the life of an    *)
(* event, DRAFT, ACTIVE, ENDED.  A call reads the event, compares its      *)
(* status, and writes by id alone: whatever happened in between is         *)
(* overwritten.                                                            *)
(***************************************************************************)
EXTENDS CallSlots

CONSTANTS
    Events,     \* ids of events, each used once
    Asked       \* kinds of call the clients make

VARIABLES
    status,     \* status[e]: none yet, DRAFT, ACTIVE, ENDED or deleted
    footprint   \* footprint[e]: the area and mode shown to operators

eventVars == <<status, footprint>>

EventKinds == {"activate", "end", "patch", "remove"}
EventStatuses == {"none", "DRAFT", "ACTIVE", "ENDED", "deleted"}

EventInit ==
    /\ status = [e \in Events |-> "none"]
    /\ footprint = [e \in Events |-> 0]
    /\ SlotInit

-----------------------------------------------------------------------------

\* One insert, in DRAFT.
CreateEvent(e) ==
    /\ status[e] = "none"
    /\ status' = [status EXCEPT ![e] = "DRAFT"]
    /\ UNCHANGED <<footprint, doing, contended>>

\* Mutant of Required: an event can be ended from any status that exists.
RequiredLoosely(kind) ==
    IF kind = "end" THEN {"DRAFT", "ACTIVE", "ENDED"} ELSE {"DRAFT"}

\* The status a call insists on.
Required(kind) == IF kind = "end" THEN {"ACTIVE"} ELSE {"DRAFT"}

\* A call arrives, reads its event, and is refused if the status is wrong.
ReadEvent(s) ==
    /\ doing[s] = Idle
    /\ \E k \in EventKinds \cap Asked, e \in Events :
          IF status[e] \in Required(k)
          THEN Begin(s, [kind |-> k, at |-> "event", event |-> e,
                        about |-> {e}, heeds |-> {}])
          ELSE UNCHANGED <<doing, contended>>
    /\ UNCHANGED eventVars

\* An UPDATE or DELETE of a row that is gone fails and changes nothing.
WriteEvent(s) ==
    LET e == doing[s].event
        k == doing[s].kind
    IN  /\ doing[s] # Idle /\ k \in EventKinds
        /\ Leave(s)
        /\ \/ /\ status[e] = "deleted"
              /\ UNCHANGED eventVars
           \/ /\ status[e] # "deleted"
              /\ k = "patch"
              /\ footprint' = [footprint EXCEPT ![e] = 1 - @]
              /\ UNCHANGED status
           \/ /\ status[e] # "deleted"
              /\ k # "patch"
              /\ status' = [status EXCEPT ![e] =
                    CASE k = "activate" -> "ACTIVE"
                      [] k = "end" -> "ENDED"
                      [] k = "remove" -> "deleted"]
              /\ UNCHANGED footprint
        /\ UNCHANGED contended

\* The process dies between two steps of a call.
Crash(s) == Dies(s) /\ UNCHANGED eventVars

EventStep(s) == ReadEvent(s) \/ WriteEvent(s) \/ Crash(s)

EventNext == (\E e \in Events : CreateEvent(e)) \/ (\E s \in Slots : EventStep(s))

EventSpec == EventInit /\ [][EventNext]_<<eventVars, doing, contended>>

-----------------------------------------------------------------------------
(* Properties *)

\* Every variable of the events has its type.
EventTypeOK ==
    /\ status \in [Events -> EventStatuses]
    /\ footprint \in [Events -> {0, 1}]
    /\ \A e \in Events : status[e] = "none" => footprint[e] = 0

\* "Only DRAFT can be activated", "only ACTIVE can be ended", "only DRAFT can
\* be deleted": an event that no two calls were handled for at once never
\* skips a stage, goes back or is deleted with operators in the field; and "once
\* ACTIVE, the operational footprint is locked".
Moves == {<<"none", "DRAFT">>, <<"DRAFT", "ACTIVE">>, <<"ACTIVE", "ENDED">>,
          <<"DRAFT", "deleted">>}

LifecycleUnlessContended ==
    [][\A e \in Events \ contended :
          /\ status'[e] # status[e] => <<status[e], status'[e]>> \in Moves
          /\ footprint'[e] # footprint[e] => status[e] = "DRAFT"]_eventVars
=============================================================================
