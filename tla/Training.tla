------------------------------- MODULE Training -------------------------------
(***************************************************************************)
(* TacticalService (src/modules/tactical/tactical.service.ts): units, the  *)
(* instructors assigned to them, their classes, and the exercises of a     *)
(* class, each of which may be tied to an event of mode TACTICAL_TRAINING. *)
(* A call reads the row it is about, then whether its caller is assigned   *)
(* to the unit (an ADMIN need not be), then what it refers to, and writes. *)
(***************************************************************************)
EXTENDS Events

CONSTANTS
    Units, UnitNames, Courses, Exercises,   \* ids are used once
    Instructors, Admin,                     \* users of role INSTRUCTOR; an ADMIN
    Drills,                                 \* events of mode TACTICAL_TRAINING
    Hours,                                  \* times a class may start or end
    None, Same                              \* no value; a field a PATCH omits

ASSUME TrainingConstants ==
    /\ UnitNames \cap {"unused", "gone"} = {}
    /\ None \notin Units \cup Courses \cup Events

VARIABLES
    unit,       \* unit[u]: its name, or "unused", "gone"
    assigned,   \* unit_instructors: pairs of a unit and an instructor
    course,     \* course[k]: the row of a class
    exercise    \* exercise[x]: the row of an exercise

trainingVars == <<unit, assigned, course, exercise>>

NoCourse(st) == [state |-> st, unit |-> None, starts |-> 0, ends |-> None]
NoExercise(st) == [state |-> st, course |-> None, event |-> None]

UnitThere(u) == unit[u] \notin {"unused", "gone"}
CourseThere(k) == course[k].state = "there"
ExerciseThere(x) == exercise[x].state = "there"
CoursesOf(u) == {k \in Courses : CourseThere(k) /\ course[k].unit = u}
ExercisesOf(k) == {x \in Exercises : ExerciseThere(x) /\ exercise[x].course = k}

-----------------------------------------------------------------------------
(* Units and their instructors; the controllers let only an ADMIN call.    *)

UnitCall(k, u, x, writes, relies) ==
    [kind |-> k, at |-> "writing", unit |-> u, with |-> x, about |-> writes, heeds |-> relies]

\* deleteUnit counts the classes; assignInstructor and removeInstructor look
\* for the unit, and the latter for the assignment.
AskUnit(s) ==
    /\ \E u \in Units :
          \/ \E n \in UnitNames :
                \/ /\ unit[u] = "unused" /\ u \notin Taken
                   /\ Begin(s, UnitCall("createUnit", u, n, {u}, {}))
                \/ UnitThere(u) /\ Begin(s, UnitCall("updateUnit", u, n, {u}, {}))
          \/ UnitThere(u) /\ CoursesOf(u) = {} /\ Begin(s, UnitCall("deleteUnit", u, None, {u}, {}))
          \/ \E i \in Instructors :
                \/ UnitThere(u) /\ Begin(s, UnitCall("assign", u, i, {<<u, i>>}, {}))
                \/ /\ UnitThere(u) /\ <<u, i>> \in assigned
                   /\ Begin(s, UnitCall("unassign", u, i, {<<u, i>>}, {}))
    /\ UNCHANGED trainingVars

\* Names are unique, a unit with classes cannot be deleted (ON DELETE
\* RESTRICT), and takes its assignments along.
WriteUnit(s) ==
    LET c == doing[s]
        u == c.unit
    IN  /\ doing[s] # Idle /\ c.at = "writing"
        /\ \/ /\ c.kind \in {"createUnit", "updateUnit"}
              /\ unit' = IF /\ (c.kind = "updateUnit" => UnitThere(u))
                            /\ \A v \in Units \ {u} : unit[v] # c.with
                         THEN [unit EXCEPT ![u] = c.with] ELSE unit
              /\ UNCHANGED assigned
           \/ /\ c.kind = "deleteUnit" /\ CoursesOf(u) = {}
              /\ unit' = [unit EXCEPT ![u] = "gone"]
              /\ assigned' = {a \in assigned : a[1] # u}
           \/ /\ c.kind = "deleteUnit" /\ CoursesOf(u) # {}
              /\ UNCHANGED <<unit, assigned>>
           \/ /\ c.kind = "assign"
              /\ assigned' = assigned \cup {a \in {<<u, c.with>>} : UnitThere(u)}
              /\ UNCHANGED unit
           \/ /\ c.kind = "unassign"
              /\ assigned' = assigned \ {<<u, c.with>>}
              /\ UNCHANGED unit
        /\ Leave(s)
        /\ UNCHANGED <<course, exercise, contended>>

-----------------------------------------------------------------------------
(* Classes and exercises *)

\* Calls by caller i about what belongs to unit u.
Lesson(k, i, u, x) ==
    [kind |-> k, at |-> "assoc", actor |-> i, unit |-> u, of |-> None, event |-> None,
     starts |-> Same, ends |-> Same, heeds |-> {<<u, i>>}, about |-> {x}, lesson |-> x]

\* Mutant of InOrder: a class may end when it starts.
InOrderLoosely(starts, ends) == ends # None => ends >= starts

\* "endsAt must be after startsAt."
InOrder(starts, ends) == ends # None => ends > starts

Chosen(new, old) == IF new = Same THEN old ELSE new

\* The first read of a class or exercise: it exists, and so does its parent.
\* updateClass compares the new times, or those it has just read; deleteClass
\* counts the exercises.
AskLesson(s) ==
    /\ \E i \in Instructors \cup {Admin} :
          \/ \E k \in Courses, u \in Units, b \in Hours, e \in Hours \cup {None} :
                /\ course[k].state = "unused" /\ k \notin Taken
                /\ UnitThere(u) /\ InOrder(b, e)
                /\ Begin(s, [Lesson("createClass", i, u, k) EXCEPT !.starts = b, !.ends = e])
          \/ \E k \in Courses, b \in Hours \cup {Same}, e \in Hours \cup {None, Same} :
                /\ CourseThere(k)
                /\ InOrder(Chosen(b, course[k].starts), Chosen(e, course[k].ends))
                /\ Begin(s, [Lesson("updateClass", i, course[k].unit, k)
                                EXCEPT !.starts = b, !.ends = e])
          \/ \E k \in Courses :
                /\ CourseThere(k) /\ ExercisesOf(k) = {}
                /\ Begin(s, Lesson("deleteClass", i, course[k].unit, k))
          \/ \E x \in Exercises, k \in Courses, e \in Events \cup {None} :
                /\ exercise[x].state = "unused" /\ x \notin Taken /\ CourseThere(k)
                /\ Begin(s, [Lesson("createExercise", i, course[k].unit, x)
                                EXCEPT !.of = k, !.event = e])
          \/ \E x \in Exercises, e \in Events \cup {None, Same} :
                /\ ExerciseThere(x)
                /\ Begin(s, [Lesson("updateExercise", i, course[exercise[x].course].unit, x)
                                EXCEPT !.event = e])
          \/ \E x \in Exercises :
                /\ ExerciseThere(x)
                /\ Begin(s, Lesson("deleteExercise", i, course[exercise[x].course].unit, x))
    /\ UNCHANGED trainingVars

\* Mutant of MayTeach: an instructor of any unit will do.
MayTeachAnywhere(i, u) == i = Admin \/ \E v \in Units : <<v, i>> \in assigned

\* requireInstructorAssoc.
MayTeach(i, u) == i = Admin \/ <<u, i>> \in assigned

CheckAssoc(s) ==
    /\ doing[s] # Idle /\ doing[s].at = "assoc"
    /\ Pass(s, MayTeach(doing[s].actor, doing[s].unit),
            IF doing[s].event \in Events THEN "drill" ELSE "saving")
    /\ UNCHANGED trainingVars

\* requireTrainingEvent.
CheckDrill(s) ==
    /\ doing[s] # Idle /\ doing[s].at = "drill"
    /\ Pass(s, doing[s].event \in Drills /\ status[doing[s].event] \notin {"none", "deleted"},
            "saving")
    /\ UNCHANGED trainingVars

SaveClass(s) ==
    LET c == doing[s] IN
    /\ doing[s] # Idle /\ c.at = "saving"
    /\ \/ /\ c.kind = "createClass" /\ UnitThere(c.unit)
          /\ course' = [course EXCEPT ![c.lesson] =
                [state |-> "there", unit |-> c.unit, starts |-> c.starts, ends |-> c.ends]]
       \/ /\ c.kind = "updateClass" /\ CourseThere(c.lesson)
          /\ course' = [course EXCEPT ![c.lesson].starts = Chosen(c.starts, @),
                                      ![c.lesson].ends = Chosen(c.ends, @)]
       \/ /\ c.kind = "deleteClass" /\ CourseThere(c.lesson) /\ ExercisesOf(c.lesson) = {}
          /\ course' = [course EXCEPT ![c.lesson] = NoCourse("gone")]
       \/ /\ \/ c.kind = "createClass" /\ ~UnitThere(c.unit)
             \/ c.kind \in {"updateClass", "deleteClass"} /\ ~CourseThere(c.lesson)
             \/ c.kind = "deleteClass" /\ ExercisesOf(c.lesson) # {}
          /\ UNCHANGED course
    /\ Leave(s)
    /\ UNCHANGED <<unit, assigned, exercise, contended>>

\* An event has one exercise: exercises.event_id is unique and a foreign key.
EventFree(c) ==
    c.event \in Events =>
        /\ status[c.event] \notin {"none", "deleted"}
        /\ \A x \in Exercises \ {c.lesson} : exercise[x].event # c.event

SaveExercise(s) ==
    LET c == doing[s] IN
    /\ doing[s] # Idle /\ c.at = "saving"
    /\ \/ /\ c.kind = "createExercise" /\ CourseThere(c.of) /\ EventFree(c)
          /\ exercise' = [exercise EXCEPT ![c.lesson] =
                [state |-> "there", course |-> c.of, event |-> c.event]]
       \/ /\ c.kind = "updateExercise" /\ ExerciseThere(c.lesson) /\ EventFree(c)
          /\ exercise' = [exercise EXCEPT ![c.lesson].event = Chosen(c.event, @)]
       \/ /\ c.kind = "deleteExercise"
          /\ exercise' = [exercise EXCEPT ![c.lesson] = NoExercise("gone")]
       \/ /\ \/ c.kind = "createExercise" /\ ~(CourseThere(c.of) /\ EventFree(c))
             \/ c.kind = "updateExercise" /\ ~(ExerciseThere(c.lesson) /\ EventFree(c))
          /\ UNCHANGED exercise
    /\ Leave(s)
    /\ UNCHANGED <<unit, assigned, course, contended>>

TrainingStep(s) ==
    /\ \/ AskUnit(s) \/ WriteUnit(s) \/ AskLesson(s) \/ CheckAssoc(s) \/ CheckDrill(s)
       \/ SaveClass(s) \/ SaveExercise(s)
    /\ UNCHANGED eventVars

\* A deleted event leaves its exercise without one (ON DELETE SET NULL).
TrainingCascade ==
    /\ exercise' = [x \in Exercises |->
          IF exercise[x].event \in {e \in Events : status'[e] = "deleted"}
          THEN [exercise[x] EXCEPT !.event = None] ELSE exercise[x]]
    /\ UNCHANGED <<unit, assigned, course>>

-----------------------------------------------------------------------------
(* Properties *)

\* "endsAt must be after startsAt.": holds for classes no two calls were about
\* at once; an update of the start is compared with an end that another update
\* may be replacing.
ClassEndsAfterItStartsUnlessContended ==
    \A k \in Courses \ contended :
        CourseThere(k) => course[k].ends = None \/ course[k].ends > course[k].starts

\* "caller is ADMIN, OR caller is INSTRUCTOR and has a unit_instructors row on
\* the parent unit": whoever changes a class or exercise is assigned to its unit
\* when the change is written, unless the assignment was being changed while
\* the call was under way.
TaughtByTheUnitUnlessContended ==
    [][\A s \in Slots :
          /\ doing[s] # Idle /\ doing'[s] = Idle
          /\ course' # course \/ (exercise' # exercise /\ status' = status)
          => \/ doing[s].actor = Admin
             \/ <<doing[s].unit, doing[s].actor>> \in assigned \cup contended]_<<course, exercise>>
=============================================================================
