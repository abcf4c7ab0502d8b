------------------------------ MODULE TaskBoard ------------------------------
(***************************************************************************)
(* The files of one board that decide what runs: the task records          *)
(* (core/models.rs) and the session records (core/session.rs), with the    *)
(* read-modify-write helpers the rest of the code is built from.  Every    *)
(* such helper holds the board lock for its whole length, so a helper is   *)
(* one step of whoever calls it; a handler that takes the lock twice is    *)
(* two actions of the modules that extend this one.                        *)
(*                                                                         *)
(* Clock values are abstracted to what the code compares them with: a      *)
(* heartbeat is "fresh" or "stale", a declared wait is "open" or "over",   *)
(* a restart deadline is "later" or "due".                                 *)
(***************************************************************************)
EXTENDS Naturals, FiniteSets

CONSTANTS
    Task,           \* tasks of the board
    Session,        \* session ids; an id is minted once and never reused
    NoSession,      \* task.session = None
    NoTask,         \* the task field of an id that was never linked
    MaxAgents,      \* orchestration.max_parallel_agents, 0 is "unlimited"
    RestartSteps,   \* length of auto_restart.delays_minutes
    MaxResumes,     \* thresholds.max_auto_resumes
    MaxRounds,      \* orchestration.reviewer.max_rounds, 0 is "unlimited"
    DesignOn,       \* orchestration.designer.enabled
    ReviewOn,       \* orchestration.reviewer.enabled
    MaxFaults       \* bound: launches that fail, processes that die or hang

ASSUME BoardAssumption ==
    /\ NoSession \notin Session
    /\ NoTask \notin Task
    /\ IsFiniteSet(Task)
    /\ MaxAgents \in Nat
    /\ RestartSteps \in Nat
    /\ MaxResumes \in Nat
    /\ MaxRounds \in Nat
    /\ DesignOn \in BOOLEAN
    /\ ReviewOn \in BOOLEAN
    /\ MaxFaults \in Nat

VARIABLES
    task,       \* the task files
    session,    \* the session files
    faults,     \* faults injected so far, at most MaxFaults
    overlap     \* history: tasks given a new run while another was active

board == <<task, session, faults, overlap>>

TaskStatus == {"Todo", "InProgress", "Review", "Done"}
RunPhase == {"None", "Queued", "Design", "Execute", "Review"}

TaskRecord ==
    [status : TaskStatus,
     phase : RunPhase,
     session : Session \cup {NoSession},
     restart : {"none", "later", "due"},     \* restart_at against the clock
     crashes : Nat,                          \* crash_restarts
     resumes : Nat,                          \* auto_resumes
     rounds : Nat,                           \* review_rounds
     designed : BOOLEAN]

\* "unused" and "minted" ids have no file; "minted" is held in the memory of
\* a start that has not linked it yet; the file of a "deleted" id is gone.
SessionStatus ==
    {"unused", "minted", "Active", "Closed", "Crashed", "deleted"}

SessionRecord ==
    [task : Task \cup {NoTask},
     status : SessionStatus,
     \* the rest is read only while the status is "Active"
     beat : {"fresh", "stale"},              \* last_seen against the timeout
     wait : {"none", "open", "over"},        \* wait_until against the clock
     exited : BOOLEAN]                       \* wait_exited

BoardTypeOK ==
    /\ task \in [Task -> TaskRecord]
    /\ session \in [Session -> SessionRecord]
    /\ faults \in Nat
    /\ overlap \subseteq Task

NewTask ==
    [status |-> "Todo", phase |-> "None", session |-> NoSession,
     restart |-> "none", crashes |-> 0, resumes |-> 0, rounds |-> 0,
     designed |-> FALSE]

UnusedSession ==
    [task |-> NoTask, status |-> "unused", beat |-> "fresh",
     wait |-> "none", exited |-> FALSE]

BoardInit ==
    /\ task = [t \in Task |-> NewTask]
    /\ session = [s \in Session |-> UnusedSession]
    /\ faults = 0
    /\ overlap = {}

-----------------------------------------------------------------------------
(* Reading.                                                                *)

TaskOf(s) == session[s].task

IsActive(s) == s \in Session /\ session[s].status = "Active"

\* fresh_session_id: an id no file has.  Ids are interchangeable until they
\* are linked, so one of the unused ones stands for all of them.
Fresh(s) ==
    /\ session[s].status = "unused"
    /\ s = CHOOSE x \in Session : session[x].status = "unused"

\* What the board shows for a session, and what a slot is counted by.
StateOf(s) ==
    IF session[s].status # "Active" THEN "Crashed"
    ELSE IF session[s].wait = "open" THEN "Waiting"
    ELSE IF session[s].beat = "fresh" THEN "Live"
    ELSE "Crashed"

\* Mutant: a run that ended keeps its slot.
OccupiedByEnded ==
    {t \in Task : /\ task[t].status = "InProgress"
                  /\ task[t].phase # "Queued"
                  /\ task[t].session # NoSession}

\* The census: tasks whose run holds a slot.
Occupied ==
    {t \in Task : /\ task[t].status = "InProgress"
                  /\ task[t].phase # "Queued"
                  /\ task[t].session # NoSession
                  /\ StateOf(task[t].session) = "Live"}

HasRoom(used) == MaxAgents = 0 \/ used < MaxAgents

\* Mutant: a queued task keeps the phase it has.
UpcomingPhaseKept(r) ==
    IF DesignOn /\ ~r.designed /\ r.rounds = 0 THEN "Design" ELSE r.phase

\* The phase a run from the queue will enter.
UpcomingPhase(r) ==
    IF DesignOn /\ ~r.designed /\ r.rounds = 0 THEN "Design" ELSE "Execute"

\* Mutant: one resume too many.
ResumesOverspent(r) == r.resumes > MaxResumes

ResumesSpent(r) == r.resumes >= MaxResumes

RoundsExhausted(r) == MaxRounds > 0 /\ r.rounds >= MaxRounds

\* The session an agent presents is the active one of the task it works.
IsCurrent(s) ==
    /\ IsActive(s)
    /\ task[TaskOf(s)].status = "InProgress"
    /\ task[TaskOf(s)].session = s

-----------------------------------------------------------------------------
(* Writing: each takes the old files and returns the new ones.             *)

Linked(S, s, t) ==
    [S EXCEPT ![s] = [task |-> t, status |-> "Active", beat |-> "fresh",
                      wait |-> "none", exited |-> FALSE]]

\* An ended session: nobody reads its heartbeat or its wait again.
Ended(r, status) ==
    [UnusedSession EXCEPT !.task = r.task, !.status = status]

\* close_session writes whatever record there is, crashed ones too.
Closed(S, s) ==
    IF S[s].status \in {"Active", "Closed", "Crashed"}
    THEN [S EXCEPT ![s] = Ended(@, "Closed")] ELSE S

\* crash_session leaves a session that already ended alone.
Crashed(S, s) ==
    IF S[s].status = "Active" THEN [S EXCEPT ![s] = Ended(@, "Crashed")] ELSE S

ResetHumanRestart(r) ==
    [r EXCEPT !.resumes = 0, !.crashes = 0, !.restart = "none", !.rounds = 0]

\* Mutant: a crash report of a task that has moved on is not turned away.
ScheduledAnyStatus(T, t) ==
    IF T[t].restart = "none" /\ T[t].crashes < RestartSteps
    THEN [T EXCEPT ![t] = [@ EXCEPT !.restart = "later", !.phase = "Queued"]]
    ELSE T

\* schedule_crash_restart: a back-off deadline while the schedule lasts.
ScheduledRestart(T, t) ==
    IF /\ T[t].status = "InProgress"
       /\ T[t].restart = "none"
       /\ T[t].crashes < RestartSteps
    THEN [T EXCEPT ![t] = [@ EXCEPT !.restart = "later", !.phase = "Queued"]]
    ELSE T

\* Another run of t is still active when s becomes its session.
OverlapWith(s, t) ==
    IF \E x \in Session \ {s} : IsActive(x) /\ TaskOf(x) = t
    THEN overlap \cup {t} ELSE overlap
=============================================================================
