----------------------------- MODULE Dispatcher ------------------------------
(***************************************************************************)
(* The queue dispatcher: dispatch_queue with the steps the pumps run       *)
(* before it (core/scheduler.rs, check_sessions of core/session.rs,        *)
(* wake_expired_waits of core/operations.rs, pump_project of               *)
(* core/daemon.rs).  A pump is any process or thread in the middle of such *)
(* a pass: the daemon, an open TUI, `kanban check-sessions`, the wrapper   *)
(* of an agent that just exited.  Each locked section of the pass is one   *)
(* action; what a pump read before it is kept in the pump's record and may *)
(* be stale when it is used.                                               *)
(*                                                                         *)
(* A pass runs its sections in a fixed order: wake, reap, due restarts,    *)
(* walk.  A section that finds nothing to do changes nothing and remembers *)
(* nothing, and a pump may be delayed between two sections for as long as  *)
(* it takes for the next one to find something.  So a pump between two     *)
(* sections is "idle" here, and may enter whichever has work.              *)
(***************************************************************************)
EXTENDS TaskBoard

CONSTANT Pump

VARIABLES
    pump,   \* where each pump is in its pass, and what it has read
    run     \* the agent process of each session (module AgentRuns)

PumpPC ==
    {"idle", "wake", "wake_crash", "wake_queue", "wake_close",
     "reap", "walk", "launch", "failed"}

PumpRecord ==
    [pc : PumpPC,
     todo : SUBSET Session,      \* sessions listed and not handled yet
     reaped : SUBSET Session,    \* what check_sessions will return
     plan : [Task -> {"None", "Design", "Execute"}],
     used : Nat,                 \* the slots measured for this walk
     cur : Session \cup {NoSession},
     attempt : Nat]

NoPlan == [t \in Task |-> "None"]

IdlePump ==
    [pc |-> "idle", todo |-> {}, reaped |-> {}, plan |-> NoPlan,
     used |-> 0, cur |-> NoSession, attempt |-> 0]

DispatcherTypeOK == pump \in [Pump -> PumpRecord]

DispatcherInit == pump = [p \in Pump |-> IdlePump]

-----------------------------------------------------------------------------
(* Wake: the waits whose deadline passed and whose process is gone.        *)

ExpiredWaits ==
    {s \in Session : /\ IsActive(s)
                     /\ session[s].wait = "over"
                     /\ session[s].exited \/ session[s].beat = "stale"}

WakeBegin(p) ==
    /\ pump[p].pc = "idle"
    /\ ExpiredWaits # {}
    /\ pump' = [pump EXCEPT ![p] = [IdlePump EXCEPT !.pc = "wake",
                                                    !.todo = ExpiredWaits]]
    /\ UNCHANGED <<board, run>>

\* The task is read outside the lock; the next attempt comes from that read.
WakeRead(p, s) ==
    /\ pump[p].pc = "wake"
    /\ s \in pump[p].todo
    /\ LET r == task[TaskOf(s)]
       IN pump' = [pump EXCEPT ![p] =
            [@ EXCEPT !.todo = pump[p].todo \ {s},
                      !.cur = s,
                      !.attempt = r.resumes + 1,
                      !.pc = IF ResumesSpent(r) THEN "wake_crash"
                                                ELSE "wake_queue"]]
    /\ UNCHANGED <<board, run>>

WakeNext(p) ==
    pump' = [pump EXCEPT ![p] =
       IF @.todo = {} THEN IdlePump
       ELSE [IdlePump EXCEPT !.pc = "wake", !.todo = pump[p].todo]]

\* The resume budget is spent: crashed, reported, and left to a human.
WakeCrash(p) ==
    /\ pump[p].pc = "wake_crash"
    /\ session' = Crashed(session, pump[p].cur)
    /\ WakeNext(p)
    /\ UNCHANGED <<task, faults, overlap, run>>

\* queue_expired_wait: still In Progress and still on the session listed.
WakeFence(s) ==
    task[TaskOf(s)].status = "InProgress" /\ task[TaskOf(s)].session = s

WakeQueue(p) ==
    LET s == pump[p].cur
        t == TaskOf(s)
    IN /\ pump[p].pc = "wake_queue"
       /\ WakeFence(s)
       /\ task' = [task EXCEPT ![t] = [@ EXCEPT !.resumes = pump[p].attempt,
                                               !.phase = "Queued",
                                               !.session = NoSession]]
       /\ session' = Closed(session, s)
       /\ WakeNext(p)
       /\ UNCHANGED <<faults, overlap, run>>

WakeFencedOut(p) ==
    /\ pump[p].pc = "wake_queue"
    /\ ~WakeFence(pump[p].cur)
    /\ pump' = [pump EXCEPT ![p].pc = "wake_close"]
    /\ UNCHANGED <<board, run>>

WakeClose(p) ==
    /\ pump[p].pc = "wake_close"
    /\ session' = Closed(session, pump[p].cur)
    /\ WakeNext(p)
    /\ UNCHANGED <<task, faults, overlap, run>>

-----------------------------------------------------------------------------
(* Reap: check_sessions lists first, then crashes one session per lock.    *)

\* Mutant: only the sessions of tasks in progress are looked at.
SilentInProgress ==
    {s \in Session : /\ IsActive(s)
                     /\ task[TaskOf(s)].status = "InProgress"
                     /\ session[s].wait # "open"
                     /\ session[s].beat = "stale"}

SilentSessions ==
    {s \in Session : /\ IsActive(s)
                     /\ session[s].wait # "open"
                     /\ session[s].beat = "stale"}

ReapBegin(p) ==
    /\ pump[p].pc = "idle"
    /\ SilentSessions # {}
    /\ pump' = [pump EXCEPT ![p] = [IdlePump EXCEPT !.pc = "reap",
                                                    !.todo = SilentSessions]]
    /\ UNCHANGED <<board, run>>

\* The session is returned whether or not there was anything left to crash.
ReapOne(p, s) ==
    /\ pump[p].pc = "reap"
    /\ s \in pump[p].todo
    /\ session' = Crashed(session, s)
    /\ pump' = [pump EXCEPT ![p] = [@ EXCEPT !.todo = pump[p].todo \ {s},
                                            !.reaped = pump[p].reaped \cup {s}]]
    /\ UNCHANGED <<task, faults, overlap, run>>

\* Every returned session has its task offered to the crash-restart back-off.
ScheduleOne(p, s) ==
    /\ pump[p].pc = "reap"
    /\ pump[p].todo = {}
    /\ s \in pump[p].reaped
    /\ task' = ScheduledRestart(task, TaskOf(s))
    /\ pump' = [pump EXCEPT ![p] =
          IF @.reaped = {s} THEN IdlePump
          ELSE [@ EXCEPT !.reaped = pump[p].reaped \ {s}]]
    /\ UNCHANGED <<session, faults, overlap, run>>

\* due_restarts: the whole list under one lock.
RestartIsDue(r) == r.status = "InProgress" /\ r.restart = "due"

\* Mutant: the deadline is not cleared when the retry is charged.
RestartedUncleared(r) ==
    IF RestartIsDue(r) THEN [r EXCEPT !.crashes = @ + 1, !.phase = "Queued"]
                       ELSE r

Restarted(r) ==
    IF RestartIsDue(r)
    THEN [r EXCEPT !.crashes = @ + 1, !.restart = "none", !.phase = "Queued"]
    ELSE r

DueRestarts(p) ==
    /\ pump[p].pc = "idle"
    /\ \E t \in Task : RestartIsDue(task[t])
    /\ task' = [t \in Task |-> Restarted(task[t])]
    /\ UNCHANGED <<session, faults, overlap, pump, run>>

-----------------------------------------------------------------------------
(* The walk: a census and a candidate list read without the lock, then one *)
(* locked claim and one launch per candidate.                              *)

IsCandidate(t) ==
    /\ task[t].status = "InProgress"
    /\ task[t].phase = "Queued"
    /\ task[t].restart # "later"

\* The rest of a walk: it ends with the list, or at an exhausted total cap.
Walking(plan, used) ==
    IF plan = NoPlan \/ ~HasRoom(used) THEN IdlePump
    ELSE [IdlePump EXCEPT !.pc = "walk", !.plan = plan, !.used = used]

WalkBegin(p) ==
    /\ pump[p].pc = "idle"
    /\ \E t \in Task : IsCandidate(t)
    /\ pump' = [pump EXCEPT ![p] =
          Walking([t \in Task |-> IF IsCandidate(t)
                                  THEN UpcomingPhase(task[t])
                                  ELSE "None"],
                  Cardinality(Occupied))]
    /\ UNCHANGED <<board, run>>

\* Mutant: the slots measured before the walk are trusted.
ClaimableUnmeasured(t) == IsCandidate(t) /\ ~IsActive(task[t].session)

\* Mutant: a queued task is taken to have no run.
ClaimableRunning(t) == IsCandidate(t) /\ HasRoom(Cardinality(Occupied))

\* claim_queued_task re-reads the task and re-measures the caps, but enters
\* the phase that was planned when the candidates were listed.
Claimable(t) ==
    /\ IsCandidate(t)
    /\ ~IsActive(task[t].session)
    /\ HasRoom(Cardinality(Occupied))

Claim(p, t, s) ==
    /\ pump[p].pc = "walk"
    /\ pump[p].plan[t] # "None"
    /\ Claimable(t)
    /\ Fresh(s)
    /\ task' = [task EXCEPT ![t] = [@ EXCEPT !.phase = pump[p].plan[t],
                                            !.session = s]]
    /\ session' = Linked(session, s, t)
    /\ pump' = [pump EXCEPT ![p] = [@ EXCEPT !.pc = "launch", !.cur = s,
                                            !.plan[t] = "None"]]
    /\ UNCHANGED <<faults, overlap, run>>

ClaimRefused(p, t) ==
    /\ pump[p].pc = "walk"
    /\ pump[p].plan[t] # "None"
    /\ ~Claimable(t)
    /\ pump' = [pump EXCEPT ![p] =
          Walking([pump[p].plan EXCEPT ![t] = "None"], pump[p].used)]
    /\ UNCHANGED <<board, run>>

\* The launch itself looks at neither the task's status nor the session's.
PumpLaunch(p) ==
    /\ pump[p].pc = "launch"
    /\ run' = [run EXCEPT ![pump[p].cur].pc = "run"]
    /\ pump' = [pump EXCEPT ![p] = Walking(@.plan, @.used + 1)]
    /\ UNCHANGED board

PumpLaunchFails(p) ==
    /\ pump[p].pc = "launch"
    /\ faults < MaxFaults
    /\ faults' = faults + 1
    /\ session' = Crashed(session, pump[p].cur)
    /\ pump' = [pump EXCEPT ![p].pc = "failed"]
    /\ UNCHANGED <<task, overlap, run>>

ScheduleFailed(p) ==
    /\ pump[p].pc = "failed"
    /\ task' = ScheduledRestart(task, TaskOf(pump[p].cur))
    /\ pump' = [pump EXCEPT ![p] = Walking(@.plan, @.used)]
    /\ UNCHANGED <<session, faults, overlap, run>>

\* A pump's process may die between any two of its steps; what it claimed
\* and had not launched is an active session nothing will ever run in.
PumpDies(p) ==
    /\ pump[p].pc # "idle"
    /\ faults < MaxFaults
    /\ faults' = faults + 1
    /\ run' = IF pump[p].pc = "launch"
              THEN [run EXCEPT ![pump[p].cur].pc = "gone"] ELSE run
    /\ pump' = [pump EXCEPT ![p] = IdlePump]
    /\ UNCHANGED <<task, session, overlap>>

PumpStep(p) ==
    \/ WakeBegin(p)
    \/ \E s \in Session : WakeRead(p, s)
    \/ WakeCrash(p)
    \/ WakeQueue(p)
    \/ WakeFencedOut(p)
    \/ WakeClose(p)
    \/ ReapBegin(p)
    \/ \E s \in Session : ReapOne(p, s) \/ ScheduleOne(p, s)
    \/ DueRestarts(p)
    \/ WalkBegin(p)
    \/ \E t \in Task, s \in Session : Claim(p, t, s)
    \/ \E t \in Task : ClaimRefused(p, t)
    \/ PumpLaunch(p)
    \/ PumpLaunchFails(p)
    \/ ScheduleFailed(p)
=============================================================================
