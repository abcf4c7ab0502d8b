---------------------------- MODULE TaskLifecycle ----------------------------
(***************************************************************************)
(* The whole run lifecycle of a board: the dispatcher's pumps, the agents  *)
(* and the humans who start, queue, dequeue, stop, recover and finish      *)
(* tasks from the CLI, the TUI or the web board (core/operations.rs).  The *)
(* properties of the lifecycle are stated here.                            *)
(***************************************************************************)
EXTENDS AgentRuns

CONSTANTS
    Starter,        \* humans or clients pressing Run at the same time
    MaxRequests     \* bound: human requests in a behaviour

VARIABLES
    start,      \* start_task in flight, per starter
    requests,   \* human requests so far, at most MaxRequests
    stopped     \* history: sessions a human stopped

human == <<start, requests, stopped>>
vars == <<task, session, faults, overlap, pump, run, start, requests, stopped>>

StartRecord ==
    [pc : {"idle", "take", "launch", "rollback"},
     task : Task \cup {NoTask},
     session : Session \cup {NoSession},
     status : TaskStatus]        \* previous_status

IdleStart ==
    [pc |-> "idle", task |-> NoTask, session |-> NoSession, status |-> "Todo"]

TypeOK ==
    /\ BoardTypeOK
    /\ DispatcherTypeOK
    /\ RunsTypeOK
    /\ start \in [Starter -> StartRecord]
    /\ requests \in Nat
    /\ stopped \subseteq Session

Init ==
    /\ BoardInit
    /\ DispatcherInit
    /\ RunsInit
    /\ start = [h \in Starter |-> IdleStart]
    /\ requests = 0
    /\ stopped = {}

Request == requests < MaxRequests /\ requests' = requests + 1

-----------------------------------------------------------------------------
(* One locked section each.                                                *)

\* queue_run: the reset, the phase and the status in one write.
QueueRun(t) ==
    /\ Request
    /\ task[t].status \in {"Todo", "InProgress", "Review"}
    /\ ~IsActive(task[t].session)
    /\ task' = [task EXCEPT ![t] =
          [ResetHumanRestart(@) EXCEPT !.status = "InProgress",
                                       !.phase = "Queued"]]
    /\ UNCHANGED <<session, faults, overlap, pump, run, start, stopped>>

Dequeue(t) ==
    /\ Request
    /\ task[t].phase = "Queued"
    /\ task' = [task EXCEPT ![t] =
          [ResetHumanRestart(@) EXCEPT !.phase = "None"]]
    /\ UNCHANGED <<session, faults, overlap, pump, run, start, stopped>>

\* recover keeps the session, and a session that is active stays active.
Recover(t) ==
    /\ Request
    /\ task' = [task EXCEPT ![t] =
          [ResetHumanRestart(@) EXCEPT !.status = "Todo", !.phase = "None",
                                       !.designed = FALSE]]
    /\ UNCHANGED <<session, faults, overlap, pump, run, start, stopped>>

\* The human's `done`: the session files of the task are removed.
HumanDone(t) ==
    /\ Request
    /\ task' = [task EXCEPT ![t].status = "Done"]
    /\ session' = [s \in Session |->
          IF TaskOf(s) = t THEN Ended(session[s], "deleted")
                           ELSE session[s]]
    /\ UNCHANGED <<faults, overlap, pump, run, start, stopped>>

-----------------------------------------------------------------------------
(* Stop closes the session first and then kills the agent's host.          *)

Stop(t) ==
    LET s == task[t].session
    IN /\ Request
       /\ IsActive(s)
       /\ session' = Closed(session, s)
       /\ stopped' = stopped \cup {s}
       /\ UNCHANGED <<task, faults, overlap, pump, run, start>>

KillStopped(s) ==
    /\ s \in stopped
    /\ ProcessAlive(s)
    /\ Killed(s)
    /\ UNCHANGED <<board, pump, human>>

-----------------------------------------------------------------------------
(* Run now: start_task checks and mints under one lock, take_task_inner    *)
(* writes under the next one, and the launch follows outside both.         *)

StartCheck(h, t, s) ==
    /\ start[h].pc = "idle"
    /\ Request
    /\ ~IsActive(task[t].session)
    /\ Fresh(s)
    /\ session' = [session EXCEPT ![s].status = "minted"]
    /\ start' = [start EXCEPT ![h] = [IdleStart EXCEPT !.pc = "take",
                                        !.task = t, !.session = s]]
    /\ UNCHANGED <<task, faults, overlap, pump, run, stopped>>

StartTake(h) ==
    LET t == start[h].task
        s == start[h].session
        r == ResetHumanRestart(task[t])
    IN /\ start[h].pc = "take"
       /\ task' = [task EXCEPT ![t] =
             [r EXCEPT !.status = "InProgress", !.session = s,
                !.phase = IF DesignOn /\ ~r.designed THEN "Design"
                                                     ELSE "None"]]
       /\ session' = Linked(session, s, t)
       /\ overlap' = OverlapWith(s, t)
       /\ start' = [start EXCEPT ![h].pc = "launch",
                                 ![h].status = task[t].status]
       /\ UNCHANGED <<faults, pump, run, requests, stopped>>

StartLaunch(h) ==
    /\ start[h].pc = "launch"
    /\ run' = [run EXCEPT ![start[h].session].pc = "run"]
    /\ start' = [start EXCEPT ![h] = IdleStart]
    /\ UNCHANGED <<board, pump, requests, stopped>>

StartLaunchFails(h) ==
    /\ start[h].pc = "launch"
    /\ faults < MaxFaults
    /\ faults' = faults + 1
    /\ session' = Crashed(session, start[h].session)
    /\ start' = [start EXCEPT ![h].pc = "rollback"]
    /\ UNCHANGED <<task, overlap, pump, run, requests, stopped>>

\* The status goes back to what it was before the take, whatever it is now.
StartRollback(h) ==
    /\ start[h].pc = "rollback"
    /\ task' = [task EXCEPT ![start[h].task].status = start[h].status]
    /\ start' = [start EXCEPT ![h] = IdleStart]
    /\ UNCHANGED <<session, faults, overlap, pump, run, requests, stopped>>

StartStep(h) ==
    \/ StartTake(h)
    \/ StartLaunch(h)
    \/ StartLaunchFails(h)
    \/ StartRollback(h)

HumanStep ==
    \/ \E t \in Task : \/ QueueRun(t)
                       \/ Dequeue(t)
                       \/ Recover(t)
                       \/ HumanDone(t)
                       \/ Stop(t)
    \/ \E s \in Session : KillStopped(s)
    \/ \E h \in Starter, t \in Task, s \in Session : StartCheck(h, t, s)
    \/ \E h \in Starter : StartStep(h)

-----------------------------------------------------------------------------

BoardStep ==
    \/ \E p \in Pump : PumpStep(p) \/ PumpDies(p)
    \/ \E s \in Session : RunStep(s) \/ ProcessDies(s)
    \/ ClockStep

Next == (BoardStep /\ UNCHANGED human) \/ HumanStep

Spec == Init /\ [][Next]_vars

(***************************************************************************)
(* Fairness.  The daemon and every open TUI tick for ever, and a tick runs *)
(* its sections one after the other, so a section that keeps finding work  *)
(* at the start of a pass is not passed over for ever (SF), and a pass     *)
(* that began goes on (WF).  A handler of the board goes on once begun,    *)
(* an agent's process ends some day, and clocks run.  Humans, faults and   *)
(* what an agent does before its process ends are not fair.                *)
(***************************************************************************)
Alone(A) == A /\ UNCHANGED human

PumpFairness(p) ==
    /\ WF_vars(Alone(PumpStep(p)))
    /\ SF_vars(Alone(WakeBegin(p)))
    /\ SF_vars(Alone(ReapBegin(p)))
    /\ SF_vars(Alone(DueRestarts(p)))
    /\ SF_vars(Alone(WalkBegin(p)))

RunFairness(s) ==
    /\ WF_vars(Alone(HandlerStep(s)))
    /\ WF_vars(Alone(ExitStep(s)))
    /\ WF_vars(Alone(run[s].pc = "gone" /\ FallSilent(s)))
    /\ WF_vars(Alone(WaitDeadline(s)))

Fairness ==
    /\ \A p \in Pump : PumpFairness(p)
    /\ \A s \in Session : RunFairness(s)
    /\ \A t \in Task : WF_vars(Alone(RestartDeadline(t)))
    /\ \A h \in Starter : WF_vars(StartStep(h))

FairSpec == Spec /\ Fairness

-----------------------------------------------------------------------------
(* Safety.                                                                 *)

\* A task never has an active session other than its current one, so its
\* census, its claim and its fences speak of the only run it has.  The two
\* places that link a session without asking (start_task's second lock and
\* start_bot_review) are recorded in overlap; every other hand-over, by the
\* dispatcher, a resume, a wake or the designer, keeps a task to one run.
OneRunPerTask ==
    \A s \in Session :
        IsActive(s) /\ TaskOf(s) \notin overlap => task[TaskOf(s)].session = s

\* However many pumps and wrappers report the same crash, a task is retried
\* at most RestartSteps times, and a pending deadline is one of those.
CrashBudget ==
    \A t \in Task :
        /\ task[t].crashes <= RestartSteps
        /\ task[t].restart # "none" => task[t].crashes < RestartSteps

\* The exit of an agent and the end of its wait share one resume budget, and
\* each reads it before the lock it spends it under.
ResumeBudget == \A t \in Task : task[t].resumes <= MaxResumes

\* A claim never leaves more runs in the census than the total cap, however
\* many pumps walk the same queue with slots they measured earlier.
ClaimWithinCap ==
    [][\A p \in Pump :
          pump[p].pc = "walk" /\ pump'[p].pc = "launch" =>
              MaxAgents = 0 \/ Cardinality(Occupied') <= MaxAgents]_vars

\* Once a task reached Review or Done only a human brings it back: no late
\* crash report, due restart, expired wait, resume or reviewer hand-over of
\* an earlier run touches its status, its phase or its session.
FinishedStaysFinished ==
    [][\A t \in Task :
          task[t].status \in {"Review", "Done"} =>
              \/ /\ task'[t].status = task[t].status
                 /\ task'[t].phase = task[t].phase
                 /\ task'[t].session = task[t].session
              \/ human' # human]_vars

-----------------------------------------------------------------------------
(* Liveness, under FairSpec.                                               *)

\* A session whose process is gone does not stay active: the heartbeat
\* timeout or the end of its declared wait is noticed by some pump, whatever
\* died between a claim and its launch.
DeadRunIsReaped ==
    \A s \in Session :
        (IsActive(s) /\ run[s].pc = "gone") ~> ~IsActive(s)

\* Every queued task leaves the queue: slots held by dead, silent or waiting
\* runs come back, and a deadline or a run in the way passes.
QueuedTaskLeavesQueue ==
    \A t \in Task :
        (task[t].status = "InProgress" /\ task[t].phase = "Queued")
            ~> (task[t].status # "InProgress" \/ task[t].phase # "Queued")

-----------------------------------------------------------------------------
(* What the code's comments and docs say, and the code does not keep.      *)

\* "Existing runs and launch failures return an error" (start_task).
StartRefusesRunning ==
    [][\A h \in Starter :
          start[h].pc = "take" /\ start'[h].pc = "launch" =>
              ~\E s \in Session : IsActive(s) /\ TaskOf(s) = start[h].task]_vars

\* "Tasks in phase `queued` own no session and count for nothing".
QueuedOwnsNoRun ==
    \A t \in Task :
        task[t].status = "InProgress" /\ task[t].phase = "Queued" =>
            ~IsActive(task[t].session)

\* "mark it closed first so a racing `agent-exit` cannot auto-resume".
StopWins ==
    [][\A s \in stopped :
          run[s].pc = "resume_claim" => run'[s].pc # "resume_launch"]_vars
=============================================================================
