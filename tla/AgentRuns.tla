------------------------------ MODULE AgentRuns ------------------------------
(***************************************************************************)
(* One agent process per launched session, with the wrapper around it: the *)
(* board commands the agent runs (`kanban waiting`, `kanban done`,         *)
(* `kanban verdict`), what the board does inside them (land, bot review,   *)
(* design to execute), and reconcile_agent_exit when the process ends      *)
(* (core/operations.rs).  A handler that gives up the lock between two     *)
(* sections has one action per section; run[s].pc says which comes next.   *)
(***************************************************************************)
EXTENDS Dispatcher

RunPC ==
    {"none", "run", "gone",
     \* the locked sections of done and verdict after the first
     "close", "review_close", "review_claim", "design_close", "design_claim",
     "child_launch", "child_schedule",
     \* the sections of reconcile_agent_exit
     "exit_crash", "exit_schedule", "exit_wait", "exit_check", "exit_close",
     "exit_exhausted", "resume_close", "resume_claim", "resume_launch"}

RunRecord ==
    [pc : RunPC,
     child : Session \cup {NoSession},   \* the session being launched
     attempt : Nat]                      \* the resume attempt read earlier

NotRunning == [pc |-> "none", child |-> NoSession, attempt |-> 0]

RunsTypeOK == run \in [Session -> RunRecord]

RunsInit == run = [s \in Session |-> NotRunning]

ProcessAlive(s) == run[s].pc \notin {"none", "gone"}

Goto(s, pc) == run' = [run EXCEPT ![s].pc = pc]

\* The handler of s goes on to launch c.
Launching(s, pc, c) ==
    run' = [run EXCEPT ![s] = [@ EXCEPT !.pc = pc, !.child = c]]

\* The launch that the handler of s was making succeeds.
LaunchChild(s, after) ==
    run' = [run EXCEPT ![run[s].child].pc = "run", ![s] = after]

Gone(s) == run' = [run EXCEPT ![s] = [NotRunning EXCEPT !.pc = "gone"]]

-----------------------------------------------------------------------------
(* The wrapper, the clock and the machine.                                 *)

\* (A heartbeat on an ended session changes nothing anyone reads.)
Heartbeat(s) ==
    /\ ProcessAlive(s)
    /\ IsActive(s)
    /\ session[s].beat = "stale"
    /\ session' = [session EXCEPT ![s].beat = "fresh"]
    /\ UNCHANGED <<task, faults, overlap, pump, run>>

\* A dead process falls silent for good; a live one, or a launch, only when
\* it is held up for longer than the heartbeat timeout.
FallSilent(s) ==
    /\ IsActive(s)
    /\ session[s].beat = "fresh"
    /\ run[s].pc # "gone" => faults < MaxFaults
    /\ faults' = IF run[s].pc = "gone" THEN faults ELSE faults + 1
    /\ session' = [session EXCEPT ![s].beat = "stale"]
    /\ UNCHANGED <<task, overlap, pump, run>>

WaitDeadline(s) ==
    /\ IsActive(s)
    /\ session[s].wait = "open"
    /\ session' = [session EXCEPT ![s].wait = "over"]
    /\ UNCHANGED <<task, faults, overlap, pump, run>>

RestartDeadline(t) ==
    /\ task[t].restart = "later"
    /\ task' = [task EXCEPT ![t].restart = "due"]
    /\ UNCHANGED <<session, faults, overlap, pump, run>>

\* With the wrapper goes the handler it was in and the launch it was making.
Killed(s) ==
    run' = [x \in Session |->
       IF x \in {s, run[s].child} THEN [NotRunning EXCEPT !.pc = "gone"]
                                  ELSE run[x]]

ProcessDies(s) ==
    /\ ProcessAlive(s)
    /\ faults < MaxFaults
    /\ faults' = faults + 1
    /\ Killed(s)
    /\ UNCHANGED <<task, session, overlap, pump>>

-----------------------------------------------------------------------------
(* Commands of the agent.                                                  *)

DeclareWaiting(s) ==
    /\ run[s].pc = "run"
    /\ IsCurrent(s)
    /\ session' = [session EXCEPT ![s] = [@ EXCEPT !.wait = "open",
                                                  !.exited = FALSE,
                                                  !.beat = "fresh"]]
    /\ UNCHANGED <<task, faults, overlap, pump, run>>

\* apply_human_review, and what `done` writes.
Landed(r) == [r EXCEPT !.status = "Review", !.phase = "None"]

\* `done` of an executor, up to where it lets go of the lock.
ExecutorDone(s) ==
    LET t == TaskOf(s)
    IN /\ run[s].pc = "run"
       /\ IsCurrent(s)
       /\ task[t].phase \notin {"Design", "Review"}
       /\ IF ReviewOn /\ ~RoundsExhausted(task[t])
          THEN Goto(s, "review_close") /\ UNCHANGED task
          ELSE /\ task' = [task EXCEPT ![t] = Landed(@)]
               /\ Goto(s, "close")
       /\ UNCHANGED <<session, faults, overlap, pump>>

\* The verification command failed: only the session ends.
VerificationFails(s) ==
    /\ run[s].pc = "run"
    /\ IsCurrent(s)
    /\ task[TaskOf(s)].phase \notin {"Design", "Review"}
    /\ Goto(s, "close")
    /\ UNCHANGED <<task, session, faults, overlap, pump>>

DesignerDone(s) ==
    /\ run[s].pc = "run"
    /\ IsCurrent(s)
    /\ task[TaskOf(s)].phase = "Design"
    /\ Goto(s, "design_close")
    /\ UNCHANGED <<task, session, faults, overlap, pump>>

Verdict(s, approve, rework) ==
    LET t == TaskOf(s)
    IN /\ run[s].pc = "run"
       /\ IsCurrent(s)
       /\ task[t].phase = "Review"
       /\ task' = [task EXCEPT ![t] =
             IF approve \/ RoundsExhausted(@) THEN Landed(@)
             ELSE IF rework = "Todo" THEN [@ EXCEPT !.status = "Todo",
                                                    !.phase = "None"]
             ELSE [@ EXCEPT !.phase = "Queued"]]
       /\ Goto(s, "close")
       /\ UNCHANGED <<session, faults, overlap, pump>>

AfterClose(pc) ==
    CASE pc = "close" -> "run"
      [] pc = "review_close" -> "review_claim"
      [] pc = "design_close" -> "design_claim"
      [] pc = "resume_close" -> "resume_claim"
      [] pc = "exit_close" -> "gone"

CloseOwn(s) ==
    /\ run[s].pc \in {"close", "review_close", "design_close",
                      "resume_close", "exit_close"}
    /\ session' = Closed(session, s)
    /\ Goto(s, AfterClose(run[s].pc))
    /\ UNCHANGED <<task, faults, overlap, pump>>

\* start_bot_review asks only whether the task is still In Progress.
ReviewClaim(s, c) ==
    LET t == TaskOf(s)
    IN /\ run[s].pc = "review_claim"
       /\ task[t].status = "InProgress"
       /\ Fresh(c)
       /\ task' = [task EXCEPT ![t] = [@ EXCEPT !.phase = "Review",
                                               !.rounds = task[t].rounds + 1,
                                               !.session = c]]
       /\ session' = Linked(session, c, t)
       /\ overlap' = OverlapWith(c, t)
       /\ Launching(s, "child_launch", c)
       /\ UNCHANGED <<faults, pump>>

ReviewRefused(s) ==
    /\ run[s].pc = "review_claim"
    /\ task[TaskOf(s)].status # "InProgress"
    /\ Goto(s, "run")
    /\ UNCHANGED <<board, pump>>

\* Mutant: whoever's design phase it is now, the executor follows.
DesignFenceAny(s) ==
    LET r == task[TaskOf(s)]
    IN r.status = "InProgress" /\ r.phase = "Design"

\* advance_from_design is fenced on the phase and on the designer's session.
DesignFence(s) ==
    LET r == task[TaskOf(s)]
    IN r.status = "InProgress" /\ r.phase = "Design" /\ r.session = s

DesignClaim(s, c) ==
    LET t == TaskOf(s)
    IN /\ run[s].pc = "design_claim"
       /\ DesignFence(s)
       /\ Fresh(c)
       /\ task' = [task EXCEPT ![t] = [@ EXCEPT !.phase = "Execute",
                                               !.designed = TRUE,
                                               !.resumes = 0,
                                               !.session = c]]
       /\ session' = Linked(session, c, t)
       /\ Launching(s, "child_launch", c)
       /\ UNCHANGED <<faults, overlap, pump>>

DesignRefused(s) ==
    /\ run[s].pc = "design_claim"
    /\ ~DesignFence(s)
    /\ Goto(s, "run")
    /\ UNCHANGED <<board, pump>>

\* The launch of a reviewer or an executor from inside `done`.
ChildLaunch(s) ==
    /\ run[s].pc = "child_launch"
    /\ LaunchChild(s, [run[s] EXCEPT !.pc = "run", !.child = NoSession])
    /\ UNCHANGED <<board, pump>>

ChildLaunchFails(s) ==
    /\ run[s].pc = "child_launch"
    /\ faults < MaxFaults
    /\ faults' = faults + 1
    /\ session' = Crashed(session, run[s].child)
    /\ Launching(s, "child_schedule", NoSession)
    /\ UNCHANGED <<task, overlap, pump>>

ChildSchedule(s) ==
    /\ run[s].pc = "child_schedule"
    /\ task' = ScheduledRestart(task, TaskOf(s))
    /\ Goto(s, "run")
    /\ UNCHANGED <<session, faults, overlap, pump>>

-----------------------------------------------------------------------------
(* reconcile_agent_exit: what the wrapper does once the process has ended. *)

\* The first read of the session, outside the lock.
Exit(s, clean) ==
    /\ run[s].pc = "run"
    /\ IF ~IsActive(s) THEN Gone(s)
       ELSE IF ~clean THEN Goto(s, "exit_crash")
       ELSE IF session[s].wait = "open" THEN Goto(s, "exit_wait")
       ELSE Goto(s, "exit_check")
    /\ UNCHANGED <<board, pump>>

ExitCrash(s) ==
    /\ run[s].pc = "exit_crash"
    /\ session' = Crashed(session, s)
    /\ Goto(s, "exit_schedule")
    /\ UNCHANGED <<task, faults, overlap, pump>>

\* An error no retry can cure is not offered to the back-off.
ExitSchedule(s, retryable) ==
    /\ run[s].pc = "exit_schedule"
    /\ task' = IF retryable THEN ScheduledRestart(task, TaskOf(s)) ELSE task
    /\ Gone(s)
    /\ UNCHANGED <<session, faults, overlap, pump>>

\* mark_wait_exited: the session stays active until the deadline.
ExitWait(s) ==
    /\ run[s].pc = "exit_wait"
    /\ session' = [session EXCEPT ![s].exited = IsActive(s) \/ @]
    /\ Gone(s)
    /\ UNCHANGED <<task, faults, overlap, pump>>

\* Stranded or not, read under the lock that is then released; a task with
\* an open question waits for its human and is not resumed.
ExitCheck(s, asked) ==
    LET r == task[TaskOf(s)]
    IN /\ run[s].pc = "exit_check"
       /\ IF r.status # "InProgress" \/ r.session # s \/ asked
          THEN Goto(s, "exit_close")
          ELSE IF ResumesSpent(r) THEN Goto(s, "exit_exhausted")
          ELSE run' = [run EXCEPT ![s] = [@ EXCEPT !.pc = "resume_close",
                                                   !.attempt = r.resumes + 1]]
       /\ UNCHANGED <<board, pump>>

ExitExhausted(s) ==
    /\ run[s].pc = "exit_exhausted"
    /\ session' = Crashed(session, s)
    /\ Gone(s)
    /\ UNCHANGED <<task, faults, overlap, pump>>

\* Mutant: a task that left In Progress with this session is resumed too.
ResumeFenceAnyStatus(s) == task[TaskOf(s)].session = s

\* respawn_session: fenced on the status and on the session that ended.
ResumeFence(s) ==
    task[TaskOf(s)].status = "InProgress" /\ task[TaskOf(s)].session = s

\* claim_run_phase: a queued task enters the phase of its next run.
ClaimedPhase(r) == IF r.phase = "Queued" THEN UpcomingPhase(r) ELSE r.phase

ResumeClaim(s, c) ==
    LET t == TaskOf(s)
    IN /\ run[s].pc = "resume_claim"
       /\ ResumeFence(s)
       /\ Fresh(c)
       /\ task' = [task EXCEPT ![t] =
             [@ EXCEPT !.resumes = run[s].attempt,
                       !.session = c,
                       !.phase = ClaimedPhase(task[t])]]
       /\ session' = Linked(session, c, t)
       /\ Launching(s, "resume_launch", c)
       /\ UNCHANGED <<faults, overlap, pump>>

ResumeRefused(s) ==
    /\ run[s].pc = "resume_claim"
    /\ ~ResumeFence(s)
    /\ Gone(s)
    /\ UNCHANGED <<board, pump>>

ResumeLaunch(s) ==
    /\ run[s].pc = "resume_launch"
    /\ LaunchChild(s, [NotRunning EXCEPT !.pc = "gone"])
    /\ UNCHANGED <<board, pump>>

\* Nothing schedules a retry of a resume that could not be launched.
ResumeLaunchFails(s) ==
    /\ run[s].pc = "resume_launch"
    /\ faults < MaxFaults
    /\ faults' = faults + 1
    /\ session' = Crashed(session, run[s].child)
    /\ Gone(s)
    /\ UNCHANGED <<task, overlap, pump>>

-----------------------------------------------------------------------------

CommandStep(s) ==
    \/ DeclareWaiting(s)
    \/ ExecutorDone(s)
    \/ VerificationFails(s)
    \/ DesignerDone(s)
    \/ \E approve \in BOOLEAN, rework \in {"Todo", "Queued"} :
          Verdict(s, approve, rework)

\* What a handler does by itself once it has begun.
HandlerStep(s) ==
    \/ CloseOwn(s)
    \/ \E c \in Session : ReviewClaim(s, c) \/ DesignClaim(s, c)
    \/ ReviewRefused(s)
    \/ DesignRefused(s)
    \/ ChildLaunch(s)
    \/ ChildLaunchFails(s)
    \/ ChildSchedule(s)
    \/ ExitCrash(s)
    \/ \E retryable \in BOOLEAN : ExitSchedule(s, retryable)
    \/ ExitWait(s)
    \/ \E asked \in BOOLEAN : ExitCheck(s, asked)
    \/ ExitExhausted(s)
    \/ \E c \in Session : ResumeClaim(s, c)
    \/ ResumeRefused(s)
    \/ ResumeLaunch(s)
    \/ ResumeLaunchFails(s)

ExitStep(s) == \E clean \in BOOLEAN : Exit(s, clean)

RunStep(s) == CommandStep(s) \/ HandlerStep(s) \/ ExitStep(s)

ClockStep ==
    \/ \E s \in Session : Heartbeat(s) \/ FallSilent(s) \/ WaitDeadline(s)
    \/ \E t \in Task : RestartDeadline(t)
=============================================================================
