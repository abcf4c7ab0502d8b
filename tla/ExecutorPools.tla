---------------------------- MODULE ExecutorPools ----------------------------
(***************************************************************************)
(* One node of a plan that runs on a pool of models: the walk of the pool  *)
(* before a launch, the park with its question when every candidate is out *)
(* of quota, the deadline and the answer that race to end it, and the      *)
(* failover of a run that dies on a limit (apply_executor_pool,            *)
(* advance_role_roster, answer_question_as of core/operations.rs, select   *)
(* of core/executors.rs, claim_queued_task, due_restarts and               *)
(* schedule_crash_restart_at of core/scheduler.rs).  Every action is one   *)
(* section under the board lock; a handler with two sections has two.      *)
(*                                                                         *)
(* A window of a provider is "open", or spent until a reset less than a    *)
(* day ("day") or more than a day ("week") ahead.  The other tasks of the  *)
(* board are the slots they hold.  The queue and crash restarts are on;    *)
(* "Execute" stands for the phase None of a direct start too.              *)
(***************************************************************************)
EXTENDS Naturals, FiniteSetsExt

CONSTANTS
    Candidates,     \* length of the pool
    Slots,          \* orchestration.max_parallel_agents
    BackoffSteps,   \* length of auto_restart.delays_minutes
    Recorded        \* candidates whose 429 carries the usage of the provider

Candidate == 1 .. Candidates
Other == 0          \* a configured provider that the pool does not name

ASSUME PoolAssumption ==
    /\ Candidates \in Nat \ {0}
    /\ Slots \in Nat \ {0}
    /\ BackoffSteps \in Nat
    /\ Recorded \subseteq Candidate

VARIABLES
    quota,      \* what is left of each candidate's provider
    seen,       \* what the cached limits snapshot says of it
    held,       \* slots of the other tasks
    plannode,   \* the task file
    question,   \* a kanban:executor-pool question is open
    answer,     \* the wake an answer still owes, and whether it is outrun
    report,     \* what the wrapper of a dead run has still to report
    \* histories
    failovers,  \* of the roster, since a human last queued or ran the task
    cause,      \* of the deadline set last
    answered,   \* a human has named another provider
    stray       \* a session was replaced while it was active

poolVars == <<quota, seen, held, plannode, question, answer, report,
              failovers, cause, answered, stray>>
histories == <<failovers, cause, answered, stray>>

Window == {"open", "day", "week"}

PlanNode ==
    [status : {"InProgress", "Review"},
     phase : {"Queued", "Execute"},
     run : {"none", "claimed", "live", "ended"},     \* task.session
     restart : {"none", "later", "due"},             \* restart_at
     crashes : 0 .. BackoffSteps + 1,                \* crash_restarts
     pooled : BOOLEAN,                               \* role_profile
     index : Candidate,                              \* roster_index + 1
     on : {Other} \cup Candidate]                    \* agent_backend, ai_model

PoolTypeOK ==
    /\ quota \in [Candidate -> Window]
    /\ seen \in [Candidate -> Window]
    /\ held \in 0 .. Slots
    /\ plannode \in PlanNode
    /\ question \in BOOLEAN
    /\ answer \in {"none", "owed", "outrun"}
    /\ report \in {"none", "limit", "crash"}
    /\ failovers \in 0 .. Candidates
    /\ cause \in {"none", "crash", "park"}
    /\ answered \in BOOLEAN
    /\ stray \in BOOLEAN

PoolInit ==
    /\ quota = [c \in Candidate |-> "open"]
    /\ seen = quota
    /\ held = 0
    \* Queued by the sweep, or taken out of the queue again.
    /\ plannode \in [status : {"InProgress"}, phase : {"Queued", "Execute"},
                     run : {"none"}, restart : {"none"}, crashes : {0},
                     pooled : {TRUE}, index : {1}, on : {1}]
    /\ question = FALSE
    /\ answer = "none"
    /\ report = "none"
    /\ failovers = 0
    /\ cause = "none"
    /\ answered = FALSE
    /\ stray = FALSE

-----------------------------------------------------------------------------
(* Quota.                                                                  *)

\* Other work on the same subscriptions.
Spend(c) ==
    /\ quota[c] = "open"
    /\ \E w \in {"day", "week"} : quota' = [quota EXCEPT ![c] = w]
    /\ UNCHANGED <<seen, held, plannode, question, answer, report, histories>>

\* Mutant: a reading outlives the window it is a reading of.
SeenForEver(c) == seen

\* live_windows: a window whose reset has passed is not counted any more.
SeenAfterReset(c) == [seen EXCEPT ![c] = "open"]

Reset(c) ==
    /\ quota[c] # "open"
    /\ quota' = [quota EXCEPT ![c] = "open"]
    /\ seen' = SeenAfterReset(c)
    /\ UNCHANGED <<held, plannode, question, answer, report, histories>>

\* The limits worker of an open TUI; nobody has to have one.
Poll ==
    /\ seen # quota
    /\ seen' = quota
    /\ UNCHANGED <<quota, held, plannode, question, answer, report, histories>>

IsRunning == plannode.run \in {"claimed", "live"}

\* The census passes over a task whose phase is queued.
Mine == IF IsRunning /\ plannode.phase # "Queued" THEN 1 ELSE 0

SlotFree == held + Mine < Slots

OthersTake ==
    /\ SlotFree
    /\ held' = held + 1
    /\ UNCHANGED <<quota, seen, plannode, question, answer, report, histories>>

OthersRelease ==
    /\ held > 0
    /\ held' = held - 1
    /\ UNCHANGED <<quota, seen, plannode, question, answer, report, histories>>

Environment ==
    \/ \E c \in Candidate : Spend(c) \/ Reset(c)
    \/ Poll \/ OthersTake \/ OthersRelease

-----------------------------------------------------------------------------
(* The walk.                                                               *)

\* select: the candidates that the snapshot does not show below its floor.
WithHeadroom == {c \in Candidate : seen[c] = "open"}

\* usable_deadline: only a reset of the coming day is worth a park.
Parks(n) ==
    /\ n.pooled
    /\ WithHeadroom = {}
    /\ \E c \in Candidate : seen[c] = "day"

ParkedNode(n) ==
    [n EXCEPT !.restart = "later", !.phase = "Queued", !.run = "none"]

\* Materialized, unless no candidate has headroom and no park is possible.
Materialized(n) ==
    IF n.pooled /\ WithHeadroom # {}
    THEN [n EXCEPT !.index = Min(WithHeadroom), !.on = Min(WithHeadroom)]
    ELSE n

\* withdraw_executor_pool_question
Withdrawn(n) == question /\ ~(n.pooled /\ WithHeadroom # {})

\* Another session of the task than the one the answer knew.
Outrun == answer' = IF answer = "owed" THEN "outrun" ELSE answer

Park(n) ==
    /\ Parks(n)
    /\ plannode' = ParkedNode(n)
    /\ question' = TRUE
    /\ cause' = "park"
    /\ UNCHANGED answer

Start(n, run) ==
    /\ ~Parks(n)
    /\ plannode' = [Materialized(n) EXCEPT !.phase = "Execute", !.run = run]
    /\ question' = Withdrawn(n)
    /\ stray' = (stray \/ IsRunning)
    /\ Outrun

-----------------------------------------------------------------------------
(* The pumps.                                                              *)

DeadlinePasses ==
    /\ plannode.restart = "later"
    /\ plannode' = [plannode EXCEPT !.restart = "due"]
    /\ UNCHANGED <<quota, seen, held, question, answer, report, histories>>

\* (More restarts than the schedule has steps are all the same to the code.)
Charged(n) == Min({n.crashes + 1, BackoffSteps + 1})

\* due_restarts asks the open question whether the deadline was a park.
DueRestart ==
    /\ plannode.status = "InProgress"
    /\ plannode.restart = "due"
    /\ plannode' = [plannode EXCEPT
          !.restart = "none",
          !.phase = "Queued",
          !.crashes = IF question THEN @ ELSE Charged(plannode)]
    /\ UNCHANGED <<quota, seen, held, question, answer, report, histories>>

PoolClaimable ==
    /\ plannode.status = "InProgress"
    /\ plannode.phase = "Queued"
    /\ plannode.restart # "later"
    /\ ~IsRunning

\* (A pass walks the queue with slots it measured earlier, so a claim may find
\* them taken.)
ClaimParks ==
    /\ PoolClaimable
    /\ Park(plannode)
    /\ UNCHANGED <<quota, seen, held, report, failovers, answered, stray>>

ClaimStarts ==
    /\ PoolClaimable
    /\ SlotFree
    /\ Start(plannode, "claimed")
    /\ UNCHANGED <<quota, seen, held, report, failovers, cause, answered>>

\* The caps are measured after the walk: the question is gone, the task not
\* saved.
ClaimFull ==
    /\ PoolClaimable
    /\ ~Parks(plannode)
    /\ ~SlotFree
    /\ question' = Withdrawn(plannode)
    /\ UNCHANGED <<quota, seen, held, plannode, answer, report, histories>>

\* (One report at a time, here and below: two runs of one task report in the
\* order they ended.)
LaunchClaimed ==
    /\ plannode.run = "claimed"
    /\ \/ /\ plannode' = [plannode EXCEPT !.run = "live"]
          /\ UNCHANGED report
       \/ /\ report = "none"
          /\ plannode' = [plannode EXCEPT !.run = "ended"]
          /\ report' = "crash"
    /\ UNCHANGED <<quota, seen, held, question, answer, histories>>

PoolPump ==
    DueRestart \/ ClaimParks \/ ClaimStarts \/ ClaimFull \/ LaunchClaimed

-----------------------------------------------------------------------------
(* The run.                                                                *)

RunDone ==
    /\ plannode.run = "live"
    /\ plannode' = [plannode EXCEPT !.run = "ended", !.status = "Review",
                                    !.phase = "Execute"]
    /\ UNCHANGED <<quota, seen, held, question, answer, report, histories>>

\* A 429 that names its reset; some carry what the snapshot should know.
DiesOnLimit ==
    LET c == plannode.on
    IN /\ plannode.run = "live"
       /\ report = "none"
       /\ c # Other => quota[c] # "open"
       /\ plannode' = [plannode EXCEPT !.run = "ended"]
       /\ seen' = IF c \in Recorded THEN [seen EXCEPT ![c] = quota[c]]
                                    ELSE seen
       /\ report' = "limit"
       /\ UNCHANGED <<quota, held, question, answer, histories>>

\* Any other crash: to the back-off, or, when a retry is no use, nowhere.
DiesOtherwise ==
    /\ plannode.run = "live"
    /\ report = "none"
    /\ plannode' = [plannode EXCEPT !.run = "ended"]
    /\ report' \in {"none", "crash"}
    /\ UNCHANGED <<quota, seen, held, question, answer, histories>>

CanFailOver ==
    /\ plannode.status = "InProgress"
    /\ plannode.restart = "none"
    /\ plannode.pooled
    /\ plannode.index < Candidates

FailOver ==
    /\ report = "limit"
    /\ IF CanFailOver
       THEN /\ plannode' = [plannode EXCEPT !.index = @ + 1,
                                            !.on = plannode.index + 1,
                                            !.phase = "Queued"]
            /\ failovers' = Min({failovers + 1, Candidates})
            /\ report' = "none"
       ELSE /\ report' = "crash"
            /\ UNCHANGED <<plannode, failovers>>
    /\ UNCHANGED <<quota, seen, held, question, answer, cause, answered, stray>>

BackOff ==
    /\ report = "crash"
    /\ report' = "none"
    /\ IF /\ plannode.status = "InProgress"
          /\ plannode.restart = "none"
          /\ plannode.crashes < BackoffSteps
       THEN /\ plannode' = [plannode EXCEPT !.restart = "later",
                                            !.phase = "Queued"]
            /\ cause' = "crash"
       ELSE UNCHANGED <<plannode, cause>>
    /\ UNCHANGED <<quota, seen, held, question, answer, failovers, answered,
                   stray>>

PoolRun == RunDone \/ DiesOnLimit \/ DiesOtherwise \/ FailOver \/ BackOff

-----------------------------------------------------------------------------
(* The human.                                                              *)

AnswerWait ==
    /\ question
    /\ question' = FALSE
    /\ UNCHANGED <<quota, seen, held, plannode, answer, report, histories>>

\* Mutant: the profile stays, so the next walk takes the task back.
ReassignedInPool(n) == [n EXCEPT !.on = Other, !.restart = "none"]

\* apply_executor_pool_answer
Reassigned(n) ==
    [n EXCEPT !.on = Other, !.pooled = FALSE, !.index = 1, !.restart = "none"]

AnswerProvider ==
    /\ question
    /\ question' = FALSE
    /\ plannode' = Reassigned(plannode)
    /\ answer' = IF plannode.status = "InProgress" THEN "owed" ELSE answer
    /\ answered' = TRUE
    /\ UNCHANGED <<quota, seen, held, report, failovers, cause, stray>>

AutoReset(n) == [n EXCEPT !.crashes = 0, !.restart = "none"]

\* resume_answered_agent, fenced on the session the answer saw, starts the
\* run itself; a run that is alive needs no wake.
WakesAnswered ==
    /\ answer = "owed"
    /\ plannode.status = "InProgress"
    /\ ~question
    /\ ~IsRunning

ResumeAnswered ==
    /\ WakesAnswered
    /\ plannode' = [AutoReset(plannode) EXCEPT !.phase = "Execute",
                                               !.run = "live"]
    /\ answer' = "none"
    /\ UNCHANGED <<quota, seen, held, question, report, histories>>

WakeDropped ==
    /\ answer # "none"
    /\ ~WakesAnswered
    /\ answer' = "none"
    /\ UNCHANGED <<quota, seen, held, plannode, question, report, histories>>

\* queue_run, from the board or from Review.
HumanQueues ==
    /\ ~IsRunning
    /\ plannode' = [AutoReset(plannode) EXCEPT !.status = "InProgress",
                                               !.phase = "Queued"]
    /\ failovers' = 0
    /\ UNCHANGED <<quota, seen, held, question, answer, report, cause, answered,
                   stray>>

\* Run now: past the caps, but not past the pool.
HumanRuns ==
    LET n == [AutoReset(plannode) EXCEPT !.status = "InProgress"]
    IN /\ ~IsRunning
       /\ \/ Park(n) /\ UNCHANGED stray
          \/ Start(n, "live") /\ UNCHANGED cause
       /\ failovers' = 0
       /\ UNCHANGED <<quota, seen, held, report, answered>>

HumanStops ==
    /\ plannode.run = "live"
    /\ plannode' = [plannode EXCEPT !.run = "ended"]
    /\ UNCHANGED <<quota, seen, held, question, answer, report, histories>>

HumanDequeues ==
    /\ plannode.phase = "Queued"
    /\ plannode' = [AutoReset(plannode) EXCEPT !.phase = "Execute"]
    /\ UNCHANGED <<quota, seen, held, question, answer, report, histories>>

PoolHuman ==
    \/ AnswerWait \/ AnswerProvider \/ ResumeAnswered \/ WakeDropped
    \/ HumanQueues \/ HumanRuns \/ HumanStops \/ HumanDequeues

PoolNext ==
    Environment \/ DeadlinePasses \/ PoolPump \/ PoolRun \/ PoolHuman

PoolSpec == PoolInit /\ [][PoolNext]_poolVars

\* The pumps of the machine go on and its clock does.  Nobody has to answer,
\* no TUI has to be open, no quota has to come back; a pass that finds no slot
\* does not come to the claim.
PoolsGoOn ==
    /\ WF_poolVars(DeadlinePasses)
    /\ WF_poolVars(DueRestart)
    /\ WF_poolVars(SlotFree /\ (ClaimParks \/ ClaimStarts))

PoolFairSpec == PoolSpec /\ PoolsGoOn

-----------------------------------------------------------------------------
(* Correctness.                                                            *)

\* Whoever comes first wins (answer_question_as against due_restarts and the
\* claim): once a human has named a provider, neither the deadline nor a
\* failover takes the task back to the pool, and the claim and the wake of
\* the answer never start it both.
FirstToComeWins == (answered => plannode.on = Other) /\ ~stray

PoolWaiting ==
    /\ plannode.status = "InProgress"
    /\ plannode.phase = "Queued"
    /\ ~IsRunning

\* A queued task that could run: quota has come back, and a slot.
RunIsOwed ==
    /\ PoolWaiting
    /\ \E c \in Candidate : quota[c] = "open"
    /\ held < Slots

\* A park ends by itself (select, live_windows, due_restarts): a task that
\* could run does not stay parked, though nobody answers its question and no
\* process polls the limits.
ParkEnds == RunIsOwed ~> ~RunIsOwed

\* "the roster length already bounds how often this can happen, and
\* `roster_index` is never reset automatically" (advance_role_roster): a run
\* that dies on limits moves to each further candidate once.
FailoversBounded == failovers < Candidates

\* "its deadline re-runs the pool walk and must not charge the crash budget"
\* (due_restarts): only the deadline of a crash is charged.
ParkIsFree ==
    [][plannode'.crashes > plannode.crashes => cause = "crash"]_poolVars

\* "Every candidate blocked -> the task parks" (docs/orchestration.md): the
\* pumps start no run on a provider the snapshot shows to be spent.
SpentIsNotStarted ==
    [][ClaimStarts /\ plannode'.on # Other
          => seen[plannode'.on] = "open"]_poolVars

\* The answer hands the task to the queue, which keeps the caps
\* (apply_executor_pool_answer).
AnswerKeepsCaps == [][ResumeAnswered => SlotFree]_poolVars
=============================================================================
