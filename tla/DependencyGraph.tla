--------------------------- MODULE DependencyGraph ---------------------------
(***************************************************************************)
(* The task graph of a board (core/graph.rs and the dependency half of     *)
(* core/operations.rs): `kanban depends` and `kanban create --depends-on`, *)
(* the plan an orchestrator submits, the readiness sweep that every pump   *)
(* runs, and the humans who move, archive and delete tasks meanwhile.      *)
(*                                                                         *)
(* A run is only queued, active or over here; module TaskLifecycle says    *)
(* how it gets from one to the next.  Task ids are numbers because the     *)
(* board mints them as max + 1, and may mint the id of a deleted task      *)
(* again.                                                                  *)
(***************************************************************************)
EXTENDS Cycles, Naturals, FiniteSets, FiniteSetsExt, Functions

CONSTANTS
    MaxId,          \* bound: task ids
    InitialTasks,   \* the board starts with tasks 1 .. InitialTasks in To Do
    Key,            \* plan-local handles; a plan has at most |Key| nodes
    Writer,         \* processes running `kanban depends`, `plan` or `done`
    Sweeper,        \* pumps running the readiness sweep
    Synced,         \* sync is on: ids of deleted tasks are remembered
    MaxRequests,    \* bound: what humans do in a behaviour
    MaxFaults       \* bound: processes killed in the middle of a command

Id == 1 .. MaxId
Nobody == 0     \* parent_task = None, and the task of an idle writer

ASSUME GraphAssumption ==
    /\ MaxId \in Nat
    /\ InitialTasks \in 0 .. MaxId
    /\ Key \cap (Id \cup {Nobody}) = {}
    /\ Synced \in BOOLEAN
    /\ MaxRequests \in Nat
    /\ MaxFaults \in Nat

VARIABLES
    node,       \* the task files
    high,       \* the highest id the sync journal has seen
    writer,     \* commands in flight
    sweep,      \* what each sweeper listed as ready and has not queued yet
    requests,   \* human requests so far, at most MaxRequests
    faults,     \* kills so far, at most MaxFaults
    finished,   \* history: tasks that reached Review or Done
    late        \* history: tasks whose edges changed after they were listed

files == <<node, high>>
vars == <<node, high, writer, sweep, requests, faults, finished, late>>

NodeRecord ==
    [status : {"gone", "Todo", "InProgress", "Review", "Done", "Archive"},
     phase : {"None", "Queued", "Orchestrate", "Execute"},
     active : {"no", "run", "closing"},  \* its session, and who will end it
     deps : SUBSET Id,                   \* depends_on
     planner : BOOLEAN,                  \* use_orchestrator
     planned : BOOLEAN,                  \* orchestrated
     parent : Id \cup {Nobody}]          \* parent_task

Gone ==
    [status |-> "gone", phase |-> "None", active |-> "no", deps |-> {},
     planner |-> FALSE, planned |-> FALSE, parent |-> Nobody]

Created(deps, planner, parent) ==
    [Gone EXCEPT !.status = "Todo", !.deps = deps, !.planner = planner,
                 !.parent = parent]

Plan == UNION {[K -> SUBSET (Key \cup Id)] : K \in SUBSET Key}
NoPlan == [k \in {} |-> {}]

WriterRecord ==
    [pc : {"idle", "depends", "plan", "closing", "list", "roots"},
     task : Id \cup {Nobody},
     want : SUBSET Id,                              \* the edges checked
     plan : Plan,                                   \* the plan validated
     ids : UNION {[K -> Id] : K \in SUBSET Key},    \* by_key
     left : SUBSET (Key \cup Id)]       \* keys to wire, then roots to queue

IdleWriter ==
    [pc |-> "idle", task |-> Nobody, want |-> {}, plan |-> NoPlan,
     ids |-> [k \in {} |-> Nobody], left |-> {}]

-----------------------------------------------------------------------------
(* The graph.                                                              *)

Existing == {t \in Id : node[t].status # "gone"}

Edges == [t \in Existing |-> node[t].deps]

\* check_acyclic: the proposed edges replace what t has.
ClosesCycle(E, t, deps) == HasCycle([E EXCEPT ![t] = deps])

\* Mutant: a vanished dependency is still waited for.
SatisfiedFound(d) == node[d].status \in {"Review", "Done"}

Satisfied(d) == node[d].status \in {"gone", "Review", "Done"}

\* Mutant: the first predecessor that finishes releases the node.
ReadyFirst(t) == \E d \in node[t].deps : Satisfied(d)

Ready(t) == \A d \in node[t].deps : Satisfied(d)

NextId == IF Synced THEN high + 1 ELSE Max(Existing \cup {Nobody}) + 1

\* A task file is created under the lock its id was minted under.
Create(t, record) ==
    /\ t \in Id
    /\ t = NextId
    /\ node' = [node EXCEPT ![t] = record]
    /\ high' = IF t > high THEN t ELSE high

-----------------------------------------------------------------------------
(* Runs.                                                                   *)

Queueable(n) ==
    n.status \in {"Todo", "InProgress", "Review"} /\ n.active = "no"

Queued(n) == [n EXCEPT !.status = "InProgress", !.phase = "Queued"]

\* queue_run, whose refusal changes nothing.
QueueRun(t) ==
    node' = [node EXCEPT ![t] = IF Queueable(@) THEN Queued(@) ELSE @]

Unchanged == UNCHANGED <<high, writer, sweep, requests, faults>>

\* The dispatcher claims the task; a planner that has no plan yet plans.
StartRun(t) ==
    /\ node[t].status = "InProgress"
    /\ node[t].phase = "Queued"
    /\ node[t].active = "no"
    /\ node' = [node EXCEPT ![t] =
          [@ EXCEPT !.active = "run",
                    !.phase = IF node[t].planner /\ ~node[t].planned
                              THEN "Orchestrate" ELSE "Execute"]]
    /\ Unchanged

\* The executor's `done`.
RunFinishes(t) ==
    /\ node[t].status = "InProgress"
    /\ node[t].active = "run"
    /\ node[t].phase # "Orchestrate"
    /\ node' = [node EXCEPT ![t] = [@ EXCEPT !.status = "Review",
                                            !.phase = "None",
                                            !.active = "no"]]
    /\ Unchanged

\* The session of a task that left In Progress ends: its agent exits, or the
\* heartbeat timeout finds it.
RunEnds(t) ==
    /\ node[t].status # "InProgress"
    /\ node[t].active # "no"
    /\ node' = [node EXCEPT ![t].active = "no"]
    /\ Unchanged

-----------------------------------------------------------------------------
(* Humans.                                                                 *)

Request ==
    /\ requests < MaxRequests
    /\ requests' = requests + 1
    /\ UNCHANGED <<writer, sweep, faults>>

\* clear_orchestration_join: sent back to To Do, a planner plans again.
JoinCleared(n) ==
    IF n.planner /\ n.planned THEN [n EXCEPT !.planned = FALSE, !.deps = {}]
                              ELSE n

\* move_task by a human (recover_task is a move to To Do).  Done removes the
\* session files.
HumanMove(t, to) ==
    /\ Request
    /\ t \in Existing
    /\ node' = [node EXCEPT ![t] =
          [(IF to = "Todo" THEN JoinCleared(@) ELSE @) EXCEPT
              !.status = to, !.phase = "None",
              !.active = IF to = "Done" THEN "no" ELSE node[t].active]]
    /\ UNCHANGED high

HumanQueue(t) ==
    /\ Request
    /\ Queueable(node[t])
    /\ QueueRun(t)
    /\ UNCHANGED high

\* archive_done_tasks and unarchive_task.
ArchiveDone ==
    /\ Request
    /\ \E t \in Id : node[t].status = "Done"
    /\ node' = [t \in Id |-> IF node[t].status = "Done"
                             THEN [node[t] EXCEPT !.status = "Archive"]
                             ELSE node[t]]
    /\ UNCHANGED high

Unarchive(t) ==
    /\ Request
    /\ node[t].status = "Archive"
    /\ node' = [node EXCEPT ![t].status = "Todo"]
    /\ UNCHANGED high

\* abandon_task leaves the edges that point at the task.
Abandon(t) ==
    /\ Request
    /\ t \in Existing
    /\ node' = [node EXCEPT ![t] = Gone]
    /\ UNCHANGED high

\* `kanban create --depends-on`, naming tasks the caller sees on the board.
\* Nothing checks the edges of a new task.
HumanCreate(t, deps, planner) ==
    /\ Request
    /\ deps \subseteq {d \in Existing : node[d].status # "Archive"}
    /\ Create(t, Created(deps, planner, Nobody))

HumanStep ==
    \/ \E t \in Id : \/ \E to \in {"Todo", "InProgress", "Review", "Done"} :
                           HumanMove(t, to)
                     \/ HumanQueue(t)
                     \/ Unarchive(t)
                     \/ Abandon(t)
    \/ ArchiveDone
    \/ \E t \in Id, deps \in SUBSET Id, planner \in BOOLEAN :
          HumanCreate(t, deps, planner)

-----------------------------------------------------------------------------
(* `kanban depends`: the check reads the board without the lock, the write *)
(* is a locked read-modify-write of the one task.                          *)

DependsCheck(w, t, deps) ==
    /\ writer[w].pc = "idle"
    /\ requests < MaxRequests
    /\ requests' = requests + 1
    /\ t \in Existing
    /\ deps \subseteq Existing
    /\ ~ClosesCycle(Edges, t, deps)
    /\ writer' = [writer EXCEPT ![w] = [IdleWriter EXCEPT !.pc = "depends",
                                           !.task = t, !.want = deps]]
    /\ UNCHANGED <<files, sweep, faults>>

DependsWrite(w) ==
    LET t == writer[w].task
    IN /\ writer[w].pc = "depends"
       /\ node' = IF t \in Existing
                  THEN [node EXCEPT ![t].deps = writer[w].want] ELSE node
       /\ writer' = [writer EXCEPT ![w] = IdleWriter]
       /\ UNCHANGED <<high, sweep, requests, faults>>

-----------------------------------------------------------------------------
(* apply_plan: the whole plan is validated against the board without the   *)
(* lock; then each node is created, each node that has edges is wired, and *)
(* the parent becomes the join, one lock at a time.                        *)

\* The agent's own live orchestrate session.
IsPlanning(t) ==
    /\ node[t].status = "InProgress"
    /\ node[t].phase = "Orchestrate"
    /\ node[t].active = "run"

\* What Plan::validate searches: the board, the plan's nodes under their keys,
\* and the parent waiting for all of them.
PlannedEdges(parent, plan) ==
    [x \in Existing \cup DOMAIN plan |->
        IF x = parent THEN DOMAIN plan
        ELSE IF x \in DOMAIN plan THEN plan[x]
        ELSE node[x].deps]

\* Mutant: a plan is searched apart from the board.
ValidAlone(parent, plan) ==
    /\ DOMAIN plan # {}
    /\ \A k \in DOMAIN plan :
          plan[k] \subseteq (DOMAIN plan \cup Existing) \ {k}
    /\ ~HasCycle(plan)

Valid(parent, plan) ==
    /\ DOMAIN plan # {}
    /\ \A k \in DOMAIN plan :
          plan[k] \subseteq (DOMAIN plan \cup Existing) \ {k, parent}
    /\ ~HasCycle(PlannedEdges(parent, plan))

\* The agent plans the task it holds; a human, any task without a plan.
PlanCheck(w, t) ==
    /\ writer[w].pc = "idle"
    /\ t \in Existing
    /\ ~node[t].planned
    /\ \/ IsPlanning(t) /\ UNCHANGED requests
       \/ requests < MaxRequests /\ requests' = requests + 1
    /\ \E plan \in Plan :
          /\ Valid(t, plan)
          /\ writer' = [writer EXCEPT ![w] =
                [IdleWriter EXCEPT !.pc = "plan", !.task = t, !.plan = plan,
                           !.left = {k \in DOMAIN plan : plan[k] # {}}]]
    /\ UNCHANGED <<files, sweep, faults>>

\* A reference resolved through by_key; an existing id stands for itself.
Resolve(ids, refs) ==
    {IF r \in DOMAIN ids THEN ids[r] ELSE r : r \in refs}

AllCreated(w) == DOMAIN writer[w].ids = DOMAIN writer[w].plan

PlanCreate(w, k, t) ==
    /\ writer[w].pc = "plan"
    /\ k \in DOMAIN writer[w].plan \ DOMAIN writer[w].ids
    /\ Create(t, Created({}, FALSE, writer[w].task))
    /\ writer' = [writer EXCEPT ![w].ids =
          [x \in DOMAIN writer[w].ids \cup {k} |->
              IF x = k THEN t ELSE writer[w].ids[x]]]
    /\ UNCHANGED <<sweep, requests, faults>>

PlanWire(w, k) ==
    LET t == writer[w].ids[k]
        deps == Resolve(writer[w].ids, writer[w].plan[k])
    IN /\ writer[w].pc = "plan"
       /\ AllCreated(w)
       /\ k \in writer[w].left
       /\ node' = IF t \in Existing THEN [node EXCEPT ![t].deps = deps]
                                    ELSE node
       /\ writer' = [writer EXCEPT ![w].left = writer[w].left \ {k}]
       /\ UNCHANGED <<high, sweep, requests, faults>>

PlanJoin(w) ==
    LET t == writer[w].task
    IN /\ writer[w].pc = "plan"
       /\ AllCreated(w)
       /\ writer[w].left = {}
       /\ node' = IF t \in Existing
                  THEN [node EXCEPT ![t] =
                          [@ EXCEPT !.deps = Range(writer[w].ids),
                                    !.planned = TRUE]]
                  ELSE node
       /\ writer' = [writer EXCEPT ![w] = IdleWriter]
       /\ UNCHANGED <<high, sweep, requests, faults>>

-----------------------------------------------------------------------------
(* The orchestrator's `done` (complete_orchestrate_phase), and the roots of *)
(* its graph (dispatch_plan_roots).                                        *)

FinishPlanning(w, t) ==
    /\ writer[w].pc = "idle"
    /\ IsPlanning(t)
    /\ node[t].planned
    /\ node[t].deps # {}
    /\ node' = [node EXCEPT ![t] = [@ EXCEPT !.status = "Todo",
                                            !.phase = "None",
                                            !.active = "closing"]]
    /\ writer' = [writer EXCEPT ![w] = [IdleWriter EXCEPT !.pc = "closing",
                                                         !.task = t]]
    /\ UNCHANGED <<high, sweep, requests, faults>>

PlanClose(w) ==
    LET t == writer[w].task
    IN /\ writer[w].pc = "closing"
       /\ node' = [node EXCEPT ![t].active = IF @ = "closing" THEN "no" ELSE @]
       /\ writer' = [writer EXCEPT ![w].pc = "list"]
       /\ UNCHANGED <<high, sweep, requests, faults>>

Roots(t) ==
    {x \in Id : /\ node[x].parent = t
                /\ node[x].status = "Todo"
                /\ node[x].deps = {}}

RootsList(w) ==
    LET roots == Roots(writer[w].task)
    IN /\ writer[w].pc = "list"
       /\ writer' = [writer EXCEPT ![w] =
             IF roots = {} THEN IdleWriter
             ELSE [@ EXCEPT !.pc = "roots", !.left = roots]]
       /\ UNCHANGED <<files, sweep, requests, faults>>

RootQueue(w, t) ==
    /\ writer[w].pc = "roots"
    /\ t \in writer[w].left
    /\ QueueRun(t)
    /\ writer' = [writer EXCEPT ![w] =
          IF @.left = {t} THEN IdleWriter
          ELSE [@ EXCEPT !.left = writer[w].left \ {t}]]
    /\ UNCHANGED <<high, sweep, requests, faults>>

WriterDies(w) ==
    /\ writer[w].pc # "idle"
    /\ faults < MaxFaults
    /\ faults' = faults + 1
    /\ writer' = [writer EXCEPT ![w] = IdleWriter]
    /\ UNCHANGED <<files, sweep, requests>>

WriterStep(w) ==
    \/ \E t \in Id : \/ \E deps \in SUBSET Id : DependsCheck(w, t, deps)
                     \/ PlanCheck(w, t)
                     \/ FinishPlanning(w, t)
                     \/ RootQueue(w, t)
    \/ DependsWrite(w)
    \/ \E k \in Key, t \in Id : PlanCreate(w, k, t)
    \/ \E k \in Key : PlanWire(w, k)
    \/ PlanJoin(w)
    \/ PlanClose(w)
    \/ RootsList(w)
    \/ WriterDies(w)

-----------------------------------------------------------------------------
(* dispatch_ready_dependents: a list read without the lock, then one       *)
(* queue_run for each of its tasks.                                        *)

IsReadyNode(t) ==
    /\ node[t].status = "Todo"
    /\ node[t].deps # {}
    /\ node[t].active = "no"
    /\ Ready(t)

SweepList(p) ==
    /\ sweep[p] = {}
    /\ \E t \in Id : IsReadyNode(t)
    /\ sweep' = [sweep EXCEPT ![p] = {t \in Id : IsReadyNode(t)}]
    /\ UNCHANGED <<files, writer, requests, faults>>

SweepQueue(p, t) ==
    /\ t \in sweep[p]
    /\ QueueRun(t)
    /\ sweep' = [sweep EXCEPT ![p] = @ \ {t}]
    /\ UNCHANGED <<high, writer, requests, faults>>

SweepStep(p) == SweepList(p) \/ \E t \in Id : SweepQueue(p, t)

-----------------------------------------------------------------------------

TypeOK ==
    /\ node \in [Id -> NodeRecord]
    /\ \A t \in Id : node[t].phase # "None" => node[t].status = "InProgress"
    /\ high \in 0 .. MaxId
    /\ writer \in [Writer -> WriterRecord]
    /\ sweep \in [Sweeper -> SUBSET Id]
    /\ requests \in Nat
    /\ faults \in Nat
    /\ finished \subseteq Id
    /\ late \subseteq Id

Init ==
    /\ node \in {[t \in Id |-> IF t <= InitialTasks
                               THEN Created({}, t \in planners, Nobody)
                               ELSE Gone]
                 : planners \in SUBSET (1 .. InitialTasks)}
    /\ high = InitialTasks
    /\ writer = [w \in Writer |-> IdleWriter]
    /\ sweep = [p \in Sweeper |-> {}]
    /\ requests = 0
    /\ faults = 0
    /\ finished = {}
    /\ late = {}

\* Somebody is about to queue t because of what it read earlier.
Listed(t) ==
    \/ \E p \in Sweeper : t \in sweep[p]
    \/ \E w \in Writer : writer[w].pc = "roots" /\ t \in writer[w].left

History ==
    /\ finished' = {t \in Existing' :
                       \/ t \in finished
                       \/ node'[t].status \in {"Review", "Done"}}
    /\ late' = {t \in Id : /\ Listed(t)'
                           /\ \/ t \in late
                              \/ Listed(t) /\ node'[t].deps # node[t].deps}

Step ==
    \/ \E t \in Id : StartRun(t) \/ RunFinishes(t) \/ RunEnds(t)
    \/ HumanStep
    \/ \E w \in Writer : WriterStep(w)
    \/ \E p \in Sweeper : SweepStep(p)

Next == Step /\ History

Spec == Init /\ [][Next]_vars

\* The pumps sweep on every tick; a run that started ends some day.
Fairness ==
    /\ \A p \in Sweeper : WF_vars(SweepStep(p) /\ History)
    /\ \A t \in Id : /\ WF_vars(StartRun(t) /\ History)
                     /\ WF_vars(RunFinishes(t) /\ History)
                     /\ WF_vars(RunEnds(t) /\ History)

FairSpec == Spec /\ Fairness

-----------------------------------------------------------------------------
(* Properties.                                                             *)

\* The board never holds a dependency cycle, though the search runs on a
\* board read without the lock, plans are wired one edge set at a time, and
\* new tasks are not searched at all.
Acyclic == ~HasCycle(Edges)

\* The AND-join: whatever the board itself queues (a node of the sweep or a
\* root of a plan) has had every one of its present dependencies finished,
\* or they are gone, unless its edges were rewritten behind the list it was
\* queued from.
JoinsAreKept ==
    [][\A t \in Id :
          /\ node[t].phase # "Queued"
          /\ node'[t].phase = "Queued"
          /\ requests' = requests
          /\ t \notin late
          => \A d \in node[t].deps : d \in Existing => d \in finished]_vars

\* A To Do node whose dependencies have all reached Review or Done, or are
\* gone, does not stay there: deleted predecessors and human moves release it
\* like an agent's `done`.
Released(t) ==
    /\ node[t].status = "Todo"
    /\ node[t].deps # {}
    /\ \A d \in node[t].deps : node[d].status \in {"gone", "Review", "Done"}

ReleasedNodeStarts == \A t \in Id : Released(t) ~> ~Released(t)

-----------------------------------------------------------------------------
(* What the code's comments say, and the code does not keep.               *)

\* "A dependency counts as satisfied once its task has reached Review or
\* Done": a node waiting only for such tasks is started, if nobody reopens
\* them.
Reached(t) ==
    /\ node[t].status = "Todo"
    /\ node[t].deps # {}
    /\ node[t].deps \cap Existing \subseteq finished
    /\ \A d \in node[t].deps :
          node[d].status \in {"gone", "Review", "Done", "Archive"}

ReachedNodeStarts == \A t \in Id : Reached(t) ~> ~Reached(t)

\* "A half-submitted plan never launches anything": the board queues a
\* subtask only when its parent has become the join of its plan.
HalfPlanLaunchesNothing ==
    [][\A t \in Id :
          /\ node[t].parent # Nobody
          /\ node[t].phase # "Queued"
          /\ node'[t].phase = "Queued"
          /\ requests' = requests
          => ~\E w \in Writer :
                /\ writer[w].pc = "plan"
                /\ writer[w].task = node[t].parent]_vars
=============================================================================
