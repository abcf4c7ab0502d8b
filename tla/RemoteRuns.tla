----------------------------- MODULE RemoteRuns -----------------------------
(***************************************************************************)
(* Runs that other nodes see (core/sync/run.rs) and steer                  *)
(* (core/sync/control.rs).  Sessions and queue marks stay on the machine   *)
(* that works a task; each write of one publishes a descriptor of the run, *)
(* one per task and node, written by that node alone.  Other nodes answer  *)
(* with the pinned runner, a request to launch there, and stop and rerun   *)
(* commands addressed to a generation of the descriptor.                   *)
(*                                                                         *)
(* A node's segment of the journal is a sequence of operations; the others *)
(* know a prefix of it (Replication says why).  Locked sections are steps; *)
(* a control pass has one step per read and write it makes.                *)
(***************************************************************************)
EXTENDS Integers, Sequences, FiniteSetsExt

CONSTANTS
    Peer,           \* numbers, ordered as node ids are
    Work,           \* tasks: numbers, in the order of the board's listing
    MaxSessions,    \* bound: sessions of a task on one node
    MaxIntents,     \* bound: what humans ask for
    MaxDeaths       \* bound: crashes and kills

VARIABLES
    ops,            \* ops[n]: the operations n wrote, in order
    have,           \* have[n][m]: how many operations of m node n knows
    local,          \* local[n][t]: the fields of a task that stay on n
    walk,           \* walk[n]: the candidate its dispatcher is about to claim
    control,        \* control[n]: its pass over the commands
    receipts,       \* receipts[n]: commands it is done with
    asked, deaths   \* bounds

runVars == <<ops, have, local, walk, control, receipts, asked, deaths>>

Nobody == 0
NoCandidate == 0
NoRun == [gen |-> 0, state |-> "none", start |-> 0]

------------------------------------------------------------------------------
\* What a node knows.

Known(n) == UNION {{<<m, i>> : i \in 1 .. have[n][m]} : m \in Peer}
Op(id) == ops[id[1]][id[2]]
Before(a, b) ==
    \/ Op(a).at < Op(b).at
    \/ Op(a).at = Op(b).at /\ a[1] < b[1]
Clock(n) == Max({0} \cup {Op(id).at : id \in Known(n)})

\* A field of the task: the last write known, whoever made it.
FieldOps(n, t, f) ==
    {id \in Known(n) : Op(id).kind = f /\ Op(id).task = t}
Field(n, t, f, default) ==
    LET writes == FieldOps(n, t, f)
    IN  IF writes = {} THEN default
        ELSE Op(CHOOSE id \in writes :
                    \A other \in writes \ {id} : Before(other, id)).value

Runner(n, t) == Field(n, t, "runner", Nobody)
Requested(n, t) == Field(n, t, "request", FALSE)
TaskClosed(n, t) == Field(n, t, "closed", FALSE)

RunOf(n, t, m) ==
    LET runs == {i \in 1 .. have[n][m] :
                    ops[m][i].kind = "run" /\ ops[m][i].task = t}
    IN  IF runs = {} THEN NoRun ELSE ops[m][Max(runs)].value
Own(n, t) == RunOf(n, t, n)
Active(run) == run.state \in {"queued", "running"}
Foreign(n, t) == {m \in Peer \ {n} : Active(RunOf(n, t, m))}
TopGen(n, t) == Max({RunOf(n, t, m).gen : m \in Peer})

\* The node of the latest of these runs.
Latest(n, t, nodes) ==
    CHOOSE m \in nodes : \A k \in nodes \ {m} :
        \/ RunOf(n, t, k).gen < RunOf(n, t, m).gen
        \/ RunOf(n, t, k).gen = RunOf(n, t, m).gen /\ k < m

------------------------------------------------------------------------------
\* The descriptor that goes with a write.

SessionState(l) ==
    IF l.cur \in DOMAIN l.sessions THEN l.sessions[l.cur] ELSE "none"
Running(l) == SessionState(l) = "active"

StateOf(status) ==
    CASE status = "active"  -> "running"
      [] status = "crashed" -> "failed"
      [] OTHER              -> "finished"

\* Mutant: a run that was not closed yet goes on under its generation.
OnlyAfterTheEnd(old, start) ==
    old = NoRun \/ (old.start # start /\ ~ Active(old))

IsNewRun(old, start) ==
    old = NoRun \/ (old.start # start /\ old.state # "queued")

Descriptor(old, top, start, state) ==
    [gen   |-> IF IsNewRun(old, start) THEN top + 1 ELSE old.gen,
     state |-> state,
     start |-> start]

\* A task was saved; it waits in the queue of this node (here), its queue
\* mark is the one it had (same).
TaskSaved(old, top, here, same, l) ==
    IF here
    THEN IF same /\ old = NoRun THEN old
         ELSE Descriptor(old, top, 0, "queued")
    ELSE IF SessionState(l) = "none"
    THEN IF old.state = "queued" THEN Descriptor(old, top, 0, "finished")
         ELSE old
    ELSE Descriptor(old, top, l.cur, StateOf(SessionState(l)))

\* Mutant: every session speaks for its task.
NeverOutdated(old, s) == FALSE

\* Closing an old session after a new launch must not finish the new run.
IsOutdated(old, s) == old # NoRun /\ old.start # s

\* A session that existed before was saved.
SessionSaved(old, top, l, s) ==
    IF IsOutdated(old, s) THEN old
    ELSE Descriptor(old, top, s, StateOf(l.sessions[s]))

\* A session was linked.
SessionLinked(old, top, s) == Descriptor(old, top, s, "running")

------------------------------------------------------------------------------
\* Writing.

OpOf(kind, t, value) == [kind |-> kind, task |-> t, value |-> value]
Stamped(op, at) ==
    [kind |-> op.kind, task |-> op.task, value |-> op.value, at |-> at]

\* Descriptors one after the other, those that change something.
RunOps(t, old, one, two) ==
    (IF one = old THEN <<>> ELSE <<OpOf("run", t, one)>>)
    \o (IF two = one THEN <<>> ELSE <<OpOf("run", t, two)>>)

SetField(n, t, f, default, value) ==
    IF Field(n, t, f, default) = value THEN <<>> ELSE <<OpOf(f, t, value)>>
Pin(n, t, m) == SetField(n, t, "runner", Nobody, m)
Unrequest(n, t) == SetField(n, t, "request", FALSE, FALSE)

Write(n, new) ==
    LET stamped == [i \in DOMAIN new |-> Stamped(new[i], Clock(n) + i)]
    IN  /\ ops'  = [ops EXCEPT ![n] = @ \o stamped]
        /\ have' = [have EXCEPT ![n][n] = @ + Len(new)]

SetLocal(n, t, l) == local' = [local EXCEPT ![n][t] = l]

NextSession(n, t) == Len(local[n][t].sessions) + 1
HasRoom(n, t) == NextSession(n, t) <= MaxSessions
Linked(l) == [l EXCEPT !.sessions = Append(@, "active")]

\* One save of the task on n with its machine-local fields l, pinned to m,
\* and the fields first in the same transaction.
SaveTask(n, t, l, m, first) ==
    LET same == l.queued = local[n][t].queued
        run  == TaskSaved(Own(n, t), TopGen(n, t), l.queued /\ m = n, same, l)
    IN  /\ SetLocal(n, t, l)
        /\ Write(n, first \o RunOps(t, Own(n, t), run, run))

\* queue_local_run_as, for a node that pinned itself or is pinned.
Queue(n, t, first) ==
    /\ ~ Running(local[n][t]) /\ ~ TaskClosed(n, t)
    /\ SaveTask(n, t, [local[n][t] EXCEPT !.queued = TRUE, !.due = FALSE],
                n, first \o Unrequest(n, t))

\* Save of a session whose status becomes status.
EndSession(n, t, s, status) ==
    LET l == [local[n][t] EXCEPT
                    !.sessions[s] = status,
                    !.owed = IF status = "crashed" THEN @ + 1 ELSE @]
        run == SessionSaved(Own(n, t), TopGen(n, t), l, s)
    IN  /\ SetLocal(n, t, l)
        /\ Write(n, RunOps(t, Own(n, t), run, run))

------------------------------------------------------------------------------
\* Humans on a node.

Ask == asked < MaxIntents /\ asked' = asked + 1
Rest == UNCHANGED <<walk, control, receipts, deaths>>

\* A launch pins its runner, this node, and start_task goes on: the task is
\* saved with a session that has no file yet, which is linked next.  Nothing
\* asks whether another node works it.
StartHere(n, t) ==
    LET old   == Own(n, t)
        named == [local[n][t] EXCEPT !.queued = FALSE, !.due = FALSE,
                                     !.cur = NextSession(n, t)]
        one   == TaskSaved(old, TopGen(n, t), FALSE, FALSE, named)
        two   == SessionLinked(one, Max({TopGen(n, t), one.gen}),
                               named.cur)
    IN  /\ Ask /\ Rest
        /\ ~ Running(local[n][t]) /\ HasRoom(n, t)
        /\ SetLocal(n, t, Linked(named))
        /\ Write(n, Pin(n, t, n) \o Unrequest(n, t)
                    \o SetField(n, t, "closed", FALSE, FALSE)
                    \o RunOps(t, old, one, two))

QueueHere(n, t) == Ask /\ Rest /\ Queue(n, t, Pin(n, t, n))

\* dequeue_task
Dequeued(l) == [l EXCEPT !.queued = FALSE, !.due = FALSE]
DequeueHere(n, t) ==
    /\ Ask /\ Rest
    /\ local[n][t].queued
    /\ SaveTask(n, t, Dequeued(local[n][t]), Runner(n, t), <<>>)

\* stop_task of a run of this node
StopHere(n, t) ==
    /\ Ask /\ Rest
    /\ Running(local[n][t])
    /\ EndSession(n, t, local[n][t].cur, "closed")

\* An edit of the task, which may name another runner.
Repin(n, t, m) ==
    /\ Ask /\ Rest
    /\ SaveTask(n, t, local[n][t], m, Pin(n, t, m))

\* A launch on a runner that cannot be reached: a durable request.
RequestRun(n, t, m) ==
    /\ Ask /\ Rest
    /\ m # n
    /\ SaveTask(n, t, local[n][t], m,
                Pin(n, t, m) \o SetField(n, t, "request", FALSE, TRUE))

\* The task is accepted or put away.
CloseTask(n, t) ==
    /\ Ask /\ Rest
    /\ ~ Running(local[n][t])
    /\ Write(n, SetField(n, t, "closed", FALSE, TRUE))
    /\ UNCHANGED local

\* control::request: the run the command is for.
Targets(n, t, action) ==
    {m \in Peer \ {n} : /\ RunOf(n, t, m) # NoRun
                        /\ Active(RunOf(n, t, m)) \/ action = "rerun"}
GoesAway(n, t, action) ==
    /\ Targets(n, t, action) # {}
    /\ ~ Active(Own(n, t))
    /\ LET m == Latest(n, t, Targets(n, t, action))
       IN  Own(n, t) # NoRun => Own(n, t).gen < RunOf(n, t, m).gen
Command(n, t, action) ==
    LET m == Latest(n, t, Targets(n, t, action))
    IN  OpOf("command", t, [node |-> m, gen |-> RunOf(n, t, m).gen,
                            action |-> action])

Steer(n, t, action) ==
    /\ Ask /\ Rest
    /\ GoesAway(n, t, action)
    /\ Write(n, <<Command(n, t, action)>>)
    /\ UNCHANGED local

HumanStep ==
    \E n \in Peer, t \in Work :
        \/ StartHere(n, t)
        \/ QueueHere(n, t)
        \/ DequeueHere(n, t)
        \/ StopHere(n, t)
        \/ CloseTask(n, t)
        \/ \E m \in Peer : Repin(n, t, m) \/ RequestRun(n, t, m)
        \/ \E action \in {"stop", "rerun"} : Steer(n, t, action)

------------------------------------------------------------------------------
\* The dispatcher of a node.

Requests(n) == {t \in Work : Requested(n, t) /\ Runner(n, t) = n}

\* Requests are queued first, in the order of the listing; one that cannot be
\* queued ends the whole pass.
AcceptRequest(n) ==
    /\ Requests(n) # {} /\ walk[n] = NoCandidate
    /\ Queue(n, Min(Requests(n)), <<>>)
    /\ UNCHANGED <<asked, walk, control, receipts, deaths>>

\* A candidate nobody else works, as far as this node knows.
Choose(n, t) ==
    /\ Requests(n) = {} /\ walk[n] = NoCandidate
    /\ local[n][t].queued /\ ~ local[n][t].due /\ ~ TaskClosed(n, t)
    /\ Foreign(n, t) = {} /\ Runner(n, t) = n
    /\ HasRoom(n, t)
    /\ walk' = [walk EXCEPT ![n] = t]
    /\ UNCHANGED <<ops, have, local, control, receipts, asked, deaths>>

MayClaim(n, t) ==
    /\ local[n][t].queued /\ ~ local[n][t].due /\ ~ TaskClosed(n, t)
    /\ Runner(n, t) = n
    /\ ~ Running(local[n][t]) /\ HasRoom(n, t)

\* claim_queued_task links the session before it saves the task; a dispatcher
\* killed in between leaves the session behind.
Claim(n, killed) ==
    LET t   == walk[n]
        old == Own(n, t)
        s   == NextSession(n, t)
        one == SessionLinked(old, TopGen(n, t), s)
        l   == IF killed THEN Linked(local[n][t])
               ELSE [Linked(local[n][t]) EXCEPT !.queued = FALSE, !.cur = s]
        two == TaskSaved(one, Max({TopGen(n, t), one.gen}), FALSE, FALSE, l)
    IN  /\ t # NoCandidate /\ MayClaim(n, t)
        /\ killed => deaths < MaxDeaths
        /\ SetLocal(n, t, l)
        /\ Write(n, RunOps(t, old, one, IF killed THEN one ELSE two))
        /\ walk' = [walk EXCEPT ![n] = NoCandidate]
        /\ deaths' = IF killed THEN deaths + 1 ELSE deaths
        /\ UNCHANGED <<asked, control, receipts>>

GiveUpClaim(n) ==
    /\ walk[n] # NoCandidate /\ ~ MayClaim(n, walk[n])
    /\ walk' = [walk EXCEPT ![n] = NoCandidate]
    /\ UNCHANGED <<ops, have, local, control, receipts, asked, deaths>>

\* due_restarts
Restart(n, t) ==
    /\ local[n][t].due /\ ~ TaskClosed(n, t) /\ Foreign(n, t) = {}
    /\ SaveTask(n, t, [local[n][t] EXCEPT !.due = FALSE, !.queued = TRUE],
                Runner(n, t), <<>>)
    /\ UNCHANGED <<walk, control, receipts, asked, deaths>>

\* An agent ends.
AgentEnds(n, t, s) ==
    /\ s \in DOMAIN local[n][t].sessions
    /\ local[n][t].sessions[s] = "active"
    /\ EndSession(n, t, s, "closed")
    /\ UNCHANGED <<walk, control, receipts, asked, deaths>>

\* A session is found crashed; whoever found it owes its task a restart.
Crash(n, t, s) ==
    /\ s \in DOMAIN local[n][t].sessions
    /\ local[n][t].sessions[s] = "active"
    /\ deaths < MaxDeaths /\ deaths' = deaths + 1
    /\ EndSession(n, t, s, "crashed")
    /\ UNCHANGED <<walk, control, receipts, asked>>

\* schedule_crash_restart, where the budget allows one (retry): whether the
\* run that crashed is still the task's own is not asked.
Schedule(n, t, retry) ==
    LET paid == [local[n][t] EXCEPT !.owed = @ - 1]
    IN  /\ paid.owed >= 0
        /\ IF retry /\ ~ paid.due /\ ~ TaskClosed(n, t)
           THEN SaveTask(n, t, [paid EXCEPT !.due = TRUE, !.queued = TRUE],
                         Runner(n, t), <<>>)
           ELSE SetLocal(n, t, paid) /\ UNCHANGED <<ops, have>>
        /\ UNCHANGED <<walk, control, receipts, asked, deaths>>

------------------------------------------------------------------------------
\* control::process

Idle == [step |-> "idle", todo |-> {}, cur |-> 0, queued |-> FALSE,
         open |-> FALSE]

Commands(n) ==
    {id \in Known(n) : /\ Op(id).kind = "command"
                       /\ Op(id).value.node = n
                       /\ id \notin receipts[n]}
First(todo) == CHOOSE id \in todo : \A other \in todo \ {id} : Before(id, other)

ControlOnly == UNCHANGED <<walk, asked, deaths>>
Goes(n, step) == control' = [control EXCEPT ![n].step = step]

BeginControl(n) ==
    /\ control[n].step = "idle" /\ Commands(n) # {}
    /\ control' = [control EXCEPT ![n] =
                    [Idle EXCEPT !.step = "check", !.todo = Commands(n)]]
    /\ UNCHANGED <<ops, have, local, receipts>> /\ ControlOnly

\* A command is for one generation of the run of this node.
IsCurrent(n, id) == Own(n, Op(id).task).gen = Op(id).value.gen

CheckCommand(n) ==
    /\ control[n].step = "check"
    /\ Goes(n, IF IsCurrent(n, First(control[n].todo))
               THEN "read" ELSE "receipt")
    /\ UNCHANGED <<ops, have, local, receipts>> /\ ControlOnly

ReadTask(n) ==
    LET id == First(control[n].todo)
        t  == Op(id).task
        l  == local[n][t]
        pin == Op(id).value.action = "rerun" /\ Runner(n, t) # n
    IN  /\ control[n].step = "read"
        /\ control' = [control EXCEPT
                ![n] = [@ EXCEPT !.step = IF pin THEN "pin" ELSE "act",
                                 !.cur = l.cur, !.queued = l.queued,
                                 !.open = ~ TaskClosed(n, t)]]
        /\ UNCHANGED <<ops, have, local, receipts>> /\ ControlOnly

\* pin_runner
PinHere(n) ==
    LET t == Op(First(control[n].todo)).task
    IN  /\ control[n].step = "pin"
        /\ Goes(n, "act")
        /\ SaveTask(n, t, local[n][t], n, Pin(n, t, n))
        /\ UNCHANGED receipts /\ ControlOnly

\* stop_session of the session that was read, or, for a task without one,
\* dequeue_task: a task that left the queue meanwhile is an error that ends
\* the pass.
ObeyStop(n, t) ==
    LET c == control[n]
        l == local[n][t]
    IN  IF c.cur # 0 \/ ~ c.queued
        THEN /\ IF c.cur \in DOMAIN l.sessions /\ l.sessions[c.cur] = "active"
                THEN EndSession(n, t, c.cur, "closed")
                ELSE UNCHANGED <<ops, have, local>>
             /\ Goes(n, "receipt")
        ELSE IF l.queued
        THEN /\ SaveTask(n, t, Dequeued(l), Runner(n, t), <<>>)
             /\ Goes(n, "receipt")
        ELSE /\ UNCHANGED <<ops, have, local>>
             /\ control' = [control EXCEPT ![n] = Idle]

\* rerun_in_progress_task asks the node that has a later run, or goes on.
ObeyRerun(n, t) ==
    IF control[n].open /\ GoesAway(n, t, "rerun")
    THEN Write(n, <<Command(n, t, "rerun")>>)
         /\ UNCHANGED local /\ Goes(n, "receipt")
    ELSE /\ Goes(n, IF control[n].open THEN "requeue" ELSE "receipt")
         /\ UNCHANGED <<ops, have, local>>

\* Its locked section, queued: a task that runs, or never had a session here,
\* stays as it is.
Requeue(n) ==
    LET t == Op(First(control[n].todo)).task
        l == local[n][t]
    IN  /\ control[n].step = "requeue"
        /\ Goes(n, "receipt")
        /\ IF TaskClosed(n, t) \/ Running(l) \/ l.cur = 0
           THEN UNCHANGED <<ops, have, local>>
           ELSE SaveTask(n, t, [l EXCEPT !.queued = TRUE, !.due = FALSE,
                                         !.cur = 0],
                         Runner(n, t), <<>>)
        /\ UNCHANGED receipts /\ ControlOnly

Obey(n) ==
    LET id == First(control[n].todo)
    IN  /\ control[n].step = "act"
        /\ IF Op(id).value.action = "stop"
           THEN ObeyStop(n, Op(id).task) ELSE ObeyRerun(n, Op(id).task)
        /\ UNCHANGED receipts /\ ControlOnly

Receipt(n) ==
    LET id   == First(control[n].todo)
        left == control[n].todo \ {id}
    IN  /\ control[n].step = "receipt"
        /\ receipts' = [receipts EXCEPT ![n] = @ \cup {id}]
        /\ control' = [control EXCEPT ![n] =
                        IF left = {} THEN Idle
                        ELSE [Idle EXCEPT !.step = "check", !.todo = left]]
        /\ UNCHANGED <<ops, have, local>> /\ ControlOnly

\* The process that holds runner-control.lock dies; the next pass starts over.
ControlDies(n) ==
    /\ control[n].step \notin {"idle", "check"} /\ deaths < MaxDeaths
    /\ deaths' = deaths + 1
    /\ control' = [control EXCEPT ![n] = Idle]
    /\ UNCHANGED <<ops, have, local, receipts, walk, asked>>

ControlStep(n) ==
    \/ BeginControl(n) \/ CheckCommand(n) \/ ReadTask(n) \/ PinHere(n)
    \/ Obey(n) \/ Requeue(n) \/ Receipt(n)

\* Replication brings the next operation of m.
Receive(n, m) ==
    /\ have[n][m] < Len(ops[m])
    /\ have' = [have EXCEPT ![n][m] = @ + 1]
    /\ UNCHANGED <<ops, local, walk, control, receipts, asked, deaths>>

------------------------------------------------------------------------------
Fresh == [queued |-> FALSE, due |-> FALSE, cur |-> 0, sessions |-> <<>>,
          owed |-> 0]

\* Where it starts: nobody has worked a task, or node m runs task t and all
\* know it.
RunsAt(m, t) ==
    <<Stamped(OpOf("runner", t, m), 1),
      Stamped(OpOf("run", t, [gen |-> 1, state |-> "running", start |-> 1]), 2)>>

RunInit ==
    /\ \/ /\ ops = [n \in Peer |-> <<>>]
          /\ local = [n \in Peer |-> [t \in Work |-> Fresh]]
       \/ \E m \in Peer, t \in Work :
             /\ ops = [n \in Peer |-> IF n = m THEN RunsAt(m, t) ELSE <<>>]
             /\ local = [n \in Peer |-> [u \in Work |->
                    IF n = m /\ u = t
                    THEN [Linked(Fresh) EXCEPT !.cur = 1] ELSE Fresh]]
    /\ have = [n \in Peer |-> [m \in Peer |-> Len(ops[m])]]
    /\ walk = [n \in Peer |-> NoCandidate]
    /\ control = [n \in Peer |-> Idle]
    /\ receipts = [n \in Peer |-> {}]
    /\ asked = 0 /\ deaths = 0

AgentStep ==
    \E n \in Peer, t \in Work, s \in 1 .. MaxSessions :
        AgentEnds(n, t, s) \/ Crash(n, t, s)

DispatchStep(n) ==
    \/ AcceptRequest(n)
    \/ \E t \in Work :
          \/ Choose(n, t) \/ Restart(n, t)
          \/ \E retry \in BOOLEAN : Schedule(n, t, retry)
    \/ Claim(n, FALSE) \/ GiveUpClaim(n)

RunNext ==
    \/ HumanStep \/ AgentStep
    \/ \E n \in Peer :
          \/ DispatchStep(n) \/ Claim(n, TRUE)
          \/ ControlStep(n) \/ ControlDies(n)
          \/ \E m \in Peer \ {n} : Receive(n, m)

RunSpec == RunInit /\ [][RunNext]_runVars

------------------------------------------------------------------------------
\* What a node publishes is what it does, in whatever order old and new
\* sessions are saved (run::capture): the run of the current session is
\* published as running, and what is published as active waits or runs.
DescriptorTellsRun ==
    \A n \in Peer, t \in Work :
        LET l == local[n][t]
            run == Own(n, t)
        IN  /\ Running(l) /\ ~ l.queued => run.state = "running" /\ run.start = l.cur
            /\ Running(l) => Active(run)
            /\ run.state = "queued" => l.queued
            /\ run.state = "running" => l.sessions[run.start] = "active"

\* A generation of a node stands for one session at most (run::capture): a
\* command, which names a generation (control::process), can only mean that one.
GenerationNamesOneSession ==
    \A n \in Peer : \A i, j \in DOMAIN ops[n] :
        LET a == ops[n][i]
            b == ops[n][j]
        IN  /\ a.kind = "run" /\ b.kind = "run" /\ a.task = b.task
            /\ a.value.gen = b.value.gen
            /\ a.value.start # 0 /\ b.value.start # 0
            => a.value.start = b.value.start

\* code::duplicate_run.
Duplicate(n, t) ==
    Cardinality({m \in Peer : /\ RunOf(n, t, m) # NoRun
                              /\ RunOf(n, t, m).gen = TopGen(n, t)}) > 1
\* Two nodes that work a task at once are a duplicate where everything is known
\* (docs/sync.md:1848).  The code does not have this: a node that knows of the
\* other's run starts one of a later generation.
DoubleRunsAreSeen ==
    \A n \in Peer, t \in Work :
        (/\ \A m \in Peer : have[n][m] = Len(ops[m])
         /\ Cardinality({m \in Peer : Running(local[m][t])}) > 1)
        => Duplicate(n, t)
=============================================================================
