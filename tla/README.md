# kanban4ai in TLA+

kanban4ai is a task board whose tasks are worked by coding agents. A board is a
directory of files; the `kanban` command, a terminal UI, a daemon, an HTTP
server and the wrapper around each agent process all read and write those files,
one advisory lock per board keeping single read-modify-writes apart. There is no
central process: every tick of a TUI, every `kanban check-sessions`, every
daemon tick and every agent exit may reap dead runs, restart crashed ones and
start queued ones. Several machines may keep replicas of one board, joined by a
server.

The models cover what runs, when and how often; the task graph that decides what
may run next; on which model, and what an empty quota does; who pumps a board; what the screen shows of it; how an agent's work
comes back into the user's folder; how board files become operations, how these
travel and merge; and how machines see and steer each other's runs. Paths are
relative to `src/src/core/` unless they say otherwise; `PROJECT.json` gives the
lines of every definition.

## 1. Inventory

| component | state it keeps | operations | what is hard |
|---|---|---|---|
| board records (`models.rs`, `session.rs`, `storage.rs`) | task files (status, run phase, session, budgets, edges), session files (status, heartbeat, wait) | create, save, delete, link, close, crash, mint an id | ids are max + 1; a record is read under one lock and used under the next |
| run lifecycle (`operations.rs`) | nothing of its own | start, queue, dequeue, stop, recover, move, done, waiting, verdict, design hand-over, agent exit, resume, wake | handlers that take the lock two or three times; human commands in between |
| queue dispatcher (`scheduler.rs`) | nothing of its own; a pass remembers a census and a candidate list | reap, due restarts, walk, claim, launch, back-off | any number of passes at once with stale lists; caps; death between claim and launch |
| pump loop (`daemon.rs`) | per-process quiet memory, `pump.lock` | tick, pump a board, skip a quiet one | a stamp taken after the pump acted; one holder for all |
| agent wrapper (`../agent/`) | the agent process | launch, heartbeat, exit report | dies or hangs at any point |
| task graph (`graph.rs`, `operations.rs`) | `depends_on`, `parent_task`, `orchestrated` | depends, create, plan, orchestrator's done, readiness sweep, `find_cycle` | checks without the lock; plans wired one lock at a time; edges that outlive their task |
| worktrees and landing (`vcs.rs`, `operations.rs`) | worktrees, branches, the integration ref, integration state of a task | create, reuse, land, conflict, resolve, defer, clean up, rebaseline | people edit the folder meanwhile; kills between git steps; a conflict that returns |
| sync journal (`sync.rs`, `sync/segments.rs`, `sync/drift.rs`) | segment of this node, redo record, drift index | commit, recover, scan, absorb, read to send | kills between any two writes; edits behind the journal |
| merge (`sync/projection.rs`, `sync/prune.rs`, `sync/apply.rs`) | clocks, field versions, deletions, conflicts | edit, delete, apply, take the other version | any order, any batches, clocks that differ |
| replication (`sync/transport.rs`, `sync/hub.rs`, `../cli/serve/sync.rs`) | logs per origin, hub log, cursors, snapshots, prune state | hello, push, pull, stream, snapshot, prune | loss, repetition, late requests, power loss, absent clients |
| remote runs (`sync/run.rs`, `sync/control.rs`) | run descriptors, runner pin, requests, commands and receipts | publish, request, stop or rerun elsewhere | stale generations, locked pieces, repeated delivery |
| terminal UI (`../tui/`) | the snapshot on screen, pending moves, a tick worker | tick, reload, move cards | snapshots and reports in any order |
| executor pools and limits (`executors.rs`, `limits.rs`, `limit_share.rs`) | quota snapshots, a park on the task with its question | choose a candidate, park, wake, answer, fail over | stale snapshots; an answer, a deadline and a claim that race |
| questions and auto mode (`thread.rs`, `auto_mode.rs`, `../agent/arbiter.rs`) | threads | ask, answer, arbitrate | an answer racing an exit |
| server, pairing (`../cli/serve/`) | peers, tokens, transfers | pair, serve, hand code over | retries, late answers |
| backups, trash, configuration, statistics, telemetry, update check, notifications | files of their own | | mostly I/O; the board decides little by them |
| command line (`../cli/mod.rs`) | | the human's and the agent's commands | |

**How they interact.** On one machine everything goes through the board files. An
operation calls the session manager and the storage under the board lock, lets
the lock go, and launches an agent outside it; the agent calls the same
operations with its session id; its wrapper beats for it and reports its exit;
pumps poll. The graph feeds the queue, the queue feeds runs, runs that finish
feed the graph, and an isolated run lands before its task reaches Review. Every
locked write of a synchronized board is also a commit of the journal. A sync
worker reads the journal, exchanges operations with the server and applies what
comes; applying writes the same board files. Session files and queue marks do not
replicate: other machines see descriptors of runs and answer with commands.

**What makes each part correct.**

- One run per task; a claim never exceeds the cap; budgets are never overspent; a
  finished task is left alone; dead runs end; the queue drains.
- The graph stays acyclic; an AND-join waits for its last predecessor; what is
  released starts. The search finds a cycle exactly when there is one.
- Skipping a quiet board hides no work; the screen neither goes back nor stays
  behind.
- No edit in the folder is overwritten, no unlanded work is removed, a conflict
  ends, a landed task is cleaned up.
- What the index calls clean is in the journal, once; what was sent stays; every
  edit gets there.
- Replicas grow, a cursor never passes what was applied, pruning drops only what
  everyone has, all converge; same operations mean the same task; a lost version
  is a reported conflict, a reported conflict is a real one.
- A park ends by itself, and an answer to it is final; a failover goes forward.
- A descriptor tells the truth about its node's run; a generation means one
  session.

The hazards behind these, each at its line, are in `PROJECT.json`.

## 2. Modules

| module | models | state |
|---|---|---|
| `TaskBoard` | the two kinds of record and the locked helpers everything else is built from | `task`, `session`, `faults` (bound), `overlap` (history) |
| `Dispatcher` | `wake_expired_waits`, `check_sessions`, `due_restarts`, `dispatch_queue`, `claim_queued_task` as any number of `Pump`s run them | `pump` |
| `AgentRuns` | one process per session with its commands, the bot review and the design hand-over inside `done`, and `reconcile_agent_exit` | `run` |
| `TaskLifecycle` | composes the three with the humans' commands; states the lifecycle properties | `start`, `requests` (bound), `stopped` (history) |
| `Cycles`, `CycleSearch` | what a cycle is; `find_cycle`, one action per turn of its loop | `edges`, `stack`, `left`, `done`, `path`, `verdict` |
| `DependencyGraph` | the task graph and every command that writes or reads it; uses `Cycles` | `node`, `high`, `writer`, `sweep`, bounds, `finished` and `late` (history) |
| `PumpSharing` | the shared tick: `pump.lock`, its stamp, the quiet memory, deadlines, backstop | `holder`, `lockFile`, `pumps`, `work`, `deaths` (bound) |
| `BoardView` | what the TUI shows: snapshots of the tick worker, reloads, the overlay of pending moves | `files`, `view`, `overlay`, `refresh`, `worker`, `moves`, bounds |
| `Landing` | worktrees, `land_task_branch` step by step, conflicts, resolvers, put-off cleanup, rebaselining | `folder`, `commits`, `ref`, `jobs`, `auto`, `landing`, `made`, `faults` |
| `Journal` | a commit (redo, file, segment, index, close), recovery, the drift scan, absorbing, reading to send | `disk`, `segment`, `drift`, `redo`, `tx`, `sent`, bounds |
| `Merge` | hybrid clocks, last writer wins, deletion clocks, the conflict list incremental and recomputed, taking the other version | `wall`, `hlc`, `written`, `log`, `field`, `life`, `conf`, `warm`, bound |
| `ReplicatedSet` | abstract: replicas are growing sets of operations | `known`, `kept` |
| `Replication` | server and clients: logs per origin, hub log, cursors, push, pages, stream, snapshot, prune, maintenance | `log`, `ahead`, `synced`, `compacted`, `hub`, `registry`, `file`, `link`, `strays`, bounds, `absent` (history) |
| `RemoteRuns` | descriptors of runs, pins and requests, the dispatcher's check for foreign runs, stop and rerun commands and the pass that obeys them | `ops`, `have`, `local`, `walk`, `control`, `receipts`, bounds |
| `ExecutorPools` | a planned node on a pool of models: the walk before a launch, the park and its question, deadline, answers, failover and back-off | `quota`, `seen`, `held`, `plannode`, `question`, `answer`, `report`, `failovers`, `cause`, `answered`, `stray` (history) |
| `MCTaskLifecycle`, `MCReplication`, `MCLanding` | model-checking instances of one module | |
| `MCSweeps`, `MCWorkstation`, `MCExchange` | several modules in one run, see below | `focus` |
| `LifecycleProofs` | proofs about the lifecycle | |
| `SweepProofs` | proofs about `PumpSharing`, `ExecutorPools`, `DependencyGraph` and `CycleSearch` | |
| `WorkstationProofs` | proofs about `BoardView` and `Landing` | |
| `JournalProofs`, `MergeProofs`, `ReplicationProofs`, `RemoteRunsProofs` | proofs about `Journal`, `Merge`, `Replication`, `RemoteRuns` | |
| `Extremes` | lemmas: least and greatest elements of sets of numbers | |

**Steps.** A locked section is one action. A handler that lets go of the lock
and takes it again is as many actions as it has sections, with a program counter
(`pump[p].pc`, `run[s].pc`, `start[h].pc`, `writer[w].pc`, `control[n].step`)
that says which comes next and fields for what it read earlier. So an agent's
`done` that ends in a bot review is `ExecutorDone` (the section of
`complete_task`), `CloseOwn` (`close_session`), `ReviewClaim` (the section of
`start_bot_review`) and `ChildLaunch` (`finish_launch`), and anything may happen
between them. Where a kill or an unlocked writer can hit inside a section
(`Journal`, `Landing`, `Replication`, `RemoteRuns!Claim`), the section is cut at
every write to disk.

**Names.** Record fields keep the meaning of the code's: `phase` is `run_phase`,
`restart` is `restart_at`, `crashes` is `crash_restarts`, `resumes` is
`auto_resumes`, `rounds` is `review_rounds`, `deps` is `depends_on`, `planner` is
`use_orchestrator`, `planned` is `orchestrated`. Times are abstracted to what the
code compares them with: a heartbeat is fresh or stale, a wait is open or over, a
deadline is later or due (`FallSilent`, `WaitDeadline`, `RestartDeadline` and the
`Clock` of `PumpSharing` are the passing of time). A file stamp is a number of
writes or whether it still stands; a file's content in `Landing` is the set of
edits it has taken in; an operation in `Replication` is its origin, its number
and an id for the rest.

**Pumps.** In `Dispatcher` a pass is a fixed sequence of sections. A section that
finds nothing writes nothing and remembers nothing, and a pump may be held up
between two sections for any time, so a pump between two sections is idle and may
enter any section that has work: every execution of the fixed sequence is an
execution of the model. `PumpSharing` has the sequence itself, with what a
section does to a task reduced to whether work is left.

**Pools.** In `ExecutorPools` the walk of the pool is part of the action it is
called from (`ClaimParks`, `ClaimStarts`, `ClaimFull`, `HumanRuns`), as
`apply_executor_pool` writes the task in memory and its caller saves it. The
answer is two sections, `AnswerProvider` and `ResumeAnswered`, the second fenced
on the session the first saw (`Outrun`).

**Composition.** `TaskLifecycle` composes modules that share state. `MCSweeps`,
`MCWorkstation` and `MCExchange` put side by side components that share none in
the models: `focus` picks one at the start and the behaviour is one of that
component alone (an interleaving of strangers would only multiply states). In
`MCExchange` the two nodes of `RemoteRuns` are the two replicas of `Merge`.

**Refinement.** `Replication!Abstract` instantiates `ReplicatedSet` with what a
node holds (`known`) and what of it survives a loss of power (`kept`);
`ReplicasOnlyGrow` says that every behaviour of the protocol is one of the
abstract specification. Cursors, the hub log, snapshots and pruning disappear:
pruned operations still count as taken in.

**History variables** never appear in a guard. `overlap` holds the tasks given a
run while another was active by one of the two hand-overs that do not ask (the
second lock of `start_task`, and `start_bot_review`); `stopped` the sessions a
human stopped; `finished` the tasks that once reached Review or Done; `late` the
tasks whose edges were rewritten after a sweep listed them; `failovers`, `cause`,
`answered` and `stray` what became of a node on a pool; `absent` the clients
that were away for too long; `made` every edit; `seen` in `Merge` what an author
knew when it wrote.

**Mutants.** Operators marked `Mutant:`, and those `PROJECT.json` lists as `as`,
are not part of the model. Each is a plausible wrong version of the definition
after it, used to show that a property fails when the code is wrong there.

## 3. Runs

| run | instance | properties | shows |
|---|---|---|---|
| `caps` | 2 tasks, 4 sessions, 2 pumps, cap 1, 1 restart | `CrashBudget`, `ClaimWithinCap` | pumps that walk the same queue with stale lists never exceed the cap and charge a crash once |
| `lifecycle` | 1 task, 4 sessions, 1 pump, 1 starter, designer and reviewer on, 1 resume, 1 fault | `TypeOK`, `OneRunPerTask`, `ResumeBudget`, `FinishedStaysFinished` | the hand-overs between designer, executor, reviewer, resume and wake against a human who acts in between |
| `live` | 2 tasks, 3 sessions, 1 pump, cap 1, 1 fault | `DeadRunIsReaped`, `QueuedTaskLeavesQueue` | under fairness dead runs end and the queue drains, whatever one process dies in the middle of |
| `sweeps` | pumps: 2 processes that share `pump.lock`, 1 death; graph: ids 1..3 (2 tasks at first), plans of up to 2 nodes, 1 writer, 1 sweeper, 2 human requests, 1 kill, ids remembered; pool: 2 candidates, 1 slot, 1 crash restart | `QuietHidesNoQueuedTask`, `WorkIsFound`, `Acyclic`, `JoinsAreKept`, `ReleasedNodeStarts`, `FirstToComeWins`, `ParkEnds` | skipping a quiet board hides nothing for good; plans, edges, deletions and moves keep the board acyclic, the sweep queues no task whose join is open and starts every task that is released; a park ends, and an answer to it stands |
| `replication` | 1 server, 1 client with its worker, 3 operations, 1 fault | `CursorBehindApplied`, `PrunedIsReceived`, `ReplicasOnlyGrow`, `Converges` | lost and late requests, broken streams, power loss and a long absence: cursors stay behind, nothing is pruned too early, the abstract set is implemented, the ends converge |
| `workstation` | journal: 2 paths, 3 writes, 2 kills; screen: 2 cards, 1 edit, 1 bulk move; landing: 1 task, 1 file, 3 edits, 1 fault | `CleanIsJournaled`, `NoChangeTwice`, `SentIsNeverWithdrawn`, `EditsAreJournaled`, `ScreenCatchesUp`, `ConflictsEnd`, `LandedIsCleaned` | what one machine promises to finish is finished, whatever is killed |
| `exchange` | merge: 2 replicas, 2 values, 4 operations; landing: 2 tasks, 2 edits, 1 fault; screen: 2 moves;  remote runs: 2 nodes, 1 task, 2 sessions each, 2 intents or one and a fault; search: every graph on 3 tasks and 1 unknown id | `SameOpsSameTask`, `ConflictsAreRecomputable`, `LossIsReported`, `OnlyConcurrentVersionsConflict`, `FolderKeepsEdits`, `UnlandedWorkIsKept`, `SettledOnce`, `ScreenNeverGoesBack`, `PendingMovesAreShown`, `DescriptorTellsRun`, `GenerationNamesOneSession`, `NoneMissed`, `CycleIsReal`, `NothingTwice` | safety where several actors meet; the search is right, ends, and takes linear time |
| `start_race` | 2 starters | `StartRefusesRunning` (violated) | finding 1 |
| `two_links` | 1 client, its worker and a command | `CursorBehindApplied` (violated) | finding 2 |
| `lost_rerun` | 1 task that is run again after it landed | `UnlandedWorkIsKept` (violated) | finding 3 |
| `endless_conflict` | a resolver that leaves the commit to the landing | `ConflictsEnd` (violated) | finding 4 |
| `endless_failover` | a pool of 2; a 429 of the first candidate does not reach the snapshot | `FailoversBounded` (violated) | finding 5 |

`CHECK_DEADLOCK` is off where people or editors stop at a bound and the system
may rest; in `replication` the links go round for ever and deadlock is checked.

**What the properties say.**

- `OneRunPerTask`: no session other than a task's current one is active. It ties
  the census, which looks at current sessions only, to the processes that really
  run. Tasks in `overlap` are exempt, and only they: the code has exactly two
  places that give a task a second run (finding 1 and the hazard at
  `start_bot_review`), and the theorem shows that there is no third.
- `CrashBudget`: restarts charged, plus one while a deadline is pending, never
  exceed the schedule, although several pumps and wrappers report one crash.
  `ResumeBudget`: two paths read the budget before the lock they spend it under.
- `ClaimWithinCap`: measured inside the claim, so an action property of claims. A
  census may exceed the cap otherwise (a human's start ignores it, and a silent
  run that beats again is counted again).
- `FinishedStaysFinished`: only human requests change a task in Review or Done.
- `JoinsAreKept`: a predecessor counts when it once finished, as the sweep may
  queue on a reading that was true when it was made.
- `QuietHidesNoQueuedTask` is the strict promise of `settle`; `WorkIsFound` is
  what remains for everything the stamp can miss: the backstop.
- `NothingTwice`: every turn of `find_cycle`'s loop explores something for the
  first time, so the search ends, and paths that meet again cost nothing.
- `FirstToComeWins`: once a human has named a provider, no deadline, claim or late
  limit report gives the node back to its pool, and the claim and the answer's own
  wake never start it both. `ParkEnds` is about the stale snapshot: nobody has to
  poll, as a reading past its own reset does not count any more.
- `ScreenNeverGoesBack`, `PendingMovesAreShown`, `ScreenCatchesUp`: late
  snapshots, two moves of a card, refused moves.
- `FolderKeepsEdits`: no step takes an edit out of the folder, a person's or an
  earlier landing's. `UnlandedWorkIsKept`: what an agent made is in the folder,
  its checkout or its branch until a person accepts the task. `SettledOnce`,
  `ConflictsEnd`: a resolution is seen by the next landing.
- `CleanIsJournaled`, `NoChangeTwice`, `SentIsNeverWithdrawn`,
  `EditsAreJournaled`: recovery neither loses nor repeats nor takes back.
- `CursorBehindApplied`: both the client's cursor and what the server believes of
  it. `PrunedIsReceived`: an operation stays wherever it is until each client
  that is not gone for good has it.
- `SameOpsSameTask`: a join. `ConflictsAreRecomputable`: the incremental list is
  the full one. `LossIsReported` compares with what authors had really seen,
  which the code does not record, and asks a replica for what they had.
- `DescriptorTellsRun`: the run of the current session is published as running,
  what is published as queued waits, as running runs. `GenerationNamesOneSession`:
  what a stop names is one session, whatever was queued, dequeued, restarted or
  claimed by a dispatcher that died half-way.

**Findings**, each with the text it contradicts in `PROJECT.json`. (1) Two
concurrent starts give a task two runs. (2) A sync command next to the worker of
the same client installs an older snapshot under a newer cursor. (3) A task run
again after its landing loses uncommitted work to the cleanup of the first. (4) A
resolution that equals the branch is never committed as a merge, and conflicts
for ever. (5) A run that fails over from a limit the snapshot does not show is
put back on the exhausted model by the next claim, for ever and free of charge.

### Disagreements without a run of their own

Each can be reproduced with the definitions that are here.

- `TaskLifecycle!QueuedOwnsNoRun`: a task in phase `queued` may own a live run (2
  pumps, 1 fault). `TaskLifecycle!StopWins`: a stop between the exit handler's
  reading and its respawn is undone.
- `DependencyGraph!HalfPlanLaunchesNothing`: part of a plan may start before the
  plan is complete. `ReachedNodeStarts`: archiving a finished predecessor blocks
  its dependents. `Acyclic` with `Synced = FALSE`: deleting the newest task and
  creating one with dependencies can close a cycle, as ids are minted again.
- `CleanIsJournaled` with `EditorsWait = FALSE`: an edit between the absorbing
  read and the commit, or after a kill, is taken for the program's own
  (`docs/sync.md:1329`).
- `Merge!DeletionConflictsAreConcurrent`: an edit by an author who had seen the
  deletion is reported as a conflict with it (`docs/sync.md:622`).
- `PumpSharing`: "While both hold, pumping again cannot act" (`daemon.rs`) does
  not hold for changes between a section and the stamp; the backstop finds them,
  which is `WorkIsFound`.
- `BoardView!OneWorkerPerCard` with `BulkMoves`: a card may have two launch
  workers, one by itself and one in a bulk move (`tui/app.rs:4155`).
- `RemoteRuns!DoubleRunsAreSeen`: a start does not look at other nodes'
  descriptors, so a second run gets a later generation and no duplicate is
  reported (`docs/sync.md:785`, `:1848`).
- Also seen while modelling `RemoteRuns`: `process_with` compares the generation
  before it reads the task, so a stop can end the run after; a task queued again
  before anything started keeps its old generation; a stop of a queued task whose
  old session is closed does nothing; a request that cannot be queued ends every
  pass of its board's dispatcher; a crash of a session left behind schedules a
  restart of a task whose current run is alive.

- `ExecutorPools!ParkIsFree`: the answer "Wait for the quota window" closes the
  question by which `due_restarts` knows a park, so its deadline is charged as a
  crash; so is a park whose deadline falls due between `due_restarts` and a walk
  that withdraws the question (`docs/orchestration.md:437`,
  `docs/config.md:475`).
- `ExecutorPools!SpentIsNotStarted`: when every window resets more than a day
  ahead, `usable_deadline` refuses the park, `apply_executor_pool` returns
  `Unchanged` and the claim starts the node on a provider the snapshot shows to
  be spent, any open question of an earlier park included.
- `ExecutorPools!AnswerKeepsCaps`: an answer that names a provider does not go to
  the queue; `revoke_in_progress_task` starts the run itself, past the caps
  (`docs/orchestration.md:446` says the dispatcher does).
- A claim whose walk finds a model and which then finds no slot has withdrawn the
  question on the thread, but does not save the task (`ClaimFull`): its
  `has_questions` stays set.

### Bounds, and why they are enough

- `Session`: an id is minted once. Four ids allow a first run, its reviewer or
  executor, a resume and a restart of one task, or two runs of each of two tasks.
  When the ids are used up no new run can start; safety does not care, but a
  liveness run needs more ids than runs: with the requests and faults of `live` a
  third run is never needed.
- `MaxFaults` (`MaxDeaths`, `MaxKills`, `MaxRestarts`) counts what dies, hangs,
  breaks or fails to launch. One fault may hit between any two steps; the journal
  has two, so that a recovery can be killed as well. `caps` has none: a session
  crashes there by an agent's exit with an error.
- `MaxRequests`, `MaxMoves`, `MaxEdits`, `MaxIntents` count what humans do. Two
  are enough for every pair of human commands around a racing handler. In
  `RemoteRuns` a behaviour has two intents or one and a fault; on a board that
  node 1 already works, an intent more has in effect been spent.
- `MaxAgents = 1` makes every second task wait; `RestartSteps`, `MaxResumes`,
  `MaxRounds` and `MaxResolver` of 0 and 1 put every budget at its boundary.
- Two pumps, processes, nodes or clients are enough for one to act between any
  two steps of the other. With one task and one pump (`lifecycle`) the racing
  parties are the pump, the agents' handlers and the human.
- `DependencyGraph`: three ids are a chain, a join of two, a plan of one or two
  nodes and a recycled id. `Synced` says whether ids of deleted tasks are
  remembered.
- `PumpSharing`: `Fresh`, `Backstop` and `LaunchIn` are countdowns of one or two
  turns of the clock: fresh or not, due or not.
- `CycleSearch`: all 4096 graphs on three nodes with one unknown id, in any order
  of roots and children.
- `ExecutorPools`: two candidates are a first, a next and a last one; one slot is
  taken or free; a back-off of one step is unspent or spent (restarts beyond it
  are not told apart); `Recorded` has one candidate whose limits reach the
  snapshot and one whose do not.
- `replication`: three operations are one lost, one in flight and one that
  arrives ahead; the snapshot and the prune happen with them. One
  client is enough to find a wrong bound of what is pruned; the theorems are about
  any number of clients, operations and faults.
- `Merge`: four operations are two versions, a deletion or a taken version, and
  one more on each side; wall clocks of 0 and 1 may disagree.
- `Landing`: edits of one file decide every clean merge and every conflict; two
  tasks that land one after the other have a stale base in turn.
- Symmetry is used in safety runs only, over tasks, pumps, starters and clients.

### Fairness

- `TaskLifecycle!FairSpec`: a daemon or an open TUI ticks for ever and runs its
  sections in turn. A pass that began goes on (`WF` of `PumpStep`), and a section
  that has work at the start of infinitely many passes is entered (`SF` of
  `WakeBegin`, `ReapBegin`, `DueRestarts`, `WalkBegin`); weak fairness would not
  do, as the work of one section may come and go while another is in progress. A
  handler of the board that began goes on, an agent's process ends some day, a
  dead process falls silent, and deadlines pass. Humans, faults, heartbeats and
  what an agent does before it ends are not fair.
- `DependencyGraph`: the sweep and the runs are fair, humans and writers are not.
- `PumpSharing`: the clock, the try for the lock (a timer of every process) and a
  tick that began. A process may die; it does not hang inside a pump for ever.
- `ExecutorPools`: deadlines pass, `due_restarts` runs, and a walk that finds a
  slot comes to the claim. Nobody answers, no process polls the limits, no quota
  comes back, no run ends.
- `Replication`: a link is retried by its worker, what was sent and not lost
  arrives some day, and the server's maintenance runs on its timer.
- `Journal`: a process inside the lock goes on; the background scan is entered
  (`SF`, as short holds of the lock interrupt it for ever otherwise).
- `BoardView`: the tick thread, the event loop and started threads run. Users are
  not fair.
- `Landing`: a landing goes on, the sweep of every pump comes, a run that is
  meant to start does, an agent sent to resolve a conflict resolves, commits
  (`ResolversCommit`: the report tells it to) and finishes, and a cleanup is
  tried again. `SF`, because landings hold the lock in between. Finding 4 is what
  is left without `ResolversCommit`.

## 4. Proofs

All proofs are for arbitrary constants under the assumptions the modules name
(`BoardAssumption`, `SearchAssumption`, `GraphAssumption`,
`PumpSharingAssumption`, `BoardViewAssumption`, `PoolAssumption`, `JournalAssumption`,
`MergeAssumption`, `LandingAssumption`, `ReplicationAssumption`), which TLC evaluates. Where a theorem assumes more it says so: `Synced` and one
writer (task graph), `EditorsWait` (two of the journal's), `PeopleWait` (landing;
two of the three also `Orderly` and not `LandedAgain`), `OneProcess` (replication),
as in the runs, and finitely many nodes or cards, which every board has.

**Lifecycle types** (`LifecycleProofs`). `TypeOK` is not inductive: a claim that is
launched writes `run[pump[p].cur]`, so `cur` must be an id when the program
counter says launch; a wake reads `task[TaskOf(s)]`, so a session some counter
points at must be linked to a task. `WellTyped` adds these facts. `NextTyped` has
one lemma per group of actions, and `TypeCorrect` follows.

**Lifecycle safety** (`LifecycleProofs`). Each proof starts from the lemma that
says who can disturb the property: `TaskWriters` lists the few steps that write a
task file, `NewRuns` those that make a session active.

- `CrashBudgetHolds`: inductive over the task writers; a deadline is only set
  below the schedule and a charge clears it.
- `ResumeBudgetHolds`: needs that an attempt remembered by an exit handler or a
  waking pump is within the budget (`NextAttempt`, `AttemptsKept`).
- `FinishedHolds`: every non-human writer is fenced on In Progress.
- `OneRunHolds`: relates a hand-over in progress to the task (`HandOverKept`), and
  shows that every new active session becomes its task's current one
  (`NewRunIsCurrent`) while the one before it is inactive, or the task enters
  `overlap` (`OverlapRecorded`).
- `ClaimCapHolds`: a claim adds one task to the census it measured under the same
  lock (`OnlyClaims`, `ClaimOccupies`), by finite-set cardinality.

**Search** (`SweepProofs`). `SearchInv`: the stack is a path without
repetition; a Done node has only Done children; no set of Done nodes feeds itself;
a child already looked at is Done or the next on the stack. When every node is
Done the third conjunct is the absence of a cycle (`NoCycleIsMissed`); a child
found Open closes the path of the first (`ReportedCycleIsReal`).
`SearchTerminates` counts: nodes without a mark twice, the stack, the edges not
looked at; each turn lowers the sum (`TurnExplores`), which replaces a liveness
property.

**Task graph** (`SweepProofs`). `GraphTyped` adds to
`TypeOK` that a plan in the making refers to its own keys and to ids. `StepEffect`
reduces every step to three: edges shrink, a task nobody points at is added
(`Named` says why nobody does: edges only name minted ids, and ids are remembered
under `Synced`), or a writer rewrites the edges of one task.

- `JoinsAlwaysKept` (`Synced`): `JoinsHold` says of every listed task that each
  predecessor it has finished once or is gone, or that it is `late`; `WhoLists` and
  `WhoQueues` give the steps that matter.
- `BoardStaysAcyclic` (`Synced`, one writer of edges): what a command found
  acyclic must stay so until it writes. For `depends` it is the board with the
  edges about to be written (`LinkStands`); for a plan it is the tasks that were
  there at validation with the keys of the plan, for some `base` that was then the
  highest id (`PlanStands`): tasks made since are no danger, because nothing older
  points at them. `Subgraph`, `FreshNode` and `CycleInside` are the facts about
  cycles; `PlanCloses` turns a cycle of the board into one that validation would
  have found.

**Shared pump** (`SweepProofs`). `QuietIsSafe` needs `Remembered`: between
looking and settling a process has no memory, and a memory whose stamp stands was
made with nothing to dispatch and no write since. `OneProcessTicks`: whoever is
inside the tick holds `pump.lock` alone.

**Pools** (`SweepProofs`). `AnswerIsFinal` needs `OutOfPool`: an answer takes
the profile off the node and nothing gives it back, and both the walk and the
failover ask for it (`WalkKeepsAnswer`, `RunKeepsAnswer`); whoever starts a run asks
for the one before in the same section. A direct start is one section here, so this
does not contradict finding 1.

**Screen** (`WorkstationProofs`). `ScreenOnlyAdvances` needs `NotOlder`: while a
request still counts, whatever the worker read for it is no older than the screen.
`PendingMovesShown` is inductive over the event loop's handlers. `OneWorkerEach`
assumes finitely many cards and no bulk moves, and fails with them.

**Journal** (`JournalProofs`). `JournalControl` says where a process may be while a
redo is open, and how far the segment reaches into the batch of that redo: what was
sent ends before the batch begins, since a reader recovers first. `SentStands`
follows, editors or not. `JournalSound` has what the content needs: the index tells
the journal as it was before the batch until the batch is complete, and what the
redo notes tells it after (`IndexTells`); what a process saw of a file still stands
(`SeenStands`, hence `EditorsWait`); a command plans against a file the journal
describes (`PlansOnJournal`); no operation about to be appended repeats the last
one of its file (`OpsChange`). `CleanJournaled` and `NoChangeIsTwice` are conjuncts of
it at rest. `Said` of a longer segment is told from the shorter one by the greatest
index of a path, where `Extremes` and the well-foundedness of the numbers replace
an induction over the segment.

**Replication** (`ReplicationProofs`). One invariant, `ReplicationInv`, carries its
theorems, for any number of clients. `Dated`: an id names one operation, and an
origin gives ids in the order of its numbers. `Copies`: what a node holds of another
origin is a prefix of that origin's log and durable there, a client holds nothing
the server does not, but for its own, and nothing waits in `ahead.jsonl` (`Fits` says
of every batch that is under way why). `HubSound`: the hub log has no operation twice
and none before an earlier one of its origin, and all it has is durable and in the
server's log; `Sorted` and `IngestIs` show that numbering the oldest first keeps that.
`CursorsSound`: what the hub numbered up to any cursor, in `cursor.json`, in the
registry, in a process or in a late request, is in the client's logs; a page is the
stretch of the hub log behind its cursor; a staged snapshot holds all of the client
but its own newest writing. `Advances` is what all steps have in common (logs and
the hub log only grow, what is durable stays), and each part of the invariant is
shown once to survive it (`CopyWithinStays`, `LinkStays`, `StrayStays`); then there is
one lemma for each action.

- `CursorTells`: `CursorBehindApplied` is the cursor part of it.
- `StoreImplementsSet`: the same case analysis maps every action to a step of
  `ReplicatedSet` or a stutter (`Moves`): `Write` to a write, `LosePower` to a loss, a
  flush without anything that arrives to `Flush`, and pushes, pages, the stream and
  snapshots, with the flush of their sender, to `Learn`.
- `PrunedWasReceived`: `PrunedIsReceived` needs to know what the bounds mean by which
  nodes prune while they travel. `PruneInv`: what a node pruned, what a process was
  told is stable, and what a staged snapshot has pruned is `Received` by every client
  still waited for, its own writing being durable; each of these clients is active at
  the server, with a cursor the floor of the hub has not passed. `StableReceived`: the
  hub's vector counts what is numbered up to the lowest active cursor, which
  `CursorsSound` puts into the logs; `ReceivedStays`: steps that advance keep it.
- `OneProcess`, one syncing process for each client, is necessary: run `two_links`
  refutes `CursorTells` without it. A staged snapshot is only as old as the client's
  logs while nobody else writes them.

**Merge** (`MergeProofs`), for any number of replicas, values, operations and restarts,
in batches of one or two operations folded in either order. What a replica keeps is what
`KeptIs` says of the *set* of operations it has taken in: the value of the latest
version, the latest deletion, the latest restoration (`KeptStep`, `KeptBatch`).
`HistoryInv` is what the conflicts need of the history: a clock names one operation, a
node's own operations come after all it has seen (`SeenBefore`), and a version is
written on the latest its author had seen (`OnLatestSeen`). So of two versions the later
one alone can have the other on its chain, and `PairOfLater` says when a pair is none.

- `ReplicasAgree`: `SameOpsSameTask` is `KeptIs` of two replicas with one set.
- `ConflictsRecomputable`: the list kept operation by operation is the list
  `recompute_conflicts` makes from nothing, since a later version cannot make two
  earlier ones ancestors of each other.
- `NoSilentLoss`: a version that is not the one kept is an ancestor of it, or one of
  a conflict.
- `ConflictsAreConcurrent`: no conflict is between a version and one its author knew.

**Remote runs** (`RemoteRunsProofs`). `LogsShaped`: logs only grow and nobody knows
more of one than there is. `GensKept`: a descriptor in a log is of an earlier
generation than the last one of its task, or of the same session, which every
write keeps, since each publishes a descriptor that `Follows` the last
(`SavedFollows`, `DoesKeeps`); `GenerationNamesOne` follows. `LocalsTell` ties the last
descriptor to the task and the sessions of its node through every action, the
locked pieces of a command included; `DescriptorTells` follows.

**Landing** (`WorkstationProofs`). `FolderKept` needs the history. `History`: what an
ancestor holds a commit holds; so the base of a merge is within both sides and a
merge, clean or not, holds both (`MergeHolds`). `JobOK`: a checkout holds its branch
and what it merges. `RefOK` and `SnapshotOK`: the ref and the snapshot are within the
folder, and the ref is in the history of the snapshot, so that the landed commit
may have both as parents (`AdvanceRefKeeps`). `ResultOK`: what a landing writes holds
the snapshot, and what it has written, or need not, is in the folder. The
comparison with the snapshot then makes every file that is written over part of
what replaces it, as long as nobody writes in between (`PeopleWait`).

`UnlandedKept` and `ConflictSettledOnce` also assume `Orderly` and not
`LandedAgain`, as `exchange` does. The first needs two more invariants, together
`KeepInv`. `WorkInv`, where the work is: a checkout holds what its task wrote since
the branch moved and a branch what it wrote before; a merge open in a checkout is
over a clash that still stands, so concluding it drops nothing, because nothing
moves the merge base of a branch but its own landing (`OnlyTrunkShared`: what a
branch shares with another is on the trunk; `SnapshotOnTrunk`). `BookInv`, what the
record says: a resolver goes only to a conflict that rests (`Resting`), a landing has
its task to itself (`LandingAlone`), and what is called landed is in the folder.

The second adds `SettledInv`, for as long as nothing was killed: what a task wrote
reaches the folder only with its landing (`NotYetInFolder`), and what branch and
trunk share is the history of one commit that holds everything on the branch the
task did not write (`BasedOn`). A branch that merged the snapshot then differs from
the merge base nowhere the folder does (`MergedDoesNotClash`). Each invariant was
checked by TLC on small instances before it was proved; the lemmas about the actions
are named after action and invariant (`...Work`, `...Book`, `...Settled`).

**Only model-checked.**

- Liveness: fairness is out of the prover's reach.

## 5. What is not modelled

**Lifecycle.** The queue and auto-launch are on. One cap stands for the total,
backend, model and role caps: the code measures and refuses them at the same
places. Candidate order is open. Role rosters, the conflict hold, planned launches
and chained launches are left out; pools, landing and foreign runs are in modules
of their own. The two reads of `stop_session` under one lock are
one action; starters do not die; an id is never minted twice (the code adds a
suffix until it is unused). An open question is a free choice at an agent's exit. A
board snapshot is one step although the code reads file by file.

**Graph.** A run is only queued, active or over, and a created task names tasks
that are on the board and not archived. One writer in the run.

**Pools.** A candidate is its provider, and a window is open, or spent until a
reset less or more than a day ahead; a window that names no reset (a park of 15
minutes) needs a poll. One task is followed, the others are the slots they hold.
The two locks of `start_task` are one step, a direct start that fails to launch is
in `AgentRuns`, reports of dead runs come one at a time. The queue and crash
restarts are on. Designers and reviewers, clean exits and the agent's own
questions, role rosters (`orchestration.roles`), fetching, parsing and sharing of
limits are left out.

**Pump sharing.** Starting and stopping a daemon, several boards in one tick.

**Screen.** Dialogs, layout, other keys; a worker's write is one step.

**Landing.** Edits are only added and a resolution keeps both sides; the user's
HEAD stays; isolation mode is auto, the seed is live, landing is automatic and
cleanup is on landing. Duplicates, `continue_from`, manual landing,
work-in-progress refs and code replication are left out, and so is a branch that
sends its task to the shared folder. The constants are assumptions about people
and timing, each with something known on the other side: `PeopleWait` excludes the
instant between `disk_differs_from` and `checkout-index`; `Orderly` excludes a
resolver dispatched late by `done` against one by the sweep, an integration
while the agent works or its resolver is on the way (two agents in one checkout),
and a sweep of the task whose landing has begun; `LandedAgain` is finding 3.
`is_landed` reads a constant ref name although the name is configurable.

**Journal.** One content per file; checkpoints, shards, uids, blobs and threads
are left out. `EditorsWait` as above.

**Merge.** One field of one task; threads and order keys merge otherwise.

**Replication.** A client starts just after joining an empty server. Pages are
whole; hello and adopt, a push and its reply, a request and its answer are one step
each, late requests are `strays`. Pruning goes by vectors without `prev`. The hub's
segment boundaries are open. Installing a snapshot is atomic because its redo makes
it so. Local writes are not durable until synced; what is remote, the cursor and
the hub log are. Epoch changes, migration to another server, blobs, the skew check
and a mismatching store are left out.

**Remote runs.** A launch on another node that can be reached is a start or queue
there; one that names its runner pins and starts in one step. `control::request`
reads and writes in one step; the list of commands is read where the control lock
is taken. The queue is on. Heartbeats, waiting, Review reruns, answers, a person's
local rerun, code transfer and landing acknowledgements are left out.

**Not modelled at all.** Questions and auto mode
(beyond resolver runs), format migrations, pairing and discovery, backups and
trash, parsing of configuration, statistics, telemetry, update check and desktop
helpers, the prompt builder: for the reasons given with each in `PROJECT.json`.
Much of the rest of the source is dialogs, rendering, request parsing and command
construction, whose state decides nothing above.

## 6. What could come next

1. Questions of agents and their answers against an exit.
2. Epoch change and migration of a client to another server on top of
   `Replication`; pairing as a module of its own.
3. `DoubleRunsAreSeen` and the stop that hits the next run deserve a decision about
   what the code should promise.
