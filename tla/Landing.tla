------------------------------ MODULE Landing ------------------------------
(***************************************************************************)
(* Isolated checkouts and how their work comes home (core/operations.rs,   *)
(* core/vcs.rs).  An agent works on a branch of its own, in a worktree cut *)
(* from a snapshot of the user's folder.  Its work is landed by a three-   *)
(* way merge written into that folder as unstaged changes; the integration *)
(* ref remembers what was merged.  A conflict is merged the other way, into *)
(* the worktree, and the agent runs again to resolve it.                   *)
(*                                                                         *)
(* The content of a file is the set of edits it has taken in; a commit is  *)
(* a tree and its ancestors.  The board lock is held through a landing,    *)
(* but people write in the folder without it.                              *)
(***************************************************************************)
EXTENDS Integers, Sequences, FiniteSets, FiniteSetsExt

CONSTANTS
    Task, File,
    NoTask,
    PeopleWait,     \* do people keep off a file between its check and its write?
    Orderly,        \* do people and sweeps keep off a task that a resolver is on
                    \* its way to, an agent works on, or a landing holds?
    LandedAgain,    \* are tasks run again whose work has landed?
    MaxResolver,    \* auto_mode.max_resolver_runs
    MaxMade,       \* bound: edits, of people and agents
    MaxFaults       \* bound: landings killed and runs that end without done

ASSUME LandingAssumption ==
    /\ NoTask \notin Task /\ "folder" \notin Task
    /\ PeopleWait \in BOOLEAN
    /\ Orderly \in BOOLEAN /\ LandedAgain \in BOOLEAN
    /\ MaxResolver \in Nat /\ MaxMade \in Nat /\ MaxFaults \in Nat

VARIABLES
    folder,     \* the user's work folder: file -> edits
    commits,    \* the object database
    ref,        \* the integration ref: a commit, or 0
    jobs,       \* task records, worktrees and branches
    auto,       \* auto mode; if not, the board has on_conflict: resolver
    landing,    \* the landing that holds the board lock
    made,       \* every edit made, with its file and where it was made
    faults

landVars == <<folder, commits, ref, jobs, auto, landing, made, faults>>

HeadCommit == 1       \* the user's commit: never moved
NoDir == [tree |-> [f \in File |-> {}], unmerged |-> {}, onto |-> 0]
NoLanding == [pc |-> "free", of |-> NoTask, done |-> FALSE, w |-> 0,
              tree |-> NoDir.tree, left |-> {}]

LandInit ==
    /\ folder = [f \in File |-> {}]
    /\ commits = <<[tree |-> [f \in File |-> {}], past |-> {}]>>
    /\ ref = 0
    /\ auto \in BOOLEAN
    /\ jobs = [t \in Task |->
                 [status |-> "todo", integration |-> "none", run |-> "none",
                  resolvers |-> {}, toPerson |-> FALSE,
                  spent |-> 0,
                  isolated |-> FALSE, branch |-> 0, exists |-> FALSE,
                  dir |-> NoDir]]
    /\ landing = NoLanding
    /\ made = {}
    /\ faults = 0

LockIsFree == landing.pc = "free"

-----------------------------------------------------------------------------
(* Git: commits, snapshots, merges.                                        *)

Past(log, c) == {c} \union log[c].past

\* commit-tree
Put(log, tree, parents) ==
    Append(log, [tree |-> tree, past |-> UNION {Past(log, c) : c \in parents}])

\* GitRepo::snapshot on top of the ref: an unchanged folder is the ref itself.
Snapped(log, parent) ==
    IF log[parent].tree = folder THEN log ELSE Put(log, folder, {parent})

FolderCommit(log, parent) ==
    IF log[parent].tree = folder THEN parent ELSE Len(log) + 1

RefOrHead == IF ref = 0 THEN HeadCommit ELSE ref

\* The merge base: the latest common ancestor.
Base(log, a, b) == Max(Past(log, a) \intersect Past(log, b))

\* Mutant: the branch wins where both sides changed a file.
TheirsWins(base, ours, theirs) ==
    [tree |-> [f \in File |-> IF theirs[f] = base[f] THEN ours[f] ELSE theirs[f]],
     conflicts |-> {}]

\* merge-tree --write-tree: markers hold both sides of a conflict.
Merged(base, ours, theirs) ==
    LET both == {f \in File : /\ ours[f] # base[f]
                              /\ theirs[f] # base[f]
                              /\ ours[f] # theirs[f]}
    IN  [tree |-> [f \in File |->
                     IF f \in both THEN ours[f] \union theirs[f]
                     ELSE IF ours[f] = base[f] THEN theirs[f]
                     ELSE ours[f]],
         conflicts |-> both]

MergeOf(log, a, b) ==
    Merged(log[Base(log, a, b)].tree, log[a].tree, log[b].tree)

TipParents(j) == {j.branch} \union ({j.dir.onto} \ {0})

Tip(log, j) == Put(log, j.dir.tree, TipParents(j))

OnTip(log, j) == [j EXCEPT !.branch = Len(log) + 1, !.dir.onto = 0]

\* GitRepo::commit_all: nothing while a file is unmerged, and nothing when
\* the index is the tree of the branch, a merge open or not.
CommitsAll(j) == j.dir.unmerged = {} /\ j.dir.tree # commits[j.branch].tree

\* GitRepo::is_landed
IsLanded(c) == ref # 0 /\ c \in Past(commits, ref)

-----------------------------------------------------------------------------
(* People and agents write.                                                *)

NewEdit(f, place) ==
    <<f, place, Cardinality({e \in made : e[1] = f /\ e[2] = place}) + 1>>

PersonEdits(f) ==
    /\ Cardinality(made) < MaxMade
    /\ PeopleWait => landing.pc # "write"
    /\ folder' = [folder EXCEPT ![f] = @ \union {NewEdit(f, "folder")}]
    /\ made' = made \union {NewEdit(f, "folder")}
    /\ UNCHANGED <<commits, ref, jobs, auto, landing, faults>>

\* task_cwd: the worktree when there is one, else the shared folder.
AgentEdits(t, f) ==
    /\ jobs[t].run = "live"
    /\ landing.of # t
    /\ Cardinality(made) < MaxMade
    /\ LET place == IF jobs[t].isolated /\ jobs[t].exists THEN t ELSE "folder"
           e     == NewEdit(f, place)
       IN  /\ made' = made \union {e}
           /\ IF place = t
              THEN /\ jobs' = [jobs EXCEPT ![t].dir.tree[f] = @ \union {e}]
                   /\ UNCHANGED folder
              ELSE /\ PeopleWait => landing.pc # "write"
                   /\ folder' = [folder EXCEPT ![f] = @ \union {e}]
                   /\ UNCHANGED jobs
    /\ UNCHANGED <<commits, ref, auto, landing, faults>>

\* The agent settles a conflicted file; both sides stay.
Resolve(t, f) ==
    /\ jobs[t].run = "live"
    /\ jobs[t].exists
    /\ landing.of # t
    /\ f \in jobs[t].dir.unmerged
    /\ jobs' = [jobs EXCEPT ![t].dir.unmerged = @ \ {f}]
    /\ UNCHANGED <<folder, commits, ref, auto, landing, made, faults>>

\* git commit also concludes a merge that changed nothing.
AgentCommits(t) ==
    /\ jobs[t].run = "live"
    /\ jobs[t].isolated /\ jobs[t].exists
    /\ landing.of # t
    /\ jobs[t].dir.unmerged = {}
    /\ jobs[t].dir.tree # commits[jobs[t].branch].tree \/ jobs[t].dir.onto # 0
    /\ commits' = Tip(commits, jobs[t])
    /\ jobs' = [jobs EXCEPT ![t] = OnTip(commits, @)]
    /\ UNCHANGED <<folder, ref, auto, landing, made, faults>>

-----------------------------------------------------------------------------
(* A run starts: the record first, the worktree under a second lock.       *)

Claimed(j) == [j EXCEPT !.status = "in_progress", !.run = "starting",
                        !.toPerson = FALSE]

\* start_task, rerun_review_task by a person, a resume after a crash.
Start(t) ==
    /\ LockIsFree
    /\ jobs[t].status # "done"
    /\ jobs[t].run = "none"
    /\ jobs[t].integration = "landed" => LandedAgain
    /\ Orderly => jobs[t].resolvers = {}
    /\ jobs' = [jobs EXCEPT ![t] =
                  [Claimed(jobs[t]) EXCEPT !.spent = IF jobs[t].status = "review" THEN 0 ELSE @]]
    /\ UNCHANGED <<folder, commits, ref, auto, landing, made, faults>>

\* auto_mode_sweep reads the board without its lock.
Sweep(t) ==
    /\ auto
    /\ jobs[t].status = "review"
    /\ jobs[t].run = "none"
    /\ jobs[t].integration = "conflict"
    /\ jobs[t].spent < MaxResolver
    /\ "sweep" \notin jobs[t].resolvers
    /\ Orderly => jobs[t].resolvers = {} /\ landing.of # t
    /\ jobs' = [jobs EXCEPT ![t].resolvers = @ \union {"sweep"}]
    /\ UNCHANGED <<folder, commits, ref, auto, landing, made, faults>>

\* dispatch_resolver: rerun_review_task asks neither the column nor the
\* session.
RunResolver(t, by) ==
    /\ LockIsFree
    /\ by \in jobs[t].resolvers
    /\ jobs' = [jobs EXCEPT ![t] =
                  [Claimed(jobs[t]) EXCEPT !.resolvers = @ \ {by},
                                     !.spent = IF @ < MaxResolver THEN @ + 1 ELSE @]]
    /\ UNCHANGED <<folder, commits, ref, auto, landing, made, faults>>

\* prepare_worktree with a worktree: the branch goes on.
ReuseWorktree(t) ==
    /\ LockIsFree
    /\ jobs[t].run = "starting"
    /\ jobs[t].isolated /\ jobs[t].exists
    /\ jobs' = [jobs EXCEPT ![t].run = "live"]
    /\ UNCHANGED <<folder, commits, ref, auto, landing, made, faults>>

\* create_worktree: the snapshot advances the ref, whether or not the branch
\* can be made.  A branch left behind is in the way: mode auto then runs in
\* the shared folder.
CreateWorktree(t) ==
    /\ LockIsFree
    /\ jobs[t].run = "starting"
    /\ ~ (jobs[t].isolated /\ jobs[t].exists)
    /\ commits' = Snapped(commits, RefOrHead)
    /\ ref' = FolderCommit(commits, RefOrHead)
    /\ jobs' = IF jobs[t].branch # 0
               THEN [jobs EXCEPT ![t].run = "live"]
               ELSE [jobs EXCEPT ![t].run = "live", ![t].isolated = TRUE,
                                 ![t].exists = TRUE,
                                 ![t].branch = FolderCommit(commits, RefOrHead),
                                 ![t].dir = [NoDir EXCEPT !.tree = folder]]
    /\ UNCHANGED <<folder, auto, landing, made, faults>>

-----------------------------------------------------------------------------
(* land_task_branch, with the board lock held: by `kanban done' of the     *)
(* agent, or by `kanban integrate'.                                        *)

\* What a landing leaves on the task: done also moves it to Review and
\* closes the session, however the landing went.
Closed(j) == IF landing.done THEN [j EXCEPT !.status = "review", !.run = "none"] ELSE j

Takes(t, byDone) ==
    /\ landing' = [NoLanding EXCEPT !.pc = "begin", !.of = t, !.done = byDone]
    /\ UNCHANGED <<folder, commits, ref, jobs, auto, made, faults>>

\* complete_task: a task without its worktree has nothing to land.
Done(t) ==
    /\ LockIsFree
    /\ jobs[t].run = "live"
    /\ IF jobs[t].isolated /\ jobs[t].exists
       THEN Takes(t, TRUE)
       ELSE /\ jobs' = [jobs EXCEPT ![t].status = "review", ![t].run = "none"]
            /\ UNCHANGED <<folder, commits, ref, auto, landing, made, faults>>

\* integrate_task: of a task in any column.
Integrate(t) ==
    /\ LockIsFree
    /\ jobs[t].isolated /\ jobs[t].exists
    /\ Orderly => jobs[t].run = "none" /\ jobs[t].resolvers = {}
    /\ jobs[t].integration # "landed"
    /\ Takes(t, FALSE)

\* commit_all and the snapshot W; then the merge in the object database.
BeginLanding ==
    LET t   == landing.of
        log == IF CommitsAll(jobs[t]) THEN Tip(commits, jobs[t]) ELSE commits
    IN  /\ landing.pc = "begin"
        /\ commits' = Snapped(log, RefOrHead)
        /\ jobs' = IF CommitsAll(jobs[t])
                   THEN [jobs EXCEPT ![t] = OnTip(commits, @)] ELSE jobs
        /\ landing' = [landing EXCEPT !.pc = "merge", !.w = FolderCommit(log, RefOrHead)]
        /\ UNCHANGED <<folder, ref, auto, made, faults>>

Preflight ==
    /\ landing.pc = "merge"
    /\ \E pre \in {MergeOf(commits, landing.w, jobs[landing.of].branch)} :
          landing' = [landing EXCEPT
             !.pc = IF pre.conflicts = {} THEN "check" ELSE "conflict",
             !.tree = pre.tree,
             !.left = {f \in File : pre.tree[f] # commits[landing.w].tree[f]}]
    /\ UNCHANGED <<folder, commits, ref, jobs, auto, made, faults>>

\* Mutant: the folder is not compared with W again.
UnguardedWrite == landing.left # {"no file"}

\* disk_differs_from: has a file of the landing changed since W?
FolderStands == \A f \in landing.left : folder[f] = commits[landing.w].tree[f]

Materialize ==
    /\ landing.pc = "check"
    /\ FolderStands
    /\ landing' = [landing EXCEPT !.pc = "write"]
    /\ UNCHANGED <<folder, commits, ref, jobs, made, faults, auto>>

\* "landing deferred": the integration state is as it was.
DeferLanding ==
    /\ landing.pc = "check"
    /\ ~ FolderStands
    /\ jobs' = [jobs EXCEPT ![landing.of] = [Closed(@) EXCEPT !.toPerson = TRUE]]
    /\ landing' = NoLanding
    /\ UNCHANGED <<folder, commits, ref, made, faults, auto>>

\* checkout-index, one file at a time
WriteFile(f) ==
    /\ landing.pc = "write"
    /\ f \in landing.left
    /\ folder' = [folder EXCEPT ![f] = landing.tree[f]]
    /\ landing' = [landing EXCEPT !.left = @ \ {f}]
    /\ UNCHANGED <<commits, ref, jobs, made, faults, auto>>

\* Mutant: the landing is a commit of its tree on the old ref alone.
LandOnRef(t) == {ref} \ {0}

LandParents(t) == ({ref} \ {0}) \union {jobs[t].branch}

AdvanceRef ==
    /\ landing.pc = "write"
    /\ landing.left = {}
    /\ commits' = Put(commits, landing.tree, LandParents(landing.of))
    /\ ref' = Len(commits')
    /\ landing' = [landing EXCEPT !.pc = "save"]
    /\ UNCHANGED <<folder, jobs, made, faults, auto>>

\* clear_task_worktree: the checkout goes by force; the branch only when it
\* has landed, or a person said so.
Cleared(j, unmerged) ==
    IF j.integration = "conflict" \/ ~ j.isolated THEN j
    ELSE IF unmerged \/ IsLanded(j.branch)
    THEN [j EXCEPT !.isolated = FALSE, !.exists = FALSE, !.branch = 0, !.dir = NoDir]
    ELSE [j EXCEPT !.exists = FALSE, !.dir = NoDir]

Landed(j) == [Closed(j) EXCEPT !.integration = "landed", !.spent = 0]

\* cleanup_after_land: put off while the shell of `done' stands in the
\* worktree.
SaveLanded ==
    /\ landing.pc = "save"
    /\ \E inCwd \in BOOLEAN :
          jobs' = [jobs EXCEPT ![landing.of] =
                     IF inCwd THEN Landed(@) ELSE Cleared(Landed(@), FALSE)]
    /\ landing' = NoLanding
    /\ UNCHANGED <<folder, commits, ref, made, faults, auto>>

\* merge_into_worktree: git refuses while a merge is open.
Conflicted(j) ==
    LET m == MergeOf(commits, j.branch, landing.w)
    IN  IF j.dir.onto # 0 \/ j.dir.unmerged # {} THEN j
        ELSE [j EXCEPT !.dir = [tree |-> m.tree, unmerged |-> m.conflicts,
                                onto |-> landing.w]]

LandConflict ==
    /\ landing.pc = "conflict"
    /\ jobs' = [jobs EXCEPT ![landing.of] = Conflicted(@)]
    /\ landing' = [landing EXCEPT !.pc = "record"]
    /\ UNCHANGED <<folder, commits, ref, made, faults, auto>>

\* Mutant: the ref stays where it was.
RefStays == ref

\* "Without this the next snapshot is parented on the pre-conflict tip".
RefAfterConflict == landing.w

\* Mutant: only auto mode sends resolvers.
AutoModeOnly(j) == auto /\ j.spent < MaxResolver

\* resolver_wanted
ResolverWanted(j) == auto => j.spent < MaxResolver

\* The same process dispatches the resolver once it has let go of the lock.
RecordConflict ==
    /\ landing.pc = "record"
    /\ ref' = RefAfterConflict
    /\ jobs' = [jobs EXCEPT ![landing.of] =
                  [Closed(jobs[landing.of]) EXCEPT
                      !.integration = "conflict",
                      !.resolvers = IF ResolverWanted(jobs[landing.of])
                                    THEN @ \union {"lander"} ELSE @]]
    /\ landing' = NoLanding
    /\ UNCHANGED <<folder, commits, made, faults, auto>>

-----------------------------------------------------------------------------
(* What can go wrong, and who cleans up.                                   *)

\* The process that lands is killed: the kernel frees the board lock.
LandingKilled ==
    /\ ~ LockIsFree
    /\ faults < MaxFaults
    /\ landing' = NoLanding
    /\ faults' = faults + 1
    /\ UNCHANGED <<folder, commits, ref, jobs, made, auto>>

\* A crash, a stop, a question: the run ends and the task is not done.
RunEnds(t) ==
    /\ LockIsFree
    /\ jobs[t].run = "live"
    /\ faults < MaxFaults
    /\ jobs' = [jobs EXCEPT ![t].run = "none", ![t].toPerson = TRUE]
    /\ faults' = faults + 1
    /\ UNCHANGED <<folder, commits, ref, auto, landing, made>>

\* The process that would dispatch a resolver is killed before it does.
ResolverNotSent(t, by) ==
    /\ by \in jobs[t].resolvers
    /\ faults < MaxFaults
    /\ jobs' = [jobs EXCEPT ![t].resolvers = @ \ {by}, ![t].toPerson = TRUE]
    /\ faults' = faults + 1
    /\ UNCHANGED <<folder, commits, ref, auto, landing, made>>

\* Mutant: any finished run is cleaned up.
AnyFinished(j) == j.isolated /\ j.run = "none"

AwaitsDeferredCleanup(j) ==
    /\ j.integration = "landed"
    /\ j.isolated
    /\ j.run = "none"

\* finish_deferred_cleanup at agent exit, sweep_deferred_cleanups by a pump.
CleanUp(t) ==
    /\ LockIsFree
    /\ AwaitsDeferredCleanup(jobs[t])
    /\ jobs' = [jobs EXCEPT ![t] = Cleared(@, FALSE)]
    /\ UNCHANGED <<folder, commits, ref, auto, landing, made, faults>>

\* move_task_to_done by a person: Done is terminal.
Accept(t) ==
    /\ LockIsFree
    /\ jobs[t].status = "review"
    /\ jobs[t].run = "none"
    /\ jobs' = [jobs EXCEPT ![t] = [Cleared(@, TRUE) EXCEPT !.status = "done"]]
    /\ UNCHANGED <<folder, commits, ref, auto, landing, made, faults>>

\* worktree_gc_pass: nobody needs the old chain.  To do it again on an
\* unchanged folder is to do nothing.
Rebaseline ==
    /\ LockIsFree
    /\ ref # 0
    /\ \A t \in Task : ~ jobs[t].isolated
    /\ commits[ref] # [tree |-> folder, past |-> {HeadCommit}]
    /\ commits' = Snapped(commits, HeadCommit)
    /\ ref' = FolderCommit(commits, HeadCommit)
    /\ UNCHANGED <<folder, jobs, auto, landing, made, faults>>

-----------------------------------------------------------------------------
LandStep ==
    \/ BeginLanding \/ Preflight \/ Materialize \/ DeferLanding \/ AdvanceRef \/ SaveLanded
    \/ LandConflict \/ RecordConflict
    \/ \E f \in File : WriteFile(f)

LandNext ==
    \/ LandStep \/ LandingKilled \/ Rebaseline
    \/ \E f \in File : PersonEdits(f)
    \/ \E t \in Task :
          \/ Start(t) \/ Sweep(t) \/ ReuseWorktree(t) \/ CreateWorktree(t)
          \/ AgentCommits(t) \/ Done(t) \/ Integrate(t)
          \/ RunEnds(t) \/ CleanUp(t) \/ Accept(t)
          \/ \E by \in {"lander", "sweep"} : RunResolver(t, by) \/ ResolverNotSent(t, by)
          \/ \E f \in File : AgentEdits(t, f) \/ Resolve(t, f)

\* The next step of a run that somebody means to start.
RunBegins(t) ==
    \/ \E by \in {"lander", "sweep"} : RunResolver(t, by)
    \/ ReuseWorktree(t) \/ CreateWorktree(t)

LandSpec == LandInit /\ [][LandNext]_landVars

\* A landing that began goes on; the sweep of every pump re-runs conflicts
\* and cleans up; an agent sent to resolve a conflict resolves and finishes.
LandGoesOn ==
    /\ WF_landVars(LandStep)
    /\ \A t \in Task :
          /\ WF_landVars(Sweep(t))
          /\ SF_landVars(RunBegins(t))
          /\ SF_landVars(\E f \in File : Resolve(t, f))
          /\ SF_landVars(Done(t))
          /\ SF_landVars(CleanUp(t))

\* "resolve every conflicted file, and commit" (conflict_report)
ResolversCommit == \A t \in Task : SF_landVars(AgentCommits(t))

-----------------------------------------------------------------------------
(* "Nothing is ever silently overwritten" (docs/worktrees.md): no step     *)
(* takes an edit out of the work folder, whether a person made it there or *)
(* an earlier landing brought it, although landings write files whole and  *)
(* people save without the board lock.                                     *)
FolderKeepsEdits == [][\A f \in File : folder[f] \subseteq folder'[f]]_landVars

(* What an agent wrote in its checkout is never lost before a person       *)
(* accepted the task: it is in the work folder, in the checkout, or on the *)
(* branch (remove_worktree is forced, delete_branch is not).               *)
UnlandedWorkIsKept ==
    \A e \in made :
        LET t == e[2]
        IN  t \in Task /\ jobs[t].status # "done" =>
              \/ e \in folder[e[1]]
              \/ e \in jobs[t].dir.tree[e[1]]
              \/ jobs[t].branch # 0 /\ e \in commits[jobs[t].branch].tree[e[1]]

(* A conflict is settled once: a branch that has merged the folder as it   *)
(* is does not conflict with it again, unless a landing was killed before  *)
(* it could advance the ref.                                               *)
SettledOnce ==
    landing.pc = "conflict" /\ faults = 0 =>
        \A c \in Past(commits, jobs[landing.of].branch) :
            commits[c].tree # commits[landing.w].tree

(* A conflict that agents resolve does not come back for ever: the task    *)
(* lands, unless its resolver was killed or its runs are spent, or a       *)
(* person accepts it as it is (land_task_branch, dispatch_resolver).       *)
ConflictsEnd ==
    \A t \in Task :
        jobs[t].integration = "conflict" ~>
            \/ jobs[t].integration # "conflict"
            \/ jobs[t].toPerson \/ jobs[t].status = "done"
            \/ auto /\ jobs[t].spent = MaxResolver

(* A task whose work landed gives its checkout and its branch back.        *)
LandedIsCleaned ==
    \A t \in Task :
        AwaitsDeferredCleanup(jobs[t]) ~> ~ AwaitsDeferredCleanup(jobs[t])
=============================================================================
