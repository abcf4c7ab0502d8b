---------------------------- MODULE SweepProofs -----------------------------
(***************************************************************************)
(* What the three parts of MCSweeps, and the search for cycles, promise.   *)
(*                                                                         *)
(* PumpSharing, for any number of processes and any periods.               *)
(* QuietHidesNoQueuedTask is not inductive: that a memory which holds      *)
(* hides nothing depends on when the memory is kept and when its stamp is  *)
(* taken, and both happen in the middle of a tick (Remembered).            *)
(*                                                                         *)
(* ExecutorPools: the answer to a park is final, for pools of any length,  *)
(* any number of slots, any back-off and whatever the snapshot knows.      *)
(*                                                                         *)
(* DependencyGraph, for any number of tasks, of commands and of pumps: it  *)
(* stays well typed and, where ids of deleted tasks are remembered         *)
(* (Synced), the AND-join is kept, and with one writer of edges and plans  *)
(* the board stays acyclic.  Acyclic is not inductive.  What a command     *)
(* found acyclic must stay so until it writes: for `kanban depends`, the   *)
(* board with the edges it is about to write; for a plan, the tasks that   *)
(* were there when it was validated together with the keys of the plan     *)
(* (PlanStands).  Tasks made since are no danger, because nothing older    *)
(* points at them.                                                         *)
(*                                                                         *)
(* The last part is about the search itself, find_cycle.                   *)
(***************************************************************************)
EXTENDS PumpSharing, ExecutorPools, DependencyGraph, CycleSearch,
        FiniteSetTheorems, TLAPS

-----------------------------------------------------------------------------
(* PumpSharing                                                             *)

\* Between looking at the board and settling, a process has no memory of it;
\* a memory whose stamp still stands was made with nothing to dispatch, and no
\* file was written since.
Remembered ==
    \A p \in Pump :
        LET m == pumps[p].memo
        IN /\ pumps[p].pc \in {"launches", "dependents", "dispatch", "settle",
                               "deadlines"} => ~ m.kept
           /\ m.kept /\ m.same /\ pumps[p].queueOn
                 => ~ (work.queueOn /\ work.queued)

\* Only the holder of pump.lock is in a tick, and there is at most one.
OneTicks ==
    /\ \A p \in Pump : pumps[p].pc # "idle" => holder = {p}
    /\ \A p, q \in holder : p = q

-----------------------------------------------------------------------------
PumpPc == {"idle", "board", "launches", "dependents", "dispatch", "settle",
           "deadlines", "finish"}
Board == [queueOn : BOOLEAN, queued : BOOLEAN, ready : BOOLEAN,
          slot : BOOLEAN, launchIn : -1 .. LaunchIn]

\* A process moves on; a write makes every stamp stale and changes no more.
LEMMA WrittenIs ==
    ASSUME PumpTypeOK
    PROVE  /\ Written \in [Pump -> PumpState]
           /\ \A p \in Pump : /\ Written[p].pc = pumps[p].pc
                              /\ Written[p].queueOn = pumps[p].queueOn
                              /\ Written[p].memo.kept = pumps[p].memo.kept
                              /\ Written[p].memo.same = FALSE
<1>1. \A x \in PumpState : /\ [x EXCEPT !.memo.same = FALSE] \in PumpState
                           /\ [x EXCEPT !.memo.same = FALSE].pc = x.pc
                           /\ [x EXCEPT !.memo.same = FALSE].queueOn = x.queueOn
                           /\ [x EXCEPT !.memo.same = FALSE].memo.kept
                                 = x.memo.kept
                           /\ [x EXCEPT !.memo.same = FALSE].memo.same = FALSE
  BY DEF PumpState
<1> QED
  BY <1>1 DEF Written, PumpTypeOK

LEMMA GoneOn ==
    ASSUME NEW P \in [Pump -> PumpState], NEW p \in Pump, NEW pc \in PumpPc
    PROVE  LET Q == [P EXCEPT ![p].pc = pc]
           IN /\ Q \in [Pump -> PumpState]
              /\ Q[p].pc = pc
              /\ \A q \in Pump : /\ q # p => Q[q].pc = P[q].pc
                                 /\ Q[q].queueOn = P[q].queueOn
                                 /\ Q[q].memo = P[q].memo
  BY DEF PumpState, PumpPc

\* A section either finds nothing and changes nothing, or writes.
LEMMA SectionIs ==
    ASSUME PumpTypeOK, NEW p \in Pump, NEW from, NEW to \in PumpPc,
           NEW may, NEW after,
           Section(p, from, to, may, after)
    PROVE  /\ pumps[p].pc = from
           /\ pumps' \in [Pump -> PumpState]
           /\ pumps'[p].pc = to
           /\ \A q \in Pump : /\ q # p => pumps'[q].pc = pumps[q].pc
                              /\ pumps'[q].queueOn = pumps[q].queueOn
                              /\ pumps'[q].memo.kept = pumps[q].memo.kept
           /\ \/ /\ work' = work
                 /\ \A q \in Pump : pumps'[q].memo.same = pumps[q].memo.same
              \/ /\ work' = after
                 /\ \A q \in Pump : pumps'[q].memo.same = FALSE
           /\ UNCHANGED <<holder, lockFile, deaths>>
<1>1. pumps \in [Pump -> PumpState]
  BY DEF PumpTypeOK
<1>2. CASE may /\ work.queueOn
  <2>1. work' = after /\ pumps' = [Written EXCEPT ![p].pc = to]
    BY <1>2 DEF Section
  <2>2. Written \in [Pump -> PumpState]
    BY WrittenIs
  <2>3. /\ pumps' \in [Pump -> PumpState] /\ pumps'[p].pc = to
        /\ \A q \in Pump : /\ q # p => pumps'[q].pc = Written[q].pc
                           /\ pumps'[q].queueOn = Written[q].queueOn
                           /\ pumps'[q].memo = Written[q].memo
    BY <2>1, <2>2, GoneOn
  <2>4. \A q \in Pump : /\ q # p => pumps'[q].pc = pumps[q].pc
                        /\ pumps'[q].queueOn = pumps[q].queueOn
                        /\ pumps'[q].memo.kept = pumps[q].memo.kept
                        /\ pumps'[q].memo.same = FALSE
    BY <2>3, WrittenIs
  <2>5. /\ pumps[p].pc = from
        /\ UNCHANGED <<holder, lockFile, deaths>>
    BY DEF Section
  <2> QED
    BY <2>1, <2>3, <2>4, <2>5
<1>3. CASE ~ (may /\ work.queueOn)
  <2>1. work' = work /\ pumps' = [pumps EXCEPT ![p].pc = to]
    BY <1>3 DEF Section, Go
  <2> QED
    BY <2>1, <1>1, GoneOn DEF Section
<1> QED
  BY <1>2, <1>3

Memo == [kept : BOOLEAN, same : BOOLEAN,
         wakeIn : -1 .. LaunchIn + 1, expires : 0 .. Backstop]

\* What a process may remember is well formed.
LEMMA MemosTyped ==
    /\ Forgotten \in Memo
    /\ PumpTypeOK => \A p \in Pump : Settled(p) \in Memo
<1>1. Forgotten \in Memo
  BY PumpSharingAssumption DEF Never, Memo, Forgotten
<1>2. ASSUME PumpTypeOK, NEW p \in Pump PROVE Settled(p) \in Memo
  <2>1. pumps[p].memo \in Memo /\ work.launchIn \in -1 .. LaunchIn
    BY <1>2 DEF PumpTypeOK, PumpState, Memo
  <2>2. Never \in -1 .. LaunchIn + 1
    BY PumpSharingAssumption DEF Never
  <2>3. (IF pumps[p].queueOn /\ work.launchIn > 0
         THEN work.launchIn + 1 ELSE Never) \in -1 .. LaunchIn + 1
    BY <2>1, <2>2, PumpSharingAssumption
  <2> QED
    BY <2>1, <2>3, PumpSharingAssumption DEF Settled, Memo
<1> QED
  BY <1>1, <1>2

\* Time changes no more than the countdowns.
LEMMA ClockIs ==
    ASSUME PumpTypeOK, Clock
    PROVE  /\ pumps' \in [Pump -> PumpState]
           /\ \A q \in Pump : /\ pumps'[q].pc = pumps[q].pc
                              /\ pumps'[q].queueOn = pumps[q].queueOn
                              /\ pumps'[q].memo.kept = pumps[q].memo.kept
                              /\ pumps'[q].memo.same = pumps[q].memo.same
           /\ work' \in Board
           /\ work'.queueOn = work.queueOn
           /\ work'.queued = work.queued
<1> USE PumpSharingAssumption
<1> DEFINE Ticked(x) == [x EXCEPT !.memo.wakeIn = Countdown(@),
                                  !.memo.expires = Countdown(@)]
<1>1. ASSUME NEW x \in PumpState
      PROVE  /\ Ticked(x) \in PumpState
             /\ Ticked(x).pc = x.pc /\ Ticked(x).queueOn = x.queueOn
             /\ Ticked(x).memo.kept = x.memo.kept
             /\ Ticked(x).memo.same = x.memo.same
  <2>1. /\ Countdown(x.memo.wakeIn) \in -1 .. LaunchIn + 1
        /\ Countdown(x.memo.expires) \in 0 .. Backstop
    BY DEF PumpState, Countdown
  <2> QED
    BY <2>1 DEF PumpState
<1>2. pumps' = [p \in Pump |-> Ticked(pumps[p])]
  BY DEF Clock
<1>3. /\ work' \in Board
      /\ work'.queueOn = work.queueOn
      /\ work'.queued = work.queued
  <2>1. work \in Board
    BY DEF PumpTypeOK, Board
  <2>2. Countdown(work.launchIn) \in -1 .. LaunchIn
    BY <2>1 DEF Board, Countdown
  <2> QED
    BY <2>1, <2>2 DEF Clock, Board
<1> QED
  BY <1>1, <1>2, <1>3 DEF PumpTypeOK

\* An edit by others makes every stamp stale.
LEMMA EditIs ==
    ASSUME PumpTypeOK, BoardEdit
    PROVE  /\ pumps' = Written
           /\ work' \in Board
           /\ UNCHANGED <<holder, lockFile, deaths>>
<1>1. work \in Board
  BY DEF PumpTypeOK, Board
<1>2. LaunchIn \in -1 .. LaunchIn
  BY PumpSharingAssumption
<1>3. [work EXCEPT !.queued = TRUE] \in Board
  BY <1>1 DEF Board
<1>4. [work EXCEPT !.ready = TRUE] \in Board
  BY <1>1 DEF Board
<1>5. [work EXCEPT !.slot = TRUE] \in Board
  BY <1>1 DEF Board
<1>6. [work EXCEPT !.launchIn = LaunchIn] \in Board
  BY <1>1, <1>2 DEF Board
<1>7. [work EXCEPT !.queueOn = ~ @] \in Board
  BY <1>1 DEF Board
<1> QED
  BY <1>3, <1>4, <1>5, <1>6, <1>7 DEF BoardEdit

\* What settle remembers is either nothing, or was made with nothing queued.
LEMMA DeadlinesAre ==
    ASSUME PumpTypeOK, NEW p \in Pump, Deadlines(p)
    PROVE  /\ pumps' \in [Pump -> PumpState]
           /\ pumps[p].pc = "deadlines" /\ pumps'[p].pc = "finish"
           /\ \A q \in Pump \ {p} : pumps'[q] = pumps[q]
           /\ pumps'[p].queueOn = pumps[p].queueOn
           /\ \/ ~ pumps'[p].memo.kept
              \/ ~ (pumps[p].queueOn /\ work.queueOn /\ work.queued)
           /\ UNCHANGED <<holder, lockFile, work, deaths>>
<1> DEFINE busy == pumps[p].queueOn /\ work.queueOn /\ work.queued
           M == IF busy THEN Forgotten ELSE Settled(p)
<1>1. M \in Memo
  BY MemosTyped
<1>2. busy => M.kept = FALSE
  BY DEF Forgotten
<1>3. pumps \in [Pump -> PumpState]
  BY DEF PumpTypeOK
<1>4. pumps' = [pumps EXCEPT ![p].pc = "finish", ![p].memo = M]
  BY DEF Deadlines
<1> HIDE DEF M
<1>5. /\ pumps' \in [Pump -> PumpState]
      /\ pumps'[p].pc = "finish"
      /\ pumps'[p].queueOn = pumps[p].queueOn
      /\ pumps'[p].memo = M
      /\ \A q \in Pump \ {p} : pumps'[q] = pumps[q]
  BY <1>1, <1>3, <1>4 DEF PumpState, Memo
<1> QED
  BY <1>2, <1>5 DEF Deadlines

\* The three sections of a pump.
LEMMA SectionsAre ==
    ASSUME PumpTypeOK, NEW p \in Pump,
           DueLaunches(p) \/ ReadyDependents(p) \/ DispatchQueue(p)
    PROVE  /\ pumps[p].pc \in {"launches", "dependents", "dispatch"}
           /\ pumps'[p].pc \in {"dependents", "dispatch", "settle"}
           /\ pumps' \in [Pump -> PumpState]
           /\ work' \in Board
           /\ \A q \in Pump : /\ q # p => pumps'[q].pc = pumps[q].pc
                              /\ pumps'[q].queueOn = pumps[q].queueOn
                              /\ pumps'[q].memo.kept = pumps[q].memo.kept
           /\ \/ /\ work' = work
                 /\ \A q \in Pump : pumps'[q].memo.same = pumps[q].memo.same
              \/ \A q \in Pump : pumps'[q].memo.same = FALSE
           /\ UNCHANGED <<holder, lockFile, deaths>>
<1>1. work \in Board
  BY DEF PumpTypeOK, Board
<1>2. CASE DueLaunches(p)
  <2>0. Never \in -1 .. LaunchIn
    BY PumpSharingAssumption DEF Never
  <2>1. [work EXCEPT !.launchIn = Never, !.queued = TRUE] \in Board
    BY <1>1, <2>0 DEF Board
  <2>2. Section(p, "launches", "dependents", work.launchIn = 0,
                [work EXCEPT !.launchIn = Never, !.queued = TRUE])
    BY <1>2 DEF DueLaunches
  <2>3. "dependents" \in PumpPc
    BY DEF PumpPc
  <2> QED
    BY <1>1, <2>1, <2>2, <2>3, SectionIs
<1>3. CASE ReadyDependents(p)
  <2>1. [work EXCEPT !.ready = FALSE, !.queued = TRUE] \in Board
    BY <1>1 DEF Board
  <2>2. Section(p, "dependents", "dispatch", work.ready,
                [work EXCEPT !.ready = FALSE, !.queued = TRUE])
    BY <1>3 DEF ReadyDependents
  <2>3. "dispatch" \in PumpPc
    BY DEF PumpPc
  <2> QED
    BY <1>1, <2>1, <2>2, <2>3, SectionIs
<1>4. CASE DispatchQueue(p)
  <2>1. [work EXCEPT !.queued = FALSE, !.slot = FALSE] \in Board
    BY <1>1 DEF Board
  <2>2. Section(p, "dispatch", "settle", work.queued /\ work.slot,
                [work EXCEPT !.queued = FALSE, !.slot = FALSE])
    BY <1>4 DEF DispatchQueue
  <2>3. "settle" \in PumpPc
    BY DEF PumpPc
  <2> QED
    BY <1>1, <2>1, <2>2, <2>3, SectionIs
<1> QED
  BY <1>2, <1>3, <1>4

-----------------------------------------------------------------------------
\* The state stays in its type: every countdown in its period.
THEOREM PumpsTyped == PumpSpec => []PumpTypeOK
<1>1. PumpInit => PumpTypeOK
  BY PumpSharingAssumption
  DEF PumpInit, PumpTypeOK, PumpState, Forgotten, Never
<1>2. PumpTypeOK /\ [PumpNext]_pumpVars => PumpTypeOK'
  <2> SUFFICES ASSUME PumpTypeOK, [PumpNext]_pumpVars PROVE PumpTypeOK'
    OBVIOUS
  <2> USE PumpSharingAssumption
  <2>1. CASE BoardEdit
    BY <2>1, EditIs, WrittenIs DEF PumpTypeOK, Board
  <2>2. CASE Clock
    <3>1. Countdown(lockFile.fresh) \in 0 .. Fresh
      BY DEF Countdown, PumpTypeOK
    <3>2. lockFile' \in [exists : BOOLEAN, fresh : 0 .. Fresh]
      BY <2>2, <3>1 DEF Clock, PumpTypeOK
    <3> QED
      BY <2>2, <3>2, ClockIs DEF Clock, PumpTypeOK, Board
  <2>3. ASSUME NEW p \in Pump, TryLock(p) PROVE PumpTypeOK'
    BY <2>3 DEF TryLock, Go, PumpTypeOK, PumpState
  <2>4. ASSUME NEW p \in Pump, PumpWork(p) PROVE PumpTypeOK'
    <3>1. CASE SkipQuiet(p)
      BY <3>1 DEF SkipQuiet, Go, PumpTypeOK, PumpState
    <3>2. CASE PumpBoard(p)
      BY <3>2 DEF PumpBoard, Forgotten, Never, PumpTypeOK, PumpState
    <3>3. CASE DueLaunches(p) \/ ReadyDependents(p) \/ DispatchQueue(p)
      BY <3>3, SectionsAre DEF PumpTypeOK, Board
    <3>4. CASE Stamp(p)
      <4>1. \A x \in PumpState :
               [x EXCEPT !.pc = "deadlines", !.memo.same = TRUE] \in PumpState
        BY DEF PumpState
      <4> QED
        BY <3>4, <4>1 DEF Stamp, PumpTypeOK
    <3>5. CASE Deadlines(p)
      BY <3>5, DeadlinesAre DEF PumpTypeOK, Board
    <3>6. CASE PumpFinishes(p)
      BY <3>6 DEF PumpFinishes, Go, PumpTypeOK, PumpState
    <3> QED
      BY <2>4, <3>1, <3>2, <3>3, <3>4, <3>5, <3>6 DEF PumpWork
  <2>5. ASSUME NEW p \in Pump, PumpProcessDies(p) PROVE PumpTypeOK'
    BY <2>5 DEF PumpProcessDies, Forgotten, Never, PumpTypeOK, PumpState
  <2>6. CASE UNCHANGED pumpVars
    BY <2>6 DEF pumpVars, PumpTypeOK, PumpState
  <2> QED
    BY <2>1, <2>2, <2>3, <2>4, <2>5, <2>6 DEF PumpNext
<1> QED
  BY <1>1, <1>2, PTL DEF PumpSpec

\* pump.lock is held by one process at a time, and only the one that holds it
\* is in a tick, whoever dies where (exclusive_run).
THEOREM OneProcessTicks == PumpSpec => []OneTicks
<1>1. PumpInit => OneTicks
  BY DEF PumpInit, OneTicks
<1>2. PumpTypeOK /\ OneTicks /\ [PumpNext]_pumpVars => OneTicks'
  <2> SUFFICES ASSUME PumpTypeOK, OneTicks, [PumpNext]_pumpVars
               PROVE  OneTicks'
    OBVIOUS
  <2> USE DEF OneTicks
  <2>1. CASE BoardEdit
    BY <2>1, EditIs, WrittenIs
  <2>2. CASE Clock
    BY <2>2, ClockIs DEF Clock
  <2>3. ASSUME NEW p \in Pump, TryLock(p) PROVE OneTicks'
    BY <2>3 DEF TryLock, Go, PumpTypeOK, PumpState
  <2>4. ASSUME NEW p \in Pump, PumpWork(p) PROVE OneTicks'
    <3>1. CASE SkipQuiet(p)
      BY <3>1 DEF SkipQuiet, Go, PumpTypeOK, PumpState
    <3>2. CASE PumpBoard(p)
      BY <3>2 DEF PumpBoard, PumpTypeOK, PumpState
    <3>3. CASE DueLaunches(p) \/ ReadyDependents(p) \/ DispatchQueue(p)
      BY <3>3, SectionsAre
    <3>4. CASE Stamp(p)
      BY <3>4 DEF Stamp, PumpTypeOK, PumpState
    <3>5. CASE Deadlines(p)
      BY <3>5, DeadlinesAre
    <3>6. CASE PumpFinishes(p)
      BY <3>6 DEF PumpFinishes, Go, PumpTypeOK, PumpState
    <3> QED
      BY <2>4, <3>1, <3>2, <3>3, <3>4, <3>5, <3>6 DEF PumpWork
  <2>5. ASSUME NEW p \in Pump, PumpProcessDies(p) PROVE OneTicks'
    BY <2>5 DEF PumpProcessDies, PumpTypeOK, PumpState
  <2>6. CASE UNCHANGED pumpVars
    BY <2>6 DEF pumpVars
  <2> QED
    BY <2>1, <2>2, <2>3, <2>4, <2>5, <2>6 DEF PumpNext
<1> QED
  BY <1>1, <1>2, PumpsTyped, PTL DEF PumpSpec

\* A memory that holds hides no queued task, whoever queued it and whenever.
THEOREM QuietIsSafe == PumpSpec => []QuietHidesNoQueuedTask
<1>1. ASSUME PumpInit, NEW p \in Pump
      PROVE  pumps[p].pc = "idle" /\ ~ pumps[p].memo.kept
  BY <1>1 DEF PumpInit, Forgotten
<1>2. PumpTypeOK /\ Remembered /\ [PumpNext]_pumpVars => Remembered'
  <2> SUFFICES ASSUME PumpTypeOK, Remembered, [PumpNext]_pumpVars
               PROVE  Remembered'
    OBVIOUS
  <2> USE DEF Remembered
  <2>1. CASE BoardEdit
    BY <2>1, EditIs, WrittenIs
  <2>2. CASE Clock
    BY <2>2, ClockIs DEF Clock
  <2>3. ASSUME NEW p \in Pump, TryLock(p) PROVE Remembered'
    BY <2>3 DEF TryLock, Go, PumpTypeOK, PumpState
  <2>4. ASSUME NEW p \in Pump, PumpWork(p) PROVE Remembered'
    <3>1. CASE SkipQuiet(p)
      BY <3>1 DEF SkipQuiet, Go, PumpTypeOK, PumpState
    <3>2. CASE PumpBoard(p)
      BY <3>2 DEF PumpBoard, Forgotten, PumpTypeOK, PumpState
    <3>3. CASE DueLaunches(p) \/ ReadyDependents(p) \/ DispatchQueue(p)
      BY <3>3, SectionsAre
    <3>4. CASE Stamp(p)
      BY <3>4 DEF Stamp, PumpTypeOK, PumpState
    <3>5. CASE Deadlines(p)
      BY <3>5, DeadlinesAre
    <3>6. CASE PumpFinishes(p)
      BY <3>6 DEF PumpFinishes, Go, PumpTypeOK, PumpState
    <3> QED
      BY <2>4, <3>1, <3>2, <3>3, <3>4, <3>5, <3>6 DEF PumpWork
  <2>5. ASSUME NEW p \in Pump, PumpProcessDies(p) PROVE Remembered'
    BY <2>5 DEF PumpProcessDies, Forgotten, PumpTypeOK, PumpState
  <2>6. CASE UNCHANGED pumpVars
    BY <2>6 DEF pumpVars
  <2> QED
    BY <2>1, <2>2, <2>3, <2>4, <2>5, <2>6 DEF PumpNext
<1>3. Remembered => QuietHidesNoQueuedTask
  BY DEF Remembered, QuietHidesNoQueuedTask, Holds
<1>4. PumpInit => Remembered
  BY <1>1 DEF Remembered
<1> QED
  BY <1>4, <1>2, <1>3, PumpsTyped, PTL DEF PumpSpec

-----------------------------------------------------------------------------
(* ExecutorPools                                                           *)

Fields == {"status", "phase", "run", "restart", "crashes", "pooled", "index",
           "on"}

\* The walk and the failover ask for the profile of the task and for nothing
\* else: what keeps a reassigned node out of its pool is that the answer took
\* the profile, and that nothing gives it back.
OutOfPool == answered => ~plannode.pooled /\ plannode.on = Other

AnswerInv == DOMAIN plannode = Fields /\ OutOfPool /\ ~stray

\* A step that leaves the profile and the model of the task alone.
KeepsModel ==
    /\ DOMAIN plannode' = DOMAIN plannode
    /\ plannode'.pooled = plannode.pooled
    /\ plannode'.on = plannode.on
    /\ answered' = answered

\* Such a step keeps the answer.
LEMMA KeptModel ==
  ASSUME AnswerInv, KeepsModel, stray' = stray
  PROVE  AnswerInv'
  BY DEF AnswerInv, OutOfPool, KeepsModel

\* A walk starts or parks a task that no answer took out of its pool, and the
\* others it starts as they are.
LEMMA WalkKeepsAnswer ==
  ASSUME AnswerInv, NEW n, DOMAIN n = Fields,
         n.pooled = plannode.pooled, n.on = plannode.on,
         ~IsRunning, answered' = answered,
         \/ Park(n) /\ stray' = stray
         \/ \E run \in {"claimed", "live"} : Start(n, run)
  PROVE  AnswerInv'
  <1>1. CASE Park(n) /\ stray' = stray
    <2>1. n.pooled /\ plannode' = ParkedNode(n)
      BY <1>1 DEF Park, Parks
    <2>2. ~answered
      BY <2>1 DEF AnswerInv, OutOfPool
    <2>3. DOMAIN plannode' = Fields
      BY <2>1 DEF ParkedNode
    <2>4. QED
      BY <1>1, <2>2, <2>3 DEF AnswerInv, OutOfPool
  <1>2. ASSUME NEW run \in {"claimed", "live"}, Start(n, run)
        PROVE  AnswerInv'
    <2>1. /\ plannode' = [Materialized(n) EXCEPT !.phase = "Execute", !.run = run]
          /\ stray' = (stray \/ IsRunning)
      BY <1>2 DEF Start
    <2>2. DOMAIN Materialized(n) = Fields
      BY DEF Materialized
    <2>3. answered => Materialized(n) = n
      BY DEF Materialized, AnswerInv, OutOfPool
    <2>4. DOMAIN plannode' = Fields
      BY <2>1, <2>2
    <2>5. answered => plannode'.pooled = n.pooled /\ plannode'.on = n.on
      BY <2>1, <2>3 DEF Fields
    <2>6. QED
      BY <2>1, <2>4, <2>5 DEF AnswerInv, OutOfPool
  <1>3. QED
    BY <1>1, <1>2

\* The clock and the pumps keep the answer.
LEMMA PumpKeepsAnswer ==
  ASSUME AnswerInv, DeadlinePasses \/ PoolPump
  PROVE  AnswerInv'
  <1>1. CASE DeadlinePasses
    BY <1>1, KeptModel DEF DeadlinePasses, KeepsModel, histories, AnswerInv, Fields
  <1>2. CASE DueRestart
    BY <1>2, KeptModel DEF DueRestart, KeepsModel, histories, AnswerInv, Fields
  <1>3. CASE ClaimParks
    BY <1>3, WalkKeepsAnswer DEF ClaimParks, PoolClaimable, AnswerInv
  <1>4. CASE ClaimStarts
    BY <1>4, WalkKeepsAnswer DEF ClaimStarts, PoolClaimable, AnswerInv
  <1>5. CASE ClaimFull
    BY <1>5, KeptModel DEF ClaimFull, KeepsModel, histories
  <1>6. CASE LaunchClaimed
    BY <1>6, KeptModel DEF LaunchClaimed, KeepsModel, histories, AnswerInv, Fields
  <1>7. QED
    BY <1>1, <1>2, <1>3, <1>4, <1>5, <1>6 DEF PoolPump

\* A run that ends keeps the answer, whatever it reports: a failover asks for
\* the profile.
LEMMA RunKeepsAnswer ==
  ASSUME AnswerInv, PoolRun
  PROVE  AnswerInv'
  <1>1. CASE RunDone
    BY <1>1, KeptModel DEF RunDone, KeepsModel, histories, AnswerInv, Fields
  <1>2. CASE DiesOnLimit
    BY <1>2, KeptModel DEF DiesOnLimit, KeepsModel, histories, AnswerInv, Fields
  <1>3. CASE DiesOtherwise
    BY <1>3, KeptModel DEF DiesOtherwise, KeepsModel, histories, AnswerInv, Fields
  <1>4. CASE FailOver
    <2>1. answered' = answered /\ stray' = stray
      BY <1>4 DEF FailOver
    <2>2. CASE CanFailOver
      <3>1. ~answered
        BY <2>2 DEF CanFailOver, AnswerInv, OutOfPool
      <3>2. DOMAIN plannode' = Fields
        BY <1>4, <2>2 DEF FailOver, AnswerInv
      <3>3. QED
        BY <2>1, <3>1, <3>2 DEF AnswerInv, OutOfPool
    <2>3. CASE ~CanFailOver
      BY <1>4, <2>1, <2>3, KeptModel DEF FailOver, KeepsModel
    <2>4. QED
      BY <2>2, <2>3
  <1>5. CASE BackOff
    <2>1. /\ answered' = answered /\ stray' = stray
          /\ \/ plannode' = plannode
             \/ plannode' = [plannode EXCEPT !.restart = "later",
                                             !.phase = "Queued"]
      BY <1>5 DEF BackOff
    <2>2. QED
      BY <2>1, KeptModel DEF KeepsModel, AnswerInv, Fields
  <1>6. QED
    BY <1>1, <1>2, <1>3, <1>4, <1>5 DEF PoolRun

\* Humans keep the answer, the one who gives it included.
LEMMA HumanKeepsAnswer ==
  ASSUME AnswerInv, PoolHuman
  PROVE  AnswerInv'
  <1>1. CASE AnswerWait
    BY <1>1, KeptModel DEF AnswerWait, KeepsModel, histories
  <1>2. CASE AnswerProvider
    BY <1>2 DEF AnswerProvider, Reassigned, AnswerInv, OutOfPool, Fields
  <1>3. CASE ResumeAnswered
    BY <1>3, KeptModel
    DEF ResumeAnswered, AutoReset, KeepsModel, histories, AnswerInv, Fields
  <1>4. CASE WakeDropped
    BY <1>4, KeptModel DEF WakeDropped, KeepsModel, histories
  <1>5. CASE HumanQueues
    BY <1>5, KeptModel DEF HumanQueues, AutoReset, KeepsModel, AnswerInv, Fields
  <1>6. CASE HumanRuns
    <2> DEFINE n == [AutoReset(plannode) EXCEPT !.status = "InProgress"]
    <2>1. /\ DOMAIN n = Fields
          /\ n.pooled = plannode.pooled /\ n.on = plannode.on
      BY DEF AutoReset, AnswerInv, Fields
    <2>2. /\ ~IsRunning /\ answered' = answered
          /\ \/ Park(n) /\ stray' = stray
             \/ Start(n, "live")
      BY <1>6 DEF HumanRuns
    <2> HIDE DEF n
    <2>3. QED
      BY <2>1, <2>2, WalkKeepsAnswer
  <1>7. CASE HumanStops
    BY <1>7, KeptModel DEF HumanStops, KeepsModel, histories, AnswerInv, Fields
  <1>8. CASE HumanDequeues
    BY <1>8, KeptModel
    DEF HumanDequeues, AutoReset, KeepsModel, histories, AnswerInv, Fields
  <1>9. QED
    BY <1>1, <1>2, <1>3, <1>4, <1>5, <1>6, <1>7, <1>8 DEF PoolHuman

\* Quota, other tasks and the limits worker do not touch the task.
LEMMA EnvironmentKeepsAnswer ==
  ASSUME AnswerInv, Environment
  PROVE  AnswerInv'
  <1>1. plannode' = plannode /\ answered' = answered /\ stray' = stray
    BY DEF Environment, Spend, Reset, Poll, OthersTake, OthersRelease, histories
  <1>2. QED
    BY <1>1, KeptModel DEF KeepsModel

\* Whoever comes first wins: once a human has named a provider for a parked
\* node, no claim, deadline or late limit report takes the node back to its
\* pool, and no run is started over another.
THEOREM AnswerIsFinal == PoolSpec => []FirstToComeWins
  <1>1. PoolInit => AnswerInv
    BY DEF PoolInit, AnswerInv, OutOfPool, Fields
  <1>2. AnswerInv /\ [PoolNext]_poolVars => AnswerInv'
    <2> SUFFICES ASSUME AnswerInv, [PoolNext]_poolVars PROVE AnswerInv'
      OBVIOUS
    <2>1. CASE PoolNext
      BY <2>1, EnvironmentKeepsAnswer, PumpKeepsAnswer, RunKeepsAnswer,
         HumanKeepsAnswer DEF PoolNext
    <2>2. CASE UNCHANGED poolVars
      BY <2>2, KeptModel DEF poolVars, KeepsModel
    <2>3. QED
      BY <2>1, <2>2
  <1>3. AnswerInv => FirstToComeWins
    BY DEF AnswerInv, OutOfPool, FirstToComeWins
  <1>4. QED
    BY <1>1, <1>2, <1>3, PTL DEF PoolSpec

-----------------------------------------------------------------------------
(* DependencyGraph                                                         *)


WellFormed(n) == n \in NodeRecord /\ (n.phase # "None" => n.status = "InProgress")

\* A plan in the making refers to its own keys and to ids.
PlanHeld(r) ==
    r.pc = "plan" =>
        /\ r.task \in Id
        /\ DOMAIN r.ids \subseteq DOMAIN r.plan
        /\ r.left \subseteq DOMAIN r.plan
        /\ \A k \in DOMAIN r.plan : r.plan[k] \subseteq DOMAIN r.plan \cup Id

GraphTyped == TypeOK /\ \A w \in Writer : PlanHeld(writer[w])

-----------------------------------------------------------------------------
(* What the helpers return.                                                *)

LEMMA NodesAre ==
    TypeOK <=> /\ node \in [Id -> NodeRecord]
               /\ \A t \in Id : WellFormed(node[t])
               /\ high \in 0 .. MaxId
               /\ writer \in [Writer -> WriterRecord]
               /\ sweep \in [Sweeper -> SUBSET Id]
               /\ requests \in Nat /\ faults \in Nat
               /\ finished \subseteq Id /\ late \subseteq Id
  BY DEF TypeOK, WellFormed

LEMMA ZeroIsNoId == Nobody \notin Id
  BY DEF Nobody, Id

\* Every node the commands write is well formed.
LEMMA NodeWrites ==
    /\ WellFormed(Gone)
    /\ \A deps \in SUBSET Id, planner \in BOOLEAN, parent \in Id \cup {Nobody} :
          WellFormed(Created(deps, planner, parent))
    /\ \A n : WellFormed(n) =>
          /\ WellFormed(Queued(n))
          /\ WellFormed(JoinCleared(n))
          /\ \A deps \in SUBSET Id : WellFormed([n EXCEPT !.deps = deps])
          /\ \A deps \in SUBSET Id :
                WellFormed([n EXCEPT !.deps = deps, !.planned = TRUE])
          /\ \A a \in {"no", "run", "closing"} :
                WellFormed([n EXCEPT !.active = a])
          /\ \A s \in {"Todo", "InProgress", "Review", "Done", "Archive"},
                a \in {"no", "run", "closing"} :
                WellFormed([n EXCEPT !.status = s, !.phase = "None",
                                     !.active = a])
<1>1. WellFormed(Gone)
  BY DEF Gone, Nobody, WellFormed, NodeRecord
<1>2. ASSUME NEW deps \in SUBSET Id, NEW planner \in BOOLEAN,
             NEW parent \in Id \cup {Nobody}
      PROVE  WellFormed(Created(deps, planner, parent))
  BY <1>1 DEF Created, Gone, WellFormed, NodeRecord
<1>3. ASSUME NEW n, WellFormed(n)
      PROVE  WellFormed(Queued(n)) /\ WellFormed(JoinCleared(n))
  BY <1>3 DEF Queued, JoinCleared, WellFormed, NodeRecord
<1>4. ASSUME NEW n, WellFormed(n), NEW deps \in SUBSET Id
      PROVE  /\ WellFormed([n EXCEPT !.deps = deps])
             /\ WellFormed([n EXCEPT !.deps = deps, !.planned = TRUE])
  BY <1>4 DEF WellFormed, NodeRecord
<1>5. ASSUME NEW n, WellFormed(n), NEW a \in {"no", "run", "closing"}
      PROVE  WellFormed([n EXCEPT !.active = a])
  BY <1>5 DEF WellFormed, NodeRecord
<1>6. ASSUME NEW n, WellFormed(n), NEW a \in {"no", "run", "closing"},
             NEW s \in {"Todo", "InProgress", "Review", "Done", "Archive"}
      PROVE  WellFormed([n EXCEPT !.status = s, !.phase = "None",
                                  !.active = a])
  BY <1>6 DEF WellFormed, NodeRecord
<1> QED
  BY <1>1, <1>2, <1>3, <1>4, <1>5, <1>6

\* One node is written.
LEMMA OneWritten ==
    ASSUME NEW N \in [Id -> NodeRecord], \A t \in Id : WellFormed(N[t]),
           NEW t, NEW r, t \in Id => WellFormed(r)
    PROVE  /\ [N EXCEPT ![t] = r] \in [Id -> NodeRecord]
           /\ \A x \in Id : WellFormed([N EXCEPT ![t] = r][x])
  BY DEF WellFormed

-----------------------------------------------------------------------------
(* The steps keep the type.                                                *)

NodesOK == node \in [Id -> NodeRecord] /\ \A t \in Id : WellFormed(node[t])

LEMMA RunsKeepNodes ==
    ASSUME TypeOK, NEW t \in Id, StartRun(t) \/ RunFinishes(t) \/ RunEnds(t)
    PROVE  NodesOK'
<1>1. node \in [Id -> NodeRecord] /\ \A x \in Id : WellFormed(node[x])
  BY NodesAre
<1>2. ASSUME NEW r, WellFormed(r), node' = [node EXCEPT ![t] = r]
      PROVE  NodesOK'
  BY <1>1, <1>2, OneWritten DEF NodesOK
<1>3. CASE StartRun(t)
  <2> DEFINE ph == IF node[t].planner /\ ~ node[t].planned
                   THEN "Orchestrate" ELSE "Execute"
  <2>1. node' = [node EXCEPT ![t] = [node[t] EXCEPT !.active = "run",
                                                    !.phase = ph]]
    BY <1>3 DEF StartRun
  <2>2. ph \in {"Orchestrate", "Execute"}
    OBVIOUS
  <2> HIDE DEF ph
  <2>3. WellFormed([node[t] EXCEPT !.active = "run", !.phase = ph])
    <3>1. node[t].status = "InProgress" /\ WellFormed(node[t])
      BY <1>1, <1>3 DEF StartRun
    <3> QED
      BY <2>2, <3>1 DEF WellFormed, NodeRecord
  <2> QED
    BY <1>2, <2>1, <2>3
<1>4. CASE RunFinishes(t)
  <2>1. WellFormed([node[t] EXCEPT !.status = "Review", !.phase = "None",
                                   !.active = "no"])
    BY <1>1, NodeWrites
  <2> QED
    BY <1>2, <1>4, <2>1 DEF RunFinishes
<1>5. CASE RunEnds(t)
  <2>1. WellFormed([node[t] EXCEPT !.active = "no"])
    BY <1>1, NodeWrites
  <2> QED
    BY <1>2, <1>5, <2>1 DEF RunEnds
<1> QED
  BY <1>3, <1>4, <1>5

LEMMA QueueKeepsNodes ==
    ASSUME TypeOK, NEW t \in Id, QueueRun(t)
    PROVE  NodesOK'
<1>1. node \in [Id -> NodeRecord] /\ \A x \in Id : WellFormed(node[x])
  BY NodesAre
<1>2. WellFormed(IF Queueable(node[t]) THEN Queued(node[t]) ELSE node[t])
  BY <1>1, NodeWrites
<1> QED
  BY <1>1, <1>2, OneWritten DEF QueueRun, NodesOK

LEMMA CreateKeepsNodes ==
    ASSUME TypeOK, NEW t, NEW r, WellFormed(r), Create(t, r)
    PROVE  NodesOK' /\ high' \in 0 .. MaxId
<1>1. /\ node \in [Id -> NodeRecord] /\ \A x \in Id : WellFormed(node[x])
      /\ high \in 0 .. MaxId
  BY NodesAre
<1>2. t \in 0 .. MaxId
  BY GraphAssumption DEF Create, Id
<1> QED
  BY <1>1, <1>2, OneWritten DEF Create, NodesOK

LEMMA HumansKeepNodes ==
    ASSUME TypeOK, HumanStep
    PROVE  NodesOK' /\ high' \in 0 .. MaxId
<1>1. /\ node \in [Id -> NodeRecord] /\ \A x \in Id : WellFormed(node[x])
      /\ high \in 0 .. MaxId
  BY NodesAre
<1>2. ASSUME NEW t \in Id, NEW r, WellFormed(r),
             node' = [node EXCEPT ![t] = r], UNCHANGED high
      PROVE  NodesOK' /\ high' \in 0 .. MaxId
  BY <1>1, <1>2, OneWritten DEF NodesOK
<1>3. ASSUME NEW t \in Id, NEW to \in {"Todo", "InProgress", "Review", "Done"},
             HumanMove(t, to)
      PROVE  NodesOK' /\ high' \in 0 .. MaxId
  <2> DEFINE n == IF to = "Todo" THEN JoinCleared(node[t]) ELSE node[t]
             a == IF to = "Done" THEN "no" ELSE node[t].active
             r == [n EXCEPT !.status = to, !.phase = "None", !.active = a]
  <2>1. WellFormed(n)
    BY <1>1, NodeWrites
  <2>2. a \in {"no", "run", "closing"}
    BY <1>1 DEF WellFormed, NodeRecord
  <2>3. node' = [node EXCEPT ![t] = r] /\ UNCHANGED high
    BY <1>3 DEF HumanMove
  <2>4. to \in {"Todo", "InProgress", "Review", "Done", "Archive"}
    OBVIOUS
  <2> HIDE DEF n, a
  <2>5. WellFormed(r)
    BY <2>1, <2>2, <2>4, NodeWrites
  <2> QED
    BY <1>2, <2>3, <2>5
<1>4. ASSUME NEW t \in Id, HumanQueue(t)
      PROVE  NodesOK' /\ high' \in 0 .. MaxId
  BY <1>1, <1>4, QueueKeepsNodes DEF HumanQueue
<1>5. ASSUME NEW t \in Id, Unarchive(t)
      PROVE  NodesOK' /\ high' \in 0 .. MaxId
  <2>1. WellFormed([node[t] EXCEPT !.status = "Todo"])
    BY <1>1, <1>5 DEF Unarchive, WellFormed, NodeRecord
  <2> QED
    BY <1>2, <1>5, <2>1 DEF Unarchive
<1>6. ASSUME NEW t \in Id, Abandon(t)
      PROVE  NodesOK' /\ high' \in 0 .. MaxId
  BY <1>2, <1>6, NodeWrites DEF Abandon
<1>7. CASE ArchiveDone
  <2>1. \A t \in Id : node[t].status = "Done"
                         => WellFormed([node[t] EXCEPT !.status = "Archive"])
    BY <1>1 DEF WellFormed, NodeRecord
  <2>2. /\ node' = [t \in Id |-> IF node[t].status = "Done"
                                 THEN [node[t] EXCEPT !.status = "Archive"]
                                 ELSE node[t]]
        /\ UNCHANGED high
    BY <1>7 DEF ArchiveDone
  <2>3. \A t \in Id : WellFormed(node'[t])
    BY <1>1, <2>1, <2>2
  <2>4. \A t \in Id : node'[t] \in NodeRecord
    BY <2>3 DEF WellFormed
  <2> QED
    BY <1>1, <2>2, <2>3, <2>4 DEF NodesOK
<1>8. ASSUME NEW t \in Id, NEW deps \in SUBSET Id, NEW planner \in BOOLEAN,
             HumanCreate(t, deps, planner)
      PROVE  NodesOK' /\ high' \in 0 .. MaxId
  <2>1. WellFormed(Created(deps, planner, Nobody))
    BY NodeWrites
  <2> QED
    BY <1>8, <2>1, CreateKeepsNodes DEF HumanCreate
<1> QED
  BY <1>3, <1>4, <1>5, <1>6, <1>7, <1>8 DEF HumanStep

\* Names resolve to ids: what a plan wires are edges to tasks.
LEMMA ResolvedAreIds ==
    ASSUME TypeOK, NEW w \in Writer, PlanHeld(writer[w]),
           writer[w].pc = "plan", AllCreated(w)
    PROVE  \A k \in writer[w].left :
              /\ writer[w].ids[k] \in Id
              /\ Resolve(writer[w].ids, writer[w].plan[k]) \in SUBSET Id
<1> DEFINE r == writer[w]
<1>1. r \in WriterRecord
  BY DEF TypeOK
<1>2. PICK K \in SUBSET Key : r.ids \in [K -> Id]
  BY <1>1 DEF WriterRecord
<1>3. DOMAIN r.ids = DOMAIN r.plan
  BY DEF AllCreated
<1> QED
  BY <1>2, <1>3 DEF Resolve, PlanHeld

LEMMA WritersKeepNodes ==
    ASSUME TypeOK, NEW w \in Writer, PlanHeld(writer[w]), WriterStep(w)
    PROVE  NodesOK' /\ high' \in 0 .. MaxId
<1>1. /\ node \in [Id -> NodeRecord] /\ \A x \in Id : WellFormed(node[x])
      /\ high \in 0 .. MaxId
  BY NodesAre
<1>2. ASSUME NEW t, NEW r, t \in Id => WellFormed(r),
             node' = [node EXCEPT ![t] = r], UNCHANGED high
      PROVE  NodesOK' /\ high' \in 0 .. MaxId
  BY <1>1, <1>2, OneWritten DEF NodesOK
<1>3. ASSUME UNCHANGED <<node, high>>
      PROVE  NodesOK' /\ high' \in 0 .. MaxId
  BY <1>1, <1>3 DEF NodesOK
<1>4. writer[w] \in WriterRecord
  BY DEF TypeOK
<1>5. CASE DependsWrite(w)
  <2> DEFINE t == writer[w].task
  <2>1. writer[w].want \in SUBSET Id
    BY <1>4 DEF WriterRecord
  <2>2. CASE t \in Existing
    <3>1. node' = [node EXCEPT ![t] = [node[t] EXCEPT !.deps = writer[w].want]]
          /\ UNCHANGED high
      BY <1>5, <2>2 DEF DependsWrite
    <3> QED
      BY <1>1, <1>2, <2>1, <3>1, NodeWrites
  <2>3. CASE t \notin Existing
    BY <1>3, <1>5, <2>3 DEF DependsWrite
  <2> QED
    BY <2>2, <2>3
<1>6. ASSUME NEW k \in Key, NEW t \in Id, PlanCreate(w, k, t)
      PROVE  NodesOK' /\ high' \in 0 .. MaxId
  <2>1. writer[w].task \in Id \cup {Nobody}
    BY <1>4 DEF WriterRecord
  <2>2. WellFormed(Created({}, FALSE, writer[w].task))
    BY <2>1, NodeWrites
  <2> QED
    BY <1>6, <2>2, CreateKeepsNodes DEF PlanCreate
<1>7. ASSUME NEW k \in Key, PlanWire(w, k)
      PROVE  NodesOK' /\ high' \in 0 .. MaxId
  <2> DEFINE t == writer[w].ids[k]
             deps == Resolve(writer[w].ids, writer[w].plan[k])
  <2>1. deps \in SUBSET Id
    BY <1>7, ResolvedAreIds DEF PlanWire
  <2>2. CASE t \in Existing
    <3>1. node' = [node EXCEPT ![t] = [node[t] EXCEPT !.deps = deps]]
          /\ UNCHANGED high
      BY <1>7, <2>2 DEF PlanWire
    <3> HIDE DEF deps
    <3> QED
      BY <1>1, <1>2, <2>1, <3>1, NodeWrites
  <2>3. CASE t \notin Existing
    BY <1>3, <1>7, <2>3 DEF PlanWire
  <2> QED
    BY <2>2, <2>3
<1>8. CASE PlanJoin(w)
  <2> DEFINE t == writer[w].task
  <2>1. Range(writer[w].ids) \in SUBSET Id
    BY <1>4 DEF WriterRecord, Range
  <2>2. CASE t \in Existing
    <3>1. node' = [node EXCEPT ![t] = [node[t] EXCEPT
                      !.deps = Range(writer[w].ids), !.planned = TRUE]]
          /\ UNCHANGED high
      BY <1>8, <2>2 DEF PlanJoin
    <3> QED
      BY <1>1, <1>2, <2>1, <3>1, NodeWrites
  <2>3. CASE t \notin Existing
    BY <1>3, <1>8, <2>3 DEF PlanJoin
  <2> QED
    BY <2>2, <2>3
<1>9. ASSUME NEW t \in Id, FinishPlanning(w, t)
      PROVE  NodesOK' /\ high' \in 0 .. MaxId
  <2>1. WellFormed([node[t] EXCEPT !.status = "Todo", !.phase = "None",
                                   !.active = "closing"])
    BY <1>1, NodeWrites
  <2> QED
    BY <1>2, <1>9, <2>1 DEF FinishPlanning
<1>10. CASE PlanClose(w)
  <2> DEFINE t == writer[w].task
             a == IF node[t].active = "closing" THEN "no" ELSE node[t].active
  <2>1. node' = [node EXCEPT ![t] = [node[t] EXCEPT !.active = a]]
        /\ UNCHANGED high
    BY <1>10 DEF PlanClose
  <2>2. t \in Id => a \in {"no", "run", "closing"}
    BY <1>1 DEF NodeRecord
  <2> HIDE DEF a
  <2> QED
    BY <1>1, <1>2, <2>1, <2>2, NodeWrites
<1>11. ASSUME NEW t \in Id, RootQueue(w, t)
       PROVE  NodesOK' /\ high' \in 0 .. MaxId
  BY <1>1, <1>11, QueueKeepsNodes DEF RootQueue
<1>12. CASE \/ \E t \in Id, deps \in SUBSET Id : DependsCheck(w, t, deps)
            \/ \E t \in Id : PlanCheck(w, t)
            \/ RootsList(w) \/ WriterDies(w)
  BY <1>3, <1>12 DEF DependsCheck, PlanCheck, RootsList, WriterDies, files
<1> QED
  BY <1>5, <1>6, <1>7, <1>8, <1>9, <1>10, <1>11, <1>12 DEF WriterStep

\* What a writer remembers stays well formed.
LEMMA WritersStay ==
    ASSUME TypeOK, NEW w \in Writer, PlanHeld(writer[w]), WriterStep(w)
    PROVE  /\ writer' \in [Writer -> WriterRecord]
           /\ PlanHeld(writer'[w])
           /\ \A v \in Writer \ {w} : writer'[v] = writer[v]
<1>1. writer \in [Writer -> WriterRecord] /\ writer[w] \in WriterRecord
  BY DEF TypeOK
<1>2. ASSUME NEW r \in WriterRecord, PlanHeld(r),
             writer' = [writer EXCEPT ![w] = r]
      PROVE  /\ writer' \in [Writer -> WriterRecord]
             /\ PlanHeld(writer'[w])
             /\ \A v \in Writer \ {w} : writer'[v] = writer[v]
  BY <1>1, <1>2
<1>3. IdleWriter \in WriterRecord /\ PlanHeld(IdleWriter)
  <2>1. NoPlan \in Plan
    BY DEF NoPlan, Plan
  <2>2. [k \in {} |-> Nobody] \in UNION {[K -> Id] : K \in SUBSET Key}
    OBVIOUS
  <2>3. IdleWriter \in WriterRecord
    BY <2>1, <2>2 DEF IdleWriter, WriterRecord
  <2> QED
    BY <2>3 DEF IdleWriter, PlanHeld
<1>4. ASSUME NEW t \in Id, NEW deps \in SUBSET Id, DependsCheck(w, t, deps)
      PROVE  /\ writer' \in [Writer -> WriterRecord]
             /\ PlanHeld(writer'[w])
             /\ \A v \in Writer \ {w} : writer'[v] = writer[v]
  <2> DEFINE r == [IdleWriter EXCEPT !.pc = "depends", !.task = t,
                                     !.want = deps]
  <2>1. r \in WriterRecord /\ r.pc = "depends"
    BY <1>3 DEF WriterRecord
  <2>2. PlanHeld(r)
    BY <2>1 DEF PlanHeld
  <2>3. writer' = [writer EXCEPT ![w] = r]
    BY <1>4 DEF DependsCheck
  <2> HIDE DEF r
  <2> QED
    BY <1>2, <2>1, <2>2, <2>3
<1>5. ASSUME NEW t \in Id, PlanCheck(w, t)
      PROVE  /\ writer' \in [Writer -> WriterRecord]
             /\ PlanHeld(writer'[w])
             /\ \A v \in Writer \ {w} : writer'[v] = writer[v]
  <2>1. PICK plan \in Plan :
           /\ Valid(t, plan)
           /\ writer' = [writer EXCEPT ![w] =
                [IdleWriter EXCEPT !.pc = "plan", !.task = t, !.plan = plan,
                           !.left = {k \in DOMAIN plan : plan[k] # {}}]]
    BY <1>5 DEF PlanCheck
  <2> DEFINE rest == {k \in DOMAIN plan : plan[k] # {}}
             r == [IdleWriter EXCEPT !.pc = "plan", !.task = t, !.plan = plan,
                                     !.left = rest]
  <2>2. DOMAIN plan \subseteq Key /\ rest \in SUBSET (Key \cup Id)
    BY DEF Plan
  <2> HIDE DEF rest
  <2>3. /\ r \in WriterRecord
        /\ r.pc = "plan" /\ r.task = t /\ r.plan = plan /\ r.left = rest
        /\ r.ids = IdleWriter.ids
    BY <1>3, <2>2 DEF WriterRecord
  <2>4. DOMAIN r.ids = {}
    BY <2>3 DEF IdleWriter
  <2>5. \A k \in DOMAIN plan : plan[k] \subseteq DOMAIN plan \cup Id
    BY <2>1 DEF Valid, Existing
  <2>6. rest \subseteq DOMAIN plan
    BY DEF rest
  <2>7. PlanHeld(r)
    BY <2>3, <2>4, <2>5, <2>6 DEF PlanHeld
  <2>8. writer' = [writer EXCEPT ![w] = r]
    BY <2>1 DEF rest
  <2> HIDE DEF r
  <2> QED
    BY <1>2, <2>3, <2>7, <2>8
<1>6. ASSUME NEW k \in Key, NEW t \in Id, PlanCreate(w, k, t)
      PROVE  /\ writer' \in [Writer -> WriterRecord]
             /\ PlanHeld(writer'[w])
             /\ \A v \in Writer \ {w} : writer'[v] = writer[v]
  <2> DEFINE ids == [x \in DOMAIN writer[w].ids \cup {k} |->
                        IF x = k THEN t ELSE writer[w].ids[x]]
             r == [writer[w] EXCEPT !.ids = ids]
  <2>1. PICK K \in SUBSET Key : writer[w].ids \in [K -> Id]
    BY <1>1 DEF WriterRecord
  <2>2. ids \in [K \cup {k} -> Id] /\ DOMAIN ids = DOMAIN writer[w].ids \cup {k}
    BY <2>1
  <2>3. ids \in UNION {[L -> Id] : L \in SUBSET Key}
    BY <2>2
  <2> HIDE DEF ids
  <2>4. r \in WriterRecord /\ r.ids = ids /\ r.plan = writer[w].plan
        /\ r.left = writer[w].left /\ r.task = writer[w].task
        /\ r.pc = writer[w].pc
    BY <1>1, <2>3 DEF WriterRecord
  <2>5. writer[w].pc = "plan" /\ k \in DOMAIN writer[w].plan
    BY <1>6 DEF PlanCreate
  <2>6. PlanHeld(r)
    BY <2>2, <2>4, <2>5 DEF PlanHeld
  <2>7. writer' = [writer EXCEPT ![w] = r]
    BY <1>6 DEF PlanCreate, ids
  <2> HIDE DEF r
  <2> QED
    BY <1>2, <2>4, <2>6, <2>7
<1>7. ASSUME NEW pc \in {"plan", "closing", "list", "roots"},
             pc = "plan" => pc = writer[w].pc,
             NEW rest \in SUBSET (Key \cup Id),
             pc = "plan" => rest \subseteq writer[w].left,
             writer' = [writer EXCEPT ![w] =
                           [writer[w] EXCEPT !.pc = pc, !.left = rest]]
      PROVE  /\ writer' \in [Writer -> WriterRecord]
             /\ PlanHeld(writer'[w])
             /\ \A v \in Writer \ {w} : writer'[v] = writer[v]
  <2> DEFINE r == [writer[w] EXCEPT !.pc = pc, !.left = rest]
  <2>1. /\ r \in WriterRecord
        /\ r.pc = pc /\ r.left = rest /\ r.task = writer[w].task
        /\ r.plan = writer[w].plan /\ r.ids = writer[w].ids
    BY <1>1 DEF WriterRecord
  <2>2. PlanHeld(r)
    BY <1>7, <2>1 DEF PlanHeld
  <2> HIDE DEF r
  <2>3. writer' = [writer EXCEPT ![w] = r]
    BY <1>7 DEF r
  <2> QED
    BY <1>2, <2>1, <2>2, <2>3
<1>8. writer[w].left \in SUBSET (Key \cup Id)
  BY <1>1 DEF WriterRecord
<1>9. ASSUME NEW rest,
             writer' = [writer EXCEPT ![w].left = rest]
      PROVE  writer' = [writer EXCEPT ![w] =
                 [writer[w] EXCEPT !.pc = writer[w].pc, !.left = rest]]
  BY <1>1, <1>9 DEF WriterRecord
<1>10. ASSUME NEW pc, writer' = [writer EXCEPT ![w].pc = pc]
       PROVE  writer' = [writer EXCEPT ![w] =
                 [writer[w] EXCEPT !.pc = pc, !.left = writer[w].left]]
  BY <1>1, <1>10 DEF WriterRecord
<1>11. ASSUME NEW k \in Key, PlanWire(w, k)
       PROVE  /\ writer' \in [Writer -> WriterRecord]
              /\ PlanHeld(writer'[w])
              /\ \A v \in Writer \ {w} : writer'[v] = writer[v]
  <2>1. writer[w].pc = "plan"
        /\ writer' = [writer EXCEPT ![w].left = writer[w].left \ {k}]
    BY <1>11 DEF PlanWire
  <2> DEFINE rest == writer[w].left \ {k}
  <2>2. rest \in SUBSET (Key \cup Id) /\ rest \subseteq writer[w].left
    BY <1>8
  <2> HIDE DEF rest
  <2>3. writer' = [writer EXCEPT ![w] =
                      [writer[w] EXCEPT !.pc = writer[w].pc, !.left = rest]]
    BY <1>9, <2>1 DEF rest
  <2> QED
    BY <1>7, <2>1, <2>2, <2>3
<1>12. ASSUME NEW t \in Id, FinishPlanning(w, t)
       PROVE  /\ writer' \in [Writer -> WriterRecord]
              /\ PlanHeld(writer'[w])
              /\ \A v \in Writer \ {w} : writer'[v] = writer[v]
  <2> DEFINE r == [IdleWriter EXCEPT !.pc = "closing", !.task = t]
  <2>1. r \in WriterRecord /\ r.pc = "closing"
    BY <1>3 DEF WriterRecord
  <2>2. PlanHeld(r) /\ writer' = [writer EXCEPT ![w] = r]
    BY <1>12, <2>1 DEF PlanHeld, FinishPlanning
  <2> HIDE DEF r
  <2> QED
    BY <1>2, <2>1, <2>2
<1>13. CASE PlanClose(w)
  <2>1. writer' = [writer EXCEPT ![w].pc = "list"]
    BY <1>13 DEF PlanClose
  <2> QED
    BY <1>7, <1>8, <1>10, <2>1
<1>14. CASE RootsList(w)
  <2> DEFINE roots == Roots(writer[w].task)
  <2>1. CASE roots = {}
    <3>1. writer' = [writer EXCEPT ![w] = IdleWriter]
      BY <1>14, <2>1 DEF RootsList
    <3> QED
      BY <1>2, <1>3, <3>1
  <2>2. CASE roots # {}
    <3>1. writer' = [writer EXCEPT ![w] =
                        [writer[w] EXCEPT !.pc = "roots", !.left = roots]]
      BY <1>14, <2>2 DEF RootsList
    <3>2. roots \in SUBSET (Key \cup Id)
      BY DEF Roots
    <3> HIDE DEF roots
    <3> QED
      BY <1>7, <3>1, <3>2
  <2> QED
    BY <2>1, <2>2
<1>15. ASSUME NEW t \in Id, RootQueue(w, t)
       PROVE  /\ writer' \in [Writer -> WriterRecord]
              /\ PlanHeld(writer'[w])
              /\ \A v \in Writer \ {w} : writer'[v] = writer[v]
  <2>1. CASE writer[w].left = {t}
    <3>1. writer' = [writer EXCEPT ![w] = IdleWriter]
      BY <1>15, <2>1 DEF RootQueue
    <3> QED
      BY <1>2, <1>3, <3>1
  <2>2. CASE writer[w].left # {t}
    <3>1. writer' = [writer EXCEPT ![w].left = writer[w].left \ {t}]
      BY <1>1, <1>15, <2>2 DEF RootQueue
    <3>2. writer[w].pc = "roots"
      BY <1>15 DEF RootQueue
    <3> DEFINE rest == writer[w].left \ {t}
    <3>3. rest \in SUBSET (Key \cup Id)
      BY <1>8
    <3> HIDE DEF rest
    <3>4. writer' = [writer EXCEPT ![w] =
                        [writer[w] EXCEPT !.pc = writer[w].pc, !.left = rest]]
      BY <1>9, <3>1 DEF rest
    <3> QED
      BY <1>7, <3>2, <3>3, <3>4
  <2> QED
    BY <2>1, <2>2
<1>16. CASE DependsWrite(w) \/ PlanJoin(w) \/ WriterDies(w)
  BY <1>2, <1>3, <1>16 DEF DependsWrite, PlanJoin, WriterDies
<1> QED
  BY <1>4, <1>5, <1>6, <1>11, <1>12, <1>13, <1>14, <1>15, <1>16
  DEF WriterStep

-----------------------------------------------------------------------------

LEMMA GraphTypedAlways == Spec => []GraphTyped
<1>1. Init => GraphTyped
  <2> SUFFICES ASSUME Init PROVE GraphTyped
    OBVIOUS
  <2>1. /\ \A t \in Id : WellFormed(node[t])
        /\ node \in [Id -> NodeRecord]
    <3>1. PICK planners \in SUBSET (1 .. InitialTasks) :
             node = [t \in Id |-> IF t <= InitialTasks
                                  THEN Created({}, t \in planners, Nobody)
                                  ELSE Gone]
      BY DEF Init
    <3>2. \A t \in Id : WellFormed(node[t])
      <4> TAKE t \in Id
      <4>1. (t \in planners) \in BOOLEAN
        OBVIOUS
      <4>2. WellFormed(Created({}, t \in planners, Nobody))
        BY <4>1, NodeWrites
      <4> QED
        BY <3>1, <4>2, NodeWrites
    <3> QED
      BY <3>1, <3>2 DEF WellFormed
  <2>2. IdleWriter \in WriterRecord /\ PlanHeld(IdleWriter)
    <3>1. NoPlan \in Plan
      BY DEF NoPlan, Plan
    <3>2. [k \in {} |-> Nobody] \in UNION {[K -> Id] : K \in SUBSET Key}
      OBVIOUS
    <3>3. IdleWriter \in WriterRecord
      BY <3>1, <3>2 DEF IdleWriter, WriterRecord
    <3> QED
      BY <3>3 DEF IdleWriter, PlanHeld
  <2>3. high \in 0 .. MaxId
    BY GraphAssumption DEF Init
  <2> QED
    BY <2>1, <2>2, <2>3, NodesAre DEF Init, GraphTyped
<1>2. GraphTyped /\ [Next]_vars => GraphTyped'
  <2> SUFFICES ASSUME GraphTyped, [Next]_vars PROVE GraphTyped'
    OBVIOUS
  <2>0. /\ TypeOK /\ \A w \in Writer : PlanHeld(writer[w])
        /\ NodesOK /\ high \in 0 .. MaxId
        /\ writer \in [Writer -> WriterRecord]
        /\ sweep \in [Sweeper -> SUBSET Id]
        /\ requests \in Nat /\ faults \in Nat
    BY NodesAre DEF GraphTyped, NodesOK
  <2>1. ASSUME NodesOK', high' \in 0 .. MaxId,
               writer' \in [Writer -> WriterRecord],
               \A w \in Writer : PlanHeld(writer'[w]),
               sweep' \in [Sweeper -> SUBSET Id],
               requests' \in Nat, faults' \in Nat, History
        PROVE  GraphTyped'
    <3>1. finished' \subseteq Id /\ late' \subseteq Id
      BY <2>1 DEF History, Existing
    <3> QED
      BY <2>1, <3>1 DEF GraphTyped, TypeOK, NodesOK, WellFormed
  <2>2. ASSUME NEW t \in Id, StartRun(t) \/ RunFinishes(t) \/ RunEnds(t),
               History
        PROVE  GraphTyped'
    <3>1. NodesOK'
      BY <2>0, <2>2, RunsKeepNodes
    <3> QED
      BY <2>0, <2>1, <2>2, <3>1 DEF StartRun, RunFinishes, RunEnds, Unchanged
  <2>3. ASSUME HumanStep, History PROVE GraphTyped'
    <3>1. NodesOK' /\ high' \in 0 .. MaxId
      BY <2>0, <2>3, HumansKeepNodes
    <3>2. Request
      BY <2>3 DEF HumanStep, HumanMove, HumanQueue, Unarchive, Abandon,
                  ArchiveDone, HumanCreate
    <3> QED
      BY <2>0, <2>1, <2>3, <3>1, <3>2 DEF Request
  <2>4. ASSUME NEW w \in Writer, WriterStep(w), History PROVE GraphTyped'
    <3>1. NodesOK' /\ high' \in 0 .. MaxId
      BY <2>0, <2>4, WritersKeepNodes
    <3>2. /\ writer' \in [Writer -> WriterRecord]
          /\ \A v \in Writer : PlanHeld(writer'[v])
      BY <2>0, <2>4, WritersStay
    <3>3. sweep' = sweep /\ requests' \in Nat /\ faults' \in Nat
      <4>0. CASE \E t \in Id, deps \in SUBSET Id : DependsCheck(w, t, deps)
        BY <2>0, <4>0 DEF DependsCheck
      <4>1. CASE \E t \in Id : PlanCheck(w, t)
        <5>1. PICK t \in Id : PlanCheck(w, t)
          BY <4>1
        <5>2. requests' = requests \/ requests' = requests + 1
          BY <5>1 DEF PlanCheck
        <5>3. sweep' = sweep /\ faults' = faults
          BY <5>1 DEF PlanCheck
        <5> QED
          BY <2>0, <5>2, <5>3
      <4>2. CASE WriterDies(w)
        BY <2>0, <4>2 DEF WriterDies
      <4>3. CASE \/ \E t \in Id : FinishPlanning(w, t) \/ RootQueue(w, t)
                 \/ DependsWrite(w)
                 \/ \E k \in Key, t \in Id : PlanCreate(w, k, t)
                 \/ \E k \in Key : PlanWire(w, k)
                 \/ PlanJoin(w) \/ PlanClose(w) \/ RootsList(w)
        BY <2>0, <4>3 DEF FinishPlanning, RootQueue, DependsWrite, PlanCreate,
                          PlanWire, PlanJoin, PlanClose, RootsList
      <4> QED
        BY <2>4, <4>0, <4>1, <4>2, <4>3 DEF WriterStep
    <3> QED
      BY <2>0, <2>1, <2>4, <3>1, <3>2, <3>3
  <2>5. ASSUME NEW p \in Sweeper, SweepStep(p), History PROVE GraphTyped'
    <3>1. CASE SweepList(p)
      <4>1. sweep' \in [Sweeper -> SUBSET Id]
        BY <2>0, <3>1 DEF SweepList
      <4> QED
        BY <2>0, <2>1, <2>5, <3>1, <4>1 DEF SweepList, files, NodesOK
    <3>2. ASSUME NEW t \in Id, SweepQueue(p, t) PROVE GraphTyped'
      <4>1. NodesOK'
        BY <2>0, <3>2, QueueKeepsNodes DEF SweepQueue
      <4>2. sweep' \in [Sweeper -> SUBSET Id]
        BY <2>0, <3>2 DEF SweepQueue
      <4> QED
        BY <2>0, <2>1, <2>5, <3>2, <4>1, <4>2 DEF SweepQueue
    <3> QED
      BY <2>5, <3>1, <3>2 DEF SweepStep
  <2>6. CASE UNCHANGED vars
    BY <2>0, <2>6 DEF vars, GraphTyped, TypeOK
  <2> QED
    BY <2>2, <2>3, <2>4, <2>5, <2>6 DEF Next, Step
<1> QED
  BY <1>1, <1>2, PTL DEF Spec

\* Every record on the board and in the memory of a command is well formed,
\* and only a task in progress has a phase.
THEOREM GraphTypeCorrect == Spec => []TypeOK
<1>1. GraphTyped => TypeOK
  BY DEF GraphTyped
<1> QED
  BY <1>1, GraphTypedAlways, PTL

-----------------------------------------------------------------------------
\* Ids in use, and ids named by any edge, are no newer than the highest id.
Named ==
    /\ \A t \in Id : node[t].status # "gone" => t <= high
    /\ \A t \in Id : node[t].deps \subseteq 1 .. high
    /\ \A w \in Writer :
          /\ writer[w].pc = "depends" =>
                writer[w].task <= high /\ writer[w].want \subseteq 1 .. high
          /\ writer[w].pc = "plan" =>
                /\ writer[w].task <= high
                /\ \A k \in DOMAIN writer[w].plan :
                      writer[w].plan[k] \subseteq DOMAIN writer[w].plan
                                                  \cup 1 .. high
                /\ \A k \in DOMAIN writer[w].ids : writer[w].ids[k] <= high

\* What a step does to the edges of the board: it drops some, it adds a task
\* that nothing points at, or a writer rewrites those of one task.
Shrinks ==
    /\ high' = high
    /\ \A t \in Id : /\ node'[t].status # "gone" => node[t].status # "gone"
                     /\ node'[t].deps \subseteq node[t].deps
Grows ==
    /\ high' = high + 1 /\ high' \in Id
    /\ node'[high'].deps \subseteq 1 .. high
    /\ \A t \in Id \ {high'} : node'[t] = node[t]
Rewrites(t, deps) ==
    /\ t \in Existing /\ deps \subseteq 1 .. high
    /\ high' = high
    /\ node'[t].deps = deps
    /\ \A x \in Id : /\ node'[x].status = node[x].status
                     /\ x # t => node'[x].deps = node[x].deps

-----------------------------------------------------------------------------
(* What a step does to the edges.                                          *)

LEMMA QueueShrinks ==
    ASSUME TypeOK, NEW t \in Id, QueueRun(t), UNCHANGED high
    PROVE  Shrinks
<1>1. node \in [Id -> NodeRecord]
  BY NodesAre
<1>2. node' = [node EXCEPT ![t] = IF Queueable(node[t]) THEN Queued(node[t])
                                  ELSE node[t]]
  BY DEF QueueRun
<1>3. Queueable(node[t]) => /\ node[t].status # "gone"
                            /\ Queued(node[t]).deps = node[t].deps
  BY <1>1 DEF Queueable, Queued, NodeRecord
<1> QED
  BY <1>1, <1>2, <1>3 DEF Shrinks

LEMMA RunsShrink ==
    ASSUME TypeOK, NEW t \in Id, StartRun(t) \/ RunFinishes(t) \/ RunEnds(t)
    PROVE  Shrinks
<1>1. node \in [Id -> NodeRecord]
  BY NodesAre
<1>2. ASSUME NEW r, r.deps = node[t].deps, node[t].status # "gone",
             node' = [node EXCEPT ![t] = r], UNCHANGED high
      PROVE  Shrinks
  BY <1>1, <1>2 DEF Shrinks
<1>3. CASE StartRun(t)
  <2> DEFINE ph == IF node[t].planner /\ ~ node[t].planned
                   THEN "Orchestrate" ELSE "Execute"
             r == [node[t] EXCEPT !.active = "run", !.phase = ph]
  <2>1. node' = [node EXCEPT ![t] = r] /\ node[t].status # "gone"
        /\ UNCHANGED high
    BY <1>3 DEF StartRun, Unchanged
  <2> HIDE DEF ph
  <2>2. r.deps = node[t].deps
    BY <1>1 DEF NodeRecord
  <2> QED
    BY <1>2, <2>1, <2>2
<1>4. CASE RunFinishes(t)
  <2> DEFINE r == [node[t] EXCEPT !.status = "Review", !.phase = "None",
                                  !.active = "no"]
  <2>1. r.deps = node[t].deps
    BY <1>1 DEF NodeRecord
  <2> QED
    BY <1>2, <1>4, <2>1 DEF RunFinishes, Unchanged
<1>5. CASE RunEnds(t)
  BY <1>1, <1>5 DEF RunEnds, Unchanged, Shrinks, NodeRecord
<1> QED
  BY <1>3, <1>4, <1>5

LEMMA CreateGrows ==
    ASSUME TypeOK, Synced, Named, NEW t, NEW deps \in SUBSET Existing,
           NEW planner, NEW parent, Create(t, Created(deps, planner, parent))
    PROVE  Grows
<1>1. node \in [Id -> NodeRecord] /\ high \in Nat
  BY NodesAre, GraphAssumption
<1>2. t = high + 1 /\ t \in Id /\ high' = t
  BY <1>1 DEF Create, NextId
<1>3. node' = [node EXCEPT ![t] = Created(deps, planner, parent)]
  BY DEF Create
<1>4. Created(deps, planner, parent).deps = deps
  BY DEF Created, Gone
<1>5. deps \subseteq 1 .. high
  BY <1>1 DEF Named, Existing, Id
<1> QED
  BY <1>1, <1>2, <1>3, <1>4, <1>5 DEF Grows

LEMMA HumansShrinkOrGrow ==
    ASSUME TypeOK, Synced, Named, HumanStep
    PROVE  Shrinks \/ Grows
<1>1. node \in [Id -> NodeRecord]
  BY NodesAre
<1>2. ASSUME NEW t \in Id, NEW to \in {"Todo", "InProgress", "Review", "Done"},
             HumanMove(t, to)
      PROVE  Shrinks
  <2> DEFINE n == IF to = "Todo" THEN JoinCleared(node[t]) ELSE node[t]
             a == IF to = "Done" THEN "no" ELSE node[t].active
             r == [n EXCEPT !.status = to, !.phase = "None", !.active = a]
  <2>1. n \in NodeRecord /\ n.deps \subseteq node[t].deps
    BY <1>1 DEF JoinCleared, NodeRecord
  <2>2. node[t].status # "gone" /\ UNCHANGED high
    BY <1>2 DEF HumanMove, Existing
  <2>3. node' = [node EXCEPT ![t] = r]
    BY <1>2 DEF HumanMove
  <2> HIDE DEF n, a
  <2>4. r.deps = n.deps
    BY <2>1 DEF NodeRecord
  <2> QED
    BY <1>1, <2>1, <2>2, <2>3, <2>4 DEF Shrinks
<1>3. ASSUME NEW t \in Id, HumanQueue(t) PROVE Shrinks
  BY <1>3, QueueShrinks DEF HumanQueue
<1>4. ASSUME NEW t \in Id, Unarchive(t) PROVE Shrinks
  BY <1>1, <1>4 DEF Unarchive, Shrinks, NodeRecord
<1>5. ASSUME NEW t \in Id, Abandon(t) PROVE Shrinks
  BY <1>1, <1>5 DEF Abandon, Shrinks, Gone, NodeRecord
<1>6. CASE ArchiveDone
  BY <1>1, <1>6 DEF ArchiveDone, Shrinks, NodeRecord
<1>7. ASSUME NEW t \in Id, NEW deps \in SUBSET Id, NEW planner \in BOOLEAN,
             HumanCreate(t, deps, planner)
      PROVE  Grows
  <2>1. deps \in SUBSET Existing
        /\ Create(t, Created(deps, planner, Nobody))
    BY <1>7 DEF HumanCreate
  <2> QED
    BY <2>1, CreateGrows
<1> QED
  BY <1>2, <1>3, <1>4, <1>5, <1>6, <1>7 DEF HumanStep

LEMMA WritersRewrite ==
    ASSUME TypeOK, Synced, Named, NEW w \in Writer, PlanHeld(writer[w]),
           WriterStep(w)
    PROVE  \/ Shrinks
           \/ \E k \in Key, t \in Id : PlanCreate(w, k, t) /\ Grows
           \/ DependsWrite(w) /\ Rewrites(writer[w].task, writer[w].want)
           \/ \E k \in Key :
                 /\ PlanWire(w, k)
                 /\ Rewrites(writer[w].ids[k],
                             Resolve(writer[w].ids, writer[w].plan[k]))
           \/ PlanJoin(w) /\ Rewrites(writer[w].task, Range(writer[w].ids))
<1>1. node \in [Id -> NodeRecord]
  BY NodesAre
<1>2. ASSUME UNCHANGED <<node, high>> PROVE Shrinks
  BY <1>1, <1>2 DEF Shrinks
<1>3. ASSUME NEW t \in Existing, NEW deps \in SUBSET (1 .. high), NEW r,
             r.status = node[t].status, r.deps = deps,
             node' = [node EXCEPT ![t] = r], UNCHANGED high
      PROVE  Rewrites(t, deps)
  BY <1>1, <1>3 DEF Rewrites, Existing
<1>4. writer[w] \in WriterRecord
  BY DEF TypeOK
<1>5. CASE DependsWrite(w)
  <2> DEFINE t == writer[w].task
  <2>1. writer[w].want \in SUBSET (1 .. high)
    BY <1>5 DEF DependsWrite, Named
  <2>2. CASE t \in Existing
    <3> DEFINE r == [node[t] EXCEPT !.deps = writer[w].want]
    <3>1. node' = [node EXCEPT ![t] = r] /\ UNCHANGED high
      BY <1>5, <2>2 DEF DependsWrite
    <3>2. r.status = node[t].status /\ r.deps = writer[w].want
      BY <1>1, <2>2 DEF Existing, NodeRecord
    <3> QED
      BY <1>3, <1>5, <2>1, <2>2, <3>1, <3>2
  <2>3. CASE t \notin Existing
    BY <1>2, <1>5, <2>3 DEF DependsWrite
  <2> QED
    BY <2>2, <2>3
<1>6. ASSUME NEW k \in Key, NEW t \in Id, PlanCreate(w, k, t) PROVE Grows
  BY <1>6, CreateGrows DEF PlanCreate
<1>7. ASSUME NEW k \in Key, PlanWire(w, k)
      PROVE  \/ Shrinks
             \/ Rewrites(writer[w].ids[k],
                         Resolve(writer[w].ids, writer[w].plan[k]))
  <2> DEFINE t == writer[w].ids[k]
             deps == Resolve(writer[w].ids, writer[w].plan[k])
  <2>1. deps \in SUBSET (1 .. high)
    <3>1. /\ writer[w].pc = "plan" /\ k \in DOMAIN writer[w].plan
          /\ DOMAIN writer[w].ids = DOMAIN writer[w].plan
      BY <1>7 DEF PlanWire, AllCreated, PlanHeld
    <3>2. \A r \in writer[w].plan[k] :
             (IF r \in DOMAIN writer[w].ids THEN writer[w].ids[r] ELSE r)
                \in 1 .. high
      <4>1. \A r \in DOMAIN writer[w].ids : writer[w].ids[r] \in Id
        BY <1>4 DEF WriterRecord
      <4> QED
        BY <3>1, <4>1 DEF Named, Id
    <3> QED
      BY <3>2 DEF Resolve
  <2>2. CASE t \in Existing
    <3> DEFINE r == [node[t] EXCEPT !.deps = deps]
    <3>1. node' = [node EXCEPT ![t] = r] /\ UNCHANGED high
      BY <1>7, <2>2 DEF PlanWire
    <3> HIDE DEF deps
    <3>2. r.status = node[t].status /\ r.deps = deps
      BY <1>1, <2>2 DEF Existing, NodeRecord
    <3>3. Rewrites(t, deps)
      BY <1>3, <2>1, <2>2, <3>1, <3>2
    <3> QED
      BY <3>3 DEF deps
  <2>3. CASE t \notin Existing
    BY <1>2, <1>7, <2>3 DEF PlanWire
  <2> QED
    BY <2>2, <2>3
<1>8. CASE PlanJoin(w)
  <2> DEFINE t == writer[w].task
             deps == Range(writer[w].ids)
  <2>1. deps \in SUBSET (1 .. high)
    <3>1. \A r \in DOMAIN writer[w].ids : writer[w].ids[r] \in Id
      BY <1>4 DEF WriterRecord
    <3>2. \A r \in DOMAIN writer[w].ids : writer[w].ids[r] <= high
      BY <1>8 DEF PlanJoin, Named
    <3> QED
      BY <3>1, <3>2 DEF Range, Id
  <2>2. CASE t \in Existing
    <3> DEFINE r == [node[t] EXCEPT !.deps = deps, !.planned = TRUE]
    <3>1. node' = [node EXCEPT ![t] = r] /\ UNCHANGED high
      BY <1>8, <2>2 DEF PlanJoin
    <3> HIDE DEF deps
    <3>2. r.status = node[t].status /\ r.deps = deps
      BY <1>1, <2>2 DEF Existing, NodeRecord
    <3>3. Rewrites(t, deps)
      BY <1>3, <2>1, <2>2, <3>1, <3>2
    <3> QED
      BY <1>8, <3>3 DEF deps
  <2>3. CASE t \notin Existing
    BY <1>2, <1>8, <2>3 DEF PlanJoin
  <2> QED
    BY <2>2, <2>3
<1>9. ASSUME NEW t \in Id, FinishPlanning(w, t) PROVE Shrinks
  BY <1>1, <1>9 DEF FinishPlanning, IsPlanning, Shrinks, NodeRecord
<1>10. CASE PlanClose(w)
  <2> DEFINE t == writer[w].task
             a == IF node[t].active = "closing" THEN "no" ELSE node[t].active
             r == [node[t] EXCEPT !.active = a]
  <2>1. node' = [node EXCEPT ![t] = r] /\ UNCHANGED high
    BY <1>10 DEF PlanClose
  <2> HIDE DEF a
  <2>2. t \in Id => r.status = node[t].status /\ r.deps = node[t].deps
    BY <1>1 DEF NodeRecord
  <2> QED
    BY <1>1, <2>1, <2>2 DEF Shrinks
<1>11. ASSUME NEW t \in Id, RootQueue(w, t) PROVE Shrinks
  BY <1>11, QueueShrinks DEF RootQueue
<1>12. CASE \/ \E t \in Id, deps \in SUBSET Id : DependsCheck(w, t, deps)
            \/ \E t \in Id : PlanCheck(w, t)
            \/ RootsList(w) \/ WriterDies(w)
  BY <1>2, <1>12 DEF DependsCheck, PlanCheck, RootsList, WriterDies, files
<1> QED
  BY <1>5, <1>6, <1>7, <1>8, <1>9, <1>10, <1>11, <1>12 DEF WriterStep

LEMMA SweepsShrink ==
    ASSUME TypeOK, NEW p \in Sweeper, SweepStep(p)
    PROVE  Shrinks
<1>1. node \in [Id -> NodeRecord]
  BY NodesAre
<1>2. CASE SweepList(p)
  BY <1>1, <1>2 DEF SweepList, files, Shrinks
<1>3. ASSUME NEW t \in Id, SweepQueue(p, t) PROVE Shrinks
  BY <1>3, QueueShrinks DEF SweepQueue
<1> QED
  BY <1>2, <1>3 DEF SweepStep

\* Only a writer rewrites edges.
LEMMA StepEffect ==
    ASSUME GraphTyped, Synced, Named, Step
    PROVE  \/ Shrinks
           \/ Grows
           \/ \E t \in Id, deps \in SUBSET (1 .. high) : Rewrites(t, deps)
<1>1. TypeOK /\ \A w \in Writer : PlanHeld(writer[w])
  BY DEF GraphTyped
<1>2. ASSUME NEW w \in Writer, WriterStep(w)
      PROVE  \/ Shrinks
             \/ Grows
             \/ \E t \in Id, deps \in SUBSET (1 .. high) : Rewrites(t, deps)
  <2>1. \A t, deps : Rewrites(t, deps)
                        => t \in Id /\ deps \in SUBSET (1 .. high)
    BY DEF Rewrites, Existing
  <2> QED
    BY <1>1, <1>2, <2>1, WritersRewrite
<1> QED
  BY <1>1, <1>2, RunsShrink, HumansShrinkOrGrow, SweepsShrink DEF Step

\* Ids are given in order and never twice: what is gone stays gone.
LEMMA BoardAfter ==
    ASSUME GraphTyped, Synced, Named, Step
    PROVE  /\ high' >= high
           /\ \A t \in Id : node'[t].status # "gone" => t <= high'
           /\ \A t \in Id : node'[t].deps \subseteq 1 .. high'
           /\ \A t \in Id : t <= high /\ node[t].status = "gone"
                               => node'[t].status = "gone"
<1>1. high \in Nat
  BY GraphAssumption DEF GraphTyped, TypeOK
<1>0. /\ \A t \in Id : node[t].status # "gone" => t <= high
      /\ \A t \in Id : node[t].deps \subseteq 1 .. high
  BY DEF Named
<1>2. CASE Shrinks
  BY <1>0, <1>1, <1>2 DEF Shrinks
<1>3. CASE Grows
  <2>1. high' = high + 1 /\ high' \in Id /\ 1 .. high \subseteq 1 .. high'
    BY <1>1, <1>3 DEF Grows
  <2>2. \A t \in Id : t = high' \/ node'[t] = node[t]
    BY <1>3 DEF Grows
  <2>3. node'[high'].deps \subseteq 1 .. high
    BY <1>3 DEF Grows
  <2>4. \A t \in Id : t <= high => t # high'
    BY <1>1, <2>1 DEF Id
  <2>5. \A t \in Id : t <= high => t <= high'
    BY <1>1, <2>1 DEF Id
  <2>6. high' <= high' /\ high' >= high
    BY <1>1, <2>1
  <2> QED
    BY <2>1, <2>2, <2>3, <2>4, <2>5, <2>6, <1>0
<1>4. ASSUME NEW t \in Id, NEW deps \in SUBSET (1 .. high), Rewrites(t, deps)
      PROVE  /\ high' >= high
             /\ \A x \in Id : node'[x].status # "gone" => x <= high'
             /\ \A x \in Id : node'[x].deps \subseteq 1 .. high'
             /\ \A x \in Id : x <= high /\ node[x].status = "gone"
                                 => node'[x].status = "gone"
  <2>1. high' = high /\ node'[t].deps \subseteq 1 .. high
    BY <1>4 DEF Rewrites
  <2>2. \A x \in Id : x # t => node'[x].deps = node[x].deps
    BY <1>4 DEF Rewrites
  <2>4. \A x \in Id : node'[x].status = node[x].status
    BY <1>4 DEF Rewrites
  <2>3. \A x \in Id : node'[x].deps \subseteq 1 .. high
    <3> TAKE x \in Id
    <3>1. CASE x = t
      BY <2>1, <3>1
    <3>2. CASE x # t
      BY <1>0, <2>2, <3>2
    <3> QED
      BY <3>1, <3>2
  <2> QED
    BY <1>0, <1>1, <2>1, <2>3, <2>4
<1> QED
  BY <1>2, <1>3, <1>4, StepEffect

\* What a command remembers names no task it has not seen.
LEMMA WritersName ==
    ASSUME TypeOK, Synced, Named, NEW w \in Writer, WriterStep(w),
           high' >= high
    PROVE  /\ writer'[w].pc = "depends" =>
                /\ writer'[w].task <= high'
                /\ writer'[w].want \subseteq 1 .. high'
           /\ writer'[w].pc = "plan" =>
                /\ writer'[w].task <= high'
                /\ \A k \in DOMAIN writer'[w].plan :
                      writer'[w].plan[k] \subseteq DOMAIN writer'[w].plan
                                                   \cup 1 .. high'
                /\ \A k \in DOMAIN writer'[w].ids : writer'[w].ids[k] <= high'
<1>1. /\ writer \in [Writer -> WriterRecord] /\ high \in 0 .. MaxId
      /\ Existing \subseteq 1 .. high
  BY GraphAssumption DEF TypeOK, Named, Existing, Id
<1>2. writer[w] \in WriterRecord
  BY <1>1
<1>3. ASSUME NEW t \in Id, NEW deps \in SUBSET Id, DependsCheck(w, t, deps)
      PROVE  /\ writer'[w].pc = "depends"
             /\ writer'[w].task <= high'
             /\ writer'[w].want \subseteq 1 .. high'
  BY <1>1, <1>3 DEF DependsCheck, IdleWriter, files
<1>4. ASSUME NEW t \in Id, PlanCheck(w, t)
      PROVE  /\ writer'[w].pc = "plan"
             /\ writer'[w].task <= high'
             /\ \A k \in DOMAIN writer'[w].plan :
                      writer'[w].plan[k] \subseteq DOMAIN writer'[w].plan
                                                   \cup 1 .. high'
             /\ \A k \in DOMAIN writer'[w].ids : writer'[w].ids[k] <= high'
  <2>1. PICK plan \in Plan :
           /\ Valid(t, plan)
           /\ writer' = [writer EXCEPT ![w] =
                [IdleWriter EXCEPT !.pc = "plan", !.task = t, !.plan = plan,
                           !.left = {k \in DOMAIN plan : plan[k] # {}}]]
    BY <1>4 DEF PlanCheck
  <2>2. /\ writer'[w].pc = "plan" /\ writer'[w].task = t
        /\ writer'[w].plan = plan /\ DOMAIN writer'[w].ids = {}
    BY <1>1, <2>1 DEF IdleWriter
  <2>3. \A k \in DOMAIN plan : plan[k] \subseteq DOMAIN plan \cup 1 .. high
    BY <1>1, <2>1 DEF Valid
  <2>4. t <= high /\ high' = high
    BY <1>1, <1>4 DEF PlanCheck, files
  <2> QED
    BY <2>2, <2>3, <2>4
<1>5. ASSUME NEW k \in Key, NEW t \in Id, PlanCreate(w, k, t)
      PROVE  /\ writer'[w].pc = "plan" /\ writer[w].pc = "plan"
             /\ writer'[w].task = writer[w].task
             /\ writer'[w].plan = writer[w].plan
             /\ DOMAIN writer'[w].ids = DOMAIN writer[w].ids \cup {k}
             /\ k \notin DOMAIN writer[w].ids
             /\ \A x \in DOMAIN writer'[w].ids :
                   writer'[w].ids[x] = IF x = k THEN high' ELSE writer[w].ids[x]
  <2>1. high' = t /\ writer[w].pc = "plan" /\ k \notin DOMAIN writer[w].ids
    BY <1>1, <1>5 DEF PlanCreate, Create, NextId
  <2>2. writer' = [writer EXCEPT ![w] = [writer[w] EXCEPT !.ids =
           [x \in DOMAIN writer[w].ids \cup {k} |->
               IF x = k THEN t ELSE writer[w].ids[x]]]]
    BY <1>5 DEF PlanCreate
  <2> QED
    BY <1>1, <1>2, <2>1, <2>2 DEF WriterRecord
<1>6. ASSUME NEW k \in Key, PlanWire(w, k)
      PROVE  /\ writer'[w].pc = "plan" /\ writer[w].pc = "plan"
             /\ writer'[w].task = writer[w].task
             /\ writer'[w].plan = writer[w].plan
             /\ writer'[w].ids = writer[w].ids
  BY <1>1, <1>2, <1>6 DEF PlanWire, WriterRecord
<1>7. IdleWriter.pc = "idle" /\ [IdleWriter EXCEPT !.pc = "closing"].pc = "closing"
  BY DEF IdleWriter
<1>8. ASSUME NEW t \in Id, FinishPlanning(w, t)
      PROVE  writer'[w].pc = "closing"
  BY <1>1, <1>8 DEF FinishPlanning, IdleWriter
<1>9. ASSUME NEW t \in Id, RootQueue(w, t)
      PROVE  writer'[w].pc \in {"idle", "roots"}
  BY <1>1, <1>2, <1>7, <1>9 DEF RootQueue, WriterRecord
<1>10. CASE PlanClose(w)
  BY <1>1, <1>2, <1>10 DEF PlanClose, WriterRecord
<1>11. CASE RootsList(w)
  <2>1. writer'[w].pc \in {"idle", "roots"}
    <3>1. CASE Roots(writer[w].task) = {}
      BY <1>1, <1>7, <1>11, <3>1 DEF RootsList
    <3>2. CASE Roots(writer[w].task) # {}
      <4>1. writer' = [writer EXCEPT ![w] = [writer[w] EXCEPT !.pc = "roots",
                                             !.left = Roots(writer[w].task)]]
        BY <1>11, <3>2 DEF RootsList
      <4> HIDE DEF Roots
      <4> QED
        BY <1>1, <1>2, <4>1 DEF WriterRecord
    <3> QED
      BY <3>1, <3>2
  <2> QED
    BY <2>1
<1>12. CASE DependsWrite(w) \/ PlanJoin(w) \/ WriterDies(w)
  BY <1>1, <1>7, <1>12 DEF DependsWrite, PlanJoin, WriterDies
<1>13. CASE \E k \in Key, t \in Id : PlanCreate(w, k, t)
  <2>1. PICK k \in Key, t \in Id : PlanCreate(w, k, t)
    BY <1>13
  <2>2. high' \in Nat
    BY <1>1, <2>1 DEF PlanCreate, Create, NextId
  <2>3. 1 .. high \subseteq 1 .. high'
    BY <1>1, <2>2
  <2>4. /\ writer[w].task <= high
        /\ \A x \in DOMAIN writer[w].plan :
              writer[w].plan[x] \subseteq DOMAIN writer[w].plan \cup 1 .. high
        /\ \A x \in DOMAIN writer[w].ids : writer[w].ids[x] <= high
    BY <1>5, <2>1 DEF Named
  <2>5. writer[w].task \in Int /\ \A x \in DOMAIN writer[w].ids :
                                     writer[w].ids[x] \in Int
    BY <1>2 DEF WriterRecord, Id, Nobody
  <2>6. writer[w].task <= high'
    BY <1>1, <2>2, <2>4, <2>5
  <2>7. \A x \in DOMAIN writer'[w].ids : writer'[w].ids[x] <= high'
    BY <1>1, <1>5, <2>1, <2>2, <2>4, <2>5
  <2> QED
    BY <1>5, <2>1, <2>3, <2>4, <2>6, <2>7
<1>14. CASE \E k \in Key : PlanWire(w, k)
  <2>1. PICK k \in Key : PlanWire(w, k)
    BY <1>14
  <2>2. high' = high
    BY <2>1 DEF PlanWire
  <2> QED
    BY <1>6, <2>1, <2>2 DEF Named
<1> QED
  BY <1>3, <1>4, <1>8, <1>9, <1>10, <1>11, <1>12, <1>13, <1>14 DEF WriterStep

LEMMA NamedStays ==
    ASSUME GraphTyped, GraphTyped', Synced, Named, Step
    PROVE  Named'
<1>1. high' >= high /\ high \in Nat /\ high' \in Nat
  BY BoardAfter, GraphAssumption DEF GraphTyped, TypeOK
<1>2. 1 .. high \subseteq 1 .. high'
  BY <1>1
<1>3. TypeOK /\ \A w \in Writer : PlanHeld(writer[w])
  BY DEF GraphTyped
<1> DEFINE Names(r, h) ==
              /\ r.pc = "depends" => r.task <= h /\ r.want \subseteq 1 .. h
              /\ r.pc = "plan" =>
                   /\ r.task <= h
                   /\ \A k \in DOMAIN r.plan :
                         r.plan[k] \subseteq DOMAIN r.plan \cup 1 .. h
                   /\ \A k \in DOMAIN r.ids : r.ids[k] <= h
<1>4. \A w \in Writer : Names(writer[w], high)
  BY DEF Named
<1>5. ASSUME NEW v \in Writer, writer'[v] = writer[v]
      PROVE  Names(writer'[v], high')
  <2> DEFINE r == writer[v]
  <2>1. r \in WriterRecord
    BY <1>3 DEF TypeOK
  <2>2. r.task \in Int /\ \A k \in DOMAIN r.ids : r.ids[k] \in Int
    BY <2>1 DEF WriterRecord, Id, Nobody
  <2>3. Names(r, high)
    BY <1>4
  <2> HIDE DEF r
  <2>4. Names(r, high')
    BY <1>1, <1>2, <2>2, <2>3
  <2> QED
    BY <1>5, <2>4 DEF r
<1>6. \A v \in Writer : Names(writer'[v], high')
  <2>1. ASSUME NEW w \in Writer, WriterStep(w)
        PROVE  \A v \in Writer : Names(writer'[v], high')
    <3>1. Names(writer'[w], high')
      BY <1>1, <1>3, <2>1, WritersName
    <3>2. \A v \in Writer \ {w} : writer'[v] = writer[v]
      BY <1>3, <2>1, WritersStay
    <3> HIDE DEF Names
    <3> QED
      BY <1>5, <3>1, <3>2
  <2>2. CASE \/ \E t \in Id : StartRun(t) \/ RunFinishes(t) \/ RunEnds(t)
             \/ HumanStep
             \/ \E p \in Sweeper : SweepStep(p)
    <3>1. writer' = writer
      BY <2>2 DEF StartRun, RunFinishes, RunEnds, Unchanged, HumanStep,
                  HumanMove, HumanQueue, Unarchive, Abandon, ArchiveDone,
                  HumanCreate, Request, SweepStep, SweepList, SweepQueue
    <3> HIDE DEF Names
    <3> QED
      BY <1>5, <3>1
  <2> HIDE DEF Names
  <2> QED
    BY <2>1, <2>2 DEF Step
<1> HIDE DEF Names
<1>7. /\ \A t \in Id : node'[t].status # "gone" => t <= high'
      /\ \A t \in Id : node'[t].deps \subseteq 1 .. high'
  BY BoardAfter
<1> QED
  BY <1>6, <1>7 DEF Named, Names

LEMMA NamedAlways == Synced /\ Spec => []Named
<1> SUFFICES ASSUME Synced PROVE Spec => []Named
  OBVIOUS
<1>1. Init => Named
  <2> SUFFICES ASSUME Init PROVE Named
    OBVIOUS
  <2>1. PICK planners : node = [t \in Id |-> IF t <= InitialTasks
              THEN Created({}, t \in planners, Nobody) ELSE Gone]
    BY DEF Init
  <2>3. \A t \in Id : node[t].deps = {}
    BY <2>1 DEF Created, Gone
  <2>4. \A t \in Id : node[t].status # "gone" => t <= high
    BY <2>1 DEF Init, Created, Gone
  <2>2. \A w \in Writer : writer[w].pc = "idle"
    BY DEF Init, IdleWriter
  <2> QED
    BY <2>2, <2>3, <2>4 DEF Named
<1>2. GraphTyped /\ GraphTyped' /\ Named /\ [Next]_vars => Named'
  <2>1. ASSUME UNCHANGED vars, Named PROVE Named'
    BY <2>1 DEF vars, Named
  <2> QED
    BY <2>1, NamedStays DEF Next
<1> QED
  BY <1>1, <1>2, GraphTypedAlways, PTL DEF Spec

-----------------------------------------------------------------------------
(* The AND-join.                                                           *)

\* A finished task is known to be, and a list that nothing overtook holds
\* only tasks whose dependencies are finished or gone.
JoinsHold ==
    /\ \A t \in Id : node[t].status \in {"Review", "Done"} => t \in finished
    /\ \A t \in Id : Listed(t) /\ t \notin late
                        => \A d \in node[t].deps :
                              d \in Existing => d \in finished

\* Only a list queues a task without a human.
LEMMA WhoQueues ==
    ASSUME TypeOK, Step, NEW t \in Id, node[t].phase # "Queued",
           node'[t].phase = "Queued", requests' = requests
    PROVE  Listed(t)
<1>1. node \in [Id -> NodeRecord] /\ requests \in Nat
  BY NodesAre
<1>2. ASSUME NEW x, NEW r, r.phase # "Queued" \/ r.phase = node[x].phase,
             node' = [node EXCEPT ![x] = r]
      PROVE  FALSE
  BY <1>1, <1>2
<1>3. ASSUME NEW x, QueueRun(x) PROVE x = t
  BY <1>1, <1>3 DEF QueueRun
<1>4. ASSUME NEW x \in Id, StartRun(x) \/ RunFinishes(x) \/ RunEnds(x)
      PROVE  FALSE
  <2>1. CASE StartRun(x)
    <3> DEFINE ph == IF node[x].planner /\ ~ node[x].planned
                     THEN "Orchestrate" ELSE "Execute"
               r == [node[x] EXCEPT !.active = "run", !.phase = ph]
    <3>1. ph # "Queued"
      OBVIOUS
    <3>2. node' = [node EXCEPT ![x] = r]
      BY <2>1 DEF StartRun
    <3> HIDE DEF ph
    <3>3. r.phase # "Queued"
      BY <1>1, <3>1 DEF NodeRecord
    <3> QED
      BY <1>2, <3>2, <3>3
  <2>2. CASE RunFinishes(x)
    BY <1>1, <2>2 DEF RunFinishes, NodeRecord
  <2>3. CASE RunEnds(x)
    BY <1>1, <2>3 DEF RunEnds, NodeRecord
  <2> QED
    BY <1>4, <2>1, <2>2, <2>3
<1>5. CASE HumanStep
  <2>1. requests' = requests + 1
    BY <1>5 DEF HumanStep, HumanMove, HumanQueue, Unarchive, Abandon,
                ArchiveDone, HumanCreate, Request
  <2> QED
    BY <1>1, <2>1
<1>6. ASSUME NEW w \in Writer, WriterStep(w) PROVE Listed(t)
  <2>1. ASSUME NEW x \in Id, RootQueue(w, x) PROVE Listed(t)
    BY <1>3, <2>1 DEF RootQueue, Listed
  <2>2. CASE \/ \E x \in Id, deps \in SUBSET Id : DependsCheck(w, x, deps)
             \/ \E x \in Id : PlanCheck(w, x)
             \/ RootsList(w) \/ WriterDies(w)
    BY <2>2 DEF DependsCheck, PlanCheck, RootsList, WriterDies, files
  <2>3. CASE DependsWrite(w)
    BY <1>1, <2>3 DEF DependsWrite, Existing, NodeRecord
  <2>4. ASSUME NEW k \in Key, NEW x \in Id, PlanCreate(w, k, x) PROVE FALSE
    <3>1. Created({}, FALSE, writer[w].task).phase = "None"
      BY DEF Created, Gone
    <3>2. node' = [node EXCEPT ![x] = Created({}, FALSE, writer[w].task)]
      BY <2>4 DEF PlanCreate, Create
    <3> QED
      BY <1>2, <3>1, <3>2
  <2>5. ASSUME NEW k \in Key, PlanWire(w, k) PROVE FALSE
    <3> DEFINE x == writer[w].ids[k]
               deps == Resolve(writer[w].ids, writer[w].plan[k])
               r == [node[x] EXCEPT !.deps = deps]
    <3>1. x \in Existing /\ node' = [node EXCEPT ![x] = r]
      BY <2>5 DEF PlanWire
    <3> HIDE DEF deps, x
    <3>2. r.phase = node[x].phase
      BY <1>1, <3>1 DEF NodeRecord, Existing
    <3> QED
      BY <1>2, <3>1, <3>2
  <2>6. CASE PlanJoin(w)
    <3> DEFINE x == writer[w].task
               deps == Range(writer[w].ids)
               r == [node[x] EXCEPT !.deps = deps, !.planned = TRUE]
    <3>1. x \in Existing /\ node' = [node EXCEPT ![x] = r]
      BY <2>6 DEF PlanJoin
    <3> HIDE DEF deps, x
    <3>2. r.phase = node[x].phase
      BY <1>1, <3>1 DEF NodeRecord, Existing
    <3> QED
      BY <1>2, <3>1, <3>2
  <2>7. ASSUME NEW x \in Id, FinishPlanning(w, x) PROVE FALSE
    BY <1>1, <2>7 DEF FinishPlanning, NodeRecord
  <2>8. CASE PlanClose(w)
    <3> DEFINE x == writer[w].task
               a == IF node[x].active = "closing" THEN "no"
                    ELSE node[x].active
               r == [node[x] EXCEPT !.active = a]
    <3>1. node' = [node EXCEPT ![x] = r]
      BY <2>8 DEF PlanClose
    <3> HIDE DEF a, x
    <3>2. x \in Id => r.phase = node[x].phase
      BY <1>1 DEF NodeRecord
    <3> QED
      BY <1>1, <3>1, <3>2
  <2> QED
    BY <1>6, <2>1, <2>2, <2>3, <2>4, <2>5, <2>6, <2>7, <2>8 DEF WriterStep
<1>7. ASSUME NEW p \in Sweeper, SweepStep(p) PROVE Listed(t)
  <2>1. CASE SweepList(p)
    BY <2>1 DEF SweepList, files
  <2>2. ASSUME NEW x \in Id, SweepQueue(p, x) PROVE Listed(t)
    BY <1>3, <2>2 DEF SweepQueue, Listed
  <2> QED
    BY <1>7, <2>1, <2>2 DEF SweepStep
<1> QED
  BY <1>4, <1>5, <1>6, <1>7 DEF Step

\* A task is listed when all its dependencies are finished or gone.
LEMMA WhoLists ==
    ASSUME GraphTyped, Step, NEW t \in Id, ~ Listed(t), Listed(t)'
    PROVE  node' = node /\ \A d \in node[t].deps : Satisfied(d)
<1>1. TypeOK /\ \A w \in Writer : PlanHeld(writer[w])
  BY DEF GraphTyped
<1>2. sweep \in [Sweeper -> SUBSET Id] /\ writer \in [Writer -> WriterRecord]
  BY <1>1 DEF TypeOK
<1>3. ASSUME UNCHANGED <<writer, sweep>> PROVE FALSE
  BY <1>3 DEF Listed
<1>4. CASE HumanStep \/ \E x \in Id : StartRun(x) \/ RunFinishes(x) \/ RunEnds(x)
  <2>1. UNCHANGED <<writer, sweep>>
    BY <1>4 DEF StartRun, RunFinishes, RunEnds, Unchanged, HumanStep,
                HumanMove, HumanQueue, Unarchive, Abandon, ArchiveDone,
                HumanCreate, Request
  <2> QED
    BY <1>3, <2>1
<1>5. ASSUME NEW p \in Sweeper, SweepStep(p)
      PROVE  node' = node /\ \A d \in node[t].deps : Satisfied(d)
  <2>1. CASE SweepList(p)
    <3>1. writer' = writer /\ node' = node
          /\ sweep' = [sweep EXCEPT ![p] = {x \in Id : IsReadyNode(x)}]
      BY <2>1 DEF SweepList, files
    <3>2. \A q \in Sweeper : q # p => sweep'[q] = sweep[q]
      BY <1>2, <3>1
    <3>3. t \in sweep'[p]
      BY <3>1, <3>2 DEF Listed
    <3>4. IsReadyNode(t)
      BY <1>2, <3>1, <3>3
    <3> QED
      BY <3>1, <3>4 DEF IsReadyNode, Ready
  <2>2. ASSUME NEW x \in Id, SweepQueue(p, x) PROVE FALSE
    <3>1. writer' = writer /\ \A q \in Sweeper : sweep'[q] \subseteq sweep[q]
      BY <1>2, <2>2 DEF SweepQueue
    <3> QED
      BY <3>1 DEF Listed
  <2> QED
    BY <1>5, <2>1, <2>2 DEF SweepStep
<1>6. ASSUME NEW w \in Writer, WriterStep(w)
      PROVE  node' = node /\ \A d \in node[t].deps : Satisfied(d)
  <2>1. \A v \in Writer \ {w} : writer'[v] = writer[v]
    BY <1>1, <1>6, WritersStay
  <2>2. sweep' = sweep
    BY <1>6 DEF WriterStep, DependsCheck, PlanCheck, FinishPlanning, RootQueue,
                DependsWrite, PlanCreate, PlanWire, PlanJoin, PlanClose,
                RootsList, WriterDies
  <2>3. writer'[w].pc = "roots" /\ t \in writer'[w].left
    BY <2>1, <2>2 DEF Listed
  <2>4. IdleWriter.pc = "idle"
    BY DEF IdleWriter
  <2>5. writer[w] \in WriterRecord
    BY <1>2
  <2>6. CASE RootsList(w)
    <3>1. writer' = [writer EXCEPT ![w] =
             IF Roots(writer[w].task) = {} THEN IdleWriter
             ELSE [writer[w] EXCEPT !.pc = "roots",
                                    !.left = Roots(writer[w].task)]]
      BY <2>6 DEF RootsList
    <3>2. CASE Roots(writer[w].task) = {}
      BY <1>2, <2>3, <2>4, <3>1, <3>2
    <3>3. CASE Roots(writer[w].task) # {}
      <4> DEFINE roots == Roots(writer[w].task)
      <4>1. writer' = [writer EXCEPT ![w] =
               [writer[w] EXCEPT !.pc = "roots", !.left = roots]]
        BY <3>1, <3>3
      <4> HIDE DEF roots
      <4>2. writer'[w].left = roots
        BY <1>2, <2>5, <4>1 DEF WriterRecord
      <4>3. t \in Roots(writer[w].task)
        BY <2>3, <4>2 DEF roots
      <4> QED
        BY <2>6, <4>3 DEF Roots, RootsList, files
    <3> QED
      BY <3>2, <3>3
  <2>7. ASSUME NEW x \in Id, RootQueue(w, x) PROVE FALSE
    <3>1. writer[w].pc = "roots"
      BY <2>7 DEF RootQueue
    <3>2. CASE writer[w].left = {x}
      BY <1>2, <2>3, <2>4, <2>7, <3>2 DEF RootQueue
    <3>3. CASE writer[w].left # {x}
      <4>1. writer' = [writer EXCEPT ![w] =
               [writer[w] EXCEPT !.left = writer[w].left \ {x}]]
        BY <2>7, <3>3 DEF RootQueue
      <4>2. writer'[w].left = writer[w].left \ {x}
        BY <1>2, <2>5, <4>1 DEF WriterRecord
      <4> QED
        BY <2>3, <3>1, <4>2 DEF Listed
    <3> QED
      BY <3>2, <3>3
  <2>8. ASSUME writer'[w].pc # "roots" PROVE FALSE
    BY <2>3, <2>8
  <2>9. ASSUME NEW x \in Id, FinishPlanning(w, x) PROVE FALSE
    BY <1>2, <2>8, <2>9 DEF FinishPlanning, IdleWriter
  <2>14. ASSUME NEW x \in Id, NEW deps \in SUBSET Id, DependsCheck(w, x, deps)
         PROVE  FALSE
    BY <1>2, <2>8, <2>14 DEF DependsCheck, IdleWriter
  <2>10. ASSUME NEW x \in Id, PlanCheck(w, x) PROVE FALSE
    <3>1. PICK plan \in Plan :
             writer' = [writer EXCEPT ![w] =
                [IdleWriter EXCEPT !.pc = "plan", !.task = x, !.plan = plan,
                           !.left = {k \in DOMAIN plan : plan[k] # {}}]]
      BY <2>10 DEF PlanCheck
    <3>2. writer'[w].pc = "plan"
      BY <1>2, <3>1 DEF IdleWriter
    <3> QED
      BY <2>8, <3>2
  <2>11. CASE DependsWrite(w) \/ PlanJoin(w) \/ WriterDies(w)
    BY <1>2, <2>3, <2>4, <2>11 DEF DependsWrite, PlanJoin, WriterDies
  <2>12. CASE \E k \in Key, x \in Id : PlanCreate(w, k, x)
    <3>1. PICK k \in Key, x \in Id : PlanCreate(w, k, x)
      BY <2>12
    <3> DEFINE ids == [y \in DOMAIN writer[w].ids \cup {k} |->
                          IF y = k THEN x ELSE writer[w].ids[y]]
    <3>2. writer[w].pc = "plan"
          /\ writer' = [writer EXCEPT ![w] = [writer[w] EXCEPT !.ids = ids]]
      BY <3>1 DEF PlanCreate
    <3> HIDE DEF ids
    <3>3. writer'[w].pc = "plan"
      BY <1>2, <2>5, <3>2 DEF WriterRecord
    <3> QED
      BY <2>8, <3>3
  <2>13. ASSUME NEW k \in Key, PlanWire(w, k) PROVE FALSE
    <3> DEFINE rest == writer[w].left \ {k}
    <3>1. writer[w].pc = "plan"
          /\ writer' = [writer EXCEPT ![w] = [writer[w] EXCEPT !.left = rest]]
      BY <2>13 DEF PlanWire
    <3> HIDE DEF rest
    <3>2. writer'[w].pc = "plan"
      BY <1>2, <2>5, <3>1 DEF WriterRecord
    <3> QED
      BY <2>8, <3>2
  <2>15. CASE PlanClose(w)
    <3>1. writer' = [writer EXCEPT ![w] = [writer[w] EXCEPT !.pc = "list"]]
      BY <2>15 DEF PlanClose
    <3>2. writer'[w].pc = "list"
      BY <1>2, <2>5, <3>1 DEF WriterRecord
    <3> QED
      BY <2>8, <3>2
  <2> QED
    BY <1>6, <2>6, <2>7, <2>9, <2>10, <2>11, <2>12, <2>13, <2>14, <2>15
    DEF WriterStep
<1> QED
  BY <1>4, <1>5, <1>6 DEF Step

LEMMA JoinsHoldOn ==
    ASSUME GraphTyped, Synced, Named, JoinsHold, Step, History
    PROVE  JoinsHold'
<1>2. finished' = {t \in Existing' : \/ t \in finished
                                     \/ node'[t].status \in {"Review", "Done"}}
  BY DEF History
<1>3. \A t \in Id : node'[t].status \in {"Review", "Done"} => t \in finished'
  BY <1>2 DEF Existing
<1>4. ASSUME NEW t \in Id, Listed(t)', t \notin late', NEW d \in node'[t].deps,
             d \in Existing'
      PROVE  d \in finished'
  <2>1. CASE Listed(t)
    <3>1. t \notin late /\ node'[t].deps = node[t].deps
      BY <1>4, <2>1 DEF History
    <3>2. d <= high /\ d \in Id
      BY <1>4, <3>1 DEF Named, Existing, Id
    <3>3. d \in Existing
      BY <1>4, <3>2, BoardAfter DEF Existing
    <3>4. d \in finished
      BY <1>4, <2>1, <3>1, <3>3 DEF JoinsHold
    <3> QED
      BY <1>2, <1>4, <3>4
  <2>2. CASE ~ Listed(t)
    <3>1. node' = node /\ \A x \in node[t].deps : Satisfied(x)
      BY <1>4, <2>2, WhoLists
    <3> QED
      BY <1>2, <1>4, <3>1 DEF Satisfied, Existing
  <2> QED
    BY <2>1, <2>2
<1> QED
  BY <1>3, <1>4 DEF JoinsHold

\* Whatever the board itself queues has had each of its dependencies finished,
\* or they are gone: the sweep and the roots queue from a list that was read
\* without the lock, and a dependency named in it can only finish or go.
THEOREM JoinsAlwaysKept == Synced /\ Spec => JoinsAreKept
<1> SUFFICES ASSUME Synced PROVE Spec => JoinsAreKept
  OBVIOUS
<1>1. Init => JoinsHold
  <2> SUFFICES ASSUME Init PROVE JoinsHold
    OBVIOUS
  <2>1. PICK planners : node = [t \in Id |-> IF t <= InitialTasks
              THEN Created({}, t \in planners, Nobody) ELSE Gone]
    BY DEF Init
  <2>2. \A t \in Id : node[t].deps = {}
                      /\ node[t].status \notin {"Review", "Done"}
    BY <2>1 DEF Created, Gone
  <2> QED
    BY <2>2 DEF JoinsHold
<1>2. GraphTyped /\ Named /\ JoinsHold /\ [Next]_vars => JoinsHold'
  <2>1. ASSUME UNCHANGED vars, JoinsHold PROVE JoinsHold'
    BY <2>1 DEF vars, JoinsHold, Listed, Existing
  <2> QED
    BY <2>1, JoinsHoldOn DEF Next
<1> DEFINE Kept == \A t \in Id :
          /\ node[t].phase # "Queued"
          /\ node'[t].phase = "Queued"
          /\ requests' = requests
          /\ t \notin late
          => \A d \in node[t].deps : d \in Existing => d \in finished
<1>3. GraphTyped /\ JoinsHold /\ [Next]_vars => [Kept]_vars
  BY WhoQueues DEF Next, JoinsHold, GraphTyped
<1> HIDE DEF Kept
<1>4. Spec => [][Kept]_vars
  BY <1>1, <1>2, <1>3, GraphTypedAlways, NamedAlways, PTL DEF Spec
<1> QED
  BY <1>4 DEF Kept, JoinsAreKept

-----------------------------------------------------------------------------
(* Cycles of a graph that is changed.                                      *)

LEMMA Subgraph ==
    ASSUME NEW E, NEW F, DOMAIN F \subseteq DOMAIN E,
           \A x \in DOMAIN F : F[x] \subseteq E[x],
           ~ HasCycle(E)
    PROVE  ~ HasCycle(F)
  BY DEF HasCycle

\* A node that nothing points at, not even itself, closes no cycle.
LEMMA FreshNode ==
    ASSUME NEW E, NEW F, NEW n, DOMAIN F \subseteq DOMAIN E \cup {n},
           \A x \in DOMAIN F : n \notin F[x],
           \A x \in DOMAIN F \ {n} : F[x] \subseteq E[x],
           ~ HasCycle(E)
    PROVE  ~ HasCycle(F)
<1> SUFFICES ASSUME NEW S \in SUBSET DOMAIN F, S # {},
                    \A x \in S : F[x] \cap S # {}
             PROVE  FALSE
  BY DEF HasCycle
<1> DEFINE T == S \ {n}
<1>1. \A x \in S : F[x] \cap T # {}
  OBVIOUS
<1>2. T # {} /\ T \in SUBSET DOMAIN E
  BY <1>1
<1>3. \A x \in T : E[x] \cap T # {}
  BY <1>1
<1> HIDE DEF T
<1> QED
  BY <1>2, <1>3 DEF HasCycle

\* When only edges inside L change, and L is closed under edges, a new cycle
\* lies inside L.
LEMMA CycleInside ==
    ASSUME NEW E, NEW F, NEW L, DOMAIN F = DOMAIN E,
           \A x \in DOMAIN F \ L : F[x] = E[x],
           \A x \in DOMAIN F \cap L : F[x] \subseteq L,
           ~ HasCycle(E), HasCycle(F)
    PROVE  \E S \in SUBSET (DOMAIN F \cap L) :
              S # {} /\ \A x \in S : F[x] \cap S # {}
<1>1. PICK S \in SUBSET DOMAIN F : S # {} /\ \A x \in S : F[x] \cap S # {}
  BY DEF HasCycle
<1> DEFINE T == S \cap L
<1>2. T # {}
  <2> SUFFICES ASSUME T = {} PROVE FALSE
    OBVIOUS
  <2>1. \A x \in S : E[x] \cap S # {}
    BY <1>1
  <2> QED
    BY <1>1, <2>1 DEF HasCycle
<1>3. \A x \in T : F[x] \cap T # {}
  BY <1>1
<1> QED
  BY <1>2, <1>3

-----------------------------------------------------------------------------
(* What a command in flight relies on.                                     *)

\* The tasks there were at validation, with the keys of the plan.
KeptEdges(w, base) ==
    [x \in {y \in Existing : y <= base} \cup DOMAIN writer[w].plan |->
        IF x = writer[w].task THEN DOMAIN writer[w].plan
        ELSE IF x \in DOMAIN writer[w].plan THEN writer[w].plan[x]
        ELSE node[x].deps]

\* A plan validated when base was the highest id: older tasks point at older
\* tasks, the nodes of the plan are newer, and each has no edges yet or those
\* of its plan.
PlanStands(w, base) ==
    LET r == writer[w]
    IN /\ r.task \in 1 .. base
       /\ \A x \in Id : x <= base => node[x].deps \subseteq 1 .. base
       /\ \A k \in DOMAIN r.plan :
             r.plan[k] \subseteq DOMAIN r.plan \cup 1 .. base
       /\ \A k \in DOMAIN r.ids : r.ids[k] > base
       /\ \A j, k \in DOMAIN r.ids : r.ids[j] = r.ids[k] => j = k
       /\ \A k \in DOMAIN r.ids :
             node[r.ids[k]].deps # {} =>
                /\ AllCreated(w)
                /\ node[r.ids[k]].deps \subseteq Resolve(r.ids, r.plan[k])
       /\ ~ HasCycle(KeptEdges(w, base))

LinkStands(w) == ~ HasCycle([Edges EXCEPT ![writer[w].task] = writer[w].want])

\* The inductive invariant.
StaysAcyclic ==
    /\ Acyclic
    /\ \A w \in Writer :
          /\ writer[w].pc = "depends" /\ writer[w].task \in Existing
                => LinkStands(w)
          /\ writer[w].pc = "plan" => \E base \in 0 .. high : PlanStands(w, base)

\* Only a check starts what a command relies on.
LEMMA WhoRelies ==
    ASSUME TypeOK, NEW w \in Writer, WriterStep(w)
    PROVE  /\ writer'[w].pc = "depends" =>
                \E t \in Id, deps \in SUBSET Id : DependsCheck(w, t, deps)
           /\ writer'[w].pc = "plan" =>
                \/ \E t \in Id : PlanCheck(w, t)
                \/ \E k \in Key, t \in Id : PlanCreate(w, k, t)
                \/ \E k \in Key : PlanWire(w, k)
<1>1. writer \in [Writer -> WriterRecord] /\ writer[w] \in WriterRecord
  BY DEF TypeOK
<1>2. IdleWriter.pc = "idle"
  BY DEF IdleWriter
<1>3. ASSUME NEW t \in Id, NEW deps \in SUBSET Id, DependsCheck(w, t, deps)
      PROVE  writer'[w].pc = "depends"
  BY <1>1, <1>3 DEF DependsCheck, IdleWriter
<1>4. ASSUME NEW t \in Id, PlanCheck(w, t)
      PROVE  writer'[w].pc = "plan"
  <2>1. PICK plan \in Plan :
           writer' = [writer EXCEPT ![w] =
                [IdleWriter EXCEPT !.pc = "plan", !.task = t, !.plan = plan,
                           !.left = {k \in DOMAIN plan : plan[k] # {}}]]
    BY <1>4 DEF PlanCheck
  <2> QED
    BY <1>1, <2>1 DEF IdleWriter
<1>5. ASSUME NEW k \in Key, NEW t \in Id, PlanCreate(w, k, t)
      PROVE  writer'[w].pc = "plan"
  <2> DEFINE ids == [x \in DOMAIN writer[w].ids \cup {k} |->
                        IF x = k THEN t ELSE writer[w].ids[x]]
  <2>1. writer[w].pc = "plan"
        /\ writer' = [writer EXCEPT ![w] = [writer[w] EXCEPT !.ids = ids]]
    BY <1>5 DEF PlanCreate
  <2> HIDE DEF ids
  <2> QED
    BY <1>1, <2>1 DEF WriterRecord
<1>6. ASSUME NEW k \in Key, PlanWire(w, k)
      PROVE  writer'[w].pc = "plan"
  <2> DEFINE rest == writer[w].left \ {k}
  <2>1. writer[w].pc = "plan"
        /\ writer' = [writer EXCEPT ![w] = [writer[w] EXCEPT !.left = rest]]
    BY <1>6 DEF PlanWire
  <2> HIDE DEF rest
  <2> QED
    BY <1>1, <2>1 DEF WriterRecord
<1>7. ASSUME NEW t \in Id, FinishPlanning(w, t)
      PROVE  writer'[w].pc = "closing"
  BY <1>1, <1>7 DEF FinishPlanning, IdleWriter
<1>8. ASSUME NEW t \in Id, RootQueue(w, t)
      PROVE  writer'[w].pc \in {"idle", "roots"}
  BY <1>1, <1>2, <1>8 DEF RootQueue, WriterRecord
<1>9. CASE PlanClose(w)
  <2>1. writer'[w].pc = "list"
    BY <1>1, <1>9 DEF PlanClose, WriterRecord
  <2> QED
    BY <2>1
<1>10. CASE RootsList(w)
  <2>1. CASE Roots(writer[w].task) = {}
    BY <1>1, <1>2, <1>10, <2>1 DEF RootsList
  <2>2. CASE Roots(writer[w].task) # {}
    <3> DEFINE roots == Roots(writer[w].task)
    <3>1. writer' = [writer EXCEPT ![w] = [writer[w] EXCEPT !.pc = "roots",
                                                           !.left = roots]]
      BY <1>10, <2>2 DEF RootsList
    <3> HIDE DEF roots
    <3>2. writer'[w].pc = "roots"
      BY <1>1, <3>1 DEF WriterRecord
    <3> QED
      BY <3>2
  <2> QED
    BY <2>1, <2>2
<1>11. CASE DependsWrite(w) \/ PlanJoin(w) \/ WriterDies(w)
  BY <1>1, <1>2, <1>11 DEF DependsWrite, PlanJoin, WriterDies
<1> QED
  BY <1>3, <1>4, <1>5, <1>6, <1>7, <1>8, <1>9, <1>10, <1>11 DEF WriterStep

LEMMA PlanKept ==
    ASSUME GraphTyped, Named, NEW w \in Writer, NEW base \in 0 .. high,
           PlanStands(w, base), writer[w].pc = "plan", writer'[w] = writer[w],
           Shrinks \/ Grows
    PROVE  PlanStands(w, base)'
<1> DEFINE r == writer[w]
<1>0. /\ high \in Nat /\ base \in Nat /\ base <= high
      /\ r.task \in Id /\ \A k \in DOMAIN r.ids : r.ids[k] \in Id
      /\ \A k \in DOMAIN r.ids : r.ids[k] <= high
  BY GraphAssumption DEF GraphTyped, TypeOK, PlanHeld, WriterRecord, Named
<1>1. \A x \in Id : x <= high =>
         /\ node'[x].deps \subseteq node[x].deps
         /\ node'[x].status # "gone" => node[x].status # "gone"
  <2>1. CASE Shrinks
    BY <2>1 DEF Shrinks
  <2>2. CASE Grows
    <3>1. \A x \in Id : x <= high => x # high'
      BY <1>0, <2>2 DEF Grows, Id
    <3>2. \A x \in Id \ {high'} : node'[x] = node[x]
      BY <2>2 DEF Grows
    <3> QED
      BY <3>1, <3>2
  <2> QED
    BY <2>1, <2>2
<1>2. \A x \in Id : x <= base => x <= high
  BY <1>0 DEF Id
<1>3. \A x \in Id : x <= base => node'[x].deps \subseteq 1 .. base
  BY <1>1, <1>2 DEF PlanStands
<1>4. \A k \in DOMAIN r.ids : node'[r.ids[k]].deps \subseteq node[r.ids[k]].deps
  BY <1>0, <1>1
<1>5. ~ HasCycle(KeptEdges(w, base)')
  <2> DEFINE E == KeptEdges(w, base)
             F == KeptEdges(w, base)'
  <2>1. DOMAIN E = {y \in Existing : y <= base} \cup DOMAIN r.plan
        /\ DOMAIN F = {y \in Existing' : y <= base} \cup DOMAIN r.plan
    BY DEF KeptEdges
  <2>2. DOMAIN F \subseteq DOMAIN E
    BY <1>1, <1>2, <2>1 DEF Existing
  <2>3. \A x \in DOMAIN F : F[x] \subseteq E[x]
    <3> TAKE x \in DOMAIN F
    <3>1. x \in DOMAIN E
      BY <2>2
    <3>2. E[x] = IF x = r.task THEN DOMAIN r.plan
                 ELSE IF x \in DOMAIN r.plan THEN r.plan[x] ELSE node[x].deps
      BY <2>1, <3>1 DEF KeptEdges
    <3>3. F[x] = IF x = r.task THEN DOMAIN r.plan
                 ELSE IF x \in DOMAIN r.plan THEN r.plan[x] ELSE node'[x].deps
      BY <2>1 DEF KeptEdges
    <3>4. x \notin DOMAIN r.plan => x \in Id /\ x <= base
      BY <2>1 DEF Existing
    <3> HIDE DEF r, E, F
    <3> QED
      BY <1>1, <1>2, <3>2, <3>3, <3>4
  <2>4. ~ HasCycle(E)
    BY DEF PlanStands
  <2> HIDE DEF E, F
  <2>5. ~ HasCycle(F)
    BY <2>2, <2>3, <2>4, Subgraph
  <2> QED
    BY <2>5 DEF F
<1>6. AllCreated(w)' <=> AllCreated(w)
  BY DEF AllCreated
<1>7. /\ r.task \in 1 .. base
      /\ \A k \in DOMAIN r.plan :
             r.plan[k] \subseteq DOMAIN r.plan \cup 1 .. base
      /\ \A k \in DOMAIN r.ids : r.ids[k] > base
      /\ \A j, k \in DOMAIN r.ids : r.ids[j] = r.ids[k] => j = k
  BY DEF PlanStands
<1>8. \A k \in DOMAIN r.ids :
         node'[r.ids[k]].deps # {} =>
            /\ AllCreated(w)'
            /\ node'[r.ids[k]].deps \subseteq Resolve(r.ids, r.plan[k])
  <2>1. \A k \in DOMAIN r.ids :
         node[r.ids[k]].deps # {} =>
            /\ AllCreated(w)
            /\ node[r.ids[k]].deps \subseteq Resolve(r.ids, r.plan[k])
    BY DEF PlanStands
  <2> HIDE DEF r
  <2> QED
    BY <1>4, <1>6, <2>1
<1>9. writer'[w] = r
  OBVIOUS
<1> HIDE DEF r
<1> QED
  BY <1>3, <1>5, <1>7, <1>8, <1>9 DEF PlanStands

LEMMA PlanBegins ==
    ASSUME GraphTyped, Named, NEW w \in Writer, NEW t \in Id, PlanCheck(w, t)
    PROVE  PlanStands(w, high)'
<1>0. /\ high \in Nat /\ writer \in [Writer -> WriterRecord]
      /\ node' = node /\ high' = high
  BY GraphAssumption DEF GraphTyped, TypeOK, PlanCheck, files
<1>1. PICK plan \in Plan :
           /\ Valid(t, plan)
           /\ writer' = [writer EXCEPT ![w] =
                [IdleWriter EXCEPT !.pc = "plan", !.task = t, !.plan = plan,
                           !.left = {k \in DOMAIN plan : plan[k] # {}}]]
  BY DEF PlanCheck
<1>2. /\ writer'[w].task = t /\ writer'[w].plan = plan
      /\ DOMAIN writer'[w].ids = {}
  BY <1>0, <1>1 DEF IdleWriter
<1>3. t \in Existing /\ \A x \in Existing : x \in 1 .. high
  BY <1>0 DEF PlanCheck, Named, Existing, Id
<1>4. \A k \in DOMAIN plan : plan[k] \subseteq DOMAIN plan \cup 1 .. high
  BY <1>1, <1>3 DEF Valid
<1>5. \A x \in Id : node[x].deps \subseteq 1 .. high
  BY DEF Named
<1>6. ~ HasCycle(KeptEdges(w, high)')
  <2>1. {y \in Existing : y <= high} = Existing
    BY <1>3
  <2>2. Existing' = Existing
    BY <1>0 DEF Existing
  <2>3. KeptEdges(w, high)' = PlannedEdges(t, plan)
    BY <1>0, <1>2, <2>1, <2>2 DEF KeptEdges, PlannedEdges
  <2>4. ~ HasCycle(PlannedEdges(t, plan))
    BY <1>1 DEF Valid
  <2> QED
    BY <2>3, <2>4
<1> QED
  BY <1>0, <1>2, <1>3, <1>4, <1>5, <1>6 DEF PlanStands

\* A task of the plan is created: its id is new and it has no edges yet.
LEMMA PlanMakes ==
    ASSUME GraphTyped, Synced, Named, NEW w \in Writer, NEW base \in 0 .. high,
           PlanStands(w, base), NEW k \in Key, NEW t \in Id,
           PlanCreate(w, k, t)
    PROVE  PlanStands(w, base)'
<1> DEFINE r == writer[w]
           ids == [x \in DOMAIN r.ids \cup {k} |-> IF x = k THEN t ELSE r.ids[x]]
<1>0. /\ high \in Nat /\ base \in Nat /\ base <= high
      /\ \A x \in DOMAIN r.ids : r.ids[x] \in Id /\ r.ids[x] <= high
      /\ r \in WriterRecord /\ writer \in [Writer -> WriterRecord]
      /\ node \in [Id -> NodeRecord]
  BY GraphAssumption DEF GraphTyped, TypeOK, WriterRecord, Named, PlanCreate
<1>1. /\ t = high + 1 /\ k \in DOMAIN r.plan /\ k \notin DOMAIN r.ids
      /\ node' = [node EXCEPT ![t] = Created({}, FALSE, r.task)]
  BY DEF PlanCreate, Create, NextId
<1>2. writer' = [writer EXCEPT ![w] = [r EXCEPT !.ids = ids]]
  BY DEF PlanCreate
<1>3. /\ writer'[w].task = r.task /\ writer'[w].plan = r.plan
      /\ writer'[w].ids = ids
  <2> HIDE DEF ids
  <2> QED
    BY <1>0, <1>2 DEF WriterRecord
<1>4. Created({}, FALSE, r.task).deps = {}
  BY DEF Created, Gone
<1>5. \A x \in Id : x <= base => x # t /\ node'[x] = node[x]
  <2>1. \A x \in Id : x <= base => x # t
    BY <1>0, <1>1 DEF Id
  <2>2. \A x \in Id : x # t => node'[x] = node[x]
    BY <1>0, <1>1
  <2> QED
    BY <2>1, <2>2
<1>6. \A x \in DOMAIN r.ids : r.ids[x] # t /\ node[r.ids[x]].deps = {}
  <2>1. ~ AllCreated(w)
    BY <1>1 DEF AllCreated
  <2>2. \A x \in DOMAIN r.ids : node[r.ids[x]].deps = {}
    BY <2>1 DEF PlanStands
  <2> QED
    BY <1>0, <1>1, <2>2
<1>7. \A x \in DOMAIN ids : node'[ids[x]].deps = {}
  BY <1>0, <1>1, <1>4, <1>6
<1>8. \A x \in DOMAIN ids : ids[x] > base
  BY <1>0, <1>1 DEF PlanStands
<1>9. \A x, y \in DOMAIN ids : ids[x] = ids[y] => x = y
  BY <1>6 DEF PlanStands
<1>10. KeptEdges(w, base)' = KeptEdges(w, base)
  <2>1. {y \in Existing' : y <= base} = {y \in Existing : y <= base}
    BY <1>5 DEF Existing
  <2>2. \A x \in {y \in Existing : y <= base} : node'[x].deps = node[x].deps
    BY <1>5 DEF Existing
  <2> QED
    BY <1>3, <2>1, <2>2 DEF KeptEdges
<1>11. /\ r.task \in 1 .. base
       /\ \A x \in Id : x <= base => node'[x].deps \subseteq 1 .. base
       /\ \A x \in DOMAIN r.plan :
             r.plan[x] \subseteq DOMAIN r.plan \cup 1 .. base
       /\ ~ HasCycle(KeptEdges(w, base)')
  BY <1>5, <1>10 DEF PlanStands
<1> HIDE DEF ids, r
<1> QED
  BY <1>3, <1>7, <1>8, <1>9, <1>11 DEF PlanStands

\* A task of the plan gets its edges: it is the only one that does.
LEMMA PlanWires ==
    ASSUME GraphTyped, Synced, Named, NEW w \in Writer, NEW base \in 0 .. high,
           PlanStands(w, base), NEW k \in Key, PlanWire(w, k)
    PROVE  PlanStands(w, base)'
<1> DEFINE r == writer[w]
           t == r.ids[k]
           deps == Resolve(r.ids, r.plan[k])
<1>0. /\ high \in Nat /\ base \in Nat /\ base <= high
      /\ \A x \in DOMAIN r.ids : r.ids[x] \in Id /\ r.ids[x] > base
      /\ r \in WriterRecord /\ writer \in [Writer -> WriterRecord]
      /\ node \in [Id -> NodeRecord] /\ PlanHeld(r)
  BY GraphAssumption DEF GraphTyped, TypeOK, WriterRecord, Named, PlanStands
<1>1. k \in DOMAIN r.ids /\ AllCreated(w)
  BY <1>0 DEF PlanWire, AllCreated, PlanHeld
<1>2. /\ writer'[w].task = r.task /\ writer'[w].plan = r.plan
      /\ writer'[w].ids = r.ids
  <2> DEFINE rest == r.left \ {k}
  <2>1. writer' = [writer EXCEPT ![w] = [r EXCEPT !.left = rest]]
    BY DEF PlanWire
  <2> HIDE DEF rest
  <2> QED
    BY <1>0, <2>1 DEF WriterRecord
<1>3. /\ t \in Id
      /\ \A x \in Id \ {t} : node'[x] = node[x]
      /\ node'[t].deps \in {node[t].deps, deps}
      /\ node'[t].status = node[t].status
  <2>1. t \in Id
    BY <1>0, <1>1
  <2>2. CASE t \in Existing
    <3>1. node' = [node EXCEPT ![t] = [node[t] EXCEPT !.deps = deps]]
      BY <2>2 DEF PlanWire
    <3> HIDE DEF t, deps
    <3> QED
      BY <1>0, <2>1, <3>1 DEF NodeRecord
  <2>3. CASE t \notin Existing
    BY <2>1, <2>3 DEF PlanWire
  <2> QED
    BY <2>2, <2>3
<1>4. \A x \in Id : x <= base => x # t /\ node'[x] = node[x]
  BY <1>0, <1>1, <1>3 DEF Id
<1>5. \A x \in DOMAIN r.ids :
         node'[r.ids[x]].deps # {} =>
            node'[r.ids[x]].deps \subseteq Resolve(r.ids, r.plan[x])
  <2> TAKE x \in DOMAIN r.ids
  <2>1. node[r.ids[x]].deps # {} =>
            node[r.ids[x]].deps \subseteq Resolve(r.ids, r.plan[x])
    BY DEF PlanStands
  <2>2. CASE x = k
    BY <1>3, <2>1, <2>2
  <2>3. CASE x # k
    <3>1. r.ids[x] \in Id \ {t}
      BY <1>0, <1>1, <2>3 DEF PlanStands
    <3> QED
      BY <1>3, <2>1, <3>1
  <2> QED
    BY <2>2, <2>3
<1>6. KeptEdges(w, base)' = KeptEdges(w, base)
  <2>1. {y \in Existing' : y <= base} = {y \in Existing : y <= base}
    BY <1>4 DEF Existing
  <2>2. \A x \in {y \in Existing : y <= base} : node'[x].deps = node[x].deps
    BY <1>4 DEF Existing
  <2> QED
    BY <1>2, <2>1, <2>2 DEF KeptEdges
<1>7. AllCreated(w)'
  BY <1>1, <1>2 DEF AllCreated
<1>8. /\ r.task \in 1 .. base
      /\ \A x \in Id : x <= base => node'[x].deps \subseteq 1 .. base
      /\ \A x \in DOMAIN r.plan :
             r.plan[x] \subseteq DOMAIN r.plan \cup 1 .. base
      /\ \A x, y \in DOMAIN r.ids : r.ids[x] = r.ids[y] => x = y
      /\ ~ HasCycle(KeptEdges(w, base)')
  BY <1>4, <1>6 DEF PlanStands
<1> HIDE DEF r
<1> QED
  BY <1>0, <1>2, <1>5, <1>7, <1>8 DEF PlanStands

-----------------------------------------------------------------------------
(* The steps keep the board acyclic.                                       *)

LEMMA OtherStepsClose ==
    ASSUME GraphTyped, Named, Acyclic, Shrinks \/ Grows
    PROVE  Acyclic'
<1>0. /\ DOMAIN Edges = Existing /\ DOMAIN Edges' = Existing'
      /\ \A x \in Existing : Edges[x] = node[x].deps
      /\ \A x \in Existing' : Edges'[x] = node'[x].deps
  BY DEF Edges
<1> HIDE DEF Edges
<1>1. CASE Shrinks
  <2>1. DOMAIN Edges' \subseteq DOMAIN Edges
        /\ \A x \in DOMAIN Edges' : Edges'[x] \subseteq Edges[x]
    BY <1>0, <1>1 DEF Shrinks, Existing
  <2>2. ~ HasCycle(Edges')
    BY <2>1, Subgraph DEF Acyclic
  <2> QED
    BY <2>2 DEF Acyclic
<1>2. CASE Grows
  <2>1. /\ high \in Nat /\ high' = high + 1
        /\ node'[high'].deps \subseteq 1 .. high
        /\ \A x \in Id \ {high'} : node'[x] = node[x]
    BY <1>2, GraphAssumption DEF Grows, GraphTyped, TypeOK
  <2>2. high' \notin 1 .. high
    BY <2>1
  <2>3. \A x \in Id : node'[x].deps \subseteq 1 .. high
    BY <2>1 DEF Named
  <2>4. DOMAIN Edges' \subseteq DOMAIN Edges \cup {high'}
    BY <1>0, <2>1 DEF Existing
  <2>5. \A x \in DOMAIN Edges' : high' \notin Edges'[x]
    <3> TAKE x \in DOMAIN Edges'
    <3>1. x \in Id /\ Edges'[x] = node'[x].deps
      BY <1>0 DEF Existing
    <3>2. node'[x].deps \subseteq 1 .. high
      BY <2>3, <3>1
    <3> QED
      BY <2>2, <3>1, <3>2
  <2>6. \A x \in DOMAIN Edges' \ {high'} : Edges'[x] \subseteq Edges[x]
    BY <1>0, <2>1 DEF Existing
  <2>7. ~ HasCycle(Edges')
    BY <2>4, <2>5, <2>6, FreshNode DEF Acyclic
  <2> QED
    BY <2>7 DEF Acyclic
<1> QED
  BY <1>1, <1>2

LEMMA LinkKept ==
    ASSUME GraphTyped, Synced, Named, Step, NEW w \in Writer,
           writer[w].pc = "depends",
           writer'[w] = writer[w], writer[w].task \in Existing',
           writer[w].task \in Existing => LinkStands(w), Shrinks \/ Grows
    PROVE  LinkStands(w)'
<1> DEFINE t == writer[w].task
           want == writer[w].want
           E == [Edges EXCEPT ![t] = want]
           F == [Edges' EXCEPT ![t] = want]
<1>1. /\ t \in Id /\ t <= high /\ want \subseteq 1 .. high
      /\ high \in Nat
  BY GraphAssumption DEF Named, Existing, GraphTyped, TypeOK
<1>2. t \in Existing
  BY <1>1, BoardAfter DEF Existing
<1>3. /\ DOMAIN E = Existing /\ DOMAIN F = Existing'
      /\ \A x \in Existing : E[x] = IF x = t THEN want ELSE node[x].deps
      /\ \A x \in Existing' : F[x] = IF x = t THEN want ELSE node'[x].deps
  BY DEF Edges
<1>4. ~ HasCycle(E)
  BY <1>2 DEF LinkStands
<1> HIDE DEF E, F
<1>5. CASE Shrinks
  <2>1. DOMAIN F \subseteq DOMAIN E /\ \A x \in DOMAIN F : F[x] \subseteq E[x]
    BY <1>3, <1>5 DEF Shrinks, Existing
  <2> QED
    BY <1>4, <2>1, Subgraph DEF LinkStands, F
<1>6. CASE Grows
  <2>1. /\ high' = high + 1
        /\ node'[high'].deps \subseteq 1 .. high
        /\ \A x \in Id \ {high'} : node'[x] = node[x]
    BY <1>6 DEF Grows
  <2>2. high' \notin 1 .. high /\ high' # t
    BY <1>1, <2>1
  <2>3. \A x \in Id : node'[x].deps \subseteq 1 .. high
    BY <2>1 DEF Named
  <2>4. DOMAIN F \subseteq DOMAIN E \cup {high'}
    BY <1>3, <2>1 DEF Existing
  <2>5. \A x \in DOMAIN F : high' \notin F[x]
    BY <1>1, <1>3, <2>2, <2>3 DEF Existing
  <2>6. \A x \in DOMAIN F \ {high'} : F[x] \subseteq E[x]
    BY <1>3, <2>1 DEF Existing
  <2> QED
    BY <1>4, <2>4, <2>5, <2>6, FreshNode DEF LinkStands, F
<1> QED
  BY <1>5, <1>6

\* A cycle that a plan closed would have been one when it was validated.
LEMMA PlanCloses ==
    ASSUME GraphTyped, Acyclic, NEW w \in Writer, NEW base \in Nat,
           PlanStands(w, base), writer[w].pc = "plan", AllCreated(w),
           NEW t, NEW deps, Rewrites(t, deps),
           \/ t = writer[w].task /\ deps = Range(writer[w].ids)
           \/ \E k \in DOMAIN writer[w].ids :
                 /\ t = writer[w].ids[k]
                 /\ deps = Resolve(writer[w].ids, writer[w].plan[k])
    PROVE  Acyclic'
<1> DEFINE ids == writer[w].ids
           plan == writer[w].plan
           task == writer[w].task
           R == Range(ids)
           L == 1 .. base \cup R
           E == Edges
           F == Edges'
           K == KeptEdges(w, base)
<1>0. /\ DOMAIN E = Existing /\ DOMAIN F = Existing'
      /\ \A x \in Existing : E[x] = node[x].deps
      /\ \A x \in Existing' : F[x] = node'[x].deps
  BY DEF Edges
<1>1. /\ DOMAIN ids = DOMAIN plan /\ DOMAIN plan \subseteq Key
      /\ \A k \in DOMAIN ids : ids[k] \in Id /\ ids[k] > base
      /\ task \in Id /\ task <= base
      /\ \A k \in Key : k \notin Id
  BY GraphAssumption DEF GraphTyped, TypeOK, PlanHeld, WriterRecord, Plan,
     AllCreated, PlanStands
<1>2. R = {ids[k] : k \in DOMAIN ids}
  BY DEF Range
<1>3. /\ DOMAIN F = DOMAIN E /\ t \in Id
      /\ node'[t].deps = deps
      /\ \A x \in Id : x # t => node'[x].deps = node[x].deps
  BY <1>0 DEF Rewrites, Existing
<1>4. /\ \A x \in Id : x <= base => node[x].deps \subseteq 1 .. base
      /\ \A k \in DOMAIN plan : plan[k] \subseteq DOMAIN plan \cup 1 .. base
      /\ \A j, k \in DOMAIN ids : ids[j] = ids[k] => j = k
      /\ \A k \in DOMAIN ids : node[ids[k]].deps # {} =>
            node[ids[k]].deps \subseteq Resolve(ids, plan[k])
      /\ ~ HasCycle(K)
  BY DEF PlanStands
<1>5. \/ t = task /\ deps = R
      \/ \E k \in DOMAIN ids : t = ids[k] /\ deps = Resolve(ids, plan[k])
  OBVIOUS
<1>6. \A x \in Existing : x \in Id
  BY DEF Existing
<1>7. \A k \in DOMAIN plan : \A y \in Resolve(ids, plan[k]) :
         \E r \in plan[k] : \/ r \in DOMAIN ids /\ y = ids[r]
                            \/ r \in 1 .. base /\ y = r
  BY <1>1, <1>4 DEF Resolve
<1>8. \A x \in DOMAIN K :
         K[x] = IF x = task THEN DOMAIN plan
                ELSE IF x \in DOMAIN plan THEN plan[x] ELSE node[x].deps
  BY DEF KeptEdges
<1>9. DOMAIN K = {y \in Existing : y <= base} \cup DOMAIN plan
  BY DEF KeptEdges
<1>10. ~ HasCycle(E)
  BY DEF Acyclic
<1> HIDE DEF ids, plan, task, R, E, F, K
<1>11. \A k \in DOMAIN ids : node'[ids[k]].deps \subseteq Resolve(ids, plan[k])
  <2> TAKE k \in DOMAIN ids
  <2>1. CASE ids[k] = t
    <3>1. ids[k] # task
      BY <1>1 DEF Id
    <3>2. PICK j \in DOMAIN ids : t = ids[j] /\ deps = Resolve(ids, plan[j])
      BY <1>5, <2>1, <3>1
    <3>3. j = k
      BY <1>4, <2>1, <3>2
    <3> QED
      BY <1>3, <2>1, <3>2, <3>3
  <2>2. CASE ids[k] # t
    BY <1>1, <1>3, <1>4, <2>2
  <2> QED
    BY <2>1, <2>2
<1>12. \A x \in Id : x <= base /\ x # task => x # t
  BY <1>1, <1>5 DEF Id
<1>13. \A x \in Id : x <= base /\ x # task
                        => /\ node'[x].deps = node[x].deps
                           /\ node'[x].deps \subseteq 1 .. base
  BY <1>3, <1>4, <1>12
<1>14. t = task \/ node'[task].deps = node[task].deps
  BY <1>1, <1>3
<1>15. t = task => node'[task].deps = R
  BY <1>1, <1>3, <1>5 DEF Id
<1>16. \A x \in DOMAIN F \cap L : F[x] \subseteq L
  <2> TAKE x \in DOMAIN F \cap L
  <2>1. x \in Id /\ F[x] = node'[x].deps
    BY <1>0, <1>3, <1>6
  <2>2. CASE x \in R
    <3>1. PICK k \in DOMAIN ids : x = ids[k]
      BY <1>2, <2>2
    <3>2. \A y \in F[x] : y \in Resolve(ids, plan[k])
      BY <1>11, <2>1, <3>1
    <3>3. \A y \in Resolve(ids, plan[k]) : y \in L
      BY <1>1, <1>2, <1>7
    <3> QED
      BY <3>2, <3>3
  <2>3. CASE x \in 1 .. base /\ x # task
    BY <1>13, <2>1, <2>3
  <2>4. CASE x = task
    BY <1>1, <1>4, <1>14, <1>15, <2>1, <2>4
  <2> QED
    BY <2>2, <2>3, <2>4
<1>17. \A x \in DOMAIN F \ L : F[x] = E[x]
  <2>1. t \in L
    BY <1>1, <1>2, <1>5 DEF Id
  <2> QED
    BY <1>0, <1>3, <1>6, <2>1
<1>18. ASSUME HasCycle(F) PROVE FALSE
  <2>1. PICK S \in SUBSET (DOMAIN F \cap L) :
           S # {} /\ \A x \in S : F[x] \cap S # {}
    <3> HIDE DEF L
    <3> QED
      BY <1>3, <1>10, <1>16, <1>17, <1>18, CycleInside
  <2>2. \A x \in S : x \in Existing /\ x \in Id /\ F[x] = node'[x].deps
    BY <1>0, <1>3, <1>6
  <2>3. \A x \in S : node'[x].deps \cap S # {}
    BY <2>1, <2>2
  <2>4. CASE t # task /\ \E x \in S : x <= base
    <3> DEFINE T == {x \in S : x <= base}
    <3>1. T # {} /\ T \in SUBSET DOMAIN E
      BY <1>0, <2>2, <2>4
    <3>2. \A x \in T : E[x] \cap T # {}
      <4> TAKE x \in T
      <4>1. node[x].deps \subseteq 1 .. base /\ node'[x].deps = node[x].deps
        BY <1>4, <1>13, <1>14, <2>2, <2>4
      <4>2. PICK y \in node'[x].deps \cap S : TRUE
        BY <2>3
      <4> QED
        BY <1>0, <2>2, <4>1, <4>2
    <3> HIDE DEF T
    <3> QED
      BY <1>10, <3>1, <3>2 DEF HasCycle
  <2>5. CASE t = task \/ ~ \E x \in S : x <= base
    <3> DEFINE T == {x \in S : x <= base} \cup {k \in DOMAIN ids : ids[k] \in S}
    <3>1. \A y \in S : \/ y <= base
                       \/ \E k \in DOMAIN ids : y = ids[k]
      BY <1>2, <2>1
    <3>2. T # {}
      BY <2>1, <3>1
    <3>3. T \in SUBSET DOMAIN K
      BY <1>1, <1>9, <2>2
    <3>4. \A x \in T : K[x] \cap T # {}
      <4> TAKE x \in T
      <4>1. CASE x \in S /\ x <= base /\ x # task
        <5>1. x \in Id /\ x \notin DOMAIN plan
          BY <1>1, <2>2, <4>1
        <5>2. K[x] = node[x].deps
          BY <1>8, <3>3, <4>1, <5>1
        <5>3. PICK y \in node'[x].deps \cap S : TRUE
          BY <2>3, <4>1
        <5>4. y \in node[x].deps /\ y <= base
          BY <1>13, <4>1, <5>1, <5>3
        <5> QED
          BY <5>2, <5>3, <5>4
      <4>2. CASE x \in S /\ x = task
        <5>1. t = task
          BY <1>1, <2>5, <4>2
        <5>2. PICK y \in R \cap S : TRUE
          BY <1>15, <2>3, <4>2, <5>1
        <5>3. PICK k \in DOMAIN ids : y = ids[k]
          BY <1>2, <5>2
        <5> QED
          BY <1>1, <1>8, <3>3, <4>2, <5>2, <5>3
      <4>3. CASE x \in DOMAIN ids /\ ids[x] \in S
        <5>1. x \in DOMAIN plan /\ x # task
          BY <1>1, <4>3
        <5>2. K[x] = plan[x]
          BY <1>8, <3>3, <5>1
        <5>3. PICK y \in node'[ids[x]].deps \cap S : TRUE
          BY <2>3, <4>3
        <5>4. PICK q \in plan[x] : \/ q \in DOMAIN ids /\ y = ids[q]
                                   \/ q \in 1 .. base /\ y = q
          BY <1>7, <1>11, <4>3, <5>1, <5>3
        <5> QED
          BY <5>2, <5>3, <5>4
      <4> QED
        BY <4>1, <4>2, <4>3
    <3> HIDE DEF T
    <3> QED
      BY <1>4, <3>2, <3>3, <3>4 DEF HasCycle
  <2> QED
    BY <2>4, <2>5
<1> QED
  BY <1>18 DEF Acyclic, F

LEMMA StaysAcyclicOn ==
    ASSUME GraphTyped, Synced, Named, StaysAcyclic, Step,
           NEW w \in Writer, Writer = {w}
    PROVE  StaysAcyclic'
<1> DEFINE r == writer[w]
<1>0. /\ TypeOK /\ PlanHeld(r) /\ high \in Nat /\ Acyclic
      /\ high' >= high
  BY BoardAfter, GraphAssumption DEF GraphTyped, TypeOK, StaysAcyclic
<1>1. /\ r.pc = "depends" /\ r.task \in Existing => LinkStands(w)
      /\ r.pc = "plan" => \E base \in 0 .. high : PlanStands(w, base)
  BY DEF StaysAcyclic
<1>2. ASSUME Acyclic',
             writer'[w].pc = "depends" /\ writer'[w].task \in Existing'
                => LinkStands(w)',
             writer'[w].pc = "plan"
                => \E base \in 0 .. high' : PlanStands(w, base)'
      PROVE  StaysAcyclic'
  BY <1>2 DEF StaysAcyclic
<1>3. ASSUME writer' = writer, Shrinks \/ Grows PROVE StaysAcyclic'
  <2>1. Acyclic'
    BY <1>0, <1>3, OtherStepsClose
  <2>2. r.pc = "depends" /\ r.task \in Existing' => LinkStands(w)'
    BY <1>1, <1>3, LinkKept
  <2>3. ASSUME r.pc = "plan"
        PROVE  \E base \in 0 .. high' : PlanStands(w, base)'
    <3>1. PICK base \in 0 .. high : PlanStands(w, base)
      BY <1>1, <2>3
    <3>2. PlanStands(w, base)'
      BY <1>3, <2>3, <3>1, PlanKept
    <3>3. base \in 0 .. high'
      <4>1. high' \in Int
        BY <1>0, <1>3 DEF Shrinks, Grows
      <4> QED
        BY <1>0, <3>1, <4>1
    <3> QED
      BY <3>2, <3>3
  <2> QED
    BY <1>2, <1>3, <2>1, <2>2, <2>3
<1>4. CASE HumanStep \/ \E t \in Id : StartRun(t) \/ RunFinishes(t) \/ RunEnds(t)
  <2>1. writer' = writer
    BY <1>4 DEF StartRun, RunFinishes, RunEnds, Unchanged, HumanStep,
                HumanMove, HumanQueue, Unarchive, Abandon, ArchiveDone,
                HumanCreate, Request
  <2>2. Shrinks \/ Grows
    BY <1>0, <1>4, RunsShrink, HumansShrinkOrGrow
  <2> QED
    BY <1>3, <2>1, <2>2
<1>5. ASSUME NEW p \in Sweeper, SweepStep(p) PROVE StaysAcyclic'
  <2>1. writer' = writer
    BY <1>5 DEF SweepStep, SweepList, SweepQueue
  <2> QED
    BY <1>0, <1>3, <1>5, <2>1, SweepsShrink
<1>6. CASE WriterStep(w)
  <2>1. \/ Shrinks
        \/ \E k \in Key, t \in Id : PlanCreate(w, k, t) /\ Grows
        \/ DependsWrite(w) /\ Rewrites(r.task, r.want)
        \/ \E k \in Key :
              PlanWire(w, k) /\ Rewrites(r.ids[k], Resolve(r.ids, r.plan[k]))
        \/ PlanJoin(w) /\ Rewrites(r.task, Range(r.ids))
    BY <1>0, <1>6, WritersRewrite
  <2>2. Acyclic'
    <3>1. CASE Shrinks \/ Grows
      BY <1>0, <3>1, OtherStepsClose
    <3>2. CASE DependsWrite(w) /\ Rewrites(r.task, r.want)
      <4>1. r.pc = "depends" /\ r.task \in Existing
        BY <3>2 DEF DependsWrite, Rewrites
      <4>2. LinkStands(w)
        BY <1>1, <4>1
      <4>3. Edges' = [Edges EXCEPT ![r.task] = r.want]
        BY <3>2, <4>1 DEF Rewrites, Edges, Existing
      <4> QED
        BY <4>2, <4>3 DEF Acyclic, LinkStands
    <3>3. ASSUME NEW k \in Key, PlanWire(w, k),
                 Rewrites(r.ids[k], Resolve(r.ids, r.plan[k]))
          PROVE  Acyclic'
      <4>1. r.pc = "plan" /\ AllCreated(w) /\ k \in DOMAIN r.ids
        BY <1>0, <3>3 DEF PlanWire, AllCreated, PlanHeld
      <4>2. PICK base \in 0 .. high : PlanStands(w, base)
        BY <1>1, <4>1
      <4> QED
        BY <1>0, <3>3, <4>1, <4>2, PlanCloses
    <3>4. CASE PlanJoin(w) /\ Rewrites(r.task, Range(r.ids))
      <4>1. r.pc = "plan" /\ AllCreated(w)
        BY <3>4 DEF PlanJoin
      <4>2. PICK base \in 0 .. high : PlanStands(w, base)
        BY <1>1, <4>1
      <4> QED
        BY <1>0, <3>4, <4>1, <4>2, PlanCloses
    <3> QED
      BY <2>1, <3>1, <3>2, <3>3, <3>4
  <2>3. ASSUME NEW t \in Id, NEW deps \in SUBSET Id, DependsCheck(w, t, deps)
        PROVE  LinkStands(w)'
    <3>1. /\ writer'[w].task = t /\ writer'[w].want = deps
          /\ Edges' = Edges
      BY <1>0, <2>3 DEF DependsCheck, IdleWriter, TypeOK, files, Edges, Existing
    <3> QED
      BY <2>3, <3>1 DEF LinkStands, DependsCheck, ClosesCycle
  <2>4. ASSUME NEW t \in Id, PlanCheck(w, t)
        PROVE  \E base \in 0 .. high' : PlanStands(w, base)'
    <3>1. high' = high
      BY <2>4 DEF PlanCheck, files
    <3>2. PICK base : base = high
      OBVIOUS
    <3>3. PlanStands(w, base)'
      BY <2>4, <3>1, <3>2, PlanBegins DEF PlanStands, KeptEdges
    <3> QED
      BY <1>0, <3>1, <3>2, <3>3
  <2>5. ASSUME NEW k \in Key, NEW t \in Id, PlanCreate(w, k, t)
        PROVE  \E base \in 0 .. high' : PlanStands(w, base)'
    <3>1. r.pc = "plan"
      BY <2>5 DEF PlanCreate
    <3>2. PICK base \in 0 .. high : PlanStands(w, base)
      BY <1>1, <3>1
    <3>3. PlanStands(w, base)'
      BY <2>5, <3>2, PlanMakes
    <3>4. high' \in Int
      BY <1>0, <2>5 DEF PlanCreate, Create, Id
    <3> QED
      BY <1>0, <3>2, <3>3, <3>4
  <2>6. ASSUME NEW k \in Key, PlanWire(w, k)
        PROVE  \E base \in 0 .. high' : PlanStands(w, base)'
    <3>1. r.pc = "plan" /\ high' = high
      BY <2>6 DEF PlanWire
    <3>2. PICK base \in 0 .. high : PlanStands(w, base)
      BY <1>1, <3>1
    <3>3. PlanStands(w, base)'
      BY <2>6, <3>2, PlanWires
    <3> QED
      BY <3>1, <3>2, <3>3
  <2> QED
    BY <1>0, <1>2, <1>6, <2>2, <2>3, <2>4, <2>5, <2>6, WhoRelies
<1> QED
  BY <1>4, <1>5, <1>6 DEF Step

\* With one writer of edges and plans, no dependency cycle is ever on the
\* board: what the check found acyclic without the lock is still acyclic when
\* each of its writes lands, whatever humans and runs do meanwhile.
THEOREM BoardStaysAcyclic ==
    ASSUME Synced, NEW w \in Writer, Writer = {w}
    PROVE  Spec => []Acyclic
<1>1. Init => StaysAcyclic
  <2> SUFFICES ASSUME Init PROVE StaysAcyclic
    OBVIOUS
  <2>1. PICK planners : node = [t \in Id |-> IF t <= InitialTasks
              THEN Created({}, t \in planners, Nobody) ELSE Gone]
    BY DEF Init
  <2>2. \A t \in Id : node[t].deps = {}
    BY <2>1 DEF Created, Gone
  <2>3. \A x \in DOMAIN Edges : Edges[x] = {}
    BY <2>2 DEF Edges, Existing
  <2>4. Acyclic
    BY <2>3 DEF Acyclic, HasCycle
  <2>5. \A v \in Writer : writer[v].pc = "idle"
    BY DEF Init, IdleWriter
  <2> QED
    BY <2>4, <2>5 DEF StaysAcyclic
<1>2. GraphTyped /\ Named /\ StaysAcyclic /\ [Next]_vars => StaysAcyclic'
  <2>1. ASSUME UNCHANGED vars, StaysAcyclic PROVE StaysAcyclic'
    <3>1. UNCHANGED <<node, high, writer>>
      BY <2>1 DEF vars
    <3>2. Acyclic'
      BY <2>1, <3>1 DEF StaysAcyclic, Acyclic, Edges, Existing
    <3>3. \A v \in Writer : LinkStands(v)' <=> LinkStands(v)
      BY <3>1 DEF LinkStands, Edges, Existing
    <3>4. ASSUME NEW v \in Writer, NEW base, PlanStands(v, base)
          PROVE  PlanStands(v, base)'
      <4>1. KeptEdges(v, base)' = KeptEdges(v, base)
        BY <3>1 DEF KeptEdges, Existing
      <4>2. AllCreated(v)' <=> AllCreated(v)
        BY <3>1 DEF AllCreated
      <4> QED
        BY <3>1, <3>4, <4>1, <4>2 DEF PlanStands
    <3>5. Existing' = Existing
      BY <3>1 DEF Existing
    <3> QED
      BY <2>1, <3>1, <3>2, <3>3, <3>4, <3>5 DEF StaysAcyclic
  <2> QED
    BY <2>1, StaysAcyclicOn DEF Next
<1>3. StaysAcyclic => Acyclic
  BY DEF StaysAcyclic
<1> QED
  BY <1>1, <1>2, <1>3, GraphTypedAlways, NamedAlways, PTL DEF Spec

-----------------------------------------------------------------------------
(* find_cycle is right for every graph: what it reports is a cycle, and    *)
(* when it reports none there is none.  The strengthening: the stack is a  *)
(* path, what is done reaches only what is done, and a node on the stack   *)
(* has had every child but the next one explored.                          *)

\* A child of the i-th node of the stack that was looked at is explored, or
\* it is the node above it.
Looked(i, c) == c \in done \/ (i < Len(stack) /\ c = stack[i + 1])

StackInv ==
    /\ \A i, j \in 1 .. Len(stack) : stack[i] = stack[j] => i = j
    /\ \A i \in 1 .. Len(stack) - 1 : stack[i + 1] \in edges[stack[i]]
    /\ \A n \in Vertex : left[n] \subseteq edges[n]
    /\ \A n \in Vertex \ (done \cup Open) : left[n] = edges[n]

DoneInv ==
    /\ \A n \in done : edges[n] \cap Vertex \subseteq done
    /\ \A S \in SUBSET done : S # {} => \E x \in S : edges[x] \cap S = {}

LookedInv ==
    \A i \in 1 .. Len(stack) :
        \A c \in (edges[stack[i]] \ left[stack[i]]) \cap Vertex : Looked(i, c)

SearchInv ==
    /\ SearchTypeOK
    /\ StackInv
    /\ DoneInv
    /\ verdict # "cycle" => LookedInv
    /\ verdict = "acyclic" => done = Vertex
    /\ CycleIsReal

\* The search starts with an empty stack and nothing marked.
LEMMA InitSearch == SearchInit => SearchInv
  BY DEF SearchInit, SearchInv, SearchTypeOK, StackInv, DoneInv, LookedInv, CycleIsReal, Open

\* The invariant speaks of the variables of the search only.
LEMMA StutterSearch == SearchInv /\ UNCHANGED searchVars => SearchInv'
  BY DEF searchVars, SearchInv, SearchTypeOK, StackInv, DoneInv, LookedInv, Looked,
         CycleIsReal, Open

\* A root that has no mark is opened alone on the empty stack.
LEMMA NextRootSearch ==
  ASSUME SearchInv, NEW n \in Vertex, NextRoot(n)
  PROVE  SearchInv'
  <1>1. Len(stack') = 1 /\ stack'[1] = n /\ stack' \in Seq(Vertex) /\ Len(stack) = 0
    BY DEF NextRoot
  <1>2. Open' = {n} /\ n \notin done
    BY <1>1 DEF NextRoot, Open
  <1>3. left[n] = edges[n]
    BY <1>1 DEF SearchInv, StackInv, Open, NextRoot
  <1>4. SearchTypeOK' /\ DoneInv' /\ CycleIsReal'
    BY <1>1, <1>2 DEF SearchInv, SearchTypeOK, DoneInv, CycleIsReal, NextRoot
  <1>5. StackInv'
    BY <1>1, <1>2 DEF SearchInv, SearchTypeOK, StackInv, NextRoot, Open
  <1>6. LookedInv'
    BY <1>1, <1>3 DEF LookedInv, Looked, NextRoot
  <1>7. QED
    BY <1>4, <1>5, <1>6 DEF SearchInv, NextRoot

\* What a turn that looks at a child leaves alone.
LEMMA LookTop ==
  ASSUME SearchInv, NEW c \in Vertex \cup Unknown, Look(c)
  PROVE  /\ Len(stack) \in Nat /\ Len(stack) > 0
         /\ Top \in Vertex /\ Top = stack[Len(stack)] /\ c \in edges[Top]
         /\ \A n \in Vertex : n # Top => left'[n] = left[n]
         /\ left'[Top] = left[Top] \ {c}
         /\ left' \in [Vertex -> SUBSET (Vertex \cup Unknown)]
         /\ \A i \in 1 .. Len(stack) - 1 : stack[i] # Top
         /\ \A n \in Vertex : left'[n] \subseteq edges[n]
         /\ \A i \in 1 .. Len(stack) : stack[i] \in Vertex
         /\ edges' = edges /\ done' = done /\ verdict = "searching"
  <1>1. /\ Len(stack) \in Nat /\ Len(stack) > 0
        /\ Top \in Vertex /\ Top = stack[Len(stack)]
        /\ \A i \in 1 .. Len(stack) : stack[i] \in Vertex
        /\ edges' = edges /\ done' = done /\ verdict = "searching"
    BY DEF SearchInv, SearchTypeOK, Look, Top
  <1>2. \A i \in 1 .. Len(stack) - 1 : stack[i] # Top
    BY <1>1 DEF SearchInv, StackInv
  <1>3. /\ \A n \in Vertex : n # Top => left'[n] = left[n]
        /\ left'[Top] = left[Top] \ {c}
        /\ left' \in [Vertex -> SUBSET (Vertex \cup Unknown)]
    BY <1>1 DEF SearchInv, SearchTypeOK, Look
  <1>4. (\A n \in Vertex : left'[n] \subseteq edges[n]) /\ c \in edges[Top]
    BY <1>1, <1>3 DEF SearchInv, StackInv, Look
  <1>5. QED
    BY <1>1, <1>2, <1>3, <1>4

\* Passing over a Done child, or an id no task has, marks nothing.
LEMMA LookAtDoneSearch ==
  ASSUME SearchInv, NEW c \in Vertex \cup Unknown, LookAtDone(c)
  PROVE  SearchInv'
  <1>1. Look(c) /\ stack' = stack /\ path' = path /\ verdict' = verdict
    BY DEF LookAtDone
  <1>2. /\ Len(stack) \in Nat /\ Len(stack) > 0
        /\ Top \in Vertex /\ Top = stack[Len(stack)] /\ c \in edges[Top]
        /\ \A n \in Vertex : n # Top => left'[n] = left[n]
        /\ left'[Top] = left[Top] \ {c}
        /\ left' \in [Vertex -> SUBSET (Vertex \cup Unknown)]
        /\ \A i \in 1 .. Len(stack) - 1 : stack[i] # Top
        /\ \A n \in Vertex : left'[n] \subseteq edges[n]
        /\ \A i \in 1 .. Len(stack) : stack[i] \in Vertex
        /\ edges' = edges /\ done' = done /\ verdict = "searching"
    BY <1>1, LookTop
  <1>3. Open' = Open /\ Top \in Open
    BY <1>1, <1>2 DEF Open
  <1>4. SearchTypeOK' /\ DoneInv' /\ CycleIsReal'
    BY <1>1, <1>2, <1>3 DEF SearchInv, SearchTypeOK, DoneInv, CycleIsReal
  <1>5. StackInv'
    BY <1>1, <1>2, <1>3 DEF SearchInv, StackInv
  <1>6. LookedInv'
    <2> SUFFICES ASSUME NEW i \in 1 .. Len(stack),
                        NEW d \in (edges[stack[i]] \ left'[stack[i]]) \cap Vertex
                 PROVE  Looked(i, d)
      BY <1>1, <1>2 DEF LookedInv, Looked
    <2>1. CASE d \in left[stack[i]]
      <3>1. stack[i] = Top /\ d = c
        BY <2>1, <1>2
      <3>2. QED
        BY <3>1, SearchAssumption DEF LookAtDone, Looked
    <2>2. CASE d \notin left[stack[i]]
      BY <2>2, <1>2 DEF SearchInv, LookedInv
    <2>3. QED
      BY <2>1, <2>2
  <1>7. QED
    BY <1>1, <1>2, <1>4, <1>5, <1>6 DEF SearchInv

\* A child without a mark is opened above the node that points at it.
LEMMA DescendSearch ==
  ASSUME SearchInv, NEW c \in Vertex, Descend(c)
  PROVE  SearchInv'
  <1>1. /\ Look(c) /\ stack' = Append(stack, c) /\ path' = path
        /\ verdict' = verdict /\ c \notin done /\ c \notin Open
    BY DEF Descend
  <1>2. /\ Len(stack) \in Nat /\ Len(stack) > 0
        /\ Top \in Vertex /\ Top = stack[Len(stack)] /\ c \in edges[Top]
        /\ \A n \in Vertex : n # Top => left'[n] = left[n]
        /\ left'[Top] = left[Top] \ {c}
        /\ left' \in [Vertex -> SUBSET (Vertex \cup Unknown)]
        /\ \A i \in 1 .. Len(stack) - 1 : stack[i] # Top
        /\ \A n \in Vertex : left'[n] \subseteq edges[n]
        /\ \A i \in 1 .. Len(stack) : stack[i] \in Vertex
        /\ edges' = edges /\ done' = done /\ verdict = "searching"
    BY <1>1, LookTop
  <1>3. /\ Len(stack') = Len(stack) + 1 /\ stack'[Len(stack) + 1] = c
        /\ \A i \in 1 .. Len(stack) : stack'[i] = stack[i]
        /\ stack' \in Seq(Vertex)
    BY <1>1, <1>2 DEF SearchInv, SearchTypeOK
  <1>4. Open' = Open \cup {c} /\ Top \in Open
    <2>1. 1 .. Len(stack') = (1 .. Len(stack)) \cup {Len(stack) + 1}
      BY <1>2, <1>3
    <2>2. QED
      BY <2>1, <1>2, <1>3 DEF Open
  <1>5. SearchTypeOK' /\ DoneInv' /\ CycleIsReal'
    <2>1. SearchTypeOK'
      BY <1>1, <1>2, <1>3, <1>4 DEF SearchInv, SearchTypeOK
    <2>2. DoneInv'
      BY <1>1, <1>2, <1>3, <1>4 DEF SearchInv, DoneInv
    <2>3. CycleIsReal'
      BY <1>1, <1>2 DEF SearchInv, CycleIsReal
    <2>4. QED
      BY <2>1, <2>2, <2>3
  <1>6. StackInv'
    <2>1. \A i, j \in 1 .. Len(stack') : stack'[i] = stack'[j] => i = j
      <3>1. \A i \in 1 .. Len(stack) : stack[i] # c
        BY <1>1 DEF Open
      <3>2. QED
        BY <3>1, <1>2, <1>3 DEF SearchInv, StackInv
    <2>2. \A i \in 1 .. Len(stack') - 1 : stack'[i + 1] \in edges[stack'[i]]
      <3> SUFFICES ASSUME NEW i \in 1 .. Len(stack)
                   PROVE  stack'[i + 1] \in edges[stack'[i]]
        BY <1>2, <1>3
      <3>1. CASE i = Len(stack)
        BY <3>1, <1>2, <1>3
      <3>2. CASE i \in 1 .. Len(stack) - 1
        <4>1. stack[i + 1] \in edges[stack[i]]
          BY <3>2 DEF SearchInv, StackInv
        <4>2. QED
          BY <4>1, <3>2, <1>2, <1>3
      <3>3. QED
        BY <3>1, <3>2, <1>2
    <2>3. \A n \in Vertex \ (done \cup Open') : left'[n] = edges[n]
      BY <1>2, <1>4 DEF SearchInv, StackInv
    <2>4. QED
      BY <2>1, <2>2, <2>3, <1>2 DEF StackInv
  <1>7. LookedInv'
    <2> SUFFICES ASSUME NEW i \in 1 .. Len(stack) + 1,
                        NEW d \in (edges[stack'[i]] \ left'[stack'[i]]) \cap Vertex
                 PROVE  d \in done \/ (i < Len(stack) + 1 /\ d = stack'[i + 1])
      BY <1>1, <1>2, <1>3 DEF LookedInv, Looked
    <2>1. CASE i = Len(stack) + 1
      <3>1. stack'[i] = c /\ left'[c] = left[c] /\ left[c] = edges[c]
        BY <2>1, <1>1, <1>2, <1>3, <1>4 DEF SearchInv, StackInv
      <3>2. QED
        BY <3>1
    <2>2. CASE i = Len(stack)
      <3>1. stack'[i] = Top /\ stack'[i + 1] = c
        BY <2>2, <1>2, <1>3
      <3>2. CASE d = c
        BY <3>1, <3>2, <2>2, <1>2
      <3>3. CASE d # c
        <4>1. d \in (edges[stack[i]] \ left[stack[i]]) \cap Vertex
          BY <3>1, <3>3, <2>2, <1>2
        <4>2. Looked(i, d)
          BY <4>1, <2>2, <1>2 DEF SearchInv, LookedInv
        <4>3. QED
          BY <4>2, <2>2, <1>2 DEF Looked
      <3>4. QED
        BY <3>2, <3>3
    <2>3. CASE i \in 1 .. Len(stack) - 1
      <3>1. /\ stack'[i] = stack[i] /\ stack'[i + 1] = stack[i + 1]
            /\ left'[stack[i]] = left[stack[i]]
        BY <2>3, <1>2, <1>3
      <3>2. Looked(i, d)
        BY <3>1, <2>3, <1>2 DEF SearchInv, LookedInv
      <3>3. QED
        BY <3>1, <3>2, <2>3, <1>2 DEF Looked
    <2>4. QED
      BY <2>1, <2>2, <2>3, <1>2
  <1>8. QED
    BY <1>1, <1>2, <1>5, <1>6, <1>7 DEF SearchInv

\* An Open child closes a path that runs along the stack back to it.
LEMMA CloseCycleSearch ==
  ASSUME SearchInv, NEW c \in Vertex, CloseCycle(c)
  PROVE  SearchInv'
  <1>1. Look(c) /\ stack' = stack /\ verdict' = "cycle"
    BY DEF CloseCycle
  <1>2. /\ Len(stack) \in Nat /\ Len(stack) > 0
        /\ Top \in Vertex /\ Top = stack[Len(stack)] /\ c \in edges[Top]
        /\ \A n \in Vertex : n # Top => left'[n] = left[n]
        /\ left'[Top] = left[Top] \ {c}
        /\ left' \in [Vertex -> SUBSET (Vertex \cup Unknown)]
        /\ \A i \in 1 .. Len(stack) - 1 : stack[i] # Top
        /\ \A n \in Vertex : left'[n] \subseteq edges[n]
        /\ \A i \in 1 .. Len(stack) : stack[i] \in Vertex
        /\ edges' = edges /\ done' = done /\ verdict = "searching"
    BY <1>1, LookTop
  <1>3. Open' = Open /\ Top \in Open
    BY <1>1, <1>2 DEF Open
  <1>4. PICK i \in 1 .. Len(stack) :
           stack[i] = c /\ path' = Append(SubSeq(stack, i, Len(stack)), c)
    BY DEF CloseCycle
  <1> DEFINE n == Len(stack) - i + 1
  <1>5. /\ n \in Nat /\ n > 0 /\ Len(path') = n + 1 /\ path' \in Seq(Vertex)
        /\ path'[n + 1] = c
        /\ \A k \in 1 .. n : path'[k] = stack[i + k - 1]
    <2>1. stack \in Seq(Vertex) /\ SubSeq(stack, i, Len(stack)) \in Seq(Vertex)
      BY <1>2 DEF SearchInv, SearchTypeOK
    <2>2. /\ Len(SubSeq(stack, i, Len(stack))) = n
          /\ \A k \in 1 .. n : SubSeq(stack, i, Len(stack))[k] = stack[i + k - 1]
      BY <2>1, <1>2
    <2>3. n \in Nat /\ n > 0
      BY <1>2
    <2>4. QED
      BY <1>4, <2>1, <2>2, <2>3
  <1>6. CycleIsReal'
    <2>1. path'[1] = path'[Len(path')] /\ Len(path') > 1
      BY <1>4, <1>5, <1>2
    <2>2. ASSUME NEW k \in 1 .. n
          PROVE  path'[k + 1] \in edges[path'[k]]
      <3>1. CASE k = n
        <4>1. k = n /\ i + n - 1 = Len(stack) /\ n \in 1 .. n
          BY <3>1, <1>2, <1>5
        <4>2. path'[n] = stack[i + n - 1] /\ path'[n + 1] = c
          BY <4>1, <1>5
        <4> HIDE DEF n
        <4>3. path'[n] = Top /\ path'[n + 1] = c
          BY <4>1, <4>2, <1>2
        <4> QED
          BY <4>1, <4>3, <1>2
      <3>2. CASE k # n
        <4>1. /\ k + 1 \in 1 .. n /\ i + k - 1 \in 1 .. Len(stack) - 1
              /\ i + (k + 1) - 1 = (i + k - 1) + 1
          BY <3>2, <1>2
        <4>2. stack[(i + k - 1) + 1] \in edges[stack[i + k - 1]]
          BY <4>1 DEF SearchInv, StackInv
        <4>3. path'[k + 1] = stack[(i + k - 1) + 1] /\ path'[k] = stack[i + k - 1]
          BY <4>1, <1>5
        <4>4. QED
          BY <4>2, <4>3
      <3>3. QED
        BY <3>1, <3>2
    <2>3. Len(path') - 1 = n
      BY <1>5
    <2>4. QED
      BY <2>1, <2>2, <2>3, <1>2 DEF CycleIsReal
  <1>7. SearchTypeOK' /\ DoneInv'
    BY <1>1, <1>2, <1>3, <1>5 DEF SearchInv, SearchTypeOK, DoneInv
  <1>8. StackInv'
    BY <1>1, <1>2, <1>3 DEF SearchInv, StackInv
  <1>9. QED
    BY <1>1, <1>6, <1>7, <1>8 DEF SearchInv

\* A node whose children are all explored closes no cycle.
LEMMA FinishSearch ==
  ASSUME SearchInv, Finish
  PROVE  SearchInv'
  <1>1. /\ Len(stack) \in Nat /\ Len(stack) > 0 /\ stack \in Seq(Vertex)
        /\ Top \in Vertex /\ Top = stack[Len(stack)] /\ left[Top] = {}
        /\ verdict = "searching" /\ Top \in Open
        /\ \A i \in 1 .. Len(stack) : stack[i] \in Vertex
    BY DEF Finish, SearchInv, SearchTypeOK, Top, Open
  <1>2. /\ stack' \in Seq(Vertex) /\ Len(stack') = Len(stack) - 1
        /\ \A i \in 1 .. Len(stack) - 1 : stack'[i] = stack[i]
    <2> DEFINE m == Len(stack) - 1
    <2>1. m \in Nat /\ m <= Len(stack) /\ stack' = SubSeq(stack, 1, m)
      BY <1>1 DEF Finish
    <2>2. m - 1 + 1 = m /\ (1 <= m => 1 \in 1 .. Len(stack) + 1)
      BY <2>1, <1>1
    <2> HIDE DEF m
    <2>3. SubSeq(stack, 1, m) \in Seq(Vertex) /\ Len(SubSeq(stack, 1, m)) = m
      BY <2>1, <2>2, <1>1
    <2>4. \A i \in 1 .. m : SubSeq(stack, 1, m)[i] = stack[i]
      BY <2>1, <2>2, <1>1
    <2>5. QED
      BY <2>1, <2>3, <2>4 DEF m
  <1>3. \A i \in 1 .. Len(stack) - 1 : stack[i] # Top
    BY <1>1 DEF SearchInv, StackInv
  <1>4. Open' \subseteq Open /\ Top \notin Open' /\ Open \subseteq Open' \cup {Top}
    BY <1>1, <1>2, <1>3 DEF Open
  <1>5. Top \notin done
    BY <1>1 DEF SearchInv, SearchTypeOK
  <1>6. edges[Top] \cap Vertex \subseteq done
    BY <1>1 DEF SearchInv, LookedInv, Looked
  <1>7. DoneInv'
    <2>1. \A n \in done' : edges[n] \cap Vertex \subseteq done'
      BY <1>6 DEF SearchInv, DoneInv, Finish
    <2>2. ASSUME NEW S \in SUBSET done', S # {}
          PROVE  \E x \in S : edges[x] \cap S = {}
      <3>1. CASE S \ {Top} = {}
        <4>1. S = {Top}
          BY <3>1, <2>2
        <4>2. edges[Top] \cap S = {}
          BY <4>1, <1>1, <1>5, <1>6
        <4>3. QED
          BY <4>1, <4>2
      <3>2. CASE S \ {Top} # {}
        <4>1. S \ {Top} \in SUBSET done
          BY DEF Finish
        <4>2. PICK x \in S \ {Top} : edges[x] \cap (S \ {Top}) = {}
          BY <3>2, <4>1 DEF SearchInv, DoneInv
        <4>3. Top \notin edges[x]
          BY <4>1, <1>1, <1>5 DEF SearchInv, DoneInv
        <4>4. QED
          BY <4>2, <4>3
      <3>3. QED
        BY <3>1, <3>2
    <2>3. QED
      BY <2>1, <2>2 DEF DoneInv, Finish
  <1>8. SearchTypeOK' /\ CycleIsReal'
    BY <1>1, <1>2, <1>4 DEF SearchInv, SearchTypeOK, CycleIsReal, Finish
  <1>9. StackInv'
    <2>1. \A i, j \in 1 .. Len(stack') : stack'[i] = stack'[j] => i = j
      BY <1>1, <1>2 DEF SearchInv, StackInv
    <2>2. \A i \in 1 .. Len(stack') - 1 : stack'[i + 1] \in edges[stack'[i]]
      BY <1>1, <1>2 DEF SearchInv, StackInv
    <2>3. \A n \in Vertex \ (done' \cup Open') : left[n] = edges[n]
      BY <1>4 DEF SearchInv, StackInv, Finish
    <2>4. QED
      BY <2>1, <2>2, <2>3 DEF StackInv, SearchInv, Finish
  <1>10. LookedInv'
    <2> SUFFICES ASSUME NEW i \in 1 .. Len(stack) - 1,
                        NEW c \in (edges[stack[i]] \ left[stack[i]]) \cap Vertex
                 PROVE  c \in done' \/ (i < Len(stack') /\ c = stack'[i + 1])
      BY <1>1, <1>2 DEF LookedInv, Looked, Finish
    <2>1. c \in done \/ c = stack[i + 1]
      BY <1>1 DEF SearchInv, LookedInv, Looked
    <2>2. CASE i = Len(stack) - 1
      BY <2>1, <2>2, <1>1 DEF Finish
    <2>3. CASE i # Len(stack) - 1
      BY <2>1, <2>3, <1>1, <1>2 DEF Finish
    <2>4. QED
      BY <2>2, <2>3
  <1>11. QED
    BY <1>7, <1>8, <1>9, <1>10 DEF SearchInv, Finish

\* When every root has been explored all nodes are Done.
LEMMA GiveUpSearch ==
  ASSUME SearchInv, GiveUp
  PROVE  SearchInv'
  BY DEF GiveUp, SearchInv, SearchTypeOK, StackInv, DoneInv, LookedInv, Looked,
         CycleIsReal, Open

\* Every turn of the loop keeps the invariant.
LEMMA SearchStep == SearchInv /\ [SearchNext]_searchVars => SearchInv'
  <1> SUFFICES ASSUME SearchInv, [SearchNext]_searchVars PROVE SearchInv'
    OBVIOUS
  <1>1. CASE \E n \in Vertex : NextRoot(n) \/ Descend(n) \/ CloseCycle(n)
    BY <1>1, NextRootSearch, DescendSearch, CloseCycleSearch
  <1>2. CASE \E n \in Vertex \cup Unknown : LookAtDone(n)
    BY <1>2, LookAtDoneSearch
  <1>3. CASE Finish
    BY <1>3, FinishSearch
  <1>4. CASE GiveUp
    BY <1>4, GiveUpSearch
  <1>5. CASE UNCHANGED searchVars
    BY <1>5, StutterSearch
  <1>6. QED
    BY <1>1, <1>2, <1>3, <1>4, <1>5 DEF SearchNext

\* The invariant holds all the way through a search.
LEMMA SearchInvariant == SearchSpec => []SearchInv
  BY InitSearch, SearchStep, PTL DEF SearchSpec

-----------------------------------------------------------------------------

\* Every node has one mark, and the search stays within the graph.
THEOREM SearchTyped == SearchSpec => []SearchTypeOK
  <1>1. SearchInv => SearchTypeOK
    BY DEF SearchInv
  <1>2. QED
    BY <1>1, SearchInvariant, PTL

\* On every graph, the path that find_cycle reports is a cycle.
THEOREM ReportedCycleIsReal == SearchSpec => []CycleIsReal
  <1>1. SearchInv => CycleIsReal
    BY DEF SearchInv
  <1>2. QED
    BY <1>1, SearchInvariant, PTL

\* On every graph, find_cycle returns None only if there is no cycle.
THEOREM NoCycleIsMissed == SearchSpec => []NoneMissed
  <1>1. SearchInv => NoneMissed
    <2> SUFFICES ASSUME SearchInv, verdict = "acyclic", HasCycle(edges)
                 PROVE  FALSE
      BY DEF NoneMissed
    <2>1. DOMAIN edges = Vertex /\ done = Vertex
      BY DEF SearchInv, SearchTypeOK
    <2>2. QED
      BY <2>1 DEF SearchInv, DoneInv, HasCycle
  <1>2. QED
    BY <1>1, SearchInvariant, PTL

-----------------------------------------------------------------------------
(* The search ends.                                                        *)

\* There are finitely many nodes to mark and edges to look at.
LEMMA ToExplore ==
  ASSUME SearchInv
  PROVE  /\ IsFiniteSet(Unmarked) /\ Cardinality(Unmarked) \in Nat
         /\ IsFiniteSet(Unseen) /\ Cardinality(Unseen) \in Nat
         /\ Len(stack) \in Nat
  <1>1. IsFiniteSet(Vertex \cup Unknown)
    BY SearchAssumption, FS_Union
  <1>2. IsFiniteSet(Vertex \X (Vertex \cup Unknown))
    BY <1>1, SearchAssumption, FS_Product
  <1>3. Unmarked \subseteq Vertex /\ Unseen \subseteq Vertex \X (Vertex \cup Unknown)
    BY DEF Unmarked, Unseen
  <1>4. IsFiniteSet(Unmarked) /\ IsFiniteSet(Unseen)
    BY <1>2, <1>3, SearchAssumption, FS_Subset
  <1>5. QED
    BY <1>4, FS_CardinalityType DEF SearchInv, SearchTypeOK

\* So it is after every turn.
LEMMA ToExploreNext ==
  ASSUME SearchInv'
  PROVE  /\ Cardinality(Unmarked') \in Nat
         /\ Cardinality(Unseen') \in Nat
         /\ Len(stack') \in Nat
  <1>1. IsFiniteSet(Vertex \cup Unknown)
    BY SearchAssumption, FS_Union
  <1>2. IsFiniteSet(Vertex \X (Vertex \cup Unknown))
    BY <1>1, SearchAssumption, FS_Product
  <1>3. Unmarked' \subseteq Vertex /\ Unseen' \subseteq Vertex \X (Vertex \cup Unknown)
    BY DEF Unmarked, Unseen
  <1>4. IsFiniteSet(Unmarked') /\ IsFiniteSet(Unseen')
    BY <1>2, <1>3, SearchAssumption, FS_Subset
  <1>5. QED
    BY <1>4, FS_CardinalityType DEF SearchInv, SearchTypeOK

\* A node that gets its mark is one less to mark.
LEMMA MarkOne ==
  ASSUME SearchInv, NEW n \in Unmarked, Unmarked' = Unmarked \ {n}
  PROVE  Cardinality(Unmarked') = Cardinality(Unmarked) - 1
  BY ToExplore, FS_RemoveElement

\* An edge that was looked at is one less to look at.
LEMMA LookOnce ==
  ASSUME SearchInv, NEW c \in Vertex \cup Unknown, Look(c)
  PROVE  Cardinality(Unseen') = Cardinality(Unseen) - 1
  <1>1. /\ Top \in Vertex /\ left'[Top] = left[Top] \ {c}
        /\ \A n \in Vertex : n # Top => left'[n] = left[n]
    BY LookTop
  <1>2. c \in left[Top]
    BY DEF Look
  <1>3. <<Top, c>> \in Unseen
    BY <1>1, <1>2 DEF Unseen
  <1>4. Unseen' = Unseen \ {<<Top, c>>}
    <2>1. ASSUME NEW e \in Vertex \X (Vertex \cup Unknown)
          PROVE  e[2] \in left'[e[1]] <=> e[2] \in left[e[1]] /\ e # <<Top, c>>
      BY <1>1, <1>2
    <2>2. QED
      BY <2>1 DEF Unseen
  <1>5. QED
    BY <1>3, <1>4, ToExplore, FS_RemoveElement

\* A turn of the loop marks a node, looks at an edge, takes a node off the
\* stack or ends the search.
LEMMA TurnExplores ==
  ASSUME SearchInv, SearchNext
  PROVE  Unexplored' < Unexplored
  <1> DEFINE Old == Cardinality(Unmarked)
             New == Cardinality(Unmarked')
  <1>1. /\ Old \in Nat /\ Cardinality(Unseen) \in Nat /\ Len(stack) \in Nat
        /\ New \in Nat /\ Cardinality(Unseen') \in Nat /\ Len(stack') \in Nat
    <2>1. SearchInv'
      BY SearchStep
    <2>2. QED
      BY <2>1, ToExplore, ToExploreNext
  <1>2. ASSUME NEW n \in Vertex, NextRoot(n)
        PROVE  New = Old - 1 /\ Len(stack') = Len(stack) + 1
               /\ Unseen' = Unseen /\ verdict' = verdict
    <2>1. Len(stack) = 0 /\ Len(stack') = 1 /\ stack'[1] = n /\ done' = done
      BY <1>2 DEF NextRoot
    <2>2. Open = {} /\ Open' = {n}
      BY <2>1 DEF Open
    <2>3. n \in Unmarked /\ Unmarked' = Unmarked \ {n}
      BY <1>2, <2>1, <2>2 DEF NextRoot, Unmarked
    <2>4. New = Old - 1
      BY <2>3, MarkOne
    <2>5. Unseen' = Unseen /\ verdict' = verdict
      BY <1>2 DEF NextRoot, Unseen
    <2>6. QED
      BY <2>1, <2>4, <2>5
  <1>3. ASSUME NEW c \in Vertex, Descend(c)
        PROVE  New = Old - 1 /\ Len(stack') = Len(stack) + 1
               /\ Cardinality(Unseen') = Cardinality(Unseen) - 1
               /\ verdict' = verdict
    <2>1. Look(c) /\ stack' = Append(stack, c) /\ stack \in Seq(Vertex)
          /\ done' = done /\ verdict' = verdict /\ c \notin done \cup Open
      BY <1>3 DEF Descend, Look, SearchInv, SearchTypeOK
    <2>2. Len(stack') = Len(stack) + 1 /\ stack'[Len(stack) + 1] = c
          /\ \A i \in 1 .. Len(stack) : stack'[i] = stack[i]
      BY <2>1
    <2>3. Open' = Open \cup {c}
      <3>1. 1 .. Len(stack') = (1 .. Len(stack)) \cup {Len(stack) + 1}
        BY <2>2, <1>1
      <3>2. QED
        BY <3>1, <2>2 DEF Open
    <2>4. c \in Unmarked /\ Unmarked' = Unmarked \ {c}
      BY <2>1, <2>3 DEF Unmarked
    <2>5. QED
      BY <2>1, <2>2, <2>4, MarkOne, LookOnce
  <1>4. ASSUME NEW c \in Vertex \cup Unknown, LookAtDone(c)
        PROVE  New = Old /\ Len(stack') = Len(stack)
               /\ Cardinality(Unseen') = Cardinality(Unseen) - 1
               /\ verdict' = verdict
    BY <1>4, LookOnce DEF LookAtDone, Look, Unmarked, Open
  <1>5. ASSUME NEW c \in Vertex, CloseCycle(c)
        PROVE  New = Old /\ Len(stack') = Len(stack)
               /\ Cardinality(Unseen') = Cardinality(Unseen) - 1
               /\ verdict = "searching" /\ verdict' = "cycle"
    BY <1>5, LookOnce DEF CloseCycle, Look, Unmarked, Open
  <1>6. ASSUME Finish
        PROVE  New = Old /\ Len(stack') = Len(stack) - 1
               /\ Unseen' = Unseen /\ verdict' = verdict
    <2>1. /\ Len(stack) \in Nat /\ Len(stack) > 0 /\ stack \in Seq(Vertex)
          /\ stack' = SubSeq(stack, 1, Len(stack) - 1)
          /\ done' = done \cup {Top} /\ left' = left /\ verdict' = verdict
      BY <1>6 DEF Finish, SearchInv, SearchTypeOK
    <2>2. /\ Len(stack') = Len(stack) - 1
          /\ \A i \in 1 .. Len(stack) - 1 : stack'[i] = stack[i]
      <3> DEFINE m == Len(stack) - 1
      <3>1. m \in Nat /\ m <= Len(stack) /\ stack' = SubSeq(stack, 1, m)
        BY <2>1
      <3>2. m - 1 + 1 = m /\ (1 <= m => 1 \in 1 .. Len(stack) + 1)
        BY <3>1, <2>1
      <3> HIDE DEF m
      <3>3. Len(SubSeq(stack, 1, m)) = m
        BY <3>1, <3>2, <2>1
      <3>4. \A i \in 1 .. m : SubSeq(stack, 1, m)[i] = stack[i]
        BY <3>1, <3>2, <2>1
      <3>5. QED
        BY <3>1, <3>3, <3>4 DEF m
    <2>3. Open = Open' \cup {Top}
      <3>1. 1 .. Len(stack) = (1 .. Len(stack')) \cup {Len(stack)}
        BY <2>1, <2>2
      <3>2. QED
        BY <3>1, <2>2 DEF Open, Top
    <2>4. Unmarked' = Unmarked
      BY <2>1, <2>3 DEF Unmarked
    <2>5. QED
      BY <2>1, <2>2, <2>4 DEF Unseen
  <1>7. ASSUME GiveUp
        PROVE  New = Old /\ Len(stack') = Len(stack) /\ Unseen' = Unseen
               /\ verdict = "searching" /\ verdict' = "acyclic"
    BY <1>7 DEF GiveUp, Unmarked, Unseen, Open
  <1>8. QED
    <2> HIDE DEF Old, New
    <2>1. CASE \E n \in Vertex : NextRoot(n)
      BY <2>1, <1>1, <1>2 DEF Unexplored, Old, New
    <2>2. CASE \E c \in Vertex : Descend(c)
      <3>1. /\ New = Old - 1 /\ Len(stack') = Len(stack) + 1
            /\ Cardinality(Unseen') = Cardinality(Unseen) - 1
            /\ verdict' = verdict
        BY <2>2, <1>3
      <3>2. QED
        BY <3>1, <1>1 DEF Unexplored, Old, New
    <2>3. CASE \E c \in Vertex \cup Unknown : LookAtDone(c)
      <3>1. /\ New = Old /\ Len(stack') = Len(stack)
            /\ Cardinality(Unseen') = Cardinality(Unseen) - 1
            /\ verdict' = verdict
        BY <2>3, <1>4
      <3>2. QED
        BY <3>1, <1>1 DEF Unexplored, Old, New
    <2>4. CASE \E c \in Vertex : CloseCycle(c)
      BY <2>4, <1>1, <1>5 DEF Unexplored, Old, New
    <2>5. CASE Finish
      BY <2>5, <1>1, <1>6 DEF Unexplored, Old, New
    <2>6. CASE GiveUp
      BY <2>6, <1>1, <1>7 DEF Unexplored, Old, New
    <2>7. QED
      BY <2>1, <2>2, <2>3, <2>4, <2>5, <2>6 DEF SearchNext

\* On every graph, each turn of find_cycle's loop leaves less to explore, so
\* there are at most as many turns as twice its nodes, its edges and one more.
THEOREM SearchTerminates == SearchSpec => NothingTwice
  <1>1. SearchInv /\ [SearchNext]_searchVars
          => [Unexplored' < Unexplored]_searchVars
    BY TurnExplores
  <1>2. QED
    BY <1>1, SearchInvariant, PTL DEF SearchSpec, NothingTwice
=============================================================================
