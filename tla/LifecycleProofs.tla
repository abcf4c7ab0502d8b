-------------------------- MODULE LifecycleProofs ---------------------------
(***************************************************************************)
(* Type correctness of TaskLifecycle, for any number of tasks, sessions,   *)
(* pumps and starters.  TypeOK is not inductive by itself: a pump reads    *)
(* the task of a session it listed, and a start links the id it minted, so *)
(* what makes the records well formed is that every id a process holds has *)
(* been linked to a task of the board (WellLinked).                        *)
(*                                                                         *)
(* The safety properties of TaskLifecycle, proved for every board.  Each   *)
(* proof has the same first half: few steps write a task file or make a    *)
(* session active (TaskWriters, NewRuns), so a property of the files is    *)
(* argued for those steps only.                                            *)
(***************************************************************************)
EXTENDS TaskLifecycle, FiniteSetTheorems, TLAPS

\* The ids that have or had a file.
LinkedId == {s \in Session : session[s].status \notin {"unused", "minted"}}

SessionsLinked ==
    \A s \in Session : /\ s \in LinkedId => TaskOf(s) \in Task
                       /\ s \notin LinkedId => TaskOf(s) = NoTask

HoldsSession ==
    {"wake_crash", "wake_queue", "wake_close", "launch", "failed"}

PumpsLinked ==
    \A p \in Pump :
        /\ pump[p].todo \subseteq LinkedId
        /\ pump[p].reaped \subseteq LinkedId
        /\ pump[p].pc \in HoldsSession => pump[p].cur \in LinkedId

RunsLinked ==
    \A s \in Session : /\ run[s].pc # "none" => s \in LinkedId
                       /\ run[s].child \in LinkedId \cup {NoSession}

StartsLinked ==
    /\ \A h \in Starter :
          /\ start[h].pc = "take" =>
                /\ start[h].task \in Task
                /\ start[h].session \in Session
                /\ session[start[h].session].status = "minted"
          /\ start[h].pc \in {"launch", "rollback"} =>
                start[h].session \in LinkedId
    /\ \A g, h \in Starter :
          g # h /\ start[g].pc = "take" /\ start[h].pc = "take" =>
              start[g].session # start[h].session

WellLinked == SessionsLinked /\ PumpsLinked /\ RunsLinked /\ StartsLinked

-----------------------------------------------------------------------------
(* What the helpers of the board return.                                   *)

\* Linking an id, closing and crashing a session keep the session files well
\* formed, whatever the id: link_named_session, close_session, crash_session.
LEMMA SessionWrites ==
    ASSUME NEW S \in [Session -> SessionRecord], NEW s,
           NEW t \in Task \cup {NoTask}
    PROVE  /\ Linked(S, s, t) \in [Session -> SessionRecord]
           /\ Closed(S, s) \in [Session -> SessionRecord]
           /\ Crashed(S, s) \in [Session -> SessionRecord]
<1>1. \A r \in SessionRecord, st \in SessionStatus :
         Ended(r, st) \in SessionRecord
  BY DEF Ended, UnusedSession, SessionRecord, SessionStatus
<1>2. Linked(S, s, t) \in [Session -> SessionRecord]
  BY DEF Linked, SessionRecord, SessionStatus
<1>3. Closed(S, s) \in [Session -> SessionRecord]
  <2>1. CASE s \in Session
    BY <1>1, <2>1 DEF Closed, SessionStatus
  <2>2. CASE s \notin Session
    BY <2>2 DEF Closed
  <2> QED BY <2>1, <2>2
<1>4. Crashed(S, s) \in [Session -> SessionRecord]
  <2>1. CASE s \in Session
    BY <1>1, <2>1 DEF Crashed, SessionStatus
  <2>2. CASE s \notin Session
    BY <2>2 DEF Crashed
  <2> QED BY <2>1, <2>2
<1> QED BY <1>2, <1>3, <1>4

\* schedule_crash_restart, due_restarts and reset_human_restart keep the task
\* files well formed.
LEMMA TaskWrites ==
    ASSUME NEW T \in [Task -> TaskRecord], NEW t
    PROVE  /\ ScheduledRestart(T, t) \in [Task -> TaskRecord]
           /\ \A r \in TaskRecord : /\ Restarted(r) \in TaskRecord
                                    /\ ResetHumanRestart(r) \in TaskRecord
<1>1. ScheduledRestart(T, t) \in [Task -> TaskRecord]
  BY DEF ScheduledRestart, TaskRecord, RunPhase
<1>2. ASSUME NEW r \in TaskRecord
      PROVE  Restarted(r) \in TaskRecord
  <2>1. r.crashes + 1 \in Nat
    BY DEF TaskRecord
  <2>2. \A n \in Nat :
           [r EXCEPT !.crashes = n, !.restart = "none", !.phase = "Queued"]
              \in TaskRecord
    BY DEF TaskRecord, RunPhase
  <2> QED BY <2>1, <2>2 DEF Restarted
<1>3. \A r \in TaskRecord : ResetHumanRestart(r) \in TaskRecord
  BY DEF ResetHumanRestart, TaskRecord
<1> QED BY <1>1, <1>2, <1>3

\* The census is a natural number because a board has finitely many tasks.
LEMMA CensusType == Cardinality(Occupied) \in Nat
<1>1. Occupied \subseteq Task
  BY DEF Occupied
<1> QED BY <1>1, BoardAssumption, FS_Subset, FS_CardinalityType

\* A pump between two sections, and one in a pass over listed sessions.
LEMMA PumpIdles ==
    /\ IdlePump \in PumpRecord
    /\ \A S \in SUBSET Session, pc \in PumpPC :
          [IdlePump EXCEPT !.pc = pc, !.todo = S] \in PumpRecord
<1>1. NoPlan \in [Task -> {"None", "Design", "Execute"}]
  BY DEF NoPlan
<1> QED BY <1>1 DEF IdlePump, PumpRecord, PumpPC

\* A pump that goes on with the walk, or ends it.
LEMMA PumpWalks ==
    ASSUME NEW plan \in [Task -> {"None", "Design", "Execute"}],
           NEW used \in Nat
    PROVE  /\ Walking(plan, used) \in PumpRecord
           /\ Walking(plan, used).todo = {}
           /\ Walking(plan, used).reaped = {}
           /\ Walking(plan, used).pc \notin HoldsSession
<1> DEFINE next == [IdlePump EXCEPT !.pc = "walk", !.plan = plan,
                                    !.used = used]
<1>1. /\ IdlePump.todo = {} /\ IdlePump.reaped = {}
      /\ IdlePump.pc \notin HoldsSession
  BY DEF IdlePump, HoldsSession
<1>2. next \in PumpRecord
  BY DEF IdlePump, NoPlan, PumpRecord, PumpPC
<1>3. next.todo = {} /\ next.reaped = {} /\ next.pc \notin HoldsSession
  BY DEF IdlePump, HoldsSession
<1>4. Walking(plan, used) \in {IdlePump, next}
  BY DEF Walking
<1> HIDE DEF next
<1> QED BY <1>1, <1>2, <1>3, <1>4, PumpIdles

-----------------------------------------------------------------------------
(* Ids: a step adds to the linked ones and leaves the minted ones alone.   *)

IdsGrow ==
    /\ LinkedId \subseteq LinkedId'
    /\ \A s \in Session :
          session[s].status = "minted" => session'[s].status = "minted"
    /\ SessionsLinked'

\* Closing and crashing a session are such steps, and so is linking an id
\* that was unused.
LEMMA IdsKept ==
    ASSUME BoardTypeOK, SessionsLinked, NEW s,
           \/ session' = session
           \/ session' = Closed(session, s)
           \/ session' = Crashed(session, s)
    PROVE  IdsGrow
<1> USE DEF IdsGrow, LinkedId, SessionsLinked, TaskOf, BoardTypeOK
<1>1. CASE session' = session
  BY <1>1
<1>2. CASE session' = Closed(session, s)
  BY <1>2 DEF Closed, Ended, UnusedSession, SessionRecord
<1>3. CASE session' = Crashed(session, s)
  BY <1>3 DEF Crashed, Ended, UnusedSession, SessionRecord
<1> QED BY <1>1, <1>2, <1>3

\* A claim links a fresh id (link_named_session).
LEMMA IdsAdded ==
    ASSUME BoardTypeOK, SessionsLinked, NEW s \in Session, NEW t \in Task,
           session[s].status = "unused", session' = Linked(session, s, t)
    PROVE  IdsGrow /\ s \in LinkedId'
BY DEF IdsGrow, LinkedId, SessionsLinked, TaskOf, BoardTypeOK, Linked,
       SessionRecord

\* What a process holds stays linked while others take such steps.
LEMMA HeldIdsStay ==
    ASSUME WellLinked, IdsGrow
    PROVE  /\ UNCHANGED pump => PumpsLinked'
           /\ UNCHANGED run => RunsLinked'
           /\ UNCHANGED start => StartsLinked'
<1> USE DEF WellLinked, IdsGrow
<1>1. UNCHANGED pump => PumpsLinked'
  BY DEF PumpsLinked
<1>2. UNCHANGED run => RunsLinked'
  BY DEF RunsLinked
<1>3. UNCHANGED start => StartsLinked'
  BY DEF StartsLinked
<1> QED BY <1>1, <1>2, <1>3

-----------------------------------------------------------------------------
(* The steps of a pump.                                                    *)

PumpKeeps == BoardTypeOK' /\ DispatcherTypeOK' /\ IdsGrow /\ PumpsLinked'

\* A step that only writes the record of p keeps everything if the record is
\* well formed and holds linked ids.
LEMMA PumpMoves ==
    ASSUME BoardTypeOK, DispatcherTypeOK, WellLinked, NEW p \in Pump,
           NEW r \in PumpRecord, pump' = [pump EXCEPT ![p] = r],
           BoardTypeOK', IdsGrow,
           r.todo \subseteq LinkedId, r.reaped \subseteq LinkedId,
           r.pc \in HoldsSession => r.cur \in LinkedId
    PROVE  PumpKeeps
<1>1. DispatcherTypeOK'
  BY DEF DispatcherTypeOK
<1>2. PumpsLinked'
  BY DEF PumpsLinked, WellLinked, IdsGrow, DispatcherTypeOK
<1> QED BY <1>1, <1>2 DEF PumpKeeps

\* What the invariant says of one pump, and of the record it goes back to.
PumpHolds(p) ==
    /\ pump[p] \in PumpRecord
    /\ pump[p].todo \subseteq LinkedId
    /\ pump[p].reaped \subseteq LinkedId
    /\ pump[p].pc \in HoldsSession => pump[p].cur \in LinkedId
    /\ IdlePump.todo = {} /\ IdlePump.reaped = {} /\ IdlePump.pc = "idle"

\* The invariant, read for one pump.
LEMMA HeldByPump ==
    ASSUME DispatcherTypeOK, WellLinked, NEW p \in Pump
    PROVE  SessionsLinked /\ PumpHolds(p)
BY DEF WellLinked, PumpsLinked, DispatcherTypeOK, IdlePump, PumpHolds

\* The steps that list sessions: wake_expired_waits and check_sessions.
LEMMA ListingTypes ==
    ASSUME BoardTypeOK, DispatcherTypeOK, WellLinked, NEW p \in Pump
    PROVE  WakeBegin(p) \/ ReapBegin(p) => PumpKeeps
<1>1. ExpiredWaits \subseteq LinkedId /\ SilentSessions \subseteq LinkedId
  BY DEF ExpiredWaits, SilentSessions, IsActive, LinkedId
<1>2. ASSUME NEW pc \in {"wake", "reap"}, NEW S \in SUBSET LinkedId,
             pump' = [pump EXCEPT ![p] = [IdlePump EXCEPT !.pc = pc, !.todo = S]],
             UNCHANGED board
      PROVE  PumpKeeps
  <2> DEFINE r == [IdlePump EXCEPT !.pc = pc, !.todo = S]
  <2>1. r \in PumpRecord
    BY PumpIdles DEF LinkedId, PumpPC
  <2>2. r.todo = S /\ r.reaped = {} /\ r.pc \notin HoldsSession
    BY DEF IdlePump, HoldsSession
  <2>3. BoardTypeOK' /\ session' = session
    BY <1>2 DEF board, BoardTypeOK
  <2>4. IdsGrow
    BY <2>3, HeldByPump, IdsKept
  <2>5. pump' = [pump EXCEPT ![p] = r]
    BY <1>2
  <2> HIDE DEF r
  <2> QED BY <2>1, <2>2, <2>3, <2>4, <2>5, PumpMoves
<1> QED BY <1>1, <1>2 DEF WakeBegin, ReapBegin

\* The rest of wake: the budget is read, then the session is crashed, or the
\* task queued, or the session closed.
LEMMA WakeTypes ==
    ASSUME BoardTypeOK, DispatcherTypeOK, WellLinked, NEW p \in Pump
    PROVE  \/ \E s \in Session : WakeRead(p, s)
           \/ WakeCrash(p)
           \/ WakeQueue(p)
           \/ WakeFencedOut(p)
           \/ WakeClose(p)
           => PumpKeeps
<1>0. SessionsLinked /\ PumpHolds(p)
  BY HeldByPump
<1> USE <1>0 DEF PumpHolds
<1>1. ASSUME WakeNext(p), BoardTypeOK', IdsGrow
      PROVE  PumpKeeps
  <2> DEFINE r == [IdlePump EXCEPT !.pc = "wake", !.todo = pump[p].todo]
  <2>1. r \in PumpRecord
    BY PumpIdles DEF PumpRecord, PumpPC
  <2>2. r.todo = pump[p].todo /\ r.reaped = {} /\ r.pc = "wake"
    BY DEF IdlePump
  <2>3. pump' = [pump EXCEPT ![p] = r] \/ pump' = [pump EXCEPT ![p] = IdlePump]
    BY <1>1 DEF WakeNext
  <2> HIDE DEF r
  <2> QED BY <1>1, <2>1, <2>2, <2>3, PumpIdles, PumpMoves DEF HoldsSession
<1>2. ASSUME NEW s \in Session, WakeRead(p, s)
      PROVE  PumpKeeps
  <2>1. s \in LinkedId /\ TaskOf(s) \in Task
    BY <1>2 DEF WakeRead, SessionsLinked
  <2> DEFINE n == task[TaskOf(s)].resumes + 1
             pc == IF ResumesSpent(task[TaskOf(s)]) THEN "wake_crash"
                                                    ELSE "wake_queue"
             r == [pump[p] EXCEPT !.todo = pump[p].todo \ {s}, !.cur = s,
                                  !.attempt = n, !.pc = pc]
  <2>2. pump' = [pump EXCEPT ![p] = r]
    BY <1>2 DEF WakeRead
  <2>3. n \in Nat /\ pc \in PumpPC
    BY <2>1 DEF PumpPC, BoardTypeOK, TaskRecord
  <2> HIDE DEF n, pc
  <2>4. r \in PumpRecord
    BY <2>3 DEF PumpRecord
  <2>5. r.todo = pump[p].todo \ {s} /\ r.reaped = pump[p].reaped /\ r.cur = s
    BY DEF PumpRecord
  <2>6. BoardTypeOK' /\ session' = session
    BY <1>2 DEF WakeRead, board, BoardTypeOK
  <2>7. IdsGrow
    BY <2>6, IdsKept
  <2> HIDE DEF r
  <2> QED BY <2>1, <2>2, <2>4, <2>5, <2>6, <2>7, PumpMoves
<1>3. ASSUME WakeCrash(p)
      PROVE  PumpKeeps
  <2>1. BoardTypeOK'
    BY <1>3, SessionWrites DEF WakeCrash, BoardTypeOK
  <2> QED BY <1>1, <1>3, <2>1, IdsKept DEF WakeCrash
<1>4. ASSUME WakeQueue(p)
      PROVE  PumpKeeps
  <2>1. pump[p].attempt \in Nat
    BY DEF PumpRecord
  <2>2. TaskOf(pump[p].cur) \in Task
    BY <1>4 DEF WakeQueue, HoldsSession, SessionsLinked, LinkedId
  <2>3. task' \in [Task -> TaskRecord]
    BY <1>4, <2>1, <2>2 DEF WakeQueue, BoardTypeOK, TaskRecord, RunPhase
  <2>4. BoardTypeOK'
    BY <1>4, <2>3, SessionWrites DEF WakeQueue, BoardTypeOK
  <2> QED BY <1>1, <1>4, <2>4, IdsKept DEF WakeQueue
<1>5. ASSUME WakeFencedOut(p)
      PROVE  PumpKeeps
  <2> DEFINE r == [pump[p] EXCEPT !.pc = "wake_close"]
  <2>1. r \in PumpRecord
    BY DEF PumpRecord, PumpPC
  <2>2. /\ r.todo = pump[p].todo
        /\ r.reaped = pump[p].reaped
        /\ r.cur = pump[p].cur
    BY DEF PumpRecord
  <2>3. pump' = [pump EXCEPT ![p] = r] /\ BoardTypeOK' /\ session' = session
    BY <1>5 DEF WakeFencedOut, board, BoardTypeOK
  <2>4. pump[p].cur \in LinkedId
    BY <1>5 DEF WakeFencedOut, HoldsSession
  <2>5. IdsGrow
    BY <2>3, IdsKept
  <2> HIDE DEF r
  <2> QED BY <2>1, <2>2, <2>3, <2>4, <2>5, PumpMoves
<1>6. ASSUME WakeClose(p)
      PROVE  PumpKeeps
  <2>1. BoardTypeOK'
    BY <1>6, SessionWrites DEF WakeClose, BoardTypeOK
  <2> QED BY <1>1, <1>6, <2>1, IdsKept DEF WakeClose
<1> QED BY <1>2, <1>3, <1>4, <1>5, <1>6

\* Reap: check_sessions crashes what it listed, the back-off is offered to
\* the tasks of what it returned, and due_restarts spends the deadlines.
LEMMA ReapTypes ==
    ASSUME BoardTypeOK, DispatcherTypeOK, WellLinked, NEW p \in Pump
    PROVE  \/ \E s \in Session : ReapOne(p, s) \/ ScheduleOne(p, s)
           \/ DueRestarts(p)
           => PumpKeeps
<1>0. SessionsLinked /\ PumpHolds(p)
  BY HeldByPump
<1> USE <1>0 DEF PumpHolds
<1>1. ASSUME NEW s \in Session, ReapOne(p, s)
      PROVE  PumpKeeps
  <2> DEFINE r == [pump[p] EXCEPT !.todo = pump[p].todo \ {s},
                                  !.reaped = pump[p].reaped \cup {s}]
  <2>1. pump' = [pump EXCEPT ![p] = r]
    BY <1>1 DEF ReapOne
  <2>2. r \in PumpRecord
    BY DEF PumpRecord
  <2>3. /\ r.todo = pump[p].todo \ {s}
        /\ r.reaped = pump[p].reaped \cup {s}
        /\ r.pc = pump[p].pc
        /\ r.cur = pump[p].cur
    BY DEF PumpRecord
  <2>4. s \in LinkedId
    BY <1>1 DEF ReapOne
  <2>5. BoardTypeOK'
    BY <1>1, SessionWrites DEF ReapOne, BoardTypeOK
  <2>6. IdsGrow
    BY <1>1, IdsKept DEF ReapOne
  <2> HIDE DEF r
  <2> QED BY <2>1, <2>2, <2>3, <2>4, <2>5, <2>6, PumpMoves
<1>2. ASSUME NEW s \in Session, ScheduleOne(p, s)
      PROVE  PumpKeeps
  <2> DEFINE r == [pump[p] EXCEPT !.reaped = pump[p].reaped \ {s}]
  <2>1. pump' = [pump EXCEPT ![p] = IdlePump] \/ pump' = [pump EXCEPT ![p] = r]
    BY <1>2 DEF ScheduleOne
  <2>2. r \in PumpRecord
    BY DEF PumpRecord
  <2>3. /\ r.todo = pump[p].todo
        /\ r.reaped = pump[p].reaped \ {s}
        /\ r.pc = pump[p].pc
        /\ r.cur = pump[p].cur
    BY DEF PumpRecord
  <2>4. BoardTypeOK'
    BY <1>2, TaskWrites DEF ScheduleOne, BoardTypeOK
  <2>5. IdsGrow
    BY <1>2, IdsKept DEF ScheduleOne
  <2> HIDE DEF r
  <2> QED BY <2>1, <2>2, <2>3, <2>4, <2>5, PumpMoves, PumpIdles DEF HoldsSession
<1>3. ASSUME DueRestarts(p)
      PROVE  PumpKeeps
  <2>1. BoardTypeOK'
    BY <1>3, TaskWrites DEF DueRestarts, BoardTypeOK
  <2>2. IdsGrow
    BY <1>3, IdsKept DEF DueRestarts
  <2>3. UNCHANGED pump
    BY <1>3 DEF DueRestarts
  <2> QED BY <2>1, <2>2, <2>3, HeldIdsStay DEF DispatcherTypeOK, PumpKeeps
<1> QED BY <1>1, <1>2, <1>3

\* The walk of dispatch_queue up to and with claim_queued_task.
LEMMA WalkTypes ==
    ASSUME BoardTypeOK, DispatcherTypeOK, WellLinked, NEW p \in Pump
    PROVE  \/ WalkBegin(p)
           \/ \E t \in Task : ClaimRefused(p, t)
           \/ \E t \in Task, s \in Session : Claim(p, t, s)
           => PumpKeeps
<1>0. SessionsLinked /\ PumpHolds(p)
  BY HeldByPump
<1> USE <1>0 DEF PumpHolds
<1>1. ASSUME WalkBegin(p)
      PROVE  PumpKeeps
  <2> DEFINE plan == [t \in Task |-> IF IsCandidate(t)
                                     THEN UpcomingPhase(task[t]) ELSE "None"]
             r == Walking(plan, Cardinality(Occupied))
  <2>1. plan \in [Task -> {"None", "Design", "Execute"}]
    BY DEF UpcomingPhase
  <2>2. pump' = [pump EXCEPT ![p] = r] /\ BoardTypeOK' /\ session' = session
    BY <1>1 DEF WalkBegin, board, BoardTypeOK
  <2>3. IdsGrow
    BY <2>2, IdsKept
  <2> HIDE DEF plan
  <2> QED BY <2>1, <2>2, <2>3, CensusType, PumpWalks, PumpMoves
<1>2. ASSUME NEW t \in Task, ClaimRefused(p, t)
      PROVE  PumpKeeps
  <2> DEFINE plan == [pump[p].plan EXCEPT ![t] = "None"]
             r == Walking(plan, pump[p].used)
  <2>1. /\ plan \in [Task -> {"None", "Design", "Execute"}]
        /\ pump[p].used \in Nat
    BY DEF PumpRecord
  <2>2. pump' = [pump EXCEPT ![p] = r] /\ BoardTypeOK' /\ session' = session
    BY <1>2 DEF ClaimRefused, board, BoardTypeOK
  <2>3. IdsGrow
    BY <2>2, IdsKept
  <2> HIDE DEF plan
  <2> QED BY <2>1, <2>2, <2>3, PumpWalks, PumpMoves
<1>3. ASSUME NEW t \in Task, NEW s \in Session, Claim(p, t, s)
      PROVE  PumpKeeps
  <2> DEFINE r == [pump[p] EXCEPT !.pc = "launch", !.cur = s,
                                  !.plan[t] = "None"]
  <2>1. pump' = [pump EXCEPT ![p] = r]
    BY <1>3 DEF Claim
  <2>2. r \in PumpRecord
    BY DEF PumpRecord, PumpPC
  <2>3. r.todo = pump[p].todo /\ r.reaped = pump[p].reaped /\ r.cur = s
    BY DEF PumpRecord
  <2>4. pump[p].plan[t] \in {"Design", "Execute"}
    BY <1>3 DEF Claim, PumpRecord
  <2>5. task' \in [Task -> TaskRecord]
    BY <1>3, <2>4 DEF Claim, BoardTypeOK, TaskRecord, RunPhase
  <2>6. BoardTypeOK'
    BY <1>3, <2>5, SessionWrites DEF Claim, BoardTypeOK
  <2>7. IdsGrow /\ s \in LinkedId'
    BY <1>3, IdsAdded DEF Claim, Fresh
  <2> HIDE DEF r
  <2>8. DispatcherTypeOK'
    BY <2>1, <2>2 DEF DispatcherTypeOK
  <2>9. PumpsLinked'
    BY <2>1, <2>3, <2>7
       DEF PumpsLinked, WellLinked, IdsGrow, DispatcherTypeOK
  <2> QED BY <2>6, <2>7, <2>8, <2>9 DEF PumpKeeps
<1> QED BY <1>1, <1>2, <1>3

\* The launch after a claim, its failure, and the death of a pump.
LEMMA LaunchTypes ==
    ASSUME BoardTypeOK, DispatcherTypeOK, WellLinked, NEW p \in Pump
    PROVE  \/ PumpLaunch(p)
           \/ PumpLaunchFails(p)
           \/ ScheduleFailed(p)
           \/ PumpDies(p)
           => PumpKeeps
<1>0. SessionsLinked /\ PumpHolds(p)
  BY HeldByPump
<1> USE <1>0 DEF PumpHolds
<1>1. ASSUME NEW used \in Nat,
             pump' = [pump EXCEPT ![p] = Walking(pump[p].plan, used)],
             BoardTypeOK', IdsGrow
      PROVE  PumpKeeps
  <2>1. pump[p].plan \in [Task -> {"None", "Design", "Execute"}]
    BY DEF PumpRecord
  <2> QED BY <1>1, <2>1, PumpWalks, PumpMoves
<1>2. pump[p].used \in Nat /\ pump[p].used + 1 \in Nat
  BY DEF PumpRecord
<1>3. ASSUME PumpLaunch(p)
      PROVE  PumpKeeps
  <2>1. BoardTypeOK' /\ session' = session
    BY <1>3 DEF PumpLaunch, board, BoardTypeOK
  <2> QED BY <1>1, <1>2, <1>3, <2>1, IdsKept DEF PumpLaunch
<1>4. ASSUME PumpLaunchFails(p)
      PROVE  PumpKeeps
  <2> DEFINE r == [pump[p] EXCEPT !.pc = "failed"]
  <2>1. r \in PumpRecord
    BY DEF PumpRecord, PumpPC
  <2>2. /\ r.todo = pump[p].todo
        /\ r.reaped = pump[p].reaped
        /\ r.cur = pump[p].cur
    BY DEF PumpRecord
  <2>3. pump[p].cur \in LinkedId
    BY <1>4 DEF PumpLaunchFails, HoldsSession
  <2>4. BoardTypeOK'
    <3>1. session' \in [Session -> SessionRecord]
      BY <1>4, SessionWrites DEF PumpLaunchFails, BoardTypeOK
    <3>2. faults' \in Nat
      BY <1>4 DEF PumpLaunchFails, BoardTypeOK
    <3> QED BY <1>4, <3>1, <3>2 DEF PumpLaunchFails, BoardTypeOK
  <2>5. IdsGrow
    BY <1>4, IdsKept DEF PumpLaunchFails
  <2>6. pump' = [pump EXCEPT ![p] = r]
    BY <1>4 DEF PumpLaunchFails
  <2> HIDE DEF r
  <2> QED BY <2>1, <2>2, <2>3, <2>4, <2>5, <2>6, PumpMoves
<1>5. ASSUME ScheduleFailed(p)
      PROVE  PumpKeeps
  <2>1. BoardTypeOK'
    BY <1>5, TaskWrites DEF ScheduleFailed, BoardTypeOK
  <2>2. IdsGrow
    BY <1>5, IdsKept DEF ScheduleFailed
  <2> QED BY <1>1, <1>2, <1>5, <2>1, <2>2 DEF ScheduleFailed
<1>6. ASSUME PumpDies(p)
      PROVE  PumpKeeps
  <2>1. BoardTypeOK' /\ session' = session
    BY <1>6 DEF PumpDies, BoardTypeOK
  <2>2. IdsGrow
    BY <2>1, IdsKept
  <2> QED BY <1>6, <2>1, <2>2, PumpMoves, PumpIdles DEF PumpDies, HoldsSession
<1> QED BY <1>3, <1>4, <1>5, <1>6

-----------------------------------------------------------------------------
(* The steps of a run.                                                     *)

RunKeeps == BoardTypeOK' /\ RunsTypeOK' /\ IdsGrow /\ RunsLinked'

RunHolds(s) ==
    /\ run[s] \in RunRecord
    /\ run[s].pc # "none" => s \in LinkedId
    /\ run[s].child \in LinkedId \cup {NoSession}

\* The invariant, read for one run.
LEMMA HeldByRun ==
    ASSUME RunsTypeOK, WellLinked, NEW s \in Session
    PROVE  SessionsLinked /\ RunHolds(s)
BY DEF WellLinked, RunsLinked, RunsTypeOK, RunHolds

\* A step that only writes the record of a linked session keeps everything if
\* the record is well formed and its child is linked.
LEMMA RunMoves ==
    ASSUME RunsTypeOK, WellLinked, NEW s \in LinkedId,
           NEW r \in RunRecord, run' = [run EXCEPT ![s] = r],
           BoardTypeOK', IdsGrow,
           r.child \in LinkedId' \cup {NoSession}
    PROVE  RunKeeps
<1>1. RunsTypeOK'
  BY DEF RunsTypeOK
<1>2. RunsLinked'
  BY DEF RunsLinked, WellLinked, IdsGrow, RunsTypeOK, LinkedId
<1> QED BY <1>1, <1>2 DEF RunKeeps

\* The three ways a handler goes on by itself.
LEMMA RunGoes ==
    ASSUME RunsTypeOK, WellLinked, NEW s \in LinkedId,
           BoardTypeOK', IdsGrow,
           \/ Gone(s)
           \/ \E pc \in RunPC : Goto(s, pc)
           \/ \E pc \in RunPC, c \in LinkedId' \cup {NoSession} :
                 Launching(s, pc, c)
    PROVE  RunKeeps
<1>0. s \in Session
  BY DEF LinkedId
<1>a. RunHolds(s)
  BY <1>0, HeldByRun
<1>b. LinkedId \subseteq LinkedId' /\ LinkedId' \subseteq Session
  BY DEF IdsGrow, LinkedId
<1>1. CASE Gone(s)
  <2> DEFINE r == [NotRunning EXCEPT !.pc = "gone"]
  <2>1. r \in RunRecord /\ r.child = NoSession
    BY DEF NotRunning, RunRecord, RunPC
  <2>2. run' = [run EXCEPT ![s] = r]
    BY <1>1 DEF Gone
  <2> HIDE DEF r
  <2> QED BY <2>1, <2>2, RunMoves
<1>2. ASSUME NEW pc \in RunPC, Goto(s, pc)
      PROVE  RunKeeps
  <2> DEFINE r == [run[s] EXCEPT !.pc = pc]
  <2>1. r \in RunRecord /\ r.child = run[s].child
    BY <1>a DEF RunHolds, RunRecord
  <2>2. run' = [run EXCEPT ![s] = r]
    BY <1>2 DEF Goto
  <2>3. r.child \in LinkedId' \cup {NoSession}
    BY <2>1, <1>a, <1>b DEF RunHolds
  <2> HIDE DEF r
  <2> QED BY <2>1, <2>2, <2>3, RunMoves
<1>3. ASSUME NEW pc \in RunPC, NEW c \in LinkedId' \cup {NoSession},
             Launching(s, pc, c)
      PROVE  RunKeeps
  <2> DEFINE r == [run[s] EXCEPT !.pc = pc, !.child = c]
  <2>1. r \in RunRecord /\ r.child = c
    BY <1>a, <1>b DEF RunHolds, RunRecord
  <2>2. run' = [run EXCEPT ![s] = r]
    BY <1>3 DEF Launching
  <2> HIDE DEF r
  <2> QED BY <2>1, <2>2, RunMoves
<1> QED BY <1>1, <1>2, <1>3

\* An agent process starts in a linked session, and a wrapper is killed.
LEMMA RunStarts ==
    ASSUME RunsTypeOK, WellLinked, IdsGrow, NEW c \in LinkedId,
           NEW pc \in RunPC, run' = [run EXCEPT ![c].pc = pc]
    PROVE  RunsTypeOK' /\ RunsLinked'
<1>1. RunsTypeOK'
  BY DEF RunsTypeOK, RunRecord
<1>2. RunsLinked'
  BY DEF RunsLinked, WellLinked, IdsGrow, RunsTypeOK, RunRecord, LinkedId
<1> QED BY <1>1, <1>2

\* A wrapper is killed, with the launch it was making.
LEMMA RunKilled ==
    ASSUME RunsTypeOK, WellLinked, IdsGrow, NEW s \in Session,
           ProcessAlive(s), Killed(s)
    PROVE  RunsTypeOK' /\ RunsLinked'
<1>1. [NotRunning EXCEPT !.pc = "gone"]
         = [pc |-> "gone", child |-> NoSession, attempt |-> 0]
  BY DEF NotRunning
<1>2. RunsTypeOK'
  BY <1>1 DEF RunsTypeOK, Killed, RunRecord, RunPC
<1>3. \A x \in {s, run[s].child} : x \in Session => x \in LinkedId
  BY BoardAssumption DEF BoardAssumption, RunsLinked, WellLinked, ProcessAlive
<1>4. RunsLinked'
  BY <1>1, <1>3 DEF RunsLinked, WellLinked, IdsGrow, Killed
<1> QED BY <1>2, <1>4

\* The commands of the agent.
LEMMA CommandTypes ==
    ASSUME BoardTypeOK, RunsTypeOK, WellLinked, NEW s \in Session,
           CommandStep(s)
    PROVE  RunKeeps
<1>0. SessionsLinked /\ RunHolds(s)
  BY HeldByRun
<1>1. run[s].pc = "run"
  BY DEF CommandStep, DeclareWaiting, ExecutorDone, VerificationFails,
         DesignerDone, Verdict
<1>2. s \in LinkedId /\ TaskOf(s) \in Task
  BY <1>0, <1>1 DEF RunHolds, SessionsLinked
<1>3. \A r \in TaskRecord : Landed(r) \in TaskRecord
  BY DEF Landed, TaskRecord, TaskStatus, RunPhase
<1>4. ASSUME DeclareWaiting(s)
      PROVE  RunKeeps
  <2>1. BoardTypeOK'
    BY <1>4 DEF DeclareWaiting, BoardTypeOK, SessionRecord
  <2>2. IdsGrow
    BY <1>0, <1>4 DEF DeclareWaiting, BoardTypeOK, SessionRecord, IdsGrow,
                      SessionsLinked, LinkedId, TaskOf
  <2> QED BY <1>4, <2>1, <2>2, HeldIdsStay DEF DeclareWaiting, RunKeeps, RunsTypeOK
<1>5. ASSUME ExecutorDone(s)
      PROVE  RunKeeps
  <2>1. task' \in [Task -> TaskRecord]
    BY <1>2, <1>3, <1>5 DEF ExecutorDone, BoardTypeOK
  <2>2. BoardTypeOK'
    BY <1>5, <2>1 DEF ExecutorDone, BoardTypeOK
  <2>3. IdsGrow
    BY <1>0, <1>5, IdsKept DEF ExecutorDone
  <2>4. \E pc \in RunPC : Goto(s, pc)
    BY <1>5 DEF ExecutorDone, RunPC
  <2> QED BY <1>2, <2>2, <2>3, <2>4, RunGoes
<1>6. ASSUME VerificationFails(s) \/ DesignerDone(s)
      PROVE  RunKeeps
  <2>1. BoardTypeOK'
    BY <1>6 DEF VerificationFails, DesignerDone, BoardTypeOK
  <2>2. IdsGrow
    BY <1>0, <1>6, IdsKept DEF VerificationFails, DesignerDone
  <2>3. \E pc \in RunPC : Goto(s, pc)
    BY <1>6 DEF VerificationFails, DesignerDone, RunPC
  <2> QED BY <1>2, <2>1, <2>2, <2>3, RunGoes
<1>7. ASSUME NEW approve \in BOOLEAN, NEW rework \in {"Todo", "Queued"},
             Verdict(s, approve, rework)
      PROVE  RunKeeps
  <2> DEFINE t == TaskOf(s)
  <2>1. \A r \in TaskRecord :
           /\ [r EXCEPT !.status = "Todo", !.phase = "None"] \in TaskRecord
           /\ [r EXCEPT !.phase = "Queued"] \in TaskRecord
    BY DEF TaskRecord, TaskStatus, RunPhase
  <2>2. \E r \in TaskRecord : task' = [task EXCEPT ![t] = r]
    BY <1>2, <1>3, <1>7, <2>1 DEF Verdict, BoardTypeOK
  <2>3. BoardTypeOK'
    BY <1>7, <2>2 DEF Verdict, BoardTypeOK
  <2>4. IdsGrow
    BY <1>0, <1>7, IdsKept DEF Verdict
  <2>5. \E pc \in RunPC : Goto(s, pc)
    BY <1>7 DEF Verdict, RunPC
  <2> QED BY <1>2, <2>3, <2>4, <2>5, RunGoes
<1> QED BY <1>4, <1>5, <1>6, <1>7 DEF CommandStep

\* The steps that mint a session for a run: start_bot_review,
\* advance_from_design and respawn_session.
LEMMA ClaimTypes ==
    ASSUME BoardTypeOK, RunsTypeOK, WellLinked, NEW s \in Session,
           NEW c \in Session,
           ReviewClaim(s, c) \/ DesignClaim(s, c) \/ ResumeClaim(s, c)
    PROVE  RunKeeps
<1>0. SessionsLinked /\ RunHolds(s)
  BY HeldByRun
<1>1. s \in LinkedId /\ TaskOf(s) \in Task
  BY <1>0 DEF ReviewClaim, DesignClaim, ResumeClaim, RunHolds, SessionsLinked
<1> DEFINE t == TaskOf(s)
<1>2. /\ session' = Linked(session, c, t)
      /\ session[c].status = "unused"
      /\ faults' = faults
      /\ overlap' \subseteq overlap \cup {t}
  BY DEF ReviewClaim, DesignClaim, ResumeClaim, Fresh, OverlapWith
<1>3. \E pc \in RunPC : Launching(s, pc, c)
  BY DEF ReviewClaim, DesignClaim, ResumeClaim, RunPC
<1>4. IdsGrow /\ c \in LinkedId'
  BY <1>0, <1>1, <1>2, IdsAdded
<1>5. task' \in [Task -> TaskRecord]
  <2>1. CASE ReviewClaim(s, c)
    <3> DEFINE n == task[t].rounds + 1
    <3>1. n \in Nat
      BY <1>1 DEF BoardTypeOK, TaskRecord
    <3>2. task' = [task EXCEPT ![t] = [@ EXCEPT !.phase = "Review",
                                                !.rounds = n, !.session = c]]
      BY <2>1 DEF ReviewClaim
    <3> HIDE DEF n
    <3> QED BY <1>1, <3>1, <3>2 DEF BoardTypeOK, TaskRecord, RunPhase
  <2>2. CASE DesignClaim(s, c)
    BY <1>1, <2>2 DEF DesignClaim, BoardTypeOK, TaskRecord, RunPhase
  <2>3. CASE ResumeClaim(s, c)
    <3> DEFINE n == run[s].attempt
               q == ClaimedPhase(task[t])
    <3>1. n \in Nat /\ q \in RunPhase
      BY <1>0, <1>1 DEF RunHolds, RunRecord, ClaimedPhase, UpcomingPhase,
                        RunPhase, BoardTypeOK, TaskRecord
    <3>2. task' = [task EXCEPT ![t] = [@ EXCEPT !.resumes = n, !.session = c,
                                                !.phase = q]]
      BY <2>3 DEF ResumeClaim
    <3> HIDE DEF n, q
    <3> QED BY <1>1, <3>1, <3>2 DEF BoardTypeOK, TaskRecord
  <2> QED BY <2>1, <2>2, <2>3
<1>6. BoardTypeOK'
  BY <1>1, <1>2, <1>5, SessionWrites DEF BoardTypeOK
<1> QED BY <1>1, <1>3, <1>4, <1>6, RunGoes

\* The handler steps that leave the tasks alone.
LEMMA SessionEndTypes ==
    ASSUME BoardTypeOK, RunsTypeOK, WellLinked, NEW s \in Session,
           \/ CloseOwn(s)
           \/ ExitCrash(s)
           \/ ExitWait(s)
           \/ ExitExhausted(s)
           \/ ChildLaunchFails(s)
           \/ ResumeLaunchFails(s)
    PROVE  RunKeeps
<1>0. SessionsLinked /\ RunHolds(s)
  BY HeldByRun
<1>1. s \in LinkedId
  BY <1>0 DEF CloseOwn, ExitCrash, ExitWait, ExitExhausted, ChildLaunchFails,
              ResumeLaunchFails, RunHolds
<1>2. ASSUME NEW x, session' = Closed(session, x) \/ session' = Crashed(session, x),
             task' = task, faults' \in Nat, overlap' = overlap
      PROVE  BoardTypeOK' /\ IdsGrow
  BY <1>0, <1>2, SessionWrites, IdsKept DEF BoardTypeOK
<1>3. faults \in Nat /\ faults + 1 \in Nat
  BY DEF BoardTypeOK
<1>4. CASE CloseOwn(s)
  <2>1. \E pc \in RunPC : Goto(s, pc)
    BY <1>4 DEF CloseOwn, AfterClose, RunPC
  <2>2. BoardTypeOK' /\ IdsGrow
    BY <1>2, <1>3, <1>4 DEF CloseOwn
  <2> QED BY <1>1, <2>1, <2>2, RunGoes
<1>5. CASE ExitCrash(s)
  <2>1. \E pc \in RunPC : Goto(s, pc)
    BY <1>5 DEF ExitCrash, RunPC
  <2>2. BoardTypeOK' /\ IdsGrow
    BY <1>2, <1>3, <1>5 DEF ExitCrash
  <2> QED BY <1>1, <2>1, <2>2, RunGoes
<1>6. CASE ExitWait(s)
  <2>1. /\ session' = [session EXCEPT ![s].exited = IsActive(s) \/ @]
        /\ UNCHANGED <<task, faults, overlap>>
    BY <1>6 DEF ExitWait
  <2>2. (IsActive(s) \/ session[s].exited) \in BOOLEAN
    BY DEF IsActive, BoardTypeOK, SessionRecord
  <2>3. BoardTypeOK'
    BY <2>1, <2>2 DEF BoardTypeOK, SessionRecord
  <2>4. IdsGrow
    BY <1>0, <2>1 DEF BoardTypeOK, SessionRecord, IdsGrow, SessionsLinked,
                      LinkedId, TaskOf
  <2> QED BY <1>1, <1>6, <2>3, <2>4, RunGoes DEF ExitWait
<1>7. CASE ExitExhausted(s) \/ ResumeLaunchFails(s)
  <2>1. BoardTypeOK' /\ IdsGrow
    BY <1>2, <1>3, <1>7 DEF ExitExhausted, ResumeLaunchFails
  <2> QED BY <1>1, <1>7, <2>1, RunGoes DEF ExitExhausted, ResumeLaunchFails
<1>8. CASE ChildLaunchFails(s)
  <2>1. \E pc \in RunPC : Launching(s, pc, NoSession)
    BY <1>8 DEF ChildLaunchFails, RunPC
  <2>2. BoardTypeOK' /\ IdsGrow
    BY <1>2, <1>3, <1>8 DEF ChildLaunchFails
  <2> QED BY <1>1, <2>1, <2>2, RunGoes
<1> QED BY <1>4, <1>5, <1>6, <1>7, <1>8

\* The handler steps that leave the sessions alone.
LEMMA ExitTypes ==
    ASSUME BoardTypeOK, RunsTypeOK, WellLinked, NEW s \in Session,
           \/ ReviewRefused(s)
           \/ DesignRefused(s)
           \/ ResumeRefused(s)
           \/ ChildSchedule(s)
           \/ \E retryable \in BOOLEAN : ExitSchedule(s, retryable)
           \/ \E clean \in BOOLEAN : Exit(s, clean)
    PROVE  RunKeeps
<1>0. SessionsLinked /\ RunHolds(s)
  BY HeldByRun
<1>1. s \in LinkedId
  BY <1>0 DEF ReviewRefused, DesignRefused, ResumeRefused, ChildSchedule,
              ExitSchedule, Exit, RunHolds
<1>2. session' = session /\ faults' = faults /\ overlap' = overlap
  BY DEF ReviewRefused, DesignRefused, ResumeRefused, ChildSchedule,
         ExitSchedule, Exit, board
<1>3. task' = task \/ task' = ScheduledRestart(task, TaskOf(s))
  BY DEF ReviewRefused, DesignRefused, ResumeRefused, ChildSchedule,
         ExitSchedule, Exit, board
<1>4. BoardTypeOK' /\ IdsGrow
  BY <1>0, <1>2, <1>3, TaskWrites, IdsKept DEF BoardTypeOK
<1>5. Gone(s) \/ \E pc \in RunPC : Goto(s, pc)
  BY DEF ReviewRefused, DesignRefused, ResumeRefused, ChildSchedule,
         ExitSchedule, Exit, RunPC
<1> QED BY <1>1, <1>4, <1>5, RunGoes

\* The budget is read under the first lock of an exit; a launch starts.
LEMMA LaunchedTypes ==
    ASSUME BoardTypeOK, RunsTypeOK, WellLinked, NEW s \in Session,
           \/ \E asked \in BOOLEAN : ExitCheck(s, asked)
           \/ ChildLaunch(s)
           \/ ResumeLaunch(s)
    PROVE  RunKeeps
<1>0. SessionsLinked /\ RunHolds(s)
  BY HeldByRun
<1>1. s \in LinkedId /\ TaskOf(s) \in Task
  BY <1>0 DEF ExitCheck, ChildLaunch, ResumeLaunch, RunHolds, SessionsLinked
<1>2. BoardTypeOK' /\ session' = session
  BY DEF ExitCheck, ChildLaunch, ResumeLaunch, board, BoardTypeOK
<1>3. IdsGrow
  BY <1>0, <1>2, IdsKept
<1>4. ASSUME NEW asked \in BOOLEAN, ExitCheck(s, asked)
      PROVE  RunKeeps
  <2> DEFINE n == task[TaskOf(s)].resumes + 1
             r == [run[s] EXCEPT !.pc = "resume_close", !.attempt = n]
  <2>1. n \in Nat
    BY <1>1 DEF BoardTypeOK, TaskRecord
  <2>2. \/ \E pc \in RunPC : Goto(s, pc)
        \/ run' = [run EXCEPT ![s] = r]
    BY <1>4 DEF ExitCheck, RunPC
  <2> HIDE DEF n
  <2>3. r \in RunRecord /\ r.child = run[s].child
    BY <1>0, <2>1 DEF RunHolds, RunRecord, RunPC
  <2>4. r.child \in LinkedId' \cup {NoSession}
    BY <1>0, <1>3, <2>3 DEF RunHolds, IdsGrow
  <2> HIDE DEF r
  <2> QED BY <1>1, <1>2, <1>3, <2>2, <2>3, <2>4, RunGoes, RunMoves
<1>5. ASSUME NEW after \in RunRecord, after.child = NoSession,
             LaunchChild(s, after)
      PROVE  RunKeeps
  <2> DEFINE c == run[s].child
             started == [run EXCEPT ![c].pc = "run"]
  <2>1. run' = [started EXCEPT ![s] = after]
    BY <1>5 DEF LaunchChild
  <2>2. /\ started \in [Session -> RunRecord]
        /\ \A x \in Session : /\ x # c => started[x] = run[x]
                              /\ started[x].child = run[x].child
    BY DEF RunsTypeOK, RunRecord, RunPC
  <2>3. c \in LinkedId \cup {NoSession} /\ c \notin Session \ LinkedId
    BY <1>0, BoardAssumption DEF BoardAssumption, RunHolds
  <2> HIDE DEF started, c
  <2>4. RunsTypeOK'
    BY <1>5, <2>1, <2>2 DEF RunsTypeOK
  <2>5. \A x \in Session : x # s => run'[x] = started[x]
    BY <2>1, <2>2
  <2>6. run'[s] = after
    BY <2>1, <2>2
  <2>7. ASSUME NEW x \in Session
        PROVE  /\ run'[x].pc # "none" => x \in LinkedId'
               /\ run'[x].child \in LinkedId' \cup {NoSession}
    <3>1. CASE x = s
      BY <1>1, <1>3, <1>5, <2>6, <3>1 DEF IdsGrow
    <3>2. CASE x # s
      BY <1>3, <2>2, <2>3, <2>5, <3>2 DEF IdsGrow, RunsLinked, WellLinked
    <3> QED BY <3>1, <3>2
  <2> QED BY <1>2, <1>3, <2>4, <2>7 DEF RunKeeps, RunsLinked
<1>6. ASSUME ChildLaunch(s)
      PROVE  RunKeeps
  <2> DEFINE r == [run[s] EXCEPT !.pc = "run", !.child = NoSession]
  <2>1. r \in RunRecord /\ r.child = NoSession
    BY <1>0 DEF RunHolds, RunRecord, RunPC
  <2>2. LaunchChild(s, r)
    BY <1>6 DEF ChildLaunch
  <2> HIDE DEF r
  <2> QED BY <1>5, <2>1, <2>2
<1>7. ASSUME ResumeLaunch(s)
      PROVE  RunKeeps
  <2> DEFINE r == [NotRunning EXCEPT !.pc = "gone"]
  <2>1. r \in RunRecord /\ r.child = NoSession
    BY DEF NotRunning, RunRecord, RunPC
  <2>2. LaunchChild(s, r)
    BY <1>7 DEF ResumeLaunch
  <2> HIDE DEF r
  <2> QED BY <1>5, <2>1, <2>2
<1> QED BY <1>4, <1>6, <1>7

-----------------------------------------------------------------------------
(* Clocks and humans.                                                      *)

\* A step that writes one task or one session, and keeps every id.
BoardKeeps == BoardTypeOK' /\ IdsGrow

\* Heartbeats, deadlines and the time that makes a session fall silent.
LEMMA ClockTypes ==
    ASSUME BoardTypeOK, SessionsLinked, ClockStep
    PROVE  BoardKeeps /\ UNCHANGED <<pump, run>>
<1>1. ASSUME NEW s \in Session,
             \/ \E b \in {"fresh", "stale"} :
                   session' = [session EXCEPT ![s].beat = b]
             \/ session' = [session EXCEPT ![s].wait = "over"],
             faults' \in Nat, UNCHANGED <<task, overlap>>
      PROVE  BoardKeeps
  <2>1. BoardTypeOK'
    BY <1>1 DEF BoardTypeOK, SessionRecord
  <2>2. IdsGrow
    BY <1>1 DEF BoardTypeOK, SessionRecord, IdsGrow, SessionsLinked,
                LinkedId, TaskOf
  <2> QED BY <2>1, <2>2 DEF BoardKeeps
<1>2. faults \in Nat /\ faults + 1 \in Nat
  BY DEF BoardTypeOK
<1>3. ASSUME NEW s \in Session, Heartbeat(s) \/ FallSilent(s) \/ WaitDeadline(s)
      PROVE  BoardKeeps /\ UNCHANGED <<pump, run>>
  BY <1>1, <1>2, <1>3 DEF Heartbeat, FallSilent, WaitDeadline
<1>4. ASSUME NEW t \in Task, RestartDeadline(t)
      PROVE  BoardKeeps /\ UNCHANGED <<pump, run>>
  <2>1. BoardTypeOK'
    BY <1>4 DEF RestartDeadline, BoardTypeOK, TaskRecord
  <2> QED BY <1>4, <2>1, IdsKept DEF RestartDeadline, BoardKeeps
<1> QED BY <1>3, <1>4 DEF ClockStep

\* The requests that are one locked section each.
LEMMA RequestTypes ==
    ASSUME TypeOK, SessionsLinked, NEW t \in Task,
           QueueRun(t) \/ Dequeue(t) \/ Recover(t) \/ HumanDone(t) \/ Stop(t)
    PROVE  /\ BoardKeeps
           /\ UNCHANGED <<pump, run, start>>
           /\ requests' \in Nat
           /\ stopped' \subseteq Session
<1> USE DEF TypeOK
<1>1. requests' \in Nat
  BY DEF QueueRun, Dequeue, Recover, HumanDone, Stop, Request
<1>2. ASSUME NEW r \in TaskRecord, task' = [task EXCEPT ![t] = r],
             UNCHANGED <<session, faults, overlap>>
      PROVE  BoardKeeps
  BY <1>2, IdsKept DEF BoardKeeps, BoardTypeOK
<1>3. task[t] \in TaskRecord /\ ResetHumanRestart(task[t]) \in TaskRecord
  BY TaskWrites DEF BoardTypeOK
<1>4. CASE QueueRun(t)
  <2> DEFINE r == [ResetHumanRestart(task[t]) EXCEPT !.status = "InProgress",
                                                     !.phase = "Queued"]
  <2>1. r \in TaskRecord
    BY <1>3 DEF TaskRecord, TaskStatus, RunPhase
  <2>2. task' = [task EXCEPT ![t] = r]
    BY <1>4 DEF QueueRun
  <2> HIDE DEF r
  <2> QED BY <1>1, <1>2, <1>4, <2>1, <2>2 DEF QueueRun
<1>5. CASE Dequeue(t)
  <2> DEFINE r == [ResetHumanRestart(task[t]) EXCEPT !.phase = "None"]
  <2>1. r \in TaskRecord
    BY <1>3 DEF TaskRecord, RunPhase
  <2>2. task' = [task EXCEPT ![t] = r]
    BY <1>5 DEF Dequeue
  <2> HIDE DEF r
  <2> QED BY <1>1, <1>2, <1>5, <2>1, <2>2 DEF Dequeue
<1>6. CASE Recover(t)
  <2> DEFINE r == [ResetHumanRestart(task[t]) EXCEPT !.status = "Todo",
                      !.phase = "None", !.designed = FALSE]
  <2>1. r \in TaskRecord
    BY <1>3 DEF TaskRecord, TaskStatus, RunPhase
  <2>2. task' = [task EXCEPT ![t] = r]
    BY <1>6 DEF Recover
  <2> HIDE DEF r
  <2> QED BY <1>1, <1>2, <1>6, <2>1, <2>2 DEF Recover
<1>7. CASE HumanDone(t)
  <2>1. task' \in [Task -> TaskRecord]
    BY <1>7 DEF HumanDone, BoardTypeOK, TaskRecord, TaskStatus
  <2>2. \A s \in Session :
           /\ Ended(session[s], "deleted") \in SessionRecord
           /\ Ended(session[s], "deleted").task = session[s].task
           /\ Ended(session[s], "deleted").status = "deleted"
    BY DEF Ended, UnusedSession, SessionRecord, SessionStatus, BoardTypeOK
  <2>3. BoardTypeOK'
    BY <1>7, <2>1, <2>2 DEF HumanDone, BoardTypeOK
  <2>4. \A s \in Session : TaskOf(s) = t => s \in LinkedId
    BY BoardAssumption DEF BoardAssumption, SessionsLinked
  <2>5. IdsGrow
    BY <1>7, <2>2, <2>4 DEF HumanDone, IdsGrow, SessionsLinked, LinkedId, TaskOf
  <2> QED BY <1>1, <1>7, <2>3, <2>5 DEF HumanDone, BoardKeeps
<1>8. CASE Stop(t)
  <2>1. BoardTypeOK'
    BY <1>8, SessionWrites DEF Stop, BoardTypeOK
  <2>2. IdsGrow
    BY <1>8, IdsKept DEF Stop
  <2> QED BY <1>1, <1>8, <2>1, <2>2 DEF Stop, IsActive, BoardKeeps
<1> QED BY <1>4, <1>5, <1>6, <1>7, <1>8

\* What a start keeps of its own record.
StartKeeps ==
    /\ BoardTypeOK'
    /\ start' \in [Starter -> StartRecord]
    /\ requests' \in Nat
    /\ SessionsLinked'
    /\ StartsLinked'
    /\ LinkedId \subseteq LinkedId'

\* The check mints an id nobody else holds.
LEMMA StartCheckTypes ==
    ASSUME TypeOK, WellLinked, NEW h \in Starter, NEW t \in Task,
           NEW s \in Session, StartCheck(h, t, s)
    PROVE  StartKeeps
<1> USE DEF TypeOK
<1> DEFINE r == [IdleStart EXCEPT !.pc = "take", !.task = t, !.session = s]
<1>1. /\ r \in StartRecord
      /\ r.pc = "take" /\ r.task = t /\ r.session = s
  BY DEF StartRecord, IdleStart, TaskStatus
<1>2. /\ start' = [start EXCEPT ![h] = r]
      /\ session[s].status = "unused"
      /\ session' = [session EXCEPT ![s].status = "minted"]
      /\ UNCHANGED <<task, faults, overlap, stopped>>
  BY DEF StartCheck, Fresh
<1> HIDE DEF r
<1>3. BoardTypeOK'
  BY <1>2 DEF BoardTypeOK, SessionRecord, SessionStatus
<1>4. start' \in [Starter -> StartRecord] /\ requests' \in Nat
  BY <1>1, <1>2 DEF StartCheck, Request
<1>5. /\ \A x \in Session : x # s => session'[x] = session[x]
      /\ session'[s].status = "minted" /\ session'[s].task = session[s].task
  BY <1>2 DEF BoardTypeOK, SessionRecord
<1>6. SessionsLinked' /\ LinkedId' = LinkedId
  BY <1>2, <1>5 DEF SessionsLinked, WellLinked, LinkedId, TaskOf
<1>7. StartsLinked'
  BY <1>1, <1>2, <1>5, <1>6 DEF StartsLinked, WellLinked
<1> QED BY <1>3, <1>4, <1>6, <1>7 DEF StartKeeps

\* The take links the id it minted.
LEMMA StartTakeTypes ==
    ASSUME TypeOK, WellLinked, NEW h \in Starter, StartTake(h)
    PROVE  StartKeeps
<1> USE DEF TypeOK
<1> DEFINE t == start[h].task
           s == start[h].session
           r == [start[h] EXCEPT !.pc = "launch", !.status = task[t].status]
<1>1. t \in Task /\ s \in Session /\ session[s].status = "minted"
  BY DEF StartTake, StartsLinked, WellLinked
<1>2. start' = [start EXCEPT ![h] = r]
  BY DEF StartTake
<1>3. r \in StartRecord /\ r.pc = "launch" /\ r.session = s
  BY <1>1 DEF StartRecord, BoardTypeOK, TaskRecord
<1>4. /\ session' = Linked(session, s, t)
      /\ faults' = faults /\ overlap' \subseteq overlap \cup {t}
  BY DEF StartTake, OverlapWith
<1>5. task' \in [Task -> TaskRecord]
  <2>1. ResetHumanRestart(task[t]) \in TaskRecord
    BY <1>1, TaskWrites DEF BoardTypeOK
  <2>2. \A x \in TaskRecord, q \in {"Design", "None"} :
           [x EXCEPT !.status = "InProgress", !.session = s, !.phase = q]
              \in TaskRecord
    BY <1>1 DEF TaskRecord, TaskStatus, RunPhase
  <2> QED BY <1>1, <2>1, <2>2 DEF StartTake, BoardTypeOK
<1>6. BoardTypeOK'
  BY <1>1, <1>4, <1>5, SessionWrites DEF BoardTypeOK
<1> HIDE DEF r, t
<1>7. start' \in [Starter -> StartRecord] /\ requests' \in Nat
  BY <1>2, <1>3 DEF StartTake
<1>8. /\ \A x \in Session : x # s => session'[x] = session[x]
      /\ session'[s].status = "Active" /\ session'[s].task = t
  BY <1>1, <1>4 DEF BoardTypeOK, Linked
<1>9. SessionsLinked' /\ LinkedId' = LinkedId \cup {s}
  BY <1>1, <1>8 DEF SessionsLinked, WellLinked, LinkedId, TaskOf
<1>10. \A g \in Starter : g # h => start'[g] = start[g]
  BY <1>2
<1>11. start'[h] = r
  BY <1>2
<1>12. \A g \in Starter : g # h /\ start[g].pc = "take" => start[g].session # s
  BY DEF StartsLinked, WellLinked, StartTake
<1>13. StartsLinked'
  BY <1>3, <1>8, <1>9, <1>10, <1>11, <1>12 DEF StartsLinked, WellLinked
<1> QED BY <1>6, <1>7, <1>9, <1>13 DEF StartKeeps

\* The launch of a start, its failure and its rollback.
LEMMA StartEndTypes ==
    ASSUME TypeOK, WellLinked, NEW h \in Starter,
           StartLaunch(h) \/ StartLaunchFails(h) \/ StartRollback(h)
    PROVE  StartKeeps /\ IdsGrow
<1> USE DEF TypeOK
<1>1. BoardTypeOK'
  <2>1. CASE StartLaunch(h)
    BY <2>1 DEF StartLaunch, board, BoardTypeOK
  <2>2. CASE StartLaunchFails(h)
    <3>1. faults' \in Nat
      BY <2>2 DEF StartLaunchFails, BoardTypeOK
    <3>2. session' \in [Session -> SessionRecord]
      BY <2>2, SessionWrites DEF StartLaunchFails, BoardTypeOK
    <3> QED BY <2>2, <3>1, <3>2 DEF StartLaunchFails, BoardTypeOK
  <2>3. CASE StartRollback(h)
    <3> DEFINE st == start[h].status
               t == start[h].task
    <3>1. st \in TaskStatus /\ task' = [task EXCEPT ![t].status = st]
      BY <2>3 DEF StartRollback, StartRecord
    <3> HIDE DEF st, t
    <3>2. task' \in [Task -> TaskRecord]
      BY <3>1 DEF BoardTypeOK, TaskRecord
    <3> QED BY <2>3, <3>2 DEF StartRollback, BoardTypeOK
  <2> QED BY <2>1, <2>2, <2>3
<1>2. IdsGrow
  <2>1. \/ session' = session
        \/ session' = Crashed(session, start[h].session)
    BY DEF StartLaunch, StartLaunchFails, StartRollback, board
  <2> QED BY <2>1, IdsKept DEF WellLinked
<1>3. \/ start' = [start EXCEPT ![h] = IdleStart]
      \/ /\ start' = [start EXCEPT ![h].pc = "rollback"]
         /\ start[h].session \in LinkedId
  BY DEF StartLaunch, StartLaunchFails, StartRollback, StartsLinked, WellLinked
<1>4. IdleStart \in StartRecord /\ IdleStart.pc = "idle"
  BY DEF IdleStart, StartRecord, TaskStatus
<1>5. start' \in [Starter -> StartRecord]
  BY <1>3, <1>4 DEF StartRecord
<1>6. requests' \in Nat
  BY DEF StartLaunch, StartLaunchFails, StartRollback
<1>7. StartsLinked'
  BY <1>2, <1>3, <1>4 DEF StartsLinked, WellLinked, IdsGrow, StartRecord
<1> QED BY <1>1, <1>2, <1>5, <1>6, <1>7 DEF StartKeeps, IdsGrow

-----------------------------------------------------------------------------
(* Every step.                                                             *)

WellTyped == TypeOK /\ WellLinked

\* A step of a pump also keeps the runs: it starts an agent in the session it
\* holds, or leaves that session to nobody.
LEMMA PumpStepTypes ==
    ASSUME WellTyped, NEW p \in Pump, PumpStep(p) \/ PumpDies(p)
    PROVE  PumpKeeps /\ RunsTypeOK' /\ RunsLinked'
<1> USE DEF WellTyped, TypeOK
<1>1. PumpKeeps
  BY ListingTypes, WakeTypes, ReapTypes, WalkTypes, LaunchTypes DEF PumpStep
<1>2. IdsGrow
  BY <1>1 DEF PumpKeeps
<1>3. CASE UNCHANGED run
  BY <1>1, <1>2, <1>3, HeldIdsStay DEF RunsTypeOK
<1>4. ASSUME pump[p].pc = "launch",
             \E pc \in RunPC : run' = [run EXCEPT ![pump[p].cur].pc = pc]
      PROVE  RunsTypeOK' /\ RunsLinked'
  <2>1. pump[p].cur \in LinkedId
    BY <1>4 DEF WellLinked, PumpsLinked, HoldsSession
  <2> QED BY <1>2, <1>4, <2>1, RunStarts
<1>5. CASE PumpLaunch(p)
  BY <1>1, <1>4, <1>5 DEF PumpLaunch, RunPC
<1>6. CASE PumpDies(p)
  BY <1>1, <1>3, <1>4, <1>6 DEF PumpDies, RunPC
<1>7. CASE PumpStep(p) /\ ~PumpLaunch(p)
  <2>1. UNCHANGED run
    BY <1>7 DEF PumpStep, WakeBegin, WakeRead, WakeCrash, WakeQueue,
                WakeFencedOut, WakeClose, ReapBegin, ReapOne, ScheduleOne,
                DueRestarts, WalkBegin, Claim, ClaimRefused, PumpLaunchFails,
                ScheduleFailed
  <2> QED BY <1>3, <2>1
<1> QED BY <1>5, <1>6, <1>7

\* A step of a run, or the death of its process, leaves the pumps alone.
LEMMA RunStepTypes ==
    ASSUME WellTyped, NEW s \in Session, RunStep(s) \/ ProcessDies(s)
    PROVE  RunKeeps /\ UNCHANGED pump
<1> USE DEF WellTyped, TypeOK
<1>1. UNCHANGED pump
  BY DEF RunStep, CommandStep, HandlerStep, ExitStep, DeclareWaiting,
         ExecutorDone, VerificationFails, DesignerDone, Verdict, CloseOwn,
         ReviewClaim, DesignClaim, ReviewRefused, DesignRefused, ChildLaunch,
         ChildLaunchFails, ChildSchedule, ExitCrash, ExitSchedule, ExitWait,
         ExitCheck, ExitExhausted, ResumeClaim, ResumeRefused, ResumeLaunch,
         ResumeLaunchFails, Exit, ProcessDies
<1>2. CASE RunStep(s)
  <2>1. CASE CommandStep(s)
    BY <1>1, <2>1, CommandTypes
  <2>2. ASSUME NEW c \in Session,
               ReviewClaim(s, c) \/ DesignClaim(s, c) \/ ResumeClaim(s, c)
        PROVE  RunKeeps
    BY <2>2, ClaimTypes
  <2>3. CASE \/ CloseOwn(s) \/ ExitCrash(s) \/ ExitWait(s)
             \/ ExitExhausted(s) \/ ChildLaunchFails(s)
             \/ ResumeLaunchFails(s)
    BY <1>1, <2>3, SessionEndTypes
  <2>4. CASE \/ ReviewRefused(s) \/ DesignRefused(s) \/ ResumeRefused(s)
             \/ ChildSchedule(s) \/ ExitStep(s)
             \/ \E retryable \in BOOLEAN : ExitSchedule(s, retryable)
    BY <1>1, <2>4, ExitTypes DEF ExitStep
  <2>5. CASE \/ ChildLaunch(s) \/ ResumeLaunch(s)
             \/ \E asked \in BOOLEAN : ExitCheck(s, asked)
    BY <1>1, <2>5, LaunchedTypes
  <2> QED BY <1>1, <1>2, <2>1, <2>2, <2>3, <2>4, <2>5
          DEF RunStep, HandlerStep
<1>3. CASE ProcessDies(s)
  <2>1. faults' \in Nat
    BY <1>3 DEF ProcessDies, BoardTypeOK
  <2>2. BoardTypeOK'
    BY <1>3, <2>1 DEF ProcessDies, BoardTypeOK
  <2>3. IdsGrow
    BY <1>3, IdsKept DEF ProcessDies, WellLinked
  <2>4. RunsTypeOK' /\ RunsLinked'
    BY <1>3, <2>3, RunKilled DEF ProcessDies
  <2> QED BY <1>1, <2>2, <2>3, <2>4 DEF RunKeeps
<1> QED BY <1>1, <1>2, <1>3

\* What humans do keeps the invariant.
LEMMA HumanStepTypes ==
    ASSUME WellTyped, HumanStep
    PROVE  WellTyped'
<1> USE DEF WellTyped, TypeOK
<1>1. ASSUME UNCHANGED <<pump, run, start>>, BoardKeeps, requests' \in Nat,
             stopped' \subseteq Session
      PROVE  WellTyped'
  BY <1>1, HeldIdsStay
     DEF BoardKeeps, DispatcherTypeOK, RunsTypeOK, WellLinked, IdsGrow
<1>2. ASSUME NEW t \in Task,
             QueueRun(t) \/ Dequeue(t) \/ Recover(t) \/ HumanDone(t) \/ Stop(t)
      PROVE  WellTyped'
  BY <1>1, <1>2, RequestTypes DEF WellLinked
<1>3. ASSUME NEW s \in Session, KillStopped(s)
      PROVE  WellTyped'
  <2>1. BoardTypeOK' /\ session' = session
    BY <1>3 DEF KillStopped, board, BoardTypeOK
  <2>2. IdsGrow
    BY <2>1, IdsKept DEF WellLinked
  <2>3. RunsTypeOK' /\ RunsLinked'
    BY <1>3, <2>2, RunKilled DEF KillStopped
  <2>4. UNCHANGED <<pump, start, requests, stopped>>
    BY <1>3 DEF KillStopped, human
  <2> QED BY <2>1, <2>2, <2>3, <2>4, HeldIdsStay
          DEF DispatcherTypeOK, WellLinked, IdsGrow
<1>4. ASSUME StartKeeps, UNCHANGED <<pump, stopped>>, RunsTypeOK', RunsLinked'
      PROVE  WellTyped'
  BY <1>4 DEF StartKeeps, DispatcherTypeOK, WellLinked, PumpsLinked
<1>5. ASSUME StartKeeps, UNCHANGED <<pump, run, stopped>>
      PROVE  WellTyped'
  BY <1>4, <1>5 DEF StartKeeps, RunsTypeOK, WellLinked, RunsLinked
<1>6. ASSUME NEW h \in Starter, NEW t \in Task, NEW s \in Session,
             StartCheck(h, t, s)
      PROVE  WellTyped'
  BY <1>5, <1>6, StartCheckTypes DEF StartCheck
<1>7. ASSUME NEW h \in Starter, StartTake(h)
      PROVE  WellTyped'
  BY <1>5, <1>7, StartTakeTypes DEF StartTake
<1>8. ASSUME NEW h \in Starter, StartLaunchFails(h) \/ StartRollback(h)
      PROVE  WellTyped'
  BY <1>5, <1>8, StartEndTypes DEF StartLaunchFails, StartRollback
<1>9. ASSUME NEW h \in Starter, StartLaunch(h)
      PROVE  WellTyped'
  <2>1. StartKeeps /\ IdsGrow
    BY <1>9, StartEndTypes
  <2>2. start[h].session \in LinkedId
    BY <1>9 DEF StartLaunch, StartsLinked, WellLinked
  <2>3. /\ run' = [run EXCEPT ![start[h].session].pc = "run"]
        /\ UNCHANGED <<pump, stopped>>
    BY <1>9 DEF StartLaunch
  <2>4. "run" \in RunPC
    BY DEF RunPC
  <2>5. RunsTypeOK' /\ RunsLinked'
    BY <2>1, <2>2, <2>3, <2>4, RunStarts
  <2> QED BY <1>4, <2>1, <2>3, <2>5
<1> QED BY <1>2, <1>3, <1>6, <1>7, <1>8, <1>9 DEF HumanStep, StartStep

\* The invariant holds of a new board.
LEMMA InitTyped == Init => WellTyped
<1> SUFFICES ASSUME Init PROVE WellTyped
  OBVIOUS
<1> USE DEF Init, BoardInit, DispatcherInit, RunsInit
<1>1. BoardTypeOK
  BY DEF BoardTypeOK, NewTask, TaskRecord, TaskStatus, RunPhase,
         UnusedSession, SessionRecord, SessionStatus
<1>2. DispatcherTypeOK
  BY PumpIdles DEF DispatcherTypeOK
<1>3. RunsTypeOK
  BY DEF RunsTypeOK, NotRunning, RunRecord, RunPC
<1>4. start \in [Starter -> StartRecord] /\ requests \in Nat /\ stopped \subseteq Session
  BY DEF IdleStart, StartRecord, TaskStatus
<1>5. WellLinked
  BY DEF WellLinked, SessionsLinked, PumpsLinked, RunsLinked, StartsLinked,
         LinkedId, TaskOf, UnusedSession, IdlePump, NotRunning, IdleStart,
         HoldsSession
<1> QED BY <1>1, <1>2, <1>3, <1>4, <1>5 DEF WellTyped, TypeOK

\* Every step keeps the invariant.
LEMMA NextTyped == WellTyped /\ [Next]_vars => WellTyped'
<1> SUFFICES ASSUME WellTyped, [Next]_vars PROVE WellTyped'
  OBVIOUS
<1>1. ASSUME UNCHANGED human, BoardTypeOK', DispatcherTypeOK', RunsTypeOK',
             IdsGrow, PumpsLinked', RunsLinked'
      PROVE  WellTyped'
  BY <1>1, HeldIdsStay DEF WellTyped, TypeOK, human, WellLinked, IdsGrow
<1>2. ASSUME NEW p \in Pump, PumpStep(p) \/ PumpDies(p), UNCHANGED human
      PROVE  WellTyped'
  BY <1>1, <1>2, PumpStepTypes DEF PumpKeeps
<1>3. ASSUME NEW s \in Session, RunStep(s) \/ ProcessDies(s), UNCHANGED human
      PROVE  WellTyped'
  BY <1>1, <1>3, RunStepTypes, HeldIdsStay
     DEF RunKeeps, WellTyped, TypeOK, DispatcherTypeOK
<1>4. ASSUME ClockStep, UNCHANGED human
      PROVE  WellTyped'
  BY <1>1, <1>4, ClockTypes, HeldIdsStay
     DEF BoardKeeps, WellTyped, TypeOK, DispatcherTypeOK, RunsTypeOK, WellLinked
<1>5. CASE UNCHANGED vars
  BY <1>5 DEF vars, WellTyped, TypeOK, BoardTypeOK, DispatcherTypeOK, RunsTypeOK,
              WellLinked, SessionsLinked, PumpsLinked, RunsLinked,
              StartsLinked, LinkedId, TaskOf
<1> QED BY <1>2, <1>3, <1>4, <1>5, HumanStepTypes DEF Next, BoardStep

\* The records stay well formed and every id a process holds stays linked.
THEOREM WellTypedAlways == Spec => []WellTyped
BY InitTyped, NextTyped, PTL DEF Spec

\* Type correctness of the whole lifecycle, for every board.
THEOREM TypeCorrect == Spec => []TypeOK
BY WellTypedAlways, PTL DEF WellTyped

-----------------------------------------------------------------------------
(* Who writes the task files.                                              *)

PumpWrites(p) ==
    \/ WakeQueue(p)
    \/ DueRestarts(p)
    \/ ScheduleFailed(p)
    \/ \E s \in Session : ScheduleOne(p, s)
    \/ \E t \in Task, s \in Session : Claim(p, t, s)

RunWrites(s) ==
    \/ ExecutorDone(s)
    \/ \E approve \in BOOLEAN, rework \in {"Todo", "Queued"} :
          Verdict(s, approve, rework)
    \/ \E c \in Session :
          ReviewClaim(s, c) \/ DesignClaim(s, c) \/ ResumeClaim(s, c)
    \/ ChildSchedule(s)
    \/ \E retryable \in BOOLEAN : ExitSchedule(s, retryable)

RequestWrites(t) == QueueRun(t) \/ Dequeue(t) \/ Recover(t) \/ HumanDone(t)

StartWrites(h) == StartTake(h) \/ StartRollback(h)

TaskWriter ==
    \/ \E p \in Pump : PumpWrites(p)
    \/ \E s \in Session : RunWrites(s)
    \/ \E t \in Task : RestartDeadline(t) \/ RequestWrites(t)
    \/ \E h \in Starter : StartWrites(h)

\* Every step that changes a task file is one of those.
LEMMA TaskWriters ==
    ASSUME [Next]_vars
    PROVE  task' = task \/ TaskWriter
<1>1. ASSUME NEW p \in Pump, PumpStep(p) \/ PumpDies(p)
      PROVE  task' = task \/ PumpWrites(p)
  BY <1>1 DEF PumpStep, PumpDies, PumpWrites, WakeBegin, WakeRead, WakeCrash,
              WakeFencedOut, WakeClose, ReapBegin, ReapOne, WalkBegin,
              ClaimRefused, PumpLaunch, PumpLaunchFails, board
<1>2. ASSUME NEW s \in Session, CommandStep(s) \/ ExitStep(s) \/ ProcessDies(s)
      PROVE  task' = task \/ RunWrites(s)
  BY <1>2 DEF CommandStep, ExitStep, ProcessDies, RunWrites, DeclareWaiting,
              VerificationFails, DesignerDone, Exit, board
<1>3. ASSUME NEW s \in Session, HandlerStep(s)
      PROVE  task' = task \/ RunWrites(s)
  BY <1>3 DEF HandlerStep, RunWrites, CloseOwn, ReviewRefused, DesignRefused,
              ChildLaunch, ChildLaunchFails, ExitCrash, ExitWait, ExitCheck,
              ExitExhausted, ResumeRefused, ResumeLaunch, ResumeLaunchFails,
              board
<1>4. ASSUME ClockStep
      PROVE  task' = task \/ \E t \in Task : RestartDeadline(t)
  BY <1>4 DEF ClockStep, Heartbeat, FallSilent, WaitDeadline
<1>5. ASSUME HumanStep
      PROVE  \/ task' = task
             \/ \E t \in Task : RequestWrites(t)
             \/ \E h \in Starter : StartWrites(h)
  BY <1>5 DEF HumanStep, RequestWrites, StartWrites, Stop, KillStopped,
              StartCheck, StartStep, StartLaunch, StartLaunchFails, board
<1>6. CASE UNCHANGED vars
  BY <1>6 DEF vars
<1> QED BY <1>1, <1>2, <1>3, <1>4, <1>5, <1>6
        DEF Next, BoardStep, RunStep, TaskWriter

-----------------------------------------------------------------------------
(* The crash-restart budget.                                               *)

\* What a step may do to the budget of a task: nothing, but for a deadline
\* that passes; forget it; set a deadline while the schedule lasts; spend the
\* deadline that passed.
CrashStep(t) ==
    \/ /\ task'[t].crashes = task[t].crashes
       /\ task'[t].restart # "none" => task[t].restart # "none"
    \/ task'[t].crashes = 0 /\ task'[t].restart = "none"
    \/ task'[t].crashes = task[t].crashes /\ task[t].crashes < RestartSteps
    \/ /\ task[t].restart = "due"
       /\ task'[t].crashes = task[t].crashes + 1
       /\ task'[t].restart = "none"

\* Every step does one of these to the crash budget of every task.
LEMMA CrashSteps ==
    ASSUME WellTyped, [Next]_vars, NEW t \in Task
    PROVE  CrashStep(t)
<1> USE DEF WellTyped, TypeOK, BoardTypeOK
<1>1. CASE task' = task
  BY <1>1 DEF CrashStep
<1>2. ASSUME NEW x, task' = ScheduledRestart(task, x)
      PROVE  CrashStep(t)
  BY <1>2 DEF ScheduledRestart, CrashStep, TaskRecord
<1>3. ASSUME NEW x \in Task, NEW r, task' = [task EXCEPT ![x] = r],
             \/ r.crashes = task[x].crashes /\ r.restart = task[x].restart
             \/ r.crashes = 0 /\ r.restart = "none"
      PROVE  CrashStep(t)
  BY <1>3 DEF CrashStep
<1>4. ASSUME NEW r \in TaskRecord
      PROVE  /\ Landed(r).crashes = r.crashes /\ Landed(r).restart = r.restart
             /\ ResetHumanRestart(r) \in TaskRecord
             /\ ResetHumanRestart(r).crashes = 0
             /\ ResetHumanRestart(r).restart = "none"
  BY TaskWrites DEF Landed, ResetHumanRestart, TaskRecord
<1>5. ASSUME NEW p \in Pump, PumpWrites(p)
      PROVE  CrashStep(t)
  <2>1. CASE WakeQueue(p)
    BY <2>1 DEF WakeQueue, CrashStep, TaskRecord
  <2>2. CASE DueRestarts(p)
    BY <2>2 DEF DueRestarts, Restarted, RestartIsDue, CrashStep, TaskRecord
  <2>3. CASE ScheduleFailed(p) \/ \E s \in Session : ScheduleOne(p, s)
    BY <1>2, <2>3 DEF ScheduleFailed, ScheduleOne
  <2>4. CASE \E x \in Task, s \in Session : Claim(p, x, s)
    BY <2>4 DEF Claim, CrashStep, TaskRecord
  <2> QED BY <1>5, <2>1, <2>2, <2>3, <2>4 DEF PumpWrites
<1>6. ASSUME NEW s \in Session, RunWrites(s)
      PROVE  CrashStep(t)
  <2> DEFINE x == TaskOf(s)
  <2>0. x \in Task
    <3>1. run[s].pc # "none"
      BY <1>6 DEF RunWrites, ExecutorDone, Verdict, ReviewClaim, DesignClaim,
                  ResumeClaim, ChildSchedule, ExitSchedule
    <3> QED BY <3>1, HeldByRun DEF RunHolds, SessionsLinked
  <2> HIDE DEF x
  <2>1. CASE ExecutorDone(s)
    BY <1>1, <1>3, <1>4, <2>0, <2>1 DEF ExecutorDone, x
  <2>2. ASSUME NEW approve \in BOOLEAN, NEW rework \in {"Todo", "Queued"},
               Verdict(s, approve, rework)
        PROVE  CrashStep(t)
    <3>1. \/ task' = [task EXCEPT ![x] = Landed(task[x])]
          \/ task' = [task EXCEPT ![x] = [task[x] EXCEPT !.status = "Todo",
                                                         !.phase = "None"]]
          \/ task' = [task EXCEPT ![x] = [task[x] EXCEPT !.phase = "Queued"]]
      BY <2>2 DEF Verdict, x
    <3>2. CASE task' = [task EXCEPT ![x] = Landed(task[x])]
      BY <1>3, <1>4, <2>0, <3>2
    <3>3. CASE task' # [task EXCEPT ![x] = Landed(task[x])]
      BY <1>3, <2>0, <3>1, <3>3 DEF TaskRecord
    <3> QED BY <3>2, <3>3
  <2>3. ASSUME NEW c \in Session,
               ReviewClaim(s, c) \/ DesignClaim(s, c) \/ ResumeClaim(s, c)
        PROVE  CrashStep(t)
    <3>1. \E q, n : task' = [task EXCEPT ![x] =
                       [task[x] EXCEPT !.phase = q, !.rounds = n, !.session = c]]
          \/ task' = [task EXCEPT ![x] =
                [task[x] EXCEPT !.phase = "Execute", !.designed = TRUE,
                                !.resumes = 0, !.session = c]]
          \/ task' = [task EXCEPT ![x] =
                [task[x] EXCEPT !.resumes = n, !.session = c, !.phase = q]]
      BY <2>3, Zenon DEF ReviewClaim, DesignClaim, ResumeClaim, x
    <3> QED BY <1>3, <2>0, <3>1 DEF TaskRecord
  <2>4. CASE ChildSchedule(s) \/ \E retryable \in BOOLEAN :
                                    ExitSchedule(s, retryable)
    BY <1>1, <1>2, <2>4 DEF ChildSchedule, ExitSchedule
  <2> QED BY <1>6, <2>1, <2>2, <2>3, <2>4 DEF RunWrites
<1>7. ASSUME NEW x \in Task, RestartDeadline(x)
      PROVE  CrashStep(t)
  BY <1>7 DEF RestartDeadline, CrashStep, TaskRecord
<1>8. ASSUME NEW x \in Task, NEW r, r \in TaskRecord,
             r.crashes = 0 /\ r.restart = "none",
             \/ task' = [task EXCEPT ![x] =
                   [r EXCEPT !.status = "InProgress", !.phase = "Queued"]]
             \/ task' = [task EXCEPT ![x] = [r EXCEPT !.phase = "None"]]
             \/ task' = [task EXCEPT ![x] =
                   [r EXCEPT !.status = "Todo", !.phase = "None",
                             !.designed = FALSE]]
             \/ \E s, q : task' = [task EXCEPT ![x] =
                   [r EXCEPT !.status = "InProgress", !.session = s,
                             !.phase = q]]
      PROVE  CrashStep(t)
  BY <1>3, <1>8 DEF TaskRecord
<1>9. ASSUME NEW x \in Task, RequestWrites(x)
      PROVE  CrashStep(t)
  <2> DEFINE r == ResetHumanRestart(task[x])
  <2>1. r \in TaskRecord /\ r.crashes = 0 /\ r.restart = "none"
    BY <1>4
  <2>2. CASE QueueRun(x) \/ Dequeue(x) \/ Recover(x)
    BY <1>8, <2>1, <2>2 DEF QueueRun, Dequeue, Recover
  <2>3. CASE HumanDone(x)
    BY <2>3 DEF HumanDone, CrashStep, TaskRecord
  <2> QED BY <1>9, <2>2, <2>3 DEF RequestWrites
<1>10. ASSUME NEW h \in Starter, StartWrites(h)
       PROVE  CrashStep(t)
  <2>1. CASE StartTake(h)
    <3> DEFINE x == start[h].task
               r == ResetHumanRestart(task[x])
    <3>1. x \in Task
      BY <2>1 DEF StartTake, StartsLinked, WellLinked
    <3>2. r \in TaskRecord /\ r.crashes = 0 /\ r.restart = "none"
      BY <1>4, <3>1
    <3>3. \E s, q : task' = [task EXCEPT ![x] =
                       [r EXCEPT !.status = "InProgress", !.session = s,
                                 !.phase = q]]
      BY <2>1, Zenon DEF StartTake
    <3> QED BY <1>8, <3>1, <3>2, <3>3
  <2>2. CASE StartRollback(h)
    BY <2>2 DEF StartRollback, CrashStep, TaskRecord
  <2> QED BY <1>10, <2>1, <2>2 DEF StartWrites
<1> QED BY <1>1, <1>5, <1>6, <1>7, <1>9, <1>10, TaskWriters DEF TaskWriter

\* A crashed run is retried at most RestartSteps times, whoever reports it.
THEOREM CrashBudgetHolds == Spec => []CrashBudget
<1>1. Init => CrashBudget
  BY BoardAssumption DEF Init, BoardInit, NewTask, CrashBudget, BoardAssumption
<1>2. WellTyped /\ CrashBudget /\ [Next]_vars => CrashBudget'
  <2> SUFFICES ASSUME WellTyped, CrashBudget, [Next]_vars, NEW t \in Task
               PROVE  /\ task'[t].crashes <= RestartSteps
                      /\ task'[t].restart # "none" =>
                            task'[t].crashes < RestartSteps
    BY DEF CrashBudget
  <2>1. task[t].crashes \in Nat /\ RestartSteps \in Nat
    BY BoardAssumption
       DEF BoardAssumption, WellTyped, TypeOK, BoardTypeOK, TaskRecord
  <2> QED BY <2>1, CrashSteps DEF CrashStep, CrashBudget
<1> QED BY <1>1, <1>2, WellTypedAlways, PTL DEF Spec

-----------------------------------------------------------------------------
(* Handlers between two locks.                                             *)

\* Where a handler waits for its next lock with something it read or closed
\* under the last one.
Between == {"resume_close", "resume_claim", "design_claim"}

\* Only its own handler takes a session there.
LEMMA HandlerSteps ==
    ASSUME WellTyped, [Next]_vars, NEW s \in Session, run'[s].pc \in Between
    PROVE  \/ run'[s] = run[s]
           \/ CloseOwn(s)
           \/ \E asked \in BOOLEAN : ExitCheck(s, asked)
<1> USE DEF Between
<1>0. run \in [Session -> RunRecord]
  BY DEF WellTyped, TypeOK, RunsTypeOK
<1>1. CASE run' = run
  BY <1>1
<1>2. ASSUME NEW c, NEW pc \in {"run", "gone"}, run' = [run EXCEPT ![c].pc = pc]
      PROVE  run'[s] = run[s]
  BY <1>0, <1>2 DEF RunRecord
<1>3. ASSUME NEW x \in Session, Killed(x)
      PROVE  run'[s] = run[s]
  BY <1>3 DEF Killed, NotRunning
<1>4. ASSUME NEW x \in Session,
             \/ Gone(x)
             \/ \E pc \in RunPC \ Between : Goto(x, pc)
             \/ \E pc \in RunPC \ Between : \E c : Launching(x, pc, c)
      PROVE  run'[s] = run[s]
  <2>1. ASSUME NEW r, run' = [run EXCEPT ![x] = r], r.pc \notin Between
        PROVE  run'[s] = run[s]
    BY <1>0, <2>1
  <2>2. CASE Gone(x)
    BY <2>1, <2>2 DEF Gone, NotRunning
  <2>3. ASSUME NEW pc \in RunPC \ Between, Goto(x, pc)
        PROVE  run'[s] = run[s]
    <3> DEFINE r == [run[x] EXCEPT !.pc = pc]
    <3>1. run' = [run EXCEPT ![x] = r] /\ r.pc = pc
      BY <1>0, <2>3 DEF Goto, RunRecord
    <3> HIDE DEF r
    <3> QED BY <2>1, <3>1
  <2>4. ASSUME NEW pc \in RunPC \ Between, NEW c, Launching(x, pc, c)
        PROVE  run'[s] = run[s]
    <3> DEFINE r == [run[x] EXCEPT !.pc = pc, !.child = c]
    <3>1. run' = [run EXCEPT ![x] = r] /\ r.pc = pc
      BY <1>0, <2>4 DEF Launching, RunRecord
    <3> HIDE DEF r
    <3> QED BY <2>1, <3>1
  <2> QED BY <1>4, <2>2, <2>3, <2>4
<1>5. ASSUME NEW x \in Session, NEW after, LaunchChild(x, after),
             after.pc \in {"run", "gone"}
      PROVE  run'[s] = run[s]
  <2> DEFINE started == [run EXCEPT ![run[x].child].pc = "run"]
  <2>1. run' = [started EXCEPT ![x] = after]
    BY <1>5 DEF LaunchChild
  <2>2. /\ started[s] = run[s] \/ started[s].pc = "run"
        /\ started \in [Session -> RunRecord]
    BY <1>0 DEF RunRecord, RunPC
  <2> HIDE DEF started
  <2> QED BY <1>5, <2>1, <2>2
<1>6. ASSUME NEW p \in Pump, PumpStep(p) \/ PumpDies(p)
      PROVE  run'[s] = run[s]
  <2>1. \/ run' = run
        \/ \E c : \E pc \in {"run", "gone"} : run' = [run EXCEPT ![c].pc = pc]
    BY <1>6 DEF PumpStep, PumpDies, WakeBegin, WakeRead, WakeCrash, WakeQueue,
                WakeFencedOut, WakeClose, ReapBegin, ReapOne, ScheduleOne,
                DueRestarts, WalkBegin, Claim, ClaimRefused, PumpLaunch,
                PumpLaunchFails, ScheduleFailed
  <2> QED BY <1>1, <1>2, <2>1
<1>7. ASSUME NEW x \in Session, CommandStep(x) \/ ExitStep(x)
      PROVE  run'[s] = run[s]
  <2>1. \/ run' = run
        \/ Gone(x)
        \/ \E pc \in RunPC \ Between : Goto(x, pc)
    BY <1>7 DEF CommandStep, ExitStep, DeclareWaiting, ExecutorDone,
                VerificationFails, DesignerDone, Verdict, Exit, RunPC
  <2> QED BY <1>1, <1>4, <2>1
<1>8. ASSUME NEW x \in Session, HandlerStep(x), ~CloseOwn(x),
             ~\E asked \in BOOLEAN : ExitCheck(x, asked)
      PROVE  run'[s] = run[s]
  <2>1. CASE ChildLaunch(x)
    <3> DEFINE after == [run[x] EXCEPT !.pc = "run", !.child = NoSession]
    <3>1. LaunchChild(x, after)
      BY <2>1 DEF ChildLaunch
    <3>2. after.pc = "run"
      BY <1>0 DEF RunRecord
    <3> HIDE DEF after
    <3> QED BY <1>5, <3>1, <3>2
  <2>2. CASE ResumeLaunch(x)
    <3>1. \E after : LaunchChild(x, after) /\ after.pc = "gone"
      BY <2>2 DEF ResumeLaunch, NotRunning
    <3> QED BY <1>5, <3>1
  <2>3. CASE ~ChildLaunch(x) /\ ~ResumeLaunch(x)
    <3>1. \/ Gone(x)
          \/ \E pc \in RunPC \ Between : Goto(x, pc)
          \/ \E pc \in RunPC \ Between : \E c : Launching(x, pc, c)
      BY <1>8, <2>3
         DEF HandlerStep, ReviewClaim, DesignClaim, ReviewRefused,
             DesignRefused, ChildLaunchFails, ChildSchedule, ExitCrash,
             ExitSchedule, ExitWait, ExitExhausted, ResumeClaim,
             ResumeRefused, ResumeLaunchFails, RunPC
    <3> QED BY <1>4, <3>1
  <2> QED BY <2>1, <2>2, <2>3
<1>9. ASSUME NEW x \in Session, CloseOwn(x) \/ \E asked \in BOOLEAN : ExitCheck(x, asked),
             x # s
      PROVE  run'[s] = run[s]
  <2>1. \E r : run' = [run EXCEPT ![x] = r]
    <3>1. \A pc : Goto(x, pc) => run' = [run EXCEPT ![x] = [@ EXCEPT !.pc = pc]]
      BY Zenon DEF Goto
    <3>2. CASE CloseOwn(x)
      BY <3>1, <3>2 DEF CloseOwn
    <3>3. ASSUME NEW asked \in BOOLEAN, ExitCheck(x, asked)
          PROVE  \E r : run' = [run EXCEPT ![x] = r]
      BY <3>1, <3>3 DEF ExitCheck
    <3> QED BY <1>9, <3>2, <3>3
  <2> QED BY <1>0, <1>9, <2>1
<1>10. ASSUME ClockStep
       PROVE  run' = run
  BY <1>10 DEF ClockStep, Heartbeat, FallSilent, WaitDeadline, RestartDeadline
<1>11. ASSUME HumanStep
       PROVE  run'[s] = run[s]
  <2>1. \/ run' = run
        \/ \E x \in Session : Killed(x)
        \/ \E c : run' = [run EXCEPT ![c].pc = "run"]
    BY <1>11 DEF HumanStep, StartStep, QueueRun, Dequeue, Recover, HumanDone,
                 Stop, KillStopped, StartCheck, StartTake, StartLaunch,
                 StartLaunchFails, StartRollback
  <2> QED BY <1>1, <1>2, <1>3, <2>1
<1>12. CASE UNCHANGED vars
  BY <1>12 DEF vars
<1> QED BY <1>3, <1>6, <1>7, <1>8, <1>9, <1>10, <1>11, <1>12
        DEF Next, BoardStep, RunStep, ProcessDies

-----------------------------------------------------------------------------
(* The resume budget.                                                      *)

\* An attempt read under one lock and spent under a later one is within the
\* budget when it is read, and the budget does not shrink.
Attempts ==
    /\ \A p \in Pump :
          pump[p].pc = "wake_queue" => pump[p].attempt <= MaxResumes
    /\ \A s \in Session :
          run[s].pc \in {"resume_close", "resume_claim"} =>
              run[s].attempt <= MaxResumes

\* A resume that is not refused is one more than those spent so far.
LEMMA NextAttempt ==
    ASSUME WellTyped, NEW t \in Task, ~ResumesSpent(task[t])
    PROVE  task[t].resumes + 1 <= MaxResumes
<1>1. task[t].resumes \in Nat /\ MaxResumes \in Nat
  BY BoardAssumption
     DEF BoardAssumption, WellTyped, TypeOK, BoardTypeOK, TaskRecord
<1> QED BY <1>1 DEF ResumesSpent

\* Every step keeps the attempts in flight within the budget: they are read by
\* wake_expired_waits and by the exit of an agent, and nowhere else.
LEMMA AttemptsKept ==
    ASSUME WellTyped, Attempts, [Next]_vars
    PROVE  Attempts'
<1> USE DEF WellTyped, TypeOK
<1>1. ASSUME NEW p \in Pump, pump'[p].pc = "wake_queue"
      PROVE  pump'[p].attempt <= MaxResumes
  <2>1. CASE pump'[p] = pump[p]
    BY <1>1, <2>1 DEF Attempts
  <2>2. pump \in [Pump -> PumpRecord]
    BY DEF DispatcherTypeOK
  <2>3. ASSUME NEW s \in Session, WakeRead(p, s)
        PROVE  pump'[p].attempt <= MaxResumes
    <3> DEFINE n == task[TaskOf(s)].resumes + 1
    <3>1. TaskOf(s) \in Task
      BY <2>3 DEF WakeRead, WellLinked, PumpsLinked, SessionsLinked
    <3>2. pump'[p].attempt = n
      BY <2>2, <2>3 DEF WakeRead, PumpRecord
    <3>3. ~ResumesSpent(task[TaskOf(s)])
      BY <1>1, <2>2, <2>3 DEF WakeRead, PumpRecord
    <3> QED BY <3>1, <3>2, <3>3, NextAttempt
  <2>4. ASSUME NEW q \in Pump, PumpStep(q) \/ PumpDies(q),
               \A s \in Session : ~WakeRead(q, s)
        PROVE  pump'[p] = pump[p]
    <3>1. \A plan, used : Walking(plan, used).pc # "wake_queue"
      BY DEF Walking, IdlePump
    <3>2. CASE pump' = pump
      BY <3>2
    <3>3. ASSUME NEW r, r.pc # "wake_queue", pump' = [pump EXCEPT ![q] = r]
          PROVE  pump'[p] = pump[p]
      BY <1>1, <2>2, <3>3
    <3>4. CASE WakeBegin(q) \/ ReapBegin(q)
      BY <1>1, <2>2, <3>4 DEF WakeBegin, ReapBegin, IdlePump
    <3>5. CASE WakeNext(q)
      BY <1>1, <2>2, <3>5 DEF WakeNext, IdlePump
    <3>6. CASE WakeFencedOut(q) \/ PumpLaunchFails(q)
      BY <1>1, <2>2, <3>6 DEF WakeFencedOut, PumpLaunchFails, PumpRecord
    <3>7. ASSUME NEW s \in Session, ReapOne(q, s) \/ ScheduleOne(q, s)
          PROVE  pump'[p] = pump[p]
      <4> DEFINE r == [pump[q] EXCEPT !.todo = pump[q].todo \ {s},
                                      !.reaped = pump[q].reaped \cup {s}]
                 x == [pump[q] EXCEPT !.reaped = pump[q].reaped \ {s}]
      <4>1. /\ r.pc = pump[q].pc
            /\ x.pc = pump[q].pc
            /\ IdlePump.pc = "idle"
        BY <2>2 DEF PumpRecord, IdlePump
      <4>2. \/ pump' = [pump EXCEPT ![q] = r]
            \/ pump' = [pump EXCEPT ![q] = x]
            \/ pump' = [pump EXCEPT ![q] = IdlePump]
        BY <3>7 DEF ReapOne, ScheduleOne
      <4>3. pump[q].pc = "reap"
        BY <3>7 DEF ReapOne, ScheduleOne
      <4> HIDE DEF r, x
      <4> QED BY <3>3, <4>1, <4>2, <4>3
    <3>8. ASSUME NEW t \in Task, NEW s \in Session, Claim(q, t, s)
          PROVE  pump'[p] = pump[p]
      <4>1. pump'[q].pc = "launch"
        BY <2>2, <3>8 DEF Claim, PumpRecord
      <4>2. p # q => pump'[p] = pump[p]
        BY <3>8 DEF Claim
      <4> QED BY <1>1, <4>1, <4>2
    <3>9. CASE \/ WalkBegin(q)
               \/ PumpLaunch(q)
               \/ ScheduleFailed(q)
               \/ \E t \in Task : ClaimRefused(q, t)
      <4>1. \E plan, used : pump' = [pump EXCEPT ![q] = Walking(plan, used)]
        BY <3>9, Zenon
           DEF WalkBegin, PumpLaunch, ScheduleFailed, ClaimRefused
      <4> QED BY <3>1, <3>3, <4>1
    <3>10. CASE PumpDies(q)
      BY <1>1, <2>2, <3>10 DEF PumpDies, IdlePump
    <3> QED BY <2>4, <3>2, <3>4, <3>5, <3>6, <3>7, <3>8, <3>9, <3>10
            DEF PumpStep, WakeCrash, WakeQueue, WakeClose, DueRestarts
  <2>5. ASSUME NEW q \in Pump, NEW s \in Session, WakeRead(q, s), q # p
        PROVE  pump'[p] = pump[p]
    BY <2>5 DEF WakeRead
  <2>6. CASE \E s \in Session : RunStep(s) \/ ProcessDies(s)
    BY <2>1, <2>6, RunStepTypes
  <2>7. CASE ClockStep
    BY <2>1, <2>7, ClockTypes DEF WellLinked
  <2>8. CASE HumanStep
    <3>1. pump' = pump
      BY <2>8 DEF HumanStep, StartStep, QueueRun, Dequeue, Recover, HumanDone,
                  Stop, KillStopped, StartCheck, StartTake, StartLaunch,
                  StartLaunchFails, StartRollback
    <3> QED BY <2>1, <3>1
  <2>9. CASE UNCHANGED vars
    BY <2>1, <2>9 DEF vars
  <2> QED BY <2>1, <2>3, <2>4, <2>5, <2>6, <2>7, <2>8, <2>9
          DEF Next, BoardStep
<1>2. ASSUME NEW s \in Session,
             run'[s].pc \in {"resume_close", "resume_claim"}
      PROVE  run'[s].attempt <= MaxResumes
  <2>1. run[s] \in RunRecord /\ run \in [Session -> RunRecord]
    BY DEF RunsTypeOK
  <2>2. CASE run'[s] = run[s]
    BY <1>2, <2>2 DEF Attempts
  <2>3. CASE CloseOwn(s)
    <3>1. run'[s].attempt = run[s].attempt
      BY <2>1, <2>3 DEF CloseOwn, Goto, RunRecord
    <3>2. run'[s].pc = AfterClose(run[s].pc)
      BY <2>1, <2>3 DEF CloseOwn, Goto, RunRecord
    <3>3. run[s].pc = "resume_close"
      BY <1>2, <2>3, <3>2 DEF CloseOwn, AfterClose
    <3> QED BY <3>1, <3>3 DEF Attempts
  <2>4. ASSUME NEW asked \in BOOLEAN, ExitCheck(s, asked)
        PROVE  run'[s].attempt <= MaxResumes
    <3> DEFINE n == task[TaskOf(s)].resumes + 1
    <3>1. TaskOf(s) \in Task
      BY <2>4, HeldByRun DEF ExitCheck, RunHolds, SessionsLinked
    <3>2. ~ResumesSpent(task[TaskOf(s)]) /\ run'[s].attempt = n
      BY <1>2, <2>1, <2>4 DEF ExitCheck, Goto, RunRecord
    <3> QED BY <3>1, <3>2, NextAttempt
  <2> QED BY <1>2, <2>2, <2>3, <2>4, HandlerSteps DEF Between
<1> QED BY <1>1, <1>2 DEF Attempts

\* A step leaves the resumes of a task alone, or what it writes is within
\* the budget.
ResumeStep(t) ==
    task'[t].resumes = task[t].resumes \/ task'[t].resumes <= MaxResumes

\* Every step does one of these to the resumes of every task.
LEMMA ResumeSteps ==
    ASSUME WellTyped, Attempts, [Next]_vars, NEW t \in Task
    PROVE  ResumeStep(t)
<1> USE DEF WellTyped, TypeOK, BoardTypeOK
<1>0. MaxResumes \in Nat /\ 0 <= MaxResumes
  BY BoardAssumption DEF BoardAssumption
<1>1. CASE task' = task
  BY <1>1 DEF ResumeStep
<1>2. ASSUME NEW x, task' = ScheduledRestart(task, x)
      PROVE  ResumeStep(t)
  BY <1>2 DEF ScheduledRestart, ResumeStep, TaskRecord
<1>3. ASSUME NEW x \in Task, NEW r, task' = [task EXCEPT ![x] = r],
             r.resumes = task[x].resumes \/ r.resumes <= MaxResumes
      PROVE  ResumeStep(t)
  BY <1>3 DEF ResumeStep
<1>4. ASSUME NEW r \in TaskRecord
      PROVE  /\ Landed(r).resumes = r.resumes
             /\ ResetHumanRestart(r) \in TaskRecord
             /\ ResetHumanRestart(r).resumes = 0
  BY TaskWrites DEF Landed, ResetHumanRestart, TaskRecord
<1>5. ASSUME NEW p \in Pump, PumpWrites(p)
      PROVE  ResumeStep(t)
  <2>1. CASE WakeQueue(p)
    <3> DEFINE n == pump[p].attempt
               x == TaskOf(pump[p].cur)
    <3>1. n <= MaxResumes
      BY <2>1 DEF WakeQueue, Attempts
    <3>2. task' = [task EXCEPT ![x] = [@ EXCEPT !.resumes = n,
                               !.phase = "Queued", !.session = NoSession]]
      BY <2>1 DEF WakeQueue
    <3> HIDE DEF n, x
    <3> QED BY <3>1, <3>2 DEF ResumeStep, TaskRecord
  <2>2. CASE DueRestarts(p)
    BY <2>2 DEF DueRestarts, Restarted, ResumeStep, TaskRecord
  <2>3. CASE ScheduleFailed(p) \/ \E s \in Session : ScheduleOne(p, s)
    BY <1>2, <2>3 DEF ScheduleFailed, ScheduleOne
  <2>4. CASE \E x \in Task, s \in Session : Claim(p, x, s)
    BY <2>4 DEF Claim, ResumeStep, TaskRecord
  <2> QED BY <1>5, <2>1, <2>2, <2>3, <2>4 DEF PumpWrites
<1>6. ASSUME NEW s \in Session, RunWrites(s)
      PROVE  ResumeStep(t)
  <2> DEFINE x == TaskOf(s)
  <2>0. x \in Task
    <3>1. run[s].pc # "none"
      BY <1>6 DEF RunWrites, ExecutorDone, Verdict, ReviewClaim, DesignClaim,
                  ResumeClaim, ChildSchedule, ExitSchedule
    <3> QED BY <3>1, HeldByRun DEF RunHolds, SessionsLinked
  <2> HIDE DEF x
  <2>1. CASE ExecutorDone(s)
    BY <1>1, <1>3, <1>4, <2>0, <2>1 DEF ExecutorDone, x
  <2>2. ASSUME NEW approve \in BOOLEAN, NEW rework \in {"Todo", "Queued"},
               Verdict(s, approve, rework)
        PROVE  ResumeStep(t)
    <3>1. \/ task' = [task EXCEPT ![x] = Landed(task[x])]
          \/ task' = [task EXCEPT ![x] = [task[x] EXCEPT !.status = "Todo",
                                                         !.phase = "None"]]
          \/ task' = [task EXCEPT ![x] = [task[x] EXCEPT !.phase = "Queued"]]
      BY <2>2 DEF Verdict, x
    <3>2. CASE task' = [task EXCEPT ![x] = Landed(task[x])]
      BY <1>3, <1>4, <2>0, <3>2
    <3>3. CASE task' # [task EXCEPT ![x] = Landed(task[x])]
      <4>1. \A r \in TaskRecord :
               /\ [r EXCEPT !.status = "Todo", !.phase = "None"].resumes
                     = r.resumes
               /\ [r EXCEPT !.phase = "Queued"].resumes = r.resumes
        BY DEF TaskRecord
      <4> QED BY <1>3, <2>0, <3>1, <3>3, <4>1
    <3> QED BY <3>2, <3>3
  <2>3. ASSUME NEW c \in Session, ReviewClaim(s, c) \/ DesignClaim(s, c)
        PROVE  ResumeStep(t)
    <3>1. \/ \E n : task' = [task EXCEPT ![x] =
                [task[x] EXCEPT !.phase = "Review", !.rounds = n, !.session = c]]
          \/ task' = [task EXCEPT ![x] =
                [task[x] EXCEPT !.phase = "Execute", !.designed = TRUE,
                                !.resumes = 0, !.session = c]]
      BY <2>3, Zenon DEF ReviewClaim, DesignClaim, x
    <3>2. \A r \in TaskRecord : \A n :
             /\ [r EXCEPT !.phase = "Review", !.rounds = n,
                          !.session = c].resumes = r.resumes
             /\ [r EXCEPT !.phase = "Execute", !.designed = TRUE,
                          !.resumes = 0, !.session = c].resumes = 0
      BY DEF TaskRecord
    <3> QED BY <1>0, <1>3, <2>0, <3>1, <3>2
  <2>4. ASSUME NEW c \in Session, ResumeClaim(s, c)
        PROVE  ResumeStep(t)
    <3> DEFINE n == run[s].attempt
    <3>1. n <= MaxResumes
      BY <2>4 DEF ResumeClaim, Attempts
    <3>2. \E q : task' = [task EXCEPT ![x] =
                    [task[x] EXCEPT !.resumes = n, !.session = c, !.phase = q]]
      BY <2>4, Zenon DEF ResumeClaim, x
    <3> HIDE DEF n
    <3>3. \A r \in TaskRecord : \A q :
             [r EXCEPT !.resumes = n, !.session = c, !.phase = q].resumes = n
      BY DEF TaskRecord
    <3> QED BY <1>3, <2>0, <3>1, <3>2, <3>3
  <2>5. CASE ChildSchedule(s) \/ \E retryable \in BOOLEAN :
                                    ExitSchedule(s, retryable)
    BY <1>1, <1>2, <2>5 DEF ChildSchedule, ExitSchedule
  <2> QED BY <1>6, <2>1, <2>2, <2>3, <2>4, <2>5 DEF RunWrites
<1>7. ASSUME NEW x \in Task, RestartDeadline(x)
      PROVE  ResumeStep(t)
  BY <1>7 DEF RestartDeadline, ResumeStep, TaskRecord
<1>8. ASSUME NEW x \in Task, NEW r, r \in TaskRecord, r.resumes = 0,
             \/ task' = [task EXCEPT ![x] =
                   [r EXCEPT !.status = "InProgress", !.phase = "Queued"]]
             \/ task' = [task EXCEPT ![x] = [r EXCEPT !.phase = "None"]]
             \/ task' = [task EXCEPT ![x] =
                   [r EXCEPT !.status = "Todo", !.phase = "None",
                             !.designed = FALSE]]
             \/ \E s, q : task' = [task EXCEPT ![x] =
                   [r EXCEPT !.status = "InProgress", !.session = s,
                             !.phase = q]]
      PROVE  ResumeStep(t)
  BY <1>0, <1>3, <1>8 DEF TaskRecord
<1>9. ASSUME NEW x \in Task, RequestWrites(x)
      PROVE  ResumeStep(t)
  <2> DEFINE r == ResetHumanRestart(task[x])
  <2>1. r \in TaskRecord /\ r.resumes = 0
    BY <1>4
  <2>2. CASE QueueRun(x) \/ Dequeue(x) \/ Recover(x)
    BY <1>8, <2>1, <2>2 DEF QueueRun, Dequeue, Recover
  <2>3. CASE HumanDone(x)
    BY <2>3 DEF HumanDone, ResumeStep, TaskRecord
  <2> QED BY <1>9, <2>2, <2>3 DEF RequestWrites
<1>10. ASSUME NEW h \in Starter, StartWrites(h)
       PROVE  ResumeStep(t)
  <2>1. CASE StartTake(h)
    <3> DEFINE x == start[h].task
               r == ResetHumanRestart(task[x])
    <3>1. x \in Task
      BY <2>1 DEF StartTake, StartsLinked, WellLinked
    <3>2. r \in TaskRecord /\ r.resumes = 0
      BY <1>4, <3>1
    <3>3. \E s, q : task' = [task EXCEPT ![x] =
                       [r EXCEPT !.status = "InProgress", !.session = s,
                                 !.phase = q]]
      BY <2>1, Zenon DEF StartTake
    <3> QED BY <1>8, <3>1, <3>2, <3>3
  <2>2. CASE StartRollback(h)
    BY <2>2 DEF StartRollback, ResumeStep, TaskRecord
  <2> QED BY <1>10, <2>1, <2>2 DEF StartWrites
<1> QED BY <1>1, <1>5, <1>6, <1>7, <1>9, <1>10, TaskWriters DEF TaskWriter

\* However the exits and the expired waits of a task interleave, it is
\* resumed at most MaxResumes times between two requests of a human.
THEOREM ResumeBudgetHolds == Spec => []ResumeBudget
<1> DEFINE Inv == Attempts /\ ResumeBudget
<1>1. Init => Inv
  BY BoardAssumption
     DEF Init, BoardInit, DispatcherInit, RunsInit, NewTask, IdlePump,
         NotRunning, Attempts, ResumeBudget, BoardAssumption
<1>2. WellTyped /\ Inv /\ [Next]_vars => Inv'
  BY AttemptsKept, ResumeSteps DEF ResumeBudget, ResumeStep
<1> QED BY <1>1, <1>2, WellTypedAlways, PTL DEF Spec

-----------------------------------------------------------------------------
(* A finished task.                                                        *)

\* The status, phase and session of t stay as they are.
PlaceKept(t) ==
    /\ task'[t].status = task[t].status
    /\ task'[t].phase = task[t].phase
    /\ task'[t].session = task[t].session

\* Every step that is not a human's keeps the place of a finished task: the
\* fence of each of the others asks for a task that is In Progress.
LEMMA FinishedSteps ==
    ASSUME WellTyped, [Next]_vars, NEW t \in Task,
           task[t].status \in {"Review", "Done"}
    PROVE  PlaceKept(t) \/ human' # human
<1> USE DEF WellTyped, TypeOK, BoardTypeOK
<1>1. CASE task'[t] = task[t]
  BY <1>1 DEF PlaceKept
<1>2. ASSUME NEW x, NEW r, task[x].status = "InProgress",
             task' = [task EXCEPT ![x] = r]
      PROVE  task'[t] = task[t]
  BY <1>2
<1>3. ASSUME NEW x, task' = ScheduledRestart(task, x)
      PROVE  task'[t] = task[t]
  BY <1>3 DEF ScheduledRestart
<1>4. ASSUME NEW p \in Pump, PumpWrites(p)
      PROVE  task'[t] = task[t]
  <2>1. CASE WakeQueue(p)
    <3>1. /\ task[TaskOf(pump[p].cur)].status = "InProgress"
          /\ \E r : task' = [task EXCEPT ![TaskOf(pump[p].cur)] = r]
      BY <2>1, Zenon DEF WakeQueue, WakeFence
    <3> QED BY <1>2, <3>1
  <2>2. CASE DueRestarts(p)
    BY <2>2 DEF DueRestarts, Restarted, RestartIsDue
  <2>3. CASE ScheduleFailed(p) \/ \E s \in Session : ScheduleOne(p, s)
    BY <1>3, <2>3 DEF ScheduleFailed, ScheduleOne
  <2>4. ASSUME NEW x \in Task, NEW s \in Session, Claim(p, x, s)
        PROVE  task'[t] = task[t]
    <3>1. /\ task[x].status = "InProgress"
          /\ \E r : task' = [task EXCEPT ![x] = r]
      BY <2>4, Zenon DEF Claim, Claimable, IsCandidate
    <3> QED BY <1>2, <3>1
  <2> QED BY <1>4, <2>1, <2>2, <2>3, <2>4 DEF PumpWrites
<1>5. ASSUME NEW s \in Session, RunWrites(s)
      PROVE  task'[t] = task[t]
  <2>1. CASE ChildSchedule(s) \/ \E retryable \in BOOLEAN :
                                    ExitSchedule(s, retryable)
    BY <1>3, <2>1 DEF ChildSchedule, ExitSchedule
  <2>2. CASE ExecutorDone(s) \/ \E approve \in BOOLEAN,
                rework \in {"Todo", "Queued"} : Verdict(s, approve, rework)
    <3>1. /\ task[TaskOf(s)].status = "InProgress"
          /\ \/ task' = task
             \/ \E r : task' = [task EXCEPT ![TaskOf(s)] = r]
      BY <2>2, Zenon DEF ExecutorDone, Verdict, IsCurrent
    <3> QED BY <1>2, <3>1
  <2>3. ASSUME NEW c \in Session,
               ReviewClaim(s, c) \/ DesignClaim(s, c) \/ ResumeClaim(s, c)
        PROVE  task'[t] = task[t]
    <3>1. /\ task[TaskOf(s)].status = "InProgress"
          /\ \E r : task' = [task EXCEPT ![TaskOf(s)] = r]
      BY <2>3, Zenon
         DEF ReviewClaim, DesignClaim, DesignFence, ResumeClaim, ResumeFence
    <3> QED BY <1>2, <3>1
  <2> QED BY <1>5, <2>1, <2>2, <2>3 DEF RunWrites
<1>6. ASSUME NEW x \in Task, RestartDeadline(x)
      PROVE  PlaceKept(t)
  BY <1>6 DEF RestartDeadline, PlaceKept, TaskRecord
<1>7. ASSUME NEW x \in Task, RequestWrites(x)
      PROVE  human' # human
  <2>1. requests' = requests + 1
    BY <1>7 DEF RequestWrites, QueueRun, Dequeue, Recover, HumanDone, Request
  <2>2. requests' # requests
    BY <2>1
  <2> QED BY <2>2 DEF human
<1>8. ASSUME NEW h \in Starter, StartWrites(h)
      PROVE  human' # human
  <2>1. start'[h].pc # start[h].pc
    BY <1>8 DEF StartWrites, StartTake, StartRollback, StartRecord, IdleStart
  <2> QED BY <2>1 DEF human
<1> QED BY <1>1, <1>4, <1>5, <1>6, <1>7, <1>8, TaskWriters DEF TaskWriter

\* No late report, retry, wake or hand-over moves a task a run has finished.
THEOREM FinishedHolds == Spec => FinishedStaysFinished
<1>1. WellTyped /\ [Next]_vars =>
         [\A t \in Task :
             task[t].status \in {"Review", "Done"} =>
                 \/ /\ task'[t].status = task[t].status
                    /\ task'[t].phase = task[t].phase
                    /\ task'[t].session = task[t].session
                 \/ human' # human]_vars
  BY FinishedSteps DEF PlaceKept
<1> QED BY <1>1, WellTypedAlways, PTL DEF Spec, FinishedStaysFinished

-----------------------------------------------------------------------------
(* The caps.                                                               *)

\* A pump that goes from its walk to a launch has claimed a task.
LEMMA OnlyClaims ==
    ASSUME WellTyped, [Next]_vars, NEW p \in Pump,
           pump[p].pc = "walk", pump'[p].pc = "launch"
    PROVE  \E t \in Task, s \in Session : Claim(p, t, s)
<1> USE DEF WellTyped, TypeOK
<1>0. pump \in [Pump -> PumpRecord]
  BY DEF DispatcherTypeOK
<1>1. pump' # pump /\ pump'[p] # pump[p]
  OBVIOUS
<1>2. ASSUME NEW q \in Pump, PumpStep(q) \/ PumpDies(q)
      PROVE  q = p
  <2> SUFFICES ASSUME q # p
               PROVE  pump'[p] = pump[p]
    BY <1>1
  <2>1. \/ pump' = pump
        \/ \E r : pump' = [pump EXCEPT ![q] = r]
        \/ WakeFencedOut(q) \/ PumpLaunchFails(q)
    <3>1. CASE PumpDies(q)
      BY <3>1, Zenon DEF PumpDies
    <3>2. CASE WakeBegin(q) \/ ReapBegin(q) \/ DueRestarts(q) \/ WalkBegin(q)
      BY <3>2, Zenon DEF WakeBegin, ReapBegin, DueRestarts, WalkBegin
    <3>3. CASE \E s \in Session :
                  WakeRead(q, s) \/ ReapOne(q, s) \/ ScheduleOne(q, s)
      BY <3>3, Zenon DEF WakeRead, ReapOne, ScheduleOne
    <3>4. CASE WakeCrash(q) \/ WakeQueue(q) \/ WakeClose(q)
      BY <3>4, Zenon DEF WakeCrash, WakeQueue, WakeClose, WakeNext
    <3>5. CASE \/ \E t \in Task, s \in Session : Claim(q, t, s)
               \/ \E t \in Task : ClaimRefused(q, t)
      BY <3>5, Zenon DEF Claim, ClaimRefused
    <3>6. CASE PumpLaunch(q) \/ ScheduleFailed(q)
      BY <3>6, Zenon DEF PumpLaunch, ScheduleFailed
    <3> QED BY <1>2, <3>1, <3>2, <3>3, <3>4, <3>5, <3>6 DEF PumpStep
  <2>2. CASE WakeFencedOut(q) \/ PumpLaunchFails(q)
    BY <1>0, <2>2 DEF WakeFencedOut, PumpLaunchFails
  <2> QED BY <1>0, <2>1, <2>2
<1>3. ASSUME PumpStep(p) \/ PumpDies(p)
      PROVE  \E t \in Task, s \in Session : Claim(p, t, s)
  <2>1. \A plan, used : Walking(plan, used).pc # "launch"
    BY DEF Walking, IdlePump
  <2>2. ASSUME NEW t \in Task, ClaimRefused(p, t)
        PROVE  FALSE
    <3>1. \E plan, used : pump' = [pump EXCEPT ![p] = Walking(plan, used)]
      BY <2>2, Zenon DEF ClaimRefused
    <3> QED BY <1>0, <2>1, <3>1
  <2>3. ASSUME PumpDies(p)
        PROVE  FALSE
    BY <1>0, <2>3 DEF PumpDies, IdlePump
  <2> QED BY <1>1, <1>3, <2>2, <2>3
          DEF PumpStep, WakeBegin, WakeRead, WakeCrash, WakeQueue,
              WakeFencedOut, WakeClose, ReapBegin, ReapOne, ScheduleOne,
              DueRestarts, WalkBegin, PumpLaunch, PumpLaunchFails,
              ScheduleFailed
<1>4. (BoardStep /\ UNCHANGED human) =>
         \E q \in Pump : PumpStep(q) \/ PumpDies(q)
  BY <1>1, RunStepTypes, ClockTypes DEF BoardStep, WellLinked
<1>5. ~HumanStep /\ ~UNCHANGED vars
  BY <1>1 DEF HumanStep, StartStep, QueueRun, Dequeue, Recover, HumanDone,
              Stop, KillStopped, StartCheck, StartTake, StartLaunch,
              StartLaunchFails, StartRollback, vars
<1> QED BY <1>2, <1>3, <1>4, <1>5 DEF Next

-----------------------------------------------------------------------------
(* Which sessions begin, and which session a task has.                     *)

\* x becomes the session of a new run.
RunLinks(x) ==
    \/ \E p \in Pump, t \in Task : Claim(p, t, x)
    \/ \E s \in Session :
          ReviewClaim(s, x) \/ DesignClaim(s, x) \/ ResumeClaim(s, x)
    \/ \E h \in Starter : StartTake(h) /\ start[h].session = x

\* x does not begin, and its file does not change its task.
SessionKept(x) == (IsActive(x)' => IsActive(x)) /\ TaskOf(x)' = TaskOf(x)

\* A session begins only as the session of a new run.
LEMMA NewRuns ==
    ASSUME WellTyped, [Next]_vars, NEW x \in Session
    PROVE  SessionKept(x) \/ RunLinks(x)
<1> USE DEF WellTyped, TypeOK
<1>0. session \in [Session -> SessionRecord]
  BY DEF BoardTypeOK
<1>1. ASSUME session' = session
      PROVE  SessionKept(x)
  BY <1>1 DEF SessionKept, IsActive, TaskOf
<1>2. ASSUME NEW y,
             session' = Closed(session, y) \/ session' = Crashed(session, y)
      PROVE  SessionKept(x)
  <2>1. \A r \in SessionRecord, st \in SessionStatus :
           Ended(r, st).task = r.task /\ Ended(r, st).status = st
    BY DEF Ended, UnusedSession, SessionRecord
  <2>2. CASE session' = Closed(session, y)
    BY <1>0, <2>1, <2>2 DEF SessionKept, IsActive, TaskOf, Closed, SessionStatus
  <2>3. CASE session' = Crashed(session, y)
    BY <1>0, <2>1, <2>3 DEF SessionKept, IsActive, TaskOf, Crashed, SessionStatus
  <2> QED BY <1>2, <2>2, <2>3
<1>3. ASSUME NEW y, NEW r, session' = [session EXCEPT ![y] = r],
             r.task = session[y].task,
             r.status = session[y].status \/ r.status = "minted"
      PROVE  SessionKept(x)
  BY <1>0, <1>3 DEF SessionKept, IsActive, TaskOf
<1>4. ASSUME NEW y \in Session, NEW t \in Task \cup {NoTask},
             session' = Linked(session, y, t), x # y
      PROVE  SessionKept(x)
  BY <1>0, <1>4 DEF SessionKept, IsActive, TaskOf, Linked
<1>5. ASSUME NEW p \in Pump, PumpStep(p) \/ PumpDies(p)
      PROVE  SessionKept(x) \/ RunLinks(x)
  <2>1. CASE \E t \in Task, s \in Session : Claim(p, t, s)
    BY <1>4, <2>1 DEF Claim, RunLinks
  <2>2. CASE ~\E t \in Task, s \in Session : Claim(p, t, s)
    <3>1. \/ session' = session
          \/ \E y : session' = Closed(session, y) \/ session' = Crashed(session, y)
      BY <1>5, <2>2
         DEF PumpStep, PumpDies, WakeBegin, WakeRead, WakeCrash, WakeQueue,
             WakeFencedOut, WakeClose, ReapBegin, ReapOne, ScheduleOne,
             DueRestarts, WalkBegin, ClaimRefused, PumpLaunch,
             PumpLaunchFails, ScheduleFailed, board
    <3> QED BY <1>1, <1>2, <3>1
  <2> QED BY <2>1, <2>2
<1>6. ASSUME NEW s \in Session, CommandStep(s) \/ ExitStep(s) \/ ProcessDies(s)
      PROVE  SessionKept(x)
  <2>1. CASE DeclareWaiting(s)
    <3> DEFINE r == [session[s] EXCEPT !.wait = "open", !.exited = FALSE,
                                       !.beat = "fresh"]
    <3>1. r.task = session[s].task /\ r.status = session[s].status
      BY <1>0 DEF SessionRecord
    <3>2. session' = [session EXCEPT ![s] = r]
      BY <2>1 DEF DeclareWaiting
    <3> HIDE DEF r
    <3> QED BY <1>3, <3>1, <3>2
  <2>2. CASE ~DeclareWaiting(s)
    <3>1. session' = session
      BY <1>6, <2>2 DEF CommandStep, ExitStep, ProcessDies, ExecutorDone,
                        VerificationFails, DesignerDone, Verdict, Exit, board
    <3> QED BY <1>1, <3>1
  <2> QED BY <2>1, <2>2
<1>7. ASSUME NEW s \in Session, HandlerStep(s)
      PROVE  SessionKept(x) \/ RunLinks(x)
  <2>1. ASSUME NEW c \in Session,
               ReviewClaim(s, c) \/ DesignClaim(s, c) \/ ResumeClaim(s, c)
        PROVE  SessionKept(x) \/ RunLinks(x)
    <3>1. TaskOf(s) \in Task
      BY <2>1, HeldByRun
         DEF ReviewClaim, DesignClaim, ResumeClaim, RunHolds, SessionsLinked
    <3>2. session' = Linked(session, c, TaskOf(s))
      BY <2>1 DEF ReviewClaim, DesignClaim, ResumeClaim
    <3> QED BY <1>4, <2>1, <3>1, <3>2 DEF RunLinks
  <2>2. CASE ExitWait(s)
    <3> DEFINE r == [session[s] EXCEPT !.exited = IsActive(s) \/ @]
    <3>1. r.task = session[s].task /\ r.status = session[s].status
      BY <1>0 DEF SessionRecord
    <3>2. session' = [session EXCEPT ![s] = r]
      BY <2>2 DEF ExitWait
    <3> HIDE DEF r
    <3> QED BY <1>3, <3>1, <3>2
  <2>3. CASE /\ ~ExitWait(s)
             /\ \A c \in Session : /\ ~ReviewClaim(s, c)
                                   /\ ~DesignClaim(s, c)
                                   /\ ~ResumeClaim(s, c)
    <3>1. \/ session' = session
          \/ \E y : session' = Closed(session, y) \/ session' = Crashed(session, y)
      BY <1>7, <2>3
         DEF HandlerStep, CloseOwn, ReviewRefused, DesignRefused, ChildLaunch,
             ChildLaunchFails, ChildSchedule, ExitCrash, ExitSchedule,
             ExitCheck, ExitExhausted, ResumeRefused, ResumeLaunch,
             ResumeLaunchFails, board
    <3> QED BY <1>1, <1>2, <3>1
  <2> QED BY <2>1, <2>2, <2>3
<1>8. ASSUME ClockStep
      PROVE  SessionKept(x)
  <2>1. \/ session' = session
        \/ \E y \in Session : \E b : session' = [session EXCEPT ![y].beat = b]
        \/ \E y \in Session : session' = [session EXCEPT ![y].wait = "over"]
    BY <1>8, Zenon DEF ClockStep, Heartbeat, FallSilent, WaitDeadline,
                       RestartDeadline
  <2>2. ASSUME NEW y \in Session, NEW b,
               \/ session' = [session EXCEPT ![y].beat = b]
               \/ session' = [session EXCEPT ![y].wait = b]
        PROVE  SessionKept(x)
    BY <1>0, <2>2 DEF SessionKept, IsActive, TaskOf, SessionRecord
  <2> QED BY <1>1, <2>1, <2>2
<1>9. ASSUME HumanStep
      PROVE  SessionKept(x) \/ RunLinks(x)
  <2>1. ASSUME NEW h \in Starter, StartTake(h)
        PROVE  SessionKept(x) \/ RunLinks(x)
    <3>1. /\ start[h].task \in Task /\ start[h].session \in Session
          /\ session' = Linked(session, start[h].session, start[h].task)
      BY <2>1 DEF StartTake, StartsLinked, WellLinked
    <3> QED BY <1>4, <2>1, <3>1 DEF RunLinks
  <2>2. ASSUME NEW h \in Starter, NEW t \in Task, NEW s \in Session,
               StartCheck(h, t, s)
        PROVE  SessionKept(x)
    BY <1>0, <2>2 DEF StartCheck, SessionKept, IsActive, TaskOf, SessionRecord
  <2>3. ASSUME NEW t \in Task, HumanDone(t)
        PROVE  SessionKept(x)
    BY <1>0, <2>3 DEF HumanDone, SessionKept, IsActive, TaskOf, Ended,
                      UnusedSession, SessionRecord
  <2>4. CASE /\ \A h \in Starter : ~StartTake(h)
             /\ \A t \in Task : ~HumanDone(t)
             /\ \A h \in Starter, t \in Task, s \in Session :
                   ~StartCheck(h, t, s)
    <3>1. \/ session' = session
          \/ \E y : session' = Closed(session, y) \/ session' = Crashed(session, y)
      BY <1>9, <2>4
         DEF HumanStep, StartStep, QueueRun, Dequeue, Recover, Stop,
             KillStopped, StartLaunch, StartLaunchFails, StartRollback, board
    <3> QED BY <1>1, <1>2, <3>1
  <2> QED BY <2>1, <2>2, <2>3, <2>4
<1>10. CASE UNCHANGED vars
  BY <1>1, <1>10 DEF vars
<1> QED BY <1>5, <1>6, <1>7, <1>8, <1>9, <1>10 DEF Next, BoardStep, RunStep

\* A new run is the active session of its task, in an id that was free.
LEMMA NewRunIsCurrent ==
    ASSUME WellTyped, NEW x \in Session, RunLinks(x)
    PROVE  /\ x \notin LinkedId
           /\ x \in LinkedId'
           /\ TaskOf(x)' \in Task
           /\ task'[TaskOf(x)'].session = x
<1> USE DEF WellTyped, TypeOK, BoardTypeOK
<1>1. ASSUME NEW t \in Task, session' = Linked(session, x, t),
             session[x].status \in {"unused", "minted"},
             task'[t].session = x
      PROVE  /\ x \notin LinkedId
             /\ x \in LinkedId'
             /\ TaskOf(x)' \in Task
             /\ task'[TaskOf(x)'].session = x
  BY <1>1 DEF Linked, LinkedId, TaskOf
<1>2. ASSUME NEW p \in Pump, NEW t \in Task, Claim(p, t, x)
      PROVE  task'[t].session = x
  BY <1>2 DEF Claim, TaskRecord
<1>3. ASSUME NEW s \in Session,
             ReviewClaim(s, x) \/ DesignClaim(s, x) \/ ResumeClaim(s, x)
      PROVE  TaskOf(s) \in Task /\ task'[TaskOf(s)].session = x
  <2>1. TaskOf(s) \in Task
    BY <1>3, HeldByRun
       DEF ReviewClaim, DesignClaim, ResumeClaim, RunHolds, SessionsLinked
  <2>2. CASE ReviewClaim(s, x)
    <3>1. \E n : task' = [task EXCEPT ![TaskOf(s)] =
             [@ EXCEPT !.phase = "Review", !.rounds = n, !.session = x]]
      BY <2>2, Zenon DEF ReviewClaim
    <3> QED BY <2>1, <3>1 DEF TaskRecord
  <2>3. CASE DesignClaim(s, x)
    BY <2>1, <2>3 DEF DesignClaim, TaskRecord
  <2>4. CASE ResumeClaim(s, x)
    BY <2>1, <2>4 DEF ResumeClaim, TaskRecord
  <2> QED BY <1>3, <2>1, <2>2, <2>3, <2>4
<1>4. ASSUME NEW h \in Starter, StartTake(h), start[h].session = x
      PROVE  /\ start[h].task \in Task
             /\ task'[start[h].task].session = x
             /\ session[x].status = "minted"
  <2> DEFINE t == start[h].task
             r == ResetHumanRestart(task[t])
  <2>1. t \in Task /\ session[x].status = "minted"
    BY <1>4 DEF StartTake, StartsLinked, WellLinked
  <2>2. r \in TaskRecord
    BY <2>1, TaskWrites
  <2>3. \E q : task' = [task EXCEPT ![t] =
           [r EXCEPT !.status = "InProgress", !.session = x, !.phase = q]]
    BY <1>4, Zenon DEF StartTake
  <2> HIDE DEF t, r
  <2>4. task'[t].session = x
    BY <2>1, <2>2, <2>3 DEF TaskRecord
  <2> QED BY <2>1, <2>4 DEF t
<1> QED BY <1>1, <1>2, <1>3, <1>4
        DEF RunLinks, Claim, ReviewClaim, DesignClaim, ResumeClaim, StartTake,
            Fresh

\* The session of a task changes only when a wake takes it away or a new run
\* replaces it.
SessionField(t) ==
    \/ task'[t].session = task[t].session
    \/ /\ task'[t].session = NoSession
       /\ \E p \in Pump : WakeQueue(p) /\ TaskOf(pump[p].cur) = t
    \/ \E x \in Session : RunLinks(x) /\ TaskOf(x)' = t

\* Every step does one of these to the session of every task.
LEMMA SessionFields ==
    ASSUME WellTyped, [Next]_vars, NEW t \in Task
    PROVE  SessionField(t)
<1> USE DEF WellTyped, TypeOK, BoardTypeOK
<1>1. CASE task'[t].session = task[t].session
  BY <1>1 DEF SessionField
<1>2. ASSUME NEW x, NEW r, task' = [task EXCEPT ![x] = r],
             x = t => r.session = task[t].session
      PROVE  task'[t].session = task[t].session
  BY <1>2
<1>3. \A r \in TaskRecord :
         /\ Landed(r).session = r.session
         /\ ResetHumanRestart(r) \in TaskRecord
         /\ ResetHumanRestart(r).session = r.session
         /\ Restarted(r).session = r.session
  BY TaskWrites DEF Landed, ResetHumanRestart, Restarted, TaskRecord
<1>4. ASSUME NEW x, task' = ScheduledRestart(task, x)
      PROVE  task'[t].session = task[t].session
  BY <1>4 DEF ScheduledRestart, TaskRecord
<1>5. ASSUME NEW x \in Session, NEW u \in Task, RunLinks(x),
             session' = Linked(session, x, u),
             \E r : task' = [task EXCEPT ![u] = r]
      PROVE  SessionField(t)
  <2>1. TaskOf(x)' = u
    BY <1>5 DEF Linked, TaskOf
  <2>2. CASE u = t
    BY <1>5, <2>1, <2>2 DEF SessionField
  <2>3. CASE u # t
    BY <1>5, <2>3 DEF SessionField
  <2> QED BY <2>2, <2>3
<1>6. ASSUME NEW p \in Pump, PumpWrites(p)
      PROVE  SessionField(t)
  <2>1. CASE WakeQueue(p)
    <3> DEFINE x == TaskOf(pump[p].cur)
    <3>1. \E n : task' = [task EXCEPT ![x] = [@ EXCEPT !.resumes = n,
                             !.phase = "Queued", !.session = NoSession]]
      BY <2>1, Zenon DEF WakeQueue
    <3>2. CASE x = t
      BY <2>1, <3>1, <3>2 DEF SessionField, TaskRecord
    <3> HIDE DEF x
    <3>3. CASE x # t
      BY <3>1, <3>3 DEF SessionField
    <3> QED BY <3>2, <3>3
  <2>2. CASE DueRestarts(p)
    BY <1>3, <2>2 DEF DueRestarts, SessionField
  <2>3. CASE ScheduleFailed(p) \/ \E s \in Session : ScheduleOne(p, s)
    BY <1>4, <2>3 DEF ScheduleFailed, ScheduleOne, SessionField
  <2>4. ASSUME NEW u \in Task, NEW s \in Session, Claim(p, u, s)
        PROVE  SessionField(t)
    <3>1. session' = Linked(session, s, u) /\ RunLinks(s)
      BY <2>4 DEF Claim, RunLinks
    <3>2. \E r : task' = [task EXCEPT ![u] = r]
      BY <2>4, Zenon DEF Claim
    <3> QED BY <1>5, <3>1, <3>2
  <2> QED BY <1>6, <2>1, <2>2, <2>3, <2>4 DEF PumpWrites
<1>7. ASSUME NEW s \in Session, RunWrites(s)
      PROVE  SessionField(t)
  <2> DEFINE x == TaskOf(s)
  <2>0. x \in Task
    <3>1. run[s].pc # "none"
      BY <1>7 DEF RunWrites, ExecutorDone, Verdict, ReviewClaim, DesignClaim,
                  ResumeClaim, ChildSchedule, ExitSchedule
    <3> QED BY <3>1, HeldByRun DEF RunHolds, SessionsLinked
  <2> HIDE DEF x
  <2>1. CASE ExecutorDone(s) \/ \E approve \in BOOLEAN,
                rework \in {"Todo", "Queued"} : Verdict(s, approve, rework)
    <3>1. \/ task' = task
          \/ task' = [task EXCEPT ![x] = Landed(task[x])]
          \/ task' = [task EXCEPT ![x] = [task[x] EXCEPT !.status = "Todo",
                                                         !.phase = "None"]]
          \/ task' = [task EXCEPT ![x] = [task[x] EXCEPT !.phase = "Queued"]]
      BY <2>1 DEF ExecutorDone, Verdict, x
    <3>2. \A r \in TaskRecord :
             /\ [r EXCEPT !.status = "Todo", !.phase = "None"].session
                   = r.session
             /\ [r EXCEPT !.phase = "Queued"].session = r.session
      BY DEF TaskRecord
    <3>3. \/ task' = task
          \/ \E r : /\ task' = [task EXCEPT ![x] = r]
                   /\ r.session = task[x].session
      BY <1>3, <2>0, <3>1, <3>2
    <3>4. task'[t].session = task[t].session
      BY <1>2, <3>3
    <3> QED BY <1>1, <3>4
  <2>2. ASSUME NEW c \in Session,
               ReviewClaim(s, c) \/ DesignClaim(s, c) \/ ResumeClaim(s, c)
        PROVE  SessionField(t)
    <3>1. session' = Linked(session, c, x) /\ RunLinks(c)
      BY <2>2 DEF ReviewClaim, DesignClaim, ResumeClaim, RunLinks, x
    <3>2. \E r : task' = [task EXCEPT ![x] = r]
      BY <2>2, Zenon DEF ReviewClaim, DesignClaim, ResumeClaim, x
    <3> QED BY <1>5, <2>0, <3>1, <3>2
  <2>3. CASE ChildSchedule(s) \/ \E retryable \in BOOLEAN :
                                    ExitSchedule(s, retryable)
    BY <1>1, <1>4, <2>3 DEF ChildSchedule, ExitSchedule
  <2> QED BY <1>7, <2>1, <2>2, <2>3 DEF RunWrites
<1>8. ASSUME NEW x \in Task, RestartDeadline(x) \/ HumanDone(x)
      PROVE  SessionField(t)
  BY <1>8 DEF RestartDeadline, HumanDone, SessionField, TaskRecord
<1>9. ASSUME NEW x \in Task, QueueRun(x) \/ Dequeue(x) \/ Recover(x)
      PROVE  SessionField(t)
  <2> DEFINE r == ResetHumanRestart(task[x])
  <2>1. r \in TaskRecord /\ r.session = task[x].session
    BY <1>3
  <2>2. \/ task' = [task EXCEPT ![x] =
              [r EXCEPT !.status = "InProgress", !.phase = "Queued"]]
        \/ task' = [task EXCEPT ![x] = [r EXCEPT !.phase = "None"]]
        \/ task' = [task EXCEPT ![x] =
              [r EXCEPT !.status = "Todo", !.phase = "None",
                        !.designed = FALSE]]
    BY <1>9 DEF QueueRun, Dequeue, Recover
  <2> HIDE DEF r
  <2>3. /\ [r EXCEPT !.status = "InProgress", !.phase = "Queued"].session
              = r.session
        /\ [r EXCEPT !.phase = "None"].session = r.session
        /\ [r EXCEPT !.status = "Todo", !.phase = "None",
                     !.designed = FALSE].session = r.session
    BY <2>1 DEF TaskRecord
  <2> QED BY <1>1, <1>2, <2>1, <2>2, <2>3
<1>10. ASSUME NEW h \in Starter, StartWrites(h)
       PROVE  SessionField(t)
  <2>1. CASE StartTake(h)
    <3>1. /\ start[h].task \in Task /\ start[h].session \in Session
          /\ session' = Linked(session, start[h].session, start[h].task)
          /\ RunLinks(start[h].session)
      BY <2>1 DEF StartTake, StartsLinked, WellLinked, RunLinks
    <3>2. \E r : task' = [task EXCEPT ![start[h].task] = r]
      BY <2>1, Zenon DEF StartTake
    <3> QED BY <1>5, <3>1, <3>2
  <2>2. CASE StartRollback(h)
    BY <2>2 DEF StartRollback, SessionField, TaskRecord
  <2> QED BY <1>10, <2>1, <2>2 DEF StartWrites
<1> QED BY <1>1, <1>6, <1>7, <1>8, <1>9, <1>10, TaskWriters
        DEF TaskWriter, RequestWrites

-----------------------------------------------------------------------------
(* One run per task.                                                       *)

\* The designer and the resume give their task a new session two locks after
\* they closed the old one: it is still closed, so it still has no run.
HandOver ==
    \A s \in Session :
        run[s].pc \in {"design_claim", "resume_claim"} => ~IsActive(s)

\* Only closing its own session takes a handler there, and an ended session
\* never begins again.
LEMMA HandOverKept ==
    ASSUME WellTyped, HandOver, [Next]_vars
    PROVE  HandOver'
<1> USE DEF WellTyped, TypeOK
<1> SUFFICES ASSUME NEW s \in Session,
                    run'[s].pc \in {"design_claim", "resume_claim"}
             PROVE  ~IsActive(s)'
  BY DEF HandOver
<1>1. CASE run'[s] = run[s]
  <2>1. s \in LinkedId /\ ~IsActive(s)
    BY <1>1 DEF HandOver, WellLinked, RunsLinked
  <2> QED BY <2>1, NewRuns, NewRunIsCurrent DEF SessionKept
<1>2. CASE CloseOwn(s)
  BY <1>2 DEF CloseOwn, Closed, Ended, UnusedSession, IsActive, BoardTypeOK,
              SessionRecord
<1>3. ASSUME NEW asked \in BOOLEAN, ExitCheck(s, asked)
      PROVE  FALSE
  BY <1>3 DEF ExitCheck, Goto, RunsTypeOK, RunRecord
<1> QED BY <1>1, <1>2, <1>3, HandlerSteps DEF Between

\* A new run of t while x, its current session, is active: only the two
\* places that do not ask do this, and they are recorded.
LEMMA OverlapRecorded ==
    ASSUME WellTyped, HandOver, OneRunPerTask, [Next]_vars,
           NEW x \in Session, IsActive(x), TaskOf(x) \notin overlap,
           NEW y \in Session, RunLinks(y), TaskOf(y)' = TaskOf(x)
    PROVE  TaskOf(x) \in overlap'
<1> USE DEF WellTyped, TypeOK
<1> DEFINE t == TaskOf(x)
<1>0. task[t].session = x /\ y # x
  <2>1. x \in LinkedId
    BY DEF IsActive, LinkedId
  <2> QED BY <2>1, NewRunIsCurrent DEF OneRunPerTask
<1>1. ASSUME NEW u, session' = Linked(session, y, u)
      PROVE  u = t
  BY <1>1 DEF Linked, TaskOf, BoardTypeOK
<1>2. ASSUME overlap' = OverlapWith(y, t)
      PROVE  t \in overlap'
  BY <1>0, <1>2 DEF OverlapWith
<1>3. ASSUME NEW p \in Pump, NEW u \in Task, Claim(p, u, y)
      PROVE  FALSE
  <2>1. u = t
    BY <1>1, <1>3 DEF Claim
  <2> QED BY <1>0, <1>3, <2>1 DEF Claim, Claimable
<1>4. ASSUME NEW s \in Session, ReviewClaim(s, y)
      PROVE  t \in overlap'
  <2>1. TaskOf(s) = t
    BY <1>1, <1>4 DEF ReviewClaim
  <2> QED BY <1>2, <1>4, <2>1 DEF ReviewClaim
<1>5. ASSUME NEW s \in Session, DesignClaim(s, y) \/ ResumeClaim(s, y)
      PROVE  FALSE
  <2>1. TaskOf(s) = t
    BY <1>1, <1>5 DEF DesignClaim, ResumeClaim
  <2>2. s = x
    BY <1>0, <1>5, <2>1 DEF DesignClaim, DesignFence, ResumeClaim, ResumeFence
  <2> QED BY <1>5, <2>2 DEF HandOver, DesignClaim, ResumeClaim
<1>6. ASSUME NEW h \in Starter, StartTake(h), start[h].session = y
      PROVE  t \in overlap'
  <2>1. start[h].task = t
    BY <1>1, <1>6 DEF StartTake
  <2> QED BY <1>2, <1>6, <2>1 DEF StartTake
<1> QED BY <1>3, <1>4, <1>5, <1>6 DEF RunLinks

\* The history only grows.
LEMMA OverlapGrows ==
    ASSUME [Next]_vars
    PROVE  overlap \subseteq overlap'
<1>1. overlap' = overlap \/ \E s, t : overlap' = OverlapWith(s, t)
  <2>1. ASSUME NEW p \in Pump, PumpStep(p) \/ PumpDies(p)
        PROVE  overlap' = overlap
    BY <2>1 DEF PumpStep, PumpDies, WakeBegin, WakeRead, WakeCrash, WakeQueue,
                WakeFencedOut, WakeClose, ReapBegin, ReapOne, ScheduleOne,
                DueRestarts, WalkBegin, Claim, ClaimRefused, PumpLaunch,
                PumpLaunchFails, ScheduleFailed, board
  <2>2. ASSUME NEW s \in Session, CommandStep(s) \/ ExitStep(s) \/ ProcessDies(s)
        PROVE  overlap' = overlap
    BY <2>2 DEF CommandStep, ExitStep, ProcessDies, DeclareWaiting,
                ExecutorDone, VerificationFails, DesignerDone, Verdict, Exit,
                board
  <2>3. ASSUME NEW s \in Session, HandlerStep(s)
        PROVE  overlap' = overlap \/ \E x, t : overlap' = OverlapWith(x, t)
    <3>1. CASE \E c \in Session : ReviewClaim(s, c)
      BY <3>1 DEF ReviewClaim
    <3>2. CASE \A c \in Session : ~ReviewClaim(s, c)
      BY <2>3, <3>2
         DEF HandlerStep, CloseOwn, DesignClaim, ReviewRefused,
             DesignRefused, ChildLaunch, ChildLaunchFails, ChildSchedule,
             ExitCrash, ExitSchedule, ExitWait, ExitCheck, ExitExhausted,
             ResumeClaim, ResumeRefused, ResumeLaunch, ResumeLaunchFails, board
    <3> QED BY <3>1, <3>2
  <2>4. ASSUME ClockStep
        PROVE  overlap' = overlap
    BY <2>4 DEF ClockStep, Heartbeat, FallSilent, WaitDeadline, RestartDeadline
  <2>5. ASSUME HumanStep
        PROVE  overlap' = overlap \/ \E x, t : overlap' = OverlapWith(x, t)
    <3>1. CASE \E h \in Starter : StartTake(h)
      BY <3>1 DEF StartTake
    <3>2. CASE \A h \in Starter : ~StartTake(h)
      BY <2>5, <3>2
         DEF HumanStep, StartStep, QueueRun, Dequeue, Recover, HumanDone, Stop,
             KillStopped, StartCheck, StartLaunch, StartLaunchFails,
             StartRollback, board
    <3> QED BY <3>1, <3>2
  <2>6. CASE UNCHANGED vars
    BY <2>6 DEF vars
  <2> QED BY <2>1, <2>2, <2>3, <2>4, <2>5, <2>6 DEF Next, BoardStep, RunStep
<1> QED BY <1>1 DEF OverlapWith

\* Whatever is reaped, retried, woken, resumed or handed over, a task has at
\* most one run, except where start_task or start_bot_review overlapped two.
THEOREM OneRunHolds == Spec => []OneRunPerTask
<1> DEFINE Inv == HandOver /\ OneRunPerTask
<1>1. Init => Inv
  BY DEF Init, BoardInit, RunsInit, UnusedSession, NotRunning, HandOver,
         OneRunPerTask, IsActive
<1>2. ASSUME WellTyped, Inv, [Next]_vars
      PROVE  OneRunPerTask'
  <2> SUFFICES ASSUME NEW x \in Session, IsActive(x)', TaskOf(x)' \notin overlap'
               PROVE  task'[TaskOf(x)'].session = x
    BY DEF OneRunPerTask
  <2>1. CASE RunLinks(x)
    BY <1>2, <2>1, NewRunIsCurrent
  <2>2. CASE ~RunLinks(x)
    <3>1. IsActive(x) /\ TaskOf(x)' = TaskOf(x)
      BY <1>2, <2>2, NewRuns DEF SessionKept
    <3> DEFINE t == TaskOf(x)
    <3>2. t \notin overlap /\ task[t].session = x
      BY <1>2, <3>1, OverlapGrows DEF OneRunPerTask
    <3>3. t \in Task
      BY <1>2, <3>1 DEF IsActive, WellTyped, WellLinked, SessionsLinked, LinkedId
    <3>4. CASE task'[t].session = task[t].session
      BY <3>1, <3>2, <3>4
    <3>5. ASSUME NEW p \in Pump, WakeQueue(p), TaskOf(pump[p].cur) = t
          PROVE  FALSE
      <4>1. pump[p].cur = x /\ session' = Closed(session, x)
        BY <3>2, <3>5 DEF WakeQueue, WakeFence
      <4> QED BY <1>2, <4>1 DEF Closed, Ended, UnusedSession, IsActive,
                 WellTyped, TypeOK, BoardTypeOK, SessionRecord
    <3>6. ASSUME NEW y \in Session, RunLinks(y), TaskOf(y)' = t
          PROVE  FALSE
      BY <1>2, <3>1, <3>2, <3>6, OverlapRecorded
    <3> QED BY <1>2, <3>3, <3>4, <3>5, <3>6, SessionFields DEF SessionField
  <2> QED BY <2>1, <2>2
<1>3. WellTyped /\ Inv /\ [Next]_vars => Inv'
  BY <1>2, HandOverKept
<1> QED BY <1>1, <1>3, WellTypedAlways, PTL DEF Spec

-----------------------------------------------------------------------------
(* No claim beyond the cap.                                                *)

\* The session of a task was linked once: a fresh id is nobody's session, so
\* a claim makes no other task occupied.
TasksLinked == \A t \in Task : task[t].session \in LinkedId \cup {NoSession}

\* Ids stay linked.
LEMMA LinksGrow ==
    ASSUME WellTyped, [Next]_vars
    PROVE  LinkedId \subseteq LinkedId'
<1> USE DEF WellTyped, TypeOK
<1>1. ASSUME HumanStep
      PROVE  LinkedId \subseteq LinkedId'
  <2>1. ASSUME NEW t \in Task,
               QueueRun(t) \/ Dequeue(t) \/ Recover(t) \/ HumanDone(t) \/ Stop(t)
        PROVE  LinkedId \subseteq LinkedId'
    BY <2>1, RequestTypes DEF BoardKeeps, IdsGrow, WellLinked
  <2>2. ASSUME NEW s \in Session, KillStopped(s)
        PROVE  LinkedId \subseteq LinkedId'
    BY <2>2 DEF KillStopped, board, LinkedId
  <2>3. ASSUME NEW h \in Starter, NEW t \in Task, NEW s \in Session,
               StartCheck(h, t, s)
        PROVE  LinkedId \subseteq LinkedId'
    BY <2>3, StartCheckTypes DEF StartKeeps
  <2>4. ASSUME NEW h \in Starter, StartStep(h)
        PROVE  LinkedId \subseteq LinkedId'
    BY <2>4, StartTakeTypes, StartEndTypes DEF StartKeeps, StartStep
  <2> QED BY <1>1, <2>1, <2>2, <2>3, <2>4 DEF HumanStep
<1>2. ASSUME BoardStep
      PROVE  LinkedId \subseteq LinkedId'
  BY <1>2, PumpStepTypes, RunStepTypes, ClockTypes
     DEF BoardStep, PumpKeeps, RunKeeps, BoardKeeps, IdsGrow, WellLinked
<1>3. CASE UNCHANGED vars
  BY <1>3 DEF vars, LinkedId
<1> QED BY <1>1, <1>2, <1>3 DEF Next

\* Every step keeps the sessions of the tasks linked.
LEMMA TasksLinkedKept ==
    ASSUME WellTyped, TasksLinked, [Next]_vars
    PROVE  TasksLinked'
<1> SUFFICES ASSUME NEW t \in Task
             PROVE  task'[t].session \in LinkedId' \cup {NoSession}
  BY DEF TasksLinked
<1>1. SessionField(t) /\ LinkedId \subseteq LinkedId'
  BY SessionFields, LinksGrow
<1> QED BY <1>1, NewRunIsCurrent DEF SessionField, TasksLinked

\* A claim adds at most its own task to the census.
LEMMA ClaimOccupies ==
    ASSUME WellTyped, TasksLinked, NEW p \in Pump, NEW t \in Task,
           NEW s \in Session, Claim(p, t, s)
    PROVE  Occupied' \subseteq Occupied \cup {t}
<1> USE DEF WellTyped, TypeOK, BoardTypeOK
<1> SUFFICES ASSUME NEW x \in Task, x \in Occupied', x # t
             PROVE  x \in Occupied
  BY DEF Occupied
<1>1. task'[x] = task[x] /\ session' = Linked(session, s, t)
  BY DEF Claim
<1> DEFINE y == task[x].session
<1>2. y # s /\ y \in Session
  <2>1. y # NoSession
    BY <1>1 DEF Occupied
  <2>2. s \notin LinkedId
    BY DEF Claim, Fresh, LinkedId
  <2> QED BY <2>1, <2>2 DEF TasksLinked, LinkedId
<1>3. session'[y] = session[y]
  BY <1>1, <1>2 DEF Linked
<1> QED BY <1>1, <1>3 DEF Occupied, StateOf

\* However stale the slots a pump measured before its walk, what it claims
\* fits the cap together with everything that runs when it claims.
THEOREM ClaimCapHolds == Spec => ClaimWithinCap
<1>1. Init => TasksLinked
  BY DEF Init, BoardInit, NewTask, TasksLinked
<1>2. ASSUME NEW p \in Pump, NEW t \in Task, NEW s \in Session, Claim(p, t, s),
             WellTyped, TasksLinked
      PROVE  MaxAgents = 0 \/ Cardinality(Occupied') <= MaxAgents
  <2>1. Occupied \subseteq Task /\ IsFiniteSet(Task)
    BY BoardAssumption DEF BoardAssumption, Occupied
  <2>2. /\ IsFiniteSet(Occupied)
        /\ IsFiniteSet(Occupied \cup {t})
        /\ Cardinality(Occupied) \in Nat
        /\ Cardinality(Occupied \cup {t}) <= Cardinality(Occupied) + 1
        /\ Cardinality(Occupied \cup {t}) \in Nat
    BY <2>1, FS_Subset, FS_AddElement, FS_CardinalityType
  <2>3. /\ Cardinality(Occupied') <= Cardinality(Occupied \cup {t})
        /\ Cardinality(Occupied') \in Nat
    BY <1>2, <2>2, ClaimOccupies, FS_Subset, FS_CardinalityType
  <2>4. MaxAgents \in Nat /\ (MaxAgents = 0 \/ Cardinality(Occupied) < MaxAgents)
    BY <1>2, BoardAssumption DEF BoardAssumption, Claim, Claimable, HasRoom
  <2> HIDE DEF Occupied
  <2> QED BY <2>2, <2>3, <2>4
<1>3. WellTyped /\ TasksLinked /\ [Next]_vars =>
         [\A p \in Pump :
             pump[p].pc = "walk" /\ pump'[p].pc = "launch" =>
                 MaxAgents = 0 \/ Cardinality(Occupied') <= MaxAgents]_vars
  BY <1>2, OnlyClaims
<1> QED BY <1>1, <1>3, TasksLinkedKept, WellTypedAlways, PTL
        DEF Spec, ClaimWithinCap
=============================================================================
