---------------------------- MODULE PumpSharing ----------------------------
(***************************************************************************)
(* Who pumps a board, and when (core/daemon.rs).  Open TUIs and the daemon *)
(* share pump.lock, whose time stamp says when anyone last finished a      *)
(* tick.  Each process also remembers, per board, the files as its own     *)
(* last pump left them and the next deadline: while both stand it skips    *)
(* the board.  What a pump does to a task is module Dispatcher; here it is *)
(* only whether there is something to do.                                  *)
(*                                                                         *)
(* Times are countdowns.  A file stamp is represented by whether it still  *)
(* is what the files would give.                                           *)
(***************************************************************************)
EXTENDS Integers

CONSTANTS
    Pump,     \* open TUIs and a daemon: tick under pump.lock
    Fresh,          \* min_gap less PUMP_GAP_SLACK
    Backstop,       \* QUIET_BACKSTOP
    LaunchIn,       \* how far ahead a launch is planned
    MaxDeaths       \* bound: processes that die

ASSUME PumpSharingAssumption ==
    /\ Fresh \in Nat
    /\ Backstop \in Nat \ {0}
    /\ LaunchIn \in Nat \ {0}
    /\ MaxDeaths \in Nat

VARIABLES
    holder,     \* the processes inside pump.lock: at most one
    lockFile,   \* pump.lock: does it exist, how long its stamp stays fresh
    pumps,      \* process -> where it is, what it remembers
    work,       \* what the board has for a pump
    deaths

pumpVars == <<holder, lockFile, pumps, work, deaths>>

Never == -1
Countdown(t) == IF t > 0 THEN t - 1 ELSE t

\* Quiet: the stamp, the next deadline, the age of the last full pump.
Forgotten == [kept |-> FALSE, same |-> FALSE, wakeIn |-> Never, expires |-> 0]

PumpInit ==
    /\ holder = {}
    /\ lockFile = [exists |-> FALSE, fresh |-> 0]
    /\ pumps = [p \in Pump |->
                  [pc |-> "idle", queueOn |-> FALSE, memo |-> Forgotten]]
    /\ work = [queueOn |-> TRUE, queued |-> FALSE, ready |-> FALSE,
               slot |-> TRUE, launchIn |-> Never]
    /\ deaths = 0

\* Mutant: the stamp alone decides.
StampAlone(m) == m.kept /\ m.same

\* Quiet::holds
Holds(m) ==
    /\ m.kept
    /\ m.expires > 0
    /\ m.wakeIn # 0
    /\ m.same

\* A write to the board: no stamp taken before it stands any more.
Written == [p \in Pump |-> [pumps[p] EXCEPT !.memo.same = FALSE]]

-----------------------------------------------------------------------------
(* The board changes under the pumps: people, agents, and the pumps that   *)
(* ask nobody (a daemon for one project, check-sessions).                  *)

BoardEdit ==
    /\ work' \in {[work EXCEPT !.queued = TRUE],
                  [work EXCEPT !.ready = TRUE],
                  [work EXCEPT !.slot = TRUE],
                  [work EXCEPT !.launchIn = LaunchIn],
                  [work EXCEPT !.queueOn = ~ @]}
    /\ work' # work
    /\ pumps' = Written
    /\ UNCHANGED <<holder, lockFile, deaths>>

Clock ==
    /\ lockFile' = [lockFile EXCEPT !.fresh = Countdown(@)]
    /\ work' = [work EXCEPT !.launchIn = Countdown(@)]
    /\ pumps' = [p \in Pump |->
                   [pumps[p] EXCEPT !.memo.wakeIn = Countdown(@),
                                    !.memo.expires = Countdown(@)]]
    /\ UNCHANGED <<holder, deaths>>

-----------------------------------------------------------------------------
(* One tick.                                                               *)

Go(p, pc) == pumps' = [pumps EXCEPT ![p].pc = pc]

\* exclusive_run.  A file this process just made carries a time no tick
\* wrote; the next process takes it for one.
TryLock(p) ==
    /\ pumps[p].pc = "idle"
    /\ holder = {}
    /\ lockFile.exists => lockFile.fresh = 0
    /\ holder' = {p}
    /\ lockFile' = [exists |-> TRUE,
                    fresh |-> IF lockFile.exists THEN lockFile.fresh ELSE Fresh]
    /\ Go(p, "board")
    /\ UNCHANGED <<work, deaths>>

\* pump_all: a board whose memory holds is skipped, any other is forgotten
\* and pumped.
SkipQuiet(p) ==
    /\ pumps[p].pc = "board"
    /\ Holds(pumps[p].memo)
    /\ Go(p, "finish")
    /\ UNCHANGED <<holder, lockFile, work, deaths>>

PumpBoard(p) ==
    /\ pumps[p].pc = "board"
    /\ ~ Holds(pumps[p].memo)
    /\ pumps' = [pumps EXCEPT ![p] =
                   [pc |-> IF work.queueOn THEN "launches" ELSE "settle",
                    queueOn |-> work.queueOn, memo |-> Forgotten]]
    /\ UNCHANGED <<holder, lockFile, work, deaths>>

\* A section of the pump with nothing to do, or with the queue switched off
\* meanwhile, writes nothing.
Section(p, from, to, may, after) ==
    /\ pumps[p].pc = from
    /\ IF may /\ work.queueOn
       THEN /\ work' = after
            /\ pumps' = [Written EXCEPT ![p].pc = to]
       ELSE /\ work' = work
            /\ Go(p, to)
    /\ UNCHANGED <<holder, lockFile, deaths>>

\* due_launches
DueLaunches(p) ==
    Section(p, "launches", "dependents", work.launchIn = 0,
            [work EXCEPT !.launchIn = Never, !.queued = TRUE])

\* dispatch_ready_dependents
ReadyDependents(p) ==
    Section(p, "dependents", "dispatch", work.ready,
            [work EXCEPT !.ready = FALSE, !.queued = TRUE])

\* dispatch_queue
DispatchQueue(p) ==
    Section(p, "dispatch", "settle", work.queued /\ work.slot,
            [work EXCEPT !.queued = FALSE, !.slot = FALSE])

\* settle: the stamp first, what else the board waits for after it.
Stamp(p) ==
    /\ pumps[p].pc = "settle"
    /\ pumps' = [pumps EXCEPT ![p].pc = "deadlines", ![p].memo.same = TRUE]
    /\ UNCHANGED <<holder, lockFile, work, deaths>>

\* What settle remembers; a deadline already behind is dropped.
Settled(p) ==
    [kept |-> TRUE, same |-> pumps[p].memo.same, expires |-> Backstop,
     wakeIn |-> IF pumps[p].queueOn /\ work.launchIn > 0
                THEN work.launchIn + 1 ELSE Never]

\* Mutant: a queued task that found no slot does not keep the board busy.
QueuedIsQuiet(p) ==
    /\ pumps[p].pc = "deadlines"
    /\ pumps' = [pumps EXCEPT ![p].pc = "finish", ![p].memo = Settled(p)]
    /\ UNCHANGED <<holder, lockFile, work, deaths>>

\* settle: a queued task that may start keeps the board busy.
Deadlines(p) ==
    /\ pumps[p].pc = "deadlines"
    /\ pumps' = [pumps EXCEPT
          ![p].pc = "finish",
          ![p].memo = IF pumps[p].queueOn /\ work.queueOn /\ work.queued
                      THEN Forgotten ELSE Settled(p)]
    /\ UNCHANGED <<holder, lockFile, work, deaths>>

\* exclusive_run: stamp pump.lock and leave it.
PumpFinishes(p) ==
    /\ pumps[p].pc = "finish"
    /\ Go(p, "idle")
    /\ holder' = holder \ {p}
    /\ lockFile' = [lockFile EXCEPT !.fresh = Fresh]
    /\ UNCHANGED <<work, deaths>>

\* A process dies: the lock goes with it, the stamp is not written and its
\* memory is gone.
PumpProcessDies(p) ==
    /\ deaths < MaxDeaths
    /\ deaths' = deaths + 1
    /\ holder' = holder \ {p}
    /\ pumps' = [pumps EXCEPT ![p] =
                   [pc |-> "idle", queueOn |-> FALSE, memo |-> Forgotten]]
    /\ UNCHANGED <<lockFile, work>>

PumpWork(p) ==
    \/ SkipQuiet(p)
    \/ PumpBoard(p)
    \/ DueLaunches(p)
    \/ ReadyDependents(p)
    \/ DispatchQueue(p)
    \/ Stamp(p)
    \/ Deadlines(p)
    \/ PumpFinishes(p)

PumpNext ==
    \/ BoardEdit
    \/ Clock
    \/ \E p \in Pump :
          \/ TryLock(p)
          \/ PumpWork(p)
          \/ PumpProcessDies(p)

PumpSpec == PumpInit /\ [][PumpNext]_pumpVars

\* A TUI and a daemon try again every few seconds for as long as they run, a
\* tick that began comes to its end, and time passes.
PumpsGoOn ==
    /\ WF_pumpVars(Clock)
    /\ \A p \in Pump : WF_pumpVars(TryLock(p)) /\ WF_pumpVars(PumpWork(p))

-----------------------------------------------------------------------------
(* Properties.                                                             *)

PumpState ==
    [pc : {"idle", "board", "launches", "dependents", "dispatch", "settle",
           "deadlines", "finish"},
     queueOn : BOOLEAN,
     memo : [kept : BOOLEAN, same : BOOLEAN,
             wakeIn : -1 .. LaunchIn + 1, expires : 0 .. Backstop]]

\* The type of the state.
PumpTypeOK ==
    /\ holder \in SUBSET Pump
    /\ lockFile \in [exists : BOOLEAN, fresh : 0 .. Fresh]
    /\ pumps \in [Pump -> PumpState]
    /\ work \in [queueOn : BOOLEAN, queued : BOOLEAN, ready : BOOLEAN,
                 slot : BOOLEAN, launchIn : -1 .. LaunchIn]
    /\ deaths \in 0 .. MaxDeaths

\* A pump that saw the queue on never leaves the board as quiet while a task
\* in the queue could be dispatched: whoever queued it, whenever during the
\* pump, however the switch was flipped since (daemon.rs settle: "so the next
\* tick pumps the board again").  One that saw it off may: the switch is
\* turned on before the stamp is taken.
QuietHidesNoQueuedTask ==
    \A p \in Pump :
        Holds(pumps[p].memo) /\ pumps[p].queueOn
            => ~ (work.queueOn /\ work.queued)

\* Work that no pump should leave lying.
NodeWaits == work.queueOn /\ work.ready
LaunchWaits == work.queueOn /\ work.launchIn = 0
MayStart == work.queueOn /\ work.queued /\ work.slot

\* A node that became ready, a launch that came due, a queue switched on
\* after the pump had looked and before its stamp was taken is taken for
\* seen; yet some process finds it: no board is skipped for ever, whoever
\* holds or stamps pump.lock, unless the queue is off (QUIET_BACKSTOP).
WorkIsFound ==
    /\ NodeWaits ~> ~ NodeWaits
    /\ LaunchWaits ~> ~ LaunchWaits
    /\ MayStart ~> ~ MayStart

=============================================================================
