------------------------------ MODULE BoardView ------------------------------
(***************************************************************************)
(* What the TUI shows of a board (tui/app.rs, tui/tick_worker.rs,          *)
(* tui/event.rs).  The event loop never waits: a worker thread reads the   *)
(* files and sends snapshots, and a card the user moves is shown moved at  *)
(* once while another thread writes the move.  Snapshots, reports of       *)
(* finished moves and the user's next key meet in the event loop in any    *)
(* order.                                                                  *)
(*                                                                         *)
(* A file stamp is the number of writes so far.  The generation of the     *)
(* board is kept as the one thing it is compared for: whether it is still  *)
(* the one the running request was made with.                              *)
(***************************************************************************)
EXTENDS Integers, FiniteSets

CONSTANTS
    Card, Column,
    NoColumn,
    BulkMoves,      \* may a confirmation move several cards at once?
    MaxEdits,       \* bound: writes by others
    MaxMoves        \* bound: moves made in this TUI

ASSUME BoardViewAssumption ==
    /\ NoColumn \notin Column
    /\ BulkMoves \in BOOLEAN
    /\ MaxEdits \in Nat
    /\ MaxMoves \in Nat

VARIABLES
    files,      \* the board: cards, and stamps of task files and sidecars
    edits,
    view,       \* BoardSnapshot on the screen
    overlay,    \* pending_moves
    refresh,    \* the request of the tick worker
    worker,     \* the tick worker: its mirror and where it is
    moves,      \* launch workers that move cards, until their report is read
    moved

viewVars == <<files, edits, view, overlay, refresh, worker, moves, moved>>

MaxStamp == MaxEdits + MaxMoves
Snapshot == [cards : [Card -> Column], tasks : 0 .. MaxStamp,
             sidecars : 0 .. MaxStamp, badge : 0 .. MaxStamp]

\* overlay_pending_moves
Overlaid(board, over) ==
    [board EXCEPT !.cards =
        [c \in Card |-> IF over[c] = NoColumn THEN board.cards[c] ELSE over[c]]]

Stamps(b) == [tasks |-> b.tasks, sidecars |-> b.sidecars]

\* Mutant: threads and sessions do not count as a change.
SameTasks(a, b) == a.tasks = b.tasks

SameStamps(a, b) == Stamps(a) = Stamps(b)

ViewInit ==
    /\ \E cards \in [Card -> Column] :
          files = [cards |-> cards, tasks |-> 0, sidecars |-> 0, badge |-> 0]
    /\ edits = 0
    /\ view = files
    /\ overlay = [c \in Card |-> NoColumn]
    /\ refresh = [inFlight |-> FALSE, pending |-> FALSE, current |-> FALSE]
    /\ worker = [pc |-> "idle", mirror |-> {}, stamps |-> Stamps(files),
               shown |-> Stamps(files)]
    /\ moves = {}
    /\ moved = 0

-----------------------------------------------------------------------------
(* The files, written by anyone.                                           *)

EditFiles ==
    /\ edits < MaxEdits
    /\ edits' = edits + 1
    /\ \/ \E c \in Card : \E to \in Column \ {files.cards[c]} :
             files' = [files EXCEPT !.cards[c] = to, !.tasks = @ + 1]
       \/ files' = [files EXCEPT !.sidecars = @ + 1, !.badge = @ + 1]
    /\ UNCHANGED <<view, overlay, refresh, worker, moves, moved>>

-----------------------------------------------------------------------------
(* Moves made here.                                                        *)

\* launch_busy: each job answers for one card, the first it moves.
Busy(cards) == \E m \in moves : m.key \in cards

Move(key, cards, to) == [key |-> key, cards |-> cards, to |-> to, done |-> FALSE]

\* show_moved, spawn_board_write; a bulk confirmation moves every card of a
\* column.
MoveCards(cards, to) ==
    /\ moved < MaxMoves
    /\ \A c \in cards : view.cards[c] # to
    /\ ~ Busy(cards)
    /\ moved' = moved + 1
    /\ overlay' = [c \in Card |-> IF c \in cards THEN to ELSE overlay[c]]
    /\ view' = Overlaid(view, overlay')
    /\ refresh' = [refresh EXCEPT !.current = FALSE]
    /\ \E key \in cards : moves' = moves \cup {Move(key, cards, to)}
    /\ UNCHANGED <<files, edits, worker>>

UserMoves ==
    \E to \in Column, cards \in SUBSET Card \ {{}} :
        /\ BulkMoves \/ Cardinality(cards) = 1
        /\ MoveCards(cards, to)

\* The job writes its move or is refused (a guard, an error, a bulk set that
\* changed), and sends its report.
MoveRuns(m) ==
    /\ ~ m.done
    /\ moves' = (moves \ {m}) \cup {[m EXCEPT !.done = TRUE]}
    /\ \/ files' = [files EXCEPT
                      !.cards = [c \in Card |-> IF c \in m.cards THEN m.to
                                                ELSE files.cards[c]],
                      !.tasks = @ + 1]
       \/ files' = files
    /\ UNCHANGED <<edits, view, overlay, refresh, worker, moved>>

-----------------------------------------------------------------------------
(* The event loop.                                                         *)

\* request_tick_refresh
Asked(ref, shown) ==
    IF ref.inFlight
    THEN /\ refresh' = [ref EXCEPT !.pending = TRUE]
         /\ UNCHANGED worker
    ELSE /\ refresh' = [inFlight |-> TRUE, pending |-> FALSE, current |-> TRUE]
         /\ worker' = [worker EXCEPT !.pc = "asked", !.shown = Stamps(shown)]

\* poll_launches: every report settles its cards, then the board is read
\* again (refresh_after_action, reload_board).
Reports == {m \in moves : m.done}
Settle ==
    /\ moves' = moves \ Reports
    /\ overlay' = [c \in Card |-> IF \E m \in Reports : c \in m.cards
                                  THEN NoColumn ELSE overlay[c]]
    /\ view' = Overlaid(files, overlay')

LaunchDone ==
    /\ Reports # {}
    /\ Settle
    /\ refresh' = [refresh EXCEPT !.current = FALSE]
    /\ UNCHANGED <<files, edits, worker, moved>>

\* App::tick: reports first, then ask the worker.
TickView ==
    /\ IF Reports # {}
       THEN /\ Settle
            /\ Asked([refresh EXCEPT !.current = FALSE], view')
       ELSE /\ Asked(refresh, view)
            /\ UNCHANGED <<view, overlay, moves>>
    /\ UNCHANGED <<files, edits, moved>>

\* Mutant: a snapshot is shown whichever board it was asked for.
AnyGeneration(ref) == TRUE

\* A user action won the race if the board has changed since.
StillCurrent(ref) == ref.current

\* Mutant: a snapshot replaces the board as it is.
ShownBare(board) == board

ShownFrom(board) == Overlaid(board, overlay)

\* apply_tick_result
TickReady ==
    /\ worker.pc = "replied"
    /\ LET sent == {b \in worker.mirror : ~ SameStamps(b, worker.shown)}
           taken == StillCurrent(refresh)
           ref == [refresh EXCEPT !.inFlight = FALSE,
                                  !.pending = @ \/ ~ taken]
       IN /\ view' = IF taken /\ sent # {}
                     THEN ShownFrom(CHOOSE b \in sent : TRUE) ELSE view
          /\ IF ref.pending
             THEN /\ refresh' = [inFlight |-> TRUE, pending |-> FALSE,
                                 current |-> TRUE]
                  /\ worker' = [worker EXCEPT !.pc = "asked", !.shown = Stamps(view')]
             ELSE /\ refresh' = ref
                  /\ worker' = [worker EXCEPT !.pc = "idle"]
    /\ UNCHANGED <<files, edits, overlay, moves, moved>>

-----------------------------------------------------------------------------
(* The tick worker (refresh).                                              *)

WorkerStamps ==
    /\ worker.pc = "asked"
    /\ worker' = [worker EXCEPT !.pc = "stamped", !.stamps = Stamps(files)]
    /\ UNCHANGED <<files, edits, view, overlay, refresh, moves, moved>>

TasksKnown == \E b \in worker.mirror : b.tasks = worker.stamps.tasks

\* BoardSnapshot::load_reusing takes its own stamps first ...
WorkerLoads ==
    /\ worker.pc = "stamped"
    /\ ~ TasksKnown
    /\ worker' = [worker EXCEPT !.pc = "loading",
                                !.stamps = Stamps(files)]
    /\ UNCHANGED <<files, edits, view, overlay, refresh, moves, moved>>

\* ... and reads the files after.
Under(stamps, board) ==
    [board EXCEPT !.tasks = stamps.tasks, !.sidecars = stamps.sidecars]

WorkerHasLoaded ==
    /\ worker.pc = "loading"
    /\ worker' = [worker EXCEPT !.pc = "replied",
                                !.mirror = {Under(worker.stamps, files)}]
    /\ UNCHANGED <<files, edits, view, overlay, refresh, moves, moved>>

\* Only sidecars differ: refresh_sidecars reads them under the stamps taken
\* at the start.
WorkerSidecars ==
    /\ worker.pc = "stamped"
    /\ TasksKnown
    /\ worker' = [worker EXCEPT
          !.pc = "replied",
          !.mirror = {IF SameStamps(b, worker.stamps) THEN b
                      ELSE [b EXCEPT !.badge = files.badge,
                                     !.sidecars = worker.stamps.sidecars] :
                        b \in worker.mirror}]
    /\ UNCHANGED <<files, edits, view, overlay, refresh, moves, moved>>

WorkerStep ==
    \/ WorkerStamps
    \/ WorkerLoads
    \/ WorkerHasLoaded
    \/ WorkerSidecars

ViewNext ==
    \/ EditFiles
    \/ UserMoves
    \/ \E m \in moves : MoveRuns(m)
    \/ LaunchDone
    \/ TickView
    \/ TickReady
    \/ WorkerStep

ViewSpec == ViewInit /\ [][ViewNext]_viewVars

\* The tick thread keeps ticking, the event loop takes what was sent to it,
\* threads that were started run.
ViewGoesOn ==
    /\ WF_viewVars(TickView)
    /\ WF_viewVars(TickReady)
    /\ WF_viewVars(WorkerStep)
    /\ WF_viewVars(\E m \in moves : MoveRuns(m))

-----------------------------------------------------------------------------
(* Properties.                                                             *)

\* The screen never goes back in time: a snapshot read before a write that
\* the screen already shows does not replace it (tui/app.rs show_moved: "A
\* tick read before the move must not replace the moved board").
ScreenNeverGoesBack ==
    [][/\ view'.tasks >= view.tasks
       /\ view'.sidecars >= view.sidecars]_viewVars

\* Whatever snapshot or reload arrives, a card whose move is not settled is
\* shown where the user put it.
PendingMovesAreShown ==
    \A c \in Card : overlay[c] # NoColumn => view.cards[c] = overlay[c]

\* Once nothing more is written, the screen shows the files: no write that
\* raced the read, no refused move and no dropped snapshot leaves an old
\* card or badge on the screen for good.
ScreenCatchesUp ==
    <>[](/\ view.cards = files.cards
         /\ view.badge = files.badge)

\* "Refuse a second launch of a task whose first is still on a worker"
\* (tui/app.rs launch_busy).
OneWorkerPerCard ==
    \A m, n \in moves : m # n => m.cards \cap n.cards = {}

=============================================================================
