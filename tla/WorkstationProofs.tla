------------------------- MODULE WorkstationProofs -------------------------
(***************************************************************************)
(* What happens in front of a person, for any size of it: the screen       *)
(* (BoardView) and the work folder (Landing).                              *)
(*                                                                         *)
(* The screen never goes back because a snapshot is taken only when the    *)
(* board has not changed since it was asked for, and whatever the worker   *)
(* reads after it was asked is at least as new as the board then was       *)
(* (NotOlder).                                                             *)
(*                                                                         *)
(* "Nothing is ever silently overwritten" (FolderKept): a landing writes   *)
(* files whole, so what it writes must hold what the folder holds.  That   *)
(* rests on the history: a commit holds the edits of its ancestors, so a   *)
(* clean merge holds both sides, and the snapshot of the folder is one of  *)
(* them.                                                                   *)
(*                                                                         *)
(* What an agent wrote is kept until a person takes the task               *)
(* (UnlandedKept).  A merge open in a checkout can only be over a clash    *)
(* that still stands, because nothing moves the merge base of a branch but *)
(* its own landing (WorkInv); and a landing has its task to itself         *)
(* (BookInv).                                                              *)
(*                                                                         *)
(* A conflict that was resolved does not come back (ConflictSettledOnce):  *)
(* what a task wrote reaches the folder only with its landing, so a branch *)
(* that merged the folder differs from their merge base nowhere the folder *)
(* does (SettledInv).                                                      *)
(***************************************************************************)
EXTENDS BoardView, Landing, Extremes

-----------------------------------------------------------------------------
(* The screen.                                                             *)

Board == [cards : [Card -> Column], tasks : Nat, sidecars : Nat, badge : Nat]
Stamp == [tasks : Nat, sidecars : Nat]
MoveJob == [key : Card, cards : SUBSET Card, to : Column, done : BOOLEAN]

\* The type of the state; the worker remembers one board or none.
ViewTyped ==
    /\ files \in Board
    /\ view \in Board
    /\ overlay \in [Card -> Column \cup {NoColumn}]
    /\ refresh \in [inFlight : BOOLEAN, pending : BOOLEAN, current : BOOLEAN]
    /\ worker \in [pc : {"idle", "asked", "stamped", "loading", "replied"},
                   mirror : SUBSET Board, stamps : Stamp, shown : Stamp]
    /\ \A a, b \in worker.mirror : a = b
    /\ moves \subseteq MoveJob

\* x was taken from the files no later than y.
NoNewer(x, y) == x.tasks <= y.tasks /\ x.sidecars <= y.sidecars

\* Nothing is newer than the files, and what the worker has read since a
\* request that still counts is no older than the screen.
NotOlder ==
    /\ NoNewer(view, files)
    /\ NoNewer(worker.stamps, files)
    /\ \A b \in worker.mirror : NoNewer(b, files)
    /\ refresh.current => /\ worker.pc \in {"stamped", "loading"}
                                => NoNewer(view, worker.stamps)
                          /\ worker.pc = "replied"
                                => \A b \in worker.mirror : NoNewer(view, b)

-----------------------------------------------------------------------------
(* The helpers of the event loop.                                          *)

\* An overlay moves cards and leaves the stamps alone.
LEMMA OverlaidIs ==
    ASSUME NEW b \in Board, NEW o \in [Card -> Column \cup {NoColumn}]
    PROVE  /\ Overlaid(b, o) \in Board
           /\ Overlaid(b, o).tasks = b.tasks
           /\ Overlaid(b, o).sidecars = b.sidecars
           /\ \A c \in Card : o[c] # NoColumn => Overlaid(b, o).cards[c] = o[c]
<1> DEFINE C == [c \in Card |-> IF o[c] = NoColumn THEN b.cards[c] ELSE o[c]]
<1>1. C \in [Card -> Column]
  BY DEF Board
<1>2. \A c \in Card : o[c] # NoColumn => C[c] = o[c]
  OBVIOUS
<1>3. Overlaid(b, o) = [b EXCEPT !.cards = C]
  BY DEF Overlaid
<1> HIDE DEF C
<1> QED
  BY <1>1, <1>2, <1>3 DEF Board

LEMMA StampsAre ==
    ASSUME NEW b, b \in Board
    PROVE  /\ Stamps(b) \in Stamp
           /\ Stamps(b).tasks = b.tasks
           /\ Stamps(b).sidecars = b.sidecars
  BY DEF Stamps, Board, Stamp

Rewritten(b, C) == [b EXCEPT !.cards = C, !.tasks = @ + 1]
Noted(b) == [b EXCEPT !.sidecars = @ + 1, !.badge = @ + 1]

\* A write leaves a board a board, and makes no stamp older.
LEMMA WriteIs ==
    ASSUME NEW b \in Board, NEW C \in [Card -> Column]
    PROVE  /\ Rewritten(b, C) \in Board /\ NoNewer(b, Rewritten(b, C))
           /\ Noted(b) \in Board /\ NoNewer(b, Noted(b))
<1>1. /\ b.tasks + 1 \in Nat /\ b.sidecars + 1 \in Nat /\ b.badge + 1 \in Nat
      /\ b.tasks <= b.tasks + 1 /\ b.sidecars <= b.sidecars + 1
      /\ b.tasks <= b.tasks /\ b.sidecars <= b.sidecars
  BY DEF Board
<1> DEFINE t == b.tasks + 1
           s == b.sidecars + 1
           g == b.badge + 1
<1> HIDE DEF t, s, g
<1>2. t \in Nat /\ s \in Nat /\ g \in Nat
  BY <1>1 DEF t, s, g
<1>3. /\ [b EXCEPT !.cards = C, !.tasks = t] \in Board
      /\ [b EXCEPT !.cards = C, !.tasks = t].tasks = t
      /\ [b EXCEPT !.cards = C, !.tasks = t].sidecars = b.sidecars
  BY <1>2 DEF Board
<1>4. /\ [b EXCEPT !.sidecars = s, !.badge = g] \in Board
      /\ [b EXCEPT !.sidecars = s, !.badge = g].sidecars = s
      /\ [b EXCEPT !.sidecars = s, !.badge = g].tasks = b.tasks
  BY <1>2 DEF Board
<1> QED
  BY <1>1, <1>3, <1>4 DEF NoNewer, Rewritten, Noted, t, s, g

\* Whoever writes the files, others or a move made here.
LEMMA FilesAdvance ==
    ASSUME ViewTyped, EditFiles \/ \E m \in moves : MoveRuns(m)
    PROVE  files' \in Board /\ NoNewer(files, files')
<1>1. files \in Board /\ files.cards \in [Card -> Column]
  BY DEF ViewTyped, Board
<1>2. NoNewer(files, files)
  BY <1>1 DEF NoNewer, Board
<1>3. CASE EditFiles
  <2>1. CASE \E c \in Card, to \in Column :
                files' = [files EXCEPT !.cards[c] = to, !.tasks = @ + 1]
    <3>1. PICK c \in Card, to \in Column :
             files' = [files EXCEPT !.cards[c] = to, !.tasks = @ + 1]
      BY <2>1
    <3>2. [files.cards EXCEPT ![c] = to] \in [Card -> Column]
      BY <1>1
    <3>3. files' = Rewritten(files, [files.cards EXCEPT ![c] = to])
      BY <3>1 DEF Rewritten
    <3> QED
      BY <1>1, <3>2, <3>3, WriteIs
  <2>2. CASE files' = [files EXCEPT !.sidecars = @ + 1, !.badge = @ + 1]
    BY <1>1, <2>2, WriteIs DEF Noted
  <2> QED
    BY <1>3, <2>1, <2>2 DEF EditFiles
<1>4. ASSUME NEW m \in moves, MoveRuns(m)
      PROVE  files' \in Board /\ NoNewer(files, files')
  <2> DEFINE C == [c \in Card |-> IF c \in m.cards THEN m.to
                                  ELSE files.cards[c]]
  <2>1. C \in [Card -> Column]
    BY <1>1 DEF MoveJob, ViewTyped
  <2>2. files' = Rewritten(files, C) \/ files' = files
    BY <1>4 DEF MoveRuns, Rewritten
  <2> HIDE DEF C
  <2> QED
    BY <1>1, <1>2, <2>1, <2>2, WriteIs
<1> QED
  BY <1>3, <1>4

\* Reports settle their cards: what stays on the overlay stays on the screen.
LEMMA SettleIs ==
    ASSUME ViewTyped, Settle
    PROVE  /\ overlay' \in [Card -> Column \cup {NoColumn}]
           /\ view' \in Board
           /\ view'.tasks = files.tasks /\ view'.sidecars = files.sidecars
           /\ \A c \in Card : overlay'[c] # NoColumn
                                 => view'.cards[c] = overlay'[c]
           /\ moves' \subseteq moves
<1>1. overlay' \in [Card -> Column \cup {NoColumn}]
  BY DEF Settle, ViewTyped
<1>2. view' = Overlaid(files, overlay') /\ moves' \subseteq moves
  BY DEF Settle
<1>3. files \in Board
  BY DEF ViewTyped
<1> QED
  BY <1>1, <1>2, <1>3, OverlaidIs

\* A request changes nothing of what the worker has read, and once it is
\* sent, nothing the worker had read before counts.
LEMMA AskedIs ==
    ASSUME ViewTyped,
           NEW marks \in [inFlight : BOOLEAN, pending : BOOLEAN,
                        current : BOOLEAN],
           NEW shown, shown \in Board, Asked(marks, shown)
    PROVE  /\ refresh' \in [inFlight : BOOLEAN, pending : BOOLEAN,
                            current : BOOLEAN]
           /\ worker' \in [pc : {"idle", "asked", "stamped", "loading",
                                 "replied"},
                           mirror : SUBSET Board, stamps : Stamp, shown : Stamp]
           /\ worker'.mirror = worker.mirror
           /\ worker'.stamps = worker.stamps
           /\ \/ worker'.pc = "asked"
              \/ /\ worker'.pc = worker.pc
                 /\ refresh'.current = marks.current
<1>1. CASE marks.inFlight
  <2>1. refresh' = [marks EXCEPT !.pending = TRUE] /\ worker' = worker
    BY <1>1 DEF Asked
  <2> QED
    BY <2>1 DEF ViewTyped
<1>2. CASE ~ marks.inFlight
  <2>1. /\ refresh' = [inFlight |-> TRUE, pending |-> FALSE, current |-> TRUE]
        /\ worker' = [worker EXCEPT !.pc = "asked", !.shown = Stamps(shown)]
    BY <1>2 DEF Asked
  <2> QED
    BY <2>1, StampsAre DEF ViewTyped
<1> QED
  BY <1>1, <1>2

\* A snapshot is shown only to a request that still counts, overlaid.
LEMMA TickReadyIs ==
    ASSUME ViewTyped, TickReady
    PROVE  /\ worker.pc = "replied"
           /\ \/ view' = view
              \/ /\ refresh.current
                 /\ \E b \in worker.mirror : view' = Overlaid(b, overlay)
           /\ view' \in Board
           /\ refresh' \in [inFlight : BOOLEAN, pending : BOOLEAN,
                            current : BOOLEAN]
           /\ worker' \in [pc : {"asked", "idle"}, mirror : SUBSET Board,
                           stamps : Stamp, shown : Stamp]
           /\ worker'.mirror = worker.mirror
           /\ worker'.stamps = worker.stamps
<1> DEFINE sent == {b \in worker.mirror : ~ SameStamps(b, worker.shown)}
           marks == [refresh EXCEPT !.inFlight = FALSE,
                                  !.pending = @ \/ ~ StillCurrent(refresh)]
<1>1. \/ view' = view
      \/ /\ refresh.current
         /\ \E b \in worker.mirror : view' = Overlaid(b, overlay)
  <2>1. view' = IF StillCurrent(refresh) /\ sent # {}
                THEN ShownFrom(CHOOSE b \in sent : TRUE) ELSE view
    BY DEF TickReady
  <2>2. CASE StillCurrent(refresh) /\ sent # {}
    <3>1. (CHOOSE b \in sent : TRUE) \in worker.mirror
      BY <2>2
    <3> QED
      BY <2>1, <2>2, <3>1 DEF ShownFrom, StillCurrent
  <2>3. CASE ~ (StillCurrent(refresh) /\ sent # {})
    BY <2>1, <2>3
  <2> QED
    BY <2>2, <2>3
<1>2. view' \in Board
  BY <1>1, OverlaidIs DEF ViewTyped
<1>3. CASE marks.pending
  <2>1. /\ refresh' = [inFlight |-> TRUE, pending |-> FALSE, current |-> TRUE]
        /\ worker' = [worker EXCEPT !.pc = "asked", !.shown = Stamps(view')]
    BY <1>3 DEF TickReady
  <2>2. Stamps(view') \in Stamp
    BY <1>2, StampsAre
  <2> QED
    BY <1>1, <1>2, <2>1, <2>2 DEF TickReady, ViewTyped
<1>4. CASE ~ marks.pending
  <2>1. refresh' = marks /\ worker' = [worker EXCEPT !.pc = "idle"]
    BY <1>4 DEF TickReady
  <2>2. marks \in [inFlight : BOOLEAN, pending : BOOLEAN, current : BOOLEAN]
    BY DEF ViewTyped
  <2> HIDE DEF marks
  <2> QED
    BY <1>1, <1>2, <2>1, <2>2 DEF TickReady, ViewTyped
<1> QED
  BY <1>3, <1>4

\* The worker stamps first and reads after: what it has is under stamps that
\* are no newer than the files.
LEMMA WorkerIs ==
    ASSUME ViewTyped, WorkerStep
    PROVE  /\ worker' \in [pc : {"stamped", "loading", "replied"},
                           mirror : SUBSET Board, stamps : Stamp, shown : Stamp]
           /\ \A a, b \in worker'.mirror : a = b
           /\ \/ /\ worker'.mirror = worker.mirror
                 /\ worker'.pc # "replied"
                 /\ worker'.stamps = Stamps(files)
              \/ /\ worker.pc \in {"stamped", "loading"}
                 /\ worker'.stamps = worker.stamps
                 /\ \A b \in worker'.mirror : Stamps(b) = worker.stamps
           /\ UNCHANGED <<files, edits, view, overlay, refresh, moves, moved>>
<1>1. files \in Board /\ Stamps(files) \in Stamp
  BY StampsAre DEF ViewTyped
<1>2. CASE WorkerStamps \/ WorkerLoads
  BY <1>1, <1>2 DEF WorkerStamps, WorkerLoads, ViewTyped
<1> DEFINE Worker == [pc : {"stamped", "loading", "replied"},
                      mirror : SUBSET Board, stamps : Stamp, shown : Stamp]
<1>3. ASSUME NEW b \in Board, Stamps(b) = worker.stamps,
             worker' = [worker EXCEPT !.pc = "replied", !.mirror = {b}]
      PROVE  /\ worker' \in Worker
             /\ \A x, y \in worker'.mirror : x = y
             /\ worker'.stamps = worker.stamps
             /\ \A x \in worker'.mirror : Stamps(x) = worker.stamps
  <2>1. {b} \in SUBSET Board
    OBVIOUS
  <2>2. worker' \in Worker /\ worker'.mirror = {b}
                          /\ worker'.stamps = worker.stamps
    BY <1>3, <2>1 DEF ViewTyped
  <2> QED
    BY <1>3, <2>2
<1>4. CASE WorkerHasLoaded
  <2> DEFINE loaded == Under(worker.stamps, files)
  <2>1. loaded \in Board /\ Stamps(loaded) = worker.stamps
    BY <1>1 DEF Under, Board, Stamps, Stamp, ViewTyped
  <2>2. worker' = [worker EXCEPT !.pc = "replied", !.mirror = {loaded}]
    BY <1>4 DEF WorkerHasLoaded
  <2> HIDE DEF loaded
  <2> QED
    BY <1>3, <1>4, <2>1, <2>2 DEF WorkerHasLoaded
<1>5. CASE WorkerSidecars
  <2> DEFINE read(b) == IF SameStamps(b, worker.stamps) THEN b
                        ELSE [b EXCEPT !.badge = files.badge,
                                       !.sidecars = worker.stamps.sidecars]
             mirror == {read(b) : b \in worker.mirror}
  <2>1. PICK known \in worker.mirror : known.tasks = worker.stamps.tasks
    BY <1>5 DEF WorkerSidecars, TasksKnown
  <2>2. worker.mirror = {known}
    BY <2>1 DEF ViewTyped
  <2>3. known \in Board /\ worker.stamps \in Stamp
    BY <2>1 DEF ViewTyped
  <2>4. read(known) \in Board
    BY <1>1, <2>3 DEF Board, Stamp
  <2>5. Stamps(read(known)) = worker.stamps
    <3>1. worker.stamps = [tasks |-> worker.stamps.tasks,
                           sidecars |-> worker.stamps.sidecars]
      BY <2>3 DEF Stamp
    <3>2. CASE SameStamps(known, worker.stamps)
      BY <2>1, <3>1, <3>2 DEF SameStamps, Stamps
    <3>3. CASE ~ SameStamps(known, worker.stamps)
      BY <2>1, <2>3, <3>1, <3>3 DEF Stamps, Board
    <3> QED
      BY <3>2, <3>3
  <2>6. worker' = [worker EXCEPT !.pc = "replied", !.mirror = mirror]
    BY <1>5 DEF WorkerSidecars
  <2> HIDE DEF read
  <2>7. mirror = {read(known)}
    BY <2>2
  <2> HIDE DEF mirror
  <2> QED
    BY <1>3, <1>5, <2>4, <2>5, <2>6, <2>7 DEF WorkerSidecars
<1> QED
  BY <1>2, <1>4, <1>5 DEF WorkerStep

-----------------------------------------------------------------------------

\* The state stays in its type.
THEOREM ViewTypedAlways == ViewSpec => []ViewTyped
<1>1. ViewInit => ViewTyped
  BY DEF ViewInit, ViewTyped, Board, Stamps, Stamp
<1>2. ViewTyped /\ [ViewNext]_viewVars => ViewTyped'
  <2> SUFFICES ASSUME ViewTyped, [ViewNext]_viewVars PROVE ViewTyped'
    OBVIOUS
  <2>1. CASE EditFiles
    <3>1. files' \in Board
      BY <2>1, FilesAdvance
    <3> QED
      BY <2>1, <3>1 DEF EditFiles, ViewTyped
  <2>2. CASE UserMoves
    <3>1. PICK to \in Column, cards \in SUBSET Card \ {{}} : MoveCards(cards, to)
      BY <2>2 DEF UserMoves
    <3>2. overlay' \in [Card -> Column \cup {NoColumn}]
      BY <3>1 DEF MoveCards, ViewTyped
    <3>3. view' \in Board
      BY <3>1, <3>2, OverlaidIs DEF MoveCards, ViewTyped
    <3>4. moves' \subseteq MoveJob
      <4>1. \A key \in cards : Move(key, cards, to) \in MoveJob
        BY DEF Move, MoveJob
      <4> QED
        BY <3>1, <4>1 DEF MoveCards, ViewTyped
    <3> QED
      BY <3>1, <3>2, <3>3, <3>4 DEF MoveCards, ViewTyped
  <2>3. ASSUME NEW m \in moves, MoveRuns(m) PROVE ViewTyped'
    <3>1. m \in MoveJob
      BY DEF ViewTyped
    <3>2. moves' \subseteq MoveJob
      BY <2>3, <3>1 DEF MoveRuns, MoveJob, ViewTyped
    <3>3. files' \in Board
      BY <2>3, FilesAdvance
    <3> QED
      BY <2>3, <3>2, <3>3 DEF MoveRuns, ViewTyped
  <2>4. CASE LaunchDone
    BY <2>4, SettleIs DEF LaunchDone, ViewTyped
  <2>5. CASE TickView
    <3>1. CASE Reports # {}
      BY <2>5, <3>1, SettleIs, AskedIs DEF TickView, ViewTyped
    <3>2. CASE Reports = {}
      BY <2>5, <3>2, AskedIs DEF TickView, ViewTyped
    <3> QED
      BY <3>1, <3>2
  <2>6. CASE TickReady
    BY <2>6, TickReadyIs DEF TickReady, ViewTyped
  <2>7. CASE WorkerStep
    BY <2>7, WorkerIs DEF WorkerStep, WorkerStamps, WorkerLoads,
                          WorkerHasLoaded, WorkerSidecars, ViewTyped
  <2>8. CASE UNCHANGED viewVars
    BY <2>8 DEF viewVars, ViewTyped
  <2> QED
    BY <2>1, <2>2, <2>3, <2>4, <2>5, <2>6, <2>7, <2>8 DEF ViewNext
<1> QED
  BY <1>1, <1>2, PTL DEF ViewSpec

\* Whatever snapshot or reload arrives, a card whose move is not settled is
\* shown where the user put it.
THEOREM PendingMovesShown == ViewSpec => []PendingMovesAreShown
<1>1. ViewInit => PendingMovesAreShown
  BY DEF ViewInit, PendingMovesAreShown
<1>2. ViewTyped /\ PendingMovesAreShown /\ [ViewNext]_viewVars
         => PendingMovesAreShown'
  <2> SUFFICES ASSUME ViewTyped, PendingMovesAreShown, [ViewNext]_viewVars
               PROVE  PendingMovesAreShown'
    OBVIOUS
  <2> USE DEF PendingMovesAreShown
  <2>1. CASE EditFiles
    BY <2>1 DEF EditFiles
  <2>2. CASE UserMoves
    <3>1. PICK to \in Column, cards \in SUBSET Card \ {{}} : MoveCards(cards, to)
      BY <2>2 DEF UserMoves
    <3>2. overlay' \in [Card -> Column \cup {NoColumn}]
      BY <3>1 DEF MoveCards, ViewTyped
    <3> QED
      BY <3>1, <3>2, OverlaidIs DEF MoveCards, ViewTyped
  <2>3. ASSUME NEW m \in moves, MoveRuns(m) PROVE PendingMovesAreShown'
    BY <2>3 DEF MoveRuns
  <2>4. CASE LaunchDone
    BY <2>4, SettleIs DEF LaunchDone
  <2>5. CASE TickView
    BY <2>5, SettleIs DEF TickView
  <2>6. CASE TickReady
    <3>1. overlay' = overlay
      BY <2>6 DEF TickReady
    <3> QED
      BY <2>6, <3>1, TickReadyIs, OverlaidIs DEF ViewTyped
  <2>7. CASE WorkerStep
    BY <2>7, WorkerIs
  <2>8. CASE UNCHANGED viewVars
    BY <2>8 DEF viewVars
  <2> QED
    BY <2>1, <2>2, <2>3, <2>4, <2>5, <2>6, <2>7, <2>8 DEF ViewNext
<1> QED
  BY <1>1, <1>2, ViewTypedAlways, PTL DEF ViewSpec

\* No snapshot older than the screen replaces it, in whatever order snapshots,
\* reports and the user's moves arrive.
THEOREM ScreenOnlyAdvances == ViewSpec => ScreenNeverGoesBack
<1>1. ViewInit => NotOlder
  BY StampsAre DEF ViewInit, NotOlder, NoNewer, Stamps
<1>2. ViewTyped /\ NotOlder /\ [ViewNext]_viewVars
         => NotOlder' /\ NoNewer(view, view')
  <2> SUFFICES ASSUME ViewTyped, NotOlder, [ViewNext]_viewVars
               PROVE  NotOlder' /\ NoNewer(view, view')
    OBVIOUS
  <2>0. /\ \A a \in Board \cup Stamp : NoNewer(a, a)
        /\ \A a, b, c \in Board \cup Stamp :
              NoNewer(a, b) /\ NoNewer(b, c) => NoNewer(a, c)
    BY DEF NoNewer, Board, Stamp
  <2>1. /\ files \in Board /\ view \in Board /\ worker.stamps \in Stamp
        /\ worker.mirror \subseteq Board
        /\ Stamps(files) \in Stamp
        /\ NoNewer(Stamps(files), files) /\ NoNewer(view, Stamps(files))
    BY StampsAre DEF ViewTyped, NotOlder, NoNewer, Board
  <2>2. ASSUME files' \in Board, NoNewer(files, files'),
               UNCHANGED <<view, worker, refresh>>
        PROVE  NotOlder' /\ NoNewer(view, view')
    BY <2>0, <2>1, <2>2 DEF NotOlder
  <2>3. ASSUME view' \in Board, NoNewer(view, view'), NoNewer(view', files),
               ~ refresh'.current, UNCHANGED <<files, worker>>
        PROVE  NotOlder' /\ NoNewer(view, view')
    BY <2>3 DEF NotOlder
  <2>4. CASE EditFiles
    BY <2>2, <2>4, FilesAdvance DEF EditFiles
  <2>5. CASE UserMoves
    <3>1. PICK to \in Column, cards \in SUBSET Card \ {{}} : MoveCards(cards, to)
      BY <2>5 DEF UserMoves
    <3>2. overlay' \in [Card -> Column \cup {NoColumn}]
      BY <3>1 DEF MoveCards, ViewTyped
    <3>3. view' = Overlaid(view, overlay') /\ UNCHANGED <<files, worker>>
      BY <3>1 DEF MoveCards
    <3>4. ~ refresh'.current
      BY <3>1 DEF MoveCards, ViewTyped
    <3>5. view' \in Board /\ view'.tasks = view.tasks
                          /\ view'.sidecars = view.sidecars
      BY <2>1, <3>2, <3>3, OverlaidIs
    <3>6. NoNewer(view, view') /\ NoNewer(view', files)
      BY <2>1, <3>5 DEF NoNewer, NotOlder, Board
    <3> QED
      BY <2>3, <3>3, <3>4, <3>5, <3>6
  <2>6. ASSUME NEW m \in moves, MoveRuns(m)
        PROVE  NotOlder' /\ NoNewer(view, view')
    BY <2>2, <2>6, FilesAdvance DEF MoveRuns
  <2>7. ASSUME Settle
        PROVE  view' \in Board /\ NoNewer(view, view') /\ NoNewer(view', files)
    BY <2>1, <2>7, SettleIs DEF NoNewer, NotOlder, Board
  <2>8. CASE LaunchDone
    <3>1. ~ refresh'.current /\ UNCHANGED <<files, worker>>
      BY <2>8 DEF LaunchDone, ViewTyped
    <3> QED
      BY <2>3, <2>7, <2>8, <3>1 DEF LaunchDone
  <2>9. CASE TickView
    <3>1. CASE Reports # {}
      <4> DEFINE marks == [refresh EXCEPT !.current = FALSE]
      <4>1. marks \in [inFlight : BOOLEAN, pending : BOOLEAN, current : BOOLEAN]
            /\ ~ marks.current
        BY DEF ViewTyped
      <4>2. Settle /\ Asked(marks, view') /\ UNCHANGED files
        BY <2>9, <3>1 DEF TickView
      <4> HIDE DEF marks
      <4>3. /\ worker'.mirror = worker.mirror /\ worker'.stamps = worker.stamps
            /\ worker'.pc = "asked" \/ ~ refresh'.current
        BY <2>7, <4>1, <4>2, AskedIs
      <4> QED
        BY <2>7, <4>2, <4>3 DEF NotOlder
    <3>2. CASE Reports = {}
      <4>1. Asked(refresh, view) /\ UNCHANGED <<files, view>>
        BY <2>9, <3>2 DEF TickView
      <4>2. /\ worker'.mirror = worker.mirror /\ worker'.stamps = worker.stamps
            /\ \/ worker'.pc = "asked"
               \/ worker'.pc = worker.pc /\ refresh'.current = refresh.current
        BY <2>1, <4>1, AskedIs DEF ViewTyped
      <4> QED
        BY <2>0, <2>1, <4>1, <4>2 DEF NotOlder
    <3> QED
      BY <3>1, <3>2
  <2>10. CASE TickReady
    <3>1. /\ worker'.mirror = worker.mirror /\ worker'.stamps = worker.stamps
          /\ worker'.pc \notin {"stamped", "loading", "replied"}
          /\ files' = files
      BY <2>10, TickReadyIs DEF TickReady
    <3>2. NoNewer(view, view') /\ NoNewer(view', files)
      <4>1. CASE view' = view
        BY <2>0, <2>1, <4>1 DEF NotOlder
      <4>2. CASE refresh.current
                 /\ \E b \in worker.mirror : view' = Overlaid(b, overlay)
        <5>1. PICK b \in worker.mirror : view' = Overlaid(b, overlay)
          BY <4>2
        <5>2. view'.tasks = b.tasks /\ view'.sidecars = b.sidecars
          BY <2>1, <5>1, OverlaidIs DEF ViewTyped
        <5>3. NoNewer(view, b) /\ NoNewer(b, files)
          BY <2>10, <4>2, <5>1, TickReadyIs DEF NotOlder
        <5> QED
          BY <5>2, <5>3 DEF NoNewer
      <4> QED
        BY <2>10, <4>1, <4>2, TickReadyIs
    <3> QED
      BY <3>1, <3>2 DEF NotOlder
  <2>11. CASE WorkerStep
    <3>1. UNCHANGED <<files, view, refresh>>
      BY <2>11, WorkerIs
    <3>2. CASE /\ worker'.mirror = worker.mirror
               /\ worker'.pc # "replied"
               /\ worker'.stamps = Stamps(files)
      BY <2>0, <2>1, <3>1, <3>2 DEF NotOlder
    <3>3. CASE /\ worker.pc \in {"stamped", "loading"}
               /\ worker'.stamps = worker.stamps
               /\ \A b \in worker'.mirror : Stamps(b) = worker.stamps
      <4>1. \A b \in worker'.mirror : /\ b.tasks = worker.stamps.tasks
                                     /\ b.sidecars = worker.stamps.sidecars
        BY <2>11, <3>3, WorkerIs, StampsAre
      <4>2. \A b \in worker'.mirror :
               /\ NoNewer(b, files)
               /\ NoNewer(view, worker.stamps) => NoNewer(view, b)
        BY <4>1 DEF NotOlder, NoNewer
      <4> QED
        BY <2>0, <2>1, <3>1, <3>3, <4>2 DEF NotOlder
    <3> QED
      BY <2>11, <3>2, <3>3, WorkerIs
  <2>12. CASE UNCHANGED viewVars
    BY <2>0, <2>1, <2>12 DEF viewVars, NotOlder
  <2> QED
    BY <2>4, <2>5, <2>6, <2>8, <2>9, <2>10, <2>11, <2>12 DEF ViewNext
<1>3. ViewTyped /\ NoNewer(view, view')
         => view'.tasks >= view.tasks /\ view'.sidecars >= view.sidecars
  BY DEF NoNewer
<1> QED
  BY <1>1, <1>2, <1>3, ViewTypedAlways, PTL DEF ViewSpec, ScreenNeverGoesBack

\* "Refuse a second launch of a task whose first is still on a worker": kept
\* where each confirmation moves one card.
THEOREM OneWorkerEach ==
    ASSUME IsFiniteSet(Card), ~ BulkMoves
    PROVE  ViewSpec => []OneWorkerPerCard
<1> DEFINE OneEach == /\ \A m \in moves : m \in MoveJob /\ m.cards = {m.key}
                      /\ \A m, n \in moves : m.key = n.key => m = n
<1>1. ViewInit => OneEach
  BY DEF ViewInit
<1>2. ViewTyped /\ OneEach /\ [ViewNext]_viewVars => OneEach'
  <2> SUFFICES ASSUME ViewTyped, OneEach, [ViewNext]_viewVars PROVE OneEach'
    OBVIOUS
  <2>1. ASSUME moves' \subseteq moves PROVE OneEach'
    BY <2>1
  <2>2. CASE UserMoves
    <3>1. PICK to \in Column, cards \in SUBSET Card \ {{}} :
             Cardinality(cards) = 1 /\ MoveCards(cards, to)
      BY <2>2 DEF UserMoves
    <3>2. PICK key \in cards : moves' = moves \cup {Move(key, cards, to)}
      BY <3>1 DEF MoveCards
    <3>3. cards = {key}
      <4>1. IsFiniteSet(cards)
        BY FS_Subset
      <4> QED
        BY <3>1, <3>2, <4>1, FS_Singleton
    <3>4. \A m \in moves : m.key # key
      BY <3>1, <3>2 DEF MoveCards, Busy
    <3>5. /\ Move(key, cards, to) \in MoveJob
          /\ Move(key, cards, to).key = key
          /\ Move(key, cards, to).cards = cards
      BY <3>2 DEF Move, MoveJob
    <3> QED
      BY <3>2, <3>3, <3>4, <3>5
  <2>3. ASSUME NEW m \in moves, MoveRuns(m) PROVE OneEach'
    <3> DEFINE n == [m EXCEPT !.done = TRUE]
    <3>1. n \in MoveJob /\ n.key = m.key /\ n.cards = m.cards
      BY DEF MoveJob
    <3>2. moves' = (moves \ {m}) \cup {n}
      BY <2>3 DEF MoveRuns
    <3> HIDE DEF n
    <3> QED
      BY <3>1, <3>2
  <2> QED
    BY <2>1, <2>2, <2>3, SettleIs, TickReadyIs, WorkerIs
    DEF ViewNext, EditFiles, LaunchDone, TickView, TickReady, viewVars
<1>3. OneEach => OneWorkerPerCard
  BY DEF OneWorkerPerCard
<1>4. ViewSpec => []ViewTyped
  BY ViewTypedAlways
<1> QED
  BY <1>1, <1>2, <1>3, <1>4, PTL DEF ViewSpec

-----------------------------------------------------------------------------
(* The work folder: the history of commits.                                *)

IsTree(x) == x = [f \in File |-> x[f]]
Within(x, y) == \A f \in File : x[f] \subseteq y[f]

LEMMA WithinBoth ==
  ASSUME NEW x, NEW y, NEW z, Within(x, y), Within(y, z)
  PROVE  Within(x, z)
BY DEF Within

IsSeq(s) == \E S : s \in Seq(S)

\* Commits name older ones, all but the first name it, and what an ancestor
\* holds a commit holds.
History(log) ==
    /\ IsSeq(log) /\ Len(log) \in Nat \ {0}
    /\ \A f \in File : log[1].tree[f] = {}
    /\ log[1].past = {}
    /\ \A c \in 1 .. Len(log) :
          /\ c # 1 => 1 \in log[c].past
          /\ log[c].past \subseteq 1 .. Len(log)
          /\ \A d \in log[c].past : Within(log[d].tree, log[c].tree)

\* Nothing of the old log changes in the new one.
Grown(old, new) ==
    /\ Len(old) \in Nat /\ Len(new) \in Nat /\ Len(old) <= Len(new)
    /\ \A c \in 1 .. Len(old) : new[c] = old[c]

LEMMA AppendedSeq ==
  ASSUME NEW s, IsSeq(s), NEW e
  PROVE  /\ IsSeq(Append(s, e)) /\ Len(s) \in Nat
         /\ Len(Append(s, e)) = Len(s) + 1
         /\ \A i \in 1 .. Len(s) : Append(s, e)[i] = s[i]
         /\ Append(s, e)[Len(s) + 1] = e
<1>1. PICK S : s \in Seq(S)
  BY DEF IsSeq
<1>2. s \in Seq(S \cup {e}) /\ e \in S \cup {e}
  BY <1>1
<1>3. /\ Append(s, e) \in Seq(S \cup {e}) /\ Len(s) \in Nat
      /\ Len(Append(s, e)) = Len(s) + 1
      /\ \A i \in 1 .. Len(s) : Append(s, e)[i] = s[i]
      /\ Append(s, e)[Len(s) + 1] = e
  BY <1>2
<1> QED BY <1>3 DEF IsSeq

LEMMA PutKeeps ==
  ASSUME NEW log, History(log), NEW tree, NEW parents,
         parents # {}, parents \subseteq 1 .. Len(log),
         \A c \in parents : Within(log[c].tree, tree)
  PROVE  /\ History(Put(log, tree, parents)) /\ Grown(log, Put(log, tree, parents))
         /\ Len(Put(log, tree, parents)) = Len(log) + 1
         /\ Put(log, tree, parents)[Len(log) + 1].tree = tree
         /\ \A c \in parents : c \in Put(log, tree, parents)[Len(log) + 1].past
<1> DEFINE past == UNION {Past(log, c) : c \in parents}
           new == [tree |-> tree, past |-> past]
           more == Append(log, new)
<1>1. /\ IsSeq(more) /\ Len(log) \in Nat /\ Len(more) = Len(log) + 1
      /\ \A i \in 1 .. Len(log) : more[i] = log[i]
      /\ more[Len(log) + 1] = new
  <2> HIDE DEF new
  <2> QED BY AppendedSeq DEF History
<1>2. new.tree = tree /\ new.past = past
  OBVIOUS
<1>3. 1 \in past /\ past \subseteq 1 .. Len(log)
  <2>1. \A c \in parents : 1 \in Past(log, c) /\ Past(log, c) \subseteq 1 .. Len(log)
    BY DEF History, Past
  <2> QED BY <2>1
<1>4. ASSUME NEW d \in past PROVE Within(log[d].tree, tree)
  <2>1. PICK c \in parents : d \in Past(log, c)
    OBVIOUS
  <2>2. CASE d = c
    BY <2>2
  <2>3. CASE d \in log[c].past
    <3>1. Within(log[d].tree, log[c].tree) /\ Within(log[c].tree, tree)
      BY <2>3 DEF History
    <3> QED BY <3>1, WithinBoth
  <2> QED BY <2>1, <2>2, <2>3 DEF Past
<1>5. parents \subseteq past
  BY DEF Past
<1> HIDE DEF new, past, more
<1>6. ASSUME NEW c \in 1 .. Len(more)
      PROVE  /\ c # 1 => 1 \in more[c].past
             /\ more[c].past \subseteq 1 .. Len(more)
             /\ \A d \in more[c].past : Within(more[d].tree, more[c].tree)
  <2>1. CASE c \in 1 .. Len(log)
    <3>1. more[c] = log[c] /\ log[c].past \subseteq 1 .. Len(log)
      BY <1>1, <2>1 DEF History
    <3>2. \A d \in log[c].past : more[d] = log[d]
      BY <1>1, <3>1
    <3> QED BY <1>1, <2>1, <3>1, <3>2 DEF History
  <2>2. CASE c = Len(log) + 1
    <3>1. more[c] = new
      BY <1>1, <2>2
    <3>2. \A d \in past : more[d] = log[d]
      BY <1>1, <1>3
    <3>3. more[c].past = past /\ more[c].tree = tree
      BY <1>2, <3>1
    <3>4. past \subseteq 1 .. Len(more)
      BY <1>1, <1>3
    <3>5. \A d \in past : Within(more[d].tree, tree)
      BY <1>4, <3>2
    <3> QED BY <1>3, <3>3, <3>4, <3>5
  <2> QED BY <1>1, <2>1, <2>2
<1>7. History(more)
  BY <1>1, <1>6 DEF History
<1>8. Grown(log, more)
  BY <1>1 DEF Grown
<1>9. Put(log, tree, parents) = more
  BY DEF Put, more, new, past
<1> QED BY <1>1, <1>2, <1>5, <1>7, <1>8, <1>9

\* The merge base is a common ancestor.
LEMMA BaseIs ==
  ASSUME NEW log, History(log), NEW a \in 1 .. Len(log), NEW b \in 1 .. Len(log)
  PROVE  Base(log, a, b) \in Past(log, a) /\ Base(log, a, b) \in Past(log, b)
<1> DEFINE T == Past(log, a) \cap Past(log, b)
<1>1. /\ T \subseteq Int /\ 1 \in T /\ Len(log) \in Int
      /\ \A x \in T : x <= Len(log)
  BY DEF Past, History
<1>2. Max(T) \in T
  <2> HIDE DEF T
  <2> QED BY <1>1, GreatestOne
<1> QED BY <1>2 DEF Base

LEMMA PastWithin ==
  ASSUME NEW log, History(log), NEW a \in 1 .. Len(log), NEW d \in Past(log, a)
  PROVE  d \in 1 .. Len(log) /\ Within(log[d].tree, log[a].tree)
BY DEF Past, History, Within

\* A merge holds both sides, conflicts included.
LEMMA MergeHolds ==
  ASSUME NEW log, History(log), NEW a \in 1 .. Len(log), NEW b \in 1 .. Len(log)
  PROVE  /\ IsTree(MergeOf(log, a, b).tree)
         /\ Within(log[a].tree, MergeOf(log, a, b).tree)
         /\ Within(log[b].tree, MergeOf(log, a, b).tree)
<1> DEFINE base == log[Base(log, a, b)].tree
           ours == log[a].tree
           theirs == log[b].tree
           m == Merged(base, ours, theirs)
<1>1. Within(base, ours) /\ Within(base, theirs)
  BY BaseIs, PastWithin
<1>2. m = MergeOf(log, a, b)
  BY DEF MergeOf
<1> HIDE DEF base, ours, theirs
<1>3. /\ IsTree(m.tree)
      /\ \A f \in File :
            m.tree[f] = IF ours[f] # base[f] /\ theirs[f] # base[f] /\ ours[f] # theirs[f]
                        THEN ours[f] \union theirs[f]
                        ELSE IF ours[f] = base[f] THEN theirs[f] ELSE ours[f]
  BY DEF Merged, IsTree
<1> HIDE DEF m
<1>4. Within(ours, m.tree) /\ Within(theirs, m.tree)
  BY <1>1, <1>3 DEF Within
<1> QED BY <1>2, <1>3, <1>4 DEF ours, theirs

\* A snapshot of the folder is a commit that holds the folder.
LEMMA SnapshotIs ==
  ASSUME NEW log, History(log), NEW parent \in 1 .. Len(log),
         Within(log[parent].tree, folder), IsTree(folder)
  PROVE  LET new == Snapped(log, parent)
             w   == FolderCommit(log, parent)
         IN  /\ History(new) /\ Grown(log, new)
             /\ w \in 1 .. Len(new) /\ new[w].tree = folder
             /\ parent \in Past(new, w)
<1>1. Len(log) \in Nat
  BY DEF History
<1>2. CASE log[parent].tree = folder
  <2>1. Snapped(log, parent) = log /\ FolderCommit(log, parent) = parent
    BY <1>2 DEF Snapped, FolderCommit
  <2> QED BY <1>1, <1>2, <2>1 DEF Grown, Past
<1>3. CASE log[parent].tree # folder
  <2>1. /\ Snapped(log, parent) = Put(log, folder, {parent})
        /\ FolderCommit(log, parent) = Len(log) + 1
    BY <1>3 DEF Snapped, FolderCommit
  <2>2. /\ History(Put(log, folder, {parent})) /\ Grown(log, Put(log, folder, {parent}))
        /\ Len(Put(log, folder, {parent})) = Len(log) + 1
        /\ Put(log, folder, {parent})[Len(log) + 1].tree = folder
        /\ parent \in Put(log, folder, {parent})[Len(log) + 1].past
    BY PutKeeps
  <2>3. Len(log) + 1 \in 1 .. Len(log) + 1
    BY <1>1
  <2> QED BY <2>1, <2>2, <2>3 DEF Past
<1> QED BY <1>2, <1>3

-----------------------------------------------------------------------------
(* The invariant.                                                          *)

JobFields == {"status", "integration", "run", "resolvers", "toPerson", "spent",
              "isolated", "branch", "exists", "dir"}
DirFields == {"tree", "unmerged", "onto"}

\* A checkout holds what its branch holds, and the commit it merges.
JobOK(j, log) ==
    /\ DOMAIN j = JobFields /\ DOMAIN j.dir = DirFields
    /\ IsTree(j.dir.tree)
    /\ j.branch \in 0 .. Len(log) /\ j.dir.onto \in 0 .. Len(log)
    /\ j.exists =>
          /\ j.branch # 0
          /\ Within(log[j.branch].tree, j.dir.tree)
          /\ j.dir.onto # 0 => Within(log[j.dir.onto].tree, j.dir.tree)

JobsOK ==
    /\ jobs = [t \in Task |-> jobs[t]]
    /\ \A t \in Task : JobOK(jobs[t], commits)

RefOK ==
    /\ ref \in 0 .. Len(commits)
    /\ ref # 0 => Within(commits[ref].tree, folder)

\* The snapshot of a landing is on top of the ref and holds nothing the folder
\* does not; what is to be written holds both sides; what was written, or need
\* not be, is in the folder.
SnapshotOK ==
    /\ landing.w \in 1 .. Len(commits)
    /\ Within(commits[landing.w].tree, folder)
    /\ ref = 0 \/ ref \in Past(commits, landing.w)

ResultOK ==
    /\ IsTree(landing.tree)
    /\ Within(commits[landing.w].tree, landing.tree)
    /\ Within(commits[jobs[landing.of].branch].tree, landing.tree)
    /\ \A f \in File \ landing.left : landing.tree[f] \subseteq folder[f]

LandingOK ==
    /\ DOMAIN landing = DOMAIN NoLanding
    /\ landing.pc # "free" => landing.of \in Task /\ jobs[landing.of].exists
    /\ landing.pc \in {"merge", "check", "write", "conflict", "record"} => SnapshotOK
    /\ landing.pc \in {"check", "write"} => ResultOK
    /\ landing.pc = "write" =>
          \A f \in File \cap landing.left : folder[f] \subseteq landing.tree[f]

LandInv == History(commits) /\ IsTree(folder) /\ RefOK /\ JobsOK /\ LandingOK

FolderGrows == Within(folder, folder')

LEMMA WithinItself ==
  ASSUME NEW x
  PROVE  Within(x, x)
BY DEF Within

LEMMA JobGrown ==
  ASSUME NEW log, NEW new, Grown(log, new), NEW j, JobOK(j, log)
  PROVE  JobOK(j, new)
<1>1. /\ Len(log) \in Nat /\ Len(new) \in Nat /\ Len(log) <= Len(new)
      /\ \A c \in 1 .. Len(log) : new[c] = log[c]
  BY DEF Grown
<1>2. j.branch \in 0 .. Len(new) /\ j.dir.onto \in 0 .. Len(new)
  BY <1>1 DEF JobOK
<1>3. j.branch # 0 => new[j.branch] = log[j.branch]
  BY <1>1 DEF JobOK
<1>4. j.dir.onto # 0 => new[j.dir.onto] = log[j.dir.onto]
  BY <1>1 DEF JobOK
<1> QED BY <1>2, <1>3, <1>4 DEF JobOK

LEMMA RefGrown ==
  ASSUME History(commits), RefOK, UNCHANGED ref, Grown(commits, commits'), FolderGrows
  PROVE  RefOK'
<1>1. /\ Len(commits) \in Nat /\ Len(commits') \in Nat /\ Len(commits) <= Len(commits')
      /\ \A c \in 1 .. Len(commits) : commits'[c] = commits[c]
  BY DEF Grown
<1>2. ref' \in 0 .. Len(commits')
  BY <1>1 DEF RefOK
<1>3. ASSUME ref # 0 PROVE Within(commits'[ref].tree, folder')
  <2>1. commits'[ref] = commits[ref] /\ Within(commits[ref].tree, folder)
    BY <1>1, <1>3 DEF RefOK
  <2> QED BY <2>1, WithinBoth DEF FolderGrows
<1> QED BY <1>2, <1>3 DEF RefOK

LEMMA GrownItself ==
  ASSUME NEW log, History(log)
  PROVE  Grown(log, log)
BY DEF History, Grown

\* One job changes, and nothing a landing in progress rests on.
LEMMA JobChanges ==
  ASSUME LandInv, NEW t \in Task, NEW k, JobOK(k, commits),
         jobs' = [jobs EXCEPT ![t] = k], UNCHANGED <<folder, commits, ref>>,
         \/ landing' = NoLanding
         \/ /\ landing' = landing
            /\ \/ LockIsFree \/ t # landing.of
               \/ k.branch = jobs[t].branch /\ k.exists = jobs[t].exists
  PROVE  LandInv' /\ FolderGrows
<1>1. /\ jobs'[t] = k /\ \A u \in Task : u # t => jobs'[u] = jobs[u]
      /\ jobs' = [u \in Task |-> jobs'[u]]
  BY DEF LandInv, JobsOK
<1>2. JobsOK'
  <2>1. \A u \in Task : JobOK(jobs'[u], commits)
    BY <1>1 DEF LandInv, JobsOK
  <2> QED BY <1>1, <2>1 DEF JobsOK
<1>3. History(commits)' /\ IsTree(folder)' /\ RefOK'
  BY DEF LandInv, RefOK, History, IsTree
<1>4. FolderGrows
  BY WithinItself DEF FolderGrows
<1>5. CASE landing' = NoLanding
  <2>1. LandingOK'
    BY <1>5 DEF LandingOK, NoLanding
  <2> QED BY <1>2, <1>3, <1>4, <2>1 DEF LandInv
<1>6. CASE landing' = landing /\ LockIsFree
  <2>1. LandingOK'
    BY <1>6 DEF LandInv, LandingOK, LockIsFree
  <2> QED BY <1>2, <1>3, <1>4, <2>1 DEF LandInv
<1>7. CASE landing' = landing /\ ~ LockIsFree
  <2>1. /\ landing.of \in Task
        /\ jobs'[landing.of].exists = jobs[landing.of].exists
        /\ jobs'[landing.of].branch = jobs[landing.of].branch
    <3>1. landing.of \in Task
      BY <1>7 DEF LandInv, LandingOK, LockIsFree
    <3>2. CASE t = landing.of
      <4>1. k.branch = jobs[t].branch /\ k.exists = jobs[t].exists
        BY <1>7, <3>2 DEF LockIsFree, NoLanding
      <4> QED BY <1>1, <3>1, <3>2, <4>1
    <3>3. CASE t # landing.of
      BY <1>1, <3>1, <3>3
    <3> QED BY <3>2, <3>3, <3>1
  <2>2. LandingOK'
    BY <1>7, <2>1 DEF LandInv, LandingOK, SnapshotOK, ResultOK, Past
  <2> QED BY <1>2, <1>3, <1>4, <2>2 DEF LandInv
<1> QED BY <1>5, <1>6, <1>7

\* The folder grows where no landing writes.
LEMMA FolderChanges ==
  ASSUME LandInv, IsTree(folder)', FolderGrows, landing.pc # "write",
         UNCHANGED <<commits, ref, jobs, landing>>
  PROVE  LandInv'
<1>1. RefOK'
  BY RefGrown, GrownItself DEF LandInv
<1>2. History(commits)' /\ JobsOK'
  BY DEF LandInv, History, JobsOK
<1>3. SnapshotOK => SnapshotOK'
  BY WithinBoth DEF FolderGrows, SnapshotOK, Past
<1>4. ResultOK => ResultOK'
  BY DEF FolderGrows, ResultOK, Within
<1>5. LandingOK'
  BY <1>3, <1>4 DEF LandInv, LandingOK
<1> QED BY <1>1, <1>2, <1>5 DEF LandInv

-----------------------------------------------------------------------------
(* The records.                                                            *)

\* Whoever touches neither the checkout nor the branch.
SameWork(j, k) ==
    /\ DOMAIN k = JobFields
    /\ k.dir = j.dir /\ k.branch = j.branch /\ k.exists = j.exists

LEMMA SameWorkOK ==
  ASSUME NEW log, NEW j, JobOK(j, log), NEW k, SameWork(j, k)
  PROVE  JobOK(k, log)
BY DEF JobOK, SameWork

LEMMA TaskOK ==
  ASSUME LandInv, NEW t \in Task
  PROVE  JobOK(jobs[t], commits) /\ DOMAIN jobs[t] = JobFields
BY DEF LandInv, JobsOK, JobOK

\* A step that changes fields of one record.
LEMMA FieldsChange ==
  ASSUME LandInv, NEW t \in Task, NEW k, SameWork(jobs[t], k),
         jobs' = [jobs EXCEPT ![t] = k], UNCHANGED <<folder, commits, ref>>,
         landing' = NoLanding \/ landing' = landing
  PROVE  LandInv' /\ FolderGrows
<1>1. JobOK(k, commits)
  BY TaskOK, SameWorkOK
<1>2. k.branch = jobs[t].branch /\ k.exists = jobs[t].exists
  BY DEF SameWork
<1> QED BY <1>1, <1>2, JobChanges

NoDirIs == NoDir.onto = 0 /\ DOMAIN NoDir = DirFields /\ IsTree(NoDir.tree)

LEMMA EmptyDir == NoDirIs
BY DEF NoDirIs, NoDir, DirFields, IsTree

LEMMA ClearedOK ==
  ASSUME NEW log, Len(log) \in Nat, NEW j, JobOK(j, log), NEW unmerged
  PROVE  JobOK(Cleared(j, unmerged), log)
<1>1. NoDir.onto = 0 /\ DOMAIN NoDir = DirFields /\ IsTree(NoDir.tree)
  BY EmptyDir DEF NoDirIs
<1>2. CASE j.integration = "conflict" \/ ~ j.isolated
  BY <1>2 DEF Cleared
<1> DEFINE k == [j EXCEPT !.isolated = FALSE, !.exists = FALSE, !.branch = 0, !.dir = NoDir]
           l == [j EXCEPT !.exists = FALSE, !.dir = NoDir]
<1>3. JobOK(k, log)
  <2>1. /\ DOMAIN k = JobFields /\ k.dir = NoDir /\ k.branch = 0 /\ k.exists = FALSE
    BY DEF JobOK, JobFields
  <2> HIDE DEF k
  <2> QED BY <1>1, <2>1 DEF JobOK
<1>4. JobOK(l, log)
  <2>1. /\ DOMAIN l = JobFields /\ l.dir = NoDir /\ l.branch = j.branch
        /\ l.exists = FALSE
    BY DEF JobOK, JobFields
  <2> HIDE DEF l
  <2> QED BY <1>1, <2>1 DEF JobOK
<1>5. Cleared(j, unmerged) \in {j, k, l}
  BY DEF Cleared
<1> QED BY <1>3, <1>4, <1>5

LEMMA ClosedSame ==
  ASSUME NEW j, DOMAIN j = JobFields
  PROVE  SameWork(j, Closed(j)) /\ Closed(j).integration = j.integration
BY DEF SameWork, Closed, JobFields

-----------------------------------------------------------------------------
(* People, agents and runs.                                                *)

LEMMA AddsToTree ==
  ASSUME NEW x, IsTree(x), NEW f \in File, NEW e
  PROVE  LET y == [x EXCEPT ![f] = @ \cup {e}]
         IN  IsTree(y) /\ Within(x, y)
BY DEF IsTree, Within

LEMMA PersonEditsKeeps ==
  ASSUME PeopleWait, LandInv, NEW f \in File, PersonEdits(f)
  PROVE  LandInv' /\ FolderGrows
<1>1. /\ folder' = [folder EXCEPT ![f] = @ \cup {NewEdit(f, "folder")}]
      /\ landing.pc # "write" /\ UNCHANGED <<commits, ref, jobs, landing>>
  BY DEF PersonEdits
<1>2. IsTree(folder') /\ Within(folder, folder')
  BY <1>1, AddsToTree DEF LandInv
<1>3. IsTree(folder)' /\ FolderGrows
  BY <1>2 DEF IsTree, FolderGrows
<1> QED BY <1>1, <1>3, FolderChanges

LEMMA AgentEditsKeeps ==
  ASSUME PeopleWait, LandInv, NEW t \in Task, NEW f \in File, AgentEdits(t, f)
  PROVE  LandInv' /\ FolderGrows
<1>1. PICK e : \/ /\ jobs' = [jobs EXCEPT ![t].dir.tree[f] = @ \cup {e}]
                  /\ UNCHANGED folder
               \/ /\ landing.pc # "write"
                  /\ folder' = [folder EXCEPT ![f] = @ \cup {e}]
                  /\ UNCHANGED jobs
  BY DEF AgentEdits
<1>2. landing.of # t /\ UNCHANGED <<commits, ref, landing>>
  BY DEF AgentEdits
<1>3. CASE /\ jobs' = [jobs EXCEPT ![t].dir.tree[f] = @ \cup {e}]
           /\ UNCHANGED folder
  <2> DEFINE j == jobs[t]
             tree == [j.dir.tree EXCEPT ![f] = @ \cup {e}]
             dir == [j.dir EXCEPT !.tree = tree]
             k == [j EXCEPT !.dir = dir]
  <2>1. jobs' = [jobs EXCEPT ![t] = k]
    BY <1>3 DEF LandInv, JobsOK
  <2>2. JobOK(j, commits)
    BY TaskOK
  <2>3. IsTree(tree) /\ Within(j.dir.tree, tree)
    <3> DEFINE x == j.dir.tree
    <3>1. IsTree(x)
      BY <2>2 DEF JobOK
    <3> HIDE DEF x
    <3> QED BY <3>1, AddsToTree DEF x
  <2> HIDE DEF j, tree
  <2>4. DOMAIN dir = DirFields /\ dir.tree = tree /\ dir.onto = j.dir.onto
    BY <2>2 DEF JobOK, DirFields
  <2> HIDE DEF dir
  <2>5. /\ DOMAIN k = JobFields /\ k.dir = dir /\ k.branch = j.branch
        /\ k.exists = j.exists
    BY <2>2 DEF JobOK, JobFields
  <2> HIDE DEF k
  <2>6. JobOK(k, commits)
    BY <2>2, <2>3, <2>4, <2>5, WithinBoth DEF JobOK
  <2> QED BY <1>2, <1>3, <2>1, <2>6, JobChanges
<1>4. CASE /\ landing.pc # "write"
           /\ folder' = [folder EXCEPT ![f] = @ \cup {e}]
           /\ UNCHANGED jobs
  <2>1. IsTree(folder') /\ Within(folder, folder')
    BY <1>4, AddsToTree DEF LandInv
  <2>2. IsTree(folder)' /\ FolderGrows
    BY <2>1 DEF IsTree, FolderGrows
  <2> QED BY <1>2, <1>4, <2>2, FolderChanges
<1> QED BY <1>1, <1>3, <1>4

LEMMA ResolveKeeps ==
  ASSUME LandInv, NEW t \in Task, NEW f \in File, Resolve(t, f)
  PROVE  LandInv' /\ FolderGrows
<1> DEFINE j == jobs[t]
           dir == [j.dir EXCEPT !.unmerged = @ \ {f}]
           k == [j EXCEPT !.dir = dir]
<1>1. /\ jobs' = [jobs EXCEPT ![t] = k] /\ landing.of # t
      /\ UNCHANGED <<folder, commits, ref, landing>>
  BY DEF Resolve, LandInv, JobsOK
<1>2. JobOK(j, commits)
  BY TaskOK
<1> HIDE DEF j
<1>3. DOMAIN dir = DirFields /\ dir.tree = j.dir.tree /\ dir.onto = j.dir.onto
  BY <1>2 DEF JobOK, DirFields
<1> HIDE DEF dir
<1>4. DOMAIN k = JobFields /\ k.dir = dir /\ k.branch = j.branch /\ k.exists = j.exists
  BY <1>2 DEF JobOK, JobFields
<1> HIDE DEF k
<1>5. JobOK(k, commits)
  BY <1>2, <1>3, <1>4 DEF JobOK
<1> QED BY <1>1, <1>5, JobChanges

\* The checkout becomes a commit on its branch.
LEMMA TipKeeps ==
  ASSUME LandInv, NEW t \in Task, jobs[t].exists
  PROVE  LET new == Tip(commits, jobs[t])
             k   == OnTip(commits, jobs[t])
         IN  /\ History(new) /\ Grown(commits, new)
             /\ JobOK(k, new) /\ k.exists /\ k.branch = Len(commits) + 1
             /\ new[k.branch].tree = jobs[t].dir.tree
<1> DEFINE j == jobs[t]
           new == Tip(commits, j)
           dir == [j.dir EXCEPT !.onto = 0]
           k == [j EXCEPT !.branch = Len(commits) + 1, !.dir = dir]
<1>1. JobOK(j, commits) /\ j.exists
  BY TaskOK
<1>2. k = OnTip(commits, j)
  BY <1>1 DEF OnTip, JobOK, JobFields, DirFields
<1> HIDE DEF j
<1>3. /\ TipParents(j) # {} /\ TipParents(j) \subseteq 1 .. Len(commits)
      /\ \A c \in TipParents(j) : Within(commits[c].tree, j.dir.tree)
  BY <1>1 DEF JobOK, TipParents
<1>4. /\ History(new) /\ Grown(commits, new) /\ Len(new) = Len(commits) + 1
      /\ new[Len(commits) + 1].tree = j.dir.tree
  BY <1>3, PutKeeps DEF Tip, LandInv
<1> HIDE DEF new
<1>5. DOMAIN dir = DirFields /\ dir.tree = j.dir.tree /\ dir.onto = 0
  BY <1>1 DEF JobOK, DirFields
<1> HIDE DEF dir
<1>6. /\ DOMAIN k = JobFields /\ k.dir = dir /\ k.branch = Len(commits) + 1
      /\ k.exists
  BY <1>1 DEF JobOK, JobFields
<1> HIDE DEF k
<1>7. JobOK(k, new)
  <2>1. IsTree(dir.tree) /\ Len(commits) \in Nat
    BY <1>1, <1>5 DEF JobOK, LandInv, History
  <2>2. Within(new[k.branch].tree, dir.tree)
    BY <1>4, <1>5, <1>6, WithinItself
  <2> QED BY <1>4, <1>5, <1>6, <2>1, <2>2 DEF JobOK
<1> QED BY <1>2, <1>4, <1>6, <1>7 DEF j, new

\* Commits are added; one job moves along.
LEMMA CommitsAdded ==
  ASSUME LandInv, NEW t \in Task, NEW k, Grown(commits, commits'), History(commits'),
         JobOK(k, commits'), jobs' = [jobs EXCEPT ![t] = k],
         UNCHANGED folder
  PROVE  JobsOK' /\ FolderGrows
<1>1. /\ jobs'[t] = k /\ \A u \in Task : u # t => jobs'[u] = jobs[u]
      /\ jobs' = [u \in Task |-> jobs'[u]]
  BY DEF LandInv, JobsOK
<1>2. \A u \in Task : JobOK(jobs'[u], commits')
  BY <1>1, JobGrown, TaskOK
<1> QED BY <1>1, <1>2, WithinItself DEF JobsOK, FolderGrows

LEMMA AgentCommitsKeeps ==
  ASSUME LandInv, NEW t \in Task, AgentCommits(t)
  PROVE  LandInv' /\ FolderGrows
<1> DEFINE k == OnTip(commits, jobs[t])
<1>1. /\ commits' = Tip(commits, jobs[t]) /\ jobs' = [jobs EXCEPT ![t] = k]
      /\ jobs[t].exists /\ landing.of # t /\ UNCHANGED <<folder, ref, landing>>
  BY DEF AgentCommits
<1>2. /\ History(commits') /\ Grown(commits, commits') /\ JobOK(k, commits')
  BY <1>1, TipKeeps
<1> HIDE DEF k
<1>3. JobsOK' /\ FolderGrows
  BY <1>1, <1>2, CommitsAdded
<1>4. RefOK' /\ History(commits)'
  BY <1>1, <1>2, <1>3, RefGrown DEF LandInv, History
<1>5. \A c \in 1 .. Len(commits) : commits'[c] = commits[c] /\ c \in 1 .. Len(commits')
  BY <1>2 DEF Grown
<1>6. SnapshotOK => SnapshotOK'
  BY <1>1, <1>5 DEF SnapshotOK, Past
<1>7. ASSUME landing.of \in Task
      PROVE  /\ jobs'[landing.of] = jobs[landing.of]
             /\ jobs[landing.of].exists =>
                  commits'[jobs[landing.of].branch] = commits[jobs[landing.of].branch]
  <2>1. jobs'[landing.of] = jobs[landing.of]
    BY <1>1, <1>7 DEF LandInv, JobsOK
  <2>2. jobs[landing.of].exists => jobs[landing.of].branch \in 1 .. Len(commits)
    BY <1>7, TaskOK DEF JobOK
  <2> QED BY <1>5, <2>1, <2>2
<1>8. /\ landing.of \in Task /\ jobs[landing.of].exists /\ SnapshotOK /\ ResultOK
      => ResultOK'
  BY <1>1, <1>5, <1>7 DEF SnapshotOK, ResultOK
<1>9. LandingOK'
  BY <1>1, <1>6, <1>7, <1>8 DEF LandInv, LandingOK
<1> QED BY <1>1, <1>2, <1>3, <1>4, <1>9 DEF LandInv, IsTree

LEMMA StartKeeps ==
  ASSUME LandInv, NEW t \in Task, Start(t)
  PROVE  LandInv' /\ FolderGrows
<1> DEFINE k == [Claimed(jobs[t]) EXCEPT !.spent = IF jobs[t].status = "review" THEN 0 ELSE @]
<1>1. SameWork(jobs[t], k)
  BY TaskOK DEF SameWork, Claimed, JobFields
<1>2. jobs' = [jobs EXCEPT ![t] = k] /\ UNCHANGED <<folder, commits, ref, landing>>
  BY DEF Start
<1> HIDE DEF k
<1> QED BY <1>1, <1>2, FieldsChange

LEMMA SweepKeeps ==
  ASSUME LandInv, NEW t \in Task, Sweep(t)
  PROVE  LandInv' /\ FolderGrows
<1> DEFINE k == [jobs[t] EXCEPT !.resolvers = @ \union {"sweep"}]
<1>1. SameWork(jobs[t], k)
  BY TaskOK DEF SameWork, JobFields
<1>2. jobs' = [jobs EXCEPT ![t] = k] /\ UNCHANGED <<folder, commits, ref, landing>>
  BY DEF Sweep, LandInv, JobsOK
<1> HIDE DEF k
<1> QED BY <1>1, <1>2, FieldsChange

LEMMA RunResolverKeeps ==
  ASSUME LandInv, NEW t \in Task, NEW by, RunResolver(t, by)
  PROVE  LandInv' /\ FolderGrows
<1> DEFINE k == [Claimed(jobs[t]) EXCEPT !.resolvers = @ \ {by},
                                         !.spent = IF @ < MaxResolver THEN @ + 1 ELSE @]
<1>1. SameWork(jobs[t], k)
  BY TaskOK DEF SameWork, Claimed, JobFields
<1>2. jobs' = [jobs EXCEPT ![t] = k] /\ UNCHANGED <<folder, commits, ref, landing>>
  BY DEF RunResolver
<1> HIDE DEF k
<1> QED BY <1>1, <1>2, FieldsChange

LEMMA ResolverNotSentKeeps ==
  ASSUME LandInv, NEW t \in Task, NEW by, ResolverNotSent(t, by)
  PROVE  LandInv' /\ FolderGrows
<1> DEFINE k == [jobs[t] EXCEPT !.resolvers = @ \ {by}, !.toPerson = TRUE]
<1>1. SameWork(jobs[t], k)
  BY TaskOK DEF SameWork, JobFields
<1>2. jobs' = [jobs EXCEPT ![t] = k] /\ UNCHANGED <<folder, commits, ref, landing>>
  BY DEF ResolverNotSent, LandInv, JobsOK
<1> HIDE DEF k
<1> QED BY <1>1, <1>2, FieldsChange

LEMMA ReuseWorktreeKeeps ==
  ASSUME LandInv, NEW t \in Task, ReuseWorktree(t)
  PROVE  LandInv' /\ FolderGrows
<1> DEFINE k == [jobs[t] EXCEPT !.run = "live"]
<1>1. SameWork(jobs[t], k)
  BY TaskOK DEF SameWork, JobFields
<1>2. jobs' = [jobs EXCEPT ![t] = k] /\ UNCHANGED <<folder, commits, ref, landing>>
  BY DEF ReuseWorktree, LandInv, JobsOK
<1> HIDE DEF k
<1> QED BY <1>1, <1>2, FieldsChange

LEMMA RunEndsKeeps ==
  ASSUME LandInv, NEW t \in Task, RunEnds(t)
  PROVE  LandInv' /\ FolderGrows
<1> DEFINE k == [jobs[t] EXCEPT !.run = "none", !.toPerson = TRUE]
<1>1. SameWork(jobs[t], k)
  BY TaskOK DEF SameWork, JobFields
<1>2. jobs' = [jobs EXCEPT ![t] = k] /\ UNCHANGED <<folder, commits, ref, landing>>
  BY DEF RunEnds, LandInv, JobsOK
<1> HIDE DEF k
<1> QED BY <1>1, <1>2, FieldsChange

\* A landing takes a task that has its checkout.
LEMMA TakesKeeps ==
  ASSUME LandInv, NEW t \in Task, NEW byDone, jobs[t].exists, Takes(t, byDone)
  PROVE  LandInv' /\ FolderGrows
<1>1. /\ landing' = [NoLanding EXCEPT !.pc = "begin", !.of = t, !.done = byDone]
      /\ UNCHANGED <<folder, commits, ref, jobs>>
  BY DEF Takes
<1>2. /\ landing'.pc = "begin" /\ landing'.of = t
      /\ DOMAIN landing' = DOMAIN NoLanding
  BY <1>1 DEF NoLanding
<1>3. LandingOK'
  BY <1>1, <1>2 DEF LandingOK
<1>4. RefOK' /\ JobsOK' /\ History(commits)' /\ IsTree(folder)'
  BY <1>1 DEF LandInv, RefOK, JobsOK, History, IsTree
<1> QED BY <1>1, <1>3, <1>4, WithinItself DEF LandInv, FolderGrows

LEMMA DoneKeeps ==
  ASSUME LandInv, NEW t \in Task, Done(t)
  PROVE  LandInv' /\ FolderGrows
<1>1. CASE jobs[t].isolated /\ jobs[t].exists
  BY <1>1, TakesKeeps DEF Done
<1>2. CASE ~ (jobs[t].isolated /\ jobs[t].exists)
  <2> DEFINE k == [jobs[t] EXCEPT !.status = "review", !.run = "none"]
  <2>1. SameWork(jobs[t], k)
    BY TaskOK DEF SameWork, JobFields
  <2>2. jobs' = [jobs EXCEPT ![t] = k] /\ UNCHANGED <<folder, commits, ref, landing>>
    BY <1>2 DEF Done, LandInv, JobsOK
  <2> HIDE DEF k
  <2> QED BY <2>1, <2>2, FieldsChange
<1> QED BY <1>1, <1>2

LEMMA IntegrateKeeps ==
  ASSUME LandInv, NEW t \in Task, Integrate(t)
  PROVE  LandInv' /\ FolderGrows
BY TakesKeeps DEF Integrate

LEMMA CleanUpKeeps ==
  ASSUME LandInv, NEW t \in Task, CleanUp(t)
  PROVE  LandInv' /\ FolderGrows
<1> DEFINE k == Cleared(jobs[t], FALSE)
<1>1. /\ jobs' = [jobs EXCEPT ![t] = k] /\ LockIsFree
      /\ UNCHANGED <<folder, commits, ref, landing>>
  BY DEF CleanUp
<1>2. JobOK(k, commits)
  BY TaskOK, ClearedOK DEF LandInv, History
<1> HIDE DEF k
<1> QED BY <1>1, <1>2, JobChanges

LEMMA AcceptKeeps ==
  ASSUME LandInv, NEW t \in Task, Accept(t)
  PROVE  LandInv' /\ FolderGrows
<1> DEFINE j == Cleared(jobs[t], TRUE)
           k == [j EXCEPT !.status = "done"]
<1>1. /\ jobs' = [jobs EXCEPT ![t] = k] /\ LockIsFree
      /\ UNCHANGED <<folder, commits, ref, landing>>
  BY DEF Accept
<1>2. JobOK(j, commits)
  BY TaskOK, ClearedOK DEF LandInv, History
<1> HIDE DEF j
<1>3. SameWork(j, k)
  BY <1>2 DEF SameWork, JobOK, JobFields
<1> HIDE DEF k
<1>4. JobOK(k, commits)
  BY <1>2, <1>3, SameWorkOK
<1> QED BY <1>1, <1>4, JobChanges

LEMMA RefOrHeadIs ==
  ASSUME LandInv
  PROVE  /\ RefOrHead \in 1 .. Len(commits)
         /\ Within(commits[RefOrHead].tree, folder)
BY DEF LandInv, History, RefOK, RefOrHead, HeadCommit, Within

\* While nobody lands, the ref goes to a snapshot of the folder.
LEMMA RefAtSnapshot ==
  ASSUME LandInv, LockIsFree, UNCHANGED <<folder, landing>>, JobsOK',
         History(commits'), ref' \in 1 .. Len(commits'), commits'[ref'].tree = folder
  PROVE  LandInv' /\ FolderGrows
<1>1. RefOK'
  <2>1. ref' \in 0 .. Len(commits') /\ Within(commits'[ref'].tree, folder')
    BY WithinItself DEF History
  <2> QED BY <2>1 DEF RefOK
<1>2. LandingOK'
  BY DEF LandInv, LandingOK, LockIsFree
<1>3. History(commits)' /\ IsTree(folder)' /\ FolderGrows
  BY WithinItself DEF LandInv, IsTree, FolderGrows, History
<1> QED BY <1>1, <1>2, <1>3 DEF LandInv

LEMMA CreateWorktreeKeeps ==
  ASSUME LandInv, NEW t \in Task, CreateWorktree(t)
  PROVE  LandInv' /\ FolderGrows
<1> DEFINE new == Snapped(commits, RefOrHead)
           w == FolderCommit(commits, RefOrHead)
           j == jobs[t]
           dir == [NoDir EXCEPT !.tree = folder]
           k == [j EXCEPT !.run = "live", !.isolated = TRUE, !.exists = TRUE,
                          !.branch = w, !.dir = dir]
           l == [j EXCEPT !.run = "live"]
<1>1. /\ LockIsFree /\ commits' = new /\ ref' = w /\ UNCHANGED <<folder, landing>>
      /\ jobs' = [jobs EXCEPT ![t] = k] \/ jobs' = [jobs EXCEPT ![t] = l]
  BY DEF CreateWorktree, LandInv, JobsOK
<1>2. /\ History(new) /\ Grown(commits, new)
      /\ w \in 1 .. Len(new) /\ new[w].tree = folder
  BY RefOrHeadIs, SnapshotIs DEF LandInv
<1>3. JobOK(j, commits) /\ DOMAIN j = JobFields
  BY TaskOK
<1>4. JobOK(j, new)
  BY <1>2, <1>3, JobGrown
<1> HIDE DEF j, new, w
<1>5. DOMAIN dir = DirFields /\ dir.tree = folder /\ dir.onto = 0
  BY DEF NoDir, DirFields
<1> HIDE DEF dir
<1>6. DOMAIN k = JobFields /\ k.branch = w /\ k.exists /\ k.dir = dir
  BY <1>3 DEF JobFields
<1> HIDE DEF k
<1>7. JobOK(k, new)
  <2>1. IsTree(dir.tree) /\ w # 0 /\ w \in 0 .. Len(new) /\ 0 \in 0 .. Len(new)
    BY <1>2, <1>5 DEF LandInv, History
  <2>2. Within(new[w].tree, dir.tree)
    BY <1>2, <1>5, WithinItself
  <2> QED BY <1>5, <1>6, <2>1, <2>2 DEF JobOK
<1>8. SameWork(j, l)
  BY <1>3 DEF SameWork, JobFields
<1> HIDE DEF l
<1>9. JobOK(l, new)
  BY <1>4, <1>8, SameWorkOK
<1>10. JobsOK'
  BY <1>1, <1>2, <1>7, <1>9, CommitsAdded
<1> QED BY <1>1, <1>2, <1>10, RefAtSnapshot

LEMMA RebaselineKeeps ==
  ASSUME LandInv, Rebaseline
  PROVE  LandInv' /\ FolderGrows
<1> DEFINE new == Snapped(commits, HeadCommit)
           w == FolderCommit(commits, HeadCommit)
<1>1. /\ LockIsFree /\ commits' = new /\ ref' = w /\ UNCHANGED <<folder, landing, jobs>>
  BY DEF Rebaseline
<1>2. HeadCommit \in 1 .. Len(commits) /\ Within(commits[HeadCommit].tree, folder)
  BY DEF LandInv, History, HeadCommit, Within
<1>3. /\ History(new) /\ Grown(commits, new)
      /\ w \in 1 .. Len(new) /\ new[w].tree = folder
  BY <1>2, SnapshotIs DEF LandInv
<1> HIDE DEF new, w
<1>4. \A u \in Task : JobOK(jobs'[u], new)
  BY <1>1, <1>3, JobGrown, TaskOK
<1>5. JobsOK'
  BY <1>1, <1>4 DEF JobsOK, LandInv
<1> QED BY <1>1, <1>3, <1>5, RefAtSnapshot

-----------------------------------------------------------------------------
(* A landing.                                                              *)

LEMMA BeginLandingKeeps ==
  ASSUME LandInv, BeginLanding
  PROVE  LandInv' /\ FolderGrows
<1> DEFINE t == landing.of
           log == IF CommitsAll(jobs[t]) THEN Tip(commits, jobs[t]) ELSE commits
           k == IF CommitsAll(jobs[t]) THEN OnTip(commits, jobs[t]) ELSE jobs[t]
           new == Snapped(log, RefOrHead)
           w == FolderCommit(log, RefOrHead)
<1>1. /\ landing.pc = "begin" /\ commits' = new
      /\ landing' = [landing EXCEPT !.pc = "merge", !.w = w]
      /\ UNCHANGED <<folder, ref>>
  BY DEF BeginLanding
<1>2. t \in Task /\ jobs[t].exists /\ DOMAIN landing = DOMAIN NoLanding
  BY <1>1 DEF LandInv, LandingOK
<1>3. jobs' = [jobs EXCEPT ![t] = k]
  BY DEF BeginLanding, LandInv, JobsOK
<1>4. History(log) /\ Grown(commits, log) /\ JobOK(k, log) /\ k.exists
  <2>1. CASE CommitsAll(jobs[t])
    <3>1. log = Tip(commits, jobs[t]) /\ k = OnTip(commits, jobs[t])
      BY <2>1
    <3> HIDE DEF log, k, t
    <3> QED BY <1>2, <3>1, TipKeeps
  <2>2. CASE ~ CommitsAll(jobs[t])
    <3>1. log = commits /\ k = jobs[t]
      BY <2>2
    <3> HIDE DEF log, k, t
    <3> QED BY <1>2, <3>1, TaskOK, GrownItself DEF LandInv
  <2> QED BY <2>1, <2>2
<1> HIDE DEF log, k, t
<1>5. /\ RefOrHead \in 1 .. Len(log) /\ Within(log[RefOrHead].tree, folder)
  <2>1. RefOrHead \in 1 .. Len(commits) /\ Within(commits[RefOrHead].tree, folder)
    BY RefOrHeadIs
  <2> QED BY <1>4, <2>1 DEF Grown
<1>6. /\ History(new) /\ Grown(log, new)
      /\ w \in 1 .. Len(new) /\ new[w].tree = folder
      /\ RefOrHead \in Past(new, w)
  BY <1>4, <1>5, SnapshotIs DEF LandInv
<1> HIDE DEF new, w
<1>7. Grown(commits, new)
  BY <1>4, <1>6 DEF Grown
<1>8. JobOK(k, new)
  BY <1>4, <1>6, JobGrown
<1>9. JobsOK' /\ FolderGrows
  BY <1>1, <1>2, <1>3, <1>6, <1>7, <1>8, CommitsAdded
<1>10. RefOK' /\ History(commits)' /\ IsTree(folder)'
  BY <1>1, <1>6, <1>7, <1>9, RefGrown DEF LandInv, History, IsTree
<1>11. /\ landing'.pc = "merge" /\ landing'.w = w /\ landing'.of = t
       /\ DOMAIN landing' = DOMAIN NoLanding
  BY <1>1, <1>2 DEF NoLanding, t
<1>12. SnapshotOK'
  <2>1. Within(commits'[w].tree, folder')
    BY <1>1, <1>6, WithinItself
  <2>2. ref' = 0 \/ ref' \in Past(commits', w)
    BY <1>1, <1>6 DEF RefOrHead
  <2> QED BY <1>1, <1>6, <1>11, <2>1, <2>2 DEF SnapshotOK, Past
<1>13. jobs'[t].exists
  BY <1>2, <1>3, <1>4 DEF LandInv, JobsOK
<1>14. LandingOK'
  BY <1>2, <1>11, <1>12, <1>13 DEF LandingOK
<1> QED BY <1>9, <1>10, <1>14 DEF LandInv

\* Only the landing moves.
LEMMA LandingMoves ==
  ASSUME LandInv, UNCHANGED <<folder, commits, ref, jobs>>, LandingOK'
  PROVE  LandInv' /\ FolderGrows
BY WithinItself DEF LandInv, RefOK, JobsOK, History, IsTree, FolderGrows

LEMMA BranchIs ==
  ASSUME LandInv, NEW t \in Task, jobs[t].exists
  PROVE  /\ jobs[t].branch \in 1 .. Len(commits)
         /\ Within(commits[jobs[t].branch].tree, jobs[t].dir.tree)
BY TaskOK DEF JobOK, LandInv, History

LEMMA PreflightKeeps ==
  ASSUME LandInv, Preflight
  PROVE  LandInv' /\ FolderGrows
<1> DEFINE t == landing.of
           w == landing.w
           pre == MergeOf(commits, w, jobs[t].branch)
           left == {f \in File : pre.tree[f] # commits[w].tree[f]}
<1>1. /\ landing.pc = "merge" /\ UNCHANGED <<folder, commits, ref, jobs>>
      /\ landing' = [landing EXCEPT
            !.pc = IF pre.conflicts = {} THEN "check" ELSE "conflict",
            !.tree = pre.tree, !.left = left]
  BY DEF Preflight
<1>2. /\ t \in Task /\ jobs[t].exists /\ SnapshotOK
      /\ DOMAIN landing = DOMAIN NoLanding
  BY <1>1 DEF LandInv, LandingOK
<1>3. /\ landing'.pc \in {"check", "conflict"} /\ landing'.tree = pre.tree
      /\ landing'.left = left /\ landing'.of = t /\ landing'.w = w
      /\ DOMAIN landing' = DOMAIN NoLanding
  BY <1>1, <1>2 DEF NoLanding
<1>4. w \in 1 .. Len(commits) /\ jobs[t].branch \in 1 .. Len(commits)
  BY <1>2, BranchIs DEF SnapshotOK
<1>5. /\ IsTree(pre.tree) /\ Within(commits[w].tree, pre.tree)
      /\ Within(commits[jobs[t].branch].tree, pre.tree)
  BY <1>4, MergeHolds DEF LandInv
<1> HIDE DEF pre
<1>6. \A f \in File \ left : pre.tree[f] \subseteq folder[f]
  BY <1>2 DEF SnapshotOK, Within
<1> HIDE DEF left
<1>7. ResultOK'
  <2>1. IsTree(landing'.tree)
    BY <1>3, <1>5
  <2>2. /\ Within(commits'[landing'.w].tree, landing'.tree)
        /\ Within(commits'[jobs'[landing'.of].branch].tree, landing'.tree)
    BY <1>1, <1>3, <1>5
  <2> QED BY <1>1, <1>3, <1>6, <2>1, <2>2 DEF ResultOK, IsTree
<1>8. SnapshotOK'
  BY <1>1, <1>2, <1>3 DEF SnapshotOK, Past
<1>9. LandingOK'
  BY <1>1, <1>2, <1>3, <1>7, <1>8 DEF LandingOK
<1> QED BY <1>1, <1>9, LandingMoves

LEMMA MaterializeKeeps ==
  ASSUME LandInv, Materialize
  PROVE  LandInv' /\ FolderGrows
<1>1. /\ landing.pc = "check" /\ UNCHANGED <<folder, commits, ref, jobs>>
      /\ landing' = [landing EXCEPT !.pc = "write"]
      /\ \A f \in landing.left : folder[f] = commits[landing.w].tree[f]
  BY DEF Materialize, FolderStands
<1>2. /\ landing.of \in Task /\ jobs[landing.of].exists /\ SnapshotOK /\ ResultOK
      /\ DOMAIN landing = DOMAIN NoLanding
  BY <1>1 DEF LandInv, LandingOK
<1>3. /\ landing'.pc = "write" /\ landing'.tree = landing.tree
      /\ landing'.left = landing.left /\ landing'.of = landing.of
      /\ landing'.w = landing.w /\ DOMAIN landing' = DOMAIN NoLanding
  BY <1>1, <1>2 DEF NoLanding
<1>4. \A f \in File \cap landing.left : folder[f] \subseteq landing.tree[f]
  BY <1>1, <1>2 DEF ResultOK, Within
<1>5. SnapshotOK' /\ ResultOK'
  BY <1>1, <1>2, <1>3 DEF SnapshotOK, ResultOK, Past
<1>6. LandingOK'
  BY <1>1, <1>2, <1>3, <1>4, <1>5 DEF LandingOK
<1> QED BY <1>1, <1>6, LandingMoves

\* What was compared is what is written over: nothing goes.
LEMMA WriteFileKeeps ==
  ASSUME LandInv, NEW f \in File, WriteFile(f)
  PROVE  LandInv' /\ FolderGrows
<1>1. /\ landing.pc = "write" /\ f \in landing.left
      /\ folder' = [folder EXCEPT ![f] = landing.tree[f]]
      /\ landing' = [landing EXCEPT !.left = @ \ {f}]
      /\ UNCHANGED <<commits, ref, jobs>>
  BY DEF WriteFile
<1>2. /\ landing.of \in Task /\ jobs[landing.of].exists /\ SnapshotOK /\ ResultOK
      /\ DOMAIN landing = DOMAIN NoLanding
      /\ \A g \in File \cap landing.left : folder[g] \subseteq landing.tree[g]
  BY <1>1 DEF LandInv, LandingOK
<1>3. /\ landing'.pc = "write" /\ landing'.tree = landing.tree
      /\ landing'.left = landing.left \ {f} /\ landing'.of = landing.of
      /\ landing'.w = landing.w /\ DOMAIN landing' = DOMAIN NoLanding
  BY <1>1, <1>2 DEF NoLanding
<1>4. /\ folder'[f] = landing.tree[f] /\ IsTree(folder)'
      /\ \A g \in File \ {f} : folder'[g] = folder[g]
  BY <1>1 DEF LandInv, IsTree
<1>5. FolderGrows
  BY <1>1, <1>2, <1>4 DEF FolderGrows, Within
<1>6. RefOK' /\ History(commits)' /\ JobsOK'
  BY <1>1, <1>5, RefGrown, GrownItself DEF LandInv, History, JobsOK
<1>7. SnapshotOK'
  BY <1>1, <1>2, <1>3, <1>5, WithinBoth DEF FolderGrows, SnapshotOK, Past
<1>8. ResultOK'
  <2>1. \A g \in File \ landing'.left : landing'.tree[g] \subseteq folder'[g]
    BY <1>2, <1>3, <1>4 DEF ResultOK
  <2> QED BY <1>1, <1>2, <1>3, <2>1 DEF ResultOK
<1>9. \A g \in File \cap landing'.left : folder'[g] \subseteq landing'.tree[g]
  BY <1>2, <1>3, <1>4
<1>10. LandingOK'
  BY <1>1, <1>2, <1>3, <1>7, <1>8, <1>9 DEF LandingOK
<1> QED BY <1>4, <1>5, <1>6, <1>10 DEF LandInv

\* The ref goes to a commit that holds what was landed: the old ref is in the
\* history of the snapshot, so it holds that too.
LEMMA AdvanceRefKeeps ==
  ASSUME LandInv, AdvanceRef
  PROVE  LandInv' /\ FolderGrows
<1> DEFINE t == landing.of
           parents == LandParents(t)
           new == Put(commits, landing.tree, parents)
<1>1. /\ landing.pc = "write" /\ landing.left = {} /\ commits' = new
      /\ ref' = Len(new) /\ landing' = [landing EXCEPT !.pc = "save"]
      /\ UNCHANGED <<folder, jobs>>
  BY DEF AdvanceRef
<1>2. /\ t \in Task /\ jobs[t].exists /\ SnapshotOK /\ ResultOK
      /\ DOMAIN landing = DOMAIN NoLanding
  BY <1>1 DEF LandInv, LandingOK
<1>3. /\ jobs[t].branch \in 1 .. Len(commits)
      /\ Within(commits[jobs[t].branch].tree, landing.tree)
  BY <1>2, BranchIs DEF ResultOK
<1>4. ref # 0 => ref \in 1 .. Len(commits) /\ Within(commits[ref].tree, landing.tree)
  <2>1. /\ landing.w \in 1 .. Len(commits)
        /\ Within(commits[landing.w].tree, landing.tree)
    BY <1>2 DEF SnapshotOK, ResultOK
  <2>2. ASSUME ref # 0
        PROVE  /\ ref \in 1 .. Len(commits)
               /\ Within(commits[ref].tree, commits[landing.w].tree)
    BY <1>2, <2>1, <2>2, PastWithin DEF SnapshotOK, LandInv
  <2> QED BY <2>1, <2>2, WithinBoth
<1>5. /\ parents # {} /\ parents \subseteq 1 .. Len(commits)
      /\ \A c \in parents : Within(commits[c].tree, landing.tree)
  BY <1>3, <1>4 DEF LandParents
<1> HIDE DEF parents
<1>6. /\ History(new) /\ Grown(commits, new) /\ Len(new) = Len(commits) + 1
      /\ new[Len(commits) + 1].tree = landing.tree
  BY <1>5, PutKeeps DEF LandInv
<1> HIDE DEF new
<1>7. Within(landing.tree, folder)
  BY <1>1, <1>2 DEF ResultOK, Within
<1>8. RefOK'
  <2>1. ref' \in 0 .. Len(commits') /\ Within(commits'[ref'].tree, folder')
    BY <1>1, <1>6, <1>7 DEF LandInv, History
  <2> QED BY <2>1 DEF RefOK
<1>9. \A u \in Task : JobOK(jobs'[u], new)
  BY <1>1, <1>6, JobGrown, TaskOK
<1>10. JobsOK' /\ History(commits)' /\ IsTree(folder)' /\ FolderGrows
  BY <1>1, <1>6, <1>9, WithinItself DEF JobsOK, LandInv, History, IsTree, FolderGrows
<1>11. /\ landing'.pc = "save" /\ landing'.of = t
       /\ DOMAIN landing' = DOMAIN NoLanding
  BY <1>1, <1>2 DEF NoLanding
<1>12. LandingOK'
  BY <1>1, <1>2, <1>11 DEF LandingOK
<1> QED BY <1>8, <1>10, <1>12 DEF LandInv

LEMMA DeferLandingKeeps ==
  ASSUME LandInv, DeferLanding
  PROVE  LandInv' /\ FolderGrows
<1> DEFINE t == landing.of
           k == [Closed(jobs[t]) EXCEPT !.toPerson = TRUE]
<1>1. /\ t \in Task /\ jobs' = [jobs EXCEPT ![t] = k] /\ landing' = NoLanding
      /\ UNCHANGED <<folder, commits, ref>>
  BY DEF DeferLanding, LandInv, LandingOK
<1>2. SameWork(jobs[t], k)
  BY <1>1, TaskOK, ClosedSame DEF SameWork, JobFields
<1> HIDE DEF k
<1> QED BY <1>1, <1>2, FieldsChange

LEMMA SaveLandedKeeps ==
  ASSUME LandInv, SaveLanded
  PROVE  LandInv' /\ FolderGrows
<1> DEFINE t == landing.of
           k == Landed(jobs[t])
           l == Cleared(k, FALSE)
<1>1. /\ landing.pc = "save" /\ landing' = NoLanding
      /\ UNCHANGED <<folder, commits, ref>>
      /\ jobs' = [jobs EXCEPT ![t] = k] \/ jobs' = [jobs EXCEPT ![t] = l]
  BY DEF SaveLanded
<1>2. t \in Task
  BY <1>1 DEF LandInv, LandingOK
<1>3. SameWork(jobs[t], k)
  <2>1. SameWork(jobs[t], Closed(jobs[t]))
    BY <1>2, TaskOK, ClosedSame
  <2> DEFINE c == Closed(jobs[t])
  <2> HIDE DEF c
  <2>2. SameWork(jobs[t], [c EXCEPT !.integration = "landed", !.spent = 0])
    BY <2>1 DEF SameWork, JobFields, c
  <2> QED BY <2>2 DEF Landed, c
<1> HIDE DEF k
<1>4. JobOK(k, commits)
  BY <1>2, <1>3, TaskOK, SameWorkOK
<1>5. JobOK(l, commits)
  BY <1>4, ClearedOK DEF LandInv, History
<1> HIDE DEF l
<1> QED BY <1>1, <1>2, <1>4, <1>5, JobChanges

LEMMA LandingKilledKeeps ==
  ASSUME LandInv, LandingKilled
  PROVE  LandInv' /\ FolderGrows
<1>1. landing' = NoLanding /\ UNCHANGED <<folder, commits, ref, jobs>>
  BY DEF LandingKilled
<1>2. LandingOK'
  BY <1>1 DEF LandingOK, NoLanding
<1> QED BY <1>1, <1>2, LandingMoves

\* The branch and the snapshot are merged in the checkout: it holds both.
LEMMA ConflictedOK ==
  ASSUME LandInv, NEW t \in Task, jobs[t].exists, SnapshotOK
  PROVE  LET k == Conflicted(jobs[t])
         IN  JobOK(k, commits) /\ k.exists /\ k.branch = jobs[t].branch
<1> DEFINE j == jobs[t]
           m == MergeOf(commits, j.branch, landing.w)
           dir == [tree |-> m.tree, unmerged |-> m.conflicts, onto |-> landing.w]
           k == [j EXCEPT !.dir = dir]
<1>1. JobOK(j, commits) /\ j.exists
  BY TaskOK
<1>2. j.branch \in 1 .. Len(commits) /\ landing.w \in 1 .. Len(commits)
  BY BranchIs DEF SnapshotOK
<1>3. /\ IsTree(m.tree) /\ Within(commits[j.branch].tree, m.tree)
      /\ Within(commits[landing.w].tree, m.tree)
  BY <1>2, MergeHolds DEF LandInv
<1>4. Conflicted(j) \in {j, k}
  BY DEF Conflicted
<1> HIDE DEF j, m
<1>5. DOMAIN dir = DirFields /\ dir.tree = m.tree /\ dir.onto = landing.w
  BY DEF DirFields
<1> HIDE DEF dir
<1>6. DOMAIN k = JobFields /\ k.dir = dir /\ k.branch = j.branch /\ k.exists
  BY <1>1 DEF JobOK, JobFields
<1> HIDE DEF k
<1>7. JobOK(k, commits)
  BY <1>1, <1>2, <1>3, <1>5, <1>6 DEF JobOK
<1>8. JobOK(Conflicted(j), commits) /\ Conflicted(j).exists /\ Conflicted(j).branch = j.branch
  BY <1>1, <1>4, <1>6, <1>7
<1> QED BY <1>8 DEF j

LEMMA LandConflictKeeps ==
  ASSUME LandInv, LandConflict
  PROVE  LandInv' /\ FolderGrows
<1> DEFINE t == landing.of
           k == Conflicted(jobs[t])
<1>1. /\ landing.pc = "conflict" /\ landing' = [landing EXCEPT !.pc = "record"]
      /\ UNCHANGED <<folder, commits, ref>>
      /\ jobs' = [jobs EXCEPT ![t] = k]
  BY DEF LandConflict
<1>2. t \in Task /\ jobs[t].exists /\ SnapshotOK /\ DOMAIN landing = DOMAIN NoLanding
  BY <1>1 DEF LandInv, LandingOK
<1>3. JobOK(k, commits) /\ k.exists
  BY <1>2, ConflictedOK
<1> HIDE DEF k
<1>4. JobsOK' /\ FolderGrows
  <2>1. JobOK(k, commits')
    BY <1>1, <1>3
  <2>2. History(commits') /\ Grown(commits, commits')
    BY <1>1, GrownItself DEF LandInv
  <2> QED BY <1>1, <1>2, <2>1, <2>2, CommitsAdded
<1>5. /\ landing'.pc = "record" /\ landing'.of = t /\ landing'.w = landing.w
      /\ DOMAIN landing' = DOMAIN NoLanding
  BY <1>1, <1>2 DEF NoLanding
<1>6. jobs'[t].exists
  BY <1>1, <1>2, <1>3 DEF LandInv, JobsOK
<1>7. SnapshotOK'
  BY <1>1, <1>2, <1>5 DEF SnapshotOK, Past
<1>8. LandingOK'
  BY <1>2, <1>5, <1>6, <1>7 DEF LandingOK
<1>9. RefOK' /\ History(commits)' /\ IsTree(folder)'
  BY <1>1 DEF LandInv, RefOK, History, IsTree
<1> QED BY <1>4, <1>8, <1>9 DEF LandInv

LEMMA RecordConflictKeeps ==
  ASSUME LandInv, RecordConflict
  PROVE  LandInv' /\ FolderGrows
<1> DEFINE t == landing.of
           k == [Closed(jobs[t]) EXCEPT
                   !.integration = "conflict",
                   !.resolvers = IF ResolverWanted(jobs[t])
                                 THEN @ \union {"lander"} ELSE @]
<1>1. /\ landing.pc = "record" /\ landing' = NoLanding /\ ref' = landing.w
      /\ jobs' = [jobs EXCEPT ![t] = k] /\ UNCHANGED <<folder, commits>>
  BY DEF RecordConflict, RefAfterConflict
<1>2. t \in Task /\ SnapshotOK
  BY <1>1 DEF LandInv, LandingOK
<1>3. SameWork(jobs[t], k)
  <2>1. SameWork(jobs[t], Closed(jobs[t]))
    BY <1>2, TaskOK, ClosedSame
  <2> QED BY <2>1 DEF SameWork, JobFields
<1> HIDE DEF k
<1>4. JobOK(k, commits)
  BY <1>2, <1>3, TaskOK, SameWorkOK
<1>5. JobsOK' /\ FolderGrows
  <2>1. JobOK(k, commits')
    BY <1>1, <1>4
  <2>2. History(commits') /\ Grown(commits, commits')
    BY <1>1, GrownItself DEF LandInv
  <2> QED BY <1>1, <1>2, <2>1, <2>2, CommitsAdded
<1>6. RefOK'
  BY <1>1, <1>2 DEF SnapshotOK, RefOK, LandInv, History
<1>7. LandingOK'
  BY <1>1 DEF LandingOK, NoLanding
<1>8. History(commits)' /\ IsTree(folder)'
  BY <1>1 DEF LandInv, History, IsTree
<1> QED BY <1>5, <1>6, <1>7, <1>8 DEF LandInv

-----------------------------------------------------------------------------
(* Every step.                                                             *)

LEMMA LandStart ==
  ASSUME LandInit
  PROVE  LandInv
<1> DEFINE empty == [f \in File |-> {}]
           root == [tree |-> empty, past |-> {}]
           first == [status |-> "todo", integration |-> "none", run |-> "none",
                     resolvers |-> {}, toPerson |-> FALSE, spent |-> 0,
                     isolated |-> FALSE, branch |-> 0, exists |-> FALSE, dir |-> NoDir]
<1>1. /\ folder = empty /\ commits = <<root>> /\ ref = 0
      /\ jobs = [t \in Task |-> first] /\ landing = NoLanding
  BY DEF LandInit
<1>2. IsTree(folder)
  BY <1>1 DEF IsTree
<1>3. root.past = {} /\ root.tree = empty /\ \A f \in File : root.tree[f] = {}
  OBVIOUS
<1>4. DOMAIN first = JobFields /\ first.branch = 0 /\ first.dir = NoDir /\ first.exists = FALSE
  BY DEF JobFields
<1> HIDE DEF root, first, empty
<1>5. IsSeq(commits) /\ Len(commits) = 1 /\ commits[1] = root
  <2>1. <<root>> \in Seq({root}) /\ Len(<<root>>) = 1 /\ <<root>>[1] = root
    OBVIOUS
  <2> QED BY <1>1, <2>1 DEF IsSeq
<1>6. History(commits)
  <2>1. \A c \in 1 .. Len(commits) : c = 1
    BY <1>5
  <2> QED BY <1>3, <1>5, <2>1 DEF History
<1>7. JobsOK
  <2>1. JobOK(first, commits)
    BY <1>4, <1>5, EmptyDir DEF JobOK, NoDirIs
  <2> QED BY <1>1, <2>1 DEF JobsOK
<1>8. RefOK /\ LandingOK
  BY <1>1, <1>5 DEF RefOK, LandingOK, NoLanding
<1> QED BY <1>2, <1>6, <1>7, <1>8 DEF LandInv

LEMMA LandKeeps ==
  ASSUME PeopleWait, LandInv, [LandNext]_landVars
  PROVE  LandInv' /\ FolderGrows
<1>1. CASE LandStep
  BY <1>1, BeginLandingKeeps, PreflightKeeps, MaterializeKeeps, DeferLandingKeeps,
     AdvanceRefKeeps, SaveLandedKeeps, LandConflictKeeps, RecordConflictKeeps,
     WriteFileKeeps DEF LandStep
<1>2. CASE LandingKilled \/ Rebaseline \/ \E f \in File : PersonEdits(f)
  BY <1>2, LandingKilledKeeps, RebaselineKeeps, PersonEditsKeeps
<1>3. ASSUME NEW t \in Task,
             \/ Start(t) \/ Sweep(t) \/ ReuseWorktree(t) \/ CreateWorktree(t)
             \/ AgentCommits(t) \/ Done(t) \/ Integrate(t)
             \/ RunEnds(t) \/ CleanUp(t) \/ Accept(t)
      PROVE  LandInv' /\ FolderGrows
  BY <1>3, StartKeeps, SweepKeeps, ReuseWorktreeKeeps, CreateWorktreeKeeps,
     AgentCommitsKeeps, DoneKeeps, IntegrateKeeps, RunEndsKeeps, CleanUpKeeps,
     AcceptKeeps
<1>4. ASSUME NEW t \in Task,
             NEW by \in {"lander", "sweep"}, RunResolver(t, by) \/ ResolverNotSent(t, by)
      PROVE  LandInv' /\ FolderGrows
  BY <1>4, RunResolverKeeps, ResolverNotSentKeeps
<1>5. ASSUME NEW t \in Task, NEW f \in File, AgentEdits(t, f) \/ Resolve(t, f)
      PROVE  LandInv' /\ FolderGrows
  BY <1>5, AgentEditsKeeps, ResolveKeeps
<1>6. CASE UNCHANGED landVars
  <2>1. UNCHANGED <<folder, commits, ref, jobs, landing>>
    BY <1>6 DEF landVars
  <2>2. LandingOK'
    BY <2>1 DEF LandInv, LandingOK, SnapshotOK, ResultOK, Past
  <2> QED BY <2>1, <2>2, LandingMoves
<1> QED BY <1>1, <1>2, <1>3, <1>4, <1>5, <1>6 DEF LandNext

(* "Nothing is ever silently overwritten": when people keep off a file     *)
(* while it is written, no step of a landing, a conflict, a cleanup or a   *)
(* crash takes an edit out of the work folder (materialize_landing,        *)
(* disk_differs_from).                                                     *)
THEOREM FolderKept ==
  ASSUME PeopleWait
  PROVE  LandSpec => FolderKeepsEdits
<1>1. LandInit => LandInv
  BY LandStart
<1>2. LandInv /\ [LandNext]_landVars => LandInv'
  BY LandKeeps
<1>3. LandInv /\ [LandNext]_landVars => [\A f \in File : folder[f] \subseteq folder'[f]]_landVars
  BY LandKeeps DEF FolderGrows, Within
<1> QED BY <1>1, <1>2, <1>3, PTL DEF LandSpec, FolderKeepsEdits

-----------------------------------------------------------------------------
(* What an agent wrote is kept.                                            *)

\* A commit names older ones.
Young(log) == \A c \in 1 .. Len(log) : \A d \in log[c].past : d < c

\* What a branch has of the trunk, the history of the ref.
Common(log, head, b) == Past(log, head) \cap Past(log, b)

Clashes(base, ours, theirs) ==
    \E f \in File : /\ theirs[f] # base[f]
                    /\ ours[f] # base[f]
                    /\ theirs[f] # ours[f]

ClashAt(log, head, b, ours) ==
    Clashes(log[Max(Common(log, head, b))].tree, ours, log[b].tree)

\* All of a tree that t did not write is in the other.
Foreign(t, tree, other) ==
    \A f \in File : \A x \in tree[f] : x[2] # t => x \in other[f]

\* A checkout has its branch, cut from the ref. What others wrote in it is in
\* the folder, and a merge is only open over a clash that still stands.
TaskGood(t, j, log, r, head, fold) ==
    /\ (j.isolated <=> j.branch # 0) /\ (j.exists <=> j.branch # 0)
    /\ j.branch # 0 => r # 0
    /\ j.branch = 0 => j.dir.onto = 0 /\ \A f \in File : j.dir.tree[f] = {}
    /\ j.dir.unmerged # {} => j.dir.onto # 0
    /\ Foreign(t, j.dir.tree, fold)
    /\ j.dir.onto # 0 => ClashAt(log, head, j.branch, fold)

TasksGood == \A t \in Task : TaskGood(t, jobs[t], commits, ref, RefOrHead, folder)

HasSnapshot == {"merge", "check", "write", "conflict", "record"}

SnapshotOf(t) ==
    IF landing.of = t /\ landing.pc \in HasSnapshot THEN landing.w ELSE 0

PastOf(log, c) == IF c = 0 THEN {} ELSE Past(log, c)

\* The commits a task can still bring into the history of the ref.
Mine(log, j, w) ==
    PastOf(log, j.branch) \cup PastOf(log, j.dir.onto) \cup PastOf(log, w)

\* Two tasks have nothing in common but the trunk.
OnlyTrunkShared ==
    \A t, u \in Task : t # u =>
        Mine(commits, jobs[t], SnapshotOf(t)) \cap Mine(commits, jobs[u], SnapshotOf(u))
          \subseteq Past(commits, RefOrHead)

\* The snapshot of a landing is the trunk, or new on top of it.
SnapshotOnTrunk ==
    landing.pc \in HasSnapshot =>
        /\ Past(commits, RefOrHead) \subseteq Past(commits, landing.w)
        /\ Common(commits, landing.w, jobs[landing.of].branch) \subseteq Past(commits, RefOrHead)

\* A landing has committed the checkout, or a merge is open in it; then it
\* conflicts again.
LandingWork ==
    LET j == jobs[landing.of] IN
    /\ landing.pc \in {"merge", "check", "write", "save", "conflict"} /\ j.dir.onto = 0 =>
          j.dir.tree = commits[j.branch].tree
    /\ landing.pc \in {"check", "write", "save"} => j.dir.onto = 0
    /\ landing.pc = "conflict" \/ (landing.pc = "merge" /\ j.dir.onto # 0) =>
          ClashAt(commits, RefOrHead, j.branch, commits[landing.w].tree)
    /\ landing.pc \in {"merge", "conflict"} =>
          /\ Foreign(landing.of, j.dir.tree, commits[landing.w].tree)
          /\ \A f \in File : \A x \in folder[f] :
                x[2] = landing.of => x \in commits[landing.w].tree[f]
    /\ landing.pc \in {"check", "write"} => Foreign(landing.of, landing.tree, folder)
    /\ landing.pc = "save" =>
          /\ ref # 0 /\ j.branch \in Past(commits, ref)
          /\ Within(commits[j.branch].tree, folder)

WorkInv == Young(commits) /\ TasksGood /\ OnlyTrunkShared /\ SnapshotOnTrunk /\ LandingWork

MadeOK == \A e \in made : e[1] \in File

InFolder(t) == \A e \in made : e[2] = t => e \in folder[e[1]]

\* A person took the task as it is, and nobody starts it again.
Settled(t) ==
    /\ jobs[t].status = "done" /\ jobs[t].resolvers = {}
    /\ jobs[t].run = "none" /\ jobs[t].branch = 0

Kept(t) ==
    Settled(t) \/ \A e \in made : e[2] = t =>
                     e \in folder[e[1]] \/ e \in jobs[t].dir.tree[e[1]]

\* A resolver is only on its way to a conflict nobody works on.
Waiting(t) ==
    /\ jobs[t].resolvers # {} => jobs[t].integration = "conflict" /\ jobs[t].run = "none"
    /\ \A a, b \in jobs[t].resolvers : a = b

\* A landed task rests: nobody works on it, and the folder has its work.
Resting(t) ==
    jobs[t].integration = "landed" =>
        /\ jobs[t].run = "none" /\ InFolder(t)
        /\ jobs[t].branch # 0 => jobs[t].branch \in Past(commits, ref)

\* A landing has its task to itself.
LandingAlone ==
    landing.pc # "free" =>
        /\ jobs[landing.of].resolvers = {} /\ jobs[landing.of].integration # "landed"
        /\ landing.done \/ jobs[landing.of].run = "none"

BookInv ==
    /\ MadeOK /\ LandingAlone
    /\ \A t \in Task : Kept(t) /\ Waiting(t) /\ Resting(t)

KeepInv == LandInv /\ WorkInv /\ BookInv

\* The landing of t writes the folder.
Writes(t) == landing.of = t /\ landing.pc \in {"write", "save"}

\* What a landing has not written is nowhere but on its task's side.
NotYetInFolder(t) ==
    \/ jobs[t].integration = "landed" \/ Writes(t)
    \/ \A f \in File : \A x \in folder[f] : x[2] # t

Pending(t) == IF landing.pc = "record" /\ landing.of = t THEN landing.w ELSE 0

\* What a branch and the trunk have in common is the history of one commit,
\* which holds all of the branch that its task did not write.
Based(t, j, log, head, w) ==
    /\ j.branch # 0 =>
          \E r \in Common(log, head, j.branch) :
             /\ Common(log, head, j.branch) \subseteq Past(log, r)
             /\ Foreign(t, log[j.branch].tree, log[r].tree)
             /\ \A f \in File : \A x \in j.dir.tree[f] :
                   \/ x[2] = t \/ x \in log[r].tree[f]
                   \/ j.dir.onto # 0 /\ x \in log[j.dir.onto].tree[f]
    /\ j.dir.onto # 0 =>
          /\ Common(log, head, j.branch) \subseteq Past(log, j.dir.onto)
          /\ j.dir.onto \in Past(log, head) \/ j.dir.onto = w

BasedOn(t) == Based(t, jobs[t], commits, RefOrHead, Pending(t))

SettledInv ==
    faults \in Nat /\ (faults = 0 => \A t \in Task : NotYetInFolder(t) /\ BasedOn(t))

-----------------------------------------------------------------------------
(* The histories of commits.                                               *)

LEMMA PastTyped ==
  ASSUME NEW log, History(log), NEW c \in 1 .. Len(log)
  PROVE  Past(log, c) \subseteq 1 .. Len(log) /\ c \in Past(log, c) /\ Len(log) \in Nat
BY DEF Past, History

\* A commit's history does not change in a longer log.
LEMMA PastStays ==
  ASSUME NEW log, NEW new, History(log), Grown(log, new), NEW c \in 1 .. Len(log)
  PROVE  /\ c \in 1 .. Len(new) /\ new[c] = log[c]
         /\ Past(new, c) = Past(log, c)
BY DEF Grown, Past

LEMMA PutPast ==
  ASSUME NEW log, History(log), Young(log), NEW tree, NEW parents,
         parents \subseteq 1 .. Len(log)
  PROVE  LET new == Put(log, tree, parents)
         IN  /\ Past(new, Len(log) + 1) =
                  {Len(log) + 1} \cup UNION {Past(log, c) : c \in parents}
             /\ Young(new)
<1> DEFINE past == UNION {Past(log, c) : c \in parents}
           commit == [tree |-> tree, past |-> past]
           new == Put(log, tree, parents)
<1>1. /\ Len(log) \in Nat /\ Len(new) = Len(log) + 1
      /\ \A i \in 1 .. Len(log) : new[i] = log[i]
      /\ new[Len(log) + 1] = commit
  <2>1. new = Append(log, commit)
    BY DEF Put
  <2> HIDE DEF commit, new
  <2> QED BY <2>1, AppendedSeq DEF History
<1>2. commit.past = past
  OBVIOUS
<1>3. past \subseteq 1 .. Len(log)
  BY PastTyped
<1> HIDE DEF past, commit, new
<1>4. Past(new, Len(log) + 1) = {Len(log) + 1} \cup past
  BY <1>1, <1>2 DEF Past
<1>5. Young(new)
  <2> SUFFICES ASSUME NEW c \in 1 .. Len(new), NEW d \in new[c].past PROVE d < c
    BY DEF Young
  <2>1. CASE c \in 1 .. Len(log)
    BY <1>1, <2>1 DEF Young
  <2>2. CASE c = Len(log) + 1
    <3>1. new[c].past = past
      BY <1>1, <1>2, <2>2
    <3>2. d \in 1 .. Len(log)
      BY <1>3, <3>1
    <3> QED BY <1>1, <2>2, <3>2
  <2> QED BY <1>1, <2>1, <2>2
<1> QED BY <1>4, <1>5 DEF new, past

\* A snapshot is its parent, or new on top of it.
LEMMA SnapshotPast ==
  ASSUME NEW log, History(log), Young(log), NEW parent \in 1 .. Len(log)
  PROVE  LET new == Snapped(log, parent)
             w   == FolderCommit(log, parent)
         IN  /\ Young(new)
             /\ Past(log, parent) \subseteq Past(new, w)
             /\ \A x \in Past(new, w) : x \in Past(log, parent) \/ x = Len(log) + 1
<1>1. CASE log[parent].tree = folder
  BY <1>1 DEF Snapped, FolderCommit
<1>2. CASE log[parent].tree # folder
  <2>1. /\ Snapped(log, parent) = Put(log, folder, {parent})
        /\ FolderCommit(log, parent) = Len(log) + 1
    BY <1>2 DEF Snapped, FolderCommit
  <2>2. /\ Past(Put(log, folder, {parent}), Len(log) + 1) =
             {Len(log) + 1} \cup UNION {Past(log, c) : c \in {parent}}
        /\ Young(Put(log, folder, {parent}))
    BY PutPast
  <2>3. UNION {Past(log, c) : c \in {parent}} = Past(log, parent)
    OBVIOUS
  <2> QED BY <2>1, <2>2, <2>3
<1> QED BY <1>1, <1>2

\* What two commits have in common has a latest.
LEMMA CommonLatest ==
  ASSUME NEW log, History(log), NEW a \in 1 .. Len(log), NEW b \in 1 .. Len(log)
  PROVE  /\ Max(Common(log, a, b)) \in Common(log, a, b)
         /\ Max(Common(log, a, b)) \in 1 .. Len(log)
         /\ Base(log, a, b) = Max(Common(log, a, b))
BY BaseIs, PastTyped DEF Base, Common

LEMMA CommonStays ==
  ASSUME NEW log, NEW new, History(log), Grown(log, new),
         NEW a \in 1 .. Len(log), NEW b \in 1 .. Len(log)
  PROVE  Common(new, a, b) = Common(log, a, b)
BY PastStays DEF Common

\* A merge without conflicts is one without a clash.
LEMMA ConflictIsClash ==
  ASSUME NEW log, NEW w, NEW head, NEW b, Common(log, w, b) = Common(log, head, b)
  PROVE  MergeOf(log, w, b).conflicts # {} <=> ClashAt(log, head, b, log[w].tree)
<1> DEFINE base == log[Base(log, w, b)].tree
           ours == log[w].tree
           theirs == log[b].tree
           m == Merged(base, ours, theirs)
<1>1. m = MergeOf(log, w, b)
  BY DEF MergeOf
<1>2. ClashAt(log, head, b, log[w].tree) <=> Clashes(base, ours, theirs)
  BY DEF ClashAt, Base, Common
<1> HIDE DEF base, ours, theirs
<1>3. m.conflicts = {f \in File : /\ ours[f] # base[f]
                                  /\ theirs[f] # base[f]
                                  /\ ours[f] # theirs[f]}
  BY DEF Merged
<1> HIDE DEF m
<1>4. m.conflicts # {} <=> Clashes(base, ours, theirs)
  BY <1>3 DEF Clashes
<1> QED BY <1>1, <1>2, <1>4

\* A merge makes nothing up.
LEMMA MergeOnlyMerges ==
  ASSUME NEW log, History(log), NEW a \in 1 .. Len(log), NEW b \in 1 .. Len(log),
         NEW f \in File, NEW x \in MergeOf(log, a, b).tree[f]
  PROVE  x \in log[a].tree[f] \/ x \in log[b].tree[f]
<1> DEFINE base == log[Base(log, a, b)].tree
           ours == log[a].tree
           theirs == log[b].tree
           m == Merged(base, ours, theirs)
<1>1. m = MergeOf(log, a, b)
  BY DEF MergeOf
<1> HIDE DEF base, ours, theirs
<1>2. m.tree[f] = IF ours[f] # base[f] /\ theirs[f] # base[f] /\ ours[f] # theirs[f]
                  THEN ours[f] \union theirs[f]
                  ELSE IF ours[f] = base[f] THEN theirs[f] ELSE ours[f]
  BY DEF Merged
<1> HIDE DEF m
<1>3. x \in ours[f] \/ x \in theirs[f]
  BY <1>1, <1>2
<1> QED BY <1>3 DEF ours, theirs

-----------------------------------------------------------------------------
(* Checkouts that stand still.                                             *)

SameCheckout(j, k) ==
    /\ k.dir = j.dir /\ k.branch = j.branch
    /\ (k.exists <=> j.exists) /\ (k.isolated <=> j.isolated)

\* The folder takes in nothing that t wrote.
NoneOf(t, old, new) ==
    \A f \in File : \A x \in new[f] : x[2] = t => x \in old[f]

\* A clash stands while the folder takes in what others write.
LEMMA ClashStays ==
  ASSUME NEW log, NEW new, History(log), Grown(log, new), NEW t,
         NEW head \in 1 .. Len(log), NEW top, NEW b \in 1 .. Len(log),
         Common(new, top, b) = Common(log, head, b),
         NEW fold, NEW more, Within(log[head].tree, fold), Within(fold, more),
         Foreign(t, log[b].tree, fold),
         NoneOf(t, fold, more), ClashAt(log, head, b, fold)
  PROVE  ClashAt(new, top, b, more)
<1> DEFINE base == log[Max(Common(log, head, b))].tree
           own == log[b].tree
<1>1. new[Max(Common(new, top, b))].tree = base /\ new[b].tree = own
  <2>1. /\ Max(Common(log, head, b)) \in 1 .. Len(log)
        /\ Max(Common(new, top, b)) = Max(Common(log, head, b))
    BY CommonLatest
  <2>2. /\ new[Max(Common(log, head, b))] = log[Max(Common(log, head, b))]
        /\ new[b] = log[b]
    BY <2>1, PastStays
  <2> QED BY <2>1, <2>2
<1>2. Within(base, fold)
  <2>1. Max(Common(log, head, b)) \in Past(log, head)
    BY CommonLatest DEF Common
  <2> QED BY <2>1, PastWithin, WithinBoth
<1>3. PICK f \in File : own[f] # base[f] /\ fold[f] # base[f] /\ own[f] # fold[f]
  BY DEF ClashAt, Clashes
<1> HIDE DEF base, own
<1>4. more[f] # base[f]
  BY <1>2, <1>3 DEF Within
<1>5. own[f] # more[f]
  <2>1. CASE \E x \in fold[f] : x \notin own[f]
    BY <2>1 DEF Within
  <2>2. CASE \E x \in own[f] : x \notin fold[f]
    BY <2>2 DEF Foreign, NoneOf, own
  <2>3. (\E x \in fold[f] : x \notin own[f]) \/ (\E x \in own[f] : x \notin fold[f])
    BY <1>3
  <2> QED BY <2>1, <2>2, <2>3
<1> QED BY <1>1, <1>3, <1>4, <1>5 DEF ClashAt, Clashes

\* What a task knows of the trunk does not change.
SameTrunk(t) ==
    jobs[t].branch # 0 =>
        /\ ref' # 0
        /\ Common(commits', RefOrHead', jobs[t].branch) =
             Common(commits, RefOrHead, jobs[t].branch)

\* The log grows, and so does the trunk.
Onward ==
    Grown(commits, commits') /\ Past(commits, RefOrHead) \subseteq Past(commits', RefOrHead')

LEMMA TaskStays ==
  ASSUME LandInv, TasksGood, NEW t \in Task,
         NEW k, SameCheckout(jobs[t], k), Grown(commits, commits'), FolderGrows,
         NoneOf(t, folder, folder'), SameTrunk(t)
  PROVE  TaskGood(t, k, commits', ref', RefOrHead', folder')
<1> DEFINE j == jobs[t]
<1>1. TaskGood(t, j, commits, ref, RefOrHead, folder) /\ JobOK(j, commits)
  BY TaskOK DEF TasksGood
<1>2. k.dir = j.dir /\ k.branch = j.branch /\ (k.exists <=> j.exists) /\ (k.isolated <=> j.isolated)
  BY DEF SameCheckout
<1>3. RefOrHead \in 1 .. Len(commits) /\ Within(commits[RefOrHead].tree, folder)
  BY RefOrHeadIs
<1> HIDE DEF j
<1>4. Foreign(t, j.dir.tree, folder')
  BY <1>1 DEF TaskGood, Foreign, FolderGrows, Within
<1>5. ASSUME j.dir.onto # 0
      PROVE  ClashAt(commits', RefOrHead', j.branch, folder')
  <2>1. j.branch # 0 /\ j.exists
    BY <1>1, <1>5 DEF TaskGood
  <2>2. /\ j.branch \in 1 .. Len(commits)
        /\ Within(commits[j.branch].tree, j.dir.tree)
    BY <1>1, <2>1 DEF JobOK, LandInv, History
  <2>3. Foreign(t, commits[j.branch].tree, folder)
    BY <1>1, <2>2 DEF TaskGood, Foreign, Within
  <2>4. Common(commits', RefOrHead', j.branch) = Common(commits, RefOrHead, j.branch)
    BY <2>1 DEF SameTrunk, j
  <2>5. ClashAt(commits, RefOrHead, j.branch, folder)
    BY <1>1, <1>5 DEF TaskGood
  <2>6. History(commits) /\ Within(folder, folder')
    BY DEF LandInv, FolderGrows
  <2> QED BY <1>3, <2>2, <2>3, <2>4, <2>5, <2>6, ClashStays
<1>6. j.branch # 0 => ref' # 0
  BY DEF SameTrunk, j
<1> QED BY <1>1, <1>2, <1>4, <1>5, <1>6 DEF TaskGood

\* One job changes: the others stay good.
OneJob(t) ==
    /\ jobs' = [u \in Task |-> jobs'[u]]
    /\ \A u \in Task : u # t => jobs'[u] = jobs[u]

LEMMA TasksStay ==
  ASSUME LandInv, TasksGood, NEW t \in Task, OneJob(t),
         Grown(commits, commits'), FolderGrows,
         \A u \in Task \ {t} : NoneOf(u, folder, folder') /\ SameTrunk(u),
         TaskGood(t, jobs'[t], commits', ref', RefOrHead', folder')
  PROVE  TasksGood'
<1>1. ASSUME NEW u \in Task, u # t
      PROVE  TaskGood(u, jobs'[u], commits', ref', RefOrHead', folder')
  <2>1. SameCheckout(jobs[u], jobs'[u])
    BY <1>1 DEF OneJob, SameCheckout
  <2> QED BY <1>1, <2>1, TaskStays
<1> QED BY <1>1 DEF TasksGood

LEMMA TrunkTyped ==
  ASSUME LandInv
  PROVE  /\ RefOrHead \in 1 .. Len(commits)
         /\ Past(commits, RefOrHead) \subseteq 1 .. Len(commits)
         /\ Len(commits) \in Nat
BY RefOrHeadIs, PastTyped DEF LandInv

\* While the ref stays, so does what everybody knows of the trunk.
LEMMA RefStaysSame ==
  ASSUME LandInv, TasksGood, UNCHANGED ref, Grown(commits, commits')
  PROVE  /\ RefOrHead' = RefOrHead
         /\ Past(commits', RefOrHead) = Past(commits, RefOrHead)
         /\ \A u \in Task : SameTrunk(u)
<1>1. RefOrHead' = RefOrHead
  BY DEF RefOrHead
<1>2. History(commits) /\ RefOrHead \in 1 .. Len(commits)
  BY RefOrHeadIs DEF LandInv
<1>3. Past(commits', RefOrHead) = Past(commits, RefOrHead)
  BY <1>2, PastStays
<1>4. ASSUME NEW u \in Task PROVE SameTrunk(u)
  <2> SUFFICES ASSUME jobs[u].branch # 0
               PROVE  /\ ref' # 0
                      /\ Common(commits', RefOrHead', jobs[u].branch) =
                           Common(commits, RefOrHead, jobs[u].branch)
    BY DEF SameTrunk
  <2>1. ref # 0
    BY DEF TasksGood, TaskGood
  <2>2. jobs[u].branch \in 1 .. Len(commits)
    BY TaskOK DEF JobOK
  <2>3. Common(commits', RefOrHead, jobs[u].branch) = Common(commits, RefOrHead, jobs[u].branch)
    BY <1>2, <2>2, CommonStays
  <2> QED BY <1>1, <2>1, <2>3
<1> QED BY <1>1, <1>3, <1>4

-----------------------------------------------------------------------------
(* What a task can bring into the trunk.                                   *)

LEMMA MineTyped ==
  ASSUME LandInv, NEW t \in Task
  PROVE  /\ Mine(commits, jobs[t], SnapshotOf(t)) \subseteq 1 .. Len(commits)
         /\ jobs[t].branch \in 0 .. Len(commits) /\ jobs[t].dir.onto \in 0 .. Len(commits)
         /\ SnapshotOf(t) \in 0 .. Len(commits)
<1>1. jobs[t].branch \in 0 .. Len(commits) /\ jobs[t].dir.onto \in 0 .. Len(commits)
  BY TaskOK DEF JobOK
<1>2. SnapshotOf(t) \in 0 .. Len(commits)
  BY DEF LandInv, History, LandingOK, SnapshotOK, SnapshotOf, HasSnapshot
<1>3. ASSUME NEW c \in 0 .. Len(commits) PROVE PastOf(commits, c) \subseteq 1 .. Len(commits)
  BY PastTyped DEF PastOf, LandInv, History
<1> QED BY <1>1, <1>2, <1>3 DEF Mine

LEMMA MineStays ==
  ASSUME LandInv, Grown(commits, commits'), NEW t \in Task, NEW k, NEW w,
         k.branch = jobs[t].branch, k.dir.onto = jobs[t].dir.onto,
         w \in {SnapshotOf(t), 0}
  PROVE  Mine(commits', k, w) \subseteq Mine(commits, jobs[t], SnapshotOf(t))
<1>1. ASSUME NEW c \in 0 .. Len(commits) PROVE PastOf(commits', c) = PastOf(commits, c)
  BY <1>1, PastStays DEF PastOf, LandInv, History
<1>2. PastOf(commits', 0) = {}
  BY DEF PastOf
<1> QED BY <1>1, <1>2, MineTyped DEF Mine

\* A task gets what is new or in the trunk.
LEMMA SharedStays ==
  ASSUME LandInv, OnlyTrunkShared, NEW t \in Task, OneJob(t), Grown(commits, commits'),
         Past(commits, RefOrHead) \subseteq Past(commits', RefOrHead'),
         \A u \in Task \ {t} : SnapshotOf(u)' \in {SnapshotOf(u), 0},
         \A x \in Mine(commits', jobs'[t], SnapshotOf(t)') :
            \/ x \in Mine(commits, jobs[t], SnapshotOf(t))
            \/ x \in Past(commits', RefOrHead')
            \/ x \notin 1 .. Len(commits)
  PROVE  OnlyTrunkShared'
<1> DEFINE M(u) == Mine(commits, jobs[u], SnapshotOf(u))
           N(u) == Mine(commits', jobs'[u], SnapshotOf(u)')
<1>1. \A u \in Task \ {t} : N(u) \subseteq M(u)
  BY MineStays DEF OneJob
<1>2. \A u \in Task : M(u) \subseteq 1 .. Len(commits)
  BY MineTyped
<1>3. \A u, v \in Task : u # v => M(u) \cap M(v) \subseteq Past(commits, RefOrHead)
  BY DEF OnlyTrunkShared
<1>4. \A x \in N(t) : x \in M(t) \/ x \in Past(commits', RefOrHead') \/ x \notin 1 .. Len(commits)
  OBVIOUS
<1> HIDE DEF M, N
<1>5. \A u, v \in Task : u # v => N(u) \cap N(v) \subseteq Past(commits', RefOrHead')
  BY <1>1, <1>2, <1>3, <1>4
<1> QED BY <1>5 DEF OnlyTrunkShared, N

-----------------------------------------------------------------------------
(* Steps that leave the checkouts, the commits and the folder alone.       *)

LEMMA WorkParts ==
  ASSUME WorkInv
  PROVE  Young(commits) /\ TasksGood /\ OnlyTrunkShared /\ SnapshotOnTrunk /\ LandingWork
BY DEF WorkInv

\* What a landing rests on, of a checkout that stands still.
LEMMA LandingStays ==
  ASSUME LandInv, SnapshotOnTrunk, LandingWork,
         UNCHANGED <<folder, commits, ref>>, landing' = NoLanding \/ landing' = landing,
         landing.pc # "free" => SameCheckout(jobs[landing.of], jobs'[landing.of])
  PROVE  SnapshotOnTrunk' /\ LandingWork'
<1>1. CASE landing' = NoLanding \/ (landing' = landing /\ landing.pc = "free")
  BY <1>1 DEF SnapshotOnTrunk, LandingWork, NoLanding, HasSnapshot
<1>2. CASE landing' = landing /\ landing.pc # "free"
  <2>1. /\ jobs'[landing.of].dir = jobs[landing.of].dir
        /\ jobs'[landing.of].branch = jobs[landing.of].branch
    BY <1>2 DEF SameCheckout
  <2>2. RefOrHead' = RefOrHead
    BY DEF RefOrHead
  <2>3. SnapshotOnTrunk'
    BY <1>2, <2>1, <2>2 DEF SnapshotOnTrunk, Common, Past
  <2>4. LandingWork'
    BY <1>2, <2>1, <2>2 DEF LandingWork, ClashAt, Clashes, Common, Past, Foreign, Within
  <2> QED BY <2>3, <2>4
<1> QED BY <1>1, <1>2

LEMMA CheckoutsSame ==
  ASSUME LandInv, WorkInv, NEW t \in Task, OneJob(t), SameCheckout(jobs[t], jobs'[t]),
         UNCHANGED <<folder, commits, ref>>, landing' = NoLanding \/ landing' = landing
  PROVE  WorkInv'
<1>1. /\ Grown(commits, commits') /\ FolderGrows /\ RefOrHead' = RefOrHead
      /\ History(commits)
  BY GrownItself, WithinItself DEF LandInv, FolderGrows, RefOrHead
<1>2. \A u \in Task : SameTrunk(u) /\ NoneOf(u, folder, folder')
  BY <1>1, RefStaysSame DEF WorkInv, NoneOf
<1>3. TasksGood'
  <2>1. TaskGood(t, jobs'[t], commits', ref', RefOrHead', folder')
    BY <1>1, <1>2, TaskStays DEF WorkInv
  <2> QED BY <1>1, <1>2, <2>1, TasksStay DEF WorkInv
<1>4. \A u \in Task : SnapshotOf(u)' \in {SnapshotOf(u), 0}
  BY DEF SnapshotOf, NoLanding, HasSnapshot
<1>5. OnlyTrunkShared'
  <2>1. Mine(commits', jobs'[t], SnapshotOf(t)') \subseteq Mine(commits, jobs[t], SnapshotOf(t))
    BY <1>1, <1>4, MineStays DEF SameCheckout
  <2>2. Past(commits', RefOrHead') = Past(commits, RefOrHead)
    BY <1>1
  <2> QED BY <1>1, <1>4, <2>1, <2>2, SharedStays DEF WorkInv
<1>6. landing.pc # "free" => SameCheckout(jobs[landing.of], jobs'[landing.of])
  BY DEF LandInv, LandingOK, OneJob, SameCheckout
<1>7. SnapshotOnTrunk' /\ LandingWork'
  BY <1>6, LandingStays DEF WorkInv
<1> QED BY <1>3, <1>5, <1>7 DEF WorkInv

\* A checkout and its branch are gone.
LEMMA CheckoutGone ==
  ASSUME LandInv, WorkInv, NEW t \in Task, OneJob(t),
         jobs'[t].dir = NoDir, jobs'[t].branch = 0, ~ jobs'[t].exists, ~ jobs'[t].isolated,
         UNCHANGED <<folder, commits, ref>>,
         landing' = NoLanding \/ (landing' = landing /\ LockIsFree)
  PROVE  WorkInv'
<1>1. /\ Grown(commits, commits') /\ FolderGrows /\ RefOrHead' = RefOrHead
      /\ History(commits)
  BY GrownItself, WithinItself DEF LandInv, FolderGrows, RefOrHead
<1>2. \A u \in Task : SameTrunk(u) /\ NoneOf(u, folder, folder')
  BY <1>1, RefStaysSame DEF WorkInv, NoneOf
<1>3. NoDir.onto = 0 /\ NoDir.unmerged = {} /\ \A f \in File : NoDir.tree[f] = {}
  BY DEF NoDir
<1>4. TaskGood(t, jobs'[t], commits', ref', RefOrHead', folder')
  BY <1>3 DEF TaskGood, Foreign
<1>5. TasksGood'
  BY <1>1, <1>2, <1>4, TasksStay DEF WorkInv
<1>6. \A u \in Task : SnapshotOf(u)' = 0
  BY DEF SnapshotOf, NoLanding, HasSnapshot, LockIsFree
<1>7. OnlyTrunkShared'
  <2>1. Mine(commits', jobs'[t], SnapshotOf(t)') = {}
    BY <1>3, <1>6 DEF Mine, PastOf
  <2>2. Past(commits', RefOrHead') = Past(commits, RefOrHead)
    BY <1>1
  <2> QED BY <1>1, <1>6, <2>1, <2>2, SharedStays DEF WorkInv
<1>8. SnapshotOnTrunk' /\ LandingWork'
  BY DEF SnapshotOnTrunk, LandingWork, HasSnapshot, NoLanding, LockIsFree
<1> QED BY <1>5, <1>7, <1>8 DEF WorkInv

-----------------------------------------------------------------------------
(* People and agents write.                                                *)

LEMMA FolderEdited ==
  ASSUME LandInv, WorkInv, NEW f \in File, NEW e, e[2] \notin Task,
         folder' = [folder EXCEPT ![f] = @ \cup {e}],
         UNCHANGED <<commits, ref, jobs, landing>>
  PROVE  WorkInv'
<1>1. Grown(commits, commits') /\ RefOrHead' = RefOrHead
  BY GrownItself DEF LandInv, RefOrHead
<1>2. IsTree(folder) /\ FolderGrows
  BY AddsToTree DEF LandInv, FolderGrows
<1>3. \A u \in Task : SameTrunk(u) /\ NoneOf(u, folder, folder')
  <2>1. \A g \in File : \A x \in folder'[g] : x \in folder[g] \/ x = e
    BY <1>2 DEF IsTree
  <2> QED BY <1>1, <2>1, RefStaysSame DEF WorkInv, NoneOf
<1>4. TasksGood'
  <2> SUFFICES ASSUME NEW u \in Task
               PROVE  TaskGood(u, jobs'[u], commits', ref', RefOrHead', folder')
    BY DEF TasksGood
  <2> QED BY <1>1, <1>2, <1>3, TaskStays DEF WorkInv, SameCheckout
<1>5. OnlyTrunkShared' /\ SnapshotOnTrunk'
  BY <1>1 DEF WorkInv, OnlyTrunkShared, SnapshotOf, SnapshotOnTrunk, Common, Past, Mine, PastOf
<1>6. landing.pc # "free" => landing.of \in Task
  BY DEF LandInv, LandingOK
<1>7. LandingWork'
  <2>1. \A g \in File : folder[g] \subseteq folder'[g]
    BY <1>2 DEF FolderGrows, Within
  <2>2. landing.pc \in {"merge", "conflict"} =>
          \A g \in File : \A x \in folder'[g] :
             x[2] = landing.of => x \in commits[landing.w].tree[g]
    BY <1>3, <1>6 DEF WorkInv, LandingWork, NoneOf
  <2>3. landing.pc \in {"check", "write"} => Foreign(landing.of, landing.tree, folder')
    BY <2>1 DEF WorkInv, LandingWork, Foreign
  <2>4. landing.pc = "save" => Within(commits[jobs[landing.of].branch].tree, folder')
    BY <2>1 DEF WorkInv, LandingWork, Within
  <2>5. /\ landing.pc = "conflict" \/ (landing.pc = "merge" /\ jobs[landing.of].dir.onto # 0) =>
             ClashAt(commits', RefOrHead', jobs[landing.of].branch, commits[landing.w].tree)
        /\ landing.pc = "save" => jobs[landing.of].branch \in Past(commits', ref)
    BY <1>1 DEF WorkInv, LandingWork, ClashAt, Common, Past
  <2> QED BY <2>2, <2>3, <2>4, <2>5 DEF WorkInv, LandingWork
<1> QED BY <1>4, <1>5, <1>7 DEF WorkInv

\* A checkout changes that no landing holds.
LEMMA CheckoutEdited ==
  ASSUME LandInv, WorkInv, NEW t \in Task, OneJob(t), landing.of # t,
         jobs'[t].branch = jobs[t].branch, jobs'[t].dir.onto = jobs[t].dir.onto,
         TaskGood(t, jobs'[t], commits, ref, RefOrHead, folder),
         UNCHANGED <<folder, commits, ref, landing>>
  PROVE  WorkInv'
<1>1. /\ Grown(commits, commits') /\ FolderGrows /\ RefOrHead' = RefOrHead
      /\ History(commits)
  BY GrownItself, WithinItself DEF LandInv, FolderGrows, RefOrHead
<1>2. \A u \in Task : SameTrunk(u) /\ NoneOf(u, folder, folder')
  BY <1>1, RefStaysSame DEF WorkInv, NoneOf
<1>3. TasksGood'
  <2>1. TaskGood(t, jobs'[t], commits', ref', RefOrHead', folder')
    BY <1>1
  <2> QED BY <1>1, <1>2, <2>1, TasksStay DEF WorkInv
<1>4. \A u \in Task : SnapshotOf(u)' = SnapshotOf(u)
  BY DEF SnapshotOf
<1>5. OnlyTrunkShared'
  <2>1. Mine(commits', jobs'[t], SnapshotOf(t)') \subseteq Mine(commits, jobs[t], SnapshotOf(t))
    BY <1>1, <1>4, MineStays
  <2>2. Past(commits', RefOrHead') = Past(commits, RefOrHead)
    BY <1>1
  <2> QED BY <1>1, <1>4, <2>1, <2>2, SharedStays DEF WorkInv
<1>6. landing.pc # "free" => SameCheckout(jobs[landing.of], jobs'[landing.of])
  BY DEF LandInv, LandingOK, OneJob, SameCheckout
<1>7. SnapshotOnTrunk' /\ LandingWork'
  BY <1>6, LandingStays DEF WorkInv
<1> QED BY <1>3, <1>5, <1>7 DEF WorkInv

LEMMA JobsTyped ==
  ASSUME LandInv
  PROVE  jobs = [u \in Task |-> jobs[u]]
BY DEF LandInv, JobsOK

\* The record of t becomes k.
LEMMA OneJobIs ==
  ASSUME LandInv, NEW t \in Task, NEW k, jobs' = [jobs EXCEPT ![t] = k]
  PROVE  OneJob(t) /\ jobs'[t] = k
BY JobsTyped DEF OneJob

\* A checkout only t writes in, and what it writes is its own.
LEMMA AgentEditsWork ==
  ASSUME LandInv, WorkInv, NEW t \in Task, NEW f \in File, AgentEdits(t, f)
  PROVE  WorkInv'
<1> DEFINE place == IF jobs[t].isolated /\ jobs[t].exists THEN t ELSE "folder"
           e == NewEdit(f, place)
<1>1. /\ place = t => /\ jobs' = [jobs EXCEPT ![t].dir.tree[f] = @ \union {e}]
                      /\ UNCHANGED folder
      /\ place # t => /\ folder' = [folder EXCEPT ![f] = @ \union {e}]
                      /\ UNCHANGED jobs
      /\ landing.of # t /\ UNCHANGED <<commits, ref, landing>>
  BY DEF AgentEdits
<1>2. e[2] = place /\ (place = t \/ place = "folder")
  BY DEF NewEdit
<1>3. CASE place = t
  <2>0. jobs[t].exists
    BY <1>3, LandingAssumption
  <2> DEFINE j == jobs[t]
             tree == [j.dir.tree EXCEPT ![f] = @ \cup {e}]
             dir == [j.dir EXCEPT !.tree = tree]
             k == [j EXCEPT !.dir = dir]
  <2>1. jobs' = [jobs EXCEPT ![t] = k]
    BY <1>1, <1>3, JobsTyped
  <2>2. JobOK(j, commits) /\ TaskGood(t, j, commits, ref, RefOrHead, folder)
    BY TaskOK DEF WorkInv, TasksGood
  <2> HIDE DEF j, e, place
  <2>3. \A g \in File : \A x \in tree[g] : x \in j.dir.tree[g] \/ x = e
    <3>1. IsTree(j.dir.tree)
      BY <2>2 DEF JobOK
    <3> DEFINE y == j.dir.tree
    <3> HIDE DEF y
    <3> QED BY <3>1 DEF IsTree, y
  <2> HIDE DEF tree
  <2>4. DOMAIN j.dir = DirFields /\ DOMAIN j = JobFields
    BY <2>2 DEF JobOK
  <2>5. dir.tree = tree /\ dir.onto = j.dir.onto /\ dir.unmerged = j.dir.unmerged
    BY <2>4 DEF DirFields
  <2> HIDE DEF dir
  <2>6. /\ k.dir = dir /\ k.branch = j.branch
        /\ (k.exists <=> j.exists) /\ (k.isolated <=> j.isolated)
    BY <2>4 DEF JobFields
  <2> HIDE DEF k
  <2>7. TaskGood(t, k, commits, ref, RefOrHead, folder)
    <3>1. Foreign(t, tree, folder)
      BY <1>2, <1>3, <2>2, <2>3 DEF TaskGood, Foreign
    <3>2. j.branch # 0
      BY <2>0, <2>2 DEF TaskGood, j
    <3> QED BY <2>2, <2>5, <2>6, <3>1, <3>2 DEF TaskGood
  <2>8. OneJob(t) /\ jobs'[t] = k
    BY <2>1, OneJobIs
  <2> QED BY <1>1, <1>3, <2>5, <2>6, <2>7, <2>8, CheckoutEdited DEF j
<1>4. CASE place # t
  <2>1. e[2] \notin Task
    BY <1>2, <1>4, LandingAssumption
  <2> HIDE DEF e, place
  <2> QED BY <1>1, <1>4, <2>1, FolderEdited
<1> QED BY <1>3, <1>4

LEMMA PersonEditsWork ==
  ASSUME LandInv, WorkInv, NEW f \in File, PersonEdits(f)
  PROVE  WorkInv'
<1> DEFINE e == NewEdit(f, "folder")
<1>1. /\ folder' = [folder EXCEPT ![f] = @ \cup {e}]
      /\ UNCHANGED <<commits, ref, jobs, landing>>
  BY DEF PersonEdits
<1>2. e[2] \notin Task
  BY LandingAssumption DEF NewEdit
<1> HIDE DEF e
<1> QED BY <1>1, <1>2, FolderEdited

LEMMA ResolveWork ==
  ASSUME LandInv, WorkInv, NEW t \in Task, NEW f \in File, Resolve(t, f)
  PROVE  WorkInv'
<1> DEFINE j == jobs[t]
           dir == [j.dir EXCEPT !.unmerged = @ \ {f}]
           k == [j EXCEPT !.dir = dir]
<1>1. /\ jobs' = [jobs EXCEPT ![t] = k] /\ landing.of # t
      /\ UNCHANGED <<folder, commits, ref, landing>>
  BY JobsTyped DEF Resolve
<1>2. JobOK(j, commits) /\ TaskGood(t, j, commits, ref, RefOrHead, folder)
  BY TaskOK DEF WorkInv, TasksGood
<1> HIDE DEF j
<1>3. DOMAIN j.dir = DirFields /\ DOMAIN j = JobFields
  BY <1>2 DEF JobOK
<1>4. dir.tree = j.dir.tree /\ dir.onto = j.dir.onto /\ dir.unmerged \subseteq j.dir.unmerged
  BY <1>3 DEF DirFields
<1> HIDE DEF dir
<1>5. /\ k.dir = dir /\ k.branch = j.branch
      /\ (k.exists <=> j.exists) /\ (k.isolated <=> j.isolated)
  BY <1>3 DEF JobFields
<1> HIDE DEF k
<1>6. TaskGood(t, k, commits, ref, RefOrHead, folder)
  BY <1>2, <1>4, <1>5 DEF TaskGood
<1>7. OneJob(t) /\ jobs'[t] = k
  BY <1>1, OneJobIs
<1> QED BY <1>1, <1>4, <1>5, <1>6, <1>7, CheckoutEdited DEF j

LEMMA TakesWork ==
  ASSUME LandInv, WorkInv, NEW t \in Task, NEW byDone, Takes(t, byDone)
  PROVE  WorkInv'
<1>1. /\ landing'.pc = "begin" /\ UNCHANGED <<folder, commits, ref, jobs>>
      /\ RefOrHead' = RefOrHead
  BY DEF Takes, NoLanding, RefOrHead
<1>2. TasksGood'
  BY <1>1 DEF WorkInv, TasksGood, TaskGood, ClashAt, Common, Past
<1>3. \A u \in Task : SnapshotOf(u)' = 0
  BY <1>1 DEF SnapshotOf, HasSnapshot
<1>4. OnlyTrunkShared'
  <2>1. \A u \in Task : Mine(commits', jobs'[u], SnapshotOf(u)')
                          \subseteq Mine(commits, jobs[u], SnapshotOf(u))
    BY <1>1, <1>3 DEF Mine, PastOf, Past
  <2>2. Past(commits', RefOrHead') = Past(commits, RefOrHead)
    BY <1>1
  <2> QED BY <2>1, <2>2 DEF WorkInv, OnlyTrunkShared
<1>5. SnapshotOnTrunk' /\ LandingWork'
  BY <1>1 DEF SnapshotOnTrunk, LandingWork, HasSnapshot
<1> QED BY <1>1, <1>2, <1>4, <1>5 DEF WorkInv, Young

-----------------------------------------------------------------------------
(* Commits.                                                                *)

LEMMA ClashGrown ==
  ASSUME NEW log, NEW new, History(log), Grown(log, new),
         NEW head \in 1 .. Len(log), NEW b \in 1 .. Len(log), NEW ours,
         ClashAt(log, head, b, ours)
  PROVE  ClashAt(new, head, b, ours)
<1>1. Common(new, head, b) = Common(log, head, b)
  BY CommonStays
<1>2. Max(Common(log, head, b)) \in 1 .. Len(log)
  BY CommonLatest
<1>3. new[Max(Common(log, head, b))] = log[Max(Common(log, head, b))] /\ new[b] = log[b]
  BY <1>2, PastStays
<1> QED BY <1>1, <1>3 DEF ClashAt

LEMMA GoodGrown ==
  ASSUME NEW t, NEW k, NEW log, NEW new, NEW r, NEW head \in 1 .. Len(log), NEW fold,
         History(log), Grown(log, new), k.branch \in 0 .. Len(log),
         TaskGood(t, k, log, r, head, fold)
  PROVE  TaskGood(t, k, new, r, head, fold)
<1>1. ASSUME k.dir.onto # 0 PROVE ClashAt(new, head, k.branch, fold)
  <2>1. k.branch \in 1 .. Len(log) /\ ClashAt(log, head, k.branch, fold)
    BY <1>1 DEF TaskGood, History
  <2> QED BY <2>1, ClashGrown
<1> QED BY <1>1 DEF TaskGood

\* A landing of another task, while commits are added off the trunk.
LEMMA LandingGrows ==
  ASSUME LandInv, WorkInv, UNCHANGED <<folder, ref, landing>>, Grown(commits, commits'),
         landing.pc # "free" => SameCheckout(jobs[landing.of], jobs'[landing.of])
  PROVE  SnapshotOnTrunk' /\ LandingWork'
<1>1. CASE landing.pc = "free"
  BY <1>1 DEF SnapshotOnTrunk, LandingWork, HasSnapshot
<1>2. CASE landing.pc # "free"
  <2> DEFINE j == jobs[landing.of]
             w == landing.w
  <2>1. jobs'[landing.of].dir = j.dir /\ jobs'[landing.of].branch = j.branch
    BY <1>2 DEF SameCheckout
  <2>2. landing.of \in Task /\ j.exists
    BY <1>2 DEF LandInv, LandingOK
  <2>3. j.branch \in 1 .. Len(commits)
    BY <2>2, BranchIs
  <2>4. landing.pc \in HasSnapshot => w \in 1 .. Len(commits)
    BY DEF LandInv, LandingOK, SnapshotOK, HasSnapshot
  <2>5. /\ RefOrHead' = RefOrHead /\ RefOrHead \in 1 .. Len(commits)
        /\ Past(commits', RefOrHead) = Past(commits, RefOrHead)
        /\ History(commits)
    BY RefStaysSame, RefOrHeadIs DEF WorkInv, LandInv
  <2>6. commits'[j.branch] = commits[j.branch]
    BY <2>3, <2>5, PastStays
  <2>7. ASSUME landing.pc \in HasSnapshot
        PROVE  /\ commits'[w] = commits[w] /\ Past(commits', w) = Past(commits, w)
               /\ Common(commits', w, j.branch) = Common(commits, w, j.branch)
    BY <2>3, <2>4, <2>5, <2>7, PastStays, CommonStays
  <2>8. ref # 0 => Past(commits', ref) = Past(commits, ref)
    BY <2>5 DEF RefOrHead
  <2>9. SnapshotOnTrunk'
    BY <2>1, <2>5, <2>7 DEF WorkInv, SnapshotOnTrunk
  <2>10. ASSUME landing.pc = "conflict" \/ (landing.pc = "merge" /\ j.dir.onto # 0)
         PROVE  ClashAt(commits', RefOrHead, j.branch, commits'[w].tree)
    <3>1. ClashAt(commits, RefOrHead, j.branch, commits[w].tree)
      BY <2>10 DEF WorkInv, LandingWork
    <3>2. commits'[w] = commits[w]
      BY <2>7, <2>10 DEF HasSnapshot
    <3> QED BY <2>3, <2>5, <3>1, <3>2, ClashGrown
  <2>11. landing.pc \in {"merge", "conflict"} => commits'[w] = commits[w]
    BY <2>7 DEF HasSnapshot
  <2>12. LandingWork => LandingWork'
    <3> HIDE DEF j, w
    <3>1. LandingWork => 
            /\ landing.pc \in {"merge", "check", "write", "save", "conflict"} /\ j.dir.onto = 0 =>
                  j.dir.tree = commits'[j.branch].tree
            /\ landing.pc \in {"check", "write", "save"} => j.dir.onto = 0
            /\ landing.pc \in {"check", "write"} => Foreign(landing.of, landing.tree, folder)
      BY <2>6 DEF LandingWork, j
    <3>2. LandingWork /\ landing.pc \in {"merge", "conflict"} =>
            /\ Foreign(landing.of, j.dir.tree, commits'[w].tree)
            /\ \A f \in File : \A x \in folder[f] :
                  x[2] = landing.of => x \in commits'[w].tree[f]
      BY <2>11 DEF LandingWork, j, w
    <3>3. LandingWork /\ landing.pc = "save" =>
            /\ ref # 0 /\ j.branch \in Past(commits', ref)
            /\ Within(commits'[j.branch].tree, folder)
      BY <2>6, <2>8 DEF LandingWork, j
    <3> QED BY <2>1, <2>5, <2>10, <3>1, <3>2, <3>3 DEF LandingWork, j, w
  <2> QED BY <2>9, <2>12 DEF WorkInv
<1> QED BY <1>1, <1>2

\* The checkout becomes a commit on its branch, a merge included.
LEMMA TipWork ==
  ASSUME LandInv, WorkInv, NEW t \in Task, jobs[t].exists, jobs[t].dir.unmerged = {}
  PROVE  LET new == Tip(commits, jobs[t])
             k   == OnTip(commits, jobs[t])
         IN  /\ Young(new) /\ Len(new) = Len(commits) + 1
             /\ Past(new, Len(commits) + 1) =
                  {Len(commits) + 1} \cup Past(commits, jobs[t].branch)
                                     \cup PastOf(commits, jobs[t].dir.onto)
             /\ k.branch = Len(commits) + 1 /\ k.dir.onto = 0 /\ k.dir.unmerged = {}
             /\ k.dir.tree = jobs[t].dir.tree
             /\ (k.exists <=> jobs[t].exists) /\ (k.isolated <=> jobs[t].isolated)
             /\ TaskGood(t, k, new, ref, RefOrHead, folder)
<1> DEFINE j == jobs[t]
           new == Tip(commits, j)
           dir == [j.dir EXCEPT !.onto = 0]
           k == [j EXCEPT !.branch = Len(commits) + 1, !.dir = dir]
<1>1. JobOK(j, commits) /\ j.exists /\ TaskGood(t, j, commits, ref, RefOrHead, folder)
  BY TaskOK DEF WorkInv, TasksGood
<1>2. k = OnTip(commits, jobs[t])
  BY <1>1 DEF OnTip, JobOK, JobFields, DirFields
<1>3. j.dir.unmerged = {}
  OBVIOUS
<1>4. History(commits) /\ Young(commits) /\ Len(commits) \in Nat
  BY DEF LandInv, WorkInv, History
<1> HIDE DEF j
<1>5. DOMAIN j.dir = DirFields /\ DOMAIN j = JobFields
  BY <1>1 DEF JobOK
<1>6. dir.tree = j.dir.tree /\ dir.onto = 0 /\ dir.unmerged = {}
  BY <1>3, <1>5 DEF DirFields
<1> HIDE DEF dir
<1>7. /\ k.dir = dir /\ k.branch = Len(commits) + 1
      /\ (k.exists <=> j.exists) /\ (k.isolated <=> j.isolated)
  BY <1>5 DEF JobFields
<1> HIDE DEF k
<1>8. TaskGood(t, k, new, ref, RefOrHead, folder)
  <2>1. Len(commits) + 1 # 0
    BY <1>4
  <2> QED BY <1>1, <1>6, <1>7, <2>1 DEF TaskGood
<1>9. /\ TipParents(j) \subseteq 1 .. Len(commits)
      /\ UNION {Past(commits, c) : c \in TipParents(j)} =
           Past(commits, j.branch) \cup PastOf(commits, j.dir.onto)
  <2>1. TipParents(j) \subseteq 1 .. Len(commits)
    BY <1>1, <1>4 DEF JobOK, TipParents
  <2>2. CASE j.dir.onto = 0
    <3>1. TipParents(j) = {j.branch}
      BY <2>2 DEF TipParents
    <3> QED BY <2>1, <2>2, <3>1 DEF PastOf
  <2>3. CASE j.dir.onto # 0
    <3>1. TipParents(j) = {j.branch, j.dir.onto}
      BY <2>3 DEF TipParents
    <3> QED BY <2>1, <2>3, <3>1 DEF PastOf
  <2> QED BY <2>2, <2>3
<1>10. /\ Young(new)
       /\ Past(new, Len(commits) + 1) =
            {Len(commits) + 1} \cup Past(commits, j.branch) \cup PastOf(commits, j.dir.onto)
  <2>1. new = Put(commits, j.dir.tree, TipParents(j))
    BY DEF Tip
  <2> HIDE DEF new
  <2>2. /\ Young(new)
        /\ Past(new, Len(commits) + 1) =
             {Len(commits) + 1} \cup UNION {Past(commits, c) : c \in TipParents(j)}
    BY <1>4, <1>9, <2>1, PutPast
  <2> QED BY <1>9, <2>2
<1>11. Len(new) = Len(commits) + 1
  <2> DEFINE e == [tree |-> j.dir.tree, past |-> UNION {Past(commits, c) : c \in TipParents(j)}]
  <2>1. new = Append(commits, e)
    BY DEF Tip, Put
  <2> HIDE DEF e, new
  <2> QED BY <1>4, <2>1, AppendedSeq DEF History
<1> HIDE DEF new
<1>12. /\ Young(new) /\ Len(new) = Len(commits) + 1
       /\ Past(new, Len(commits) + 1) =
             {Len(commits) + 1} \cup Past(commits, j.branch) \cup PastOf(commits, j.dir.onto)
       /\ k.branch = Len(commits) + 1 /\ k.dir.onto = 0 /\ k.dir.unmerged = {}
       /\ k.dir.tree = j.dir.tree
       /\ (k.exists <=> j.exists) /\ (k.isolated <=> j.isolated)
       /\ TaskGood(t, k, new, ref, RefOrHead, folder)
  BY <1>6, <1>7, <1>8, <1>10, <1>11
<1> QED BY <1>2, <1>12 DEF j, new

\* What a task has after a commit is what it had, and the commit.
LEMMA TipMine ==
  ASSUME LandInv, NEW t \in Task, jobs[t].branch # 0, NEW new, Grown(commits, new),
         NEW k, k.branch = Len(commits) + 1, k.dir.onto = 0,
         Past(new, Len(commits) + 1) =
           {Len(commits) + 1} \cup Past(commits, jobs[t].branch)
                              \cup PastOf(commits, jobs[t].dir.onto),
         NEW w \in {SnapshotOf(t), 0}, NEW x \in Mine(new, k, w)
  PROVE  x \in Mine(commits, jobs[t], SnapshotOf(t)) \/ x \notin 1 .. Len(commits)
<1>1. History(commits) /\ Len(commits) \in Nat /\ SnapshotOf(t) \in 0 .. Len(commits)
  BY MineTyped DEF LandInv, History
<1>2. PastOf(new, 0) = {} /\ PastOf(commits, 0) = {}
  BY DEF PastOf
<1>3. PastOf(new, w) \subseteq PastOf(commits, SnapshotOf(t))
  <2>1. CASE w = 0
    BY <1>2, <2>1
  <2>2. CASE w # 0
    BY <1>1, <2>2, PastStays DEF PastOf
  <2> QED BY <2>1, <2>2
<1>4. PastOf(new, k.branch) = Past(new, Len(commits) + 1)
  BY <1>1 DEF PastOf
<1>5. PastOf(commits, jobs[t].branch) = Past(commits, jobs[t].branch)
  BY DEF PastOf
<1>6. Len(commits) + 1 \notin 1 .. Len(commits)
  BY <1>1
<1> QED BY <1>2, <1>3, <1>4, <1>5, <1>6 DEF Mine

LEMMA AgentCommitsWork ==
  ASSUME LandInv, WorkInv, NEW t \in Task, AgentCommits(t)
  PROVE  WorkInv' /\ Grown(commits, commits')
<1> DEFINE k == OnTip(commits, jobs[t])
           new == Tip(commits, jobs[t])
<1>1. /\ commits' = new /\ jobs' = [jobs EXCEPT ![t] = k]
      /\ jobs[t].exists /\ jobs[t].dir.unmerged = {} /\ landing.of # t
      /\ UNCHANGED <<folder, ref, landing>>
  BY DEF AgentCommits
<1>2. History(new) /\ Grown(commits, new)
  BY <1>1, TipKeeps
<1>3. /\ Young(new)
      /\ Past(new, Len(commits) + 1) =
           {Len(commits) + 1} \cup Past(commits, jobs[t].branch)
                              \cup PastOf(commits, jobs[t].dir.onto)
      /\ k.branch = Len(commits) + 1 /\ k.dir.onto = 0
      /\ TaskGood(t, k, new, ref, RefOrHead, folder)
  BY <1>1, TipWork
<1> HIDE DEF k, new
<1>4. OneJob(t) /\ jobs'[t] = k
  BY <1>1, OneJobIs
<1>5. Grown(commits, commits') /\ FolderGrows
  BY <1>1, <1>2, WithinItself DEF FolderGrows
<1>6. /\ RefOrHead' = RefOrHead /\ Past(commits', RefOrHead) = Past(commits, RefOrHead)
      /\ \A u \in Task : SameTrunk(u) /\ NoneOf(u, folder, folder')
  BY <1>1, <1>5, RefStaysSame DEF WorkInv, NoneOf
<1>7. TasksGood'
  <2>1. TaskGood(t, jobs'[t], commits', ref', RefOrHead', folder')
    BY <1>1, <1>3, <1>4, <1>6
  <2> QED BY <1>4, <1>5, <1>6, <2>1, TasksStay DEF WorkInv
<1>8. \A u \in Task : SnapshotOf(u)' = SnapshotOf(u)
  BY <1>1 DEF SnapshotOf
<1>9. OnlyTrunkShared'
  <2>1. jobs[t].branch # 0
    BY <1>1, BranchIs
  <2>2. \A x \in Mine(commits', jobs'[t], SnapshotOf(t)') :
           x \in Mine(commits, jobs[t], SnapshotOf(t)) \/ x \notin 1 .. Len(commits)
    BY <1>1, <1>2, <1>3, <1>4, <1>8, <2>1, TipMine
  <2> QED BY <1>4, <1>5, <1>6, <1>8, <2>2, SharedStays DEF WorkInv
<1>10. landing.pc # "free" => SameCheckout(jobs[landing.of], jobs'[landing.of])
  BY <1>1, <1>4 DEF LandInv, LandingOK, OneJob, SameCheckout
<1>11. SnapshotOnTrunk' /\ LandingWork'
  BY <1>1, <1>5, <1>10, LandingGrows
<1> QED BY <1>1, <1>3, <1>5, <1>7, <1>9, <1>11 DEF WorkInv

-----------------------------------------------------------------------------
(* Worktrees come and go while nobody lands.                               *)

LEMMA TrunkMoves ==
  ASSUME LandInv, NEW u \in Task, Grown(commits, commits'), ref' # 0,
         Past(commits, RefOrHead) \subseteq Past(commits', RefOrHead'),
         \A x \in Past(commits', RefOrHead') :
            \/ x \in Past(commits, RefOrHead) \/ x \notin 1 .. Len(commits)
            \/ jobs[u].branch # 0 => x \notin Past(commits, jobs[u].branch)
  PROVE  SameTrunk(u)
<1> SUFFICES ASSUME jobs[u].branch # 0
             PROVE  Common(commits', RefOrHead', jobs[u].branch) =
                      Common(commits, RefOrHead, jobs[u].branch)
  BY DEF SameTrunk
<1>1. jobs[u].branch \in 1 .. Len(commits) /\ History(commits)
  BY TaskOK DEF JobOK, LandInv, History
<1>2. /\ Past(commits', jobs[u].branch) = Past(commits, jobs[u].branch)
      /\ Past(commits, jobs[u].branch) \subseteq 1 .. Len(commits)
  BY <1>1, PastStays, PastTyped
<1> QED BY <1>2 DEF Common

LEMMA NobodyLands ==
  ASSUME LockIsFree, UNCHANGED landing
  PROVE  /\ SnapshotOnTrunk' /\ LandingWork'
         /\ \A u \in Task : SnapshotOf(u) = 0 /\ SnapshotOf(u)' = 0
BY DEF LockIsFree, SnapshotOnTrunk, LandingWork, HasSnapshot, SnapshotOf

LEMMA CreateWorktreeWork ==
  ASSUME LandInv, WorkInv, NEW t \in Task, CreateWorktree(t)
  PROVE  WorkInv' /\ Onward /\ \A u \in Task : SameTrunk(u)
<1> DEFINE new == Snapped(commits, RefOrHead)
           w == FolderCommit(commits, RefOrHead)
           j == jobs[t]
           dir == [NoDir EXCEPT !.tree = folder]
           k == [j EXCEPT !.run = "live", !.isolated = TRUE, !.exists = TRUE,
                          !.branch = w, !.dir = dir]
<1>0. TaskGood(t, j, commits, ref, RefOrHead, folder) /\ DOMAIN j = JobFields
  BY TaskOK DEF WorkInv, TasksGood
<1>1. /\ LockIsFree /\ commits' = new /\ ref' = w /\ UNCHANGED <<folder, landing>>
      /\ jobs' = [jobs EXCEPT ![t] = k]
  <2>1. j.branch = 0
    BY <1>0 DEF CreateWorktree, TaskGood
  <2> QED BY <2>1, JobsTyped DEF CreateWorktree
<1>2. /\ History(new) /\ Grown(commits, new)
      /\ w \in 1 .. Len(new) /\ new[w].tree = folder
  BY RefOrHeadIs, SnapshotIs DEF LandInv
<1>3. /\ Young(new) /\ Past(commits, RefOrHead) \subseteq Past(new, w)
      /\ \A x \in Past(new, w) : x \in Past(commits, RefOrHead) \/ x = Len(commits) + 1
  BY RefOrHeadIs, SnapshotPast DEF LandInv, WorkInv
<1> HIDE DEF j, new, w
<1>4. dir.tree = folder /\ dir.onto = 0 /\ dir.unmerged = {}
  BY DEF NoDir
<1> HIDE DEF dir
<1>5. k.branch = w /\ k.exists /\ k.isolated /\ k.dir = dir
  BY <1>0 DEF JobFields
<1> HIDE DEF k
<1>6. RefOrHead' = w /\ w # 0 /\ Len(commits) + 1 \notin 1 .. Len(commits)
  BY <1>1, <1>2 DEF RefOrHead, LandInv, History
<1>7. OneJob(t) /\ jobs'[t] = k
  BY <1>1, OneJobIs
<1>8. Grown(commits, commits') /\ FolderGrows
  BY <1>1, <1>2, WithinItself DEF FolderGrows
<1>9. \A u \in Task : SameTrunk(u) /\ NoneOf(u, folder, folder')
  BY <1>1, <1>3, <1>6, <1>8, TrunkMoves DEF NoneOf
<1>10. TasksGood'
  <2>1. TaskGood(t, jobs'[t], commits', ref', RefOrHead', folder')
    BY <1>1, <1>4, <1>5, <1>6, <1>7 DEF TaskGood, Foreign
  <2> QED BY <1>7, <1>8, <1>9, <2>1, TasksStay DEF WorkInv
<1>11. SnapshotOnTrunk' /\ LandingWork' /\ \A u \in Task : SnapshotOf(u) = 0 /\ SnapshotOf(u)' = 0
  BY <1>1, NobodyLands
<1>12. OnlyTrunkShared'
  <2>1. Mine(commits', jobs'[t], SnapshotOf(t)') \subseteq Past(commits', RefOrHead')
    BY <1>4, <1>5, <1>6, <1>7, <1>11 DEF Mine, PastOf
  <2> QED BY <1>1, <1>3, <1>6, <1>7, <1>8, <1>11, <2>1, SharedStays DEF WorkInv
<1>13. Onward
  BY <1>1, <1>3, <1>6, <1>8 DEF Onward
<1> QED BY <1>1, <1>3, <1>9, <1>10, <1>11, <1>12, <1>13 DEF WorkInv

\* With nobody isolated there is nothing to know of the trunk.
LEMMA RebaselineWork ==
  ASSUME LandInv, WorkInv, Rebaseline
  PROVE  WorkInv'
<1>1. /\ LockIsFree /\ commits' = Snapped(commits, HeadCommit)
      /\ \A t \in Task : ~ jobs[t].isolated
      /\ UNCHANGED <<folder, landing, jobs>>
  BY DEF Rebaseline
<1>2. Young(commits')
  <2>1. HeadCommit \in 1 .. Len(commits)
    BY DEF LandInv, History, HeadCommit
  <2> QED BY <1>1, <2>1, SnapshotPast DEF LandInv, WorkInv
<1>3. \A t \in Task : jobs[t].branch = 0 /\ jobs[t].dir.onto = 0
  BY <1>1 DEF WorkInv, TasksGood, TaskGood
<1>4. TasksGood'
  BY <1>1, <1>3 DEF WorkInv, TasksGood, TaskGood, Foreign
<1>5. SnapshotOnTrunk' /\ LandingWork' /\ \A u \in Task : SnapshotOf(u)' = 0
  BY <1>1, NobodyLands
<1>6. OnlyTrunkShared'
  <2>1. \A u \in Task : Mine(commits', jobs'[u], SnapshotOf(u)') = {}
    BY <1>1, <1>3, <1>5 DEF Mine, PastOf
  <2> QED BY <2>1 DEF OnlyTrunkShared
<1> QED BY <1>2, <1>4, <1>5, <1>6 DEF WorkInv

\* clear_task_worktree of a task whose branch has landed, or that a person
\* accepted: all goes, or nothing.
LEMMA ClearedIs ==
  ASSUME NEW j, JobOK(j, commits), NEW unmerged,
         j.branch # 0 => unmerged \/ IsLanded(j.branch),
         j.isolated <=> j.branch # 0
  PROVE  LET k == Cleared(j, unmerged)
         IN  /\ \/ k = j /\ (j.integration = "conflict" \/ j.branch = 0)
                \/ /\ k.dir = NoDir /\ k.branch = 0 /\ ~ k.exists /\ ~ k.isolated
                   /\ j.integration # "conflict"
             /\ DOMAIN k = JobFields
             /\ k.integration = j.integration /\ k.resolvers = j.resolvers
             /\ k.run = j.run /\ k.status = j.status
<1> DEFINE k == [j EXCEPT !.isolated = FALSE, !.exists = FALSE, !.branch = 0, !.dir = NoDir]
<1>1. DOMAIN j = JobFields
  BY DEF JobOK
<1>2. CASE j.integration = "conflict" \/ ~ j.isolated
  BY <1>1, <1>2 DEF Cleared
<1>3. CASE ~ (j.integration = "conflict" \/ ~ j.isolated)
  <2>1. Cleared(j, unmerged) = k
    BY <1>3 DEF Cleared
  <2>2. /\ k.dir = NoDir /\ k.branch = 0 /\ ~ k.exists /\ ~ k.isolated
        /\ DOMAIN k = JobFields
        /\ k.integration = j.integration /\ k.resolvers = j.resolvers
        /\ k.run = j.run /\ k.status = j.status
    BY <1>1 DEF JobFields
  <2> QED BY <1>3, <2>1, <2>2
<1> QED BY <1>2, <1>3

LEMMA CleanUpWork ==
  ASSUME LandInv, WorkInv, NEW t \in Task, CleanUp(t),
         jobs[t].branch # 0 => jobs[t].branch \in Past(commits, ref)
  PROVE  WorkInv'
<1> DEFINE k == Cleared(jobs[t], FALSE)
<1>1. /\ jobs' = [jobs EXCEPT ![t] = k] /\ LockIsFree
      /\ UNCHANGED <<folder, commits, ref, landing>>
  BY DEF CleanUp
<1>2. /\ jobs[t].isolated <=> jobs[t].branch # 0
      /\ jobs[t].branch # 0 => IsLanded(jobs[t].branch)
  BY DEF WorkInv, TasksGood, TaskGood, IsLanded
<1>3. \/ k = jobs[t]
      \/ k.dir = NoDir /\ k.branch = 0 /\ ~ k.exists /\ ~ k.isolated
  BY <1>2, TaskOK, ClearedIs
<1> HIDE DEF k
<1>4. OneJob(t) /\ jobs'[t] = k
  BY <1>1, OneJobIs
<1>5. CASE k = jobs[t]
  BY <1>1, <1>4, <1>5, CheckoutsSame DEF SameCheckout
<1>6. CASE k.dir = NoDir /\ k.branch = 0 /\ ~ k.exists /\ ~ k.isolated
  BY <1>1, <1>4, <1>6, CheckoutGone
<1> QED BY <1>3, <1>5, <1>6

LEMMA AcceptWork ==
  ASSUME LandInv, WorkInv, NEW t \in Task, Accept(t)
  PROVE  WorkInv'
<1> DEFINE j == Cleared(jobs[t], TRUE)
           k == [j EXCEPT !.status = "done"]
<1>1. /\ jobs' = [jobs EXCEPT ![t] = k] /\ LockIsFree
      /\ UNCHANGED <<folder, commits, ref, landing>>
  BY DEF Accept
<1>2. jobs[t].isolated <=> jobs[t].branch # 0
  BY DEF WorkInv, TasksGood, TaskGood
<1>3. /\ \/ j = jobs[t]
         \/ j.dir = NoDir /\ j.branch = 0 /\ ~ j.exists /\ ~ j.isolated
      /\ DOMAIN j = JobFields
  BY <1>2, TaskOK, ClearedIs
<1> HIDE DEF j
<1>4. /\ k.dir = j.dir /\ k.branch = j.branch
      /\ (k.exists <=> j.exists) /\ (k.isolated <=> j.isolated)
  BY <1>3 DEF JobFields
<1> HIDE DEF k
<1>5. OneJob(t) /\ jobs'[t] = k
  BY <1>1, OneJobIs
<1>6. CASE j = jobs[t]
  BY <1>1, <1>4, <1>5, <1>6, CheckoutsSame DEF SameCheckout
<1>7. CASE j.dir = NoDir /\ j.branch = 0 /\ ~ j.exists /\ ~ j.isolated
  BY <1>1, <1>4, <1>5, <1>7, CheckoutGone
<1> QED BY <1>3, <1>6, <1>7

-----------------------------------------------------------------------------
(* Records: the checkouts stand still.                                     *)

LEMMA RecordWork ==
  ASSUME LandInv, WorkInv, NEW t \in Task, NEW k, SameCheckout(jobs[t], k),
         jobs' = [jobs EXCEPT ![t] = k], UNCHANGED <<folder, commits, ref>>,
         landing' = NoLanding \/ landing' = landing
  PROVE  WorkInv'
BY OneJobIs, CheckoutsSame

LEMMA RecordsWork ==
  ASSUME LandInv, WorkInv, NEW t \in Task,
         \/ Start(t) \/ Sweep(t) \/ ReuseWorktree(t) \/ RunEnds(t)
         \/ \E by \in {"lander", "sweep"} : RunResolver(t, by) \/ ResolverNotSent(t, by)
  PROVE  WorkInv'
<1> DEFINE j == jobs[t]
<1>1. DOMAIN j = JobFields /\ jobs = [u \in Task |-> jobs[u]]
  BY TaskOK, JobsTyped
<1>2. CASE Start(t)
  <2> DEFINE k == [Claimed(j) EXCEPT !.spent = IF j.status = "review" THEN 0 ELSE @]
  <2>1. SameCheckout(j, k)
    BY <1>1 DEF SameCheckout, Claimed, JobFields
  <2>2. jobs' = [jobs EXCEPT ![t] = k] /\ UNCHANGED <<folder, commits, ref, landing>>
    BY <1>2 DEF Start
  <2> HIDE DEF k
  <2> QED BY <2>1, <2>2, RecordWork
<1>3. CASE Sweep(t)
  <2> DEFINE k == [j EXCEPT !.resolvers = @ \union {"sweep"}]
  <2>1. SameCheckout(j, k)
    BY <1>1 DEF SameCheckout, JobFields
  <2>2. jobs' = [jobs EXCEPT ![t] = k] /\ UNCHANGED <<folder, commits, ref, landing>>
    BY <1>1, <1>3 DEF Sweep
  <2> HIDE DEF k
  <2> QED BY <2>1, <2>2, RecordWork
<1>4. CASE ReuseWorktree(t)
  <2> DEFINE k == [j EXCEPT !.run = "live"]
  <2>1. SameCheckout(j, k)
    BY <1>1 DEF SameCheckout, JobFields
  <2>2. jobs' = [jobs EXCEPT ![t] = k] /\ UNCHANGED <<folder, commits, ref, landing>>
    BY <1>1, <1>4 DEF ReuseWorktree
  <2> HIDE DEF k
  <2> QED BY <2>1, <2>2, RecordWork
<1>5. CASE RunEnds(t)
  <2> DEFINE k == [j EXCEPT !.run = "none", !.toPerson = TRUE]
  <2>1. SameCheckout(j, k)
    BY <1>1 DEF SameCheckout, JobFields
  <2>2. jobs' = [jobs EXCEPT ![t] = k] /\ UNCHANGED <<folder, commits, ref, landing>>
    BY <1>1, <1>5 DEF RunEnds
  <2> HIDE DEF k
  <2> QED BY <2>1, <2>2, RecordWork
<1>6. ASSUME NEW by, RunResolver(t, by)
      PROVE  WorkInv'
  <2> DEFINE k == [Claimed(j) EXCEPT !.resolvers = @ \ {by},
                                     !.spent = IF @ < MaxResolver THEN @ + 1 ELSE @]
  <2>1. SameCheckout(j, k)
    BY <1>1 DEF SameCheckout, Claimed, JobFields
  <2>2. jobs' = [jobs EXCEPT ![t] = k] /\ UNCHANGED <<folder, commits, ref, landing>>
    BY <1>6 DEF RunResolver
  <2> HIDE DEF k
  <2> QED BY <2>1, <2>2, RecordWork
<1>7. ASSUME NEW by, ResolverNotSent(t, by)
      PROVE  WorkInv'
  <2> DEFINE k == [j EXCEPT !.resolvers = @ \ {by}, !.toPerson = TRUE]
  <2>1. SameCheckout(j, k)
    BY <1>1 DEF SameCheckout, JobFields
  <2>2. jobs' = [jobs EXCEPT ![t] = k] /\ UNCHANGED <<folder, commits, ref, landing>>
    BY <1>1, <1>7 DEF ResolverNotSent
  <2> HIDE DEF k
  <2> QED BY <2>1, <2>2, RecordWork
<1> QED BY <1>2, <1>3, <1>4, <1>5, <1>6, <1>7

LEMMA DoneWork ==
  ASSUME LandInv, WorkInv, NEW t \in Task, Done(t)
  PROVE  WorkInv'
<1>1. CASE jobs[t].isolated /\ jobs[t].exists
  BY <1>1, TakesWork DEF Done
<1>2. CASE ~ (jobs[t].isolated /\ jobs[t].exists)
  <2> DEFINE k == [jobs[t] EXCEPT !.status = "review", !.run = "none"]
  <2>1. SameCheckout(jobs[t], k)
    BY TaskOK DEF SameCheckout, JobFields
  <2>2. jobs' = [jobs EXCEPT ![t] = k] /\ UNCHANGED <<folder, commits, ref, landing>>
    BY <1>2, JobsTyped DEF Done
  <2> HIDE DEF k
  <2> QED BY <2>1, <2>2, RecordWork
<1> QED BY <1>1, <1>2

LEMMA ClosedWork ==
  ASSUME NEW j, DOMAIN j = JobFields
  PROVE  /\ SameCheckout(j, Closed(j)) /\ DOMAIN Closed(j) = JobFields
         /\ Closed(j).integration = j.integration /\ Closed(j).resolvers = j.resolvers
         /\ landing.done => Closed(j).run = "none" /\ Closed(j).status = "review"
         /\ ~ landing.done => Closed(j) = j
<1>1. CASE landing.done
  <2> DEFINE k == [j EXCEPT !.status = "review", !.run = "none"]
  <2>1. Closed(j) = k
    BY <1>1 DEF Closed
  <2>2. /\ SameCheckout(j, k) /\ DOMAIN k = JobFields
        /\ k.integration = j.integration /\ k.resolvers = j.resolvers
        /\ k.run = "none" /\ k.status = "review"
    BY DEF SameCheckout, JobFields
  <2> HIDE DEF k
  <2> QED BY <1>1, <2>1, <2>2
<1>2. CASE ~ landing.done
  BY <1>2 DEF Closed, SameCheckout
<1> QED BY <1>1, <1>2

LEMMA DeferLandingWork ==
  ASSUME LandInv, WorkInv, DeferLanding
  PROVE  WorkInv'
<1> DEFINE t == landing.of
           j == Closed(jobs[t])
           k == [j EXCEPT !.toPerson = TRUE]
<1>1. /\ t \in Task /\ jobs' = [jobs EXCEPT ![t] = k] /\ landing' = NoLanding
      /\ UNCHANGED <<folder, commits, ref>>
  BY DEF DeferLanding, LandInv, LandingOK
<1>2. SameCheckout(jobs[t], j) /\ DOMAIN j = JobFields
  BY <1>1, TaskOK, ClosedWork
<1> HIDE DEF j
<1>3. SameCheckout(jobs[t], k)
  BY <1>2 DEF SameCheckout, JobFields
<1> HIDE DEF k
<1> QED BY <1>1, <1>3, RecordWork

\* A landing that ends without a word.
LEMMA LandingEndsWork ==
  ASSUME LandInv, WorkInv, UNCHANGED <<folder, commits, ref, jobs>>,
         landing' = NoLanding \/ landing' = landing
  PROVE  WorkInv'
<1>1. RefOrHead' = RefOrHead
  BY DEF RefOrHead
<1>2. TasksGood' /\ Young(commits)'
  BY <1>1 DEF WorkInv, TasksGood, TaskGood, ClashAt, Common, Past, Young
<1>3. \A u \in Task : SnapshotOf(u)' \in {SnapshotOf(u), 0}
  BY DEF SnapshotOf, NoLanding, HasSnapshot
<1>4. OnlyTrunkShared'
  <2>1. \A u \in Task : Mine(commits', jobs'[u], SnapshotOf(u)')
                          \subseteq Mine(commits, jobs[u], SnapshotOf(u))
    BY <1>3 DEF Mine, PastOf, Past
  <2>2. Past(commits', RefOrHead') = Past(commits, RefOrHead)
    BY <1>1
  <2> QED BY <2>1, <2>2 DEF WorkInv, OnlyTrunkShared
<1>5. SnapshotOnTrunk' /\ LandingWork'
  BY LandingStays DEF WorkInv, SameCheckout
<1> QED BY <1>2, <1>4, <1>5 DEF WorkInv

\* Landed(j) is j but for its record.
LEMMA LandedIs ==
  ASSUME NEW j, DOMAIN j = JobFields
  PROVE  /\ SameCheckout(j, Landed(j)) /\ DOMAIN Landed(j) = JobFields
         /\ Landed(j).integration = "landed" /\ Landed(j).resolvers = j.resolvers
         /\ landing.done \/ j.run = "none" => Landed(j).run = "none"
<1> DEFINE c == Closed(j)
           k == [c EXCEPT !.integration = "landed", !.spent = 0]
<1>1. /\ SameCheckout(j, c) /\ DOMAIN c = JobFields
      /\ c.resolvers = j.resolvers /\ (landing.done \/ j.run = "none" => c.run = "none")
  BY ClosedWork
<1>2. Landed(j) = k
  BY DEF Landed
<1> HIDE DEF c
<1>3. /\ SameCheckout(j, k) /\ DOMAIN k = JobFields
      /\ k.integration = "landed" /\ k.resolvers = c.resolvers /\ k.run = c.run
  BY <1>1 DEF SameCheckout, JobFields
<1> QED BY <1>1, <1>2, <1>3

LEMMA SaveLandedWork ==
  ASSUME LandInv, WorkInv, SaveLanded
  PROVE  WorkInv'
<1> DEFINE t == landing.of
           k == Landed(jobs[t])
           l == Cleared(k, FALSE)
<1>1. /\ landing.pc = "save" /\ landing' = NoLanding
      /\ UNCHANGED <<folder, commits, ref>>
      /\ jobs' = [jobs EXCEPT ![t] = k] \/ jobs' = [jobs EXCEPT ![t] = l]
  BY DEF SaveLanded
<1>2. t \in Task
  BY <1>1 DEF LandInv, LandingOK
<1>3. SameCheckout(jobs[t], k) /\ DOMAIN k = JobFields
  BY <1>2, TaskOK, LandedIs
<1>4. JobOK(k, commits)
  BY <1>2, <1>3, TaskOK DEF JobOK, SameCheckout
<1>5. jobs[t].isolated <=> jobs[t].branch # 0
  BY <1>2 DEF WorkInv, TasksGood, TaskGood
<1>6. IsLanded(jobs[t].branch)
  BY <1>1 DEF WorkInv, LandingWork, IsLanded
<1> HIDE DEF k
<1>7. \/ l = k
      \/ l.dir = NoDir /\ l.branch = 0 /\ ~ l.exists /\ ~ l.isolated
  <2>1. k.branch # 0 => FALSE \/ IsLanded(k.branch)
    BY <1>3, <1>6 DEF SameCheckout
  <2>2. k.isolated <=> k.branch # 0
    BY <1>3, <1>5 DEF SameCheckout
  <2> QED BY <1>4, <2>1, <2>2, ClearedIs
<1> HIDE DEF l
<1>8. CASE jobs' = [jobs EXCEPT ![t] = k] \/ l = k
  BY <1>1, <1>2, <1>3, <1>8, RecordWork
<1>9. CASE /\ jobs' = [jobs EXCEPT ![t] = l]
           /\ l.dir = NoDir /\ l.branch = 0 /\ ~ l.exists /\ ~ l.isolated
  <2>1. OneJob(t) /\ jobs'[t] = l
    BY <1>2, <1>9, OneJobIs
  <2> QED BY <1>1, <1>2, <1>9, <2>1, CheckoutGone
<1> QED BY <1>1, <1>7, <1>8, <1>9

-----------------------------------------------------------------------------
(* A landing.                                                              *)

\* commit_all leaves a checkout that is its branch, or an open merge.
LEMMA CommitAllWork ==
  ASSUME LandInv, WorkInv, NEW t \in Task, jobs[t].exists
  PROVE  LET log == IF CommitsAll(jobs[t]) THEN Tip(commits, jobs[t]) ELSE commits
             k   == IF CommitsAll(jobs[t]) THEN OnTip(commits, jobs[t]) ELSE jobs[t]
         IN  /\ History(log) /\ Grown(commits, log) /\ Young(log)
             /\ JobOK(k, log) /\ k.exists
             /\ TaskGood(t, k, log, ref, RefOrHead, folder)
             /\ k.dir.onto = 0 => k.dir.tree = log[k.branch].tree
             /\ \A x \in Mine(log, k, 0) :
                   x \in Mine(commits, jobs[t], SnapshotOf(t)) \/ x \notin 1 .. Len(commits)
<1>1. TaskGood(t, jobs[t], commits, ref, RefOrHead, folder) /\ JobOK(jobs[t], commits)
  BY TaskOK DEF WorkInv, TasksGood
<1>2. CASE CommitsAll(jobs[t])
  <2> DEFINE log == Tip(commits, jobs[t])
             k == OnTip(commits, jobs[t])
  <2>1. jobs[t].dir.unmerged = {} /\ jobs[t].branch # 0
    BY <1>2, BranchIs DEF CommitsAll
  <2>2. /\ History(log) /\ Grown(commits, log) /\ JobOK(k, log) /\ k.exists
        /\ log[k.branch].tree = jobs[t].dir.tree
    BY TipKeeps
  <2>3. /\ Young(log) /\ k.branch = Len(commits) + 1 /\ k.dir.onto = 0
        /\ Past(log, Len(commits) + 1) =
             {Len(commits) + 1} \cup Past(commits, jobs[t].branch)
                                \cup PastOf(commits, jobs[t].dir.onto)
        /\ k.dir.tree = jobs[t].dir.tree
        /\ TaskGood(t, k, log, ref, RefOrHead, folder)
    BY <2>1, TipWork
  <2> HIDE DEF log, k
  <2>4. \A x \in Mine(log, k, 0) :
           x \in Mine(commits, jobs[t], SnapshotOf(t)) \/ x \notin 1 .. Len(commits)
    BY <2>1, <2>2, <2>3, TipMine
  <2> QED BY <1>2, <2>2, <2>3, <2>4 DEF log, k
<1>3. CASE ~ CommitsAll(jobs[t])
  <2>1. jobs[t].dir.onto = 0 => jobs[t].dir.tree = commits[jobs[t].branch].tree
    BY <1>1, <1>3 DEF CommitsAll, TaskGood
  <2>2. Mine(commits, jobs[t], 0) \subseteq Mine(commits, jobs[t], SnapshotOf(t))
    BY DEF Mine, PastOf
  <2>3. History(commits) /\ Grown(commits, commits) /\ Young(commits)
    BY GrownItself DEF LandInv, WorkInv
  <2> QED BY <1>1, <1>3, <2>1, <2>2, <2>3
<1> QED BY <1>2, <1>3

LEMMA BeginLandingWork ==
  ASSUME LandInv, WorkInv, NEW t \in Task, t = landing.of, BeginLanding
  PROVE  WorkInv' /\ Grown(commits, commits')
<1> DEFINE log == IF CommitsAll(jobs[t]) THEN Tip(commits, jobs[t]) ELSE commits
           k == IF CommitsAll(jobs[t]) THEN OnTip(commits, jobs[t]) ELSE jobs[t]
           new == Snapped(log, RefOrHead)
           w == FolderCommit(log, RefOrHead)
<1>1. /\ landing.pc = "begin" /\ commits' = new
      /\ landing' = [landing EXCEPT !.pc = "merge", !.w = w]
      /\ UNCHANGED <<folder, ref>>
  BY DEF BeginLanding
<1>2. t \in Task /\ jobs[t].exists /\ DOMAIN landing = DOMAIN NoLanding
  BY <1>1 DEF LandInv, LandingOK
<1>3. jobs' = [jobs EXCEPT ![t] = k]
  BY JobsTyped DEF BeginLanding
<1>4. /\ History(log) /\ Grown(commits, log) /\ Young(log)
      /\ JobOK(k, log) /\ k.exists
      /\ TaskGood(t, k, log, ref, RefOrHead, folder)
      /\ k.dir.onto = 0 => k.dir.tree = log[k.branch].tree
      /\ \A x \in Mine(log, k, 0) :
            x \in Mine(commits, jobs[t], SnapshotOf(t)) \/ x \notin 1 .. Len(commits)
  BY <1>2, CommitAllWork
<1> HIDE DEF log, k
<1>5. OneJob(t) /\ jobs'[t] = k
  BY <1>2, <1>3, OneJobIs
<1>6. /\ RefOrHead \in 1 .. Len(commits) /\ RefOrHead \in 1 .. Len(log)
      /\ log[RefOrHead] = commits[RefOrHead]
      /\ Past(log, RefOrHead) = Past(commits, RefOrHead)
      /\ Within(log[RefOrHead].tree, folder) /\ Len(commits) <= Len(log) /\ Len(log) \in Nat
      /\ Len(commits) \in Nat
  BY <1>4, RefOrHeadIs, PastStays DEF LandInv, Grown
<1>7. /\ History(new) /\ Grown(log, new)
      /\ w \in 1 .. Len(new) /\ new[w].tree = folder
  BY <1>4, <1>6, SnapshotIs DEF LandInv
<1>8. /\ Young(new) /\ Past(log, RefOrHead) \subseteq Past(new, w)
      /\ \A x \in Past(new, w) : x \in Past(log, RefOrHead) \/ x = Len(log) + 1
  BY <1>4, <1>6, SnapshotPast
<1> HIDE DEF new, w
<1>9. Grown(commits, commits') /\ FolderGrows
  BY <1>1, <1>4, <1>7, WithinItself DEF Grown, FolderGrows
<1>10. /\ RefOrHead' = RefOrHead /\ Past(commits', RefOrHead) = Past(commits, RefOrHead)
       /\ \A u \in Task : SameTrunk(u) /\ NoneOf(u, folder, folder')
  BY <1>1, <1>9, RefStaysSame DEF WorkInv, NoneOf
<1>11. TaskGood(t, k, new, ref, RefOrHead, folder)
  <2>1. k.branch \in 0 .. Len(log)
    BY <1>4 DEF JobOK
  <2> QED BY <1>4, <1>6, <1>7, <2>1, GoodGrown
<1>12. TasksGood'
  <2>1. TaskGood(t, jobs'[t], commits', ref', RefOrHead', folder')
    BY <1>1, <1>5, <1>10, <1>11
  <2> QED BY <1>2, <1>5, <1>9, <1>10, <2>1, TasksStay DEF WorkInv
<1>13. /\ landing'.pc = "merge" /\ landing'.w = w /\ landing'.of = t
  BY <1>1, <1>2 DEF NoLanding
<1>14. /\ k.branch \in 1 .. Len(log) /\ Past(new, k.branch) = Past(log, k.branch)
       /\ Past(log, k.branch) \subseteq 1 .. Len(log)
       /\ new[k.branch] = log[k.branch]
  <2>1. k.branch \in 1 .. Len(log)
    BY <1>4, <1>6 DEF JobOK
  <2> QED BY <1>4, <1>7, <2>1, PastStays, PastTyped
<1>15. SnapshotOnTrunk'
  <2>1. Past(commits', RefOrHead') \subseteq Past(commits', w)
    BY <1>1, <1>6, <1>8, <1>10
  <2>2. Common(commits', w, k.branch) \subseteq Past(commits', RefOrHead')
    <3>1. Len(log) + 1 \notin 1 .. Len(log)
      BY <1>6
    <3> QED BY <1>1, <1>6, <1>8, <1>10, <1>14, <3>1 DEF Common
  <2> QED BY <1>5, <1>13, <2>1, <2>2 DEF SnapshotOnTrunk
<1>16. \A u \in Task \ {t} : SnapshotOf(u)' \in {SnapshotOf(u), 0}
  BY <1>13 DEF SnapshotOf
<1>17. SnapshotOf(t)' = w
  BY <1>13 DEF SnapshotOf, HasSnapshot
<1>18. ASSUME NEW x \in Mine(commits', k, w)
       PROVE  \/ x \in Mine(commits, jobs[t], SnapshotOf(t))
              \/ x \in Past(commits', RefOrHead')
              \/ x \notin 1 .. Len(commits)
  <2>1. k.dir.onto \in 0 .. Len(log) /\ k.branch \in 0 .. Len(log)
    BY <1>4 DEF JobOK
  <2>2. \A c \in 0 .. Len(log) : PastOf(new, c) = PastOf(log, c)
    BY <1>4, <1>7, PastStays DEF PastOf
  <2>3. PastOf(new, w) = Past(new, w)
    BY <1>7 DEF PastOf
  <2>4. x \in Mine(log, k, 0) \/ x \in Past(new, w)
    BY <1>1, <1>18, <2>1, <2>2, <2>3 DEF Mine
  <2>5. Len(log) + 1 \notin 1 .. Len(commits)
    BY <1>6
  <2> QED BY <1>1, <1>4, <1>6, <1>8, <1>10, <2>4, <2>5
<1>19. OnlyTrunkShared'
  <2>1. Past(commits, RefOrHead) \subseteq Past(commits', RefOrHead')
    BY <1>10
  <2> QED BY <1>2, <1>5, <1>9, <1>16, <1>17, <1>18, <2>1, SharedStays DEF WorkInv
<1>20. LandingWork'
  <2>1. /\ k.dir.onto = 0 => k.dir.tree = commits'[k.branch].tree
        /\ k.dir.onto # 0 => ClashAt(commits', RefOrHead', k.branch, commits'[w].tree)
        /\ Foreign(t, k.dir.tree, commits'[w].tree)
        /\ folder' = commits'[w].tree
    BY <1>1, <1>4, <1>7, <1>10, <1>11, <1>14 DEF TaskGood
  <2> QED BY <1>5, <1>13, <2>1 DEF LandingWork
<1> QED BY <1>1, <1>8, <1>9, <1>12, <1>15, <1>19, <1>20 DEF WorkInv

\* Only the landing moves, with its snapshot.
LEMMA LandingMovesWork ==
  ASSUME LandInv, WorkInv, NEW t \in Task, t = landing.of,
         UNCHANGED <<folder, commits, ref, jobs>>,
         landing'.of = t, landing'.w = landing.w,
         landing.pc \in HasSnapshot, landing'.pc \in HasSnapshot, LandingWork'
  PROVE  WorkInv'
<1>1. RefOrHead' = RefOrHead /\ \A u \in Task : SnapshotOf(u)' = SnapshotOf(u)
  BY DEF RefOrHead, SnapshotOf
<1>2. TasksGood' /\ Young(commits)'
  BY <1>1 DEF WorkInv, TasksGood, TaskGood, ClashAt, Common, Past, Young
<1>3. OnlyTrunkShared'
  BY <1>1 DEF WorkInv, OnlyTrunkShared, Mine, PastOf, Past
<1>4. SnapshotOnTrunk'
  BY <1>1 DEF WorkInv, SnapshotOnTrunk, Common, Past
<1> QED BY <1>2, <1>3, <1>4 DEF WorkInv

\* The snapshot and the branch have the trunk in common, no more.
LEMMA SnapshotCommon ==
  ASSUME SnapshotOnTrunk, landing.pc \in HasSnapshot
  PROVE  Common(commits, landing.w, jobs[landing.of].branch) =
           Common(commits, RefOrHead, jobs[landing.of].branch)
BY DEF SnapshotOnTrunk, Common

\* What others wrote on a branch is in the folder.
LEMMA BranchForeign ==
  ASSUME LandInv, WorkInv, NEW t \in Task, jobs[t].exists,
         NEW other, Foreign(t, jobs[t].dir.tree, other)
  PROVE  Foreign(t, commits[jobs[t].branch].tree, other)
BY BranchIs DEF Foreign, Within

\* A merge that is clean is of a checkout without an open one.
LEMMA PreflightWork ==
  ASSUME LandInv, WorkInv, NEW t \in Task, t = landing.of, Preflight
  PROVE  WorkInv'
<1> DEFINE w == landing.w
           j == jobs[t]
           pre == MergeOf(commits, w, j.branch)
<1>1. /\ landing.pc = "merge" /\ UNCHANGED <<folder, commits, ref, jobs>>
      /\ landing' = [landing EXCEPT
            !.pc = IF pre.conflicts = {} THEN "check" ELSE "conflict",
            !.tree = pre.tree, !.left = {f \in File : pre.tree[f] # commits[w].tree[f]}]
  BY DEF Preflight
<1>2. /\ j.exists /\ SnapshotOK /\ DOMAIN landing = DOMAIN NoLanding
  BY <1>1 DEF LandInv, LandingOK
<1>3. /\ landing'.pc = (IF pre.conflicts = {} THEN "check" ELSE "conflict")
      /\ landing'.tree = pre.tree /\ landing'.of = t /\ landing'.w = w
  BY <1>1, <1>2 DEF NoLanding
<1>4. w \in 1 .. Len(commits) /\ j.branch \in 1 .. Len(commits)
  BY <1>2, BranchIs DEF SnapshotOK
<1>5. TaskGood(t, j, commits, ref, RefOrHead, folder) /\ RefOrHead' = RefOrHead
  BY <1>1 DEF WorkInv, TasksGood, RefOrHead
<1>6. pre.conflicts # {} <=> ClashAt(commits, RefOrHead, j.branch, commits[w].tree)
  <2>1. Common(commits, w, j.branch) = Common(commits, RefOrHead, j.branch)
    BY <1>1, SnapshotCommon DEF WorkInv, HasSnapshot
  <2> QED BY <2>1, ConflictIsClash
<1>7. pre.conflicts = {} => j.dir.onto = 0
  BY <1>1, <1>6 DEF WorkInv, LandingWork
<1>8. Foreign(t, pre.tree, folder)
  <2> SUFFICES ASSUME NEW f \in File, NEW x \in pre.tree[f], x[2] # t PROVE x \in folder[f]
    BY DEF Foreign
  <2>1. x \in commits[w].tree[f] \/ x \in commits[j.branch].tree[f]
    BY <1>4, MergeOnlyMerges DEF LandInv
  <2>2. Foreign(t, commits[j.branch].tree, folder)
    BY <1>2, <1>5, BranchForeign DEF TaskGood
  <2> QED BY <1>2, <2>1, <2>2 DEF SnapshotOK, Within, Foreign
<1> HIDE DEF pre
<1>9. /\ j.dir.onto = 0 => j.dir.tree = commits[j.branch].tree
      /\ Foreign(t, j.dir.tree, commits[w].tree)
      /\ \A f \in File : \A x \in folder[f] : x[2] = t => x \in commits[w].tree[f]
  BY <1>1 DEF WorkInv, LandingWork
<1>10. /\ UNCHANGED <<folder, commits, ref, jobs>>
       /\ \/ landing'.pc = "check" /\ j.dir.onto = 0
          \/ /\ landing'.pc = "conflict"
             /\ ClashAt(commits, RefOrHead, j.branch, commits[w].tree)
  BY <1>1, <1>3, <1>6, <1>7
<1>11. LandingWork'
  BY <1>3, <1>5, <1>8, <1>9, <1>10 DEF LandingWork
<1> QED BY <1>1, <1>3, <1>10, <1>11, LandingMovesWork DEF HasSnapshot

LEMMA MaterializeWork ==
  ASSUME LandInv, WorkInv, NEW t \in Task, t = landing.of, Materialize
  PROVE  WorkInv'
<1>1. /\ landing.pc = "check" /\ UNCHANGED <<folder, commits, ref, jobs>>
      /\ landing' = [landing EXCEPT !.pc = "write"]
  BY DEF Materialize
<1>2. DOMAIN landing = DOMAIN NoLanding
  BY DEF LandInv, LandingOK
<1>3. /\ landing'.pc = "write" /\ landing'.tree = landing.tree
      /\ landing'.of = t /\ landing'.w = landing.w
  BY <1>1, <1>2 DEF NoLanding
<1>4. LandingWork'
  BY <1>1, <1>3 DEF WorkInv, LandingWork
<1> QED BY <1>1, <1>3, <1>4, LandingMovesWork DEF HasSnapshot

\* The folder takes in what the task wrote, and a landing writes only then
\* when no merge is open for it.
LEMMA WriteFileWork ==
  ASSUME LandInv, WorkInv, NEW t \in Task, t = landing.of, NEW f \in File, WriteFile(f)
  PROVE  WorkInv'
<1>1. /\ landing.pc = "write" /\ f \in landing.left
      /\ folder' = [folder EXCEPT ![f] = landing.tree[f]]
      /\ landing' = [landing EXCEPT !.left = @ \ {f}]
      /\ UNCHANGED <<commits, ref, jobs>>
  BY DEF WriteFile
<1>2. DOMAIN landing = DOMAIN NoLanding /\ IsTree(folder) /\ jobs[t].exists
  BY <1>1 DEF LandInv, LandingOK
<1>3. /\ landing'.pc = "write" /\ landing'.tree = landing.tree
      /\ landing'.of = t /\ landing'.w = landing.w
  BY <1>1, <1>2 DEF NoLanding
<1>4. FolderGrows
  BY WriteFileKeeps
<1>5. Foreign(t, landing.tree, folder) /\ jobs[t].dir.onto = 0
  BY <1>1 DEF WorkInv, LandingWork
<1>6. Grown(commits, commits') /\ RefOrHead' = RefOrHead
  BY <1>1, GrownItself DEF LandInv, RefOrHead
<1>7. \A u \in Task \ {t} : NoneOf(u, folder, folder') /\ SameTrunk(u)
  <2>1. \A g \in File : \A x \in folder'[g] : x \in folder[g] \/ x[2] = t
    BY <1>1, <1>2, <1>5 DEF IsTree, Foreign
  <2>2. \A u \in Task \ {t} : NoneOf(u, folder, folder')
    BY <2>1 DEF NoneOf
  <2> QED BY <1>1, <1>6, <2>2, RefStaysSame DEF WorkInv
<1>8. TasksGood'
  <2>1. TaskGood(t, jobs[t], commits, ref, RefOrHead, folder)
    BY DEF WorkInv, TasksGood
  <2>2. Foreign(t, jobs[t].dir.tree, folder')
    BY <1>4, <2>1 DEF TaskGood, Foreign, FolderGrows, Within
  <2>3. TaskGood(t, jobs'[t], commits', ref', RefOrHead', folder')
    BY <1>1, <1>5, <2>1, <2>2 DEF TaskGood
  <2>4. OneJob(t)
    BY <1>1, JobsTyped DEF OneJob
  <2> QED BY <1>4, <1>6, <1>7, <2>3, <2>4, TasksStay DEF WorkInv
<1>9. \A u \in Task : SnapshotOf(u)' = SnapshotOf(u)
  BY <1>1, <1>3 DEF SnapshotOf
<1>10. OnlyTrunkShared' /\ SnapshotOnTrunk'
  BY <1>1, <1>3, <1>6, <1>9
     DEF WorkInv, OnlyTrunkShared, SnapshotOnTrunk, Mine, PastOf, Past, Common
<1>11. LandingWork'
  <2>1. Foreign(t, landing.tree, folder')
    BY <1>4, <1>5 DEF Foreign, FolderGrows, Within
  <2>2. jobs[t].dir.tree = commits[jobs[t].branch].tree
    BY <1>1, <1>5 DEF WorkInv, LandingWork
  <2> QED BY <1>1, <1>3, <1>5, <2>1, <2>2 DEF LandingWork
<1> QED BY <1>1, <1>8, <1>10, <1>11 DEF WorkInv, Young

\* The branch joins the trunk, and nobody else has anything of it.
LEMMA AdvanceRefWork ==
  ASSUME LandInv, WorkInv, NEW t \in Task, t = landing.of, AdvanceRef
  PROVE  WorkInv' /\ Onward /\ \A u \in Task \ {t} : SameTrunk(u)
<1> DEFINE b == jobs[t].branch
           parents == LandParents(t)
           new == Put(commits, landing.tree, parents)
           top == Len(commits) + 1
<1>1. /\ landing.pc = "write" /\ landing.left = {} /\ commits' = new
      /\ ref' = Len(new) /\ landing' = [landing EXCEPT !.pc = "save"]
      /\ UNCHANGED <<folder, jobs>>
  BY DEF AdvanceRef
<1>2. /\ jobs[t].exists /\ SnapshotOK /\ ResultOK
      /\ DOMAIN landing = DOMAIN NoLanding
  BY <1>1 DEF LandInv, LandingOK
<1>3. /\ landing'.pc = "save" /\ landing'.of = t
  BY <1>1, <1>2 DEF NoLanding
<1>4. b \in 1 .. Len(commits) /\ Within(commits[b].tree, landing.tree)
  BY <1>2, BranchIs DEF ResultOK
<1>5. /\ TaskGood(t, jobs[t], commits, ref, RefOrHead, folder)
      /\ jobs[t].dir.onto = 0 /\ jobs[t].dir.tree = commits[b].tree
  BY <1>1 DEF WorkInv, TasksGood, LandingWork
<1>6. /\ ref # 0 /\ RefOrHead = ref /\ ref \in 1 .. Len(commits) /\ parents = {ref, b}
      /\ Len(commits) \in Nat
  BY <1>4, <1>5, RefOrHeadIs DEF TaskGood, RefOrHead, LandParents, LandInv, History
<1>7. Within(commits[ref].tree, landing.tree)
  <2>1. ref \in Past(commits, landing.w)
    BY <1>2, <1>6 DEF SnapshotOK
  <2>2. Within(commits[ref].tree, commits[landing.w].tree)
    BY <1>2, <2>1, PastWithin DEF SnapshotOK, LandInv
  <2> QED BY <1>2, <2>2, WithinBoth DEF ResultOK
<1>8. /\ Grown(commits, new) /\ Len(new) = top
      /\ Young(new)
      /\ Past(new, top) = {top} \cup UNION {Past(commits, c) : c \in parents}
  <2>1. parents # {} /\ parents \subseteq 1 .. Len(commits)
    BY <1>4, <1>6
  <2>2. \A c \in parents : Within(commits[c].tree, landing.tree)
    BY <1>4, <1>6, <1>7
  <2> HIDE DEF parents, b
  <2>3. History(commits) /\ Young(commits)
    BY DEF LandInv, WorkInv
  <2>4. Grown(commits, new) /\ Len(new) = top
    BY <2>1, <2>2, <2>3, PutKeeps
  <2>5. /\ Past(new, top) = {top} \cup UNION {Past(commits, c) : c \in parents}
        /\ Young(new)
    BY <2>1, <2>3, PutPast
  <2> QED BY <2>4, <2>5
<1>9. Past(new, top) = {top} \cup Past(commits, ref) \cup Past(commits, b)
  BY <1>6, <1>8
<1>10. new[b] = commits[b] /\ Past(new, b) = Past(commits, b)
       /\ b \in Past(commits, b)
  BY <1>4, <1>8, PastStays, PastTyped DEF LandInv
<1> HIDE DEF new, parents, b
<1>11. /\ RefOrHead' = top /\ ref' = top /\ ref' # 0 /\ top \notin 1 .. Len(commits)
       /\ Past(commits', RefOrHead') = {top} \cup Past(commits, RefOrHead) \cup Past(commits, b)
  BY <1>1, <1>6, <1>8, <1>9 DEF RefOrHead
<1>12. Grown(commits, commits') /\ FolderGrows /\ OneJob(t)
  BY <1>1, <1>8, WithinItself, JobsTyped DEF FolderGrows, OneJob
<1>13. Past(commits, b) \subseteq Mine(commits, jobs[t], SnapshotOf(t))
  BY <1>6, <1>4 DEF Mine, PastOf, b
<1>14. \A u \in Task \ {t} : NoneOf(u, folder, folder') /\ SameTrunk(u)
  <2> SUFFICES ASSUME NEW u \in Task \ {t} PROVE SameTrunk(u)
    BY <1>1 DEF NoneOf
  <2>1. \A x \in Past(commits', RefOrHead') :
            \/ x \in Past(commits, RefOrHead) \/ x \notin 1 .. Len(commits)
            \/ jobs[u].branch # 0 => x \notin Past(commits, jobs[u].branch)
    <3>1. jobs[u].branch # 0 =>
            Past(commits, jobs[u].branch) \subseteq Mine(commits, jobs[u], SnapshotOf(u))
      BY DEF Mine, PastOf
    <3>2. Mine(commits, jobs[t], SnapshotOf(t)) \cap Mine(commits, jobs[u], SnapshotOf(u))
            \subseteq Past(commits, RefOrHead)
      BY DEF WorkInv, OnlyTrunkShared
    <3> QED BY <1>11, <1>13, <3>1, <3>2
  <2> QED BY <1>11, <1>12, <2>1, TrunkMoves
<1>15. TasksGood'
  <2>1. TaskGood(t, jobs'[t], commits', ref', RefOrHead', folder')
    BY <1>1, <1>5, <1>11 DEF TaskGood
  <2> QED BY <1>12, <1>14, <2>1, TasksStay DEF WorkInv
<1>16. \A u \in Task : SnapshotOf(u)' = 0
  BY <1>3 DEF SnapshotOf, HasSnapshot
<1>17. OnlyTrunkShared'
  <2>1. Mine(commits', jobs'[t], SnapshotOf(t)') \subseteq Mine(commits, jobs[t], SnapshotOf(t))
    BY <1>1, <1>12, <1>16, MineStays
  <2>2. Past(commits, RefOrHead) \subseteq Past(commits', RefOrHead')
    BY <1>11
  <2> QED BY <1>12, <1>16, <2>1, <2>2, SharedStays DEF WorkInv
<1>18. SnapshotOnTrunk'
  BY <1>3 DEF SnapshotOnTrunk, HasSnapshot
<1>19. LandingWork'
  <2>1. Within(commits[b].tree, folder)
    BY <1>1, <1>2, <1>4 DEF ResultOK, Within
  <2>2. /\ commits'[b] = commits[b] /\ b \in Past(commits', ref')
    BY <1>1, <1>10, <1>11
  <2> QED BY <1>1, <1>3, <1>5, <1>11, <2>1, <2>2 DEF LandingWork, b
<1>20. Onward
  BY <1>11, <1>12 DEF Onward
<1> QED BY <1>1, <1>8, <1>14, <1>15, <1>17, <1>18, <1>19, <1>20 DEF WorkInv

\* The conflict is merged into the checkout; until then a clash with the
\* snapshot, from now on a clash with the folder.
LEMMA LandConflictWork ==
  ASSUME LandInv, WorkInv, NEW t \in Task, t = landing.of, LandConflict
  PROVE  WorkInv'
<1> DEFINE j == jobs[t]
           w == landing.w
           m == MergeOf(commits, j.branch, w)
           dir == [tree |-> m.tree, unmerged |-> m.conflicts, onto |-> w]
           k == [j EXCEPT !.dir = dir]
<1>1. /\ landing.pc = "conflict" /\ landing' = [landing EXCEPT !.pc = "record"]
      /\ UNCHANGED <<folder, commits, ref>>
      /\ jobs' = [jobs EXCEPT ![t] = Conflicted(j)]
  BY DEF LandConflict
<1>2. j.exists /\ SnapshotOK /\ DOMAIN landing = DOMAIN NoLanding
  BY <1>1 DEF LandInv, LandingOK
<1>3. landing'.pc = "record" /\ landing'.of = t /\ landing'.w = w
  BY <1>1, <1>2 DEF NoLanding
<1>4. /\ TaskGood(t, j, commits, ref, RefOrHead, folder) /\ JobOK(j, commits)
      /\ RefOrHead' = RefOrHead
  BY <1>1, TaskOK DEF WorkInv, TasksGood, RefOrHead
<1>5. CASE j.dir.onto # 0 \/ j.dir.unmerged # {}
  <2>1. Conflicted(j) = j
    BY <1>5 DEF Conflicted
  <2>2. UNCHANGED jobs
    BY <1>1, <2>1, JobsTyped
  <2>3. LandingWork'
    BY <1>3 DEF LandingWork
  <2> QED BY <1>1, <1>3, <2>2, <2>3, LandingMovesWork DEF HasSnapshot
<1>6. CASE j.dir.onto = 0 /\ j.dir.unmerged = {}
  <2>1. Conflicted(j) = k
    BY <1>6 DEF Conflicted
  <2>2. /\ w \in 1 .. Len(commits) /\ j.branch \in 1 .. Len(commits)
        /\ Within(commits[w].tree, folder)
    BY <1>2, BranchIs DEF SnapshotOK
  <2>3. /\ ClashAt(commits, RefOrHead, j.branch, commits[w].tree)
        /\ Foreign(t, j.dir.tree, commits[w].tree)
        /\ NoneOf(t, commits[w].tree, folder)
    BY <1>1 DEF WorkInv, LandingWork, NoneOf
  <2>4. ClashAt(commits, RefOrHead, j.branch, folder)
    <3>1. Within(commits[RefOrHead].tree, commits[w].tree)
      <4>1. RefOrHead \in Past(commits, RefOrHead)
        BY DEF Past
      <4>2. RefOrHead \in Past(commits, w)
        BY <1>1, <4>1 DEF WorkInv, SnapshotOnTrunk, HasSnapshot
      <4> QED BY <2>2, <4>2, PastWithin DEF LandInv
    <3>2. Foreign(t, commits[j.branch].tree, commits[w].tree)
      BY <1>2, <2>3, BranchForeign
    <3>3. History(commits) /\ Grown(commits, commits) /\ RefOrHead \in 1 .. Len(commits)
      BY GrownItself, RefOrHeadIs DEF LandInv
    <3> QED BY <2>2, <2>3, <3>1, <3>2, <3>3, ClashStays
  <2>5. Foreign(t, m.tree, folder)
    <3> SUFFICES ASSUME NEW f \in File, NEW x \in m.tree[f], x[2] # t PROVE x \in folder[f]
      BY DEF Foreign
    <3>1. x \in commits[w].tree[f] \/ x \in commits[j.branch].tree[f]
      BY <2>2, MergeOnlyMerges DEF LandInv
    <3>2. Foreign(t, commits[j.branch].tree, folder)
      BY <1>2, <1>4, BranchForeign DEF TaskGood
    <3> QED BY <2>2, <3>1, <3>2 DEF Within, Foreign
  <2>6. OneJob(t) /\ jobs'[t] = k
    BY <1>1, <2>1, OneJobIs
  <2>7. /\ k.dir.tree = m.tree /\ k.dir.onto = w /\ k.branch = j.branch
        /\ (k.exists <=> j.exists) /\ (k.isolated <=> j.isolated)
    <3>1. DOMAIN j = JobFields
      BY <1>4 DEF JobOK
    <3> HIDE DEF j, m, w
    <3> QED BY <3>1 DEF JobFields
  <2> HIDE DEF k, m
  <2>8. TaskGood(t, k, commits, ref, RefOrHead, folder)
    BY <1>4, <2>2, <2>4, <2>5, <2>7 DEF TaskGood
  <2>9. Grown(commits, commits') /\ FolderGrows
    BY <1>1, GrownItself, WithinItself DEF LandInv, FolderGrows
  <2>10. \A u \in Task : NoneOf(u, folder, folder') /\ SameTrunk(u)
    BY <1>1, <2>9, RefStaysSame DEF WorkInv, NoneOf
  <2>11. TasksGood'
    <3>1. TaskGood(t, jobs'[t], commits', ref', RefOrHead', folder')
      BY <1>1, <1>4, <2>6, <2>8
    <3> QED BY <2>6, <2>9, <2>10, <3>1, TasksStay DEF WorkInv
  <2>12. \A u \in Task : SnapshotOf(u)' = SnapshotOf(u)
    BY <1>1, <1>3 DEF SnapshotOf, HasSnapshot
  <2>13. OnlyTrunkShared'
    <3>1. SnapshotOf(t) = w
      BY <1>1 DEF SnapshotOf, HasSnapshot
    <3>2. Mine(commits', jobs'[t], SnapshotOf(t)') \subseteq Mine(commits, jobs[t], SnapshotOf(t))
      BY <1>1, <2>6, <2>7, <2>12, <3>1 DEF Mine, PastOf, Past
    <3>3. Past(commits', RefOrHead') = Past(commits, RefOrHead)
      BY <1>1, <1>4
    <3> QED BY <2>6, <2>9, <2>12, <3>2, <3>3, SharedStays DEF WorkInv
  <2>14. SnapshotOnTrunk'
    BY <1>1, <1>3, <1>4, <2>6, <2>7 DEF WorkInv, SnapshotOnTrunk, HasSnapshot, Common, Past
  <2>15. LandingWork'
    BY <1>3 DEF LandingWork
  <2> QED BY <1>1, <2>11, <2>13, <2>14, <2>15 DEF WorkInv
<1> QED BY <1>5, <1>6

\* The snapshot becomes the trunk: nobody has more of it than before.
LEMMA RecordConflictWork ==
  ASSUME LandInv, WorkInv, NEW t \in Task, t = landing.of, RecordConflict
  PROVE  WorkInv' /\ Onward /\ \A u \in Task : SameTrunk(u)
<1> DEFINE w == landing.w
           j == Closed(jobs[t])
           k == [j EXCEPT
                   !.integration = "conflict",
                   !.resolvers = IF ResolverWanted(jobs[t])
                                 THEN @ \union {"lander"} ELSE @]
<1>1. /\ landing.pc = "record" /\ landing' = NoLanding /\ ref' = w
      /\ jobs' = [jobs EXCEPT ![t] = k] /\ UNCHANGED <<folder, commits>>
  BY DEF RecordConflict, RefAfterConflict
<1>2. SnapshotOK /\ jobs[t].exists
  BY <1>1 DEF LandInv, LandingOK
<1>3. SameCheckout(jobs[t], j) /\ DOMAIN j = JobFields
  BY TaskOK, ClosedWork
<1> HIDE DEF j
<1>4. SameCheckout(jobs[t], k)
  BY <1>3 DEF SameCheckout, JobFields
<1> HIDE DEF k
<1>5. OneJob(t) /\ jobs'[t] = k
  BY <1>1, OneJobIs
<1>6. /\ w \in 1 .. Len(commits) /\ w # 0 /\ RefOrHead' = w
      /\ Past(commits, RefOrHead) \subseteq Past(commits, w)
      /\ Common(commits, w, jobs[t].branch) = Common(commits, RefOrHead, jobs[t].branch)
  <2>1. w \in 1 .. Len(commits) /\ w # 0
    BY <1>2 DEF SnapshotOK
  <2>2. Past(commits, RefOrHead) \subseteq Past(commits, w)
    BY <1>1 DEF WorkInv, SnapshotOnTrunk, HasSnapshot
  <2> QED BY <1>1, <2>1, <2>2, SnapshotCommon DEF WorkInv, HasSnapshot, RefOrHead
<1>7. Grown(commits, commits') /\ FolderGrows
  BY <1>1, GrownItself, WithinItself DEF LandInv, FolderGrows
<1>8. SnapshotOf(t) = w /\ \A u \in Task : SnapshotOf(u)' = 0
  BY <1>1 DEF SnapshotOf, HasSnapshot, NoLanding
<1>9. \A u \in Task : NoneOf(u, folder, folder') /\ SameTrunk(u)
  <2> SUFFICES ASSUME NEW u \in Task PROVE SameTrunk(u)
    BY <1>1 DEF NoneOf
  <2>1. CASE u = t
    BY <1>1, <1>6, <2>1 DEF SameTrunk
  <2>2. CASE u # t
    <3>1. Past(commits, w) \subseteq Mine(commits, jobs[t], SnapshotOf(t))
      BY <1>6, <1>8 DEF Mine, PastOf
    <3>2. jobs[u].branch # 0 =>
            Past(commits, jobs[u].branch) \subseteq Mine(commits, jobs[u], SnapshotOf(u))
      BY DEF Mine, PastOf
    <3>3. Mine(commits, jobs[t], SnapshotOf(t)) \cap Mine(commits, jobs[u], SnapshotOf(u))
            \subseteq Past(commits, RefOrHead)
      BY <2>2 DEF WorkInv, OnlyTrunkShared
    <3>4. \A x \in Past(commits', RefOrHead') :
            \/ x \in Past(commits, RefOrHead) \/ x \notin 1 .. Len(commits)
            \/ jobs[u].branch # 0 => x \notin Past(commits, jobs[u].branch)
      BY <1>1, <1>6, <3>1, <3>2, <3>3
    <3> QED BY <1>1, <1>6, <1>7, <3>4, TrunkMoves
  <2> QED BY <2>1, <2>2
<1>10. TasksGood'
  <2>1. TaskGood(t, k, commits', ref', RefOrHead', folder')
    BY <1>4, <1>7, <1>9, TaskStays DEF WorkInv
  <2> QED BY <1>5, <1>7, <1>9, <2>1, TasksStay DEF WorkInv
<1>11. OnlyTrunkShared'
  <2>1. Mine(commits', jobs'[t], SnapshotOf(t)') \subseteq Mine(commits, jobs[t], SnapshotOf(t))
    BY <1>4, <1>5, <1>7, <1>8, MineStays DEF SameCheckout
  <2>2. Past(commits, RefOrHead) \subseteq Past(commits', RefOrHead')
    BY <1>1, <1>6
  <2> QED BY <1>5, <1>7, <1>8, <2>1, <2>2, SharedStays DEF WorkInv
<1>12. SnapshotOnTrunk' /\ LandingWork'
  BY <1>1 DEF SnapshotOnTrunk, LandingWork, NoLanding, HasSnapshot
<1>13. Onward
  BY <1>1, <1>6, <1>7 DEF Onward
<1> QED BY <1>1, <1>9, <1>10, <1>11, <1>12, <1>13 DEF WorkInv

-----------------------------------------------------------------------------
(* Every step.                                                             *)

LEMMA WorkStart ==
  ASSUME LandInit
  PROVE  WorkInv
<1> DEFINE empty == [f \in File |-> {}]
           root == [tree |-> empty, past |-> {}]
           first == [status |-> "todo", integration |-> "none", run |-> "none",
                     resolvers |-> {}, toPerson |-> FALSE, spent |-> 0,
                     isolated |-> FALSE, branch |-> 0, exists |-> FALSE, dir |-> NoDir]
<1>1. /\ commits = <<root>> /\ jobs = [t \in Task |-> first] /\ landing = NoLanding
  BY DEF LandInit
<1>2. /\ ~ first.isolated /\ first.branch = 0 /\ ~ first.exists /\ first.dir = NoDir
      /\ root.past = {}
  OBVIOUS
<1>3. NoDir.onto = 0 /\ NoDir.unmerged = {} /\ \A f \in File : NoDir.tree[f] = {}
  BY DEF NoDir
<1>4. landing.pc = "free"
  BY <1>1 DEF NoLanding
<1> HIDE DEF root, first, empty
<1>5. Young(commits)
  <2>1. Len(commits) = 1 /\ commits[1] = root
    BY <1>1
  <2> QED BY <1>2, <2>1 DEF Young
<1>6. \A t \in Task : jobs[t] = first
  BY <1>1
<1>7. TasksGood
  BY <1>2, <1>3, <1>6 DEF TasksGood, TaskGood, Foreign
<1>8. OnlyTrunkShared
  <2>1. \A t \in Task : SnapshotOf(t) = 0
    BY <1>4 DEF SnapshotOf, HasSnapshot
  <2> QED BY <1>2, <1>3, <1>6, <2>1 DEF OnlyTrunkShared, Mine, PastOf
<1>9. SnapshotOnTrunk /\ LandingWork
  BY <1>4 DEF SnapshotOnTrunk, LandingWork, HasSnapshot
<1> QED BY <1>5, <1>7, <1>8, <1>9 DEF WorkInv

LEMMA WorkKeeps ==
  ASSUME LandInv, WorkInv, BookInv, [LandNext]_landVars
  PROVE  WorkInv'
<1>1. CASE LandStep
  <2>1. landing.pc # "free"
    BY <1>1 DEF LandStep, BeginLanding, Preflight, Materialize, DeferLanding, AdvanceRef,
                SaveLanded, LandConflict, RecordConflict, WriteFile
  <2>2. PICK t \in Task : t = landing.of
    BY <2>1 DEF LandInv, LandingOK
  <2>3. CASE BeginLanding
    BY <2>2, <2>3, BeginLandingWork
  <2>4. CASE Preflight
    BY <2>2, <2>4, PreflightWork
  <2>5. CASE Materialize
    BY <2>2, <2>5, MaterializeWork
  <2>6. CASE AdvanceRef
    BY <2>2, <2>6, AdvanceRefWork
  <2>7. CASE LandConflict
    BY <2>2, <2>7, LandConflictWork
  <2>8. CASE RecordConflict
    BY <2>2, <2>8, RecordConflictWork
  <2>9. CASE \E f \in File : WriteFile(f)
    BY <2>2, <2>9, WriteFileWork
  <2> QED BY <1>1, <2>3, <2>4, <2>5, <2>6, <2>7, <2>8, <2>9,
             DeferLandingWork, SaveLandedWork DEF LandStep
<1>2. CASE LandingKilled
  BY <1>2, LandingEndsWork DEF LandingKilled
<1>3. CASE Rebaseline \/ \E f \in File : PersonEdits(f)
  BY <1>3, RebaselineWork, PersonEditsWork
<1>4. ASSUME NEW t \in Task,
             \/ Start(t) \/ Sweep(t) \/ ReuseWorktree(t) \/ RunEnds(t)
             \/ \E by \in {"lander", "sweep"} : RunResolver(t, by) \/ ResolverNotSent(t, by)
      PROVE  WorkInv'
  BY <1>4, RecordsWork
<1>5. ASSUME NEW t \in Task, CreateWorktree(t) \/ AgentCommits(t) \/ Done(t) \/ Accept(t)
      PROVE  WorkInv'
  BY <1>5, CreateWorktreeWork, AgentCommitsWork, DoneWork, AcceptWork
<1>6. ASSUME NEW t \in Task, Integrate(t) PROVE WorkInv'
  BY <1>6, TakesWork DEF Integrate
<1>7. ASSUME NEW t \in Task, CleanUp(t) PROVE WorkInv'
  BY <1>7, CleanUpWork DEF CleanUp, AwaitsDeferredCleanup, BookInv, Resting
<1>8. ASSUME NEW t \in Task, NEW f \in File, AgentEdits(t, f) \/ Resolve(t, f)
      PROVE  WorkInv'
  BY <1>8, AgentEditsWork, ResolveWork
<1>9. CASE UNCHANGED landVars
  BY <1>9, LandingEndsWork DEF landVars
<1> QED BY <1>1, <1>2, <1>3, <1>4, <1>5, <1>6, <1>7, <1>8, <1>9 DEF LandNext

-----------------------------------------------------------------------------
(* The work of a task is in its checkout or in the folder.                 *)

LEMMA KeepParts ==
  ASSUME KeepInv
  PROVE  /\ LandInv /\ WorkInv /\ BookInv
         /\ MadeOK /\ LandingAlone
         /\ \A t \in Task : /\ Kept(t) /\ Waiting(t) /\ Resting(t)
                            /\ TaskGood(t, jobs[t], commits, ref, RefOrHead, folder)
                            /\ JobOK(jobs[t], commits) /\ DOMAIN jobs[t] = JobFields
BY TaskOK DEF KeepInv, BookInv, WorkInv, TasksGood

\* Nobody adds work to u, and its branch stays in the trunk.
NothingBy(u) == \A e \in made' : e[2] = u => e \in made

TrunkKept(u) ==
    jobs'[u].branch # 0 => Past(commits, RefOrHead) \subseteq Past(commits', RefOrHead')

SameRecord(j, k) ==
    /\ k.status = j.status /\ k.resolvers = j.resolvers /\ k.run = j.run
    /\ k.integration = j.integration /\ k.branch = j.branch

LEMMA RestStays ==
  ASSUME KeepInv, WorkInv', FolderGrows, NEW t \in Task, NothingBy(t), TrunkKept(t),
         jobs[t].integration = "landed",
         jobs'[t].run = jobs[t].run, jobs'[t].branch = jobs[t].branch
  PROVE  Resting(t)'
<1>1. jobs[t].run = "none" /\ InFolder(t) /\ MadeOK
  BY KeepParts DEF Resting
<1>2. InFolder(t)'
  BY <1>1 DEF InFolder, NothingBy, FolderGrows, Within, MadeOK
<1>3. ASSUME jobs'[t].branch # 0 PROVE jobs'[t].branch \in Past(commits', ref')
  <2>1. ref # 0 /\ jobs[t].branch \in Past(commits, ref)
    BY <1>3, KeepParts DEF Resting, TaskGood
  <2>2. ref' # 0
    BY <1>3 DEF WorkInv, TasksGood, TaskGood
  <2> QED BY <1>3, <2>1, <2>2 DEF TrunkKept, RefOrHead
<1> QED BY <1>1, <1>2, <1>3 DEF Resting

LEMMA KeptStays ==
  ASSUME KeepInv, FolderGrows, NEW t \in Task, NothingBy(t), ~ Settled(t),
         Within(jobs[t].dir.tree, jobs'[t].dir.tree)
  PROVE  Kept(t)'
<1>1. MadeOK /\ Kept(t)
  BY KeepParts
<1> QED BY <1>1 DEF Kept, NothingBy, FolderGrows, Within, MadeOK

LEMMA BookOf ==
  ASSUME KeepInv, WorkInv', FolderGrows, NEW t \in Task, NothingBy(t), TrunkKept(t),
         SameRecord(jobs[t], jobs'[t]), Within(jobs[t].dir.tree, jobs'[t].dir.tree)
  PROVE  Kept(t)' /\ Waiting(t)' /\ Resting(t)'
<1>1. Kept(t)'
  <2>1. CASE Settled(t)
    BY <2>1 DEF Kept, Settled, SameRecord
  <2> QED BY <2>1, KeptStays
<1>2. Waiting(t)'
  BY KeepParts DEF Waiting, SameRecord
<1>3. Resting(t)'
  <2>1. CASE jobs[t].integration = "landed"
    BY <2>1, RestStays DEF SameRecord
  <2>2. CASE jobs[t].integration # "landed"
    BY <2>2 DEF Resting, SameRecord
  <2> QED BY <2>1, <2>2
<1> QED BY <1>1, <1>2, <1>3

LEMMA BookStays ==
  ASSUME KeepInv, WorkInv', FolderGrows, MadeOK', LandingAlone',
         NEW t \in Task, OneJob(t), Kept(t)', Waiting(t)', Resting(t)',
         \A u \in Task \ {t} : NothingBy(u) /\ TrunkKept(u)
  PROVE  BookInv'
<1>1. ASSUME NEW u \in Task, u # t
      PROVE  Kept(u)' /\ Waiting(u)' /\ Resting(u)'
  <2>1. SameRecord(jobs[u], jobs'[u]) /\ Within(jobs[u].dir.tree, jobs'[u].dir.tree)
    BY <1>1 DEF OneJob, SameRecord, Within
  <2> QED BY <1>1, <2>1, BookOf
<1> QED BY <1>1 DEF BookInv

\* One record changes, and no commit, no folder.
LEMMA BookRecord ==
  ASSUME KeepInv, WorkInv', LandingAlone', UNCHANGED <<folder, commits, ref, made>>,
         NEW t \in Task, OneJob(t), Kept(t)', Waiting(t)', Resting(t)'
  PROVE  BookInv'
<1>1. FolderGrows /\ MadeOK'
  BY KeepParts, WithinItself DEF FolderGrows, MadeOK
<1>2. \A u \in Task : NothingBy(u) /\ TrunkKept(u)
  BY DEF NothingBy, TrunkKept, RefOrHead
<1> QED BY <1>1, <1>2, BookStays

\* No record changes.
LEMMA BookRests ==
  ASSUME KeepInv, WorkInv', FolderGrows, MadeOK', LandingAlone', UNCHANGED jobs,
         \A u \in Task : NothingBy(u) /\ TrunkKept(u)
  PROVE  BookInv'
<1>1. ASSUME NEW u \in Task
      PROVE  Kept(u)' /\ Waiting(u)' /\ Resting(u)'
  <2>1. SameRecord(jobs[u], jobs'[u]) /\ Within(jobs[u].dir.tree, jobs'[u].dir.tree)
    BY DEF SameRecord, Within
  <2> QED BY <2>1, BookOf
<1> QED BY <1>1 DEF BookInv

\* A landing that goes on keeps its task to itself.
LEMMA AloneStays ==
  ASSUME LandingAlone, landing'.pc = "free" \/ UNCHANGED <<jobs, landing>>
         \/ (UNCHANGED jobs /\ landing.pc # "free"
               /\ landing'.of = landing.of /\ landing'.done = landing.done)
  PROVE  LandingAlone'
BY DEF LandingAlone

LEMMA TrunkStays ==
  ASSUME KeepInv, UNCHANGED ref, Grown(commits, commits')
  PROVE  \A u \in Task : TrunkKept(u)
<1>1. RefOrHead' = RefOrHead /\ Past(commits', RefOrHead) = Past(commits, RefOrHead)
  BY RefStaysSame, KeepParts DEF WorkInv
<1> QED BY <1>1 DEF TrunkKept

\* Somebody else's landing does not look at the record of t.
LEMMA AloneElse ==
  ASSUME KeepInv, UNCHANGED landing, NEW t \in Task, OneJob(t),
         LockIsFree \/ landing.of # t
  PROVE  LandingAlone'
BY KeepParts DEF LandInv, LandingOK, LandingAlone, LockIsFree, OneJob

LEMMA PersonEditsBook ==
  ASSUME KeepInv, WorkInv', FolderGrows, NEW f \in File, PersonEdits(f)
  PROVE  BookInv'
<1> DEFINE e == NewEdit(f, "folder")
<1>1. made' = made \cup {e} /\ UNCHANGED <<commits, ref, jobs, landing>>
  BY DEF PersonEdits
<1>2. e[1] = f /\ e[2] \notin Task
  BY LandingAssumption DEF NewEdit
<1> HIDE DEF e
<1>3. /\ MadeOK' /\ LandingAlone'
      /\ \A u \in Task : NothingBy(u)
  BY <1>1, <1>2, KeepParts DEF MadeOK, LandingAlone, NothingBy
<1>4. \A u \in Task : TrunkKept(u)
  BY <1>1 DEF TrunkKept, RefOrHead
<1> QED BY <1>1, <1>3, <1>4, BookRests

LEMMA LiveIs ==
  ASSUME KeepInv, NEW t \in Task, jobs[t].run # "none"
  PROVE  /\ ~ Settled(t) /\ jobs[t].resolvers = {} /\ jobs[t].integration # "landed"
BY KeepParts DEF Settled, Waiting, Resting

\* What an agent writes is in its checkout.
LEMMA AgentEditsBook ==
  ASSUME KeepInv, WorkInv', FolderGrows, NEW t \in Task, NEW f \in File, AgentEdits(t, f)
  PROVE  BookInv'
<1> DEFINE place == IF jobs[t].isolated /\ jobs[t].exists THEN t ELSE "folder"
           e == NewEdit(f, place)
<1>1. /\ place = t => jobs' = [jobs EXCEPT ![t].dir.tree[f] = @ \union {e}]
      /\ place # t => UNCHANGED jobs
      /\ made' = made \cup {e} /\ jobs[t].run = "live"
      /\ landing.of # t /\ UNCHANGED <<commits, ref, landing>>
  BY DEF AgentEdits
<1>2. e[1] = f /\ e[2] = place /\ (place = t \/ place = "folder")
  BY DEF NewEdit
<1>3. /\ ~ Settled(t) /\ jobs[t].resolvers = {} /\ jobs[t].integration # "landed"
  BY <1>1, LiveIs
<1>4. \A u \in Task : TrunkKept(u)
  BY <1>1 DEF TrunkKept, RefOrHead
<1> HIDE DEF e, place
<1>5. MadeOK'
  BY <1>1, <1>2, KeepParts DEF MadeOK
<1>6. \A u \in Task \ {t} : NothingBy(u)
  BY <1>1, <1>2, LandingAssumption DEF NothingBy
<1>7. CASE place = t
  <2> DEFINE j == jobs[t]
             tree == [j.dir.tree EXCEPT ![f] = @ \cup {e}]
             dir == [j.dir EXCEPT !.tree = tree]
             k == [j EXCEPT !.dir = dir]
  <2>1. jobs' = [jobs EXCEPT ![t] = k]
    BY <1>1, <1>7, JobsTyped, KeepParts
  <2>2. OneJob(t) /\ jobs'[t] = k
    BY <2>1, OneJobIs, KeepParts
  <2>3. DOMAIN j.dir = DirFields /\ DOMAIN j = JobFields /\ IsTree(j.dir.tree)
    BY KeepParts DEF JobOK
  <2> HIDE DEF j
  <2>4. Within(j.dir.tree, tree) /\ e \in tree[f]
    <3> DEFINE y == j.dir.tree
    <3>1. IsTree(y)
      BY <2>3
    <3> HIDE DEF y
    <3>2. LET z == [y EXCEPT ![f] = @ \cup {e}]
          IN  Within(y, z) /\ e \in z[f]
      BY <3>1 DEF IsTree, Within
    <3> QED BY <3>2 DEF y
  <2> HIDE DEF tree
  <2>5. dir.tree = tree
    BY <2>3 DEF DirFields
  <2> HIDE DEF dir
  <2>6. k.dir = dir /\ SameRecord(j, k)
    BY <2>3 DEF JobFields, SameRecord
  <2> HIDE DEF k
  <2>7. Kept(t)'
    <3>1. \A g \in File : j.dir.tree[g] \subseteq jobs'[t].dir.tree[g]
      BY <2>2, <2>4, <2>5, <2>6 DEF Within
    <3>2. e \in jobs'[t].dir.tree[e[1]]
      BY <1>2, <2>2, <2>4, <2>5, <2>6
    <3>3. Kept(t) /\ MadeOK
      BY KeepParts
    <3> QED BY <1>1, <1>3, <3>1, <3>2, <3>3 DEF Kept, MadeOK, FolderGrows, Within, j
  <2>8. Waiting(t)' /\ Resting(t)'
    BY <1>3, <2>2, <2>6 DEF Waiting, Resting, SameRecord, j
  <2>9. LandingAlone'
    BY <1>1, <2>2, AloneElse
  <2> QED BY <1>4, <1>5, <1>6, <2>2, <2>7, <2>8, <2>9, BookStays
<1>8. CASE place # t
  <2>1. NothingBy(t)
    BY <1>1, <1>2, <1>8 DEF NothingBy
  <2>2. LandingAlone'
    BY <1>1, <1>8, KeepParts DEF LandingAlone
  <2> QED BY <1>1, <1>4, <1>5, <1>6, <1>8, <2>1, <2>2, BookRests
<1> QED BY <1>7, <1>8

LEMMA ResolveBook ==
  ASSUME KeepInv, WorkInv', NEW t \in Task, NEW f \in File, Resolve(t, f)
  PROVE  BookInv'
<1> DEFINE j == jobs[t]
           dir == [j.dir EXCEPT !.unmerged = @ \ {f}]
           k == [j EXCEPT !.dir = dir]
<1>1. /\ jobs' = [jobs EXCEPT ![t] = k] /\ landing.of # t
      /\ UNCHANGED <<folder, commits, ref, landing, made>>
  BY JobsTyped, KeepParts DEF Resolve
<1>2. DOMAIN j.dir = DirFields /\ DOMAIN j = JobFields
  BY KeepParts DEF JobOK
<1> HIDE DEF j
<1>3. dir.tree = j.dir.tree
  BY <1>2 DEF DirFields
<1> HIDE DEF dir
<1>4. k.dir = dir /\ SameRecord(j, k)
  BY <1>2 DEF JobFields, SameRecord
<1> HIDE DEF k
<1>5. OneJob(t) /\ jobs'[t] = k
  BY <1>1, OneJobIs, KeepParts
<1>6. NothingBy(t) /\ TrunkKept(t) /\ FolderGrows
  BY <1>1, WithinItself DEF NothingBy, TrunkKept, RefOrHead, FolderGrows
<1>7. SameRecord(jobs[t], jobs'[t]) /\ Within(jobs[t].dir.tree, jobs'[t].dir.tree)
  BY <1>3, <1>4, <1>5 DEF Within, j
<1>8. Kept(t)' /\ Waiting(t)' /\ Resting(t)'
  BY <1>6, <1>7, BookOf
<1>9. LandingAlone'
  BY <1>1, <1>5, AloneElse
<1> QED BY <1>1, <1>5, <1>8, <1>9, BookRecord

\* A commit of the checkout: the record of OnTip.
LEMMA OnTipIs ==
  ASSUME NEW log, NEW j, JobOK(j, log)
  PROVE  LET k == OnTip(log, j)
         IN  /\ k.dir.tree = j.dir.tree /\ k.status = j.status /\ k.run = j.run
             /\ k.resolvers = j.resolvers /\ k.integration = j.integration
<1> DEFINE dir == [j.dir EXCEPT !.onto = 0]
           k == [j EXCEPT !.branch = Len(log) + 1, !.dir = dir]
<1>1. DOMAIN j.dir = DirFields /\ DOMAIN j = JobFields
  BY DEF JobOK
<1>2. OnTip(log, j) = k
  BY <1>1 DEF OnTip, JobFields
<1>3. dir.tree = j.dir.tree
  BY <1>1 DEF DirFields
<1> HIDE DEF dir
<1>4. /\ k.dir = dir /\ k.status = j.status /\ k.run = j.run
      /\ k.resolvers = j.resolvers /\ k.integration = j.integration
  BY <1>1 DEF JobFields
<1> QED BY <1>2, <1>3, <1>4

\* The branch moves of a task that is neither settled nor landed.
LEMMA TipBook ==
  ASSUME KeepInv, WorkInv', FolderGrows, UNCHANGED <<ref, made>>, Grown(commits, commits'),
         NEW t \in Task, OneJob(t), LandingAlone',
         jobs'[t].dir.tree = jobs[t].dir.tree, jobs'[t].run = jobs[t].run,
         jobs'[t].resolvers = jobs[t].resolvers,
         jobs'[t].integration = jobs[t].integration,
         ~ Settled(t), jobs[t].integration # "landed"
  PROVE  BookInv'
<1>1. \A u \in Task : NothingBy(u) /\ TrunkKept(u)
  BY TrunkStays DEF NothingBy
<1>2. Kept(t)'
  <2>1. Within(jobs[t].dir.tree, jobs'[t].dir.tree)
    BY DEF Within
  <2> QED BY <1>1, <2>1, KeptStays
<1>3. Waiting(t)' /\ Resting(t)'
  BY KeepParts DEF Waiting, Resting
<1>4. MadeOK'
  BY KeepParts DEF MadeOK
<1> QED BY <1>1, <1>2, <1>3, <1>4, BookStays

LEMMA AgentCommitsBook ==
  ASSUME KeepInv, WorkInv', NEW t \in Task, AgentCommits(t)
  PROVE  BookInv'
<1> DEFINE k == OnTip(commits, jobs[t])
<1>1. /\ commits' = Tip(commits, jobs[t]) /\ jobs' = [jobs EXCEPT ![t] = k]
      /\ jobs[t].exists /\ jobs[t].run = "live" /\ landing.of # t
      /\ UNCHANGED <<folder, ref, landing, made>>
  BY DEF AgentCommits
<1>2. Grown(commits, commits')
  BY <1>1, TipKeeps, KeepParts
<1>3. /\ k.dir.tree = jobs[t].dir.tree /\ k.run = jobs[t].run
      /\ k.resolvers = jobs[t].resolvers /\ k.integration = jobs[t].integration
  BY OnTipIs, KeepParts
<1> HIDE DEF k
<1>4. OneJob(t) /\ jobs'[t] = k
  BY <1>1, OneJobIs, KeepParts
<1>5. ~ Settled(t) /\ jobs[t].integration # "landed"
  BY <1>1, LiveIs
<1>6. LandingAlone' /\ FolderGrows
  BY <1>1, <1>4, AloneElse, WithinItself DEF FolderGrows
<1> QED BY <1>1, <1>2, <1>3, <1>4, <1>5, <1>6, TipBook

LEMMA RecordsBook ==
  ASSUME Orderly, ~ LandedAgain, KeepInv, WorkInv', NEW t \in Task,
         \/ Start(t) \/ Sweep(t) \/ ReuseWorktree(t) \/ RunEnds(t)
         \/ \E by \in {"lander", "sweep"} : RunResolver(t, by) \/ ResolverNotSent(t, by)
  PROVE  BookInv'
<1> DEFINE j == jobs[t]
<1>1. /\ DOMAIN j = JobFields /\ jobs = [u \in Task |-> jobs[u]]
      /\ Waiting(t) /\ Resting(t)
  BY KeepParts, JobsTyped
\* What such a step may do to a record.
<1>2. ASSUME NEW k, jobs' = [jobs EXCEPT ![t] = k],
             UNCHANGED <<folder, commits, ref, landing, made>>,
             k.dir = j.dir, k.integration = j.integration, ~ Settled(t),
             k.resolvers # {} => j.integration = "conflict" /\ k.run = "none",
             \A a, b \in k.resolvers : a = b,
             j.integration = "landed" => k.run = j.run /\ k.branch = j.branch,
             LockIsFree \/ landing.of # t
      PROVE  BookInv'
  <2>1. OneJob(t) /\ jobs'[t] = k
    BY <1>2, OneJobIs, KeepParts
  <2>2. NothingBy(t) /\ TrunkKept(t) /\ FolderGrows
    BY <1>2, WithinItself DEF NothingBy, TrunkKept, RefOrHead, FolderGrows
  <2>3. Kept(t)'
    <3>1. Within(jobs[t].dir.tree, jobs'[t].dir.tree)
      BY <1>2, <2>1 DEF Within
    <3> QED BY <1>2, <2>2, <3>1, KeptStays
  <2>4. Waiting(t)'
    BY <1>2, <2>1 DEF Waiting
  <2>5. Resting(t)'
    <3>1. CASE j.integration = "landed"
      BY <1>2, <2>1, <2>2, <3>1, RestStays
    <3>2. CASE j.integration # "landed"
      BY <1>2, <2>1, <3>2 DEF Resting
    <3> QED BY <3>1, <3>2
  <2>6. LandingAlone'
    BY <1>2, <2>1, AloneElse
  <2> QED BY <1>2, <2>1, <2>3, <2>4, <2>5, <2>6, BookRecord
<1>3. CASE Start(t)
  <2> DEFINE k == [Claimed(j) EXCEPT !.spent = IF j.status = "review" THEN 0 ELSE @]
  <2>1. /\ k.dir = j.dir /\ k.integration = j.integration /\ k.resolvers = j.resolvers
    BY <1>1 DEF Claimed, JobFields
  <2>2. /\ jobs' = [jobs EXCEPT ![t] = k]
        /\ UNCHANGED <<folder, commits, ref, landing, made>> /\ LockIsFree
        /\ j.resolvers = {} /\ j.integration # "landed" /\ j.status # "done"
    BY <1>3 DEF Start
  <2> HIDE DEF k
  <2>3. ~ Settled(t)
    BY <2>2 DEF Settled
  <2> QED BY <1>2, <2>1, <2>2, <2>3
<1>4. CASE Sweep(t)
  <2> DEFINE k == [j EXCEPT !.resolvers = @ \union {"sweep"}]
  <2>1. /\ k.dir = j.dir /\ k.integration = j.integration /\ k.run = j.run
        /\ k.resolvers = j.resolvers \cup {"sweep"} /\ k.branch = j.branch
    BY <1>1 DEF JobFields
  <2>2. /\ jobs' = [jobs EXCEPT ![t] = k]
        /\ UNCHANGED <<folder, commits, ref, landing, made>> /\ landing.of # t
        /\ j.resolvers = {} /\ j.integration = "conflict" /\ j.run = "none"
        /\ j.status = "review"
    BY <1>1, <1>4 DEF Sweep
  <2> HIDE DEF k
  <2>3. ~ Settled(t)
    BY <2>2 DEF Settled
  <2> QED BY <1>2, <2>1, <2>2, <2>3
<1>5. CASE ReuseWorktree(t)
  <2> DEFINE k == [j EXCEPT !.run = "live"]
  <2>1. k.dir = j.dir /\ k.integration = j.integration /\ k.resolvers = j.resolvers
    BY <1>1 DEF JobFields
  <2>2. /\ jobs' = [jobs EXCEPT ![t] = k]
        /\ UNCHANGED <<folder, commits, ref, landing, made>> /\ LockIsFree
        /\ j.run # "none"
    BY <1>1, <1>5 DEF ReuseWorktree
  <2> HIDE DEF k
  <2>3. ~ Settled(t) /\ j.resolvers = {} /\ j.integration # "landed"
    BY <2>2, LiveIs
  <2> QED BY <1>2, <2>1, <2>2, <2>3
<1>6. CASE RunEnds(t)
  <2> DEFINE k == [j EXCEPT !.run = "none", !.toPerson = TRUE]
  <2>1. k.dir = j.dir /\ k.integration = j.integration /\ k.resolvers = j.resolvers
    BY <1>1 DEF JobFields
  <2>2. /\ jobs' = [jobs EXCEPT ![t] = k]
        /\ UNCHANGED <<folder, commits, ref, landing, made>> /\ LockIsFree
        /\ j.run # "none"
    BY <1>1, <1>6 DEF RunEnds
  <2> HIDE DEF k
  <2>3. ~ Settled(t) /\ j.resolvers = {} /\ j.integration # "landed"
    BY <2>2, LiveIs
  <2> QED BY <1>2, <2>1, <2>2, <2>3
<1>7. ASSUME NEW by, RunResolver(t, by)
      PROVE  BookInv'
  <2> DEFINE k == [Claimed(j) EXCEPT !.resolvers = @ \ {by},
                                     !.spent = IF @ < MaxResolver THEN @ + 1 ELSE @]
  <2>1. k.dir = j.dir /\ k.integration = j.integration /\ k.resolvers = j.resolvers \ {by}
    BY <1>1 DEF Claimed, JobFields
  <2>2. /\ jobs' = [jobs EXCEPT ![t] = k]
        /\ UNCHANGED <<folder, commits, ref, landing, made>> /\ LockIsFree
        /\ by \in j.resolvers
    BY <1>7 DEF RunResolver
  <2> HIDE DEF k
  <2>3. ~ Settled(t) /\ k.resolvers = {} /\ j.integration = "conflict"
    BY <1>1, <2>1, <2>2 DEF Settled, Waiting
  <2> QED BY <1>2, <2>1, <2>2, <2>3
<1>8. ASSUME NEW by, ResolverNotSent(t, by)
      PROVE  BookInv'
  <2> DEFINE k == [j EXCEPT !.resolvers = @ \ {by}, !.toPerson = TRUE]
  <2>1. /\ k.dir = j.dir /\ k.integration = j.integration /\ k.run = j.run
        /\ k.resolvers = j.resolvers \ {by} /\ k.branch = j.branch
    BY <1>1 DEF JobFields
  <2>2. /\ jobs' = [jobs EXCEPT ![t] = k]
        /\ UNCHANGED <<folder, commits, ref, landing, made>>
        /\ by \in j.resolvers
    BY <1>1, <1>8 DEF ResolverNotSent
  <2> HIDE DEF k
  <2>3. ~ Settled(t) /\ k.resolvers = {} /\ j.integration = "conflict"
    BY <1>1, <2>1, <2>2 DEF Settled, Waiting
  <2>4. LockIsFree \/ landing.of # t
    BY <2>2, KeepParts DEF LandingAlone, LockIsFree
  <2> QED BY <1>2, <2>1, <2>2, <2>3, <2>4
<1> QED BY <1>3, <1>4, <1>5, <1>6, <1>7, <1>8

\* Whoever takes a task for a landing has it to itself.
LEMMA TakesBook ==
  ASSUME KeepInv, WorkInv', NEW t \in Task, NEW byDone, Takes(t, byDone),
         jobs[t].resolvers = {}, jobs[t].integration # "landed",
         byDone \/ jobs[t].run = "none"
  PROVE  BookInv'
<1>1. /\ landing'.of = t /\ landing'.done = byDone
      /\ UNCHANGED <<folder, commits, ref, jobs, made>>
  BY DEF Takes, NoLanding
<1>2. LandingAlone'
  BY <1>1 DEF LandingAlone
<1>3. /\ FolderGrows /\ MadeOK' /\ \A u \in Task : NothingBy(u) /\ TrunkKept(u)
  BY <1>1, KeepParts, WithinItself DEF FolderGrows, MadeOK, NothingBy, TrunkKept, RefOrHead
<1> QED BY <1>1, <1>2, <1>3, BookRests

LEMMA DoneBook ==
  ASSUME KeepInv, WorkInv', NEW t \in Task, Done(t)
  PROVE  BookInv'
<1>1. ~ Settled(t) /\ jobs[t].resolvers = {} /\ jobs[t].integration # "landed"
  BY LiveIs DEF Done
<1>2. CASE jobs[t].isolated /\ jobs[t].exists
  BY <1>1, <1>2, TakesBook DEF Done
<1>3. CASE ~ (jobs[t].isolated /\ jobs[t].exists)
  <2> DEFINE k == [jobs[t] EXCEPT !.status = "review", !.run = "none"]
  <2>1. /\ k.dir = jobs[t].dir /\ k.resolvers = {} /\ k.integration = jobs[t].integration
    BY <1>1, KeepParts DEF JobFields
  <2>2. /\ jobs' = [jobs EXCEPT ![t] = k] /\ LockIsFree
        /\ UNCHANGED <<folder, commits, ref, landing, made>>
    BY <1>3, JobsTyped, KeepParts DEF Done
  <2> HIDE DEF k
  <2>3. OneJob(t) /\ jobs'[t] = k
    BY <2>2, OneJobIs, KeepParts
  <2>4. NothingBy(t) /\ FolderGrows /\ Within(jobs[t].dir.tree, jobs'[t].dir.tree)
    BY <2>1, <2>2, <2>3, WithinItself DEF NothingBy, FolderGrows
  <2>5. Kept(t)' /\ Waiting(t)' /\ Resting(t)'
    BY <1>1, <2>1, <2>3, <2>4, KeptStays DEF Waiting, Resting
  <2>6. LandingAlone'
    BY <2>2, <2>3, AloneElse
  <2> QED BY <2>2, <2>3, <2>5, <2>6, BookRecord
<1> QED BY <1>2, <1>3

LEMMA IntegrateBook ==
  ASSUME Orderly, KeepInv, WorkInv', NEW t \in Task, Integrate(t)
  PROVE  BookInv'
BY TakesBook DEF Integrate

LEMMA CreateWorktreeBook ==
  ASSUME KeepInv, WorkInv', NEW t \in Task, CreateWorktree(t)
  PROVE  BookInv'
<1> DEFINE new == Snapped(commits, RefOrHead)
           w == FolderCommit(commits, RefOrHead)
           j == jobs[t]
           dir == [NoDir EXCEPT !.tree = folder]
           k == [j EXCEPT !.run = "live", !.isolated = TRUE, !.exists = TRUE,
                          !.branch = w, !.dir = dir]
<1>0. /\ TaskGood(t, j, commits, ref, RefOrHead, folder) /\ DOMAIN j = JobFields
      /\ jobs = [u \in Task |-> jobs[u]] /\ Kept(t) /\ LandInv /\ Young(commits)
  BY KeepParts, JobsTyped DEF WorkInv
<1>1. /\ LockIsFree /\ commits' = new /\ ref' = w
      /\ UNCHANGED <<folder, landing, made>>
      /\ jobs' = [jobs EXCEPT ![t] = k] /\ j.branch = 0 /\ j.run # "none"
  <2>1. j.branch = 0
    BY <1>0 DEF CreateWorktree, TaskGood
  <2> QED BY <1>0, <2>1 DEF CreateWorktree
<1>2. ~ Settled(t) /\ j.resolvers = {} /\ j.integration # "landed"
  BY <1>1, LiveIs
<1>3. /\ w \in 1 .. Len(new) /\ Past(commits, RefOrHead) \subseteq Past(new, w)
  BY <1>0, RefOrHeadIs, SnapshotIs, SnapshotPast DEF LandInv
<1>4. \A f \in File : j.dir.tree[f] = {}
  BY <1>0, <1>1 DEF TaskGood
<1>5. k.resolvers = j.resolvers /\ k.integration = j.integration
  BY <1>0 DEF JobFields
<1> HIDE DEF j, new, w, k
<1>6. OneJob(t) /\ jobs'[t] = k
  BY <1>0, <1>1, OneJobIs
<1>7. \A u \in Task : NothingBy(u) /\ TrunkKept(u)
  <2>1. RefOrHead' = w
    BY <1>1, <1>3 DEF RefOrHead
  <2> QED BY <1>1, <1>3, <2>1 DEF NothingBy, TrunkKept
<1>8. FolderGrows /\ MadeOK /\ MadeOK'
  BY <1>1, KeepParts, WithinItself DEF FolderGrows, MadeOK
<1>9. Kept(t)'
  BY <1>0, <1>1, <1>2, <1>4, <1>8 DEF Kept, MadeOK, j
<1>10. Waiting(t)' /\ Resting(t)'
  BY <1>2, <1>5, <1>6 DEF Waiting, Resting
<1>11. LandingAlone'
  BY <1>1, <1>6, AloneElse
<1> QED BY <1>6, <1>7, <1>8, <1>9, <1>10, <1>11, BookStays

\* What a clearing leaves is in the folder, or a person let it go.
LEMMA CleanUpBook ==
  ASSUME KeepInv, WorkInv', NEW t \in Task, CleanUp(t)
  PROVE  BookInv'
<1> DEFINE k == Cleared(jobs[t], FALSE)
<1>1. /\ jobs' = [jobs EXCEPT ![t] = k] /\ LockIsFree
      /\ UNCHANGED <<folder, commits, ref, landing, made>>
      /\ jobs[t].integration = "landed"
  BY DEF CleanUp, AwaitsDeferredCleanup
<1>2. /\ jobs[t].run = "none" /\ InFolder(t) /\ jobs[t].resolvers = {}
      /\ jobs[t].branch # 0 => IsLanded(jobs[t].branch)
      /\ jobs[t].isolated <=> jobs[t].branch # 0
      /\ jobs[t].branch # 0 => jobs[t].branch \in Past(commits, ref)
  BY <1>1, KeepParts DEF Waiting, Resting, TaskGood, IsLanded
<1>3. /\ k.integration = "landed" /\ k.resolvers = {} /\ k.run = "none"
      /\ k.branch # 0 => k.branch = jobs[t].branch
  <2>1. /\ JobOK(jobs[t], commits)
        /\ jobs[t].branch # 0 => FALSE \/ IsLanded(jobs[t].branch)
        /\ jobs[t].isolated <=> jobs[t].branch # 0
    BY <1>2, KeepParts
  <2>2. /\ k = jobs[t] \/ k.branch = 0
        /\ k.integration = jobs[t].integration /\ k.resolvers = jobs[t].resolvers
        /\ k.run = jobs[t].run
    BY <2>1, ClearedIs
  <2> QED BY <1>1, <1>2, <2>2
<1> HIDE DEF k
<1>4. OneJob(t) /\ jobs'[t] = k
  BY <1>1, OneJobIs, KeepParts
<1>5. Kept(t)' /\ Waiting(t)' /\ Resting(t)'
  BY <1>1, <1>2, <1>3, <1>4 DEF Kept, Waiting, Resting, InFolder, Past
<1>6. LandingAlone'
  BY <1>1, <1>4, AloneElse
<1> QED BY <1>1, <1>4, <1>5, <1>6, BookRecord

LEMMA AcceptBook ==
  ASSUME KeepInv, WorkInv', NEW t \in Task, Accept(t)
  PROVE  BookInv'
<1> DEFINE j == Cleared(jobs[t], TRUE)
           k == [j EXCEPT !.status = "done"]
<1>1. /\ jobs' = [jobs EXCEPT ![t] = k] /\ LockIsFree
      /\ UNCHANGED <<folder, commits, ref, landing, made>>
      /\ jobs[t].status = "review" /\ jobs[t].run = "none"
  BY DEF Accept
<1>2. jobs[t].isolated <=> jobs[t].branch # 0
  BY KeepParts DEF TaskGood
<1>3. /\ \/ j = jobs[t] /\ (jobs[t].integration = "conflict" \/ jobs[t].branch = 0)
         \/ j.branch = 0 /\ jobs[t].integration # "conflict"
      /\ DOMAIN j = JobFields
      /\ j.integration = jobs[t].integration /\ j.resolvers = jobs[t].resolvers
      /\ j.run = jobs[t].run
  BY <1>2, KeepParts, ClearedIs
<1> HIDE DEF j
<1>4. /\ k.dir = j.dir /\ k.branch = j.branch /\ k.status = "done" /\ k.run = j.run
      /\ k.integration = j.integration /\ k.resolvers = j.resolvers
  BY <1>3 DEF JobFields
<1> HIDE DEF k
<1>5. OneJob(t) /\ jobs'[t] = k
  BY <1>1, OneJobIs, KeepParts
<1>6. NothingBy(t) /\ FolderGrows /\ ~ Settled(t) /\ Waiting(t) /\ Resting(t)
  BY <1>1, WithinItself, KeepParts DEF NothingBy, FolderGrows, Settled
<1>7. Kept(t)'
  <2>1. CASE jobs[t].integration = "conflict"
    <3>1. Within(jobs[t].dir.tree, jobs'[t].dir.tree)
      BY <1>3, <1>4, <1>5, <2>1 DEF Within
    <3> QED BY <1>6, <3>1, KeptStays
  <2>2. CASE jobs[t].integration # "conflict"
    <3>1. k.branch = 0 /\ k.resolvers = {} /\ k.run = "none" /\ k.status = "done"
      BY <1>1, <1>3, <1>4, <1>6, <2>2 DEF Waiting
    <3> QED BY <1>5, <3>1 DEF Kept, Settled
  <2> QED BY <2>1, <2>2
<1>8. Waiting(t)'
  BY <1>3, <1>4, <1>5, <1>6 DEF Waiting
<1>9. Resting(t)'
  <2>1. k.branch # 0 => k.branch = jobs[t].branch
    BY <1>3, <1>4
  <2> QED BY <1>1, <1>3, <1>4, <1>5, <1>6, <2>1 DEF Resting, InFolder, Past
<1>10. LandingAlone'
  BY <1>1, <1>5, AloneElse
<1> QED BY <1>1, <1>5, <1>7, <1>8, <1>9, <1>10, BookRecord

LEMMA RebaselineBook ==
  ASSUME KeepInv, WorkInv', FolderGrows, Rebaseline
  PROVE  BookInv'
<1>1. /\ LockIsFree /\ \A t \in Task : ~ jobs[t].isolated
      /\ UNCHANGED <<folder, landing, jobs, made>>
  BY DEF Rebaseline
<1>2. \A u \in Task : NothingBy(u) /\ TrunkKept(u)
  <2>1. \A u \in Task : jobs[u].branch = 0
    BY <1>1, KeepParts DEF TaskGood
  <2> QED BY <1>1, <2>1 DEF NothingBy, TrunkKept
<1>3. MadeOK' /\ LandingAlone'
  BY <1>1, KeepParts DEF MadeOK, LandingAlone
<1> QED BY <1>1, <1>2, <1>3, BookRests

-----------------------------------------------------------------------------
(* A landing keeps what it lands.                                          *)

LEMMA LandsIs ==
  ASSUME KeepInv, NEW t \in Task, t = landing.of, landing.pc # "free"
  PROVE  /\ ~ Settled(t) /\ jobs[t].resolvers = {} /\ jobs[t].integration # "landed"
         /\ landing.done \/ jobs[t].run = "none"
         /\ jobs[t].exists /\ jobs[t].branch # 0 /\ DOMAIN landing = DOMAIN NoLanding
<1>1. jobs[t].exists /\ DOMAIN landing = DOMAIN NoLanding
  BY KeepParts DEF LandInv, LandingOK
<1> QED BY <1>1, KeepParts DEF LandingAlone, Settled, TaskGood

LEMMA BeginLandingBook ==
  ASSUME KeepInv, WorkInv', FolderGrows, NEW t \in Task, t = landing.of, BeginLanding
  PROVE  BookInv'
<1> DEFINE log == IF CommitsAll(jobs[t]) THEN Tip(commits, jobs[t]) ELSE commits
           k == IF CommitsAll(jobs[t]) THEN OnTip(commits, jobs[t]) ELSE jobs[t]
<1>1. /\ landing.pc = "begin" /\ commits' = Snapped(log, RefOrHead)
      /\ landing' = [landing EXCEPT !.pc = "merge", !.w = FolderCommit(log, RefOrHead)]
      /\ UNCHANGED <<folder, ref, made>> /\ jobs' = [jobs EXCEPT ![t] = k]
  BY JobsTyped, KeepParts DEF BeginLanding
<1>2. /\ ~ Settled(t) /\ jobs[t].resolvers = {} /\ jobs[t].integration # "landed"
      /\ landing.done \/ jobs[t].run = "none"
      /\ jobs[t].exists /\ DOMAIN landing = DOMAIN NoLanding
  BY <1>1, LandsIs
<1>3. History(log) /\ Grown(commits, log)
  BY <1>2, CommitAllWork, KeepParts
<1>4. /\ k.dir.tree = jobs[t].dir.tree /\ k.run = jobs[t].run
      /\ k.resolvers = jobs[t].resolvers /\ k.integration = jobs[t].integration
  BY OnTipIs, KeepParts
<1> HIDE DEF log, k
<1>5. Grown(commits, commits')
  <2>1. RefOrHead \in 1 .. Len(log) /\ Within(log[RefOrHead].tree, folder)
    BY <1>3, RefOrHeadIs, KeepParts DEF Grown
  <2>2. Grown(log, commits')
    BY <1>1, <1>3, <2>1, SnapshotIs, KeepParts DEF LandInv
  <2> QED BY <1>3, <2>2 DEF Grown
<1>6. OneJob(t) /\ jobs'[t] = k
  BY <1>1, OneJobIs, KeepParts
<1>7. LandingAlone'
  <2>1. landing'.of = t /\ landing'.done = landing.done
    BY <1>1, <1>2 DEF NoLanding
  <2> QED BY <1>2, <1>4, <1>6, <2>1 DEF LandingAlone
<1> QED BY <1>1, <1>2, <1>4, <1>5, <1>6, <1>7, TipBook

\* Steps of a landing that leave the records alone.
LEMMA LandingMovesBook ==
  ASSUME KeepInv, WorkInv', FolderGrows,
         \/ Preflight \/ Materialize \/ AdvanceRef \/ LandingKilled
         \/ \E f \in File : WriteFile(f)
  PROVE  BookInv'
<1>1. UNCHANGED <<jobs, made>> /\ landing.pc # "free"
  BY DEF Preflight, Materialize, AdvanceRef, LandingKilled, WriteFile, LockIsFree
<1>2. landing.of \in Task /\ DOMAIN landing = DOMAIN NoLanding
  BY <1>1, KeepParts DEF LandInv, LandingOK
<1>3. LandingAlone'
  <2>1. \/ landing' = NoLanding
        \/ landing'.of = landing.of /\ landing'.done = landing.done
    BY <1>2 DEF Preflight, Materialize, AdvanceRef, LandingKilled, WriteFile, NoLanding
  <2>2. NoLanding.pc = "free"
    BY DEF NoLanding
  <2> QED BY <1>1, <2>1, <2>2, AloneStays, KeepParts
<1>4. \A u \in Task : NothingBy(u) /\ TrunkKept(u)
  <2>1. \A u \in Task : NothingBy(u)
    BY <1>1 DEF NothingBy
  <2>2. CASE UNCHANGED <<commits, ref>>
    BY <2>1, <2>2 DEF TrunkKept, RefOrHead
  <2>3. CASE AdvanceRef
    <3>1. PICK t \in Task : t = landing.of
      BY <1>2
    <3>2. Past(commits, RefOrHead) \subseteq Past(commits', RefOrHead')
      BY <2>3, <3>1, AdvanceRefWork, KeepParts DEF Onward
    <3> QED BY <2>1, <3>2 DEF TrunkKept
  <2> QED BY <2>2, <2>3 DEF Preflight, Materialize, LandingKilled, WriteFile
<1>5. MadeOK'
  BY <1>1, KeepParts DEF MadeOK
<1> QED BY <1>1, <1>3, <1>4, <1>5, BookRests

LEMMA DeferLandingBook ==
  ASSUME KeepInv, WorkInv', NEW t \in Task, t = landing.of, DeferLanding
  PROVE  BookInv'
<1> DEFINE j == Closed(jobs[t])
           k == [j EXCEPT !.toPerson = TRUE]
<1>1. /\ landing.pc = "check" /\ jobs' = [jobs EXCEPT ![t] = k] /\ landing' = NoLanding
      /\ UNCHANGED <<folder, commits, ref, made>>
  BY DEF DeferLanding
<1>2. /\ ~ Settled(t) /\ jobs[t].resolvers = {} /\ jobs[t].integration # "landed"
  BY <1>1, LandsIs
<1>3. /\ SameCheckout(jobs[t], j) /\ DOMAIN j = JobFields
      /\ j.integration = jobs[t].integration /\ j.resolvers = jobs[t].resolvers
  BY KeepParts, ClosedWork
<1> HIDE DEF j
<1>4. k.dir = j.dir /\ k.integration = j.integration /\ k.resolvers = j.resolvers
  BY <1>3 DEF JobFields
<1> HIDE DEF k
<1>5. OneJob(t) /\ jobs'[t] = k
  BY <1>1, OneJobIs, KeepParts
<1>6. Kept(t)'
  <2>1. NothingBy(t) /\ FolderGrows /\ Within(jobs[t].dir.tree, jobs'[t].dir.tree)
    BY <1>1, <1>3, <1>4, <1>5, WithinItself DEF NothingBy, FolderGrows, SameCheckout
  <2> QED BY <1>2, <2>1, KeptStays
<1>7. Waiting(t)' /\ Resting(t)' /\ LandingAlone'
  BY <1>1, <1>2, <1>3, <1>4, <1>5 DEF Waiting, Resting, LandingAlone, NoLanding
<1> QED BY <1>1, <1>5, <1>6, <1>7, BookRecord

\* All that was on the branch is in the folder.
LEMMA SaveLandedBook ==
  ASSUME KeepInv, WorkInv', NEW t \in Task, t = landing.of, SaveLanded
  PROVE  BookInv'
<1> DEFINE k == Landed(jobs[t])
           l == Cleared(k, FALSE)
<1>1. /\ landing.pc = "save" /\ landing' = NoLanding
      /\ UNCHANGED <<folder, commits, ref, made>>
      /\ jobs' = [jobs EXCEPT ![t] = k] \/ jobs' = [jobs EXCEPT ![t] = l]
  BY DEF SaveLanded
<1>2. /\ ~ Settled(t) /\ jobs[t].resolvers = {}
      /\ landing.done \/ jobs[t].run = "none"
  BY <1>1, LandsIs
<1>3. /\ SameCheckout(jobs[t], k) /\ DOMAIN k = JobFields
      /\ k.integration = "landed" /\ k.resolvers = {} /\ k.run = "none"
  BY <1>2, KeepParts, LandedIs
<1>4. JobOK(k, commits)
  BY <1>3, KeepParts DEF JobOK, SameCheckout
<1>5. /\ jobs[t].dir.tree = commits[jobs[t].branch].tree
      /\ Within(commits[jobs[t].branch].tree, folder)
      /\ ref # 0 /\ jobs[t].branch \in Past(commits, ref)
      /\ (jobs[t].isolated <=> jobs[t].branch # 0)
  BY <1>1, KeepParts DEF WorkInv, LandingWork, TaskGood
<1>6. InFolder(t)
  BY <1>2, <1>5, KeepParts DEF Kept, InFolder, MadeOK, Within
<1> HIDE DEF k
<1>7. /\ l.integration = "landed" /\ l.resolvers = {} /\ l.run = "none"
      /\ l.branch # 0 => l.branch = k.branch
  <2>1. /\ k.branch # 0 => FALSE \/ IsLanded(k.branch)
        /\ k.isolated <=> k.branch # 0
    BY <1>3, <1>5 DEF SameCheckout, IsLanded
  <2> QED BY <1>3, <1>4, <2>1, ClearedIs
<1> HIDE DEF l
<1>8. ASSUME NEW m, jobs' = [jobs EXCEPT ![t] = m],
             m.integration = "landed", m.resolvers = {}, m.run = "none",
             m.branch # 0 => m.branch = jobs[t].branch
      PROVE  BookInv'
  <2>1. OneJob(t) /\ jobs'[t] = m
    BY <1>8, OneJobIs, KeepParts
  <2>2. Kept(t)' /\ Waiting(t)' /\ Resting(t)'
    BY <1>1, <1>5, <1>6, <1>8, <2>1 DEF Kept, Waiting, Resting, InFolder, Past
  <2>3. LandingAlone'
    BY <1>1 DEF LandingAlone, NoLanding
  <2> QED BY <1>1, <2>1, <2>2, <2>3, BookRecord
<1> QED BY <1>1, <1>3, <1>7, <1>8 DEF SameCheckout

\* The merge in the checkout holds what the checkout held.
LEMMA LandConflictBook ==
  ASSUME KeepInv, WorkInv', NEW t \in Task, t = landing.of, LandConflict
  PROVE  BookInv'
<1> DEFINE j == jobs[t]
           m == MergeOf(commits, j.branch, landing.w)
           dir == [tree |-> m.tree, unmerged |-> m.conflicts, onto |-> landing.w]
           k == [j EXCEPT !.dir = dir]
<1>1. /\ landing.pc = "conflict" /\ landing' = [landing EXCEPT !.pc = "record"]
      /\ UNCHANGED <<folder, commits, ref, made>>
      /\ jobs' = [jobs EXCEPT ![t] = Conflicted(j)]
  BY DEF LandConflict
<1>2. /\ ~ Settled(t) /\ j.resolvers = {} /\ j.integration # "landed"
      /\ landing.done \/ j.run = "none"
      /\ j.exists /\ DOMAIN landing = DOMAIN NoLanding /\ DOMAIN j = JobFields
  BY <1>1, LandsIs, KeepParts
<1>3. landing'.of = t /\ landing'.done = landing.done
  BY <1>1, <1>2 DEF NoLanding
<1>4. j.dir.onto = 0 => Within(j.dir.tree, m.tree)
  <2>1. landing.w \in 1 .. Len(commits) /\ j.branch \in 1 .. Len(commits)
    BY <1>1, <1>2, BranchIs, KeepParts DEF LandInv, LandingOK, SnapshotOK
  <2>2. Within(commits[j.branch].tree, m.tree)
    BY <2>1, MergeHolds, KeepParts DEF LandInv
  <2>3. j.dir.onto = 0 => j.dir.tree = commits[j.branch].tree
    BY <1>1, KeepParts DEF WorkInv, LandingWork
  <2> QED BY <2>2, <2>3
<1>5. Conflicted(j) = j \/ (j.dir.onto = 0 /\ Conflicted(j) = k)
  BY DEF Conflicted
<1> HIDE DEF j, m
<1>6. k.dir.tree = m.tree /\ SameRecord(j, k)
  BY <1>2 DEF JobFields, SameRecord
<1> HIDE DEF k
<1>7. OneJob(t) /\ jobs'[t] = Conflicted(j)
  BY <1>1, OneJobIs, KeepParts
<1>8. SameRecord(j, jobs'[t]) /\ Within(j.dir.tree, jobs'[t].dir.tree)
  BY <1>4, <1>5, <1>6, <1>7 DEF SameRecord, Within
<1>9. NothingBy(t) /\ TrunkKept(t) /\ FolderGrows
  BY <1>1, WithinItself DEF NothingBy, TrunkKept, RefOrHead, FolderGrows
<1>10. Kept(t)' /\ Waiting(t)' /\ Resting(t)'
  BY <1>8, <1>9, BookOf DEF j
<1>11. LandingAlone'
  BY <1>2, <1>3, <1>8 DEF LandingAlone, SameRecord
<1> QED BY <1>1, <1>7, <1>10, <1>11, BookRecord

\* A resolver is wanted for a task nobody works on.
LEMMA RecordConflictBook ==
  ASSUME KeepInv, WorkInv', NEW t \in Task, t = landing.of, RecordConflict
  PROVE  BookInv'
<1> DEFINE j == Closed(jobs[t])
           more == IF ResolverWanted(jobs[t]) THEN j.resolvers \cup {"lander"}
                   ELSE j.resolvers
           k == [j EXCEPT !.integration = "conflict", !.resolvers = more]
<1>1. /\ landing.pc = "record" /\ landing' = NoLanding /\ ref' = landing.w
      /\ jobs' = [jobs EXCEPT ![t] = k] /\ UNCHANGED <<folder, commits, made>>
  BY DEF RecordConflict, RefAfterConflict
<1>2. /\ ~ Settled(t) /\ jobs[t].resolvers = {}
      /\ landing.done \/ jobs[t].run = "none"
  BY <1>1, LandsIs
<1>3. /\ SameCheckout(jobs[t], j) /\ DOMAIN j = JobFields
      /\ j.resolvers = {} /\ j.run = "none"
  BY <1>2, KeepParts, ClosedWork
<1>4. more \subseteq {"lander"}
  BY <1>3
<1> HIDE DEF j, more
<1>5. k.dir = j.dir /\ k.integration = "conflict" /\ k.resolvers = more /\ k.run = j.run
  BY <1>3 DEF JobFields
<1> HIDE DEF k
<1>6. OneJob(t) /\ jobs'[t] = k
  BY <1>1, OneJobIs, KeepParts
<1>7. FolderGrows /\ MadeOK' /\ \A u \in Task : NothingBy(u)
  BY <1>1, WithinItself, KeepParts DEF FolderGrows, MadeOK, NothingBy
<1>8. Kept(t)'
  <2>1. Within(jobs[t].dir.tree, jobs'[t].dir.tree)
    BY <1>3, <1>5, <1>6 DEF Within, SameCheckout
  <2> QED BY <1>2, <1>7, <2>1, KeptStays
<1>9. Waiting(t)' /\ Resting(t)' /\ LandingAlone'
  <2>1. /\ jobs'[t].resolvers \subseteq {"lander"} /\ jobs'[t].run = "none"
        /\ jobs'[t].integration = "conflict"
    BY <1>3, <1>4, <1>5, <1>6
  <2>2. Waiting(t)'
    BY <2>1 DEF Waiting
  <2> QED BY <1>1, <2>1, <2>2 DEF Resting, LandingAlone, NoLanding
<1>10. \A u \in Task : TrunkKept(u)
  <2>1. landing.w # 0 /\ Past(commits, RefOrHead) \subseteq Past(commits, landing.w)
    BY <1>1, KeepParts
       DEF LandInv, LandingOK, SnapshotOK, WorkInv, SnapshotOnTrunk, HasSnapshot
  <2> QED BY <1>1, <2>1 DEF TrunkKept, RefOrHead
<1> QED BY <1>6, <1>7, <1>8, <1>9, <1>10, BookStays

-----------------------------------------------------------------------------
(* Every step.                                                             *)

LEMMA BookStart ==
  ASSUME LandInit
  PROVE  BookInv
<1> DEFINE first == [status |-> "todo", integration |-> "none", run |-> "none",
                     resolvers |-> {}, toPerson |-> FALSE, spent |-> 0,
                     isolated |-> FALSE, branch |-> 0, exists |-> FALSE, dir |-> NoDir]
<1>1. jobs = [t \in Task |-> first] /\ landing = NoLanding /\ made = {}
  BY DEF LandInit
<1>2. first.integration = "none" /\ first.resolvers = {}
  OBVIOUS
<1> HIDE DEF first
<1> QED BY <1>1, <1>2 DEF BookInv, MadeOK, LandingAlone, Kept, Waiting, Resting, NoLanding

LEMMA BookKeeps ==
  ASSUME Orderly, ~ LandedAgain, KeepInv, WorkInv', FolderGrows, [LandNext]_landVars
  PROVE  BookInv'
<1>1. CASE LandStep
  <2>1. landing.pc # "free"
    BY <1>1 DEF LandStep, BeginLanding, Preflight, Materialize, DeferLanding, AdvanceRef,
                SaveLanded, LandConflict, RecordConflict, WriteFile
  <2>2. PICK t \in Task : t = landing.of
    BY <2>1, KeepParts DEF LandInv, LandingOK
  <2>3. CASE BeginLanding
    BY <2>2, <2>3, BeginLandingBook
  <2>4. CASE DeferLanding
    BY <2>2, <2>4, DeferLandingBook
  <2>5. CASE SaveLanded
    BY <2>2, <2>5, SaveLandedBook
  <2>6. CASE LandConflict
    BY <2>2, <2>6, LandConflictBook
  <2>7. CASE RecordConflict
    BY <2>2, <2>7, RecordConflictBook
  <2> QED BY <1>1, <2>3, <2>4, <2>5, <2>6, <2>7, LandingMovesBook DEF LandStep
<1>2. CASE LandingKilled \/ Rebaseline \/ \E f \in File : PersonEdits(f)
  BY <1>2, LandingMovesBook, RebaselineBook, PersonEditsBook
<1>3. ASSUME NEW t \in Task,
             \/ Start(t) \/ Sweep(t) \/ ReuseWorktree(t) \/ RunEnds(t)
             \/ \E by \in {"lander", "sweep"} : RunResolver(t, by) \/ ResolverNotSent(t, by)
      PROVE  BookInv'
  BY <1>3, RecordsBook
<1>4. ASSUME NEW t \in Task,
             \/ CreateWorktree(t) \/ AgentCommits(t) \/ Done(t) \/ Integrate(t)
             \/ CleanUp(t) \/ Accept(t)
      PROVE  BookInv'
  BY <1>4, CreateWorktreeBook, AgentCommitsBook, DoneBook, IntegrateBook,
     CleanUpBook, AcceptBook
<1>5. ASSUME NEW t \in Task, NEW f \in File, AgentEdits(t, f) \/ Resolve(t, f)
      PROVE  BookInv'
  BY <1>5, AgentEditsBook, ResolveBook
<1>6. CASE UNCHANGED landVars
  <2>1. UNCHANGED <<folder, commits, ref, jobs, landing, made>>
    BY <1>6 DEF landVars
  <2>2. MadeOK' /\ LandingAlone' /\ \A u \in Task : NothingBy(u) /\ TrunkKept(u)
    BY <2>1, KeepParts DEF MadeOK, LandingAlone, NothingBy, TrunkKept, RefOrHead
  <2> QED BY <2>1, <2>2, BookRests
<1> QED BY <1>1, <1>2, <1>3, <1>4, <1>5, <1>6 DEF LandNext

LEMMA KeepStart ==
  ASSUME LandInit
  PROVE  KeepInv
BY LandStart, WorkStart, BookStart DEF KeepInv

LEMMA KeepKeeps ==
  ASSUME PeopleWait, Orderly, ~ LandedAgain, KeepInv, [LandNext]_landVars
  PROVE  KeepInv'
<1>1. LandInv' /\ FolderGrows
  BY LandKeeps DEF KeepInv
<1>2. WorkInv'
  BY WorkKeeps DEF KeepInv
<1>3. BookInv'
  BY <1>1, <1>2, BookKeeps
<1> QED BY <1>1, <1>2, <1>3 DEF KeepInv

(* What an agent wrote in its checkout is never lost before a person       *)
(* accepted the task, when people keep off a file while it is written, no  *)
(* landing, sweep or restart by hand comes between a task and the resolver *)
(* on its way to it or the agent that works on it, and no task runs again  *)
(* whose work has landed (land_task_branch, cleanup_after_land).           *)
THEOREM UnlandedKept ==
  ASSUME PeopleWait, Orderly, ~ LandedAgain
  PROVE  LandSpec => []UnlandedWorkIsKept
<1>1. LandInit => KeepInv
  BY KeepStart
<1>2. KeepInv /\ [LandNext]_landVars => KeepInv'
  BY KeepKeeps
<1>3. KeepInv => UnlandedWorkIsKept
  BY KeepParts DEF Kept, Settled, UnlandedWorkIsKept
<1> QED BY <1>1, <1>2, <1>3, PTL DEF LandSpec

-----------------------------------------------------------------------------
(* What a branch rests on.                                                 *)

\* The trunk and the commits move on, the checkout stands still.
LEMMA BasedMoves ==
  ASSUME NEW t, NEW j, NEW k, SameCheckout(j, k),
         NEW log, NEW new, History(log), Grown(log, new),
         NEW head \in 1 .. Len(log), NEW top, Past(log, head) \subseteq Past(new, top),
         j.branch \in 0 .. Len(log), j.dir.onto \in 0 .. Len(log),
         j.branch = 0 => j.dir.onto = 0,
         j.branch # 0 => Common(new, top, j.branch) = Common(log, head, j.branch),
         NEW w, NEW v, w \in {0, v} \/ w \in Past(new, top),
         Based(t, j, log, head, w)
  PROVE  Based(t, k, new, top, v)
<1> DEFINE b == j.branch
           onto == j.dir.onto
           old == Common(log, head, b)
<1>1. k.branch = b /\ k.dir = j.dir
  BY DEF SameCheckout
<1>2. CASE b = 0
  BY <1>1, <1>2 DEF Based
<1>3. CASE b # 0
  <2>1. b \in 1 .. Len(log) /\ Common(new, top, b) = old /\ Len(log) \in Nat
    BY <1>3 DEF History
  <2>2. PICK r \in old : /\ old \subseteq Past(log, r)
                         /\ Foreign(t, log[b].tree, log[r].tree)
                         /\ \A f \in File : \A x \in j.dir.tree[f] :
                               \/ x[2] = t \/ x \in log[r].tree[f]
                               \/ onto # 0 /\ x \in log[onto].tree[f]
    BY <1>3 DEF Based
  <2>3. r \in 1 .. Len(log)
    BY PastTyped DEF Common
  <2>4. new[b] = log[b] /\ new[r] = log[r] /\ Past(new, r) = Past(log, r)
    BY <2>1, <2>3, PastStays
  <2>5. onto # 0 => new[onto] = log[onto] /\ Past(new, onto) = Past(log, onto)
    BY <2>1, PastStays
  <2>6. onto # 0 => /\ old \subseteq Past(log, onto)
                    /\ onto \in Past(log, head) \/ onto = w
    BY DEF Based
  <2>7. onto # 0 => onto \in Past(new, top) \/ onto = v
    BY <2>6
  <2> HIDE DEF b, onto, old
  <2>8. /\ old \subseteq Past(new, r)
        /\ Foreign(t, new[b].tree, new[r].tree)
        /\ \A f \in File : \A x \in j.dir.tree[f] :
              \/ x[2] = t \/ x \in new[r].tree[f]
              \/ onto # 0 /\ x \in new[onto].tree[f]
        /\ onto # 0 => old \subseteq Past(new, onto)
    BY <2>2, <2>4, <2>5, <2>6
  <2> QED BY <1>1, <2>1, <2>7, <2>8 DEF Based, b, onto
<1> QED BY <1>2, <1>3

\* A commit of the checkout rests on what the branch did, or on what it merged.
LEMMA TipBased ==
  ASSUME NEW t, NEW j, NEW k, NEW log, NEW new, History(log), Grown(log, new),
         NEW head \in 1 .. Len(log), j.branch \in 1 .. Len(log),
         j.dir.onto \in 0 .. Len(log), Based(t, j, log, head, 0),
         k.branch = Len(log) + 1, k.dir.onto = 0, k.dir.tree = j.dir.tree,
         Past(new, Len(log) + 1) =
           {Len(log) + 1} \cup Past(log, j.branch) \cup PastOf(log, j.dir.onto),
         new[Len(log) + 1].tree = j.dir.tree
  PROVE  Based(t, k, new, head, 0)
<1> DEFINE b == j.branch
           onto == j.dir.onto
           old == Common(log, head, b)
           common == Common(new, head, k.branch)
<1>1. Past(new, head) = Past(log, head) /\ Past(log, head) \subseteq 1 .. Len(log)
      /\ Len(log) \in Nat
  BY PastStays, PastTyped DEF History
<1>2. Len(log) + 1 \notin Past(log, head) /\ Len(log) + 1 # 0
  BY <1>1
<1>3. common = old \cup (Past(log, head) \cap PastOf(log, onto))
  BY <1>1, <1>2 DEF Common
<1>4. PICK r \in old : /\ old \subseteq Past(log, r)
                       /\ Foreign(t, log[b].tree, log[r].tree)
                       /\ \A f \in File : \A x \in j.dir.tree[f] :
                             \/ x[2] = t \/ x \in log[r].tree[f]
                             \/ onto # 0 /\ x \in log[onto].tree[f]
  <2>1. b # 0
    BY <1>1
  <2> QED BY <2>1 DEF Based
<1>5. r \in 1 .. Len(log)
  BY <1>1, <1>4 DEF Common
<1> HIDE DEF common, old, b
<1>6. \E s \in common : /\ s \in 1 .. Len(log) /\ common \subseteq Past(log, s)
                        /\ Foreign(t, j.dir.tree, log[s].tree)
  <2>1. CASE onto = 0
    <3>1. common = old
      BY <1>3, <2>1 DEF PastOf
    <3> QED BY <1>4, <1>5, <2>1, <3>1 DEF Foreign
  <2>2. CASE onto # 0
    <3>1. onto \in 1 .. Len(log) /\ PastOf(log, onto) = Past(log, onto)
      BY <1>1, <2>2 DEF PastOf
    <3>2. old \subseteq Past(log, onto) /\ onto \in Past(log, head)
      BY <2>2 DEF Based, old, b
    <3>3. onto \in common /\ common \subseteq Past(log, onto)
      BY <1>3, <3>1, <3>2, PastTyped
    <3>4. Within(log[r].tree, log[onto].tree)
      BY <1>4, <3>1, <3>2, PastWithin
    <3>5. Foreign(t, j.dir.tree, log[onto].tree)
      BY <1>4, <3>4 DEF Foreign, Within
    <3> QED BY <3>1, <3>3, <3>5
  <2> QED BY <2>1, <2>2
<1>7. PICK s \in common : /\ s \in 1 .. Len(log) /\ common \subseteq Past(log, s)
                          /\ Foreign(t, j.dir.tree, log[s].tree)
  BY <1>6
<1>8. new[s] = log[s] /\ Past(new, s) = Past(log, s)
  BY <1>7, PastStays
<1>9. /\ common \subseteq Past(new, s)
      /\ Foreign(t, new[k.branch].tree, new[s].tree)
      /\ \A f \in File : \A x \in k.dir.tree[f] : x[2] = t \/ x \in new[s].tree[f]
  BY <1>7, <1>8 DEF Foreign
<1> QED BY <1>9 DEF Based, common

\* A branch of the trunk rests on itself.
LEMMA BranchOnTrunk ==
  ASSUME NEW t, NEW k, NEW log, NEW head, NEW w, k.branch \in Past(log, head),
         k.dir.onto = 0, k.dir.tree = log[k.branch].tree
  PROVE  Based(t, k, log, head, w)
<1> DEFINE r == k.branch
<1>1. r \in Common(log, head, r) /\ Common(log, head, r) \subseteq Past(log, r)
  BY DEF Common, Past
<1>2. /\ Foreign(t, log[r].tree, log[r].tree)
      /\ \A f \in File : \A x \in k.dir.tree[f] : x \in log[r].tree[f]
  BY DEF Foreign
<1> QED BY <1>1, <1>2 DEF Based

-----------------------------------------------------------------------------
(* While nothing fails, a conflict is settled once.                        *)

SettledParts(t) == NotYetInFolder(t) /\ BasedOn(t)

\* What t wrote comes into the folder with its landing.
OnlyLands(t) ==
    /\ jobs[t].integration = "landed" => jobs'[t].integration = "landed"
    /\ Writes(t) => Writes(t)' \/ jobs'[t].integration = "landed"
    /\ NoneOf(t, folder, folder') \/ Writes(t)'

\* What the landing of t records is known: it stays so, or joins the trunk.
StillPending(t) ==
    Pending(t) \in {0, Pending(t)'} \/ Pending(t) \in Past(commits', RefOrHead')

LEMMA OnlyLandsKeeps ==
  ASSUME NEW t \in Task, NotYetInFolder(t), OnlyLands(t)
  PROVE  NotYetInFolder(t)'
BY DEF NotYetInFolder, OnlyLands, NoneOf

LEMMA BasedStays ==
  ASSUME KeepInv, Onward, NEW t \in Task, BasedOn(t), SameCheckout(jobs[t], jobs'[t]),
         SameTrunk(t), StillPending(t)
  PROVE  BasedOn(t)'
<1> DEFINE j == jobs[t]
           k == jobs'[t]
           w == Pending(t)
           v == Pending(t)'
           top == RefOrHead'
<1>1. /\ History(commits) /\ Grown(commits, commits') /\ RefOrHead \in 1 .. Len(commits)
      /\ Past(commits, RefOrHead) \subseteq Past(commits', top)
  BY RefOrHeadIs, KeepParts DEF LandInv, Onward
<1>2. /\ j.branch \in 0 .. Len(commits) /\ j.dir.onto \in 0 .. Len(commits)
      /\ j.branch = 0 => j.dir.onto = 0
  BY KeepParts DEF JobOK, TaskGood
<1>3. j.branch # 0 => Common(commits', top, j.branch) = Common(commits, RefOrHead, j.branch)
  BY DEF SameTrunk
<1>4. w \in {0, v} \/ w \in Past(commits', top)
  BY DEF StillPending
<1>5. Based(t, j, commits, RefOrHead, w) /\ SameCheckout(j, k)
  BY DEF BasedOn
<1> HIDE DEF j, k, w, v, top
<1>6. Based(t, k, commits', top, v)
  BY <1>1, <1>2, <1>3, <1>4, <1>5, BasedMoves
<1> QED BY <1>6 DEF BasedOn, k, v, top

\* The steps that are no failure, task by task.
LEMMA SettledStays ==
  ASSUME KeepInv, SettledInv, UNCHANGED faults, \A u \in Task : OnlyLands(u),
         \A u \in Task : SettledParts(u) => BasedOn(u)'
  PROVE  SettledInv'
BY OnlyLandsKeeps DEF SettledInv, SettledParts

\* One checkout changes, and the trunk only moves on.
LEMMA SettledOther ==
  ASSUME KeepInv, SettledInv, UNCHANGED faults, \A u \in Task : OnlyLands(u),
         NEW t \in Task, OneJob(t), Onward,
         \A u \in Task \ {t} : SameTrunk(u) /\ StillPending(u),
         SettledParts(t) => BasedOn(t)'
  PROVE  SettledInv'
<1>1. ASSUME NEW u \in Task, u # t, SettledParts(u)
      PROVE  BasedOn(u)'
  <2>1. SameCheckout(jobs[u], jobs'[u])
    BY <1>1 DEF OneJob, SameCheckout
  <2> QED BY <1>1, <2>1, BasedStays DEF SettledParts
<1> QED BY <1>1, SettledStays

\* While the ref stays, the trunk does.
LEMMA RefStaysOnward ==
  ASSUME KeepInv, UNCHANGED ref, Grown(commits, commits')
  PROVE  /\ Onward /\ RefOrHead' = RefOrHead
         /\ Past(commits', RefOrHead) = Past(commits, RefOrHead)
         /\ \A u \in Task : SameTrunk(u)
BY RefStaysSame, KeepParts DEF Onward, WorkInv

\* Checkouts, commits and the folder stand still.
LEMMA SettledRests ==
  ASSUME KeepInv, SettledInv, UNCHANGED <<folder, commits, ref, faults>>,
         \A u \in Task : /\ SameCheckout(jobs[u], jobs'[u])
                         /\ jobs[u].integration = "landed" => jobs'[u].integration = "landed"
                         /\ Writes(u) => Writes(u)' \/ jobs'[u].integration = "landed"
                         /\ StillPending(u)
  PROVE  SettledInv'
<1>1. Grown(commits, commits')
  BY GrownItself, KeepParts DEF LandInv
<1>2. Onward /\ \A u \in Task : SameTrunk(u)
  BY <1>1, RefStaysOnward
<1>3. \A u \in Task : OnlyLands(u)
  BY DEF OnlyLands, NoneOf
<1>4. ASSUME NEW u \in Task, SettledParts(u) PROVE BasedOn(u)'
  BY <1>2, <1>4, BasedStays DEF SettledParts
<1> QED BY <1>3, <1>4, SettledStays

\* The record of one task changes.
LEMMA SettledRecord ==
  ASSUME KeepInv, SettledInv, UNCHANGED <<folder, commits, ref, landing, faults>>,
         NEW t \in Task, NEW k, jobs' = [jobs EXCEPT ![t] = k],
         SameCheckout(jobs[t], k), k.integration = jobs[t].integration
  PROVE  SettledInv'
<1>1. OneJob(t) /\ jobs'[t] = k
  BY OneJobIs, KeepParts
<1>2. \A u \in Task : SameCheckout(jobs[u], jobs'[u]) /\ jobs'[u].integration = jobs[u].integration
  BY <1>1 DEF OneJob, SameCheckout
<1>3. \A u \in Task : (Writes(u) => Writes(u)') /\ StillPending(u)
  BY DEF Writes, StillPending, Pending
<1> QED BY <1>2, <1>3, SettledRests

LEMMA RecordsSettled ==
  ASSUME KeepInv, SettledInv, NEW t \in Task,
         \/ Start(t) \/ Sweep(t) \/ ReuseWorktree(t)
         \/ \E by \in {"lander", "sweep"} : RunResolver(t, by)
  PROVE  SettledInv'
<1> DEFINE j == jobs[t]
<1>1. DOMAIN j = JobFields /\ jobs = [u \in Task |-> jobs[u]]
  BY KeepParts, JobsTyped
<1>2. CASE Start(t)
  <2> DEFINE k == [Claimed(j) EXCEPT !.spent = IF j.status = "review" THEN 0 ELSE @]
  <2>1. SameCheckout(j, k) /\ k.integration = j.integration
    BY <1>1 DEF SameCheckout, Claimed, JobFields
  <2>2. jobs' = [jobs EXCEPT ![t] = k] /\ UNCHANGED <<folder, commits, ref, landing, faults>>
    BY <1>2 DEF Start
  <2> HIDE DEF k
  <2> QED BY <2>1, <2>2, SettledRecord
<1>3. CASE Sweep(t)
  <2> DEFINE k == [j EXCEPT !.resolvers = @ \union {"sweep"}]
  <2>1. SameCheckout(j, k) /\ k.integration = j.integration
    BY <1>1 DEF SameCheckout, JobFields
  <2>2. jobs' = [jobs EXCEPT ![t] = k] /\ UNCHANGED <<folder, commits, ref, landing, faults>>
    BY <1>1, <1>3 DEF Sweep
  <2> HIDE DEF k
  <2> QED BY <2>1, <2>2, SettledRecord
<1>4. CASE ReuseWorktree(t)
  <2> DEFINE k == [j EXCEPT !.run = "live"]
  <2>1. SameCheckout(j, k) /\ k.integration = j.integration
    BY <1>1 DEF SameCheckout, JobFields
  <2>2. jobs' = [jobs EXCEPT ![t] = k] /\ UNCHANGED <<folder, commits, ref, landing, faults>>
    BY <1>1, <1>4 DEF ReuseWorktree
  <2> HIDE DEF k
  <2> QED BY <2>1, <2>2, SettledRecord
<1>5. ASSUME NEW by, RunResolver(t, by)
      PROVE  SettledInv'
  <2> DEFINE k == [Claimed(j) EXCEPT !.resolvers = @ \ {by},
                                     !.spent = IF @ < MaxResolver THEN @ + 1 ELSE @]
  <2>1. SameCheckout(j, k) /\ k.integration = j.integration
    BY <1>1 DEF SameCheckout, Claimed, JobFields
  <2>2. jobs' = [jobs EXCEPT ![t] = k] /\ UNCHANGED <<folder, commits, ref, landing, faults>>
    BY <1>5 DEF RunResolver
  <2> HIDE DEF k
  <2> QED BY <2>1, <2>2, SettledRecord
<1> QED BY <1>2, <1>3, <1>4, <1>5

\* A failure ends the promise.
LEMMA FailuresSettled ==
  ASSUME SettledInv,
         \/ LandingKilled
         \/ \E t \in Task : \/ RunEnds(t)
                            \/ \E by \in {"lander", "sweep"} : ResolverNotSent(t, by)
  PROVE  SettledInv'
<1>1. faults' = faults + 1 /\ faults \in Nat
  BY DEF SettledInv, LandingKilled, RunEnds, ResolverNotSent
<1>2. faults' \in Nat /\ faults' # 0
  BY <1>1
<1> QED BY <1>2 DEF SettledInv

LEMMA TakesSettled ==
  ASSUME KeepInv, SettledInv, LockIsFree, NEW t, NEW byDone, Takes(t, byDone)
  PROVE  SettledInv'
<1>1. UNCHANGED <<folder, commits, ref, jobs, faults>>
  BY DEF Takes
<1>2. \A u \in Task : ~ Writes(u) /\ Pending(u) = 0
  BY DEF LockIsFree, Writes, Pending
<1>3. \A u \in Task : SameCheckout(jobs[u], jobs'[u]) /\ StillPending(u)
  BY <1>1, <1>2 DEF SameCheckout, StillPending
<1> QED BY <1>1, <1>2, <1>3, SettledRests

LEMMA DoneSettled ==
  ASSUME KeepInv, SettledInv, NEW t \in Task, Done(t)
  PROVE  SettledInv'
<1>1. CASE jobs[t].isolated /\ jobs[t].exists
  BY <1>1, TakesSettled DEF Done
<1>2. CASE ~ (jobs[t].isolated /\ jobs[t].exists)
  <2> DEFINE k == [jobs[t] EXCEPT !.status = "review", !.run = "none"]
  <2>1. SameCheckout(jobs[t], k) /\ k.integration = jobs[t].integration
    BY KeepParts DEF SameCheckout, JobFields
  <2>2. /\ jobs' = [jobs EXCEPT ![t] = k]
        /\ UNCHANGED <<folder, commits, ref, landing, faults>>
    BY <1>2, JobsTyped, KeepParts DEF Done
  <2> HIDE DEF k
  <2> QED BY <2>1, <2>2, SettledRecord
<1> QED BY <1>1, <1>2

\* What people write in the folder is no task's.
LEMMA FolderSettled ==
  ASSUME KeepInv, SettledInv, NEW f \in File, NEW e, e[2] \notin Task,
         folder' = [folder EXCEPT ![f] = @ \cup {e}],
         UNCHANGED <<commits, ref, jobs, landing, faults>>
  PROVE  SettledInv'
<1>1. Onward /\ \A u \in Task : SameTrunk(u)
  <2>1. Grown(commits, commits')
    BY GrownItself, KeepParts DEF LandInv
  <2> QED BY <2>1, RefStaysOnward
<1>2. \A u \in Task : OnlyLands(u)
  <2>1. \A g \in File : \A x \in folder'[g] : x \in folder[g] \/ x = e
    BY KeepParts DEF LandInv, IsTree
  <2> QED BY <2>1 DEF OnlyLands, NoneOf, Writes
<1>3. \A u \in Task : SameCheckout(jobs[u], jobs'[u]) /\ StillPending(u)
  BY DEF SameCheckout, StillPending, Pending
<1>4. ASSUME NEW u \in Task, SettledParts(u) PROVE BasedOn(u)'
  BY <1>1, <1>3, <1>4, BasedStays DEF SettledParts
<1> QED BY <1>2, <1>4, SettledStays

LEMMA PersonEditsSettled ==
  ASSUME KeepInv, SettledInv, NEW f \in File, PersonEdits(f)
  PROVE  SettledInv'
<1> DEFINE e == NewEdit(f, "folder")
<1>1. /\ folder' = [folder EXCEPT ![f] = @ \cup {e}]
      /\ UNCHANGED <<commits, ref, jobs, landing, faults>>
  BY DEF PersonEdits
<1>2. e[2] \notin Task
  BY LandingAssumption DEF NewEdit
<1> HIDE DEF e
<1> QED BY <1>1, <1>2, FolderSettled

\* A checkout changes that no landing holds, by what t itself writes.
LEMMA CheckoutSettled ==
  ASSUME KeepInv, SettledInv, NEW t \in Task, NEW k, jobs' = [jobs EXCEPT ![t] = k],
         UNCHANGED <<folder, commits, ref, landing, faults>>,
         k.branch = jobs[t].branch, k.dir.onto = jobs[t].dir.onto,
         k.integration = jobs[t].integration,
         \A g \in File : \A x \in k.dir.tree[g] : x \in jobs[t].dir.tree[g] \/ x[2] = t
  PROVE  SettledInv'
<1>1. OneJob(t) /\ jobs'[t] = k
  BY OneJobIs, KeepParts
<1>2. Onward /\ RefOrHead' = RefOrHead /\ \A u \in Task : SameTrunk(u)
  <2>1. Grown(commits, commits')
    BY GrownItself, KeepParts DEF LandInv
  <2> QED BY <2>1, RefStaysOnward
<1>3. \A u \in Task : OnlyLands(u) /\ StillPending(u)
  BY <1>1 DEF OnlyLands, NoneOf, Writes, OneJob, StillPending, Pending
<1>4. ASSUME SettledParts(t) PROVE BasedOn(t)'
  <2>1. Based(t, jobs[t], commits, RefOrHead, Pending(t))
    BY <1>4 DEF SettledParts, BasedOn
  <2>2. Based(t, k, commits, RefOrHead, Pending(t))
    BY <2>1 DEF Based
  <2>3. Pending(t)' = Pending(t)
    BY DEF Pending
  <2> QED BY <1>1, <1>2, <2>2, <2>3 DEF BasedOn
<1> QED BY <1>1, <1>2, <1>3, <1>4, SettledOther

LEMMA AgentEditsSettled ==
  ASSUME KeepInv, SettledInv, NEW t \in Task, NEW f \in File, AgentEdits(t, f)
  PROVE  SettledInv'
<1> DEFINE place == IF jobs[t].isolated /\ jobs[t].exists THEN t ELSE "folder"
           e == NewEdit(f, place)
<1>1. /\ place = t => /\ jobs' = [jobs EXCEPT ![t].dir.tree[f] = @ \union {e}]
                      /\ UNCHANGED folder
      /\ place # t => /\ folder' = [folder EXCEPT ![f] = @ \union {e}]
                      /\ UNCHANGED jobs
      /\ UNCHANGED <<commits, ref, landing, faults>>
  BY DEF AgentEdits
<1>2. e[2] = place /\ (place = t \/ place = "folder")
  BY DEF NewEdit
<1> HIDE DEF e, place
<1>3. CASE place = t
  <2> DEFINE j == jobs[t]
             tree == [j.dir.tree EXCEPT ![f] = @ \cup {e}]
             dir == [j.dir EXCEPT !.tree = tree]
             k == [j EXCEPT !.dir = dir]
  <2>1. jobs' = [jobs EXCEPT ![t] = k]
    BY <1>1, <1>3, JobsTyped, KeepParts
  <2>2. DOMAIN j.dir = DirFields /\ DOMAIN j = JobFields /\ IsTree(j.dir.tree)
    BY KeepParts DEF JobOK
  <2> HIDE DEF j
  <2>3. \A g \in File : \A x \in tree[g] : x \in j.dir.tree[g] \/ x = e
    <3> DEFINE y == j.dir.tree
    <3>1. IsTree(y)
      BY <2>2
    <3> HIDE DEF y
    <3>2. LET z == [y EXCEPT ![f] = @ \cup {e}]
          IN  \A g \in File : \A x \in z[g] : x \in y[g] \/ x = e
      BY <3>1 DEF IsTree
    <3> QED BY <3>2 DEF y
  <2> HIDE DEF tree
  <2>4. dir.tree = tree /\ dir.onto = j.dir.onto
    BY <2>2 DEF DirFields
  <2> HIDE DEF dir
  <2>5. k.dir = dir /\ k.branch = j.branch /\ k.integration = j.integration
    BY <2>2 DEF JobFields
  <2> HIDE DEF k
  <2>6. \A g \in File : \A x \in k.dir.tree[g] : x \in j.dir.tree[g] \/ x[2] = t
    BY <1>2, <1>3, <2>3, <2>4, <2>5
  <2>7. k.dir.onto = j.dir.onto
    BY <2>4, <2>5
  <2>8. /\ k.branch = jobs[t].branch /\ k.dir.onto = jobs[t].dir.onto
        /\ k.integration = jobs[t].integration
        /\ \A g \in File : \A x \in k.dir.tree[g] : x \in jobs[t].dir.tree[g] \/ x[2] = t
    BY <2>5, <2>6, <2>7 DEF j
  <2>9. UNCHANGED <<folder, commits, ref, landing, faults>>
    BY <1>1, <1>3
  <2> QED BY <2>1, <2>8, <2>9, CheckoutSettled
<1>4. CASE place # t
  <2>1. e[2] \notin Task
    BY <1>2, <1>4, LandingAssumption
  <2> QED BY <1>1, <1>4, <2>1, FolderSettled
<1> QED BY <1>3, <1>4

LEMMA ResolveSettled ==
  ASSUME KeepInv, SettledInv, NEW t \in Task, NEW f \in File, Resolve(t, f)
  PROVE  SettledInv'
<1> DEFINE j == jobs[t]
           dir == [j.dir EXCEPT !.unmerged = @ \ {f}]
           k == [j EXCEPT !.dir = dir]
<1>1. /\ jobs' = [jobs EXCEPT ![t] = k]
      /\ UNCHANGED <<folder, commits, ref, landing, faults>>
  BY JobsTyped, KeepParts DEF Resolve
<1>2. DOMAIN j.dir = DirFields /\ DOMAIN j = JobFields
  BY KeepParts DEF JobOK
<1> HIDE DEF j
<1>3. dir.tree = j.dir.tree /\ dir.onto = j.dir.onto
  BY <1>2 DEF DirFields
<1> HIDE DEF dir
<1>4. k.dir = dir /\ k.branch = j.branch /\ k.integration = j.integration
  BY <1>2 DEF JobFields
<1> HIDE DEF k
<1>5. \A g \in File : \A x \in k.dir.tree[g] : x \in j.dir.tree[g] \/ x[2] = t
  BY <1>3, <1>4
<1>6. k.dir.onto = j.dir.onto
  BY <1>3, <1>4
<1> QED BY <1>1, <1>4, <1>5, <1>6, CheckoutSettled DEF j

\* What the checkout becomes as a commit.
LEMMA TipSettled ==
  ASSUME KeepInv, NEW t \in Task, jobs[t].exists, jobs[t].dir.unmerged = {},
         Pending(t) = 0, BasedOn(t)
  PROVE  Based(t, OnTip(commits, jobs[t]), Tip(commits, jobs[t]), RefOrHead, 0)
<1> DEFINE j == jobs[t]
           k == OnTip(commits, j)
           new == Tip(commits, j)
<1>1. /\ History(new) /\ Grown(commits, new)
      /\ k.branch = Len(commits) + 1 /\ new[k.branch].tree = j.dir.tree
  BY TipKeeps, KeepParts
<1>2. /\ Past(new, Len(commits) + 1) =
           {Len(commits) + 1} \cup Past(commits, j.branch) \cup PastOf(commits, j.dir.onto)
      /\ k.dir.onto = 0 /\ k.dir.tree = j.dir.tree
  BY TipWork, KeepParts
<1>3. /\ RefOrHead \in 1 .. Len(commits) /\ History(commits)
      /\ j.branch \in 1 .. Len(commits) /\ j.dir.onto \in 0 .. Len(commits)
  BY RefOrHeadIs, BranchIs, KeepParts DEF LandInv, JobOK
<1>4. Based(t, j, commits, RefOrHead, 0)
  BY DEF BasedOn
<1> HIDE DEF j, k, new
<1>5. new[Len(commits) + 1].tree = j.dir.tree
  BY <1>1
<1>6. Based(t, k, new, RefOrHead, 0)
  BY <1>1, <1>2, <1>3, <1>4, <1>5, TipBased
<1> QED BY <1>6 DEF j, k, new

LEMMA AgentCommitsSettled ==
  ASSUME KeepInv, SettledInv, NEW t \in Task, AgentCommits(t)
  PROVE  SettledInv'
<1> DEFINE k == OnTip(commits, jobs[t])
           new == Tip(commits, jobs[t])
<1>1. /\ commits' = new /\ jobs' = [jobs EXCEPT ![t] = k]
      /\ jobs[t].exists /\ jobs[t].dir.unmerged = {} /\ landing.of # t
      /\ UNCHANGED <<folder, ref, landing, faults>>
  BY DEF AgentCommits
<1>2. /\ Grown(commits, commits') /\ k.integration = jobs[t].integration
  BY AgentCommitsWork, OnTipIs, KeepParts
<1>3. Pending(t) = 0 /\ Pending(t)' = 0
  BY <1>1 DEF Pending
<1>4. ASSUME BasedOn(t) PROVE Based(t, k, new, RefOrHead, 0)
  BY <1>1, <1>3, <1>4, TipSettled
<1> HIDE DEF k, new
<1>5. OneJob(t) /\ jobs'[t] = k
  BY <1>1, OneJobIs, KeepParts
<1>6. Onward /\ RefOrHead' = RefOrHead /\ \A u \in Task : SameTrunk(u)
  BY <1>1, <1>2, RefStaysOnward
<1>7. \A u \in Task : OnlyLands(u) /\ StillPending(u)
  BY <1>1, <1>2, <1>5 DEF OnlyLands, NoneOf, Writes, OneJob, StillPending, Pending
<1>8. ASSUME SettledParts(t) PROVE BasedOn(t)'
  BY <1>1, <1>3, <1>4, <1>5, <1>6, <1>8 DEF SettledParts, BasedOn
<1> QED BY <1>1, <1>5, <1>6, <1>7, <1>8, SettledOther

\* A new branch is the trunk.
LEMMA CreateWorktreeSettled ==
  ASSUME KeepInv, SettledInv, NEW t \in Task, CreateWorktree(t)
  PROVE  SettledInv'
<1> DEFINE new == Snapped(commits, RefOrHead)
           w == FolderCommit(commits, RefOrHead)
           j == jobs[t]
           dir == [NoDir EXCEPT !.tree = folder]
           k == [j EXCEPT !.run = "live", !.isolated = TRUE, !.exists = TRUE,
                          !.branch = w, !.dir = dir]
<1>0. /\ TaskGood(t, j, commits, ref, RefOrHead, folder) /\ DOMAIN j = JobFields
      /\ jobs = [u \in Task |-> jobs[u]] /\ LandInv
  BY KeepParts, JobsTyped
<1>1. /\ LockIsFree /\ commits' = new /\ ref' = w
      /\ UNCHANGED <<folder, landing, faults>>
      /\ jobs' = [jobs EXCEPT ![t] = k]
  <2>1. j.branch = 0
    BY <1>0 DEF CreateWorktree, TaskGood
  <2> QED BY <1>0, <2>1 DEF CreateWorktree
<1>2. w \in 1 .. Len(new) /\ new[w].tree = folder
  BY <1>0, RefOrHeadIs, SnapshotIs DEF LandInv
<1>3. Onward /\ \A u \in Task : SameTrunk(u)
  BY CreateWorktreeWork, KeepParts
<1>4. dir.tree = folder /\ dir.onto = 0
  BY DEF NoDir
<1> HIDE DEF j, new, w, dir
<1>5. k.branch = w /\ k.dir = dir /\ k.integration = j.integration
  BY <1>0 DEF JobFields
<1> HIDE DEF k
<1>6. OneJob(t) /\ jobs'[t] = k
  BY <1>0, <1>1, OneJobIs
<1>7. \A u \in Task : OnlyLands(u) /\ StillPending(u)
  BY <1>1, <1>5, <1>6
     DEF OnlyLands, NoneOf, Writes, OneJob, StillPending, Pending, LockIsFree, j
<1>8. BasedOn(t)'
  <2>1. RefOrHead' = w
    BY <1>1, <1>2 DEF RefOrHead
  <2>2. w \in Past(new, w)
    BY DEF Past
  <2>3. k.dir.onto = 0 /\ k.dir.tree = new[k.branch].tree
    BY <1>2, <1>4, <1>5
  <2>4. Based(t, k, new, w, Pending(t)')
    BY <1>5, <2>2, <2>3, BranchOnTrunk
  <2> QED BY <1>1, <1>6, <2>1, <2>4 DEF BasedOn
<1> QED BY <1>1, <1>3, <1>6, <1>7, <1>8, SettledOther

\* Without a branch there is nothing to rest on.
LEMMA GoneSettled ==
  ASSUME KeepInv, SettledInv, UNCHANGED <<folder, commits, ref, faults>>,
         landing.pc \in {"free", "save"}, landing' = landing \/ landing' = NoLanding,
         NEW t \in Task, landing.pc = "save" => landing.of = t,
         NEW k, jobs' = [jobs EXCEPT ![t] = k],
         (k.integration = jobs[t].integration /\ landing.pc = "free")
         \/ k.integration = "landed",
         SameCheckout(jobs[t], k) \/ (k.branch = 0 /\ k.dir = NoDir)
  PROVE  SettledInv'
<1>1. OneJob(t) /\ jobs'[t] = k
  BY OneJobIs, KeepParts
<1>2. Onward /\ RefOrHead' = RefOrHead /\ \A u \in Task : SameTrunk(u)
  <2>1. Grown(commits, commits')
    BY GrownItself, KeepParts DEF LandInv
  <2> QED BY <2>1, RefStaysOnward
<1>3. \A u \in Task : Pending(u) = 0
  BY DEF Pending
<1>4. \A u \in Task : OnlyLands(u) /\ StillPending(u)
  BY <1>1, <1>3 DEF OnlyLands, NoneOf, Writes, OneJob, StillPending
<1>5. ASSUME SettledParts(t) PROVE BasedOn(t)'
  <2>1. CASE SameCheckout(jobs[t], k)
    BY <1>1, <1>2, <1>4, <1>5, <2>1, BasedStays DEF SettledParts
  <2>2. CASE k.branch = 0 /\ k.dir = NoDir
    <3>1. k.dir.onto = 0
      BY <2>2 DEF NoDir
    <3>2. Based(t, k, commits', RefOrHead', Pending(t)')
      BY <2>2, <3>1 DEF Based
    <3> QED BY <1>1, <3>2 DEF BasedOn
  <2> QED BY <2>1, <2>2
<1> QED BY <1>1, <1>2, <1>4, <1>5, SettledOther

LEMMA CleanUpSettled ==
  ASSUME KeepInv, SettledInv, NEW t \in Task, CleanUp(t)
  PROVE  SettledInv'
<1> DEFINE k == Cleared(jobs[t], FALSE)
<1>1. /\ jobs' = [jobs EXCEPT ![t] = k] /\ landing.pc = "free"
      /\ UNCHANGED <<folder, commits, ref, landing, faults>>
      /\ jobs[t].integration = "landed"
  BY DEF CleanUp, AwaitsDeferredCleanup, LockIsFree
<1>2. /\ jobs[t].branch # 0 => IsLanded(jobs[t].branch)
      /\ jobs[t].isolated <=> jobs[t].branch # 0
  BY <1>1, KeepParts DEF Resting, TaskGood, IsLanded
<1>3. /\ k = jobs[t] \/ (k.branch = 0 /\ k.dir = NoDir)
      /\ k.integration = jobs[t].integration
  BY <1>2, KeepParts, ClearedIs
<1> HIDE DEF k
<1>4. SameCheckout(jobs[t], k) \/ (k.branch = 0 /\ k.dir = NoDir)
  BY <1>3 DEF SameCheckout
<1> QED BY <1>1, <1>3, <1>4, GoneSettled

LEMMA AcceptSettled ==
  ASSUME KeepInv, SettledInv, NEW t \in Task, Accept(t)
  PROVE  SettledInv'
<1> DEFINE j == Cleared(jobs[t], TRUE)
           k == [j EXCEPT !.status = "done"]
<1>1. /\ jobs' = [jobs EXCEPT ![t] = k] /\ landing.pc = "free"
      /\ UNCHANGED <<folder, commits, ref, landing, faults>>
  BY DEF Accept, LockIsFree
<1>2. jobs[t].isolated <=> jobs[t].branch # 0
  BY KeepParts DEF TaskGood
<1>3. /\ j = jobs[t] \/ (j.branch = 0 /\ j.dir = NoDir)
      /\ DOMAIN j = JobFields /\ j.integration = jobs[t].integration
  BY <1>2, KeepParts, ClearedIs
<1> HIDE DEF j
<1>4. /\ k.dir = j.dir /\ k.branch = j.branch /\ k.integration = j.integration
      /\ (k.exists <=> j.exists) /\ (k.isolated <=> j.isolated)
  BY <1>3 DEF JobFields
<1> HIDE DEF k
<1>5. SameCheckout(jobs[t], k) \/ (k.branch = 0 /\ k.dir = NoDir)
  BY <1>3, <1>4 DEF SameCheckout
<1>6. k.integration = jobs[t].integration
  BY <1>3, <1>4
<1> QED BY <1>1, <1>5, <1>6, GoneSettled

\* Nobody has a branch.
LEMMA RebaselineSettled ==
  ASSUME KeepInv, SettledInv, Rebaseline
  PROVE  SettledInv'
<1>1. /\ \A u \in Task : ~ jobs[u].isolated
      /\ UNCHANGED <<folder, landing, jobs, faults>>
  BY DEF Rebaseline
<1>2. \A u \in Task : jobs'[u].branch = 0 /\ jobs'[u].dir.onto = 0
  BY <1>1, KeepParts DEF TaskGood
<1>3. \A u \in Task : OnlyLands(u)
  BY <1>1 DEF OnlyLands, NoneOf, Writes
<1>4. \A u \in Task : BasedOn(u)'
  BY <1>2 DEF BasedOn, Based
<1> QED BY <1>1, <1>3, <1>4, SettledStays

LEMMA BeginLandingSettled ==
  ASSUME KeepInv, SettledInv, NEW t \in Task, t = landing.of, BeginLanding
  PROVE  SettledInv'
<1> DEFINE log == IF CommitsAll(jobs[t]) THEN Tip(commits, jobs[t]) ELSE commits
           k == IF CommitsAll(jobs[t]) THEN OnTip(commits, jobs[t]) ELSE jobs[t]
           new == Snapped(log, RefOrHead)
<1>1. /\ landing.pc = "begin" /\ commits' = new
      /\ landing' = [landing EXCEPT !.pc = "merge", !.w = FolderCommit(log, RefOrHead)]
      /\ UNCHANGED <<folder, ref, faults>> /\ jobs' = [jobs EXCEPT ![t] = k]
  BY JobsTyped, KeepParts DEF BeginLanding
<1>2. jobs[t].exists /\ DOMAIN landing = DOMAIN NoLanding
  BY <1>1, LandsIs
<1>3. landing'.pc = "merge" /\ \A u \in Task : Pending(u) = 0 /\ Pending(u)' = 0
  BY <1>1, <1>2 DEF NoLanding, Pending
<1>4. /\ History(log) /\ Grown(commits, log) /\ JobOK(k, log) /\ k.exists
      /\ TaskGood(t, k, log, ref, RefOrHead, folder)
      /\ k.integration = jobs[t].integration
  BY <1>2, CommitAllWork, OnTipIs, KeepParts
<1>5. ASSUME BasedOn(t) PROVE Based(t, k, log, RefOrHead, 0)
  <2>1. CASE CommitsAll(jobs[t])
    <3>1. jobs[t].dir.unmerged = {}
      BY <2>1 DEF CommitsAll
    <3> QED BY <1>2, <1>3, <1>5, <2>1, <3>1, TipSettled
  <2>2. CASE ~ CommitsAll(jobs[t])
    BY <1>3, <1>5, <2>2 DEF BasedOn
  <2> QED BY <2>1, <2>2
<1> HIDE DEF k, log
<1>6. RefOrHead \in 1 .. Len(log) /\ Within(log[RefOrHead].tree, folder)
  BY <1>4, RefOrHeadIs, KeepParts DEF Grown
<1>7. Grown(log, new)
  BY <1>4, <1>6, SnapshotIs, KeepParts DEF LandInv
<1>8. Grown(commits, commits')
  BY <1>1, BeginLandingWork, KeepParts
<1> HIDE DEF new
<1>9. OneJob(t) /\ jobs'[t] = k
  BY <1>1, OneJobIs, KeepParts
<1>10. Onward /\ RefOrHead' = RefOrHead /\ \A u \in Task : SameTrunk(u)
  BY <1>1, <1>8, RefStaysOnward
<1>11. \A u \in Task : OnlyLands(u) /\ StillPending(u)
  BY <1>1, <1>3, <1>4, <1>9 DEF OnlyLands, NoneOf, Writes, OneJob, StillPending
<1>12. ASSUME SettledParts(t) PROVE BasedOn(t)'
  <2>1. k.branch \in 1 .. Len(log) /\ k.branch \in 0 .. Len(log)
        /\ k.dir.onto \in 0 .. Len(log) /\ k.branch # 0
    BY <1>4 DEF JobOK, History
  <2>2. Common(new, RefOrHead, k.branch) = Common(log, RefOrHead, k.branch)
    BY <1>4, <1>6, <1>7, <2>1, CommonStays
  <2>3. Past(log, RefOrHead) \subseteq Past(new, RefOrHead)
    BY <1>4, <1>6, <1>7, PastStays
  <2>4. Based(t, k, log, RefOrHead, 0) /\ SameCheckout(k, k)
    BY <1>5, <1>12 DEF SettledParts, SameCheckout
  <2>5. Based(t, k, new, RefOrHead, 0)
    BY <1>4, <1>6, <1>7, <2>1, <2>2, <2>3, <2>4, BasedMoves
  <2> QED BY <1>1, <1>3, <1>9, <1>10, <2>5 DEF BasedOn
<1> QED BY <1>1, <1>9, <1>10, <1>11, <1>12, SettledOther

LEMMA LandingMovesSettled ==
  ASSUME KeepInv, SettledInv, Preflight \/ Materialize
  PROVE  SettledInv'
<1>1. landing.pc \in {"merge", "check"} /\ UNCHANGED <<folder, commits, ref, jobs, faults>>
  BY DEF Preflight, Materialize
<1>2. \A u \in Task : ~ Writes(u) /\ Pending(u) = 0
  BY <1>1 DEF Writes, Pending
<1>3. \A u \in Task : SameCheckout(jobs[u], jobs'[u]) /\ StillPending(u)
  BY <1>1, <1>2 DEF SameCheckout, StillPending
<1> QED BY <1>1, <1>2, <1>3, SettledRests

LEMMA DeferLandingSettled ==
  ASSUME KeepInv, SettledInv, NEW t \in Task, t = landing.of, DeferLanding
  PROVE  SettledInv'
<1> DEFINE j == Closed(jobs[t])
           k == [j EXCEPT !.toPerson = TRUE]
<1>1. /\ landing.pc = "check" /\ jobs' = [jobs EXCEPT ![t] = k] /\ landing' = NoLanding
      /\ UNCHANGED <<folder, commits, ref, faults>>
  BY DEF DeferLanding
<1>2. /\ SameCheckout(jobs[t], j) /\ DOMAIN j = JobFields
      /\ j.integration = jobs[t].integration
  BY KeepParts, ClosedWork
<1> HIDE DEF j
<1>3. SameCheckout(jobs[t], k) /\ k.integration = jobs[t].integration
  BY <1>2 DEF SameCheckout, JobFields
<1> HIDE DEF k
<1>4. OneJob(t) /\ jobs'[t] = k
  BY <1>1, OneJobIs, KeepParts
<1>5. \A u \in Task : /\ SameCheckout(jobs[u], jobs'[u])
                      /\ jobs'[u].integration = jobs[u].integration
                      /\ ~ Writes(u) /\ StillPending(u)
  BY <1>1, <1>3, <1>4 DEF OneJob, SameCheckout, Writes, StillPending, Pending
<1> QED BY <1>1, <1>5, SettledRests

\* A landing writes what its task wrote.
LEMMA WriteFileSettled ==
  ASSUME KeepInv, SettledInv, NEW t \in Task, t = landing.of, NEW f \in File, WriteFile(f)
  PROVE  SettledInv'
<1>1. /\ landing.pc = "write"
      /\ folder' = [folder EXCEPT ![f] = landing.tree[f]]
      /\ landing' = [landing EXCEPT !.left = @ \ {f}]
      /\ UNCHANGED <<commits, ref, jobs, faults>>
  BY DEF WriteFile
<1>2. DOMAIN landing = DOMAIN NoLanding /\ IsTree(folder)
  BY <1>1, KeepParts DEF LandInv, LandingOK
<1>3. landing'.pc = "write" /\ landing'.of = t
  BY <1>1, <1>2 DEF NoLanding
<1>4. Foreign(t, landing.tree, folder)
  BY <1>1, KeepParts DEF WorkInv, LandingWork
<1>5. \A u \in Task : OnlyLands(u)
  <2>1. \A g \in File : \A x \in folder'[g] : x \in folder[g] \/ x[2] = t
    BY <1>1, <1>2, <1>4 DEF IsTree, Foreign
  <2>2. Writes(t)' /\ \A u \in Task \ {t} : NoneOf(u, folder, folder') /\ ~ Writes(u)
    BY <1>3, <2>1 DEF Writes, NoneOf
  <2> QED BY <1>1, <2>2 DEF OnlyLands
<1>6. Onward /\ \A u \in Task : SameTrunk(u)
  <2>1. Grown(commits, commits')
    BY <1>1, GrownItself, KeepParts DEF LandInv
  <2> QED BY <1>1, <2>1, RefStaysOnward
<1>7. \A u \in Task : SameCheckout(jobs[u], jobs'[u]) /\ StillPending(u)
  BY <1>1 DEF SameCheckout, StillPending, Pending
<1>8. ASSUME NEW u \in Task, SettledParts(u) PROVE BasedOn(u)'
  BY <1>6, <1>7, <1>8, BasedStays DEF SettledParts
<1> QED BY <1>1, <1>5, <1>8, SettledStays

\* The branch is of the trunk now.
LEMMA AdvanceRefSettled ==
  ASSUME KeepInv, WorkInv', SettledInv, NEW t \in Task, t = landing.of, AdvanceRef
  PROVE  SettledInv'
<1> DEFINE b == jobs[t].branch
<1>1. /\ landing.pc = "write" /\ landing' = [landing EXCEPT !.pc = "save"]
      /\ UNCHANGED <<folder, jobs, faults>>
  BY DEF AdvanceRef
<1>2. jobs[t].exists /\ DOMAIN landing = DOMAIN NoLanding /\ b \in 1 .. Len(commits)
  BY <1>1, BranchIs, KeepParts DEF LandInv, LandingOK
<1>3. landing'.pc = "save" /\ landing'.of = t
  BY <1>1, <1>2 DEF NoLanding
<1>4. Onward /\ \A u \in Task \ {t} : SameTrunk(u)
  BY AdvanceRefWork, KeepParts
<1>5. OneJob(t) /\ jobs'[t] = jobs[t]
  BY <1>1, JobsTyped, KeepParts DEF OneJob
<1>6. \A u \in Task : OnlyLands(u) /\ StillPending(u)
  BY <1>1, <1>3 DEF OnlyLands, NoneOf, Writes, StillPending, Pending
<1>7. BasedOn(t)'
  <2>1. jobs[t].dir.onto = 0 /\ jobs[t].dir.tree = commits[b].tree
    BY <1>1, KeepParts DEF WorkInv, LandingWork
  <2>2. commits'[b] = commits[b]
    BY <1>2, <1>4, PastStays, KeepParts DEF LandInv, Onward
  <2>3. b \in Past(commits', RefOrHead')
    BY <1>3, <1>5 DEF WorkInv, LandingWork, RefOrHead
  <2>4. Based(t, jobs[t], commits', RefOrHead', Pending(t)')
    BY <2>1, <2>2, <2>3, BranchOnTrunk
  <2> QED BY <1>5, <2>4 DEF BasedOn
<1> QED BY <1>1, <1>4, <1>5, <1>6, <1>7, SettledOther

LEMMA SaveLandedSettled ==
  ASSUME KeepInv, SettledInv, NEW t \in Task, t = landing.of, SaveLanded
  PROVE  SettledInv'
<1> DEFINE k == Landed(jobs[t])
           l == Cleared(k, FALSE)
<1>1. /\ landing.pc = "save" /\ landing' = NoLanding
      /\ UNCHANGED <<folder, commits, ref, faults>>
      /\ jobs' = [jobs EXCEPT ![t] = k] \/ jobs' = [jobs EXCEPT ![t] = l]
  BY DEF SaveLanded
<1>2. SameCheckout(jobs[t], k) /\ DOMAIN k = JobFields /\ k.integration = "landed"
  BY KeepParts, LandedIs
<1>3. JobOK(k, commits)
  BY <1>2, KeepParts DEF JobOK, SameCheckout
<1>4. /\ k.branch # 0 => FALSE \/ IsLanded(k.branch)
      /\ k.isolated <=> k.branch # 0
  BY <1>1, <1>2, KeepParts DEF WorkInv, LandingWork, TaskGood, IsLanded, SameCheckout
<1> HIDE DEF k
<1>5. (l = k \/ (l.branch = 0 /\ l.dir = NoDir)) /\ l.integration = "landed"
  BY <1>2, <1>3, <1>4, ClearedIs
<1> HIDE DEF l
<1>6. SameCheckout(jobs[t], l) \/ (l.branch = 0 /\ l.dir = NoDir)
  BY <1>2, <1>5
<1> QED BY <1>1, <1>2, <1>5, <1>6, GoneSettled

\* The checkout merges the snapshot, which the landing will record.
LEMMA LandConflictSettled ==
  ASSUME KeepInv, SettledInv, NEW t \in Task, t = landing.of, LandConflict
  PROVE  SettledInv'
<1> DEFINE j == jobs[t]
           w == landing.w
           m == MergeOf(commits, j.branch, w)
           dir == [tree |-> m.tree, unmerged |-> m.conflicts, onto |-> w]
           k == [j EXCEPT !.dir = dir]
           old == Common(commits, RefOrHead, j.branch)
<1>1. /\ landing.pc = "conflict" /\ landing' = [landing EXCEPT !.pc = "record"]
      /\ UNCHANGED <<folder, commits, ref, faults>>
      /\ jobs' = [jobs EXCEPT ![t] = Conflicted(j)]
  BY DEF LandConflict
<1>2. /\ w \in 1 .. Len(commits) /\ j.branch \in 1 .. Len(commits) /\ j.branch # 0
      /\ DOMAIN landing = DOMAIN NoLanding /\ DOMAIN j = JobFields
      /\ History(commits) /\ w # 0
      /\ Past(commits, RefOrHead) \subseteq Past(commits, w)
      /\ j.dir.unmerged # {} => j.dir.onto # 0
  BY <1>1, LandsIs, BranchIs, KeepParts
     DEF LandInv, LandingOK, SnapshotOK, TaskGood, WorkInv, SnapshotOnTrunk, HasSnapshot
<1>3. landing'.pc = "record" /\ landing'.of = t /\ landing'.w = w
  BY <1>1, <1>2 DEF NoLanding
<1>4. Pending(t) = 0 /\ Pending(t)' = w /\ \A u \in Task \ {t} : Pending(u) = 0
  BY <1>1, <1>3 DEF Pending
<1>5. \A f \in File : \A x \in m.tree[f] : x \in commits[j.branch].tree[f] \/ x \in commits[w].tree[f]
  BY <1>2, MergeOnlyMerges
<1>6. Conflicted(j) = j \/ (j.dir.onto = 0 /\ Conflicted(j) = k)
  BY DEF Conflicted
<1>7. /\ k.dir.tree = m.tree /\ k.dir.onto = w /\ k.branch = j.branch
      /\ k.integration = j.integration
  <2> HIDE DEF j, m, w
  <2> QED BY <1>2 DEF JobFields
<1> HIDE DEF k, m
<1>8. OneJob(t) /\ jobs'[t] = Conflicted(j)
  BY <1>1, OneJobIs, KeepParts
<1>9. Onward /\ RefOrHead' = RefOrHead /\ \A u \in Task : SameTrunk(u)
  <2>1. Grown(commits, commits')
    BY <1>1, GrownItself, <1>2
  <2> QED BY <1>1, <2>1, RefStaysOnward
<1>10. \A u \in Task : OnlyLands(u) /\ StillPending(u)
  <2>1. \A u \in Task : jobs'[u].integration = jobs[u].integration
    BY <1>6, <1>7, <1>8 DEF OneJob
  <2> QED BY <1>1, <1>4, <2>1 DEF OnlyLands, NoneOf, Writes, StillPending
<1>11. ASSUME SettledParts(t) PROVE BasedOn(t)'
  <2>1. CASE Conflicted(j) = j
    <3>1. SameCheckout(jobs[t], jobs'[t])
      BY <1>8, <2>1 DEF SameCheckout
    <3> QED BY <1>9, <1>10, <1>11, <3>1, BasedStays DEF SettledParts
  <2>2. CASE j.dir.onto = 0 /\ Conflicted(j) = k
    <3>1. PICK r \in old : /\ old \subseteq Past(commits, r)
                           /\ Foreign(t, commits[j.branch].tree, commits[r].tree)
      BY <1>2, <1>11 DEF SettledParts, BasedOn, Based
    <3>2. \A f \in File : \A x \in k.dir.tree[f] :
             x[2] = t \/ x \in commits[r].tree[f] \/ x \in commits[w].tree[f]
      BY <1>5, <1>7, <3>1 DEF Foreign
    <3>3. old \subseteq Past(commits, w)
      BY <1>2 DEF Common
    <3> HIDE DEF j, w
    <3>4. Based(t, k, commits, RefOrHead, w)
      BY <1>2, <1>7, <3>1, <3>2, <3>3 DEF Based, old
    <3> QED BY <1>1, <1>4, <1>8, <1>9, <2>2, <3>4 DEF BasedOn
  <2> QED BY <1>6, <2>1, <2>2
<1> QED BY <1>1, <1>8, <1>9, <1>10, <1>11, SettledOther

\* What the checkout merged is of the trunk now.
LEMMA RecordConflictSettled ==
  ASSUME KeepInv, SettledInv, NEW t \in Task, t = landing.of, RecordConflict
  PROVE  SettledInv'
<1> DEFINE j == Closed(jobs[t])
           k == [j EXCEPT !.integration = "conflict",
                          !.resolvers = IF ResolverWanted(jobs[t])
                                        THEN @ \union {"lander"} ELSE @]
<1>1. /\ landing.pc = "record" /\ landing' = NoLanding /\ ref' = landing.w
      /\ jobs' = [jobs EXCEPT ![t] = k] /\ UNCHANGED <<folder, commits, faults>>
  BY DEF RecordConflict, RefAfterConflict
<1>2. jobs[t].integration # "landed" /\ landing.w \in 1 .. Len(commits)
  BY <1>1, LandsIs, KeepParts DEF LandInv, LandingOK, SnapshotOK
<1>3. SameCheckout(jobs[t], j) /\ DOMAIN j = JobFields
  BY KeepParts, ClosedWork
<1> HIDE DEF j
<1>4. SameCheckout(jobs[t], k)
  BY <1>3 DEF SameCheckout, JobFields
<1> HIDE DEF k
<1>5. OneJob(t) /\ jobs'[t] = k
  BY <1>1, OneJobIs, KeepParts
<1>6. Onward /\ \A u \in Task : SameTrunk(u)
  BY RecordConflictWork, KeepParts
<1>7. landing.w \in Past(commits', RefOrHead')
  BY <1>1, <1>2 DEF RefOrHead, Past
<1>8. \A u \in Task : OnlyLands(u) /\ StillPending(u)
  BY <1>1, <1>2, <1>5, <1>7 DEF OnlyLands, NoneOf, Writes, OneJob, StillPending, Pending
<1>9. ASSUME SettledParts(t) PROVE BasedOn(t)'
  BY <1>4, <1>5, <1>6, <1>8, <1>9, BasedStays DEF SettledParts
<1> QED BY <1>1, <1>5, <1>6, <1>8, <1>9, SettledOther

LEMMA SettledStart ==
  ASSUME LandInit
  PROVE  SettledInv
<1> DEFINE first == [status |-> "todo", integration |-> "none", run |-> "none",
                     resolvers |-> {}, toPerson |-> FALSE, spent |-> 0,
                     isolated |-> FALSE, branch |-> 0, exists |-> FALSE, dir |-> NoDir]
<1>1. jobs = [t \in Task |-> first] /\ folder = [f \in File |-> {}] /\ faults = 0
  BY DEF LandInit
<1>2. first.branch = 0 /\ first.dir.onto = 0
  BY DEF NoDir
<1> HIDE DEF first
<1>3. \A t \in Task : NotYetInFolder(t) /\ BasedOn(t)
  BY <1>1, <1>2 DEF NotYetInFolder, BasedOn, Based
<1> QED BY <1>1, <1>3 DEF SettledInv

LEMMA SettledKeeps ==
  ASSUME KeepInv, WorkInv', SettledInv, [LandNext]_landVars
  PROVE  SettledInv'
<1>1. CASE LandStep
  <2>1. landing.pc # "free"
    BY <1>1 DEF LandStep, BeginLanding, Preflight, Materialize, DeferLanding, AdvanceRef,
                SaveLanded, LandConflict, RecordConflict, WriteFile
  <2>2. PICK t \in Task : t = landing.of
    BY <2>1, KeepParts DEF LandInv, LandingOK
  <2>3. CASE BeginLanding
    BY <2>2, <2>3, BeginLandingSettled
  <2>4. CASE Preflight \/ Materialize
    BY <2>4, LandingMovesSettled
  <2>5. CASE DeferLanding
    BY <2>2, <2>5, DeferLandingSettled
  <2>6. CASE AdvanceRef
    BY <2>2, <2>6, AdvanceRefSettled
  <2>7. CASE SaveLanded
    BY <2>2, <2>7, SaveLandedSettled
  <2>8. CASE LandConflict
    BY <2>2, <2>8, LandConflictSettled
  <2>9. CASE RecordConflict
    BY <2>2, <2>9, RecordConflictSettled
  <2>10. CASE \E f \in File : WriteFile(f)
    BY <2>2, <2>10, WriteFileSettled
  <2> QED BY <1>1, <2>3, <2>4, <2>5, <2>6, <2>7, <2>8, <2>9, <2>10 DEF LandStep
<1>2. CASE \/ LandingKilled
           \/ \E t \in Task : \/ RunEnds(t)
                              \/ \E by \in {"lander", "sweep"} : ResolverNotSent(t, by)
  BY <1>2, FailuresSettled
<1>3. CASE Rebaseline \/ \E f \in File : PersonEdits(f)
  BY <1>3, RebaselineSettled, PersonEditsSettled
<1>4. ASSUME NEW t \in Task,
             \/ Start(t) \/ Sweep(t) \/ ReuseWorktree(t)
             \/ \E by \in {"lander", "sweep"} : RunResolver(t, by)
      PROVE  SettledInv'
  BY <1>4, RecordsSettled
<1>5. ASSUME NEW t \in Task,
             CreateWorktree(t) \/ AgentCommits(t) \/ Done(t) \/ CleanUp(t) \/ Accept(t)
      PROVE  SettledInv'
  BY <1>5, CreateWorktreeSettled, AgentCommitsSettled, DoneSettled, CleanUpSettled,
     AcceptSettled
<1>6. ASSUME NEW t \in Task, Integrate(t) PROVE SettledInv'
  BY <1>6, TakesSettled DEF Integrate
<1>7. ASSUME NEW t \in Task, NEW f \in File, AgentEdits(t, f) \/ Resolve(t, f)
      PROVE  SettledInv'
  BY <1>7, AgentEditsSettled, ResolveSettled
<1>8. CASE UNCHANGED landVars
  <2>1. UNCHANGED <<folder, commits, ref, jobs, landing, faults>>
    BY <1>8 DEF landVars
  <2>2. \A u \in Task : SameCheckout(jobs[u], jobs'[u]) /\ StillPending(u) /\ (Writes(u) => Writes(u)')
    BY <2>1 DEF SameCheckout, StillPending, Pending, Writes
  <2> QED BY <2>1, <2>2, SettledRests
<1> QED BY <1>1, <1>2, <1>3, <1>4, <1>5, <1>6, <1>7, <1>8 DEF LandNext

\* A branch that has merged the snapshot is not behind it: what it lacks of
\* the merge base is nothing the folder has.
LEMMA MergedDoesNotClash ==
  ASSUME KeepInv, SettledInv
  PROVE  SettledOnce
<1> SUFFICES ASSUME landing.pc = "conflict", faults = 0,
                    NEW c \in Past(commits, jobs[landing.of].branch),
                    commits[c].tree = commits[landing.w].tree
             PROVE  FALSE
  BY DEF SettledOnce
<1>1. PICK t \in Task : t = landing.of
  BY KeepParts DEF LandInv, LandingOK
<1> DEFINE b == jobs[t].branch
           w == landing.w
           old == Common(commits, RefOrHead, b)
<1>2. /\ b \in 1 .. Len(commits) /\ b # 0 /\ w \in 1 .. Len(commits)
      /\ RefOrHead \in 1 .. Len(commits) /\ Len(commits) \in Nat
      /\ History(commits) /\ Young(commits)
      /\ Within(commits[w].tree, folder)
      /\ Past(commits, RefOrHead) \subseteq Past(commits, w)
      /\ ClashAt(commits, RefOrHead, b, commits[w].tree)
  BY <1>1, LandsIs, BranchIs, RefOrHeadIs, KeepParts
     DEF LandInv, LandingOK, SnapshotOK, History, WorkInv, SnapshotOnTrunk, HasSnapshot,
         LandingWork
<1>3. /\ \A f \in File : \A x \in folder[f] : x[2] # t
      /\ Based(t, jobs[t], commits, RefOrHead, Pending(t))
  BY <1>1, LandsIs DEF SettledInv, NotYetInFolder, Writes, BasedOn
<1>4. PICK r \in old : /\ old \subseteq Past(commits, r)
                       /\ Foreign(t, commits[b].tree, commits[r].tree)
  BY <1>2, <1>3 DEF Based
<1>5. Within(commits[w].tree, commits[b].tree)
  BY <1>1, <1>2, PastWithin
<1> HIDE DEF w
<1>6. r \in 1 .. Len(commits) /\ r \in Past(commits, w)
  BY <1>2, <1>4, PastTyped DEF Common
<1>7. Max(old) = r
  <2>1. old \subseteq 1 .. Len(commits)
    BY <1>2, PastTyped DEF Common
  <2>2. ASSUME NEW d \in old PROVE d <= r
    <3>1. d = r \/ d < r
      BY <1>4, <1>6, <1>2, <2>2 DEF Past, Young
    <3> HIDE DEF old
    <3> QED BY <1>6, <2>1, <3>1
  <2> HIDE DEF old
  <2>3. old \subseteq Int
    BY <1>2, <2>1
  <2> QED BY <1>4, <2>2, <2>3, GreatestIs
<1>8. \A f \in File : commits[w].tree[f] = commits[r].tree[f]
  <2>1. Within(commits[r].tree, commits[w].tree)
    BY <1>2, <1>6, PastWithin
  <2>2. Within(commits[w].tree, commits[r].tree)
    BY <1>2, <1>3, <1>4, <1>5 DEF Within, Foreign
  <2> QED BY <2>1, <2>2 DEF Within
<1> QED BY <1>2, <1>7, <1>8 DEF ClashAt, Clashes, old

(* A conflict is settled once: while no landing and no run is killed and   *)
(* every resolver is sent, a branch that has merged the folder as it is    *)
(* does not conflict with it again (merge_into_worktree, land_task_branch, *)
(* "the next snapshot is parented on the pre-conflict tip").               *)
THEOREM ConflictSettledOnce ==
  ASSUME PeopleWait, Orderly, ~ LandedAgain
  PROVE  LandSpec => []SettledOnce
<1>1. LandInit => KeepInv /\ SettledInv
  BY KeepStart, SettledStart
<1>2. KeepInv /\ SettledInv /\ [LandNext]_landVars => (KeepInv /\ SettledInv)'
  <2>1. KeepInv /\ [LandNext]_landVars => KeepInv'
    BY KeepKeeps
  <2>2. KeepInv /\ SettledInv /\ [LandNext]_landVars => SettledInv'
    BY <2>1, SettledKeeps DEF KeepInv
  <2> QED BY <2>1, <2>2
<1>3. KeepInv /\ SettledInv => SettledOnce
  BY MergedDoesNotClash
<1> QED BY <1>1, <1>2, <1>3, PTL DEF LandSpec

=============================================================================
