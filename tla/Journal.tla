------------------------------- MODULE Journal -------------------------------
(***************************************************************************)
(* How board files become operations of the local journal (core/sync.rs,   *)
(* core/sync/drift.rs, core/sync/segments.rs).  A command that writes a    *)
(* file leaves a redo record (intent.json), writes the file, appends its   *)
(* operations to the segment, notes the file in the drift index and drops  *)
(* the redo.  Files changed behind its back are found by their stat and    *)
(* absorbed as operations of their own.  Any process may be killed between *)
(* two writes; the next one recovers first.                                *)
(*                                                                         *)
(* A file's content is one value.  The stat of an index entry is kept as   *)
(* what it is compared for: whether the file still has it.                 *)
(***************************************************************************)
EXTENDS Integers, SequencesExt

CONSTANTS
    Path,           \* board files
    Text, Blank,    \* what a file may say, and said at first
    NoPath,
    EditorsWait,    \* do editors keep off while a command writes, or was killed?
    MaxWrites,      \* bound: commands and edits
    MaxKills        \* bound: processes killed

ASSUME JournalAssumption ==
    /\ IsFiniteSet(Path)
    /\ Blank \in Text
    /\ NoPath \notin Path
    /\ EditorsWait \in BOOLEAN
    /\ MaxWrites \in Nat
    /\ MaxKills \in Nat

VARIABLES
    disk,       \* path -> text
    segment,    \* the operations of this node, in order
    drift,      \* drift.jsonl: path -> text noted, and does its stat stand
    redo,       \* intent.json: at most one
    tx,         \* the process that holds sync/.lock
    sent,       \* operations the sync worker has read to send them
    writes, kills

journalVars == <<disk, segment, drift, redo, tx, sent, writes, kills>>

Operation == [path : Path, text : Text]
Entry == [text : Text, same : BOOLEAN]

\* What the first n operations of a log say of a path, and what the journal
\* says of it.
Said(L, n, p) ==
    LET own == {i \in 1 .. n : L[i].path = p}
    IN IF own = {} THEN Blank ELSE L[Max(own)].text

Journaled(p) == Said(segment, Len(segment), p)

Nothing == [p \in Path |-> [text |-> Blank, same |-> FALSE]]

\* No process is inside; a process inside keeps what it was asked, the
\* operations it is about to commit, what it saw of the files, and where it
\* goes after the commit.
Outside == [pc |-> "idle", goal |-> "none", path |-> NoPath, text |-> Blank,
            ops |-> <<>>, external |-> FALSE, seen |-> {}, entries |-> Nothing,
            after |-> "idle"]

JournalInit ==
    /\ disk = [p \in Path |-> Blank]
    /\ segment = <<>>
    /\ drift = [p \in Path |-> [text |-> Blank, same |-> TRUE]]
    /\ redo = {}
    /\ tx = Outside
    /\ sent = 0
    /\ writes = 0
    /\ kills = 0

In(pc) == tx.pc = pc
Goes(pc) == [tx EXCEPT !.pc = pc]

\* A write changes the stat of the file: no entry that knew it stands.
Stale(entries, p) == [entries EXCEPT ![p].same = FALSE]

-----------------------------------------------------------------------------
(* The files behind the journal's back: an editor, git, sync switched off. *)

EditBehind(p, text) ==
    /\ writes < MaxWrites
    /\ EditorsWait => redo = {} /\ tx.goal # "absorb"
    /\ disk[p] # text
    /\ writes' = writes + 1
    /\ disk' = [disk EXCEPT ![p] = text]
    /\ drift' = Stale(drift, p)
    /\ tx' = [tx EXCEPT !.entries = Stale(@, p)]
    /\ redo' = {[r EXCEPT !.entries = Stale(@, p)] : r \in redo}
    /\ UNCHANGED <<segment, sent, kills>>

-----------------------------------------------------------------------------
(* Taking sync/.lock, and recovery.                                        *)

\* capture
BeginWrite(p, text) ==
    /\ In("idle")
    /\ writes < MaxWrites
    /\ writes' = writes + 1
    /\ tx' = [Outside EXCEPT !.pc = "recover", !.goal = "absorb",
                             !.path = p, !.text = text]
    /\ UNCHANGED <<disk, segment, drift, redo, sent, kills>>

\* reconcile: the scan of every file.
BeginScan ==
    /\ In("idle")
    /\ tx' = [Outside EXCEPT !.pc = "recover", !.goal = "scan"]
    /\ UNCHANGED <<disk, segment, drift, redo, sent, writes, kills>>

\* Mutant: the log is read without looking for a redo.
ReadAtOnce ==
    /\ In("idle")
    /\ sent < Len(segment)
    /\ tx' = [Outside EXCEPT !.pc = "read", !.goal = "read"]
    /\ UNCHANGED <<disk, segment, drift, redo, sent, writes, kills>>

\* operations_after, for the sync worker.
BeginRead ==
    /\ In("idle")
    /\ sent < Len(segment)
    /\ tx' = [Outside EXCEPT !.pc = "recover", !.goal = "read"]
    /\ UNCHANGED <<disk, segment, drift, redo, sent, writes, kills>>

NothingToRecover ==
    /\ In("recover")
    /\ redo = {}
    /\ tx' = Goes(tx.goal)
    /\ UNCHANGED <<disk, segment, drift, redo, sent, writes, kills>>

\* Mutant: one operation of the batch is taken for all of them.
SomeCommitted(r) == Len(segment) > r.start

\* The head reached the last operation of the batch.
Committed(r) == Len(segment) >= r.through

\* What a finished commit notes: the file as it is now, or as it was seen.
Noted(path, external, seen, entries) ==
    [p \in Path |->
        IF p = path /\ ~ external THEN [text |-> disk[p], same |-> TRUE]
        ELSE IF p \in seen THEN entries[p] ELSE drift[p]]

RecoverCommitted ==
    /\ In("recover")
    /\ \E r \in redo :
          /\ Committed(r)
          /\ drift' = Noted(r.path, r.external, r.seen, r.entries)
    /\ tx' = Goes("clear")
    /\ UNCHANGED <<disk, segment, redo, sent, writes, kills>>

RecoverClear ==
    /\ In("clear")
    /\ redo' = {}
    /\ tx' = Goes("recover")
    /\ UNCHANGED <<disk, segment, drift, sent, writes, kills>>

\* Mutant: what was appended of the batch stays.
Uncut(r) == segment

\* The segment is cut back to where the batch began.
CutBack(r) == SubSeq(segment, 1, r.start)

RecoverTorn ==
    /\ In("recover")
    /\ \E r \in redo :
          /\ ~ Committed(r)
          /\ segment' = CutBack(r)
    /\ tx' = Goes("drop")
    /\ UNCHANGED <<disk, drift, redo, sent, writes, kills>>

\* The file of the torn write may be on disk already: it is looked at,
\* whatever its stat says.
RecoverDrop ==
    /\ In("drop")
    /\ redo' = {}
    /\ \E r \in redo :
          tx' = IF r.path = NoPath THEN Goes("recover")
                ELSE [tx EXCEPT !.pc = "verify", !.seen = {r.path}]
    /\ UNCHANGED <<disk, segment, drift, sent, writes, kills>>

-----------------------------------------------------------------------------
(* Planning.                                                               *)

\* capture_inner for a file changed behind the journal's back.
Absorb(p, after) ==
    [tx EXCEPT !.pc = "intent", !.after = after, !.external = TRUE,
               !.ops = <<[path |-> p, text |-> disk[p]]>>,
               !.seen = {p},
               !.entries = [@ EXCEPT ![p] = [text |-> disk[p], same |-> TRUE]]]

\* reconcile_path
Verify ==
    /\ In("verify")
    /\ \E p \in tx.seen :
          tx' = IF disk[p] # drift[p].text THEN Absorb(p, "recover")
                                           ELSE Goes("recover")
    /\ UNCHANGED <<disk, segment, drift, redo, sent, writes, kills>>

Drifted(p) == ~ drift[p].same /\ disk[p] # drift[p].text

\* reconcile_for_write
AbsorbBeforeWrite ==
    /\ In("absorb")
    /\ tx' = IF Drifted(tx.path) THEN Absorb(tx.path, "plan") ELSE Goes("plan")
    /\ UNCHANGED <<disk, segment, drift, redo, sent, writes, kills>>

\* plan_capture: the difference to the file on disk; none is written plainly.
PlanWrite ==
    /\ In("plan")
    /\ IF disk[tx.path] = tx.text
       THEN /\ drift' = [drift EXCEPT ![tx.path] =
                           [text |-> tx.text, same |-> TRUE]]
            /\ tx' = Outside
       ELSE /\ tx' = [tx EXCEPT !.pc = "intent", !.after = "idle",
                         !.external = FALSE, !.seen = {},
                         !.ops = <<[path |-> tx.path, text |-> tx.text]>>]
            /\ UNCHANGED drift
    /\ UNCHANGED <<disk, segment, redo, sent, writes, kills>>

\* reconcile: what drifted is one batch; the index will say what was seen.
Scan ==
    /\ In("scan")
    /\ LET found == {p \in Path : Drifted(p)}
           order == SetToSeq(found)
           ops == [i \in DOMAIN order |->
                      [path |-> order[i], text |-> disk[order[i]]]]
       IN tx' = [tx EXCEPT
                   !.pc = IF found = {} THEN "compact" ELSE "intent",
                   !.after = "compact", !.external = TRUE, !.ops = ops,
                   !.seen = found,
                   !.entries = [p \in Path |->
                                  [text |-> disk[p], same |-> TRUE]]]
    /\ UNCHANGED <<disk, segment, drift, redo, sent, writes, kills>>

CompactIndex ==
    /\ In("compact")
    /\ drift' = tx.entries
    /\ tx' = Outside
    /\ UNCHANGED <<disk, segment, redo, sent, writes, kills>>

ReadLog ==
    /\ In("read")
    /\ sent' = Len(segment)
    /\ tx' = Outside
    /\ UNCHANGED <<disk, segment, drift, redo, writes, kills>>

-----------------------------------------------------------------------------
(* commit_local.                                                           *)

\* A scan's redo names no file of its own; a write's and a single absorbed
\* file's do.
RedoPath == IF tx.after = "compact" THEN NoPath ELSE tx.ops[1].path

CommitIntent ==
    /\ In("intent")
    /\ redo' = {[path |-> RedoPath, external |-> tx.external,
                 start |-> Len(segment),
                 through |-> Len(segment) + Len(tx.ops),
                 seen |-> tx.seen, entries |-> tx.entries]}
    /\ tx' = Goes(IF tx.external THEN "append" ELSE "file")
    /\ UNCHANGED <<disk, segment, drift, sent, writes, kills>>

CommitFile ==
    /\ In("file")
    /\ disk' = [disk EXCEPT ![tx.path] = tx.text]
    /\ drift' = Stale(drift, tx.path)
    /\ tx' = Goes("append")
    /\ UNCHANGED <<segment, redo, sent, writes, kills>>

CommitAppend ==
    /\ In("append")
    /\ segment' = segment \o tx.ops
    /\ tx' = Goes("record")
    /\ UNCHANGED <<disk, drift, redo, sent, writes, kills>>

CommitRecord ==
    /\ In("record")
    /\ drift' = Noted(RedoPath, tx.external, tx.seen, tx.entries)
    /\ tx' = Goes("close")
    /\ UNCHANGED <<disk, segment, redo, sent, writes, kills>>

CommitClose ==
    /\ In("close")
    /\ redo' = {}
    /\ tx' = IF tx.after = "idle" THEN Outside
             ELSE [tx EXCEPT !.pc = tx.after, !.ops = <<>>]
    /\ UNCHANGED <<disk, segment, drift, sent, writes, kills>>

\* The process is killed; an append may have got part of its lines out.
JournalKilled ==
    /\ ~ In("idle")
    /\ kills < MaxKills
    /\ kills' = kills + 1
    /\ tx' = Outside
    /\ \/ UNCHANGED segment
       \/ /\ In("append")
          /\ \E k \in 1 .. Len(tx.ops) :
                segment' = segment \o SubSeq(tx.ops, 1, k)
    /\ UNCHANGED <<disk, drift, redo, sent, writes>>

JournalStep ==
    \/ NothingToRecover
    \/ RecoverCommitted
    \/ RecoverClear
    \/ RecoverTorn
    \/ RecoverDrop
    \/ Verify
    \/ AbsorbBeforeWrite
    \/ PlanWrite
    \/ Scan
    \/ CompactIndex
    \/ ReadLog
    \/ CommitIntent
    \/ CommitFile
    \/ CommitAppend
    \/ CommitRecord
    \/ CommitClose

JournalNext ==
    \/ \E p \in Path, text \in Text : EditBehind(p, text) \/ BeginWrite(p, text)
    \/ BeginScan
    \/ BeginRead
    \/ JournalStep
    \/ JournalKilled

JournalSpec == JournalInit /\ [][JournalNext]_journalVars

\* A process that holds the lock goes on; the background scan gets the lock
\* between the short holds of the others.
JournalGoesOn ==
    /\ WF_journalVars(JournalStep)
    /\ SF_journalVars(BeginScan)

-----------------------------------------------------------------------------
(* Properties.                                                             *)

\* With no redo open, a file the index takes for known is one the journal
\* describes: no kill between two writes leaves a file that replicates
\* nowhere and that no scan will ever look at again (docs/sync.md 4.4).
CleanIsJournaled ==
    redo = {} => \A p \in Path : drift[p].same => disk[p] = Journaled(p)

\* Every operation changes its file: neither a torn batch nor a redo makes
\* the same change twice (docs/sync.md: one operation, no gap, no double).
NoChangeTwice ==
    \A i \in DOMAIN segment :
        segment[i].text # Said(segment, i - 1, segment[i].path)

\* What the sync worker has read is never withdrawn: recovery cuts back only
\* what nobody could have sent.
SentIsNeverWithdrawn ==
    [][\A i \in 1 .. sent :
          i <= Len(segment') /\ segment'[i] = segment[i]]_journalVars

\* Every edit, made through a command or behind its back, ends up in the
\* journal, whatever was killed on the way.
EditsAreJournaled ==
    \A p \in Path : (disk[p] # Journaled(p)) ~> (disk[p] = Journaled(p))

=============================================================================
