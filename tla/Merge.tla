------------------------------- MODULE Merge -------------------------------
(***************************************************************************)
(* How replicas agree on one replicated field and on the deletion of the   *)
(* task that carries it: hybrid clocks (core/sync.rs, Hlc), last writer    *)
(* wins with lifecycle clocks (core/sync/projection.rs, apply_meta), the   *)
(* list of conflicts kept incrementally or recomputed (core/sync/prune.rs, *)
(* ingest and conflicts_of), and the human answer to a conflict            *)
(* (core/sync/apply.rs, take_other_version).  Operations reach a replica   *)
(* in any order and in any batches: a hole in an origin's numbering parks  *)
(* the operation in ahead.jsonl but does not keep it from being applied.   *)
(*                                                                         *)
(* What an author knew when it wrote is kept in the history field `seen`;  *)
(* the code never looks at it.                                             *)
(***************************************************************************)
EXTENDS Integers, FiniteSets, FiniteSetsExt

CONSTANTS Replica,      \* replicas, numbered: the number breaks ties between clocks
          Value,     \* values of the field
          Skew,      \* sync.max_skew: how far ahead of the wall a clock may be
          MaxWall,   \* bound on the wall clocks
          MaxOps,    \* bound on the operations written
          MaxRestarts \* bound on the processes that lose their caches

\* The number of a replica breaks ties between clocks (Hlc derives Ord).
ASSUME MergeAssumption == Replica \subseteq Nat /\ Value # {}

VARIABLES wall, hlc, written, log, field, life, conf, warm, restarts
mergeVars == <<wall, hlc, written, log, field, life, conf, warm, restarts>>

Never == <<-1, 0, 0>>            \* no clock yet: older than every clock

\* Hlc derives Ord: wall, then counter, then node.
Older(a, b) ==
    \/ a[1] < b[1]
    \/ a[1] = b[1] /\ a[2] < b[2]
    \/ a[1] = b[1] /\ a[2] = b[2] /\ a[3] < b[3]

\* A counter that starts again at 0 even when the wall has not moved.
TickFromWall(c, now, n) == <<now, 0, n>>

Tick(c, now, n) == IF now > c[1] THEN <<now, 0, n>> ELSE <<c[1], c[2] + 1, n>>

InSkew(c, now) == c[1] - now <= Skew

ObserveNothing(c, remote) == c

Observe(c, remote) == IF Older(c, remote) THEN remote ELSE c

\* apply_meta: the clock of the field decides, whatever was applied before.
OverwriteAlways(f, op) ==
    IF op.kind = "set" THEN [clock |-> op.hlc, value |-> op.value] ELSE f

ApplyMeta(f, op) ==
    IF op.kind = "set" /\ Older(f.clock, op.hlc)
    THEN [clock |-> op.hlc, value |-> op.value] ELSE f

ApplyLife(l, op) ==
    [deleted  |-> IF op.kind = "tombstone" /\ Older(l.deleted, op.hlc)
                  THEN op.hlc ELSE l.deleted,
     restored |-> IF op.kind = "restore" /\ Older(l.restored, op.hlc)
                  THEN op.hlc ELSE l.restored]

Deleted(l) == l.deleted # Never /\ Older(l.restored, l.deleted)

Sets(S) == {op \in S : op.kind = "set"}
Tombstones(S) == {op \in S : op.kind = "tombstone"}

\* Lineage::ancestor: the prev chain of newer inside the versions that are
\* present leads to older, which is in every set the chain cannot leave.
Ancestor(versions, older, newer) ==
    LET clocks == {v.hlc : v \in versions}
    IN \A S \in SUBSET clocks :
          (\A v \in versions :
              v.hlc \in S \cup {newer} /\ v.prev \in clocks => v.prev \in S)
            => older \in S

\* The loser already lost to the version the winner was written on.
NotCovered(loser, winner) == FALSE

Covered(loser, winner) == Older(loser, winner.prev)

\* push_pair: the conflict of two versions, or nothing.
Pair(versions, a, b) ==
    LET winner == IF Older(b.hlc, a.hlc) THEN a ELSE b
        loser  == IF winner = a THEN b ELSE a
    IN IF \/ a.hlc[3] = b.hlc[3]
          \/ a.value = b.value
          \/ Ancestor(versions, a.hlc, b.hlc)
          \/ Ancestor(versions, b.hlc, a.hlc)
          \/ Covered(loser.hlc, winner)
       THEN {}
       ELSE {[winner |-> winner.hlc, loser |-> loser.hlc]}

Pairs(versions, A, B) ==
    UNION {Pair(versions, p[1], p[2]) : p \in {q \in A \X B : q[1] # q[2]}}

\* push_tombstone: every edit newer than a deletion lost to it.
LostTo(deleted, S) ==
    {[winner |-> deleted, loser |-> e.hlc] : e \in {x \in Sets(S) : Older(deleted, x.hlc)}}

ConflictsOf(l, S) ==
    Pairs(Sets(S), Sets(S), Sets(S))
      \cup (UNION {LostTo(d.hlc, S) : d \in Tombstones(S)})
      \cup (IF Deleted(l) THEN LostTo(l.deleted, S) ELSE {})

\* A batch is added to the list of conflicts without looking at the lifecycle.
AlwaysIncremental(S) == FALSE

NeedsRebuild(S) == \E op \in S : op.kind \in {"tombstone", "restore"}

\* prune::ingest: only the pairs the new operations belong to, and the old
\* conflicts revalidated, unless a deletion is among them.
Ingest(l, old, new, prior) ==
    LET all == Sets(old \cup new)
    IN IF NeedsRebuild(old \cup new) THEN ConflictsOf(l, old \cup new)
       ELSE Pairs(all, Sets(new), all)
              \cup (UNION {Pair(all, p[1], p[2]) : p \in
                     {q \in all \X all : [winner |-> q[1].hlc, loser |-> q[2].hlc] \in prior}})

MergeInit ==
    /\ wall = [n \in Replica |-> 0]
    /\ hlc = [n \in Replica |-> <<0, 0, n>>]
    /\ written = {}
    /\ log = [n \in Replica |-> {}]
    /\ field = [n \in Replica |-> [clock |-> Never, value |-> CHOOSE v \in Value : TRUE]]
    /\ life = [n \in Replica |-> [deleted |-> Never, restored |-> Never]]
    /\ conf = [n \in Replica |-> {}]
    /\ warm = [n \in Replica |-> FALSE]
    /\ restarts = 0

\* The clock of the machine, not synchronised with any other.
WallTicks(n) ==
    /\ wall[n] < MaxWall
    /\ wall' = [wall EXCEPT ![n] = @ + 1]
    /\ UNCHANGED <<hlc, written, log, field, life, conf, warm, restarts>>

NewOp(n, kind, value, prev, c) ==
    [kind |-> kind, hlc |-> c, value |-> value, prev |-> prev,
     seen |-> {o.hlc : o \in log[n]}]

\* Operations of this node enter its journal: commit_local leaves the list of
\* conflicts alone and takes the cached groups away.
Commit(n, new, f, l, c) ==
    /\ Cardinality(written \cup new) <= MaxOps
    /\ written' = written \cup new
    /\ log' = [log EXCEPT ![n] = @ \cup new]
    /\ field' = [field EXCEPT ![n] = f]
    /\ life' = [life EXCEPT ![n] = l]
    /\ hlc' = [hlc EXCEPT ![n] = c]

\* plan_capture of a task file with another value; a file that comes back after
\* a deletion also gets a restore with a later clock.
Edit(n, v) ==
    LET c   == Tick(hlc[n], wall[n], n)
        op  == NewOp(n, "set", v, field[n].clock, c)
        c2  == Tick(c, wall[n], n)
        res == [NewOp(n, "restore", v, Never, c2) EXCEPT !.seen = @ \cup {c}]
    IN /\ \/ field[n].clock = Never
          \/ Deleted(life[n])
          \/ field[n].value # v
       /\ IF Deleted(life[n])
          THEN Commit(n, {op, res}, ApplyMeta(field[n], op), ApplyLife(life[n], res), c2)
          ELSE Commit(n, {op}, ApplyMeta(field[n], op), life[n], c)
       /\ warm' = [warm EXCEPT ![n] = FALSE]
       /\ UNCHANGED <<wall, conf, restarts>>

\* plan_capture of a file that is gone.
Delete(n) ==
    LET c  == Tick(hlc[n], wall[n], n)
        op == NewOp(n, "tombstone", field[n].value, Never, c)
    IN /\ field[n].clock # Never
       /\ ~Deleted(life[n])
       /\ Commit(n, {op}, field[n], ApplyLife(life[n], op), c)
       /\ warm' = [warm EXCEPT ![n] = FALSE]
       /\ UNCHANGED <<wall, conf, restarts>>

\* An operation from elsewhere, applied to what a replica keeps: its clock, the
\* field and the lifecycle; and a batch of them, one after the other.
ApplyOp(kept, op) ==
    [clock |-> Observe(kept.clock, op.hlc),
     field |-> ApplyMeta(kept.field, op),
     life  |-> ApplyLife(kept.life, op)]

ApplyAll(kept, batch) == FoldSet(LAMBDA op, acc : ApplyOp(acc, op), kept, batch)

\* The transaction of apply_remote_transaction: all of the batch or nothing.
\* A cold process rebuilds the groups from the whole history.
Apply(n, batch) ==
    LET new == log[n] \cup batch
        r   == ApplyAll([clock |-> hlc[n], field |-> field[n], life |-> life[n]], batch)
    IN /\ \A op \in batch : InSkew(op.hlc, wall[n])
       /\ hlc' = [hlc EXCEPT ![n] = r.clock]
       /\ log' = [log EXCEPT ![n] = new]
       /\ field' = [field EXCEPT ![n] = r.field]
       /\ life' = [life EXCEPT ![n] = r.life]
       /\ conf' = [conf EXCEPT ![n] = IF warm[n] THEN Ingest(r.life, log[n], batch, conf[n])
                                      ELSE Ingest(r.life, {}, new, {})]
       /\ warm' = [warm EXCEPT ![n] = TRUE]
       /\ UNCHANGED <<wall, written, restarts>>

ReceiveBatch(n) == \E batch \in kSubset(1, written \ log[n]) \cup kSubset(2, written \ log[n]) : Apply(n, batch)

\* take_other_version: the losing value becomes a new version on top of the
\* winner, applied to this replica like an operation from elsewhere.
TakeOther(n, c) ==
    LET loser == CHOOSE o \in log[n] : o.hlc = c.loser
        tick  == Tick(hlc[n], wall[n], n)
        op    == NewOp(n, "set", loser.value, c.winner, tick)
        new   == log[n] \cup {op}
    IN /\ c.winner = field[n].clock
       /\ Commit(n, {op}, ApplyMeta(field[n], op), life[n], tick)
       /\ conf' = [conf EXCEPT ![n] = IF warm[n] THEN Ingest(life[n], log[n], {op}, conf[n])
                                      ELSE Ingest(life[n], {}, new, {})]
       /\ warm' = [warm EXCEPT ![n] = TRUE]
       /\ UNCHANGED <<wall, restarts>>

\* The process ends: the groups were only in its memory.
EndProcess(n) ==
    /\ warm[n] /\ restarts < MaxRestarts
    /\ warm' = [warm EXCEPT ![n] = FALSE]
    /\ restarts' = restarts + 1
    /\ UNCHANGED <<wall, hlc, written, log, field, life, conf>>

MergeNext ==
    \E n \in Replica :
       \/ WallTicks(n)
       \/ \E v \in Value : Edit(n, v)
       \/ Delete(n)
       \/ ReceiveBatch(n)
       \/ \E c \in conf[n] : TakeOther(n, c)
       \/ EndProcess(n)

MergeSpec == MergeInit /\ [][MergeNext]_mergeVars

----------------------------------------------------------------------------
\* Two replicas with the same operations show the same task, whatever order
\* and whatever batches brought them (apply_meta is a join).
SameOpsSameTask ==
    \A m, n \in Replica : log[m] = log[n] =>
        field[m] = field[n] /\ Deleted(life[m]) = Deleted(life[n])

\* The conflicts a running replica keeps are those of a full recomputation
\* (the debug assertion of apply_remote_transaction), so replicas with the same
\* operations post the same notes.
ConflictsAreRecomputable ==
    \A n \in Replica : warm[n] => conf[n] = ConflictsOf(life[n], log[n])

\* A replica that has everything the authors of its operations had, as the hub's
\* order delivers them.
Complete(n) == \A op \in log[n] : op.seen \subseteq {o.hlc : o \in log[n]}

\* No edit disappears silently: a version a replica has and does not show was
\* overwritten by an author who had seen it (or one that wrote the same value),
\* or the replica lists it as the loser of a conflict.
LossIsReported ==
    \A n \in Replica : warm[n] /\ Complete(n) =>
        \A x \in Sets(log[n]) :
            \/ field[n].clock = x.hlc
            \/ \E y \in Sets(log[n]) \ {x} :
                  /\ Older(x.hlc, y.hlc)
                  /\ x.hlc \in y.seen \/ x.value = y.value
            \/ \E c \in conf[n] : c.loser = x.hlc

\* Two versions of the field are only called a conflict when neither author
\* had seen the other.
OnlyConcurrentVersionsConflict ==
    \A n \in Replica : \A c \in conf[n] :
        \A w, x \in Sets(log[n]) :
            c.winner = w.hlc /\ c.loser = x.hlc =>
                x.hlc \notin w.seen /\ w.hlc \notin x.seen

\* Only an edit made without seeing the deletion is a conflict with it
\* (docs/sync.md 5.4: an edit made concurrently, "на другом узле не видели
\* удаления", goes to the list of conflicts).
DeletionConflictsAreConcurrent ==
    \A n \in Replica : \A c \in conf[n] :
        \A d \in Tombstones(log[n]), x \in Sets(log[n]) :
            c.winner = d.hlc /\ c.loser = x.hlc => d.hlc \notin x.seen
============================================================================
