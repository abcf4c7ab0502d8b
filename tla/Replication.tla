----------------------------- MODULE Replication -----------------------------
(***************************************************************************)
(* Sync of one store between a server and its clients (core/sync,          *)
(* cli/serve/hub.rs, cli/serve/sync.rs).  Every node keeps a log per       *)
(* origin; the server also numbers all operations in its hub log.  A       *)
(* client pushes its own operations, pulls the hub log from its cursor,    *)
(* takes a snapshot when the log no longer reaches back to it, and prunes. *)
(*                                                                         *)
(* An operation is its origin, its number at the origin, and an id that    *)
(* stands for its content and its clock: ids are given in order of         *)
(* writing.  What a log says of the board is a function of its operations  *)
(* (module Merge), so a node is modelled by what it has taken in.          *)
(***************************************************************************)
EXTENDS Integers, Sequences, FiniteSets

CONSTANTS
    Client,     \* stores paired with the server
    Server,
    Slot,       \* processes of a client that sync: its worker, a command
    Worker,     \* those among them that stay connected to the event stream
    MaxOps,     \* bound: operations written
    MaxFaults   \* bound: broken links, losses of power, clients gone quiet

Node == Client \cup {Server}
Link == Client \X Slot
Id == 1 .. MaxOps
Number == 0 .. MaxOps

ASSUME ReplicationAssumption ==
    /\ Server \notin Client
    /\ Worker \subseteq Slot
    /\ MaxOps \in Nat
    /\ MaxFaults \in Nat

VARIABLES
    written,    \* operations written so far
    faults,
    log,        \* node -> origin -> ids, contiguous from 1; pruned ones too
    ahead,      \* operations that arrived before a predecessor (ahead.jsonl)
    synced,     \* how many of its own operations a node has made durable
    compacted,  \* how many operations of each origin a node has pruned
    hub,        \* the hub log of the server and how much of it is dropped
    registry,   \* hub/clients.json
    file,       \* cursor.json of a client: last_seq
    link,       \* the sync processes
    strays,     \* requests whose sender gave up, not yet handled
    absent      \* history: clients that were quiet for too long

replicas == <<log, ahead, synced, compacted>>
vars == <<written, faults, log, ahead, synced, compacted, hub, registry,
          file, link, strays, absent>>

Op == [node : Node, seq : Number, id : Id]
Vector == [Node -> Number]
Zero == [n \in Node |-> 0]
\* Mutant: the larger of two, for the smaller.
LeastIsMost(v, w) == [n \in Node |-> IF v[n] < w[n] THEN w[n] ELSE v[n]]
Least(v, w) == [n \in Node |-> IF v[n] < w[n] THEN v[n] ELSE w[n]]

Most(v, w) == [n \in Node |-> IF v[n] < w[n] THEN w[n] ELSE v[n]]

-----------------------------------------------------------------------------
(* The journal of a node.                                                  *)

VectorOf(L) == [o \in Node |-> Len(L[o])]
InLog(L) ==
    UNION {{[node |-> o, seq |-> i, id |-> L[o][i]] : i \in DOMAIN L[o]} :
              o \in Node}
Known(n) == InLog(log[n]) \cup ahead[n]

\* segments::append for every origin of a batch: numbers already held are
\* skipped, what extends a log is appended, the rest waits in ahead.jsonl.
Pending(n, ops) ==
    {op \in ahead[n] \cup ops :
        /\ op.seq > Len(log[n][op.node])
        /\ op \in ahead[n] \/ ~ \E a \in ahead[n] : /\ a.node = op.node
                                                    /\ a.seq = op.seq}
HeadAfter(n, ops, o) ==
    LET head == Len(log[n][o])
        There(i) == \E op \in Pending(n, ops) : op.node = o /\ op.seq = i
    IN CHOOSE h \in head .. MaxOps :
          /\ \A i \in head + 1 .. h : There(i)
          /\ ~ There(h + 1)
Appended(n, ops) ==
    [o \in Node |->
        log[n][o] \o
            [i \in 1 .. HeadAfter(n, ops, o) - Len(log[n][o]) |->
                (CHOOSE op \in Pending(n, ops) :
                    op.node = o /\ op.seq = Len(log[n][o]) + i).id]]
Beyond(n, ops) ==
    {op \in Pending(n, ops) : op.seq > HeadAfter(n, ops, op.node)}

-----------------------------------------------------------------------------
(* The hub log of the server.                                              *)

\* How many operations of each origin are among the first i of the hub log.
VectorAt(H, i) ==
    [o \in Node |-> Cardinality({j \in 1 .. i : H[j].node = o})]

\* Operations of the server's log the hub has not numbered yet.
Unnumbered(L) ==
    {op \in InLog(L) : op.seq > VectorAt(hub.ops, Len(hub.ops))[op.node]}

\* Hub::ingest_journal: number them, oldest first.
Rank(S, op) == Cardinality({older \in S : older.id <= op.id})
OldestFirst(S) ==
    [i \in 1 .. Cardinality(S) |-> CHOOSE op \in S : Rank(S, op) = i]
Ingested(L) == hub.ops \o OldestFirst(Unnumbered(L))

\* Operations of the server itself are flushed before the hub serves them.
FlushedByIngest(L) ==
    IF \E op \in Unnumbered(L) : op.node = Server
    THEN Len(L[Server]) ELSE synced[Server]

\* Hub::active_cursors: the clients that hold history back.
Active(reg) == {c \in Client : reg[c].seen /\ reg[c].cursor >= hub.floor}

\* Hub::stable_vector: what every active client has received.
Lowest(H, reg) ==
    IF Active(reg) = {} THEN Len(H)
    ELSE CHOOSE k \in {reg[c].cursor : c \in Active(reg)} :
            \A c \in Active(reg) : k <= reg[c].cursor
StableVector(H, reg) == VectorAt(H, Lowest(H, reg))

Touched(c) == [registry EXCEPT ![c].seen = TRUE]

-----------------------------------------------------------------------------
(* State.                                                                  *)

\* What a sync process keeps while its pc says where it is in the cycle.
Idle == [pc |-> "idle", live |-> FALSE, last |-> 0, pushed |-> 0,
         stable |-> Zero, ops |-> <<>>, snap |-> <<>>]

Init ==
    /\ written = 0
    /\ faults = 0
    /\ log = [n \in Node |-> [o \in Node |-> <<>>]]
    /\ ahead = [n \in Node |-> {}]
    /\ synced = [n \in Node |-> 0]
    /\ compacted = [n \in Node |-> Zero]
    /\ hub = [ops |-> <<>>, floor |-> 0]
    /\ registry = [c \in Client |-> [cursor |-> 0, seen |-> TRUE]]
    /\ file = [c \in Client |-> 0]
    /\ link = [l \in Link |-> Idle]
    /\ strays = {}
    /\ absent = {}

At(l, pc) == link[l].pc = pc
GiveUp(l) == [link EXCEPT ![l] = Idle]

-----------------------------------------------------------------------------
(* Every node: board writes, loss of power.                                *)

\* A board file is written and its change captured as the next operation of
\* the node: core/sync.rs capture, commit_local.  Nothing is flushed.
Write(n) ==
    /\ written < MaxOps
    /\ written' = written + 1
    /\ log' = [log EXCEPT ![n][n] = Append(@, written + 1)]
    /\ UNCHANGED <<faults, ahead, synced, compacted, hub, registry, file, link,
                   strays, absent>>

\* The tail of the own log that was not flushed is gone, and with it every
\* process of the machine.  Everything else was written durably.
LosePower(n) ==
    /\ faults < MaxFaults
    /\ faults' = faults + 1
    /\ \E k \in synced[n] .. Len(log[n][n]) :
          log' = [log EXCEPT ![n][n] = SubSeq(@, 1, k)]
    /\ link' = [l \in Link |-> IF l[1] = n THEN Idle ELSE link[l]]
    /\ strays' = IF n = Server THEN {} ELSE strays
    /\ UNCHANGED <<written, ahead, synced, compacted, hub, registry, file,
                   absent>>

\* A time-out, a broken connection, a cancelled future, a killed process: the
\* link gives up wherever it is.
Break(l) ==
    /\ faults < MaxFaults
    /\ ~ At(l, "idle")
    /\ faults' = faults + 1
    /\ link' = GiveUp(l)
    /\ UNCHANGED <<written, replicas, hub, registry, file, strays, absent>>

\* client_ttl_days pass without a request, or the grace of a client that
\* never pulled.
Quiet(c) ==
    /\ faults < MaxFaults
    /\ registry[c].seen
    /\ \A l \in Link : l[1] = c => At(l, "idle")
    /\ faults' = faults + 1
    /\ registry' = [registry EXCEPT ![c].seen = FALSE]
    /\ absent' = absent \cup {c}
    /\ UNCHANGED <<written, replicas, hub, file, link, strays>>

-----------------------------------------------------------------------------
(* What the handlers of the server do (cli/serve/hub.rs).  The link that   *)
(* asks takes the answer in the same step; Stray below is a request that   *)
(* arrives when nobody waits for it any more.                              *)

\* Hub::ingest after the server's log became L.
Ingest(L) ==
    /\ hub' = [hub EXCEPT !.ops = Ingested(L)]
    /\ synced' = [synced EXCEPT ![Server] = FlushedByIngest(L)]

\* push: apply_remote, which flushes the server's own writing too, then
\* ingest.  The answer is the head of the origin.
TakePush(c, page) ==
    LET ops == {page[i] : i \in DOMAIN page}
        L == Appended(Server, ops)
    IN /\ log' = [log EXCEPT ![Server] = L]
       /\ ahead' = [ahead EXCEPT ![Server] = Beyond(Server, ops)]
       /\ hub' = [hub EXCEPT !.ops = Ingested(L)]
       /\ registry' = Touched(c)

\* pull and stream: the page after a cursor, unless the log does not reach
\* back to it (SYNC_SNAPSHOT_REQUIRED); the cursor asked for is recorded.
InReach(after) == hub.floor <= after /\ after <= Len(Ingested(log[Server]))
Page(after) == LET H == Ingested(log[Server]) IN SubSeq(H, after + 1, Len(H))
\* Mutant: the end of the page is recorded, not the cursor asked for.
RecordedAhead(c, after) ==
    IF InReach(after)
    THEN [registry EXCEPT ![c] = [cursor |-> Len(Ingested(log[Server])),
                                  seen |-> TRUE]]
    ELSE registry

Recorded(c, after) ==
    IF InReach(after)
    THEN [registry EXCEPT ![c] = [cursor |-> after, seen |-> TRUE]]
    ELSE registry

-----------------------------------------------------------------------------
(* A client: ServerLink::cycle and ServerLink::live.                       *)

\* What a cycle starts from: the server tells the head of this origin, which
\* becomes the pushed cursor, the end of the hub log, and the vector every
\* active client has received.  The cursor file is read, and reset where it is
\* beyond the hub log.  A server that holds more of this origin than the
\* origin wrote means that the node id is used twice (SYNC_NODE_ID_IN_USE).
Hello(l) ==
    LET c == l[1]
        head == Len(log[Server][c])
        last == IF file[c] > Len(hub'.ops) THEN 0 ELSE file[c]
    IN /\ At(l, "idle")
       /\ Ingest(log[Server])
       /\ registry' = Touched(c)
       /\ IF head > Len(log[c][c])
          THEN UNCHANGED <<file, link>>
          ELSE /\ file' = [file EXCEPT ![c] = last]
               /\ link' = [link EXCEPT
                     ![l].pc = "push", ![l].last = last, ![l].pushed = head,
                     ![l].stable = StableVector(hub'.ops, registry')]
       /\ UNCHANGED <<written, faults, log, ahead, compacted, strays, absent>>

\* The own operations above the pushed cursor, flushed before they are sent.
Outbox(l) ==
    LET c == l[1]
    IN [i \in 1 .. Len(log[c][c]) - link[l].pushed |->
          [node |-> c, seq |-> link[l].pushed + i,
           id |-> log[c][c][link[l].pushed + i]]]
FlushForPush(c) == Len(log[c][c])

\* Nothing to push; or the outbox was pruned under the cursor, and the cycle
\* fails (SYNC_SERVER_BEHIND).
PushNothing(l) ==
    LET c == l[1]
    IN /\ At(l, "push")
       /\ \/ /\ link[l].pushed < compacted[c][c]
             /\ link' = GiveUp(l)
          \/ /\ link[l].pushed >= compacted[c][c]
             /\ Outbox(l) = <<>>
             /\ link' = [link EXCEPT ![l].pc =
                           IF link[l].live THEN "live" ELSE "pull"]
       /\ UNCHANGED <<written, faults, replicas, hub, registry, file, strays,
                      absent>>

\* What the server accepted is the new pushed cursor; an answer that is lost
\* is asked for again by the next hello.
Push(l) ==
    LET c == l[1]
    IN /\ At(l, "push")
       /\ link[l].pushed >= compacted[c][c]
       /\ Outbox(l) # <<>>
       /\ TakePush(c, Outbox(l))
       /\ synced' = [synced EXCEPT ![c] = FlushForPush(c),
                                   ![Server] = Len(log[Server][Server])]
       /\ link' = IF Len(log'[Server][c]) <= link[l].pushed
                  THEN GiveUp(l)          \* SYNC_SERVER_BEHIND
                  ELSE [link EXCEPT
                          ![l].pc = IF link[l].live THEN "live" ELSE "pull",
                          ![l].pushed = Len(log'[Server][c])]
       /\ UNCHANGED <<written, faults, compacted, file, strays, absent>>

Pull(l) ==
    /\ At(l, "pull")
    /\ Ingest(log[Server])
    /\ registry' = Recorded(l[1], link[l].last)
    /\ link' = IF InReach(link[l].last)
               THEN [link EXCEPT ![l].pc = "page", ![l].ops = Page(link[l].last)]
               ELSE [link EXCEPT ![l].pc = "behind"]
    /\ UNCHANGED <<written, faults, log, ahead, compacted, file, strays, absent>>

\* consume: the page is applied durably (apply_remote drops what is known and
\* flushes the node's own writing with the rest) ...
Apply(l) ==
    LET c == l[1]
        fresh == {op \in {link[l].ops[i] : i \in DOMAIN link[l].ops} :
                    op.seq > Len(log[c][op.node])}
    IN /\ At(l, "page")
       /\ log' = [log EXCEPT ![c] = Appended(c, fresh)]
       /\ ahead' = [ahead EXCEPT ![c] = Beyond(c, fresh)]
       /\ synced' = [synced EXCEPT ![c] =
                        IF fresh = {} THEN @ ELSE Len(log'[c][c])]
       /\ link' = [link EXCEPT ![l].pc = "applied"]
       /\ UNCHANGED <<written, faults, compacted, hub, registry, file, strays,
                      absent>>

\* ... and then the cursor is moved past it.
SaveCursor(l) ==
    LET last == link[l].last + Len(link[l].ops)
    IN /\ At(l, "applied")
       /\ file' = [file EXCEPT ![l[1]] = last]
       /\ link' = [link EXCEPT ![l].pc = IF link[l].live THEN "live" ELSE "prune",
                                ![l].last = last, ![l].ops = <<>>]
       /\ UNCHANGED <<written, faults, replicas, hub, registry, strays, absent>>

\* SYNC_SNAPSHOT_REQUIRED: the server is asked again what it holds of this
\* origin; unsent operations forbid a snapshot (SYNC_SERVER_BEHIND).  Otherwise
\* snapshot_spool streams the replica of the server as of one hub sequence.
Download(l) ==
    LET c == l[1]
    IN /\ At(l, "behind")
       /\ Ingest(log[Server])
       /\ registry' = Touched(c)
       /\ link' = IF Len(log[c][c]) > Len(log[Server][c])
                  THEN GiveUp(l)
                  ELSE [link EXCEPT ![l].pc = "staged", ![l].snap =
                         [log |-> log[Server], ahead |-> ahead[Server],
                          compacted |-> compacted[Server],
                          last |-> Len(hub'.ops)]]
       /\ UNCHANGED <<written, faults, log, ahead, compacted, file, strays,
                      absent>>

\* Mutants: any own operation forbids the snapshot, or none does.
OutboxNotEmpty(c, snap) == Len(log[c][c]) >= Len(snap.log[c])
NothingGrew(c, snap) == FALSE

\* StagedSnapshot::install: the own head is checked again under the locks ...
OutboxGrew(c, snap) == Len(log[c][c]) > Len(snap.log[c])

\* ... then the replica is replaced.  The redo file makes it one step: whoever
\* opens the journal after a crash finishes it first.
Install(l) ==
    LET c == l[1]
        snap == link[l].snap
        own == Len(snap.log[c])
    IN /\ At(l, "staged")
       /\ IF OutboxGrew(c, snap)
          THEN /\ link' = GiveUp(l)
               /\ UNCHANGED <<replicas, file>>
          ELSE /\ log' = [log EXCEPT ![c] = snap.log]
               /\ ahead' = [ahead EXCEPT ![c] = snap.ahead]
               /\ synced' = [synced EXCEPT ![c] = own]
               /\ compacted' = [compacted EXCEPT ![c] = snap.compacted]
               /\ file' = [file EXCEPT ![c] = snap.last]
               /\ link' = [link EXCEPT ![l].pc = "installed", ![l].last = 0,
                                        ![l].pushed = own, ![l].snap = <<>>]
       /\ UNCHANGED <<written, faults, hub, registry, strays, absent>>

\* bootstrap ends by reading the cursor back, and pull goes on.
Reload(l) ==
    /\ At(l, "installed")
    /\ link' = [link EXCEPT ![l].pc = "pull", ![l].last = file[l[1]]]
    /\ UNCHANGED <<written, faults, replicas, hub, registry, file, strays,
                   absent>>

\* The receipt of the server: what was pushed, what was applied, and no more
\* than what every active client had received when the cycle began.
Receipt(l) ==
    LET c == l[1]
    IN Least([VectorOf(log[c]) EXCEPT ![c] = link[l].pushed], link[l].stable)

\* Journal::prune at a client.  A command ends here.
Prune(l) ==
    LET c == l[1]
    IN /\ At(l, "prune")
       /\ compacted' = [compacted EXCEPT ![c] =
             Most(@, Least(Receipt(l), VectorOf(log[c])))]
       /\ link' = IF l[2] \in Worker
                  THEN [link EXCEPT ![l].pc = "open", ![l].stable = Zero]
                  ELSE GiveUp(l)
       /\ UNCHANGED <<written, faults, log, ahead, synced, hub, registry, file,
                      strays, absent>>

\* The worker leaves the event stream when its interval is over.
Finish(l) ==
    /\ At(l, "live")
    /\ link' = GiveUp(l)
    /\ UNCHANGED <<written, faults, replicas, hub, registry, file, strays,
                   absent>>

\* The stream records the cursor once, when it is opened.
OpenStream(l) ==
    /\ At(l, "open")
    /\ Ingest(log[Server])
    /\ registry' = Recorded(l[1], link[l].last)
    /\ link' = IF InReach(link[l].last)
               THEN [link EXCEPT ![l].pc = "live", ![l].live = TRUE]
               ELSE GiveUp(l)
    /\ UNCHANGED <<written, faults, log, ahead, compacted, file, strays, absent>>

StreamPage(l) ==
    /\ At(l, "live")
    /\ Ingest(log[Server])
    /\ link[l].last < Len(hub'.ops)
    /\ IF InReach(link[l].last)
       THEN /\ link' = [link EXCEPT ![l].pc = "page",
                                    ![l].ops = Page(link[l].last)]
            /\ registry' = Touched(l[1])
       ELSE /\ link' = GiveUp(l)
            /\ UNCHANGED registry
    /\ UNCHANGED <<written, faults, log, ahead, compacted, file, strays, absent>>

\* A local change while the stream is open is pushed at once.
PushLive(l) ==
    /\ At(l, "live")
    /\ Len(log[l[1]][l[1]]) > link[l].pushed
    /\ link' = [link EXCEPT ![l].pc = "push"]
    /\ UNCHANGED <<written, faults, replicas, hub, registry, file, strays,
                   absent>>

\* The sender of a push or a pull gives up while the request is under way ...
Abandon(l) ==
    LET c == l[1]
    IN /\ faults < MaxFaults
       /\ faults' = faults + 1
       /\ \/ /\ At(l, "push")
             /\ Outbox(l) # <<>>
             /\ link[l].pushed >= compacted[c][c]
             /\ synced' = [synced EXCEPT ![c] = FlushForPush(c)]
             /\ strays' = strays \cup {[client |-> c, push |-> Outbox(l)]}
          \/ /\ At(l, "pull")
             /\ strays' = strays \cup {[client |-> c, after |-> link[l].last]}
             /\ UNCHANGED synced
       /\ link' = GiveUp(l)
       /\ UNCHANGED <<written, log, ahead, compacted, hub, registry, file,
                      absent>>

\* ... and the server handles it whenever it arrives.
Stray(r) ==
    /\ strays' = strays \ {r}
    /\ \/ /\ "push" \in DOMAIN r
          /\ TakePush(r.client, r.push)
          /\ synced' = [synced EXCEPT ![Server] = Len(log[Server][Server])]
       \/ /\ "after" \in DOMAIN r
          /\ Ingest(log[Server])
          /\ registry' = Recorded(r.client, r.after)
          /\ UNCHANGED <<log, ahead>>
    /\ UNCHANGED <<written, faults, compacted, file, link, absent>>

-----------------------------------------------------------------------------
(* The monitor of the server.                                              *)

\* prune::frontier: no further than what the active clients have received.
\* With none active, nothing is pruned as long as there are foreign origins.
ServerFrontier(H) ==
    LET V == VectorOf(log[Server])
    IN IF Active(registry) # {} THEN Least(V, StableVector(H, registry))
       ELSE IF \E o \in Client : V[o] > 0 THEN Zero
       ELSE V

\* Hub::maintenance: ingest, prune, drop hub segments below the lowest active
\* cursor.  Where a segment ends is left open; the last is never dropped.
Maintain ==
    LET H == Ingested(log[Server])
        end == Len(H) - 1
        low == Lowest(H, registry)
        reach == IF low < end THEN low ELSE end
    IN /\ synced' = [synced EXCEPT ![Server] = FlushedByIngest(log[Server])]
       /\ compacted' = [compacted EXCEPT ![Server] = Most(@, ServerFrontier(H))]
       /\ \E f \in {hub.floor, reach} :
             /\ f >= hub.floor
             /\ hub' = [ops |-> H, floor |-> f]
       /\ UNCHANGED <<written, faults, log, ahead, registry, file, link, strays,
                      absent>>

-----------------------------------------------------------------------------

Advance(l) ==
    \/ Hello(l) \/ PushNothing(l) \/ Push(l) \/ Pull(l) \/ Apply(l)
    \/ SaveCursor(l) \/ Download(l) \/ Install(l) \/ Reload(l) \/ Prune(l)
    \/ OpenStream(l) \/ StreamPage(l) \/ PushLive(l) \/ Finish(l)

Next ==
    \/ \E n \in Node : Write(n) \/ LosePower(n)
    \/ \E c \in Client : Quiet(c)
    \/ \E l \in Link : Advance(l) \/ Break(l) \/ Abandon(l)
    \/ \E r \in strays : Stray(r)
    \/ Maintain

Spec == Init /\ [][Next]_vars

Fairness ==
    /\ \A l \in Link : WF_vars(Advance(l))
    /\ WF_vars(\E r \in strays : Stray(r))
    /\ WF_vars(Maintain)
FairSpec == Spec /\ Fairness

-----------------------------------------------------------------------------
(* Properties.                                                             *)

LinkState ==
    [pc : {"idle", "push", "pull", "page", "applied", "behind", "staged",
           "installed", "prune", "open", "live"},
     live : BOOLEAN, last : Nat, pushed : Number,
     stable : Vector, ops : Seq(Op),
     snap : {<<>>} \cup [log : [Node -> Seq(Id)], ahead : SUBSET Op,
                         compacted : Vector, last : Nat]]

\* Every variable stays in its type, and no node prunes, or counts as durable,
\* what it does not hold.
TypeOK ==
    /\ written \in Number
    /\ faults \in 0 .. MaxFaults
    /\ log \in [Node -> [Node -> Seq(Id)]]
    /\ ahead \in [Node -> SUBSET Op]
    /\ synced \in Vector
    /\ compacted \in [Node -> Vector]
    /\ \A n \in Node : /\ synced[n] <= Len(log[n][n])
                       /\ compacted[n] = Least(compacted[n], VectorOf(log[n]))
    /\ hub.ops \in Seq(Op) /\ hub.floor \in 0 .. Len(hub.ops)
    /\ registry \in [Client -> [cursor : Nat, seen : BOOLEAN]]
    /\ file \in [Client -> Nat]
    /\ link \in [Link -> LinkState]
    /\ absent \subseteq Client

\* "The cursor never runs ahead of the durable apply" (docs/sync.md): what the
\* hub numbered up to a client's cursor, and up to what the server believes
\* that cursor to be, the client holds, whatever breaks on the way.
HubOps(i) == {hub.ops[j] : j \in 1 .. i}
CursorBehindApplied ==
    \A c \in Client : /\ HubOps(file[c]) \subseteq Known(c)
                      /\ HubOps(registry[c].cursor) \subseteq Known(c)

\* An operation stays retained wherever it is until every client has it, so
\* that a concurrent edit meets it: no node prunes what a client that was
\* never away too long has not received (Hub::stable_vector).
PrunedIsReceived ==
    \A n \in Node, c \in Client \ absent, o \in Node :
        compacted[n][o] <= Len(log[c][o])

\* Replicas are grow-only sets of operations whose numbers are never given
\* twice, and only unseen writing can be lost: module ReplicatedSet.
known == [n \in Node |-> Known(n)]
kept == [n \in Node |->
            {op \in Known(n) : op.node = n => op.seq <= synced[n]}]
Abstract == INSTANCE ReplicatedSet WITH
    Replica <- Node, Operation <- Op, known <- known, kept <- kept
ReplicasOnlyGrow == Abstract!Spec

\* When nothing more is written, breaks or goes away, all nodes end up with
\* the same operations.
Converges == <>[](\A c \in Client : Known(c) = Known(Server))
=============================================================================
