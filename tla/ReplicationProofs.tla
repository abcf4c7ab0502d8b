------------------------- MODULE ReplicationProofs -------------------------
(***************************************************************************)
(* Proofs about Replication, where one process of a client syncs at a time *)
(* (two at once are refuted, run two_links): cursors never run ahead of    *)
(* what was applied (CursorTells), the store implements ReplicatedSet      *)
(* (StoreImplementsSet), and nothing is pruned that a client still needs   *)
(* (PrunedWasReceived).                                                    *)
(***************************************************************************)
EXTENDS Replication, Extremes

\* The processes of a client that sync, but for one of them, do not run.
OneProcess == \A s, u \in Slot : s = u

Snapshot == [log : [Node -> Seq(Id)], ahead : SUBSET Op,
             compacted : [Node -> Nat], last : Nat]
LinkRecord ==
    [pc : {"idle", "push", "pull", "page", "applied", "behind", "staged",
           "installed", "prune", "open", "live"},
     live : BOOLEAN, last : Nat, pushed : Nat, stable : [Node -> Nat],
     ops : Seq(Op), snap : {<<>>} \cup Snapshot]

ReplicationTyped ==
    /\ written \in Number
    /\ log \in [Node -> [Node -> Seq(Id)]]
    /\ ahead \in [Node -> SUBSET Op]
    /\ synced \in [Node -> Nat]
    /\ compacted \in [Node -> [Node -> Nat]]
    /\ hub \in [ops : Seq(Op), floor : Int]
    /\ registry \in [Client -> [cursor : Nat, seen : BOOLEAN]]
    /\ file \in [Client -> Nat]
    /\ link \in [Link -> LinkRecord]
    /\ strays \subseteq [client : Client, push : Seq(Op)]
                          \cup [client : Client, after : Nat]

Prefix(s, t) == /\ Len(s) <= Len(t)
                /\ \A i \in 1 .. Len(s) : s[i] = t[i]

\* What the origins themselves hold, and what of it they cannot lose.
Origins == [o \in Node |-> log[o][o]]
Authored == InLog(Origins)
Durable(logs, sync) ==
    {op \in InLog([o \in Node |-> logs[o][o]]) : op.seq <= sync[op.node]}

\* Ids tell operations apart and are given in order.
Dated ==
    /\ \A n \in Node : /\ synced[n] <= Len(log[n][n])
                       /\ Len(log[n][n]) <= written
    /\ \A a, b \in Authored :
          /\ a.id <= written
          /\ a.id = b.id => a = b
          /\ a.node = b.node /\ a.seq < b.seq => a.id < b.id

\* A copy of the log of o is a durable prefix of it.
Copied(copy, o, logs, sync) ==
    Prefix(copy, logs[o][o]) /\ Len(copy) <= sync[o]
Copies ==
    /\ \A n \in Node : ahead[n] = {}
    /\ \A n, o \in Node : n # o => Copied(log[n][o], o, log, synced)
    /\ \A c \in Client, o \in Node :
          c # o => Len(log[c][o]) <= Len(log[Server][o])

\* In a hub log no operation comes twice, and none before an earlier one of
\* its origin.
Orderly(H) ==
    \A j \in 1 .. Len(H) :
       /\ \A k \in 1 .. Len(H) : H[j] = H[k] => j = k
       /\ \A s \in 1 .. H[j].seq - 1 :
             \E k \in 1 .. j - 1 : H[k].node = H[j].node /\ H[k].seq = s

\* The logs L hold the first i operations of the hub log H.
Within(H, L, i) ==
    /\ i <= Len(H)
    /\ \A j \in 1 .. i : H[j].seq <= Len(L[H[j].node])

HubSound ==
    /\ Orderly(hub.ops)
    /\ \A j \in 1 .. Len(hub.ops) : hub.ops[j] \in Durable(log, synced)
    /\ Within(hub.ops, log[Server], Len(hub.ops))

\* What the process k of client c may rely on.
Paged(k, H) ==
    /\ k.last + Len(k.ops) <= Len(H)
    /\ \A i \in 1 .. Len(k.ops) : k.ops[i] = H[k.last + i]
Staged(c, snap, logs, sync, H) ==
    /\ snap \in Snapshot
    /\ snap.ahead = {}
    /\ \A o \in Node : /\ Copied(snap.log[o], o, logs, sync)
                       /\ Len(snap.log[o]) <= Len(logs[Server][o])
                       /\ o # c => Len(logs[c][o]) <= Len(snap.log[o])
    /\ Within(H, snap.log, snap.last)
LinkSound(c, k, logs, sync, H) ==
    /\ Within(H, logs[c], k.last)
    /\ k.pushed <= Len(logs[Server][c])
    /\ k.pc \in {"page", "applied"} => Paged(k, H)
    /\ k.pc = "applied" => Within(H, logs[c], k.last + Len(k.ops))
    /\ k.pc = "staged" => Staged(c, k.snap, logs, sync, H)

\* With S nothing waits at a node that has the logs L.
Fits(L, S) ==
    \A op \in S : \A i \in Len(L[op.node]) + 1 .. op.seq :
       \E q \in S : q.node = op.node /\ q.seq = i
Batch(page) == {page[i] : i \in DOMAIN page}
StraySound(r, logs, sync, H) ==
    /\ "after" \in DOMAIN r => Within(H, logs[r.client], r.after)
    /\ "push" \in DOMAIN r => /\ Batch(r.push) \subseteq Durable(logs, sync)
                              /\ \A op \in Batch(r.push) : op.node = r.client
                              /\ Fits(logs[Server], Batch(r.push))

CursorsSound ==
    /\ \A c \in Client : /\ Within(hub.ops, log[c], file[c])
                         /\ Within(hub.ops, log[c], registry[c].cursor)
    /\ \A l \in Link : LinkSound(l[1], link[l], log, synced, hub.ops)
    /\ \A r \in strays : StraySound(r, log, synced, hub.ops)

ReplicationInv ==
    ReplicationTyped /\ Dated /\ Copies /\ HubSound /\ CursorsSound

-----------------------------------------------------------------------------
(* Logs as sets of operations.                                             *)

LEMMA InLogIs ==
  ASSUME NEW L \in [Node -> Seq(Id)], NEW op
  PROVE  op \in InLog(L) <=>
            \E o \in Node : \E i \in 1 .. Len(L[o]) :
               op = [node |-> o, seq |-> i, id |-> L[o][i]]
<1>1. ASSUME NEW o \in Node PROVE DOMAIN L[o] = 1 .. Len(L[o])
  OBVIOUS
<1>2. op \in InLog(L) <=>
         \E o \in Node : \E i \in DOMAIN L[o] :
            op = [node |-> o, seq |-> i, id |-> L[o][i]]
  BY DEF InLog
<1> QED BY <1>1, <1>2

LEMMA InLogHas ==
  ASSUME NEW L \in [Node -> Seq(Id)], NEW op \in InLog(L)
  PROVE  /\ op.node \in Node
         /\ op.seq \in 1 .. Len(L[op.node])
         /\ op.id = L[op.node][op.seq]
         /\ op.id \in Id
         /\ op = [node |-> op.node, seq |-> op.seq, id |-> op.id]
         /\ op.seq \in Nat
         /\ op.id \in Nat
<1>0. PICK o \in Node : \E i \in 1 .. Len(L[o]) :
         op = [node |-> o, seq |-> i, id |-> L[o][i]]
  BY InLogIs
<1>1. PICK i \in 1 .. Len(L[o]) :
         op = [node |-> o, seq |-> i, id |-> L[o][i]]
  BY <1>0
<1>2. L[o][i] \in Id /\ i \in Nat
  OBVIOUS
<1>3. op.node = o /\ op.seq = i /\ op.id = L[o][i]
  BY <1>1
<1>4. Id \subseteq Nat
  BY ReplicationAssumption DEF Id
<1> QED BY <1>1, <1>2, <1>3, <1>4

LEMMA InLogHolds ==
  ASSUME NEW L \in [Node -> Seq(Id)], NEW o \in Node,
         NEW i \in 1 .. Len(L[o])
  PROVE  [node |-> o, seq |-> i, id |-> L[o][i]] \in InLog(L)
BY InLogIs

\* Where L begins as M does, it holds the operations of M it reaches.
LEMMA PrefixHolds ==
  ASSUME NEW L \in [Node -> Seq(Id)], NEW M \in [Node -> Seq(Id)],
         NEW op \in InLog(M), Prefix(L[op.node], M[op.node]),
         op.seq <= Len(L[op.node])
  PROVE  op \in InLog(L)
<1>1. /\ op.node \in Node /\ op.seq \in 1 .. Len(M[op.node])
      /\ op.id = M[op.node][op.seq]
      /\ op = [node |-> op.node, seq |-> op.seq, id |-> op.id]
      /\ op.seq \in Nat
  BY InLogHas
<1>2. Len(L[op.node]) \in Nat
  BY <1>1
<1>3. op.seq \in 1 .. Len(L[op.node])
  BY <1>1, <1>2
<1>4. L[op.node][op.seq] = op.id
  BY <1>1, <1>3 DEF Prefix
<1> QED BY <1>1, <1>3, <1>4, InLogHolds

LEMMA PrefixWithin ==
  ASSUME NEW L \in [Node -> Seq(Id)], NEW M \in [Node -> Seq(Id)],
         \A o \in Node : Prefix(L[o], M[o])
  PROVE  InLog(L) \subseteq InLog(M)
<1> SUFFICES ASSUME NEW op \in InLog(L) PROVE op \in InLog(M)
  OBVIOUS
<1>1. /\ op.node \in Node /\ op.seq \in 1 .. Len(L[op.node])
      /\ op.id = L[op.node][op.seq]
      /\ op = [node |-> op.node, seq |-> op.seq, id |-> op.id]
      /\ op.seq \in Nat
  BY InLogHas
<1>2. Len(L[op.node]) \in Nat /\ Len(M[op.node]) \in Nat
  BY <1>1
<1>3. op.seq \in 1 .. Len(M[op.node]) /\ M[op.node][op.seq] = op.id
  BY <1>1, <1>2 DEF Prefix
<1> QED BY <1>1, <1>3, InLogHolds

-----------------------------------------------------------------------------
(* The order of the hub log.                                               *)

\* In a hub log the operations of an origin are those up to their count.
LEMMA HubCounts ==
  ASSUME NEW H \in Seq(Op), Orderly(H), NEW o \in Node,
         \A j \in 1 .. Len(H) : H[j].seq >= 1,
         \A j, k \in 1 .. Len(H) :
            H[j].node = H[k].node /\ H[j].seq = H[k].seq => H[j] = H[k]
  PROVE  /\ VectorAt(H, Len(H))[o] \in Nat
         /\ \A s \in Nat \ {0} :
               s <= VectorAt(H, Len(H))[o] <=>
                  \E j \in 1 .. Len(H) : H[j].node = o /\ H[j].seq = s
<1> DEFINE J == {j \in 1 .. Len(H) : H[j].node = o}
           T == {H[j].seq : j \in J}
           f == [j \in J |-> H[j].seq]
<1>1. Len(H) \in Nat /\ \A j \in 1 .. Len(H) : H[j] \in Op /\ H[j].seq \in Nat
  <2>1. Number \subseteq Nat
    BY ReplicationAssumption DEF Number
  <2>2. \A op \in Op : op.seq \in Nat
    BY <2>1 DEF Op
  <2> QED BY <2>2
<1>2. IsFiniteSet(J) /\ J \subseteq 1 .. Len(H)
  <2>1. IsFiniteSet(1 .. Len(H))
    BY <1>1, FS_Interval
  <2> QED BY <2>1, FS_Subset
<1>3. f \in Bijection(J, T)
  <2>1. f \in [J -> T] /\ \A t \in T : \E j \in J : f[j] = t
    OBVIOUS
  <2>2. ASSUME NEW j \in J, NEW k \in J, f[j] = f[k] PROVE j = k
    <3>1. H[j] = H[k]
      BY <2>2
    <3> QED BY <3>1 DEF Orderly
  <2> HIDE DEF f, T, J
  <2> QED BY <2>1, <2>2 DEF Bijection, Injection, Surjection, IsInjective
<1>4. IsFiniteSet(T) /\ Cardinality(T) = Cardinality(J)
  <2>1. ExistsBijection(J, T)
    BY <1>3 DEF ExistsBijection
  <2> HIDE DEF J, T
  <2> QED BY <1>2, <2>1, FS_Bijection
<1>5. T \subseteq Nat \ {0}
  BY <1>1
<1>6. VectorAt(H, Len(H))[o] = Cardinality(T)
  BY <1>4 DEF VectorAt
<1>7. \E m \in Nat : T = 1 .. m
  <2>1. CASE T = {}
    <3> HIDE DEF T
    <3>1. T = 1 .. 0
      BY <2>1
    <3> QED BY <3>1
  <2>2. CASE T # {}
    <3> DEFINE m == Max(T)
    <3>1. m \in T /\ \A t \in T : t <= m
      <4> HIDE DEF T
      <4> QED BY <1>4, <1>5, <2>2, FiniteGreatest
    <3>2. m \in Nat \ {0}
      <4> HIDE DEF T
      <4> QED BY <1>5, <3>1
    <3>3. PICK j \in J : H[j].seq = m
      <4> HIDE DEF m
      <4> QED BY <3>1
    <3>4. ASSUME NEW s \in 1 .. m PROVE s \in T
      <4> HIDE DEF m
      <4>1. CASE s = m
        BY <3>1, <4>1
      <4>2. CASE s # m
        <5>1. s \in 1 .. H[j].seq - 1
          BY <3>2, <3>3, <4>2
        <5>2. PICK k \in 1 .. j - 1 : H[k].node = H[j].node /\ H[k].seq = s
          BY <5>1 DEF Orderly
        <5>3. k \in J
          BY <5>2, <1>1
        <5> QED BY <5>2, <5>3
      <4> QED BY <4>1, <4>2
    <3>5. T \subseteq 1 .. m
      <4> HIDE DEF m, T
      <4> QED BY <1>5, <3>1, <3>2
    <3> HIDE DEF m, T
    <3> QED BY <3>2, <3>4, <3>5
  <2> QED BY <2>1, <2>2
<1>8. PICK m \in Nat : T = 1 .. m
  BY <1>7
<1>9. Cardinality(T) = m
  <2> HIDE DEF T
  <2> QED BY <1>8, FS_Interval
<1>10. ASSUME NEW s \in Nat \ {0}
       PROVE  s \in T <=> \E j \in 1 .. Len(H) : H[j].node = o /\ H[j].seq = s
  OBVIOUS
<1> HIDE DEF T
<1>11. ASSUME NEW s \in Nat \ {0} PROVE s <= m <=> s \in T
  BY <1>8
<1> QED BY <1>6, <1>9, <1>10, <1>11

\* Sorting by id loses nothing and doubles nothing.
LEMMA Sorted ==
  ASSUME NEW S, IsFiniteSet(S),
         \A a \in S : a.id \in Nat,
         \A a, b \in S : a.id = b.id => a = b
  PROVE  /\ Cardinality(S) \in Nat
         /\ OldestFirst(S) \in Seq(S)
         /\ Len(OldestFirst(S)) = Cardinality(S)
         /\ \A op \in S : \E i \in 1 .. Cardinality(S) : OldestFirst(S)[i] = op
         /\ \A i, k \in 1 .. Cardinality(S) :
               /\ OldestFirst(S)[i] = OldestFirst(S)[k] => i = k
               /\ OldestFirst(S)[i].id < OldestFirst(S)[k].id => i < k
<1> DEFINE n == Cardinality(S)
           Below(op) == {x \in S : x.id <= op.id}
           r == [op \in S |-> Rank(S, op)]
<1>1. n \in Nat
  BY FS_CardinalityType
<1>2. ASSUME NEW op \in S
      PROVE  /\ IsFiniteSet(Below(op))
             /\ Rank(S, op) = Cardinality(Below(op))
             /\ Rank(S, op) \in 1 .. n
  <2>1. IsFiniteSet(Below(op)) /\ Cardinality(Below(op)) <= n
    BY FS_Subset
  <2>2. op \in Below(op)
    OBVIOUS
  <2>3. Cardinality(Below(op)) \in Nat /\ Cardinality(Below(op)) # 0
    <3> HIDE DEF Below
    <3> QED BY <2>1, <2>2, FS_CardinalityType, FS_EmptySet
  <2>4. Rank(S, op) = Cardinality(Below(op))
    BY DEF Rank
  <2> HIDE DEF Below, n
  <2> QED BY <1>1, <2>1, <2>3, <2>4
<1>3. ASSUME NEW a \in S, NEW b \in S, a.id < b.id
      PROVE  Rank(S, a) < Rank(S, b)
  <2>1. Below(a) \subseteq Below(b)
    BY <1>3
  <2>2. b \in Below(b) /\ b \notin Below(a)
    BY <1>3
  <2> HIDE DEF Below, n
  <2>3. Below(a) # Below(b) /\ IsFiniteSet(Below(b))
    BY <1>2, <2>2
  <2>4. Cardinality(Below(a)) <= Cardinality(Below(b))
        /\ Cardinality(Below(a)) # Cardinality(Below(b))
    BY <2>1, <2>3, FS_Subset
  <2>5. Rank(S, a) \in Nat /\ Rank(S, b) \in Nat
    BY <1>2, <1>1
  <2> QED BY <1>2, <2>4, <2>5
<1>4. ASSUME NEW a \in S, NEW b \in S, Rank(S, a) = Rank(S, b) PROVE a = b
  <2>1. Rank(S, a) \in Int
    <3> HIDE DEF n, Below
    <3>1. Rank(S, a) \in 1 .. n
      BY <1>2
    <3> QED BY <1>1, <3>1
  <2>2. ~ (a.id < b.id) /\ ~ (b.id < a.id)
    BY <1>3, <1>4, <2>1
  <2>3. a.id \in Nat /\ b.id \in Nat
    OBVIOUS
  <2>4. a.id = b.id
    BY <2>2, <2>3
  <2> QED BY <2>4
<1>5. ASSUME NEW i \in 1 .. n PROVE \E op \in S : Rank(S, op) = i
  <2>1. r \in Injection(S, 1 .. n)
    <3>1. r \in [S -> 1 .. n]
      <4> HIDE DEF n
      <4> QED BY <1>2
    <3>2. \A a, b \in S : r[a] = r[b] => a = b
      BY <1>4
    <3> HIDE DEF r, n
    <3> QED BY <3>1, <3>2 DEF Injection, IsInjective
  <2>2. IsFiniteSet(1 .. n) /\ Cardinality(1 .. n) = n
    <3> HIDE DEF n
    <3> QED BY <1>1, FS_Interval
  <2>3. r \in Surjection(S, 1 .. n)
    <3> HIDE DEF r
    <3> QED BY <2>1, <2>2, FS_Injection
  <2>4. \A j \in 1 .. n : \E op \in S : r[op] = j
    <3> HIDE DEF r, n
    <3> QED BY <2>3 DEF Surjection
  <2> QED BY <2>4
<1>6. ASSUME NEW i \in 1 .. n
      PROVE  OldestFirst(S)[i] \in S /\ Rank(S, OldestFirst(S)[i]) = i
  <2>1. OldestFirst(S)[i] = CHOOSE op \in S : Rank(S, op) = i
    BY DEF OldestFirst
  <2> HIDE DEF n
  <2> QED BY <1>5, <2>1
<1>7. OldestFirst(S) \in Seq(S) /\ Len(OldestFirst(S)) = n
  <2>1. OldestFirst(S) \in [1 .. n -> S]
    <3>1. OldestFirst(S) = [i \in 1 .. n |-> OldestFirst(S)[i]]
      BY DEF OldestFirst
    <3> HIDE DEF n
    <3> QED BY <1>6, <3>1
  <2> HIDE DEF n
  <2> QED BY <1>1, <2>1
<1>8. ASSUME NEW op \in S PROVE \E i \in 1 .. n : OldestFirst(S)[i] = op
  <2>1. Rank(S, op) \in 1 .. n
    BY <1>2
  <2> HIDE DEF n
  <2>2. OldestFirst(S)[Rank(S, op)] = op
    BY <1>4, <1>6, <2>1
  <2> QED BY <2>1, <2>2
<1>9. ASSUME NEW i \in 1 .. n, NEW k \in 1 .. n
      PROVE  /\ OldestFirst(S)[i] = OldestFirst(S)[k] => i = k
             /\ OldestFirst(S)[i].id < OldestFirst(S)[k].id => i < k
  <2> HIDE DEF n
  <2>1. Rank(S, OldestFirst(S)[i]) = i /\ Rank(S, OldestFirst(S)[k]) = k
    BY <1>6
  <2>2. OldestFirst(S)[i].id < OldestFirst(S)[k].id =>
           Rank(S, OldestFirst(S)[i]) < Rank(S, OldestFirst(S)[k])
    BY <1>3, <1>6
  <2> QED BY <2>1, <2>2
<1> QED BY <1>1, <1>7, <1>8, <1>9

-----------------------------------------------------------------------------
(* The operations there are, and what the hub makes of a log.              *)

LEMMA AuthoredTyped ==
  ASSUME ReplicationTyped, Dated
  PROVE  /\ Origins \in [Node -> Seq(Id)]
         /\ Authored \subseteq Op
         /\ \A a, b \in Authored : a.node = b.node /\ a.seq = b.seq => a = b
         /\ \A o \in Node : \A i \in 1 .. Len(log[o][o]) :
               [node |-> o, seq |-> i, id |-> log[o][o][i]] \in Authored
<1>1. Origins \in [Node -> Seq(Id)]
  BY DEF Origins, ReplicationTyped
<1>2. ASSUME NEW a \in Authored
      PROVE  /\ a.node \in Node /\ a.seq \in 1 .. Len(log[a.node][a.node])
             /\ a.id = log[a.node][a.node][a.seq] /\ a.id \in Id
             /\ a = [node |-> a.node, seq |-> a.seq, id |-> a.id]
             /\ a.seq \in Number
  <2>1. /\ a.node \in Node /\ a.seq \in 1 .. Len(Origins[a.node])
        /\ a.id = Origins[a.node][a.seq] /\ a.id \in Id
        /\ a = [node |-> a.node, seq |-> a.seq, id |-> a.id]
        /\ a.seq \in Nat
    BY <1>1, InLogHas DEF Authored
  <2>2. Origins[a.node] = log[a.node][a.node]
    BY <2>1 DEF Origins
  <2>3. Len(log[a.node][a.node]) <= written /\ written <= MaxOps
        /\ written \in Nat /\ MaxOps \in Nat
    BY <2>1, ReplicationAssumption DEF Dated, ReplicationTyped, Number
  <2>4. Len(log[a.node][a.node]) \in Nat
    BY <2>1 DEF ReplicationTyped
  <2>5. a.seq <= MaxOps
    BY <2>1, <2>2, <2>3, <2>4
  <2> QED BY <2>1, <2>2, <2>3, <2>5 DEF Number
<1>3. Authored \subseteq Op
  BY <1>2 DEF Op
<1>4. \A a, b \in Authored : a.node = b.node /\ a.seq = b.seq => a = b
  BY <1>2
<1>5. ASSUME NEW o \in Node, NEW i \in 1 .. Len(log[o][o])
      PROVE  [node |-> o, seq |-> i, id |-> log[o][o][i]] \in Authored
  <2>1. Origins[o] = log[o][o]
    BY DEF Origins
  <2> QED BY <1>1, <2>1, InLogHolds DEF Authored
<1> QED BY <1>1, <1>3, <1>4, <1>5

\* Hub::ingest_journal appends to the hub log what it lacks of the log L, and
\* keeps it orderly.
LEMMA IngestIs ==
  ASSUME ReplicationTyped, Dated, Orderly(hub.ops),
         \A j \in 1 .. Len(hub.ops) : hub.ops[j] \in Authored,
         NEW L \in [Node -> Seq(Id)], \A o \in Node : Prefix(L[o], log[o][o]),
         Within(hub.ops, L, Len(hub.ops))
  PROVE  /\ Ingested(L) \in Seq(Op)
         /\ Len(hub.ops) <= Len(Ingested(L))
         /\ \A j \in 1 .. Len(hub.ops) : Ingested(L)[j] = hub.ops[j]
         /\ Orderly(Ingested(L))
         /\ \A j \in 1 .. Len(Ingested(L)) : Ingested(L)[j] \in InLog(L)
         /\ \A op \in InLog(L) :
               \E j \in 1 .. Len(Ingested(L)) : Ingested(L)[j] = op
         /\ \A op \in InLog(L) :
               op \in Unnumbered(L) <=>
                  ~ \E j \in 1 .. Len(hub.ops) : hub.ops[j] = op
<1> DEFINE H == hub.ops
           U == Unnumbered(L)
           n == Len(H)
           m == Cardinality(U)
           Q == OldestFirst(U)
           G == Ingested(L)
<1>1. H \in Seq(Op) /\ n \in Nat
  BY DEF ReplicationTyped
<1>2. /\ Origins \in [Node -> Seq(Id)]
      /\ \A o \in Node : Origins[o] = log[o][o]
      /\ Authored \subseteq Op
      /\ \A a, b \in Authored : a.node = b.node /\ a.seq = b.seq => a = b
  BY AuthoredTyped DEF Origins
<1>3. InLog(L) \subseteq Authored
  BY <1>2, PrefixWithin DEF Authored
<1>4. ASSUME NEW a \in Authored
      PROVE  /\ a.node \in Node /\ a.seq \in Nat \ {0} /\ a.id \in Nat
             /\ a.id \in Id
  BY <1>2, InLogHas DEF Authored
<1>5. ASSUME NEW j \in 1 .. n PROVE H[j] \in InLog(L)
  <2>1. H[j] \in Authored /\ H[j].seq <= Len(L[H[j].node])
    BY DEF Within
  <2>2. Prefix(L[H[j].node], Origins[H[j].node])
    BY <1>2, <1>4, <2>1
  <2> HIDE DEF H
  <2> QED BY <1>2, <2>1, <2>2, PrefixHolds DEF Authored
<1>6. ASSUME NEW op \in InLog(L)
      PROVE  op \in U <=> ~ \E j \in 1 .. n : H[j] = op
  <2>1. op \in Authored
    BY <1>3
  <2>2. /\ VectorAt(H, n)[op.node] \in Nat
        /\ \A s \in Nat \ {0} :
              s <= VectorAt(H, n)[op.node] <=>
                 \E j \in 1 .. n : H[j].node = op.node /\ H[j].seq = s
    <3>1. \A j \in 1 .. n : H[j] \in Authored /\ H[j].seq >= 1
      BY <1>4
    <3>2. \A j, k \in 1 .. n :
             H[j].node = H[k].node /\ H[j].seq = H[k].seq => H[j] = H[k]
      BY <1>2
    <3>3. op.node \in Node /\ Orderly(H)
      BY <1>4, <2>1
    <3> HIDE DEF H
    <3> QED BY <1>1, <3>1, <3>2, <3>3, HubCounts
  <2>3. op.seq > VectorAt(H, n)[op.node] <=>
           ~ \E j \in 1 .. n : H[j].node = op.node /\ H[j].seq = op.seq
    <3> HIDE DEF H, n
    <3> QED BY <1>4, <2>1, <2>2
  <2>4. ASSUME NEW j \in 1 .. n
        PROVE  H[j].node = op.node /\ H[j].seq = op.seq <=> H[j] = op
    BY <1>2, <2>1
  <2>5. op \in U <=> op.seq > VectorAt(H, n)[op.node]
    BY DEF Unnumbered
  <2> HIDE DEF H, n, U
  <2> QED BY <2>3, <2>4, <2>5
<1>7. U \subseteq InLog(L)
  BY DEF Unnumbered
<1>8. IsFiniteSet(U)
  <2> DEFINE f == [op \in U |-> op.id]
  <2> HIDE DEF U
  <2>1. f \in [U -> Id]
    BY <1>3, <1>4, <1>7
  <2>2. \A a, b \in U : f[a] = f[b] => a = b
    BY <1>3, <1>7 DEF Dated
  <2>3. f \in Injection(U, Id)
    <3> HIDE DEF f
    <3> QED BY <2>1, <2>2 DEF Injection, IsInjective
  <2>4. IsFiniteSet(Id)
    BY ReplicationAssumption, FS_Interval DEF Id
  <2> HIDE DEF f
  <2> QED BY <2>3, <2>4, FS_Injection
<1>9. /\ m \in Nat
      /\ Q \in Seq(U)
      /\ Len(Q) = m
      /\ \A op \in U : \E i \in 1 .. m : Q[i] = op
      /\ \A i, k \in 1 .. m : /\ Q[i] = Q[k] => i = k
                              /\ Q[i].id < Q[k].id => i < k
  <2> HIDE DEF U
  <2>1. \A a \in U : a.id \in Nat
    BY <1>3, <1>4, <1>7
  <2>2. \A a, b \in U : a.id = b.id => a = b
    BY <1>3, <1>7 DEF Dated
  <2> QED BY <1>8, <2>1, <2>2, Sorted
<1>10. U \subseteq Op
  BY <1>2, <1>3, <1>7
<1>11. G = H \o Q
  BY DEF Ingested
<1> HIDE DEF H, U, n, m, Q, G
<1>12. Q \in Seq(Op) /\ \A i \in 1 .. m : Q[i] \in U
  <2>1. Q \in Seq(Op)
    BY <1>9, <1>10
  <2>2. \A i \in 1 .. m : Q[i] \in U
    BY <1>9
  <2> QED BY <2>1, <2>2
<1>13. /\ G \in Seq(Op)
       /\ Len(G) = n + m
       /\ \A j \in 1 .. n : G[j] = H[j]
       /\ \A i \in 1 .. m : G[n + i] = Q[i]
  <2>1. Len(H) = n
    BY DEF n
  <2>2. G \in Seq(Op) /\ Len(G) = Len(H) + Len(Q)
    BY <1>1, <1>11, <1>12
  <2>3. \A j \in 1 .. Len(H) + Len(Q) :
           G[j] = IF j <= Len(H) THEN H[j] ELSE Q[j - Len(H)]
    BY <1>1, <1>11, <1>12
  <2>4. ASSUME NEW j \in 1 .. n PROVE G[j] = H[j]
    <3>1. j \in 1 .. Len(H) + Len(Q) /\ j <= Len(H)
      BY <1>1, <1>9, <2>1
    <3> QED BY <2>3, <3>1
  <2>5. ASSUME NEW i \in 1 .. m PROVE G[n + i] = Q[i]
    <3>1. n + i \in 1 .. Len(H) + Len(Q) /\ ~ (n + i <= Len(H))
      BY <1>1, <1>9, <2>1
    <3>2. (n + i) - Len(H) = i
      BY <1>1, <1>9, <2>1
    <3> QED BY <2>3, <3>1, <3>2
  <2> QED BY <1>9, <2>1, <2>2, <2>4, <2>5
<1>14. ASSUME NEW j \in 1 .. Len(G)
       PROVE  \/ j \in 1 .. n
              \/ \E i \in 1 .. m : j = n + i
  <2>1. CASE j <= n
    BY <2>1
  <2>2. CASE j > n
    <3>1. j - n \in 1 .. m /\ j = n + (j - n)
      BY <1>1, <1>9, <1>13, <2>2
    <3> QED BY <3>1
  <2> QED BY <1>1, <2>1, <2>2
<1>15. ASSUME NEW j \in 1 .. Len(G) PROVE G[j] \in InLog(L)
  BY <1>5, <1>7, <1>12, <1>13, <1>14
<1>16. ASSUME NEW op \in InLog(L) PROVE \E j \in 1 .. Len(G) : G[j] = op
  <2>1. CASE op \in U
    <3>1. PICK i \in 1 .. m : Q[i] = op
      BY <1>9, <2>1
    <3>2. n + i \in 1 .. Len(G)
      BY <1>1, <1>9, <1>13
    <3> QED BY <1>13, <3>1, <3>2
  <2>2. CASE op \notin U
    <3>1. PICK j \in 1 .. n : H[j] = op
      BY <1>6, <2>2
    <3>2. j \in 1 .. Len(G)
      BY <1>1, <1>9, <1>13
    <3> QED BY <1>13, <3>1, <3>2
  <2> QED BY <2>1, <2>2
<1>17. ASSUME NEW i \in 1 .. m PROVE ~ \E j \in 1 .. n : H[j] = Q[i]
  BY <1>6, <1>7, <1>12
<1>18. ASSUME NEW j \in 1 .. Len(G), NEW k \in 1 .. Len(G), G[j] = G[k]
       PROVE  j = k
  <2>1. CASE j \in 1 .. n /\ k \in 1 .. n
    <3>1. H[j] = H[k]
      BY <1>13, <1>18, <2>1
    <3> QED BY <2>1, <3>1 DEF Orderly, H, n
  <2>2. CASE j \in 1 .. n /\ \E i \in 1 .. m : k = n + i
    BY <1>13, <1>17, <1>18, <2>2
  <2>3. CASE k \in 1 .. n /\ \E i \in 1 .. m : j = n + i
    BY <1>13, <1>17, <1>18, <2>3
  <2>4. ASSUME NEW i \in 1 .. m, NEW h \in 1 .. m, j = n + i, k = n + h
        PROVE  j = k
    <3>1. Q[i] = Q[h]
      BY <1>13, <1>18, <2>4
    <3>2. i = h
      BY <1>9, <3>1
    <3> QED BY <2>4, <3>2
  <2> QED BY <1>14, <2>1, <2>2, <2>3, <2>4
<1>19. ASSUME NEW j \in 1 .. Len(G), NEW s \in 1 .. G[j].seq - 1
       PROVE  \E k \in 1 .. j - 1 : G[k].node = G[j].node /\ G[k].seq = s
  <2>1. CASE j \in 1 .. n
    <3>1. G[j] = H[j]
      BY <1>13, <2>1
    <3>2. PICK k \in 1 .. j - 1 : H[k].node = H[j].node /\ H[k].seq = s
      BY <2>1, <3>1 DEF Orderly, H, n
    <3>3. k \in 1 .. n
      BY <1>1, <2>1
    <3>4. G[k] = H[k]
      BY <1>13, <3>3
    <3> QED BY <3>1, <3>2, <3>4
  <2>2. ASSUME NEW i \in 1 .. m, j = n + i
        PROVE  \E k \in 1 .. j - 1 : G[k].node = G[j].node /\ G[k].seq = s
    <3> DEFINE op == G[j]
               p == [node |-> op.node, seq |-> s, id |-> L[op.node][s]]
    <3>1. op = Q[i] /\ op \in InLog(L)
      BY <1>13, <1>15, <2>2
    <3>2. /\ op.node \in Node /\ op.seq \in 1 .. Len(L[op.node])
          /\ op.seq \in Nat
      <4> HIDE DEF op
      <4> QED BY <3>1, InLogHas
    <3>3. s \in 1 .. Len(L[op.node]) /\ s < op.seq
      <4>1. Len(L[op.node]) \in Nat
        BY <3>2
      <4>2. s \in 1 .. op.seq - 1
        OBVIOUS
      <4> HIDE DEF op
      <4> QED BY <3>2, <4>1, <4>2
    <3>4. p \in InLog(L)
      <4> HIDE DEF op
      <4> QED BY <3>2, <3>3, InLogHolds
    <3>5. p.node = op.node /\ p.seq = s
      OBVIOUS
    <3>6. p.id < op.id
      <4>1. p \in Authored /\ op \in Authored
        BY <1>3, <3>1, <3>4
      <4> HIDE DEF p, op
      <4> QED BY <3>3, <3>5, <4>1 DEF Dated
    <3> HIDE DEF p, op
    <3>7. CASE p \in U
      <4>1. PICK h \in 1 .. m : Q[h] = p
        BY <1>9, <3>7
      <4>2. h < i
        BY <1>9, <3>1, <3>6, <4>1
      <4>3. n + h \in 1 .. j - 1 /\ G[n + h] = p
        BY <1>1, <1>13, <2>2, <4>1, <4>2
      <4> QED BY <3>5, <4>3 DEF op
    <3>8. CASE p \notin U
      <4>1. PICK k \in 1 .. n : H[k] = p
        BY <1>6, <3>4, <3>8
      <4>2. k \in 1 .. j - 1 /\ G[k] = p
        BY <1>1, <1>13, <2>2, <4>1
      <4> QED BY <3>5, <4>2 DEF op
    <3> QED BY <3>7, <3>8
  <2> QED BY <1>14, <2>1, <2>2
<1>20. Orderly(G)
  BY <1>18, <1>19 DEF Orderly
<1>21. Len(H) <= Len(G)
  BY <1>1, <1>9, <1>13 DEF n
<1> QED
  BY <1>6, <1>13, <1>15, <1>16, <1>20, <1>21 DEF H, n, G, U

-----------------------------------------------------------------------------
(* What a node's journal makes of a batch that fits: nothing waits.        *)

LEMMA HeadIs ==
  ASSUME ReplicationTyped, Dated, NEW n \in Node, ahead[n] = {},
         NEW S, S \subseteq Authored, Fits(log[n], S), NEW o \in Node,
         Len(log[n][o]) <= Len(log[o][o])
  PROVE  /\ HeadAfter(n, S, o) \in Nat
         /\ Len(log[n][o]) <= HeadAfter(n, S, o)
         /\ HeadAfter(n, S, o) <= Len(log[o][o])
         /\ \A i \in Len(log[n][o]) + 1 .. HeadAfter(n, S, o) :
               \E op \in Pending(n, S) : op.node = o /\ op.seq = i
         /\ \A op \in S : op.node = o => op.seq <= HeadAfter(n, S, o)
<1> DEFINE head == Len(log[n][o])
           There(i) == \E op \in Pending(n, S) : op.node = o /\ op.seq = i
           Fine(h) == /\ \A i \in head + 1 .. h : There(i)
                      /\ ~ There(h + 1)
           h == HeadAfter(n, S, o)
           T == {head} \cup {op.seq : op \in {q \in S : q.node = o /\ q.seq > head}}
<1>1. ASSUME NEW op \in S
      PROVE  /\ op.node \in Node /\ op.seq \in Nat /\ op.seq <= MaxOps
             /\ op.seq <= Len(log[op.node][op.node])
  <2>1. op \in Authored
    OBVIOUS
  <2>2. op.node \in Node /\ op.seq \in 1 .. Len(Origins[op.node])
    BY <2>1, AuthoredTyped, InLogHas DEF Authored
  <2>3. Len(Origins[op.node]) \in Nat /\ Len(Origins[op.node]) <= written
    BY <2>2, AuthoredTyped DEF Origins, Dated
  <2>4. written \in Nat /\ written <= MaxOps /\ MaxOps \in Nat
    BY ReplicationAssumption DEF ReplicationTyped, Number
  <2>5. Origins[op.node] = log[op.node][op.node]
    BY <2>2 DEF Origins
  <2> QED BY <2>2, <2>3, <2>4, <2>5
<1>2. head \in Nat /\ Len(log[o][o]) \in Nat /\ head <= MaxOps /\ MaxOps \in Nat
  <2>1. head \in Nat /\ Len(log[o][o]) \in Nat
    BY DEF ReplicationTyped
  <2>2. Len(log[o][o]) <= written /\ written \in Nat /\ written <= MaxOps
        /\ MaxOps \in Nat
    BY ReplicationAssumption DEF ReplicationTyped, Number, Dated
  <2> QED BY <2>1, <2>2
<1>3. ASSUME NEW i \in Nat, i > head
      PROVE  There(i) <=> \E op \in S : op.node = o /\ op.seq = i
  BY <1>3 DEF Pending
<1>4. ASSUME NEW op \in S, op.node = o, NEW i \in head + 1 .. op.seq
      PROVE  There(i)
  <2>1. \E q \in S : q.node = o /\ q.seq = i
    BY <1>4 DEF Fits
  <2>2. i \in Nat /\ i > head
    BY <1>1, <1>2, <1>4
  <2> HIDE DEF There, head
  <2> QED BY <1>3, <2>1, <2>2
<1> HIDE DEF There
<1>5. \E g \in head .. MaxOps : Fine(g)
  <2> DEFINE g == Max(T)
  <2>1. T \subseteq Int /\ T # {} /\ \A x \in T : x <= MaxOps
    BY <1>1, <1>2
  <2>2. g \in T /\ \A x \in T : x <= g
    <3> HIDE DEF T
    <3>1. MaxOps \in Int
      BY <1>2
    <3> QED BY ONLY <3>1, <2>1, GreatestOne
  <2>3. g \in head .. MaxOps
    <3>1. head \in T
      OBVIOUS
    <3> HIDE DEF g, T, head
    <3> QED BY <1>2, <2>1, <2>2, <3>1
  <2>4. ASSUME NEW i \in head + 1 .. g PROVE There(i)
    <3>1. g # head
      BY <1>2, <2>3
    <3>2. PICK op \in S : op.node = o /\ op.seq > head /\ op.seq = g
      <4> HIDE DEF g
      <4> QED BY <2>2, <3>1
    <3> HIDE DEF g, T, head
    <3> QED BY <1>4, <3>2
  <2>5. ~ There(g + 1)
    <3> SUFFICES ASSUME There(g + 1) PROVE FALSE
      OBVIOUS
    <3>1. g + 1 \in Nat /\ g + 1 > head /\ g \in Int
      <4> HIDE DEF g, T, head
      <4> QED BY <1>2, <2>3
    <3>2. \E op \in S : op.node = o /\ op.seq = g + 1
      <4> HIDE DEF g, T, head
      <4> QED BY <1>3, <3>1
    <3>3. g + 1 \in T
      <4> HIDE DEF g
      <4> QED BY <3>1, <3>2
    <3> HIDE DEF g, T, head
    <3> QED BY <2>2, <3>1, <3>3
  <2> HIDE DEF g, T, head
  <2> QED BY <2>3, <2>4, <2>5
<1>6. h \in head .. MaxOps /\ Fine(h)
  <2>1. h = CHOOSE g \in head .. MaxOps : Fine(g)
    BY DEF HeadAfter, There
  <2> HIDE DEF h, Fine
  <2> QED BY <1>5, <2>1
<1>7. h \in Nat /\ head <= h
  <2> HIDE DEF h, Fine, head
  <2> QED BY <1>2, <1>6
<1>8. ASSUME NEW op \in S, op.node = o PROVE op.seq <= h
  <2> SUFFICES ASSUME ~ (op.seq <= h) PROVE FALSE
    OBVIOUS
  <2>1. h + 1 \in head + 1 .. op.seq
    <3> HIDE DEF h, head
    <3> QED BY <1>1, <1>2, <1>7
  <2>2. There(h + 1)
    <3> HIDE DEF h, head
    <3> QED BY <1>4, <1>8, <2>1
  <2> HIDE DEF h
  <2> QED BY <1>6, <2>2
<1>9. h <= Len(log[o][o])
  <2>1. CASE h = head
    BY <2>1
  <2>2. CASE h # head
    <3>1. h \in head + 1 .. h
      <4> HIDE DEF h, head
      <4> QED BY <1>2, <1>7, <2>2
    <3>2. There(h)
      <4> HIDE DEF h, head
      <4> QED BY <1>6, <3>1
    <3>3. PICK op \in S : op.node = o /\ op.seq = h
      <4> HIDE DEF h, head
      <4> QED BY <1>2, <1>3, <1>7, <2>2, <3>2
    <3> HIDE DEF h
    <3> QED BY <1>1, <3>3
  <2> QED BY <2>1, <2>2
<1> QED
  BY <1>6, <1>7, <1>8, <1>9 DEF There

LEMMA AppendedAt ==
  ASSUME ReplicationTyped, Dated, NEW n \in Node, ahead[n] = {},
         NEW S, S \subseteq Authored, Fits(log[n], S), NEW o \in Node,
         Prefix(log[n][o], log[o][o])
  PROVE  /\ Appended(n, S)[o] \in Seq(Id)
         /\ Len(Appended(n, S)[o]) = HeadAfter(n, S, o)
         /\ \A i \in 1 .. HeadAfter(n, S, o) :
               Appended(n, S)[o][i] = log[o][o][i]
<1>0. /\ HeadAfter(n, S, o) \in Nat
      /\ Len(log[n][o]) <= HeadAfter(n, S, o)
      /\ HeadAfter(n, S, o) <= Len(log[o][o])
      /\ \A i \in Len(log[n][o]) + 1 .. HeadAfter(n, S, o) :
            \E op \in Pending(n, S) : op.node = o /\ op.seq = i
      /\ \A op \in S : op.node = o => op.seq <= HeadAfter(n, S, o)
  <2>1. Len(log[n][o]) <= Len(log[o][o])
    BY DEF Prefix
  <2> QED BY <2>1, HeadIs
<1> DEFINE head == Len(log[n][o])
           h == HeadAfter(n, S, o)
           Given(i) == CHOOSE op \in Pending(n, S) :
                          op.node = o /\ op.seq = head + i
           E == [i \in 1 .. h - head |-> Given(i).id]
<1>1. /\ h \in Nat /\ head <= h /\ h <= Len(log[o][o])
      /\ \A i \in head + 1 .. h :
            \E op \in Pending(n, S) : op.node = o /\ op.seq = i
  BY <1>0
<1>2. head \in Nat /\ log[n][o] \in Seq(Id) /\ log[o][o] \in Seq(Id)
      /\ Len(log[o][o]) \in Nat
  BY DEF ReplicationTyped
<1>3. Pending(n, S) \subseteq Authored
  BY DEF Pending
<1>4. ASSUME NEW op \in Authored, op.node = o PROVE op.id = log[o][o][op.seq]
  <2>1. op.id = Origins[op.node][op.seq]
    BY AuthoredTyped, InLogHas DEF Authored
  <2> QED BY <1>4, <2>1 DEF Origins
<1>5. ASSUME NEW i \in 1 .. h - head
      PROVE  E[i] = log[o][o][head + i] /\ E[i] \in Id
  <2>1. head + i \in head + 1 .. h
    <3> HIDE DEF head, h
    <3> QED BY <1>1, <1>2
  <2>2. \E op \in Pending(n, S) : op.node = o /\ op.seq = head + i
    <3> HIDE DEF head, h
    <3> QED BY <1>1, <2>1
  <2>3. /\ Given(i) \in Pending(n, S)
        /\ Given(i).node = o /\ Given(i).seq = head + i
    <3> HIDE DEF head, h
    <3> QED BY <2>2
  <2>4. Given(i).id = log[o][o][head + i]
    <3> HIDE DEF Given
    <3> QED BY <1>3, <1>4, <2>3
  <2>5. E[i] = Given(i).id
    OBVIOUS
  <2>6. head + i \in 1 .. Len(log[o][o])
    <3> HIDE DEF head, h
    <3> QED BY <1>1, <1>2, <2>1
  <2>7. log[o][o][head + i] \in Id
    <3> HIDE DEF head, h
    <3> QED BY <1>2, <2>6
  <2> QED BY <2>4, <2>5, <2>7
<1>6. E \in Seq(Id) /\ Len(E) = h - head
  <2>1. h - head \in Nat
    <3> HIDE DEF head, h
    <3> QED BY <1>1, <1>2
  <2>2. E \in [1 .. h - head -> Id]
    <3>1. E = [i \in 1 .. h - head |-> E[i]]
      OBVIOUS
    <3> HIDE DEF E, h, head
    <3> QED BY <1>5, <3>1
  <2> HIDE DEF E, h, head
  <2> QED BY <2>1, <2>2
<1>7. Appended(n, S)[o] = log[n][o] \o E
  BY DEF Appended
<1> HIDE DEF E, Given
<1>8. /\ log[n][o] \o E \in Seq(Id)
      /\ Len(log[n][o] \o E) = head + Len(E)
      /\ \A i \in 1 .. head + Len(E) :
            (log[n][o] \o E)[i] =
               IF i <= head THEN log[n][o][i] ELSE E[i - head]
  <2> DEFINE s == log[n][o]
  <2>1. s \in Seq(Id) /\ E \in Seq(Id) /\ head = Len(s)
    BY <1>2, <1>6
  <2> HIDE DEF s, head
  <2>2. /\ s \o E \in Seq(Id)
        /\ Len(s \o E) = Len(s) + Len(E)
        /\ \A i \in 1 .. Len(s) + Len(E) :
              (s \o E)[i] = IF i <= Len(s) THEN s[i] ELSE E[i - Len(s)]
    BY ONLY <2>1
  <2> QED BY <2>1, <2>2 DEF s
<1> HIDE DEF head, h
<1>9. Len(Appended(n, S)[o]) = h
  BY <1>1, <1>2, <1>6, <1>7, <1>8
<1>10. ASSUME NEW i \in 1 .. h PROVE Appended(n, S)[o][i] = log[o][o][i]
  <2>1. i \in 1 .. head + Len(E)
    BY <1>1, <1>2, <1>6
  <2>2. CASE i <= head
    <3>1. i \in 1 .. head
      BY <1>2, <2>2
    <3>2. log[n][o][i] = log[o][o][i]
      BY <3>1 DEF Prefix, head
    <3> QED BY <1>7, <1>8, <2>1, <2>2, <3>2
  <2>3. CASE ~ (i <= head)
    <3>1. i - head \in 1 .. h - head /\ head + (i - head) = i
      BY <1>1, <1>2, <2>3
    <3>2. E[i - head] = log[o][o][i]
      BY <1>5, <3>1
    <3> QED BY <1>7, <1>8, <2>1, <2>3, <3>2
  <2> QED BY <2>2, <2>3
<1> QED BY <1>7, <1>8, <1>9, <1>10 DEF h

\* segments::append of a batch that fits.
LEMMA AppendIs ==
  ASSUME ReplicationTyped, Dated, NEW n \in Node, ahead[n] = {},
         \A o \in Node : Prefix(log[n][o], log[o][o]),
         NEW S, S \subseteq Authored, Fits(log[n], S)
  PROVE  /\ Beyond(n, S) = {}
         /\ Appended(n, S) \in [Node -> Seq(Id)]
         /\ \A o \in Node : Prefix(Appended(n, S)[o], log[o][o])
         /\ \A o \in Node : Len(log[n][o]) <= Len(Appended(n, S)[o])
         /\ \A op \in S : op.seq <= Len(Appended(n, S)[op.node])
         /\ \A o \in Node :
               \/ Appended(n, S)[o] = log[n][o]
               \/ \E op \in S : /\ op.node = o
                                /\ op.seq = Len(Appended(n, S)[o])
         /\ InLog(Appended(n, S)) = InLog(log[n]) \cup S
<1> DEFINE L == Appended(n, S)
<1>1. ASSUME NEW o \in Node
      PROVE  /\ L[o] \in Seq(Id)
             /\ Len(L[o]) \in Nat /\ Len(log[n][o]) \in Nat
             /\ Len(L[o]) <= Len(log[o][o]) /\ Len(log[n][o]) <= Len(L[o])
             /\ \A i \in 1 .. Len(L[o]) : L[o][i] = log[o][o][i]
             /\ \A op \in S : op.node = o => op.seq <= Len(L[o])
             /\ \A i \in Len(log[n][o]) + 1 .. Len(L[o]) :
                   \E op \in S : op.node = o /\ op.seq = i
  <2>1. /\ L[o] \in Seq(Id) /\ Len(L[o]) = HeadAfter(n, S, o)
        /\ \A i \in 1 .. HeadAfter(n, S, o) : L[o][i] = log[o][o][i]
    BY AppendedAt
  <2>2. /\ HeadAfter(n, S, o) \in Nat
        /\ Len(log[n][o]) <= HeadAfter(n, S, o)
        /\ HeadAfter(n, S, o) <= Len(log[o][o])
        /\ \A i \in Len(log[n][o]) + 1 .. HeadAfter(n, S, o) :
              \E op \in Pending(n, S) : op.node = o /\ op.seq = i
        /\ \A op \in S : op.node = o => op.seq <= HeadAfter(n, S, o)
    <3>1. Len(log[n][o]) <= Len(log[o][o])
      BY DEF Prefix
    <3> QED BY <3>1, HeadIs
  <2>3. Pending(n, S) \subseteq S
    BY DEF Pending
  <2>4. Len(log[n][o]) \in Nat
    BY DEF ReplicationTyped
  <2> HIDE DEF L
  <2> QED BY <2>1, <2>2, <2>3, <2>4
<1>2. L \in [Node -> Seq(Id)]
  <2>1. L = [o \in Node |-> L[o]]
    BY DEF Appended
  <2> HIDE DEF L
  <2> QED BY <1>1, <2>1
<1>3. \A op \in S : op.node \in Node
  BY AuthoredTyped, InLogHas DEF Authored
<1>4. Beyond(n, S) = {}
  <2> SUFFICES ASSUME NEW op \in Beyond(n, S) PROVE FALSE
    OBVIOUS
  <2>1. op \in S /\ op.seq > HeadAfter(n, S, op.node)
    BY DEF Beyond, Pending
  <2>2. op.node \in Node /\ op.seq \in Nat
    BY <2>1, AuthoredTyped, InLogHas DEF Authored
  <2>3. HeadAfter(n, S, op.node) \in Nat /\ op.seq <= HeadAfter(n, S, op.node)
    BY <2>1, <2>2, HeadIs DEF Prefix
  <2> QED BY <2>1, <2>2, <2>3
<1>5. ASSUME NEW o \in Node PROVE Prefix(L[o], log[o][o])
  <2> HIDE DEF L
  <2> QED BY <1>1 DEF Prefix
<1>6. ASSUME NEW o \in Node, L[o] # log[n][o]
      PROVE  \E op \in S : op.node = o /\ op.seq = Len(L[o])
  <2> HIDE DEF L
  <2>1. Len(L[o]) # Len(log[n][o])
    <3> SUFFICES ASSUME Len(L[o]) = Len(log[n][o]) PROVE FALSE
      OBVIOUS
    <3>1. log[n][o] \in Seq(Id) /\ \A i \in 1 .. Len(L[o]) : L[o][i] = log[n][o][i]
      BY <1>1 DEF ReplicationTyped, Prefix
    <3> QED BY <1>1, <1>6, <3>1
  <2>2. Len(L[o]) \in Len(log[n][o]) + 1 .. Len(L[o])
    BY <1>1, <2>1
  <2> QED BY <1>1, <2>2
<1>7. InLog(L) = InLog(log[n]) \cup S
  <2>0. log[n] \in [Node -> Seq(Id)] /\ Origins \in [Node -> Seq(Id)]
        /\ \A o \in Node : Origins[o] = log[o][o]
    BY AuthoredTyped DEF ReplicationTyped, Origins
  <2> HIDE DEF L
  <2>1. InLog(L) \subseteq Authored
    BY <1>2, <1>5, <2>0, PrefixWithin DEF Authored
  <2>2. ASSUME NEW op \in InLog(L) PROVE op \in InLog(log[n]) \cup S
    <3>1. op \in Authored /\ op.node \in Node /\ op.seq \in 1 .. Len(L[op.node])
          /\ op.seq \in Nat
      BY <1>2, <2>1, InLogHas
    <3>2. CASE op.seq <= Len(log[n][op.node])
      BY <2>0, <3>1, <3>2, PrefixHolds DEF Authored
    <3>3. CASE ~ (op.seq <= Len(log[n][op.node]))
      <4>1. op.seq \in Len(log[n][op.node]) + 1 .. Len(L[op.node])
        BY <1>1, <3>1, <3>3
      <4>2. PICK q \in S : q.node = op.node /\ q.seq = op.seq
        BY <1>1, <3>1, <4>1
      <4>3. q = op
        BY <3>1, <4>2, AuthoredTyped
      <4> QED BY <4>2, <4>3
    <3> QED BY <3>2, <3>3
  <2>3. ASSUME NEW op \in S PROVE op \in InLog(L)
    <3>1. op \in Authored /\ op.seq <= Len(L[op.node])
          /\ Prefix(L[op.node], Origins[op.node])
      BY <1>1, <1>3, <1>5, <2>0
    <3> QED BY <1>2, <2>0, <3>1, PrefixHolds DEF Authored
  <2>4. ASSUME NEW op \in InLog(log[n]) PROVE op \in InLog(L)
    <3>1. op \in Authored /\ op.node \in Node
          /\ op.seq \in 1 .. Len(log[n][op.node])
      BY <2>0, PrefixWithin, InLogHas DEF Authored
    <3>2. op.seq <= Len(L[op.node])
      BY <1>1, <3>1
    <3>3. Prefix(L[op.node], Origins[op.node])
      BY <1>5, <2>0, <3>1
    <3> QED BY <1>2, <2>0, <3>1, <3>2, <3>3, PrefixHolds DEF Authored
  <2> QED BY <2>2, <2>3, <2>4
<1> HIDE DEF L
<1>8. \A op \in S : op.seq <= Len(L[op.node])
  BY <1>1, <1>3
<1> QED BY <1>1, <1>2, <1>4, <1>5, <1>6, <1>7, <1>8 DEF L

-----------------------------------------------------------------------------
(* What a step may do to the logs, and what survives it.                   *)

Logs == [Node -> [Node -> Seq(Id)]]

\* Nothing durable is lost or changed, no copy gets shorter, and the hub log
\* only grows.
Advances(logs, sync, H, logs2, sync2, H2) ==
    /\ \A o \in Node : /\ sync[o] <= sync2[o]
                       /\ sync2[o] <= Len(logs2[o][o])
                       /\ \A i \in 1 .. sync[o] : logs2[o][o][i] = logs[o][o][i]
    /\ \A n, o \in Node : n # o => Len(logs[n][o]) <= Len(logs2[n][o])
    /\ Len(H) <= Len(H2)
    /\ \A j \in 1 .. Len(H) : H2[j] = H[j]

LEMMA DurableIs ==
  ASSUME NEW logs \in Logs, NEW sync \in [Node -> Nat], NEW op
  PROVE  op \in Durable(logs, sync) <=>
            /\ op.node \in Node
            /\ op.seq \in 1 .. Len(logs[op.node][op.node])
            /\ op.seq <= sync[op.node]
            /\ op = [node |-> op.node, seq |-> op.seq,
                     id |-> logs[op.node][op.node][op.seq]]
<1> DEFINE own == [o \in Node |-> logs[o][o]]
<1>1. own \in [Node -> Seq(Id)] /\ \A o \in Node : own[o] = logs[o][o]
  BY DEF Logs
<1>2. op \in Durable(logs, sync) <=> op \in InLog(own) /\ op.seq <= sync[op.node]
  BY DEF Durable
<1> HIDE DEF own
<1>3. ASSUME op \in InLog(own)
      PROVE  /\ op.node \in Node
             /\ op.seq \in 1 .. Len(logs[op.node][op.node])
             /\ op = [node |-> op.node, seq |-> op.seq,
                      id |-> logs[op.node][op.node][op.seq]]
  <2>1. /\ op.node \in Node
        /\ op.seq \in 1 .. Len(own[op.node])
        /\ op.id = own[op.node][op.seq]
        /\ op = [node |-> op.node, seq |-> op.seq, id |-> op.id]
    BY <1>1, <1>3, InLogHas
  <2>2. own[op.node] = logs[op.node][op.node]
    BY <1>1, <2>1
  <2> QED BY <2>1, <2>2
<1>4. ASSUME /\ op.node \in Node
             /\ op.seq \in 1 .. Len(logs[op.node][op.node])
             /\ op = [node |-> op.node, seq |-> op.seq,
                      id |-> logs[op.node][op.node][op.seq]]
      PROVE  op \in InLog(own)
  <2>1. own[op.node] = logs[op.node][op.node]
    BY <1>1, <1>4
  <2>2. [node |-> op.node, seq |-> op.seq, id |-> own[op.node][op.seq]]
           \in InLog(own)
    BY <1>1, <1>4, <2>1, InLogHolds
  <2> QED BY <1>4, <2>1, <2>2
<1> QED BY <1>2, <1>3, <1>4

LEMMA DurableHas ==
  ASSUME NEW logs \in Logs, NEW sync \in [Node -> Nat],
         NEW op \in Durable(logs, sync)
  PROVE  /\ op.node \in Node
         /\ op.seq \in Nat \ {0}
         /\ op.seq <= Len(logs[op.node][op.node])
         /\ op.seq <= sync[op.node]
<1>1. /\ op.node \in Node
      /\ op.seq \in 1 .. Len(logs[op.node][op.node])
      /\ op.seq <= sync[op.node]
  BY DurableIs
<1> QED BY <1>1

LEMMA AtMost ==
  ASSUME NEW i \in Nat, NEW j \in Nat, NEW k \in Nat, i <= j, j <= k
  PROVE  i <= k
OBVIOUS

LEMMA LogsHave ==
  ASSUME NEW logs \in Logs, NEW n \in Node, NEW o \in Node
  PROVE  logs[n][o] \in Seq(Id) /\ Len(logs[n][o]) \in Nat
BY DEF Logs

LEMMA DurableStays ==
  ASSUME NEW logs \in Logs, NEW sync \in [Node -> Nat], NEW H,
         NEW logs2 \in Logs, NEW sync2 \in [Node -> Nat], NEW H2,
         Advances(logs, sync, H, logs2, sync2, H2)
  PROVE  Durable(logs, sync) \subseteq Durable(logs2, sync2)
<1> SUFFICES ASSUME NEW op \in Durable(logs, sync)
             PROVE  op \in Durable(logs2, sync2)
  OBVIOUS
<1>1. /\ op.node \in Node
      /\ op.seq \in 1 .. Len(logs[op.node][op.node])
      /\ op.seq <= sync[op.node]
      /\ op = [node |-> op.node, seq |-> op.seq,
               id |-> logs[op.node][op.node][op.seq]]
  BY DurableIs
<1>2. /\ op.seq \in Nat \ {0} /\ sync[op.node] \in Nat
      /\ sync2[op.node] \in Nat /\ Len(logs2[op.node][op.node]) \in Nat
  BY <1>1 DEF Logs
<1>3. /\ sync[op.node] <= sync2[op.node]
      /\ sync2[op.node] <= Len(logs2[op.node][op.node])
      /\ \A i \in 1 .. sync[op.node] :
            logs2[op.node][op.node][i] = logs[op.node][op.node][i]
  BY <1>1 DEF Advances
<1>4. op.seq \in 1 .. sync[op.node]
  BY <1>1, <1>2
<1>5. logs2[op.node][op.node][op.seq] = logs[op.node][op.node][op.seq]
  BY <1>3, <1>4
<1>6. op.seq \in 1 .. Len(logs2[op.node][op.node]) /\ op.seq <= sync2[op.node]
  BY <1>1, <1>2, <1>3
<1> QED BY <1>1, <1>5, <1>6, DurableIs

LEMMA CopiedStays ==
  ASSUME NEW logs \in Logs, NEW sync \in [Node -> Nat], NEW H,
         NEW logs2 \in Logs, NEW sync2 \in [Node -> Nat], NEW H2,
         Advances(logs, sync, H, logs2, sync2, H2),
         NEW o \in Node, NEW copy \in Seq(Id), Copied(copy, o, logs, sync)
  PROVE  Copied(copy, o, logs2, sync2)
<1>1. Len(copy) <= sync[o] /\ \A i \in 1 .. Len(copy) : copy[i] = logs[o][o][i]
  BY DEF Copied, Prefix
<1>2. /\ sync[o] <= sync2[o] /\ sync2[o] <= Len(logs2[o][o])
      /\ \A i \in 1 .. sync[o] : logs2[o][o][i] = logs[o][o][i]
  BY DEF Advances
<1>3. Len(copy) \in Nat /\ sync[o] \in Nat /\ sync2[o] \in Nat
      /\ Len(logs2[o][o]) \in Nat
  BY DEF Logs
<1>4. Len(copy) <= sync2[o] /\ Len(copy) <= Len(logs2[o][o])
  BY <1>1, <1>2, <1>3
<1>5. \A i \in 1 .. Len(copy) : i \in 1 .. sync[o]
  BY <1>1, <1>3
<1>6. \A i \in 1 .. Len(copy) : copy[i] = logs2[o][o][i]
  BY <1>1, <1>2, <1>5
<1> QED BY <1>4, <1>6 DEF Copied, Prefix

\* What a node has taken in of the hub log it keeps.
LEMMA WithinStays ==
  ASSUME NEW logs \in Logs, NEW sync \in [Node -> Nat], NEW H \in Seq(Op),
         NEW logs2 \in Logs, NEW sync2 \in [Node -> Nat], NEW H2 \in Seq(Op),
         Advances(logs, sync, H, logs2, sync2, H2),
         \A j \in 1 .. Len(H) : H[j] \in Durable(logs, sync),
         NEW n \in Node, NEW i \in Nat, Within(H, logs[n], i)
  PROVE  Within(H2, logs2[n], i)
<1>1. Len(H) \in Nat /\ Len(H2) \in Nat
  OBVIOUS
<1>2. i <= Len(H) /\ i <= Len(H2)
  BY <1>1 DEF Within, Advances
<1>3. ASSUME NEW j \in 1 .. i PROVE H2[j].seq <= Len(logs2[n][H2[j].node])
  <2> DEFINE op == H[j]
  <2>1. j \in 1 .. Len(H)
    BY <1>1, <1>2
  <2>2. op \in Durable(logs, sync) /\ H2[j] = op /\ op.seq <= Len(logs[n][op.node])
    BY <2>1 DEF Advances, Within
  <2> HIDE DEF op
  <2>3. op.node \in Node /\ op.seq \in Nat /\ op.seq <= sync[op.node]
    BY <2>2, DurableHas
  <2>4. Len(logs[n][op.node]) \in Nat /\ Len(logs2[n][op.node]) \in Nat
        /\ sync[op.node] \in Nat /\ sync2[op.node] \in Nat
    BY <2>3, LogsHave
  <2>5. CASE op.node # n
    <3>1. Len(logs[n][op.node]) <= Len(logs2[n][op.node])
      BY <2>3, <2>5 DEF Advances
    <3>2. op.seq <= Len(logs2[n][op.node])
      BY <2>2, <2>3, <2>4, <3>1, AtMost, Zenon
    <3> QED BY <2>2, <3>2
  <2>6. CASE op.node = n
    <3>1. sync[n] <= sync2[n] /\ sync2[n] <= Len(logs2[n][n])
      BY DEF Advances
    <3> QED BY <2>2, <2>3, <2>4, <2>6, <3>1
  <2> QED BY <2>5, <2>6
<1> QED BY <1>2, <1>3 DEF Within

LEMMA CopyWithinStays ==
  ASSUME NEW logs, NEW sync, NEW H \in Seq(Op),
         NEW logs2, NEW sync2, NEW H2 \in Seq(Op),
         Advances(logs, sync, H, logs2, sync2, H2),
         NEW L, NEW i \in Nat, Within(H, L, i)
  PROVE  Within(H2, L, i)
<1>1. Len(H) \in Nat /\ Len(H2) \in Nat /\ Len(H) <= Len(H2) /\ i <= Len(H)
      /\ \A j \in 1 .. Len(H) : H2[j] = H[j]
  BY DEF Advances, Within
<1>2. \A j \in 1 .. i : j \in 1 .. Len(H)
  BY <1>1
<1>3. \A j \in 1 .. i : H2[j].seq <= Len(L[H2[j].node])
  BY <1>1, <1>2 DEF Within
<1> QED BY <1>1, <1>3 DEF Within

\* A process whose client took nothing in relies on as much as before.
LEMMA LinkStays ==
  ASSUME NEW logs \in Logs, NEW sync \in [Node -> Nat], NEW H \in Seq(Op),
         NEW logs2 \in Logs, NEW sync2 \in [Node -> Nat], NEW H2 \in Seq(Op),
         Advances(logs, sync, H, logs2, sync2, H2),
         \A j \in 1 .. Len(H) : H[j] \in Durable(logs, sync),
         NEW c \in Client, NEW k \in LinkRecord,
         LinkSound(c, k, logs, sync, H),
         k.pc = "staged" =>
            \A o \in Node : o # c => Len(logs2[c][o]) <= Len(logs[c][o])
  PROVE  LinkSound(c, k, logs2, sync2, H2)
<1>1. c \in Node /\ Server \in Node /\ c # Server
  BY ReplicationAssumption DEF Node
<1>2. k.last \in Nat /\ k.pushed \in Nat /\ k.ops \in Seq(Op)
  BY DEF LinkRecord
<1>3. k.last + Len(k.ops) \in Nat /\ Len(k.ops) \in Nat
  BY <1>2
<1>4. Within(H2, logs2[c], k.last)
  BY <1>1, <1>2, WithinStays DEF LinkSound
<1>5. k.pushed <= Len(logs2[Server][c])
  <2>1. k.pushed <= Len(logs[Server][c])
        /\ Len(logs[Server][c]) <= Len(logs2[Server][c])
    BY <1>1 DEF LinkSound, Advances
  <2>2. Len(logs[Server][c]) \in Nat /\ Len(logs2[Server][c]) \in Nat
    BY <1>1 DEF Logs
  <2> QED BY <1>2, <2>1, <2>2
<1>6. ASSUME k.pc \in {"page", "applied"} PROVE Paged(k, H2)
  <2>1. Paged(k, H)
    BY <1>6 DEF LinkSound
  <2>2. Len(H) \in Nat /\ Len(H2) \in Nat /\ Len(H) <= Len(H2)
        /\ \A j \in 1 .. Len(H) : H2[j] = H[j]
    BY DEF Advances
  <2>3. k.last + Len(k.ops) <= Len(H) /\ k.last + Len(k.ops) <= Len(H2)
    BY <1>3, <2>1, <2>2 DEF Paged
  <2>4. \A i \in 1 .. Len(k.ops) : k.last + i \in 1 .. Len(H)
    BY <1>2, <1>3, <2>2, <2>3
  <2>5. \A i \in 1 .. Len(k.ops) : k.ops[i] = H2[k.last + i]
    BY <2>1, <2>2, <2>4 DEF Paged
  <2> QED BY <2>3, <2>5 DEF Paged
<1>7. ASSUME k.pc = "applied" PROVE Within(H2, logs2[c], k.last + Len(k.ops))
  <2> DEFINE end == k.last + Len(k.ops)
  <2>1. end \in Nat /\ Within(H, logs[c], end)
    BY <1>3, <1>7 DEF LinkSound
  <2> HIDE DEF end
  <2>2. Within(H2, logs2[c], end)
    BY <1>1, <2>1, WithinStays
  <2> QED BY <2>2 DEF end
<1>8. ASSUME k.pc = "staged" PROVE Staged(c, k.snap, logs2, sync2, H2)
  <2> DEFINE snap == k.snap
  <2>1. Staged(c, snap, logs, sync, H)
    BY <1>8 DEF LinkSound
  <2> HIDE DEF snap
  <2>2. /\ snap \in Snapshot /\ snap.ahead = {} /\ snap.last \in Nat
        /\ snap.log \in [Node -> Seq(Id)]
    BY <2>1 DEF Staged, Snapshot
  <2>3. Within(H2, snap.log, snap.last)
    BY <2>1, <2>2, CopyWithinStays DEF Staged
  <2>4. ASSUME NEW o \in Node
        PROVE  /\ Copied(snap.log[o], o, logs2, sync2)
               /\ Len(snap.log[o]) <= Len(logs2[Server][o])
               /\ o # c => Len(logs2[c][o]) <= Len(snap.log[o])
    <3>1. /\ Copied(snap.log[o], o, logs, sync)
          /\ Len(snap.log[o]) <= Len(logs[Server][o])
          /\ o # c => Len(logs[c][o]) <= Len(snap.log[o])
      <4>1. \A p \in Node : /\ Copied(snap.log[p], p, logs, sync)
                            /\ Len(snap.log[p]) <= Len(logs[Server][p])
                            /\ p # c => Len(logs[c][p]) <= Len(snap.log[p])
        BY ONLY <2>1 DEF Staged
      <4> QED BY ONLY <4>1, o \in Node
    <3>2. snap.log[o] \in Seq(Id)
      BY <2>2
    <3>3. Copied(snap.log[o], o, logs2, sync2)
      BY <3>1, <3>2, CopiedStays
    <3>4. /\ Len(snap.log[o]) \in Nat /\ Len(logs[Server][o]) \in Nat
          /\ Len(logs2[Server][o]) \in Nat /\ Len(logs[c][o]) \in Nat
          /\ Len(logs2[c][o]) \in Nat
      BY <1>1, <3>2, LogsHave
    <3>5. Len(snap.log[o]) <= Len(logs2[Server][o])
      <4>1. CASE o = Server
        BY <3>3, <4>1 DEF Copied, Prefix
      <4>2. CASE o # Server
        <5>1. Len(logs[Server][o]) <= Len(logs2[Server][o])
          BY <1>1, <4>2 DEF Advances
        <5> QED BY <3>1, <3>4, <5>1, AtMost, Zenon
      <4> QED BY <4>1, <4>2
    <3>6. o # c => Len(logs2[c][o]) <= Len(snap.log[o])
      <4>1. o # c => Len(logs2[c][o]) <= Len(logs[c][o])
        BY <1>8
      <4> QED BY <3>1, <3>4, <4>1, AtMost, Zenon
    <3> QED BY <3>3, <3>5, <3>6
  <2>5. Staged(c, snap, logs2, sync2, H2)
    BY <2>2, <2>3, <2>4 DEF Staged
  <2> QED BY <2>5 DEF snap
<1> QED BY <1>4, <1>5, <1>6, <1>7, <1>8 DEF LinkSound

LEMMA StrayStays ==
  ASSUME NEW logs \in Logs, NEW sync \in [Node -> Nat], NEW H \in Seq(Op),
         NEW logs2 \in Logs, NEW sync2 \in [Node -> Nat], NEW H2 \in Seq(Op),
         Advances(logs, sync, H, logs2, sync2, H2),
         \A j \in 1 .. Len(H) : H[j] \in Durable(logs, sync),
         NEW r, r.client \in Client,
         "after" \in DOMAIN r => r.after \in Nat,
         StraySound(r, logs, sync, H)
  PROVE  StraySound(r, logs2, sync2, H2)
<1>1. r.client \in Node /\ Server \in Node /\ r.client # Server
  BY ReplicationAssumption DEF Node
<1>2. "after" \in DOMAIN r => Within(H2, logs2[r.client], r.after)
  BY <1>1, WithinStays DEF StraySound
<1>3. ASSUME "push" \in DOMAIN r
      PROVE  /\ Batch(r.push) \subseteq Durable(logs2, sync2)
             /\ \A op \in Batch(r.push) : op.node = r.client
             /\ Fits(logs2[Server], Batch(r.push))
  <2> DEFINE S == Batch(r.push)
  <2>1. /\ S \subseteq Durable(logs, sync)
        /\ \A op \in S : op.node = r.client
        /\ Fits(logs[Server], S)
    BY <1>3 DEF StraySound
  <2> HIDE DEF S
  <2>2. S \subseteq Durable(logs2, sync2)
    BY <2>1, DurableStays
  <2>3. ASSUME NEW op \in S, NEW i \in Len(logs2[Server][op.node]) + 1 .. op.seq
        PROVE  \E q \in S : q.node = op.node /\ q.seq = i
    <3>1. op.node = r.client /\ op.seq \in Nat
      BY <2>1, DurableHas
    <3>2. /\ Len(logs[Server][op.node]) <= Len(logs2[Server][op.node])
          /\ Len(logs[Server][op.node]) \in Nat
          /\ Len(logs2[Server][op.node]) \in Nat
      <4>1. op.node \in Node /\ Server # op.node
        BY <1>1, <3>1
      <4> QED BY <1>1, <4>1, LogsHave DEF Advances
    <3>3. i \in Len(logs[Server][op.node]) + 1 .. op.seq
      BY <3>1, <3>2
    <3> QED BY <2>1, <3>3 DEF Fits
  <2>4. Fits(logs2[Server], S)
    BY <2>3 DEF Fits
  <2> QED BY <2>1, <2>2, <2>4 DEF S
<1> QED BY <1>2, <1>3 DEF StraySound

-----------------------------------------------------------------------------
(* Steps.                                                                  *)

\* A step that advances keeps what it does not say anything new about.
LEMMA Concludes ==
  ASSUME ReplicationInv,
         ReplicationTyped', Dated', Copies', HubSound',
         Advances(log, synced, hub.ops, log', synced', hub'.ops),
         \A c \in Client :
            \/ file'[c] = file[c]
            \/ Within(hub'.ops, log'[c], file'[c]),
         \A c \in Client :
            \/ registry'[c].cursor = registry[c].cursor
            \/ Within(hub'.ops, log'[c], registry'[c].cursor),
         \A l \in Link :
            \/ LinkSound(l[1], link'[l], log', synced', hub'.ops)
            \/ /\ link'[l] = link[l]
               /\ link[l].pc = "staged" =>
                     \A o \in Node : o # l[1] =>
                        Len(log'[l[1]][o]) <= Len(log[l[1]][o]),
         \A r \in strays' :
            r \in strays \/ StraySound(r, log', synced', hub'.ops)
  PROVE  ReplicationInv'
<1>1. /\ log \in Logs /\ log' \in Logs
      /\ synced \in [Node -> Nat] /\ synced' \in [Node -> Nat]
      /\ hub.ops \in Seq(Op) /\ hub'.ops \in Seq(Op)
      /\ \A j \in 1 .. Len(hub.ops) : hub.ops[j] \in Durable(log, synced)
  BY DEF ReplicationInv, ReplicationTyped, Logs, HubSound
<1>2. \A c \in Client : c \in Node
  BY DEF Node
<1>3. ASSUME NEW c \in Client
      PROVE  /\ Within(hub'.ops, log'[c], file'[c])
             /\ Within(hub'.ops, log'[c], registry'[c].cursor)
  <2>1. file[c] \in Nat /\ registry[c].cursor \in Nat
    BY DEF ReplicationInv, ReplicationTyped
  <2>2. Within(hub.ops, log[c], file[c])
        /\ Within(hub.ops, log[c], registry[c].cursor)
    BY DEF ReplicationInv, CursorsSound
  <2>3. ASSUME NEW i \in Nat, Within(hub.ops, log[c], i)
        PROVE  Within(hub'.ops, log'[c], i)
    BY ONLY <1>1, <1>2, <2>3, c \in Client, i \in Nat, WithinStays,
            Advances(log, synced, hub.ops, log', synced', hub'.ops)
  <2>4. Within(hub'.ops, log'[c], file[c])
        /\ Within(hub'.ops, log'[c], registry[c].cursor)
    BY <2>1, <2>2, <2>3
  <2> QED BY <2>4
<1>4. ASSUME NEW l \in Link
      PROVE  LinkSound(l[1], link'[l], log', synced', hub'.ops)
  <2>1. l[1] \in Client /\ link[l] \in LinkRecord
    BY DEF ReplicationInv, ReplicationTyped, Link
  <2>2. LinkSound(l[1], link[l], log, synced, hub.ops)
    BY DEF ReplicationInv, CursorsSound
  <2>3. CASE /\ link'[l] = link[l]
             /\ link[l].pc = "staged" =>
                   \A o \in Node : o # l[1] =>
                      Len(log'[l[1]][o]) <= Len(log[l[1]][o])
    <3>1. LinkSound(l[1], link[l], log', synced', hub'.ops)
      BY ONLY <1>1, <2>1, <2>2, <2>3, LinkStays,
              Advances(log, synced, hub.ops, log', synced', hub'.ops)
    <3> QED BY <2>3, <3>1
  <2> QED BY <2>3
<1>5. ASSUME NEW r \in strays'
      PROVE  StraySound(r, log', synced', hub'.ops)
  <2>1. CASE r \in strays
    <3>1. r.client \in Client /\ ("after" \in DOMAIN r => r.after \in Nat)
      <4>1. r \in [client : Client, push : Seq(Op)]
                     \cup [client : Client, after : Nat]
        BY <2>1 DEF ReplicationInv, ReplicationTyped
      <4>2. CASE r \in [client : Client, push : Seq(Op)]
        BY <4>2
      <4>3. CASE r \in [client : Client, after : Nat]
        BY <4>3
      <4> QED BY <4>1, <4>2, <4>3
    <3>2. StraySound(r, log, synced, hub.ops)
      BY <2>1 DEF ReplicationInv, CursorsSound
    <3> QED BY ONLY <1>1, <3>1, <3>2, StrayStays,
                    Advances(log, synced, hub.ops, log', synced', hub'.ops)
  <2> QED BY <2>1
<1>6. CursorsSound'
  BY <1>3, <1>4, <1>5 DEF CursorsSound
<1> QED BY <1>6 DEF ReplicationInv

\* The logs stay, and more of them may have become durable.
LEMMA SameLogs ==
  ASSUME ReplicationInv, UNCHANGED <<written, log, ahead>>,
         synced' \in [Node -> Nat],
         \A o \in Node : synced[o] <= synced'[o] /\ synced'[o] <= Len(log[o][o]),
         hub'.ops \in Seq(Op), Len(hub.ops) <= Len(hub'.ops),
         \A j \in 1 .. Len(hub.ops) : hub'.ops[j] = hub.ops[j]
  PROVE  /\ Dated' /\ Copies'
         /\ Advances(log, synced, hub.ops, log', synced', hub'.ops)
<1>1. /\ log \in Logs /\ log' \in Logs
      /\ synced \in [Node -> Nat]
  BY DEF ReplicationInv, ReplicationTyped, Logs
<1>2. Advances(log, synced, hub.ops, log', synced', hub'.ops)
  <2>1. ASSUME NEW n \in Node, NEW o \in Node
        PROVE  Len(log[n][o]) <= Len(log'[n][o])
    <3>1. Len(log[n][o]) \in Nat
      BY <1>1, LogsHave
    <3> QED BY <3>1
  <2> QED BY <2>1 DEF Advances
<1>3. Authored' = Authored
  BY DEF Authored, Origins
<1>4. Dated'
  BY <1>3 DEF Dated, ReplicationInv
<1>5. ASSUME NEW n \in Node, NEW o \in Node, n # o
      PROVE  Copied(log'[n][o], o, log', synced')
  <2>1. Copied(log[n][o], o, log, synced) /\ log[n][o] \in Seq(Id)
    BY <1>1, <1>5, LogsHave DEF ReplicationInv, Copies
  <2>2. Copied(log[n][o], o, log', synced')
    BY ONLY <1>1, <1>2, <2>1, n \in Node, o \in Node, CopiedStays,
            synced' \in [Node -> Nat]
  <2> QED BY <2>2
<1>6. Copies'
  BY <1>5 DEF Copies, ReplicationInv
<1> QED BY <1>2, <1>4, <1>6

\* Nothing that nodes hold changes.
LEMMA StillStep ==
  ASSUME ReplicationInv, UNCHANGED <<written, log, ahead, synced>>,
         hub'.ops = hub.ops
  PROVE  /\ Dated' /\ Copies' /\ HubSound'
         /\ Advances(log, synced, hub.ops, log', synced', hub'.ops)
<1>1. synced' \in [Node -> Nat] /\ hub'.ops \in Seq(Op)
      /\ Len(hub'.ops) \in Nat
  BY DEF ReplicationInv, ReplicationTyped
<1>2. \A o \in Node : synced[o] <= synced'[o] /\ synced'[o] <= Len(log[o][o])
  <2>1. \A o \in Node : synced[o] \in Nat /\ synced[o] <= Len(log[o][o])
    BY DEF ReplicationInv, ReplicationTyped, Dated
  <2> QED BY <2>1
<1>3. Len(hub.ops) <= Len(hub'.ops)
      /\ \A j \in 1 .. Len(hub.ops) : hub'.ops[j] = hub.ops[j]
  BY <1>1
<1>4. HubSound'
  BY DEF ReplicationInv, HubSound
<1> QED BY <1>1, <1>2, <1>3, <1>4, SameLogs

\* A copy that comes from the logs of a node, flushed where it is the origin.
LEMMA NodeHolds ==
  ASSUME ReplicationInv, NEW n \in Node, NEW op \in InLog(log[n]),
         NEW sync \in [Node -> Nat], \A o \in Node : synced[o] <= sync[o],
         op.node = n => op.seq <= sync[n]
  PROVE  op \in Durable(log, sync) /\ op \in Authored
<1>1. log \in Logs /\ log[n] \in [Node -> Seq(Id)] /\ synced \in [Node -> Nat]
  BY DEF ReplicationInv, ReplicationTyped, Logs
<1>2. /\ op.node \in Node
      /\ op.seq \in 1 .. Len(log[n][op.node])
      /\ op.id = log[n][op.node][op.seq]
      /\ op = [node |-> op.node, seq |-> op.seq, id |-> op.id]
      /\ op.seq \in Nat
  BY <1>1, InLogHas
<1>3. /\ op.seq <= sync[op.node]
      /\ op.seq \in 1 .. Len(log[op.node][op.node])
      /\ op.id = log[op.node][op.node][op.seq]
  <2>1. CASE op.node = n
    BY <1>2, <2>1
  <2>2. CASE op.node # n
    <3>1. Copied(log[n][op.node], op.node, log, synced)
      BY <1>2, <2>2 DEF ReplicationInv, Copies
    <3>2. /\ Len(log[n][op.node]) \in Nat
          /\ Len(log[op.node][op.node]) \in Nat
          /\ synced[op.node] \in Nat /\ sync[op.node] \in Nat
          /\ synced[op.node] <= sync[op.node]
      BY <1>1, <1>2, LogsHave
    <3>3. /\ Len(log[n][op.node]) <= synced[op.node]
          /\ Len(log[n][op.node]) <= Len(log[op.node][op.node])
          /\ log[n][op.node][op.seq] = log[op.node][op.node][op.seq]
      BY <1>2, <3>1 DEF Copied, Prefix
    <3> QED BY <1>2, <3>2, <3>3
  <2> QED BY <2>1, <2>2
<1>4. op \in Durable(log, sync)
  BY <1>1, <1>2, <1>3, DurableIs
<1>5. Durable(log, sync) \subseteq Authored
  BY DEF Durable, Authored, Origins
<1> QED BY <1>4, <1>5

\* Hub::ingest_journal.
LEMMA IngestStep ==
  ASSUME ReplicationInv, UNCHANGED <<written, log, ahead>>,
         hub'.ops = Ingested(log[Server]),
         synced' = [synced EXCEPT ![Server] = FlushedByIngest(log[Server])]
  PROVE  /\ synced' \in [Node -> Nat]
         /\ synced'[Server] = Len(log[Server][Server])
         /\ hub'.ops \in Seq(Op)
         /\ Dated' /\ Copies' /\ HubSound'
         /\ Advances(log, synced, hub.ops, log', synced', hub'.ops)
<1> DEFINE L == log[Server]
           G == Ingested(L)
<1>1. /\ Server \in Node
      /\ log \in Logs /\ L \in [Node -> Seq(Id)]
      /\ synced \in [Node -> Nat]
      /\ ReplicationTyped /\ Dated /\ Orderly(hub.ops)
      /\ Within(hub.ops, L, Len(hub.ops))
      /\ \A j \in 1 .. Len(hub.ops) : hub.ops[j] \in Durable(log, synced)
  BY DEF ReplicationInv, ReplicationTyped, Logs, HubSound, Node
<1>2. \A j \in 1 .. Len(hub.ops) : hub.ops[j] \in Authored
  BY <1>1 DEF Durable, Authored, Origins
<1>3. \A n, o \in Node : Prefix(log[n][o], log[o][o])
  <2>1. ASSUME NEW n \in Node, NEW o \in Node
        PROVE  Prefix(log[n][o], log[o][o])
    <3>1. CASE n = o
      <4>1. Len(log[o][o]) \in Nat
        BY <1>1, LogsHave
      <4> QED BY <3>1, <4>1 DEF Prefix
    <3>2. CASE n # o
      BY <3>2 DEF ReplicationInv, Copies, Copied
    <3> QED BY <3>1, <3>2
  <2> QED BY <2>1
<1>4. /\ G \in Seq(Op)
      /\ Len(hub.ops) <= Len(G)
      /\ \A j \in 1 .. Len(hub.ops) : G[j] = hub.ops[j]
      /\ Orderly(G)
      /\ \A j \in 1 .. Len(G) : G[j] \in InLog(L)
      /\ \A op \in InLog(L) :
            op \in Unnumbered(L) <=>
               ~ \E j \in 1 .. Len(hub.ops) : hub.ops[j] = op
  <2>1. \A o \in Node : Prefix(L[o], log[o][o])
    BY <1>1, <1>3
  <2> HIDE DEF L, G
  <2> QED BY <1>1, <1>2, <2>1, IngestIs DEF G
<1>5. FlushedByIngest(L) = Len(L[Server])
  <2>0. synced[Server] \in Nat /\ Len(L[Server]) \in Nat
        /\ synced[Server] <= Len(L[Server])
    BY <1>1, LogsHave DEF Dated
  <2>1. CASE \E op \in Unnumbered(L) : op.node = Server
    BY <2>1 DEF FlushedByIngest
  <2>2. CASE ~ \E op \in Unnumbered(L) : op.node = Server
    <3>1. FlushedByIngest(L) = synced[Server]
      BY <2>2 DEF FlushedByIngest
    <3>2. CASE Len(L[Server]) = 0
      BY <2>0, <3>1, <3>2
    <3>3. CASE Len(L[Server]) # 0
      <4> DEFINE m == Len(L[Server])
                 op == [node |-> Server, seq |-> m, id |-> L[Server][m]]
      <4>1. m \in 1 .. Len(L[Server])
        BY <2>0, <3>3
      <4>2. op \in InLog(L) /\ op.node = Server /\ op.seq = m
        <5>1. op \in InLog(L)
          <6> HIDE DEF m, L
          <6> QED BY <1>1, <4>1, InLogHolds
        <5> QED BY <5>1
      <4> HIDE DEF op
      <4>3. op \notin Unnumbered(L)
        BY <2>2, <4>2
      <4>4. PICK j \in 1 .. Len(hub.ops) : hub.ops[j] = op
        BY <1>4, <4>2, <4>3
      <4>5. op \in Durable(log, synced)
        BY <1>1, <4>4
      <4>6. m <= synced[Server]
        BY <1>1, <4>2, <4>5, DurableHas
      <4> QED BY <2>0, <3>1, <4>6
    <3> QED BY <3>2, <3>3
  <2> QED BY <2>1, <2>2
<1>6. Len(L[Server]) \in Nat /\ synced[Server] <= Len(L[Server])
  BY <1>1, LogsHave DEF Dated
<1> HIDE DEF L, G
<1>7. /\ synced' \in [Node -> Nat]
      /\ synced'[Server] = Len(L[Server])
      /\ \A o \in Node : o # Server => synced'[o] = synced[o]
  BY <1>1, <1>5, <1>6 DEF L
<1>8. \A o \in Node : synced[o] <= synced'[o] /\ synced'[o] <= Len(log[o][o])
  <2>1. ASSUME NEW o \in Node
        PROVE  synced[o] <= synced'[o] /\ synced'[o] <= Len(log[o][o])
    <3>1. synced[o] \in Nat /\ synced[o] <= Len(log[o][o])
      BY <1>1 DEF Dated
    <3>2. CASE o = Server
      BY <1>6, <1>7, <3>2 DEF L
    <3>3. CASE o # Server
      BY <1>7, <3>1, <3>3
    <3> QED BY <3>2, <3>3
  <2> QED BY <2>1
<1>9. hub'.ops = G
  BY DEF G, L
<1>10. /\ Dated' /\ Copies'
       /\ Advances(log, synced, hub.ops, log', synced', hub'.ops)
  BY <1>4, <1>7, <1>8, <1>9, SameLogs
<1>11. HubSound'
  <2>1. ASSUME NEW j \in 1 .. Len(G)
        PROVE  G[j] \in Durable(log, synced') /\ G[j].seq <= Len(L[G[j].node])
    <3>1. G[j] \in InLog(log[Server])
      BY <1>4 DEF L
    <3>2. G[j].seq \in 1 .. Len(L[G[j].node]) /\ G[j].seq \in Nat
          /\ G[j].node \in Node
      <4>1. G[j] \in InLog(L)
        BY <1>4
      <4> QED BY <1>1, <4>1, InLogHas
    <3>3. Len(L[G[j].node]) \in Nat
      BY <1>1, <3>2
    <3>4. G[j].seq <= Len(L[G[j].node])
      BY <3>2, <3>3
    <3>5. G[j].node = Server => G[j].seq <= synced'[Server]
      BY <1>7, <3>4
    <3>6. G[j] \in Durable(log, synced')
      BY ONLY <1>1, <1>7, <1>8, <3>1, <3>5, ReplicationInv, NodeHolds
    <3> QED BY <3>4, <3>6
  <2>2. Within(G, L, Len(G))
    <3>1. Len(G) \in Nat
      BY <1>4
    <3> QED BY <2>1, <3>1 DEF Within
  <2>3. Within(hub'.ops, log'[Server], Len(hub'.ops))
    BY <1>9, <2>2 DEF L
  <2>4. \A j \in 1 .. Len(hub'.ops) : hub'.ops[j] \in Durable(log', synced')
    BY <1>9, <2>1
  <2> QED BY <1>4, <1>9, <2>3, <2>4 DEF HubSound
<1> QED BY <1>4, <1>7, <1>9, <1>10, <1>11 DEF L

\* What is asked of a step at a node whose logs stay.
LEMMA Served ==
  ASSUME ReplicationInv, UNCHANGED <<written, log, ahead>>,
         synced' \in [Node -> Nat], Dated', Copies', HubSound',
         Advances(log, synced, hub.ops, log', synced', hub'.ops),
         hub' \in [ops : Seq(Op), floor : Int],
         compacted' \in [Node -> [Node -> Nat]],
         registry' \in [Client -> [cursor : Nat, seen : BOOLEAN]],
         \A c \in Client :
            \/ registry'[c].cursor = registry[c].cursor
            \/ Within(hub.ops, log[c], registry'[c].cursor),
         file' \in [Client -> Nat],
         \A c \in Client :
            file'[c] = file[c] \/ Within(hub.ops, log[c], file'[c]),
         link' \in [Link -> LinkRecord],
         \A l \in Link :
            \/ link'[l] = link[l]
            \/ LinkSound(l[1], link'[l], log, synced', hub'.ops),
         strays' \subseteq [client : Client, push : Seq(Op)]
                             \cup [client : Client, after : Nat],
         \A r \in strays' :
            r \in strays \/ StraySound(r, log, synced', hub'.ops)
  PROVE  ReplicationInv'
<1>1. ReplicationTyped'
  <2>1. ReplicationTyped
    BY DEF ReplicationInv
  <2>2. written' \in Number /\ log' \in [Node -> [Node -> Seq(Id)]]
        /\ ahead' \in [Node -> SUBSET Op]
    BY <2>1 DEF ReplicationTyped
  <2> QED BY <2>2 DEF ReplicationTyped
<1>2. /\ log \in Logs /\ log' \in Logs
      /\ synced \in [Node -> Nat]
      /\ hub.ops \in Seq(Op) /\ hub'.ops \in Seq(Op)
      /\ \A j \in 1 .. Len(hub.ops) : hub.ops[j] \in Durable(log, synced)
  BY <1>1 DEF ReplicationInv, ReplicationTyped, Logs, HubSound
<1>3. ASSUME NEW c \in Client, NEW i \in Nat, Within(hub.ops, log[c], i)
      PROVE  Within(hub'.ops, log'[c], i)
  <2>1. c \in Node
    BY DEF Node
  <2> QED
    BY ONLY <1>2, <1>3, <2>1, i \in Nat, synced' \in [Node -> Nat], WithinStays,
            Advances(log, synced, hub.ops, log', synced', hub'.ops)
<1>4. ASSUME NEW c \in Client
      PROVE  file'[c] = file[c] \/ Within(hub'.ops, log'[c], file'[c])
  <2>1. file'[c] \in Nat
    OBVIOUS
  <2> QED BY <1>3, <2>1
<1>5. ASSUME NEW c \in Client
      PROVE  \/ registry'[c].cursor = registry[c].cursor
             \/ Within(hub'.ops, log'[c], registry'[c].cursor)
  <2>1. registry'[c].cursor \in Nat
    OBVIOUS
  <2> QED BY <1>3, <2>1
<1>6. ASSUME NEW l \in Link
      PROVE  \/ LinkSound(l[1], link'[l], log', synced', hub'.ops)
             \/ /\ link'[l] = link[l]
                /\ link[l].pc = "staged" =>
                      \A o \in Node : o # l[1] =>
                         Len(log'[l[1]][o]) <= Len(log[l[1]][o])
  <2>1. l[1] \in Node
    BY DEF Link, Node
  <2>2. \A o \in Node : Len(log'[l[1]][o]) <= Len(log[l[1]][o])
    BY <1>2, <2>1, LogsHave
  <2> QED BY <2>2
<1>7. \A r \in strays' :
         r \in strays \/ StraySound(r, log', synced', hub'.ops)
  OBVIOUS
<1> QED BY <1>1, <1>4, <1>5, <1>6, <1>7, Concludes

LEMMA NoneTaken ==
  ASSUME NEW H, Len(H) \in Nat, NEW L
  PROVE  Within(H, L, 0)
BY DEF Within

\* A process that gives up, or that was never started, relies on nothing.
LEMMA IdleSound ==
  ASSUME NEW c \in Client, NEW logs \in Logs, NEW sync, NEW H, Len(H) \in Nat
  PROVE  Idle \in LinkRecord /\ LinkSound(c, Idle, logs, sync, H)
<1>1. /\ Idle.pc = "idle" /\ Idle.last = 0 /\ Idle.pushed = 0
      /\ Idle \in LinkRecord
  <2>1. Zero \in [Node -> Nat] /\ <<>> \in Seq(Op)
    BY DEF Zero
  <2> QED BY <2>1 DEF Idle, LinkRecord
<1>2. Within(H, logs[c], Idle.last)
  BY <1>1, NoneTaken
<1>3. c \in Node /\ Server \in Node
  BY DEF Node
<1>4. Len(logs[Server][c]) \in Nat
  BY <1>3, LogsHave
<1>5. Idle.pushed <= Len(logs[Server][c])
  BY <1>1, <1>4
<1> QED BY <1>1, <1>2, <1>5 DEF LinkSound

\* Replicas as sets.
Holds(logs) == [n \in Node |-> InLog(logs[n])]
Keeps(logs, sync) ==
    [n \in Node |-> {op \in InLog(logs[n]) : op.node = n => op.seq <= sync[n]}]

LEMMA SetsAre ==
  /\ Copies => known = Holds(log) /\ kept = Keeps(log, synced)
  /\ Copies' => known' = Holds(log') /\ kept' = Keeps(log', synced')
<1>1. ASSUME Copies PROVE known = Holds(log) /\ kept = Keeps(log, synced)
  <2>1. \A n \in Node : ahead[n] = {}
    BY <1>1 DEF Copies
  <2>2. \A n \in Node : Known(n) = InLog(log[n])
    BY <2>1 DEF Known
  <2> QED BY <2>2 DEF known, kept, Holds, Keeps
<1>2. ASSUME Copies' PROVE known' = Holds(log') /\ kept' = Keeps(log', synced')
  <2>1. \A n \in Node : ahead'[n] = {}
    BY <1>2 DEF Copies
  <2>2. \A n \in Node : Known(n)' = InLog(log'[n])
    BY <2>1 DEF Known, InLog
  <2> QED BY <2>2 DEF known, kept, Holds, Keeps
<1> QED BY <1>1, <1>2

LEMMA SetsStay ==
  ASSUME Copies, Copies', log' = log, synced' = synced
  PROVE  [Abstract!Next]_<<known, kept>>
BY SetsAre

LEMMA SetsFlushed ==
  ASSUME ReplicationTyped, Copies, Copies', log' = log, NEW n \in Node,
         synced' = [synced EXCEPT ![n] = Len(log[n][n])]
  PROVE  [Abstract!Next]_<<known, kept>>
<1>1. known' = known /\ known = Holds(log) /\ kept = Keeps(log, synced)
      /\ kept' = Keeps(log, synced')
  BY SetsAre
<1>2. synced'[n] = Len(log[n][n])
      /\ \A m \in Node : m # n => synced'[m] = synced[m]
  BY DEF ReplicationTyped
<1>3. ASSUME NEW op \in InLog(log[n]), op.node = n PROVE op.seq <= synced'[n]
  <2>1. log[n] \in [Node -> Seq(Id)]
    BY DEF ReplicationTyped
  <2>2. op.seq \in 1 .. Len(log[n][n])
    BY <1>3, <2>1, InLogHas
  <2> QED BY <1>2, <2>2
<1>4. Keeps(log, synced') = [Keeps(log, synced) EXCEPT ![n] = Holds(log)[n]]
  <2>1. ASSUME NEW m \in Node
        PROVE  Keeps(log, synced')[m] =
                  IF m = n THEN Holds(log)[n] ELSE Keeps(log, synced)[m]
    BY <1>2, <1>3 DEF Keeps, Holds
  <2> QED BY <2>1 DEF Keeps
<1>5. Abstract!Flush(n)
  BY <1>1, <1>4 DEF Abstract!Flush
<1> QED BY <1>5 DEF Abstract!Next

-----------------------------------------------------------------------------
(* Steps that leave the logs and the hub alone.                            *)

Moves == /\ ReplicationInv'
         /\ Advances(log, synced, hub.ops, log', synced', hub'.ops)
         /\ [Abstract!Next]_<<known, kept>>

LEMMA StillServed ==
  ASSUME ReplicationInv, UNCHANGED <<written, log, ahead, synced, hub>>,
         compacted' \in [Node -> [Node -> Nat]],
         registry' \in [Client -> [cursor : Nat, seen : BOOLEAN]],
         \A c \in Client : registry'[c].cursor = registry[c].cursor,
         file' \in [Client -> Nat],
         \A c \in Client :
            file'[c] = file[c] \/ Within(hub.ops, log[c], file'[c]),
         link' \in [Link -> LinkRecord],
         \A l \in Link :
            \/ link'[l] = link[l]
            \/ LinkSound(l[1], link'[l], log, synced, hub.ops),
         strays' \subseteq [client : Client, push : Seq(Op)]
                             \cup [client : Client, after : Nat],
         \A r \in strays' :
            r \in strays \/ StraySound(r, log, synced, hub.ops)
  PROVE  Moves
<1>1. hub'.ops = hub.ops /\ hub' \in [ops : Seq(Op), floor : Int]
      /\ synced' \in [Node -> Nat] /\ synced' = synced
  BY DEF ReplicationInv, ReplicationTyped
<1>2. /\ Dated' /\ Copies' /\ HubSound'
      /\ Advances(log, synced, hub.ops, log', synced', hub'.ops)
  BY <1>1, StillStep
<1>3. \A l \in Link :
         \/ link'[l] = link[l]
         \/ LinkSound(l[1], link'[l], log, synced', hub.ops)
  BY <1>1
<1>4. ReplicationInv'
  BY <1>1, <1>2, <1>3, Served
<1>5. [Abstract!Next]_<<known, kept>>
  BY <1>1, <1>2, SetsStay DEF ReplicationInv
<1> QED BY <1>2, <1>4, <1>5 DEF Moves

\* What every step has to start from.
LEMMA Bases ==
  ASSUME ReplicationInv
  PROVE  /\ log \in Logs
         /\ log \in [Node -> [Node -> Seq(Id)]]
         /\ synced \in [Node -> Nat]
         /\ compacted \in [Node -> [Node -> Nat]]
         /\ hub \in [ops : Seq(Op), floor : Int]
         /\ hub.ops \in Seq(Op) /\ Len(hub.ops) \in Nat
         /\ registry \in [Client -> [cursor : Nat, seen : BOOLEAN]]
         /\ file \in [Client -> Nat]
         /\ link \in [Link -> LinkRecord]
         /\ strays \subseteq [client : Client, push : Seq(Op)]
                               \cup [client : Client, after : Nat]
         /\ Client \subseteq Node /\ Server \in Node /\ Server \notin Client
         /\ \A l \in Link : l[1] \in Client /\ l[1] \in Node /\ l[1] # Server
         /\ \A c \in Client : /\ Within(hub.ops, log[c], file[c])
                              /\ Within(hub.ops, log[c], registry[c].cursor)
         /\ \A l \in Link : LinkSound(l[1], link[l], log, synced, hub.ops)
<1>1. /\ log \in [Node -> [Node -> Seq(Id)]]
      /\ synced \in [Node -> Nat]
      /\ compacted \in [Node -> [Node -> Nat]]
      /\ hub \in [ops : Seq(Op), floor : Int]
      /\ registry \in [Client -> [cursor : Nat, seen : BOOLEAN]]
      /\ file \in [Client -> Nat]
      /\ link \in [Link -> LinkRecord]
      /\ strays \subseteq [client : Client, push : Seq(Op)]
                            \cup [client : Client, after : Nat]
  BY DEF ReplicationInv, ReplicationTyped
<1>2. hub.ops \in Seq(Op) /\ Len(hub.ops) \in Nat
  BY <1>1
<1>3. Client \subseteq Node /\ Server \in Node /\ Server \notin Client
  BY ReplicationAssumption DEF Node
<1>4. \A l \in Link : l[1] \in Client
  BY DEF Link
<1>5. \A l \in Link : l[1] \in Node /\ l[1] # Server
  BY <1>3, <1>4
<1>6. /\ \A c \in Client : /\ Within(hub.ops, log[c], file[c])
                           /\ Within(hub.ops, log[c], registry[c].cursor)
      /\ \A l \in Link : LinkSound(l[1], link[l], log, synced, hub.ops)
  BY DEF ReplicationInv, CursorsSound
<1> QED BY <1>1, <1>2, <1>3, <1>4, <1>5, <1>6 DEF Logs

LEMMA LinkHas ==
  ASSUME ReplicationInv, NEW l \in Link
  PROVE  /\ link[l].last \in Nat /\ link[l].pushed \in Nat
         /\ link[l].ops \in Seq(Op) /\ Len(link[l].ops) \in Nat
         /\ link[l].live \in BOOLEAN /\ link[l].stable \in [Node -> Nat]
         /\ Within(hub.ops, log[l[1]], link[l].last)
         /\ link[l].pushed <= Len(log[Server][l[1]])
         /\ link[l] \in LinkRecord
<1>1. link[l] \in LinkRecord /\ LinkSound(l[1], link[l], log, synced, hub.ops)
  BY Bases
<1>2. /\ link[l].last \in Nat /\ link[l].pushed \in Nat
      /\ link[l].ops \in Seq(Op)
      /\ link[l].live \in BOOLEAN /\ link[l].stable \in [Node -> Nat]
  BY <1>1 DEF LinkRecord
<1>3. Len(link[l].ops) \in Nat
  BY <1>2
<1> QED BY <1>1, <1>2, <1>3 DEF LinkSound

\* A process between pages relies on its cursors only.
LEMMA PlainSound ==
  ASSUME NEW c, NEW k, NEW logs, NEW sync, NEW H,
         Within(H, logs[c], k.last), k.pushed <= Len(logs[Server][c]),
         k.pc \notin {"page", "applied", "staged"}
  PROVE  LinkSound(c, k, logs, sync, H)
BY DEF LinkSound

\* GiveUp(l): the others go on.
LEMMA GiveUpIs ==
  ASSUME ReplicationInv, NEW l \in Link, link' = GiveUp(l)
  PROVE  /\ link' \in [Link -> LinkRecord]
         /\ link'[l] = Idle
         /\ \A m \in Link : m # l => link'[m] = link[m]
         /\ \A m \in Link :
               \/ link'[m] = link[m]
               \/ LinkSound(m[1], link'[m], log, synced, hub.ops)
<1>1. link \in [Link -> LinkRecord] /\ log \in Logs /\ Len(hub.ops) \in Nat
      /\ l[1] \in Client
  BY Bases
<1>2. Idle \in LinkRecord /\ LinkSound(l[1], Idle, log, synced, hub.ops)
  BY <1>1, IdleSound
<1>3. link' = [link EXCEPT ![l] = Idle]
  BY DEF GiveUp
<1> HIDE DEF GiveUp
<1>4. link'[l] = Idle /\ \A m \in Link : m # l => link'[m] = link[m]
  BY <1>1, <1>3
<1> QED BY <1>1, <1>2, <1>3, <1>4

LEMMA BreakMoves ==
  ASSUME ReplicationInv, NEW l \in Link, Break(l)
  PROVE  Moves
<1>1. /\ link' = GiveUp(l)
      /\ UNCHANGED <<written, log, ahead, synced, compacted, hub, registry,
                     file, strays>>
  BY DEF Break, replicas
<1>2. /\ link' \in [Link -> LinkRecord]
      /\ \A m \in Link :
            \/ link'[m] = link[m]
            \/ LinkSound(m[1], link'[m], log, synced, hub.ops)
  BY <1>1, GiveUpIs
<1> QED BY <1>1, <1>2, Bases, StillServed

LEMMA FinishMoves ==
  ASSUME ReplicationInv, NEW l \in Link, Finish(l)
  PROVE  Moves
<1>1. /\ link' = GiveUp(l)
      /\ UNCHANGED <<written, log, ahead, synced, compacted, hub, registry,
                     file, strays>>
  BY DEF Finish, replicas
<1>2. /\ link' \in [Link -> LinkRecord]
      /\ \A m \in Link :
            \/ link'[m] = link[m]
            \/ LinkSound(m[1], link'[m], log, synced, hub.ops)
  BY <1>1, GiveUpIs
<1> QED BY <1>1, <1>2, Bases, StillServed

LEMMA QuietMoves ==
  ASSUME ReplicationInv, NEW c \in Client, Quiet(c)
  PROVE  Moves
<1>1. /\ registry' = [registry EXCEPT ![c].seen = FALSE]
      /\ UNCHANGED <<written, log, ahead, synced, compacted, hub, link,
                     file, strays>>
  BY DEF Quiet, replicas
<1>2. registry \in [Client -> [cursor : Nat, seen : BOOLEAN]]
  BY Bases
<1>3. /\ registry' \in [Client -> [cursor : Nat, seen : BOOLEAN]]
      /\ \A d \in Client : registry'[d].cursor = registry[d].cursor
  BY <1>1, <1>2
<1> QED BY <1>1, <1>3, Bases, StillServed

\* Only where the process stands changes.
LEMMA PcMoves ==
  ASSUME ReplicationInv, NEW l \in Link,
         NEW pc \in {"push", "live", "pull"},
         link' = [link EXCEPT ![l].pc = pc]
  PROVE  /\ link' \in [Link -> LinkRecord]
         /\ \A m \in Link :
               \/ link'[m] = link[m]
               \/ LinkSound(m[1], link'[m], log, synced, hub.ops)
<1> DEFINE k == [link[l] EXCEPT !.pc = pc]
<1>1. link \in [Link -> LinkRecord] /\ link[l] \in LinkRecord
  BY Bases
<1>2. k \in LinkRecord /\ k.last = link[l].last /\ k.pushed = link[l].pushed
      /\ k.pc = pc
  BY <1>1 DEF LinkRecord
<1>3. link' = [link EXCEPT ![l] = k]
  OBVIOUS
<1> HIDE DEF k
<1>4. link' \in [Link -> LinkRecord] /\ link'[l] = k
      /\ \A m \in Link : m # l => link'[m] = link[m]
  BY <1>1, <1>2, <1>3
<1>5. LinkSound(l[1], k, log, synced, hub.ops)
  BY <1>2, LinkHas, PlainSound
<1> QED BY <1>4, <1>5

LEMMA PushNothingMoves ==
  ASSUME ReplicationInv, NEW l \in Link, PushNothing(l)
  PROVE  Moves
<1>1. /\ \/ link' = GiveUp(l)
         \/ link' = [link EXCEPT ![l].pc =
                        IF link[l].live THEN "live" ELSE "pull"]
      /\ UNCHANGED <<written, log, ahead, synced, compacted, hub, registry,
                     file, strays>>
  BY DEF PushNothing, replicas
<1>2. (IF link[l].live THEN "live" ELSE "pull") \in {"push", "live", "pull"}
  OBVIOUS
<1>3. /\ link' \in [Link -> LinkRecord]
      /\ \A m \in Link :
            \/ link'[m] = link[m]
            \/ LinkSound(m[1], link'[m], log, synced, hub.ops)
  BY <1>1, <1>2, GiveUpIs, PcMoves
<1> QED BY <1>1, <1>3, Bases, StillServed

LEMMA PushLiveMoves ==
  ASSUME ReplicationInv, NEW l \in Link, PushLive(l)
  PROVE  Moves
<1>1. /\ link' = [link EXCEPT ![l].pc = "push"]
      /\ UNCHANGED <<written, log, ahead, synced, compacted, hub, registry,
                     file, strays>>
  BY DEF PushLive, replicas
<1>2. /\ link' \in [Link -> LinkRecord]
      /\ \A m \in Link :
            \/ link'[m] = link[m]
            \/ LinkSound(m[1], link'[m], log, synced, hub.ops)
  BY <1>1, PcMoves
<1> QED BY <1>1, <1>2, Bases, StillServed

LEMMA ReloadMoves ==
  ASSUME ReplicationInv, NEW l \in Link, Reload(l)
  PROVE  Moves
<1> DEFINE k == [link[l] EXCEPT !.pc = "pull", !.last = file[l[1]]]
<1>1. /\ link' = [link EXCEPT ![l].pc = "pull", ![l].last = file[l[1]]]
      /\ UNCHANGED <<written, log, ahead, synced, compacted, hub, registry,
                     file, strays>>
  BY DEF Reload, replicas
<1>2. link \in [Link -> LinkRecord] /\ link[l] \in LinkRecord
      /\ file[l[1]] \in Nat /\ Within(hub.ops, log[l[1]], file[l[1]])
  BY Bases
<1>3. k \in LinkRecord /\ k.last = file[l[1]] /\ k.pushed = link[l].pushed
      /\ k.pc = "pull"
  BY <1>2 DEF LinkRecord
<1>4. link' = [link EXCEPT ![l] = k]
  BY <1>1, <1>2
<1> HIDE DEF k
<1>5. link' \in [Link -> LinkRecord] /\ link'[l] = k
      /\ \A m \in Link : m # l => link'[m] = link[m]
  BY <1>2, <1>3, <1>4
<1>6. LinkSound(l[1], k, log, synced, hub.ops)
  BY <1>2, <1>3, LinkHas, PlainSound
<1>7. \A m \in Link : \/ link'[m] = link[m]
                      \/ LinkSound(m[1], link'[m], log, synced, hub.ops)
  BY <1>5, <1>6
<1> QED BY <1>1, <1>5, <1>7, Bases, StillServed

LEMMA SaveCursorMoves ==
  ASSUME ReplicationInv, NEW l \in Link, SaveCursor(l)
  PROVE  Moves
<1> DEFINE last == link[l].last + Len(link[l].ops)
           k == [link[l] EXCEPT !.pc = IF link[l].live THEN "live" ELSE "prune",
                                !.last = last, !.ops = <<>>]
<1>1. /\ link[l].pc = "applied"
      /\ file' = [file EXCEPT ![l[1]] = last]
      /\ link' = [link EXCEPT ![l].pc = IF link[l].live THEN "live" ELSE "prune",
                              ![l].last = last, ![l].ops = <<>>]
      /\ UNCHANGED <<written, log, ahead, synced, compacted, hub, registry,
                     strays>>
  BY DEF SaveCursor, At, replicas
<1>2. /\ link \in [Link -> LinkRecord] /\ link[l] \in LinkRecord
      /\ file \in [Client -> Nat] /\ l[1] \in Client
      /\ Within(hub.ops, log[l[1]], last)
  BY <1>1, Bases DEF LinkSound
<1>3. last \in Nat
  BY LinkHas
<1> HIDE DEF last
<1>4. k \in LinkRecord /\ k.last = last /\ k.pushed = link[l].pushed
      /\ k.pc \in {"live", "prune"}
  <2>1. <<>> \in Seq(Op)
    OBVIOUS
  <2> QED BY <1>2, <1>3, <2>1 DEF LinkRecord
<1>5. link' = [link EXCEPT ![l] = k]
  BY <1>1, <1>2
<1> HIDE DEF k
<1>6. link' \in [Link -> LinkRecord] /\ link'[l] = k
      /\ \A m \in Link : m # l => link'[m] = link[m]
  BY <1>2, <1>4, <1>5
<1>7. LinkSound(l[1], k, log, synced, hub.ops)
  BY <1>2, <1>4, LinkHas, PlainSound
<1>8. \A m \in Link : \/ link'[m] = link[m]
                      \/ LinkSound(m[1], link'[m], log, synced, hub.ops)
  BY <1>6, <1>7
<1>9. /\ file' \in [Client -> Nat]
      /\ \A c \in Client : file'[c] = file[c] \/ Within(hub.ops, log[c], file'[c])
  BY <1>1, <1>2, <1>3
<1> QED BY <1>1, <1>6, <1>8, <1>9, Bases, StillServed

LEMMA VectorsAre ==
  /\ \A v, w \in [Node -> Nat] : /\ Most(v, w) \in [Node -> Nat]
                                 /\ Least(v, w) \in [Node -> Nat]
  /\ ReplicationInv => \A n \in Node : VectorOf(log[n]) \in [Node -> Nat]
  /\ Zero \in [Node -> Nat]
<1>1. ASSUME NEW v \in [Node -> Nat], NEW w \in [Node -> Nat]
      PROVE  Most(v, w) \in [Node -> Nat] /\ Least(v, w) \in [Node -> Nat]
  BY DEF Most, Least
<1>2. ASSUME ReplicationInv, NEW n \in Node
      PROVE  VectorOf(log[n]) \in [Node -> Nat]
  <2>1. \A o \in Node : Len(log[n][o]) \in Nat
    BY <1>2, Bases, LogsHave
  <2> QED BY <2>1 DEF VectorOf
<1> QED BY <1>1, <1>2 DEF Zero

LEMMA PruneMoves ==
  ASSUME ReplicationInv, NEW l \in Link, Prune(l)
  PROVE  Moves
<1> DEFINE c == l[1]
           k == [link[l] EXCEPT !.pc = "open", !.stable = Zero]
<1>1. /\ compacted' = [compacted EXCEPT ![c] =
             Most(@, Least(Receipt(l), VectorOf(log[c])))]
      /\ \/ link' = [link EXCEPT ![l].pc = "open", ![l].stable = Zero]
         \/ link' = GiveUp(l)
      /\ UNCHANGED <<written, log, ahead, synced, hub, registry, file, strays>>
  BY DEF Prune
<1>2. /\ link \in [Link -> LinkRecord] /\ link[l] \in LinkRecord
      /\ compacted \in [Node -> [Node -> Nat]] /\ c \in Node
  BY Bases
<1>3. compacted' \in [Node -> [Node -> Nat]]
  <2> DEFINE v == VectorOf(log[c])
  <2>1. v \in [Node -> Nat] /\ link[l].pushed \in Nat
        /\ link[l].stable \in [Node -> Nat]
    BY <1>2, VectorsAre, LinkHas
  <2> DEFINE w == [v EXCEPT ![c] = link[l].pushed]
  <2>2. Receipt(l) = Least(w, link[l].stable)
    BY DEF Receipt
  <2> HIDE DEF v, c
  <2>3. w \in [Node -> Nat]
    BY <2>1
  <2> HIDE DEF w
  <2>4. Receipt(l) \in [Node -> Nat]
    BY <2>1, <2>2, <2>3, VectorsAre
  <2>5. compacted[c] \in [Node -> Nat]
    BY <1>2
  <2>6. Most(compacted[c], Least(Receipt(l), v)) \in [Node -> Nat]
    BY <2>1, <2>4, <2>5, VectorsAre
  <2>7. compacted' = [compacted EXCEPT ![c] =
                         Most(compacted[c], Least(Receipt(l), v))]
    BY <1>1 DEF v
  <2> QED BY <1>2, <2>6, <2>7
<1>4. k \in LinkRecord /\ k.last = link[l].last /\ k.pushed = link[l].pushed
      /\ k.pc = "open"
  BY <1>2, VectorsAre DEF LinkRecord
<1>5. LinkSound(c, k, log, synced, hub.ops)
  <2> HIDE DEF k
  <2> QED BY <1>4, LinkHas, PlainSound
<1>6. /\ link' \in [Link -> LinkRecord]
      /\ \A m \in Link : \/ link'[m] = link[m]
                         \/ LinkSound(m[1], link'[m], log, synced, hub.ops)
  <2>1. CASE link' = GiveUp(l)
    BY <2>1, GiveUpIs
  <2>2. CASE link' = [link EXCEPT ![l].pc = "open", ![l].stable = Zero]
    <3>1. link' = [link EXCEPT ![l] = k]
      BY <1>2, <2>2
    <3> HIDE DEF k
    <3>2. link' \in [Link -> LinkRecord] /\ link'[l] = k
          /\ \A m \in Link : m # l => link'[m] = link[m]
      BY <1>2, <1>4, <3>1
    <3> QED BY <1>5, <3>2
  <2> QED BY <1>1, <2>1, <2>2
<1> QED BY <1>1, <1>3, <1>6, Bases, StillServed

\* Of two prefixes of one log the shorter is a prefix of the longer.
LEMMA ShorterPrefix ==
  ASSUME NEW s \in Seq(Id), NEW t \in Seq(Id), NEW u \in Seq(Id),
         Prefix(s, u), Prefix(t, u), Len(s) <= Len(t)
  PROVE  Prefix(s, t)
<1>1. \A i \in 1 .. Len(s) : s[i] = u[i]
  BY DEF Prefix
<1>2. \A i \in 1 .. Len(s) : t[i] = u[i]
  BY DEF Prefix
<1> QED BY <1>1, <1>2 DEF Prefix

\* A copy is no longer than what it copies.
LEMMA HeadHeld ==
  ASSUME ReplicationInv, NEW n \in Node, NEW o \in Node
  PROVE  /\ log[n][o] \in Seq(Id)
         /\ Len(log[n][o]) \in Nat /\ Len(log[o][o]) \in Nat
         /\ Len(log[n][o]) <= Len(log[o][o])
         /\ Prefix(log[n][o], log[o][o])
<1>1. log[n][o] \in Seq(Id) /\ Len(log[n][o]) \in Nat /\ Len(log[o][o]) \in Nat
  BY Bases, LogsHave
<1>2. CASE n = o
  BY <1>1, <1>2 DEF Prefix
<1>3. CASE n # o
  BY <1>1, <1>3 DEF ReplicationInv, Copies, Copied, Prefix
<1> QED BY <1>1, <1>2, <1>3

\* What a client sends is its own writing, flushed, and follows what the
\* server has.
LEMMA OutboxIs ==
  ASSUME ReplicationInv, NEW l \in Link, NEW sync \in [Node -> Nat],
         sync[l[1]] = Len(log[l[1]][l[1]])
  PROVE  /\ Outbox(l) \in Seq(Op)
         /\ Batch(Outbox(l)) \subseteq Durable(log, sync)
         /\ Batch(Outbox(l)) \subseteq Authored
         /\ \A op \in Batch(Outbox(l)) : op.node = l[1]
         /\ Fits(log[Server], Batch(Outbox(l)))
<1> DEFINE c == l[1]
           p == link[l].pushed
           n == Len(log[c][c])
           out == Outbox(l)
           Item(i) == [node |-> c, seq |-> p + i, id |-> log[c][c][p + i]]
<1>1. /\ c \in Node /\ Server \in Node
      /\ n \in Nat /\ p \in Nat /\ p <= n
      /\ p <= Len(log[Server][c]) /\ Len(log[Server][c]) \in Nat
  <2>1. c \in Node /\ Server \in Node
    BY Bases
  <2>2. /\ Len(log[Server][c]) \in Nat /\ n \in Nat
        /\ Len(log[Server][c]) <= n
    BY <2>1, HeadHeld
  <2>3. p \in Nat /\ p <= Len(log[Server][c])
    BY LinkHas
  <2> HIDE DEF c, n, p
  <2> QED BY <2>1, <2>2, <2>3
<1>2. out = [i \in 1 .. n - p |-> Item(i)]
  BY DEF Outbox
<1> HIDE DEF out
<1>3. ASSUME NEW i \in 1 .. n - p
      PROVE  /\ Item(i) \in Op /\ Item(i) \in Authored
             /\ Item(i) \in Durable(log, sync)
             /\ Item(i).node = c /\ Item(i).seq = p + i
  <2>1. p + i \in 1 .. n
    <3> HIDE DEF n, p
    <3> QED BY <1>1
  <2>2. Item(i) \in Authored /\ Item(i) \in Op
    <3>1. ReplicationTyped /\ Dated
      BY DEF ReplicationInv
    <3> HIDE DEF p
    <3> QED BY <1>1, <2>1, <3>1, AuthoredTyped
  <2>3. Item(i) \in Durable(log, sync)
    <3>1. Item(i).node = c /\ Item(i).seq = p + i
          /\ Item(i).id = log[c][c][p + i]
      OBVIOUS
    <3>2. p + i <= sync[c]
      <4> HIDE DEF p
      <4> QED BY <1>1, <2>1
    <3>3. log \in Logs
      BY Bases
    <3> HIDE DEF p
    <3> QED BY <1>1, <2>1, <3>1, <3>2, <3>3, DurableIs
  <2> QED BY <2>2, <2>3
<1> HIDE DEF Item, n, p, c
<1>4. out \in Seq(Op)
  <2>1. n - p \in Nat
    BY <1>1
  <2>2. out \in [1 .. n - p -> Op]
    BY <1>2, <1>3
  <2> QED BY <2>1, <2>2
<1>5. DOMAIN out = 1 .. n - p /\ \A i \in 1 .. n - p : out[i] = Item(i)
  BY <1>2
<1>6. \A op \in Batch(out) : \E i \in 1 .. n - p : op = Item(i)
  BY <1>5 DEF Batch
<1>7. \A i \in 1 .. n - p : Item(i) \in Batch(out)
  BY <1>5 DEF Batch
<1>8. ASSUME NEW op \in Batch(out), NEW i \in Len(log[Server][op.node]) + 1 .. op.seq
      PROVE  \E q \in Batch(out) : q.node = op.node /\ q.seq = i
  <2>1. PICK j \in 1 .. n - p : op = Item(j)
    BY <1>6
  <2>2. op.node = c /\ op.seq = p + j
    BY <1>3, <2>1
  <2>3. i \in Nat /\ p < i /\ i <= p + j
    BY <1>1, <2>2
  <2>4. i - p \in 1 .. n - p /\ p + (i - p) = i
    BY <1>1, <2>3
  <2>5. Item(i - p).node = c /\ Item(i - p).seq = i
    BY <1>3, <2>4
  <2> QED BY <1>7, <2>2, <2>4, <2>5
<1>9. Fits(log[Server], Batch(out))
  BY <1>8 DEF Fits
<1>10. /\ Batch(out) \subseteq Durable(log, sync)
       /\ Batch(out) \subseteq Authored
       /\ \A op \in Batch(out) : op.node = c
  BY <1>3, <1>6
<1> QED BY <1>4, <1>9, <1>10 DEF out, c

LEMMA AbandonMoves ==
  ASSUME ReplicationInv, NEW l \in Link, Abandon(l)
  PROVE  Moves
<1> DEFINE c == l[1]
<1>1. /\ link' = GiveUp(l)
      /\ UNCHANGED <<written, log, ahead, compacted, hub, registry, file>>
  BY DEF Abandon
<1>2. /\ link' \in [Link -> LinkRecord]
      /\ \A m \in Link :
            \/ link'[m] = link[m]
            \/ LinkSound(m[1], link'[m], log, synced, hub.ops)
  BY <1>1, GiveUpIs
<1>3. c \in Client /\ c \in Node
  BY Bases
<1>4. CASE /\ synced' = [synced EXCEPT ![c] = FlushForPush(c)]
           /\ strays' = strays \cup {[client |-> c, push |-> Outbox(l)]}
  <2> DEFINE r == [client |-> c, push |-> Outbox(l)]
  <2>1. /\ synced' = [synced EXCEPT ![c] = Len(log[c][c])]
        /\ synced \in [Node -> Nat] /\ Len(log[c][c]) \in Nat
    BY <1>3, <1>4, Bases, HeadHeld DEF FlushForPush
  <2>2. /\ synced' \in [Node -> Nat] /\ synced'[c] = Len(log[c][c])
        /\ \A o \in Node : o # c => synced'[o] = synced[o]
    BY <1>3, <2>1
  <2>3. \A o \in Node : synced[o] <= synced'[o] /\ synced'[o] <= Len(log[o][o])
    <3>1. \A o \in Node : synced[o] \in Nat /\ synced[o] <= Len(log[o][o])
      BY <2>1 DEF ReplicationInv, Dated
    <3> QED BY <2>1, <2>2, <3>1
  <2>4. hub'.ops = hub.ops /\ hub'.ops \in Seq(Op) /\ Len(hub.ops) \in Nat
        /\ hub' \in [ops : Seq(Op), floor : Int]
    BY <1>1, Bases
  <2>5. /\ Dated' /\ Copies'
        /\ Advances(log, synced, hub.ops, log', synced', hub'.ops)
    <3>1. /\ Len(hub.ops) <= Len(hub'.ops)
          /\ \A j \in 1 .. Len(hub.ops) : hub'.ops[j] = hub.ops[j]
      BY <2>4
    <3> QED BY <1>1, <2>2, <2>3, <2>4, <3>1, SameLogs
  <2>6. /\ log \in Logs /\ log' \in Logs /\ log' = log
        /\ synced \in [Node -> Nat] /\ hub.ops \in Seq(Op)
    BY <1>1, Bases
  <2>7. HubSound'
    <3>1. Durable(log, synced) \subseteq Durable(log', synced')
      BY <2>2, <2>4, <2>5, <2>6, DurableStays
    <3>2. HubSound
      BY DEF ReplicationInv
    <3> QED BY <2>4, <2>6, <3>1, <3>2 DEF HubSound
  <2>8. /\ r \in [client : Client, push : Seq(Op)]
        /\ StraySound(r, log, synced', hub'.ops)
    <3>1. /\ Outbox(l) \in Seq(Op)
          /\ Batch(Outbox(l)) \subseteq Durable(log, synced')
          /\ \A op \in Batch(Outbox(l)) : op.node = c
          /\ Fits(log[Server], Batch(Outbox(l)))
      BY <2>2, OutboxIs
    <3>2. /\ r.push = Outbox(l) /\ r.client = c
          /\ "after" \notin DOMAIN r
      OBVIOUS
    <3>3. r \in [client : Client, push : Seq(Op)]
      BY <1>3, <3>1
    <3> HIDE DEF r
    <3> QED BY <3>1, <3>2, <3>3 DEF StraySound
  <2>9. \A m \in Link :
           \/ link'[m] = link[m]
           \/ LinkSound(m[1], link'[m], log, synced', hub'.ops)
    <3>1. \A m \in Link : m # l => link'[m] = link[m]
      BY <1>1, GiveUpIs
    <3>2. link'[l] = Idle /\ LinkSound(c, Idle, log, synced', hub'.ops)
      BY <1>1, <1>3, <2>4, <2>6, GiveUpIs, IdleSound
    <3> QED BY <3>1, <3>2
  <2>10. strays' \subseteq [client : Client, push : Seq(Op)]
                             \cup [client : Client, after : Nat]
    <3> HIDE DEF r
    <3> QED BY <1>4, <2>8, Bases DEF r
  <2>11. \A q \in strays' :
            q \in strays \/ StraySound(q, log, synced', hub'.ops)
    BY <1>4, <2>8
  <2>12. ReplicationInv'
    <3> HIDE DEF r, c
    <3> QED BY <1>1, <1>2, <2>2, <2>4, <2>5, <2>7, <2>9, <2>10, <2>11,
               Bases, Served
  <2>13. [Abstract!Next]_<<known, kept>>
    BY <1>3, <2>1, <2>5, <2>6, SetsFlushed DEF ReplicationInv
  <2> QED BY <2>5, <2>12, <2>13 DEF Moves
<1>5. CASE /\ strays' = strays \cup {[client |-> c, after |-> link[l].last]}
           /\ UNCHANGED synced
  <2> DEFINE r == [client |-> c, after |-> link[l].last]
  <2>1. link[l].last \in Nat /\ Within(hub.ops, log[c], link[l].last)
    BY LinkHas
  <2>2. /\ r \in [client : Client, after : Nat]
        /\ StraySound(r, log, synced, hub.ops)
    <3>1. r.after = link[l].last /\ r.client = c /\ "push" \notin DOMAIN r
      OBVIOUS
    <3>2. r \in [client : Client, after : Nat]
      BY <1>3, <2>1
    <3> HIDE DEF r
    <3> QED BY <2>1, <3>1, <3>2 DEF StraySound
  <2>3. /\ strays' \subseteq [client : Client, push : Seq(Op)]
                               \cup [client : Client, after : Nat]
        /\ \A q \in strays' : q \in strays \/ StraySound(q, log, synced, hub.ops)
    <3>1. strays' = strays \cup {r}
      BY <1>5
    <3> HIDE DEF r
    <3> QED BY <2>2, <3>1, Bases
  <2> QED BY <1>1, <1>2, <1>5, <2>3, Bases, StillServed
<1> QED BY <1>4, <1>5 DEF Abandon

-----------------------------------------------------------------------------
(* Requests that the server answers from its hub log.                      *)

\* The cursors of the active clients have a least one.
LEMMA StableTyped ==
  ASSUME NEW H \in Seq(Op),
         NEW reg \in [Client -> [cursor : Nat, seen : BOOLEAN]]
  PROVE  /\ Lowest(H, reg) \in Nat
         /\ StableVector(H, reg) \in [Node -> Nat]
<1> DEFINE T == {reg[c].cursor : c \in Active(reg)}
<1>1. Active(reg) \subseteq Client
  BY DEF Active
<1>2. T \subseteq Nat
  BY <1>1
<1>3. Lowest(H, reg) \in Nat
  <2>1. CASE Active(reg) = {}
    <3>1. Lowest(H, reg) = Len(H)
      BY <2>1 DEF Lowest
    <3> QED BY <3>1
  <2>2. CASE Active(reg) # {}
    <3>1. T # {}
      BY <2>2
    <3>2. \E k \in T : \A t \in T : k <= t
      <4> HIDE DEF T
      <4> QED BY <1>2, <3>1, LeastOne
    <3>3. \E k \in T : \A c \in Active(reg) : k <= reg[c].cursor
      BY <3>2
    <3>4. Lowest(H, reg) =
             CHOOSE k \in T : \A c \in Active(reg) : k <= reg[c].cursor
      BY <2>2 DEF Lowest
    <3>5. Lowest(H, reg) \in T
      <4> HIDE DEF T
      <4> QED BY <3>3, <3>4
    <3> HIDE DEF T
    <3> QED BY <1>2, <3>5
  <2> QED BY <2>1, <2>2
<1>4. ASSUME NEW i \in Nat, NEW o \in Node
      PROVE  Cardinality({j \in 1 .. i : H[j].node = o}) \in Nat
  <2>1. IsFiniteSet(1 .. i)
    BY FS_Interval
  <2>2. IsFiniteSet({j \in 1 .. i : H[j].node = o})
    BY <2>1, FS_Subset
  <2> QED BY <2>2, FS_CardinalityType
<1>5. \A i \in Nat : VectorAt(H, i) \in [Node -> Nat]
  BY <1>4 DEF VectorAt
<1> QED BY <1>3, <1>5 DEF StableVector

\* Within a hub log that grows while no node takes anything in.
LEMMA WithinServed ==
  ASSUME ReplicationInv, UNCHANGED log,
         synced' \in [Node -> Nat], hub'.ops \in Seq(Op),
         Advances(log, synced, hub.ops, log', synced', hub'.ops),
         NEW c \in Client, NEW i \in Nat, Within(hub.ops, log[c], i)
  PROVE  Within(hub'.ops, log[c], i)
BY Bases, CopyWithinStays

\* The hub log after a request, and what the server made durable.
LEMMA IngestHas ==
  ASSUME ReplicationInv, UNCHANGED <<written, log, ahead>>,
         Ingest(log[Server])
  PROVE  /\ hub'.ops = Ingested(log[Server])
         /\ synced' = [synced EXCEPT ![Server] = FlushedByIngest(log[Server])]
         /\ hub' \in [ops : Seq(Op), floor : Int]
         /\ hub'.floor = hub.floor
         /\ hub'.ops \in Seq(Op) /\ Len(hub'.ops) \in Nat
         /\ Len(hub.ops) <= Len(hub'.ops)
         /\ synced' \in [Node -> Nat]
         /\ Advances(log, synced, hub.ops, log', synced', hub'.ops)
<1>1. /\ hub' = [hub EXCEPT !.ops = Ingested(log[Server])]
      /\ synced' = [synced EXCEPT ![Server] = FlushedByIngest(log[Server])]
      /\ hub \in [ops : Seq(Op), floor : Int]
  BY Bases DEF Ingest
<1>2. hub'.ops = Ingested(log[Server]) /\ hub'.floor = hub.floor
  BY <1>1
<1>3. /\ hub'.ops \in Seq(Op) /\ synced' \in [Node -> Nat]
      /\ Advances(log, synced, hub.ops, log', synced', hub'.ops)
  BY <1>1, <1>2, IngestStep
<1>4. hub' \in [ops : Seq(Op), floor : Int]
  BY <1>1, <1>2, <1>3
<1>5. Len(hub'.ops) \in Nat /\ Len(hub.ops) <= Len(hub'.ops)
  BY <1>3 DEF Advances
<1> QED BY <1>1, <1>2, <1>3, <1>4, <1>5

LEMMA IngestMoves ==
  ASSUME ReplicationInv, UNCHANGED <<written, log, ahead>>,
         hub' \in [ops : Seq(Op), floor : Int],
         hub'.ops = Ingested(log[Server]),
         synced' = [synced EXCEPT ![Server] = FlushedByIngest(log[Server])],
         compacted' \in [Node -> [Node -> Nat]],
         registry' \in [Client -> [cursor : Nat, seen : BOOLEAN]],
         \A c \in Client :
            \/ registry'[c].cursor = registry[c].cursor
            \/ Within(hub.ops, log[c], registry'[c].cursor),
         file' \in [Client -> Nat],
         \A c \in Client :
            file'[c] = file[c] \/ Within(hub.ops, log[c], file'[c]),
         link' \in [Link -> LinkRecord],
         \A l \in Link :
            \/ link'[l] = link[l]
            \/ LinkSound(l[1], link'[l], log, synced', hub'.ops),
         strays' \subseteq strays
  PROVE  Moves
<1>1. /\ synced' \in [Node -> Nat]
      /\ synced'[Server] = Len(log[Server][Server])
      /\ Dated' /\ Copies' /\ HubSound'
      /\ Advances(log, synced, hub.ops, log', synced', hub'.ops)
  BY IngestStep
<1>2. strays' \subseteq [client : Client, push : Seq(Op)]
                          \cup [client : Client, after : Nat]
  BY Bases
<1>3. \A r \in strays' :
         r \in strays \/ StraySound(r, log, synced', hub'.ops)
  OBVIOUS
<1>4. ReplicationInv'
  BY ONLY <1>1, <1>2, <1>3, Served, ReplicationInv,
     UNCHANGED <<written, log, ahead>>,
     hub' \in [ops : Seq(Op), floor : Int],
     compacted' \in [Node -> [Node -> Nat]],
     registry' \in [Client -> [cursor : Nat, seen : BOOLEAN]],
     \A c \in Client :
        \/ registry'[c].cursor = registry[c].cursor
        \/ Within(hub.ops, log[c], registry'[c].cursor),
     file' \in [Client -> Nat],
     \A c \in Client :
        file'[c] = file[c] \/ Within(hub.ops, log[c], file'[c]),
     link' \in [Link -> LinkRecord],
     \A l \in Link :
        \/ link'[l] = link[l]
        \/ LinkSound(l[1], link'[l], log, synced', hub'.ops)
<1>5. [Abstract!Next]_<<known, kept>>
  <2>1. Server \in Node /\ synced \in [Node -> Nat]
    BY Bases
  <2>2. synced' = [synced EXCEPT ![Server] = Len(log[Server][Server])]
    BY <1>1, <2>1
  <2> QED BY <1>1, <2>1, <2>2, SetsFlushed DEF ReplicationInv
<1> QED BY <1>1, <1>4, <1>5 DEF Moves

\* What the server writes down of the client that asks.
LEMMA TouchedIs ==
  ASSUME ReplicationInv, NEW c \in Client, registry' = Touched(c)
  PROVE  /\ registry' \in [Client -> [cursor : Nat, seen : BOOLEAN]]
         /\ \A d \in Client : registry'[d].cursor = registry[d].cursor
BY Bases DEF Touched

LEMMA RecordedIs ==
  ASSUME ReplicationInv, NEW c \in Client, NEW after \in Nat,
         Within(hub.ops, log[c], after), registry' = Recorded(c, after)
  PROVE  /\ registry' \in [Client -> [cursor : Nat, seen : BOOLEAN]]
         /\ \A d \in Client :
               \/ registry'[d].cursor = registry[d].cursor
               \/ Within(hub.ops, log[d], registry'[d].cursor)
<1>1. registry \in [Client -> [cursor : Nat, seen : BOOLEAN]]
  BY Bases
<1>2. \/ registry' = registry
      \/ registry' = [registry EXCEPT ![c] = [cursor |-> after, seen |-> TRUE]]
  BY DEF Recorded
<1>3. CASE registry' = [registry EXCEPT ![c] = [cursor |-> after,
                                                seen |-> TRUE]]
  <2>1. registry' \in [Client -> [cursor : Nat, seen : BOOLEAN]]
    BY <1>1, <1>3
  <2>2. registry'[c].cursor = after
        /\ \A d \in Client : d # c => registry'[d] = registry[d]
    BY <1>1, <1>3
  <2> QED BY <2>1, <2>2
<1> QED BY <1>1, <1>2, <1>3

\* Where the process of a client goes after an answer: on as k, or it gives up.
LEMMA AnswerIs ==
  ASSUME ReplicationInv, UNCHANGED <<written, log, ahead>>,
         Ingest(log[Server]), NEW l \in Link, NEW k \in LinkRecord,
         \/ link' = GiveUp(l)
         \/ link' = [link EXCEPT ![l] = k],
         Within(hub.ops, log[l[1]], k.last),
         k.pushed <= Len(log[Server][l[1]]),
         k.pc # "applied",
         k.pc = "page" => Paged(k, hub'.ops),
         k.pc = "staged" =>
            Staged(l[1], k.snap, log, synced', hub'.ops)
  PROVE  /\ link' \in [Link -> LinkRecord]
         /\ \A m \in Link :
               \/ link'[m] = link[m]
               \/ LinkSound(m[1], link'[m], log, synced', hub'.ops)
<1>1. /\ link \in [Link -> LinkRecord] /\ l[1] \in Client /\ log \in Logs
      /\ Len(hub'.ops) \in Nat /\ hub'.ops \in Seq(Op)
      /\ synced' \in [Node -> Nat]
      /\ Advances(log, synced, hub.ops, log', synced', hub'.ops)
  BY Bases, IngestHas
<1>2. Idle \in LinkRecord /\ LinkSound(l[1], Idle, log, synced', hub'.ops)
  BY <1>1, IdleSound
<1>3. LinkSound(l[1], k, log, synced', hub'.ops)
  <2>1. k.last \in Nat
    BY DEF LinkRecord
  <2>2. Within(hub'.ops, log[l[1]], k.last)
    BY <1>1, <2>1, WithinServed
  <2> QED BY <2>2 DEF LinkSound
<1>4. PICK j \in {Idle, k} : link' = [link EXCEPT ![l] = j]
  BY DEF GiveUp
<1>5. j \in LinkRecord /\ LinkSound(l[1], j, log, synced', hub'.ops)
  BY <1>2, <1>3
<1> HIDE DEF Idle
<1>6. /\ link' \in [Link -> LinkRecord] /\ link'[l] = j
      /\ \A m \in Link : m # l => link'[m] = link[m]
  BY <1>1, <1>4, <1>5
<1> QED BY <1>5, <1>6

LEMMA HelloMoves ==
  ASSUME ReplicationInv, NEW l \in Link, Hello(l)
  PROVE  Moves
<1> DEFINE c == l[1]
           head == Len(log[Server][c])
           last == IF file[c] > Len(hub'.ops) THEN 0 ELSE file[c]
           stable == StableVector(hub'.ops, registry')
           k == [link[l] EXCEPT !.pc = "push", !.last = last, !.pushed = head,
                                !.stable = stable]
<1>1. /\ Ingest(log[Server]) /\ registry' = Touched(c)
      /\ UNCHANGED <<written, log, ahead, compacted, strays>>
      /\ \/ UNCHANGED <<file, link>>
         \/ /\ file' = [file EXCEPT ![c] = last]
            /\ link' = [link EXCEPT
                  ![l].pc = "push", ![l].last = last, ![l].pushed = head,
                  ![l].stable = stable]
  BY DEF Hello
<1>2. /\ c \in Client /\ link \in [Link -> LinkRecord] /\ link[l] \in LinkRecord
      /\ file \in [Client -> Nat] /\ Within(hub.ops, log[c], file[c])
      /\ Len(hub.ops) \in Nat /\ head \in Nat
  BY Bases, LogsHave
<1>3. /\ hub' \in [ops : Seq(Op), floor : Int] /\ hub'.ops \in Seq(Op)
      /\ hub'.ops = Ingested(log[Server])
      /\ synced' = [synced EXCEPT ![Server] = FlushedByIngest(log[Server])]
  BY <1>1, IngestHas
<1>4. /\ registry' \in [Client -> [cursor : Nat, seen : BOOLEAN]]
      /\ \A d \in Client : registry'[d].cursor = registry[d].cursor
  BY <1>1, <1>2, TouchedIs
<1>5. last \in Nat /\ Within(hub.ops, log[c], last)
  BY <1>2, NoneTaken
<1>6. stable \in [Node -> Nat]
  BY <1>3, <1>4, StableTyped
<1> HIDE DEF last, stable, head
<1>7. k \in LinkRecord /\ k.last = last /\ k.pushed = head /\ k.pc = "push"
  BY <1>2, <1>5, <1>6 DEF LinkRecord
<1>8. CASE UNCHANGED <<file, link>>
  <2>1. \A m \in Link : link'[m] = link[m]
    BY <1>8
  <2>2. strays' \subseteq strays /\ compacted' \in [Node -> [Node -> Nat]]
        /\ file' \in [Client -> Nat] /\ link' \in [Link -> LinkRecord]
    BY <1>1, <1>8, Bases
  <2> HIDE DEF c
  <2> QED BY <1>1, <1>3, <1>4, <1>8, <2>1, <2>2, IngestMoves
<1>9. CASE /\ file' = [file EXCEPT ![c] = last]
           /\ link' = [link EXCEPT
                 ![l].pc = "push", ![l].last = last, ![l].pushed = head,
                 ![l].stable = stable]
  <2>1. link' = [link EXCEPT ![l] = k]
    BY <1>2, <1>9
  <2>2. k.pushed <= Len(log[Server][c])
    BY <1>2, <1>7 DEF head
  <2> HIDE DEF k
  <2>3. /\ link' \in [Link -> LinkRecord]
        /\ \A m \in Link :
              \/ link'[m] = link[m]
              \/ LinkSound(m[1], link'[m], log, synced', hub'.ops)
    BY <1>1, <1>5, <1>7, <2>1, <2>2, AnswerIs
  <2>4. /\ file' \in [Client -> Nat]
        /\ \A d \in Client :
              file'[d] = file[d] \/ Within(hub.ops, log[d], file'[d])
    BY <1>2, <1>5, <1>9
  <2>5. strays' \subseteq strays /\ compacted' \in [Node -> [Node -> Nat]]
    BY <1>1, Bases
  <2> HIDE DEF c
  <2> QED BY <1>1, <1>3, <1>4, <2>3, <2>4, <2>5, IngestMoves
<1> QED BY <1>1, <1>8, <1>9

\* A page starts at the cursor and ends with the hub log.
LEMMA PageIs ==
  ASSUME NEW H \in Seq(Op), NEW after \in Nat, after <= Len(H)
  PROVE  /\ SubSeq(H, after + 1, Len(H)) \in Seq(Op)
         /\ Len(SubSeq(H, after + 1, Len(H))) = Len(H) - after
         /\ \A i \in 1 .. Len(H) - after :
               SubSeq(H, after + 1, Len(H))[i] = H[after + i]
<1>1. Len(H) \in Nat
  OBVIOUS
<1>2. \A i \in after + 1 .. Len(H) : H[i] \in Op
  BY <1>1
<1> QED BY <1>1, <1>2

\* A request for the page after the cursor of the process.
LEMMA AskedMoves ==
  ASSUME ReplicationInv, NEW l \in Link,
         UNCHANGED <<written, log, ahead, compacted, file, strays>>,
         Ingest(log[Server]),
         \/ registry' = Recorded(l[1], link[l].last)
         \/ registry' = Touched(l[1])
         \/ registry' = registry,
         NEW k \in LinkRecord, k.last = link[l].last, k.pushed = link[l].pushed,
         \/ link' = GiveUp(l)
         \/ link' = [link EXCEPT ![l] = k],
         k.pc \notin {"applied", "staged"},
         k.pc = "page" => Paged(k, hub'.ops)
  PROVE  Moves
<1>1. /\ link' \in [Link -> LinkRecord]
      /\ \A m \in Link :
            \/ link'[m] = link[m]
            \/ LinkSound(m[1], link'[m], log, synced', hub'.ops)
  BY LinkHas, AnswerIs
<1>2. /\ registry' \in [Client -> [cursor : Nat, seen : BOOLEAN]]
      /\ \A d \in Client :
            \/ registry'[d].cursor = registry[d].cursor
            \/ Within(hub.ops, log[d], registry'[d].cursor)
  <2>1. l[1] \in Client
    BY Bases
  <2>2. CASE registry' = Recorded(l[1], link[l].last)
    BY <2>1, <2>2, LinkHas, RecordedIs
  <2>3. CASE registry' = Touched(l[1])
    BY <2>1, <2>3, TouchedIs
  <2>4. CASE registry' = registry
    BY <2>4, Bases
  <2> QED BY <2>2, <2>3, <2>4
<1>3. /\ hub' \in [ops : Seq(Op), floor : Int]
      /\ hub'.ops = Ingested(log[Server])
      /\ synced' = [synced EXCEPT ![Server] = FlushedByIngest(log[Server])]
  BY IngestHas
<1>4. strays' \subseteq strays /\ compacted' \in [Node -> [Node -> Nat]]
      /\ file' \in [Client -> Nat] /\ \A d \in Client : file'[d] = file[d]
  BY Bases
<1> QED BY <1>1, <1>2, <1>3, <1>4, IngestMoves

LEMMA OpenStreamMoves ==
  ASSUME ReplicationInv, NEW l \in Link, OpenStream(l)
  PROVE  Moves
<1> DEFINE k == [link[l] EXCEPT !.pc = "live", !.live = TRUE]
<1>1. /\ UNCHANGED <<written, log, ahead, compacted, file, strays>>
      /\ Ingest(log[Server])
      /\ registry' = Recorded(l[1], link[l].last)
      /\ \/ link' = GiveUp(l)
         \/ link' = [link EXCEPT ![l].pc = "live", ![l].live = TRUE]
  BY DEF OpenStream
<1>2. link \in [Link -> LinkRecord] /\ link[l] \in LinkRecord
  BY Bases
<1>3. k \in LinkRecord /\ k.last = link[l].last /\ k.pushed = link[l].pushed
      /\ k.pc = "live"
  BY <1>2 DEF LinkRecord
<1>4. \/ link' = GiveUp(l)
      \/ link' = [link EXCEPT ![l] = k]
  BY <1>1, <1>2
<1> HIDE DEF k
<1> QED BY <1>1, <1>3, <1>4, AskedMoves

\* The page a process is given.
LEMMA PagedIs ==
  ASSUME ReplicationInv, NEW l \in Link, UNCHANGED <<written, log, ahead>>,
         Ingest(log[Server]), InReach(link[l].last),
         link' = [link EXCEPT ![l].pc = "page", ![l].ops = Page(link[l].last)]
  PROVE  \E k \in LinkRecord :
            /\ k.last = link[l].last /\ k.pushed = link[l].pushed
            /\ k.pc = "page"
            /\ Paged(k, hub'.ops)
            /\ link' = [link EXCEPT ![l] = k]
<1> DEFINE last == link[l].last
           H == hub'.ops
           page == SubSeq(H, last + 1, Len(H))
           k == [link[l] EXCEPT !.pc = "page", !.ops = page]
<1>1. link \in [Link -> LinkRecord] /\ link[l] \in LinkRecord
  BY Bases
<1>2. H \in Seq(Op) /\ Len(H) \in Nat /\ H = Ingested(log[Server])
  BY IngestHas
<1>3. last \in Nat /\ last <= Len(H)
  BY <1>2, LinkHas DEF InReach
<1>4. page = Page(last)
  BY <1>2 DEF Page
<1> HIDE DEF H
<1>5. /\ page \in Seq(Op) /\ Len(page) = Len(H) - last
      /\ \A i \in 1 .. Len(H) - last : page[i] = H[last + i]
  <2> HIDE DEF last
  <2> QED BY <1>2, <1>3, PageIs
<1> HIDE DEF page
<1>6. /\ k \in LinkRecord /\ k.pc = "page"
      /\ k.last = last /\ k.pushed = link[l].pushed /\ k.ops = page
  BY <1>1, <1>5 DEF LinkRecord
<1>7. link' = [link EXCEPT ![l] = k]
  BY <1>1, <1>4
<1> HIDE DEF k, last
<1>8. Paged(k, H)
  <2>1. last + Len(page) <= Len(H)
    BY <1>2, <1>3, <1>5
  <2> QED BY <1>5, <1>6, <2>1 DEF Paged
<1> QED BY <1>6, <1>7, <1>8 DEF last, H

LEMMA PullMoves ==
  ASSUME ReplicationInv, NEW l \in Link, Pull(l)
  PROVE  Moves
<1>1. /\ UNCHANGED <<written, log, ahead, compacted, file, strays>>
      /\ Ingest(log[Server])
      /\ registry' = Recorded(l[1], link[l].last)
  BY DEF Pull
<1>2. CASE InReach(link[l].last)
  <2>1. link' = [link EXCEPT ![l].pc = "page", ![l].ops = Page(link[l].last)]
    BY <1>2 DEF Pull
  <2>2. PICK k \in LinkRecord :
           /\ k.last = link[l].last /\ k.pushed = link[l].pushed
           /\ k.pc = "page"
           /\ Paged(k, hub'.ops)
           /\ link' = [link EXCEPT ![l] = k]
    BY <1>1, <1>2, <2>1, PagedIs
  <2> QED BY <1>1, <2>2, AskedMoves
<1>3. CASE ~ InReach(link[l].last)
  <2> DEFINE k == [link[l] EXCEPT !.pc = "behind"]
  <2>1. link' = [link EXCEPT ![l].pc = "behind"]
    BY <1>3 DEF Pull
  <2>2. link \in [Link -> LinkRecord] /\ link[l] \in LinkRecord
    BY Bases
  <2>3. k \in LinkRecord /\ k.last = link[l].last /\ k.pushed = link[l].pushed
        /\ k.pc = "behind"
    BY <2>2 DEF LinkRecord
  <2>4. link' = [link EXCEPT ![l] = k]
    BY <2>1, <2>2
  <2> HIDE DEF k
  <2> QED BY <1>1, <2>3, <2>4, AskedMoves
<1> QED BY <1>2, <1>3

LEMMA StreamPageMoves ==
  ASSUME ReplicationInv, NEW l \in Link, StreamPage(l)
  PROVE  Moves
<1>1. /\ UNCHANGED <<written, log, ahead, compacted, file, strays>>
      /\ Ingest(log[Server])
  BY DEF StreamPage
<1>2. CASE InReach(link[l].last)
  <2>1. /\ link' = [link EXCEPT ![l].pc = "page",
                                ![l].ops = Page(link[l].last)]
        /\ registry' = Touched(l[1])
    BY <1>2 DEF StreamPage
  <2>2. PICK k \in LinkRecord :
           /\ k.last = link[l].last /\ k.pushed = link[l].pushed
           /\ k.pc = "page"
           /\ Paged(k, hub'.ops)
           /\ link' = [link EXCEPT ![l] = k]
    BY <1>1, <1>2, <2>1, PagedIs
  <2> QED BY <1>1, <2>1, <2>2, AskedMoves
<1>3. CASE ~ InReach(link[l].last)
  <2> DEFINE k == [link[l] EXCEPT !.pc = "live"]
  <2>1. link' = GiveUp(l) /\ registry' = registry
    BY <1>3 DEF StreamPage
  <2>2. link[l] \in LinkRecord
    BY Bases
  <2>3. k \in LinkRecord /\ k.last = link[l].last /\ k.pushed = link[l].pushed
        /\ k.pc = "live"
    BY <2>2 DEF LinkRecord
  <2> HIDE DEF k
  <2> QED BY <1>1, <2>1, <2>3, AskedMoves
<1> QED BY <1>2, <1>3

LEMMA DownloadMoves ==
  ASSUME ReplicationInv, NEW l \in Link, Download(l)
  PROVE  Moves
<1> DEFINE c == l[1]
           snap == [log |-> log[Server], ahead |-> ahead[Server],
                    compacted |-> compacted[Server], last |-> Len(hub'.ops)]
           k == [link[l] EXCEPT !.pc = "staged", !.snap = snap]
<1>1. /\ Ingest(log[Server]) /\ registry' = Touched(c)
      /\ UNCHANGED <<written, log, ahead, compacted, file, strays>>
      /\ \/ link' = GiveUp(l)
         \/ link' = [link EXCEPT ![l].pc = "staged", ![l].snap = snap]
  BY DEF Download
<1>2. /\ c \in Client /\ c \in Node /\ Server \in Node /\ c # Server
      /\ link \in [Link -> LinkRecord] /\ link[l] \in LinkRecord
      /\ log \in [Node -> [Node -> Seq(Id)]]
      /\ compacted \in [Node -> [Node -> Nat]]
  BY Bases
<1>3. /\ hub' \in [ops : Seq(Op), floor : Int]
      /\ hub'.ops = Ingested(log[Server])
      /\ synced' = [synced EXCEPT ![Server] = FlushedByIngest(log[Server])]
      /\ hub'.ops \in Seq(Op) /\ Len(hub'.ops) \in Nat
  BY <1>1, IngestHas
<1>4. /\ synced'[Server] = Len(log[Server][Server])
      /\ Copies' /\ HubSound'
  BY <1>1, <1>3, IngestStep
<1>5. /\ snap.log = log[Server] /\ snap.ahead = {} /\ snap.last = Len(hub'.ops)
      /\ snap \in Snapshot
  <2>1. ahead[Server] = {}
    BY <1>2 DEF ReplicationInv, Copies
  <2> QED BY <1>2, <1>3, <2>1 DEF Snapshot
<1> HIDE DEF snap
<1>6. Staged(c, snap, log, synced', hub'.ops)
  <2>1. ASSUME NEW o \in Node
        PROVE  /\ Copied(log[Server][o], o, log, synced')
               /\ Len(log[Server][o]) <= Len(log[Server][o])
               /\ o # c => Len(log[c][o]) <= Len(log[Server][o])
    <3>1. /\ Len(log[Server][o]) \in Nat
          /\ Prefix(log[Server][o], log[o][o])
      BY <1>2, HeadHeld
    <3>2. Copied(log[Server][o], o, log, synced')
      <4>1. CASE o = Server
        BY <1>4, <3>1, <4>1 DEF Copied
      <4>2. CASE o # Server
        <5>1. Copied(log'[Server][o], o, log', synced')
          BY <1>2, <1>4, <4>2 DEF Copies
        <5> QED BY <1>1, <5>1
      <4> QED BY <4>1, <4>2
    <3>3. o # c => Len(log[c][o]) <= Len(log[Server][o])
      BY <1>2 DEF ReplicationInv, Copies
    <3> QED BY <3>1, <3>2, <3>3
  <2>2. Within(hub'.ops, log[Server], Len(hub'.ops))
    BY <1>1, <1>4 DEF HubSound
  <2> HIDE DEF c
  <2> QED BY <1>5, <2>1, <2>2 DEF Staged
<1>7. k \in LinkRecord /\ k.last = link[l].last /\ k.pushed = link[l].pushed
      /\ k.pc = "staged" /\ k.snap = snap
  BY <1>2, <1>5 DEF LinkRecord
<1>8. \/ link' = GiveUp(l)
      \/ link' = [link EXCEPT ![l] = k]
  BY <1>1, <1>2
<1> HIDE DEF k
<1>9. /\ link' \in [Link -> LinkRecord]
      /\ \A m \in Link :
            \/ link'[m] = link[m]
            \/ LinkSound(m[1], link'[m], log, synced', hub'.ops)
  BY <1>1, <1>6, <1>7, <1>8, LinkHas, AnswerIs
<1>10. /\ registry' \in [Client -> [cursor : Nat, seen : BOOLEAN]]
       /\ \A d \in Client : registry'[d].cursor = registry[d].cursor
  BY <1>1, <1>2, TouchedIs
<1>11. strays' \subseteq strays /\ compacted' \in [Node -> [Node -> Nat]]
       /\ file' \in [Client -> Nat] /\ \A d \in Client : file'[d] = file[d]
  BY <1>1, Bases
<1> HIDE DEF c
<1> QED BY <1>1, <1>3, <1>9, <1>10, <1>11, IngestMoves

LEMMA StrayPullMoves ==
  ASSUME ReplicationInv, NEW r \in strays, "after" \in DOMAIN r,
         strays' = strays \ {r}, Ingest(log[Server]),
         registry' = Recorded(r.client, r.after),
         UNCHANGED <<written, log, ahead, compacted, file, link>>
  PROVE  Moves
<1>1. r.client \in Client /\ r.after \in Nat
  <2>1. r \in [client : Client, push : Seq(Op)]
                 \cup [client : Client, after : Nat]
    BY Bases
  <2> QED BY <2>1
<1>2. Within(hub.ops, log[r.client], r.after)
  BY DEF ReplicationInv, CursorsSound, StraySound
<1>3. /\ registry' \in [Client -> [cursor : Nat, seen : BOOLEAN]]
      /\ \A d \in Client :
            \/ registry'[d].cursor = registry[d].cursor
            \/ Within(hub.ops, log[d], registry'[d].cursor)
  BY <1>1, <1>2, RecordedIs
<1>4. /\ hub' \in [ops : Seq(Op), floor : Int]
      /\ hub'.ops = Ingested(log[Server])
      /\ synced' = [synced EXCEPT ![Server] = FlushedByIngest(log[Server])]
  BY IngestHas
<1>5. strays' \subseteq strays /\ compacted' \in [Node -> [Node -> Nat]]
      /\ file' \in [Client -> Nat] /\ link' \in [Link -> LinkRecord]
      /\ \A d \in Client : file'[d] = file[d]
      /\ \A m \in Link : link'[m] = link[m]
  BY Bases
<1> QED BY <1>3, <1>4, <1>5, IngestMoves

LEMMA MaintainMoves ==
  ASSUME ReplicationInv, Maintain
  PROVE  Moves
<1> DEFINE H == Ingested(log[Server])
           end == Len(H) - 1
           low == Lowest(H, registry)
           reach == IF low < end THEN low ELSE end
           V == VectorOf(log[Server])
<1>1. /\ synced' = [synced EXCEPT ![Server] = FlushedByIngest(log[Server])]
      /\ compacted' = [compacted EXCEPT ![Server] = Most(@, ServerFrontier(H))]
      /\ \E f \in {hub.floor, reach} : hub' = [ops |-> H, floor |-> f]
      /\ UNCHANGED <<written, log, ahead, registry, file, link, strays>>
  BY DEF Maintain
<1>2. PICK f \in {hub.floor, reach} : hub' = [ops |-> H, floor |-> f]
  BY <1>1
<1>3. hub'.ops = H /\ hub'.floor = f
  BY <1>2
<1>4. H \in Seq(Op) /\ Len(H) \in Nat
  <2>1. hub'.ops \in Seq(Op)
    BY <1>1, <1>3, IngestStep
  <2>2. H \in Seq(Op)
    BY <1>3, <2>1
  <2> HIDE DEF H
  <2> QED BY <2>2
<1> HIDE DEF H
<1>5. low \in Nat /\ StableVector(H, registry) \in [Node -> Nat]
  BY <1>4, Bases, StableTyped
<1>6. hub' \in [ops : Seq(Op), floor : Int]
  <2>1. hub.floor \in Int
    BY Bases
  <2>2. end \in Int /\ low \in Int
    BY <1>4, <1>5
  <2> HIDE DEF end, low
  <2>3. f \in Int
    BY <2>1, <2>2
  <2> QED BY <1>2, <1>4, <2>3
<1>7. compacted' \in [Node -> [Node -> Nat]]
  <2>1. V \in [Node -> Nat] /\ Zero \in [Node -> Nat]
        /\ compacted \in [Node -> [Node -> Nat]] /\ Server \in Node
    BY VectorsAre, Bases
  <2> DEFINE W == StableVector(H, registry)
  <2>2. ServerFrontier(H) \in {Least(V, W), Zero, V}
    BY DEF ServerFrontier
  <2>3. W \in [Node -> Nat]
    BY <1>5
  <2> HIDE DEF V, W
  <2>4. Least(V, W) \in [Node -> Nat]
    BY <2>1, <2>3, VectorsAre
  <2>5. ServerFrontier(H) \in [Node -> Nat]
    BY <2>1, <2>2, <2>4
  <2>6. Most(compacted[Server], ServerFrontier(H)) \in [Node -> Nat]
    BY <2>1, <2>5, VectorsAre
  <2> QED BY <1>1, <2>1, <2>6
<1>8. hub'.ops = Ingested(log[Server])
  BY <1>3 DEF H
<1>9. /\ registry' \in [Client -> [cursor : Nat, seen : BOOLEAN]]
      /\ \A d \in Client : registry'[d].cursor = registry[d].cursor
      /\ strays' \subseteq strays
      /\ file' \in [Client -> Nat] /\ link' \in [Link -> LinkRecord]
      /\ \A d \in Client : file'[d] = file[d]
      /\ \A m \in Link : link'[m] = link[m]
  BY <1>1, Bases
<1> QED BY <1>1, <1>6, <1>7, <1>8, <1>9, IngestMoves

-----------------------------------------------------------------------------
(* Steps that take operations in.                                          *)

\* Node r takes in S, which s holds durably once its log is as durable as
\* sync says.
LEMMA Learns ==
  ASSUME ReplicationTyped, Copies, Copies',
         NEW r \in Node, NEW s \in Node, s # r,
         NEW L \in [Node -> Seq(Id)], log' = [log EXCEPT ![r] = L],
         NEW sync \in [Node -> Nat],
         sync[s] = synced[s] \/ sync[s] = Len(log[s][s]),
         \A o \in Node : o # s => sync[o] = synced[o],
         synced' = [sync EXCEPT ![r] = Len(L[r])],
         NEW S, S \subseteq Keeps(log, sync)[s],
         InLog(L) = InLog(log[r]) \cup S
  PROVE  [Abstract!Next]_<<known, kept>>
<1> DEFINE K == Keeps(log, sync)[s]
<1>1. /\ known = Holds(log) /\ kept = Keeps(log, synced)
      /\ known' = Holds(log') /\ kept' = Keeps(log', synced')
  BY SetsAre
<1>2. /\ log \in [Node -> [Node -> Seq(Id)]] /\ synced \in [Node -> Nat]
      /\ log'[r] = L /\ \A m \in Node : m # r => log'[m] = log[m]
      /\ synced'[r] = Len(L[r]) /\ \A m \in Node : m # r => synced'[m] = sync[m]
  BY DEF ReplicationTyped
<1>3. K = {op \in InLog(log[s]) : op.node = s => op.seq <= sync[s]}
  BY DEF Keeps
<1>4. K = Keeps(log, synced)[s] \/ K = Holds(log)[s]
  <2>1. CASE sync[s] = synced[s]
    BY <1>3, <2>1 DEF Keeps
  <2>2. CASE sync[s] = Len(log[s][s])
    <3>1. ASSUME NEW op \in InLog(log[s]), op.node = s
          PROVE  op.seq <= sync[s]
      <4>1. log[s] \in [Node -> Seq(Id)]
        BY <1>2
      <4>2. op.seq \in 1 .. Len(log[s][s])
        BY <3>1, <4>1, InLogHas
      <4> QED BY <2>2, <4>2
    <3> QED BY <1>3, <3>1 DEF Holds
  <2> QED BY <2>1, <2>2
<1> HIDE DEF K
<1>5. Holds(log') = [Holds(log) EXCEPT ![r] = Holds(log)[r] \cup S]
  <2>1. ASSUME NEW m \in Node
        PROVE  Holds(log')[m] =
                  IF m = r THEN Holds(log)[r] \cup S ELSE Holds(log)[m]
    BY <1>2 DEF Holds
  <2> QED BY <2>1 DEF Holds
<1>6. Keeps(log', synced') =
         [Keeps(log, synced) EXCEPT ![r] = Holds(log')[r], ![s] = K]
  <2>1. ASSUME NEW op \in InLog(L), op.node = r PROVE op.seq <= synced'[r]
    <3>1. op.seq \in 1 .. Len(L[r])
      BY <2>1, InLogHas
    <3> QED BY <1>2, <3>1
  <2>2. Keeps(log', synced')[r] = Holds(log')[r]
    BY <1>2, <2>1 DEF Keeps, Holds
  <2>3. Keeps(log', synced')[s] = K
    BY <1>2, <1>3 DEF Keeps
  <2>4. ASSUME NEW m \in Node, m # r, m # s
        PROVE  Keeps(log', synced')[m] = Keeps(log, synced)[m]
    BY <1>2, <2>4 DEF Keeps
  <2>5. /\ Keeps(log', synced') = [m \in Node |-> Keeps(log', synced')[m]]
        /\ DOMAIN Keeps(log, synced) = Node
    BY DEF Keeps
  <2> QED BY <2>2, <2>3, <2>4, <2>5
<1>7. Abstract!Learn(r)
  <2>1. s \in Node \ {r} /\ K \in {kept[s], known[s]} /\ S \in SUBSET K
    BY <1>1, <1>4 DEF K
  <2>2. /\ known' = [known EXCEPT ![r] = @ \cup S]
        /\ kept' = [kept EXCEPT ![r] = known'[r], ![s] = K]
    BY <1>1, <1>5, <1>6
  <2>3. \E T \in SUBSET K : known' = [known EXCEPT ![r] = @ \cup T]
    BY <2>1, <2>2
  <2> QED BY <2>1, <2>2, <2>3 DEF Abstract!Learn
<1> QED BY <1>7 DEF Abstract!Next

\* Node n takes in durable copies, its own log stays.
LEMMA CopyTaken ==
  ASSUME ReplicationInv, UNCHANGED written,
         NEW n \in Node, NEW L \in [Node -> Seq(Id)], L[n] = log[n][n],
         log' = [log EXCEPT ![n] = L], ahead' = [ahead EXCEPT ![n] = {}],
         synced' \in [Node -> Nat],
         \A o \in Node : synced[o] <= synced'[o] /\ synced'[o] <= Len(log[o][o]),
         \A o \in Node :
            o # n => /\ Len(log[n][o]) <= Len(L[o])
                     /\ Prefix(L[o], log[o][o])
                     /\ Len(L[o]) <= synced'[o]
                     /\ n # Server => Len(L[o]) <= Len(log[Server][o]),
         hub'.ops \in Seq(Op), Len(hub.ops) <= Len(hub'.ops),
         \A j \in 1 .. Len(hub.ops) : hub'.ops[j] = hub.ops[j]
  PROVE  /\ log' \in [Node -> [Node -> Seq(Id)]] /\ log' \in Logs
         /\ ahead' \in [Node -> SUBSET Op]
         /\ Dated' /\ Copies'
         /\ Advances(log, synced, hub.ops, log', synced', hub'.ops)
         /\ \A sync : Durable(log', sync) = Durable(log, sync)
         /\ log'[n] = L
         /\ \A m \in Node : m # n => log'[m] = log[m]
<1>1. /\ log \in Logs /\ log \in [Node -> [Node -> Seq(Id)]]
      /\ synced \in [Node -> Nat] /\ ahead \in [Node -> SUBSET Op]
  BY Bases DEF ReplicationInv, ReplicationTyped
<1>2. /\ log' \in [Node -> [Node -> Seq(Id)]]
      /\ ahead' \in [Node -> SUBSET Op]
      /\ log'[n] = L
      /\ \A m \in Node : m # n => log'[m] = log[m]
      /\ ahead'[n] = {} /\ \A m \in Node : m # n => ahead'[m] = ahead[m]
  BY <1>1
<1>3. log' \in Logs
  BY <1>2 DEF Logs
<1>4. \A o \in Node : log'[o][o] = log[o][o]
  BY <1>2
<1>5. Origins' = Origins /\ Authored' = Authored
      /\ \A sync : Durable(log', sync) = Durable(log, sync)
  <2>1. Origins' = Origins
    BY <1>4 DEF Origins
  <2>2. [o \in Node |-> log'[o][o]] = [o \in Node |-> log[o][o]]
    BY <1>4
  <2> QED BY <2>1, <2>2 DEF Authored, InLog, Durable
<1>6. Dated'
  <2>1. \A o \in Node : synced'[o] <= Len(log'[o][o])
    BY <1>4
  <2>2. \A o \in Node : Len(log'[o][o]) <= written'
    BY <1>4 DEF ReplicationInv, Dated
  <2> QED BY <1>5, <2>1, <2>2 DEF ReplicationInv, Dated
<1>7. ASSUME NEW m \in Node, NEW o \in Node
      PROVE  /\ Len(log[m][o]) <= Len(log'[m][o])
             /\ Len(log[m][o]) \in Nat /\ Len(log'[m][o]) \in Nat
  <2>1. Len(log[m][o]) \in Nat /\ Len(log'[m][o]) \in Nat
    BY <1>1, <1>3, LogsHave
  <2>2. CASE m = n
    <3>1. CASE o = n
      BY <1>4, <2>1, <2>2, <3>1
    <3>2. CASE o # n
      BY <1>2, <2>1, <2>2, <3>2
    <3> QED BY <3>1, <3>2
  <2>3. CASE m # n
    BY <1>2, <2>1, <2>3
  <2> QED BY <2>1, <2>2, <2>3
<1>8. Advances(log, synced, hub.ops, log', synced', hub'.ops)
  <2>1. \A o \in Node : /\ synced[o] <= synced'[o]
                        /\ synced'[o] <= Len(log'[o][o])
                        /\ \A i \in 1 .. synced[o] : log'[o][o][i] = log[o][o][i]
    BY <1>4
  <2> QED BY <1>7, <2>1 DEF Advances
<1>9. ASSUME NEW m \in Node, NEW o \in Node, m # o
      PROVE  Copied(log'[m][o], o, log', synced')
  <2>1. CASE m = n
    BY <1>2, <1>4, <1>9, <2>1 DEF Copied
  <2>2. CASE m # n
    <3>1. Copied(log[m][o], o, log, synced) /\ log[m][o] \in Seq(Id)
      BY <1>1, <1>9, LogsHave DEF ReplicationInv, Copies
    <3>2. Copied(log[m][o], o, log', synced')
      BY ONLY <1>1, <1>3, <1>8, <3>1, m \in Node, o \in Node, CopiedStays,
              synced' \in [Node -> Nat]
    <3> QED BY <1>2, <2>2, <3>2
  <2> QED BY <2>1, <2>2
<1>10. ASSUME NEW c \in Client, NEW o \in Node, c # o
       PROVE  Len(log'[c][o]) <= Len(log'[Server][o])
  <2>1. c \in Node /\ Server \in Node /\ c # Server
    BY Bases
  <2>2. Len(log[c][o]) <= Len(log[Server][o])
    BY <1>10 DEF ReplicationInv, Copies
  <2>3. CASE n = c
    <3>1. Len(L[o]) <= Len(log[Server][o])
      BY <1>10, <2>1, <2>3
    <3> QED BY <1>2, <2>1, <2>3, <3>1
  <2>4. CASE n # c
    <3>1. log'[c] = log[c]
      BY <1>2, <2>1, <2>4
    <3>2. Len(log[Server][o]) <= Len(log'[Server][o])
          /\ Len(log[Server][o]) \in Nat /\ Len(log'[Server][o]) \in Nat
          /\ Len(log[c][o]) \in Nat
      BY <1>7, <2>1
    <3> DEFINE a == Len(log[c][o])
               b == Len(log[Server][o])
               d == Len(log'[Server][o])
    <3>3. a <= d
      <4>1. a \in Nat /\ b \in Nat /\ d \in Nat /\ a <= b /\ b <= d
        BY <2>2, <3>2
      <4> HIDE DEF a, b, d
      <4> QED BY <4>1
    <3> QED BY <3>1, <3>3
  <2> QED BY <2>3, <2>4
<1>11. \A m \in Node : ahead'[m] = {}
  BY <1>2 DEF ReplicationInv, Copies
<1>12. Copies'
  BY <1>9, <1>10, <1>11 DEF Copies
<1> QED BY <1>2, <1>3, <1>5, <1>6, <1>8, <1>12

\* What the server makes of a push.
LEMMA PushHas ==
  ASSUME ReplicationInv, UNCHANGED written, NEW c \in Client,
         NEW page, TakePush(c, page),
         NEW sync \in [Node -> Nat],
         sync[c] = synced[c] \/ sync[c] = Len(log[c][c]),
         \A o \in Node : o # c => sync[o] = synced[o],
         synced' = [sync EXCEPT ![Server] = Len(log[Server][Server])],
         Batch(page) \subseteq Durable(log, sync),
         Batch(page) \subseteq Authored,
         \A op \in Batch(page) : op.node = c,
         Fits(log[Server], Batch(page))
  PROVE  /\ log' \in [Node -> [Node -> Seq(Id)]] /\ log' \in Logs
         /\ ahead' \in [Node -> SUBSET Op] /\ synced' \in [Node -> Nat]
         /\ hub' \in [ops : Seq(Op), floor : Int]
         /\ hub'.ops \in Seq(Op) /\ Len(hub'.ops) \in Nat
         /\ registry' \in [Client -> [cursor : Nat, seen : BOOLEAN]]
         /\ \A d \in Client : registry'[d].cursor = registry[d].cursor
         /\ Dated' /\ Copies' /\ HubSound'
         /\ Advances(log, synced, hub.ops, log', synced', hub'.ops)
         /\ \A m \in Node : m # Server => log'[m] = log[m]
         /\ [Abstract!Next]_<<known, kept>>
<1> DEFINE S == Batch(page)
           L == Appended(Server, S)
           G == Ingested(L)
<1>0. S = {page[i] : i \in DOMAIN page}
  BY DEF Batch
<1>1. /\ log' = [log EXCEPT ![Server] = L]
      /\ ahead' = [ahead EXCEPT ![Server] = Beyond(Server, S)]
      /\ hub' = [hub EXCEPT !.ops = G]
      /\ registry' = Touched(c)
  BY <1>0 DEF TakePush
<1>2. /\ log \in Logs /\ log \in [Node -> [Node -> Seq(Id)]]
      /\ log[Server] \in [Node -> Seq(Id)]
      /\ synced \in [Node -> Nat] /\ hub \in [ops : Seq(Op), floor : Int]
      /\ hub.ops \in Seq(Op) /\ Len(hub.ops) \in Nat
      /\ c \in Node /\ Server \in Node /\ c # Server
      /\ ReplicationTyped /\ Dated /\ Copies /\ HubSound
  BY Bases DEF ReplicationInv
<1>3. \A o \in Node : /\ Len(log[Server][o]) \in Nat /\ Len(log[o][o]) \in Nat
                      /\ Prefix(log[Server][o], log[o][o])
  BY <1>2, HeadHeld
<1> HIDE DEF S
<1>4. /\ Beyond(Server, S) = {}
      /\ L \in [Node -> Seq(Id)]
      /\ \A o \in Node : Prefix(L[o], log[o][o])
      /\ \A o \in Node : Len(log[Server][o]) <= Len(L[o])
      /\ \A o \in Node :
            \/ L[o] = log[Server][o]
            \/ \E op \in S : /\ op.node = o
                             /\ op.seq = Len(L[o])
      /\ InLog(L) = InLog(log[Server]) \cup S
  <2>1. ahead[Server] = {}
    BY <1>2 DEF Copies
  <2>2. S \subseteq Authored /\ Fits(log[Server], S)
    BY DEF S
  <2>3. \A o \in Node : Prefix(log[Server][o], log[o][o])
    BY <1>3
  <2>4. ReplicationTyped /\ Dated /\ Server \in Node
    BY <1>2
  <2> QED BY ONLY <2>1, <2>2, <2>3, <2>4, AppendIs
<1> HIDE DEF L
<1>5. L[Server] = log[Server][Server]
  <2>1. \A op \in S : op.node # Server
    BY <1>2 DEF S
  <2> QED BY <1>2, <1>4, <2>1
<1>6. \A j \in 1 .. Len(hub.ops) : hub.ops[j] \in Authored
  BY <1>2 DEF HubSound, Durable, Authored, Origins
<1>7. Within(hub.ops, L, Len(hub.ops))
  <2>1. ASSUME NEW j \in 1 .. Len(hub.ops)
        PROVE  hub.ops[j].seq <= Len(L[hub.ops[j].node])
    <3> DEFINE op == hub.ops[j]
    <3>1. op \in Durable(log, synced) /\ op.seq <= Len(log[Server][op.node])
      BY <1>2 DEF HubSound, Within
    <3> HIDE DEF op
    <3>2. op.node \in Node /\ op.seq \in Nat
      BY <1>2, <3>1, DurableHas
    <3>3. Len(log[Server][op.node]) <= Len(L[op.node])
          /\ Len(L[op.node]) \in Nat /\ Len(log[Server][op.node]) \in Nat
      BY <1>3, <1>4, <3>2
    <3>4. op.seq <= Len(L[op.node])
      BY <3>1, <3>2, <3>3
    <3> QED BY <3>4 DEF op
  <2> QED BY <1>2, <2>1 DEF Within
<1>8. /\ G \in Seq(Op)
      /\ Len(hub.ops) <= Len(G)
      /\ \A j \in 1 .. Len(hub.ops) : G[j] = hub.ops[j]
      /\ Orderly(G)
      /\ \A j \in 1 .. Len(G) : G[j] \in InLog(L)
  BY <1>2, <1>4, <1>6, <1>7, IngestIs DEF HubSound
<1> HIDE DEF G
<1>9. hub'.ops = G /\ hub' \in [ops : Seq(Op), floor : Int]
  BY <1>1, <1>2, <1>8
<1>10. /\ synced' \in [Node -> Nat]
       /\ synced'[Server] = Len(log[Server][Server])
       /\ \A o \in Node : o # Server => synced'[o] = sync[o]
  BY <1>2, <1>3
<1>11. \A o \in Node : /\ synced[o] <= sync[o] /\ synced[o] <= synced'[o]
                       /\ synced'[o] <= Len(log[o][o])
  <2>1. ASSUME NEW o \in Node
        PROVE  /\ synced[o] <= sync[o] /\ synced[o] <= synced'[o]
               /\ synced'[o] <= Len(log[o][o])
    <3>1. synced[o] \in Nat /\ synced[o] <= Len(log[o][o])
          /\ Len(log[o][o]) \in Nat
      BY <1>2, <1>3 DEF Dated
    <3>2. sync[o] = synced[o] \/ sync[o] = Len(log[o][o])
      OBVIOUS
    <3>3. synced'[o] = sync[o] \/ synced'[o] = Len(log[o][o])
      BY <1>10
    <3> QED BY <3>1, <3>2, <3>3
  <2> QED BY <2>1
<1>12. ASSUME NEW o \in Node, o # Server
       PROVE  /\ Len(log[Server][o]) <= Len(L[o])
              /\ Prefix(L[o], log[o][o])
              /\ Len(L[o]) <= synced'[o]
  <2>1. CASE L[o] = log[Server][o]
    <3>1. Len(log[Server][o]) <= synced[o]
      BY <1>2, <1>12 DEF Copies, Copied
    <3>2. synced[o] \in Nat /\ synced'[o] \in Nat /\ synced[o] <= synced'[o]
      BY <1>2, <1>10, <1>11
    <3>3. Len(log[Server][o]) <= synced'[o]
      BY <1>3, <3>1, <3>2
    <3> QED BY <1>4, <2>1, <3>3
  <2>2. ASSUME NEW op \in S, op.node = o, op.seq = Len(L[o])
        PROVE  Len(L[o]) <= synced'[o]
    <3>1. op \in Durable(log, sync)
      BY DEF S
    <3>2. op.seq <= sync[op.node]
      BY <1>2, <3>1, DurableHas
    <3> QED BY <1>10, <1>12, <2>2, <3>2
  <2> QED BY <1>4, <2>1, <2>2
<1>13. /\ log' \in [Node -> [Node -> Seq(Id)]] /\ log' \in Logs
       /\ ahead' \in [Node -> SUBSET Op]
       /\ Dated' /\ Copies'
       /\ Advances(log, synced, hub.ops, log', synced', hub'.ops)
       /\ \A x : Durable(log', x) = Durable(log, x)
       /\ log'[Server] = L
       /\ \A m \in Node : m # Server => log'[m] = log[m]
  <2>1. /\ Len(hub.ops) <= Len(hub'.ops)
        /\ \A j \in 1 .. Len(hub.ops) : hub'.ops[j] = hub.ops[j]
        /\ hub'.ops \in Seq(Op)
    BY <1>8, <1>9
  <2>2. ahead' = [ahead EXCEPT ![Server] = {}]
    BY <1>1, <1>4
  <2>3. \A o \in Node : synced[o] <= synced'[o] /\ synced'[o] <= Len(log[o][o])
    BY <1>11
  <2>4. \A o \in Node :
            o # Server => /\ Len(log[Server][o]) <= Len(L[o])
                          /\ Prefix(L[o], log[o][o])
                          /\ Len(L[o]) <= synced'[o]
                          /\ Server # Server => Len(L[o]) <= Len(log[Server][o])
    BY <1>12
  <2>5. /\ L \in [Node -> Seq(Id)] /\ L[Server] = log[Server][Server]
        /\ log' = [log EXCEPT ![Server] = L]
        /\ synced' \in [Node -> Nat] /\ Server \in Node
    BY <1>1, <1>2, <1>4, <1>5, <1>10
  <2> QED BY ONLY ReplicationInv, UNCHANGED written,
                  <2>1, <2>2, <2>3, <2>4, <2>5, CopyTaken
<1>14. HubSound'
  <2>1. ASSUME NEW j \in 1 .. Len(G)
        PROVE  G[j] \in Durable(log', synced') /\ G[j].seq <= Len(L[G[j].node])
    <3>1. G[j] \in InLog(L)
      BY <1>8
    <3>2. G[j].node \in Node /\ G[j].seq \in 1 .. Len(L[G[j].node])
      BY <1>4, <3>1, InLogHas
    <3>3. Len(L[G[j].node]) \in Nat
      BY <1>4, <3>2
    <3>4. G[j] \in Durable(log, synced')
      <4>1. CASE G[j] \in S
        <5>1. G[j] \in Durable(log, sync) /\ G[j].node = c
          BY <4>1 DEF S
        <5>2. synced'[c] = sync[c]
          BY <1>2, <1>10
        <5> QED BY <5>1, <5>2 DEF Durable
      <4>2. CASE G[j] \in InLog(log[Server])
        <5>1. G[j].node = Server => G[j].seq <= synced'[Server]
          BY <1>5, <1>10, <3>2, <3>3
        <5> QED BY ONLY <1>2, <1>10, <1>11, <4>2, <5>1, ReplicationInv, NodeHolds
      <4> QED BY <1>4, <3>1, <4>1, <4>2
    <3> QED BY <1>13, <3>2, <3>3, <3>4
  <2>2. Within(G, L, Len(G))
    <3>1. Len(G) \in Nat
      BY <1>8
    <3> QED BY <2>1, <3>1 DEF Within
  <2> QED BY <1>8, <1>9, <1>13, <2>1, <2>2 DEF HubSound
<1>15. [Abstract!Next]_<<known, kept>>
  <2>1. S \subseteq Keeps(log, sync)[c]
    <3> SUFFICES ASSUME NEW op \in S PROVE op \in Keeps(log, sync)[c]
      OBVIOUS
    <3>1. op \in Durable(log, sync) /\ op.node = c
      BY DEF S
    <3>2. /\ op.seq \in 1 .. Len(log[c][c]) /\ op.seq <= sync[c]
          /\ op = [node |-> c, seq |-> op.seq, id |-> log[c][c][op.seq]]
      BY <1>2, <3>1, DurableIs
    <3>3. log[c] \in [Node -> Seq(Id)]
      BY <1>2
    <3>4. op \in InLog(log[c])
      BY <1>2, <3>2, <3>3, InLogHolds
    <3> QED BY <1>2, <3>2, <3>4 DEF Keeps
  <2>2. synced' = [sync EXCEPT ![Server] = Len(L[Server])]
    BY <1>5
  <2>3. /\ ReplicationTyped /\ Copies /\ Copies'
        /\ Server \in Node /\ c \in Node /\ c # Server
        /\ L \in [Node -> Seq(Id)] /\ log' = [log EXCEPT ![Server] = L]
        /\ InLog(L) = InLog(log[Server]) \cup S
    BY <1>1, <1>2, <1>4, <1>13
  <2> QED BY ONLY <2>1, <2>2, <2>3, Learns,
        sync \in [Node -> Nat],
        sync[c] = synced[c] \/ sync[c] = Len(log[c][c]),
        \A o \in Node : o # c => sync[o] = synced[o]
<1>16. /\ registry' \in [Client -> [cursor : Nat, seen : BOOLEAN]]
       /\ \A d \in Client : registry'[d].cursor = registry[d].cursor
  BY <1>1, TouchedIs
<1>17. Len(hub'.ops) \in Nat /\ hub'.ops \in Seq(Op)
  BY <1>8, <1>9
<1> QED BY <1>9, <1>10, <1>13, <1>14, <1>15, <1>16, <1>17

\* A push is over.
LEMMA PushEnds ==
  ASSUME ReplicationInv, UNCHANGED <<written, compacted, file>>,
         log' \in [Node -> [Node -> Seq(Id)]], log' \in Logs,
         ahead' \in [Node -> SUBSET Op], synced' \in [Node -> Nat],
         hub' \in [ops : Seq(Op), floor : Int],
         registry' \in [Client -> [cursor : Nat, seen : BOOLEAN]],
         \A d \in Client : registry'[d].cursor = registry[d].cursor,
         Dated', Copies', HubSound',
         Advances(log, synced, hub.ops, log', synced', hub'.ops),
         \A m \in Node : m # Server => log'[m] = log[m],
         link' \in [Link -> LinkRecord],
         \A l \in Link :
            \/ link'[l] = link[l]
            \/ LinkSound(l[1], link'[l], log', synced', hub'.ops),
         strays' \subseteq strays
  PROVE  ReplicationInv'
<1>1. ReplicationTyped'
  <2>1. written' \in Number /\ compacted' \in [Node -> [Node -> Nat]]
        /\ file' \in [Client -> Nat]
    BY DEF ReplicationInv, ReplicationTyped
  <2>2. strays' \subseteq [client : Client, push : Seq(Op)]
                            \cup [client : Client, after : Nat]
    BY Bases
  <2> QED BY <2>1, <2>2 DEF ReplicationTyped
<1>2. ASSUME NEW l \in Link
      PROVE  \/ LinkSound(l[1], link'[l], log', synced', hub'.ops)
             \/ /\ link'[l] = link[l]
                /\ link[l].pc = "staged" =>
                      \A o \in Node : o # l[1] =>
                         Len(log'[l[1]][o]) <= Len(log[l[1]][o])
  <2>1. l[1] \in Node /\ l[1] # Server /\ log \in Logs
    BY Bases
  <2>2. log'[l[1]] = log[l[1]]
    BY <2>1
  <2>3. \A o \in Node : Len(log'[l[1]][o]) <= Len(log[l[1]][o])
    BY <2>1, <2>2, LogsHave
  <2> QED BY <2>3
<1>3. \A d \in Client : file'[d] = file[d]
  OBVIOUS
<1>4. \A r \in strays' : r \in strays
  OBVIOUS
<1> QED BY <1>1, <1>2, <1>3, <1>4, Concludes

LEMMA PushMoves ==
  ASSUME ReplicationInv, NEW l \in Link, Push(l)
  PROVE  Moves
<1> DEFINE c == l[1]
           sync == [synced EXCEPT ![c] = Len(log[c][c])]
           pc == IF link[l].live THEN "live" ELSE "pull"
           head == Len(log'[Server][c])
           k == [link[l] EXCEPT !.pc = pc, !.pushed = head]
<1>1. /\ TakePush(c, Outbox(l))
      /\ synced' = [synced EXCEPT ![c] = Len(log[c][c]),
                                  ![Server] = Len(log[Server][Server])]
      /\ \/ link' = GiveUp(l)
         \/ link' = [link EXCEPT ![l].pc = pc, ![l].pushed = head]
      /\ UNCHANGED <<written, compacted, file, strays>>
  BY DEF Push, FlushForPush
<1>2. /\ c \in Client /\ c \in Node /\ Server \in Node /\ c # Server
      /\ link \in [Link -> LinkRecord] /\ link[l] \in LinkRecord
      /\ log \in Logs /\ synced \in [Node -> Nat] /\ Len(log[c][c]) \in Nat
      /\ hub.ops \in Seq(Op)
      /\ \A j \in 1 .. Len(hub.ops) : hub.ops[j] \in Durable(log, synced)
  BY Bases, HeadHeld DEF ReplicationInv, HubSound
<1>3. /\ sync \in [Node -> Nat] /\ sync[c] = Len(log[c][c])
      /\ \A o \in Node : o # c => sync[o] = synced[o]
      /\ synced' = [sync EXCEPT ![Server] = Len(log[Server][Server])]
  <2> HIDE DEF c
  <2> QED BY <1>1, <1>2
<1> HIDE DEF sync
<1>4. /\ Batch(Outbox(l)) \subseteq Durable(log, sync)
      /\ Batch(Outbox(l)) \subseteq Authored
      /\ \A op \in Batch(Outbox(l)) : op.node = c
      /\ Fits(log[Server], Batch(Outbox(l)))
  BY <1>3, OutboxIs
<1> HIDE DEF c
<1>5. /\ log' \in [Node -> [Node -> Seq(Id)]] /\ log' \in Logs
      /\ ahead' \in [Node -> SUBSET Op] /\ synced' \in [Node -> Nat]
      /\ hub' \in [ops : Seq(Op), floor : Int]
      /\ hub'.ops \in Seq(Op) /\ Len(hub'.ops) \in Nat
      /\ registry' \in [Client -> [cursor : Nat, seen : BOOLEAN]]
      /\ \A d \in Client : registry'[d].cursor = registry[d].cursor
      /\ Dated' /\ Copies' /\ HubSound'
      /\ Advances(log, synced, hub.ops, log', synced', hub'.ops)
      /\ \A m \in Node : m # Server => log'[m] = log[m]
      /\ [Abstract!Next]_<<known, kept>>
  <2> DEFINE page == Outbox(l)
  <2>1. /\ TakePush(c, page) /\ UNCHANGED written /\ c \in Client
        /\ sync \in [Node -> Nat]
        /\ sync[c] = synced[c] \/ sync[c] = Len(log[c][c])
        /\ \A o \in Node : o # c => sync[o] = synced[o]
        /\ synced' = [sync EXCEPT ![Server] = Len(log[Server][Server])]
        /\ Batch(page) \subseteq Durable(log, sync)
        /\ Batch(page) \subseteq Authored
        /\ \A op \in Batch(page) : op.node = c
        /\ Fits(log[Server], Batch(page))
    BY <1>1, <1>2, <1>3, <1>4
  <2> HIDE DEF page
  <2> QED BY ONLY ReplicationInv, <2>1, PushHas
<1>6. head \in Nat
  BY <1>2, <1>5, LogsHave
<1> HIDE DEF head
<1>7. k \in LinkRecord /\ k.last = link[l].last /\ k.pushed = head
      /\ k.pc \in {"live", "pull"}
  BY <1>2, <1>6 DEF LinkRecord
<1>8. \/ link' = [link EXCEPT ![l] = Idle]
      \/ link' = [link EXCEPT ![l] = k]
  BY <1>1, <1>2 DEF GiveUp
<1> HIDE DEF k, Idle
<1>9. LinkSound(c, k, log', synced', hub'.ops)
  <2>1. link[l].last \in Nat /\ Within(hub.ops, log[c], link[l].last)
    BY LinkHas DEF c
  <2>2. Within(hub'.ops, log'[c], link[l].last)
    <3>1. Within(hub'.ops, log[c], link[l].last)
      BY ONLY <1>2, <1>5, <2>1, CopyWithinStays
    <3>2. log'[c] = log[c]
      BY <1>2, <1>5
    <3> QED BY <3>1, <3>2
  <2>3. k.pushed <= Len(log'[Server][c])
    BY <1>6, <1>7 DEF head
  <2> QED BY <1>7, <2>2, <2>3, PlainSound
<1>10. Idle \in LinkRecord /\ LinkSound(c, Idle, log', synced', hub'.ops)
  BY <1>2, <1>5, IdleSound
<1>11. PICK j \in {Idle, k} : link' = [link EXCEPT ![l] = j]
  BY <1>8
<1>12. /\ link' \in [Link -> LinkRecord] /\ link'[l] = j
       /\ \A m \in Link : m # l => link'[m] = link[m]
       /\ LinkSound(c, j, log', synced', hub'.ops)
  BY <1>2, <1>7, <1>9, <1>10, <1>11
<1>13. \A m \in Link :
          \/ link'[m] = link[m]
          \/ LinkSound(m[1], link'[m], log', synced', hub'.ops)
  BY <1>12 DEF c
<1>14. ReplicationInv'
  <2>1. strays' \subseteq strays
    BY <1>1
  <2> QED BY <1>1, <1>5, <1>12, <1>13, <2>1, PushEnds
<1> QED BY <1>5, <1>14 DEF Moves

LEMMA StrayMoves ==
  ASSUME ReplicationInv, NEW r \in strays, Stray(r)
  PROVE  Moves
<1>1. /\ strays' = strays \ {r}
      /\ UNCHANGED <<written, compacted, file, link>>
  BY DEF Stray
<1>2. CASE /\ "push" \in DOMAIN r
           /\ TakePush(r.client, r.push)
           /\ synced' = [synced EXCEPT ![Server] = Len(log[Server][Server])]
  <2>1. r.client \in Client /\ r.client \in Node
    <3>1. r \in [client : Client, push : Seq(Op)]
                   \cup [client : Client, after : Nat]
      BY Bases
    <3> QED BY <3>1 DEF Node
  <2>2. /\ Batch(r.push) \subseteq Durable(log, synced)
        /\ \A op \in Batch(r.push) : op.node = r.client
        /\ Fits(log[Server], Batch(r.push))
    BY <1>2 DEF ReplicationInv, CursorsSound, StraySound
  <2>3. Batch(r.push) \subseteq Authored
    BY <2>2 DEF Durable, Authored, Origins
  <2>4. synced \in [Node -> Nat]
    BY Bases
  <2>5. /\ log' \in [Node -> [Node -> Seq(Id)]] /\ log' \in Logs
        /\ ahead' \in [Node -> SUBSET Op] /\ synced' \in [Node -> Nat]
        /\ hub' \in [ops : Seq(Op), floor : Int]
        /\ registry' \in [Client -> [cursor : Nat, seen : BOOLEAN]]
        /\ \A d \in Client : registry'[d].cursor = registry[d].cursor
        /\ Dated' /\ Copies' /\ HubSound'
        /\ Advances(log, synced, hub.ops, log', synced', hub'.ops)
        /\ \A m \in Node : m # Server => log'[m] = log[m]
        /\ [Abstract!Next]_<<known, kept>>
    BY <1>1, <1>2, <2>1, <2>2, <2>3, <2>4, PushHas
  <2>6. /\ link' \in [Link -> LinkRecord]
        /\ \A m \in Link : link'[m] = link[m]
        /\ strays' \subseteq strays
    BY <1>1, Bases
  <2>7. ReplicationInv'
    BY <1>1, <2>5, <2>6, PushEnds
  <2> QED BY <2>5, <2>7 DEF Moves
<1>3. CASE /\ "after" \in DOMAIN r
           /\ Ingest(log[Server])
           /\ registry' = Recorded(r.client, r.after)
           /\ UNCHANGED <<log, ahead>>
  BY <1>1, <1>3, StrayPullMoves
<1> QED BY <1>2, <1>3 DEF Stray

-----------------------------------------------------------------------------
(* Steps in which a client takes operations in, one process at a time.     *)

LEMMA OnlyLink ==
  ASSUME OneProcess, NEW l \in Link, NEW m \in Link, m[1] = l[1]
  PROVE  m = l
BY DEF OneProcess, Link

\* What of a page is new to the client.
Fresh(l) == {op \in Batch(link[l].ops) : op.seq > Len(log[l[1]][op.node])}

\* The order of the hub log leaves no gap in what is new.
LEMMA FreshIs ==
  ASSUME ReplicationInv, NEW l \in Link, link[l].pc = "page"
  PROVE  /\ Fresh(l) \subseteq Durable(log, synced)
         /\ Fresh(l) \subseteq Authored
         /\ Fits(log[l[1]], Fresh(l))
         /\ \A op \in Fresh(l) : /\ op.seq > Len(log[l[1]][op.node])
                                 /\ op.seq <= Len(log[Server][op.node])
         /\ \A i \in 1 .. Len(link[l].ops) :
               \/ hub.ops[link[l].last + i] \in Fresh(l)
               \/ hub.ops[link[l].last + i].seq <=
                     Len(log[l[1]][hub.ops[link[l].last + i].node])
<1> DEFINE c == l[1]
           H == hub.ops
           last == link[l].last
           ops == link[l].ops
           n == Len(ops)
           S == Fresh(l)
<1>1. /\ c \in Node /\ Server \in Node
      /\ log \in Logs /\ synced \in [Node -> Nat] /\ H \in Seq(Op)
      /\ Len(H) \in Nat /\ last \in Nat /\ n \in Nat /\ ops \in Seq(Op)
      /\ Within(H, log[c], last) /\ HubSound
  BY Bases, LinkHas DEF ReplicationInv
<1>2. /\ last + n <= Len(H)
      /\ \A i \in 1 .. n : ops[i] = H[last + i]
  BY Bases DEF LinkSound, Paged
<1>3. S = {op \in Batch(ops) : op.seq > Len(log[c][op.node])}
  BY DEF Fresh
<1>4. \A op \in Batch(ops) : \E i \in 1 .. n : op = ops[i]
  BY <1>1 DEF Batch
<1>5. \A i \in 1 .. n : ops[i] \in Batch(ops)
  BY <1>1 DEF Batch
<1> HIDE DEF S, ops, n, last, H, c
<1>6. ASSUME NEW j \in 1 .. Len(H)
      PROVE  /\ H[j] \in Durable(log, synced)
             /\ H[j].node \in Node /\ H[j].seq \in Nat \ {0}
             /\ H[j].seq <= Len(log[Server][H[j].node])
             /\ Len(log[c][H[j].node]) \in Nat
  <2>1. H[j] \in Durable(log, synced)
        /\ H[j].seq <= Len(log[Server][H[j].node])
    BY <1>1 DEF HubSound, Within, H
  <2>2. H[j].node \in Node /\ H[j].seq \in Nat \ {0}
    BY <1>1, <2>1, DurableHas
  <2> QED BY <1>1, <2>1, <2>2, LogsHave
<1>7. ASSUME NEW i \in 1 .. n
      PROVE  last + i \in 1 .. Len(H)
  BY <1>1, <1>2
<1>8. ASSUME NEW op \in S
      PROVE  \E j \in last + 1 .. last + n :
                op = H[j] /\ H[j].seq > Len(log[c][H[j].node])
  <2>1. PICK i \in 1 .. n : op = ops[i]
    BY <1>3, <1>4
  <2>2. last + i \in last + 1 .. last + n /\ op = H[last + i]
    BY <1>1, <1>2, <2>1
  <2> QED BY <1>3, <2>2
<1>9. ASSUME NEW j \in last + 1 .. last + n, H[j].seq > Len(log[c][H[j].node])
      PROVE  H[j] \in S
  <2>1. j - last \in 1 .. n /\ last + (j - last) = j
    BY <1>1
  <2>2. ops[j - last] = H[j]
    BY <1>2, <2>1
  <2> QED BY <1>3, <1>5, <1>9, <2>1, <2>2
<1>10. \A j \in last + 1 .. last + n : j \in 1 .. Len(H)
  BY <1>1, <1>2
<1>11. ASSUME NEW op \in S
       PROVE  /\ op \in Durable(log, synced)
              /\ op.seq > Len(log[c][op.node])
              /\ op.seq <= Len(log[Server][op.node])
  BY <1>6, <1>8, <1>10
<1>12. S \subseteq Authored
  BY <1>11 DEF Durable, Authored, Origins
<1>13. ASSUME NEW op \in S, NEW i \in Len(log[c][op.node]) + 1 .. op.seq
       PROVE  \E q \in S : q.node = op.node /\ q.seq = i
  <2>1. PICK j \in last + 1 .. last + n :
           op = H[j] /\ H[j].seq > Len(log[c][H[j].node])
    BY <1>8
  <2>2. /\ j \in 1 .. Len(H) /\ op.seq \in Nat \ {0}
        /\ Len(log[c][op.node]) \in Nat
    BY <1>6, <1>10, <2>1
  <2>3. i \in Nat /\ i > Len(log[c][op.node]) /\ i <= op.seq
    BY <2>2
  <2>4. CASE i = op.seq
    BY <2>4
  <2>5. CASE i # op.seq
    <3>1. i \in 1 .. op.seq - 1
      BY <2>2, <2>3, <2>5
    <3>2. PICK k \in 1 .. j - 1 : H[k].node = H[j].node /\ H[k].seq = i
      <4>1. Orderly(H)
        BY <1>1 DEF HubSound, H
      <4>2. \A s \in 1 .. H[j].seq - 1 :
               \E k \in 1 .. j - 1 : H[k].node = H[j].node /\ H[k].seq = s
        BY <2>2, <4>1 DEF Orderly
      <4> QED BY <2>1, <3>1, <4>2
    <3>3. ~ (k <= last)
      <4> SUFFICES ASSUME k <= last PROVE FALSE
        OBVIOUS
      <4>1. k \in 1 .. last
        BY <1>1, <2>2, <3>2
      <4>2. H[k].seq <= Len(log[c][H[k].node])
        BY <1>1, <4>1 DEF Within
      <4>3. i <= Len(log[c][op.node])
        BY <2>1, <3>2, <4>2
      <4> QED BY <2>2, <2>3, <4>3
    <3>4. k \in last + 1 .. last + n
      BY <1>1, <2>1, <3>2, <3>3
    <3>5. H[k].seq > Len(log[c][H[k].node])
      BY <2>1, <2>3, <3>2
    <3>6. H[k] \in S
      BY <1>9, <3>4, <3>5
    <3> QED BY <2>1, <3>2, <3>6
  <2> QED BY <2>4, <2>5
<1>14. Fits(log[c], S)
  BY <1>13 DEF Fits
<1>15. ASSUME NEW i \in 1 .. n
       PROVE  H[last + i] \in S \/ H[last + i].seq <= Len(log[c][H[last + i].node])
  <2>1. /\ last + i \in last + 1 .. last + n /\ last + i \in 1 .. Len(H)
    BY <1>1, <1>7
  <2>2. H[last + i].seq \in Nat /\ Len(log[c][H[last + i].node]) \in Nat
    BY <1>6, <2>1
  <2>3. CASE H[last + i].seq > Len(log[c][H[last + i].node])
    BY <1>9, <2>1, <2>3
  <2> QED BY <2>2, <2>3
<1> QED BY <1>11, <1>12, <1>14, <1>15 DEF S, ops, n, last, H, c

\* The other processes of the client do not run.
LEMMA TakenEnds ==
  ASSUME OneProcess, ReplicationInv, NEW l \in Link,
         UNCHANGED <<written, hub, registry, strays>>,
         compacted' \in [Node -> [Node -> Nat]], file' \in [Client -> Nat],
         log' \in [Node -> [Node -> Seq(Id)]],
         ahead' \in [Node -> SUBSET Op], synced' \in [Node -> Nat],
         Dated', Copies',
         Advances(log, synced, hub.ops, log', synced', hub'.ops),
         \A m \in Node : m # l[1] => log'[m] = log[m],
         \A c \in Client :
            file'[c] = file[c] \/ Within(hub'.ops, log'[c], file'[c]),
         NEW k \in LinkRecord, link' = [link EXCEPT ![l] = k],
         LinkSound(l[1], k, log', synced', hub'.ops)
  PROVE  ReplicationInv'
<1>1. /\ link \in [Link -> LinkRecord] /\ log \in Logs /\ log' \in Logs
      /\ synced \in [Node -> Nat] /\ hub.ops \in Seq(Op)
      /\ \A m \in Link : m[1] \in Node /\ m[1] \in Client
      /\ l[1] # Server /\ Server \in Node
      /\ HubSound
  BY Bases DEF Logs, ReplicationInv
<1>2. /\ link' \in [Link -> LinkRecord] /\ link'[l] = k
      /\ \A m \in Link : m # l => link'[m] = link[m]
  BY <1>1
<1>3. ReplicationTyped'
  <2>1. ReplicationTyped
    BY DEF ReplicationInv
  <2> QED BY <1>2, <2>1 DEF ReplicationTyped
<1>4. HubSound'
  <2>1. Durable(log, synced) \subseteq Durable(log', synced')
    <3>1. hub'.ops = hub.ops
      OBVIOUS
    <3> QED BY <1>1, <3>1, DurableStays
  <2>2. log'[Server] = log[Server] /\ hub'.ops = hub.ops
    BY <1>1
  <2> QED BY <1>1, <2>1, <2>2 DEF HubSound
<1>5. ASSUME NEW m \in Link
      PROVE  \/ LinkSound(m[1], link'[m], log', synced', hub'.ops)
             \/ /\ link'[m] = link[m]
                /\ link[m].pc = "staged" =>
                      \A o \in Node : o # m[1] =>
                         Len(log'[m[1]][o]) <= Len(log[m[1]][o])
  <2>1. CASE m = l
    BY <1>2, <2>1
  <2>2. CASE m # l
    <3>1. m[1] # l[1]
      BY <2>2, OnlyLink
    <3>2. log'[m[1]] = log[m[1]]
      BY <1>1, <3>1
    <3>3. \A o \in Node : Len(log'[m[1]][o]) <= Len(log[m[1]][o])
      BY <1>1, <3>2, LogsHave
    <3> QED BY <1>2, <2>2, <3>3
  <2> QED BY <2>1, <2>2
<1>6. /\ \A c \in Client : registry'[c].cursor = registry[c].cursor
      /\ \A r \in strays' : r \in strays
  OBVIOUS
<1> QED BY <1>3, <1>4, <1>5, <1>6, Concludes

LEMMA ApplyMoves ==
  ASSUME OneProcess, ReplicationInv, NEW l \in Link, Apply(l)
  PROVE  Moves
<1> DEFINE c == l[1]
           S == Fresh(l)
           L == Appended(c, S)
           H == hub.ops
           k == [link[l] EXCEPT !.pc = "applied"]
<1>1. /\ link[l].pc = "page"
      /\ log' = [log EXCEPT ![c] = L]
      /\ ahead' = [ahead EXCEPT ![c] = Beyond(c, S)]
      /\ synced' = [synced EXCEPT ![c] =
                       IF S = {} THEN @ ELSE Len(log'[c][c])]
      /\ link' = [link EXCEPT ![l].pc = "applied"]
      /\ UNCHANGED <<written, compacted, hub, registry, file, strays>>
  BY DEF Apply, At, Fresh, Batch
<1>2. /\ c \in Client /\ c \in Node /\ Server \in Node /\ c # Server
      /\ log \in Logs /\ log \in [Node -> [Node -> Seq(Id)]]
      /\ log[c] \in [Node -> Seq(Id)] /\ log[Server] \in [Node -> Seq(Id)]
      /\ synced \in [Node -> Nat] /\ H \in Seq(Op) /\ Len(H) \in Nat
      /\ link \in [Link -> LinkRecord] /\ link[l] \in LinkRecord
      /\ compacted \in [Node -> [Node -> Nat]] /\ file \in [Client -> Nat]
      /\ ReplicationTyped /\ Dated /\ Copies /\ HubSound
  BY Bases DEF ReplicationInv
<1>3. /\ S \subseteq Durable(log, synced)
      /\ S \subseteq Authored
      /\ Fits(log[c], S)
      /\ \A op \in S : /\ op.seq > Len(log[c][op.node])
                       /\ op.seq <= Len(log[Server][op.node])
  BY <1>1, FreshIs
<1>4. \A i \in 1 .. Len(link[l].ops) :
         \/ H[link[l].last + i] \in S
         \/ H[link[l].last + i].seq <= Len(log[c][H[link[l].last + i].node])
  BY <1>1, FreshIs
<1>5. \A o \in Node : Prefix(log[c][o], log[o][o])
  BY <1>2, HeadHeld
<1>6. \A o \in Node : /\ Len(log[c][o]) \in Nat /\ Len(log[o][o]) \in Nat
                      /\ Len(log[Server][o]) \in Nat
  BY <1>2, LogsHave
<1> HIDE DEF S, c, H
<1>7. /\ Beyond(c, S) = {}
      /\ L \in [Node -> Seq(Id)]
      /\ \A o \in Node : Prefix(L[o], log[o][o])
      /\ \A o \in Node : Len(log[c][o]) <= Len(L[o])
      /\ \A op \in S : op.seq <= Len(L[op.node])
      /\ \A o \in Node :
            \/ L[o] = log[c][o]
            \/ \E op \in S : /\ op.node = o
                             /\ op.seq = Len(L[o])
      /\ InLog(L) = InLog(log[c]) \cup S
  <2>1. ahead[c] = {} /\ ReplicationTyped /\ Dated
    BY <1>2 DEF Copies
  <2> QED BY ONLY <1>2, <1>3, <1>5, <2>1, AppendIs
<1> HIDE DEF L
<1>8. \A op \in S : /\ op.node \in Node /\ op.seq \in Nat
                    /\ op.seq <= Len(log[op.node][op.node])
                    /\ op.seq <= synced[op.node]
  BY <1>2, <1>3, DurableHas
<1>9. L[c] = log[c][c]
  <2>1. ASSUME NEW op \in S, op.node = c PROVE FALSE
    <3>1. op.seq > Len(log[c][c]) /\ op.seq <= Len(log[c][c]) /\ op.seq \in Nat
      BY <1>3, <1>8, <2>1
    <3> QED BY <1>2, <1>6, <3>1
  <2> QED BY <1>2, <1>7, <2>1
<1>10. log'[c] = L /\ log'[c][c] = log[c][c]
  BY <1>1, <1>2, <1>9
<1>11. /\ synced' \in [Node -> Nat]
       /\ \A o \in Node : o # c => synced'[o] = synced[o]
       /\ synced'[c] = IF S = {} THEN synced[c] ELSE Len(log[c][c])
  BY <1>1, <1>2, <1>6, <1>10
<1>12. \A o \in Node : synced[o] <= synced'[o] /\ synced'[o] <= Len(log[o][o])
  <2>1. \A o \in Node : synced[o] \in Nat /\ synced[o] <= Len(log[o][o])
    BY <1>2 DEF Dated
  <2> QED BY <1>6, <1>11, <2>1
<1>13. ASSUME NEW o \in Node, o # c
       PROVE  Len(L[o]) <= synced'[o] /\ Len(L[o]) <= Len(log[Server][o])
  <2>1. CASE L[o] = log[c][o]
    <3>1. Len(log[c][o]) <= synced[o] /\ Len(log[c][o]) <= Len(log[Server][o])
      BY <1>2, <1>13 DEF Copies, Copied
    <3> QED BY <1>11, <1>13, <2>1, <3>1
  <2>2. ASSUME NEW op \in S, op.node = o, op.seq = Len(L[o])
        PROVE  Len(L[o]) <= synced'[o] /\ Len(L[o]) <= Len(log[Server][o])
    BY <1>3, <1>8, <1>11, <1>13, <2>2
  <2> QED BY <1>7, <2>1, <2>2
<1>14. /\ hub'.ops = H /\ hub.ops = H
       /\ Len(hub.ops) <= Len(hub'.ops)
       /\ \A j \in 1 .. Len(hub.ops) : hub'.ops[j] = hub.ops[j]
  BY <1>1, <1>2 DEF H
<1>15. /\ log' \in [Node -> [Node -> Seq(Id)]] /\ log' \in Logs
       /\ ahead' \in [Node -> SUBSET Op]
       /\ Dated' /\ Copies'
       /\ Advances(log, synced, hub.ops, log', synced', hub'.ops)
       /\ \A m \in Node : m # c => log'[m] = log[m]
  <2>1. ahead' = [ahead EXCEPT ![c] = {}]
    BY <1>1, <1>7
  <2>2. \A o \in Node :
           o # c => /\ Len(log[c][o]) <= Len(L[o])
                    /\ Prefix(L[o], log[o][o])
                    /\ Len(L[o]) <= synced'[o]
                    /\ c # Server => Len(L[o]) <= Len(log[Server][o])
    BY <1>7, <1>13
  <2>3. /\ L \in [Node -> Seq(Id)] /\ L[c] = log[c][c]
        /\ log' = [log EXCEPT ![c] = L] /\ c \in Node
        /\ synced' \in [Node -> Nat] /\ UNCHANGED written
        /\ hub'.ops \in Seq(Op)
    BY <1>1, <1>2, <1>7, <1>9, <1>11, <1>14
  <2> QED BY ONLY ReplicationInv, <1>12, <1>14, <2>1, <2>2, <2>3, CopyTaken
<1>16. k \in LinkRecord /\ k.pc = "applied" /\ k.last = link[l].last
       /\ k.pushed = link[l].pushed /\ k.ops = link[l].ops
       /\ link' = [link EXCEPT ![l] = k]
  BY <1>1, <1>2 DEF LinkRecord
<1> HIDE DEF k
<1>17. LinkSound(c, k, log', synced', hub'.ops)
  <2> DEFINE last == link[l].last
             ops == link[l].ops
  <2>1. /\ last \in Nat /\ Len(ops) \in Nat
        /\ Within(H, log[c], last)
        /\ link[l].pushed <= Len(log[Server][c])
        /\ Paged(link[l], H)
    BY <1>1, Bases, LinkHas DEF H, c, LinkSound
  <2>2. last + Len(ops) <= Len(H) /\ Paged(k, H)
    BY <1>16, <2>1 DEF Paged
  <2> HIDE DEF last, ops
  <2>3. ASSUME NEW j \in 1 .. last + Len(ops)
        PROVE  H[j].seq <= Len(L[H[j].node])
    <3> DEFINE op == H[j]
    <3>1. j \in 1 .. Len(H)
      BY <1>2, <2>1, <2>2
    <3>2. op \in Durable(log, synced)
      BY <1>2, <3>1 DEF HubSound, H
    <3> HIDE DEF op
    <3>3. op.node \in Node /\ op.seq \in Nat
      BY <1>2, <3>2, DurableHas
    <3>4. Len(log[c][op.node]) \in Nat /\ Len(L[op.node]) \in Nat
          /\ Len(log[c][op.node]) <= Len(L[op.node])
      BY <1>6, <1>7, <3>3
    <3>5. op \in S \/ op.seq <= Len(log[c][op.node])
      <4>1. CASE j <= last
        <5>1. j \in 1 .. last
          BY <2>1, <4>1
        <5> QED BY <2>1, <5>1 DEF Within, op
      <4>2. CASE ~ (j <= last)
        <5>1. j - last \in 1 .. Len(ops) /\ last + (j - last) = j
          BY <2>1, <4>2
        <5>2. \/ H[last + (j - last)] \in S
              \/ H[last + (j - last)].seq <=
                    Len(log[c][H[last + (j - last)].node])
          BY <1>4, <5>1 DEF last, ops
        <5> QED BY <5>1, <5>2 DEF op
      <4> QED BY <4>1, <4>2
    <3>6. op.seq <= Len(L[op.node])
      <4>1. CASE op \in S
        BY <1>7, <4>1
      <4>2. CASE op.seq <= Len(log[c][op.node])
        BY <3>3, <3>4, <4>2
      <4> QED BY <3>5, <4>1, <4>2
    <3> QED BY <3>6 DEF op
  <2>4. Within(H, L, last + Len(ops))
    BY <2>2, <2>3 DEF Within
  <2>5. Within(H, L, last)
    <3>1. last <= Len(H)
      BY <2>1 DEF Within
    <3>2. \A j \in 1 .. last : j \in 1 .. last + Len(ops)
      BY <2>1
    <3> QED BY <2>3, <3>1, <3>2 DEF Within
  <2>6. k.last = last /\ k.ops = ops
    BY <1>16 DEF last, ops
  <2>7. log'[Server] = log[Server]
    BY <1>2, <1>15
  <2>8. Within(H, log'[c], k.last) /\ Within(H, log'[c], k.last + Len(k.ops))
    BY <1>10, <2>4, <2>5, <2>6
  <2>9. k.pushed <= Len(log'[Server][c])
    BY <1>16, <2>1, <2>7
  <2> QED BY <1>14, <1>16, <2>2, <2>8, <2>9 DEF LinkSound
<1>18. ReplicationInv'
  <2>1. \A d \in Client : file'[d] = file[d]
    BY <1>1
  <2>2. /\ compacted' \in [Node -> [Node -> Nat]] /\ file' \in [Client -> Nat]
        /\ UNCHANGED <<written, hub, registry, strays>>
    BY <1>1, <1>2
  <2> QED BY <1>11, <1>15, <1>16, <1>17, <2>1, <2>2, TakenEnds DEF c
<1>19. [Abstract!Next]_<<known, kept>>
  <2>1. CASE S = {}
    <3>1. synced' = synced
      BY <1>1, <1>2, <2>1
    <3>2. \A o \in Node : L[o] = log[c][o]
      BY <1>7, <2>1
    <3>3. L = log[c]
      BY <1>2, <1>7, <3>2
    <3>4. log' = log
      BY <1>1, <1>2, <3>3
    <3> QED BY <1>2, <1>15, <3>1, <3>4, SetsStay
  <2>2. CASE S # {}
    <3>1. S \subseteq Keeps(log, synced)[Server]
      <4> SUFFICES ASSUME NEW op \in S PROVE op \in Keeps(log, synced)[Server]
        OBVIOUS
      <4>1. /\ op \in Durable(log, synced) /\ op.seq <= synced[op.node]
            /\ op.seq <= Len(log[Server][op.node]) /\ op.node \in Node
        BY <1>3, <1>8
      <4>2. op \in Authored /\ Prefix(log[Server][op.node], Origins[op.node])
            /\ Origins \in [Node -> Seq(Id)]
        BY <1>2, <1>3, <4>1, HeadHeld, AuthoredTyped DEF Origins
      <4>3. op \in InLog(log[Server])
        BY <1>2, <4>1, <4>2, PrefixHolds DEF Authored
      <4> QED BY <1>2, <4>1, <4>3 DEF Keeps
    <3>2. synced' = [synced EXCEPT ![c] = Len(L[c])]
      BY <1>1, <1>2, <1>10, <2>2
    <3>3. /\ Copies' /\ c \in Node /\ Server \in Node /\ Server # c
          /\ L \in [Node -> Seq(Id)] /\ log' = [log EXCEPT ![c] = L]
          /\ synced \in [Node -> Nat]
          /\ synced[Server] = synced[Server]
          /\ \A o \in Node : o # Server => synced[o] = synced[o]
          /\ InLog(L) = InLog(log[c]) \cup S
          /\ ReplicationTyped /\ Copies
      BY <1>1, <1>2, <1>7, <1>15
    <3> QED BY ONLY <3>1, <3>2, <3>3, Learns
  <2> QED BY <2>1, <2>2
<1> QED BY <1>15, <1>18, <1>19 DEF Moves

LEMMA InstallMoves ==
  ASSUME OneProcess, ReplicationInv, NEW l \in Link, Install(l)
  PROVE  Moves
<1> DEFINE c == l[1]
           snap == link[l].snap
           L == snap.log
           own == Len(L[c])
           H == hub.ops
           k == [link[l] EXCEPT !.pc = "installed", !.last = 0,
                                !.pushed = own, !.snap = <<>>]
<1>0. link[l].pc = "staged"
  BY DEF Install, At
<1>1. /\ c \in Client /\ c \in Node /\ Server \in Node /\ c # Server
      /\ log \in Logs /\ log \in [Node -> [Node -> Seq(Id)]]
      /\ log[c] \in [Node -> Seq(Id)] /\ log[Server] \in [Node -> Seq(Id)]
      /\ synced \in [Node -> Nat] /\ H \in Seq(Op) /\ Len(H) \in Nat
      /\ link \in [Link -> LinkRecord] /\ link[l] \in LinkRecord
      /\ compacted \in [Node -> [Node -> Nat]] /\ file \in [Client -> Nat]
      /\ ReplicationTyped /\ Dated /\ Copies /\ HubSound
  BY Bases DEF ReplicationInv
<1>2. Staged(c, snap, log, synced, H)
  BY <1>0, Bases DEF LinkSound
<1>3. CASE OutboxGrew(c, snap)
  <2>1. /\ link' = GiveUp(l)
        /\ UNCHANGED <<written, log, ahead, synced, compacted, hub, registry,
                       file, strays>>
    BY <1>3 DEF Install, replicas
  <2>2. /\ link' \in [Link -> LinkRecord]
        /\ \A m \in Link :
              \/ link'[m] = link[m]
              \/ LinkSound(m[1], link'[m], log, synced, hub.ops)
    BY <2>1, GiveUpIs
  <2> QED BY <2>1, <2>2, Bases, StillServed
<1>4. CASE ~ OutboxGrew(c, snap)
  <2>1. /\ log' = [log EXCEPT ![c] = L]
        /\ ahead' = [ahead EXCEPT ![c] = snap.ahead]
        /\ synced' = [synced EXCEPT ![c] = own]
        /\ compacted' = [compacted EXCEPT ![c] = snap.compacted]
        /\ file' = [file EXCEPT ![c] = snap.last]
        /\ link' = [link EXCEPT ![l].pc = "installed", ![l].last = 0,
                                ![l].pushed = own, ![l].snap = <<>>]
        /\ UNCHANGED <<written, hub, registry, strays>>
    BY <1>4 DEF Install
  <2>2. ~ (Len(log[c][c]) > own)
    BY <1>4 DEF OutboxGrew
  <2> HIDE DEF c, snap, H
  <2>3. /\ snap.ahead = {} /\ snap.last \in Nat /\ L \in [Node -> Seq(Id)]
        /\ snap.compacted \in [Node -> Nat]
        /\ Within(H, L, snap.last)
    BY <1>2 DEF Staged, Snapshot
  <2>4. \A o \in Node : /\ Copied(L[o], o, log, synced)
                        /\ Len(L[o]) <= Len(log[Server][o])
                        /\ o # c => Len(log[c][o]) <= Len(L[o])
    BY <1>2 DEF Staged
  <2> HIDE DEF L
  <2>5. \A o \in Node : /\ Len(log[c][o]) \in Nat /\ Len(log[o][o]) \in Nat
                        /\ Len(log[Server][o]) \in Nat /\ Len(L[o]) \in Nat
                        /\ Len(L[o]) <= Len(log[o][o])
                        /\ Len(L[o]) <= synced[o]
                        /\ \A i \in 1 .. Len(L[o]) : L[o][i] = log[o][o][i]
    <3>1. ASSUME NEW o \in Node
          PROVE  /\ Len(log[c][o]) \in Nat /\ Len(log[o][o]) \in Nat
                 /\ Len(log[Server][o]) \in Nat /\ Len(L[o]) \in Nat
      <4>1. L[o] \in Seq(Id)
        BY <2>3
      <4>2. Len(L[o]) \in Nat
        BY <4>1
      <4> QED BY <1>1, <4>2, LogsHave
    <3>2. \A o \in Node : /\ Len(L[o]) <= Len(log[o][o])
                          /\ Len(L[o]) <= synced[o]
                          /\ \A i \in 1 .. Len(L[o]) : L[o][i] = log[o][o][i]
      BY ONLY <2>4 DEF Copied, Prefix
    <3> QED BY <3>1, <3>2
  <2>6. L[c] = log[c][c]
    <3> DEFINE s == L[c]
               t == log[c][c]
    <3>1. s \in Seq(Id) /\ t \in Seq(Id)
      BY <1>1, <2>3
    <3>2. /\ Len(s) \in Nat /\ Len(t) \in Nat /\ Len(s) <= Len(t)
          /\ \A i \in 1 .. Len(s) : s[i] = t[i]
      <4> HIDE DEF own
      <4> QED BY <1>1, <2>5
    <3>3. ~ (Len(t) > Len(s))
      BY <2>2
    <3> HIDE DEF s, t, own
    <3>4. Len(s) = Len(t)
      BY ONLY <3>2, <3>3
    <3>5. s = t
      BY ONLY <3>1, <3>2, <3>4
    <3> QED BY <3>5 DEF s, t
  <2>7. own = Len(L[c]) /\ own = Len(log[c][c]) /\ own \in Nat
    BY <1>1, <2>5, <2>6
  <2> HIDE DEF own
  <2>8. /\ synced' \in [Node -> Nat] /\ synced'[c] = own
        /\ \A o \in Node : o # c => synced'[o] = synced[o]
    BY <1>1, <2>1, <2>7
  <2>9. \A o \in Node : synced[o] <= synced'[o] /\ synced'[o] <= Len(log[o][o])
    <3>1. \A o \in Node : synced[o] \in Nat /\ synced[o] <= Len(log[o][o])
      BY <1>1 DEF Dated
    <3> QED BY <2>5, <2>7, <2>8, <3>1
  <2>10. /\ hub'.ops = H /\ hub.ops = H
         /\ Len(hub.ops) <= Len(hub'.ops)
         /\ \A j \in 1 .. Len(hub.ops) : hub'.ops[j] = hub.ops[j]
    BY <1>1, <2>1 DEF H
  <2>11. /\ log' \in [Node -> [Node -> Seq(Id)]] /\ log' \in Logs
         /\ ahead' \in [Node -> SUBSET Op]
         /\ Dated' /\ Copies'
         /\ Advances(log, synced, hub.ops, log', synced', hub'.ops)
         /\ log'[c] = L
         /\ \A m \in Node : m # c => log'[m] = log[m]
    <3>1. ahead' = [ahead EXCEPT ![c] = {}]
      BY <2>1, <2>3
    <3>2. \A o \in Node :
             o # c => /\ Len(log[c][o]) <= Len(L[o])
                      /\ Prefix(L[o], log[o][o])
                      /\ Len(L[o]) <= synced'[o]
                      /\ c # Server => Len(L[o]) <= Len(log[Server][o])
      BY <2>4, <2>5, <2>8 DEF Copied
    <3>3. /\ L \in [Node -> Seq(Id)] /\ L[c] = log[c][c]
          /\ log' = [log EXCEPT ![c] = L] /\ c \in Node
          /\ synced' \in [Node -> Nat] /\ UNCHANGED written
          /\ hub'.ops \in Seq(Op)
      BY <1>1, <2>1, <2>3, <2>6, <2>8, <2>10
    <3> QED BY ONLY ReplicationInv, <2>9, <2>10, <3>1, <3>2, <3>3, CopyTaken
  <2>12. k \in LinkRecord /\ k.pc = "installed" /\ k.last = 0 /\ k.pushed = own
         /\ link' = [link EXCEPT ![l] = k]
    BY <1>1, <2>1, <2>7 DEF LinkRecord
  <2> HIDE DEF k
  <2>13. LinkSound(c, k, log', synced', hub'.ops)
    <3>1. Within(H, log'[c], k.last)
      BY <1>1, <2>12, NoneTaken
    <3>2. own <= Len(log'[Server][c])
      BY <1>1, <2>4, <2>7, <2>11
    <3> QED BY <2>10, <2>12, <3>1, <3>2, PlainSound
  <2>14. ReplicationInv'
    <3>1. compacted' \in [Node -> [Node -> Nat]] /\ file' \in [Client -> Nat]
      BY <1>1, <2>1, <2>3
    <3>2. ASSUME NEW d \in Client
          PROVE  file'[d] = file[d] \/ Within(hub'.ops, log'[d], file'[d])
      BY <1>1, <2>1, <2>3, <2>10, <2>11
    <3> QED BY <2>1, <2>8, <2>11, <2>12, <2>13, <3>1, <3>2, TakenEnds DEF c
  <2>15. [Abstract!Next]_<<known, kept>>
    <3>1. \A o \in Node : Prefix(log[c][o], L[o]) /\ Prefix(L[o], log[Server][o])
      <4>1. ASSUME NEW o \in Node
            PROVE  Prefix(log[c][o], L[o]) /\ Prefix(L[o], log[Server][o])
        <5>1. Prefix(log[c][o], log[o][o]) /\ Prefix(log[Server][o], log[o][o])
          BY <1>1, HeadHeld
        <5>2. Len(log[c][o]) <= Len(L[o]) /\ Len(L[o]) <= Len(log[Server][o])
          BY <2>4, <2>5, <2>6
        <5>3. Prefix(L[o], log[o][o])
          BY <2>5 DEF Prefix
        <5>4. /\ log[c][o] \in Seq(Id) /\ log[Server][o] \in Seq(Id)
              /\ log[o][o] \in Seq(Id) /\ L[o] \in Seq(Id)
          BY <1>1, <2>3
        <5> QED BY <5>1, <5>2, <5>3, <5>4, ShorterPrefix
      <4> QED BY <4>1
    <3>2. InLog(log[c]) \subseteq InLog(L) /\ InLog(L) \subseteq InLog(log[Server])
      BY <1>1, <2>3, <3>1, PrefixWithin
    <3>3. InLog(L) \subseteq Keeps(log, synced)[Server]
      <4> SUFFICES ASSUME NEW op \in InLog(L)
                   PROVE  op \in Keeps(log, synced)[Server]
        OBVIOUS
      <4>1. op.node \in Node /\ op.seq \in 1 .. Len(L[op.node])
        BY <2>3, InLogHas
      <4>2. op.node = Server => op.seq <= synced[Server]
        BY <1>1, <2>5, <4>1
      <4> QED BY <1>1, <3>2, <4>2 DEF Keeps
    <3>4. InLog(L) = InLog(log[c]) \cup InLog(L)
      BY <3>2
    <3>5. /\ Copies' /\ c \in Node /\ Server \in Node /\ Server # c
          /\ L \in [Node -> Seq(Id)] /\ log' = [log EXCEPT ![c] = L]
          /\ synced \in [Node -> Nat]
          /\ synced[Server] = synced[Server]
          /\ \A o \in Node : o # Server => synced[o] = synced[o]
          /\ synced' = [synced EXCEPT ![c] = Len(L[c])]
          /\ ReplicationTyped /\ Copies
      BY <1>1, <2>1, <2>3, <2>7, <2>11
    <3> DEFINE S == InLog(L)
    <3>6. S \subseteq Keeps(log, synced)[Server] /\ InLog(L) = InLog(log[c]) \cup S
      BY <3>3, <3>4
    <3> HIDE DEF S
    <3> QED BY ONLY <3>5, <3>6, Learns
  <2> QED BY <2>11, <2>14, <2>15 DEF Moves
<1> QED BY <1>3, <1>4

-----------------------------------------------------------------------------
(* Steps of a node on its own log.                                         *)

LEMMA OwnLog ==
  ASSUME ReplicationInv, NEW n \in Node, NEW s \in Seq(Id),
         log' = [log EXCEPT ![n] = [log[n] EXCEPT ![n] = s]],
         UNCHANGED <<ahead, synced, compacted, hub, registry, file>>,
         written' \in Number, Dated',
         synced[n] <= Len(s), \A i \in 1 .. synced[n] : s[i] = log[n][n][i],
         link' \in [Link -> LinkRecord],
         \A l \in Link : link'[l] \in {link[l], Idle},
         strays' \subseteq strays
  PROVE  /\ ReplicationInv' /\ Copies'
         /\ Advances(log, synced, hub.ops, log', synced', hub'.ops)
<1>1. /\ log \in Logs /\ log \in [Node -> [Node -> Seq(Id)]]
      /\ synced \in [Node -> Nat] /\ hub.ops \in Seq(Op) /\ Len(hub.ops) \in Nat
      /\ Server \in Node
      /\ ReplicationTyped /\ Dated /\ Copies /\ HubSound
  BY Bases DEF ReplicationInv
<1>2. /\ log' \in [Node -> [Node -> Seq(Id)]]
      /\ log'[n][n] = s
      /\ \A m, o \in Node : m # n \/ o # n => log'[m][o] = log[m][o]
  BY <1>1
<1>3. log' \in Logs
  BY <1>2 DEF Logs
<1>4. synced' = synced /\ hub'.ops = hub.ops /\ ahead' = ahead
  OBVIOUS
<1>5. \A m, o \in Node : Len(log[m][o]) \in Nat /\ Len(log'[m][o]) \in Nat
  BY <1>1, <1>3, LogsHave
<1>6. Advances(log, synced, hub.ops, log', synced', hub'.ops)
  <2>1. ASSUME NEW o \in Node
        PROVE  /\ synced[o] <= synced'[o]
               /\ synced'[o] <= Len(log'[o][o])
               /\ \A i \in 1 .. synced[o] : log'[o][o][i] = log[o][o][i]
    <3>1. synced[o] \in Nat /\ synced[o] <= Len(log[o][o])
      BY <1>1 DEF Dated
    <3>2. CASE o = n
      BY <1>2, <1>4, <3>1, <3>2
    <3>3. CASE o # n
      BY <1>2, <1>4, <3>1, <3>3
    <3> QED BY <3>2, <3>3
  <2>2. \A m, o \in Node : m # o => Len(log[m][o]) <= Len(log'[m][o])
    BY <1>2, <1>5
  <2> QED BY <1>1, <1>4, <2>1, <2>2 DEF Advances
<1>7. ASSUME NEW m \in Node, NEW o \in Node, m # o
      PROVE  Copied(log'[m][o], o, log', synced')
  <2>1. Copied(log[m][o], o, log, synced) /\ log[m][o] \in Seq(Id)
    BY <1>1, <1>7, LogsHave DEF Copies
  <2>2. Copied(log[m][o], o, log', synced')
    BY ONLY <1>1, <1>3, <1>4, <1>6, <2>1, m \in Node, o \in Node, CopiedStays
  <2> QED BY <1>2, <1>7, <2>2
<1>8. ASSUME NEW c \in Client, NEW o \in Node, c # o
      PROVE  Len(log'[c][o]) <= Len(log'[Server][o])
  <2>1. c \in Node /\ c # Server
    BY Bases
  <2>2. CASE o = Server
    BY <1>7, <2>1, <2>2 DEF Copied, Prefix
  <2>3. CASE o # Server
    <3>1. log'[c][o] = log[c][o] /\ log'[Server][o] = log[Server][o]
      BY <1>1, <1>2, <1>8, <2>1, <2>3
    <3> QED BY <1>1, <1>8, <3>1 DEF Copies
  <2> QED BY <2>2, <2>3
<1>9. Copies'
  <2>1. \A m \in Node : ahead'[m] = {}
    BY <1>1, <1>4 DEF Copies
  <2> QED BY <1>7, <1>8, <2>1 DEF Copies
<1>10. HubSound'
  <2> DEFINE H == hub.ops
             m == Len(H)
  <2>1. /\ synced' \in [Node -> Nat] /\ hub'.ops \in Seq(Op)
        /\ H \in Seq(Op) /\ m \in Nat /\ hub'.ops = H
        /\ Within(H, log[Server], m)
        /\ \A j \in 1 .. Len(H) : H[j] \in Durable(log, synced)
        /\ Advances(log, synced, H, log', synced', hub'.ops)
    BY <1>1, <1>4, <1>6 DEF HubSound
  <2>2. Orderly(H)
    BY <1>1 DEF HubSound
  <2> HIDE DEF H
  <2>3. Durable(log, synced) \subseteq Durable(log', synced')
    BY ONLY <1>1, <1>3, <2>1, DurableStays
  <2> HIDE DEF m
  <2>4. Within(hub'.ops, log'[Server], m)
    BY ONLY <1>1, <1>3, <2>1, WithinStays
  <2> QED BY <2>1, <2>2, <2>3, <2>4 DEF HubSound, m
<1>11. ReplicationTyped'
  <2>1. strays' \subseteq [client : Client, push : Seq(Op)]
                            \cup [client : Client, after : Nat]
    BY Bases
  <2> QED BY <1>1, <1>2, <2>1 DEF ReplicationTyped
<1>12. ASSUME NEW l \in Link
       PROVE  \/ LinkSound(l[1], link'[l], log', synced', hub'.ops)
              \/ /\ link'[l] = link[l]
                 /\ link[l].pc = "staged" =>
                       \A o \in Node : o # l[1] =>
                          Len(log'[l[1]][o]) <= Len(log[l[1]][o])
  <2>1. l[1] \in Node /\ l[1] \in Client
    BY Bases
  <2>2. CASE link'[l] = Idle
    BY <1>1, <1>3, <1>4, <2>1, <2>2, IdleSound
  <2>3. CASE link'[l] = link[l]
    <3>1. ASSUME NEW o \in Node, o # l[1]
          PROVE  Len(log'[l[1]][o]) <= Len(log[l[1]][o])
      BY <1>2, <1>5, <2>1, <3>1
    <3> QED BY <2>3, <3>1
  <2> QED BY <2>2, <2>3
<1>13. /\ \A c \in Client : file'[c] = file[c]
       /\ \A c \in Client : registry'[c].cursor = registry[c].cursor
       /\ \A r \in strays' : r \in strays
  OBVIOUS
<1> QED BY <1>6, <1>9, <1>10, <1>11, <1>12, <1>13, Concludes

LEMMA WriteMoves ==
  ASSUME ReplicationInv, NEW n \in Node, Write(n)
  PROVE  Moves
<1> DEFINE own == log[n][n]
           m == Len(own)
           id == written + 1
           s == Append(own, id)
           M == [log[n] EXCEPT ![n] = s]
           op == [node |-> n, seq |-> m + 1, id |-> id]
<1>1. /\ written < MaxOps /\ written' = id
      /\ log' = [log EXCEPT ![n][n] = s]
      /\ UNCHANGED <<ahead, synced, compacted, hub, registry, file, link,
                     strays>>
  BY DEF Write
<1>2. /\ log \in [Node -> [Node -> Seq(Id)]] /\ log \in Logs
      /\ log[n] \in [Node -> Seq(Id)] /\ own \in Seq(Id) /\ m \in Nat
      /\ synced \in [Node -> Nat] /\ written \in Nat /\ MaxOps \in Nat
      /\ synced[n] <= m /\ m <= written
      /\ ReplicationTyped /\ Dated /\ Copies
  <2>1. ReplicationTyped /\ Dated /\ Copies
    BY DEF ReplicationInv
  <2>2. log \in [Node -> [Node -> Seq(Id)]] /\ log \in Logs
        /\ synced \in [Node -> Nat]
    BY Bases
  <2>3. own \in Seq(Id) /\ m \in Nat
    BY <2>2, LogsHave
  <2>4. written \in Nat /\ MaxOps \in Nat
    BY <2>1, ReplicationAssumption DEF ReplicationTyped, Number
  <2>5. synced[n] <= m /\ m <= written
    BY <2>1 DEF Dated
  <2> HIDE DEF own, m
  <2> QED BY <2>1, <2>2, <2>3, <2>4, <2>5
<1>3. log' = [log EXCEPT ![n] = M]
  BY <1>1, <1>2
<1>4. id \in Id /\ id \in Number /\ id \in Nat
  BY <1>1, <1>2 DEF Id, Number
<1> HIDE DEF id, own
<1>5. /\ s \in Seq(Id) /\ Len(s) = m + 1 /\ s[m + 1] = id
      /\ \A i \in 1 .. m : s[i] = own[i]
  BY <1>2, <1>4
<1> HIDE DEF s
<1>6. /\ M \in [Node -> Seq(Id)] /\ M[n] = s
      /\ \A o \in Node : o # n => M[o] = log[n][o]
  BY <1>2, <1>5
<1> HIDE DEF M
<1>7. /\ log' \in [Node -> [Node -> Seq(Id)]] /\ log'[n] = M
      /\ \A p \in Node : p # n => log'[p] = log[p]
  BY <1>2, <1>3, <1>6
<1>8. op \in Op /\ op.node = n /\ op.seq = m + 1 /\ op.id = id
  <2>1. m + 1 \in Number
    BY <1>1, <1>2 DEF Number
  <2> QED BY <1>4, <2>1 DEF Op
<1> HIDE DEF m, op
<1>9. ASSUME NEW L \in [Node -> Seq(Id)], NEW L2 \in [Node -> Seq(Id)],
             L[n] = own, L2[n] = s, \A o \in Node : o # n => L2[o] = L[o]
      PROVE  InLog(L2) = InLog(L) \cup {op}
  <2>1. \A o \in Node : Prefix(L[o], L2[o])
    <3>1. ASSUME NEW o \in Node PROVE Prefix(L[o], L2[o])
      <4>1. CASE o = n
        BY <1>2, <1>5, <1>9, <4>1 DEF Prefix, m
      <4>2. CASE o # n
        <5>1. Len(L[o]) \in Nat
          BY <1>9
        <5> QED BY <1>9, <4>2, <5>1 DEF Prefix
      <4> QED BY <4>1, <4>2
    <3> QED BY <3>1
  <2>2. InLog(L) \subseteq InLog(L2)
    BY <1>9, <2>1, PrefixWithin
  <2>3. op \in InLog(L2)
    <3>1. m + 1 \in 1 .. Len(L2[n]) /\ L2[n][m + 1] = id
      BY <1>2, <1>5, <1>9
    <3>2. [node |-> n, seq |-> m + 1, id |-> L2[n][m + 1]] \in InLog(L2)
      BY <1>9, <3>1, InLogHolds
    <3> QED BY <3>1, <3>2 DEF op
  <2>4. ASSUME NEW q \in InLog(L2), q # op PROVE q \in InLog(L)
    <3>1. /\ q.node \in Node /\ q.seq \in 1 .. Len(L2[q.node])
          /\ q.id = L2[q.node][q.seq] /\ q.seq \in Nat
          /\ q = [node |-> q.node, seq |-> q.seq, id |-> q.id]
      BY <1>9, InLogHas
    <3>2. CASE q.node # n
      BY <1>9, <3>1, <3>2, InLogHolds
    <3>3. CASE q.node = n
      <4>1. q.seq # m + 1
        BY <1>5, <1>9, <2>4, <3>1, <3>3 DEF op
      <4>2. q.seq \in 1 .. m
        BY <1>2, <1>5, <1>9, <3>1, <3>3, <4>1
      <4>3. q.seq \in 1 .. Len(L[n]) /\ q.id = L[n][q.seq]
        BY <1>5, <1>9, <3>1, <3>3, <4>2 DEF m
      <4> QED BY <1>9, <3>1, <3>3, <4>3, InLogHolds
    <3> QED BY <3>2, <3>3
  <2> QED BY <2>2, <2>3, <2>4
<1>10. Authored' = Authored \cup {op}
  <2>1. Origins \in [Node -> Seq(Id)] /\ Origins' \in [Node -> Seq(Id)]
    BY <1>2, <1>7 DEF Origins
  <2>2. Origins[n] = own /\ Origins'[n] = s
        /\ \A o \in Node : o # n => Origins'[o] = Origins[o]
    BY <1>6, <1>7 DEF Origins, own
  <2>3. Authored' = InLog(Origins')
    BY DEF Authored, InLog
  <2> HIDE DEF Origins
  <2> QED BY <1>9, <2>1, <2>2, <2>3 DEF Authored
<1>11. Dated'
  <2>1. ASSUME NEW o \in Node
        PROVE  synced'[o] <= Len(log'[o][o]) /\ Len(log'[o][o]) <= written'
    <3>1. CASE o = n
      BY <1>1, <1>2, <1>5, <1>6, <1>7, <3>1 DEF id
    <3>2. CASE o # n
      <4>1. log'[o][o] = log[o][o] /\ synced[o] <= Len(log[o][o])
            /\ Len(log[o][o]) <= written /\ Len(log[o][o]) \in Nat
        BY <1>2, <1>7, <3>2, LogsHave DEF Dated
      <4> QED BY <1>1, <1>2, <4>1 DEF id
    <3> QED BY <3>1, <3>2
  <2>2. ASSUME NEW a \in Authored
        PROVE  /\ a.id <= written /\ a.id < id /\ a.id \in Nat
               /\ a.node = n => a.seq < op.seq /\ a.seq \in Nat
    <3>1. /\ Origins \in [Node -> Seq(Id)]
          /\ a.id \in Nat /\ a.seq \in 1 .. Len(Origins[a.node])
          /\ a.node \in Node /\ a.id <= written
      BY <1>2, AuthoredTyped, InLogHas DEF Authored, Dated
    <3>2. a.node = n => a.seq \in 1 .. m
      BY <3>1 DEF Origins, m, own
    <3>3. a.node = n => a.seq < op.seq /\ a.seq \in Nat
      <4> HIDE DEF m
      <4> QED BY <1>2, <1>8, <3>2
    <3>4. a.id < id
      BY <1>2, <3>1 DEF id
    <3> QED BY <3>1, <3>3, <3>4
  <2>3. \A a \in Authored' :
           \/ a \in Authored
           \/ a = op
    BY <1>10
  <2>4. ASSUME NEW a \in Authored', NEW b \in Authored'
        PROVE  /\ a.id <= written'
               /\ a.id = b.id => a = b
               /\ a.node = b.node /\ a.seq < b.seq => a.id < b.id
    <3>1. CASE a \in Authored /\ b \in Authored
      <4>1. /\ a.id <= written
            /\ a.id = b.id => a = b
            /\ a.node = b.node /\ a.seq < b.seq => a.id < b.id
        BY <1>2, <3>1 DEF Dated
      <4> QED BY <1>1, <1>2, <2>2, <3>1, <4>1 DEF id
    <3>2. CASE a \in Authored /\ b = op
      BY <1>1, <1>2, <1>4, <1>8, <2>2, <3>2
    <3>3. CASE a = op /\ b \in Authored
      <4>1. op.seq \in Nat
        BY <1>2, <1>8
      <4> QED BY <1>1, <1>2, <1>4, <1>8, <2>2, <3>3, <4>1
    <3>4. CASE a = op /\ b = op
      <4>1. op.seq \in Nat
        BY <1>2, <1>8
      <4> QED BY <1>1, <1>2, <1>4, <1>8, <3>4, <4>1
    <3> QED BY <2>3, <3>1, <3>2, <3>3, <3>4
  <2> QED BY <2>1, <2>4 DEF Dated
<1>12. /\ ReplicationInv' /\ Copies'
       /\ Advances(log, synced, hub.ops, log', synced', hub'.ops)
  <2>1. /\ synced[n] <= Len(s) /\ s \in Seq(Id)
        /\ \A i \in 1 .. synced[n] : s[i] = log[n][n][i]
    <3>1. synced[n] \in Nat
      BY <1>2
    <3>2. \A i \in 1 .. synced[n] : i \in 1 .. m
      BY <1>2, <3>1
    <3>3. synced[n] <= Len(s)
      BY <1>2, <1>5, <3>1
    <3> QED BY <1>5, <3>2, <3>3 DEF own
  <2>2. /\ link' \in [Link -> LinkRecord]
        /\ \A l \in Link : link'[l] \in {link[l], Idle}
        /\ strays' \subseteq strays
        /\ written' \in Number
    BY <1>1, <1>4, Bases
  <2>3. log' = [log EXCEPT ![n] = [log[n] EXCEPT ![n] = s]]
    BY <1>3 DEF M
  <2> QED BY <1>1, <1>11, <2>1, <2>2, <2>3, OwnLog
<1>13. [Abstract!Next]_<<known, kept>>
  <2>1. /\ known = Holds(log) /\ kept = Keeps(log, synced)
        /\ known' = Holds(log') /\ kept' = Keeps(log', synced')
    BY <1>2, <1>12, SetsAre
  <2>2. InLog(M) = InLog(log[n]) \cup {op}
    BY <1>2, <1>6, <1>9 DEF own
  <2>3. Holds(log') = [Holds(log) EXCEPT ![n] = Holds(log)[n] \cup {op}]
    <3>1. ASSUME NEW p \in Node
          PROVE  Holds(log')[p] =
                    IF p = n THEN Holds(log)[n] \cup {op} ELSE Holds(log)[p]
      BY <1>7, <2>2 DEF Holds
    <3> QED BY <3>1 DEF Holds
  <2>4. Keeps(log', synced') = Keeps(log, synced)
    <3>1. ~ (op.seq <= synced[n])
      BY <1>2, <1>8
    <3>2. ASSUME NEW p \in Node
          PROVE  Keeps(log', synced')[p] = Keeps(log, synced)[p]
      <4>1. CASE p = n
        <5>1. {q \in InLog(M) : q.node = n => q.seq <= synced[n]}
                = {q \in InLog(log[n]) : q.node = n => q.seq <= synced[n]}
          BY <1>8, <2>2, <3>1
        <5> QED BY <1>1, <1>7, <4>1, <5>1 DEF Keeps
      <4>2. CASE p # n
        BY <1>1, <1>7, <4>2 DEF Keeps
      <4> QED BY <4>1, <4>2
    <3> QED BY <3>2 DEF Keeps
  <2>5. ASSUME NEW p \in Node, NEW q \in known[p]
        PROVE  ~ (q.node = n /\ q.seq = op.seq)
    <3>1. log[p] \in [Node -> Seq(Id)] /\ q \in InLog(log[p])
      BY <1>2, <2>1 DEF Holds
    <3>2. q.node \in Node /\ q.seq \in 1 .. Len(log[p][q.node])
      BY <3>1, InLogHas
    <3>3. /\ Len(log[p][n]) \in Nat /\ Len(log[p][n]) <= m
      BY HeadHeld DEF m, own
    <3> QED BY <1>2, <1>8, <3>2, <3>3
  <2>6. Abstract!Write(n)
    <3>1. known' = [known EXCEPT ![n] = @ \cup {op}] /\ kept' = kept
      BY <2>1, <2>3, <2>4
    <3> QED BY <1>8, <2>5, <3>1 DEF Abstract!Write
  <2> QED BY <2>6 DEF Abstract!Next
<1> QED BY <1>12, <1>13 DEF Moves

LEMMA LosePowerMoves ==
  ASSUME ReplicationInv, NEW n \in Node, LosePower(n)
  PROVE  Moves
<1> DEFINE own == log[n][n]
<1>0. PICK k \in synced[n] .. Len(own) :
         log' = [log EXCEPT ![n][n] = SubSeq(@, 1, k)]
  BY DEF LosePower
<1> DEFINE s == SubSeq(own, 1, k)
           M == [log[n] EXCEPT ![n] = s]
<1>1. /\ link' = [l \in Link |-> IF l[1] = n THEN Idle ELSE link[l]]
      /\ strays' = IF n = Server THEN {} ELSE strays
      /\ UNCHANGED <<written, ahead, synced, compacted, hub, registry, file>>
  BY DEF LosePower
<1>2. /\ log \in [Node -> [Node -> Seq(Id)]] /\ log \in Logs
      /\ log[n] \in [Node -> Seq(Id)] /\ synced \in [Node -> Nat]
      /\ own \in Seq(Id) /\ Len(own) \in Nat
      /\ ReplicationTyped /\ Dated /\ Copies
  BY Bases, LogsHave DEF ReplicationInv
<1>3. log' = [log EXCEPT ![n] = M]
  BY <1>0, <1>2
<1>4. k \in Nat /\ synced[n] <= k /\ k <= Len(own) /\ synced[n] \in Nat
  BY <1>0, <1>2
<1> HIDE DEF own
<1>5. s \in Seq(Id) /\ Len(s) = k /\ \A i \in 1 .. k : s[i] = own[i]
  <2>1. \A i \in 1 .. k : own[i] \in Id
    BY <1>2, <1>4
  <2> QED BY <1>2, <1>4, <2>1
<1> HIDE DEF s
<1>6. /\ M \in [Node -> Seq(Id)] /\ M[n] = s
      /\ \A o \in Node : o # n => M[o] = log[n][o]
  BY <1>2, <1>5
<1> HIDE DEF M
<1>7. /\ log' \in [Node -> [Node -> Seq(Id)]] /\ log'[n] = M
      /\ \A p \in Node : p # n => log'[p] = log[p]
  BY <1>2, <1>3, <1>6
<1>8. ASSUME NEW L \in [Node -> Seq(Id)], NEW L2 \in [Node -> Seq(Id)],
             L[n] = own, L2[n] = s, \A o \in Node : o # n => L2[o] = L[o]
      PROVE  /\ InLog(L2) \subseteq InLog(L)
             /\ \A op \in InLog(L) :
                   op \in InLog(L2) <=> (op.node = n => op.seq <= k)
  <2>1. ASSUME NEW o \in Node PROVE Prefix(L2[o], L[o])
    <3>1. CASE o = n
      BY <1>4, <1>5, <1>8, <3>1 DEF Prefix
    <3>2. CASE o # n
      <4>1. Len(L[o]) \in Nat
        BY <1>8
      <4> QED BY <1>8, <3>2, <4>1 DEF Prefix
    <3> QED BY <3>1, <3>2
  <2>2. InLog(L2) \subseteq InLog(L)
    BY <1>8, <2>1, PrefixWithin
  <2>3. ASSUME NEW op \in InLog(L2), op.node = n PROVE op.seq <= k
    <3>1. op.seq \in 1 .. Len(L2[n])
      BY <1>8, <2>3, InLogHas
    <3> QED BY <1>4, <1>5, <1>8, <3>1
  <2>4. ASSUME NEW op \in InLog(L), op.node = n => op.seq <= k
        PROVE  op \in InLog(L2)
    <3>1. /\ op.node \in Node /\ op.seq \in 1 .. Len(L[op.node])
          /\ Len(L[op.node]) \in Nat
      BY <1>8, InLogHas
    <3>2. op.seq <= Len(L2[op.node])
      <4>1. CASE op.node = n
        BY <1>5, <1>8, <2>4, <4>1
      <4>2. CASE op.node # n
        BY <1>8, <3>1, <4>2
      <4> QED BY <4>1, <4>2
    <3> QED BY <1>8, <2>1, <3>1, <3>2, PrefixHolds
  <2> QED BY <2>2, <2>3, <2>4
<1>9. Authored' \subseteq Authored
  <2>1. Origins \in [Node -> Seq(Id)] /\ Origins' \in [Node -> Seq(Id)]
    BY <1>2, <1>7 DEF Origins
  <2>2. Origins[n] = own /\ Origins'[n] = s
        /\ \A o \in Node : o # n => Origins'[o] = Origins[o]
    BY <1>6, <1>7 DEF Origins, own
  <2>3. Authored' = InLog(Origins')
    BY DEF Authored, InLog
  <2> HIDE DEF Origins
  <2> QED BY <1>8, <2>1, <2>2, <2>3 DEF Authored
<1>10. Dated'
  <2>1. ASSUME NEW o \in Node
        PROVE  synced'[o] <= Len(log'[o][o]) /\ Len(log'[o][o]) <= written'
    <3>1. CASE o = n
      <4>1. Len(own) <= written /\ written \in Nat
        BY <1>2, ReplicationAssumption DEF Dated, own, ReplicationTyped, Number
      <4> QED BY <1>1, <1>2, <1>4, <1>5, <1>6, <1>7, <3>1, <4>1
    <3>2. CASE o # n
      BY <1>1, <1>2, <1>7, <3>2 DEF Dated
    <3> QED BY <3>1, <3>2
  <2>2. \A a, b \in Authored' :
           /\ a.id <= written'
           /\ a.id = b.id => a = b
           /\ a.node = b.node /\ a.seq < b.seq => a.id < b.id
    BY <1>1, <1>2, <1>9 DEF Dated
  <2> QED BY <2>1, <2>2 DEF Dated
<1>11. /\ ReplicationInv' /\ Copies'
       /\ Advances(log, synced, hub.ops, log', synced', hub'.ops)
  <2>1. /\ synced[n] <= Len(s) /\ s \in Seq(Id)
        /\ \A i \in 1 .. synced[n] : s[i] = log[n][n][i]
    <3>1. \A i \in 1 .. synced[n] : i \in 1 .. k
      BY <1>4
    <3> QED BY <1>4, <1>5, <3>1 DEF own
  <2>2. /\ link' \in [Link -> LinkRecord]
        /\ \A l \in Link : link'[l] \in {link[l], Idle}
        /\ strays' \subseteq strays
        /\ written' \in Number
    <3>1. Idle \in LinkRecord
      BY VectorsAre DEF Idle, LinkRecord
    <3>2. link \in [Link -> LinkRecord]
      BY Bases
    <3>3. link' \in [Link -> LinkRecord]
          /\ \A l \in Link : link'[l] \in {link[l], Idle}
      <4> HIDE DEF Idle
      <4> QED BY <1>1, <3>1, <3>2
    <3> QED BY <1>1, <1>2, <3>3 DEF ReplicationTyped
  <2>3. log' = [log EXCEPT ![n] = [log[n] EXCEPT ![n] = s]]
    BY <1>3 DEF M
  <2> QED BY <1>1, <1>10, <2>1, <2>2, <2>3, OwnLog
<1>12. [Abstract!Next]_<<known, kept>>
  <2> DEFINE S == {op \in InLog(log[n]) : ~ (op.node = n => op.seq <= k)}
  <2>1. /\ known = Holds(log) /\ kept = Keeps(log, synced)
        /\ known' = Holds(log') /\ kept' = Keeps(log', synced')
    BY <1>2, <1>11, SetsAre
  <2>2. /\ InLog(M) \subseteq InLog(log[n])
        /\ \A op \in InLog(log[n]) :
              op \in InLog(M) <=> (op.node = n => op.seq <= k)
    BY <1>2, <1>6, <1>8 DEF own
  <2>3. InLog(M) = InLog(log[n]) \ S
    BY <2>2
  <2>4. \A op \in InLog(log[n]) : op.node = n => op.seq \in Nat
    BY <1>2, InLogHas
  <2>5. {q \in InLog(M) : q.node = n => q.seq <= synced[n]}
          = {q \in InLog(log[n]) : q.node = n => q.seq <= synced[n]}
    <3>1. ASSUME NEW q \in InLog(log[n]), q.node = n => q.seq <= synced[n]
          PROVE  q \in InLog(M)
      BY <1>4, <2>2, <2>4, <3>1
    <3> QED BY <2>2, <3>1
  <2>6. S \in SUBSET (known[n] \ kept[n])
    <3>1. \A q \in S : ~ (q.node = n => q.seq <= synced[n])
      BY <1>4, <2>4
    <3>2. kept[n] = {q \in InLog(log[n]) : q.node = n => q.seq <= synced[n]}
          /\ known[n] = InLog(log[n])
      BY <2>1 DEF Holds, Keeps
    <3> QED BY <3>1, <3>2
  <2> HIDE DEF S
  <2>7. Holds(log') = [Holds(log) EXCEPT ![n] = Holds(log)[n] \ S]
    <3>1. ASSUME NEW p \in Node
          PROVE  Holds(log')[p] =
                    IF p = n THEN Holds(log)[n] \ S ELSE Holds(log)[p]
      BY <1>7, <2>3 DEF Holds
    <3> QED BY <3>1 DEF Holds
  <2>8. Keeps(log', synced') = Keeps(log, synced)
    <3>1. ASSUME NEW p \in Node
          PROVE  Keeps(log', synced')[p] = Keeps(log, synced)[p]
      <4>1. CASE p = n
        BY <1>1, <1>7, <2>5, <4>1 DEF Keeps
      <4>2. CASE p # n
        BY <1>1, <1>7, <4>2 DEF Keeps
      <4> QED BY <4>1, <4>2
    <3> QED BY <3>1 DEF Keeps
  <2>9. Abstract!LosePower(n)
    <3>1. known' = [known EXCEPT ![n] = @ \ S] /\ kept' = kept
      BY <2>1, <2>7, <2>8
    <3> QED BY <2>6, <3>1 DEF Abstract!LosePower
  <2> QED BY <2>9 DEF Abstract!Next
<1> QED BY <1>11, <1>12 DEF Moves

-----------------------------------------------------------------------------
(* The specification.                                                      *)

LEMMA ReplicationStarts ==
  ASSUME Init
  PROVE  ReplicationInv /\ Abstract!Init
<1>1. /\ Server \in Node /\ Client \subseteq Node
      /\ \A l \in Link : l[1] \in Client
  BY DEF Node, Link
<1>2. /\ log \in [Node -> [Node -> Seq(Id)]]
      /\ \A n, o \in Node : log[n][o] = <<>> /\ Len(log[n][o]) = 0
      /\ hub.ops = <<>> /\ Len(hub.ops) = 0 /\ hub.ops \in Seq(Op)
      /\ synced = [n \in Node |-> 0] /\ written = 0
      /\ strays = {}
      /\ \A n \in Node : ahead[n] = {}
  BY DEF Init
<1>3. log \in Logs
  BY <1>2 DEF Logs
<1>4. ReplicationTyped
  <2>1. written \in Number
    BY <1>2, ReplicationAssumption DEF Number
  <2>2. compacted \in [Node -> [Node -> Nat]] /\ synced \in [Node -> Nat]
        /\ ahead \in [Node -> SUBSET Op]
    BY <1>2, VectorsAre DEF Init
  <2>3. hub \in [ops : Seq(Op), floor : Int]
    BY <1>2 DEF Init
  <2>4. registry \in [Client -> [cursor : Nat, seen : BOOLEAN]]
        /\ file \in [Client -> Nat]
    BY DEF Init
  <2>5. link \in [Link -> LinkRecord]
    <3>1. Idle \in LinkRecord
      BY VectorsAre DEF Idle, LinkRecord
    <3> HIDE DEF Idle
    <3> QED BY <3>1 DEF Init
  <2> QED BY <1>2, <2>1, <2>2, <2>3, <2>4, <2>5 DEF ReplicationTyped
<1>5. \A n \in Node : InLog(log[n]) = {}
  <2>1. ASSUME NEW n \in Node, NEW op \in InLog(log[n]) PROVE FALSE
    <3>1. log[n] \in [Node -> Seq(Id)]
      BY <1>2
    <3>2. op.node \in Node /\ op.seq \in 1 .. Len(log[n][op.node])
      BY <2>1, <3>1, InLogHas
    <3> QED BY <1>2, <3>2
  <2> QED BY <2>1
<1>6. Authored = {}
  <2>1. ASSUME NEW op \in Authored PROVE FALSE
    <3>1. Origins \in [Node -> Seq(Id)]
      BY <1>2 DEF Origins
    <3>2. op.node \in Node /\ op.seq \in 1 .. Len(Origins[op.node])
      BY <2>1, <3>1, InLogHas DEF Authored
    <3> QED BY <1>2, <3>2 DEF Origins
  <2> QED BY <2>1
<1>7. Dated
  BY <1>2, <1>6 DEF Dated
<1>8. Copies
  <2>1. \A n, o \in Node : Copied(log[n][o], o, log, synced)
    BY <1>2 DEF Copied, Prefix
  <2>2. \A c \in Client, o \in Node : Len(log[c][o]) <= Len(log[Server][o])
    BY <1>1, <1>2
  <2> QED BY <1>2, <2>1, <2>2 DEF Copies
<1>9. HubSound
  BY <1>2 DEF HubSound, Orderly, Within
<1>10. CursorsSound
  <2>1. ASSUME NEW c \in Client
        PROVE  /\ Within(hub.ops, log[c], file[c])
               /\ Within(hub.ops, log[c], registry[c].cursor)
    <3>1. file[c] = 0 /\ registry[c].cursor = 0
      BY DEF Init
    <3>2. Within(hub.ops, log[c], 0)
      BY <1>2, NoneTaken
    <3> QED BY <3>1, <3>2
  <2>2. ASSUME NEW l \in Link
        PROVE  LinkSound(l[1], link[l], log, synced, hub.ops)
    <3>1. link[l] = Idle
      BY DEF Init
    <3>2. Len(hub.ops) \in Nat /\ l[1] \in Client
      BY <1>1, <1>2
    <3>3. LinkSound(l[1], Idle, log, synced, hub.ops)
      BY <1>3, <3>2, IdleSound
    <3> QED BY <3>1, <3>3
  <2> QED BY <1>2, <2>1, <2>2 DEF CursorsSound
<1>11. Abstract!Init
  <2>1. known = Holds(log) /\ kept = Keeps(log, synced)
    BY <1>8, SetsAre
  <2>2. Holds(log) = [n \in Node |-> {}] /\ Keeps(log, synced) = [n \in Node |-> {}]
    BY <1>5 DEF Holds, Keeps
  <2> QED BY <2>1, <2>2 DEF Abstract!Init
<1> QED BY <1>4, <1>7, <1>8, <1>9, <1>10, <1>11 DEF ReplicationInv

LEMMA ReplicationMoves ==
  ASSUME OneProcess, ReplicationInv, Next
  PROVE  Moves
<1>1. ASSUME NEW n \in Node, Write(n) PROVE Moves
  BY <1>1, WriteMoves
<1>2. ASSUME NEW n \in Node, LosePower(n) PROVE Moves
  BY <1>2, LosePowerMoves
<1>3. ASSUME NEW c \in Client, Quiet(c) PROVE Moves
  BY <1>3, QuietMoves
<1>4. ASSUME NEW l \in Link, Break(l) PROVE Moves
  BY <1>4, BreakMoves
<1>5. ASSUME NEW l \in Link, Abandon(l) PROVE Moves
  BY <1>5, AbandonMoves
<1>6. ASSUME NEW l \in Link, Advance(l) PROVE Moves
  <2>1. CASE Hello(l) BY <2>1, HelloMoves
  <2>2. CASE PushNothing(l) BY <2>2, PushNothingMoves
  <2>3. CASE Push(l) BY <2>3, PushMoves
  <2>4. CASE Pull(l) BY <2>4, PullMoves
  <2>5. CASE Apply(l) BY <2>5, ApplyMoves
  <2>6. CASE SaveCursor(l) BY <2>6, SaveCursorMoves
  <2>7. CASE Download(l) BY <2>7, DownloadMoves
  <2>8. CASE Install(l) BY <2>8, InstallMoves
  <2>9. CASE Reload(l) BY <2>9, ReloadMoves
  <2>10. CASE Prune(l) BY <2>10, PruneMoves
  <2>11. CASE OpenStream(l) BY <2>11, OpenStreamMoves
  <2>12. CASE StreamPage(l) BY <2>12, StreamPageMoves
  <2>13. CASE PushLive(l) BY <2>13, PushLiveMoves
  <2>14. CASE Finish(l) BY <2>14, FinishMoves
  <2> QED BY <1>6, <2>1, <2>2, <2>3, <2>4, <2>5, <2>6, <2>7, <2>8, <2>9,
             <2>10, <2>11, <2>12, <2>13, <2>14 DEF Advance
<1>7. ASSUME NEW r \in strays, Stray(r) PROVE Moves
  BY <1>7, StrayMoves
<1>8. ASSUME Maintain PROVE Moves
  BY <1>8, MaintainMoves
<1> QED BY <1>1, <1>2, <1>3, <1>4, <1>5, <1>6, <1>7, <1>8 DEF Next

LEMMA ReplicationStutters ==
  ASSUME ReplicationInv, UNCHANGED vars
  PROVE  Moves
<1>1. UNCHANGED <<written, log, ahead, synced, hub, compacted, registry, file,
                  link, strays>>
  BY DEF vars, replicas
<1>2. /\ \A c \in Client : registry'[c].cursor = registry[c].cursor
      /\ \A c \in Client : file'[c] = file[c]
      /\ \A l \in Link : link'[l] = link[l]
      /\ \A r \in strays' : r \in strays
  BY <1>1
<1>3. /\ compacted' \in [Node -> [Node -> Nat]]
      /\ registry' \in [Client -> [cursor : Nat, seen : BOOLEAN]]
      /\ file' \in [Client -> Nat]
      /\ link' \in [Link -> LinkRecord]
      /\ strays' \subseteq [client : Client, push : Seq(Op)]
                            \cup [client : Client, after : Nat]
  BY <1>1, Bases
<1> QED BY <1>1, <1>2, <1>3, StillServed

\* The hub operations up to a cursor are those the client holds.
LEMMA CursorTold ==
  ASSUME ReplicationInv
  PROVE  CursorBehindApplied
<1> SUFFICES ASSUME NEW c \in Client, NEW i \in Nat, Within(hub.ops, log[c], i)
             PROVE  HubOps(i) \subseteq Known(c)
  <2>1. \A c \in Client : /\ file[c] \in Nat /\ registry[c].cursor \in Nat
                          /\ Within(hub.ops, log[c], file[c])
                          /\ Within(hub.ops, log[c], registry[c].cursor)
    BY Bases
  <2> QED BY <2>1 DEF CursorBehindApplied
<1>1. /\ c \in Node /\ log \in Logs /\ synced \in [Node -> Nat]
      /\ Len(hub.ops) \in Nat /\ i <= Len(hub.ops)
      /\ log[c] \in [Node -> Seq(Id)]
      /\ ReplicationTyped /\ Dated /\ HubSound
  BY Bases DEF ReplicationInv, Within
<1>2. ASSUME NEW j \in 1 .. i PROVE hub.ops[j] \in InLog(log[c])
  <2> DEFINE op == hub.ops[j]
  <2>1. j \in 1 .. Len(hub.ops)
    BY <1>1
  <2>2. op \in Durable(log, synced) /\ op.seq <= Len(log[c][op.node])
    BY <1>1, <2>1 DEF HubSound, Within
  <2> HIDE DEF op
  <2>3. op \in Authored /\ op.node \in Node
    BY <1>1, <2>2, DurableHas DEF Durable, Authored, Origins
  <2>4. Prefix(log[c][op.node], Origins[op.node]) /\ Origins \in [Node -> Seq(Id)]
    BY <1>1, <2>3, HeadHeld, AuthoredTyped DEF Origins
  <2>5. op \in InLog(log[c])
    BY <1>1, <2>2, <2>3, <2>4, PrefixHolds DEF Authored
  <2> QED BY <2>5 DEF op
<1> QED BY <1>2 DEF HubOps, Known

\* What the hub numbered up to a client's cursor, and up to the cursor the
\* server keeps of it, the client holds: apply_remote comes before the cursor
\* is saved, and a cursor that is only asked for was saved before.
THEOREM CursorTells ==
  ASSUME OneProcess
  PROVE  Spec => []CursorBehindApplied
<1>1. Init => ReplicationInv
  BY ReplicationStarts
<1>2. ReplicationInv /\ [Next]_vars => ReplicationInv'
  BY ReplicationMoves, ReplicationStutters DEF Moves
<1>3. ReplicationInv => CursorBehindApplied
  BY CursorTold
<1> QED BY <1>1, <1>2, <1>3, PTL DEF Spec

\* Sync implements grow-only sets of operations: pushes, pages and snapshots
\* carry only what is durable where it comes from and are durable on arrival,
\* numbers of an origin are given once, and what a loss of power takes back
\* nobody else has seen.
THEOREM StoreImplementsSet ==
  ASSUME OneProcess
  PROVE  Spec => ReplicasOnlyGrow
<1>1. Init => ReplicationInv /\ Abstract!Init
  BY ReplicationStarts
<1>2. ReplicationInv /\ [Next]_vars =>
         ReplicationInv' /\ [Abstract!Next]_<<known, kept>>
  BY ReplicationMoves, ReplicationStutters DEF Moves
<1> QED BY <1>1, <1>2, PTL DEF Spec, ReplicasOnlyGrow, Abstract!Spec

-----------------------------------------------------------------------------
(* What is pruned.  A client that was away for too long no longer counts;  *)
(* for the others, what a node dropped, or may drop by what it was told,   *)
(* is received, and durable where it comes from.                           *)

Received(v, logs, sync, gone) ==
    \A c \in Client \ gone, o \in Node :
       v[o] <= IF o = c THEN sync[o] ELSE Len(logs[c][o])

PruneInv ==
    /\ \A c \in Client \ absent : /\ registry[c].seen
                                  /\ hub.floor <= registry[c].cursor
    /\ \A n \in Node : Received(compacted[n], log, synced, absent)
    /\ \A l \in Link :
          /\ Received(link[l].stable, log, synced, absent)
          /\ At(l, "staged") =>
                Received(link[l].snap.compacted, log, synced, absent)

LEMMA ReceivedMost ==
  ASSUME NEW v \in [Node -> Nat], NEW w \in [Node -> Nat],
         NEW logs, NEW sync, NEW gone
  PROVE  /\ Received(v, logs, sync, gone) /\ Received(w, logs, sync, gone)
               => Received(Most(v, w), logs, sync, gone)
         /\ Most(v, w) \in [Node -> Nat]
BY Zenon DEF Most, Received

LEMMA ReceivedLeast ==
  ASSUME NEW v \in [Node -> Nat], NEW w \in [Node -> Nat],
         NEW logs \in Logs, NEW sync \in [Node -> Nat], NEW gone,
         Received(v, logs, sync, gone) \/ Received(w, logs, sync, gone)
  PROVE  /\ Received(Least(v, w), logs, sync, gone)
         /\ Least(v, w) \in [Node -> Nat]
<1>1. Least(v, w) \in [Node -> Nat]
      /\ \A o \in Node : Least(v, w)[o] <= v[o] /\ Least(v, w)[o] <= w[o]
  BY DEF Least
<1>2. ASSUME NEW c \in Client \ gone, NEW o \in Node
      PROVE  Least(v, w)[o] <= IF o = c THEN sync[o] ELSE Len(logs[c][o])
  <2>1. /\ c \in Node /\ sync[o] \in Nat /\ Len(logs[c][o]) \in Nat
        /\ v[o] \in Nat /\ w[o] \in Nat /\ Least(v, w)[o] \in Nat
    BY <1>1, LogsHave DEF Node
  <2> QED BY <1>1, <2>1 DEF Received
<1> QED BY <1>1, <1>2 DEF Received

LEMMA ReceivedZero ==
  ASSUME NEW logs \in Logs, NEW sync \in [Node -> Nat], NEW gone
  PROVE  Received(Zero, logs, sync, gone)
<1>1. ASSUME NEW c \in Client \ gone, NEW o \in Node
      PROVE  Zero[o] <= IF o = c THEN sync[o] ELSE Len(logs[c][o])
  <2>1. c \in Node /\ sync[o] \in Nat /\ Len(logs[c][o]) \in Nat
    BY LogsHave DEF Node
  <2> QED BY <2>1 DEF Zero
<1> QED BY <1>1 DEF Received

\* What is received stays received, while nobody comes back.
LEMMA ReceivedStays ==
  ASSUME NEW v \in [Node -> Nat], NEW logs \in Logs, NEW sync \in [Node -> Nat],
         NEW H, NEW logs2 \in Logs, NEW sync2 \in [Node -> Nat], NEW H2,
         NEW gone, NEW gone2, gone \subseteq gone2,
         Advances(logs, sync, H, logs2, sync2, H2),
         Received(v, logs, sync, gone)
  PROVE  Received(v, logs2, sync2, gone2)
<1>1. ASSUME NEW c \in Client \ gone2, NEW o \in Node
      PROVE  v[o] <= IF o = c THEN sync2[o] ELSE Len(logs2[c][o])
  <2>1. /\ c \in Node /\ c \in Client \ gone
        /\ sync[o] \in Nat /\ sync2[o] \in Nat /\ v[o] \in Nat
        /\ Len(logs[c][o]) \in Nat /\ Len(logs2[c][o]) \in Nat
    BY LogsHave DEF Node
  <2>2. /\ sync[o] <= sync2[o]
        /\ c # o => Len(logs[c][o]) <= Len(logs2[c][o])
    BY <2>1 DEF Advances
  <2>3. v[o] <= IF o = c THEN sync[o] ELSE Len(logs[c][o])
    BY <2>1 DEF Received
  <2> QED BY <2>1, <2>2, <2>3
<1> QED BY <1>1 DEF Received

\* The first i operations of a hub log have the numbers 1 .. m of an origin,
\* each once at most.
NumbersUpTo(H, i, o, m) ==
    /\ \A j \in 1 .. i : H[j].node = o => H[j].seq \in 1 .. m
    /\ \A j, k \in 1 .. i :
          H[j].node = o /\ H[k].node = o /\ H[j].seq = H[k].seq => j = k

\* A stretch of a hub log has no more of an origin than its highest number.
LEMMA CountedWithin ==
  ASSUME NEW H \in Seq(Op), NEW i \in Nat, NEW o \in Node, NEW m \in Nat,
         NumbersUpTo(H, i, o, m)
  PROVE  VectorAt(H, i)[o] <= m
<1> DEFINE J == {j \in 1 .. i : H[j].node = o}
           f == [j \in J |-> H[j].seq]
<1>1. f \in [J -> 1 .. m] /\ \A j, k \in J : f[j] = f[k] => j = k
  BY DEF NumbersUpTo
<1>2. f \in Injection(J, 1 .. m)
  <2> HIDE DEF f, J
  <2> QED BY <1>1 DEF Injection, IsInjective
<1>3. IsFiniteSet(1 .. m) /\ Cardinality(1 .. m) = m
  <2>1. /\ IsFiniteSet(1 .. m)
        /\ Cardinality(1 .. m) = IF 1 > m THEN 0 ELSE m - 1 + 1
    BY FS_Interval
  <2> QED BY <2>1
<1>4. Cardinality(J) <= m
  <2> HIDE DEF f, J
  <2> QED BY <1>2, <1>3, FS_Injection
<1>5. VectorAt(H, i)[o] = Cardinality(J)
  BY DEF VectorAt
<1> QED BY <1>4, <1>5

LEMMA LowestIs ==
  ASSUME NEW H \in Seq(Op),
         NEW reg \in [Client -> [cursor : Nat, seen : BOOLEAN]],
         NEW c \in Active(reg)
  PROVE  Lowest(H, reg) \in Nat /\ Lowest(H, reg) <= reg[c].cursor
<1> DEFINE T == {reg[d].cursor : d \in Active(reg)}
           i == Lowest(H, reg)
<1>1. T # {} /\ T \subseteq Nat
  <2>1. Active(reg) \subseteq Client
    BY DEF Active
  <2>2. \A d \in Active(reg) : reg[d].cursor \in Nat
    BY <2>1
  <2>3. reg[c].cursor \in T
    OBVIOUS
  <2> QED BY <2>2, <2>3
<1>2. \E k \in T : \A t \in T : k <= t
  <2> HIDE DEF T
  <2> QED BY <1>1, LeastOne
<1>3. \E k \in T : \A d \in Active(reg) : k <= reg[d].cursor
  <2>1. \A d \in Active(reg) : reg[d].cursor \in T
    OBVIOUS
  <2> HIDE DEF T
  <2> QED BY <1>2, <2>1
<1>4. i = CHOOSE k \in T : \A d \in Active(reg) : k <= reg[d].cursor
  BY DEF Lowest
<1> HIDE DEF T, i
<1>5. i \in T /\ \A d \in Active(reg) : i <= reg[d].cursor
  BY <1>3, <1>4
<1>6. i \in Nat /\ i <= reg[c].cursor
  BY <1>1, <1>5
<1> QED BY <1>6 DEF i

\* Hub::stable_vector: what every active client has, and nothing else.
LEMMA StableReceived ==
  ASSUME NEW logs \in Logs, NEW sync \in [Node -> Nat], NEW H \in Seq(Op),
         NEW reg \in [Client -> [cursor : Nat, seen : BOOLEAN]], NEW gone,
         Orderly(H), \A j \in 1 .. Len(H) : H[j] \in Durable(logs, sync),
         \A c \in Client \ gone : /\ c \in Active(reg)
                                  /\ Within(H, logs[c], reg[c].cursor)
  PROVE  Received(StableVector(H, reg), logs, sync, gone)
<1> DEFINE i == Lowest(H, reg)
<1> SUFFICES ASSUME NEW c \in Client \ gone, NEW o \in Node
             PROVE  StableVector(H, reg)[o]
                       <= IF o = c THEN sync[o] ELSE Len(logs[c][o])
  BY DEF Received
<1>1. /\ c \in Active(reg) /\ c \in Node /\ Active(reg) \subseteq Client
      /\ sync[o] \in Nat /\ Len(logs[c][o]) \in Nat /\ Len(H) \in Nat
  BY LogsHave DEF Node, Active
<1>2. i \in Nat /\ i <= reg[c].cursor
  BY <1>1, LowestIs
<1>3. i \in Nat /\ i <= Len(H)
      /\ \A j \in 1 .. i : H[j].seq <= Len(logs[c][H[j].node])
  <2>1. i \in Nat /\ i <= reg[c].cursor /\ reg[c].cursor \in Nat
    BY <1>2
  <2>2. Within(H, logs[c], reg[c].cursor)
    OBVIOUS
  <2> HIDE DEF i
  <2> QED BY <1>1, <2>1, <2>2 DEF Within
<1> HIDE DEF i
<1>4. ASSUME NEW j \in 1 .. i
      PROVE  /\ H[j] \in Durable(logs, sync) /\ j \in 1 .. Len(H)
             /\ H[j].node = o => /\ H[j].seq \in 1 .. sync[o]
                                 /\ H[j].seq \in 1 .. Len(logs[c][o])
  <2>1. j \in 1 .. Len(H)
    BY <1>1, <1>3
  <2>2. H[j] \in Durable(logs, sync)
    BY <2>1
  <2>3. H[j].seq \in Nat \ {0} /\ H[j].seq <= sync[H[j].node]
    BY <2>2, DurableHas
  <2> QED BY <1>1, <1>3, <2>1, <2>2, <2>3
<1>5. ASSUME NEW j \in 1 .. i, NEW k \in 1 .. i,
             H[j].node = o, H[k].node = o, H[j].seq = H[k].seq
      PROVE  j = k
  <2>1. H[j] = H[k]
    <3>1. /\ H[j] = [node |-> H[j].node, seq |-> H[j].seq,
                     id |-> logs[H[j].node][H[j].node][H[j].seq]]
          /\ H[k] = [node |-> H[k].node, seq |-> H[k].seq,
                     id |-> logs[H[k].node][H[k].node][H[k].seq]]
      BY <1>4, DurableIs
    <3> QED BY <1>5, <3>1
  <2> QED BY <1>4, <2>1 DEF Orderly
<1>6. VectorAt(H, i)[o] <= sync[o] /\ VectorAt(H, i)[o] <= Len(logs[c][o])
  <2>1. ASSUME NEW m \in Nat,
               \A j \in 1 .. i : H[j].node = o => H[j].seq \in 1 .. m
        PROVE  VectorAt(H, i)[o] <= m
    <3>1. \A j, k \in 1 .. i :
             H[j].node = o /\ H[k].node = o /\ H[j].seq = H[k].seq => j = k
      BY <1>5
    <3>2. i \in Nat
      BY <1>3
    <3>3. NumbersUpTo(H, i, o, m)
      BY <2>1, <3>1 DEF NumbersUpTo
    <3> QED BY <3>2, <3>3, CountedWithin
  <2>2. sync[o] \in Nat
        /\ \A j \in 1 .. i : H[j].node = o => H[j].seq \in 1 .. sync[o]
    BY <1>1, <1>4
  <2>3. Len(logs[c][o]) \in Nat
        /\ \A j \in 1 .. i : H[j].node = o => H[j].seq \in 1 .. Len(logs[c][o])
    BY <1>1, <1>4
  <2> QED BY <2>1, <2>2, <2>3
<1>7. StableVector(H, reg)[o] = VectorAt(H, i)[o]
  BY DEF StableVector, i
<1> QED BY <1>6, <1>7

\* A step after which everyone who counts is still served, and whoever has
\* pruned or was told anew what to prune has it from the others.
LEMMA PruneStays ==
  ASSUME ReplicationInv, PruneInv, Moves, absent \subseteq absent',
         \A c \in Client \ absent' : /\ registry'[c].seen
                                     /\ hub'.floor <= registry'[c].cursor,
         \A n \in Node :
            \/ compacted'[n] = compacted[n]
            \/ Received(compacted'[n], log', synced', absent'),
         \A l \in Link :
            \/ link'[l].stable = link[l].stable
            \/ Received(link'[l].stable, log', synced', absent'),
         \A l \in Link : link'[l].pc = "staged" =>
            \/ link[l].pc = "staged" /\ link'[l].snap = link[l].snap
            \/ Received(link'[l].snap.compacted, log', synced', absent')
  PROVE  PruneInv'
<1>1. /\ log \in Logs /\ synced \in [Node -> Nat]
      /\ compacted \in [Node -> [Node -> Nat]]
      /\ log' \in Logs /\ synced' \in [Node -> Nat]
      /\ Advances(log, synced, hub.ops, log', synced', hub'.ops)
  BY Bases DEF Moves, ReplicationInv, ReplicationTyped, Logs
<1>2. ASSUME NEW v \in [Node -> Nat], Received(v, log, synced, absent)
      PROVE  Received(v, log', synced', absent')
  BY <1>1, <1>2, ReceivedStays
<1>3. ASSUME NEW n \in Node
      PROVE  Received(compacted'[n], log', synced', absent')
  <2>1. compacted[n] \in [Node -> Nat]
        /\ Received(compacted[n], log, synced, absent)
    BY <1>1 DEF PruneInv
  <2> QED BY <1>2, <2>1
<1>4. ASSUME NEW l \in Link
      PROVE  Received(link'[l].stable, log', synced', absent')
  <2>1. link[l].stable \in [Node -> Nat]
        /\ Received(link[l].stable, log, synced, absent)
    BY LinkHas DEF PruneInv
  <2> QED BY <1>2, <2>1
<1>5. ASSUME NEW l \in Link, link'[l].pc = "staged"
      PROVE  Received(link'[l].snap.compacted, log', synced', absent')
  <2>1. CASE link[l].pc = "staged" /\ link'[l].snap = link[l].snap
    <3>1. link[l].snap \in Snapshot
      BY <2>1, Bases DEF LinkSound, Staged
    <3>2. link[l].snap.compacted \in [Node -> Nat]
          /\ Received(link[l].snap.compacted, log, synced, absent)
      BY <2>1, <3>1 DEF Snapshot, PruneInv, At
    <3> QED BY <1>2, <2>1, <3>2
  <2> QED BY <1>5, <2>1
<1> QED BY <1>3, <1>4, <1>5 DEF PruneInv, At

\* A process that goes on without having staged a snapshot.
Continues(l) ==
    /\ \A m \in Link : m # l => link'[m] = link[m]
    /\ link'[l].pc # "staged"
    /\ \/ link'[l].stable = link[l].stable
       \/ Received(link'[l].stable, log', synced', absent')

LEMMA GivenUp ==
  ASSUME ReplicationInv, Moves, NEW l \in Link, link' = GiveUp(l)
  PROVE  Continues(l)
<1>1. /\ link'[l] = Idle
      /\ \A m \in Link : m # l => link'[m] = link[m]
  BY GiveUpIs
<1>2. log' \in Logs /\ synced' \in [Node -> Nat]
  BY DEF Moves, ReplicationInv, ReplicationTyped, Logs
<1>3. Received(Zero, log', synced', absent')
  BY <1>2, ReceivedZero
<1>4. Idle.stable = Zero /\ Idle.pc = "idle"
  BY DEF Idle
<1> QED BY <1>1, <1>3, <1>4 DEF Continues

LEMMA PlainStays ==
  ASSUME ReplicationInv, PruneInv, Moves, UNCHANGED <<absent, compacted>>,
         \A c \in Client \ absent : /\ registry'[c].seen
                                    /\ hub'.floor <= registry'[c].cursor,
         \/ UNCHANGED link
         \/ \E l \in Link : Continues(l)
  PROVE  PruneInv'
<1>1. \A l \in Link :
         \/ link'[l].stable = link[l].stable
         \/ Received(link'[l].stable, log', synced', absent')
  BY DEF Continues
<1>2. \A l \in Link : link'[l].pc = "staged" =>
         \/ link[l].pc = "staged" /\ link'[l].snap = link[l].snap
         \/ Received(link'[l].snap.compacted, log', synced', absent')
  BY DEF Continues
<1> QED BY <1>1, <1>2, PruneStays

\* Steps in which the server takes no part.
LEMMA AsideStays ==
  ASSUME ReplicationInv, PruneInv, Moves,
         UNCHANGED <<absent, compacted, registry, hub>>,
         \/ UNCHANGED link
         \/ \E l \in Link : Continues(l)
  PROVE  PruneInv'
<1>1. \A c \in Client \ absent : /\ registry'[c].seen
                                 /\ hub'.floor <= registry'[c].cursor
  BY DEF PruneInv
<1> QED BY <1>1, PlainStays

LEMMA WriteStays ==
  ASSUME ReplicationInv, PruneInv, Moves, NEW n \in Node, Write(n)
  PROVE  PruneInv'
BY AsideStays DEF Write

LEMMA BreakStays ==
  ASSUME ReplicationInv, PruneInv, Moves, NEW l \in Link,
         Break(l) \/ Finish(l) \/ Abandon(l)
  PROVE  PruneInv'
<1>1. /\ link' = GiveUp(l)
      /\ UNCHANGED <<absent, compacted, registry, hub>>
  BY DEF Break, Finish, Abandon, replicas
<1> QED BY <1>1, GivenUp, AsideStays

LEMMA LosePowerStays ==
  ASSUME ReplicationInv, PruneInv, Moves, NEW n \in Node, LosePower(n)
  PROVE  PruneInv'
<1>1. /\ \A l \in Link : link'[l] = Idle \/ link'[l] = link[l]
      /\ UNCHANGED <<absent, compacted, registry, hub>>
  BY DEF LosePower
<1>2. log' \in Logs /\ synced' \in [Node -> Nat]
  BY DEF Moves, ReplicationInv, ReplicationTyped, Logs
<1>3. Received(Zero, log', synced', absent')
  BY <1>2, ReceivedZero
<1>4. Idle.stable = Zero /\ Idle.pc = "idle"
  BY DEF Idle
<1>5. \A c \in Client \ absent' : /\ registry'[c].seen
                                  /\ hub'.floor <= registry'[c].cursor
  BY <1>1 DEF PruneInv
<1> HIDE DEF Idle
<1>6. \A l \in Link :
         \/ link'[l].stable = link[l].stable
         \/ Received(link'[l].stable, log', synced', absent')
  BY <1>1, <1>3, <1>4
<1>7. \A l \in Link : link'[l].pc = "staged" =>
         \/ link[l].pc = "staged" /\ link'[l].snap = link[l].snap
         \/ Received(link'[l].snap.compacted, log', synced', absent')
  BY <1>1, <1>4
<1> QED BY <1>1, <1>5, <1>6, <1>7, PruneStays

LEMMA QuietStays ==
  ASSUME ReplicationInv, PruneInv, Moves, NEW c \in Client, Quiet(c)
  PROVE  PruneInv'
<1>1. /\ registry' = [registry EXCEPT ![c].seen = FALSE]
      /\ absent' = absent \cup {c}
      /\ UNCHANGED <<compacted, link, hub>>
      /\ registry \in [Client -> [cursor : Nat, seen : BOOLEAN]]
  BY Bases DEF Quiet, replicas
<1>2. ASSUME NEW d \in Client \ absent'
      PROVE  registry'[d].seen /\ hub'.floor <= registry'[d].cursor
  <2>1. registry'[d] = registry[d] /\ d \in Client \ absent
    BY <1>1
  <2> QED BY <1>1, <2>1 DEF PruneInv
<1> QED BY <1>1, <1>2, PruneStays

\* Steps of a process that asks the server for nothing.
LEMMA AloneStays ==
  ASSUME ReplicationInv, PruneInv, Moves, NEW l \in Link,
         \/ PushNothing(l) \/ PushLive(l) \/ Reload(l)
         \/ SaveCursor(l) \/ Apply(l)
  PROVE  PruneInv'
<1>1. link \in [Link -> LinkRecord] /\ link[l] \in LinkRecord
  BY Bases
<1>2. UNCHANGED <<absent, compacted, registry, hub>>
  BY DEF PushNothing, PushLive, Reload, SaveCursor, Apply, replicas
<1>3. CASE PushNothing(l)
  <2>1. CASE link' = GiveUp(l)
    BY <1>2, <2>1, GivenUp, AsideStays
  <2>2. CASE link' = [link EXCEPT ![l].pc =
                         IF link[l].live THEN "live" ELSE "pull"]
    <3>1. Continues(l)
      BY <1>1, <2>2 DEF Continues, LinkRecord
    <3> QED BY <1>2, <3>1, AsideStays
  <2> QED BY <1>3, <2>1, <2>2 DEF PushNothing
<1>4. CASE PushLive(l)
  <2>1. Continues(l)
    BY <1>1, <1>4 DEF PushLive, Continues, LinkRecord
  <2> QED BY <1>2, <2>1, AsideStays
<1>5. CASE Reload(l)
  <2>1. Continues(l)
    BY <1>1, <1>5 DEF Reload, Continues, LinkRecord
  <2> QED BY <1>2, <2>1, AsideStays
<1>6. CASE SaveCursor(l)
  <2>1. Continues(l)
    BY <1>1, <1>6 DEF SaveCursor, Continues, LinkRecord
  <2> QED BY <1>2, <2>1, AsideStays
<1>7. CASE Apply(l)
  <2>1. Continues(l)
    BY <1>1, <1>7 DEF Apply, Continues, LinkRecord
  <2> QED BY <1>2, <2>1, AsideStays
<1> QED BY <1>3, <1>4, <1>5, <1>6, <1>7

\* A request moves the cursor of a client only within what the hub retains.
LEMMA AnswerStays ==
  ASSUME ReplicationInv, PruneInv, Moves, UNCHANGED <<absent, compacted>>,
         hub'.floor = hub.floor, NEW c \in Client, NEW after \in Nat,
         \/ registry' = registry
         \/ registry' = Touched(c)
         \/ registry' = Recorded(c, after),
         \/ UNCHANGED link
         \/ \E l \in Link : Continues(l)
  PROVE  PruneInv'
<1>1. registry \in [Client -> [cursor : Nat, seen : BOOLEAN]]
  BY Bases
<1>2. ASSUME NEW d \in Client \ absent
      PROVE  registry'[d].seen /\ hub'.floor <= registry'[d].cursor
  <2>1. registry[d].seen /\ hub.floor <= registry[d].cursor
    BY DEF PruneInv
  <2>2. CASE registry' = registry
    BY <2>1, <2>2
  <2>3. CASE registry' = Touched(c)
    BY <1>1, <2>1, <2>3 DEF Touched
  <2>4. CASE registry' = Recorded(c, after)
    BY <1>1, <2>1, <2>4 DEF Recorded, InReach
  <2> QED BY <2>2, <2>3, <2>4
<1> QED BY <1>2, PlainStays

LEMMA AskStays ==
  ASSUME ReplicationInv, PruneInv, Moves, NEW l \in Link,
         Pull(l) \/ OpenStream(l) \/ StreamPage(l)
  PROVE  PruneInv'
<1>1. /\ link \in [Link -> LinkRecord] /\ link[l] \in LinkRecord
      /\ l[1] \in Client /\ link[l].last \in Nat
      /\ hub \in [ops : Seq(Op), floor : Int]
  BY Bases, LinkHas
<1>2. /\ UNCHANGED <<absent, compacted>>
      /\ hub' = [hub EXCEPT !.ops = Ingested(log[Server])]
  BY DEF Pull, OpenStream, StreamPage, Ingest
<1>3. hub'.floor = hub.floor
  BY <1>1, <1>2
<1>4. \/ registry' = registry
      \/ registry' = Touched(l[1])
      \/ registry' = Recorded(l[1], link[l].last)
  BY DEF Pull, OpenStream, StreamPage
<1>5. CASE link' = GiveUp(l)
  BY <1>1, <1>2, <1>3, <1>4, <1>5, GivenUp, AnswerStays
<1>6. CASE /\ Pull(l)
           /\ \/ link' = [link EXCEPT ![l].pc = "page",
                                      ![l].ops = Page(link[l].last)]
              \/ link' = [link EXCEPT ![l].pc = "behind"]
  <2>1. Continues(l)
    BY <1>1, <1>6 DEF Continues, LinkRecord
  <2> QED BY <1>1, <1>2, <1>3, <1>4, <2>1, AnswerStays
<1>7. CASE link' = [link EXCEPT ![l].pc = "live", ![l].live = TRUE]
  <2>1. Continues(l)
    BY <1>1, <1>7 DEF Continues, LinkRecord
  <2> QED BY <1>1, <1>2, <1>3, <1>4, <2>1, AnswerStays
<1>8. CASE link' = [link EXCEPT ![l].pc = "page",
                                ![l].ops = Page(link[l].last)]
  <2>1. Continues(l)
    BY <1>1, <1>8 DEF Continues, LinkRecord
  <2> QED BY <1>1, <1>2, <1>3, <1>4, <2>1, AnswerStays
<1>9. CASE Pull(l)
  BY <1>6, <1>9 DEF Pull
<1>10. CASE OpenStream(l)
  BY <1>5, <1>7, <1>10 DEF OpenStream
<1>11. CASE StreamPage(l)
  BY <1>5, <1>8, <1>11 DEF StreamPage
<1> QED BY <1>9, <1>10, <1>11

LEMMA TakenStays ==
  ASSUME ReplicationInv, PruneInv, Moves, NEW l \in Link, Push(l)
  PROVE  PruneInv'
<1>1. /\ link \in [Link -> LinkRecord] /\ link[l] \in LinkRecord
      /\ l[1] \in Client /\ 0 \in Nat
      /\ hub \in [ops : Seq(Op), floor : Int]
  BY Bases
<1>2. /\ UNCHANGED <<absent, compacted>>
      /\ hub'.floor = hub.floor
      /\ registry' = Touched(l[1])
  BY <1>1 DEF Push, TakePush
<1>3. CASE link' = GiveUp(l)
  BY <1>1, <1>2, <1>3, GivenUp, AnswerStays
<1>4. CASE link' = [link EXCEPT
                       ![l].pc = IF link[l].live THEN "live" ELSE "pull",
                       ![l].pushed = Len(log'[Server][l[1]])]
  <2>1. Continues(l)
    BY <1>1, <1>4 DEF Continues, LinkRecord
  <2> QED BY <1>1, <1>2, <2>1, AnswerStays
<1> QED BY <1>3, <1>4 DEF Push

LEMMA LateStays ==
  ASSUME ReplicationInv, PruneInv, Moves, NEW r \in strays, Stray(r)
  PROVE  PruneInv'
<1>1. /\ hub \in [ops : Seq(Op), floor : Int]
      /\ r \in [client : Client, push : Seq(Op)]
                  \cup [client : Client, after : Nat]
  BY Bases
<1>2. UNCHANGED <<absent, compacted, link>>
  BY DEF Stray
<1>3. r.client \in Client /\ 0 \in Nat
  BY <1>1
<1>4. CASE TakePush(r.client, r.push)
  <2>1. hub'.floor = hub.floor /\ registry' = Touched(r.client)
    BY <1>1, <1>4 DEF TakePush
  <2> QED BY <1>2, <1>3, <2>1, AnswerStays
<1>5. CASE "after" \in DOMAIN r /\ Ingest(log[Server])
              /\ registry' = Recorded(r.client, r.after)
  <2>1. r.after \in Nat /\ hub'.floor = hub.floor
    BY <1>1, <1>5 DEF Ingest
  <2> QED BY <1>2, <1>3, <1>5, <2>1, AnswerStays
<1> QED BY <1>4, <1>5 DEF Stray

\* What the hub tells of what everyone has, after it took in what is new.
LEMMA ToldReceived ==
  ASSUME ReplicationInv, PruneInv, Moves, UNCHANGED <<log, absent>>,
         NEW reg \in [Client -> [cursor : Nat, seen : BOOLEAN]],
         \A c \in Client : /\ reg[c].cursor = registry'[c].cursor
                           /\ reg[c].cursor = registry[c].cursor
                           /\ registry[c].seen => reg[c].seen
  PROVE  Received(StableVector(hub'.ops, reg), log', synced', absent')
<1>1. /\ log' \in Logs /\ synced' \in [Node -> Nat] /\ hub'.ops \in Seq(Op)
      /\ Orderly(hub'.ops)
      /\ \A j \in 1 .. Len(hub'.ops) : hub'.ops[j] \in Durable(log', synced')
  BY DEF Moves, ReplicationInv, ReplicationTyped, Logs, HubSound
<1>2. ASSUME NEW c \in Client \ absent'
      PROVE  c \in Active(reg) /\ Within(hub'.ops, log'[c], reg[c].cursor)
  <2>1. Within(hub'.ops, log'[c], registry'[c].cursor)
    BY DEF Moves, ReplicationInv, CursorsSound
  <2>2. registry[c].seen /\ hub.floor <= registry[c].cursor
    BY DEF PruneInv
  <2>3. hub.floor \in Int /\ reg[c].cursor \in Nat
    BY Bases
  <2> QED BY <2>1, <2>2, <2>3 DEF Active
<1> QED BY <1>1, <1>2, StableReceived

LEMMA HelloStays ==
  ASSUME ReplicationInv, PruneInv, Moves, NEW l \in Link, Hello(l)
  PROVE  PruneInv'
<1> DEFINE stable == StableVector(hub'.ops, registry')
<1>1. /\ link \in [Link -> LinkRecord] /\ link[l] \in LinkRecord
      /\ l[1] \in Client /\ 0 \in Nat
      /\ hub \in [ops : Seq(Op), floor : Int]
      /\ registry \in [Client -> [cursor : Nat, seen : BOOLEAN]]
  BY Bases
<1>2. /\ UNCHANGED <<absent, compacted, log>>
      /\ hub'.floor = hub.floor
      /\ registry' = Touched(l[1])
  BY <1>1 DEF Hello, Ingest
<1>3. CASE UNCHANGED link
  BY <1>1, <1>2, <1>3, AnswerStays
<1>4. CASE \E last \in Nat, head \in Nat :
              link' = [link EXCEPT ![l].pc = "push", ![l].last = last,
                                   ![l].pushed = head, ![l].stable = stable]
  <2>1. /\ registry' \in [Client -> [cursor : Nat, seen : BOOLEAN]]
        /\ \A c \in Client : /\ registry'[c].cursor = registry[c].cursor
                             /\ registry[c].seen => registry'[c].seen
    BY <1>1, <1>2 DEF Touched
  <2>2. Received(stable, log', synced', absent')
    BY <1>2, <2>1, ToldReceived
  <2>3. Continues(l)
    <3> HIDE DEF stable
    <3> QED BY <1>1, <1>4, <2>2 DEF Continues, LinkRecord
  <2> QED BY <1>1, <1>2, <2>3, AnswerStays
<1>5. /\ Len(log[Server][l[1]]) \in Nat
      /\ (IF file[l[1]] > Len(hub'.ops) THEN 0 ELSE file[l[1]]) \in Nat
  <2>1. file \in [Client -> Nat] /\ log \in Logs /\ l[1] \in Node
        /\ Server \in Node
    BY Bases
  <2> QED BY <1>1, <2>1, LogsHave
<1> QED BY <1>3, <1>4, <1>5 DEF Hello

LEMMA DownloadStays ==
  ASSUME ReplicationInv, PruneInv, Moves, NEW l \in Link, Download(l)
  PROVE  PruneInv'
<1> DEFINE snap == [log |-> log[Server], ahead |-> ahead[Server],
                    compacted |-> compacted[Server], last |-> Len(hub'.ops)]
<1>1. /\ link \in [Link -> LinkRecord] /\ link[l] \in LinkRecord
      /\ l[1] \in Client /\ 0 \in Nat /\ Server \in Node
      /\ hub \in [ops : Seq(Op), floor : Int]
      /\ registry \in [Client -> [cursor : Nat, seen : BOOLEAN]]
      /\ compacted \in [Node -> [Node -> Nat]]
      /\ log \in Logs /\ synced \in [Node -> Nat]
  BY Bases
<1>2. /\ UNCHANGED <<absent, compacted, log>>
      /\ hub'.floor = hub.floor
      /\ registry' = Touched(l[1])
  BY <1>1 DEF Download, Ingest
<1>3. CASE link' = GiveUp(l)
  BY <1>1, <1>2, <1>3, GivenUp, AnswerStays
<1>4. CASE link' = [link EXCEPT ![l].pc = "staged", ![l].snap = snap]
  <2>1. \A c \in Client \ absent' : /\ registry'[c].seen
                                    /\ hub'.floor <= registry'[c].cursor
    BY <1>1, <1>2 DEF Touched, PruneInv
  <2>2. Received(snap.compacted, log', synced', absent')
    <3>1. /\ Advances(log, synced, hub.ops, log', synced', hub'.ops)
          /\ log' \in Logs /\ synced' \in [Node -> Nat]
      BY DEF Moves, ReplicationInv, ReplicationTyped, Logs
    <3>2. Received(compacted[Server], log, synced, absent)
          /\ compacted[Server] \in [Node -> Nat]
      BY <1>1 DEF PruneInv
    <3>3. Received(compacted[Server], log', synced', absent')
      BY <1>1, <1>2, <3>1, <3>2, ReceivedStays
    <3> QED BY <3>3
  <2> HIDE DEF snap
  <2>3. /\ \A m \in Link : m # l => link'[m] = link[m]
        /\ link'[l].stable = link[l].stable /\ link'[l].snap = snap
    BY <1>1, <1>4 DEF LinkRecord
  <2>4. /\ \A m \in Link : link'[m].stable = link[m].stable
        /\ \A m \in Link : link'[m].pc = "staged" =>
              \/ link[m].pc = "staged" /\ link'[m].snap = link[m].snap
              \/ Received(link'[m].snap.compacted, log', synced', absent')
    BY <2>2, <2>3
  <2> QED BY <1>2, <2>1, <2>4, PruneStays
<1> QED BY <1>3, <1>4 DEF Download

LEMMA InstallStays ==
  ASSUME ReplicationInv, PruneInv, Moves, NEW l \in Link, Install(l)
  PROVE  PruneInv'
<1>1. /\ link \in [Link -> LinkRecord] /\ link[l] \in LinkRecord
      /\ l[1] \in Client /\ l[1] \in Node
      /\ compacted \in [Node -> [Node -> Nat]]
      /\ log \in Logs /\ synced \in [Node -> Nat]
  BY Bases
<1>2. UNCHANGED <<absent, registry, hub>> /\ link[l].pc = "staged"
  BY DEF Install, At
<1>3. CASE link' = GiveUp(l) /\ UNCHANGED compacted
  BY <1>2, <1>3, GivenUp, AsideStays
<1>4. CASE /\ compacted' = [compacted EXCEPT ![l[1]] = link[l].snap.compacted]
           /\ \E own :
                 link' = [link EXCEPT ![l].pc = "installed", ![l].last = 0,
                                      ![l].pushed = own, ![l].snap = <<>>]
  <2> DEFINE v == link[l].snap.compacted
  <2>1. v \in [Node -> Nat] /\ Received(v, log, synced, absent)
    <3>1. link[l].snap \in Snapshot
      BY <1>2, Bases DEF LinkSound, Staged
    <3> QED BY <1>2, <3>1 DEF Snapshot, PruneInv, At
  <2> HIDE DEF v
  <2>2. /\ Advances(log, synced, hub.ops, log', synced', hub'.ops)
        /\ log' \in Logs /\ synced' \in [Node -> Nat]
    BY DEF Moves, ReplicationInv, ReplicationTyped, Logs
  <2>3. Received(v, log', synced', absent')
    BY <1>1, <1>2, <2>1, <2>2, ReceivedStays
  <2>4. \A n \in Node :
           \/ compacted'[n] = compacted[n]
           \/ Received(compacted'[n], log', synced', absent')
    <3>1. compacted' = [compacted EXCEPT ![l[1]] = v]
      BY <1>4 DEF v
    <3> QED BY <1>1, <2>3, <3>1
  <2>5. Continues(l)
    BY <1>1, <1>4 DEF Continues, LinkRecord
  <2>6. \A c \in Client \ absent' : /\ registry'[c].seen
                                    /\ hub'.floor <= registry'[c].cursor
    BY <1>2 DEF PruneInv
  <2>7. /\ \A m \in Link :
              \/ link'[m].stable = link[m].stable
              \/ Received(link'[m].stable, log', synced', absent')
        /\ \A m \in Link : link'[m].pc = "staged" =>
              \/ link[m].pc = "staged" /\ link'[m].snap = link[m].snap
              \/ Received(link'[m].snap.compacted, log', synced', absent')
    BY <2>5 DEF Continues
  <2> QED BY <1>2, <2>4, <2>6, <2>7, PruneStays
<1> QED BY <1>3, <1>4 DEF Install, replicas

LEMMA PrunedStays ==
  ASSUME ReplicationInv, PruneInv, Moves, NEW l \in Link, Prune(l)
  PROVE  PruneInv'
<1> DEFINE c == l[1]
           v == VectorOf(log[c])
           w == [v EXCEPT ![c] = link[l].pushed]
           stable == link[l].stable
<1>1. /\ link \in [Link -> LinkRecord] /\ link[l] \in LinkRecord
      /\ c \in Client /\ c \in Node
      /\ compacted \in [Node -> [Node -> Nat]]
      /\ log \in Logs /\ synced \in [Node -> Nat]
      /\ v \in [Node -> Nat] /\ w \in [Node -> Nat]
      /\ stable \in [Node -> Nat]
  <2>1. /\ link \in [Link -> LinkRecord] /\ link[l] \in LinkRecord
        /\ c \in Client /\ c \in Node
        /\ compacted \in [Node -> [Node -> Nat]]
        /\ log \in Logs /\ synced \in [Node -> Nat]
        /\ link[l].pushed \in Nat /\ stable \in [Node -> Nat]
    BY Bases, LinkHas
  <2>2. v \in [Node -> Nat]
    BY <2>1, VectorsAre
  <2> HIDE DEF v, c, stable
  <2>3. w \in [Node -> Nat]
    BY <2>1, <2>2
  <2> QED BY <2>1, <2>2, <2>3
<1>2. /\ compacted' = [compacted EXCEPT ![c] =
                          Most(compacted[c], Least(Least(w, stable), v))]
      /\ \/ link' = [link EXCEPT ![l].pc = "open", ![l].stable = Zero]
         \/ link' = GiveUp(l)
      /\ UNCHANGED <<log, synced, registry, hub, absent>>
  BY DEF Prune, Receipt
<1> HIDE DEF v, w, stable
<1>3. Received(stable, log, synced, absent)
      /\ Received(compacted[c], log, synced, absent)
      /\ compacted[c] \in [Node -> Nat]
  BY <1>1 DEF PruneInv, stable
<1>4. /\ Received(Least(w, stable), log, synced, absent)
      /\ Least(w, stable) \in [Node -> Nat]
  BY <1>1, <1>3, ReceivedLeast
<1>5. /\ Received(Least(Least(w, stable), v), log, synced, absent)
      /\ Least(Least(w, stable), v) \in [Node -> Nat]
  BY <1>1, <1>4, ReceivedLeast
<1>6. Received(Most(compacted[c], Least(Least(w, stable), v)),
               log, synced, absent)
  BY <1>3, <1>5, ReceivedMost
<1>7. \A n \in Node :
         \/ compacted'[n] = compacted[n]
         \/ Received(compacted'[n], log', synced', absent')
  <2>1. Received(compacted'[c], log, synced, absent)
    BY <1>1, <1>2, <1>6
  <2>2. \A n \in Node : n # c => compacted'[n] = compacted[n]
    BY <1>1, <1>2
  <2> HIDE DEF c
  <2> QED BY <1>2, <2>1, <2>2
<1>8. \A d \in Client \ absent' : /\ registry'[d].seen
                                  /\ hub'.floor <= registry'[d].cursor
  BY <1>2 DEF PruneInv
<1>9. Continues(l)
  <2>1. CASE link' = GiveUp(l)
    BY <2>1, GivenUp
  <2>2. CASE link' = [link EXCEPT ![l].pc = "open", ![l].stable = Zero]
    <3>1. Received(Zero, log', synced', absent')
      BY <1>1, <1>2, ReceivedZero
    <3> HIDE DEF c
    <3> QED BY <1>1, <2>2, <3>1 DEF Continues, LinkRecord
  <2> QED BY <1>2, <2>1, <2>2
<1>10. /\ \A m \in Link :
             \/ link'[m].stable = link[m].stable
             \/ Received(link'[m].stable, log', synced', absent')
       /\ \A m \in Link : link'[m].pc = "staged" =>
             \/ link[m].pc = "staged" /\ link'[m].snap = link[m].snap
             \/ Received(link'[m].snap.compacted, log', synced', absent')
  BY <1>9 DEF Continues
<1> QED BY <1>2, <1>7, <1>8, <1>10, PruneStays

LEMMA MaintainStays ==
  ASSUME ReplicationInv, PruneInv, Moves, Maintain
  PROVE  PruneInv'
<1> DEFINE V == VectorOf(log[Server])
           H == Ingested(log[Server])
           F == ServerFrontier(H)
<1>1. /\ compacted' = [compacted EXCEPT ![Server] = Most(compacted[Server], F)]
      /\ hub'.ops = H
      /\ hub'.floor = hub.floor \/ hub'.floor <= Lowest(H, registry)
      /\ UNCHANGED <<log, registry, link, absent>>
  <2> DEFINE low == Lowest(H, registry)
             end == Len(H) - 1
             reach == IF low < end THEN low ELSE end
  <2>1. PICK f \in {hub.floor, reach} : hub' = [ops |-> H, floor |-> f]
    BY DEF Maintain
  <2>2. low \in Nat /\ end \in Int
    <3>1. H \in Seq(Op)
      <4>1. hub'.ops = H
        BY <2>1
      <4> QED BY <4>1 DEF Moves, ReplicationInv, ReplicationTyped
    <3> HIDE DEF H
    <3> QED BY <3>1, Bases, StableTyped
  <2>3. reach <= low
    <3> HIDE DEF low, end
    <3> QED BY <2>2
  <2> HIDE DEF low, H, F, reach
  <2>4. hub'.ops = H /\ hub'.floor = f
    BY <2>1
  <2>5. hub'.floor = hub.floor \/ hub'.floor <= low
    BY <2>1, <2>3, <2>4
  <2> QED BY <2>4, <2>5 DEF Maintain, F, H, low
<1>2. /\ Server \in Node /\ compacted[Server] \in [Node -> Nat]
      /\ compacted \in [Node -> [Node -> Nat]]
      /\ registry \in [Client -> [cursor : Nat, seen : BOOLEAN]]
      /\ V \in [Node -> Nat] /\ H \in Seq(Op)
      /\ log' \in Logs /\ synced' \in [Node -> Nat]
      /\ log \in Logs /\ synced \in [Node -> Nat] /\ hub.floor \in Int
  <2>1. hub'.ops \in Seq(Op) /\ log' \in Logs /\ synced' \in [Node -> Nat]
    BY DEF Moves, ReplicationInv, ReplicationTyped, Logs
  <2> QED BY <1>1, <2>1, Bases, VectorsAre
<1>3. StableVector(H, registry) \in [Node -> Nat]
  BY <1>2, StableTyped
<1>4. ASSUME Client \ absent # {} PROVE Active(registry) # {}
  <2>1. PICK c \in Client \ absent : TRUE
    BY <1>4
  <2>2. registry[c].seen /\ hub.floor <= registry[c].cursor
    BY <2>1 DEF PruneInv
  <2> QED BY <1>2, <2>1, <2>2 DEF Active
<1>5. F \in [Node -> Nat] /\ Received(F, log', synced', absent')
  <2>1. CASE Active(registry) # {}
    <3>1. F = Least(V, StableVector(H, registry))
      BY <2>1 DEF ServerFrontier
    <3>2. Received(StableVector(H, registry), log', synced', absent')
      <4>1. /\ \A c \in Client : /\ registry[c].cursor = registry'[c].cursor
                                 /\ registry[c].cursor = registry[c].cursor
                                 /\ registry[c].seen => registry[c].seen
            /\ UNCHANGED <<log, absent>>
        BY <1>1
      <4>2. Received(StableVector(hub'.ops, registry), log', synced', absent')
        BY <1>2, <4>1, ToldReceived
      <4> QED BY <1>1, <4>2
    <3> HIDE DEF F, V, H
    <3> QED BY <1>2, <1>3, <3>1, <3>2, ReceivedLeast
  <2>2. CASE Active(registry) = {}
    <3>1. Client \ absent' = {}
      BY <1>1, <1>4, <2>2
    <3>2. F \in {Zero, V}
      BY <2>2 DEF ServerFrontier
    <3>3. Zero \in [Node -> Nat]
      BY VectorsAre
    <3> HIDE DEF F, V
    <3> QED BY <1>2, <3>1, <3>2, <3>3 DEF Received
  <2> QED BY <2>1, <2>2
<1>6. Received(compacted[Server], log', synced', absent')
  <2>1. /\ Advances(log, synced, hub.ops, log', synced', hub'.ops)
        /\ Received(compacted[Server], log, synced, absent)
    BY <1>2 DEF Moves, PruneInv
  <2> QED BY <1>1, <1>2, <2>1, ReceivedStays
<1> HIDE DEF F, V, H
<1>7. Received(Most(compacted[Server], F), log', synced', absent')
  BY <1>2, <1>5, <1>6, ReceivedMost
<1>8. \A n \in Node :
         \/ compacted'[n] = compacted[n]
         \/ Received(compacted'[n], log', synced', absent')
  BY <1>1, <1>2, <1>7
<1>9. ASSUME NEW c \in Client \ absent'
      PROVE  registry'[c].seen /\ hub'.floor <= registry'[c].cursor
  <2>1. registry[c].seen /\ hub.floor <= registry[c].cursor
    BY <1>1 DEF PruneInv
  <2>2. c \in Active(registry) /\ registry[c].cursor \in Nat
    BY <1>2, <2>1 DEF Active
  <2>3. Lowest(H, registry) <= registry[c].cursor
    BY <1>2, <2>2, LowestIs
  <2>4. Lowest(H, registry) \in Nat
    BY <1>2, StableTyped
  <2>5. hub'.floor \in Int
    BY DEF Moves, ReplicationInv, ReplicationTyped
  <2> QED BY <1>1, <2>1, <2>2, <2>3, <2>4, <2>5
<1>10. /\ \A m \in Link : link'[m] = link[m]
       /\ absent \subseteq absent'
  BY <1>1
<1> QED BY <1>8, <1>9, <1>10, PruneStays

LEMMA PruneStarts == Init => PruneInv
<1> SUFFICES ASSUME Init PROVE PruneInv
  OBVIOUS
<1>1. ReplicationInv
  BY ReplicationStarts
<1>2. log \in Logs /\ synced \in [Node -> Nat]
  BY <1>1, Bases
<1>3. Received(Zero, log, synced, absent)
  BY <1>2, ReceivedZero
<1>4. \A n \in Node : compacted[n] = Zero
  BY DEF Init
<1>5. \A l \in Link : link[l] = Idle
  BY DEF Init
<1>6. Idle.stable = Zero /\ Idle.pc # "staged"
  BY DEF Idle
<1>7. \A c \in Client \ absent : /\ registry[c].seen
                                 /\ hub.floor <= registry[c].cursor
  BY DEF Init
<1> QED BY <1>3, <1>4, <1>5, <1>6, <1>7 DEF PruneInv, At

LEMMA PruneKept ==
  ASSUME ReplicationInv, PruneInv, Moves, Next
  PROVE  PruneInv'
<1>1. ASSUME NEW n \in Node, Write(n) \/ LosePower(n) PROVE PruneInv'
  BY <1>1, WriteStays, LosePowerStays
<1>2. ASSUME NEW c \in Client, Quiet(c) PROVE PruneInv'
  BY <1>2, QuietStays
<1>3. ASSUME NEW l \in Link, Break(l) \/ Abandon(l) PROVE PruneInv'
  BY <1>3, BreakStays
<1>4. ASSUME NEW l \in Link, Advance(l) PROVE PruneInv'
  <2>1. CASE Hello(l)
    BY <2>1, HelloStays
  <2>2. CASE PushNothing(l) \/ PushLive(l) \/ Reload(l) \/ SaveCursor(l)
                \/ Apply(l)
    BY <2>2, AloneStays
  <2>3. CASE Push(l)
    BY <2>3, TakenStays
  <2>4. CASE Pull(l) \/ OpenStream(l) \/ StreamPage(l)
    BY <2>4, AskStays
  <2>5. CASE Download(l)
    BY <2>5, DownloadStays
  <2>6. CASE Install(l)
    BY <2>6, InstallStays
  <2>7. CASE Prune(l)
    BY <2>7, PrunedStays
  <2>8. CASE Finish(l)
    BY <2>8, BreakStays
  <2> QED BY <1>4, <2>1, <2>2, <2>3, <2>4, <2>5, <2>6, <2>7, <2>8 DEF Advance
<1>5. ASSUME NEW r \in strays, Stray(r) PROVE PruneInv'
  BY <1>5, LateStays
<1>6. ASSUME Maintain PROVE PruneInv'
  BY <1>6, MaintainStays
<1> QED BY <1>1, <1>2, <1>3, <1>4, <1>5, <1>6 DEF Next

\* What was received a client still holds, its own writing too, which is
\* durable by then.
LEMMA PrunedTold ==
  ASSUME ReplicationInv, PruneInv
  PROVE  PrunedIsReceived
<1> SUFFICES ASSUME NEW n \in Node, NEW c \in Client \ absent, NEW o \in Node
             PROVE  compacted[n][o] <= Len(log[c][o])
  BY DEF PrunedIsReceived
<1>1. /\ c \in Node /\ log \in Logs /\ synced[o] \in Nat
      /\ compacted[n][o] \in Nat
  BY Bases
<1>2. Len(log[c][o]) \in Nat /\ synced[o] <= Len(log[o][o])
      /\ Len(log[o][o]) \in Nat
  BY <1>1, LogsHave DEF ReplicationInv, Dated
<1>3. compacted[n][o] <= IF o = c THEN synced[o] ELSE Len(log[c][o])
  BY DEF PruneInv, Received
<1> QED BY <1>1, <1>2, <1>3

\* No node prunes what a client that was never away for too long has not
\* received: what Hub::stable_vector tells is counted below the cursor of
\* every client that is still waited for, the hub drops no segment above one,
\* and neither the receipt of a client nor the frontier of the server goes
\* beyond.
THEOREM PrunedWasReceived ==
  ASSUME OneProcess
  PROVE  Spec => []PrunedIsReceived
<1>1. Init => ReplicationInv /\ PruneInv
  BY ReplicationStarts, PruneStarts
<1>2. ReplicationInv /\ PruneInv /\ [Next]_vars => (ReplicationInv /\ PruneInv)'
  <2> SUFFICES ASSUME ReplicationInv, PruneInv, [Next]_vars
               PROVE  ReplicationInv' /\ PruneInv'
    OBVIOUS
  <2>1. Moves
    BY ReplicationMoves, ReplicationStutters
  <2>2. CASE Next
    BY <2>1, <2>2, PruneKept DEF Moves
  <2>3. CASE UNCHANGED vars
    <3>1. UNCHANGED <<absent, compacted, registry, hub, link>>
      BY <2>3 DEF vars, replicas
    <3> QED BY <2>1, <3>1, AsideStays DEF Moves
  <2> QED BY <2>2, <2>3
<1>3. ReplicationInv /\ PruneInv => PrunedIsReceived
  BY PrunedTold
<1> QED BY <1>1, <1>2, <1>3, PTL DEF Spec

=============================================================================
