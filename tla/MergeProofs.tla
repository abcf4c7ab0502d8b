---------------------------- MODULE MergeProofs ----------------------------
(***************************************************************************)
(* What replicas that merge one field agree on, proved for every number of *)
(* replicas, values, operations and restarts (module Merge): the clocks    *)
(* are a total order in which a node's own operations come after all it    *)
(* has seen, so what a replica keeps is a function of the operations it    *)
(* has; and the version an author wrote on is the latest it had seen, so   *)
(* the chain of versions and the rule of the covered loser leave exactly   *)
(* the concurrent ones.                                                    *)
(***************************************************************************)
EXTENDS Merge, Extremes

Time == Int \X Int \X Int

AtMost(a, b) == a = b \/ Older(a, b)

ClocksOf(S) == {o.hlc : o \in S}

Restores(S) == {op \in S : op.kind = "restore"}

Stamp == Nat \X Nat \X Replica

Operation ==
    [kind : {"set", "tombstone", "restore"}, hlc : Stamp, value : Value,
     prev : Time, seen : SUBSET Time]

\* c is the latest of the clocks T, or no clock yet.
LatestOf(c, T) ==
    IF T = {} THEN c = Never ELSE c \in T /\ \A d \in T : AtMost(d, c)

\* A field is the latest version among S, with that version's value.
FieldIs(f, S) ==
    /\ LatestOf(f.clock, ClocksOf(Sets(S)))
    /\ \A x \in Sets(S) : x.hlc = f.clock => x.value = f.value
    /\ Sets(S) = {} => f.value = CHOOSE v \in Value : TRUE

LifeIs(l, S) ==
    /\ LatestOf(l.deleted, ClocksOf(Tombstones(S)))
    /\ LatestOf(l.restored, ClocksOf(Restores(S)))

\* What a replica keeps of the operations S it has.
KeptIs(k, S) ==
    /\ \A o \in S : AtMost(o.hlc, k.clock)
    /\ FieldIs(k.field, S)
    /\ LifeIs(k.life, S)

Kept(n) == [clock |-> hlc[n], field |-> field[n], life |-> life[n]]

KeptTyped(k) ==
    /\ k.clock \in Stamp
    /\ k.field \in [clock : Time, value : Value]
    /\ k.life \in [deleted : Time, restored : Time]

OneClockEach(W) == \A x, y \in W : x.hlc = y.hlc => x = y

\* The author of an operation keeps it.
OwnKept(W, L) == \A n \in Replica : \A op \in W : op.hlc[3] = n => op \in L[n]

\* An author has seen only what was written, and only what its clock is after.
SeenBefore(W) ==
    \A op \in W : op.seen \subseteq ClocksOf(W) /\ \A c \in op.seen : Older(c, op.hlc)

OwnSeen(W) ==
    \A x, y \in W : x.hlc[3] = y.hlc[3] /\ Older(x.hlc, y.hlc) => x.hlc \in y.seen

\* A version is written on the latest version its author had seen.
OnLatestSeen(W) ==
    \A op \in Sets(W) : LatestOf(op.prev, ClocksOf(Sets(W)) \cap op.seen)

With(L, n, new) == [L EXCEPT ![n] = @ \cup new]

HistoryInv(W, L) ==
    /\ OneClockEach(W) /\ OwnKept(W, L) /\ SeenBefore(W)
    /\ OwnSeen(W) /\ OnLatestSeen(W)

\* A conflict is about a version that lost to a deletion, or to a later version
\* whose author had not seen it.
Grounded(c, S) ==
    \E x \in Sets(S) :
       /\ c.loser = x.hlc
       /\ \/ c.winner \in ClocksOf(Tombstones(S))
          \/ \E w \in Sets(S) :
                c.winner = w.hlc /\ Older(x.hlc, w.hlc) /\ x.hlc \notin w.seen

\* op comes after everything node n has of the operations W, and says so.
Follows(W, L, n, c, op) ==
    /\ W \subseteq Operation /\ L \in [Replica -> SUBSET Operation]
    /\ \A m \in Replica : L[m] \subseteq W
    /\ n \in Replica /\ op \in Operation /\ c \in Stamp
    /\ \A o \in L[n] : AtMost(o.hlc, c)
    /\ Older(c, op.hlc) /\ op.hlc[3] = n /\ op.seen = ClocksOf(L[n])
    /\ op.kind = "set" => LatestOf(op.prev, ClocksOf(Sets(L[n])))

\* op, of this kind and with clock c, is what node n may write next.
Issues(n, kind, v, p, c, op) ==
    /\ kind \in {"set", "tombstone", "restore"} /\ v \in Value /\ p \in Time
    /\ kind = "set" => p = field[n].clock
    /\ c = Tick(hlc[n], wall[n], n)
    /\ op = NewOp(n, kind, v, p, c)

\* What holds of it once it is written.
Issued(n, kind, c, op) ==
    /\ op \in Operation /\ op.kind = kind /\ op.hlc = c /\ c \in Stamp /\ c[3] = n
    /\ HistoryInv(written \cup {op}, With(log, n, {op}))
    /\ KeptTyped(ApplyOp(Kept(n), op)) /\ KeptIs(ApplyOp(Kept(n), op), log[n] \cup {op})
    /\ ApplyOp(Kept(n), op) =
         [clock |-> c, field |-> ApplyMeta(field[n], op), life |-> ApplyLife(life[n], op)]

MergeTyped ==
    /\ wall \in [Replica -> Nat]
    /\ hlc \in [Replica -> Stamp]
    /\ written \in SUBSET Operation
    /\ IsFiniteSet(written)
    /\ log \in [Replica -> SUBSET Operation]
    /\ \A n \in Replica : log[n] \subseteq written
    /\ field \in [Replica -> [clock : Time, value : Value]]
    /\ life \in [Replica -> [deleted : Time, restored : Time]]
    /\ conf \in [Replica -> SUBSET [winner : Time, loser : Time]]
    /\ warm \in [Replica -> BOOLEAN]

MergeInv ==
    /\ MergeTyped
    /\ HistoryInv(written, log)
    /\ \A n \in Replica :
          /\ KeptIs(Kept(n), log[n])
          /\ \A c \in conf[n] : Grounded(c, log[n])
    /\ ConflictsAreRecomputable

----------------------------------------------------------------------------
\* The order of clocks.

LEMMA NeverIsTime == Never \in Time
BY DEF Never, Time

LEMMA StampIsTime ==
  ASSUME NEW c \in Stamp
  PROVE  c \in Time /\ Older(Never, c) /\ c # Never /\ c[3] \in Replica
<1>1. c = <<c[1], c[2], c[3]>> /\ c[1] \in Nat /\ c[2] \in Nat /\ c[3] \in Replica
  BY DEF Stamp
<1>2. c[3] \in Nat
  BY <1>1, MergeAssumption
<1>3. c \in Time
  BY <1>1, <1>2 DEF Time
<1>4. Never[1] = -1 /\ -1 < c[1]
  BY <1>1 DEF Never
<1> QED BY <1>1, <1>3, <1>4 DEF Older

LEMMA TimeParts ==
  ASSUME NEW a \in Time
  PROVE  a[1] \in Int /\ a[2] \in Int /\ a[3] \in Int /\ a = <<a[1], a[2], a[3]>>
BY DEF Time

LEMMA OlderStrict ==
  ASSUME NEW a \in Time
  PROVE  ~ Older(a, a)
BY TimeParts DEF Older

LEMMA OlderTransitive ==
  ASSUME NEW a \in Time, NEW b \in Time, NEW c \in Time, Older(a, b), Older(b, c)
  PROVE  Older(a, c)
<1>1. /\ a[1] \in Int /\ a[2] \in Int /\ a[3] \in Int
      /\ b[1] \in Int /\ b[2] \in Int /\ b[3] \in Int
      /\ c[1] \in Int /\ c[2] \in Int /\ c[3] \in Int
  BY TimeParts
<1> QED BY <1>1 DEF Older

LEMMA OlderTotal ==
  ASSUME NEW a \in Time, NEW b \in Time
  PROVE  a = b \/ Older(a, b) \/ Older(b, a)
<1>1. /\ a[1] \in Int /\ a[2] \in Int /\ a[3] \in Int /\ a = <<a[1], a[2], a[3]>>
      /\ b[1] \in Int /\ b[2] \in Int /\ b[3] \in Int /\ b = <<b[1], b[2], b[3]>>
  BY TimeParts
<1>2. CASE a[1] # b[1]
  BY <1>1, <1>2 DEF Older
<1>3. CASE a[1] = b[1] /\ a[2] # b[2]
  BY <1>1, <1>3 DEF Older
<1>4. CASE a[1] = b[1] /\ a[2] = b[2] /\ a[3] # b[3]
  BY <1>1, <1>4 DEF Older
<1>5. CASE a[1] = b[1] /\ a[2] = b[2] /\ a[3] = b[3]
  BY <1>1, <1>5
<1> QED BY <1>2, <1>3, <1>4, <1>5

LEMMA NotBothOlder ==
  ASSUME NEW a \in Time, NEW b \in Time, Older(a, b)
  PROVE  ~ Older(b, a) /\ a # b
BY OlderStrict, OlderTransitive

LEMMA AtMostTransitive ==
  ASSUME NEW a \in Time, NEW b \in Time, NEW c \in Time
  PROVE  /\ AtMost(a, b) /\ Older(b, c) => Older(a, c)
         /\ Older(a, b) /\ AtMost(b, c) => Older(a, c)
         /\ AtMost(a, b) /\ AtMost(b, c) => AtMost(a, c)
BY OlderTransitive DEF AtMost

\* Of two latest clocks of a set there is one.
LEMMA LatestIsOne ==
  ASSUME NEW T, T \subseteq Time, NEW c, NEW d, LatestOf(c, T), LatestOf(d, T)
  PROVE  c = d
<1>1. CASE T = {}
  BY <1>1 DEF LatestOf
<1>2. CASE T # {}
  <2>1. c \in T /\ d \in T /\ AtMost(c, d) /\ AtMost(d, c)
    BY <1>2 DEF LatestOf
  <2> QED BY <2>1, NotBothOlder DEF AtMost
<1> QED BY <1>1, <1>2

LEMMA LatestIsTime ==
  ASSUME NEW T, T \subseteq Stamp, NEW c, LatestOf(c, T)
  PROVE  c \in Time /\ (c # Never <=> T # {})
BY StampIsTime, NeverIsTime DEF LatestOf

\* The later of the latest clock and one more.
LEMMA LatestWithOne ==
  ASSUME NEW T, T \subseteq Stamp, NEW c, LatestOf(c, T), NEW d \in Stamp
  PROVE  /\ Older(c, d) => LatestOf(d, T \cup {d})
         /\ ~ Older(c, d) => LatestOf(c, T \cup {d})
<1>0. c \in Time /\ d \in Time /\ T \subseteq Time
  BY LatestIsTime, StampIsTime
<1>1. ASSUME T = {} PROVE c = Never /\ Older(c, d)
  BY <1>1, StampIsTime DEF LatestOf
<1>2. ASSUME Older(c, d), NEW x \in T PROVE AtMost(x, d)
  <2>1. AtMost(x, c)
    BY <1>2 DEF LatestOf
  <2> QED BY <1>0, <1>2, <2>1, AtMostTransitive DEF AtMost
<1>3. ASSUME ~ Older(c, d) PROVE T # {} /\ c \in T /\ AtMost(d, c)
  <2>1. T # {}
    BY <1>1, <1>3
  <2>2. c = d \/ Older(d, c)
    BY <1>0, <1>3, OlderTotal
  <2> QED BY <2>1, <2>2 DEF LatestOf, AtMost
<1>4. ASSUME Older(c, d) PROVE LatestOf(d, T \cup {d})
  <2>1. \A x \in T \cup {d} : AtMost(x, d)
    BY <1>2, <1>4 DEF AtMost
  <2> QED BY <2>1 DEF LatestOf
<1>5. ASSUME ~ Older(c, d) PROVE LatestOf(c, T \cup {d})
  <2>1. \A x \in T \cup {d} : AtMost(x, c)
    BY <1>3, <1>5 DEF LatestOf
  <2>2. c \in T \cup {d}
    BY <1>3, <1>5
  <2> QED BY <2>1, <2>2 DEF LatestOf
<1> QED BY <1>4, <1>5

LEMMA Tick3 ==
  ASSUME NEW c \in Stamp, NEW now \in Nat, NEW n \in Replica
  PROVE  /\ Tick(c, now, n) \in Stamp /\ Tick(c, now, n)[3] = n
         /\ Older(c, Tick(c, now, n))
<1>1. c[1] \in Nat /\ c[2] \in Nat
  BY DEF Stamp
<1>2. CASE now > c[1]
  <2>1. Tick(c, now, n) = <<now, 0, n>>
    BY <1>2 DEF Tick
  <2> QED BY <1>1, <1>2, <2>1 DEF Older, Stamp
<1>3. CASE ~ (now > c[1])
  <2>1. Tick(c, now, n) = <<c[1], c[2] + 1, n>>
    BY <1>3 DEF Tick
  <2> QED BY <1>1, <2>1 DEF Older, Stamp
<1> QED BY <1>2, <1>3

\* A set of stamps has an oldest one: by wall, then by counter, then by node.
LEMMA OldestOne ==
  ASSUME NEW T, T \subseteq Stamp, T # {}
  PROVE  \E c \in T : \A d \in T : AtMost(c, d)
<1>0. ASSUME NEW c \in T
      PROVE  /\ c[1] \in Nat /\ c[2] \in Nat /\ c[3] \in Nat
             /\ c = <<c[1], c[2], c[3]>>
  <2>1. c[1] \in Nat /\ c[2] \in Nat /\ c[3] \in Replica /\ c = <<c[1], c[2], c[3]>>
    BY DEF Stamp
  <2> QED BY <2>1, MergeAssumption
<1>1. PICK w \in {c[1] : c \in T} : \A v \in {c[1] : c \in T} : w <= v
  <2>1. {c[1] : c \in T} # {} /\ {c[1] : c \in T} \subseteq Nat
    BY <1>0
  <2> QED BY <2>1, LeastOne
<1> DEFINE U == {c \in T : c[1] = w}
<1>2. PICK k \in {c[2] : c \in U} : \A v \in {c[2] : c \in U} : k <= v
  <2>1. {c[2] : c \in U} # {} /\ {c[2] : c \in U} \subseteq Nat
    BY <1>0, <1>1
  <2> QED BY <2>1, LeastOne
<1> DEFINE V == {c \in U : c[2] = k}
<1>3. PICK r \in {c[3] : c \in V} : \A v \in {c[3] : c \in V} : r <= v
  <2>1. {c[3] : c \in V} # {} /\ {c[3] : c \in V} \subseteq Nat
    BY <1>0, <1>2
  <2> QED BY <2>1, LeastOne
<1>4. PICK c \in V : c[3] = r
  BY <1>3
<1>5. c \in T /\ c[1] = w /\ c[2] = k /\ c[3] = r
  BY <1>4
<1>6. ASSUME NEW d \in T PROVE AtMost(c, d)
  <2>0. /\ c[1] \in Nat /\ c[2] \in Nat /\ c[3] \in Nat /\ c = <<c[1], c[2], c[3]>>
        /\ d[1] \in Nat /\ d[2] \in Nat /\ d[3] \in Nat /\ d = <<d[1], d[2], d[3]>>
    BY <1>0, <1>5
  <2>1. w <= d[1]
    BY <1>1
  <2>2. d[1] = w => k <= d[2]
    BY <1>2
  <2>3. d[1] = w /\ d[2] = k => r <= d[3]
    BY <1>3
  <2>4. CASE c[1] < d[1]
    BY <2>4 DEF AtMost, Older
  <2>5. CASE c[1] = d[1] /\ c[2] < d[2]
    BY <2>5 DEF AtMost, Older
  <2>6. CASE c[1] = d[1] /\ c[2] = d[2] /\ c[3] < d[3]
    BY <2>6 DEF AtMost, Older
  <2>7. CASE c[1] = d[1] /\ c[2] = d[2] /\ c[3] = d[3]
    BY <2>0, <2>7 DEF AtMost
  <2> QED BY <1>5, <2>0, <2>1, <2>2, <2>3, <2>4, <2>5, <2>6, <2>7
<1> QED BY <1>5, <1>6

----------------------------------------------------------------------------
\* What a replica keeps.

\* A batch of two is one of them applied after the other, in an order the fold
\* chooses.
LEMMA ApplyAllOf ==
  ASSUME NEW f, NEW a, NEW b
  PROVE  \/ ApplyAll(f, {a, b}) = ApplyOp(ApplyOp(f, a), b) /\ a # b
         \/ ApplyAll(f, {a, b}) = ApplyOp(ApplyOp(f, b), a) /\ a # b
         \/ ApplyAll(f, {a, b}) = ApplyOp(f, a) /\ a = b
<1> DEFINE S == {a, b}
           pick(s) == CHOOSE x \in s : TRUE
           Step(g, s) == IF s = {} THEN f
                         ELSE ApplyOp(g[s \ {pick(s)}], pick(s))
           Unfold(g) == [s \in SUBSET S |-> Step(g, s)]
           iter == CHOOSE g : g = Unfold(g)
           c == pick(S)
           d == IF c = a THEN b ELSE a
           h == [s \in SUBSET S |->
                   IF s = {} THEN f
                   ELSE IF s = {d} THEN ApplyOp(f, d)
                   ELSE IF s = {c} THEN ApplyOp(f, c)
                   ELSE ApplyOp(ApplyOp(f, d), c)]
<1>1. ApplyAll(f, S) = iter[S]
  BY DEF ApplyAll, FoldSet, MapThenFoldSet
<1>2. ASSUME NEW s \in SUBSET S, s # {} PROVE pick(s) \in s
  BY <1>2
<1>3. c \in S /\ d \in S /\ S = {c, d} /\ (c = d <=> a = b)
  <2>1. c \in S
    BY <1>2
  <2> QED BY <2>1
<1>4. ASSUME NEW s \in SUBSET S PROVE h[s] = Step(h, s)
  <2>3. pick({c, d}) = c
    BY <1>3
  <2> HIDE DEF c, d, pick
  <2>1. s = {} \/ s = {c} \/ s = {d} \/ s = {c, d}
    BY <1>3
  <2>2. pick({c}) = c /\ pick({d}) = d
    BY <1>2, <1>3
  <2>4. CASE s = {}
    BY <2>4
  <2>5. CASE s = {c}
    BY <2>2, <2>5, <1>3
  <2>6. CASE s = {d}
    BY <2>2, <2>6, <1>3
  <2>7. CASE s = {c, d} /\ c # d
    <3>1. s \ {c} = {d} /\ s # {} /\ s # {c} /\ s # {d}
      BY <2>7
    <3> QED BY <2>3, <2>7, <3>1, <1>3
  <2> QED BY <2>1, <2>4, <2>5, <2>6, <2>7
<1>5. h = Unfold(h)
  <2> HIDE DEF Step
  <2>1. h = [s \in SUBSET S |-> h[s]]
    BY Zenon
  <2> HIDE DEF h
  <2> QED BY <1>4, <2>1
<1>6. iter = Unfold(iter)
  <2> HIDE DEF Unfold, h
  <2> QED BY <1>5
<1>7. ASSUME NEW s \in SUBSET S PROVE iter[s] = Step(iter, s)
  <2> HIDE DEF Step
  <2>1. iter[s] = Unfold(iter)[s]
    <3> HIDE DEF Unfold, iter
    <3> QED BY <1>6
  <2> HIDE DEF iter
  <2> QED BY <2>1
<1>10. pick(S) = c /\ d = (IF c = a THEN b ELSE a)
  OBVIOUS
<1> HIDE DEF iter, pick, c, d
<1>8. iter[{}] = f
  BY <1>7
<1>9. iter[{d}] = ApplyOp(f, d)
  <2>1. pick({d}) = d
    BY <1>2, <1>3
  <2> QED BY <1>3, <1>7, <1>8, <2>1
<1>11. CASE c # d
  <2>1. S \ {c} = {d} /\ S # {}
    BY <1>3, <1>11
  <2>2. iter[S] = ApplyOp(ApplyOp(f, d), c)
    BY <1>7, <1>9, <1>10, <2>1
  <2> QED BY <1>1, <1>3, <1>10, <1>11, <2>2
<1>12. CASE c = d
  <2>1. S = {d} /\ a = b /\ d = a
    BY <1>3, <1>12
  <2> QED BY <1>1, <1>9, <2>1
<1> QED BY <1>11, <1>12

LEMMA OperationParts ==
  ASSUME NEW op \in Operation
  PROVE  /\ op.kind \in {"set", "tombstone", "restore"} /\ op.hlc \in Stamp
         /\ op.value \in Value /\ op.prev \in Time /\ op.seen \subseteq Time
         /\ op.hlc \in Time /\ op.hlc[3] \in Replica
BY StampIsTime DEF Operation

LEMMA ClocksTyped ==
  ASSUME NEW S, S \subseteq Operation
  PROVE  /\ ClocksOf(S) \subseteq Stamp /\ ClocksOf(S) \subseteq Time
         /\ ClocksOf(Sets(S)) \subseteq Stamp
         /\ ClocksOf(Tombstones(S)) \subseteq Stamp
         /\ ClocksOf(Restores(S)) \subseteq Stamp
BY OperationParts DEF ClocksOf, Sets, Tombstones, Restores

LEMMA OneMore ==
  ASSUME NEW S, NEW op
  PROVE  /\ Sets(S \cup {op}) = IF op.kind = "set" THEN Sets(S) \cup {op} ELSE Sets(S)
         /\ Tombstones(S \cup {op}) =
              IF op.kind = "tombstone" THEN Tombstones(S) \cup {op} ELSE Tombstones(S)
         /\ Restores(S \cup {op}) =
              IF op.kind = "restore" THEN Restores(S) \cup {op} ELSE Restores(S)
         /\ ClocksOf(S \cup {op}) = ClocksOf(S) \cup {op.hlc}
         /\ ClocksOf(Sets(S \cup {op})) =
              ClocksOf(Sets(S)) \cup (IF op.kind = "set" THEN {op.hlc} ELSE {})
         /\ ClocksOf(Tombstones(S \cup {op})) =
              ClocksOf(Tombstones(S)) \cup (IF op.kind = "tombstone" THEN {op.hlc} ELSE {})
         /\ ClocksOf(Restores(S \cup {op})) =
              ClocksOf(Restores(S)) \cup (IF op.kind = "restore" THEN {op.hlc} ELSE {})
BY DEF Sets, Tombstones, Restores, ClocksOf

LEMMA FieldStep ==
  ASSUME NEW S, S \subseteq Operation, NEW op \in Operation,
         OneClockEach(S \cup {op}), NEW f, FieldIs(f, S)
  PROVE  FieldIs(ApplyMeta(f, op), S \cup {op})
<1>1. CASE op.kind # "set"
  BY <1>1, OneMore DEF FieldIs, ApplyMeta
<1>2. CASE op.kind = "set"
  <2> DEFINE g == ApplyMeta(f, op)
  <2>1. ClocksOf(Sets(S \cup {op})) = ClocksOf(Sets(S)) \cup {op.hlc}
    BY <1>2, OneMore
  <2>2. Sets(S \cup {op}) = Sets(S) \cup {op} /\ Sets(S) \subseteq S
    BY <1>2, OneMore DEF Sets
  <2>3. ClocksOf(Sets(S)) \subseteq Stamp /\ op.hlc \in Stamp
    BY ClocksTyped, OperationParts
  <2>4. LatestOf(f.clock, ClocksOf(Sets(S)))
    BY DEF FieldIs
  <2>5. CASE Older(f.clock, op.hlc)
    <3>1. g = [clock |-> op.hlc, value |-> op.value]
      BY <1>2, <2>5 DEF ApplyMeta
    <3>2. LatestOf(g.clock, ClocksOf(Sets(S \cup {op})))
      BY <2>1, <2>3, <2>4, <2>5, <3>1, LatestWithOne
    <3>3. \A x \in Sets(S \cup {op}) : x.hlc = g.clock => x.value = g.value
      BY <2>2, <3>1 DEF OneClockEach
    <3> QED BY <2>2, <3>2, <3>3 DEF FieldIs
  <2>6. CASE ~ Older(f.clock, op.hlc)
    <3>1. g = f
      BY <2>6 DEF ApplyMeta
    <3>2. LatestOf(g.clock, ClocksOf(Sets(S \cup {op})))
      <4>1. LatestOf(f.clock, ClocksOf(Sets(S)) \cup {op.hlc})
        BY <2>3, <2>4, <2>6, LatestWithOne
      <4> QED BY <2>1, <3>1, <4>1
    <3>3. f.clock \in ClocksOf(Sets(S))
      <4>1. ClocksOf(Sets(S)) # {}
        <5>1. SUFFICES ASSUME ClocksOf(Sets(S)) = {} PROVE FALSE
          OBVIOUS
        <5>2. f.clock = Never
          BY <2>4, <5>1 DEF LatestOf
        <5> QED BY <2>3, <2>6, <5>2, StampIsTime
      <4> QED BY <2>4, <4>1 DEF LatestOf
    <3>4. PICK y \in Sets(S) : y.hlc = f.clock
      BY <3>3 DEF ClocksOf
    <3>5. ASSUME NEW x \in Sets(S \cup {op}), x.hlc = f.clock PROVE x.value = f.value
      <4>1. x = y
        BY <2>2, <3>4, <3>5 DEF OneClockEach
      <4> QED BY <3>4, <4>1 DEF FieldIs
    <3> QED BY <2>2, <3>1, <3>2, <3>5 DEF FieldIs
  <2> QED BY <2>5, <2>6
<1> QED BY <1>1, <1>2

LEMMA LifeStep ==
  ASSUME NEW S, S \subseteq Operation, NEW op \in Operation,
         NEW l, LifeIs(l, S)
  PROVE  LifeIs(ApplyLife(l, op), S \cup {op})
<1> DEFINE m == ApplyLife(l, op)
<1>1. /\ ClocksOf(Tombstones(S)) \subseteq Stamp /\ ClocksOf(Restores(S)) \subseteq Stamp
      /\ op.hlc \in Stamp
      /\ LatestOf(l.deleted, ClocksOf(Tombstones(S)))
      /\ LatestOf(l.restored, ClocksOf(Restores(S)))
  BY ClocksTyped, OperationParts DEF LifeIs
<1>2. /\ m.deleted = IF op.kind = "tombstone" /\ Older(l.deleted, op.hlc)
                     THEN op.hlc ELSE l.deleted
      /\ m.restored = IF op.kind = "restore" /\ Older(l.restored, op.hlc)
                      THEN op.hlc ELSE l.restored
  BY DEF ApplyLife
<1>3. /\ ClocksOf(Tombstones(S \cup {op})) =
           ClocksOf(Tombstones(S)) \cup (IF op.kind = "tombstone" THEN {op.hlc} ELSE {})
      /\ ClocksOf(Restores(S \cup {op})) =
           ClocksOf(Restores(S)) \cup (IF op.kind = "restore" THEN {op.hlc} ELSE {})
  BY OneMore
<1>4. LatestOf(m.deleted, ClocksOf(Tombstones(S \cup {op})))
  <2>1. CASE op.kind = "tombstone"
    <3>1. ClocksOf(Tombstones(S \cup {op})) = ClocksOf(Tombstones(S)) \cup {op.hlc}
      BY <1>3, <2>1, Zenon
    <3>2. CASE Older(l.deleted, op.hlc)
      <4>1. m.deleted = op.hlc
        BY <1>2, <2>1, <3>2
      <4>2. LatestOf(op.hlc, ClocksOf(Tombstones(S)) \cup {op.hlc})
        BY <1>1, <3>2, LatestWithOne
      <4> QED BY <3>1, <4>1, <4>2, Zenon
    <3>3. CASE ~ Older(l.deleted, op.hlc)
      <4>1. m.deleted = l.deleted
        BY <1>2, <3>3
      <4>2. LatestOf(l.deleted, ClocksOf(Tombstones(S)) \cup {op.hlc})
        BY <1>1, <3>3, LatestWithOne
      <4> QED BY <3>1, <4>1, <4>2, Zenon
    <3> QED BY <3>2, <3>3
  <2>2. CASE op.kind # "tombstone"
    <3>1. ClocksOf(Tombstones(S \cup {op})) = ClocksOf(Tombstones(S))
      BY <1>3, <2>2
    <3> QED BY <1>1, <1>2, <2>2, <3>1
  <2> QED BY <2>1, <2>2
<1>5. LatestOf(m.restored, ClocksOf(Restores(S \cup {op})))
  <2>1. CASE op.kind = "restore"
    <3>1. ClocksOf(Restores(S \cup {op})) = ClocksOf(Restores(S)) \cup {op.hlc}
      BY <1>3, <2>1, Zenon
    <3>2. CASE Older(l.restored, op.hlc)
      <4>1. m.restored = op.hlc
        BY <1>2, <2>1, <3>2
      <4>2. LatestOf(op.hlc, ClocksOf(Restores(S)) \cup {op.hlc})
        BY <1>1, <3>2, LatestWithOne
      <4> QED BY <3>1, <4>1, <4>2, Zenon
    <3>3. CASE ~ Older(l.restored, op.hlc)
      <4>1. m.restored = l.restored
        BY <1>2, <3>3
      <4>2. LatestOf(l.restored, ClocksOf(Restores(S)) \cup {op.hlc})
        BY <1>1, <3>3, LatestWithOne
      <4> QED BY <3>1, <4>1, <4>2, Zenon
    <3> QED BY <3>2, <3>3
  <2>2. CASE op.kind # "restore"
    <3>1. ClocksOf(Restores(S \cup {op})) = ClocksOf(Restores(S))
      BY <1>3, <2>2
    <3> QED BY <1>1, <1>2, <2>2, <3>1
  <2> QED BY <2>1, <2>2
<1> QED BY <1>4, <1>5 DEF LifeIs

LEMMA ClockStep ==
  ASSUME NEW S, S \subseteq Operation, NEW op \in Operation, NEW c \in Stamp,
         \A o \in S : AtMost(o.hlc, c)
  PROVE  /\ Observe(c, op.hlc) \in Stamp
         /\ \A o \in S \cup {op} : AtMost(o.hlc, Observe(c, op.hlc))
<1>1. c \in Time /\ op.hlc \in Time /\ op.hlc \in Stamp
  BY StampIsTime, OperationParts
<1>2. CASE Older(c, op.hlc)
  <2>1. Observe(c, op.hlc) = op.hlc
    BY <1>2 DEF Observe
  <2>2. ASSUME NEW o \in S PROVE AtMost(o.hlc, op.hlc)
    <3>1. o.hlc \in Time /\ AtMost(o.hlc, c)
      BY OperationParts
    <3> QED BY <1>1, <1>2, <3>1, AtMostTransitive DEF AtMost
  <2> QED BY <1>1, <2>1, <2>2 DEF AtMost
<1>3. CASE ~ Older(c, op.hlc)
  <2>1. Observe(c, op.hlc) = c
    BY <1>3 DEF Observe
  <2>2. AtMost(op.hlc, c)
    BY <1>1, <1>3, OlderTotal DEF AtMost
  <2> QED BY <2>1, <2>2
<1> QED BY <1>2, <1>3

\* One operation applied to what a replica keeps.
LEMMA KeptStep ==
  ASSUME NEW S, S \subseteq Operation, NEW op \in Operation,
         OneClockEach(S \cup {op}), NEW k, KeptTyped(k), KeptIs(k, S)
  PROVE  KeptTyped(ApplyOp(k, op)) /\ KeptIs(ApplyOp(k, op), S \cup {op})
<1> DEFINE j == ApplyOp(k, op)
<1>1. /\ j.clock = Observe(k.clock, op.hlc) /\ j.field = ApplyMeta(k.field, op)
      /\ j.life = ApplyLife(k.life, op)
  BY DEF ApplyOp
<1>2. /\ k.clock \in Stamp /\ k.field \in [clock : Time, value : Value]
      /\ k.life \in [deleted : Time, restored : Time]
      /\ \A o \in S : AtMost(o.hlc, k.clock)
      /\ FieldIs(k.field, S) /\ LifeIs(k.life, S)
  BY DEF KeptTyped, KeptIs
<1>3. j.clock \in Stamp /\ \A o \in S \cup {op} : AtMost(o.hlc, j.clock)
  BY <1>1, <1>2, ClockStep
<1>4. FieldIs(j.field, S \cup {op})
  BY <1>1, <1>2, FieldStep
<1>5. LifeIs(j.life, S \cup {op})
  BY <1>1, <1>2, LifeStep
<1>6. j.field \in [clock : Time, value : Value]
  <2>1. op.hlc \in Time /\ op.value \in Value
    BY OperationParts
  <2> QED BY <1>1, <1>2, <2>1 DEF ApplyMeta
<1>7. j.life \in [deleted : Time, restored : Time]
  <2>1. op.hlc \in Time
    BY OperationParts
  <2> QED BY <1>1, <1>2, <2>1 DEF ApplyLife
<1> QED BY <1>3, <1>4, <1>5, <1>6, <1>7 DEF KeptTyped, KeptIs

LEMMA KeptBatch ==
  ASSUME NEW S, S \subseteq Operation, NEW a \in Operation, NEW b \in Operation,
         OneClockEach(S \cup {a, b}), NEW k, KeptTyped(k), KeptIs(k, S)
  PROVE  KeptTyped(ApplyAll(k, {a, b})) /\ KeptIs(ApplyAll(k, {a, b}), S \cup {a, b})
<1>1. ASSUME NEW x \in {a, b}, NEW y \in {a, b}, {x, y} = {a, b}
      PROVE  /\ KeptTyped(ApplyOp(ApplyOp(k, x), y))
             /\ KeptIs(ApplyOp(ApplyOp(k, x), y), S \cup {a, b})
  <2>1. KeptTyped(ApplyOp(k, x)) /\ KeptIs(ApplyOp(k, x), S \cup {x})
    <3>1. OneClockEach(S \cup {x})
      BY DEF OneClockEach
    <3> QED BY <3>1, KeptStep
  <2>2. (S \cup {x}) \cup {y} = S \cup {a, b} /\ S \cup {x} \subseteq Operation
    BY <1>1
  <2>3. OneClockEach((S \cup {x}) \cup {y})
    BY <2>2
  <2> QED BY <2>1, <2>2, <2>3, KeptStep
<1>2. CASE ApplyAll(k, {a, b}) = ApplyOp(k, a) /\ a = b
  BY <1>2, KeptStep
<1> QED BY <1>1, <1>2, ApplyAllOf

----------------------------------------------------------------------------
\* What is written.

\* The next operation of node n, with a clock after all n has, keeps the facts
\* about the history.
LEMMA WriteOne ==
  ASSUME NEW W, NEW L, HistoryInv(W, L), NEW n, NEW c, NEW op, Follows(W, L, n, c, op)
  PROVE  /\ HistoryInv(W \cup {op}, With(L, n, {op}))
         /\ op \notin W
<1> DEFINE V == W \cup {op}
           K == With(L, n, {op})
<1>0. /\ W \subseteq Operation /\ L \in [Replica -> SUBSET Operation]
      /\ \A m \in Replica : L[m] \subseteq W
      /\ n \in Replica /\ op \in Operation /\ c \in Stamp
      /\ \A o \in L[n] : AtMost(o.hlc, c)
      /\ Older(c, op.hlc) /\ op.hlc[3] = n /\ op.seen = ClocksOf(L[n])
      /\ op.kind = "set" => LatestOf(op.prev, ClocksOf(Sets(L[n])))
  BY DEF Follows
<1>1. ASSUME NEW x \in L[n] PROVE Older(x.hlc, op.hlc) /\ x.hlc \in op.seen
  <2>1. x.hlc \in Time /\ op.hlc \in Time /\ c \in Time /\ AtMost(x.hlc, c)
    BY <1>0, OperationParts, StampIsTime
  <2> QED BY <1>0, <2>1, AtMostTransitive DEF ClocksOf
<1>2. ASSUME NEW x \in W, x.hlc[3] = n PROVE x \in L[n]
  BY <1>0, <1>2 DEF HistoryInv, OwnKept
<1>3. ASSUME NEW x \in W PROVE x.hlc # op.hlc
  <2>1. SUFFICES ASSUME x.hlc = op.hlc PROVE FALSE
    OBVIOUS
  <2>2. Older(x.hlc, op.hlc)
    BY <1>0, <1>1, <1>2, <2>1
  <2> QED BY <1>0, <2>1, <2>2, OperationParts, OlderStrict
<1>4. OneClockEach(V)
  BY <1>0, <1>3 DEF OneClockEach, HistoryInv
<1>5. OwnKept(V, K)
  BY <1>0 DEF OwnKept, HistoryInv, With
<1>6. SeenBefore(V)
  <2>1. ClocksOf(W) \subseteq ClocksOf(V) /\ ClocksOf(L[n]) \subseteq ClocksOf(W)
    BY <1>0 DEF ClocksOf
  <2>2. \A d \in op.seen : Older(d, op.hlc)
    BY <1>0, <1>1 DEF ClocksOf
  <2> QED BY <1>0, <2>1, <2>2 DEF SeenBefore, HistoryInv
<1>7. OwnSeen(V)
  <2>1. SUFFICES ASSUME NEW x \in V, NEW y \in V, x.hlc[3] = y.hlc[3],
                        Older(x.hlc, y.hlc)
                 PROVE  x.hlc \in y.seen
    BY <1>0 DEF OwnSeen
  <2>2. CASE x \in W /\ y \in W
    BY <1>0, <2>1, <2>2 DEF OwnSeen, HistoryInv
  <2>3. CASE x \in W /\ y = op
    BY <1>0, <1>1, <1>2, <2>1, <2>3
  <2>4. CASE x = op
    <3>1. y # op
      BY <1>0, <2>1, <2>4, OperationParts, OlderStrict
    <3>2. Older(y.hlc, op.hlc)
      BY <1>0, <1>1, <1>2, <2>1, <2>4, <3>1
    <3> QED BY <1>0, <2>1, <2>4, <3>2, OperationParts, NotBothOlder
  <2> QED BY <1>0, <2>2, <2>3, <2>4
<1>8. OnLatestSeen(V)
  <2>1. SUFFICES ASSUME NEW x \in Sets(V)
                 PROVE  LatestOf(x.prev, ClocksOf(Sets(V)) \cap x.seen)
    BY <1>0 DEF OnLatestSeen
  <2>2. ClocksOf(Sets(V)) = ClocksOf(Sets(W)) \cup (IF op.kind = "set" THEN {op.hlc} ELSE {})
    BY <1>0, OneMore
  <2>3. CASE x \in W
    <3>1. x \in Sets(W)
      BY <1>0, <2>1, <2>3 DEF Sets
    <3>2. op.hlc \notin x.seen
      <4>1. x.seen \subseteq ClocksOf(W)
        BY <1>0, <2>3 DEF HistoryInv, SeenBefore
      <4> QED BY <1>0, <1>3, <4>1 DEF ClocksOf
    <3>3. ClocksOf(Sets(V)) \cap x.seen = ClocksOf(Sets(W)) \cap x.seen
      BY <1>0, <2>2, <3>2
    <3> QED BY <1>0, <3>1, <3>3 DEF HistoryInv, OnLatestSeen
  <2>4. CASE x = op
    <3>1. op.kind = "set"
      BY <1>0, <2>1, <2>4 DEF Sets
    <3>2. op.hlc \notin op.seen
      BY <1>0, <1>3 DEF ClocksOf
    <3>3. ClocksOf(Sets(W)) \cap ClocksOf(L[n]) = ClocksOf(Sets(L[n]))
      BY <1>0 DEF ClocksOf, Sets, HistoryInv, OneClockEach
    <3>4. ClocksOf(Sets(V)) \cap op.seen = ClocksOf(Sets(L[n]))
      BY <1>0, <2>2, <3>1, <3>2, <3>3
    <3> QED BY <1>0, <2>4, <3>1, <3>4
  <2> QED BY <1>0, <2>1, <2>3, <2>4 DEF Sets
<1>9. op \notin W
  BY <1>0, <1>3
<1> QED BY <1>0, <1>4, <1>5, <1>6, <1>7, <1>8, <1>9 DEF HistoryInv

----------------------------------------------------------------------------
\* Conflicts of versions.

LEMMA SetParts ==
  ASSUME NEW S, S \subseteq Operation, NEW x \in Sets(S)
  PROVE  /\ x \in S /\ x \in Operation /\ x.kind = "set"
         /\ x.hlc \in Time /\ x.hlc \in Stamp
BY OperationParts DEF Sets

\* A chain leads on in a larger set of versions.
LEMMA AncestorStays ==
  ASSUME NEW V, NEW W, V \subseteq W, NEW x, NEW y, Ancestor(V, x, y)
  PROVE  Ancestor(W, x, y)
<1> DEFINE cV == {v.hlc : v \in V}
           cW == {v.hlc : v \in W}
<1>1. SUFFICES ASSUME NEW S \in SUBSET cW,
                      \A v \in W : v.hlc \in S \cup {y} /\ v.prev \in cW => v.prev \in S
               PROVE  x \in S
  BY DEF Ancestor
<1>2. S \cap cV \in SUBSET cV /\ cV \subseteq cW
  OBVIOUS
<1>3. \A v \in V : v.hlc \in (S \cap cV) \cup {y} /\ v.prev \in cV => v.prev \in S \cap cV
  BY <1>1, <1>2
<1>4. x \in S \cap cV
  BY <1>2, <1>3 DEF Ancestor
<1> QED BY <1>4

\* A version is on the chain of the version written on it.
LEMMA AncestorOfNext ==
  ASSUME NEW V, NEW w \in V, w.prev \in {v.hlc : v \in V}
  PROVE  Ancestor(V, w.prev, w.hlc)
BY DEF Ancestor

\* The pair of two versions, the later of which is y.
LEMMA PairOfLater ==
  ASSUME NEW V, NEW x \in Operation, NEW y \in Operation, Older(x.hlc, y.hlc)
  PROVE  /\ Pair(V, x, y) = Pair(V, y, x)
         /\ Pair(V, x, y) =
              IF \/ x.hlc[3] = y.hlc[3]
                 \/ x.value = y.value
                 \/ Ancestor(V, x.hlc, y.hlc)
                 \/ Ancestor(V, y.hlc, x.hlc)
                 \/ Covered(x.hlc, y)
              THEN {}
              ELSE {[winner |-> y.hlc, loser |-> x.hlc]}
<1>1. ~ Older(y.hlc, x.hlc) /\ x # y
  BY OperationParts, NotBothOlder
<1>2. Pair(V, x, y) =
              IF \/ x.hlc[3] = y.hlc[3]
                 \/ x.value = y.value
                 \/ Ancestor(V, x.hlc, y.hlc)
                 \/ Ancestor(V, y.hlc, x.hlc)
                 \/ Covered(x.hlc, y)
              THEN {}
              ELSE {[winner |-> y.hlc, loser |-> x.hlc]}
  BY <1>1, Zenon DEF Pair
<1>3. Pair(V, y, x) =
              IF \/ y.hlc[3] = x.hlc[3]
                 \/ y.value = x.value
                 \/ Ancestor(V, y.hlc, x.hlc)
                 \/ Ancestor(V, x.hlc, y.hlc)
                 \/ Covered(x.hlc, y)
              THEN {}
              ELSE {[winner |-> y.hlc, loser |-> x.hlc]}
  BY <1>1, Zenon DEF Pair
<1> QED BY <1>2, <1>3

\* What is in a pair: both ways round the same conflict, of two versions that a
\* larger set of versions may still make one the ancestor of the other.
LEMMA PairFacts ==
  ASSUME NEW V, NEW W, V \subseteq W,
         NEW x \in Operation, NEW y \in Operation, x.hlc # y.hlc
  PROVE  /\ Pair(V, x, y) = Pair(V, y, x)
         /\ Pair(W, x, y) \subseteq Pair(V, x, y)
         /\ \A c \in Pair(V, x, y) :
              \/ Older(x.hlc, y.hlc) /\ c = [winner |-> y.hlc, loser |-> x.hlc]
              \/ Older(y.hlc, x.hlc) /\ c = [winner |-> x.hlc, loser |-> y.hlc]
<1>1. ASSUME NEW a \in Operation, NEW b \in Operation, Older(a.hlc, b.hlc)
      PROVE  /\ Pair(V, a, b) = Pair(V, b, a)
             /\ Pair(W, a, b) = Pair(W, b, a)
             /\ Pair(W, a, b) \subseteq Pair(V, a, b)
             /\ \A c \in Pair(V, a, b) : c = [winner |-> b.hlc, loser |-> a.hlc]
  <2>1. /\ Ancestor(V, a.hlc, b.hlc) => Ancestor(W, a.hlc, b.hlc)
        /\ Ancestor(V, b.hlc, a.hlc) => Ancestor(W, b.hlc, a.hlc)
    BY AncestorStays
  <2> QED BY <1>1, <2>1, PairOfLater
<1>2. Older(x.hlc, y.hlc) \/ Older(y.hlc, x.hlc)
  BY OperationParts, OlderTotal
<1> QED BY <1>1, <1>2

\* Without deletions a task's conflicts are those of its versions.
LEMMA NoDeletion ==
  ASSUME NEW S, NEW l, LifeIs(l, S), ~ NeedsRebuild(S)
  PROVE  ConflictsOf(l, S) = Pairs(Sets(S), Sets(S), Sets(S))
<1>1. Tombstones(S) = {}
  BY DEF NeedsRebuild, Tombstones
<1>2. l.deleted = Never
  BY <1>1 DEF LifeIs, LatestOf, ClocksOf
<1>3. ~ Deleted(l)
  BY <1>2 DEF Deleted
<1> QED BY <1>1, <1>3 DEF ConflictsOf

\* Taking in new operations with the conflicts of the old ones at hand comes to
\* the conflicts of all of them.
LEMMA IngestIsRebuild ==
  ASSUME NEW old, old \subseteq Operation, NEW new, new \subseteq Operation,
         OneClockEach(old \cup new), NEW l, LifeIs(l, old \cup new), NEW prior,
         \/ NeedsRebuild(old)
         \/ prior = Pairs(Sets(old), Sets(old), Sets(old))
  PROVE  Ingest(l, old, new, prior) = ConflictsOf(l, old \cup new)
<1> DEFINE all == Sets(old \cup new)
           A == Sets(old)
           B == Sets(new)
           again == {q \in all \X all : [winner |-> q[1].hlc, loser |-> q[2].hlc] \in prior}
<1>1. CASE NeedsRebuild(old \cup new)
  BY <1>1 DEF Ingest
<1>2. CASE ~ NeedsRebuild(old \cup new)
  <2>1. ~ NeedsRebuild(old)
    BY <1>2 DEF NeedsRebuild
  <2>2. prior = Pairs(A, A, A)
    BY <2>1
  <2>3. ConflictsOf(l, old \cup new) = Pairs(all, all, all)
    BY <1>2, NoDeletion
  <2>4. Ingest(l, old, new, prior) =
          Pairs(all, B, all) \cup UNION {Pair(all, p[1], p[2]) : p \in again}
    BY <1>2 DEF Ingest
  <2>5. all = A \cup B /\ all \subseteq Operation /\ A \subseteq all
    BY DEF Sets
  <2>6. ASSUME NEW x \in all, NEW y \in all, x # y PROVE x.hlc # y.hlc
    BY <2>6 DEF OneClockEach, Sets
  <2>7. ASSUME NEW c \in prior
        PROVE  \E x, y \in A : x # y /\ Older(x.hlc, y.hlc)
                               /\ c = [winner |-> y.hlc, loser |-> x.hlc]
    <3>1. PICK p \in {q \in A \X A : q[1] # q[2]} : c \in Pair(A, p[1], p[2])
      BY <2>2 DEF Pairs
    <3>2. p[1] \in A /\ p[2] \in A /\ p[1].hlc # p[2].hlc
      BY <2>5, <2>6
    <3>3. p[1] \in Operation /\ p[2] \in Operation
      BY <2>5, <3>2
    <3> QED BY <3>1, <3>2, <3>3, PairFacts
  <2>8. ASSUME NEW c \in Pairs(all, B, all) PROVE c \in Pairs(all, all, all)
    BY <2>5 DEF Pairs
  <2>9. ASSUME NEW p \in again, NEW c \in Pair(all, p[1], p[2])
        PROVE  c \in Pairs(all, all, all)
    <3>1. PICK x \in A, y \in A : x # y /\ p[1].hlc = y.hlc /\ p[2].hlc = x.hlc
      BY <2>7
    <3>2. p \in all \X all /\ p[1] \in all /\ p[2] \in all
      OBVIOUS
    <3>3. p[1].hlc # p[2].hlc
      BY <2>5, <2>6, <3>1
    <3>4. p \in {q \in all \X all : q[1] # q[2]}
      BY <3>2, <3>3
    <3> HIDE DEF all
    <3> QED BY <2>9, <3>4 DEF Pairs
  <2>10. ASSUME NEW c \in Pairs(all, all, all)
         PROVE  \/ c \in Pairs(all, B, all)
                \/ \E p \in again : c \in Pair(all, p[1], p[2])
    <3>1. PICK p \in {q \in all \X all : q[1] # q[2]} : c \in Pair(all, p[1], p[2])
      BY <2>10 DEF Pairs
    <3> DEFINE x == p[1]
               y == p[2]
    <3>2. x \in all /\ y \in all /\ x # y /\ c \in Pair(all, x, y)
      BY <3>1
    <3> HIDE DEF x, y
    <3>3. x \in Operation /\ y \in Operation /\ x.hlc # y.hlc
      BY <2>5, <2>6, <3>2
    <3>4. c \in Pair(all, y, x)
      BY <3>2, <3>3, PairFacts
    <3>5. ASSUME NEW a \in B, NEW b \in all, a # b, c \in Pair(all, a, b)
          PROVE  c \in Pairs(all, B, all)
      <4>1. <<a, b>> \in {q \in B \X all : q[1] # q[2]}
        BY <3>5
      <4>2. c \in Pair(all, <<a, b>>[1], <<a, b>>[2])
        BY <3>5
      <4> HIDE DEF all, B
      <4> QED BY <4>1, <4>2 DEF Pairs
    <3>6. CASE x \in B \/ y \in B
      BY <3>2, <3>4, <3>5, <3>6
    <3>7. CASE x \in A /\ y \in A
      <4>1. c \in Pair(A, x, y)
        BY <2>5, <3>2, <3>3, PairFacts
      <4>2. <<x, y>> \in {q \in A \X A : q[1] # q[2]}
        BY <3>2, <3>7
      <4>3. c \in prior
        <5>1. c \in Pair(A, <<x, y>>[1], <<x, y>>[2])
          BY <4>1
        <5> HIDE DEF A
        <5> QED BY <2>2, <4>2, <5>1 DEF Pairs
      <4>4. \/ c = [winner |-> y.hlc, loser |-> x.hlc]
            \/ c = [winner |-> x.hlc, loser |-> y.hlc]
        BY <3>3, <4>1, PairFacts
      <4>5. <<x, y>> \in again \/ <<y, x>> \in again
        BY <3>2, <4>3, <4>4
      <4>6. /\ c \in Pair(all, <<x, y>>[1], <<x, y>>[2])
            /\ c \in Pair(all, <<y, x>>[1], <<y, x>>[2])
        BY <3>2, <3>4
      <4> HIDE DEF again
      <4> QED BY <4>5, <4>6
    <3> QED BY <2>5, <3>2, <3>6, <3>7
  <2> HIDE DEF all, A, B, again
  <2> QED BY <2>3, <2>4, <2>8, <2>9, <2>10
<1> QED BY <1>1, <1>2

\* Every conflict of a recomputation is grounded.
LEMMA ConflictsGrounded ==
  ASSUME NEW W, W \subseteq Operation, NEW L, HistoryInv(W, L),
         NEW S, S \subseteq W, NEW l, LifeIs(l, S)
  PROVE  \A c \in ConflictsOf(l, S) :
            c \in [winner : Time, loser : Time] /\ Grounded(c, S)
<1> DEFINE V == Sets(S)
<1>0. S \subseteq Operation /\ V \subseteq S /\ V \subseteq W
  BY DEF Sets
<1>1. ASSUME NEW c \in Pairs(V, V, V)
      PROVE  c \in [winner : Time, loser : Time] /\ Grounded(c, S)
  <2>1. PICK p \in {q \in V \X V : q[1] # q[2]} : c \in Pair(V, p[1], p[2])
    BY <1>1 DEF Pairs
  <2>2. /\ p[1] \in V /\ p[2] \in V /\ p[1] \in Operation /\ p[2] \in Operation
        /\ p[1].hlc # p[2].hlc
    BY <1>0 DEF HistoryInv, OneClockEach
  <2>3. PICK x \in V, w \in V :
          /\ Older(x.hlc, w.hlc)
          /\ c \in Pair(V, x, w) /\ c = [winner |-> w.hlc, loser |-> x.hlc]
    BY <2>1, <2>2, PairFacts
  <2>4. x \in Operation /\ w \in Operation /\ x \in Sets(W) /\ w \in Sets(W)
    BY <1>0 DEF Sets
  <2>5. ~ Ancestor(V, x.hlc, w.hlc) /\ ~ Covered(x.hlc, w)
    BY <2>3, <2>4, PairOfLater
  <2>6. x.hlc \notin w.seen
    <3>1. SUFFICES ASSUME x.hlc \in w.seen PROVE FALSE
      OBVIOUS
    <3>2. x.hlc \in ClocksOf(Sets(W)) \cap w.seen
      BY <2>4, <3>1 DEF ClocksOf
    <3>3. AtMost(x.hlc, w.prev)
      BY <2>4, <3>2 DEF HistoryInv, OnLatestSeen, LatestOf
    <3>4. x.hlc = w.prev
      BY <2>5, <3>3 DEF Covered, AtMost
    <3>5. w.prev \in {v.hlc : v \in V}
      BY <2>3, <3>4
    <3> QED BY <2>3, <2>5, <3>4, <3>5, AncestorOfNext
  <2>7. x.hlc \in Time /\ w.hlc \in Time
    BY <2>4, OperationParts
  <2> QED BY <2>3, <2>6, <2>7 DEF Grounded
<1>2. ASSUME NEW d \in ClocksOf(Tombstones(S)), NEW c \in LostTo(d, S)
      PROVE  c \in [winner : Time, loser : Time] /\ Grounded(c, S)
  <2>1. PICK e \in Sets(S) : c = [winner |-> d, loser |-> e.hlc]
    BY <1>2 DEF LostTo
  <2>2. e.hlc \in Time /\ d \in Time
    BY <1>0, SetParts, ClocksTyped, StampIsTime
  <2> QED BY <2>1, <2>2 DEF Grounded
<1>3. ASSUME Deleted(l) PROVE l.deleted \in ClocksOf(Tombstones(S))
  BY <1>3 DEF Deleted, LifeIs, LatestOf
<1>4. ASSUME NEW c \in ConflictsOf(l, S)
      PROVE  \/ c \in Pairs(V, V, V)
             \/ \E d \in ClocksOf(Tombstones(S)) : c \in LostTo(d, S)
  <2>1. CASE c \in UNION {LostTo(d.hlc, S) : d \in Tombstones(S)}
    BY <2>1 DEF ClocksOf
  <2>2. CASE Deleted(l) /\ c \in LostTo(l.deleted, S)
    BY <1>3, <2>2
  <2>3. CASE c \in Pairs(V, V, V)
    BY <2>3
  <2> QED BY <1>4, <2>1, <2>2, <2>3 DEF ConflictsOf
<1> HIDE DEF V
<1> QED BY <1>1, <1>2, <1>4

\* A version that is not shown, on a replica with all its authors had seen.
LEMMA LossOf ==
  ASSUME NEW W, W \subseteq Operation, NEW L, HistoryInv(W, L),
         NEW S, S \subseteq W, NEW l,
         \A op \in S : op.seen \subseteq ClocksOf(S),
         NEW x \in Sets(S), NEW f, FieldIs(f, S), f.clock # x.hlc
  PROVE  \/ \E y \in Sets(S) \ {x} :
              /\ Older(x.hlc, y.hlc)
              /\ x.hlc \in y.seen \/ x.value = y.value
         \/ \E c \in ConflictsOf(l, S) : c.loser = x.hlc
<1> DEFINE V == Sets(S)
           later == {y \in V : Older(x.hlc, y.hlc)}
<1>0. V \subseteq S /\ V \subseteq Sets(W) /\ V \subseteq Operation /\ V \subseteq W
  BY DEF Sets
<1>1. SUFFICES ASSUME \A y \in later : x.hlc \notin y.seen /\ x.value # y.value
               PROVE  \E c \in ConflictsOf(l, S) : c.loser = x.hlc
  BY <1>0, OperationParts, OlderStrict
<1>2. later # {}
  <2>1. f.clock \in ClocksOf(V) /\ AtMost(x.hlc, f.clock)
    BY DEF FieldIs, LatestOf, ClocksOf
  <2>2. PICK y \in V : y.hlc = f.clock
    BY <2>1 DEF ClocksOf
  <2> QED BY <2>1, <2>2 DEF AtMost
<1>3. PICK z \in later : \A y \in later : AtMost(z.hlc, y.hlc)
  <2>1. ClocksOf(later) # {} /\ ClocksOf(later) \subseteq Stamp
    BY <1>0, <1>2, OperationParts DEF ClocksOf
  <2>2. PICK c \in ClocksOf(later) : \A d \in ClocksOf(later) : AtMost(c, d)
    BY <2>1, OldestOne
  <2> QED BY <2>2 DEF ClocksOf
<1>4. /\ x \in V /\ z \in V /\ Older(x.hlc, z.hlc) /\ x \in Operation /\ z \in Operation
      /\ x.hlc \in Time /\ z.hlc \in Time /\ x \in W /\ z \in W
  BY <1>0, OperationParts
<1>5. ASSUME NEW v \in V
      PROVE  /\ v.prev \in ClocksOf(V) => v.prev \in v.seen
             /\ v.prev \in v.seen => v.prev \in ClocksOf(V)
  <2>1. v \in W /\ v \in Sets(W) /\ v \in Operation /\ v \in S
    BY <1>0
  <2>2. LatestOf(v.prev, ClocksOf(Sets(W)) \cap v.seen)
    BY <2>1 DEF HistoryInv, OnLatestSeen
  <2>3. ASSUME v.prev \in ClocksOf(V) \/ v.prev \in v.seen
        PROVE  v.prev \in ClocksOf(Sets(W)) \cap v.seen
    <3>1. v.prev # Never
      <4>1. ClocksOf(V) \subseteq Stamp
        BY <1>0, OperationParts DEF ClocksOf
      <4>2. v.seen \subseteq ClocksOf(W) /\ ClocksOf(W) \subseteq Stamp
        BY <2>1, ClocksTyped DEF HistoryInv, SeenBefore
      <4> QED BY <2>3, <4>1, <4>2, StampIsTime
    <3> QED BY <2>2, <3>1 DEF LatestOf
  <2>4. ASSUME v.prev \in v.seen PROVE v.prev \in ClocksOf(V)
    <3>1. PICK o \in Sets(W) : o.hlc = v.prev
      BY <2>3, <2>4 DEF ClocksOf
    <3>2. PICK q \in S : q.hlc = v.prev
      BY <2>1, <2>4 DEF ClocksOf
    <3>3. o = q
      BY <3>1, <3>2 DEF HistoryInv, OneClockEach, Sets
    <3> QED BY <3>1, <3>2, <3>3 DEF ClocksOf, Sets
  <2> QED BY <2>3, <2>4
<1>6. x.hlc[3] # z.hlc[3]
  BY <1>1, <1>4 DEF HistoryInv, OwnSeen
<1>7. ~ Ancestor(V, x.hlc, z.hlc)
  <2> DEFINE C == {c \in {v.hlc : v \in V} : \E v \in V : v.prev = c}
  <2>1. SUFFICES ASSUME x.hlc \in C PROVE FALSE
    BY DEF Ancestor
  <2>2. PICK v \in V : v.prev = x.hlc
    BY <2>1
  <2>3. x.hlc \in v.seen
    BY <1>4, <1>5, <2>2 DEF ClocksOf
  <2>4. Older(x.hlc, v.hlc)
    BY <1>0, <2>3 DEF HistoryInv, SeenBefore
  <2> QED BY <1>1, <2>3, <2>4
<1>8. ~ Ancestor(V, z.hlc, x.hlc)
  <2> DEFINE C == {c \in {v.hlc : v \in V} : Older(c, x.hlc)}
  <2>1. ASSUME NEW v \in V, v.hlc \in C \cup {x.hlc}, v.prev \in {u.hlc : u \in V}
        PROVE  v.prev \in C
    <3>1. v.prev \in v.seen
      BY <1>5, <2>1 DEF ClocksOf
    <3>2. Older(v.prev, v.hlc) /\ v.prev \in Time /\ v.hlc \in Time
      BY <1>0, <3>1, OperationParts DEF HistoryInv, SeenBefore
    <3>3. AtMost(v.hlc, x.hlc)
      BY <2>1 DEF AtMost
    <3> QED BY <1>4, <2>1, <3>2, <3>3, AtMostTransitive
  <2>2. SUFFICES ASSUME z.hlc \in C PROVE FALSE
    BY <2>1 DEF Ancestor
  <2> QED BY <1>4, <2>2, NotBothOlder
<1>9. ~ Covered(x.hlc, z)
  <2>1. SUFFICES ASSUME Older(x.hlc, z.prev) PROVE FALSE
    BY DEF Covered
  <2>2. LatestOf(z.prev, ClocksOf(Sets(W)) \cap z.seen)
    BY <1>0, <1>4 DEF HistoryInv, OnLatestSeen
  <2>3. z.prev # Never
    <3>1. Older(Never, x.hlc)
      BY <1>4, OperationParts, StampIsTime
    <3> QED BY <1>4, <2>1, <3>1, NeverIsTime, NotBothOlder
  <2>4. z.prev \in z.seen
    BY <2>2, <2>3 DEF LatestOf
  <2>5. PICK y \in V : y.hlc = z.prev
    BY <1>4, <1>5, <2>4 DEF ClocksOf
  <2>6. y \in later /\ Older(y.hlc, z.hlc)
    BY <1>4, <2>1, <2>4, <2>5 DEF HistoryInv, SeenBefore
  <2>7. AtMost(z.hlc, y.hlc) /\ y.hlc \in Time
    BY <1>0, <1>3, <2>6, OperationParts
  <2> QED BY <1>4, <2>6, <2>7, NotBothOlder DEF AtMost
<1>10. Pair(V, x, z) = {[winner |-> z.hlc, loser |-> x.hlc]}
  BY <1>1, <1>4, <1>6, <1>7, <1>8, <1>9, PairOfLater
<1>11. [winner |-> z.hlc, loser |-> x.hlc] \in Pairs(V, V, V)
  <2>1. <<x, z>> \in {q \in V \X V : q[1] # q[2]}
    BY <1>4, NotBothOlder
  <2>2. [winner |-> z.hlc, loser |-> x.hlc] \in Pair(V, <<x, z>>[1], <<x, z>>[2])
    BY <1>10
  <2> HIDE DEF V
  <2> QED BY <2>1, <2>2 DEF Pairs
<1> QED BY <1>11 DEF ConflictsOf

----------------------------------------------------------------------------
\* The invariant.

LEMMA MergeInvParts ==
  ASSUME MergeInv, NEW n \in Replica
  PROVE  /\ log[n] \subseteq written /\ log[n] \subseteq Operation
         /\ written \subseteq Operation /\ OneClockEach(written)
         /\ KeptTyped(Kept(n)) /\ KeptIs(Kept(n), log[n])
         /\ hlc[n] \in Stamp /\ wall[n] \in Nat
         /\ field[n] \in [clock : Time, value : Value]
         /\ FieldIs(field[n], log[n]) /\ LifeIs(life[n], log[n])
         /\ \A o \in log[n] : AtMost(o.hlc, hlc[n])
         /\ conf[n] \subseteq [winner : Time, loser : Time]
         /\ \A c \in conf[n] : Grounded(c, log[n])
         /\ warm[n] => conf[n] = ConflictsOf(life[n], log[n])
<1>1. MergeTyped /\ HistoryInv(written, log) /\ KeptIs(Kept(n), log[n])
      /\ \A c \in conf[n] : Grounded(c, log[n])
  BY DEF MergeInv
<1>2. warm[n] => conf[n] = ConflictsOf(life[n], log[n])
  BY DEF MergeInv, ConflictsAreRecomputable
<1>3. /\ log[n] \subseteq written /\ log[n] \subseteq Operation /\ written \subseteq Operation
      /\ hlc[n] \in Stamp /\ wall[n] \in Nat
      /\ field[n] \in [clock : Time, value : Value]
      /\ life[n] \in [deleted : Time, restored : Time]
      /\ conf[n] \subseteq [winner : Time, loser : Time]
  BY <1>1 DEF MergeTyped
<1>4. KeptTyped(Kept(n))
  BY <1>3 DEF KeptTyped, Kept
<1> QED BY <1>1, <1>2, <1>3, <1>4 DEF KeptIs, Kept, HistoryInv

\* A step that adds operations to one replica.
LEMMA AddStep ==
  ASSUME MergeInv, NEW n \in Replica,
         NEW new, new \subseteq Operation, IsFiniteSet(new),
         NEW k, KeptTyped(k), KeptIs(k, log[n] \cup new),
         HistoryInv(written \cup new, With(log, n, new)),
         NEW C, C \subseteq [winner : Time, loser : Time],
         \A c \in C : Grounded(c, log[n] \cup new),
         NEW w \in BOOLEAN, w => C = ConflictsOf(k.life, log[n] \cup new),
         wall' = wall, written' = written \cup new,
         log' = With(log, n, new),
         hlc' = [hlc EXCEPT ![n] = k.clock], field' = [field EXCEPT ![n] = k.field],
         life' = [life EXCEPT ![n] = k.life], conf' = [conf EXCEPT ![n] = C],
         warm' = [warm EXCEPT ![n] = w]
  PROVE  MergeInv'
<1>0. MergeTyped
  BY DEF MergeInv
<1>1. /\ k.clock \in Stamp /\ k.field \in [clock : Time, value : Value]
      /\ k.life \in [deleted : Time, restored : Time]
  BY DEF KeptTyped
<1>2. /\ log'[n] = log[n] \cup new /\ hlc'[n] = k.clock /\ field'[n] = k.field
      /\ life'[n] = k.life /\ conf'[n] = C /\ warm'[n] = w
  BY <1>0 DEF MergeTyped, With
<1>3. ASSUME NEW m \in Replica, m # n
      PROVE  /\ log'[m] = log[m] /\ hlc'[m] = hlc[m] /\ field'[m] = field[m]
             /\ life'[m] = life[m] /\ conf'[m] = conf[m] /\ warm'[m] = warm[m]
  BY <1>0, <1>3 DEF MergeTyped, With
<1>4. MergeTyped'
  <2>1. IsFiniteSet(written')
    BY <1>0, FS_Union DEF MergeTyped
  <2>2. \A m \in Replica : log'[m] \subseteq written'
    BY <1>0, <1>2, <1>3 DEF MergeTyped
  <2>3. log' \in [Replica -> SUBSET Operation] /\ written' \in SUBSET Operation
    BY <1>0 DEF MergeTyped, With
  <2> QED BY <1>0, <1>1, <2>1, <2>2, <2>3 DEF MergeTyped
<1>5. HistoryInv(written', log')
  OBVIOUS
<1>6. ASSUME NEW m \in Replica
      PROVE  /\ KeptIs(Kept(m)', log'[m])
             /\ \A c \in conf'[m] : Grounded(c, log'[m])
             /\ warm'[m] => conf'[m] = ConflictsOf(life'[m], log'[m])
  <2>1. CASE m = n
    BY <1>2, <2>1 DEF KeptIs, Kept
  <2>2. CASE m # n
    <3>1. Kept(m)' = Kept(m)
      BY <1>3, <2>2 DEF Kept
    <3> QED BY <1>3, <2>2, <3>1, MergeInvParts
  <2> QED BY <2>1, <2>2
<1>7. \A m \in Replica : KeptIs(Kept(m), log[m])'
  BY <1>6
<1>8. ConflictsAreRecomputable'
  BY <1>6 DEF ConflictsAreRecomputable
<1> QED BY <1>4, <1>5, <1>6, <1>7, <1>8 DEF MergeInv

LEMMA GroundedStays ==
  ASSUME NEW S, NEW R, S \subseteq R, NEW c, Grounded(c, S)
  PROVE  Grounded(c, R)
BY DEF Grounded, Sets, Tombstones, ClocksOf

\* One operation of node n, and what n keeps then.
LEMMA NewOpStep ==
  ASSUME MergeInv, NEW n \in Replica, NEW kind, NEW v, NEW p, NEW c, NEW op,
         Issues(n, kind, v, p, c, op)
  PROVE  Issued(n, kind, c, op)
<1>0. /\ kind \in {"set", "tombstone", "restore"} /\ v \in Value /\ p \in Time
      /\ kind = "set" => p = field[n].clock
      /\ c = Tick(hlc[n], wall[n], n) /\ op = NewOp(n, kind, v, p, c)
  BY DEF Issues
<1>1. c \in Stamp /\ c[3] = n /\ Older(hlc[n], c)
  BY <1>0, MergeInvParts, Tick3
<1>2. op = [kind |-> kind, hlc |-> c, value |-> v, prev |-> p, seen |-> ClocksOf(log[n])]
  BY <1>0 DEF NewOp, ClocksOf
<1>3. op \in Operation
  <2>1. ClocksOf(log[n]) \subseteq Time
    BY MergeInvParts, ClocksTyped
  <2> QED BY <1>0, <1>1, <1>2, <2>1 DEF Operation
<1>4. op.kind = "set" => LatestOf(op.prev, ClocksOf(Sets(log[n])))
  BY <1>0, <1>2, MergeInvParts DEF FieldIs
<1>5. HistoryInv(written \cup {op}, With(log, n, {op}))
  <2>1. /\ HistoryInv(written, log) /\ log \in [Replica -> SUBSET Operation]
        /\ \A m \in Replica : log[m] \subseteq written
    BY DEF MergeInv, MergeTyped
  <2>2. op.hlc = c /\ op.seen = ClocksOf(log[n])
    BY <1>2
  <2>3. /\ written \subseteq Operation /\ hlc[n] \in Stamp
        /\ \A o \in log[n] : AtMost(o.hlc, hlc[n])
    BY MergeInvParts
  <2>4. Older(hlc[n], op.hlc) /\ op.hlc[3] = n
    BY <1>1, <2>2
  <2>5. Follows(written, log, n, hlc[n], op)
    BY <1>3, <1>4, <2>1, <2>2, <2>3, <2>4 DEF Follows
  <2> QED BY <2>1, <2>5, WriteOne
<1>6. OneClockEach(log[n] \cup {op})
  BY <1>5, MergeInvParts DEF HistoryInv, OneClockEach
<1>7. ApplyOp(Kept(n), op) =
        [clock |-> c, field |-> ApplyMeta(field[n], op), life |-> ApplyLife(life[n], op)]
  BY <1>1, <1>2 DEF ApplyOp, Kept, Observe
<1>8. KeptTyped(ApplyOp(Kept(n), op)) /\ KeptIs(ApplyOp(Kept(n), op), log[n] \cup {op})
  BY <1>3, <1>6, MergeInvParts, KeptStep
<1> QED BY <1>1, <1>2, <1>3, <1>5, <1>7, <1>8 DEF Issued

LEMMA EditStep ==
  ASSUME MergeInv, NEW n \in Replica, NEW v \in Value, Edit(n, v)
  PROVE  MergeInv'
<1> DEFINE c   == Tick(hlc[n], wall[n], n)
           op  == NewOp(n, "set", v, field[n].clock, c)
           c2  == Tick(c, wall[n], n)
           res == [NewOp(n, "restore", v, Never, c2) EXCEPT !.seen = @ \cup {c}]
           k   == ApplyOp(Kept(n), op)
           j   == ApplyOp(k, res)
           M   == With(log, n, {op})
<1>0. /\ warm' = [warm EXCEPT ![n] = FALSE] /\ wall' = wall /\ conf' = conf
      /\ conf = [conf EXCEPT ![n] = conf[n]]
  BY DEF Edit, MergeInv, MergeTyped
<1>1. /\ op \in Operation /\ op.kind = "set" /\ op.hlc = c /\ c \in Stamp
      /\ HistoryInv(written \cup {op}, M)
      /\ KeptTyped(k) /\ KeptIs(k, log[n] \cup {op})
      /\ k = [clock |-> c, field |-> ApplyMeta(field[n], op), life |-> ApplyLife(life[n], op)]
  <2>1. field[n].clock \in Time
    BY MergeInvParts
  <2>2. c = Tick(hlc[n], wall[n], n) /\ op = NewOp(n, "set", v, field[n].clock, c)
    OBVIOUS
  <2> HIDE DEF c, op
  <2>3. Issues(n, "set", v, field[n].clock, c, op)
    BY <2>1, <2>2 DEF Issues
  <2>4. Issued(n, "set", c, op)
    BY <2>3, NewOpStep
  <2> QED BY <2>4 DEF Issued
<1>2. ApplyLife(life[n], op) = life[n]
  <2>1. life[n] \in [deleted : Time, restored : Time]
    BY DEF MergeInv, MergeTyped
  <2> HIDE DEF op
  <2> QED BY <1>1, <2>1 DEF ApplyLife
<1>3. CASE ~ Deleted(life[n])
  <2>1. Commit(n, {op}, ApplyMeta(field[n], op), life[n], c)
    BY <1>3 DEF Edit
  <2> HIDE DEF op, c
  <2>2. /\ written' = written \cup {op} /\ log' = M
        /\ field' = [field EXCEPT ![n] = k.field] /\ life' = [life EXCEPT ![n] = k.life]
        /\ hlc' = [hlc EXCEPT ![n] = k.clock]
    BY <1>1, <1>2, <2>1 DEF Commit, With
  <2>3. \A d \in conf[n] : Grounded(d, log[n] \cup {op})
    BY MergeInvParts, GroundedStays
  <2>4. IsFiniteSet({op}) /\ {op} \subseteq Operation /\ conf[n] \subseteq [winner : Time, loser : Time]
    BY <1>1, FS_Singleton, MergeInvParts
  <2> HIDE DEF k
  <2> QED BY <1>0, <1>1, <2>2, <2>3, <2>4, AddStep
<1>4. CASE Deleted(life[n])
  <2>1. Commit(n, {op, res}, ApplyMeta(field[n], op), ApplyLife(life[n], res), c2)
    BY <1>4 DEF Edit
  <2>2. c2 \in Stamp /\ c2[3] = n /\ Older(c, c2)
    <3> HIDE DEF c
    <3> QED BY <1>1, MergeInvParts, Tick3
  <2>3. /\ M \in [Replica -> SUBSET Operation] /\ M[n] = log[n] \cup {op}
        /\ \A m \in Replica : M[m] \subseteq written \cup {op}
        /\ written \cup {op} \subseteq Operation
    <3> HIDE DEF op
    <3> QED BY <1>1 DEF MergeInv, MergeTyped, With
  <2>4. /\ res.kind = "restore" /\ res.hlc = c2 /\ res.seen = ClocksOf(M[n])
        /\ res \in Operation
    <3>1. res = [kind |-> "restore", hlc |-> c2, value |-> v, prev |-> Never,
                 seen |-> ClocksOf(log[n]) \cup {c}]
      <4>1. NewOp(n, "restore", v, Never, c2) =
              [kind |-> "restore", hlc |-> c2, value |-> v, prev |-> Never,
               seen |-> ClocksOf(log[n])]
        BY DEF NewOp, ClocksOf
      <4>2. res = [NewOp(n, "restore", v, Never, c2) EXCEPT !.seen = @ \cup {c}]
        OBVIOUS
      <4> HIDE DEF c, c2, res, op, M, k, j
      <4> QED BY <4>1, <4>2
    <3>2. ClocksOf(M[n]) = ClocksOf(log[n]) \cup {c}
      <4>1. op.hlc = c /\ M[n] = log[n] \cup {op}
        BY <1>1, <2>3
      <4> HIDE DEF op, c, M, k, j, res, c2
      <4>2. ClocksOf(log[n] \cup {op}) = ClocksOf(log[n]) \cup {op.hlc}
        BY OneMore
      <4> QED BY <4>1, <4>2
    <3>3. ClocksOf(log[n]) \cup {c} \subseteq Time
      <4> HIDE DEF c
      <4> QED BY <1>1, MergeInvParts, ClocksTyped, StampIsTime
    <3> HIDE DEF c, c2, res
    <3> QED BY <2>2, <3>1, <3>2, <3>3, NeverIsTime DEF Operation
  <2> HIDE DEF op, c, c2, res
  <2>5. \A o \in M[n] : AtMost(o.hlc, c)
    <3>1. \A o \in log[n] \cup {op} : AtMost(o.hlc, k.clock)
      BY <1>1 DEF KeptIs
    <3>2. k.clock = c
      BY <1>1
    <3> HIDE DEF k, M
    <3> QED BY <2>3, <3>1, <3>2
  <2>6. With(M, n, {res}) = With(log, n, {op, res})
    <3>1. log \in [Replica -> SUBSET Operation]
      BY DEF MergeInv, MergeTyped
    <3>2. (log[n] \cup {op}) \cup {res} = log[n] \cup {op, res}
      OBVIOUS
    <3> QED BY <3>1, <3>2 DEF With
  <2>7. (written \cup {op}) \cup {res} = written \cup {op, res}
    OBVIOUS
  <2>8. HistoryInv(written \cup {op, res}, With(log, n, {op, res}))
    <3>1. HistoryInv((written \cup {op}) \cup {res}, With(M, n, {res}))
      <4>1. Older(c, res.hlc) /\ res.hlc[3] = n /\ res.kind # "set"
        BY <2>2, <2>4
      <4>2. HistoryInv(written \cup {op}, M) /\ c \in Stamp
        BY <1>1
      <4> HIDE DEF M, k
      <4> DEFINE W == written \cup {op}
      <4> HIDE DEF W
      <4>3. W \subseteq Operation /\ HistoryInv(W, M) /\ \A m \in Replica : M[m] \subseteq W
        BY <2>3, <4>2 DEF W
      <4>4. HistoryInv(W \cup {res}, With(M, n, {res}))
        <5>1. res.kind = "set" => LatestOf(res.prev, ClocksOf(Sets(M[n])))
          BY <4>1
        <5>2. Follows(W, M, n, c, res)
          BY <2>3, <2>4, <2>5, <4>1, <4>2, <4>3, <5>1 DEF Follows
        <5> QED BY <4>3, <5>2, WriteOne
      <4> QED BY <4>4 DEF W
    <3> QED BY <2>6, <2>7, <3>1
  <2>9. KeptTyped(j) /\ KeptIs(j, log[n] \cup {op, res})
    <3>1. (log[n] \cup {op}) \cup {res} = log[n] \cup {op, res}
          /\ log[n] \cup {op} \subseteq Operation
      BY <1>1, MergeInvParts
    <3>2. OneClockEach((log[n] \cup {op}) \cup {res})
      BY <2>8, <3>1, MergeInvParts DEF HistoryInv, OneClockEach
    <3> HIDE DEF k
    <3> QED BY <1>1, <2>4, <3>1, <3>2, KeptStep
  <2>10. j = [clock |-> c2, field |-> ApplyMeta(field[n], op), life |-> ApplyLife(life[n], res)]
    BY <1>1, <1>2, <2>2, <2>4 DEF ApplyOp, Observe, ApplyMeta
  <2> HIDE DEF k, j
  <2>11. /\ written' = written \cup {op, res}
         /\ log' = With(log, n, {op, res})
         /\ field' = [field EXCEPT ![n] = j.field] /\ life' = [life EXCEPT ![n] = j.life]
         /\ hlc' = [hlc EXCEPT ![n] = j.clock]
    BY <2>1, <2>10 DEF Commit, With
  <2>12. \A d \in conf[n] : Grounded(d, log[n] \cup {op, res})
    BY MergeInvParts, GroundedStays
  <2>13. /\ IsFiniteSet({op, res}) /\ {op, res} \subseteq Operation
         /\ conf[n] \subseteq [winner : Time, loser : Time]
    <3>1. IsFiniteSet({op} \cup {res})
      BY FS_Singleton, FS_Union
    <3>2. {op} \cup {res} = {op, res}
      OBVIOUS
    <3> QED BY <1>1, <2>4, <3>1, <3>2, MergeInvParts
  <2> QED BY <1>0, <2>8, <2>9, <2>11, <2>12, <2>13, AddStep
<1> QED BY <1>3, <1>4

LEMMA DeleteStep ==
  ASSUME MergeInv, NEW n \in Replica, Delete(n)
  PROVE  MergeInv'
<1> DEFINE c  == Tick(hlc[n], wall[n], n)
           op == NewOp(n, "tombstone", field[n].value, Never, c)
           k  == ApplyOp(Kept(n), op)
<1>0. /\ warm' = [warm EXCEPT ![n] = FALSE] /\ wall' = wall /\ conf' = conf
      /\ conf = [conf EXCEPT ![n] = conf[n]]
      /\ Commit(n, {op}, field[n], ApplyLife(life[n], op), c)
  BY DEF Delete, MergeInv, MergeTyped
<1>1. /\ op \in Operation /\ op.kind = "tombstone"
      /\ HistoryInv(written \cup {op}, With(log, n, {op}))
      /\ KeptTyped(k) /\ KeptIs(k, log[n] \cup {op})
      /\ k = [clock |-> c, field |-> ApplyMeta(field[n], op), life |-> ApplyLife(life[n], op)]
  <2>1. field[n].value \in Value
    BY MergeInvParts
  <2>2. c = Tick(hlc[n], wall[n], n) /\ op = NewOp(n, "tombstone", field[n].value, Never, c)
    OBVIOUS
  <2> HIDE DEF c, op
  <2>3. Issues(n, "tombstone", field[n].value, Never, c, op)
    BY <2>1, <2>2, NeverIsTime DEF Issues
  <2>4. Issued(n, "tombstone", c, op)
    BY <2>3, NewOpStep
  <2> QED BY <2>4 DEF Issued
<1> HIDE DEF op, c
<1>2. /\ written' = written \cup {op} /\ log' = With(log, n, {op})
      /\ field' = [field EXCEPT ![n] = k.field] /\ life' = [life EXCEPT ![n] = k.life]
      /\ hlc' = [hlc EXCEPT ![n] = k.clock]
  BY <1>0, <1>1 DEF Commit, ApplyMeta, With
<1>3. \A d \in conf[n] : Grounded(d, log[n] \cup {op})
  BY MergeInvParts, GroundedStays
<1>4. IsFiniteSet({op}) /\ {op} \subseteq Operation /\ conf[n] \subseteq [winner : Time, loser : Time]
  BY <1>1, FS_Singleton, MergeInvParts
<1> HIDE DEF k
<1> QED BY <1>0, <1>1, <1>2, <1>3, <1>4, AddStep

\* The list of conflicts after operations came in from elsewhere.
LEMMA ListStep ==
  ASSUME MergeInv, NEW n \in Replica, NEW new, new \subseteq Operation, NEW l,
         LifeIs(l, log[n] \cup new), OneClockEach(log[n] \cup new)
  PROVE  (IF warm[n] THEN Ingest(l, log[n], new, conf[n])
          ELSE Ingest(l, {}, log[n] \cup new, {})) = ConflictsOf(l, log[n] \cup new)
<1>1. CASE warm[n]
  <2>1. NeedsRebuild(log[n]) \/ conf[n] = Pairs(Sets(log[n]), Sets(log[n]), Sets(log[n]))
    BY <1>1, MergeInvParts, NoDeletion
  <2> QED BY <1>1, <2>1, MergeInvParts, IngestIsRebuild
<1>2. CASE ~ warm[n]
  <2> DEFINE all == log[n] \cup new
  <2>1. all \subseteq Operation /\ {} \cup all = all
    BY MergeInvParts
  <2>2. {} = Pairs(Sets({}), Sets({}), Sets({}))
    BY DEF Pairs, Sets
  <2>3. LifeIs(l, {} \cup all) /\ OneClockEach({} \cup all)
    BY <2>1
  <2> HIDE DEF all
  <2>4. Ingest(l, {}, all, {}) = ConflictsOf(l, {} \cup all)
    BY <2>1, <2>2, <2>3, IngestIsRebuild
  <2> QED BY <1>2, <2>1, <2>4 DEF all
<1> QED BY <1>1, <1>2

LEMMA BatchOfTwo ==
  ASSUME NEW S, IsFiniteSet(S), NEW batch \in kSubset(1, S) \cup kSubset(2, S)
  PROVE  \E a, b \in S : batch = {a, b}
<1>1. batch \subseteq S /\ IsFiniteSet(batch)
  BY FS_Subset DEF kSubset
<1>2. batch # {}
  BY FS_EmptySet DEF kSubset
<1>3. PICK a \in batch : TRUE
  BY <1>2
<1>4. IsFiniteSet(batch \ {a}) /\ Cardinality(batch \ {a}) = Cardinality(batch) - 1
  BY <1>1, <1>3, FS_RemoveElement
<1>5. CASE batch \ {a} = {}
  BY <1>1, <1>3, <1>5
<1>6. CASE batch \ {a} # {}
  <2>1. PICK b \in batch \ {a} : TRUE
    BY <1>6
  <2>2. /\ IsFiniteSet((batch \ {a}) \ {b})
        /\ Cardinality((batch \ {a}) \ {b}) = Cardinality(batch) - 1 - 1
    BY <1>4, <2>1, FS_RemoveElement
  <2>3. Cardinality(batch) \in {1, 2}
    BY DEF kSubset
  <2>4. Cardinality((batch \ {a}) \ {b}) \in Nat
    BY <2>2, FS_CardinalityType
  <2>5. Cardinality((batch \ {a}) \ {b}) = 0
    BY <2>2, <2>3, <2>4
  <2>6. (batch \ {a}) \ {b} = {}
    BY <2>2, <2>5, FS_EmptySet
  <2> QED BY <1>1, <1>3, <2>1, <2>6
<1> QED BY <1>5, <1>6

LEMMA ApplyStep ==
  ASSUME MergeInv, NEW n \in Replica, ReceiveBatch(n)
  PROVE  MergeInv'
<1>1. PICK batch \in kSubset(1, written \ log[n]) \cup kSubset(2, written \ log[n]) :
        Apply(n, batch)
  BY DEF ReceiveBatch
<1>2. IsFiniteSet(written \ log[n])
  BY FS_Subset DEF MergeInv, MergeTyped
<1>3. PICK a \in written, b \in written : batch = {a, b}
  BY <1>1, <1>2, BatchOfTwo
<1>4. a \in Operation /\ b \in Operation /\ batch \subseteq written
      /\ batch \subseteq Operation
  BY <1>3, MergeInvParts
<1> DEFINE r == ApplyAll(Kept(n), batch)
           new == log[n] \cup batch
<1>5. OneClockEach(new)
  BY <1>4, MergeInvParts DEF OneClockEach
<1>6. KeptTyped(r) /\ KeptIs(r, new)
  BY <1>3, <1>4, <1>5, MergeInvParts, KeptBatch
<1>7. /\ hlc' = [hlc EXCEPT ![n] = r.clock] /\ log' = With(log, n, batch)
      /\ field' = [field EXCEPT ![n] = r.field] /\ life' = [life EXCEPT ![n] = r.life]
      /\ conf' = [conf EXCEPT ![n] =
                    IF warm[n] THEN Ingest(r.life, log[n], batch, conf[n])
                    ELSE Ingest(r.life, {}, new, {})]
      /\ warm' = [warm EXCEPT ![n] = TRUE] /\ wall' = wall /\ written' = written
  <2> QED BY <1>1 DEF Apply, Kept, With
<1> HIDE DEF r
<1>8. conf' = [conf EXCEPT ![n] = ConflictsOf(r.life, new)]
  BY <1>4, <1>5, <1>6, <1>7, ListStep DEF KeptIs
<1>9. \A c \in ConflictsOf(r.life, new) :
         c \in [winner : Time, loser : Time] /\ Grounded(c, new)
  <2>1. new \subseteq written /\ LifeIs(r.life, new) /\ HistoryInv(written, log)
    BY <1>4, <1>6, MergeInvParts DEF KeptIs, MergeInv
  <2> HIDE DEF new
  <2> QED BY <2>1, MergeInvParts, ConflictsGrounded
<1>10. HistoryInv(written, With(log, n, batch))
  <2>1. OwnKept(written, With(log, n, batch))
    BY DEF MergeInv, MergeTyped, HistoryInv, OwnKept, With
  <2> QED BY <2>1 DEF MergeInv, HistoryInv
<1>11. written \cup batch = written /\ IsFiniteSet(batch)
  BY <1>4, FS_Subset DEF MergeInv, MergeTyped
<1> QED BY <1>4, <1>6, <1>7, <1>8, <1>9, <1>10, <1>11, AddStep

LEMMA TakeOtherStep ==
  ASSUME MergeInv, NEW n \in Replica, NEW d \in conf[n], TakeOther(n, d)
  PROVE  MergeInv'
<1> DEFINE loser == CHOOSE o \in log[n] : o.hlc = d.loser
           c  == Tick(hlc[n], wall[n], n)
           op == NewOp(n, "set", loser.value, d.winner, c)
           k  == ApplyOp(Kept(n), op)
           new == log[n] \cup {op}
<1>0. /\ wall' = wall /\ warm' = [warm EXCEPT ![n] = TRUE]
      /\ d.winner = field[n].clock
      /\ Commit(n, {op}, ApplyMeta(field[n], op), life[n], c)
      /\ conf' = [conf EXCEPT ![n] = IF warm[n] THEN Ingest(life[n], log[n], {op}, conf[n])
                                     ELSE Ingest(life[n], {}, new, {})]
  <2> HIDE DEF c
  <2> QED BY DEF TakeOther, c
<1>1. loser.value \in Value
  <2>1. \E o \in log[n] : o.hlc = d.loser
    BY MergeInvParts DEF Grounded, Sets
  <2>2. loser \in log[n]
    BY <2>1
  <2> HIDE DEF loser
  <2> QED BY <2>2, MergeInvParts, OperationParts
<1>2. /\ op \in Operation /\ op.kind = "set"
      /\ HistoryInv(written \cup {op}, With(log, n, {op}))
      /\ KeptTyped(k) /\ KeptIs(k, new)
      /\ k = [clock |-> c, field |-> ApplyMeta(field[n], op), life |-> ApplyLife(life[n], op)]
  <2>1. d.winner \in Time
    BY <1>0, MergeInvParts
  <2>2. c = Tick(hlc[n], wall[n], n) /\ op = NewOp(n, "set", loser.value, d.winner, c)
    OBVIOUS
  <2> HIDE DEF c, op, loser
  <2>3. Issues(n, "set", loser.value, d.winner, c, op)
    BY <2>1, <2>2, <1>0, <1>1 DEF Issues
  <2>4. Issued(n, "set", c, op)
    BY <2>3, NewOpStep
  <2> QED BY <2>4 DEF Issued
<1>3. ApplyLife(life[n], op) = life[n]
  <2>1. life[n] \in [deleted : Time, restored : Time]
    BY DEF MergeInv, MergeTyped
  <2> HIDE DEF op
  <2> QED BY <1>2, <2>1 DEF ApplyLife
<1> HIDE DEF op, c, loser
<1>4. /\ written' = written \cup {op} /\ log' = With(log, n, {op})
      /\ field' = [field EXCEPT ![n] = k.field] /\ life' = [life EXCEPT ![n] = k.life]
      /\ hlc' = [hlc EXCEPT ![n] = k.clock] /\ k.life = life[n]
  BY <1>0, <1>2, <1>3 DEF Commit, With
<1>5. IsFiniteSet({op}) /\ {op} \subseteq Operation
  BY <1>2, FS_Singleton
<1> HIDE DEF k
<1>6. LifeIs(life[n], new) /\ OneClockEach(new)
  <2>1. LifeIs(life[n], new)
    BY <1>2, <1>4 DEF KeptIs
  <2>2. new \subseteq written \cup {op}
    BY MergeInvParts
  <2> QED BY <1>2, <2>1, <2>2 DEF HistoryInv, OneClockEach
<1>7. conf' = [conf EXCEPT ![n] = ConflictsOf(life[n], new)]
  BY <1>0, <1>5, <1>6, ListStep
<1>8. \A e \in ConflictsOf(life[n], new) :
         e \in [winner : Time, loser : Time] /\ Grounded(e, new)
  <2>1. new \subseteq written \cup {op} /\ written \cup {op} \subseteq Operation
    BY <1>2, MergeInvParts
  <2> HIDE DEF new
  <2> QED BY <1>2, <1>6, <2>1, ConflictsGrounded
<1> QED BY <1>0, <1>2, <1>4, <1>5, <1>7, <1>8, AddStep

LEMMA MergeInitInv == MergeInit => MergeInv
<1> SUFFICES ASSUME MergeInit PROVE MergeInv
  OBVIOUS
<1>1. /\ wall = [n \in Replica |-> 0] /\ hlc = [n \in Replica |-> <<0, 0, n>>]
      /\ written = {} /\ log = [n \in Replica |-> {}]
      /\ field = [n \in Replica |-> [clock |-> Never, value |-> CHOOSE v \in Value : TRUE]]
      /\ life = [n \in Replica |-> [deleted |-> Never, restored |-> Never]]
      /\ conf = [n \in Replica |-> {}] /\ warm = [n \in Replica |-> FALSE]
  BY DEF MergeInit
<1>2. MergeTyped
  <2>1. (CHOOSE v \in Value : TRUE) \in Value
    BY MergeAssumption
  <2>2. IsFiniteSet({})
    BY FS_EmptySet
  <2>3. hlc \in [Replica -> Stamp]
    BY <1>1 DEF Stamp
  <2> QED BY <1>1, <2>1, <2>2, <2>3, NeverIsTime DEF MergeTyped
<1>3. HistoryInv(written, log)
  BY <1>1 DEF HistoryInv, OneClockEach, OwnKept, SeenBefore, OwnSeen, OnLatestSeen, Sets
<1>4. ASSUME NEW n \in Replica
      PROVE  KeptIs(Kept(n), log[n]) /\ \A c \in conf[n] : Grounded(c, log[n])
  <2>1. Sets({}) = {} /\ Tombstones({}) = {} /\ Restores({}) = {} /\ ClocksOf({}) = {}
    BY DEF Sets, Tombstones, Restores, ClocksOf
  <2>2. /\ log[n] = {} /\ conf[n] = {}
        /\ Kept(n).field = [clock |-> Never, value |-> CHOOSE v \in Value : TRUE]
        /\ Kept(n).life = [deleted |-> Never, restored |-> Never]
    BY <1>1 DEF Kept
  <2> QED BY <2>1, <2>2 DEF KeptIs, FieldIs, LifeIs, LatestOf
<1>5. ConflictsAreRecomputable
  BY <1>1 DEF ConflictsAreRecomputable
<1> QED BY <1>2, <1>3, <1>4, <1>5 DEF MergeInv

LEMMA MergeNextInv == MergeInv /\ [MergeNext]_mergeVars => MergeInv'
<1> SUFFICES ASSUME MergeInv, [MergeNext]_mergeVars PROVE MergeInv'
  OBVIOUS
<1>0. ASSUME UNCHANGED <<hlc, written, log, field, life, conf>>,
             wall' \in [Replica -> Nat], warm' \in [Replica -> BOOLEAN],
             \A m \in Replica : warm'[m] => warm[m]
      PROVE  MergeInv'
  <2>1. MergeTyped'
    BY <1>0 DEF MergeInv, MergeTyped
  <2>2. HistoryInv(written, log)'
    BY <1>0 DEF MergeInv, HistoryInv, OneClockEach, OwnKept, SeenBefore, OwnSeen,
                OnLatestSeen, Sets
  <2>3. ASSUME NEW m \in Replica
        PROVE  /\ KeptIs(Kept(m), log[m])'
               /\ (\A c \in conf[m] : Grounded(c, log[m]))'
               /\ warm'[m] => conf'[m] = ConflictsOf(life'[m], log'[m])
    BY <1>0, MergeInvParts DEF Kept
  <2>4. ConflictsAreRecomputable'
    BY <2>3 DEF ConflictsAreRecomputable
  <2> QED BY <2>1, <2>2, <2>3, <2>4 DEF MergeInv
<1>1. CASE UNCHANGED mergeVars
  BY <1>0, <1>1 DEF mergeVars, MergeInv, MergeTyped
<1>2. CASE MergeNext
  <2>1. PICK n \in Replica :
           \/ WallTicks(n)
           \/ \E v \in Value : Edit(n, v)
           \/ Delete(n)
           \/ ReceiveBatch(n)
           \/ \E c \in conf[n] : TakeOther(n, c)
           \/ EndProcess(n)
    BY <1>2 DEF MergeNext
  <2>2. CASE WallTicks(n)
    <3>1. wall' \in [Replica -> Nat]
      BY <2>2 DEF WallTicks, MergeInv, MergeTyped
    <3> QED BY <1>0, <2>2, <3>1 DEF WallTicks, MergeInv, MergeTyped
  <2>3. CASE \E v \in Value : Edit(n, v)
    BY <2>3, EditStep
  <2>4. CASE Delete(n)
    BY <2>4, DeleteStep
  <2>5. CASE ReceiveBatch(n)
    BY <2>5, ApplyStep
  <2>6. CASE \E c \in conf[n] : TakeOther(n, c)
    BY <2>6, TakeOtherStep
  <2>7. CASE EndProcess(n)
    <3>1. /\ warm' \in [Replica -> BOOLEAN] /\ \A m \in Replica : warm'[m] => warm[m]
      BY <2>7 DEF EndProcess, MergeInv, MergeTyped
    <3> QED BY <1>0, <2>7, <3>1 DEF EndProcess, MergeInv, MergeTyped
  <2> QED BY <2>1, <2>2, <2>3, <2>4, <2>5, <2>6, <2>7
<1> QED BY <1>1, <1>2

LEMMA MergeInvHolds == MergeSpec => []MergeInv
<1>1. MergeInit => MergeInv
  BY MergeInitInv
<1>2. MergeInv /\ [MergeNext]_mergeVars => MergeInv'
  BY MergeNextInv
<1> QED BY <1>1, <1>2, PTL DEF MergeSpec

LEMMA SameOpsFromInv == MergeInv => SameOpsSameTask
<1> SUFFICES ASSUME MergeInv, NEW m \in Replica, NEW n \in Replica, log[m] = log[n]
             PROVE  field[m] = field[n] /\ Deleted(life[m]) = Deleted(life[n])
  BY DEF SameOpsSameTask
<1> DEFINE S == log[n]
<1>1. /\ S \subseteq Operation
      /\ FieldIs(field[m], S) /\ FieldIs(field[n], S)
      /\ LifeIs(life[m], S) /\ LifeIs(life[n], S)
      /\ field[m] \in [clock : Time, value : Value]
      /\ field[n] \in [clock : Time, value : Value]
  BY MergeInvParts
<1> HIDE DEF S
<1>2. /\ ClocksOf(Sets(S)) \subseteq Time /\ ClocksOf(Tombstones(S)) \subseteq Time
      /\ ClocksOf(Restores(S)) \subseteq Time
  BY <1>1, ClocksTyped, StampIsTime
<1>3. field[m].clock = field[n].clock
  BY <1>1, <1>2, LatestIsOne DEF FieldIs
<1>4. life[m].deleted = life[n].deleted /\ life[m].restored = life[n].restored
  BY <1>1, <1>2, LatestIsOne DEF LifeIs
<1>5. field[m].value = field[n].value
  <2>1. CASE Sets(S) = {}
    BY <1>1, <2>1 DEF FieldIs
  <2>2. CASE Sets(S) # {}
    <3>1. field[m].clock \in ClocksOf(Sets(S))
      BY <1>1, <2>2 DEF FieldIs, LatestOf, ClocksOf
    <3>2. PICK x \in Sets(S) : x.hlc = field[m].clock
      BY <3>1 DEF ClocksOf
    <3> QED BY <1>1, <1>3, <3>2 DEF FieldIs
  <2> QED BY <2>1, <2>2
<1>6. field[m] = field[n]
  BY <1>1, <1>3, <1>5
<1> QED BY <1>4, <1>6 DEF Deleted

LEMMA LossFromInv == MergeInv => LossIsReported
<1> SUFFICES ASSUME MergeInv, NEW n \in Replica, warm[n], Complete(n),
                    NEW x \in Sets(log[n])
             PROVE  \/ field[n].clock = x.hlc
                    \/ \E y \in Sets(log[n]) \ {x} :
                          /\ Older(x.hlc, y.hlc)
                          /\ x.hlc \in y.seen \/ x.value = y.value
                    \/ \E c \in conf[n] : c.loser = x.hlc
  BY DEF LossIsReported
<1>1. /\ written \subseteq Operation /\ log[n] \subseteq written
      /\ FieldIs(field[n], log[n]) /\ conf[n] = ConflictsOf(life[n], log[n])
  BY MergeInvParts
<1>2. HistoryInv(written, log)
  BY DEF MergeInv
<1>3. \A op \in log[n] : op.seen \subseteq ClocksOf(log[n])
  BY DEF Complete, ClocksOf
<1>4. ASSUME field[n].clock # x.hlc
      PROVE  \/ \E y \in Sets(log[n]) \ {x} :
                   /\ Older(x.hlc, y.hlc)
                   /\ x.hlc \in y.seen \/ x.value = y.value
             \/ \E c \in ConflictsOf(life[n], log[n]) : c.loser = x.hlc
  BY <1>1, <1>2, <1>3, <1>4, LossOf
<1> QED BY <1>1, <1>4

LEMMA ConcurrentFromInv == MergeInv => OnlyConcurrentVersionsConflict
<1> SUFFICES ASSUME MergeInv, NEW n \in Replica, NEW c \in conf[n],
                    NEW w \in Sets(log[n]), NEW x \in Sets(log[n]),
                    c.winner = w.hlc, c.loser = x.hlc
             PROVE  x.hlc \notin w.seen /\ w.hlc \notin x.seen
  BY DEF OnlyConcurrentVersionsConflict
<1>1. /\ log[n] \subseteq written /\ written \subseteq Operation /\ Grounded(c, log[n])
      /\ OneClockEach(written) /\ SeenBefore(written)
  BY MergeInvParts DEF MergeInv, HistoryInv
<1>2. /\ w \in written /\ x \in written /\ w \in Operation /\ x \in Operation
      /\ w.kind = "set" /\ w.hlc \in Time /\ x.hlc \in Time
  BY <1>1, SetParts DEF Sets
<1>3. c.winner \notin ClocksOf(Tombstones(log[n]))
  BY <1>1, <1>2 DEF ClocksOf, Tombstones, OneClockEach
<1>4. PICK y \in Sets(log[n]), v \in Sets(log[n]) :
         /\ c.loser = y.hlc /\ c.winner = v.hlc
         /\ Older(y.hlc, v.hlc) /\ y.hlc \notin v.seen
  BY <1>1, <1>3 DEF Grounded
<1>5. y = x /\ v = w
  BY <1>1, <1>2, <1>4 DEF OneClockEach, Sets
<1>6. w.hlc \notin x.seen
  <2>1. SUFFICES ASSUME w.hlc \in x.seen PROVE FALSE
    OBVIOUS
  <2>2. Older(w.hlc, x.hlc)
    BY <1>1, <1>2, <2>1 DEF SeenBefore
  <2> QED BY <1>2, <1>4, <1>5, <2>2, NotBothOlder
<1> QED BY <1>4, <1>5, <1>6

----------------------------------------------------------------------------
\* Two replicas with the same operations show the same task, for any number of
\* replicas and any batches: apply_meta is a join, so what is kept is the
\* latest of what is there.
THEOREM ReplicasAgree == MergeSpec => []SameOpsSameTask
BY MergeInvHolds, SameOpsFromInv, PTL

\* The incremental list of conflicts of ingest is the recomputed one of
\* conflicts_of, whatever order and batches the operations came in and wherever
\* a process ended: the debug assertion of apply_remote_transaction cannot fire.
THEOREM ConflictsRecomputable == MergeSpec => []ConflictsAreRecomputable
<1>1. MergeInv => ConflictsAreRecomputable
  BY DEF MergeInv
<1> QED BY <1>1, MergeInvHolds, PTL

\* An edit that lost is in the list of conflicts, unless an author who had seen
\* it wrote over it or wrote the same value: the rules of push_pair (same node,
\* chain of versions, covered loser) hide nothing else.
THEOREM NoSilentLoss == MergeSpec => []LossIsReported
BY MergeInvHolds, LossFromInv, PTL

\* push_pair calls no two versions a conflict when the author of one had seen
\* the other.
THEOREM ConflictsAreConcurrent == MergeSpec => []OnlyConcurrentVersionsConflict
BY MergeInvHolds, ConcurrentFromInv, PTL
=============================================================================
