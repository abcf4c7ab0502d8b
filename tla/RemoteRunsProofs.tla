-------------------------- MODULE RemoteRunsProofs --------------------------
(***************************************************************************)
(* Proofs about RemoteRuns: whatever order sessions and tasks are saved    *)
(* in, a node publishes what it does (DescriptorTells) and a generation it *)
(* published stands for one session (GenerationNamesOne), for any number   *)
(* of nodes, tasks, sessions and commands.                                 *)
(***************************************************************************)
EXTENDS RemoteRuns, Extremes

-----------------------------------------------------------------------------
(* The last descriptor of a task in the first k operations of a log.       *)

Runs(L, k, t) == {i \in 1 .. k : L[i].kind = "run" /\ L[i].task = t}

LastRun(L, k, t) ==
    IF Runs(L, k, t) = {} THEN NoRun ELSE L[Max(Runs(L, k, t))].value

LEMMA RunOfIs ==
  ASSUME NEW n, NEW t, NEW m
  PROVE  RunOf(n, t, m) = LastRun(ops[m], have[n][m], t)
BY DEF RunOf, LastRun, Runs

\* It is the descriptor none of its task follows.
LEMMA LastRunIs ==
  ASSUME NEW L, NEW k \in Nat, NEW t, NEW i \in 1 .. k,
         L[i].kind = "run", L[i].task = t,
         \A j \in i + 1 .. k : ~ (L[j].kind = "run" /\ L[j].task = t)
  PROVE  LastRun(L, k, t) = L[i].value
<1> DEFINE T == Runs(L, k, t)
<1>1. T \subseteq Int /\ i \in T /\ \A j \in T : j <= i
  BY DEF Runs
<1>2. Max(T) = i
  <2> HIDE DEF T
  <2> QED BY <1>1, GreatestIs
<1> QED BY <1>1, <1>2 DEF LastRun

LEMMA LastRunIsThere ==
  ASSUME NEW L, NEW k \in Nat, NEW t
  PROVE  \/ LastRun(L, k, t) = NoRun /\ Runs(L, k, t) = {}
         \/ \E i \in Runs(L, k, t) : LastRun(L, k, t) = L[i].value
<1> DEFINE T == Runs(L, k, t)
<1>1. T \subseteq Int /\ k \in Int /\ \A j \in T : j <= k
  BY DEF Runs
<1>2. ASSUME T # {} PROVE Max(T) \in T
  <2> HIDE DEF T
  <2> QED BY <1>1, <1>2, GreatestOne
<1> QED BY <1>2 DEF LastRun

\* Other operations behind it do not change it.
LEMMA LastRunBefore ==
  ASSUME NEW M, NEW k \in Nat, NEW h \in Nat, k <= h, NEW t,
         \A i \in k + 1 .. h : ~ (M[i].kind = "run" /\ M[i].task = t)
  PROVE  LastRun(M, h, t) = LastRun(M, k, t)
<1>1. Runs(M, h, t) = Runs(M, k, t)
  BY DEF Runs
<1> QED BY <1>1 DEF LastRun

LEMMA LastRunSame ==
  ASSUME NEW L, NEW M, NEW k \in Nat, NEW t, \A i \in 1 .. k : L[i] = M[i]
  PROVE  LastRun(M, k, t) = LastRun(L, k, t)
<1> DEFINE T == Runs(L, k, t)
<1>1. Runs(M, k, t) = T
  BY DEF Runs
<1>2. T \subseteq 1 .. k /\ T \subseteq Int /\ k \in Int /\ \A j \in T : j <= k
  BY DEF Runs
<1>3. ASSUME T # {} PROVE M[Max(T)] = L[Max(T)]
  <2>1. Max(T) \in T
    <3> HIDE DEF T
    <3> QED BY <1>2, <1>3, GreatestOne
  <2> QED BY <1>2, <2>1
<1> QED BY <1>1, <1>3 DEF LastRun

-----------------------------------------------------------------------------
(* What a write leaves.                                                    *)

IsSeq(s) == \E S : s \in Seq(S)

LEMMA JoinedSeq ==
  ASSUME NEW s, NEW u, IsSeq(s), IsSeq(u)
  PROVE  /\ IsSeq(s \o u)
         /\ Len(s) \in Nat /\ Len(u) \in Nat /\ Len(s \o u) = Len(s) + Len(u)
         /\ \A i \in 1 .. Len(s) : (s \o u)[i] = s[i]
         /\ \A i \in 1 .. Len(u) : (s \o u)[Len(s) + i] = u[i]
<1>1. PICK S : s \in Seq(S)
  BY DEF IsSeq
<1>2. PICK U : u \in Seq(U)
  BY DEF IsSeq
<1>3. s \in Seq(S \cup U) /\ u \in Seq(S \cup U)
  BY <1>1, <1>2
<1>4. /\ s \o u \in Seq(S \cup U)
      /\ Len(s) \in Nat /\ Len(u) \in Nat /\ Len(s \o u) = Len(s) + Len(u)
      /\ \A i \in 1 .. Len(s) : (s \o u)[i] = s[i]
  BY <1>3
<1>5. ASSUME NEW i \in 1 .. Len(u) PROVE (s \o u)[Len(s) + i] = u[i]
  BY <1>3, <1>4, Len(s) + i \in 1 .. Len(s) + Len(u)
<1> QED BY <1>4, <1>5 DEF IsSeq

LEMMA ShortSeq ==
  /\ IsSeq(<<>>) /\ Len(<<>>) = 0
  /\ \A x : IsSeq(<<x>>) /\ Len(<<x>>) = 1 /\ <<x>>[1] = x
<1>1. <<>> \in Seq({}) /\ Len(<<>>) = 0
  OBVIOUS
<1>2. ASSUME NEW x PROVE <<x>> \in Seq({x}) /\ Len(<<x>>) = 1 /\ <<x>>[1] = x
  OBVIOUS
<1> QED BY <1>1, <1>2 DEF IsSeq

\* Every log is a sequence, and no node knows more of one than there is; of
\* its own it knows all.
LogsShaped ==
    /\ DOMAIN ops = Peer
    /\ ops = [n \in Peer |-> ops[n]]
    /\ \A n \in Peer : IsSeq(ops[n]) /\ Len(ops[n]) \in Nat
    /\ have \in [Peer -> [Peer -> Nat]]
    /\ \A n, m \in Peer : have[n][m] <= Len(ops[m])
    /\ \A n \in Peer : have[n][n] = Len(ops[n])

\* What a log holds of the operations that were written.
LEMMA WriteIs ==
  ASSUME LogsShaped, NEW n \in Peer, NEW new, IsSeq(new), Write(n, new)
  PROVE  /\ LogsShaped'
         /\ Len(ops'[n]) = Len(ops[n]) + Len(new) /\ Len(new) \in Nat
         /\ \A i \in 1 .. Len(ops[n]) : ops'[n][i] = ops[n][i]
         /\ \A i \in 1 .. Len(new) :
               LET op == ops'[n][Len(ops[n]) + i]
               IN  op.kind = new[i].kind /\ op.task = new[i].task
                   /\ op.value = new[i].value
         /\ \A m \in Peer : m # n => ops'[m] = ops[m]
         /\ \A k, m \in Peer : k # n \/ m # n => have'[k][m] = have[k][m]
<1> DEFINE stamped == [i \in DOMAIN new |-> Stamped(new[i], Clock(n) + i)]
<1>0. IsSeq(ops[n]) /\ Len(ops[n]) \in Nat
  BY DEF LogsShaped
<1>1. PICK S : new \in Seq(S)
  BY DEF IsSeq
<1>2. Len(new) \in Nat /\ DOMAIN new = 1 .. Len(new)
  BY <1>1
<1>3. /\ IsSeq(stamped) /\ Len(stamped) = Len(new)
      /\ \A i \in 1 .. Len(new) : stamped[i] = Stamped(new[i], Clock(n) + i)
  <2> DEFINE T == {stamped[i] : i \in 1 .. Len(new)}
  <2>1. DOMAIN stamped = 1 .. Len(new) /\ stamped \in [1 .. Len(new) -> T]
    BY <1>2
  <2>2. \A i \in 1 .. Len(new) : stamped[i] = Stamped(new[i], Clock(n) + i)
    BY <1>2
  <2> HIDE DEF stamped, T
  <2>3. stamped \in Seq(T) /\ Len(stamped) = Len(new)
    BY <1>2, <2>1
  <2> QED BY <2>2, <2>3 DEF IsSeq
<1>4. /\ ops' = [ops EXCEPT ![n] = @ \o stamped]
      /\ have' = [have EXCEPT ![n][n] = @ + Len(new)]
  BY DEF Write
<1> HIDE DEF stamped
<1>5. ops'[n] = ops[n] \o stamped /\ \A m \in Peer : m # n => ops'[m] = ops[m]
  BY <1>4 DEF LogsShaped
<1>6. /\ IsSeq(ops'[n]) /\ Len(ops'[n]) = Len(ops[n]) + Len(new)
      /\ \A i \in 1 .. Len(ops[n]) : ops'[n][i] = ops[n][i]
      /\ \A i \in 1 .. Len(new) : ops'[n][Len(ops[n]) + i] = stamped[i]
  <2> DEFINE s == ops[n]
  <2>1. IsSeq(s) /\ IsSeq(stamped)
    BY <1>0, <1>3
  <2> HIDE DEF s
  <2>2. /\ IsSeq(s \o stamped)
        /\ Len(s \o stamped) = Len(s) + Len(stamped)
        /\ \A i \in 1 .. Len(s) : (s \o stamped)[i] = s[i]
        /\ \A i \in 1 .. Len(stamped) : (s \o stamped)[Len(s) + i] = stamped[i]
    BY <2>1, JoinedSeq
  <2>3. ops'[n] = s \o stamped
    BY <1>5 DEF s
  <2> QED BY <1>3, <2>2, <2>3 DEF s
<1>7. /\ have' \in [Peer -> [Peer -> Nat]]
      /\ have'[n][n] = have[n][n] + Len(new)
      /\ \A k, m \in Peer : k # n \/ m # n => have'[k][m] = have[k][m]
  BY <1>2, <1>4 DEF LogsShaped
<1>8. DOMAIN ops' = Peer /\ ops' = [m \in Peer |-> ops'[m]]
  <2>1. ops' = [m \in Peer |-> IF m = n THEN ops[m] \o stamped ELSE ops[m]]
    BY <1>4 DEF LogsShaped
  <2> QED BY <2>1
<1>9. \A m \in Peer : IsSeq(ops'[m]) /\ Len(ops'[m]) \in Nat
  <2> SUFFICES ASSUME NEW m \in Peer PROVE IsSeq(ops'[m]) /\ Len(ops'[m]) \in Nat
    OBVIOUS
  <2>1. CASE m = n
    BY <1>0, <1>2, <1>6, <2>1
  <2>2. CASE m # n
    BY <1>5, <2>2 DEF LogsShaped
  <2> QED BY <2>1, <2>2
<1>10. \A k, m \in Peer : have'[k][m] <= Len(ops'[m])
  <2> SUFFICES ASSUME NEW k \in Peer, NEW m \in Peer
               PROVE  have'[k][m] <= Len(ops'[m])
    OBVIOUS
  <2>1. have[k][m] \in Nat /\ have[k][m] <= Len(ops[m]) /\ have[n][n] = Len(ops[n])
    BY DEF LogsShaped
  <2>2. CASE m # n
    BY <1>5, <1>7, <2>1, <2>2
  <2>3. CASE m = n /\ k # n
    BY <1>0, <1>2, <1>6, <1>7, <2>1, <2>3
  <2>4. CASE m = n /\ k = n
    BY <1>0, <1>2, <1>6, <1>7, <2>1, <2>4
  <2> QED BY <2>2, <2>3, <2>4
<1>11. \A m \in Peer : have'[m][m] = Len(ops'[m])
  <2> SUFFICES ASSUME NEW m \in Peer PROVE have'[m][m] = Len(ops'[m])
    OBVIOUS
  <2>1. CASE m = n
    BY <1>6, <1>7, <2>1 DEF LogsShaped
  <2>2. CASE m # n
    BY <1>5, <1>7, <2>2 DEF LogsShaped
  <2> QED BY <2>1, <2>2
<1>12. LogsShaped'
  BY <1>7, <1>8, <1>9, <1>10, <1>11 DEF LogsShaped
<1>13. ASSUME NEW i \in 1 .. Len(new)
       PROVE  LET op == ops'[n][Len(ops[n]) + i]
              IN  op.kind = new[i].kind /\ op.task = new[i].task
                  /\ op.value = new[i].value
  <2>1. ops'[n][Len(ops[n]) + i] = Stamped(new[i], Clock(n) + i)
    BY <1>3, <1>6
  <2> QED BY <2>1 DEF Stamped
<1> QED BY <1>2, <1>5, <1>6, <1>7, <1>12, <1>13

\* Operations that are no descriptors.
Silent(first) == IsSeq(first) /\ \A i \in 1 .. Len(first) : first[i].kind # "run"

LEMMA RunOpsAre ==
  ASSUME NEW t, NEW old, NEW one, NEW two
  PROVE  LET r == RunOps(t, old, one, two)
         IN  /\ IsSeq(r) /\ Len(r) \in Nat
             /\ \A i \in 1 .. Len(r) :
                   /\ r[i].kind = "run" /\ r[i].task = t
                   /\ (r[i].value = two /\ (two # one \/ one # old)) \/ (r[i].value = one /\ one # old)
             /\ Len(r) = 0 => two = old
             /\ Len(r) # 0 => r[Len(r)].value = two
<1> DEFINE a == OpOf("run", t, one)
           b == OpOf("run", t, two)
<1>1. /\ a.kind = "run" /\ a.task = t /\ a.value = one
      /\ b.kind = "run" /\ b.task = t /\ b.value = two
  BY DEF OpOf
<1>2. RunOps(t, old, one, two) =
        (IF one = old THEN <<>> ELSE <<a>>) \o (IF two = one THEN <<>> ELSE <<b>>)
  BY DEF RunOps
<1> HIDE DEF a, b
<1> DEFINE r == RunOps(t, old, one, two)
<1>3. /\ IsSeq(<<a>>) /\ Len(<<a>>) = 1 /\ <<a>>[1] = a
      /\ IsSeq(<<b>>) /\ Len(<<b>>) = 1 /\ <<b>>[1] = b
      /\ IsSeq(<<>>) /\ Len(<<>>) = 0
  BY ShortSeq
<1>4. /\ IsSeq(<<a>> \o <<b>>) /\ Len(<<a>> \o <<b>>) = 2
      /\ (<<a>> \o <<b>>)[1] = a /\ (<<a>> \o <<b>>)[2] = b
  <2> DEFINE x == <<a>>
             y == <<b>>
  <2> HIDE DEF x, y
  <2>1. /\ IsSeq(x) /\ Len(x) = 1 /\ x[1] = a
        /\ IsSeq(y) /\ Len(y) = 1 /\ y[1] = b
    BY <1>3 DEF x, y
  <2>2. /\ IsSeq(x \o y) /\ Len(x \o y) = Len(x) + Len(y)
        /\ \A i \in 1 .. Len(x) : (x \o y)[i] = x[i]
        /\ \A i \in 1 .. Len(y) : (x \o y)[Len(x) + i] = y[i]
    <3>1. IsSeq(x) /\ IsSeq(y)
      BY <2>1
    <3> QED BY ONLY <3>1, JoinedSeq
  <2>3. IsSeq(x \o y) /\ Len(x \o y) = 2 /\ (x \o y)[1] = a /\ (x \o y)[2] = b
    BY <2>1, <2>2
  <2> QED BY <2>3 DEF x, y
<1>5. \/ one = old /\ two = one /\ r = <<>>
      \/ one = old /\ two # one /\ r = <<b>>
      \/ one # old /\ two = one /\ r = <<a>>
      \/ one # old /\ two # one /\ r = <<a>> \o <<b>>
  <2>1. /\ <<>> \o <<>> = <<>> /\ <<a>> \o <<>> = <<a>> /\ <<>> \o <<b>> = <<b>>
    OBVIOUS
  <2> QED BY <1>2, <2>1
<1> HIDE DEF r
<1>6. \/ one = old /\ two = one /\ IsSeq(r) /\ Len(r) = 0
      \/ one = old /\ two # one /\ IsSeq(r) /\ Len(r) = 1 /\ r[1] = b
      \/ one # old /\ two = one /\ IsSeq(r) /\ Len(r) = 1 /\ r[1] = a
      \/ one # old /\ two # one /\ IsSeq(r) /\ Len(r) = 2 /\ r[1] = a /\ r[2] = b
  BY <1>3, <1>4, <1>5
<1>7. /\ IsSeq(r) /\ Len(r) \in Nat
      /\ \A i \in 1 .. Len(r) :
            /\ r[i].kind = "run" /\ r[i].task = t
            /\ (r[i].value = two /\ (two # one \/ one # old)) \/ (r[i].value = one /\ one # old)
      /\ Len(r) = 0 => two = old
      /\ Len(r) # 0 => r[Len(r)].value = two
  <2>1. CASE one = old /\ two = one /\ IsSeq(r) /\ Len(r) = 0
    BY <2>1
  <2>2. CASE one = old /\ two # one /\ IsSeq(r) /\ Len(r) = 1 /\ r[1] = b
    <3>1. \A i \in 1 .. 1 : i = 1
      OBVIOUS
    <3>2. r[1].kind = "run" /\ r[1].task = t /\ r[1].value = two /\ two # one
      BY <1>1, <2>2
    <3>3. /\ IsSeq(r) /\ Len(r) \in Nat /\ ~ (Len(r) = 0)
          /\ r[Len(r)].value = two
      BY <2>2, <3>2
    <3>4. \A i \in 1 .. Len(r) :
            r[i].kind = "run" /\ r[i].task = t /\ r[i].value = two /\ two # one
      BY <2>2, <3>1, <3>2
    <3> QED BY ONLY <3>3, <3>4
  <2>3. CASE one # old /\ two = one /\ IsSeq(r) /\ Len(r) = 1 /\ r[1] = a
    <3>1. \A i \in 1 .. 1 : i = 1
      OBVIOUS
    <3> QED BY <1>1, <2>3, <3>1
  <2>4. CASE one # old /\ two # one /\ IsSeq(r) /\ Len(r) = 2 /\ r[1] = a /\ r[2] = b
    <3>1. \A i \in 1 .. 2 : i = 1 \/ i = 2
      OBVIOUS
    <3> QED BY <1>1, <2>4, <3>1
  <2> QED BY <1>6, <2>1, <2>2, <2>3, <2>4
<1> QED BY <1>7 DEF r

\* A write with the descriptors of one task leaves the last one standing.
LEMMA Published ==
  ASSUME LogsShaped, NEW n \in Peer, NEW t, NEW one, NEW two, NEW first,
         Silent(first), Write(n, first \o RunOps(t, Own(n, t), one, two))
  PROVE  /\ LogsShaped'
         /\ Own(n, t)' = two
         /\ \A u : u # t => Own(n, u)' = Own(n, u)
         /\ \A m \in Peer \ {n} : /\ ops'[m] = ops[m]
                                  /\ \A u : Own(m, u)' = Own(m, u)
         /\ \A i \in 1 .. Len(ops'[n]) : ops'[n][i].kind = "run" =>
               \/ i \in 1 .. Len(ops[n]) /\ ops'[n][i] = ops[n][i]
               \/ /\ ops'[n][i].task = t
                  /\ \/ ops'[n][i].value = two /\ (two # one \/ one # Own(n, t))
                     \/ ops'[n][i].value = one /\ one # Own(n, t)
<1> DEFINE old == Own(n, t)
           r == RunOps(t, old, one, two)
           new == first \o r
           L == ops[n]
           M == ops'[n]
           k == Len(first)
<1>1. /\ IsSeq(r) /\ Len(r) \in Nat
      /\ \A i \in 1 .. Len(r) :
            /\ r[i].kind = "run" /\ r[i].task = t
            /\ (r[i].value = two /\ (two # one \/ one # old)) \/ (r[i].value = one /\ one # old)
      /\ Len(r) = 0 => two = old
      /\ Len(r) # 0 => r[Len(r)].value = two
  <2> HIDE DEF old
  <2> QED BY RunOpsAre
<1>2. Write(n, new)
  OBVIOUS
<1> HIDE DEF r, old
<1>3. /\ IsSeq(new) /\ k \in Nat /\ Len(new) = k + Len(r)
      /\ \A i \in 1 .. k : new[i] = first[i]
      /\ \A i \in 1 .. Len(r) : new[k + i] = r[i]
  BY <1>1, JoinedSeq DEF Silent
<1> HIDE DEF new
<1>4. /\ LogsShaped'
      /\ Len(M) = Len(L) + Len(new) /\ Len(new) \in Nat
      /\ \A i \in 1 .. Len(L) : M[i] = L[i]
      /\ \A i \in 1 .. Len(new) :
            /\ M[Len(L) + i].kind = new[i].kind /\ M[Len(L) + i].task = new[i].task
            /\ M[Len(L) + i].value = new[i].value
      /\ \A m \in Peer : m # n => ops'[m] = ops[m]
      /\ \A h, m \in Peer : h # n \/ m # n => have'[h][m] = have[h][m]
  BY <1>2, <1>3, WriteIs
<1>5. /\ Len(L) \in Nat /\ Len(M) = Len(L) + k + Len(r)
      /\ have[n][n] = Len(L) /\ have'[n][n] = Len(M)
  <2>1. Len(L) \in Nat /\ have[n][n] = Len(L)
    BY DEF LogsShaped
  <2>2. have'[n][n] = Len(M)
    BY <1>4 DEF LogsShaped
  <2>3. Len(M) = Len(L) + Len(new) /\ Len(new) = k + Len(r) /\ k \in Nat /\ Len(r) \in Nat
    BY <1>1, <1>3, <1>4
  <2>4. Len(M) = Len(L) + k + Len(r)
    <3> HIDE DEF L, M, k
    <3> QED BY ONLY <2>1, <2>3
  <2> QED BY <2>1, <2>2, <2>4
<1>50. ASSUME NEW u
       PROVE  /\ Own(n, u) = LastRun(L, Len(L), u)
              /\ Own(n, u)' = LastRun(M, Len(M), u)
  BY <1>5 DEF Own, RunOf, LastRun, Runs
<1>51. old = LastRun(L, Len(L), t)
  BY <1>50 DEF old
<1>52. \A h \in Peer \ {n} : ops'[h] = ops[h] /\ have'[h][h] = have[h][h]
  BY <1>4
<1> HIDE DEF L, M, k
<1>6. ASSUME NEW i \in Len(L) + 1 .. Len(L) + k PROVE M[i].kind # "run"
  <2>1. i - Len(L) \in 1 .. k /\ i - Len(L) \in 1 .. Len(new) /\ i = Len(L) + (i - Len(L))
    BY <1>1, <1>3, <1>5
  <2>2. M[i].kind = new[i - Len(L)].kind
    BY <1>4, <2>1
  <2> QED BY <1>3, <2>1, <2>2 DEF Silent, k
<1>7. ASSUME NEW i \in Len(L) + k + 1 .. Len(M)
      PROVE  /\ i - (Len(L) + k) \in 1 .. Len(r)
             /\ M[i].kind = r[i - (Len(L) + k)].kind
             /\ M[i].task = r[i - (Len(L) + k)].task
             /\ M[i].value = r[i - (Len(L) + k)].value
  <2> DEFINE j == i - (Len(L) + k)
  <2>1. j \in 1 .. Len(r) /\ k + j \in 1 .. Len(new) /\ i = Len(L) + (k + j)
    BY <1>1, <1>3, <1>5
  <2>2. new[k + j] = r[j]
    BY <1>3, <2>1
  <2>3. M[i].kind = new[k + j].kind /\ M[i].task = new[k + j].task /\ M[i].value = new[k + j].value
    BY <1>4, <2>1
  <2> QED BY <2>1, <2>2, <2>3
<1>8. Own(n, t)' = two
  <2>1. Own(n, t)' = LastRun(M, Len(M), t)
    BY <1>50
  <2>2. CASE Len(r) = 0
    <3>1. LastRun(M, Len(M), t) = LastRun(L, Len(L), t)
      <4>1. /\ Len(L) \in Nat /\ Len(M) \in Nat /\ Len(L) <= Len(M)
            /\ \A i \in 1 .. Len(L) : L[i] = M[i]
        BY <1>3, <1>4, <1>5
      <4>2. ASSUME NEW i \in Len(L) + 1 .. Len(M)
            PROVE  ~ (M[i].kind = "run" /\ M[i].task = t)
        BY <1>3, <1>5, <1>6, <2>2
      <4>3. LastRun(M, Len(M), t) = LastRun(M, Len(L), t)
        BY ONLY <4>1, <4>2, LastRunBefore
      <4>4. LastRun(M, Len(L), t) = LastRun(L, Len(L), t)
        BY ONLY <4>1, LastRunSame
      <4> QED BY <4>3, <4>4
    <3> QED BY <1>1, <1>51, <2>1, <2>2, <3>1
  <2>3. CASE Len(r) # 0
    <3>1. Len(M) \in Len(L) + k + 1 .. Len(M) /\ Len(M) - (Len(L) + k) = Len(r)
      <4>1. Len(r) \in Nat /\ k \in Nat /\ Len(L) \in Nat /\ Len(M) = Len(L) + k + Len(r) /\ Len(r) # 0
        BY <1>1, <1>3, <1>5, <2>3
      <4> HIDE DEF k
      <4> QED BY ONLY <4>1
    <3>2. /\ M[Len(M)].kind = "run" /\ M[Len(M)].task = t /\ M[Len(M)].value = two
      BY <1>1, <1>7, <2>3, <3>1
    <3>3. /\ Len(M) \in Nat /\ Len(M) \in 1 .. Len(M)
          /\ \A j \in Len(M) + 1 .. Len(M) : FALSE
      BY <1>1, <1>3, <1>5, <2>3
    <3>4. LastRun(M, Len(M), t) = M[Len(M)].value
      BY <3>2, <3>3, LastRunIs
    <3> QED BY <2>1, <3>2, <3>4
  <2> QED BY <2>2, <2>3
<1>9. ASSUME NEW u, u # t PROVE Own(n, u)' = Own(n, u)
  <2>1. Own(n, u)' = LastRun(M, Len(M), u) /\ Own(n, u) = LastRun(L, Len(L), u)
    BY <1>50
  <2>2. ASSUME NEW i \in Len(L) + 1 .. Len(M)
        PROVE  ~ (M[i].kind = "run" /\ M[i].task = u)
    <3>1. CASE i <= Len(L) + k
      <4>1. i \in Len(L) + 1 .. Len(L) + k
        BY <1>3, <1>5, <3>1
      <4> QED BY <1>6, <4>1
    <3>2. CASE i > Len(L) + k
      <4>1. i \in Len(L) + k + 1 .. Len(M)
        BY <1>1, <1>3, <1>5, <3>2
      <4> QED BY <1>1, <1>7, <1>9, <4>1
    <3> QED BY <1>3, <1>5, <3>1, <3>2
  <2>3. /\ Len(L) \in Nat /\ Len(M) \in Nat /\ Len(L) <= Len(M)
        /\ \A i \in 1 .. Len(L) : L[i] = M[i]
    BY <1>1, <1>3, <1>4, <1>5
  <2>4. LastRun(M, Len(M), u) = LastRun(L, Len(L), u)
    <3>1. LastRun(M, Len(M), u) = LastRun(M, Len(L), u)
      BY ONLY <2>2, <2>3, LastRunBefore
    <3>2. LastRun(M, Len(L), u) = LastRun(L, Len(L), u)
      BY ONLY <2>3, LastRunSame
    <3> QED BY <3>1, <3>2
  <2> QED BY <2>1, <2>4
<1>10. ASSUME NEW m \in Peer \ {n}
       PROVE  ops'[m] = ops[m] /\ \A u : Own(m, u)' = Own(m, u)
  <2>1. ops'[m] = ops[m] /\ have'[m][m] = have[m][m]
    BY <1>52
  <2> QED BY <2>1 DEF Own, RunOf
<1>11. ASSUME NEW i \in 1 .. Len(M), M[i].kind = "run"
       PROVE  \/ i \in 1 .. Len(L) /\ M[i] = L[i]
              \/ /\ M[i].task = t
                 /\ (M[i].value = two /\ (two # one \/ one # old)) \/ (M[i].value = one /\ one # old)
  <2>1. CASE i \in 1 .. Len(L)
    BY <1>4, <2>1
  <2>2. CASE i \in Len(L) + 1 .. Len(L) + k
    BY <1>6, <1>11, <2>2
  <2>3. CASE i \in Len(L) + k + 1 .. Len(M)
    BY <1>1, <1>7, <2>3
  <2> QED BY <1>1, <1>3, <1>5, <2>1, <2>2, <2>3
<1> QED BY <1>4, <1>8, <1>9, <1>10, <1>11 DEF old, L, M

-----------------------------------------------------------------------------
(* Generations.                                                            *)

Descr(run) ==
    \/ run = NoRun
    \/ /\ run.gen \in Nat \ {0}
       /\ run.state = "queued" => run.start = 0

\* What may follow a descriptor: a later generation, or the same one of the
\* same session, where the old one named a session.
Follows(old, new) ==
    /\ Descr(new)
    /\ \/ new = old
       \/ /\ new.gen \in Nat \ {0}
          /\ \/ new.gen > old.gen
             \/ new.gen = old.gen /\ (old.start # 0 => new.start = old.start)

\* A descriptor in a log is of an earlier generation than the last one, or of
\* the same session.
Older(a, run) ==
    /\ a.gen \in Nat \ {0}
    /\ a.gen <= run.gen
    /\ a.gen = run.gen /\ a.start # 0 => a.start = run.start

Agree(a, b) == a.gen = b.gen /\ a.start # 0 /\ b.start # 0 => a.start = b.start

GensKept ==
    \A n \in Peer :
        /\ \A t : Descr(Own(n, t))
        /\ \A i \in 1 .. Len(ops[n]) : ops[n][i].kind = "run" =>
              \A t : ops[n][i].task = t => Older(ops[n][i].value, Own(n, t))
        /\ \A i, j \in 1 .. Len(ops[n]) :
              /\ ops[n][i].kind = "run" /\ ops[n][j].kind = "run"
              /\ ops[n][i].task = ops[n][j].task
              => Agree(ops[n][i].value, ops[n][j].value)

LEMMA TopIs ==
  ASSUME IsFiniteSet(Peer), LogsShaped, GensKept, NEW n \in Peer, NEW t
  PROVE  TopGen(n, t) \in Nat /\ Own(n, t).gen \in Nat /\ Own(n, t).gen <= TopGen(n, t)
<1> DEFINE T == {RunOf(n, t, m).gen : m \in Peer}
<1>1. ASSUME NEW m \in Peer PROVE RunOf(n, t, m).gen \in Nat
  <2>1. RunOf(n, t, m) = LastRun(ops[m], have[n][m], t)
    BY RunOfIs
  <2>2. /\ have[n][m] \in Nat /\ have[n][m] <= Len(ops[m]) /\ Len(ops[m]) \in Nat
    BY DEF LogsShaped
  <2>3. \/ LastRun(ops[m], have[n][m], t) = NoRun
        \/ \E i \in Runs(ops[m], have[n][m], t) : LastRun(ops[m], have[n][m], t) = ops[m][i].value
    BY <2>2, LastRunIsThere
  <2>4. ASSUME NEW i \in Runs(ops[m], have[n][m], t) PROVE ops[m][i].value.gen \in Nat
    <3>1. i \in 1 .. Len(ops[m]) /\ ops[m][i].kind = "run"
      BY <2>2 DEF Runs
    <3> QED BY <3>1 DEF GensKept, Older
  <2> QED BY <2>1, <2>3, <2>4 DEF NoRun
<1>2. T \subseteq Nat /\ T # {} /\ Own(n, t).gen \in T
  BY <1>1 DEF Own
<1>3. IsFiniteSet(T)
  <2> DEFINE gen == [m \in Peer |-> RunOf(n, t, m).gen]
  <2>1. gen \in [Peer -> T] /\ \A x \in T : \E m \in Peer : gen[m] = x
    OBVIOUS
  <2> HIDE DEF gen, T
  <2>2. gen \in Surjection(Peer, T)
    BY <2>1 DEF Surjection
  <2> QED BY <2>2, FS_Surjection
<1>4. Max(T) \in T /\ \A y \in T : y <= Max(T)
  <2> HIDE DEF T
  <2> QED BY <1>2, <1>3, FiniteGreatest
<1> QED BY <1>2, <1>4 DEF TopGen

LEMMA DescriptorFollows ==
  ASSUME NEW old, NEW top \in Nat, NEW start, NEW state, Descr(old),
         old.gen \in Nat, old.gen <= top, state = "queued" => start = 0
  PROVE  LET new == Descriptor(old, top, start, state)
         IN  /\ Follows(old, new)
             /\ new.start = start /\ new.state = state
<1> DEFINE new == Descriptor(old, top, start, state)
<1>1. /\ new.gen = IF IsNewRun(old, start) THEN top + 1 ELSE old.gen
      /\ new.start = start /\ new.state = state
  BY DEF Descriptor
<1> HIDE DEF new
<1>2. ASSUME IsNewRun(old, start) PROVE Follows(old, new)
  BY <1>1, <1>2 DEF Follows, Descr
<1>3. ASSUME ~ IsNewRun(old, start) PROVE Follows(old, new)
  <2>1. old # NoRun /\ (old.start = start \/ old.state = "queued")
    BY <1>3 DEF IsNewRun
  <2>2. old.gen \in Nat \ {0} /\ (old.state = "queued" => old.start = 0)
    BY <2>1 DEF Descr
  <2> QED BY <1>1, <1>3, <2>1, <2>2 DEF Follows, Descr
<1> QED BY <1>1, <1>2, <1>3 DEF new

LEMMA FollowsItself ==
  ASSUME NEW run, Descr(run)
  PROVE  Follows(run, run)
BY DEF Follows

LEMMA StateOfIs ==
  ASSUME NEW status
  PROVE  /\ StateOf(status) \in {"running", "failed", "finished"}
         /\ StateOf(status) = "running" <=> status = "active"
BY DEF StateOf

LEMMA SavedFollows ==
  ASSUME NEW old, NEW top \in Nat, Descr(old), old.gen \in Nat, old.gen <= top
  PROVE  /\ \A here, same, l : Follows(old, TaskSaved(old, top, here, same, l))
         /\ \A l, s : Follows(old, SessionSaved(old, top, l, s))
         /\ \A s : Follows(old, SessionLinked(old, top, s))
<1>1. \A start, state : (state = "queued" => start = 0) =>
         Follows(old, Descriptor(old, top, start, state))
  BY DescriptorFollows
<1>2. Follows(old, old)
  BY FollowsItself
<1>3. ASSUME NEW here, NEW same, NEW l
      PROVE  Follows(old, TaskSaved(old, top, here, same, l))
  <2>1. StateOf(SessionState(l)) # "queued"
    BY StateOfIs
  <2> QED BY <1>1, <1>2, <2>1 DEF TaskSaved
<1>4. ASSUME NEW l, NEW s PROVE Follows(old, SessionSaved(old, top, l, s))
  <2>1. StateOf(l.sessions[s]) # "queued"
    BY StateOfIs
  <2> QED BY <1>1, <1>2, <2>1 DEF SessionSaved
<1>5. ASSUME NEW s PROVE Follows(old, SessionLinked(old, top, s))
  BY <1>1 DEF SessionLinked
<1> QED BY <1>3, <1>4, <1>5

\* A write whose descriptors follow one another.
Does(n, t, one, two) ==
    /\ Follows(Own(n, t), one) /\ Follows(one, two)
    /\ \E first : Silent(first) /\ Write(n, first \o RunOps(t, Own(n, t), one, two))

LEMMA DoesKeeps ==
  ASSUME LogsShaped, GensKept, NEW n \in Peer, NEW t, NEW one, NEW two,
         Does(n, t, one, two)
  PROVE  /\ LogsShaped' /\ GensKept'
         /\ Own(n, t)' = two
         /\ \A u : u # t => Own(n, u)' = Own(n, u)
         /\ \A m \in Peer \ {n} : \A u : Own(m, u)' = Own(m, u)
<1> DEFINE old == Own(n, t)
<1>0. PICK first : Silent(first) /\ Write(n, first \o RunOps(t, Own(n, t), one, two))
  BY DEF Does
<1>1. /\ LogsShaped'
      /\ Own(n, t)' = two
      /\ \A u : u # t => Own(n, u)' = Own(n, u)
      /\ \A m \in Peer \ {n} : /\ ops'[m] = ops[m]
                               /\ \A u : Own(m, u)' = Own(m, u)
      /\ \A i \in 1 .. Len(ops'[n]) : ops'[n][i].kind = "run" =>
            \/ i \in 1 .. Len(ops[n]) /\ ops'[n][i] = ops[n][i]
            \/ /\ ops'[n][i].task = t
               /\ \/ ops'[n][i].value = two /\ (two # one \/ one # Own(n, t))
                  \/ ops'[n][i].value = one /\ one # Own(n, t)
  BY <1>0, Published
<1>2. /\ Descr(old) /\ Follows(old, one) /\ Follows(one, two)
      /\ Descr(one) /\ Descr(two)
  BY DEF GensKept, Does, Follows
<1>3. old.gen \in Nat /\ one.gen \in Nat /\ two.gen \in Nat
  BY <1>2 DEF Descr, NoRun
<1>4. \A i \in 1 .. Len(ops[n]) :
         ops[n][i].kind = "run" /\ ops[n][i].task = t => Older(ops[n][i].value, old)
  BY DEF GensKept
<1> HIDE DEF old
<1>5. ASSUME NEW a, Older(a, old) PROVE Older(a, one) /\ Older(a, two) /\ Agree(a, one) /\ Agree(a, two)
  <2>1. Older(a, one)
    BY <1>2, <1>3, <1>5 DEF Older, Follows
  <2>2. Older(a, two)
    BY <1>2, <1>3, <2>1 DEF Older, Follows
  <2> QED BY <2>1, <2>2 DEF Older, Agree
<1>6. one # old => Older(one, two) /\ Agree(one, two) /\ Agree(two, one)
  BY <1>2, <1>3 DEF Older, Follows, Agree
<1>7. \A i \in 1 .. Len(ops'[n]) : ops'[n][i].kind = "run" /\ ops'[n][i].task = t =>
        \/ /\ i \in 1 .. Len(ops[n]) /\ ops'[n][i] = ops[n][i]
           /\ Older(ops'[n][i].value, old)
        \/ ops'[n][i].value = two /\ two.gen # 0
        \/ ops'[n][i].value = one /\ one # old
  <2>1. two # one \/ one # old => two.gen # 0
    BY <1>2, <1>3 DEF Follows
  <2> QED BY <1>1, <1>4, <2>1 DEF old
<1>8. \A i \in 1 .. Len(ops'[n]) : ops'[n][i].kind = "run" /\ ops'[n][i].task = t =>
        Older(ops'[n][i].value, two)
  <2>1. two.gen # 0 => Older(two, two)
    BY <1>3 DEF Older
  <2> QED BY <1>5, <1>6, <1>7, <2>1
<1>9. \A i, j \in 1 .. Len(ops'[n]) :
        /\ ops'[n][i].kind = "run" /\ ops'[n][i].task = t
        /\ ops'[n][j].kind = "run" /\ ops'[n][j].task = t
        => Agree(ops'[n][i].value, ops'[n][j].value)
  <2>1. \A a, b : Agree(a, b) => Agree(b, a)
    BY DEF Agree
  <2>2. \A a : Agree(a, a)
    BY DEF Agree
  <2>3. ASSUME NEW i \in 1 .. Len(ops'[n]), NEW j \in 1 .. Len(ops'[n]),
               ops'[n][i].kind = "run", ops'[n][i].task = t,
               ops'[n][j].kind = "run", ops'[n][j].task = t
        PROVE  Agree(ops'[n][i].value, ops'[n][j].value)
    <3>1. PICK a : a = ops'[n][i].value
      OBVIOUS
    <3>2. PICK b : b = ops'[n][j].value
      OBVIOUS
    <3>3. \/ i \in 1 .. Len(ops[n]) /\ ops'[n][i] = ops[n][i] /\ Older(a, old)
          \/ a = two
          \/ a = one /\ one # old
      BY <1>7, <2>3, <3>1
    <3>4. \/ j \in 1 .. Len(ops[n]) /\ ops'[n][j] = ops[n][j] /\ Older(b, old)
          \/ b = two
          \/ b = one /\ one # old
      BY <1>7, <2>3, <3>2
    <3>5. ASSUME i \in 1 .. Len(ops[n]), ops'[n][i] = ops[n][i],
                 j \in 1 .. Len(ops[n]), ops'[n][j] = ops[n][j]
          PROVE  Agree(a, b)
      BY <2>3, <3>1, <3>2, <3>5 DEF GensKept
    <3>6. ASSUME Older(a, old) PROVE Agree(a, one) /\ Agree(a, two)
      BY ONLY <1>5, <3>6
    <3>7. ASSUME Older(b, old) PROVE Agree(one, b) /\ Agree(two, b)
      BY ONLY <1>5, <2>1, <3>7
    <3>8. one # old => Agree(one, two) /\ Agree(two, one)
      BY <1>6
    <3>9. Agree(a, b)
      BY ONLY <2>2, <3>3, <3>4, <3>5, <3>6, <3>7, <3>8
    <3> QED BY <3>1, <3>2, <3>9
  <2> QED BY <2>3
<1>10. GensKept'
  <2> DEFINE Kept(m) ==
        /\ \A u : Descr(Own(m, u)')
        /\ \A i \in 1 .. Len(ops'[m]) : ops'[m][i].kind = "run" =>
              \A u : ops'[m][i].task = u => Older(ops'[m][i].value, Own(m, u)')
        /\ \A i, j \in 1 .. Len(ops'[m]) :
              /\ ops'[m][i].kind = "run" /\ ops'[m][j].kind = "run"
              /\ ops'[m][i].task = ops'[m][j].task
              => Agree(ops'[m][i].value, ops'[m][j].value)
  <2>1. ASSUME NEW m \in Peer \ {n} PROVE Kept(m)
    <3>1. ops'[m] = ops[m] /\ \A u : Own(m, u)' = Own(m, u)
      BY <1>1
    <3> QED BY <3>1 DEF GensKept
  <2>2. Kept(n)
    <3>1. \A u : Descr(Own(n, u)')
      BY <1>1, <1>2 DEF GensKept
    <3>2. \A i \in 1 .. Len(ops'[n]) :
             ops'[n][i].kind = "run" /\ ops'[n][i].task # t =>
               i \in 1 .. Len(ops[n]) /\ ops'[n][i] = ops[n][i]
      BY <1>1
    <3>3. ASSUME NEW i \in 1 .. Len(ops'[n]), ops'[n][i].kind = "run",
                 NEW u, ops'[n][i].task = u
          PROVE  Older(ops'[n][i].value, Own(n, u)')
      <4>1. CASE u = t
        BY <1>1, <1>8, <3>3, <4>1
      <4>2. CASE u # t
        <5>1. /\ i \in 1 .. Len(ops[n]) /\ ops'[n][i] = ops[n][i]
              /\ Own(n, u)' = Own(n, u)
          BY <1>1, <3>2, <3>3, <4>2
        <5>2. Older(ops[n][i].value, Own(n, u))
          BY <3>3, <5>1 DEF GensKept
        <5> QED BY <5>1, <5>2
      <4> QED BY <4>1, <4>2
    <3>4. ASSUME NEW i \in 1 .. Len(ops'[n]), NEW j \in 1 .. Len(ops'[n]),
                 ops'[n][i].kind = "run", ops'[n][j].kind = "run",
                 ops'[n][i].task = ops'[n][j].task
          PROVE  Agree(ops'[n][i].value, ops'[n][j].value)
      <4>1. CASE ops'[n][i].task = t
        BY <1>9, <3>4, <4>1
      <4>2. CASE ops'[n][i].task # t
        <5>1. /\ i \in 1 .. Len(ops[n]) /\ ops'[n][i] = ops[n][i]
              /\ j \in 1 .. Len(ops[n]) /\ ops'[n][j] = ops[n][j]
          BY <3>2, <3>4, <4>2
        <5> QED BY <3>4, <5>1 DEF GensKept
      <4> QED BY <4>1, <4>2
    <3> QED BY ONLY <3>1, <3>3, <3>4
  <2>3. \A m \in Peer : Kept(m)
    <3> HIDE DEF Kept
    <3> QED BY <2>1, <2>2
  <2> QED BY <2>3 DEF GensKept
<1> QED BY <1>1, <1>10

-----------------------------------------------------------------------------
(* What the node does itself.                                              *)

Status == {"active", "closed", "crashed"}
Local == [queued : BOOLEAN, due : BOOLEAN, cur : Nat, sessions : Seq(Status),
          owed : Int]
LocalIs(l) == l \in Local /\ l.cur \in 0 .. Len(l.sessions)

\* A descriptor and the fields it is about: DescriptorTellsRun, and that a run
\* that waits has no session.
Tells(run, l) ==
    /\ Running(l) => \/ run.state = "running" /\ run.start = l.cur
                     \/ run.state = "queued"
    /\ run.state = "queued" => l.queued /\ run.start = 0
    /\ run.state = "running" => /\ run.start \in DOMAIN l.sessions
                                /\ l.sessions[run.start] = "active"

LocalsTell ==
    /\ local \in [Peer -> [Work -> Local]]
    /\ \A n \in Peer, t \in Work :
          LocalIs(local[n][t]) /\ Tells(Own(n, t), local[n][t])

RunInv == LogsShaped /\ GensKept /\ LocalsTell

LEMMA GreaterOfTwo ==
  ASSUME NEW a \in Nat, NEW b \in Nat
  PROVE  Max({a, b}) \in Nat /\ b <= Max({a, b})
<1>1. /\ {a, b} \subseteq Int /\ {a, b} # {} /\ a + b \in Int
      /\ \A x \in {a, b} : x <= a + b
  OBVIOUS
<1>2. Max({a, b}) \in {a, b} /\ \A y \in {a, b} : y <= Max({a, b})
  BY <1>1, GreatestOne
<1> QED BY <1>2

\* The task may be one that is not listed here: its fields are not, then.
LEMMA StepTells ==
  ASSUME RunInv, NEW n \in Peer, NEW t, NEW one, NEW two, NEW l,
         Does(n, t, one, two), SetLocal(n, t, l),
         t \in Work => LocalIs(l) /\ Tells(two, l)
  PROVE  RunInv'
<1>1. /\ LogsShaped' /\ GensKept'
      /\ Own(n, t)' = two
      /\ \A u : u # t => Own(n, u)' = Own(n, u)
      /\ \A m \in Peer \ {n} : \A u : Own(m, u)' = Own(m, u)
  BY DoesKeeps DEF RunInv
<1>2. local' = [local EXCEPT ![n][t] = l] /\ local \in [Peer -> [Work -> Local]]
  BY DEF SetLocal, RunInv, LocalsTell
<1>3. ASSUME NEW m \in Peer, NEW u \in Work
      PROVE  /\ m = n /\ u = t => local'[m][u] = l
             /\ m # n \/ u # t => local'[m][u] = local[m][u]
  BY <1>2
<1>4. ASSUME NEW m \in Peer, NEW u \in Work
      PROVE  LocalIs(local'[m][u]) /\ Tells(Own(m, u)', local'[m][u])
  <2>1. CASE m = n /\ u = t
    BY <1>1, <1>3, <2>1
  <2>2. CASE m # n \/ u # t
    <3>1. local'[m][u] = local[m][u] /\ Own(m, u)' = Own(m, u)
      BY <1>1, <1>3, <2>2
    <3> QED BY <3>1 DEF RunInv, LocalsTell
  <2> QED BY <2>1, <2>2
<1>5. local' \in [Peer -> [Work -> Local]]
  <2>1. DOMAIN local' = Peer /\ \A m \in Peer : DOMAIN local'[m] = Work
    BY <1>2
  <2>2. local' = [m \in Peer |-> local'[m]]
    BY <1>2
  <2>3. ASSUME NEW m \in Peer PROVE local'[m] \in [Work -> Local]
    <3>1. local'[m] = [u \in Work |-> local'[m][u]]
      <4>1. CASE m = n
        BY <1>2, <4>1
      <4>2. CASE m # n
        BY <1>2, <4>2
      <4> QED BY <4>1, <4>2
    <3>2. \A u \in Work : local'[m][u] \in Local
      BY <1>4 DEF LocalIs
    <3> QED BY <3>1, <3>2
  <2> QED BY <2>2, <2>3
<1>6. LocalsTell'
  BY <1>4, <1>5 DEF LocalsTell
<1> QED BY <1>1, <1>6 DEF RunInv

\* Operations that are no descriptors; nothing changes here.
LEMMA QuietTells ==
  ASSUME RunInv, NEW n \in Peer, NEW first, Silent(first), Write(n, first),
         UNCHANGED local
  PROVE  RunInv'
<1> DEFINE old == Own(n, 0)
<1>1. first \o RunOps(0, old, old, old) = first
  <2>1. RunOps(0, old, old, old) = <<>>
    <3>1. <<>> \o <<>> = <<>>
      OBVIOUS
    <3> QED BY <3>1 DEF RunOps
  <2>2. PICK S : first \in Seq(S)
    BY DEF Silent, IsSeq
  <2>3. first \o <<>> = first
    BY <2>2
  <2> QED BY <2>1, <2>3
<1>2. Follows(old, old)
  BY FollowsItself DEF RunInv, GensKept
<1>3. Does(n, 0, old, old)
  BY <1>1, <1>2 DEF Does
<1> HIDE DEF old
<1>4. /\ LogsShaped' /\ GensKept'
      /\ Own(n, 0)' = old
      /\ \A u : u # 0 => Own(n, u)' = Own(n, u)
      /\ \A m \in Peer \ {n} : \A u : Own(m, u)' = Own(m, u)
  <2>1. LogsShaped /\ GensKept
    BY DEF RunInv
  <2> QED BY <1>3, <2>1, DoesKeeps
<1>5. \A m \in Peer : \A u : Own(m, u)' = Own(m, u)
  BY <1>4 DEF old
<1>6. LocalsTell'
  BY <1>5 DEF LocalsTell, RunInv
<1> QED BY <1>4, <1>6 DEF RunInv

LEMMA NothingWritten ==
  ASSUME LogsShaped, GensKept, UNCHANGED <<ops, have>>
  PROVE  LogsShaped' /\ GensKept' /\ \A m, u : Own(m, u)' = Own(m, u)
<1>1. ops' = ops /\ have' = have
  OBVIOUS
<1>2. \A m, u : Own(m, u)' = Own(m, u)
  BY <1>1 DEF Own, RunOf
<1>3. LogsShaped'
  BY <1>1 DEF LogsShaped
<1>4. GensKept'
  BY <1>1, <1>2 DEF GensKept
<1> QED BY <1>2, <1>3, <1>4

\* Fields that change without a write.
LEMMA LocalTells ==
  ASSUME RunInv, NEW n \in Peer, NEW t \in Work, NEW l, SetLocal(n, t, l),
         UNCHANGED <<ops, have>>, LocalIs(l), Tells(Own(n, t), l)
  PROVE  RunInv'
<1>1. local' = [local EXCEPT ![n][t] = l] /\ local \in [Peer -> [Work -> Local]]
  BY DEF SetLocal, RunInv, LocalsTell
<1>2. l \in Local
  BY DEF LocalIs
<1>3. local' \in [Peer -> [Work -> Local]]
  BY <1>1, <1>2
<1>4. \A m, u : Own(m, u)' = Own(m, u)
  BY DEF Own, RunOf
<1>5. LogsShaped' /\ GensKept'
  BY NothingWritten DEF RunInv
<1>6. ASSUME NEW m \in Peer, NEW u \in Work
      PROVE  LocalIs(local'[m][u]) /\ Tells(Own(m, u)', local'[m][u])
  <2>1. CASE m = n /\ u = t
    BY <1>1, <1>4, <2>1
  <2>2. CASE m # n \/ u # t
    <3>1. local'[m][u] = local[m][u]
      BY <1>1, <2>2
    <3> QED BY <1>4, <3>1 DEF RunInv, LocalsTell
  <2> QED BY <2>1, <2>2
<1> QED BY <1>3, <1>5, <1>6 DEF RunInv, LocalsTell

LEMMA SameTells ==
  ASSUME RunInv, UNCHANGED <<ops, have, local>>
  PROVE  RunInv'
<1>1. LogsShaped' /\ GensKept' /\ \A m, u : Own(m, u)' = Own(m, u)
  BY NothingWritten DEF RunInv
<1>2. LocalsTell'
  BY <1>1 DEF RunInv, LocalsTell
<1> QED BY <1>1, <1>2 DEF RunInv

LEMMA ReceiveTells ==
  ASSUME RunInv, NEW n \in Peer, NEW m \in Peer \ {n}, Receive(n, m)
  PROVE  RunInv'
<1>1. /\ have \in [Peer -> [Peer -> Nat]]
      /\ have' = [have EXCEPT ![n][m] = @ + 1]
      /\ have[n][m] < Len(ops[m]) /\ Len(ops[m]) \in Nat
      /\ ops' = ops /\ local' = local
  BY DEF Receive, RunInv, LogsShaped
<1>2. /\ have' \in [Peer -> [Peer -> Nat]]
      /\ have'[n][m] = have[n][m] + 1
      /\ \A k, h \in Peer : k # n \/ h # m => have'[k][h] = have[k][h]
  BY <1>1
<1>3. \A k \in Peer : \A u : Own(k, u)' = Own(k, u)
  BY <1>1, <1>2 DEF Own, RunOf
<1>4. \A k, h \in Peer : have'[k][h] <= Len(ops'[h])
  <2> SUFFICES ASSUME NEW k \in Peer, NEW h \in Peer
               PROVE  have'[k][h] <= Len(ops[h])
    BY <1>1
  <2>1. CASE k = n /\ h = m
    <3>1. have[n][m] \in Nat
      BY <1>1
    <3> QED BY <1>1, <1>2, <2>1, <3>1
  <2>2. CASE k # n \/ h # m
    BY <1>2, <2>2 DEF RunInv, LogsShaped
  <2> QED BY <2>1, <2>2
<1>5. LogsShaped'
  BY <1>1, <1>2, <1>4 DEF RunInv, LogsShaped
<1> QED BY <1>1, <1>3, <1>5 DEF RunInv, GensKept, LocalsTell

-----------------------------------------------------------------------------
(* The writes the operations make.                                         *)

LEMMA SilentOps ==
  /\ Silent(<<>>)
  /\ \A n, t, f, default, value : f # "run" => Silent(SetField(n, t, f, default, value))
  /\ \A n, t, m : Silent(Pin(n, t, m))
  /\ \A n, t : Silent(Unrequest(n, t))
  /\ \A n, t, action : Silent(<<Command(n, t, action)>>)
<1>1. Silent(<<>>)
  BY ShortSeq DEF Silent
<1>2. ASSUME NEW op, op.kind # "run" PROVE Silent(<<op>>)
  <2>1. IsSeq(<<op>>) /\ Len(<<op>>) = 1 /\ <<op>>[1] = op
    BY ShortSeq
  <2>2. \A i \in 1 .. 1 : i = 1
    OBVIOUS
  <2> QED BY <1>2, <2>1, <2>2 DEF Silent
<1>3. ASSUME NEW n, NEW t, NEW f, NEW default, NEW value, f # "run"
      PROVE  Silent(SetField(n, t, f, default, value))
  <2>1. OpOf(f, t, value).kind = f
    BY DEF OpOf
  <2> QED BY <1>1, <1>2, <1>3, <2>1 DEF SetField
<1>4. ASSUME NEW n, NEW t, NEW action PROVE Silent(<<Command(n, t, action)>>)
  <2>1. Command(n, t, action).kind = "command"
    BY DEF Command, OpOf
  <2> QED BY <1>2, <2>1
<1> QED BY <1>1, <1>3, <1>4 DEF Pin, Unrequest

LEMMA SilentBoth ==
  ASSUME NEW s, NEW u, Silent(s), Silent(u)
  PROVE  Silent(s \o u)
<1>1. /\ IsSeq(s \o u)
      /\ Len(s) \in Nat /\ Len(u) \in Nat /\ Len(s \o u) = Len(s) + Len(u)
      /\ \A i \in 1 .. Len(s) : (s \o u)[i] = s[i]
      /\ \A i \in 1 .. Len(u) : (s \o u)[Len(s) + i] = u[i]
  BY JoinedSeq DEF Silent
<1>2. ASSUME NEW i \in 1 .. Len(s \o u) PROVE (s \o u)[i].kind # "run"
  <2>1. CASE i \in 1 .. Len(s)
    BY <1>1, <2>1 DEF Silent
  <2>2. CASE i \in Len(s) + 1 .. Len(s) + Len(u)
    <3>1. i - Len(s) \in 1 .. Len(u) /\ i = Len(s) + (i - Len(s))
      BY <1>1, <2>2
    <3>2. (s \o u)[i] = u[i - Len(s)]
      BY <1>1, <3>1
    <3> QED BY <3>1, <3>2 DEF Silent
  <2> QED BY <1>1, <2>1, <2>2
<1> QED BY <1>1, <1>2 DEF Silent

LEMMA OnlyRunOps ==
  ASSUME NEW t, NEW old, NEW one, NEW two
  PROVE  <<>> \o RunOps(t, old, one, two) = RunOps(t, old, one, two)
<1>1. PICK S : RunOps(t, old, one, two) \in Seq(S)
  BY RunOpsAre DEF IsSeq
<1> QED BY <1>1

LEMMA OwnIs ==
  ASSUME IsFiniteSet(Peer), RunInv, NEW n \in Peer, NEW t
  PROVE  /\ TopGen(n, t) \in Nat
         /\ Descr(Own(n, t)) /\ Own(n, t).gen \in Nat /\ Own(n, t).gen <= TopGen(n, t)
BY TopIs DEF RunInv, GensKept

LEMMA StatesAre ==
  ASSUME NEW l, LocalIs(l)
  PROVE  /\ l.cur \in DOMAIN l.sessions => SessionState(l) \in Status
         /\ SessionState(l) = "none" <=> l.cur = 0
         /\ Running(l) <=> l.cur # 0 /\ l.sessions[l.cur] = "active"
<1>1. /\ l.sessions \in Seq(Status) /\ l.cur \in 0 .. Len(l.sessions)
      /\ DOMAIN l.sessions = 1 .. Len(l.sessions)
  BY DEF LocalIs, Local
<1>2. l.cur \in DOMAIN l.sessions <=> l.cur # 0
  BY <1>1
<1>3. l.cur \in DOMAIN l.sessions => l.sessions[l.cur] \in Status
  BY <1>1
<1> QED BY <1>2, <1>3 DEF SessionState, Running, Status

\* A task is saved with the sessions it had, and its own one or none.
LEMMA TaskSavedTells ==
  ASSUME IsFiniteSet(Peer), RunInv, NEW n \in Peer, NEW t, NEW l, NEW m,
         NEW first, Silent(first), SaveTask(n, t, l, m, first),
         t \in Work => /\ l \in Local /\ l.sessions = local[n][t].sessions
                       /\ l.cur \in {0, local[n][t].cur}
  PROVE  RunInv'
<1> DEFINE old == Own(n, t)
           here == l.queued /\ m = n
           same == l.queued = local[n][t].queued
           run == TaskSaved(old, TopGen(n, t), here, same, l)
<1>1. /\ TopGen(n, t) \in Nat
      /\ Descr(old) /\ old.gen \in Nat /\ old.gen <= TopGen(n, t)
  BY OwnIs
<1>2. SetLocal(n, t, l) /\ Write(n, first \o RunOps(t, old, run, run))
  BY DEF SaveTask
<1>3. Follows(old, run) /\ Follows(run, run)
  <2>1. Follows(old, run)
    <3> HIDE DEF old, here, same
    <3> QED BY <1>1, SavedFollows
  <2> QED BY <2>1, FollowsItself DEF Follows
<1>4. Does(n, t, run, run)
  BY <1>2, <1>3 DEF Does
<1>5. ASSUME t \in Work PROVE LocalIs(l) /\ Tells(run, l)
  <2>1. LocalIs(local[n][t]) /\ Tells(old, local[n][t])
    BY <1>5 DEF RunInv, LocalsTell
  <2>20. PICK was : was = local[n][t]
    OBVIOUS
  <2>21. /\ LocalIs(was) /\ l \in Local /\ l.sessions = was.sessions
          /\ l.cur \in {0, was.cur}
    BY <1>5, <2>1, <2>20
  <2>2. LocalIs(l)
    <3>1. Len(was.sessions) \in Nat /\ was.cur \in 0 .. Len(was.sessions)
      BY <2>21 DEF LocalIs, Local
    <3>2. l.cur \in 0 .. Len(was.sessions)
      BY <2>21, <3>1
    <3> QED BY <2>21, <3>2 DEF LocalIs
  <2>3. Running(l) => Running(local[n][t]) /\ l.cur = local[n][t].cur
    <3>1. Running(l) <=> l.cur # 0 /\ l.sessions[l.cur] = "active"
      BY <2>2, StatesAre
    <3>2. Running(was) <=> was.cur # 0 /\ was.sessions[was.cur] = "active"
      BY <2>21, StatesAre
    <3> QED BY <2>20, <2>21, <3>1, <3>2
  <2>4. SessionState(l) = "none" <=> l.cur = 0
    BY <2>2, StatesAre
  <2>5. Running(l) <=> l.cur # 0 /\ l.sessions[l.cur] = "active"
    BY <2>2, StatesAre
  <2>6. old.state = "queued" => old.start = 0
    BY <1>1 DEF Descr, NoRun
  <2>7. Tells(old, local[n][t]) /\ NoRun.state = "none"
    BY <2>1 DEF NoRun
  <2>8. l.cur # 0 => l.cur \in DOMAIN l.sessions /\ SessionState(l) = l.sessions[l.cur]
    BY <2>2 DEF LocalIs, Local, SessionState
  <2>9. /\ l.sessions = local[n][t].sessions
        /\ \A start, state :
              /\ Descriptor(old, TopGen(n, t), start, state).start = start
              /\ Descriptor(old, TopGen(n, t), start, state).state = state
    BY <1>5 DEF Descriptor
  <2>10. CASE here
    <3>1. l.queued
      BY <2>10
    <3>2. CASE same /\ old = NoRun
      <4>1. run = NoRun
        BY <2>10, <3>2 DEF TaskSaved
      <4>2. ~ Running(l)
        BY <2>3, <2>7, <3>2 DEF Tells, NoRun
      <4> QED BY <2>2, <4>1, <4>2 DEF Tells, NoRun
    <3>3. CASE ~ (same /\ old = NoRun)
      <4>1. run = Descriptor(old, TopGen(n, t), 0, "queued")
        BY <2>10, <3>3 DEF TaskSaved
      <4>2. run.state = "queued" /\ run.start = 0
        BY <2>9, <4>1
      <4> QED BY <2>2, <3>1, <4>2 DEF Tells
    <3> QED BY <3>2, <3>3
  <2>11. CASE ~ here /\ SessionState(l) = "none"
    <3>1. ~ Running(l)
      BY <2>11 DEF Running
    <3>2. CASE old.state = "queued"
      <4>1. run.state = "finished"
        BY <2>9, <2>11, <3>2 DEF TaskSaved
      <4> QED BY <2>2, <3>1, <4>1 DEF Tells
    <3>3. CASE old.state # "queued"
      <4>1. run = old
        BY <2>11, <3>3 DEF TaskSaved
      <4> HIDE DEF old, run
      <4> QED BY <2>2, <2>7, <2>9, <3>1, <3>3, <4>1 DEF Tells
    <3> QED BY <3>2, <3>3
  <2>12. CASE ~ here /\ SessionState(l) # "none"
    <3>1. run = Descriptor(old, TopGen(n, t), l.cur, StateOf(SessionState(l)))
      BY <2>12 DEF TaskSaved
    <3>2. run.start = l.cur /\ run.state = StateOf(SessionState(l))
      BY <2>9, <3>1
    <3>3. /\ run.state # "queued"
          /\ run.state = "running" <=> SessionState(l) = "active"
      BY <3>2, StateOfIs
    <3> HIDE DEF run, old
    <3> QED BY <2>2, <2>4, <2>8, <2>12, <3>2, <3>3 DEF Tells, Running
  <2> QED BY <2>10, <2>11, <2>12
<1> HIDE DEF run, old
<1> QED BY <1>2, <1>4, <1>5, StepTells

\* A session of the task ends.
LEMMA SessionEndTells ==
  ASSUME IsFiniteSet(Peer), RunInv, NEW n \in Peer, NEW t, NEW s,
         NEW status \in {"closed", "crashed"}, EndSession(n, t, s, status),
         t \in Work => s \in DOMAIN local[n][t].sessions
  PROVE  RunInv'
<1> DEFINE old == Own(n, t)
           was == local[n][t]
           l == [was EXCEPT !.sessions[s] = status,
                            !.owed = IF status = "crashed" THEN @ + 1 ELSE @]
           run == SessionSaved(old, TopGen(n, t), l, s)
<1>1. /\ TopGen(n, t) \in Nat
      /\ Descr(old) /\ old.gen \in Nat /\ old.gen <= TopGen(n, t)
  BY OwnIs
<1>2. SetLocal(n, t, l) /\ Write(n, RunOps(t, old, run, run))
  BY DEF EndSession
<1>3. Follows(old, run) /\ Follows(run, run)
  <2>1. Follows(old, run)
    <3> HIDE DEF old, l
    <3> QED BY <1>1, SavedFollows
  <2> QED BY <2>1, FollowsItself DEF Follows
<1>4. Does(n, t, run, run)
  <2>1. Write(n, <<>> \o RunOps(t, old, run, run)) /\ Silent(<<>>)
    BY <1>2, OnlyRunOps, SilentOps
  <2> QED BY <1>3, <2>1 DEF Does
<1>5. ASSUME t \in Work PROVE LocalIs(l) /\ Tells(run, l)
  <2>1. LocalIs(was) /\ Tells(old, was) /\ s \in DOMAIN was.sessions
    BY <1>5 DEF RunInv, LocalsTell
  <2>2. was \in Local /\ was.sessions \in Seq(Status) /\ was.cur \in 0 .. Len(was.sessions)
    BY <2>1 DEF LocalIs, Local
  <2> HIDE DEF was, old
  <2>3. /\ l.sessions = [was.sessions EXCEPT ![s] = status]
        /\ l.cur = was.cur /\ l.queued = was.queued /\ l.due = was.due
        /\ l.owed = IF status = "crashed" THEN was.owed + 1 ELSE was.owed
    BY <2>2 DEF Local
  <2> HIDE DEF l
  <2>4. /\ l.sessions \in Seq(Status) /\ Len(l.sessions) = Len(was.sessions)
        /\ DOMAIN l.sessions = DOMAIN was.sessions
        /\ l.sessions[s] = status
        /\ \A r \in DOMAIN was.sessions \ {s} : l.sessions[r] = was.sessions[r]
    <3>1. status \in Status
      BY DEF Status
    <3> QED BY <2>1, <2>2, <2>3, <3>1
  <2>5. LocalIs(l)
    <3>1. l.owed \in Int /\ was.queued \in BOOLEAN /\ was.due \in BOOLEAN /\ was.cur \in Nat
      BY <2>2, <2>3 DEF Local
    <3>2. l \in Local
      BY <2>2, <2>3, <2>4, <3>1 DEF Local, l
    <3> QED BY <2>2, <2>3, <2>4, <3>2 DEF LocalIs
  <2>6. Running(l) <=> Running(was) /\ l.cur # s
    <3>1. Running(l) <=> l.cur # 0 /\ l.sessions[l.cur] = "active"
      BY <2>5, StatesAre
    <3>2. Running(was) <=> was.cur # 0 /\ was.sessions[was.cur] = "active"
      BY <2>1, StatesAre
    <3>3. was.cur # 0 => was.cur \in DOMAIN was.sessions
      BY <2>2
    <3>4. status # "active"
      OBVIOUS
    <3> QED BY <2>3, <2>4, <3>1, <3>2, <3>3, <3>4
  <2>7. s # 0
    BY <2>1, <2>2
  <2>8. CASE IsOutdated(old, s)
    <3>1. run = old /\ old.start # s
      BY <2>8 DEF SessionSaved, IsOutdated
    <3> HIDE DEF run
    <3> QED BY <2>1, <2>3, <2>4, <2>5, <2>6, <3>1 DEF Tells
  <2>9. CASE ~ IsOutdated(old, s)
    <3>1. old = NoRun \/ old.start = s
      BY <2>9 DEF IsOutdated
    <3>2. run = Descriptor(old, TopGen(n, t), s, StateOf(status))
      BY <2>4, <2>9 DEF SessionSaved
    <3>3. run.state # "queued" /\ run.state # "running"
      <4>1. run.state = StateOf(status)
        BY <3>2 DEF Descriptor
      <4> QED BY <4>1, StateOfIs
    <3> HIDE DEF run
    <3>4. ~ Running(l)
      <4>1. old = NoRun => ~ Running(was)
        BY <2>1 DEF Tells, NoRun
      <4>2. old.start = s => (Running(was) => was.cur = s)
        BY <2>1, <2>7 DEF Tells
      <4> QED BY <2>3, <2>6, <3>1, <4>1, <4>2
    <3> QED BY <2>5, <3>3, <3>4 DEF Tells
  <2> QED BY <2>8, <2>9
<1> HIDE DEF run, old, l
<1> QED BY <1>2, <1>4, <1>5, StepTells

\* A session is linked: the task's own from now on, or one that a dispatcher
\* leaves behind.
LEMMA LinkedIs ==
  ASSUME RunInv, NEW n \in Peer, NEW t \in Work
  PROVE  LET was == local[n][t]
             s == Len(was.sessions) + 1
         IN  /\ NextSession(n, t) = s /\ s \in Nat \ {0}
             /\ Append(was.sessions, "active") \in Seq(Status)
             /\ Len(Append(was.sessions, "active")) = s
             /\ Append(was.sessions, "active")[s] = "active"
             /\ \A r \in 1 .. Len(was.sessions) :
                   Append(was.sessions, "active")[r] = was.sessions[r]
             /\ LocalIs(was) /\ was \in Local /\ was.cur < s
             /\ Tells(Own(n, t), was)
<1> DEFINE was == local[n][t]
<1>1. /\ LocalIs(was) /\ was \in Local /\ Tells(Own(n, t), was)
      /\ was.sessions \in Seq(Status) /\ was.cur \in 0 .. Len(was.sessions)
  BY DEF RunInv, LocalsTell, LocalIs, Local
<1> HIDE DEF was
<1>2. "active" \in Status
  BY DEF Status
<1>3. /\ Append(was.sessions, "active") \in Seq(Status)
      /\ Len(was.sessions) \in Nat
      /\ Len(Append(was.sessions, "active")) = Len(was.sessions) + 1
      /\ Append(was.sessions, "active")[Len(was.sessions) + 1] = "active"
      /\ \A r \in 1 .. Len(was.sessions) :
            Append(was.sessions, "active")[r] = was.sessions[r]
  BY <1>1, <1>2
<1> QED BY <1>1, <1>3 DEF was, NextSession

LEMMA StartTells ==
  ASSUME IsFiniteSet(Peer), RunInv, NEW n \in Peer, NEW t \in Work,
         StartHere(n, t)
  PROVE  RunInv'
<1> DEFINE old == Own(n, t)
           was == local[n][t]
           named == [was EXCEPT !.queued = FALSE, !.due = FALSE,
                                !.cur = NextSession(n, t)]
           one == TaskSaved(old, TopGen(n, t), FALSE, FALSE, named)
           two == SessionLinked(one, Max({TopGen(n, t), one.gen}), named.cur)
           l == Linked(named)
           first == Pin(n, t, n) \o Unrequest(n, t)
                    \o SetField(n, t, "closed", FALSE, FALSE)
<1>1. SetLocal(n, t, l) /\ Write(n, first \o RunOps(t, old, one, two))
  BY DEF StartHere
<1>2. /\ TopGen(n, t) \in Nat
      /\ Descr(old) /\ old.gen \in Nat /\ old.gen <= TopGen(n, t)
  BY OwnIs
<1>3. Silent(first)
  <2>1. /\ Silent(Pin(n, t, n)) /\ Silent(Unrequest(n, t))
        /\ Silent(SetField(n, t, "closed", FALSE, FALSE))
    BY SilentOps
  <2>2. Silent(Pin(n, t, n) \o Unrequest(n, t))
    BY <2>1, SilentBoth
  <2> QED BY <2>1, <2>2, SilentBoth
<1>4. Follows(old, one) /\ Follows(one, two)
  <2>1. Follows(old, one)
    <3> HIDE DEF old, named
    <3> QED BY <1>2, SavedFollows
  <2>2. Descr(one) /\ one.gen \in Nat
    <3> HIDE DEF old, one
    <3> QED BY <2>1 DEF Follows, Descr, NoRun
  <2>3. /\ Max({TopGen(n, t), one.gen}) \in Nat
        /\ one.gen <= Max({TopGen(n, t), one.gen})
    <3> HIDE DEF one
    <3> QED BY <1>2, <2>2, GreaterOfTwo
  <2>4. Follows(one, two)
    <3> HIDE DEF one, named
    <3> QED BY <2>2, <2>3, SavedFollows
  <2> QED BY <2>1, <2>4
<1>5. Does(n, t, one, two)
  BY <1>1, <1>3, <1>4 DEF Does
<1>6. LocalIs(l) /\ Tells(two, l)
  <2>1. PICK s : s = Len(was.sessions) + 1
    OBVIOUS
  <2>2. PICK grown : grown = Append(was.sessions, "active")
    OBVIOUS
  <2>3. /\ NextSession(n, t) = s /\ s \in Nat \ {0}
        /\ grown \in Seq(Status) /\ Len(grown) = s /\ grown[s] = "active"
        /\ was \in Local
    BY <2>1, <2>2, LinkedIs
  <2>4. two.state = "running" /\ two.start = named.cur
    BY DEF SessionLinked, Descriptor
  <2> HIDE DEF was, two
  <2>5. /\ l.cur = s /\ l.sessions = grown /\ l \in Local /\ named.cur = s
    BY <2>2, <2>3 DEF Linked, Local
  <2> HIDE DEF l, named
  <2>6. LocalIs(l) /\ s \in DOMAIN grown
    BY <2>3, <2>5 DEF LocalIs
  <2> QED BY <2>3, <2>4, <2>5, <2>6 DEF Tells
<1> HIDE DEF one, two, l, first
<1> QED BY <1>1, <1>5, <1>6, StepTells

LEMMA ClaimTells ==
  ASSUME IsFiniteSet(Peer), RunInv, NEW n \in Peer, NEW killed \in BOOLEAN,
         Claim(n, killed)
  PROVE  RunInv'
<1> DEFINE t == walk[n]
           old == Own(n, t)
           was == local[n][t]
           s == NextSession(n, t)
           one == SessionLinked(old, TopGen(n, t), s)
           l == IF killed THEN Linked(was)
                ELSE [Linked(was) EXCEPT !.queued = FALSE, !.cur = s]
           more == TaskSaved(one, Max({TopGen(n, t), one.gen}), FALSE, FALSE, l)
           two == IF killed THEN one ELSE more
<1>1. SetLocal(n, t, l) /\ Write(n, RunOps(t, old, one, two)) /\ MayClaim(n, t)
  BY DEF Claim
<1>2. /\ TopGen(n, t) \in Nat
      /\ Descr(old) /\ old.gen \in Nat /\ old.gen <= TopGen(n, t)
  BY OwnIs
<1>3. Follows(old, one)
  <2> HIDE DEF old, s
  <2> QED BY <1>2, SavedFollows
<1>4. Follows(one, two)
  <2>1. Descr(one) /\ one.gen \in Nat
    BY <1>3 DEF Follows, Descr, NoRun
  <2>2. /\ Max({TopGen(n, t), one.gen}) \in Nat
        /\ one.gen <= Max({TopGen(n, t), one.gen})
    <3> HIDE DEF one
    <3> QED BY <1>2, <2>1, GreaterOfTwo
  <2>3. Follows(one, more)
    <3> HIDE DEF one, l
    <3> QED BY <2>1, <2>2, SavedFollows
  <2>4. Follows(one, one)
    BY <2>1, FollowsItself
  <2> QED BY <2>3, <2>4
<1>5. Does(n, t, one, two)
  <2>1. Write(n, <<>> \o RunOps(t, old, one, two)) /\ Silent(<<>>)
    BY <1>1, OnlyRunOps, SilentOps
  <2> QED BY <1>3, <1>4, <2>1 DEF Does
<1>6. ASSUME t \in Work PROVE LocalIs(l) /\ Tells(two, l)
  <2>2. PICK grown : grown = Append(was.sessions, "active")
    OBVIOUS
  <2>3. /\ s \in Nat \ {0} /\ Len(was.sessions) + 1 = s
        /\ grown \in Seq(Status) /\ Len(grown) = s /\ grown[s] = "active"
        /\ was \in Local /\ LocalIs(was) /\ was.cur < s
        /\ \A r \in 1 .. Len(was.sessions) : grown[r] = was.sessions[r]
    BY <1>6, <2>2, LinkedIs
  <2>4. one.state = "running" /\ one.start = s
    BY DEF SessionLinked, Descriptor
  <2>5. was.queued /\ ~ Running(was)
    BY <1>1 DEF MayClaim
  <2>6. s \in DOMAIN grown
    BY <2>3
  <2> HIDE DEF was, s
  <2>7. CASE killed
    <3>1. /\ l.cur = was.cur /\ l.sessions = grown /\ l.queued /\ l \in Local
      BY <2>2, <2>3, <2>5, <2>7 DEF Linked, Local
    <3>2. LocalIs(l)
      <4>1. was.cur \in Nat
        BY <2>3 DEF Local
      <4> HIDE DEF l
      <4> QED BY <2>3, <3>1, <4>1 DEF LocalIs
    <3>3. ~ Running(l)
      <4> HIDE DEF l
      <4>1. /\ Running(l) <=> l.cur # 0 /\ l.sessions[l.cur] = "active"
            /\ Running(was) <=> was.cur # 0 /\ was.sessions[was.cur] = "active"
        BY <2>3, <3>2, StatesAre
      <4>2. was.cur \in 0 .. Len(was.sessions)
        BY <2>3 DEF LocalIs
      <4>3. was.cur # 0 => was.cur \in 1 .. Len(was.sessions)
        BY <4>2
      <4> QED BY <2>3, <2>5, <3>1, <4>1, <4>3
    <3>4. two.state = "running" /\ two.start = s
      BY <2>4, <2>7
    <3> HIDE DEF l, two
    <3> QED BY <2>3, <2>6, <3>1, <3>2, <3>3, <3>4 DEF Tells
  <2>8. CASE ~ killed
    <3>1. /\ l.cur = s /\ l.sessions = grown /\ l \in Local
      BY <2>2, <2>3, <2>8 DEF Linked, Local
    <3>2. LocalIs(l)
      <4> HIDE DEF l
      <4> QED BY <2>3, <3>1 DEF LocalIs
    <3>3. SessionState(l) = "active"
      <4> HIDE DEF l
      <4> QED BY <2>3, <2>6, <3>1 DEF SessionState
    <3>4. more.start = s /\ more.state = StateOf("active")
      <4>1. more = Descriptor(one, Max({TopGen(n, t), one.gen}), l.cur, StateOf("active"))
        <5> HIDE DEF l, one
        <5> QED BY <3>3 DEF TaskSaved
      <4>2. more.start = l.cur /\ more.state = StateOf("active")
        <5> HIDE DEF more, l, one
        <5> QED BY <4>1 DEF Descriptor
      <4> HIDE DEF more, l
      <4> QED BY <3>1, <4>2
    <3>5. two.state = "running" /\ two.start = s
      BY <2>8, <3>4, StateOfIs DEF StateOf
    <3> HIDE DEF l, two
    <3> QED BY <2>3, <2>6, <3>1, <3>2, <3>5 DEF Tells
  <2> QED BY <2>7, <2>8
<1> HIDE DEF one, two, l, t
<1> QED BY <1>1, <1>5, <1>6, StepTells

LEMMA Fields ==
  ASSUME NEW was \in Local
  PROVE  /\ \A q, d \in BOOLEAN :
              /\ [was EXCEPT !.queued = q, !.due = d] \in Local
              /\ [was EXCEPT !.queued = q, !.due = d].sessions = was.sessions
              /\ [was EXCEPT !.queued = q, !.due = d].cur = was.cur
         /\ \A q, d \in BOOLEAN :
              /\ [was EXCEPT !.due = d, !.queued = q] \in Local
              /\ [was EXCEPT !.due = d, !.queued = q].sessions = was.sessions
              /\ [was EXCEPT !.due = d, !.queued = q].cur = was.cur
         /\ LET none == [was EXCEPT !.queued = TRUE, !.due = FALSE, !.cur = 0]
            IN  none \in Local /\ none.sessions = was.sessions /\ none.cur = 0
         /\ LET paid == [was EXCEPT !.owed = @ - 1]
            IN  /\ paid \in Local /\ paid.sessions = was.sessions
                /\ paid.cur = was.cur /\ paid.queued = was.queued
<1>1. /\ was.queued \in BOOLEAN /\ was.due \in BOOLEAN /\ was.cur \in Nat
      /\ was.sessions \in Seq(Status) /\ was.owed \in Int
  BY DEF Local
<1>2. ASSUME NEW q \in BOOLEAN, NEW d \in BOOLEAN
      PROVE  /\ [was EXCEPT !.queued = q, !.due = d] \in Local
             /\ [was EXCEPT !.queued = q, !.due = d].sessions = was.sessions
             /\ [was EXCEPT !.queued = q, !.due = d].cur = was.cur
  BY <1>1 DEF Local
<1>3. ASSUME NEW q \in BOOLEAN, NEW d \in BOOLEAN
      PROVE  /\ [was EXCEPT !.due = d, !.queued = q] \in Local
             /\ [was EXCEPT !.due = d, !.queued = q].sessions = was.sessions
             /\ [was EXCEPT !.due = d, !.queued = q].cur = was.cur
  BY <1>1 DEF Local
<1>4. LET none == [was EXCEPT !.queued = TRUE, !.due = FALSE, !.cur = 0]
      IN  none \in Local /\ none.sessions = was.sessions /\ none.cur = 0
  BY <1>1 DEF Local
<1>5. LET paid == [was EXCEPT !.owed = @ - 1]
      IN  /\ paid \in Local /\ paid.sessions = was.sessions
          /\ paid.cur = was.cur /\ paid.queued = was.queued
  BY <1>1 DEF Local
<1> QED BY <1>2, <1>3, <1>4, <1>5

LEMMA WasLocal ==
  ASSUME RunInv, NEW n \in Peer, NEW t \in Work
  PROVE  local[n][t] \in Local
BY DEF RunInv, LocalsTell

LEMMA QueueTells ==
  ASSUME IsFiniteSet(Peer), RunInv, NEW n \in Peer, NEW t, NEW first,
         Silent(first), Queue(n, t, first)
  PROVE  RunInv'
<1> DEFINE l == [local[n][t] EXCEPT !.queued = TRUE, !.due = FALSE]
<1>1. SaveTask(n, t, l, n, first \o Unrequest(n, t))
  BY DEF Queue
<1>2. Silent(first \o Unrequest(n, t))
  BY SilentOps, SilentBoth
<1>3. t \in Work => /\ l \in Local /\ l.sessions = local[n][t].sessions
                    /\ l.cur \in {0, local[n][t].cur}
  BY WasLocal, Fields
<1> HIDE DEF l
<1> QED BY <1>1, <1>2, <1>3, TaskSavedTells

LEMMA DequeueTells ==
  ASSUME IsFiniteSet(Peer), RunInv, NEW n \in Peer, NEW t, NEW m,
         SaveTask(n, t, Dequeued(local[n][t]), m, <<>>)
  PROVE  RunInv'
<1> DEFINE l == Dequeued(local[n][t])
<1>1. SaveTask(n, t, l, m, <<>>) /\ Silent(<<>>)
  BY SilentOps
<1>2. t \in Work => /\ l \in Local /\ l.sessions = local[n][t].sessions
                    /\ l.cur \in {0, local[n][t].cur}
  BY WasLocal, Fields DEF Dequeued
<1> HIDE DEF l
<1> QED BY <1>1, <1>2, TaskSavedTells

\* An edit that leaves the fields of this node alone.
LEMMA EditTells ==
  ASSUME IsFiniteSet(Peer), RunInv, NEW n \in Peer, NEW t, NEW m, NEW first,
         Silent(first), SaveTask(n, t, local[n][t], m, first)
  PROVE  RunInv'
<1> DEFINE l == local[n][t]
<1>1. t \in Work => /\ l \in Local /\ l.sessions = local[n][t].sessions
                    /\ l.cur \in {0, local[n][t].cur}
  BY WasLocal
<1>2. SaveTask(n, t, l, m, first)
  OBVIOUS
<1> HIDE DEF l
<1> QED BY <1>1, <1>2, TaskSavedTells

LEMMA RequeuedTells ==
  ASSUME IsFiniteSet(Peer), RunInv, NEW n \in Peer, NEW t, NEW m,
         SaveTask(n, t, [local[n][t] EXCEPT !.queued = TRUE, !.due = FALSE, !.cur = 0],
                  m, <<>>)
  PROVE  RunInv'
<1> DEFINE l == [local[n][t] EXCEPT !.queued = TRUE, !.due = FALSE, !.cur = 0]
<1>1. SaveTask(n, t, l, m, <<>>) /\ Silent(<<>>)
  BY SilentOps
<1>2. t \in Work => /\ l \in Local /\ l.sessions = local[n][t].sessions
                    /\ l.cur \in {0, local[n][t].cur}
  BY WasLocal, Fields
<1> HIDE DEF l
<1> QED BY <1>1, <1>2, TaskSavedTells

-----------------------------------------------------------------------------
(* The steps.                                                              *)

LEMMA HumanTells ==
  ASSUME IsFiniteSet(Peer), RunInv, HumanStep
  PROVE  RunInv'
<1> SUFFICES ASSUME NEW n \in Peer, NEW t \in Work,
                    \/ StartHere(n, t)
                    \/ QueueHere(n, t)
                    \/ DequeueHere(n, t)
                    \/ StopHere(n, t)
                    \/ CloseTask(n, t)
                    \/ \E m \in Peer : Repin(n, t, m) \/ RequestRun(n, t, m)
                    \/ \E action \in {"stop", "rerun"} : Steer(n, t, action)
             PROVE  RunInv'
  BY DEF HumanStep
<1>1. CASE StartHere(n, t)
  BY <1>1, StartTells
<1>2. CASE QueueHere(n, t)
  <2>1. Queue(n, t, Pin(n, t, n)) /\ Silent(Pin(n, t, n))
    BY <1>2, SilentOps DEF QueueHere
  <2> QED BY <2>1, QueueTells
<1>3. CASE DequeueHere(n, t)
  BY <1>3, DequeueTells DEF DequeueHere
<1>4. CASE StopHere(n, t)
  <2>1. Running(local[n][t]) /\ EndSession(n, t, local[n][t].cur, "closed")
    BY <1>4 DEF StopHere
  <2>2. local[n][t].cur \in DOMAIN local[n][t].sessions
    BY <2>1 DEF Running, SessionState
  <2> QED BY <2>1, <2>2, SessionEndTells
<1>5. CASE CloseTask(n, t)
  <2>1. /\ Write(n, SetField(n, t, "closed", FALSE, TRUE)) /\ UNCHANGED local
        /\ Silent(SetField(n, t, "closed", FALSE, TRUE))
    BY <1>5, SilentOps DEF CloseTask
  <2> QED BY <2>1, QuietTells
<1>6. ASSUME NEW m \in Peer, Repin(n, t, m) PROVE RunInv'
  <2>1. SaveTask(n, t, local[n][t], m, Pin(n, t, m)) /\ Silent(Pin(n, t, m))
    BY <1>6, SilentOps DEF Repin
  <2> QED BY <2>1, EditTells
<1>7. ASSUME NEW m \in Peer, RequestRun(n, t, m) PROVE RunInv'
  <2> DEFINE first == Pin(n, t, m) \o SetField(n, t, "request", FALSE, TRUE)
  <2>1. SaveTask(n, t, local[n][t], m, first)
    BY <1>7 DEF RequestRun
  <2>2. Silent(first)
    BY SilentOps, SilentBoth
  <2> HIDE DEF first
  <2> QED BY <2>1, <2>2, EditTells
<1>8. ASSUME NEW action, Steer(n, t, action) PROVE RunInv'
  <2>1. Write(n, <<Command(n, t, action)>>) /\ UNCHANGED local
    BY <1>8 DEF Steer
  <2>2. Silent(<<Command(n, t, action)>>)
    BY SilentOps
  <2> QED BY <2>1, <2>2, QuietTells
<1> QED BY <1>1, <1>2, <1>3, <1>4, <1>5, <1>6, <1>7, <1>8

LEMMA AgentTells ==
  ASSUME IsFiniteSet(Peer), RunInv, AgentStep
  PROVE  RunInv'
<1> PICK n \in Peer, t \in Work, s \in 1 .. MaxSessions :
           AgentEnds(n, t, s) \/ Crash(n, t, s)
  BY DEF AgentStep
<1>1. CASE AgentEnds(n, t, s)
  BY <1>1, SessionEndTells DEF AgentEnds
<1>2. CASE Crash(n, t, s)
  BY <1>2, SessionEndTells DEF Crash
<1> QED BY <1>1, <1>2

LEMMA ScheduleTells ==
  ASSUME IsFiniteSet(Peer), RunInv, NEW n \in Peer, NEW t \in Work,
         NEW retry, Schedule(n, t, retry)
  PROVE  RunInv'
<1> DEFINE was == local[n][t]
           paid == [was EXCEPT !.owed = @ - 1]
           l == [paid EXCEPT !.due = TRUE, !.queued = TRUE]
<1>1. was \in Local
  BY WasLocal
<1>2. \/ SaveTask(n, t, l, Runner(n, t), <<>>)
      \/ SetLocal(n, t, paid) /\ UNCHANGED <<ops, have>>
  BY DEF Schedule
<1> HIDE DEF was
<1>3. /\ paid \in Local /\ paid.sessions = was.sessions
      /\ paid.cur = was.cur /\ paid.queued = was.queued
  BY <1>1, Fields
<1> HIDE DEF paid
<1>4. l \in Local /\ l.sessions = was.sessions /\ l.cur \in {0, was.cur}
  BY <1>3, Fields
<1> HIDE DEF l
<1>5. CASE SaveTask(n, t, l, Runner(n, t), <<>>)
  BY <1>4, <1>5, SilentOps, TaskSavedTells DEF was
<1>6. CASE SetLocal(n, t, paid) /\ UNCHANGED <<ops, have>>
  <2>1. LocalIs(was) /\ Tells(Own(n, t), was)
    BY DEF was, RunInv, LocalsTell
  <2>2. LocalIs(paid)
    BY <1>3, <2>1 DEF LocalIs
  <2>3. SessionState(paid) = SessionState(was) /\ (Running(paid) <=> Running(was))
    BY <1>3 DEF SessionState, Running
  <2>4. Tells(Own(n, t), paid)
    BY <1>3, <2>1, <2>3 DEF Tells
  <2> QED BY <1>6, <2>2, <2>4, LocalTells
<1> QED BY <1>2, <1>5, <1>6

LEMMA DispatchTells ==
  ASSUME IsFiniteSet(Peer), RunInv, NEW n \in Peer, DispatchStep(n)
  PROVE  RunInv'
<1>1. CASE AcceptRequest(n)
  <2>1. Queue(n, Min(Requests(n)), <<>>) /\ Silent(<<>>)
    BY <1>1, SilentOps DEF AcceptRequest
  <2> QED BY <2>1, QueueTells
<1>2. ASSUME NEW t \in Work, Choose(n, t) PROVE RunInv'
  BY <1>2, SameTells DEF Choose
<1>3. ASSUME NEW t \in Work, Restart(n, t) PROVE RunInv'
  <2> DEFINE l == [local[n][t] EXCEPT !.due = FALSE, !.queued = TRUE]
  <2>1. SaveTask(n, t, l, Runner(n, t), <<>>) /\ Silent(<<>>)
    BY <1>3, SilentOps DEF Restart
  <2>2. /\ l \in Local /\ l.sessions = local[n][t].sessions
        /\ l.cur \in {0, local[n][t].cur}
    BY WasLocal, Fields
  <2> HIDE DEF l
  <2> QED BY <2>1, <2>2, TaskSavedTells
<1>4. ASSUME NEW t \in Work, NEW retry, Schedule(n, t, retry) PROVE RunInv'
  BY <1>4, ScheduleTells
<1>5. CASE Claim(n, FALSE)
  BY <1>5, ClaimTells
<1>6. CASE GiveUpClaim(n)
  BY <1>6, SameTells DEF GiveUpClaim
<1> QED BY <1>1, <1>2, <1>3, <1>4, <1>5, <1>6 DEF DispatchStep

LEMMA ControlTells ==
  ASSUME IsFiniteSet(Peer), RunInv, NEW n \in Peer, ControlStep(n)
  PROVE  RunInv'
<1>1. CASE BeginControl(n)
  BY <1>1, SameTells DEF BeginControl
<1>2. CASE CheckCommand(n)
  BY <1>2, SameTells DEF CheckCommand
<1>3. CASE ReadTask(n)
  BY <1>3, SameTells DEF ReadTask
<1>4. CASE PinHere(n)
  <2> DEFINE t == Op(First(control[n].todo)).task
  <2>1. SaveTask(n, t, local[n][t], n, Pin(n, t, n))
    BY <1>4 DEF PinHere
  <2> HIDE DEF t
  <2>2. Silent(Pin(n, t, n))
    BY SilentOps
  <2> QED BY <2>1, <2>2, EditTells
<1>5. CASE Obey(n)
  <2> DEFINE t == Op(First(control[n].todo)).task
  <2>1. ObeyStop(n, t) \/ ObeyRerun(n, t)
    BY <1>5 DEF Obey
  <2> HIDE DEF t
  <2>2. CASE ObeyStop(n, t)
    <3>1. \/ /\ control[n].cur \in DOMAIN local[n][t].sessions
             /\ EndSession(n, t, control[n].cur, "closed")
          \/ SaveTask(n, t, Dequeued(local[n][t]), Runner(n, t), <<>>)
          \/ UNCHANGED <<ops, have, local>>
      BY <2>2 DEF ObeyStop
    <3> QED BY <3>1, SessionEndTells, DequeueTells, SameTells
  <2>3. CASE ObeyRerun(n, t)
    <3>1. \/ Write(n, <<Command(n, t, "rerun")>>) /\ UNCHANGED local
          \/ UNCHANGED <<ops, have, local>>
      BY <2>3 DEF ObeyRerun
    <3>2. Silent(<<Command(n, t, "rerun")>>)
      BY SilentOps
    <3> QED BY <3>1, <3>2, QuietTells, SameTells
  <2> QED BY <2>1, <2>2, <2>3
<1>6. CASE Requeue(n)
  <2> DEFINE t == Op(First(control[n].todo)).task
  <2>1. \/ UNCHANGED <<ops, have, local>>
        \/ SaveTask(n, t, [local[n][t] EXCEPT !.queued = TRUE, !.due = FALSE,
                                              !.cur = 0], Runner(n, t), <<>>)
    BY <1>6 DEF Requeue
  <2> HIDE DEF t
  <2> QED BY <2>1, SameTells, RequeuedTells
<1>7. CASE Receipt(n)
  BY <1>7, SameTells DEF Receipt
<1> QED BY <1>1, <1>2, <1>3, <1>4, <1>5, <1>6, <1>7 DEF ControlStep

LEMMA RunStep ==
  ASSUME IsFiniteSet(Peer), RunInv, [RunNext]_runVars
  PROVE  RunInv'
<1>1. CASE HumanStep
  BY <1>1, HumanTells
<1>2. CASE AgentStep
  BY <1>2, AgentTells
<1>3. ASSUME NEW n \in Peer, DispatchStep(n) PROVE RunInv'
  BY <1>3, DispatchTells
<1>4. ASSUME NEW n \in Peer, Claim(n, TRUE) PROVE RunInv'
  BY <1>4, ClaimTells
<1>5. ASSUME NEW n \in Peer, ControlStep(n) PROVE RunInv'
  BY <1>5, ControlTells
<1>6. ASSUME NEW n \in Peer, ControlDies(n) PROVE RunInv'
  BY <1>6, SameTells DEF ControlDies
<1>7. ASSUME NEW n \in Peer, NEW m \in Peer \ {n}, Receive(n, m) PROVE RunInv'
  BY <1>7, ReceiveTells
<1>8. CASE UNCHANGED runVars
  BY <1>8, SameTells DEF runVars
<1> QED BY <1>1, <1>2, <1>3, <1>4, <1>5, <1>6, <1>7, <1>8 DEF RunNext

LEMMA RunStart ==
  ASSUME RunInit
  PROVE  RunInv
<1>1. /\ have = [n \in Peer |-> [m \in Peer |-> Len(ops[m])]]
      /\ \/ /\ ops = [n \in Peer |-> <<>>]
            /\ local = [n \in Peer |-> [t \in Work |-> Fresh]]
         \/ \E m \in Peer, t \in Work :
               /\ ops = [n \in Peer |-> IF n = m THEN RunsAt(m, t) ELSE <<>>]
               /\ local = [n \in Peer |-> [u \in Work |->
                      IF n = m /\ u = t
                      THEN [Linked(Fresh) EXCEPT !.cur = 1] ELSE Fresh]]
  BY DEF RunInit
<1>2. /\ LocalIs(Fresh) /\ Fresh \in Local /\ Tells(NoRun, Fresh)
      /\ Descr(NoRun) /\ IsSeq(<<>>) /\ Len(<<>>) = 0
  <2>1. <<>> \in Seq(Status) /\ Len(<<>>) = 0 /\ DOMAIN <<>> = {}
    OBVIOUS
  <2>2. Fresh.sessions = <<>> /\ Fresh.cur = 0
    BY DEF Fresh
  <2>3. ~ Running(Fresh)
    BY <2>1, <2>2 DEF Running, SessionState
  <2>4. Fresh \in Local
    BY <2>1 DEF Fresh, Local
  <2> QED BY <2>1, <2>2, <2>3, <2>4, ShortSeq DEF LocalIs, Tells, Descr, NoRun
<1>3. ASSUME NEW n \in Peer, NEW u, ops[n] = <<>>, have[n][n] = 0
      PROVE  Own(n, u) = NoRun
  <2>1. Runs(ops[n], 0, u) = {}
    BY DEF Runs
  <2> QED BY <1>3, <2>1 DEF Own, RunOf, Runs
<1>4. CASE /\ ops = [n \in Peer |-> <<>>]
           /\ local = [n \in Peer |-> [t \in Work |-> Fresh]]
  <2>1. \A n \in Peer : ops[n] = <<>> /\ \A m \in Peer : have[n][m] = 0
    BY <1>1, <1>2, <1>4
  <2>2. LogsShaped
    <3>1. have \in [Peer -> [Peer -> Nat]]
      BY <1>1, <1>2, <1>4
    <3> QED BY <1>2, <1>4, <2>1, <3>1 DEF LogsShaped
  <2>3. \A n \in Peer : \A u : Own(n, u) = NoRun
    BY <1>3, <2>1
  <2>4. GensKept
    BY <1>2, <2>1, <2>3 DEF GensKept
  <2>5. LocalsTell
    BY <1>2, <1>4, <2>3 DEF LocalsTell
  <2> QED BY <2>2, <2>4, <2>5 DEF RunInv
<1>5. ASSUME NEW m \in Peer, NEW t \in Work,
             ops = [n \in Peer |-> IF n = m THEN RunsAt(m, t) ELSE <<>>],
             local = [n \in Peer |-> [u \in Work |->
                      IF n = m /\ u = t
                      THEN [Linked(Fresh) EXCEPT !.cur = 1] ELSE Fresh]]
      PROVE  RunInv
  <2> DEFINE one == [gen |-> 1, state |-> "running", start |-> 1]
             log == RunsAt(m, t)
             l == [Linked(Fresh) EXCEPT !.cur = 1]
  <2>1. /\ IsSeq(log) /\ Len(log) = 2
        /\ log[1].kind = "runner"
        /\ log[2].kind = "run" /\ log[2].task = t /\ log[2].value = one
    <3>1. PICK a : a = Stamped(OpOf("runner", t, m), 1)
      OBVIOUS
    <3>2. PICK b : b = Stamped(OpOf("run", t, one), 2)
      OBVIOUS
    <3>3. /\ a.kind = "runner"
          /\ b.kind = "run" /\ b.task = t /\ b.value = one
      BY <3>1, <3>2 DEF Stamped, OpOf
    <3>4. log = <<a, b>>
      BY <3>1, <3>2 DEF RunsAt
    <3>5. /\ <<a, b>> \in Seq({a, b}) /\ Len(<<a, b>>) = 2
          /\ <<a, b>>[1] = a /\ <<a, b>>[2] = b
      OBVIOUS
    <3> HIDE DEF log
    <3> QED BY <3>3, <3>4, <3>5 DEF IsSeq
  <2>2. ops[m] = log /\ \A n \in Peer \ {m} : ops[n] = <<>>
    BY <1>5
  <2>3. \A n, h \in Peer : have[n][h] = Len(ops[h])
    BY <1>1
  <2>4. \A n \in Peer : IsSeq(ops[n]) /\ Len(ops[n]) \in Nat
    <3> SUFFICES ASSUME NEW n \in Peer PROVE IsSeq(ops[n]) /\ Len(ops[n]) \in Nat
      OBVIOUS
    <3>1. CASE n = m
      BY <2>1, <2>2, <3>1
    <3>2. CASE n # m
      BY <1>2, <2>2, <3>2
    <3> QED BY <3>1, <3>2
  <2>5. LogsShaped
    <3>1. have \in [Peer -> [Peer -> Nat]]
      BY <1>1, <2>4
    <3>2. \A n, h \in Peer : have[n][h] <= Len(ops[h])
      BY <2>3, <2>4
    <3>3. DOMAIN ops = Peer /\ ops = [n \in Peer |-> ops[n]]
      BY <1>5
    <3> QED BY <2>3, <2>4, <3>1, <3>2, <3>3 DEF LogsShaped
  <2>6. \A n \in Peer \ {m} : \A u : Own(n, u) = NoRun
    BY <1>2, <1>3, <2>2, <2>3
  <2> HIDE DEF log
  <2>7. Own(m, t) = one
    <3>1. Own(m, t) = LastRun(log, 2, t)
      BY <2>1, <2>2, <2>3 DEF Own, RunOf, LastRun, Runs
    <3>2. /\ 2 \in Nat /\ 2 \in 1 .. 2
          /\ \A j \in 2 + 1 .. 2 : ~ (log[j].kind = "run" /\ log[j].task = t)
      OBVIOUS
    <3>3. LastRun(log, 2, t) = log[2].value
      BY <2>1, <3>2, LastRunIs
    <3> QED BY <2>1, <3>1, <3>3
  <2>8. ASSUME NEW u, u # t PROVE Own(m, u) = NoRun
    <3>1. \A i \in 1 .. 2 : i = 1 \/ i = 2
      OBVIOUS
    <3>2. Runs(log, 2, u) = {}
      BY <2>1, <2>8, <3>1 DEF Runs
    <3> QED BY <2>1, <2>2, <2>3, <3>2 DEF Own, RunOf, Runs
  <2>9. Descr(one) /\ Older(one, one) /\ Agree(one, one)
    BY DEF Descr, Older, Agree
  <2>10. GensKept
    <3>1. \A n \in Peer : \A u : Descr(Own(n, u))
      BY <1>2, <2>6, <2>7, <2>8, <2>9
    <3>2. ASSUME NEW n \in Peer, NEW i \in 1 .. Len(ops[n]), ops[n][i].kind = "run"
          PROVE  n = m /\ ops[n][i].task = t /\ ops[n][i].value = one
      <4>1. n = m
        BY <1>2, <2>2
      <4>2. \A j \in 1 .. 2 : j = 1 \/ j = 2
        OBVIOUS
      <4> QED BY <2>1, <2>2, <3>2, <4>1, <4>2
    <3>3. ASSUME NEW n \in Peer, NEW i \in 1 .. Len(ops[n]), ops[n][i].kind = "run",
                 NEW u, ops[n][i].task = u
          PROVE  Older(ops[n][i].value, Own(n, u))
      BY <2>7, <2>9, <3>2, <3>3
    <3>4. ASSUME NEW n \in Peer, NEW i \in 1 .. Len(ops[n]), NEW j \in 1 .. Len(ops[n]),
                 ops[n][i].kind = "run", ops[n][j].kind = "run"
          PROVE  Agree(ops[n][i].value, ops[n][j].value)
      BY <2>9, <3>2, <3>4
    <3> QED BY <3>1, <3>3, <3>4 DEF GensKept
  <2>11. LocalIs(l) /\ l \in Local /\ Tells(one, l)
    <3>1. PICK started : started = Append(<<>>, "active")
      OBVIOUS
    <3>2. /\ started \in Seq(Status) /\ Len(started) = 1
          /\ started[1] = "active" /\ DOMAIN started = 1 .. 1
      BY <3>1 DEF Status
    <3>3. l = [queued |-> FALSE, due |-> FALSE, cur |-> 1, sessions |-> started,
               owed |-> 0]
      <4>1. Linked(Fresh) = [queued |-> FALSE, due |-> FALSE, cur |-> 0,
                             sessions |-> started, owed |-> 0]
        <5>1. Fresh.sessions = <<>>
          BY DEF Fresh
        <5>2. Linked(Fresh) = [Fresh EXCEPT !.sessions = started]
          BY <3>1, <5>1 DEF Linked
        <5> QED BY <5>2 DEF Fresh
      <4>2. PICK r : r = Linked(Fresh)
        OBVIOUS
      <4>3. l = [r EXCEPT !.cur = 1]
        BY <4>2
      <4>4. r = [queued |-> FALSE, due |-> FALSE, cur |-> 0,
                 sessions |-> started, owed |-> 0]
        BY <4>1, <4>2
      <4> HIDE DEF l
      <4> QED BY ONLY <4>3, <4>4
    <3> HIDE DEF l
    <3> QED BY <3>2, <3>3 DEF LocalIs, Local, Tells, Running, SessionState
  <2>12. ASSUME NEW n \in Peer, NEW u \in Work
         PROVE  LocalIs(local[n][u]) /\ Tells(Own(n, u), local[n][u])
    <3>1. CASE n = m /\ u = t
      <4>1. local[n][u] = l
        BY <1>5, <3>1
      <4> HIDE DEF l, one
      <4> QED BY <2>7, <2>11, <3>1, <4>1
    <3>2. CASE ~ (n = m /\ u = t)
      <4>1. local[n][u] = Fresh
        BY <1>5, <3>2
      <4>2. Own(n, u) = NoRun
        BY <2>6, <2>8, <3>2
      <4> QED BY <1>2, <4>1, <4>2
    <3> QED BY <3>1, <3>2
  <2>13. local \in [Peer -> [Work -> Local]]
    <3> HIDE DEF l
    <3> QED BY <1>2, <1>5, <2>11 DEF l
  <2> QED BY <2>5, <2>10, <2>12, <2>13 DEF RunInv, LocalsTell
<1> QED BY <1>1, <1>4, <1>5

LEMMA RunsInvariant ==
  ASSUME IsFiniteSet(Peer)
  PROVE  RunSpec => []RunInv
<1>1. RunInit => RunInv
  BY RunStart
<1>2. RunInv /\ [RunNext]_runVars => RunInv'
  BY RunStep
<1> QED BY <1>1, <1>2, PTL DEF RunSpec

-----------------------------------------------------------------------------
\* run::capture: what a node publishes of a task is what it does with it.
THEOREM DescriptorTells ==
  ASSUME IsFiniteSet(Peer)
  PROVE  RunSpec => []DescriptorTellsRun
<1>1. ASSUME RunInv PROVE DescriptorTellsRun
  <2> SUFFICES ASSUME NEW n \in Peer, NEW t \in Work
               PROVE  LET l == local[n][t]
                          run == Own(n, t)
                      IN  /\ Running(l) /\ ~ l.queued =>
                                run.state = "running" /\ run.start = l.cur
                          /\ Running(l) => Active(run)
                          /\ run.state = "queued" => l.queued
                          /\ run.state = "running" => l.sessions[run.start] = "active"
    BY DEF DescriptorTellsRun
  <2>1. Tells(Own(n, t), local[n][t])
    BY <1>1 DEF RunInv, LocalsTell
  <2> QED BY <2>1 DEF Tells, Active
<1>2. RunSpec => []RunInv
  BY RunsInvariant
<1> QED BY <1>1, <1>2, PTL

\* run::capture and control::process: a command, which names a generation, can
\* only mean one session.
THEOREM GenerationNamesOne ==
  ASSUME IsFiniteSet(Peer)
  PROVE  RunSpec => []GenerationNamesOneSession
<1>1. ASSUME RunInv PROVE GenerationNamesOneSession
  <2> SUFFICES ASSUME NEW n \in Peer, NEW i \in DOMAIN ops[n], NEW j \in DOMAIN ops[n],
                      ops[n][i].kind = "run", ops[n][j].kind = "run",
                      ops[n][i].task = ops[n][j].task,
                      ops[n][i].value.gen = ops[n][j].value.gen,
                      ops[n][i].value.start # 0, ops[n][j].value.start # 0
               PROVE  ops[n][i].value.start = ops[n][j].value.start
    BY DEF GenerationNamesOneSession
  <2>1. DOMAIN ops[n] = 1 .. Len(ops[n])
    <3>1. PICK S : ops[n] \in Seq(S)
      BY <1>1 DEF RunInv, LogsShaped, IsSeq
    <3> QED BY <3>1
  <2>2. Agree(ops[n][i].value, ops[n][j].value)
    BY <1>1, <2>1 DEF RunInv, GensKept
  <2> QED BY <2>2 DEF Agree
<1>2. RunSpec => []RunInv
  BY RunsInvariant
<1> QED BY <1>1, <1>2, PTL
=============================================================================
