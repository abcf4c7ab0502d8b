---------------------------- MODULE JournalProofs ----------------------------
(***************************************************************************)
(* Proofs about Journal: what the sync worker has read stays, whatever is  *)
(* killed (SentStands); and, where editors wait for commands, every file   *)
(* the index takes for known is described by the journal (CleanJournaled)  *)
(* and no operation repeats the change of an earlier one (NoChangeIsTwice).*)
(***************************************************************************)
EXTENDS Journal, Extremes

Redo == [path : Path \cup {NoPath}, external : BOOLEAN, start : Nat,
         through : Nat, seen : SUBSET Path, entries : [Path -> Entry]]

Planning == {"verify", "absorb", "plan", "scan", "compact", "read", "intent"}
Committing == {"file", "append", "record", "close"}

Process == [pc : {"idle", "recover", "clear", "drop"}
                    \cup Planning \cup Committing,
            goal : {"none", "absorb", "scan", "read"},
            path : Path \cup {NoPath}, text : Text, ops : Seq(Operation),
            external : BOOLEAN, seen : SUBSET Path, entries : [Path -> Entry],
            after : {"idle", "recover", "plan", "compact"}]

JournalTyped ==
    /\ disk \in [Path -> Text]
    /\ segment \in Seq(Operation)
    /\ drift \in [Path -> Entry]
    /\ redo \in SUBSET Redo
    /\ tx \in Process
    /\ sent \in Nat
    /\ writes \in Nat
    /\ kills \in Nat

\* Where a process is says whether a redo is open, and what it is about.
Placed ==
    /\ tx.pc \in Planning => redo = {}
    /\ tx.pc \in {"clear", "drop"} \cup Committing => redo # {}
    /\ tx.pc # "idle" => tx.goal # "none"
    /\ tx.pc \in {"absorb", "plan", "file"} => tx.goal = "absorb"
    /\ tx.pc = "intent" /\ ~ tx.external => tx.goal = "absorb"
    /\ tx.after = "plan" => tx.goal = "absorb"
    /\ tx.goal = "absorb" => tx.path \in Path
    /\ tx.pc \in {"intent", "file", "append", "record"} => tx.ops # <<>>

\* How far the segment reaches beyond the batch of an open redo, and what of
\* it was read.
Reach(r) ==
    /\ sent <= r.start
    /\ r.start <= Len(segment)
    /\ Len(segment) <= r.through
    /\ r.start < r.through
    /\ tx.pc \in {"file", "append"} => /\ Len(segment) = r.start
                                       /\ r.through = r.start + Len(tx.ops)
    /\ tx.pc \in {"record", "close", "clear"} => Len(segment) = r.through
    /\ tx.pc = "drop" => Len(segment) = r.start

Reached ==
    /\ sent <= Len(segment)
    /\ \A r, s \in redo : r = s
    /\ \A r \in redo : Reach(r)

JournalControl == JournalTyped /\ Placed /\ Reached

\* An entry of the index agrees with the first n operations.
Tells(e, p, n) ==
    /\ e.text = Said(segment, n, p)
    /\ e.same => disk[p] = Said(segment, n, p)

\* The index tells the journal; before a batch is complete, that before it.
IndexTells ==
    /\ redo = {} => \A p \in Path : Tells(drift[p], p, Len(segment))
    /\ \A r \in redo :
          /\ Len(segment) < r.through =>
                \A p \in Path : Tells(drift[p], p, r.start)
          /\ Len(segment) = r.through =>
                LET noted == Noted(r.path, r.external, r.seen, r.entries)
                IN \A p \in Path : Tells(noted[p], p, Len(segment))
          /\ tx.pc \in {"clear", "close"} =>
                \A p \in Path : Tells(drift[p], p, Len(segment))

\* The redo of a process is about what the process is about.
RedoMatches ==
    tx.pc \in {"file", "append", "record"} =>
        \A r \in redo : /\ r.path = RedoPath
                        /\ r.external = tx.external
                        /\ r.seen = tx.seen
                        /\ r.entries = tx.entries

\* The operations about to be appended.
OpsChange ==
    tx.pc \in {"intent", "file", "append"} =>
        /\ \A i, j \in DOMAIN tx.ops : tx.ops[i].path = tx.ops[j].path => i = j
        /\ \A i \in DOMAIN tx.ops :
              tx.ops[i].text # Said(segment, Len(segment), tx.ops[i].path)

Absorbed ==
    tx.external /\ tx.pc \in {"intent", "append"} =>
        /\ tx.seen = {tx.ops[i].path : i \in DOMAIN tx.ops}
        /\ \A i \in DOMAIN tx.ops :
              tx.entries[tx.ops[i].path].text = tx.ops[i].text
        /\ tx.after # "compact" => Len(tx.ops) = 1

Commanded ==
    ~ tx.external /\ tx.pc \in {"intent", "file", "append"} =>
        /\ tx.goal = "absorb"
        /\ tx.after = "idle"
        /\ tx.seen = {}
        /\ tx.ops = <<[path |-> tx.path, text |-> tx.text]>>
        /\ tx.pc = "append" => disk[tx.path] = tx.text

External == tx.pc = "file" => ~ tx.external

\* What was seen of the files still stands, or is known not to.
SeenStands ==
    tx.pc \in {"intent", "append", "record", "close", "compact"} =>
        \A p \in Path : /\ p \in tx.seen \/ tx.after = "compact"
                        /\ tx.entries[p].same
                        => disk[p] = tx.entries[p].text

\* The index a scan leaves.
Scanned ==
    /\ tx.pc = "compact" => tx.after = "compact"
    /\ tx.after = "compact" =>
        /\ tx.pc \in {"intent", "append", "record", "close"} => tx.external
        /\ tx.pc \in {"intent", "append"} =>
              \A p \in Path \ tx.seen :
                  tx.entries[p].text = Said(segment, Len(segment), p)
        /\ tx.pc \in {"record", "close", "compact"} =>
              \A p \in Path :
                  tx.entries[p].text = Said(segment, Len(segment), p)

\* A command plans against a file the journal describes.
PlansOnJournal ==
    /\ \/ tx.pc = "plan"
       \/ tx.after = "plan" /\ tx.pc \in {"record", "close"}
       => disk[tx.path] = Said(segment, Len(segment), tx.path)
    /\ tx.after = "plan" /\ tx.pc \in {"intent", "append"} =>
          tx.ops = <<[path |-> tx.path, text |-> disk[tx.path]]>>

JournalSound ==
    /\ IndexTells
    /\ RedoMatches
    /\ OpsChange
    /\ Absorbed
    /\ Commanded
    /\ External
    /\ SeenStands
    /\ Scanned
    /\ PlansOnJournal
    /\ NoChangeTwice

-----------------------------------------------------------------------------
(* What a log says.                                                        *)

\* The last operation on the path is the one that says it.
LEMMA SaidLast ==
  ASSUME NEW L, NEW n \in Nat, NEW p, NEW i \in 1 .. n, L[i].path = p,
         \A j \in i + 1 .. n : L[j].path # p
  PROVE  Said(L, n, p) = L[i].text
<1> DEFINE own == {j \in 1 .. n : L[j].path = p}
<1>1. i \in own /\ own \subseteq Int /\ \A j \in own : j <= i
  OBVIOUS
<1>2. Max(own) \in own /\ \A j \in own : j <= Max(own)
  <2> HIDE DEF own
  <2> QED BY <1>1, GreatestOne
<1>3. Max(own) = i
  <2> HIDE DEF own
  <2>1. Max(own) \in Int /\ i \in Int
    BY <1>1, <1>2
  <2>2. Max(own) <= i /\ i <= Max(own)
    BY <1>1, <1>2
  <2> QED BY <2>1, <2>2
<1> QED BY <1>1, <1>3 DEF Said

\* Operations on other paths say nothing of it.
LEMMA SaidBefore ==
  ASSUME NEW L, NEW n \in Nat, NEW m \in Nat, m <= n, NEW p,
         \A j \in m + 1 .. n : L[j].path # p
  PROVE  Said(L, n, p) = Said(L, m, p)
<1>1. {j \in 1 .. n : L[j].path = p} = {j \in 1 .. m : L[j].path = p}
  OBVIOUS
<1> QED BY <1>1 DEF Said

\* What the first operations say depends on these alone.
LEMMA SaidSame ==
  ASSUME NEW L, NEW M, NEW n \in Nat, NEW p, \A j \in 1 .. n : L[j] = M[j]
  PROVE  Said(L, n, p) = Said(M, n, p)
<1> DEFINE own == {j \in 1 .. n : L[j].path = p}
<1>1. own = {j \in 1 .. n : M[j].path = p}
  OBVIOUS
<1>2. own \subseteq 1 .. n
  OBVIOUS
<1>3. ASSUME own # {} PROVE Max(own) \in 1 .. n
  <2> HIDE DEF own
  <2>1. own \subseteq Int /\ \A j \in own : j <= n
    BY <1>2
  <2>2. n \in Int
    OBVIOUS
  <2>3. Max(own) \in own
    BY <1>3, <2>1, <2>2, GreatestOne
  <2> QED BY <1>2, <2>3
<1> QED BY <1>1, <1>3 DEF Said

Distinct(ops) == \A i, j \in DOMAIN ops : ops[i].path = ops[j].path => i = j
NoRepeat(L) == \A i \in DOMAIN L : L[i].text # Said(L, i - 1, L[i].path)

\* A batch, or the first lines of one, behind a log.
LEMMA Behind ==
  ASSUME NEW L \in Seq(Operation), NEW B \in Seq(Operation),
         NEW k \in 0 .. Len(B)
  PROVE  LET A == L \o SubSeq(B, 1, k)
         IN /\ A \in Seq(Operation)
            /\ Len(A) = Len(L) + k
            /\ \A i \in 1 .. Len(L) : A[i] = L[i]
            /\ \A i \in 1 .. k : A[Len(L) + i] = B[i]
<1> DEFINE C == SubSeq(B, 1, k)
<1>1. C \in Seq(Operation) /\ Len(C) = k /\ \A i \in 1 .. k : C[i] = B[i]
  OBVIOUS
<1> HIDE DEF C
<1>2. L \o C \in Seq(Operation) /\ Len(L \o C) = Len(L) + k
  BY <1>1
<1>3. \A i \in 1 .. Len(L) : (L \o C)[i] = L[i]
  BY <1>1
<1>4. ASSUME NEW i \in 1 .. k PROVE (L \o C)[Len(L) + i] = C[i]
  BY <1>1, Len(L) + i \in 1 .. Len(L) + Len(C)
<1> QED BY <1>1, <1>2, <1>3, <1>4 DEF C

LEMMA SaidAnew ==
  ASSUME NEW L \in Seq(Operation), NEW B \in Seq(Operation),
         NEW k \in 0 .. Len(B), Distinct(B), NEW A \in Seq(Operation),
         A = L \o SubSeq(B, 1, k), NEW i \in 1 .. k
  PROVE  Said(A, Len(A), B[i].path) = B[i].text
<1> DEFINE n == Len(L)
<1>1. /\ n \in Nat /\ Len(A) = n + k
      /\ \A j \in 1 .. k : A[n + j] = B[j]
  BY Behind
<1>2. ASSUME NEW j \in (n + i) + 1 .. n + k PROVE A[j].path # B[i].path
  <2>1. j - n \in 1 .. k /\ j = n + (j - n) /\ j - n # i
    BY <1>1
  <2>2. A[j] = B[j - n]
    BY <1>1, <2>1
  <2>3. i \in DOMAIN B /\ j - n \in DOMAIN B
    BY <2>1
  <2> QED BY <2>1, <2>2, <2>3 DEF Distinct
<1>3. n + i \in 1 .. n + k /\ A[n + i] = B[i] /\ n + k \in Nat
  BY <1>1
<1>4. Said(A, n + k, B[i].path) = A[n + i].text
  BY <1>2, <1>3, SaidLast
<1> QED BY <1>1, <1>3, <1>4

LEMMA NoRepeatBehind ==
  ASSUME NEW L \in Seq(Operation), NEW B \in Seq(Operation),
         NEW k \in 0 .. Len(B), Distinct(B), NoRepeat(L),
         \A i \in DOMAIN B : B[i].text # Said(L, Len(L), B[i].path),
         NEW A \in Seq(Operation), A = L \o SubSeq(B, 1, k)
  PROVE  NoRepeat(A)
<1> DEFINE n == Len(L)
<1>1. /\ n \in Nat /\ Len(A) = n + k /\ DOMAIN A = 1 .. n + k
      /\ \A i \in 1 .. n : A[i] = L[i]
      /\ \A i \in 1 .. k : A[n + i] = B[i]
  BY Behind
<1> SUFFICES ASSUME NEW i \in 1 .. n + k
             PROVE  A[i].text # Said(A, i - 1, A[i].path)
  BY <1>1 DEF NoRepeat
<1>2. CASE i <= n
  <2>1. i - 1 \in Nat /\ \A j \in 1 .. i - 1 : A[j] = L[j]
    BY <1>1, <1>2
  <2>2. ASSUME NEW p PROVE Said(A, i - 1, p) = Said(L, i - 1, p)
    <3> DEFINE m == i - 1
    <3>1. m \in Nat /\ \A j \in 1 .. m : A[j] = L[j]
      BY <2>1
    <3> HIDE DEF m
    <3>2. Said(A, m, p) = Said(L, m, p)
      BY ONLY <3>1, SaidSame
    <3> QED BY <3>2 DEF m
  <2>3. i \in DOMAIN L /\ A[i] = L[i]
    BY <1>1, <1>2
  <2> QED BY <2>2, <2>3 DEF NoRepeat
<1>3. CASE i > n
  <2> DEFINE j == i - n
  <2>1. j \in 1 .. k /\ j \in DOMAIN B /\ A[i] = B[j] /\ i = n + j
    BY <1>1, <1>3
  <2>2. ASSUME NEW h \in n + 1 .. i - 1 PROVE A[h].path # B[j].path
    <3>1. h - n \in 1 .. k /\ h = n + (h - n) /\ h - n # j
      BY <1>1, <2>1
    <3>2. A[h] = B[h - n] /\ h - n \in DOMAIN B
      BY <1>1, <3>1
    <3> QED BY <2>1, <3>1, <3>2 DEF Distinct
  <2>3. i - 1 \in Nat /\ n <= i - 1
    BY <1>1, <1>3
  <2>4. Said(A, i - 1, B[j].path) = Said(A, n, B[j].path)
    BY <1>1, <2>2, <2>3, SaidBefore
  <2>5. ASSUME NEW p PROVE Said(A, n, p) = Said(L, n, p)
    <3> HIDE DEF n
    <3>1. n \in Nat /\ \A h \in 1 .. n : A[h] = L[h]
      BY <1>1
    <3> QED BY ONLY <3>1, SaidSame
  <2> QED BY <2>1, <2>4, <2>5
<1> QED BY <1>1, <1>2, <1>3

LEMMA NoRepeatCut ==
  ASSUME NEW L \in Seq(Operation), NEW n \in 0 .. Len(L), NoRepeat(L)
  PROVE  NoRepeat(SubSeq(L, 1, n))
<1> DEFINE A == SubSeq(L, 1, n)
<1>1. DOMAIN A = 1 .. n /\ \A i \in 1 .. n : A[i] = L[i]
  OBVIOUS
<1> HIDE DEF A
<1> SUFFICES ASSUME NEW i \in 1 .. n
             PROVE  A[i].text # Said(A, i - 1, A[i].path)
  BY <1>1 DEF NoRepeat, A
<1>2. i - 1 \in Nat /\ \A j \in 1 .. i - 1 : A[j] = L[j]
  BY <1>1
<1>3. Said(A, i - 1, A[i].path) = Said(L, i - 1, A[i].path)
  BY <1>2, SaidSame
<1>4. i \in DOMAIN L /\ A[i] = L[i]
  BY <1>1
<1> QED BY <1>3, <1>4 DEF NoRepeat

\* The order of a finite set: every element once.
LEMMA Ordered ==
  ASSUME NEW S, IsFiniteSet(S)
  PROVE  /\ SetToSeq(S) \in Seq(S)
         /\ \A i, j \in DOMAIN SetToSeq(S) : SetToSeq(S)[i] = SetToSeq(S)[j] => i = j
         /\ S = {SetToSeq(S)[i] : i \in DOMAIN SetToSeq(S)}
<1> DEFINE n == Cardinality(S)
           s == SetToSeq(S)
<1>1. n \in Nat /\ ExistsBijection(1 .. n, S)
  BY FS_CardinalityType
<1>2. \E f \in [1 .. n -> S] : IsInjective(f)
  BY <1>1 DEF ExistsBijection, Bijection, Injection
<1>3. s \in [1 .. n -> S] /\ IsInjective(s)
  BY <1>2 DEF SetToSeq
<1> HIDE DEF s
<1>4. s \in Injection(1 .. n, S)
  BY <1>3 DEF Injection
<1>5. IsFiniteSet(1 .. n) /\ Cardinality(1 .. n) = n
  BY <1>1, FS_Interval
<1>6. s \in Surjection(1 .. n, S)
  <2> HIDE DEF n
  <2>1. Cardinality(1 .. n) = Cardinality(S) <=> s \in Surjection(1 .. n, S)
    BY <1>4, FS_Injection
  <2> QED BY <2>1, <1>5 DEF n
<1>7. \A x \in S : \E i \in 1 .. n : s[i] = x
  BY <1>6 DEF Surjection
<1>8. s \in Seq(S) /\ DOMAIN s = 1 .. n
  BY <1>1, <1>3
<1>9. \A i, j \in DOMAIN s : s[i] = s[j] => i = j
  BY <1>3 DEF IsInjective
<1>10. S = {s[i] : i \in DOMAIN s}
  BY <1>3, <1>7, <1>8
<1> QED BY <1>8, <1>9, <1>10 DEF s

-----------------------------------------------------------------------------
(* Types, where a process is, and how far the segment reaches.             *)

LEMMA ControlAtFirst == JournalInit => JournalControl
<1> SUFFICES ASSUME JournalInit PROVE JournalControl
  OBVIOUS
<1>1. Blank \in Text
  BY JournalAssumption
<1>2. Outside \in Process
  BY <1>1 DEF Outside, Process, Nothing, Entry
<1>3. segment = <<>> /\ <<>> \in Seq(Operation) /\ Len(<<>>) = 0
  BY DEF JournalInit
<1>4. JournalTyped
  BY <1>1, <1>2, <1>3 DEF JournalInit, JournalTyped, Entry
<1>5. Placed /\ Reached
  BY <1>3 DEF JournalInit, Placed, Reached, Outside, Planning, Committing
<1> QED BY <1>4, <1>5 DEF JournalControl

\* A process that goes on keeps all it has.
LEMMA StepsOn ==
  ASSUME NEW t \in Process, NEW pc,
         pc \in {"idle", "recover", "clear", "drop"} \cup Planning \cup Committing
  PROVE  LET u == [t EXCEPT !.pc = pc]
         IN /\ u \in Process
            /\ u.pc = pc
            /\ u.goal = t.goal /\ u.path = t.path /\ u.text = t.text
            /\ u.ops = t.ops /\ u.external = t.external /\ u.seen = t.seen
            /\ u.entries = t.entries /\ u.after = t.after
BY DEF Process

\* An index that knows one file no more.
LEMMA StaleEntries ==
  ASSUME NEW entries \in [Path -> Entry], NEW p \in Path
  PROVE  /\ Stale(entries, p) \in [Path -> Entry]
         /\ \A q \in Path : Stale(entries, p)[q].text = entries[q].text
         /\ ~ Stale(entries, p)[p].same
         /\ \A q \in Path \ {p} : Stale(entries, p)[q] = entries[q]
BY DEF Stale, Entry

LEMMA NotedEntries ==
  ASSUME disk \in [Path -> Text], drift \in [Path -> Entry], NEW path,
         NEW external, NEW seen, NEW entries \in [Path -> Entry]
  PROVE  Noted(path, external, seen, entries) \in [Path -> Entry]
BY DEF Noted, Entry

LEMMA TextOf ==
  ASSUME disk \in [Path -> Text], NEW p \in Path
  PROVE  /\ [path |-> p, text |-> disk[p]] \in Operation
         /\ \A same \in BOOLEAN : [text |-> disk[p], same |-> same] \in Entry
BY DEF Operation, Entry

\* A process about to take one changed file for an operation.
LEMMA AbsorbTyped ==
  ASSUME tx \in Process, disk \in [Path -> Text], NEW p \in Path,
         NEW after \in {"recover", "plan"}
  PROVE  LET u == Absorb(p, after)
         IN /\ u \in Process
            /\ u.pc = "intent" /\ u.goal = tx.goal /\ u.path = tx.path
            /\ u.after = after /\ u.external /\ u.seen = {p}
            /\ u.ops = <<[path |-> p, text |-> disk[p]]>> /\ u.ops # <<>>
            /\ u.entries = [tx.entries EXCEPT ![p] = [text |-> disk[p], same |-> TRUE]]
<1>1. /\ <<[path |-> p, text |-> disk[p]]>> \in Seq(Operation)
      /\ [tx.entries EXCEPT ![p] = [text |-> disk[p], same |-> TRUE]] \in [Path -> Entry]
      /\ {p} \in SUBSET Path
      /\ <<[path |-> p, text |-> disk[p]]>> # <<>>
  BY DEF Operation, Entry, Process
<1> QED BY <1>1 DEF Absorb, Process, Planning

\* What an edit behind the back leaves of a redo, and of a process.
LEMMA StaleRedo ==
  ASSUME NEW r \in Redo, NEW p \in Path
  PROVE  LET q == [r EXCEPT !.entries = Stale(@, p)]
         IN /\ q \in Redo
            /\ q.start = r.start /\ q.through = r.through
            /\ q.path = r.path /\ q.external = r.external /\ q.seen = r.seen
            /\ q.entries = Stale(r.entries, p)
<1>1. r.entries \in [Path -> Entry]
  BY DEF Redo
<1>2. Stale(r.entries, p) \in [Path -> Entry]
  BY <1>1, StaleEntries
<1> QED BY <1>2 DEF Redo

LEMMA StaleProcess ==
  ASSUME NEW t \in Process, NEW p \in Path
  PROVE  LET u == [t EXCEPT !.entries = Stale(@, p)]
         IN /\ u \in Process
            /\ u.pc = t.pc /\ u.goal = t.goal /\ u.path = t.path
            /\ u.text = t.text /\ u.ops = t.ops /\ u.external = t.external
            /\ u.seen = t.seen /\ u.after = t.after
            /\ u.entries = Stale(t.entries, p)
<1>1. t.entries \in [Path -> Entry]
  BY DEF Process
<1>2. Stale(t.entries, p) \in [Path -> Entry]
  BY <1>1, StaleEntries
<1> QED BY <1>2 DEF Process

LEMMA OutsideIs ==
  /\ Outside \in Process
  /\ Outside.pc = "idle" /\ Outside.goal = "none" /\ Outside.path = NoPath
  /\ Outside.ops = <<>> /\ Outside.external = FALSE /\ Outside.after = "idle"
BY JournalAssumption DEF Outside, Process, Nothing, Entry

\* The operations of a scan: one for every file that drifted.
LEMMA ScanPlans ==
  ASSUME disk \in [Path -> Text], tx \in Process, Scan
  PROVE  LET found == {p \in Path : Drifted(p)}
         IN \E ops \in Seq(Operation), entries \in [Path -> Entry] :
              /\ tx' = [tx EXCEPT !.pc = IF found = {} THEN "compact" ELSE "intent",
                                  !.after = "compact", !.external = TRUE, !.ops = ops,
                                  !.seen = found, !.entries = entries]
              /\ found # {} => ops # <<>>
              /\ found = {ops[i].path : i \in DOMAIN ops}
              /\ Distinct(ops)
              /\ \A i \in DOMAIN ops : ops[i].text = disk[ops[i].path]
              /\ entries = [p \in Path |-> [text |-> disk[p], same |-> TRUE]]
<1> DEFINE found == {p \in Path : Drifted(p)}
           order == SetToSeq(found)
           ops == [i \in DOMAIN order |->
                      [path |-> order[i], text |-> disk[order[i]]]]
           entries == [p \in Path |-> [text |-> disk[p], same |-> TRUE]]
<1>1. IsFiniteSet(found)
  BY JournalAssumption, FS_Subset
<1>2. /\ order \in Seq(found)
      /\ \A i, j \in DOMAIN order : order[i] = order[j] => i = j
      /\ found = {order[i] : i \in DOMAIN order}
  <2> HIDE DEF found
  <2> QED BY <1>1, Ordered
<1>3. tx' = [tx EXCEPT !.pc = IF found = {} THEN "compact" ELSE "intent",
                       !.after = "compact", !.external = TRUE, !.ops = ops,
                       !.seen = found, !.entries = entries]
  BY DEF Scan
<1>4. found \subseteq Path
  OBVIOUS
<1> HIDE DEF found, order
<1>5. \A i \in DOMAIN order : [path |-> order[i], text |-> disk[order[i]]] \in Operation
  BY <1>2, <1>4 DEF Operation
<1>6. ops \in Seq(Operation) /\ DOMAIN ops = DOMAIN order
  BY <1>2, <1>5
<1>7. entries \in [Path -> Entry]
  BY DEF Entry
<1>8. \A i \in DOMAIN ops : ops[i].path = order[i] /\ ops[i].text = disk[order[i]]
  OBVIOUS
<1> HIDE DEF ops, entries
<1>9. found # {} => ops # <<>>
  <2>1. found # {} => DOMAIN order # {}
    BY <1>2
  <2> QED BY <2>1, <1>6
<1>10. found = {ops[i].path : i \in DOMAIN ops}
  BY <1>2, <1>6, <1>8
<1>11. Distinct(ops)
  BY <1>2, <1>6, <1>8 DEF Distinct
<1> QED BY <1>3, <1>6, <1>7, <1>8, <1>9, <1>10, <1>11 DEF found, entries

LEMMA ControlKept ==
  ASSUME JournalControl, [JournalNext]_journalVars
  PROVE  JournalControl'
<1> USE DEF JournalControl
<1>0. /\ Blank \in Text /\ NoPath \notin Path /\ Outside \in Process
      /\ segment \in Seq(Operation) /\ Len(segment) \in Nat
      /\ tx.ops \in Seq(Operation) /\ Len(tx.ops) \in Nat
      /\ disk \in [Path -> Text] /\ drift \in [Path -> Entry]
      /\ redo \in SUBSET Redo /\ tx \in Process /\ tx.entries \in [Path -> Entry]
      /\ sent \in Nat /\ writes \in Nat /\ kills \in Nat
  BY JournalAssumption DEF Outside, Process, Nothing, Entry, JournalTyped
<1>1. ASSUME NEW p \in Path, NEW text \in Text, EditBehind(p, text)
     PROVE  JournalControl'
  <2>0. \A r \in redo : r \in Redo
    BY <1>0
  <2>1. /\ tx' \in Process
        /\ tx'.pc = tx.pc /\ tx'.goal = tx.goal /\ tx'.path = tx.path
        /\ tx'.ops = tx.ops /\ tx'.external = tx.external /\ tx'.after = tx.after
    BY <1>0, <1>1, StaleProcess DEF EditBehind
  <2>a. ASSUME NEW q \in redo'
        PROVE  q \in Redo /\ \E r \in redo : q.start = r.start /\ q.through = r.through
    <3>1. PICK r \in redo : q = [r EXCEPT !.entries = Stale(@, p)]
      BY <1>1 DEF EditBehind
    <3> QED BY <2>0, <3>1, StaleRedo
  <2>b. /\ redo = {} <=> redo' = {}
        /\ (\A r, s \in redo : r = s) => \A r, s \in redo' : r = s
    BY <1>1 DEF EditBehind
  <2>2. /\ disk' \in [Path -> Text] /\ segment' \in Seq(Operation)
        /\ drift' \in [Path -> Entry] /\ redo' \in SUBSET Redo
        /\ sent' \in Nat /\ writes' \in Nat /\ kills' \in Nat
    <3>1. drift' \in [Path -> Entry]
      BY <1>0, <1>1, StaleEntries DEF EditBehind
    <3>2. disk' \in [Path -> Text]
      BY <1>0, <1>1 DEF EditBehind
    <3>3. segment' \in Seq(Operation) /\ sent' \in Nat /\ writes' \in Nat /\ kills' \in Nat
      BY <1>0, <1>1 DEF EditBehind
    <3> QED BY <2>a, <3>1, <3>2, <3>3
  <2>3. Placed'
    BY <2>1, <2>b DEF Placed
  <2>4. Reached'
    <3>1. segment' = segment /\ sent' = sent
      BY <1>1 DEF EditBehind
    <3>2. ASSUME NEW q \in redo' PROVE Reach(q)'
      <4>1. PICK r \in redo : q.start = r.start /\ q.through = r.through
        BY <2>a
      <4>2. Reach(r)
        BY DEF Reached
      <4> QED BY <2>1, <3>1, <4>1, <4>2 DEF Reach
    <3> QED BY <2>b, <3>1, <3>2 DEF Reached
  <2> QED BY <2>1, <2>2, <2>3, <2>4 DEF JournalTyped
<1>2. ASSUME NEW p \in Path, NEW text \in Text, BeginWrite(p, text)
     PROVE  JournalControl'
  <2>1. tx' \in Process
    BY <1>0, <1>2 DEF BeginWrite, In, Outside, Process, Planning, Committing
  <2>2. /\ disk' \in [Path -> Text] /\ segment' \in Seq(Operation)
        /\ drift' \in [Path -> Entry] /\ redo' \in SUBSET Redo
        /\ sent' \in Nat /\ writes' \in Nat /\ kills' \in Nat
    BY <1>0, <1>2 DEF BeginWrite, In
  <2>3. Placed'
    BY <1>0, <1>2, <2>1 DEF BeginWrite, In, Placed, Planning, Committing, Process
  <2>4. Reached'
    BY <1>0, <1>2, <2>1 DEF BeginWrite, In, Placed, Reached, Reach, Redo, Planning, Committing, Process
  <2> QED BY <2>1, <2>2, <2>3, <2>4 DEF JournalTyped
<1>3. ASSUME BeginScan
     PROVE  JournalControl'
  <2>1. tx' \in Process
    BY <1>0, <1>3 DEF BeginScan, In, Outside, Process
  <2>2. /\ disk' \in [Path -> Text] /\ segment' \in Seq(Operation)
        /\ drift' \in [Path -> Entry] /\ redo' \in SUBSET Redo
        /\ sent' \in Nat /\ writes' \in Nat /\ kills' \in Nat
    BY <1>0, <1>3 DEF BeginScan, In
  <2>3. Placed'
    BY <1>0, <1>3 DEF BeginScan, In, Outside, Placed, Planning, Committing
  <2>4. Reached'
    BY <1>0, <1>3, <2>1 DEF BeginScan, In, Placed, Reached, Reach, Redo, Planning, Committing, Process
  <2> QED BY <2>1, <2>2, <2>3, <2>4 DEF JournalTyped
<1>4. ASSUME BeginRead
     PROVE  JournalControl'
  <2>1. tx' \in Process
    BY <1>0, <1>4 DEF BeginRead, In, Outside, Process
  <2>2. /\ disk' \in [Path -> Text] /\ segment' \in Seq(Operation)
        /\ drift' \in [Path -> Entry] /\ redo' \in SUBSET Redo
        /\ sent' \in Nat /\ writes' \in Nat /\ kills' \in Nat
    BY <1>0, <1>4 DEF BeginRead, In
  <2>3. Placed'
    BY <1>0, <1>4 DEF BeginRead, In, Outside, Placed, Planning, Committing
  <2>4. Reached'
    BY <1>0, <1>4, <2>1 DEF BeginRead, In, Placed, Reached, Reach, Redo, Planning, Committing, Process
  <2> QED BY <2>1, <2>2, <2>3, <2>4 DEF JournalTyped
<1>5. ASSUME NothingToRecover
     PROVE  JournalControl'
  <2>1. tx' \in Process
    BY <1>0, <1>5, StepsOn DEF NothingToRecover, In, Goes, Placed, Process, Planning
  <2>2. /\ disk' \in [Path -> Text] /\ segment' \in Seq(Operation)
        /\ drift' \in [Path -> Entry] /\ redo' \in SUBSET Redo
        /\ sent' \in Nat /\ writes' \in Nat /\ kills' \in Nat
    BY <1>0, <1>5 DEF NothingToRecover, In, Goes
  <2>3. Placed'
    BY <1>0, <1>5, <2>1 DEF NothingToRecover, In, Goes, Placed, Planning, Committing, Process
  <2>4. Reached'
    BY <1>0, <1>5, <2>1 DEF NothingToRecover, In, Goes, Placed, Reached, Reach, Redo, Planning, Committing, Process
  <2> QED BY <2>1, <2>2, <2>3, <2>4 DEF JournalTyped
<1>6. ASSUME RecoverCommitted
     PROVE  JournalControl'
  <2>1. tx' \in Process
    BY <1>0, <1>6, StepsOn DEF RecoverCommitted, In, Goes, Committed, JournalTyped, Planning, Committing
  <2>2. /\ disk' \in [Path -> Text] /\ segment' \in Seq(Operation)
        /\ drift' \in [Path -> Entry] /\ redo' \in SUBSET Redo
        /\ sent' \in Nat /\ writes' \in Nat /\ kills' \in Nat
    BY <1>0, <1>6, NotedEntries DEF RecoverCommitted, In, Goes, Committed, Redo
  <2>3. Placed'
    BY <1>0, <1>6, <2>1 DEF RecoverCommitted, In, Goes, Committed, Placed, Planning, Committing, Process
  <2>4. Reached'
    BY <1>0, <1>6, <2>1 DEF RecoverCommitted, In, Goes, Committed, Placed, Reached, Reach, Redo, Planning, Committing, Process
  <2> QED BY <2>1, <2>2, <2>3, <2>4 DEF JournalTyped
<1>7. ASSUME RecoverClear
     PROVE  JournalControl'
  <2>1. tx' \in Process
    BY <1>0, <1>7, StepsOn DEF RecoverClear, In, Goes, JournalTyped, Planning, Committing
  <2>2. /\ disk' \in [Path -> Text] /\ segment' \in Seq(Operation)
        /\ drift' \in [Path -> Entry] /\ redo' \in SUBSET Redo
        /\ sent' \in Nat /\ writes' \in Nat /\ kills' \in Nat
    BY <1>0, <1>7 DEF RecoverClear, In, Goes
  <2>3. Placed'
    BY <1>0, <1>7, <2>1 DEF RecoverClear, In, Goes, Placed, Planning, Committing, Process
  <2>4. Reached'
    BY <1>0, <1>7, <2>1 DEF RecoverClear, In, Goes, Placed, Reached, Reach, Redo, Planning, Committing, Process
  <2> QED BY <2>1, <2>2, <2>3, <2>4 DEF JournalTyped
<1>8. ASSUME RecoverTorn
     PROVE  JournalControl'
  <2>1. tx' \in Process
    BY <1>0, <1>8, StepsOn DEF RecoverTorn, In, Goes, Committed, CutBack, JournalTyped, Planning, Committing
  <2>2. /\ disk' \in [Path -> Text] /\ segment' \in Seq(Operation)
        /\ drift' \in [Path -> Entry] /\ redo' \in SUBSET Redo
        /\ sent' \in Nat /\ writes' \in Nat /\ kills' \in Nat
    BY <1>0, <1>8 DEF RecoverTorn, In, Goes, Committed, CutBack, Reached, Reach, Redo
  <2>3. Placed'
    BY <1>0, <1>8, <2>1 DEF RecoverTorn, In, Goes, Committed, CutBack, Placed, Planning, Committing, Process
  <2>4. Reached'
    BY <1>0, <1>8, <2>1 DEF RecoverTorn, In, Goes, Committed, CutBack, Placed, Reached, Reach, Redo, Planning, Committing, Process
  <2> QED BY <2>1, <2>2, <2>3, <2>4 DEF JournalTyped
<1>9. ASSUME RecoverDrop
     PROVE  JournalControl'
  <2>a. PICK r \in redo :
           tx' = IF r.path = NoPath THEN Goes("recover")
                 ELSE [tx EXCEPT !.pc = "verify", !.seen = {r.path}]
    BY <1>9 DEF RecoverDrop
  <2>b. r.path # NoPath => r.path \in Path
    BY <1>0 DEF Redo
  <2>c. /\ tx.pc = "drop" /\ redo' = {}
        /\ UNCHANGED <<disk, segment, drift, sent, writes, kills>>
    BY <1>9 DEF RecoverDrop, In
  <2>1. /\ tx' \in Process /\ tx'.pc \in {"recover", "verify"}
        /\ tx'.goal = tx.goal /\ tx'.path = tx.path /\ tx'.after = tx.after
    <3>1. CASE r.path = NoPath
      BY <1>0, <2>a, <3>1, StepsOn DEF Goes
    <3>2. CASE r.path # NoPath
      BY <1>0, <2>a, <2>b, <3>2 DEF Process, Planning
    <3> QED BY <3>1, <3>2
  <2>2. /\ disk' \in [Path -> Text] /\ segment' \in Seq(Operation)
        /\ drift' \in [Path -> Entry] /\ redo' \in SUBSET Redo
        /\ sent' \in Nat /\ writes' \in Nat /\ kills' \in Nat
    BY <1>0, <2>c
  <2>3. Placed'
    BY <2>1, <2>c DEF Placed, Planning, Committing
  <2>4. Reached'
    BY <2>1, <2>c DEF Reached, Reach
  <2> QED BY <2>1, <2>2, <2>3, <2>4 DEF JournalTyped
<1>10. ASSUME Verify
     PROVE  JournalControl'
  <2>a. PICK p \in tx.seen :
           tx' = IF disk[p] # drift[p].text THEN Absorb(p, "recover") ELSE Goes("recover")
    BY <1>10 DEF Verify
  <2>b. p \in Path
    BY <1>0 DEF Process
  <2>c. tx.pc = "verify" /\ UNCHANGED <<disk, segment, drift, redo, sent, writes, kills>>
    BY <1>10 DEF Verify, In
  <2>1. /\ tx' \in Process
        /\ tx'.pc \in {"recover", "intent"} /\ tx'.goal = tx.goal /\ tx'.path = tx.path
        /\ tx'.pc = "intent" => tx'.ops # <<>> /\ tx'.external /\ tx'.after = "recover"
        /\ tx'.pc = "recover" => tx'.after = tx.after
    <3>1. CASE disk[p] # drift[p].text
      <4>1. tx' = Absorb(p, "recover")
        BY <2>a, <3>1
      <4> QED BY <1>0, <2>b, <4>1, AbsorbTyped
    <3>2. CASE disk[p] = drift[p].text
      <4>1. tx' = [tx EXCEPT !.pc = "recover"]
        BY <2>a, <3>2 DEF Goes
      <4> QED BY <1>0, <4>1 DEF Process
    <3> QED BY <3>1, <3>2
  <2>2. /\ disk' \in [Path -> Text] /\ segment' \in Seq(Operation)
        /\ drift' \in [Path -> Entry] /\ redo' \in SUBSET Redo
        /\ sent' \in Nat /\ writes' \in Nat /\ kills' \in Nat
    BY <1>0, <2>c
  <2>3. Placed'
    BY <2>1, <2>c DEF Placed, Planning, Committing
  <2>4. Reached'
    BY <2>1, <2>c DEF Reached, Reach, Placed, Planning
  <2> QED BY <2>1, <2>2, <2>3, <2>4 DEF JournalTyped
<1>11. ASSUME AbsorbBeforeWrite
     PROVE  JournalControl'
  <2>a. tx' = IF Drifted(tx.path) THEN Absorb(tx.path, "plan") ELSE Goes("plan")
    BY <1>11 DEF AbsorbBeforeWrite
  <2>c. tx.pc = "absorb" /\ UNCHANGED <<disk, segment, drift, redo, sent, writes, kills>>
    BY <1>11 DEF AbsorbBeforeWrite, In
  <2>b. tx.path \in Path
    BY <2>c DEF Placed
  <2>1. /\ tx' \in Process
        /\ tx'.pc \in {"plan", "intent"} /\ tx'.goal = tx.goal /\ tx'.path = tx.path
        /\ tx'.pc = "intent" => tx'.ops # <<>> /\ tx'.external
    <3>1. CASE Drifted(tx.path)
      <4>1. tx' = Absorb(tx.path, "plan")
        BY <2>a, <3>1
      <4> QED BY <1>0, <2>b, <4>1, AbsorbTyped
    <3>2. CASE ~ Drifted(tx.path)
      <4>1. tx' = [tx EXCEPT !.pc = "plan"]
        BY <2>a, <3>2 DEF Goes
      <4> QED BY <1>0, <4>1 DEF Process, Planning
    <3> QED BY <3>1, <3>2
  <2>2. /\ disk' \in [Path -> Text] /\ segment' \in Seq(Operation)
        /\ drift' \in [Path -> Entry] /\ redo' \in SUBSET Redo
        /\ sent' \in Nat /\ writes' \in Nat /\ kills' \in Nat
    BY <1>0, <2>c
  <2>3. Placed'
    BY <2>1, <2>c DEF Placed, Planning, Committing
  <2>4. Reached'
    BY <2>1, <2>c DEF Reached, Reach, Placed, Planning
  <2> QED BY <2>1, <2>2, <2>3, <2>4 DEF JournalTyped
<1>12. ASSUME PlanWrite
     PROVE  JournalControl'
  <2>a. /\ tx.pc = "plan" /\ redo = {} /\ tx.goal = "absorb" /\ tx.path \in Path
        /\ UNCHANGED <<disk, segment, redo, sent, writes, kills>>
    BY <1>12 DEF PlanWrite, In, Placed, Planning
  <2>b. tx.text \in Text /\ <<[path |-> tx.path, text |-> tx.text]>> \in Seq(Operation)
    BY <1>0, <2>a DEF Process, Operation
  <2>1. /\ tx' \in Process
        /\ \/ tx' = Outside
           \/ /\ tx'.pc = "intent" /\ tx'.goal = tx.goal /\ tx'.path = tx.path
              /\ tx'.ops # <<>> /\ tx'.after = "idle"
    <3>1. CASE disk[tx.path] = tx.text
      BY <1>12, <3>1, OutsideIs DEF PlanWrite
    <3>2. CASE disk[tx.path] # tx.text
      <4>1. tx' = [tx EXCEPT !.pc = "intent", !.after = "idle",
                         !.external = FALSE, !.seen = {},
                         !.ops = <<[path |-> tx.path, text |-> tx.text]>>]
        BY <1>12, <3>2 DEF PlanWrite
      <4> QED BY <1>0, <2>b, <4>1 DEF Process, Planning
    <3> QED BY <3>1, <3>2
  <2>2. /\ disk' \in [Path -> Text] /\ segment' \in Seq(Operation)
        /\ drift' \in [Path -> Entry] /\ redo' \in SUBSET Redo
        /\ sent' \in Nat /\ writes' \in Nat /\ kills' \in Nat
    <3>0. [text |-> tx.text, same |-> TRUE] \in Entry
      BY <2>b DEF Entry
    <3>1. drift' \in [Path -> Entry]
      <4>1. \/ drift' = drift
            \/ drift' = [drift EXCEPT ![tx.path] = [text |-> tx.text, same |-> TRUE]]
        BY <1>12 DEF PlanWrite
      <4> QED BY <1>0, <2>a, <3>0, <4>1
    <3> QED BY <1>0, <2>a, <3>1
  <2>3. Placed'
    BY <2>1, <2>a, OutsideIs DEF Placed, Planning, Committing
  <2>4. Reached'
    BY <2>a DEF Reached
  <2> QED BY <2>1, <2>2, <2>3, <2>4 DEF JournalTyped
<1>13. ASSUME Scan
     PROVE  JournalControl'
  <2>a. tx.pc = "scan" /\ redo = {} /\ UNCHANGED <<disk, segment, drift, redo, sent, writes, kills>>
    BY <1>13 DEF Scan, In, Placed, Planning
  <2>b. PICK found \in SUBSET Path, ops \in Seq(Operation), entries \in [Path -> Entry] :
           /\ tx' = [tx EXCEPT !.pc = IF found = {} THEN "compact" ELSE "intent",
                               !.after = "compact", !.external = TRUE, !.ops = ops,
                               !.seen = found, !.entries = entries]
           /\ found # {} => ops # <<>>
    BY <1>0, <1>13, ScanPlans DEF Scan
  <2>1. /\ tx' \in Process
        /\ tx'.pc \in {"compact", "intent"} /\ tx'.goal = tx.goal /\ tx'.path = tx.path
        /\ tx'.pc = "intent" => tx'.ops # <<>> /\ tx'.external
        /\ tx'.after = "compact"
    BY <1>0, <2>b DEF Process, Planning
  <2>2. /\ disk' \in [Path -> Text] /\ segment' \in Seq(Operation)
        /\ drift' \in [Path -> Entry] /\ redo' \in SUBSET Redo
        /\ sent' \in Nat /\ writes' \in Nat /\ kills' \in Nat
    BY <1>0, <2>a
  <2>3. Placed'
    BY <2>1, <2>a DEF Placed, Planning, Committing
  <2>4. Reached'
    BY <2>a DEF Reached
  <2> QED BY <2>1, <2>2, <2>3, <2>4 DEF JournalTyped
<1>14. ASSUME CompactIndex
     PROVE  JournalControl'
  <2>1. tx' \in Process
    BY <1>0, <1>14 DEF CompactIndex, In
  <2>2. /\ disk' \in [Path -> Text] /\ segment' \in Seq(Operation)
        /\ drift' \in [Path -> Entry] /\ redo' \in SUBSET Redo
        /\ sent' \in Nat /\ writes' \in Nat /\ kills' \in Nat
    BY <1>0, <1>14 DEF CompactIndex, In
  <2>3. Placed'
    BY <1>0, <1>14, OutsideIs DEF CompactIndex, In, Placed, Planning, Committing
  <2>4. Reached'
    BY <1>0, <1>14, <2>1 DEF CompactIndex, In, Placed, Reached, Reach, Redo, Planning, Committing, Process
  <2> QED BY <2>1, <2>2, <2>3, <2>4 DEF JournalTyped
<1>15. ASSUME ReadLog
     PROVE  JournalControl'
  <2>1. tx' \in Process
    BY <1>0, <1>15 DEF ReadLog, In
  <2>2. /\ disk' \in [Path -> Text] /\ segment' \in Seq(Operation)
        /\ drift' \in [Path -> Entry] /\ redo' \in SUBSET Redo
        /\ sent' \in Nat /\ writes' \in Nat /\ kills' \in Nat
    BY <1>0, <1>15 DEF ReadLog, In
  <2>3. Placed'
    BY <1>0, <1>15, OutsideIs DEF ReadLog, In, Placed, Planning, Committing
  <2>4. Reached'
    BY <1>0, <1>15, <2>1 DEF ReadLog, In, Placed, Reached, Reach, Redo, Planning, Committing, Process
  <2> QED BY <2>1, <2>2, <2>3, <2>4 DEF JournalTyped
<1>16. ASSUME CommitIntent
     PROVE  JournalControl'
  <2>a. /\ tx.pc = "intent" /\ redo = {} /\ tx.ops # <<>>
        /\ UNCHANGED <<disk, segment, drift, sent, writes, kills>>
    BY <1>16 DEF CommitIntent, In, Placed, Planning
  <2>b. Len(tx.ops) \in Nat \ {0} /\ tx.ops[1] \in Operation
    BY <1>0, <2>a
  <2>c. RedoPath \in Path \cup {NoPath}
    BY <2>b DEF RedoPath, Operation
  <2>d. PICK r \in Redo : /\ redo' = {r}
                          /\ r.start = Len(segment)
                          /\ r.through = Len(segment) + Len(tx.ops)
    <3> DEFINE r == [path |-> RedoPath, external |-> tx.external,
                     start |-> Len(segment),
                     through |-> Len(segment) + Len(tx.ops),
                     seen |-> tx.seen, entries |-> tx.entries]
    <3>1. r \in Redo
      BY <1>0, <2>b, <2>c DEF Redo, Process
    <3>2. redo' = {r}
      BY <1>16 DEF CommitIntent
    <3> QED BY <3>1, <3>2
  <2>1. /\ tx' \in Process /\ tx'.goal = tx.goal /\ tx'.path = tx.path /\ tx'.ops = tx.ops
        /\ tx'.external = tx.external /\ tx'.after = tx.after
        /\ tx'.pc = IF tx.external THEN "append" ELSE "file"
    <3>1. tx' = [tx EXCEPT !.pc = IF tx.external THEN "append" ELSE "file"]
      BY <1>16 DEF CommitIntent, Goes
    <3>2. CASE tx.external
      BY <1>0, <3>1, <3>2 DEF Process, Committing
    <3>3. CASE ~ tx.external
      BY <1>0, <3>1, <3>3 DEF Process, Committing
    <3> QED BY <3>2, <3>3
  <2>2. /\ disk' \in [Path -> Text] /\ segment' \in Seq(Operation)
        /\ drift' \in [Path -> Entry] /\ redo' \in SUBSET Redo
        /\ sent' \in Nat /\ writes' \in Nat /\ kills' \in Nat
    BY <1>0, <2>a, <2>d
  <2>3. Placed'
    BY <2>1, <2>a, <2>d DEF Placed, Planning, Committing
  <2>4. Reached'
    <3>1. sent \in Nat /\ sent <= Len(segment)
      BY <1>0 DEF Reached
    <3>2. Reach(r)'
      BY <1>0, <2>1, <2>a, <2>b, <2>d, <3>1 DEF Reach
    <3> QED BY <2>a, <2>d, <3>1, <3>2 DEF Reached
  <2> QED BY <2>1, <2>2, <2>3, <2>4 DEF JournalTyped
<1>17. ASSUME CommitFile
     PROVE  JournalControl'
  <2>1. tx' \in Process
    BY <1>0, <1>17, StepsOn DEF CommitFile, In, Goes, JournalTyped, Planning, Committing
  <2>2. /\ disk' \in [Path -> Text] /\ segment' \in Seq(Operation)
        /\ drift' \in [Path -> Entry] /\ redo' \in SUBSET Redo
        /\ sent' \in Nat /\ writes' \in Nat /\ kills' \in Nat
    BY <1>0, <1>17, StaleEntries DEF CommitFile, In, Goes, Process, Placed, Planning, Committing
  <2>3. Placed'
    BY <1>0, <1>17, <2>1 DEF CommitFile, In, Goes, Placed, Planning, Committing, Process
  <2>4. Reached'
    BY <1>0, <1>17, <2>1 DEF CommitFile, In, Goes, Placed, Reached, Reach, Redo, Planning, Committing, Process
  <2> QED BY <2>1, <2>2, <2>3, <2>4 DEF JournalTyped
<1>18. ASSUME CommitAppend
     PROVE  JournalControl'
  <2>a. /\ tx.pc = "append" /\ segment' = segment \o tx.ops
        /\ UNCHANGED <<disk, drift, redo, sent, writes, kills>>
    BY <1>18 DEF CommitAppend, In
  <2>b. segment' \in Seq(Operation) /\ Len(segment') = Len(segment) + Len(tx.ops)
    BY <1>0, <2>a
  <2>1. /\ tx' \in Process /\ tx'.pc = "record"
        /\ tx'.goal = tx.goal /\ tx'.path = tx.path /\ tx'.ops = tx.ops
        /\ tx'.external = tx.external /\ tx'.after = tx.after
    BY <1>0, <1>18, StepsOn DEF CommitAppend, Goes, Committing
  <2>2. /\ disk' \in [Path -> Text] /\ segment' \in Seq(Operation)
        /\ drift' \in [Path -> Entry] /\ redo' \in SUBSET Redo
        /\ sent' \in Nat /\ writes' \in Nat /\ kills' \in Nat
    BY <1>0, <2>a, <2>b
  <2>3. Placed'
    BY <2>1, <2>a DEF Placed, Planning, Committing
  <2>4. Reached'
    <3>2. ASSUME NEW r \in redo PROVE Reach(r)'
      <4>1. r.start \in Nat /\ r.through \in Nat
        BY <1>0 DEF Redo
      <4>2. Reach(r)
        BY DEF Reached
      <4>3. /\ sent <= r.start /\ r.start < r.through /\ Len(segment) = r.start
            /\ r.through = r.start + Len(tx.ops)
        BY <2>a, <4>2 DEF Reach
      <4>4. Len(segment') = r.through
        BY <1>0, <2>b, <4>1, <4>3
      <4> QED BY <1>0, <2>1, <2>a, <4>1, <4>3, <4>4 DEF Reach
    <3> QED BY <1>0, <2>a, <2>b, <3>2 DEF Reached
  <2> QED BY <2>1, <2>2, <2>3, <2>4 DEF JournalTyped
<1>19. ASSUME CommitRecord
     PROVE  JournalControl'
  <2>1. tx' \in Process
    BY <1>0, <1>19, StepsOn DEF CommitRecord, In, Goes, JournalTyped, Planning, Committing
  <2>2. /\ disk' \in [Path -> Text] /\ segment' \in Seq(Operation)
        /\ drift' \in [Path -> Entry] /\ redo' \in SUBSET Redo
        /\ sent' \in Nat /\ writes' \in Nat /\ kills' \in Nat
    BY <1>0, <1>19, NotedEntries DEF CommitRecord, In, Goes
  <2>3. Placed'
    BY <1>0, <1>19, <2>1 DEF CommitRecord, In, Goes, Placed, Planning, Committing, Process
  <2>4. Reached'
    BY <1>0, <1>19, <2>1 DEF CommitRecord, In, Goes, Placed, Reached, Reach, Redo, Planning, Committing, Process
  <2> QED BY <2>1, <2>2, <2>3, <2>4 DEF JournalTyped
<1>20. ASSUME CommitClose
     PROVE  JournalControl'
  <2>a. /\ tx.pc = "close" /\ redo' = {}
        /\ UNCHANGED <<disk, segment, drift, sent, writes, kills>>
        /\ tx' = IF tx.after = "idle" THEN Outside
                 ELSE [tx EXCEPT !.pc = tx.after, !.ops = <<>>]
    BY <1>20 DEF CommitClose, In
  <2>b. tx.after \in {"idle", "recover", "plan", "compact"} /\ <<>> \in Seq(Operation)
    BY <1>0 DEF Process
  <2>1. /\ tx' \in Process
        /\ \/ tx' = Outside
           \/ /\ tx'.pc = tx.after /\ tx'.goal = tx.goal /\ tx'.path = tx.path
              /\ tx'.after = tx.after /\ tx.after # "idle"
    BY <1>0, <2>a, <2>b DEF Process, Planning
  <2>2. /\ disk' \in [Path -> Text] /\ segment' \in Seq(Operation)
        /\ drift' \in [Path -> Entry] /\ redo' \in SUBSET Redo
        /\ sent' \in Nat /\ writes' \in Nat /\ kills' \in Nat
    BY <1>0, <2>a
  <2>3. Placed'
    BY <2>1, <2>a, <2>b, OutsideIs DEF Placed, Planning, Committing
  <2>4. Reached'
    BY <2>a DEF Reached
  <2> QED BY <2>1, <2>2, <2>3, <2>4 DEF JournalTyped
<1>21. ASSUME JournalKilled
     PROVE  JournalControl'
  <2>a. /\ tx' = Outside /\ kills' = kills + 1
        /\ UNCHANGED <<disk, drift, redo, sent, writes>>
        /\ \/ UNCHANGED segment
           \/ /\ tx.pc = "append"
              /\ \E k \in 1 .. Len(tx.ops) : segment' = segment \o SubSeq(tx.ops, 1, k)
    BY <1>21 DEF JournalKilled, In
  <2>b. /\ segment' \in Seq(Operation)
        /\ \/ segment' = segment
           \/ /\ tx.pc = "append"
              /\ \E k \in 1 .. Len(tx.ops) : Len(segment') = Len(segment) + k
    <3>1. CASE UNCHANGED segment
      BY <1>0, <3>1
    <3>2. CASE /\ tx.pc = "append"
               /\ \E k \in 1 .. Len(tx.ops) : segment' = segment \o SubSeq(tx.ops, 1, k)
      <4>1. PICK k \in 1 .. Len(tx.ops) : segment' = segment \o SubSeq(tx.ops, 1, k)
        BY <3>2
      <4>2. k \in 0 .. Len(tx.ops)
        BY <1>0
      <4>3. segment' \in Seq(Operation) /\ Len(segment') = Len(segment) + k
        BY <1>0, <4>1, <4>2, Behind
      <4> QED BY <3>2, <4>3
    <3> QED BY <2>a, <3>1, <3>2
  <2>1. tx' \in Process
    BY <2>a, OutsideIs
  <2>2. /\ disk' \in [Path -> Text] /\ segment' \in Seq(Operation)
        /\ drift' \in [Path -> Entry] /\ redo' \in SUBSET Redo
        /\ sent' \in Nat /\ writes' \in Nat /\ kills' \in Nat
    BY <1>0, <2>a, <2>b
  <2>3. Placed'
    BY <2>a, OutsideIs DEF Placed, Planning, Committing
  <2>4. Reached'
    <3>1. tx'.pc = "idle"
      BY <2>a, OutsideIs
    <3>2. ASSUME NEW r \in redo PROVE Reach(r)'
      <4>1. r.start \in Nat /\ r.through \in Nat
        BY <1>0 DEF Redo
      <4>2. Reach(r)
        BY DEF Reached
      <4> QED BY <1>0, <2>a, <2>b, <3>1, <4>1, <4>2 DEF Reach
    <3> QED BY <1>0, <2>a, <2>b, <3>2 DEF Reached
  <2> QED BY <2>1, <2>2, <2>3, <2>4 DEF JournalTyped
<1>22. CASE UNCHANGED journalVars
  <2> USE <1>22 DEF journalVars
  <2>1. JournalTyped'
    BY DEF JournalTyped
  <2>2. Placed' /\ Reached'
    BY DEF Placed, Reached, Reach
  <2> QED BY <2>1, <2>2
<1> QED BY <1>1, <1>2, <1>3, <1>4, <1>5, <1>6, <1>7, <1>8, <1>9, <1>10, <1>11, <1>12, <1>13, <1>14, <1>15, <1>16, <1>17, <1>18, <1>19, <1>20, <1>21, <1>22
    DEF JournalNext, JournalStep

LEMMA ControlAlways == JournalSpec => []JournalControl
<1>1. JournalInit => JournalControl
  BY ControlAtFirst
<1>2. JournalControl /\ [JournalNext]_journalVars => JournalControl'
  BY ControlKept
<1> QED BY <1>1, <1>2, PTL DEF JournalSpec

-----------------------------------------------------------------------------
(* What was sent.                                                          *)

SentStays == \A i \in 1 .. sent : /\ i <= Len(segment')
                                  /\ segment'[i] = segment[i]

LEMMA SentStaysPut ==
  ASSUME JournalControl, JournalNext
  PROVE  SentStays
<1>0. /\ segment \in Seq(Operation) /\ Len(segment) \in Nat
      /\ tx.ops \in Seq(Operation) /\ redo \in SUBSET Redo
      /\ sent \in Nat /\ sent <= Len(segment)
  BY DEF JournalControl, JournalTyped, Process, Reached
<1>1. CASE UNCHANGED segment
  BY <1>0, <1>1 DEF SentStays
<1>2. CASE RecoverTorn
  <2>1. PICK r \in redo : segment' = SubSeq(segment, 1, r.start)
    BY <1>2 DEF RecoverTorn, CutBack
  <2>2. /\ r.start \in Nat /\ sent <= r.start /\ r.start <= Len(segment)
    BY <1>0 DEF JournalControl, Reached, Reach, Redo
  <2>3. /\ Len(segment') = r.start
        /\ \A i \in 1 .. r.start : segment'[i] = segment[i]
    BY <1>0, <2>1, <2>2
  <2> QED BY <1>0, <2>2, <2>3 DEF SentStays
<1>3. CASE CommitAppend
  <2>1. segment' = segment \o tx.ops
    BY <1>3 DEF CommitAppend
  <2>2. /\ Len(segment') = Len(segment) + Len(tx.ops) /\ Len(tx.ops) \in Nat
        /\ \A i \in 1 .. Len(segment) : segment'[i] = segment[i]
    BY <1>0, <2>1
  <2> QED BY <1>0, <2>2 DEF SentStays
<1>4. CASE JournalKilled
  <2>1. ASSUME NEW k \in 1 .. Len(tx.ops), segment' = segment \o SubSeq(tx.ops, 1, k)
        PROVE  SentStays
    <3>1. k \in 0 .. Len(tx.ops)
      BY <1>0
    <3>2. /\ Len(segment') = Len(segment) + k
          /\ \A i \in 1 .. Len(segment) : segment'[i] = segment[i]
      BY <1>0, <2>1, <3>1, Behind
    <3> QED BY <1>0, <3>2 DEF SentStays
  <2> QED BY <1>1, <1>4, <2>1 DEF JournalKilled
<1> QED BY <1>1, <1>2, <1>3, <1>4
    DEF JournalNext, JournalStep, EditBehind, BeginWrite, BeginScan, BeginRead,
        NothingToRecover, RecoverCommitted, RecoverClear, RecoverDrop, Verify,
        AbsorbBeforeWrite, PlanWrite, Scan, CompactIndex, ReadLog,
        CommitIntent, CommitFile, CommitRecord, CommitClose

\* What the sync worker has read is never withdrawn or changed: a reader
\* recovers first, so that a redo that can still be cut back begins behind
\* all it reads.
THEOREM SentStands == JournalSpec => SentIsNeverWithdrawn
<1>1. JournalControl /\ [JournalNext]_journalVars
         => [\A i \in 1 .. sent :
                i <= Len(segment') /\ segment'[i] = segment[i]]_journalVars
  BY SentStaysPut DEF SentStays
<1> QED BY <1>1, ControlAlways, PTL DEF JournalSpec, SentIsNeverWithdrawn

-----------------------------------------------------------------------------
(* What the index, the journal and the files say of each other, where      *)
(* editors wait.                                                           *)

\* Outside a plan and a commit a process has nothing to be wrong about.
LEMMA AtEase ==
  ASSUME tx'.pc \in {"idle", "recover", "clear", "drop", "verify", "absorb",
                     "scan", "read"}
  PROVE  /\ RedoMatches' /\ OpsChange' /\ Absorbed' /\ Commanded' /\ External'
         /\ SeenStands' /\ Scanned' /\ PlansOnJournal'
BY DEF RedoMatches, OpsChange, Absorbed, Commanded, External, SeenStands,
       Scanned, PlansOnJournal

\* Nothing that is told, or that tells, changed.
LEMMA StillTells ==
  ASSUME JournalSound, UNCHANGED <<disk, segment, drift, redo>>
  PROVE  /\ tx'.pc \notin {"clear", "close"} => IndexTells'
         /\ NoChangeTwice'
BY DEF JournalSound, IndexTells, Tells, Noted, NoChangeTwice

\* A step to where a process is at ease, that writes nothing.
LEMMA RestsSound ==
  ASSUME JournalSound, UNCHANGED <<disk, segment, drift, redo>>,
         tx'.pc \in {"idle", "recover", "drop", "verify", "absorb", "scan", "read"}
  PROVE  JournalSound'
BY AtEase, StillTells DEF JournalSound

LEMMA ControlIs ==
  ASSUME JournalControl
  PROVE  /\ segment \in Seq(Operation) /\ Len(segment) \in Nat
         /\ DOMAIN segment = 1 .. Len(segment)
         /\ tx \in Process /\ tx.ops \in Seq(Operation) /\ Len(tx.ops) \in Nat
         /\ DOMAIN tx.ops = 1 .. Len(tx.ops)
         /\ tx.entries \in [Path -> Entry] /\ tx.seen \subseteq Path
         /\ disk \in [Path -> Text] /\ drift \in [Path -> Entry]
         /\ redo \in SUBSET Redo
         /\ \A r \in redo : /\ r.start \in Nat /\ r.through \in Nat
                            /\ r.entries \in [Path -> Entry] /\ r.seen \subseteq Path
                            /\ Reach(r)
         /\ \A r, s \in redo : r = s
BY DEF JournalControl, JournalTyped, Process, Redo, Reached

LEMMA EditSound ==
  ASSUME JournalControl, JournalSound, EditorsWait,
         NEW p \in Path, NEW text \in Text, EditBehind(p, text)
  PROVE  JournalSound'
<1> USE ControlIs
<1>0. /\ redo = {} /\ redo' = {} /\ tx.goal # "absorb" /\ UNCHANGED segment
      /\ drift' = Stale(drift, p)
      /\ disk' = [disk EXCEPT ![p] = text]
  BY DEF EditBehind
<1>1. /\ tx'.pc = tx.pc /\ tx'.goal = tx.goal /\ tx'.path = tx.path
      /\ tx'.text = tx.text /\ tx'.ops = tx.ops /\ tx'.external = tx.external
      /\ tx'.seen = tx.seen /\ tx'.after = tx.after
      /\ tx'.entries = Stale(tx.entries, p)
  BY StaleProcess DEF EditBehind
<1>2. /\ \A q \in Path : tx'.entries[q].text = tx.entries[q].text
      /\ ~ tx'.entries[p].same
      /\ \A q \in Path \ {p} : tx'.entries[q] = tx.entries[q]
  <2>1. tx.entries \in [Path -> Entry]
    OBVIOUS
  <2>2. /\ \A q \in Path : Stale(tx.entries, p)[q].text = tx.entries[q].text
        /\ ~ Stale(tx.entries, p)[p].same
        /\ \A q \in Path \ {p} : Stale(tx.entries, p)[q] = tx.entries[q]
    BY ONLY <2>1, p \in Path, StaleEntries
  <2> QED BY <1>1, <2>2
<1>3. /\ \A q \in Path : drift'[q].text = drift[q].text
      /\ ~ drift'[p].same
      /\ \A q \in Path \ {p} : drift'[q] = drift[q]
  BY <1>0, StaleEntries
<1>4. \A q \in Path \ {p} : disk'[q] = disk[q]
  BY <1>0
<1>5. tx.pc \notin {"plan", "file", "append", "record", "close", "clear"} /\ tx.after # "plan"
  BY <1>0 DEF JournalControl, Placed, Committing
<1>6. IndexTells'
  BY <1>0, <1>3, <1>4 DEF JournalSound, IndexTells, Tells
<1>7. RedoMatches' /\ OpsChange' /\ External' /\ PlansOnJournal'
  BY <1>0, <1>1, <1>5 DEF JournalSound, RedoMatches, OpsChange, External, PlansOnJournal
<1>8. Commanded'
  BY <1>0, <1>1, <1>5 DEF JournalSound, Commanded
<1>9. Absorbed'
  <2>1. ASSUME NEW i \in DOMAIN tx.ops PROVE tx.ops[i].path \in Path
    <3>1. tx.ops[i] \in Operation
      OBVIOUS
    <3> QED BY <3>1 DEF Operation
  <2> QED BY <1>1, <1>2, <2>1 DEF JournalSound, Absorbed
<1>10. SeenStands' /\ Scanned'
  BY <1>0, <1>1, <1>2, <1>4 DEF JournalSound, SeenStands, Scanned
<1> QED BY <1>0, <1>6, <1>7, <1>8, <1>9, <1>10 DEF JournalSound, NoChangeTwice

\* A changed file is taken for an operation.
LEMMA AbsorbSound ==
  ASSUME JournalControl, JournalSound, NEW p \in Path, redo = {},
         NEW after \in {"recover", "plan"}, tx' = Absorb(p, after),
         disk[p] # drift[p].text, after = "plan" => p = tx.path,
         UNCHANGED <<disk, segment, drift, redo>>
  PROVE  JournalSound'
<1> USE ControlIs
<1>1. /\ tx'.pc = "intent" /\ tx'.path = tx.path
      /\ tx'.after = after /\ tx'.external /\ tx'.seen = {p}
      /\ tx'.ops = <<[path |-> p, text |-> disk[p]]>>
      /\ tx'.entries = [tx.entries EXCEPT ![p] = [text |-> disk[p], same |-> TRUE]]
  BY AbsorbTyped
<1>2. /\ DOMAIN tx'.ops = {1} /\ Len(tx'.ops) = 1
      /\ tx'.ops[1].path = p /\ tx'.ops[1].text = disk[p]
  BY <1>1
<1>3. disk[p] # Said(segment, Len(segment), p)
  BY DEF JournalSound, IndexTells, Tells
<1>4. tx'.entries[p].text = disk[p]
  BY <1>1
<1>5. IndexTells' /\ NoChangeTwice'
  BY <1>1, StillTells
<1>6. RedoMatches' /\ Commanded' /\ External' /\ Scanned'
  BY <1>1 DEF RedoMatches, Commanded, External, Scanned
<1>7. OpsChange'
  BY <1>2, <1>3 DEF OpsChange
<1>8. Absorbed' /\ SeenStands'
  BY <1>1, <1>2, <1>4 DEF Absorbed, SeenStands
<1>9. PlansOnJournal'
  BY <1>1 DEF PlansOnJournal
<1> QED BY <1>5, <1>6, <1>7, <1>8, <1>9 DEF JournalSound

LEMMA PlanSound ==
  ASSUME JournalControl, JournalSound, PlanWrite
  PROVE  JournalSound'
<1> USE ControlIs
<1>0. /\ tx.pc = "plan" /\ redo = {} /\ tx.goal = "absorb" /\ tx.path \in Path
      /\ UNCHANGED <<disk, segment, redo>>
  BY DEF PlanWrite, In, JournalControl, Placed, Planning
<1>1. disk[tx.path] = Said(segment, Len(segment), tx.path)
  BY <1>0 DEF JournalSound, PlansOnJournal
<1>2. CASE disk[tx.path] = tx.text
  <2>1. /\ tx' = Outside
        /\ drift' = [drift EXCEPT ![tx.path] = [text |-> tx.text, same |-> TRUE]]
    BY <1>2 DEF PlanWrite
  <2>2. IndexTells'
    BY <1>0, <1>1, <1>2, <2>1 DEF JournalSound, IndexTells, Tells
  <2>3. NoChangeTwice'
    BY <1>0 DEF JournalSound, NoChangeTwice
  <2> QED BY <2>1, <2>2, <2>3, OutsideIs, AtEase DEF JournalSound
<1>3. CASE disk[tx.path] # tx.text
  <2>1. /\ tx' = [tx EXCEPT !.pc = "intent", !.after = "idle",
                         !.external = FALSE, !.seen = {},
                         !.ops = <<[path |-> tx.path, text |-> tx.text]>>]
        /\ UNCHANGED drift
    BY <1>3 DEF PlanWrite
  <2>2. /\ tx'.pc = "intent" /\ tx'.after = "idle" /\ ~ tx'.external /\ tx'.seen = {}
        /\ tx'.ops = <<[path |-> tx.path, text |-> tx.text]>>
        /\ tx'.path = tx.path /\ tx'.text = tx.text /\ tx'.goal = tx.goal
    BY <2>1 DEF Process
  <2>3. /\ DOMAIN tx'.ops = {1}
        /\ tx'.ops[1].path = tx.path /\ tx'.ops[1].text = tx.text
    BY <2>2
  <2>4. IndexTells' /\ NoChangeTwice'
    BY <1>0, <2>1, <2>2, StillTells
  <2>5. OpsChange'
    BY <1>0, <1>1, <1>3, <2>3 DEF OpsChange
  <2>6. Commanded'
    BY <1>0, <2>2 DEF Commanded
  <2>7. RedoMatches' /\ Absorbed' /\ External' /\ SeenStands' /\ Scanned' /\ PlansOnJournal'
    BY <2>2 DEF RedoMatches, Absorbed, External, SeenStands, Scanned, PlansOnJournal
  <2> QED BY <2>4, <2>5, <2>6, <2>7 DEF JournalSound
<1> QED BY <1>2, <1>3

LEMMA ScanSound ==
  ASSUME JournalControl, JournalSound, Scan
  PROVE  JournalSound'
<1> USE ControlIs
<1> DEFINE found == {p \in Path : Drifted(p)}
<1>0. redo = {} /\ UNCHANGED <<disk, segment, drift, redo>>
  BY DEF Scan, In, JournalControl, Placed, Planning
<1>1. PICK ops \in Seq(Operation), entries \in [Path -> Entry] :
         /\ tx' = [tx EXCEPT !.pc = IF found = {} THEN "compact" ELSE "intent",
                             !.after = "compact", !.external = TRUE, !.ops = ops,
                             !.seen = found, !.entries = entries]
         /\ found # {} => ops # <<>>
         /\ found = {ops[i].path : i \in DOMAIN ops}
         /\ Distinct(ops)
         /\ \A i \in DOMAIN ops : ops[i].text = disk[ops[i].path]
         /\ entries = [p \in Path |-> [text |-> disk[p], same |-> TRUE]]
  BY ScanPlans
<1>2. /\ tx'.pc = IF found = {} THEN "compact" ELSE "intent"
      /\ tx'.after = "compact" /\ tx'.external /\ tx'.ops = ops
      /\ tx'.seen = found /\ tx'.entries = entries
  <2> HIDE DEF found
  <2> QED BY <1>1 DEF Process
<1>3. \A p \in Path : Tells(drift[p], p, Len(segment))
  BY <1>0 DEF JournalSound, IndexTells
<1>4. \A p \in found : p \in Path /\ disk[p] # Said(segment, Len(segment), p)
  BY <1>3 DEF Drifted, Tells
<1>5. \A p \in Path \ found : disk[p] = Said(segment, Len(segment), p)
  BY <1>3 DEF Drifted, Tells
<1>6. \A p \in Path : entries[p].text = disk[p]
  BY <1>1
<1> HIDE DEF found
<1>7. IndexTells' /\ NoChangeTwice'
  BY <1>0, <1>2, StillTells
<1>8. OpsChange'
  <2>1. \A i \in DOMAIN ops : ops[i].text # Said(segment, Len(segment), ops[i].path)
    BY <1>1, <1>4
  <2> QED BY <1>0, <1>1, <1>2, <2>1 DEF OpsChange, Distinct
<1>9. Absorbed'
  <2>1. \A i \in DOMAIN ops : ops[i].path \in Path /\ entries[ops[i].path].text = ops[i].text
    BY <1>1, <1>4, <1>6
  <2> QED BY <1>1, <1>2, <2>1 DEF Absorbed
<1>10. SeenStands'
  BY <1>0, <1>2, <1>6 DEF SeenStands
<1>11. Scanned'
  BY <1>0, <1>2, <1>5, <1>6 DEF Scanned
<1>12. RedoMatches' /\ Commanded' /\ External' /\ PlansOnJournal'
  BY <1>2 DEF RedoMatches, Commanded, External, PlansOnJournal
<1> QED BY <1>7, <1>8, <1>9, <1>10, <1>11, <1>12 DEF JournalSound

LEMMA IntentSound ==
  ASSUME JournalControl, JournalSound, CommitIntent
  PROVE  JournalSound'
<1> USE ControlIs
<1> DEFINE r == [path |-> RedoPath, external |-> tx.external,
                 start |-> Len(segment),
                 through |-> Len(segment) + Len(tx.ops),
                 seen |-> tx.seen, entries |-> tx.entries]
<1>0. /\ tx.pc = "intent" /\ redo = {} /\ redo' = {r}
      /\ tx' = [tx EXCEPT !.pc = IF tx.external THEN "append" ELSE "file"]
      /\ UNCHANGED <<disk, segment, drift>>
  BY DEF CommitIntent, In, Goes, JournalControl, Placed, Planning
<1>1. /\ tx'.pc = IF tx.external THEN "append" ELSE "file"
      /\ tx'.goal = tx.goal /\ tx'.path = tx.path /\ tx'.text = tx.text
      /\ tx'.ops = tx.ops /\ tx'.external = tx.external /\ tx'.seen = tx.seen
      /\ tx'.entries = tx.entries /\ tx'.after = tx.after
  BY <1>0 DEF Process
<1>2. /\ r.start = Len(segment) /\ Len(segment) < r.through
      /\ r.path = RedoPath /\ r.external = tx.external
      /\ r.seen = tx.seen /\ r.entries = tx.entries
  <2>1. tx.ops # <<>>
    BY <1>0 DEF JournalControl, Placed
  <2> QED BY <2>1
<1> HIDE DEF r
<1>3. IndexTells'
  <2>1. \A p \in Path : Tells(drift[p], p, Len(segment))
    BY <1>0 DEF JournalSound, IndexTells
  <2> QED BY <1>0, <1>1, <1>2, <2>1 DEF IndexTells, Tells
<1>4. RedoMatches'
  BY <1>0, <1>1, <1>2 DEF RedoMatches, RedoPath
<1>5. OpsChange' /\ NoChangeTwice'
  BY <1>0, <1>1 DEF JournalSound, OpsChange, NoChangeTwice
<1>6. Absorbed'
  BY <1>0, <1>1 DEF JournalSound, Absorbed
<1>7. Commanded' /\ External'
  <2>1. tx.external \in BOOLEAN
    BY DEF Process
  <2> QED BY <1>0, <1>1, <2>1 DEF JournalSound, Commanded, External
<1>8. SeenStands' /\ Scanned'
  BY <1>0, <1>1 DEF JournalSound, SeenStands, Scanned
<1>9. PlansOnJournal'
  BY <1>0, <1>1 DEF JournalSound, PlansOnJournal
<1> QED BY <1>3, <1>4, <1>5, <1>6, <1>7, <1>8, <1>9 DEF JournalSound

LEMMA FileSound ==
  ASSUME JournalControl, JournalSound, CommitFile
  PROVE  JournalSound'
<1> USE ControlIs
<1>0. /\ tx.pc = "file" /\ tx' = [tx EXCEPT !.pc = "append"]
      /\ disk' = [disk EXCEPT ![tx.path] = tx.text]
      /\ drift' = Stale(drift, tx.path)
      /\ UNCHANGED <<segment, redo>>
  BY DEF CommitFile, In, Goes
<1>1. /\ tx'.pc = "append"
      /\ tx'.goal = tx.goal /\ tx'.path = tx.path /\ tx'.text = tx.text
      /\ tx'.ops = tx.ops /\ tx'.external = tx.external /\ tx'.seen = tx.seen
      /\ tx'.entries = tx.entries /\ tx'.after = tx.after
  BY <1>0 DEF Process
<1>2. tx.path \in Path
  BY <1>0 DEF JournalControl, Placed
<1>3. /\ ~ tx.external /\ tx.goal = "absorb" /\ tx.after = "idle" /\ tx.seen = {}
      /\ tx.ops = <<[path |-> tx.path, text |-> tx.text]>>
  BY <1>0 DEF JournalSound, External, Commanded
<1>4. /\ \A q \in Path : drift'[q].text = drift[q].text
      /\ ~ drift'[tx.path].same
      /\ \A q \in Path \ {tx.path} : drift'[q] = drift[q]
  BY <1>0, <1>2, StaleEntries
<1>5. \A q \in Path \ {tx.path} : disk'[q] = disk[q]
  BY <1>0
<1>6. disk'[tx.path] = tx.text
  BY <1>0, <1>2
<1>7. redo # {} /\ \A r \in redo : Len(segment) = r.start /\ Len(segment) < r.through
  BY <1>0 DEF JournalControl, Placed, Committing, Reach
<1>8. IndexTells'
  <2>1. \A r \in redo : \A p \in Path : Tells(drift[p], p, r.start)
    BY <1>7 DEF JournalSound, IndexTells
  <2>2. \A r \in redo : \A p \in Path : Tells(drift[p], p, r.start)'
    BY <1>0, <1>4, <1>5, <2>1 DEF Tells
  <2>3. \A r \in redo : ~ (Len(segment) = r.through)
    BY <1>7
  <2> QED BY <1>0, <1>1, <1>7, <2>2, <2>3 DEF IndexTells
<1>9. RedoMatches'
  BY <1>0, <1>1 DEF JournalSound, RedoMatches, RedoPath
<1>10. OpsChange' /\ NoChangeTwice'
  BY <1>0, <1>1 DEF JournalSound, OpsChange, NoChangeTwice
<1>11. Absorbed' /\ Commanded' /\ External' /\ SeenStands' /\ Scanned' /\ PlansOnJournal'
  BY <1>1, <1>3, <1>6 DEF Absorbed, Commanded, External, SeenStands, Scanned, PlansOnJournal
<1> QED BY <1>8, <1>9, <1>10, <1>11 DEF JournalSound

\* The operations, or the first of them, are appended.
LEMMA AppendTells ==
  ASSUME JournalControl, JournalSound, tx.pc = "append",
         NEW k \in 1 .. Len(tx.ops), segment' = segment \o SubSeq(tx.ops, 1, k),
         UNCHANGED <<disk, drift, redo>>
  PROVE  /\ tx'.pc \notin {"clear", "close"} => IndexTells'
         /\ NoChangeTwice'
         /\ k = Len(tx.ops) =>
              \A p \in Path :
                 /\ (\A i \in DOMAIN tx.ops : tx.ops[i].path # p) =>
                      Said(segment', Len(segment'), p) = Said(segment, Len(segment), p)
                 /\ \A i \in DOMAIN tx.ops : tx.ops[i].path = p =>
                      Said(segment', Len(segment'), p) = tx.ops[i].text
<1> USE ControlIs
<1>1. k \in 0 .. Len(tx.ops)
  OBVIOUS
<1>2. /\ segment' \in Seq(Operation) /\ Len(segment') = Len(segment) + k
      /\ \A i \in 1 .. Len(segment) : segment'[i] = segment[i]
      /\ \A i \in 1 .. k : segment'[Len(segment) + i] = tx.ops[i]
  BY <1>1, Behind
<1>3. Distinct(tx.ops) /\ \A i \in DOMAIN tx.ops :
         tx.ops[i].text # Said(segment, Len(segment), tx.ops[i].path)
  BY DEF JournalSound, OpsChange, Distinct
<1>4. NoRepeat(segment)
  BY DEF JournalSound, NoChangeTwice, NoRepeat
<1>5. NoRepeat(segment')
  BY <1>1, <1>2, <1>3, <1>4, NoRepeatBehind
<1>6. ASSUME NEW p, k = Len(tx.ops)
      PROVE  /\ (\A i \in DOMAIN tx.ops : tx.ops[i].path # p) =>
                   Said(segment', Len(segment'), p) = Said(segment, Len(segment), p)
             /\ \A i \in DOMAIN tx.ops : tx.ops[i].path = p =>
                   Said(segment', Len(segment'), p) = tx.ops[i].text
  <2>1. ASSUME \A i \in DOMAIN tx.ops : tx.ops[i].path # p
        PROVE  Said(segment', Len(segment'), p) = Said(segment, Len(segment), p)
    <3>1. ASSUME NEW j \in Len(segment) + 1 .. Len(segment')
          PROVE  segment'[j].path # p
      <4>1. /\ j - Len(segment) \in 1 .. k
            /\ j = Len(segment) + (j - Len(segment))
        BY <1>2
      <4>2. segment'[j] = tx.ops[j - Len(segment)]
        BY <1>2, <4>1
      <4> QED BY <1>6, <2>1, <4>1, <4>2
    <3>2. /\ Len(segment) \in Nat /\ Len(segment') \in Nat
          /\ Len(segment) <= Len(segment')
      BY <1>2
    <3>3. \A j \in 1 .. Len(segment) : segment'[j] = segment[j]
      BY <1>2
    <3> DEFINE A == segment'
               n == Len(segment)
               m == Len(A)
    <3>4. /\ n \in Nat /\ m \in Nat /\ n <= m
          /\ \A j \in 1 .. n : A[j] = segment[j]
          /\ \A j \in n + 1 .. m : A[j].path # p
      BY <3>1, <3>2, <3>3
    <3> HIDE DEF A, n, m
    <3>5. Said(A, m, p) = Said(segment, n, p)
      <4>1. Said(A, m, p) = Said(A, n, p)
        BY ONLY <3>4, SaidBefore
      <4>2. Said(A, n, p) = Said(segment, n, p)
        BY ONLY <3>4, SaidSame
      <4> QED BY <4>1, <4>2
    <3> QED BY <3>5 DEF A, n, m
  <2>2. ASSUME NEW i \in DOMAIN tx.ops, tx.ops[i].path = p
        PROVE  Said(segment', Len(segment'), p) = tx.ops[i].text
    <3>1. i \in 1 .. k
      BY <1>6
    <3>2. Said(segment', Len(segment'), tx.ops[i].path) = tx.ops[i].text
      <4>1. /\ segment \in Seq(Operation) /\ tx.ops \in Seq(Operation)
            /\ k \in 0 .. Len(tx.ops) /\ segment' \in Seq(Operation)
            /\ Distinct(tx.ops)
            /\ segment' = segment \o SubSeq(tx.ops, 1, k)
        BY <1>1, <1>2, <1>3
      <4> QED BY ONLY <3>1, <4>1, SaidAnew, ZenonT(60)
    <3> QED BY <2>2, <3>2
  <2> QED BY <2>1, <2>2
<1>7. PICK r \in redo : redo = {r}
  <2>1. redo # {}
    BY DEF JournalControl, Placed, Committing
  <2>2. \A r, s \in redo : r = s
    OBVIOUS
  <2> QED BY ONLY <2>1, <2>2
<1>8. /\ Len(segment) = r.start /\ r.through = r.start + Len(tx.ops) /\ r \in Redo
      /\ r.start \in Nat
  BY <1>7 DEF Reach
<1>9. \A p \in Path : Tells(drift[p], p, Len(segment))
  BY <1>1, <1>7, <1>8 DEF JournalSound, IndexTells
<1>10. ASSUME NEW p PROVE Said(segment', r.start, p) = Said(segment, r.start, p)
  <2>1. r.start \in Nat /\ \A j \in 1 .. r.start : segment'[j] = segment[j]
    BY <1>2, <1>8
  <2> QED BY ONLY <2>1, SaidSame
<1>11. \A p \in Path : Tells(drift[p], p, r.start)'
  BY <1>7, <1>8, <1>9, <1>10 DEF Tells
<1>12. ASSUME k = Len(tx.ops), NEW p \in Path
       PROVE  Tells(Noted(r.path, r.external, r.seen, r.entries)[p], p, Len(segment))'
  <2> DEFINE noted == Noted(r.path, r.external, r.seen, r.entries)
  <2>0. /\ r.path = RedoPath /\ r.external = tx.external
        /\ r.seen = tx.seen /\ r.entries = tx.entries
    BY <1>7 DEF JournalSound, RedoMatches
  <2>1. noted[p]' = IF p = r.path /\ ~ r.external THEN [text |-> disk[p], same |-> TRUE]
                    ELSE IF p \in r.seen THEN r.entries[p] ELSE drift[p]
    BY DEF Noted
  <2>2. /\ drift[p].text = Said(segment, Len(segment), p)
        /\ drift[p].same => disk[p] = Said(segment, Len(segment), p)
    BY <1>9 DEF Tells
  <2> HIDE DEF noted
  <2>3. CASE ~ tx.external
    <3>1. /\ tx.after = "idle" /\ tx.seen = {} /\ disk[tx.path] = tx.text
          /\ tx.ops = <<[path |-> tx.path, text |-> tx.text]>>
      BY <2>3 DEF JournalSound, Commanded
    <3>2. /\ DOMAIN tx.ops = {1} /\ tx.ops[1].path = tx.path /\ tx.ops[1].text = tx.text
      BY <3>1
    <3>3. RedoPath = tx.path
      BY <3>1, <3>2 DEF RedoPath
    <3>4. CASE p = tx.path
      <4>1. Said(segment', Len(segment'), p) = tx.text
        BY <1>6, <1>12, <3>2, <3>4
      <4>2. noted[p]' = [text |-> disk[p], same |-> TRUE]
        BY <2>0, <2>1, <2>3, <3>3, <3>4
      <4> QED BY <3>1, <3>4, <4>1, <4>2 DEF Tells, noted
    <3>5. CASE p # tx.path
      <4>1. Said(segment', Len(segment'), p) = Said(segment, Len(segment), p)
        BY <1>6, <1>12, <3>2, <3>5
      <4>2. noted[p]' = drift[p]
        BY <2>0, <2>1, <3>1, <3>3, <3>5
      <4> QED BY <2>2, <4>1, <4>2 DEF Tells, noted
    <3> QED BY <3>4, <3>5
  <2>4. CASE tx.external
    <3>1. /\ tx.seen = {tx.ops[i].path : i \in DOMAIN tx.ops}
          /\ \A i \in DOMAIN tx.ops : tx.entries[tx.ops[i].path].text = tx.ops[i].text
      BY <2>4 DEF JournalSound, Absorbed
    <3>2. CASE p \in tx.seen
      <4>1. PICK i \in DOMAIN tx.ops : tx.ops[i].path = p
        BY <3>1, <3>2
      <4>2. Said(segment', Len(segment'), p) = tx.entries[p].text
        BY <1>6, <1>12, <3>1, <4>1
      <4>3. tx.entries[p].same => disk[p] = tx.entries[p].text
        BY <3>2 DEF JournalSound, SeenStands
      <4>4. noted[p]' = tx.entries[p]
        BY <2>0, <2>1, <2>4, <3>2
      <4> QED BY <4>2, <4>3, <4>4 DEF Tells, noted
    <3>3. CASE p \notin tx.seen
      <4>1. Said(segment', Len(segment'), p) = Said(segment, Len(segment), p)
        BY <1>6, <1>12, <3>1, <3>3
      <4>2. noted[p]' = drift[p]
        BY <2>0, <2>1, <2>4, <3>3
      <4> QED BY <2>2, <4>1, <4>2 DEF Tells, noted
    <3> QED BY <3>2, <3>3
  <2> QED BY <2>3, <2>4
<1>13. ASSUME tx'.pc \notin {"clear", "close"} PROVE IndexTells'
  <2>1. redo' = {r}
    BY <1>7
  <2>2. Len(segment') = r.through => k = Len(tx.ops)
    BY <1>2, <1>8
  <2> QED BY <1>11, <1>12, <1>13, <2>1, <2>2 DEF IndexTells
<1> QED BY <1>5, <1>6, <1>13 DEF NoChangeTwice, NoRepeat

LEMMA AppendSound ==
  ASSUME JournalControl, JournalSound, CommitAppend
  PROVE  JournalSound'
<1> USE ControlIs
<1>0. /\ tx.pc = "append" /\ tx' = [tx EXCEPT !.pc = "record"]
      /\ segment' = segment \o tx.ops /\ UNCHANGED <<disk, drift, redo>>
  BY DEF CommitAppend, In, Goes
<1>1. /\ tx'.pc = "record"
      /\ tx'.goal = tx.goal /\ tx'.path = tx.path /\ tx'.text = tx.text
      /\ tx'.ops = tx.ops /\ tx'.external = tx.external /\ tx'.seen = tx.seen
      /\ tx'.entries = tx.entries /\ tx'.after = tx.after
  BY <1>0 DEF Process
<1> DEFINE k == Len(tx.ops)
<1>2. k \in 1 .. Len(tx.ops) /\ segment' = segment \o SubSeq(tx.ops, 1, k)
  <2>1. tx.ops # <<>>
    BY <1>0 DEF JournalControl, Placed
  <2>2. SubSeq(tx.ops, 1, Len(tx.ops)) = tx.ops
    OBVIOUS
  <2> QED BY <1>0, <2>1, <2>2
<1> HIDE DEF k
<1>3. /\ tx'.pc \notin {"clear", "close"} => IndexTells'
      /\ NoChangeTwice'
      /\ k = Len(tx.ops) =>
           \A p \in Path :
              /\ (\A i \in DOMAIN tx.ops : tx.ops[i].path # p) =>
                   Said(segment', Len(segment'), p) = Said(segment, Len(segment), p)
              /\ \A i \in DOMAIN tx.ops : tx.ops[i].path = p =>
                   Said(segment', Len(segment'), p) = tx.ops[i].text
  BY <1>0, <1>2, AppendTells
<1>4. \A p \in Path :
         /\ (\A i \in DOMAIN tx.ops : tx.ops[i].path # p) =>
              Said(segment', Len(segment'), p) = Said(segment, Len(segment), p)
         /\ \A i \in DOMAIN tx.ops : tx.ops[i].path = p =>
              Said(segment', Len(segment'), p) = tx.ops[i].text
  BY <1>3 DEF k
<1>5. RedoMatches'
  BY <1>0, <1>1 DEF JournalSound, RedoMatches, RedoPath
<1>6. OpsChange' /\ Absorbed' /\ Commanded' /\ External'
  BY <1>1 DEF OpsChange, Absorbed, Commanded, External
<1>7. SeenStands'
  BY <1>0, <1>1 DEF JournalSound, SeenStands
<1>8. Scanned'
  <2>1. ASSUME tx.after = "compact", NEW p \in Path
        PROVE  tx.entries[p].text = Said(segment', Len(segment'), p)
    <3>1. /\ tx.external
          /\ p \notin tx.seen => tx.entries[p].text = Said(segment, Len(segment), p)
      BY <1>0, <2>1 DEF JournalSound, Scanned
    <3>2. /\ tx.seen = {tx.ops[i].path : i \in DOMAIN tx.ops}
          /\ \A i \in DOMAIN tx.ops : tx.entries[tx.ops[i].path].text = tx.ops[i].text
      BY <1>0, <3>1 DEF JournalSound, Absorbed
    <3>3. CASE p \in tx.seen
      <4>1. PICK i \in DOMAIN tx.ops : tx.ops[i].path = p
        BY <3>2, <3>3
      <4> QED BY <1>4, <3>2, <4>1
    <3>4. CASE p \notin tx.seen
      <4>1. \A i \in DOMAIN tx.ops : tx.ops[i].path # p
        BY <3>2, <3>4
      <4> QED BY <1>4, <3>1, <3>4, <4>1
    <3> QED BY <3>3, <3>4
  <2>2. tx.after = "compact" => tx.external
    BY <1>0 DEF JournalSound, Scanned
  <2> QED BY <1>1, <2>1, <2>2 DEF Scanned
<1>9. PlansOnJournal'
  <2>1. ASSUME tx.after = "plan"
        PROVE  disk[tx.path] = Said(segment', Len(segment'), tx.path)
    <3>1. tx.ops = <<[path |-> tx.path, text |-> disk[tx.path]]>>
      BY <1>0, <2>1 DEF JournalSound, PlansOnJournal
    <3>2. DOMAIN tx.ops = {1} /\ tx.ops[1].path = tx.path /\ tx.ops[1].text = disk[tx.path]
      BY <3>1
    <3>3. tx.path \in Path
      BY <2>1 DEF JournalControl, Placed
    <3> QED BY <1>4, <3>2, <3>3
  <2> QED BY <1>0, <1>1, <2>1 DEF PlansOnJournal
<1> QED BY <1>1, <1>3, <1>5, <1>6, <1>7, <1>8, <1>9 DEF JournalSound

\* The index once the batch of a redo is complete.
LEMMA NotedTwice ==
  ASSUME NEW path, NEW external, NEW seen, NEW entries, UNCHANGED disk,
         drift' = Noted(path, external, seen, entries)
  PROVE  Noted(path, external, seen, entries)' = drift'
<1>1. \A p \in Path :
         drift'[p] = IF p = path /\ ~ external THEN [text |-> disk[p], same |-> TRUE]
                     ELSE IF p \in seen THEN entries[p] ELSE drift[p]
  BY DEF Noted
<1>2. [p \in Path |->
         IF p = path /\ ~ external THEN [text |-> disk[p], same |-> TRUE]
         ELSE IF p \in seen THEN entries[p] ELSE drift'[p]]
      = [p \in Path |->
         IF p = path /\ ~ external THEN [text |-> disk[p], same |-> TRUE]
         ELSE IF p \in seen THEN entries[p] ELSE drift[p]]
  BY <1>1
<1> QED BY <1>2 DEF Noted

LEMMA NotedTells ==
  ASSUME JournalControl, JournalSound, NEW r \in redo,
         Len(segment) = r.through, UNCHANGED <<disk, segment, redo>>,
         drift' = Noted(r.path, r.external, r.seen, r.entries)
  PROVE  IndexTells' /\ NoChangeTwice'
<1> USE ControlIs
<1>1. redo # {} /\ \A s \in redo : s = r
  OBVIOUS
<1>2. \A p \in Path : Tells(Noted(r.path, r.external, r.seen, r.entries)[p], p, Len(segment))
  BY DEF JournalSound, IndexTells
<1>3. \A p \in Path : Tells(drift[p], p, Len(segment))'
  BY <1>2 DEF Tells
<1>4. Noted(r.path, r.external, r.seen, r.entries)' = drift'
  BY NotedTwice
<1>5. \A s \in redo' : ~ (Len(segment') < s.through)
  BY <1>1
<1>6. \A s \in redo' : Noted(s.path, s.external, s.seen, s.entries)' = drift'
  BY <1>1, <1>4
<1>7. IndexTells'
  BY <1>1, <1>3, <1>5, <1>6 DEF IndexTells
<1> QED BY <1>7 DEF JournalSound, NoChangeTwice

LEMMA RecordSound ==
  ASSUME JournalControl, JournalSound, CommitRecord
  PROVE  JournalSound'
<1> USE ControlIs
<1>0. /\ tx.pc = "record" /\ tx' = [tx EXCEPT !.pc = "close"]
      /\ drift' = Noted(RedoPath, tx.external, tx.seen, tx.entries)
      /\ UNCHANGED <<disk, segment, redo>>
  BY DEF CommitRecord, In, Goes
<1>1. /\ tx'.pc = "close"
      /\ tx'.goal = tx.goal /\ tx'.path = tx.path /\ tx'.text = tx.text
      /\ tx'.ops = tx.ops /\ tx'.external = tx.external /\ tx'.seen = tx.seen
      /\ tx'.entries = tx.entries /\ tx'.after = tx.after
  BY <1>0 DEF Process
<1>2. PICK r \in redo : Len(segment) = r.through
  <2>1. redo # {}
    BY <1>0 DEF JournalControl, Placed, Committing
  <2>2. \A r \in redo : Len(segment) = r.through
    BY <1>0 DEF Reach
  <2> QED BY <2>1, <2>2
<1>3. /\ r.path = RedoPath /\ r.external = tx.external
      /\ r.seen = tx.seen /\ r.entries = tx.entries
  BY <1>0 DEF JournalSound, RedoMatches
<1>4. drift' = Noted(r.path, r.external, r.seen, r.entries)
  BY <1>0, <1>3
<1>5. IndexTells' /\ NoChangeTwice'
  BY <1>0, <1>2, <1>4, NotedTells
<1>6. RedoMatches' /\ OpsChange' /\ Absorbed' /\ Commanded' /\ External'
  BY <1>1 DEF RedoMatches, OpsChange, Absorbed, Commanded, External
<1>7. SeenStands' /\ Scanned' /\ PlansOnJournal'
  BY <1>0, <1>1 DEF JournalSound, SeenStands, Scanned, PlansOnJournal
<1> QED BY <1>5, <1>6, <1>7 DEF JournalSound

LEMMA CloseSound ==
  ASSUME JournalControl, JournalSound, CommitClose
  PROVE  JournalSound'
<1> USE ControlIs
<1>0. /\ tx.pc = "close" /\ redo' = {}
      /\ tx' = IF tx.after = "idle" THEN Outside
               ELSE [tx EXCEPT !.pc = tx.after, !.ops = <<>>]
      /\ UNCHANGED <<disk, segment, drift>>
  BY DEF CommitClose, In
<1>1. /\ IndexTells' /\ NoChangeTwice'
  <2>1. redo # {}
    BY <1>0 DEF JournalControl, Placed, Committing
  <2>2. \A p \in Path : Tells(drift[p], p, Len(segment))
    BY <1>0, <2>1 DEF JournalSound, IndexTells
  <2> QED BY <1>0, <2>2 DEF JournalSound, IndexTells, Tells, NoChangeTwice
<1>2. CASE tx.after = "idle"
  BY <1>0, <1>1, <1>2, OutsideIs, AtEase DEF JournalSound
<1>3. CASE tx.after # "idle"
  <2>1. tx.after \in {"recover", "plan", "compact"}
    BY <1>3 DEF Process
  <2>2. /\ tx'.pc = tx.after /\ tx'.after = tx.after
        /\ tx'.path = tx.path /\ tx'.seen = tx.seen /\ tx'.entries = tx.entries
    BY <1>0, <1>3 DEF Process
  <2>3. RedoMatches' /\ OpsChange' /\ Absorbed' /\ Commanded' /\ External'
    BY <2>1, <2>2 DEF RedoMatches, OpsChange, Absorbed, Commanded, External
  <2>4. SeenStands'
    BY <1>0, <2>1, <2>2 DEF JournalSound, SeenStands
  <2>5. Scanned'
    BY <1>0, <2>1, <2>2 DEF JournalSound, Scanned
  <2>6. PlansOnJournal'
    BY <1>0, <2>1, <2>2 DEF JournalSound, PlansOnJournal
  <2> QED BY <1>1, <2>3, <2>4, <2>5, <2>6 DEF JournalSound
<1> QED BY <1>2, <1>3

LEMMA CommittedSound ==
  ASSUME JournalControl, JournalSound, RecoverCommitted
  PROVE  JournalSound'
<1> USE ControlIs
<1>0. /\ tx.pc = "recover" /\ tx' = [tx EXCEPT !.pc = "clear"]
      /\ UNCHANGED <<disk, segment, redo>>
  BY DEF RecoverCommitted, In, Goes
<1>1. tx'.pc = "clear"
  BY <1>0 DEF Process
<1>2. PICK r \in redo : /\ Len(segment) >= r.through
                        /\ drift' = Noted(r.path, r.external, r.seen, r.entries)
  BY DEF RecoverCommitted, Committed
<1>3. Len(segment) = r.through
  BY <1>2 DEF Reach
<1>4. IndexTells' /\ NoChangeTwice'
  BY <1>0, <1>2, <1>3, NotedTells
<1> QED BY <1>1, <1>4, AtEase DEF JournalSound

LEMMA ClearSound ==
  ASSUME JournalControl, JournalSound, RecoverClear
  PROVE  JournalSound'
<1>0. /\ tx.pc = "clear" /\ tx' = [tx EXCEPT !.pc = "recover"] /\ redo' = {}
      /\ UNCHANGED <<disk, segment, drift>>
  BY DEF RecoverClear, In, Goes
<1>1. tx'.pc = "recover"
  BY <1>0, ControlIs DEF Process
<1>2. IndexTells' /\ NoChangeTwice'
  <2>1. redo # {}
    BY <1>0 DEF JournalControl, Placed
  <2>2. \A p \in Path : Tells(drift[p], p, Len(segment))
    BY <1>0, <2>1 DEF JournalSound, IndexTells
  <2> QED BY <1>0, <2>2 DEF JournalSound, IndexTells, Tells, NoChangeTwice
<1> QED BY <1>1, <1>2, AtEase DEF JournalSound

LEMMA TornSound ==
  ASSUME JournalControl, JournalSound, RecoverTorn
  PROVE  JournalSound'
<1> USE ControlIs
<1>0. /\ tx' = [tx EXCEPT !.pc = "drop"] /\ UNCHANGED <<disk, drift, redo>>
  BY DEF RecoverTorn, In, Goes
<1>1. tx'.pc = "drop"
  BY <1>0 DEF Process
<1>2. PICK r \in redo : /\ ~ (Len(segment) >= r.through)
                        /\ segment' = SubSeq(segment, 1, r.start)
  BY DEF RecoverTorn, Committed, CutBack
<1>3. /\ r.start \in Nat /\ r.through \in Nat /\ r.start <= Len(segment)
      /\ r.start < r.through /\ \A s \in redo : s = r
      /\ Len(segment) < r.through
  BY <1>2 DEF Reach
<1>4. /\ Len(segment') = r.start
      /\ \A i \in 1 .. r.start : segment'[i] = segment[i]
  BY <1>2, <1>3
<1>5. NoChangeTwice'
  <2>1. r.start \in 0 .. Len(segment) /\ NoRepeat(segment)
    BY <1>3 DEF JournalSound, NoChangeTwice, NoRepeat
  <2>2. NoRepeat(SubSeq(segment, 1, r.start))
    BY <2>1, NoRepeatCut
  <2> QED BY <1>2, <2>2 DEF NoChangeTwice, NoRepeat
<1>6. \A p \in Path : Tells(drift[p], p, r.start)
  BY <1>3 DEF JournalSound, IndexTells
<1>7. \A p : Said(segment', r.start, p) = Said(segment, r.start, p)
  BY ONLY <1>3, <1>4, SaidSame
<1>8. IndexTells'
  <2>1. redo' = {r}
    BY <1>0, <1>3
  <2>2. \A p \in Path : Tells(drift[p], p, r.start)'
    BY <1>0, <1>6, <1>7 DEF Tells
  <2> QED BY <1>1, <1>3, <1>4, <2>1, <2>2 DEF IndexTells
<1> QED BY <1>1, <1>5, <1>8, AtEase DEF JournalSound

LEMMA DropSound ==
  ASSUME JournalControl, JournalSound, RecoverDrop
  PROVE  JournalSound'
<1> USE ControlIs
<1>0. tx.pc = "drop" /\ redo' = {} /\ UNCHANGED <<disk, segment, drift>>
  BY DEF RecoverDrop, In
<1>1. PICK r \in redo :
         tx' = IF r.path = NoPath THEN [tx EXCEPT !.pc = "recover"]
               ELSE [tx EXCEPT !.pc = "verify", !.seen = {r.path}]
  BY DEF RecoverDrop, Goes
<1>2. tx'.pc \in {"recover", "verify"}
  BY <1>1 DEF Process
<1>3. Len(segment) = r.start /\ Len(segment) < r.through
  BY <1>0 DEF Reach
<1>4. \A p \in Path : Tells(drift[p], p, Len(segment))
  BY <1>3 DEF JournalSound, IndexTells
<1>5. IndexTells' /\ NoChangeTwice'
  BY <1>0, <1>4 DEF JournalSound, IndexTells, Tells, NoChangeTwice
<1> QED BY <1>2, <1>5, AtEase DEF JournalSound

LEMMA CompactSound ==
  ASSUME JournalControl, JournalSound, CompactIndex
  PROVE  JournalSound'
<1>0. /\ tx.pc = "compact" /\ tx' = Outside /\ drift' = tx.entries
      /\ redo = {} /\ UNCHANGED <<disk, segment, redo>>
  BY DEF CompactIndex, In, JournalControl, Placed, Planning
<1>1. tx.after = "compact"
  BY <1>0 DEF JournalSound, Scanned
<1>2. \A p \in Path : Tells(tx.entries[p], p, Len(segment))
  BY <1>0, <1>1 DEF JournalSound, Scanned, SeenStands, Tells
<1>3. IndexTells' /\ NoChangeTwice'
  BY <1>0, <1>2 DEF JournalSound, IndexTells, Tells, NoChangeTwice
<1> QED BY <1>0, <1>3, OutsideIs, AtEase DEF JournalSound

LEMMA KilledSound ==
  ASSUME JournalControl, JournalSound, JournalKilled
  PROVE  JournalSound'
<1>0. /\ tx' = Outside /\ tx'.pc = "idle" /\ UNCHANGED <<disk, drift, redo>>
  BY OutsideIs DEF JournalKilled
<1>1. CASE UNCHANGED segment
  BY <1>0, <1>1, RestsSound
<1>2. ASSUME tx.pc = "append", NEW k \in 1 .. Len(tx.ops),
             segment' = segment \o SubSeq(tx.ops, 1, k)
      PROVE  JournalSound'
  <2>1. IndexTells' /\ NoChangeTwice'
    BY <1>0, <1>2, AppendTells
  <2> QED BY <1>0, <2>1, AtEase DEF JournalSound
<1> QED BY <1>1, <1>2 DEF JournalKilled, In

\* A process begins, or finds nothing to recover.
LEMMA StartsSound ==
  ASSUME JournalControl, JournalSound,
         \/ \E p \in Path, text \in Text : BeginWrite(p, text)
         \/ BeginScan \/ BeginRead \/ NothingToRecover \/ ReadLog
  PROVE  JournalSound'
<1>1. UNCHANGED <<disk, segment, drift, redo>>
  BY DEF BeginWrite, BeginScan, BeginRead, NothingToRecover, ReadLog
<1>2. tx'.pc \in {"idle", "recover", "absorb", "scan", "read"}
  <2>1. CASE \E p \in Path, text \in Text : BeginWrite(p, text)
    BY <2>1 DEF BeginWrite, Outside
  <2>2. CASE BeginScan \/ BeginRead
    BY <2>2 DEF BeginScan, BeginRead, Outside
  <2>3. CASE NothingToRecover
    <3>1. tx' = [tx EXCEPT !.pc = tx.goal] /\ tx.pc = "recover"
      BY <2>3 DEF NothingToRecover, Goes, In
    <3>2. tx.goal \in {"absorb", "scan", "read"}
      BY <3>1, ControlIs DEF Process, JournalControl, Placed
    <3> QED BY <3>1, <3>2, ControlIs DEF Process
  <2>4. CASE ReadLog
    BY <2>4, OutsideIs DEF ReadLog
  <2> QED BY <2>1, <2>2, <2>3, <2>4
<1> QED BY <1>1, <1>2, RestsSound

\* A process looks at a file that may have changed.
LEMMA LooksSound ==
  ASSUME JournalControl, JournalSound, Verify \/ AbsorbBeforeWrite
  PROVE  JournalSound'
<1> USE ControlIs
<1>0. redo = {} /\ UNCHANGED <<disk, segment, drift, redo>>
  BY DEF Verify, AbsorbBeforeWrite, In, JournalControl, Placed, Planning
<1>1. CASE Verify
  <2>1. PICK p \in tx.seen :
           tx' = IF disk[p] # drift[p].text THEN Absorb(p, "recover")
                                            ELSE [tx EXCEPT !.pc = "recover"]
    BY <1>1 DEF Verify, Goes
  <2>2. CASE disk[p] # drift[p].text
    BY <1>0, <2>1, <2>2, AbsorbSound
  <2>3. CASE disk[p] = drift[p].text
    <3>1. tx'.pc = "recover"
      BY <2>1, <2>3 DEF Process
    <3> QED BY <1>0, <3>1, RestsSound
  <2> QED BY <2>2, <2>3
<1>2. CASE AbsorbBeforeWrite
  <2>0. tx.pc = "absorb" /\ tx.path \in Path
    BY <1>2 DEF AbsorbBeforeWrite, In, JournalControl, Placed
  <2>1. tx' = IF Drifted(tx.path) THEN Absorb(tx.path, "plan")
                                  ELSE [tx EXCEPT !.pc = "plan"]
    BY <1>2 DEF AbsorbBeforeWrite, Goes
  <2>2. CASE Drifted(tx.path)
    BY <1>0, <2>0, <2>1, <2>2, AbsorbSound DEF Drifted
  <2>3. CASE ~ Drifted(tx.path)
    <3>1. tx'.pc = "plan" /\ tx'.path = tx.path /\ tx'.after = tx.after
      BY <2>1, <2>3 DEF Process
    <3>2. Tells(drift[tx.path], tx.path, Len(segment))
      BY <1>0, <2>0 DEF JournalSound, IndexTells
    <3>3. disk[tx.path] = Said(segment, Len(segment), tx.path)
      BY <2>3, <3>2 DEF Drifted, Tells
    <3>4. IndexTells' /\ NoChangeTwice'
      BY <1>0, <3>1, StillTells
    <3>5. PlansOnJournal'
      BY <1>0, <3>1, <3>3 DEF PlansOnJournal
    <3>6. /\ RedoMatches' /\ OpsChange' /\ Absorbed' /\ Commanded'
          /\ External' /\ SeenStands' /\ Scanned'
      BY <3>1 DEF RedoMatches, OpsChange, Absorbed, Commanded, External,
                  SeenStands, Scanned
    <3> QED BY <3>4, <3>5, <3>6 DEF JournalSound
  <2> QED BY <2>2, <2>3
<1> QED BY <1>1, <1>2

LEMMA SoundAtFirst == JournalInit => JournalSound
<1> SUFFICES ASSUME JournalInit PROVE JournalSound
  OBVIOUS
<1>1. segment = <<>> /\ redo = {} /\ tx.pc = "idle" /\ tx.after = "idle"
  BY DEF JournalInit, Outside
<1>2. \A p : Said(segment, 0, p) = Blank
  BY DEF Said
<1>3. Len(segment) = 0 /\ DOMAIN segment = {}
  BY <1>1
<1>4. IndexTells
  BY <1>1, <1>2, <1>3 DEF JournalInit, IndexTells, Tells
<1> QED BY <1>1, <1>3, <1>4
    DEF JournalSound, NoChangeTwice, RedoMatches, OpsChange, Absorbed,
        Commanded, External, SeenStands, Scanned, PlansOnJournal

LEMMA SoundKept ==
  ASSUME EditorsWait, JournalControl, JournalSound, [JournalNext]_journalVars
  PROVE  JournalSound'
<1>1. CASE UNCHANGED journalVars
  BY <1>1 DEF journalVars, JournalSound, IndexTells, Tells, Noted, RedoMatches,
      RedoPath, OpsChange, Absorbed, Commanded, External, SeenStands, Scanned,
      PlansOnJournal, NoChangeTwice
<1> QED BY <1>1, EditSound, PlanSound, ScanSound, IntentSound, FileSound,
           AppendSound, RecordSound, CloseSound, CommittedSound, ClearSound,
           TornSound, DropSound, CompactSound, KilledSound, StartsSound,
           LooksSound
    DEF JournalNext, JournalStep

LEMMA SoundAlways ==
  ASSUME EditorsWait
  PROVE  JournalSpec => [](JournalControl /\ JournalSound)
<1>1. JournalInit => JournalControl /\ JournalSound
  BY ControlAtFirst, SoundAtFirst
<1>2. /\ JournalControl /\ JournalSound
      /\ [JournalNext]_journalVars
      => (JournalControl /\ JournalSound)'
  BY ControlKept, SoundKept
<1> QED BY <1>1, <1>2, PTL DEF JournalSpec

\* With no redo open, a file the index takes for known is one the journal
\* describes, whatever was killed: nothing a command wrote, or a scan saw, is
\* left for no scan to find.  Editors have to wait for commands, as the
\* check of a file and its write are two steps of the code.
THEOREM CleanJournaled ==
  ASSUME EditorsWait
  PROVE  JournalSpec => []CleanIsJournaled
<1>1. JournalControl /\ JournalSound => CleanIsJournaled
  BY DEF JournalSound, IndexTells, Tells, CleanIsJournaled, Journaled
<1> QED BY <1>1, SoundAlways, PTL

\* No operation repeats the change of an earlier one: a torn batch is cut off
\* whole, and a complete one is not done again.
THEOREM NoChangeIsTwice ==
  ASSUME EditorsWait
  PROVE  JournalSpec => []NoChangeTwice
<1>1. JournalControl /\ JournalSound => NoChangeTwice
  BY DEF JournalSound
<1> QED BY <1>1, SoundAlways, PTL
=============================================================================
