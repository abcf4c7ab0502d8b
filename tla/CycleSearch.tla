----------------------------- MODULE CycleSearch -----------------------------
(***************************************************************************)
(* find_cycle of core/graph.rs, one action per turn of its loop: an        *)
(* iterative depth-first search in three colours.  A node on the stack is  *)
(* Open, a node in done is Done, and any other has no mark.  The sorted    *)
(* order of the roots and the order of a node's children only decide which *)
(* cycle is reported; here they are taken in any order, and a node         *)
(* remembers the children it has not looked at yet instead of an index.    *)
(***************************************************************************)
EXTENDS Cycles, Naturals, FiniteSets, Sequences

CONSTANTS
    Vertex,       \* the tasks of the board, and the keys of a plan
    Unknown     \* ids that no task has

ASSUME SearchAssumption ==
    /\ Vertex \cap Unknown = {}
    /\ IsFiniteSet(Vertex) /\ IsFiniteSet(Unknown)

VARIABLES
    edges,      \* the adjacency map; the search does not change it
    stack,      \* the nodes being explored, the root first
    left,       \* the children of each node not looked at yet
    done,       \* explored without finding a cycle
    path,       \* the cycle found
    verdict

searchVars == <<edges, stack, left, done, path, verdict>>

Open == {stack[i] : i \in 1 .. Len(stack)}

Top == stack[Len(stack)]

\* marks is a map: a node has one mark.
SearchTypeOK ==
    /\ edges \in [Vertex -> SUBSET (Vertex \cup Unknown)]
    /\ stack \in Seq(Vertex)
    /\ left \in [Vertex -> SUBSET (Vertex \cup Unknown)]
    /\ done \subseteq Vertex
    /\ path \in Seq(Vertex)
    /\ verdict \in {"searching", "acyclic", "cycle"}
    /\ Open \cap done = {}

SearchInit ==
    /\ edges \in [Vertex -> SUBSET (Vertex \cup Unknown)]
    /\ stack = <<>>
    /\ left = edges
    /\ done = {}
    /\ path = <<>>
    /\ verdict = "searching"

NextRoot(root) ==
    /\ verdict = "searching"
    /\ stack = <<>>
    /\ root \in Vertex \ done
    /\ stack' = <<root>>
    /\ UNCHANGED <<edges, left, done, path, verdict>>

Finish ==
    /\ verdict = "searching"
    /\ stack # <<>>
    /\ left[Top] = {}
    /\ done' = done \cup {Top}
    /\ stack' = SubSeq(stack, 1, Len(stack) - 1)
    /\ UNCHANGED <<edges, left, path, verdict>>

\* The next child of the top of the stack.
Look(child) ==
    /\ verdict = "searching"
    /\ stack # <<>>
    /\ child \in left[Top]
    /\ left' = [left EXCEPT ![Top] = @ \ {child}]
    /\ UNCHANGED <<edges, done>>

\* Mutant: an Open child is passed over like a Done one.
LookAtMarked(child) ==
    /\ child \in done \cup Open \cup Unknown
    /\ Look(child)
    /\ UNCHANGED <<stack, path, verdict>>

LookAtDone(child) ==
    /\ child \in done \cup Unknown
    /\ Look(child)
    /\ UNCHANGED <<stack, path, verdict>>

\* Mutant: a Done child is explored again.
DescendAgain(child) ==
    /\ child \in Vertex \ Open
    /\ Look(child)
    /\ stack' = Append(stack, child)
    /\ UNCHANGED <<path, verdict>>

Descend(child) ==
    /\ child \in Vertex \ (done \cup Open)
    /\ Look(child)
    /\ stack' = Append(stack, child)
    /\ UNCHANGED <<path, verdict>>

\* Mutant: the whole stack is reported.
CloseStack(child) ==
    /\ child \in Open
    /\ Look(child)
    /\ path' = Append(stack, child)
    /\ verdict' = "cycle"
    /\ UNCHANGED stack

CloseCycle(child) ==
    /\ Look(child)
    /\ \E i \in 1 .. Len(stack) :
          /\ stack[i] = child
          /\ path' = Append(SubSeq(stack, i, Len(stack)), child)
    /\ verdict' = "cycle"
    /\ UNCHANGED stack

GiveUp ==
    /\ verdict = "searching"
    /\ stack = <<>>
    /\ done = Vertex
    /\ verdict' = "acyclic"
    /\ UNCHANGED <<edges, stack, left, done, path>>

SearchNext ==
    \/ \E n \in Vertex : NextRoot(n) \/ Descend(n) \/ CloseCycle(n)
    \/ \E n \in Vertex \cup Unknown : LookAtDone(n)
    \/ Finish
    \/ GiveUp

SearchSpec == SearchInit /\ [][SearchNext]_searchVars

-----------------------------------------------------------------------------
(* Properties.                                                             *)

\* A search that finds nothing has shown that there is no cycle.
NoneMissed == verdict = "acyclic" => ~HasCycle(edges)

\* What is reported is a cycle of the graph: each id depends on the next, and
\* the last is the first.
CycleIsReal ==
    verdict = "cycle" =>
        /\ Len(path) > 1
        /\ path[1] = path[Len(path)]
        /\ \A i \in 1 .. Len(path) - 1 : path[i + 1] \in edges[path[i]]

Unmarked == Vertex \ (done \cup Open)

Unseen == {e \in Vertex \X (Vertex \cup Unknown) : e[2] \in left[e[1]]}

\* What is still to be explored: a node is pushed and popped once, an edge is
\* looked at once.
Unexplored ==
    2 * Cardinality(Unmarked) + Len(stack) + Cardinality(Unseen)
      + IF verdict = "searching" THEN 1 ELSE 0

\* Every turn of the loop explores something for the first time, so the search
\* ends, and in time linear in the graph, however its paths meet again.
NothingTwice == [][Unexplored' < Unexplored]_searchVars
=============================================================================
