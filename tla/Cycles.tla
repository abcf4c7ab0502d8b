------------------------------- MODULE Cycles --------------------------------
(***************************************************************************)
(* Cycles in an adjacency map E from nodes to the ids they point at.  An   *)
(* id outside the domain is a leaf.                                        *)
(***************************************************************************)

\* A finite graph has a cycle iff some set of its nodes gives each of its
\* members a successor inside the set.  Module CycleSearch checks that this
\* is what find_cycle decides.
HasCycle(E) ==
    \E S \in SUBSET DOMAIN E : S # {} /\ \A x \in S : E[x] \cap S # {}
=============================================================================
