--------------------------- MODULE MCTaskLifecycle ---------------------------
(***************************************************************************)
(* TaskLifecycle on small boards.  Pumps, tasks and starters are           *)
(* interchangeable; session ids are told apart by the order they are       *)
(* minted in.                                                              *)
(***************************************************************************)
EXTENDS TaskLifecycle, TLC

Symmetry ==
    Permutations(Pump) \cup Permutations(Task) \cup Permutations(Starter)
=============================================================================
