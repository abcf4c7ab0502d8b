------------------------------ MODULE MCLanding ------------------------------
(***************************************************************************)
(* Landing alone, for the runs that show where it goes wrong.              *)
(***************************************************************************)
EXTENDS Landing

\* Everything the code does goes on, but an agent that was asked to resolve a
\* conflict need not commit the resolution itself: the landing commits what it
\* finds in the checkout.
ObedientSpec == LandSpec /\ LandGoesOn
=============================================================================
