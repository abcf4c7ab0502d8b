------------------------------ MODULE MCSweeps ------------------------------
(***************************************************************************)
(* When the pumps of a board run, the graph their sweeps release, and a    *)
(* node that waits for quota: three parts that share no state in the       *)
(* models, in one run.  A behaviour chooses a part and is a behaviour of   *)
(* it.                                                                     *)
(***************************************************************************)
EXTENDS PumpSharing, DependencyGraph, ExecutorPools

VARIABLE focus      \* the part this behaviour is about

sweepsVars == <<focus, pumpVars, vars, poolVars>>

SweepsInit ==
    /\ focus \in {"pumps", "graph", "pool"}
    /\ PumpInit /\ Init /\ PoolInit
    \* Its own first states only: one at rest is enough of the others.
    /\ focus # "graph" => \A t \in Id : ~node[t].planner
    /\ focus # "pool" => plannode.phase = "Execute"

SweepsNext ==
    \/ focus = "pumps" /\ PumpNext /\ UNCHANGED <<focus, vars, poolVars>>
    \/ focus = "graph" /\ Next /\ UNCHANGED <<focus, pumpVars, poolVars>>
    \/ focus = "pool" /\ PoolNext /\ UNCHANGED <<focus, pumpVars, vars>>

\* PumpsGoOn, Fairness and PoolsGoOn, each where it is looked at.
SweepsGoOn ==
    /\ WF_pumpVars(focus = "pumps" /\ Clock)
    /\ \A p \in Pump :
          /\ WF_pumpVars(focus = "pumps" /\ TryLock(p))
          /\ WF_pumpVars(focus = "pumps" /\ PumpWork(p))
    /\ \A p \in Sweeper : WF_vars(focus = "graph" /\ SweepStep(p) /\ History)
    /\ \A t \in Id :
          /\ WF_vars(focus = "graph" /\ StartRun(t) /\ History)
          /\ WF_vars(focus = "graph" /\ RunFinishes(t) /\ History)
          /\ WF_vars(focus = "graph" /\ RunEnds(t) /\ History)
    /\ WF_poolVars(focus = "pool" /\ DeadlinePasses)
    /\ WF_poolVars(focus = "pool" /\ DueRestart)
    /\ WF_poolVars(focus = "pool" /\ SlotFree /\ (ClaimParks \/ ClaimStarts))

SweepsSpec == SweepsInit /\ [][SweepsNext]_sweepsVars /\ SweepsGoOn
=============================================================================
