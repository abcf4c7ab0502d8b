----------------------------- MODULE MCExchange -----------------------------
(***************************************************************************)
(* Safety of components that share no state in the models, in one run: a   *)
(* behaviour chooses a component and is a behaviour of it.  Merge, Landing *)
(* and BoardView come with larger instances than liveness allows;          *)
(* RemoteRuns has two nodes and the work of one task.                      *)
(***************************************************************************)
EXTENDS RemoteRuns, Landing, BoardView, CycleSearch, Merge, TLC

VARIABLE focus      \* the component this behaviour is about

ExchangeInit ==
    /\ focus \in {"merge", "landing", "view", "runs", "search"}
    /\ MergeInit /\ LandInit /\ ViewInit /\ RunInit /\ SearchInit
    \* Its own first states only: one of the others is enough.
    /\ focus # "landing" => auto
    /\ focus # "view" => files.cards = CHOOSE cards \in [Card -> Column] : TRUE
    /\ focus # "search" => edges = [n \in Vertex |-> {}]
    /\ focus # "runs" => \A n \in Peer : ops[n] = <<>>
    \* Where a node runs the task already, it is node 1.
    /\ \A n \in Peer \ {1} : ops[n] = <<>>

ExchangeNext ==
    \/ /\ focus = "merge" /\ MergeNext
       /\ UNCHANGED <<focus, landVars, viewVars, runVars, searchVars>>
    \/ /\ focus = "landing" /\ LandNext
       /\ UNCHANGED <<focus, mergeVars, viewVars, runVars, searchVars>>
    \/ /\ focus = "view" /\ ViewNext
       /\ UNCHANGED <<focus, mergeVars, landVars, runVars, searchVars>>
    \/ /\ focus = "runs" /\ RunNext
       \* Two intents, or one and a fault.
       /\ asked' + deaths' <= MaxIntents
       /\ UNCHANGED <<focus, mergeVars, landVars, viewVars, searchVars>>
    \/ /\ focus = "search" /\ SearchNext
       /\ UNCHANGED <<focus, mergeVars, landVars, viewVars, runVars>>

ExchangeSpec ==
    /\ ExchangeInit
    /\ [][ExchangeNext]_<<focus, mergeVars, landVars, viewVars,
                          runVars, searchVars>>
=============================================================================
