--------------------------- MODULE MCWorkstation ---------------------------
(***************************************************************************)
(* The components of one computer that share no state in the models, in    *)
(* one run: a behaviour chooses a component and is a behaviour of it.      *)
(***************************************************************************)
EXTENDS BoardView, Journal, Landing

VARIABLE focus      \* the component this behaviour is about

allVars == <<focus, viewVars, journalVars, landVars>>

WorkstationInit ==
    /\ focus \in {"view", "journal", "landing"}
    /\ ViewInit /\ JournalInit /\ LandInit
    \* Its own first states only: one of the others is enough.
    /\ focus # "landing" => auto
    /\ focus # "view" => files.cards = CHOOSE cards \in [Card -> Column] : TRUE

OnlyView    == UNCHANGED <<focus, journalVars, landVars>>
OnlyJournal == UNCHANGED <<focus, viewVars, landVars>>
OnlyLanding == UNCHANGED <<focus, viewVars, journalVars>>

WorkstationNext ==
    \/ focus = "view" /\ ViewNext /\ OnlyView
    \/ focus = "journal" /\ JournalNext /\ OnlyJournal
    \/ focus = "landing" /\ LandNext /\ OnlyLanding

\* ViewGoesOn, JournalGoesOn, and LandGoesOn with ResolversCommit,
\* each where it is looked at.
WorkstationGoesOn ==
    /\ WF_viewVars(focus = "view" /\ TickView)
    /\ WF_viewVars(focus = "view" /\ TickReady)
    /\ WF_viewVars(focus = "view" /\ WorkerStep)
    /\ WF_viewVars(focus = "view" /\ \E m \in moves : MoveRuns(m))
    /\ WF_journalVars(focus = "journal" /\ JournalStep)
    /\ SF_journalVars(focus = "journal" /\ BeginScan)
    /\ LandGoesOn /\ ResolversCommit

WorkstationSpec ==
    WorkstationInit /\ [][WorkstationNext]_allVars /\ WorkstationGoesOn
=============================================================================
