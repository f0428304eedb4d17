--------------------------------- MODULE Talk ---------------------------------
(***************************************************************************)
(* The two conversations gravy holds with a model, over one engine.  They   *)
(* meet in the engine only, and a ticket added by hand meets neither, so a  *)
(* behaviour is of one kind; the state of the others stays as it began.     *)
(***************************************************************************)
EXTENDS Planning, Discussion

VARIABLE kind

talkVars == <<engine, planVars, discussVars, kind>>

Init ==
    /\ kind \in {"planning", "adding", "discussing"}
    /\ EngineInit /\ PlanInit /\ DiscussInit

Next ==
    /\ UNCHANGED kind
    /\ \/ kind = "planning" /\ PlanNext /\ UNCHANGED discussVars
       \/ kind = "adding" /\ (Add \/ Creating) /\ UNCHANGED discussVars
       \/ kind = "discussing" /\ DiscussNext /\ UNCHANGED planVars

Spec == Init /\ [][Next]_talkVars /\ EngineFairness

\* A turn keeps what it is made of, from the question to the screen: every earlier turn, a prompt
\* the model can be handed, and the conversation and project it is an answer to.
TurnsKept == ContextWhole /\ PromptsReach /\ AnswersStayHome
==============================================================================
