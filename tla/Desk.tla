--------------------------------- MODULE Desk ---------------------------------
(***************************************************************************)
(* The terminal client: its frame and the screens that keep state between two   *)
(* keys.  What they share, the frame's snapshot and whether a screen is the one   *)
(* shown, is part of each of them, so a behaviour is of one; the others stay as  *)
(* they began.                                                             *)
(***************************************************************************)
EXTENDS Frame, ReviewCard, Lists, RunningScreen

VARIABLE screen

deskVars == <<frameVars, cardVars, listVars, runningVars, screen>>

CONSTANT Shown    \* the screens considered

Init ==
    /\ screen \in Shown
    /\ FrameInit /\ CardInit /\ ListInit /\ RunningInit
    /\ screen # "list" => list = "ready"

Next ==
    /\ UNCHANGED screen
    /\ \/ screen = "frame" /\ FrameNext /\ UNCHANGED <<cardVars, listVars, runningVars>>
       \/ screen = "card" /\ CardNext /\ UNCHANGED <<frameVars, listVars, runningVars>>
       \/ screen = "list" /\ ListNext /\ UNCHANGED <<frameVars, cardVars, runningVars>>
       \/ screen = "run" /\ RunningNext /\ UNCHANGED <<frameVars, cardVars, listVars>>

\* No load is asked for by a screen that is not the card, so the fairness of loads binds it only.
Spec == Init /\ [][Next]_deskVars /\ CardFairness
================================================================================
