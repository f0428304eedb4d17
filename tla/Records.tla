------------------------------- MODULE Records --------------------------------
(***************************************************************************)
(* What a home keeps on disk for good, and who writes it: the row of a ticket,   *)
(* and the settings with the rows of the projects.  A behaviour is of one; the    *)
(* other stays as it began.                                                  *)
(***************************************************************************)
EXTENDS TicketRow, Setup

VARIABLE part

vars == <<rowVars, setupVars, part>>

Init ==
    /\ part \in {"ticket", "setup"} /\ RowInit /\ SetupInit
    /\ (part = "setup") = (present # {})

Next ==
    /\ UNCHANGED part
    /\ \/ part = "ticket" /\ RowNext /\ UNCHANGED setupVars
       \/ part = "setup" /\ SetupNext /\ UNCHANGED rowVars

Spec == Init /\ [][Next]_vars
===============================================================================
