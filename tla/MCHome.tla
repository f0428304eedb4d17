-------------------------------- MODULE MCHome --------------------------------
(***************************************************************************)
(* A home whose commands race one another's exits, with a host's cache and     *)
(* the log of a run; or the attempts of a run.  A behaviour is of one, and the   *)
(* other stays as it began.                                                 *)
(***************************************************************************)
EXTENDS Home, Attempt

\* What is started, and in which windows of another process.
AllCommands == {"serve", "run", "stop"}
WhileExiting == {"exiting"}

\* A message whose usage is repeated, and a line outside the protocol of an agent
\* that prints more on one line than can be read.
SmallTranscripts == {<<"m1", "m1">>, <<"junk", "huge">>}
SmallSteps == <<"optional", "required">>

VARIABLE subject

AtRest == adapter = (CHOOSE a \in Adapters : TRUE) /\ output = (CHOOSE o \in Transcripts : TRUE)

HomeOrRunInit ==
    /\ Init /\ AttemptInit
    /\ \/ subject = "home" /\ AtRest
       \/ subject = "run" /\ part = "owner"

HomeOrRunNext ==
    /\ UNCHANGED subject
    /\ \/ subject = "home" /\ Next /\ UNCHANGED allVars
       \/ subject = "run" /\ AttemptNext /\ UNCHANGED homeVars

HomeOrRunSpec ==
    /\ HomeOrRunInit /\ [][HomeOrRunNext]_<<homeVars, allVars, subject>>
    /\ Fairness /\ AttemptFairness
===============================================================================
