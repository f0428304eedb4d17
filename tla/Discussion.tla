------------------------------ MODULE Discussion ------------------------------
(***************************************************************************)
(* The change discussion about one ticket under review: the screen, the     *)
(* stored discussions, the turns held by an agent, the confirmed send and   *)
(* the prompt the next attempt is given.  The store keeps whole rows, so a   *)
(* turn writes back the copy it took when it began.  The draft under         *)
(* discussion is left out: a human may word it anyhow until it is sent.      *)
(***************************************************************************)
EXTENDS Conversation

CONSTANTS
    Talking,      \* the requests of Calls that may be turns of a discussion
    Promises,     \* behaviour an instruction may ask to preserve
    Drafts,       \* instructions a human or an agent may word, [says, keep]
    MaxRuns,      \* bound on the runs of the ticket
    MaxRows,      \* bound on its discussions
    MaxSays       \* bound on what the human says: turns asked and instructions agreed

NoDraft == [says |-> "", keep |-> {}]
ASSUME DiscussionAssumption ==
    /\ Drafts \subseteq [says : {"", "this", "that"}, keep : SUBSET Promises] 
    /\ Talking \subseteq Calls /\ {MaxRuns, MaxRows, MaxSays} \subseteq Nat

Direct == [says |-> "direct", keep |-> {}]

VARIABLES
    ticket,       \* [state, run, feedback]
    cds,          \* change_discussions, oldest first
    agreed,       \* change_instructions, oldest first
    held,         \* Calls -> the row a turn took, and its copy of it
    desk,         \* the screen
    sending       \* the SendChanges in flight

discussVars == <<ticket, cds, agreed, held, desk, sending>>

NotHeld == [row |-> 0, cd |-> "none"]
NoSend == [step |-> "none", draft |-> NoDraft, row |-> 0, cd |-> "none"]

DiscussInit ==
    /\ ticket = [state |-> "waiting", run |-> 1, feedback |-> NoDraft]
    /\ cds = <<>> /\ agreed = <<>> /\ held = [c \in Calls |-> NotHeld]
    /\ desk = "closed" /\ sending = NoSend

\* In Review or in Needs You: the event that moves it back differs, and nothing else.
NeedsHuman == ticket.state = "waiting"
Open == {i \in DOMAIN cds : cds[i].state = "open"}
Current == Max(Open)

NewDiscussion == [run |-> ticket.run, state |-> "open", session |-> NoSession, agent |-> NoAgent,
                  answered |-> {}]

\* The stored discussions once one about the current run is open: one about an earlier diff
\* is superseded.
Opened ==
    IF Open = {} THEN Append(cds, NewDiscussion)
    ELSE IF cds[Current].run = ticket.run THEN cds
    ELSE Append([cds EXCEPT ![Current].state = "canceled"], NewDiscussion)

---------------------------------------------------------------------------
(* The screen.                                                             *)

OpenDiscussion ==
    /\ desk = "closed" /\ NeedsHuman /\ Len(Opened) <= MaxRows
    /\ cds' = Opened
    /\ desk' = "reading"
    /\ UNCHANGED <<engine, ticket, agreed, held, sending>>

Cancel ==
    /\ desk = "reading"
    /\ cds' = IF Open = {} THEN cds ELSE [cds EXCEPT ![Current].state = "canceled"]
    /\ desk' = "closed"
    /\ UNCHANGED <<engine, ticket, agreed, held, sending>>

---------------------------------------------------------------------------
(* Discuss.                                                                *)

\* A turn takes a copy of the discussion.
Say(c) ==
    /\ desk = "reading" /\ Open # {} /\ asked + Len(agreed) < MaxSays
    /\ LET cd == cds[Current] IN
        /\ Put(c, cd.session, cd.agent, cd.answered)
        /\ held' = [held EXCEPT ![c] = [row |-> Current, cd |-> cd]]
    /\ UNCHANGED <<ticket, cds, agreed, desk, sending>>

\* What an answered turn writes back: the session, the agent and the exchange.
Exchange(c) ==
    [held[c].cd EXCEPT !.session = SessionOf(c), !.agent = call[c].agent,
                       !.answered = @ \cup {call[c].turn}]

Return(c) == call' = [call EXCEPT ![c] = Idle] /\ held' = [held EXCEPT ![c] = NotHeld]

SaysAnswer(c) ==
    /\ call[c].stage = "answered" /\ held[c].row # 0
    /\ cds' = [cds EXCEPT ![held[c].row] = Exchange(c)]
    /\ Return(c)
    /\ UNCHANGED <<cooling, asked, ticket, agreed, desk, sending>>

\* The failure is kept in the transcript, which is no part of the history an agent is told;
\* the screen then opens the discussion again.
SaysFailure(c) ==
    /\ call[c].stage = "failed" /\ held[c].row # 0
    /\ cds' = [cds EXCEPT ![held[c].row] = held[c].cd]
    /\ Return(c)
    /\ UNCHANGED <<cooling, asked, ticket, agreed, desk, sending>>

---------------------------------------------------------------------------
(* SendChanges, write by write.                                            *)

\* S and then y: the draft on the screen, which the human may have worded anyhow, is
\* sent unless it says nothing or the discussion is no longer open.
ConfirmSend ==
    /\ desk = "reading" /\ sending.step = "none" /\ asked + Len(agreed) < MaxSays
    /\ \E draft \in Drafts :
        sending' = IF Open # {} /\ draft.says # ""
                   THEN [step |-> "agree", draft |-> draft, row |-> Current, cd |-> cds[Current]]
                   ELSE sending
    /\ UNCHANGED <<engine, ticket, cds, agreed, held, desk>>

Sent(step) == sending' = [sending EXCEPT !.step = step]

\* Recorded before the ticket moves.
Agree ==
    /\ sending.step = "agree"
    /\ agreed' = Append(agreed, sending.draft)
    /\ Sent("close")
    /\ UNCHANGED <<engine, ticket, cds, held, desk>>

CloseDiscussion ==
    /\ sending.step = "close"
    /\ cds' = [cds EXCEPT ![sending.row] = [sending.cd EXCEPT !.state = "sent"]]
    /\ Sent("feedback")
    /\ UNCHANGED <<engine, ticket, agreed, held, desk>>

NoteFeedback ==
    /\ sending.step = "feedback"
    /\ ticket' = [ticket EXCEPT !.feedback = sending.draft]
    /\ Sent("move")
    /\ UNCHANGED <<engine, cds, agreed, held, desk>>

\* request_changes or requeue; then the screen leaves the discussion.
MoveBack ==
    /\ sending.step = "move" /\ NeedsHuman
    /\ ticket' = [ticket EXCEPT !.state = "ready"]
    /\ sending' = NoSend /\ desk' = "closed"
    /\ UNCHANGED <<engine, cds, agreed, held>>

\* A write that is refused, a ticket that has moved, or the client's timeout.
SendFails ==
    /\ sending.step # "none"
    /\ sending' = NoSend
    /\ UNCHANGED <<engine, ticket, cds, agreed, held, desk>>

\* RequestChanges, which a script may call without a discussion.
RequestChanges ==
    /\ NeedsHuman
    /\ ticket' = [ticket EXCEPT !.state = "ready", !.feedback = Direct]
    /\ UNCHANGED <<engine, cds, agreed, held, desk, sending>>

---------------------------------------------------------------------------
(* The next attempt.                                                       *)

\* Mutant: only the latest instruction is rendered.
Bound_latest(list) == UNION {Last(list).keep : i \in DOMAIN list}

\* RenderChangeInstructions: the latest instruction in full, then every constraint of the
\* earlier ones that it does not repeat.
Bound(list) == UNION {list[i].keep : i \in DOMAIN list}

\* SimplePrompt.Build: the feedback is printed when it is not the latest instruction again.
Build(list, feedback) ==
    [says |-> IF list = <<>> THEN "" ELSE Last(list).says, bound |-> Bound(list),
     feedback |-> IF list # <<>> /\ feedback = Last(list) THEN NoDraft ELSE feedback]

RunAgain ==
    /\ ticket.state = "ready" /\ ticket.run < MaxRuns
    /\ ticket' = [ticket EXCEPT !.state = "running", !.run = @ + 1]
    /\ UNCHANGED <<engine, cds, agreed, held, desk, sending>>

RunReturns ==
    /\ ticket.state = "running"
    /\ ticket' = [ticket EXCEPT !.state = "waiting"]
    /\ UNCHANGED <<engine, cds, agreed, held, desk, sending>>

DiscussNext ==
    \/ Serving /\ UNCHANGED discussVars
    \/ \E c \in Talking : Say(c) \/ SaysAnswer(c) \/ SaysFailure(c)
    \/ OpenDiscussion \/ Cancel
    \/ ConfirmSend \/ Agree \/ CloseDiscussion \/ NoteFeedback \/ MoveBack \/ SendFails
    \/ RequestChanges \/ RunAgain \/ RunReturns

---------------------------------------------------------------------------
(* Properties.                                                             *)

\* Whatever else writes the ticket meanwhile, a run is not started on a correction from a
\* discussion that is not in the record: later rounds would not be bound by it.
MovesCarryAgreement ==
    ticket.state = "ready" /\ ticket.feedback \notin {NoDraft, Direct} =>
        ticket.feedback \in Range(agreed)

\* Every promise of every earlier round is in front of the agent that starts on the next,
\* and so is the note that sent the work back.
PromisesBind ==
    ticket.state = "ready" =>
        LET prompt == Build(agreed, ticket.feedback) IN
        /\ \A i \in DOMAIN agreed : agreed[i].keep \subseteq prompt.bound
        /\ ticket.feedback.says \in {prompt.says, prompt.feedback.says}

\* What human and model agreed is on record before a run starts on it, and binds every run after.
AgreementKept == MovesCarryAgreement /\ PromisesBind
==============================================================================
