----------------------------- MODULE Conversation -----------------------------
(***************************************************************************)
(* One turn of a planning conversation or a change discussion, from the     *)
(* request to the answer: routing to a model that is not cooling down, the  *)
(* adapter's Run or Resume, and the fallback when the model is out of quota. *)
(* Calls run concurrently; the table of unavailable models is shared.       *)
(* A turn is a number; what a model knows of a conversation is the set of   *)
(* answered turns it has been told or took part in.                         *)
(***************************************************************************)
EXTENDS Providers

CONSTANTS
    Calls,        \* requests that may be in flight at once
    Route,        \* the planning bucket: agents [provider, model] in order of preference
    MaxTurns      \* bound on the turns asked

ASSUME ConversationAssumption ==
    Route \in Seq([provider : Adapters, model : STRING]) /\ MaxTurns \in Nat

Turns == 1..MaxTurns
Agents == Range(Route)
NoAgent == [provider |-> "none", model |-> "none"]

\* An opaque provider session, labelled with the adapter that made it (encodeSession).
NoSession == [by |-> "none", knows |-> {}]

VARIABLES
    cooling,      \* agents the store calls unavailable
    asked,        \* turns asked so far
    call          \* Calls -> the request being served

engine == <<cooling, asked, call>>

Idle == [stage |-> "idle", turn |-> 0, session |-> NoSession, agent |-> NoAgent, told |-> {},
         tried |-> {}, knows |-> {}, via |-> "none"]

EngineInit == cooling = {} /\ asked = 0 /\ call = [c \in Calls |-> Idle]

\* A turn is put: with the session and agent its conversation holds, and its visible history.
Put(c, session, agent, history) ==
    /\ call[c].stage = "idle" /\ asked < MaxTurns
    /\ asked' = asked + 1
    /\ call' = [call EXCEPT ![c] = [Idle EXCEPT !.stage = "routing", !.turn = asked',
                                        !.session = session, !.agent = agent, !.told = history]]
    /\ UNCHANGED cooling

---------------------------------------------------------------------------
(* Planner.Plan and Discussion.Discuss.                                    *)

Usable == {i \in DOMAIN Route : Route[i] \notin cooling}

\* The first of them, if there is any.
Selected == {Route[i] : i \in {u \in Usable : \A v \in Usable : u <= v}}

\* A session is kept only for the agent that holds the conversation.
SessionFor(c, agent) ==
    IF call[c].session.by = agent.provider /\ call[c].agent \in {NoAgent, agent}
    THEN call[c].session ELSE NoSession

\* The call once this agent is chosen for it.
Chosen(c, agent) ==
    [call[c] EXCEPT !.tried = @ \cup {agent}, !.session = SessionFor(c, agent), !.agent = agent]

Failed(c) == [Idle EXCEPT !.stage = "failed", !.turn = call[c].turn]

\* Resume goes to the session, Run to a fresh one that is told the visible conversation.
Told(chosen) == IF chosen.session # NoSession THEN chosen.session.knows ELSE chosen.told

\* How a prompt reaches the CLI.  Claude and Codex read it from stdin.
ClaudeVia(long) == "stdin"
CodexVia(long) == "stdin"

\* Copilot has no stdin mode: a prompt too long for an argument goes in a file, which is
\* removed when the process is done with it.
CopilotVia(long) == IF long THEN "file" ELSE "argument"

Via(agent, long) ==
    CASE agent.provider = "claude" -> ClaudeVia(long)
      [] agent.provider = "codex" -> CodexVia(long)
      [] agent.provider = "copilot" -> CopilotVia(long)

\* The kernel takes no argument beyond 128 KiB.
Executable(agent, long) == Via(agent, long) # "argument" \/ ~long

\* Mutant: a model that was already out of quota this turn is asked again.
Exhausted_again(c) == Selected = {}

\* No usable model, or a fallback to one already tried, ends the turn.
Exhausted(c) == \A agent \in Selected : agent \in call[c].tried

NotRouted(c) ==
    /\ call[c].stage = "routing" /\ Exhausted(c)
    /\ call' = [call EXCEPT ![c] = Failed(c)]
    /\ UNCHANGED <<cooling, asked>>

\* Nowhere to run, a permission the CLI cannot express, or an exec that fails.
StartFails(c) ==
    /\ call[c].stage = "routing" /\ ~Exhausted(c)
    /\ call' = [call EXCEPT ![c] = Failed(c)]
    /\ UNCHANGED <<cooling, asked>>

Starts(c) ==
    /\ call[c].stage = "routing" /\ ~Exhausted(c)
    /\ \E agent \in Selected, long \in BOOLEAN :
        LET chosen == Chosen(c, agent) IN
            /\ Executable(agent, long)
            /\ call' = [call EXCEPT ![c] = [chosen EXCEPT !.stage = "speaking", !.knows = Told(chosen),
                                                       !.via = Via(agent, long)]]
    /\ UNCHANGED <<cooling, asked>>

\* Being refused some of its looking around does not undo an answer that was given.
RefusedButFinished(class, denied) == class = "task" /\ denied

\* An answer nobody can read is a failure too.
Answers(c) ==
    /\ call[c].stage = "speaking"
    /\ \E class \in Classes, denied, said \in BOOLEAN :
        /\ class \notin {"quota", "rate"}
        /\ call' = [call EXCEPT ![c] =
                IF (class = "success" \/ RefusedButFinished(class, denied)) /\ said
                THEN [@ EXCEPT !.stage = "answered", !.via = "none", !.told = {}, !.tried = {}]
                ELSE Failed(c)]
    /\ UNCHANGED <<cooling, asked>>

\* Out of quota: the model is put on cooldown, the session is dropped and the next model
\* is asked.  A store that refuses the cooldown ends the turn.
OutOfQuota(c) ==
    /\ call[c].stage = "speaking"
    /\ \E recorded \in BOOLEAN :
        /\ cooling' = IF recorded THEN cooling \cup {call[c].agent} ELSE cooling
        /\ call' = [call EXCEPT ![c] =
                IF recorded THEN [@ EXCEPT !.stage = "routing", !.session = NoSession, !.via = "none",
                                           !.knows = {}]
                ELSE Failed(c)]
    /\ UNCHANGED asked

CooldownEnds ==
    \E a \in cooling : cooling' = cooling \ {a} /\ UNCHANGED <<asked, call>>

\* The session an answer hands back: the one resumed or a new one, now knowing this turn.
SessionOf(c) == [by |-> call[c].agent.provider, knows |-> call[c].knows \cup {call[c].turn}]

Served(c) == NotRouted(c) \/ StartFails(c) \/ Starts(c) \/ Answers(c) \/ OutOfQuota(c)
Serving == \E c \in Calls : Served(c)

\* A request is served by a goroutine of its own and a process has a wall-clock limit.
EngineFairness == \A c \in Calls : WF_engine(Served(c))

---------------------------------------------------------------------------
(* Properties.                                                             *)

\* However the conversation moved between models, whichever answers now has every turn
\* that was answered before this one was asked: in the session resumed, or in its prompt.
ContextWhole ==
    \A c \in Calls : call[c].stage = "speaking" =>
        /\ call[c].told \subseteq call[c].knows
        /\ call[c].session # NoSession => call[c].session.by = call[c].agent.provider

\* However long it is, a prompt can be handed to whichever model is asked, whole; and one
\* handed over in a file does not outlive the process.
PromptsReach ==
    /\ \A agent \in Agents, long \in BOOLEAN : Executable(agent, long)
    /\ \A c \in Calls : call[c].via = "file" => call[c].stage = "speaking"

\* Every turn comes to an answer or a failure, however many models are out of quota and
\* however often a cooldown ends while it is being asked.
TurnEnds ==
    \A c \in Calls : call[c].stage # "idle" ~> call[c].stage \in {"idle", "answered", "failed"}
==============================================================================
