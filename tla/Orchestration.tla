--------------------------- MODULE Orchestration ---------------------------
(***************************************************************************)
(* How one machine works the queue: the scheduler loop that starts runs,    *)
(* the orchestrator goroutine that carries a ticket from Ready to Review,   *)
(* the human's operations that race with it, a daemon that can be stopped   *)
(* or killed at any point, and the reconciliation that runs when it starts  *)
(* again.  One action is one step between two points where the code can be  *)
(* interrupted; a step that writes the store writes one row.                *)
(***************************************************************************)
EXTENDS Lifecycle, Naturals, FiniteSets

CONSTANTS
  Tickets,        \* the tickets of the queue
  Slots,          \* worker slots of the machine (config `slots`)
  Budget,         \* SelfCorrectionBudget
  MaxCrashes,     \* bound: times the daemon is stopped or killed
  MaxFaults,      \* bound: store operations of runs that fail
  MaxMishaps,     \* bound: panics, interrupted operations and saves of a whole row
  MaxOpenRows,    \* bound: a ticket with this many open run rows is not picked
  EditedIn        \* bound: states a ticket is in when its row is read to be edited

ASSUME TicketsAssumption == IsFiniteSet(Tickets)
ASSUME SlotsAssumption  == Slots \in Nat
ASSUME BudgetAssumption == Budget \in Nat
ASSUME BoundsAssumption ==
  /\ MaxCrashes \in Nat /\ MaxFaults \in Nat /\ MaxMishaps \in Nat /\ MaxOpenRows \in Nat
  /\ EditedIn \subseteq States

None == "no ticket"
ASSUME NoneAssumption == None \notin Tickets

(***************************************************************************)
(* State.                                                                   *)
(***************************************************************************)
VARIABLES
  state,      \* tickets.state
  rows,       \* the ticket's attention rows: some are "open", there are "none", or
              \* they were "noted": a human closed the last one and moved nothing
  unfinished, \* number of the ticket's run rows with ended_at NULL
  orphans,    \* agent processes in the ticket's worktree no daemon holds
  pc,         \* where the ticket's goroutine is; "idle" when there is none
  attempt,    \* attemptLoop's counter
  outcome,    \* what the agent reported, until the loop has judged it
  committed,  \* loopResult.commit is not empty, while the loop runs
  slots,      \* worker slots in use (LocalHost.inUse)
  decided,    \* assignments of the current tick not yet started
  human,      \* where the human's operation on the ticket is
  held,       \* the state in the row that operation has read
  daemon,     \* phase of the daemon
  todo, cur,  \* reconciliation: tickets of this pass, ticket in hand
  crashes, faults, mishaps

\* History, for the properties alone: no guard reads it.
VARIABLES
  forsaken,    \* tickets whose run panicked, or whose landing's process died or
               \* gave up, since the landings were last listed
  overwritten, \* tickets an old copy of the row was saved over since a run last
               \* took them
  crossed      \* tickets whose state and attention rows were written by two at
               \* once, or by one that did not come to its second write, since a
               \* decision on them was last carried through

dbVars      == <<state, rows, unfinished>>
runVars     == <<pc, attempt, outcome, committed>>
loopVars    == <<slots, decided>>
humanVars   == <<human, held>>
daemonVars  == <<daemon, todo, cur>>
boundVars   == <<crashes, faults, mishaps>>
historyVars == <<forsaken, overwritten, crossed>>
vars == <<dbVars, orphans, runVars, loopVars, humanVars, daemonVars, boundVars, historyVars>>

Rows     == {"none", "open", "noted"}
Outcomes == {"none", "success", "task", "nostart", "limit", "down"}

\* Program points of the goroutine that hold a worker slot.
Working == {"assign", "prepare", "create", "start", "launch", "agent",
            "record", "limit", "finish", "validate", "retry", "passed",
            "advise", "raise", "park", "parkraise", "rescue", "done"}
\* No decision is under way; an edit or a note may be.
Aside == {"idle", "save", "request_changes", "requeue"}
HumanSteps == Aside \cup {"resolve", "continue", "approved", "landing", "landraise"}
Unread == "none"
Reconciling == {"runs", "park", "raise", "reviews", "reviewed", "landings", "landed"}
Phases == {"down", "refused", "up"} \cup Reconciling

TypeOK ==
  /\ state \in [Tickets -> States]
  /\ rows \in [Tickets -> Rows]
  /\ unfinished \in [Tickets -> Nat]
  /\ orphans \in [Tickets -> Nat]
  /\ pc \in [Tickets -> Working \cup {"idle", "claim"}]
  /\ attempt \in [Tickets -> 1..(Budget + 1)]
  /\ outcome \in [Tickets -> Outcomes]
  /\ committed \in [Tickets -> BOOLEAN]
  /\ slots \in 0..Slots
  /\ decided \subseteq Tickets
  /\ human \in [Tickets -> HumanSteps]
  /\ held \in [Tickets -> States \cup {Unread}]
  /\ daemon \in Phases
  /\ todo \subseteq Tickets
  /\ cur \in Tickets \cup {None}
  /\ crashes \in 0..MaxCrashes
  /\ faults \in Nat
  /\ mishaps \in 0..MaxMishaps
  /\ forsaken \subseteq Tickets /\ overwritten \subseteq Tickets /\ crossed \subseteq Tickets

\* Every ticket in the backlog, and a daemon that was never started.
FirstStart ==
  /\ state = [t \in Tickets |-> "backlog"]
  /\ rows = [t \in Tickets |-> "none"]
  /\ unfinished = [t \in Tickets |-> 0]
  /\ orphans = [t \in Tickets |-> 0]
  /\ pc = [t \in Tickets |-> "idle"]
  /\ attempt = [t \in Tickets |-> 1]
  /\ outcome = [t \in Tickets |-> "none"]
  /\ committed = [t \in Tickets |-> FALSE]
  /\ slots = 0
  /\ decided = {}
  /\ human = [t \in Tickets |-> "idle"]
  /\ held = [t \in Tickets |-> Unread]
  /\ daemon = "down"
  /\ todo = {}
  /\ cur = None
  /\ mishaps = 0
  /\ forsaken = {} /\ overwritten = {} /\ crossed = {}

Init == FirstStart /\ crashes = 0 /\ faults = 0

(***************************************************************************)
(* The store.                                                               *)
(***************************************************************************)

\* SetTicketState: one transaction that reads the state and applies the event.
SetTicketState(t, ev) ==
  \E to \in States : /\ Transition(state[t], ev, to)
                     /\ state' = [state EXCEPT ![t] = to]

\* The same, read with the error an illegal transition is.
Advance(t, ev, ok, failed) ==
  IF Legal(state[t], ev) THEN SetTicketState(t, ev) /\ ok ELSE state' = state /\ failed

OpenAttention(t) == rows' = [rows EXCEPT ![t] = "open"]

ResolveAttentionForTicket(t) == rows' = [rows EXCEPT ![t] = "none"]

\* The PID a run row carries.  executeAgent builds the row before the process
\* exists and never writes the PID into it, so every row carries the zero one.
RunRowPID(t) == 0

\* host.Alive: a PID that is not positive is no process.
Alive(t) == RunRowPID(t) > 0 /\ orphans[t] > 0

(***************************************************************************)
(* The scheduler loop.  A tick decides against the pool's free slots; the   *)
(* decisions are started one by one, each unless the loop already runs that *)
(* ticket (Loop.claim).  Which Ready tickets are eligible is the business   *)
(* of Dispatch: here any choice of them is allowed.                         *)
(***************************************************************************)
Tick ==
  /\ daemon = "up" /\ decided = {}
  /\ \E S \in SUBSET {t \in Tickets : state[t] = "ready" /\ unfinished[t] < MaxOpenRows} :
       /\ S # {} /\ Cardinality(S) <= Slots - slots
       /\ decided' = S
  /\ UNCHANGED <<dbVars, orphans, runVars, slots, humanVars, daemonVars, boundVars, historyVars>>

\* Mutant: every decision is started, running already or not.
LoopClaims_always(t) == TRUE
LoopClaims(t) == pc[t] = "idle"

Start(t) ==
  /\ t \in decided
  /\ decided' = decided \ {t}
  /\ pc' = [pc EXCEPT ![t] = IF LoopClaims(t) THEN "claim" ELSE @]
  /\ UNCHANGED <<dbVars, orphans, attempt, outcome, committed, slots,
                 humanVars, daemonVars, boundVars, historyVars>>

(***************************************************************************)
(* One ticket's goroutine.                                                  *)
(***************************************************************************)
goto(t, next) == pc' = [pc EXCEPT ![t] = next]

\* An event of the goroutine's own; refused, run() returns the error.
Move(t, ev, next) == Advance(t, ev, goto(t, next), goto(t, "rescue"))

\* Run: TryClaim.  No free slot is an error, and the ticket stays Ready.
Claim(t) ==
  /\ pc[t] = "claim"
  /\ IF slots < Slots
       THEN slots' = slots + 1 /\ goto(t, "assign")
       ELSE slots' = slots /\ goto(t, "idle")
  /\ attempt' = [attempt EXCEPT ![t] = 1]
  /\ outcome' = [outcome EXCEPT ![t] = "none"]
  /\ committed' = [committed EXCEPT ![t] = FALSE]
  /\ UNCHANGED <<dbVars, orphans, decided, humanVars, daemonVars, boundVars, historyVars>>

\* The steps below leave everything but the ticket's row, its attention rows
\* and the goroutine's own position to themselves.
Rest(t) == UNCHANGED <<unfinished, orphans, attempt, outcome, committed,
                       loopVars, humanVars, daemonVars, boundVars, historyVars>>

\* Ready -> Assigned, refused when the ticket was withdrawn or rejected since
\* the tick; an unregistered host or a failed read ends the same way.
Assign(t) ==
  /\ pc[t] = "assign"
  /\ \/ Move(t, "assign", "prepare")
     \/ state' = state /\ goto(t, "rescue")
  /\ LET taken == pc'[t] = "prepare" IN
       /\ forsaken' = IF taken THEN forsaken \ {t} ELSE forsaken
       /\ overwritten' = IF taken THEN overwritten \ {t} ELSE overwritten
       /\ crossed' = IF taken /\ human[t] = "resolve" THEN crossed \cup {t} ELSE crossed
  /\ UNCHANGED <<rows, unfinished, orphans, attempt, outcome, committed, loopVars,
                 humanVars, daemonVars, boundVars>>

\* Fetch, resolve the target, open or cut the worktree, record its path; any
\* of them can fail.  Then executeAgent's lookups, before the run row.
Prepare(t) ==
  /\ pc[t] = "prepare"
  /\ \E next \in {"create", "rescue"} : goto(t, next)
  /\ UNCHANGED <<state, rows>> /\ Rest(t)

\* The run row, after the provider is found and the prompt is built.
CreateRun(t) ==
  /\ pc[t] = "create"
  /\ \/ /\ unfinished' = [unfinished EXCEPT ![t] = @ + 1]
        /\ goto(t, IF attempt[t] = 1 THEN "start" ELSE "launch")
     \/ unfinished' = unfinished /\ goto(t, "rescue")
  /\ UNCHANGED <<state, rows, orphans, attempt, outcome, committed,
                 loopVars, humanVars, daemonVars, boundVars, historyVars>>

\* The first attempt moves Assigned -> Running; later ones are there already.
StartRunning(t) ==
  /\ pc[t] = "start"
  /\ Move(t, "start", "launch")
  /\ UNCHANGED rows /\ Rest(t)

\* provider.Run: the process starts, or the error leaves the run row open.
Launch(t) ==
  /\ pc[t] = "launch"
  /\ \E next \in {"agent", "rescue"} : goto(t, next)
  /\ UNCHANGED <<state, rows>> /\ Rest(t)

\* The agent exits, by itself or at RunTimeout, with some classification.
AgentExit(t) ==
  /\ pc[t] = "agent"
  /\ \E o \in Outcomes \ {"none"} : outcome' = [outcome EXCEPT ![t] = o]
  /\ goto(t, "record")
  /\ UNCHANGED <<dbVars, orphans, attempt, committed, loopVars, humanVars,
                 daemonVars, boundVars, historyVars>>

\* KillRun -> Orchestrator.Kill: the process and its children die, and nothing
\* else happens; the adapter reports a task failure, or an agent that never
\* started when it had produced nothing yet.
KillRun(t) ==
  /\ pc[t] = "agent"
  /\ \E o \in {"task", "nostart"} : outcome' = [outcome EXCEPT ![t] = o]
  /\ goto(t, "record")
  /\ UNCHANGED <<dbVars, orphans, attempt, committed, loopVars, humanVars,
                 daemonVars, boundVars, historyVars>>

\* The final write of the run row; then a Wait error, a provider-side limit or
\* a provider-side outage leaves the attempt loop.
RecordRun(t) ==
  /\ pc[t] = "record"
  /\ unfinished' = [unfinished EXCEPT ![t] = @ - 1]
  /\ \/ goto(t, CASE outcome[t] = "limit" -> "limit"
                  [] outcome[t] = "down"  -> "park"
                  [] OTHER                -> "finish")
     \/ goto(t, "rescue")
  /\ outcome' = [outcome EXCEPT ![t] = IF pc'[t] = "finish" THEN @ ELSE "none"]
  /\ UNCHANGED <<state, rows, orphans, attempt, committed, loopVars, humanVars, daemonVars,
                 boundVars, historyVars>>

\* Quota and rate limits: cool the model down, then give the ticket back.
ProviderLimit(t) ==
  /\ pc[t] = "limit"
  /\ Move(t, "provider_retry", "done")
  /\ UNCHANGED rows /\ Rest(t)

\* Running -> Validating; an agent that never started is an error from there.
AgentFinished(t) ==
  /\ pc[t] = "finish"
  /\ Move(t, "agent_finished", IF outcome[t] = "nostart" THEN "rescue" ELSE "validate")
  /\ UNCHANGED rows /\ Rest(t)

\* Mutant: `attempt <= maxAttempts` where the code says `<`.
WithinBudget_one_more(t) == attempt[t] <= Budget + 1
WithinBudget(t) == attempt[t] < Budget + 1

\* CommitAll and the validation steps.  Green counts when the agent succeeded
\* or some attempt left a commit; otherwise retry while the budget lasts.
Validate(t) ==
  /\ pc[t] = "validate"
  /\ \E diff, green \in BOOLEAN :
       LET commit == committed[t] \/ diff IN
       /\ \/ goto(t, IF green /\ (outcome[t] = "success" \/ commit) THEN "passed"
                     ELSE IF WithinBudget(t) THEN "retry" ELSE "park")
          \/ goto(t, "rescue")
       /\ committed' = [committed EXCEPT ![t] = commit /\ pc'[t] = "retry"]
  /\ outcome' = [outcome EXCEPT ![t] = "none"]
  /\ UNCHANGED <<dbVars, orphans, attempt, loopVars, humanVars, daemonVars, boundVars,
                 historyVars>>

\* Validating -> Running, and round the attempt loop.
Retry(t) ==
  /\ pc[t] = "retry"
  /\ Move(t, "validation_retry", "create")
  /\ attempt' = [attempt EXCEPT ![t] = @ + 1]
  /\ UNCHANGED <<rows, unfinished, orphans, outcome, committed, loopVars, humanVars, daemonVars,
                 boundVars, historyVars>>

ValidationPassed(t) ==
  /\ pc[t] = "passed"
  /\ Move(t, "validation_passed", "advise")
  /\ UNCHANGED rows /\ Rest(t)

\* Mutant: review is not one of the reasons the queue lists.
Reviewed_unlisted(t) ==
  /\ pc[t] = "advise"
  /\ Move(t, "reviewed", "done")
  /\ UNCHANGED rows /\ Rest(t)

\* The advisory review ends, whatever it said, and the ticket goes to Review.
Reviewed(t) ==
  /\ pc[t] = "advise"
  /\ Move(t, "reviewed", "raise")
  /\ UNCHANGED rows /\ Rest(t)

RaiseReview(t) ==
  /\ pc[t] = "raise"
  /\ OpenAttention(t) /\ goto(t, "done")
  /\ UNCHANGED state /\ Rest(t)

\* park: the event depends on where the ticket is, with RunFailed to fall back on.
ParkEvent(s) ==
  IF s # "running" /\ Legal(s, "validation_exhausted") THEN "validation_exhausted"
                                                       ELSE "run_failed"

Park(t) ==
  /\ pc[t] = "park"
  /\ Move(t, ParkEvent(state[t]), "parkraise")
  /\ UNCHANGED rows /\ Rest(t)

AfterRescue == "done"

\* parkFailedStart: what a run that returned an error leaves behind is parked,
\* unless it is settled or waiting on a human; best effort.
Rescue(t) ==
  /\ pc[t] = "rescue"
  /\ IF ~IsActive(state[t]) \/ NeedsHuman(state[t])
       THEN state' = state /\ goto(t, "done")
       ELSE Advance(t, ParkEvent(state[t]), goto(t, "parkraise"), goto(t, AfterRescue))
  /\ UNCHANGED rows /\ Rest(t)

RaiseParked(t) ==
  /\ pc[t] = "parkraise"
  /\ OpenAttention(t) /\ goto(t, "done")
  /\ UNCHANGED state /\ Rest(t)

\* Nothing of a run is left in memory.
RunOver(t) ==
  /\ goto(t, "idle")
  /\ attempt' = [attempt EXCEPT ![t] = 1]
  /\ outcome' = [outcome EXCEPT ![t] = "none"]
  /\ committed' = [committed EXCEPT ![t] = FALSE]

\* The deferred releases: the slot, then the loop's record of the run.
Finish(t) ==
  /\ pc[t] = "done"
  /\ slots' = slots - 1 /\ RunOver(t)
  /\ UNCHANGED <<dbVars, orphans, decided, humanVars, daemonVars, boundVars, historyVars>>

\* What goes wrong rarely enough to be counted.
Mishap == mishaps < MaxMishaps /\ mishaps' = mishaps + 1

\* The run's goroutine has moved the ticket and not yet written its row.
Raising(t) == pc[t] \in {"raise", "parkraise"}

\* A panic below Run (a provider's adapter) is recovered there: the slot comes
\* back, the agent dies with the run's context, and nothing is written: the
\* ticket stays where it was, and its run row open.
Panic(t) ==
  /\ pc[t] \in Working \ {"done"} /\ Mishap
  /\ slots' = slots - 1 /\ RunOver(t)
  /\ forsaken' = forsaken \cup {t}
  /\ crossed' = IF Raising(t) THEN crossed \cup {t} ELSE crossed
  /\ UNCHANGED <<dbVars, orphans, decided, humanVars, daemonVars, crashes, faults, overwritten>>

\* Mutants: the error path returns without the deferred release; the error of
\* the transition to Validating is dropped.
AfterFault_returns(p) == IF p \in {"rescue", "parkraise"} THEN "idle" ELSE "rescue"
AfterFault(p) == IF p \in {"rescue", "parkraise"} THEN "done" ELSE "rescue"

\* A store operation of the goroutine fails.  Every such error returns from
\* run() and is rescued; one met while rescuing or raising is only logged.
StoreFault(t) ==
  /\ faults < MaxFaults
  /\ pc[t] \in Working \ {"launch", "agent", "done"}
  /\ faults' = faults + 1
  /\ goto(t, AfterFault(pc[t]))
  /\ UNCHANGED <<dbVars, orphans, attempt, outcome, committed, loopVars,
                 humanVars, daemonVars, crashes, mishaps, historyVars>>

GoStep(t) ==
  \/ Claim(t) \/ Assign(t) \/ Prepare(t) \/ CreateRun(t) \/ StartRunning(t)
  \/ Launch(t) \/ AgentExit(t) \/ RecordRun(t) \/ ProviderLimit(t)
  \/ AgentFinished(t) \/ Validate(t) \/ Retry(t) \/ ValidationPassed(t)
  \/ Reviewed(t) \/ RaiseReview(t) \/ Park(t) \/ Rescue(t) \/ RaiseParked(t)
  \/ Finish(t)

(***************************************************************************)
(* The human, through the TUI or the CLI; the CLI needs no daemon, and can   *)
(* be interrupted alone.  A decision moves the ticket first and resolves its *)
(* attention rows after; an edit and a note save the whole row they read,   *)
(* the state it had then included.  One operation at a time per ticket.     *)
(***************************************************************************)
step(t, next) == human' = [human EXCEPT ![t] = next]
HumanRest == UNCHANGED <<unfinished, orphans, runVars, loopVars, daemonVars, crashes, faults>>

\* A decision on a ticket whose row the run has still to write.
Crossing(t) == crossed' = IF Raising(t) THEN crossed \cup {t} ELSE crossed

\* No row is left over once the last is closed on a ticket that waits on nobody.
Settled(t) == crossed' = IF ~Raising(t) /\ ~NeedsHuman(state[t]) THEN crossed \ {t} ELSE crossed

\* Mutant: a client that stops a run with the kill event.
QueueMoves_kill == {"mark_ready", "return_to_backlog", "kill"}
QueueMoves == {"mark_ready", "return_to_backlog"}

\* MoveTicket with the two events the queue screen sends.
MoveTicket(t) ==
  /\ human[t] = "idle"
  /\ \E ev \in QueueMoves : SetTicketState(t, ev)
  /\ UNCHANGED <<rows, humanVars, historyVars, mishaps>> /\ HumanRest

\* UpdateTicket and requestChanges read the ticket's row ...
ReadRow(t) ==
  /\ human[t] = "idle" /\ state[t] \in EditedIn /\ Mishap
  /\ step(t, "save") /\ held' = [held EXCEPT ![t] = state[t]]
  /\ UNCHANGED <<state, rows, historyVars>> /\ HumanRest

\* ... and write all of it, its state too, whatever the row has become since.  An edit ends there;
\* requestChanges goes on to an event, which it chooses by the state it read.
SaveRow(t) ==
  /\ human[t] = "save"
  /\ state' = [state EXCEPT ![t] = held[t]]
  /\ LET old == IF state[t] = held[t] THEN {} ELSE {t} IN
       overwritten' = overwritten \cup old /\ crossed' = crossed \cup old
  /\ \E next \in {"idle", IF held[t] = "needs_you" THEN "requeue" ELSE "request_changes"} :
       step(t, next)
  /\ held' = [held EXCEPT ![t] = Unread]
  /\ UNCHANGED <<rows, forsaken, mishaps>> /\ HumanRest

Send(t) ==
  /\ human[t] \in {"request_changes", "requeue"}
  /\ \/ SetTicketState(t, human[t]) /\ step(t, "resolve") /\ Crossing(t)
     \/ /\ ~Legal(state[t], human[t])
        /\ state' = state /\ step(t, "idle") /\ crossed' = crossed
  /\ UNCHANGED <<rows, held, forsaken, overwritten, mishaps>> /\ HumanRest

\* Reject and Requeue.
Decide(t) ==
  /\ human[t] = "idle"
  /\ \E ev \in {"reject", "requeue"} : SetTicketState(t, ev)
  /\ step(t, "resolve") /\ Crossing(t)
  /\ UNCHANGED <<rows, held, forsaken, overwritten, mishaps>> /\ HumanRest

\* ResolveAttention ("acknowledge"): the human closes the ticket's last row, and moves nothing.
Acknowledge(t) ==
  /\ human[t] = "idle" /\ rows[t] = "open"
  /\ rows' = [rows EXCEPT ![t] = IF NeedsHuman(state[t]) THEN "noted" ELSE "none"]
  /\ Settled(t)
  /\ UNCHANGED <<state, humanVars, forsaken, overwritten, mishaps>> /\ HumanRest

\* The rows are resolved, those of a ticket that has since come to wait for the
\* human again too.
Resolve(t) ==
  /\ human[t] \in {"resolve", "approved"}
  /\ ResolveAttentionForTicket(t)
  /\ step(t, IF human[t] = "approved" THEN "landing" ELSE "idle")
  /\ Settled(t)
  /\ UNCHANGED <<state, held, forsaken, overwritten, mishaps>> /\ HumanRest

\* Lander.approve: Review -> Landing.
Approve(t) ==
  /\ human[t] \in {"idle", "continue"}
  /\ SetTicketState(t, "approve") /\ step(t, "approved") /\ Crossing(t)
  /\ UNCHANGED <<rows, held, forsaken, overwritten, mishaps>> /\ HumanRest

\* Lander.Continue: back to Review, then the same gate again.
Continue(t) ==
  /\ human[t] = "idle"
  /\ SetTicketState(t, "return_to_review") /\ step(t, "continue") /\ Crossing(t)
  /\ UNCHANGED <<rows, held, forsaken, overwritten, mishaps>> /\ HumanRest

\* The gate refuses (no project, no repository, the ticket moved): the
\* operation ends with an error and the ticket stays where it is.
ContinueFails(t) ==
  /\ human[t] = "continue"
  /\ step(t, "idle")
  /\ UNCHANGED <<state, rows, held, historyVars, mishaps>> /\ HumanRest

\* Mutant: a landing that stops with an error is tried again.
LandEnds_again(t) ==
  /\ human[t] = "landing"
  /\ \/ (\E ev \in {"landed", "handed_off"} : SetTicketState(t, ev)) /\ step(t, "idle")
     \/ state' = state /\ step(t, "approved")
  /\ UNCHANGED <<rows, held, historyVars, mishaps>> /\ HumanRest

\* How a landing ends.  An end the state machine refuses (a restart parked
\* the ticket meanwhile) is an error that moves nothing.
LandEnds(t) ==
  /\ human[t] = "landing"
  /\ \/ /\ \E ev \in {"landed", "handed_off"} : SetTicketState(t, ev)
        /\ step(t, "idle")
     \/ SetTicketState(t, "land_failed") /\ step(t, "landraise")
     \/ state[t] # "landing" /\ state' = state /\ step(t, "idle")
  /\ UNCHANGED <<rows, held, historyVars, mishaps>> /\ HumanRest

LandRaise(t) ==
  /\ human[t] = "landraise"
  /\ OpenAttention(t) /\ step(t, "idle")
  /\ UNCHANGED <<state, held, historyVars, mishaps>> /\ HumanRest

MarkMerged(t) ==
  /\ human[t] = "idle" /\ state[t] = "handed_off"
  /\ SetTicketState(t, "landed")
  /\ UNCHANGED <<rows, humanVars, historyVars, mishaps>> /\ HumanRest

\* The operation goes no further: the CLI is interrupted or killed while the daemon serves on, or
\* a write of the operation fails, that of Landed after the merge among them (its context is over,
\* or the store refuses it).  Cut off before it has moved the ticket, it is as if it had not begun.
Interrupted(t) ==
  /\ human[t] \in {"resolve", "approved", "landing", "landraise"} /\ Mishap
  /\ step(t, "idle")
  /\ forsaken' = IF human[t] \in {"approved", "landing"} /\ state[t] = "landing"
                   THEN forsaken \cup {t} ELSE forsaken
  /\ crossed' = IF human[t] = "landing" THEN crossed ELSE crossed \cup {t}
  /\ UNCHANGED <<state, rows, held, overwritten>> /\ HumanRest

HumanStep(t) == SaveRow(t) \/ Send(t) \/ Resolve(t) \/ (human[t] = "continue" /\ Approve(t))
                \/ ContinueFails(t) \/ LandEnds(t) \/ LandRaise(t)

HumanChoice(t) == MoveTicket(t) \/ ReadRow(t) \/ Decide(t) \/ Acknowledge(t)
                  \/ (human[t] = "idle" /\ Approve(t)) \/ Continue(t) \/ MarkMerged(t)

(***************************************************************************)
(* The daemon's own life.                                                   *)
(***************************************************************************)

\* Everything in the daemon's memory is gone.  Operations hosted by the CLI
\* survive; those the daemon hosted (`dead`) do not.
DaemonGone(dead) ==
  /\ crashes < MaxCrashes /\ crashes' = crashes + 1
  /\ daemon' = "down" /\ todo' = {} /\ cur' = None
  /\ pc' = [t \in Tickets |-> "idle"]
  /\ attempt' = [t \in Tickets |-> 1]
  /\ outcome' = [t \in Tickets |-> "none"]
  /\ committed' = [t \in Tickets |-> FALSE]
  /\ slots' = 0 /\ decided' = {}
  /\ human' = [t \in Tickets |-> IF t \in dead THEN "idle" ELSE human[t]]
  /\ held' = [t \in Tickets |-> IF t \in dead THEN Unread ELSE held[t]]

\* kill -9, a panic, a power cut survived by nothing but the database: the
\* agents run in process groups of their own and outlive the daemon.
Crash ==
  /\ daemon \notin {"down", "refused"}
  /\ \E dead \in SUBSET Tickets : DaemonGone(dead)
  /\ orphans' = [t \in Tickets |-> orphans[t] + IF pc[t] = "agent" THEN 1 ELSE 0]
  /\ UNCHANGED <<dbVars, faults, mishaps, historyVars>>

\* SIGTERM: the context is cancelled, which kills the agents; every write a
\* goroutine tries from then on fails, the rescue's included.
Stop ==
  /\ daemon = "up"
  /\ \E dead \in SUBSET Tickets : DaemonGone(dead)
  /\ UNCHANGED <<dbVars, orphans, faults, mishaps, historyVars>>

OrphanExits(t) ==
  /\ orphans[t] > 0
  /\ orphans' = [orphans EXCEPT ![t] = @ - 1]
  /\ UNCHANGED <<dbVars, runVars, loopVars, humanVars, daemonVars, boundVars, historyVars>>

(***************************************************************************)
(* Reconcile, before the daemon serves anything: unfinished runs, then      *)
(* interrupted reviews, then interrupted landings.                          *)
(***************************************************************************)
BootRest == UNCHANGED <<runVars, loopVars, humanVars, boundVars, overwritten, crossed>>

Boot ==
  /\ daemon \in {"down", "refused"}
  /\ daemon' = "runs"
  /\ UNCHANGED <<dbVars, orphans, todo, cur>> /\ UNCHANGED forsaken /\ BootRest

\* One unfinished run: reap its process if its PID is alive, end its row.
ReconcileRun(t) ==
  /\ daemon = "runs" /\ unfinished[t] > 0
  /\ orphans' = [orphans EXCEPT ![t] = IF Alive(t) THEN 0 ELSE @]
  /\ unfinished' = [unfinished EXCEPT ![t] = @ - 1]
  /\ daemon' = "park" /\ cur' = t
  /\ UNCHANGED <<state, rows, todo>> /\ UNCHANGED forsaken /\ BootRest

\* Mutant: an interrupted run goes back to the queue by itself.
InterruptedEvent_requeue == "provider_retry"
InterruptedEvent == "run_failed"

\* parkTicket: settled or waiting tickets are left; otherwise RunFailed, else
\* ValidationExhausted, else an error that refuses to start the daemon.
ParkInterrupted(t) ==
  /\ daemon = "park" /\ cur = t
  /\ \/ /\ ~IsActive(state[t]) \/ NeedsHuman(state[t])
        /\ state' = state /\ daemon' = "runs"
     \/ /\ IsActive(state[t]) /\ ~NeedsHuman(state[t])
        /\ \/ SetTicketState(t, InterruptedEvent) /\ daemon' = "raise"
           \/ /\ ~Legal(state[t], InterruptedEvent)
              /\ Advance(t, "validation_exhausted", daemon' = "raise", daemon' = "refused")
  /\ cur' = IF daemon' = "raise" THEN t ELSE None
  /\ UNCHANGED <<rows, unfinished, orphans, todo>> /\ UNCHANGED forsaken /\ BootRest

RaiseInterrupted(t) ==
  /\ daemon = "raise" /\ cur = t
  /\ OpenAttention(t)
  /\ daemon' = "runs" /\ cur' = None
  /\ UNCHANGED <<state, unfinished, orphans, todo>> /\ UNCHANGED forsaken /\ BootRest

InterruptedLandings == {t \in Tickets : state[t] = "landing"}

\* The next pass reads its tickets once; what was left behind before the list
\* of landings was made, recovery has now seen.
NextPass ==
  /\ \/ /\ daemon = "runs" /\ \A t \in Tickets : unfinished[t] = 0
        /\ daemon' = "reviews" /\ todo' = {t \in Tickets : state[t] = "reviewing"}
        /\ forsaken' = forsaken
     \/ /\ daemon = "reviews" /\ todo = {}
        /\ daemon' = "landings" /\ todo' = InterruptedLandings
        /\ forsaken' = {}
     \/ /\ daemon = "landings" /\ todo = {}
        /\ daemon' = "up" /\ todo' = todo /\ forsaken' = forsaken
  /\ UNCHANGED <<dbVars, orphans, cur>> /\ BootRest

\* A review's attention row comes first, reusing one a stopped recovery left.
RaiseInterruptedReview(t) ==
  /\ daemon = "reviews" /\ t \in todo
  /\ OpenAttention(t)
  /\ daemon' = "reviewed" /\ cur' = t
  /\ UNCHANGED <<state, unfinished, orphans, todo>> /\ UNCHANGED forsaken /\ BootRest

ReconcileReview(t) ==
  /\ daemon = "reviewed" /\ cur = t
  /\ Advance(t, "reviewed", daemon' = "reviews", daemon' = "refused")
  /\ cur' = None /\ todo' = todo \ {t}
  /\ UNCHANGED <<rows, unfinished, orphans>> /\ UNCHANGED forsaken /\ BootRest

RaiseInterruptedLanding(t) ==
  /\ daemon = "landings" /\ t \in todo
  /\ OpenAttention(t)
  /\ daemon' = "landed" /\ cur' = t
  /\ UNCHANGED <<state, unfinished, orphans, todo>> /\ UNCHANGED forsaken /\ BootRest

\* A landing that moved on meanwhile is logged and skipped.
ReconcileLanding(t) ==
  /\ daemon = "landed" /\ cur = t
  /\ Advance(t, "land_failed", TRUE, TRUE)
  /\ daemon' = "landings" /\ cur' = None /\ todo' = todo \ {t}
  /\ UNCHANGED <<rows, unfinished, orphans>> /\ UNCHANGED forsaken /\ BootRest

BootStep ==
  \/ NextPass
  \/ \E t \in Tickets :
       \/ ReconcileRun(t) \/ ParkInterrupted(t) \/ RaiseInterrupted(t)
       \/ RaiseInterruptedReview(t) \/ ReconcileReview(t)
       \/ RaiseInterruptedLanding(t) \/ ReconcileLanding(t)

(***************************************************************************)
(* The specification.                                                       *)
(***************************************************************************)
Next ==
  \/ Tick \/ Boot \/ BootStep \/ Crash \/ Stop
  \/ \E t \in Tickets :
       \/ Start(t) \/ GoStep(t) \/ KillRun(t) \/ Panic(t) \/ StoreFault(t)
       \/ HumanChoice(t) \/ HumanStep(t) \/ Interrupted(t)
       \/ OrphanExits(t)

Spec == Init /\ [][Next]_vars

\* Code that has begun runs on: the loop starts what it decided, a goroutine
\* takes its next step (an agent exits, at RunTimeout if not before), an
\* operation that is not interrupted reaches its second write, reconciliation
\* proceeds.  Nothing obliges a human to decide, a tick to pick, or a stopped
\* daemon to return.
Fairness ==
  /\ WF_vars(BootStep)
  /\ \A t \in Tickets : WF_vars(Start(t)) /\ WF_vars(GoStep(t)) /\ WF_vars(HumanStep(t))

(***************************************************************************)
(* What must hold.                                                          *)
(***************************************************************************)

\* The pool counts exactly the goroutines that hold a slot: none is leaked on
\* any way out of Run and none is released twice (agentrun.Run's deferred
\* release, LocalHost.TryClaim and Release).
SlotsMatch == slots = Cardinality({t \in Tickets : pc[t] \in Working})

\* Where a goroutine is tells where its ticket is, whatever humans, crashes, panics and failed
\* writes do in between: while a run is in flight the orchestrator is the ticket's only writer (the
\* premise of updateTicketFields).  It has one exception, which UpdateTicket and requestChanges make:
\* an old copy of the row saved over the ticket.
InRun   == {"launch", "agent", "record", "limit", "finish"}
InCheck == {"validate", "retry", "passed"}
OnlyWriter ==
  \A t \in Tickets \ overwritten :
    /\ pc[t] \in {"prepare", "start"} => state[t] = "assigned"
    /\ pc[t] = "create" => state[t] = IF attempt[t] = 1 THEN "assigned" ELSE "running"
    /\ pc[t] \in InRun   => state[t] = "running"
    /\ pc[t] \in InCheck => state[t] = "validating"
    /\ pc[t] = "advise"  => state[t] = "reviewing"
    /\ pc[t] = "park"    => state[t] \in {"running", "validating"}

\* What makes the two above inductive: only a serving daemon has goroutines, a
\* goroutine before its first agent is on attempt 1 and one about to retry has
\* budget left, and from CreateRun to the final write its run row is open; an
\* edit saves what it has read.
OnlyServingRuns == daemon # "up" => decided = {} /\ \A t \in Tickets : pc[t] = "idle"
AttemptsCounted ==
  \A t \in Tickets : /\ pc[t] \in {"assign", "prepare", "start"} => attempt[t] = 1
                     /\ pc[t] = "retry" => attempt[t] <= Budget
RunRowOpen ==
  \A t \in Tickets : pc[t] \in {"start", "launch", "agent", "record"} => unfinished[t] > 0
SavesWhatItRead == \A t \in Tickets : human[t] = "save" => held[t] # Unread

IInv == TypeOK /\ SlotsMatch /\ OnlyWriter /\ OnlyServingRuns /\ AttemptsCounted /\ RunRowOpen
        /\ SavesWhatItRead

\* Nobody's any more, by a way the code has: a panic, a landing that was cut off, an old row saved.
LeftBehind == forsaken \cup overwritten

\* A ticket that is Gravy's to move has a goroutine moving it, unless its run panicked or an old
\* copy of its row was saved over it: every other way out of a run hands the ticket on.
GravyOwned == {"assigned", "running", "validating", "reviewing"}
NothingStranded ==
  \A t \in Tickets \ LeftBehind : state[t] \in GravyOwned => pc[t] \in Working

\* What Status shows as Needs You: the open rows, and a row made up for a
\* ticket in needs_you that has none.
Shown(t) == rows[t] = "open" \/ state[t] = "needs_you"

\* The Needs You queue is exact.  "If it is not there, Gravy does not need you": a ticket in Review
\* is shown once the run that put it there has ended and no human is deciding on it, unless a human
\* closed its row; and it lists nothing nobody has to act on: a ticket with an open row waits on a
\* human (ResolveAttentionForTicket's reason to exist).  It is not exact where two have written the
\* ticket's state and rows across each other, or one stopped between the two, until the next
\* decision is carried through.
QueueExact ==
  \A t \in Tickets \ crossed :
    /\ state[t] = "review" /\ pc[t] = "idle" /\ human[t] \in Aside
         => Shown(t) \/ rows[t] = "noted"
    /\ daemon = "up" /\ human[t] \in Aside /\ rows[t] = "open" => NeedsHuman(state[t])

\* After any stop, crash or interrupted recovery, a serving daemon has left no
\* review and no landing without somebody working on it: what has nobody was
\* left behind since.
ReviewsAndLandingsRecovered ==
  daemon = "up" =>
    \A t \in Tickets \ LeftBehind :
      /\ state[t] = "reviewing" => pc[t] = "advise"
      /\ state[t] = "landing" => human[t] \in {"approved", "landing"}

\* At most one agent process writes in a ticket's worktree.
SoleAgent ==
  \A t \in Tickets : orphans[t] + (IF pc[t] = "agent" THEN 1 ELSE 0) <= 1

(***************************************************************************)
(* Who has a ticket, as Custody has it: see Recovery.                        *)
(***************************************************************************)
Hand(s) == CASE s \in {"draft", "backlog", "ready"} -> "queue"
             [] s \in {"assigned", "running", "validating", "reviewing"} -> "gravy"
             [] s \in {"review", "blocked", "needs_you"} -> "human"
             [] s = "landing" -> "lander"
             [] s = "handed_off" -> "yours"
             [] s \in {"done", "rejected"} -> "ended"

\* Every goroutine ends and gives its slot back, whatever agents report,
\* validation says or fails, and however often it is told to retry.
RunSettles == \A t \in Tickets : pc[t] # "idle" ~> pc[t] = "idle"

\* Reconciliation comes to an end.
ReconcileEnds == daemon \in Reconciling ~> daemon \notin Reconciling

=============================================================================
