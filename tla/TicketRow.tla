----------------------------- MODULE TicketRow -----------------------------
(***************************************************************************)
(* One ticket's row and everyone who writes it.  The state is moved by a    *)
(* transaction of its own and the position by an UPDATE of one column, but  *)
(* every other field is saved by reading the row and writing all of it      *)
(* back: the orchestrator's path and retry count, a client's edit and a     *)
(* reviewer's note.  Nothing makes the two halves of such a save one step.  *)
(* The module asks what becomes of the columns a writer did not mean to     *)
(* touch, the state among them.                                             *)
(***************************************************************************)
EXTENDS Lifecycle, Naturals

CONSTANTS
  Orchestrator,
  Clients,     \* connections of the API server, each with one request at a time
  Kinds,       \* what clients do: "edit", "back", "order"
  MaxRequests, \* bound on the number of requests
  Budget       \* SelfCorrectionBudget

ASSUME ClientsAssumption ==
  /\ Orchestrator \notin Clients
  /\ Kinds \subseteq {"edit", "back", "order"}
  /\ MaxRequests \in Nat /\ Budget \in Nat

\* The columns beside the state that no edit sends.  Those it does send, the title, the body, the
\* route and the priority, come from the client's form or screen, whatever the row holds by then.
Fields == {"position", "worktree", "retries", "feedback"}
Columns == Fields \cup {"state"}
Writers == Clients \cup {Orchestrator}

VARIABLES
  state,     \* tickets.state
  row,       \* the other columns
  meant,     \* history: the value each column was last set to on purpose
  moved,     \* history: the state the last transition led to
  since,     \* history: the columns set on purpose since each writer read the row it holds
  overtaken, \* history: the columns a save wrote that had been set since its read
  run,       \* the orchestrator: "idle", "loaded", "working", "writing", "retry"
  attempt,   \* attemptLoop's counter
  copy,      \* the orchestrator's copy in updateTicketFields
  change,    \* the field it is about to change
  client,    \* [Clients -> where the client's request is]
  current,   \* the server's copy while it serves a client's request
  requests   \* requests made: also the value the next one writes

rowVars == <<state, row, meant, moved, since, overtaken, run, attempt, copy, change,
             client, current, requests>>
history    == <<meant, moved, since, overtaken>>
runVars    == <<run, attempt, copy, change>>
clientVars == <<client, current, requests>>

Here  == [state |-> state, row |-> row]
Blank == [f \in Fields |-> 0]

\* The value of a copy that nobody will read again.
NoTicket == [state |-> "draft", row |-> Blank]

RowInit ==
  /\ state = "backlog" /\ row = Blank /\ meant = Blank /\ moved = "backlog"
  /\ since = [w \in Writers |-> {}] /\ overtaken = {}
  /\ run = "idle" /\ attempt = 1 /\ copy = NoTicket /\ change = "worktree"
  /\ client = [c \in Clients |-> "idle"]
  /\ current = [c \in Clients |-> NoTicket]
  /\ requests = 0

(***************************************************************************)
(* The store.                                                               *)
(***************************************************************************)

\* UpdateTicket: every column, the state included, from one struct.
UpdateTicket(ticket) == state' = ticket.state /\ row' = ticket.row

Set(ticket, f, v) == [ticket EXCEPT !.row[f] = v]

\* Between its read of the row and the save that follows from it.
Holds(w) == IF w = Orchestrator THEN run = "writing" ELSE client[w] \in {"edit", "back"}

\* History: columns are set by themselves; or a writer saves the whole of the row it holds, where
\* it means to set some columns.
Touched(columns, writers) ==
  since' = [w \in Writers |-> IF Holds(w) /\ w \notin writers THEN since[w] \cup columns ELSE {}]
Means(f, v) == meant' = [meant EXCEPT ![f] = v] /\ UNCHANGED moved
SetAlone(columns) == Touched(columns, {}) /\ overtaken' = overtaken \ columns
SavedBy(w, columns) == Touched(columns, {w}) /\ overtaken' = (overtaken \cup since[w]) \ columns

SetTicketState(ev) ==
  /\ \E to \in States : Transition(state, ev, to) /\ state' = to
  /\ moved' = state' /\ SetAlone({"state"}) /\ UNCHANGED meant

(***************************************************************************)
(* The orchestrator.                                                        *)
(***************************************************************************)
Load ==
  /\ run = "idle" /\ state = "ready"
  /\ run' = "loaded" /\ attempt' = 1
  /\ UNCHANGED <<state, row, history, copy, change, clientVars>>

Assign ==
  /\ run = "loaded"
  /\ IF Legal(state, "assign")
       THEN SetTicketState("assign") /\ run' = "working"
       ELSE run' = "idle" /\ UNCHANGED <<state, history>>
  /\ UNCHANGED <<row, attempt, copy, change, clientVars>>

\* updateTicketFields reads the row again before it changes one field of it.
UpdateFields(f) ==
  /\ run = "working"
  /\ \/ f = "worktree" /\ state = "assigned"
     \/ f = "retries" /\ state = "validating" /\ attempt <= Budget
  /\ run' = "writing" /\ copy' = Here /\ change' = f
  /\ UNCHANGED <<state, row, history, attempt, clientVars>>

Saved(value) == Set(copy, change, value)

SaveFields ==
  /\ run = "writing"
  /\ LET value == IF change = "retries" THEN attempt ELSE 1
     IN  UpdateTicket(Saved(value)) /\ Means(change, value) /\ SavedBy(Orchestrator, {change})
  /\ run' = IF change = "retries" THEN "retry" ELSE "working"
  /\ copy' = NoTicket /\ change' = "worktree"
  /\ UNCHANGED <<attempt, clientVars>>

\* The next attempt: the count is on the row, then the state moves.
Retry ==
  /\ run = "retry" /\ run' = "working"
  /\ IF Legal(state, "validation_retry")
       THEN SetTicketState("validation_retry") /\ attempt' = attempt + 1
       ELSE UNCHANGED <<state, history, attempt>>
  /\ UNCHANGED <<row, copy, change, clientVars>>

RunEvents == {"start", "agent_finished", "validation_passed",
              "validation_exhausted", "reviewed", "run_failed", "provider_retry"}

Progress ==
  /\ run = "working"
  /\ \E ev \in RunEvents : SetTicketState(ev)
  /\ UNCHANGED <<row, runVars, clientVars>>

Return ==
  /\ run = "working"
  /\ ~IsActive(state) \/ NeedsHuman(state)
  /\ run' = "idle" /\ attempt' = 1
  /\ UNCHANGED <<state, row, history, copy, change, clientVars>>

(***************************************************************************)
(* A client.                                                                *)
(***************************************************************************)
\* The server reads the row for an edit or a note.
Request(c, kind) ==
  /\ client[c] = "idle"
  /\ kind \in Kinds \cap {"edit", "back"}
  /\ requests < MaxRequests /\ requests' = requests + 1
  /\ client' = [client EXCEPT ![c] = kind]
  /\ current' = [current EXCEPT ![c] = Here]
  /\ UNCHANGED <<state, row, history, runVars>>

Finish(c) ==
  /\ client' = [client EXCEPT ![c] = "idle"]
  /\ current' = [current EXCEPT ![c] = NoTicket]

\* Mutant: the ticket is saved as the client sent it, with what nobody filled in.
SaveEdit_asSent(c) ==
  /\ client[c] = "edit"
  /\ UpdateTicket([current[c] EXCEPT !.row = Blank])
  /\ SavedBy(c, {}) /\ UNCHANGED <<meant, moved>>
  /\ Finish(c)
  /\ UNCHANGED <<runVars, requests>>

\* The edit form, and + and - in the queue: the columns they send, into the row the server read.
SaveEdit(c) ==
  /\ client[c] = "edit"
  /\ UpdateTicket(current[c])
  /\ SavedBy(c, {}) /\ UNCHANGED <<meant, moved>>
  /\ Finish(c)
  /\ UNCHANGED <<runVars, requests>>

\* requestChanges: the note first, then the move the state of its copy calls for.
SaveNote(c) ==
  /\ client[c] = "back"
  /\ UpdateTicket(Set(current[c], "feedback", requests))
  /\ Means("feedback", requests) /\ SavedBy(c, {"feedback"})
  /\ client' = [client EXCEPT ![c] = "move"]
  /\ current' = [current EXCEPT ![c].row = Blank]
  /\ UNCHANGED <<runVars, requests>>

SendBack(c) ==
  /\ client[c] = "move"
  /\ LET ev == IF current[c].state = "needs_you" THEN "requeue" ELSE "request_changes"
     IN  IF Legal(state, ev) THEN SetTicketState(ev) ELSE UNCHANGED <<state, history>>
  /\ Finish(c)
  /\ UNCHANGED <<row, runVars, requests>>

\* ReorderTicket: one column, in a transaction of its own.
ReorderTicket(c) ==
  /\ client[c] = "idle"
  /\ "order" \in Kinds /\ requests < MaxRequests /\ requests' = requests + 1
  /\ row' = [row EXCEPT !.position = requests']
  /\ Means("position", requests') /\ SetAlone({"position"})
  /\ UNCHANGED <<state, runVars, client, current>>

\* Queueing, withdrawing, requeueing and landing move the state only.
MoveTicket(c) ==
  /\ client[c] = "idle"
  /\ \E ev \in {"mark_ready", "return_to_backlog", "requeue", "approve", "landed",
                "land_failed", "reject"} : SetTicketState(ev)
  /\ UNCHANGED <<row, runVars, clientVars>>

RowNext ==
  \/ Load \/ Assign \/ SaveFields \/ Retry \/ Progress \/ Return
  \/ \E f \in {"worktree", "retries"} : UpdateFields(f)
  \/ \E c \in Clients :
       \/ SaveEdit(c) \/ SaveNote(c)
       \/ SendBack(c) \/ ReorderTicket(c) \/ MoveTicket(c)
       \/ \E kind \in Kinds : Request(c, kind)

-----------------------------------------------------------------------------
(***************************************************************************)
(* Properties.                                                              *)
(***************************************************************************)

\* Every column that no edit sends holds what it was last set to on purpose, and the state is the one the last
\* transition led to: saving something else undoes no path, retry count, note, place in the queue or
\* move, unless that was made while the save stood between its own read of the row and its write
\* (UpdateTicket and requestChanges of a client, updateTicketFields of a run).  What is set again is
\* whole again, whatever was lost before.
NothingUndone ==
  /\ "state" \notin overtaken => state = moved
  /\ \A f \in Fields \ overtaken : row[f] = meant[f]

=============================================================================
