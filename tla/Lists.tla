--------------------------------- MODULE Lists ---------------------------------
(***************************************************************************)
(* The screens that list rows and act on them: Needs You, the Backlog and       *)
(* Ready queues, and Projects.  The daemon's rows come and go while a prompt is  *)
(* open; each screen keeps the cursor by position and holds, or does not, the    *)
(* row its prompt was opened on.  The order a human gives a queue is TicketRow's; *)
(* filters, scrolling and completion are left out.                             *)
(***************************************************************************)
EXTENDS Naturals, Sequences, SequencesExt, FiniteSetsExt

CONSTANTS
    Ids,          \* rows the daemon may hold, in the order a list shows them
    MaxActs,      \* bound on what a human sets off
    MaxArrivals,  \* bound on rows that arrive by themselves
    MaxLists      \* bound on the lists on their way before a push asks for one more

ASSUME ListsAssumption == Ids \subseteq Nat \ {0} /\ {MaxActs, MaxArrivals, MaxLists} \subseteq Nat

VARIABLES
    list,         \* which screen
    there,        \* the daemon's rows
    shown,        \* the rows on screen
    cur,          \* the cursor, from 1
    marked,       \* the multi-selection of a queue
    prompt,       \* the prompt that is open, or "none"
    held,         \* what the prompt keeps of the rows it was opened on
    asksAbout,    \* the rows the human saw it opened on
    answers,      \* lists on their way to the screen
    acts,         \* calls in flight, [verb, to]
    acted,        \* the last prompt confirmed, [prompt, about, to]
    done, arrivals

\* What is on screen, the prompt, and what was done.
viewVars == <<shown, cur, marked>>
promptVars == <<prompt, held, asksAbout>>
tally == <<acted, done, arrivals>>
listVars == <<list, there, viewVars, promptVars, answers, acts, tally>>

Queues == {"backlog", "ready"}
Screens == Queues \union {"needs you", "projects"}

ListInit ==
    /\ list \in Screens /\ there = Ids \ {Min(Ids)} /\ shown = <<>> /\ cur = 1
    /\ marked = {} /\ prompt = "none" /\ held = {} /\ asksAbout = {} /\ answers = {} /\ acts = {}
    /\ acted = [prompt |-> "none", about |-> {}, to |-> {}] /\ done = 0 /\ arrivals = 0

\* In one order, whatever it is; where the archived group stands in it is left out.
IdOrder == SetToSortSeq(Ids, <)
RowsOf(rows) == SelectSeq(IdOrder, LAMBDA r : r \in rows)

Clamp(i) == IF shown = <<>> THEN 1 ELSE Min({i, Len(shown)})
\* The row the next key acts on.
Under == IF shown = <<>> THEN {} ELSE {shown[Clamp(cur)]}
\* The multi-selection, or the row under the cursor when nothing is selected.
Targets == IF marked \intersect Range(shown) # {} THEN marked \intersect Range(shown) ELSE Under

---------------------------------------------------------------------------
(* The daemon's rows.                                                      *)

RowArrives(x) ==
    /\ arrivals < MaxArrivals /\ x \in Ids \ there
    /\ there' = there \union {x} /\ arrivals' = arrivals + 1
    /\ UNCHANGED <<list, viewVars, promptVars, answers, acts, acted, done>>

\* An edit keeps its row, a decision takes it away; a call fails for a row that has gone.
Keeps == {"edit", "reorder", "priority", "configure", "notes", "archive"}
Acts(a) ==
    /\ a \in acts
    /\ acts' = acts \ {a}
    /\ there' = IF a.verb \in Keeps THEN there ELSE there \ a.to
    /\ answers' = answers \union {RowsOf(there')}
    /\ UNCHANGED <<list, viewVars, promptVars, tally>>

\* A list that could not be read leaves the rows of the last one.
ListFails(rows) ==
    /\ rows \in answers
    /\ answers' = answers \ {rows}
    /\ UNCHANGED <<list, there, viewVars, promptVars, acts, tally>>

---------------------------------------------------------------------------
(* A push, and the list that answers it.  A queue does not read again under a   *)
(* prompt; Needs You renders the frame's snapshot, whatever the keyboard does.   *)

Asked == Cardinality(answers) < MaxLists /\ answers' = answers \union {RowsOf(there)} /\ answers' # answers
QueueRefreshed ==
    /\ list \in Queues /\ prompt = "none" /\ Asked
    /\ UNCHANGED <<list, there, viewVars, promptVars, acts, tally>>
OthersRefreshed ==
    /\ list \notin Queues /\ Asked
    /\ UNCHANGED <<list, there, viewVars, promptVars, acts, tally>>

Arrived(rows) == rows \in answers /\ answers' = answers \ {rows} /\ shown' = rows

\* Rows that have gone are no longer selected.
QueueLoaded(rows) ==
    /\ list \in Queues /\ Arrived(rows)
    /\ marked' = marked \intersect Range(rows)
    /\ UNCHANGED <<list, there, cur, promptVars, acts, tally>>

NeedsYouShown(rows) ==
    /\ list = "needs you" /\ Arrived(rows)
    /\ UNCHANGED <<list, there, cur, marked, promptVars, acts, tally>>

\* The list under an editor moves too: only the draft is held.
ProjectsLoaded(rows) ==
    /\ list = "projects" /\ Arrived(rows)
    /\ cur' = Max({1, Min({cur, Len(rows)})})
    /\ UNCHANGED <<list, there, marked, promptVars, acts, tally>>

---------------------------------------------------------------------------
(* The cursor.                                                             *)

Browsing == prompt = "none" /\ shown # <<>>

MoveCursor(i) ==
    /\ Browsing /\ i \in DOMAIN shown /\ i # Clamp(cur)
    /\ list # "needs you" => i \in {Clamp(cur) - 1, Clamp(cur) + 1}
    /\ cur' = i
    /\ UNCHANGED <<list, there, shown, marked, promptVars, answers, acts, tally>>

\* A navigation opens Needs You on its ticket, if the row is there.
Focus(x) ==
    /\ list = "needs you" /\ prompt = "none" /\ x \in Range(shown)
    /\ cur' = Min({i \in DOMAIN shown : shown[i] = x})
    /\ UNCHANGED <<list, there, shown, marked, promptVars, answers, acts, tally>>

Mark ==
    /\ list \in Queues /\ Browsing
    /\ marked' = SymDiff(marked, Under) /\ cur' = Clamp(cur)
    /\ UNCHANGED <<list, there, shown, promptVars, answers, acts, tally>>

---------------------------------------------------------------------------
(* Keys that act at once.                                                  *)

Does(verb, to) == acts' = acts \union {[verb |-> verb, to |-> to]} /\ done' = done + 1
MayAct == Browsing /\ done < MaxActs

\* Between Backlog and Ready.
MoveSelection ==
    /\ list \in Queues /\ MayAct
    /\ Does("move", Targets) /\ cur' = Clamp(cur)
    /\ UNCHANGED <<list, there, shown, marked, promptVars, answers, acted, arrivals>>

\* The cursor goes with its row before the daemon has moved it.
Reorder(j) ==
    /\ list \in Queues /\ MayAct /\ j \in DOMAIN shown /\ j \in {Clamp(cur) - 1, Clamp(cur) + 1}
    /\ Does("reorder", Under) /\ cur' = j
    /\ UNCHANGED <<list, there, shown, marked, promptVars, answers, acted, arrivals>>

SetPriority ==
    /\ list \in Queues /\ MayAct
    /\ Does("priority", Under) /\ cur' = Clamp(cur)
    /\ UNCHANGED <<list, there, shown, marked, promptVars, answers, acted, arrivals>>

\* Try again, acknowledge, retry the land: whatever the selected row's reason offers.
ReasonActs ==
    /\ list = "needs you" /\ MayAct
    /\ Does("answer", Under) /\ cur' = Clamp(cur)
    /\ UNCHANGED <<list, there, shown, marked, promptVars, answers, acted, arrivals>>

---------------------------------------------------------------------------
(* Prompts.  Each keeps of its rows what it will act on; the notes of a project,  *)
(* its archiving and its deletion keep nothing.                                *)

Opens(p, about, kept) ==
    /\ MayAct
    /\ prompt' = p /\ asksAbout' = about /\ held' = kept /\ cur' = Clamp(cur)
    /\ UNCHANGED <<list, there, shown, marked, answers, acts, tally>>

StartForm == list \in Queues /\ Opens("form", Under, Under)
ConfirmDelete == list = "backlog" /\ Opens("delete", Under, Under)
ConfirmReject == list = "ready" /\ Opens("reject all", Targets, Targets)
OpenReasonPrompt(p) == list = "needs you" /\ p \in {"feedback", "reject"} /\ Opens(p, Under, Under)
OpenConfig == list = "projects" /\ Opens("config", Under, Under)
OpenProjectPrompt(p) == list = "projects" /\ p \in {"notes", "archive", "delete project"} /\ Opens(p, Under, {})

CancelPrompt ==
    /\ prompt # "none"
    /\ prompt' = "none" /\ held' = {} /\ asksAbout' = {}
    /\ UNCHANGED <<list, there, viewVars, answers, acts, tally>>

\* What is confirmed is done to these rows, and the prompt closes.
Confirms(verb, to) ==
    /\ acted' = [prompt |-> prompt, about |-> asksAbout, to |-> to]
    /\ IF to = {} THEN acts' = acts /\ done' = done + 1 ELSE Does(verb, to)
    /\ prompt' = "none" /\ held' = {} /\ asksAbout' = {}
    /\ UNCHANGED <<list, there, shown, marked, answers, arrivals>>

SubmitForm == prompt = "form" /\ Confirms("edit", held) /\ UNCHANGED cur
ConfirmQueue == prompt \in {"delete", "reject all"} /\ Confirms("remove", held) /\ UNCHANGED cur
\* Mutant: the decision goes to the row under the cursor.
ConfirmReason_cursor == prompt \in {"feedback", "reject"} /\ Confirms("answer", Under) /\ UNCHANGED cur
ConfirmReason == prompt \in {"feedback", "reject"} /\ Confirms("answer", held) /\ UNCHANGED cur
LeaveConfig == prompt = "config" /\ Confirms("configure", held) /\ UNCHANGED cur
ArchiveSelected == prompt = "archive" /\ Confirms("archive", Under) /\ UNCHANGED cur
SubmitNotes == prompt = "notes" /\ Confirms("notes", Under) /\ UNCHANGED cur
\* Only when the name that was typed is the name of the project under the cursor.
SubmitDelete ==
    /\ prompt = "delete project"
    /\ Confirms("remove", asksAbout \intersect Under)
    /\ cur' = IF asksAbout \intersect Under = {} THEN cur ELSE Max({1, cur - 1})

ListNext ==
    \/ \E x \in Ids : RowArrives(x) \/ Focus(x)
    \/ \E a \in acts : Acts(a)
    \/ QueueRefreshed \/ OthersRefreshed
    \/ \E rows \in answers : QueueLoaded(rows) \/ NeedsYouShown(rows) \/ ProjectsLoaded(rows) \/ ListFails(rows)
    \/ \E i \in DOMAIN shown : MoveCursor(i) \/ Reorder(i)
    \/ Mark \/ MoveSelection \/ SetPriority \/ ReasonActs
    \/ StartForm \/ ConfirmDelete \/ ConfirmReject \/ OpenConfig \/ CancelPrompt
    \/ \E p \in {"feedback", "reject"} : OpenReasonPrompt(p)
    \/ \E p \in {"notes", "archive", "delete project"} : OpenProjectPrompt(p)
    \/ SubmitForm \/ ConfirmQueue \/ ConfirmReason \/ LeaveConfig \/ ArchiveSelected \/ SubmitNotes
    \/ SubmitDelete

---------------------------------------------------------------------------
(* What the prompts promise.                                               *)

\* The row moving underneath cannot redirect a prompt that holds its subject, nor the deletion
\* of a project, whose name is typed (needsyou.go:36-38).  The notes of a project and its
\* archiving are the two that act on whatever is under the cursor by then.
PromptKeepsItsSubject ==
    acted.prompt \notin {"notes", "archive"} => acted.to \subseteq acted.about
==============================================================================
