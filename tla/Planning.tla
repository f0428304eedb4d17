------------------------------- MODULE Planning -------------------------------
(***************************************************************************)
(* Planning: the Plan screen, whose conversation is about one project, and  *)
(* ApprovePlan and CreateTicket, which write an approved plan as tickets    *)
(* one write at a time.  A ticket is the position of its item in the        *)
(* request that creates it; a dependency is a position in the same plan, or *)
(* for a ticket added by hand a ticket that exists (0) or does not (-1).    *)
(***************************************************************************)
EXTENDS Conversation

CONSTANTS
    Projects,     \* registered projects
    Plans,        \* what a planner may propose: sequences of dependency sequences
    MaxJobs       \* bound on approvals and tickets added by hand

ASSUME PlanningAssumption == Plans \subseteq Seq(Seq(Int)) /\ MaxJobs \in Nat

NoPlan == <<>>

VARIABLES
    filter,       \* the frame's project filter
    screen,       \* the Plan screen
    about,        \* turn -> the project it was asked for
    jobs          \* requests that create tickets, finished ones included

planVars == <<filter, screen, about, jobs>>

NewScreen == [project |-> "none", session |-> NoSession, agent |-> NoAgent, answered |-> {},
              mine |-> {}, turn |-> 0, busy |-> FALSE, tickets |-> NoPlan, from |-> 0]

\* A job writes item `at` of its items: `row` once the row is there, `linked` dependencies of it
\* recorded.  `made` are the tickets it has created, each [deps, linked, ready].
NewJob(project, from, items) ==
    [project |-> project, from |-> from, items |-> items, stage |-> "writing",
     made |-> <<>>, linked |-> 0]

PlanInit ==
    /\ filter \in Projects /\ screen = NewScreen
    /\ about = [t \in Turns |-> "none"] /\ jobs = <<>>

---------------------------------------------------------------------------
(* The screen.                                                             *)

FilterMoves ==
    /\ filter' \in Projects /\ filter' # filter
    /\ UNCHANGED <<engine, screen, about, jobs>>

\* The project is fixed when the conversation starts; one turn at a time.
Ask(c) ==
    /\ ~screen.busy
    /\ LET project == IF screen.project = "none" THEN filter ELSE screen.project IN
        /\ project # "none"
        /\ Put(c, screen.session, screen.agent, screen.answered)
        /\ about' = [about EXCEPT ![asked'] = project]
        /\ screen' = [screen EXCEPT !.project = project, !.busy = TRUE, !.turn = asked',
                                    !.mine = @ \cup {asked'}]
    /\ UNCHANGED <<filter, jobs>>

\* What an answer changes on the screen: a proposal replaces the one before it.
Shown(c, plan) ==
    IF call[c].stage = "failed" THEN [screen EXCEPT !.turn = 0, !.busy = FALSE]
    ELSE [screen EXCEPT !.turn = 0, !.busy = FALSE, !.session = SessionOf(c), !.agent = call[c].agent,
              !.answered = @ \cup {call[c].turn},
              !.tickets = IF plan = NoPlan THEN @ ELSE plan,
              !.from = IF plan = NoPlan THEN @ ELSE call[c].turn]

\* Mutant: whatever answer arrives is shown.
TurnAnswered_any(c) ==
    /\ call[c].stage \in {"answered", "failed"}
    /\ \E plan \in Plans \cup {NoPlan} : screen' = Shown(c, plan)
    /\ call' = [call EXCEPT ![c] = Idle]
    /\ UNCHANGED <<cooling, asked, filter, about, jobs>>

\* Only the turn in flight is answered: the answer to a conversation that was started
\* over belongs to nobody.
TurnAnswered(c) ==
    /\ call[c].stage \in {"answered", "failed"}
    /\ \E plan \in Plans \cup {NoPlan} :
        screen' = IF call[c].turn = screen.turn THEN Shown(c, plan) ELSE screen
    /\ call' = [call EXCEPT ![c] = Idle]
    /\ UNCHANGED <<cooling, asked, filter, about, jobs>>

StartOver ==
    /\ screen # NewScreen
    /\ screen' = NewScreen
    /\ UNCHANGED <<engine, filter, about, jobs>>

---------------------------------------------------------------------------
(* Approving.                                                              *)

Deps(items, i) == Range(items[i].deps)

\* planIsAcyclic: no group of tickets each of which waits for another of the group.
Acyclic(items) ==
    \A group \in SUBSET DOMAIN items : group # {} => \E i \in group : Deps(items, i) \cap group = {}

ValidatePlan(items) ==
    /\ items # <<>> /\ Acyclic(items)
    /\ \A i \in DOMAIN items :
        /\ Deps(items, i) \subseteq DOMAIN items \ {i}
        /\ Cardinality(Deps(items, i)) = Len(items[i].deps)

\* Only what can start is queued.
Items(plan, ready) ==
    [i \in DOMAIN plan |-> [deps |-> plan[i], ready |-> ready /\ plan[i] = <<>>]]

\* The proposal stays on the screen, and can be approved again, until the answer comes.
Approve ==
    /\ screen.tickets # NoPlan /\ screen.project # "none" /\ Len(jobs) < MaxJobs
    /\ screen' = [screen EXCEPT !.busy = TRUE]
    /\ \E ready \in BOOLEAN :
        LET items == Items(screen.tickets, ready) IN
        jobs' = Append(jobs, [NewJob(screen.project, screen.from, items) EXCEPT
                                  !.stage = IF ValidatePlan(items) THEN "writing" ELSE "failed"])
    /\ UNCHANGED <<engine, filter, about>>

\* The answer to an approval clears the proposal, whichever is on the screen by then.
Approved(i) ==
    /\ jobs[i].from # 0 /\ jobs[i].stage \in {"failed", "done"}
    /\ screen' = IF jobs[i].stage = "done"
                 THEN [screen EXCEPT !.busy = FALSE, !.tickets = NoPlan, !.from = 0]
                 ELSE [screen EXCEPT !.busy = FALSE]
    /\ jobs' = [jobs EXCEPT ![i].stage = "seen"]
    /\ UNCHANGED <<engine, filter, about>>

\* A ticket added by hand may be queued at once, behind tickets it names.
Add ==
    /\ Len(jobs) < MaxJobs
    /\ \E p \in Projects, deps \in {<<>>, <<0>>, <<0, -1>>}, ready \in BOOLEAN :
        jobs' = Append(jobs, NewJob(p, 0, <<[deps |-> deps, ready |-> ready]>>))
    /\ UNCHANGED <<engine, filter, screen, about>>

---------------------------------------------------------------------------
(* CreateTicket, item by item.                                             *)

Job(i) == jobs[i].stage = "writing"
At(i) == Len(jobs[i].made)
Item(i) == jobs[i].items[At(i)]
Ticket(i) == jobs[i].made[At(i)]
RowOpen(i) == At(i) > 0 /\ ~Ticket(i).finished

\* The id is resolved when the item is written: a position not reached yet has none.
Exists(i, dep) == dep = 0 \/ (jobs[i].from # 0 /\ dep > 0 /\ dep < At(i))

Written(i, ticket) == [jobs EXCEPT ![i].made[At(i)] = ticket]

CreateRow(i) ==
    /\ Job(i) /\ ~RowOpen(i) /\ At(i) < Len(jobs[i].items)
    /\ jobs' = [jobs EXCEPT ![i].linked = 0,
                    ![i].made = Append(@, [links |-> {}, ready |-> FALSE, finished |-> FALSE])]
    /\ UNCHANGED <<engine, filter, screen, about>>

AddDep(i) ==
    /\ Job(i) /\ RowOpen(i) /\ jobs[i].linked < Len(Item(i).deps)
    /\ LET dep == Item(i).deps[jobs[i].linked + 1] IN
        /\ Exists(i, dep)
        /\ jobs' = [Written(i, [Ticket(i) EXCEPT !.links = @ \cup {dep}]) EXCEPT ![i].linked = @ + 1]
    /\ UNCHANGED <<engine, filter, screen, about>>

\* Mutant: the ticket is queued first and its dependencies are added behind it.
FinishTicket_first(i) ==
    /\ Job(i) /\ RowOpen(i)
    /\ jobs' = Written(i, [Ticket(i) EXCEPT !.ready = Item(i).ready, !.finished = TRUE])
    /\ UNCHANGED <<engine, filter, screen, about>>

\* The last write queues the ticket, if it was asked for.
FinishTicket(i) ==
    /\ Job(i) /\ RowOpen(i) /\ jobs[i].linked = Len(Item(i).deps)
    /\ jobs' = Written(i, [Ticket(i) EXCEPT !.ready = Item(i).ready, !.finished = TRUE])
    /\ UNCHANGED <<engine, filter, screen, about>>

\* A dependency that does not exist, a store that refuses a write, or a daemon that dies:
\* what was written stays, and is finished by hand.
JobFails(i) ==
    /\ Job(i)
    /\ jobs' = [jobs EXCEPT ![i].stage = "failed"]
    /\ UNCHANGED <<engine, filter, screen, about>>

JobDone(i) ==
    /\ Job(i) /\ At(i) = Len(jobs[i].items) /\ ~RowOpen(i)
    /\ jobs' = [jobs EXCEPT ![i].stage = "done"]
    /\ UNCHANGED <<engine, filter, screen, about>>

Creating ==
    \E i \in DOMAIN jobs : CreateRow(i) \/ AddDep(i) \/ FinishTicket(i) \/ JobFails(i) \/ JobDone(i)

PlanNext ==
    \/ (Serving \/ CooldownEnds) /\ UNCHANGED planVars
    \/ \E c \in Calls : Ask(c) \/ TurnAnswered(c)
    \/ FilterMoves \/ StartOver \/ Approve
    \/ \E i \in DOMAIN jobs : Approved(i)
    \/ Creating

---------------------------------------------------------------------------
(* Properties.                                                             *)

\* An answer reaches only the conversation that asked for it, and a plan only the backlog
\* of the project it was made for, though the filter moves, the conversation is started
\* over and turns overtake each other.
AnswersStayHome ==
    /\ screen.from # 0 => screen.from \in screen.mine /\ about[screen.from] = screen.project
    /\ \A i \in DOMAIN jobs : jobs[i].from # 0 => about[jobs[i].from] = jobs[i].project

\* However far the creation of a ticket or a plan got, no ticket is in the queue without
\* every dependency it was written with: it would be started before its turn.
QueuedWithDependencies ==
    \A i \in DOMAIN jobs : \A k \in DOMAIN jobs[i].made :
        jobs[i].made[k].ready => jobs[i].made[k].links = Deps(jobs[i].items, k)
==============================================================================
