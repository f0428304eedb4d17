------------------------------ MODULE Dispatch ------------------------------
(***************************************************************************)
(* Which Ready ticket starts next, and where: a tick of the scheduler, the  *)
(* loop that starts what the tick decided, the worker slots of the hosts,   *)
(* and the router's choice of an agent.  A tick is not atomic: it lists the *)
(* queue and the hosts once and then considers one ticket after another     *)
(* against a store that keeps moving.  What a started run does to its       *)
(* ticket is the business of Orchestration; here it takes any legal course. *)
(***************************************************************************)
EXTENDS Lifecycle, Integers, FiniteSets, Sequences

CONSTANTS
  Tickets, Projects, Routes, Choices,
  Hosts,          \* host ids: numbers, compared as the code compares strings
  ProjectOf,      \* [Tickets -> Projects]
  Deps,           \* [Tickets -> SUBSET Tickets], fixed once a ticket is queued
  Serial,         \* the projects in serial mode; the others are parallel
  MaxConcurrency, \* [Projects -> Int], read for parallel projects
  Cap,            \* routeCaps, [Routes -> Int]: not positive is uncapped
  Total,          \* worker slots, [Hosts -> Nat]
  Pin,            \* the project's machine, [Projects -> Hosts \cup {Nowhere}]
  Override,       \* HostOverride, [Tickets -> Hosts \cup {Nowhere}]
  Satisfies,      \* hosts that meet the project's and the ticket's requirements
  Preferences,    \* the route table, [Routes -> Seq(Choices)]
  ProjectRoutes,  \* the project's own table, [Projects -> [Routes -> Seq(Choices)]]
  Usable,         \* choices this build and its configuration can run
  Installed,      \* agent CLIs found on a host, [Hosts -> SUBSET Choices]
  Unreadable,     \* tickets whose dependencies cannot be read
  FirstRoute,     \* the initial routes, [Tickets -> Routes]
  FirstRank,      \* the initial order, an injection [Tickets -> Nat]
  Course,         \* bound: the events runs and humans apply in this instance
  Edits,          \* kinds of change the human and the world make
  MaxEdits,       \* bound on their number
  Prompt          \* no tick begins while a start is short of Assigned

Nowhere == 0
ASSUME HostsAssumption == Hosts \subseteq Nat \ {Nowhere}
ASSUME TicketsAssumption == IsFiniteSet(Tickets) /\ IsFiniteSet(Hosts)
ASSUME ProjectsAssumption == ProjectOf \in [Tickets -> Projects] /\ Serial \subseteq Projects
ASSUME LimitsAssumption == /\ MaxConcurrency \in [Projects -> Int]
                           /\ Cap \in [Routes -> Int]
                           /\ Total \in [Hosts -> Nat]
                           /\ MaxEdits \in Nat
ASSUME PlacesAssumption == /\ Pin \in [Projects -> Hosts \cup {Nowhere}]
                           /\ Override \in [Tickets -> Hosts \cup {Nowhere}]
                           /\ Satisfies \in [Tickets -> SUBSET Hosts]
ASSUME TablesAssumption == /\ Preferences \in [Routes -> Seq(Choices)]
                           /\ ProjectRoutes \in [Projects -> [Routes -> Seq(Choices)]]
                           /\ Installed \in [Hosts -> SUBSET Choices]
ASSUME DepsAssumption == Deps \in [Tickets -> SUBSET Tickets]
ASSUME RouteAssumption == FirstRoute \in [Tickets -> Routes]
ASSUME RankAssumption == /\ FirstRank \in [Tickets -> Nat]
                         /\ \A t, u \in Tickets : FirstRank[t] = FirstRank[u] => t = u

VARIABLES
  state,    \* tickets.state
  route,    \* tickets.route
  rank,     \* where (priority, position, created_at) puts the ticket
  closed,   \* projects archived, without a repository, or gone
  cooling,  \* choices in a cooldown
  down,     \* hosts whose capabilities cannot be read
  used,     \* worker slots in use on each host
  pc,       \* the ticket's goroutine: Loop.running and how far it is
  host,     \* where the loop last sent the ticket
  ticking,  \* a tick is deciding
  listed,   \* the tickets of the tick, as its query returned them
  queue,    \* listed tickets the tick has still to consider
  load,     \* hostSnapshot: reachable hosts and the slots taken on them
  out,      \* what the tick has assigned: ticket -> host
  edits

ticketVars == <<state, route, rank>>
worldVars  == <<closed, cooling, down>>
runVars    == <<used, pc, host>>
tickVars   == <<ticking, listed, queue, load, out>>
vars == <<ticketVars, worldVars, runVars, tickVars, edits>>

\* The map with no entries.
Nothing == [x \in {} |-> Nowhere]

Init ==
  /\ state = [t \in Tickets |-> "ready"]
  /\ route = FirstRoute
  /\ rank = FirstRank
  /\ closed = {} /\ cooling = {} /\ down = {}
  /\ used = [h \in Hosts |-> 0]
  /\ pc = [t \in Tickets |-> "idle"]
  /\ host = [t \in Tickets |-> Nowhere]
  /\ ticking = FALSE
  /\ listed = Nothing /\ queue = {} /\ load = Nothing /\ out = Nothing
  /\ edits = 0

(***************************************************************************)
(* The checks, in the order consider makes them.  `placed` is the map from  *)
(* tickets to hosts this tick has assigned so far.                          *)
(***************************************************************************)
\* Mutant: an approved dependency is as good as a landed one.
DependenciesDone_approved(t) == \A d \in Deps[t] : state[d] \in {"landing", "handed_off", "done"}
DependenciesDone(t) == \A d \in Deps[t] : state[d] = "done"

\* A ticket whose agent is executing.
Executing(s) == s \in {"assigned", "running", "validating", "reviewing"}

ActiveIn(p)  == Cardinality({t \in Tickets : ProjectOf[t] = p /\ IsActive(state[t])})
RunningIn(p) == Cardinality({t \in Tickets : ProjectOf[t] = p /\ Executing(state[t])})
ActiveOn(r)  == Cardinality({t \in Tickets : route[t] = r /\ IsActive(state[t])})

\* Claimed during this tick, so that a second decision sees the first.
ClaimedIn(p, placed) == Cardinality({t \in DOMAIN placed : ProjectOf[t] = p})
ClaimedOn(r, placed) == Cardinality({t \in DOMAIN placed : listed[t].route = r})

Larger(m, n) == IF m < n THEN n ELSE m

\* Mutant: the limits are compared with what the store says only.
ProjectAvailable_unclaimed(p, placed) ==
  IF p \in Serial THEN ActiveIn(p) = 0
                  ELSE RunningIn(p) < Larger(1, MaxConcurrency[p])
ProjectAvailable(p, placed) ==
  IF p \in Serial THEN ActiveIn(p) = 0 /\ ClaimedIn(p, placed) = 0
                  ELSE RunningIn(p) + ClaimedIn(p, placed) < Larger(1, MaxConcurrency[p])

RouteAvailable(r, placed) == Cap[r] <= 0 \/ ActiveOn(r) + ClaimedOn(r, placed) < Cap[r]

EligibleOn(t, pool) ==
  {h \in DOMAIN pool \cap Satisfies[t] : Pin[ProjectOf[t]] \in {Nowhere, h}}

\* The idle host, else the least loaded with room, ties broken by id.
LeastBusy(hosts, pool) ==
  {h \in hosts : /\ pool[h] < Total[h]
                 /\ \A g \in hosts : pool[g] < Total[g] =>
                      \/ pool[h] < pool[g]
                      \/ pool[h] = pool[g] /\ h <= g}

\* An explicit override is preferred, not forced: it has to be eligible and
\* to have room.
Chosen(t, pool) ==
  IF Override[t] # Nowhere
    THEN {h \in EligibleOn(t, pool) : h = Override[t] /\ pool[h] < Total[h]}
    ELSE LeastBusy(EligibleOn(t, pool), pool)

(***************************************************************************)
(* The router: the project's own list for the route replaces the global one *)
(* unless it is empty, and the first choice that can be used wins.          *)
(***************************************************************************)
ChoicesFor(p, r) ==
  IF ProjectRoutes[p][r] # <<>> THEN ProjectRoutes[p][r] ELSE Preferences[r]

Available(c) == c \in Usable /\ c \notin cooling

Resolve(p, r) ==
  LET list == ChoicesFor(p, r)
  IN  {list[i] : i \in {i \in DOMAIN list : /\ Available(list[i])
                                            /\ \A j \in 1..(i - 1) : ~Available(list[j])}}

\* A host that reported no providers at all is not held to them.
HasAgent(h, c) == Installed[h] = {} \/ c \in Installed[h]

\* consider: the hosts the ticket can be assigned to, at most one.
Consider(t, r, pool, placed) ==
  LET p == ProjectOf[t]
  IN  {h \in Chosen(t, pool) :
         /\ p \notin closed
         /\ DependenciesDone(t)
         /\ ProjectAvailable(p, placed)
         /\ RouteAvailable(r, placed)
         /\ \E c \in Resolve(p, r) : HasAgent(h, c)}

Snapshot == [h \in Hosts \ down |-> used[h]]

\* Explain on a Ready ticket: "ready to start".
Eligible(t) ==
  /\ state[t] = "ready" /\ t \notin Unreadable
  /\ Consider(t, route[t], Snapshot, Nothing) # {}

(***************************************************************************)
(* A tick.                                                                  *)
(***************************************************************************)
Tick ==
  /\ ~ticking
  /\ Prompt => \A t \in Tickets : pc[t] \notin {"claim", "assign"}
  /\ ticking' = TRUE
  /\ queue' = {t \in Tickets : state[t] = "ready"}
  /\ queue' # {}
  /\ listed' = [t \in queue' |-> [rank |-> rank[t], route |-> route[t]]]
  /\ load' = Snapshot
  /\ out' = Nothing
  /\ UNCHANGED <<ticketVars, worldVars, runVars, edits>>

NextInLine(t) == t \in queue /\ \A u \in queue : listed[t].rank <= listed[u].rank

\* Mutant: an assignment takes no room in the snapshot.
Claim_nothing(pool, h) == pool
Claim(pool, h) == [pool EXCEPT ![h] = @ + 1]

\* The ticket with the least rank is assigned, or passed over.
Decide(t, places) ==
  IF places = {}
    THEN UNCHANGED <<load, out>>
    ELSE \E h \in places :
           /\ out' = [u \in DOMAIN out \cup {t} |-> IF u = t THEN h ELSE out[u]]
           /\ load' = Claim(load, h)

\* Mutant: the first ticket that cannot be read ends the tick and what it decided.
ConsiderNext_gives_up(t) ==
  /\ NextInLine(t)
  /\ IF t \in Unreadable
       THEN queue' = {} /\ out' = Nothing /\ UNCHANGED load
       ELSE /\ queue' = queue \ {t}
            /\ Decide(t, Consider(t, listed[t].route, load, out))
  /\ UNCHANGED <<ticketVars, worldVars, runVars, ticking, listed, edits>>

\* An error costs the ticket its turn, not the tick.
ConsiderNext(t) ==
  /\ NextInLine(t)
  /\ queue' = queue \ {t}
  /\ IF t \in Unreadable THEN UNCHANGED <<load, out>>
                         ELSE Decide(t, Consider(t, listed[t].route, load, out))
  /\ UNCHANGED <<ticketVars, worldVars, runVars, ticking, listed, edits>>

\* The loop starts every assignment whose ticket it does not already run.
StartAll ==
  /\ ticking /\ queue = {}
  /\ ticking' = FALSE
  /\ LET started == {t \in DOMAIN out : pc[t] = "idle"}
     IN  /\ pc' = [t \in Tickets |-> IF t \in started THEN "claim" ELSE pc[t]]
         /\ host' = [t \in Tickets |-> IF t \in started THEN out[t] ELSE host[t]]
  /\ listed' = Nothing /\ load' = Nothing /\ out' = Nothing
  /\ UNCHANGED <<ticketVars, worldVars, used, queue, edits>>

(***************************************************************************)
(* A run, as far as the scheduler can tell.                                 *)
(***************************************************************************)
goto(t, next) == pc' = [pc EXCEPT ![t] = next]

TryClaim(t) ==
  /\ pc[t] = "claim"
  /\ IF used[host[t]] < Total[host[t]]
       THEN used' = [used EXCEPT ![host[t]] = @ + 1] /\ goto(t, "assign") /\ UNCHANGED host
       ELSE host' = [host EXCEPT ![t] = Nowhere] /\ goto(t, "idle") /\ UNCHANGED used
  /\ UNCHANGED <<ticketVars, worldVars, tickVars, edits>>

Release(t) ==
  /\ used' = [used EXCEPT ![host[t]] = @ - 1]
  /\ host' = [host EXCEPT ![t] = Nowhere]
  /\ goto(t, "idle")

\* Refused when the ticket is no longer Ready: the run ends there.
Assign(t) ==
  /\ pc[t] = "assign"
  /\ IF Legal(state[t], "assign")
       THEN state' = [state EXCEPT ![t] = "assigned"] /\ goto(t, "run") /\ UNCHANGED <<used, host>>
       ELSE Release(t) /\ UNCHANGED state
  /\ UNCHANGED <<route, rank, worldVars, tickVars, edits>>

RunEvents == {"start", "provider_retry", "agent_finished", "ask", "validation_passed",
              "validation_retry", "validation_exhausted", "reviewed", "run_failed", "kill"}

Apply(t, events) ==
  \E ev \in events \cap Course, to \in States :
    Transition(state[t], ev, to) /\ state' = [state EXCEPT ![t] = to]

Work(t) ==
  /\ pc[t] = "run"
  /\ Apply(t, RunEvents)
  /\ UNCHANGED <<route, rank, worldVars, runVars, tickVars, edits>>

\* Run returns some time after its last event: until then the loop still
\* holds the ticket and the slot.
Return(t) ==
  /\ pc[t] = "run" /\ ~Executing(state[t])
  /\ Release(t)
  /\ UNCHANGED <<ticketVars, worldVars, tickVars, edits>>

(***************************************************************************)
(* The human, the landing and the world.                                    *)
(***************************************************************************)
HumanEvents == {"mark_ready", "approve", "request_changes", "landed", "land_failed",
                "handed_off", "answer", "requeue", "return_to_review"}

Human(t) ==
  /\ Apply(t, HumanEvents)
  /\ UNCHANGED <<route, rank, worldVars, runVars, tickVars, edits>>

Edit(kind) == kind \in Edits /\ edits < MaxEdits /\ edits' = edits + 1

Withdraw(t) ==
  /\ Edit("withdraw")
  /\ Apply(t, {"return_to_backlog", "reject"})
  /\ UNCHANGED <<route, rank, worldVars, runVars, tickVars>>

\* A new priority or position: two tickets change places.
Reorder(t, u) ==
  /\ Edit("order")
  /\ rank[t] < rank[u]
  /\ rank' = [rank EXCEPT ![t] = rank[u], ![u] = rank[t]]
  /\ UNCHANGED <<state, route, worldVars, runVars, tickVars>>

\* UpdateTicket sets the route of a ticket in any state.
EditRoute(t) ==
  /\ Edit("route")
  /\ \E r \in Routes \ {route[t]} : route' = [route EXCEPT ![t] = r]
  /\ UNCHANGED <<state, rank, worldVars, runVars, tickVars>>

Flip(S, x) == IF x \in S THEN S \ {x} ELSE S \cup {x}

World ==
  /\ \/ Edit("project") /\ (\E p \in Projects : closed' = Flip(closed, p))
        /\ UNCHANGED <<cooling, down>>
     \/ Edit("cool") /\ (\E c \in Choices : cooling' = Flip(cooling, c))
        /\ UNCHANGED <<closed, down>>
     \/ Edit("host") /\ (\E h \in Hosts : down' = Flip(down, h))
        /\ UNCHANGED <<closed, cooling>>
  /\ UNCHANGED <<ticketVars, runVars, tickVars>>

Next ==
  \/ Tick \/ StartAll \/ World
  \/ \E t \in Tickets : \/ ConsiderNext(t) \/ TryClaim(t) \/ Assign(t)
                        \/ Work(t) \/ Return(t)
                        \/ Human(t) \/ Withdraw(t) \/ EditRoute(t)
  \/ \E t, u \in Tickets : Reorder(t, u)

Spec == Init /\ [][Next]_vars

\* The loop ticks for as long as it lives, a tick ends, and a start reaches
\* its first store write.  Nothing is assumed of agents or of the human.
Fairness ==
  /\ WF_vars(Tick) /\ WF_vars(StartAll)
  /\ \A t \in Tickets : /\ WF_vars(ConsiderNext(t))
                        /\ WF_vars(TryClaim(t))
                        /\ WF_vars(Assign(t))
                        /\ WF_vars(Return(t))
FairSpec == Spec /\ Fairness

-----------------------------------------------------------------------------

(***************************************************************************)
(* Properties.                                                              *)
(***************************************************************************)

\* A serial project has at most one ticket between Ready and its end.
SerialExclusive == \A p \in Serial : ActiveIn(p) <= 1

\* A parallel project never executes more agents than its max_concurrency.
ParallelLimit ==
  \A p \in Projects \ Serial : RunningIn(p) <= Larger(1, MaxConcurrency[p])

\* Across all projects, no more tickets of a route are in flight than its cap.
RouteLimit == \A r \in Routes : Cap[r] > 0 => ActiveOn(r) <= Cap[r]

\* What the scheduler places fits: a start finds the slot it was promised, and
\* is not turned away by a second start of the same tick.
PlacementFits ==
  \A h \in Hosts :
    used[h] + Cardinality({t \in Tickets : pc[t] = "claim" /\ host[t] = h}) <= Total[h]

\* A run is on its project's machine, and on one that can build the ticket.
OnItsMachine ==
  \A t \in Tickets : pc[t] # "idle" =>
    host[t] \in Satisfies[t] /\ Pin[ProjectOf[t]] \in {Nowhere, host[t]}

\* Ticks of one second decide against a store that keeps moving: a serial project has at most one
\* ticket between Ready and its end, a parallel one no more agents than its max_concurrency, and a
\* route no more tickets in flight than its cap.
WithinLimits == SerialExclusive /\ ParallelLimit /\ RouteLimit

\* What the scheduler places fits and belongs: a start finds the slot it was promised, on a machine
\* that is its project's and can build the ticket.
WellPlaced == PlacementFits /\ OnItsMachine

\* Work never starts before what it depends on has landed.
BuildsOnLanded ==
  \A t \in Tickets : IsActive(state[t]) => \A d \in Deps[t] : state[d] = "done"

\* A ticket that Explain calls ready to start does not stay Ready for ever, whichever tickets in
\* front of it cannot be read and however the world changes, as long as it stops changing.
Starts == \A t \in Tickets : ~<>[]Eligible(t)
=============================================================================
