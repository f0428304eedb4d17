-------------------------- MODULE Dispatch_proofs --------------------------
(***************************************************************************)
(* Proofs about Dispatch, for any finite set of tickets and hosts, any      *)
(* projects, limits, route tables and pins, any course the runs and the     *)
(* humans take and any number of changes while a tick decides.              *)
(***************************************************************************)
EXTENDS Dispatch, FiniteSetTheorems, TLAPS

\* A start on its way to its first store write.
Pending(t) == pc[t] \in {"claim", "assign"}

\* The scheduler has spoken for the ticket: this tick has assigned it, or the
\* loop has started it and the store does not say so yet.
Spoken(t) == Pending(t) \/ t \in DOMAIN out

\* The tickets that count against a project in serial mode, against a parallel
\* project's max_concurrency, and against a route's cap, together with those
\* that are about to.
Holding(p) == {t \in Tickets : ProjectOf[t] = p /\ (IsActive(state[t]) \/ Spoken(t))}
Busy(p)    == {t \in Tickets : ProjectOf[t] = p /\ (Executing(state[t]) \/ Spoken(t))}
Crowding(r) == {t \in Tickets : route[t] = r /\ (IsActive(state[t]) \/ Spoken(t))}

\* Starts bound for a host, and tickets this tick has assigned to it.
Bound(h)  == {t \in Tickets : pc[t] = "claim" /\ host[t] = h}
Placed(h) == {t \in DOMAIN out : out[t] = h}

(***************************************************************************)
(* The inductive invariant, in parts.                                       *)
(***************************************************************************)

\* What the variables hold.
Shape ==
  /\ state \in [Tickets -> States]
  /\ route \in [Tickets -> Routes]
  /\ pc \in [Tickets -> {"idle", "claim", "assign", "run"}]
  /\ host \in [Tickets -> Hosts \cup {Nowhere}]
  /\ used \in [Hosts -> Int]
  /\ ticking \in BOOLEAN
  /\ queue \subseteq Tickets
  /\ DOMAIN load \subseteq Hosts /\ load \in [DOMAIN load -> Int]
  /\ DOMAIN out \subseteq Tickets /\ out \in [DOMAIN out -> DOMAIN load]
  /\ ticking \/ (DOMAIN out = {} /\ DOMAIN load = {} /\ queue = {})

\* What a ticket in flight, or spoken for, builds on has landed.
LandedInv ==
  \A t \in Tickets : IsActive(state[t]) \/ Spoken(t) => DependenciesDone(t)

\* The host can build the ticket, and is its project's machine if that has one.
Fits(t, h) == h \in Satisfies[t] /\ Pin[ProjectOf[t]] \in {Nowhere, h}
MachineInv ==
  \A t \in Tickets : /\ pc[t] # "idle" => Fits(t, host[t])
                     /\ t \in DOMAIN out => Fits(t, out[t])

\* No start is on its way while a tick decides: the promptness the loop's second
\* between two ticks gives it.
PromptInv == ticking => \A t \in Tickets : ~Pending(t)

\* The limits, with what the scheduler has spoken for counted in.
SerialInv == \A p \in Serial : Cardinality(Holding(p)) <= 1
ParallelInv ==
  \A p \in Projects \ Serial : Cardinality(Busy(p)) <= Larger(1, MaxConcurrency[p])

\* The tick counts a ticket on the route it still has.
ListedInv ==
  /\ queue \cup DOMAIN out \subseteq DOMAIN listed
  /\ \A t \in DOMAIN listed : listed[t].route = route[t]
RouteInv == \A r \in Routes : Cap[r] > 0 => Cardinality(Crowding(r)) <= Cap[r]

\* What a tick assigns to a host, and what the loop has started for it, fits in
\* the slots the runs have left.
SlotsInv ==
  /\ PlacementFits
  /\ \A h \in DOMAIN load : /\ used[h] + Cardinality(Placed(h)) <= load[h]
                            /\ load[h] <= Total[h]

(***************************************************************************)
(* Counting.                                                                *)
(***************************************************************************)

\* Any set of tickets can be counted.
LEMMA TicketsCount ==
  ASSUME NEW S \in SUBSET Tickets
  PROVE  IsFiniteSet(S) /\ Cardinality(S) \in Nat
  BY FS_Subset, FS_CardinalityType, TicketsAssumption

\* A set of tickets with no more members is no larger.
LEMMA FewerCount ==
  ASSUME NEW S \in SUBSET Tickets, NEW T \in SUBSET S
  PROVE  Cardinality(T) <= Cardinality(S)
  BY TicketsCount, FS_Subset

\* Room left by what the store shows and what the tick has claimed is room for
\* one more (the comparison in projectAvailable and routeAvailable).
LEMMA RoomForOne ==
  ASSUME NEW A \in SUBSET Tickets, NEW B \in SUBSET Tickets, NEW t \in Tickets,
         NEW n \in Int, Cardinality(A) + Cardinality(B) < n,
         NEW S \in SUBSET (A \cup B)
  PROVE  Cardinality(S \cup {t}) <= n
  <1>1. IsFiniteSet(A) /\ IsFiniteSet(B) /\ IsFiniteSet(A \cap B) /\ IsFiniteSet(A \cup B)
    <2>1. A \cap B \in SUBSET Tickets /\ A \cup B \in SUBSET Tickets
      OBVIOUS
    <2> QED BY <2>1, TicketsCount
  <1>2. Cardinality(A \cup B) = Cardinality(A) + Cardinality(B) - Cardinality(A \cap B)
    BY <1>1, FS_Union
  <1>3. /\ Cardinality(A) \in Nat /\ Cardinality(B) \in Nat
        /\ Cardinality(A \cap B) \in Nat /\ Cardinality(A \cup B) \in Nat
    BY <1>1, FS_CardinalityType
  <1>4. IsFiniteSet(S) /\ Cardinality(S) \in Nat /\ Cardinality(S) <= Cardinality(A \cup B)
    BY <1>1, FS_Subset, FS_CardinalityType
  <1>5. Cardinality(S \cup {t}) <= Cardinality(S) + 1
    <2>1. Cardinality(S \cup {t}) = IF t \in S THEN Cardinality(S) ELSE Cardinality(S) + 1
      BY <1>4, FS_AddElement
    <2> QED BY <2>1, <1>4
  <1>6. Cardinality(S \cup {t}) \in Nat
    <2>1. S \cup {t} \in SUBSET Tickets
      OBVIOUS
    <2> QED BY <2>1, TicketsCount
  <1> QED BY <1>2, <1>3, <1>4, <1>5, <1>6

(***************************************************************************)
(* What a step does to a ticket.                                            *)
(***************************************************************************)

\* The table of core/state.go: only `assign` puts a ticket in flight, only from
\* Ready; nothing but an executing ticket goes on executing; Done is the end.
LEMMA Edges ==
  ASSUME NEW s, NEW ev, NEW to, Transition(s, ev, to)
  PROVE  /\ to \in States
         /\ s # "done"
         /\ ev # "assign" => (IsActive(to) => IsActive(s))
         /\ ev # "assign" => (Executing(to) => Executing(s))
  BY DEF Transition, transitions, IsActive, Executing, States

\* A step settles when it speaks for no ticket: what was neither in flight nor
\* spoken for stays so, and what has landed stays landed.
Settles ==
  \A t \in Tickets :
    /\ Spoken(t)' => Spoken(t)
    /\ IsActive(state'[t]) => IsActive(state[t]) \/ Spoken(t)
    /\ Executing(state'[t]) => Executing(state[t]) \/ Spoken(t)
    /\ state[t] = "done" => state'[t] = "done"

\* A course of events that assigns nothing.
LEMMA CourseSettles ==
  ASSUME Shape, NEW t \in Tickets, NEW events, "assign" \notin events,
         Apply(t, events), UNCHANGED <<pc, out>>
  PROVE  Settles /\ state' \in [Tickets -> States]
  <1>1. PICK ev \in events, to \in States :
          Transition(state[t], ev, to) /\ state' = [state EXCEPT ![t] = to]
    BY DEF Apply
  <1>2. ev # "assign"
    OBVIOUS
  <1>3. /\ state[t] # "done"
        /\ IsActive(to) => IsActive(state[t])
        /\ Executing(to) => Executing(state[t])
    BY <1>1, <1>2, Edges
  <1>4. state \in [Tickets -> States] /\ state' \in [Tickets -> States]
    BY <1>1 DEF Shape
  <1>5. \A u \in Tickets : state'[u] = IF u = t THEN to ELSE state[u]
    BY <1>1, <1>4
  <1>6. \A u \in Tickets : Spoken(u)' <=> Spoken(u)
    BY DEF Spoken, Pending
  <1> QED BY <1>3, <1>4, <1>5, <1>6 DEF Settles

\* A step that leaves the tickets' states alone and speaks for none.
LEMMA StillSettles ==
  ASSUME UNCHANGED state, \A t \in Tickets : Spoken(t)' => Spoken(t)
  PROVE  Settles
  BY DEF Settles

\* A step of one ticket's start or run: the goroutine of the loop.
RunStep(t) == TryClaim(t) \/ Assign(t) \/ Work(t) \/ Return(t)

\* A step of the human or of the world around the scheduler.
Outside ==
  \/ World
  \/ \E t \in Tickets : Human(t) \/ Withdraw(t) \/ EditRoute(t)
  \/ \E t, u \in Tickets : Reorder(t, u)

\* Next, sorted by whose step it is.
LEMMA NextCases ==
  ASSUME [Next]_vars
  PROVE  \/ Tick \/ StartAll \/ Outside
         \/ \E t \in Tickets : ConsiderNext(t) \/ RunStep(t)
         \/ UNCHANGED vars
  BY DEF Next, Outside, RunStep

\* A slot taken leaves the counts whole numbers.
LEMMA ClaimWhole ==
  ASSUME Shape, NEW h
  PROVE  [used EXCEPT ![h] = @ + 1] \in [Hosts -> Int]
  <1>1. used \in [Hosts -> Int]
    BY DEF Shape
  <1>2. CASE h \in Hosts
    <2>1. used[h] + 1 \in Int
      BY <1>1, <1>2
    <2> QED BY <1>1, <1>2, <2>1
  <1>3. CASE h \notin Hosts
    <2>1. [used EXCEPT ![h] = @ + 1] = used
      BY <1>1, <1>3
    <2> QED BY <1>1, <2>1
  <1> QED BY <1>2, <1>3

\* The deferred Release gives one slot back.
LEMMA ReleaseWhole ==
  ASSUME Shape, NEW t \in Tickets, Release(t)
  PROVE  used' \in [Hosts -> Int]
  <1>1. used' = [used EXCEPT ![host[t]] = @ - 1]
    BY DEF Release
  <1>2. used \in [Hosts -> Int]
    BY DEF Shape
  <1>3. CASE host[t] \in Hosts
    <2>1. used[host[t]] - 1 \in Int
      BY <1>2, <1>3
    <2> QED BY <1>1, <1>2, <2>1
  <1>4. CASE host[t] \notin Hosts
    BY <1>1, <1>2, <1>4
  <1> QED BY <1>3, <1>4

\* A step of one goroutine touches its ticket's state, its stage, its host and
\* one slot.
LEMMA GoKeepsShape ==
  ASSUME Shape, UNCHANGED <<route, tickVars>>,
         state' \in [Tickets -> States],
         NEW t \in Tickets, NEW stage \in {"idle", "claim", "assign", "run"}, goto(t, stage),
         host' = host \/ host' = [host EXCEPT ![t] = Nowhere],
         used' \in [Hosts -> Int]
  PROVE  Shape'
  <1>1. pc' \in [Tickets -> {"idle", "claim", "assign", "run"}]
    BY DEF goto, Shape
  <1>2. host' \in [Tickets -> Hosts \cup {Nowhere}]
    BY DEF Shape
  <1> QED BY <1>1, <1>2 DEF Shape, tickVars

\* A claim is refused or becomes a slot; Assigned is written or refused; a run
\* takes its course and returns: none speaks for a ticket (agentrun.Run).
LEMMA RunStepSettles ==
  ASSUME Shape, NEW t \in Tickets, RunStep(t)
  PROVE  Settles /\ Shape'
  <1> USE DEF ticketVars, worldVars, runVars, tickVars
  <1>1. CASE TryClaim(t)
    <2>1. Settles
      <3>1. UNCHANGED state /\ \A u \in Tickets : Spoken(u)' => Spoken(u)
        BY <1>1 DEF TryClaim, goto, Spoken, Pending, Shape
      <3> QED BY <3>1, StillSettles
    <2>2. Shape'
      <3>1. used' \in [Hosts -> Int]
        <4>1. used' = [used EXCEPT ![host[t]] = @ + 1] \/ used' = used
          BY <1>1 DEF TryClaim
        <4>2. [used EXCEPT ![host[t]] = @ + 1] \in [Hosts -> Int]
          BY ClaimWhole
        <4> QED BY <4>1, <4>2 DEF Shape
      <3>2. goto(t, "assign") \/ goto(t, "idle")
        BY <1>1 DEF TryClaim
      <3>3. /\ UNCHANGED <<route, tickVars>> /\ state' \in [Tickets -> States]
            /\ host' = host \/ host' = [host EXCEPT ![t] = Nowhere]
        BY <1>1 DEF TryClaim, Shape
      <3> QED BY <3>1, <3>2, <3>3, GoKeepsShape
    <2> QED BY <2>1, <2>2
  <1>2. CASE Assign(t)
    <2>1. Spoken(t)
      BY <1>2 DEF Assign, Spoken, Pending
    <2>2. state[t] # "done" \/ state' = state
      <3>1. CASE Legal(state[t], "assign")
        BY <3>1, Edges DEF Legal
      <3>2. CASE ~Legal(state[t], "assign")
        BY <1>2, <3>2 DEF Assign
      <3> QED BY <3>1, <3>2
    <2>3. \A u \in Tickets : Spoken(u)' => Spoken(u)
      BY <1>2 DEF Assign, Release, goto, Spoken, Pending, Shape
    <2>4. \A u \in Tickets \ {t} : state'[u] = state[u]
      BY <1>2 DEF Assign, Shape
    <2>5. Settles
      BY <2>1, <2>2, <2>3, <2>4 DEF Settles
    <2>6. Shape'
      <3>1. used' \in [Hosts -> Int]
        BY <1>2, ReleaseWhole DEF Assign, Shape
      <3>2. goto(t, "run") \/ goto(t, "idle")
        BY <1>2 DEF Assign, Release
      <3>3. UNCHANGED <<route, tickVars>> /\ state' \in [Tickets -> States]
        BY <1>2 DEF Assign, Shape, States
      <3>4. host' = host \/ host' = [host EXCEPT ![t] = Nowhere]
        BY <1>2 DEF Assign, Release
      <3> QED BY <3>1, <3>2, <3>3, <3>4, GoKeepsShape
    <2> QED BY <2>5, <2>6
  <1>3. CASE Work(t)
    <2>1. Apply(t, RunEvents) /\ UNCHANGED <<pc, out>> /\ "assign" \notin RunEvents
      BY <1>3 DEF Work, RunEvents
    <2>2. Settles /\ state' \in [Tickets -> States]
      BY <2>1, CourseSettles
    <2>3. Shape'
      BY <1>3, <2>2 DEF Work, Shape
    <2> QED BY <2>2, <2>3
  <1>4. CASE Return(t)
    <2>1. Settles
      <3>1. UNCHANGED state /\ \A u \in Tickets : Spoken(u)' => Spoken(u)
        BY <1>4 DEF Return, Release, goto, Spoken, Pending, Shape
      <3> QED BY <3>1, StillSettles
    <2>2. Shape'
      <3>1. Release(t) /\ UNCHANGED <<route, tickVars>> /\ state' \in [Tickets -> States]
        BY <1>4 DEF Return, Shape
      <3>2. used' \in [Hosts -> Int]
        BY <3>1, ReleaseWhole
      <3>3. goto(t, "idle") /\ host' = [host EXCEPT ![t] = Nowhere]
        BY <3>1 DEF Release
      <3> QED BY <3>1, <3>2, <3>3, GoKeepsShape
    <2> QED BY <2>1, <2>2
  <1> QED BY <1>1, <1>2, <1>3, <1>4 DEF RunStep

\* The human and the world move tickets along the table, never into flight.
LEMMA OutsideSettles ==
  ASSUME Shape, Outside
  PROVE  /\ Settles /\ Shape'
         /\ UNCHANGED <<used, pc, host, ticking, listed, queue, load, out>>
         /\ "route" \notin Edits => UNCHANGED route
  <1> USE DEF ticketVars, worldVars, runVars, tickVars
  <1>1. CASE World
    <2>1. UNCHANGED <<state, route, used, pc, host, ticking, listed, queue, load, out>>
      BY <1>1 DEF World
    <2>2. \A t \in Tickets : Spoken(t)' => Spoken(t)
      BY <2>1 DEF Spoken, Pending
    <2>3. Settles
      BY <2>1, <2>2, StillSettles
    <2>4. Shape'
      BY <2>1 DEF Shape
    <2> QED BY <2>1, <2>3, <2>4
  <1>2. ASSUME NEW t \in Tickets, Human(t) \/ Withdraw(t)
        PROVE  /\ Settles /\ Shape'
               /\ UNCHANGED <<route, used, pc, host, ticking, listed, queue, load, out>>
    <2>1. UNCHANGED <<route, used, pc, host, ticking, listed, queue, load, out>>
      BY <1>2 DEF Human, Withdraw
    <2>2. PICK events : Apply(t, events) /\ "assign" \notin events
      <3>1. "assign" \notin HumanEvents /\ "assign" \notin {"return_to_backlog", "reject"}
        BY DEF HumanEvents
      <3> QED BY <1>2, <3>1 DEF Human, Withdraw
    <2>3. Settles /\ state' \in [Tickets -> States]
      BY <2>1, <2>2, CourseSettles
    <2>4. Shape'
      BY <2>1, <2>3 DEF Shape
    <2> QED BY <2>1, <2>3, <2>4
  <1>3. ASSUME NEW t \in Tickets, EditRoute(t)
        PROVE  /\ Settles /\ Shape' /\ "route" \in Edits
               /\ UNCHANGED <<used, pc, host, ticking, listed, queue, load, out>>
    <2>1. /\ UNCHANGED <<state, used, pc, host, ticking, listed, queue, load, out>>
          /\ "route" \in Edits
      BY <1>3 DEF EditRoute, Edit
    <2>2. Settles
      <3>1. \A u \in Tickets : Spoken(u)' => Spoken(u)
        BY <2>1 DEF Spoken, Pending
      <3> QED BY <2>1, <3>1, StillSettles
    <2>3. route' \in [Tickets -> Routes]
      BY <1>3 DEF EditRoute, Shape
    <2>4. Shape'
      BY <2>1, <2>3 DEF Shape
    <2> QED BY <2>1, <2>2, <2>4
  <1>4. ASSUME NEW t \in Tickets, NEW u \in Tickets, Reorder(t, u)
        PROVE  /\ Settles /\ Shape'
               /\ UNCHANGED <<route, used, pc, host, ticking, listed, queue, load, out>>
    <2>1. UNCHANGED <<state, route, used, pc, host, ticking, listed, queue, load, out>>
      BY <1>4 DEF Reorder
    <2>2. \A v \in Tickets : Spoken(v)' => Spoken(v)
      BY <2>1 DEF Spoken, Pending
    <2>3. Settles
      BY <2>1, <2>2, StillSettles
    <2>4. Shape'
      BY <2>1 DEF Shape
    <2> QED BY <2>1, <2>3, <2>4
  <1>5. World => UNCHANGED route
    BY DEF World
  <1> QED BY <1>1, <1>2, <1>3, <1>4, <1>5 DEF Outside

\* A tick begins with the host slots as they stand and nothing assigned.
LEMMA TickSettles ==
  ASSUME Shape, Tick
  PROVE  /\ Settles /\ Shape'
         /\ DOMAIN out' = {} /\ DOMAIN listed' = queue'
         /\ DOMAIN load' \subseteq Hosts /\ \A h \in DOMAIN load' : load'[h] = used[h]
  <1>1. /\ UNCHANGED <<state, route, used, pc, host>> /\ ticking' = TRUE
        /\ queue' \subseteq Tickets /\ load' = Snapshot /\ out' = Nothing
    BY DEF Tick, ticketVars, worldVars, runVars
  <1>2. DOMAIN out' = {} /\ out' \in [DOMAIN out' -> DOMAIN load']
    BY <1>1 DEF Nothing
  <1>3. /\ DOMAIN load' \subseteq Hosts /\ load' \in [DOMAIN load' -> Int]
        /\ \A h \in DOMAIN load' : load'[h] = used[h]
    BY <1>1 DEF Snapshot, Shape
  <1>4. Settles
    <2>1. \A t \in Tickets : Spoken(t)' => Spoken(t)
      BY <1>1, <1>2 DEF Spoken, Pending
    <2> QED BY <1>1, <2>1, StillSettles
  <1>5. Shape'
    BY <1>1, <1>2, <1>3 DEF Shape
  <1>6. DOMAIN listed' = queue'
    BY DEF Tick
  <1> QED BY <1>2, <1>3, <1>4, <1>5, <1>6

\* The loop starts only what the tick assigned, on the host it was assigned to.
LEMMA StartAllSettles ==
  ASSUME Shape, StartAll
  PROVE  /\ Settles /\ Shape'
         /\ UNCHANGED <<state, route, used>> /\ ticking /\ ~ticking'
         /\ DOMAIN out' = {} /\ DOMAIN load' = {} /\ queue' = {}
         /\ \A t \in Tickets : \/ pc'[t] = pc[t] /\ host'[t] = host[t]
                               \/ /\ t \in DOMAIN out /\ pc[t] = "idle"
                                  /\ pc'[t] = "claim" /\ host'[t] = out[t]
  <1> DEFINE started == {t \in DOMAIN out : pc[t] = "idle"}
  <1>1. /\ UNCHANGED <<state, route, used, queue>> /\ ticking /\ ticking' = FALSE /\ queue = {}
        /\ load' = Nothing /\ out' = Nothing
        /\ pc' = [t \in Tickets |-> IF t \in started THEN "claim" ELSE pc[t]]
        /\ host' = [t \in Tickets |-> IF t \in started THEN out[t] ELSE host[t]]
    BY DEF StartAll, ticketVars
  <1>2. \A t \in Tickets : \/ pc'[t] = pc[t] /\ host'[t] = host[t]
                           \/ /\ t \in DOMAIN out /\ pc[t] = "idle"
                              /\ pc'[t] = "claim" /\ host'[t] = out[t]
    BY <1>1
  <1>3. \A t \in DOMAIN out : out[t] \in Hosts
    BY DEF Shape
  <1>4. /\ pc' \in [Tickets -> {"idle", "claim", "assign", "run"}]
        /\ host' \in [Tickets -> Hosts \cup {Nowhere}]
    BY <1>1, <1>3 DEF Shape
  <1>5. /\ DOMAIN out' = {} /\ DOMAIN load' = {}
        /\ out' \in [DOMAIN out' -> DOMAIN load'] /\ load' \in [DOMAIN load' -> Int]
    BY <1>1 DEF Nothing
  <1>6. Shape'
    BY <1>1, <1>4, <1>5 DEF Shape
  <1>7. Settles
    <2>1. \A t \in Tickets : Spoken(t)' => Spoken(t)
      BY <1>2, <1>5 DEF Spoken, Pending
    <2> QED BY <1>1, <2>1, StillSettles
  <1> QED BY <1>1, <1>2, <1>5, <1>6, <1>7

(***************************************************************************)
(* What the scheduler decides.                                              *)
(***************************************************************************)

\* consider assigns a ticket only to a host with room that fits it, after every
\* check it makes has passed.
LEMMA ConsiderChecks ==
  ASSUME Shape, NEW t, NEW r, NEW h \in Consider(t, r, load, out)
  PROVE  /\ h \in DOMAIN load /\ load[h] < Total[h] /\ Fits(t, h)
         /\ DependenciesDone(t)
         /\ ProjectAvailable(ProjectOf[t], out)
         /\ RouteAvailable(r, out)
  <1>1. /\ h \in Chosen(t, load)
        /\ DependenciesDone(t) /\ ProjectAvailable(ProjectOf[t], out) /\ RouteAvailable(r, out)
    BY DEF Consider
  <1>2. h \in EligibleOn(t, load) /\ load[h] < Total[h]
    BY <1>1 DEF Chosen, LeastBusy
  <1> QED BY <1>1, <1>2 DEF EligibleOn, Fits

\* A ticket is passed over, or assigned to one host whose snapshot it then loads.
Assigns(t, h) ==
  /\ h \in DOMAIN load /\ load[h] < Total[h] /\ Fits(t, h)
  /\ DependenciesDone(t)
  /\ ProjectAvailable(ProjectOf[t], out)
  /\ RouteAvailable(listed[t].route, out)
  /\ out' = [u \in DOMAIN out \cup {t} |-> IF u = t THEN h ELSE out[u]]
  /\ load' = [load EXCEPT ![h] = @ + 1]

\* The turn of a ticket changes nothing but what the tick holds, and speaks for
\* that ticket alone.
LEMMA ConsiderNextStep ==
  ASSUME Shape, NEW t \in Tickets, ConsiderNext(t)
  PROVE  /\ UNCHANGED <<state, route, used, pc, host, ticking, listed>>
         /\ ticking /\ t \in queue /\ queue' = queue \ {t}
         /\ UNCHANGED <<load, out>> \/ \E h \in Hosts : Assigns(t, h)
  <1>1. /\ UNCHANGED <<state, route, used, pc, host, ticking, listed>>
        /\ t \in queue /\ queue' = queue \ {t}
    BY DEF ConsiderNext, NextInLine, ticketVars, runVars
  <1>2. ticking
    BY <1>1 DEF Shape
  <1>3. CASE t \in Unreadable
    BY <1>1, <1>2, <1>3 DEF ConsiderNext
  <1>4. CASE t \notin Unreadable
    <2>1. Decide(t, Consider(t, listed[t].route, load, out))
      BY <1>4 DEF ConsiderNext
    <2>2. CASE Consider(t, listed[t].route, load, out) = {}
      BY <1>1, <1>2, <2>1, <2>2 DEF Decide
    <2>3. CASE Consider(t, listed[t].route, load, out) # {}
      <3>1. PICK h \in Consider(t, listed[t].route, load, out) :
              /\ out' = [u \in DOMAIN out \cup {t} |-> IF u = t THEN h ELSE out[u]]
              /\ load' = Claim(load, h)
        BY <2>1, <2>3 DEF Decide
      <3>2. /\ h \in DOMAIN load /\ load[h] < Total[h] /\ Fits(t, h)
            /\ DependenciesDone(t)
            /\ ProjectAvailable(ProjectOf[t], out)
            /\ RouteAvailable(listed[t].route, out)
        BY <3>1, ConsiderChecks
      <3>3. h \in Hosts
        BY <3>2 DEF Shape
      <3>4. Assigns(t, h)
        BY <3>1, <3>2 DEF Assigns, Claim
      <3> QED BY <1>1, <1>2, <3>3, <3>4
    <2> QED BY <2>2, <2>3
  <1> QED BY <1>3, <1>4

\* An assignment adds its ticket to what the tick holds.
LEMMA AssignsAdds ==
  ASSUME Shape, NEW t \in Tickets, NEW h \in Hosts, Assigns(t, h)
  PROVE  /\ DOMAIN out' = DOMAIN out \cup {t} /\ DOMAIN load' = DOMAIN load
         /\ out' \in [DOMAIN out' -> DOMAIN load'] /\ load' \in [DOMAIN load' -> Int]
         /\ out'[t] = h /\ \A u \in DOMAIN out \ {t} : out'[u] = out[u]
         /\ load'[h] = load[h] + 1 /\ \A g \in DOMAIN load \ {h} : load'[g] = load[g]
  <1>1. /\ out \in [DOMAIN out -> DOMAIN load] /\ load \in [DOMAIN load -> Int]
        /\ h \in DOMAIN load
    BY DEF Shape, Assigns
  <1>2. out' = [u \in DOMAIN out \cup {t} |-> IF u = t THEN h ELSE out[u]]
    BY DEF Assigns
  <1>3. load' = [load EXCEPT ![h] = @ + 1]
    BY DEF Assigns
  <1>4. DOMAIN load' = DOMAIN load /\ load' \in [DOMAIN load -> Int]
    BY <1>1, <1>3
  <1>5. load'[h] = load[h] + 1 /\ \A g \in DOMAIN load \ {h} : load'[g] = load[g]
    BY <1>1, <1>3
  <1>6. DOMAIN out' = DOMAIN out \cup {t} /\ out' \in [DOMAIN out \cup {t} -> DOMAIN load]
    BY <1>1, <1>2
  <1>7. out'[t] = h /\ \A u \in DOMAIN out \ {t} : out'[u] = out[u]
    BY <1>2
  <1> QED BY <1>4, <1>5, <1>6, <1>7

\* The turn of a ticket keeps the variables in shape.
LEMMA ConsiderNextShape ==
  ASSUME Shape, NEW t \in Tickets, ConsiderNext(t)
  PROVE  Shape'
  <1>1. /\ UNCHANGED <<state, route, used, pc, host, ticking>>
        /\ ticking /\ queue' \subseteq Tickets
    BY ConsiderNextStep DEF Shape
  <1>2. CASE UNCHANGED <<load, out>>
    BY <1>1, <1>2 DEF Shape
  <1>3. ASSUME NEW h \in Hosts, Assigns(t, h)
        PROVE  Shape'
    <2>1. /\ DOMAIN out' = DOMAIN out \cup {t} /\ DOMAIN load' = DOMAIN load
          /\ out' \in [DOMAIN out' -> DOMAIN load'] /\ load' \in [DOMAIN load' -> Int]
      BY <1>3, AssignsAdds
    <2> QED BY <1>1, <2>1 DEF Shape
  <1> QED BY <1>2, <1>3, ConsiderNextStep

\* Init puts the variables in shape, with nothing in flight or spoken for.
LEMMA InitShape ==
  ASSUME Init
  PROVE  /\ Shape
         /\ \A t \in Tickets : state[t] = "ready" /\ pc[t] = "idle" /\ ~Spoken(t)
         /\ DOMAIN out = {} /\ DOMAIN load = {} /\ queue = {} /\ ~ticking /\ DOMAIN listed = {}
         /\ route = FirstRoute
  <1>1. /\ state = [t \in Tickets |-> "ready"] /\ route = FirstRoute
        /\ used = [h \in Hosts |-> 0] /\ pc = [t \in Tickets |-> "idle"]
        /\ host = [t \in Tickets |-> Nowhere] /\ ticking = FALSE
        /\ listed = Nothing /\ queue = {} /\ load = Nothing /\ out = Nothing
    BY DEF Init
  <1>2. /\ DOMAIN out = {} /\ DOMAIN load = {} /\ DOMAIN listed = {}
        /\ out \in [DOMAIN out -> DOMAIN load] /\ load \in [DOMAIN load -> Int]
    BY <1>1 DEF Nothing
  <1>3. /\ state \in [Tickets -> States] /\ used \in [Hosts -> Int]
        /\ pc \in [Tickets -> {"idle", "claim", "assign", "run"}]
        /\ host \in [Tickets -> Hosts \cup {Nowhere}]
    BY <1>1 DEF States
  <1>4. Shape
    BY <1>1, <1>2, <1>3, RouteAssumption DEF Shape
  <1>5. \A t \in Tickets : state[t] = "ready" /\ pc[t] = "idle" /\ ~Spoken(t)
    BY <1>1, <1>2 DEF Spoken, Pending
  <1> QED BY <1>1, <1>2, <1>4, <1>5

\* Every step keeps the variables in shape, and settles unless a ticket has its
\* turn.
LEMMA StepShape ==
  ASSUME Shape, [Next]_vars
  PROVE  Shape' /\ (Settles \/ \E t \in Tickets : ConsiderNext(t))
  <1>1. CASE UNCHANGED vars
    <2>1. Shape'
      BY <1>1 DEF Shape, vars, ticketVars, runVars, tickVars
    <2>2. UNCHANGED state /\ \A t \in Tickets : Spoken(t)' => Spoken(t)
      BY <1>1 DEF vars, ticketVars, runVars, tickVars, Spoken, Pending
    <2> QED BY <2>1, <2>2, StillSettles
  <1>2. CASE Tick
    BY <1>2, TickSettles
  <1>3. CASE StartAll
    BY <1>3, StartAllSettles
  <1>4. CASE Outside
    BY <1>4, OutsideSettles
  <1>5. ASSUME NEW t \in Tickets, RunStep(t)
        PROVE  Settles /\ Shape'
    BY <1>5, RunStepSettles
  <1>6. ASSUME NEW t \in Tickets, ConsiderNext(t)
        PROVE  Shape'
    BY <1>6, ConsiderNextShape
  <1> QED BY <1>1, <1>2, <1>3, <1>4, <1>5, <1>6, NextCases

(***************************************************************************)
(* What a ticket builds on.                                                 *)
(***************************************************************************)

\* A step keeps the dependencies of what is in flight landed.
LEMMA LandedInductive ==
  ASSUME Shape, LandedInv, [Next]_vars
  PROVE  LandedInv'
  <1>1. CASE Settles
    <2> SUFFICES ASSUME NEW t \in Tickets, IsActive(state'[t]) \/ Spoken(t)'
                 PROVE  \A d \in Deps[t] : state'[d] = "done"
      BY DEF LandedInv, DependenciesDone
    <2>1. IsActive(state[t]) \/ Spoken(t)
      BY <1>1 DEF Settles
    <2>2. \A d \in Deps[t] : state[d] = "done"
      BY <2>1 DEF LandedInv, DependenciesDone
    <2>3. Deps[t] \subseteq Tickets
      BY DepsAssumption
    <2> QED BY <1>1, <2>2, <2>3 DEF Settles
  <1>2. ASSUME NEW t \in Tickets, ConsiderNext(t)
        PROVE  LandedInv'
    <2>1. UNCHANGED <<state, pc>>
      BY <1>2, ConsiderNextStep
    <2>2. CASE UNCHANGED <<load, out>>
      BY <2>1, <2>2 DEF LandedInv, DependenciesDone, Spoken, Pending
    <2>3. ASSUME NEW h \in Hosts, Assigns(t, h)
          PROVE  LandedInv'
      <3>1. DOMAIN out' = DOMAIN out \cup {t} /\ DependenciesDone(t)
        BY <2>3, AssignsAdds DEF Assigns
      <3> QED BY <2>1, <3>1 DEF LandedInv, DependenciesDone, Spoken, Pending
    <2> QED BY <1>2, <2>2, <2>3, ConsiderNextStep
  <1> QED BY <1>1, <1>2, StepShape

\* Work never starts before what it depends on has landed, whatever the tick
\* reads late and whoever moves the tickets meanwhile: a ticket once Done stays
\* Done, so what consider checked still holds when the run begins
\* (scheduler.blockingDependency).
THEOREM StartsOnLandedWork == Spec => []BuildsOnLanded
  <1>1. Init => Shape /\ LandedInv
    BY InitShape DEF LandedInv, IsActive
  <1>2. Shape /\ LandedInv /\ [Next]_vars => Shape' /\ LandedInv'
    BY StepShape, LandedInductive
  <1>3. LandedInv => BuildsOnLanded
    BY DEF LandedInv, BuildsOnLanded, DependenciesDone
  <1> QED BY <1>1, <1>2, <1>3, PTL DEF Spec

(***************************************************************************)
(* The machine a run is on.                                                 *)
(***************************************************************************)

\* Every step keeps runs, and what the tick has assigned, on machines that fit.
LEMMA MachineInductive ==
  ASSUME Shape, MachineInv, [Next]_vars
  PROVE  MachineInv'
  <1> USE DEF ticketVars, worldVars, runVars, tickVars
  <1>1. CASE UNCHANGED <<pc, host, out>>
    BY <1>1 DEF MachineInv, Fits
  <1>2. CASE Tick
    <2>1. UNCHANGED <<pc, host>> /\ DOMAIN out' = {}
      BY <1>2, TickSettles DEF Tick
    <2> QED BY <2>1 DEF MachineInv, Fits
  <1>3. CASE StartAll
    BY <1>3, StartAllSettles DEF MachineInv, Fits
  <1>4. ASSUME NEW t \in Tickets, RunStep(t)
        PROVE  MachineInv'
    <2>1. CASE Work(t)
      BY <2>1, <1>1 DEF Work
    <2>2. CASE TryClaim(t) \/ Assign(t) \/ Return(t)
      <3>1. /\ UNCHANGED out /\ pc[t] # "idle"
            /\ \A u \in Tickets \ {t} : pc'[u] = pc[u] /\ host'[u] = host[u]
            /\ host'[t] = host[t] \/ pc'[t] = "idle"
        BY <2>2 DEF TryClaim, Assign, Return, Release, goto, Shape
      <3> QED BY <3>1 DEF MachineInv, Fits
    <2> QED BY <1>4, <2>1, <2>2 DEF RunStep
  <1>5. ASSUME NEW t \in Tickets, ConsiderNext(t)
        PROVE  MachineInv'
    <2>1. UNCHANGED <<pc, host>>
      BY <1>5, ConsiderNextStep
    <2>2. ASSUME NEW h \in Hosts, Assigns(t, h)
          PROVE  MachineInv'
      <3>1. /\ DOMAIN out' = DOMAIN out \cup {t} /\ Fits(t, h)
            /\ out'[t] = h /\ \A u \in DOMAIN out \ {t} : out'[u] = out[u]
        BY <2>2, AssignsAdds DEF Assigns
      <3> QED BY <2>1, <3>1 DEF MachineInv, Fits
    <2> QED BY <1>5, <1>1, <2>1, <2>2, ConsiderNextStep
  <1>6. CASE Outside
    BY <1>1, <1>6, OutsideSettles
  <1>7. CASE UNCHANGED vars
    BY <1>1, <1>7 DEF vars
  <1> QED BY <1>2, <1>3, <1>4, <1>5, <1>6, <1>7, NextCases

(***************************************************************************)
(* The limits of projects and routes.                                       *)
(***************************************************************************)

\* With prompt starts, no start is on its way while a tick decides.
LEMMA PromptInductive ==
  ASSUME Prompt, Shape, PromptInv, [Next]_vars
  PROVE  PromptInv'
  <1> USE DEF ticketVars, worldVars, runVars, tickVars
  <1>1. CASE UNCHANGED <<pc, ticking>>
    BY <1>1 DEF PromptInv, Pending
  <1>2. CASE Tick
    BY <1>2 DEF Tick, PromptInv, Pending
  <1>3. CASE StartAll
    BY <1>3, StartAllSettles DEF PromptInv
  <1>4. ASSUME NEW t \in Tickets, RunStep(t)
        PROVE  PromptInv'
    <2>1. CASE TryClaim(t) \/ Assign(t)
      <3>1. ~ticking /\ UNCHANGED ticking
        BY <2>1 DEF TryClaim, Assign, PromptInv, Pending
      <3> QED BY <3>1 DEF PromptInv
    <2>2. CASE Return(t)
      <3>1. UNCHANGED ticking /\ \A u \in Tickets : Pending(u)' => Pending(u)
        BY <2>2 DEF Return, Release, goto, Pending, Shape
      <3> QED BY <3>1 DEF PromptInv
    <2>3. CASE Work(t)
      BY <2>3, <1>1 DEF Work
    <2> QED BY <1>4, <2>1, <2>2, <2>3 DEF RunStep
  <1>5. ASSUME NEW t \in Tickets, ConsiderNext(t)
        PROVE  PromptInv'
    BY <1>1, <1>5, ConsiderNextStep
  <1>6. CASE Outside
    BY <1>1, <1>6, OutsideSettles
  <1>7. CASE UNCHANGED vars
    BY <1>1, <1>7 DEF vars
  <1> QED BY <1>2, <1>3, <1>4, <1>5, <1>6, <1>7, NextCases

\* A serial project has nothing in flight and nothing spoken for when the tick
\* assigns one of its tickets.
LEMMA SerialInductive ==
  ASSUME Shape, PromptInv, SerialInv, [Next]_vars
  PROVE  SerialInv'
  <1>1. CASE Settles
    <2> SUFFICES ASSUME NEW p \in Serial
                 PROVE  Cardinality(Holding(p)') <= 1
      BY DEF SerialInv
    <2>1. Holding(p)' \subseteq Holding(p) /\ Holding(p) \subseteq Tickets
      BY <1>1 DEF Settles, Holding
    <2>2. Cardinality(Holding(p)') <= Cardinality(Holding(p))
      BY <2>1, FewerCount
    <2>3. Cardinality(Holding(p)') \in Nat /\ Cardinality(Holding(p)) \in Nat
      BY <2>1, TicketsCount
    <2> QED BY <2>2, <2>3 DEF SerialInv
  <1>2. ASSUME NEW t \in Tickets, ConsiderNext(t)
        PROVE  SerialInv'
    <2>1. UNCHANGED <<state, pc>> /\ ticking
      BY <1>2, ConsiderNextStep
    <2>2. CASE UNCHANGED <<load, out>>
      BY <2>1, <2>2 DEF SerialInv, Holding, Spoken, Pending
    <2>3. ASSUME NEW h \in Hosts, Assigns(t, h)
          PROVE  SerialInv'
      <3> SUFFICES ASSUME NEW p \in Serial
                   PROVE  Cardinality(Holding(p)') <= 1
        BY DEF SerialInv
      <3>1. DOMAIN out' = DOMAIN out \cup {t} /\ ProjectAvailable(ProjectOf[t], out)
        BY <2>3, AssignsAdds DEF Assigns
      <3>2. CASE ProjectOf[t] # p
        <4>1. Holding(p)' = Holding(p)
          BY <2>1, <3>1, <3>2 DEF Holding, Spoken, Pending
        <4> QED BY <4>1 DEF SerialInv
      <3>3. CASE ProjectOf[t] = p
        <4> DEFINE Active == {u \in Tickets : ProjectOf[u] = p /\ IsActive(state[u])}
                   Claimed == {u \in DOMAIN out : ProjectOf[u] = p}
        <4>1. Cardinality(Active) = 0 /\ Cardinality(Claimed) = 0
          BY <3>1, <3>3 DEF ProjectAvailable, ActiveIn, ClaimedIn
        <4>2. Active \in SUBSET Tickets /\ Claimed \in SUBSET Tickets
          BY DEF Shape
        <4>3. Holding(p)' = {t}
          <5>1. Active = {} /\ Claimed = {}
            BY <4>1, <4>2, TicketsCount, FS_EmptySet
          <5>2. \A u \in Tickets : ~Pending(u)
            BY <2>1 DEF PromptInv
          <5>3. \A u \in Tickets : u \in Holding(p)' <=> u = t
            BY <2>1, <3>1, <3>3, <5>1, <5>2 DEF Holding, Spoken, Pending
          <5> QED BY <5>3 DEF Holding
        <4> QED BY <4>3, FS_Singleton
      <3> QED BY <3>2, <3>3
    <2> QED BY <1>2, <2>2, <2>3, ConsiderNextStep
  <1> QED BY <1>1, <1>2, StepShape

\* A parallel project has room for one more when the tick assigns one of its
\* tickets.
LEMMA ParallelInductive ==
  ASSUME Shape, PromptInv, ParallelInv, [Next]_vars
  PROVE  ParallelInv'
  <1>0. \A p \in Projects : Larger(1, MaxConcurrency[p]) \in Int
    BY LimitsAssumption DEF Larger
  <1>1. CASE Settles
    <2> SUFFICES ASSUME NEW p \in Projects \ Serial
                 PROVE  Cardinality(Busy(p)') <= Larger(1, MaxConcurrency[p])
      BY DEF ParallelInv
    <2>1. Busy(p)' \subseteq Busy(p) /\ Busy(p) \subseteq Tickets
      BY <1>1 DEF Settles, Busy
    <2>2. Cardinality(Busy(p)') <= Cardinality(Busy(p))
      BY <2>1, FewerCount
    <2>3. Cardinality(Busy(p)') \in Nat /\ Cardinality(Busy(p)) \in Nat
      BY <2>1, TicketsCount
    <2> QED BY <1>0, <2>2, <2>3 DEF ParallelInv
  <1>2. ASSUME NEW t \in Tickets, ConsiderNext(t)
        PROVE  ParallelInv'
    <2>1. UNCHANGED <<state, pc>> /\ ticking
      BY <1>2, ConsiderNextStep
    <2>2. CASE UNCHANGED <<load, out>>
      BY <2>1, <2>2 DEF ParallelInv, Busy, Spoken, Pending
    <2>3. ASSUME NEW h \in Hosts, Assigns(t, h)
          PROVE  ParallelInv'
      <3> SUFFICES ASSUME NEW p \in Projects \ Serial
                   PROVE  Cardinality(Busy(p)') <= Larger(1, MaxConcurrency[p])
        BY DEF ParallelInv
      <3>1. DOMAIN out' = DOMAIN out \cup {t} /\ ProjectAvailable(ProjectOf[t], out)
        BY <2>3, AssignsAdds DEF Assigns
      <3>2. CASE ProjectOf[t] # p
        <4>1. Busy(p)' = Busy(p)
          BY <2>1, <3>1, <3>2 DEF Busy, Spoken, Pending
        <4> QED BY <4>1 DEF ParallelInv
      <3>3. CASE ProjectOf[t] = p
        <4> DEFINE Running == {u \in Tickets : ProjectOf[u] = p /\ Executing(state[u])}
                   Claimed == {u \in DOMAIN out : ProjectOf[u] = p}
        <4>1. Cardinality(Running) + Cardinality(Claimed) < Larger(1, MaxConcurrency[p])
          BY <3>1, <3>3 DEF ProjectAvailable, RunningIn, ClaimedIn
        <4>2. Running \in SUBSET Tickets /\ Claimed \in SUBSET Tickets
          BY DEF Shape
        <4>3. \A u \in Tickets : ~Pending(u)
          BY <2>1 DEF PromptInv
        <4>4. Busy(p)' = Busy(p) \cup {t}
          BY <2>1, <3>1, <3>3 DEF Busy, Spoken, Pending
        <4>5. Busy(p) \in SUBSET (Running \cup Claimed)
          BY <4>3 DEF Busy, Spoken
        <4>6. Larger(1, MaxConcurrency[p]) \in Int
          BY <1>0
        <4> HIDE DEF Running, Claimed
        <4>7. Cardinality(Busy(p) \cup {t}) <= Larger(1, MaxConcurrency[p])
          BY <4>1, <4>2, <4>5, <4>6, RoomForOne
        <4> QED BY <4>4, <4>7
      <3> QED BY <3>2, <3>3
    <2> QED BY <1>2, <2>2, <2>3, ConsiderNextStep
  <1> QED BY <1>1, <1>2, StepShape

\* Unless routes are edited, the tick's list holds the route the ticket has.
LEMMA ListedInductive ==
  ASSUME "route" \notin Edits, Shape, ListedInv, [Next]_vars
  PROVE  ListedInv' /\ UNCHANGED route
  <1> USE DEF ticketVars, worldVars, runVars, tickVars
  <1>1. CASE UNCHANGED <<route, listed, queue, out>>
    BY <1>1 DEF ListedInv
  <1>2. CASE Tick
    <2>1. UNCHANGED route /\ listed' = [t \in queue' |-> [rank |-> rank[t], route |-> route[t]]]
      BY <1>2 DEF Tick
    <2>2. DOMAIN listed' = queue' /\ \A t \in queue' : listed'[t].route = route'[t]
      BY <2>1
    <2>3. DOMAIN out' = {}
      BY <1>2, TickSettles
    <2> QED BY <2>1, <2>2, <2>3 DEF ListedInv
  <1>3. CASE StartAll
    <2>1. DOMAIN listed' = {} /\ queue' = {} /\ DOMAIN out' = {} /\ UNCHANGED route
      BY <1>3, StartAllSettles DEF StartAll, Nothing
    <2> QED BY <2>1 DEF ListedInv
  <1>4. ASSUME NEW t \in Tickets, RunStep(t)
        PROVE  UNCHANGED <<route, listed, queue, out>>
    BY <1>4 DEF RunStep, TryClaim, Assign, Work, Return
  <1>5. ASSUME NEW t \in Tickets, ConsiderNext(t)
        PROVE  ListedInv' /\ UNCHANGED route
    <2>1. UNCHANGED <<route, listed>> /\ t \in queue /\ queue' = queue \ {t}
      BY <1>5, ConsiderNextStep
    <2>2. DOMAIN out' \subseteq DOMAIN out \cup {t}
      BY <1>5, ConsiderNextStep, AssignsAdds
    <2> QED BY <2>1, <2>2 DEF ListedInv
  <1>6. CASE Outside
    BY <1>1, <1>6, OutsideSettles
  <1>7. CASE UNCHANGED vars
    BY <1>1, <1>7 DEF vars
  <1> QED BY <1>1, <1>2, <1>3, <1>4, <1>5, <1>6, <1>7, NextCases

\* A capped route has room for one more when the tick assigns one of its tickets.
LEMMA RouteInductive ==
  ASSUME "route" \notin Edits, Shape, PromptInv, ListedInv, RouteInv, [Next]_vars
  PROVE  RouteInv'
  <1>0. UNCHANGED route
    BY ListedInductive
  <1>1. CASE Settles
    <2> SUFFICES ASSUME NEW r \in Routes, Cap[r] > 0
                 PROVE  Cardinality(Crowding(r)') <= Cap[r]
      BY DEF RouteInv
    <2>1. Crowding(r)' \subseteq Crowding(r) /\ Crowding(r) \subseteq Tickets
      BY <1>0, <1>1 DEF Settles, Crowding
    <2>2. Cardinality(Crowding(r)') <= Cardinality(Crowding(r))
      BY <2>1, FewerCount
    <2>3. Cardinality(Crowding(r)') \in Nat /\ Cardinality(Crowding(r)) \in Nat
      BY <2>1, TicketsCount
    <2>4. Cap[r] \in Int
      BY LimitsAssumption
    <2> QED BY <2>2, <2>3, <2>4 DEF RouteInv
  <1>2. ASSUME NEW t \in Tickets, ConsiderNext(t)
        PROVE  RouteInv'
    <2>1. UNCHANGED <<state, pc>> /\ ticking /\ t \in queue
      BY <1>2, ConsiderNextStep
    <2>2. CASE UNCHANGED <<load, out>>
      BY <1>0, <2>1, <2>2 DEF RouteInv, Crowding, Spoken, Pending
    <2>3. ASSUME NEW h \in Hosts, Assigns(t, h)
          PROVE  RouteInv'
      <3> SUFFICES ASSUME NEW r \in Routes, Cap[r] > 0
                   PROVE  Cardinality(Crowding(r)') <= Cap[r]
        BY DEF RouteInv
      <3>1. DOMAIN out' = DOMAIN out \cup {t} /\ RouteAvailable(route[t], out)
        BY <2>1, <2>3, AssignsAdds DEF Assigns, ListedInv
      <3>2. CASE route[t] # r
        <4>1. Crowding(r)' = Crowding(r)
          BY <1>0, <2>1, <3>1, <3>2 DEF Crowding, Spoken, Pending
        <4> QED BY <4>1 DEF RouteInv
      <3>3. CASE route[t] = r
        <4> DEFINE Active == {u \in Tickets : route[u] = r /\ IsActive(state[u])}
                   Claimed == {u \in DOMAIN out : listed[u].route = r}
        <4>1. Cap[r] \in Int
          BY LimitsAssumption
        <4>2. Cardinality(Active) + Cardinality(Claimed) < Cap[r]
          BY <3>1, <3>3, <4>1 DEF RouteAvailable, ActiveOn, ClaimedOn
        <4>3. Active \in SUBSET Tickets /\ Claimed \in SUBSET Tickets
          BY DEF Shape
        <4>4. \A u \in Tickets : ~Pending(u)
          BY <2>1 DEF PromptInv
        <4>5. Crowding(r)' = Crowding(r) \cup {t}
          BY <1>0, <2>1, <3>1, <3>3 DEF Crowding, Spoken, Pending
        <4>6. Crowding(r) \in SUBSET (Active \cup Claimed)
          BY <4>4 DEF Crowding, Spoken, ListedInv
        <4> HIDE DEF Active, Claimed
        <4>7. Cardinality(Crowding(r) \cup {t}) <= Cap[r]
          BY <4>1, <4>2, <4>3, <4>6, RoomForOne
        <4> QED BY <4>5, <4>7
      <3> QED BY <3>2, <3>3
    <2> QED BY <1>2, <2>2, <2>3, ConsiderNextStep
  <1> QED BY <1>1, <1>2, StepShape

\* Counting those spoken for as well only makes the limits stronger.
LEMMA LimitsCounted ==
  ASSUME Shape
  PROVE  /\ SerialInv => SerialExclusive
         /\ ParallelInv => ParallelLimit
         /\ RouteInv => RouteLimit
  <1>1. ASSUME SerialInv, NEW p \in Serial
        PROVE  ActiveIn(p) <= 1
    <2> DEFINE Active == {t \in Tickets : ProjectOf[t] = p /\ IsActive(state[t])}
    <2>1. Active \subseteq Holding(p) /\ Holding(p) \subseteq Tickets
      BY DEF Holding
    <2>2. /\ Cardinality(Active) <= Cardinality(Holding(p))
          /\ Cardinality(Active) \in Nat /\ Cardinality(Holding(p)) \in Nat
      BY <2>1, FewerCount, TicketsCount
    <2>3. Cardinality(Holding(p)) <= 1
      BY <1>1 DEF SerialInv
    <2> QED BY <2>2, <2>3 DEF ActiveIn
  <1>2. ASSUME ParallelInv, NEW p \in Projects \ Serial
        PROVE  RunningIn(p) <= Larger(1, MaxConcurrency[p])
    <2> DEFINE Running == {t \in Tickets : ProjectOf[t] = p /\ Executing(state[t])}
    <2>1. Running \subseteq Busy(p) /\ Busy(p) \subseteq Tickets
      BY DEF Busy
    <2>2. /\ Cardinality(Running) <= Cardinality(Busy(p))
          /\ Cardinality(Running) \in Nat /\ Cardinality(Busy(p)) \in Nat
      BY <2>1, FewerCount, TicketsCount
    <2>3. Cardinality(Busy(p)) <= Larger(1, MaxConcurrency[p])
      BY <1>2 DEF ParallelInv
    <2>4. Larger(1, MaxConcurrency[p]) \in Int
      BY LimitsAssumption DEF Larger
    <2> QED BY <2>2, <2>3, <2>4 DEF RunningIn
  <1>3. ASSUME RouteInv, NEW r \in Routes, Cap[r] > 0
        PROVE  ActiveOn(r) <= Cap[r]
    <2> DEFINE Active == {t \in Tickets : route[t] = r /\ IsActive(state[t])}
    <2>1. Active \subseteq Crowding(r) /\ Crowding(r) \subseteq Tickets
      BY DEF Crowding
    <2>2. /\ Cardinality(Active) <= Cardinality(Crowding(r))
          /\ Cardinality(Active) \in Nat /\ Cardinality(Crowding(r)) \in Nat
      BY <2>1, FewerCount, TicketsCount
    <2>3. Cardinality(Crowding(r)) <= Cap[r] /\ Cap[r] \in Int
      BY <1>3, LimitsAssumption DEF RouteInv
    <2> QED BY <2>2, <2>3 DEF ActiveOn
  <1> QED BY <1>1, <1>2, <1>3 DEF SerialExclusive, ParallelLimit, RouteLimit

\* Nothing in flight is within every limit.
LEMMA InitWithin ==
  ASSUME Init
  PROVE  PromptInv /\ SerialInv /\ ParallelInv /\ ListedInv /\ RouteInv
  <1>1. /\ \A t \in Tickets : state[t] = "ready" /\ pc[t] = "idle" /\ ~Spoken(t)
        /\ queue = {} /\ DOMAIN out = {} /\ DOMAIN listed = {}
    BY InitShape
  <1>2. /\ \A p : Holding(p) = {} /\ Busy(p) = {}
        /\ \A r : Crowding(r) = {}
    BY <1>1 DEF Holding, Busy, Crowding, IsActive, Executing
  <1>3. Cardinality({}) = 0
    BY FS_EmptySet
  <1>4. SerialInv
    BY <1>2, <1>3 DEF SerialInv
  <1>5. ParallelInv
    BY <1>2, <1>3, LimitsAssumption DEF ParallelInv, Larger
  <1>6. RouteInv
    BY <1>2, <1>3, LimitsAssumption DEF RouteInv
  <1> QED BY <1>1, <1>4, <1>5, <1>6 DEF PromptInv, Pending, ListedInv

\* The caps of routes are kept in force where nobody reroutes a ticket: an edit
\* can move a ticket in flight onto a route that is full.
RoutesHold == "route" \notin Edits \/ \A r \in Routes : Cap[r] <= 0

\* However the store moves while a tick decides, no project and no route ever has
\* more in flight than it may: a serial project one ticket, a parallel one as many
\* agents as its max_concurrency, a capped route as many tickets as its cap
\* (projectAvailable, routeAvailable and the claims of scheduler.consider).
THEOREM LimitsHold ==
  ASSUME Prompt, RoutesHold
  PROVE  Spec => []WithinLimits
  <1>1. Init => Shape /\ PromptInv /\ SerialInv /\ ParallelInv /\ ListedInv /\ RouteInv
    BY InitShape, InitWithin
  <1>2. Shape /\ PromptInv /\ SerialInv /\ ParallelInv /\ [Next]_vars
          => Shape' /\ PromptInv' /\ SerialInv' /\ ParallelInv'
    BY StepShape, PromptInductive, SerialInductive, ParallelInductive
  <1>3. Shape /\ SerialInv /\ ParallelInv => SerialExclusive /\ ParallelLimit
    BY LimitsCounted
  <1>4. CASE "route" \notin Edits
    <2>1. Shape /\ PromptInv /\ ListedInv /\ RouteInv /\ [Next]_vars
            => ListedInv' /\ RouteInv'
      BY <1>4, ListedInductive, RouteInductive
    <2>2. Shape /\ RouteInv => RouteLimit
      BY LimitsCounted
    <2> QED BY <1>1, <1>2, <1>3, <2>1, <2>2, PTL DEF Spec, WithinLimits
  <1>5. CASE \A r \in Routes : Cap[r] <= 0
    <2>1. RouteLimit
      <3>1. \A r \in Routes : Cap[r] \in Int
        BY LimitsAssumption
      <3> QED BY <1>5, <3>1 DEF RouteLimit
    <2> QED BY <1>1, <1>2, <1>3, <2>1, PTL DEF Spec, WithinLimits
  <1> QED BY <1>4, <1>5 DEF RoutesHold

(***************************************************************************)
(* The worker slots.                                                        *)
(***************************************************************************)

\* Every count of the slots' invariant is a whole number.
LEMMA SlotNumbers ==
  ASSUME Shape, NEW h \in Hosts
  PROVE  /\ used[h] \in Int /\ Total[h] \in Int
         /\ IsFiniteSet(Bound(h)) /\ Cardinality(Bound(h)) \in Nat
         /\ IsFiniteSet(Placed(h)) /\ Cardinality(Placed(h)) \in Nat
         /\ h \in DOMAIN load => load[h] \in Int
  <1>1. Bound(h) \in SUBSET Tickets /\ Placed(h) \in SUBSET Tickets
    BY DEF Bound, Placed, Shape
  <1>2. used[h] \in Int /\ Total[h] \in Int /\ (h \in DOMAIN load => load[h] \in Int)
    BY LimitsAssumption DEF Shape
  <1> QED BY <1>1, <1>2, TicketsCount

\* The two halves of the slots' invariant, host by host.
StartsFit(h) == used[h] + Cardinality(Bound(h)) <= Total[h]
TickFits(h)  == h \in DOMAIN load =>
                  /\ used[h] + Cardinality(Placed(h)) <= load[h]
                  /\ load[h] <= Total[h]

\* The slots' invariant is its halves at every host.
LEMMA SlotsByHost ==
  ASSUME Shape
  PROVE  SlotsInv <=> \A h \in Hosts : StartsFit(h) /\ TickFits(h)
  <1>1. DOMAIN load \subseteq Hosts
    BY DEF Shape
  <1> QED BY <1>1 DEF SlotsInv, PlacementFits, StartsFit, TickFits, Bound

\* A step of a start or a run outside a tick moves a slot between what is promised
\* and what is used: the sum does not grow.
LEMMA RunStepFits ==
  ASSUME Shape, Shape', PromptInv, NEW t \in Tickets, RunStep(t), NEW h \in Hosts,
         StartsFit(h), TickFits(h)
  PROVE  StartsFit(h)' /\ TickFits(h)'
  <1> USE DEF ticketVars, worldVars, runVars, tickVars
  <1>1. UNCHANGED <<load, out, ticking>>
    BY DEF RunStep, TryClaim, Assign, Work, Return
  <1>2. /\ used[h] \in Int /\ used'[h] \in Int /\ Total[h] \in Int
        /\ Cardinality(Bound(h)) \in Nat /\ Cardinality(Bound(h)') \in Nat
        /\ Cardinality(Placed(h)) \in Nat /\ (h \in DOMAIN load => load[h] \in Int)
    <2>1. /\ used[h] \in Int /\ Total[h] \in Int
          /\ Cardinality(Bound(h)) \in Nat
          /\ Cardinality(Placed(h)) \in Nat /\ (h \in DOMAIN load => load[h] \in Int)
      BY SlotNumbers
    <2>2. used'[h] \in Int
      BY DEF Shape
    <2>3. Bound(h)' \in SUBSET Tickets
      BY DEF Bound
    <2> QED BY <2>1, <2>2, <2>3, TicketsCount
  <1>3. Placed(h)' = Placed(h)
    BY <1>1 DEF Placed
  <1>4. CASE used'[h] <= used[h] /\ Bound(h)' \subseteq Bound(h)
    <2>1. Cardinality(Bound(h)') <= Cardinality(Bound(h))
      <3>1. Bound(h) \in SUBSET Tickets
        BY DEF Bound
      <3> QED BY <1>4, <3>1, FewerCount
    <2>2. StartsFit(h)'
      BY <1>2, <1>4, <2>1 DEF StartsFit
    <2>3. TickFits(h)'
      BY <1>1, <1>2, <1>3, <1>4 DEF TickFits
    <2> QED BY <2>2, <2>3
  <1>5. ASSUME Release(t), pc[t] # "claim"
        PROVE  used'[h] <= used[h] /\ Bound(h)' \subseteq Bound(h)
    <2>1. used'[h] <= used[h]
      <3>1. used' = [used EXCEPT ![host[t]] = @ - 1] /\ used \in [Hosts -> Int]
        BY <1>5 DEF Release, Shape
      <3>2. used'[h] = used[h] - 1 \/ used'[h] = used[h]
        BY <3>1
      <3> QED BY <1>2, <3>2
    <2>2. Bound(h)' \subseteq Bound(h)
      BY <1>5 DEF Release, goto, Bound, Shape
    <2> QED BY <2>1, <2>2
  <1>6. CASE TryClaim(t) /\ used' # used
    <2>1. /\ used' = [used EXCEPT ![host[t]] = @ + 1]
          /\ pc[t] = "claim" /\ pc' = [pc EXCEPT ![t] = "assign"] /\ UNCHANGED host
      BY <1>6 DEF TryClaim, goto
    <2>2. ~ticking
      BY <2>1 DEF PromptInv, Pending
    <2>3. DOMAIN load = {}
      BY <2>2 DEF Shape
    <2>4. TickFits(h)'
      BY <1>1, <2>3 DEF TickFits
    <2>5. CASE host[t] = h
      <3>1. used'[h] = used[h] + 1
        BY <2>1, <2>5 DEF Shape
      <3>2. t \in Bound(h) /\ Bound(h)' = Bound(h) \ {t}
        BY <2>1, <2>5 DEF Bound, Shape
      <3>3. Cardinality(Bound(h)') = Cardinality(Bound(h)) - 1
        <4>1. IsFiniteSet(Bound(h))
          BY SlotNumbers
        <4> QED BY <3>2, <4>1, FS_RemoveElement
      <3>4. StartsFit(h)'
        BY <1>2, <3>1, <3>3 DEF StartsFit
      <3> QED BY <2>4, <3>4
    <2>6. CASE host[t] # h
      <3>1. used'[h] = used[h]
        BY <2>1, <2>6 DEF Shape
      <3>2. Bound(h)' = Bound(h)
        BY <2>1, <2>6 DEF Bound, Shape
      <3>3. StartsFit(h)'
        BY <3>1, <3>2 DEF StartsFit
      <3> QED BY <2>4, <3>3
    <2> QED BY <2>5, <2>6
  <1>7. CASE TryClaim(t) /\ used' = used
    <2>1. Bound(h)' \subseteq Bound(h)
      BY <1>7 DEF TryClaim, goto, Bound, Shape
    <2> QED BY <1>2, <1>4, <1>7, <2>1
  <1>8. CASE Assign(t)
    <2>1. CASE Legal(state[t], "assign")
      <3>1. UNCHANGED used /\ Bound(h)' \subseteq Bound(h)
        BY <1>8, <2>1 DEF Assign, goto, Bound, Shape
      <3> QED BY <1>2, <1>4, <3>1
    <2>2. CASE ~Legal(state[t], "assign")
      <3>1. Release(t) /\ pc[t] # "claim"
        BY <1>8, <2>2 DEF Assign
      <3> QED BY <1>4, <1>5, <3>1
    <2> QED BY <2>1, <2>2
  <1>9. CASE Work(t)
    <2>1. UNCHANGED used /\ Bound(h)' = Bound(h)
      BY <1>9 DEF Work, Bound
    <2> QED BY <1>2, <1>4, <2>1
  <1>10. CASE Return(t)
    BY <1>4, <1>5, <1>10 DEF Return
  <1> QED BY <1>6, <1>7, <1>8, <1>9, <1>10 DEF RunStep

\* Every step keeps what is promised of a host within its slots.
LEMMA SlotsInductive ==
  ASSUME Shape, PromptInv, SlotsInv, [Next]_vars
  PROVE  SlotsInv'
  <1> SUFFICES ASSUME NEW h \in Hosts
               PROVE  StartsFit(h)' /\ TickFits(h)'
    <2>1. DOMAIN load' \subseteq Hosts
      BY StepShape DEF Shape
    <2> QED BY <2>1 DEF SlotsInv, PlacementFits, StartsFit, TickFits, Bound
  <1>1. StartsFit(h) /\ TickFits(h)
    BY SlotsByHost
  <1>2. /\ used[h] \in Int /\ Total[h] \in Int
        /\ IsFiniteSet(Bound(h)) /\ Cardinality(Bound(h)) \in Nat
        /\ IsFiniteSet(Placed(h)) /\ Cardinality(Placed(h)) \in Nat
        /\ h \in DOMAIN load => load[h] \in Int
    BY SlotNumbers
  <1>3. CASE UNCHANGED <<used, pc, host, load, out>>
    BY <1>1, <1>3 DEF StartsFit, TickFits, Bound, Placed
  <1>4. CASE Tick
    <2>1. /\ UNCHANGED <<used, pc, host>> /\ DOMAIN out' = {}
          /\ \A g \in DOMAIN load' : load'[g] = used[g]
      BY <1>4, TickSettles DEF Tick, runVars
    <2>2. StartsFit(h)'
      BY <1>1, <2>1 DEF StartsFit, Bound
    <2>3. Placed(h)' = {}
      BY <2>1 DEF Placed
    <2>4. Cardinality(Placed(h)') = 0
      BY <2>3, FS_EmptySet
    <2>5. used[h] <= Total[h]
      BY <1>1, <1>2 DEF StartsFit
    <2>6. TickFits(h)'
      BY <1>2, <2>1, <2>4, <2>5 DEF TickFits
    <2> QED BY <2>2, <2>6
  <1>5. CASE StartAll
    <2>1. /\ UNCHANGED used /\ ticking /\ DOMAIN load' = {}
          /\ \A t \in Tickets : \/ pc'[t] = pc[t] /\ host'[t] = host[t]
                                \/ /\ t \in DOMAIN out /\ pc[t] = "idle"
                                   /\ pc'[t] = "claim" /\ host'[t] = out[t]
      BY <1>5, StartAllSettles
    <2>2. TickFits(h)'
      BY <2>1 DEF TickFits
    <2>3. \A t \in Tickets : pc[t] # "claim"
      BY <2>1 DEF PromptInv, Pending
    <2>4. Bound(h)' \subseteq Placed(h)
      BY <2>1, <2>3 DEF Bound, Placed
    <2>5. Bound(h) = {}
      BY <2>3 DEF Bound
    <2>6. Cardinality(Bound(h)') <= Cardinality(Placed(h)) /\ Cardinality(Bound(h)') \in Nat
      BY <1>2, <2>4, FS_Subset, FS_CardinalityType
    <2>7. CASE h \in DOMAIN load
      BY <1>1, <1>2, <2>1, <2>2, <2>6, <2>7 DEF StartsFit, TickFits
    <2>8. CASE h \notin DOMAIN load
      <3>1. Placed(h) = {}
        BY <2>8 DEF Placed, Shape
      <3>2. Bound(h)' = Bound(h)
        BY <2>4, <2>5, <3>1
      <3> QED BY <1>1, <2>1, <2>2, <3>2 DEF StartsFit
    <2> QED BY <2>7, <2>8
  <1>6. ASSUME NEW t \in Tickets, RunStep(t)
        PROVE  StartsFit(h)' /\ TickFits(h)'
    BY <1>1, <1>6, RunStepFits, RunStepSettles
  <1>7. ASSUME NEW t \in Tickets, ConsiderNext(t)
        PROVE  StartsFit(h)' /\ TickFits(h)'
    <2>1. UNCHANGED <<used, pc, host>>
      BY <1>7, ConsiderNextStep
    <2>2. StartsFit(h)'
      BY <1>1, <2>1 DEF StartsFit, Bound
    <2>3. ASSUME NEW g \in Hosts, Assigns(t, g)
          PROVE  TickFits(h)'
      <3>1. /\ DOMAIN out' = DOMAIN out \cup {t} /\ DOMAIN load' = DOMAIN load
            /\ out'[t] = g /\ \A u \in DOMAIN out \ {t} : out'[u] = out[u]
            /\ load'[g] = load[g] + 1 /\ \A k \in DOMAIN load \ {g} : load'[k] = load[k]
            /\ g \in DOMAIN load /\ load[g] < Total[g]
        BY <2>3, AssignsAdds DEF Assigns
      <3>2. CASE g = h
        <4>1. Placed(h)' \subseteq Placed(h) \cup {t}
          BY <3>1, <3>2 DEF Placed
        <4>2. IsFiniteSet(Placed(h) \cup {t})
              /\ Cardinality(Placed(h) \cup {t})
                   = IF t \in Placed(h) THEN Cardinality(Placed(h)) ELSE Cardinality(Placed(h)) + 1
          BY <1>2, FS_AddElement
        <4>3. Cardinality(Placed(h)') <= Cardinality(Placed(h) \cup {t})
              /\ Cardinality(Placed(h)') \in Nat
          BY <4>1, <4>2, FS_Subset, FS_CardinalityType
        <4>4. Cardinality(Placed(h)') <= Cardinality(Placed(h)) + 1
          BY <1>2, <4>2, <4>3
        <4>5. h \in DOMAIN load /\ load'[h] = load[h] + 1 /\ load[h] < Total[h]
          BY <3>1, <3>2
        <4>6. used[h] + Cardinality(Placed(h)) <= load[h]
          BY <1>1, <4>5 DEF TickFits
        <4>7. /\ used'[h] + Cardinality(Placed(h)') <= load'[h]
              /\ load'[h] <= Total[h]
          BY <1>2, <2>1, <4>3, <4>4, <4>5, <4>6
        <4> QED BY <4>7 DEF TickFits
      <3>3. CASE g # h
        <4>1. Placed(h)' \subseteq Placed(h)
          BY <3>1, <3>3 DEF Placed
        <4>2. Cardinality(Placed(h)') <= Cardinality(Placed(h)) /\ Cardinality(Placed(h)') \in Nat
          BY <1>2, <4>1, FS_Subset, FS_CardinalityType
        <4>3. DOMAIN load' = DOMAIN load /\ (h \in DOMAIN load => load'[h] = load[h])
          BY <3>1, <3>3
        <4> QED BY <1>1, <1>2, <2>1, <4>2, <4>3 DEF TickFits
      <3> QED BY <3>2, <3>3
    <2> QED BY <1>3, <1>7, <2>1, <2>2, <2>3, ConsiderNextStep
  <1>8. CASE Outside
    BY <1>3, <1>8, OutsideSettles
  <1>9. CASE UNCHANGED vars
    BY <1>3, <1>9 DEF vars, runVars, tickVars
  <1> QED BY <1>4, <1>5, <1>6, <1>7, <1>8, <1>9, NextCases

\* What a tick places finds its slot, on its project's machine and on one that can
\* build it, whatever hosts come and go and however many starts share the tick:
\* the snapshot the tick loads is never more generous than the hosts
\* (hostSnapshot, selectHost and host.TryClaim).
THEOREM PlacementsStand ==
  ASSUME Prompt
  PROVE  Spec => []WellPlaced
  <1>1. Init => Shape /\ PromptInv /\ MachineInv /\ SlotsInv
    <2> SUFFICES ASSUME Init PROVE Shape /\ PromptInv /\ MachineInv /\ SlotsInv
      OBVIOUS
    <2>1. /\ Shape /\ PromptInv
          /\ \A t \in Tickets : pc[t] = "idle"
          /\ DOMAIN out = {} /\ DOMAIN load = {}
      BY InitShape, InitWithin
    <2>2. MachineInv
      BY <2>1 DEF MachineInv
    <2>3. \A h \in Hosts : Bound(h) = {} /\ used[h] = 0
      BY <2>1 DEF Init, Bound
    <2>4. SlotsInv
      <3>1. Cardinality({}) = 0 /\ \A h \in Hosts : Total[h] \in Nat
        BY FS_EmptySet, LimitsAssumption
      <3>2. ASSUME NEW h \in Hosts
            PROVE  StartsFit(h) /\ TickFits(h)
        <4>1. Cardinality(Bound(h)) = 0 /\ used[h] = 0 /\ Total[h] \in Nat
          BY <2>3, <3>1
        <4>2. StartsFit(h)
          BY <4>1 DEF StartsFit
        <4> QED BY <2>1, <4>2 DEF TickFits
      <3> QED BY <2>1, <3>2, SlotsByHost
    <2> QED BY <2>1, <2>2, <2>4
  <1>2. Shape /\ PromptInv /\ MachineInv /\ SlotsInv /\ [Next]_vars
          => Shape' /\ PromptInv' /\ MachineInv' /\ SlotsInv'
    BY StepShape, PromptInductive, MachineInductive, SlotsInductive
  <1>3. MachineInv /\ SlotsInv => WellPlaced
    BY DEF MachineInv, SlotsInv, WellPlaced, OnItsMachine, Fits
  <1> QED BY <1>1, <1>2, <1>3, PTL DEF Spec
=============================================================================
