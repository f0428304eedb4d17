------------------------ MODULE Orchestration_proofs ------------------------
(***************************************************************************)
(* Proofs about Orchestration, for any finite set of tickets, any number of *)
(* slots, any budget and any number of crashes and failed writes; that it    *)
(* implements Custody through them (Recovery); and, of a daemon that stays    *)
(* up, that nothing is stranded and the Needs You queue is exact.            *)
(***************************************************************************)
EXTENDS Recovery, FiniteSetTheorems, TLAPS

(***************************************************************************)
(* The edges of the transition table, one event at a time.                  *)
(***************************************************************************)

\* Each event of a run leaves one state and reaches one.
LEMMA RunEdges ==
  ASSUME NEW s, NEW to
  PROVE  /\ Transition(s, "assign", to) => s = "ready" /\ to = "assigned"
         /\ Transition(s, "start", to) => s = "assigned" /\ to = "running"
         /\ Transition(s, "provider_retry", to) => s = "running" /\ to = "ready"
         /\ Transition(s, "agent_finished", to) => s = "running" /\ to = "validating"
         /\ Transition(s, "validation_retry", to) => s = "validating" /\ to = "running"
         /\ Transition(s, "validation_passed", to) => s = "validating" /\ to = "reviewing"
         /\ Transition(s, "reviewed", to) => s = "reviewing" /\ to = "review"
         /\ Transition(s, "validation_exhausted", to) => to = "needs_you"
         /\ Transition(s, "run_failed", to) => to = "needs_you"
  BY DEF Transition, transitions

\* No event a human sends is legal while Gravy has the ticket.
HumanEvents == QueueMoves \cup {"reject", "request_changes", "requeue", "approve",
                                "return_to_review", "landed", "handed_off", "land_failed"}

\* The events of humans, landings and recovery leave no state a run has moved
\* the ticket to, and reach none: the table of core/state.go keeps the two
\* worlds apart.
LEMMA HumanEdges ==
  ASSUME NEW s, NEW to, NEW ev \in HumanEvents, Transition(s, ev, to)
  PROVE  s \notin GravyOwned /\ to \notin GravyOwned
  BY DEF Transition, transitions, HumanEvents, QueueMoves, GravyOwned

(***************************************************************************)
(* Slots: a step that moves at most one goroutine into or out of Working    *)
(* and counts it keeps the pool exact.                                      *)
(***************************************************************************)
Holders == {t \in Tickets : pc[t] \in Working}

\* The goroutines that hold a slot are finitely many, so they can be counted.
LEMMA HoldersFinite == IsFiniteSet(Holders) /\ Cardinality(Holders) \in Nat
  <1>1. IsFiniteSet(Holders)
    BY FS_Subset, TicketsAssumption DEF Holders
  <1> QED BY <1>1, FS_CardinalityType

\* While a goroutine holds a slot the pool's count is at least one.
LEMMA HolderHasSlot ==
  ASSUME SlotsMatch, NEW t \in Tickets, pc[t] \in Working
  PROVE  slots \in Nat /\ slots > 0
  <1>1. t \in Holders
    BY DEF Holders
  <1>2. Cardinality(Holders) # 0
    BY <1>1, HoldersFinite, FS_EmptySet
  <1> QED BY <1>2, HoldersFinite DEF SlotsMatch, Holders

\* A step that starts and ends no run, and leaves the pool alone, keeps the count
\* exact.
LEMMA SlotsKept ==
  ASSUME SlotsMatch, slots' = slots,
         \A t \in Tickets : pc'[t] \in Working <=> pc[t] \in Working
  PROVE  SlotsMatch'
  <1>1. Holders' = Holders
    BY DEF Holders
  <1> QED BY <1>1 DEF SlotsMatch, Holders

\* TryClaim takes one slot for a run that had none: the count stays exact.
LEMMA SlotTaken ==
  ASSUME SlotsMatch, NEW t \in Tickets, slots' = slots + 1,
         pc[t] \notin Working, pc'[t] \in Working,
         \A u \in Tickets \ {t} : pc'[u] = pc[u]
  PROVE  SlotsMatch'
  <1>1. Holders' = Holders \cup {t} /\ t \notin Holders
    BY DEF Holders
  <1>2. Cardinality(Holders') = Cardinality(Holders) + 1
    BY <1>1, HoldersFinite, FS_AddElement
  <1> QED BY <1>2 DEF SlotsMatch, Holders

\* The deferred Release gives one slot back for the run that held it.
LEMMA SlotReturned ==
  ASSUME SlotsMatch, NEW t \in Tickets, slots' = slots - 1,
         pc[t] \in Working, pc'[t] \notin Working,
         \A u \in Tickets \ {t} : pc'[u] = pc[u]
  PROVE  SlotsMatch'
  <1>1. Holders' = Holders \ {t} /\ t \in Holders
    BY DEF Holders
  <1>2. Cardinality(Holders') = Cardinality(Holders) - 1
    BY <1>1, HoldersFinite, FS_RemoveElement
  <1> QED BY <1>2 DEF SlotsMatch, Holders

\* A dead process takes its pool and all its goroutines with it.
LEMMA SlotsDropped ==
  ASSUME slots' = 0, \A t \in Tickets : pc'[t] = "idle"
  PROVE  SlotsMatch'
  <1>1. Holders' = {}
    BY DEF Holders, Working
  <1> QED BY <1>1, FS_EmptySet DEF SlotsMatch, Holders

(***************************************************************************)
(* The inductive invariant, one action at a time.  Local is what an action  *)
(* of one ticket can disturb besides the type and the count of the pool.    *)
(***************************************************************************)
Local == OnlyWriter /\ OnlyServingRuns /\ AttemptsCounted /\ RunRowOpen /\ SavesWhatItRead

\* Every step of a ticket's goroutine keeps the invariant (agentrun.Run and all
\* it calls).
LEMMA GoStepKeeps ==
  ASSUME IInv, NEW t \in Tickets, GoStep(t)
  PROVE  IInv'
  <1> USE BudgetAssumption, SlotsAssumption
  <1> USE DEF IInv, TypeOK, Working, Outcomes, goto, loopVars, dbVars, runVars,
              daemonVars, boundVars, humanVars, historyVars,
              Local, OnlyWriter, OnlyServingRuns, AttemptsCounted, RunRowOpen, SavesWhatItRead,
              InRun, InCheck
  <1>1. CASE Claim(t)
    <2>1. TypeOK'
      BY <1>1 DEF Claim
    <2>2. Local'
      BY <1>1 DEF Claim
    <2>3. SlotsMatch'
      <3>1. CASE slots < Slots
        BY <1>1, <3>1, SlotTaken DEF Claim
      <3>2. CASE ~(slots < Slots)
        BY <1>1, <3>2, SlotsKept DEF Claim
      <3> QED BY <3>1, <3>2
    <2> QED BY <2>1, <2>2, <2>3 DEF IInv, Local
  <1>2. CASE Assign(t)
    <2>1. TypeOK'
      BY <1>2, RunEdges DEF Assign, Move, Advance, SetTicketState, Rest
    <2>2. Local'
      BY <1>2, RunEdges DEF Assign, Move, Advance, SetTicketState, Rest
    <2>3. SlotsMatch'
      BY <1>2, SlotsKept DEF Assign, Move, Advance, SetTicketState, Rest
    <2> QED BY <2>1, <2>2, <2>3 DEF IInv, Local
  <1>3. CASE Prepare(t)
    <2>1. TypeOK'
      BY <1>3 DEF Prepare, Rest
    <2>2. Local'
      BY <1>3 DEF Prepare, Rest
    <2>3. SlotsMatch'
      BY <1>3, SlotsKept DEF Prepare, Rest
    <2> QED BY <2>1, <2>2, <2>3 DEF IInv, Local
  <1>4. CASE CreateRun(t)
    <2>1. TypeOK'
      BY <1>4 DEF CreateRun
    <2>2. Local'
      BY <1>4 DEF CreateRun
    <2>3. SlotsMatch'
      BY <1>4, SlotsKept DEF CreateRun
    <2> QED BY <2>1, <2>2, <2>3 DEF IInv, Local
  <1>5. CASE StartRunning(t)
    <2>1. TypeOK'
      BY <1>5, RunEdges DEF StartRunning, Move, Advance, SetTicketState, Rest
    <2>2. Local'
      BY <1>5, RunEdges DEF StartRunning, Move, Advance, SetTicketState, Rest
    <2>3. SlotsMatch'
      BY <1>5, SlotsKept DEF StartRunning, Move, Advance, SetTicketState, Rest
    <2> QED BY <2>1, <2>2, <2>3 DEF IInv, Local
  <1>6. CASE Launch(t)
    <2>1. TypeOK'
      BY <1>6 DEF Launch, Rest
    <2>2. Local'
      BY <1>6 DEF Launch, Rest
    <2>3. SlotsMatch'
      BY <1>6, SlotsKept DEF Launch, Rest
    <2> QED BY <2>1, <2>2, <2>3 DEF IInv, Local
  <1>7. CASE AgentExit(t)
    <2>1. TypeOK'
      BY <1>7 DEF AgentExit
    <2>2. Local'
      BY <1>7 DEF AgentExit
    <2>3. SlotsMatch'
      BY <1>7, SlotsKept DEF AgentExit
    <2> QED BY <2>1, <2>2, <2>3 DEF IInv, Local
  <1>8. CASE RecordRun(t)
    <2>1. TypeOK'
      BY <1>8 DEF RecordRun
    <2>2. Local'
      BY <1>8 DEF RecordRun
    <2>3. SlotsMatch'
      BY <1>8, SlotsKept DEF RecordRun
    <2> QED BY <2>1, <2>2, <2>3 DEF IInv, Local
  <1>9. CASE ProviderLimit(t)
    <2>1. TypeOK'
      BY <1>9, RunEdges DEF ProviderLimit, Move, Advance, SetTicketState, Rest
    <2>2. Local'
      BY <1>9, RunEdges DEF ProviderLimit, Move, Advance, SetTicketState, Rest
    <2>3. SlotsMatch'
      BY <1>9, SlotsKept DEF ProviderLimit, Move, Advance, SetTicketState, Rest
    <2> QED BY <2>1, <2>2, <2>3 DEF IInv, Local
  <1>10. CASE AgentFinished(t)
    <2>1. TypeOK'
      BY <1>10, RunEdges DEF AgentFinished, Move, Advance, SetTicketState, Rest
    <2>2. Local'
      BY <1>10, RunEdges DEF AgentFinished, Move, Advance, SetTicketState, Rest
    <2>3. SlotsMatch'
      BY <1>10, SlotsKept DEF AgentFinished, Move, Advance, SetTicketState, Rest
    <2> QED BY <2>1, <2>2, <2>3 DEF IInv, Local
  <1>11. CASE Validate(t)
    <2>1. TypeOK'
      BY <1>11 DEF Validate, WithinBudget
    <2>2. Local'
      BY <1>11 DEF Validate, WithinBudget
    <2>3. SlotsMatch'
      BY <1>11, SlotsKept DEF Validate, WithinBudget
    <2> QED BY <2>1, <2>2, <2>3 DEF IInv, Local
  <1>12. CASE Retry(t)
    <2>1. TypeOK'
      BY <1>12, RunEdges DEF Retry, Move, Advance, SetTicketState
    <2>2. Local'
      BY <1>12, RunEdges DEF Retry, Move, Advance, SetTicketState
    <2>3. SlotsMatch'
      BY <1>12, SlotsKept DEF Retry, Move, Advance, SetTicketState
    <2> QED BY <2>1, <2>2, <2>3 DEF IInv, Local
  <1>13. CASE ValidationPassed(t)
    <2>1. TypeOK'
      BY <1>13, RunEdges
      DEF ValidationPassed, Move, Advance, SetTicketState, Rest
    <2>2. Local'
      BY <1>13, RunEdges
      DEF ValidationPassed, Move, Advance, SetTicketState, Rest
    <2>3. SlotsMatch'
      BY <1>13, SlotsKept
      DEF ValidationPassed, Move, Advance, SetTicketState, Rest
    <2> QED BY <2>1, <2>2, <2>3 DEF IInv, Local
  <1>14. CASE Reviewed(t)
    <2>1. TypeOK'
      BY <1>14, RunEdges DEF Reviewed, Move, Advance, SetTicketState, Rest
    <2>2. Local'
      BY <1>14, RunEdges DEF Reviewed, Move, Advance, SetTicketState, Rest
    <2>3. SlotsMatch'
      BY <1>14, SlotsKept DEF Reviewed, Move, Advance, SetTicketState, Rest
    <2> QED BY <2>1, <2>2, <2>3 DEF IInv, Local
  <1>15. CASE RaiseReview(t)
    <2>1. TypeOK'
      BY <1>15 DEF RaiseReview, OpenAttention, Rows, Rest
    <2>2. Local'
      BY <1>15 DEF RaiseReview, OpenAttention, Rows, Rest
    <2>3. SlotsMatch'
      BY <1>15, SlotsKept DEF RaiseReview, OpenAttention, Rows, Rest
    <2> QED BY <2>1, <2>2, <2>3 DEF IInv, Local
  <1>16. CASE Park(t)
    <2>1. TypeOK'
      BY <1>16, RunEdges
      DEF Park, Move, Advance, SetTicketState, ParkEvent, Rest
    <2>2. Local'
      BY <1>16, RunEdges
      DEF Park, Move, Advance, SetTicketState, ParkEvent, Rest
    <2>3. SlotsMatch'
      BY <1>16, SlotsKept
      DEF Park, Move, Advance, SetTicketState, ParkEvent, Rest
    <2> QED BY <2>1, <2>2, <2>3 DEF IInv, Local
  <1>17. CASE Rescue(t)
    <2>1. TypeOK'
      BY <1>17, RunEdges
      DEF Rescue, Advance, SetTicketState, ParkEvent, AfterRescue, Rest
    <2>2. Local'
      BY <1>17, RunEdges
      DEF Rescue, Advance, SetTicketState, ParkEvent, AfterRescue, Rest
    <2>3. SlotsMatch'
      BY <1>17, SlotsKept
      DEF Rescue, Advance, SetTicketState, ParkEvent, AfterRescue, Rest
    <2> QED BY <2>1, <2>2, <2>3 DEF IInv, Local
  <1>18. CASE RaiseParked(t)
    <2>1. TypeOK'
      BY <1>18 DEF RaiseParked, OpenAttention, Rows, Rest
    <2>2. Local'
      BY <1>18 DEF RaiseParked, OpenAttention, Rows, Rest
    <2>3. SlotsMatch'
      BY <1>18, SlotsKept DEF RaiseParked, OpenAttention, Rows, Rest
    <2> QED BY <2>1, <2>2, <2>3 DEF IInv, Local
  <1>19. CASE Finish(t)
    <2>1. TypeOK'
      BY <1>19, HolderHasSlot DEF Finish, RunOver
    <2>2. Local'
      BY <1>19 DEF Finish, RunOver
    <2>3. SlotsMatch'
      BY <1>19, SlotReturned DEF Finish, RunOver
    <2> QED BY <2>1, <2>2, <2>3 DEF IInv, Local
  <1> QED BY <1>1, <1>2, <1>3, <1>4, <1>5, <1>6, <1>7, <1>8, <1>9, <1>10,
             <1>11, <1>12, <1>13, <1>14, <1>15, <1>16, <1>17, <1>18, <1>19
          DEF GoStep

\* What humans do at any time, and an operation of theirs that is cut off.
HumanActs(t) == HumanChoice(t) \/ HumanStep(t) \/ Interrupted(t)

\* The human's operations keep it: none of their events is legal while a run has the ticket, and a
\* row saved over it is on record as such.
LEMMA HumanKeeps ==
  ASSUME IInv, NEW t \in Tickets, HumanActs(t)
  PROVE  IInv'
  <1> USE BudgetAssumption, SlotsAssumption
  <1> USE DEF IInv, TypeOK, Working, Outcomes, goto, loopVars, dbVars, runVars,
              daemonVars, boundVars, humanVars, historyVars,
              Local, OnlyWriter, OnlyServingRuns, AttemptsCounted, RunRowOpen, SavesWhatItRead,
              InRun, InCheck,
              HumanRest, HumanSteps, Aside, HumanEvents, QueueMoves, GravyOwned, step
  <1>1. CASE MoveTicket(t)
    <2>1. TypeOK' /\ Local'
      BY <1>1, HumanEdges DEF MoveTicket, SetTicketState
    <2>2. SlotsMatch'
      BY <1>1, SlotsKept DEF MoveTicket, SetTicketState
    <2> QED BY <2>1, <2>2
  <1>2. CASE ReadRow(t)
    <2>1. TypeOK' /\ Local'
      BY <1>2, BoundsAssumption DEF ReadRow, Mishap, Unread, States
    <2>2. SlotsMatch'
      BY <1>2, SlotsKept DEF ReadRow, Mishap
    <2> QED BY <2>1, <2>2
  <1>3. CASE SaveRow(t)
    <2>1. TypeOK' /\ Local'
      BY <1>3 DEF SaveRow
    <2>2. SlotsMatch'
      BY <1>3, SlotsKept DEF SaveRow
    <2> QED BY <2>1, <2>2
  <1>4. CASE Send(t)
    <2>1. TypeOK' /\ Local'
      BY <1>4, HumanEdges DEF Send, SetTicketState, Crossing
    <2>2. SlotsMatch'
      BY <1>4, SlotsKept DEF Send, SetTicketState, Crossing
    <2> QED BY <2>1, <2>2
  <1>5. CASE Decide(t)
    <2>1. TypeOK' /\ Local'
      BY <1>5, HumanEdges DEF Decide, SetTicketState, Crossing
    <2>2. SlotsMatch'
      BY <1>5, SlotsKept DEF Decide, SetTicketState, Crossing
    <2> QED BY <2>1, <2>2
  <1>6. CASE Acknowledge(t)
    <2>1. TypeOK' /\ Local'
      BY <1>6 DEF Acknowledge, Settled, Rows
    <2>2. SlotsMatch'
      BY <1>6, SlotsKept DEF Acknowledge, Settled, Rows
    <2> QED BY <2>1, <2>2
  <1>7. CASE Resolve(t)
    <2>1. TypeOK' /\ Local'
      BY <1>7 DEF Resolve, ResolveAttentionForTicket, Settled, Rows
    <2>2. SlotsMatch'
      BY <1>7, SlotsKept DEF Resolve, ResolveAttentionForTicket, Settled, Rows
    <2> QED BY <2>1, <2>2
  <1>8. CASE Approve(t)
    <2>1. TypeOK' /\ Local'
      BY <1>8, HumanEdges DEF Approve, SetTicketState, Crossing
    <2>2. SlotsMatch'
      BY <1>8, SlotsKept DEF Approve, SetTicketState, Crossing
    <2> QED BY <2>1, <2>2
  <1>9. CASE Continue(t)
    <2>1. TypeOK' /\ Local'
      BY <1>9, HumanEdges DEF Continue, SetTicketState, Crossing
    <2>2. SlotsMatch'
      BY <1>9, SlotsKept DEF Continue, SetTicketState, Crossing
    <2> QED BY <2>1, <2>2
  <1>10. CASE ContinueFails(t)
    <2>1. TypeOK' /\ Local'
      BY <1>10 DEF ContinueFails
    <2>2. SlotsMatch'
      BY <1>10, SlotsKept DEF ContinueFails
    <2> QED BY <2>1, <2>2
  <1>11. CASE LandEnds(t)
    <2>1. TypeOK' /\ Local'
      BY <1>11, HumanEdges DEF LandEnds, SetTicketState
    <2>2. SlotsMatch'
      BY <1>11, SlotsKept DEF LandEnds, SetTicketState
    <2> QED BY <2>1, <2>2
  <1>12. CASE LandRaise(t)
    <2>1. TypeOK' /\ Local'
      BY <1>12 DEF LandRaise, OpenAttention, Rows
    <2>2. SlotsMatch'
      BY <1>12, SlotsKept DEF LandRaise, OpenAttention, Rows
    <2> QED BY <2>1, <2>2
  <1>13. CASE MarkMerged(t)
    <2>1. TypeOK' /\ Local'
      BY <1>13, HumanEdges DEF MarkMerged, SetTicketState
    <2>2. SlotsMatch'
      BY <1>13, SlotsKept DEF MarkMerged, SetTicketState
    <2> QED BY <2>1, <2>2
  <1>14. CASE Interrupted(t)
    <2>1. TypeOK' /\ Local'
      BY <1>14, BoundsAssumption DEF Interrupted, Mishap
    <2>2. SlotsMatch'
      BY <1>14, SlotsKept DEF Interrupted, Mishap
    <2> QED BY <2>1, <2>2
  <1> QED BY <1>1, <1>2, <1>3, <1>4, <1>5, <1>6, <1>7, <1>8, <1>9, <1>10, <1>11, <1>12, <1>13, <1>14
          DEF HumanActs, HumanChoice, HumanStep

\* The scheduler loop, a killed agent, a panic and a failed store write keep it.
LEMMA LoopKeeps ==
  ASSUME IInv, NEW t \in Tickets,
         Start(t) \/ KillRun(t) \/ StoreFault(t) \/ OrphanExits(t) \/ Panic(t)
  PROVE  IInv'
  <1> USE BudgetAssumption, SlotsAssumption
  <1> USE DEF IInv, TypeOK, Working, Outcomes, goto, loopVars, dbVars, runVars,
              daemonVars, boundVars, humanVars, historyVars,
              Local, OnlyWriter, OnlyServingRuns, AttemptsCounted, RunRowOpen, SavesWhatItRead,
              InRun, InCheck
  <1>1. CASE Start(t)
    <2>1. TypeOK' /\ Local'
      BY <1>1 DEF Start, LoopClaims
    <2>2. SlotsMatch'
      BY <1>1, SlotsKept DEF Start, LoopClaims
    <2> QED BY <2>1, <2>2
  <1>2. CASE KillRun(t)
    <2>1. TypeOK' /\ Local'
      BY <1>2 DEF KillRun
    <2>2. SlotsMatch'
      BY <1>2, SlotsKept DEF KillRun
    <2> QED BY <2>1, <2>2
  <1>3. CASE StoreFault(t)
    <2>1. TypeOK' /\ Local'
      BY <1>3, BoundsAssumption DEF StoreFault, AfterFault
    <2>2. SlotsMatch'
      BY <1>3, SlotsKept DEF StoreFault, AfterFault
    <2> QED BY <2>1, <2>2
  <1>4. CASE OrphanExits(t)
    <2>1. TypeOK' /\ Local'
      BY <1>4 DEF OrphanExits
    <2>2. SlotsMatch'
      BY <1>4, SlotsKept DEF OrphanExits
    <2> QED BY <2>1, <2>2
  <1>5. CASE Panic(t)
    <2>1. TypeOK' /\ Local'
      BY <1>5, HolderHasSlot, BoundsAssumption DEF Panic, RunOver, Mishap
    <2>2. SlotsMatch'
      BY <1>5, SlotReturned DEF Panic, RunOver
    <2> QED BY <2>1, <2>2
  <1> QED BY <1>1, <1>2, <1>3, <1>4, <1>5

\* A tick, stopping, crashing and starting again keep it.
LEMMA DaemonKeeps ==
  ASSUME IInv, Tick \/ Crash \/ Stop \/ Boot \/ NextPass
  PROVE  IInv'
  <1> USE BudgetAssumption, SlotsAssumption
  <1> USE DEF IInv, TypeOK, Working, Outcomes, goto, loopVars, dbVars, runVars,
              daemonVars, boundVars, humanVars, historyVars,
              Local, OnlyWriter, OnlyServingRuns, AttemptsCounted, RunRowOpen, SavesWhatItRead,
              InRun, InCheck
  <1>1. CASE Tick
    <2>1. TypeOK' /\ Local'
      BY <1>1 DEF Tick
    <2>2. SlotsMatch'
      BY <1>1, SlotsKept DEF Tick
    <2> QED BY <2>1, <2>2
  <1>2. CASE Crash
    <2>1. TypeOK' /\ Local'
      BY <1>2, BoundsAssumption DEF Crash, DaemonGone, Phases, HumanSteps, Aside
    <2>2. SlotsMatch'
      BY <1>2, SlotsDropped DEF Crash, DaemonGone, Phases, HumanSteps, Aside
    <2> QED BY <2>1, <2>2
  <1>3. CASE Stop
    <2>1. TypeOK' /\ Local'
      BY <1>3, BoundsAssumption DEF Stop, DaemonGone, Phases, HumanSteps, Aside
    <2>2. SlotsMatch'
      BY <1>3, SlotsDropped DEF Stop, DaemonGone, Phases, HumanSteps, Aside
    <2> QED BY <2>1, <2>2
  <1>4. CASE Boot
    <2>1. TypeOK' /\ Local'
      BY <1>4 DEF Boot, BootRest, Phases, Reconciling
    <2>2. SlotsMatch'
      BY <1>4, SlotsKept DEF Boot, BootRest, Phases, Reconciling
    <2> QED BY <2>1, <2>2
  <1>5. CASE NextPass
    <2>1. TypeOK' /\ Local'
      BY <1>5 DEF NextPass, BootRest, Phases, Reconciling, InterruptedLandings
    <2>2. SlotsMatch'
      BY <1>5, SlotsKept
      DEF NextPass, BootRest, Phases, Reconciling, InterruptedLandings
    <2> QED BY <2>1, <2>2
  <1> QED BY <1>1, <1>2, <1>3, <1>4, <1>5

\* So does every step of reconciliation.
LEMMA ReconcileKeeps ==
  ASSUME IInv, NEW t \in Tickets,
         \/ ReconcileRun(t) \/ ParkInterrupted(t) \/ RaiseInterrupted(t)
         \/ RaiseInterruptedReview(t) \/ ReconcileReview(t)
         \/ RaiseInterruptedLanding(t) \/ ReconcileLanding(t)
  PROVE  IInv'
  <1> USE BudgetAssumption, SlotsAssumption
  <1> USE DEF IInv, TypeOK, Working, Outcomes, goto, loopVars, dbVars, runVars,
              daemonVars, boundVars, humanVars, historyVars,
              Local, OnlyWriter, OnlyServingRuns, AttemptsCounted, RunRowOpen, SavesWhatItRead,
              InRun, InCheck,
              BootRest, Rows, Phases, Reconciling
  <1>1. CASE ReconcileRun(t)
    <2>1. TypeOK' /\ Local'
      BY <1>1 DEF ReconcileRun
    <2>2. SlotsMatch'
      BY <1>1, SlotsKept DEF ReconcileRun
    <2> QED BY <2>1, <2>2
  <1>2. CASE ParkInterrupted(t)
    <2>1. TypeOK' /\ Local'
      BY <1>2 DEF ParkInterrupted, SetTicketState, Advance
    <2>2. SlotsMatch'
      BY <1>2, SlotsKept DEF ParkInterrupted, SetTicketState, Advance
    <2> QED BY <2>1, <2>2
  <1>3. CASE RaiseInterrupted(t)
    <2>1. TypeOK' /\ Local'
      BY <1>3 DEF RaiseInterrupted, OpenAttention
    <2>2. SlotsMatch'
      BY <1>3, SlotsKept DEF RaiseInterrupted, OpenAttention
    <2> QED BY <2>1, <2>2
  <1>4. CASE RaiseInterruptedReview(t)
    <2>1. TypeOK' /\ Local'
      BY <1>4 DEF RaiseInterruptedReview, OpenAttention
    <2>2. SlotsMatch'
      BY <1>4, SlotsKept DEF RaiseInterruptedReview, OpenAttention
    <2> QED BY <2>1, <2>2
  <1>5. CASE ReconcileReview(t)
    <2>1. TypeOK' /\ Local'
      BY <1>5 DEF ReconcileReview, SetTicketState, Advance
    <2>2. SlotsMatch'
      BY <1>5, SlotsKept DEF ReconcileReview, SetTicketState, Advance
    <2> QED BY <2>1, <2>2
  <1>6. CASE RaiseInterruptedLanding(t)
    <2>1. TypeOK' /\ Local'
      BY <1>6 DEF RaiseInterruptedLanding, OpenAttention
    <2>2. SlotsMatch'
      BY <1>6, SlotsKept DEF RaiseInterruptedLanding, OpenAttention
    <2> QED BY <2>1, <2>2
  <1>7. CASE ReconcileLanding(t)
    <2>1. TypeOK' /\ Local'
      BY <1>7 DEF ReconcileLanding, SetTicketState, Advance
    <2>2. SlotsMatch'
      BY <1>7, SlotsKept DEF ReconcileLanding, SetTicketState, Advance
    <2> QED BY <2>1, <2>2
  <1> QED BY <1>1, <1>2, <1>3, <1>4, <1>5, <1>6, <1>7

\* The invariant holds at the start, whatever the budgets of crashes and faults begin with.
LEMMA StartKeeps ==
  ASSUME FirstStart, crashes \in 0..MaxCrashes, faults \in Nat
  PROVE  IInv
  <1>1. TypeOK
    BY BudgetAssumption, SlotsAssumption, BoundsAssumption
    DEF FirstStart, TypeOK, States, Outcomes, HumanSteps, Aside, Phases, Rows
  <1>2. Local
    BY DEF FirstStart, Local, OnlyWriter, OnlyServingRuns, AttemptsCounted,
           RunRowOpen, SavesWhatItRead, InRun, InCheck
  <1>3. SlotsMatch
    <2>1. Holders = {}
      BY DEF FirstStart, Holders, Working
    <2> QED BY <2>1, FS_EmptySet DEF FirstStart, SlotsMatch, Holders
  <1> QED BY <1>1, <1>2, <1>3 DEF IInv, Local

\* It holds in every first state of Spec.
LEMMA InitKeeps == Init => IInv
  BY StartKeeps, BoundsAssumption DEF Init

\* And of FaultSpec.
LEMMA FaultInitKeeps == FaultInit => IInv
  BY StartKeeps, BoundsAssumption DEF FaultInit

\* Every step of the specification keeps it.
LEMMA NextKeeps == IInv /\ [Next]_vars => IInv'
  <1> SUFFICES ASSUME IInv, [Next]_vars PROVE IInv'
    OBVIOUS
  <1>1. CASE Tick \/ Crash \/ Stop \/ Boot \/ NextPass
    BY <1>1, DaemonKeeps
  <1>2. ASSUME NEW t \in Tickets, GoStep(t) PROVE IInv'
    BY <1>2, GoStepKeeps
  <1>3. ASSUME NEW t \in Tickets, HumanActs(t) PROVE IInv'
    BY <1>3, HumanKeeps
  <1>4. ASSUME NEW t \in Tickets,
               Start(t) \/ KillRun(t) \/ StoreFault(t) \/ OrphanExits(t) \/ Panic(t)
        PROVE  IInv'
    BY <1>4, LoopKeeps
  <1>5. ASSUME NEW t \in Tickets,
               \/ ReconcileRun(t) \/ ParkInterrupted(t) \/ RaiseInterrupted(t)
               \/ RaiseInterruptedReview(t) \/ ReconcileReview(t)
               \/ RaiseInterruptedLanding(t) \/ ReconcileLanding(t)
        PROVE  IInv'
    BY <1>5, ReconcileKeeps
  <1>6. CASE UNCHANGED vars
    <2>1. TypeOK' /\ Local'
      BY <1>6 DEF IInv, vars, dbVars, runVars, loopVars, daemonVars, boundVars, humanVars,
         historyVars, TypeOK, Local, OnlyWriter, OnlyServingRuns, AttemptsCounted, RunRowOpen,
         SavesWhatItRead, InRun, InCheck
    <2>2. SlotsMatch'
      BY <1>6, SlotsKept DEF IInv, vars, runVars, loopVars
    <2> QED BY <2>1, <2>2 DEF IInv, Local
  <1> QED BY <1>1, <1>2, <1>3, <1>4, <1>5, <1>6 DEF Next, BootStep, HumanActs

(***************************************************************************)
(* The theorems.                                                            *)
(***************************************************************************)

\* The strengthened invariant holds in every reachable state.
LEMMA Inductive == Spec => []IInv
  BY InitKeeps, NextKeeps, PTL DEF Spec

\* Every variable of the orchestration stays in its type: in particular the
\* pool never goes below zero or above the configured slots, and attemptLoop
\* never runs an attempt past SelfCorrectionBudget + 1.
THEOREM TypeCorrect == Spec => []TypeOK
  <1>1. IInv => TypeOK
    BY DEF IInv
  <1> QED BY <1>1, Inductive, PTL

\* The pool's count is always the number of runs that hold a slot: whatever
\* fails, stops or crashes, agentrun.Run releases the slot it claimed, once.
THEOREM SlotsExact == Spec => []SlotsMatch
  <1>1. IInv => SlotsMatch
    BY DEF IInv
  <1> QED BY <1>1, Inductive, PTL

\* While a run is in flight the ticket is in the state the run last wrote: no
\* event a human or a landing sends, no crash, panic or recovery moves it under
\* the run (the premise of updateTicketFields and of every SetTicketState in
\* run()); an old copy of its row saved over it is all that does.
THEOREM SoleWriter == Spec => []OnlyWriter
  <1>1. IInv => OnlyWriter
    BY DEF IInv
  <1> QED BY <1>1, Inductive, PTL

(***************************************************************************)
(* A run hands its ticket on before it lets go of the slot.  This needs a    *)
(* store that takes its writes: a rescue whose own write fails leaves the    *)
(* ticket where it was.                                                     *)
(***************************************************************************)

\* No write is refused any more: the budget of faults is empty or spent.
Sound == MaxFaults = 0 \/ faults > MaxFaults

\* Before it takes its ticket out of the queue and after it has handed it on, a run has nothing of
\* Gravy's in hand; and nothing is rescued out of the advisory review, whose ending is always legal.
Handed ==
  \A t \in Tickets \ LeftBehind :
    /\ pc[t] \in {"claim", "assign", "raise", "parkraise", "done"} => state[t] \notin GravyOwned
    /\ pc[t] = "idle" /\ t \in decided => state[t] \notin GravyOwned
    /\ pc[t] = "rescue" => state[t] # "reviewing"

\* Where a run finds its ticket its own events are legal, so it is never refused there.
LEMMA OwnEventsLegal ==
  /\ Legal("assigned", "start") /\ Legal("running", "provider_retry")
  /\ Legal("running", "agent_finished") /\ Legal("validating", "validation_retry")
  /\ Legal("validating", "validation_passed") /\ Legal("reviewing", "reviewed")
  /\ \A s \in {"assigned", "running", "validating"} : Legal(s, ParkEvent(s))
  <1> USE DEF Legal, Transition, States
  <1>1. /\ <<"assigned", "start", "running">> \in transitions
        /\ <<"running", "provider_retry", "ready">> \in transitions
        /\ <<"running", "agent_finished", "validating">> \in transitions
        /\ <<"validating", "validation_retry", "running">> \in transitions
        /\ <<"validating", "validation_passed", "reviewing">> \in transitions
        /\ <<"reviewing", "reviewed", "review">> \in transitions
        /\ <<"assigned", "run_failed", "needs_you">> \in transitions
        /\ <<"running", "run_failed", "needs_you">> \in transitions
        /\ <<"validating", "validation_exhausted", "needs_you">> \in transitions
    BY DEF transitions
  <1>2. \A to : <<"assigned", "validation_exhausted", to>> \notin transitions
    BY DEF transitions
  <1> QED BY <1>1, <1>2 DEF ParkEvent

\* Parking takes a ticket from Gravy to the human, wherever Gravy had it.
LEMMA ParkEdges ==
  \A s, to : Transition(s, ParkEvent(s), to) => s \in GravyOwned /\ to = "needs_you"
  BY DEF Transition, transitions, ParkEvent, GravyOwned

\* What a step does to one run's ticket decides whether Handed survives it.
LEMMA HandedLocal ==
  ASSUME Handed, NEW t \in Tickets, decided' \subseteq decided,
         \A u \in Tickets \ {t} : /\ pc'[u] = pc[u] /\ state'[u] = state[u]
                                  /\ u \in LeftBehind => u \in LeftBehind',
         \/ t \in LeftBehind'
         \/ /\ pc'[t] \in {"claim", "assign", "raise", "parkraise", "done", "idle"}
                 => state'[t] \notin GravyOwned
            /\ pc'[t] = "rescue" => state'[t] # "reviewing"
  PROVE  Handed'
  BY DEF Handed

\* A run's step concerns its own ticket, leaves its slot only where it holds nothing, and makes good
\* what was left behind only where it takes the ticket.
LEMMA GoStepFrame ==
  ASSUME IInv, NEW t \in Tickets, GoStep(t)
  PROVE  /\ \A u \in Tickets \ {t} : pc'[u] = pc[u] /\ state'[u] = state[u] /\ rows'[u] = rows[u]
         /\ pc'[t] \in Working \/ (pc[t] \in {"claim", "done"} /\ pc'[t] = "idle" /\ state' = state)
         /\ UNCHANGED <<decided, humanVars, daemonVars, boundVars>>
         /\ \/ UNCHANGED historyVars
            \/ /\ pc[t] = "assign" /\ pc'[t] = "prepare"
               /\ state[t] = "ready" /\ state'[t] = "assigned"
               /\ forsaken' = forsaken \ {t} /\ overwritten' = overwritten \ {t}
               /\ crossed' = IF human[t] = "resolve" THEN crossed \cup {t} ELSE crossed
  <1> USE DEF IInv, TypeOK, goto, Rest, dbVars, loopVars, Working, historyVars
  <1>1. CASE \/ Claim(t) \/ Prepare(t) \/ CreateRun(t) \/ Launch(t) \/ AgentExit(t) \/ RecordRun(t)
             \/ Validate(t) \/ RaiseReview(t) \/ RaiseParked(t) \/ Finish(t)
    BY <1>1 DEF Claim, Prepare, CreateRun, Launch, AgentExit, RecordRun, Validate, RaiseReview,
                RaiseParked, Finish, RunOver, OpenAttention
  <1>2. CASE StartRunning(t) \/ ProviderLimit(t) \/ AgentFinished(t) \/ Retry(t)
    BY <1>2 DEF StartRunning, ProviderLimit, AgentFinished, Retry, Move, Advance, SetTicketState
  <1>3. CASE ValidationPassed(t) \/ Reviewed(t) \/ Park(t) \/ Rescue(t)
    BY <1>3 DEF ValidationPassed, Reviewed, Park, Rescue, AfterRescue, Move, Advance, SetTicketState
  <1>4. CASE Assign(t)
    <2>1. /\ pc[t] = "assign"
          /\ \/ /\ pc' = [pc EXCEPT ![t] = "prepare"]
                /\ state[t] = "ready" /\ state' = [state EXCEPT ![t] = "assigned"]
             \/ pc' = [pc EXCEPT ![t] = "rescue"] /\ state' = state
      BY <1>4, RunEdges DEF Assign, Move, Advance, SetTicketState
    <2>2. /\ UNCHANGED <<rows, loopVars, humanVars, daemonVars, boundVars>>
          /\ forsaken' = IF pc'[t] = "prepare" THEN forsaken \ {t} ELSE forsaken
          /\ overwritten' = IF pc'[t] = "prepare" THEN overwritten \ {t} ELSE overwritten
          /\ crossed' = IF pc'[t] = "prepare" /\ human[t] = "resolve"
                          THEN crossed \cup {t} ELSE crossed
      BY <1>4 DEF Assign
    <2> QED BY <2>1, <2>2
  <1> QED BY <1>1, <1>2, <1>3, <1>4 DEF GoStep

\* A run's own steps keep Handed: what it takes out of the queue it hands on by an event that is
\* legal where the ticket then is (agentrun.Run, park and parkFailedStart).
LEMMA GoStepHands ==
  ASSUME IInv, Handed, NEW t \in Tickets, GoStep(t)
  PROVE  Handed'
  <1>1. CASE pc'[t] = "prepare" /\ state'[t] = "assigned" /\ UNCHANGED decided
             /\ forsaken' = forsaken \ {t} /\ overwritten' = overwritten \ {t}
    BY <1>1, GoStepFrame, HandedLocal DEF LeftBehind
  <1>2. CASE UNCHANGED historyVars /\ t \in LeftBehind
    BY <1>2, GoStepFrame, HandedLocal DEF LeftBehind, historyVars
  <1>3. CASE UNCHANGED historyVars /\ t \notin LeftBehind
    <2>a. /\ \A u \in Tickets \ {t} : /\ pc'[u] = pc[u] /\ state'[u] = state[u]
                                      /\ u \in LeftBehind => u \in LeftBehind'
          /\ decided' = decided /\ t \notin overwritten
      BY <1>3, GoStepFrame DEF LeftBehind, historyVars
    <2>b. SUFFICES /\ pc'[t] \in {"claim", "assign", "raise", "parkraise", "done", "idle"}
                        => state'[t] \notin GravyOwned
                   /\ pc'[t] = "rescue" => state'[t] # "reviewing"
      BY <2>a, <2>b, <1>3 DEF Handed, LeftBehind, historyVars
    <2> USE <1>3, <2>a DEF IInv, TypeOK, OnlyWriter, InRun, InCheck, goto, Rest
    <2>1. CASE Claim(t)
      BY <2>1 DEF Claim, Handed, dbVars
    <2>2. CASE Assign(t)
      BY <2>2, RunEdges DEF Assign, Move, Advance, SetTicketState, Handed, GravyOwned
    <2>3. CASE Prepare(t)
      BY <2>3 DEF Prepare
    <2>4. CASE CreateRun(t)
      BY <2>4 DEF CreateRun
    <2>5. CASE StartRunning(t)
      BY <2>5, RunEdges, OwnEventsLegal DEF StartRunning, Move, Advance, SetTicketState
    <2>6. CASE Launch(t)
      BY <2>6 DEF Launch
    <2>7. CASE AgentExit(t)
      BY <2>7 DEF AgentExit, dbVars
    <2>8. CASE RecordRun(t)
      BY <2>8 DEF RecordRun
    <2>9. CASE ProviderLimit(t)
      BY <2>9, RunEdges, OwnEventsLegal
      DEF ProviderLimit, Move, Advance, SetTicketState, GravyOwned
    <2>10. CASE AgentFinished(t)
      BY <2>10, RunEdges, OwnEventsLegal
      DEF AgentFinished, Move, Advance, SetTicketState
    <2>11. CASE Validate(t)
      BY <2>11 DEF Validate, dbVars
    <2>12. CASE Retry(t)
      BY <2>12, RunEdges, OwnEventsLegal DEF Retry, Move, Advance, SetTicketState
    <2>13. CASE ValidationPassed(t)
      BY <2>13, RunEdges, OwnEventsLegal DEF ValidationPassed, Move, Advance, SetTicketState
    <2>14. CASE Reviewed(t)
      BY <2>14, RunEdges, OwnEventsLegal
      DEF Reviewed, Move, Advance, SetTicketState, GravyOwned
    <2>15. CASE RaiseReview(t)
      BY <2>15 DEF RaiseReview, Handed
    <2>16. CASE Park(t)
      <3>1. state[t] \in {"running", "validating"} /\ Legal(state[t], ParkEvent(state[t]))
        BY <2>16, OwnEventsLegal DEF Park
      <3>2. SetTicketState(t, ParkEvent(state[t])) /\ goto(t, "parkraise")
        BY <2>16, <3>1 DEF Park, Move, Advance
      <3> QED BY <3>2, RunEdges DEF SetTicketState, ParkEvent, GravyOwned
    <2>17. CASE Rescue(t)
      <3>1. CASE ~IsActive(state[t]) \/ NeedsHuman(state[t])
        BY <2>17, <3>1 DEF Rescue, IsActive, NeedsHuman, GravyOwned
      <3>2. CASE ~(~IsActive(state[t]) \/ NeedsHuman(state[t]))
        <4>1. CASE Legal(state[t], ParkEvent(state[t]))
          <5>1. SetTicketState(t, ParkEvent(state[t])) /\ goto(t, "parkraise")
            BY <2>17, <3>2, <4>1 DEF Rescue, Advance
          <5> QED BY <5>1, RunEdges DEF SetTicketState, ParkEvent, GravyOwned
        <4>2. CASE ~Legal(state[t], ParkEvent(state[t]))
          <5>1. state' = state /\ goto(t, "done")
            BY <2>17, <3>2, <4>2 DEF Rescue, Advance, AfterRescue
          <5>2. state[t] \notin GravyOwned
            BY <2>17, <4>2, OwnEventsLegal DEF Rescue, Handed, GravyOwned
          <5> QED BY <5>1, <5>2
        <4> QED BY <4>1, <4>2
      <3> QED BY <3>1, <3>2
    <2>18. CASE RaiseParked(t)
      BY <2>18 DEF RaiseParked, Handed
    <2>19. CASE Finish(t)
      BY <2>19 DEF Finish, Handed, dbVars, RunOver
    <2> QED BY <2>1, <2>2, <2>3, <2>4, <2>5, <2>6, <2>7, <2>8, <2>9, <2>10,
               <2>11, <2>12, <2>13, <2>14, <2>15, <2>16, <2>17, <2>18, <2>19
            DEF GoStep
  <1> QED BY <1>1, <1>2, <1>3, GoStepFrame

\* A human's operation moves its own ticket only, by an event of the human's or by saving an old
\* copy of its row, and no run.
LEMMA HumanMoves ==
  ASSUME IInv, NEW t \in Tickets, HumanActs(t)
  PROVE  /\ \/ state' = state \/ SaveRow(t)
            \/ \E ev \in HumanEvents : SetTicketState(t, ev)
         /\ \A u \in Tickets \ {t} : /\ state'[u] = state[u] /\ rows'[u] = rows[u]
                                     /\ human'[u] = human[u] /\ held'[u] = held[u]
         /\ \/ state'[t] = state[t] \/ t \in overwritten'
            \/ state[t] \notin GravyOwned /\ state'[t] \notin GravyOwned
         /\ overwritten \subseteq overwritten' /\ overwritten' \subseteq overwritten \cup {t}
         /\ SaveRow(t) \/ overwritten' = overwritten
         /\ \/ forsaken' = forsaken
            \/ state' = state /\ state[t] = "landing" /\ forsaken' = forsaken \cup {t}
         /\ crossed \ {t} \subseteq crossed' /\ crossed' \subseteq crossed \cup {t}
         /\ UNCHANGED <<unfinished, orphans, runVars, loopVars, daemonVars, crashes, faults>>
  <1> USE DEF HumanRest, step, humanVars, historyVars, IInv, TypeOK
  <1>1. CASE MoveTicket(t) \/ Decide(t) \/ Approve(t) \/ Continue(t) \/ MarkMerged(t)
    <2>1. PICK ev \in HumanEvents : SetTicketState(t, ev)
      BY <1>1 DEF MoveTicket, Decide, Approve, Continue, MarkMerged, HumanEvents
    <2>2. state[t] \notin GravyOwned /\ state'[t] \notin GravyOwned
      BY <2>1, HumanEdges DEF SetTicketState
    <2> QED BY <1>1, <2>1, <2>2
            DEF SetTicketState, MoveTicket, Decide, Approve, Continue, MarkMerged, Crossing
  <1>2. CASE ReadRow(t) \/ ContinueFails(t) \/ Interrupted(t)
    BY <1>2 DEF ReadRow, ContinueFails, Interrupted
  <1>3. CASE Acknowledge(t) \/ Resolve(t) \/ LandRaise(t)
    BY <1>3 DEF Acknowledge, Resolve, LandRaise, Settled, ResolveAttentionForTicket, OpenAttention
  <1>4. CASE SaveRow(t)
    BY <1>4 DEF SaveRow
  <1>5. CASE Send(t)
    <2>1. CASE SetTicketState(t, human[t])
      <3>1. human[t] \in HumanEvents
        BY <1>5 DEF Send, HumanEvents
      <3>2. state[t] \notin GravyOwned /\ state'[t] \notin GravyOwned
        BY <2>1, <3>1, HumanEdges DEF SetTicketState
      <3> QED BY <1>5, <2>1, <3>1, <3>2 DEF SetTicketState, Send, Crossing
    <2>2. CASE state' = state
      BY <1>5, <2>2 DEF Send, Crossing
    <2> QED BY <1>5, <2>1, <2>2 DEF Send
  <1>6. CASE LandEnds(t)
    <2>1. CASE \E ev \in {"landed", "handed_off", "land_failed"} : SetTicketState(t, ev)
      <3>1. PICK ev \in HumanEvents : SetTicketState(t, ev)
        BY <2>1 DEF HumanEvents
      <3>2. state[t] \notin GravyOwned /\ state'[t] \notin GravyOwned
        BY <3>1, HumanEdges DEF SetTicketState
      <3> QED BY <1>6, <3>1, <3>2 DEF SetTicketState, LandEnds
    <2>2. CASE state' = state
      BY <1>6, <2>2 DEF LandEnds
    <2> QED BY <1>6, <2>1, <2>2 DEF LandEnds
  <1> QED BY <1>1, <1>2, <1>3, <1>4, <1>5, <1>6 DEF HumanActs, HumanChoice, HumanStep

\* No human operation puts a ticket into Gravy's hands or moves one that is there, but for an old
\* row saved over it.
LEMMA HumanHands ==
  ASSUME IInv, Handed, NEW t \in Tickets, HumanActs(t)
  PROVE  Handed'
  <1>1. /\ \A u \in Tickets \ {t} : state'[u] = state[u]
        /\ \/ state'[t] = state[t] \/ t \in overwritten'
           \/ state[t] \notin GravyOwned /\ state'[t] \notin GravyOwned
        /\ LeftBehind \subseteq LeftBehind' /\ UNCHANGED <<pc, decided>>
    BY HumanMoves DEF LeftBehind, runVars, loopVars
  <1> QED BY <1>1 DEF Handed, LeftBehind, GravyOwned

\* Recovery only ever hands tickets to the human.
LEMMA ReconcileHands ==
  ASSUME IInv, Handed, NEW t \in Tickets,
         \/ ReconcileRun(t) \/ ParkInterrupted(t) \/ RaiseInterrupted(t)
         \/ RaiseInterruptedReview(t) \/ ReconcileReview(t)
         \/ RaiseInterruptedLanding(t) \/ ReconcileLanding(t)
  PROVE  Handed'
  <1>1. daemon # "up" /\ UNCHANGED <<pc, decided>>
    BY DEF ReconcileRun, ParkInterrupted, RaiseInterrupted, RaiseInterruptedReview, ReconcileReview,
           RaiseInterruptedLanding, ReconcileLanding, BootRest, runVars, loopVars
  <1> QED BY <1>1 DEF Handed, IInv, OnlyServingRuns

\* Every step keeps Handed where no write is refused, and none is refused later.
LEMMA NextHands ==
  ASSUME IInv, Sound, Handed, [Next]_vars
  PROVE  Sound' /\ Handed'
  <1>0. faults \in Nat /\ MaxFaults \in Nat /\ ~(faults < MaxFaults)
    BY BoundsAssumption DEF IInv, TypeOK, Sound
  <1> USE DEF LeftBehind, historyVars
  <1>1. CASE Tick
    BY <1>1 DEF Tick, Sound, Handed, GravyOwned, dbVars, runVars, boundVars
  <1>2. CASE Crash \/ Stop
    <2>1. faults' = faults /\ decided' = {} /\ \A t \in Tickets : pc'[t] = "idle"
      BY <1>2 DEF Crash, Stop, DaemonGone
    <2> QED BY <2>1 DEF Sound, Handed
  <1>3. CASE Boot \/ NextPass
    <2>1. faults' = faults /\ decided' = {} /\ \A t \in Tickets : pc'[t] = "idle"
      BY <1>3 DEF Boot, NextPass, BootRest, runVars, loopVars, boundVars, IInv, OnlyServingRuns
    <2> QED BY <2>1 DEF Sound, Handed
  <1>4. ASSUME NEW t \in Tickets, GoStep(t) PROVE Sound' /\ Handed'
    <2>1. faults' = faults
      BY <1>4, GoStepFrame DEF boundVars
    <2> QED BY <1>4, <2>1, GoStepHands DEF Sound
  <1>5. ASSUME NEW t \in Tickets, HumanActs(t) PROVE Sound' /\ Handed'
    <2>1. faults' = faults
      BY <1>5, HumanMoves
    <2> QED BY <1>5, <2>1, HumanHands DEF Sound
  <1>6. ASSUME NEW t \in Tickets, StoreFault(t) PROVE FALSE
    BY <1>0, <1>6 DEF StoreFault
  <1>7. ASSUME NEW t \in Tickets, Start(t) \/ KillRun(t) \/ OrphanExits(t)
        PROVE  Sound' /\ Handed'
    <2>1. /\ faults' = faults /\ state' = state /\ decided' \subseteq decided
          /\ UNCHANGED historyVars
      BY <1>7 DEF Start, KillRun, OrphanExits, dbVars, boundVars, loopVars
    <2>2. /\ \A u \in Tickets \ {t} : pc'[u] = pc[u]
          /\ pc'[t] = pc[t] \/ pc'[t] = "record"
             \/ (pc[t] = "idle" /\ t \in decided /\ pc'[t] = "claim")
          /\ pc'[t] = "idle" => t \notin decided' \/ decided' = decided
      BY <1>7 DEF Start, LoopClaims, KillRun, OrphanExits, goto, runVars, loopVars, IInv, TypeOK
    <2> QED BY <2>1, <2>2 DEF Sound, Handed
  <1>8. ASSUME NEW t \in Tickets,
               \/ ReconcileRun(t) \/ ParkInterrupted(t) \/ RaiseInterrupted(t)
               \/ RaiseInterruptedReview(t) \/ ReconcileReview(t)
               \/ RaiseInterruptedLanding(t) \/ ReconcileLanding(t)
        PROVE  Sound' /\ Handed'
    <2>1. faults' = faults
      BY <1>8 DEF ReconcileRun, ParkInterrupted, RaiseInterrupted, RaiseInterruptedReview,
                  ReconcileReview, RaiseInterruptedLanding, ReconcileLanding, BootRest, boundVars
    <2> QED BY <1>8, <2>1, ReconcileHands DEF Sound
  <1>9. ASSUME NEW t \in Tickets, Panic(t) PROVE Sound' /\ Handed'
    <2>1. /\ faults' = faults /\ state' = state /\ decided' = decided
          /\ forsaken' = forsaken \cup {t} /\ overwritten' = overwritten
          /\ \A u \in Tickets \ {t} : pc'[u] = pc[u]
      BY <1>9 DEF Panic, RunOver, goto, dbVars, IInv, TypeOK
    <2> QED BY <2>1 DEF Sound, Handed
  <1>10. CASE UNCHANGED vars
    BY <1>10 DEF vars, dbVars, runVars, loopVars, boundVars, Sound, Handed
  <1> QED BY <1>1, <1>2, <1>3, <1>4, <1>5, <1>6, <1>7, <1>8, <1>9, <1>10
          DEF Next, BootStep, HumanActs

(***************************************************************************)
(* A ticket Gravy has is a ticket with a goroutine, where no daemon stops.   *)
(***************************************************************************)

\* A step of recovery moves no ticket into Gravy's hands, and none but its own.
LEMMA ReconcileMoves ==
  ASSUME IInv, NEW t \in Tickets,
         \/ ReconcileRun(t) \/ ParkInterrupted(t) \/ RaiseInterrupted(t)
         \/ RaiseInterruptedReview(t) \/ ReconcileReview(t)
         \/ RaiseInterruptedLanding(t) \/ ReconcileLanding(t)
  PROVE  /\ \A u \in Tickets \ {t} : state'[u] = state[u]
         /\ state'[t] = state[t] \/ state'[t] \in {"review", "needs_you"}
         /\ UNCHANGED <<runVars, loopVars, humanVars, boundVars, historyVars>>
         /\ daemon # "up" /\ daemon' # "up"
  <1> USE DEF IInv, TypeOK, BootRest, historyVars
  <1>1. CASE ReconcileRun(t) \/ RaiseInterrupted(t) \/ RaiseInterruptedReview(t)
             \/ RaiseInterruptedLanding(t)
    BY <1>1 DEF ReconcileRun, RaiseInterrupted, RaiseInterruptedReview, RaiseInterruptedLanding
  <1>2. CASE ParkInterrupted(t)
    BY <1>2, RunEdges DEF ParkInterrupted, Advance, SetTicketState, InterruptedEvent
  <1>3. CASE ReconcileReview(t)
    BY <1>3, RunEdges DEF ReconcileReview, Advance, SetTicketState
  <1>4. CASE ReconcileLanding(t)
    <2>1. \A s, to : Transition(s, "land_failed", to) => to = "needs_you"
      BY DEF Transition, transitions
    <2> QED BY <1>4, <2>1 DEF ReconcileLanding, Advance, SetTicketState
  <1> QED BY <1>1, <1>2, <1>3, <1>4

\* Before a daemon that is not stopped serves for the first time, Gravy has had no ticket.
NobodyYet ==
  daemon # "up" => \A t \in Tickets : state[t] \notin GravyOwned /\ held[t] \notin GravyOwned

\* The invariant for a daemon that is never stopped and a store that takes its writes.
HeldInv == IInv /\ Sound /\ Handed /\ NothingStranded /\ NobodyYet

\* Without a stop or a crash a run's goroutine is all that moves its ticket, but for a panic and an
\* old row saved over it.
LEMMA NextStrands ==
  ASSUME MaxCrashes = 0, HeldInv, [Next]_vars
  PROVE  HeldInv'
  <1> USE DEF HeldInv, NothingStranded, NobodyYet, LeftBehind, historyVars
  <1>1. IInv' /\ Sound' /\ Handed'
    BY NextKeeps, NextHands
  <1>2. CASE Tick \/ Boot \/ UNCHANGED vars
    BY <1>1, <1>2 DEF Tick, Boot, BootRest, vars, dbVars, runVars, humanVars, daemonVars
  <1>3. CASE NextPass
    <2>1. daemon # "up" /\ UNCHANGED <<state, held>>
      BY <1>3 DEF NextPass, BootRest, dbVars, humanVars
    <2> QED BY <1>1, <2>1
  <1>4. CASE Crash \/ Stop
    BY <1>4 DEF Crash, Stop, DaemonGone, IInv, TypeOK
  <1>5. ASSUME NEW t \in Tickets, GoStep(t) PROVE HeldInv'
    <2>1. daemon = "up"
      <3>1. pc[t] # "idle"
        BY <1>5 DEF GoStep, Claim, Assign, Prepare, CreateRun, StartRunning, Launch, AgentExit,
               RecordRun, ProviderLimit, AgentFinished, Validate, Retry, ValidationPassed, Reviewed,
               RaiseReview, Park, Rescue, RaiseParked, Finish
      <3> QED BY <3>1 DEF IInv, OnlyServingRuns
    <2>2. NothingStranded'
      <3>1. CASE pc'[t] \in Working
        BY <1>5, <3>1, GoStepFrame
      <3>2. CASE ~(pc'[t] \in Working)
        BY <1>5, <3>2, GoStepFrame DEF Handed, Working
      <3> QED BY <3>1, <3>2
    <2> QED BY <1>1, <1>5, <2>1, <2>2, GoStepFrame DEF daemonVars
  <1>6. ASSUME NEW t \in Tickets, HumanActs(t) PROVE HeldInv'
    <2>1. NothingStranded'
      BY <1>6, HumanMoves DEF runVars
    <2>2. NobodyYet'
      <3>1. CASE daemon = "up"
        BY <1>6, <3>1, HumanMoves DEF daemonVars
      <3>2. CASE daemon # "up"
        <4>1. state'[t] \notin GravyOwned
          <5>1. CASE SaveRow(t)
            BY <3>2, <5>1 DEF SaveRow, IInv, TypeOK
          <5>2. CASE ~SaveRow(t)
            BY <1>6, <3>2, <5>2, HumanMoves, HumanEdges DEF SetTicketState, IInv, TypeOK
          <5> QED BY <5>1, <5>2
        <4>2. held'[t] \in {held[t], state[t], Unread}
          BY <1>6 DEF HumanActs, HumanChoice, HumanStep, MoveTicket, ReadRow, Decide, Acknowledge,
                      Approve, Continue, MarkMerged, SaveRow, Send, Resolve, ContinueFails,
                      LandEnds, LandRaise, Interrupted, humanVars, IInv, TypeOK
        <4> QED BY <1>6, <3>2, <4>1, <4>2, HumanMoves DEF GravyOwned, Unread
      <3> QED BY <3>1, <3>2
    <2> QED BY <1>1, <2>1, <2>2
  <1>7. ASSUME NEW t \in Tickets, Start(t) \/ KillRun(t) \/ StoreFault(t) \/ OrphanExits(t)
        PROVE  HeldInv'
    <2>1. UNCHANGED <<state, held, daemon, forsaken, overwritten>>
      BY <1>7 DEF Start, KillRun, StoreFault, OrphanExits, dbVars, humanVars, daemonVars
    <2>2. \A u \in Tickets : pc[u] \in Working => pc'[u] \in Working
      BY <1>7 DEF Start, LoopClaims, KillRun, StoreFault, AfterFault, OrphanExits, goto, runVars,
                  Working, IInv, TypeOK
    <2> QED BY <1>1, <2>1, <2>2
  <1>8. ASSUME NEW t \in Tickets, Panic(t) PROVE HeldInv'
    <2>1. /\ UNCHANGED <<state, held, daemon, overwritten>> /\ forsaken' = forsaken \cup {t}
          /\ \A u \in Tickets \ {t} : pc'[u] = pc[u]
      BY <1>8 DEF Panic, RunOver, goto, dbVars, humanVars, daemonVars, IInv, TypeOK
    <2> QED BY <1>1, <2>1
  <1>9. ASSUME NEW t \in Tickets,
               \/ ReconcileRun(t) \/ ParkInterrupted(t) \/ RaiseInterrupted(t)
               \/ RaiseInterruptedReview(t) \/ ReconcileReview(t)
               \/ RaiseInterruptedLanding(t) \/ ReconcileLanding(t)
        PROVE  HeldInv'
    BY <1>1, <1>9, ReconcileMoves DEF runVars, humanVars, GravyOwned
  <1> QED BY <1>2, <1>3, <1>4, <1>5, <1>6, <1>7, <1>8, <1>9 DEF Next, BootStep, HumanActs

\* As long as the daemon is not stopped and its writes are taken, a ticket in Assigned, Running,
\* Validating or Reviewing has a goroutine that moves it, unless its run panicked or an old copy of
\* its row was saved over it: no other way out of agentrun.Run leaves one behind.
THEOREM NobodyStranded ==
  ASSUME MaxCrashes = 0, MaxFaults = 0
  PROVE  Spec => []NothingStranded
  <1>1. Init => HeldInv
    BY InitKeeps DEF HeldInv, Init, FirstStart, Sound, Handed, NothingStranded, NobodyYet,
                     GravyOwned, Unread
  <1>2. HeldInv /\ [Next]_vars => HeldInv'
    BY NextStrands
  <1>3. HeldInv => NothingStranded
    BY DEF HeldInv
  <1> QED BY <1>1, <1>2, <1>3, PTL DEF Spec

(***************************************************************************)
(* Orchestration implements Custody.                                        *)
(***************************************************************************)

\* What the abstract specification sees of a step: the same kind of store before and after it, and
\* hands and holders as the ticket's state, its history and its goroutine's position tell.
LEMMA HandsStay ==
  ASSUME ~refusing, ~refusing',
         \A u \in Tickets : /\ HandOf(u)' = HandOf(u)
                            /\ pc'[u] \in Working <=> pc[u] \in Working
  PROVE  UNCHANGED <<hands, holding>>
  <1>1. hands' = hands
    BY DEF hands
  <1>2. holding' = holding
    BY DEF holding
  <1> QED BY <1>1, <1>2

\* One ticket passes from one hand to another and no slot changes owner.
LEMMA HandsPass ==
  ASSUME ~refusing, ~refusing', NEW t \in Tickets, NEW from, NEW to,
         \A u \in Tickets \ {t} : HandOf(u)' = HandOf(u),
         \A u \in Tickets : pc'[u] \in Working <=> pc[u] \in Working,
         HandOf(t) \in from, HandOf(t)' \in to
  PROVE  Kept!Pass(t, from, to)
  <1>1. hands[t] \in from
    BY DEF hands
  <1>2. hands' = [hands EXCEPT ![t] = HandOf(t)']
    BY DEF hands
  <1>3. holding' = holding
    BY DEF holding
  <1> QED BY <1>1, <1>2, <1>3 DEF Kept!Pass

\* What one step of a run does to its ticket: it claims a slot, takes the ticket, keeps it, gives
\* it up while it has it, or lets go of the slot (or finds none free).
LEMMA GoStepEffect ==
  ASSUME IInv, NEW t \in Tickets, GoStep(t)
  PROVE  \/ pc[t] = "claim" /\ pc'[t] \in Working /\ slots < Slots /\ state' = state
         \/ pc[t] = "claim" /\ pc'[t] = "idle" /\ state' = state
         \/ pc[t] = "done" /\ pc'[t] = "idle" /\ state' = state
         \/ /\ pc[t] \in Working /\ pc'[t] \in Working
            /\ \/ state'[t] = state[t]
               \/ state[t] = "ready" /\ state'[t] = "assigned" /\ t \notin LeftBehind'
               \/ state[t] \in GravyOwned /\ state'[t] \in GravyOwned
               \/ state[t] \in GravyOwned /\ state'[t] \in {"ready", "review", "needs_you"}
  <1> USE DEF IInv, TypeOK, goto, Rest, dbVars, loopVars, Working
  <1>1. CASE Claim(t)
    BY <1>1 DEF Claim
  <1>2. CASE Finish(t)
    BY <1>2 DEF Finish, RunOver
  <1>3. CASE \/ Prepare(t) \/ CreateRun(t) \/ Launch(t) \/ AgentExit(t) \/ RecordRun(t)
             \/ Validate(t) \/ RaiseReview(t) \/ RaiseParked(t)
    BY <1>3 DEF Prepare, CreateRun, Launch, AgentExit, RecordRun, Validate, RaiseReview, RaiseParked
  <1>4. CASE Assign(t)
    BY <1>4, RunEdges DEF Assign, Move, Advance, SetTicketState, LeftBehind
  <1>5. CASE StartRunning(t) \/ AgentFinished(t) \/ Retry(t) \/ ValidationPassed(t)
    BY <1>5, RunEdges DEF StartRunning, AgentFinished, Retry, ValidationPassed, Move, Advance,
                          SetTicketState, GravyOwned
  <1>6. CASE ProviderLimit(t) \/ Reviewed(t)
    BY <1>6, RunEdges DEF ProviderLimit, Reviewed, Move, Advance, SetTicketState, GravyOwned
  <1>7. CASE Park(t) \/ Rescue(t)
    BY <1>7, ParkEdges DEF Park, Rescue, Move, Advance, SetTicketState, AfterRescue
  <1> QED BY <1>1, <1>2, <1>3, <1>4, <1>5, <1>6, <1>7 DEF GoStep

\* A store that takes its writes goes on taking them, one that refuses some goes on refusing.
LEMMA RefusingStays ==
  ASSUME IInv, [Next]_vars
  PROVE  refusing' <=> refusing
  <1>0. faults \in Nat /\ MaxFaults \in Nat
    BY BoundsAssumption DEF IInv, TypeOK
  <1>1. CASE Tick \/ Crash \/ Stop \/ Boot \/ NextPass \/ UNCHANGED vars
    <2>1. faults' = faults
      BY <1>1 DEF Tick, Crash, Stop, Boot, NextPass, BootRest, boundVars, vars
    <2> QED BY <2>1 DEF refusing
  <1>2. ASSUME NEW t \in Tickets, GoStep(t) PROVE refusing' <=> refusing
    BY <1>2, GoStepFrame DEF boundVars, refusing
  <1>3. ASSUME NEW t \in Tickets, HumanActs(t) PROVE refusing' <=> refusing
    BY <1>3, HumanMoves DEF refusing
  <1>4. ASSUME NEW t \in Tickets, StoreFault(t) PROVE refusing' <=> refusing
    BY <1>0, <1>4 DEF StoreFault, refusing
  <1>5. ASSUME NEW t \in Tickets, Start(t) \/ KillRun(t) \/ OrphanExits(t) \/ Panic(t)
        PROVE  refusing' <=> refusing
    BY <1>5 DEF Start, KillRun, OrphanExits, Panic, boundVars, refusing
  <1>6. ASSUME NEW t \in Tickets,
               \/ ReconcileRun(t) \/ ParkInterrupted(t) \/ RaiseInterrupted(t)
               \/ RaiseInterruptedReview(t) \/ ReconcileReview(t)
               \/ RaiseInterruptedLanding(t) \/ ReconcileLanding(t)
        PROVE  refusing' <=> refusing
    BY <1>6, ReconcileMoves DEF boundVars, refusing
  <1> QED BY <1>1, <1>2, <1>3, <1>4, <1>5, <1>6 DEF Next, BootStep, HumanActs

\* The invariant of FaultSpec: the promise of Handed is kept where no write is refused.
FaultInv == IInv /\ (~refusing => Handed)

\* Every step keeps it.
LEMMA NextKeepsFault == FaultInv /\ [Next]_vars => FaultInv'
  <1> SUFFICES ASSUME FaultInv, [Next]_vars PROVE FaultInv'
    OBVIOUS
  <1>1. IInv' /\ (refusing' <=> refusing)
    BY NextKeeps, RefusingStays DEF FaultInv
  <1>2. ASSUME ~refusing PROVE Handed'
    <2>1. Sound
      BY <1>2, BoundsAssumption DEF Sound, refusing, FaultInv, IInv, TypeOK
    <2> QED BY <1>2, <2>1, NextHands DEF FaultInv
  <1> QED BY <1>1, <1>2 DEF FaultInv

\* And it holds in FaultSpec's first states.
LEMMA FaultStart == FaultInit => FaultInv
  <1> SUFFICES ASSUME FaultInit PROVE FaultInv
    OBVIOUS
  <1>1. Handed
    BY DEF FaultInit, FirstStart, Handed, GravyOwned
  <1> QED BY <1>1, FaultInitKeeps DEF FaultInv

\* Who has a ticket after one of the human's events, as Custody allows it.
LEMMA HumanHandEdges ==
  ASSUME NEW s, NEW to, NEW ev \in HumanEvents, Transition(s, ev, to)
  PROVE  \/ Hand(s) = Hand(to)
         \/ Hand(s) = "human" /\ Hand(to) \in {"queue", "lander", "ended"}
         \/ Hand(s) = "queue" /\ Hand(to) = "ended"
         \/ Hand(s) = "lander" /\ Hand(to) \in {"ended", "yours", "human"}
         \/ Hand(s) = "yours" /\ Hand(to) = "ended"
  BY DEF Transition, transitions, HumanEvents, QueueMoves, Hand

\* A run's step, seen by Custody.
LEMMA GoStepCustody ==
  ASSUME FaultInv, ~refusing, ~refusing', NEW t \in Tickets, GoStep(t)
  PROVE  [Kept!Next]_<<hands, holding>>
  <1> USE DEF FaultInv
  <1>1. \A u \in Tickets \ {t} : pc'[u] = pc[u] /\ HandOf(u)' = HandOf(u)
    BY GoStepFrame DEF HandOf, historyVars
  <1>2. ASSUME state'[t] = state[t] PROVE HandOf(t)' = HandOf(t)
    BY <1>2, GoStepFrame DEF HandOf, historyVars
  <1>3. CASE pc[t] = "claim" /\ pc'[t] \in Working /\ slots < Slots /\ state' = state
    <2>1. t \notin holding /\ holding' = holding \cup {t} /\ hands' = hands
      BY <1>1, <1>2, <1>3 DEF holding, hands, Working
    <2>2. Kept!Cardinality(holding) < Slots
      <3>1. Cardinality(holding) < Slots
        BY <1>3 DEF holding, IInv, SlotsMatch
      <3>2. Kept!Cardinality(holding) = Cardinality(holding)
        BY DEF Kept!Cardinality, Cardinality
      <3> QED BY <3>1, <3>2
    <2>3. Kept!ClaimSlot(t)
      BY <2>1, <2>2 DEF Kept!ClaimSlot
    <2> QED BY <2>3 DEF Kept!Next
  <1>4. CASE pc[t] = "claim" /\ pc'[t] = "idle" /\ state' = state
    BY <1>1, <1>2, <1>4, HandsStay DEF Working
  <1>5. CASE pc[t] = "done" /\ pc'[t] = "idle" /\ state' = state
    <2>1. t \in holding /\ holding' = holding \ {t} /\ hands' = hands
      BY <1>1, <1>2, <1>5 DEF holding, hands, Working
    <2>2. hands[t] # "gravy"
      <3>1. state[t] \in States /\ (t \notin LeftBehind => state[t] \notin GravyOwned)
        BY <1>5 DEF IInv, TypeOK, Handed
      <3> QED BY <3>1 DEF hands, HandOf, LeftBehind, Hand, GravyOwned, States
    <2> QED BY <2>1, <2>2 DEF Kept!Next, Kept!FreeSlot
  <1>6. ASSUME pc[t] \in Working, pc'[t] \in Working
        PROVE  /\ \A u \in Tickets : pc'[u] \in Working <=> pc[u] \in Working
               /\ t \in holding
    BY <1>1, <1>6 DEF holding
  <1>7. CASE pc[t] \in Working /\ pc'[t] \in Working
    <2>1. CASE state'[t] = state[t]
      BY <1>1, <1>2, <1>6, <1>7, <2>1, HandsStay
    <2>2. CASE state[t] = "ready" /\ state'[t] = "assigned" /\ t \notin LeftBehind'
      <3>1. HandOf(t) \in {"queue", "lost"} /\ HandOf(t)' \in {"gravy"}
        BY <2>2 DEF HandOf, Hand, GravyOwned, LeftBehind
      <3>2. Kept!Pass(t, {"queue", "lost"}, {"gravy"})
        BY <1>1, <1>6, <1>7, <3>1, HandsPass
      <3> QED BY <1>6, <1>7, <3>2 DEF Kept!Next, Kept!Take
    <2>3. CASE state[t] \in GravyOwned /\ state'[t] \in GravyOwned
      <3>1. HandOf(t)' = HandOf(t)
        BY <2>3, GoStepFrame DEF HandOf, historyVars, GravyOwned, Hand
      <3> QED BY <1>1, <1>6, <1>7, <3>1, HandsStay
    <2>4. CASE state[t] \in GravyOwned /\ state'[t] \in {"ready", "review", "needs_you"}
      <3>0. UNCHANGED historyVars
        BY <2>4, GoStepFrame DEF GravyOwned
      <3>1. CASE t \in overwritten
        <4>1. HandOf(t)' = HandOf(t)
          BY <3>0, <3>1 DEF HandOf, historyVars
        <4> QED BY <1>1, <1>6, <1>7, <4>1, HandsStay
      <3>2. CASE t \notin overwritten
        <4>1. HandOf(t) \in {"gravy", "dropped"} /\ HandOf(t)' \in {"queue", "human"}
          BY <2>4, <3>0, <3>2 DEF HandOf, historyVars, Hand, GravyOwned
        <4>2. Kept!Pass(t, {"gravy", "dropped"}, {"queue", "human"})
          BY <1>1, <1>6, <1>7, <4>1, HandsPass
        <4> QED BY <1>6, <1>7, <4>2 DEF Kept!Next, Kept!GiveUp
      <3> QED BY <3>1, <3>2
    <2> QED BY <1>7, <2>1, <2>2, <2>3, <2>4, GoStepEffect DEF Working
  <1> QED BY <1>3, <1>4, <1>5, <1>7, GoStepEffect

\* A human's operation, seen by Custody.
LEMMA HumanCustody ==
  ASSUME FaultInv, ~refusing, ~refusing', NEW t \in Tickets, HumanActs(t)
  PROVE  [Kept!Next]_<<hands, holding>>
  <1> USE DEF FaultInv
  <1>1. /\ \A u \in Tickets \ {t} : HandOf(u)' = HandOf(u)
        /\ \A u \in Tickets : pc'[u] \in Working <=> pc[u] \in Working
    BY HumanMoves DEF runVars, HandOf
  <1>2. CASE state' = state /\ overwritten' = overwritten
    <2>1. HandOf(t)' = HandOf(t)
      BY <1>2, HumanMoves DEF HandOf, GravyOwned
    <2> QED BY <1>1, <2>1, HandsStay
  <1>3. CASE SaveRow(t)
    <2>1. CASE t \in overwritten'
      <3>1. hands' = [hands EXCEPT ![t] = "lost"]
        BY <1>1, <2>1 DEF hands, HandOf
      <3>2. holding' = holding
        BY <1>1 DEF holding
      <3> QED BY <3>1, <3>2 DEF Kept!Next, Kept!Lose
    <2>2. CASE t \notin overwritten'
      <3>1. state'[t] = state[t] /\ forsaken' = forsaken /\ t \notin overwritten
        BY <1>3, <2>2 DEF SaveRow, IInv, TypeOK
      <3>2. HandOf(t)' = HandOf(t)
        BY <2>2, <3>1 DEF HandOf
      <3> QED BY <1>1, <3>2, HandsStay
    <2> QED BY <2>1, <2>2
  <1>4. ASSUME NEW ev \in HumanEvents, SetTicketState(t, ev), ~SaveRow(t)
        PROVE  [Kept!Next]_<<hands, holding>>
    <2>1. Transition(state[t], ev, state'[t])
      BY <1>4 DEF SetTicketState, IInv, TypeOK
    <2>2. overwritten' = overwritten
      BY <1>4, HumanMoves
    <2>3. CASE t \in overwritten
      <3>1. HandOf(t)' = HandOf(t)
        BY <2>2, <2>3 DEF HandOf
      <3> QED BY <1>1, <3>1, HandsStay
    <2>4. CASE t \notin overwritten
      <3>0. HandOf(t) = Hand(state[t]) /\ HandOf(t)' = Hand(state'[t])
        BY <2>1, <2>2, <2>4, HumanEdges DEF HandOf
      <3>1. CASE Hand(state[t]) = Hand(state'[t])
        BY <1>1, <3>0, <3>1, HandsStay
      <3>2. CASE Hand(state[t]) = "human" /\ Hand(state'[t]) \in {"queue", "lander", "ended"}
        <4>1. Kept!Pass(t, {"human"}, {"queue", "lander", "ended"})
          BY <1>1, <3>0, <3>2, HandsPass
        <4> QED BY <4>1 DEF Kept!Next, Kept!Send
      <3>3. CASE Hand(state[t]) = "queue" /\ Hand(state'[t]) = "ended"
        <4>1. Kept!Pass(t, {"queue"}, {"ended"})
          BY <1>1, <3>0, <3>3, HandsPass
        <4> QED BY <4>1 DEF Kept!Next, Kept!Withdraw
      <3>4. CASE Hand(state[t]) = "lander" /\ Hand(state'[t]) \in {"ended", "yours", "human"}
        <4>1. Kept!Pass(t, {"lander"}, {"ended", "yours", "human"})
          BY <1>1, <3>0, <3>4, HandsPass
        <4> QED BY <4>1 DEF Kept!Next, Kept!Landed
      <3>5. CASE Hand(state[t]) = "yours" /\ Hand(state'[t]) = "ended"
        <4>1. Kept!Pass(t, {"yours"}, {"ended"})
          BY <1>1, <3>0, <3>5, HandsPass
        <4> QED BY <4>1 DEF Kept!Next, Kept!Merged
      <3> QED BY <2>1, <3>1, <3>2, <3>3, <3>4, <3>5, HumanHandEdges
    <2> QED BY <2>3, <2>4
  <1> QED BY <1>2, <1>3, <1>4, HumanMoves

\* A step of recovery, seen by Custody: nobody holds a slot yet.
LEMMA ReconcileCustody ==
  ASSUME FaultInv, ~refusing, ~refusing', NEW t \in Tickets,
         \/ ReconcileRun(t) \/ ParkInterrupted(t) \/ RaiseInterrupted(t)
         \/ RaiseInterruptedReview(t) \/ ReconcileReview(t)
         \/ RaiseInterruptedLanding(t) \/ ReconcileLanding(t)
  PROVE  [Kept!Next]_<<hands, holding>>
  <1> USE DEF FaultInv
  <1>1. /\ \A u \in Tickets \ {t} : HandOf(u)' = HandOf(u)
        /\ \A u \in Tickets : pc'[u] \in Working <=> pc[u] \in Working
        /\ UNCHANGED <<forsaken, overwritten>> /\ daemon # "up"
    BY ReconcileMoves DEF runVars, HandOf, historyVars
  <1>2. holding = {}
    BY <1>1 DEF holding, IInv, OnlyServingRuns, Working
  <1>3. CASE state'[t] = state[t] \/ t \in overwritten
    <2>1. HandOf(t)' = HandOf(t)
      BY <1>1, <1>3 DEF HandOf
    <2> QED BY <1>1, <2>1, HandsStay
  <1>4. CASE /\ state[t] \in GravyOwned /\ state'[t] \in {"review", "needs_you"}
             /\ t \notin overwritten
    <2>1. HandOf(t) \in {"gravy", "dropped"} /\ HandOf(t)' \in {"human"}
      BY <1>1, <1>4 DEF GravyOwned, Hand, HandOf
    <2>2. Kept!Pass(t, {"gravy", "dropped"}, {"human"})
      BY <1>1, <2>1, HandsPass
    <2> QED BY <1>2, <2>2 DEF Kept!Next, Kept!Recover
  <1>5. CASE state[t] = "landing" /\ state'[t] = "needs_you" /\ t \notin overwritten
    <2>1. HandOf(t) \in {"lander"} /\ HandOf(t)' \in {"ended", "yours", "human"}
      BY <1>1, <1>5 DEF Hand, HandOf, GravyOwned
    <2>2. Kept!Pass(t, {"lander"}, {"ended", "yours", "human"})
      BY <1>1, <2>1, HandsPass
    <2> QED BY <2>2 DEF Kept!Next, Kept!Landed
  <1>6. \/ state'[t] = state[t]
        \/ state[t] \in GravyOwned /\ state'[t] \in {"review", "needs_you"}
        \/ state[t] = "landing" /\ state'[t] = "needs_you"
    <2> USE DEF IInv, TypeOK
    <2>1. CASE ReconcileRun(t) \/ RaiseInterrupted(t) \/ RaiseInterruptedReview(t)
               \/ RaiseInterruptedLanding(t)
      BY <2>1 DEF ReconcileRun, RaiseInterrupted, RaiseInterruptedReview, RaiseInterruptedLanding
    <2>2. CASE ParkInterrupted(t)
      <3>1. \A s, to : Transition(s, "run_failed", to) \/ Transition(s, "validation_exhausted", to)
                         => s \in GravyOwned /\ to = "needs_you"
        BY DEF Transition, transitions, GravyOwned
      <3> QED BY <2>2, <3>1 DEF ParkInterrupted, Advance, SetTicketState, InterruptedEvent
    <2>3. CASE ReconcileReview(t)
      BY <2>3, RunEdges DEF ReconcileReview, Advance, SetTicketState, GravyOwned
    <2>4. CASE ReconcileLanding(t)
      <3>1. \A s, to : Transition(s, "land_failed", to) => s = "landing" /\ to = "needs_you"
        BY DEF Transition, transitions
      <3> QED BY <2>4, <3>1 DEF ReconcileLanding, Advance, SetTicketState
    <2> QED BY <2>1, <2>2, <2>3, <2>4
  <1> QED BY <1>3, <1>4, <1>5, <1>6

\* Every step of the specification is one of Custody's, or one that it does not see.
LEMMA StepCustody ==
  ASSUME FaultInv, [Next]_vars
  PROVE  [Kept!Next]_<<hands, holding>>
  <1>1. FaultInv' /\ (refusing' <=> refusing)
    BY NextKeepsFault, RefusingStays DEF FaultInv
  <1>2. CASE refusing
    <2>1. hands' = hands
      BY <1>1, <1>2 DEF hands
    <2>2. holding' = holding
      BY <1>1, <1>2 DEF holding
    <2> QED BY <2>1, <2>2
  <1>3. CASE ~refusing
    <2>0. ~refusing /\ ~refusing'
      BY <1>1, <1>3
    <2>1. CASE Tick \/ Boot \/ UNCHANGED vars
      <3>1. state' = state /\ pc' = pc /\ UNCHANGED <<forsaken, overwritten>>
        BY <2>1 DEF Tick, Boot, BootRest, vars, dbVars, runVars, historyVars
      <3>2. \A t \in Tickets : HandOf(t)' = HandOf(t)
        BY <3>1 DEF HandOf
      <3> QED BY <2>0, <3>1, <3>2, HandsStay
    <2>2. CASE Crash \/ Stop
      <3>1. /\ state' = state /\ UNCHANGED <<forsaken, overwritten>>
            /\ \A t \in Tickets : pc'[t] = "idle"
        BY <2>2 DEF Crash, Stop, DaemonGone, dbVars, historyVars
      <3>2. hands' = hands
        BY <2>0, <3>1 DEF hands, HandOf
      <3>3. holding' = {}
        BY <2>0, <3>1 DEF holding, Working
      <3> QED BY <3>2, <3>3 DEF Kept!Next, Kept!Stopped
    <2>3. CASE NextPass
      <3>1. /\ UNCHANGED <<state, overwritten>> /\ forsaken' \in {forsaken, {}}
            /\ \A t \in Tickets : pc'[t] = "idle"
        BY <2>3 DEF NextPass, BootRest, dbVars, runVars, FaultInv, IInv, OnlyServingRuns
      <3>2. CASE forsaken' = forsaken
        <4>1. hands' = hands
          BY <2>0, <3>1, <3>2 DEF hands, HandOf
        <4>2. holding' = {}
          BY <2>0, <3>1 DEF holding, Working
        <4> QED BY <4>1, <4>2 DEF Kept!Next, Kept!Stopped
      <3>3. CASE forsaken' = {}
        <4>1. \A t \in Tickets : HandOf(t)' = IF HandOf(t) = "dropped" THEN "gravy" ELSE HandOf(t)
          BY <3>1, <3>3 DEF HandOf, Hand, GravyOwned, FaultInv, IInv, TypeOK, States
        <4>2. hands' = [t \in Tickets |-> IF hands[t] = "dropped" THEN "gravy" ELSE hands[t]]
          BY <2>0, <4>1 DEF hands
        <4>3. holding' = {}
          BY <2>0, <3>1 DEF holding, Working
        <4> QED BY <4>2, <4>3 DEF Kept!Next, Kept!Stopped
      <3> QED BY <3>1, <3>2, <3>3
    <2>4. ASSUME NEW t \in Tickets, GoStep(t) PROVE [Kept!Next]_<<hands, holding>>
      BY <2>0, <2>4, GoStepCustody
    <2>5. ASSUME NEW t \in Tickets, HumanActs(t) PROVE [Kept!Next]_<<hands, holding>>
      BY <2>0, <2>5, HumanCustody
    <2>6. ASSUME NEW t \in Tickets, StoreFault(t) PROVE FALSE
      BY <2>0, <2>6, BoundsAssumption DEF StoreFault, refusing, FaultInv, IInv, TypeOK
    <2>7. ASSUME NEW t \in Tickets, Start(t) \/ KillRun(t) \/ OrphanExits(t)
          PROVE  [Kept!Next]_<<hands, holding>>
      <3>1. UNCHANGED <<state, forsaken, overwritten>>
        BY <2>7 DEF Start, KillRun, OrphanExits, dbVars, historyVars
      <3>2. \A u \in Tickets : HandOf(u)' = HandOf(u)
        BY <3>1 DEF HandOf
      <3>3. \A u \in Tickets : pc'[u] \in Working <=> pc[u] \in Working
        BY <2>7 DEF Start, LoopClaims, KillRun, OrphanExits, goto, runVars, Working, FaultInv,
                    IInv, TypeOK
      <3> QED BY <2>0, <3>2, <3>3, HandsStay
    <2>8. ASSUME NEW t \in Tickets, Panic(t) PROVE [Kept!Next]_<<hands, holding>>
      <3>1. /\ UNCHANGED <<state, overwritten>> /\ forsaken' = forsaken \cup {t}
            /\ pc[t] \in Working /\ pc'[t] = "idle"
            /\ \A u \in Tickets \ {t} : pc'[u] = pc[u]
        BY <2>8 DEF Panic, RunOver, goto, dbVars, FaultInv, IInv, TypeOK
      <3>2. t \in holding /\ holding' = holding \ {t}
        BY <2>0, <3>1 DEF holding, Working
      <3>3. \A u \in Tickets \ {t} : HandOf(u)' = HandOf(u)
        BY <3>1 DEF HandOf
      <3>4. CASE HandOf(t) = "gravy"
        <4>1. HandOf(t)' = "dropped"
          BY <3>1, <3>4 DEF HandOf, Hand, GravyOwned, FaultInv, IInv, TypeOK, States
        <4>2. hands[t] = "gravy" /\ hands' = [hands EXCEPT ![t] = "dropped"]
          BY <2>0, <3>3, <3>4, <4>1 DEF hands
        <4> QED BY <3>2, <4>2 DEF Kept!Next, Kept!Drop
      <3>5. CASE HandOf(t) # "gravy"
        <4>0. state[t] \in GravyOwned => Hand(state[t]) = "gravy"
          BY DEF Hand, GravyOwned
        <4>1. HandOf(t)' = HandOf(t)
          BY <3>1, <3>5, <4>0 DEF HandOf
        <4>2. hands[t] # "gravy" /\ hands' = hands
          BY <2>0, <3>3, <3>5, <4>1 DEF hands
        <4> QED BY <3>2, <4>2 DEF Kept!Next, Kept!FreeSlot
      <3> QED BY <3>4, <3>5
    <2>9. ASSUME NEW t \in Tickets,
                 \/ ReconcileRun(t) \/ ParkInterrupted(t) \/ RaiseInterrupted(t)
                 \/ RaiseInterruptedReview(t) \/ ReconcileReview(t)
                 \/ RaiseInterruptedLanding(t) \/ ReconcileLanding(t)
          PROVE  [Kept!Next]_<<hands, holding>>
      BY <2>0, <2>9, ReconcileCustody
    <2> QED BY <2>1, <2>2, <2>3, <2>4, <2>5, <2>6, <2>7, <2>8, <2>9
            DEF Next, BootStep, HumanActs
  <1> QED BY <1>2, <1>3

\* Orchestration implements Custody for any number of tickets, slots, crashes, stops and mishaps: a
\* ticket is in one hand at a time, Gravy's only with a slot that is kept as long, and out of a dead
\* daemon it comes back to the human only; a panic drops its own ticket and an old row saved over a
\* ticket loses that one, and nothing else (agentrun.Run, Reconcile and the human's operations).
THEOREM CustodyHolds == FaultSpec => CustodyKept
  <1>1. FaultInit => Kept!Init
    <2> SUFFICES ASSUME FaultInit PROVE Kept!Init
      OBVIOUS
    <2>1. hands = [t \in Tickets |-> "queue"]
      BY DEF FaultInit, FirstStart, hands, HandOf, Hand, GravyOwned
    <2>2. holding = {}
      BY DEF FaultInit, FirstStart, holding, Working
    <2> QED BY <2>1, <2>2 DEF Kept!Init
  <1>2. FaultInit => FaultInv
    BY FaultStart
  <1>3. FaultInv /\ [Next]_vars => FaultInv'
    BY NextKeepsFault
  <1>4. FaultInv /\ [Next]_vars => [Kept!Next]_<<hands, holding>>
    BY StepCustody
  <1> QED BY <1>1, <1>2, <1>3, <1>4, PTL DEF FaultSpec, CustodyKept, Kept!Spec

(***************************************************************************)
(* What reconciliation has dealt with when the daemon begins to serve.       *)
(***************************************************************************)

\* The pass over interrupted reviews has in `todo` each one still to be ended; the pass over
\* landings finds none left, and has in `todo` each landing nobody carries on, but for those cut
\* off since it made its list.
Recovering ==
  /\ daemon \in {"reviews", "reviewed"} =>
       \A t \in Tickets \ overwritten : state[t] = "reviewing" => t \in todo
  /\ daemon \in {"landings", "landed"} =>
       \A t \in Tickets \ overwritten :
         /\ state[t] # "reviewing"
         /\ state[t] = "landing" => human[t] \in {"approved", "landing"} \/ t \in todo \cup forsaken
  /\ ReviewsAndLandingsRecovered

\* A human's operation leaves a ticket in Landing only while it carries the landing on, where it
\* found one somebody else has to see to, or where it was cut off or saved an old row.
LEMMA HumanLanding ==
  ASSUME IInv, NEW t \in Tickets, HumanActs(t)
  PROVE  state'[t] = "landing" =>
           \/ human'[t] \in {"approved", "landing"} \/ t \in LeftBehind'
           \/ /\ state[t] = "landing" /\ human[t] \notin {"approved", "landing"}
              /\ forsaken' = forsaken
  <1> USE DEF IInv, TypeOK, step, SetTicketState, LeftBehind, historyVars
  <1>1. CASE MoveTicket(t) \/ ReadRow(t) \/ Acknowledge(t) \/ Decide(t)
    BY <1>1 DEF MoveTicket, QueueMoves, ReadRow, Acknowledge, Decide, Transition, transitions
  <1>2. CASE SaveRow(t)
    BY <1>2 DEF SaveRow
  <1>3. CASE Send(t)
    BY <1>3 DEF Send, Transition, transitions
  <1>4. CASE Resolve(t) \/ Approve(t)
    BY <1>4 DEF Resolve, Approve
  <1>5. CASE Continue(t) \/ MarkMerged(t)
    BY <1>5 DEF Continue, MarkMerged, Transition, transitions
  <1>6. CASE ContinueFails(t) \/ LandRaise(t)
    BY <1>6 DEF ContinueFails, LandRaise
  <1>7. CASE LandEnds(t)
    BY <1>7 DEF LandEnds, Transition, transitions
  <1>8. CASE Interrupted(t)
    BY <1>8 DEF Interrupted
  <1> QED BY <1>1, <1>2, <1>3, <1>4, <1>5, <1>6, <1>7, <1>8 DEF HumanActs, HumanChoice, HumanStep

\* A human acts at any time, during recovery too, and disturbs none of it.
LEMMA HumanRecovering ==
  ASSUME IInv, Recovering, NEW t \in Tickets, HumanActs(t)
  PROVE  Recovering'
  <1>1. /\ \A u \in Tickets \ {t} : /\ state'[u] = state[u] /\ human'[u] = human[u]
                                    /\ u \in overwritten' <=> u \in overwritten
                                    /\ u \in forsaken' <=> u \in forsaken
        /\ state'[t] = state[t] \/ state'[t] # "reviewing" \/ t \in overwritten'
        /\ overwritten \subseteq overwritten' /\ forsaken \subseteq forsaken'
        /\ UNCHANGED <<pc, daemon, todo>>
    BY HumanMoves DEF runVars, daemonVars, GravyOwned
  <1>2. state'[t] = "landing" =>
          \/ human'[t] \in {"approved", "landing"} \/ t \in LeftBehind'
          \/ state[t] = "landing" /\ human[t] \notin {"approved", "landing"}
    BY HumanLanding
  <1> QED BY <1>1, <1>2 DEF Recovering, ReviewsAndLandingsRecovered, LeftBehind

\* A run's goroutine reaches Reviewing only at the step that starts its advisory review, and
\* leaves it when that ends.
LEMMA GoStepRecovering ==
  ASSUME IInv, Recovering, NEW t \in Tickets, GoStep(t)
  PROVE  Recovering'
  <1> USE DEF IInv, TypeOK
  <1>1. /\ \A u \in Tickets \ {t} : state'[u] = state[u] /\ pc'[u] = pc[u]
        /\ UNCHANGED <<daemon, todo, human>>
        /\ \/ UNCHANGED historyVars
           \/ /\ state'[t] = "assigned"
              /\ forsaken' = forsaken \ {t} /\ overwritten' = overwritten \ {t}
    BY GoStepFrame DEF daemonVars, humanVars
  <1>2. daemon = "up"
    <2>1. pc[t] # "idle"
      BY DEF GoStep, Claim, Assign, Prepare, CreateRun, StartRunning, Launch, AgentExit, RecordRun,
             ProviderLimit, AgentFinished, Validate, Retry, ValidationPassed, Reviewed,
             RaiseReview, Park, Rescue, RaiseParked, Finish
    <2> QED BY <2>1 DEF OnlyServingRuns
  <1>3. state'[t] = "landing" => state[t] = "landing"
    BY GoStepEffect DEF GravyOwned
  <1>4. ASSUME state'[t] = "reviewing", t \notin LeftBehind PROVE pc'[t] = "advise"
    <2> USE <1>4 DEF goto, Rest, dbVars, Recovering, ReviewsAndLandingsRecovered, LeftBehind
    <2>1. CASE ValidationPassed(t)
      BY <1>2, <2>1, RunEdges DEF ValidationPassed, Move, Advance, SetTicketState
    <2>2. CASE Reviewed(t)
      BY <2>2, RunEdges, OwnEventsLegal DEF Reviewed, Move, Advance, SetTicketState, OnlyWriter
    <2>3. CASE \/ Claim(t) \/ Prepare(t) \/ CreateRun(t) \/ Launch(t) \/ AgentExit(t)
               \/ RecordRun(t) \/ Validate(t) \/ RaiseReview(t) \/ RaiseParked(t) \/ Finish(t)
      BY <1>2, <2>3 DEF Claim, Prepare, CreateRun, Launch, AgentExit, RecordRun, Validate,
                        RaiseReview, RaiseParked, Finish
    <2>4. CASE Assign(t) \/ StartRunning(t) \/ ProviderLimit(t) \/ AgentFinished(t) \/ Retry(t)
      BY <1>2, <2>4, RunEdges DEF Assign, StartRunning, ProviderLimit, AgentFinished, Retry, Move,
                                  Advance, SetTicketState
    <2>5. CASE Park(t)
      BY <1>2, <2>5, RunEdges DEF Park, ParkEvent, Move, Advance, SetTicketState
    <2>6. CASE Rescue(t)
      BY <1>2, <2>6, RunEdges DEF Rescue, ParkEvent, Advance, SetTicketState
    <2> QED BY <2>1, <2>2, <2>3, <2>4, <2>5, <2>6 DEF GoStep
  <1> QED BY <1>1, <1>2, <1>3, <1>4
          DEF Recovering, ReviewsAndLandingsRecovered, LeftBehind, historyVars

\* Recovery strikes a ticket off its list only when it has moved it, or found it moved.
LEMMA ReconcileRecovering ==
  ASSUME IInv, Recovering, NEW t \in Tickets,
         \/ ReconcileRun(t) \/ ParkInterrupted(t) \/ RaiseInterrupted(t)
         \/ RaiseInterruptedReview(t) \/ ReconcileReview(t)
         \/ RaiseInterruptedLanding(t) \/ ReconcileLanding(t)
  PROVE  Recovering'
  <1> USE DEF Recovering, ReviewsAndLandingsRecovered, IInv, TypeOK
  <1>1. /\ \A u \in Tickets \ {t} : state'[u] = state[u]
        /\ state'[t] = state[t] \/ state'[t] \in {"review", "needs_you"}
        /\ UNCHANGED <<human, forsaken, overwritten>> /\ daemon' # "up"
    BY ReconcileMoves DEF humanVars, historyVars
  <1>2. CASE ReconcileRun(t) \/ ParkInterrupted(t) \/ RaiseInterrupted(t)
    <2>1. daemon' \in {"runs", "park", "raise", "refused"}
      BY <1>2 DEF ReconcileRun, ParkInterrupted, RaiseInterrupted, Advance
    <2> QED BY <2>1
  <1>3. CASE RaiseInterruptedReview(t) \/ RaiseInterruptedLanding(t)
    <2>1. /\ UNCHANGED <<state, todo>>
          /\ \/ daemon = "reviews" /\ daemon' = "reviewed"
             \/ daemon = "landings" /\ daemon' = "landed"
      BY <1>3 DEF RaiseInterruptedReview, RaiseInterruptedLanding
    <2> QED BY <1>1, <2>1
  <1>4. CASE ReconcileReview(t)
    <2>1. state[t] = "reviewing" => state'[t] = "review"
      BY <1>4, OwnEventsLegal, RunEdges DEF ReconcileReview, Advance, SetTicketState
    <2>2. daemon = "reviewed" /\ daemon' \in {"reviews", "refused"} /\ todo' = todo \ {t}
      BY <1>4 DEF ReconcileReview, Advance
    <2> QED BY <1>1, <2>1, <2>2
  <1>5. CASE ReconcileLanding(t)
    <2>1. /\ Legal("landing", "land_failed")
          /\ \A s, to : Transition(s, "land_failed", to) => to = "needs_you"
      BY DEF Legal, Transition, transitions, States
    <2>2. state[t] = "landing" => state'[t] = "needs_you"
      BY <1>5, <2>1 DEF ReconcileLanding, Advance, SetTicketState
    <2>3. daemon = "landed" /\ daemon' = "landings" /\ todo' = todo \ {t}
      BY <1>5 DEF ReconcileLanding
    <2> QED BY <1>1, <2>2, <2>3
  <1> QED BY <1>2, <1>3, <1>4, <1>5

\* Every step keeps what recovery has achieved, where the store takes its writes.
LEMMA NextRecovering ==
  ASSUME FaultInv, ~refusing => Recovering, [Next]_vars
  PROVE  ~refusing' => Recovering'
  <1> SUFFICES ASSUME ~refusing PROVE Recovering'
    BY RefusingStays DEF FaultInv
  <1>0. IInv /\ Recovering
    BY DEF FaultInv
  <1> USE <1>0
  <1>1. CASE Tick \/ UNCHANGED vars
    BY <1>1 DEF Tick, vars, dbVars, runVars, humanVars, daemonVars, historyVars, Recovering,
                ReviewsAndLandingsRecovered, LeftBehind
  <1>2. CASE Crash \/ Stop \/ Boot
    <2>1. daemon' \in {"down", "runs"}
      BY <1>2 DEF Crash, Stop, DaemonGone, Boot
    <2> QED BY <2>1 DEF Recovering, ReviewsAndLandingsRecovered
  <1>3. CASE NextPass
    BY <1>3 DEF NextPass, InterruptedLandings, BootRest, dbVars, runVars, humanVars, Recovering,
                ReviewsAndLandingsRecovered, LeftBehind
  <1>4. ASSUME NEW t \in Tickets, GoStep(t) PROVE Recovering'
    BY <1>4, GoStepRecovering
  <1>5. ASSUME NEW t \in Tickets, HumanActs(t) PROVE Recovering'
    BY <1>5, HumanRecovering
  <1>6. ASSUME NEW t \in Tickets, StoreFault(t) PROVE FALSE
    BY <1>6, BoundsAssumption DEF StoreFault, refusing, IInv, TypeOK
  <1>7. ASSUME NEW t \in Tickets, Start(t) \/ KillRun(t) \/ OrphanExits(t) \/ Panic(t)
        PROVE  Recovering'
    <2>1. UNCHANGED <<state, human, daemon, todo, overwritten>> /\ forsaken \subseteq forsaken'
      BY <1>7 DEF Start, KillRun, OrphanExits, Panic, dbVars, humanVars, daemonVars, historyVars
    <2>2. \A u \in Tickets : pc[u] = "advise" => pc'[u] = "advise" \/ u \in forsaken'
      BY <1>7 DEF Start, LoopClaims, KillRun, OrphanExits, Panic, RunOver, goto, runVars,
                  IInv, TypeOK
    <2> QED BY <2>1, <2>2 DEF Recovering, ReviewsAndLandingsRecovered, LeftBehind
  <1>8. ASSUME NEW t \in Tickets,
               \/ ReconcileRun(t) \/ ParkInterrupted(t) \/ RaiseInterrupted(t)
               \/ RaiseInterruptedReview(t) \/ ReconcileReview(t)
               \/ RaiseInterruptedLanding(t) \/ ReconcileLanding(t)
        PROVE  Recovering'
    BY <1>8, ReconcileRecovering
  <1> QED BY <1>1, <1>2, <1>3, <1>4, <1>5, <1>6, <1>7, <1>8 DEF Next, BootStep, HumanActs

\* After any number of stops, crashes and recoveries that were themselves cut short, a daemon that
\* serves has left no review and no landing without somebody working on it but those left behind
\* since it listed them, and the pool is exact even where writes are refused (daemon.Reconcile and
\* the deferred releases of agentrun.Run).
THEOREM RecoveryComplete == FaultSpec => []Recovered
  <1> DEFINE Inv == FaultInv /\ (~refusing => Recovering)
  <1>1. FaultInit => Inv
    BY FaultStart DEF FaultInit, FirstStart, Recovering, ReviewsAndLandingsRecovered
  <1>2. Inv /\ [Next]_vars => Inv'
    BY NextKeepsFault, NextRecovering
  <1>3. Inv => Recovered
    BY DEF FaultInv, IInv, Recovering, Recovered
  <1> QED BY <1>1, <1>2, <1>3, PTL DEF FaultSpec

(***************************************************************************)
(* The Needs You queue.                                                     *)
(***************************************************************************)

\* How a ticket's state s, its rows r, its goroutine's position p and its human's operation h fit
\* together: rows are there where nobody decides exactly on what waits for the human, and between
\* the two writes of a decision, or of a run that ends, the other side keeps off the ticket.
Fits(s, r, p, h) ==
  /\ h \in Aside => /\ s = "review" /\ p # "raise" => r # "none"
                    /\ s = "needs_you" /\ p # "parkraise" => r # "none"
                    /\ r # "none" => NeedsHuman(s)
  /\ h = "resolve"   => s \in {"ready", "rejected"}
  /\ h = "continue"  => s = "review" /\ r # "none"
  /\ h = "approved"  => s = "landing"
  /\ h = "landing"   => s = "landing" /\ r = "none"
  /\ h = "landraise" => s = "needs_you" /\ r = "none"
  /\ s \in GravyOwned => h \in Aside /\ r = "none"
  /\ p = "raise"     => s = "review" /\ r = "none" /\ h \in Aside
  /\ p = "parkraise" => s = "needs_you" /\ r = "none" /\ h \in Aside

AllFit == \A t \in Tickets \ crossed : Fits(state[t], rows[t], pc[t], human[t])

\* Where recovery parks no landing, the one that lands a ticket has it in Landing.
LandersLand == \A t \in Tickets : human[t] \in {"approved", "landing"} => state[t] = "landing"

\* A daemon that starts for the first time has nothing to recover.
NothingToReconcile ==
  daemon # "up" =>
    /\ daemon \in {"down", "runs", "reviews", "landings"} /\ todo = {}
    /\ \A t \in Tickets : /\ unfinished[t] = 0 /\ rows[t] = "none"
                          /\ state[t] \in {"backlog", "ready", "rejected"}
                          /\ human[t] \in Aside \cup {"resolve"}
                          /\ held[t] \in {Unread, "backlog", "ready", "rejected"}

QueueInv == IInv /\ Sound /\ AllFit /\ LandersLand /\ NothingToReconcile

\* A step of one ticket keeps every ticket fitting if it keeps that one.
LEMMA FitLocal ==
  ASSUME AllFit, NEW t \in Tickets, crossed \ {t} \subseteq crossed',
         \A u \in Tickets \ {t} :
           /\ state'[u] = state[u] /\ rows'[u] = rows[u]
           /\ pc'[u] = pc[u] /\ human'[u] = human[u],
         t \notin crossed' => Fits(state'[t], rows'[t], pc'[t], human'[t])
  PROVE  AllFit'
  BY DEF AllFit

\* A run's step that writes no state and raises nothing keeps its ticket fitting.
LEMMA FitQuiet ==
  ASSUME NEW s, NEW r, NEW p, NEW q, NEW h, Fits(s, r, p, h),
         p \notin {"raise", "parkraise"}, q \notin {"raise", "parkraise"}
  PROVE  Fits(s, r, q, h)
  BY DEF Fits

\* A run's own step keeps the rows of its ticket right: it takes the ticket only when no operation
\* is half done, and its last write is the row of the state it handed the ticket on in.
LEMMA GoStepFits ==
  ASSUME IInv, AllFit, NEW t \in Tickets, GoStep(t)
  PROVE  AllFit'
  <1> USE DEF IInv, TypeOK
  <1>1. /\ \A u \in Tickets \ {t} : state'[u] = state[u] /\ rows'[u] = rows[u] /\ pc'[u] = pc[u]
        /\ human' = human /\ crossed \subseteq crossed'
    BY GoStepFrame DEF humanVars, historyVars
  <1>2. SUFFICES ASSUME t \notin crossed'
                 PROVE  Fits(state'[t], rows'[t], pc'[t], human[t])
    BY <1>1, FitLocal
  <1>3. Fits(state[t], rows[t], pc[t], human[t])
    BY <1>1, <1>2 DEF AllFit
  <1> USE DEF goto, Rest, dbVars
  <1>4. CASE \/ Claim(t) \/ Prepare(t) \/ CreateRun(t) \/ Launch(t) \/ AgentExit(t) \/ RecordRun(t)
             \/ Validate(t) \/ Finish(t)
    <2>1. /\ UNCHANGED <<state, rows>>
          /\ pc[t] \notin {"raise", "parkraise"} /\ pc'[t] \notin {"raise", "parkraise"}
      BY <1>4 DEF Claim, Prepare, CreateRun, Launch, AgentExit, RecordRun, Validate, Finish, RunOver
    <2> QED BY <1>3, <2>1, FitQuiet
  <1>5. CASE Assign(t)
    <2>1. rows' = rows /\ pc[t] = "assign" /\ pc'[t] \in {"prepare", "rescue"}
      BY <1>5 DEF Assign, Move, Advance, SetTicketState
    <2>2. CASE state'[t] = state[t]
      BY <1>3, <2>1, <2>2, FitQuiet
    <2>3. CASE state'[t] # state[t]
      <3>1. state[t] = "ready" /\ state'[t] = "assigned" /\ human[t] # "resolve"
        BY <1>2, <1>5, <2>3, RunEdges DEF Assign, Move, Advance, SetTicketState
      <3> QED BY <1>3, <2>1, <3>1 DEF Fits, NeedsHuman, GravyOwned, HumanSteps
    <2> QED BY <2>2, <2>3
  <1>6. CASE StartRunning(t) \/ AgentFinished(t) \/ Retry(t) \/ ValidationPassed(t)
    <2>1. /\ rows' = rows
          /\ pc[t] \notin {"raise", "parkraise"} /\ pc'[t] \notin {"raise", "parkraise"}
          /\ state'[t] = state[t] \/ (state[t] \in GravyOwned /\ state'[t] \in GravyOwned)
      BY <1>6, RunEdges DEF StartRunning, AgentFinished, Retry, ValidationPassed, Move, Advance,
                            SetTicketState, GravyOwned
    <2>2. CASE state'[t] = state[t]
      BY <1>3, <2>1, <2>2, FitQuiet
    <2>3. CASE state[t] \in GravyOwned /\ state'[t] \in GravyOwned
      BY <1>3, <2>1, <2>3 DEF Fits, GravyOwned, Aside
    <2> QED BY <2>1, <2>2, <2>3
  <1>7. CASE ProviderLimit(t)
    <2>1. /\ rows' = rows /\ pc[t] = "limit" /\ pc'[t] \in {"done", "rescue"}
          /\ state'[t] = state[t] \/ (state[t] = "running" /\ state'[t] = "ready")
      BY <1>7, RunEdges DEF ProviderLimit, Move, Advance, SetTicketState
    <2>2. CASE state'[t] = state[t]
      BY <1>3, <2>1, <2>2, FitQuiet
    <2>3. CASE state[t] = "running" /\ state'[t] = "ready"
      BY <1>3, <2>1, <2>3 DEF Fits, GravyOwned, Aside
    <2> QED BY <2>1, <2>2, <2>3
  <1>8. CASE Reviewed(t)
    <2>1. /\ rows' = rows /\ pc[t] = "advise"
          /\ \/ state'[t] = state[t] /\ pc'[t] = "rescue"
             \/ state[t] = "reviewing" /\ state'[t] = "review" /\ pc'[t] = "raise"
      BY <1>8, RunEdges DEF Reviewed, Move, Advance, SetTicketState
    <2>2. CASE state'[t] = state[t] /\ pc'[t] = "rescue"
      BY <1>3, <2>1, <2>2, FitQuiet
    <2>3. CASE state[t] = "reviewing" /\ state'[t] = "review" /\ pc'[t] = "raise"
      BY <1>3, <2>1, <2>3 DEF Fits, GravyOwned, Aside
    <2> QED BY <2>1, <2>2, <2>3
  <1>9. CASE RaiseReview(t) \/ RaiseParked(t)
    <2>1. state' = state /\ pc[t] \in {"raise", "parkraise"} /\ pc'[t] = "done" /\ rows'[t] = "open"
      BY <1>9 DEF RaiseReview, RaiseParked, OpenAttention
    <2> QED BY <1>3, <2>1 DEF Fits, GravyOwned, NeedsHuman, Aside
  <1>10. CASE Park(t) \/ Rescue(t)
    <2>1. /\ rows' = rows /\ pc[t] \in {"park", "rescue"}
          /\ \/ state'[t] = state[t] /\ pc'[t] \in {"rescue", "done"}
             \/ state[t] \in GravyOwned /\ state'[t] = "needs_you" /\ pc'[t] = "parkraise"
      BY <1>10, ParkEdges DEF Park, Rescue, Move, Advance, SetTicketState, AfterRescue
    <2>2. CASE state'[t] = state[t] /\ pc'[t] \in {"rescue", "done"}
      BY <1>3, <2>1, <2>2, FitQuiet
    <2>3. CASE state[t] \in GravyOwned /\ state'[t] = "needs_you" /\ pc'[t] = "parkraise"
      BY <1>3, <2>1, <2>3 DEF Fits, GravyOwned, NeedsHuman, Aside
    <2> QED BY <2>1, <2>2, <2>3
  <1> QED BY <1>4, <1>5, <1>6, <1>7, <1>8, <1>9, <1>10 DEF GoStep

\* An operation of the human moves the ticket first and clears or raises its row after: whatever it
\* starts from, it ends with the rows of the state it ends in, unless it was crossed.
LEMMA HumanFits ==
  ASSUME IInv, AllFit, LandersLand, NothingToReconcile, NEW t \in Tickets, HumanActs(t)
  PROVE  AllFit' /\ LandersLand' /\ NothingToReconcile'
  <1> USE DEF IInv, TypeOK
  <1>1. /\ \A u \in Tickets \ {t} : /\ state'[u] = state[u] /\ rows'[u] = rows[u]
                                    /\ human'[u] = human[u] /\ held'[u] = held[u]
        /\ UNCHANGED <<unfinished, pc, daemon, todo>> /\ crossed \ {t} \subseteq crossed'
    BY HumanMoves DEF runVars, daemonVars
  <1>2. t \notin crossed => Fits(state[t], rows[t], pc[t], human[t])
    BY DEF AllFit
  <1>3. daemon # "up" => /\ unfinished[t] = 0 /\ rows[t] = "none"
                         /\ state[t] \in {"backlog", "ready", "rejected"}
                         /\ human[t] \in Aside \cup {"resolve"}
                         /\ held[t] \in {Unread, "backlog", "ready", "rejected"}
    BY DEF NothingToReconcile
  <1>4. human[t] \in {"approved", "landing"} => state[t] = "landing"
    BY DEF LandersLand
  <1>5. SUFFICES /\ t \notin crossed' => Fits(state'[t], rows'[t], pc[t], human'[t])
                 /\ human'[t] \in {"approved", "landing"} => state'[t] = "landing"
                 /\ daemon # "up" => /\ rows'[t] = "none"
                                     /\ state'[t] \in {"backlog", "ready", "rejected"}
                                     /\ human'[t] \in Aside \cup {"resolve"}
                                     /\ held'[t] \in {Unread, "backlog", "ready", "rejected"}
    <2>1. AllFit'
      BY <1>1, <1>5, FitLocal
    <2>2. LandersLand'
      BY <1>1, <1>5 DEF LandersLand
    <2>3. NothingToReconcile'
      BY <1>1, <1>5 DEF NothingToReconcile
    <2> QED BY <2>1, <2>2, <2>3
  <1> USE DEF step, SetTicketState, humanVars, historyVars, Aside
  <1>6. CASE MoveTicket(t)
    <2>1. /\ UNCHANGED <<rows, human, held, crossed>> /\ human[t] = "idle"
          /\ state[t] \in {"backlog", "ready"} /\ state'[t] \in {"backlog", "ready"}
      BY <1>6 DEF MoveTicket, QueueMoves, Transition, transitions
    <2> QED BY <1>2, <1>3, <2>1 DEF Fits, NeedsHuman, GravyOwned
  <1>7. CASE ReadRow(t)
    <2>1. /\ UNCHANGED <<rows, state, crossed>> /\ human[t] = "idle" /\ human'[t] = "save"
          /\ held'[t] = state[t]
      BY <1>7 DEF ReadRow
    <2> QED BY <1>2, <1>3, <2>1 DEF Fits, NeedsHuman, GravyOwned
  <1>8. CASE SaveRow(t)
    <2>1. /\ rows' = rows
          /\ human[t] = "save" /\ human'[t] \in {"idle", "requeue", "request_changes"}
          /\ state'[t] = held[t] /\ held[t] # Unread /\ held'[t] = Unread
          /\ t \notin crossed' => t \notin crossed /\ state'[t] = state[t]
      BY <1>8 DEF SaveRow, SavesWhatItRead
    <2> QED BY <1>2, <1>3, <2>1 DEF Fits, NeedsHuman, GravyOwned
  <1>9. CASE Send(t)
    <2>1. /\ UNCHANGED <<rows, held>> /\ human[t] \in {"request_changes", "requeue"}
          /\ \/ /\ human'[t] = "resolve" /\ state[t] \notin GravyOwned /\ state'[t] = "ready"
                /\ t \notin crossed' => t \notin crossed /\ ~Raising(t)
             \/ human'[t] = "idle" /\ state' = state /\ crossed' = crossed
      BY <1>9 DEF Send, Crossing, Transition, transitions, GravyOwned
    <2> QED BY <1>2, <1>3, <2>1 DEF Fits, NeedsHuman, GravyOwned, Raising
  <1>10. CASE Decide(t)
    <2>1. /\ UNCHANGED <<rows, held>> /\ human[t] = "idle" /\ human'[t] = "resolve"
          /\ state[t] \notin GravyOwned /\ state'[t] \in {"ready", "rejected"}
          /\ t \notin crossed' => t \notin crossed /\ ~Raising(t)
      BY <1>10 DEF Decide, Crossing, Transition, transitions, GravyOwned
    <2> QED BY <1>2, <1>3, <2>1 DEF Fits, NeedsHuman, GravyOwned, Raising
  <1>11. CASE Acknowledge(t)
    <2>1. /\ UNCHANGED <<state, human, held>> /\ human[t] = "idle" /\ rows[t] = "open"
          /\ rows'[t] = IF NeedsHuman(state[t]) THEN "noted" ELSE "none"
          /\ t \notin crossed' => t \notin crossed \/ (~Raising(t) /\ ~NeedsHuman(state[t]))
      BY <1>11 DEF Acknowledge, Settled
    <2> QED BY <1>2, <1>3, <2>1 DEF Fits, NeedsHuman, GravyOwned, Raising
  <1>12. CASE Resolve(t)
    <2>1. /\ UNCHANGED <<state, held>> /\ rows'[t] = "none"
          /\ \/ human[t] = "resolve" /\ human'[t] = "idle"
             \/ human[t] = "approved" /\ human'[t] = "landing"
          /\ t \notin crossed' => t \notin crossed \/ (~Raising(t) /\ ~NeedsHuman(state[t]))
      BY <1>12 DEF Resolve, ResolveAttentionForTicket, Settled
    <2> QED BY <1>2, <1>3, <1>4, <2>1 DEF Fits, NeedsHuman, GravyOwned, Raising
  <1>13. CASE Approve(t)
    <2>1. /\ UNCHANGED <<rows, held>> /\ human[t] \in {"idle", "continue"} /\ human'[t] = "approved"
          /\ state[t] = "review" /\ state'[t] = "landing"
          /\ t \notin crossed' => t \notin crossed /\ ~Raising(t)
      BY <1>13 DEF Approve, Crossing, Transition, transitions
    <2> QED BY <1>2, <1>3, <2>1 DEF Fits, NeedsHuman, GravyOwned, Raising
  <1>14. CASE Continue(t)
    <2>1. /\ UNCHANGED <<rows, held>> /\ human[t] = "idle" /\ human'[t] = "continue"
          /\ state[t] = "needs_you" /\ state'[t] = "review"
          /\ t \notin crossed' => t \notin crossed /\ ~Raising(t)
      BY <1>14 DEF Continue, Crossing, Transition, transitions
    <2> QED BY <1>2, <1>3, <2>1 DEF Fits, NeedsHuman, GravyOwned, Raising
  <1>15. CASE ContinueFails(t)
    <2>1. UNCHANGED <<rows, state, held, crossed>> /\ human[t] = "continue" /\ human'[t] = "idle"
      BY <1>15 DEF ContinueFails
    <2> QED BY <1>2, <1>3, <2>1 DEF Fits, NeedsHuman, GravyOwned
  <1>16. CASE LandEnds(t)
    <2>1. /\ UNCHANGED <<rows, held, crossed>> /\ human[t] = "landing" /\ state[t] = "landing"
          /\ \/ state'[t] \in {"done", "handed_off"} /\ human'[t] = "idle"
             \/ state'[t] = "needs_you" /\ human'[t] = "landraise"
      BY <1>4, <1>16 DEF LandEnds, Transition, transitions
    <2> QED BY <1>2, <1>3, <2>1 DEF Fits, NeedsHuman, GravyOwned
  <1>17. CASE LandRaise(t)
    <2>1. /\ UNCHANGED <<state, held, crossed>> /\ human[t] = "landraise" /\ human'[t] = "idle"
          /\ rows'[t] = "open"
      BY <1>17 DEF LandRaise, OpenAttention
    <2> QED BY <1>2, <1>3, <2>1 DEF Fits, NeedsHuman, GravyOwned
  <1>18. CASE MarkMerged(t)
    <2>1. /\ UNCHANGED <<rows, human, held, crossed>> /\ human[t] = "idle"
          /\ state[t] = "handed_off" /\ state'[t] = "done"
      BY <1>18 DEF MarkMerged, Transition, transitions
    <2> QED BY <1>2, <1>3, <2>1 DEF Fits, NeedsHuman, GravyOwned
  <1>19. CASE Interrupted(t)
    <2>1. /\ UNCHANGED <<rows, state, held>> /\ human'[t] = "idle"
          /\ human[t] \in {"resolve", "approved", "landing", "landraise"}
          /\ t \notin crossed' => t \notin crossed /\ human[t] = "landing"
      BY <1>19 DEF Interrupted
    <2> QED BY <1>2, <1>3, <2>1 DEF Fits, NeedsHuman, GravyOwned
  <1> QED BY <1>6, <1>7, <1>8, <1>9, <1>10, <1>11, <1>12, <1>13, <1>14, <1>15, <1>16, <1>17, <1>18,
             <1>19 DEF HumanActs, HumanChoice, HumanStep

\* Every step keeps the queue right, where the daemon is not stopped and no write is refused.
LEMMA NextFits ==
  ASSUME MaxCrashes = 0, QueueInv, [Next]_vars
  PROVE  QueueInv'
  <1> USE DEF QueueInv
  <1>1. IInv'
    BY NextKeeps
  <1>2. faults \in Nat /\ MaxFaults \in Nat /\ ~(faults < MaxFaults)
    BY BoundsAssumption DEF IInv, TypeOK, Sound
  <1>3. ASSUME NEW t \in Tickets, StoreFault(t) PROVE FALSE
    BY <1>2, <1>3 DEF StoreFault
  <1>4. CASE Crash \/ Stop
    BY <1>4 DEF Crash, Stop, DaemonGone, IInv, TypeOK
  <1>5. CASE Tick \/ UNCHANGED vars
    <2>1. UNCHANGED <<state, rows, unfinished, pc, human, held, daemon, todo, faults, crossed>>
      BY <1>5 DEF Tick, vars, dbVars, runVars, humanVars, daemonVars, boundVars, historyVars
    <2> QED BY <1>1, <2>1 DEF Sound, AllFit, LandersLand, NothingToReconcile
  <1>6. CASE Boot \/ NextPass
    <2>1. UNCHANGED <<state, rows, unfinished, pc, human, held, faults, crossed>> /\ daemon # "up"
      BY <1>6 DEF Boot, NextPass, BootRest, dbVars, runVars, humanVars, boundVars
    <2>2. NothingToReconcile'
      BY <1>6, <2>1 DEF Boot, NextPass, InterruptedLandings, NothingToReconcile
    <2> QED BY <1>1, <2>1, <2>2 DEF Sound, AllFit, LandersLand
  <1>7. ASSUME NEW t \in Tickets, GoStep(t) PROVE QueueInv'
    <2>1. AllFit'
      BY <1>7, GoStepFits
    <2>2. faults' = faults /\ daemon' = daemon /\ human' = human
      BY <1>7, GoStepFrame DEF boundVars, daemonVars, humanVars
    <2>3. daemon = "up"
      <3>1. pc[t] # "idle"
        BY <1>7 DEF GoStep, Claim, Assign, Prepare, CreateRun, StartRunning, Launch, AgentExit,
               RecordRun, ProviderLimit, AgentFinished, Validate, Retry, ValidationPassed, Reviewed,
               RaiseReview, Park, Rescue, RaiseParked, Finish
      <3> QED BY <3>1 DEF IInv, OnlyServingRuns
    <2>4. LandersLand'
      BY <1>7, <2>2, GoStepFrame, GoStepEffect DEF LandersLand, GravyOwned
    <2> QED BY <1>1, <2>1, <2>2, <2>3, <2>4 DEF Sound, NothingToReconcile
  <1>8. ASSUME NEW t \in Tickets, HumanActs(t) PROVE QueueInv'
    BY <1>1, <1>8, HumanMoves, HumanFits DEF Sound
  <1>9. ASSUME NEW t \in Tickets, Start(t) \/ KillRun(t) \/ OrphanExits(t) \/ Panic(t)
        PROVE  QueueInv'
    <2>1. UNCHANGED <<state, rows, human, daemon, faults>> /\ crossed \subseteq crossed'
      BY <1>9 DEF Start, KillRun, OrphanExits, Panic, dbVars, humanVars, daemonVars, boundVars,
                  historyVars
    <2>2. /\ \A u \in Tickets \ {t} : pc'[u] = pc[u]
          /\ \/ pc'[t] = pc[t] \/ t \in crossed'
             \/ /\ pc[t] \notin {"raise", "parkraise"} /\ pc'[t] \notin {"raise", "parkraise"}
      BY <1>9 DEF Start, LoopClaims, KillRun, OrphanExits, Panic, Raising, RunOver, goto, runVars,
                  IInv, TypeOK
    <2>3. t \notin crossed' => Fits(state'[t], rows'[t], pc'[t], human'[t])
      BY <2>1, <2>2, FitQuiet DEF AllFit
    <2>4. AllFit'
      BY <2>1, <2>2, <2>3, FitLocal
    <2>5. NothingToReconcile'
      BY <1>9, <2>1 DEF Start, KillRun, OrphanExits, Panic, dbVars, humanVars, daemonVars, Working,
                        NothingToReconcile, IInv, OnlyServingRuns
    <2> QED BY <1>1, <2>1, <2>4, <2>5 DEF Sound, LandersLand
  <1>10. ASSUME NEW t \in Tickets,
                \/ ReconcileRun(t) \/ ParkInterrupted(t) \/ RaiseInterrupted(t)
                \/ RaiseInterruptedReview(t) \/ ReconcileReview(t)
                \/ RaiseInterruptedLanding(t) \/ ReconcileLanding(t)
         PROVE  FALSE
    <2>1. /\ daemon # "up" => /\ daemon \in {"down", "runs", "reviews", "landings"} /\ todo = {}
                              /\ unfinished[t] = 0
          /\ unfinished[t] > 0 => unfinished[t] # 0
      BY DEF NothingToReconcile
    <2>2. CASE ReconcileRun(t)
      BY <2>1, <2>2 DEF ReconcileRun
    <2>3. CASE RaiseInterruptedReview(t) \/ RaiseInterruptedLanding(t)
      BY <2>1, <2>3 DEF RaiseInterruptedReview, RaiseInterruptedLanding
    <2>4. CASE \/ ParkInterrupted(t) \/ RaiseInterrupted(t) \/ ReconcileReview(t)
               \/ ReconcileLanding(t)
      <3>1. daemon \in {"park", "raise", "reviewed", "landed"}
        BY <2>4 DEF ParkInterrupted, RaiseInterrupted, ReconcileReview, ReconcileLanding
      <3> QED BY <2>1, <3>1
    <2> QED BY <1>10, <2>2, <2>3, <2>4
  <1> QED BY <1>3, <1>4, <1>5, <1>6, <1>7, <1>8, <1>9, <1>10 DEF Next, BootStep, HumanActs

\* The Needs You queue is exact for any number of tickets, slots, retries and mishaps: with no stop
\* and no refused write, a ticket in Review that nobody works on is shown unless a human closed its
\* row, and nothing is listed that waits on nobody, wherever no two have written the ticket across
\* each other since the last decision on it (Status, OpenAttention, ResolveAttentionForTicket).
THEOREM QueueShownExactly ==
  ASSUME MaxCrashes = 0, MaxFaults = 0
  PROVE  Spec => []QueueExact
  <1>1. Init => QueueInv
    <2> SUFFICES ASSUME Init PROVE QueueInv
      OBVIOUS
    <2>1. AllFit
      BY DEF Init, FirstStart, AllFit, Fits, GravyOwned, Aside
    <2>2. LandersLand /\ NothingToReconcile
      BY DEF Init, FirstStart, LandersLand, NothingToReconcile, Aside
    <2> QED BY <2>1, <2>2, InitKeeps DEF QueueInv, Init, Sound
  <1>2. QueueInv /\ [Next]_vars => QueueInv'
    BY NextFits
  <1>3. QueueInv => QueueExact
    BY DEF QueueInv, IInv, TypeOK, Rows, AllFit, Fits, QueueExact, Shown
  <1> QED BY <1>1, <1>2, <1>3, PTL DEF Spec
=============================================================================
