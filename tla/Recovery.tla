-------------------------------- MODULE Recovery --------------------------------
(***************************************************************************)
(* Orchestration under faults of one kind: crashes and stops of the daemon, or *)
(* writes the store refuses; and what it promises of who has a ticket.         *)
(***************************************************************************)
EXTENDS Orchestration

\* One of the two budgets is spent from the start, that of refused writes by more than it allows:
\* this tells the behaviours with crashes from those with a store that refuses.
FaultInit ==
  /\ FirstStart
  /\ \/ crashes = 0 /\ faults = MaxFaults + 1
     \/ crashes = MaxCrashes /\ faults = 0
FaultSpec == FaultInit /\ [][Next]_vars /\ Fairness
refusing  == faults <= MaxFaults

\* Who has the ticket, as Custody has it.
HandOf(t) == IF t \in overwritten THEN "lost"
             ELSE IF t \in forsaken /\ state[t] \in GravyOwned THEN "dropped"
             ELSE Hand(state[t])

\* The promise is made of a store that takes its writes: with one that refuses, the ticket counts
\* as one that never leaves the queue.
hands   == [t \in Tickets |-> IF refusing THEN "queue" ELSE HandOf(t)]
holding == IF refusing THEN {} ELSE {t \in Tickets : pc[t] \in Working}

Kept == INSTANCE Custody WITH hand <- hands, holders <- holding

\* A ticket is in one hand at a time, Gravy's only with a slot, and comes back from a dead daemon
\* to the human only: Orchestration implements Custody through crashes, stops, panics, interrupted
\* landings and recovery.  The two ways it is let down are steps of Custody: a panic drops a ticket
\* that has no slot any more, and an old row saved over a ticket takes it from whoever has it.
CustodyKept == Kept!Spec

\* Whatever agents report, validation says, crashes, panics or fails to be written: every goroutine
\* ends and gives its slot back, every reconciliation comes to an end, and no approved ticket stays
\* in Landing under a daemon that stays up and a store that takes its writes, unless the process
\* that was landing it was cut off.
WorkSettles ==
  /\ RunSettles /\ ReconcileEnds
  /\ \A t \in Tickets :
       state[t] = "landing" /\ ~refusing
         ~> state[t] # "landing" \/ daemon # "up" \/ t \in LeftBehind

\* A daemon that serves has left no review and no landing without somebody working on it, but for
\* those left behind since it listed them, and no refused write leaks a worker slot or gives one
\* back twice.
Recovered == SlotsMatch /\ (~refusing => ReviewsAndLandingsRecovered)
================================================================================
