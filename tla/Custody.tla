------------------------------ MODULE Custody ------------------------------
(***************************************************************************)
(* What orchestration promises about who has a ticket.  Every ticket is in  *)
(* exactly one hand: the queue's, Gravy's, the human's, the lander's, or    *)
(* nobody's any more.  Gravy takes a ticket only with a worker slot, keeps  *)
(* the slot for as long as it has the ticket, and may only give it back to  *)
(* the queue or hand it to the human.  Only the human sends a ticket to be  *)
(* landed, and only a landing or the human ends one.  A daemon that stops   *)
(* drops all its slots at once; what it had is handed to the human before   *)
(* any slot is taken again, or stays where it was.  Two things can go wrong *)
(* with one ticket and with no other: a run drops it, slot and all, and it  *)
(* waits for a restart; or it is lost, in a hand that does not know of it,  *)
(* until a run takes it anew.                                               *)
(***************************************************************************)
EXTENDS Naturals, FiniteSets

CONSTANTS Tickets, Slots

VARIABLES
  hand,    \* who has each ticket
  holders  \* tickets a worker slot is held for

Init == hand = [t \in Tickets |-> "queue"] /\ holders = {}

Pass(t, from, to) ==
  /\ hand[t] \in from
  /\ \E h \in to : hand' = [hand EXCEPT ![t] = h]
  /\ holders' = holders

ClaimSlot(t) ==
  /\ t \notin holders /\ Cardinality(holders) < Slots
  /\ holders' = holders \cup {t} /\ hand' = hand

Take(t)    == t \in holders /\ Pass(t, {"queue", "lost"}, {"gravy"})
GiveUp(t)  == t \in holders /\ Pass(t, {"gravy", "dropped"}, {"queue", "human"})

\* A slot is let go of only once Gravy no longer has the ticket.
FreeSlot(t) ==
  /\ t \in holders /\ hand[t] # "gravy"
  /\ holders' = holders \ {t} /\ hand' = hand

Send(t)    == Pass(t, {"human"}, {"queue", "lander", "ended"})
Withdraw(t) == Pass(t, {"queue"}, {"ended"})
Landed(t)  == Pass(t, {"lander"}, {"ended", "yours", "human"})
Merged(t)  == Pass(t, {"yours"}, {"ended"})

\* What Gravy had is its own to recover, whether it was dropped before or not.
Stopped ==
  /\ holders' = {}
  /\ \/ hand' = hand
     \/ hand' = [t \in Tickets |-> IF hand[t] = "dropped" THEN "gravy" ELSE hand[t]]
Recover(t) == holders = {} /\ Pass(t, {"gravy", "dropped"}, {"human"})

Drop(t) ==
  /\ t \in holders /\ hand[t] = "gravy"
  /\ hand' = [hand EXCEPT ![t] = "dropped"] /\ holders' = holders \ {t}
Lose(t) == hand' = [hand EXCEPT ![t] = "lost"] /\ holders' = holders

Next ==
  \/ Stopped
  \/ \E t \in Tickets :
       \/ ClaimSlot(t) \/ Take(t) \/ GiveUp(t) \/ FreeSlot(t)
       \/ Send(t) \/ Withdraw(t) \/ Landed(t) \/ Merged(t) \/ Recover(t)
       \/ Drop(t) \/ Lose(t)

Spec == Init /\ [][Next]_<<hand, holders>>
=============================================================================
