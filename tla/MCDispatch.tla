----------------------------- MODULE MCDispatch -----------------------------
(***************************************************************************)
(* Instances of Dispatch: a queue of a serial and a parallel project with a  *)
(* cap across them, and a crowd of parallel ones with a pinned machine, an    *)
(* override and a cooldown.                                                  *)
(***************************************************************************)
EXTENDS Dispatch

\* Tickets are numbered in queue order.
RankByNumber == [t \in Tickets |-> t]

\* 1 and 2 share the first project; the others are in the second.
TwoProjects == [t \in Tickets |-> IF t <= 2 THEN "one" ELSE "two"]
NoDeps      == [t \in Tickets |-> {}]
Unpinned    == [p \in Projects |-> Nowhere]
FirstPinned == [p \in Projects |-> IF p = "one" THEN 1 ELSE Nowhere]
NoOverride  == [t \in Tickets |-> Nowhere]
OverrideLast == [t \in Tickets |-> IF t = 4 THEN 1 ELSE Nowhere]
AnyHost     == [t \in Tickets |-> Hosts]
\* Ticket 3 needs a tool only host 2 has.
Picky       == [t \in Tickets |-> IF t = 3 THEN {2} ELSE Hosts]
One         == [p \in Projects |-> 1]
TwoAndOne   == [p \in Projects |-> IF p = "one" THEN 2 ELSE 1]
OneSlot     == [h \in Hosts |-> 1]
TwoSlots    == [h \in Hosts |-> 2]
CapOne      == [r \in Routes |-> IF r = "impl" THEN 1 ELSE 0]
Fallback    == [r \in Routes |-> IF r = "impl" THEN <<"a", "b">> ELSE <<"a">>]
OwnTable    == [p \in Projects |-> [r \in Routes |->
                 IF p = "two" /\ r = "impl" THEN <<"b">> ELSE <<>>]]
NoTable     == [p \in Projects |-> [r \in Routes |-> <<>>]]
AllInstalled == [h \in Hosts |-> Choices]
OnlyA       == [h \in Hosts |-> IF h = 1 THEN {"a"} ELSE {}]
\* 2 and 3 share the serial project, the others the parallel one; 4 builds on 2; 3 and 5 share a
\* route.
QueueProjects == [t \in Tickets |-> IF t \in {2, 3} THEN "one" ELSE "two"]
QueueDeps   == [t \in Tickets |-> IF t = 4 THEN {2} ELSE {}]
QueueRoutes == [t \in Tickets |-> IF t \in {3, 5} THEN "impl" ELSE "plan"]
Alternate   == [t \in Tickets |-> IF t \in {1, 3} THEN "impl" ELSE "plan"]
=============================================================================
