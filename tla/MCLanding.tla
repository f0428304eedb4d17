----------------------------- MODULE MCLanding -----------------------------
(***************************************************************************)
(* Two tickets of a repository with a remote, or of one without, whose owner *)
(* edits the main checkout meanwhile.                                       *)
(***************************************************************************)
EXTENDS Landing, TLC

RemoteOrAshore == {[remote |-> TRUE, untouched |-> TRUE], [remote |-> FALSE, untouched |-> FALSE]}

\* Tickets are interchangeable.
Symmetry == Permutations(Tickets)
=============================================================================
