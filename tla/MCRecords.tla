------------------------------ MODULE MCRecords -------------------------------
(* A ticket with two clients, and a home with two projects. *)
EXTENDS Records, TLC

Symmetry == Permutations(Clients)

\* Nobody, where the behaviour is the ticket's; otherwise those whose steps interleave.
AllCompanies ==
    {{}, {"screen", "wizard"}, {"prompt", "wizard"}, {"cli", "form"}, {"cli", "prompt"}}
===============================================================================
