-------------------------- MODULE MCOrchestration --------------------------
\* Instances of Orchestration for TLC: see the .cfg files.
EXTENDS Orchestration, TLC

\* The tickets are interchangeable: nothing compares or orders them.
Symmetry == Permutations(Tickets)
=============================================================================
