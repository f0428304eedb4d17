----------------------------- MODULE Lifecycle -----------------------------
(***************************************************************************)
(* The ticket lifecycle of internal/core/state.go: the states, the table    *)
(* of legal transitions, and the three predicates the rest of the system    *)
(* classifies a state with.  The table is a set of edges, so that a legal   *)
(* event is membership and an illegal one is the absence of an edge.        *)
(***************************************************************************)

States == {"draft", "backlog", "ready", "assigned", "running", "validating",
           "reviewing", "review", "landing", "handed_off", "blocked",
           "needs_you", "done", "rejected"}

Events == {"submit", "mark_ready", "return_to_backlog", "assign", "start",
           "provider_retry", "agent_finished", "ask", "answer",
           "validation_passed", "validation_retry", "validation_exhausted",
           "reviewed", "approve", "request_changes", "landed", "land_failed",
           "handed_off", "requeue", "return_to_review", "run_failed", "kill",
           "reject"}

transitions ==
  {<<"draft",      "submit",               "backlog">>,
   <<"backlog",    "mark_ready",           "ready">>,
   <<"backlog",    "reject",               "rejected">>,
   <<"ready",      "return_to_backlog",    "backlog">>,
   <<"ready",      "assign",               "assigned">>,
   <<"ready",      "reject",               "rejected">>,
   <<"assigned",   "start",                "running">>,
   <<"assigned",   "kill",                 "backlog">>,
   <<"assigned",   "run_failed",           "needs_you">>,
   <<"running",    "provider_retry",       "ready">>,
   <<"running",    "agent_finished",       "validating">>,
   <<"running",    "ask",                  "blocked">>,
   <<"running",    "run_failed",           "needs_you">>,
   <<"running",    "kill",                 "backlog">>,
   <<"validating", "validation_passed",    "reviewing">>,
   <<"validating", "validation_retry",     "running">>,
   <<"validating", "validation_exhausted", "needs_you">>,
   <<"validating", "kill",                 "backlog">>,
   <<"reviewing",  "reviewed",             "review">>,
   <<"reviewing",  "kill",                 "backlog">>,
   <<"review",     "approve",              "landing">>,
   <<"review",     "request_changes",      "ready">>,
   <<"review",     "reject",               "rejected">>,
   <<"landing",    "landed",               "done">>,
   <<"landing",    "land_failed",          "needs_you">>,
   <<"landing",    "handed_off",           "handed_off">>,
   <<"handed_off", "landed",               "done">>,
   <<"blocked",    "answer",               "ready">>,
   <<"blocked",    "reject",               "rejected">>,
   <<"needs_you",  "requeue",              "ready">>,
   <<"needs_you",  "return_to_review",     "review">>,
   <<"needs_you",  "reject",               "rejected">>}

\* Transition(from, ev) succeeds with the state `to`.
Transition(from, ev, to) == <<from, ev, to>> \in transitions

\* Transition(from, ev) returns no TransitionError.
Legal(from, ev) == \E to \in States : Transition(from, ev, to)

\* Mutant: a ticket counts as in flight only once its agent has started.
IsActive_started(s) == s \in {"running", "validating", "reviewing", "review",
                              "landing", "blocked", "needs_you"}

\* In flight for scheduling: after Ready and before the end.
IsActive(s) == s \in {"assigned", "running", "validating", "reviewing",
                      "review", "landing", "blocked", "needs_you"}

\* Waiting on human judgement rather than on Gravy.
NeedsHuman(s) == s \in {"review", "blocked", "needs_you"}

=============================================================================
