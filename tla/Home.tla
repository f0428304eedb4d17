--------------------------------- MODULE Home ---------------------------------
(***************************************************************************)
(* What a Gravy home and its daemon keep beside the tickets: the pidfile and    *)
(* the socket, the logs of runs, the cached answer of a host.  No step of one     *)
(* reads what another keeps, so a behaviour is of one; the others stay as they   *)
(* began.                                                                   *)
(***************************************************************************)
EXTENDS Ownership, HostCaps, RunLog

VARIABLE part

homeVars == <<ownVars, capsVars, logVars, part>>

Init == part \in {"owner", "host", "log"} /\ OwnInit /\ CapsInit /\ LogInit

Next ==
    /\ UNCHANGED part
    /\ \/ part = "owner" /\ OwnNext /\ UNCHANGED <<capsVars, logVars>>
       \/ part = "host" /\ CapsNext /\ UNCHANGED <<ownVars, logVars>>
       \/ part = "log" /\ LogNext /\ UNCHANGED <<ownVars, capsVars>>

\* Each part is fair to what it has begun.  Probes end (capsRefreshTimeout, ssh's own timeout), time
\* passes, and the dashboard and the scheduler go on reading, where there is a host to read.
Asked(A) == part = "host" /\ A
HostFairness ==
    /\ WF_capsVars(Asked(Expire)) /\ WF_capsVars(Asked(GetStale))
    /\ WF_capsVars(\E c \in Callers : Asked(GetFirst(c)))
    /\ \A p \in Probers : WF_capsVars(Asked(Answer(p)))
    /\ \A c \in Callers : WF_capsVars(GetFirstDone(c)) /\ WF_capsVars(RecheckDone(c))
    /\ \A r \in Refreshers : WF_capsVars(RefreshDone(r))

Fairness == OwnFairness /\ LogFairness /\ HostFairness

Spec == Init /\ [][Next]_homeVars /\ Fairness

\* A caller waits on the network only for a host never reached, stale reads share one probe and
\* no answer gives way to an older one, while no human asks again; and however probes, rechecks,
\* cancelled callers and the machine's switches overlap, the cache comes to say what the machine
\* is, and goes on saying it (caps_cache.go, capsCache).
HostLearned ==
    /\ [](NeverWaits /\ OneRefresh) /\ NewestStands
    /\ <>[](part = "host" => entry.ok = On(epoch))
===============================================================================
