------------------------------- MODULE HostCaps -------------------------------
(***************************************************************************)
(* The cached capability probe of one host (internal/host/caps_cache.go):   *)
(* the scheduler and the clients read it, stale entries are refreshed       *)
(* behind the reader, and a human may ask for a probe now.  The machine is  *)
(* switched on and off meanwhile; `epoch` counts the switches, and a probe  *)
(* reports the machine as it was at the epoch it sampled.                   *)
(***************************************************************************)
EXTENDS Integers, FiniteSets

CONSTANTS
    Callers,      \* goroutines that call get and recheck
    Refreshers,   \* names for background probes: a bound on those in flight
    NoCaller,     \* nobody holds the lock
    Flips,        \* bound on how often the machine is switched on or off
    Rechecks      \* bound on how often a human asks again

ASSUME HostCapsAssumption ==
    /\ NoCaller \notin Callers
    /\ Flips \in Nat /\ Rechecks \in Nat

VARIABLES
    epoch,        \* switches of the machine so far: on when even
    entry,        \* caps, err and at: what was learned, and of which epoch
    stale,        \* the entry has outlived capsTTL or capsErrTTL
    refreshing,   \* the flag of that name
    lock,         \* who holds mu across a probe: only a first get does
    pc,           \* what each caller is doing
    probe,        \* the answers of the probes in flight, of callers and refreshers
    rechecks      \* how often a human has asked

capsVars == <<epoch, entry, stale, refreshing, lock, pc, probe, rechecks>>
cache == <<entry, stale, refreshing>>

On(e) == e % 2 = 0

\* What a probe has to say: nothing yet, or whether it reached the machine, and when.
Pending == [at |-> -1, ok |-> FALSE]
Probers == Callers \cup Refreshers

Probed == entry.at >= 0
InFlight == {r \in Refreshers : pc[r] = "refresh"}

CapsInit ==
    /\ epoch = 0 /\ entry = Pending /\ stale = FALSE /\ refreshing = FALSE
    /\ lock = NoCaller /\ rechecks = 0
    /\ pc = [p \in Probers |-> "idle"]
    /\ probe = [p \in Probers |-> Pending]

Begin(p, step) ==
    /\ pc' = [pc EXCEPT ![p] = step]
    /\ probe' = [probe EXCEPT ![p] = Pending]

----------------------------------------------------------------------------
\* The machine, and time.

Flip ==
    /\ epoch < Flips
    /\ epoch' = epoch + 1
    /\ UNCHANGED <<cache, lock, pc, probe, rechecks>>

Expire ==
    /\ Probed /\ ~stale
    /\ stale' = TRUE
    /\ UNCHANGED <<epoch, entry, refreshing, lock, pc, probe, rechecks>>

\* The connection is made, or fails, at one moment of the probe.  A caller's own
\* context may end before that; a refresh is detached from it.
Answer(p) ==
    /\ pc[p] # "idle" /\ probe[p] = Pending
    /\ \E ok \in {On(epoch)} \cup (IF p \in Callers THEN {FALSE} ELSE {}) :
        probe' = [probe EXCEPT ![p] = [at |-> epoch, ok |-> ok]]
    /\ UNCHANGED <<epoch, cache, lock, pc, rechecks>>

\* c.caps, c.err, c.at = probe's, under the lock.
Store(p) ==
    /\ entry' = probe[p]
    /\ stale' = FALSE
    /\ pc' = [pc EXCEPT ![p] = "idle"]
    /\ UNCHANGED <<epoch, probe, rechecks>>

----------------------------------------------------------------------------
\* get.

\* Never probed: this caller probes with the lock held.
GetFirst(c) ==
    /\ pc[c] = "idle" /\ lock = NoCaller /\ ~Probed
    /\ lock' = c
    /\ Begin(c, "first")
    /\ UNCHANGED <<epoch, cache, rechecks>>

GetFirstDone(c) ==
    /\ pc[c] = "first" /\ probe[c] # Pending
    /\ Store(c)
    /\ lock' = NoCaller
    /\ UNCHANGED refreshing

\* Mutant: the flag is not looked at.
GetStale_always ==
    /\ lock = NoCaller /\ Probed /\ stale
    /\ refreshing' = TRUE
    /\ \E r \in Refreshers : pc[r] = "idle" /\ Begin(r, "refresh")
    /\ UNCHANGED <<epoch, entry, stale, lock, rechecks>>

\* A stale entry: answered from the cache, with one probe started behind the
\* caller.  A fresh entry, or one already being refreshed, changes nothing.
GetStale ==
    /\ lock = NoCaller /\ Probed /\ stale /\ ~refreshing
    /\ refreshing' = TRUE
    /\ \E r \in Refreshers : pc[r] = "idle" /\ Begin(r, "refresh")
    /\ UNCHANGED <<epoch, entry, stale, lock, rechecks>>

RefreshDone(r) ==
    /\ pc[r] = "refresh" /\ probe[r] # Pending /\ lock = NoCaller
    /\ Store(r)
    /\ refreshing' = FALSE
    /\ UNCHANGED lock

----------------------------------------------------------------------------
\* recheck: marks the entry as being refreshed, probes without the lock, stores.

Recheck(c) ==
    /\ pc[c] = "idle" /\ lock = NoCaller
    /\ rechecks < Rechecks /\ rechecks' = rechecks + 1
    /\ refreshing' = TRUE
    /\ Begin(c, "recheck")
    /\ UNCHANGED <<epoch, entry, stale, lock>>

RecheckDone(c) ==
    /\ pc[c] = "recheck" /\ probe[c] # Pending /\ lock = NoCaller
    /\ Store(c)
    /\ refreshing' = FALSE
    /\ UNCHANGED lock

CapsNext ==
    \/ Flip \/ Expire \/ GetStale
    \/ \E p \in Probers : Answer(p)
    \/ \E c \in Callers : GetFirst(c) \/ GetFirstDone(c) \/ Recheck(c) \/ RecheckDone(c)
    \/ \E r \in Refreshers : RefreshDone(r)

----------------------------------------------------------------------------
\* Correctness.

\* A caller waits on the network only for a host that was never reached: whoever
\* holds the lock across a probe is making the first one (the rule of capsCache).
NeverWaits == lock # NoCaller => ~Probed /\ pc[lock] = "first"

\* Stale reads start one background probe between them, however many there are and
\* however late it ends, as long as no human asks for another.
OneRefresh == rechecks = 0 => Cardinality(InFlight) <= 1

\* Nor is what is known replaced by an older look at the machine: the answer of a
\* probe that began while it was off does not undo that of one that reached it.
NewestStands == [][rechecks = 0 => entry'.at >= entry.at]_capsVars
=============================================================================
