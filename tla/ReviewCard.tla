------------------------------ MODULE ReviewCard ------------------------------
(***************************************************************************)
(* The screen where a human decides: one card, the loads and the calls it has  *)
(* in flight, the landings it started and the sweep it may be walking.  Every   *)
(* load and every call is a goroutine with a time limit, so each of them        *)
(* answers, in any order; an answer reaches the screen only while it is shown.  *)
(* Scrolling, folding and the external tools are left out.                     *)
(***************************************************************************)
EXTENDS Naturals, Sequences, SequencesExt, FiniteSetsExt

CONSTANTS
    Cards,        \* tickets
    MaxFlight,    \* bound on what the screen sets off while it waits for answers
    MaxComings    \* bound on the times the human enters the screen or starts a sweep, and
                  \* tickets come back

ASSUME ReviewCardAssumption == Cards \subseteq Nat \ {0} /\ {MaxFlight, MaxComings} \subseteq Nat

VARIABLES
    stage,        \* Cards -> "review", "landing", "away" or "done", in the daemon
    listed,       \* the tickets awaiting review in the snapshot the frame holds
    on,           \* the screen is the one shown
    card,         \* the ticket on it, or 0
    shows,        \* the ticket whose evidence is loaded, or 0
    err,
    mode,         \* what the keyboard is doing
    sweep,        \* the tickets still to walk, the card's first; empty when not sweeping
    landing,      \* approved from here, not answered yet
    loads,        \* loads in flight: tickets
    calls,        \* calls in flight: [verb, to, took]
    comings

cardVars == <<stage, listed, on, card, shows, err, mode, sweep, landing, loads, calls, comings>>


CardInit ==
    /\ stage = [t \in Cards |-> "review"] /\ listed = Cards
    /\ on = FALSE /\ card = 0 /\ shows = 0 /\ err = FALSE /\ mode = "browsing"
    /\ sweep = <<>> /\ landing = {} /\ loads = {} /\ calls = {} /\ comings = 0

\* A load of the same ticket already under way is one more answer of the same kind.
CanAsk(n) == Cardinality(loads) + Cardinality(calls) + n <= MaxFlight
ShowCard(t) ==
    /\ card' = t /\ shows' = 0 /\ err' = FALSE
    /\ loads' = IF t = 0 THEN loads ELSE loads \union {t}
Oldest(ts) == IF ts = {} THEN 0 ELSE Min(ts)

---------------------------------------------------------------------------
(* The daemon's answers.                                                   *)

\* A ticket comes back to Review: it was parked, or changes were made.
ComesBack(t) ==
    /\ stage[t] = "away" /\ comings < MaxComings
    /\ stage' = [stage EXCEPT ![t] = "review"] /\ comings' = comings + 1
    /\ UNCHANGED <<listed, on, card, shows, err, mode, sweep, landing, loads, calls>>

\* The frame holds a new snapshot.  Not while someone is mid-sentence does it rebuild the card.
Refreshed ==
    /\ listed' = {t \in Cards : stage[t] = "review"} /\ listed' # listed /\ CanAsk(1)
    /\ loads' = IF on /\ card # 0 /\ mode \notin {"discuss", "command", "saving"} THEN loads \union {card}
                ELSE loads
    /\ UNCHANGED <<stage, on, card, shows, err, mode, sweep, landing, calls, comings>>

\* Mutant: a load that failed says nothing.
LoadAnswers_silent(t, ok) ==
    /\ t \in loads
    /\ loads' = loads \ {t}
    /\ IF on /\ ok THEN err' = FALSE /\ shows' = t ELSE UNCHANGED <<shows, err>>
    /\ UNCHANGED <<stage, listed, on, card, mode, sweep, landing, calls, comings>>
\* The answer, which names its ticket only by the evidence it carries.
LoadAnswers(t, ok) ==
    /\ t \in loads
    /\ loads' = loads \ {t}
    /\ IF ~on THEN UNCHANGED <<shows, err>>
       ELSE err' = ~ok /\ shows' = IF ok THEN t ELSE 0
    /\ UNCHANGED <<stage, listed, on, card, mode, sweep, landing, calls, comings>>

\* What a call does when the daemon takes it: a decision on a ticket that is no longer in
\* Review is refused, and any may fail.
Taken(verb, t) ==
    CASE stage[t] # "review" -> stage
      [] verb = "approve" -> [stage EXCEPT ![t] = "landing"]
      [] verb = "reject" -> [stage EXCEPT ![t] = "done"]
      [] verb = "send" -> [stage EXCEPT ![t] = "away"]
      [] OTHER -> stage

Take(c, ok) ==
    /\ c \in calls /\ c.took = "no" /\ c.verb \notin {"save", "verdict"}
    /\ LET taken == ok /\ stage[c.to] = "review" IN
       /\ stage' = IF taken THEN Taken(c.verb, c.to) ELSE stage
       /\ calls' = (calls \ {c}) \union {[c EXCEPT !.took = IF taken THEN "yes" ELSE "refused"]}
    /\ UNCHANGED <<listed, on, card, shows, err, mode, sweep, landing, loads, comings>>

\* A landing lands, hands the work off, or parks.
LandingEnds(t, p) ==
    /\ stage[t] = "landing" /\ p \in {"done", "away"}
    /\ stage' = [stage EXCEPT ![t] = p]
    /\ UNCHANGED <<listed, on, card, shows, err, mode, sweep, landing, loads, calls, comings>>

---------------------------------------------------------------------------
(* The walk of a sweep.                                                    *)

\* On to the next ticket of the sweep, whose end leaves the card empty or as it is.
Advance(else) ==
    LET rest == Tail(sweep) IN
    /\ sweep' = rest
    /\ IF rest = <<>> THEN card' = else /\ shows' = (IF else = 0 THEN 0 ELSE shows) /\ UNCHANGED <<err, loads>>
       ELSE ShowCard(rest[1])

\* Mutant: any answer but a landing's is taken to be about the card.
Concerns_shown(t) == on /\ t \notin landing
\* reviewActedMsg.  A background landing, or an action on a ticket no longer on the card, says how
\* it went and leaves the card alone; otherwise the ticket has left the queue, and the card too.
Concerns(t) == on /\ t \notin landing /\ t = card
CallAnswers(c) ==
    /\ c \in calls /\ c.took # "no" /\ (c.verb = "approve" => stage[c.to] # "landing" \/ c.took = "refused")
    /\ calls' = calls \ {c}
    /\ landing' = IF on THEN landing \ {c.to} ELSE landing
    /\ IF ~Concerns(c.to) THEN UNCHANGED <<card, shows, err, mode, sweep, loads>>
       ELSE /\ mode' = "browsing"
            /\ IF c.took = "refused" THEN UNCHANGED <<card, shows, err, sweep, loads>>
               ELSE IF sweep = <<>> THEN card' = 0 /\ shows' = 0 /\ UNCHANGED <<err, sweep, loads>>
               ELSE Advance(0)
    /\ UNCHANGED <<stage, listed, on, comings>>

\* rereviewedMsg: the evidence is loaded again, for the new verdict.
VerdictAnswers(c, ok) ==
    /\ c \in calls /\ c.verb = "verdict"
    /\ calls' = calls \ {c}
    /\ IF ok /\ on /\ c.to = card THEN shows' = 0 /\ loads' = loads \union {card}
       ELSE UNCHANGED <<shows, loads>>
    /\ UNCHANGED <<stage, listed, on, card, err, mode, sweep, landing, comings>>

---------------------------------------------------------------------------
(* The human.                                                              *)

Free == mode = "browsing" /\ sweep = <<>>

\* A section key, or a navigation that arrives late, with or without a ticket to open.
Enter(focus) ==
    /\ comings < MaxComings /\ CanAsk(1) /\ (on => focus # 0)
    /\ on' = TRUE /\ comings' = comings + 1
    /\ ShowCard(IF focus # 0 THEN focus ELSE Oldest(listed))
    /\ UNCHANGED <<stage, listed, mode, sweep, landing, calls>>

StartSweep ==
    /\ ~on /\ listed # {} /\ comings < MaxComings /\ CanAsk(1)
    /\ on' = TRUE /\ comings' = comings + 1
    /\ sweep' = SetToSortSeq(listed, <) /\ ShowCard(Oldest(listed))
    /\ UNCHANGED <<stage, listed, mode, landing, calls>>

\* While a prompt is open or a sweep runs the keyboard is the screen's.
Leave ==
    /\ on /\ Free
    /\ on' = FALSE
    /\ UNCHANGED <<stage, listed, card, shows, err, mode, sweep, landing, loads, calls, comings>>

\* The keys that decide are refused for a ticket that is landing from here.
Decidable == on /\ mode = "browsing" /\ ~err /\ shows # 0 /\ card \notin landing
OpensPrompt(m) ==
    /\ Decidable /\ m \in {"approving", "reject", "discuss", "try"}
    /\ mode' = m
    /\ UNCHANGED <<stage, listed, on, card, shows, err, sweep, landing, loads, calls, comings>>

ClosesPrompt ==
    /\ on /\ mode \in {"approving", "reject", "discuss", "try", "command"}
    /\ mode' = IF mode = "command" THEN "try" ELSE "browsing"
    /\ UNCHANGED <<stage, listed, on, card, shows, err, sweep, landing, loads, calls, comings>>

Calling(verb) ==
    /\ CanAsk(1)
    /\ calls' = calls \union {[verb |-> verb, to |-> card, took |-> "no"]}

\* The approval runs in the background and the card moves on, however far the human asked the
\* work to be carried.
Approve ==
    /\ on /\ mode = "approving" /\ card # 0
    /\ Calling("approve")
    /\ landing' = landing \union {card} /\ mode' = "browsing"
    /\ IF sweep # <<>> THEN Advance(0)
       ELSE LET next == Oldest(listed \ landing') IN
            /\ card' = next /\ shows' = 0 /\ UNCHANGED sweep
            /\ IF next # 0 THEN err' = FALSE /\ loads' = loads \union {next} ELSE UNCHANGED <<err, loads>>
    /\ UNCHANGED <<stage, listed, on, comings>>

Reject ==
    /\ on /\ mode = "reject" /\ card # 0
    /\ Calling("reject") /\ mode' = "browsing"
    /\ UNCHANGED <<stage, listed, on, card, shows, err, sweep, landing, loads, comings>>

\* The conversation agrees an instruction and sends it.
SendChanges ==
    /\ on /\ mode = "discuss" /\ card # 0
    /\ Calling("send")
    /\ UNCHANGED <<stage, listed, on, card, shows, err, mode, sweep, landing, loads, comings>>

Rereview ==
    /\ Decidable /\ card # 0
    /\ Calling("verdict")
    /\ UNCHANGED <<stage, listed, on, card, shows, err, mode, sweep, landing, loads, comings>>

\* Try it: the command typed once is saved with the project.
TryCommand ==
    /\ on /\ mode = "try"
    /\ mode' = "command"
    /\ UNCHANGED <<stage, listed, on, card, shows, err, sweep, landing, loads, calls, comings>>

SaveCommand ==
    /\ on /\ mode = "command" /\ card # 0
    /\ Calling("save") /\ mode' = "saving"
    /\ UNCHANGED <<stage, listed, on, card, shows, err, sweep, landing, loads, comings>>

\* Heard by another card, or by no screen, it leaves the keyboard to a saving that is over.
CommandSaved(c) ==
    /\ c \in calls /\ c.verb = "save"
    /\ calls' = calls \ {c}
    /\ mode' = IF on /\ c.to = card THEN "try" ELSE mode
    /\ UNCHANGED <<stage, listed, on, card, shows, err, sweep, landing, loads, comings>>

Skip ==
    /\ Decidable /\ sweep # <<>> /\ CanAsk(1)
    /\ Advance(card)
    /\ UNCHANGED <<stage, listed, on, mode, landing, calls, comings>>

QuitSweep ==
    /\ on /\ mode = "browsing" /\ ~err /\ shows # 0 /\ sweep # <<>>
    /\ sweep' = <<>>
    /\ UNCHANGED <<stage, listed, on, card, shows, err, mode, landing, loads, calls, comings>>

Retry ==
    /\ on /\ mode = "browsing" /\ err /\ card # 0
    /\ err' = FALSE /\ loads' = loads \union {card}
    /\ UNCHANGED <<stage, listed, on, card, shows, mode, sweep, landing, calls, comings>>

CardNext ==
    \/ \E t \in Cards : ComesBack(t) \/ \E p \in {"done", "away"} : LandingEnds(t, p)
    \/ Refreshed
    \/ \E t \in loads, ok \in BOOLEAN : LoadAnswers(t, ok)
    \/ \E c \in calls : CallAnswers(c) \/ CommandSaved(c) \/ \E ok \in BOOLEAN : Take(c, ok) \/ VerdictAnswers(c, ok)
    \/ \E focus \in Cards \union {0} : Enter(focus)
    \/ StartSweep \/ Leave \/ \E m \in {"approving", "reject", "discuss", "try"} : OpensPrompt(m)
    \/ ClosesPrompt \/ Approve \/ Reject \/ SendChanges \/ Rereview
    \/ TryCommand \/ SaveCommand \/ Skip \/ QuitSweep \/ Retry

\* While loads are in flight, one of them answers within the minute each is given.
CardFairness == WF_cardVars(\E t \in loads, ok \in BOOLEAN : LoadAnswers(t, ok))

---------------------------------------------------------------------------
(* What the screen promises.                                               *)

\* A card that is shown is loaded in the end, or says why it could not be: it never waits
\* for an answer nobody was asked for (review.go, the time limits and Retry).
CardsAnswer == (on /\ card # 0 /\ shows = 0 /\ ~err) ~> (~on \/ card = 0 \/ shows # 0 \/ err)

\* The answer about a ticket that is landing, or that is no longer on the card, leaves the card,
\* the prompt and the sweep to the work the human has moved on to (review.go, reviewActedMsg).
AnswersKeepTheirPlace == [][
    \A c \in calls \ calls' : (c.to # card \/ c.to \in landing) /\ CallAnswers(c)
        => UNCHANGED <<card, shows, mode, sweep>>]_cardVars

\* A key acts on exactly what the human is looking at (model.go:551-552): a decision is offered on
\* the ticket whose evidence is shown.
ActsOnWhatIsShown == Decidable /\ card # 0 => shows = card
==============================================================================
