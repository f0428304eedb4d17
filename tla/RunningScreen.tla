----------------------------- MODULE RunningScreen -----------------------------
(***************************************************************************)
(* The screen of a run: the ticket it is about, the attempt whose log it       *)
(* follows, the reads and streams it has in flight, and the prompt that stops   *)
(* the run.  An answer or a line reaches the screen only while it is shown; a   *)
(* run is its ticket and the number of the attempt; what a line says, scrolling  *)
(* and the timeline's text are left out.                                      *)
(***************************************************************************)
EXTENDS Naturals, FiniteSetsExt

CONSTANTS
    Work,         \* tickets
    MaxTries,     \* bound on the attempts of all of them
    MaxReloads,   \* bound on the reads in flight
    MaxGlances    \* bound on the times the human turns to the screen

ASSUME RunningAssumption == Work \subseteq Nat \ {0} /\ {MaxTries, MaxReloads, MaxGlances} \subseteq Nat

VARIABLES
    tries,        \* Work -> how many attempts the daemon has rows for
    busy,         \* the tickets with a run, in the daemon
    fleet,        \* the same in the snapshot the frame holds
    here,         \* the screen is the one shown
    about,        \* ticketID, or 0
    followed,     \* runID, or None
    loadedFor,    \* the ticket whose runs, explanation and journal it holds, or 0
    reloading, again,
    reads,        \* reads in flight, [of, made, sees]
    opening,      \* streams being opened, by run
    stream,       \* the run whose stream it can stop, or None
    waits,        \* goroutines that wait for a line, [run, cut]
    linesOf,      \* the runs whose lines are on screen
    streamDone,
    confirmKill,
    glances

runningVars == <<tries, busy, fleet, here, about, followed, loadedFor, reloading, again, reads, opening,
                 stream, waits, linesOf, streamDone, confirmKill, glances>>
\* What the daemon and the frame have, and what only reads and only streams change.
facts == <<tries, busy, fleet, glances>>
detail == <<loadedFor, reloading, again, reads>>
log == <<opening, stream, waits, linesOf, streamDone>>

None == <<0, 0>>
Latest(t) == <<t, tries[t]>>

RunningInit ==
    /\ tries = [t \in Work |-> 0] /\ busy = {} /\ fleet = {} /\ here = FALSE /\ about = 0
    /\ followed = None /\ loadedFor = 0 /\ reloading = FALSE /\ again = FALSE /\ reads = {}
    /\ opening = {} /\ stream = None /\ waits = {} /\ linesOf = {} /\ streamDone = FALSE
    /\ confirmKill = FALSE /\ glances = 0

---------------------------------------------------------------------------
(* The daemon, and what a screen sets off.                                 *)

\* An attempt begins, the first one or one that corrects the last; or a run is over.
AttemptStarts(t) ==
    /\ MapThenSumSet(LAMBDA w : tries[w], Work) < MaxTries
    /\ tries' = [tries EXCEPT ![t] = @ + 1] /\ busy' = busy \union {t}
    /\ UNCHANGED <<fleet, here, about, followed, detail, log, confirmKill, glances>>

RunLeaves(t) ==
    /\ t \in busy
    /\ busy' = busy \ {t}
    /\ UNCHANGED <<tries, fleet, here, about, followed, detail, log, confirmKill, glances>>

Cut(r) == {IF w.run = r THEN [w EXCEPT !.cut = TRUE] ELSE w : w \in waits}
StopsLogs == waits' = Cut(stream) /\ stream' = None

\* One read at a time; a push meanwhile asks for one more when it answers.
Reload(t, isReloading) ==
    IF t = 0 THEN UNCHANGED <<reads, again>> /\ reloading' = isReloading
    ELSE IF isReloading THEN again' = TRUE /\ reloading' = TRUE /\ UNCHANGED reads
    ELSE /\ Cardinality(reads) < MaxReloads
         /\ reloading' = TRUE /\ reads' = reads \union {[of |-> t, made |-> FALSE, sees |-> 0]}
         /\ again' = again

\* The screen as it begins, but for the ticket it turns to.
Reset(t) ==
    /\ StopsLogs
    /\ about' = t /\ followed' = None /\ loadedFor' = 0 /\ linesOf' = {} /\ streamDone' = FALSE
    /\ confirmKill' = FALSE
    /\ IF t = 0 THEN reloading' = FALSE /\ again' = FALSE /\ UNCHANGED reads
       ELSE /\ Cardinality(reads) < MaxReloads
            /\ reloading' = TRUE /\ again' = FALSE
            /\ reads' = reads \union {[of |-> t, made |-> FALSE, sees |-> 0]}

First(ts) == IF ts = {} THEN 0 ELSE Min(ts)
\* enteredMsg.  A ticket that is already shown keeps its stream.
Glance(focus) ==
    /\ ~here /\ glances < MaxGlances /\ focus \in fleet \union {0}
    /\ here' = TRUE /\ glances' = glances + 1
    /\ LET t == IF focus = 0 THEN First(fleet) ELSE focus IN
       IF t # 0 /\ t = about /\ loadedFor # 0
       THEN UNCHANGED <<about, followed, detail, log, confirmKill>>
       ELSE Reset(t) /\ UNCHANGED opening
    /\ UNCHANGED <<tries, busy, fleet>>

GlanceAway ==
    /\ here /\ ~confirmKill
    /\ here' = FALSE
    /\ UNCHANGED <<facts, about, followed, detail, log, confirmKill>>

\* refreshedMsg.  An empty screen picks up the first ticket to start.
SnapshotShown ==
    /\ fleet' = busy
    /\ IF ~here THEN UNCHANGED <<about, followed, detail, log, confirmKill>>
       ELSE IF about # 0 THEN Reload(about, reloading) /\ UNCHANGED <<about, followed, loadedFor, log, confirmKill>>
       ELSE IF busy = {} THEN UNCHANGED <<about, followed, detail, log, confirmKill>>
       ELSE Reset(First(busy)) /\ UNCHANGED opening
    /\ UNCHANGED <<tries, busy, here, glances>>

RunsListed(q) ==
    /\ q \in reads /\ ~q.made
    /\ reads' = (reads \ {q}) \union {[q EXCEPT !.made = TRUE, !.sees = tries[q.of]]}
    /\ UNCHANGED <<facts, here, about, followed, loadedFor, reloading, again, log, confirmKill>>

\* The log moves to the newer attempt: what was shown of the older one goes.
SwitchStream ==
    /\ StopsLogs /\ linesOf' = {} /\ streamDone' = FALSE

\* Mutant: whatever arrives is shown.
OfThisTicket_any(q) == TRUE
\* runDetailMsg: a read for a ticket the screen has moved off says nothing here.
OfThisTicket(q) == q.of = about
DetailArrives(q) ==
    /\ q \in reads /\ q.made
    /\ IF ~here \/ ~OfThisTicket(q)
       THEN reads' = reads \ {q} /\ UNCHANGED <<loadedFor, reloading, again, followed, log>>
       ELSE /\ loadedFor' = q.of /\ again' = FALSE /\ reloading' = again
            /\ reads' = (reads \ {q}) \union
                        (IF again THEN {[of |-> about, made |-> FALSE, sees |-> 0]} ELSE {})
            /\ LET newest == <<q.of, q.sees>> IN
               IF q.sees = 0 \/ newest = followed THEN UNCHANGED <<followed, log>>
               ELSE /\ followed' = newest /\ opening' = opening \union {newest}
                    /\ IF followed # None THEN SwitchStream
                       ELSE UNCHANGED <<stream, waits, linesOf, streamDone>>
    /\ UNCHANGED <<facts, here, about, confirmKill>>

\* runDetailErrMsg: a read or an opening that failed; what was asked meanwhile waits for a push.
ReadFails(q) ==
    /\ q \in reads
    /\ reads' = reads \ {q} /\ reloading' = (reloading /\ ~here)
    /\ UNCHANGED <<facts, here, about, followed, loadedFor, again, log, confirmKill>>

OpenFails(r) ==
    /\ r \in opening
    /\ opening' = opening \ {r} /\ reloading' = (reloading /\ ~here)
    /\ UNCHANGED <<facts, here, about, followed, loadedFor, again, reads, stream, waits, linesOf,
                   streamDone, confirmKill>>

---------------------------------------------------------------------------
(* The log.                                                                *)

\* logOpenedMsg.  A stream the screen has moved off is stopped, unless another screen is shown:
\* then nobody hears of it.
LogOpened(r) ==
    /\ r \in opening
    /\ opening' = opening \ {r}
    /\ IF here /\ r = followed
       THEN /\ stream' = r /\ streamDone' = FALSE
            /\ waits' = waits \union {[run |-> r, cut |-> FALSE]}
       ELSE UNCHANGED <<stream, waits, streamDone>>
    /\ UNCHANGED <<facts, here, about, followed, detail, linesOf, confirmKill>>

\* logLineMsg: the line joins those on screen, if it is of the run that is followed.
OfThisRun(w) == w.run = followed
LineArrives(w) ==
    /\ w \in waits
    /\ waits' = waits \ {w}
    /\ linesOf' = IF here /\ OfThisRun(w) THEN linesOf \union {w.run} ELSE linesOf
    /\ UNCHANGED <<facts, here, about, followed, detail, opening, stream, streamDone, confirmKill>>

\* logClosedMsg: the run is over, or the stream was stopped.
LogClosed(w) ==
    /\ w \in waits /\ (w.cut \/ w.run[1] \notin busy \/ w.run # Latest(w.run[1]))
    /\ waits' = waits \ {w}
    /\ IF here /\ OfThisRun(w) THEN streamDone' = TRUE /\ Reload(about, reloading)
       ELSE UNCHANGED <<streamDone, reads, reloading, again>>
    /\ UNCHANGED <<facts, here, about, followed, loadedFor, opening, stream, linesOf, confirmKill>>

---------------------------------------------------------------------------
(* The keys.                                                               *)

AskKill ==
    /\ here /\ ~confirmKill /\ followed # None
    /\ confirmKill' = TRUE
    /\ UNCHANGED <<facts, here, about, followed, detail, log>>

\* y kills the run that is followed by then; any other key cancels.
AnswerKill(yes) ==
    /\ confirmKill /\ here
    /\ confirmKill' = FALSE
    /\ busy' = IF yes /\ followed = Latest(followed[1]) THEN busy \ {followed[1]} ELSE busy
    /\ UNCHANGED <<tries, fleet, glances, here, about, followed, detail, log>>

RunningNext ==
    \/ \E t \in Work : AttemptStarts(t) \/ RunLeaves(t)
    \/ \E focus \in Work \union {0} : Glance(focus)
    \/ GlanceAway \/ SnapshotShown
    \/ \E q \in reads : RunsListed(q) \/ DetailArrives(q) \/ ReadFails(q)
    \/ \E r \in opening : LogOpened(r) \/ OpenFails(r)
    \/ \E w \in waits : LineArrives(w) \/ LogClosed(w)
    \/ AskKill \/ \E yes \in BOOLEAN : AnswerKill(yes)

---------------------------------------------------------------------------
(* What the screen promises.                                               *)

\* A stream or a read the screen has moved off writes nothing into what it shows now, and a
\* kill is confirmed only of runs of the ticket on screen (running.go:85-86).
ShowsItsOwn ==
    /\ linesOf \subseteq {followed} /\ loadedFor \in {0, about} /\ followed[1] \in {0, about}
    /\ confirmKill => followed # None

\* The tail is push-driven: while the stream of the run it follows is open, the screen waits for
\* its next line (running.go:135, "reads one line and re-arms").
FollowsTheTail ==
    here /\ stream # None /\ stream = followed /\ ~streamDone
        => [run |-> stream, cut |-> FALSE] \in waits
==============================================================================
