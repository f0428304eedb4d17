----------------------------- MODULE Desk_proofs ------------------------------
(***************************************************************************)
(* Proofs about the screens of the terminal client, for any tickets, rows and   *)
(* runs and any number of keys, events and answers.                          *)
(***************************************************************************)
EXTENDS Desk, FiniteSetTheorems, SequenceTheorems, TLAPS

(***************************************************************************)
(* The frame.                                                               *)
(***************************************************************************)

\* A navigation that is still looking for a ticket that stayed in Review is looking for one that is
\* there; one that has found it says so.
FrameInv ==
  /\ version \in Nat /\ events \in Nat /\ since \in Nat /\ readAt \in Nat /\ asked \in Nat
  /\ where \in [Tickets -> [at : Places, row : Nat]]
  /\ nav.step \in {"none", "status", "reviews", "arrives"}
  /\ nav.step # "none" => nav.to \in Tickets
  /\ nav.step \in {"status", "reviews"} /\ nav.stays => InReview(nav.to)
  /\ NothingMissed

Navs == [to : Tickets \cup {0}, step : {"none", "status", "reviews", "arrives"},
         shows : [Tickets -> [at : Places, row : Nat]],
         found : {"none", "left", "Review", "Needs You", "Running", "Ready"}, stays : BOOLEAN]

\* Every step of the client keeps it.
LEMMA FrameKept == FrameInv /\ nav \in Navs /\ [Next]_deskVars => (FrameInv /\ nav \in Navs)'
  <1> SUFFICES ASSUME FrameInv, nav \in Navs, [Next]_deskVars PROVE (FrameInv /\ nav \in Navs)'
    OBVIOUS
  <1> USE FrameAssumption DEF FrameInv, NothingMissed, DropsHarmless, ReviewNeverLost, InReview
  <1>1. ASSUME NEW t \in Tickets, NEW p \in Places, StoreWrite(t, p)
        PROVE  (FrameInv /\ nav \in Navs)'
    <2>1. where' \in [Tickets -> [at : Places, row : Nat]] /\ where'[t].at = p
          /\ \A u \in Tickets \ {t} : where'[u] = where[u]
      BY <1>1 DEF StoreWrite
    <2>2. /\ version' = version + 1 /\ events' \in Nat /\ (feed = "open" => events' > 0)
          /\ UNCHANGED <<feed, since, readAt, asked>>
      BY <1>1 DEF StoreWrite, Publish
    <2>3. CASE nav.to = t /\ p \notin {"review", "unlisted"}
      <3>1. nav' = [nav EXCEPT !.stays = FALSE]
        BY <1>1, <2>3 DEF StoreWrite
      <3>2. nav' \in Navs /\ nav'.stays = FALSE /\ nav'.to = nav.to /\ nav'.step = nav.step
        BY <3>1 DEF Navs
      <3>3. DropsHarmless'
        BY <2>2
      <3>4. ~nav'.stays
        BY ONLY <3>2
      <3>5. /\ version' \in Nat /\ events' \in Nat /\ since' \in Nat /\ readAt' \in Nat /\ asked' \in Nat
            /\ nav'.step \in {"none", "status", "reviews", "arrives"}
            /\ nav'.step # "none" => nav'.to \in Tickets
        BY <2>2, <3>2
      <3>6. ReviewNeverLost'
        BY ONLY <3>4 DEF ReviewNeverLost
      <3>7. (nav.step \in {"status", "reviews"} /\ nav.stays => InReview(nav.to))'
        BY ONLY <3>4
      <3> QED BY ONLY <2>1, <3>2, <3>3, <3>5, <3>6, <3>7 DEF FrameInv, NothingMissed
    <2>4. CASE nav.to # t \/ p \in {"review", "unlisted"}
      <3>1. nav' = nav
        BY <1>1, <2>4 DEF StoreWrite
      <3>2. nav.step # "none" => (InReview(nav.to) => InReview(nav.to)')
        BY <2>1, <2>4, <3>1 DEF Navs
      <3>3. (nav.step \in {"status", "reviews"} /\ nav.stays => InReview(nav.to))'
        BY <3>1, <3>2
      <3>4. NothingMissed'
        BY <2>2, <3>1
      <3> QED BY <2>1, <2>2, <3>1, <3>3, <3>4
    <2> QED BY <2>3, <2>4
  <1>2. CASE ServerStops \/ FirstRead \/ SubscribeEvents \/ ConnectFails \/ EventArrives \/ EventsClosed
    BY <1>2 DEF ServerStops, FirstRead, SubscribeEvents, ConnectFails, EventArrives, EventsClosed
  <1>3. CASE StatusRead \/ StatusFails \/ KeySection \/ (\E w \in replies : StatusShown(w))
             \/ (\E i \in DOMAIN Rows(status) : KeyMove(i))
    BY <1>3 DEF StatusRead, StatusFails, KeySection, StatusShown, KeyMove
  <1>4. CASE KeyOpen
    <2>1. PICK t \in Tickets : nav' = [NoNav EXCEPT !.to = t, !.step = "status", !.stays = InReview(t)]
      BY <1>4 DEF KeyOpen
    <2>2. UNCHANGED <<where, version, feed, events, since, readAt, asked>>
      BY <1>4 DEF KeyOpen
    <2>3. InReview(t) \in BOOLEAN
      OBVIOUS
    <2>4. Nothing \in [Tickets -> [at : Places, row : Nat]]
      BY DEF Nothing, Places
    <2>5. nav'.to = t /\ nav'.step = "status" /\ nav'.stays = InReview(t) /\ nav' \in Navs
      BY <2>1, <2>3, <2>4 DEF NoNav, Navs
    <2> QED BY <2>2, <2>5
  <1>5. CASE NavStatus
    <2> DEFINE s == Screen(where[nav.to].at)
    <2>1. UNCHANGED <<where, version, feed, events, since, readAt, asked>> /\ nav.step = "status" /\ nav.to \in Tickets
      BY <1>5 DEF NavStatus
    <2>2. /\ s \in {"none", "Review", "Needs You", "Running", "Ready"}
          /\ InReview(nav.to) => s \in {"none", "Review"}
      BY <2>1 DEF Screen
    <2>3. nav' = [nav EXCEPT !.step = IF s = "none" THEN "reviews" ELSE "arrives", !.found = s, !.shows = where]
      BY <1>5 DEF NavStatus
    <2> HIDE DEF s
    <2>4. /\ nav'.step = (IF s = "none" THEN "reviews" ELSE "arrives") /\ nav'.found = s
          /\ nav'.to = nav.to /\ nav'.stays = nav.stays /\ nav' \in Navs
      BY <2>1, <2>2, <2>3 DEF Navs
    <2> QED BY <2>1, <2>2, <2>4
  <1>6. CASE NavReviews
    <2>1. UNCHANGED <<where, version, feed, events, since, readAt, asked>> /\ nav.step = "reviews" /\ nav.to \in Tickets
      BY <1>6 DEF NavReviews
    <2>2. /\ nav'.step = "arrives" /\ nav'.found = (IF InReview(nav.to) THEN "Review" ELSE "left")
          /\ nav'.to = nav.to /\ nav'.stays = nav.stays /\ nav' \in Navs
      BY <1>6 DEF NavReviews, Navs
    <2> QED BY <2>1, <2>2
  <1>7. CASE NavFails \/ NavArrives
    <2>1. UNCHANGED <<where, version, feed, events, since, readAt, asked>> /\ nav' = NoNav
      BY <1>7 DEF NavFails, NavArrives
    <2>2. Nothing \in [Tickets -> [at : Places, row : Nat]]
      BY DEF Nothing, Places
    <2>3. NoNav \in Navs /\ NoNav.step = "none"
      BY <2>2 DEF NoNav, Navs
    <2> QED BY <2>1, <2>3
  <1>8. CASE UNCHANGED frameVars
    BY <1>8 DEF frameVars
  <1> QED BY <1>1, <1>2, <1>3, <1>4, <1>5, <1>6, <1>7, <1>8 DEF Next, deskVars, FrameNext

\* It holds of every reachable frame.
LEMMA FrameInductive == Spec => [](FrameInv /\ nav \in Navs)
  <1>1. Init => FrameInv /\ nav \in Navs
    <2> SUFFICES ASSUME Init PROVE FrameInv /\ nav \in Navs
      OBVIOUS
    <2>1. where \in [Tickets -> [at : Places, row : Nat]]
      BY DEF Init, FrameInit, Places
    <2>2. Nothing \in [Tickets -> [at : Places, row : Nat]]
      BY DEF Nothing, Places
    <2>3. nav \in Navs /\ nav.step = "none"
      BY <2>2 DEF Init, FrameInit, NoNav, Navs
    <2>4. version = 0 /\ events = 0 /\ since = 0 /\ readAt = 0 /\ asked = 0 /\ feed = "none"
      BY DEF Init, FrameInit
    <2> QED BY <2>1, <2>3, <2>4 DEF FrameInv, NothingMissed, DropsHarmless, ReviewNeverLost
  <1> QED BY <1>1, FrameKept, PTL DEF Spec

\* Whatever the buffers of the event stream, a change the client has not read is announced or being
\* read; and a ticket that stays in Review from the key to the answer is found there, although its
\* attention row may come and go between the two reads (events.go:33-36, model.go:232-262).
THEOREM NoWorkMissed == Spec => []NothingMissed
  <1>1. FrameInv => NothingMissed
    BY DEF FrameInv
  <1> QED BY <1>1, FrameInductive, PTL

(***************************************************************************)
(* The lists.                                                               *)
(***************************************************************************)

\* A prompt holds nothing but rows the human saw it opened on.
ListInv == held \subseteq asksAbout /\ PromptKeepsItsSubject

\* Every step of the client keeps it.
LEMMA ListKept == ListInv /\ [Next]_deskVars => ListInv'
  <1> SUFFICES ASSUME ListInv, [Next]_deskVars PROVE ListInv'
    OBVIOUS
  <1> USE DEF ListInv, PromptKeepsItsSubject, promptVars, tally
  <1>1. CASE UNCHANGED <<promptVars, acted>>
    BY <1>1
  <1>2. ASSUME NEW p, NEW about_, NEW kept, kept \subseteq about_, Opens(p, about_, kept) PROVE ListInv'
    BY <1>2 DEF Opens
  <1>3. CASE CancelPrompt
    BY <1>3 DEF CancelPrompt
  <1>4. ASSUME NEW verb, NEW to, Confirms(verb, to),
               to \subseteq asksAbout \/ prompt \in {"notes", "archive"}
        PROVE  ListInv'
    BY <1>4 DEF Confirms
  <1>5. CASE UNCHANGED <<promptVars, tally>>
    BY <1>1, <1>5
  <1>6. CASE UNCHANGED listVars
    BY <1>1, <1>6 DEF listVars
  <1>7. ASSUME NEW x \in Ids, RowArrives(x) \/ Focus(x) PROVE ListInv'
    BY <1>1, <1>7 DEF RowArrives, Focus
  <1>8. ASSUME NEW a \in acts, Acts(a) PROVE ListInv'
    BY <1>5, <1>8 DEF Acts
  <1>9. CASE QueueRefreshed \/ OthersRefreshed
    BY <1>5, <1>9 DEF QueueRefreshed, OthersRefreshed
  <1>10. ASSUME NEW rows \in answers,
                QueueLoaded(rows) \/ NeedsYouShown(rows) \/ ProjectsLoaded(rows) \/ ListFails(rows)
         PROVE  ListInv'
    BY <1>5, <1>10 DEF QueueLoaded, NeedsYouShown, ProjectsLoaded, ListFails
  <1>11. ASSUME NEW i \in DOMAIN shown, MoveCursor(i) \/ Reorder(i) PROVE ListInv'
    BY <1>1, <1>11 DEF MoveCursor, Reorder
  <1>12. CASE Mark \/ MoveSelection \/ SetPriority \/ ReasonActs
    BY <1>1, <1>12 DEF Mark, MoveSelection, SetPriority, ReasonActs
  <1>13. CASE StartForm \/ ConfirmDelete \/ ConfirmReject \/ OpenConfig
    BY <1>2, <1>13 DEF StartForm, ConfirmDelete, ConfirmReject, OpenConfig
  <1>14. ASSUME NEW p, OpenReasonPrompt(p) \/ OpenProjectPrompt(p) PROVE ListInv'
    <2>1. Opens(p, Under, Under) \/ Opens(p, Under, {})
      BY <1>14 DEF OpenReasonPrompt, OpenProjectPrompt
    <2>2. Under \subseteq Under /\ {} \subseteq Under
      OBVIOUS
    <2> QED BY ONLY <1>2, <2>1, <2>2
  <1>15. CASE SubmitForm \/ ConfirmQueue \/ ConfirmReason \/ LeaveConfig
    BY <1>4, <1>15 DEF SubmitForm, ConfirmQueue, ConfirmReason, LeaveConfig
  <1>16. CASE ArchiveSelected \/ SubmitNotes
    BY <1>4, <1>16 DEF ArchiveSelected, SubmitNotes
  <1>17. CASE SubmitDelete
    <2>1. asksAbout \intersect Under \subseteq asksAbout
      OBVIOUS
    <2> QED BY <1>4, <1>17, <2>1 DEF SubmitDelete
  <1>18. CASE ListNext
    BY <1>3, <1>7, <1>8, <1>9, <1>10, <1>11, <1>12, <1>13, <1>14, <1>15, <1>16, <1>17, <1>18
       DEF ListNext
  <1> QED BY <1>6, <1>18 DEF Next, deskVars

\* However the rows move underneath, a decision that is confirmed goes to the rows the human saw
\* it asked of (needsyou.go:36-38); a project's notes and its archiving go where the cursor is.
THEOREM PromptsKeepTheirSubject == Spec => []PromptKeepsItsSubject
  <1>1. Init => ListInv
    BY DEF Init, ListInit, ListInv, PromptKeepsItsSubject
  <1>2. ListInv => PromptKeepsItsSubject
    BY DEF ListInv
  <1> QED BY <1>1, <1>2, ListKept, PTL DEF Spec

(***************************************************************************)
(* The screen of a run.                                                     *)
(***************************************************************************)

\* No stream is of no run, so a screen that follows nothing shows no line; and what is shown is
\* of the ticket and the run on screen.
RunInv ==
  /\ None \notin opening
  /\ \A w \in waits : w.run # None /\ w \in [run : {w.run}, cut : BOOLEAN]
  /\ followed = None => linesOf = {}
  /\ ShowsItsOwn

\* A wait that is cut short is still of its run.
LEMMA CutKeepsRun == ASSUME NEW w, w \in [run : {w.run}, cut : BOOLEAN]
                     PROVE  /\ [w EXCEPT !.cut = TRUE].run = w.run
                            /\ [w EXCEPT !.cut = TRUE] \in [run : {w.run}, cut : BOOLEAN]
  OBVIOUS

\* Stopping a stream keeps what is known of the waits.
LEMMA CutsAreWaits == ASSUME RunInv, NEW r
                      PROVE  \A w \in Cut(r) : w.run # None /\ w \in [run : {w.run}, cut : BOOLEAN]
  <1> SUFFICES ASSUME NEW v \in waits, NEW w, w = IF v.run = r THEN [v EXCEPT !.cut = TRUE] ELSE v
               PROVE  w.run # None /\ w \in [run : {w.run}, cut : BOOLEAN]
    BY DEF Cut
  <1>1. v.run # None /\ v \in [run : {v.run}, cut : BOOLEAN]
    BY DEF RunInv
  <1>2. w.run = v.run /\ w \in [run : {v.run}, cut : BOOLEAN]
    BY <1>1, CutKeepsRun
  <1> QED BY <1>1, <1>2

\* Turning to a ticket clears what was shown.
LEMMA ResetShowsNothing == ASSUME RunInv, NEW t, Reset(t), UNCHANGED opening PROVE RunInv'
  <1>1. waits' = Cut(stream)
    BY DEF Reset, StopsLogs
  <1>2. \A w \in waits' : w.run # None /\ w \in [run : {w.run}, cut : BOOLEAN]
    BY <1>1, CutsAreWaits
  <1>3. /\ about' = t /\ followed' = None /\ loadedFor' = 0 /\ linesOf' = {} /\ confirmKill' = FALSE
        /\ None \notin opening'
    BY DEF Reset, RunInv
  <1> QED BY <1>2, <1>3 DEF RunInv, ShowsItsOwn, None

\* Every step of the client keeps it.
LEMMA RunKept == RunInv /\ [Next]_deskVars => RunInv'
  <1> SUFFICES ASSUME RunInv, [Next]_deskVars PROVE RunInv'
    OBVIOUS
  <1> DEFINE same == UNCHANGED <<about, followed, loadedFor, opening, waits, linesOf, confirmKill>>
  <1>1. ASSUME same PROVE RunInv'
    BY <1>1 DEF RunInv, ShowsItsOwn, None
  <1>2. CASE UNCHANGED runningVars
    BY <1>1, <1>2 DEF runningVars, log, detail
  <1>3. ASSUME NEW t \in Work, AttemptStarts(t) \/ RunLeaves(t) PROVE RunInv'
    BY <1>1, <1>3 DEF AttemptStarts, RunLeaves, log, detail
  <1>4. ASSUME NEW focus, Glance(focus) PROVE RunInv'
    <2>1. same \/ (\E t : Reset(t) /\ UNCHANGED opening)
      BY <1>4 DEF Glance, detail, log
    <2> QED BY <1>1, <2>1, ResetShowsNothing
  <1>5. CASE GlanceAway
    BY <1>1, <1>5 DEF GlanceAway, log, detail
  <1>6. CASE SnapshotShown
    <2>1. same \/ (\E t : Reset(t) /\ UNCHANGED opening)
      BY <1>6 DEF SnapshotShown, detail, log
    <2> QED BY <1>1, <2>1, ResetShowsNothing
  <1>7. ASSUME NEW q \in reads, RunsListed(q) \/ ReadFails(q) PROVE RunInv'
    BY <1>1, <1>7 DEF RunsListed, ReadFails, log
  <1>8. ASSUME NEW q \in reads, DetailArrives(q) PROVE RunInv'
    <2> DEFINE newest == <<q.of, q.sees>>
    <2>1. CASE ~here \/ ~OfThisTicket(q)
      BY <1>1, <1>8, <2>1 DEF DetailArrives, log
    <2>2. CASE here /\ OfThisTicket(q) /\ (q.sees = 0 \/ newest = followed)
      <3>1. loadedFor' = about /\ UNCHANGED <<about, followed, opening, waits, linesOf, confirmKill>>
        BY <1>8, <2>2 DEF DetailArrives, OfThisTicket, log
      <3> QED BY <3>1 DEF RunInv, ShowsItsOwn, None
    <2>3. CASE here /\ OfThisTicket(q) /\ ~(q.sees = 0 \/ newest = followed)
      <3>1. /\ followed' = newest /\ opening' = opening \union {newest}
            /\ IF followed # None THEN SwitchStream ELSE UNCHANGED <<stream, waits, linesOf, streamDone>>
            /\ loadedFor' = q.of /\ UNCHANGED <<about, confirmKill>>
        BY <1>8, <2>3 DEF DetailArrives
      <3>2. newest # None /\ newest[1] = about /\ q.of = about
        BY <2>3 DEF None, OfThisTicket
      <3>3. linesOf' = {}
        BY <3>1 DEF SwitchStream, RunInv
      <3>4. \A w \in waits' : w.run # None /\ w \in [run : {w.run}, cut : BOOLEAN]
        <4>1. waits' = waits \/ waits' = Cut(stream)
          BY <3>1 DEF SwitchStream, StopsLogs
        <4>2. \A w \in waits : w.run # None /\ w \in [run : {w.run}, cut : BOOLEAN]
          BY DEF RunInv
        <4> QED BY <4>1, <4>2, CutsAreWaits
      <3> QED BY <2>3, <3>1, <3>2, <3>3, <3>4 DEF RunInv, ShowsItsOwn
    <2> QED BY <2>1, <2>2, <2>3
  <1>9. ASSUME NEW r \in opening, LogOpened(r) PROVE RunInv'
    <2>1. r # None
      BY DEF RunInv
    <2>2. \A w \in waits' : w.run # None /\ w \in [run : {w.run}, cut : BOOLEAN]
      <3> DEFINE w0 == [run |-> r, cut |-> FALSE]
      <3>1. w0.run = r /\ w0 \in [run : {r}, cut : BOOLEAN]
        OBVIOUS
      <3>2. waits' \subseteq waits \union {w0}
        BY <1>9 DEF LogOpened
      <3> HIDE DEF w0
      <3> QED BY <2>1, <3>1, <3>2 DEF RunInv
    <2>3. opening' \subseteq opening /\ UNCHANGED <<about, followed, loadedFor, linesOf, confirmKill>>
      BY <1>9 DEF LogOpened, detail
    <2> QED BY <2>2, <2>3 DEF RunInv, ShowsItsOwn, None
  <1>10. ASSUME NEW r \in opening, OpenFails(r) PROVE RunInv'
    BY <1>10 DEF OpenFails, RunInv, ShowsItsOwn, None
  <1>11. ASSUME NEW w \in waits, LineArrives(w) PROVE RunInv'
    <2>1. /\ waits' \subseteq waits /\ UNCHANGED <<about, followed, loadedFor, opening, confirmKill>>
          /\ linesOf' \subseteq linesOf \union {w.run} /\ (linesOf' # linesOf => w.run = followed)
      BY <1>11 DEF LineArrives, detail, OfThisRun
    <2> QED BY <2>1 DEF RunInv, ShowsItsOwn, None
  <1>12. ASSUME NEW w \in waits, LogClosed(w) PROVE RunInv'
    BY <1>12 DEF LogClosed, RunInv, ShowsItsOwn, None
  <1>13. CASE AskKill
    BY <1>13 DEF AskKill, detail, log, RunInv, ShowsItsOwn, None
  <1>14. ASSUME NEW yes \in BOOLEAN, AnswerKill(yes) PROVE RunInv'
    BY <1>14 DEF AnswerKill, detail, log, RunInv, ShowsItsOwn, None
  <1>15. CASE RunningNext
    BY <1>3, <1>4, <1>5, <1>6, <1>7, <1>8, <1>9, <1>10, <1>11, <1>12, <1>13, <1>14, <1>15
       DEF RunningNext
  <1> QED BY <1>2, <1>15 DEF Next, deskVars

\* A line, a read or a stream that comes after the screen has moved on leaves what it shows alone,
\* and a kill is asked only of a run of the ticket on screen (running.go:85-86).
THEOREM ScreenShowsItsOwn == Spec => []ShowsItsOwn
  <1>1. Init => RunInv
    BY DEF Init, RunningInit, RunInv, ShowsItsOwn, None
  <1>2. RunInv => ShowsItsOwn
    BY DEF RunInv
  <1> QED BY <1>1, <1>2, RunKept, PTL DEF Spec

(***************************************************************************)
(* The row under the cursor.                                                *)
(***************************************************************************)

\* Before the first snapshot there are no rows.
LEMMA NothingListed == Rows(Nothing) = <<>>
  <1>1. ASSUME NEW places, "gone" \notin places
        PROVE  In(Nothing, places) = <<>>
    <2> DEFINE theirs == {t \in Tickets : Nothing[t].at \in places}
    <2>1. theirs = {}
      BY <1>1 DEF Nothing
    <2>2. Cardinality(theirs) = 0
      BY <2>1, FS_EmptySet
    <2>3. [1..Cardinality(theirs) -> theirs] = {<<>>}
      <3>1. 1..0 = {}
        OBVIOUS
      <3>2. [1..0 -> {}] = {<<>>}
        <4>1. <<>> \in [1..0 -> {}]
          BY EmptySeq, LenProperties
        <4>2. ASSUME NEW f \in [1..0 -> {}]
              PROVE  f = <<>>
          <5>1. f \in Seq({})
            BY SeqDef
          <5>2. DOMAIN f = {} /\ DOMAIN f = 1..Len(f) /\ Len(f) \in Nat
            BY <3>1, <5>1, LenProperties
          <5> QED BY <5>1, <5>2, EmptySeq
        <4> QED BY <4>1, <4>2
      <3> QED BY <2>1, <2>2, <3>2
    <2>4. \A i, j \in DOMAIN <<>> : i < j => <<>>[i] < <<>>[j]
      OBVIOUS
    <2> QED BY <2>3, <2>4 DEF In
  <1>2. In(Nothing, Listed) = <<>> /\ In(Nothing, {"running"}) = <<>> /\ In(Nothing, {"ready"}) = <<>>
    BY <1>1 DEF Listed
  <1>3. <<>> \o <<>> = <<>>
    BY EmptySeq, ConcatEmptySeq
  <1> DEFINE order == In(Nothing, Listed) \o In(Nothing, {"running"}) \o In(Nothing, {"ready"})
  <1>4. order = <<>>
    BY <1>2, <1>3
  <1>5. Rows(Nothing) = [i \in DOMAIN order |-> [ticket |-> order[i], row |-> Nothing[order[i]].row]]
    BY DEF Rows
  <1> HIDE DEF order
  <1>6. DOMAIN order = {} /\ DOMAIN Rows(Nothing) = {}
    BY <1>4, <1>5
  <1>7. Rows(Nothing) \in Seq({})
    BY <1>4, <1>5, <1>6, SeqDef
  <1> QED BY <1>6, <1>7, EmptySeq, LenProperties

\* What the cursor is on is the row selected, wherever the snapshot shown carries it.
OnRow == selected # NoRow /\ selected \in Range(Rows(status)) => Rows(status)[cursor] = selected

\* While the dashboard is the screen shown; and nothing is selected, or navigated to, before the
\* first snapshot.
SelInv ==
  /\ ~away => OnRow
  /\ conn \in {"connecting", "subscribing"} => selected = NoRow /\ status = Nothing /\ nav.step = "none"

\* Selecting again puts the cursor on the row selected.
LEMMA ReselectFinds ==
  ASSUME NEW w, Reselect(w), status' = w
  PROVE  OnRow' /\ (selected \in Range(Rows(status')) => selected' = selected)
  <1> DEFINE rows == Rows(w)
  <1>1. Rows(status') = rows
    OBVIOUS
  <1>2. CASE selected \in Range(rows)
    <2>1. \E i \in DOMAIN rows : rows[i] = selected
      BY <1>2 DEF Range
    <2>2. rows[Position(rows, selected)] = selected
      BY <2>1 DEF Position
    <2>3. cursor' = Position(rows, selected) /\ selected' = selected
      BY <1>2 DEF Reselect
    <2> QED BY <1>1, <2>2, <2>3 DEF OnRow
  <1>3. CASE selected \notin Range(rows)
    <2>1. selected' = NoRow \/ selected' = rows[cursor']
      BY <1>3 DEF Reselect
    <2>2. selected \notin Range(Rows(status'))
      BY <1>1, <1>3
    <2>3. selected' # NoRow => Rows(status')[cursor'] = selected'
      BY <1>1, <2>1
    <2> QED BY <2>2, <2>3 DEF OnRow
  <1> QED BY <1>2, <1>3

\* Nothing is selected of no rows.
LEMMA ReselectNothing ==
  ASSUME Reselect(Nothing), selected = NoRow
  PROVE  selected' = NoRow
  BY NothingListed DEF Reselect

\* The row selected stays the one selected where there is no key and it is still there.
Stays ==
  ~away' /\ selected \in Range(Rows(status')) /\ (\A i \in DOMAIN Rows(status) : ~KeyMove(i)) =>
    selected' = selected

\* Every step keeps it, and a step that moves the cursor off its row is a key.
LEMMA SelectionKept ==
  ASSUME SelInv, [Next]_deskVars
  PROVE  SelInv' /\ Stays
  <1> DEFINE before == conn \in {"connecting", "subscribing"}
  <1> DEFINE fresh == before' => selected' = NoRow /\ status' = Nothing /\ nav'.step = "none"
  <1> SUFFICES fresh /\ (~away' => OnRow') /\ Stays
    BY DEF SelInv
  <1> USE DEF SelInv
  <1>1. ASSUME NEW t \in Tickets, NEW p \in Places, StoreWrite(t, p)
        PROVE  fresh /\ (~away' => OnRow') /\ Stays
    <2>1. UNCHANGED <<conn, status, selected, cursor, away>>
      BY <1>1 DEF StoreWrite
    <2>2. nav.step = "none" => nav'.step = "none"
      BY <1>1 DEF StoreWrite
    <2> QED BY <2>1, <2>2 DEF OnRow, Stays
  <1>2. CASE \/ ServerStops \/ FirstRead \/ EventArrives \/ StatusRead \/ NavFails
             \/ ConnectFails \/ EventsClosed \/ StatusFails
    <2>1. UNCHANGED <<status, selected, cursor, away>>
      BY <1>2 DEF ServerStops, FirstRead, EventArrives, StatusRead, NavFails, ConnectFails, EventsClosed,
                  StatusFails
    <2>2. before' => before /\ (nav.step = "none" => nav'.step = "none")
      BY <1>2 DEF ServerStops, FirstRead, EventArrives, StatusRead, NavFails, NoNav, ConnectFails,
                  EventsClosed, StatusFails
    <2> QED BY <2>1, <2>2 DEF OnRow, Stays
  <1>3. CASE SubscribeEvents
    BY <1>3 DEF SubscribeEvents, OnRow, Stays
  <1>4. ASSUME NEW w, StatusShown(w)
        PROVE  fresh /\ (~away' => OnRow') /\ Stays
    BY <1>4, ReselectFinds DEF StatusShown, Stays
  <1>5. ASSUME NEW i, KeyMove(i)
        PROVE  fresh /\ (~away' => OnRow') /\ Stays
    BY <1>5 DEF KeyMove, Dashboard, OnRow, Stays
  <1>6. CASE KeyOpen
    <2>1. UNCHANGED <<status, selected, cursor, away, conn>> /\ ~before
      BY <1>6 DEF KeyOpen, Dashboard
    <2> QED BY <2>1 DEF OnRow, Stays
  <1>7. CASE KeySection
    <2>1. UNCHANGED <<status, conn, nav>>
      BY <1>7 DEF KeySection
    <2>2. away => Reselect(status)
      BY <1>7 DEF KeySection
    <2>3. (~away' => OnRow') /\ Stays
      BY <1>7, <2>1, <2>2, ReselectFinds DEF KeySection, Stays
    <2>4. before => selected' = NoRow
      BY <1>7, <2>2, ReselectNothing DEF KeySection
    <2> QED BY <2>1, <2>3, <2>4
  <1>8. CASE NavStatus \/ NavReviews
    <2>1. UNCHANGED <<status, selected, cursor, away, conn>> /\ nav.step # "none"
      BY <1>8 DEF NavStatus, NavReviews
    <2> QED BY <2>1 DEF OnRow, Stays
  <1>9. CASE NavArrives
    <2>1. nav.step = "arrives" /\ status' = nav.shows /\ conn' = conn
      BY <1>9 DEF NavArrives
    <2>2. ~away' => Reselect(nav.shows)
      BY <1>9 DEF NavArrives
    <2> QED BY <2>1, <2>2, ReselectFinds DEF Stays
  <1>10. CASE UNCHANGED frameVars
    BY <1>10 DEF frameVars, OnRow, Stays
  <1> QED BY <1>1, <1>2, <1>3, <1>4, <1>5, <1>6, <1>7, <1>8, <1>9, <1>10 DEF Next, deskVars, FrameNext

\* Whatever snapshots arrive, and in whatever order, the row someone read is the row their next key
\* acts on, for as long as it is there (dashboard.go:15-20).
THEOREM SelectionStands == Spec => SelectionHeld
  <1>1. Init => SelInv
    BY DEF Init, FrameInit, NoNav, OnRow, SelInv
  <1>2. SelInv /\ [Next]_deskVars => SelInv'
    BY SelectionKept
  <1>3. SelInv /\ [Next]_deskVars =>
          [selected # NoRow /\ ~away' /\ selected \in Range(Rows(status')) /\ (\A i \in DOMAIN Rows(status) : ~KeyMove(i))
             => Rows(status')[cursor'] = selected]_frameVars
    <2> SUFFICES ASSUME SelInv, [Next]_deskVars, selected # NoRow, ~away', selected \in Range(Rows(status')),
                        \A i \in DOMAIN Rows(status) : ~KeyMove(i)
                 PROVE  Rows(status')[cursor'] = selected
      OBVIOUS
    <2>1. OnRow'
      BY SelectionKept DEF SelInv
    <2>2. selected' = selected
      BY SelectionKept DEF Stays
    <2> QED BY <2>1, <2>2 DEF OnRow
  <1> QED BY <1>1, <1>2, <1>3, PTL DEF Spec, SelectionHeld
=============================================================================
