--------------------------------- MODULE Frame ---------------------------------
(***************************************************************************)
(* The frame of the terminal client: the snapshot it renders, the events that  *)
(* tell it to read again, the row selected on the dashboard and the way from a  *)
(* row to the screen its ticket belongs on.  An event says only that something *)
(* changed, so a stream of them is the number that wait; the buffers between    *)
(* the daemon's broker and the client are one.  Where a ticket is, with the     *)
(* number of its open attention row, stands for all that a snapshot says of it. *)
(***************************************************************************)
EXTENDS Naturals, Sequences, SequencesExt, FiniteSetsExt

CONSTANTS
    Tickets,      \* ticket ids
    FeedBuffer,   \* events a subscriber may fall behind (64)
    MaxWrites,    \* bound on the daemon's writes
    MaxReads      \* bound on the reads of Status in flight

ASSUME FrameAssumption == Tickets \subseteq Nat /\ FeedBuffer \in Nat \ {0} /\ MaxReads \in Nat \ {0}

\* Waiting for a human in Review, or parked; "unlisted" is in Review with its attention resolved.
Places == {"review", "parked", "unlisted", "running", "ready", "gone"}
Moves == {<<"ready", "running">>, <<"running", "review">>, <<"running", "parked">>,
          <<"running", "gone">>, <<"review", "running">>, <<"review", "unlisted">>,
          <<"review", "ready">>, <<"unlisted", "review">>, <<"unlisted", "gone">>,
          <<"parked", "ready">>, <<"parked", "gone">>}

VARIABLES
    where,        \* Tickets -> [at, row]: its place, and its attention row if one is open
    version,      \* writes so far
    feed,         \* the event stream: "none", "open" or "shut"
    events,       \* events that wait in it
    since,        \* the version at the subscription
    readAt,       \* the version the latest read of Status was made at
    asked,        \* reads of Status the daemon has not made yet
    replies,      \* snapshots on their way to the frame
    conn,         \* "connecting", "subscribing", "ready" or "unreachable"
    status,       \* the snapshot on screen
    selected,     \* the dashboard's row, [ticket, row], or NoRow
    cursor,       \* and its position, from 1
    away,         \* another screen is the one shown
    nav           \* the navigation in flight, [to, step, shows, found, stays]

frameVars == <<where, version, feed, events, since, readAt, asked, replies, conn, status, selected,
               cursor, away, nav>>

NoRow == [ticket |-> 0, row |-> 0]
Nothing == [t \in Tickets |-> [at |-> "gone", row |-> 0]]
NoNav == [to |-> 0, step |-> "none", shows |-> Nothing, found |-> "none", stays |-> TRUE]
Listed == {"review", "parked"}

FrameInit ==
    /\ where = [t \in Tickets |-> IF t = Max(Tickets) THEN [at |-> "review", row |-> 1]
                                 ELSE [at |-> "running", row |-> 0]]
    /\ version = 0 /\ feed = "none" /\ events = 0 /\ since = 0 /\ readAt = 0
    /\ asked = 0 /\ replies = {} /\ conn = "connecting" /\ status = Nothing
    /\ selected = NoRow /\ cursor = 1 /\ away = FALSE /\ nav = NoNav

\* The dashboard's rows: what needs the human, what runs, what is ready.  A row that needs the
\* human is the attention row's, any other its ticket's.
In(w, places) ==
    LET there == {t \in Tickets : w[t].at \in places} IN
    CHOOSE s \in [1..Cardinality(there) -> there] : \A i, j \in DOMAIN s : i < j => s[i] < s[j]
Rows(w) == LET order == In(w, Listed) \o In(w, {"running"}) \o In(w, {"ready"}) IN
           [i \in DOMAIN order |-> [ticket |-> order[i], row |-> w[order[i]].row]]

---------------------------------------------------------------------------
(* The daemon.                                                             *)

\* A write that succeeds is published; a subscriber that is full misses the event.
Publish ==
    events' = IF feed = "open" /\ events < FeedBuffer THEN events + 1 ELSE events

InReview(t) == where[t].at \in {"review", "unlisted"}
\* A navigation is about a ticket that stays in Review while it looks for it, or not.
StoreWrite(t, p) ==
    /\ version < MaxWrites /\ <<where[t].at, p>> \in Moves
    /\ version' = version + 1
    /\ where' = [where EXCEPT ![t] = [at |-> p, row |-> IF p \in Listed THEN version' + 1 ELSE 0]]
    /\ Publish
    /\ nav' = IF nav.to = t /\ p \notin {"review", "unlisted"} THEN [nav EXCEPT !.stays = FALSE] ELSE nav
    /\ UNCHANGED <<feed, since, readAt, asked, replies, conn, status, selected, cursor, away>>

\* Server.Close drops the connections; events already sent are still read.
ServerStops ==
    /\ feed = "open"
    /\ feed' = "shut"
    /\ UNCHANGED <<where, version, events, since, readAt, asked, replies, conn, status, selected,
                   cursor, away, nav>>

---------------------------------------------------------------------------
(* Connecting, and reading again at every event.                           *)

\* Status first, then Events; the snapshot is shown when both have answered.
FirstRead ==
    /\ conn = "connecting"
    /\ conn' = "subscribing" /\ replies' = {where} /\ readAt' = version
    /\ UNCHANGED <<where, version, feed, events, since, asked, status, selected, cursor, away, nav>>

SubscribeEvents ==
    /\ conn = "subscribing"
    /\ feed' = "open" /\ since' = version /\ conn' = "ready"
    /\ replies' = {} /\ status' \in replies
    /\ UNCHANGED <<where, version, events, readAt, asked, selected, cursor, away, nav>>

ConnectFails ==
    /\ conn \in {"connecting", "subscribing"}
    /\ conn' = "unreachable" /\ replies' = {}
    /\ UNCHANGED <<where, version, feed, events, since, readAt, asked, status, selected, cursor, away, nav>>

\* Mutant: while a snapshot is on its way no other is asked for.
EventArrives_once ==
    /\ feed # "none" /\ events > 0 /\ asked + Cardinality(replies) < MaxReads
    /\ events' = events - 1 /\ asked' = IF replies # {} THEN asked ELSE asked + 1
    /\ UNCHANGED <<where, version, feed, since, readAt, replies, conn, status, selected, cursor, away, nav>>

EventArrives ==
    /\ feed # "none" /\ events > 0 /\ asked + Cardinality(replies) < MaxReads
    /\ events' = events - 1 /\ asked' = asked + 1
    /\ UNCHANGED <<where, version, feed, since, readAt, replies, conn, status, selected, cursor, away, nav>>

EventsClosed ==
    /\ feed = "shut" /\ events = 0
    /\ feed' = "none" /\ conn' = "unreachable"
    /\ UNCHANGED <<where, version, events, since, readAt, asked, replies, status, selected, cursor, away, nav>>

\* Reads are goroutines of their own: their answers come in any order.
StatusRead ==
    /\ asked > 0
    /\ asked' = asked - 1 /\ replies' = replies \union {where} /\ readAt' = version
    /\ UNCHANGED <<where, version, feed, events, since, conn, status, selected, cursor, away, nav>>

StatusFails ==
    /\ asked > 0
    /\ asked' = asked - 1 /\ readAt' = version /\ conn' = "unreachable"
    /\ UNCHANGED <<where, version, feed, events, since, replies, status, selected, cursor, away, nav>>

\* No two rows are the same.
Position(rows, r) == CHOOSE i \in DOMAIN rows : rows[i] = r
Clamped(i, rows) == IF rows = <<>> THEN 1 ELSE Min({i, Len(rows)})

\* Mutant: the cursor is kept by position.
Reselect_position(w) ==
    LET rows == Rows(w) IN
    cursor' = Clamped(cursor, rows) /\ selected' = IF rows = <<>> THEN NoRow ELSE rows[cursor']
\* The cursor follows its row; when that has gone, what is there now is selected.
Reselect(w) ==
    LET rows == Rows(w) IN
    IF selected \in Range(rows)
    THEN cursor' = Position(rows, selected) /\ selected' = selected
    ELSE /\ cursor' = Clamped(cursor, rows)
         /\ selected' = IF rows = <<>> THEN NoRow ELSE rows[cursor']

\* Only the screen that is shown hears of it.
StatusShown(w) ==
    /\ w \in replies /\ conn \in {"ready", "unreachable"}
    /\ replies' = replies \ {w} /\ status' = w /\ conn' = "ready"
    /\ IF away THEN UNCHANGED <<selected, cursor>> ELSE Reselect(w)
    /\ UNCHANGED <<where, version, feed, events, since, readAt, asked, away, nav>>

---------------------------------------------------------------------------
(* The dashboard's keys.                                                   *)

Dashboard == ~away /\ conn \in {"ready", "unreachable"}

KeyMove(i) ==
    /\ Dashboard /\ i \in DOMAIN Rows(status) /\ i # cursor
    /\ cursor' = i /\ selected' = Rows(status)[i]
    /\ UNCHANGED <<where, version, feed, events, since, readAt, asked, replies, conn, status, away, nav>>

\* By identity: the row may be a rendering of what was seconds ago.
KeyOpen ==
    /\ Dashboard /\ nav.step = "none" /\ cursor \in DOMAIN Rows(status)
    /\ \E t \in Tickets :
       /\ t = Rows(status)[cursor].ticket
       /\ nav' = [NoNav EXCEPT !.to = t, !.step = "status", !.stays = InReview(t)]
    /\ UNCHANGED <<where, version, feed, events, since, readAt, asked, replies, conn, status, selected,
                   cursor, away>>

\* Another screen, and back: every message to the dashboard selects again first.
KeySection ==
    /\ away' = ~away
    /\ IF away THEN Reselect(status) ELSE UNCHANGED <<selected, cursor>>
    /\ UNCHANGED <<where, version, feed, events, since, readAt, asked, replies, conn, status, nav>>

\* resolveTicket: the screen a snapshot puts the ticket on.
Screen(p) == CASE p = "review" -> "Review" [] p = "parked" -> "Needs You" [] p = "running" -> "Running"
               [] p = "ready" -> "Ready" [] OTHER -> "none"

NavStatus ==
    /\ nav.step = "status"
    /\ LET s == Screen(where[nav.to].at) IN
       nav' = [nav EXCEPT !.step = IF s = "none" THEN "reviews" ELSE "arrives", !.found = s,
                          !.shows = where]
    /\ UNCHANGED <<where, version, feed, events, since, readAt, asked, replies, conn, status, selected,
                   cursor, away>>

\* The snapshot does not carry it: is it still waiting for a human?
NavReviews ==
    /\ nav.step = "reviews"
    /\ nav' = [nav EXCEPT !.step = "arrives",
                   !.found = IF InReview(nav.to) THEN "Review" ELSE "left"]
    /\ UNCHANGED <<where, version, feed, events, since, readAt, asked, replies, conn, status, selected,
                   cursor, away>>

\* A read that fails leaves a notice and the row to press again.
NavFails ==
    /\ nav.step \in {"status", "reviews"}
    /\ nav' = NoNav
    /\ UNCHANGED <<where, version, feed, events, since, readAt, asked, replies, conn, status, selected,
                   cursor, away>>

\* With the snapshot it was resolved in: the screen the ticket belongs on, or the notice that it
\* has left the queue.
NavArrives ==
    /\ nav.step = "arrives"
    /\ nav' = NoNav /\ status' = nav.shows /\ away' = (away \/ nav.found # "left")
    /\ IF away' THEN UNCHANGED <<selected, cursor>> ELSE Reselect(nav.shows)
    /\ UNCHANGED <<where, version, feed, events, since, readAt, asked, replies, conn>>

FrameNext ==
    \/ \E t \in Tickets, p \in Places : StoreWrite(t, p)
    \/ ServerStops \/ FirstRead \/ SubscribeEvents \/ ConnectFails
    \/ EventArrives \/ EventsClosed \/ StatusRead \/ StatusFails
    \/ \E w \in replies : StatusShown(w)
    \/ \E i \in DOMAIN Rows(status) : KeyMove(i)
    \/ KeyOpen \/ KeySection \/ NavStatus \/ NavReviews \/ NavFails \/ NavArrives

---------------------------------------------------------------------------
(* What the frame promises.                                                *)

\* An event dropped is harmless: what changed since the client subscribed is read, or will be,
\* because an event that waits or a read still to be made comes after it (events.go:33-36).  A
\* read that fails is made too: it shows the daemon as unreachable.
DropsHarmless ==
    feed = "open" /\ version > since /\ version > readAt => events > 0 \/ asked > 0

\* Whatever arrives, the selected row stays under the cursor for as long as the snapshot shown still
\* carries it, across other screens too; only a key moves off it (dashboard.go:15-20: the row
\* someone read and the row their next keystroke acts on).
SelectionHeld == [][
    selected # NoRow /\ ~away' /\ selected \in Range(Rows(status')) /\ (\A i \in DOMAIN Rows(status) : ~KeyMove(i))
        => Rows(status')[cursor'] = selected]_frameVars

\* A ticket that waits in Review from the key to the answer is not called gone, whatever becomes
\* of its attention row meanwhile (model.go:232-262).
ReviewNeverLost == nav.step = "arrives" /\ nav.stays => nav.found = "Review"

\* The frame may be late; it does not miss a change for good, nor work that waits for a human.
NothingMissed == DropsHarmless /\ ReviewNeverLost
==============================================================================
