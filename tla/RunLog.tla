-------------------------------- MODULE RunLog --------------------------------
(***************************************************************************)
(* The logs of runs: two append-only files per run, the writer that fills    *)
(* them, the readers that follow it while it is live, and the connection on   *)
(* which a client follows one.  A line is its file and its number there; what  *)
(* a line says is left out, so a file is the number of its lines.            *)
(***************************************************************************)
EXTENDS Naturals, SequencesExt, FiniteSetsExt

CONSTANTS
    Runs,         \* run ids
    Readers,      \* calls of StreamLogs, each about one run
    LogBuffer,    \* how far a reader may fall behind (256)
    MaxLines      \* bound on the lines of a run

ASSUME RunLogAssumption == LogBuffer \in Nat \ {0} /\ MaxLines \in Nat /\ "none" \notin Runs

Files == {"agent", "event"}

VARIABLES
    writer,       \* Runs -> how far the run's writer is
    dir,          \* the runs with a directory
    file,         \* Runs -> Files -> the lines written to it
    pending,      \* Runs -> the readers that wait for the run to start
    toServe,      \* Runs -> the waiting readers Open has taken and not served yet
    tail,         \* Readers -> [run, at, taps, shut, buf, out, lagged]
    decoded,      \* Readers -> lines the client has read from its connection
    pruning       \* the run the retention pass is about to remove, or "none"

logVars == <<writer, dir, file, pending, toServe, tail, decoded, pruning>>

Empty == [f \in Files |-> 0]
\* A reader before its call, and the call as it begins.
Idle == [run |-> "none", at |-> "idle", taps |-> FALSE, shut |-> FALSE, buf |-> <<>>, out |-> <<>>,
         lagged |-> FALSE]

LogInit ==
    /\ writer = [r \in Runs |-> "none"] /\ dir = {} /\ file = [r \in Runs |-> Empty]
    /\ pending = [r \in Runs |-> {}] /\ toServe = [r \in Runs |-> {}]
    /\ tail = [s \in Readers |-> Idle] /\ decoded = [s \in Readers |-> 0] /\ pruning = "none"

\* Store.live: set in Open, deleted at the end of Close.
Live(r) == writer[r] \in {"serving", "open", "closed"}
Line(f, i) == [file |-> f, n |-> i]
LogLines(f, n) == [i \in 1..n |-> Line(f, i)]
\* Mutant: what happened before the follower came is read of the agent only.
History_agent(r) == LogLines("agent", file[r]["agent"])
\* The agent's file first, then the events.
History(r) == LogLines("agent", file[r]["agent"]) \o LogLines("event", file[r]["event"])
\* Readers whose channel the writer of r still holds.
Subscribers(r) == {s \in Readers : tail[s].run = r /\ tail[s].taps}

---------------------------------------------------------------------------
(* The writer.                                                             *)

MakeDir(r) ==
    /\ writer[r] = "none"
    /\ writer' = [writer EXCEPT ![r] = "made"] /\ dir' = dir \union {r}
    /\ UNCHANGED <<file, pending, toServe, tail, decoded, pruning>>

\* Under the store's lock: the run is live, and the readers that waited are Open's to serve.
GoLive(r) ==
    /\ writer[r] = "made"
    /\ writer' = [writer EXCEPT ![r] = "serving"]
    /\ toServe' = [toServe EXCEPT ![r] = pending[r]] /\ pending' = [pending EXCEPT ![r] = {}]
    /\ UNCHANGED <<dir, file, tail, decoded, pruning>>

Tapped(s, at, lines) == [tail EXCEPT ![s].at = at, ![s].taps = TRUE, ![s].out = @ \o lines]

\* One that has given up since is subscribed and released at once.
ServeWaiter(r, s) ==
    /\ writer[r] = "serving" /\ s \in toServe[r]
    /\ toServe' = [toServe EXCEPT ![r] = @ \ {s}]
    /\ tail' = IF tail[s].at = "waiting" THEN Tapped(s, "following", <<>>) ELSE tail
    /\ UNCHANGED <<writer, dir, file, pending, decoded, pruning>>

Opened(r) ==
    /\ writer[r] = "serving" /\ toServe[r] = {}
    /\ writer' = [writer EXCEPT ![r] = "open"]
    /\ UNCHANGED <<dir, file, pending, toServe, tail, decoded, pruning>>

\* A reader that has stopped keeping up loses the line; the writer never waits for one.
Published(r, l) == [s \in Readers |->
    IF s \notin Subscribers(r) THEN tail[s]
    ELSE IF Len(tail[s].buf) < LogBuffer THEN [tail[s] EXCEPT !.buf = Append(@, l)]
    ELSE [tail[s] EXCEPT !.lagged = TRUE]]

Write(r, f) ==
    /\ writer[r] = "open" /\ file[r]["agent"] + file[r]["event"] < MaxLines
    /\ file' = [file EXCEPT ![r][f] = @ + 1]
    /\ tail' = Published(r, Line(f, file[r][f] + 1))
    /\ UNCHANGED <<writer, dir, pending, toServe, decoded, pruning>>

\* Mutant: the files are closed, the channels are not.
Released_none(r) == tail
\* The readers' channels close; what is buffered in them can still be read.
Released(r) == [s \in Readers |->
    IF s \in Subscribers(r) THEN [tail[s] EXCEPT !.taps = FALSE, !.shut = TRUE] ELSE tail[s]]

CloseLog(r) ==
    /\ writer[r] = "open"
    /\ writer' = [writer EXCEPT ![r] = "closed"] /\ tail' = Released(r)
    /\ UNCHANGED <<dir, file, pending, toServe, decoded, pruning>>

Forget(r) ==
    /\ writer[r] = "closed"
    /\ writer' = [writer EXCEPT ![r] = "gone"]
    /\ UNCHANGED <<dir, file, pending, toServe, tail, decoded, pruning>>

---------------------------------------------------------------------------
(* A reader.  Three looks in a row, under no common lock: the live map, the   *)
(* directory, and then the writer or the list of those who wait.             *)

Follow(s, r) ==
    /\ tail[s].at = "idle"
    /\ tail' = [tail EXCEPT ![s].run = r, ![s].at = IF Live(r) THEN "found" ELSE "missing"]
    /\ UNCHANGED <<writer, dir, file, pending, toServe, decoded, pruning>>

\* The run is over, or its directory is there already: the files are all there is.
ServeFiles(s) ==
    /\ tail[s].at = "missing" /\ tail[s].run \in dir
    /\ tail' = [tail EXCEPT ![s].at = "ended", ![s].out = History(tail[s].run)]
    /\ UNCHANGED <<writer, dir, file, pending, toServe, decoded, pruning>>

NoFiles(s) ==
    /\ tail[s].at = "missing" /\ tail[s].run \notin dir
    /\ tail' = [tail EXCEPT ![s].at = "unstarted"]
    /\ UNCHANGED <<writer, dir, file, pending, toServe, decoded, pruning>>

WaitForWriter(s) ==
    /\ tail[s].at = "unstarted"
    /\ tail' = [tail EXCEPT ![s].at = "waiting"]
    /\ pending' = [pending EXCEPT ![tail[s].run] = @ \union {s}]
    /\ UNCHANGED <<writer, dir, file, toServe, decoded, pruning>>

\* History and subscription under the writer's lock.
Subscribe(s) ==
    /\ tail[s].at = "found"
    /\ tail' = Tapped(s, "following", History(tail[s].run))
    /\ UNCHANGED <<writer, dir, file, pending, toServe, decoded, pruning>>

\* One line goes on to the server's side of the connection.
Relay(s) ==
    /\ tail[s].at = "following" /\ tail[s].buf # <<>>
    /\ tail' = [tail EXCEPT ![s].buf = Tail(@), ![s].out = Append(@, Head(tail[s].buf))]
    /\ UNCHANGED <<writer, dir, file, pending, toServe, decoded, pruning>>

\* A closed channel ends the stream, and closing the connection tells the client so.
EndStream(s) ==
    /\ tail[s].at = "following" /\ tail[s].buf = <<>> /\ tail[s].shut
    /\ tail' = [tail EXCEPT ![s].at = "ended"]
    /\ UNCHANGED <<writer, dir, file, pending, toServe, decoded, pruning>>

\* The client decodes one line of those the server wrote.
Decode(s) ==
    /\ tail[s].at \in {"following", "ended"} /\ decoded[s] < Len(tail[s].out)
    /\ decoded' = [decoded EXCEPT ![s] = @ + 1]
    /\ UNCHANGED <<writer, dir, file, pending, toServe, tail, pruning>>

\* The client sees the end of the connection once it has read what came before it.
Closed(s) ==
    /\ tail[s].at = "ended" /\ decoded[s] = Len(tail[s].out)
    /\ tail' = [tail EXCEPT ![s].at = "over"]
    /\ UNCHANGED <<writer, dir, file, pending, toServe, decoded, pruning>>

\* stop: the connection is cut, and with it the subscription or the wait.
Stop(s) ==
    /\ tail[s].at \in {"waiting", "following", "ended"}
    /\ tail' = [tail EXCEPT ![s].at = "over", ![s].taps = FALSE, ![s].buf = <<>>]
    /\ pending' = [pending EXCEPT ![tail[s].run] = @ \ {s}]
    /\ UNCHANGED <<writer, dir, file, toServe, decoded, pruning>>

---------------------------------------------------------------------------
(* Retention, and the removal of a deleted ticket's logs.  Both look at the   *)
(* live map first and remove after.  A directory just made is newer than any   *)
(* window, and a ticket with a run to come cannot be deleted.                *)

LooksOld(r) ==
    /\ pruning = "none" /\ r \in dir /\ writer[r] # "made" /\ ~Live(r)
    /\ pruning' = r
    /\ UNCHANGED <<writer, dir, file, pending, toServe, tail, decoded>>

RemoveDir(r) ==
    /\ pruning = r
    /\ pruning' = "none" /\ dir' = dir \ {r} /\ file' = [file EXCEPT ![r] = Empty]
    /\ UNCHANGED <<writer, pending, toServe, tail, decoded>>

\* The daemon dies: what is in memory goes, the files stay.
DaemonDies ==
    /\ \E r \in Runs : Live(r) \/ writer[r] = "made"
    /\ writer' = [r \in Runs |-> IF writer[r] = "none" THEN "none" ELSE "gone"]
    /\ pending' = [r \in Runs |-> {}] /\ toServe' = [r \in Runs |-> {}] /\ pruning' = "none"
    /\ tail' = [s \in Readers |-> IF tail[s].at = "idle" THEN Idle
                                  ELSE [tail[s] EXCEPT !.at = "over", !.taps = FALSE, !.buf = <<>>]]
    /\ UNCHANGED <<dir, file, decoded>>

WriterNext(r) ==
    \/ MakeDir(r) \/ GoLive(r) \/ Opened(r) \/ CloseLog(r) \/ Forget(r)
    \/ \E s \in Readers : ServeWaiter(r, s)
    \/ \E f \in Files : Write(r, f)
    \/ LooksOld(r) \/ RemoveDir(r)

Serving(s) == Relay(s) \/ EndStream(s) \/ Decode(s) \/ Closed(s)
ReaderNext(s) ==
    \/ \E r \in Runs : Follow(s, r)
    \/ ServeFiles(s) \/ NoFiles(s) \/ WaitForWriter(s) \/ Subscribe(s) \/ Serving(s) \/ Stop(s)

LogNext ==
    \/ \E r \in Runs : WriterNext(r)
    \/ \E s \in Readers : ReaderNext(s)
    \/ DaemonDies

\* A goroutine of a stream runs on; every run that is open is closed in the end.
LogFairness ==
    /\ \A s \in Readers : WF_logVars(Serving(s))
    /\ \A r \in Runs : WF_logVars(Opened(r) \/ CloseLog(r)) /\ \A s \in Readers : WF_logVars(ServeWaiter(r, s))

---------------------------------------------------------------------------
(* What a reader may rely on.                                              *)

\* Every line that was written is there, no other is, and each file's stand in their order, so that
\* none stands twice.
Whole(lines, written) ==
    /\ \A f \in Files : \A n \in 1..written[f] : \E i \in DOMAIN lines : lines[i] = Line(f, n)
    /\ \A i \in DOMAIN lines : lines[i].n <= written[lines[i].file]
    /\ \A i, j \in DOMAIN lines : i < j /\ lines[i].file = lines[j].file => lines[i].n < lines[j].n
Follows(s) == tail[s].at \in {"following", "ended"} /\ (tail[s].taps \/ tail[s].shut) /\ ~tail[s].lagged
\* What a follower was given and what is on its way to it are the lines of the run: nothing is
\* missed between history and subscription, and nothing comes twice, unless the follower fell
\* behind (runlog.go, Store.Tail; the race it names).
NoGap == \A s \in Readers :
    Follows(s) /\ tail[s].run \in dir => Whole(tail[s].out \o tail[s].buf, file[tail[s].run])
\* A run that writes keeps its directory, whatever the retention window (Prune).
LiveKept == \A r \in Runs : writer[r] \in {"serving", "open"} => r \in dir

\* No reader of a live run misses a line, and no live run loses its files.
LogWhole == NoGap /\ LiveKept

\* A follower that waits for a run, or hangs on an open one, is let go when the run ends
\* (runlog.go, Tail: "The channel closes when the run ends").
FollowersReleased == \A s \in Readers :
    (\E r \in Runs : writer[r] \in {"serving", "open"} /\ (s \in Subscribers(r) \union toServe[r]))
        ~> tail[s].at = "over"
===============================================================================
