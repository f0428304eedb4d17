------------------------------ MODULE RunStream ------------------------------
(***************************************************************************)
(* One agent process from launch to its recorded run row: the adapter's     *)
(* reader (handle.run), the bounded event channel, the drain goroutine and  *)
(* its live counts, and executeAgent, which waits for them and writes the   *)
(* row last.  Time is abstract: a throttle may or may not have elapsed, and *)
(* the five seconds executeAgent allows the drain may end at any moment.    *)
(***************************************************************************)
EXTENDS Providers

CONSTANTS
    Transcripts,  \* what a process may print: sequences of Lines
    Capacity      \* of the event channel, 64 in the code

\* A line is the usage of an assistant message, a tool call, or anything else.
Messages == {"m1", "m2"}
\* "huge" is longer than the scanner's buffer.
Lines == Messages \cup {"tool", "junk", "huge"}
ASSUME RunStreamAssumption == Capacity \in Nat \ {0} /\ Transcripts \subseteq Seq(Lines)

Events == Messages \cup {"tool", "tool result", "message"}

VARIABLES
    adapter,      \* whose CLI runs
    output,       \* lines the process has yet to print
    seen,         \* lineParser.usageSeen: messages whose usage was reported
    channel,      \* events parsed and not yet drained
    handle,       \* "reading"; "deaf" once the scanner gave up; "closed" with the outcome known
    outcome,      \* what the adapter made of it, when closed
    drain,        \* the drain goroutine: "waiting", "writing" a row under mu, "done"
    counts,       \* liveCounts
    exec,         \* executeAgent
    row           \* the runs row

stream == <<output, seen, channel, handle, outcome>>
recording == <<drain, counts, exec, row>>
vars == <<adapter, output, seen, channel, handle, outcome, drain, counts, exec, row>>

NoOutcome == [class |-> "success", turns |-> 0, denied |-> FALSE, err |-> FALSE]
NewRow == [ended |-> FALSE, turns |-> 0, class |-> "success", verdict |-> "none"]
NewCounts == [turns |-> 0, pending |-> FALSE, stopped |-> FALSE]
Verdicts == {"none", "pass", "concerns", "fail", "unavailable"}

Launched(transcript) ==
    /\ output' = transcript /\ seen' = {} /\ channel' = <<>> /\ handle' = "reading"
    /\ outcome' = NoOutcome
    /\ drain' = "waiting" /\ counts' = NewCounts /\ exec' = "waiting" /\ row' = NewRow

StreamInit ==
    /\ adapter \in Adapters /\ output \in Transcripts /\ seen = {} /\ channel = <<>>
    /\ handle = "reading" /\ outcome = NoOutcome
    /\ drain = "waiting" /\ counts = NewCounts /\ exec = "waiting" /\ row = NewRow

---------------------------------------------------------------------------
(* The adapter.                                                            *)

\* Mutant: usage is counted on every line that repeats it.
ClaudeUsage_repeated(message) == <<message>>

\* The Claude CLI repeats a message's usage on each of its lines: it is reported once.
ClaudeUsage(message) == IF message \in seen THEN <<>> ELSE <<message>>
ClaudeParsed(line) ==
    IF line \in Messages THEN ClaudeUsage(line) ELSE IF line = "junk" THEN <<>> ELSE <<line>>

\* Codex reports usage at the end of a turn, and a tool call as it starts and completes.
CodexItem(line) == IF line = "tool" THEN <<"tool", "tool result">> ELSE <<>>
CodexParsed(line) == IF line \in Messages THEN <<line>> ELSE CodexItem(line)

\* Copilot shows a line that is not its protocol as text.
CopilotParsed(line) == IF line = "junk" THEN <<"message">> ELSE <<line>>

Parsed(line) ==
    CASE adapter = "claude" -> ClaudeParsed(line)
      [] adapter = "codex" -> CodexParsed(line)
      [] adapter = "copilot" -> CopilotParsed(line)

\* A full channel drops the event: a slow consumer must not stall the agent.
Offer(events) ==
    channel \o SubSeq(events, 1, Min({Len(events), Capacity - Len(channel)}))

ReadLine ==
    /\ handle = "reading" /\ output # <<>> /\ Head(output) # "huge"
    /\ output' = Tail(output)
    /\ channel' = Offer(Parsed(Head(output)))
    /\ seen' = seen \cup ({Head(output)} \cap Messages)
    /\ UNCHANGED <<adapter, handle, outcome, recording>>

\* The turns an outcome reports are the CLI's own figure, not the live count: codex
\* keeps the usage of its last turn, and a stream cut short has none from Claude.
Turns(e) ==
    CASE adapter = "claude" -> IF e.timedOut \/ e.result = "none" THEN 0 ELSE Cardinality(seen)
      [] adapter = "codex" -> IF e.timedOut \/ seen = {} THEN 0 ELSE 1
      [] adapter = "copilot" -> Cardinality(seen)

\* The scanner gives up on a line beyond its buffer; nobody reads what follows.
ReadFails ==
    /\ handle = "reading" /\ output # <<>> /\ Head(output) = "huge"
    /\ handle' = "deaf"
    /\ UNCHANGED <<adapter, output, seen, channel, outcome, recording>>

\* The process ends, on its own, on its timeout or killed, whatever it still had to
\* say; its status is judged and the channel closed.
Exit ==
    /\ handle # "closed"
    /\ \E e \in Endings :
        /\ output # <<>> => e.result = "none"
        /\ output # <<>> /\ handle = "reading" => e.code # 0
        /\ outcome' = [class |-> Outcome(adapter, e).class, turns |-> Turns(e),
                       denied |-> e.denied, err |-> FALSE]
    /\ adapter = "copilot" => handle # "deaf"
    /\ handle' = "closed" /\ output' = <<>>
    /\ UNCHANGED <<adapter, seen, channel, recording>>

\* Waiting fails: no outcome at all, which reads as success.  Copilot alone kills a
\* process it can no longer read, and calls that the task's failure.
ExitWithError ==
    /\ handle # "closed"
    /\ outcome' = [NoOutcome EXCEPT !.err = TRUE,
                      !.class = IF handle = "deaf" /\ adapter = "copilot" THEN "task" ELSE "success"]
    /\ handle' = "closed" /\ output' = <<>>
    /\ UNCHANGED <<adapter, seen, channel, recording>>

---------------------------------------------------------------------------
(* The drain goroutine.  `mu` is held across a write of the row, so it is   *)
(* taken by "writing" and must be free for observe, tick and stop.          *)

MuFree == drain # "writing"

\* flushLocked: nothing pending or already stopped writes nothing; otherwise the
\* row is written when the caller says it is due or liveEvery has passed.
Flush(after, due) ==
    /\ counts' = after
    /\ drain' = IF after.pending /\ ~after.stopped /\ due THEN "writing" ELSE "waiting"

Observe ==
    /\ drain = "waiting" /\ channel # <<>>
    /\ channel' = Tail(channel)
    /\ \E due \in BOOLEAN :
        Flush(IF Head(channel) \in Messages
              THEN [counts EXCEPT !.turns = @ + 1, !.pending = TRUE] ELSE counts, due)
    /\ UNCHANGED <<adapter, output, seen, handle, outcome, exec, row>>

LiveTick ==
    /\ drain = "waiting" /\ counts.pending
    /\ Flush(counts, TRUE)
    /\ UNCHANGED <<adapter, stream, exec, row>>

\* UpdateRun writes every column from the row as it was created, with the counts so far.
WriteLive ==
    /\ drain = "writing"
    /\ row' = [NewRow EXCEPT !.turns = counts.turns]
    /\ counts' = [counts EXCEPT !.pending = FALSE]
    /\ drain' = "waiting"
    /\ UNCHANGED <<adapter, stream, exec>>

DrainEnds ==
    /\ drain = "waiting" /\ channel = <<>> /\ handle = "closed"
    /\ drain' = "done"
    /\ UNCHANGED <<adapter, stream, counts, exec, row>>

---------------------------------------------------------------------------
(* executeAgent after the launch.                                          *)

Waited ==
    /\ exec = "waiting" /\ handle = "closed"
    /\ exec' = "draining"
    /\ UNCHANGED <<adapter, stream, drain, counts, row>>

\* Mutant: stop sets its flag without taking the lock.
StopCounts_nolock ==
    /\ exec = "draining"
    /\ counts' = [counts EXCEPT !.stopped = TRUE]
    /\ exec' = "stopped"
    /\ UNCHANGED <<adapter, stream, drain, row>>

\* Mutant: the drain is waited for without a limit.
StopCounts_patient ==
    /\ exec = "draining" /\ drain = "done"
    /\ counts' = [counts EXCEPT !.stopped = TRUE]
    /\ exec' = "stopped"
    /\ UNCHANGED <<adapter, stream, drain, row>>

\* The drain is done, or its five seconds are over; stop waits for a write in flight.
StopCounts ==
    /\ exec = "draining" /\ MuFree
    /\ counts' = [counts EXCEPT !.stopped = TRUE]
    /\ exec' = "stopped"
    /\ UNCHANGED <<adapter, stream, drain, row>>

RecordOutcome ==
    /\ exec = "stopped"
    /\ row' = [NewRow EXCEPT !.ended = TRUE, !.turns = outcome.turns, !.class = outcome.class]
    /\ exec' = "recorded"
    /\ UNCHANGED <<adapter, stream, drain, counts>>

StreamNext ==
    \/ ReadLine \/ ReadFails \/ Exit \/ ExitWithError \/ Observe \/ LiveTick \/ WriteLive \/ DrainEnds
    \/ Waited \/ StopCounts \/ RecordOutcome
==============================================================================
