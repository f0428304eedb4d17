---------------------------- MODULE Attempt_proofs ----------------------------
(***************************************************************************)
(* Proofs about the attempts of a run, for any transcripts, any validation of   *)
(* the project and any budgets.                                              *)
(***************************************************************************)
EXTENDS Attempt, FiniteSetTheorems, SequenceTheorems, TLAPS

(***************************************************************************)
(* The row of the run.                                                      *)
(***************************************************************************)

\* Before executeAgent records the outcome it has stopped the live counts, and a write of them
\* that was under way has ended: nothing starts another.
CountsType == counts \in [turns : Nat, pending : BOOLEAN, stopped : BOOLEAN]
IsRow(r) == r \in [ended : {r.ended}, turns : {r.turns}, class : {r.class}, verdict : {r.verdict}]
RowInv ==
  /\ CountsType
  /\ IsRow(row)
  /\ exec \in {"stopped", "recorded"} => counts.stopped = TRUE /\ drain # "writing"

\* A new row is one.
LEMMA NewRows == ASSUME NEW n, NEW c
                 PROVE  /\ IsRow(NewRow) /\ IsRow([NewRow EXCEPT !.turns = n])
                        /\ IsRow([NewRow EXCEPT !.ended = TRUE, !.turns = n, !.class = c])
  BY DEF NewRow, IsRow

\* Setting the verdict of a row sets nothing else.
LEMMA VerdictOnly == ASSUME NEW r, IsRow(r), NEW v
                     PROVE  /\ IsRow([r EXCEPT !.verdict = v])
                            /\ [r EXCEPT !.verdict = v].verdict = v
                            /\ [r EXCEPT !.verdict = v].class = r.class
                            /\ r = [r EXCEPT !.verdict = r.verdict]
  BY DEF IsRow

\* New counts, those of an event more, and counts that were stopped.
LEMMA CountsTyped == /\ NewCounts \in [turns : Nat, pending : BOOLEAN, stopped : BOOLEAN]
                     /\ CountsType =>
                        LET more == [counts EXCEPT !.turns = @ + 1, !.pending = TRUE]
                            flushed == [counts EXCEPT !.pending = FALSE]
                            stopped == [counts EXCEPT !.stopped = TRUE]
                        IN  /\ {more, flushed, stopped} \subseteq [turns : Nat, pending : BOOLEAN, stopped : BOOLEAN]
                            /\ more.turns = counts.turns + 1 /\ more.stopped = counts.stopped
                            /\ flushed.turns = counts.turns /\ flushed.stopped = counts.stopped
                            /\ stopped.turns = counts.turns /\ stopped.stopped = TRUE
  <1> DEFINE T == [turns : Nat, pending : BOOLEAN, stopped : BOOLEAN]
             more == [counts EXCEPT !.turns = @ + 1, !.pending = TRUE]
             flushed == [counts EXCEPT !.pending = FALSE]
             stopped == [counts EXCEPT !.stopped = TRUE]
  <1>1. NewCounts \in T
    BY DEF NewCounts
  <1>2. ASSUME CountsType
        PROVE  more \in T /\ more.turns = counts.turns + 1 /\ more.stopped = counts.stopped
    <2> DEFINE n == counts.turns + 1
               one == [counts EXCEPT !.turns = n]
    <2>1. n \in Nat /\ counts \in T
      BY <1>2 DEF CountsType
    <2> HIDE DEF n
    <2>2. one \in T /\ one.turns = n /\ one.stopped = counts.stopped
      BY <2>1
    <2>3. more = [one EXCEPT !.pending = TRUE]
      BY <2>1 DEF n
    <2> HIDE DEF one, more
    <2>4. [one EXCEPT !.pending = TRUE] \in T /\ [one EXCEPT !.pending = TRUE].turns = one.turns
          /\ [one EXCEPT !.pending = TRUE].stopped = one.stopped
      BY <2>2
    <2> QED BY <2>2, <2>3, <2>4 DEF n
  <1>3. ASSUME CountsType
        PROVE  flushed \in T /\ flushed.turns = counts.turns /\ flushed.stopped = counts.stopped
    BY <1>3 DEF CountsType
  <1>4. ASSUME CountsType
        PROVE  stopped \in T /\ stopped.turns = counts.turns /\ stopped.stopped = TRUE
    BY <1>4 DEF CountsType
  <1> HIDE DEF more, flushed, stopped
  <1> QED BY <1>1, <1>2, <1>3, <1>4 DEF more, flushed, stopped

\* An event that is observed is counted, and written only while the counts are not stopped.
LEMMA Observed == ASSUME RowInv, Observe
                  PROVE  /\ CountsType' /\ counts'.stopped = counts.stopped
                         /\ counts'.turns = counts.turns + (IF Head(channel) \in Messages THEN 1 ELSE 0)
                         /\ counts.stopped = TRUE => drain' # "writing"
                         /\ UNCHANGED <<exec, row>>
  <1> DEFINE more == [counts EXCEPT !.turns = @ + 1, !.pending = TRUE]
  <1>1. CountsType /\ counts.turns \in Nat
    BY DEF RowInv, CountsType
  <1>2. /\ more \in [turns : Nat, pending : BOOLEAN, stopped : BOOLEAN]
        /\ more.turns = counts.turns + 1 /\ more.stopped = counts.stopped
    BY <1>1, CountsTyped
  <1>3. /\ counts' = (IF Head(channel) \in Messages THEN more ELSE counts)
        /\ (drain' = "writing" => ~counts'.stopped) /\ UNCHANGED <<exec, row>>
    BY DEF Observe, Flush
  <1> HIDE DEF more
  <1> QED BY <1>1, <1>2, <1>3 DEF CountsType

\* A step of the agent keeps it, and leaves a row that is recorded as it is.
LEMMA StreamKeepsRow == ASSUME RowInv, StreamNext
                        PROVE  RowInv' /\ (exec = "recorded" => row' = row /\ exec' = exec)
  <1>1. CASE ReadLine \/ ReadFails \/ Exit \/ ExitWithError
    <2>1. UNCHANGED recording
      BY <1>1 DEF ReadLine, ReadFails, Exit, ExitWithError
    <2> QED BY <2>1 DEF recording, RowInv, CountsType
  <1>2. CASE Observe
    BY <1>2, Observed DEF RowInv
  <1>3. CASE LiveTick
    BY <1>3 DEF LiveTick, Flush, RowInv, CountsType
  <1>4. CASE WriteLive
    <2>1. IsRow(row') /\ drain' = "waiting" /\ exec' = exec /\ drain = "writing"
      BY <1>4, NewRows DEF WriteLive
    <2>2. CountsType' /\ counts'.stopped = counts.stopped
      BY <1>4, CountsTyped DEF WriteLive, RowInv, CountsType
    <2> QED BY <2>1, <2>2 DEF RowInv
  <1>5. CASE DrainEnds
    BY <1>5 DEF DrainEnds, stream, RowInv, CountsType
  <1>6. CASE Waited
    BY <1>6 DEF Waited, RowInv, CountsType
  <1>7. CASE StopCounts
    <2>1. CountsType' /\ counts'.stopped = TRUE
      BY <1>7, CountsTyped DEF StopCounts, RowInv, CountsType
    <2> QED BY <1>7, <2>1 DEF StopCounts, MuFree, RowInv
  <1>8. CASE RecordOutcome
    <2>1. IsRow(row') /\ UNCHANGED <<drain, counts>> /\ exec = "stopped"
      BY <1>8, NewRows DEF RecordOutcome
    <2> QED BY <2>1 DEF RowInv, CountsType
  <1> QED BY <1>1, <1>2, <1>3, <1>4, <1>5, <1>6, <1>7, <1>8 DEF StreamNext

\* The actions of the run that neither launch nor touch the row.
Judging == \/ ReadAgreed \/ AgentError \/ ProviderFailed \/ NeverStarted \/ CommitAll \/ RunStep \/ ValidationError
           \/ Leave \/ ReviewerAnswers \/ ReviewerFails \/ ReviewSkipped \/ Rereview

\* They leave what the launch and the stream are about as it is.
LEMMA JudgingKeepsVars == Judging => UNCHANGED vars
  BY DEF Judging, ReadAgreed, AgentError, ProviderFailed, NeverStarted, CommitAll, RunStep, ValidationError,
         Leave, ReviewerAnswers, ReviewerFails, ReviewSkipped, Rereview

\* Every step of a run keeps it; a recorded row changes in its verdict alone.
LEMMA RowKept == ASSUME RowInv, [AttemptNext]_allVars
                 PROVE  /\ RowInv'
                        /\ exec = "recorded" /\ exec' = "recorded"
                             => row' = [row EXCEPT !.verdict = row'.verdict]
  <1>1. row = [row EXCEPT !.verdict = row.verdict]
    BY VerdictOnly DEF RowInv
  <1>2. CASE UNCHANGED vars
    BY <1>1, <1>2 DEF vars, RowInv, CountsType
  <1>3. CASE Agent
    BY <1>1, <1>3, StreamKeepsRow DEF Agent
  <1>4. CASE LateDrain
    <2>1. StreamNext
      BY <1>4 DEF LateDrain, StreamNext
    <2> QED BY <1>1, <2>1, StreamKeepsRow
  <1>5. CASE Retry
    <2>1. counts' = NewCounts /\ row' = NewRow /\ exec' = "waiting" /\ drain' = "waiting"
      BY <1>5 DEF Retry, Launched
    <2> QED BY <2>1, NewRows, CountsTyped DEF RowInv, CountsType
  <1>6. CASE RecordVerdict
    <2>1. row' = [row EXCEPT !.verdict = answer] \/ row' = row
      BY <1>6 DEF RecordVerdict
    <2>2. UNCHANGED <<counts, drain, exec>>
      BY <1>6 DEF RecordVerdict
    <2>3. IsRow(row') /\ row' = [row EXCEPT !.verdict = row'.verdict]
      BY <1>1, <2>1, VerdictOnly DEF RowInv
    <2> QED BY <2>2, <2>3 DEF RowInv, CountsType
  <1> QED BY <1>2, <1>3, <1>4, <1>5, <1>6, JudgingKeepsVars DEF AttemptNext, allVars, Judging

\* It holds from the launch.
LEMMA RowInductive == AttemptSpec => []RowInv
  <1>1. AttemptInit => RowInv
    BY NewRows, CountsTyped DEF AttemptInit, StreamInit, RowInv, CountsType
  <1> QED BY <1>1, RowKept, PTL DEF AttemptSpec

\* However slow the goroutine that drains a run's events, once executeAgent has recorded how the run
\* ended no live count replaces what it wrote (livecounts.go, stop).
THEOREM OutcomeStands == AttemptSpec => FinalStands
  <1>1. RowInv /\ [AttemptNext]_allVars =>
          [exec = "recorded" /\ exec' = "recorded" => row' = [row EXCEPT !.verdict = row'.verdict]]_allVars
    BY RowKept
  <1> QED BY <1>1, RowInductive, PTL DEF AttemptSpec, FinalStands

(***************************************************************************)
(* The live counts.                                                         *)
(***************************************************************************)

\* The messages whose usage waits in the channel, and the channel as the Claude reader fills it: a
\* message is reported once, so none of them is there twice, and all were seen.
Waiting == {m \in Messages : \E i \in 1..Len(channel) : channel[i] = m}
ReportedOnce ==
  /\ seen \subseteq Messages
  /\ output \in Seq(Lines)
  /\ channel \in Seq(Events) /\ Len(channel) <= Capacity
  /\ \A i, j \in 1..Len(channel) : channel[i] \in Messages /\ channel[i] = channel[j] => i = j
  /\ Waiting \subseteq seen
  /\ counts.turns + Cardinality(Waiting) <= Cardinality(seen)
HonestInv == adapter = "claude" => ReportedOnce

\* Sets of messages are finite.
LEMMA MessagesFinite == \A S \in SUBSET Messages : IsFiniteSet(S) /\ Cardinality(S) \in Nat
  <1>1. IsFiniteSet(Messages)
    <2>1. Messages = {"m1"} \union {"m2"}
      BY DEF Messages
    <2> QED BY <2>1, FS_Singleton, FS_AddElement
  <1> QED BY <1>1, FS_Subset, FS_CardinalityType

\* A full channel drops what is offered, another takes it at its end.
LEMMA Offered == ASSUME NEW e \in Events, channel \in Seq(Events), Len(channel) <= Capacity
                 PROVE  /\ Offer(<<>>) = channel
                        /\ Offer(<<e>>) = channel \/ (Len(channel) < Capacity /\ Offer(<<e>>) = Append(channel, e))
  <1> DEFINE k == Capacity - Len(channel)
  <1>1. k \in Nat
    BY RunStreamAssumption
  <1> HIDE DEF k
  <1>2. Min({0, k}) = 0
    BY <1>1 DEF Min
  <1>3. Min({1, k}) = (IF k = 0 THEN 0 ELSE 1)
    BY <1>1 DEF Min
  <1>4. SubSeq(<<>>, 1, 0) = <<>> /\ SubSeq(<<e>>, 1, 0) = <<>> /\ SubSeq(<<e>>, 1, 1) = <<e>>
    <2>1. <<e>> \in Seq({e}) /\ Len(<<e>>) = 1
      OBVIOUS
    <2> DEFINE s1 == <<e>>
    <2>2. s1 \in Seq({e}) /\ Len(s1) = 1
      BY <2>1
    <2> HIDE DEF s1
    <2>3. SubSeq(s1, 1, Len(s1)) = s1
      BY <2>2, SubSeqFull
    <2>4. SubSeq(s1, 1, 1) = s1
      BY <2>2, <2>3
    <2>5. SubSeq(<<>>, 1, 0) = <<>> /\ SubSeq(s1, 1, 0) = <<>>
      BY SubSeqEmpty
    <2> QED BY <2>4, <2>5 DEF s1
  <1>5. channel \o <<>> = channel /\ channel \o <<e>> = Append(channel, e)
    OBVIOUS
  <1>6. Len(<<>>) = 0 /\ Len(<<e>>) = 1
    OBVIOUS
  <1>7. k # 0 => Len(channel) < Capacity
    BY RunStreamAssumption DEF k
  <1>8. Offer(<<>>) = channel \o SubSeq(<<>>, 1, Min({0, k}))
    BY <1>6 DEF Offer, k
  <1>9. Offer(<<e>>) = channel \o SubSeq(<<e>>, 1, Min({1, k}))
    BY <1>6 DEF Offer, k
  <1> QED BY <1>2, <1>3, <1>4, <1>5, <1>7, <1>8, <1>9

\* A line that is read leaves the channel as it is, or adds an event: a message nobody saw, or none.
LEMMA LineReported == ASSUME ReportedOnce, CountsType, adapter = "claude", ReadLine
                      PROVE  ReportedOnce'
  <1> DEFINE line == Head(output)
  <1>1. /\ line \in Lines \ {"huge"} /\ output' \in Seq(Lines)
        /\ channel' = Offer(Parsed(line)) /\ seen' = seen \union ({line} \intersect Messages)
        /\ UNCHANGED counts
    BY DEF ReadLine, ReportedOnce, recording
  <1>2. seen \subseteq Messages /\ seen' \subseteq Messages /\ seen \subseteq seen'
        /\ Waiting \subseteq seen /\ Waiting \subseteq Messages
        /\ channel \in Seq(Events) /\ Len(channel) <= Capacity
    BY <1>1 DEF ReportedOnce, Waiting
  <1>3. Parsed(line) = <<>> \/ (Parsed(line) = <<line>> /\ line \in Events /\ line \notin seen)
    BY <1>1, <1>2 DEF Parsed, ClaudeParsed, ClaudeUsage, Lines, Events, Messages
  <1> HIDE DEF line
  <1>4. CASE channel' = channel
    <2>1. Waiting' = Waiting /\ Cardinality(seen) <= Cardinality(seen')
      BY <1>2, <1>4, MessagesFinite, FS_Subset DEF Waiting
    <2>2. Cardinality(Waiting) \in Nat /\ Cardinality(seen) \in Nat /\ Cardinality(seen') \in Nat
      BY <1>2, MessagesFinite
    <2>3. counts'.turns + Cardinality(Waiting') <= Cardinality(seen')
      BY <1>1, <2>1, <2>2 DEF ReportedOnce, CountsType
    <2>4. Waiting' \subseteq seen'
      BY <1>2, <2>1
    <2> QED BY <1>1, <1>2, <1>4, <2>3, <2>4 DEF ReportedOnce
  <1>5. CASE line \in Events /\ line \notin seen /\ Len(channel) < Capacity /\ channel' = Append(channel, line)
    <2>1. /\ channel' \in Seq(Events) /\ Len(channel') = Len(channel) + 1 /\ channel'[Len(channel) + 1] = line
          /\ \A i \in 1..Len(channel) : channel'[i] = channel[i]
      BY <1>2, <1>5, AppendProperties
    <2>2. Len(channel') <= Capacity /\ Len(channel) \in Nat
      BY <1>2, <1>5, <2>1, RunStreamAssumption
    <2>3. \A i \in 1..Len(channel) : channel[i] \in Messages => channel[i] \in seen
      BY <1>2 DEF Waiting
    <2>4. \A i, j \in 1..Len(channel') : channel'[i] \in Messages /\ channel'[i] = channel'[j] => i = j
      BY <1>2, <1>5, <2>1, <2>2, <2>3 DEF ReportedOnce
    <2>5. Waiting' = Waiting \union ({line} \intersect Messages)
      BY <2>1, <2>2 DEF Waiting
    <2>6. counts'.turns + Cardinality(Waiting') <= Cardinality(seen')
      <3>1. IsFiniteSet(Waiting) /\ IsFiniteSet(seen) /\ Cardinality(Waiting) \in Nat /\ Cardinality(seen) \in Nat
        BY <1>2, MessagesFinite
      <3>2. CASE line \in Messages
        <4>1. Waiting' = Waiting \union {line} /\ seen' = seen \union {line} /\ line \notin Waiting
          BY <1>1, <1>2, <1>5, <2>5, <3>2
        <4>2. Cardinality(Waiting') = Cardinality(Waiting) + 1 /\ Cardinality(seen') = Cardinality(seen) + 1
          BY <1>5, <3>1, <4>1, FS_AddElement
        <4> QED BY <1>1, <3>1, <4>2 DEF ReportedOnce, CountsType
      <3>3. CASE line \notin Messages
        BY <1>1, <2>5, <3>3 DEF ReportedOnce
      <3> QED BY <3>2, <3>3
    <2> QED BY <1>1, <1>2, <1>5, <2>1, <2>2, <2>4, <2>5, <2>6 DEF ReportedOnce
  <1>6. channel' = channel \/ (line \in Events /\ line \notin seen /\ Len(channel) < Capacity /\ channel' = Append(channel, line))
    <2>1. "tool" \in Events
      BY DEF Events
    <2> QED BY <1>1, <1>2, <1>3, <2>1, Offered
  <1> QED BY <1>4, <1>5, <1>6

\* An event that is drained leaves the channel as its turn is counted.
LEMMA TurnCounted == ASSUME RowInv, ReportedOnce, Observe PROVE ReportedOnce'
  <1> DEFINE e == Head(channel)
  <1>1. /\ counts'.turns = counts.turns + (IF e \in Messages THEN 1 ELSE 0) /\ counts.turns \in Nat
        /\ channel # <<>> /\ channel' = Tail(channel) /\ UNCHANGED <<seen, output>>
    BY Observed DEF Observe, RowInv, CountsType
  <1>2. /\ channel' \in Seq(Events) /\ Len(channel') = Len(channel) - 1 /\ Len(channel) \in Nat
        /\ \A i \in 1..Len(channel') : channel'[i] = channel[i + 1]
        /\ e = channel[1] /\ 1 <= Len(channel)
    BY <1>1, HeadTailProperties DEF ReportedOnce
  <1> HIDE DEF e
  <1>3. \A i, j \in 1..Len(channel') : channel'[i] \in Messages /\ channel'[i] = channel'[j] => i = j
    <2> SUFFICES ASSUME NEW i \in 1..Len(channel'), NEW j \in 1..Len(channel'),
                        channel'[i] \in Messages, channel'[i] = channel'[j]
                 PROVE  i = j
      OBVIOUS
    <2>1. i + 1 \in 1..Len(channel) /\ j + 1 \in 1..Len(channel)
      BY <1>2
    <2>2. channel[i + 1] \in Messages /\ channel[i + 1] = channel[j + 1]
      BY <1>2
    <2>3. i + 1 = j + 1
      BY <2>1, <2>2 DEF ReportedOnce
    <2> QED BY <2>3
  <1>4. Waiting' = Waiting \ {e}
    <2>1. ASSUME NEW m \in Messages, NEW i \in 1..Len(channel'), channel'[i] = m
          PROVE  m \in Waiting /\ m # e
      <3>1. i + 1 \in 1..Len(channel) /\ 1 \in 1..Len(channel) /\ channel[i + 1] = m /\ i + 1 # 1
        BY <1>2, <2>1
      <3> QED BY <1>2, <2>1, <3>1 DEF Waiting, ReportedOnce
    <2>2. ASSUME NEW m \in Messages, NEW i \in 1..Len(channel), channel[i] = m, m # e
          PROVE  \E j \in 1..Len(channel') : channel'[j] = m
      <3>1. i - 1 \in 1..Len(channel') /\ channel'[i - 1] = channel[(i - 1) + 1]
        BY <1>2, <2>2
      <3> QED BY <2>2, <3>1
    <2> QED BY <2>1, <2>2 DEF Waiting
  <1>5. Waiting \subseteq Messages /\ seen \subseteq Messages
    BY DEF Waiting, ReportedOnce
  <1>6. IsFiniteSet(Waiting) /\ Cardinality(Waiting) \in Nat /\ Cardinality(seen) \in Nat
    BY <1>5, MessagesFinite
  <1>7. Cardinality(Waiting') = IF e \in Messages THEN Cardinality(Waiting) - 1 ELSE Cardinality(Waiting)
    <2>1. e \in Messages <=> e \in Waiting
      <3>1. 1 \in 1..Len(channel)
        BY <1>2
      <3> QED BY <1>2, <3>1 DEF Waiting
    <2> QED BY <1>4, <1>6, <2>1, FS_RemoveElement
  <1>8. counts'.turns + Cardinality(Waiting') <= Cardinality(seen')
    BY <1>1, <1>6, <1>7 DEF ReportedOnce
  <1>9. Len(channel') <= Capacity
    BY <1>2, RunStreamAssumption DEF ReportedOnce
  <1>10. Waiting' \subseteq seen'
    BY <1>1, <1>4 DEF ReportedOnce
  <1> QED BY <1>1, <1>2, <1>3, <1>8, <1>9, <1>10 DEF ReportedOnce

\* What neither reads a line nor drains an event leaves both as they are, but for the end of the
\* process, after which nothing is read.
LEMMA QuietSteps == ASSUME RowInv, ReportedOnce, UNCHANGED <<seen, channel>>, output' \in Seq(Lines),
                           counts'.turns = counts.turns
                    PROVE  ReportedOnce'
  BY DEF ReportedOnce, Waiting

\* Every step of a run keeps it.
LEMMA HonestKept == ASSUME RowInv, HonestInv, [AttemptNext]_allVars PROVE HonestInv'
  <1> SUFFICES ASSUME adapter' = "claude" PROVE ReportedOnce'
    BY DEF HonestInv
  <1>1. adapter = "claude" /\ ReportedOnce
    BY DEF AttemptNext, Agent, LateDrain, StreamNext, HonestInv, allVars, vars, Retry, RecordVerdict, Judging,
           ReadLine, ReadFails, Exit, ExitWithError, Observe, LiveTick, WriteLive, DrainEnds, Waited,
           StopCounts, RecordOutcome, ReadAgreed, AgentError, ProviderFailed, NeverStarted, CommitAll, RunStep,
           ValidationError, Leave, ReviewerAnswers, ReviewerFails, ReviewSkipped, Rereview
  <1>2. CASE UNCHANGED vars
    BY <1>1, <1>2, QuietSteps DEF vars, ReportedOnce
  <1>3. CASE ReadLine
    BY <1>1, <1>3, LineReported DEF RowInv
  <1>4. CASE Observe
    BY <1>1, <1>4, TurnCounted
  <1>5. CASE Exit \/ ExitWithError
    <2>1. <<>> \in Seq(Lines)
      OBVIOUS
    <2>2. UNCHANGED <<seen, channel, counts>> /\ output' = <<>>
      BY <1>5 DEF Exit, ExitWithError, recording
    <2> QED BY <1>1, <2>1, <2>2, QuietSteps
  <1>6. CASE ReadFails \/ LiveTick \/ DrainEnds \/ Waited \/ RecordOutcome
    <2>1. UNCHANGED <<seen, channel, counts, output>>
      BY <1>6 DEF ReadFails, LiveTick, Flush, DrainEnds, Waited, RecordOutcome, stream, recording
    <2> QED BY <1>1, <2>1, QuietSteps DEF ReportedOnce
  <1>7. CASE WriteLive \/ StopCounts
    <2>1. UNCHANGED <<seen, channel, output>> /\ counts'.turns = counts.turns
      BY <1>7, CountsTyped DEF WriteLive, StopCounts, stream, RowInv, CountsType
    <2> QED BY <1>1, <2>1, QuietSteps DEF ReportedOnce
  <1>8. CASE Retry
    <2>1. seen' = {} /\ channel' = <<>> /\ counts' = NewCounts /\ output' \in Seq(Lines)
      BY <1>8, RunStreamAssumption DEF Retry, Launched
    <2>2. Waiting' = {} /\ Cardinality({}) = 0 /\ Len(<<>>) = 0 /\ <<>> \in Seq(Events)
      BY <2>1, FS_EmptySet DEF Waiting
    <2>3. counts'.turns + Cardinality(Waiting') <= Cardinality(seen')
      BY <2>1, <2>2 DEF NewCounts
    <2>4. Len(channel') = 0 /\ Len(channel') <= Capacity /\ channel' \in Seq(Events)
      BY <2>1, <2>2, RunStreamAssumption
    <2>5. \A i, j \in 1..Len(channel') : channel'[i] \in Messages /\ channel'[i] = channel'[j] => i = j
      BY <2>4
    <2> QED BY <2>1, <2>2, <2>3, <2>4, <2>5 DEF ReportedOnce
  <1>9. CASE RecordVerdict
    <2>1. UNCHANGED <<seen, channel, counts, output>>
      BY <1>9 DEF RecordVerdict, stream
    <2> QED BY <1>1, <2>1, QuietSteps DEF ReportedOnce
  <1> QED BY <1>2, <1>3, <1>4, <1>5, <1>6, <1>7, <1>8, <1>9, JudgingKeepsVars
       DEF AttemptNext, Agent, LateDrain, StreamNext, Judging, allVars

\* The Claude CLI repeats the usage of a message on each of its lines, and a full channel drops
\* events: either way the row of a run in flight counts no turn twice.
THEOREM TurnsCountedOnce == AttemptSpec => []CountsHonest
  <1>1. AttemptInit => HonestInv
    <2> SUFFICES ASSUME AttemptInit PROVE ReportedOnce
      BY DEF HonestInv
    <2>1. seen = {} /\ channel = <<>> /\ counts = NewCounts /\ output \in Seq(Lines)
      BY RunStreamAssumption DEF AttemptInit, StreamInit
    <2>2. Waiting = {} /\ Cardinality({}) = 0 /\ Len(<<>>) = 0 /\ <<>> \in Seq(Events)
      BY <2>1, FS_EmptySet DEF Waiting
    <2> QED BY <2>1, <2>2, RunStreamAssumption DEF ReportedOnce, NewCounts
  <1>2. RowInv /\ HonestInv => CountsHonest
    <2> SUFFICES ASSUME RowInv, ReportedOnce PROVE counts.turns <= Cardinality(seen)
      BY DEF HonestInv, CountsHonest
    <2>1. Waiting \subseteq Messages /\ seen \subseteq Messages /\ counts.turns \in Nat
      BY DEF Waiting, ReportedOnce, RowInv, CountsType
    <2>2. Cardinality(Waiting) \in Nat /\ Cardinality(seen) \in Nat
      BY <2>1, MessagesFinite
    <2> QED BY <2>1, <2>2 DEF ReportedOnce
  <1> QED BY <1>1, <1>2, HonestKept, RowInductive, PTL DEF AttemptSpec

(***************************************************************************)
(* The judgement.                                                           *)
(***************************************************************************)

\* The fields of a judgement.
LEMMA JudgedFields == ASSUME NEW o, NEW c, NEW r, o = [class |-> c, rule |-> r] PROVE o.class = c /\ o.rule = r
  OBVIOUS

\* Both tables end, behind five rules for shapes, with two for exit codes: a CLI that is not there
\* and a kill.
IsTable(rules, a, b, c, d, e, f, g) ==
  /\ DOMAIN rules = 1..7
  /\ rules[1] = a /\ rules[2] = b /\ rules[3] = c /\ rules[4] = d
  /\ rules[5] = e /\ rules[6] = f /\ rules[7] = g
HasCodes(rules) ==
  /\ DOMAIN rules = 1..7 /\ \A i \in 1..5 : rules[i].code = -1
  /\ rules[6].code = 127 /\ rules[6].class = "down" /\ rules[6].name = "cli not found"
  /\ rules[7].code = 137

\* The rules of a table of seven.
LEMMA SevenRules == ASSUME NEW a, NEW b, NEW c, NEW d, NEW e, NEW f, NEW g
                    PROVE  IsTable(<<a, b, c, d, e, f, g>>, a, b, c, d, e, f, g)
  BY DEF IsTable

\* Where no shape is seen the exit code of a missing CLI is the first rule to match.
LEMMA FirstHit == ASSUME NEW rules, HasCodes(rules)
                  PROVE  Classify(rules, 127, {}) = [class |-> "down", rule |-> "cli not found"]
  <1> DEFINE hits == {i \in DOMAIN rules : Matches(rules[i], 127, {})}
  <1>1. \A i \in 1..7 : i \in 1..5 \/ i = 6 \/ i = 7
    OBVIOUS
  <1>2. DOMAIN rules = 1..7 /\ rules[6].class = "down" /\ rules[6].name = "cli not found"
    BY DEF HasCodes
  <1>3. ASSUME NEW r, r.code = -1 PROVE ~Matches(r, 127, {})
    BY <1>3 DEF Matches
  <1>4. ASSUME NEW r, r.code = 137 PROVE ~Matches(r, 127, {})
    BY <1>4 DEF Matches
  <1>5. ASSUME NEW r, r.code = 127 PROVE Matches(r, 127, {})
    BY <1>5 DEF Matches
  <1>6. \A i \in 1..7 : Matches(rules[i], 127, {}) <=> i = 6
    <2>1. ASSUME NEW i \in 1..5 PROVE ~Matches(rules[i], 127, {})
      <3>1. rules[i].code = -1
        BY DEF HasCodes
      <3> QED BY <1>3, <3>1
    <2>2. Matches(rules[6], 127, {})
      <3>1. rules[6].code = 127
        BY DEF HasCodes
      <3> QED BY <1>5, <3>1
    <2>3. ~Matches(rules[7], 127, {})
      <3>1. rules[7].code = 137
        BY DEF HasCodes
      <3> QED BY <1>4, <3>1
    <2> QED BY <1>1, <2>1, <2>2, <2>3
  <1>7. hits = {6}
    <2>1. \A i : i \in hits <=> i \in 1..7 /\ Matches(rules[i], 127, {})
      BY <1>2
    <2> HIDE DEF hits
    <2>2. \A i : i \in hits <=> i = 6
      BY <1>6, <2>1
    <2> QED BY <2>2
  <1>8. Min({6}) = 6
    BY DEF Min
  <1>9. hits # {} => Classify(rules, 127, {}) = [class |-> rules[Min(hits)].class, rule |-> rules[Min(hits)].name]
    BY DEF Classify
  <1> HIDE DEF hits
  <1>10. Classify(rules, 127, {}) = [class |-> rules[6].class, rule |-> rules[6].name]
    BY <1>7, <1>8, <1>9
  <1> QED BY <1>2, <1>10

\* So it is in the tables of Claude and of Codex, and the rule says so.
LEMMA MissingCLI == /\ Classify(ClaudeRules, 127, {}) = [class |-> "down", rule |-> "cli not found"]
                    /\ Classify(CodexRules, 127, {}) = [class |-> "down", rule |-> "cli not found"]
  <1> DEFINE auth == Shape("auth", "auth")
             model == Shape("model", "task")
             quota == Shape("quota", "quota")
             rate == Shape("rate", "rate")
             downs == Shape("down", "down")
             missing == ExitCode("cli not found", "down", 127)
             killed == ExitCode("killed", "timeout", 137)
  <1>1. /\ auth.code = -1 /\ model.code = -1 /\ quota.code = -1 /\ rate.code = -1 /\ downs.code = -1
        /\ missing.code = 127 /\ missing.class = "down" /\ missing.name = "cli not found" /\ killed.code = 137
    BY DEF Shape, ExitCode
  <1>2. ClaudeRules = <<auth, model, quota, rate, downs, missing, killed>>
    BY Zenon DEF ClaudeRules
  <1>3. CodexRules = <<model, auth, quota, rate, downs, missing, killed>>
    BY Zenon DEF CodexRules
  <1> HIDE DEF auth, model, quota, rate, downs, missing, killed
  <1>4. IsTable(ClaudeRules, auth, model, quota, rate, downs, missing, killed)
    <2>1. IsTable(<<auth, model, quota, rate, downs, missing, killed>>, auth, model, quota, rate, downs, missing, killed)
      BY ONLY SevenRules
    <2> QED BY <1>2, <2>1
  <1>5. IsTable(CodexRules, model, auth, quota, rate, downs, missing, killed)
    <2>1. IsTable(<<model, auth, quota, rate, downs, missing, killed>>, model, auth, quota, rate, downs, missing, killed)
      BY ONLY SevenRules
    <2> QED BY <1>3, <2>1
  <1>6. ASSUME NEW rules, IsTable(rules, auth, model, quota, rate, downs, missing, killed)
                          \/ IsTable(rules, model, auth, quota, rate, downs, missing, killed)
        PROVE  HasCodes(rules)
    <2>1. \A i \in 1..5 : i = 1 \/ i = 2 \/ i = 3 \/ i = 4 \/ i = 5
      OBVIOUS
    <2>2. /\ DOMAIN rules = 1..7 /\ rules[6] = missing /\ rules[7] = killed /\ rules[3] = quota
          /\ rules[4] = rate /\ rules[5] = downs /\ {rules[1], rules[2]} \subseteq {auth, model}
      BY <1>6 DEF IsTable
    <2>3. /\ rules[1].code = -1 /\ rules[2].code = -1 /\ rules[3].code = -1 /\ rules[4].code = -1
          /\ rules[5].code = -1 /\ rules[7].code = 137
      BY <1>1, <2>2
    <2>4. rules[6].code = 127 /\ rules[6].class = "down" /\ rules[6].name = "cli not found"
      BY <1>1, <2>2
    <2>5. \A i \in 1..5 : rules[i].code = -1
      BY <2>1, <2>3
    <2> QED BY <2>2, <2>3, <2>4, <2>5 DEF HasCodes
  <1>7. HasCodes(ClaudeRules) /\ HasCodes(CodexRules)
    BY <1>4, <1>5, <1>6
  <1> QED BY <1>7, FirstHit

\* What each adapter makes of an ending that was no timeout.
Judgement(a, e) ==
  LET judged == Outcome(a, e) IN
  /\ e.code = 0 /\ e.result = "ok" => ~IsQuotaCondition(judged.class)
  /\ a # "codex" /\ (e.denied \/ e.result = "error") => judged.class # "success"
  /\ a # "copilot" /\ e.code = 127 /\ e.own \cup e.said = {} => ~CoolsDown(judged)

\* Claude's is its rule table, corrected by the object its stream ends with.
LEMMA ClaudeJudges == ASSUME NEW e \in Endings, e.timedOut = FALSE PROVE Judgement("claude", e)
  <1> DEFINE matched == Classify(ClaudeRules, e.code, e.said \cup e.own)
             clean == IF e.code = 0 /\ e.result = "ok" /\ IsQuotaCondition(matched.class)
                      THEN [class |-> "success", rule |-> "clean exit"] ELSE matched
             honest == IF clean.class = "success" /\ e.result = "error"
                       THEN [class |-> "task", rule |-> "is_error"] ELSE clean
             judged == IF honest.class = "success" /\ e.denied
                       THEN [class |-> "task", rule |-> "permission denied"] ELSE honest
  <1>1. Outcome("claude", e) = judged
    BY DEF Outcome, ClaudeOutcome
  <1>2. e.code = 0 /\ e.result = "ok" => ~IsQuotaCondition(judged.class)
    BY DEF IsQuotaCondition
  <1>3. e.denied \/ e.result = "error" => judged.class # "success"
    OBVIOUS
  <1>4. ASSUME e.code = 127, e.own \cup e.said = {} PROVE ~CoolsDown(judged)
    <2>1. matched = [class |-> "down", rule |-> "cli not found"]
      <3>1. e.said \cup e.own = {}
        BY <1>4
      <3> QED BY <1>4, <3>1, MissingCLI
    <2> HIDE DEF matched
    <2>2. matched.class = "down" /\ matched.rule = "cli not found"
      BY <2>1, JudgedFields
    <2>3. e.code # 0
      BY <1>4
    <2>4. clean = matched
      BY <2>3
    <2> HIDE DEF clean
    <2>5. honest = clean
      BY <2>2, <2>4
    <2> HIDE DEF honest
    <2>6. judged = honest
      BY <2>2, <2>4, <2>5
    <2> QED BY <2>2, <2>4, <2>5, <2>6 DEF CoolsDown, HostLocalFailure
  <1> HIDE DEF judged
  <1> QED BY <1>1, <1>2, <1>3, <1>4 DEF Judgement

\* Codex's is success unless it reports a failure.
LEMMA CodexJudges == ASSUME NEW e \in Endings, e.timedOut = FALSE PROVE Judgement("codex", e)
  <1>1. Outcome("codex", e) = IF e.result = "error" \/ e.code # 0
                              THEN Classify(CodexRules, e.code, e.said \cup e.own)
                              ELSE [class |-> "success", rule |-> "clean exit"]
    BY DEF Outcome, CodexOutcome
  <1>2. ASSUME e.code = 127, e.own \cup e.said = {} PROVE ~CoolsDown(Outcome("codex", e))
    <2>1. e.said \cup e.own = {}
      BY <1>2
    <2>2. Classify(CodexRules, 127, {}) = [class |-> "down", rule |-> "cli not found"]
      BY MissingCLI
    <2>3. Outcome("codex", e) = Classify(CodexRules, 127, {})
      <3>1. e.code # 0
        BY <1>2
      <3> QED BY <1>1, <1>2, <2>1, <3>1
    <2>4. Outcome("codex", e).class = "down" /\ Outcome("codex", e).rule = "cli not found"
      BY <2>2, <2>3, JudgedFields
    <2> QED BY <2>4 DEF CoolsDown, HostLocalFailure
  <1>3. ASSUME e.code = 0, e.result = "ok" PROVE ~IsQuotaCondition(Outcome("codex", e).class)
    <2>1. Outcome("codex", e) = [class |-> "success", rule |-> "clean exit"]
      BY <1>1, <1>3
    <2>2. Outcome("codex", e).class = "success"
      BY <2>1, JudgedFields
    <2> QED BY <2>2 DEF IsQuotaCondition
  <1> QED BY <1>2, <1>3 DEF Judgement

\* Copilot's is its exit code unless a service error of its own explains it.
LEMMA CopilotJudges == ASSUME NEW e \in Endings, e.timedOut = FALSE PROVE Judgement("copilot", e)
  <1>1. CASE e.denied
    <2>1. Outcome("copilot", e) = [class |-> "task", rule |-> "permission denied"]
      BY <1>1 DEF Outcome, CopilotOutcome
    <2>2. Outcome("copilot", e).class = "task"
      BY <2>1, JudgedFields
    <2> QED BY <2>2 DEF Judgement, IsQuotaCondition
  <1>2. CASE e.denied = FALSE /\ e.result = "ok" /\ e.code = 0
    <2>1. Outcome("copilot", e) = CopilotClassify(0, e.own)
      BY <1>2 DEF Outcome, CopilotOutcome
    <2>2. CopilotClassify(0, e.own).class = "success"
      BY DEF CopilotClassify
    <2> QED BY <1>2, <2>1, <2>2 DEF Judgement, IsQuotaCondition
  <1>3. CASE e.denied = FALSE /\ e.result = "error"
    <2> DEFINE code == IF e.code = 0 THEN 1 ELSE e.code
    <2>1. Outcome("copilot", e) = CopilotClassify(code, e.own) /\ code # 0
      <3>1. code # 0
        OBVIOUS
      <3>2. Outcome("copilot", e) = CopilotOutcome(e)
        BY DEF Outcome
      <3>3. CopilotOutcome(e) = CopilotClassify(code, e.own)
        <4>1. CASE e.code = 0
          BY <1>3, <4>1 DEF CopilotOutcome
        <4>2. CASE e.code # 0
          BY <1>3, <4>2 DEF CopilotOutcome
        <4> QED BY <4>1, <4>2
      <3> QED BY <3>1, <3>2, <3>3
    <2> HIDE DEF code
    <2>2. CopilotClassify(code, e.own).class # "success"
      <3> DEFINE service == e.own \cap {"auth", "quota", "rate", "down"}
      <3>1. CASE service # {}
        <4>1. (CHOOSE c \in service : TRUE) \in service
          BY <3>1
        <4> QED BY <2>1, <3>1, <4>1 DEF CopilotClassify
      <3>2. CASE service = {} /\ code = 127
        BY <3>2 DEF CopilotClassify
      <3>3. CASE service = {} /\ code # 127
        <4>1. CopilotClassify(code, e.own) = Classify(<<>>, code, {})
          BY <2>1, <3>3 DEF CopilotClassify
        <4>2. {i \in DOMAIN <<>> : Matches(<<>>[i], code, {})} = {}
          OBVIOUS
        <4>3. Classify(<<>>, code, {}).class = "task"
          BY <2>1, <4>2 DEF Classify
        <4> QED BY <4>1, <4>3
      <3> QED BY <3>1, <3>2, <3>3
    <2> QED BY <1>3, <2>1, <2>2 DEF Judgement
  <1>4. e.denied \in BOOLEAN /\ e.result \in {"none", "ok", "error"}
    BY DEF Endings
  <1>5. CASE e.denied = FALSE /\ (e.result = "none" \/ (e.result = "ok" /\ e.code # 0))
    BY <1>5 DEF Judgement
  <1> QED BY <1>1, <1>2, <1>3, <1>4, <1>5

\* The class of a run is the provider's word, whatever its transcript says.
LEMMA ClassesAreTheProviders == ASSUME adapter \in Adapters PROVE ClassIsTheProviders
  <1>1. \A e \in Endings : e.timedOut \in BOOLEAN
    BY DEF Endings
  <1>2. \A e \in Endings : e.timedOut = FALSE => Judgement(adapter, e)
    BY ClaudeJudges, CodexJudges, CopilotJudges DEF Adapters
  <1> QED BY <1>1, <1>2 DEF ClassIsTheProviders, Judgement

(***************************************************************************)
(* What reaches a human.                                                    *)
(***************************************************************************)

\* The results of validation and the rows kept of them agree until a row is refused; a step is
\* skipped behind a required failure alone; and what is being reviewed has earned it.
WorkInv ==
  /\ adapter \in Adapters
  /\ commit \in BOOLEAN /\ recordErr \in BOOLEAN
  /\ results \in Seq(Outcomes) /\ Len(results) <= Len(Steps)
  /\ recordErr = FALSE => rows = results
  /\ Green => \A i \in 1..Len(results) : results[i] # "skipped"
  /\ phase \in {"reviewing", "review", "rereview"} =>
       recordErr = FALSE /\ Len(results) = Len(Steps) /\ Green /\ (commit = TRUE \/ row.class = "success")

\* A step that settles is skipped only behind a failure.
LEMMA StepSettles == ASSUME WorkInv, RunStep PROVE WorkInv'
  <1>1. PICK result \in StepOutcomes : results' = Append(results, result) /\ RecordStep(result)
    BY DEF RunStep
  <1>2. /\ phase = "validating" /\ Len(results) < Len(Steps)
        /\ UNCHANGED <<adapter, commit, phase>>
    BY DEF RunStep, StepsLeft, vars
  <1>3. result \in Outcomes /\ (Green => result # "skipped")
    BY DEF StepOutcomes, Stopped, Outcomes
  <1>4. /\ results' \in Seq(Outcomes) /\ Len(results') = Len(results) + 1 /\ Len(results) \in Nat
        /\ \A i \in 1..Len(results) : results'[i] = results[i]
        /\ results'[Len(results) + 1] = result
    BY <1>1, <1>3, AppendProperties DEF WorkInv
  <1>5. DOMAIN results = 1..Len(results) /\ DOMAIN results' = 1..(Len(results) + 1)
    BY <1>4 DEF WorkInv
  <1>6. Green' => Green
    <2> SUFFICES ASSUME Green' PROVE Green
      OBVIOUS
    <2>1. \A i \in 1..Len(results) : i \in 1..(Len(results) + 1)
      BY <1>4
    <2> QED BY <1>4, <1>5, <2>1 DEF Green, Failed
  <1>7. Green' => \A i \in 1..Len(results') : results'[i] # "skipped"
    <2> SUFFICES ASSUME Green', NEW i \in 1..Len(results') PROVE results'[i] # "skipped"
      OBVIOUS
    <2>1. i \in 1..Len(results) \/ i = Len(results) + 1
      BY <1>4
    <2> QED BY <1>3, <1>4, <1>6, <2>1 DEF WorkInv
  <1>8. recordErr' \in BOOLEAN /\ (recordErr' = FALSE => rows' = results')
    <2>1. PICK kept \in BOOLEAN : /\ rows' = IF kept THEN Append(rows, result) ELSE rows
                                  /\ recordErr' = (recordErr \/ ~kept)
      BY <1>1 DEF RecordStep
    <2>2. recordErr' = FALSE => recordErr = FALSE /\ kept = TRUE
      BY <2>1 DEF WorkInv
    <2>3. recordErr' \in BOOLEAN
      BY <2>1 DEF WorkInv
    <2> QED BY <1>1, <2>1, <2>2, <2>3 DEF WorkInv
  <1>9. Len(results') <= Len(Steps)
    <2>1. Len(Steps) \in Nat
      BY AttemptAssumption
    <2> QED BY <1>2, <1>4, <2>1
  <1> QED BY <1>2, <1>4, <1>7, <1>8, <1>9 DEF WorkInv

\* Every step of a run keeps it.
LEMMA WorkKept == ASSUME RowInv, WorkInv, [AttemptNext]_allVars PROVE WorkInv'
  <1> DEFINE evidence == <<adapter, commit, results, rows, recordErr>>
  <1>1. ASSUME UNCHANGED evidence,
               phase' \in {"reviewing", "review", "rereview"} =>
                 phase \in {"reviewing", "review", "rereview"} /\ row'.class = row.class
        PROVE  WorkInv'
    BY <1>1 DEF WorkInv, Green, Failed
  <1>2. CASE UNCHANGED <<vars, attemptVars>>
    BY <1>1, <1>2 DEF vars, attemptVars
  <1>3. CASE Agent
    BY <1>1, <1>3 DEF Agent, attemptVars, StreamNext, ReadLine, ReadFails, Exit, ExitWithError, Observe,
                      LiveTick, WriteLive, DrainEnds, Waited, StopCounts, RecordOutcome
  <1>4. CASE LateDrain
    BY <1>1, <1>4 DEF LateDrain, Observe, DrainEnds, attemptVars
  <1>5. CASE ReadAgreed \/ AgentError \/ ProviderFailed \/ NeverStarted \/ ValidationError
    BY <1>1, <1>5 DEF ReadAgreed, AgentError, ProviderFailed, NeverStarted, ValidationError, vars, judging
  <1>6. CASE CommitAll
    <2>1. commit' \in BOOLEAN /\ phase' = "validating" /\ results' = <<>> /\ rows' = <<>>
          /\ UNCHANGED <<adapter, recordErr>>
      BY <1>6 DEF CommitAll, vars, WorkInv
    <2>2. Len(<<>>) = 0 /\ <<>> \in Seq(Outcomes) /\ Len(Steps) \in Nat
      BY AttemptAssumption
    <2> QED BY <2>1, <2>2 DEF WorkInv
  <1>7. CASE RunStep
    BY <1>7, StepSettles
  <1>8. CASE Retry
    BY <1>1, <1>8 DEF Retry
  <1>9. CASE Leave
    <2>1. UNCHANGED <<evidence, row>> /\ Len(results) = Len(Steps) /\ recordErr = FALSE
          /\ (phase' = "reviewing" => Green /\ (commit = TRUE \/ row.class = "success"))
          /\ phase' \in {"parked", "reviewing"}
      <3>1. Len(Steps) \in Nat /\ Len(results) \in Nat
        BY AttemptAssumption DEF WorkInv
      <3> QED BY <1>9, <3>1 DEF Leave, Settled, StepsLeft, vars, judging, WorkInv
    <2> QED BY <2>1 DEF WorkInv, Green, Failed
  <1>10. CASE ReviewerAnswers \/ ReviewerFails \/ ReviewSkipped
    BY <1>1, <1>10 DEF ReviewerAnswers, ReviewerFails, ReviewSkipped, vars, judging
  <1>11. CASE RecordVerdict
    <2>1. row'.class = row.class
      BY <1>11, VerdictOnly DEF RecordVerdict, RowInv
    <2> QED BY <1>1, <1>11, <2>1 DEF RecordVerdict, judging
  <1>12. CASE Rereview
    BY <1>1, <1>12 DEF Rereview, vars, judging
  <1> QED BY <1>2, <1>3, <1>4, <1>5, <1>6, <1>7, <1>8, <1>9, <1>10, <1>11, <1>12 DEF AttemptNext, allVars

\* Whatever a transcript says, a run's class is its provider's word; and whatever the agent, the
\* retries and the reviewer do, work reaches a human with every required step passed and on record,
\* and with a commit or an agent that says there was nothing to do.
THEOREM JudgedByWhatIsKnown == AttemptSpec => []JudgedByEvidence
  <1>1. AttemptInit => WorkInv
    <2> SUFFICES ASSUME AttemptInit PROVE WorkInv
      OBVIOUS
    <2>1. Len(<<>>) = 0 /\ <<>> \in Seq(Outcomes) /\ Len(Steps) \in Nat
      BY AttemptAssumption
    <2>2. /\ adapter \in Adapters /\ commit = FALSE /\ recordErr = FALSE /\ phase = "opened"
          /\ results = <<>> /\ rows = <<>>
      BY DEF AttemptInit, StreamInit
    <2>3. Len(results) = 0 /\ Len(results) <= Len(Steps) /\ results \in Seq(Outcomes)
      BY <2>1, <2>2
    <2>4. \A i \in 1..Len(results) : results[i] # "skipped"
      BY <2>3
    <2>5. phase \notin {"reviewing", "review", "rereview"}
      BY <2>2
    <2>6. commit \in BOOLEAN /\ recordErr \in BOOLEAN /\ rows = results
      BY <2>2
    <2>7. adapter \in Adapters
      BY <2>2
    <2> QED BY ONLY <2>3, <2>4, <2>5, <2>6, <2>7 DEF WorkInv
  <1>2. WorkInv => JudgedByEvidence
    <2> SUFFICES ASSUME WorkInv PROVE WorkEarnsReview
      BY ClassesAreTheProviders DEF WorkInv, JudgedByEvidence
    <2> SUFFICES ASSUME phase \in {"reviewing", "review", "rereview"}
                 PROVE  /\ rows = results /\ Len(rows) = Len(Steps)
                        /\ \A i \in DOMAIN Steps : Steps[i] = "required" => rows[i] = "passed"
                        /\ commit \/ row.class = "success"
      BY DEF WorkEarnsReview
    <2>1. rows = results /\ Len(results) = Len(Steps) /\ Green /\ (commit \/ row.class = "success")
      BY DEF WorkInv
    <2>2. DOMAIN Steps = 1..Len(Steps) /\ DOMAIN results = 1..Len(results)
      BY AttemptAssumption DEF WorkInv
    <2>3. ASSUME NEW i \in DOMAIN Steps, Steps[i] = "required" PROVE rows[i] = "passed"
      <3>1. i \in 1..Len(results) /\ i \in DOMAIN results
        BY <2>1, <2>2
      <3>2. results[i] \in Outcomes /\ results[i] # "skipped"
        BY <2>1, <3>1 DEF WorkInv
      <3>3. ~Failed(i)
        BY <2>1, <2>3, <3>1 DEF Green
      <3> QED BY <2>1, <3>2, <3>3 DEF Failed, Outcomes
    <2> QED BY <2>1, <2>3
  <1> QED BY <1>1, <1>2, WorkKept, RowInductive, PTL DEF AttemptSpec
===============================================================================
