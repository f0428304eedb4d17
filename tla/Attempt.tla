------------------------------- MODULE Attempt -------------------------------
(***************************************************************************)
(* The attempts of one run (attemptLoop): the agent, the commit of what it  *)
(* produced, the project's validation steps, the retries of the self-        *)
(* correction budget, and the advisory review of what passed.               *)
(***************************************************************************)
EXTENDS RunStream

CONSTANTS
    Steps,        \* the project's validation: a sequence of "required" and "optional"
    Budget,       \* SelfCorrectionBudget
    Tries         \* review.Attempts

ASSUME AttemptAssumption ==
    /\ Steps \in Seq({"required", "optional"}) /\ Budget \in Nat /\ Tries \in Nat \ {0}

VARIABLES
    phase,        \* where the run stands
    attempt,      \* 1..Budget + 1
    commit,       \* some attempt left a commit
    results,      \* validate.Results of this attempt
    rows,         \* the validations rows of this attempt's run
    recordErr,    \* a row could not be written
    tried,        \* how often the reviewer was asked
    answer        \* its verdict, while not yet recorded

attemptVars == <<phase, attempt, commit, results, rows, recordErr, tried, answer>>
judging == <<commit, attempt, results, rows, recordErr>>
allVars == <<vars, attemptVars>>

Ended == {"provider", "faulted", "parked", "review"}
Outcomes == {"passed", "failed", "timed_out", "skipped"}

AttemptInit ==
    /\ StreamInit
    /\ phase = "opened" /\ attempt = 1 /\ commit = FALSE
    /\ results = <<>> /\ rows = <<>> /\ recordErr = FALSE
    /\ tried = 0 /\ answer = "none"

\* What a human agreed is read once, before the first attempt.
ReadAgreed ==
    /\ phase = "opened" /\ phase' \in {"agent", "faulted"}
    /\ UNCHANGED <<vars, judging, tried, answer>>

Agent == phase = "agent" /\ StreamNext /\ UNCHANGED attemptVars

\* The drain goroutine may outlive executeAgent's patience.
LateDrain == phase # "agent" /\ (Observe \/ DrainEnds) /\ UNCHANGED attemptVars

---------------------------------------------------------------------------
(* Between the agent and validation.                                       *)

Returned == phase = "agent" /\ exec = "recorded" /\ ~outcome.err

AgentError ==
    /\ phase = "agent" /\ exec = "recorded" /\ outcome.err
    /\ phase' = "faulted"
    /\ UNCHANGED <<vars, judging, tried, answer>>

ProviderFailed ==
    /\ Returned /\ IsQuotaCondition(row.class)
    /\ phase' = "provider"
    /\ UNCHANGED <<vars, judging, tried, answer>>

\* Claude's session is assigned before it starts, so only the others can lack one.
NeverStarted ==
    /\ Returned /\ row.class # "success" /\ ~IsQuotaCondition(row.class)
    /\ row.turns = 0 /\ ~outcome.denied /\ adapter # "claude"
    /\ phase' = "faulted"
    /\ UNCHANGED <<vars, judging, tried, answer>>

\* CommitAll commits whatever is in the worktree, whatever the agent said of itself.
CommitAll ==
    /\ Returned /\ ~IsQuotaCondition(row.class)
    /\ \E changed \in BOOLEAN : commit' = (commit \/ changed)
    /\ phase' = "validating" /\ results' = <<>> /\ rows' = <<>>
    /\ UNCHANGED <<vars, attempt, recordErr, tried, answer>>

---------------------------------------------------------------------------
(* Validation.                                                             *)

\* Mutant: a step that timed out does not count as failed.
Failed_exit(i) == results[i] = "failed"

Failed(i) == results[i] \in {"failed", "timed_out"}
Green == \A i \in DOMAIN results : Steps[i] = "required" => ~Failed(i)
Stopped == ~Green
StepsLeft == Len(results) < Len(Steps)

\* What a step can come to: behind a required failure it is skipped.
StepOutcomes == IF Stopped THEN {"skipped"} ELSE Outcomes \ {"skipped"}

\* The row of a settled step may be refused, which is remembered and stops nothing.
RecordStep(result) ==
    \E kept \in BOOLEAN :
        /\ rows' = IF kept THEN Append(rows, result) ELSE rows
        /\ recordErr' = (recordErr \/ ~kept)

RunStep ==
    /\ phase = "validating" /\ StepsLeft
    /\ \E result \in StepOutcomes : results' = Append(results, result) /\ RecordStep(result)
    /\ UNCHANGED <<vars, phase, attempt, commit, tried, answer>>

\* The command could not be run at all, or not every row was written.
ValidationError ==
    /\ phase = "validating" /\ (StepsLeft => ~Stopped) /\ (~StepsLeft => recordErr)
    /\ phase' = "faulted"
    /\ UNCHANGED <<vars, judging, tried, answer>>

Settled == phase = "validating" /\ ~StepsLeft /\ ~recordErr
Passed == Green /\ (row.class = "success" \/ commit)

Retry ==
    /\ Settled /\ ~Passed /\ attempt <= Budget
    /\ attempt' = attempt + 1 /\ phase' = "agent"
    /\ \E t \in Transcripts : Launched(t)
    /\ UNCHANGED <<adapter, commit, results, rows, recordErr, tried, answer>>

\* An unchanged tree passes validation trivially: without a commit the agent's word
\* is needed as well.
Leave ==
    /\ Settled /\ (Passed \/ attempt > Budget)
    /\ phase' = IF (~commit /\ row.class # "success") \/ ~Green THEN "parked" ELSE "reviewing"
    /\ UNCHANGED <<vars, judging, tried, answer>>

---------------------------------------------------------------------------
(* The advisory review.  Nothing below reads its verdict.                  *)

Asking == phase \in {"reviewing", "rereview"} /\ answer = "none"

\* The model answers with something Parse accepts.
ReviewerAnswers ==
    /\ Asking /\ tried < Tries
    /\ \E v \in Verdicts \ {"none", "unavailable"} : answer' = v
    /\ tried' = tried + 1
    /\ UNCHANGED <<vars, judging, phase>>

\* It fails or answers nonsense, and is asked again until Tries or a cancelled context.
ReviewerFails ==
    /\ Asking /\ tried < Tries
    /\ tried' = tried + 1
    /\ answer' \in (IF tried' = Tries THEN {"unavailable"} ELSE {"none", "unavailable"})
    /\ UNCHANGED <<vars, judging, phase>>

\* No diff to read, or no reviewer at all.
ReviewSkipped ==
    /\ phase = "reviewing" /\ Asking /\ tried = 0
    /\ \E reviewer \in BOOLEAN :
        IF reviewer THEN answer' = "unavailable" /\ UNCHANGED phase
                    ELSE phase' = "review" /\ UNCHANGED answer
    /\ UNCHANGED <<vars, judging, tried>>

\* recordVerdict rewrites the row it has just read; a store that refuses is ignored.
RecordVerdict ==
    /\ phase \in {"reviewing", "rereview"} /\ answer # "none"
    /\ \E kept \in BOOLEAN : row' = IF kept THEN [row EXCEPT !.verdict = answer] ELSE row
    /\ phase' = "review"
    /\ answer' = "none" /\ tried' = 0
    /\ UNCHANGED <<adapter, stream, drain, counts, exec, judging>>

\* A human asks for a fresh verdict on a card in Review.
Rereview ==
    /\ phase = "review" /\ tried = 0
    /\ phase' = "rereview"
    /\ UNCHANGED <<vars, judging, tried, answer>>

AttemptNext ==
    \/ ReadAgreed \/ Agent \/ LateDrain
    \/ AgentError \/ ProviderFailed \/ NeverStarted \/ CommitAll
    \/ RunStep \/ ValidationError \/ Retry \/ Leave
    \/ ReviewerAnswers \/ ReviewerFails \/ ReviewSkipped \/ RecordVerdict \/ Rereview

\* The process has a wall-clock limit and so do steps and reviewer; a write under way
\* ends.  Nothing makes the drain read.
AttemptFairness ==
    /\ WF_allVars(phase = "agent" /\ (Exit \/ ExitWithError \/ Waited \/ StopCounts \/ RecordOutcome) /\ UNCHANGED attemptVars)
    /\ WF_allVars(WriteLive /\ UNCHANGED attemptVars)
    /\ WF_allVars(AgentError \/ ProviderFailed \/ NeverStarted \/ CommitAll)
    /\ WF_allVars(RunStep \/ Retry \/ Leave \/ ValidationError)
    /\ WF_allVars(ReviewerAnswers \/ ReviewerFails \/ ReviewSkipped \/ RecordVerdict)

AttemptSpec == AttemptInit /\ [][AttemptNext]_allVars /\ AttemptFairness

---------------------------------------------------------------------------
(* Properties.                                                             *)

\* Once executeAgent has written the outcome of a run, no live count still in the hands
\* of a slow drain may replace it: only the verdict changes (livecounts.go, stop).
FinalStands ==
    [][exec = "recorded" /\ exec' = "recorded"
          => row' = [row EXCEPT !.verdict = row'.verdict]]_allVars

\* The Claude CLI repeats a message's usage on every line of it, and events are dropped
\* behind a full channel: the row never counts more turns than the agent took.
CountsHonest == adapter = "claude" => counts.turns <= Cardinality(seen)

\* A class is the provider's word, not the transcript's: what a CLI calls finished is no
\* quota condition, what it calls an error or was refused is no success, and a machine
\* without the CLI does not take the model from the fleet.  (Codex reports no refusals.)
ClassIsTheProviders ==
    handle = "reading" /\ output = <<>> =>
        \A e \in Endings :
            LET judged == Outcome(adapter, e) IN ~e.timedOut =>
                /\ e.code = 0 /\ e.result = "ok" => ~IsQuotaCondition(judged.class)
                /\ adapter # "codex" /\ (e.denied \/ e.result = "error") => judged.class # "success"
                /\ adapter # "copilot" /\ e.code = 127 /\ e.own \cup e.said = {} => ~CoolsDown(judged)

\* Work reaches a human's review only with every required step passed and on record, and
\* with something to show for it: a commit, or an agent that says it had nothing to do.
WorkEarnsReview ==
    phase \in {"reviewing", "review", "rereview"} =>
        /\ rows = results /\ Len(rows) = Len(Steps)
        /\ \A i \in DOMAIN Steps : Steps[i] = "required" => rows[i] = "passed"
        /\ commit \/ row.class = "success"

\* A run is judged by what its provider and the project's own steps say of it: its class, and
\* whether its work is put before a human.
JudgedByEvidence == ClassIsTheProviders /\ WorkEarnsReview

\* However slow its consumers and whatever the reviewer does, a run with an agent ends, and one that
\* passed validation reaches the human.
RunEnds == (phase = "agent" ~> phase \in Ended) /\ (phase = "reviewing" ~> phase = "review")
==============================================================================
