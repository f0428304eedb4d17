------------------------------ MODULE Providers ------------------------------
(***************************************************************************)
(* How a finished agent process is judged (internal/provider and its three  *)
(* adapters).  Output is abstracted to the set of shapes the rule tables    *)
(* look for: `said` are shapes that occur in what the agent read and wrote, *)
(* `own` those the CLI reported of itself (stderr, the result object, an    *)
(* error event).                                                            *)
(***************************************************************************)
EXTENDS Integers, Sequences, SequencesExt, FiniteSetsExt

Adapters == {"claude", "codex", "copilot"}
Classes == {"success", "task", "quota", "rate", "down", "auth", "timeout"}
IsQuotaCondition(class) == class \in {"quota", "rate", "down", "auth"}

\* The shapes of failure the tables know, and one they do not.
Shapes == {"auth", "model", "quota", "rate", "down"}
Codes == {0, 1, 127, 137}

\* A finished process: status, the adapter's terminal object and what was printed.
\* "none" is a stream that ended without its terminal object.
Endings ==
    {e \in [code : Codes, timedOut : BOOLEAN, result : {"none", "ok", "error"},
            denied : BOOLEAN, said : SUBSET {"rate"}, own : SUBSET Shapes] :
        /\ Cardinality(e.own) <= 1
        /\ e.timedOut => e.code = 137
        /\ e.result = "none" => ~e.denied}

---------------------------------------------------------------------------
(* Rules are tried in order and the first that matches wins.               *)

Shape(name, class) == [name |-> name, class |-> class, code |-> -1]
ExitCode(name, class, code) == [name |-> name, class |-> class, code |-> code]

ClaudeRules == <<Shape("auth", "auth"), Shape("model", "task"), Shape("quota", "quota"),
                 Shape("rate", "rate"), Shape("down", "down"),
                 ExitCode("cli not found", "down", 127), ExitCode("killed", "timeout", 137)>>
CodexRules ==  <<Shape("model", "task"), Shape("auth", "auth"), Shape("quota", "quota"),
                 Shape("rate", "rate"), Shape("down", "down"),
                 ExitCode("cli not found", "down", 127), ExitCode("killed", "timeout", 137)>>

Matches(rule, code, text) == IF rule.code >= 0 THEN rule.code = code ELSE rule.name \in text

\* Anything unmatched is the agent's failure, never the provider's.
Classify(rules, code, text) ==
    LET hits == {i \in DOMAIN rules : Matches(rules[i], code, text)}
    IN  IF hits # {} THEN [class |-> rules[Min(hits)].class, rule |-> rules[Min(hits)].name]
        ELSE [class |-> IF code = 0 THEN "success" ELSE "task", rule |-> "none"]

\* Copilot's are read from its error events and stderr alone, never the transcript.
CopilotClassify(code, reported) ==
    LET service == reported \cap {"auth", "quota", "rate", "down"}
    IN  IF code = 0 THEN [class |-> "success", rule |-> "clean exit"]
        ELSE IF service # {} THEN [class |-> CHOOSE c \in service : TRUE, rule |-> "service error"]
        ELSE IF code = 127 THEN [class |-> "down", rule |-> "CLI missing"]
        ELSE Classify(<<>>, code, {})

---------------------------------------------------------------------------
(* The three adapters' computeOutcome.                                     *)

TimedOut == [class |-> "timeout", rule |-> "timed out"]

\* The whole transcript is matched, then corrected by the result object: a run it
\* calls finished is no quota condition, one it calls an error is no success, and
\* neither is one whose tools were refused.
ClaudeOutcome(e) ==
    LET text == e.said \cup e.own
        matched == Classify(ClaudeRules, e.code, text)
        clean == IF e.code = 0 /\ e.result = "ok" /\ IsQuotaCondition(matched.class)
                 THEN [class |-> "success", rule |-> "clean exit"] ELSE matched
        honest == IF clean.class = "success" /\ e.result = "error"
                  THEN [class |-> "task", rule |-> "is_error"] ELSE clean
    IN  IF e.timedOut THEN TimedOut
        ELSE IF honest.class = "success" /\ e.denied
             THEN [class |-> "task", rule |-> "permission denied"] ELSE honest

\* "error" is a turn.failed or error event anywhere in the stream.
CodexOutcome(e) ==
    IF e.timedOut THEN TimedOut
    ELSE IF e.result = "error" \/ e.code # 0
         THEN Classify(CodexRules, e.code, e.said \cup e.own)
         ELSE [class |-> "success", rule |-> "clean exit"]

\* "none" is a stream without its final result line; own shapes are error events.
CopilotOutcome(e) ==
    LET resultCode == IF e.code = 0 /\ e.result = "error" THEN 1 ELSE e.code
        code == IF resultCode = 0 /\ e.result = "none" /\ e.own # {} THEN 1 ELSE resultCode
    IN  IF e.timedOut THEN TimedOut
        ELSE IF e.denied THEN [class |-> "task", rule |-> "permission denied"]
        ELSE IF code = 0 /\ e.result = "none" THEN [class |-> "task", rule |-> "no result"]
        ELSE CopilotClassify(code, e.own)

Outcome(adapter, e) ==
    CASE adapter = "claude" -> ClaudeOutcome(e)
      [] adapter = "codex" -> CodexOutcome(e)
      [] adapter = "copilot" -> CopilotOutcome(e)

\* A machine without the CLI says nothing about the model: its cooldown is none.
HostLocalFailure(outcome) == outcome.class = "down" /\ outcome.rule = "cli not found"
CoolsDown(outcome) == IsQuotaCondition(outcome.class) /\ ~HostLocalFailure(outcome)
==============================================================================
