-------------------------- MODULE ConfirmSupervisor --------------------------
(***************************************************************************)
(* What happens to a question of the running coder: it is answered by its  *)
(* wording when that is safe, by the supervisor's model otherwise, which   *)
(* may look things up with tools before it decides, or by the human when   *)
(* the model escalates (core/engine/supervised_io.py,                      *)
(* core/engine/supervisor.py, core/engine/supervisor_tool_runner.py,       *)
(* core/observability/gateway.py).  The gate to the human is HumanGate's;  *)
(* here it is the answer it gives.                                         *)
(***************************************************************************)
EXTENDS Naturals, Sequences, FiniteSets, SequencesExt

CONSTANTS
    MaxRounds,   \* rounds with tools of one evaluation
    MaxToolCalls,\* calls of one reply
    MaxQuestions \* questions the coder asks

ASSUME SupervisorAssumption ==
    MaxRounds \in Nat \ {0} /\ MaxToolCalls \in Nat \ {0} /\ MaxQuestions \in Nat

VARIABLES
    mode,     \* where the worker is
    question, \* the last question a rule answered
    talk,     \* its messages after the question: n calls, or one's result
    round,    \* its rounds with tools
    calls,    \* its completions
    text,     \* what it has for an answer
    decided,  \* supervisor_decisions, by what was decided
    count,    \* supervisor_decisions_count
    aborts,   \* supervisor_aborts_count
    emitted,  \* the decisions in the trace, with their reasons
    hushed,   \* suppressed duplicates
    answer    \* what the coder was told last

supVars == <<mode, question, talk, round, calls, text, decided, count, aborts,
             emitted, hushed, answer>>
evaluation == <<talk, round, calls, text>>
ledger == <<decided, count, aborts, emitted, hushed>>

\* What a question mentions: paths of the spec and others, and markers for
\* deleting or the shell, for adding, for editing and for the chat.
Questions == [paths : SUBSET {"in", "out"}, unsafe : BOOLEAN, add : BOOLEAN,
              edit : BOOLEAN, chat : BOOLEAN, spec : BOOLEAN]

\* A message with the result of a call.
Result == 0

\* A text the parser finds a decision in, or none; a model may write the
\* call of a tool into it.
Verdicts == {"approve", "deny", "abort", "escalate"}
Texts == [says : Verdicts \cup {"nothing"}, leaked : BOOLEAN]
Silence == [says |-> "nothing", leaked |-> FALSE]
Reasons == {1, 2}
NoQuestion == [paths |-> {}, unsafe |-> FALSE, add |-> FALSE, edit |-> FALSE,
               chat |-> FALSE, spec |-> FALSE]

\* A reply of the gateway: it failed, it calls tools, or it is a text.
Replies ==
    {[kind |-> "error"]} \cup [kind : {"calls"}, n : 1 .. MaxToolCalls]
    \cup [kind : {"text"}, text : Texts]

SupervisorTypeOK ==
    /\ mode \in {"coder", "round", "tools", "recover", "last", "verdict", "gate",
                 "aborted", "done"}
    /\ question \in Questions /\ talk \in Seq(0 .. MaxToolCalls)
    /\ round \in 0 .. MaxRounds /\ calls \in Nat
    /\ text \in Texts /\ count \in Nat /\ aborts \in Nat
    /\ emitted \subseteq (Verdicts \cup {"rule_approve", "rule_deny", "failed",
                                       "human", "timeout"}) \X Reasons
    /\ hushed \in Nat /\ answer \in BOOLEAN

SupervisorInit ==
    /\ mode = "coder" /\ question = NoQuestion /\ talk = <<>> /\ round = 0
    /\ calls = 0 /\ text = Silence /\ decided = <<>> /\ count = 0 /\ aborts = 0
    /\ emitted = {} /\ hushed = 0 /\ answer = FALSE

-----------------------------------------------------------------------------
\* classify_confirm_risk.  Without files in the spec no path is one of them.
AddsOutside(q) == q.add /\ q.spec /\ "out" \in q.paths

Harmless(q) ==
    \/ q.chat /\ "out" \notin q.paths
    \/ q.edit /\ q.paths = {"in"}
    \/ q.edit /\ q.paths = {} /\ q.spec

\* Mutant: the markers for deleting and the shell are not looked for first.
RiskByPath(q) ==
    IF AddsOutside(q) THEN "high" ELSE IF Harmless(q) THEN "low" ELSE "unknown"

\* What speaks against it is looked for first.
Risk(q) ==
    IF q.unsafe \/ AddsOutside(q) THEN "high"
    ELSE IF Harmless(q) THEN "low" ELSE "unknown"

\* classify_for_interception: what needs no model.
Intercept(q) ==
    CASE Risk(q) = "low" -> "rule_approve"
      [] Risk(q) = "high" /\ ~q.unsafe /\ q.paths = {"out"} -> "rule_deny"
      [] OTHER -> "ask"

\* What aborts the run; a failed evaluation is an abort.
Refusals == {"abort", "escalate", "failed"}

\* _record_decision: every decision is listed and counted, its event goes
\* to the trace unless one with its reason is there.
RecordDecision(name) ==
    /\ decided' = Append(decided, name) /\ count' = count + 1
    /\ aborts' = IF name \in Refusals THEN aborts + 1 ELSE aborts
    /\ \E reason \in IF name \in {"rule_approve", "rule_deny"} THEN {1} ELSE Reasons :
         /\ emitted' = emitted \cup {<<name, reason>>}
         /\ hushed' = IF <<name, reason>> \in emitted THEN hushed + 1 ELSE hushed

-----------------------------------------------------------------------------
\* confirm_ask: answered on the spot, or handed to the model, whose set-up
\* may fail before the first call.  What the model is asked does not matter
\* any more: it may say anything.
Ask ==
    /\ mode = "coder" /\ count < MaxQuestions
    /\ \E q \in {q \in Questions : (q.spec \/ "in" \notin q.paths) /\ (q.chat => q.add)} :
         IF Intercept(q) = "ask"
           THEN /\ question' = NoQuestion /\ mode' \in {"round", "verdict"}
                /\ UNCHANGED <<ledger, answer>>
           ELSE /\ question' = q /\ RecordDecision(Intercept(q)) /\ UNCHANGED mode
                /\ answer' = (Intercept(q) = "rule_approve")
    /\ talk' = <<>> /\ round' = 0 /\ calls' = 0 /\ text' = Silence

CoderEnds ==
    /\ mode = "coder" /\ mode' = "done"
    /\ UNCHANGED <<question, evaluation, ledger, answer>>

\* One completion: run_with_metrics asks again with what the tools said.
Complete ==
    /\ mode = "round"
    /\ calls' = calls + 1 /\ round' = round + 1
    /\ \E reply \in Replies :
         CASE reply.kind = "error" ->
                mode' = "verdict" /\ text' = Silence /\ UNCHANGED talk
           [] reply.kind = "calls" ->
                mode' = "tools" /\ talk' = Append(talk, reply.n) /\ UNCHANGED text
           [] OTHER ->
                /\ text' = reply.text /\ UNCHANGED talk
                /\ mode' = IF reply.text.leaked THEN "recover" ELSE "verdict"
    /\ UNCHANGED <<question, ledger, answer>>

\* Mutant: an unknown tool or one that raises leaves no message.
RunToolsThatWork ==
    /\ mode = "tools"
    /\ \E k \in 0 .. Last(talk) : talk' = talk \o [i \in 1 .. k |-> Result]
    /\ mode' = IF round < MaxRounds THEN "round" ELSE "last"
    /\ UNCHANGED <<question, round, calls, text, ledger, answer>>

\* Each call gets its result, an error included.
RunTools ==
    /\ mode = "tools"
    /\ talk' = talk \o [i \in 1 .. Last(talk) |-> Result]
    /\ mode' = IF round < MaxRounds THEN "round" ELSE "last"
    /\ UNCHANGED <<question, round, calls, text, ledger, answer>>

\* A text with the call of a tool in it: one more completion, without tools;
\* when that has no text the first one stays.
Recover ==
    /\ mode = "recover" /\ mode' = "verdict" /\ calls' = calls + 1
    /\ text' \in Texts
    /\ UNCHANGED <<question, talk, round, ledger, answer>>

\* After the last round, a completion without tools; none of it is checked.
CompleteLast ==
    /\ mode = "last" /\ mode' = "verdict" /\ calls' = calls + 1
    /\ text' \in Texts
    /\ UNCHANGED <<question, talk, round, ledger, answer>>

\* evaluate and the end of confirm_ask: what cannot be read aborts; an
\* escalation aborts too when no human is there.
Decide ==
    /\ mode = "verdict"
    /\ LET verdict == IF text.says = "nothing" THEN "failed" ELSE text.says IN
       /\ RecordDecision(verdict) /\ answer' = (verdict = "approve")
       /\ \/ verdict \in {"approve", "deny"} /\ mode' = "coder"
          \/ verdict = "escalate" /\ mode' \in {"gate", "aborted"}
          \/ verdict \in {"abort", "failed"} /\ mode' = "aborted"
    /\ UNCHANGED <<question, evaluation>>

\* The human answers,
HumanAnswers ==
    /\ mode = "gate" /\ mode' = "coder" /\ answer' \in BOOLEAN
    /\ RecordDecision("human")
    /\ UNCHANGED <<question, evaluation>>

\* or does not within the limit of the gate.
GateTimesOut ==
    /\ mode = "gate" /\ mode' = "aborted" /\ answer' = FALSE
    /\ RecordDecision("timeout")
    /\ UNCHANGED <<question, evaluation>>

Working ==
    Complete \/ RunTools \/ Recover \/ CompleteLast \/ Decide \/ GateTimesOut

SupervisorNext == Ask \/ CoderEnds \/ Working \/ HumanAnswers

\* The coder and the human promise nothing.
SupervisorSpec ==
    SupervisorInit /\ [][SupervisorNext]_supVars /\ WF_supVars(Working)

-----------------------------------------------------------------------------
(* Properties *)

\* The model is never asked with a call of a tool left open: between a reply
\* with calls and the next completion stands one result per call
\* (supervisor_tool_runner.py 172-190).
CallsAreAnswered ==
    mode \in {"round", "recover", "last"} =>
        \A i \in DOMAIN talk : talk[i] # Result =>
            /\ i + talk[i] <= Len(talk)
            /\ \A j \in i + 1 .. i + talk[i] : talk[j] = Result
            /\ i + talk[i] < Len(talk) => talk[i + talk[i] + 1] # Result

\* One evaluation costs at most one completion more than its rounds, whatever
\* the model writes (supervisor_tool_runner.py 101-204).
CompletionsBounded == calls <= MaxRounds + 1

\* The coder hears a yes only for a question that mentions nothing outside
\* the spec, no shell and no deletion, on a decision that could be read in
\* the last text, or from the human; a failure on the way is never a yes
\* (supervised_io.py 82-122, supervisor.py 185-275).
YesIsGrounded ==
    [][answer' /\ count' > count =>
        \/ /\ mode = "coder" /\ ~question'.unsafe
           /\ "out" \notin question'.paths
        \/ mode = "verdict" /\ text.says = "approve"
        \/ mode = "gate"]_supVars

\* What the abort and the record tell of a run: as many decisions as there
\* were, each in the trace or counted as a duplicate, and the aborts among
\* them (supervised_io.py 509-577).
DecisionsAccounted ==
    /\ count = Len(decided) /\ count = Cardinality(emitted) + hushed
    /\ ToSet(decided) = {e[1] : e \in emitted}
    /\ aborts = Cardinality({i \in DOMAIN decided : decided[i] \in Refusals})

\* What an evaluation leaves adds up: calls and results, completions and
\* rounds, decisions and their traces.
EvaluationsClose == CallsAreAnswered /\ CompletionsBounded /\ DecisionsAccounted

\* A question does not hold the worker for ever: it is answered or ends the
\* run (supervised_io.py 579-722).
QuestionsEnd == mode \notin {"coder", "done", "aborted"} ~> mode \in {"coder", "aborted"}
=============================================================================
