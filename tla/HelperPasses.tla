---------------------------- MODULE HelperPasses ----------------------------
(***************************************************************************)
(* What the helper passes around an executor run make of a model's reply:  *)
(* core/engine/*_llm.py behind core/context/helper_llm_pipeline.py.  A     *)
(* reply is its kind; the texts are left out.  No pass raises on a bad     *)
(* reply: every kind ends in a verdict, and "failed" never stops the       *)
(* delegation.                                                             *)
(***************************************************************************)

\* The call itself gives no text: run_owned_helper_completion, and the
\* configuration hint looked up before it.
NoText == {"misconfigured", "gateway_error", "empty"}

\* A text without a level-two heading, or with a provider's error message.
Unusable == {"no_heading", "error_marker"}

\* A text with headings: the pass's positive heading, its negative one with
\* or without bullets, both in either order, or none it knows.
Texts == {"positive", "negative", "bare_negative", "both", "reversed",
          "other_heading"}

Replies == NoText \cup Unusable \cup Texts

-----------------------------------------------------------------------------
\* The positive heading is looked for first, so a reply with both passes; a
\* negative one must list at least one bullet.
Verdict(reply) ==
    CASE reply \in {"positive", "both", "reversed"} -> "passed"
      [] reply = "negative" -> "blocked"
      [] OTHER -> "failed"

ValidationVerdict(reply) == Verdict(reply)
ClarityVerdict(reply) == Verdict(reply)
ReviewVerdict(reply) == Verdict(reply)

\* The builder takes any text with a heading for a brief.
BuilderBrief(reply) == reply \in Texts

\* A plan must start with the planner's own heading.
IsPlan(reply) == reply = "positive"

\* With a spec of a known project the planner first talks to the tools; only
\* a plan ends that, anything else starts the one-shot call afresh.
PlannerPlan(known, toolReply, oneShot) ==
    /\ "misconfigured" \notin {toolReply, oneShot}
    /\ (known /\ IsPlan(toolReply)) \/ IsPlan(oneShot)

\* The clarity sub-agent: answers count only when their heading comes before
\* any escalation and none of the questions is left out.
ResolutionAnswers(known, reply) ==
    known /\ reply \in {"positive", "both"}
=============================================================================
