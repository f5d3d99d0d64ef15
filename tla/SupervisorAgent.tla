--------------------------- MODULE SupervisorAgent ---------------------------
(***************************************************************************)
(* The SupervisorAgent object of core/engine/supervisor_agent.py, as the   *)
(* operators its methods are: each takes the agent's record and returns    *)
(* the record after the call, or the trace events the call emits.  The     *)
(* agent has no thread of its own; Delegation.tla calls these operators    *)
(* from the steps of the tool handler that drives it.                      *)
(*                                                                         *)
(* Delegations are numbered; 0 stands for Python's None.                   *)
(***************************************************************************)
EXTENDS Integers

Phases    == {"preloop", "loop", "postloop"}
Decisions == {"done", "rerun_aider", "escalate_host"}
Outcomes  == {"success", "error", "escalated"}

\* The value of _lifecycle_context["reviewer_pass_result"]: "none" is a context
\* without that key; lgtm, skipped and error lead to the same steps and are one
\* value, "clean".
ReviewerResults == {"none", "clean", "issues"}

\* Kinds of trace events the agent emits.  A trace is abstracted to the number
\* of events of each kind.
EventKinds ==
  {"lifecycle_start", "lifecycle_end", "phase_start", "phase_end",
   "loop_start", "loop_end", "turn_start", "turn_end", "resumed"}

(***************************************************************************)
(* The object's state.  "open" is the set of phases whose status is        *)
(* in_progress, "decision" the action of the last element of _decisions,   *)
(* "loaded" whether _project_state is set and "known" the delegations      *)
(* whose decisions and findings that in-memory ProjectState holds.         *)
(* "cached" says that the registry of the process holds this object.       *)
(***************************************************************************)
AgentType(Ids) ==
  [del : Ids \cup {0}, maxTurns : Nat, cur : Nat,
   decision : Decisions \cup {"none"},
   loopStarted : BOOLEAN, loopEnded : BOOLEAN,
   started : BOOLEAN, closed : BOOLEAN, open : SUBSET Phases,
   reviewer : ReviewerResults,
   loaded : BOOLEAN, known : SUBSET Ids, cached : BOOLEAN]

\* __init__
NewAgent ==
  [del |-> 0, maxTurns |-> 1, cur |-> 0, decision |-> "none",
   loopStarted |-> FALSE, loopEnded |-> FALSE,
   started |-> FALSE, closed |-> FALSE, open |-> {}, reviewer |-> "none",
   loaded |-> FALSE, known |-> {}, cached |-> FALSE]

\* rehydrate_from: the lifecycle context comes back, the envelope does not.
RehydrateFrom(a, reviewer) == [a EXCEPT !.reviewer = reviewer]

\* Mutant: the closed flag of the previous envelope is never cleared.
ResetLifecycleStaysClosed(a) ==
  [a EXCEPT !.open = IF a.closed \/ ~a.started THEN {} ELSE a.open]

\* After a closed envelope only the phases are cleared; a never opened one loses
\* context and phases; an open one (the caller's, just before) keeps both.
ResetLifecycle(a) ==
  [a EXCEPT !.open = IF a.closed \/ ~a.started THEN {} ELSE a.open,
            !.reviewer = IF ~a.closed /\ ~a.started THEN "none" ELSE a.reviewer,
            !.closed = FALSE]

\* begin_delegation: the loop state starts over.
BeginDelegation(a, d, maxTurns) ==
  [ResetLifecycle(a) EXCEPT
     !.del = d, !.maxTurns = maxTurns, !.cur = 0, !.decision = "none",
     !.loopStarted = FALSE, !.loopEnded = FALSE]

\* set_lifecycle_context / emit_lifecycle_start
StartLifecycle(a) == [a EXCEPT !.started = TRUE]

\* emit_lifecycle_phase_start, emit_lifecycle_phase_end: ignored once closed.
StartPhase(a, phase) ==
  IF a.closed THEN a ELSE [a EXCEPT !.open = a.open \cup {phase}]

EndPhase(a, phase) ==
  IF a.closed THEN a ELSE [a EXCEPT !.open = a.open \ {phase}]

PhaseEvent(a, kind) == IF a.closed THEN {} ELSE {kind}

\* emit_lifecycle_end: idempotent.
EndLifecycle(a) == [a EXCEPT !.closed = TRUE]

EndLifecycleEvent(a) == IF a.closed THEN {} ELSE {"lifecycle_end"}

\* Mutant: the state on disk is not read.
BeginWithoutLoading(a, onDisk) ==
  [a EXCEPT !.loaded = TRUE, !.loopStarted = TRUE]

\* begin: the project state is read from disk only when none is in memory, and
\* the loop is announced once.
Begin(a, onDisk) ==
  [a EXCEPT !.known = IF a.loaded THEN a.known ELSE onDisk,
            !.loaded = TRUE, !.loopStarted = TRUE]

BeginEvents(a) == IF a.loopStarted THEN {} ELSE {"loop_start"}

BeginTurn(a) == [a EXCEPT !.cur = a.cur + 1]

\* Mutant: one turn too many is allowed.
CanRerunOffByOne(a) == a.cur <= a.maxTurns

CanRerun(a) == a.cur < a.maxTurns

(***************************************************************************)
(* _decide: the deterministic policy asks for a rerun only when the        *)
(* reviewer found issues and a turn remains; the LLM may answer any action *)
(* and falls back to the policy.                                           *)
(***************************************************************************)
PolicyDecision(a, reviewer) ==
  IF CanRerun(a) /\ reviewer = "issues" THEN "rerun_aider" ELSE "done"

PossibleDecisions(a, reviewer, llmDecides) ==
  IF llmDecides THEN Decisions ELSE {PolicyDecision(a, reviewer)}

\* complete_turn: the decision is recorded.
CompleteTurn(a, decision) == [a EXCEPT !.decision = decision]

\* finish with _resolve_outcome, given the success of the last turn's result: an
\* unanswered rerun counts as an escalation.
FinishOutcome(a, ok) ==
  IF a.decision \in {"escalate_host", "rerun_aider"} THEN "escalated"
  ELSE IF ok THEN "success" ELSE "error"

\* Mutant: the decision itself is written as the reason.
PauseReasonIsDecision(a) == a.decision

\* The pause_reason _finish writes for an escalated outcome.
PauseReason(a) ==
  IF a.decision = "rerun_aider" THEN "max_turns_reached" ELSE "needs_input"

\* _emit_loop_end, once.
EndLoop(a) == [a EXCEPT !.loopEnded = TRUE]

EndLoopEvents(a) ==
  IF a.loopStarted /\ ~a.loopEnded THEN {"loop_end"} ELSE {}

(***************************************************************************)
(* resume: a new object for the turn after the paused one.  The envelope   *)
(* is open in phase loop, and the project state is read afresh.            *)
(***************************************************************************)
ResumedAgent(pause, onDisk) ==
  [NewAgent EXCEPT !.del = pause.ref, !.maxTurns = pause.turn + 1,
                   !.cur = pause.turn, !.started = TRUE, !.open = {"loop"},
                   !.reviewer = pause.reviewer,
                   !.loaded = TRUE, !.known = onDisk, !.cached = TRUE]
=============================================================================
