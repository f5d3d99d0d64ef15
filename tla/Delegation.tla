------------------------------ MODULE Delegation ------------------------------
(***************************************************************************)
(* One project key seen by the processes that delegate work on it: the     *)
(* stdio MCP server and any CLI started beside it.  Every process runs     *)
(* delegate_to_agent (server/mcp_server.py) one call at a time; each keeps *)
(* its own SupervisorAgent in _SUPERVISOR_REGISTRY, and all share what is  *)
(* on disk: the paused states, the agent checkpoint, the project state,    *)
(* the delegation records and the traces.                                  *)
(*                                                                         *)
(* A call is cut into steps where the handler has written to disk, calls   *)
(* an LLM or the executor, or may raise: another process, a crash or the   *)
(* expiry of a pause may come between any two of them.                     *)
(***************************************************************************)
EXTENDS SupervisorAgent, PausedStates, FiniteSets

CONSTANTS
  Procs,       \* the processes that share the project key
  MaxCalls,    \* bound: tool calls in a behaviour
  MaxTurns,    \* resolve_supervisor_max_turns
  MaxCrashes,  \* bound: process deaths in a behaviour
  LLMDecides,  \* the inter-turn decision is an LLM's (else the policy)
  Faults       \* stages whose file I/O may raise, of FaultStages

FaultStages == {"preloop", "clarity_save", "pause_save", "state_save",
                "checkpoint_save", "postloop", "touch", "after_record"}

ASSUME BoundsAssumption ==
  /\ MaxCalls \in Nat \ {0}
  /\ MaxTurns \in Nat \ {0}
  /\ MaxCrashes \in Nat

ASSUME ModesAssumption ==
  /\ LLMDecides \in BOOLEAN
  /\ Faults \subseteq FaultStages
  /\ IsFiniteSet(Procs)

Ids    == 1..MaxCalls
Tokens == Nat \ {0}

VARIABLES
  pc,            \* where each process is in its call
  call,          \* the local variables of the call
  agent,         \* the agent of the process's registry
  reply,         \* what the host last got back from the process
  files,         \* paused-state files
  expired,       \* tokens of the files past their expires_at
  checkpoint,    \* agent_state.json
  projectState,  \* project_state.json: whose decisions and risks it holds
  records,       \* delegations.jsonl
  trace,         \* events by delegation and kind
  nextDel,       \* delegation ids handed out so far, plus one
  nextTok,       \* the same for resume tokens
  crashes,       \* process deaths so far
  lost           \* calls whose process died in the middle

procVars  == <<pc, call, agent, reply>>
diskVars  == <<files, expired, checkpoint, projectState, records, trace>>
clockVars == <<nextDel, nextTok, crashes, lost>>
vars      == <<procVars, diskVars, clockVars>>

Modes  == {"implement", "review"}
Labels == {"idle", "routing", "armed", "preloop", "clarity", "clarityPaused",
           "executing", "reviewing", "pausing", "ending", "saving",
           "checkpointing", "looped", "postloop", "recording", "appended",
           "returning", "resuming", "resumed"}

ReplyOutcomes == {"none", "success", "error", "needs_input", "invalid_spec",
                  "reminder", "raised"}

Pauses == [tok : Tokens, ref : Ids, reason : PauseReasons, turn : Nat,
           reviewer : ReviewerResults]

CallType ==
  [id : Ids \cup {0},              \* the delegation whose trace it writes
   kind : {"none", "delegate", "resume"},
   mode : Modes, fresh : BOOLEAN, answer : BOOLEAN,
   seen : Pauses \cup {NoPause},   \* the result of find_latest
   from : Tokens \cup {0},         \* the pause this call continues
   pkg : BOOLEAN,                  \* _use_pkg
   engine : BOOLEAN,               \* the local variable "engine" is bound
   ok : BOOLEAN,                   \* the last executor result succeeded
   outcome : ReplyOutcomes \cup {"escalated"},
   tok : Tokens \cup {0},          \* the pause this call saved
   logged : BOOLEAN]               \* the agent's event sink reaches the trace

NoCall ==
  [id |-> 0, kind |-> "none", mode |-> "implement", fresh |-> FALSE,
   answer |-> FALSE, seen |-> NoPause, from |-> 0, pkg |-> FALSE,
   engine |-> FALSE, ok |-> FALSE, outcome |-> "none", tok |-> 0, logged |-> FALSE]

NoReply == [outcome |-> "none", tok |-> 0, resumed |-> 0]

TypeOK ==
  /\ pc \in [Procs -> Labels]
  /\ call \in [Procs -> CallType]
  /\ agent \in [Procs -> AgentType(Ids)]
  /\ reply \in [Procs -> [outcome : ReplyOutcomes, tok : Tokens \cup {0},
                          resumed : Tokens \cup {0}]]
  /\ files \in SUBSET Pauses
  /\ expired \in SUBSET Tokens
  /\ checkpoint \in [del : Ids \cup {0}, reviewer : ReviewerResults]
  /\ projectState \in SUBSET Ids
  /\ records \in SUBSET [del : Ids, kind : {"complete", "interrupted"}]
  /\ trace \in [Ids -> [EventKinds -> Nat]]
  /\ nextDel \in 1..(MaxCalls + 1)
  /\ nextTok \in Nat \ {0}
  /\ crashes \in Nat
  /\ lost \in SUBSET [del : Ids, kind : {"delegate", "resume"}]

Init ==
  /\ pc = [p \in Procs |-> "idle"]
  /\ call = [p \in Procs |-> NoCall]
  /\ agent = [p \in Procs |-> NewAgent]
  /\ reply = [p \in Procs |-> NoReply]
  /\ files = {} /\ expired = {}
  /\ checkpoint = [del |-> 0, reviewer |-> "none"]
  /\ projectState = {}
  /\ records = {}
  /\ trace = [d \in Ids |-> [k \in EventKinds |-> 0]]
  /\ nextDel = 1 /\ nextTok = 1 /\ crashes = 0 /\ lost = {}

(***************************************************************************)
(* Helpers.                                                                *)
(***************************************************************************)
At(p, label) == pc[p] = label

Goto(p, label) == pc' = [pc EXCEPT ![p] = label]

SetAgent(p, a) == agent' = [agent EXCEPT ![p] = a]

\* The trace after the events "kinds" of process p's delegation.  A resumed
\* call whose delegation has no record has no event sink.
Emit(p, kinds) ==
  trace' = IF call[p].logged
             THEN [trace EXCEPT ![call[p].id] =
                     [k \in EventKinds |->
                        trace[call[p].id][k] + (IF k \in kinds THEN 1 ELSE 0)]]
             ELSE trace

Implement(p) == call[p].kind = "delegate" /\ call[p].mode = "implement"

\* The call is over: the handler's frame is gone, the host has the reply.
Finished(p, outcome, tok, resumed) ==
  /\ Goto(p, "idle")
  /\ call' = [call EXCEPT ![p] = NoCall]
  /\ reply' = [reply EXCEPT ![p] =
                 [outcome |-> outcome, tok |-> tok, resumed |-> resumed]]

(***************************************************************************)
(* Routing: read the latest pause, then act on what was read.  Arguments   *)
(* that no later step reads are forgotten as soon as they have been used.  *)
(***************************************************************************)
\* The call arrives, gets its delegation id and reads the paused states.
Arrive(p, mode, fresh, answer) ==
  /\ At(p, "idle")
  /\ nextDel <= MaxCalls
  /\ call' = [call EXCEPT ![p] =
                [NoCall EXCEPT !.id = nextDel, !.kind = "delegate",
                               !.mode = mode, !.fresh = fresh,
                               !.answer = answer, !.logged = TRUE,
                               !.seen = FindLatest(files, expired)]]
  /\ nextDel' = nextDel + 1
  /\ Goto(p, "routing")
  /\ UNCHANGED <<agent, reply, diskVars, nextTok, crashes, lost>>

\* start_fresh drops the pause that was seen, if any; no pause, no detour.
RouteFresh(p) ==
  /\ At(p, "routing")
  /\ call[p].fresh \/ call[p].seen = NoPause
  /\ files' = Abandon(files, call[p].seen)
  /\ call' = [call EXCEPT ![p].seen = NoPause, ![p].answer = FALSE]
  /\ Goto(p, "armed")
  /\ UNCHANGED <<agent, reply, expired, checkpoint, projectState, records,
                 trace, clockVars>>

\* A clarity pause is consumed and the preloop runs again.
RouteClarityReentry(p) ==
  /\ At(p, "routing")
  /\ ~call[p].fresh
  /\ call[p].seen.reason = "clarity_check"
  /\ files' = Abandon(files, call[p].seen)
  /\ call' = [call EXCEPT ![p].from = call[p].seen.tok,
                          ![p].seen = NoPause, ![p].answer = FALSE]
  /\ Goto(p, "armed")
  /\ UNCHANGED <<agent, reply, expired, checkpoint, projectState, records,
                 trace, clockVars>>

\* Mutant: one of the reasons has no route.
EscalationForgetsMaxTurns(pause) == pause.reason = "needs_input"

Escalation(pause) == pause.reason \in {"needs_input", "max_turns_reached"}

\* An escalation met without an answer: the host is reminded of the question.
RouteReminder(p) ==
  /\ At(p, "routing")
  /\ ~call[p].fresh /\ Escalation(call[p].seen) /\ ~call[p].answer
  /\ Finished(p, "reminder", call[p].seen.tok, 0)
  /\ UNCHANGED <<agent, diskVars, clockVars>>

(***************************************************************************)
(* _handle_resume, up to the executor of the resumed turn: the agent comes *)
(* out of the paused file and replaces the registry's, the envelope and    *)
(* the loop are announced.  The file stays where it is.                    *)
(***************************************************************************)
HasRecord(d) == \E r \in records : r.del = d

RouteResume(p) ==
  /\ At(p, "routing")
  /\ ~call[p].fresh /\ Escalation(call[p].seen) /\ call[p].answer
  /\ LET pause == call[p].seen
         a     == ResumedAgent(pause, projectState)
         kinds == {"lifecycle_start", "phase_start", "resumed",
                   "turn_start"} \cup BeginEvents(a)
     IN  /\ SetAgent(p, BeginTurn(Begin(a, projectState)))
         /\ call' = [call EXCEPT ![p] =
                       [NoCall EXCEPT !.id = pause.ref, !.kind = "resume",
                                      !.from = pause.tok,
                                      !.logged = HasRecord(pause.ref)]]
         /\ trace' = IF HasRecord(pause.ref)
                       THEN [trace EXCEPT ![pause.ref] =
                               [k \in EventKinds |-> trace[pause.ref][k]
                                  + (IF k \in kinds THEN 1 ELSE 0)]]
                       ELSE trace
  /\ Goto(p, "resuming")
  /\ UNCHANGED <<reply, files, expired, checkpoint, projectState, records,
                 clockVars>>

(***************************************************************************)
(* Preloop.                                                                *)
(***************************************************************************)
\* _get_or_create_supervisor: a missing agent is rebuilt from the checkpoint.
GetOrCreate(p) ==
  IF agent[p].cached THEN agent[p]
  ELSE [IF checkpoint.del = 0 THEN NewAgent
        ELSE RehydrateFrom(NewAgent, checkpoint.reviewer)
        EXCEPT !.cached = TRUE]

\* Implement mode opens the lifecycle envelope; review mode has none.
OpenEnvelope(p) ==
  /\ At(p, "armed")
  /\ Goto(p, "preloop")
  /\ IF Implement(p)
       THEN LET a == StartLifecycle(
                       BeginDelegation(GetOrCreate(p), call[p].id, MaxTurns))
            IN  /\ SetAgent(p, StartPhase(a, "preloop"))
                /\ Emit(p, {"lifecycle_start"} \cup PhaseEvent(a, "phase_start")
                           \cup (IF call[p].from # 0 THEN {"resumed"} ELSE {}))
       ELSE UNCHANGED <<agent, trace>>
  /\ UNCHANGED <<call, reply, files, expired, checkpoint, projectState,
                 records, clockVars>>

(***************************************************************************)
(* _close_lifecycle_once: in implement mode, end the phase in progress and *)
(* the envelope, unless it is closed.                                      *)
(***************************************************************************)
CloseLifecycleOnce(p) ==
  IF Implement(p) /\ ~agent[p].closed
    THEN /\ SetAgent(p, [EndLifecycle(agent[p]) EXCEPT !.open = {}])
         /\ Emit(p, EndLifecycleEvent(agent[p]) \cup
                    (IF agent[p].open = {} THEN {} ELSE {"phase_end"}))
    ELSE UNCHANGED <<agent, trace>>

\* spec_invalid_reason: the envelope closes, the executor never starts.
InvalidSpec(p) ==
  /\ At(p, "preloop")
  /\ CloseLifecycleOnce(p)
  /\ call' = [call EXCEPT ![p].outcome = "invalid_spec"]
  /\ Goto(p, "recording")
  /\ UNCHANGED <<reply, files, expired, checkpoint, projectState, records,
                 clockVars>>

\* review_target_files_error: review mode takes no target files.
ReviewTargetsError(p) ==
  /\ At(p, "preloop")
  /\ call[p].mode = "review"
  /\ call' = [call EXCEPT ![p].outcome = "error"]
  /\ Goto(p, "recording")
  /\ UNCHANGED <<agent, reply, diskVars, clockVars>>

\* The clarity check blocks and the sub-agent does not resolve it.
ClarityBlocks(p) ==
  /\ At(p, "preloop")
  /\ Implement(p)
  /\ Goto(p, "clarity")
  /\ UNCHANGED <<call, agent, reply, diskVars, clockVars>>

\* SupervisorState.create and save.
FilePause(p, reason, turn) ==
  /\ files' = files \cup
                {Pause(nextTok, call[p].id, reason, turn, agent[p].reviewer)}
  /\ nextTok' = nextTok + 1

SaveClarityPause(p) ==
  /\ At(p, "clarity")
  /\ FilePause(p, "clarity_check", 0)
  /\ call' = [call EXCEPT ![p].tok = nextTok]
  /\ Goto(p, "clarityPaused")
  /\ UNCHANGED <<agent, reply, expired, checkpoint, projectState, records,
                 trace, nextDel, crashes, lost>>

\* The save is best effort: the host gets its questions all the same.
ClarityPauseNotSaved(p) ==
  /\ At(p, "clarity")
  /\ "clarity_save" \in Faults
  /\ Goto(p, "clarityPaused")
  /\ UNCHANGED <<call, agent, reply, diskVars, clockVars>>

CloseForClarity(p) ==
  /\ At(p, "clarityPaused")
  /\ CloseLifecycleOnce(p)
  /\ call' = [call EXCEPT ![p].outcome = "needs_input"]
  /\ Goto(p, "recording")
  /\ UNCHANGED <<reply, files, expired, checkpoint, projectState, records,
                 clockVars>>

(***************************************************************************)
(* The gates are passed: close preloop, open loop, start the first turn.   *)
(* Review mode fetches the agent only here.  The context package is used   *)
(* in implement mode when there is a valid spec.                           *)
(***************************************************************************)
EnterLoop(p, pkg) ==
  /\ At(p, "preloop")
  /\ pkg => Implement(p)
  /\ LET moved == IF Implement(p)
                    THEN StartPhase(EndPhase(agent[p], "preloop"), "loop")
                    ELSE GetOrCreate(p)
         begun == BeginDelegation(moved, call[p].id, MaxTurns)
     IN  /\ SetAgent(p, BeginTurn(Begin(begun, projectState)))
         /\ Emit(p, (IF Implement(p)
                       THEN PhaseEvent(agent[p], "phase_end") \cup
                            PhaseEvent(agent[p], "phase_start")
                       ELSE {})
                    \cup BeginEvents(begun) \cup {"turn_start"})
  /\ call' = [call EXCEPT ![p].pkg = pkg, ![p].from = 0]
  /\ Goto(p, "executing")
  /\ UNCHANGED <<reply, files, expired, checkpoint, projectState, records,
                 clockVars>>

(***************************************************************************)
(* The supervisor loop.                                                    *)
(***************************************************************************)
\* The planner's decisions go to the agent's project state and, with all it
\* holds, to disk.
PlannerRecords(p) ==
  /\ At(p, "executing")
  /\ call[p].pkg /\ ~call[p].engine
  /\ call[p].id \notin agent[p].known
  /\ LET known == agent[p].known \cup {call[p].id}
     IN  /\ SetAgent(p, [agent[p] EXCEPT !.known = known])
         /\ projectState' = known
  /\ UNCHANGED <<pc, call, reply, files, expired, checkpoint, records, trace,
                 clockVars>>

\* The executor of any turn returns a result, good or bad.
ExecutorReturns(p, ok) ==
  /\ At(p, "executing")
  /\ call' = [call EXCEPT ![p].ok = ok, ![p].engine = TRUE]
  /\ Goto(p, "reviewing")
  /\ UNCHANGED <<agent, reply, diskVars, clockVars>>

\* The first turn raises, in the executor or, with "engine" still unbound, in
\* one of the context stages before get_engine: caught, an unsuccessful turn.
FirstTurnRaises(p, bound) ==
  /\ At(p, "executing")
  /\ agent[p].cur = 1
  /\ call' = [call EXCEPT ![p].ok = FALSE, ![p].engine = bound]
  /\ Goto(p, "reviewing")
  /\ UNCHANGED <<agent, reply, diskVars, clockVars>>

\* Where finish goes with its outcome: an escalation is saved first.
AfterLoop(outcome) == IF outcome = "escalated" THEN "pausing" ELSE "ending"

\* The loop is over with the agent's decision.
Conclude(p, a, ok) ==
  /\ call' = [call EXCEPT ![p].outcome = FinishOutcome(a, ok)]
  /\ Goto(p, AfterLoop(FinishOutcome(a, ok)))

\* A later turn raises: caught, straight to finish with the old decision.
RetryRaises(p) ==
  /\ At(p, "executing")
  /\ agent[p].cur > 1
  /\ Conclude(p, agent[p], call[p].ok)
  /\ UNCHANGED <<agent, reply, diskVars, clockVars>>

\* The verdicts a reviewer pass can give: it runs only on a successful turn of
\* an implement call.
Verdicts(p) ==
  IF Implement(p) /\ call[p].ok
    THEN {"clean", "issues"} ELSE {"clean"}

WantsRerun(p, a, decision) ==
  decision = "rerun_aider" /\ Implement(p) /\ CanRerun(a)

(***************************************************************************)
(* The reviewer's findings on the first turn enter the project state; the  *)
(* turn is completed and the supervisor decides.  A rerun starts the next  *)
(* turn at once; without the context package there is no engine to rerun   *)
(* and the loop ends instead.                                              *)
(***************************************************************************)
CompleteTheTurn(p, verdict, decision) ==
  /\ At(p, "reviewing")
  /\ call[p].engine \/ ~call[p].pkg
  /\ verdict \in Verdicts(p)
  /\ LET known == IF verdict = "issues" /\ agent[p].cur = 1
                    THEN agent[p].known \cup {call[p].id} ELSE agent[p].known
         seen  == [agent[p] EXCEPT !.known = known,
                     !.reviewer = IF Implement(p) THEN verdict ELSE @]
         a     == CompleteTurn(seen, decision)
         rerun == WantsRerun(p, a, decision)
     IN  /\ decision \in PossibleDecisions(seen, verdict, LLMDecides)
         /\ SetAgent(p, IF rerun THEN BeginTurn(a) ELSE a)
         /\ Emit(p, {"turn_end"} \cup (IF rerun THEN {"turn_start"} ELSE {}))
         /\ IF rerun /\ call[p].pkg
              THEN Goto(p, "executing") /\ UNCHANGED call
              ELSE Conclude(p, a, call[p].ok)
  /\ UNCHANGED <<reply, files, expired, checkpoint, projectState, records,
                 clockVars>>

(***************************************************************************)
(* finish: an escalation is saved first, then loop_end is emitted, then    *)
(* the project state is saved (ProjectState.save writes the whole object), *)
(* then the agent is checkpointed.                                         *)
(***************************************************************************)
SavePause(p) ==
  /\ At(p, "pausing")
  /\ FilePause(p, PauseReason(agent[p]), agent[p].cur)
  /\ call' = [call EXCEPT ![p].tok = nextTok]
  /\ Goto(p, "ending")
  /\ UNCHANGED <<agent, reply, expired, checkpoint, projectState, records,
                 trace, nextDel, crashes, lost>>

EndTheLoop(p) ==
  /\ At(p, "ending")
  /\ SetAgent(p, EndLoop(agent[p]))
  /\ Emit(p, EndLoopEvents(agent[p]))
  /\ Goto(p, "saving")
  /\ UNCHANGED <<call, reply, files, expired, checkpoint, projectState,
                 records, clockVars>>

SaveProjectState(p) ==
  /\ At(p, "saving")
  /\ projectState' = agent[p].known
  /\ Goto(p, "checkpointing")
  /\ UNCHANGED <<call, agent, reply, files, expired, checkpoint, records,
                 trace, clockVars>>

\* finish returns to the handler that drove the loop.
LeaveLoop(p) == Goto(p, IF call[p].kind = "resume" THEN "resumed" ELSE "looped")

SaveCheckpoint(p) ==
  /\ At(p, "checkpointing")
  /\ checkpoint' = [del |-> call[p].id, reviewer |-> agent[p].reviewer]
  /\ LeaveLoop(p)
  /\ UNCHANGED <<call, agent, reply, files, expired, projectState, records,
                 trace, clockVars>>

\* The checkpoint is best effort, and an agent that never had an envelope may
\* lack the project key to file it under.
CheckpointNotSaved(p) ==
  /\ At(p, "checkpointing")
  /\ \/ "checkpoint_save" \in Faults
     \/ call[p].mode = "review" /\ ~agent[p].started
  /\ LeaveLoop(p)
  /\ UNCHANGED <<call, agent, reply, diskVars, clockVars>>

(***************************************************************************)
(* Postloop: loop ends, postloop starts; gateway, report and verification; *)
(* postloop and the envelope end; the record is appended, the session file *)
(* touched and the mirrors written; the host gets its answer.              *)
(***************************************************************************)
StartPostloop(p) ==
  /\ At(p, "looped")
  /\ IF Implement(p)
       THEN /\ SetAgent(p, StartPhase(EndPhase(agent[p], "loop"), "postloop"))
            /\ Emit(p, PhaseEvent(agent[p], "phase_end") \cup
                       PhaseEvent(agent[p], "phase_start"))
       ELSE UNCHANGED <<agent, trace>>
  /\ Goto(p, "postloop")
  /\ UNCHANGED <<call, reply, files, expired, checkpoint, projectState,
                 records, clockVars>>

FinishPostloop(p) ==
  /\ At(p, "postloop")
  /\ CloseLifecycleOnce(p)
  /\ call' = [call EXCEPT ![p].outcome =
                IF @ = "escalated" THEN "needs_input" ELSE @]
  /\ Goto(p, "recording")
  /\ UNCHANGED <<reply, files, expired, checkpoint, projectState, records,
                 clockVars>>

\* Mutant: a delegation stopped by its specification is not recorded.
AppendRecordOfValidSpec(p) ==
  /\ At(p, "recording")
  /\ records' = IF call[p].outcome = "invalid_spec" THEN records
                ELSE records \cup {[del |-> call[p].id, kind |-> "complete"]}
  /\ Goto(p, "appended")
  /\ UNCHANGED <<call, agent, reply, files, expired, checkpoint, projectState,
                 trace, clockVars>>

\* append_delegation_record writes the row of the log first.
AppendRecord(p) ==
  /\ At(p, "recording")
  /\ records' = records \cup {[del |-> call[p].id, kind |-> "complete"]}
  /\ Goto(p, "appended")
  /\ UNCHANGED <<call, agent, reply, files, expired, checkpoint, projectState,
                 trace, clockVars>>

\* It goes on to session.json (in Sessions) and the mirrors; only when it has
\* returned does the handler note that the record is there.
TouchSession(p) ==
  /\ At(p, "appended")
  /\ Goto(p, "returning")
  /\ UNCHANGED <<call, agent, reply, diskVars, clockVars>>

Return(p) ==
  /\ At(p, "returning")
  /\ Finished(p, call[p].outcome, call[p].tok, 0)
  /\ UNCHANGED <<agent, diskVars, clockVars>>

(***************************************************************************)
(* The resumed turn.  SupervisorAgent.run allows exactly one, has no       *)
(* reviewer, and turns an executor exception into an error outcome that    *)
(* pauses nothing.                                                         *)
(***************************************************************************)
ResumedTurn(p, ok, decision) ==
  /\ At(p, "resuming")
  /\ decision \in PossibleDecisions(agent[p], "none", LLMDecides)
  /\ LET a == CompleteTurn(agent[p], decision)
     IN  SetAgent(p, a) /\ Conclude(p, a, ok)
  /\ Emit(p, {"turn_end"})
  /\ UNCHANGED <<reply, files, expired, checkpoint, projectState, records,
                 clockVars>>

ResumedTurnRaises(p) ==
  /\ At(p, "resuming")
  /\ call' = [call EXCEPT ![p].outcome = "error"]
  /\ Emit(p, {"turn_end"})
  /\ Goto(p, "ending")
  /\ UNCHANGED <<agent, reply, files, expired, checkpoint, projectState,
                 records, clockVars>>

\* The handler closes the loop phase and the envelope and answers; no record.
CloseResume(p) ==
  /\ At(p, "resumed")
  /\ SetAgent(p, EndLifecycle(EndPhase(agent[p], "loop")))
  /\ Emit(p, PhaseEvent(agent[p], "phase_end") \cup EndLifecycleEvent(agent[p]))
  /\ Finished(p, IF call[p].outcome = "escalated"
                   THEN "needs_input" ELSE call[p].outcome,
              call[p].tok, call[p].from)
  /\ UNCHANGED <<files, expired, checkpoint, projectState, records, clockVars>>

(***************************************************************************)
(* Exceptions that leave the handler.                                      *)
(***************************************************************************)
\* Mutant: no interrupted record once the executor has run.
InterruptedRecordOnlyEarly(p) ==
  IF At(p, "preloop")
    THEN {[del |-> call[p].id, kind |-> "interrupted"]} ELSE {}

\* The record of the finally block: not before the envelope's bookkeeping
\* exists, and not once the real record is known to be there.  A call that
\* raises between its row and that note gets a second row.
InterruptedRecord(p) ==
  IF pc[p] \in {"armed", "returning"} THEN {}
  ELSE {[del |-> call[p].id, kind |-> "interrupted"]}

\* The stages whose file I/O may raise, and where each is in the call.
MayRaise(p) ==
  \/ At(p, "armed")     /\ "preloop" \in Faults
  \/ At(p, "preloop")   /\ "preloop" \in Faults
  \/ At(p, "pausing")   /\ "pause_save" \in Faults
  \/ At(p, "saving")    /\ "state_save" \in Faults
  \/ At(p, "postloop")  /\ "postloop" \in Faults
  \/ At(p, "recording") /\ "postloop" \in Faults
  \/ At(p, "appended")  /\ "touch" \in Faults
  \/ At(p, "returning") /\ "after_record" \in Faults
  \* "_retry_engine = engine if _use_pkg else None" with engine unbound
  \/ At(p, "reviewing") /\ call[p].pkg /\ ~call[p].engine

\* delegate_to_agent's finally block.
DelegateRaises(p) ==
  /\ call[p].kind = "delegate"
  /\ MayRaise(p)
  /\ IF pc[p] \in {"armed", "returning"}
       THEN UNCHANGED <<agent, trace>>
       ELSE CloseLifecycleOnce(p)
  /\ records' = records \cup InterruptedRecord(p)
  /\ Finished(p, "raised", 0, 0)
  /\ UNCHANGED <<files, expired, checkpoint, projectState, clockVars>>

\* run's finally emits a missing loop_end, _handle_resume closes the envelope.
ResumeRaises(p) ==
  /\ call[p].kind = "resume"
  /\ MayRaise(p)
  /\ SetAgent(p, EndLifecycle(EndPhase(EndLoop(agent[p]), "loop")))
  /\ Emit(p, EndLoopEvents(agent[p]) \cup PhaseEvent(agent[p], "phase_end")
             \cup EndLifecycleEvent(agent[p]))
  /\ Finished(p, "raised", 0, call[p].from)
  /\ UNCHANGED <<files, expired, checkpoint, projectState, records, clockVars>>

(***************************************************************************)
(* The environment: a process dies and starts again; a pause expires.      *)
(***************************************************************************)
Crash(p) ==
  /\ crashes < MaxCrashes
  /\ crashes' = crashes + 1
  /\ lost' = IF At(p, "idle") THEN lost
             ELSE lost \cup {[del |-> call[p].id, kind |-> call[p].kind]}
  /\ Goto(p, "idle")
  /\ call' = [call EXCEPT ![p] = NoCall]
  /\ reply' = [reply EXCEPT ![p] = NoReply]
  /\ SetAgent(p, NewAgent)
  /\ UNCHANGED <<diskVars, nextDel, nextTok>>

Expire(f) ==
  /\ f \in Live(files, expired)
  /\ \A g \in Live(files, expired) : f.tok <= g.tok
  /\ expired' = expired \cup {f.tok}
  /\ UNCHANGED <<procVars, files, checkpoint, projectState, records, trace,
                 clockVars>>

(***************************************************************************)
(* The specification.                                                      *)
(***************************************************************************)
Preloop(p) ==
  \/ OpenEnvelope(p) \/ InvalidSpec(p) \/ ReviewTargetsError(p)
  \/ ClarityBlocks(p) \/ SaveClarityPause(p) \/ ClarityPauseNotSaved(p)
  \/ CloseForClarity(p)
  \/ \E pkg \in BOOLEAN : EnterLoop(p, pkg)

Loop(p) ==
  \/ \E ok \in BOOLEAN : ExecutorReturns(p, ok)
  \/ \E bound \in BOOLEAN : FirstTurnRaises(p, bound)
  \/ RetryRaises(p)
  \/ \E verdict \in ReviewerResults, decision \in Decisions :
       CompleteTheTurn(p, verdict, decision)
  \/ SavePause(p) \/ EndTheLoop(p) \/ SaveProjectState(p)
  \/ SaveCheckpoint(p) \/ CheckpointNotSaved(p)

Postloop(p) ==
  \/ StartPostloop(p) \/ FinishPostloop(p) \/ AppendRecord(p)
  \/ TouchSession(p) \/ Return(p)

Routing(p) ==
  \/ RouteFresh(p) \/ RouteClarityReentry(p) \/ RouteReminder(p)
  \/ RouteResume(p)

Resumption(p) ==
  \/ \E ok \in BOOLEAN, decision \in Decisions : ResumedTurn(p, ok, decision)
  \/ ResumedTurnRaises(p) \/ CloseResume(p)

\* A step of the handler, with or without an exception.
Step(p) ==
  \/ Routing(p) \/ Preloop(p) \/ Loop(p) \/ Postloop(p) \/ Resumption(p)
  \/ DelegateRaises(p) \/ ResumeRaises(p)

Next ==
  \/ \E p \in Procs :
       \/ \E mode \in Modes, fresh \in BOOLEAN, answer \in BOOLEAN :
            Arrive(p, mode, fresh, answer)
       \/ Step(p)
       \/ PlannerRecords(p)
       \/ Crash(p)
  \/ \E f \in files : Expire(f)

Spec == Init /\ [][Next]_vars

\* A call that has started goes on: the executor and every LLM call have
\* timeouts, nothing else blocks.  Calls, crashes and expiry are the
\* environment's.
FairSpec == Spec /\ \A p \in Procs : WF_vars(Step(p))

-----------------------------------------------------------------------------
(***************************************************************************)
(* Properties.                                                             *)
(***************************************************************************)
\* The processes that work on delegation d.
Working(d) == {p \in Procs : pc[p] # "idle" /\ call[p].id = d}

\* A process died while it worked on d.
Broken(d) == \E l \in lost : l.del = d

\* Every lifecycle envelope and every phase that was opened in a delegation's
\* trace is closed once nobody works on it, whichever way the call ended (early
\* gate, pause, exception, resume), unless its process died in the middle.
EnvelopesClose ==
  \A d \in Ids :
    (Working(d) = {} /\ ~Broken(d)) =>
      /\ trace[d]["lifecycle_start"] = trace[d]["lifecycle_end"]
      /\ trace[d]["phase_start"] = trace[d]["phase_end"]

\* The kinds of the records a delegation has.
RecordKinds(d) == {r.kind : r \in {s \in records : s.del = d}}

\* What the log says of a delegation agrees with what its host was told: one that
\* was answered has its complete record and no other, by whichever gate, pause or
\* turn the answer came, and one that ended in an exception after its envelope
\* was opened has some record.  (A call that only reminds has no record.)
RepliesMatchRecords ==
  [][\A p \in Procs, d \in Ids :
       (/\ call[p].kind = "delegate" /\ call[p].id = d
        /\ pc[p] \notin {"idle", "routing"}
        /\ pc'[p] = "idle" /\ crashes' = crashes)
         => IF reply'[p].outcome = "raised"
              THEN At(p, "armed") \/ RecordKinds(d)' # {}
              ELSE RecordKinds(d)' = {"complete"}]_vars

\* The supervisor never runs more turns than max_turns in the loop it started
\* with, plus one for every loop a resume announced, reruns included.
TurnsBounded ==
  \A d \in Ids :
    trace[d]["turn_start"] > 0 =>
      trace[d]["turn_start"] <= MaxTurns + trace[d]["loop_start"] - 1

\* An unexpired clarity pause is the newest pause: nothing is ever filed over it,
\* so the next call is routed to it and consumes it.  (One process.)
ClarityPauseIsNewest ==
  \A f \in Live(files, expired), g \in files :
    f.reason = "clarity_check" => g.tok <= f.tok

\* The host that was last asked a question by pause t (needs_input, or the
\* reminder) finds exactly that pause with its next call, while t has not
\* expired: an answer never reaches another question.  (One process.)
AnswerReachesItsQuestion ==
  [][\A p \in Procs :
       (/\ At(p, "idle") /\ pc'[p] = "routing"
        /\ reply[p].tok # 0 /\ reply[p].tok \notin expired)
         => call'[p].seen.tok = reply[p].tok]_vars

\* What project_state.json holds of a delegation's decisions and risks no later
\* save loses, although each save writes the agent's in-memory copy over the
\* file.  (One process.)
ProjectMemoryKept == [][projectState \subseteq projectState']_vars

\* A tool call returns to its host, whatever happens in it.
EveryCallReturns ==
  \A p \in Procs : (pc[p] # "idle") ~> (pc[p] = "idle")

(***************************************************************************)
(* What documents and comments of the repository say and the code does not *)
(* do; TLC finds a counterexample to each.                                 *)
(***************************************************************************)
\* docs/PHASES.md:101: "Each tool invocation produces exactly one delegation
\* record, written at end of call (or on failure)".  When what follows the row
\* raises, the finally block adds an "interrupted" one to it.
RecordsUnique == \A r, s \in records : r.del = s.del => r = s

\* A pause is consumed on resume: once the resumed turn ended without a further
\* question, the file it was resumed from is no longer there.
PauseConsumedOnResume ==
  \A p \in Procs :
    (reply[p].resumed # 0 /\ reply[p].outcome = "success")
      => \A f \in Live(files, expired) : f.tok # reply[p].resumed

\* start_fresh abandons the paused state: nothing is pending when the fresh
\* delegation starts.
FreshStartIsFresh ==
  \A p \in Procs :
    (At(p, "armed") /\ call[p].fresh) => Live(files, expired) = {}

\* Exactly one loop_end for every loop that was announced.
LoopsEnd ==
  \A d \in Ids :
    (Working(d) = {} /\ ~Broken(d)) => trace[d]["loop_start"] = trace[d]["loop_end"]

\* The lifecycle state of a delegation is reset with it: before its own reviewer
\* pass an envelope carries no reviewer result.
ReviewerResultIsOwn ==
  \A p \in Procs :
    (At(p, "preloop") /\ Implement(p)) => agent[p].reviewer = "none"

\* An agent rebuilt from the checkpoint continues with the lifecycle context the
\* checkpoint holds.
CheckpointContextSurvives ==
  \A p \in Procs :
    (At(p, "preloop") /\ Implement(p) /\ checkpoint.del # 0)
      => agent[p].reviewer = checkpoint.reviewer

\* A pause that reports max_turns_reached was taken when the turns were
\* exhausted.
MaxTurnsMeansExhausted ==
  \A f \in files : f.reason = "max_turns_reached" => f.turn >= MaxTurns

(***************************************************************************)
(* The ledger of delegations that the trace tree and delegations.jsonl     *)
(* keep together (DelegationLedger.tla).  A delegation is open from its    *)
(* first trace event on while its own call runs.                           *)
(***************************************************************************)
Traced(d) == trace[d]["lifecycle_start"] > 0 \/ trace[d]["loop_start"] > 0

Recorded == {d \in Ids : HasRecord(d)}

LostOpen ==
  {d \in Ids \ Recorded : Traced(d) /\ [del |-> d, kind |-> "delegate"] \in lost}

OpenIds ==
  {d \in Ids \ Recorded :
     Traced(d) /\ \E p \in Working(d) : call[p].kind = "delegate"}

Ledger == INSTANCE DelegationLedger
            WITH open <- OpenIds, done <- Recorded, gone <- LostOpen

\* Every delegation that has a trace ends with a record or with the death of its
\* process, never silently.
LedgerKept == Ledger!Spec
=============================================================================
