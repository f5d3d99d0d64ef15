--------------------------- MODULE DelegationProofs ---------------------------
(***************************************************************************)
(* Theorems about Delegation, for every number of processes, calls, turns  *)
(* and crashes: the type invariant and, for a single process, what the     *)
(* agent's memory and the newest pause owe to the host.                    *)
(***************************************************************************)
EXTENDS Delegation, TLAPS

\* Where a call stands tells whose code runs: delegate_to_agent's own body, the
\* part _finish shares, or _handle_resume.
OwnLabels    == {"routing", "armed", "preloop", "clarity", "clarityPaused",
                 "executing", "reviewing", "looped", "postloop", "recording",
                 "appended", "returning"}
FinishLabels == {"pausing", "ending", "saving", "checkpointing"}
ResumeLabels == {"resuming", "resumed"}

\* An escalation has become the host's needs_input before the record is written.
ClosedLabels == {"recording", "appended", "returning"}

CallKinds ==
  \A p \in Procs :
    /\ pc[p] \in OwnLabels => call[p].kind = "delegate"
    /\ pc[p] \in ResumeLabels => call[p].kind = "resume"
    /\ pc[p] \in FinishLabels => call[p].kind \in {"delegate", "resume"}
    /\ pc[p] # "idle" => call[p].id \in Ids
    /\ pc[p] \in ClosedLabels => call[p].outcome # "escalated"

\* The type invariant with what it needs to be inductive.
TypeInv == TypeOK /\ CallKinds

-----------------------------------------------------------------------------
(***************************************************************************)
(* Types of the operators the actions are built from.                      *)
(***************************************************************************)
\* A call record is in CallType whichever way it comes out of NoCall.
LEMMA NoCallType == NoCall \in CallType
  BY DEF NoCall, CallType, Modes, ReplyOutcomes, NoPause

LEMMA NewAgentType == NewAgent \in AgentType(Ids)
  BY DEF NewAgent, AgentType, Decisions, Phases, ReviewerResults

\* find_latest returns one of the files or nothing.
LEMMA FindLatestType ==
  ASSUME files \in SUBSET Pauses
  PROVE  FindLatest(files, expired) \in Pauses \cup {NoPause}
  BY DEF FindLatest, Live

\* Loading the project state, and counting a turn, keep the agent well typed.
LEMMA BeginType ==
  ASSUME NEW a \in AgentType(Ids), NEW onDisk \in SUBSET Ids
  PROVE  Begin(a, onDisk) \in AgentType(Ids)
  BY DEF AgentType, Begin

LEMMA BeginTurnType ==
  ASSUME NEW a \in AgentType(Ids)
  PROVE  BeginTurn(a) \in AgentType(Ids)
<1>1. a.cur + 1 \in Nat
  BY DEF AgentType
<1> QED
  BY <1>1 DEF AgentType, BeginTurn

\* So do the other methods.
LEMMA AgentMethodTypes ==
  ASSUME NEW a \in AgentType(Ids), NEW d \in Ids, NEW phase \in Phases,
         NEW turns \in Nat, NEW decision \in Decisions
  PROVE  /\ BeginDelegation(a, d, turns) \in AgentType(Ids)
         /\ StartLifecycle(a) \in AgentType(Ids)
         /\ StartPhase(a, phase) \in AgentType(Ids)
         /\ EndPhase(a, phase) \in AgentType(Ids)
         /\ EndLifecycle(a) \in AgentType(Ids)
         /\ CompleteTurn(a, decision) \in AgentType(Ids)
         /\ EndLoop(a) \in AgentType(Ids)
<1>1. ResetLifecycle(a) \in AgentType(Ids)
  <2> DEFINE open     == IF a.closed \/ ~a.started THEN {} ELSE a.open
             reviewer == IF ~a.closed /\ ~a.started THEN "none" ELSE a.reviewer
  <2>1. open \in SUBSET Phases /\ reviewer \in ReviewerResults
    BY DEF AgentType, ReviewerResults
  <2>2. ResetLifecycle(a) = [a EXCEPT !.open = open, !.reviewer = reviewer, !.closed = FALSE]
    BY DEF ResetLifecycle
  <2> HIDE DEF open, reviewer
  <2>3. [a EXCEPT !.open = open, !.reviewer = reviewer, !.closed = FALSE] \in AgentType(Ids)
    BY <2>1 DEF AgentType
  <2> QED
    BY <2>2, <2>3
<1>2. BeginDelegation(a, d, turns) \in AgentType(Ids)
  BY <1>1 DEF AgentType, BeginDelegation
<1>3. StartLifecycle(a) \in AgentType(Ids) /\ EndLifecycle(a) \in AgentType(Ids)
  BY DEF AgentType, StartLifecycle, EndLifecycle
<1>4. StartPhase(a, phase) \in AgentType(Ids)
  BY DEF AgentType, StartPhase
<1>5. EndPhase(a, phase) \in AgentType(Ids)
  BY DEF AgentType, EndPhase
<1>6. EndLoop(a) \in AgentType(Ids)
  BY DEF AgentType, EndLoop
<1>7. CompleteTurn(a, decision) \in AgentType(Ids)
  BY DEF AgentType, CompleteTurn
<1> QED
  BY <1>2, <1>3, <1>4, <1>5, <1>6, <1>7

\* Ending a phase and the envelope keeps the agent well typed.
LEMMA EndedAgentType ==
  ASSUME NEW a \in AgentType(Ids), NEW phase
  PROVE  EndLifecycle(EndPhase(a, phase)) \in AgentType(Ids)
<1>1. EndPhase(a, phase) \in AgentType(Ids)
  BY DEF EndPhase, AgentType
<1> QED
  BY <1>1 DEF EndLifecycle, AgentType

\* ResumedAgent builds a well-typed agent from a well-typed pause.
LEMMA ResumedAgentType ==
  ASSUME NEW pause \in Pauses, NEW onDisk \in SUBSET Ids
  PROVE  ResumedAgent(pause, onDisk) \in AgentType(Ids)
<1>1. pause.turn + 1 \in Nat /\ pause.turn \in Nat /\ pause.ref \in Ids
  BY DEF Pauses
<1>2. pause.reviewer \in ReviewerResults
  BY DEF Pauses
<1> QED
  BY <1>1, <1>2, NewAgentType
     DEF ResumedAgent, AgentType, NewAgent, Phases, Decisions

\* The agent a call gets from the registry or from the checkpoint.
LEMMA GetOrCreateType ==
  ASSUME TypeOK, NEW p \in Procs
  PROVE  GetOrCreate(p) \in AgentType(Ids)
<1>1. agent[p] \in AgentType(Ids) /\ checkpoint.reviewer \in ReviewerResults
  BY DEF TypeOK
<1>2. RehydrateFrom(NewAgent, checkpoint.reviewer) \in AgentType(Ids)
  BY <1>1, NewAgentType DEF RehydrateFrom, AgentType
<1>3. \A a \in AgentType(Ids) : [a EXCEPT !.cached = TRUE] \in AgentType(Ids)
  BY DEF AgentType
<1>4. (IF checkpoint.del = 0 THEN NewAgent ELSE RehydrateFrom(NewAgent, checkpoint.reviewer))
        \in AgentType(Ids)
  BY <1>2, NewAgentType
<1> QED
  BY <1>1, <1>3, <1>4 DEF GetOrCreate

\* The trace stays a trace whatever is emitted.
LEMMA EmitType ==
  ASSUME TypeOK, NEW p \in Procs, call[p].id \in Ids, NEW kinds,
         Emit(p, kinds)
  PROVE  trace' \in [Ids -> [EventKinds -> Nat]]
<1>1. [k \in EventKinds |->
         trace[call[p].id][k] + (IF k \in kinds THEN 1 ELSE 0)]
        \in [EventKinds -> Nat]
  BY DEF TypeOK
<1> QED
  BY <1>1 DEF Emit, TypeOK

\* FilePause adds a well-typed file.
LEMMA FilePauseType ==
  ASSUME TypeOK, NEW p \in Procs, call[p].id \in Ids,
         NEW reason \in PauseReasons, NEW turn \in Nat,
         FilePause(p, reason, turn)
  PROVE  /\ files' \in SUBSET Pauses
         /\ nextTok \in Tokens
         /\ nextTok' \in Nat \ {0}
<1>1. nextTok \in Tokens /\ nextTok + 1 \in Nat \ {0}
  BY DEF TypeOK, Tokens
<1>2. agent[p].reviewer \in ReviewerResults
  BY DEF TypeOK, AgentType
<1>3. Pause(nextTok, call[p].id, reason, turn, agent[p].reviewer) \in Pauses
  BY <1>1, <1>2 DEF Pause, Pauses
<1> QED
  BY <1>1, <1>3 DEF FilePause, TypeOK

\* Closing the envelope keeps agent and trace well typed.
LEMMA CloseOnceType ==
  ASSUME TypeOK, NEW p \in Procs, call[p].id \in Ids, CloseLifecycleOnce(p)
  PROVE  /\ agent' \in [Procs -> AgentType(Ids)]
         /\ trace' \in [Ids -> [EventKinds -> Nat]]
<1>1. CASE Implement(p) /\ ~agent[p].closed
  <2>1. [EndLifecycle(agent[p]) EXCEPT !.open = {}] \in AgentType(Ids)
    <3>1. agent[p] \in AgentType(Ids)
      BY DEF TypeOK
    <3> QED
      BY <3>1 DEF EndLifecycle, AgentType
  <2>2. agent' \in [Procs -> AgentType(Ids)]
    BY <1>1, <2>1 DEF CloseLifecycleOnce, SetAgent, TypeOK
  <2> QED
    BY <1>1, <2>2, EmitType DEF CloseLifecycleOnce
<1>2. CASE ~(Implement(p) /\ ~agent[p].closed)
  BY <1>2 DEF CloseLifecycleOnce, TypeOK
<1> QED
  BY <1>1, <1>2

\* Concluding the loop goes to a label of _finish, with an outcome.
LEMMA ConcludeType ==
  ASSUME TypeInv, NEW p \in Procs, NEW a \in AgentType(Ids), NEW ok \in BOOLEAN,
         call[p].kind \in {"delegate", "resume"}, call[p].id \in Ids,
         Conclude(p, a, ok)
  PROVE  /\ pc' \in [Procs -> Labels]
         /\ call' \in [Procs -> CallType]
         /\ CallKinds'
<1>1. FinishOutcome(a, ok) \in {"success", "error", "escalated"}
  BY DEF FinishOutcome
<1>2. call[p] \in CallType
  BY DEF TypeInv, TypeOK
<1>3. [call[p] EXCEPT !.outcome = FinishOutcome(a, ok)] \in CallType
  BY <1>1, <1>2 DEF CallType, ReplyOutcomes
<1>4. call' = [call EXCEPT ![p] = [call[p] EXCEPT !.outcome = FinishOutcome(a, ok)]]
  BY DEF Conclude
<1>5. call' \in [Procs -> CallType]
  BY <1>3, <1>4 DEF TypeInv, TypeOK
<1>6. AfterLoop(FinishOutcome(a, ok)) \in FinishLabels
  BY DEF AfterLoop, FinishLabels
<1>7. pc' = [pc EXCEPT ![p] = AfterLoop(FinishOutcome(a, ok))]
  BY DEF Conclude, Goto
<1>8. pc' \in [Procs -> Labels]
  BY <1>6, <1>7 DEF TypeInv, TypeOK, FinishLabels, Labels
<1>9. CallKinds'
  BY <1>2, <1>4, <1>6, <1>7
     DEF TypeInv, TypeOK, CallKinds, CallType, FinishLabels, OwnLabels, ResumeLabels, ClosedLabels
<1> QED
  BY <1>5, <1>8, <1>9

\* A step within a call: the process moves to a label that fits the kind of its
\* call and changes other local variables.
LEMMA MoveType ==
  ASSUME TypeInv, NEW p \in Procs, NEW label \in Labels, NEW c \in CallType,
         Goto(p, label), call' = [call EXCEPT ![p] = c],
         c.id \in Ids, c.kind \in {"delegate", "resume"},
         label \in OwnLabels => c.kind = "delegate",
         label \in ResumeLabels => c.kind = "resume",
         label \in ClosedLabels => c.outcome # "escalated"
  PROVE  /\ pc' \in [Procs -> Labels]
         /\ call' \in [Procs -> CallType]
         /\ CallKinds'
<1>1. pc' = [pc EXCEPT ![p] = label]
  BY DEF Goto
<1> QED
  BY <1>1 DEF TypeInv, TypeOK, CallKinds

\* The same without a change of the local variables.
LEMMA StayType ==
  ASSUME TypeInv, NEW p \in Procs, NEW label \in Labels,
         Goto(p, label), UNCHANGED call,
         call[p].id \in Ids, call[p].kind \in {"delegate", "resume"},
         label \in OwnLabels => call[p].kind = "delegate",
         label \in ResumeLabels => call[p].kind = "resume",
         label \in ClosedLabels => call[p].outcome # "escalated"
  PROVE  /\ pc' \in [Procs -> Labels]
         /\ call' \in [Procs -> CallType]
         /\ CallKinds'
<1>1. pc' = [pc EXCEPT ![p] = label]
  BY DEF Goto
<1> QED
  BY <1>1 DEF TypeInv, TypeOK, CallKinds

\* A finished call leaves an idle process and a reply.
LEMMA FinishedType ==
  ASSUME TypeInv, NEW p \in Procs, NEW outcome \in ReplyOutcomes,
         NEW tok \in Tokens \cup {0}, NEW resumed \in Tokens \cup {0},
         Finished(p, outcome, tok, resumed)
  PROVE  /\ pc' \in [Procs -> Labels]
         /\ call' \in [Procs -> CallType]
         /\ reply' \in [Procs -> [outcome : ReplyOutcomes, tok : Tokens \cup {0},
                                  resumed : Tokens \cup {0}]]
         /\ CallKinds'
<1>1. pc' = [pc EXCEPT ![p] = "idle"] /\ call' = [call EXCEPT ![p] = NoCall]
  BY DEF Finished, Goto
<1>2. reply' \in [Procs -> [outcome : ReplyOutcomes, tok : Tokens \cup {0},
                           resumed : Tokens \cup {0}]]
  BY DEF Finished, TypeInv, TypeOK
<1>3. pc' \in [Procs -> Labels] /\ call' \in [Procs -> CallType]
  BY <1>1, NoCallType DEF TypeInv, TypeOK, Labels
<1>4. CallKinds'
  BY <1>1 DEF TypeInv, TypeOK, CallKinds, OwnLabels, FinishLabels, ResumeLabels, ClosedLabels
<1> QED
  BY <1>2, <1>3, <1>4

-----------------------------------------------------------------------------
(***************************************************************************)
(* The type invariant is inductive: one lemma per group of actions.        *)
(***************************************************************************)
LEMMA TypeInit == Init => TypeInv
<1> SUFFICES ASSUME Init PROVE TypeInv
  OBVIOUS
<1>1. 1 \in 1..(MaxCalls + 1)
  BY BoundsAssumption
<1>2. trace \in [Ids -> [EventKinds -> Nat]]
  BY DEF Init
<1>3. call \in [Procs -> CallType] /\ agent \in [Procs -> AgentType(Ids)]
  BY NoCallType, NewAgentType DEF Init
<1>4. TypeOK
  BY <1>1, <1>2, <1>3 DEF Init, TypeOK, Labels, NoReply, ReplyOutcomes, ReviewerResults
<1>5. CallKinds
  BY DEF Init, CallKinds, OwnLabels, ResumeLabels, FinishLabels, ClosedLabels
<1> QED
  BY <1>4, <1>5 DEF TypeInv

LEMMA RoutingTypes ==
  ASSUME TypeInv, NEW p \in Procs, NEW mode \in Modes,
         NEW fresh \in BOOLEAN, NEW answer \in BOOLEAN,
         Arrive(p, mode, fresh, answer) \/ Routing(p)
  PROVE  TypeInv'
<1> USE DEF TypeInv
<1>0. /\ call[p] \in CallType /\ agent[p] \in AgentType(Ids)
      /\ call[p].seen \in Pauses \cup {NoPause}
  BY DEF TypeOK, CallType
<1>1. CASE Arrive(p, mode, fresh, answer)
  <2>1. nextDel \in Ids /\ nextDel + 1 \in 1..(MaxCalls + 1)
    BY <1>1, BoundsAssumption DEF Arrive, TypeOK, Ids
  <2>2. FindLatest(files, expired) \in Pauses \cup {NoPause}
    BY FindLatestType DEF TypeOK
  <2> DEFINE c == [NoCall EXCEPT !.id = nextDel, !.kind = "delegate",
                                 !.mode = mode, !.fresh = fresh,
                                 !.answer = answer, !.logged = TRUE,
                                 !.seen = FindLatest(files, expired)]
  <2>3. c \in CallType /\ c.kind = "delegate" /\ c.id \in Ids
    <3> DEFINE numbered == [NoCall EXCEPT !.id = nextDel, !.kind = "delegate"]
               asked    == [numbered EXCEPT !.mode = mode, !.fresh = fresh, !.answer = answer]
               logged   == [asked EXCEPT !.logged = TRUE, !.seen = FindLatest(files, expired)]
    <3>1. numbered \in CallType /\ numbered.kind = "delegate" /\ numbered.id \in Ids
      BY <2>1, NoCallType DEF CallType
    <3>2. c = logged
      OBVIOUS
    <3> HIDE DEF c, numbered
    <3>3. asked \in CallType /\ asked.kind = "delegate" /\ asked.id \in Ids
      BY <3>1 DEF CallType
    <3> HIDE DEF asked
    <3>4. logged \in CallType /\ logged.kind = "delegate" /\ logged.id \in Ids
      BY <2>2, <3>3 DEF CallType
    <3> QED
      BY <3>2, <3>4
  <2>4. call' = [call EXCEPT ![p] = c] /\ pc' = [pc EXCEPT ![p] = "routing"]
    BY <1>1 DEF Arrive, Goto
  <2> HIDE DEF c
  <2>5. TypeOK'
    BY <1>1, <2>1, <2>3, <2>4
       DEF Arrive, TypeOK, Labels, diskVars
  <2>6. CallKinds'
    BY <2>3, <2>4 DEF TypeOK, CallKinds, OwnLabels, FinishLabels, ResumeLabels, ClosedLabels
  <2> QED
    BY <2>5, <2>6
<1>2. CASE RouteFresh(p) \/ RouteClarityReentry(p)
  <2>1. PICK c \in CallType :
          /\ call' = [call EXCEPT ![p] = c]
          /\ c.kind = call[p].kind /\ c.id = call[p].id
    <3>1. CASE RouteFresh(p)
      <4> DEFINE c == [call[p] EXCEPT !.seen = NoPause, !.answer = FALSE]
      <4>1. c \in CallType /\ c.kind = call[p].kind /\ c.id = call[p].id
        BY <1>0 DEF CallType
      <4> QED
        BY <3>1, <4>1 DEF RouteFresh
    <3>2. CASE RouteClarityReentry(p)
      <4> DEFINE c == [call[p] EXCEPT !.from = call[p].seen.tok,
                                      !.seen = NoPause, !.answer = FALSE]
      <4>1. call[p].seen.tok \in Tokens \cup {0}
        BY <1>0 DEF Pauses, NoPause
      <4>2. c \in CallType /\ c.kind = call[p].kind /\ c.id = call[p].id
        BY <1>0, <4>1 DEF CallType
      <4> QED
        BY <3>2, <4>2 DEF RouteClarityReentry
    <3> QED
      BY <1>2, <3>1, <3>2
  <2>2. pc' = [pc EXCEPT ![p] = "armed"] /\ pc[p] = "routing"
    BY <1>2 DEF RouteFresh, RouteClarityReentry, Goto, At
  <2>3. files' \in SUBSET Pauses
    BY <1>2 DEF RouteFresh, RouteClarityReentry, Abandon, TypeOK
  <2>4. TypeOK'
    BY <1>2, <2>1, <2>2, <2>3
       DEF TypeOK, Labels, RouteFresh, RouteClarityReentry, clockVars
  <2>5. CallKinds'
    BY <2>1, <2>2 DEF TypeOK, CallKinds, OwnLabels, FinishLabels, ResumeLabels, ClosedLabels
  <2> QED
    BY <2>4, <2>5
<1>3. CASE RouteReminder(p)
  <2>1. call[p].seen.tok \in Tokens \cup {0} /\ 0 \in Tokens \cup {0}
    BY <1>0 DEF Pauses, NoPause
  <2>2. Finished(p, "reminder", call[p].seen.tok, 0)
    BY <1>3 DEF RouteReminder
  <2>3. "reminder" \in ReplyOutcomes
    BY DEF ReplyOutcomes
  <2> QED
    BY <1>3, <2>1, <2>2, <2>3, FinishedType
       DEF RouteReminder, TypeOK, diskVars, clockVars
<1>4. CASE RouteResume(p)
  <2> DEFINE pause == call[p].seen
             c == [NoCall EXCEPT !.id = pause.ref, !.kind = "resume",
                                 !.from = pause.tok,
                                 !.logged = HasRecord(pause.ref)]
             a == BeginTurn(Begin(ResumedAgent(pause, projectState), projectState))
  <2>1. pause \in Pauses
    BY <1>0, <1>4 DEF RouteResume, Escalation, NoPause
  <2>2. HasRecord(pause.ref) \in BOOLEAN
    BY DEF HasRecord
  <2>3. c \in CallType /\ c.kind = "resume" /\ c.id \in Ids
    <3> DEFINE numbered == [NoCall EXCEPT !.id = pause.ref, !.kind = "resume"]
    <3>1. pause.ref \in Ids /\ pause.tok \in Tokens
      BY <2>1 DEF Pauses
    <3>2. c = [numbered EXCEPT !.from = pause.tok, !.logged = HasRecord(pause.ref)]
      OBVIOUS
    <3> HIDE DEF c, pause
    <3>3. numbered \in CallType /\ numbered.kind = "resume" /\ numbered.id \in Ids
      BY <3>1, NoCallType DEF CallType
    <3> HIDE DEF numbered
    <3> QED
      BY <2>2, <3>1, <3>2, <3>3 DEF CallType
  <2>4. a \in AgentType(Ids)
    <3>1. projectState \in SUBSET Ids
      BY DEF TypeOK
    <3>2. ResumedAgent(pause, projectState) \in AgentType(Ids)
      BY <2>1, <3>1, ResumedAgentType
    <3>3. Begin(ResumedAgent(pause, projectState), projectState) \in AgentType(Ids)
      BY <3>1, <3>2, BeginType
    <3> QED
      BY <3>3, BeginTurnType
  <2>5. /\ call' = [call EXCEPT ![p] = c] /\ agent' = [agent EXCEPT ![p] = a]
        /\ pc' = [pc EXCEPT ![p] = "resuming"]
    BY <1>4 DEF RouteResume, SetAgent, Goto
  <2>6. trace' \in [Ids -> [EventKinds -> Nat]]
    <3> DEFINE kinds == {"lifecycle_start", "phase_start", "resumed", "turn_start"}
                          \cup BeginEvents(ResumedAgent(pause, projectState))
               now == [k \in EventKinds |-> trace[pause.ref][k]
                         + (IF k \in kinds THEN 1 ELSE 0)]
    <3>1. now \in [EventKinds -> Nat]
      <4> HIDE DEF kinds
      <4>1. trace[pause.ref] \in [EventKinds -> Nat]
        BY <2>1 DEF TypeOK, Pauses
      <4> QED
        BY <4>1
    <3>2. trace' = IF HasRecord(pause.ref)
                     THEN [trace EXCEPT ![pause.ref] = now] ELSE trace
      BY <1>4 DEF RouteResume
    <3> HIDE DEF now
    <3> QED
      BY <3>1, <3>2 DEF TypeOK
  <2> HIDE DEF c, a
  <2>7. TypeOK'
    BY <1>4, <2>3, <2>4, <2>5, <2>6 DEF RouteResume, TypeOK, Labels, clockVars
  <2>8. CallKinds'
    BY <2>3, <2>5 DEF TypeOK, CallKinds, OwnLabels, FinishLabels, ResumeLabels, ClosedLabels
  <2> QED
    BY <2>7, <2>8
<1> QED
  BY <1>1, <1>2, <1>3, <1>4 DEF Routing

LEMMA PreloopTypes ==
  ASSUME TypeInv, NEW p \in Procs, Preloop(p)
  PROVE  TypeInv'
<1> USE DEF TypeInv
<1>0. /\ call[p] \in CallType /\ agent[p] \in AgentType(Ids)
      /\ call[p].id \in Ids /\ call[p].kind = "delegate"
  BY DEF TypeOK, CallKinds, OwnLabels, Preloop, At, OpenEnvelope, InvalidSpec,
         ReviewTargetsError, ClarityBlocks, SaveClarityPause,
         ClarityPauseNotSaved, CloseForClarity, EnterLoop
<1>1. \A a \in AgentType(Ids), phase \in Phases :
        /\ BeginDelegation(a, call[p].id, MaxTurns) \in AgentType(Ids)
        /\ StartLifecycle(a) \in AgentType(Ids)
        /\ StartPhase(a, phase) \in AgentType(Ids)
        /\ EndPhase(a, phase) \in AgentType(Ids)
  <2>1. MaxTurns \in Nat /\ "done" \in Decisions
    BY BoundsAssumption DEF Decisions
  <2> QED
    BY <1>0, <2>1, AgentMethodTypes
<1>2. GetOrCreate(p) \in AgentType(Ids)
  BY GetOrCreateType
<1>3. CASE OpenEnvelope(p)
  <2>1. agent' \in [Procs -> AgentType(Ids)] /\ trace' \in [Ids -> [EventKinds -> Nat]]
    <3>1. CASE Implement(p)
      <4> DEFINE a == StartLifecycle(
                        BeginDelegation(GetOrCreate(p), call[p].id, MaxTurns))
      <4>1. StartPhase(a, "preloop") \in AgentType(Ids)
        BY <1>1, <1>2 DEF Phases
      <4>2. agent' = [agent EXCEPT ![p] = StartPhase(a, "preloop")]
        BY <1>3, <3>1 DEF OpenEnvelope, SetAgent
      <4>3. PICK kinds : Emit(p, kinds)
        BY <1>3, <3>1 DEF OpenEnvelope
      <4> HIDE DEF a
      <4> QED
        BY <1>0, <4>1, <4>2, <4>3, EmitType DEF TypeOK
    <3>2. CASE ~Implement(p)
      BY <1>3, <3>2 DEF OpenEnvelope, TypeOK
    <3> QED
      BY <3>1, <3>2
  <2>2. Goto(p, "preloop") /\ UNCHANGED call /\ "preloop" \in Labels \ (ResumeLabels \cup ClosedLabels)
    BY <1>3 DEF OpenEnvelope, Labels, ResumeLabels, ClosedLabels
  <2> QED
    BY <1>0, <1>3, <2>1, <2>2, StayType DEF OpenEnvelope, TypeOK, clockVars
<1>4. CASE InvalidSpec(p) \/ CloseForClarity(p)
  <2>1. PICK o \in {"invalid_spec", "needs_input"} : call' = [call EXCEPT ![p].outcome = o]
    BY <1>4 DEF InvalidSpec, CloseForClarity, ReplyOutcomes
  <2> DEFINE c == [call[p] EXCEPT !.outcome = o]
  <2>2. /\ c \in CallType /\ c.id = call[p].id /\ c.kind = call[p].kind
        /\ c.outcome # "escalated"
    BY <1>0 DEF CallType, ReplyOutcomes
  <2>3. call' = [call EXCEPT ![p] = c] /\ Goto(p, "recording")
    BY <1>4, <2>1 DEF InvalidSpec, CloseForClarity
  <2>4. "recording" \in Labels \ ResumeLabels
    BY DEF Labels, ResumeLabels, ClosedLabels
  <2>5. /\ agent' \in [Procs -> AgentType(Ids)]
        /\ trace' \in [Ids -> [EventKinds -> Nat]]
    BY <1>0, <1>4, CloseOnceType DEF InvalidSpec, CloseForClarity
  <2> HIDE DEF c
  <2> QED
    BY <1>0, <1>4, <2>2, <2>3, <2>4, <2>5, MoveType
       DEF InvalidSpec, CloseForClarity, TypeOK, clockVars
<1>5. CASE ReviewTargetsError(p)
  <2> DEFINE c == [call[p] EXCEPT !.outcome = "error"]
  <2>1. /\ c \in CallType /\ c.id = call[p].id /\ c.kind = call[p].kind
        /\ c.outcome # "escalated"
    BY <1>0 DEF CallType, ReplyOutcomes
  <2>2. call' = [call EXCEPT ![p] = c] /\ Goto(p, "recording")
    BY <1>5 DEF ReviewTargetsError
  <2>3. "recording" \in Labels \ ResumeLabels
    BY DEF Labels, ResumeLabels, ClosedLabels
  <2> HIDE DEF c
  <2> QED
    BY <1>0, <1>5, <2>1, <2>2, <2>3, MoveType
       DEF ReviewTargetsError, TypeOK, diskVars, clockVars
<1>6. CASE ClarityBlocks(p) \/ ClarityPauseNotSaved(p)
  <2>1. PICK label \in Labels \ (ResumeLabels \cup ClosedLabels) : Goto(p, label)
    BY <1>6 DEF ClarityBlocks, ClarityPauseNotSaved, Labels, ResumeLabels, ClosedLabels
  <2> QED
    BY <1>0, <1>6, <2>1, StayType
       DEF ClarityBlocks, ClarityPauseNotSaved, TypeOK, diskVars, clockVars
<1>7. CASE SaveClarityPause(p)
  <2> DEFINE c == [call[p] EXCEPT !.tok = nextTok]
  <2>1. /\ files' \in SUBSET Pauses /\ nextTok \in Tokens /\ nextTok' \in Nat \ {0}
    <3>1. "clarity_check" \in PauseReasons /\ 0 \in Nat
      BY DEF PauseReasons
    <3> QED
      BY <1>0, <1>7, <3>1, FilePauseType DEF SaveClarityPause
  <2>2. c \in CallType /\ c.id = call[p].id /\ c.kind = call[p].kind
    BY <1>0, <2>1 DEF CallType
  <2>3. call' = [call EXCEPT ![p] = c] /\ Goto(p, "clarityPaused")
    BY <1>7 DEF SaveClarityPause
  <2>4. "clarityPaused" \in Labels \ (ResumeLabels \cup ClosedLabels)
    BY DEF Labels, ResumeLabels, ClosedLabels
  <2> HIDE DEF c
  <2> QED
    BY <1>0, <1>7, <2>1, <2>2, <2>3, <2>4, MoveType DEF SaveClarityPause, TypeOK
<1>8. ASSUME NEW pkg \in BOOLEAN, EnterLoop(p, pkg) PROVE TypeInv'
  <2> DEFINE moved == IF Implement(p)
                        THEN StartPhase(EndPhase(agent[p], "preloop"), "loop")
                        ELSE GetOrCreate(p)
             begun == BeginDelegation(moved, call[p].id, MaxTurns)
             a == BeginTurn(Begin(begun, projectState))
             c == [call[p] EXCEPT !.pkg = pkg, !.from = 0]
  <2>1. c \in CallType /\ c.id = call[p].id /\ c.kind = call[p].kind
    BY <1>0 DEF CallType
  <2>2. a \in AgentType(Ids)
    <3>1. moved \in AgentType(Ids)
      BY <1>0, <1>1, <1>2 DEF Phases
    <3> HIDE DEF moved
    <3>2. begun \in AgentType(Ids)
      BY <1>1, <3>1 DEF Phases
    <3> HIDE DEF begun
    <3>3. Begin(begun, projectState) \in AgentType(Ids)
      BY <3>2, BeginType DEF TypeOK
    <3> QED
      BY <3>3, BeginTurnType
  <2>3. /\ call' = [call EXCEPT ![p] = c] /\ agent' = [agent EXCEPT ![p] = a]
        /\ Goto(p, "executing")
    BY <1>8 DEF EnterLoop, SetAgent
  <2>4. PICK kinds : Emit(p, kinds)
    BY <1>8 DEF EnterLoop
  <2>5. "executing" \in Labels \ (ResumeLabels \cup ClosedLabels)
    BY DEF Labels, ResumeLabels, ClosedLabels
  <2> HIDE DEF a, c
  <2>6. trace' \in [Ids -> [EventKinds -> Nat]]
    BY <1>0, <2>4, EmitType
  <2> QED
    BY <1>0, <1>8, <2>1, <2>2, <2>3, <2>5, <2>6, MoveType
       DEF EnterLoop, TypeOK, clockVars
<1> QED
  BY <1>3, <1>4, <1>5, <1>6, <1>7, <1>8 DEF Preloop

LEMMA LoopTypes ==
  ASSUME TypeInv, NEW p \in Procs, Loop(p) \/ PlannerRecords(p)
  PROVE  TypeInv'
<1> USE DEF TypeInv
<1>0. /\ call[p] \in CallType /\ agent[p] \in AgentType(Ids)
      /\ call[p].id \in Ids /\ call[p].kind \in {"delegate", "resume"}
      /\ pc[p] \in OwnLabels => call[p].kind = "delegate"
  BY DEF TypeOK, CallKinds, OwnLabels, FinishLabels, Loop, At, PlannerRecords,
         ExecutorReturns, FirstTurnRaises, RetryRaises, CompleteTheTurn,
         SavePause, EndTheLoop, SaveProjectState, SaveCheckpoint, CheckpointNotSaved
<1>1. CASE PlannerRecords(p)
  <2> DEFINE known == agent[p].known \cup {call[p].id}
             a == [agent[p] EXCEPT !.known = known]
  <2>1. a \in AgentType(Ids) /\ known \in SUBSET Ids
    BY <1>0 DEF AgentType
  <2>2. agent' = [agent EXCEPT ![p] = a] /\ projectState' = known
    BY <1>1 DEF PlannerRecords, SetAgent
  <2> HIDE DEF a, known
  <2> QED
    BY <1>1, <2>1, <2>2 DEF PlannerRecords, TypeOK, CallKinds, clockVars
<1>2. ASSUME NEW ok \in BOOLEAN, NEW bound \in BOOLEAN,
             ExecutorReturns(p, ok) \/ FirstTurnRaises(p, bound)
      PROVE  TypeInv'
  <2>1. PICK c \in CallType :
          /\ call' = [call EXCEPT ![p] = c]
          /\ c.kind = call[p].kind /\ c.id = call[p].id
    <3>1. CASE ExecutorReturns(p, ok)
      <4> DEFINE c == [call[p] EXCEPT !.ok = ok, !.engine = TRUE]
      <4>1. c \in CallType /\ c.kind = call[p].kind /\ c.id = call[p].id
        BY <1>0 DEF CallType
      <4> QED
        BY <3>1, <4>1 DEF ExecutorReturns
    <3>2. CASE FirstTurnRaises(p, bound)
      <4> DEFINE c == [call[p] EXCEPT !.ok = FALSE, !.engine = bound]
      <4>1. c \in CallType /\ c.kind = call[p].kind /\ c.id = call[p].id
        BY <1>0 DEF CallType
      <4> QED
        BY <3>2, <4>1 DEF FirstTurnRaises
    <3> QED
      BY <1>2, <3>1, <3>2
  <2>2. Goto(p, "reviewing") /\ pc[p] \in OwnLabels
    BY <1>2 DEF ExecutorReturns, FirstTurnRaises, At, OwnLabels
  <2>3. "reviewing" \in Labels \ (ResumeLabels \cup ClosedLabels)
    BY DEF Labels, ResumeLabels, ClosedLabels
  <2> QED
    BY <1>0, <1>2, <2>1, <2>2, <2>3, MoveType
       DEF ExecutorReturns, FirstTurnRaises, TypeOK, diskVars, clockVars
<1>3. CASE RetryRaises(p)
  <2>1. Conclude(p, agent[p], call[p].ok) /\ call[p].ok \in BOOLEAN
    BY <1>0, <1>3 DEF RetryRaises, CallType
  <2> QED
    BY <1>0, <1>3, <2>1, ConcludeType DEF RetryRaises, TypeOK, diskVars, clockVars
<1>4. ASSUME NEW verdict \in ReviewerResults, NEW decision \in Decisions,
             CompleteTheTurn(p, verdict, decision)
      PROVE  TypeInv'
  <2> DEFINE known == IF verdict = "issues" /\ agent[p].cur = 1
                        THEN agent[p].known \cup {call[p].id} ELSE agent[p].known
             seen  == [agent[p] EXCEPT !.known = known,
                         !.reviewer = IF Implement(p) THEN verdict ELSE @]
             a     == CompleteTurn(seen, decision)
             rerun == WantsRerun(p, a, decision)
  <2>1. a \in AgentType(Ids) /\ BeginTurn(a) \in AgentType(Ids)
    <3>1. known \in SUBSET Ids
      BY <1>0 DEF AgentType
    <3>2. seen \in AgentType(Ids)
      <4> HIDE DEF known
      <4> QED
        BY <1>0, <3>1 DEF AgentType
    <3>3. a \in AgentType(Ids)
      <4> HIDE DEF seen
      <4> QED
        BY <3>2 DEF CompleteTurn, AgentType
    <3> HIDE DEF a
    <3> QED
      BY <3>3, BeginTurnType
  <2>2. PICK kinds : Emit(p, kinds)
    BY <1>4 DEF CompleteTheTurn
  <2>3. trace' \in [Ids -> [EventKinds -> Nat]]
    BY <1>0, <2>2, EmitType
  <2>4. agent' = [agent EXCEPT ![p] = IF rerun THEN BeginTurn(a) ELSE a]
    BY <1>4 DEF CompleteTheTurn, SetAgent
  <2>5. \/ Goto(p, "executing") /\ UNCHANGED call
        \/ Conclude(p, a, call[p].ok)
    BY <1>4 DEF CompleteTheTurn
  <2>6. pc[p] \in OwnLabels /\ call[p].ok \in BOOLEAN
    BY <1>0, <1>4 DEF CompleteTheTurn, At, OwnLabels, CallType
  <2>7. /\ pc' \in [Procs -> Labels] /\ call' \in [Procs -> CallType] /\ CallKinds'
    <3> HIDE DEF a
    <3>1. "executing" \in Labels \ (ResumeLabels \cup ClosedLabels)
      BY DEF Labels, ResumeLabels, ClosedLabels
    <3>2. CASE Goto(p, "executing") /\ UNCHANGED call
      BY <1>0, <2>6, <3>1, <3>2, StayType
    <3>3. CASE Conclude(p, a, call[p].ok)
      BY <1>0, <2>1, <2>6, <3>3, ConcludeType
    <3> QED
      BY <2>5, <3>2, <3>3
  <2> HIDE DEF a, rerun
  <2>8. agent' \in [Procs -> AgentType(Ids)]
    BY <2>1, <2>4 DEF TypeOK
  <2> QED
    BY <1>4, <2>3, <2>7, <2>8 DEF CompleteTheTurn, TypeOK, clockVars
<1>5. CASE SavePause(p)
  <2> DEFINE c == [call[p] EXCEPT !.tok = nextTok]
  <2>1. /\ files' \in SUBSET Pauses /\ nextTok \in Tokens /\ nextTok' \in Nat \ {0}
    <3>1. PauseReason(agent[p]) \in PauseReasons /\ agent[p].cur \in Nat
      BY <1>0 DEF PauseReasons, PauseReason, AgentType
    <3> QED
      BY <1>0, <1>5, <3>1, FilePauseType DEF SavePause
  <2>2. c \in CallType /\ c.id = call[p].id /\ c.kind = call[p].kind
    BY <1>0, <2>1 DEF CallType
  <2>3. call' = [call EXCEPT ![p] = c] /\ Goto(p, "ending")
    BY <1>5 DEF SavePause
  <2>4. "ending" \in Labels \ (OwnLabels \cup ResumeLabels \cup ClosedLabels)
    BY DEF Labels, OwnLabels, ResumeLabels, ClosedLabels
  <2> HIDE DEF c
  <2> QED
    BY <1>0, <1>5, <2>1, <2>2, <2>3, <2>4, MoveType DEF SavePause, TypeOK
<1>6. CASE EndTheLoop(p) \/ SaveProjectState(p)
  <2>1. EndLoop(agent[p]) \in AgentType(Ids)
    BY <1>0 DEF EndLoop, AgentType
  <2>2. agent' \in [Procs -> AgentType(Ids)] /\ projectState' \in SUBSET Ids
    BY <1>0, <1>6, <2>1
       DEF EndTheLoop, SaveProjectState, SetAgent, TypeOK, AgentType
  <2>3. trace' \in [Ids -> [EventKinds -> Nat]]
    BY <1>0, <1>6, EmitType DEF EndTheLoop, SaveProjectState, TypeOK
  <2>4. PICK label \in Labels \ (OwnLabels \cup ResumeLabels \cup ClosedLabels) :
          Goto(p, label) /\ UNCHANGED call
    BY <1>6 DEF EndTheLoop, SaveProjectState, Labels, OwnLabels, ResumeLabels,
                ClosedLabels
  <2> QED
    BY <1>0, <1>6, <2>2, <2>3, <2>4, StayType
       DEF EndTheLoop, SaveProjectState, TypeOK, clockVars
<1>7. CASE SaveCheckpoint(p) \/ CheckpointNotSaved(p)
  <2> DEFINE label == IF call[p].kind = "resume" THEN "resumed" ELSE "looped"
  <2>1. /\ label \in Labels \ ClosedLabels
        /\ label \in OwnLabels => call[p].kind = "delegate"
        /\ label \in ResumeLabels => call[p].kind = "resume"
    BY <1>0 DEF Labels, OwnLabels, ResumeLabels, ClosedLabels
  <2>2. Goto(p, label) /\ UNCHANGED call
    BY <1>7 DEF SaveCheckpoint, CheckpointNotSaved, LeaveLoop
  <2>3. checkpoint' \in [del : Ids \cup {0}, reviewer : ReviewerResults]
    BY <1>0, <1>7 DEF SaveCheckpoint, CheckpointNotSaved, AgentType, TypeOK, diskVars
  <2> HIDE DEF label
  <2> QED
    BY <1>0, <1>7, <2>1, <2>2, <2>3, StayType
       DEF SaveCheckpoint, CheckpointNotSaved, TypeOK, diskVars, clockVars
<1> QED
  BY <1>1, <1>2, <1>3, <1>4, <1>5, <1>6, <1>7 DEF Loop

LEMMA PostloopTypes ==
  ASSUME TypeInv, NEW p \in Procs, Postloop(p)
  PROVE  TypeInv'
<1> USE DEF TypeInv
<1>0. /\ call[p] \in CallType /\ agent[p] \in AgentType(Ids)
      /\ call[p].id \in Ids /\ call[p].kind = "delegate"
  BY DEF TypeOK, CallKinds, OwnLabels, Postloop, At, StartPostloop,
         FinishPostloop, AppendRecord, TouchSession, Return
<1>1. CASE StartPostloop(p)
  <2>1. agent' \in [Procs -> AgentType(Ids)] /\ trace' \in [Ids -> [EventKinds -> Nat]]
    <3>1. CASE Implement(p)
      <4>1. StartPhase(EndPhase(agent[p], "loop"), "postloop") \in AgentType(Ids)
        BY <1>0 DEF StartPhase, EndPhase, AgentType, Phases
      <4>2. agent' = [agent EXCEPT ![p] =
                        StartPhase(EndPhase(agent[p], "loop"), "postloop")]
        BY <1>1, <3>1 DEF StartPostloop, SetAgent
      <4>3. PICK kinds : Emit(p, kinds)
        BY <1>1, <3>1 DEF StartPostloop
      <4> QED
        BY <1>0, <4>1, <4>2, <4>3, EmitType DEF TypeOK
    <3>2. CASE ~Implement(p)
      BY <1>1, <3>2 DEF StartPostloop, TypeOK
    <3> QED
      BY <3>1, <3>2
  <2>2. Goto(p, "postloop") /\ UNCHANGED call /\ "postloop" \in Labels \ (ResumeLabels \cup ClosedLabels)
    BY <1>1 DEF StartPostloop, Labels, ResumeLabels, ClosedLabels
  <2> QED
    BY <1>0, <1>1, <2>1, <2>2, StayType DEF StartPostloop, TypeOK, clockVars
<1>2. CASE FinishPostloop(p)
  <2> DEFINE c == [call[p] EXCEPT !.outcome =
                     IF @ = "escalated" THEN "needs_input" ELSE @]
  <2>1. /\ c \in CallType /\ c.id = call[p].id /\ c.kind = call[p].kind
        /\ c.outcome # "escalated"
    BY <1>0 DEF CallType, ReplyOutcomes
  <2>2. call' = [call EXCEPT ![p] = c] /\ Goto(p, "recording")
    BY <1>2 DEF FinishPostloop
  <2>3. "recording" \in Labels \ ResumeLabels
    BY DEF Labels, ResumeLabels, ClosedLabels
  <2>4. agent' \in [Procs -> AgentType(Ids)] /\ trace' \in [Ids -> [EventKinds -> Nat]]
    BY <1>0, <1>2, CloseOnceType DEF FinishPostloop
  <2> HIDE DEF c
  <2> QED
    BY <1>0, <1>2, <2>1, <2>2, <2>3, <2>4, MoveType
       DEF FinishPostloop, TypeOK, clockVars
<1>3. CASE AppendRecord(p)
  <2>1. /\ Goto(p, "appended") /\ UNCHANGED call
        /\ "appended" \in Labels \ ResumeLabels /\ call[p].outcome # "escalated"
    BY <1>3 DEF AppendRecord, At, CallKinds, Labels, ResumeLabels, ClosedLabels
  <2>2. records' \in SUBSET [del : Ids, kind : {"complete", "interrupted"}]
    BY <1>0, <1>3 DEF AppendRecord, TypeOK
  <2> QED
    BY <1>0, <1>3, <2>1, <2>2, StayType DEF AppendRecord, TypeOK, clockVars
<1>4. CASE Return(p)
  <2>1. call[p].outcome \in ReplyOutcomes
    BY <1>0, <1>4 DEF Return, At, CallKinds, ClosedLabels, CallType
  <2>2. call[p].tok \in Tokens \cup {0} /\ 0 \in Tokens \cup {0}
    BY <1>0 DEF CallType
  <2> QED
    BY <1>4, <2>1, <2>2, FinishedType DEF Return, TypeOK, diskVars, clockVars
<1>5. CASE TouchSession(p)
  <2>1. /\ Goto(p, "returning") /\ UNCHANGED call
        /\ "returning" \in Labels \ ResumeLabels /\ call[p].outcome # "escalated"
    BY <1>5 DEF TouchSession, At, CallKinds, Labels, ResumeLabels, ClosedLabels
  <2> QED
    BY <1>0, <1>5, <2>1, StayType DEF TouchSession, TypeOK, diskVars, clockVars
<1> QED
  BY <1>1, <1>2, <1>3, <1>4, <1>5 DEF Postloop

LEMMA ResumptionTypes ==
  ASSUME TypeInv, NEW p \in Procs, Resumption(p)
  PROVE  TypeInv'
<1> USE DEF TypeInv
<1>0. /\ call[p] \in CallType /\ agent[p] \in AgentType(Ids)
      /\ call[p].id \in Ids /\ call[p].kind = "resume"
  BY DEF TypeOK, CallKinds, ResumeLabels, Resumption, At, ResumedTurn,
         ResumedTurnRaises, CloseResume
<1>1. ASSUME NEW ok \in BOOLEAN, NEW decision \in Decisions,
             ResumedTurn(p, ok, decision)
      PROVE  TypeInv'
  <2> DEFINE a == CompleteTurn(agent[p], decision)
  <2>1. a \in AgentType(Ids)
    BY <1>0 DEF CompleteTurn, AgentType
  <2>2. agent' = [agent EXCEPT ![p] = a] /\ Conclude(p, a, ok)
    BY <1>1 DEF ResumedTurn, SetAgent
  <2>3. trace' \in [Ids -> [EventKinds -> Nat]]
    BY <1>0, <1>1, EmitType DEF ResumedTurn
  <2> HIDE DEF a
  <2>4. /\ pc' \in [Procs -> Labels] /\ call' \in [Procs -> CallType] /\ CallKinds'
    BY <1>0, <2>1, <2>2, ConcludeType
  <2> QED
    BY <1>1, <2>1, <2>2, <2>3, <2>4 DEF ResumedTurn, TypeOK, clockVars
<1>2. CASE ResumedTurnRaises(p)
  <2> DEFINE c == [call[p] EXCEPT !.outcome = "error"]
  <2>1. c \in CallType /\ c.id = call[p].id /\ c.kind = call[p].kind
    BY <1>0 DEF CallType, ReplyOutcomes
  <2>2. call' = [call EXCEPT ![p] = c] /\ Goto(p, "ending")
    BY <1>2 DEF ResumedTurnRaises
  <2>3. "ending" \in Labels \ (OwnLabels \cup ResumeLabels \cup ClosedLabels)
    BY DEF Labels, OwnLabels, ResumeLabels, ClosedLabels
  <2>4. trace' \in [Ids -> [EventKinds -> Nat]]
    BY <1>0, <1>2, EmitType DEF ResumedTurnRaises
  <2> HIDE DEF c
  <2> QED
    BY <1>0, <1>2, <2>1, <2>2, <2>3, <2>4, MoveType
       DEF ResumedTurnRaises, TypeOK, clockVars
<1>3. CASE CloseResume(p)
  <2> DEFINE o == IF call[p].outcome = "escalated"
                    THEN "needs_input" ELSE call[p].outcome
  <2>1. /\ o \in ReplyOutcomes /\ call[p].tok \in Tokens \cup {0}
        /\ call[p].from \in Tokens \cup {0}
    BY <1>0 DEF CallType, ReplyOutcomes
  <2>2. Finished(p, o, call[p].tok, call[p].from)
    BY <1>3 DEF CloseResume
  <2>3. agent' \in [Procs -> AgentType(Ids)]
    BY <1>0, <1>3, EndedAgentType DEF CloseResume, SetAgent, TypeOK
  <2>4. trace' \in [Ids -> [EventKinds -> Nat]]
    BY <1>0, <1>3, EmitType DEF CloseResume
  <2> HIDE DEF o
  <2> QED
    BY <1>3, <2>1, <2>2, <2>3, <2>4, FinishedType DEF CloseResume, TypeOK, clockVars
<1> QED
  BY <1>1, <1>2, <1>3 DEF Resumption

LEMMA RaiseTypes ==
  ASSUME TypeInv, NEW p \in Procs, DelegateRaises(p) \/ ResumeRaises(p)
  PROVE  TypeInv'
<1> USE DEF TypeInv
<1>0. /\ call[p] \in CallType /\ agent[p] \in AgentType(Ids) /\ call[p].id \in Ids
      /\ call[p].from \in Tokens \cup {0} /\ 0 \in Tokens \cup {0}
      /\ "raised" \in ReplyOutcomes
  BY DEF TypeOK, CallKinds, CallType, DelegateRaises, ResumeRaises, MayRaise, At,
         ReplyOutcomes
<1>1. CASE DelegateRaises(p)
  <2>1. agent' \in [Procs -> AgentType(Ids)] /\ trace' \in [Ids -> [EventKinds -> Nat]]
    BY <1>0, <1>1, CloseOnceType DEF DelegateRaises, TypeOK
  <2>2. records' \in SUBSET [del : Ids, kind : {"complete", "interrupted"}]
    BY <1>0, <1>1 DEF DelegateRaises, InterruptedRecord, TypeOK
  <2> QED
    BY <1>0, <1>1, <2>1, <2>2, FinishedType DEF DelegateRaises, TypeOK, clockVars
<1>2. CASE ResumeRaises(p)
  <2>1. agent' \in [Procs -> AgentType(Ids)]
    <3>1. EndLoop(agent[p]) \in AgentType(Ids)
      BY <1>0 DEF EndLoop, AgentType
    <3> QED
      BY <1>2, <3>1, EndedAgentType DEF ResumeRaises, SetAgent, TypeOK
  <2>2. trace' \in [Ids -> [EventKinds -> Nat]]
    BY <1>0, <1>2, EmitType DEF ResumeRaises
  <2> QED
    BY <1>0, <1>2, <2>1, <2>2, FinishedType DEF ResumeRaises, TypeOK, clockVars
<1> QED
  BY <1>1, <1>2

LEMMA EnvironmentTypes ==
  ASSUME TypeInv, (\E p \in Procs : Crash(p)) \/ (\E f \in files : Expire(f))
  PROVE  TypeInv'
<1> USE DEF TypeInv
<1>1. ASSUME NEW p \in Procs, Crash(p) PROVE TypeInv'
  <2>1. pc' = [pc EXCEPT ![p] = "idle"] /\ call' = [call EXCEPT ![p] = NoCall]
    BY <1>1 DEF Crash, Goto
  <2>2. lost' \in SUBSET [del : Ids, kind : {"delegate", "resume"}]
    <3>1. CASE At(p, "idle")
      BY <1>1, <3>1 DEF Crash, TypeOK
    <3>2. CASE ~At(p, "idle")
      <4>1. call[p].id \in Ids /\ call[p].kind \in {"delegate", "resume"}
        BY <3>2 DEF At, TypeOK, CallKinds, Labels, OwnLabels, FinishLabels, ResumeLabels
      <4> QED
        BY <1>1, <3>2, <4>1 DEF Crash, TypeOK
    <3> QED
      BY <3>1, <3>2
  <2>3. NoReply \in [outcome : ReplyOutcomes, tok : Tokens \cup {0},
                     resumed : Tokens \cup {0}]
    BY DEF NoReply, ReplyOutcomes
  <2>4. agent' \in [Procs -> AgentType(Ids)] /\ crashes' \in Nat
    BY <1>1, NewAgentType DEF Crash, SetAgent, TypeOK
  <2>5. TypeOK'
    <3>1. pc' \in [Procs -> Labels] /\ call' \in [Procs -> CallType]
      BY <2>1, NoCallType DEF TypeOK, Labels
    <3>2. reply' \in [Procs -> [outcome : ReplyOutcomes, tok : Tokens \cup {0},
                               resumed : Tokens \cup {0}]]
      BY <1>1, <2>3 DEF Crash, TypeOK
    <3> QED
      BY <1>1, <2>2, <2>4, <3>1, <3>2 DEF Crash, TypeOK, diskVars
  <2>6. CallKinds'
    BY <2>1 DEF TypeOK, CallKinds, OwnLabels, FinishLabels, ResumeLabels, ClosedLabels
  <2> QED
    BY <2>5, <2>6
<1>2. ASSUME NEW f \in files, Expire(f) PROVE TypeInv'
  <2>1. f.tok \in Tokens
    BY DEF TypeOK, Pauses
  <2> QED
    BY <1>2, <2>1 DEF Expire, TypeOK, CallKinds, procVars, clockVars
<1> QED
  BY <1>1, <1>2

LEMMA TypeStep == TypeInv /\ [Next]_vars => TypeInv'
<1> SUFFICES ASSUME TypeInv, [Next]_vars PROVE TypeInv'
  OBVIOUS
<1>1. ASSUME NEW p \in Procs, Step(p) PROVE TypeInv'
  <2>1. "implement" \in Modes /\ TRUE \in BOOLEAN
    BY DEF Modes
  <2> QED
    BY <1>1, <2>1, RoutingTypes, PreloopTypes, LoopTypes, PostloopTypes,
       ResumptionTypes, RaiseTypes DEF Step
<1>2. ASSUME UNCHANGED vars PROVE TypeInv'
  BY <1>2 DEF TypeInv, TypeOK, CallKinds, vars, procVars, diskVars, clockVars
<1> QED
  BY <1>1, <1>2, RoutingTypes, LoopTypes, EnvironmentTypes DEF Next

\* Every reachable state is well typed, whatever the number of processes, calls,
\* turns and crashes.
THEOREM TypeCorrect == Spec => []TypeOK
<1>1. TypeInv => TypeOK
  BY DEF TypeInv
<1> QED
  BY TypeInit, TypeStep, <1>1, PTL DEF Spec

-----------------------------------------------------------------------------
(***************************************************************************)
(* One process: what its memory and the disk hold together.                *)
(***************************************************************************)
\* Only one process delegates under the project key.
OneProcess == \A p, q \in Procs : p = q

\* Where the agent's project state is loaded, because its loop has begun.
Looping == {"executing", "reviewing", "resuming"} \cup FinishLabels

\* The copy in memory lacks nothing of the file, so that writing it back loses
\* nothing.
MemoryInv ==
  \A p \in Procs : /\ agent[p].loaded => projectState \subseteq agent[p].known
                   /\ pc[p] \in Looping => agent[p].loaded

\* The methods of the agent that leave its project state alone.
LEMMA MethodsForget ==
  ASSUME NEW a \in AgentType(Ids)
  PROVE  /\ \A d, turns : /\ BeginDelegation(a, d, turns).loaded = a.loaded
                          /\ BeginDelegation(a, d, turns).known = a.known
         /\ StartLifecycle(a).loaded = a.loaded /\ StartLifecycle(a).known = a.known
         /\ \A phase : /\ StartPhase(a, phase).loaded = a.loaded
                       /\ StartPhase(a, phase).known = a.known
                       /\ EndPhase(a, phase).loaded = a.loaded
                       /\ EndPhase(a, phase).known = a.known
         /\ EndLifecycle(a).loaded = a.loaded /\ EndLifecycle(a).known = a.known
         /\ [EndLifecycle(a) EXCEPT !.open = {}].loaded = a.loaded
         /\ [EndLifecycle(a) EXCEPT !.open = {}].known = a.known
         /\ EndLoop(a).loaded = a.loaded /\ EndLoop(a).known = a.known
         /\ BeginTurn(a).loaded = a.loaded /\ BeginTurn(a).known = a.known
         /\ \A e : CompleteTurn(a, e).loaded = a.loaded /\ CompleteTurn(a, e).known = a.known
<1>1. \A d, turns : /\ BeginDelegation(a, d, turns).loaded = a.loaded
                    /\ BeginDelegation(a, d, turns).known = a.known
  BY DEF AgentType, BeginDelegation, ResetLifecycle
<1>2. StartLifecycle(a).loaded = a.loaded /\ StartLifecycle(a).known = a.known
  BY DEF AgentType, StartLifecycle
<1>3. \A phase : /\ StartPhase(a, phase).loaded = a.loaded
                 /\ StartPhase(a, phase).known = a.known
                 /\ EndPhase(a, phase).loaded = a.loaded
                 /\ EndPhase(a, phase).known = a.known
  BY DEF AgentType, StartPhase, EndPhase
<1>4. /\ EndLifecycle(a).loaded = a.loaded /\ EndLifecycle(a).known = a.known
      /\ [EndLifecycle(a) EXCEPT !.open = {}].loaded = a.loaded
      /\ [EndLifecycle(a) EXCEPT !.open = {}].known = a.known
  BY DEF AgentType, EndLifecycle
<1>5. /\ EndLoop(a).loaded = a.loaded /\ EndLoop(a).known = a.known
      /\ BeginTurn(a).loaded = a.loaded /\ BeginTurn(a).known = a.known
  BY DEF AgentType, EndLoop, BeginTurn
<1>6. \A e : CompleteTurn(a, e).loaded = a.loaded /\ CompleteTurn(a, e).known = a.known
  BY DEF AgentType, CompleteTurn
<1> QED
  BY <1>1, <1>2, <1>3, <1>4, <1>5, <1>6

LEMMA MemoryFrame ==
  ASSUME OneProcess, NEW p \in Procs,
         agent'[p].loaded => projectState' \subseteq agent'[p].known,
         pc'[p] \in Looping => agent'[p].loaded
  PROVE  MemoryInv'
<1>1. \A q \in Procs : q = p
  BY DEF OneProcess
<1> QED
  BY <1>1 DEF MemoryInv

\* The close of an envelope.
LEMMA CloseForgets ==
  ASSUME TypeInv, NEW p \in Procs, CloseLifecycleOnce(p)
  PROVE  agent'[p].loaded = agent[p].loaded /\ agent'[p].known = agent[p].known
  BY MethodsForget DEF CloseLifecycleOnce, SetAgent, TypeInv, TypeOK

\* The agent a delegation begins with: the one in the registry, or one that has
\* not loaded anything yet.
LEMMA GotForgets ==
  ASSUME TypeInv, NEW p \in Procs
  PROVE  /\ GetOrCreate(p) \in AgentType(Ids)
         /\ GetOrCreate(p).loaded =>
              agent[p].loaded /\ GetOrCreate(p).known = agent[p].known
<1>1. TypeOK
  BY DEF TypeInv
<1>2. ~NewAgent.loaded /\ ~RehydrateFrom(NewAgent, checkpoint.reviewer).loaded
  BY NewAgentType DEF NewAgent, RehydrateFrom, AgentType
<1>3. RehydrateFrom(NewAgent, checkpoint.reviewer) \in AgentType(Ids)
  BY <1>1, NewAgentType DEF RehydrateFrom, AgentType, TypeOK
<1>4. ~agent[p].cached => ~GetOrCreate(p).loaded
  BY <1>2, <1>3, NewAgentType DEF GetOrCreate, AgentType
<1> QED
  BY <1>1, <1>4, GetOrCreateType DEF GetOrCreate

LEMMA MemoryStep ==
  ASSUME OneProcess
  PROVE  TypeInv /\ MemoryInv /\ [Next]_vars
           => MemoryInv' /\ projectState \subseteq projectState'
<1> SUFFICES ASSUME TypeInv, MemoryInv, [Next]_vars
             PROVE  MemoryInv' /\ projectState \subseteq projectState'
  OBVIOUS
<1> USE DEF clockVars, diskVars, procVars
<1> DEFINE Goal == MemoryInv' /\ projectState \subseteq projectState'
<1>0. /\ pc \in [Procs -> Labels] /\ agent \in [Procs -> AgentType(Ids)]
      /\ call \in [Procs -> CallType]
      /\ \A p \in Procs : /\ agent[p].loaded => projectState \subseteq agent[p].known
                          /\ pc[p] \in Looping => agent[p].loaded
  BY DEF TypeInv, TypeOK, MemoryInv
\* The copy is as it was, and the loop does not begin.
<1>1. ASSUME NEW p \in Procs, UNCHANGED projectState,
             agent'[p].loaded = agent[p].loaded, agent'[p].known = agent[p].known,
             pc'[p] \in Looping => pc[p] \in Looping
      PROVE  Goal
  BY <1>0, <1>1, MemoryFrame
<1>2. ASSUME NEW p \in Procs, NEW label, Goto(p, label),
             label \in Looping => pc[p] \in Looping, UNCHANGED <<agent, projectState>>
      PROVE  Goal
  BY <1>0, <1>1, <1>2 DEF Goto
<1>3. ASSUME NEW p \in Procs, RouteFresh(p) \/ RouteClarityReentry(p) \/ RouteReminder(p)
      PROVE  Goal
  BY <1>2, <1>3 DEF RouteFresh, RouteClarityReentry, RouteReminder, Finished,
                    Looping, FinishLabels
<1>4. ASSUME NEW p \in Procs, RouteResume(p) PROVE Goal
  <2> DEFINE a == ResumedAgent(call[p].seen, projectState)
             b == BeginTurn(Begin(a, projectState))
  <2>1. b.loaded /\ b.known = projectState
    BY NewAgentType DEF ResumedAgent, Begin, BeginTurn, NewAgent
  <2>2. agent'[p] = b /\ UNCHANGED projectState
    BY <1>0, <1>4 DEF RouteResume, SetAgent
  <2> HIDE DEF b
  <2> QED
    BY <2>1, <2>2, MemoryFrame
<1>5. ASSUME NEW p \in Procs, OpenEnvelope(p) PROVE Goal
  <2>1. Goto(p, "preloop") /\ UNCHANGED projectState
    BY <1>5 DEF OpenEnvelope
  <2>2. CASE Implement(p)
    <3> DEFINE g == GetOrCreate(p)
               b == BeginDelegation(g, call[p].id, MaxTurns)
               a == StartPhase(StartLifecycle(b), "preloop")
    <3>1. g \in AgentType(Ids) /\ (g.loaded => agent[p].loaded /\ g.known = agent[p].known)
      BY GotForgets
    <3> HIDE DEF g
    <3>2. b.loaded = g.loaded /\ b.known = g.known /\ b \in AgentType(Ids)
      <4>1. MaxTurns \in Nat /\ call[p].id \in Ids
        BY <1>5, BoundsAssumption DEF TypeInv, CallKinds, OpenEnvelope, At
      <4>2. b \in AgentType(Ids)
        BY <3>1, <4>1, AgentMethodTypes DEF Phases, Decisions
      <4> QED
        BY <3>1, <4>2, MethodsForget
    <3> HIDE DEF b
    <3>3. /\ StartLifecycle(b).loaded = b.loaded /\ StartLifecycle(b).known = b.known
          /\ StartLifecycle(b) \in AgentType(Ids)
      BY <3>2, MethodsForget DEF StartLifecycle, AgentType
    <3>4. a.loaded = b.loaded /\ a.known = b.known
      BY <3>3, MethodsForget
    <3>5. agent'[p] = a
      BY <1>0, <1>5, <2>2 DEF OpenEnvelope, SetAgent, b, g
    <3> HIDE DEF a
    <3>6. agent'[p].loaded => projectState' \subseteq agent'[p].known
      BY <1>0, <2>1, <3>1, <3>2, <3>4, <3>5
    <3>7. pc'[p] = "preloop"
      BY <1>0, <2>1 DEF Goto
    <3>8. MemoryInv'
      BY <3>6, <3>7, MemoryFrame DEF Looping, FinishLabels
    <3> QED
      BY <2>1, <3>8
  <2>3. CASE ~Implement(p)
    BY <1>2, <1>5, <2>1, <2>3 DEF OpenEnvelope, Looping, FinishLabels
  <2> QED
    BY <2>2, <2>3
<1>6. ASSUME NEW p \in Procs, InvalidSpec(p) \/ CloseForClarity(p) \/ FinishPostloop(p)
      PROVE  Goal
  <2>1. Goto(p, "recording") /\ CloseLifecycleOnce(p) /\ UNCHANGED projectState
    BY <1>6 DEF InvalidSpec, CloseForClarity, FinishPostloop
  <2>2. pc'[p] = "recording"
    BY <1>0, <2>1 DEF Goto
  <2> QED
    BY <1>1, <2>1, <2>2, CloseForgets DEF Looping, FinishLabels
<1>7. ASSUME NEW p \in Procs,
             \/ ReviewTargetsError(p) \/ ClarityBlocks(p) \/ SaveClarityPause(p)
             \/ ClarityPauseNotSaved(p) \/ AppendRecord(p) \/ TouchSession(p) \/ Return(p)
      PROVE  Goal
  <2>1. /\ UNCHANGED <<agent, projectState>>
        /\ \E label \in {"recording", "clarity", "clarityPaused", "appended", "returning",
                         "idle"} : Goto(p, label)
    BY <1>7 DEF ReviewTargetsError, ClarityBlocks, SaveClarityPause, ClarityPauseNotSaved,
                AppendRecord, TouchSession, Return, Finished, diskVars
  <2> QED
    BY <1>2, <2>1 DEF Looping, FinishLabels
<1>8. ASSUME NEW p \in Procs, NEW pkg \in BOOLEAN, EnterLoop(p, pkg) PROVE Goal
  <2> DEFINE moved == IF Implement(p)
                        THEN StartPhase(EndPhase(agent[p], "preloop"), "loop")
                        ELSE GetOrCreate(p)
             begun == BeginDelegation(moved, call[p].id, MaxTurns)
             a == BeginTurn(Begin(begun, projectState))
  <2>1. moved \in AgentType(Ids) /\ (moved.loaded => agent[p].loaded /\ moved.known = agent[p].known)
    <3>1. CASE Implement(p)
      <4> DEFINE e == EndPhase(agent[p], "preloop")
      <4>1. e \in AgentType(Ids) /\ e.loaded = agent[p].loaded /\ e.known = agent[p].known
        BY <1>0, MethodsForget DEF EndPhase, AgentType
      <4> HIDE DEF e
      <4>2. /\ StartPhase(e, "loop") \in AgentType(Ids)
            /\ StartPhase(e, "loop").loaded = e.loaded /\ StartPhase(e, "loop").known = e.known
        BY <4>1, MethodsForget DEF StartPhase, AgentType, Phases
      <4>3. moved = StartPhase(e, "loop")
        BY <3>1 DEF e
      <4> QED
        BY <4>1, <4>2, <4>3
    <3>2. CASE ~Implement(p)
      BY <3>2, GotForgets
    <3> QED
      BY <3>1, <3>2
  <2>2. agent'[p] = a /\ UNCHANGED projectState
    BY <1>0, <1>8 DEF EnterLoop, SetAgent
  <2> HIDE DEF moved
  <2>3. begun.loaded = moved.loaded /\ begun.known = moved.known /\ begun \in AgentType(Ids)
    <3>1. MaxTurns \in Nat /\ call[p].id \in Ids
      BY <1>8, BoundsAssumption DEF TypeInv, CallKinds, EnterLoop, At
    <3>2. begun \in AgentType(Ids)
      BY <2>1, <3>1, AgentMethodTypes DEF Phases, Decisions
    <3> QED
      BY <2>1, <3>2, MethodsForget
  <2> HIDE DEF begun
  <2>4. a.loaded /\ a.known = IF begun.loaded THEN begun.known ELSE projectState
    BY <2>3 DEF AgentType, Begin, BeginTurn
  <2> HIDE DEF a
  <2>5. projectState' \subseteq agent'[p].known /\ agent'[p].loaded
    BY <1>0, <2>1, <2>2, <2>3, <2>4
  <2> QED
    BY <2>2, <2>5, MemoryFrame
<1>9. ASSUME NEW p \in Procs, NEW ok \in BOOLEAN, NEW bound \in BOOLEAN,
             ExecutorReturns(p, ok) \/ FirstTurnRaises(p, bound)
      PROVE  Goal
  BY <1>2, <1>9 DEF ExecutorReturns, FirstTurnRaises, At, Looping
<1>10. ASSUME NEW p \in Procs,
              \/ RetryRaises(p) \/ SavePause(p) \/ SaveCheckpoint(p) \/ CheckpointNotSaved(p)
       PROVE  Goal
  <2>1. /\ UNCHANGED <<agent, projectState>> /\ pc[p] \in Looping
        /\ \E label : Goto(p, label)
    BY <1>10 DEF RetryRaises, SavePause, SaveCheckpoint, CheckpointNotSaved, At, Conclude,
                 LeaveLoop, Looping, FinishLabels
  <2> QED
    BY <1>2, <2>1
<1>11. ASSUME NEW p \in Procs, NEW verdict \in ReviewerResults, NEW decision \in Decisions,
              CompleteTheTurn(p, verdict, decision)
       PROVE  Goal
  <2> DEFINE known == IF verdict = "issues" /\ agent[p].cur = 1
                        THEN agent[p].known \cup {call[p].id} ELSE agent[p].known
             seen  == [agent[p] EXCEPT !.known = known,
                         !.reviewer = IF Implement(p) THEN verdict ELSE @]
             a     == CompleteTurn(seen, decision)
             rerun == WantsRerun(p, a, decision)
  <2>1. agent[p] \in AgentType(Ids) /\ agent[p].known \subseteq known
    BY <1>0
  <2>2. agent'[p] = IF rerun THEN BeginTurn(a) ELSE a
    BY <1>0, <1>11 DEF CompleteTheTurn, SetAgent
  <2>3. pc[p] \in Looping /\ UNCHANGED projectState
    BY <1>11 DEF CompleteTheTurn, At, Looping
  <2> HIDE DEF known, rerun
  <2>4. a.loaded = agent[p].loaded /\ a.known = known
    BY <2>1 DEF AgentType, CompleteTurn
  <2>5. BeginTurn(a).loaded = agent[p].loaded /\ BeginTurn(a).known = known
    BY <2>1 DEF AgentType, CompleteTurn, BeginTurn
  <2> HIDE DEF a
  <2>6. agent'[p].loaded = agent[p].loaded /\ agent'[p].known = known
    BY <2>2, <2>4, <2>5
  <2>7. agent[p].loaded /\ projectState \subseteq agent[p].known
    BY <1>0, <2>3
  <2>8. MemoryInv'
    BY <2>1, <2>3, <2>6, <2>7, MemoryFrame
  <2> QED
    BY <2>3, <2>8
<1>12. ASSUME NEW p \in Procs, PlannerRecords(p) PROVE Goal
  <2> DEFINE known == agent[p].known \cup {call[p].id}
  <2>1. /\ agent' = [agent EXCEPT ![p] = [agent[p] EXCEPT !.known = known]]
        /\ projectState' = known /\ pc[p] = "executing"
    BY <1>12 DEF PlannerRecords, SetAgent, At
  <2>2. agent[p].loaded /\ projectState \subseteq agent[p].known
    BY <1>0, <2>1 DEF Looping
  <2>3. agent'[p].known = known /\ agent'[p].loaded
    BY <1>0, <2>1, <2>2 DEF AgentType
  <2> HIDE DEF known
  <2>4. MemoryInv'
    BY <2>1, <2>3, MemoryFrame
  <2> QED
    BY <2>1, <2>2, <2>4 DEF known
<1>13. ASSUME NEW p \in Procs, SaveProjectState(p) PROVE Goal
  <2>1. agent[p].loaded /\ projectState \subseteq agent[p].known
    BY <1>0, <1>13 DEF SaveProjectState, At, Looping, FinishLabels
  <2>2. projectState' = agent[p].known /\ UNCHANGED agent
    BY <1>13 DEF SaveProjectState
  <2>3. MemoryInv'
    BY <2>1, <2>2, MemoryFrame
  <2> QED
    BY <2>1, <2>2, <2>3
<1>14. ASSUME NEW p \in Procs, EndTheLoop(p) PROVE Goal
  <2>1. pc[p] \in Looping /\ UNCHANGED projectState
    BY <1>14 DEF EndTheLoop, At, Looping, FinishLabels
  <2>2. agent'[p] = EndLoop(agent[p])
    BY <1>0, <1>14 DEF EndTheLoop, SetAgent
  <2> QED
    BY <1>0, <1>1, <2>1, <2>2, MethodsForget
<1>15. ASSUME NEW p \in Procs, StartPostloop(p) PROVE Goal
  <2>1. Goto(p, "postloop") /\ UNCHANGED projectState
    BY <1>15 DEF StartPostloop
  <2>2. pc'[p] = "postloop"
    BY <1>0, <2>1 DEF Goto
  <2>3. CASE Implement(p)
    <3> DEFINE e == EndPhase(agent[p], "loop")
    <3>1. e \in AgentType(Ids) /\ e.loaded = agent[p].loaded /\ e.known = agent[p].known
      BY <1>0, MethodsForget DEF EndPhase, AgentType
    <3>2. agent'[p] = StartPhase(e, "postloop")
      BY <1>0, <1>15, <2>3 DEF StartPostloop, SetAgent
    <3> HIDE DEF e
    <3>3. agent'[p].loaded = agent[p].loaded /\ agent'[p].known = agent[p].known
      BY <3>1, <3>2, MethodsForget
    <3> QED
      BY <1>1, <2>1, <2>2, <3>3 DEF Looping, FinishLabels
  <2>4. CASE ~Implement(p)
    BY <1>2, <1>15, <2>1, <2>4 DEF StartPostloop, Looping, FinishLabels
  <2> QED
    BY <2>3, <2>4
<1>16. ASSUME NEW p \in Procs, NEW ok \in BOOLEAN, NEW decision \in Decisions,
              ResumedTurn(p, ok, decision)
       PROVE  Goal
  <2>1. pc[p] \in Looping /\ UNCHANGED projectState
    BY <1>16 DEF ResumedTurn, At, Looping
  <2>2. agent'[p] = CompleteTurn(agent[p], decision)
    BY <1>0, <1>16 DEF ResumedTurn, SetAgent
  <2> QED
    BY <1>0, <1>1, <2>1, <2>2, MethodsForget
<1>17. ASSUME NEW p \in Procs, ResumedTurnRaises(p) PROVE Goal
  BY <1>2, <1>17 DEF ResumedTurnRaises, At, Looping
<1>18. ASSUME NEW p \in Procs, CloseResume(p) \/ ResumeRaises(p) PROVE Goal
  <2>1. Goto(p, "idle") /\ UNCHANGED projectState
    BY <1>18 DEF CloseResume, ResumeRaises, Finished
  <2>2. pc'[p] = "idle"
    BY <1>0, <2>1 DEF Goto
  <2>3. PICK a \in {agent[p], EndLoop(agent[p])} : agent'[p] = EndLifecycle(EndPhase(a, "loop"))
    BY <1>0, <1>18 DEF CloseResume, ResumeRaises, SetAgent
  <2>4. a \in AgentType(Ids) /\ a.loaded = agent[p].loaded /\ a.known = agent[p].known
    <3>1. agent[p] \in AgentType(Ids)
      BY <1>0
    <3>2. EndLoop(agent[p]) \in AgentType(Ids)
      BY <3>1 DEF EndLoop, AgentType
    <3>3. /\ EndLoop(agent[p]).loaded = agent[p].loaded
          /\ EndLoop(agent[p]).known = agent[p].known
      BY <3>1, MethodsForget
    <3>4. a = agent[p] \/ a = EndLoop(agent[p])
      OBVIOUS
    <3> QED
      BY <3>1, <3>2, <3>3, <3>4
  <2> DEFINE e == EndPhase(a, "loop")
  <2>5. e \in AgentType(Ids) /\ e.loaded = a.loaded /\ e.known = a.known
    BY <2>4, MethodsForget DEF EndPhase, AgentType
  <2> HIDE DEF e
  <2>6. agent'[p].loaded = e.loaded /\ agent'[p].known = e.known
    BY <2>3, <2>5, MethodsForget DEF e
  <2> QED
    BY <1>1, <2>1, <2>2, <2>4, <2>5, <2>6 DEF Looping, FinishLabels
<1>19. ASSUME NEW p \in Procs, DelegateRaises(p) PROVE Goal
  <2>1. Goto(p, "idle") /\ UNCHANGED projectState
    BY <1>19 DEF DelegateRaises, Finished
  <2>2. pc'[p] = "idle"
    BY <1>0, <2>1 DEF Goto
  <2>3. UNCHANGED agent \/ CloseLifecycleOnce(p)
    BY <1>19 DEF DelegateRaises
  <2>4. agent'[p].loaded = agent[p].loaded /\ agent'[p].known = agent[p].known
    BY <2>3, CloseForgets
  <2> QED
    BY <1>1, <2>1, <2>2, <2>4 DEF Looping, FinishLabels
<1>20. ASSUME NEW p \in Procs, Crash(p) PROVE Goal
  <2>1. agent'[p] = NewAgent /\ pc'[p] = "idle" /\ UNCHANGED projectState
    BY <1>0, <1>20 DEF Crash, SetAgent, Goto
  <2>2. ~agent'[p].loaded
    BY <2>1 DEF NewAgent
  <2> QED
    BY <2>1, <2>2, MemoryFrame DEF Looping, FinishLabels
<1>21. ASSUME NEW p \in Procs, NEW mode, NEW fresh, NEW answer, Arrive(p, mode, fresh, answer)
       PROVE  Goal
  BY <1>2, <1>21 DEF Arrive, Looping, FinishLabels
<1>22. ASSUME UNCHANGED vars \/ \E f \in files : Expire(f) PROVE Goal
  BY <1>0, <1>22 DEF vars, Expire, MemoryInv
<1> HIDE DEF Goal
<1>23. ASSUME NEW p \in Procs, Step(p) PROVE Goal
  <2>1. CASE Routing(p)
    BY <1>3, <1>4, <2>1 DEF Routing
  <2>2. CASE Preloop(p)
    BY <1>5, <1>6, <1>7, <1>8, <2>2 DEF Preloop
  <2>3. CASE Loop(p)
    BY <1>9, <1>10, <1>11, <1>13, <1>14, <2>3 DEF Loop
  <2>4. CASE Postloop(p)
    BY <1>6, <1>7, <1>15, <2>4 DEF Postloop
  <2>5. CASE Resumption(p)
    BY <1>16, <1>17, <1>18, <2>5 DEF Resumption
  <2> QED
    BY <1>18, <1>19, <1>23, <2>1, <2>2, <2>3, <2>4, <2>5 DEF Step
<1>24. Goal
  BY <1>12, <1>20, <1>21, <1>22, <1>23 DEF Next
<1> QED
  BY <1>24 DEF Goal

\* What project_state.json holds no save loses: with one process, the copy the
\* agent loaded has everything of the file whenever it is written back.
THEOREM ProjectMemoryIsKept == OneProcess /\ Spec => ProjectMemoryKept
<1> SUFFICES ASSUME OneProcess PROVE Spec => ProjectMemoryKept
  OBVIOUS
<1>1. Init => MemoryInv
  BY DEF Init, MemoryInv, NewAgent, Looping, FinishLabels
<1>2. TypeInv /\ MemoryInv /\ [Next]_vars => MemoryInv'
  BY MemoryStep
<1>3. TypeInv /\ MemoryInv /\ [Next]_vars => [projectState \subseteq projectState']_vars
  BY MemoryStep
<1> QED
  BY TypeInit, TypeStep, <1>1, <1>2, <1>3, PTL DEF Spec, ProjectMemoryKept

-----------------------------------------------------------------------------
(***************************************************************************)
(* One process: the newest pause, and the question an answer reaches.      *)
(***************************************************************************)
\* Where a call has passed the routing and has filed no clarity pause.
PastRouting ==
  Labels \ {"idle", "routing", "clarityPaused", "recording", "appended", "returning"}

LiveClarity == {f \in Live(files, expired) : f.reason = "clarity_check"}

\* Token t, unless it expired, is the one the next find_latest returns.
Latest(t) ==
  \/ t \in expired \cup {0}
  \/ /\ \E f \in files : f.tok = t
     /\ \A g \in Live(files, expired) : g.tok <= t

\* Tokens are fresh and identify their file.
TokensFresh ==
  /\ \A f \in files : f.tok < nextTok
  /\ \A f, g \in files : f.tok = g.tok => f = g

\* What a call in progress knows of the pauses.
PauseKnown(p) ==
  /\ At(p, "routing") =>
       /\ call[p].seen \in files \cup {NoPause}
       /\ call[p].tok = 0
       /\ Latest(call[p].seen.tok)
       /\ \A f \in LiveClarity : f.tok = call[p].seen.tok
  /\ pc[p] \in PastRouting => LiveClarity = {}
  /\ IF At(p, "idle") THEN Latest(reply[p].tok) ELSE Latest(call[p].tok)

PauseInv ==
  /\ TokensFresh
  /\ ClarityPauseIsNewest
  /\ \A p \in Procs : PauseKnown(p)

\* A step in the middle of a call that files and consumes nothing.
LEMMA CallGoesOn ==
  ASSUME OneProcess, TypeInv, PauseInv, NEW p \in Procs,
         UNCHANGED <<files, expired, nextTok>>,
         pc[p] # "idle", pc'[p] \in Labels \ {"idle", "routing"},
         pc'[p] \in PastRouting => pc[p] \in PastRouting,
         call'[p].tok = call[p].tok
  PROVE  PauseInv'
<1>1. TokensFresh' /\ ClarityPauseIsNewest'
  BY DEF PauseInv, TokensFresh, ClarityPauseIsNewest
<1>2. PauseKnown(p)
  BY DEF PauseInv
<1>3. Latest(call[p].tok)' /\ LiveClarity' = LiveClarity
  BY <1>2 DEF Latest, LiveClarity, PauseKnown, At
<1>4. PauseKnown(p)'
  BY <1>2, <1>3 DEF PauseKnown, At, Latest
<1>5. \A q \in Procs : q = p
  BY DEF OneProcess
<1> QED
  BY <1>1, <1>4, <1>5 DEF PauseInv

\* A call ends and gives its host a token that is the latest, or none.
LEMMA CallEnds ==
  ASSUME OneProcess, TypeInv, PauseInv, NEW p \in Procs, NEW t,
         UNCHANGED <<files, expired, nextTok>>,
         pc'[p] = "idle", reply'[p].tok = t, Latest(t)
  PROVE  PauseInv'
<1>1. TokensFresh' /\ ClarityPauseIsNewest'
  BY DEF PauseInv, TokensFresh, ClarityPauseIsNewest
<1>2. Latest(reply[p].tok)'
  BY DEF Latest
<1>3. PauseKnown(p)'
  BY <1>2 DEF PauseKnown, At, PastRouting
<1>4. \A q \in Procs : q = p
  BY DEF OneProcess
<1> QED
  BY <1>1, <1>3, <1>4 DEF PauseInv

\* A pause is filed while no clarity pause is live.
LEMMA PauseFiled ==
  ASSUME OneProcess, TypeInv, PauseInv, NEW p \in Procs,
         NEW reason, NEW turn, FilePause(p, reason, turn), UNCHANGED expired,
         pc[p] \in PastRouting, pc'[p] \in Labels \ {"idle", "routing"},
         pc'[p] \in PastRouting => reason # "clarity_check",
         call'[p].tok = nextTok
  PROVE  PauseInv'
<1> DEFINE f == Pause(nextTok, call[p].id, reason, turn, agent[p].reviewer)
<1>1. /\ f.tok = nextTok /\ f.reason = reason
      /\ files' = files \cup {f} /\ nextTok' = nextTok + 1
  BY DEF FilePause, Pause
<1> HIDE DEF f
<1>2. /\ nextTok \in Nat \ {0} /\ \A g \in files : g.tok \in Nat
  BY DEF TypeInv, TypeOK, Pauses, Tokens
<1>3. TokensFresh /\ LiveClarity = {}
  BY DEF PauseInv, PauseKnown
<1>4. \A g \in files' : g = f \/ (g \in files /\ g.tok < nextTok)
  BY <1>1, <1>3 DEF TokensFresh
<1>5. TokensFresh'
  <2>1. \A g \in files' : g.tok < nextTok'
    BY <1>1, <1>2, <1>4
  <2>2. \A g, h \in files' : g.tok = h.tok => g = h
    BY <1>1, <1>2, <1>3, <1>4 DEF TokensFresh
  <2> QED
    BY <2>1, <2>2 DEF TokensFresh
<1>6. \A g \in LiveClarity' : g = f /\ reason = "clarity_check"
  BY <1>1, <1>3 DEF LiveClarity, Live
<1>7. \A g \in files' : g.tok <= f.tok
  BY <1>1, <1>2, <1>4
<1>8. ClarityPauseIsNewest'
  BY <1>6, <1>7 DEF ClarityPauseIsNewest, LiveClarity
<1>9. Latest(call[p].tok)'
  BY <1>1, <1>7 DEF Latest, Live
<1>10. PauseKnown(p)'
  BY <1>6, <1>9 DEF PauseKnown, At
<1>11. \A q \in Procs : q = p
  BY DEF OneProcess
<1> QED
  BY <1>5, <1>8, <1>10, <1>11 DEF PauseInv

\* The call leaves the routing with no clarity pause live.
LEMMA RoutedPauses ==
  ASSUME OneProcess, TypeInv, PauseInv, NEW p \in Procs,
         UNCHANGED <<expired, nextTok>>, files' \subseteq files,
         pc'[p] \in PastRouting, call'[p].tok = 0, LiveClarity' = {}
  PROVE  PauseInv'
<1>1. TokensFresh'
  BY DEF PauseInv, TokensFresh
<1>2. ClarityPauseIsNewest'
  BY DEF ClarityPauseIsNewest, LiveClarity
<1>3. PauseKnown(p)'
  BY DEF PauseKnown, At, PastRouting, Latest
<1>4. \A q \in Procs : q = p
  BY DEF OneProcess
<1> QED
  BY <1>1, <1>2, <1>3, <1>4 DEF PauseInv

\* What find_latest returns is the latest, and the clarity pause if one is live.
LEMMA FindLatestFinds ==
  ASSUME TypeInv, PauseInv
  PROVE  /\ FindLatest(files, expired) \in files \cup {NoPause}
         /\ Latest(FindLatest(files, expired).tok)
         /\ \A f \in LiveClarity : f.tok = FindLatest(files, expired).tok
         /\ \A t : (t \notin expired \cup {0} /\ Latest(t)) => FindLatest(files, expired).tok = t
<1> DEFINE newest == {f \in Live(files, expired) : \A g \in Live(files, expired) : g.tok <= f.tok}
           seen == FindLatest(files, expired)
<1>1. seen = IF newest = {} THEN NoPause ELSE CHOOSE f \in newest : TRUE
  BY DEF FindLatest
<1>2. \A f \in files : f.tok \in Nat
  BY DEF TypeInv, TypeOK, Pauses, Tokens
<1>3. newest # {} => seen \in newest
  BY <1>1
<1>4. newest = {} => seen = NoPause
  BY <1>1
<1>5. NoPause.tok = 0
  BY DEF NoPause
<1> HIDE DEF seen
<1>6. \A f \in newest : f \in files /\ \A g \in newest : g.tok = f.tok
  BY <1>2 DEF Live
<1>7. \A f \in LiveClarity : f \in newest
  BY DEF PauseInv, ClarityPauseIsNewest, LiveClarity, Live
<1>8. \A t : (t \notin expired \cup {0} /\ Latest(t)) => \E f \in newest : f.tok = t
  BY DEF Latest, Live
<1>9. seen \in files \cup {NoPause} /\ Latest(seen.tok)
  BY <1>3, <1>4, <1>5 DEF Latest, Live
<1> HIDE DEF newest
<1> QED
  BY <1>3, <1>6, <1>7, <1>8, <1>9 DEF seen

\* The changes of the local variables that leave the token of the filed pause.
LEMMA TokStays ==
  ASSUME TypeInv, NEW p \in Procs,
         \/ UNCHANGED call
         \/ \E o : call' = [call EXCEPT ![p].outcome = o]
         \/ \E o, e : call' = [call EXCEPT ![p].ok = o, ![p].engine = e]
         \/ \E pkg : call' = [call EXCEPT ![p].pkg = pkg, ![p].from = 0]
  PROVE  call'[p].tok = call[p].tok
<1>1. call \in [Procs -> CallType] /\ call[p] \in CallType
  BY DEF TypeInv, TypeOK
<1>2. ASSUME NEW o, call' = [call EXCEPT ![p].outcome = o] PROVE call'[p].tok = call[p].tok
  BY <1>1, <1>2 DEF CallType
<1>3. ASSUME NEW o, NEW e, call' = [call EXCEPT ![p].ok = o, ![p].engine = e]
      PROVE  call'[p].tok = call[p].tok
  BY <1>1, <1>3 DEF CallType
<1>4. ASSUME NEW pkg, call' = [call EXCEPT ![p].pkg = pkg, ![p].from = 0]
      PROVE  call'[p].tok = call[p].tok
  BY <1>1, <1>4 DEF CallType
<1> QED
  BY <1>2, <1>3, <1>4

LEMMA PausesStep ==
  ASSUME OneProcess
  PROVE  TypeInv /\ PauseInv /\ [Next]_vars => PauseInv'
<1> SUFFICES ASSUME TypeInv, PauseInv, [Next]_vars PROVE PauseInv'
  OBVIOUS
<1> USE DEF clockVars, diskVars, procVars
<1>0. /\ pc \in [Procs -> Labels] /\ call \in [Procs -> CallType]
      /\ reply \in [Procs -> [outcome : ReplyOutcomes, tok : Tokens \cup {0},
                              resumed : Tokens \cup {0}]]
  BY DEF TypeInv, TypeOK
\* The label the call goes on to, and the one it comes from.
<1>1. ASSUME NEW p \in Procs, NEW from, NEW label, At(p, from), Goto(p, label),
             from \in Labels \ {"idle"}, label \in Labels \ {"idle", "routing"},
             label \in PastRouting => from \in PastRouting,
             UNCHANGED <<files, expired, nextTok>>, call'[p].tok = call[p].tok
      PROVE  PauseInv'
  BY <1>0, <1>1, CallGoesOn DEF At, Goto
<1>2. ASSUME NEW p \in Procs, NEW outcome, NEW t, NEW resumed,
             Finished(p, outcome, t, resumed), Latest(t),
             UNCHANGED <<files, expired, nextTok>>
      PROVE  PauseInv'
  BY <1>0, <1>2, CallEnds DEF Finished, Goto
<1>3. Latest(0)
  BY DEF Latest
<1>4. \A p \in Procs : ~At(p, "idle") => Latest(call[p].tok)
  BY DEF PauseInv, PauseKnown
\* A process at the routing knows the clarity pause that is live.
<1>5. ASSUME NEW p \in Procs, At(p, "routing")
      PROVE  /\ call[p].seen \in files \cup {NoPause} /\ call[p].tok = 0
             /\ Latest(call[p].seen.tok)
             /\ \A f \in LiveClarity : f = call[p].seen
  <2>1. \A f \in LiveClarity : f.tok = call[p].seen.tok /\ f \in files
    BY <1>5 DEF PauseInv, PauseKnown, LiveClarity, Live
  <2>2. call[p].seen \in files \cup {NoPause}
    BY <1>5 DEF PauseInv, PauseKnown
  <2>3. \A f \in files : f.tok # 0
    BY DEF TypeInv, TypeOK, Pauses, Tokens
  <2>4. \A f \in LiveClarity : call[p].seen # NoPause
    BY <2>1, <2>3 DEF NoPause
  <2> QED
    BY <1>5, <2>1, <2>2, <2>4 DEF PauseInv, PauseKnown, TokensFresh
<1>6. ASSUME NEW p \in Procs, RouteFresh(p) \/ RouteClarityReentry(p) PROVE PauseInv'
  <2>1. /\ At(p, "routing") /\ Goto(p, "armed") /\ UNCHANGED <<expired, nextTok>>
        /\ files' = Abandon(files, call[p].seen)
    BY <1>6 DEF RouteFresh, RouteClarityReentry
  <2>2. call'[p].tok = call[p].tok
    <3>1. call[p] \in CallType
      BY <1>0
    <3>2. CASE RouteFresh(p)
      BY <1>0, <3>1, <3>2 DEF RouteFresh, CallType
    <3>3. CASE RouteClarityReentry(p)
      BY <1>0, <3>1, <3>3 DEF RouteClarityReentry, CallType
    <3> QED
      BY <1>6, <3>2, <3>3
  <2>3. LiveClarity' = {}
    BY <1>5, <2>1 DEF LiveClarity, Live, Abandon
  <2>4. pc'[p] = "armed" /\ files' \subseteq files
    BY <1>0, <2>1 DEF Goto, Abandon
  <2> QED
    BY <1>5, <2>1, <2>2, <2>3, <2>4, RoutedPauses DEF PastRouting, Labels
<1>7. ASSUME NEW p \in Procs, RouteReminder(p) PROVE PauseInv'
  BY <1>2, <1>5, <1>7 DEF RouteReminder
<1>8. ASSUME NEW p \in Procs, RouteResume(p) PROVE PauseInv'
  <2>1. At(p, "routing") /\ Goto(p, "resuming") /\ UNCHANGED <<files, expired, nextTok>>
    BY <1>8 DEF RouteResume
  <2>2. call'[p].tok = 0
    <3>1. \E i, f, l : call' = [call EXCEPT ![p] =
             [NoCall EXCEPT !.id = i, !.kind = "resume", !.from = f, !.logged = l]]
      BY <1>8 DEF RouteResume
    <3> QED
      BY <1>0, <3>1 DEF NoCall
  <2>3. LiveClarity = {}
    BY <1>5, <1>8, <2>1 DEF RouteResume, Escalation, LiveClarity
  <2>4. LiveClarity' = {} /\ pc'[p] = "resuming"
    BY <1>0, <2>1, <2>3 DEF LiveClarity, Goto
  <2> QED
    BY <2>1, <2>2, <2>4, RoutedPauses DEF PastRouting, Labels
<1>9. ASSUME NEW p \in Procs, NEW mode, NEW fresh, NEW answer, Arrive(p, mode, fresh, answer)
      PROVE  PauseInv'
  <2>1. Goto(p, "routing") /\ UNCHANGED <<files, expired, nextTok>>
    BY <1>9 DEF Arrive
  <2>2. call'[p].seen = FindLatest(files, expired) /\ call'[p].tok = 0
    BY <1>0, <1>9 DEF Arrive, NoCall
  <2>3. TokensFresh' /\ ClarityPauseIsNewest'
    BY <2>1 DEF PauseInv, TokensFresh, ClarityPauseIsNewest
  <2>4. pc'[p] = "routing" /\ LiveClarity' = LiveClarity
    BY <1>0, <2>1 DEF Goto, LiveClarity
  <2>5. Latest(call[p].seen.tok)' /\ Latest(call[p].tok)'
    BY <2>1, <2>2, FindLatestFinds DEF Latest
  <2>6. PauseKnown(p)'
    BY <2>1, <2>2, <2>4, <2>5, FindLatestFinds DEF PauseKnown, At, PastRouting
  <2>7. \A q \in Procs : q = p
    BY DEF OneProcess
  <2> QED
    BY <2>3, <2>6, <2>7 DEF PauseInv
<1>10. ASSUME NEW p \in Procs, SaveClarityPause(p) \/ SavePause(p) PROVE PauseInv'
  <2>1. call'[p].tok = nextTok /\ UNCHANGED expired
    BY <1>0, <1>10 DEF SaveClarityPause, SavePause, CallType
  <2>2. CASE SaveClarityPause(p)
    <3>1. /\ pc[p] = "clarity" /\ pc'[p] = "clarityPaused"
          /\ FilePause(p, "clarity_check", 0)
      BY <1>0, <2>2 DEF SaveClarityPause, At, Goto
    <3> QED
      BY <2>1, <3>1, PauseFiled DEF PastRouting, Labels
  <2>3. CASE SavePause(p)
    <3>1. /\ pc[p] = "pausing" /\ pc'[p] = "ending"
          /\ FilePause(p, PauseReason(agent[p]), agent[p].cur)
      BY <1>0, <2>3 DEF SavePause, At, Goto
    <3>2. PauseReason(agent[p]) # "clarity_check"
      BY DEF PauseReason
    <3> QED
      BY <2>1, <3>1, <3>2, PauseFiled DEF PastRouting, Labels
  <2> QED
    BY <1>10, <2>2, <2>3
<1>11. ASSUME NEW p \in Procs, Preloop(p), ~SaveClarityPause(p) PROVE PauseInv'
  <2>1. UNCHANGED <<files, expired, nextTok>>
    BY <1>11 DEF Preloop, OpenEnvelope, InvalidSpec, ReviewTargetsError, ClarityBlocks,
                 ClarityPauseNotSaved, CloseForClarity, EnterLoop
  <2>2. \E from \in {"armed", "preloop", "clarity", "clarityPaused"},
           label \in {"preloop", "recording", "clarity", "clarityPaused", "executing"} :
          /\ At(p, from) /\ Goto(p, label)
          /\ label \in PastRouting => from \in PastRouting
    <3>1. CASE OpenEnvelope(p) \/ ClarityBlocks(p) \/ InvalidSpec(p) \/ ReviewTargetsError(p)
               \/ \E pkg \in BOOLEAN : EnterLoop(p, pkg)
      <4>1. /\ At(p, "armed") \/ At(p, "preloop")
            /\ \E label \in {"preloop", "recording", "clarity", "executing"} : Goto(p, label)
        BY <3>1 DEF OpenEnvelope, ClarityBlocks, InvalidSpec, ReviewTargetsError, EnterLoop
      <4> QED
        BY <4>1 DEF PastRouting, Labels
    <3>2. CASE ClarityPauseNotSaved(p) \/ CloseForClarity(p)
      <4>1. /\ At(p, "clarity") \/ At(p, "clarityPaused")
            /\ Goto(p, "clarityPaused") \/ Goto(p, "recording")
        BY <3>2 DEF ClarityPauseNotSaved, CloseForClarity
      <4> QED
        BY <4>1 DEF PastRouting
    <3> QED
      BY <1>11, <3>1, <3>2 DEF Preloop
  <2>3. call'[p].tok = call[p].tok
    BY <1>11, TokStays
       DEF Preloop, OpenEnvelope, InvalidSpec, ReviewTargetsError, ClarityBlocks,
           ClarityPauseNotSaved, CloseForClarity, EnterLoop
  <2> QED
    BY <1>1, <2>1, <2>2, <2>3 DEF Labels
<1>12. ASSUME NEW p \in Procs, Loop(p) \/ PlannerRecords(p), ~SavePause(p) PROVE PauseInv'
  <2>1. UNCHANGED <<files, expired, nextTok>>
    BY <1>12 DEF Loop, PlannerRecords, ExecutorReturns, FirstTurnRaises, RetryRaises,
                 CompleteTheTurn, EndTheLoop, SaveProjectState, SaveCheckpoint, CheckpointNotSaved
  <2>2. /\ pc[p] \in Looping
        /\ pc'[p] \in Looping \cup {"looped", "resumed"}
    <3>1. CASE PlannerRecords(p)
      BY <3>1 DEF PlannerRecords, At, Looping
    <3>2. CASE Loop(p)
      <4>1. /\ pc[p] \in Looping
            /\ \/ \E label \in Looping \cup {"looped", "resumed"} : Goto(p, label)
               \/ \E a, ok : Conclude(p, a, ok)
        <5> USE DEF At, Looping, FinishLabels
        <5>1. CASE \/ \E ok \in BOOLEAN : ExecutorReturns(p, ok)
                   \/ \E bound \in BOOLEAN : FirstTurnRaises(p, bound)
                   \/ RetryRaises(p)
          BY <5>1 DEF ExecutorReturns, FirstTurnRaises, RetryRaises
        <5>2. CASE \E verdict \in ReviewerResults, decision \in Decisions :
                     CompleteTheTurn(p, verdict, decision)
          BY <5>2 DEF CompleteTheTurn
        <5>3. CASE \/ EndTheLoop(p) \/ SaveProjectState(p) \/ SaveCheckpoint(p)
                   \/ CheckpointNotSaved(p)
          BY <5>3 DEF EndTheLoop, SaveProjectState, SaveCheckpoint, CheckpointNotSaved,
               LeaveLoop
        <5> QED
          BY <1>12, <3>2, <5>1, <5>2, <5>3 DEF Loop
      <4>2. ASSUME NEW a, NEW ok, Conclude(p, a, ok)
            PROVE  \E label \in Looping \cup {"looped", "resumed"} : Goto(p, label)
        BY <4>2 DEF Conclude, AfterLoop, Looping, FinishLabels
      <4> QED
        BY <1>0, <4>1, <4>2 DEF Goto
    <3> QED
      BY <1>12, <3>1, <3>2
  <2>3. call'[p].tok = call[p].tok
    <3>1. CASE PlannerRecords(p) \/ EndTheLoop(p) \/ SaveProjectState(p)
               \/ SaveCheckpoint(p) \/ CheckpointNotSaved(p)
      BY <3>1 DEF PlannerRecords, EndTheLoop, SaveProjectState, SaveCheckpoint,
                  CheckpointNotSaved
    <3>2. CASE \/ \E ok \in BOOLEAN : ExecutorReturns(p, ok)
               \/ \E bound \in BOOLEAN : FirstTurnRaises(p, bound)
      <4>1. \E o, e : call' = [call EXCEPT ![p].ok = o, ![p].engine = e]
        BY <3>2 DEF ExecutorReturns, FirstTurnRaises
      <4> QED
        BY <4>1, TokStays
    <3>3. CASE \/ RetryRaises(p)
               \/ \E verdict \in ReviewerResults, decision \in Decisions :
                    CompleteTheTurn(p, verdict, decision)
      <4>1. RetryRaises(p) => \E o : call' = [call EXCEPT ![p].outcome = o]
        BY DEF RetryRaises, Conclude
      <4>2. ASSUME NEW verdict \in ReviewerResults, NEW decision \in Decisions,
                   CompleteTheTurn(p, verdict, decision)
            PROVE  UNCHANGED call \/ \E a, ok : Conclude(p, a, ok)
        BY <4>2 DEF CompleteTheTurn
      <4>3. UNCHANGED call \/ \E o : call' = [call EXCEPT ![p].outcome = o]
        BY <3>3, <4>1, <4>2 DEF Conclude
      <4> QED
        BY <4>3, TokStays
    <3> QED
      BY <1>12, <3>1, <3>2, <3>3 DEF Loop
  <2> QED
    BY <2>1, <2>2, <2>3, CallGoesOn DEF Looping, FinishLabels, PastRouting, Labels
<1>13. ASSUME NEW p \in Procs,
              \/ StartPostloop(p) \/ FinishPostloop(p) \/ AppendRecord(p) \/ TouchSession(p)
       PROVE  PauseInv'
  <2>1. UNCHANGED <<files, expired, nextTok>>
    BY <1>13 DEF StartPostloop, FinishPostloop, AppendRecord, TouchSession, diskVars
  <2>2. \E from \in {"looped", "postloop", "recording", "appended"},
           label \in {"postloop", "recording", "appended", "returning"} :
          /\ At(p, from) /\ Goto(p, label)
          /\ label \in PastRouting => from \in PastRouting
    BY <1>13 DEF StartPostloop, FinishPostloop, AppendRecord, TouchSession, PastRouting,
                 Labels
  <2>3. call'[p].tok = call[p].tok
    BY <1>0, <1>13 DEF StartPostloop, FinishPostloop, AppendRecord, TouchSession, CallType
  <2> QED
    BY <1>1, <2>1, <2>2, <2>3 DEF Labels
<1>14. ASSUME NEW p \in Procs, Return(p) \/ CloseResume(p) PROVE PauseInv'
  <2>1. Latest(call[p].tok)
    BY <1>4, <1>14 DEF Return, CloseResume, At
  <2> QED
    BY <1>2, <1>14, <2>1 DEF Return, CloseResume
<1>15. ASSUME NEW p \in Procs,
              \/ \E ok \in BOOLEAN, decision \in Decisions : ResumedTurn(p, ok, decision)
              \/ ResumedTurnRaises(p)
       PROVE  PauseInv'
  <2>1. /\ At(p, "resuming") /\ UNCHANGED <<files, expired, nextTok>>
        /\ \E label \in {"pausing", "ending"} : Goto(p, label)
    BY <1>15 DEF ResumedTurn, ResumedTurnRaises, Conclude, AfterLoop
  <2>2. call'[p].tok = call[p].tok
    BY <1>0, <1>15 DEF ResumedTurn, ResumedTurnRaises, Conclude, CallType
  <2> QED
    BY <1>1, <2>1, <2>2 DEF PastRouting, Labels
<1>16. ASSUME NEW p \in Procs, DelegateRaises(p) \/ ResumeRaises(p) PROVE PauseInv'
  BY <1>2, <1>3, <1>16 DEF DelegateRaises, ResumeRaises
<1>17. ASSUME NEW p \in Procs, Crash(p) PROVE PauseInv'
  <2>1. /\ UNCHANGED <<files, expired, nextTok>>
        /\ pc'[p] = "idle" /\ reply'[p].tok = 0
    BY <1>0, <1>17 DEF Crash, Goto, NoReply
  <2> QED
    BY <1>3, <2>1, CallEnds
<1>18. ASSUME NEW f \in files, Expire(f) PROVE PauseInv'
  <2>1. UNCHANGED <<pc, call, reply, files, nextTok>> /\ expired' = expired \cup {f.tok}
    BY <1>18 DEF Expire
  <2>2. Live(files, expired)' \subseteq Live(files, expired) /\ LiveClarity' \subseteq LiveClarity
    BY <2>1 DEF Live, LiveClarity
  <2>3. TokensFresh' /\ ClarityPauseIsNewest'
    BY <2>1, <2>2 DEF PauseInv, TokensFresh, ClarityPauseIsNewest
  <2>4. /\ \A p \in Procs : Latest(call[p].tok) => Latest(call[p].tok)'
        /\ \A p \in Procs : Latest(call[p].seen.tok) => Latest(call[p].seen.tok)'
        /\ \A p \in Procs : Latest(reply[p].tok) => Latest(reply[p].tok)'
    BY <2>1, <2>2 DEF Latest
  <2>5. \A p \in Procs : PauseKnown(p) => PauseKnown(p)'
    BY <2>1, <2>2, <2>4 DEF PauseKnown, At
  <2> QED
    BY <2>3, <2>5 DEF PauseInv
<1>19. ASSUME UNCHANGED vars PROVE PauseInv'
  BY <1>19 DEF vars, PauseInv, TokensFresh, ClarityPauseIsNewest, PauseKnown, At, Latest,
               LiveClarity
<1>20. ASSUME NEW p \in Procs, Step(p) PROVE PauseInv'
  <2>1. CASE Routing(p)
    BY <1>6, <1>7, <1>8, <2>1 DEF Routing
  <2>2. CASE Preloop(p)
    BY <1>10, <1>11, <2>2
  <2>3. CASE Loop(p)
    BY <1>10, <1>12, <2>3
  <2>4. CASE Postloop(p)
    BY <1>13, <1>14, <2>4 DEF Postloop
  <2>5. CASE Resumption(p)
    BY <1>14, <1>15, <2>5 DEF Resumption
  <2> QED
    BY <1>16, <1>20, <2>1, <2>2, <2>3, <2>4, <2>5 DEF Step
<1>21. ASSUME NEW p \in Procs, PlannerRecords(p) PROVE PauseInv'
  <2>1. ~SavePause(p)
    BY <1>21 DEF PlannerRecords, SavePause, At
  <2> QED
    BY <1>12, <1>21, <2>1
<1> QED
  BY <1>9, <1>17, <1>18, <1>19, <1>20, <1>21 DEF Next

LEMMA PausesInit == Init => PauseInv
  BY DEF Init, PauseInv, TokensFresh, ClarityPauseIsNewest, PauseKnown, At, Latest, Live,
         LiveClarity, PastRouting, NoReply

\* An unexpired clarity pause is the newest file: the process files nothing before
\* it has routed a call to it.
THEOREM ClarityPauseStaysNewest == OneProcess /\ Spec => []ClarityPauseIsNewest
<1> SUFFICES ASSUME OneProcess PROVE Spec => []ClarityPauseIsNewest
  OBVIOUS
<1>1. TypeInv /\ PauseInv /\ [Next]_vars => PauseInv'
  BY PausesStep
<1>2. PauseInv => ClarityPauseIsNewest
  BY DEF PauseInv
<1> QED
  BY TypeInit, TypeStep, PausesInit, <1>1, <1>2, PTL DEF Spec

\* The host's next call finds the pause whose question it was last asked.
THEOREM AnswersReachTheirQuestion == OneProcess /\ Spec => AnswerReachesItsQuestion
<1> DEFINE Reaches ==
      \A p \in Procs :
        (/\ At(p, "idle") /\ pc'[p] = "routing"
         /\ reply[p].tok # 0 /\ reply[p].tok \notin expired)
          => call'[p].seen.tok = reply[p].tok
<1> SUFFICES ASSUME OneProcess PROVE Spec => AnswerReachesItsQuestion
  OBVIOUS
<1>1. TypeInv /\ PauseInv /\ [Next]_vars => PauseInv'
  BY PausesStep
<1>2. TypeInv /\ PauseInv /\ [Next]_vars => [Reaches]_vars
  <2> SUFFICES ASSUME TypeInv, PauseInv, Next, NEW p \in Procs, At(p, "idle"),
                      pc'[p] = "routing", reply[p].tok # 0, reply[p].tok \notin expired
               PROVE  call'[p].seen.tok = reply[p].tok
    OBVIOUS
  <2>1. pc \in [Procs -> Labels] /\ call \in [Procs -> CallType] /\ \A q \in Procs : q = p
    BY DEF TypeInv, TypeOK, OneProcess
  <2>2. ~Step(p) /\ ~PlannerRecords(p)
    BY DEF Step, Routing, RouteFresh, RouteClarityReentry, RouteReminder, RouteResume,
           Preloop, OpenEnvelope, InvalidSpec, ReviewTargetsError, ClarityBlocks,
           SaveClarityPause, ClarityPauseNotSaved, CloseForClarity, EnterLoop, Loop,
           ExecutorReturns, FirstTurnRaises, RetryRaises, CompleteTheTurn, SavePause,
           EndTheLoop, SaveProjectState, SaveCheckpoint, CheckpointNotSaved, Postloop,
           StartPostloop, FinishPostloop, AppendRecord, TouchSession, Return, Resumption,
           ResumedTurn, ResumedTurnRaises, CloseResume, DelegateRaises, ResumeRaises, MayRaise,
           PlannerRecords, At
  <2>3. ~Crash(p)
    BY <2>1 DEF Crash, Goto
  <2>4. \A f : ~Expire(f)
    BY DEF Expire, procVars, At
  <2>5. PICK mode, fresh, answer : Arrive(p, mode, fresh, answer)
    BY <2>1, <2>2, <2>3, <2>4 DEF Next
  <2>6. call'[p].seen = FindLatest(files, expired)
    BY <2>1, <2>5 DEF Arrive, NoCall
  <2>7. Latest(reply[p].tok)
    BY DEF PauseInv, PauseKnown
  <2> QED
    BY <2>6, <2>7, FindLatestFinds
<1> HIDE DEF Reaches
<1>3. TypeInv /\ PauseInv /\ [Next]_vars => [Reaches]_vars
  BY <1>2
<1>4. Spec => [][Reaches]_vars
  BY TypeInit, TypeStep, PausesInit, <1>1, <1>3, PTL DEF Spec
<1> QED
  BY <1>4 DEF AnswerReachesItsQuestion, Reaches
=============================================================================
