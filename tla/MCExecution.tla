----------------------------- MODULE MCExecution -----------------------------
(***************************************************************************)
(* The runs of the executor, the supervisor that answers its questions and *)
(* the progress notifications, checked side by side: a behaviour is one of *)
(* one of the three, the others stay in an initial state.                  *)
(***************************************************************************)
EXTENDS ExecutorRun, ConfirmSupervisor, ProgressBridge

VARIABLE component \* the one that runs

Others(c) ==
    /\ UNCHANGED component
    /\ c # "run" => UNCHANGED runVars
    /\ c # "supervisor" => UNCHANGED supVars
    /\ c # "bridge" => UNCHANGED bridgeVars

Idle(c) == (c # "run" => ~doomed) /\ (c # "bridge" => onLoop)

Init ==
    /\ RunInit /\ SupervisorInit /\ BridgeInit
    /\ component \in {"run", "supervisor", "bridge"} /\ Idle(component)

Next ==
    \/ component = "run" /\ RunNext /\ Others("run")
    \/ component = "supervisor" /\ SupervisorNext /\ Others("supervisor")
    \/ component = "bridge" /\ BridgeNext /\ Others("bridge")

vars == <<component, runVars, supVars, bridgeVars>>

\* The handler goes on, the supervisor answers what it was asked and the
\* threads of the bridges go on; the coder and the host promise nothing.
Spec ==
    /\ Init /\ [][Next]_vars
    /\ WF_vars(component = "run" /\ Handler /\ Others("run"))
    /\ WF_vars(component = "supervisor" /\ Working /\ Others("supervisor"))
    /\ WF_vars(component = "bridge" /\ Handling /\ Others("bridge"))
    /\ \A d \in Delegations : WF_vars(component = "bridge" /\ onLoop /\ Draining(d) /\ Others("bridge"))

TypeOK == RunTypeOK /\ SupervisorTypeOK /\ BridgeTypeOK

\* The handler of a delegation answers, whatever its workers do
\* (aider_engine.py 757-812).
RunReturns == component = "run" => HandlerAnswers

\* Nobody waits for ever: not the handler for a worker or a bridge, not the
\* worker for a decision, not a bridge's thread for the loop.
WaitsEnd == RunReturns /\ QuestionsEnd /\ HandlerReturns /\ ThreadsEnd

\* What cannot be taken back is asked for first: a yes has its grounds, and a
\* file goes only after an answer.
NothingUnasked == YesIsGrounded /\ DeletesAfterAnswer
=============================================================================
