----------------------------- MODULE MCPipeline -----------------------------
(***************************************************************************)
(* The gates before the executor, the pipeline that builds its prompt and  *)
(* the compiler of its context, checked side by side: a behaviour is one   *)
(* of one of the three, the other two stay in their initial states.        *)
(***************************************************************************)
EXTENDS PreloopGates, ContextPipeline, ContextCompiler

VARIABLE component \* the one that runs

Others(c) ==
    /\ UNCHANGED component
    /\ c # "gates" => UNCHANGED gateVars
    /\ c # "pipeline" => UNCHANGED pipelineVars
    /\ c # "compiler" => UNCHANGED compilerVars

\* One initial state of each component that does not run.
Idle(c) ==
    /\ c # "gates" => GatesInit
    /\ c # "pipeline" => PipelineInit /\ kind = "package"
    /\ c # "compiler" => CompilerInit /\ role = [p \in Paths |-> "none"]

Init ==
    /\ GatesInit /\ PipelineInit /\ CompilerInit
    /\ component \in {"gates", "pipeline", "compiler"} /\ Idle(component)

Next ==
    \/ component = "gates" /\ GatesNext /\ Others("gates")
    \/ component = "pipeline" /\ PipelineNext /\ Others("pipeline")
    \/ component = "compiler" /\ CompilerNext /\ Others("compiler")

vars == <<component, gateVars, pipelineVars, compilerVars>>

\* The gates run in the handler's thread, which goes on until it returns.
Spec ==
    /\ Init /\ [][Next]_vars
    /\ WF_vars(component = "gates" /\ GatesNext /\ Others("gates"))

TypeOK == GatesTypeOK /\ PipelineTypeOK /\ CompilerTypeOK
=============================================================================
