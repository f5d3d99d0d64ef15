-------------------------- MODULE ContextPipeline --------------------------
(***************************************************************************)
(* One delegation from the open gates to its last review: the stages that  *)
(* build the executor's prompt, the executor runs and their reviews, with  *)
(* the recorder that lists the phases of the delegation for its record     *)
(* (server/mcp_server.py 2764-3323, 3451-3527 and 3605-3812,               *)
(* core/pipeline/phases.py, core/context/helper_llm_pipeline.py).          *)
(*                                                                         *)
(* A brief is the sequence of its parts, from the top.  The stages run in  *)
(* the thread of the handler and each may raise: the retrieval goes on     *)
(* after it, the others end the delegation's first turn, and a review that *)
(* raises ends the call.                                                   *)
(***************************************************************************)
EXTENDS Naturals, Sequences, FiniteSets, SequencesExt, HelperPasses

CONSTANTS
    DelegationKinds, \* of "package", "legacy" and "review"
    MaxTurns         \* turns the supervisor may take

ASSUME PipelineAssumption ==
    DelegationKinds \subseteq {"package", "legacy", "review"} /\ MaxTurns \in Nat \ {0}

VARIABLES
    stage,    \* the stage to run next
    kind,     \* which way the prompt is built
    phases,   \* the recorder's list: <<phase, status>> of the ended phases
    started,  \* its start times: phases started and not ended
    picked,   \* whether the file picker ran
    plan,     \* the planner's plan was received
    brief,    \* the package's brief
    audit,    \* what the context block of the record says was applied
    prompt,   \* what the executor was given, empty before
    result,   \* "none", "success", "failure", "raised", or "lost" with the call
    engine,   \* the backend was found
    turn,     \* the supervisor's turn
    review,   \* the outcome of the last reviewer pass
    recorded  \* the one the record and the reply show

pipelineVars == <<stage, kind, phases, started, picked, plan, brief, audit, prompt,
          result, engine, turn, review, recorded>>
compiled == <<kind, picked, plan, audit>>
reviewed == <<turn, review, recorded>>

PackageStages ==
    <<"file_picker", "rag_retrieval", "context_assemble", "planner_pass", "builder_llm">>
Phases == ToSet(PackageStages) \cup {"executor", "reviewer_pass"}
Parts == {"plan", "builder", "mechanical", "pointers", "raw", "correction"}
Reviews == {"none", "passed", "blocked", "failed", "skipped"}

PipelineTypeOK ==
    /\ stage \in Phases \cup {"translate", "run", "decide", "end"}
    /\ kind \in DelegationKinds
    /\ phases \in Seq(Phases \X {"ok", "skipped", "error"})
    /\ started \subseteq Phases /\ picked \in BOOLEAN /\ plan \in BOOLEAN
    /\ brief \in Seq(Parts) /\ prompt \in Seq(Parts)
    /\ audit \subseteq {"plan", "builder"}
    /\ result \in {"none", "success", "failure", "raised", "lost"}
    /\ engine \in BOOLEAN /\ turn \in 1 .. MaxTurns
    /\ review \in Reviews /\ recorded \in Reviews

PipelineInit ==
    /\ kind \in DelegationKinds
    /\ stage = IF kind = "review" THEN "run" ELSE "file_picker"
    /\ phases = <<>> /\ started = {} /\ picked = FALSE /\ plan = FALSE
    /\ brief = <<>> /\ audit = {} /\ prompt = <<>> /\ result = "none"
    /\ engine = FALSE /\ turn = 1 /\ review = "none" /\ recorded = "none"

-----------------------------------------------------------------------------
\* PipelineRecorder: start notes a time, end takes it away and lists the
\* phase, mark lists a phase that did not run.
Start(p) == started' = started \cup {p} /\ UNCHANGED phases
Ended(p, status) == started' = started \ {p} /\ phases' = Append(phases, <<p, status>>)
Mark(p) == Ended(p, "skipped")

\* A stage starts its phase and ends it in one step of the model; RaiseInStage is
\* the step in which an exception leaves it, after its phase has been ended
\* ("error") or with the phase still started.
RaiseInStage == stage' = "reviewer_pass" /\ result' = "raised"
LeaveOpen(p) == Start(p) /\ RaiseInStage
EndAndRaise(p) == Ended(p, "error") /\ RaiseInStage

-----------------------------------------------------------------------------
\* The entries of a phase, by their places in the list.
Entries(p) == {i \in DOMAIN phases : phases[i][1] = p}

\* The first turn ended before its executor ran.
FellThrough == prompt = <<>> \/ (kind = "package" /\ Head(prompt) = "raw")

FilePicker ==
    /\ stage = "file_picker" /\ kind = "package"
    /\ \/ Ended("file_picker", "ok") /\ picked' = TRUE
          /\ stage' = "rag_retrieval" /\ UNCHANGED result
       \/ EndAndRaise("file_picker") /\ UNCHANGED picked
       \/ Mark("file_picker") /\ picked' = FALSE    \* the builder is off
          /\ stage' = "rag_retrieval" /\ UNCHANGED result
    /\ UNCHANGED <<kind, plan, audit, brief, prompt, engine, reviewed>>

\* The only stage that goes on after an exception; it needs the builder.
RagRetrieval ==
    /\ stage = "rag_retrieval" /\ stage' = "context_assemble"
    /\ \/ picked /\ \E status \in {"ok", "error"} : Ended("rag_retrieval", status)
       \/ Mark("rag_retrieval")
    /\ UNCHANGED <<compiled, brief, prompt, result, engine, reviewed>>

ContextAssemble ==
    /\ stage = "context_assemble"
    /\ \/ Ended("context_assemble", "ok") /\ brief' = <<"mechanical">>
          /\ stage' = "planner_pass" /\ UNCHANGED result
       \/ EndAndRaise("context_assemble") /\ UNCHANGED brief
    /\ UNCHANGED <<compiled, prompt, engine, reviewed>>

\* apply_planner_pass: with a plan the pass saves the decisions it finds in
\* it, outside any try; a failed call is reported and costs nothing else.
PlannerPass ==
    /\ stage = "planner_pass"
    /\ \/ \E known \in BOOLEAN, tools, oneShot \in Replies :
            /\ plan' = PlannerPlan(known, tools, oneShot)
            /\ \/ /\ Ended("planner_pass", IF plan' THEN "ok" ELSE "error")
                  /\ audit' = IF plan' THEN {"plan"} ELSE {}
                  /\ stage' = "builder_llm" /\ UNCHANGED result
               \/ plan' /\ LeaveOpen("planner_pass") /\ UNCHANGED audit
       \/ Mark("planner_pass") /\ stage' = "builder_llm"
          /\ UNCHANGED <<plan, audit, result>>
    /\ UNCHANGED <<kind, picked, brief, prompt, engine, reviewed>>

\* Mutant: the narrative takes the place of the mechanical brief.
MergeBriefOver(b) == <<"builder">>

\* merge_brief puts the narrative above what is there.
MergeBrief(b) == <<"builder">> \o b

\* merge_architect_plan puts the plan above all of it, after the builder.
MergePlan(b) == <<"plan">> \o b

BuilderPass ==
    /\ stage = "builder_llm" /\ stage' = "translate"
    /\ \E reply \in Replies, on \in BOOLEAN :
         LET ran     == picked /\ on
             applied == ran /\ BuilderBrief(reply)
             merged  == IF applied THEN MergeBrief(brief) ELSE brief
         IN  /\ IF ran THEN Ended("builder_llm", IF applied THEN "ok" ELSE "error")
                       ELSE Mark("builder_llm")
             /\ audit' = IF applied THEN audit \cup {"builder"} ELSE audit
             /\ brief' = IF plan THEN MergePlan(merged) ELSE merged
    /\ UNCHANGED <<kind, picked, plan, prompt, result, engine, reviewed>>

\* The package on which the narrative was being put is not used again.
BuilderRaises ==
    /\ stage = "builder_llm" /\ picked /\ LeaveOpen("builder_llm")
    /\ UNCHANGED <<compiled, brief, prompt, engine, reviewed>>

\* The backend is looked up; its capabilities and the budget shorten the
\* entries, and the paths that lost their payload are listed below the brief.
EngineTranslate ==
    /\ stage = "translate"
    /\ engine' \in BOOLEAN
    /\ \/ /\ engine' /\ brief' \in {brief, Append(brief, "pointers")}
          /\ stage' = "run" /\ UNCHANGED result
       \/ RaiseInStage /\ UNCHANGED brief
    /\ UNCHANGED <<compiled, phases, started, prompt, reviewed>>

\* Without a package the five phases are listed as skipped at one go and the
\* prompt is the one assembled on entry.
LegacyPrompt ==
    /\ stage = "file_picker" /\ kind = "legacy"
    /\ phases' = phases \o [i \in DOMAIN PackageStages |-> <<PackageStages[i], "skipped">>]
    /\ brief' = <<"raw">> /\ engine' \in BOOLEAN
    /\ IF engine' THEN stage' = "run" /\ UNCHANGED result ELSE RaiseInStage
    /\ UNCHANGED <<compiled, started, prompt, reviewed>>

\* Mutant: the phase of a run that raised is left open.
RunWithOpen(text) ==
    /\ prompt' = text
    /\ result' \in {"success", "failure", "raised"}
    /\ IF result' = "raised" THEN Start("executor")
       ELSE Ended("executor", IF result' = "success" THEN "ok" ELSE "error")

\* What a run leaves: its phase is ended by its result, or by the handler
\* when it raised.
RunWith(text) ==
    /\ prompt' = text
    /\ result' \in {"success", "failure", "raised"}
    /\ Ended("executor", IF result' = "success" THEN "ok" ELSE "error")

RunExecutor ==
    /\ stage = "run" /\ kind # "review"
    /\ RunWith(brief) /\ stage' = "reviewer_pass"
    /\ UNCHANGED <<compiled, brief, engine, reviewed>>

\* mode=review: one call of the review model and no phase of these.
RunReview ==
    /\ stage = "run" /\ kind = "review"
    /\ prompt' = <<"raw">> /\ result' \in {"success", "failure", "raised"}
    /\ stage' = "reviewer_pass"
    /\ UNCHANGED <<compiled, phases, started, brief, engine, reviewed>>

\* The reviewer looks at the changes of a successful run only; the record
\* takes the first pass.  A delegation in mode=review has no recorder.
ReviewerPass ==
    /\ stage = "reviewer_pass" /\ stage' = "decide"
    /\ \/ /\ result = "success" /\ kind # "review"
          /\ \E reply \in Replies :
               /\ review' = ReviewVerdict(reply)
               /\ Ended("reviewer_pass", IF review' = "failed" THEN "error" ELSE "ok")
       \/ /\ review' = "skipped"
          /\ IF kind # "review" THEN Mark("reviewer_pass") ELSE UNCHANGED <<phases, started>>
    /\ recorded' = IF turn = 1 THEN review' ELSE recorded
    /\ UNCHANGED <<compiled, brief, prompt, result, engine, turn>>

\* The pass is called outside the handler's try, in the first turn and in the
\* loop: what it raises is the end of the call.
ReviewerRaises ==
    /\ stage = "reviewer_pass" /\ result = "success" /\ kind # "review"
    /\ Start("reviewer_pass") /\ stage' = "end" /\ result' = "lost"
    /\ UNCHANGED <<compiled, brief, prompt, engine, reviewed>>

\* A rerun starts from the prompt of the first run, or from the one
\* assembled on entry when the first turn ended before there was a brief.
Corrected(base) == Append(base, "correction")

\* The supervisor asks for another run: its prompt is handed to the engine
\* without a package, and a run that raises is not reviewed.
Rerun ==
    /\ stage = "decide" /\ kind = "package" /\ engine /\ turn < MaxTurns
    /\ turn' = turn + 1
    /\ LET base == IF FellThrough THEN <<"raw">> ELSE brief
       IN  \E noted \in BOOLEAN : RunWith(IF noted THEN Corrected(base) ELSE base)
    /\ stage' = IF result' = "raised" THEN "end" ELSE "reviewer_pass"
    /\ UNCHANGED <<compiled, brief, engine, review, recorded>>

\* The end of the loop; setting it up needs the engine on the package path.
Finish ==
    /\ stage = "decide" /\ stage' = "end"
    /\ result' = IF kind = "package" /\ ~engine THEN "lost" ELSE result
    /\ UNCHANGED <<compiled, phases, started, brief, prompt, engine, reviewed>>

PipelineNext ==
    \/ FilePicker \/ RagRetrieval \/ ContextAssemble \/ PlannerPass \/ BuilderPass
    \/ BuilderRaises \/ EngineTranslate \/ LegacyPrompt \/ RunExecutor \/ RunReview
    \/ ReviewerPass \/ ReviewerRaises \/ Rerun \/ Finish

PipelineSpec == PipelineInit /\ [][PipelineNext]_pipelineVars /\ WF_pipelineVars(PipelineNext)

-----------------------------------------------------------------------------
(* Properties *)

\* Every phase that was started is in the record of the delegation, once per
\* turn for executor and reviewer and once for the others.  The only gaps are
\* the phase of the stage that raised, and then no executor ran, and the
\* review that raised, of a run that is listed.  A success in particular has
\* the reviewer's pass behind its last run (phases.py 40-65, mcp_server.py
\* 3451-3527).
PhasesAccountFor ==
    /\ \A p \in ToSet(PackageStages) : Cardinality(Entries(p)) <= 1
    /\ stage = "end" /\ result = "success" /\ kind # "review" =>
         Cardinality(Entries("reviewer_pass")) = turn
    /\ stage = "decide" /\ kind # "review" =>
         /\ Cardinality(Entries("reviewer_pass")) = turn
         /\ Cardinality(Entries("executor")) = IF FellThrough THEN turn - 1 ELSE turn
    /\ started # {} =>
         \/ /\ FellThrough /\ ~engine /\ result \in {"raised", "lost"}
            /\ \A p \in started : Entries(p) = {}
         \/ /\ started = {"reviewer_pass"} /\ result = "lost"
            /\ Cardinality(Entries("reviewer_pass")) = turn - 1
            /\ Cardinality(Entries("executor")) = IF FellThrough THEN turn - 1 ELSE turn

\* The executor always works from the mechanical brief with exactly what the
\* record says was applied above it, the plan on top, whatever failed on the
\* way, and a rerun adds one correction to that, not to the last prompt; only
\* a delegation whose first turn never had a brief reruns without it
\* (helper_llm_pipeline.py 90-102, mcp_server.py 3609-3668).
PromptIsAudited ==
    kind = "package" /\ ~FellThrough =>
        LET top == (IF "plan" \in audit THEN <<"plan">> ELSE <<>>)
                   \o (IF "builder" \in audit THEN <<"builder">> ELSE <<>>)
                   \o <<"mechanical">>
        IN  /\ IsPrefix(top, prompt)
            /\ SubSeq(prompt, Len(top) + 1, Len(prompt)) \in
                 {<<>>, <<"pointers">>, <<"correction">>, <<"pointers", "correction">>}

\* core/logging/delegation_log.py:78: "Map reviewer-pass phase state to
\* delegation JSONL audit value".  After a rerun the record and the reply
\* still show the state of the first pass.
RecordShowsLastReview == stage = "end" => recorded = review
=============================================================================
