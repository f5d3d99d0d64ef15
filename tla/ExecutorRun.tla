----------------------------- MODULE ExecutorRun -----------------------------
(***************************************************************************)
(* The executor runs of one delegation: the handler waits for a worker     *)
(* thread with a time limit, leaves it behind when the grace after it is   *)
(* over, removes the files the spec wants deleted, says what changed,      *)
(* tries once more when the executor asked for files, and runs it again    *)
(* when the supervisor wants it (core/engine/aider_engine.py 540-1043,     *)
(* core/engine/stdio_isolation.py, server/mcp_server.py 388-734 and        *)
(* 3104-3323, 3661-3744).  A worker swaps the stdout of the whole process  *)
(* for its own buffer while it runs; the levels of the loggers go the same *)
(* way.  A worker that was left behind goes on.                            *)
(***************************************************************************)
EXTENDS Naturals, FiniteSets

CONSTANTS
    RunTurns,  \* turns the supervisor may take
    AutoRetry, \* MCP_CODER_STALL_AUTO_RETRY
    Files      \* what the executor may ask for

ASSUME RunAssumption == RunTurns \in Nat \ {0} /\ AutoRetry \in BOOLEAN

VARIABLES
    step,      \* where the handler is
    rerun,     \* the turn it is in
    attempt,   \* 2 in the automatic retry of a turn
    run,       \* the number of the run, over all turns
    worker,    \* per run: "none", "in" the isolated stdio or "out" of it
    saved,     \* per run: the stdout its worker puts back
    stdout,    \* the buffer of a run, or Real
    overlap,   \* a run was started while a worker was still in
    left,      \* runs whose worker was left behind
    wrote,     \* runs whose worker changed a file
    dirty,     \* the workspace is not what it was when the last run began
    said,      \* per run: how its worker ended
    targets,   \* the effective target files
    given,     \* those the step function of the turn works with
    asked,     \* files the executor asked for in its last answer
    doomed,    \* the files the spec wants deleted are there
    result,    \* what the last run returned
    retried,   \* stall_auto_retried
    retries,   \* automatic retries of the delegation
    shown      \* what the handler will answer

runVars == <<step, rerun, attempt, run, worker, saved, stdout, overlap, left,
             wrote, dirty, said, targets, given, asked, doomed, result, retried,
             retries, shown>>
io == <<worker, saved, stdout, wrote, dirty, said, asked>>
turns == <<rerun, attempt, run, overlap, targets, given, retried, retries>>

Runs == 1 .. 2 * RunTurns
Real == 0
Stalls == {"none", "files", "clarification"}
Endings == {"complete", "files", "question", "error", "aborted", "raised"}
Returned == [success : BOOLEAN, stall : Stalls, changed : BOOLEAN, deleted : BOOLEAN]
NoResult == [success |-> FALSE, stall |-> "none", changed |-> FALSE, deleted |-> FALSE]

RunTypeOK ==
    /\ step \in {"start", "wait", "grace", "delete", "attribute", "return",
                 "decide", "replied"}
    /\ rerun \in 1 .. RunTurns /\ attempt \in {1, 2} /\ run \in 0 .. 2 * RunTurns
    /\ worker \in [Runs -> {"none", "in", "out"}]
    /\ saved \in [Runs -> Runs \cup {Real}] /\ stdout \in Runs \cup {Real}
    /\ overlap \in BOOLEAN /\ left \subseteq Runs /\ wrote \subseteq Runs /\ dirty \in BOOLEAN
    /\ said \in [Runs -> Endings \cup {"nothing"}]
    /\ targets \subseteq Files /\ given \subseteq Files /\ asked \subseteq Files
    /\ doomed \in BOOLEAN /\ result \in Returned /\ shown \in Returned
    /\ retried \in BOOLEAN /\ retries \in 0 .. RunTurns

RunInit ==
    /\ step = "start" /\ rerun = 1 /\ attempt = 1 /\ run = 0
    /\ worker = [n \in Runs |-> "none"] /\ saved = [n \in Runs |-> Real]
    /\ stdout = Real /\ overlap = FALSE /\ left = {} /\ wrote = {} /\ dirty = FALSE
    /\ said = [n \in Runs |-> "nothing"]
    /\ targets = {} /\ given = {} /\ asked = {} /\ doomed \in BOOLEAN
    /\ result = NoResult /\ retried = FALSE /\ retries = 0 /\ shown = NoResult

-----------------------------------------------------------------------------
(* The worker thread *)

\* isolated_stdio: what it found is what it will put back.
Enter(n) ==
    /\ worker' = [worker EXCEPT ![n] = "in"]
    /\ saved' = [saved EXCEPT ![n] = stdout] /\ stdout' = n

\* Mutant: a worker that raises does not put stdout back.
LeaveWithoutFinally(n, how) ==
    /\ worker' = [worker EXCEPT ![n] = "out"]
    /\ stdout' = IF how \in {"aborted", "raised"} THEN stdout ELSE saved[n]
    /\ said' = [said EXCEPT ![n] = IF @ = "nothing" THEN how ELSE @]

\* What it says counts unless the handler has given it up.
Leave(n, how) ==
    /\ worker' = [worker EXCEPT ![n] = "out"] /\ stdout' = saved[n]
    /\ said' = [said EXCEPT ![n] = IF @ = "nothing" THEN how ELSE @]

\* Aider edits on until it is done, left behind or not.
WorkerWrites(n) ==
    /\ worker[n] = "in" /\ wrote' = wrote \cup {n} /\ dirty' = TRUE
    /\ UNCHANGED <<step, turns, worker, saved, stdout, said, asked, left,
                   doomed, result, shown>>

\* It ends with an answer, a refusal of the supervisor or an exception; an
\* answer may ask for files.
WorkerEnds(n) ==
    /\ worker[n] = "in"
    /\ \E how \in Endings :
         /\ Leave(n, how)
         /\ IF how = "files" /\ n = run THEN asked' \in SUBSET Files ELSE UNCHANGED asked
    /\ UNCHANGED <<step, turns, saved, wrote, dirty, left, doomed, result, shown>>

-----------------------------------------------------------------------------
(* The handler *)

\* _execute_delegation walks the workspace, submits the worker and waits for it.
StartRun ==
    /\ step = "start" /\ step' = "wait" /\ run' = run + 1 /\ dirty' = FALSE
    /\ Enter(run') /\ overlap' = (overlap \/ \E n \in Runs : worker[n] = "in")
    /\ UNCHANGED <<rerun, attempt, left, wrote, said, targets, given, asked,
                   doomed, result, retried, retries, shown>>

\* The future has a result: an abort or an exception skips the deletions.
Joined ==
    /\ step = "wait" /\ worker[run] = "out"
    /\ step' = IF said[run] \in {"aborted", "raised"} THEN "attribute" ELSE "delete"
    /\ UNCHANGED <<io, turns, left, doomed, result, shown>>

\* Mutant: what changed is looked at as soon as the time is over.
TimeOutWithoutGrace ==
    /\ step = "wait" /\ worker[run] = "in"
    /\ step' = "return"
    /\ result' = [NoResult EXCEPT !.changed = dirty]
    /\ UNCHANGED <<io, turns, left, doomed, shown>>

\* The time limit of the step; the worker gets a grace to flush its writes.
TimeOut ==
    /\ step = "wait" /\ worker[run] = "in" /\ step' = "grace"
    /\ UNCHANGED <<io, turns, left, doomed, result, shown>>

\* The grace is over, or the worker used it to end; a timeout either way.
GraceOver ==
    /\ step = "grace" /\ step' = "attribute"
    /\ left' = IF worker[run] = "in" THEN left \cup {run} ELSE left
    /\ said' = [said EXCEPT ![run] = "raised"]
    /\ UNCHANGED <<worker, saved, stdout, wrote, dirty, asked, turns, doomed, result, shown>>

\* _apply_deterministic_deletions, of whatever the answer was; the rerun of
\* a turn goes without a contract of files to delete.
Delete ==
    /\ step = "delete" /\ step' = "attribute"
    /\ \/ /\ rerun = 1 /\ doomed /\ doomed' = FALSE /\ dirty' = TRUE
          /\ result' = [NoResult EXCEPT !.deleted = TRUE]
       \/ result' = NoResult /\ UNCHANGED <<doomed, dirty>> \* none, or the removal failed
    /\ UNCHANGED <<worker, saved, stdout, wrote, said, asked, turns, left, shown>>

StallOf(how, changed) ==
    CASE how = "files" -> "files"
      [] how = "question" /\ ~changed -> "clarification"
      [] how = "aborted" -> "clarification"
      [] OTHER -> "none"

\* A question at the end of an answer counts as a success when files changed.
Succeeds(how, changed) == how = "complete" \/ (how = "question" /\ changed)

\* Attribution compares with the walk at the run's start, so that what the
\* handler deleted and what a worker left behind wrote meanwhile counts too;
\* then the answer is classified.
Attribute ==
    /\ step = "attribute" /\ step' = "return"
    /\ result' = [success |-> Succeeds(said[run], dirty),
                  stall   |-> StallOf(said[run], dirty),
                  changed |-> dirty,
                  deleted |-> said[run] \notin {"aborted", "raised"} /\ result.deleted]
    /\ UNCHANGED <<io, turns, left, doomed, shown>>

\* What the handler keeps of a result: of the first turn the stall decides,
\* of a later one it is not looked at.
Shown ==
    IF rerun = 1 THEN [result EXCEPT !.success = @ /\ result.stall = "none"]
    ELSE [result EXCEPT !.stall = shown.stall]

\* The retry of a turn: it merges what was asked for into the targets and
\* runs the step function it was given once more.
Retry ==
    /\ step = "return" /\ step' = "start"
    /\ AutoRetry /\ ~retried /\ attempt = 1
    /\ result.stall = "files" /\ asked \ targets # {}
    /\ targets' = targets \cup asked /\ attempt' = 2 /\ retries' = retries + 1
    /\ UNCHANGED <<io, rerun, run, overlap, given, left, doomed, result, retried, shown>>

\* The turn ends with its last result, and says whether it was tried again.
EndTurn ==
    /\ step = "return" /\ step' = "decide"
    /\ ~AutoRetry \/ retried \/ attempt = 2 \/ result.stall # "files" \/ asked \ targets = {}
    /\ retried' = (attempt = 2) /\ shown' = Shown
    /\ UNCHANGED <<io, rerun, attempt, run, overlap, targets, given, retries,
                   left, doomed, result>>

\* Mutant: one turn more than there are.
RerunOnceMore ==
    /\ step = "decide" /\ rerun <= RunTurns /\ step' = "start"
    /\ rerun' = rerun + 1 /\ attempt' = 1 /\ given' = targets
    /\ UNCHANGED <<io, run, overlap, targets, retried, retries, left, doomed,
                   result, shown>>

\* The supervisor wants another run, of the engine's plain entry with the
\* targets as they are by now.
Rerun ==
    /\ step = "decide" /\ rerun < RunTurns /\ step' = "start"
    /\ rerun' = rerun + 1 /\ attempt' = 1 /\ given' = targets
    /\ UNCHANGED <<io, run, overlap, targets, retried, retries, left, doomed,
                   result, shown>>

Reply ==
    /\ step = "decide" /\ step' = "replied"
    /\ UNCHANGED <<io, turns, left, doomed, result, shown>>

Handler ==
    \/ StartRun \/ Joined \/ TimeOut \/ GraceOver \/ Delete \/ Attribute
    \/ Retry \/ EndTurn \/ Rerun \/ Reply

RunNext == Handler \/ \E n \in Runs : WorkerWrites(n) \/ WorkerEnds(n)

\* Every wait of the handler has a limit; the worker promises nothing.
RunSpec == RunInit /\ [][RunNext]_runVars /\ WF_runVars(Handler)

-----------------------------------------------------------------------------
(* Properties *)

\* While a worker runs, what it prints goes to its own buffer, and when none
\* does stdout is the protocol's again, whichever way the workers ended; only
\* a run started beside a worker that was left behind may break this
\* (stdio_isolation.py 22-38).
StdoutIsolated ==
    ~overlap =>
        IF \E n \in Runs : worker[n] = "in"
          THEN worker[stdout] = "in"
          ELSE stdout = Real

\* A file goes only after the worker of the run has ended with an answer: no
\* run that was stopped for its time, the supervisor or an exception costs a
\* file (aider_engine.py 810-884).
DeletesAfterAnswer ==
    [][doomed /\ ~doomed' =>
        /\ worker[run] = "out" /\ run \notin left
        /\ said[run] \notin {"aborted", "raised", "nothing"}]_runVars

\* The answer names the edits of the last run, those a worker made in its
\* grace and those of the handler included; only what a worker does after it
\* was left behind may be missing (aider_engine.py 149-171, 762-798, 871-903).
EditsReported ==
    step = "replied" /\ (run \in wrote \ left \/ shown.deleted) => shown.changed

\* A delegation is answered as a success only when its last run was through,
\* or asked nothing but a question in a workspace that its worker, the
\* handler's own deletions or a worker left behind had changed, and never over
\* a request for files or a run out of time, whatever the runs before it were
\* (aider_engine.py 871-989, mcp_server.py 3251-3278 and 3711-3722).
SuccessIsComplete ==
    step = "replied" /\ shown.success =>
        /\ \/ said[run] = "complete"
           \/ /\ said[run] = "question"
              /\ run \in wrote \/ shown.deleted \/ left \cap wrote # {}
        /\ run \notin left

\* The answer is true: neither an edit is kept back nor a failure called a
\* success.
AnswerIsTrue == EditsReported /\ SuccessIsComplete

\* The handler answers although no worker need ever end.
HandlerAnswers == <>(step = "replied")

\* docs/guide/env-vars.md:109: "automatically merges requested paths into
\* target_files / read context and runs the executor one more time".  The
\* retry calls the step function that was made before the paths were merged.
RetryGetsFiles == attempt = 2 /\ step = "wait" => targets \subseteq given

\* docs/guide/env-vars.md:109: "one more time in the same MCP call".  A turn
\* without a retry clears the mark of an earlier one.
OneRetry == retries <= 1

\* aider_engine.py:944: "if the executor actually changed files, a trailing
\* question in the output is cosmetic".  The files the handler deleted itself
\* count as changed, and so does what a worker left behind wrote meanwhile.
QuestionsPassOverEdits ==
    step = "replied" /\ shown.success /\ said[run] = "question" => run \in wrote

\* docs/guide/env-vars.md:107: "if Aider output matches a file-request stall,
\* delegate_to_agent returns needs_input": what an earlier turn asked for is
\* still asked when a later one was through.
StallIsOfLastRun == step = "replied" => shown.stall = result.stall
=============================================================================
