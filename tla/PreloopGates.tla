---------------------------- MODULE PreloopGates ----------------------------
(***************************************************************************)
(* What may stop a delegation before its executor: the validation of the   *)
(* spec, the clarity check with its cap on rounds, the sub-agent that      *)
(* answers questions in the host's place, and the Q&A section of the spec  *)
(* where questions and answers meet (server/mcp_server.py 2296-2727,       *)
(* core/context/helper_llm_pipeline.py, core/specs/write.py).  The         *)
(* delegations of a session follow one another; the log of a session is    *)
(* kept as the number of its blocked rounds.                               *)
(***************************************************************************)
EXTENDS Naturals, FiniteSets, HelperPasses

CONSTANTS
    Questions,  \* what the clarity check may ask
    RoundCap,   \* CLARITY_ROUND_CAP
    NoSpec      \* the spec of a delegation without one

ASSUME RoundCapAssumption == RoundCap \in Nat

\* The one spec file of the model, and the delegations that name none.
Specs == {"spec", NoSpec}

VARIABLES
    gate,       \* where the handler is
    spec,       \* the spec of the running delegation
    invalid,    \* whether its spec was refused on reading
    validation, \* the verdict of the spec validation, or "skipped"
    asked,      \* the questions of its clarity check
    round,      \* which clarity round this one is
    verdict,    \* how the delegation ended, "none" while it runs
    qa,         \* per question: absent from the spec, open, or whose answer
    rounds      \* blocked rounds in the session's log, per spec

gateVars == <<gate, spec, invalid, validation, asked, round, verdict, qa, rounds>>

Answers == {"absent", "open", "host", "agent"}
Gates == {"idle", "validate", "clarity", "dispatch", "resolve", "pause", "run"}

GatesTypeOK ==
    /\ gate \in Gates /\ spec \in Specs /\ invalid \in BOOLEAN
    /\ validation \in {"skipped", "passed", "blocked", "failed"}
    /\ asked \subseteq Questions /\ round \in 0 .. RoundCap + 1
    /\ verdict \in {"none", "invalid_spec", "needs_input", "ran"}
    /\ qa \in [Questions -> Answers] /\ rounds \in [Specs -> Nat]

GatesInit ==
    /\ gate = "idle" /\ spec = NoSpec /\ invalid = FALSE
    /\ validation = "skipped" /\ asked = {} /\ round = 0 /\ verdict = "none"
    /\ qa = [q \in Questions |-> "absent"]
    /\ rounds = [s \in Specs |-> 0]

-----------------------------------------------------------------------------
\* Mutant: the record being written is not counted.
BlockedRoundsButLast(s) == IF rounds[s] = 0 THEN 0 ELSE rounds[s] - 1

\* The records a delegation with spec s counts: those of its spec, or all of
\* them when it has none.
BlockedRounds(s) ==
    IF s = NoSpec THEN rounds["spec"] + rounds[NoSpec] ELSE rounds[s]

\* Mutant: an answer goes over what is there.
AppendQAOver(qs, answer) ==
    [q \in Questions |-> IF q \in qs THEN answer ELSE qa[q]]

\* append_clarity_qa: a question that is there already is left as it is.
AppendQA(qs, answer) ==
    [q \in Questions |-> IF q \in qs /\ qa[q] = "absent" THEN answer ELSE qa[q]]

Delegate ==
    /\ gate = "idle"
    /\ spec' \in Specs
    /\ invalid' \in (IF spec' = NoSpec THEN {FALSE} ELSE BOOLEAN)
    /\ gate' = "validate" /\ validation' = "skipped" /\ asked' = {}
    /\ round' = 0 /\ verdict' = "none"
    /\ UNCHANGED <<qa, rounds>>

\* The validation runs only with a loaded spec, and may be switched off.
ValidateSpec ==
    /\ gate = "validate"
    /\ \/ spec # NoSpec /\ \E r \in Replies : validation' = ValidationVerdict(r)
       \/ validation' = "skipped"
    /\ gate' = "clarity"
    /\ UNCHANGED <<spec, invalid, asked, round, verdict, qa, rounds>>

\* From the cap on no question is asked any more; below it a failed check
\* asks none either.
CheckClarity ==
    /\ gate = "clarity"
    /\ LET prior == BlockedRounds(spec) IN
       \/ /\ round' = 0 /\ asked' = {}                  \* switched off
       \/ /\ prior >= RoundCap
          /\ round' = RoundCap + 1 /\ asked' = {}
       \/ /\ prior < RoundCap
          /\ round' = prior + 1
          /\ \E r \in Replies :
               IF ClarityVerdict(r) = "blocked"
                 THEN asked' \in SUBSET Questions \ {{}}
                 ELSE asked' = {}
    /\ gate' = "dispatch"
    /\ UNCHANGED <<spec, invalid, validation, verdict, qa, rounds>>

\* The branches in the order of the code; the verdict of the validation is
\* not among them.
Dispatch ==
    /\ gate = "dispatch"
    /\ IF invalid THEN gate' = "idle" /\ verdict' = "invalid_spec"
       ELSE /\ gate' = IF asked # {} THEN "resolve" ELSE "run"
            /\ UNCHANGED verdict
    /\ UNCHANGED <<spec, invalid, validation, asked, round, qa, rounds>>

\* The sub-agent needs a spec; without all the answers the host is asked.
Resolve ==
    /\ gate = "resolve"
    /\ \E known \in BOOLEAN, r \in Replies :
         IF spec # NoSpec /\ ResolutionAnswers(known, r)
           THEN gate' = "run" /\ qa' = AppendQA(asked, "agent")
           ELSE gate' = "pause" /\ UNCHANGED qa
    /\ UNCHANGED <<spec, invalid, validation, asked, round, verdict, rounds>>

\* The questions go to the spec if it can be written, the reply to the host
\* and the record of a blocked round to the log.
Pause ==
    /\ gate = "pause"
    /\ \/ spec # NoSpec /\ qa' = AppendQA(asked, "open")
       \/ UNCHANGED qa
    /\ rounds' = [rounds EXCEPT ![spec] = @ + 1]
    /\ verdict' = "needs_input" /\ gate' = "idle"
    /\ UNCHANGED <<spec, invalid, validation, asked, round>>

ReachExecutor ==
    /\ gate = "run"
    /\ verdict' = "ran" /\ gate' = "idle"
    /\ UNCHANGED <<spec, invalid, validation, asked, round, qa, rounds>>

\* The host fills in an open question between two calls, and may start a
\* new session, whose log is empty.
HostAnswers ==
    /\ gate = "idle"
    /\ \E q \in Questions : qa[q] = "open" /\ qa' = [qa EXCEPT ![q] = "host"]
    /\ UNCHANGED <<gate, spec, invalid, validation, asked, round, verdict, rounds>>

NewSession ==
    /\ gate = "idle" /\ \E s \in Specs : rounds[s] > 0
    /\ rounds' = [s \in Specs |-> 0]
    /\ UNCHANGED <<gate, spec, invalid, validation, asked, round, verdict, qa>>

GatesNext ==
    \/ Delegate \/ ValidateSpec \/ CheckClarity \/ Dispatch
    \/ Resolve \/ Pause \/ ReachExecutor \/ HostAnswers \/ NewSession

GatesSpec == GatesInit /\ [][GatesNext]_gateVars /\ WF_gateVars(GatesNext)

-----------------------------------------------------------------------------
(* Properties *)

\* A session asks about a spec at most RoundCap times, whatever the model
\* says and however the host answers: the cap holds over the records of
\* several delegations, with and without a spec (helper_llm_pipeline.py 485,
\* mcp_server.py 1011-1035).
ClarityCapped ==
    /\ \A s \in Specs : rounds[s] <= RoundCap
    /\ gate = "pause" => BlockedRounds(spec) < RoundCap

\* Unless the host keeps starting new sessions, it is some day no longer
\* asked and every further delegation reaches its executor or is refused for
\* its spec.
AskingEnds ==
    <>[][\A s \in Specs : rounds'[s] >= rounds[s]]_gateVars => <>[](gate # "pause")

\* An answer, of the host or of the sub-agent, is never replaced by a later
\* round that asks the same question (write.py 339).
AnswersKept ==
    [][\A q \in Questions : qa[q] \in {"host", "agent"} => qa'[q] = qa[q]]_gateVars

\* A delegation reaches the executor only when nothing was asked or the
\* sub-agent answered: each question it asked is then in the spec, although
\* another delegation may have put it there.
RunsOnlyWhenAnswered ==
    gate = "run" => ~invalid /\ \A q \in asked : qa[q] # "absent"

\* The gate holds in both directions: it does not ask more often than the cap
\* allows, and lets nothing pass unanswered.
ClarityHolds == ClarityCapped /\ RunsOnlyWhenAnswered

\* What was asked is asked for good: no answer is lost to a later round, and
\* the asking comes to an end.
AskingIsFruitful == AnswersKept /\ AskingEnds

\* docs/PHASE15_MVP.md:342: "If it can answer ..., it writes answers to the
\* spec's ## Q&A section and the delegation proceeds".  A question an earlier
\* round left open in the spec keeps its placeholder instead.
ResolvedAnswersWritten ==
    gate = "run" => \A q \in asked : qa[q] \in {"host", "agent"}

\* helper_llm_pipeline.py:24: "Spec validation blocked delegation. Answer
\* clarifications in Cursor, update spec if needed, then retry".
BlockedNeverRuns == gate = "run" => validation # "blocked"

=============================================================================
