------------------------------- MODULE HumanGate -------------------------------
(***************************************************************************)
(* The mid-run human gate: the registry of pending questions               *)
(* (core/engine/question_registry.py), the executor threads that post a    *)
(* question and wait for its event (SupervisedIO.confirm_ask), the answer  *)
(* tool of server/mcp_server.py that sets it, and the handler that starts  *)
(* one thread per run, waits for it with a timeout and removes what the    *)
(* delegation left in the registry (_execute_delegation of                 *)
(* core/engine/aider_engine.py).                                           *)
(*                                                                         *)
(* The session's cached coder (core/session/executor_cache.py) is part of  *)
(* it: the I/O object of a coder keeps the delegation id it was made with, *)
(* and a reused coder posts its questions under that id.                   *)
(*                                                                         *)
(* What the supervisor decides without the gate does not touch the         *)
(* registry and is part of the thread's work.  Answer calls run            *)
(* concurrently with a delegation, as the tool's description asks.         *)
(***************************************************************************)
EXTENDS Integers

CONSTANTS
  MaxDelegations, \* bound: delegations of the session
  MaxRuns,        \* bound: executor runs, of all delegations
  MaxQuestions,   \* bound: questions that reach the gate
  Calls,          \* answer calls of the host
  Answers,        \* what a call may answer
  CacheToken      \* what the cache compares, for the first run of a delegation
                  \* and for its reruns, which pass no context package

Ids == 1..MaxDelegations
Runs == 1..MaxRuns
Questions == 1..MaxQuestions

ASSUME GateAssumption ==
  /\ MaxDelegations \in Nat \ {0} /\ MaxRuns \in Nat \ {0}
  /\ MaxQuestions \in Nat \ {0}
  /\ DOMAIN CacheToken = Ids
  /\ \A d \in Ids : 0 \notin {CacheToken[d].first, CacheToken[d].rerun}

VARIABLES
  registry,  \* _pending: delegation id -> question (0: no entry)
  questions, \* the PendingQuestion objects
  threads,   \* executor threads, one per run
  coder,     \* the cached coder: its token and the run that made it
  handler,   \* the delegation being handled
  calls,     \* the answer calls
  nextDel, nextRun, nextQuestion,
  overran    \* history variable: some thread has outlived its run

vars == <<registry, questions, threads, coder, handler, calls,
          nextDel, nextRun, nextQuestion, overran>>

NoAnswer == "none"

Question == [asker : Runs \cup {0}, event : BOOLEAN, answer : Answers \cup {NoAnswer}]

Tokens == UNION {{CacheToken[d].first, CacheToken[d].rerun} : d \in Ids}

Thread == [pc : {"new", "working", "waiting", "answered", "expired", "ended"},
           del : Ids \cup {0}, coder : Runs \cup {0}, q : Questions \cup {0},
           token : Tokens \cup {0}]

Handler == [pc : {"idle", "between", "running", "grace", "cleanup"},
            del : Ids \cup {0}, run : Runs \cup {0}, again : BOOLEAN]

\* A call: the question its sender means, the one it found, what came of it.
Call == [pc : {"ready", "found", "ok", "not_found"},
         meant : Questions \cup {0}, found : Questions \cup {0},
         late : BOOLEAN, answer : Answers \cup {NoAnswer}]

TypeOK ==
  /\ registry \in [Ids -> Questions \cup {0}]
  /\ questions \in [Questions -> Question]
  /\ threads \in [Runs -> Thread]
  /\ coder \in [token : Tokens \cup {0}, maker : Runs \cup {0}]
  /\ handler \in Handler
  /\ calls \in [Calls -> Call]
  /\ nextDel \in 1..(MaxDelegations + 1)
  /\ nextRun \in 1..(MaxRuns + 1)
  /\ nextQuestion \in 1..(MaxQuestions + 1)
  /\ overran \in BOOLEAN

NoCoder == [token |-> 0, maker |-> 0]

Init ==
  /\ registry = [d \in Ids |-> 0]
  /\ questions = [q \in Questions |->
                    [asker |-> 0, event |-> FALSE, answer |-> NoAnswer]]
  /\ threads = [t \in Runs |-> 
                  [pc |-> "ended", del |-> 0, coder |-> 0, q |-> 0, token |-> 0]]
  /\ coder = NoCoder
  /\ handler = [pc |-> "idle", del |-> 0, run |-> 0, again |-> FALSE]
  /\ calls = [c \in Calls |->
                [pc |-> "ready", meant |-> 0, found |-> 0, late |-> FALSE,
                 answer |-> NoAnswer]]
  /\ nextDel = 1 /\ nextRun = 1 /\ nextQuestion = 1
  /\ overran = FALSE

clocks == <<nextDel, nextRun, nextQuestion, overran>>

Post(d, q) == registry' = [registry EXCEPT ![d] = q]

Pop(d) == registry' = [registry EXCEPT ![d] = 0]

(***************************************************************************)
(* The handler.                                                            *)
(***************************************************************************)
Delegate ==
  /\ handler.pc = "idle"
  /\ nextDel <= MaxDelegations
  /\ handler' = [handler EXCEPT !.pc = "between", !.del = nextDel]
  /\ nextDel' = nextDel + 1
  /\ UNCHANGED <<registry, questions, threads, coder, calls, nextRun, nextQuestion, overran>>

\* pool.submit: the first run, another step or a stall retry of it, or a rerun.
Submit ==
  /\ handler.pc = "between"
  /\ nextRun <= MaxRuns
  /\ \E again \in BOOLEAN :
       /\ handler.run = 0 => ~again
       /\ handler.again => again
       /\ handler' = [handler EXCEPT !.pc = "running", !.run = nextRun, !.again = again]
       /\ LET token == CacheToken[handler.del]
          IN  threads' = [threads EXCEPT ![nextRun] =
                [pc |-> "new", del |-> handler.del, coder |-> 0, q |-> 0,
                 token |-> IF again THEN token.rerun ELSE token.first]]
  /\ nextRun' = nextRun + 1
  /\ UNCHANGED <<registry, questions, coder, calls, nextDel, nextQuestion, overran>>

Ended(t) == threads[t].pc = "ended"

\* future.result returns or raises.
RunEnds ==
  /\ handler.pc = "running"
  /\ Ended(handler.run)
  /\ handler' = [handler EXCEPT !.pc = "cleanup"]
  /\ UNCHANGED <<registry, questions, threads, coder, calls, clocks>>

RunTimesOut ==
  /\ handler.pc = "running"
  /\ ~Ended(handler.run)
  /\ handler' = [handler EXCEPT !.pc = "grace"]
  /\ UNCHANGED <<registry, questions, threads, coder, calls, clocks>>

\* Mutant: the pool is shut down with wait=True.
GraceEndsWithThread ==
  /\ handler.pc = "grace"
  /\ Ended(handler.run)
  /\ handler' = [handler EXCEPT !.pc = "cleanup"]
  /\ UNCHANGED <<registry, questions, threads, coder, calls, clocks>>

\* The thread has ended, or nobody waits for it any longer: a running future
\* cannot be cancelled.
GraceEnds ==
  /\ handler.pc = "grace"
  /\ handler' = [handler EXCEPT !.pc = "cleanup"]
  /\ overran' = (overran \/ ~Ended(handler.run))
  /\ UNCHANGED <<registry, questions, threads, coder, calls, nextDel, nextRun,
                 nextQuestion>>

\* The finally block of _execute_delegation.
CleanUp ==
  /\ handler.pc = "cleanup"
  /\ Pop(handler.del)
  /\ handler' = [handler EXCEPT !.pc = "between"]
  /\ UNCHANGED <<questions, threads, coder, calls, clocks>>

\* An escalated delegation drops the session's coder.
Return ==
  /\ handler.pc = "between"
  /\ handler' = [handler EXCEPT !.pc = "idle", !.run = 0, !.again = FALSE]
  /\ \E escalated \in BOOLEAN : coder' = IF escalated THEN NoCoder ELSE coder
  /\ UNCHANGED <<registry, questions, threads, calls, clocks>>

(***************************************************************************)
(* An executor thread.                                                     *)
(***************************************************************************)
\* Mutant: the token of the cached coder is not compared.
CacheHitOnSession(t) == coder.maker # 0

CacheHit(t) == coder.token = threads[t].token

\* get_or_create_coder
GetCoder(t) ==
  /\ threads[t].pc = "new"
  /\ coder' = IF CacheHit(t) THEN coder ELSE [token |-> threads[t].token, maker |-> t]
  /\ threads' = [threads EXCEPT ![t].pc = "working", ![t].coder = coder'.maker]
  /\ UNCHANGED <<registry, questions, handler, calls, clocks>>

\* The delegation id of the I/O object of the thread's coder.
Key(t) == threads[threads[t].coder].del

\* confirm_ask escalates: post, and wait for the event.
Ask(t) ==
  /\ threads[t].pc = "working"
  /\ nextQuestion <= MaxQuestions
  /\ questions' = [questions EXCEPT ![nextQuestion].asker = t]
  /\ Post(Key(t), nextQuestion)
  /\ threads' = [threads EXCEPT ![t].pc = "waiting", ![t].q = nextQuestion]
  /\ nextQuestion' = nextQuestion + 1
  /\ UNCHANGED <<coder, handler, calls, nextDel, nextRun, overran>>

\* event.wait returns: TRUE, or FALSE after _GATE_TIMEOUT_S.
WaitEnds(t) ==
  /\ threads[t].pc = "waiting"
  /\ threads' = [threads EXCEPT ![t].pc =
                   IF questions[threads[t].q].event THEN "answered" ELSE "expired"]
  /\ UNCHANGED <<registry, questions, coder, handler, calls, clocks>>

Leave(t) == Pop(Key(t))

\* The entry is removed; the answer is acted on, or SupervisorAbort ends the run.
CloseGate(t) ==
  /\ threads[t].pc \in {"answered", "expired"}
  /\ Leave(t)
  /\ threads' = [threads EXCEPT ![t].pc = IF @ = "answered" THEN "working" ELSE "ended"]
  /\ UNCHANGED <<questions, coder, handler, calls, clocks>>

End(t) ==
  /\ threads[t].pc = "working"
  /\ threads' = [threads EXCEPT ![t].pc = "ended"]
  /\ UNCHANGED <<registry, questions, coder, handler, calls, clocks>>

(***************************************************************************)
(* The answer tool.  The host answers a question it has been shown, under  *)
(* the id of the delegation that was running when it was asked.            *)
(***************************************************************************)
AskedIn(q) == threads[questions[q].asker].del

\* The asker gave up waiting, left the gate, and its run ended with the abort.
TimedOut(q) ==
  LET t == questions[q].asker
  IN  Ended(t) /\ threads[t].q = q /\ ~questions[q].event

LookUp(c, q, answer) ==
  /\ calls[c].pc = "ready"
  /\ questions[q].asker # 0
  /\ LET found == registry[AskedIn(q)]
     IN  calls' = [calls EXCEPT ![c] =
           [pc |-> IF found = 0 THEN "not_found" ELSE "found",
            meant |-> q, found |-> found, late |-> TimedOut(q), answer |-> answer]]
  /\ UNCHANGED <<registry, questions, threads, coder, handler, clocks>>

SetAnswer(c) ==
  /\ calls[c].pc = "found"
  /\ questions' = [questions EXCEPT ![calls[c].found].answer = calls[c].answer,
                                    ![calls[c].found].event = TRUE]
  /\ calls' = [calls EXCEPT ![c].pc = "ok"]
  /\ UNCHANGED <<registry, threads, coder, handler, clocks>>

Handle ==
  Delegate \/ Submit \/ RunEnds \/ RunTimesOut \/ GraceEnds \/ CleanUp \/ Return

Work(t) == GetCoder(t) \/ Ask(t) \/ WaitEnds(t) \/ CloseGate(t) \/ End(t)

Next ==
  \/ Handle
  \/ \E t \in Runs : Work(t)
  \/ \E c \in Calls : SetAnswer(c) \/ \E q \in Questions, a \in Answers : LookUp(c, q, a)

Spec == Init /\ [][Next]_vars

\* The handler runs whenever it can: each of its waits has a timeout.  A thread
\* that waits at the gate wakes up or times out, and then leaves it; nothing is
\* assumed of what an executor does otherwise.
Fairness ==
  /\ WF_vars(Handle)
  /\ \A t \in Runs : WF_vars(WaitEnds(t) \/ CloseGate(t))

FairSpec == Spec /\ Fairness

-----------------------------------------------------------------------------
(***************************************************************************)
(* Properties.                                                             *)
(***************************************************************************)
\* The question the running delegation waits on.
Waiting(t) == threads[t].pc = "waiting" /\ ~questions[threads[t].q].event

\* As long as every thread has ended with its run, the question the running
\* delegation waits on can be answered: the entry under the delegation's id is
\* that very question.  (Delegations with files or context of their own.)
GateReachable ==
  (~overran /\ handler.pc = "running" /\ Waiting(handler.run))
    => registry[handler.del] = threads[handler.run].q

\* As long as every thread has ended with its run, nothing of a delegation is
\* left in the registry when it returns, although a run may post under the id
\* of an earlier delegation and may end at the gate, in time or in the grace
\* period.
RegistryClean ==
  (~overran /\ handler.pc = "idle") => \A d \in Ids : registry[d] = 0

\* Both, over well-formed states.
RegistrySafe == TypeOK /\ GateReachable /\ RegistryClean

\* An answer reaches a question of the delegation it was meant for, also when
\* threads outlive their runs.  (Delegations with files or context of their
\* own.)
AnswersStayInDelegation ==
  \A c \in Calls : calls[c].found # 0 => AskedIn(calls[c].found) = AskedIn(calls[c].meant)

\* A delegation ends whatever its executor does, an executor that hangs at the
\* gate or elsewhere included.
CallReturns == handler.pc # "idle" ~> handler.pc = "idle"

\* An entry does not stay for ever, even one posted by a thread nobody waits for.
RegistryDrains == \A d \in Ids : registry[d] # 0 ~> registry[d] = 0

\* Neither a call nor an entry outlasts what it waits for.
GateEnds == CallReturns /\ RegistryDrains

(***************************************************************************)
(* What documents and comments say and the code does not do.               *)
(***************************************************************************)
\* An answer to a question whose gate has timed out is not found.
LateAnswerNotFound == \A c \in Calls : calls[c].late => calls[c].pc # "ok"

\* Whatever threads are left, the running delegation's question can be answered
\* under its id.
GateAlwaysReachable ==
  (handler.pc = "running" /\ Waiting(handler.run))
    => registry[handler.del] = threads[handler.run].q

\* Nothing of a delegation is left in the registry when it has ended.
RegistryAlwaysClean == handler.pc = "idle" => \A d \in Ids : registry[d] = 0

\* A coder, with its chat history and I/O buffer, is driven by one thread at a
\* time.
CoderNotShared ==
  \A t, u \in Runs : (t # u /\ ~Ended(t) /\ ~Ended(u) /\ threads[t].coder # 0)
                       => threads[t].coder # threads[u].coder
=============================================================================
