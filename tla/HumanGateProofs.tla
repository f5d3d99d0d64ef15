---------------------------- MODULE HumanGateProofs ----------------------------
(***************************************************************************)
(* Theorems about HumanGate, for every number of delegations, runs,        *)
(* questions and answer calls: what the registry holds, and where answers  *)
(* go.                                                                     *)
(***************************************************************************)
EXTENDS HumanGate, TLAPS

\* Delegations have files or context of their own, so that none is given the
\* coder of another.
OwnTokens ==
  \A d, e \in Ids :
    d # e => {CacheToken[d].first, CacheToken[d].rerun}
               \cap {CacheToken[e].first, CacheToken[e].rerun} = {}

AtGate(t) == threads[t].pc \in {"waiting", "answered", "expired"}

\* Delegations, runs and questions are numbered as they come.
Numbered ==
  /\ handler.pc # "idle" => handler.del \in Ids
  /\ handler.pc \in {"running", "grace", "cleanup"} => handler.run \in Runs
  /\ handler.run < nextRun
  /\ \A t \in Runs : t >= nextRun => threads[t].pc = "ended"
  /\ \A t \in Runs : t < nextRun => threads[t].del \in Ids
  /\ \A q \in Questions : questions[q].asker < nextRun
  /\ \A q \in Questions : q >= nextQuestion => questions[q].asker = 0

\* A coder, cached or in use, was made under the token of its user, by a run
\* that was started.
Coders ==
  /\ coder.maker < nextRun
  /\ coder.maker = 0 => coder.token = 0
  /\ coder.maker # 0 => coder.token = threads[coder.maker].token
  /\ \A t \in Runs :
       /\ t < nextRun => threads[t].token \in {CacheToken[threads[t].del].first,
                                               CacheToken[threads[t].del].rerun}
       /\ threads[t].coder < nextRun
       /\ threads[t].coder # 0 => threads[threads[t].coder].token = threads[t].token
       /\ threads[t].pc = "working" \/ AtGate(t) => threads[t].coder # 0
       /\ AtGate(t) => threads[t].q # 0

\* An entry is a question that was asked by a run of its delegation.
Entries ==
  \A d \in Ids : registry[d] # 0 =>
    questions[registry[d]].asker # 0 /\ AskedIn(registry[d]) = d

\* An answer call found an entry of the delegation it was meant for.
Answered ==
  \A c \in Calls : calls[c].found # 0 =>
    /\ calls[c].meant # 0
    /\ questions[calls[c].meant].asker # 0 /\ questions[calls[c].found].asker # 0
    /\ AskedIn(calls[c].found) = AskedIn(calls[c].meant)

\* While no thread has outlived its run, the only one that may be alive is the
\* run's, and the registry has its question while it is at the gate, and else
\* nothing.
OneThread ==
  ~overran =>
    /\ \A t \in Runs :
         threads[t].pc # "ended" => handler.pc \in {"running", "grace"} /\ t = handler.run
    /\ handler.pc \in {"running", "grace"} => threads[handler.run].del = handler.del
    /\ \A d \in Ids :
         registry[d] = IF /\ handler.pc \in {"running", "grace"} /\ AtGate(handler.run)
                          /\ d = handler.del
                         THEN threads[handler.run].q ELSE 0

\* The inductive invariant behind both theorems.
GateInv ==
  OwnTokens /\ TypeOK /\ Numbered /\ Coders /\ Entries /\ Answered /\ OneThread

-----------------------------------------------------------------------------
(***************************************************************************)
(* Types.                                                                  *)
(***************************************************************************)
LEMMA Bounds ==
  /\ MaxDelegations \in Nat /\ MaxDelegations > 0
  /\ MaxRuns \in Nat /\ MaxRuns > 0
  /\ MaxQuestions \in Nat /\ MaxQuestions > 0
  BY GateAssumption

LEMMA TypeInit == Init => TypeOK
<1> SUFFICES ASSUME Init PROVE TypeOK
  OBVIOUS
<1>1. questions \in [Questions -> Question] /\ threads \in [Runs -> Thread]
  BY DEF Init, Question, Thread
<1>2. calls \in [Calls -> Call] /\ handler \in Handler
  BY DEF Init, Call, Handler
<1>3. coder \in [token : Tokens \cup {0}, maker : Runs \cup {0}]
  BY DEF Init, NoCoder
<1>4. registry \in [Ids -> Questions \cup {0}]
  BY DEF Init
<1>5. /\ nextDel \in 1..(MaxDelegations + 1) /\ nextRun \in 1..(MaxRuns + 1)
      /\ nextQuestion \in 1..(MaxQuestions + 1)
  BY Bounds DEF Init
<1> QED
  BY <1>1, <1>2, <1>3, <1>4, <1>5 DEF Init, TypeOK

\* What a new run is given.
LEMMA Submitted ==
  ASSUME TypeOK, Numbered, Submit
  PROVE  /\ handler.pc = "between" /\ handler.del \in Ids
         /\ nextRun \in Runs /\ nextRun' = nextRun + 1
         /\ handler' \in Handler /\ handler'.pc = "running"
         /\ handler'.del = handler.del /\ handler'.run = nextRun
         /\ UNCHANGED <<registry, questions, coder, calls, nextDel, nextQuestion, overran>>
         /\ \E token \in {CacheToken[handler.del].first, CacheToken[handler.del].rerun} :
              threads' = [threads EXCEPT ![nextRun] =
                [pc |-> "new", del |-> handler.del, coder |-> 0, q |-> 0, token |-> token]]
<1>1. PICK again \in BOOLEAN :
        /\ handler' = [handler EXCEPT !.pc = "running", !.run = nextRun, !.again = again]
        /\ threads' = [threads EXCEPT ![nextRun] =
              [pc |-> "new", del |-> handler.del, coder |-> 0, q |-> 0,
               token |-> IF again THEN CacheToken[handler.del].rerun
                                  ELSE CacheToken[handler.del].first]]
  BY DEF Submit
<1>2. nextRun \in Runs /\ nextRun' = nextRun + 1
  BY Bounds DEF Submit, TypeOK, Runs
<1>3. handler.pc = "between" /\ handler.del \in Ids
  BY DEF Submit, Numbered
<1>4. /\ handler' \in Handler /\ handler'.pc = "running"
      /\ handler'.del = handler.del /\ handler'.run = nextRun
  BY <1>1, <1>2 DEF Handler, TypeOK
<1> QED
  BY <1>1, <1>2, <1>3, <1>4 DEF Submit

LEMMA HandleTypes == TypeOK /\ Numbered /\ Handle => TypeOK'
<1> SUFFICES ASSUME TypeOK, Numbered, Handle PROVE TypeOK'
  OBVIOUS
<1>1. CASE Delegate
  <2>1. nextDel \in Ids /\ nextDel' \in 1..(MaxDelegations + 1)
    BY <1>1, Bounds DEF TypeOK, Delegate, Ids
  <2>2. handler' \in Handler
    BY <1>1, <2>1 DEF TypeOK, Delegate, Handler
  <2> QED
    BY <1>1, <2>1, <2>2 DEF TypeOK, Delegate
<1>2. CASE Submit
  <2>1. PICK token \in {CacheToken[handler.del].first, CacheToken[handler.del].rerun} :
          threads' = [threads EXCEPT ![nextRun] =
            [pc |-> "new", del |-> handler.del, coder |-> 0, q |-> 0, token |-> token]]
    BY <1>2, Submitted
  <2>2. handler.del \in Ids /\ token \in Tokens
    BY <1>2, Submitted DEF Tokens
  <2>3. threads' \in [Runs -> Thread]
    BY <2>1, <2>2 DEF Thread, TypeOK
  <2>4. nextRun' \in 1..(MaxRuns + 1)
    BY <1>2, Submitted, Bounds DEF Runs
  <2> QED
    BY <1>2, <2>3, <2>4, Submitted DEF TypeOK
<1>3. CASE RunEnds \/ RunTimesOut
  <2>1. handler' \in Handler
    BY <1>3 DEF RunEnds, RunTimesOut, Handler, TypeOK
  <2> QED
    BY <1>3, <2>1 DEF RunEnds, RunTimesOut, TypeOK, clocks
<1>4. CASE GraceEnds
  <2>1. handler' \in Handler /\ overran' \in BOOLEAN
    BY <1>4 DEF GraceEnds, Handler, TypeOK
  <2> QED
    BY <1>4, <2>1 DEF GraceEnds, TypeOK
<1>5. CASE CleanUp
  <2>1. handler' \in Handler
    BY <1>5 DEF CleanUp, Handler, TypeOK
  <2>2. registry' \in [Ids -> Questions \cup {0}]
    BY <1>5 DEF CleanUp, Pop, TypeOK
  <2> QED
    BY <1>5, <2>1, <2>2 DEF CleanUp, TypeOK, clocks
<1>6. CASE Return
  <2>1. handler' \in Handler
    BY <1>6 DEF Return, Handler, TypeOK
  <2>2. coder' \in [token : Tokens \cup {0}, maker : Runs \cup {0}]
    BY <1>6 DEF Return, NoCoder, TypeOK
  <2> QED
    BY <1>6, <2>1, <2>2 DEF Return, TypeOK, clocks
<1> QED
  BY <1>1, <1>2, <1>3, <1>4, <1>5, <1>6 DEF Handle

LEMMA ThreadFields ==
  ASSUME NEW r \in Thread
  PROVE  /\ \A maker \in Runs \cup {0} : [r EXCEPT !.pc = "working", !.coder = maker] \in Thread
         /\ \A q \in Questions : [r EXCEPT !.pc = "waiting", !.q = q] \in Thread
<1>1. \A maker \in Runs \cup {0} : [r EXCEPT !.pc = "working", !.coder = maker] \in Thread
  BY DEF Thread
<1>2. \A q \in Questions : [r EXCEPT !.pc = "waiting", !.q = q] \in Thread
  BY DEF Thread
<1> QED
  BY <1>1, <1>2

LEMMA WorkTypes ==
  ASSUME TypeOK, NEW t \in Runs, Work(t)
  PROVE  TypeOK'
<1>1. CASE GetCoder(t)
  <2>1. coder' \in [token : Tokens \cup {0}, maker : Runs \cup {0}]
    <3>1. threads[t].token \in Tokens \cup {0}
      BY DEF TypeOK, Thread
    <3> QED
      BY <1>1, <3>1 DEF GetCoder, TypeOK
  <2>2. coder'.maker \in Runs \cup {0}
    BY <2>1
  <2>3. threads' = [threads EXCEPT ![t].pc = "working", ![t].coder = coder'.maker]
    BY <1>1 DEF GetCoder
  <2>4. threads' \in [Runs -> Thread]
    <3>0. threads[t] \in Thread
      BY DEF TypeOK
    <3>1. [threads[t] EXCEPT !.pc = "working", !.coder = coder'.maker] \in Thread
      BY <2>2, <3>0, ThreadFields
    <3> QED
      BY <2>3, <3>1 DEF TypeOK
  <2> QED
    BY <1>1, <2>1, <2>4 DEF GetCoder, TypeOK, clocks
<1>2. CASE Ask(t)
  <2>1. nextQuestion \in Questions /\ nextQuestion' \in 1..(MaxQuestions + 1)
    BY <1>2, Bounds DEF Ask, Questions, TypeOK
  <2>2. questions' \in [Questions -> Question]
    BY <1>2, <2>1 DEF Ask, Question, TypeOK
  <2>3. threads' \in [Runs -> Thread]
    <3>1. threads' = [threads EXCEPT ![t].pc = "waiting", ![t].q = nextQuestion]
      BY <1>2 DEF Ask
    <3>0. threads[t] \in Thread
      BY DEF TypeOK
    <3>2. [threads[t] EXCEPT !.pc = "waiting", !.q = nextQuestion] \in Thread
      BY <2>1, <3>0, ThreadFields
    <3> QED
      BY <3>1, <3>2 DEF TypeOK
  <2>4. registry' \in [Ids -> Questions \cup {0}]
    BY <1>2, <2>1 DEF Ask, Post, TypeOK
  <2> QED
    BY <1>2, <2>1, <2>2, <2>3, <2>4 DEF Ask, TypeOK
<1>3. CASE WaitEnds(t) \/ End(t)
  <2>1. threads' \in [Runs -> Thread]
    BY <1>3 DEF WaitEnds, End, Thread, TypeOK
  <2> QED
    BY <1>3, <2>1 DEF WaitEnds, End, TypeOK, clocks
<1>4. CASE CloseGate(t)
  <2>1. threads' \in [Runs -> Thread]
    BY <1>4 DEF CloseGate, Thread, TypeOK
  <2>2. registry' \in [Ids -> Questions \cup {0}]
    BY <1>4 DEF CloseGate, Leave, Pop, TypeOK
  <2> QED
    BY <1>4, <2>1, <2>2 DEF CloseGate, TypeOK, clocks
<1> QED
  BY <1>1, <1>2, <1>3, <1>4 DEF Work

LEMMA CallRecord ==
  ASSUME NEW q \in Questions, NEW found \in Questions \cup {0}, NEW late \in BOOLEAN,
         NEW a \in Answers
  PROVE  [pc |-> IF found = 0 THEN "not_found" ELSE "found", meant |-> q,
          found |-> found, late |-> late, answer |-> a] \in Call
  BY DEF Call

LEMMA CallTypes ==
  ASSUME TypeOK, Numbered, NEW c \in Calls,
         SetAnswer(c) \/ \E q \in Questions, a \in Answers : LookUp(c, q, a)
  PROVE  TypeOK'
<1>1. CASE SetAnswer(c)
  <2>1. calls' \in [Calls -> Call]
    BY <1>1 DEF SetAnswer, Call, TypeOK
  <2>2. calls[c].answer \in Answers \cup {NoAnswer}
    BY DEF Call, TypeOK
  <2>3. questions' \in [Questions -> Question]
    <3>1. \A r \in Question : /\ [r EXCEPT !.answer = calls[c].answer] \in Question
                             /\ [r EXCEPT !.event = TRUE] \in Question
      BY <2>2 DEF Question
    <3>2. questions \in [Questions -> Question]
      BY DEF TypeOK
    <3>3. PICK q : questions' = [questions EXCEPT ![q].answer = calls[c].answer, ![q].event = TRUE]
      BY <1>1 DEF SetAnswer
    <3> DEFINE said == [questions EXCEPT ![q].answer = calls[c].answer]
    <3>4. said \in [Questions -> Question]
      BY <3>1, <3>2
    <3>5. questions' = [said EXCEPT ![q].event = TRUE]
      BY <3>3
    <3> HIDE DEF said
    <3> QED
      BY <3>1, <3>4, <3>5
  <2> QED
    BY <1>1, <2>1, <2>3 DEF SetAnswer, TypeOK, clocks
<1>2. ASSUME NEW q \in Questions, NEW a \in Answers, LookUp(c, q, a)
      PROVE  TypeOK'
  <2>1. questions[q].asker \in Runs
    BY <1>2 DEF LookUp, Question, TypeOK
  <2>2. registry[AskedIn(q)] \in Questions \cup {0}
    <3>1. threads[questions[q].asker].del \in Ids
      BY <2>1 DEF Numbered
    <3> QED
      BY <3>1 DEF AskedIn, TypeOK
  <2>3. [pc |-> IF registry[AskedIn(q)] = 0 THEN "not_found" ELSE "found", meant |-> q,
         found |-> registry[AskedIn(q)], late |-> TimedOut(q), answer |-> a] \in Call
    <3>1. TimedOut(q) \in BOOLEAN
      BY Zenon DEF TimedOut
    <3> QED
      BY <2>2, <3>1, CallRecord
  <2>4. calls' = [calls EXCEPT ![c] =
          [pc |-> IF registry[AskedIn(q)] = 0 THEN "not_found" ELSE "found", meant |-> q,
           found |-> registry[AskedIn(q)], late |-> TimedOut(q), answer |-> a]]
    BY <1>2, Zenon DEF LookUp
  <2>5. calls' \in [Calls -> Call]
    BY <2>3, <2>4 DEF TypeOK
  <2> QED
    BY <1>2, <2>5 DEF LookUp, TypeOK, clocks
<1> QED
  BY <1>1, <1>2

-----------------------------------------------------------------------------
(***************************************************************************)
(* The numbers of delegations, runs and questions.                         *)
(***************************************************************************)
\* What a step of a thread leaves alone.
LEMMA WorkFrame ==
  ASSUME TypeOK, NEW t \in Runs, Work(t)
  PROVE  /\ \A u \in Runs : u # t => threads'[u] = threads[u]
         /\ \A u \in Runs : threads'[u].del = threads[u].del
         /\ \A u \in Runs : threads'[u].token = threads[u].token
         /\ threads[t].pc # "ended"
         /\ UNCHANGED <<handler, calls, nextDel, nextRun, overran>>
<1>1. CASE GetCoder(t)
  <2>1. threads' = [threads EXCEPT ![t].pc = "working", ![t].coder = coder'.maker]
    BY <1>1 DEF GetCoder
  <2> QED
    BY <1>1, <2>1 DEF GetCoder, TypeOK, Thread, clocks
<1>2. CASE Ask(t)
  <2>1. threads' = [threads EXCEPT ![t].pc = "waiting", ![t].q = nextQuestion]
    BY <1>2 DEF Ask
  <2> QED
    BY <1>2, <2>1 DEF Ask, TypeOK, Thread
<1>3. CASE WaitEnds(t)
  BY <1>3 DEF WaitEnds, TypeOK, Thread, clocks
<1>4. CASE CloseGate(t)
  BY <1>4 DEF CloseGate, TypeOK, Thread, clocks
<1>5. CASE End(t)
  BY <1>5 DEF End, TypeOK, Thread, clocks
<1> QED
  BY <1>1, <1>2, <1>3, <1>4, <1>5 DEF Work

\* What a step of a thread does not do with questions, except that one asks.
LEMMA WorkQuestions ==
  ASSUME TypeOK, NEW t \in Runs, Work(t)
  PROVE  \/ UNCHANGED <<questions, nextQuestion>>
         \/ /\ nextQuestion \in Questions /\ nextQuestion' = nextQuestion + 1
            /\ questions'[nextQuestion].asker = t
            /\ \A q \in Questions : q # nextQuestion => questions'[q] = questions[q]
<1>1. CASE Ask(t)
  <2>1. nextQuestion \in Questions
    BY <1>1, Bounds DEF Ask, Questions, TypeOK
  <2> QED
    BY <1>1, <2>1 DEF Ask, Question, TypeOK
<1>2. CASE GetCoder(t) \/ WaitEnds(t) \/ CloseGate(t) \/ End(t)
  BY <1>2 DEF GetCoder, WaitEnds, CloseGate, End, clocks
<1> QED
  BY <1>1, <1>2 DEF Work

LEMMA NumberedStep == TypeOK /\ Numbered /\ [Next]_vars => Numbered'
<1> SUFFICES ASSUME TypeOK, Numbered, [Next]_vars PROVE Numbered'
  OBVIOUS
<1>0. /\ \A q \in Questions : questions[q].asker \in Nat /\ q \in Nat
      /\ \A t \in Runs : t \in Nat
      /\ nextRun \in Nat /\ nextRun > 0 /\ nextQuestion \in Nat /\ handler.run \in Nat
  <2>1. \A q \in Questions : questions[q].asker \in Runs \cup {0} /\ q \in Nat
    BY Bounds DEF TypeOK, Question, Questions
  <2>2. handler.run \in Runs \cup {0}
    BY DEF TypeOK, Handler
  <2> QED
    BY <2>1, <2>2, Bounds DEF TypeOK, Runs
<1>1. CASE Delegate
  <2>1. handler'.del \in Ids /\ handler'.run = handler.run /\ handler'.pc = "between"
    BY <1>1, Bounds DEF Delegate, TypeOK, Ids, Handler
  <2> QED
    BY <1>1, <2>1 DEF Delegate, Numbered
<1>2. CASE Submit
  <2>1. \A t \in Runs : IF t = nextRun THEN threads'[t].del \in Ids
                                       ELSE threads'[t] = threads[t]
    <3>1. PICK token \in {CacheToken[handler.del].first, CacheToken[handler.del].rerun} :
            threads' = [threads EXCEPT ![nextRun] =
              [pc |-> "new", del |-> handler.del, coder |-> 0, q |-> 0, token |-> token]]
      BY <1>2, Submitted
    <3> QED
      BY <1>2, <3>1, Submitted DEF TypeOK
  <2>2. nextRun \in Nat /\ nextRun' = nextRun + 1
    BY <1>2, <1>0, Submitted
  <2>3. ASSUME NEW t \in Runs
        PROVE  /\ t >= nextRun' => threads'[t].pc = "ended"
               /\ t < nextRun' => threads'[t].del \in Ids
    <3>1. /\ t >= nextRun => threads[t].pc = "ended"
          /\ t < nextRun => threads[t].del \in Ids
      BY DEF Numbered
    <3>2. /\ t \in Nat
          /\ IF t = nextRun THEN threads'[t].del \in Ids ELSE threads'[t] = threads[t]
      BY <1>0, <2>1
    <3>3. CASE t = nextRun
      BY <2>2, <3>1, <3>2, <3>3
    <3>4. CASE t # nextRun
      BY <2>2, <3>1, <3>2, <3>4
    <3> QED
      BY <3>3, <3>4
  <2>4. \A q \in Questions : questions'[q].asker < nextRun'
    BY <1>0, <1>2, <2>2, Submitted DEF Numbered
  <2>5. /\ handler'.del \in Ids /\ handler'.run \in Runs /\ handler'.run < nextRun'
    BY <1>0, <1>2, <2>2, Submitted
  <2>6. \A q \in Questions : q >= nextQuestion' => questions'[q].asker = 0
    BY <1>2, Submitted DEF Numbered
  <2> QED
    BY <2>3, <2>4, <2>5, <2>6 DEF Numbered
<1>3. CASE RunEnds \/ RunTimesOut \/ GraceEnds \/ CleanUp \/ Return
  <2>1. /\ handler'.del = handler.del
        /\ handler'.run \in {0, handler.run}
        /\ handler'.pc # "idle" => handler.pc # "idle"
        /\ handler'.pc \in {"running", "grace", "cleanup"} =>
             handler.pc \in {"running", "grace", "cleanup"} /\ handler'.run = handler.run
    BY <1>3 DEF RunEnds, RunTimesOut, GraceEnds, CleanUp, Return, TypeOK, Handler
  <2>2. UNCHANGED <<threads, questions, nextRun, nextQuestion>>
    BY <1>3 DEF RunEnds, RunTimesOut, GraceEnds, CleanUp, Return, clocks
  <2>3. nextRun > 0
    BY Bounds DEF TypeOK
  <2> QED
    BY <2>1, <2>2, <2>3 DEF Numbered
<1>4. ASSUME NEW t \in Runs, Work(t)
      PROVE  Numbered'
  <2>1. t < nextRun
    BY <1>0, <1>4, WorkFrame DEF Numbered
  <2>2. \A u \in Runs : /\ u >= nextRun' => threads'[u].pc = "ended"
                        /\ u < nextRun' => threads'[u].del \in Ids
    BY <1>0, <1>4, <2>1, WorkFrame DEF Numbered
  <2>3. \A q \in Questions : questions'[q].asker < nextRun'
    BY <1>0, <1>4, <2>1, WorkFrame, WorkQuestions DEF Numbered
  <2>4. \A q \in Questions : q >= nextQuestion' => questions'[q].asker = 0
    BY <1>0, <1>4, WorkQuestions DEF Numbered
  <2>5. UNCHANGED <<handler, nextRun>>
    BY <1>4, WorkFrame
  <2> QED
    BY <2>2, <2>3, <2>4, <2>5 DEF Numbered
<1>5. ASSUME NEW c \in Calls, SetAnswer(c)
      PROVE  Numbered'
  <2>1. \A q \in Questions : questions'[q].asker = questions[q].asker
    BY <1>5 DEF SetAnswer, TypeOK, Question
  <2>2. UNCHANGED <<handler, threads, nextRun, nextQuestion>>
    BY <1>5 DEF SetAnswer, clocks
  <2> QED
    BY <2>1, <2>2 DEF Numbered
<1>6. ASSUME NEW c \in Calls, NEW q \in Questions, NEW a \in Answers, LookUp(c, q, a)
      PROVE  Numbered'
  BY <1>6 DEF LookUp, Numbered, clocks
<1>7. CASE UNCHANGED vars
  BY <1>7 DEF vars, Numbered
<1> QED
  BY <1>1, <1>2, <1>3, <1>4, <1>5, <1>6, <1>7 DEF Next, Handle
-----------------------------------------------------------------------------
(***************************************************************************)
(* The coders.                                                             *)
(***************************************************************************)
LEMMA GetCoderThread ==
  ASSUME TypeOK, NEW t \in Runs, GetCoder(t)
  PROVE  /\ threads[t].pc = "new" /\ threads'[t].pc = "working"
         /\ threads'[t].coder = coder'.maker
         /\ \/ coder' = coder /\ coder.token = threads[t].token
            \/ coder' = [token |-> threads[t].token, maker |-> t]
         /\ UNCHANGED <<registry, questions>>
<1>1. threads' = [threads EXCEPT ![t].pc = "working", ![t].coder = coder'.maker]
  BY DEF GetCoder
<1> QED
  BY <1>1 DEF GetCoder, CacheHit, TypeOK, Thread

LEMMA AskThread ==
  ASSUME TypeOK, NEW t \in Runs, Ask(t)
  PROVE  /\ threads[t].pc = "working" /\ threads'[t].pc = "waiting"
         /\ threads'[t].coder = threads[t].coder /\ threads'[t].q = nextQuestion
         /\ nextQuestion \in Questions
         /\ coder' = coder
         /\ questions'[nextQuestion].asker = t
         /\ registry' = [registry EXCEPT ![Key(t)] = nextQuestion]
<1>1. threads' = [threads EXCEPT ![t].pc = "waiting", ![t].q = nextQuestion]
  BY DEF Ask
<1>2. nextQuestion \in Questions
  BY Bounds DEF Ask, Questions, TypeOK
<1> QED
  BY <1>1, <1>2 DEF Ask, Post, TypeOK, Thread, Question

LEMMA LeaveThread ==
  ASSUME TypeOK, NEW t \in Runs, WaitEnds(t) \/ CloseGate(t) \/ End(t)
  PROVE  /\ threads'[t].coder = threads[t].coder /\ threads'[t].q = threads[t].q
         /\ coder' = coder /\ questions' = questions
         /\ threads[t].pc = "working" \/ AtGate(t)
         /\ \/ /\ threads'[t].pc \in {"answered", "expired"} /\ AtGate(t)
               /\ registry' = registry
            \/ /\ threads'[t].pc \in {"working", "ended"} /\ AtGate(t)
               /\ registry' = [registry EXCEPT ![Key(t)] = 0]
            \/ /\ threads'[t].pc = "ended" /\ threads[t].pc = "working"
               /\ registry' = registry
<1>1. CASE WaitEnds(t)
  <2>1. PICK p \in {"answered", "expired"} : threads' = [threads EXCEPT ![t].pc = p]
    BY <1>1 DEF WaitEnds
  <2>2. threads'[t] = [threads[t] EXCEPT !.pc = p]
    BY <2>1 DEF TypeOK
  <2>3. threads'[t].pc = p
    BY <2>2 DEF TypeOK, Thread
  <2> QED
    BY <1>1, <2>1, <2>2, <2>3 DEF WaitEnds, AtGate, clocks
<1>2. CASE CloseGate(t)
  <2>1. PICK p \in {"working", "ended"} : threads' = [threads EXCEPT ![t].pc = p]
    BY <1>2 DEF CloseGate
  <2>2. threads'[t] = [threads[t] EXCEPT !.pc = p]
    BY <2>1 DEF TypeOK
  <2>3. threads'[t].pc = p
    BY <2>2 DEF TypeOK, Thread
  <2> QED
    BY <1>2, <2>1, <2>2, <2>3 DEF CloseGate, Leave, Pop, AtGate, clocks
<1>3. CASE End(t)
  <2>1. threads'[t] = [threads[t] EXCEPT !.pc = "ended"]
    BY <1>3 DEF End, TypeOK
  <2>2. threads'[t].pc = "ended"
    BY <2>1 DEF TypeOK, Thread
  <2> QED
    BY <1>3, <2>1, <2>2 DEF End, clocks
<1> QED
  BY <1>1, <1>2, <1>3

\* Steps that do nothing with threads, coders and the registry.
LEMMA CallFrame ==
  ASSUME TypeOK, NEW c \in Calls,
         SetAnswer(c) \/ \E q \in Questions, a \in Answers : LookUp(c, q, a)
  PROVE  /\ UNCHANGED <<registry, threads, coder, handler, nextDel, nextRun, nextQuestion,
                        overran>>
         /\ \A q \in Questions : questions'[q].asker = questions[q].asker
<1>1. CASE SetAnswer(c)
  BY <1>1 DEF SetAnswer, TypeOK, Question, clocks
<1>2. CASE \E q \in Questions, a \in Answers : LookUp(c, q, a)
  BY <1>2 DEF LookUp, clocks
<1> QED
  BY <1>1, <1>2

\* A thread that is alive was started.
LEMMA AliveIsStarted ==
  ASSUME TypeOK, Numbered, NEW t \in Runs, threads[t].pc # "ended"
  PROVE  t < nextRun /\ threads[t].del \in Ids
<1>1. t \in Nat /\ nextRun \in Nat
  BY Bounds DEF TypeOK, Runs
<1> QED
  BY <1>1 DEF Numbered

\* The id under which a thread posts is that of its own delegation.
LEMMA KeyIsOwn ==
  ASSUME OwnTokens, TypeOK, Numbered, Coders,
         NEW t \in Runs, threads[t].pc = "working" \/ AtGate(t)
  PROVE  Key(t) = threads[t].del /\ threads[t].del \in Ids
<1> DEFINE m == threads[t].coder
<1>1. t < nextRun /\ threads[t].del \in Ids
  BY AliveIsStarted DEF AtGate
<1>2. m # 0 /\ m < nextRun /\ threads[m].token = threads[t].token
  BY DEF Coders
<1>3. m \in Runs
  BY <1>2 DEF TypeOK, Thread
<1>4. threads[m].del \in Ids
  BY <1>2, <1>3 DEF Numbered
<1>5. /\ threads[t].token \in {CacheToken[threads[t].del].first, CacheToken[threads[t].del].rerun}
      /\ threads[m].token \in {CacheToken[threads[m].del].first, CacheToken[threads[m].del].rerun}
  BY <1>1, <1>2, <1>3 DEF Coders
<1> QED
  BY <1>1, <1>2, <1>4, <1>5 DEF OwnTokens, Key

LEMMA CodersStep == TypeOK /\ Numbered /\ Coders /\ [Next]_vars => Coders'
<1> SUFFICES ASSUME TypeOK, Numbered, Coders, [Next]_vars PROVE Coders'
  OBVIOUS
<1>0. /\ nextRun \in Nat /\ nextRun > 0 /\ coder.maker \in Runs \cup {0}
      /\ \A t \in Runs : /\ t \in Nat /\ t # 0
                         /\ threads[t].coder \in Runs \cup {0}
                         /\ threads[t].coder \in Nat
  BY Bounds DEF TypeOK, Thread, Runs
<1>1. CASE Submit
  <2>1. PICK token \in {CacheToken[handler.del].first, CacheToken[handler.del].rerun} :
          threads' = [threads EXCEPT ![nextRun] =
            [pc |-> "new", del |-> handler.del, coder |-> 0, q |-> 0, token |-> token]]
    BY <1>1, Submitted
  <2>2. /\ nextRun \in Runs /\ nextRun' = nextRun + 1 /\ coder' = coder
        /\ handler.del \in Ids
    BY <1>1, Submitted
  <2>3. \A t \in Runs : t # nextRun => threads'[t] = threads[t]
    BY <2>1, <2>2 DEF TypeOK
  <2>4. threads'[nextRun] =
          [pc |-> "new", del |-> handler.del, coder |-> 0, q |-> 0, token |-> token]
    BY <2>1, <2>2 DEF TypeOK
  <2>5. /\ coder'.maker < nextRun'
        /\ coder'.maker = 0 => coder'.token = 0
        /\ coder'.maker # 0 => coder'.token = threads'[coder'.maker].token
    <3>1. coder.maker < nextRun
      BY DEF Coders
    <3>2. coder.maker # 0 => threads'[coder.maker] = threads[coder.maker]
      BY <1>0, <2>3, <3>1
    <3> QED
      BY <1>0, <2>2, <3>1, <3>2, Bounds DEF Coders, Runs
  <2>6. ASSUME NEW t \in Runs
        PROVE  /\ t < nextRun' => threads'[t].token \in {CacheToken[threads'[t].del].first,
                                                         CacheToken[threads'[t].del].rerun}
               /\ threads'[t].coder < nextRun'
               /\ threads'[t].coder # 0 =>
                    threads'[threads'[t].coder].token = threads'[t].token
               /\ threads'[t].pc = "working" \/ AtGate(t)' => threads'[t].coder # 0
               /\ AtGate(t)' => threads'[t].q # 0
    <3>1. CASE t = nextRun
      <4>1. threads'[t].coder = 0 /\ threads'[t].pc = "new"
            /\ threads'[t].token = token /\ threads'[t].del = handler.del
        BY <2>4, <3>1
      <4> QED
        BY <1>0, <2>2, <4>1 DEF AtGate
    <3>2. CASE t # nextRun
      <4>1. threads'[t] = threads[t] /\ threads[t].coder < nextRun
            /\ (AtGate(t)' <=> AtGate(t))
        BY <2>3, <3>2 DEF Coders, AtGate
      <4>2. threads[t].coder # 0 => threads'[threads[t].coder] = threads[threads[t].coder]
        BY <1>0, <2>3, <4>1
      <4>3. t < nextRun' => t < nextRun
        BY <1>0, <2>2, <3>2
      <4>4. threads'[t].coder < nextRun'
        BY <1>0, <2>2, <4>1
      <4> QED
        BY <4>1, <4>2, <4>3, <4>4 DEF Coders
    <3> QED
      BY <3>1, <3>2
  <2> QED
    BY <2>5, <2>6 DEF Coders
<1>2. CASE Return
  <2>1. coder' \in {coder, NoCoder} /\ UNCHANGED <<threads, nextRun>>
    BY <1>2 DEF Return, clocks
  <2>2. \A t \in Runs : AtGate(t)' <=> AtGate(t)
    BY <2>1 DEF AtGate
  <2>3. /\ coder'.maker < nextRun'
        /\ coder'.maker = 0 => coder'.token = 0
        /\ coder'.maker # 0 => coder'.token = threads'[coder'.maker].token
    BY <1>0, <2>1 DEF Coders, NoCoder
  <2> QED
    BY <2>1, <2>2, <2>3 DEF Coders
<1>3. CASE Delegate \/ RunEnds \/ RunTimesOut \/ GraceEnds \/ CleanUp
  BY <1>3 DEF Delegate, RunEnds, RunTimesOut, GraceEnds, CleanUp, Coders, AtGate, clocks
<1>4. ASSUME NEW t \in Runs, Work(t)
      PROVE  Coders'
  <2>1. t < nextRun /\ threads[t].del \in Ids /\ nextRun' = nextRun
    BY <1>4, WorkFrame, AliveIsStarted
  <2>2. /\ \A u \in Runs : u # t => threads'[u] = threads[u] /\ (AtGate(u)' <=> AtGate(u))
        /\ \A u \in Runs : threads'[u].token = threads[u].token
        /\ \A u \in Runs : threads'[u].del = threads[u].del
    BY <1>4, WorkFrame DEF AtGate
  <2>3. threads[t].token # 0
    BY <2>1, GateAssumption DEF Coders
  <2>4. /\ coder'.maker < nextRun
        /\ coder'.maker = 0 => coder'.token = 0
        /\ coder'.maker # 0 => coder'.token = threads[coder'.maker].token
        /\ threads'[t].coder < nextRun
        /\ threads'[t].coder # 0 => threads[threads'[t].coder].token = threads[t].token
        /\ threads'[t].pc = "working" \/ AtGate(t)' => threads'[t].coder # 0
        /\ AtGate(t)' => threads'[t].q # 0
        /\ coder'.maker \in Runs \cup {0} /\ threads'[t].coder \in Runs \cup {0}
    <3>1. CASE GetCoder(t)
      <4>1. /\ coder'.maker \in Runs \cup {0} /\ coder'.maker # 0
            /\ coder'.maker < nextRun
            /\ coder'.token = threads[t].token
            /\ threads[coder'.maker].token = threads[t].token
        BY <1>0, <2>1, <2>3, <3>1, GetCoderThread DEF Coders
      <4>2. ~AtGate(t)'
        BY <3>1, GetCoderThread DEF AtGate
      <4> QED
        BY <3>1, <4>1, <4>2, GetCoderThread
    <3>2. CASE Ask(t)
      BY <1>0, <3>2, Bounds, AskThread DEF Coders, Questions
    <3>3. CASE WaitEnds(t) \/ CloseGate(t) \/ End(t)
      <4>1. AtGate(t)' => AtGate(t)
        BY <3>3, LeaveThread DEF AtGate
      <4> QED
        BY <1>0, <3>3, <4>1, LeaveThread DEF Coders
    <3> QED
      BY <1>4, <3>1, <3>2, <3>3 DEF Work
  <2>5. ASSUME NEW u \in Runs
        PROVE  /\ u < nextRun' => threads'[u].token \in {CacheToken[threads'[u].del].first,
                                                         CacheToken[threads'[u].del].rerun}
               /\ threads'[u].coder < nextRun'
               /\ threads'[u].coder # 0 =>
                    threads'[threads'[u].coder].token = threads'[u].token
               /\ threads'[u].pc = "working" \/ AtGate(u)' => threads'[u].coder # 0
               /\ AtGate(u)' => threads'[u].q # 0
    <3>1. u < nextRun' => threads'[u].token \in {CacheToken[threads'[u].del].first,
                                                 CacheToken[threads'[u].del].rerun}
      BY <2>1, <2>2 DEF Coders
    <3>2. CASE u = t
      BY <2>1, <2>2, <2>4, <3>1, <3>2
    <3>3. CASE u # t
      <4>1. threads'[u].coder # 0 => threads'[threads'[u].coder].token = threads'[u].token
        BY <1>0, <2>2, <3>3 DEF Coders
      <4> QED
        BY <2>1, <2>2, <3>1, <3>3, <4>1 DEF Coders
    <3> QED
      BY <3>2, <3>3
  <2>6. coder'.maker # 0 => coder'.token = threads'[coder'.maker].token
    BY <2>2, <2>4
  <2> QED
    BY <2>1, <2>4, <2>5, <2>6 DEF Coders
<1>5. ASSUME NEW c \in Calls, SetAnswer(c) \/ \E q \in Questions, a \in Answers : LookUp(c, q, a)
      PROVE  Coders'
  BY <1>5, CallFrame DEF Coders, AtGate
<1>6. CASE UNCHANGED vars
  BY <1>6 DEF vars, Coders, AtGate
<1> QED
  BY <1>1, <1>2, <1>3, <1>4, <1>5, <1>6 DEF Next, Handle

-----------------------------------------------------------------------------
(***************************************************************************)
(* What the registry and the answer calls hold.                            *)
(***************************************************************************)
\* A question keeps its asker, and its asker the delegation.
LEMMA AskedStays ==
  ASSUME TypeOK, Numbered, [Next]_vars, NEW q \in Questions, questions[q].asker # 0
  PROVE  questions'[q].asker = questions[q].asker /\ AskedIn(q)' = AskedIn(q)
<1>0. /\ questions[q].asker \in Runs /\ questions[q].asker < nextRun
      /\ questions[q].asker \in Nat /\ nextRun \in Nat
      /\ q \in Nat /\ nextQuestion \in Nat
  BY Bounds DEF TypeOK, Question, Numbered, Runs, Questions
<1>1. CASE Submit
  <2>1. PICK token \in {CacheToken[handler.del].first, CacheToken[handler.del].rerun} :
          threads' = [threads EXCEPT ![nextRun] =
            [pc |-> "new", del |-> handler.del, coder |-> 0, q |-> 0, token |-> token]]
    BY <1>1, Submitted
  <2>2. threads'[questions[q].asker] = threads[questions[q].asker]
    BY <1>0, <2>1 DEF TypeOK
  <2>3. questions' = questions
    BY <1>1, Submitted
  <2> QED
    BY <2>2, <2>3 DEF AskedIn
<1>2. CASE Delegate \/ RunEnds \/ RunTimesOut \/ GraceEnds \/ CleanUp \/ Return
  BY <1>2 DEF Delegate, RunEnds, RunTimesOut, GraceEnds, CleanUp, Return, AskedIn, clocks
<1>3. ASSUME NEW t \in Runs, Work(t)
      PROVE  questions'[q].asker = questions[q].asker /\ AskedIn(q)' = AskedIn(q)
  <2>1. threads'[questions[q].asker].del = threads[questions[q].asker].del
    BY <1>0, <1>3, WorkFrame
  <2>2. q # nextQuestion
    BY <1>0 DEF Numbered
  <2>3. questions'[q] = questions[q]
    BY <1>3, <2>2, WorkQuestions
  <2> QED
    BY <2>1, <2>3 DEF AskedIn
<1>4. ASSUME NEW c \in Calls,
             SetAnswer(c) \/ \E r \in Questions, a \in Answers : LookUp(c, r, a)
      PROVE  questions'[q].asker = questions[q].asker /\ AskedIn(q)' = AskedIn(q)
  BY <1>4, CallFrame DEF AskedIn
<1>5. CASE UNCHANGED vars
  BY <1>5 DEF vars, AskedIn
<1> QED
  BY <1>1, <1>2, <1>3, <1>4, <1>5 DEF Next, Handle

LEMMA EntriesStep ==
  OwnTokens /\ TypeOK /\ Numbered /\ Coders /\ Entries /\ [Next]_vars => Entries'
<1> SUFFICES ASSUME OwnTokens, TypeOK, Numbered, Coders, Entries, [Next]_vars,
                    NEW d \in Ids, registry'[d] # 0
             PROVE  questions'[registry'[d]].asker # 0 /\ AskedIn(registry[d])' = d
  BY DEF Entries
<1>1. CASE registry'[d] = registry[d]
  <2>1. registry[d] \in Questions
    BY <1>1 DEF TypeOK
  <2> QED
    BY <1>1, <2>1, AskedStays DEF Entries, AskedIn
<1>2. ASSUME NEW t \in Runs, Ask(t)
      PROVE  questions'[registry'[d]].asker # 0 /\ AskedIn(registry[d])' = d
  <2>1. CASE d = Key(t)
    <3>1. registry'[d] = nextQuestion /\ questions'[nextQuestion].asker = t /\ t # 0
      BY <1>2, <2>1, AskThread, Bounds DEF TypeOK, Runs
    <3>2. threads'[t].del = threads[t].del
      BY <1>2, WorkFrame DEF Work
    <3>3. threads[t].del = d
      BY <1>2, <2>1, AskThread, KeyIsOwn
    <3> QED
      BY <3>1, <3>2, <3>3 DEF AskedIn
  <2>2. CASE d # Key(t)
    <3>1. registry'[d] = registry[d]
      BY <1>2, <2>2, AskThread DEF TypeOK
    <3> QED
      BY <1>1, <3>1
  <2> QED
    BY <2>1, <2>2
<1>3. CASE \E t \in Runs : WaitEnds(t) \/ CloseGate(t) \/ End(t)
  <2>1. registry'[d] = registry[d]
    BY <1>3, LeaveThread DEF TypeOK
  <2> QED
    BY <1>1, <2>1
<1>4. CASE \E t \in Runs : GetCoder(t)
  BY <1>1, <1>4, GetCoderThread
<1>5. CASE Handle
  <2>1. registry'[d] = registry[d]
    BY <1>5, Submitted DEF Handle, Delegate, RunEnds, RunTimesOut, GraceEnds, CleanUp, Pop,
                           Return, TypeOK, clocks
  <2> QED
    BY <1>1, <2>1
<1>6. ASSUME NEW c \in Calls,
             SetAnswer(c) \/ \E q \in Questions, a \in Answers : LookUp(c, q, a)
      PROVE  registry' = registry
  BY <1>6, CallFrame
<1>7. CASE UNCHANGED vars
  BY <1>1, <1>7 DEF vars
<1> QED
  BY <1>1, <1>2, <1>3, <1>4, <1>5, <1>6, <1>7 DEF Next, Work

LEMMA AnsweredStep ==
  TypeOK /\ Numbered /\ Entries /\ Answered /\ [Next]_vars => Answered'
<1> SUFFICES ASSUME TypeOK, Numbered, Entries, Answered, [Next]_vars,
                    NEW c \in Calls, calls'[c].found # 0
             PROVE  /\ calls'[c].meant # 0
                    /\ questions'[calls'[c].meant].asker # 0
                    /\ questions'[calls'[c].found].asker # 0
                    /\ AskedIn(calls[c].found)' = AskedIn(calls[c].meant)'
  BY DEF Answered
<1>1. CASE calls'[c].found = calls[c].found /\ calls'[c].meant = calls[c].meant
  <2>1. calls[c].found \in Questions /\ calls[c].meant \in Questions
    BY <1>1 DEF Answered, TypeOK, Call
  <2>2. /\ calls[c].meant # 0 /\ questions[calls[c].meant].asker # 0
        /\ questions[calls[c].found].asker # 0
        /\ AskedIn(calls[c].found) = AskedIn(calls[c].meant)
    BY <1>1 DEF Answered
  <2>3. ASSUME NEW q \in Questions, questions[q].asker # 0
        PROVE  questions'[q].asker = questions[q].asker /\ AskedIn(q)' = AskedIn(q)
    BY <2>3, AskedStays
  <2> QED
    BY <1>1, <2>1, <2>2, <2>3
<1>2. ASSUME NEW q \in Questions, NEW a \in Answers, LookUp(c, q, a)
      PROVE  /\ calls'[c].meant # 0
             /\ questions'[calls'[c].meant].asker # 0
             /\ questions'[calls'[c].found].asker # 0
             /\ AskedIn(calls[c].found)' = AskedIn(calls[c].meant)'
  <2>1. calls'[c].meant = q /\ calls'[c].found = registry[AskedIn(q)]
    <3>1. calls' = [calls EXCEPT ![c] =
            [pc |-> IF registry[AskedIn(q)] = 0 THEN "not_found" ELSE "found", meant |-> q,
             found |-> registry[AskedIn(q)], late |-> TimedOut(q), answer |-> a]]
      BY <1>2, Zenon DEF LookUp
    <3> QED
      BY <3>1 DEF TypeOK
  <2>2. questions[q].asker \in Runs /\ questions[q].asker < nextRun /\ q # 0
    BY <1>2, Bounds DEF LookUp, Question, TypeOK, Numbered, Questions
  <2>3. AskedIn(q) \in Ids
    BY <2>2 DEF Numbered, AskedIn
  <2>4. questions[registry[AskedIn(q)]].asker # 0 /\ AskedIn(registry[AskedIn(q)]) = AskedIn(q)
    BY <2>1, <2>3 DEF Entries
  <2>5. UNCHANGED <<questions, threads>>
    BY <1>2 DEF LookUp
  <2> QED
    BY <1>2, <2>1, <2>2, <2>4, <2>5 DEF AskedIn, LookUp
<1>3. ASSUME NEW e \in Calls, e # c,
             SetAnswer(e) \/ \E q \in Questions, a \in Answers : LookUp(e, q, a)
      PROVE  calls'[c] = calls[c]
  <2>1. CASE SetAnswer(e)
    BY <1>3, <2>1 DEF SetAnswer, TypeOK
  <2>2. CASE \E q \in Questions, a \in Answers : LookUp(e, q, a)
    BY <1>3, <2>2 DEF LookUp, TypeOK
  <2> QED
    BY <1>3, <2>1, <2>2
<1>4. CASE SetAnswer(c)
  BY <1>1, <1>4 DEF SetAnswer, TypeOK, Call
<1>5. CASE Handle
  BY <1>1, <1>5, Submitted DEF Handle, Delegate, RunEnds, RunTimesOut, GraceEnds, CleanUp,
                               Return
<1>6. CASE \E t \in Runs : Work(t)
  BY <1>1, <1>6, WorkFrame
<1>7. CASE UNCHANGED vars
  BY <1>1, <1>7 DEF vars
<1> QED
  BY <1>1, <1>2, <1>3, <1>4, <1>5, <1>6, <1>7 DEF Next

-----------------------------------------------------------------------------
(***************************************************************************)
(* The one thread that is alive, while none has outlived its run.          *)
(***************************************************************************)
LEMMA OneThreadHandle ==
  TypeOK /\ Numbered /\ OneThread /\ Handle => OneThread'
<1> SUFFICES ASSUME TypeOK, Numbered, OneThread, Handle, ~overran' PROVE OneThread'
  BY DEF OneThread
<1>0. handler \in Handler /\ handler.run \in Runs \cup {0}
  BY DEF TypeOK, Handler
<1>1. CASE Delegate
  <2>1. handler.pc = "idle" /\ handler'.pc = "between"
        /\ UNCHANGED <<registry, threads, overran>>
    BY <1>0, <1>1 DEF Delegate, Handler
  <2> QED
    BY <2>1 DEF OneThread
<1>2. CASE Submit
  <2>1. PICK token \in {CacheToken[handler.del].first, CacheToken[handler.del].rerun} :
          threads' = [threads EXCEPT ![nextRun] =
            [pc |-> "new", del |-> handler.del, coder |-> 0, q |-> 0, token |-> token]]
    BY <1>2, Submitted
  <2>2. /\ handler.pc = "between" /\ handler'.pc = "running" /\ nextRun \in Runs
        /\ handler'.run = nextRun /\ handler'.del = handler.del
        /\ UNCHANGED <<registry, overran>>
    BY <1>2, Submitted
  <2>3. /\ \A t \in Runs : t # nextRun => threads'[t] = threads[t]
        /\ threads'[nextRun].pc = "new" /\ threads'[nextRun].del = handler.del
    BY <2>1, <2>2 DEF TypeOK
  <2>4. ~AtGate(handler.run)'
    BY <2>2, <2>3 DEF AtGate
  <2>5. \A d \in Ids : registry[d] = 0
    BY <2>2 DEF OneThread
  <2>6. \A t \in Runs : threads'[t].pc # "ended" => t = handler'.run
    BY <2>2, <2>3 DEF OneThread
  <2>7. threads'[handler'.run].del = handler'.del /\ ~overran /\ handler.pc = "between"
    BY <2>2, <2>3
  <2> QED
    BY <2>2, <2>4, <2>5, <2>6, <2>7 DEF OneThread
<1>3. CASE RunEnds \/ GraceEnds
  <2>1. /\ handler.pc \in {"running", "grace"} /\ handler'.pc = "cleanup"
        /\ Ended(handler.run) /\ ~overran
        /\ UNCHANGED <<registry, threads>>
    <3>1. CASE RunEnds
      BY <1>0, <3>1 DEF RunEnds, Handler, clocks
    <3>2. CASE GraceEnds
      <4>1. ~overran /\ Ended(handler.run)
        BY <3>2, Zenon DEF GraceEnds
      <4> QED
        BY <1>0, <3>2, <4>1 DEF GraceEnds, Handler
    <3> QED
      BY <1>3, <3>1, <3>2
  <2>2. ~AtGate(handler.run)
    BY <2>1 DEF AtGate, Ended
  <2>3. \A d \in Ids : registry'[d] = 0
    BY <2>1, <2>2 DEF OneThread
  <2>4. \A t \in Runs : threads'[t].pc = "ended"
    BY <2>1 DEF OneThread, Ended
  <2> QED
    BY <2>1, <2>3, <2>4 DEF OneThread
<1>4. CASE RunTimesOut
  <2>1. /\ handler.pc = "running" /\ handler'.pc = "grace"
        /\ handler'.del = handler.del /\ handler'.run = handler.run
        /\ UNCHANGED <<registry, threads, overran>>
    BY <1>0, <1>4 DEF RunTimesOut, Handler, clocks
  <2>2. AtGate(handler.run)' <=> AtGate(handler.run)
    BY <2>1 DEF AtGate
  <2> QED
    BY <2>1, <2>2 DEF OneThread
<1>5. CASE CleanUp
  <2>1. /\ handler.pc = "cleanup" /\ handler'.pc = "between"
        /\ registry' = [registry EXCEPT ![handler.del] = 0]
        /\ UNCHANGED <<threads, overran>>
    BY <1>0, <1>5 DEF CleanUp, Pop, Handler, clocks
  <2>2. \A d \in Ids : registry'[d] = 0
    BY <2>1 DEF OneThread, TypeOK
  <2> QED
    BY <2>1, <2>2 DEF OneThread
<1>6. CASE Return
  <2>1. /\ handler.pc = "between" /\ handler'.pc = "idle"
        /\ UNCHANGED <<registry, threads, overran>>
    BY <1>0, <1>6 DEF Return, Handler, clocks
  <2> QED
    BY <2>1 DEF OneThread
<1> QED
  BY <1>1, <1>2, <1>3, <1>4, <1>5, <1>6 DEF Handle

LEMMA OneThreadWork ==
  ASSUME OwnTokens, TypeOK, Numbered, Coders, OneThread, NEW t \in Runs, Work(t)
  PROVE  OneThread'
<1> SUFFICES ASSUME ~overran' PROVE OneThread'
  BY DEF OneThread
<1>1. /\ \A u \in Runs : u # t => threads'[u] = threads[u]
      /\ threads'[t].del = threads[t].del
      /\ ~overran /\ handler' = handler /\ threads[t].pc # "ended"
  BY WorkFrame
<1>2. /\ t = handler.run /\ handler.pc \in {"running", "grace"}
      /\ threads[t].del = handler.del
  BY <1>1 DEF OneThread
<1>3. \A u \in Runs : threads'[u].pc # "ended" => u = handler.run
  BY <1>1, <1>2 DEF OneThread
<1>4. \A d \in Ids : registry'[d] = IF AtGate(t)' /\ d = handler.del THEN threads'[t].q ELSE 0
  <2>1. \A d \in Ids : registry[d] = IF AtGate(t) /\ d = handler.del THEN threads[t].q ELSE 0
    BY <1>1, <1>2 DEF OneThread
  <2>2. threads[t].pc = "working" \/ AtGate(t) => Key(t) = handler.del
    BY <1>2, KeyIsOwn
  <2>3. CASE GetCoder(t)
    <3>1. ~AtGate(t)' /\ ~AtGate(t) /\ registry' = registry
      BY <2>3, GetCoderThread DEF AtGate
    <3> QED
      BY <2>1, <3>1
  <2>4. CASE Ask(t)
    <3>1. /\ AtGate(t)' /\ ~AtGate(t) /\ threads'[t].q = nextQuestion
          /\ registry' = [registry EXCEPT ![Key(t)] = nextQuestion]
          /\ Key(t) = handler.del
      BY <2>2, <2>4, AskThread DEF AtGate
    <3> QED
      BY <2>1, <3>1 DEF TypeOK
  <2>5. CASE WaitEnds(t) \/ CloseGate(t) \/ End(t)
    <3>1. CASE AtGate(t)' /\ AtGate(t) /\ registry' = registry
      BY <2>1, <2>5, <3>1, LeaveThread
    <3>2. CASE ~AtGate(t)' /\ AtGate(t) /\ registry' = [registry EXCEPT ![Key(t)] = 0]
      BY <2>1, <2>2, <3>2 DEF TypeOK
    <3>3. CASE ~AtGate(t)' /\ ~AtGate(t) /\ registry' = registry
      BY <2>1, <3>3
    <3> QED
      BY <2>5, <3>1, <3>2, <3>3, LeaveThread DEF AtGate
  <2> QED
    BY <2>3, <2>4, <2>5 DEF Work
<1>5. AtGate(handler.run)' <=> AtGate(t)'
  BY <1>1, <1>2 DEF AtGate
<1> QED
  BY <1>1, <1>2, <1>3, <1>4, <1>5 DEF OneThread

LEMMA OneThreadStep ==
  OwnTokens /\ TypeOK /\ Numbered /\ Coders /\ OneThread /\ [Next]_vars => OneThread'
<1> SUFFICES ASSUME OwnTokens, TypeOK, Numbered, Coders, OneThread, [Next]_vars
             PROVE  OneThread'
  OBVIOUS
<1>1. ASSUME NEW c \in Calls,
             SetAnswer(c) \/ \E q \in Questions, a \in Answers : LookUp(c, q, a)
      PROVE  OneThread'
  BY <1>1, CallFrame DEF OneThread, AtGate
<1>2. CASE UNCHANGED vars
  BY <1>2 DEF vars, OneThread, AtGate
<1> QED
  BY <1>1, <1>2, OneThreadHandle, OneThreadWork DEF Next

-----------------------------------------------------------------------------
(***************************************************************************)
(* The theorems.                                                           *)
(***************************************************************************)
LEMMA NumberedInit == Init => Numbered
<1> SUFFICES ASSUME Init PROVE Numbered
  OBVIOUS
<1>1. nextRun = 1 /\ nextQuestion = 1 /\ handler.pc = "idle" /\ handler.run = 0
  BY DEF Init
<1>2. \A t \in Runs : threads[t].pc = "ended" /\ t \in Nat /\ ~(t < nextRun)
  BY <1>1, Bounds DEF Init, Runs
<1>3. \A q \in Questions : questions[q].asker = 0
  BY DEF Init
<1> QED
  BY <1>1, <1>2, <1>3 DEF Numbered

LEMMA TypeStep == TypeOK /\ Numbered /\ [Next]_vars => TypeOK'
<1>1. CASE UNCHANGED vars
  BY <1>1 DEF vars, TypeOK
<1> QED
  BY <1>1, HandleTypes, WorkTypes, CallTypes DEF Next

LEMMA GateInit == OwnTokens /\ Init => GateInv
<1> SUFFICES ASSUME OwnTokens, Init PROVE GateInv
  OBVIOUS
<1>1. TypeOK /\ Numbered
  BY TypeInit, NumberedInit
<1>2. Coders
  <2>1. \A t \in Runs : /\ threads[t].coder = 0 /\ ~AtGate(t) /\ threads[t].pc = "ended"
                        /\ ~(t < nextRun)
    BY Bounds DEF Init, AtGate, Runs
  <2> QED
    BY <2>1 DEF Coders, Init, NoCoder
<1>3. Entries /\ Answered
  BY DEF Entries, Answered, Init
<1>4. OneThread
  BY DEF OneThread, AtGate, Init
<1> QED
  BY <1>1, <1>2, <1>3, <1>4 DEF GateInv

LEMMA GateStep == GateInv /\ [Next]_vars => GateInv'
  BY TypeStep, NumberedStep, CodersStep, EntriesStep, AnsweredStep, OneThreadStep
     DEF GateInv, OwnTokens

\* Values stay in their sets, and delegations, runs and questions are numbered
\* as they come, whatever tokens the cache compares.
THEOREM GateTypes == Spec => [](TypeOK /\ Numbered)
<1>1. Init => TypeOK /\ Numbered
  BY TypeInit, NumberedInit
<1>2. TypeOK /\ Numbered /\ [Next]_vars => (TypeOK /\ Numbered)'
  BY TypeStep, NumberedStep
<1> QED
  BY <1>1, <1>2, PTL DEF Spec

\* When no thread has outlived its run, the question the running delegation
\* waits on is the entry under its id, so it can be answered, and nothing is
\* left in the registry when the delegation returns.
THEOREM RegistryIsSafe == OwnTokens /\ Spec => []RegistrySafe
<1>1. GateInv => RegistrySafe
  <2> SUFFICES ASSUME GateInv PROVE GateReachable /\ RegistryClean
    BY DEF RegistrySafe, GateInv
  <2>1. GateReachable
    BY DEF GateReachable, Waiting, GateInv, OneThread, Numbered, AtGate
  <2>2. RegistryClean
    BY DEF RegistryClean, GateInv, OneThread
  <2> QED
    BY <2>1, <2>2
<1> QED
  BY <1>1, GateInit, GateStep, PTL DEF Spec

\* An answer reaches a question of the delegation it was meant for, also when
\* threads outlive their runs: a coder is only reused under its own token, so
\* it posts under the id of the delegation that runs it.
THEOREM AnswersAreKept == OwnTokens /\ Spec => []AnswersStayInDelegation
<1>1. GateInv => AnswersStayInDelegation
  BY DEF GateInv, Answered, AnswersStayInDelegation
<1> QED
  BY <1>1, GateInit, GateStep, PTL DEF Spec

=============================================================================
