------------------------ MODULE DelegationRecordProofs ------------------------
(***************************************************************************)
(* What the delegations leave behind, for every number of processes,       *)
(* calls, turns and crashes: records that agree with the replies, an entry *)
(* in the ledger for each, a bounded number of turns, and envelopes that   *)
(* are closed.                                                             *)
(***************************************************************************)
EXTENDS DelegationProofs, FiniteSetTheorems

\* Process p runs delegate_to_agent on a delegation of its own.
Delegating(p) == pc[p] # "idle" /\ call[p].kind = "delegate"

\* Where the record of a call is in the log.
Filed == {"appended", "returning"}

\* A delegation has its complete record and no other.
OnlyComplete(d) == HasRecord(d) /\ \A r \in records : r.del = d => r.kind = "complete"

\* What makes RepliesMatchRecords inductive: delegation ids are handed out once,
\* a call has no record, of either kind, before it appends the complete one, and
\* nobody adds another while it is on its way out.
RecordInv ==
  /\ \A p \in Procs : Delegating(p) => call[p].id < nextDel
  /\ \A p, q \in Procs :
       (p # q /\ Delegating(p) /\ Delegating(q)) => call[p].id # call[q].id
  /\ \A r \in records : r.del < nextDel
  /\ \A p \in Procs :
       Delegating(p) => IF pc[p] \in Filed THEN OnlyComplete(call[p].id)
                        ELSE ~HasRecord(call[p].id)

\* A step that appends no record and hands out no id, and after which a
\* delegating process works on the delegation it worked on before.
Quiet ==
  /\ UNCHANGED <<records, nextDel>>
  /\ \A p \in Procs :
       Delegating(p)' => /\ Delegating(p)
                         /\ call'[p].id = call[p].id
                         /\ pc[p] \in Filed <=> pc'[p] \in Filed

LEMMA RecordInit == Init => RecordInv
  BY DEF Init, RecordInv, Delegating

LEMMA QuietStep == RecordInv /\ Quiet => RecordInv'
  BY DEF RecordInv, Quiet, HasRecord, OnlyComplete

\* A step that finishes p's call, or leaves it where its kind and id stay.
LEMMA FinishedQuiet ==
  ASSUME TypeInv, NEW p \in Procs, pc' = [pc EXCEPT ![p] = "idle"],
         call' = [call EXCEPT ![p] = NoCall], UNCHANGED <<records, nextDel>>
  PROVE  Quiet
  BY DEF TypeInv, TypeOK, Quiet, Delegating

LEMMA MovedQuiet ==
  ASSUME TypeInv, NEW p \in Procs, pc[p] # "idle",
         pc[p] \in Filed <=> pc'[p] \in Filed,
         \A q \in Procs : q # p => pc'[q] = pc[q] /\ call'[q] = call[q],
         call'[p].kind = "delegate" =>
           call[p].kind = "delegate" /\ call'[p].id = call[p].id,
         UNCHANGED <<records, nextDel>>
  PROVE  Quiet
  BY DEF Quiet, Delegating

\* The actions that neither hand out an id nor write a record.
LEMMA StepsQuiet ==
  ASSUME TypeInv, NEW p \in Procs,
         \/ Routing(p) \/ Preloop(p) \/ Loop(p) \/ PlannerRecords(p)
         \/ StartPostloop(p) \/ FinishPostloop(p) \/ TouchSession(p) \/ Return(p)
         \/ Resumption(p) \/ ResumeRaises(p) \/ Crash(p)
  PROVE  Quiet
<1> USE DEF clockVars, diskVars
<1>0. call \in [Procs -> CallType] /\ pc \in [Procs -> Labels]
  BY DEF TypeInv, TypeOK
<1>1. CASE RouteReminder(p) \/ Return(p) \/ CloseResume(p) \/ ResumeRaises(p) \/ Crash(p)
  <2>1. /\ pc' = [pc EXCEPT ![p] = "idle"] /\ call' = [call EXCEPT ![p] = NoCall]
        /\ UNCHANGED <<records, nextDel>>
    BY <1>1 DEF RouteReminder, Return, CloseResume, ResumeRaises, Crash,
                Finished, Goto
  <2> QED
    BY <2>1, FinishedQuiet
<1>2. CASE RouteFresh(p) \/ RouteClarityReentry(p) \/ RouteResume(p)
  <2>1. /\ pc[p] = "routing" /\ UNCHANGED <<records, nextDel>>
        /\ \E label \in Labels \ Filed : pc' = [pc EXCEPT ![p] = label]
    BY <1>2 DEF RouteFresh, RouteClarityReentry, RouteResume, At, Goto, Filed, Labels
  <2>2. \E c : /\ call' = [call EXCEPT ![p] = c]
               /\ c.kind = "delegate" => c.kind = call[p].kind /\ c.id = call[p].id
    <3>1. CASE RouteFresh(p)
      <4> DEFINE c == [call[p] EXCEPT !.seen = NoPause, !.answer = FALSE]
      <4>1. c.kind = call[p].kind /\ c.id = call[p].id
        BY <1>0 DEF CallType
      <4> QED
        BY <3>1, <4>1 DEF RouteFresh
    <3>2. CASE RouteClarityReentry(p)
      <4> DEFINE c == [call[p] EXCEPT !.from = call[p].seen.tok,
                                      !.seen = NoPause, !.answer = FALSE]
      <4>1. c.kind = call[p].kind /\ c.id = call[p].id
        BY <1>0 DEF CallType
      <4> QED
        BY <3>2, <4>1 DEF RouteClarityReentry
    <3>3. CASE RouteResume(p)
      <4> DEFINE c == [NoCall EXCEPT !.id = call[p].seen.ref, !.kind = "resume",
                                     !.from = call[p].seen.tok,
                                     !.logged = HasRecord(call[p].seen.ref)]
      <4>1. c.kind = "resume"
        BY DEF NoCall
      <4> QED
        BY <3>3, <4>1 DEF RouteResume
    <3> QED
      BY <1>2, <3>1, <3>2, <3>3
  <2> QED
    BY <1>0, <2>1, <2>2, MovedQuiet DEF Filed
<1>3. CASE OpenEnvelope(p) \/ ClarityBlocks(p) \/ ClarityPauseNotSaved(p)
           \/ EndTheLoop(p) \/ SaveProjectState(p) \/ SaveCheckpoint(p) \/ CheckpointNotSaved(p)
           \/ StartPostloop(p)
  <2>1. /\ pc[p] \notin {"idle"} \cup Filed /\ UNCHANGED <<records, nextDel, call>>
        /\ \E label \in Labels \ Filed : pc' = [pc EXCEPT ![p] = label]
    BY <1>3 DEF OpenEnvelope, ClarityBlocks, ClarityPauseNotSaved,
                EndTheLoop, SaveProjectState, SaveCheckpoint, CheckpointNotSaved,
                LeaveLoop, StartPostloop, At, Goto, Filed, Labels
  <2> QED
    BY <1>0, <2>1, MovedQuiet
<1>4. CASE InvalidSpec(p) \/ ReviewTargetsError(p) \/ CloseForClarity(p)
           \/ FinishPostloop(p) \/ ResumedTurnRaises(p) \/ RetryRaises(p)
           \/ \E ok \in BOOLEAN, decision \in Decisions : ResumedTurn(p, ok, decision)
  <2>1. /\ pc[p] \notin {"idle"} \cup Filed /\ UNCHANGED <<records, nextDel>>
        /\ \E label \in Labels \ Filed : pc' = [pc EXCEPT ![p] = label]
        /\ \E o : call' = [call EXCEPT ![p].outcome = o]
    BY <1>4 DEF InvalidSpec, ReviewTargetsError, CloseForClarity, FinishPostloop,
                ResumedTurnRaises, RetryRaises, ResumedTurn, Conclude, AfterLoop, At, Goto, Filed, Labels
  <2>2. PICK o : call' = [call EXCEPT ![p].outcome = o]
    BY <2>1
  <2>3. call'[p].kind = call[p].kind /\ call'[p].id = call[p].id
    BY <1>0, <2>2 DEF CallType
  <2> QED
    BY <1>0, <2>1, <2>2, <2>3, MovedQuiet
<1>5. CASE SaveClarityPause(p) \/ SavePause(p)
  <2>1. /\ pc[p] \notin {"idle"} \cup Filed /\ UNCHANGED <<records, nextDel>>
        /\ \E label \in Labels \ Filed : pc' = [pc EXCEPT ![p] = label]
        /\ call' = [call EXCEPT ![p].tok = nextTok]
    BY <1>5 DEF SaveClarityPause, SavePause, At, Goto, Filed, Labels
  <2>2. call'[p].kind = call[p].kind /\ call'[p].id = call[p].id
    BY <1>0, <2>1 DEF CallType
  <2> QED
    BY <1>0, <2>1, <2>2, MovedQuiet
<1>6. ASSUME NEW pkg \in BOOLEAN, EnterLoop(p, pkg) PROVE Quiet
  <2>1. /\ pc[p] \notin {"idle"} \cup Filed /\ UNCHANGED <<records, nextDel>>
        /\ \E label \in Labels \ Filed : pc' = [pc EXCEPT ![p] = label]
        /\ call' = [call EXCEPT ![p].pkg = pkg, ![p].from = 0]
    BY <1>6 DEF EnterLoop, At, Goto, Filed, Labels
  <2>2. call'[p].kind = call[p].kind /\ call'[p].id = call[p].id
    BY <1>0, <2>1 DEF CallType
  <2> QED
    BY <1>0, <2>1, <2>2, MovedQuiet
<1>7. ASSUME NEW ok \in BOOLEAN, NEW bound \in BOOLEAN,
             ExecutorReturns(p, ok) \/ FirstTurnRaises(p, bound)
      PROVE  Quiet
  <2>1. /\ pc[p] \notin {"idle"} \cup Filed /\ UNCHANGED <<records, nextDel>>
        /\ \E label \in Labels \ Filed : pc' = [pc EXCEPT ![p] = label]
        /\ \E o, e : call' = [call EXCEPT ![p].ok = o, ![p].engine = e]
    BY <1>7 DEF ExecutorReturns, FirstTurnRaises, At, Goto, Filed, Labels
  <2>2. call'[p].kind = call[p].kind /\ call'[p].id = call[p].id
    BY <1>0, <2>1 DEF CallType
  <2> QED
    BY <1>0, <2>1, <2>2, MovedQuiet
<1>8. ASSUME NEW verdict \in ReviewerResults, NEW decision \in Decisions,
             CompleteTheTurn(p, verdict, decision)
      PROVE  Quiet
  <2>1. /\ pc[p] \notin {"idle"} \cup Filed /\ UNCHANGED <<records, nextDel>>
        /\ \E label \in Labels \ Filed : pc' = [pc EXCEPT ![p] = label]
        /\ UNCHANGED call \/ \E o : call' = [call EXCEPT ![p].outcome = o]
    BY <1>8 DEF CompleteTheTurn, Conclude, AfterLoop, At, Goto, Filed, Labels
  <2>2. call'[p].kind = call[p].kind /\ call'[p].id = call[p].id
    BY <1>0, <2>1 DEF CallType
  <2> QED
    BY <1>0, <2>1, <2>2, MovedQuiet
<1>9. CASE PlannerRecords(p)
  BY <1>9 DEF PlannerRecords, Quiet, Delegating
<1>10. CASE TouchSession(p)
  <2>1. /\ pc[p] = "appended" /\ pc' = [pc EXCEPT ![p] = "returning"]
        /\ UNCHANGED <<records, nextDel, call>>
    BY <1>10 DEF TouchSession, At, Goto
  <2> QED
    BY <1>0, <2>1, MovedQuiet DEF Filed
<1> QED
  BY <1>1, <1>2, <1>3, <1>4, <1>5, <1>6, <1>7, <1>8, <1>9, <1>10
     DEF Routing, Preloop, Loop, Resumption

\* Handing out an id.
LEMMA ArriveKeepsRecords ==
  ASSUME TypeInv, RecordInv, NEW p \in Procs, NEW mode, NEW fresh, NEW answer,
         Arrive(p, mode, fresh, answer)
  PROVE  RecordInv'
<1>1. /\ call'[p].id = nextDel /\ nextDel' = nextDel + 1 /\ UNCHANGED records
      /\ pc[p] = "idle" /\ nextDel \in Nat
      /\ \A q \in Procs : q # p => call'[q] = call[q] /\ pc'[q] = pc[q]
  BY DEF TypeInv, TypeOK, Arrive, NoCall, At, Goto, diskVars
<1>2. \A r \in records : r.del \in Nat
  BY DEF TypeInv, TypeOK, Ids
<1>3. \A q \in Procs : Delegating(q) => call[q].id \in Nat
  BY DEF TypeInv, TypeOK, CallKinds, Delegating, Ids
<1>4. \A q \in Procs \ {p} : Delegating(q)' => Delegating(q) /\ call'[q].id < nextDel
  BY <1>1 DEF Delegating, RecordInv
<1>5. ~HasRecord(nextDel)
  BY <1>1, <1>2 DEF HasRecord, RecordInv
<1> QED
  BY <1>1, <1>2, <1>3, <1>4, <1>5
     DEF RecordInv, HasRecord, OnlyComplete, Delegating, Filed, Arrive, Goto, TypeInv, TypeOK

\* Appending a record: the complete one of a call that has none yet, or the one of
\* a call that is over with it.
LEMMA AppendKeepsRecords ==
  ASSUME TypeInv, RecordInv, NEW p \in Procs, NEW kind, Delegating(p),
         records' = records \cup {[del |-> call[p].id, kind |-> kind]},
         nextDel' = nextDel,
         \/ /\ pc' = [pc EXCEPT ![p] = "appended"] /\ UNCHANGED call
            /\ pc[p] \notin Filed /\ kind = "complete"
         \/ pc' = [pc EXCEPT ![p] = "idle"] /\ call' = [call EXCEPT ![p] = NoCall]
  PROVE  RecordInv'
<1> DEFINE r == [del |-> call[p].id, kind |-> kind]
<1>1. call[p].id < nextDel
  BY DEF RecordInv
<1>2. /\ r \in records' /\ records \subseteq records'
      /\ \A s \in records' : s \in records \/ s = r
  OBVIOUS
<1>3. r.del = call[p].id /\ r.kind = kind
  OBVIOUS
<1>4. \A s \in records' : s.del < nextDel'
  BY <1>1, <1>2, <1>3 DEF RecordInv
<1>5. \A q \in Procs :
        Delegating(q)' => /\ Delegating(q) /\ call'[q].id = call[q].id
                          /\ q = p => /\ pc'[q] = "appended" /\ pc[q] \notin Filed
                                      /\ kind = "complete"
                          /\ q # p => pc'[q] = pc[q]
  BY DEF TypeInv, TypeOK, Delegating
<1> HIDE DEF r
<1>6. ASSUME NEW q \in Procs, Delegating(q)'
      PROVE  IF pc'[q] \in Filed THEN OnlyComplete(call[q].id)' ELSE ~HasRecord(call[q].id)'
  <2>1. Delegating(q) /\ call'[q].id = call[q].id
    BY <1>5, <1>6
  <2>2. CASE q = p
    <3>1. \A s \in records : s.del # call[q].id
      BY <1>5, <1>6, <2>1, <2>2 DEF RecordInv, HasRecord
    <3> QED
      BY <1>2, <1>3, <1>5, <1>6, <2>1, <2>2, <3>1 DEF OnlyComplete, HasRecord, Filed
  <2>3. CASE q # p
    <3>1. pc'[q] = pc[q] /\ call[q].id # r.del
      BY <1>3, <1>5, <1>6, <2>1, <2>3 DEF RecordInv
    <3>2. \A s \in records' : s.del = call[q].id => s \in records
      BY <1>2, <3>1
    <3> QED
      BY <1>2, <2>1, <3>1, <3>2 DEF RecordInv, OnlyComplete, HasRecord
  <2> QED
    BY <2>2, <2>3
<1> QED
  BY <1>4, <1>5, <1>6 DEF RecordInv

LEMMA RecordStep == TypeInv /\ RecordInv /\ [Next]_vars => RecordInv'
<1> SUFFICES ASSUME TypeInv, RecordInv, [Next]_vars PROVE RecordInv'
  OBVIOUS
<1>1. ASSUME NEW p \in Procs, Step(p) PROVE RecordInv'
  <2>1. CASE AppendRecord(p)
    <3>1. Delegating(p) /\ pc[p] \notin Filed
      BY <2>1 DEF AppendRecord, At, Delegating, TypeInv, CallKinds, OwnLabels, Filed
    <3> QED
      BY <2>1, <3>1, AppendKeepsRecords DEF AppendRecord, At, Goto, clockVars
  <2>2. CASE DelegateRaises(p)
    <3>1. /\ pc' = [pc EXCEPT ![p] = "idle"] /\ call' = [call EXCEPT ![p] = NoCall]
          /\ nextDel' = nextDel /\ Delegating(p)
      BY <2>2 DEF DelegateRaises, Finished, Goto, clockVars, Delegating, MayRaise, At
    <3>2. CASE pc[p] \in {"armed", "returning"}
      <4>1. UNCHANGED records
        BY <2>2, <3>2 DEF DelegateRaises, InterruptedRecord
      <4> QED
        BY <3>1, <4>1, FinishedQuiet, QuietStep
    <3>3. CASE pc[p] \notin {"armed", "returning"}
      <4>1. records' = records \cup {[del |-> call[p].id, kind |-> "interrupted"]}
        BY <2>2, <3>3 DEF DelegateRaises, InterruptedRecord
      <4> QED
        BY <3>1, <4>1, AppendKeepsRecords
    <3> QED
      BY <3>2, <3>3
  <2> QED
    BY <1>1, <2>1, <2>2, StepsQuiet, QuietStep DEF Step, Postloop
<1>2. ASSUME NEW p \in Procs, PlannerRecords(p) \/ Crash(p) PROVE RecordInv'
  BY <1>2, StepsQuiet, QuietStep
<1>3. ASSUME NEW f \in files, Expire(f) PROVE RecordInv'
  BY <1>3, QuietStep DEF Expire, Quiet, Delegating, procVars, clockVars
<1>4. ASSUME UNCHANGED vars PROVE RecordInv'
  BY <1>4, QuietStep DEF vars, Quiet, Delegating, procVars, diskVars, clockVars
<1> QED
  BY <1>1, <1>2, <1>3, <1>4, ArriveKeepsRecords DEF Next

\* The step that ends a call, as the property has it.
ReplyMatches ==
  \A p \in Procs, d \in Ids :
    (/\ call[p].kind = "delegate" /\ call[p].id = d
     /\ pc[p] \notin {"idle", "routing"}
     /\ pc'[p] = "idle" /\ crashes' = crashes)
      => IF reply'[p].outcome = "raised"
           THEN At(p, "armed") \/ RecordKinds(d)' # {}
           ELSE RecordKinds(d)' = {"complete"}

\* A call that is under way ends by an exception, by its own return, or is no
\* delegation.
LEMMA CallsEnd ==
  ASSUME TypeInv, NEW p \in Procs, [Next]_vars, call[p].kind = "delegate",
         pc[p] \notin {"idle", "routing"}, pc'[p] = "idle", crashes' = crashes
  PROVE  DelegateRaises(p) \/ Return(p)
<1>0. /\ call \in [Procs -> CallType] /\ pc \in [Procs -> Labels] /\ crashes \in Nat
      /\ pc[p] \notin ResumeLabels
  BY DEF TypeInv, TypeOK, CallKinds
<1>1. ~Crash(p) /\ \A q \in Procs : ~Crash(q)
  BY <1>0 DEF Crash
<1>2. PICK q \in Procs : Step(q)
  <2>1. ~UNCHANGED vars /\ \A f : ~Expire(f)
    BY <1>0 DEF vars, procVars, Expire
  <2>2. \A q \in Procs : \A mode, fresh, answer : ~Arrive(q, mode, fresh, answer)
    BY <1>0 DEF Arrive, At, Goto
  <2>3. \A q \in Procs : ~PlannerRecords(q)
    BY <1>0 DEF PlannerRecords
  <2> QED
    BY <1>1, <2>1, <2>2, <2>3 DEF Next
<1>3. CASE DelegateRaises(q) \/ Return(q)
  <2>1. q = p
    BY <1>0, <1>3 DEF DelegateRaises, Return, Finished, Goto
  <2> QED
    BY <1>3, <2>1
<1>4. CASE RouteReminder(q) \/ CloseResume(q) \/ ResumeRaises(q)
  <2>1. q = p
    BY <1>0, <1>4 DEF RouteReminder, CloseResume, ResumeRaises, Finished, Goto
  <2> QED
    BY <1>0, <1>4, <2>1 DEF RouteReminder, CloseResume, ResumeRaises, At, ResumeLabels
<1>5. CASE \/ RouteFresh(q) \/ RouteClarityReentry(q) \/ RouteResume(q) \/ Preloop(q)
           \/ Loop(q) \/ StartPostloop(q) \/ FinishPostloop(q) \/ AppendRecord(q)
           \/ TouchSession(q) \/ ResumedTurnRaises(q)
           \/ \E ok \in BOOLEAN, decision \in Decisions : ResumedTurn(q, ok, decision)
  <2>1. \E label \in Labels \ {"idle"} : Goto(q, label)
    BY <1>5 DEF RouteFresh, RouteClarityReentry, RouteResume, Preloop, OpenEnvelope,
                InvalidSpec, ReviewTargetsError, ClarityBlocks, SaveClarityPause,
                ClarityPauseNotSaved, CloseForClarity, EnterLoop, Loop, ExecutorReturns,
                FirstTurnRaises, RetryRaises, CompleteTheTurn, Conclude, AfterLoop, SavePause,
                EndTheLoop, SaveProjectState, SaveCheckpoint, CheckpointNotSaved, LeaveLoop,
                StartPostloop, FinishPostloop, AppendRecord, TouchSession, ResumedTurn,
                ResumedTurnRaises, Labels
  <2> QED
    BY <1>0, <2>1 DEF Goto
<1> QED
  BY <1>2, <1>3, <1>4, <1>5 DEF Step, Routing, Postloop, Resumption

LEMMA RepliesStep == TypeInv /\ RecordInv /\ [Next]_vars => ReplyMatches
<1> SUFFICES ASSUME TypeInv, RecordInv, [Next]_vars, NEW p \in Procs, NEW d \in Ids,
                    call[p].kind = "delegate", call[p].id = d,
                    pc[p] \notin {"idle", "routing"},
                    pc'[p] = "idle", crashes' = crashes
             PROVE  IF reply'[p].outcome = "raised"
                      THEN At(p, "armed") \/ RecordKinds(d)' # {}
                      ELSE RecordKinds(d)' = {"complete"}
  BY DEF ReplyMatches
<1>0. /\ reply \in [Procs -> [outcome : ReplyOutcomes, tok : Tokens \cup {0},
                             resumed : Tokens \cup {0}]]
      /\ Delegating(p)
  BY DEF TypeInv, TypeOK, Delegating
<1>1. \A rs : {r.kind : r \in {s \in rs : s.del = d}} = {"complete"} <=>
               /\ \E r \in rs : r.del = d
               /\ \A r \in rs : r.del = d => r.kind = "complete"
  OBVIOUS
<1>2. CASE Return(p)
  <2>1. OnlyComplete(d) /\ UNCHANGED records
    BY <1>0, <1>2 DEF Return, At, RecordInv, Filed, diskVars
  <2>2. RecordKinds(d) = {"complete"}
    BY <1>1, <2>1 DEF OnlyComplete, HasRecord, RecordKinds
  <2> QED
    BY <2>1, <2>2 DEF RecordKinds
<1>3. CASE DelegateRaises(p)
  <2>1. reply'[p].outcome = "raised"
    BY <1>0, <1>3 DEF DelegateRaises, Finished
  <2>2. CASE pc[p] = "returning"
    <3>1. OnlyComplete(d) /\ UNCHANGED records
      BY <1>0, <1>3, <2>2 DEF DelegateRaises, InterruptedRecord, RecordInv, Filed
    <3>2. RecordKinds(d) = {"complete"}
      BY <1>1, <3>1 DEF OnlyComplete, HasRecord, RecordKinds
    <3> QED
      BY <2>1, <3>1, <3>2 DEF RecordKinds
  <2>3. CASE pc[p] \notin {"armed", "returning"}
    <3>1. [del |-> d, kind |-> "interrupted"] \in records'
      BY <1>3, <2>3 DEF DelegateRaises, InterruptedRecord
    <3> QED
      BY <2>1, <3>1 DEF RecordKinds
  <2> QED
    BY <2>1, <2>2, <2>3 DEF At
<1> QED
  BY <1>2, <1>3, CallsEnd

\* What the log says of a delegation agrees with what its host was told, whichever
\* way the call ended and however many processes delegate (RepliesMatchRecords).
THEOREM RepliesAreRecorded == Spec => RepliesMatchRecords
<1>1. TypeInv /\ RecordInv /\ [Next]_vars => [ReplyMatches]_vars
  BY RepliesStep
<1>2. RepliesMatchRecords <=> [][ReplyMatches]_vars
  BY DEF RepliesMatchRecords, ReplyMatches
<1> QED
  BY TypeInit, TypeStep, RecordInit, RecordStep, <1>1, <1>2, PTL DEF Spec

-----------------------------------------------------------------------------
(***************************************************************************)
(* The log and the traces keep the ledger of DelegationLedger: every step  *)
(* opens, records or loses one delegation, or leaves the ledger alone.     *)
(* What the ledger reads, as operators of the variables it reads: "l" is   *)
(* pc, "c" call, "rs" records, "t" trace and "ls" lost.                    *)
(***************************************************************************)
TracedIn(t, d) == t[d]["lifecycle_start"] > 0 \/ t[d]["loop_start"] > 0
RecordIn(rs, d) == \E r \in rs : r.del = d
DiedIn(ls, d) == [del |-> d, kind |-> "delegate"] \in ls
Delegates(l, c, p) == l[p] # "idle" /\ c[p].kind = "delegate"
RunningIn(l, c, d) == \E p \in Procs : Delegates(l, c, p) /\ c[p].id = d

OpenIn(l, c, rs, t) ==
  {d \in Ids : ~RecordIn(rs, d) /\ TracedIn(t, d) /\ RunningIn(l, c, d)}
DoneIn(rs) == {d \in Ids : RecordIn(rs, d)}
GoneIn(rs, t, ls) == {d \in Ids : ~RecordIn(rs, d) /\ TracedIn(t, d) /\ DiedIn(ls, d)}

\* What the ledger needs of the calls in progress: nothing is traced before its
\* call has passed the routing, a call that has filed its record has it, nobody
\* works on what is lost, and a resumed call writes to the trace of a recorded
\* delegation only.
LedgerOk(l, c, rs, t, ls, n) ==
  /\ \A d \in Ids : d >= n => ~TracedIn(t, d)
  /\ \A p \in Procs :
       Delegates(l, c, p) =>
         /\ l[p] \in {"routing", "armed"} => ~TracedIn(t, c[p].id)
         /\ l[p] \in Filed => RecordIn(rs, c[p].id)
         /\ ~DiedIn(ls, c[p].id)
  /\ \A p \in Procs :
       (l[p] # "idle" /\ c[p].kind = "resume" /\ c[p].logged) => RecordIn(rs, c[p].id)
  /\ \A x \in ls : x.kind = "delegate" => x.del < n

LedgerInv == LedgerOk(pc, call, records, trace, lost, nextDel)

LedgerVars == <<OpenIds, Recorded, LostOpen>>

LEMMA LedgerIs ==
  /\ OpenIds = OpenIn(pc, call, records, trace)
  /\ Recorded = DoneIn(records)
  /\ LostOpen = GoneIn(records, trace, lost)
  BY DEF OpenIds, Recorded, LostOpen, OpenIn, DoneIn, GoneIn, Traced, HasRecord, Working,
         TracedIn, RecordIn, DiedIn, RunningIn, Delegates

LEMMA LedgerIsAfter ==
  /\ OpenIds' = OpenIn(pc', call', records', trace')
  /\ Recorded' = DoneIn(records')
  /\ LostOpen' = GoneIn(records', trace', lost')
  BY DEF OpenIds, Recorded, LostOpen, OpenIn, DoneIn, GoneIn, Traced, HasRecord, Working,
         TracedIn, RecordIn, DiedIn, RunningIn, Delegates

\* The trace grows, and only by events of a delegation of d, or of a recorded one.
TraceGrows(d) ==
  \A e \in Ids :
    /\ TracedIn(trace, e) => TracedIn(trace', e)
    /\ TracedIn(trace', e) => TracedIn(trace, e) \/ RecordIn(records, e) \/ e = d

\* What every step of a handler p does, but for the handing out of an id.
Handles(p) ==
  /\ UNCHANGED <<nextDel, lost>> /\ records \subseteq records'
  /\ \A q \in Procs \ {p} : pc'[q] = pc[q] /\ call'[q] = call[q]
  /\ TraceGrows(IF Delegates(pc, call, p) THEN call[p].id ELSE 0)
  /\ Delegates(pc', call', p) =>
       /\ Delegates(pc, call, p) /\ call'[p].id = call[p].id
       /\ pc'[p] \in {"routing", "armed"} => ~TracedIn(trace', call[p].id)
       /\ pc'[p] \in Filed => RecordIn(records', call[p].id)
  /\ (pc'[p] # "idle" /\ call'[p].kind = "resume" /\ call'[p].logged)
       => RecordIn(records, call'[p].id)

LEMMA DelegatesIds ==
  ASSUME TypeInv, NEW p \in Procs, Delegates(pc, call, p) PROVE call[p].id \in Ids /\ call[p].id # 0
<1>1. call[p].id \in Ids
  BY DEF TypeInv, CallKinds, Delegates
<1> QED
  BY <1>1, BoundsAssumption DEF Ids

\* The conditions on the calls in progress are kept.
LEMMA HandlesKeepsLedger ==
  ASSUME TypeInv, RecordInv, LedgerInv, NEW p \in Procs, Handles(p)
  PROVE  LedgerInv'
<1>0. LedgerOk(pc, call, records, trace, lost, nextDel)
  BY DEF LedgerInv
<1>1. \A d : RecordIn(records, d) => RecordIn(records', d)
  BY DEF Handles, RecordIn
<1>2. \A d \in Ids : d >= nextDel' => ~TracedIn(trace', d)
  <2> SUFFICES ASSUME NEW d \in Ids, d >= nextDel, TracedIn(trace', d) PROVE FALSE
    BY DEF Handles
  <2>1. ~TracedIn(trace, d)
    BY <1>0 DEF LedgerOk
  <2>2. nextDel \in Nat /\ d \in Nat
    BY DEF TypeInv, TypeOK, Ids
  <2>3. ~(d < nextDel)
    BY <2>2
  <2>4. ~RecordIn(records, d)
    BY <2>3 DEF RecordIn, RecordInv
  <2>5. Delegates(pc, call, p) => call[p].id # d
    BY <2>3 DEF RecordInv, Delegating, Delegates
  <2>6. d # 0
    BY BoundsAssumption DEF Ids
  <2> QED
    BY <2>1, <2>4, <2>5, <2>6 DEF Handles, TraceGrows
<1>3. ASSUME NEW q \in Procs, Delegates(pc', call', q)
      PROVE  /\ pc'[q] \in {"routing", "armed"} => ~TracedIn(trace', call'[q].id)
             /\ pc'[q] \in Filed => RecordIn(records', call'[q].id)
             /\ ~DiedIn(lost', call'[q].id)
  <2>1. Delegates(pc, call, q) /\ call'[q].id = call[q].id
    BY <1>3 DEF Handles, Delegates
  <2>2. call[q].id \in Ids /\ call[q].id # 0
    BY <2>1, DelegatesIds
  <2>3. ~DiedIn(lost', call'[q].id)
    BY <1>0, <2>1 DEF LedgerOk, Handles
  <2>4. CASE q = p
    BY <1>3, <2>1, <2>3, <2>4 DEF Handles
  <2>5. CASE q # p
    <3>1. pc'[q] = pc[q]
      BY <2>5 DEF Handles
    <3>2. pc[q] \in Filed => RecordIn(records', call[q].id)
      BY <1>0, <1>1, <2>1 DEF LedgerOk
    <3>3. ASSUME pc[q] \in {"routing", "armed"} PROVE ~TracedIn(trace', call[q].id)
      <4>1. ~TracedIn(trace, call[q].id)
        BY <1>0, <2>1, <3>3 DEF LedgerOk
      <4>2. ~RecordIn(records, call[q].id)
        BY <2>1, <3>3 DEF RecordInv, HasRecord, RecordIn, Delegating, Delegates, Filed
      <4>3. Delegates(pc, call, p) => call[p].id # call[q].id
        BY <2>1, <2>5 DEF RecordInv, Delegating, Delegates
      <4> QED
        BY <2>2, <4>1, <4>2, <4>3 DEF Handles, TraceGrows
    <3> QED
      BY <2>1, <2>3, <3>1, <3>2, <3>3
  <2> QED
    BY <2>4, <2>5
<1>4. ASSUME NEW q \in Procs, pc'[q] # "idle", call'[q].kind = "resume", call'[q].logged
      PROVE  RecordIn(records', call'[q].id)
  <2>1. CASE q = p
    BY <1>1, <1>4, <2>1 DEF Handles
  <2>2. CASE q # p
    BY <1>0, <1>1, <1>4, <2>2 DEF Handles, LedgerOk
  <2> QED
    BY <2>1, <2>2
<1>5. \A x \in lost' : x.kind = "delegate" => x.del < nextDel'
  BY <1>0 DEF LedgerOk, Handles
<1> QED
  BY <1>2, <1>3, <1>4, <1>5 DEF LedgerInv, LedgerOk

\* A step after which every traced delegation without a record runs if it did,
\* and at most d, which runs, is newly traced.
LEMMA OpensAtMost ==
  ASSUME LedgerInv, NEW d, UNCHANGED lost,
         \A e : RecordIn(records', e) <=> RecordIn(records, e),
         \A e \in Ids : ~RecordIn(records, e) =>
           /\ TracedIn(trace, e) => TracedIn(trace', e)
           /\ TracedIn(trace', e) => (RunningIn(pc', call', e) <=> RunningIn(pc, call, e))
           /\ TracedIn(trace', e) =>
                TracedIn(trace, e) \/ (e = d /\ RunningIn(pc, call, e) /\ ~DiedIn(lost, e))
  PROVE  [Ledger!Next]_LedgerVars
<1>1. DoneIn(records') = DoneIn(records)
  BY DEF DoneIn
<1>2. GoneIn(records', trace', lost') = GoneIn(records, trace, lost)
  BY DEF GoneIn
<1>3. CASE d \in Ids /\ ~RecordIn(records, d) /\ ~TracedIn(trace, d) /\ TracedIn(trace', d)
  <2>1. OpenIn(pc', call', records', trace') = OpenIn(pc, call, records, trace) \cup {d}
    BY <1>3 DEF OpenIn
  <2>2. d \notin OpenIn(pc, call, records, trace) /\ d \notin DoneIn(records)
          /\ d \notin GoneIn(records, trace, lost)
    BY <1>3 DEF OpenIn, DoneIn, GoneIn
  <2>3. Ledger!Open(d)
    BY <1>1, <1>2, <2>1, <2>2, LedgerIs, LedgerIsAfter DEF Ledger!Open
  <2> QED
    BY <1>3, <2>3 DEF Ledger!Next
<1>4. CASE ~(d \in Ids /\ ~RecordIn(records, d) /\ ~TracedIn(trace, d) /\ TracedIn(trace', d))
  <2>1. OpenIn(pc', call', records', trace') = OpenIn(pc, call, records, trace)
    BY <1>4 DEF OpenIn
  <2> QED
    BY <1>1, <1>2, <2>1, LedgerIs, LedgerIsAfter DEF LedgerVars
<1> QED
  BY <1>3, <1>4

\* A step of a handler that appends no record, or a further one of a delegation
\* that has one: a delegation is opened at most.
LEMMA GoesOn ==
  ASSUME TypeInv, RecordInv, LedgerInv, NEW p \in Procs, Handles(p),
         \A e : RecordIn(records', e) <=> RecordIn(records, e),
         Delegates(pc, call, p) =>
           \/ Delegates(pc', call', p)
           \/ RecordIn(records, call[p].id)
           \/ ~TracedIn(trace', call[p].id)
  PROVE  LedgerInv' /\ [Ledger!Next]_LedgerVars
<1>1. LedgerInv'
  BY HandlesKeepsLedger
<1> DEFINE d == IF Delegates(pc, call, p) THEN call[p].id ELSE 0
<1>2. d # 0 => RunningIn(pc, call, d) /\ ~DiedIn(lost, d)
  BY DEF RunningIn, LedgerInv, LedgerOk
<1>3. 0 \notin Ids
  BY BoundsAssumption DEF Ids
<1>4. ASSUME NEW e \in Ids, ~RecordIn(records, e)
      PROVE  /\ TracedIn(trace, e) => TracedIn(trace', e)
             /\ TracedIn(trace', e) => (RunningIn(pc', call', e) <=> RunningIn(pc, call, e))
             /\ TracedIn(trace', e) =>
                  TracedIn(trace, e) \/ (e = d /\ RunningIn(pc, call, e) /\ ~DiedIn(lost, e))
  <2>1. TraceGrows(d)
    BY DEF Handles
  <2>2. TracedIn(trace', e) => TracedIn(trace, e) \/ e = d
    BY <1>4, <2>1 DEF TraceGrows
  <2>3. \A q \in Procs : q # p => (Delegates(pc', call', q) <=> Delegates(pc, call, q))
    BY DEF Handles, Delegates
  <2>4. \A q \in Procs : q # p => call'[q].id = call[q].id
    BY DEF Handles
  <2>5. Delegates(pc', call', p) => Delegates(pc, call, p) /\ call'[p].id = call[p].id
    BY DEF Handles
  <2>6. RunningIn(pc', call', e) => RunningIn(pc, call, e)
    BY <2>3, <2>4, <2>5 DEF RunningIn
  <2>7. TracedIn(trace', e) /\ RunningIn(pc, call, e) => RunningIn(pc', call', e)
    BY <1>4, <2>3, <2>4, <2>5 DEF RunningIn
  <2>8. TracedIn(trace, e) => TracedIn(trace', e)
    BY <2>1 DEF TraceGrows
  <2> QED
    BY <1>2, <1>3, <2>2, <2>6, <2>7, <2>8
<1> HIDE DEF d
<1>5. UNCHANGED lost
  BY DEF Handles
<1>6. [Ledger!Next]_LedgerVars
  BY <1>4, <1>5, OpensAtMost
<1> QED
  BY <1>1, <1>6

\* The delegations that have a record after one was appended.
LEMMA RecordAdded ==
  ASSUME NEW d, NEW kind, records' = records \cup {[del |-> d, kind |-> kind]}
  PROVE  \A e : RecordIn(records', e) <=> RecordIn(records, e) \/ e = d
<1> DEFINE r == [del |-> d, kind |-> kind]
<1>1. r.del = d
  OBVIOUS
<1>2. r \in records' /\ \A s \in records' : s \in records \/ s = r
  OBVIOUS
<1>3. records \subseteq records'
  OBVIOUS
<1> HIDE DEF r
<1>4. \A e : RecordIn(records', e) => RecordIn(records, e) \/ e = d
  BY <1>1, <1>2 DEF RecordIn
<1>5. \A e : RecordIn(records, e) => RecordIn(records', e)
  BY <1>3 DEF RecordIn
<1>6. RecordIn(records', d)
  BY <1>1, <1>2 DEF RecordIn
<1> QED
  BY <1>4, <1>5, <1>6

\* A step of a handler that appends the record of its delegation.
LEMMA Records ==
  ASSUME TypeInv, RecordInv, LedgerInv, NEW p \in Procs, Handles(p),
         Delegates(pc, call, p), pc[p] \notin Filed, NEW kind,
         records' = records \cup {[del |-> call[p].id, kind |-> kind]}
  PROVE  LedgerInv' /\ [Ledger!Next]_LedgerVars
<1>1. LedgerInv'
  BY HandlesKeepsLedger
<1>2. PICK d \in Ids : d = call[p].id /\ d # 0
  BY DelegatesIds
<1>3. ~RecordIn(records, d)
  BY <1>2 DEF RecordInv, HasRecord, RecordIn, Delegating, Delegates
<1>4. ~DiedIn(lost, d)
  BY <1>2 DEF LedgerInv, LedgerOk
<1>5. \A e : RecordIn(records', e) <=> RecordIn(records, e) \/ e = d
  BY <1>2, RecordAdded
<1>6. DoneIn(records') = DoneIn(records) \cup {d}
  BY <1>5 DEF DoneIn
<1>7. \A e \in Ids : (e # d /\ ~RecordIn(records, e)) => (TracedIn(trace', e) <=> TracedIn(trace, e))
  BY <1>2 DEF Handles, TraceGrows
<1>8. GoneIn(records', trace', lost') = GoneIn(records, trace, lost)
  BY <1>4, <1>5, <1>7 DEF GoneIn, Handles
<1>9. \A e \in Ids : e # d => (RunningIn(pc', call', e) <=> RunningIn(pc, call, e))
  <2>3. \A q \in Procs : q # p => (Delegates(pc', call', q) <=> Delegates(pc, call, q))
    BY DEF Handles, Delegates
  <2>4. \A q \in Procs : q # p => call'[q].id = call[q].id
    BY DEF Handles
  <2>5. Delegates(pc', call', p) => call'[p].id = d
    BY <1>2 DEF Handles
  <2> QED
    BY <1>2, <2>3, <2>4, <2>5 DEF RunningIn
<1>10. OpenIn(pc', call', records', trace') = OpenIn(pc, call, records, trace) \ {d}
  BY <1>5, <1>7, <1>9 DEF OpenIn
<1>11. d \notin DoneIn(records) /\ d \notin GoneIn(records, trace, lost)
  BY <1>3, <1>4 DEF DoneIn, GoneIn
<1>12. Ledger!Record(d)
  BY <1>6, <1>8, <1>10, <1>11, LedgerIs, LedgerIsAfter DEF Ledger!Record
<1> QED
  BY <1>1, <1>12 DEF Ledger!Next

\* Events of p's own call reach a trace that may grow.
LEMMA EmitGrows ==
  ASSUME TypeInv, LedgerInv, NEW p \in Procs, pc[p] # "idle", NEW kinds,
         Emit(p, kinds) \/ UNCHANGED trace
  PROVE  TraceGrows(IF Delegates(pc, call, p) THEN call[p].id ELSE 0)
<1>0. trace \in [Ids -> [EventKinds -> Nat]]
  BY DEF TypeInv, TypeOK
<1>1. "lifecycle_start" \in EventKinds /\ "loop_start" \in EventKinds
  BY DEF EventKinds
<1>2. CASE ~call[p].logged \/ UNCHANGED trace
  BY <1>2 DEF Emit, TraceGrows
<1>3. CASE call[p].logged /\ Emit(p, kinds)
  <2>0. PICK d \in Ids : d = call[p].id
    BY DEF TypeInv, CallKinds
  <2> DEFINE more == [k \in EventKinds |-> trace[d][k] + (IF k \in kinds THEN 1 ELSE 0)]
  <2>1. trace' = [trace EXCEPT ![d] = more]
    BY <1>3, <2>0 DEF Emit
  <2>2. \A e \in Ids : e # d => trace'[e] = trace[e]
    BY <1>0, <2>1
  <2>3. trace'[d] = more
    BY <1>0, <2>1
  <2>4. \A k \in EventKinds : more[k] = trace[d][k] + (IF k \in kinds THEN 1 ELSE 0)
    OBVIOUS
  <2>5. \A k \in EventKinds : trace[d][k] \in Nat
    BY <1>0
  <2> HIDE DEF more
  <2>6. \A k \in EventKinds : trace[d][k] > 0 => trace'[d][k] > 0
    BY <2>3, <2>4, <2>5
  <2>7. TracedIn(trace, d) => TracedIn(trace', d)
    BY <1>1, <2>6 DEF TracedIn
  <2>8. \A e \in Ids : e # d => (TracedIn(trace', e) <=> TracedIn(trace, e))
    BY <2>2 DEF TracedIn
  <2>9. call[p].kind \in {"delegate", "resume"}
    BY DEF TypeInv, TypeOK, CallKinds, OwnLabels, FinishLabels, ResumeLabels, Labels
  <2>10. Delegates(pc, call, p) \/ RecordIn(records, d)
    BY <1>3, <2>0, <2>9 DEF LedgerInv, LedgerOk, Delegates
  <2> QED
    BY <2>0, <2>7, <2>8, <2>10 DEF TraceGrows
<1> QED
  BY <1>2, <1>3

\* The labels between the routing and the return of a call.
Middle == Labels \ ({"idle", "routing", "armed"} \cup Filed)

\* A call goes on in the middle.
LEMMA MovesOn ==
  ASSUME TypeInv, RecordInv, LedgerInv, NEW p \in Procs, NEW label \in Middle,
         pc[p] \notin {"idle", "routing"} \cup Filed,
         pc' = [pc EXCEPT ![p] = label],
         \A q \in Procs \ {p} : call'[q] = call[q],
         call'[p].kind = call[p].kind, call'[p].id = call[p].id,
         call'[p].logged = call[p].logged, UNCHANGED <<records, nextDel, lost>>,
         NEW kinds, Emit(p, kinds) \/ UNCHANGED trace
  PROVE  LedgerInv' /\ [Ledger!Next]_LedgerVars
<1>1. /\ pc'[p] = label /\ label \notin {"idle", "routing", "armed"} \cup Filed
      /\ \A q \in Procs \ {p} : pc'[q] = pc[q]
  BY DEF TypeInv, TypeOK, Middle
<1>2. TraceGrows(IF Delegates(pc, call, p) THEN call[p].id ELSE 0)
  BY EmitGrows
<1>3. Delegates(pc', call', p) <=> Delegates(pc, call, p)
  BY <1>1 DEF Delegates
<1>4. (call[p].kind = "resume" /\ call[p].logged) => RecordIn(records, call[p].id)
  BY DEF LedgerInv, LedgerOk
<1>5. Handles(p)
  BY <1>1, <1>2, <1>3, <1>4 DEF Handles
<1> QED
  BY <1>3, <1>5, GoesOn

\* A call that ends without the first record of its delegation: it has one, it is
\* a resumed one, or nothing of it was traced.
LEMMA Ends ==
  ASSUME TypeInv, RecordInv, LedgerInv, NEW p \in Procs, pc[p] # "idle",
         pc' = [pc EXCEPT ![p] = "idle"], call' = [call EXCEPT ![p] = NoCall],
         UNCHANGED <<nextDel, lost>>, records \subseteq records', NEW kinds,
         \A e : RecordIn(records', e) <=> RecordIn(records, e),
         Emit(p, kinds) \/ UNCHANGED trace,
         \/ call[p].kind = "resume" \/ pc[p] \in Filed
         \/ pc[p] \in {"routing", "armed"} /\ UNCHANGED trace
  PROVE  LedgerInv' /\ [Ledger!Next]_LedgerVars
<1>1. /\ pc'[p] = "idle"
      /\ \A q \in Procs \ {p} : pc'[q] = pc[q] /\ call'[q] = call[q]
  BY DEF TypeInv, TypeOK
<1>2. TraceGrows(IF Delegates(pc, call, p) THEN call[p].id ELSE 0)
  BY EmitGrows
<1>3. Handles(p)
  BY <1>1, <1>2 DEF Handles, Delegates
<1>4. Delegates(pc, call, p) =>
        RecordIn(records, call[p].id) \/ ~TracedIn(trace', call[p].id)
  BY DEF LedgerInv, LedgerOk, Delegates
<1> QED
  BY <1>3, <1>4, GoesOn

LEMMA RoutingLedger ==
  ASSUME TypeInv, RecordInv, LedgerInv, NEW p \in Procs, Routing(p)
  PROVE  LedgerInv' /\ [Ledger!Next]_LedgerVars
<1> USE DEF clockVars, diskVars
<1>0. call \in [Procs -> CallType] /\ pc \in [Procs -> Labels]
  BY DEF TypeInv, TypeOK
<1>1. CASE RouteReminder(p)
  <2>1. /\ pc[p] = "routing" /\ pc' = [pc EXCEPT ![p] = "idle"]
        /\ call' = [call EXCEPT ![p] = NoCall]
        /\ UNCHANGED <<records, nextDel, lost, trace>>
    BY <1>1 DEF RouteReminder, At, Finished, Goto
  <2> QED
    BY <2>1, Ends
<1>2. CASE RouteFresh(p) \/ RouteClarityReentry(p)
  <2>1. /\ pc[p] = "routing" /\ pc' = [pc EXCEPT ![p] = "armed"]
        /\ UNCHANGED <<records, nextDel, lost, trace>>
    BY <1>2 DEF RouteFresh, RouteClarityReentry, At, Goto
  <2>2. \E from : call' = [call EXCEPT ![p] =
                    [call[p] EXCEPT !.from = from, !.seen = NoPause, !.answer = FALSE]]
    <3>1. CASE RouteFresh(p)
      <4>1. call' = [call EXCEPT ![p] = [call[p] EXCEPT !.seen = NoPause, !.answer = FALSE]]
        BY <3>1 DEF RouteFresh
      <4>2. [call[p] EXCEPT !.seen = NoPause, !.answer = FALSE]
              = [call[p] EXCEPT !.from = call[p].from, !.seen = NoPause, !.answer = FALSE]
        BY <1>0 DEF CallType
      <4> QED
        BY <4>1, <4>2
    <3>2. CASE RouteClarityReentry(p)
      BY <3>2 DEF RouteClarityReentry
    <3> QED
      BY <1>2, <3>1, <3>2
  <2>3. PICK from : call' = [call EXCEPT ![p] =
                    [call[p] EXCEPT !.from = from, !.seen = NoPause, !.answer = FALSE]]
    BY <2>2
  <2>4. call'[p].kind = call[p].kind /\ call'[p].id = call[p].id
    BY <1>0, <2>3 DEF CallType
  <2>5. call[p].kind = "delegate"
    BY <2>1 DEF TypeInv, CallKinds, OwnLabels
  <2>6. \A q \in Procs \ {p} : pc'[q] = pc[q] /\ call'[q] = call[q]
    BY <1>0, <2>1, <2>3
  <2>7. pc'[p] = "armed"
    BY <1>0, <2>1
  <2>8. Delegates(pc, call, p) /\ Delegates(pc', call', p)
    BY <2>1, <2>4, <2>5, <2>7 DEF Delegates
  <2>9. ~TracedIn(trace, call[p].id)
    BY <2>1, <2>8 DEF LedgerInv, LedgerOk
  <2>10. Handles(p)
    BY <2>1, <2>4, <2>5, <2>6, <2>7, <2>8, <2>9 DEF Handles, TraceGrows, Filed
  <2> QED
    BY <2>1, <2>8, <2>10, GoesOn
<1>3. CASE RouteResume(p)
  <2>1. /\ pc[p] = "routing" /\ pc' = [pc EXCEPT ![p] = "resuming"]
        /\ UNCHANGED <<records, nextDel, lost>>
    BY <1>3 DEF RouteResume, At, Goto
  <2>2. PICK ref : ref = call[p].seen.ref
    OBVIOUS
  <2>3. call' = [call EXCEPT ![p] =
                   [NoCall EXCEPT !.id = ref, !.kind = "resume",
                                  !.from = call[p].seen.tok,
                                  !.logged = HasRecord(ref)]]
    BY <1>3, <2>2 DEF RouteResume
  <2>4. /\ call'[p].kind = "resume" /\ call'[p].id = ref
        /\ call'[p].logged = HasRecord(ref)
    BY <1>0, <2>3 DEF NoCall
  <2>5. \A q \in Procs \ {p} : pc'[q] = pc[q] /\ call'[q] = call[q]
    BY <1>0, <2>1, <2>3
  <2>6. \A e \in Ids : /\ TracedIn(trace, e) => TracedIn(trace', e)
                       /\ TracedIn(trace', e) => TracedIn(trace, e) \/ RecordIn(records, e)
    <3>1. CASE ~HasRecord(ref)
      <4>1. UNCHANGED trace
        BY <1>3, <2>2, <3>1 DEF RouteResume
      <4> QED
        BY <4>1
    <3>2. CASE HasRecord(ref)
      <4>0. trace \in [Ids -> [EventKinds -> Nat]]
        BY DEF TypeInv, TypeOK
      <4>1. PICK kinds : trace' = [trace EXCEPT ![ref] =
                            [k \in EventKinds |-> trace[ref][k] + (IF k \in kinds THEN 1 ELSE 0)]]
        BY <1>3, <2>2, <3>2 DEF RouteResume
      <4>2. \A e \in Ids : e # ref => trace'[e] = trace[e]
        BY <4>0, <4>1
      <4>3. RecordIn(records, ref)
        BY <3>2 DEF HasRecord, RecordIn
      <4>4. ref \in Ids => (TracedIn(trace, ref) => TracedIn(trace', ref))
        <5> SUFFICES ASSUME ref \in Ids PROVE TracedIn(trace, ref) => TracedIn(trace', ref)
          OBVIOUS
        <5>1. \A k \in EventKinds : trace[ref][k] \in Nat
          BY <4>0
        <5> DEFINE more == [k \in EventKinds |-> trace[ref][k] + (IF k \in kinds THEN 1 ELSE 0)]
        <5>2. trace'[ref] = more
          BY <4>0, <4>1
        <5>3. \A k \in EventKinds : more[k] = trace[ref][k] + (IF k \in kinds THEN 1 ELSE 0)
          OBVIOUS
        <5> HIDE DEF more
        <5>4. \A k \in EventKinds : trace[ref][k] > 0 => trace'[ref][k] > 0
          BY <5>1, <5>2, <5>3
        <5> QED
          BY <5>4 DEF TracedIn, EventKinds
      <4>5. \A e \in Ids : e # ref => (TracedIn(trace', e) <=> TracedIn(trace, e))
        BY <4>2 DEF TracedIn
      <4> QED
        BY <4>3, <4>4, <4>5
    <3> QED
      BY <3>1, <3>2
  <2>7. pc'[p] = "resuming" /\ ~Delegates(pc', call', p)
    BY <1>0, <2>1, <2>4 DEF Delegates
  <2>8. HasRecord(ref) => RecordIn(records, ref)
    BY DEF HasRecord, RecordIn
  <2>9. Handles(p)
    BY <2>1, <2>4, <2>5, <2>6, <2>7, <2>8 DEF Handles, TraceGrows
  <2>10. Delegates(pc, call, p) =>
           RecordIn(records, call[p].id) \/ ~TracedIn(trace', call[p].id)
    <3> SUFFICES ASSUME Delegates(pc, call, p), ~RecordIn(records, call[p].id)
                 PROVE  ~TracedIn(trace', call[p].id)
      OBVIOUS
    <3>1. ~TracedIn(trace, call[p].id)
      BY <2>1 DEF LedgerInv, LedgerOk
    <3> QED
      BY <2>6, <3>1, DelegatesIds
  <2> QED
    BY <2>1, <2>9, <2>10, GoesOn
<1> QED
  BY <1>1, <1>2, <1>3 DEF Routing

\* The steps within the middle of a call, and those that end it without a record.
LEMMA MiddleLedger ==
  ASSUME TypeInv, RecordInv, LedgerInv, NEW p \in Procs,
         \/ Preloop(p) \/ Loop(p) \/ PlannerRecords(p) \/ StartPostloop(p)
         \/ FinishPostloop(p) \/ TouchSession(p) \/ Return(p) \/ Resumption(p)
         \/ ResumeRaises(p)
  PROVE  LedgerInv' /\ [Ledger!Next]_LedgerVars
<1> USE DEF clockVars, diskVars
<1>0. call \in [Procs -> CallType] /\ pc \in [Procs -> Labels]
  BY DEF TypeInv, TypeOK
<1>1. CASE \/ OpenEnvelope(p) \/ ClarityBlocks(p) \/ ClarityPauseNotSaved(p)
           \/ EndTheLoop(p) \/ SaveProjectState(p) \/ SaveCheckpoint(p) \/ CheckpointNotSaved(p)
           \/ StartPostloop(p)
  <2>1. /\ pc[p] \notin {"idle", "routing"} \cup Filed
        /\ UNCHANGED <<records, nextDel, lost, call>>
        /\ \E label \in Middle : pc' = [pc EXCEPT ![p] = label]
    BY <1>1 DEF OpenEnvelope, ClarityBlocks, ClarityPauseNotSaved, EndTheLoop,
                SaveProjectState, SaveCheckpoint, CheckpointNotSaved, LeaveLoop,
                StartPostloop, At, Goto, Middle, Filed, Labels
  <2>2. \E kinds : Emit(p, kinds) \/ UNCHANGED trace
    BY <1>1 DEF OpenEnvelope, ClarityBlocks, ClarityPauseNotSaved, EndTheLoop,
                SaveProjectState, SaveCheckpoint, CheckpointNotSaved, StartPostloop
  <2> QED
    BY <2>1, <2>2, MovesOn
<1>2. CASE \/ InvalidSpec(p) \/ ReviewTargetsError(p) \/ CloseForClarity(p)
           \/ FinishPostloop(p) \/ ResumedTurnRaises(p) \/ RetryRaises(p)
           \/ \E ok \in BOOLEAN, decision \in Decisions : ResumedTurn(p, ok, decision)
  <2>1. /\ pc[p] \notin {"idle", "routing"} \cup Filed
        /\ UNCHANGED <<records, nextDel, lost>>
        /\ \E label \in Middle : pc' = [pc EXCEPT ![p] = label]
    BY <1>2 DEF InvalidSpec, ReviewTargetsError, CloseForClarity, FinishPostloop,
                ResumedTurnRaises, RetryRaises, ResumedTurn, Conclude, AfterLoop,
                At, Goto, Middle, Filed, Labels
  <2>2. \E kinds : Emit(p, kinds) \/ UNCHANGED trace
    BY <1>2 DEF InvalidSpec, ReviewTargetsError, CloseForClarity, FinishPostloop,
                ResumedTurnRaises, RetryRaises, ResumedTurn, CloseLifecycleOnce
  <2>3. \E o : call' = [call EXCEPT ![p].outcome = o]
    BY <1>2 DEF InvalidSpec, ReviewTargetsError, CloseForClarity, FinishPostloop,
                ResumedTurnRaises, RetryRaises, ResumedTurn, Conclude
  <2>4. PICK o : call' = [call EXCEPT ![p].outcome = o]
    BY <2>3
  <2>5. /\ call'[p].kind = call[p].kind /\ call'[p].id = call[p].id
        /\ call'[p].logged = call[p].logged
        /\ \A q \in Procs \ {p} : call'[q] = call[q]
    BY <1>0, <2>4 DEF CallType
  <2> QED
    BY <2>1, <2>2, <2>5, MovesOn
<1>3. CASE SaveClarityPause(p) \/ SavePause(p)
  <2>1. /\ pc[p] \notin {"idle", "routing"} \cup Filed
        /\ UNCHANGED <<records, nextDel, lost, trace>>
        /\ \E label \in Middle : pc' = [pc EXCEPT ![p] = label]
        /\ call' = [call EXCEPT ![p].tok = nextTok]
    BY <1>3 DEF SaveClarityPause, SavePause, At, Goto, Middle, Filed, Labels
  <2>2. /\ call'[p].kind = call[p].kind /\ call'[p].id = call[p].id
        /\ call'[p].logged = call[p].logged
        /\ \A q \in Procs \ {p} : call'[q] = call[q]
    BY <1>0, <2>1 DEF CallType
  <2> QED
    BY <2>1, <2>2, MovesOn
<1>4. ASSUME NEW pkg \in BOOLEAN, EnterLoop(p, pkg)
      PROVE  LedgerInv' /\ [Ledger!Next]_LedgerVars
  <2>1. /\ pc[p] \notin {"idle", "routing"} \cup Filed
        /\ UNCHANGED <<records, nextDel, lost>>
        /\ \E label \in Middle : pc' = [pc EXCEPT ![p] = label]
        /\ call' = [call EXCEPT ![p].pkg = pkg, ![p].from = 0]
    BY <1>4 DEF EnterLoop, At, Goto, Middle, Filed, Labels
  <2>2. \E kinds : Emit(p, kinds) \/ UNCHANGED trace
    BY <1>4 DEF EnterLoop
  <2>3. /\ call'[p].kind = call[p].kind /\ call'[p].id = call[p].id
        /\ call'[p].logged = call[p].logged
        /\ \A q \in Procs \ {p} : call'[q] = call[q]
    BY <1>0, <2>1 DEF CallType
  <2> QED
    BY <2>1, <2>2, <2>3, MovesOn
<1>5. ASSUME NEW ok \in BOOLEAN, NEW bound \in BOOLEAN,
             ExecutorReturns(p, ok) \/ FirstTurnRaises(p, bound)
      PROVE  LedgerInv' /\ [Ledger!Next]_LedgerVars
  <2>1. /\ pc[p] \notin {"idle", "routing"} \cup Filed
        /\ UNCHANGED <<records, nextDel, lost, trace>>
        /\ \E label \in Middle : pc' = [pc EXCEPT ![p] = label]
        /\ \E o, e : call' = [call EXCEPT ![p].ok = o, ![p].engine = e]
    BY <1>5 DEF ExecutorReturns, FirstTurnRaises, At, Goto, Middle, Filed, Labels
  <2>2. /\ call'[p].kind = call[p].kind /\ call'[p].id = call[p].id
        /\ call'[p].logged = call[p].logged
        /\ \A q \in Procs \ {p} : call'[q] = call[q]
    BY <1>0, <2>1 DEF CallType
  <2> QED
    BY <2>1, <2>2, MovesOn
<1>6. ASSUME NEW verdict \in ReviewerResults, NEW decision \in Decisions,
             CompleteTheTurn(p, verdict, decision)
      PROVE  LedgerInv' /\ [Ledger!Next]_LedgerVars
  <2>1. /\ pc[p] \notin {"idle", "routing"} \cup Filed
        /\ UNCHANGED <<records, nextDel, lost>>
        /\ \E label \in Middle : pc' = [pc EXCEPT ![p] = label]
        /\ UNCHANGED call \/ \E o : call' = [call EXCEPT ![p].outcome = o]
    BY <1>6 DEF CompleteTheTurn, Conclude, AfterLoop, At, Goto, Middle, Filed, Labels
  <2>2. \E kinds : Emit(p, kinds) \/ UNCHANGED trace
    BY <1>6 DEF CompleteTheTurn
  <2>3. /\ call'[p].kind = call[p].kind /\ call'[p].id = call[p].id
        /\ call'[p].logged = call[p].logged
        /\ \A q \in Procs \ {p} : call'[q] = call[q]
    BY <1>0, <2>1 DEF CallType
  <2> QED
    BY <2>1, <2>2, <2>3, MovesOn
<1>7. CASE PlannerRecords(p)
  <2>1. pc' = [pc EXCEPT ![p] = "executing"] /\ pc[p] = "executing"
          /\ UNCHANGED <<records, nextDel, lost, call, trace>>
    BY <1>0, <1>7 DEF PlannerRecords, At
  <2>2. "executing" \in Middle
    BY DEF Middle, Filed, Labels
  <2> QED
    BY <2>1, <2>2, MovesOn DEF Filed
<1>8. CASE Return(p)
  <2>1. /\ pc[p] \in Filed /\ pc' = [pc EXCEPT ![p] = "idle"]
        /\ call' = [call EXCEPT ![p] = NoCall]
        /\ UNCHANGED <<records, nextDel, lost, trace>>
    BY <1>8 DEF Return, At, Finished, Goto, Filed
  <2>2. pc[p] # "idle"
    BY <2>1 DEF Filed
  <2>3. \A e : RecordIn(records', e) <=> RecordIn(records, e)
    BY <2>1
  <2> QED
    BY <2>1, <2>2, <2>3, Ends
<1>10. CASE TouchSession(p)
  <2>1. /\ pc[p] = "appended" /\ pc' = [pc EXCEPT ![p] = "returning"]
        /\ UNCHANGED <<records, nextDel, lost, call, trace>>
    BY <1>10 DEF TouchSession, At, Goto
  <2>2. pc'[p] = "returning" /\ \A q \in Procs \ {p} : pc'[q] = pc[q]
    BY <1>0, <2>1
  <2>3. Delegates(pc, call, p) /\ Delegates(pc', call', p) /\ call[p].kind = "delegate"
    BY <2>1, <2>2 DEF TypeInv, CallKinds, OwnLabels, Delegates
  <2>4. RecordIn(records', call[p].id)
    BY <2>1, <2>3 DEF LedgerInv, LedgerOk, Filed
  <2>5. Handles(p)
    BY <2>1, <2>2, <2>3, <2>4 DEF Handles, TraceGrows
  <2> QED
    BY <2>1, <2>3, <2>5, GoesOn
<1>9. CASE CloseResume(p) \/ ResumeRaises(p)
  <2>1. /\ pc' = [pc EXCEPT ![p] = "idle"] /\ call' = [call EXCEPT ![p] = NoCall]
        /\ UNCHANGED <<records, nextDel, lost>>
        /\ \E kinds : Emit(p, kinds)
    BY <1>9 DEF CloseResume, ResumeRaises, Finished, Goto
  <2>2. pc[p] # "idle" /\ call[p].kind = "resume"
    BY <1>9 DEF CloseResume, ResumeRaises, MayRaise, At, TypeInv, CallKinds, ResumeLabels
  <2> QED
    BY <2>1, <2>2, Ends
<1> QED
  BY <1>1, <1>2, <1>3, <1>4, <1>5, <1>6, <1>7, <1>8, <1>9, <1>10
     DEF Preloop, Loop, Resumption

LEMMA RecordingLedger ==
  ASSUME TypeInv, RecordInv, LedgerInv, NEW p \in Procs,
         AppendRecord(p) \/ DelegateRaises(p)
  PROVE  LedgerInv' /\ [Ledger!Next]_LedgerVars
<1> USE DEF clockVars, diskVars
<1>0. call \in [Procs -> CallType] /\ pc \in [Procs -> Labels]
  BY DEF TypeInv, TypeOK
<1>1. CASE AppendRecord(p)
  <2>1. /\ pc[p] = "recording" /\ pc' = [pc EXCEPT ![p] = "appended"]
        /\ records' = records \cup {[del |-> call[p].id, kind |-> "complete"]}
        /\ UNCHANGED <<nextDel, lost, call, trace>>
    BY <1>1 DEF AppendRecord, At, Goto
  <2>2. /\ pc'[p] = "appended" /\ records \subseteq records'
        /\ \A q \in Procs \ {p} : pc'[q] = pc[q]
    BY <1>0, <2>1
  <2>3. Delegates(pc, call, p)
    BY <2>1 DEF TypeInv, CallKinds, OwnLabels, Delegates
  <2>4. RecordIn(records', call[p].id)
    BY <2>1, RecordAdded
  <2>5. \A q \in Procs \ {p} : pc'[q] = pc[q] /\ call'[q] = call[q]
    BY <2>1, <2>2
  <2>6. TraceGrows(IF Delegates(pc, call, p) THEN call[p].id ELSE 0)
    BY <2>1 DEF TraceGrows
  <2>7. call'[p] = call[p] /\ call[p].kind # "resume"
    BY <2>1, <2>3 DEF Delegates
  <2>8. Handles(p)
    BY <2>1, <2>2, <2>3, <2>4, <2>5, <2>6, <2>7 DEF Handles
  <2> QED
    BY <2>1, <2>3, <2>8, Records DEF Filed
<1>2. CASE DelegateRaises(p)
  <2>1. /\ pc[p] # "idle" /\ call[p].kind = "delegate"
        /\ pc' = [pc EXCEPT ![p] = "idle"] /\ call' = [call EXCEPT ![p] = NoCall]
        /\ UNCHANGED <<nextDel, lost>>
    BY <1>2 DEF DelegateRaises, MayRaise, At, Finished, Goto
  <2>2. CASE pc[p] \in {"armed", "returning"}
    <3>1. UNCHANGED <<records, trace>>
      BY <1>2, <2>2 DEF DelegateRaises, InterruptedRecord
    <3> QED
      BY <2>1, <2>2, <3>1, Ends DEF Filed
  <2>3. CASE pc[p] \notin {"armed", "returning"}
    <3>1. records' = records \cup {[del |-> call[p].id, kind |-> "interrupted"]}
      BY <1>2, <2>3 DEF DelegateRaises, InterruptedRecord
    <3>2. \E kinds : Emit(p, kinds) \/ UNCHANGED trace
      BY <1>2, <2>3 DEF DelegateRaises, CloseLifecycleOnce
    <3>3. TraceGrows(IF Delegates(pc, call, p) THEN call[p].id ELSE 0)
      BY <2>1, <3>2, EmitGrows
    <3>4. /\ pc'[p] = "idle" /\ records \subseteq records'
          /\ \A q \in Procs \ {p} : pc'[q] = pc[q] /\ call'[q] = call[q]
      BY <1>0, <2>1, <3>1
    <3>5. Handles(p)
      BY <2>1, <3>3, <3>4 DEF Handles, Delegates
    <3>6. Delegates(pc, call, p)
      BY <2>1 DEF Delegates
    <3>7. CASE pc[p] \notin Filed
      BY <3>1, <3>5, <3>6, <3>7, Records
    <3>8. CASE pc[p] \in Filed
      <4>1. RecordIn(records, call[p].id)
        BY <3>6, <3>8 DEF LedgerInv, LedgerOk
      <4>2. \A e : RecordIn(records', e) <=> RecordIn(records, e)
        BY <3>1, <4>1, RecordAdded
      <4> QED
        BY <3>5, <4>1, <4>2, GoesOn
    <3> QED
      BY <3>7, <3>8
  <2> QED
    BY <2>2, <2>3
<1> QED
  BY <1>1, <1>2

\* A call that arrives runs, with nothing traced.
LEMMA ArriveLedger ==
  ASSUME TypeInv, RecordInv, LedgerInv, NEW p \in Procs, NEW mode, NEW fresh, NEW answer,
         Arrive(p, mode, fresh, answer)
  PROVE  LedgerInv' /\ [Ledger!Next]_LedgerVars
<1>0. call \in [Procs -> CallType] /\ pc \in [Procs -> Labels] /\ nextDel \in Nat
  BY DEF TypeInv, TypeOK
<1>1. /\ call'[p].id = nextDel /\ call'[p].kind = "delegate" /\ nextDel' = nextDel + 1
      /\ pc[p] = "idle" /\ pc'[p] = "routing" /\ nextDel <= MaxCalls
      /\ UNCHANGED <<records, trace, lost>>
      /\ \A q \in Procs \ {p} : call'[q] = call[q] /\ pc'[q] = pc[q]
  BY <1>0 DEF Arrive, NoCall, At, Goto, diskVars
<1>2. PICK d \in Ids : d = nextDel
  BY <1>1, BoundsAssumption DEF Ids, TypeInv, TypeOK
<1>3. ~TracedIn(trace, d)
  BY <1>0, <1>2 DEF LedgerInv, LedgerOk
<1>4. ~DiedIn(lost, d)
  BY <1>0, <1>2 DEF LedgerInv, LedgerOk, DiedIn
<1>5. \A q \in Procs \ {p} : Delegates(pc', call', q) <=> Delegates(pc, call, q)
  BY <1>1 DEF Delegates
<1>6. Delegates(pc', call', p) /\ ~Delegates(pc, call, p)
  BY <1>1 DEF Delegates
<1>7. LedgerInv'
  <2>1. \A e \in Ids : e >= nextDel' => ~TracedIn(trace', e)
    BY <1>0, <1>1 DEF LedgerInv, LedgerOk, Ids
  <2>2. ASSUME NEW q \in Procs, Delegates(pc', call', q)
        PROVE  /\ pc'[q] \in {"routing", "armed"} => ~TracedIn(trace', call'[q].id)
               /\ pc'[q] \in Filed => RecordIn(records', call'[q].id)
               /\ ~DiedIn(lost', call'[q].id)
    <3>1. CASE q = p
      BY <1>1, <1>2, <1>3, <1>4, <3>1 DEF Filed
    <3>2. CASE q # p
      BY <1>1, <1>5, <2>2, <3>2 DEF LedgerInv, LedgerOk
    <3> QED
      BY <3>1, <3>2
  <2>3. \A q \in Procs : (pc'[q] # "idle" /\ call'[q].kind = "resume" /\ call'[q].logged)
                           => RecordIn(records', call'[q].id)
    BY <1>1 DEF LedgerInv, LedgerOk
  <2>4. \A x \in lost : x.del \in Nat
    BY DEF TypeInv, TypeOK, Ids
  <2>5. \A x \in lost' : x.kind = "delegate" => x.del < nextDel'
    BY <1>0, <1>1, <2>4 DEF LedgerInv, LedgerOk
  <2> QED
    BY <2>1, <2>2, <2>3, <2>5 DEF LedgerInv, LedgerOk
<1>8. \A e \in Ids : TracedIn(trace', e) => (RunningIn(pc', call', e) <=> RunningIn(pc, call, e))
  BY <1>1, <1>2, <1>3, <1>5, <1>6 DEF RunningIn
<1>9. [Ledger!Next]_LedgerVars
  BY <1>1, <1>8, OpensAtMost
<1> QED
  BY <1>7, <1>9

\* A crash loses the open delegation of its process, if there is one.
LEMMA CrashLedger ==
  ASSUME TypeInv, RecordInv, LedgerInv, NEW p \in Procs, Crash(p)
  PROVE  LedgerInv' /\ [Ledger!Next]_LedgerVars
<1>0. call \in [Procs -> CallType] /\ pc \in [Procs -> Labels]
  BY DEF TypeInv, TypeOK
<1>1. /\ pc'[p] = "idle" /\ UNCHANGED <<records, trace, nextDel>>
      /\ \A q \in Procs \ {p} : pc'[q] = pc[q] /\ call'[q] = call[q]
      /\ lost' = IF pc[p] = "idle" THEN lost
                 ELSE lost \cup {[del |-> call[p].id, kind |-> call[p].kind]}
  BY <1>0 DEF Crash, Goto, At, diskVars
<1>2. ~Delegates(pc', call', p)
  BY <1>1 DEF Delegates
<1>3. \A q \in Procs \ {p} : Delegates(pc', call', q) <=> Delegates(pc, call, q)
  BY <1>1 DEF Delegates
<1>4. \A e : DiedIn(lost', e) <=> DiedIn(lost, e) \/ (Delegates(pc, call, p) /\ e = call[p].id)
  <2>1. CASE pc[p] = "idle"
    BY <1>1, <2>1 DEF Delegates
  <2>2. CASE pc[p] # "idle"
    <3>1. lost' = lost \cup {[del |-> call[p].id, kind |-> call[p].kind]}
      BY <1>1, <2>2
    <3> QED
      BY <2>2, <3>1 DEF DiedIn, Delegates
  <2> QED
    BY <2>1, <2>2
<1>5. LedgerInv'
  <2>1. ASSUME NEW q \in Procs, Delegates(pc', call', q)
        PROVE  /\ pc'[q] \in {"routing", "armed"} => ~TracedIn(trace', call'[q].id)
               /\ pc'[q] \in Filed => RecordIn(records', call'[q].id)
               /\ ~DiedIn(lost', call'[q].id)
    <3>1. q # p /\ Delegates(pc, call, q) /\ pc'[q] = pc[q] /\ call'[q] = call[q]
      BY <1>1, <1>2, <1>3, <2>1
    <3>2. Delegates(pc, call, p) => call[p].id # call[q].id
      BY <3>1 DEF RecordInv, Delegating, Delegates
    <3>3. ~DiedIn(lost', call[q].id)
      BY <1>4, <3>1, <3>2 DEF LedgerInv, LedgerOk
    <3> QED
      BY <1>1, <3>1, <3>3 DEF LedgerInv, LedgerOk
  <2>2. \A q \in Procs : (pc'[q] # "idle" /\ call'[q].kind = "resume" /\ call'[q].logged)
                           => RecordIn(records', call'[q].id)
    BY <1>1 DEF LedgerInv, LedgerOk
  <2>3. ASSUME NEW x \in lost', x.kind = "delegate" PROVE x.del < nextDel'
    <3>1. CASE x \in lost
      BY <1>1, <2>3, <3>1 DEF LedgerInv, LedgerOk
    <3>2. CASE x \notin lost
      <4>1. pc[p] # "idle" /\ x = [del |-> call[p].id, kind |-> call[p].kind]
        BY <1>1, <2>3, <3>2
      <4> QED
        BY <1>1, <2>3, <4>1 DEF RecordInv, Delegating
    <3> QED
      BY <3>1, <3>2
  <2>4. \A e \in Ids : e >= nextDel' => ~TracedIn(trace', e)
    BY <1>1 DEF LedgerInv, LedgerOk
  <2> QED
    BY <2>1, <2>2, <2>3, <2>4 DEF LedgerInv, LedgerOk
<1>6. DoneIn(records') = DoneIn(records)
  BY <1>1
<1>7. CASE ~Delegates(pc, call, p)
  <2>1. \A e : RunningIn(pc', call', e) <=> RunningIn(pc, call, e)
    BY <1>1, <1>2, <1>3, <1>7 DEF RunningIn
  <2>2. OpenIn(pc', call', records', trace') = OpenIn(pc, call, records, trace)
    BY <1>1, <2>1 DEF OpenIn
  <2>3. GoneIn(records', trace', lost') = GoneIn(records, trace, lost)
    BY <1>1, <1>4, <1>7 DEF GoneIn
  <2> QED
    BY <1>5, <1>6, <2>2, <2>3, LedgerIs, LedgerIsAfter DEF LedgerVars
<1>8. CASE Delegates(pc, call, p)
  <2>1. PICK d \in Ids : d = call[p].id
    BY <1>8, DelegatesIds
  <2>2. \A q \in Procs \ {p} : Delegates(pc, call, q) => call[q].id # d
    BY <1>8, <2>1 DEF RecordInv, Delegating, Delegates
  <2>3. \A e : RunningIn(pc', call', e) <=> RunningIn(pc, call, e) /\ e # d
    BY <1>1, <1>2, <1>3, <1>8, <2>1, <2>2 DEF RunningIn
  <2>4. OpenIn(pc', call', records', trace') = OpenIn(pc, call, records, trace) \ {d}
    BY <1>1, <2>3 DEF OpenIn
  <2>5. RunningIn(pc, call, d)
    BY <1>8, <2>1 DEF RunningIn
  <2>6. CASE ~RecordIn(records, d) /\ TracedIn(trace, d)
    <3>1. d \in OpenIn(pc, call, records, trace)
      BY <2>5, <2>6 DEF OpenIn
    <3>2. GoneIn(records', trace', lost') = GoneIn(records, trace, lost) \cup {d}
      BY <1>1, <1>4, <1>8, <2>1, <2>6 DEF GoneIn
    <3>3. Ledger!Lose(d)
      BY <1>6, <2>4, <3>1, <3>2, LedgerIs, LedgerIsAfter DEF Ledger!Lose
    <3> QED
      BY <1>5, <3>3 DEF Ledger!Next
  <2>7. CASE RecordIn(records, d) \/ ~TracedIn(trace, d)
    <3>1. d \notin OpenIn(pc, call, records, trace)
      BY <2>7 DEF OpenIn
    <3>2. GoneIn(records', trace', lost') = GoneIn(records, trace, lost)
      BY <1>1, <1>4, <1>8, <2>1, <2>7 DEF GoneIn
    <3>3. OpenIn(pc', call', records', trace') = OpenIn(pc, call, records, trace)
      BY <2>4, <3>1
    <3> QED
      BY <1>5, <1>6, <3>2, <3>3, LedgerIs, LedgerIsAfter DEF LedgerVars
  <2> QED
    BY <2>6, <2>7
<1> QED
  BY <1>7, <1>8

LEMMA LedgerStep ==
  TypeInv /\ RecordInv /\ LedgerInv /\ [Next]_vars => LedgerInv' /\ [Ledger!Next]_LedgerVars
<1> SUFFICES ASSUME TypeInv, RecordInv, LedgerInv, [Next]_vars
             PROVE  LedgerInv' /\ [Ledger!Next]_LedgerVars
  OBVIOUS
<1>1. ASSUME NEW p \in Procs, Step(p) PROVE LedgerInv' /\ [Ledger!Next]_LedgerVars
  BY <1>1, RoutingLedger, MiddleLedger, RecordingLedger DEF Step, Postloop
<1>2. ASSUME UNCHANGED <<pc, call, records, trace, lost, nextDel>>
      PROVE  LedgerInv' /\ [Ledger!Next]_LedgerVars
  BY <1>2, LedgerIs, LedgerIsAfter DEF LedgerInv, LedgerVars
<1>3. ASSUME NEW f \in files, Expire(f) PROVE LedgerInv' /\ [Ledger!Next]_LedgerVars
  BY <1>2, <1>3 DEF Expire, procVars, clockVars
<1>4. ASSUME UNCHANGED vars PROVE LedgerInv' /\ [Ledger!Next]_LedgerVars
  BY <1>2, <1>4 DEF vars, procVars, diskVars, clockVars
<1> QED
  BY <1>1, <1>3, <1>4, ArriveLedger, CrashLedger, MiddleLedger DEF Next

LEMMA LedgerInit == Init => LedgerInv /\ Ledger!Init
<1> SUFFICES ASSUME Init PROVE LedgerInv /\ Ledger!Init
  OBVIOUS
<1>1. \A d \in Ids : ~TracedIn(trace, d)
  BY DEF Init, TracedIn, EventKinds
<1>2. \A d : ~RecordIn(records, d)
  BY DEF Init, RecordIn
<1>3. LedgerInv
  BY <1>1 DEF Init, LedgerInv, LedgerOk, Delegates
<1>4. Ledger!Init
  BY <1>1, <1>2, LedgerIs DEF Ledger!Init, OpenIn, DoneIn, GoneIn
<1> QED
  BY <1>3, <1>4

\* Delegation implements DelegationLedger: a delegation that has a trace leaves
\* the open state by its record or by the death of its process only, a record
\* stays, and none is added for a delegation that was lost.
THEOREM LedgerIsKept == Spec => LedgerKept
<1>1. TypeInv /\ RecordInv /\ LedgerInv /\ [Next]_vars
        => [Ledger!Next]_<<OpenIds, Recorded, LostOpen>>
  BY LedgerStep DEF LedgerVars
<1>2. TypeInv /\ RecordInv /\ LedgerInv /\ [Next]_vars => LedgerInv'
  BY LedgerStep
<1>3. Init => LedgerInv /\ Ledger!Init
  BY LedgerInit
<1> HIDE DEF TypeInv, RecordInv, LedgerInv, Init, Next, vars
<1> QED
  BY TypeInit, TypeStep, RecordInit, RecordStep, <1>1, <1>2, <1>3, PTL
     DEF Spec, LedgerKept, Ledger!Spec

-----------------------------------------------------------------------------
(***************************************************************************)
(* What the steps of a process leave alone.                                *)
(***************************************************************************)
\* The other processes, in everything of theirs.
OthersStay(p) ==
  \A q \in Procs \ {p} : pc'[q] = pc[q] /\ call'[q] = call[q] /\ agent'[q] = agent[q]

\* Which delegation the call is about, and how it came to it.
SameCall(p) ==
  /\ call'[p].kind = call[p].kind /\ call'[p].mode = call[p].mode
  /\ call'[p].id = call[p].id /\ call'[p].logged = call[p].logged

LEMMA CallMoves ==
  ASSUME TypeInv, NEW p \in Procs,
         \/ UNCHANGED call
         \/ \E o : call' = [call EXCEPT ![p].outcome = o]
         \/ \E o, e : call' = [call EXCEPT ![p].ok = o, ![p].engine = e]
         \/ \E pkg : call' = [call EXCEPT ![p].pkg = pkg, ![p].from = 0]
         \/ \E t : call' = [call EXCEPT ![p].tok = t]
         \/ \E f, a : call' = [call EXCEPT ![p].from = f, ![p].seen = NoPause, ![p].answer = a]
         \/ \E a : call' = [call EXCEPT ![p].seen = NoPause, ![p].answer = a]
  PROVE  SameCall(p) /\ \A q \in Procs \ {p} : call'[q] = call[q]
<1>0. call \in [Procs -> CallType] /\ call[p] \in CallType
  BY DEF TypeInv, TypeOK
<1> USE DEF SameCall
<1>1. CASE UNCHANGED call
  BY <1>1
<1>2. ASSUME NEW o, call' = [call EXCEPT ![p].outcome = o]
      PROVE  SameCall(p) /\ \A q \in Procs \ {p} : call'[q] = call[q]
  BY <1>0, <1>2 DEF CallType
<1>3. ASSUME NEW o, NEW e, call' = [call EXCEPT ![p].ok = o, ![p].engine = e]
      PROVE  SameCall(p) /\ \A q \in Procs \ {p} : call'[q] = call[q]
  BY <1>0, <1>3 DEF CallType
<1>4. ASSUME NEW pkg, call' = [call EXCEPT ![p].pkg = pkg, ![p].from = 0]
      PROVE  SameCall(p) /\ \A q \in Procs \ {p} : call'[q] = call[q]
  BY <1>0, <1>4 DEF CallType
<1>5. ASSUME NEW t, call' = [call EXCEPT ![p].tok = t]
      PROVE  SameCall(p) /\ \A q \in Procs \ {p} : call'[q] = call[q]
  BY <1>0, <1>5 DEF CallType
<1>6. ASSUME NEW f, NEW a,
             call' = [call EXCEPT ![p].from = f, ![p].seen = NoPause, ![p].answer = a]
      PROVE  SameCall(p) /\ \A q \in Procs \ {p} : call'[q] = call[q]
  BY <1>0, <1>6 DEF CallType
<1>7. ASSUME NEW a, call' = [call EXCEPT ![p].seen = NoPause, ![p].answer = a]
      PROVE  SameCall(p) /\ \A q \in Procs \ {p} : call'[q] = call[q]
  BY <1>0, <1>7 DEF CallType
<1> QED
  BY <1>1, <1>2, <1>3, <1>4, <1>5, <1>6, <1>7

\* The steps within a call keep what it is about; no step touches another process.
LEMMA WithinCall ==
  ASSUME TypeInv, NEW p \in Procs,
         \/ RouteFresh(p) \/ RouteClarityReentry(p) \/ Preloop(p) \/ Loop(p)
         \/ PlannerRecords(p) \/ StartPostloop(p) \/ FinishPostloop(p) \/ AppendRecord(p)
         \/ TouchSession(p)
         \/ \E ok \in BOOLEAN, decision \in Decisions : ResumedTurn(p, ok, decision)
         \/ ResumedTurnRaises(p)
  PROVE  /\ SameCall(p) /\ OthersStay(p) /\ UNCHANGED <<nextDel, lost>>
         /\ pc[p] # "idle" /\ pc'[p] # "idle"
<1> USE DEF clockVars, diskVars
<1>0. pc \in [Procs -> Labels] /\ agent \in [Procs -> AgentType(Ids)]
  BY DEF TypeInv, TypeOK
<1> DEFINE Moves == /\ pc[p] # "idle" /\ UNCHANGED <<nextDel, lost>>
                    /\ UNCHANGED pc \/ \E label \in Labels \ {"idle"} : Goto(p, label)
                    /\ UNCHANGED agent \/ \E a : SetAgent(p, a)
           Keeps == SameCall(p) /\ \A q \in Procs \ {p} : call'[q] = call[q]
<1>1. CASE RouteFresh(p) \/ RouteClarityReentry(p)
  <2>1. Moves
    BY <1>1 DEF RouteFresh, RouteClarityReentry, At, Labels
  <2>2. Keeps
    <3>1. RouteFresh(p) => Keeps
      BY CallMoves DEF RouteFresh
    <3>2. RouteClarityReentry(p) => Keeps
      BY CallMoves DEF RouteClarityReentry
    <3> QED
      BY <1>1, <3>1, <3>2
  <2> QED
    BY <1>0, <2>1, <2>2 DEF OthersStay, Goto, SetAgent
<1>2. CASE Preloop(p)
  <2>1. Moves
    <3>1. CASE OpenEnvelope(p)
      BY <3>1 DEF OpenEnvelope, At, Labels
    <3>2. CASE InvalidSpec(p) \/ CloseForClarity(p)
      BY <3>2 DEF InvalidSpec, CloseForClarity, CloseLifecycleOnce, At, Labels
    <3>3. CASE ReviewTargetsError(p) \/ ClarityBlocks(p) \/ SaveClarityPause(p)
               \/ ClarityPauseNotSaved(p)
      BY <3>3 DEF ReviewTargetsError, ClarityBlocks, SaveClarityPause, ClarityPauseNotSaved,
                  At, Labels
    <3>4. CASE \E pkg \in BOOLEAN : EnterLoop(p, pkg)
      BY <3>4 DEF EnterLoop, At, Labels
    <3> QED
      BY <1>2, <3>1, <3>2, <3>3, <3>4 DEF Preloop
  <2>2. Keeps
    <3>1. CASE OpenEnvelope(p) \/ ClarityBlocks(p) \/ ClarityPauseNotSaved(p)
      BY <3>1, CallMoves DEF OpenEnvelope, ClarityBlocks, ClarityPauseNotSaved
    <3>2. CASE InvalidSpec(p) \/ CloseForClarity(p) \/ ReviewTargetsError(p)
      BY <3>2, CallMoves DEF InvalidSpec, CloseForClarity, ReviewTargetsError
    <3>3. CASE SaveClarityPause(p)
      BY <3>3, CallMoves DEF SaveClarityPause
    <3>4. CASE \E pkg \in BOOLEAN : EnterLoop(p, pkg)
      BY <3>4, CallMoves DEF EnterLoop
    <3> QED
      BY <1>2, <3>1, <3>2, <3>3, <3>4 DEF Preloop
  <2> QED
    BY <1>0, <2>1, <2>2 DEF OthersStay, Goto, SetAgent
<1>3. CASE Loop(p) \/ PlannerRecords(p)
  <2>1. Moves
    <3>1. CASE PlannerRecords(p)
      BY <3>1 DEF PlannerRecords, At
    <3>2. CASE \/ \E ok \in BOOLEAN : ExecutorReturns(p, ok)
               \/ \E bound \in BOOLEAN : FirstTurnRaises(p, bound)
      BY <3>2 DEF ExecutorReturns, FirstTurnRaises, At, Labels
    <3>3. CASE \/ RetryRaises(p)
               \/ \E verdict \in ReviewerResults, decision \in Decisions :
                    CompleteTheTurn(p, verdict, decision)
      <4>1. /\ pc[p] # "idle" /\ UNCHANGED <<nextDel, lost>>
            /\ Goto(p, "executing") \/ \E a, ok : Conclude(p, a, ok)
            /\ UNCHANGED agent \/ \E a : SetAgent(p, a)
        <5>1. CASE RetryRaises(p)
          BY <5>1 DEF RetryRaises, At
        <5>2. ASSUME NEW verdict \in ReviewerResults, NEW decision \in Decisions,
                     CompleteTheTurn(p, verdict, decision)
              PROVE  /\ pc[p] # "idle" /\ UNCHANGED <<nextDel, lost>>
                     /\ Goto(p, "executing") \/ \E a, ok : Conclude(p, a, ok)
                     /\ UNCHANGED agent \/ \E a : SetAgent(p, a)
          <6>1. pc[p] # "idle" /\ UNCHANGED <<nextDel, lost>>
            BY <5>2 DEF CompleteTheTurn, At
          <6>2. Goto(p, "executing") \/ \E a, ok : Conclude(p, a, ok)
            BY <5>2 DEF CompleteTheTurn
          <6>3. \E a : SetAgent(p, a)
            BY <5>2 DEF CompleteTheTurn
          <6> QED
            BY <6>1, <6>2, <6>3
        <5> QED
          BY <3>3, <5>1, <5>2
      <4>2. \A a, ok : Conclude(p, a, ok) => Goto(p, "pausing") \/ Goto(p, "ending")
        BY DEF Conclude, AfterLoop
      <4> QED
        BY <4>1, <4>2 DEF Labels
    <3>4. CASE SavePause(p) \/ EndTheLoop(p) \/ SaveProjectState(p)
      BY <3>4 DEF SavePause, EndTheLoop, SaveProjectState, At, Labels
    <3>5. CASE SaveCheckpoint(p) \/ CheckpointNotSaved(p)
      BY <3>5 DEF SaveCheckpoint, CheckpointNotSaved, LeaveLoop, At, Labels
    <3> QED
      BY <1>3, <3>1, <3>2, <3>3, <3>4, <3>5 DEF Loop
  <2>2. Keeps
    <3>1. CASE PlannerRecords(p) \/ EndTheLoop(p) \/ SaveProjectState(p)
               \/ SaveCheckpoint(p) \/ CheckpointNotSaved(p)
      BY <3>1, CallMoves DEF PlannerRecords, EndTheLoop, SaveProjectState, SaveCheckpoint,
                             CheckpointNotSaved
    <3>2. CASE \/ \E ok \in BOOLEAN : ExecutorReturns(p, ok)
               \/ \E bound \in BOOLEAN : FirstTurnRaises(p, bound)
      <4>1. \E o, e : call' = [call EXCEPT ![p].ok = o, ![p].engine = e]
        BY <3>2 DEF ExecutorReturns, FirstTurnRaises
      <4> QED
        BY <4>1, CallMoves
    <3>3. CASE \/ RetryRaises(p)
               \/ \E verdict \in ReviewerResults, decision \in Decisions :
                    CompleteTheTurn(p, verdict, decision)
      <4>1. UNCHANGED call \/ \E o : call' = [call EXCEPT ![p].outcome = o]
        <5>1. \A a, ok : Conclude(p, a, ok) => \E o : call' = [call EXCEPT ![p].outcome = o]
          BY DEF Conclude
        <5>2. RetryRaises(p) => \E a, ok : Conclude(p, a, ok)
          BY DEF RetryRaises
        <5>3. ASSUME NEW verdict, NEW decision, CompleteTheTurn(p, verdict, decision)
              PROVE  UNCHANGED call \/ \E a, ok : Conclude(p, a, ok)
          BY <5>3 DEF CompleteTheTurn
        <5> QED
          BY <3>3, <5>1, <5>2, <5>3
      <4> QED
        BY <4>1, CallMoves
    <3>4. CASE SavePause(p)
      BY <3>4, CallMoves DEF SavePause
    <3> QED
      BY <1>3, <3>1, <3>2, <3>3, <3>4 DEF Loop
  <2> QED
    BY <1>0, <2>1, <2>2 DEF OthersStay, Goto, SetAgent
<1>4. CASE StartPostloop(p) \/ FinishPostloop(p) \/ AppendRecord(p) \/ TouchSession(p)
  <2>1. Moves
    BY <1>4 DEF StartPostloop, FinishPostloop, AppendRecord, TouchSession,
                CloseLifecycleOnce, At, Labels
  <2>2. Keeps
    BY <1>4, CallMoves DEF StartPostloop, FinishPostloop, AppendRecord, TouchSession
  <2> QED
    BY <1>0, <2>1, <2>2 DEF OthersStay, Goto, SetAgent
<1>5. CASE \/ \E ok \in BOOLEAN, decision \in Decisions : ResumedTurn(p, ok, decision)
           \/ ResumedTurnRaises(p)
  <2>1. /\ pc[p] # "idle" /\ UNCHANGED <<nextDel, lost>>
        /\ Goto(p, "ending") \/ \E a, ok : Conclude(p, a, ok)
        /\ UNCHANGED agent \/ \E a : SetAgent(p, a)
        /\ \E o : call' = [call EXCEPT ![p].outcome = o]
    BY <1>5 DEF ResumedTurn, ResumedTurnRaises, At, Conclude
  <2>2. \A a, ok : Conclude(p, a, ok) => Goto(p, "pausing") \/ Goto(p, "ending")
    BY DEF Conclude, AfterLoop
  <2>3. Moves
    BY <2>1, <2>2 DEF Labels
  <2>4. Keeps
    BY <2>1, CallMoves
  <2> QED
    BY <1>0, <2>3, <2>4 DEF OthersStay, Goto, SetAgent
<1> QED
  BY <1>1, <1>2, <1>3, <1>4, <1>5

\* So do the steps that end a call, or turn it into a resumed one, but for p.
LEMMA CallsApart ==
  ASSUME TypeInv, NEW p \in Procs,
         \/ RouteReminder(p) \/ RouteResume(p) \/ Return(p) \/ CloseResume(p)
         \/ DelegateRaises(p) \/ ResumeRaises(p) \/ Crash(p)
         \/ \E mode \in Modes, fresh \in BOOLEAN, answer \in BOOLEAN :
              Arrive(p, mode, fresh, answer)
  PROVE  OthersStay(p)
<1> USE DEF clockVars, diskVars
<1>0. /\ pc \in [Procs -> Labels] /\ call \in [Procs -> CallType]
      /\ agent \in [Procs -> AgentType(Ids)]
  BY DEF TypeInv, TypeOK
<1>1. /\ \E label : Goto(p, label)
      /\ \E c : call' = [call EXCEPT ![p] = c]
  BY DEF RouteReminder, RouteResume, Return, CloseResume, DelegateRaises, ResumeRaises,
         Crash, Arrive, Finished
<1>2. UNCHANGED agent \/ \E a : SetAgent(p, a)
  BY DEF RouteReminder, RouteResume, Return, CloseResume, DelegateRaises, ResumeRaises,
         Crash, Arrive, CloseLifecycleOnce
<1> QED
  BY <1>0, <1>1, <1>2 DEF OthersStay, Goto, SetAgent

\* The events of a step are counted in the trace of the call's delegation.
LEMMA EmitCounts ==
  ASSUME TypeInv, NEW p \in Procs, call[p].id \in Ids, NEW kinds, Emit(p, kinds)
  PROVE  \A e \in Ids, k \in EventKinds :
           trace'[e][k] = trace[e][k]
             + (IF call[p].logged /\ e = call[p].id /\ k \in kinds THEN 1 ELSE 0)
<1>0. trace \in [Ids -> [EventKinds -> Nat]]
  BY DEF TypeInv, TypeOK
<1>1. CASE ~call[p].logged
  BY <1>0, <1>1 DEF Emit
<1>2. CASE call[p].logged
  <2> DEFINE more == [k \in EventKinds |-> trace[call[p].id][k] + (IF k \in kinds THEN 1 ELSE 0)]
  <2>1. trace' = [trace EXCEPT ![call[p].id] = more]
    BY <1>2 DEF Emit
  <2>2. \A k \in EventKinds : more[k] = trace[call[p].id][k] + (IF k \in kinds THEN 1 ELSE 0)
    OBVIOUS
  <2> HIDE DEF more
  <2>3. trace'[call[p].id] = more /\ \A e \in Ids : e # call[p].id => trace'[e] = trace[e]
    BY <1>0, <2>1
  <2> QED
    BY <1>0, <1>2, <2>2, <2>3
<1> QED
  BY <1>1, <1>2

-----------------------------------------------------------------------------
(***************************************************************************)
(* The number of turns.                                                    *)
(***************************************************************************)
Turns(d) == trace[d]["turn_start"]
Loops(d) == trace[d]["loop_start"]

BeforeLoop == {"routing", "armed", "preloop", "clarity", "clarityPaused"}
InTurn     == {"executing", "reviewing"}

\* A delegation has no turn before its loop; in the loop the agent counts the
\* turns the trace does not owe to resumed loops, and stays within its limit.
TurnsKnown(p) ==
  Delegating(p) =>
    /\ pc[p] \in BeforeLoop => Turns(call[p].id) = 0
    /\ pc[p] \in InTurn =>
         /\ agent[p].maxTurns = MaxTurns /\ agent[p].cur <= MaxTurns
         /\ Turns(call[p].id) + 1 <= agent[p].cur + Loops(call[p].id)

TurnInv ==
  /\ TurnsBounded
  /\ \A d \in Ids : d >= nextDel => Turns(d) = 0
  /\ \A p \in Procs : TurnsKnown(p)

LEMMA TurnCounts ==
  ASSUME TypeInv
  PROVE  \A d \in Ids : Turns(d) \in Nat /\ Loops(d) \in Nat
  BY DEF TypeInv, TypeOK, Turns, Loops, EventKinds

\* A step that starts no turn and no loop.
SameTurns == \A d \in Ids : Turns(d)' = Turns(d) /\ Loops(d)' = Loops(d)

LEMMA SilentEmit ==
  ASSUME TypeInv, NEW p \in Procs, call[p].id \in Ids, NEW kinds,
         "turn_start" \notin kinds, "loop_start" \notin kinds, Emit(p, kinds)
  PROVE  SameTurns
<1>1. \A d \in Ids : trace[d]["turn_start"] \in Nat /\ trace[d]["loop_start"] \in Nat
  BY DEF TypeInv, TypeOK, EventKinds
<1> QED
  BY <1>1, EmitCounts DEF SameTurns, Turns, Loops, EventKinds

LEMMA SilentClose ==
  ASSUME TypeInv, NEW p \in Procs, call[p].id \in Ids,
         CloseLifecycleOnce(p) \/ UNCHANGED trace
  PROVE  SameTurns
<1>1. CASE UNCHANGED trace
  BY <1>1 DEF SameTurns, Turns, Loops
<1>2. CASE ~UNCHANGED trace
  <2> DEFINE kinds == EndLifecycleEvent(agent[p]) \cup (IF agent[p].open = {} THEN {} ELSE {"phase_end"})
  <2>1. Emit(p, kinds)
    BY <1>2 DEF CloseLifecycleOnce
  <2>2. "turn_start" \notin kinds /\ "loop_start" \notin kinds
    BY DEF EndLifecycleEvent
  <2> HIDE DEF kinds
  <2> QED
    BY <2>1, <2>2, SilentEmit
<1> QED
  BY <1>1, <1>2

\* What has to be shown of a step that starts no turn: the process of the step.
LEMMA SilentStep ==
  ASSUME TypeInv, TurnInv, NEW p \in Procs, OthersStay(p), SameTurns,
         UNCHANGED nextDel, TurnsKnown(p)'
  PROVE  TurnInv'
<1>1. TurnsBounded'
  BY DEF TurnInv, TurnsBounded, SameTurns, Turns, Loops
<1>2. \A d \in Ids : d >= nextDel' => Turns(d)' = 0
  BY DEF TurnInv, SameTurns
<1>3. ASSUME NEW q \in Procs, q # p PROVE TurnsKnown(q)'
  <2>1. pc'[q] = pc[q] /\ call'[q] = call[q] /\ agent'[q] = agent[q]
    BY <1>3 DEF OthersStay
  <2>2. Delegating(q)' => Delegating(q) /\ call[q].id \in Ids
    BY <2>1 DEF Delegating, TypeInv, CallKinds
  <2> QED
    BY <2>1, <2>2 DEF TurnInv, TurnsKnown, SameTurns, Turns, Loops
<1> QED
  BY <1>1, <1>2, <1>3 DEF TurnInv

\* The same for a step that starts turns in the trace of d, which no other
\* process may still be delegating.
LEMMA TurnStarts ==
  ASSUME TypeInv, TurnInv, NEW p \in Procs, OthersStay(p), NEW d \in Ids, d < nextDel,
         \A e \in Ids \ {d} : Turns(e)' = Turns(e) /\ Loops(e)' = Loops(e),
         Turns(d)' > 0 => Turns(d)' <= MaxTurns + Loops(d)' - 1,
         \A q \in Procs \ {p} :
           Delegating(q) => call[q].id # d \/ pc[q] \in Filed,
         UNCHANGED nextDel, TurnsKnown(p)'
  PROVE  TurnInv'
<1>0. nextDel \in Nat /\ d \in Nat
  BY DEF TypeInv, TypeOK, Ids
<1>1. TurnsBounded'
  BY DEF TurnInv, TurnsBounded, Turns, Loops
<1>2. \A e \in Ids : e >= nextDel' => Turns(e)' = 0
  <2>1. \A e \in Ids : e >= nextDel => e # d
    BY <1>0
  <2> QED
    BY <2>1 DEF TurnInv
<1>3. ASSUME NEW q \in Procs, q # p PROVE TurnsKnown(q)'
  <2>1. pc'[q] = pc[q] /\ call'[q] = call[q] /\ agent'[q] = agent[q]
    BY <1>3 DEF OthersStay
  <2>2. Delegating(q)' =>
          Delegating(q) /\ call[q].id \in Ids /\ (call[q].id # d \/ pc[q] \in Filed)
    BY <1>3, <2>1 DEF Delegating, TypeInv, CallKinds
  <2>3. TurnsKnown(q)
    BY DEF TurnInv
  <2> QED
    BY <2>1, <2>2, <2>3 DEF TurnsKnown, Turns, Loops, BeforeLoop, InTurn, Filed
<1> QED
  BY <1>1, <1>2, <1>3 DEF TurnInv

\* No other process may be delegating what p delegates, or what has a record.
LEMMA DelegatedApart ==
  ASSUME RecordInv, NEW p \in Procs, NEW d,
         (Delegating(p) /\ d = call[p].id) \/ HasRecord(d)
  PROVE  /\ d < nextDel
         /\ \A q \in Procs \ {p} : Delegating(q) => call[q].id # d \/ pc[q] \in Filed
<1>1. CASE Delegating(p) /\ d = call[p].id
  BY <1>1 DEF RecordInv
<1>2. CASE HasRecord(d)
  BY <1>2 DEF RecordInv, HasRecord
<1> QED
  BY <1>1, <1>2

\* A step within a call that starts no turn and enters neither the loop nor the
\* part of the call before it.
LEMMA SilentMove ==
  ASSUME TypeInv, TurnInv, NEW p \in Procs, OthersStay(p), SameCall(p), SameTurns,
         UNCHANGED nextDel, pc[p] # "idle",
         pc'[p] \in BeforeLoop => pc[p] \in BeforeLoop,
         pc'[p] \in InTurn => /\ pc[p] \in InTurn /\ agent'[p].cur = agent[p].cur
                              /\ agent'[p].maxTurns = agent[p].maxTurns
  PROVE  TurnInv'
<1>1. Delegating(p)' => Delegating(p) /\ call[p].id \in Ids
  BY DEF Delegating, SameCall, TypeInv, CallKinds
<1>2. TurnsKnown(p)
  BY DEF TurnInv
<1>3. TurnsKnown(p)'
  BY <1>1, <1>2 DEF TurnsKnown, SameCall, SameTurns, Turns, Loops
<1> QED
  BY <1>3, SilentStep

LEMMA EnterLoopTurns ==
  ASSUME TypeInv, RecordInv, TurnInv, NEW p \in Procs, NEW pkg \in BOOLEAN, EnterLoop(p, pkg)
  PROVE  TurnInv'
<1>0. /\ pc[p] = "preloop" /\ Delegating(p) /\ call[p].id \in Ids
      /\ agent \in [Procs -> AgentType(Ids)] /\ pc \in [Procs -> Labels]
  BY DEF EnterLoop, At, TypeInv, TypeOK, CallKinds, OwnLabels, Delegating
<1>1. SameCall(p) /\ OthersStay(p) /\ UNCHANGED nextDel /\ Goto(p, "executing")
  <2>1. Preloop(p)
    BY DEF Preloop
  <2> QED
    BY <2>1, WithinCall DEF EnterLoop
<1>2. pc'[p] = "executing"
  BY <1>0, <1>1 DEF Goto
<1> DEFINE moved == IF Implement(p)
                      THEN StartPhase(EndPhase(agent[p], "preloop"), "loop")
                      ELSE GetOrCreate(p)
           begun == BeginDelegation(moved, call[p].id, MaxTurns)
           a == BeginTurn(Begin(begun, projectState))
           phases == IF Implement(p)
                       THEN PhaseEvent(agent[p], "phase_end") \cup
                            PhaseEvent(agent[p], "phase_start")
                       ELSE {}
           kinds == phases \cup BeginEvents(begun) \cup {"turn_start"}
<1>3. agent'[p] = a /\ Emit(p, kinds)
  BY <1>0 DEF EnterLoop, SetAgent
<1>4. moved \in AgentType(Ids)
  <2>1. CASE Implement(p)
    <3>1. agent[p] \in AgentType(Ids)
      BY <1>0
    <3>2. EndPhase(agent[p], "preloop") \in AgentType(Ids)
      BY <3>1 DEF EndPhase, AgentType
    <3>3. StartPhase(EndPhase(agent[p], "preloop"), "loop") \in AgentType(Ids)
      BY <3>2 DEF StartPhase, AgentType, Phases
    <3> QED
      BY <2>1, <3>3
  <2>2. CASE ~Implement(p)
    BY <2>2, GetOrCreateType DEF TypeInv
  <2> QED
    BY <2>1, <2>2
<1> HIDE DEF moved
<1>5. /\ begun \in AgentType(Ids) /\ begun.maxTurns = MaxTurns
      /\ begun.cur = 0 /\ begun.loopStarted = FALSE
  <2>1. begun \in AgentType(Ids)
    BY <1>0, <1>4, AgentMethodTypes, BoundsAssumption DEF Phases, Decisions
  <2>2. begun.maxTurns = MaxTurns /\ begun.cur = 0 /\ begun.loopStarted = FALSE
    BY <1>4 DEF BeginDelegation, ResetLifecycle, AgentType
  <2> QED
    BY <2>1, <2>2
<1> HIDE DEF begun
<1>6. a.maxTurns = MaxTurns /\ a.cur = 1
  BY <1>5 DEF Begin, BeginTurn, AgentType
<1> HIDE DEF a
<1>7. "turn_start" \in kinds /\ "loop_start" \in kinds
  BY <1>5 DEF BeginEvents
<1> HIDE DEF kinds
<1> DEFINE one == IF call[p].logged THEN 1 ELSE 0
<1>d. PICK d \in Ids : d = call[p].id
  BY <1>0
<1>8. \A e \in Ids :
        /\ Turns(e)' = Turns(e) + (IF call[p].logged /\ e = d THEN 1 ELSE 0)
        /\ Loops(e)' = Loops(e) + (IF call[p].logged /\ e = d THEN 1 ELSE 0)
  BY <1>0, <1>3, <1>7, <1>d, EmitCounts DEF Turns, Loops, EventKinds
<1>9. Turns(d)' = one /\ Loops(d)' = Loops(d) + one
  <2>1. Turns(d) = 0
    BY <1>0, <1>d DEF TurnInv, TurnsKnown, BeforeLoop
  <2>2. /\ Turns(d)' = Turns(d) + (IF call[p].logged THEN 1 ELSE 0)
        /\ Loops(d)' = Loops(d) + (IF call[p].logged THEN 1 ELSE 0)
    BY <1>8
  <2> QED
    BY <2>1, <2>2
<1>10. \A e \in Ids \ {d} : Turns(e)' = Turns(e) /\ Loops(e)' = Loops(e)
  BY <1>8, TurnCounts
<1>11. Loops(d) \in Nat /\ MaxTurns \in Nat \ {0} /\ one \in {0, 1}
  BY TurnCounts, BoundsAssumption
<1> HIDE DEF one
<1>12. Turns(d)' > 0 => Turns(d)' <= MaxTurns + Loops(d)' - 1
  BY <1>9, <1>11
<1>13. Turns(d)' + 1 <= 1 + Loops(d)'
  BY <1>9, <1>11
<1>14. TurnsKnown(p)'
  <2>1. call'[p].id = d
    BY <1>1, <1>d DEF SameCall
  <2>2. /\ agent'[p].maxTurns = MaxTurns /\ agent'[p].cur <= MaxTurns
        /\ Turns(d)' + 1 <= agent'[p].cur + Loops(d)'
    BY <1>3, <1>6, <1>11, <1>13
  <2> QED
    BY <1>2, <2>1, <2>2 DEF TurnsKnown, BeforeLoop, Turns, Loops
<1> QED
  BY <1>0, <1>1, <1>10, <1>12, <1>14, <1>d, DelegatedApart, TurnStarts

LEMMA CompleteTurns ==
  ASSUME TypeInv, RecordInv, TurnInv, NEW p \in Procs, NEW verdict \in ReviewerResults,
         NEW decision \in Decisions, CompleteTheTurn(p, verdict, decision)
  PROVE  TurnInv'
<1>0. /\ pc[p] = "reviewing" /\ Delegating(p) /\ call[p].id \in Ids
      /\ agent \in [Procs -> AgentType(Ids)] /\ pc \in [Procs -> Labels]
  BY DEF CompleteTheTurn, At, TypeInv, TypeOK, CallKinds, OwnLabels, Delegating
<1>1. SameCall(p) /\ OthersStay(p) /\ UNCHANGED nextDel
  <2>1. Loop(p)
    BY DEF Loop
  <2> QED
    BY <2>1, WithinCall
<1> DEFINE known == IF verdict = "issues" /\ agent[p].cur = 1
                      THEN agent[p].known \cup {call[p].id} ELSE agent[p].known
           seen  == [agent[p] EXCEPT !.known = known,
                       !.reviewer = IF Implement(p) THEN verdict ELSE @]
           a     == CompleteTurn(seen, decision)
           rerun == WantsRerun(p, a, decision)
           one   == IF call[p].logged /\ rerun THEN 1 ELSE 0
<1>d. PICK d \in Ids : d = call[p].id
  BY <1>0
<1>2. /\ agent'[p] = IF rerun THEN BeginTurn(a) ELSE a
      /\ Emit(p, {"turn_end"} \cup (IF rerun THEN {"turn_start"} ELSE {}))
      /\ (rerun /\ Goto(p, "executing")) \/ \E o, ok : Conclude(p, o, ok)
  BY <1>0 DEF CompleteTheTurn, SetAgent
<1>3. a.cur = agent[p].cur /\ a.maxTurns = agent[p].maxTurns
  BY <1>0 DEF CompleteTurn, AgentType
<1>4. BeginTurn(a).cur = agent[p].cur + 1 /\ BeginTurn(a).maxTurns = agent[p].maxTurns
  BY <1>0 DEF CompleteTurn, BeginTurn, AgentType
<1>5. rerun => agent[p].cur < agent[p].maxTurns
  BY <1>3 DEF WantsRerun, CanRerun
<1> HIDE DEF a, rerun
<1>6. \A e \in Ids :
        /\ Turns(e)' = Turns(e) + (IF call[p].logged /\ rerun /\ e = d THEN 1 ELSE 0)
        /\ Loops(e)' = Loops(e)
  <2>1. \A e \in Ids : Turns(e) \in Nat /\ Loops(e) \in Nat
    BY TurnCounts
  <2>2. \A e \in Ids, k \in EventKinds :
          trace'[e][k] = trace[e][k]
            + (IF call[p].logged /\ e = d
                    /\ k \in {"turn_end"} \cup (IF rerun THEN {"turn_start"} ELSE {})
               THEN 1 ELSE 0)
    BY <1>0, <1>2, <1>d, EmitCounts
  <2> QED
    BY <2>1, <2>2 DEF Turns, Loops, EventKinds
<1>7. /\ agent[p].maxTurns = MaxTurns /\ agent[p].cur <= MaxTurns
      /\ Turns(d) + 1 <= agent[p].cur + Loops(d)
  BY <1>0, <1>d DEF TurnInv, TurnsKnown, InTurn
<1>8. /\ Turns(d) \in Nat /\ Loops(d) \in Nat /\ agent[p].cur \in Nat /\ MaxTurns \in Nat
  BY <1>0, TurnCounts, BoundsAssumption DEF AgentType
<1>9. Turns(d)' = Turns(d) + one /\ Loops(d)' = Loops(d)
  BY <1>0, <1>6
<1>10. \A e \in Ids \ {d} : Turns(e)' = Turns(e) /\ Loops(e)' = Loops(e)
  BY <1>6, TurnCounts
<1>11. one \in {0, 1} /\ (one = 1 => agent[p].cur < MaxTurns)
  BY <1>5, <1>7
<1> HIDE DEF one
<1>12. Turns(d)' > 0 => Turns(d)' <= MaxTurns + Loops(d)' - 1
  BY <1>7, <1>8, <1>9, <1>11
<1>13. TurnsKnown(p)'
  <2>1. call'[p].id = d
    BY <1>1, <1>d DEF SameCall
  <2>2. pc'[p] \notin BeforeLoop /\ (pc'[p] \in InTurn => rerun)
    <3>1. CASE rerun /\ Goto(p, "executing")
      BY <1>0, <3>1 DEF Goto, BeforeLoop
    <3>2. ASSUME NEW o, NEW ok, Conclude(p, o, ok)
          PROVE  pc'[p] \notin BeforeLoop /\ pc'[p] \notin InTurn
      BY <1>0, <3>2 DEF Conclude, AfterLoop, Goto, BeforeLoop, InTurn
    <3> QED
      BY <1>2, <3>1, <3>2
  <2>3. rerun => /\ agent'[p].maxTurns = MaxTurns /\ agent'[p].cur = agent[p].cur + 1
                 /\ agent[p].cur < MaxTurns
    BY <1>2, <1>4, <1>5, <1>7
  <2>4. rerun => /\ agent'[p].cur <= MaxTurns
                 /\ Turns(d)' + 1 <= agent'[p].cur + Loops(d)'
    BY <1>7, <1>8, <1>9, <1>11, <2>3
  <2> QED
    BY <2>1, <2>2, <2>3, <2>4 DEF TurnsKnown, Turns, Loops
<1> QED
  BY <1>0, <1>1, <1>10, <1>12, <1>13, <1>d, DelegatedApart, TurnStarts

LEMMA ResumeTurns ==
  ASSUME TypeInv, RecordInv, TurnInv, NEW p \in Procs, RouteResume(p)
  PROVE  TurnInv'
<1>0. /\ pc \in [Procs -> Labels] /\ call \in [Procs -> CallType]
      /\ trace \in [Ids -> [EventKinds -> Nat]]
  BY DEF TypeInv, TypeOK
<1>1. OthersStay(p) /\ UNCHANGED nextDel
  BY CallsApart DEF RouteResume, clockVars
<1>2. call[p].seen \in Pauses /\ call[p].seen.ref \in Ids
  <2>1. call[p].seen \in Pauses \cup {NoPause} /\ call[p].seen # NoPause
    BY <1>0 DEF CallType, RouteResume, Escalation, NoPause
  <2> QED
    BY <2>1 DEF Pauses
<1>d. PICK d \in Ids : d = call[p].seen.ref
  BY <1>2
<1>3. call'[p].kind = "resume"
  <2>1. \E l : call' = [call EXCEPT ![p] = [NoCall EXCEPT !.id = d, !.kind = "resume",
                                     !.from = call[p].seen.tok, !.logged = l]]
    BY <1>d DEF RouteResume
  <2> QED
    BY <1>0, <2>1 DEF NoCall
<1>4. TurnsKnown(p)'
  BY <1>3 DEF TurnsKnown, Delegating
<1>5. CASE ~HasRecord(d)
  <2>1. SameTurns
    BY <1>5, <1>d DEF RouteResume, SameTurns, Turns, Loops
  <2> QED
    BY <1>1, <1>4, <2>1, SilentStep
<1>6. CASE HasRecord(d)
  <2> DEFINE kinds == {"lifecycle_start", "phase_start", "resumed", "turn_start"}
                        \cup BeginEvents(ResumedAgent(call[p].seen, projectState))
             more == [k \in EventKinds |-> trace[d][k] + (IF k \in kinds THEN 1 ELSE 0)]
  <2>1. trace' = [trace EXCEPT ![d] = more]
    BY <1>6, <1>d DEF RouteResume
  <2>2. "turn_start" \in kinds /\ "loop_start" \in kinds
    <3>1. ResumedAgent(call[p].seen, projectState).loopStarted = FALSE
      BY DEF ResumedAgent, NewAgent
    <3> QED
      BY <3>1 DEF BeginEvents
  <2> HIDE DEF kinds
  <2>3. \A k \in EventKinds : more[k] = trace[d][k] + (IF k \in kinds THEN 1 ELSE 0)
    OBVIOUS
  <2> HIDE DEF more
  <2>4. trace'[d] = more /\ \A e \in Ids \ {d} : trace'[e] = trace[e]
    BY <1>0, <1>2, <2>1
  <2>5. Turns(d)' = Turns(d) + 1 /\ Loops(d)' = Loops(d) + 1
    BY <2>2, <2>3, <2>4 DEF Turns, Loops, EventKinds
  <2>6. \A e \in Ids \ {d} : Turns(e)' = Turns(e) /\ Loops(e)' = Loops(e)
    BY <2>4 DEF Turns, Loops
  <2>7. Turns(d) > 0 => Turns(d) <= MaxTurns + Loops(d) - 1
    BY <1>2 DEF TurnInv, TurnsBounded, Turns, Loops
  <2>8. Turns(d) \in Nat /\ Loops(d) \in Nat /\ MaxTurns \in Nat \ {0}
    BY <1>2, TurnCounts, BoundsAssumption
  <2>9. Turns(d)' > 0 => Turns(d)' <= MaxTurns + Loops(d)' - 1
    BY <2>5, <2>7, <2>8
  <2> QED
    BY <1>1, <1>2, <1>4, <1>6, <2>6, <2>9, DelegatedApart, TurnStarts
<1> QED
  BY <1>5, <1>6

LEMMA TurnStep ==
  TypeInv /\ RecordInv /\ TurnInv /\ [Next]_vars => TurnInv'
<1> SUFFICES ASSUME TypeInv, RecordInv, TurnInv, [Next]_vars PROVE TurnInv'
  OBVIOUS
<1> USE DEF clockVars, diskVars, procVars
<1>0. /\ pc \in [Procs -> Labels] /\ call \in [Procs -> CallType]
      /\ agent \in [Procs -> AgentType(Ids)]
  BY DEF TypeInv, TypeOK
<1>a. \A p \in Procs : pc[p] # "idle" => call[p].id \in Ids
  BY DEF TypeInv, CallKinds
<1>b. UNCHANGED trace => SameTurns
  BY DEF SameTurns, Turns, Loops
\* Steps within a call that do not enter the turns.
<1>1. ASSUME NEW p \in Procs, OthersStay(p), SameCall(p), SameTurns, UNCHANGED nextDel,
             NEW from, NEW label, pc[p] = from, Goto(p, label), from # "idle",
             label \notin InTurn, label \in BeforeLoop => from \in BeforeLoop
      PROVE  TurnInv'
  BY <1>0, <1>1, SilentMove DEF Goto
<1>2. ASSUME NEW p \in Procs, OthersStay(p), SameTurns, UNCHANGED nextDel, Goto(p, "idle")
      PROVE  TurnInv'
  <2>1. TurnsKnown(p)'
    BY <1>0, <1>2 DEF TurnsKnown, Delegating, Goto
  <2> QED
    BY <1>2, <2>1, SilentStep
<1>3. ASSUME NEW p \in Procs, RouteFresh(p) \/ RouteClarityReentry(p) PROVE TurnInv'
  BY <1>1, <1>3, <1>b, WithinCall
     DEF RouteFresh, RouteClarityReentry, At, BeforeLoop, InTurn
<1>4. ASSUME NEW p \in Procs, OpenEnvelope(p) PROVE TurnInv'
  <2>1. /\ SameCall(p) /\ OthersStay(p) /\ UNCHANGED nextDel
        /\ pc[p] = "armed" /\ Goto(p, "preloop")
    BY <1>4, WithinCall DEF Preloop, OpenEnvelope, At
  <2>2. SameTurns
    <3>1. CASE Implement(p)
      <4> DEFINE a == StartLifecycle(BeginDelegation(GetOrCreate(p), call[p].id, MaxTurns))
                 kinds == {"lifecycle_start"} \cup PhaseEvent(a, "phase_start")
                            \cup (IF call[p].from # 0 THEN {"resumed"} ELSE {})
      <4>1. Emit(p, kinds)
        BY <1>4, <3>1 DEF OpenEnvelope
      <4>2. "turn_start" \notin kinds /\ "loop_start" \notin kinds
        BY DEF PhaseEvent
      <4> HIDE DEF kinds
      <4> QED
        BY <1>a, <2>1, <4>1, <4>2, SilentEmit
    <3>2. CASE ~Implement(p)
      BY <1>4, <1>b, <3>2 DEF OpenEnvelope
    <3> QED
      BY <3>1, <3>2
  <2> QED
    BY <1>1, <2>1, <2>2 DEF BeforeLoop, InTurn
<1>5. ASSUME NEW p \in Procs, InvalidSpec(p) \/ CloseForClarity(p) \/ FinishPostloop(p)
      PROVE  TurnInv'
  <2>1. SameCall(p) /\ OthersStay(p) /\ UNCHANGED nextDel
    BY <1>5, WithinCall DEF Preloop
  <2>2. pc[p] # "idle" /\ Goto(p, "recording") /\ CloseLifecycleOnce(p)
    BY <1>5 DEF InvalidSpec, CloseForClarity, FinishPostloop, At
  <2>3. SameTurns
    BY <1>a, <2>2, SilentClose
  <2> QED
    BY <1>1, <2>1, <2>2, <2>3 DEF BeforeLoop, InTurn
<1>6. ASSUME NEW p \in Procs,
             \/ ReviewTargetsError(p) \/ ClarityBlocks(p) \/ SaveClarityPause(p)
             \/ ClarityPauseNotSaved(p) \/ AppendRecord(p) \/ TouchSession(p)
      PROVE  TurnInv'
  <2>1. SameCall(p) /\ OthersStay(p) /\ UNCHANGED nextDel
    BY <1>6, WithinCall DEF Preloop
  <2>2. /\ UNCHANGED trace /\ pc[p] \in {"preloop", "clarity", "recording", "appended"}
        /\ \E label \in {"recording", "clarity", "clarityPaused", "appended", "returning"} :
             Goto(p, label) /\ (label \in BeforeLoop => pc[p] \in BeforeLoop)
    BY <1>6 DEF ReviewTargetsError, ClarityBlocks, SaveClarityPause, ClarityPauseNotSaved,
                AppendRecord, TouchSession, At, BeforeLoop
  <2> QED
    BY <1>1, <1>b, <2>1, <2>2 DEF InTurn
<1>7. ASSUME NEW p \in Procs,
             \/ \E ok \in BOOLEAN : ExecutorReturns(p, ok)
             \/ \E bound \in BOOLEAN : FirstTurnRaises(p, bound)
      PROVE  TurnInv'
  <2>1. SameCall(p) /\ OthersStay(p) /\ UNCHANGED nextDel
    BY <1>7, WithinCall DEF Loop
  <2>2. /\ pc[p] = "executing" /\ pc'[p] = "reviewing" /\ UNCHANGED <<trace, agent>>
    BY <1>0, <1>7 DEF ExecutorReturns, FirstTurnRaises, At, Goto
  <2> QED
    BY <1>b, <2>1, <2>2, SilentMove DEF BeforeLoop, InTurn
<1>8. ASSUME NEW p \in Procs, PlannerRecords(p) PROVE TurnInv'
  <2>1. SameCall(p) /\ OthersStay(p) /\ UNCHANGED nextDel
    BY <1>8, WithinCall
  <2>2. pc[p] = "executing" /\ UNCHANGED <<pc, trace>>
    BY <1>8 DEF PlannerRecords, At
  <2>3. agent'[p] = [agent[p] EXCEPT !.known = agent[p].known \cup {call[p].id}]
    BY <1>0, <1>8 DEF PlannerRecords, SetAgent
  <2>4. agent'[p].cur = agent[p].cur /\ agent'[p].maxTurns = agent[p].maxTurns
    BY <1>0, <2>3 DEF AgentType
  <2> QED
    BY <1>b, <2>1, <2>2, <2>4, SilentMove DEF BeforeLoop, InTurn
<1>9. ASSUME NEW p \in Procs,
             \/ RetryRaises(p) \/ SavePause(p) \/ SaveProjectState(p) \/ SaveCheckpoint(p)
             \/ CheckpointNotSaved(p)
      PROVE  TurnInv'
  <2>1. SameCall(p) /\ OthersStay(p) /\ UNCHANGED nextDel
    BY <1>9, WithinCall DEF Loop
  <2>2. /\ UNCHANGED trace /\ pc[p] # "idle"
        /\ \E label \in FinishLabels \cup {"looped", "resumed"} : Goto(p, label)
    BY <1>9 DEF RetryRaises, SavePause, SaveProjectState, SaveCheckpoint, CheckpointNotSaved,
                Conclude, AfterLoop, LeaveLoop, At, FinishLabels
  <2> QED
    BY <1>1, <1>b, <2>1, <2>2 DEF BeforeLoop, InTurn, FinishLabels
<1>10. ASSUME NEW p \in Procs, EndTheLoop(p) PROVE TurnInv'
  <2>1. SameCall(p) /\ OthersStay(p) /\ UNCHANGED nextDel
    BY <1>10, WithinCall DEF Loop
  <2>2. pc[p] = "ending" /\ Goto(p, "saving") /\ Emit(p, EndLoopEvents(agent[p]))
    BY <1>10 DEF EndTheLoop, At
  <2>3. SameTurns
    BY <1>a, <2>2, SilentEmit DEF EndLoopEvents
  <2> QED
    BY <1>1, <2>1, <2>2, <2>3 DEF BeforeLoop, InTurn
<1>11. ASSUME NEW p \in Procs, StartPostloop(p) PROVE TurnInv'
  <2>1. SameCall(p) /\ OthersStay(p) /\ UNCHANGED nextDel
    BY <1>11, WithinCall
  <2>2. pc[p] = "looped" /\ Goto(p, "postloop")
    BY <1>11 DEF StartPostloop, At
  <2>3. SameTurns
    <3>1. CASE Implement(p)
      <4> DEFINE kinds == PhaseEvent(agent[p], "phase_end") \cup
                            PhaseEvent(agent[p], "phase_start")
      <4>1. Emit(p, kinds)
        BY <1>11, <3>1 DEF StartPostloop
      <4>2. "turn_start" \notin kinds /\ "loop_start" \notin kinds
        BY DEF PhaseEvent
      <4> HIDE DEF kinds
      <4> QED
        BY <1>a, <2>2, <4>1, <4>2, SilentEmit
    <3>2. CASE ~Implement(p)
      BY <1>11, <1>b, <3>2 DEF StartPostloop
    <3> QED
      BY <3>1, <3>2
  <2> QED
    BY <1>1, <2>1, <2>2, <2>3 DEF BeforeLoop, InTurn
<1>12. ASSUME NEW p \in Procs,
              \/ \E ok \in BOOLEAN, decision \in Decisions : ResumedTurn(p, ok, decision)
              \/ ResumedTurnRaises(p)
       PROVE  TurnInv'
  <2>1. SameCall(p) /\ OthersStay(p) /\ UNCHANGED nextDel
    BY <1>12, WithinCall
  <2>2. /\ pc[p] = "resuming" /\ Emit(p, {"turn_end"})
        /\ \E label \in {"pausing", "ending"} : Goto(p, label)
    BY <1>12 DEF ResumedTurn, ResumedTurnRaises, Conclude, AfterLoop, At
  <2>3. SameTurns
    BY <1>a, <2>2, SilentEmit
  <2> QED
    BY <1>1, <2>1, <2>2, <2>3 DEF BeforeLoop, InTurn
<1>13. ASSUME NEW p \in Procs, RouteReminder(p) \/ Return(p) \/ Crash(p) PROVE TurnInv'
  <2>1. OthersStay(p)
    BY <1>13, CallsApart
  <2>2. Goto(p, "idle") /\ UNCHANGED <<trace, nextDel>>
    BY <1>13 DEF RouteReminder, Return, Crash, Finished
  <2> QED
    BY <1>2, <1>b, <2>1, <2>2
<1>14. ASSUME NEW p \in Procs, DelegateRaises(p) PROVE TurnInv'
  <2>1. OthersStay(p)
    BY <1>14, CallsApart
  <2>2. /\ Goto(p, "idle") /\ UNCHANGED nextDel /\ pc[p] # "idle"
        /\ CloseLifecycleOnce(p) \/ UNCHANGED trace
    BY <1>14 DEF DelegateRaises, MayRaise, At, Finished
  <2>3. SameTurns
    BY <1>a, <2>2, SilentClose
  <2> QED
    BY <1>2, <2>1, <2>2, <2>3
<1>15. ASSUME NEW p \in Procs, CloseResume(p) \/ ResumeRaises(p) PROVE TurnInv'
  <2>1. OthersStay(p)
    BY <1>15, CallsApart
  <2>2. Goto(p, "idle") /\ UNCHANGED nextDel /\ pc[p] # "idle"
    BY <1>15 DEF CloseResume, ResumeRaises, MayRaise, At, Finished
  <2> DEFINE closing == PhaseEvent(agent[p], "phase_end") \cup EndLifecycleEvent(agent[p])
             kinds == EndLoopEvents(agent[p]) \cup closing
  <2>3. Emit(p, closing) \/ Emit(p, kinds)
    <3>1. CloseResume(p) => Emit(p, closing)
      BY DEF CloseResume
    <3>2. ResumeRaises(p) => Emit(p, EndLoopEvents(agent[p]) \cup PhaseEvent(agent[p], "phase_end")
                                       \cup EndLifecycleEvent(agent[p]))
      BY DEF ResumeRaises
    <3>3. kinds = EndLoopEvents(agent[p]) \cup PhaseEvent(agent[p], "phase_end")
                    \cup EndLifecycleEvent(agent[p])
      OBVIOUS
    <3> HIDE DEF kinds
    <3> QED
      BY <1>15, <3>1, <3>2, <3>3
  <2>4. /\ "turn_start" \notin kinds /\ "loop_start" \notin kinds
        /\ "turn_start" \notin closing /\ "loop_start" \notin closing
    BY DEF PhaseEvent, EndLifecycleEvent, EndLoopEvents
  <2> HIDE DEF closing, kinds
  <2>5. SameTurns
    BY <1>a, <2>2, <2>3, <2>4, SilentEmit
  <2> QED
    BY <1>2, <2>1, <2>2, <2>5
<1>16. ASSUME NEW p \in Procs, NEW mode \in Modes, NEW fresh \in BOOLEAN,
              NEW answer \in BOOLEAN, Arrive(p, mode, fresh, answer)
       PROVE  TurnInv'
  <2>1. OthersStay(p)
    BY <1>16, CallsApart
  <2>2. /\ call'[p].id = nextDel /\ nextDel' = nextDel + 1 /\ UNCHANGED trace
        /\ nextDel <= MaxCalls /\ pc'[p] = "routing"
    BY <1>0, <1>16 DEF Arrive, NoCall, Goto
  <2>3. nextDel \in Ids /\ nextDel \in Nat
    BY <2>2, BoundsAssumption DEF TypeInv, TypeOK, Ids
  <2>4. Turns(nextDel) = 0
    BY <2>3 DEF TurnInv
  <2>5. TurnsKnown(p)'
    BY <2>2, <2>4 DEF TurnsKnown, InTurn, Turns
  <2>6. ASSUME NEW q \in Procs, q # p PROVE TurnsKnown(q)'
    <3>1. TurnsKnown(q) /\ pc'[q] = pc[q] /\ call'[q] = call[q] /\ agent'[q] = agent[q]
      BY <2>1, <2>6 DEF OthersStay, TurnInv
    <3> QED
      BY <2>2, <3>1 DEF TurnsKnown, Delegating, Turns, Loops
  <2>7. \A d \in Ids : d >= nextDel' => Turns(d)' = 0
    <3>1. \A d \in Ids : d >= nextDel + 1 => d >= nextDel
      BY <2>3 DEF Ids
    <3> QED
      BY <2>2, <3>1 DEF TurnInv, Turns
  <2>8. TurnsBounded'
    BY <2>2 DEF TurnInv, TurnsBounded
  <2> QED
    BY <2>5, <2>6, <2>7, <2>8 DEF TurnInv
<1>17. ASSUME UNCHANGED vars \/ \E f \in files : Expire(f) PROVE TurnInv'
  <2>1. UNCHANGED <<pc, call, agent, trace, nextDel>>
    BY <1>17 DEF vars, Expire
  <2> QED
    BY <2>1 DEF TurnInv, TurnsBounded, TurnsKnown, Delegating, Turns, Loops
<1>18. ASSUME NEW p \in Procs, Step(p) PROVE TurnInv'
  <2>1. CASE Routing(p)
    BY <1>3, <1>13, <2>1, ResumeTurns DEF Routing
  <2>2. CASE Preloop(p)
    BY <1>4, <1>5, <1>6, <2>2, EnterLoopTurns DEF Preloop
  <2>3. CASE Loop(p)
    BY <1>7, <1>9, <1>10, <2>3, CompleteTurns DEF Loop
  <2>4. CASE Postloop(p)
    BY <1>5, <1>6, <1>11, <1>13, <2>4 DEF Postloop
  <2>5. CASE Resumption(p)
    BY <1>12, <1>15, <2>5 DEF Resumption
  <2> QED
    BY <1>14, <1>15, <1>18, <2>1, <2>2, <2>3, <2>4, <2>5 DEF Step
<1> QED
  BY <1>8, <1>13, <1>16, <1>17, <1>18 DEF Next

LEMMA TurnInit == Init => TurnInv
<1> SUFFICES ASSUME Init PROVE TurnInv
  OBVIOUS
<1>1. \A d \in Ids : Turns(d) = 0
  BY DEF Init, Turns, EventKinds
<1>2. TurnsBounded
  BY <1>1 DEF TurnsBounded, Turns
<1>3. \A p \in Procs : ~Delegating(p)
  BY DEF Init, Delegating
<1> QED
  BY <1>1, <1>2, <1>3 DEF TurnInv, TurnsKnown

\* No delegation runs more turns than its limit, but for one a resumed loop adds.
THEOREM TurnsStayBounded == Spec => []TurnsBounded
<1>1. TurnInv => TurnsBounded
  BY DEF TurnInv
<1> QED
  BY TypeInit, TypeStep, RecordInit, RecordStep, TurnInit, TurnStep, <1>1, PTL DEF Spec

-----------------------------------------------------------------------------
(***************************************************************************)
(* The envelopes: each has one phase open, and the trace owes one end of   *)
(* both to every call that is inside its envelope.                         *)
(***************************************************************************)
\* Where delegate_to_agent, in implement mode, is inside its envelope.
EnvelopeLabels ==
  Labels \ {"idle", "routing", "armed", "recording", "appended", "returning", "resuming",
            "resumed"}

Enveloped(p) ==
  IF call[p].kind = "resume" THEN pc[p] # "idle"
  ELSE Implement(p) /\ pc[p] \in EnvelopeLabels

\* The calls that owe the trace of d an end.
Inside(d) == {p \in Procs : Enveloped(p) /\ call[p].logged /\ call[p].id = d}

\* What the agent holds of the envelope.
EnvelopeHeld(p) ==
  /\ ~Enveloped(p) => agent[p].open = {}
  /\ Enveloped(p) =>
       /\ ~agent[p].closed /\ agent[p].started
       /\ agent[p].open # {}
       /\ call[p].kind = "resume" => agent[p].open = {"loop"}
  /\ (Implement(p) /\ pc[p] \in ClosedLabels) => agent[p].closed

Owed(d) ==
  /\ trace[d]["lifecycle_start"] = trace[d]["lifecycle_end"] + Cardinality(Inside(d))
  /\ trace[d]["phase_start"] = trace[d]["phase_end"] + Cardinality(Inside(d))

EnvelopeInv ==
  /\ \A p \in Procs : EnvelopeHeld(p)
  /\ \A d \in Ids : ~Broken(d) => Owed(d)

\* Whether p owes the trace of e an end, as a number.
Owes(p, e) == IF p \in Inside(e) THEN 1 ELSE 0

\* A step of p changes what is inside an envelope of e by p at most.
LEMMA InsideCounts ==
  ASSUME NEW p \in Procs, OthersStay(p), NEW e \in Ids
  PROVE  /\ Cardinality(Inside(e)) \in Nat /\ Cardinality(Inside(e))' \in Nat
         /\ Cardinality(Inside(e))' + Owes(p, e) = Cardinality(Inside(e)) + Owes(p, e)'
<1>1. Inside(e) \subseteq Procs /\ Inside(e)' \subseteq Procs
  BY DEF Inside
<1>2. IsFiniteSet(Procs)
  BY ModesAssumption
<1>3. IsFiniteSet(Inside(e)) /\ IsFiniteSet(Inside(e)')
  BY <1>1, <1>2, FS_Subset
<1>4. \A q \in Procs \ {p} : q \in Inside(e)' <=> q \in Inside(e)
  BY DEF OthersStay, Inside, Enveloped, Implement
<1> DEFINE before == Inside(e)
           after  == Inside(e)'
<1>5. /\ IsFiniteSet(before) /\ IsFiniteSet(after)
      /\ before \subseteq Procs /\ after \subseteq Procs
      /\ \A q \in Procs \ {p} : q \in after <=> q \in before
  BY <1>1, <1>3, <1>4
<1>6. /\ Cardinality(Inside(e)) = Cardinality(before)
      /\ Cardinality(Inside(e))' = Cardinality(after)
      /\ Owes(p, e) = (IF p \in before THEN 1 ELSE 0)
      /\ Owes(p, e)' = (IF p \in after THEN 1 ELSE 0)
  BY DEF Owes
<1> HIDE DEF before, after
<1>7. Cardinality(before) \in Nat /\ Cardinality(after) \in Nat
  BY <1>5, FS_CardinalityType
<1>8. CASE p \in before <=> p \in after
  <2>1. before = after
    BY <1>5, <1>8
  <2> QED
    BY <1>6, <1>7, <1>8, <2>1
<1>9. CASE p \notin before /\ p \in after
  <2>1. after = before \cup {p}
    BY <1>5, <1>9
  <2>2. Cardinality(after) = Cardinality(before) + 1
    BY <1>5, <1>9, <2>1, FS_AddElement
  <2> QED
    BY <1>6, <1>7, <1>9, <2>2
<1>10. CASE p \in before /\ p \notin after
  <2>1. before = after \cup {p}
    BY <1>5, <1>10
  <2>2. Cardinality(before) = Cardinality(after) + 1
    BY <1>5, <1>10, <2>1, FS_AddElement
  <2> QED
    BY <1>6, <1>7, <1>10, <2>2
<1> QED
  BY <1>8, <1>9, <1>10

\* What the step adds to the traces is what p comes to owe them.
AddsWhatIsOwed(p) ==
  \A e \in Ids : ~Broken(e)' =>
    /\ trace'[e]["lifecycle_start"] + trace[e]["lifecycle_end"] + Owes(p, e)
         = trace'[e]["lifecycle_end"] + trace[e]["lifecycle_start"] + Owes(p, e)'
    /\ trace'[e]["phase_start"] + trace[e]["phase_end"] + Owes(p, e)
         = trace'[e]["phase_end"] + trace[e]["phase_start"] + Owes(p, e)'

\* Such a step keeps the account.
LEMMA AccountKept ==
  ASSUME TypeInv, EnvelopeInv, NEW p \in Procs, OthersStay(p), lost \subseteq lost',
         EnvelopeHeld(p)', trace' \in [Ids -> [EventKinds -> Nat]], AddsWhatIsOwed(p)
  PROVE  EnvelopeInv'
<1>1. ASSUME NEW q \in Procs PROVE EnvelopeHeld(q)'
  <2>1. CASE q = p
    BY <2>1
  <2>2. CASE q # p
    <3>1. EnvelopeHeld(q)
      BY DEF EnvelopeInv
    <3> QED
      BY <2>2, <3>1 DEF OthersStay, EnvelopeHeld, Enveloped, Implement
  <2> QED
    BY <2>1, <2>2
<1>2. ASSUME NEW e \in Ids, ~Broken(e)' PROVE Owed(e)'
  <2>1. ~Broken(e)
    BY <1>2 DEF Broken
  <2>2. Owed(e)
    BY <2>1 DEF EnvelopeInv
  <2>3. /\ Cardinality(Inside(e)) \in Nat /\ Cardinality(Inside(e))' \in Nat
        /\ Cardinality(Inside(e))' + Owes(p, e) = Cardinality(Inside(e)) + Owes(p, e)'
    BY InsideCounts
  <2>4. \A k \in EventKinds : trace[e][k] \in Nat /\ trace'[e][k] \in Nat
    BY DEF TypeInv, TypeOK
  <2>5. Owes(p, e) \in Nat /\ Owes(p, e)' \in Nat
    BY DEF Owes
  <2>6. trace'[e]["lifecycle_start"] = trace'[e]["lifecycle_end"] + Cardinality(Inside(e))'
    <3>1. trace[e]["lifecycle_start"] = trace[e]["lifecycle_end"] + Cardinality(Inside(e))
      BY <2>2 DEF Owed
    <3>2. /\ trace[e]["lifecycle_start"] \in Nat /\ trace'[e]["lifecycle_start"] \in Nat
          /\ trace[e]["lifecycle_end"] \in Nat /\ trace'[e]["lifecycle_end"] \in Nat
      BY <2>4 DEF EventKinds
    <3>3. trace'[e]["lifecycle_start"] + trace[e]["lifecycle_end"] + Owes(p, e)
            = trace'[e]["lifecycle_end"] + trace[e]["lifecycle_start"] + Owes(p, e)'
      BY <1>2 DEF AddsWhatIsOwed
    <3> QED
      BY ONLY <2>3, <2>5, <3>1, <3>2, <3>3
  <2>7. trace'[e]["phase_start"] = trace'[e]["phase_end"] + Cardinality(Inside(e))'
    <3>1. trace[e]["phase_start"] = trace[e]["phase_end"] + Cardinality(Inside(e))
      BY <2>2 DEF Owed
    <3>2. /\ trace[e]["phase_start"] \in Nat /\ trace'[e]["phase_start"] \in Nat
          /\ trace[e]["phase_end"] \in Nat /\ trace'[e]["phase_end"] \in Nat
      BY <2>4 DEF EventKinds
    <3>3. trace'[e]["phase_start"] + trace[e]["phase_end"] + Owes(p, e)
            = trace'[e]["phase_end"] + trace[e]["phase_start"] + Owes(p, e)'
      BY <1>2 DEF AddsWhatIsOwed
    <3> QED
      BY ONLY <2>3, <2>5, <3>1, <3>2, <3>3
  <2> QED
    BY <2>6, <2>7 DEF Owed
<1> QED
  BY <1>1, <1>2 DEF EnvelopeInv

\* Which delegation, and whether it has a sink, as far as p is inside an envelope.
StaysWith(p) ==
  Enveloped(p)' => call'[p].id = call[p].id /\ call'[p].logged = call[p].logged

\* A step that emits nothing and leaves p where it was, inside or outside.
LEMMA EventlessStep ==
  ASSUME TypeInv, EnvelopeInv, NEW p \in Procs, OthersStay(p), lost \subseteq lost',
         EnvelopeHeld(p)', UNCHANGED trace, StaysWith(p),
         Enveloped(p)' <=> Enveloped(p)
  PROVE  EnvelopeInv'
<1>1. \A e \in Ids : Owes(p, e)' = Owes(p, e)
  BY DEF Owes, Inside, StaysWith
<1>2. trace \in [Ids -> [EventKinds -> Nat]]
  BY DEF TypeInv, TypeOK
<1>3. \A e \in Ids : Owes(p, e) \in Nat
  BY DEF Owes
<1>4. ASSUME NEW e \in Ids, NEW k \in EventKinds, NEW l \in EventKinds
      PROVE  trace'[e][k] + trace[e][l] + Owes(p, e) = trace'[e][l] + trace[e][k] + Owes(p, e)'
  BY <1>1, <1>2, <1>3
<1>5. trace' \in [Ids -> [EventKinds -> Nat]]
  BY <1>2
<1>6. \A e \in Ids :
        /\ trace'[e]["lifecycle_start"] + trace[e]["lifecycle_end"] + Owes(p, e)
             = trace'[e]["lifecycle_end"] + trace[e]["lifecycle_start"] + Owes(p, e)'
        /\ trace'[e]["phase_start"] + trace[e]["phase_end"] + Owes(p, e)
             = trace'[e]["phase_end"] + trace[e]["phase_start"] + Owes(p, e)'
  BY <1>4 DEF EventKinds
<1>7. AddsWhatIsOwed(p)
  BY <1>6 DEF AddsWhatIsOwed
<1> QED
  BY <1>5, <1>7, AccountKept

\* A step whose events are the ends and the starts its move asks for.
LEMMA EmittingStep ==
  ASSUME TypeInv, EnvelopeInv, NEW p \in Procs, OthersStay(p), lost \subseteq lost',
         EnvelopeHeld(p)', StaysWith(p), call[p].id \in Ids, NEW kinds, Emit(p, kinds),
         "lifecycle_start" \in kinds <=> (~Enveloped(p) /\ Enveloped(p)'),
         "lifecycle_end" \in kinds <=> (Enveloped(p) /\ ~Enveloped(p)'),
         (Enveloped(p)' <=> Enveloped(p)) =>
           ("phase_start" \in kinds <=> "phase_end" \in kinds),
         ~(Enveloped(p)' <=> Enveloped(p)) =>
           /\ "phase_start" \in kinds <=> ~Enveloped(p)
           /\ "phase_end" \in kinds <=> Enveloped(p)
  PROVE  EnvelopeInv'
<1>1. /\ trace' \in [Ids -> [EventKinds -> Nat]]
      /\ trace \in [Ids -> [EventKinds -> Nat]]
  BY EmitType DEF TypeInv, TypeOK
<1>2. \A e \in Ids, k \in EventKinds :
        trace'[e][k] = trace[e][k]
          + (IF call[p].logged /\ e = call[p].id /\ k \in kinds THEN 1 ELSE 0)
  BY EmitCounts
<1> DEFINE here(e) == call[p].logged /\ e = call[p].id
<1>3. \A e \in Ids : /\ Owes(p, e) = IF Enveloped(p) /\ here(e) THEN 1 ELSE 0
                     /\ Owes(p, e)' = IF Enveloped(p)' /\ here(e) THEN 1 ELSE 0
  BY DEF Owes, Inside, StaysWith
<1>4. ASSUME NEW e \in Ids
      PROVE  trace'[e]["lifecycle_start"] + trace[e]["lifecycle_end"] + Owes(p, e)
               = trace'[e]["lifecycle_end"] + trace[e]["lifecycle_start"] + Owes(p, e)'
  <2>1. trace[e]["lifecycle_start"] \in Nat /\ trace[e]["lifecycle_end"] \in Nat
    BY <1>1 DEF EventKinds
  <2>2. /\ trace'[e]["lifecycle_start"] = trace[e]["lifecycle_start"]
             + (IF here(e) /\ ~Enveloped(p) /\ Enveloped(p)' THEN 1 ELSE 0)
        /\ trace'[e]["lifecycle_end"] = trace[e]["lifecycle_end"]
             + (IF here(e) /\ Enveloped(p) /\ ~Enveloped(p)' THEN 1 ELSE 0)
    BY <1>2 DEF EventKinds
  <2> HIDE DEF here
  <2> QED
    BY <1>3, <2>1, <2>2
<1>5. ASSUME NEW e \in Ids
      PROVE  trace'[e]["phase_start"] + trace[e]["phase_end"] + Owes(p, e)
               = trace'[e]["phase_end"] + trace[e]["phase_start"] + Owes(p, e)'
  <2>1. trace[e]["phase_start"] \in Nat /\ trace[e]["phase_end"] \in Nat
    BY <1>1 DEF EventKinds
  <2>2. /\ trace'[e]["phase_start"] = trace[e]["phase_start"]
             + (IF here(e) /\ "phase_start" \in kinds THEN 1 ELSE 0)
        /\ trace'[e]["phase_end"] = trace[e]["phase_end"]
             + (IF here(e) /\ "phase_end" \in kinds THEN 1 ELSE 0)
    BY <1>2 DEF EventKinds
  <2> HIDE DEF here
  <2> QED
    BY <1>3, <2>1, <2>2
<1> QED
  BY <1>1, <1>4, <1>5, AccountKept DEF AddsWhatIsOwed

\* A step within a call that leaves the envelope as it is.
SameEnvelope(p) ==
  /\ agent'[p].open = agent[p].open
  /\ agent'[p].closed = agent[p].closed /\ agent'[p].started = agent[p].started

SteadyMove(p) ==
  /\ OthersStay(p) /\ SameCall(p) /\ UNCHANGED lost
  /\ pc[p] # "idle" /\ pc'[p] # "idle"
  /\ Implement(p) =>
       /\ pc'[p] \in EnvelopeLabels <=> pc[p] \in EnvelopeLabels
       /\ pc'[p] \in ClosedLabels => pc[p] \in ClosedLabels

LEMMA SteadyHeld ==
  ASSUME EnvelopeInv, NEW p \in Procs, SteadyMove(p)
  PROVE  /\ Enveloped(p)' <=> Enveloped(p)
         /\ StaysWith(p)
         /\ SameEnvelope(p) => EnvelopeHeld(p)'
<1>1. /\ call'[p].kind = call[p].kind /\ call'[p].mode = call[p].mode
      /\ call'[p].id = call[p].id /\ call'[p].logged = call[p].logged
  BY DEF SteadyMove, SameCall
<1>2. Implement(p)' <=> Implement(p)
  BY <1>1 DEF Implement
<1>3. Enveloped(p)' <=> Enveloped(p)
  BY <1>1, <1>2 DEF Enveloped, SteadyMove
<1>4. StaysWith(p)
  BY <1>1 DEF StaysWith
<1>5. ASSUME SameEnvelope(p) PROVE EnvelopeHeld(p)'
  <2>1. EnvelopeHeld(p)
    BY DEF EnvelopeInv
  <2>2. Implement(p)' /\ pc'[p] \in ClosedLabels => pc[p] \in ClosedLabels
    BY <1>2 DEF SteadyMove
  <2> QED
    BY <1>1, <1>2, <1>3, <1>5, <2>1, <2>2 DEF EnvelopeHeld, SameEnvelope
<1> QED
  BY <1>3, <1>4, <1>5

LEMMA SteadyQuiet ==
  ASSUME TypeInv, EnvelopeInv, NEW p \in Procs, SteadyMove(p), SameEnvelope(p),
         UNCHANGED trace
  PROVE  EnvelopeInv'
<1>1. OthersStay(p) /\ lost \subseteq lost'
  BY DEF SteadyMove
<1> QED
  BY <1>1, SteadyHeld, EventlessStep

LEMMA SteadyEmit ==
  ASSUME TypeInv, EnvelopeInv, NEW p \in Procs, SteadyMove(p), EnvelopeHeld(p)',
         NEW kinds, Emit(p, kinds),
         "lifecycle_start" \notin kinds, "lifecycle_end" \notin kinds,
         "phase_start" \in kinds <=> "phase_end" \in kinds
  PROVE  EnvelopeInv'
<1>1. OthersStay(p) /\ lost \subseteq lost'
  BY DEF SteadyMove
<1>2. call[p].id \in Ids
  BY DEF SteadyMove, TypeInv, CallKinds
<1>3. (Enveloped(p)' <=> Enveloped(p)) /\ StaysWith(p)
  BY SteadyHeld
<1> QED
  BY <1>1, <1>2, <1>3, EmittingStep

\* A call that is over is in no envelope.
LEMMA OverHeld ==
  ASSUME NEW p \in Procs, pc'[p] = "idle"
  PROVE  /\ ~Enveloped(p)' /\ StaysWith(p)
         /\ agent'[p].open = {} => EnvelopeHeld(p)'
  BY DEF Enveloped, EnvelopeLabels, StaysWith, EnvelopeHeld, ClosedLabels

\* The end of a call that left its envelope before, or never had one.
LEMMA OverQuietly ==
  ASSUME TypeInv, EnvelopeInv, NEW p \in Procs, OthersStay(p), lost \subseteq lost',
         ~Enveloped(p), pc'[p] = "idle", UNCHANGED <<agent, trace>>
  PROVE  EnvelopeInv'
<1>1. agent'[p].open = {}
  BY DEF EnvelopeInv, EnvelopeHeld
<1> QED
  BY <1>1, OverHeld, EventlessStep

\* Closing the envelope of an implement call ends the phase in progress, too.
LEMMA ClosingStep ==
  ASSUME TypeInv, EnvelopeInv, NEW p \in Procs, OthersStay(p), UNCHANGED lost,
         Implement(p), pc[p] \in EnvelopeLabels, CloseLifecycleOnce(p),
         pc'[p] \in {"idle", "recording"}, pc'[p] = "recording" => SameCall(p)
  PROVE  EnvelopeInv'
<1>1. Enveloped(p) /\ call[p].id \in Ids
  BY DEF Implement, Enveloped, EnvelopeLabels, TypeInv, CallKinds
<1>2. ~agent[p].closed /\ agent[p].open # {}
  BY <1>1 DEF EnvelopeInv, EnvelopeHeld
<1> DEFINE kinds == EndLifecycleEvent(agent[p]) \cup
                      (IF agent[p].open = {} THEN {} ELSE {"phase_end"})
<1>3. SetAgent(p, [EndLifecycle(agent[p]) EXCEPT !.open = {}]) /\ Emit(p, kinds)
  BY <1>2 DEF CloseLifecycleOnce
<1>4. kinds = {"lifecycle_end", "phase_end"}
  BY <1>2 DEF EndLifecycleEvent
<1>5. agent'[p].open = {} /\ agent'[p].closed
  <2>1. agent \in [Procs -> AgentType(Ids)]
    BY DEF TypeInv, TypeOK
  <2> QED
    BY <1>3, <2>1 DEF SetAgent, EndLifecycle, AgentType
<1> HIDE DEF kinds
<1>6. ~Enveloped(p)'
  <2>1. CASE pc'[p] = "idle"
    BY <2>1, OverHeld
  <2>2. CASE pc'[p] = "recording"
    <3>1. call'[p].kind = "delegate"
      BY <2>2 DEF SameCall, Implement
    <3> QED
      BY <2>2, <3>1 DEF Enveloped, EnvelopeLabels
  <2> QED
    BY <2>1, <2>2
<1>7. EnvelopeHeld(p)' /\ StaysWith(p)
  BY <1>5, <1>6 DEF EnvelopeHeld, StaysWith
<1> QED
  BY <1>1, <1>3, <1>4, <1>6, <1>7, EmittingStep

LEMMA OpenSteps ==
  ASSUME TypeInv, EnvelopeInv, NEW p \in Procs, OpenEnvelope(p)
  PROVE  EnvelopeInv'
<1>0. /\ pc[p] = "armed" /\ call[p].id \in Ids /\ call[p].kind = "delegate"
      /\ agent \in [Procs -> AgentType(Ids)] /\ pc \in [Procs -> Labels]
  BY DEF OpenEnvelope, At, TypeInv, TypeOK, CallKinds, OwnLabels
<1>1. SameCall(p) /\ OthersStay(p) /\ UNCHANGED lost /\ pc'[p] = "preloop"
  <2>1. Preloop(p)
    BY DEF Preloop
  <2>2. SameCall(p) /\ OthersStay(p) /\ UNCHANGED lost
    BY <2>1, WithinCall
  <2> QED
    BY <1>0, <2>2 DEF OpenEnvelope, Goto
<1>2. CASE ~Implement(p)
  <2>1. UNCHANGED <<agent, trace>>
    BY <1>2 DEF OpenEnvelope
  <2> QED
    BY <1>0, <1>1, <1>2, <2>1, SteadyQuiet DEF SteadyMove, SameEnvelope
<1>3. CASE Implement(p)
  <2> DEFINE got == GetOrCreate(p)
             a == StartLifecycle(BeginDelegation(got, call[p].id, MaxTurns))
             kinds == {"lifecycle_start"} \cup PhaseEvent(a, "phase_start")
                        \cup (IF call[p].from # 0 THEN {"resumed"} ELSE {})
  <2>1. SetAgent(p, StartPhase(a, "preloop")) /\ Emit(p, kinds)
    BY <1>3 DEF OpenEnvelope
  <2>2. ~Enveloped(p)
    BY <1>0 DEF Enveloped, EnvelopeLabels
  <2>3. got.open = {} /\ got \in AgentType(Ids)
    <3>1. agent[p].open = {}
      BY <2>2 DEF EnvelopeInv, EnvelopeHeld
    <3> QED
      BY <3>1, GetOrCreateType DEF GetOrCreate, NewAgent, RehydrateFrom, TypeInv
  <2> HIDE DEF got
  <2>4. ~a.closed /\ a.started /\ a.open = {} /\ a \in AgentType(Ids)
    <3>1. ~a.closed /\ a.started /\ a.open = {}
      BY <2>3 DEF StartLifecycle, BeginDelegation, ResetLifecycle, AgentType
    <3>2. BeginDelegation(got, call[p].id, MaxTurns) \in AgentType(Ids)
      BY <1>0, <2>3, AgentMethodTypes, BoundsAssumption DEF Phases, Decisions
    <3>3. a \in AgentType(Ids)
      BY <3>2 DEF StartLifecycle, AgentType
    <3> QED
      BY <3>1, <3>3
  <2>5. kinds = {"lifecycle_start", "phase_start"}
                  \cup (IF call[p].from # 0 THEN {"resumed"} ELSE {})
    BY <2>4 DEF PhaseEvent
  <2> HIDE DEF a, kinds
  <2>6. ~agent'[p].closed /\ agent'[p].started /\ agent'[p].open = {"preloop"}
    BY <1>0, <2>1, <2>4 DEF SetAgent, StartPhase, AgentType
  <2>7. Implement(p)' /\ Enveloped(p)'
    BY <1>1, <1>3 DEF SameCall, Implement, Enveloped, EnvelopeLabels, Labels
  <2>8. EnvelopeHeld(p)' /\ StaysWith(p)
    BY <1>1, <2>6, <2>7 DEF EnvelopeHeld, ClosedLabels, Implement, StaysWith, SameCall
  <2> QED
    BY <1>0, <1>1, <2>1, <2>2, <2>5, <2>7, <2>8, EmittingStep
<1> QED
  BY <1>2, <1>3

LEMMA LoopSteps ==
  ASSUME TypeInv, EnvelopeInv, NEW p \in Procs, NEW pkg \in BOOLEAN, EnterLoop(p, pkg)
  PROVE  EnvelopeInv'
<1>0. /\ pc[p] = "preloop" /\ call[p].id \in Ids
      /\ agent \in [Procs -> AgentType(Ids)] /\ pc \in [Procs -> Labels]
  BY DEF EnterLoop, At, TypeInv, TypeOK, CallKinds, OwnLabels
<1>1. SameCall(p) /\ OthersStay(p) /\ UNCHANGED lost /\ Goto(p, "executing")
  <2>1. Preloop(p)
    BY DEF Preloop
  <2> QED
    BY <2>1, WithinCall DEF EnterLoop
<1>2. SteadyMove(p)
  <2>1. pc'[p] = "executing"
    BY <1>0, <1>1 DEF Goto
  <2> QED
    BY <1>0, <1>1, <2>1 DEF SteadyMove, EnvelopeLabels, ClosedLabels, Labels
<1> DEFINE moved == IF Implement(p)
                      THEN StartPhase(EndPhase(agent[p], "preloop"), "loop")
                      ELSE GetOrCreate(p)
           begun == BeginDelegation(moved, call[p].id, MaxTurns)
           a == BeginTurn(Begin(begun, projectState))
           phases == IF Implement(p)
                       THEN PhaseEvent(agent[p], "phase_end") \cup
                            PhaseEvent(agent[p], "phase_start")
                       ELSE {}
           kinds == phases \cup BeginEvents(begun) \cup {"turn_start"}
<1>3. SetAgent(p, a) /\ Emit(p, kinds)
  BY DEF EnterLoop
<1>4. agent'[p] = a
  BY <1>0, <1>3 DEF SetAgent
<1>5. CASE Implement(p)
  <2>1. Enveloped(p)
    BY <1>0, <1>5 DEF Enveloped, Implement, EnvelopeLabels, Labels
  <2>2. ~agent[p].closed /\ agent[p].started
    BY <2>1 DEF EnvelopeInv, EnvelopeHeld
  <2>3. /\ ~moved.closed /\ moved.started /\ "loop" \in moved.open
        /\ moved \in AgentType(Ids)
    <3>1. agent[p] \in AgentType(Ids)
      BY <1>0
    <3>2. /\ EndPhase(agent[p], "preloop") \in AgentType(Ids)
          /\ EndPhase(agent[p], "preloop").closed = agent[p].closed
          /\ EndPhase(agent[p], "preloop").started = agent[p].started
      BY <3>1 DEF EndPhase, AgentType
    <3> QED
      BY <1>5, <2>2, <3>2 DEF StartPhase, AgentType, Phases
  <2>4. kinds = {"phase_end", "phase_start", "turn_start"} \cup BeginEvents(begun)
    BY <1>5, <2>2 DEF PhaseEvent
  <2> HIDE DEF moved, kinds
  <2>5. ~a.closed /\ a.started /\ "loop" \in a.open
    BY <2>3 DEF BeginDelegation, ResetLifecycle, Begin, BeginTurn, AgentType
  <2>6. EnvelopeHeld(p)'
    <3>1. Implement(p)' /\ pc'[p] = "executing"
      BY <1>0, <1>1, <1>5 DEF SameCall, Implement, Goto
    <3> HIDE DEF a
    <3> QED
      BY <1>4, <2>1, <2>5, <3>1, <1>2, SteadyHeld DEF EnvelopeHeld, ClosedLabels, Implement
  <2>7. /\ "lifecycle_start" \notin kinds /\ "lifecycle_end" \notin kinds
        /\ "phase_start" \in kinds /\ "phase_end" \in kinds
    BY <2>4 DEF BeginEvents
  <2> QED
    BY <1>2, <1>3, <2>6, <2>7, SteadyEmit
<1>6. CASE ~Implement(p)
  <2>1. ~Enveloped(p)
    BY <1>0, <1>6 DEF Enveloped, TypeInv, CallKinds, OwnLabels
  <2>2. moved.open = {} /\ moved \in AgentType(Ids)
    <3>1. agent[p].open = {}
      BY <2>1 DEF EnvelopeInv, EnvelopeHeld
    <3> QED
      BY <1>6, <3>1, GetOrCreateType DEF GetOrCreate, NewAgent, RehydrateFrom, TypeInv
  <2>3. kinds = BeginEvents(begun) \cup {"turn_start"}
    BY <1>6
  <2> HIDE DEF moved, kinds
  <2>4. a.open = {}
    BY <2>2 DEF BeginDelegation, ResetLifecycle, Begin, BeginTurn, AgentType
  <2>5. EnvelopeHeld(p)'
    <3>1. ~Implement(p)' /\ ~Enveloped(p)'
      BY <1>1, <1>2, <1>6, <2>1, SteadyHeld DEF SameCall, Implement
    <3> QED
      BY <1>4, <2>4, <3>1 DEF EnvelopeHeld
  <2>6. /\ "lifecycle_start" \notin kinds /\ "lifecycle_end" \notin kinds
        /\ "phase_start" \notin kinds /\ "phase_end" \notin kinds
    BY <2>3 DEF BeginEvents
  <2> QED
    BY <1>2, <1>3, <2>5, <2>6, SteadyEmit
<1> QED
  BY <1>5, <1>6

LEMMA PostloopSteps ==
  ASSUME TypeInv, EnvelopeInv, NEW p \in Procs, StartPostloop(p)
  PROVE  EnvelopeInv'
<1>0. /\ pc[p] = "looped" /\ call[p].id \in Ids
      /\ agent \in [Procs -> AgentType(Ids)] /\ pc \in [Procs -> Labels]
  BY DEF StartPostloop, At, TypeInv, TypeOK, CallKinds, OwnLabels
<1>1. SameCall(p) /\ OthersStay(p) /\ UNCHANGED lost /\ pc'[p] = "postloop"
  <2>1. SameCall(p) /\ OthersStay(p) /\ UNCHANGED lost
    BY WithinCall
  <2> QED
    BY <1>0, <2>1 DEF StartPostloop, Goto
<1>2. SteadyMove(p)
  BY <1>0, <1>1 DEF SteadyMove, EnvelopeLabels, ClosedLabels, Labels
<1>3. CASE ~Implement(p)
  <2>1. UNCHANGED <<agent, trace>>
    BY <1>3 DEF StartPostloop
  <2> QED
    BY <1>2, <2>1, SteadyQuiet DEF SameEnvelope
<1>4. CASE Implement(p)
  <2> DEFINE a == StartPhase(EndPhase(agent[p], "loop"), "postloop")
             kinds == PhaseEvent(agent[p], "phase_end") \cup
                        PhaseEvent(agent[p], "phase_start")
  <2>1. SetAgent(p, a) /\ Emit(p, kinds)
    BY <1>4 DEF StartPostloop
  <2>2. Enveloped(p)
    BY <1>0, <1>4 DEF Enveloped, Implement, EnvelopeLabels, Labels
  <2>3. ~agent[p].closed /\ agent[p].started
    BY <2>2 DEF EnvelopeInv, EnvelopeHeld
  <2>4. ~a.closed /\ a.started /\ "postloop" \in a.open
    <3>1. agent[p] \in AgentType(Ids)
      BY <1>0
    <3>2. /\ EndPhase(agent[p], "loop") \in AgentType(Ids)
          /\ EndPhase(agent[p], "loop").closed = agent[p].closed
          /\ EndPhase(agent[p], "loop").started = agent[p].started
      BY <3>1 DEF EndPhase, AgentType
    <3> QED
      BY <2>3, <3>2 DEF StartPhase, AgentType, Phases
  <2>5. kinds = {"phase_end", "phase_start"}
    BY <2>3 DEF PhaseEvent
  <2> HIDE DEF a, kinds
  <2>6. agent'[p] = a
    BY <1>0, <2>1 DEF SetAgent
  <2>7. EnvelopeHeld(p)'
    <3>1. Implement(p)'
      BY <1>1, <1>4 DEF SameCall, Implement
    <3> QED
      BY <1>1, <1>2, <2>2, <2>4, <2>6, <3>1, SteadyHeld
         DEF EnvelopeHeld, ClosedLabels, Implement
  <2> QED
    BY <1>2, <2>1, <2>5, <2>7, SteadyEmit
<1> QED
  BY <1>3, <1>4

LEMMA ResumeOpens ==
  ASSUME TypeInv, EnvelopeInv, NEW p \in Procs, RouteResume(p)
  PROVE  EnvelopeInv'
<1>0. /\ pc[p] = "routing" /\ call[p].kind = "delegate"
      /\ pc \in [Procs -> Labels] /\ call \in [Procs -> CallType]
      /\ agent \in [Procs -> AgentType(Ids)] /\ trace \in [Ids -> [EventKinds -> Nat]]
  BY DEF RouteResume, At, TypeInv, TypeOK, CallKinds, OwnLabels
<1>1. OthersStay(p) /\ UNCHANGED lost
  BY CallsApart DEF RouteResume, clockVars
<1>2. call[p].seen \in Pauses /\ call[p].seen.ref \in Ids
  <2>1. call[p].seen \in Pauses \cup {NoPause} /\ call[p].seen # NoPause
    BY <1>0 DEF CallType, RouteResume, Escalation, NoPause
  <2> QED
    BY <2>1 DEF Pauses
<1>d. PICK d \in Ids : d = call[p].seen.ref
  BY <1>2
<1>3. /\ call'[p].kind = "resume" /\ call'[p].id = d /\ call'[p].logged = HasRecord(d)
      /\ pc'[p] = "resuming"
  <2>1. call' = [call EXCEPT ![p] =
                  [NoCall EXCEPT !.id = d, !.kind = "resume",
                                 !.from = call[p].seen.tok, !.logged = HasRecord(d)]]
    BY <1>d DEF RouteResume
  <2>2. pc'[p] = "resuming"
    BY <1>0 DEF RouteResume, Goto
  <2> QED
    BY <1>0, <2>1, <2>2 DEF NoCall
<1>4. agent'[p].open = {"loop"} /\ ~agent'[p].closed /\ agent'[p].started
  <2> DEFINE a == BeginTurn(Begin(ResumedAgent(call[p].seen, projectState), projectState))
  <2>1. agent'[p] = a
    BY <1>0 DEF RouteResume, SetAgent
  <2>2. a.open = {"loop"} /\ ~a.closed /\ a.started
    BY DEF BeginTurn, Begin, ResumedAgent, NewAgent
  <2> QED
    BY <2>1, <2>2
<1>5. ~Enveloped(p) /\ Enveloped(p)'
  BY <1>0, <1>3 DEF Enveloped, EnvelopeLabels
<1>6. EnvelopeHeld(p)'
  BY <1>3, <1>4, <1>5 DEF EnvelopeHeld, ClosedLabels
<1>7. \A e \in Ids : /\ Owes(p, e) = 0
                     /\ Owes(p, e)' = IF HasRecord(d) /\ e = d THEN 1 ELSE 0
  BY <1>3, <1>5 DEF Owes, Inside
<1>8. CASE ~HasRecord(d)
  <2>1. UNCHANGED trace
    BY <1>8, <1>d DEF RouteResume
  <2>2. \A e \in Ids, k \in EventKinds : trace[e][k] \in Nat
    BY <1>0
  <2>3. \A e \in Ids : Owes(p, e) = 0 /\ Owes(p, e)' = 0
    BY <1>7, <1>8
  <2>4. AddsWhatIsOwed(p)
    BY <2>1, <2>2, <2>3 DEF AddsWhatIsOwed, EventKinds
  <2>5. trace' \in [Ids -> [EventKinds -> Nat]]
    BY <1>0, <2>1
  <2> QED
    BY <1>1, <1>6, <2>4, <2>5, AccountKept
<1>9. CASE HasRecord(d)
  <2> DEFINE kinds == {"lifecycle_start", "phase_start", "resumed", "turn_start"}
                        \cup BeginEvents(ResumedAgent(call[p].seen, projectState))
             more == [k \in EventKinds |-> trace[d][k] + (IF k \in kinds THEN 1 ELSE 0)]
  <2>1. trace' = [trace EXCEPT ![d] = more]
    BY <1>9, <1>d DEF RouteResume
  <2>2. /\ "lifecycle_start" \in kinds /\ "phase_start" \in kinds
        /\ "lifecycle_end" \notin kinds /\ "phase_end" \notin kinds
    BY DEF BeginEvents
  <2> HIDE DEF kinds
  <2>3. \A k \in EventKinds : more[k] = trace[d][k] + (IF k \in kinds THEN 1 ELSE 0)
    OBVIOUS
  <2>4. more \in [EventKinds -> Nat]
    BY <1>0
  <2> HIDE DEF more
  <2>5. /\ trace'[d] = more /\ \A e \in Ids \ {d} : trace'[e] = trace[e]
        /\ trace' \in [Ids -> [EventKinds -> Nat]]
    BY <1>0, <2>1, <2>4
  <2>6. \A e \in Ids, k \in EventKinds :
          /\ trace[e][k] \in Nat
          /\ trace'[e][k] = trace[e][k] + (IF e = d /\ k \in kinds THEN 1 ELSE 0)
    BY <1>0, <2>3, <2>5
  <2>7. ASSUME NEW e \in Ids
        PROVE  /\ trace'[e]["lifecycle_start"] + trace[e]["lifecycle_end"] + Owes(p, e)
                    = trace'[e]["lifecycle_end"] + trace[e]["lifecycle_start"] + Owes(p, e)'
               /\ trace'[e]["phase_start"] + trace[e]["phase_end"] + Owes(p, e)
                    = trace'[e]["phase_end"] + trace[e]["phase_start"] + Owes(p, e)'
    <3> DEFINE one == IF e = d THEN 1 ELSE 0
    <3>1. one \in Nat /\ Owes(p, e) = 0 /\ Owes(p, e)' = one
      BY <1>7, <1>9
    <3>2. /\ trace'[e]["lifecycle_start"] = trace[e]["lifecycle_start"] + one
          /\ trace'[e]["lifecycle_end"] = trace[e]["lifecycle_end"]
          /\ trace'[e]["phase_start"] = trace[e]["phase_start"] + one
          /\ trace'[e]["phase_end"] = trace[e]["phase_end"]
      BY <2>2, <2>6 DEF EventKinds
    <3>3. /\ trace[e]["lifecycle_start"] \in Nat /\ trace[e]["lifecycle_end"] \in Nat
          /\ trace[e]["phase_start"] \in Nat /\ trace[e]["phase_end"] \in Nat
      BY <2>6 DEF EventKinds
    <3> HIDE DEF one
    <3> QED
      BY ONLY <3>1, <3>2, <3>3
  <2>8. AddsWhatIsOwed(p)
    BY <2>7 DEF AddsWhatIsOwed
  <2> QED
    BY <1>1, <1>6, <2>5, <2>8, AccountKept
<1> QED
  BY <1>8, <1>9

LEMMA ResumeCloses ==
  ASSUME TypeInv, EnvelopeInv, NEW p \in Procs, CloseResume(p) \/ ResumeRaises(p)
  PROVE  EnvelopeInv'
<1>0. /\ agent \in [Procs -> AgentType(Ids)] /\ pc \in [Procs -> Labels]
      /\ pc[p] # "idle" /\ call[p].kind = "resume" /\ call[p].id \in Ids
  <2>1. pc[p] # "idle"
    BY DEF CloseResume, ResumeRaises, MayRaise, At
  <2>2. call[p].kind = "resume"
    BY DEF CloseResume, ResumeRaises, At, TypeInv, CallKinds, ResumeLabels
  <2> QED
    BY <2>1, <2>2 DEF TypeInv, TypeOK, CallKinds
<1>1. OthersStay(p) /\ UNCHANGED lost
  BY CallsApart DEF CloseResume, ResumeRaises, clockVars
<1>2. pc'[p] = "idle"
  BY <1>0 DEF CloseResume, ResumeRaises, Finished, Goto
<1>3. Enveloped(p)
  BY <1>0 DEF Enveloped
<1>4. ~agent[p].closed /\ agent[p].open = {"loop"}
  BY <1>0, <1>3 DEF EnvelopeInv, EnvelopeHeld
<1>5. /\ "lifecycle_start" \notin EndLoopEvents(agent[p])
      /\ "lifecycle_end" \notin EndLoopEvents(agent[p])
      /\ "phase_start" \notin EndLoopEvents(agent[p])
      /\ "phase_end" \notin EndLoopEvents(agent[p])
  BY DEF EndLoopEvents
<1>6. \E kinds :
        /\ Emit(p, kinds)
        /\ "lifecycle_start" \notin kinds /\ "lifecycle_end" \in kinds
        /\ "phase_start" \notin kinds /\ "phase_end" \in kinds
  <2>1. PhaseEvent(agent[p], "phase_end") = {"phase_end"}
    BY <1>4 DEF PhaseEvent
  <2>2. EndLifecycleEvent(agent[p]) = {"lifecycle_end"}
    BY <1>4 DEF EndLifecycleEvent
  <2>3. CASE CloseResume(p)
    <3>1. Emit(p, PhaseEvent(agent[p], "phase_end") \cup EndLifecycleEvent(agent[p]))
      BY <2>3 DEF CloseResume
    <3>2. Emit(p, {"phase_end"} \cup {"lifecycle_end"})
      BY <2>1, <2>2, <3>1
    <3> QED
      BY <3>2
  <2>4. CASE ResumeRaises(p)
    <3> DEFINE kinds == EndLoopEvents(agent[p]) \cup {"phase_end"} \cup {"lifecycle_end"}
    <3>1. Emit(p, EndLoopEvents(agent[p]) \cup PhaseEvent(agent[p], "phase_end")
                    \cup EndLifecycleEvent(agent[p]))
      BY <2>4 DEF ResumeRaises
    <3>2. Emit(p, kinds)
      BY <2>1, <2>2, <3>1
    <3>3. /\ "lifecycle_start" \notin kinds /\ "lifecycle_end" \in kinds
          /\ "phase_start" \notin kinds /\ "phase_end" \in kinds
      BY <1>5
    <3> HIDE DEF kinds
    <3> QED
      BY <3>2, <3>3
  <2> QED
    BY <2>3, <2>4
<1>7. agent'[p].open = {}
  <2>1. agent[p] \in AgentType(Ids)
    BY <1>0
  <2>2. CASE CloseResume(p)
    <3>1. agent'[p] = EndLifecycle(EndPhase(agent[p], "loop"))
      BY <1>0, <2>2 DEF CloseResume, SetAgent
    <3> QED
      BY <1>4, <2>1, <3>1 DEF EndLifecycle, EndPhase, AgentType
  <2>3. CASE ResumeRaises(p)
    <3>1. agent'[p] = EndLifecycle(EndPhase(EndLoop(agent[p]), "loop"))
      BY <1>0, <2>3 DEF ResumeRaises, SetAgent
    <3>2. EndLoop(agent[p]).open = {"loop"} /\ ~EndLoop(agent[p]).closed
      BY <1>4, <2>1 DEF EndLoop, AgentType
    <3>3. EndLoop(agent[p]) \in AgentType(Ids)
      BY <2>1 DEF EndLoop, AgentType
    <3> QED
      BY <3>1, <3>2, <3>3 DEF EndLifecycle, EndPhase, AgentType
  <2> QED
    BY <2>2, <2>3
<1>8. ~Enveloped(p)' /\ StaysWith(p) /\ EnvelopeHeld(p)'
  BY <1>2, <1>7, OverHeld
<1>9. PICK kinds :
        /\ Emit(p, kinds)
        /\ "lifecycle_start" \notin kinds /\ "lifecycle_end" \in kinds
        /\ "phase_start" \notin kinds /\ "phase_end" \in kinds
  BY <1>6
<1>10. lost \subseteq lost'
  BY <1>1
<1> QED
  BY <1>0, <1>1, <1>3, <1>8, <1>9, <1>10, EmittingStep

\* A death leaves its ends owed in the traces of lost calls only.
LEMMA CrashBreaks ==
  ASSUME TypeInv, EnvelopeInv, NEW p \in Procs, Crash(p)
  PROVE  EnvelopeInv'
<1>0. /\ pc \in [Procs -> Labels] /\ agent \in [Procs -> AgentType(Ids)]
      /\ trace \in [Ids -> [EventKinds -> Nat]]
  BY DEF TypeInv, TypeOK
<1>1. OthersStay(p) /\ lost \subseteq lost'
  BY CallsApart DEF Crash
<1>2. pc'[p] = "idle" /\ agent'[p].open = {} /\ UNCHANGED trace
  BY <1>0 DEF Crash, Goto, SetAgent, NewAgent, diskVars
<1>3. ~Enveloped(p)' /\ EnvelopeHeld(p)'
  BY <1>2, OverHeld
<1>4. ASSUME NEW e \in Ids, ~Broken(e)' PROVE Owes(p, e) = 0 /\ Owes(p, e)' = 0
  <2>1. pc[p] = "idle" \/ call[p].id # e
    <3>1. ASSUME pc[p] # "idle", call[p].id = e PROVE FALSE
      <4>1. [del |-> call[p].id, kind |-> call[p].kind] \in lost'
        BY <3>1 DEF Crash, At
      <4> QED
        BY <1>4, <3>1, <4>1 DEF Broken
    <3> QED
      BY <3>1
  <2>2. pc[p] = "idle" => ~Enveloped(p)
    BY DEF Enveloped, EnvelopeLabels
  <2>3. p \notin Inside(e)
    BY <2>1, <2>2 DEF Inside
  <2>4. p \notin Inside(e)'
    BY <1>3 DEF Inside
  <2> QED
    BY <2>3, <2>4 DEF Owes
<1>5. AddsWhatIsOwed(p)
  <2>1. \A e \in Ids, k \in EventKinds : trace[e][k] \in Nat
    BY <1>0
  <2> QED
    BY <1>2, <1>4, <2>1 DEF AddsWhatIsOwed, EventKinds
<1>6. trace' \in [Ids -> [EventKinds -> Nat]]
  BY <1>0, <1>2
<1> QED
  BY <1>1, <1>3, <1>5, <1>6, AccountKept

LEMMA ArrivesOutside ==
  ASSUME TypeInv, EnvelopeInv, NEW p \in Procs, NEW mode \in Modes, NEW fresh \in BOOLEAN,
         NEW answer \in BOOLEAN, Arrive(p, mode, fresh, answer)
  PROVE  EnvelopeInv'
<1>0. /\ pc \in [Procs -> Labels] /\ call \in [Procs -> CallType] /\ pc[p] = "idle"
  BY DEF TypeInv, TypeOK, Arrive, At
<1>1. OthersStay(p) /\ lost \subseteq lost'
  BY CallsApart DEF Arrive
<1>2. /\ pc'[p] = "routing" /\ call'[p].kind = "delegate" /\ UNCHANGED <<agent, trace>>
  BY <1>0 DEF Arrive, Goto, NoCall, diskVars
<1>3. ~Enveloped(p) /\ ~Enveloped(p)'
  BY <1>0, <1>2 DEF Enveloped, EnvelopeLabels
<1>4. EnvelopeHeld(p)' /\ StaysWith(p)
  BY <1>2, <1>3 DEF EnvelopeInv, EnvelopeHeld, StaysWith, ClosedLabels
<1> QED
  BY <1>1, <1>2, <1>3, <1>4, EventlessStep

LEMMA EnvelopeStep == TypeInv /\ EnvelopeInv /\ [Next]_vars => EnvelopeInv'
<1> SUFFICES ASSUME TypeInv, EnvelopeInv, [Next]_vars PROVE EnvelopeInv'
  OBVIOUS
<1> USE DEF clockVars, diskVars, procVars
<1>0. pc \in [Procs -> Labels] /\ agent \in [Procs -> AgentType(Ids)]
  BY DEF TypeInv, TypeOK
\* Steps within a call that leave the agent and the trace as they are.
<1>1. ASSUME NEW p \in Procs, OthersStay(p), SameCall(p), UNCHANGED <<lost, agent, trace>>,
             NEW from, NEW label, pc[p] = from, Goto(p, label), from # "idle",
             label # "idle",
             Implement(p) => /\ label \in EnvelopeLabels <=> from \in EnvelopeLabels
                             /\ label \in ClosedLabels => from \in ClosedLabels
      PROVE  EnvelopeInv'
  <2>1. pc'[p] = label
    BY <1>0, <1>1 DEF Goto
  <2>2. SteadyMove(p)
    BY <1>1, <2>1 DEF SteadyMove
  <2>3. SameEnvelope(p)
    BY <1>1 DEF SameEnvelope
  <2> QED
    BY <1>1, <2>2, <2>3, SteadyQuiet
<1>2. ASSUME NEW p \in Procs, RouteFresh(p) \/ RouteClarityReentry(p) PROVE EnvelopeInv'
  <2>1. SameCall(p) /\ OthersStay(p) /\ UNCHANGED lost
    BY <1>2, WithinCall
  <2>2. pc[p] = "routing" /\ Goto(p, "armed") /\ UNCHANGED <<agent, trace>>
    BY <1>2 DEF RouteFresh, RouteClarityReentry, At
  <2> QED
    BY <1>1, <2>1, <2>2 DEF EnvelopeLabels, ClosedLabels
<1>3. ASSUME NEW p \in Procs,
             \/ ReviewTargetsError(p) \/ ClarityBlocks(p) \/ SaveClarityPause(p)
             \/ ClarityPauseNotSaved(p) \/ AppendRecord(p) \/ TouchSession(p)
      PROVE  EnvelopeInv'
  <2>1. SameCall(p) /\ OthersStay(p) /\ UNCHANGED lost
    BY <1>3, WithinCall DEF Preloop
  <2>2. UNCHANGED <<agent, trace>>
    BY <1>3 DEF ReviewTargetsError, ClarityBlocks, SaveClarityPause, ClarityPauseNotSaved,
                AppendRecord, TouchSession
  <2>3. CASE ReviewTargetsError(p)
    <3>1. ~Implement(p) /\ pc[p] = "preloop" /\ Goto(p, "recording")
      BY <2>3 DEF ReviewTargetsError, Implement, At
    <3> QED
      BY <1>1, <2>1, <2>2, <3>1
  <2>4. CASE ClarityBlocks(p) \/ SaveClarityPause(p) \/ ClarityPauseNotSaved(p)
    <3>1. /\ pc[p] \in {"preloop", "clarity"}
          /\ \E label \in {"clarity", "clarityPaused"} : Goto(p, label)
      BY <2>4 DEF ClarityBlocks, SaveClarityPause, ClarityPauseNotSaved, At
    <3> QED
      BY <1>1, <2>1, <2>2, <3>1 DEF EnvelopeLabels, ClosedLabels, Labels
  <2>5. CASE AppendRecord(p) \/ TouchSession(p)
    <3>1. /\ pc[p] \in {"recording", "appended"}
          /\ Goto(p, "appended") \/ Goto(p, "returning")
      BY <2>5 DEF AppendRecord, TouchSession, At
    <3> QED
      BY <1>1, <2>1, <2>2, <3>1 DEF EnvelopeLabels, ClosedLabels
  <2> QED
    BY <1>3, <2>3, <2>4, <2>5
<1>4. ASSUME NEW p \in Procs,
             \/ \E ok \in BOOLEAN : ExecutorReturns(p, ok)
             \/ \E bound \in BOOLEAN : FirstTurnRaises(p, bound)
      PROVE  EnvelopeInv'
  <2>1. SameCall(p) /\ OthersStay(p) /\ UNCHANGED lost
    BY <1>4, WithinCall DEF Loop
  <2>2. pc[p] = "executing" /\ Goto(p, "reviewing") /\ UNCHANGED <<trace, agent>>
    BY <1>4 DEF ExecutorReturns, FirstTurnRaises, At
  <2> QED
    BY <1>1, <2>1, <2>2 DEF EnvelopeLabels, ClosedLabels, Labels
<1>5. ASSUME NEW p \in Procs, PlannerRecords(p) PROVE EnvelopeInv'
  <2>1. SameCall(p) /\ OthersStay(p) /\ UNCHANGED lost
    BY <1>5, WithinCall
  <2>2. pc[p] = "executing" /\ UNCHANGED <<pc, trace>>
    BY <1>5 DEF PlannerRecords, At
  <2>3. agent'[p] = [agent[p] EXCEPT !.known = agent[p].known \cup {call[p].id}]
    BY <1>0, <1>5 DEF PlannerRecords, SetAgent
  <2>4. SameEnvelope(p)
    BY <1>0, <2>3 DEF AgentType, SameEnvelope
  <2>5. SteadyMove(p)
    BY <2>1, <2>2 DEF SteadyMove
  <2> QED
    BY <2>2, <2>4, <2>5, SteadyQuiet
<1>6. ASSUME NEW p \in Procs, RetryRaises(p) \/ SavePause(p) \/ SaveProjectState(p)
      PROVE  EnvelopeInv'
  <2>1. SameCall(p) /\ OthersStay(p) /\ UNCHANGED lost
    BY <1>6, WithinCall DEF Loop
  <2>2. /\ UNCHANGED <<agent, trace>> /\ pc[p] \in {"executing", "pausing", "saving"}
        /\ \E label \in {"pausing", "ending", "checkpointing"} : Goto(p, label)
    BY <1>6 DEF RetryRaises, SavePause, SaveProjectState, Conclude, AfterLoop, At
  <2> QED
    BY <1>1, <2>1, <2>2 DEF EnvelopeLabels, ClosedLabels, Labels
<1>7. ASSUME NEW p \in Procs, SaveCheckpoint(p) \/ CheckpointNotSaved(p)
      PROVE  EnvelopeInv'
  <2>1. SameCall(p) /\ OthersStay(p) /\ UNCHANGED lost
    BY <1>7, WithinCall DEF Loop
  <2>2. pc[p] = "checkpointing" /\ UNCHANGED <<agent, trace>> /\ LeaveLoop(p)
    BY <1>7 DEF SaveCheckpoint, CheckpointNotSaved, At
  <2>3. \/ Goto(p, "looped")
        \/ Goto(p, "resumed") /\ ~Implement(p)
    BY <2>2 DEF LeaveLoop, Implement
  <2>4. Goto(p, "looped") => EnvelopeInv'
    BY <1>1, <2>1, <2>2 DEF EnvelopeLabels, ClosedLabels, Labels
  <2>5. Goto(p, "resumed") /\ ~Implement(p) => EnvelopeInv'
    BY <1>1, <2>1, <2>2
  <2> QED
    BY <2>3, <2>4, <2>5
\* Steps within a call that only tell of turns and of the loop.
<1>8. ASSUME NEW p \in Procs, EndTheLoop(p) PROVE EnvelopeInv'
  <2>1. SameCall(p) /\ OthersStay(p) /\ UNCHANGED lost
    BY <1>8, WithinCall DEF Loop
  <2>2. /\ pc[p] = "ending" /\ pc'[p] = "saving" /\ Emit(p, EndLoopEvents(agent[p]))
        /\ agent'[p] = EndLoop(agent[p])
    BY <1>0, <1>8 DEF EndTheLoop, At, Goto, SetAgent
  <2>3. SteadyMove(p)
    BY <2>1, <2>2 DEF SteadyMove, EnvelopeLabels, ClosedLabels, Labels
  <2>4. SameEnvelope(p)
    BY <1>0, <2>2 DEF SameEnvelope, EndLoop, AgentType
  <2>5. EnvelopeHeld(p)'
    BY <2>3, <2>4, SteadyHeld
  <2> QED
    BY <2>2, <2>3, <2>5, SteadyEmit DEF EndLoopEvents
<1>9. ASSUME NEW p \in Procs, NEW verdict \in ReviewerResults, NEW decision \in Decisions,
             CompleteTheTurn(p, verdict, decision)
      PROVE  EnvelopeInv'
  <2>1. SameCall(p) /\ OthersStay(p) /\ UNCHANGED lost
    BY <1>9, WithinCall DEF Loop
  <2> DEFINE known == IF verdict = "issues" /\ agent[p].cur = 1
                        THEN agent[p].known \cup {call[p].id} ELSE agent[p].known
             seen  == [agent[p] EXCEPT !.known = known,
                         !.reviewer = IF Implement(p) THEN verdict ELSE @]
             a     == CompleteTurn(seen, decision)
             rerun == WantsRerun(p, a, decision)
             kinds == {"turn_end"} \cup (IF rerun THEN {"turn_start"} ELSE {})
  <2>2. /\ pc[p] = "reviewing" /\ Emit(p, kinds)
        /\ agent'[p] = IF rerun THEN BeginTurn(a) ELSE a
        /\ \E label \in {"executing", "pausing", "ending"} : Goto(p, label)
    BY <1>0, <1>9 DEF CompleteTheTurn, At, SetAgent, Conclude, AfterLoop
  <2>3. /\ a.open = agent[p].open /\ a.closed = agent[p].closed
        /\ a.started = agent[p].started
        /\ BeginTurn(a).open = a.open /\ BeginTurn(a).closed = a.closed
        /\ BeginTurn(a).started = a.started
    BY <1>0 DEF CompleteTurn, BeginTurn, AgentType
  <2>4. /\ "lifecycle_start" \notin kinds /\ "lifecycle_end" \notin kinds
        /\ "phase_start" \notin kinds /\ "phase_end" \notin kinds
    OBVIOUS
  <2> HIDE DEF a, rerun, kinds
  <2>5. SameEnvelope(p)
    BY <2>2, <2>3 DEF SameEnvelope
  <2>6. pc'[p] \in {"executing", "pausing", "ending"}
    BY <1>0, <2>2 DEF Goto
  <2>7. SteadyMove(p)
    BY <2>1, <2>2, <2>6 DEF SteadyMove, EnvelopeLabels, ClosedLabels, Labels
  <2>8. EnvelopeHeld(p)'
    BY <2>5, <2>7, SteadyHeld
  <2> QED
    BY <2>2, <2>4, <2>7, <2>8, SteadyEmit
<1>10. ASSUME NEW p \in Procs,
              \/ \E ok \in BOOLEAN, decision \in Decisions : ResumedTurn(p, ok, decision)
              \/ ResumedTurnRaises(p)
       PROVE  EnvelopeInv'
  <2>1. SameCall(p) /\ OthersStay(p) /\ UNCHANGED lost
    BY <1>10, WithinCall
  <2>2. /\ pc[p] = "resuming" /\ Emit(p, {"turn_end"})
        /\ \E label \in {"pausing", "ending"} : Goto(p, label)
    BY <1>10 DEF ResumedTurn, ResumedTurnRaises, Conclude, AfterLoop, At
  <2>3. UNCHANGED agent \/ \E decision : agent'[p] = CompleteTurn(agent[p], decision)
    BY <1>0, <1>10 DEF ResumedTurn, ResumedTurnRaises, SetAgent
  <2>4. SameEnvelope(p)
    BY <1>0, <2>3 DEF SameEnvelope, CompleteTurn, AgentType
  <2>5. ~Implement(p)
    BY <2>2 DEF Implement, TypeInv, CallKinds, ResumeLabels
  <2>6. pc'[p] \in {"pausing", "ending"}
    BY <1>0, <2>2 DEF Goto
  <2>7. SteadyMove(p)
    BY <2>1, <2>2, <2>5, <2>6 DEF SteadyMove
  <2>8. EnvelopeHeld(p)'
    BY <2>4, <2>7, SteadyHeld
  <2> QED
    BY <2>2, <2>7, <2>8, SteadyEmit
\* Steps that end the envelope, and the calls that never had one.
<1>11. ASSUME NEW p \in Procs, InvalidSpec(p) \/ CloseForClarity(p) \/ FinishPostloop(p)
       PROVE  EnvelopeInv'
  <2>1. SameCall(p) /\ OthersStay(p) /\ UNCHANGED lost
    BY <1>11, WithinCall DEF Preloop
  <2>2. /\ pc[p] \in {"preloop", "clarityPaused", "postloop"} /\ Goto(p, "recording")
        /\ CloseLifecycleOnce(p)
    BY <1>11 DEF InvalidSpec, CloseForClarity, FinishPostloop, At
  <2>3. pc'[p] = "recording"
    BY <1>0, <2>2 DEF Goto
  <2>4. Implement(p) => EnvelopeInv'
    BY <2>1, <2>2, <2>3, ClosingStep DEF EnvelopeLabels, Labels
  <2>5. ASSUME ~Implement(p) PROVE EnvelopeInv'
    <3>1. UNCHANGED <<agent, trace>>
      BY <2>2, <2>5 DEF CloseLifecycleOnce
    <3> QED
      BY <1>1, <2>1, <2>2, <2>5, <3>1
  <2> QED
    BY <2>4, <2>5
<1>12. ASSUME NEW p \in Procs, RouteReminder(p) \/ Return(p) PROVE EnvelopeInv'
  <2>1. OthersStay(p) /\ lost \subseteq lost'
    BY <1>12, CallsApart DEF RouteReminder, Return
  <2>2. /\ pc[p] \in {"routing", "returning"} /\ Goto(p, "idle")
        /\ UNCHANGED <<agent, trace>>
    BY <1>12 DEF RouteReminder, Return, Finished, At
  <2>3. pc'[p] = "idle"
    BY <1>0, <2>2 DEF Goto
  <2>4. ~Enveloped(p)
    BY <2>2 DEF Enveloped, EnvelopeLabels, TypeInv, CallKinds, OwnLabels
  <2> QED
    BY <2>1, <2>2, <2>3, <2>4, OverQuietly
<1>13. ASSUME NEW p \in Procs, DelegateRaises(p) PROVE EnvelopeInv'
  <2>1. OthersStay(p) /\ UNCHANGED lost /\ Goto(p, "idle") /\ call[p].kind = "delegate"
    BY <1>13, CallsApart DEF DelegateRaises, Finished
  <2>2. pc'[p] = "idle" /\ lost \subseteq lost'
    BY <1>0, <2>1 DEF Goto
  <2>3. pc[p] \in {"armed", "returning"} => UNCHANGED <<agent, trace>>
    BY <1>13 DEF DelegateRaises
  <2>4. pc[p] \notin {"armed", "returning"} => CloseLifecycleOnce(p)
    BY <1>13 DEF DelegateRaises
  <2>5. pc[p] \in {"armed", "preloop", "pausing", "saving", "postloop", "recording",
                   "appended", "returning", "reviewing"}
    BY <1>13 DEF DelegateRaises, MayRaise, At
  <2>6. CASE Implement(p) /\ pc[p] \in EnvelopeLabels
    <3>1. CloseLifecycleOnce(p)
      BY <2>4, <2>6 DEF EnvelopeLabels
    <3> QED
      BY <2>1, <2>2, <2>6, <3>1, ClosingStep
  <2>7. CASE Implement(p) /\ pc[p] \notin EnvelopeLabels
    <3>1. ~Enveloped(p)
      BY <2>7 DEF Enveloped, Implement
    <3>2. pc[p] \in {"armed", "recording", "appended", "returning"}
      BY <2>5, <2>7 DEF EnvelopeLabels, Labels
    <3>3. pc[p] \in {"recording", "appended"} => agent[p].closed
      BY <2>7 DEF EnvelopeInv, EnvelopeHeld, ClosedLabels
    <3>4. UNCHANGED <<agent, trace>>
      BY <2>3, <2>4, <3>2, <3>3 DEF CloseLifecycleOnce
    <3> QED
      BY <2>1, <2>2, <3>1, <3>4, OverQuietly
  <2>8. CASE ~Implement(p)
    <3>1. ~Enveloped(p)
      BY <2>1, <2>8 DEF Enveloped
    <3>2. UNCHANGED <<agent, trace>>
      BY <2>3, <2>4, <2>8 DEF CloseLifecycleOnce
    <3> QED
      BY <2>1, <2>2, <3>1, <3>2, OverQuietly
  <2> QED
    BY <2>6, <2>7, <2>8
<1>14. ASSUME UNCHANGED vars \/ \E f \in files : Expire(f) PROVE EnvelopeInv'
  <2>1. UNCHANGED <<pc, call, agent, trace, lost>>
    BY <1>14 DEF vars, Expire
  <2>2. \A p \in Procs : EnvelopeHeld(p)' <=> EnvelopeHeld(p)
    BY <2>1 DEF EnvelopeHeld, Enveloped, Implement
  <2>3. ASSUME NEW d \in Ids, ~Broken(d)' PROVE Owed(d)'
    <3>1. ~Broken(d)
      BY <2>1, <2>3 DEF Broken
    <3>2. Inside(d)' = Inside(d)
      BY <2>1 DEF Inside, Enveloped, Implement
    <3> QED
      BY <2>1, <3>1, <3>2 DEF EnvelopeInv, Owed
  <2> QED
    BY <2>2, <2>3 DEF EnvelopeInv
<1>15. ASSUME NEW p \in Procs, Step(p) PROVE EnvelopeInv'
  <2>1. CASE Routing(p)
    BY <1>2, <1>12, <2>1, ResumeOpens DEF Routing
  <2>2. CASE Preloop(p)
    BY <1>3, <1>11, <2>2, OpenSteps, LoopSteps DEF Preloop
  <2>3. CASE Loop(p)
    BY <1>4, <1>6, <1>7, <1>8, <1>9, <2>3 DEF Loop
  <2>4. CASE Postloop(p)
    BY <1>3, <1>11, <1>12, <2>4, PostloopSteps DEF Postloop
  <2>5. CASE Resumption(p)
    BY <1>10, <2>5, ResumeCloses DEF Resumption
  <2> QED
    BY <1>13, <1>15, <2>1, <2>2, <2>3, <2>4, <2>5, ResumeCloses DEF Step
<1> QED
  BY <1>5, <1>14, <1>15, CrashBreaks, ArrivesOutside DEF Next

LEMMA EnvelopeInit == Init => EnvelopeInv
<1> SUFFICES ASSUME Init PROVE EnvelopeInv
  OBVIOUS
<1>1. \A p \in Procs : /\ pc[p] = "idle" /\ ~Enveloped(p)
                       /\ agent[p].open = {}
  BY DEF Init, Enveloped, EnvelopeLabels, NewAgent
<1>2. \A p \in Procs : EnvelopeHeld(p)
  BY <1>1 DEF EnvelopeHeld, ClosedLabels
<1>3. ASSUME NEW d \in Ids PROVE Owed(d)
  <2>1. Inside(d) = {}
    BY <1>1 DEF Inside
  <2>2. Cardinality(Inside(d)) = 0
    BY <2>1, FS_EmptySet
  <2> QED
    BY <2>2 DEF Init, Owed, EventKinds
<1> QED
  BY <1>2, <1>3 DEF EnvelopeInv

\* Every envelope and every phase opened in the trace of a delegation is closed
\* once nobody works on it, whichever way its calls ended (EnvelopesClose).
THEOREM EnvelopesAreClosed == Spec => []EnvelopesClose
<1>1. TypeInv /\ EnvelopeInv => EnvelopesClose
  <2> SUFFICES ASSUME TypeInv, EnvelopeInv, NEW d \in Ids, Working(d) = {}, ~Broken(d)
               PROVE  /\ trace[d]["lifecycle_start"] = trace[d]["lifecycle_end"]
                      /\ trace[d]["phase_start"] = trace[d]["phase_end"]
    BY DEF EnvelopesClose
  <2>1. Inside(d) = {}
    BY DEF Inside, Working, Enveloped, EnvelopeLabels
  <2>2. Cardinality(Inside(d)) = 0
    BY <2>1, FS_EmptySet
  <2>3. Owed(d)
    BY DEF EnvelopeInv
  <2>4. trace[d]["lifecycle_end"] \in Nat /\ trace[d]["phase_end"] \in Nat
    BY DEF TypeInv, TypeOK, EventKinds
  <2> QED
    BY <2>2, <2>3, <2>4 DEF Owed
<1> QED
  BY TypeInit, TypeStep, EnvelopeInit, EnvelopeStep, <1>1, PTL DEF Spec
=============================================================================
