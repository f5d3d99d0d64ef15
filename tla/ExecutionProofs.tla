---------------------------- MODULE ExecutionProofs ----------------------------
(***************************************************************************)
(* Theorems about ProgressBridge, ExecutorRun and ConfirmSupervisor, for   *)
(* every number of delegations, notifications, turns and questions.        *)
(***************************************************************************)
EXTENDS MCExecution, FiniteSetTheorems, TLAPS

-----------------------------------------------------------------------------
(***************************************************************************)
(* Sequences.                                                              *)
(***************************************************************************)
LEMMA Appended ==
    ASSUME NEW S, NEW s \in Seq(S), NEW e
    PROVE  /\ Len(Append(s, e)) = Len(s) + 1 /\ Len(s) \in Nat
           /\ \A i \in 1 .. Len(Append(s, e)) :
                Append(s, e)[i] = IF i = Len(Append(s, e)) THEN e ELSE s[i]
    OBVIOUS

LEMMA Concatenated ==
    ASSUME NEW S, NEW s \in Seq(S), NEW t \in Seq(S)
    PROVE  /\ s \o t \in Seq(S) /\ Len(s \o t) = Len(s) + Len(t)
           /\ \A i \in 1 .. Len(s) + Len(t) :
                (s \o t)[i] = IF i <= Len(s) THEN s[i] ELSE t[i - Len(s)]
    OBVIOUS

LEMMA Element ==
    ASSUME NEW S, NEW s \in Seq(S), NEW i \in 1 .. Len(s)
    PROVE  s[i] \in S
    OBVIOUS

LEMMA Taken ==
    ASSUME NEW S, NEW s \in Seq(S), s # <<>>
    PROVE  /\ Head(s) = s[1] /\ Head(s) \in S /\ Tail(s) \in Seq(S)
           /\ Len(s) \in Nat /\ Len(s) > 0 /\ Len(Tail(s)) = Len(s) - 1
           /\ \A i \in 1 .. Len(Tail(s)) : Tail(s)[i] = s[i + 1]
    OBVIOUS

-----------------------------------------------------------------------------
(***************************************************************************)
(* The progress bridge.                                                    *)
(***************************************************************************)
\* The stop mark of delegation d has been queued.
Marked(d) == d < call \/ (d = call /\ phase \in {"join", "over"})

\* The queue of a delegation goes on where the thread has handed over, up to
\* the last notification told; a stop mark is its last element, or taken.
GoesOn(d) ==
    /\ \A i \in 1 .. Len(handed[d]) : handed[d][i] = i
    /\ ~Marked(d) =>
         /\ Len(handed[d]) + Len(queue[d]) = told[d]
         /\ \A i \in 1 .. Len(queue[d]) : queue[d][i] = Len(handed[d]) + i
    /\ Marked(d) =>
         \A i \in 1 .. Len(queue[d]) :
           queue[d][i] = IF i = Len(queue[d]) THEN Stop ELSE Len(handed[d]) + i

\* A thread that may send a heartbeat has not sent one after its flag.
BeatsOnce(d) ==
    /\ late[d] <= 1
    /\ ~stopped[d] \/ thread[d] = "idle" => late[d] = 0

\* The inductive invariant behind BridgeKeepsOrder.
BridgeInv == BridgeTypeOK /\ \A d \in Delegations : GoesOn(d) /\ BeatsOnce(d)

LEMMA BridgeBounds ==
    /\ Calls \in Nat /\ Calls > 0 /\ Messages \in Nat /\ Beats \in Nat
    BY BridgeAssumption

LEMMA BridgeStarts == BridgeInit => BridgeInv
<1> SUFFICES ASSUME BridgeInit PROVE BridgeInv
    OBVIOUS
<1>1. BridgeTypeOK
    BY BridgeBounds DEF BridgeInit, BridgeTypeOK, Delegations
<1>2. \A d \in Delegations : GoesOn(d)
    BY BridgeBounds DEF BridgeInit, GoesOn, Marked, Delegations
<1>3. \A d \in Delegations : BeatsOnce(d)
    BY DEF BridgeInit, BeatsOnce
<1> QED
    BY <1>1, <1>2, <1>3 DEF BridgeInv

\* The steps of the handler but the queueing ones leave every queue alone.
LEMMA HandlingKeeps ==
    ASSUME BridgeInv, RaiseFlag \/ Join \/ NextCall
    PROVE  BridgeInv'
<1>1. BridgeTypeOK'
    <2>1. CASE RaiseFlag \/ Join
        BY <2>1 DEF BridgeInv, BridgeTypeOK, RaiseFlag, Join
    <2>2. CASE NextCall
        <3>1. call' \in Delegations
            BY <2>2, BridgeBounds DEF BridgeInv, BridgeTypeOK, NextCall, Delegations
        <3>2. thread' \in [Delegations -> {"none", "get", "empty", "idle", "wait", "ended"}]
            BY <2>2, <3>1 DEF BridgeInv, BridgeTypeOK, NextCall
        <3> QED
            BY <2>2, <3>1, <3>2 DEF BridgeInv, BridgeTypeOK, NextCall
    <2> QED
        BY <2>1, <2>2
<1>2. UNCHANGED <<told, queue, handed, late>>
    BY DEF RaiseFlag, Join, NextCall
<1>3. ASSUME NEW d \in Delegations PROVE Marked(d)' <=> Marked(d)
    BY DEF Marked, RaiseFlag, Join, NextCall, Delegations, BridgeInv, BridgeTypeOK
<1>4. ASSUME NEW d \in Delegations PROVE GoesOn(d)'
    BY <1>2, <1>3 DEF BridgeInv, GoesOn
<1>5. ASSUME NEW d \in Delegations PROVE BeatsOnce(d)'
    <2>1. /\ thread'[d] = "idle" => thread[d] = "idle"
          /\ ~stopped'[d] => ~stopped[d]
        BY DEF RaiseFlag, Join, NextCall, BridgeInv, BridgeTypeOK
    <2> QED
        BY <1>2, <2>1 DEF BridgeInv, BeatsOnce
<1> QED
    BY <1>1, <1>4, <1>5 DEF BridgeInv

LEMMA NotifyKeeps == BridgeInv /\ Notify => BridgeInv'
<1> SUFFICES ASSUME BridgeInv, Notify PROVE BridgeInv'
    OBVIOUS
<1>1. /\ call \in Delegations /\ told[call] \in 0 .. Messages /\ told[call] < Messages
      /\ told'[call] = told[call] + 1
      /\ queue'[call] = Append(queue[call], told[call] + 1)
      /\ \A d \in Delegations : d # call => told'[d] = told[d] /\ queue'[d] = queue[d]
      /\ UNCHANGED <<onLoop, call, phase, stopped, thread, beats, late, pending, handed>>
    BY BridgeBounds DEF Notify, BridgeInv, BridgeTypeOK
<1>2. BridgeTypeOK'
    <2>1. told[call] + 1 \in 0 .. Messages
        BY <1>1, BridgeBounds
    <2>2. told' \in [Delegations -> 0 .. Messages]
        BY <1>1, <2>1 DEF Notify, BridgeInv, BridgeTypeOK
    <2>3. queue' \in [Delegations -> Seq(0 .. Messages)]
        BY <1>1, <2>1 DEF Notify, BridgeInv, BridgeTypeOK
    <2> QED
        BY <1>1, <2>2, <2>3 DEF BridgeInv, BridgeTypeOK
<1>3. ASSUME NEW d \in Delegations PROVE GoesOn(d)'
    <2>1. GoesOn(d) /\ (Marked(d)' <=> Marked(d))
        BY <1>1 DEF BridgeInv, Marked
    <2>2. CASE d # call
        BY <1>1, <2>1, <2>2 DEF GoesOn
    <2>3. CASE d = call
        <3>1. ~Marked(d)
            BY <2>3, BridgeBounds DEF Marked, Notify, BridgeInv, BridgeTypeOK, Delegations
        <3>2. queue[d] \in Seq(0 .. Messages) /\ handed[d] \in Seq(1 .. Messages)
            BY DEF BridgeInv, BridgeTypeOK
        <3>3. /\ Len(handed[d]) + Len(queue[d]) = told[d]
              /\ \A i \in 1 .. Len(queue[d]) : queue[d][i] = Len(handed[d]) + i
            BY <2>1, <3>1 DEF GoesOn
        <3>4. /\ Len(queue'[d]) = Len(queue[d]) + 1
              /\ \A i \in 1 .. Len(queue'[d]) :
                   queue'[d][i] = IF i = Len(queue'[d]) THEN told[d] + 1 ELSE queue[d][i]
            <4>1. queue'[d] = Append(queue[d], told[d] + 1)
                BY <1>1, <2>3
            <4>2. \A e : /\ Len(Append(queue[d], e)) = Len(queue[d]) + 1
                         /\ \A i \in 1 .. Len(Append(queue[d], e)) :
                              Append(queue[d], e)[i]
                                = IF i = Len(Append(queue[d], e)) THEN e ELSE queue[d][i]
                BY <3>2, Appended
            <4> QED
                BY <4>1, <4>2
        <3>5. /\ Len(handed'[d]) + Len(queue'[d]) = told'[d]
              /\ \A i \in 1 .. Len(queue'[d]) : queue'[d][i] = Len(handed'[d]) + i
            <4> DEFINE h == Len(handed[d])
                       n == Len(queue[d])
            <4>1. /\ h \in Nat /\ n \in Nat /\ told[d] \in Nat
                  /\ told'[d] = told[d] + 1 /\ Len(handed'[d]) = h
                BY <1>1, <2>3, <3>2, BridgeBounds
            <4>2. Len(queue'[d]) = n + 1 /\ h + n = told[d]
                BY <3>3, <3>4
            <4>3. \A i \in 1 .. n + 1 :
                    queue'[d][i] = IF i = n + 1 THEN told[d] + 1 ELSE queue[d][i]
                BY <3>4, <4>2
            <4>4. \A i \in 1 .. n : queue[d][i] = h + i
                BY <3>3
            <4> HIDE DEF h, n
            <4>5. ASSUME NEW i \in 1 .. n + 1 PROVE queue'[d][i] = h + i
                <5>1. CASE i = n + 1
                    <6>1. queue'[d][i] = told[d] + 1
                        BY <4>3, <5>1
                    <6>2. told[d] + 1 = h + i
                        BY <4>1, <4>2, <5>1
                    <6> QED
                        BY <6>1, <6>2
                <5>2. CASE i # n + 1
                    <6>1. i \in 1 .. n
                        BY <4>1, <5>2
                    <6> QED
                        BY <4>3, <4>4, <5>2, <6>1
                <5> QED
                    BY <5>1, <5>2
            <4>6. h + (n + 1) = told[d] + 1
                BY <4>1, <4>2
            <4>7. Len(handed'[d]) + Len(queue'[d]) = told'[d]
                BY <4>1, <4>2, <4>6
            <4>8. 1 .. Len(queue'[d]) = 1 .. n + 1
                BY <4>2
            <4>9. \A i \in 1 .. Len(queue'[d]) : queue'[d][i] = Len(handed'[d]) + i
                BY <4>1, <4>5, <4>8
            <4> QED
                BY <4>7, <4>9
        <3> QED
            BY <1>1, <2>1, <3>1, <3>5 DEF GoesOn
    <2> QED
        BY <2>2, <2>3
<1>4. \A d \in Delegations : BeatsOnce(d)'
    BY <1>1 DEF BridgeInv, BeatsOnce
<1> QED
    BY <1>2, <1>3, <1>4 DEF BridgeInv

LEMMA QueueStopKeeps == BridgeInv /\ QueueStop => BridgeInv'
<1> SUFFICES ASSUME BridgeInv, QueueStop PROVE BridgeInv'
    OBVIOUS
<1>1. /\ call \in Delegations /\ phase = "close" /\ phase' = "join"
      /\ queue'[call] = Append(queue[call], Stop)
      /\ \A d \in Delegations : d # call => queue'[d] = queue[d]
      /\ UNCHANGED <<onLoop, call, told, stopped, thread, beats, late, pending, handed>>
    BY DEF QueueStop, BridgeInv, BridgeTypeOK
<1>2. BridgeTypeOK'
    <2>1. Stop \in 0 .. Messages
        BY BridgeBounds DEF Stop
    <2>2. queue' \in [Delegations -> Seq(0 .. Messages)]
        BY <1>1, <2>1 DEF QueueStop, BridgeInv, BridgeTypeOK
    <2> QED
        BY <1>1, <2>2 DEF BridgeInv, BridgeTypeOK
<1>3. ASSUME NEW d \in Delegations PROVE GoesOn(d)'
    <2>1. GoesOn(d)
        BY DEF BridgeInv
    <2>2. CASE d # call
        <3>1. Marked(d)' <=> Marked(d)
            BY <1>1, <2>2 DEF Marked
        <3> QED
            BY <1>1, <2>1, <2>2, <3>1 DEF GoesOn
    <2>3. CASE d = call
        <3>1. ~Marked(d) /\ Marked(d)'
            BY <1>1, <2>3, BridgeBounds DEF Marked, Delegations
        <3>2. queue[d] \in Seq(0 .. Messages) /\ handed[d] \in Seq(1 .. Messages)
            BY DEF BridgeInv, BridgeTypeOK
        <3>3. \A i \in 1 .. Len(queue[d]) : queue[d][i] = Len(handed[d]) + i
            BY <2>1, <3>1 DEF GoesOn
        <3>4. /\ Len(queue'[d]) = Len(queue[d]) + 1
              /\ \A i \in 1 .. Len(queue'[d]) :
                   queue'[d][i] = IF i = Len(queue'[d]) THEN Stop ELSE queue[d][i]
            <4> DEFINE s == queue[d]
            <4>1. queue'[d] = Append(s, Stop) /\ s \in Seq(0 .. Messages)
                BY <1>1, <2>3, <3>2
            <4> HIDE DEF s
            <4> QED
                BY <4>1, Appended DEF s
        <3>5. \A i \in 1 .. Len(queue'[d]) :
                queue'[d][i] = IF i = Len(queue'[d]) THEN Stop ELSE Len(handed'[d]) + i
            <4>1. Len(queue[d]) \in Nat /\ handed'[d] = handed[d]
                BY <1>1, <3>2
            <4> QED
                BY <3>3, <3>4, <4>1
        <3> QED
            BY <1>1, <2>1, <3>1, <3>5 DEF GoesOn
    <2> QED
        BY <2>2, <2>3
<1>4. \A d \in Delegations : BeatsOnce(d)'
    BY <1>1 DEF BridgeInv, BeatsOnce
<1> QED
    BY <1>2, <1>3, <1>4 DEF BridgeInv

LEMMA HandOverTypes ==
    ASSUME BridgeTypeOK, NEW d \in Delegations, HandOver(d)
    PROVE  /\ pending' \in Seq(Delegations)
           /\ thread' \in [Delegations -> {"none", "get", "empty", "idle", "wait", "ended"}]
           /\ \A e \in Delegations : thread'[e] = "idle" => thread[e] = "idle" /\ e # d
<1>1. CASE onLoop
    <2>1. pending' = Append(pending, d) /\ thread' = [thread EXCEPT ![d] = "wait"]
        BY <1>1 DEF HandOver
    <2>2. pending' \in Seq(Delegations)
        BY <2>1 DEF BridgeTypeOK
    <2> QED
        BY <2>1, <2>2 DEF BridgeTypeOK
<1>2. CASE ~onLoop
    BY <1>2 DEF HandOver, BridgeTypeOK
<1> QED
    BY <1>1, <1>2

LEMMA TakeKeeps == ASSUME BridgeInv, NEW d \in Delegations, Take(d) PROVE BridgeInv'
<1>1. /\ queue[d] \in Seq(0 .. Messages) /\ handed[d] \in Seq(1 .. Messages)
      /\ queue[d] # <<>> /\ BridgeTypeOK
    BY DEF BridgeInv, BridgeTypeOK, Take
<1>2. /\ UNCHANGED <<onLoop, call, phase, told, stopped, beats, late>>
      /\ \A e \in Delegations : e # d => queue'[e] = queue[e]
      /\ queue'[d] = Tail(queue[d])
      /\ queue' \in [Delegations -> Seq(0 .. Messages)]
    BY <1>1, Taken DEF Take, handler, BridgeTypeOK
<1>3. CASE Head(queue[d]) = Stop
    <2>1. /\ thread' = [thread EXCEPT ![d] = "ended"] /\ UNCHANGED <<pending, handed>>
        BY <1>3 DEF Take
    <2>2. BridgeTypeOK'
        BY <1>1, <1>2, <2>1 DEF BridgeTypeOK
    <2>3. ASSUME NEW e \in Delegations PROVE GoesOn(e)'
        <3>1. GoesOn(e) /\ (Marked(e)' <=> Marked(e))
            BY <1>2 DEF BridgeInv, Marked
        <3>2. CASE e # d
            BY <1>2, <2>1, <3>1, <3>2 DEF GoesOn
        <3>3. CASE e = d
            <4>1. queue[d][1] = 0 /\ Len(queue[d]) \in Nat /\ Len(queue[d]) > 0
                BY <1>1, <1>3, Taken DEF Stop
            <4>2. Len(handed[d]) \in Nat
                BY <1>1
            <4>a. 1 \in 1 .. Len(queue[d]) /\ Len(handed[d]) + 1 # 0
                BY <4>1, <4>2
            <4>b. /\ ~Marked(d) => queue[d][1] = Len(handed[d]) + 1
                  /\ Marked(d) => queue[d][1] = IF 1 = Len(queue[d]) THEN Stop ELSE Len(handed[d]) + 1
                BY <3>1, <3>3, <4>a DEF GoesOn
            <4>3. Marked(d)
                BY <4>1, <4>a, <4>b
            <4>4. Len(queue[d]) = 1
                BY <4>1, <4>3, <4>a, <4>b
            <4>5. Len(queue'[d]) = 0
                BY <1>1, <1>2, <4>4, Taken
            <4> QED
                BY <2>1, <3>1, <3>3, <4>3, <4>5 DEF GoesOn
        <3> QED
            BY <3>2, <3>3
    <2>4. \A e \in Delegations : BeatsOnce(e)'
        BY <1>1, <1>2, <2>1 DEF BridgeInv, BeatsOnce, BridgeTypeOK
    <2> QED
        BY <2>2, <2>3, <2>4 DEF BridgeInv
<1>4. CASE Head(queue[d]) # Stop
    <2>1. HandOver(d) /\ handed' = [handed EXCEPT ![d] = Append(@, Head(queue[d]))]
        BY <1>4 DEF Take
    <2>2. Head(queue[d]) \in 1 .. Messages
        BY <1>1, <1>4, Taken, BridgeBounds DEF Stop
    <2>3. /\ handed' \in [Delegations -> Seq(1 .. Messages)]
          /\ handed'[d] = Append(handed[d], queue[d][1])
          /\ \A e \in Delegations : e # d => handed'[e] = handed[e]
        BY <1>1, <2>1, <2>2, Taken DEF BridgeTypeOK
    <2>4. BridgeTypeOK'
        BY <1>1, <1>2, <2>1, <2>3, HandOverTypes DEF BridgeTypeOK
    <2>5. ASSUME NEW e \in Delegations PROVE GoesOn(e)'
        <3>1. GoesOn(e) /\ (Marked(e)' <=> Marked(e))
            BY <1>2 DEF BridgeInv, Marked
        <3>2. CASE e # d
            BY <1>2, <2>3, <3>1, <3>2 DEF GoesOn
        <3>3. CASE e = d
            <4> DEFINE h == Len(handed[d])
                       n == Len(queue[d])
            <4>1. /\ h \in Nat /\ n \in Nat /\ n > 0 /\ queue[d][1] # 0
                BY <1>1, <1>4, Taken DEF Stop
            <4>2. Len(queue'[d]) = n - 1 /\ \A i \in 1 .. n - 1 : queue'[d][i] = queue[d][i + 1]
                BY <1>1, <1>2, Taken
            <4>3. queue[d][1] = h + 1
                <5>1. CASE Marked(d)
                    BY <3>1, <3>3, <4>1, <5>1 DEF GoesOn, Stop
                <5>2. CASE ~Marked(d)
                    BY <3>1, <3>3, <4>1, <5>2 DEF GoesOn
                <5> QED
                    BY <5>1, <5>2
            <4>4. /\ Len(handed'[d]) = h + 1
                  /\ \A i \in 1 .. h + 1 : handed'[d][i] = IF i = h + 1 THEN h + 1 ELSE handed[d][i]
                BY <1>1, <2>3, <4>3, Appended
            <4>5. \A i \in 1 .. h : handed[d][i] = i
                BY <3>1, <3>3 DEF GoesOn
            <4>6. ~Marked(d) => h + n = told[d] /\ \A i \in 1 .. n : queue[d][i] = h + i
                BY <3>1, <3>3 DEF GoesOn
            <4>7. Marked(d) => \A i \in 1 .. n : queue[d][i] = IF i = n THEN Stop ELSE h + i
                BY <3>1, <3>3 DEF GoesOn
            <4> HIDE DEF h, n
            <4>8. \A i \in 1 .. h + 1 : handed'[d][i] = i
                BY <4>1, <4>4, <4>5
            <4>9. ~Marked(d) => /\ (h + 1) + (n - 1) = told[d]
                                /\ \A i \in 1 .. n - 1 : queue'[d][i] = (h + 1) + i
                BY <4>1, <4>2, <4>6
            <4>10. Marked(d) =>
                     \A i \in 1 .. n - 1 : queue'[d][i] = IF i = n - 1 THEN Stop ELSE (h + 1) + i
                BY <4>1, <4>2, <4>7
            <4>11. told'[d] = told[d]
                BY <1>2
            <4> QED
                BY <3>1, <3>3, <4>2, <4>4, <4>8, <4>9, <4>10, <4>11 DEF GoesOn
        <3> QED
            BY <3>2, <3>3
    <2>6. \A e \in Delegations : BeatsOnce(e)'
        BY <1>1, <1>2, <2>1, HandOverTypes DEF BridgeInv, BeatsOnce
    <2> QED
        BY <2>4, <2>5, <2>6 DEF BridgeInv
<1> QED
    BY <1>3, <1>4

\* Steps that leave the notifications alone.
LEMMA SameNotifications ==
    ASSUME BridgeInv, UNCHANGED <<call, phase, told, queue, handed>>
    PROVE  \A d \in Delegations : GoesOn(d)'
    BY DEF BridgeInv, GoesOn, Marked

LEMMA BeatKeeps == ASSUME BridgeInv, NEW d \in Delegations, SendBeat(d) PROVE BridgeInv'
<1>1. /\ BridgeTypeOK /\ late[d] = 0 /\ beats < Beats /\ beats' = beats + 1 /\ thread[d] = "idle"
      /\ UNCHANGED <<onLoop, call, phase, told, queue, stopped, handed>>
    BY DEF BridgeInv, BeatsOnce, SendBeat, handler
<1>2. /\ late' \in [Delegations -> 0 .. Beats] /\ beats' \in 0 .. Beats
      /\ \A e \in Delegations : e # d => late'[e] = late[e]
      /\ late'[d] \in {0, 1} /\ (~stopped[d] => late'[d] = 0)
    BY <1>1, BridgeBounds DEF SendBeat, BridgeTypeOK
<1>3. HandOver(d)
    BY DEF SendBeat
<1>4. BridgeTypeOK'
    BY <1>1, <1>2, <1>3, HandOverTypes DEF BridgeTypeOK
<1>5. ASSUME NEW e \in Delegations PROVE BeatsOnce(e)'
    BY <1>1, <1>2, <1>3, HandOverTypes DEF BridgeInv, BeatsOnce
<1> QED
    BY <1>1, <1>4, <1>5, SameNotifications DEF BridgeInv

LEMMA WaitKeeps ==
    ASSUME BridgeInv, NEW d \in Delegations,
           FindEmpty(d) \/ LookAtFlag(d) \/ SkipBeat(d) \/ StopWaiting(d)
    PROVE  BridgeInv'
<1>1. /\ BridgeTypeOK
      /\ UNCHANGED <<onLoop, call, phase, told, queue, stopped, beats, late, pending, handed>>
    BY DEF BridgeInv, FindEmpty, LookAtFlag, SkipBeat, StopWaiting, handler
<1>2. /\ thread' \in [Delegations -> {"none", "get", "empty", "idle", "wait", "ended"}]
      /\ \A e \in Delegations : thread'[e] = "idle" => thread[e] = "idle" \/ ~stopped[e]
    BY <1>1 DEF FindEmpty, LookAtFlag, SkipBeat, StopWaiting, BridgeTypeOK
<1>3. BridgeTypeOK'
    BY <1>1, <1>2 DEF BridgeTypeOK
<1>4. \A e \in Delegations : BeatsOnce(e)'
    BY <1>1, <1>2 DEF BridgeInv, BeatsOnce
<1> QED
    BY <1>1, <1>3, <1>4, SameNotifications DEF BridgeInv

LEMMA SendKeeps == BridgeInv /\ Send => BridgeInv'
<1> SUFFICES ASSUME BridgeInv, Send PROVE BridgeInv'
    OBVIOUS
<1>1. /\ BridgeTypeOK /\ pending' = Tail(pending) /\ pending # <<>>
      /\ UNCHANGED <<onLoop, call, phase, told, stopped, queue, thread, beats, late, handed>>
    BY DEF BridgeInv, Send, handler
<1>2. BridgeTypeOK'
    BY <1>1 DEF BridgeTypeOK
<1>3. \A e \in Delegations : BeatsOnce(e)'
    BY <1>1 DEF BridgeInv, BeatsOnce
<1> QED
    BY <1>1, <1>2, <1>3, SameNotifications DEF BridgeInv

LEMMA BridgeStep == BridgeInv /\ [BridgeNext]_bridgeVars => BridgeInv'
<1>1. CASE UNCHANGED bridgeVars
    BY <1>1 DEF bridgeVars, BridgeInv, BridgeTypeOK, GoesOn, Marked, BeatsOnce
<1> QED
    BY <1>1, HandlingKeeps, NotifyKeeps, QueueStopKeeps, TakeKeeps, BeatKeeps, WaitKeeps,
       SendKeeps DEF BridgeNext, Handling, Draining

LEMMA BridgeIsInOrder == BridgeInv => BridgeKeepsOrder
<1> SUFFICES ASSUME BridgeInv, NEW d \in Delegations
             PROVE  handed[d] = [i \in 1 .. Len(handed[d]) |-> i] /\ late[d] <= 1
    BY DEF BridgeKeepsOrder, NoGaps, OneLateBeat
<1>1. handed[d] \in Seq(1 .. Messages) /\ GoesOn(d) /\ BeatsOnce(d)
    BY DEF BridgeInv, BridgeTypeOK
<1> QED
    BY <1>1 DEF GoesOn, BeatsOnce

\* What the host sees of a delegation's notifications has no gap and is in
\* their order, although a thread may outlive its delegation, and at most one
\* heartbeat follows a delegation's end.
THEOREM BridgeIsOrdered == BridgeSpec => []BridgeKeepsOrder
    BY BridgeIsInOrder, BridgeStarts, BridgeStep, PTL DEF BridgeSpec

-----------------------------------------------------------------------------
(***************************************************************************)
(* The runs of the executor.                                               *)
(***************************************************************************)
\* Runs are numbered by turns and attempts.
RunsCounted ==
    /\ run <= 2 * (rerun - 1) + attempt
    /\ step = "start" => run < 2 * (rerun - 1) + attempt
    /\ step # "start" => run > 0
    /\ retries <= (rerun - 1) + (attempt - 1)

\* While no run was started beside a worker, the one that is in has found the
\* real stdout and writes to its own buffer.
StdoutKept ==
    ~overlap =>
        /\ \A n \in Runs : worker[n] = "in" => stdout = n /\ saved[n] = Real
        /\ (\A n \in Runs : worker[n] # "in") => stdout = Real

\* What can have changed the workspace in a run: its worker, the handler or a
\* worker left behind.
ChangesHave(deleted) == run \in wrote \/ deleted \/ left \cap wrote # {}

\* What the handler makes of a run: a worker that was left behind has run out
\* of time, one that has ended has said how, and nothing it says or writes
\* later changes the result.
ResultTold ==
    /\ \A n \in left : said[n] = "raised"
    /\ \A n \in Runs : worker[n] = "out" => said[n] # "nothing"
    /\ step = "delete" => worker[run] = "out" /\ said[run] \notin {"aborted", "raised"}
    /\ step \in {"attribute", "return", "decide", "replied"} =>
         worker[run] # "in" \/ run \in left
    /\ step \in {"return", "decide", "replied"} =>
         /\ run \in wrote \ left \/ result.deleted => result.changed
         /\ result.success => /\ \/ said[run] = "complete"
                                 \/ said[run] = "question" /\ ChangesHave(result.deleted)
                              /\ run \notin left
    /\ step \in {"decide", "replied"} =>
         /\ shown.changed = result.changed /\ shown.deleted = result.deleted
         /\ shown.success => result.success

\* A worker that is in is the one the handler waits for or was left behind,
\* and the runs to come have none and have written nothing.
OneWaitedFor ==
    /\ \A n \in Runs : worker[n] = "in" =>
         n \in left \/ (n = run /\ step \in {"wait", "grace"})
    /\ \A n \in Runs : n > run => worker[n] = "none" /\ n \notin wrote

\* From its start to its attribution a run has changed the workspace when its
\* worker wrote or the handler deleted, and it has not changed for nothing.
DirtyIsCaused ==
    /\ step # "start" /\ run \in wrote => dirty
    /\ step \in {"wait", "grace", "delete"} /\ dirty => ChangesHave(FALSE)
    /\ step = "attribute" /\ said[run] \notin {"aborted", "raised"} =>
         /\ result.deleted => dirty
         /\ dirty => ChangesHave(result.deleted)

\* The inductive invariant behind the theorems on runs.
RunInv == RunTypeOK /\ RunsCounted /\ StdoutKept /\ ResultTold /\ OneWaitedFor /\ DirtyIsCaused

LEMMA RunBounds == RunTurns \in Nat /\ RunTurns > 0 /\ AutoRetry \in BOOLEAN
    BY RunAssumption

LEMMA RunStarts == RunInit => RunInv
<1> SUFFICES ASSUME RunInit PROVE RunInv
    OBVIOUS
<1>1. NoResult \in Returned
    BY DEF NoResult, Returned, Stalls
<1>2. RunTypeOK
    <2>1. /\ rerun \in 1 .. RunTurns /\ attempt \in {1, 2} /\ run \in 0 .. 2 * RunTurns
          /\ retries \in 0 .. RunTurns /\ step = "start"
        BY RunBounds DEF RunInit
    <2>2. /\ worker \in [Runs -> {"none", "in", "out"}] /\ saved \in [Runs -> Runs \cup {Real}]
          /\ said \in [Runs -> Endings \cup {"nothing"}]
        BY DEF RunInit
    <2>3. /\ left \subseteq Runs /\ wrote \subseteq Runs /\ stdout \in Runs \cup {Real}
          /\ targets \subseteq Files /\ given \subseteq Files /\ asked \subseteq Files
          /\ result \in Returned /\ shown \in Returned
          /\ overlap \in BOOLEAN /\ doomed \in BOOLEAN /\ retried \in BOOLEAN
          /\ dirty \in BOOLEAN
        BY <1>1 DEF RunInit
    <2> QED
        BY <2>1, <2>2, <2>3 DEF RunTypeOK
<1>3. RunsCounted
    BY DEF RunInit, RunsCounted
<1>4. StdoutKept
    BY DEF RunInit, StdoutKept
<1>5. ResultTold
    BY DEF RunInit, ResultTold
<1>6. OneWaitedFor /\ DirtyIsCaused
    BY DEF RunInit, OneWaitedFor, DirtyIsCaused
<1> QED
    BY <1>2, <1>3, <1>4, <1>5, <1>6 DEF RunInv

\* Where the number of the run and of the turn may be.
LEMMA RunNumbers ==
    ASSUME RunInv
    PROVE  /\ rerun \in Nat /\ rerun >= 1 /\ rerun <= RunTurns /\ attempt \in {1, 2}
           /\ run \in Nat /\ retries \in Nat
           /\ step # "start" => run \in Runs
           /\ step = "start" => run + 1 \in Runs
<1>1. /\ rerun \in Nat /\ rerun >= 1 /\ rerun <= RunTurns /\ attempt \in {1, 2}
      /\ run \in Nat /\ retries \in Nat
    BY RunBounds DEF RunInv, RunTypeOK
<1>2. /\ run <= 2 * (rerun - 1) + attempt
      /\ step = "start" => run < 2 * (rerun - 1) + attempt
      /\ step # "start" => run > 0
    BY DEF RunInv, RunsCounted
<1> QED
    BY <1>1, <1>2, RunBounds DEF Runs

LEMMA WorkerWritesKeeps ==
    ASSUME RunInv, NEW n \in Runs, WorkerWrites(n)
    PROVE  RunInv'
<1>1. /\ worker[n] = "in" /\ wrote' = wrote \cup {n} /\ dirty' = TRUE
      /\ UNCHANGED <<step, turns, worker, saved, stdout, said, asked, left, doomed, result, shown>>
    BY DEF WorkerWrites
<1>2. UNCHANGED <<rerun, attempt, run, overlap, targets, given, retried, retries>>
    BY <1>1 DEF turns
<1>3. RunTypeOK' /\ RunsCounted' /\ StdoutKept'
    BY <1>1, <1>2 DEF RunInv, RunTypeOK, RunsCounted, StdoutKept
<1>4. \A b \in BOOLEAN : ChangesHave(b) => ChangesHave(b)'
    BY <1>1, <1>2 DEF ChangesHave
<1>5. n \in left \/ (n = run /\ step \in {"wait", "grace"})
    BY <1>1 DEF RunInv, OneWaitedFor
<1>6. ResultTold'
    <2>1. result.deleted \in BOOLEAN
        BY DEF RunInv, RunTypeOK, Returned
    <2>2. step \in {"return", "decide", "replied"} => (run \in wrote' \ left' => run \in wrote \ left)
        BY <1>1, <1>5
    <2> QED
        BY <1>1, <1>2, <1>4, <2>1, <2>2 DEF RunInv, ResultTold
<1>7. OneWaitedFor'
    <2>1. \A m \in Runs : m > run => m # n
        BY <1>1 DEF RunInv, OneWaitedFor
    <2> QED
        BY <1>1, <1>2, <2>1 DEF RunInv, OneWaitedFor
<1>8. DirtyIsCaused'
    <2>1. \A b \in BOOLEAN : ChangesHave(b)'
        BY <1>1, <1>2, <1>5 DEF ChangesHave
    <2>2. result.deleted \in BOOLEAN
        BY DEF RunInv, RunTypeOK, Returned
    <2> QED
        BY <1>1, <1>2, <2>1, <2>2 DEF DirtyIsCaused
<1> QED
    BY <1>3, <1>6, <1>7, <1>8 DEF RunInv

LEMMA WorkerEndsKeeps ==
    ASSUME RunInv, NEW n \in Runs, WorkerEnds(n)
    PROVE  RunInv'
<1>1. PICK how \in Endings :
        /\ worker' = [worker EXCEPT ![n] = "out"] /\ stdout' = saved[n]
        /\ said' = [said EXCEPT ![n] = IF @ = "nothing" THEN how ELSE @]
        /\ IF how = "files" /\ n = run THEN asked' \in SUBSET Files ELSE UNCHANGED asked
    BY DEF WorkerEnds, Leave
<1>2. /\ worker[n] = "in"
      /\ UNCHANGED <<step, saved, wrote, dirty, left, doomed, result, shown>>
      /\ UNCHANGED <<rerun, attempt, run, overlap, targets, given, retried, retries>>
    BY DEF WorkerEnds, turns
<1>3. /\ worker'[n] = "out" /\ \A m \in Runs : m # n => worker'[m] = worker[m]
      /\ said'[n] = IF said[n] = "nothing" THEN how ELSE said[n]
      /\ \A m \in Runs : m # n => said'[m] = said[m]
      /\ how # "nothing" /\ said[n] # "nothing" => said'[n] = said[n]
    BY <1>1 DEF RunInv, RunTypeOK, Endings
<1>4. RunTypeOK'
    <2>1. said' \in [Runs -> Endings \cup {"nothing"}]
        BY <1>1 DEF RunInv, RunTypeOK
    <2>2. asked' \subseteq Files
        BY <1>1 DEF RunInv, RunTypeOK
    <2>3. worker' \in [Runs -> {"none", "in", "out"}] /\ stdout' \in Runs \cup {Real}
        BY <1>1 DEF RunInv, RunTypeOK
    <2> QED
        BY <1>2, <2>1, <2>2, <2>3 DEF RunInv, RunTypeOK
<1>5. RunsCounted'
    BY <1>2 DEF RunInv, RunsCounted
<1>6. StdoutKept'
    BY <1>1, <1>2, <1>3 DEF RunInv, StdoutKept
<1>7. ResultTold'
    <2>1. \A m \in Runs : said[m] # "nothing" => said'[m] = said[m]
        BY <1>3
    <2>2. left \subseteq Runs /\ (step # "start" => run \in Runs)
        BY RunNumbers DEF RunInv, RunTypeOK
    <2>3. \A m \in left : said'[m] = "raised"
        BY <1>2, <2>1, <2>2 DEF RunInv, ResultTold
    <2>4. \A m \in Runs : worker'[m] = "out" => said'[m] # "nothing"
        BY <1>3 DEF RunInv, ResultTold, Endings
    <2>5. step \in {"return", "decide", "replied"} /\ result.success => said[run] # "nothing"
        BY DEF RunInv, ResultTold
    <2>7. ChangesHave(result.deleted) => ChangesHave(result.deleted)'
        BY <1>2 DEF ChangesHave
    <2> QED
        BY <1>2, <1>3, <2>1, <2>2, <2>3, <2>4, <2>5, <2>7 DEF RunInv, ResultTold
<1>8. OneWaitedFor'
    <2>1. \A m \in Runs : worker'[m] = "in" => worker[m] = "in"
        BY <1>3
    <2>2. \A m \in Runs : m > run => m # n
        BY <1>2 DEF RunInv, OneWaitedFor
    <2> QED
        BY <1>2, <1>3, <2>1, <2>2 DEF RunInv, OneWaitedFor
<1>9. DirtyIsCaused'
    <2>1. step = "attribute" => run \in Runs
        BY RunNumbers
    <2>2. step = "attribute" /\ worker[run] = "in" => said[run] = "raised"
        BY <2>1 DEF RunInv, ResultTold
    <2>3. step = "attribute" => said'[run] = said[run]
        BY <1>2, <1>3, <2>1, <2>2
    <2>4. ChangesHave(FALSE)' = ChangesHave(FALSE)
        BY <1>2 DEF ChangesHave
    <2>5. ChangesHave(result.deleted)' = ChangesHave(result.deleted)
        BY <1>2 DEF ChangesHave
    <2> QED
        BY <1>2, <2>3, <2>4, <2>5 DEF RunInv, DirtyIsCaused
<1> QED
    BY <1>4, <1>5, <1>6, <1>7, <1>8, <1>9 DEF RunInv

LEMMA StartRunKeeps == RunInv /\ StartRun => RunInv'
<1> SUFFICES ASSUME RunInv, StartRun PROVE RunInv'
    OBVIOUS
<1> DEFINE r == run + 1
<1>1. /\ step = "start" /\ step' = "wait" /\ run' = r /\ r \in Runs
      /\ worker' = [worker EXCEPT ![r] = "in"]
      /\ saved' = [saved EXCEPT ![r] = stdout] /\ stdout' = r /\ dirty' = FALSE
      /\ UNCHANGED <<rerun, attempt, left, wrote, said, targets, given, asked,
                     doomed, result, retried, retries, shown>>
    BY RunNumbers DEF StartRun, Enter
<1>2. overlap' \in BOOLEAN /\ (~overlap' => ~overlap /\ \A n \in Runs : worker[n] # "in")
    BY Zenon DEF StartRun
<1> HIDE DEF r
<1>3. RunTypeOK'
    <2>1. r \in 0 .. 2 * RunTurns
        BY <1>1, RunBounds DEF Runs
    <2>2. worker' \in [Runs -> {"none", "in", "out"}] /\ saved' \in [Runs -> Runs \cup {Real}]
        BY <1>1 DEF RunInv, RunTypeOK
    <2> QED
        BY <1>1, <1>2, <2>1, <2>2 DEF RunInv, RunTypeOK
<1>4. RunsCounted'
    <2>1. run \in Nat /\ rerun \in Nat /\ attempt \in {1, 2} /\ run' = run + 1
        BY <1>1, RunNumbers DEF r
    <2> QED
        BY <1>1, <2>1 DEF RunInv, RunsCounted
<1>5. StdoutKept'
    <2> SUFFICES ASSUME ~overlap'
                 PROVE  /\ \A n \in Runs : worker'[n] = "in" => stdout' = n /\ saved'[n] = Real
                        /\ (\A n \in Runs : worker'[n] # "in") => stdout' = Real
        BY DEF StdoutKept
    <2>1. stdout = Real
        BY <1>2 DEF RunInv, StdoutKept
    <2>2. \A n \in Runs : worker'[n] = "in" => n = r
        BY <1>1, <1>2 DEF RunInv, RunTypeOK
    <2>3. worker'[r] = "in" /\ saved'[r] = Real
        BY <1>1, <2>1 DEF RunInv, RunTypeOK
    <2> QED
        BY <1>1, <2>2, <2>3
<1>6. ResultTold'
    <2>1. \A n \in Runs : worker'[n] = "out" => worker[n] = "out"
        BY <1>1 DEF RunInv, RunTypeOK
    <2> QED
        BY <1>1, <2>1 DEF RunInv, ResultTold
<1>7. OneWaitedFor'
    <2>1. run \in Nat /\ r = run + 1
        BY RunNumbers DEF r
    <2>2. \A n \in Runs : n # r => worker'[n] = worker[n]
        BY <1>1 DEF RunInv, RunTypeOK
    <2>3. \A n \in Runs : n > r => n > run /\ n # r
        BY <2>1 DEF Runs
    <2> QED
        BY <1>1, <2>2, <2>3 DEF RunInv, OneWaitedFor
<1>8. DirtyIsCaused'
    <2>1. r > run
        BY RunNumbers DEF r
    <2>2. r \notin wrote
        BY <1>1, <2>1 DEF RunInv, OneWaitedFor
    <2> QED
        BY <1>1, <2>2 DEF DirtyIsCaused
<1> QED
    BY <1>3, <1>4, <1>5, <1>6, <1>7, <1>8 DEF RunInv

LEMMA JoinedKeeps == RunInv /\ (Joined \/ TimeOut) => RunInv'
<1> SUFFICES ASSUME RunInv, Joined \/ TimeOut PROVE RunInv'
    OBVIOUS
<1>1. /\ step = "wait" /\ step' \in {"grace", "attribute", "delete"}
      /\ step' # "grace" => worker[run] = "out"
      /\ step' = "delete" => said[run] \notin {"aborted", "raised"}
      /\ UNCHANGED <<io, turns, left, doomed, result, shown>>
    BY DEF Joined, TimeOut
<1>2. /\ UNCHANGED <<worker, saved, stdout, wrote, dirty, said, asked>>
      /\ UNCHANGED <<rerun, attempt, run, overlap, targets, given, retried, retries>>
    BY <1>1 DEF io, turns
<1>3. RunTypeOK' /\ RunsCounted' /\ StdoutKept'
    BY <1>1, <1>2 DEF RunInv, RunTypeOK, RunsCounted, StdoutKept
<1>4. ResultTold'
    BY <1>1, <1>2 DEF RunInv, ResultTold
<1>5. OneWaitedFor'
    BY <1>1, <1>2 DEF RunInv, OneWaitedFor
<1>6. DirtyIsCaused'
    <2>1. step' = "attribute" => said[run] \in {"aborted", "raised"}
        BY DEF Joined, TimeOut
    <2>2. ChangesHave(FALSE)' = ChangesHave(FALSE)
        BY <1>1, <1>2 DEF ChangesHave
    <2> QED
        BY <1>1, <1>2, <2>1, <2>2 DEF RunInv, DirtyIsCaused
<1> QED
    BY <1>3, <1>4, <1>5, <1>6 DEF RunInv

LEMMA GraceOverKeeps == RunInv /\ GraceOver => RunInv'
<1> SUFFICES ASSUME RunInv, GraceOver PROVE RunInv'
    OBVIOUS
<1>1. /\ step = "grace" /\ step' = "attribute" /\ run \in Runs
      /\ left' = IF worker[run] = "in" THEN left \cup {run} ELSE left
      /\ said' = [said EXCEPT ![run] = "raised"]
      /\ UNCHANGED <<worker, saved, stdout, wrote, dirty, asked, doomed, result, shown>>
      /\ UNCHANGED <<rerun, attempt, run, overlap, targets, given, retried, retries>>
    BY RunNumbers DEF GraceOver, turns
<1>2. RunTypeOK'
    <2>1. said' \in [Runs -> Endings \cup {"nothing"}]
        BY <1>1 DEF RunInv, RunTypeOK, Endings
    <2> QED
        BY <1>1, <2>1 DEF RunInv, RunTypeOK
<1>3. RunsCounted' /\ StdoutKept'
    BY <1>1 DEF RunInv, RunsCounted, StdoutKept
<1>4. ResultTold'
    <2>1. said'[run] = "raised" /\ \A n \in Runs : n # run => said'[n] = said[n]
        BY <1>1 DEF RunInv, RunTypeOK
    <2>2. left \subseteq Runs /\ left' \subseteq left \cup {run}
        BY <1>1 DEF RunInv, RunTypeOK
    <2> QED
        BY <1>1, <2>1, <2>2 DEF RunInv, ResultTold
<1>5. OneWaitedFor'
    BY <1>1 DEF RunInv, OneWaitedFor
<1>6. DirtyIsCaused'
    <2>1. said'[run] = "raised"
        BY <1>1 DEF RunInv, RunTypeOK
    <2> QED
        BY <1>1, <2>1 DEF RunInv, DirtyIsCaused
<1> QED
    BY <1>2, <1>3, <1>4, <1>5, <1>6 DEF RunInv

LEMMA DeleteKeeps == RunInv /\ Delete => RunInv'
<1> SUFFICES ASSUME RunInv, Delete PROVE RunInv'
    OBVIOUS
<1>1. /\ step = "delete" /\ step' = "attribute" /\ doomed' \in BOOLEAN
      /\ \/ dirty' = TRUE /\ result' = [NoResult EXCEPT !.deleted = TRUE]
         \/ dirty' = dirty /\ result' = NoResult
      /\ UNCHANGED <<worker, saved, stdout, wrote, said, asked, left, shown>>
      /\ UNCHANGED <<rerun, attempt, run, overlap, targets, given, retried, retries>>
    BY DEF Delete, turns, RunInv, RunTypeOK
<1>2. result' \in Returned
    <2>1. NoResult \in Returned /\ [NoResult EXCEPT !.deleted = TRUE] \in Returned
        BY DEF NoResult, Returned, Stalls
    <2> QED
        BY <1>1, <2>1
<1>3. RunTypeOK' /\ RunsCounted' /\ StdoutKept'
    BY <1>1, <1>2 DEF RunInv, RunTypeOK, RunsCounted, StdoutKept
<1>4. ResultTold'
    BY <1>1 DEF RunInv, ResultTold
<1>5. OneWaitedFor'
    BY <1>1 DEF RunInv, OneWaitedFor
<1>6. DirtyIsCaused'
    <2>1. CASE dirty' = TRUE /\ result' = [NoResult EXCEPT !.deleted = TRUE]
        <3>1. ChangesHave(result.deleted)'
            BY <2>1 DEF ChangesHave, NoResult
        <3> QED
            BY <1>1, <2>1, <3>1 DEF DirtyIsCaused
    <2>2. CASE dirty' = dirty /\ result' = NoResult
        <3>1. ChangesHave(FALSE) => ChangesHave(result.deleted)'
            BY <1>1, <2>2 DEF ChangesHave
        <3>2. result'.deleted = FALSE
            BY <2>2 DEF NoResult
        <3> QED
            BY <1>1, <2>2, <3>1, <3>2 DEF RunInv, DirtyIsCaused
    <2> QED
        BY <1>1, <2>1, <2>2
<1> QED
    BY <1>3, <1>4, <1>5, <1>6 DEF RunInv

LEMMA StallIsOne ==
    ASSUME NEW how, NEW changed \in BOOLEAN
    PROVE  StallOf(how, changed) \in Stalls
    BY DEF StallOf, Stalls

LEMMA AttributeKeeps == RunInv /\ Attribute => RunInv'
<1> SUFFICES ASSUME RunInv, Attribute PROVE RunInv'
    OBVIOUS
<1>1. /\ step = "attribute" /\ step' = "return" /\ run \in Runs
      /\ result' = [success |-> Succeeds(said[run], dirty),
                    stall   |-> StallOf(said[run], dirty),
                    changed |-> dirty,
                    deleted |-> said[run] \notin {"aborted", "raised"} /\ result.deleted]
      /\ UNCHANGED <<worker, saved, stdout, wrote, dirty, said, asked, doomed, left, shown>>
      /\ UNCHANGED <<rerun, attempt, run, overlap, targets, given, retried, retries>>
    BY RunNumbers DEF Attribute, io, turns
<1>2. result' \in Returned
    <2>1. dirty \in BOOLEAN
        BY DEF RunInv, RunTypeOK
    <2>3. StallOf(said[run], dirty) \in Stalls
        BY <2>1, StallIsOne, Zenon
    <2>2. /\ Succeeds(said[run], dirty) \in BOOLEAN
          /\ (said[run] \notin {"aborted", "raised"} /\ result.deleted) \in BOOLEAN
        BY Zenon DEF Succeeds
    <2> QED
        BY <1>1, <2>1, <2>2, <2>3 DEF Returned
<1>3. RunTypeOK' /\ RunsCounted' /\ StdoutKept'
    BY <1>1, <1>2 DEF RunInv, RunTypeOK, RunsCounted, StdoutKept
<1>4. ResultTold'
    <2>1. result'.changed = dirty /\ result'.success = Succeeds(said[run], dirty)
        BY <1>1
    <2>2. result'.deleted = (said[run] \notin {"aborted", "raised"} /\ result.deleted)
        BY <1>1, Zenon
    <2>3. run \in left => said[run] = "raised"
        BY DEF RunInv, ResultTold
    <2>4. run \in wrote \/ result'.deleted => result'.changed
        BY <1>1, <2>1, <2>2 DEF RunInv, DirtyIsCaused
    <2>5. said[run] = "question" /\ dirty => ChangesHave(result.deleted)'
        <3> SUFFICES ASSUME said[run] = "question", dirty PROVE ChangesHave(result.deleted)'
            OBVIOUS
        <3>1. ChangesHave(result.deleted)
            BY <1>1 DEF RunInv, DirtyIsCaused
        <3>2. result.deleted => result'.deleted
            BY <2>2
        <3> QED
            BY <1>1, <3>1, <3>2 DEF ChangesHave
    <2>6. result'.success =>
            said[run] = "complete" \/ (said[run] = "question" /\ ChangesHave(result.deleted)')
        BY <2>1, <2>5 DEF Succeeds
    <2>7. result'.success => run \notin left
        BY <2>3, <2>6
    <2> QED
        BY <1>1, <2>4, <2>6, <2>7 DEF RunInv, ResultTold
<1>5. OneWaitedFor' /\ DirtyIsCaused'
    BY <1>1 DEF RunInv, OneWaitedFor, DirtyIsCaused
<1> QED
    BY <1>3, <1>4, <1>5 DEF RunInv

LEMMA ReturnKeeps == RunInv /\ (Retry \/ Rerun \/ Reply) => RunInv'
<1> SUFFICES ASSUME RunInv, Retry \/ Rerun \/ Reply PROVE RunInv'
    OBVIOUS
<1>1. CASE Retry
    <2>1. /\ step = "return" /\ step' = "start" /\ attempt = 1 /\ attempt' = 2
          /\ retries' = retries + 1 /\ targets' = targets \cup asked
          /\ UNCHANGED <<worker, saved, stdout, wrote, dirty, said, asked>>
          /\ UNCHANGED <<rerun, run, overlap, given, left, doomed, result, retried, shown>>
        BY <1>1 DEF Retry, io
    <2>2. retries' \in 0 .. RunTurns /\ RunsCounted'
        BY <2>1, RunNumbers, RunBounds DEF RunInv, RunsCounted
    <2>3. RunTypeOK'
        BY <2>1, <2>2 DEF RunInv, RunTypeOK
    <2>4. StdoutKept' /\ ResultTold' /\ OneWaitedFor' /\ DirtyIsCaused'
        BY <2>1 DEF RunInv, StdoutKept, ResultTold, OneWaitedFor, DirtyIsCaused
    <2> QED
        BY <2>2, <2>3, <2>4 DEF RunInv
<1>2. CASE Rerun
    <2>1. /\ step = "decide" /\ step' = "start" /\ rerun < RunTurns /\ rerun' = rerun + 1
          /\ attempt' = 1 /\ given' = targets
          /\ UNCHANGED <<worker, saved, stdout, wrote, dirty, said, asked>>
          /\ UNCHANGED <<run, overlap, targets, retried, retries, left, doomed, result, shown>>
        BY <1>2 DEF Rerun, io
    <2>2. rerun' \in 1 .. RunTurns /\ RunsCounted'
        BY <2>1, RunNumbers, RunBounds DEF RunInv, RunsCounted
    <2>3. RunTypeOK'
        BY <2>1, <2>2 DEF RunInv, RunTypeOK
    <2>4. StdoutKept' /\ ResultTold' /\ OneWaitedFor' /\ DirtyIsCaused'
        BY <2>1 DEF RunInv, StdoutKept, ResultTold, OneWaitedFor, DirtyIsCaused
    <2> QED
        BY <2>2, <2>3, <2>4 DEF RunInv
<1>3. CASE Reply
    <2>1. /\ step = "decide" /\ step' = "replied"
          /\ UNCHANGED <<worker, saved, stdout, wrote, dirty, said, asked, left, doomed, result, shown>>
          /\ UNCHANGED <<rerun, attempt, run, overlap, targets, given, retried, retries>>
        BY <1>3 DEF Reply, io, turns
    <2>2. RunTypeOK' /\ RunsCounted' /\ StdoutKept' /\ OneWaitedFor' /\ DirtyIsCaused'
        BY <2>1 DEF RunInv, RunTypeOK, RunsCounted, StdoutKept, OneWaitedFor, DirtyIsCaused
    <2>3. ResultTold'
        <3>1. ChangesHave(result.deleted)' = ChangesHave(result.deleted)
            BY <2>1 DEF ChangesHave
        <3> QED
            BY <2>1, <3>1 DEF RunInv, ResultTold
    <2> QED
        BY <2>2, <2>3 DEF RunInv
<1> QED
    BY <1>1, <1>2, <1>3

LEMMA ShownIsTrue ==
    ASSUME result \in Returned, shown \in Returned
    PROVE  /\ Shown \in Returned /\ Shown.changed = result.changed
           /\ Shown.deleted = result.deleted /\ (Shown.success => result.success)
<1>1. CASE rerun = 1
    <2>1. Shown = [result EXCEPT !.success = result.success /\ result.stall = "none"]
        BY <1>1 DEF Shown
    <2>2. (result.success /\ result.stall = "none") \in BOOLEAN
        OBVIOUS
    <2> QED
        BY <2>1, <2>2 DEF Returned
<1>2. CASE rerun # 1
    <2>1. Shown = [result EXCEPT !.stall = shown.stall]
        BY <1>2 DEF Shown
    <2> QED
        BY <2>1 DEF Returned
<1> QED
    BY <1>1, <1>2

LEMMA EndTurnKeeps == RunInv /\ EndTurn => RunInv'
<1> SUFFICES ASSUME RunInv, EndTurn PROVE RunInv'
    OBVIOUS
<1>1. /\ step = "return" /\ step' = "decide" /\ retried' \in BOOLEAN /\ shown' = Shown
      /\ UNCHANGED <<worker, saved, stdout, wrote, dirty, said, asked>>
      /\ UNCHANGED <<rerun, attempt, run, overlap, targets, given, retries,
                     left, doomed, result>>
    BY DEF EndTurn, io
<1>2. /\ shown' \in Returned /\ shown'.changed = result.changed
      /\ shown'.deleted = result.deleted /\ (shown'.success => result.success)
    BY <1>1, ShownIsTrue DEF RunInv, RunTypeOK
<1>3. RunTypeOK' /\ RunsCounted' /\ StdoutKept'
    BY <1>1, <1>2 DEF RunInv, RunTypeOK, RunsCounted, StdoutKept
<1>4. ResultTold'
    <2>1. ChangesHave(result.deleted)' = ChangesHave(result.deleted)
        BY <1>1 DEF ChangesHave
    <2> QED
        BY <1>1, <1>2, <2>1 DEF RunInv, ResultTold
<1>5. OneWaitedFor' /\ DirtyIsCaused'
    BY <1>1 DEF RunInv, OneWaitedFor, DirtyIsCaused
<1> QED
    BY <1>3, <1>4, <1>5 DEF RunInv

LEMMA RunStep == RunInv /\ [RunNext]_runVars => RunInv'
<1> SUFFICES ASSUME RunInv, [RunNext]_runVars PROVE RunInv'
    OBVIOUS
<1>1. CASE UNCHANGED runVars
    <2>1. /\ UNCHANGED <<step, rerun, attempt, run, worker, saved, stdout, overlap, left>>
          /\ UNCHANGED <<wrote, dirty, said, targets, given, asked, doomed, result, retried>>
          /\ UNCHANGED <<retries, shown>>
        BY <1>1 DEF runVars
    <2>2. RunTypeOK' /\ RunsCounted' /\ StdoutKept' /\ OneWaitedFor'
        BY <2>1 DEF RunInv, RunTypeOK, RunsCounted, StdoutKept, OneWaitedFor
    <2>3. /\ ChangesHave(result.deleted)' = ChangesHave(result.deleted)
          /\ ChangesHave(FALSE)' = ChangesHave(FALSE)
        BY <2>1 DEF ChangesHave
    <2>4. ResultTold' /\ DirtyIsCaused'
        BY <2>1, <2>3 DEF RunInv, ResultTold, DirtyIsCaused
    <2> QED
        BY <2>2, <2>4 DEF RunInv
<1> QED
    BY <1>1, WorkerWritesKeeps, WorkerEndsKeeps, StartRunKeeps, JoinedKeeps, GraceOverKeeps,
       DeleteKeeps, AttributeKeeps, ReturnKeeps, EndTurnKeeps DEF RunNext, Handler

LEMMA StdoutIsKept == RunInv => StdoutIsolated
    BY DEF RunInv, RunTypeOK, StdoutKept, StdoutIsolated

LEMMA ResultsAreTold == RunInv => AnswerIsTrue
    BY DEF RunInv, ResultTold, AnswerIsTrue, EditsReported, SuccessIsComplete, ChangesHave

\* Unless a run was started beside a worker that was left behind, stdout is the
\* buffer of the worker that is in, and the protocol's own when none is, for
\* every number of turns and whichever way the workers end.
THEOREM StdoutIsIsolated == RunSpec => []StdoutIsolated
    BY StdoutIsKept, RunStarts, RunStep, PTL DEF RunSpec

\* The handler's answer keeps no edit of the last run back, what a worker does
\* after it was left behind excepted, and calls no run a success that was
\* stopped, asks for files or has run out of time.
THEOREM AnswersAreTrue == RunSpec => []AnswerIsTrue
    BY ResultsAreTold, RunStarts, RunStep, PTL DEF RunSpec

-----------------------------------------------------------------------------
(***************************************************************************)
(* The supervisor's evaluation of a question.                              *)
(***************************************************************************)
\* The calls among the first k messages have their results, and nothing but
\* another reply follows these.
Settled(k) ==
    \A i \in 1 .. k : talk[i] # Result =>
        /\ i + talk[i] <= k
        /\ \A j \in i + 1 .. i + talk[i] : talk[j] = Result
        /\ i + talk[i] < Len(talk) => talk[i + talk[i] + 1] # Result

\* While the tools run, only the last reply waits for results.
TalkGoesOn ==
    /\ mode \in {"round", "recover", "last"} => Settled(Len(talk))
    /\ mode = "tools" =>
         Len(talk) > 0 /\ talk[Len(talk)] # Result /\ Settled(Len(talk) - 1)

\* Completions are counted with the rounds, but for the one after them.
CompletionsCounted ==
    /\ mode = "round" => calls = round /\ round < MaxRounds
    /\ mode \in {"tools", "recover", "last"} => calls = round
    /\ calls <= MaxRounds + 1

\* The inductive invariant behind the theorems on evaluations.
EvaluationInv == SupervisorTypeOK /\ TalkGoesOn /\ CompletionsCounted

Names == Verdicts \cup {"rule_approve", "rule_deny", "failed", "human", "timeout"}

LEMMA SupervisorBounds ==
    /\ MaxRounds \in Nat /\ MaxRounds > 0 /\ MaxToolCalls \in Nat /\ MaxToolCalls > 0
    BY SupervisorAssumption

LEMMA EvaluationStarts == SupervisorInit => EvaluationInv
<1> SUFFICES ASSUME SupervisorInit PROVE EvaluationInv
    OBVIOUS
<1>1. question \in Questions /\ text \in Texts
    BY DEF SupervisorInit, NoQuestion, Questions, Silence, Texts
<1>2. SupervisorTypeOK
    <2>1. talk \in Seq(0 .. MaxToolCalls) /\ round \in 0 .. MaxRounds
        BY SupervisorBounds DEF SupervisorInit
    <2>2. /\ calls \in Nat /\ count \in Nat /\ aborts \in Nat /\ hushed \in Nat
          /\ mode = "coder" /\ answer \in BOOLEAN /\ emitted = {}
        BY DEF SupervisorInit
    <2> QED
        BY <1>1, <2>1, <2>2 DEF SupervisorTypeOK
<1> QED
    BY <1>2, SupervisorBounds DEF SupervisorInit, EvaluationInv, TalkGoesOn, CompletionsCounted

\* Whatever is decided, the record keeps its type.
LEMMA Recorded ==
    ASSUME SupervisorTypeOK, NEW name \in Names, RecordDecision(name)
    PROVE  /\ count' \in Nat /\ aborts' \in Nat /\ hushed' \in Nat
           /\ emitted' \subseteq Names \X Reasons
<1>1. PICK reason \in Reasons :
        /\ emitted' = emitted \cup {<<name, reason>>}
        /\ hushed' = IF <<name, reason>> \in emitted THEN hushed + 1 ELSE hushed
    BY DEF RecordDecision, Reasons
<1>2. emitted' \subseteq Names \X Reasons
    BY <1>1 DEF SupervisorTypeOK, Names
<1> QED
    BY <1>1, <1>2 DEF RecordDecision, SupervisorTypeOK

LEMMA InterceptNames == \A q : Intercept(q) \in {"rule_approve", "rule_deny", "ask"}
    BY DEF Intercept

LEMMA AskKeeps == EvaluationInv /\ Ask => EvaluationInv'
<1> SUFFICES ASSUME EvaluationInv, Ask PROVE EvaluationInv'
    OBVIOUS
<1>1. /\ talk' = <<>> /\ round' = 0 /\ calls' = 0 /\ text' = Silence /\ mode = "coder"
    BY DEF Ask
<1>2. PICK q \in Questions :
        IF Intercept(q) = "ask"
          THEN /\ question' = NoQuestion /\ mode' \in {"round", "verdict"}
               /\ UNCHANGED <<ledger, answer>>
          ELSE /\ question' = q /\ RecordDecision(Intercept(q)) /\ UNCHANGED mode
               /\ answer' = (Intercept(q) = "rule_approve")
    BY DEF Ask
<1>3. text' \in Texts /\ NoQuestion \in Questions
    BY <1>1 DEF Silence, Texts, NoQuestion, Questions
<1>4. /\ question' \in Questions /\ mode' \in {"coder", "round", "verdict"} /\ answer' \in BOOLEAN
      /\ count' \in Nat /\ aborts' \in Nat /\ hushed' \in Nat
      /\ emitted' \subseteq Names \X Reasons
    <2>1. CASE Intercept(q) = "ask"
        BY <1>2, <1>3, <2>1 DEF EvaluationInv, SupervisorTypeOK, ledger, Names
    <2>2. CASE Intercept(q) # "ask"
        <3>1. Intercept(q) \in Names
            BY <2>2, InterceptNames DEF Names
        <3>2. answer' \in BOOLEAN /\ question' \in Questions /\ mode' = mode
            BY <1>2, <2>2
        <3> QED
            BY <1>1, <1>2, <2>2, <3>1, <3>2, Recorded DEF EvaluationInv
    <2> QED
        BY <2>1, <2>2
<1>5. SupervisorTypeOK'
    BY <1>1, <1>3, <1>4, SupervisorBounds DEF SupervisorTypeOK, Names
<1> QED
    BY <1>1, <1>4, <1>5, SupervisorBounds DEF EvaluationInv, TalkGoesOn, Settled, CompletionsCounted

\* Steps that end an evaluation.
LEMMA DecideKeeps ==
    EvaluationInv /\ (Decide \/ HumanAnswers \/ GateTimesOut \/ CoderEnds) => EvaluationInv'
<1> SUFFICES ASSUME EvaluationInv, Decide \/ HumanAnswers \/ GateTimesOut \/ CoderEnds
             PROVE  EvaluationInv'
    OBVIOUS
<1>1. /\ mode' \in {"coder", "gate", "aborted", "done"} /\ answer' \in BOOLEAN
      /\ UNCHANGED <<question, talk, round, calls, text>>
    BY DEF Decide, HumanAnswers, GateTimesOut, CoderEnds, evaluation, EvaluationInv,
           SupervisorTypeOK
<1>2. /\ count' \in Nat /\ aborts' \in Nat /\ hushed' \in Nat
      /\ emitted' \subseteq Names \X Reasons
    <2>1. CASE Decide
        <3> DEFINE verdict == IF text.says = "nothing" THEN "failed" ELSE text.says
        <3>1. RecordDecision(verdict)
            BY <2>1 DEF Decide
        <3>2. verdict \in Names
            BY DEF EvaluationInv, SupervisorTypeOK, Texts, Names
        <3> HIDE DEF verdict
        <3> QED
            BY <3>1, <3>2, Recorded DEF EvaluationInv
    <2>2. CASE HumanAnswers
        BY <2>2, Recorded DEF HumanAnswers, EvaluationInv, Names
    <2>3. CASE GateTimesOut
        BY <2>3, Recorded DEF GateTimesOut, EvaluationInv, Names
    <2>4. CASE CoderEnds
        BY <2>4 DEF CoderEnds, EvaluationInv, SupervisorTypeOK, ledger, Names
    <2> QED
        BY <2>1, <2>2, <2>3, <2>4
<1>3. SupervisorTypeOK'
    BY <1>1, <1>2 DEF EvaluationInv, SupervisorTypeOK, Names
<1> QED
    BY <1>1, <1>3 DEF EvaluationInv, TalkGoesOn, CompletionsCounted

LEMMA CompleteKeeps == EvaluationInv /\ Complete => EvaluationInv'
<1> SUFFICES ASSUME EvaluationInv, Complete PROVE EvaluationInv'
    OBVIOUS
<1>0. /\ SupervisorTypeOK /\ talk \in Seq(0 .. MaxToolCalls) /\ Len(talk) \in Nat
      /\ calls \in Nat /\ round \in Nat /\ calls = round /\ round < MaxRounds
      /\ Settled(Len(talk))
    BY SupervisorBounds DEF EvaluationInv, SupervisorTypeOK, TalkGoesOn, CompletionsCounted,
                            Complete
<1>1. /\ mode = "round" /\ calls' = calls + 1 /\ round' = round + 1
      /\ UNCHANGED <<question, decided, count, aborts, emitted, hushed, answer>>
    BY DEF Complete, ledger
<1>2. \/ mode' \in {"verdict", "recover"} /\ text' \in Texts /\ talk' = talk
      \/ /\ mode' = "tools" /\ text' = text
         /\ \E n \in 1 .. MaxToolCalls : talk' = Append(talk, n)
    <2>1. PICK reply \in Replies :
            CASE reply.kind = "error" ->
                   mode' = "verdict" /\ text' = Silence /\ UNCHANGED talk
              [] reply.kind = "calls" ->
                   mode' = "tools" /\ talk' = Append(talk, reply.n) /\ UNCHANGED text
              [] OTHER ->
                   /\ text' = reply.text /\ UNCHANGED talk
                   /\ mode' = IF reply.text.leaked THEN "recover" ELSE "verdict"
        BY DEF Complete
    <2>2. CASE reply.kind = "error"
        <3>1. mode' = "verdict" /\ text' = Silence /\ UNCHANGED talk
            BY <2>1, <2>2
        <3>2. Silence \in Texts
            BY DEF Silence, Texts
        <3> QED
            BY <3>1, <3>2
    <2>3. CASE reply.kind = "calls"
        <3>1. reply.n \in 1 .. MaxToolCalls
            BY <2>3 DEF Replies
        <3> QED
            BY <2>1, <2>3, <3>1
    <2>4. CASE reply.kind \notin {"error", "calls"}
        <3>1. reply.text \in Texts
            BY <2>4 DEF Replies
        <3>2. text' = reply.text /\ UNCHANGED talk /\ mode' \in {"recover", "verdict"}
            BY <2>1, <2>4
        <3> QED
            BY <3>1, <3>2
    <2> QED
        BY <2>2, <2>3, <2>4
<1>3. CompletionsCounted' /\ round' \in 0 .. MaxRounds /\ calls' \in Nat
    BY <1>0, <1>1, <1>2, SupervisorBounds DEF CompletionsCounted
<1>4. CASE mode' \in {"verdict", "recover"} /\ text' \in Texts /\ talk' = talk
    <2>1. SupervisorTypeOK'
        BY <1>0, <1>1, <1>3, <1>4 DEF SupervisorTypeOK
    <2>2. TalkGoesOn'
        BY <1>0, <1>4 DEF TalkGoesOn, Settled
    <2> QED
        BY <1>3, <2>1, <2>2 DEF EvaluationInv
<1>5. ASSUME NEW n \in 1 .. MaxToolCalls,
             mode' = "tools", text' = text, talk' = Append(talk, n)
      PROVE  EvaluationInv'
    <2>1. talk' \in Seq(0 .. MaxToolCalls)
        BY <1>0, <1>5, SupervisorBounds
    <2>2. SupervisorTypeOK'
        BY <1>0, <1>1, <1>3, <1>5, <2>1 DEF SupervisorTypeOK
    <2>3. /\ Len(talk') = Len(talk) + 1 /\ talk'[Len(talk) + 1] = n
          /\ \A i \in 1 .. Len(talk) : talk'[i] = talk[i]
        BY <1>0, <1>5
    <2>4. Settled(Len(talk) - 1)'
        <3> SUFFICES ASSUME NEW i \in 1 .. Len(talk), talk[i] # Result
                     PROVE  /\ i + talk[i] <= Len(talk)
                            /\ \A j \in i + 1 .. i + talk[i] : talk'[j] = Result
                            /\ i + talk[i] < Len(talk') => talk'[i + talk[i] + 1] # Result
            BY <1>0, <2>3 DEF Settled
        <3>1. talk[i] \in Nat /\ i \in Nat
            BY <1>0, SupervisorBounds
        <3>2. /\ i + talk[i] <= Len(talk)
              /\ \A j \in i + 1 .. i + talk[i] : talk[j] = Result
              /\ i + talk[i] < Len(talk) => talk[i + talk[i] + 1] # Result
            BY <1>0 DEF Settled
        <3>3. \A j \in i + 1 .. i + talk[i] : talk'[j] = Result
            <4> SUFFICES ASSUME NEW j \in i + 1 .. i + talk[i] PROVE talk'[j] = Result
                OBVIOUS
            <4>1. j \in 1 .. Len(talk)
                BY <1>0, <3>1, <3>2
            <4> QED
                BY <2>3, <3>2, <4>1
        <3>4. talk'[i + talk[i] + 1] # Result
            <4>1. CASE i + talk[i] = Len(talk)
                <5>1. i + talk[i] + 1 = Len(talk) + 1
                    BY <4>1
                <5>2. talk'[i + talk[i] + 1] = n /\ n # 0
                    BY <2>3, <5>1
                <5> QED
                    BY <5>2 DEF Result
            <4>2. CASE i + talk[i] < Len(talk)
                <5>0. Len(talk) \in Nat
                    BY <1>0
                <5>1. i + talk[i] + 1 \in 1 .. Len(talk)
                    BY <3>1, <4>2, <5>0
                <5> QED
                    BY <2>3, <3>2, <4>2, <5>1
            <4>3. Len(talk) \in Nat /\ i + talk[i] <= Len(talk)
                BY <1>0, <3>2
            <4>4. \A a, b \in Nat : a <= b => a = b \/ a < b
                OBVIOUS
            <4>5. i + talk[i] \in Nat
                BY <3>1
            <4>6. i + talk[i] = Len(talk) \/ i + talk[i] < Len(talk)
                BY <4>3, <4>4, <4>5, Zenon
            <4> QED
                BY <4>1, <4>2, <4>6, Zenon
        <3> QED
            BY <3>2, <3>3, <3>4
    <2>5. TalkGoesOn'
        BY <1>0, <1>5, <2>3, <2>4 DEF TalkGoesOn, Result
    <2> QED
        BY <1>3, <2>2, <2>5 DEF EvaluationInv
<1> QED
    BY <1>2, <1>4, <1>5

LEMMA RunToolsKeeps == EvaluationInv /\ RunTools => EvaluationInv'
<1> SUFFICES ASSUME EvaluationInv, RunTools PROVE EvaluationInv'
    OBVIOUS
<1> DEFINE k == Len(talk)
           n == talk[Len(talk)]
<1>0. /\ SupervisorTypeOK /\ talk \in Seq(0 .. MaxToolCalls) /\ k \in Nat /\ k > 0
      /\ n \in Nat /\ n > 0
      /\ round \in 0 .. MaxRounds /\ calls = round
      /\ Settled(k - 1)
    <2>1. /\ SupervisorTypeOK /\ talk \in Seq(0 .. MaxToolCalls) /\ k > 0
          /\ n # 0 /\ round \in 0 .. MaxRounds /\ calls = round /\ Settled(k - 1)
        BY DEF EvaluationInv, SupervisorTypeOK, TalkGoesOn, CompletionsCounted, RunTools, Result
    <2>3. k \in Nat
        BY <2>1
    <2>2. n \in 0 .. MaxToolCalls
        <3>1. Len(talk) \in 1 .. Len(talk)
            BY <2>1, <2>3
        <3>2. talk \in Seq(0 .. MaxToolCalls)
            BY <2>1
        <3> QED
            BY <3>1, <3>2, Element
    <2> QED
        BY <2>1, <2>2, <2>3, SupervisorBounds
<1>1. /\ mode = "tools" /\ mode' \in {"round", "last"}
      /\ mode' = "round" => round < MaxRounds
      /\ talk' = talk \o [i \in 1 .. n |-> Result]
      /\ UNCHANGED <<question, round, calls, text, decided, count, aborts, emitted, hushed, answer>>
    BY DEF RunTools, Last, ledger
<1>2. /\ talk' \in Seq(0 .. MaxToolCalls) /\ Len(talk') = k + n
      /\ \A i \in 1 .. k : talk'[i] = talk[i]
      /\ \A i \in k + 1 .. k + n : talk'[i] = Result
    <2> DEFINE results == [i \in 1 .. n |-> Result]
    <2>1. results \in Seq(0 .. MaxToolCalls) /\ Len(results) = n
          /\ \A i \in 1 .. n : results[i] = Result
        <3> HIDE DEF n
        <3>1. Result \in 0 .. MaxToolCalls /\ n \in Nat
            BY <1>0, SupervisorBounds DEF Result
        <3> QED
            BY <3>1
    <2>2. talk' = talk \o results
        BY <1>1
    <2> HIDE DEF results, n
    <2>3. /\ talk' \in Seq(0 .. MaxToolCalls) /\ Len(talk') = k + n
          /\ \A i \in 1 .. k + n : talk'[i] = IF i <= k THEN talk[i] ELSE results[i - k]
        BY <1>0, <2>1, <2>2, Concatenated
    <2>4. ASSUME NEW i \in k + 1 .. k + n PROVE talk'[i] = Result
        <3>1. i \in 1 .. k + n /\ ~(i <= k) /\ i - k \in 1 .. n
            BY <1>0
        <3> QED
            BY <2>1, <2>3, <3>1
    <2>5. ASSUME NEW i \in 1 .. k PROVE talk'[i] = talk[i]
        <3>1. i \in 1 .. k + n /\ i <= k
            BY <1>0
        <3> QED
            BY <2>3, <3>1
    <2> QED
        BY <2>3, <2>4, <2>5
<1>3. SupervisorTypeOK'
    BY <1>0, <1>1, <1>2 DEF SupervisorTypeOK
<1>4. CompletionsCounted'
    BY <1>0, <1>1 DEF EvaluationInv, CompletionsCounted
<1>5. Settled(Len(talk))'
    <2> SUFFICES ASSUME NEW i \in 1 .. k + n, talk'[i] # Result
                 PROVE  /\ i + talk'[i] <= k + n
                        /\ \A j \in i + 1 .. i + talk'[i] : talk'[j] = Result
                        /\ i + talk'[i] < k + n => talk'[i + talk'[i] + 1] # Result
        BY <1>2 DEF Settled
    <2>1. i \in 1 .. k /\ talk'[i] = talk[i] /\ talk[i] # Result
        BY <1>0, <1>2
    <2>2. talk[i] \in Nat
        BY <1>0, <2>1, SupervisorBounds
    <2> HIDE DEF k, n
    <2>3. CASE i = k
        <3>1. talk'[i] = n
            BY <2>1, <2>3 DEF n, k
        <3> QED
            BY <1>0, <1>2, <2>3, <3>1
    <2>4. CASE i # k
        <3>1. /\ i \in 1 .. k - 1
            BY <1>0, <2>1, <2>4
        <3>2. /\ i + talk[i] <= k - 1
              /\ \A j \in i + 1 .. i + talk[i] : talk[j] = Result
              /\ i + talk[i] < k => talk[i + talk[i] + 1] # Result
            BY <1>0, <2>1, <3>1 DEF Settled, k
        <3>3. i + talk[i] + 1 \in 1 .. k /\ i + talk[i] < k /\ i + talk[i] <= k + n
            BY <1>0, <2>2, <3>1, <3>2
        <3>4. ASSUME NEW j \in i + 1 .. i + talk[i] PROVE talk'[j] = Result
            <4>1. j \in 1 .. k
                BY <1>0, <2>2, <3>1, <3>3
            <4> QED
                BY <1>2, <3>2, <4>1
        <3>5. talk'[i + talk[i] + 1] # Result
            BY <1>2, <3>2, <3>3
        <3> QED
            BY <2>1, <3>3, <3>4, <3>5
    <2> QED
        BY <2>3, <2>4
<1>6. TalkGoesOn'
    BY <1>1, <1>5 DEF TalkGoesOn
<1> QED
    BY <1>3, <1>4, <1>6 DEF EvaluationInv

LEMMA RecoverKeeps == EvaluationInv /\ (Recover \/ CompleteLast) => EvaluationInv'
<1> SUFFICES ASSUME EvaluationInv, Recover \/ CompleteLast PROVE EvaluationInv'
    OBVIOUS
<1>1. /\ mode \in {"recover", "last"} /\ mode' = "verdict" /\ calls' = calls + 1
      /\ text' \in Texts /\ UNCHANGED <<question, talk, round>>
      /\ UNCHANGED <<decided, count, aborts, emitted, hushed, answer>>
    BY DEF Recover, CompleteLast, ledger
<1>2. calls = round /\ round \in 0 .. MaxRounds /\ calls \in Nat
    BY <1>1 DEF EvaluationInv, SupervisorTypeOK, CompletionsCounted
<1>3. SupervisorTypeOK'
    BY <1>1, <1>2 DEF EvaluationInv, SupervisorTypeOK
<1>4. CompletionsCounted' /\ TalkGoesOn'
    BY <1>1, <1>2, SupervisorBounds DEF CompletionsCounted, TalkGoesOn
<1> QED
    BY <1>3, <1>4 DEF EvaluationInv

LEMMA EvaluationStep == EvaluationInv /\ [SupervisorNext]_supVars => EvaluationInv'
<1>1. CASE UNCHANGED supVars
    BY <1>1 DEF supVars, EvaluationInv, SupervisorTypeOK, TalkGoesOn, Settled, CompletionsCounted
<1> QED
    BY <1>1, AskKeeps, DecideKeeps, CompleteKeeps, RunToolsKeeps, RecoverKeeps
       DEF SupervisorNext, Working

\* The record of the decisions, the trace and the counters tell the same.
Aborting(s) == {i \in DOMAIN s : s[i] \in Refusals}

DecisionsKept ==
    /\ decided \in Seq(Names) /\ count = Len(decided)
    /\ IsFiniteSet(emitted) /\ count = Cardinality(emitted) + hushed
    /\ \A i \in DOMAIN decided : \E r \in Reasons : <<decided[i], r>> \in emitted
    /\ \A e \in emitted : \E i \in DOMAIN decided : decided[i] = e[1]
    /\ aborts = Cardinality(Aborting(decided))

LEMMA AbortingGrows ==
    ASSUME NEW s \in Seq(Names), NEW name \in Names
    PROVE  Cardinality(Aborting(Append(s, name))) =
             IF name \in Refusals THEN Cardinality(Aborting(s)) + 1 ELSE Cardinality(Aborting(s))
<1> DEFINE n == Len(s)
           t == Append(s, name)
<1>1. /\ n \in Nat /\ DOMAIN s = 1 .. n /\ DOMAIN t = 1 .. n + 1
      /\ t[n + 1] = name /\ \A i \in 1 .. n : t[i] = s[i]
    OBVIOUS
<1>2. IsFiniteSet(Aborting(s))
    <2>1. IsFiniteSet(1 .. n)
        BY <1>1, FS_Interval
    <2>2. Aborting(s) \in SUBSET (1 .. n)
        BY <1>1 DEF Aborting
    <2> QED
        BY <2>1, <2>2, FS_Subset
<1>3. n + 1 \notin Aborting(s)
    BY <1>1 DEF Aborting
<1> HIDE DEF n, t
<1>4. CASE name \in Refusals
    <2>1. Aborting(t) = Aborting(s) \cup {n + 1}
        BY <1>1, <1>4 DEF Aborting
    <2> QED
        BY <1>2, <1>3, <1>4, <2>1, FS_AddElement DEF t
<1>5. CASE name \notin Refusals
    <2>1. Aborting(t) = Aborting(s)
        BY <1>1, <1>5 DEF Aborting
    <2> QED
        BY <1>5, <2>1 DEF t
<1> QED
    BY <1>4, <1>5

LEMMA DecisionsStart == SupervisorInit => DecisionsKept
<1> SUFFICES ASSUME SupervisorInit PROVE DecisionsKept
    OBVIOUS
<1>1. decided = <<>> /\ emitted = {} /\ count = 0 /\ hushed = 0 /\ aborts = 0
    BY DEF SupervisorInit
<1>2. Aborting(decided) = {}
    BY <1>1 DEF Aborting
<1> QED
    BY <1>1, <1>2, FS_EmptySet DEF DecisionsKept

LEMMA DecisionRecorded ==
    ASSUME SupervisorTypeOK, DecisionsKept, NEW name \in Names, RecordDecision(name)
    PROVE  DecisionsKept'
<1>1. PICK reason \in Reasons :
        /\ emitted' = emitted \cup {<<name, reason>>}
        /\ hushed' = IF <<name, reason>> \in emitted THEN hushed + 1 ELSE hushed
    BY DEF RecordDecision, Reasons
<1>2. /\ decided' = Append(decided, name) /\ count' = count + 1
      /\ aborts' = IF name \in Refusals THEN aborts + 1 ELSE aborts
    BY DEF RecordDecision
<1>3. /\ decided \in Seq(Names) /\ count = Len(decided) /\ Len(decided) \in Nat
      /\ IsFiniteSet(emitted) /\ count = Cardinality(emitted) + hushed /\ hushed \in Nat
    BY DEF DecisionsKept, SupervisorTypeOK
<1>4. /\ decided' \in Seq(Names) /\ Len(decided') = Len(decided) + 1
      /\ DOMAIN decided = 1 .. Len(decided) /\ DOMAIN decided' = 1 .. Len(decided) + 1
      /\ decided'[Len(decided) + 1] = name
      /\ \A i \in 1 .. Len(decided) : decided'[i] = decided[i]
    <2> DEFINE s == decided
    <2>1. decided' = Append(s, name) /\ s \in Seq(Names)
        BY <1>2, <1>3
    <2> HIDE DEF s
    <2>2. /\ Append(s, name) \in Seq(Names) /\ Len(Append(s, name)) = Len(s) + 1
          /\ DOMAIN s = 1 .. Len(s) /\ DOMAIN Append(s, name) = 1 .. Len(s) + 1
          /\ Append(s, name)[Len(s) + 1] = name
          /\ \A i \in 1 .. Len(s) : Append(s, name)[i] = s[i]
        BY <2>1
    <2> QED
        BY <2>1, <2>2 DEF s
<1>5. IsFiniteSet(emitted') /\ count' = Cardinality(emitted') + hushed'
    <2>1. Cardinality(emitted) \in Nat
        BY <1>3, FS_CardinalityType
    <2>2. /\ IsFiniteSet(emitted')
          /\ Cardinality(emitted') = IF <<name, reason>> \in emitted
                                       THEN Cardinality(emitted) ELSE Cardinality(emitted) + 1
        BY <1>1, <1>3, FS_AddElement
    <2> QED
        BY <1>1, <1>2, <1>3, <2>1, <2>2
<1>6. \A i \in DOMAIN decided' : \E r \in Reasons : <<decided'[i], r>> \in emitted'
    <2> SUFFICES ASSUME NEW i \in 1 .. Len(decided) + 1
                 PROVE  \E r \in Reasons : <<decided'[i], r>> \in emitted'
        BY <1>4
    <2>1. CASE i = Len(decided) + 1
        BY <1>1, <1>4, <2>1
    <2>2. CASE i # Len(decided) + 1
        <3>1. i \in DOMAIN decided /\ decided'[i] = decided[i]
            BY <1>3, <1>4, <2>2
        <3> QED
            BY <1>1, <3>1 DEF DecisionsKept
    <2> QED
        BY <2>1, <2>2
<1>7. \A e \in emitted' : \E i \in DOMAIN decided' : decided'[i] = e[1]
    <2> SUFFICES ASSUME NEW e \in emitted' PROVE \E i \in DOMAIN decided' : decided'[i] = e[1]
        OBVIOUS
    <2>1. CASE e \in emitted
        <3>1. PICK i \in DOMAIN decided : decided[i] = e[1]
            BY <2>1 DEF DecisionsKept
        <3>2. i \in DOMAIN decided' /\ decided'[i] = e[1]
            BY <1>3, <1>4, <3>1
        <3> QED
            BY <3>2
    <2>2. CASE e = <<name, reason>>
        <3>1. Len(decided) + 1 \in DOMAIN decided' /\ decided'[Len(decided) + 1] = e[1]
            BY <1>3, <1>4, <2>2
        <3> QED
            BY <3>1
    <2> QED
        BY <1>1, <2>1, <2>2
<1>8. aborts' = Cardinality(Aborting(decided'))
    BY <1>2, <1>3, AbortingGrows DEF DecisionsKept
<1> QED
    BY <1>2, <1>3, <1>4, <1>5, <1>6, <1>7, <1>8 DEF DecisionsKept

LEMMA DecisionsStep ==
    EvaluationInv /\ DecisionsKept /\ [SupervisorNext]_supVars => DecisionsKept'
<1> SUFFICES ASSUME SupervisorTypeOK, DecisionsKept, [SupervisorNext]_supVars PROVE DecisionsKept'
    BY DEF EvaluationInv
<1>1. CASE UNCHANGED ledger
    BY <1>1 DEF ledger, DecisionsKept
<1>2. ASSUME NEW name \in Names, RecordDecision(name) PROVE DecisionsKept'
    BY <1>2, DecisionRecorded
<1>3. CASE Ask
    <2>1. PICK q \in Questions :
            IF Intercept(q) = "ask" THEN UNCHANGED <<ledger, answer>> ELSE RecordDecision(Intercept(q))
        BY <1>3 DEF Ask
    <2>2. CASE Intercept(q) = "ask"
        BY <1>1, <2>1, <2>2
    <2>3. CASE Intercept(q) # "ask"
        <3>1. Intercept(q) \in Names
            BY <2>3, InterceptNames DEF Names
        <3> QED
            BY <1>2, <2>1, <2>3, <3>1
    <2> QED
        BY <2>2, <2>3
<1>4. CASE Decide
    <2> DEFINE verdict == IF text.says = "nothing" THEN "failed" ELSE text.says
    <2>1. RecordDecision(verdict)
        BY <1>4 DEF Decide
    <2>2. verdict \in Names
        BY DEF SupervisorTypeOK, Texts, Names
    <2> QED
        BY <1>2, <2>1, <2>2
<1>5. CASE HumanAnswers \/ GateTimesOut
    <2>1. RecordDecision("human") \/ RecordDecision("timeout")
        BY <1>5 DEF HumanAnswers, GateTimesOut
    <2>2. "human" \in Names /\ "timeout" \in Names
        BY DEF Names
    <2> QED
        BY <1>2, <2>1, <2>2
<1>6. CASE CoderEnds \/ Complete \/ RunTools \/ Recover \/ CompleteLast
    BY <1>1, <1>6 DEF CoderEnds, Complete, RunTools, Recover, CompleteLast
<1>7. CASE UNCHANGED supVars
    BY <1>1, <1>7 DEF supVars, ledger
<1> QED
    BY <1>3, <1>4, <1>5, <1>6, <1>7 DEF SupervisorNext, Working

LEMMA EvaluationIsClosed == EvaluationInv /\ DecisionsKept => EvaluationsClose
<1>1. EvaluationInv => CallsAreAnswered /\ CompletionsBounded
    BY DEF EvaluationInv, SupervisorTypeOK, TalkGoesOn, Settled, CompletionsCounted,
           CallsAreAnswered, CompletionsBounded
<1>2. EvaluationInv /\ DecisionsKept => DecisionsAccounted
    <2> SUFFICES ASSUME SupervisorTypeOK, DecisionsKept PROVE DecisionsAccounted
        BY DEF EvaluationInv
    <2>1. ToSet(decided) \subseteq {e[1] : e \in emitted}
        BY DEF ToSet, DecisionsKept
    <2>2. {e[1] : e \in emitted} \subseteq ToSet(decided)
        BY DEF ToSet, DecisionsKept
    <2> QED
        BY <2>1, <2>2 DEF DecisionsKept, DecisionsAccounted, Aborting
<1> QED
    BY <1>1, <1>2 DEF EvaluationsClose

\* The model is never asked with a call of a tool left open, an evaluation
\* costs one completion more than its rounds at most, and what the record, the
\* trace and the counters tell of the decisions adds up, for every number of
\* rounds, calls and questions.
THEOREM EvaluationsAreClosed == SupervisorSpec => []EvaluationsClose
    BY EvaluationIsClosed, EvaluationStarts, EvaluationStep, DecisionsStart, DecisionsStep, PTL
    DEF SupervisorSpec

-----------------------------------------------------------------------------
(***************************************************************************)
(* The three side by side.                                                 *)
(***************************************************************************)
LEMMA SideBySideStarts == Init => RunInv /\ EvaluationInv /\ BridgeInv
    BY RunStarts, EvaluationStarts, BridgeStarts DEF Init

LEMMA SideBySideSteps ==
    [Next]_vars => /\ [RunNext]_runVars /\ [SupervisorNext]_supVars /\ [BridgeNext]_bridgeVars
<1> SUFFICES ASSUME [Next]_vars
             PROVE  /\ [RunNext]_runVars /\ [SupervisorNext]_supVars /\ [BridgeNext]_bridgeVars
    OBVIOUS
<1>1. CASE component = "run" /\ RunNext /\ Others("run")
    BY <1>1 DEF Others
<1>2. CASE component = "supervisor" /\ SupervisorNext /\ Others("supervisor")
    BY <1>2 DEF Others
<1>3. CASE component = "bridge" /\ BridgeNext /\ Others("bridge")
    BY <1>3 DEF Others
<1>4. CASE UNCHANGED vars
    BY <1>4 DEF vars
<1> QED
    BY <1>1, <1>2, <1>3, <1>4 DEF Next

LEMMA SideBySideInv == Spec => [](RunInv /\ EvaluationInv /\ BridgeInv)
<1>1. RunInv /\ EvaluationInv /\ BridgeInv /\ [Next]_vars => (RunInv /\ EvaluationInv /\ BridgeInv)'
    BY SideBySideSteps, RunStep, EvaluationStep, BridgeStep
<1> QED
    BY <1>1, SideBySideStarts, PTL DEF Spec

\* The values of all three stay in their sets: turns, runs, retries, rounds,
\* notifications and heartbeats never pass their limits.
THEOREM ExecutionTypes == Spec => []TypeOK
<1>1. RunInv /\ EvaluationInv /\ BridgeInv => TypeOK
    BY DEF RunInv, EvaluationInv, BridgeInv, TypeOK
<1> QED
    BY <1>1, SideBySideInv, PTL

\* What is proved of each alone holds of the three side by side, as they are
\* run together.
THEOREM ExecutionHolds ==
    Spec => [](StdoutIsolated /\ AnswerIsTrue /\ EvaluationsClose /\ BridgeKeepsOrder)
<1>1. Init => SupervisorInit
    BY DEF Init
<1> HIDE DEF RunInv, EvaluationInv, BridgeInv, DecisionsKept
<1> QED
    BY <1>1, SideBySideInv, SideBySideSteps, StdoutIsKept, ResultsAreTold, EvaluationIsClosed,
       DecisionsStart, DecisionsStep, BridgeIsInOrder, PTL DEF Spec

\* The coder hears a yes only on grounds.
LEMMA YesSteps ==
    ASSUME [SupervisorNext]_supVars, answer', count' > count, count \in Nat
    PROVE  \/ /\ mode = "coder" /\ ~question'.unsafe
              /\ "out" \notin question'.paths
           \/ mode = "verdict" /\ text.says = "approve"
           \/ mode = "gate"
<1>0. count' # count
    OBVIOUS
<1>1. CASE Ask
    <2>1. PICK q \in Questions :
            IF Intercept(q) = "ask"
              THEN /\ question' = NoQuestion /\ mode' \in {"round", "verdict"}
                   /\ UNCHANGED <<ledger, answer>>
              ELSE /\ question' = q /\ RecordDecision(Intercept(q)) /\ UNCHANGED mode
                   /\ answer' = (Intercept(q) = "rule_approve")
        BY <1>1 DEF Ask
    <2>2. Intercept(q) # "ask"
        BY <1>0, <2>1 DEF ledger
    <2>3. Intercept(q) = "rule_approve" /\ question' = q
        BY <2>1, <2>2
    <2>4. Risk(q) = "low"
        BY <2>3 DEF Intercept
    <2>5. ~q.unsafe /\ "out" \notin q.paths
        BY <2>4 DEF Risk, Harmless
    <2> QED
        BY <1>1, <2>3, <2>5 DEF Ask
<1>2. CASE Decide
    BY <1>2 DEF Decide
<1>3. CASE HumanAnswers \/ GateTimesOut
    BY <1>3 DEF HumanAnswers, GateTimesOut
<1>4. CASE CoderEnds \/ Complete \/ RunTools \/ Recover \/ CompleteLast \/ UNCHANGED supVars
    BY <1>0, <1>4 DEF CoderEnds, Complete, RunTools, Recover, CompleteLast, supVars, ledger
<1> QED
    BY <1>1, <1>2, <1>3, <1>4 DEF SupervisorNext, Working

\* A file goes only after an answer.
LEMMA DeleteSteps ==
    ASSUME RunInv, [RunNext]_runVars, doomed, ~doomed'
    PROVE  /\ worker[run] = "out" /\ run \notin left
           /\ said[run] \notin {"aborted", "raised", "nothing"}
<1>1. Delete
    BY DEF RunNext, Handler, StartRun, Joined, TimeOut, GraceOver, Attribute, Retry, EndTurn,
           Rerun, Reply, WorkerWrites, WorkerEnds, runVars
<1>2. step = "delete" /\ run \in Runs
    BY <1>1, RunNumbers DEF Delete
<1> QED
    BY <1>2 DEF RunInv, ResultTold

\* What cannot be taken back is asked for first: a yes without the model or
\* the human is for a question that mentions nothing outside the spec, no
\* shell and no deletion, and the files of the contract go only after the
\* worker of the run has ended with an answer.
THEOREM NothingIsUnasked == Spec => NothingUnasked
<1>1. RunInv /\ EvaluationInv /\ BridgeInv /\ [Next]_vars
        => [doomed /\ ~doomed' =>
              /\ worker[run] = "out" /\ run \notin left
              /\ said[run] \notin {"aborted", "raised", "nothing"}]_runVars
    BY SideBySideSteps, DeleteSteps
<1>2. RunInv /\ EvaluationInv /\ BridgeInv /\ [Next]_vars
        => [answer' /\ count' > count =>
              \/ /\ mode = "coder" /\ ~question'.unsafe
                 /\ "out" \notin question'.paths
              \/ mode = "verdict" /\ text.says = "approve"
              \/ mode = "gate"]_supVars
    BY SideBySideSteps, YesSteps DEF EvaluationInv, SupervisorTypeOK
<1> QED
    BY <1>1, <1>2, SideBySideInv, PTL DEF Spec, NothingUnasked, YesIsGrounded, DeletesAfterAnswer

=============================================================================
