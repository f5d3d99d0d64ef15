---------------------------- MODULE ProgressBridge ----------------------------
(***************************************************************************)
(* The progress notifications of the delegations of a server: the handler  *)
(* queues them, a thread per delegation hands them to the event loop and   *)
(* adds heartbeats while nothing else comes (server/mcp_server.py 202-283  *)
(* and the calls of notify and close).  The handler is a plain function    *)
(* that the loop's own thread runs, so that nothing handed to the loop is  *)
(* sent before the handler has returned; without a loop the thread sends   *)
(* itself.  The idle keepalive is a task of the loop.                      *)
(***************************************************************************)
EXTENDS Naturals, Sequences, FiniteSets, SequencesExt

CONSTANTS
    Calls,    \* delegations, one after the other
    Messages, \* notifications of each
    Beats     \* heartbeats of all of them

ASSUME BridgeAssumption == Calls \in Nat \ {0} /\ Messages \in Nat /\ Beats \in Nat

VARIABLES
    onLoop,   \* a loop was running when the bridges were made
    call,     \* the delegation
    phase,    \* of the handler: "run", "close", "join" or "over"
    told,     \* per delegation: notifications queued
    queue,    \* per delegation: what its thread has not taken yet
    stopped,  \* per delegation: the flag of close
    thread,   \* per delegation: where its thread is
    beats,    \* heartbeats so far
    late,     \* per delegation: those that followed its flag
    pending,  \* the loop's: whose sends it was handed and has not done
    handed    \* per delegation: what was handed over, heartbeats left out

bridgeVars == <<onLoop, call, phase, told, queue, stopped, thread, beats, late,
                pending, handed>>
handler == <<onLoop, call, phase, told, stopped>>

Delegations == 1 .. Calls
Stop == 0
Blocked == onLoop /\ phase # "over"

BridgeTypeOK ==
    /\ onLoop \in BOOLEAN /\ call \in Delegations
    /\ phase \in {"run", "close", "join", "over"}
    /\ told \in [Delegations -> 0 .. Messages]
    /\ queue \in [Delegations -> Seq(0 .. Messages)]
    /\ stopped \in [Delegations -> BOOLEAN]
    /\ thread \in [Delegations -> {"none", "get", "empty", "idle", "wait", "ended"}]
    /\ beats \in 0 .. Beats /\ late \in [Delegations -> 0 .. Beats]
    /\ pending \in Seq(Delegations)
    /\ handed \in [Delegations -> Seq(1 .. Messages)]

BridgeInit ==
    /\ onLoop \in BOOLEAN /\ call = 1 /\ phase = "run"
    /\ told = [d \in Delegations |-> 0] /\ queue = [d \in Delegations |-> <<>>]
    /\ stopped = [d \in Delegations |-> FALSE]
    /\ thread = [d \in Delegations |-> IF d = 1 THEN "get" ELSE "none"]
    /\ beats = 0 /\ late = [d \in Delegations |-> 0]
    /\ pending = <<>> /\ handed = [d \in Delegations |-> <<>>]

-----------------------------------------------------------------------------
(* The handler *)

\* notify: a message that is not throttled.
Notify ==
    /\ phase = "run" /\ told[call] < Messages
    /\ told' = [told EXCEPT ![call] = @ + 1]
    /\ queue' = [queue EXCEPT ![call] = Append(@, told'[call])]
    /\ UNCHANGED <<onLoop, call, phase, stopped, thread, beats, late, pending, handed>>

\* close: the flag, and then the mark in the queue.
RaiseFlag ==
    /\ phase = "run" /\ phase' = "close"
    /\ stopped' = [stopped EXCEPT ![call] = TRUE]
    /\ UNCHANGED <<onLoop, call, told, queue, thread, beats, late, pending, handed>>

QueueStop ==
    /\ phase = "close" /\ phase' = "join"
    /\ queue' = [queue EXCEPT ![call] = Append(@, Stop)]
    /\ UNCHANGED <<onLoop, call, told, stopped, thread, beats, late, pending, handed>>

\* It waits a second for its thread, which may go on.
Join ==
    /\ phase = "join" /\ phase' = "over"
    /\ UNCHANGED <<onLoop, call, told, queue, stopped, thread, beats, late, pending, handed>>

\* The next delegation has a bridge of its own.
NextCall ==
    /\ phase = "over" /\ call < Calls /\ phase' = "run" /\ call' = call + 1
    /\ thread' = [thread EXCEPT ![call'] = "get"]
    /\ UNCHANGED <<onLoop, told, queue, stopped, beats, late, pending, handed>>

-----------------------------------------------------------------------------
(* The thread of delegation d *)

\* A send is handed to the loop and waited for, or done at once.
HandOver(d) ==
    IF onLoop THEN pending' = Append(pending, d) /\ thread' = [thread EXCEPT ![d] = "wait"]
    ELSE thread' = [thread EXCEPT ![d] = "get"] /\ UNCHANGED pending

Take(d) ==
    /\ thread[d] = "get" /\ queue[d] # <<>>
    /\ queue' = [queue EXCEPT ![d] = Tail(@)]
    /\ IF Head(queue[d]) = Stop
         THEN thread' = [thread EXCEPT ![d] = "ended"] /\ UNCHANGED <<pending, handed>>
         ELSE /\ HandOver(d)
              /\ handed' = [handed EXCEPT ![d] = Append(@, Head(queue[d]))]
    /\ UNCHANGED <<handler, beats, late>>

\* Nothing came for 0.2 s.
FindEmpty(d) ==
    /\ thread[d] = "get" /\ queue[d] = <<>>
    /\ thread' = [thread EXCEPT ![d] = "empty"]
    /\ UNCHANGED <<handler, queue, beats, late, pending, handed>>

\* Mutant: heartbeats do not look at the flag.
IgnoreFlag(d) ==
    /\ thread[d] = "empty" /\ thread' = [thread EXCEPT ![d] = "idle"]
    /\ UNCHANGED <<handler, queue, beats, late, pending, handed>>

\* Then it looks at the flag; what was queued since is left in the queue.
LookAtFlag(d) ==
    /\ thread[d] = "empty"
    /\ thread' = [thread EXCEPT ![d] = IF stopped[d] THEN "ended" ELSE "idle"]
    /\ UNCHANGED <<handler, queue, beats, late, pending, handed>>

\* It may be time for a heartbeat.
SendBeat(d) ==
    /\ thread[d] = "idle" /\ beats < Beats
    /\ beats' = beats + 1
    /\ late' = IF stopped[d] THEN [late EXCEPT ![d] = @ + 1] ELSE late
    /\ HandOver(d)
    /\ UNCHANGED <<handler, queue, handed>>

SkipBeat(d) ==
    /\ thread[d] = "idle" /\ thread' = [thread EXCEPT ![d] = "get"]
    /\ UNCHANGED <<handler, queue, beats, late, pending, handed>>

\* Mutant: it waits until the loop has sent it.
StopWaitingWhenSent(d) ==
    /\ thread[d] = "wait" /\ \A i \in DOMAIN pending : pending[i] # d
    /\ thread' = [thread EXCEPT ![d] = "get"]
    /\ UNCHANGED <<handler, queue, beats, late, pending, handed>>

\* The loop has sent it, failed to, or five seconds are over; then it stays
\* with the loop.
StopWaiting(d) ==
    /\ thread[d] = "wait" /\ thread' = [thread EXCEPT ![d] = "get"]
    /\ UNCHANGED <<handler, queue, beats, late, pending, handed>>

\* The loop sends in the order it was given, when no handler runs on it.
Send ==
    /\ ~Blocked /\ pending # <<>> /\ pending' = Tail(pending)
    /\ UNCHANGED <<handler, queue, thread, beats, late, handed>>

Handling == Notify \/ RaiseFlag \/ QueueStop \/ Join
Draining(d) ==
    Take(d) \/ FindEmpty(d) \/ LookAtFlag(d) \/ SendBeat(d) \/ SkipBeat(d) \/ StopWaiting(d)

BridgeNext == Handling \/ NextCall \/ Send \/ \E d \in Delegations : Draining(d)

\* The handler goes on, and so do the threads that hand over to a loop; a
\* send of the thread's own has no limit.  The loop promises nothing: the
\* host may have stopped reading.
BridgeSpec ==
    /\ BridgeInit /\ [][BridgeNext]_bridgeVars
    /\ WF_bridgeVars(Handling)
    /\ \A d \in Delegations : WF_bridgeVars(onLoop /\ Draining(d))

-----------------------------------------------------------------------------
(* Properties *)

\* What is handed over of a delegation's notifications has no gap and is in
\* their order; what a thread that ends on the flag leaves in the queue is a tail
\* (mcp_server.py 241-283).
NoGaps ==
    \A d \in Delegations : handed[d] = [i \in 1 .. Len(handed[d]) |-> i]

\* At most one heartbeat follows the end of its delegation: the thread looks
\* at the flag before each (mcp_server.py 246-256).
OneLateBeat == \A d \in Delegations : late[d] <= 1

\* The host sees each delegation in order, up to its end and at most one
\* heartbeat further.
BridgeKeepsOrder == NoGaps /\ OneLateBeat

\* A delegation's end does not depend on its notifications: the handler gets
\* past close even if nothing is ever sent (mcp_server.py 277-283).
HandlerReturns == (phase \in {"close", "join"}) ~> (phase = "over")

\* No thread with a loop outlives its delegation for good, even if the loop
\* sends nothing any more (mcp_server.py 269-275).
ThreadsEnd == \A d \in Delegations : onLoop /\ stopped[d] ~> thread[d] = "ended"
=============================================================================
