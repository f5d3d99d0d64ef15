---------------------------- MODULE CallCapture ----------------------------
(***************************************************************************)
(* Who counts a model call.  A helper call is recorded by its gateway when *)
(* it returns; a call of the coder by the model it was sent through, a     *)
(* streamed one when its iterator is exhausted.  LiteLLM also reports      *)
(* every success to a callback, from a thread of its own and at a time of  *)
(* its own, so the callback must recognise the calls that are recorded     *)
(* already: by a flag in the context it was copied with, and for streams   *)
(* by a key that stays registered until the iterator is closed.            *)
(*                                                                         *)
(* A worker is one run of the coder: a run the handler no longer waits for *)
(* goes on calling, during later runs and later delegations.               *)
(***************************************************************************)
EXTENDS Naturals, Sequences, SequencesExt, FiniteSets

CONSTANTS
    Started,   \* delegations of the process, one after another
    Runs,      \* runs of the coder in a delegation
    Asked,     \* what a call asks: equal messages have equal stream keys
    MaxCalls   \* bound: model calls in a behaviour

ASSUME CaptureBounds == Started \in Nat \ {0} /\ Runs \in Nat \ {0} /\ MaxCalls \in Nat

VARIABLES
    now,       \* _last_delegation_id: 0 before the first delegation
    calls,     \* the model calls, in the order they were sent
    owned,     \* _backend_stream_calls
    pending,   \* callbacks LiteLLM has still to run
    store,     \* _store: the calls counted under each key, in order
    lines,     \* lines of the traces
    reported   \* model_roles of the records: the calls behind each usage

captureVars == <<now, calls, owned, pending, store, lines, reported>>

\* Key 0 is the process's own, for calls outside every delegation.
Keys == (0..Started) \X {"helper", "executor"}
Role(call) == IF call.kind = "helper" THEN "helper" ELSE "executor"
StreamKey(call) == <<call.d, call.asked>>
Lines(c, type, n) == [call : {c}, type : {type}, index : {n}]

CaptureInit ==
    /\ now = 0
    /\ calls = <<>>
    /\ owned = {}
    /\ pending = {}
    /\ store = [k \in Keys |-> <<>>]
    /\ lines = {}
    /\ reported = [d \in 1..Started |-> {}]

\* The usage of the previous delegation is dropped when the next one starts.
StartDelegation ==
    /\ now < Started
    /\ now' = now + 1
    /\ store' = [k \in Keys |-> IF k[1] = now /\ now > 0 THEN <<>> ELSE store[k]]
    /\ UNCHANGED <<calls, owned, pending, lines, reported>>

\* A call that is sent: the gateway's are not numbered, those of a coder are by
\* the model of its run.
Numbered(d, run) ==
    {c \in DOMAIN calls : /\ calls[c].d = d /\ calls[c].run = run
                          /\ calls[c].kind \in {"stream", "turn"}}
Issue(d, run, kind, asked, index) ==
    /\ Len(calls) < MaxCalls
    /\ d \in 1..now
    /\ calls' = Append(calls, [d |-> d, run |-> run, kind |-> kind, asked |-> asked,
                               stage |-> "sent", index |-> index, metered |-> TRUE])

\* LlmGateway.complete: a call of the handler or of the supervisor, in a copy
\* of the caller's context that says it is the gateway's.
Complete(d, asked) ==
    /\ Issue(d, 1, "helper", asked, 0)
    /\ UNCHANGED <<now, owned, pending, store, lines, reported>>

\* A call of a coder, one at a time in a run.  A streamed one registers its
\* key before it is sent.
Send(d, run, kind, asked) ==
    /\ \A c \in Numbered(d, run) : calls[c].stage # "sent"
    /\ Issue(d, run, kind, asked, Cardinality(Numbered(d, run)) + 1)
    /\ owned' = owned \union (IF kind = "stream" THEN {<<d, asked>>} ELSE {})
    /\ UNCHANGED <<now, pending, store, lines, reported>>

\* A probe that keeps the provider's cache warm is sent from a thread of its
\* own, past the observed model.
Probe(d, asked) ==
    /\ Issue(d, 1, "probe", asked, 0)
    /\ UNCHANGED <<now, owned, pending, store, lines, reported>>

Stage(c, s) == calls' = [calls EXCEPT ![c].stage = s]

\* The provider fails: nothing is recorded and the key is given back.
Fail(c) ==
    /\ c \in DOMAIN calls
    /\ calls[c].stage = "sent"
    /\ Stage(c, "failed")
    /\ owned' = owned \ (IF calls[c].kind = "stream" THEN {StreamKey(calls[c])} ELSE {})
    /\ UNCHANGED <<now, pending, store, lines, reported>>

\* The answer is complete: LiteLLM queues the callback, with the context of
\* the call or with an empty one, and the reply may come without its usage.
Answered(c, metered, bound) ==
    /\ c \in DOMAIN calls
    /\ calls[c].stage = "sent"
    /\ pending' = pending \union {[call |-> c, bound |-> bound]}
    /\ calls' = [calls EXCEPT ![c].metered = metered,
                              ![c].stage = IF calls[c].kind = "stream" THEN "ended" ELSE "closed"]

\* _bump_call_index, _record_usage
Count(key, c) == [store EXCEPT ![key] = Append(@, c)]

\* record_owned_completion: count, usage, and the two lines of the call.
ReturnHelper(c, metered, bound) ==
    /\ c \in DOMAIN calls
    /\ calls[c].kind = "helper"
    /\ Answered(c, metered, bound)
    /\ LET key == <<calls[c].d, "helper">>
       IN /\ store' = Count(key, c)
          /\ lines' = lines \union Lines(c, "llm_call", Len(store'[key]))
                            \union Lines(c, "backend_llm_call", Len(store'[key]))
    /\ UNCHANGED <<now, owned, reported>>

\* A call of the coder that is not streamed is recorded as it returns.
ReturnTurn(c, metered, bound) ==
    /\ c \in DOMAIN calls
    /\ calls[c].kind = "turn"
    /\ Answered(c, metered, bound)
    /\ lines' = lines \union Lines(c, "backend_llm_call", calls[c].index)
    /\ UNCHANGED <<now, owned, store, reported>>

\* A probe of the cache, sent past the observed model, and a stream that has
\* delivered its last chunk: nothing is recorded yet.
Deliver(c, metered, bound) ==
    /\ c \in DOMAIN calls
    /\ calls[c].kind \in {"probe", "stream"}
    /\ Answered(c, metered, bound)
    /\ UNCHANGED <<now, owned, store, lines, reported>>

\* The iterator is exhausted: the call is recorded, then its key given back.
FinishStream(c) ==
    /\ c \in DOMAIN calls
    /\ calls[c].stage = "ended"
    /\ Stage(c, "closed")
    /\ lines' = lines \union Lines(c, "backend_llm_call", calls[c].index)
    /\ owned' = owned \ {StreamKey(calls[c])}
    /\ UNCHANGED <<now, pending, store, reported>>

\* The coder leaves an iterator before its end; it is closed when collected.
DropStream(c) ==
    /\ c \in DOMAIN calls
    /\ calls[c].kind = "stream" /\ calls[c].stage = "sent"
    /\ Stage(c, "dropped")
    /\ UNCHANGED <<now, owned, pending, store, lines, reported>>

CollectStream(c) ==
    /\ c \in DOMAIN calls
    /\ calls[c].stage = "dropped"
    /\ Stage(c, "failed")
    /\ owned' = owned \ {StreamKey(calls[c])}
    /\ UNCHANGED <<now, pending, store, lines, reported>>

\* The callback of p, which counts its call under key or leaves it alone.
Handle(p, key, counts) ==
    LET c == p.call
    IN /\ p \in pending
       /\ pending' = pending \ {p}
       /\ store' = IF counts THEN Count(key, c) ELSE store
       /\ lines' = lines \union
              (IF counts /\ p.bound THEN Lines(c, "llm_call", Len(store'[key]))
               ELSE IF p.bound /\ calls[c].kind = "probe" THEN Lines(c, "cache_warm", 0) ELSE {})
       /\ UNCHANGED <<now, calls, owned, reported>>

\* Mutant: a callback counts for the delegation of the moment.
KeyOfNow(p) == IF p.bound THEN <<now, Role(calls[p.call])>> ELSE <<0, "executor">>

\* _correlation_key: with an empty context the call is nobody's.
Key(p) == IF p.bound THEN <<calls[p.call].d, Role(calls[p.call])>> ELSE <<0, "executor">>
Unowned(p) == ~p.bound /\ calls[p.call].metered
FreeStream(p) ==
    p.bound /\ calls[p.call].kind = "stream" /\ StreamKey(calls[p.call]) \notin owned

\* litellm_success_handler.
\* Mutant: a stream is left to its owner only by the context's flag, which is
\* down again when the iterator ends.
CallbackByFlag(p) == Handle(p, Key(p), Unowned(p) \/ (p.bound /\ calls[p.call].kind = "stream"))

Callback(p) == Handle(p, Key(p), Unowned(p) \/ FreeStream(p))

\* get_accumulated_usage: the calls whose tokens were counted for a role.
Usage(r) == {c \in ToSet(store[<<now, r>>]) : calls[c].metered}

\* The coder's own totals: those of its last run.
OwnTotals ==
    LET coders == {c \in DOMAIN calls : calls[c].d = now /\ calls[c].kind \in {"stream", "turn"}}
    IN {c \in coders : /\ calls[c].stage = "closed" /\ calls[c].metered
                       /\ \A o \in coders : calls[o].run <= calls[c].run}

\* What a record can say of the helpers: any part of the calls counted.  The
\* tokens a role's record brings are kept as they are, and those may be of its
\* last call only, of the last run's review, or without the evaluations that
\* were not understood; a role that brings no record is not filled.
HelperRecord == SUBSET Usage("helper")

\* The record of the delegation: the executor's usage is the callback's when
\* it has any, and otherwise what the coder says of its own totals, if it does.
Report ==
    /\ now > 0
    /\ \E helpers \in HelperRecord, own \in SUBSET OwnTotals :
           reported' = [reported EXCEPT ![now] = helpers \union
                          (IF Usage("executor") # {} THEN Usage("executor") ELSE own)]
    /\ UNCHANGED <<now, calls, owned, pending, store, lines>>

CaptureNext ==
    \/ StartDelegation
    \/ \E d \in 1..Started, asked \in Asked :
           \/ Complete(d, asked) \/ Probe(d, asked)
           \/ \E run \in 1..Runs, kind \in {"stream", "turn"} : Send(d, run, kind, asked)
    \/ \E c \in 1..MaxCalls, metered, bound \in BOOLEAN :
           ReturnHelper(c, metered, bound) \/ ReturnTurn(c, metered, bound) \/ Deliver(c, metered, bound)
    \/ \E c \in 1..MaxCalls : Fail(c) \/ FinishStream(c) \/ DropStream(c) \/ CollectStream(c)
    \/ \E p \in pending : Callback(p)
    \/ Report

CaptureSpec == CaptureInit /\ [][CaptureNext]_captureVars

CaptureTypeOK ==
    /\ now \in 0..Started
    /\ \A c \in DOMAIN calls : calls[c].stage \in {"sent", "ended", "closed", "dropped", "failed"}
    /\ \A k \in Keys : ToSet(store[k]) \subseteq DOMAIN calls
    /\ \A p \in pending : p.call \in DOMAIN calls
    /\ \A l \in lines : l.type \in {"llm_call", "backend_llm_call", "cache_warm"}

\* A helper call that has returned is counted once under its delegation, in
\* the order of return, until the next delegation drops the count: the
\* callback LiteLLM runs for it on its own thread adds nothing
\* (litellm_callback.py:456, gateway.py:156).
HelpersCountedOnce ==
    \A c \in DOMAIN calls :
        calls[c].kind = "helper" /\ calls[c].stage = "closed" =>
            LET times(d) == Cardinality({i \in DOMAIN store[<<d, "helper">>] : store[<<d, "helper">>][i] = c})
            IN /\ calls[c].d = now => times(now) = 1
               /\ \A d \in 1..Started : times(d) <= 1

\* A stream is left to its iterator: when the callback has counted it too,
\* the iterator was closed before the callback came, or another call of the
\* same key was, which took the ownership with it (litellm_callback.py:463,
\* context.py:64).
OwnedUntilClosed ==
    \A k \in Keys : k[1] > 0 /\ k[2] = "executor" =>
        \A c \in ToSet(store[k]) :
            \E o \in DOMAIN calls : StreamKey(calls[o]) = StreamKey(calls[c])
                                        /\ calls[o].kind = "stream"
                                        /\ calls[o].stage \in {"closed", "failed"}

\* The calls counted for a delegation were made by it and in that role,
\* however late their callback runs, and none of them is a probe
\* (litellm_callback.py:114, 446).
TokensStayHome ==
    \A k \in Keys : k[1] > 0 =>
        \A c \in ToSet(store[k]) :
            calls[c].d = k[1] /\ Role(calls[c]) = k[2] /\ calls[c].kind # "probe"

\* While a delegation is the current one its counted calls have one number
\* each, and a line for each number (litellm_callback.py:161, 388).
IndexesAreUnique ==
    now > 0 => \A r \in {"helper", "executor"} :
        LET counted == {l \in lines : l.type = "llm_call" /\ calls[l.call].d = now
                                          /\ Role(calls[l.call]) = r}
        IN /\ {l.index : l \in counted} = DOMAIN store[<<now, r>>]
           /\ \A l, o \in counted : l.index = o.index => l = o

\* A registered key belongs to a call whose iterator is still open: keys do
\* not outlive their calls (observable_model.py:398, 236).
KeysHaveOwners ==
    \A k \in owned : \E c \in DOMAIN calls :
        StreamKey(calls[c]) = k /\ calls[c].kind = "stream"
            /\ calls[c].stage \in {"sent", "ended", "dropped"}

\* The record of a delegation is charged with calls of its own that answered
\* with their usage, never with one of a run of an earlier delegation that is
\* still calling, nor with a probe of the cache (mcp_server.py:1244,
\* litellm_callback.py:714).
ReportsAreOwn ==
    [][\A d \in 1..Started : \A c \in reported'[d] \ reported[d] :
          calls[c].d = d /\ calls[c].metered /\ calls[c].kind # "probe"]_captureVars

\* Each call is counted where it belongs, once, under a number of its own.
CountsHold ==
    /\ HelpersCountedOnce /\ OwnedUntilClosed /\ TokensStayHome
    /\ IndexesAreUnique /\ KeysHaveOwners
=============================================================================
