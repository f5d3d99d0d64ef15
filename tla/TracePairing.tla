---------------------------- MODULE TracePairing ----------------------------
(***************************************************************************)
(* The two captures of a model call in a trace: the line of the local      *)
(* proxy, keyed by the headers it received, and the line of the code that  *)
(* sent the call.  `trace compare' and the viewer pair the lines of a      *)
(* trace, first by step and call index, and those without a call index by  *)
(* step and model, to say which calls one of the two captures missed.      *)
(***************************************************************************)
EXTENDS Naturals, Sequences, FiniteSets

CONSTANTS
    Steps,    \* step indexes of lines; 0 is a line without one
    Indexes,  \* call indexes of lines; 0 is a line without one
    Models,   \* models named by lines
    NoModel,  \* a line that names none
    MaxLines  \* bound: lines of a trace

ASSUME PairingBounds ==
    Steps \subseteq Nat /\ Indexes \subseteq Nat /\ MaxLines \in Nat /\ NoModel \notin Models

VARIABLES
    events,     \* the proxy and backend lines of a trace, in file order
    comparing,  \* the trace has been read, pair_dual_capture_events runs
    unmatched,  \* positions of the lines that are in no row
    pairings    \* the rows so far

pairingVars == <<events, comparing, unmatched, pairings>>

Event(side) ==
    [side : {side}, step : Steps, index : Indexes, model : Models \union {NoModel}]

\* A row has the positions of its two lines; 0 is a line that is missing.
Row(p, b) == [proxy |-> p, backend |-> b]

PairingInit == events = <<>> /\ comparing = FALSE /\ unmatched = {} /\ pairings = {}

\* A call of a coder or of the gateway's client has been captured.
RecordBackend(e) ==
    /\ e \in Event("backend") /\ ~comparing /\ Len(events) < MaxLines
    /\ events' = Append(events, e)
    /\ UNCHANGED <<comparing, unmatched, pairings>>

\* The proxy has answered a call, whatever the headers it came with.
RecordProxy(e) ==
    /\ e \in Event("proxy") /\ ~comparing /\ Len(events) < MaxLines
    /\ events' = Append(events, e)
    /\ UNCHANGED <<comparing, unmatched, pairings>>

-----------------------------------------------------------------------------
EventKey(i) == <<events[i].step, events[i].index>>

\* _models_compatible; names that end alike are one model here.
Compatible(m, n) == m = NoModel \/ n = NoModel \/ m = n

\* The lines of a side and key that are still to be paired, and the one at the
\* head of such a queue; 0 when it is empty.
Unmatched(side, key) == {i \in unmatched : events[i].side = side /\ EventKey(i) = key}
First(S) == IF S = {} THEN 0 ELSE CHOOSE i \in S : \A j \in S : i <= j

\* pair_dual_capture_events starts on the lines the trace has by then.
StartPairing ==
    /\ ~comparing
    /\ comparing' = TRUE /\ unmatched' = DOMAIN events
    /\ UNCHANGED <<events, pairings>>

Pair(p, b) ==
    /\ pairings' = pairings \union {Row(p, b)}
    /\ unmatched' = unmatched \ {p, b}
    /\ UNCHANGED <<events, comparing>>

\* Lines with a call index leave the two queues of their key side by side.  The
\* code goes through the keys, and then the steps, in their order; they share
\* no line, so here any of them may be next.
PairByKey(key) ==
    /\ comparing /\ key[2] # 0
    /\ LET p == First(Unmatched("proxy", key))
           b == First(Unmatched("backend", key))
       IN (p # 0 \/ b # 0) /\ Pair(p, b)

KeysDone == \A i \in unmatched : events[i].index = 0

\* A proxy line without one takes the first free line of its step that fits
\* its model, else the first free one.
\* Mutant: it stays alone when none fits its model.
PairFitting(step) ==
    /\ comparing /\ KeysDone
    /\ LET p == First(Unmatched("proxy", <<step, 0>>))
           free == Unmatched("backend", <<step, 0>>)
           fitting == {b \in free : Compatible(events[p].model, events[b].model)}
       IN p # 0 /\ Pair(p, First(fitting))

PairByStep(step) ==
    /\ comparing /\ KeysDone
    /\ LET p == First(Unmatched("proxy", <<step, 0>>))
           free == Unmatched("backend", <<step, 0>>)
           fitting == {b \in free : Compatible(events[p].model, events[b].model)}
       IN p # 0 /\ Pair(p, IF fitting # {} THEN First(fitting) ELSE First(free))

\* The backend lines of a step whose proxy lines are all paired.
LeaveRest(step) ==
    /\ comparing /\ KeysDone
    /\ Unmatched("proxy", <<step, 0>>) = {}
    /\ LET b == First(Unmatched("backend", <<step, 0>>)) IN b # 0 /\ Pair(0, b)

PairingNext ==
    \/ \E e \in Event("backend") : RecordBackend(e)
    \/ \E e \in Event("proxy") : RecordProxy(e)
    \/ StartPairing
    \/ \E key \in Steps \X Indexes : PairByKey(key)
    \/ \E step \in Steps : PairByStep(step) \/ LeaveRest(step)

PairingSpec == PairingInit /\ [][PairingNext]_pairingVars

-----------------------------------------------------------------------------
\* _row_status
Status(r) ==
    IF r.backend = 0 THEN "proxy_only"
    ELSE IF r.proxy = 0 THEN "backend_only"
    ELSE IF Compatible(events[r.proxy].model, events[r.backend].model) THEN "matched"
    ELSE "field_diff"

PairingTypeOK ==
    /\ events \in Seq(Event("proxy") \union Event("backend"))
    /\ comparing \in BOOLEAN
    /\ unmatched \subseteq DOMAIN events
    /\ pairings \subseteq [proxy : 0 .. Len(events), backend : 0 .. Len(events)]

\* Each line that is not waiting any more is in one row, so the summary's counts
\* add up to the calls captured (compare.py:203-359).
EachLineOnce ==
    comparing =>
        \A i \in DOMAIN events \ unmatched :
            Cardinality({r \in pairings : i \in {r.proxy, r.backend}}) = 1

\* A gap is a gap: no two rows of one key, or of one step when their lines
\* have no call index, miss each other's side (compare.py:225-280).
GapsAreReal ==
    \A r, o \in pairings :
        Status(r) = "proxy_only" /\ Status(o) = "backend_only" =>
            EventKey(r.proxy) # EventKey(o.backend)

\* Lines without a call index: a call shown with another model's capture had
\* no capture of its own model left that an earlier line did not take
\* (compare.py:250-269).
ModelsBeforeOrder ==
    \A r \in pairings :
        Status(r) = "field_diff" /\ events[r.proxy].index = 0 =>
            \A b \in DOMAIN events :
                /\ events[b].side = "backend" /\ EventKey(b) = EventKey(r.proxy)
                /\ Compatible(events[r.proxy].model, events[b].model)
                => \E o \in pairings : o.backend = b /\ o.proxy # 0 /\ o.proxy < r.proxy

\* The comparison is a pairing, leaves no gap it could have closed, and mixes
\* no models it could have kept apart.
PairingIsSound == EachLineOnce /\ GapsAreReal /\ ModelsBeforeOrder
=============================================================================
