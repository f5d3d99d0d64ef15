----------------------------- MODULE TraceFile -----------------------------
(***************************************************************************)
(* The trace file of one delegation.  The handler's thread, the worker of  *)
(* a run and the threads of the local proxy append lines to it, each       *)
(* looking first whether the file needs its header; nothing locks it.      *)
(* After the executor the handler sets the hash of the context package in  *)
(* the header, for which it reads the whole file and writes it again.      *)
(***************************************************************************)
EXTENDS Naturals, Sequences, SequencesExt, FiniteSets

CONSTANTS
    Writers,   \* threads that append lines; the handler's is one of them
    Handling,  \* the handler's thread
    MaxRecords \* bound: lines appended

ASSUME WritersAssumption == Handling \in Writers /\ MaxRecords \in Nat

VARIABLES
    trace,     \* lines of the file, each with its kind and its number
    writer,    \* where each thread is: "idle", "header", "line"
    carries,   \* the number of the line it appends next
    recorded,  \* lines appended so far
    rewrite,   \* the handler's rewriting: "no", "read", "truncated"
    copy,      \* the lines it read
    annotated, \* the hash has been set
    lost       \* lines appended between its read and its write

Plain == [kind |-> "header", n |-> 0]
Hashed == [kind |-> "hashed", n |-> 0]
Torn == [kind |-> "torn", n |-> 0]
Line(n) == [kind |-> "line", n |-> n]

traceVars == <<trace, writer, carries, recorded, rewrite, copy, annotated, lost>>

TraceInit ==
    /\ trace = <<>>
    /\ writer = [w \in Writers |-> "idle"]
    /\ carries = [w \in Writers |-> 0]
    /\ recorded = 0
    /\ rewrite = "no"
    /\ copy = <<>>
    /\ annotated = FALSE
    /\ lost = {}

\* append_trace_record: the thread looks whether the file is empty ...
Look(w) ==
    /\ writer[w] = "idle" /\ recorded < MaxRecords
    /\ w = Handling => rewrite = "no"
    /\ recorded' = recorded + 1
    /\ carries' = [carries EXCEPT ![w] = recorded + 1]
    /\ writer' = [writer EXCEPT ![w] = IF trace = <<>> THEN "header" ELSE "line"]
    /\ UNCHANGED <<trace, rewrite, copy, annotated, lost>>

\* ... appends the header if it was ...
AppendHeader(w) ==
    /\ writer[w] = "header"
    /\ writer' = [writer EXCEPT ![w] = "line"]
    /\ trace' = Append(trace, Plain)
    /\ UNCHANGED <<carries, recorded, rewrite, copy, annotated, lost>>

\* ... and appends its line.
AppendLine(w) ==
    /\ writer[w] = "line"
    /\ writer' = [writer EXCEPT ![w] = "idle"]
    /\ trace' = Append(trace, Line(carries[w]))
    /\ lost' = IF rewrite = "no" THEN lost ELSE lost \union {carries[w]}
    /\ UNCHANGED <<carries, recorded, rewrite, copy, annotated>>

\* annotate_trace_header_context_package_hash: a file that is missing, empty
\* or begins with another line is left alone.
ReadAll ==
    /\ rewrite = "no" /\ writer[Handling] = "idle"
    /\ trace # <<>> /\ trace[1].kind \in {"header", "hashed"}
    /\ rewrite' = "read"
    /\ copy' = [trace EXCEPT ![1] = Hashed]
    /\ UNCHANGED <<trace, writer, carries, recorded, annotated, lost>>

Truncate ==
    /\ rewrite = "read"
    /\ rewrite' = "truncated"
    /\ trace' = <<>>
    /\ UNCHANGED <<writer, carries, recorded, copy, annotated, lost>>

\* The copy is written from the start of the file, over what was appended to
\* the emptied file; what it does not cover is left behind it, torn.
\* Mutant: only the header is written again.
WriteHeaderBack ==
    /\ rewrite = "truncated"
    /\ rewrite' = "no"
    /\ trace' = <<Hashed>> \o (IF Len(trace) > 1 THEN <<Torn>> \o SubSeq(trace, 3, Len(trace))
                                 ELSE <<>>)
    /\ annotated' = TRUE
    /\ copy' = <<>>
    /\ UNCHANGED <<writer, carries, recorded, lost>>

WriteBack ==
    /\ rewrite = "truncated"
    /\ rewrite' = "no"
    /\ trace' = copy \o (IF Len(trace) > Len(copy)
                         THEN <<Torn>> \o SubSeq(trace, Len(copy) + 2, Len(trace))
                         ELSE <<>>)
    /\ annotated' = TRUE
    /\ copy' = <<>>
    /\ UNCHANGED <<writer, carries, recorded, lost>>

TraceNext ==
    \/ \E w \in Writers : Look(w) \/ AppendHeader(w) \/ AppendLine(w)
    \/ ReadAll \/ Truncate \/ WriteBack

TraceSpec == TraceInit /\ [][TraceNext]_traceVars

TraceTypeOK ==
    /\ ToSet(trace) \union ToSet(copy) \subseteq {Plain, Hashed, Torn} \union {Line(n) : n \in 1..MaxRecords}
    /\ writer \in [Writers -> {"idle", "header", "line"}]
    /\ rewrite \in {"no", "read", "truncated"}
    /\ recorded \in 0..MaxRecords /\ lost \subseteq 1..MaxRecords

\* Outside a rewriting a trace begins with its header, whichever thread was
\* first, and with the hash once it was set (trace.py:166, 207).
HeaderLeads ==
    rewrite # "truncated" /\ trace # <<>> =>
        trace[1] = IF annotated THEN Hashed ELSE Plain

\* A line that was appended is lost only when it was appended while the
\* handler rewrote the file (trace.py:192-210).
OnlyRewritingLoses ==
    rewrite # "truncated" =>
        \A n \in 1..recorded :
            (\A w \in Writers : writer[w] # "idle" => carries[w] # n)
                => n \in lost \union {trace[i].n : i \in DOMAIN trace}

\* A trace keeps its head and its lines, whatever the threads do.
TraceKept == HeaderLeads /\ OnlyRewritingLoses
=============================================================================
