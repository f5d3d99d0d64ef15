----------------------------- MODULE MCServices -----------------------------
(***************************************************************************)
(* What surrounds a delegation, checked side by side: who counts the model *)
(* calls, how a trace is written and read, the life of the servers, the    *)
(* collection of old data, the session files and the indexes.  A behaviour *)
(* is one of one of them, the others stay in an initial state.             *)
(***************************************************************************)
EXTENDS CallCapture, TracePairing, TraceFile, ServerLifecycle, Retention, Sessions,
        RetrievalIndex

VARIABLE component \* the one that runs

Others(c) ==
    /\ UNCHANGED component
    /\ c # "capture" => UNCHANGED captureVars
    /\ c # "pairing" => UNCHANGED pairingVars
    /\ c # "trace" => UNCHANGED traceVars
    /\ c # "servers" => UNCHANGED lifecycleVars
    /\ c # "retention" => UNCHANGED retentionVars
    /\ c # "sessions" => UNCHANGED sessionsVars
    /\ c # "files" => UNCHANGED filesVars
    /\ c # "entries" => UNCHANGED entriesVars

\* With two pids, what the servers promise says nothing when both are odd; a
\* start that ends every server is looked at with processes that can be ended.
\* The first file to be indexed is there, the others have its text or are not.
Idle(c) ==
    /\ Cardinality(Odd) <= 1
    /\ killAll => Odd = {}
    /\ c # "servers" => Odd = {} /\ ~killAll
    /\ c # "sessions" => align
    /\ LET text == CHOOSE t \in Texts : TRUE IN
         IF c = "files" THEN disk[1] = text /\ \A p \in Indexed : disk[p] \in {text, Absent}
                        ELSE \A p \in Indexed : disk[p] = Absent

Init ==
    /\ CaptureInit /\ PairingInit /\ TraceInit /\ LifecycleInit /\ RetentionInit /\ SessionsInit
    /\ FilesInit /\ EntriesInit
    /\ component \in
         {"capture", "pairing", "trace", "servers", "retention", "sessions", "files", "entries"}
    /\ Idle(component)

Next ==
    \/ component = "capture" /\ CaptureNext /\ Others("capture")
    \/ component = "pairing" /\ PairingNext /\ Others("pairing")
    \/ component = "trace" /\ TraceNext /\ Others("trace")
    \/ component = "servers" /\ LifecycleNext /\ Others("servers")
    \/ component = "retention" /\ RetentionNext /\ Others("retention")
    \/ component = "sessions" /\ SessionsNext /\ Others("sessions")
    \/ component = "files" /\ FilesNext /\ Others("files")
    \/ component = "entries" /\ EntriesNext /\ Others("entries")

vars ==
    <<component, captureVars, pairingVars, traceVars, lifecycleVars, retentionVars, sessionsVars,
      filesVars, entriesVars>>

\* Start-ups go on by themselves; nothing else is promised.
Spec ==
    /\ Init /\ [][Next]_vars
    /\ \A p \in Pids : WF_vars(component = "servers" /\ StartsUp(p) /\ Others("servers"))

TypeOK ==
    /\ CaptureTypeOK /\ PairingTypeOK /\ TraceTypeOK
    /\ LifecycleTypeOK /\ RetentionTypeOK /\ SessionsTypeOK
    /\ IndexTypeOK

\* A reader of a trace sees what was written, each return under its call.
TracesAreFaithful == PairingIsSound /\ TraceKept

\* What a delegation leaves behind is its own: its record has usage of its own
\* calls, whoever else is calling, and its session keeps its conversation.
LeftForLater == ReportsAreOwn /\ SessionKeepsHost
=============================================================================
