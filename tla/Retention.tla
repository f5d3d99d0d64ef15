----------------------------- MODULE Retention -----------------------------
(***************************************************************************)
(* What the delegations of a session leave on disk, and its collection.  A *)
(* delegation has a trace from its first call, stores the context package  *)
(* it was run with as a blob named by its hash, which equal packages       *)
(* share, and appends its row when it ends, with a training export when    *)
(* asked; the row of an interrupted delegation names no package.           *)
(* `maintenance gc' reads the rows, the traces and the blobs, one  *)
(* after the other, while delegations go on, and then deletes the traces   *)
(* past their age and the blobs no kept delegation refers to.              *)
(***************************************************************************)
EXTENDS Naturals, FiniteSets

CONSTANTS
    Jobs,    \* delegations of the session
    Hashes,  \* hashes of context packages
    NoHash   \* a delegation without a package

ASSUME RetentionAssumption == NoHash \notin Hashes

VARIABLES
    job,       \* "new", "running", "stored", "ended"; "unnamed" with a row that
               \* names no package, "crashed" without a row
    package,   \* the package the delegation stored
    traces,    \* delegations whose trace is on disk
    exports,   \* delegations with a training export
    blobs,     \* blobs on disk
    old,       \* delegations past the retention age
    gc,        \* "idle", "rows", "traces", "blobs" read, "deleting" blobs
    kept,      \* hashes by delegation, as gc read them from the rows
    doomed,    \* traces gc will delete
    unwanted,  \* blobs gc will delete
    overlooked \* delegations that had stored a package and no row yet at a gc

retentionVars ==
    <<job, package, traces, exports, blobs, old, gc, kept, doomed, unwanted, overlooked>>
gcVars == <<gc, kept, doomed, unwanted>>

RetentionInit ==
    /\ job = [j \in Jobs |-> "new"]
    /\ package = [j \in Jobs |-> NoHash]
    /\ traces = {} /\ exports = {} /\ blobs = {} /\ old = {}
    /\ gc = "idle" /\ kept = {} /\ doomed = {} /\ unwanted = {}
    /\ overlooked = {}

StartJob(j) ==
    /\ job[j] = "new"
    /\ job' = [job EXCEPT ![j] = "running"]
    /\ traces' = traces \union {j}
    /\ UNCHANGED <<package, exports, blobs, old, gcVars, overlooked>>

\* persist_context_package_blob: a blob that exists is not written again.
StorePackage(j, h) ==
    /\ job[j] = "running"
    /\ job' = [job EXCEPT ![j] = "stored"]
    /\ package' = [package EXCEPT ![j] = h]
    /\ blobs' = blobs \union {h}
    /\ overlooked' = overlooked \union (IF gc # "idle" THEN {j} ELSE {})
    /\ UNCHANGED <<traces, exports, old, gcVars>>

\* The row, and the training export when the workspace asks for it.  The row
\* names what was stored, unless the trace could not be annotated with it.
EndJob(j, exported) ==
    /\ job[j] \in {"running", "stored"}
    /\ \E row \in {"ended"} \union (IF job[j] = "stored" THEN {"unnamed"} ELSE {}) :
           job' = [job EXCEPT ![j] = row]
    /\ exports' = IF exported THEN exports \union {j} ELSE exports
    /\ UNCHANGED <<package, traces, blobs, old, gcVars, overlooked>>

\* An exception ends the delegation: its row has an empty context.
InterruptJob(j) ==
    /\ job[j] \in {"running", "stored"}
    /\ job' = [job EXCEPT ![j] = "unnamed"]
    /\ UNCHANGED <<package, traces, exports, blobs, old, gcVars, overlooked>>

CrashJob(j) ==
    /\ job[j] \in {"running", "stored"}
    /\ job' = [job EXCEPT ![j] = "crashed"]
    /\ UNCHANGED <<package, traces, exports, blobs, old, gcVars, overlooked>>

\* The retention age, of days, is longer than a delegation and than a gc.
Age(j) ==
    /\ job[j] \in {"ended", "unnamed", "crashed"} /\ gc = "idle"
    /\ old' = old \union {j}
    /\ UNCHANGED <<job, package, traces, exports, blobs, gcVars, overlooked>>

\* Mutant: a row without a package is taken for a reference.
ReadRowsWithoutPackage ==
    /\ gc = "idle"
    /\ gc' = "rows"
    /\ kept' = {<<j, package[j]>> : j \in {i \in Jobs : job[i] = "ended"}}
    /\ overlooked' = overlooked \union {j \in Jobs : job[j] = "stored"}
    /\ UNCHANGED <<job, package, traces, exports, blobs, old, doomed, unwanted>>

ReadRows ==
    /\ gc = "idle"
    /\ gc' = "rows"
    /\ kept' = {<<j, package[j]>> : j \in {i \in Jobs : job[i] = "ended" /\ package[i] # NoHash}}
    /\ overlooked' = overlooked \union {j \in Jobs : job[j] = "stored"}
    /\ UNCHANGED <<job, package, traces, exports, blobs, old, doomed, unwanted>>

ReadTraces ==
    /\ gc = "rows"
    /\ gc' = "traces"
    /\ doomed' = (traces \cap old) \ exports
    /\ UNCHANGED <<job, package, traces, exports, blobs, old, kept, unwanted, overlooked>>

\* Mutant: the packages of the deleted traces go with them.
ReadBlobsOfDoomed ==
    /\ gc = "traces"
    /\ gc' = "blobs"
    /\ unwanted' = {h \in blobs : \E k \in kept : k[1] \in doomed /\ k[2] = h}
    /\ UNCHANGED <<job, package, traces, exports, blobs, old, kept, doomed, overlooked>>

ReadBlobs ==
    /\ gc = "traces"
    /\ gc' = "blobs"
    /\ unwanted' = blobs \ {k[2] : k \in {l \in kept : l[1] \notin doomed}}
    /\ UNCHANGED <<job, package, traces, exports, blobs, old, kept, doomed, overlooked>>

\* Traces first, then blobs; a file that cannot be deleted is skipped.
DeleteTrace(j, works) ==
    /\ gc = "blobs" /\ j \in doomed
    /\ doomed' = doomed \ {j}
    /\ traces' = IF works THEN traces \ {j} ELSE traces
    /\ UNCHANGED <<job, package, exports, blobs, old, gc, kept, unwanted, overlooked>>

DeleteBlob(h, works) ==
    /\ gc = "blobs" /\ doomed = {} /\ h \in unwanted
    /\ unwanted' = unwanted \ {h}
    /\ blobs' = IF works THEN blobs \ {h} ELSE blobs
    /\ UNCHANGED <<job, package, traces, exports, old, gc, kept, doomed, overlooked>>

\* The command is done, only reports (--dry-run) or is interrupted.
FinishGc ==
    /\ gc # "idle"
    /\ gc' = "idle" /\ kept' = {} /\ doomed' = {} /\ unwanted' = {}
    /\ UNCHANGED <<job, package, traces, exports, blobs, old, overlooked>>

RetentionNext ==
    \/ \E j \in Jobs :
           \/ StartJob(j) \/ InterruptJob(j) \/ CrashJob(j) \/ Age(j)
           \/ \E h \in Hashes : StorePackage(j, h)
           \/ \E b \in BOOLEAN : EndJob(j, b) \/ DeleteTrace(j, b)
    \/ ReadRows \/ ReadTraces \/ ReadBlobs \/ FinishGc
    \/ \E h \in Hashes, b \in BOOLEAN : DeleteBlob(h, b)

RetentionSpec == RetentionInit /\ [][RetentionNext]_retentionVars

RetentionTypeOK ==
    /\ job \in [Jobs -> {"new", "running", "stored", "ended", "unnamed", "crashed"}]
    /\ package \in [Jobs -> Hashes \union {NoHash}]
    /\ traces \union exports \union old \union doomed \union overlooked \subseteq Jobs
    /\ blobs \union unwanted \subseteq Hashes
    /\ kept \subseteq Jobs \X Hashes
    /\ gc \in {"idle", "rows", "traces", "blobs"}

\* A delegation that is not past its age can be replayed when its row names its
\* package: the package is there, also when an older delegation had the same
\* one and was collected, unless it was running during a collection
\* (maintenance.py:282-297, replay.py:124).
FreshCanBeReplayed ==
    \A j \in Jobs \ (old \union overlooked) :
        job[j] \in {"stored", "ended"} /\ package[j] # NoHash => j \in traces /\ package[j] \in blobs

\* What was exported for training keeps its trace for good, and the package its
\* row and its export name (maintenance.py:269-280).
ExportsKeepTheirData ==
    \A j \in exports :
        /\ j \in traces
        /\ job[j] = "ended" /\ package[j] # NoHash /\ j \notin overlooked => package[j] \in blobs

\* A collection spares what may still be asked for.
CollectionSpares == FreshCanBeReplayed /\ ExportsKeepTheirData

\* docs/PHASE9_MVP.md:193: "delete trace files + blobs where all rows older than
\* TTL".  The row of an interrupted delegation does not count for its package.
OnlyOldPackagesGo ==
    \A j \in Jobs \ (old \union overlooked) :
        job[j] \in {"ended", "unnamed"} /\ package[j] # NoHash => package[j] \in blobs
=============================================================================
