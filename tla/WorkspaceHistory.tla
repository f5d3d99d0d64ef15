--------------------------- MODULE WorkspaceHistory ---------------------------
(***************************************************************************)
(* The history of one workspace: the SQLite tables of                      *)
(* core/workspace/history_db.py (snapshots, manifest_files, file_deltas,   *)
(* blobs), the executor runs that write them (_execute_delegation of       *)
(* core/engine/aider_engine.py), the reconciliation a server does when it  *)
(* starts, and the strict gateway that reverts out-of-scope edits from the *)
(* recorded deltas.                                                        *)
(*                                                                         *)
(* A file's content stands for its hash.  Each transaction is one step, so *)
(* is each walk of the workspace: between them the executor's thread, an   *)
(* editor or another process may write, and the process may die.  The walk *)
(* after a run and the transaction that stores it are one step: what       *)
(* happens between them changes only the text of a stored diff.            *)
(***************************************************************************)
EXTENDS Integers, FiniteSets

CONSTANTS
  Procs,          \* processes that delegate on the workspace
  Servers,        \* those that are stdio servers: they reconcile at start
  Paths, Scope,   \* files, and those the spec lets a delegation touch
  Contents,       \* what a file may hold
  Absent,         \* no such file
  Strict,         \* edit_scope is strict (else discover)
  MaxDelegations, \* bound: delegations in a behaviour
  MaxRuns,        \* bound: executor runs of a delegation (turns)
  MaxCrashes,     \* bound: process deaths
  Interruptions,  \* how a run may end other than by returning
  HostEdits       \* somebody else edits the workspace, too

ASSUME HistoryAssumption ==
  /\ Servers \subseteq Procs /\ Scope \subseteq Paths
  /\ Absent \notin Contents
  /\ Strict \in BOOLEAN /\ HostEdits \in BOOLEAN
  /\ MaxDelegations \in Nat \ {0} /\ MaxRuns \in Nat \ {0} /\ MaxCrashes \in Nat
  /\ Interruptions \subseteq {"timeout", "overrun", "abort", "raise"}

Ids == 1..MaxDelegations

VARIABLES
  disk,     \* the workspace
  rows,     \* snapshots: one row per delegation
  stored,   \* manifest_files with role "before", by delegation
  deltas,   \* file_deltas
  blobs,    \* blobs
  run,      \* the locals of each process
  zombie,   \* processes with an executor thread that outlived its run
  nextDel, crashes,
  origin,   \* history variable: the workspace at the beginning
  meddled,  \* history variable: a zombie or somebody else has written
  torn      \* history variable: a process died in a run whose row had its end

vars == <<disk, rows, stored, deltas, blobs, run, zombie, nextDel, crashes,
          origin, meddled, torn>>

Manifest == [Paths -> Contents \cup {Absent}]

NoFiles == [x \in Paths |-> Absent]

RowOutcomes == {"none", "timeout", "needs_input", "error", "interrupted", "final"}

Row == [begun : BOOLEAN, ended : BOOLEAN, outcome : RowOutcomes]

Delta == [del : Ids, path : Paths, prev : Contents \cup {Absent},
          now : Contents \cup {Absent}]

Labels == {"down", "reconciling", "idle", "ready", "walked", "running", "grace",
           "committing", "recommitting", "returned", "raised", "gateway"}

Run == [pc : Labels, del : Ids \cup {0},
        n : Nat,                  \* runs of this delegation so far
        before : Manifest,        \* before_manifest of the SnapshotSession
        start : Manifest,         \* history: the first before_manifest
        changed : SUBSET Paths,   \* files_changed of the last result
        snap : BOOLEAN,           \* workspace_snapshot is not None
        orphans : SUBSET Ids,     \* rows yet to reconcile
        todo : SUBSET Paths]      \* violations yet to revert

Fresh(pc) ==
  [pc |-> pc, del |-> 0, n |-> 0, before |-> NoFiles, start |-> NoFiles,
   changed |-> {}, snap |-> FALSE, orphans |-> {}, todo |-> {}]

TypeOK ==
  /\ disk \in Manifest /\ origin \in Manifest
  /\ rows \in [Ids -> Row]
  /\ stored \in [Ids -> Manifest]
  /\ deltas \in SUBSET Delta
  /\ blobs \in SUBSET Contents
  /\ run \in [Procs -> Run]
  /\ zombie \in SUBSET Procs
  /\ nextDel \in 1..(MaxDelegations + 1)
  /\ crashes \in 0..MaxCrashes
  /\ meddled \in BOOLEAN /\ torn \in BOOLEAN

Init ==
  /\ disk \in Manifest /\ origin = disk
  /\ rows = [d \in Ids |-> [begun |-> FALSE, ended |-> FALSE, outcome |-> "none"]]
  /\ stored = [d \in Ids |-> NoFiles]
  /\ deltas = {} /\ blobs = {} /\ zombie = {}
  /\ run = [p \in Procs |-> Fresh("down")]
  /\ nextDel = 1 /\ crashes = 0
  /\ meddled = FALSE /\ torn = FALSE

At(p, label) == run[p].pc = label

Goto(p, label) == run' = [run EXCEPT ![p].pc = label]

dbVars == <<rows, stored, deltas, blobs>>
worldVars == <<nextDel, crashes, origin, meddled, torn>>

(***************************************************************************)
(* Tables.                                                                 *)
(***************************************************************************)
\* Mutant: deleted files are not compared.
ChangesWithoutDeletions(d, before, after) ==
  {[del |-> d, path |-> x, prev |-> before[x], now |-> after[x]] :
     x \in {y \in Paths : after[y] \notin {before[y], Absent}}}

\* diff_manifests, as the rows of file_deltas it leads to.
Changes(d, before, after) ==
  {[del |-> d, path |-> x, prev |-> before[x], now |-> after[x]] :
     x \in {y \in Paths : before[y] # after[y]}}

ChangedPaths(changes) == {c.path : c \in changes}

RowsOf(d) == {r \in deltas : r.del = d}

\* Mutant: INSERT OR REPLACE never collides.
NeverCollides(changes) == FALSE

\* INSERT INTO file_deltas: the primary key is (delegation_id, path).
Collides(changes) ==
  \E c \in changes, r \in deltas : c.del = r.del /\ c.path = r.path

\* Mutant: a missing file is read as any other.
ReadBlobsUnchecked(paths) == {disk[x] : x \in paths}

\* The blobs of the given files, as they are on disk now.
ReadBlobs(paths) == {disk[x] : x \in paths} \ {Absent}

\* The blobs _write_delta_rows adds: a created file's, a modified one's if the
\* content it had is in the table, nothing for a deleted one.
AfterBlobs(changes) ==
  LET created == ReadBlobs({c.path : c \in {e \in changes : e.prev = Absent}})
  IN  created \cup ReadBlobs({c.path : c \in
        {e \in changes : e.now # Absent /\ e.prev \in blobs \cup created}})

\* Mutant: only the outcome is written.
MarkOutcomeOnly(d, outcome) == [rows EXCEPT ![d].outcome = outcome]

\* mark_outcome with a timestamp_end, which every caller passes.
Mark(d, outcome) ==
  [rows EXCEPT ![d].outcome = outcome, ![d].ended = TRUE]

(***************************************************************************)
(* A server starts: it lists the rows without timestamp_end, walks the     *)
(* workspace once, and stores for each what a commit would have stored.    *)
(***************************************************************************)
Orphans == {d \in Ids : rows[d].begun /\ ~rows[d].ended}

Start(p) ==
  /\ At(p, "down")
  /\ run' = [run EXCEPT ![p] =
               IF p \in Servers
                 THEN [Fresh("reconciling") EXCEPT !.before = disk,
                                                     !.orphans = Orphans]
                 ELSE Fresh("idle")]
  /\ UNCHANGED <<disk, dbVars, zombie, worldVars>>

\* The next row, in the order of timestamp_start.  A row without before-manifest
\* entries is taken for one of an old version and skipped.
Reconcile(p) ==
  /\ At(p, "reconciling")
  /\ run[p].orphans # {}
  /\ LET d == CHOOSE e \in run[p].orphans : \A f \in run[p].orphans : e <= f
         walk == run[p].before
         changes == Changes(d, stored[d], walk)
     IN  /\ run' = [run EXCEPT ![p].orphans = @ \ {d}]
         /\ IF stored[d] = NoFiles
              THEN UNCHANGED <<rows, deltas, blobs>>
              ELSE /\ rows' = Mark(d, "interrupted")
                   /\ deltas' = (deltas \ RowsOf(d)) \cup changes
                   /\ blobs' = blobs \cup AfterBlobs(changes)
  /\ UNCHANGED <<disk, stored, zombie, worldVars>>

Ready(p) ==
  /\ At(p, "reconciling")
  /\ run[p].orphans = {}
  /\ run' = [run EXCEPT ![p] = Fresh("idle")]
  /\ UNCHANGED <<disk, dbVars, zombie, worldVars>>

(***************************************************************************)
(* A delegation begins; each of its executor runs takes a snapshot first.  *)
(***************************************************************************)
Delegate(p) ==
  /\ At(p, "idle")
  /\ nextDel <= MaxDelegations
  /\ run' = [run EXCEPT ![p] = [Fresh("ready") EXCEPT !.del = nextDel]]
  /\ nextDel' = nextDel + 1
  /\ UNCHANGED <<disk, dbVars, zombie, crashes, origin, meddled, torn>>

WalkBefore(p) ==
  /\ At(p, "ready")
  /\ run' = [run EXCEPT ![p].pc = "walked", ![p].n = @ + 1, ![p].before = disk,
                        ![p].start = IF run[p].n = 0 THEN disk ELSE @]
  /\ UNCHANGED <<disk, dbVars, zombie, worldVars>>

\* begin_snapshot: the snapshots row is INSERT OR IGNORE, the manifest entries
\* INSERT OR REPLACE.
BeginSnapshot(p) ==
  /\ At(p, "walked")
  /\ LET d == run[p].del
         before == run[p].before
     IN  /\ rows' = [rows EXCEPT ![d].begun = TRUE]
         /\ stored' = [stored EXCEPT ![d] =
              [x \in Paths |-> IF before[x] = Absent THEN @[x] ELSE before[x]]]
         /\ blobs' = blobs \cup
              ReadBlobs({x \in Paths : before[x] # Absent} \cup Scope)
  /\ Goto(p, "running")
  /\ UNCHANGED <<disk, deltas, zombie, worldVars>>

(***************************************************************************)
(* The executor's thread writes while it runs, in the grace period, and as *)
(* a zombie for as long as it lives.                                       *)
(***************************************************************************)
Write(x, c) == c # disk[x] /\ disk' = [disk EXCEPT ![x] = c]

ExecutorWrites(p, x, c) ==
  /\ At(p, "running") \/ At(p, "grace") \/ p \in zombie
  /\ Write(x, c)
  /\ meddled' = (meddled \/ ~(At(p, "running") \/ At(p, "grace")))
  /\ UNCHANGED <<dbVars, run, zombie, nextDel, crashes, origin, torn>>

ZombieEnds(p) ==
  /\ p \in zombie
  /\ zombie' = zombie \ {p}
  /\ UNCHANGED <<disk, dbVars, run, worldVars>>

ExecutorReturns(p) ==
  /\ At(p, "running")
  /\ Goto(p, "committing")
  /\ UNCHANGED <<disk, dbVars, zombie, worldVars>>

\* SupervisorAbort: the row is marked before anything else.
ExecutorAborts(p) ==
  /\ At(p, "running") /\ "abort" \in Interruptions
  /\ rows' = Mark(run[p].del, "needs_input")
  /\ Goto(p, "committing")
  /\ UNCHANGED <<disk, stored, deltas, blobs, zombie, worldVars>>

\* Any other exception of the executor: the outermost handler commits.
ExecutorRaises(p) ==
  /\ At(p, "running") /\ "raise" \in Interruptions
  /\ rows' = Mark(run[p].del, "error")
  /\ Goto(p, "recommitting")
  /\ UNCHANGED <<disk, stored, deltas, blobs, zombie, worldVars>>

ExecutorTimesOut(p) ==
  /\ At(p, "running") /\ Interruptions \cap {"timeout", "overrun"} # {}
  /\ rows' = Mark(run[p].del, "timeout")
  /\ Goto(p, "grace")
  /\ UNCHANGED <<disk, stored, deltas, blobs, zombie, worldVars>>

\* The thread ends within MCP_CODER_EXECUTOR_FLUSH_GRACE_S, or nobody waits for
\* it any longer: a running future cannot be cancelled.
GraceEnds(p) ==
  /\ At(p, "grace")
  /\ \/ "timeout" \in Interruptions /\ UNCHANGED zombie
     \/ "overrun" \in Interruptions /\ zombie' = zombie \cup {p}
  /\ Goto(p, "committing")
  /\ UNCHANGED <<disk, dbVars, worldVars>>

(***************************************************************************)
(* resolve_delegation_attribution: walk, compare, commit_snapshot.  An     *)
(* IntegrityError rolls the transaction back; the outermost handler marks  *)
(* the row and tries the same again, and its failure leaves the run.       *)
(***************************************************************************)
CommitSnapshot(p) ==
  LET d == run[p].del
      changes == Changes(d, run[p].before, disk)
  IN  /\ At(p, "committing") \/ At(p, "recommitting")
      /\ ~Collides(changes)
      /\ rows' = [rows EXCEPT ![d].ended = TRUE]
      /\ deltas' = {r \in deltas : ~(r.del = d /\ r.path \in ChangedPaths(changes))}
                     \cup changes
      /\ blobs' = blobs \cup AfterBlobs(changes)
      /\ run' = [run EXCEPT ![p].pc = "returned",
                            ![p].changed = ChangedPaths(changes),
                            ![p].snap = run[p].snap \/ run[p].n = 1]
      /\ UNCHANGED <<disk, stored, zombie, worldVars>>

CommitFails(p) ==
  /\ At(p, "committing") \/ At(p, "recommitting")
  /\ Collides(Changes(run[p].del, run[p].before, disk))
  /\ IF At(p, "committing")
       THEN rows' = Mark(run[p].del, "error") /\ Goto(p, "recommitting")
       ELSE UNCHANGED rows /\ Goto(p, "raised")
  /\ UNCHANGED <<disk, stored, deltas, blobs, zombie, worldVars>>

(***************************************************************************)
(* Back in delegate_to_agent: another turn, or the gateway and the end.  A *)
(* rerun that raised is the last.                                          *)
(***************************************************************************)
Rerun(p) ==
  /\ At(p, "returned") \/ (At(p, "raised") /\ run[p].n = 1)
  /\ run[p].n < MaxRuns
  /\ Goto(p, "ready")
  /\ UNCHANGED <<disk, dbVars, zombie, worldVars>>

\* apply_post_delegation_gateway: what the last result changed out of scope.
Violations(changed) == IF Strict THEN changed \ Scope ELSE {}

EnterGateway(p) ==
  /\ At(p, "returned") \/ At(p, "raised")
  /\ run' = [run EXCEPT ![p].pc = "gateway",
                        ![p].todo = Violations(run[p].changed)]
  /\ UNCHANGED <<disk, dbVars, zombie, worldVars>>

\* Mutant: the content the delegation left is written back.
Recorded(r) == r.now

\* What revert_to_before restores from a row of file_deltas.
Previous(r) == r.prev

\* revert_to_before, one path.  Without a row, or without the blob, the path is
\* skipped.
RevertPath(p, x) ==
  /\ At(p, "gateway")
  /\ x \in run[p].todo
  /\ run' = [run EXCEPT ![p].todo = @ \ {x}]
  /\ LET rs == {r \in RowsOf(run[p].del) :
                  r.path = x /\ Previous(r) \in blobs \cup {Absent}}
     IN  disk' = IF rs = {} THEN disk
                 ELSE [disk EXCEPT ![x] = Previous(CHOOSE r \in rs : TRUE)]
  /\ UNCHANGED <<dbVars, zombie, worldVars>>

\* finalize_checkpoint_metadata, when the first run returned a snapshot.
Finalize(p) ==
  /\ At(p, "gateway")
  /\ run[p].todo = {}
  /\ rows' = IF run[p].snap
               THEN [rows EXCEPT ![run[p].del].outcome = "final"] ELSE rows
  /\ run' = [run EXCEPT ![p] = Fresh("idle")]
  /\ UNCHANGED <<disk, stored, deltas, blobs, zombie, worldVars>>

(***************************************************************************)
(* The environment.                                                        *)
(***************************************************************************)
HostWrites(x, c) ==
  /\ HostEdits
  /\ Write(x, c)
  /\ meddled' = TRUE
  /\ UNCHANGED <<dbVars, run, zombie, nextDel, crashes, origin, torn>>

Crash(p) ==
  /\ ~At(p, "down")
  /\ crashes < MaxCrashes
  /\ crashes' = crashes + 1
  /\ torn' = (torn \/ (run[p].pc \in {"running", "grace", "committing", "recommitting"}
                        /\ rows[run[p].del].ended))
  /\ run' = [run EXCEPT ![p] = Fresh("down")]
  /\ zombie' = zombie \ {p}
  /\ UNCHANGED <<disk, dbVars, nextDel, origin, meddled>>

Step(p) ==
  \/ Start(p) \/ Reconcile(p) \/ Ready(p)
  \/ Delegate(p) \/ WalkBefore(p) \/ BeginSnapshot(p)
  \/ \E x \in Paths, c \in Contents \cup {Absent} : ExecutorWrites(p, x, c)
  \/ ZombieEnds(p)
  \/ ExecutorReturns(p) \/ ExecutorAborts(p) \/ ExecutorRaises(p)
  \/ ExecutorTimesOut(p) \/ GraceEnds(p)
  \/ CommitSnapshot(p) \/ CommitFails(p)
  \/ Rerun(p) \/ EnterGateway(p)
  \/ \E x \in Paths : RevertPath(p, x)
  \/ Finalize(p)

Next ==
  \/ \E p \in Procs : Step(p) \/ Crash(p)
  \/ \E x \in Paths, c \in Contents \cup {Absent} : HostWrites(x, c)

Spec == Init /\ [][Next]_vars

-----------------------------------------------------------------------------
(***************************************************************************)
(* Properties.                                                             *)
(***************************************************************************)
\* No process is in the middle of a delegation, starting, or waiting to start.
Quiet == \A p \in Procs : At(p, "idle")

\* The content of x that the deltas of all delegations lead to.
Replayed(x) ==
  LET rs == {r \in deltas : r.path = x}
  IN  IF rs = {} THEN origin[x]
      ELSE (CHOOSE r \in rs : \A s \in rs : s.del <= r.del).now

\* The history explains the workspace: between delegations, replaying the deltas
\* in order over the workspace as it was at first gives what is on disk, after
\* interrupted runs and after a crash in the middle of one, once the server has
\* started again and left no row unreconciled.  (One run per delegation, no
\* strict scope.)
HistoryExplains ==
  (Quiet /\ Orphans = {} /\ ~torn) => \A x \in Paths : disk[x] = Replayed(x)

\* No row stays in limbo: between delegations every snapshots row has its
\* timestamp_end, unless the workspace was empty when the delegation began.
NoLimbo == Quiet => \A d \in Orphans : stored[d] = NoFiles

\* What is recorded of a delegation stays: no later run, commit or
\* reconciliation replaces a delta of a row that has its timestamp_end.  (One
\* process.)
DeltasFrozen ==
  [][\A d \in Ids : rows[d].ended => RowsOf(d) \subseteq deltas']_vars

\* The strict gateway gives an out-of-scope file the content it had when the
\* delegation began, not the one a rerun of the delegation found, as long as
\* nobody but its runs writes.
RevertsToStart ==
  [][\A p \in Procs : \A x \in run[p].todo :
       (/\ ~meddled /\ At(p, "gateway")
        /\ run'[p].pc = "gateway" /\ x \notin run'[p].todo)
         => disk'[x] = run[p].start[x]]_vars

\* A rerun takes nothing from the first run: its deltas stay, and so does the
\* content a revert goes back to.
FirstRunStands == DeltasFrozen /\ RevertsToStart

\* The gateway of p is done and no out-of-scope file is changed.
NothingOutOfScope(p) ==
  (Strict /\ ~meddled /\ At(p, "gateway") /\ run[p].todo = {})
    => \A x \in Paths \ Scope : disk[x] = run[p].start[x]

\* Under a strict scope nothing out of scope is left changed when the gateway is
\* done with a delegation of one run, in time, aborted, raised or timed out.
ScopeHolds == \A p \in Procs : run[p].n = 1 => NothingOutOfScope(p)

(***************************************************************************)
(* What documents and comments say and the code does not do.               *)
(***************************************************************************)
\* Any row without timestamp_end is backfilled when a server has started.
EveryOrphanBackfilled == Quiet => Orphans = {}

\* mark_outcome overwrites an earlier outcome only when timestamp_end was NULL:
\* what a row with its end says is replaced by the final outcome alone.
OutcomeKept ==
  [][\A d \in Ids :
       rows[d].ended => rows'[d].outcome \in {rows[d].outcome, "final"}]_vars

\* However a process ends, the deltas replay to what is on disk once a server
\* has started again.
HistoryAlwaysExplains ==
  (Quiet /\ Orphans = {}) => \A x \in Paths : disk[x] = Replayed(x)

\* A row is reconciled as interrupted only after a crash of its process.
InterruptedIsNotRunning ==
  \A d \in Ids : rows[d].outcome = "interrupted" => \A p \in Procs : run[p].del # d

\* Nothing out of scope is left changed, reruns or not.
ScopeAlwaysHolds == \A p \in Procs : NothingOutOfScope(p)
=============================================================================
