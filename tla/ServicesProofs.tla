---------------------------- MODULE ServicesProofs ----------------------------
(***************************************************************************)
(* Theorems about Retention, ServerLifecycle and Sessions, for every set   *)
(* of delegations, packages, processes, workspaces and conversations.      *)
(***************************************************************************)
EXTENDS Retention, ServerLifecycle, Sessions, TLAPS

-----------------------------------------------------------------------------
(***************************************************************************)
(* The collection of old data.                                             *)
(***************************************************************************)
\* A delegation has a package once it stored one, and is old or exported
\* only after its end.
StagesAgree(j) ==
    /\ job[j] \in {"new", "running"} => package[j] = NoHash
    /\ j \in old => job[j] \in {"ended", "unnamed", "crashed"}
    /\ j \in exports => job[j] \in {"ended", "unnamed"}

\* What may still be asked for of delegation j.
Due(j) == job[j] # "new" /\ (j \notin old \/ j \in exports)

TraceStays(j) ==
    /\ Due(j) => j \in traces
    /\ j \in doomed => j \in old \ exports

PackageStays(j) ==
    Due(j) /\ job[j] \notin {"crashed", "unnamed"} /\ package[j] # NoHash /\ j \notin overlooked =>
        package[j] \in blobs

\* A running collection knows the package of each delegation whose row names
\* one, but for those it overlooked.
KnownToGc(j) ==
    gc # "idle" /\ j \notin overlooked =>
        /\ job[j] # "stored"
        /\ job[j] = "ended" /\ package[j] # NoHash => <<j, package[j]>> \in kept

\* It read the rows of ended delegations, and wants to keep the packages of
\* those that are due.
SparesKept ==
    \A k \in kept :
        /\ job[k[1]] = "ended"
        /\ gc = "blobs" /\ Due(k[1]) => k[2] \notin unwanted

\* The inductive invariant behind CollectionSpares.
RetentionInv ==
    /\ RetentionTypeOK
    /\ \A j \in Jobs : StagesAgree(j) /\ TraceStays(j) /\ PackageStays(j) /\ KnownToGc(j)
    /\ SparesKept

LEMMA RetentionStarts == RetentionInit => RetentionInv
    BY DEF RetentionInit, RetentionInv, RetentionTypeOK, StagesAgree, Due, TraceStays,
           PackageStays, KnownToGc, SparesKept

\* The delegations.
LEMMA JobsKeep ==
    ASSUME RetentionInv, NEW i \in Jobs,
           \/ StartJob(i) \/ InterruptJob(i) \/ CrashJob(i) \/ Age(i)
           \/ \E h \in Hashes : StorePackage(i, h)
           \/ \E b \in BOOLEAN : EndJob(i, b)
    PROVE  RetentionInv'
<1> USE RetentionAssumption DEF gcVars, RetentionInv, RetentionTypeOK, StagesAgree, Due,
                                TraceStays, PackageStays, KnownToGc, SparesKept
<1>1. CASE StartJob(i)
    BY <1>1 DEF StartJob
<1>2. CASE CrashJob(i)
    BY <1>2 DEF CrashJob
<1>3. CASE Age(i)
    BY <1>3 DEF Age
<1>4. ASSUME NEW h \in Hashes, StorePackage(i, h) PROVE RetentionInv'
    BY <1>4 DEF StorePackage
<1>5. ASSUME NEW b \in BOOLEAN, EndJob(i, b) PROVE RetentionInv'
    BY <1>5 DEF EndJob
<1>6. CASE InterruptJob(i)
    BY <1>6 DEF InterruptJob
<1> QED
    BY <1>1, <1>2, <1>3, <1>4, <1>5, <1>6

\* The collection.
LEMMA GcKeeps ==
    ASSUME RetentionInv,
           \/ ReadRows \/ ReadTraces \/ ReadBlobs \/ FinishGc
           \/ \E j \in Jobs, b \in BOOLEAN : DeleteTrace(j, b)
           \/ \E h \in Hashes, b \in BOOLEAN : DeleteBlob(h, b)
    PROVE  RetentionInv'
<1> USE RetentionAssumption DEF gcVars, RetentionInv, RetentionTypeOK, StagesAgree, Due,
                                TraceStays, PackageStays, KnownToGc, SparesKept
<1>1. CASE ReadRows
    BY <1>1 DEF ReadRows
<1>2. CASE ReadTraces
    BY <1>2 DEF ReadTraces
<1>3. CASE ReadBlobs
    BY <1>3 DEF ReadBlobs
<1>4. CASE FinishGc
    BY <1>4 DEF FinishGc
<1>5. ASSUME NEW j \in Jobs, NEW b \in BOOLEAN, DeleteTrace(j, b) PROVE RetentionInv'
    BY <1>5 DEF DeleteTrace
<1>6. ASSUME NEW h \in Hashes, NEW b \in BOOLEAN, DeleteBlob(h, b) PROVE RetentionInv'
    BY <1>6 DEF DeleteBlob
<1> QED
    BY <1>1, <1>2, <1>3, <1>4, <1>5, <1>6

LEMMA RetentionIsInductive == RetentionInv /\ [RetentionNext]_retentionVars => RetentionInv'
<1>1. CASE UNCHANGED retentionVars
    BY <1>1 DEF retentionVars, RetentionInv, RetentionTypeOK, StagesAgree, Due, TraceStays,
                PackageStays, KnownToGc, SparesKept
<1>2. CASE RetentionNext
    BY <1>2, JobsKeep, GcKeeps DEF RetentionNext
<1> QED
    BY <1>1, <1>2

LEMMA CollectionIsSparing == RetentionInv => CollectionSpares
    BY DEF RetentionInv, RetentionTypeOK, StagesAgree, Due, TraceStays, PackageStays,
           CollectionSpares, FreshCanBeReplayed, ExportsKeepTheirData

\* Whatever the delegations do during a collection, it leaves the packages that
\* the rows of delegations within their age or with a training export name,
\* unless such a row was still to come (maintenance.py:269-297).
THEOREM CollectionsAreCareful == RetentionSpec => []CollectionSpares
    BY CollectionIsSparing, RetentionStarts, RetentionIsInductive, PTL DEF RetentionSpec

-----------------------------------------------------------------------------
(***************************************************************************)
(* The servers.                                                            *)
(***************************************************************************)
Serves(p) == at[p] \in {"started", "ending", "registered", "sweeping", "serving"}
\* It has listed the servers it takes for stale.
Listed(p) == at[p] \in {"ending", "registered", "sweeping", "serving"}

\* A process is what its state says, and one that bears the pid of an earlier
\* one counts.
Alike(p) ==
    /\ Lives(p) => home[p] \in Workspaces /\ lives[p] > 0
    /\ Serves(p) <=> Lives(p) /\ kind[p] = "server"
    /\ Lives(p) /\ kind[p] = "other" => lives[p] > 1

\* A process whose pid was listed or is in a pid file is the server it was
\* then, unless it is a later process.
Same(q) == Lives(q) /\ lives[q] = 1

TargetsKnown(p) ==
    /\ p \notin targets[p]
    /\ targets[p] # {} => at[p] \in {"ending", "sweeping"}
    /\ \A q \in targets[p] :
         /\ lives[q] > 0
         /\ Same(q) => kind[q] \in {"server", "report"} /\ (killAll \/ home[q] = home[p])

PidFileKnown(w) ==
    LET q == pidfile[w] IN
        q # NoPid => lives[q] > 0 /\ (Same(q) => kind[q] = "server" /\ home[q] = w)

\* A pid file names the last that registered of those that can be seen and
\* ended.
Named(p) ==
    p \notin Odd /\ at[p] \in {"registered", "sweeping", "serving"} =>
        pidfile[home[p]] \in {p} \union Odd

\* Of two servers of a workspace that can be seen and ended, the second to
\* list has the first as a target: the one that is through with its targets
\* is a target of the other.
Rivals(p, q) ==
    /\ p # q /\ p \notin Odd /\ q \notin Odd
    /\ Listed(p) /\ Listed(q) /\ home[p] = home[q]

Targeted(p, q) ==
    Rivals(p, q) =>
        /\ at[p] # "ending" => p \in targets[q]
        /\ p \in targets[q] \/ q \in targets[p]

\* The row of a living process is that of its workspace.
RowsKnown ==
    \A r \in rows : r.pid # NoPid =>
        /\ Lives(r.pid) /\ home[r.pid] = r.ws
        /\ at[r.pid] = "serving" \/ kind[r.pid] = "command"

\* The inductive invariant behind OneServes and the promises of a start.
LifecycleInv ==
    /\ LifecycleTypeOK
    /\ kind \in [Pids -> {"server", "command", "report", "other"}]
    /\ home \in [Pids -> Workspaces \union {NoPid}] /\ lives \in [Pids -> Nat]
    /\ \A p \in Pids : Alike(p) /\ TargetsKnown(p) /\ Named(p)
    /\ \A w \in Workspaces : PidFileKnown(w)
    /\ \A p, q \in Pids : Targeted(p, q)
    /\ RowsKnown

LEMMA LifecycleStarts == LifecycleInit => LifecycleInv
    BY LifecycleAssumption
    DEF LifecycleInit, LifecycleInv, LifecycleTypeOK, Alike, Serves, Lives, Same, TargetsKnown, Named,
        PidFileKnown, Rivals, Listed, Targeted, RowsKnown

\* Processes that end take no promise with them.
LEMMA EndsKeep ==
    ASSUME LifecycleInv, NEW gone \in SUBSET Pids, Ended(gone),
           NEW p \in Pids, NEW left \in SUBSET targets[p],
           targets' = [q \in Pids |-> IF q \in gone THEN {} ELSE IF q = p THEN left ELSE targets[q]],
           \A q \in targets[p] \ left : q \in gone \union Odd,
           UNCHANGED <<lives, pidfile, settings>>
    PROVE  LifecycleInv'
<1> USE LifecycleAssumption DEF LifecycleInv
<1>1. LifecycleTypeOK'
    <2>1. at' \in [Pids -> {"gone", "started", "ending", "registered", "sweeping", "serving", "running"}]
        BY DEF Ended, LifecycleTypeOK
    <2>2. rows' \subseteq [ws : Workspaces, pid : Pids \union {NoPid}]
        BY DEF Ended, LifecycleTypeOK
    <2>3. targets' \in [Pids -> SUBSET Pids]
        BY DEF LifecycleTypeOK
    <2> QED
        BY <2>1, <2>2, <2>3 DEF LifecycleTypeOK
<1>2. /\ kind' \in [Pids -> {"server", "command", "report", "other"}]
      /\ home' \in [Pids -> Workspaces \union {NoPid}] /\ lives' \in [Pids -> Nat]
    BY DEF Ended
<1>3. ASSUME NEW q \in Pids
      PROVE  /\ q \in gone => at'[q] = "gone" /\ kind'[q] = "other" /\ targets'[q] = {}
             /\ q \notin gone => /\ at'[q] = at[q] /\ kind'[q] = kind[q] /\ home'[q] = home[q]
                                 /\ targets'[q] \subseteq targets[q]
                                 /\ \A r \in targets[q] \ targets'[q] : r \in gone \union Odd
    BY DEF Ended, LifecycleTypeOK
<1>4. Odd' = Odd /\ killAll' = killAll
    BY DEF Odd, settings
<1>5. ASSUME NEW q \in Pids PROVE Alike(q)' /\ Named(q)'
    BY <1>3, <1>4 DEF Alike, Named, Serves, Lives
<1>6. ASSUME NEW q \in Pids PROVE TargetsKnown(q)'
    <2>1. CASE q \in gone
        BY <1>3, <2>1 DEF TargetsKnown
    <2>2. CASE q \notin gone
        BY <1>3, <1>4, <2>2 DEF TargetsKnown, Same, Lives, LifecycleTypeOK
    <2> QED
        BY <2>1, <2>2
<1>7. ASSUME NEW w \in Workspaces PROVE PidFileKnown(w)'
    BY <1>3 DEF PidFileKnown, Same, Lives, LifecycleTypeOK
<1>8. ASSUME NEW q \in Pids, NEW r \in Pids PROVE Targeted(q, r)'
    BY <1>3, <1>4 DEF Targeted, Rivals, Listed, LifecycleTypeOK
<1>9. RowsKnown'
    <2>1. SUFFICES ASSUME NEW r \in rows', r.pid # NoPid
                   PROVE  Lives(r.pid)' /\ home'[r.pid] = r.ws
                              /\ (at'[r.pid] = "serving" \/ kind'[r.pid] = "command")
        BY DEF RowsKnown, Lives
    <2>2. PICK o \in rows : r = [o EXCEPT !.pid = IF @ \in gone THEN NoPid ELSE @]
        BY DEF Ended
    <2>3. o.pid \in Pids /\ o.pid \notin gone /\ r.pid = o.pid /\ r.ws = o.ws
        BY <2>1, <2>2 DEF LifecycleTypeOK
    <2> QED
        BY <2>3, <1>3 DEF RowsKnown, Lives
<1> QED
    BY <1>1, <1>2, <1>5, <1>6, <1>7, <1>8, <1>9

LEMMA BeginKeeps ==
    ASSUME LifecycleInv, NEW p \in Pids, NEW k \in {"server", "command", "report", "other"},
           NEW w \in Workspaces, Begin(p, k, w)
    PROVE  LifecycleInv'
<1> USE LifecycleAssumption DEF LifecycleInv
<1>1. LifecycleTypeOK'
    BY DEF Begin, LifecycleTypeOK
<1>2. /\ kind' \in [Pids -> {"server", "command", "report", "other"}]
      /\ home' \in [Pids -> Workspaces \union {NoPid}] /\ lives' \in [Pids -> Nat]
    BY DEF Begin
<1>3. /\ at'[p] = IF k = "server" THEN "started" ELSE "running"
      /\ kind'[p] = k /\ home'[p] = w /\ lives'[p] = lives[p] + 1 /\ lives[p] \in Nat
      /\ at[p] = "gone" /\ (k = "other" => lives[p] > 0)
      /\ \A q \in Pids \ {p} : at'[q] = at[q] /\ kind'[q] = kind[q] /\ home'[q] = home[q]
                                   /\ lives'[q] = lives[q]
      /\ UNCHANGED <<targets, pidfile, rows, hidden, stuck, killAll>>
    BY DEF Begin, settings, Lives, LifecycleTypeOK
<1>4. ASSUME NEW q \in Pids PROVE Alike(q)' /\ Named(q)'
    BY <1>3 DEF Alike, Named, Serves, Lives, Odd
<1>5. ASSUME NEW q \in Pids PROVE TargetsKnown(q)'
    BY <1>3 DEF TargetsKnown, Same, Lives, LifecycleTypeOK
<1>6. ASSUME NEW v \in Workspaces PROVE PidFileKnown(v)'
    BY <1>3 DEF PidFileKnown, Same, Lives, LifecycleTypeOK
<1>7. ASSUME NEW q \in Pids, NEW r \in Pids PROVE Targeted(q, r)'
    BY <1>3 DEF Targeted, Rivals, Listed, Odd
<1>8. RowsKnown'
    BY <1>3 DEF RowsKnown, Lives, LifecycleTypeOK
<1> QED
    BY <1>1, <1>2, <1>4, <1>5, <1>6, <1>7, <1>8

LEMMA ListKeeps == ASSUME LifecycleInv, NEW p \in Pids, List(p) PROVE LifecycleInv'
<1> USE LifecycleAssumption DEF LifecycleInv
<1>1. Stale(p) \subseteq Pids \ {p} /\ home[p] \in Workspaces
    BY DEF List, Stale, Alike, Lives, LifecycleTypeOK
<1>2. LifecycleTypeOK'
    BY <1>1 DEF List, LifecycleTypeOK
<1>3. /\ at[p] = "started" /\ at'[p] = "ending" /\ targets'[p] = Stale(p)
      /\ \A q \in Pids \ {p} : at'[q] = at[q] /\ targets'[q] = targets[q]
      /\ UNCHANGED <<kind, home, lives, pidfile, rows, hidden, stuck, killAll>>
    BY DEF List, settings, LifecycleTypeOK
<1>4. ASSUME NEW q \in Pids PROVE Alike(q)' /\ Named(q)'
    BY <1>3 DEF Alike, Named, Serves, Lives, Odd
<1>5. ASSUME NEW q \in Stale(p)
      PROVE  lives[q] > 0 /\ (Same(q) => kind[q] \in {"server", "report"} /\ home[q] = home[p])
    BY <1>1 DEF Stale, ServerLine, PidFileKnown, Alike
<1>6. ASSUME NEW q \in Pids PROVE TargetsKnown(q)'
    BY <1>1, <1>3, <1>5 DEF TargetsKnown, Same, Lives, LifecycleTypeOK
<1>7. ASSUME NEW v \in Workspaces PROVE PidFileKnown(v)'
    BY <1>3 DEF PidFileKnown, Same, Lives, LifecycleTypeOK
<1>8. ASSUME NEW q \in Pids, NEW r \in Pids PROVE Targeted(q, r)'
    <2>1. ASSUME NEW o \in Pids \ ({p} \union Odd), Listed(o), home[o] = home[p] PROVE o \in Stale(p)
        BY <2>1 DEF Stale, ServerLine, Alike, Serves, Listed, Odd
    <2> QED
        BY <1>3, <2>1 DEF Targeted, Rivals, Listed, Odd
<1>9. RowsKnown'
    BY <1>3 DEF RowsKnown, Lives, LifecycleTypeOK
<1> QED
    BY <1>2, <1>3, <1>4, <1>6, <1>7, <1>8, <1>9

LEMMA TerminateKeeps ==
    ASSUME LifecycleInv, NEW p \in Pids, NEW q \in Pids, Terminate(p, q)
    PROVE  LifecycleInv'
<1> DEFINE gone == {q} \ stuck
           left == targets[p] \ {q}
<1>1. Ended(gone) /\ gone \in SUBSET Pids /\ left \in SUBSET targets[p]
    BY DEF Terminate
<1>2. targets' = [r \in Pids |-> IF r \in gone THEN {} ELSE IF r = p THEN left ELSE targets[r]]
    <2>1. p # q
        BY DEF Terminate, LifecycleInv, TargetsKnown
    <2> QED
        BY <2>1 DEF Terminate, LifecycleInv, LifecycleTypeOK
<1>3. \A r \in targets[p] \ left : r \in gone \union Odd
    BY DEF Odd
<1>4. UNCHANGED <<lives, pidfile, settings>>
    BY DEF Terminate
<1> HIDE DEF gone, left
<1> QED
    BY <1>1, <1>2, <1>3, <1>4, EndsKeep

LEMMA QuitKeeps ==
    ASSUME LifecycleInv, NEW p \in Pids, Quit(p) \/ KillCommand(p)
    PROVE  LifecycleInv'
<1>1. /\ Ended({p}) /\ targets' = [targets EXCEPT ![p] = {}]
      /\ UNCHANGED <<lives, pidfile, settings>>
    BY DEF Quit, KillCommand
<1>2. targets' = [r \in Pids |-> IF r \in {p} THEN {} ELSE IF r = p THEN targets[p] ELSE targets[r]]
    BY <1>1 DEF LifecycleInv, LifecycleTypeOK
<1>3. /\ {p} \in SUBSET Pids /\ targets[p] \in SUBSET targets[p]
      /\ \A r \in targets[p] \ targets[p] : r \in {p} \union Odd
    OBVIOUS
<1>4. PICK gone \in SUBSET Pids, left \in SUBSET targets[p] : gone = {p} /\ left = targets[p]
    BY <1>3
<1>5. /\ Ended(gone) /\ UNCHANGED <<lives, pidfile, settings>>
      /\ \A r \in targets[p] \ left : r \in gone \union Odd
    BY <1>1, <1>3, <1>4
<1>6. targets' = [r \in Pids |-> IF r \in gone THEN {} ELSE IF r = p THEN left ELSE targets[r]]
    BY <1>2, <1>4
<1> QED
    BY <1>5, <1>6, EndsKeep

LEMMA RegisterKeeps == ASSUME LifecycleInv, NEW p \in Pids, Register(p) PROVE LifecycleInv'
<1> USE LifecycleAssumption DEF LifecycleInv
<1>1. /\ at[p] = "ending" /\ at'[p] = "registered" /\ targets[p] = {} /\ home[p] \in Workspaces
      /\ pidfile'[home[p]] = p
      /\ \A q \in Pids \ {p} : at'[q] = at[q]
      /\ \A w \in Workspaces \ {home[p]} : pidfile'[w] = pidfile[w]
      /\ UNCHANGED <<kind, home, lives, targets, rows, hidden, stuck, killAll>>
    BY DEF Register, settings, Alike, Lives, LifecycleTypeOK
<1>2. LifecycleTypeOK'
    BY DEF Register, LifecycleTypeOK
<1>3. ASSUME NEW q \in Pids PROVE Alike(q)'
    BY <1>1 DEF Alike, Serves, Lives
\* A rival that had registered would be a target of p's, which has none left.
<1>4. ASSUME NEW q \in Pids PROVE Named(q)'
    <2>1. CASE q = p \/ p \in Odd
        BY <1>1, <2>1 DEF Named, Odd, Alike, Lives
    <2>2. CASE q # p /\ p \notin Odd
        <3>1. ASSUME q \notin Odd, at[q] \in {"registered", "sweeping", "serving"}
              PROVE  home[q] \in Workspaces \ {home[p]}
            BY <1>1, <2>2, <3>1 DEF Targeted, Rivals, Listed, Alike, Lives
        <3> QED
            BY <1>1, <2>2, <3>1 DEF Named, Odd
    <2> QED
        BY <2>1, <2>2
<1>5. ASSUME NEW q \in Pids PROVE TargetsKnown(q)'
    BY <1>1 DEF TargetsKnown, Same, Lives, LifecycleTypeOK
<1>6. ASSUME NEW w \in Workspaces PROVE PidFileKnown(w)'
    <2>1. lives[p] > 0 /\ kind[p] = "server"
        BY <1>1 DEF Alike, Serves, Lives
    <2> QED
        BY <1>1, <2>1 DEF PidFileKnown, Same, Lives, LifecycleTypeOK
<1>7. ASSUME NEW q \in Pids, NEW r \in Pids PROVE Targeted(q, r)'
    BY <1>1 DEF Targeted, Rivals, Listed, Odd
<1>8. RowsKnown'
    BY <1>1 DEF RowsKnown, Lives, LifecycleTypeOK
<1> QED
    BY <1>1, <1>2, <1>3, <1>4, <1>5, <1>6, <1>7, <1>8

LEMMA SweepKeeps == ASSUME LifecycleInv, NEW p \in Pids, Sweep(p) PROVE LifecycleInv'
<1> USE LifecycleAssumption DEF LifecycleInv
<1>1. /\ at[p] = "registered" /\ at'[p] = "sweeping" /\ targets[p] = {}
      /\ targets'[p] = IF killAll THEN {q \in Pids \ {p} : ServerLine(q)} ELSE {}
      /\ \A q \in Pids \ {p} : at'[q] = at[q] /\ targets'[q] = targets[q]
      /\ UNCHANGED <<kind, home, lives, pidfile, rows, hidden, stuck, killAll>>
    BY DEF Sweep, settings, TargetsKnown, LifecycleTypeOK
<1>2. LifecycleTypeOK'
    BY DEF Sweep, LifecycleTypeOK
<1>3. ASSUME NEW q \in Pids PROVE Alike(q)' /\ Named(q)'
    BY <1>1 DEF Alike, Named, Serves, Lives, Odd
<1>4. ASSUME NEW q \in Pids PROVE TargetsKnown(q)'
    BY <1>1 DEF TargetsKnown, Same, ServerLine, Alike, Lives, LifecycleTypeOK
<1>5. ASSUME NEW w \in Workspaces PROVE PidFileKnown(w)'
    BY <1>1 DEF PidFileKnown, Same, Lives, LifecycleTypeOK
<1>6. ASSUME NEW q \in Pids, NEW r \in Pids PROVE Targeted(q, r)'
    BY <1>1 DEF Targeted, Rivals, Listed, Odd
<1>7. RowsKnown'
    BY <1>1 DEF RowsKnown, Lives, LifecycleTypeOK
<1> QED
    BY <1>1, <1>2, <1>3, <1>4, <1>5, <1>6, <1>7

LEMMA ReconcileKeeps == ASSUME LifecycleInv, NEW p \in Pids, Reconcile(p) PROVE LifecycleInv'
<1> USE LifecycleAssumption DEF LifecycleInv
<1>1. /\ at[p] = "sweeping" /\ at'[p] = "serving" /\ targets[p] = {}
      /\ \A q \in Pids \ {p} : at'[q] = at[q]
      /\ rows' \subseteq rows
      /\ UNCHANGED <<kind, home, lives, targets, pidfile, hidden, stuck, killAll>>
    BY DEF Reconcile, settings, LifecycleTypeOK
<1>2. LifecycleTypeOK'
    BY DEF Reconcile, LifecycleTypeOK
<1>3. ASSUME NEW q \in Pids PROVE Alike(q)' /\ Named(q)' /\ TargetsKnown(q)'
    BY <1>1 DEF Alike, Named, Serves, Lives, Odd, TargetsKnown, Same, LifecycleTypeOK
<1>4. ASSUME NEW w \in Workspaces PROVE PidFileKnown(w)'
    BY <1>1 DEF PidFileKnown, Same, Lives, LifecycleTypeOK
<1>5. ASSUME NEW q \in Pids, NEW r \in Pids PROVE Targeted(q, r)'
    BY <1>1 DEF Targeted, Rivals, Listed, Odd
<1>6. RowsKnown'
    BY <1>1 DEF RowsKnown, Lives, LifecycleTypeOK
<1> QED
    BY <1>1, <1>2, <1>3, <1>4, <1>5, <1>6

LEMMA DelegationsKeep ==
    ASSUME LifecycleInv, NEW p \in Pids, BeginDelegation(p) \/ EndDelegation(p)
    PROVE  LifecycleInv'
<1> USE LifecycleAssumption DEF LifecycleInv
<1>1. UNCHANGED <<kind, at, home, lives, targets, pidfile, hidden, stuck, killAll>>
    BY DEF BeginDelegation, EndDelegation, settings
<1>2. ASSUME NEW r \in rows' \ rows
      PROVE  r = [ws |-> home[p], pid |-> p] /\ Lives(p) /\ (at[p] = "serving" \/ kind[p] = "command")
    BY DEF BeginDelegation, EndDelegation, Lives
<1>3. LifecycleTypeOK'
    BY <1>1, <1>2 DEF LifecycleTypeOK, Alike
<1>4. RowsKnown'
    BY <1>1, <1>2 DEF RowsKnown, Lives
<1>5. ASSUME NEW q \in Pids PROVE Alike(q)' /\ Named(q)' /\ TargetsKnown(q)'
    BY <1>1 DEF Alike, Named, Serves, Lives, Odd, TargetsKnown, Same
<1>6. ASSUME NEW w \in Workspaces PROVE PidFileKnown(w)'
    BY <1>1 DEF PidFileKnown, Same, Lives
<1>7. ASSUME NEW q \in Pids, NEW r \in Pids PROVE Targeted(q, r)'
    BY <1>1 DEF Targeted, Rivals, Listed, Odd
<1> QED
    BY <1>1, <1>3, <1>4, <1>5, <1>6, <1>7

LEMMA LifecycleIsInductive == LifecycleInv /\ [LifecycleNext]_lifecycleVars => LifecycleInv'
<1>1. CASE UNCHANGED lifecycleVars
    BY <1>1 DEF lifecycleVars, settings, LifecycleInv, LifecycleTypeOK, Alike, Named, Serves, Lives,
                Odd, TargetsKnown, Same, PidFileKnown, Targeted, Rivals, Listed, RowsKnown
<1>2. CASE LifecycleNext
    BY <1>2, BeginKeeps, ListKeeps, TerminateKeeps, RegisterKeeps, SweepKeeps, ReconcileKeeps,
       DelegationsKeep, QuitKeeps
    DEF LifecycleNext, StartsUp
<1> QED
    BY <1>1, <1>2

LEMMA ServersAreAlone == LifecycleInv => OneServes
    BY DEF LifecycleInv, LifecycleTypeOK, OneServes, Named, Targeted, Rivals, Listed, TargetsKnown

\* Of the servers of a workspace that can be seen and ended one serves, and
\* the pid file names it, however many start at once (singleton.py:223, 249).
THEOREM OneServerServes == LifecycleSpec => []OneServes
    BY ServersAreAlone, LifecycleStarts, LifecycleIsInductive, PTL DEF LifecycleSpec

\* A start closes no row of a living server it could have seen and ended, and
\* ends no command and no server of another workspace, but by a pid that was
\* given again or when told to (singleton.py:19-249, main.py:623-632).
THEOREM StartsHarmNobody == LifecycleSpec => OrphansOnly /\ CommandsSpared /\ OthersSpared
<1> USE DEF LifecycleInv
<1>1. ASSUME LifecycleInv, [LifecycleNext]_lifecycleVars, NEW r \in rows \ rows',
             r.pid # NoPid, Lives(r.pid)', ~EndDelegation(r.pid)
      PROVE  \/ kind[r.pid] = "command" \/ r.pid \in Odd
             \/ \E p \in Odd : at[p] = "sweeping" /\ home[p] = r.ws
    <2>1. PICK p \in Pids : Reconcile(p)
        <3>1. r.pid \in Pids
            BY <1>1 DEF LifecycleTypeOK
        <3>2. ASSUME NEW gone \in SUBSET Pids, Ended(gone) PROVE FALSE
            <4>1. r.pid \notin gone
                BY <1>1, <3>1, <3>2 DEF Ended, Lives
            <4>2. [r EXCEPT !.pid = IF @ \in gone THEN NoPid ELSE @] = r
                BY <1>1, <4>1 DEF LifecycleTypeOK
            <4> QED
                BY <1>1, <3>2, <4>2 DEF Ended
        <3>3. ASSUME NEW p \in Pids PROVE ~Quit(p) /\ ~KillCommand(p)
            BY <3>2 DEF Quit, KillCommand
        <3>4. ASSUME NEW p \in Pids, NEW q \in Pids PROVE ~Terminate(p, q)
            BY <3>2 DEF Terminate
        <3>5. ASSUME NEW p \in Pids PROVE ~EndDelegation(p)
            BY <1>1 DEF EndDelegation
        <3>6. rows' # rows
            BY <1>1
        <3> QED
            BY <1>1, <3>1, <3>3, <3>4, <3>5
            DEF LifecycleNext, StartsUp, lifecycleVars, Begin, List, Register, Sweep, BeginDelegation
    <2>2. r.ws = home[p] /\ at[p] = "sweeping"
        BY <1>1, <2>1 DEF Reconcile
    <2>3. r.pid \in Pids /\ home[r.pid] = r.ws /\ (at[r.pid] = "serving" \/ kind[r.pid] = "command")
        BY <1>1 DEF RowsKnown, LifecycleTypeOK
    <2> QED
        BY <1>1, <2>1, <2>2, <2>3 DEF Targeted, Rivals, Listed, TargetsKnown, LifecycleTypeOK, Odd
<1>2. ASSUME LifecycleInv, NEW p \in Pids, NEW q \in Pids, Terminate(p, q), Lives(q), ~Lives(q)'
      PROVE  /\ kind[q] = "command" => lives[q] > 1
             /\ home[q] # home[p] => killAll \/ lives[q] > 1
    BY <1>2 DEF Terminate, TargetsKnown, Same
<1>3. LifecycleInv /\ [LifecycleNext]_lifecycleVars =>
        [\A r \in rows \ rows' :
           r.pid # NoPid /\ Lives(r.pid)' /\ ~EndDelegation(r.pid) =>
              \/ kind[r.pid] = "command"
              \/ r.pid \in Odd
              \/ \E p \in Odd : at[p] = "sweeping" /\ home[p] = r.ws]_lifecycleVars
    BY <1>1
<1>4. LifecycleInv =>
        [\A p, q \in Pids :
           Terminate(p, q) /\ kind[q] = "command" /\ Lives(q) /\ ~Lives(q)' => lives[q] > 1]_lifecycleVars
    BY <1>2
<1>5. LifecycleInv =>
        [\A p, q \in Pids :
           Terminate(p, q) /\ Lives(q) /\ ~Lives(q)' /\ home[q] # home[p]
              => killAll \/ lives[q] > 1]_lifecycleVars
    BY <1>2
<1> HIDE DEF LifecycleInv
<1> QED
    BY <1>3, <1>4, <1>5, LifecycleStarts, LifecycleIsInductive, PTL
    DEF LifecycleSpec, OrphansOnly, CommandsSpared, OthersSpared

-----------------------------------------------------------------------------
(***************************************************************************)
(* The sessions.                                                           *)
(***************************************************************************)
SessionFile == [host : Hosts \union {NoHost}, last : 0 .. MaxTime, torn : BOOLEAN]
Place == {"idle", "project", "truncating", "writing", "find", "read", "hint", "hinting", "running",
          "resuming", "touch", "again", "stamp", "stamping"}

SessionsTyped ==
    /\ client \in [Clients -> [at : Place, hint : Hosts \union {NoHost}, session : Nat, copy : SessionFile]]
    /\ session \in Seq(SessionFile)
    /\ project \in {"none", "whole", "torn"} /\ clock \in 0 .. MaxTime

\* The process has a session.
InSession(c) ==
    client[c].at \in {"read", "hint", "hinting", "running", "resuming", "touch", "again", "stamp",
                      "stamping"}

\* The file of its session names its conversation, or none before it wrote
\* the name; what it writes into the file names what the file does, or it.
Owns(c) ==
    /\ client[c].session \in 0 .. Len(session)
    /\ InSession(c) =>
         /\ client[c].session > 0
         /\ session[client[c].session].host \in {client[c].hint, NoHost}
    /\ client[c].at \in {"running", "touch"} => session[client[c].session].host = client[c].hint
    /\ client[c].at \in {"hint", "hinting"} => client[c].copy.host = client[c].hint
    /\ client[c].at \in {"stamp", "stamping"} =>
         client[c].copy.host = session[client[c].session].host

\* Processes that share a session are of one conversation, which it names.
Shared(c, d) ==
    InSession(c) /\ InSession(d) /\ client[c].session = client[d].session /\ c # d
        => client[c].hint = client[d].hint /\ session[client[c].session].host = client[c].hint

\* The inductive invariant behind HostsApart and SessionKeepsHost.
SessionsInv ==
    /\ SessionsTyped
    /\ \A c \in Clients : Owns(c)
    /\ \A c, d \in Clients : Shared(c, d)

LEMMA SessionsBounds == NoHost \notin Hosts /\ Folders \in Nat /\ MaxTime \in Nat
    BY SessionsAssumption

LEMMA EmptyIsFile ==
    /\ Empty \in SessionFile
    /\ Resting \in [at : Place, hint : Hosts \union {NoHost}, session : Nat, copy : SessionFile]
    BY SessionsBounds DEF Empty, Resting, SessionFile, Place

LEMMA SessionsStart == SessionsInit => SessionsInv
<1> SUFFICES ASSUME SessionsInit PROVE SessionsInv
    OBVIOUS
<1>1. SessionsTyped
    BY EmptyIsFile, SessionsBounds DEF SessionsInit, SessionsTyped
<1>2. \A c \in Clients : client[c].at = "idle" /\ client[c].session = 0
    BY DEF SessionsInit, Resting
<1>3. Len(session) = 0
    BY DEF SessionsInit
<1> QED
    BY <1>1, <1>2, <1>3 DEF SessionsInv, Owns, Shared, InSession

\* What a process holds.
Holds == [at : Place, hint : Hosts \union {NoHost}, session : Nat, copy : SessionFile]

\* A process that is at another place than before, or back at its start, while
\* the session files stay as they are.
Onward(c, k) ==
    \/ k.at \in {"idle", "project"} /\ k.session = 0
    \/ /\ \/ k.at \in {"truncating", "writing", "find"}
          \/ client[c].at = "running" /\ k.at = "touch"
          \/ client[c].at \in {"read", "running", "touch"} /\ k.at \in {"resuming", "again"}
       /\ k = [client[c] EXCEPT !.at = k.at]

LEMMA ProcessGoesOn ==
    ASSUME SessionsInv, NEW c \in Clients, NEW k \in Holds, Onward(c, k),
           client' = [client EXCEPT ![c] = k],
           UNCHANGED session, project' \in {"none", "whole", "torn"}, clock' \in 0 .. MaxTime
    PROVE  SessionsInv'
<1>1. SessionsTyped'
    BY DEF SessionsInv, SessionsTyped, Holds
<1>2. client'[c] = k /\ \A d \in Clients \ {c} : client'[d] = client[d]
    BY DEF SessionsInv, SessionsTyped
<1>3. InSession(c)' => /\ InSession(c) /\ k.session = client[c].session /\ k.hint = client[c].hint
                       /\ k.at \in {"touch", "resuming", "again"}
                       /\ k.at = "touch" => client[c].at = "running"
    BY <1>2 DEF InSession, Onward, SessionsInv, SessionsTyped, Holds
<1>4. k.session \in 0 .. Len(session)
    BY DEF SessionsInv, SessionsTyped, Owns, Onward, Holds
<1>5. ASSUME NEW d \in Clients PROVE Owns(d)'
    <2>1. CASE d = c
        <3>1. ~(k.at \in {"hint", "hinting", "stamp", "stamping"})
            BY DEF Onward
        <3>2. k.at \in {"running", "touch"} => InSession(c)'
            BY <1>2 DEF InSession
        <3> QED
            BY <1>2, <1>3, <1>4, <2>1, <3>1, <3>2 DEF SessionsInv, Owns, InSession
    <2>2. CASE d # c
        BY <1>2, <2>2 DEF SessionsInv, Owns, InSession
    <2> QED
        BY <2>1, <2>2
<1>6. ASSUME NEW d \in Clients, NEW e \in Clients PROVE Shared(d, e)'
    <2>1. ASSUME NEW i \in Clients, InSession(i)'
          PROVE  /\ InSession(i) /\ client'[i].session = client[i].session
                 /\ client'[i].hint = client[i].hint
        BY <1>2, <1>3, <2>1 DEF InSession
    <2> QED
        BY <2>1 DEF SessionsInv, Shared
<1> QED
    BY <1>1, <1>5, <1>6 DEF SessionsInv

LEMMA StartsKeep ==
    ASSUME SessionsInv, NEW c \in Clients,
           \/ \E h \in Hosts \union {NoHost} : Resolve(c, h)
           \/ ReadProject(c) \/ TruncateProject(c) \/ WriteProject(c)
           \/ EndRun(c) \/ CrashClient(c)
           \/ Resume(c) \/ Return(c) \/ Raise(c) \/ Swallow(c)
    PROVE  SessionsInv'
<1>1. client[c] \in Holds
    BY DEF SessionsInv, SessionsTyped, Holds
<1>2. ASSUME NEW place \in {"truncating", "writing", "find", "touch", "resuming", "again"},
             To(c, place), place = "touch" => client[c].at = "running",
             place \in {"resuming", "again"} => client[c].at \in {"read", "running", "touch"}
      PROVE  \E k \in Holds : Onward(c, k) /\ client' = [client EXCEPT ![c] = k]
    <2>1. [client[c] EXCEPT !.at = place] \in Holds
        BY <1>1 DEF Holds, Place
    <2>2. Onward(c, [client[c] EXCEPT !.at = place])
        BY <1>1, <1>2 DEF Onward, Holds
    <2>3. client' = [client EXCEPT ![c] = [client[c] EXCEPT !.at = place]]
        BY <1>2 DEF To
    <2> QED
        BY <2>1, <2>2, <2>3
<1>3. ASSUME client' = [client EXCEPT ![c] = Resting]
      PROVE  \E k \in Holds : Onward(c, k) /\ client' = [client EXCEPT ![c] = k]
    BY <1>3, EmptyIsFile DEF Onward, Resting, Holds
<1>4. ASSUME NEW h \in Hosts \union {NoHost},
             client' = [client EXCEPT ![c] = [Resting EXCEPT !.at = "project", !.hint = h]]
      PROVE  \E k \in Holds : Onward(c, k) /\ client' = [client EXCEPT ![c] = k]
    <2>1. [Resting EXCEPT !.at = "project", !.hint = h] \in Holds
        BY EmptyIsFile DEF Resting, Holds, Place
    <2>2. Onward(c, [Resting EXCEPT !.at = "project", !.hint = h])
        BY DEF Onward, Resting
    <2> QED
        BY <1>4, <2>1, <2>2
<1>5. \E k \in Holds : Onward(c, k) /\ client' = [client EXCEPT ![c] = k]
    <2>1. CASE CrashClient(c)
        BY <1>3, <2>1 DEF CrashClient
    <2>2. CASE \E h \in Hosts \union {NoHost} : Resolve(c, h)
        BY <1>4, <2>2 DEF Resolve
    <2>3. CASE ReadProject(c)
        BY <1>2, <1>3, <2>3 DEF ReadProject
    <2>4. CASE TruncateProject(c) \/ WriteProject(c)
        BY <1>2, <2>4 DEF TruncateProject, WriteProject
    <2>5. CASE EndRun(c)
        BY <1>2, <2>5 DEF EndRun
    <2>6. CASE Resume(c) \/ Raise(c)
        BY <1>2, <2>6 DEF Resume, Raise
    <2>7. CASE Return(c) \/ Swallow(c)
        BY <1>3, <2>7 DEF Return, Swallow
    <2> QED
        BY <2>1, <2>2, <2>3, <2>4, <2>5, <2>6, <2>7
<1>6. UNCHANGED session /\ project' \in {"none", "whole", "torn"}
    BY DEF Resolve, ReadProject, TruncateProject, WriteProject, EndRun, CrashClient, Resume, Return,
           Raise, Swallow, SessionsInv, SessionsTyped
<1>7. clock' = clock \/ (clock < MaxTime /\ clock' = clock + 1)
    BY DEF Resolve, ReadProject, TruncateProject, WriteProject, EndRun, CrashClient, Resume, Return,
           Raise, Swallow
<1>8. clock' \in 0 .. MaxTime
    BY <1>7, SessionsBounds DEF SessionsInv, SessionsTyped
<1> QED
    BY <1>5, <1>6, <1>8, ProcessGoesOn

\* A conversation that was resolved takes a session that names it: whoever
\* else is in it has that conversation.
LEMMA ReuseKeeps == ASSUME SessionsInv, NEW c \in Clients, Reuse(c) PROVE SessionsInv'
<1>1. PICK s \in Of(client[c].hint) : client' = [client EXCEPT ![c].at = "read", ![c].session = s]
    BY DEF Reuse
<1>2. s \in DOMAIN session /\ s \in 1 .. Len(session) /\ session[s].host = client[c].hint
    BY <1>1 DEF Of, Readable, SessionsInv, SessionsTyped
<1> DEFINE k == [client[c] EXCEPT !.at = "read", !.session = s]
<1>3. client' = [client EXCEPT ![c] = k]
    BY <1>1 DEF SessionsInv, SessionsTyped
<1>4. k \in Holds /\ k.at = "read" /\ k.session = s /\ k.hint = client[c].hint
    <2>1. client[c] \in Holds /\ s \in Nat
        BY <1>2 DEF SessionsInv, SessionsTyped, Holds
    <2> QED
        BY <2>1 DEF Holds, Place
<1> HIDE DEF k
<1>5. client'[c] = k /\ (\A d \in Clients \ {c} : client'[d] = client[d]) /\ UNCHANGED session
    BY <1>3 DEF SessionsInv, SessionsTyped, Reuse
<1>6. SessionsTyped'
    BY <1>3, <1>4 DEF SessionsInv, SessionsTyped, Reuse, Holds
<1>7. ASSUME NEW d \in Clients PROVE Owns(d)'
    <2>1. CASE d = c
        BY <1>2, <1>4, <1>5, <2>1 DEF Owns, InSession
    <2>2. CASE d # c
        BY <1>5, <2>2 DEF SessionsInv, Owns, InSession
    <2> QED
        BY <2>1, <2>2
<1>8. ASSUME NEW d \in Clients, d # c, InSession(d), client[d].session = s
      PROVE  client[d].hint = client[c].hint
    BY <1>2, <1>8, SessionsBounds DEF SessionsInv, Owns, Reuse
<1>9. ASSUME NEW d \in Clients, NEW e \in Clients PROVE Shared(d, e)'
    BY <1>2, <1>4, <1>5, <1>8 DEF SessionsInv, Shared, InSession
<1> QED
    BY <1>6, <1>7, <1>9 DEF SessionsInv

LEMMA CreateKeeps == ASSUME SessionsInv, NEW c \in Clients, CreateFolder(c) PROVE SessionsInv'
<1> DEFINE new == [Empty EXCEPT !.last = clock]
           n == Len(session)
           k == [client[c] EXCEPT !.at = "read", !.session = n + 1]
<1>1. new \in SessionFile /\ new.host = NoHost
    BY EmptyIsFile DEF Empty, SessionFile, SessionsInv, SessionsTyped
<1>2. n \in Nat /\ session \in Seq(SessionFile)
    BY DEF SessionsInv, SessionsTyped
<1>3. session' = Append(session, new)
    BY DEF CreateFolder
<1>4. client' = [client EXCEPT ![c] = k]
    BY DEF CreateFolder, SessionsInv, SessionsTyped
<1>5. k \in Holds /\ k.at = "read" /\ k.session = n + 1 /\ k.hint = client[c].hint
    <2>1. client[c] \in Holds /\ n + 1 \in Nat
        BY <1>2 DEF SessionsInv, SessionsTyped, Holds
    <2> HIDE DEF n
    <2> QED
        BY <2>1 DEF Holds, Place
<1> HIDE DEF new, k
<1>6. /\ session' \in Seq(SessionFile) /\ Len(session') = n + 1
      /\ session'[n + 1] = new /\ \A s \in 1 .. n : session'[s] = session[s]
    BY <1>1, <1>2, <1>3
<1> HIDE DEF n
<1>7. client'[c] = k /\ \A d \in Clients \ {c} : client'[d] = client[d]
    BY <1>4 DEF SessionsInv, SessionsTyped
<1>8. SessionsTyped'
    BY <1>4, <1>5, <1>6 DEF SessionsInv, SessionsTyped, CreateFolder, Holds
<1>9. ASSUME NEW d \in Clients PROVE client[d].session \in 0 .. n
    BY DEF SessionsInv, Owns, n
<1>10. ASSUME NEW d \in Clients PROVE Owns(d)'
    <2>1. CASE d = c
        BY <1>1, <1>2, <1>5, <1>6, <1>7, <2>1 DEF Owns, InSession
    <2>2. CASE d # c
        <3>1. InSession(d) => client[d].session \in 1 .. n
            BY <1>2, <1>9 DEF SessionsInv, Owns
        <3>2. client[d].session \in 0 .. n + 1
            BY <1>2, <1>9
        <3> QED
            BY <1>6, <1>7, <2>2, <3>1, <3>2 DEF SessionsInv, Owns, InSession
    <2> QED
        BY <2>1, <2>2
<1>11. ASSUME NEW d \in Clients, d # c PROVE client[d].session # n + 1
    BY <1>2, <1>9
<1>12. ASSUME NEW d \in Clients, NEW e \in Clients PROVE Shared(d, e)'
    <2>1. CASE d = c \/ e = c
        BY <1>5, <1>7, <1>11, <2>1 DEF Shared
    <2>2. CASE d # c /\ e # c
        <3>1. InSession(d) => client[d].session \in 1 .. n
            BY <1>2, <1>9 DEF SessionsInv, Owns
        <3> QED
            BY <1>6, <1>7, <2>2, <3>1 DEF SessionsInv, Shared, InSession
    <2> QED
        BY <2>1, <2>2
<1> QED
    BY <1>8, <1>10, <1>12 DEF SessionsInv

\* A file that is read gives a whole copy, in which the reader's conversation
\* is named.
LEMMA ReadKeeps == ASSUME SessionsInv, NEW c \in Clients, ReadSession(c) PROVE SessionsInv'
<1> DEFINE s == client[c].session
<1>1. /\ client[c] \in Holds /\ InSession(c) /\ s \in 1 .. Len(session) /\ session[s] \in SessionFile
      /\ UNCHANGED <<session, project, clock>> /\ clock \in 0 .. MaxTime
    BY DEF ReadSession, SessionsInv, SessionsTyped, Owns, InSession, Holds
<1>2. PICK k \in Holds :
        /\ client' = [client EXCEPT ![c] = k]
        /\ k.session = s /\ k.hint = client[c].hint
        /\ \/ k.at = "hint" /\ k.copy.host = client[c].hint
           \/ k.at = "stamp" /\ k.copy.host = session[s].host
    <2>1. CASE client[c].at = "read"
        <3> DEFINE copy == [session[s] EXCEPT !.host = client[c].hint]
                   k == [client[c] EXCEPT !.at = "hint", !.copy = copy]
        <3>1. copy \in SessionFile /\ copy.host = client[c].hint
            BY <1>1 DEF SessionFile, Holds
        <3>2. client' = [client EXCEPT ![c] = k]
            BY <2>1 DEF ReadSession
        <3> HIDE DEF copy
        <3>3. k \in Holds /\ k.session = s /\ k.hint = client[c].hint /\ k.at = "hint" /\ k.copy = copy
            BY <1>1, <3>1 DEF Holds, Place
        <3> QED
            BY <3>1, <3>2, <3>3
    <2>2. CASE client[c].at \in {"touch", "again"}
        <3> DEFINE copy == [session[s] EXCEPT !.last = clock]
                   k == [client[c] EXCEPT !.at = "stamp", !.copy = copy]
        <3>1. copy \in SessionFile /\ copy.host = session[s].host
            BY <1>1 DEF SessionFile
        <3>2. client' = [client EXCEPT ![c] = k]
            BY <2>2 DEF ReadSession
        <3> HIDE DEF copy
        <3>3. k \in Holds /\ k.session = s /\ k.hint = client[c].hint /\ k.at = "stamp" /\ k.copy = copy
            BY <1>1, <3>1 DEF Holds, Place
        <3> QED
            BY <3>1, <3>2, <3>3
    <2> QED
        BY <2>1, <2>2 DEF ReadSession
<1>3. client'[c] = k /\ \A d \in Clients \ {c} : client'[d] = client[d]
    BY <1>2 DEF SessionsInv, SessionsTyped
<1>4. SessionsTyped'
    BY <1>1, <1>2 DEF SessionsInv, SessionsTyped, Holds
<1>5. ASSUME NEW d \in Clients PROVE Owns(d)'
    BY <1>1, <1>2, <1>3 DEF SessionsInv, Owns, InSession
<1>6. ASSUME NEW d \in Clients, NEW e \in Clients PROVE Shared(d, e)'
    BY <1>1, <1>2, <1>3 DEF SessionsInv, Shared, InSession
<1> QED
    BY <1>4, <1>5, <1>6 DEF SessionsInv

\* A file that is emptied or written keeps the name it had, or gets that of
\* the conversation of all who use it.
LEMMA FileChanges ==
    ASSUME SessionsInv, NEW c \in Clients, InSession(c),
           NEW file \in SessionFile, file.host \in {client[c].hint, session[client[c].session].host},
           session' = [session EXCEPT ![client[c].session] = file],
           NEW k \in Holds, client' = [client EXCEPT ![c] = k],
           \/ k.at = "idle" /\ k.session = 0
           \/ k.session = client[c].session /\ k.hint = client[c].hint,
           k.at \in {"running", "touch"} => file.host = client[c].hint,
           k.at \in {"hint", "hinting"} => k.copy.host = client[c].hint,
           k.at \in {"stamp", "stamping"} => k.copy.host = file.host,
           UNCHANGED <<project, clock>>
    PROVE  SessionsInv'
<1> DEFINE s == client[c].session
           n == Len(session)
<1>1. n \in Nat /\ s \in 1 .. n /\ session \in Seq(SessionFile)
    BY DEF SessionsInv, SessionsTyped, Owns
<1>2. /\ session' \in Seq(SessionFile) /\ Len(session') = n
      /\ session'[s] = file /\ \A o \in 1 .. n : o # s => session'[o] = session[o]
    BY <1>1
<1>3. client'[c] = k /\ \A d \in Clients \ {c} : client'[d] = client[d]
    BY DEF SessionsInv, SessionsTyped
<1>4. SessionsTyped'
    BY <1>2 DEF SessionsInv, SessionsTyped, Holds
<1>5. InSession(c)' => k.session = s /\ k.hint = client[c].hint
    BY <1>3 DEF InSession
<1>6. ASSUME NEW d \in Clients PROVE Owns(d)'
    <2>1. CASE d = c
        <3>1. k.session \in 0 .. n
            BY <1>1
        <3> QED
            BY <1>1, <1>2, <1>3, <1>5, <2>1, <3>1 DEF Owns, InSession, SessionsInv
    <2>2. CASE d # c
        <3>1. Owns(d) /\ client'[d] = client[d] /\ (InSession(d)' <=> InSession(d))
            BY <1>3, <2>2 DEF SessionsInv, InSession
        <3>2. CASE InSession(d) /\ client[d].session = s
            <4>1. client[d].hint = client[c].hint /\ session[s].host = client[c].hint
                BY <2>2, <3>2 DEF SessionsInv, Shared
            <4>2. file.host = session[s].host
                BY <4>1
            <4> QED
                BY <1>2, <3>1, <3>2, <4>1, <4>2 DEF Owns, InSession
        <3>3. CASE InSession(d) /\ client[d].session # s
            <4>1. client[d].session \in 1 .. n
                BY <1>1, <3>1, <3>3 DEF Owns
            <4> QED
                BY <1>2, <3>1, <3>3, <4>1 DEF Owns, InSession
        <3>4. CASE ~InSession(d)
            BY <1>2, <3>1, <3>4 DEF Owns, InSession
        <3> QED
            BY <3>2, <3>3, <3>4
    <2> QED
        BY <2>1, <2>2
<1>7. ASSUME NEW d \in Clients, InSession(d)'
      PROVE  /\ InSession(d) /\ client'[d].session = client[d].session
             /\ client'[d].hint = client[d].hint /\ client[d].session \in 1 .. n
    <2>1. client'[d].session = client[d].session /\ client'[d].hint = client[d].hint /\ InSession(d)
        BY <1>3, <1>5, <1>7 DEF InSession
    <2> QED
        BY <1>1, <2>1 DEF SessionsInv, Owns
<1>8. ASSUME NEW d \in Clients, NEW e \in Clients PROVE Shared(d, e)'
    <2> SUFFICES ASSUME InSession(d)', InSession(e)', client'[d].session = client'[e].session, d # e
                 PROVE  /\ client'[d].hint = client'[e].hint
                        /\ session'[client'[d].session].host = client'[d].hint
        BY DEF Shared
    <2>1. client[d].hint = client[e].hint /\ session[client[d].session].host = client[d].hint
        BY <1>7 DEF SessionsInv, Shared
    <2>2. CASE client[d].session = s
        <3>1. PICK i \in Clients : i # c /\ InSession(i) /\ client[i].session = s
                                  /\ client[i].hint = client[d].hint
            BY <1>7, <2>1, <2>2
        <3>2. client[i].hint = client[c].hint /\ session[s].host = client[c].hint
            BY <3>1 DEF SessionsInv, Shared
        <3>3. client'[d].hint = client[d].hint /\ client'[e].hint = client[e].hint
              /\ client'[d].session = s
            BY <1>7, <2>2
        <3>4. file.host = client[c].hint
            BY <3>2
        <3>5. session'[s].host = client[d].hint
            BY <1>2, <3>1, <3>2, <3>4
        <3> QED
            BY <2>1, <3>3, <3>5
    <2>3. CASE client[d].session # s
        BY <1>2, <1>7, <2>1, <2>3
    <2> QED
        BY <2>2, <2>3
<1> QED
    BY <1>4, <1>6, <1>8 DEF SessionsInv

LEMMA TruncateKeeps == ASSUME SessionsInv, NEW c \in Clients, TruncateSession(c) PROVE SessionsInv'
<1> DEFINE s == client[c].session
           file == [session[s] EXCEPT !.torn = TRUE]
           k == [client[c] EXCEPT !.at = IF @ = "hint" THEN "hinting" ELSE "stamping"]
<1>1. /\ client[c] \in Holds /\ InSession(c) /\ session[s] \in SessionFile
      /\ s \in 1 .. Len(session) /\ session \in Seq(SessionFile)
      /\ \/ client[c].at = "hint" /\ client[c].copy.host = client[c].hint
         \/ client[c].at = "stamp" /\ client[c].copy.host = session[s].host
    BY DEF TruncateSession, SessionsInv, SessionsTyped, Owns, InSession, Holds
<1>2. file \in SessionFile /\ file.host = session[s].host
    BY <1>1 DEF SessionFile
<1>3. /\ k \in Holds /\ k.session = s /\ k.hint = client[c].hint /\ k.copy = client[c].copy
      /\ \/ k.at = "hinting" /\ client[c].at = "hint"
         \/ k.at = "stamping" /\ client[c].at = "stamp"
    BY <1>1 DEF Holds, Place
<1>4. client' = [client EXCEPT ![c] = k]
    BY DEF TruncateSession, To, SessionsInv, SessionsTyped
<1>5. session' = [session EXCEPT ![s] = file]
    BY DEF TruncateSession, Tear
<1>6. UNCHANGED <<project, clock>>
    BY DEF TruncateSession
<1> HIDE DEF file, k
<1> QED
    BY <1>1, <1>2, <1>3, <1>4, <1>5, <1>6, FileChanges

LEMMA WriteKeeps == ASSUME SessionsInv, NEW c \in Clients, WriteSession(c) PROVE SessionsInv'
<1> DEFINE file == client[c].copy
<1>1. /\ client[c] \in Holds /\ InSession(c) /\ file \in SessionFile
      /\ \/ client[c].at = "hinting" /\ file.host = client[c].hint
         \/ client[c].at = "stamping" /\ file.host = session[client[c].session].host
    BY DEF WriteSession, SessionsInv, SessionsTyped, Owns, InSession, Holds
<1>2. \E k \in Holds :
        /\ client' = [client EXCEPT ![c] = k]
        /\ \/ k.at = "idle" /\ k.session = 0
           \/ /\ k.at = "running" /\ client[c].at = "hinting"
              /\ k.session = client[c].session /\ k.hint = client[c].hint
    <2>1. CASE client[c].at = "hinting"
        <3> DEFINE k == [client[c] EXCEPT !.at = "running", !.copy = Empty]
        <3>1. client' = [client EXCEPT ![c] = k]
            BY <2>1 DEF WriteSession
        <3>2. k \in Holds /\ k.at = "running" /\ k.session = client[c].session /\ k.hint = client[c].hint
            BY <1>1, EmptyIsFile DEF Holds, Place
        <3> QED
            BY <2>1, <3>1, <3>2
    <2>2. CASE client[c].at = "stamping"
        BY <2>2, EmptyIsFile DEF WriteSession, Resting, Holds
    <2> QED
        BY <2>1, <2>2 DEF WriteSession
<1>3. session' = [session EXCEPT ![client[c].session] = file] /\ UNCHANGED <<project, clock>>
    BY DEF WriteSession
<1> HIDE DEF file
<1> QED
    BY <1>1, <1>2, <1>3, FileChanges

LEMMA SessionsAreInductive == SessionsInv /\ [SessionsNext]_sessionsVars => SessionsInv'
<1>1. CASE UNCHANGED sessionsVars
    BY <1>1 DEF sessionsVars, SessionsInv, SessionsTyped, Owns, Shared, InSession
<1>2. CASE SessionsNext
    BY <1>2, StartsKeep, ReuseKeeps, CreateKeeps, ReadKeeps, TruncateKeeps, WriteKeeps DEF SessionsNext
<1> QED
    BY <1>1, <1>2

LEMMA SessionsAreOwned == SessionsInv => HostsApart
    BY DEF SessionsInv, Owns, InSession, HostsApart

\* A delegation runs in a session of its own conversation, whatever the other
\* processes write into the file and wherever they crash, and one that was
\* resumed or interrupted early at least in no other conversation's
\* (store.py:155, apply.py:33, mcp_server.py:2021).
THEOREM ConversationsAreApart == SessionsSpec => []HostsApart
    BY SessionsAreOwned, SessionsStart, SessionsAreInductive, PTL DEF SessionsSpec

\* No update takes the name of its conversation from a session (apply.py:40,
\* session_paths.py:68).
THEOREM ConversationsAreKept == SessionsSpec => SessionKeepsHost
<1>1. ASSUME SessionsInv, [SessionsNext]_sessionsVars, NEW s \in DOMAIN session, session[s].host # NoHost
      PROVE  session'[s].host = session[s].host
    <2>1. s \in 1 .. Len(session) /\ session \in Seq(SessionFile) /\ session[s] \in SessionFile
        BY <1>1 DEF SessionsInv, SessionsTyped
    <2>2. ASSUME NEW c \in Clients, CreateFolder(c) PROVE session'[s].host = session[s].host
        <3>1. session' = Append(session, [Empty EXCEPT !.last = clock])
            BY <2>2 DEF CreateFolder
        <3>2. [Empty EXCEPT !.last = clock] \in SessionFile
            BY <1>1, EmptyIsFile DEF Empty, SessionFile, SessionsInv, SessionsTyped
        <3> HIDE DEF Empty
        <3>3. session'[s] = session[s]
            BY <2>1, <3>1, <3>2
        <3> QED
            BY <3>3
    <2>3. ASSUME NEW c \in Clients, TruncateSession(c) PROVE session'[s].host = session[s].host
        BY <2>1, <2>3 DEF TruncateSession, Tear, SessionFile
    <2>4. ASSUME NEW c \in Clients, WriteSession(c) PROVE session'[s].host = session[s].host
        <3>1. /\ session' = [session EXCEPT ![client[c].session] = client[c].copy]
              /\ client[c].copy.host \in {client[c].hint, session[client[c].session].host}
              /\ session[client[c].session].host \in {client[c].hint, NoHost}
            BY <1>1, <2>4 DEF WriteSession, SessionsInv, Owns, InSession
        <3> QED
            BY <1>1, <2>1, <3>1
    <2>5. CASE UNCHANGED session
        BY <2>5
    <2> QED
        BY <1>1, <2>2, <2>3, <2>4, <2>5
        DEF SessionsNext, sessionsVars, Resolve, ReadProject, TruncateProject, WriteProject, Reuse,
            ReadSession, EndRun, CrashClient, Resume, Return, Raise, Swallow
<1>2. SessionsInv /\ [SessionsNext]_sessionsVars =>
        [\A s \in DOMAIN session :
           session[s].host # NoHost => session'[s].host = session[s].host]_sessionsVars
    BY <1>1
<1> QED
    BY <1>2, SessionsStart, SessionsAreInductive, PTL DEF SessionsSpec, SessionKeepsHost
=============================================================================
