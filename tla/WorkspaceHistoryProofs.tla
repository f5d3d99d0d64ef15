------------------------ MODULE WorkspaceHistoryProofs ------------------------
(***************************************************************************)
(* What the history of a workspace keeps, for every number of files,       *)
(* delegations, runs and crashes: the types, no row in limbo, what a       *)
(* delegation's reruns leave as it was, the strict scope, and the          *)
(* explanation of the workspace by its history.                            *)
(***************************************************************************)
EXTENDS WorkspaceHistory, NaturalsInduction, WellFoundedInduction, TLAPS

\* Where a process works on a delegation, and where on a run of the executor.
Active == {"ready", "walked", "running", "grace", "committing", "recommitting",
           "returned", "raised", "gateway"}
InRun  == {"running", "grace", "committing", "recommitting"}

\* The type invariant with what it needs to be inductive.
TypeInv ==
  TypeOK /\ \A p \in Procs : run[p].pc \in Active => run[p].del \in Ids

LEMMA NoFilesType == NoFiles \in Manifest
  BY DEF NoFiles, Manifest

LEMMA FreshType ==
  ASSUME NEW label \in Labels
  PROVE  /\ Fresh(label) \in Run /\ Fresh(label).pc = label
         /\ Fresh(label).del = 0 /\ Fresh(label).n = 0
         /\ Fresh(label).changed = {} /\ Fresh(label).todo = {}
         /\ Fresh(label).orphans = {} /\ Fresh(label).before = NoFiles
         /\ Fresh(label).start = NoFiles
  BY NoFilesType DEF Fresh, Run

LEMMA ChangesType ==
  ASSUME NEW d \in Ids, NEW before \in Manifest, NEW after \in Manifest
  PROVE  /\ Changes(d, before, after) \in SUBSET Delta
         /\ ChangedPaths(Changes(d, before, after)) = {x \in Paths : before[x] # after[x]}
<1>1. \A x \in Paths : before[x] \in Contents \cup {Absent} /\ after[x] \in Contents \cup {Absent}
  BY DEF Manifest
<1>2. \A c \in Changes(d, before, after) : c \in Delta
  BY <1>1 DEF Changes, Delta
<1>3. ASSUME NEW x \in Paths, before[x] # after[x]
      PROVE  x \in ChangedPaths(Changes(d, before, after))
  <2>1. [del |-> d, path |-> x, prev |-> before[x], now |-> after[x]] \in Changes(d, before, after)
    BY <1>3 DEF Changes
  <2> QED
    BY <2>1 DEF ChangedPaths
<1>4. \A x \in ChangedPaths(Changes(d, before, after)) : x \in Paths /\ before[x] # after[x]
  BY DEF ChangedPaths, Changes
<1> QED
  BY <1>2, <1>3, <1>4

LEMMA BlobsType ==
  ASSUME TypeInv, NEW changes, changes \subseteq Delta
  PROVE  AfterBlobs(changes) \subseteq Contents
<1>1. \A x \in Paths : disk[x] \in Contents \cup {Absent}
  BY DEF TypeInv, TypeOK, Manifest
<1>2. \A c \in changes : c.path \in Paths
  BY DEF Delta
<1>3. \A S \in SUBSET Paths : ReadBlobs(S) \subseteq Contents
  BY <1>1 DEF ReadBlobs
<1> DEFINE created == ReadBlobs({c.path : c \in {e \in changes : e.prev = Absent}})
           known == {e \in changes : e.now # Absent /\ e.prev \in blobs \cup created}
<1>4. {c.path : c \in {e \in changes : e.prev = Absent}} \in SUBSET Paths
  BY <1>2
<1>5. created \subseteq Contents
  BY <1>3, <1>4
<1>6. AfterBlobs(changes) = created \cup ReadBlobs({c.path : c \in known})
  BY DEF AfterBlobs
<1>7. \A c \in known : c \in changes
  OBVIOUS
<1> HIDE DEF known, created
<1>8. {c.path : c \in known} \in SUBSET Paths
  BY <1>2, <1>7
<1>9. ReadBlobs({c.path : c \in known}) \subseteq Contents
  BY <1>3, <1>8
<1> QED
  BY <1>5, <1>6, <1>9

LEMMA MarkType ==
  ASSUME rows \in [Ids -> Row], NEW d, NEW outcome \in RowOutcomes
  PROVE  Mark(d, outcome) \in [Ids -> Row]
  BY DEF Mark, Row

\* A step that changes the record of one process to another of its type.
LEMMA RunTypeStep ==
  ASSUME TypeInv, NEW p \in Procs, NEW r \in Run, r.pc \in Active => r.del \in Ids,
         run' = [run EXCEPT ![p] = r]
  PROVE  /\ run' \in [Procs -> Run]
         /\ \A q \in Procs : run'[q].pc \in Active => run'[q].del \in Ids
  BY DEF TypeInv, TypeOK

LEMMA GotoType ==
  ASSUME TypeInv, NEW p \in Procs, NEW label \in Labels, Goto(p, label),
         label \in Active => run[p].pc \in Active
  PROVE  /\ run' \in [Procs -> Run]
         /\ \A q \in Procs : run'[q].pc \in Active => run'[q].del \in Ids
<1> DEFINE r == [run[p] EXCEPT !.pc = label]
<1>1. run[p] \in Run
  BY DEF TypeInv, TypeOK
<1>2. r \in Run /\ r.pc = label /\ r.del = run[p].del
  BY <1>1 DEF Run
<1>3. run' = [run EXCEPT ![p] = r]
  BY DEF Goto
<1>4. r.pc \in Active => r.del \in Ids
  BY <1>2 DEF TypeInv
<1> QED
  BY <1>2, <1>3, <1>4, RunTypeStep

LEMMA TypeInit == Init => TypeInv
<1> SUFFICES ASSUME Init PROVE TypeInv
  OBVIOUS
<1>1. \A p \in Procs : run[p] = Fresh("down") /\ run[p] \in Run
  BY FreshType DEF Init, Labels
<1>2. run \in [Procs -> Run]
  BY <1>1 DEF Init
<1>3. \A p \in Procs : run[p].pc \notin Active
  BY <1>1, FreshType DEF Active, Labels
<1>4. rows \in [Ids -> Row]
  BY DEF Init, Row, RowOutcomes
<1>5. stored \in [Ids -> Manifest]
  BY NoFilesType DEF Init
<1>6. nextDel \in 1..(MaxDelegations + 1) /\ crashes \in 0..MaxCrashes
  BY HistoryAssumption DEF Init
<1> QED
  BY <1>2, <1>3, <1>4, <1>5, <1>6 DEF Init, TypeInv, TypeOK

LEMMA LeastNatural ==
  ASSUME NEW T, T \subseteq Nat, T # {}
  PROVE  \E x \in T : \A y \in T : x <= y
<1> DEFINE R == OpToRel(<, Nat)
<1>1. IsWellFoundedOn(R, Nat)
  BY NatLessThanWellFounded
<1>2. \A x, y \in Nat : <<y, x>> \in R <=> y < x
  BY DEF OpToRel
<1> HIDE DEF R
<1>3. PICK x \in T : \A y \in T : ~(<<y, x>> \in R)
  BY <1>1, WFMin
<1>4. ASSUME NEW y \in T PROVE x <= y
  <2>1. ~(y < x) /\ x \in Nat /\ y \in Nat
    BY <1>2, <1>3
  <2> QED
    BY <2>1
<1> QED
  BY <1>4

\* The row a starting server reconciles next.
LEMMA NextOrphan ==
  ASSUME NEW orphans \in SUBSET Ids, orphans # {}
  PROVE  (CHOOSE e \in orphans : \A f \in orphans : e <= f) \in orphans
<1>1. orphans \subseteq Nat
  BY DEF Ids
<1>2. \E e \in orphans : \A f \in orphans : e <= f
  BY <1>1, LeastNatural
<1> QED
  BY <1>2

\* The type of the record of p after each kind of step that changes it.
LEMMA TypeStep == TypeInv /\ [Next]_vars => TypeInv'
<1> SUFFICES ASSUME TypeInv, [Next]_vars PROVE TypeInv'
  OBVIOUS
<1> USE DEF dbVars, worldVars
<1>0. /\ disk \in Manifest /\ origin \in Manifest /\ rows \in [Ids -> Row]
      /\ stored \in [Ids -> Manifest] /\ deltas \in SUBSET Delta /\ blobs \in SUBSET Contents
      /\ run \in [Procs -> Run] /\ zombie \in SUBSET Procs
      /\ nextDel \in 1..(MaxDelegations + 1) /\ crashes \in 0..MaxCrashes
      /\ meddled \in BOOLEAN /\ torn \in BOOLEAN
      /\ \A p \in Procs : run[p].pc \in Active => run[p].del \in Ids
  BY DEF TypeInv, TypeOK
<1> DEFINE RunTyped == /\ run' \in [Procs -> Run]
                       /\ \A q \in Procs : run'[q].pc \in Active => run'[q].del \in Ids
<1>1. ASSUME NEW p \in Procs, Start(p) PROVE TypeInv'
  <2> DEFINE r == IF p \in Servers
                    THEN [Fresh("reconciling") EXCEPT !.before = disk, !.orphans = Orphans]
                    ELSE Fresh("idle")
  <2>1. r \in Run
    <3>1. Orphans \in SUBSET Ids
      BY DEF Orphans
    <3>2. Fresh("reconciling") \in Run /\ Fresh("idle") \in Run
      BY FreshType DEF Labels
    <3> QED
      BY <1>0, <3>1, <3>2 DEF Run
  <2>2. r.pc \notin Active
    <3>1. Fresh("reconciling").pc = "reconciling" /\ Fresh("idle").pc = "idle"
      BY FreshType DEF Labels
    <3>2. Fresh("reconciling") \in Run
      BY FreshType DEF Labels
    <3> QED
      BY <3>1, <3>2 DEF Active, Run
  <2>3. RunTyped
    BY <1>1, <2>1, <2>2, RunTypeStep DEF Start
  <2> QED
    BY <1>0, <1>1, <2>3 DEF Start, TypeInv, TypeOK
<1>2. ASSUME NEW p \in Procs, Reconcile(p) PROVE TypeInv'
  <2>0. PICK d : d = CHOOSE e \in run[p].orphans : \A f \in run[p].orphans : e <= f
    OBVIOUS
  <2> DEFINE r == [run[p] EXCEPT !.orphans = @ \ {d}]
             changes == Changes(d, stored[d], run[p].before)
  <2>1. run[p] \in Run
    BY <1>0
  <2>2. r \in Run /\ r.pc = run[p].pc /\ r.del = run[p].del
    BY <2>1 DEF Run
  <2>3. run' = [run EXCEPT ![p] = r]
    BY <1>2, <2>0 DEF Reconcile
  <2>4. RunTyped
    BY <1>0, <2>2, <2>3, RunTypeStep
  <2>5. IF stored[d] = NoFiles
          THEN UNCHANGED <<rows, deltas, blobs>>
          ELSE /\ rows' = Mark(d, "interrupted")
               /\ deltas' = (deltas \ RowsOf(d)) \cup changes
               /\ blobs' = blobs \cup AfterBlobs(changes)
    BY <1>2, <2>0 DEF Reconcile
  <2>6. rows' \in [Ids -> Row]
    BY <1>0, <2>5, MarkType DEF RowOutcomes
  <2>7. deltas' \in SUBSET Delta /\ blobs' \in SUBSET Contents
    <3>1. CASE d \in Ids
      <4>1. changes \in SUBSET Delta
        BY <1>0, <2>1, <3>1, ChangesType DEF Run
      <4>2. AfterBlobs(changes) \subseteq Contents
        BY <4>1, BlobsType
      <4> QED
        BY <1>0, <2>5, <4>1, <4>2
    <3>2. run[p].orphans \in SUBSET Ids /\ run[p].orphans # {}
      BY <1>2, <2>1 DEF Reconcile, Run
    <3>3. d \in Ids
      BY <2>0, <3>2, NextOrphan
    <3> QED
      BY <3>1, <3>3
  <2> QED
    BY <1>0, <1>2, <2>4, <2>6, <2>7 DEF Reconcile, TypeInv, TypeOK
<1>3. ASSUME NEW p \in Procs, Ready(p) PROVE TypeInv'
  <2>1. RunTyped
    BY <1>3, FreshType, RunTypeStep DEF Ready, Labels, Active
  <2> QED
    BY <1>0, <1>3, <2>1 DEF Ready, TypeInv, TypeOK
<1>4. ASSUME NEW p \in Procs, Delegate(p) PROVE TypeInv'
  <2> DEFINE r == [Fresh("ready") EXCEPT !.del = nextDel]
  <2>1. nextDel \in Ids /\ nextDel + 1 \in 1..(MaxDelegations + 1)
    BY <1>0, <1>4, HistoryAssumption DEF Delegate, Ids
  <2>2. Fresh("ready") \in Run
    BY FreshType DEF Labels
  <2>3. r \in Run /\ r.del = nextDel
    BY <2>1, <2>2 DEF Run
  <2>4. RunTyped
    BY <1>4, <2>1, <2>3, RunTypeStep DEF Delegate
  <2> QED
    BY <1>0, <1>4, <2>1, <2>4 DEF Delegate, TypeInv, TypeOK
<1>5. ASSUME NEW p \in Procs, WalkBefore(p) PROVE TypeInv'
  <2>0. PICK m : m = IF run[p].n = 0 THEN disk ELSE run[p].start
    OBVIOUS
  <2> DEFINE r == [run[p] EXCEPT !.pc = "walked", !.n = run[p].n + 1, !.before = disk,
                                 !.start = m]
  <2>1. run[p] \in Run /\ run[p].del \in Ids
    BY <1>0, <1>5 DEF WalkBefore, At, Active
  <2>2. r \in Run /\ r.del = run[p].del
    <3>1. m \in Manifest
      BY <1>0, <2>0, <2>1 DEF Run
    <3>2. run[p].n + 1 \in Nat
      BY <2>1 DEF Run
    <3> QED
      BY <1>0, <2>1, <3>1, <3>2 DEF Run, Labels
  <2>3. run' = [run EXCEPT ![p] = r]
    BY <1>5, <2>0 DEF WalkBefore
  <2>4. RunTyped
    BY <2>1, <2>2, <2>3, RunTypeStep
  <2> QED
    BY <1>0, <1>5, <2>4 DEF WalkBefore, TypeInv, TypeOK
<1>6. ASSUME NEW p \in Procs, BeginSnapshot(p) PROVE TypeInv'
  <2>1. run[p].pc \in Active /\ run[p].before \in Manifest
    BY <1>0, <1>6 DEF BeginSnapshot, At, Active, Run
  <2>2. RunTyped
    BY <1>6, <2>1, GotoType DEF BeginSnapshot, Labels
  <2>3. rows' \in [Ids -> Row]
    BY <1>0, <1>6 DEF BeginSnapshot, Row
  <2>4. PICK d : d = run[p].del
    OBVIOUS
  <2>5. d \in Ids
    BY <1>0, <2>1, <2>4
  <2> DEFINE m == [x \in Paths |-> IF run[p].before[x] = Absent THEN stored[d][x] ELSE run[p].before[x]]
  <2>6. m \in Manifest
    BY <1>0, <2>1, <2>5 DEF Manifest
  <2>7. stored' = [stored EXCEPT ![d] = m]
    BY <1>0, <1>6, <2>4, <2>5 DEF BeginSnapshot
  <2>8. stored' \in [Ids -> Manifest]
    BY <1>0, <2>6, <2>7
  <2>9. \A S \in SUBSET Paths : ReadBlobs(S) \subseteq Contents
    BY <1>0 DEF ReadBlobs, Manifest
  <2>10. {x \in Paths : run[p].before[x] # Absent} \cup Scope \in SUBSET Paths
    BY HistoryAssumption
  <2>11. blobs' \in SUBSET Contents
    BY <1>0, <1>6, <2>9, <2>10 DEF BeginSnapshot
  <2> QED
    BY <1>0, <1>6, <2>2, <2>3, <2>8, <2>11 DEF BeginSnapshot, TypeInv, TypeOK
<1>7. ASSUME NEW x \in Paths, NEW c \in Contents \cup {Absent}, Write(x, c)
      PROVE  disk' \in Manifest
  BY <1>0, <1>7 DEF Write, Manifest
<1>8. ASSUME NEW p \in Procs, NEW x \in Paths, NEW c \in Contents \cup {Absent},
             ExecutorWrites(p, x, c)
      PROVE  TypeInv'
  <2>1. disk' \in Manifest
    BY <1>7, <1>8 DEF ExecutorWrites
  <2>2. meddled' \in BOOLEAN
    BY <1>0, <1>8 DEF ExecutorWrites
  <2> QED
    BY <1>0, <1>8, <2>1, <2>2 DEF ExecutorWrites, TypeInv, TypeOK
<1>9. ASSUME NEW x \in Paths, NEW c \in Contents \cup {Absent}, HostWrites(x, c)
      PROVE  TypeInv'
  <2>1. disk' \in Manifest
    BY <1>7, <1>9 DEF HostWrites
  <2> QED
    BY <1>0, <1>9, <2>1 DEF HostWrites, TypeInv, TypeOK
<1>10. ASSUME NEW p \in Procs,
              \/ ExecutorReturns(p) \/ ExecutorAborts(p) \/ ExecutorRaises(p)
              \/ ExecutorTimesOut(p) \/ GraceEnds(p) \/ CommitFails(p) \/ Rerun(p)
       PROVE  TypeInv'
  <2>1. \E label \in Labels : Goto(p, label)
    BY <1>10 DEF ExecutorReturns, ExecutorAborts, ExecutorRaises, ExecutorTimesOut,
                 GraceEnds, CommitFails, Rerun, Labels
  <2>2. run[p].pc \in Active
    BY <1>10 DEF ExecutorReturns, ExecutorAborts, ExecutorRaises, ExecutorTimesOut,
                 GraceEnds, CommitFails, Rerun, At, Active
  <2>3. RunTyped
    BY <2>1, <2>2, GotoType
  <2>4. UNCHANGED rows \/ \E o \in RowOutcomes : rows' = Mark(run[p].del, o)
    BY <1>10 DEF ExecutorReturns, ExecutorAborts, ExecutorRaises, ExecutorTimesOut,
                 GraceEnds, CommitFails, Rerun, RowOutcomes
  <2>5. rows' \in [Ids -> Row]
    BY <1>0, <2>4, MarkType
  <2>6. zombie' \in SUBSET Procs
    BY <1>0, <1>10 DEF ExecutorReturns, ExecutorAborts, ExecutorRaises, ExecutorTimesOut,
                       GraceEnds, CommitFails, Rerun
  <2>7. UNCHANGED <<disk, stored, deltas, blobs, nextDel, crashes, origin, meddled, torn>>
    BY <1>10 DEF ExecutorReturns, ExecutorAborts, ExecutorRaises, ExecutorTimesOut,
                 GraceEnds, CommitFails, Rerun
  <2> QED
    BY <1>0, <2>3, <2>5, <2>6, <2>7 DEF TypeInv, TypeOK
<1>11. ASSUME NEW p \in Procs, CommitSnapshot(p) PROVE TypeInv'
  <2>1. run[p] \in Run /\ run[p].pc \in Active
    BY <1>0, <1>11 DEF CommitSnapshot, At, Active
  <2>2. PICK d \in Ids : d = run[p].del
    BY <1>0, <2>1
  <2> DEFINE changes == Changes(d, run[p].before, disk)
             r == [run[p] EXCEPT !.pc = "returned", !.changed = ChangedPaths(changes),
                                 !.snap = run[p].snap \/ run[p].n = 1]
  <2>3. changes \in SUBSET Delta /\ ChangedPaths(changes) \in SUBSET Paths
    BY <1>0, <2>1, ChangesType DEF Run
  <2>4. AfterBlobs(changes) \subseteq Contents
    BY <2>3, BlobsType
  <2>5. /\ rows' = [rows EXCEPT ![d].ended = TRUE]
        /\ deltas' = {e \in deltas : ~(e.del = d /\ e.path \in ChangedPaths(changes))} \cup changes
        /\ blobs' = blobs \cup AfterBlobs(changes)
        /\ run' = [run EXCEPT ![p] = r]
    BY <1>11, <2>2 DEF CommitSnapshot
  <2>6. (run[p].snap \/ run[p].n = 1) \in BOOLEAN
    BY <2>1 DEF Run
  <2>7. r \in Run /\ r.del = run[p].del
    BY <2>1, <2>3, <2>6 DEF Run, Labels
  <2>8. RunTyped
    BY <2>2, <2>5, <2>7, RunTypeStep
  <2>9. rows' \in [Ids -> Row]
    BY <1>0, <2>5 DEF Row
  <2>10. deltas' \in SUBSET Delta /\ blobs' \in SUBSET Contents
    BY <1>0, <2>3, <2>4, <2>5
  <2> QED
    BY <1>0, <1>11, <2>8, <2>9, <2>10 DEF CommitSnapshot, TypeInv, TypeOK
<1>12. ASSUME NEW p \in Procs, EnterGateway(p) PROVE TypeInv'
  <2> DEFINE r == [run[p] EXCEPT !.pc = "gateway", !.todo = Violations(run[p].changed)]
  <2>1. run[p] \in Run /\ run[p].del \in Ids
    BY <1>0, <1>12 DEF EnterGateway, At, Active
  <2>2. Violations(run[p].changed) \in SUBSET Paths
    BY <2>1 DEF Violations, Run
  <2>3. r \in Run /\ r.del = run[p].del
    BY <2>1, <2>2 DEF Run, Labels
  <2>4. run' = [run EXCEPT ![p] = r]
    BY <1>12 DEF EnterGateway
  <2>5. RunTyped
    BY <2>1, <2>3, <2>4, RunTypeStep
  <2> QED
    BY <1>0, <1>12, <2>5 DEF EnterGateway, TypeInv, TypeOK
<1>13. ASSUME NEW p \in Procs, NEW x \in Paths, RevertPath(p, x) PROVE TypeInv'
  <2> DEFINE r == [run[p] EXCEPT !.todo = @ \ {x}]
             rs == {e \in RowsOf(run[p].del) : e.path = x /\ Previous(e) \in blobs \cup {Absent}}
  <2>1. run[p] \in Run /\ run[p].del \in Ids
    BY <1>0, <1>13 DEF RevertPath, At, Active
  <2>2. r \in Run /\ r.del = run[p].del
    BY <2>1 DEF Run
  <2>3. run' = [run EXCEPT ![p] = r]
    BY <1>13 DEF RevertPath
  <2>4. RunTyped
    BY <2>1, <2>2, <2>3, RunTypeStep
  <2>5. disk' = IF rs = {} THEN disk
                ELSE [disk EXCEPT ![x] = Previous(CHOOSE e \in rs : TRUE)]
    BY <1>13 DEF RevertPath
  <2>6. \A e \in rs : Previous(e) \in Contents \cup {Absent}
    BY <1>0
  <2> HIDE DEF rs
  <2>7. disk' \in Manifest
    BY <1>0, <2>5, <2>6 DEF Manifest
  <2> QED
    BY <1>0, <1>13, <2>4, <2>7 DEF RevertPath, TypeInv, TypeOK
<1>14. ASSUME NEW p \in Procs, Finalize(p) PROVE TypeInv'
  <2>1. RunTyped
    BY <1>14, FreshType, RunTypeStep DEF Finalize, Labels, Active
  <2>2. rows' \in [Ids -> Row]
    BY <1>0, <1>14 DEF Finalize, Row, RowOutcomes
  <2> QED
    BY <1>0, <1>14, <2>1, <2>2 DEF Finalize, TypeInv, TypeOK
<1>15. ASSUME NEW p \in Procs, Crash(p) PROVE TypeInv'
  <2>1. RunTyped
    BY <1>15, FreshType, RunTypeStep DEF Crash, Labels, Active
  <2>2. crashes' \in 0..MaxCrashes /\ torn' \in BOOLEAN
    BY <1>0, <1>15, HistoryAssumption DEF Crash, Row, Run
  <2>3. zombie' \in SUBSET Procs
    BY <1>0, <1>15 DEF Crash
  <2> QED
    BY <1>0, <1>15, <2>1, <2>2, <2>3 DEF Crash, TypeInv, TypeOK
<1>16. ASSUME NEW p \in Procs, ZombieEnds(p) PROVE TypeInv'
  BY <1>0, <1>16 DEF ZombieEnds, TypeInv, TypeOK
<1>17. ASSUME UNCHANGED vars PROVE TypeInv'
  BY <1>0, <1>17 DEF vars, TypeInv, TypeOK
<1> QED
  BY <1>1, <1>2, <1>3, <1>4, <1>5, <1>6, <1>8, <1>9, <1>10, <1>11, <1>12, <1>13,
     <1>14, <1>15, <1>16, <1>17 DEF Next, Step

\* The tables, the manifests and the locals of every process stay of their types.
THEOREM HistoryTypes == Spec => []TypeOK
<1>1. TypeInv => TypeOK
  BY DEF TypeInv
<1> QED
  BY TypeInit, TypeStep, <1>1, PTL DEF Spec

-----------------------------------------------------------------------------
(***************************************************************************)
(* What each action does to the locals of its process, field by field.     *)
(***************************************************************************)
Others(p) == \A q \in Procs \ {p} : run'[q] = run[q]

LEMMA GotoFields ==
  ASSUME TypeInv, NEW p \in Procs, NEW label, Goto(p, label)
  PROVE  /\ Others(p) /\ run'[p].pc = label
         /\ run'[p].del = run[p].del /\ run'[p].n = run[p].n
         /\ run'[p].before = run[p].before /\ run'[p].start = run[p].start
         /\ run'[p].changed = run[p].changed /\ run'[p].snap = run[p].snap
         /\ run'[p].orphans = run[p].orphans /\ run'[p].todo = run[p].todo
  BY DEF TypeInv, TypeOK, Run, Goto, Others

LEMMA IdleFields ==
  ASSUME TypeInv, NEW p \in Procs, NEW label \in Labels,
         run' = [run EXCEPT ![p] = Fresh(label)]
  PROVE  /\ Others(p) /\ run'[p].pc = label
         /\ run'[p].del = 0 /\ run'[p].n = 0 /\ run'[p].changed = {}
         /\ run'[p].orphans = {} /\ run'[p].todo = {}
  BY FreshType DEF TypeInv, TypeOK, Others

LEMMA StartFields ==
  ASSUME TypeInv, NEW p \in Procs, Start(p)
  PROVE  /\ Others(p) /\ run[p].pc = "down" /\ run'[p].del = 0 /\ run'[p].n = 0
         /\ run'[p].changed = {} /\ run'[p].todo = {}
         /\ \/ /\ p \in Servers /\ run'[p].pc = "reconciling"
               /\ run'[p].orphans = Orphans /\ run'[p].before = disk
            \/ p \notin Servers /\ run'[p].pc = "idle" /\ run'[p].orphans = {}
<1>1. "idle" \in Labels /\ "reconciling" \in Labels
  BY DEF Labels
<1>2. CASE p \notin Servers
  <2>1. run' = [run EXCEPT ![p] = Fresh("idle")]
    BY <1>2 DEF Start
  <2> QED
    BY <1>1, <1>2, <2>1, IdleFields DEF Start, At
<1>3. CASE p \in Servers
  <2>1. run' = [run EXCEPT ![p] = [Fresh("reconciling") EXCEPT !.before = disk, !.orphans = Orphans]]
    BY <1>3 DEF Start
  <2>2. Fresh("reconciling") \in Run
    BY <1>1, FreshType
  <2> QED
    BY <1>1, <1>3, <2>1, <2>2, FreshType DEF Start, At, TypeInv, TypeOK, Run, Others
<1> QED
  BY <1>2, <1>3

LEMMA DelegateFields ==
  ASSUME TypeInv, NEW p \in Procs, Delegate(p)
  PROVE  /\ Others(p) /\ run[p].pc = "idle" /\ run'[p].pc = "ready"
         /\ run'[p].del = nextDel /\ run'[p].n = 0
         /\ run'[p].changed = {} /\ run'[p].orphans = {} /\ run'[p].todo = {}
<1>1. run' = [run EXCEPT ![p] = [Fresh("ready") EXCEPT !.del = nextDel]]
  BY DEF Delegate
<1>2. "ready" \in Labels
  BY DEF Labels
<1>3. Fresh("ready") \in Run
  BY <1>2, FreshType
<1> QED
  BY <1>1, <1>2, <1>3, FreshType DEF Delegate, At, TypeInv, TypeOK, Run, Others

LEMMA WalkFields ==
  ASSUME TypeInv, NEW p \in Procs, WalkBefore(p)
  PROVE  /\ Others(p) /\ run[p].pc = "ready" /\ run'[p].pc = "walked"
         /\ run'[p].del = run[p].del /\ run'[p].n = run[p].n + 1 /\ run[p].n \in Nat
         /\ run'[p].before = disk
         /\ run[p].n = 0 => run'[p].start = disk
         /\ run[p].n # 0 => run'[p].start = run[p].start
         /\ run'[p].changed = run[p].changed /\ run'[p].orphans = run[p].orphans
         /\ run'[p].todo = run[p].todo
<1>0. PICK m : m = IF run[p].n = 0 THEN disk ELSE run[p].start
  OBVIOUS
<1> DEFINE r == [run[p] EXCEPT !.pc = "walked", !.n = run[p].n + 1, !.before = disk, !.start = m]
<1>1. run' = [run EXCEPT ![p] = r]
  BY <1>0 DEF WalkBefore
<1>2. run[p] \in Run
  BY DEF TypeInv, TypeOK
<1>3. run'[p] = r /\ Others(p)
  BY <1>1 DEF TypeInv, TypeOK, Others
<1>4. /\ r.pc = "walked" /\ r.del = run[p].del /\ r.n = run[p].n + 1 /\ r.before = disk
      /\ r.start = m /\ r.changed = run[p].changed /\ r.orphans = run[p].orphans
      /\ r.todo = run[p].todo /\ run[p].n \in Nat
  BY <1>2 DEF Run
<1> QED
  BY <1>0, <1>3, <1>4 DEF WalkBefore, At

LEMMA CommitFields ==
  ASSUME TypeInv, NEW p \in Procs, CommitSnapshot(p)
  PROVE  /\ Others(p) /\ run[p].pc \in {"committing", "recommitting"}
         /\ run'[p].pc = "returned"
         /\ run'[p].del = run[p].del /\ run'[p].n = run[p].n
         /\ run'[p].before = run[p].before /\ run'[p].start = run[p].start
         /\ run'[p].changed = {x \in Paths : run[p].before[x] # disk[x]}
         /\ run'[p].orphans = run[p].orphans /\ run'[p].todo = run[p].todo
<1> DEFINE changes == Changes(run[p].del, run[p].before, disk)
           r == [run[p] EXCEPT !.pc = "returned", !.changed = ChangedPaths(changes),
                               !.snap = run[p].snap \/ run[p].n = 1]
<1>1. run' = [run EXCEPT ![p] = r]
  BY DEF CommitSnapshot
<1>2. run[p] \in Run
  BY DEF TypeInv, TypeOK
<1>3. run'[p] = r /\ Others(p)
  BY <1>1 DEF TypeInv, TypeOK, Others
<1>4. /\ r.pc = "returned" /\ r.del = run[p].del /\ r.n = run[p].n /\ r.before = run[p].before
      /\ r.start = run[p].start /\ r.changed = ChangedPaths(changes)
      /\ r.orphans = run[p].orphans /\ r.todo = run[p].todo
  BY <1>2 DEF Run
<1>5. run[p].pc \in {"committing", "recommitting"}
  BY DEF CommitSnapshot, At
<1>6. run[p].del \in Ids /\ run[p].before \in Manifest /\ disk \in Manifest
  BY <1>2, <1>5 DEF TypeInv, TypeOK, Run, Active
<1>7. ChangedPaths(changes) = {x \in Paths : run[p].before[x] # disk[x]}
  BY <1>6, ChangesType
<1> QED
  BY <1>3, <1>4, <1>5, <1>7

LEMMA GatewayFields ==
  ASSUME TypeInv, NEW p \in Procs, EnterGateway(p)
  PROVE  /\ Others(p) /\ run[p].pc \in {"returned", "raised"} /\ run'[p].pc = "gateway"
         /\ run'[p].del = run[p].del /\ run'[p].n = run[p].n
         /\ run'[p].start = run[p].start /\ run'[p].changed = run[p].changed
         /\ run'[p].orphans = run[p].orphans /\ run'[p].todo = Violations(run[p].changed)
<1> DEFINE r == [run[p] EXCEPT !.pc = "gateway", !.todo = Violations(run[p].changed)]
<1>1. run' = [run EXCEPT ![p] = r]
  BY DEF EnterGateway
<1>2. run[p] \in Run
  BY DEF TypeInv, TypeOK
<1>3. run'[p] = r /\ Others(p)
  BY <1>1 DEF TypeInv, TypeOK, Others
<1>4. /\ r.pc = "gateway" /\ r.del = run[p].del /\ r.n = run[p].n
      /\ r.start = run[p].start /\ r.changed = run[p].changed
      /\ r.orphans = run[p].orphans /\ r.todo = Violations(run[p].changed)
  BY <1>2 DEF Run
<1> QED
  BY <1>3, <1>4 DEF EnterGateway, At

LEMMA RevertFields ==
  ASSUME TypeInv, NEW p \in Procs, NEW x \in Paths, RevertPath(p, x)
  PROVE  /\ Others(p) /\ run[p].pc = "gateway" /\ run'[p].pc = "gateway"
         /\ run'[p].del = run[p].del /\ run'[p].n = run[p].n
         /\ run'[p].start = run[p].start /\ run'[p].changed = run[p].changed
         /\ run'[p].orphans = run[p].orphans /\ run'[p].todo = run[p].todo \ {x}
<1> DEFINE r == [run[p] EXCEPT !.todo = run[p].todo \ {x}]
<1>1. run' = [run EXCEPT ![p] = r]
  BY DEF RevertPath
<1>2. run[p] \in Run
  BY DEF TypeInv, TypeOK
<1>3. run'[p] = r /\ Others(p)
  BY <1>1 DEF TypeInv, TypeOK, Others
<1>4. /\ r.pc = run[p].pc /\ r.del = run[p].del /\ r.n = run[p].n
      /\ r.start = run[p].start /\ r.changed = run[p].changed
      /\ r.orphans = run[p].orphans /\ r.todo = run[p].todo \ {x}
  BY <1>2 DEF Run
<1> QED
  BY <1>3, <1>4 DEF RevertPath, At

\* The row d that a starting server reconciles: what is done to it, and that
\* nothing else is.
LEMMA ReconcileFields ==
  ASSUME TypeInv, NEW p \in Procs, Reconcile(p)
  PROVE  \E d \in Ids :
           /\ Others(p) /\ run[p].pc = "reconciling" /\ run'[p].pc = "reconciling"
           /\ d \in run[p].orphans /\ run'[p].orphans = run[p].orphans \ {d}
           /\ run'[p].before = run[p].before /\ run'[p].del = run[p].del
           /\ run'[p].n = run[p].n /\ run'[p].changed = run[p].changed
           /\ run'[p].todo = run[p].todo
           /\ IF stored[d] = NoFiles
                THEN UNCHANGED <<rows, deltas, blobs>>
                ELSE /\ rows' = Mark(d, "interrupted")
                     /\ deltas' = (deltas \ RowsOf(d)) \cup
                                    Changes(d, stored[d], run[p].before)
                     /\ blobs \subseteq blobs'
<1>0. PICK d : d = CHOOSE e \in run[p].orphans : \A f \in run[p].orphans : e <= f
  OBVIOUS
<1>1. run[p] \in Run
  BY DEF TypeInv, TypeOK
<1>2. run[p].orphans \in SUBSET Ids /\ run[p].orphans # {}
  BY <1>1 DEF Reconcile, Run
<1>3. d \in run[p].orphans /\ d \in Ids
  BY <1>0, <1>2, NextOrphan
<1> DEFINE r == [run[p] EXCEPT !.orphans = run[p].orphans \ {d}]
<1>4. run' = [run EXCEPT ![p] = r]
  BY <1>0 DEF Reconcile
<1>5. run'[p] = r /\ Others(p)
  BY <1>4 DEF TypeInv, TypeOK, Others
<1>6. /\ r.pc = run[p].pc /\ r.del = run[p].del /\ r.n = run[p].n
      /\ r.before = run[p].before /\ r.changed = run[p].changed
      /\ r.orphans = run[p].orphans \ {d} /\ r.todo = run[p].todo
  BY <1>1 DEF Run
<1>7. IF stored[d] = NoFiles
        THEN UNCHANGED <<rows, deltas, blobs>>
        ELSE /\ rows' = Mark(d, "interrupted")
             /\ deltas' = (deltas \ RowsOf(d)) \cup Changes(d, stored[d], run[p].before)
             /\ blobs \subseteq blobs'
  BY <1>0 DEF Reconcile
<1> HIDE DEF r
<1>8. run[p].pc = "reconciling"
  BY DEF Reconcile, At
<1> QED
  BY <1>3, <1>5, <1>6, <1>7, <1>8

\* Which rows are begun and ended after one is marked.
LEMMA MarkFields ==
  ASSUME TypeInv, NEW d \in Ids, NEW outcome, rows' = Mark(d, outcome)
  PROVE  \A e \in Ids : /\ rows'[e].begun = rows[e].begun
                        /\ rows'[e].ended = IF e = d THEN TRUE ELSE rows[e].ended
<1>1. rows \in [Ids -> Row]
  BY DEF TypeInv, TypeOK
<1> QED
  BY <1>1 DEF Mark, Row

\* The middle of a run: what the steps that only move the process and mark its
\* row have in common.
LEMMA MiddleFields ==
  ASSUME TypeInv, NEW p \in Procs,
         \/ ExecutorReturns(p) \/ ExecutorAborts(p) \/ ExecutorRaises(p)
         \/ ExecutorTimesOut(p) \/ GraceEnds(p) \/ CommitFails(p)
  PROVE  /\ Others(p) /\ run[p].pc \in InRun /\ run'[p].pc \in InRun \cup {"raised"}
         /\ run'[p].del = run[p].del /\ run'[p].n = run[p].n /\ run[p].del \in Ids
         /\ run'[p].before = run[p].before /\ run'[p].start = run[p].start
         /\ run'[p].changed = run[p].changed /\ run'[p].orphans = run[p].orphans
         /\ run'[p].todo = run[p].todo
         /\ run'[p].pc = "raised" =>
              Collides(Changes(run[p].del, run[p].before, disk)) /\ run[p].pc = "recommitting"
         /\ UNCHANGED <<disk, stored, deltas, blobs, nextDel, origin, meddled, torn>>
         /\ \A e \in Ids : rows'[e].begun = rows[e].begun
         /\ \/ /\ run[p].pc \in {"running", "committing"}
                    => run[p].pc = "running" /\ run'[p].pc = "committing"
               /\ \A e \in Ids : rows'[e].ended = rows[e].ended
            \/ \A e \in Ids : rows'[e].ended = IF e = run[p].del THEN TRUE ELSE rows[e].ended
<1> USE DEF dbVars, worldVars
<1>1. PICK label \in InRun \cup {"raised"} :
        /\ Goto(p, label)
        /\ label = "raised" => Collides(Changes(run[p].del, run[p].before, disk)) /\ run[p].pc = "recommitting"
  BY DEF ExecutorReturns, ExecutorAborts, ExecutorRaises, ExecutorTimesOut, GraceEnds,
         CommitFails, InRun, At
<1>2. run[p].pc \in InRun
  BY DEF ExecutorReturns, ExecutorAborts, ExecutorRaises, ExecutorTimesOut, GraceEnds,
         CommitFails, InRun, At
<1>3. run[p].del \in Ids
  BY <1>2 DEF InRun, Active, TypeInv
<1>4. UNCHANGED <<disk, stored, deltas, blobs, nextDel, origin, meddled, torn>>
  BY DEF ExecutorReturns, ExecutorAborts, ExecutorRaises, ExecutorTimesOut, GraceEnds,
         CommitFails
<1>5. \/ \E o : rows' = Mark(run[p].del, o)
      \/ /\ UNCHANGED rows
         /\ run[p].pc \in {"running", "committing"}
              => run[p].pc = "running" /\ run'[p].pc = "committing"
  BY <1>1, GotoFields
     DEF ExecutorReturns, ExecutorAborts, ExecutorRaises, ExecutorTimesOut, GraceEnds,
         CommitFails, At
<1>6. /\ \A e \in Ids : rows'[e].begun = rows[e].begun
      /\ \/ /\ run[p].pc \in {"running", "committing"}
                 => run[p].pc = "running" /\ run'[p].pc = "committing"
            /\ \A e \in Ids : rows'[e].ended = rows[e].ended
         \/ \A e \in Ids : rows'[e].ended = IF e = run[p].del THEN TRUE ELSE rows[e].ended
  <2>1. CASE \E o : rows' = Mark(run[p].del, o)
    BY <1>3, <2>1, MarkFields
  <2>2. CASE ~\E o : rows' = Mark(run[p].del, o)
    BY <1>5, <2>2
  <2> QED
    BY <2>1, <2>2
<1>7. /\ Others(p) /\ run'[p].pc = label
      /\ run'[p].del = run[p].del /\ run'[p].n = run[p].n
      /\ run'[p].before = run[p].before /\ run'[p].start = run[p].start
      /\ run'[p].changed = run[p].changed /\ run'[p].orphans = run[p].orphans
      /\ run'[p].todo = run[p].todo
  BY <1>1, GotoFields
<1>8. /\ run'[p].pc \in InRun \cup {"raised"}
      /\ run'[p].pc = "raised" =>
           Collides(Changes(run[p].del, run[p].before, disk)) /\ run[p].pc = "recommitting"
  BY <1>1, <1>7
<1> QED
  BY <1>2, <1>3, <1>4, <1>6, <1>7, <1>8

\* A run's rows: one of each changed path, with what it was and what it is.
LEMMA ChangesForm ==
  ASSUME NEW d, NEW before, NEW after
  PROVE  /\ \A c \in Changes(d, before, after) :
              /\ c.del = d /\ c.path \in Paths /\ before[c.path] # after[c.path]
              /\ c.prev = before[c.path] /\ c.now = after[c.path]
         /\ \A b, c \in Changes(d, before, after) : b.path = c.path => b = c
         /\ \A x \in Paths : before[x] # after[x] =>
              \E c \in Changes(d, before, after) : c.path = x
<1>1. \A c \in Changes(d, before, after) :
        /\ c = [del |-> d, path |-> c.path, prev |-> before[c.path], now |-> after[c.path]]
        /\ c.path \in Paths /\ before[c.path] # after[c.path]
  BY DEF Changes
<1>2. ASSUME NEW x \in Paths, before[x] # after[x]
      PROVE  \E c \in Changes(d, before, after) : c.path = x
  <2>1. [del |-> d, path |-> x, prev |-> before[x], now |-> after[x]] \in Changes(d, before, after)
    BY <1>2 DEF Changes
  <2> QED
    BY <2>1
<1>3. \A c \in Changes(d, before, after) :
        c.del = d /\ c.prev = before[c.path] /\ c.now = after[c.path]
  BY <1>1
<1>4. \A b, c \in Changes(d, before, after) : b.path = c.path => b = c
  BY <1>1
<1> QED
  BY <1>1, <1>2, <1>3, <1>4

\* Without a collision the commit takes no row away.
LEMMA CommitAdds ==
  ASSUME TypeInv, NEW p \in Procs, CommitSnapshot(p)
  PROVE  /\ deltas' = deltas \cup Changes(run[p].del, run[p].before, disk)
         /\ ~Collides(Changes(run[p].del, run[p].before, disk))
         /\ rows' = [rows EXCEPT ![run[p].del].ended = TRUE]
         /\ blobs \subseteq blobs' /\ run[p].del \in Ids
         /\ UNCHANGED <<disk, stored, zombie, nextDel, origin, meddled, torn>>
<1> DEFINE changes == Changes(run[p].del, run[p].before, disk)
<1>1. /\ ~Collides(changes)
      /\ deltas' = {r \in deltas : ~(r.del = run[p].del /\ r.path \in ChangedPaths(changes))}
                     \cup changes
  BY DEF CommitSnapshot
<1>2. \A r \in deltas : r.del = run[p].del => r.path \notin ChangedPaths(changes)
  <2> SUFFICES ASSUME NEW r \in deltas, r.del = run[p].del, r.path \in ChangedPaths(changes)
               PROVE  FALSE
    OBVIOUS
  <2>1. PICK c \in changes : c.path = r.path
    BY DEF ChangedPaths
  <2>2. c.del = r.del
    BY <2>1, ChangesForm
  <2> QED
    BY <1>1, <2>1, <2>2 DEF Collides
<1>3. run[p].del \in Ids
  BY DEF CommitSnapshot, At, TypeInv, Active
<1>4. /\ rows' = [rows EXCEPT ![run[p].del].ended = TRUE] /\ blobs \subseteq blobs'
      /\ UNCHANGED <<disk, stored, zombie, nextDel, origin, meddled, torn>>
  BY DEF CommitSnapshot, worldVars
<1> QED
  BY <1>1, <1>2, <1>3, <1>4

LEMMA EndedFields ==
  ASSUME TypeInv, NEW d \in Ids, rows' = [rows EXCEPT ![d].ended = TRUE]
  PROVE  \A e \in Ids : /\ rows'[e].begun = rows[e].begun
                        /\ rows'[e].ended = IF e = d THEN TRUE ELSE rows[e].ended
  BY DEF TypeInv, TypeOK, Row

LEMMA SnapshotFields ==
  ASSUME TypeInv, NEW p \in Procs, BeginSnapshot(p)
  PROVE  /\ run[p].pc = "walked" /\ run'[p].pc = "running" /\ run[p].del \in Ids
         /\ \A e \in Ids : /\ rows'[e].begun = IF e = run[p].del THEN TRUE ELSE rows[e].begun
                           /\ rows'[e].ended = rows[e].ended
                           /\ e # run[p].del => stored'[e] = stored[e]
         /\ stored[run[p].del] = NoFiles => stored'[run[p].del] = run[p].before
         /\ blobs \subseteq blobs'
         /\ \A x \in Paths : run[p].before[x] = disk[x] => disk[x] \in blobs' \cup {Absent}
         /\ UNCHANGED <<disk, deltas, zombie, nextDel, origin, meddled, torn>>
<1> USE DEF worldVars
<1>1. run[p].pc = "walked" /\ run'[p].pc = "running" /\ run[p].del \in Ids
  BY GotoFields DEF BeginSnapshot, At, Active, TypeInv
<1>2. PICK d \in Ids : d = run[p].del
  BY <1>1
<1>3. run[p].before \in Manifest /\ rows \in [Ids -> Row] /\ stored \in [Ids -> Manifest]
  BY DEF TypeInv, TypeOK, Run
<1>4. rows' = [rows EXCEPT ![d].begun = TRUE]
  BY <1>2 DEF BeginSnapshot
<1>5. stored' = [stored EXCEPT ![d] =
        [x \in Paths |-> IF run[p].before[x] = Absent THEN stored[d][x] ELSE run[p].before[x]]]
  BY <1>2, <1>3 DEF BeginSnapshot
<1>6. \A e \in Ids : /\ rows'[e].begun = IF e = d THEN TRUE ELSE rows[e].begun
                     /\ rows'[e].ended = rows[e].ended
                     /\ e # d => stored'[e] = stored[e]
  BY <1>3, <1>4, <1>5 DEF Row
<1>7. stored[d] = NoFiles => stored'[d] = run[p].before
  <2> SUFFICES ASSUME stored[d] = NoFiles PROVE stored'[d] = run[p].before
    OBVIOUS
  <2>1. stored'[d] = [x \in Paths |-> IF run[p].before[x] = Absent THEN stored[d][x] ELSE run[p].before[x]]
    BY <1>3, <1>5
  <2>2. \A x \in Paths : stored[d][x] = Absent
    BY DEF NoFiles
  <2>3. \A x \in Paths : stored'[d][x] = run[p].before[x]
    BY <2>1, <2>2
  <2>4. stored'[d] \in [Paths -> Contents \cup {Absent}]
    BY <1>3, <2>1, <2>2 DEF Manifest
  <2> QED
    BY <1>3, <2>3, <2>4 DEF Manifest
<1>8. blobs' = blobs \cup ReadBlobs({x \in Paths : run[p].before[x] # Absent} \cup Scope)
  BY DEF BeginSnapshot
<1>9. \A x \in Paths : run[p].before[x] = disk[x] => disk[x] \in blobs' \cup {Absent}
  BY <1>8 DEF ReadBlobs
<1>10. UNCHANGED <<disk, deltas, zombie, nextDel, origin, meddled, torn>>
  BY DEF BeginSnapshot
<1> QED
  BY <1>1, <1>2, <1>6, <1>7, <1>8, <1>9, <1>10

-----------------------------------------------------------------------------
(***************************************************************************)
(* Keys: delegation ids are handed out once, and a row of file_deltas is   *)
(* known by its delegation and path.                                       *)
(***************************************************************************)
KeysInv ==
  /\ \A r \in deltas : r.del < nextDel
  /\ \A r, s \in deltas : (r.del = s.del /\ r.path = s.path) => r = s
  /\ \A d \in Ids : rows[d].begun => d < nextDel
  /\ \A p \in Procs : run[p].pc \in Active => run[p].del < nextDel
  /\ \A p \in Procs : run[p].pc # "reconciling" => run[p].orphans = {}
  /\ \A p \in Procs : \A d \in run[p].orphans : rows[d].begun

LEMMA KeysFrame ==
  ASSUME TypeInv, TypeInv', KeysInv, NEW p \in Procs, Others(p),
         nextDel' \in {nextDel, nextDel + 1},
         run'[p].pc \in Active => run'[p].del < nextDel',
         run'[p].pc # "reconciling" => run'[p].orphans = {},
         \A d \in run'[p].orphans : rows'[d].begun,
         \A d \in Ids : rows[d].begun => rows'[d].begun,
         \A d \in Ids : rows'[d].begun => d < nextDel',
         \A r \in deltas' : r \in deltas \/ r.del < nextDel,
         \A r, s \in deltas' : (r.del = s.del /\ r.path = s.path) => r = s
  PROVE  KeysInv'
<1>1. \A d \in Ids : d < nextDel => d < nextDel'
  BY DEF TypeInv, TypeOK, Ids
<1>2. \A r \in deltas' : r.del < nextDel'
  <2>1. \A r \in deltas' : r.del \in Ids
    BY DEF TypeInv, TypeOK, Delta
  <2> QED
    BY <1>1, <2>1 DEF KeysInv
<1>3. ASSUME NEW q \in Procs, q # p
      PROVE  /\ run'[q].pc \in Active => run'[q].del < nextDel'
             /\ run'[q].pc # "reconciling" => run'[q].orphans = {}
             /\ \A d \in run'[q].orphans : rows'[d].begun
  <2>1. run'[q] = run[q]
    BY <1>3 DEF Others
  <2>2. run[q].pc \in Active => run[q].del \in Ids /\ run[q].del < nextDel
    BY DEF TypeInv, KeysInv
  <2>3. run[q].orphans \in SUBSET Ids
    BY DEF TypeInv, TypeOK, Run
  <2> QED
    BY <1>1, <2>1, <2>2, <2>3 DEF KeysInv
<1> QED
  BY <1>2, <1>3 DEF KeysInv

LEMMA KeysStep == TypeInv /\ TypeInv' /\ KeysInv /\ [Next]_vars => KeysInv'
<1> SUFFICES ASSUME TypeInv, TypeInv', KeysInv, [Next]_vars PROVE KeysInv'
  OBVIOUS
<1> USE DEF dbVars, worldVars
<1>0. /\ nextDel \in Nat /\ nextDel' \in Nat
      /\ \A p \in Procs : run[p].orphans \in SUBSET Ids
  BY DEF TypeInv, TypeOK, Run
\* The tables keep their keys as they are.
<1>1. ASSUME NEW p \in Procs, Others(p), UNCHANGED <<deltas, nextDel>>,
             \A d \in Ids : rows[d].begun => rows'[d].begun,
             \A d \in Ids : rows'[d].begun => d < nextDel,
             run'[p].pc \in Active => run'[p].del < nextDel,
             run'[p].pc # "reconciling" => run'[p].orphans = {},
             \A d \in run'[p].orphans : rows'[d].begun
      PROVE  KeysInv'
  BY <1>1, KeysFrame DEF KeysInv
<1>2. ASSUME NEW p \in Procs, Start(p) PROVE KeysInv'
  <2>1. UNCHANGED <<deltas, nextDel, rows>>
    BY <1>2 DEF Start
  <2> QED
    BY <1>1, <1>2, <2>1, StartFields DEF KeysInv, Active, Orphans
<1>3. ASSUME NEW p \in Procs, Reconcile(p) PROVE KeysInv'
  <2>1. PICK d \in Ids :
           /\ Others(p) /\ run[p].pc = "reconciling" /\ run'[p].pc = "reconciling"
           /\ d \in run[p].orphans /\ run'[p].orphans = run[p].orphans \ {d}
           /\ IF stored[d] = NoFiles
                THEN UNCHANGED <<rows, deltas, blobs>>
                ELSE /\ rows' = Mark(d, "interrupted")
                     /\ deltas' = (deltas \ RowsOf(d)) \cup
                                    Changes(d, stored[d], run[p].before)
    BY <1>3, ReconcileFields
  <2>2. UNCHANGED nextDel
    BY <1>3 DEF Reconcile
  <2>3. \A e \in Ids : rows'[e].begun = rows[e].begun
    BY <2>1, MarkFields
  <2>4. d < nextDel
    BY <2>1 DEF KeysInv
  <2>5. \A r \in deltas' : r \in deltas \/ r.del < nextDel
    BY <2>1, <2>4, ChangesForm
  <2>6. \A r, s \in deltas' : (r.del = s.del /\ r.path = s.path) => r = s
    <3>1. CASE stored[d] = NoFiles
      BY <2>1, <3>1 DEF KeysInv
    <3>2. CASE stored[d] # NoFiles
      <4> DEFINE changes == Changes(d, stored[d], run[p].before)
      <4>1. \A r \in deltas' : (r \in deltas /\ r.del # d) \/ (r \in changes /\ r.del = d)
        BY <2>1, <3>2, ChangesForm DEF RowsOf
      <4>2. \A r, s \in changes : r.path = s.path => r = s
        BY ChangesForm
      <4> QED
        BY <4>1, <4>2 DEF KeysInv
    <3> QED
      BY <3>1, <3>2
  <2>7. run'[p].pc \notin Active
    BY <2>1 DEF Active
  <2>8. \A e \in run'[p].orphans : rows'[e].begun
    BY <1>0, <2>1, <2>3 DEF KeysInv
  <2>9. \A e \in Ids : rows'[e].begun => e < nextDel'
    BY <2>2, <2>3 DEF KeysInv
  <2> QED
    BY <2>1, <2>2, <2>3, <2>5, <2>6, <2>7, <2>8, <2>9, KeysFrame
<1>4. ASSUME NEW p \in Procs, Ready(p) \/ Finalize(p) \/ Crash(p) PROVE KeysInv'
  <2>1. \E label \in {"idle", "down"} : run' = [run EXCEPT ![p] = Fresh(label)]
    BY <1>4 DEF Ready, Finalize, Crash
  <2>2. Others(p) /\ run'[p].pc \in {"idle", "down"} /\ run'[p].orphans = {}
    BY <2>1, IdleFields DEF Labels
  <2>3. UNCHANGED <<deltas, nextDel>>
    BY <1>4 DEF Ready, Finalize, Crash
  <2>4. \A d \in Ids : rows'[d].begun = rows[d].begun
    BY <1>4 DEF Ready, Finalize, Crash, TypeInv, TypeOK, Row
  <2> QED
    BY <1>1, <2>2, <2>3, <2>4 DEF KeysInv, Active
<1>5. ASSUME NEW p \in Procs, Delegate(p) PROVE KeysInv'
  <2>1. UNCHANGED <<deltas, rows>> /\ nextDel' = nextDel + 1
    BY <1>5 DEF Delegate
  <2>2. nextDel < nextDel' /\ \A d \in Ids : d < nextDel => d < nextDel'
    BY <1>0, <2>1 DEF Ids
  <2> QED
    BY <1>5, <2>1, <2>2, DelegateFields, KeysFrame DEF KeysInv
<1>6. ASSUME NEW p \in Procs, WalkBefore(p) PROVE KeysInv'
  <2>1. UNCHANGED <<deltas, nextDel, rows>>
    BY <1>6 DEF WalkBefore
  <2>2. /\ Others(p) /\ run[p].pc = "ready" /\ run'[p].pc = "walked"
        /\ run'[p].del = run[p].del /\ run'[p].orphans = run[p].orphans
    BY <1>6, WalkFields
  <2>3. run'[p].del < nextDel /\ run'[p].orphans = {}
    BY <2>2 DEF KeysInv, Active
  <2>4. \A d \in Ids : rows[d].begun => rows'[d].begun /\ d < nextDel
    BY <2>1 DEF KeysInv
  <2> QED
    BY <1>1, <2>1, <2>2, <2>3, <2>4
<1>7. ASSUME NEW p \in Procs, BeginSnapshot(p) PROVE KeysInv'
  <2>1. Others(p) /\ run'[p].del = run[p].del /\ run'[p].orphans = run[p].orphans
    BY <1>7, GotoFields DEF BeginSnapshot
  <2>2. run[p].pc = "walked" /\ run'[p].pc = "running"
    BY <1>7, SnapshotFields
  <2>3. \A e \in Ids : rows'[e].begun = IF e = run[p].del THEN TRUE ELSE rows[e].begun
    <3>1. rows' = [rows EXCEPT ![run[p].del].begun = TRUE]
      BY <1>7 DEF BeginSnapshot
    <3>2. rows \in [Ids -> Row]
      BY DEF TypeInv, TypeOK
    <3> QED
      BY <3>1, <3>2 DEF Row
  <2>4. UNCHANGED <<deltas, nextDel>>
    BY <1>7 DEF BeginSnapshot
  <2>5. run[p].del < nextDel /\ run[p].orphans = {}
    BY <2>2 DEF KeysInv, Active
  <2>6. \A d \in Ids : rows'[d].begun => d < nextDel
    BY <2>3, <2>5 DEF KeysInv
  <2>7. \A d \in Ids : rows[d].begun => rows'[d].begun
    BY <2>3
  <2>8. run'[p].del < nextDel /\ run'[p].orphans = {}
    BY <2>1, <2>5
  <2> QED
    BY <1>1, <2>1, <2>2, <2>4, <2>6, <2>7, <2>8
<1>8. ASSUME NEW p \in Procs,
             \/ ExecutorReturns(p) \/ ExecutorAborts(p) \/ ExecutorRaises(p)
             \/ ExecutorTimesOut(p) \/ GraceEnds(p) \/ CommitFails(p)
      PROVE  KeysInv'
  <2>1. /\ Others(p) /\ run[p].pc \in InRun /\ UNCHANGED <<deltas, nextDel>>
        /\ run'[p].del = run[p].del /\ run'[p].orphans = run[p].orphans
        /\ \A e \in Ids : rows'[e].begun = rows[e].begun
    BY <1>8, MiddleFields
  <2>2. run[p].del < nextDel /\ run[p].orphans = {}
    BY <2>1 DEF KeysInv, Active, InRun
  <2>3. \A d \in Ids : rows'[d].begun => d < nextDel
    BY <2>1 DEF KeysInv
  <2>4. run'[p].del < nextDel /\ run'[p].orphans = {}
    BY <2>1, <2>2
  <2> QED
    BY <1>1, <2>1, <2>3, <2>4
<1>9. ASSUME NEW p \in Procs, CommitSnapshot(p) PROVE KeysInv'
  <2> DEFINE changes == Changes(run[p].del, run[p].before, disk)
  <2>1. deltas' = deltas \cup changes /\ ~Collides(changes) /\ UNCHANGED nextDel
    BY <1>9, CommitAdds
  <2>2. /\ Others(p) /\ run'[p].del = run[p].del /\ run'[p].orphans = {}
        /\ run[p].del < nextDel /\ run[p].del \in Ids
    BY <1>9, CommitFields, CommitAdds DEF KeysInv, Active
  <2>3. \A d \in Ids : rows'[d].begun = rows[d].begun
    BY <1>9, <2>2, CommitAdds, EndedFields
  <2>4. \A r \in changes : r.del = run[p].del
    BY ChangesForm
  <2>5. \A r, s \in changes : r.path = s.path => r = s
    BY ChangesForm
  <2> HIDE DEF changes
  <2>6. \A r, s \in deltas' : (r.del = s.del /\ r.path = s.path) => r = s
    BY <2>1, <2>5 DEF KeysInv, Collides
  <2>7. \A r \in deltas' : r \in deltas \/ r.del < nextDel
    BY <2>1, <2>2, <2>4
  <2> QED
    BY <2>1, <2>2, <2>3, <2>6, <2>7, KeysFrame DEF KeysInv
<1>10. ASSUME NEW p \in Procs, Rerun(p) PROVE KeysInv'
  <2>1. UNCHANGED <<deltas, nextDel, rows>> /\ Goto(p, "ready") /\ run[p].pc \in Active
          /\ run[p].pc # "reconciling"
    BY <1>10 DEF Rerun, At, Active
  <2> QED
    BY <1>1, <2>1, GotoFields DEF KeysInv
<1>11. ASSUME NEW p \in Procs, EnterGateway(p) PROVE KeysInv'
  <2>1. UNCHANGED <<deltas, nextDel, rows>>
    BY <1>11 DEF EnterGateway
  <2> QED
    BY <1>1, <1>11, <2>1, GatewayFields DEF KeysInv, Active
<1>12. ASSUME NEW p \in Procs, NEW x \in Paths, RevertPath(p, x) PROVE KeysInv'
  <2>1. UNCHANGED <<deltas, nextDel, rows>>
    BY <1>12 DEF RevertPath
  <2> QED
    BY <1>1, <1>12, <2>1, RevertFields DEF KeysInv, Active
<1>13. ASSUME UNCHANGED <<deltas, nextDel, rows, run>> PROVE KeysInv'
  BY <1>13 DEF KeysInv
<1>14. ASSUME NEW p \in Procs, NEW x \in Paths, NEW c \in Contents \cup {Absent},
              ExecutorWrites(p, x, c)
       PROVE  KeysInv'
  BY <1>13, <1>14 DEF ExecutorWrites
<1>15. ASSUME NEW p \in Procs, ZombieEnds(p) PROVE KeysInv'
  BY <1>13, <1>15 DEF ZombieEnds
<1>16. ASSUME NEW x \in Paths, NEW c \in Contents \cup {Absent}, HostWrites(x, c)
       PROVE  KeysInv'
  BY <1>13, <1>16 DEF HostWrites
<1>17. ASSUME UNCHANGED vars PROVE KeysInv'
  BY <1>13, <1>17 DEF vars
<1> QED
  BY <1>2, <1>3, <1>4, <1>5, <1>6, <1>7, <1>8, <1>9, <1>10, <1>11, <1>12, <1>14, <1>15,
     <1>16, <1>17 DEF Next, Step

LEMMA KeysInit == Init => KeysInv
<1> SUFFICES ASSUME Init PROVE KeysInv
  OBVIOUS
<1>1. \A p \in Procs : run[p].pc = "down" /\ run[p].orphans = {}
  BY FreshType DEF Init, Labels
<1> QED
  BY <1>1 DEF Init, KeysInv, Active

-----------------------------------------------------------------------------
(***************************************************************************)
(* No row in limbo.  A row without its end is seen to by a process in the  *)
(* run that began it, or by one that is down, or that has just started.    *)
(***************************************************************************)
\* Every process reconciles when it starts: the CLI, which does not, is absent.
ServersOnly == Procs \subseteq Servers

Attends(r, d) ==
  \/ r.pc = "down"
  \/ r.pc = "reconciling" /\ d \in r.orphans
  \/ r.pc \in {"running", "committing"} /\ r.del = d

LimboInv ==
  \A d \in Ids : (rows[d].begun /\ ~rows[d].ended /\ stored[d] # NoFiles)
    => \E p \in Procs : Attends(run[p], d)

\* A step of p keeps it if p attends to whatever it attended to and that is
\* still without its end, and to what it began.
LEMMA LimboFrame ==
  ASSUME LimboInv, NEW p \in Procs, Others(p),
         \A d \in Ids : (rows'[d].begun /\ ~rows'[d].ended /\ stored'[d] # NoFiles) =>
           \/ Attends(run'[p], d)
           \/ /\ rows[d].begun /\ ~rows[d].ended /\ stored[d] # NoFiles
              /\ ~Attends(run[p], d)
  PROVE  LimboInv'
<1> SUFFICES ASSUME NEW d \in Ids, rows'[d].begun, ~rows'[d].ended, stored'[d] # NoFiles
             PROVE  \E q \in Procs : Attends(run'[q], d)
  BY DEF LimboInv, NoFiles, Attends
<1>1. CASE Attends(run'[p], d)
  BY <1>1
<1>2. CASE rows[d].begun /\ ~rows[d].ended /\ stored[d] # NoFiles /\ ~Attends(run[p], d)
  <2>1. PICK q \in Procs : Attends(run[q], d)
    BY <1>2 DEF LimboInv
  <2>2. q # p
    BY <1>2, <2>1
  <2>3. run'[q] = run[q]
    BY <2>2 DEF Others
  <2> QED
    BY <2>1, <2>3
<1> QED
  BY <1>1, <1>2

LEMMA LimboStep ==
  ASSUME ServersOnly PROVE TypeInv /\ KeysInv /\ LimboInv /\ [Next]_vars => LimboInv'
<1> SUFFICES ASSUME TypeInv, KeysInv, LimboInv, [Next]_vars PROVE LimboInv'
  OBVIOUS
<1> USE DEF dbVars, worldVars
\* Rows begin and end as before, and p attends to what it did.
<1>1. ASSUME NEW p \in Procs, Others(p), UNCHANGED <<rows, stored>>,
             \A d \in Ids : Attends(run[p], d) => Attends(run'[p], d)
      PROVE  LimboInv'
  BY <1>1, LimboFrame
<1>2. ASSUME NEW p \in Procs, Start(p) PROVE LimboInv'
  <2>1. UNCHANGED <<rows, stored>>
    BY <1>2 DEF Start
  <2>2. run'[p].pc = "reconciling" /\ run'[p].orphans = Orphans /\ Others(p)
    BY <1>2, StartFields DEF ServersOnly
  <2>3. \A d \in Ids : (rows'[d].begun /\ ~rows'[d].ended) => Attends(run'[p], d)
    BY <2>1, <2>2 DEF Orphans, Attends
  <2> QED
    BY <2>2, <2>3, LimboFrame
<1>3. ASSUME NEW p \in Procs, Reconcile(p) PROVE LimboInv'
  <2>1. PICK d \in Ids :
           /\ Others(p) /\ run[p].pc = "reconciling" /\ run'[p].pc = "reconciling"
           /\ d \in run[p].orphans /\ run'[p].orphans = run[p].orphans \ {d}
           /\ IF stored[d] = NoFiles
                THEN UNCHANGED <<rows, deltas, blobs>>
                ELSE rows' = Mark(d, "interrupted")
    BY <1>3, ReconcileFields
  <2>2. UNCHANGED stored
    BY <1>3 DEF Reconcile
  <2>3. \A e \in Ids : rows'[e].begun = rows[e].begun /\ (e # d => rows'[e].ended = rows[e].ended)
    BY <2>1, MarkFields
  <2>4. stored[d] # NoFiles => rows'[d].ended
    BY <2>1, MarkFields
  <2>5. \A e \in Ids : e # d => (Attends(run[p], e) => Attends(run'[p], e))
    BY <2>1 DEF Attends
  <2> QED
    BY <2>1, <2>2, <2>3, <2>4, <2>5, LimboFrame
<1>4. ASSUME NEW p \in Procs, Ready(p) PROVE LimboInv'
  <2>1. UNCHANGED <<rows, stored>> /\ run[p].pc = "reconciling" /\ run[p].orphans = {}
    BY <1>4 DEF Ready, At
  <2>2. Others(p)
    BY <1>4, IdleFields DEF Ready, Labels
  <2> QED
    BY <1>1, <2>1, <2>2 DEF Attends
<1>5. ASSUME NEW p \in Procs, Crash(p) PROVE LimboInv'
  <2>1. Others(p) /\ run'[p].pc = "down"
    BY <1>5, IdleFields DEF Crash, Labels
  <2> QED
    BY <2>1, LimboFrame DEF Attends
<1>6. ASSUME NEW p \in Procs, Delegate(p) PROVE LimboInv'
  <2>1. UNCHANGED <<rows, stored>>
    BY <1>6 DEF Delegate
  <2> QED
    BY <1>1, <1>6, <2>1, DelegateFields DEF Attends
<1>7. ASSUME NEW p \in Procs, WalkBefore(p) PROVE LimboInv'
  <2>1. UNCHANGED <<rows, stored>>
    BY <1>7 DEF WalkBefore
  <2> QED
    BY <1>1, <1>7, <2>1, WalkFields DEF Attends
<1>8. ASSUME NEW p \in Procs, BeginSnapshot(p) PROVE LimboInv'
  <2>1. Others(p) /\ run'[p].del = run[p].del
    BY <1>8, GotoFields DEF BeginSnapshot
  <2>2. /\ run[p].pc = "walked" /\ run'[p].pc = "running"
        /\ \A e \in Ids : e # run[p].del =>
             /\ rows'[e].begun = rows[e].begun /\ rows'[e].ended = rows[e].ended
             /\ stored'[e] = stored[e]
    BY <1>8, SnapshotFields
  <2>3. \A d \in Ids : ~Attends(run[p], d)
    BY <2>2 DEF Attends
  <2>4. Attends(run'[p], run[p].del)
    BY <2>1, <2>2 DEF Attends
  <2>5. \A d \in Ids : (rows'[d].begun /\ ~rows'[d].ended /\ stored'[d] # NoFiles) =>
           \/ Attends(run'[p], d)
           \/ rows[d].begun /\ ~rows[d].ended /\ stored[d] # NoFiles /\ ~Attends(run[p], d)
    BY <2>2, <2>3, <2>4
  <2> QED
    BY <2>1, <2>5, LimboFrame
<1>9. ASSUME NEW p \in Procs,
             \/ ExecutorReturns(p) \/ ExecutorAborts(p) \/ ExecutorRaises(p)
             \/ ExecutorTimesOut(p) \/ GraceEnds(p) \/ CommitFails(p)
      PROVE  LimboInv'
  <2>1. /\ Others(p) /\ run[p].pc \in InRun /\ UNCHANGED stored /\ run'[p].del = run[p].del
        /\ \A e \in Ids : rows'[e].begun = rows[e].begun
        /\ \/ /\ run[p].pc \in {"running", "committing"} => run'[p].pc = "committing"
              /\ \A e \in Ids : rows'[e].ended = rows[e].ended
           \/ \A e \in Ids : rows'[e].ended = IF e = run[p].del THEN TRUE ELSE rows[e].ended
    BY <1>9, MiddleFields
  <2>2. \A e \in Ids : Attends(run[p], e) => e = run[p].del /\ run[p].pc \in {"running", "committing"}
    BY <2>1 DEF Attends, InRun
  <2>3. CASE /\ run[p].pc \in {"running", "committing"} => run'[p].pc = "committing"
             /\ \A e \in Ids : rows'[e].ended = rows[e].ended
    <3>1. \A e \in Ids : Attends(run[p], e) => Attends(run'[p], e)
      BY <2>1, <2>2, <2>3 DEF Attends
    <3> QED
      BY <2>1, <2>3, <3>1, LimboFrame
  <2>4. CASE \A e \in Ids : rows'[e].ended = IF e = run[p].del THEN TRUE ELSE rows[e].ended
    BY <2>1, <2>2, <2>4, LimboFrame
  <2> QED
    BY <2>1, <2>3, <2>4
<1>10. ASSUME NEW p \in Procs, CommitSnapshot(p) PROVE LimboInv'
  <2>1. /\ Others(p) /\ UNCHANGED stored /\ run[p].del \in Ids
        /\ rows' = [rows EXCEPT ![run[p].del].ended = TRUE]
        /\ run[p].pc \in {"committing", "recommitting"}
    BY <1>10, CommitFields, CommitAdds
  <2>2. \A e \in Ids : rows'[e].begun = rows[e].begun
                         /\ rows'[e].ended = IF e = run[p].del THEN TRUE ELSE rows[e].ended
    BY <2>1, EndedFields
  <2>3. \A e \in Ids : Attends(run[p], e) => e = run[p].del
    BY <2>1 DEF Attends
  <2> QED
    BY <2>1, <2>2, <2>3, LimboFrame
<1>11. ASSUME NEW p \in Procs, Rerun(p) PROVE LimboInv'
  <2>1. UNCHANGED <<rows, stored>> /\ run[p].pc \in {"returned", "raised"} /\ Goto(p, "ready")
    BY <1>11 DEF Rerun, At
  <2> QED
    BY <1>1, <2>1, GotoFields DEF Attends
<1>12. ASSUME NEW p \in Procs, EnterGateway(p) PROVE LimboInv'
  <2>1. UNCHANGED <<rows, stored>>
    BY <1>12 DEF EnterGateway
  <2> QED
    BY <1>1, <1>12, <2>1, GatewayFields DEF Attends
<1>13. ASSUME NEW p \in Procs, NEW x \in Paths, RevertPath(p, x) PROVE LimboInv'
  <2>1. UNCHANGED <<rows, stored>>
    BY <1>13 DEF RevertPath
  <2> QED
    BY <1>1, <1>13, <2>1, RevertFields DEF Attends
<1>14. ASSUME NEW p \in Procs, Finalize(p) PROVE LimboInv'
  <2>1. Others(p) /\ run[p].pc = "gateway" /\ UNCHANGED stored
    BY <1>14, IdleFields DEF Finalize, At, Labels
  <2>2. \A e \in Ids : rows'[e].begun = rows[e].begun /\ rows'[e].ended = rows[e].ended
    BY <1>14 DEF Finalize, TypeInv, TypeOK, Row
  <2> QED
    BY <2>1, <2>2, LimboFrame DEF Attends
<1>15. ASSUME UNCHANGED <<rows, stored, run>> PROVE LimboInv'
  BY <1>15 DEF LimboInv, NoFiles, Attends
<1>16. ASSUME NEW p \in Procs, NEW x \in Paths, NEW c \in Contents \cup {Absent},
              ExecutorWrites(p, x, c)
       PROVE  LimboInv'
  BY <1>15, <1>16 DEF ExecutorWrites
<1>17. ASSUME NEW p \in Procs, ZombieEnds(p) PROVE LimboInv'
  BY <1>15, <1>17 DEF ZombieEnds
<1>18. ASSUME NEW x \in Paths, NEW c \in Contents \cup {Absent}, HostWrites(x, c)
       PROVE  LimboInv'
  BY <1>15, <1>18 DEF HostWrites
<1>19. ASSUME UNCHANGED vars PROVE LimboInv'
  BY <1>15, <1>19 DEF vars
<1> QED
  BY <1>2, <1>3, <1>4, <1>5, <1>6, <1>7, <1>8, <1>9, <1>10, <1>11, <1>12, <1>13, <1>14,
     <1>16, <1>17, <1>18, <1>19 DEF Next, Step

\* No row stays in limbo when every process that delegates is a server: between
\* delegations every row has its end, unless the workspace was empty when the
\* delegation began.
THEOREM NoRowInLimbo == ServersOnly /\ Spec => []NoLimbo
<1> SUFFICES ASSUME ServersOnly PROVE Spec => []NoLimbo
  OBVIOUS
<1>1. LimboInv => NoLimbo
  BY DEF LimboInv, NoLimbo, Quiet, Orphans, Attends, At
<1>2. Init => LimboInv
  BY DEF Init, LimboInv
<1>3. TypeInv /\ KeysInv /\ LimboInv /\ [Next]_vars => LimboInv'
  BY LimboStep
<1> HIDE DEF TypeInv, KeysInv, LimboInv, Init, Next, vars
<1> QED
  BY TypeInit, TypeStep, KeysInit, KeysStep, <1>1, <1>2, <1>3, PTL DEF Spec

-----------------------------------------------------------------------------
(***************************************************************************)
(* What a delegation's reruns leave as it was: one process, any number of  *)
(* delegations, runs and crashes.                                          *)
(***************************************************************************)
\* Only one process delegates on the workspace.
OneProcess == \A p, q \in Procs : p = q

\* "rs" is the table of deltas: delegation d has a row for x.
Rowed(rs, d, x) == \E c \in rs : c.del = d /\ c.path = x

\* Nothing of the delegation of r has been committed yet.
Uncommitted(r) == r.n = 0 \/ (r.n = 1 /\ r.pc \in InRun \cup {"walked"})

Stands(r, rs, rws) ==
  /\ (r.pc \in Active /\ r.n = 0) => r.pc = "ready"
  /\ (r.pc \in Active /\ Uncommitted(r)) => \A x \in Paths : ~Rowed(rs, r.del, x)
  /\ r.pc = "raised" => r.n # 1
  /\ \A d \in r.orphans : ~rws[d].ended
  /\ \A x \in r.changed : Rowed(rs, r.del, x)
  /\ r.todo \subseteq r.changed
  /\ r.pc # "gateway" => r.todo = {}
  /\ r.pc \notin Active => r.changed = {}

\* The table "rs", the blobs "bl" and the workspace "dk" still lead back to the
\* workspace as the delegation found it.
Keeps(r, rs, bl, dk) ==
  /\ r.pc = "walked" => r.before = dk
  /\ (r.pc \in Active /\ r.n # 0 /\ ~(r.pc = "walked" /\ r.n = 1))
       => \A x \in Paths : r.start[x] \in bl \cup {Absent}
  /\ r.pc \in Active => \A c \in rs : c.del = r.del => c.prev = r.start[c.path]
  /\ (r.pc \in {"ready", "returned"} /\ r.n # 0)
       => \A x \in Paths : Rowed(rs, r.del, x) \/ dk[x] = r.start[x]
  /\ r.pc \in InRun \cup {"walked"}
       => \A x \in Paths : Rowed(rs, r.del, x) \/ r.before[x] = r.start[x]
  /\ (r.n = 1 /\ r.pc = "returned") => \A x \in Paths \ r.changed : dk[x] = r.start[x]
  /\ (r.n = 1 /\ r.pc = "gateway" /\ Strict)
       => \A x \in Paths \ (Scope \cup r.todo) : dk[x] = r.start[x]

StandInv ==
  \A p \in Procs : /\ Stands(run[p], deltas, rows)
                   /\ ~meddled => Keeps(run[p], deltas, blobs, disk)

\* One process: the step of p is the step of all.
LEMMA StandFrame ==
  ASSUME OneProcess, NEW p \in Procs, Stands(run'[p], deltas', rows'),
         ~meddled' => Keeps(run'[p], deltas', blobs', disk')
  PROVE  StandInv'
<1>1. \A q \in Procs : q = p
  BY DEF OneProcess
<1> QED
  BY <1>1 DEF StandInv

\* A process that works on no delegation.
LEMMA StandsIdle ==
  ASSUME NEW r, NEW rs, NEW rws, NEW bl, NEW dk, r.pc \notin Active,
         \A d \in r.orphans : ~rws[d].ended, r.changed = {}, r.todo = {}
  PROVE  Stands(r, rs, rws) /\ Keeps(r, rs, bl, dk)
  BY DEF Stands, Keeps, Active, InRun

\* The file that the gateway reverts has what it had at the start.
LEMMA RevertGives ==
  ASSUME TypeInv, StandInv, ~meddled, NEW p \in Procs, NEW x \in Paths, RevertPath(p, x)
  PROVE  /\ disk'[x] = run[p].start[x]
         /\ \A y \in Paths : y # x => disk'[y] = disk[y]
<1> DEFINE rs == {r \in RowsOf(run[p].del) : r.path = x /\ Previous(r) \in blobs \cup {Absent}}
<1>1. run[p].pc = "gateway" /\ x \in run[p].todo
  BY DEF RevertPath, At
<1>2. Stands(run[p], deltas, rows) /\ Keeps(run[p], deltas, blobs, disk)
  BY DEF StandInv
<1>3. run[p].pc \in Active /\ run[p].n # 0
  BY <1>1, <1>2 DEF Stands, Active
<1>4. run[p].start[x] \in blobs \cup {Absent}
  BY <1>1, <1>2, <1>3 DEF Keeps
<1>5. \A c \in deltas : c.del = run[p].del => c.prev = run[p].start[c.path]
  BY <1>2, <1>3 DEF Keeps
<1>6. PICK c \in deltas : c.del = run[p].del /\ c.path = x
  BY <1>1, <1>2 DEF Stands, Rowed
<1>7. c \in rs
  BY <1>4, <1>5, <1>6 DEF RowsOf, Previous
<1>8. \A r \in rs : Previous(r) = run[p].start[x]
  BY <1>5 DEF RowsOf, Previous
<1>9. disk' = IF rs = {} THEN disk ELSE [disk EXCEPT ![x] = Previous(CHOOSE r \in rs : TRUE)]
  BY DEF RevertPath
<1> HIDE DEF rs
<1>10. Previous(CHOOSE r \in rs : TRUE) = run[p].start[x]
  BY <1>7, <1>8
<1>11. disk' = [disk EXCEPT ![x] = run[p].start[x]]
  BY <1>7, <1>9, <1>10
<1> QED
  BY <1>11 DEF TypeInv, TypeOK, Manifest

LEMMA StandStep ==
  ASSUME OneProcess PROVE TypeInv /\ KeysInv /\ StandInv /\ [Next]_vars => StandInv'
<1> SUFFICES ASSUME TypeInv, KeysInv, StandInv, [Next]_vars PROVE StandInv'
  OBVIOUS
<1> USE DEF dbVars, worldVars
<1>0. \A p \in Procs : /\ Stands(run[p], deltas, rows)
                       /\ ~meddled => Keeps(run[p], deltas, blobs, disk)
                       /\ run[p].n \in Nat
  BY DEF StandInv, TypeInv, TypeOK, Run
<1>1. ASSUME NEW p \in Procs, Start(p) PROVE StandInv'
  <2>1. /\ run'[p].pc \notin Active /\ run'[p].changed = {} /\ run'[p].todo = {}
        /\ \A d \in run'[p].orphans : ~rows'[d].ended
    BY <1>1, StartFields DEF Start, Orphans, Active
  <2> QED
    BY <2>1, StandsIdle, StandFrame
<1>2. ASSUME NEW p \in Procs, Reconcile(p) PROVE StandInv'
  <2>1. PICK d \in Ids :
           /\ run[p].pc = "reconciling" /\ run'[p].pc = "reconciling"
           /\ run'[p].orphans = run[p].orphans \ {d}
           /\ run'[p].changed = run[p].changed /\ run'[p].todo = run[p].todo
           /\ IF stored[d] = NoFiles THEN UNCHANGED <<rows, deltas, blobs>>
              ELSE rows' = Mark(d, "interrupted")
    BY <1>2, ReconcileFields
  <2>2. \A e \in Ids : e # d => rows'[e].ended = rows[e].ended
    BY <2>1, MarkFields
  <2>3. run[p].orphans \in SUBSET Ids
    BY DEF TypeInv, TypeOK, Run
  <2>4. \A e \in run'[p].orphans : ~rows'[e].ended
    BY <1>0, <2>1, <2>2, <2>3 DEF Stands
  <2>5. run'[p].pc \notin Active /\ run'[p].changed = {} /\ run'[p].todo = {}
    BY <1>0, <2>1 DEF Stands, Active
  <2> QED
    BY <2>4, <2>5, StandsIdle, StandFrame
<1>3. ASSUME NEW p \in Procs, Ready(p) \/ Finalize(p) \/ Crash(p) PROVE StandInv'
  <2>1. \E label \in {"idle", "down"} : run' = [run EXCEPT ![p] = Fresh(label)]
    BY <1>3 DEF Ready, Finalize, Crash
  <2>2. /\ run'[p].pc \notin Active /\ run'[p].changed = {} /\ run'[p].todo = {}
        /\ run'[p].orphans = {}
    BY <2>1, IdleFields DEF Labels, Active
  <2> QED
    BY <2>2, StandsIdle, StandFrame
<1>4. ASSUME NEW p \in Procs, Delegate(p) PROVE StandInv'
  <2>1. /\ run'[p].pc = "ready" /\ run'[p].del = nextDel /\ run'[p].n = 0
        /\ run'[p].changed = {} /\ run'[p].orphans = {} /\ run'[p].todo = {}
        /\ UNCHANGED <<deltas, rows, blobs, disk>>
    BY <1>4, DelegateFields DEF Delegate
  <2>2. \A c \in deltas : c.del # nextDel
    BY DEF KeysInv, TypeInv, TypeOK, Delta, Ids
  <2>3. Stands(run'[p], deltas', rows')
    BY <2>1, <2>2 DEF Stands, Rowed
  <2>4. Keeps(run'[p], deltas', blobs', disk')
    BY <2>1, <2>2 DEF Keeps, Rowed, InRun
  <2> QED
    BY <2>3, <2>4, StandFrame
<1>5. ASSUME NEW p \in Procs, WalkBefore(p) PROVE StandInv'
  <2>1. /\ run[p].pc = "ready" /\ run'[p].pc = "walked"
        /\ run'[p].del = run[p].del /\ run'[p].n = run[p].n + 1 /\ run[p].n \in Nat
        /\ run'[p].before = disk
        /\ run[p].n = 0 => run'[p].start = disk
        /\ run[p].n # 0 => run'[p].start = run[p].start
        /\ run'[p].changed = run[p].changed /\ run'[p].orphans = run[p].orphans
        /\ run'[p].todo = run[p].todo
        /\ UNCHANGED <<deltas, rows, blobs, disk, meddled>>
    BY <1>5, WalkFields DEF WalkBefore
  <2>2. run[p].pc \in Active /\ run'[p].pc \in Active
    BY <2>1 DEF Active
  <2>3. Stands(run[p], deltas, rows) /\ (~meddled => Keeps(run[p], deltas, blobs, disk))
    BY <1>0
  <2>4. run'[p].n # 0 /\ (run'[p].n = 1 <=> run[p].n = 0)
    BY <2>1
  <2>5. run[p].n = 0 => \A x \in Paths : ~Rowed(deltas, run[p].del, x)
    BY <2>2, <2>3 DEF Stands, Uncommitted
  <2>6. Stands(run'[p], deltas', rows')
    BY <2>1, <2>2, <2>3, <2>4, <2>5 DEF Stands, Uncommitted
  <2>7. ASSUME ~meddled PROVE Keeps(run'[p], deltas', blobs', disk')
    <3>1. \A c \in deltas : c.del = run[p].del => c.path \in Paths
      BY DEF TypeInv, TypeOK, Delta
    <3>2. \A c \in deltas : c.del = run[p].del => c.prev = run'[p].start[c.path]
      BY <2>1, <2>2, <2>3, <2>5, <2>7, <3>1 DEF Keeps, Rowed
    <3>3. \A x \in Paths : Rowed(deltas, run[p].del, x) \/ disk[x] = run'[p].start[x]
      BY <2>1, <2>3, <2>7 DEF Keeps
    <3>4. run[p].n # 0 => \A x \in Paths : run'[p].start[x] \in blobs \cup {Absent}
      BY <2>1, <2>2, <2>3, <2>7 DEF Keeps
    <3> QED
      BY <2>1, <2>4, <3>2, <3>3, <3>4 DEF Keeps, InRun
  <2> QED
    BY <2>1, <2>6, <2>7, StandFrame
<1>6. ASSUME NEW p \in Procs, BeginSnapshot(p) PROVE StandInv'
  <2>1. /\ run[p].pc = "walked" /\ run'[p].pc = "running"
        /\ run'[p].del = run[p].del /\ run'[p].n = run[p].n
        /\ run'[p].before = run[p].before /\ run'[p].start = run[p].start
        /\ run'[p].changed = run[p].changed /\ run'[p].orphans = run[p].orphans
        /\ run'[p].todo = run[p].todo
    BY <1>6, GotoFields, SnapshotFields DEF BeginSnapshot
  <2>2. run[p].pc \in Active /\ run'[p].pc \in Active /\ run[p].orphans = {}
    BY <2>1 DEF Active, KeysInv
  <2>3. Stands(run[p], deltas, rows) /\ (~meddled => Keeps(run[p], deltas, blobs, disk))
    BY <1>0
  <2>4. UNCHANGED <<deltas, disk, meddled>> /\ blobs \subseteq blobs'
    BY <1>6, SnapshotFields
  <2>5. Stands(run'[p], deltas', rows')
    BY <2>1, <2>2, <2>3, <2>4 DEF Stands, Uncommitted, InRun
  <2>6. ASSUME ~meddled PROVE Keeps(run'[p], deltas', blobs', disk')
    <3>1. \A x \in Paths : run[p].start[x] \in blobs' \cup {Absent}
      <4>1. CASE run[p].n = 1
        <5>1. \A x \in Paths : ~Rowed(deltas, run[p].del, x)
          BY <2>1, <2>2, <2>3, <4>1 DEF Stands, Uncommitted
        <5>2. run[p].before = disk /\ \A x \in Paths : run[p].before[x] = run[p].start[x]
          BY <2>1, <2>3, <2>6, <5>1 DEF Keeps
        <5> QED
          BY <1>6, <5>2, SnapshotFields
      <4>2. CASE run[p].n # 1
        <5>1. run[p].n # 0
          BY <2>1, <2>2, <2>3 DEF Stands
        <5> QED
          BY <2>2, <2>3, <2>4, <2>6, <4>2, <5>1 DEF Keeps
      <4> QED
        BY <4>1, <4>2
    <3> QED
      BY <2>1, <2>2, <2>3, <2>4, <2>6, <3>1 DEF Keeps, InRun
  <2> QED
    BY <2>4, <2>5, <2>6, StandFrame
<1>7. ASSUME NEW p \in Procs,
             \/ ExecutorReturns(p) \/ ExecutorAborts(p) \/ ExecutorRaises(p)
             \/ ExecutorTimesOut(p) \/ GraceEnds(p) \/ CommitFails(p)
      PROVE  StandInv'
  <2>1. /\ run[p].pc \in InRun /\ run'[p].pc \in InRun \cup {"raised"}
        /\ run'[p].del = run[p].del /\ run'[p].n = run[p].n
        /\ run'[p].before = run[p].before /\ run'[p].start = run[p].start
        /\ run'[p].changed = run[p].changed /\ run'[p].orphans = run[p].orphans
        /\ run'[p].todo = run[p].todo
        /\ run'[p].pc = "raised" =>
             Collides(Changes(run[p].del, run[p].before, disk))
        /\ UNCHANGED <<disk, deltas, blobs, meddled>>
    BY <1>7, MiddleFields
  <2>2. run[p].pc \in Active /\ run'[p].pc \in Active /\ run[p].orphans = {}
    BY <2>1 DEF Active, InRun, KeysInv
  <2>3. Stands(run[p], deltas, rows) /\ (~meddled => Keeps(run[p], deltas, blobs, disk))
    BY <1>0
  <2>4. run'[p].pc = "raised" => run[p].n # 1
    <3> SUFFICES ASSUME run'[p].pc = "raised", run[p].n = 1 PROVE FALSE
      BY <2>1
    <3>1. PICK c \in Changes(run[p].del, run[p].before, disk), e \in deltas :
             c.del = e.del /\ c.path = e.path
      BY <2>1 DEF Collides
    <3>2. c.del = run[p].del /\ c.path \in Paths
      BY <3>1, ChangesForm
    <3>3. Rowed(deltas, run[p].del, c.path)
      BY <3>1, <3>2 DEF Rowed
    <3>4. Uncommitted(run[p])
      BY <2>1 DEF Uncommitted
    <3> QED
      BY <2>2, <2>3, <3>2, <3>3, <3>4 DEF Stands
  <2>5. run[p].n # 0
    BY <2>1, <2>2, <2>3 DEF Stands, InRun
  <2>6. Stands(run'[p], deltas', rows')
    BY <2>1, <2>2, <2>3, <2>4, <2>5 DEF Stands, Uncommitted, InRun
  <2>7. ASSUME ~meddled PROVE Keeps(run'[p], deltas', blobs', disk')
    BY <2>1, <2>2, <2>3, <2>5, <2>7 DEF Keeps, InRun
  <2> QED
    BY <2>1, <2>6, <2>7, StandFrame
<1>8. ASSUME NEW p \in Procs, CommitSnapshot(p) PROVE StandInv'
  <2>1. /\ run[p].pc \in {"committing", "recommitting"} /\ run'[p].pc = "returned"
        /\ run'[p].del = run[p].del /\ run'[p].n = run[p].n
        /\ run'[p].before = run[p].before /\ run'[p].start = run[p].start
        /\ run'[p].changed = {x \in Paths : run[p].before[x] # disk[x]}
        /\ run'[p].orphans = run[p].orphans /\ run'[p].todo = run[p].todo
    BY <1>8, CommitFields
  <2> DEFINE changes == Changes(run[p].del, run[p].before, disk)
  <2>2. run[p].pc \in Active /\ run[p].pc \in InRun /\ run[p].orphans = {}
    BY <2>1 DEF Active, InRun, KeysInv
  <2>3. Stands(run[p], deltas, rows) /\ (~meddled => Keeps(run[p], deltas, blobs, disk))
    BY <1>0
  <2>4. /\ deltas' = deltas \cup changes /\ ~Collides(changes) /\ blobs \subseteq blobs'
        /\ UNCHANGED <<disk, meddled>>
    BY <1>8, CommitAdds
  <2>5. /\ \A c \in changes :
             /\ c.del = run[p].del /\ c.path \in Paths /\ run[p].before[c.path] # disk[c.path]
             /\ c.prev = run[p].before[c.path]
        /\ \A x \in Paths : run[p].before[x] # disk[x] => \E c \in changes : c.path = x
    BY ChangesForm
  <2>6. run[p].n # 0
    BY <2>1, <2>2, <2>3 DEF Stands
  <2> HIDE DEF changes
  <2>7. \A x \in Paths : run[p].before[x] # disk[x] => Rowed(deltas', run[p].del, x)
    BY <2>4, <2>5 DEF Rowed
  <2>8. \A x \in Paths : Rowed(deltas, run[p].del, x) => Rowed(deltas', run[p].del, x)
    BY <2>4 DEF Rowed
  <2>9. Stands(run'[p], deltas', rows')
    BY <2>1, <2>2, <2>3, <2>6, <2>7 DEF Stands, Uncommitted, Active, InRun
  <2>10. ASSUME ~meddled PROVE Keeps(run'[p], deltas', blobs', disk')
    <3>1. \A x \in Paths : Rowed(deltas, run[p].del, x) \/ run[p].before[x] = run[p].start[x]
      BY <2>2, <2>3, <2>10 DEF Keeps
    <3>2. \A c \in changes : ~Rowed(deltas, run[p].del, c.path)
      BY <2>4, <2>5 DEF Rowed, Collides
    <3>3. \A c \in deltas' : c.del = run[p].del => c.prev = run[p].start[c.path]
      <4>1. \A c \in deltas : c.del = run[p].del => c.prev = run[p].start[c.path]
        BY <2>2, <2>3, <2>10 DEF Keeps
      <4>2. \A c \in changes : c.prev = run[p].start[c.path]
        BY <2>5, <3>1, <3>2
      <4> QED
        BY <2>4, <4>1, <4>2
    <3>4. \A x \in Paths : Rowed(deltas', run[p].del, x) \/ disk[x] = run[p].start[x]
      BY <2>7, <2>8, <3>1
    <3>5. run[p].n = 1 => \A x \in Paths : run[p].before[x] = disk[x] => disk[x] = run[p].start[x]
      <4>1. run[p].n = 1 => \A x \in Paths : ~Rowed(deltas, run[p].del, x)
        BY <2>2, <2>3 DEF Stands, Uncommitted
      <4> QED
        BY <3>1, <4>1
    <3>6. \A x \in Paths : run[p].start[x] \in blobs' \cup {Absent}
      <4>1. \A x \in Paths : run[p].start[x] \in blobs \cup {Absent}
        BY <2>1, <2>2, <2>3, <2>6, <2>10 DEF Keeps
      <4> QED
        BY <2>4, <4>1
    <3> QED
      BY <2>1, <2>4, <3>3, <3>4, <3>5, <3>6 DEF Keeps, InRun
  <2> QED
    BY <2>4, <2>9, <2>10, StandFrame
<1>9. ASSUME NEW p \in Procs, Rerun(p) PROVE StandInv'
  <2>1. /\ run'[p].pc = "ready"
        /\ run'[p].del = run[p].del /\ run'[p].n = run[p].n
        /\ run'[p].before = run[p].before /\ run'[p].start = run[p].start
        /\ run'[p].changed = run[p].changed /\ run'[p].orphans = run[p].orphans
        /\ run'[p].todo = run[p].todo
        /\ UNCHANGED <<disk, rows, deltas, blobs, meddled>>
    BY <1>9, GotoFields DEF Rerun
  <2>2. Stands(run[p], deltas, rows) /\ (~meddled => Keeps(run[p], deltas, blobs, disk))
    BY <1>0
  <2>3. run[p].pc = "returned"
    BY <1>9, <2>2 DEF Rerun, At, Stands
  <2>4. run[p].n # 0 /\ run[p].pc \in Active
    BY <2>2, <2>3 DEF Stands, Active
  <2>5. Stands(run'[p], deltas', rows')
    BY <2>1, <2>2, <2>3, <2>4 DEF Stands, Uncommitted, InRun, Active
  <2>6. ASSUME ~meddled PROVE Keeps(run'[p], deltas', blobs', disk')
    BY <2>1, <2>2, <2>3, <2>4, <2>6 DEF Keeps, InRun
  <2> QED
    BY <2>1, <2>5, <2>6, StandFrame
<1>10. ASSUME NEW p \in Procs, EnterGateway(p) PROVE StandInv'
  <2>1. /\ run[p].pc \in {"returned", "raised"} /\ run'[p].pc = "gateway"
        /\ run'[p].del = run[p].del /\ run'[p].n = run[p].n
        /\ run'[p].start = run[p].start /\ run'[p].changed = run[p].changed
        /\ run'[p].orphans = run[p].orphans /\ run'[p].todo = Violations(run[p].changed)
        /\ UNCHANGED <<disk, rows, deltas, blobs, meddled>>
    BY <1>10, GatewayFields DEF EnterGateway
  <2>2. Stands(run[p], deltas, rows) /\ (~meddled => Keeps(run[p], deltas, blobs, disk))
    BY <1>0
  <2>3. run[p].pc \in Active /\ run'[p].pc \in Active /\ run[p].n # 0
    BY <2>1, <2>2 DEF Stands, Active
  <2>4. /\ run'[p].todo \subseteq run[p].changed
        /\ Strict => run'[p].todo = run[p].changed \ Scope
    BY <2>1 DEF Violations
  <2>5. Stands(run'[p], deltas', rows')
    BY <2>1, <2>2, <2>3, <2>4 DEF Stands, Uncommitted, InRun
  <2>6. ASSUME ~meddled PROVE Keeps(run'[p], deltas', blobs', disk')
    <3>1. (run[p].n = 1 /\ Strict)
            => \A x \in Paths \ (Scope \cup run'[p].todo) : disk[x] = run[p].start[x]
      BY <2>1, <2>2, <2>4, <2>6 DEF Stands, Keeps
    <3>2. /\ \A x \in Paths : run[p].start[x] \in blobs \cup {Absent}
          /\ \A c \in deltas : c.del = run[p].del => c.prev = run[p].start[c.path]
      BY <2>1, <2>2, <2>3, <2>6 DEF Keeps
    <3> QED
      BY <2>1, <3>1, <3>2 DEF Keeps, InRun
  <2> QED
    BY <2>1, <2>5, <2>6, StandFrame
<1>11. ASSUME NEW p \in Procs, NEW x \in Paths, RevertPath(p, x) PROVE StandInv'
  <2>1. /\ run[p].pc = "gateway" /\ run'[p].pc = "gateway"
        /\ run'[p].del = run[p].del /\ run'[p].n = run[p].n
        /\ run'[p].start = run[p].start /\ run'[p].changed = run[p].changed
        /\ run'[p].orphans = run[p].orphans /\ run'[p].todo = run[p].todo \ {x}
        /\ UNCHANGED <<rows, deltas, blobs, meddled>>
    BY <1>11, RevertFields DEF RevertPath
  <2>2. Stands(run[p], deltas, rows) /\ (~meddled => Keeps(run[p], deltas, blobs, disk))
    BY <1>0
  <2>3. run[p].pc \in Active /\ run[p].n # 0
    BY <2>1, <2>2 DEF Stands, Active
  <2>4. Stands(run'[p], deltas', rows')
    BY <2>1, <2>2, <2>3 DEF Stands, Uncommitted, InRun
  <2>5. ASSUME ~meddled PROVE Keeps(run'[p], deltas', blobs', disk')
    <3>1. disk'[x] = run[p].start[x] /\ \A y \in Paths : y # x => disk'[y] = disk[y]
      BY <1>11, <2>5, RevertGives
    <3>2. (run[p].n = 1 /\ Strict)
            => \A y \in Paths \ (Scope \cup run'[p].todo) : disk'[y] = run[p].start[y]
      BY <2>1, <2>2, <2>5, <3>1 DEF Keeps
    <3>3. /\ \A y \in Paths : run[p].start[y] \in blobs \cup {Absent}
          /\ \A c \in deltas : c.del = run[p].del => c.prev = run[p].start[c.path]
      BY <2>1, <2>2, <2>3, <2>5 DEF Keeps
    <3> QED
      BY <2>1, <3>2, <3>3 DEF Keeps, InRun
  <2> QED
    BY <2>1, <2>4, <2>5, StandFrame
<1>12. ASSUME NEW p \in Procs, NEW x \in Paths, NEW c \in Contents \cup {Absent},
              ExecutorWrites(p, x, c)
       PROVE  StandInv'
  <2>1. /\ UNCHANGED <<run, rows, deltas, blobs>>
        /\ ~meddled' => ~meddled /\ run[p].pc \in {"running", "grace"}
    BY <1>12 DEF ExecutorWrites, At, TypeInv, TypeOK
  <2>2. Stands(run'[p], deltas', rows')
    BY <1>0, <2>1
  <2>3. ASSUME ~meddled' PROVE Keeps(run'[p], deltas', blobs', disk')
    <3>1. Keeps(run[p], deltas, blobs, disk) /\ run[p].pc \in {"running", "grace"}
      BY <1>0, <2>1, <2>3
    <3>2. run[p].pc \in InRun /\ run[p].pc \notin {"walked", "ready", "returned", "gateway"}
      BY <3>1 DEF InRun
    <3>3. Keeps(run[p], deltas, blobs, disk')
      BY <3>1, <3>2 DEF Keeps
    <3> QED
      BY <2>1, <3>3
  <2> QED
    BY <2>2, <2>3, StandFrame
<1>13. ASSUME NEW x \in Paths, NEW c \in Contents \cup {Absent}, HostWrites(x, c)
       PROVE  StandInv'
  BY <1>0, <1>13 DEF HostWrites, StandInv
<1>14. ASSUME UNCHANGED <<disk, rows, deltas, blobs, run, meddled>> PROVE StandInv'
  BY <1>0, <1>14 DEF StandInv
<1>15. ASSUME NEW p \in Procs, ZombieEnds(p) PROVE StandInv'
  BY <1>14, <1>15 DEF ZombieEnds
<1>16. ASSUME UNCHANGED vars PROVE StandInv'
  BY <1>14, <1>16 DEF vars
<1> QED
  BY <1>1, <1>2, <1>3, <1>4, <1>5, <1>6, <1>7, <1>8, <1>9, <1>10, <1>11, <1>12, <1>13,
     <1>15, <1>16 DEF Next, Step

LEMMA StandInit == Init => StandInv
<1> SUFFICES ASSUME Init PROVE StandInv
  OBVIOUS
<1>1. \A p \in Procs : run[p] = Fresh("down") /\ "down" \in Labels
  BY DEF Init, Labels
<1>2. \A p \in Procs : /\ run[p].pc \notin Active /\ run[p].orphans = {}
                        /\ run[p].changed = {} /\ run[p].todo = {}
  BY <1>1, FreshType DEF Active
<1> QED
  BY <1>2, StandsIdle DEF StandInv

\* Under a strict scope nothing out of scope is left changed when the gateway is
\* done with a delegation of one run, however the run ended: what is no longer
\* to revert is as it was at the start.
THEOREM ScopeIsHeld == OneProcess /\ Spec => []ScopeHolds
<1> SUFFICES ASSUME OneProcess PROVE Spec => []ScopeHolds
  OBVIOUS
<1>1. StandInv => ScopeHolds
  BY DEF StandInv, Keeps, ScopeHolds, NothingOutOfScope, At
<1>2. TypeInv /\ KeysInv /\ StandInv /\ [Next]_vars => StandInv'
  BY StandStep
<1> HIDE DEF TypeInv, KeysInv, StandInv, Init, Next, vars
<1> QED
  BY TypeInit, TypeStep, KeysInit, KeysStep, StandInit, <1>1, <1>2, PTL DEF Spec

\* The steps that may change the table of deltas: a reconciliation, of a row
\* without its end, and a commit.
LEMMA FrozenStep ==
  ASSUME TypeInv, StandInv, [Next]_vars, NEW d \in Ids, rows[d].ended
  PROVE  RowsOf(d) \subseteq deltas'
<1> USE DEF dbVars, worldVars
<1>1. ASSUME NEW p \in Procs, Reconcile(p) PROVE RowsOf(d) \subseteq deltas'
  <2>1. PICK e \in Ids :
           /\ e \in run[p].orphans
           /\ UNCHANGED deltas \/ deltas \ RowsOf(e) \subseteq deltas'
    BY <1>1, ReconcileFields
  <2>2. ~rows[e].ended
    BY <2>1 DEF StandInv, Stands
  <2> QED
    BY <2>1, <2>2 DEF RowsOf
<1>2. ASSUME NEW p \in Procs, CommitSnapshot(p) PROVE RowsOf(d) \subseteq deltas'
  BY <1>2, CommitAdds DEF RowsOf
<1>3. ASSUME UNCHANGED deltas PROVE RowsOf(d) \subseteq deltas'
  BY <1>3 DEF RowsOf
<1>4. ASSUME NEW p \in Procs, Step(p) \/ Crash(p), ~Reconcile(p), ~CommitSnapshot(p)
      PROVE  UNCHANGED deltas
  BY <1>4 DEF Step, Start, Ready, Delegate, WalkBefore, BeginSnapshot, ExecutorWrites,
              ZombieEnds, ExecutorReturns, ExecutorAborts, ExecutorRaises,
              ExecutorTimesOut, GraceEnds, CommitFails, Rerun, EnterGateway, RevertPath,
              Finalize, Crash
<1> QED
  BY <1>1, <1>2, <1>3, <1>4 DEF Next, HostWrites, vars

\* Only a revert takes a path off the list of the gateway.
LEMMA RevertStep ==
  ASSUME OneProcess, TypeInv, StandInv, ~meddled, [Next]_vars,
         NEW p \in Procs, NEW x \in run[p].todo,
         At(p, "gateway"), run'[p].pc = "gateway", x \notin run'[p].todo
  PROVE  disk'[x] = run[p].start[x]
<1> USE DEF dbVars, worldVars
<1>1. \A q \in Procs : q = p
  BY DEF OneProcess
<1>2. run[p].pc = "gateway"
  BY DEF At
<1>3. ASSUME NEW y \in Paths, RevertPath(p, y) PROVE disk'[x] = run[p].start[x]
  BY <1>3, RevertFields, RevertGives
<1>4. run' # run
  OBVIOUS
<1>5. ~\E label \in {"idle", "down"} : run' = [run EXCEPT ![p] = Fresh(label)]
  BY IdleFields DEF Labels
<1>6. ~(Ready(p) \/ Finalize(p) \/ Crash(p))
  BY <1>5 DEF Ready, Finalize, Crash
<1>7. ~(ZombieEnds(p) \/ \E y \in Paths, c \in Contents \cup {Absent} :
                            ExecutorWrites(p, y, c) \/ HostWrites(y, c))
  BY <1>4 DEF ZombieEnds, ExecutorWrites, HostWrites
<1>8. ~(\/ Start(p) \/ Reconcile(p) \/ Delegate(p) \/ WalkBefore(p) \/ BeginSnapshot(p)
        \/ ExecutorReturns(p) \/ ExecutorAborts(p) \/ ExecutorRaises(p)
        \/ ExecutorTimesOut(p) \/ GraceEnds(p) \/ CommitSnapshot(p) \/ CommitFails(p)
        \/ Rerun(p) \/ EnterGateway(p))
  BY <1>2 DEF At, Start, Reconcile, Delegate, WalkBefore, BeginSnapshot, ExecutorReturns,
              ExecutorAborts, ExecutorRaises, ExecutorTimesOut, GraceEnds, CommitSnapshot,
              CommitFails, Rerun, EnterGateway
<1> QED
  BY <1>1, <1>3, <1>4, <1>6, <1>7, <1>8 DEF Next, Step, vars

\* A rerun takes nothing from the first run: what is recorded of a delegation
\* that has its end stays, and a revert goes back to the content the delegation
\* found, not to the one a rerun of it did.
THEOREM FirstRunIsKept == OneProcess /\ Spec => FirstRunStands
<1> SUFFICES ASSUME OneProcess PROVE Spec => FirstRunStands
  OBVIOUS
<1> DEFINE Frozen == \A d \in Ids : rows[d].ended => RowsOf(d) \subseteq deltas'
           Reverted == \A p \in Procs : \A x \in run[p].todo :
                         (/\ ~meddled /\ At(p, "gateway")
                          /\ run'[p].pc = "gateway" /\ x \notin run'[p].todo)
                           => disk'[x] = run[p].start[x]
<1>1. TypeInv /\ StandInv /\ [Next]_vars => Frozen
  BY FrozenStep
<1>2. TypeInv /\ StandInv /\ [Next]_vars => Reverted
  BY RevertStep
<1>3. TypeInv /\ KeysInv /\ StandInv /\ [Next]_vars => StandInv'
  BY StandStep
<1>4. FirstRunStands <=> [][Frozen]_vars /\ [][Reverted]_vars
  BY DEF FirstRunStands, DeltasFrozen, RevertsToStart
<1> HIDE DEF TypeInv, KeysInv, StandInv, Init, Next, vars, Frozen, Reverted
<1>5. Spec => [][Frozen]_vars /\ [][Reverted]_vars
  BY TypeInit, TypeStep, KeysInit, KeysStep, StandInit, <1>1, <1>2, <1>3, PTL DEF Spec
<1> QED
  BY <1>4, <1>5

-----------------------------------------------------------------------------
(***************************************************************************)
(* The history explains the workspace: one server, one run of the executor *)
(* to a delegation, its thread ends in time, nobody else writes; any       *)
(* number of files, delegations and crashes.                               *)
(***************************************************************************)
Calm ==
  /\ OneProcess /\ ServersOnly /\ Procs # {}
  /\ MaxRuns = 1 /\ ~Strict /\ ~HostEdits /\ "overrun" \notin Interruptions

\* Where the one run of a delegation is, and what the tables hold of it.
CalmRun(r, rws, st, nd) ==
  /\ r.pc \notin Active => r.del = 0
  /\ r.pc \in Active => nd = r.del + 1
  /\ r.pc = "ready" => r.n = 0
  /\ r.pc \in Active \ {"ready"} => r.n = 1
  /\ r.pc \in {"ready", "walked"} => ~rws[r.del].begun /\ st[r.del] = NoFiles
  /\ r.pc \in InRun => rws[r.del].begun
  /\ r.pc \in {"returned", "gateway"} => rws[r.del].ended
  /\ r.pc # "raised" /\ r.todo = {}

CalmInv ==
  /\ zombie = {} /\ ~meddled
  /\ \A p \in Procs : CalmRun(run[p], rows, stored, nextDel)
  /\ \A d \in Ids : d >= nextDel => stored[d] = NoFiles

\* Row d of the table "rws" has no end; with "st", it can be reconciled; and it is
\* the only one.
Open(rws, d) == rws[d].begun /\ ~rws[d].ended
Cut(rws, st, d) == Open(rws, d) /\ st[d] # NoFiles
NoneBut(rws, d) == \A e \in Ids : Open(rws, e) => e = d

\* What the deltas lead to.
Story == [x \in Paths |-> Replayed(x)]

Same(m, w) == \A x \in Paths : m[x] = w[x]

\* The story "w" is, outside a run, the workspace; in a run, what it found and has
\* stored; after a crash, the manifest of the one row that it cut off.
Tells(r, rws, st, dk, ds, w) ==
  /\ (r.pc \notin InRun /\ NoneBut(rws, r.del)) => Same(dk, w)
  /\ r.pc = "reconciling" => r.before = dk
  /\ r.pc \in InRun =>
       /\ NoneBut(rws, r.del) => Same(r.before, w)
       /\ Open(rws, r.del) => st[r.del] = r.before
  /\ r.pc \in {"down", "reconciling"} =>
       /\ \A d, e \in Ids : Cut(rws, st, d) /\ Cut(rws, st, e) => d = e
       /\ \A d \in Ids : (Cut(rws, st, d) /\ NoneBut(rws, d)) =>
            Same(st[d], w) /\ \A c \in ds : c.del < d

TellInv ==
  ~torn => \A p \in Procs : Tells(run[p], rows, stored, disk, deltas, Story)

LEMMA CalmFrame ==
  ASSUME OneProcess, NEW p \in Procs, zombie' = {}, ~meddled',
         CalmRun(run'[p], rows', stored', nextDel'),
         \A d \in Ids : d >= nextDel' => stored'[d] = NoFiles
  PROVE  CalmInv'
<1>1. \A q \in Procs : q = p
  BY DEF OneProcess
<1> QED
  BY <1>1 DEF CalmInv

LEMMA CalmStep ==
  ASSUME Calm
  PROVE  TypeInv /\ KeysInv /\ StandInv /\ StandInv' /\ CalmInv /\ [Next]_vars => CalmInv'
<1> SUFFICES ASSUME TypeInv, KeysInv, StandInv, StandInv', CalmInv, [Next]_vars
             PROVE  CalmInv'
  OBVIOUS
<1> USE DEF dbVars, worldVars
<1>0. /\ OneProcess /\ zombie = {} /\ ~meddled /\ nextDel \in Nat
      /\ \A p \in Procs : CalmRun(run[p], rows, stored, nextDel)
      /\ \A d \in Ids : d >= nextDel => stored[d] = NoFiles
      /\ \A p \in Procs : run[p].pc \in Active => run[p].del \in Ids
  BY DEF Calm, CalmInv, TypeInv, TypeOK
\* The process is at rest after the step.
<1>1. ASSUME NEW p \in Procs, run'[p].pc \notin Active, run'[p].del = 0,
             run'[p].todo = {}, zombie' = {}, ~meddled', UNCHANGED <<stored, nextDel>>
      PROVE  CalmInv'
  <2>1. CalmRun(run'[p], rows', stored', nextDel')
    BY <1>1 DEF CalmRun, Active, InRun
  <2> QED
    BY <1>0, <1>1, <2>1, CalmFrame
<1>2. ASSUME NEW p \in Procs, Start(p) PROVE CalmInv'
  <2>1. run'[p].pc \notin Active /\ run'[p].del = 0 /\ run'[p].todo = {}
    BY <1>2, StartFields DEF Active
  <2> QED
    BY <1>0, <1>1, <1>2, <2>1 DEF Start
<1>3. ASSUME NEW p \in Procs, Reconcile(p) PROVE CalmInv'
  <2>1. /\ run[p].pc = "reconciling" /\ run'[p].pc = "reconciling"
        /\ run'[p].del = run[p].del /\ run'[p].todo = run[p].todo
    BY <1>3, ReconcileFields
  <2>2. run'[p].pc \notin Active /\ run'[p].del = 0 /\ run'[p].todo = {}
    BY <1>0, <2>1 DEF CalmRun, Active
  <2> QED
    BY <1>0, <1>1, <1>3, <2>2 DEF Reconcile
<1>4. ASSUME NEW p \in Procs, Ready(p) \/ Finalize(p) \/ Crash(p) PROVE CalmInv'
  <2>1. \E label \in {"idle", "down"} : run' = [run EXCEPT ![p] = Fresh(label)]
    BY <1>4 DEF Ready, Finalize, Crash
  <2>2. run'[p].pc \notin Active /\ run'[p].del = 0 /\ run'[p].todo = {}
    BY <2>1, IdleFields DEF Labels, Active
  <2>3. zombie' = {} /\ ~meddled' /\ UNCHANGED <<stored, nextDel>>
    BY <1>0, <1>4 DEF Ready, Finalize, Crash
  <2> QED
    BY <1>1, <2>2, <2>3
<1>5. ASSUME NEW p \in Procs, Delegate(p) PROVE CalmInv'
  <2>1. /\ run'[p].pc = "ready" /\ run'[p].del = nextDel /\ run'[p].n = 0
        /\ run'[p].todo = {} /\ nextDel' = nextDel + 1
        /\ UNCHANGED <<rows, stored, zombie, meddled>>
    BY <1>5, DelegateFields DEF Delegate
  <2>2. nextDel \in Ids
    BY <1>0, <1>5, HistoryAssumption DEF Delegate, Ids, TypeInv, TypeOK
  <2>3. ~rows[nextDel].begun /\ stored[nextDel] = NoFiles
    <3>1. ~(nextDel < nextDel) /\ nextDel >= nextDel
      BY <1>0
    <3> QED
      BY <1>0, <2>2, <3>1 DEF KeysInv
  <2>4. CalmRun(run'[p], rows', stored', nextDel')
    BY <2>1, <2>3 DEF CalmRun, InRun, Active
  <2>5. \A d \in Ids : d >= nextDel' => d >= nextDel
    BY <1>0, <2>1 DEF Ids
  <2> QED
    BY <1>0, <2>1, <2>4, <2>5, CalmFrame
<1>6. ASSUME NEW p \in Procs, WalkBefore(p) PROVE CalmInv'
  <2>1. /\ run[p].pc = "ready" /\ run'[p].pc = "walked"
        /\ run'[p].del = run[p].del /\ run'[p].n = run[p].n + 1
        /\ run'[p].todo = run[p].todo
        /\ UNCHANGED <<rows, stored, zombie, meddled, nextDel>>
    BY <1>6, WalkFields DEF WalkBefore
  <2>2. CalmRun(run[p], rows, stored, nextDel)
    BY <1>0
  <2>3. run[p].n = 0
    BY <2>1, <2>2 DEF CalmRun
  <2>4. run'[p].n = 1
    BY <2>1, <2>3
  <2>5. CalmRun(run'[p], rows', stored', nextDel')
    BY <2>1, <2>2, <2>4 DEF CalmRun, InRun, Active
  <2> QED
    BY <1>0, <2>1, <2>5, CalmFrame
<1>7. ASSUME NEW p \in Procs, BeginSnapshot(p) PROVE CalmInv'
  <2>0. Goto(p, "running")
    BY <1>7 DEF BeginSnapshot
  <2>6. /\ run'[p].del = run[p].del /\ run'[p].n = run[p].n
        /\ run'[p].todo = run[p].todo
    BY <2>0, GotoFields
  <2>7. /\ run[p].pc = "walked" /\ run'[p].pc = "running" /\ run[p].del \in Ids
        /\ rows'[run[p].del].begun
        /\ \A e \in Ids : e # run[p].del => stored'[e] = stored[e]
        /\ UNCHANGED <<zombie, meddled, nextDel>>
    <3>1. /\ run[p].pc = "walked" /\ run'[p].pc = "running" /\ run[p].del \in Ids
          /\ UNCHANGED <<zombie, meddled, nextDel>>
      BY ONLY TypeInv, p \in Procs, <1>7, SnapshotFields
    <3>2. rows'[run[p].del].begun
      BY <1>7, <3>1, SnapshotFields, Zenon
    <3>3. \A e \in Ids : e # run[p].del => stored'[e] = stored[e]
      BY <1>7, SnapshotFields, Zenon
    <3> QED
      BY ONLY <3>1, <3>2, <3>3
  <2>1. /\ run[p].pc = "walked" /\ run'[p].pc = "running"
        /\ run'[p].del = run[p].del /\ run'[p].n = run[p].n /\ run[p].del \in Ids
        /\ run'[p].todo = run[p].todo
        /\ rows'[run[p].del].begun
        /\ \A e \in Ids : e # run[p].del => stored'[e] = stored[e]
        /\ UNCHANGED <<zombie, meddled, nextDel>>
    BY <2>6, <2>7
  <2>2. CalmRun(run[p], rows, stored, nextDel)
    BY <1>0
  <2>3. CalmRun(run'[p], rows', stored', nextDel')
    BY <2>1, <2>2 DEF CalmRun, InRun, Active
  <2>4. nextDel = run[p].del + 1
    BY <2>1, <2>2 DEF CalmRun, Active
  <2>5. \A d \in Ids : d >= nextDel => d # run[p].del
    BY <2>1, <2>4 DEF Ids
  <2> QED
    BY <1>0, <2>1, <2>3, <2>5, CalmFrame
<1>8. ASSUME NEW p \in Procs,
             \/ ExecutorReturns(p) \/ ExecutorAborts(p) \/ ExecutorRaises(p)
             \/ ExecutorTimesOut(p) \/ GraceEnds(p) \/ CommitFails(p)
      PROVE  CalmInv'
  <2>1. /\ run[p].pc \in InRun /\ run'[p].pc \in InRun \cup {"raised"}
        /\ run'[p].del = run[p].del /\ run'[p].n = run[p].n /\ run[p].del \in Ids
        /\ run'[p].todo = run[p].todo
        /\ UNCHANGED <<stored, nextDel, meddled>>
        /\ \A e \in Ids : rows'[e].begun = rows[e].begun
    BY <1>8, MiddleFields
  <2>2. CalmRun(run[p], rows, stored, nextDel)
    BY <1>0
  <2>3. run[p].n = 1
    BY <2>1, <2>2 DEF CalmRun, InRun, Active
  <2>4. run'[p].pc # "raised"
    BY <2>1, <2>3 DEF StandInv, Stands
  <2>5. zombie' = {}
    BY <1>0, <1>8 DEF ExecutorReturns, ExecutorAborts, ExecutorRaises, ExecutorTimesOut,
                      GraceEnds, CommitFails, Calm
  <2>6. CalmRun(run'[p], rows', stored', nextDel')
    BY <2>1, <2>2, <2>3, <2>4 DEF CalmRun, InRun, Active
  <2> QED
    BY <1>0, <2>1, <2>5, <2>6, CalmFrame
<1>9. ASSUME NEW p \in Procs, CommitSnapshot(p) PROVE CalmInv'
  <2>1. /\ run[p].pc \in {"committing", "recommitting"} /\ run'[p].pc = "returned"
        /\ run'[p].del = run[p].del /\ run'[p].n = run[p].n
        /\ run'[p].todo = run[p].todo
    BY <1>9, CommitFields
  <2>2. run[p].del \in Ids /\ UNCHANGED <<stored, zombie, nextDel, meddled>>
    BY <1>9, CommitAdds
  <2>3. rows'[run[p].del].ended
    BY <1>9, <2>2, CommitAdds, EndedFields
  <2>4. CalmRun(run[p], rows, stored, nextDel)
    BY <1>0
  <2>5. CalmRun(run'[p], rows', stored', nextDel')
    BY <2>1, <2>2, <2>3, <2>4 DEF CalmRun, InRun, Active
  <2> QED
    BY <1>0, <2>2, <2>5, CalmFrame
<1>10. ASSUME NEW p \in Procs, Rerun(p) PROVE CalmInv'
  <2>1. run[p].pc \in {"returned", "raised"} /\ run[p].n < 1
    BY <1>10 DEF Rerun, At, Calm
  <2>2. run[p].n = 1
    BY <1>0, <2>1 DEF CalmRun, Active
  <2> QED
    BY <2>1, <2>2
<1>11. ASSUME NEW p \in Procs, EnterGateway(p) PROVE CalmInv'
  <2>1. /\ run[p].pc \in {"returned", "raised"} /\ run'[p].pc = "gateway"
        /\ run'[p].del = run[p].del /\ run'[p].n = run[p].n
        /\ run'[p].todo = Violations(run[p].changed)
        /\ UNCHANGED <<rows, stored, zombie, nextDel, meddled>>
    BY <1>11, GatewayFields DEF EnterGateway
  <2>2. CalmRun(run[p], rows, stored, nextDel)
    BY <1>0
  <2>3. run'[p].todo = {}
    BY <2>1 DEF Violations, Calm
  <2>4. CalmRun(run'[p], rows', stored', nextDel')
    BY <2>1, <2>2, <2>3 DEF CalmRun, InRun, Active
  <2> QED
    BY <1>0, <2>1, <2>4, CalmFrame
<1>12. ASSUME NEW p \in Procs, NEW x \in Paths, RevertPath(p, x) PROVE CalmInv'
  BY <1>0, <1>12 DEF RevertPath, CalmRun
<1>13. ASSUME NEW p \in Procs, NEW x \in Paths, NEW c \in Contents \cup {Absent},
              ExecutorWrites(p, x, c)
       PROVE  CalmInv'
  <2>1. UNCHANGED <<rows, stored, zombie, nextDel, run>> /\ ~meddled'
    BY <1>0, <1>13 DEF ExecutorWrites
  <2> QED
    BY <1>0, <2>1, CalmFrame
<1>14. ASSUME NEW x \in Paths, NEW c \in Contents \cup {Absent}, HostWrites(x, c)
       PROVE  CalmInv'
  BY <1>14 DEF HostWrites, Calm
<1>15. ASSUME NEW p \in Procs, ZombieEnds(p) PROVE CalmInv'
  BY <1>0, <1>15 DEF ZombieEnds
<1>16. ASSUME UNCHANGED vars PROVE CalmInv'
  BY <1>0, <1>16 DEF vars, CalmInv
<1> QED
  BY <1>2, <1>3, <1>4, <1>5, <1>6, <1>7, <1>8, <1>9, <1>10, <1>11, <1>12, <1>13, <1>14,
     <1>15, <1>16 DEF Next, Step

LEMMA CalmInit == ASSUME Calm PROVE Init => CalmInv
<1> SUFFICES ASSUME Init PROVE CalmInv
  OBVIOUS
<1>1. \A p \in Procs : run[p] = Fresh("down") /\ "down" \in Labels
  BY DEF Init, Labels
<1>2. \A p \in Procs : CalmRun(run[p], rows, stored, nextDel)
  BY <1>1, FreshType DEF CalmRun, Active, InRun
<1> QED
  BY <1>2 DEF Init, CalmInv

\* The same rows lead to the same contents.
LEMMA ReplaySame ==
  ASSUME NEW x, UNCHANGED origin,
         \A r : r.path = x => (r \in deltas' <=> r \in deltas)
  PROVE  Replayed(x)' = Replayed(x)
<1> DEFINE Leads(rs) == IF rs = {} THEN origin[x]
                        ELSE (CHOOSE r \in rs : \A s \in rs : s.del <= r.del).now
<1>1. {r \in deltas' : r.path = x} = {r \in deltas : r.path = x}
  OBVIOUS
<1>2. Replayed(x) = Leads({r \in deltas : r.path = x})
  BY DEF Replayed
<1>3. Replayed(x)' = Leads({r \in deltas' : r.path = x})
  BY DEF Replayed
<1> HIDE DEF Leads
<1> QED
  BY <1>1, <1>2, <1>3

\* The row of a later delegation decides.
LEMMA ReplayLast ==
  ASSUME NEW x, NEW c \in deltas', c.path = x,
         \A r \in deltas' : r.path = x => (r = c \/ (r.del < c.del)),
         \A r \in deltas' : r.del \in Nat
  PROVE  Replayed(x)' = c.now
<1> DEFINE rs == {r \in deltas' : r.path = x}
<1>1. c \in rs
  OBVIOUS
<1>2. \A s \in rs : s.del <= c.del
  OBVIOUS
<1>3. ASSUME NEW r \in rs, \A s \in rs : s.del <= r.del PROVE r = c
  <2>1. c.del <= r.del /\ (r = c \/ r.del < c.del) /\ c.del \in Nat /\ r.del \in Nat
    BY <1>1, <1>3
  <2> QED
    BY <2>1
<1>4. Replayed(x)' = IF rs = {} THEN origin'[x]
                     ELSE (CHOOSE r \in rs : \A s \in rs : s.del <= r.del).now
  BY DEF Replayed
<1> HIDE DEF rs
<1>5. (CHOOSE r \in rs : \A s \in rs : s.del <= r.del) = c
  BY <1>1, <1>2, <1>3
<1> QED
  BY <1>1, <1>4, <1>5

\* What a commit or a reconciliation adds leads from the story so far to the
\* workspace.
LEMMA StoryAdds ==
  ASSUME TypeInv, NEW d \in Ids, NEW before, Same(before, Story),
         \A c \in deltas : c.del < d,
         deltas' = deltas \cup Changes(d, before, disk), UNCHANGED <<disk, origin>>
  PROVE  Same(disk', Story')
<1> SUFFICES ASSUME NEW x \in Paths PROVE disk[x] = Replayed(x)'
  BY DEF Same, Story
<1> DEFINE changes == Changes(d, before, disk)
<1>1. /\ \A c \in changes :
           /\ c.del = d /\ c.path \in Paths /\ before[c.path] # disk[c.path]
           /\ c.now = disk[c.path]
      /\ \A b, c \in changes : b.path = c.path => b = c
      /\ \A y \in Paths : before[y] # disk[y] => \E c \in changes : c.path = y
  BY ChangesForm
<1>2. before[x] = Replayed(x)
  BY DEF Same, Story
<1>3. \A c \in deltas : c.del \in Nat
  BY DEF TypeInv, TypeOK, Delta, Ids
<1>4. d \in Nat
  BY DEF Ids
<1> HIDE DEF changes
<1>5. CASE before[x] = disk[x]
  <2>1. \A r : r.path = x => (r \in deltas' <=> r \in deltas)
    BY <1>1, <1>5 DEF changes
  <2>2. Replayed(x)' = Replayed(x)
    BY <2>1, ReplaySame
  <2> QED
    BY <1>2, <1>5, <2>2
<1>6. CASE before[x] # disk[x]
  <2>1. PICK c \in changes : c.path = x
    BY <1>1, <1>6
  <2>2. c \in deltas' /\ c.del = d /\ c.now = disk[x]
    BY <1>1, <2>1 DEF changes
  <2>3. \A r \in deltas' : r.path = x => (r = c \/ (r.del < c.del))
    BY <1>1, <2>1, <2>2 DEF changes
  <2>4. \A r \in deltas' : r.del \in Nat
    BY <1>1, <1>3, <1>4 DEF changes
  <2>5. Replayed(x)' = c.now
    BY <2>1, <2>2, <2>3, <2>4, ReplayLast
  <2> QED
    BY <2>2, <2>5
<1> QED
  BY <1>5, <1>6

\* Without new rows the story stays.
LEMMA StorySame ==
  ASSUME UNCHANGED <<deltas, origin>>
  PROVE  Story' = Story
<1>1. \A x : Replayed(x)' = Replayed(x)
  BY ReplaySame
<1> QED
  BY <1>1 DEF Story
\* While a run goes on all rows are of earlier delegations.
LEMMA EarlierRows ==
  ASSUME TypeInv, KeysInv, StandInv, CalmInv, NEW p \in Procs, run[p].pc \in InRun
  PROVE  \A c \in deltas : c.del < run[p].del
<1>1. run[p].pc \in Active /\ run[p].pc # "ready" /\ run[p].del \in Ids
  BY DEF InRun, Active, TypeInv
<1>2. nextDel = run[p].del + 1 /\ run[p].n = 1
  BY <1>1 DEF CalmInv, CalmRun
<1>3. \A x \in Paths : ~Rowed(deltas, run[p].del, x)
  BY <1>1, <1>2 DEF StandInv, Stands, Uncommitted
<1>4. ASSUME NEW c \in deltas PROVE c.del < run[p].del
  <2>1. c.del \in Ids /\ c.path \in Paths
    BY DEF TypeInv, TypeOK, Delta
  <2>2. c.del # run[p].del
    BY <1>3, <2>1 DEF Rowed
  <2>3. c.del < nextDel
    BY DEF KeysInv
  <2>4. c.del \in Nat /\ run[p].del \in Nat
    BY <1>1, <2>1 DEF Ids
  <2> QED
    BY <1>2, <2>2, <2>3, <2>4
<1> QED
  BY <1>4

LEMMA TornStays == TypeInv /\ [Next]_vars /\ ~torn' => ~torn
<1> SUFFICES ASSUME TypeInv, [Next]_vars, torn PROVE torn'
  BY DEF TypeInv, TypeOK
<1>1. ASSUME NEW p \in Procs, Step(p) PROVE torn'
  BY <1>1 DEF Step, Start, Reconcile, Ready, Delegate, WalkBefore, BeginSnapshot,
              ExecutorWrites, ZombieEnds, ExecutorReturns, ExecutorAborts, ExecutorRaises,
              ExecutorTimesOut, GraceEnds, CommitSnapshot, CommitFails, Rerun,
              EnterGateway, RevertPath, Finalize, worldVars
<1>2. ASSUME NEW p \in Procs, Crash(p) PROVE torn'
  BY <1>2 DEF Crash
<1> QED
  BY <1>1, <1>2 DEF Next, HostWrites, vars

LEMMA TellStep ==
  ASSUME Calm
  PROVE  (/\ TypeInv /\ KeysInv /\ LimboInv /\ StandInv /\ CalmInv /\ CalmInv' /\ TellInv
          /\ [Next]_vars)
            => TellInv'
<1> SUFFICES ASSUME TypeInv, KeysInv, LimboInv, StandInv, CalmInv, CalmInv', TellInv,
                    [Next]_vars, ~torn'
             PROVE  \A p \in Procs : Tells(run'[p], rows', stored', disk', deltas', Story')
  BY DEF TellInv
<1> USE DEF dbVars, worldVars
<1>0. /\ ~torn /\ zombie = {} /\ ~meddled /\ 0 \notin Ids
      /\ \A p, q \in Procs : p = q
      /\ \A p \in Procs : CalmRun(run[p], rows, stored, nextDel)
      /\ \A p \in Procs : CalmRun(run'[p], rows', stored', nextDel')
      /\ \A p \in Procs : Tells(run[p], rows, stored, disk, deltas, Story)
      /\ \A p \in Procs : run[p].pc \in Active => run[p].del \in Ids
  BY TornStays DEF Calm, OneProcess, CalmInv, TellInv, TypeInv, Ids
<1> DEFINE Told(p) == Tells(run'[p], rows', stored', disk', deltas', Story')
\* Nothing but the locals of p changes, and it is not in a run.
<1>1. ASSUME NEW p \in Procs, UNCHANGED <<disk, rows, stored, deltas, origin>>,
             run[p].pc \notin InRun, run'[p].pc \notin InRun,
             run'[p].pc \in {"down", "reconciling"} => run[p].pc \in {"down", "reconciling"},
             run'[p].pc = "reconciling" => run'[p].before = disk,
             NoneBut(rows, run'[p].del) => NoneBut(rows, run[p].del)
      PROVE  Told(p)
  <2>1. Story' = Story
    BY <1>1, StorySame
  <2>2. Tells(run[p], rows, stored, disk, deltas, Story)
    BY <1>0
  <2> QED
    BY <1>1, <2>1, <2>2 DEF Tells
<1>2. ASSUME NEW p \in Procs, Start(p) PROVE Told(p)
  <2>1. /\ run[p].pc = "down" /\ run'[p].del = 0
        /\ run'[p].pc = "reconciling" /\ run'[p].before = disk
    BY <1>2, StartFields DEF Calm, ServersOnly
  <2>2. run[p].del = 0
    BY <1>0, <2>1 DEF CalmRun, Active
  <2> QED
    BY <1>1, <1>2, <2>1, <2>2 DEF Start, InRun
<1>3. ASSUME NEW p \in Procs, Reconcile(p) PROVE Told(p)
  <2>1. PICK d \in Ids :
           /\ run[p].pc = "reconciling" /\ run'[p].pc = "reconciling"
           /\ d \in run[p].orphans
           /\ run'[p].before = run[p].before /\ run'[p].del = run[p].del
           /\ IF stored[d] = NoFiles
                THEN UNCHANGED <<rows, deltas, blobs>>
                ELSE /\ rows' = Mark(d, "interrupted")
                     /\ deltas' = (deltas \ RowsOf(d)) \cup
                                    Changes(d, stored[d], run[p].before)
    BY <1>3, ReconcileFields
  <2>2. UNCHANGED <<disk, stored, origin>>
    BY <1>3 DEF Reconcile
  <2>3. Tells(run[p], rows, stored, disk, deltas, Story)
    BY <1>0
  <2>4. run[p].before = disk /\ run'[p].pc \notin InRun /\ run[p].pc \notin InRun
    BY <2>1, <2>3 DEF Tells, InRun
  <2>5. CASE stored[d] = NoFiles
    BY <1>1, <2>1, <2>2, <2>4, <2>5
  <2>6. CASE stored[d] # NoFiles
    <3>1. Cut(rows, stored, d)
      <4>1. rows[d].begun /\ ~rows[d].ended
        BY <2>1 DEF KeysInv, StandInv, Stands
      <4> QED
        BY <2>6, <4>1 DEF Cut, Open
    <3>2. \A e \in Ids : Open(rows', e) <=> (Open(rows, e) /\ e # d)
      BY <2>1, <2>6, MarkFields DEF Open
    <3>3. \A e \in Ids : ~Cut(rows', stored', e)
      BY <2>1, <2>2, <2>3, <3>1, <3>2 DEF Tells, Cut
    <3>4. run'[p].del = 0
      BY <1>0, <2>1 DEF CalmRun, Active
    <3>5. ASSUME NoneBut(rows', 0) PROVE Same(disk', Story')
      <4>1. NoneBut(rows, d)
        BY <1>0, <3>2, <3>5 DEF NoneBut
      <4>2. Same(stored[d], Story) /\ \A c \in deltas : c.del < d
        BY <2>1, <2>3, <3>1, <4>1 DEF Tells
      <4>3. RowsOf(d) = {}
        <5>1. d \in Nat
          BY DEF Ids
        <5>2. ~(d < d)
          BY <5>1
        <5> QED
          BY <4>2, <5>2 DEF RowsOf
      <4>4. deltas' = deltas \cup Changes(d, stored[d], disk)
        BY <2>1, <2>4, <2>6, <4>3
      <4> QED
        BY <2>2, <4>2, <4>4, StoryAdds
    <3> QED
      BY <2>1, <2>2, <2>4, <3>3, <3>4, <3>5 DEF Tells
  <2> QED
    BY <2>5, <2>6
<1>4. ASSUME NEW p \in Procs, Ready(p) PROVE Told(p)
  <2>1. /\ run[p].pc = "reconciling" /\ run'[p].pc = "idle" /\ run'[p].del = 0
        /\ UNCHANGED <<disk, rows, stored, deltas, origin>>
    BY <1>4, IdleFields DEF Ready, At, Labels
  <2>2. run[p].del = 0
    BY <1>0, <2>1 DEF CalmRun, Active
  <2> QED
    BY <1>1, <2>1, <2>2 DEF InRun
<1>5. ASSUME NEW p \in Procs, Delegate(p) PROVE Told(p)
  <2>1. /\ run[p].pc = "idle" /\ run'[p].pc = "ready" /\ run'[p].del = nextDel
        /\ UNCHANGED <<disk, rows, stored, deltas, origin>>
    BY <1>5, DelegateFields DEF Delegate
  <2>2. nextDel \in Nat
    BY DEF TypeInv, TypeOK
  <2>3. ~(nextDel < nextDel)
    BY <2>2
  <2>4. \A e \in Ids : Open(rows, e) => e # nextDel
    BY <2>3 DEF KeysInv, Open
  <2>5. NoneBut(rows, nextDel) => NoneBut(rows, run[p].del)
    BY <2>4 DEF NoneBut
  <2> QED
    BY <1>1, <2>1, <2>5 DEF InRun
<1>6. ASSUME NEW p \in Procs, WalkBefore(p) PROVE Told(p)
  <2>1. /\ run[p].pc = "ready" /\ run'[p].pc = "walked" /\ run'[p].del = run[p].del
        /\ UNCHANGED <<disk, rows, stored, deltas, origin>>
    BY <1>6, WalkFields DEF WalkBefore
  <2> QED
    BY <1>1, <2>1 DEF InRun
<1>7. ASSUME NEW p \in Procs, BeginSnapshot(p) PROVE Told(p)
  <2>1. Goto(p, "running")
    BY <1>7 DEF BeginSnapshot
  <2>2. run'[p].pc = "running" /\ run'[p].del = run[p].del /\ run'[p].before = run[p].before
    BY <2>1, GotoFields
  <2>3. /\ run[p].pc = "walked" /\ run[p].del \in Ids
        /\ \A e \in Ids : e # run[p].del => /\ rows'[e].begun = rows[e].begun
                                            /\ rows'[e].ended = rows[e].ended
        /\ stored[run[p].del] = NoFiles => stored'[run[p].del] = run[p].before
        /\ UNCHANGED <<disk, deltas, origin>>
    BY <1>7, SnapshotFields
  <2>4. stored'[run[p].del] = run[p].before
    BY <1>0, <2>3 DEF CalmRun
  <2>5. run[p].before = disk
    BY <1>0, <2>3 DEF StandInv, Keeps
  <2>6. NoneBut(rows', run[p].del) => NoneBut(rows, run[p].del)
    BY <2>3 DEF NoneBut, Open
  <2>7. NoneBut(rows, run[p].del) => Same(disk, Story)
    BY <1>0, <2>3 DEF Tells, InRun
  <2>8. Story' = Story
    BY <2>3, StorySame
  <2> QED
    BY <2>2, <2>4, <2>5, <2>6, <2>7, <2>8 DEF Tells, InRun
<1>8. ASSUME NEW p \in Procs,
             \/ ExecutorReturns(p) \/ ExecutorAborts(p) \/ ExecutorRaises(p)
             \/ ExecutorTimesOut(p) \/ GraceEnds(p) \/ CommitFails(p)
      PROVE  Told(p)
  <2>1. /\ run[p].pc \in InRun /\ run'[p].pc \in InRun \cup {"raised"}
        /\ run'[p].del = run[p].del /\ run'[p].before = run[p].before
        /\ UNCHANGED <<stored, deltas, origin>>
        /\ \A e \in Ids : rows'[e].begun = rows[e].begun
        /\ \A e \in Ids : rows'[e].ended = rows[e].ended
                            \/ (e = run[p].del /\ rows'[e].ended)
        /\ run[p].del \in Ids
    BY <1>8, MiddleFields
  <2>2. run'[p].pc \in InRun /\ run'[p].pc \notin {"down", "reconciling"}
    BY <1>0, <2>1 DEF CalmRun, InRun
  <2>3. NoneBut(rows', run[p].del) => NoneBut(rows, run[p].del)
    BY <2>1 DEF NoneBut, Open
  <2>4. Open(rows', run[p].del) => Open(rows, run[p].del)
    BY <2>1 DEF Open
  <2>5. Story' = Story
    BY <2>1, StorySame
  <2>6. Tells(run[p], rows, stored, disk, deltas, Story)
    BY <1>0
  <2> QED
    BY <2>1, <2>2, <2>3, <2>4, <2>5, <2>6 DEF Tells
<1>9. ASSUME NEW p \in Procs, CommitSnapshot(p) PROVE Told(p)
  <2>1. /\ run[p].pc \in {"committing", "recommitting"} /\ run'[p].pc = "returned"
        /\ run'[p].del = run[p].del
    BY <1>9, CommitFields
  <2>2. /\ deltas' = deltas \cup Changes(run[p].del, run[p].before, disk)
        /\ rows' = [rows EXCEPT ![run[p].del].ended = TRUE]
        /\ run[p].del \in Ids /\ UNCHANGED <<disk, origin>>
    BY <1>9, CommitAdds
  <2>3. run[p].pc \in InRun
    BY <2>1 DEF InRun
  <2>4. NoneBut(rows', run[p].del) => NoneBut(rows, run[p].del)
    BY <2>2, EndedFields DEF NoneBut, Open
  <2>5. NoneBut(rows, run[p].del) => Same(run[p].before, Story)
    BY <1>0, <2>3 DEF Tells
  <2>6. \A c \in deltas : c.del < run[p].del
    BY <2>3, EarlierRows
  <2>7. NoneBut(rows', run[p].del) => Same(disk', Story')
    BY <2>2, <2>4, <2>5, <2>6, StoryAdds
  <2> QED
    BY <2>1, <2>7 DEF Tells, InRun
<1>10. ASSUME NEW p \in Procs, EnterGateway(p) PROVE Told(p)
  <2>1. /\ run[p].pc \in {"returned", "raised"} /\ run'[p].pc = "gateway"
        /\ run'[p].del = run[p].del
        /\ UNCHANGED <<disk, rows, stored, deltas, origin>>
    BY <1>10, GatewayFields DEF EnterGateway
  <2> QED
    BY <1>1, <2>1 DEF InRun
<1>11. ASSUME NEW p \in Procs, Finalize(p) PROVE Told(p)
  <2>1. /\ run[p].pc = "gateway" /\ run'[p].pc = "idle" /\ run'[p].del = 0
        /\ UNCHANGED <<disk, deltas, origin>>
    BY <1>11, IdleFields DEF Finalize, At, Labels
  <2>2. \A e \in Ids : rows'[e].begun = rows[e].begun /\ rows'[e].ended = rows[e].ended
    BY <1>11 DEF Finalize, TypeInv, TypeOK, Row
  <2>3. NoneBut(rows', 0) => NoneBut(rows, run[p].del)
    BY <1>0, <2>2 DEF NoneBut, Open
  <2>4. NoneBut(rows, run[p].del) => Same(disk, Story)
    BY <1>0, <2>1 DEF Tells, InRun
  <2>5. Story' = Story
    BY <2>1, StorySame
  <2> QED
    BY <2>1, <2>3, <2>4, <2>5 DEF Tells, InRun
<1>12. ASSUME NEW p \in Procs, Crash(p) PROVE Told(p)
  <2>1. /\ run[p].pc # "down" /\ run'[p].pc = "down" /\ run'[p].del = 0
        /\ UNCHANGED <<disk, rows, stored, deltas, origin>>
        /\ run[p].pc \in InRun => ~rows[run[p].del].ended
    BY <1>12, IdleFields DEF Crash, At, Labels, InRun
  <2>2. Story' = Story
    BY <2>1, StorySame
  <2>3. Tells(run[p], rows, stored, disk, deltas, Story)
    BY <1>0
  <2>4. NoneBut(rows, 0) => Same(disk, Story)
    <3>1. run[p].pc \in InRun => run[p].del \in Ids /\ Open(rows, run[p].del)
      BY <1>0, <2>1 DEF CalmRun, InRun, Active, Open
    <3>2. NoneBut(rows, 0) => NoneBut(rows, run[p].del) /\ run[p].pc \notin InRun
      BY <1>0, <3>1 DEF NoneBut
    <3> QED
      BY <2>3, <3>2 DEF Tells
  <2>5. CASE run[p].pc = "reconciling"
    BY <2>1, <2>2, <2>3, <2>4, <2>5 DEF Tells, InRun
  <2>6. CASE run[p].pc # "reconciling"
    <3>1. ASSUME NEW d \in Ids, Cut(rows, stored, d)
          PROVE  run[p].pc \in InRun /\ run[p].del = d
      <4>1. PICK q \in Procs : Attends(run[q], d)
        BY <3>1 DEF LimboInv, Cut, Open
      <4>2. q = p
        BY <1>0
      <4> QED
        BY <2>1, <2>6, <4>1, <4>2 DEF Attends, InRun
    <3>2. \A d, e \in Ids : Cut(rows, stored, d) /\ Cut(rows, stored, e) => d = e
      BY <3>1
    <3>3. ASSUME NEW d \in Ids, Cut(rows, stored, d), NoneBut(rows, d)
          PROVE  Same(stored[d], Story) /\ \A c \in deltas : c.del < d
      <4>1. run[p].pc \in InRun /\ run[p].del = d /\ Open(rows, d)
        BY <3>1, <3>3 DEF Cut
      <4>2. Same(run[p].before, Story) /\ stored[d] = run[p].before
        BY <2>3, <3>3, <4>1 DEF Tells
      <4> QED
        BY <4>1, <4>2, EarlierRows
    <3> QED
      BY <2>1, <2>2, <2>4, <3>2, <3>3 DEF Tells, InRun
  <2> QED
    BY <2>5, <2>6
<1>13. ASSUME NEW p \in Procs, NEW x \in Paths, NEW c \in Contents \cup {Absent},
              ExecutorWrites(p, x, c)
       PROVE  Told(p)
  <2>1. run[p].pc \in {"running", "grace"} /\ UNCHANGED <<rows, stored, deltas, run, origin>>
    BY <1>0, <1>13 DEF ExecutorWrites, At
  <2>2. Story' = Story
    BY <2>1, StorySame
  <2>3. Tells(run[p], rows, stored, disk, deltas, Story)
    BY <1>0
  <2> QED
    BY <2>1, <2>2, <2>3 DEF Tells, InRun
<1>14. ASSUME NEW p \in Procs, NEW x \in Paths, RevertPath(p, x) PROVE Told(p)
  BY <1>0, <1>14 DEF RevertPath, CalmRun
<1>15. ASSUME NEW p \in Procs, Rerun(p) PROVE Told(p)
  <2>1. run[p].pc \in {"returned", "raised"} /\ run[p].n < 1
    BY <1>15 DEF Rerun, At, Calm
  <2>2. run[p].n = 1
    BY <1>0, <2>1 DEF CalmRun, Active
  <2> QED
    BY <2>1, <2>2
<1>16. ASSUME NEW p \in Procs, ZombieEnds(p) PROVE Told(p)
  BY <1>0, <1>16 DEF ZombieEnds
<1>17. ASSUME NEW p \in Procs, UNCHANGED vars PROVE Told(p)
  <2>1. UNCHANGED <<disk, rows, stored, deltas, run, origin>>
    BY <1>17 DEF vars
  <2>2. Story' = Story
    BY <2>1, StorySame
  <2>3. Tells(run[p], rows, stored, disk, deltas, Story)
    BY <1>0
  <2> QED
    BY <2>1, <2>2, <2>3
<1>18. ASSUME NEW x \in Paths, NEW c \in Contents \cup {Absent}, HostWrites(x, c)
       PROVE  FALSE
  BY <1>18 DEF HostWrites, Calm
<1>19. ASSUME NEW p \in Procs, Step(p) \/ Crash(p) PROVE Told(p)
  BY <1>2, <1>3, <1>4, <1>5, <1>6, <1>7, <1>8, <1>9, <1>10, <1>11, <1>12, <1>13, <1>14,
     <1>15, <1>16, <1>19 DEF Step
<1> HIDE DEF Told
<1>20. \A p \in Procs : Told(p)
  BY <1>0, <1>17, <1>18, <1>19 DEF Next
<1> QED
  BY <1>20 DEF Told

LEMMA TellInit == ASSUME Calm PROVE Init => TellInv
<1> SUFFICES ASSUME Init, NEW p \in Procs
             PROVE  Tells(run[p], rows, stored, disk, deltas, Story)
  BY DEF TellInv
<1>1. run[p].pc = "down"
  BY FreshType DEF Init, Labels
<1>2. \A d \in Ids : ~Open(rows, d)
  BY DEF Init, Open
<1>3. Same(disk, Story)
  BY DEF Init, Same, Story, Replayed
<1> QED
  BY <1>1, <1>2, <1>3 DEF Tells, Cut, InRun

\* The history explains the workspace: between delegations, with no row left to
\* reconcile, replaying the deltas over the workspace as it was at first gives
\* what is on disk, after interrupted runs and after crashes that no row with its
\* end hides.
THEOREM HistoryIsExplained == Calm /\ Spec => []HistoryExplains
<1> SUFFICES ASSUME Calm PROVE Spec => []HistoryExplains
  OBVIOUS
<1>1. TellInv => HistoryExplains
  <2> SUFFICES ASSUME TellInv, Quiet, Orphans = {}, ~torn, NEW x \in Paths
               PROVE  disk[x] = Replayed(x)
    BY DEF HistoryExplains
  <2>1. PICK p \in Procs : TRUE
    BY DEF Calm
  <2>2. Tells(run[p], rows, stored, disk, deltas, Story) /\ run[p].pc = "idle"
    BY DEF TellInv, Quiet, At
  <2>3. NoneBut(rows, run[p].del)
    BY DEF NoneBut, Open, Orphans
  <2>4. Same(disk, Story)
    BY <2>2, <2>3 DEF Tells, InRun
  <2> QED
    BY <2>4 DEF Same, Story
<1>2. Init => CalmInv
  BY CalmInit
<1>3. Init => TellInv
  BY TellInit
<1>4. Init => LimboInv
  BY DEF Init, LimboInv
<1>5. TypeInv /\ KeysInv /\ LimboInv /\ [Next]_vars => LimboInv'
  BY LimboStep DEF Calm
<1>6. TypeInv /\ KeysInv /\ StandInv /\ [Next]_vars => StandInv'
  BY StandStep DEF Calm
<1>7. TypeInv /\ KeysInv /\ StandInv /\ StandInv' /\ CalmInv /\ [Next]_vars => CalmInv'
  BY CalmStep
<1>8. (/\ TypeInv /\ KeysInv /\ LimboInv /\ StandInv /\ CalmInv /\ CalmInv' /\ TellInv
       /\ [Next]_vars)
         => TellInv'
  BY TellStep
<1> HIDE DEF TypeInv, KeysInv, LimboInv, StandInv, CalmInv, TellInv, Init, Next, vars,
             HistoryExplains
<1> QED
  BY TypeInit, TypeStep, KeysInit, KeysStep, StandInit, <1>1, <1>2, <1>3, <1>4, <1>5,
     <1>6, <1>7, <1>8, PTL DEF Spec
=============================================================================
