--------------------------- MODULE RecordsProofs ---------------------------
(***************************************************************************)
(* Theorems about what surrounds a delegation as it is checked, side by    *)
(* side: the indexes and the trace file, and with ServicesProofs the data, *)
(* the servers and the sessions, for every set of files, delegations and   *)
(* threads.                                                                *)
(***************************************************************************)
EXTENDS MCServices, ServicesProofs, FiniteSetTheorems, WellFoundedInduction

-----------------------------------------------------------------------------
(***************************************************************************)
(* Bounded sets of naturals have a least and a greatest element.           *)
(***************************************************************************)
LEMMA LeastNatural ==
    ASSUME NEW T, T \subseteq Nat, T # {}
    PROVE  \E x \in T : \A y \in T : x <= y
<1> DEFINE R == OpToRel(<, Nat)
<1>1. IsWellFoundedOn(R, Nat)
    BY NatLessThanWellFounded
<1>2. \A x, y \in Nat : <<y, x>> \in R <=> y < x
    BY DEF OpToRel
<1> HIDE DEF R
<1>3. PICK x \in T : \A y \in T : ~(<<y, x>> \in R)
    BY <1>1, WFMin
<1>4. ASSUME NEW y \in T PROVE x <= y
    <2>1. ~(y < x) /\ x \in Nat /\ y \in Nat
        BY <1>2, <1>3
    <2> QED
        BY <2>1
<1> QED
    BY <1>4

LEMMA GreatestNatural ==
    ASSUME NEW T, T \subseteq Nat, T # {}, NEW n \in Nat, \A t \in T : t <= n
    PROVE  Max(T) \in T /\ \A t \in T : t <= Max(T)
<1> DEFINE D == {n - t : t \in T}
<1>1. D \subseteq Nat /\ D # {}
    <2>1. \A t \in T : n - t \in Nat
        OBVIOUS
    <2>2. PICK t \in T : TRUE
        OBVIOUS
    <2>3. n - t \in D
        OBVIOUS
    <2> QED
        BY <2>1, <2>3
<1>2. PICK x \in D : \A y \in D : x <= y
    <2> HIDE DEF D
    <2> QED
        BY <1>1, LeastNatural
<1>3. PICK m \in T : x = n - m
    OBVIOUS
<1>4. ASSUME NEW t \in T PROVE t <= m
    <2>1. n - m <= n - t
        BY <1>2, <1>3
    <2>2. t \in Nat /\ m \in Nat
        OBVIOUS
    <2> HIDE DEF D
    <2> QED
        BY <2>1, <2>2
<1>5. \A t \in T : t \in Nat
    OBVIOUS
<1> HIDE DEF D
<1> QED
    BY <1>4, <1>5 DEF Max

-----------------------------------------------------------------------------
(***************************************************************************)
(* The index of delegations.                                               *)
(***************************************************************************)
\* The inductive invariant behind EntriesHaveOutcomes: a delegation is filed
\* after its end, and what `rag index' holds of an open row it overtook.
EntriesInv ==
    /\ history \in [Filed -> {"none", "open", "ended"}]
    /\ filing \in [Filed -> {"running", "ended", "filed", "gone"}]
    /\ entry \in [Filed -> {"none", "open", "ended"}]
    /\ \A d \in Filed : filing[d] \in {"ended", "filed"} => history[d] = "ended"
    /\ \A r \in backfill.rows \union backfill.missing :
         r[2] = "ended" \/ (r[2] = "open" /\ r[1] \in overtaken)
    /\ EntriesHaveOutcomes

LEMMA EntriesStart == EntriesInit => EntriesInv
    BY DEF EntriesInit, EntriesInv, EntriesHaveOutcomes, NoBackfill

LEMMA EntriesAreInductive == EntriesInv /\ [EntriesNext]_entriesVars => EntriesInv'
<1> SUFFICES ASSUME EntriesInv, [EntriesNext]_entriesVars PROVE EntriesInv'
    OBVIOUS
<1> USE DEF EntriesInv, EntriesHaveOutcomes
<1>1. CASE UNCHANGED entriesVars
    BY <1>1 DEF entriesVars
<1>2. ASSUME NEW d \in Filed, BeginRow(d) \/ EndRow(d) \/ CrashAndReconcile(d) PROVE EntriesInv'
    BY <1>2 DEF BeginRow, EndRow, CrashAndReconcile
<1>3. ASSUME NEW d \in Filed, NEW works \in BOOLEAN, FileEntry(d, works) PROVE EntriesInv'
    BY <1>3 DEF FileEntry
<1>4. CASE ReadHistory
    BY <1>4 DEF ReadHistory, NoBackfill
<1>5. ASSUME NEW r \in Filed \X {"open", "ended"}, FindMissing(r) \/ AddMissing(r) PROVE EntriesInv'
    <2>1. CASE FindMissing(r)
        BY <1>5, <2>1 DEF FindMissing
    <2>2. CASE AddMissing(r)
        BY <1>5, <2>2 DEF AddMissing
    <2> QED
        BY <1>5, <2>1, <2>2
<1> QED
    BY <1>1, <1>2, <1>3, <1>4, <1>5 DEF EntriesNext

-----------------------------------------------------------------------------
(***************************************************************************)
(* The index of files.                                                     *)
(***************************************************************************)
Summary == Texts \union {NoText}
RowOf == [number : 0 .. MaxWrites, sha : Texts \union {Absent}, text : Summary]
IndexerOf ==
    [at : {"idle", "compare", "index", "upsert", "delete"}, changed : BOOLEAN, limit : Nat,
     manifest : [Indexed -> Texts \union {Absent}], left : SUBSET Indexed, todo : SUBSET Indexed,
     now : SUBSET Indexed, row : RowOf]

FilesTyped ==
    /\ disk \in [Indexed -> Texts \union {Absent}]
    /\ row \in [Indexed -> RowOf]
    /\ words \subseteq (1 .. MaxWrites) \X Indexed \X Summary
    /\ indexer \in [Indexers -> IndexerOf]
    /\ writes \in 0 .. MaxWrites /\ raced \subseteq Indexed
    /\ disturbed \in BOOLEAN /\ synced \in BOOLEAN /\ pruned \in BOOLEAN

\* No row has a number above the writes; until a row was deleted, a word is
\* of the row of its number or of one replaced by a row of a higher number.
NumbersGrow ==
    /\ \A p \in Indexed : row[p].number <= writes
    /\ \A p \in InIndex : <<row[p].number, p, row[p].text>> \in words
    /\ ~pruned => \A w \in words :
         /\ \E q \in Indexed : w[1] <= row[q].number
         /\ \A p \in InIndex : row[p].number = w[1] => w[2] = p /\ w[3] = row[p].text

\* What a running indexer holds of a path nobody edited meanwhile is so.
Holding(k) ==
    k.at # "idle" =>
        /\ \A p \in Indexed \ raced : k.manifest[p] = disk[p]
        /\ k.at = "compare" => k.left # {}
        /\ k.at \in {"compare", "index"} => k.now = {}
        /\ k.at = "upsert" => \A p \in k.now :
             /\ k.now = {p} /\ k.row.sha = k.manifest[p]
             /\ p \notin raced => k.row.text \in {k.row.sha, NoText}

\* Unless it was disturbed, a full run has seen the workspace as it is, and
\* each file is in the index by its hash or still to do; at its end it knows
\* the rows without files.
SeesAll(k) ==
    k.at # "idle" =>
        /\ k.manifest = disk
        /\ \A p \in Present(disk) :
             p \in k.left \union k.todo \union k.now \/ (p \in InIndex /\ row[p].sha = disk[p])
        /\ k.at = "delete" => k.todo = {} /\ k.now = InIndex \ Present(disk)

\* The inductive invariant behind the index of files.
FilesInv ==
    /\ FilesTyped /\ NumbersGrow
    /\ \A i \in Indexers : Holding(indexer[i])
    /\ ~disturbed => SeesAll(indexer[Command])
    /\ IndexMirrors /\ HashOfItsText

LEMMA IndexBounds ==
    /\ Absent \notin Texts /\ NoText \notin Texts /\ Hook # Command /\ FileCount \in Nat
    /\ Limits \subseteq Nat \ {0} /\ MaxWrites \in Nat /\ MaxEdits \in Nat
    BY IndexAssumption

LEMMA NothingIsTyped == NoRow \in RowOf /\ Waiting \in IndexerOf
<1>1. NoRow \in RowOf
    BY IndexBounds DEF NoRow, RowOf, Summary
<1> QED
    BY <1>1 DEF Waiting, IndexerOf

LEMMA FilesStart == FilesInit => FilesInv
<1> SUFFICES ASSUME FilesInit PROVE FilesInv
    OBVIOUS
<1>1. FilesTyped
    <2>1. row \in [Indexed -> RowOf] /\ indexer \in [Indexers -> IndexerOf]
        BY NothingIsTyped DEF FilesInit
    <2>2. writes \in 0 .. MaxWrites
        BY IndexBounds DEF FilesInit
    <2> QED
        BY <2>1, <2>2 DEF FilesInit, FilesTyped
<1>2. NumbersGrow /\ HashOfItsText
    BY DEF FilesInit, NumbersGrow, HashOfItsText, InIndex, NoRow
<1>3. \A i \in Indexers : indexer[i].at = "idle"
    BY DEF FilesInit, Waiting
<1>4. SeesAll(indexer[Command]) /\ IndexMirrors
    BY <1>3 DEF FilesInit, SeesAll, IndexMirrors, Indexers
<1> QED
    BY <1>1, <1>2, <1>3, <1>4 DEF FilesInv, Holding

LEMMA EditKeeps ==
    ASSUME FilesInv, NEW p \in Indexed, NEW text \in Texts \union {Absent}, Edit(p, text)
    PROVE  FilesInv'
<1>1. /\ disk' = [disk EXCEPT ![p] = text] /\ synced' = FALSE
      /\ \A q \in Indexed \ {p} : disk'[q] = disk[q]
      /\ UNCHANGED <<row, words, indexer, writes, pruned>>
    BY DEF Edit, FilesInv, FilesTyped
<1>2. disturbed' = (disturbed \/ indexer[Command].at # "idle")
    BY DEF Edit
<1>3. raced \subseteq raced' /\ raced' \subseteq Indexed
      /\ \A i \in Indexers : indexer[i].at # "idle" => p \in raced'
    BY DEF Edit, FilesInv, FilesTyped
<1>4. FilesTyped'
    BY <1>1, <1>2, <1>3 DEF FilesInv, FilesTyped
<1>5. NumbersGrow'
    BY <1>1 DEF FilesInv, NumbersGrow, InIndex
<1>6. HashOfItsText' /\ IndexMirrors'
    BY <1>1, <1>3 DEF FilesInv, HashOfItsText, IndexMirrors, InIndex
<1>7. ~disturbed' => SeesAll(indexer[Command])'
    BY <1>1, <1>2 DEF SeesAll
<1>8. ASSUME NEW i \in Indexers PROVE Holding(indexer[i])'
    BY <1>1, <1>3 DEF FilesInv, Holding
<1> QED
    BY <1>4, <1>5, <1>6, <1>7, <1>8 DEF FilesInv

\* An indexer goes on, and writes nothing.
LEMMA IndexerGoesOn ==
    ASSUME FilesInv, NEW i \in Indexers, NEW k \in IndexerOf,
           indexer' = [indexer EXCEPT ![i] = k],
           UNCHANGED <<disk, row, words, writes, raced, synced, pruned>>,
           disturbed' = disturbed \/ disturbed' = (disturbed /\ i # Command),
           Holding(k),
           i = Command /\ ~disturbed' => SeesAll(k)
    PROVE  FilesInv'
<1>1. indexer'[i] = k /\ \A j \in Indexers \ {i} : indexer'[j] = indexer[j]
    BY DEF FilesInv, FilesTyped
<1>2. FilesTyped'
    BY DEF FilesInv, FilesTyped
<1>3. NumbersGrow' /\ HashOfItsText' /\ IndexMirrors'
    BY DEF FilesInv, NumbersGrow, InIndex, HashOfItsText, IndexMirrors
<1>4. ~disturbed' => SeesAll(indexer[Command])'
    <2>1. CASE i = Command
        BY <1>1, <2>1 DEF SeesAll, InIndex, Present
    <2>2. CASE i # Command
        <3>1. disturbed' = disturbed /\ indexer'[Command] = indexer[Command]
            BY <1>1, <2>2 DEF Indexers, FilesInv, FilesTyped
        <3> QED
            BY <3>1 DEF FilesInv, SeesAll, InIndex, Present
    <2> QED
        BY <2>1, <2>2
<1>5. ASSUME NEW j \in Indexers PROVE Holding(indexer[j])'
    BY <1>1 DEF FilesInv, Holding
<1> QED
    BY <1>2, <1>3, <1>4, <1>5 DEF FilesInv

\* A full run takes the first of the paths.
LEMMA TurnsAreOfPaths ==
    ASSUME NEW i, NEW paths \in SUBSET Indexed, paths # {}
    PROVE  Turns(i, paths) \subseteq paths
<1>1. paths \subseteq Nat
    BY DEF Indexed
<1>2. PICK x \in paths : \A y \in paths : x <= y
    BY <1>1, LeastNatural
<1>3. Min(paths) \in paths
    BY <1>2 DEF Min
<1> QED
    BY <1>3 DEF Turns

\* What Compared leaves alone.
LEMMA ComparedKeeps ==
    ASSUME NEW w \in IndexerOf, w.at = "compare"
    PROVE  /\ Compared(w) \in IndexerOf /\ Compared(w).at \in {"compare", "index"}
           /\ Compared(w).manifest = w.manifest
           /\ Compared(w).at = "compare" => w.left # {}
           /\ Compared(w).left = w.left /\ Compared(w).todo = w.todo /\ Compared(w).now = w.now
    BY DEF Compared, IndexerOf

LEMMA WalkKeeps ==
    ASSUME FilesInv, NEW i \in Indexers, NEW paths \in SUBSET Indexed, NEW changed \in BOOLEAN,
           NEW limit \in Limits, Walk(i, paths, changed, limit)
    PROVE  FilesInv'
<1> DEFINE w == [Waiting EXCEPT !.at = "compare", !.changed = changed, !.limit = limit,
                                !.manifest = disk, !.left = paths \cap Present(disk)]
<1>1. w \in IndexerOf /\ w.at = "compare" /\ w.manifest = disk /\ w.left = paths \cap Present(disk)
      /\ w.now = {}
    <2>1. disk \in [Indexed -> Texts \union {Absent}] /\ limit \in Nat /\ NoRow \in RowOf
        BY NothingIsTyped, IndexBounds DEF FilesInv, FilesTyped
    <2> QED
        BY <2>1 DEF Waiting, IndexerOf
<1>2. indexer' = [indexer EXCEPT ![i] = Compared(w)]
    BY DEF Walk
<1>3. i = Command => paths = Indexed
    BY DEF Walk
<1>4. UNCHANGED <<disk, row, words, writes, raced, synced, pruned>> /\ disturbed' = (disturbed /\ i # Command)
    BY DEF Walk
<1> HIDE DEF w
<1>5. Holding(Compared(w))
    BY <1>1, ComparedKeeps DEF Holding
<1>6. i = Command => SeesAll(Compared(w))
    BY <1>1, <1>3, ComparedKeeps DEF SeesAll, Present
<1>7. Compared(w) \in IndexerOf
    BY <1>1, ComparedKeeps
<1> QED
    BY <1>2, <1>4, <1>5, <1>6, <1>7, IndexerGoesOn

LEMMA CompareKeeps == ASSUME FilesInv, NEW i \in Indexers, Compare(i) PROVE FilesInv'
<1>1. indexer[i] \in IndexerOf /\ indexer[i].at = "compare" /\ Holding(indexer[i])
    BY DEF Compare, FilesInv, FilesTyped
<1>2. PICK p \in Turns(i, indexer[i].left) :
        LET known == indexer[i].changed /\ UpToDate(i, p) IN
        indexer' = [indexer EXCEPT ![i] = Compared(
           [indexer[i] EXCEPT !.left = indexer[i].left \ {p},
                              !.todo = indexer[i].todo \union (IF known THEN {} ELSE {p})])]
    BY DEF Compare
<1> DEFINE known == indexer[i].changed /\ UpToDate(i, p)
           w == [indexer[i] EXCEPT !.left = indexer[i].left \ {p},
                                   !.todo = indexer[i].todo \union (IF known THEN {} ELSE {p})]
<1>3. indexer' = [indexer EXCEPT ![i] = Compared(w)]
    BY <1>2
<1>4. p \in Indexed
    BY <1>1, TurnsAreOfPaths DEF Holding, IndexerOf
<1>5. known => p \in InIndex /\ row[p].sha = indexer[i].manifest[p]
    BY DEF UpToDate
<1> HIDE DEF known
<1>6. /\ w \in IndexerOf /\ w.at = "compare" /\ w.manifest = indexer[i].manifest
      /\ w.left = indexer[i].left \ {p} /\ w.now = indexer[i].now
      /\ w.todo = indexer[i].todo \union (IF known THEN {} ELSE {p})
    BY <1>1, <1>4 DEF IndexerOf
<1> HIDE DEF w
<1>7. UNCHANGED <<disk, row, words, writes, raced, synced, pruned>> /\ disturbed' = disturbed
    BY DEF Compare
<1>8. Holding(Compared(w))
    BY <1>1, <1>6, ComparedKeeps DEF Holding
<1>9. i = Command /\ ~disturbed => SeesAll(Compared(w))
    BY <1>1, <1>5, <1>6, ComparedKeeps DEF FilesInv, SeesAll
<1>10. Compared(w) \in IndexerOf
    BY <1>6, ComparedKeeps
<1> QED
    BY <1>3, <1>7, <1>8, <1>9, <1>10, IndexerGoesOn

LEMMA ReadSourceKeeps == ASSUME FilesInv, NEW i \in Indexers, ReadSource(i) PROVE FilesInv'
<1>1. /\ indexer[i] \in IndexerOf /\ indexer[i].at = "index" /\ indexer[i].todo # {}
      /\ Holding(indexer[i])
    BY DEF ReadSource, FilesInv, FilesTyped
<1> DEFINE Reads(p, text) ==
             indexer' = [indexer EXCEPT
               ![i].at = "upsert", ![i].now = {p},
               ![i].todo = @ \ {p},
               ![i].row = [number |-> 0, sha |-> indexer[i].manifest[p], text |-> text]]
<1>2. PICK p \in Turns(i, indexer[i].todo) : \E text \in Summaries(p) : Reads(p, text)
    BY DEF ReadSource
<1>3. PICK text \in Summaries(p) : Reads(p, text)
    BY <1>2
<1>4. p \in indexer[i].todo /\ p \in Indexed
    BY <1>1, TurnsAreOfPaths DEF IndexerOf
<1> DEFINE r == [number |-> 0, sha |-> indexer[i].manifest[p], text |-> text]
           k == [indexer[i] EXCEPT !.at = "upsert", !.now = {p}, !.todo = @ \ {p}, !.row = r]
<1>5. indexer' = [indexer EXCEPT ![i] = k]
    BY <1>3 DEF FilesInv, FilesTyped
<1>6. r \in RowOf /\ r.sha = indexer[i].manifest[p] /\ r.text = text
    BY <1>1, <1>4, IndexBounds DEF RowOf, Summary, Summaries, IndexerOf, FilesInv, FilesTyped
<1> HIDE DEF r
<1>7. /\ k \in IndexerOf /\ k.at = "upsert" /\ k.now = {p} /\ k.todo = indexer[i].todo \ {p} /\ k.row = r
      /\ k.left = indexer[i].left /\ k.manifest = indexer[i].manifest
    BY <1>1, <1>4, <1>6 DEF IndexerOf
<1> HIDE DEF k
<1>8. UNCHANGED <<disk, row, words, writes, raced, synced, pruned>> /\ disturbed' = disturbed
    BY DEF ReadSource
<1>9. Holding(k)
    BY <1>1, <1>4, <1>6, <1>7 DEF Holding, Summaries
<1>10. i = Command /\ ~disturbed => SeesAll(k)
    <2>1. i = Command /\ ~disturbed => SeesAll(indexer[i]) /\ indexer[i].now = {}
        BY <1>1 DEF FilesInv, Holding
    <2> QED
        BY <1>1, <1>7, <2>1 DEF SeesAll
<1> QED
    BY <1>5, <1>7, <1>8, <1>9, <1>10, IndexerGoesOn

LEMMA EndOfLoopKeeps == ASSUME FilesInv, NEW i \in Indexers, EndOfLoop(i) PROVE FilesInv'
<1>1. /\ indexer[i] \in IndexerOf /\ indexer[i].at = "index" /\ indexer[i].todo = {}
      /\ Holding(indexer[i])
      /\ UNCHANGED <<disk, row, words, writes, raced, synced, pruned>> /\ disturbed' = disturbed
    BY DEF EndOfLoop, FilesInv, FilesTyped
<1>2. CASE i = Command
    <2> DEFINE k == [indexer[i] EXCEPT !.at = "delete", !.now = Unseen(i)]
    <2>1. indexer' = [indexer EXCEPT ![i] = k]
        BY <1>2 DEF EndOfLoop
    <2>2. /\ k \in IndexerOf /\ k.at = "delete" /\ k.now = InIndex \ Present(k.manifest)
          /\ k.todo = {} /\ k.left = indexer[i].left /\ k.manifest = indexer[i].manifest
        BY <1>1 DEF IndexerOf, Unseen, InIndex
    <2> HIDE DEF k
    <2>3. Holding(k)
        BY <1>1, <2>2 DEF Holding
    <2>4. ~disturbed => SeesAll(k)
        <3>1. ~disturbed => SeesAll(indexer[i]) /\ indexer[i].now = {}
            BY <1>1, <1>2 DEF FilesInv, Holding
        <3> QED
            BY <1>1, <2>2, <3>1 DEF SeesAll
    <2> QED
        BY <1>1, <2>1, <2>2, <2>3, <2>4, IndexerGoesOn
<1>3. CASE i # Command
    <2>1. indexer' = [indexer EXCEPT ![i] = Waiting]
        BY <1>3 DEF EndOfLoop
    <2>2. Holding(Waiting)
        BY DEF Holding, Waiting
    <2> QED
        BY <1>1, <1>3, <2>1, <2>2, NothingIsTyped, IndexerGoesOn
<1> QED
    BY <1>2, <1>3

LEMMA InterruptKeeps == ASSUME FilesInv, NEW i \in Indexers, Interrupt(i) PROVE FilesInv'
<1>1. /\ indexer' = [indexer EXCEPT ![i] = Waiting]
      /\ UNCHANGED <<disk, row, words, writes, raced, synced, pruned>>
      /\ disturbed' = (disturbed /\ i # Command)
    BY DEF Interrupt
<1>2. Holding(Waiting) /\ SeesAll(Waiting)
    BY DEF Holding, SeesAll, Waiting
<1> QED
    BY <1>1, <1>2, NothingIsTyped, IndexerGoesOn

\* The new row has the highest number, and one above the writes before.
LEMMA NewNumbers ==
    ASSUME FilesInv, NEW p \in Indexed, writes < MaxWrites
    PROVE  /\ NewNumber \in 1 .. MaxWrites /\ NewNumber <= writes + 1
           /\ \A q \in Indexed : row[q].number < NewNumber
<1> DEFINE T == {row[q].number : q \in Indexed}
<1>1. \A q \in Indexed : row[q].number \in Nat /\ row[q].number <= writes
    BY IndexBounds DEF FilesInv, FilesTyped, NumbersGrow, RowOf
<1>2. T \subseteq Nat /\ T # {} /\ (\A t \in T : t <= writes) /\ writes \in Nat
    BY <1>1, IndexBounds DEF FilesInv, FilesTyped
<1>3. NewNumber = Max(T) + 1
    BY DEF NewNumber
<1>4. \A q \in Indexed : row[q].number \in T
    OBVIOUS
<1> HIDE DEF T
<1>5. Max(T) \in T /\ \A t \in T : t <= Max(T)
    BY <1>2, GreatestNatural
<1>6. Max(T) \in Nat /\ Max(T) <= writes
    BY <1>2, <1>5
<1>7. ASSUME NEW q \in Indexed PROVE row[q].number < NewNumber
    BY <1>1, <1>3, <1>4, <1>5, <1>6
<1> QED
    BY <1>3, <1>6, <1>7, IndexBounds DEF FilesInv, FilesTyped

LEMMA UpsertKeeps == ASSUME FilesInv, NEW i \in Indexers, NEW p \in Indexed, Upsert(i, p) PROVE FilesInv'
<1> DEFINE r == [indexer[i].row EXCEPT !.number = NewNumber]
           k == [indexer[i] EXCEPT !.at = "index", !.now = {}, !.row = NoRow]
<1>1. /\ indexer[i] \in IndexerOf /\ indexer[i].at = "upsert" /\ p \in indexer[i].now
      /\ Holding(indexer[i]) /\ writes \in Nat /\ writes < MaxWrites /\ MaxWrites \in Nat
    BY IndexBounds DEF Upsert, FilesInv, FilesTyped
<1>2. /\ NewNumber \in 1 .. MaxWrites /\ NewNumber <= writes + 1
      /\ \A q \in Indexed : row[q].number < NewNumber
    BY <1>1, NewNumbers
<1>3. /\ r \in RowOf /\ r.number = NewNumber /\ r.sha = indexer[i].manifest[p]
      /\ r.text = indexer[i].row.text /\ r.text \in Summary
      /\ indexer[i].now = {p} /\ (p \notin raced => r.text \in {r.sha, NoText})
    BY <1>1, <1>2 DEF IndexerOf, RowOf, Holding
<1>4. /\ row' = [row EXCEPT ![p] = r] /\ writes' = writes + 1
      /\ words' = words \union {<<r.number, p, r.text>>}
      /\ synced' = FALSE /\ disturbed' = (disturbed \/ Beside(i))
      /\ UNCHANGED <<disk, raced, pruned>>
    BY <1>3 DEF Upsert
<1>5. indexer' = [indexer EXCEPT ![i] = k]
    BY DEF Upsert, FilesInv, FilesTyped
<1>6. /\ k \in IndexerOf /\ k.at = "index" /\ k.now = {} /\ k.todo = indexer[i].todo
      /\ k.left = indexer[i].left /\ k.manifest = indexer[i].manifest
    BY <1>1, NothingIsTyped DEF IndexerOf
<1> HIDE DEF r, k
<1>7. row'[p] = r /\ \A q \in Indexed \ {p} : row'[q] = row[q]
    BY <1>4 DEF FilesInv, FilesTyped
<1>8. indexer'[i] = k /\ \A j \in Indexers \ {i} : indexer'[j] = indexer[j]
    BY <1>5 DEF FilesInv, FilesTyped
<1>9. FilesTyped'
    <2>1. row' \in [Indexed -> RowOf] /\ indexer' \in [Indexers -> IndexerOf]
        BY <1>3, <1>4, <1>5, <1>6 DEF FilesInv, FilesTyped
    <2>2. writes' \in 0 .. MaxWrites
        BY <1>1, <1>4
    <2>3. words' \subseteq (1 .. MaxWrites) \X Indexed \X Summary
        BY <1>2, <1>3, <1>4 DEF FilesInv, FilesTyped
    <2>4. disturbed' \in BOOLEAN /\ synced' \in BOOLEAN
        BY <1>4
    <2> QED
        BY <1>4, <2>1, <2>2, <2>3, <2>4 DEF FilesInv, FilesTyped
<1>10. \A q \in Indexed : row[q].number \in Nat
    BY IndexBounds DEF FilesInv, FilesTyped, RowOf
<1>11. \A q \in Indexed : q \in InIndex' <=> q = p \/ q \in InIndex
    BY <1>2, <1>3, <1>7 DEF InIndex
<1>12. NumbersGrow'
    <2>1. ASSUME NEW q \in Indexed PROVE row'[q].number <= writes'
        BY <1>1, <1>2, <1>3, <1>4, <1>7, <1>10 DEF FilesInv, NumbersGrow
    <2>2. ASSUME NEW q \in InIndex' PROVE <<row'[q].number, q, row'[q].text>> \in words'
        BY <1>4, <1>7, <1>11 DEF FilesInv, NumbersGrow, InIndex
    <2>3. ASSUME ~pruned', NEW w \in words'
          PROVE  /\ \E q \in Indexed : w[1] <= row'[q].number
                 /\ \A q \in InIndex' : row'[q].number = w[1] => w[2] = q /\ w[3] = row'[q].text
        <3>1. CASE w = <<r.number, p, r.text>>
            <4>1. w[1] = NewNumber /\ w[2] = p /\ w[3] = r.text
                BY <1>3, <3>1
            <4>2. ASSUME NEW q \in InIndex', q # p PROVE row'[q].number # NewNumber
                BY <1>2, <1>7, <1>10, <4>2 DEF InIndex
            <4> QED
                BY <1>2, <1>3, <1>7, <4>1, <4>2
        <3>2. CASE w \in words
            <4>1. PICK q \in Indexed : w[1] <= row[q].number
                BY <1>4, <2>3, <3>2 DEF FilesInv, NumbersGrow
            <4>2. w[1] \in Nat
                BY <3>2 DEF FilesInv, FilesTyped
            <4>3. w[1] < NewNumber
                BY <1>2, <1>10, <4>1, <4>2
            <4>4. w[1] <= row'[p].number
                BY <1>2, <1>3, <1>7, <4>2, <4>3
            <4>5. ASSUME NEW x \in InIndex', row'[x].number = w[1] PROVE w[2] = x /\ w[3] = row'[x].text
                <5>1. x # p
                    BY <1>2, <1>3, <1>7, <4>2, <4>3, <4>5
                <5>2. x \in InIndex /\ row'[x] = row[x]
                    BY <1>7, <1>11, <5>1 DEF InIndex
                <5> QED
                    BY <1>4, <2>3, <3>2, <4>5, <5>2 DEF FilesInv, NumbersGrow
            <4> QED
                BY <4>4, <4>5
        <3> QED
            BY <1>4, <2>3, <3>1, <3>2
    <2> QED
        BY <2>1, <2>2, <2>3 DEF NumbersGrow
<1>13. HashOfItsText' /\ IndexMirrors'
    <2>1. ASSUME NEW q \in InIndex' \ raced' PROVE row'[q].text \in {row'[q].sha, NoText}
        <3>1. q \in Indexed /\ q \notin raced
            BY <1>4 DEF InIndex
        <3> QED
            BY <1>3, <1>7, <1>11, <3>1 DEF FilesInv, HashOfItsText
    <2> QED
        BY <1>4, <2>1 DEF HashOfItsText, IndexMirrors
<1>14. ASSUME NEW j \in Indexers PROVE Holding(indexer[j])'
    <2>1. CASE j = i
        BY <1>1, <1>4, <1>6, <1>8, <2>1 DEF Holding
    <2>2. CASE j # i
        BY <1>4, <1>8, <2>2 DEF FilesInv, Holding
    <2> QED
        BY <2>1, <2>2
<1>15. ~disturbed' => SeesAll(indexer[Command])'
    <2>1. CASE i = Command
        <3>1. ~disturbed' => SeesAll(indexer[i])
            BY <1>4, <2>1 DEF FilesInv
        <3>2. ~disturbed' => r.sha = disk[p]
            BY <1>1, <1>3, <3>1 DEF SeesAll
        <3> QED
            BY <1>1, <1>3, <1>4, <1>6, <1>7, <1>8, <1>11, <2>1, <3>1, <3>2 DEF SeesAll, Present
    <2>2. CASE i # Command
        <3>1. i = Hook /\ indexer'[Command] = indexer[Command]
            BY <1>8, <2>2 DEF Indexers
        <3> QED
            BY <1>4, <3>1 DEF Beside, SeesAll
    <2> QED
        BY <2>1, <2>2
<1> QED
    BY <1>9, <1>12, <1>13, <1>14, <1>15 DEF FilesInv

LEMMA DeleteStaleKeeps == FilesInv /\ DeleteStale => FilesInv'
<1> SUFFICES ASSUME FilesInv, DeleteStale PROVE FilesInv'
    OBVIOUS
<1> DEFINE gone == indexer[Command].now \cap InIndex
<1>1. /\ row' = [q \in Indexed |-> IF q \in gone THEN NoRow ELSE row[q]]
      /\ words' = words \ {<<row[q].number, q, row[q].text>> : q \in gone}
      /\ pruned' = (pruned \/ gone # {})
      /\ synced' = (~disturbed /\ indexer[Command].left = {}) /\ disturbed' = FALSE
      /\ indexer' = [indexer EXCEPT ![Command] = Waiting]
      /\ UNCHANGED <<disk, writes, raced>>
    BY DEF DeleteStale
<1>2. gone \subseteq InIndex /\ Command \in Indexers
    BY DEF Indexers
<1>3. \A q \in Indexed : q \in InIndex' <=> q \in InIndex \ gone
    BY <1>1 DEF InIndex, NoRow
<1>4. \A q \in InIndex' : row'[q] = row[q] /\ q \in InIndex /\ q \notin gone
    BY <1>1, <1>3 DEF InIndex
<1>5. FilesTyped'
    <2>1. row' \in [Indexed -> RowOf] /\ indexer' \in [Indexers -> IndexerOf]
        BY <1>1, NothingIsTyped DEF FilesInv, FilesTyped
    <2>2. pruned' \in BOOLEAN /\ synced' \in BOOLEAN /\ disturbed' \in BOOLEAN
        BY <1>1
    <2> QED
        BY <1>1, <2>1, <2>2 DEF FilesInv, FilesTyped
<1>6. NumbersGrow'
    <2>1. ASSUME NEW q \in Indexed PROVE row'[q].number <= writes'
        BY <1>1, IndexBounds DEF FilesInv, FilesTyped, NumbersGrow, NoRow
    <2>2. ASSUME NEW q \in InIndex' PROVE <<row'[q].number, q, row'[q].text>> \in words'
        BY <1>1, <1>4 DEF FilesInv, NumbersGrow
    <2>3. ~pruned' => row' = row /\ words' \subseteq words /\ ~pruned
        BY <1>1 DEF FilesInv, FilesTyped
    <2> QED
        BY <2>1, <2>2, <2>3 DEF FilesInv, NumbersGrow, InIndex
<1>7. HashOfItsText'
    BY <1>1, <1>4 DEF FilesInv, HashOfItsText
<1>8. IndexMirrors'
    <2>1. SUFFICES ASSUME ~disturbed, indexer[Command].left = {}, NEW p \in Indexed
                   PROVE  IF disk[p] = Absent THEN p \notin InIndex' ELSE p \in InIndex' /\ row'[p].sha = disk[p]
        BY <1>1 DEF IndexMirrors
    <2>2. SeesAll(indexer[Command]) /\ indexer[Command].at = "delete"
        BY <2>1 DEF FilesInv, DeleteStale
    <2> QED
        BY <1>3, <1>4, <2>1, <2>2 DEF SeesAll, Present
<1>9. indexer'[Command] = Waiting /\ \A j \in Indexers \ {Command} : indexer'[j] = indexer[j]
    BY <1>1, <1>2 DEF FilesInv, FilesTyped
<1>10. ASSUME NEW j \in Indexers PROVE Holding(indexer[j])'
    BY <1>1, <1>9 DEF FilesInv, Holding, Waiting
<1>11. SeesAll(indexer[Command])'
    BY <1>9 DEF SeesAll, Waiting
<1> QED
    BY <1>5, <1>6, <1>7, <1>8, <1>10, <1>11 DEF FilesInv

LEMMA FilesAreInductive == FilesInv /\ [FilesNext]_filesVars => FilesInv'
<1>1. CASE UNCHANGED filesVars
    BY <1>1 DEF filesVars, FilesInv, FilesTyped, NumbersGrow, Holding, SeesAll, IndexMirrors, HashOfItsText,
                InIndex, Present
<1>2. CASE FilesNext
    BY <1>2, EditKeeps, WalkKeeps, CompareKeeps, ReadSourceKeeps, UpsertKeeps, EndOfLoopKeeps,
       InterruptKeeps, DeleteStaleKeeps
    DEF FilesNext
<1> QED
    BY <1>1, <1>2

LEMMA FilesAreSound == FilesInv => IndexMirrors /\ HashOfItsText /\ FoundByOwnText
<1>1. ASSUME FilesInv, ~pruned, NEW w \in words, NEW p \in Hits(w[2], w[3]), row[p].number = w[1]
      PROVE  w[2] = p /\ w[3] = row[p].text
    BY <1>1 DEF FilesInv, NumbersGrow, Hits
<1>2. ASSUME FilesInv, NEW p \in InIndex PROVE p \in Hits(p, row[p].text)
    BY <1>2 DEF FilesInv, NumbersGrow, Hits
<1> QED
    BY <1>1, <1>2 DEF FilesInv, FoundByOwnText

-----------------------------------------------------------------------------
(***************************************************************************)
(* The trace file.                                                         *)
(***************************************************************************)
Record == {Plain, Hashed, Torn} \union {Line(n) : n \in 1 .. MaxRecords}

TraceTyped ==
    /\ trace \in Seq(Record) /\ copy \in Seq(Record)
    /\ writer \in [Writers -> {"idle", "header", "line"}]
    /\ carries \in [Writers -> 0 .. MaxRecords]
    /\ rewrite \in {"no", "read", "truncated"} /\ annotated \in BOOLEAN
    /\ recorded \in 0 .. MaxRecords /\ lost \subseteq 1 .. MaxRecords

\* A file that is not being rewritten begins with its header, or is new: then
\* no thread is past its look at it.
HeaderFirst ==
    rewrite # "truncated" =>
        IF trace = <<>> THEN ~annotated /\ \A w \in Writers : writer[w] # "line"
                        ELSE HeaderLeads

\* What the handler has read begins with the header it will write.
CopyLeads == rewrite # "no" => copy # <<>> /\ copy[1] = Hashed

\* A thread that is to append a line carries its number.
Numbers == \A w \in Writers : writer[w] # "idle" => carries[w] \in 1 .. recorded

Found(lineNumbers) ==
    \A n \in 1 .. recorded :
        (\A w \in Writers : writer[w] # "idle" => carries[w] # n) => n \in lineNumbers

\* The lines that were appended are in the file, or lost, until the file is
\* emptied, and are in the copy, or lost, until it is written.
Surviving ==
    /\ rewrite # "truncated" => Found(lost \union {trace[i].n : i \in DOMAIN trace})
    /\ rewrite # "no" => Found(lost \union {copy[i].n : i \in DOMAIN copy})

\* The inductive invariant behind TraceKept.
TraceInv == TraceTyped /\ HeaderFirst /\ CopyLeads /\ Numbers /\ Surviving

LEMMA TraceBounds == Handling \in Writers /\ MaxRecords \in Nat
    BY WritersAssumption

LEMMA TraceStarts == TraceInit => TraceInv
<1> SUFFICES ASSUME TraceInit PROVE TraceInv
    OBVIOUS
<1>1. TraceTyped
    <2>1. trace \in Seq(Record) /\ copy \in Seq(Record)
        BY DEF TraceInit
    <2>2. 0 \in 0 .. MaxRecords
        BY TraceBounds
    <2> QED
        BY <2>1, <2>2 DEF TraceInit, TraceTyped
<1>2. HeaderFirst /\ CopyLeads /\ Numbers
    BY DEF TraceInit, HeaderFirst, CopyLeads, Numbers
<1>3. recorded = 0
    BY DEF TraceInit
<1>4. Surviving
    BY <1>3 DEF Surviving, Found
<1> QED
    BY <1>1, <1>2, <1>4 DEF TraceInv

\* What is appended to a sequence of records.
LEMMA RecordAppended ==
    ASSUME NEW s \in Seq(Record), NEW e \in Record
    PROVE  /\ Append(s, e) \in Seq(Record) /\ Append(s, e) # <<>>
           /\ Append(s, e)[1] = IF s = <<>> THEN e ELSE s[1]
           /\ {Append(s, e)[i].n : i \in DOMAIN Append(s, e)} = {s[i].n : i \in DOMAIN s} \union {e.n}
<1>1. /\ Append(s, e) \in Seq(Record) /\ Len(Append(s, e)) = Len(s) + 1 /\ Len(s) \in Nat
      /\ DOMAIN Append(s, e) = 1 .. Len(s) + 1 /\ DOMAIN s = 1 .. Len(s)
      /\ \A i \in 1 .. Len(s) : Append(s, e)[i] = s[i]
      /\ Append(s, e)[Len(s) + 1] = e
    OBVIOUS
<1>2. Append(s, e)[1] = IF s = <<>> THEN e ELSE s[1]
    BY <1>1
<1> DEFINE t == Append(s, e)
           n == Len(s)
<1> HIDE DEF t, n
<1>3. n \in Nat /\ DOMAIN t = 1 .. n + 1 /\ DOMAIN s = 1 .. n /\ (\A i \in 1 .. n : t[i] = s[i]) /\ t[n + 1] = e
    BY <1>1 DEF t, n
<1>4. ASSUME NEW i \in DOMAIN t PROVE t[i].n \in {s[j].n : j \in DOMAIN s} \union {e.n}
    <2>1. i = n + 1 \/ i \in 1 .. n
        BY <1>3
    <2> QED
        BY <1>3, <2>1
<1>5. ASSUME NEW i \in DOMAIN s PROVE s[i].n \in {t[j].n : j \in DOMAIN t}
    <2>1. i \in DOMAIN t /\ t[i] = s[i]
        BY <1>3
    <2> QED
        BY <2>1
<1>6. e.n \in {t[j].n : j \in DOMAIN t}
    <2>1. n + 1 \in DOMAIN t
        BY <1>3
    <2> QED
        BY <1>3, <2>1
<1>7. {t[j].n : j \in DOMAIN t} = {s[j].n : j \in DOMAIN s} \union {e.n}
    BY <1>4, <1>5, <1>6
<1> QED
    BY <1>1, <1>2, <1>7 DEF t

LEMMA RecordKinds ==
    /\ Plain \in Record /\ Hashed \in Record /\ Torn \in Record
    /\ Plain.n = 0 /\ Hashed.n = 0 /\ Torn.n = 0
    /\ \A n \in 1 .. MaxRecords : Line(n) \in Record /\ Line(n).n = n /\ Line(n).kind = "line"
    /\ Plain.kind = "header" /\ Hashed.kind = "hashed" /\ Torn.kind = "torn"
    /\ Plain # Hashed
    /\ \A r \in Record : r.kind \in {"header", "hashed"} => r.n = 0
<1>1. /\ Plain \in Record /\ Hashed \in Record /\ Torn \in Record
      /\ \A n \in 1 .. MaxRecords : Line(n) \in Record
    BY DEF Record
<1>2. /\ Plain.n = 0 /\ Hashed.n = 0 /\ Torn.n = 0
      /\ Plain.kind = "header" /\ Hashed.kind = "hashed" /\ Torn.kind = "torn"
    BY DEF Plain, Hashed, Torn
<1>3. ASSUME NEW n PROVE Line(n).n = n /\ Line(n).kind = "line"
    BY DEF Line
<1>4. ASSUME NEW r \in Record, r.kind \in {"header", "hashed"} PROVE r.n = 0
    <2>1. r \in {Plain, Hashed, Torn} \/ \E n \in 1 .. MaxRecords : r = Line(n)
        BY DEF Record
    <2> QED
        BY <1>2, <1>3, <1>4, <2>1
<1> QED
    BY <1>1, <1>2, <1>3, <1>4

LEMMA LookKeeps == ASSUME TraceInv, NEW w \in Writers, Look(w) PROVE TraceInv'
<1>1. /\ writer[w] = "idle" /\ recorded \in 0 .. MaxRecords /\ recorded + 1 \in 1 .. MaxRecords
      /\ recorded' = recorded + 1 /\ carries'[w] = recorded + 1
      /\ writer'[w] = IF trace = <<>> THEN "header" ELSE "line"
      /\ \A v \in Writers \ {w} : carries'[v] = carries[v] /\ writer'[v] = writer[v]
      /\ UNCHANGED <<trace, rewrite, copy, annotated, lost>>
    BY TraceBounds DEF Look, TraceInv, TraceTyped
<1>2. TraceTyped'
    <2>1. writer' \in [Writers -> {"idle", "header", "line"}]
        BY DEF Look, TraceInv, TraceTyped
    <2>2. carries' \in [Writers -> 0 .. MaxRecords]
        BY <1>1, TraceBounds DEF Look, TraceInv, TraceTyped
    <2>3. recorded' \in 0 .. MaxRecords
        BY <1>1
    <2> QED
        BY <1>1, <2>1, <2>2, <2>3 DEF TraceInv, TraceTyped
<1>3. HeaderFirst' /\ CopyLeads'
    BY <1>1 DEF TraceInv, HeaderFirst, HeaderLeads, CopyLeads
<1>4. Numbers'
    BY <1>1 DEF TraceInv, TraceTyped, Numbers
<1>5. ASSUME NEW S, Found(S),
             NEW n \in 1 .. recorded', \A v \in Writers : writer'[v] # "idle" => carries'[v] # n
      PROVE  n \in S
    <2>1. n # recorded + 1
        BY <1>1, <1>5
    <2>2. n \in 1 .. recorded
        BY <1>1, <2>1
    <2> QED
        BY <1>1, <1>5, <2>2 DEF Found
<1>6. Surviving'
    BY <1>1, <1>5 DEF TraceInv, Surviving, Found
<1> QED
    BY <1>2, <1>3, <1>4, <1>6 DEF TraceInv

\* A thread that appends e and is at place then, with the lines it leaves
\* without a carrier in the file or lost.
LEMMA AppendKeeps ==
    ASSUME TraceInv, NEW w \in Writers, NEW e \in Record, NEW place \in {"idle", "line"},
           writer[w] # "idle", trace = <<>> /\ rewrite # "truncated" => e = Plain,
           writer' = [writer EXCEPT ![w] = place], trace' = Append(trace, e),
           lost \subseteq lost', lost' \subseteq lost \union {carries[w]},
           place = "idle" => e.n = carries[w] /\ (rewrite # "no" => carries[w] \in lost'),
           UNCHANGED <<carries, recorded, rewrite, copy, annotated>>
    PROVE  TraceInv'
<1>1. writer'[w] = place /\ \A v \in Writers \ {w} : writer'[v] = writer[v]
    BY DEF TraceInv, TraceTyped
<1>2. /\ trace' \in Seq(Record) /\ trace' # <<>> /\ trace'[1] = IF trace = <<>> THEN e ELSE trace[1]
      /\ {trace'[i].n : i \in DOMAIN trace'} = {trace[i].n : i \in DOMAIN trace} \union {e.n}
    <2>1. trace \in Seq(Record)
        BY DEF TraceInv, TraceTyped
    <2> QED
        BY <2>1, RecordAppended
<1>3. carries[w] \in 1 .. recorded /\ recorded \in 0 .. MaxRecords
    BY DEF TraceInv, TraceTyped, Numbers
<1>4. TraceTyped'
    <2>1. lost' \subseteq 1 .. MaxRecords
        BY <1>3, TraceBounds DEF TraceInv, TraceTyped
    <2> QED
        BY <1>2, <2>1 DEF TraceInv, TraceTyped
<1>5. HeaderFirst' /\ CopyLeads'
    BY <1>2 DEF TraceInv, HeaderFirst, HeaderLeads, CopyLeads
<1>6. Numbers'
    BY <1>1 DEF TraceInv, Numbers
<1>7. ASSUME NEW n \in 1 .. recorded, \A v \in Writers : writer'[v] # "idle" => carries[v] # n
      PROVE  (\A v \in Writers : writer[v] # "idle" => carries[v] # n) \/ (n = carries[w] /\ place = "idle")
    BY <1>1, <1>7
<1>8. rewrite # "truncated" => Found(lost \union {trace[i].n : i \in DOMAIN trace})'
    <2>1. SUFFICES ASSUME rewrite # "truncated", NEW n \in 1 .. recorded,
                          \A v \in Writers : writer'[v] # "idle" => carries[v] # n
                   PROVE  n \in lost' \union {trace'[i].n : i \in DOMAIN trace'}
        BY DEF Found
    <2>2. CASE n = carries[w] /\ place = "idle"
        BY <1>2, <2>2
    <2>3. CASE \A v \in Writers : writer[v] # "idle" => carries[v] # n
        <3>1. n \in lost \union {trace[i].n : i \in DOMAIN trace}
            BY <2>1, <2>3 DEF TraceInv, Surviving, Found
        <3> QED
            BY <1>2, <3>1
    <2> QED
        BY <1>7, <2>1, <2>2, <2>3
<1>9. rewrite # "no" => Found(lost \union {copy[i].n : i \in DOMAIN copy})'
    <2>1. SUFFICES ASSUME rewrite # "no", NEW n \in 1 .. recorded,
                          \A v \in Writers : writer'[v] # "idle" => carries[v] # n
                   PROVE  n \in lost' \union {copy[i].n : i \in DOMAIN copy}
        BY DEF Found
    <2>2. CASE n = carries[w] /\ place = "idle"
        BY <2>1, <2>2
    <2>3. CASE \A v \in Writers : writer[v] # "idle" => carries[v] # n
        BY <2>1, <2>3 DEF TraceInv, Surviving, Found
    <2> QED
        BY <1>7, <2>1, <2>2, <2>3
<1> QED
    BY <1>4, <1>5, <1>6, <1>8, <1>9 DEF TraceInv, Surviving

LEMMA WritersKeep ==
    ASSUME TraceInv, NEW w \in Writers, AppendHeader(w) \/ AppendLine(w)
    PROVE  TraceInv'
<1>1. CASE AppendHeader(w)
    BY <1>1, RecordKinds, AppendKeeps DEF AppendHeader
<1>2. CASE AppendLine(w)
    <2>1. carries[w] \in 1 .. MaxRecords
        BY <1>2, TraceBounds DEF AppendLine, TraceInv, TraceTyped, Numbers
    <2>2. Line(carries[w]) \in Record /\ Line(carries[w]).n = carries[w]
        BY <2>1, RecordKinds
    <2>3. trace = <<>> => rewrite = "truncated"
        BY <1>2 DEF AppendLine, TraceInv, HeaderFirst
    <2>4. /\ lost \subseteq lost' /\ lost' \subseteq lost \union {carries[w]}
          /\ rewrite # "no" => carries[w] \in lost'
        BY <1>2 DEF AppendLine
    <2>5. /\ writer[w] # "idle" /\ writer' = [writer EXCEPT ![w] = "idle"]
          /\ trace' = Append(trace, Line(carries[w]))
          /\ UNCHANGED <<carries, recorded, rewrite, copy, annotated>>
        BY <1>2 DEF AppendLine
    <2> QED
        BY <2>2, <2>3, <2>4, <2>5, AppendKeeps
<1> QED
    BY <1>1, <1>2

\* Setting the hash in the header leaves the lines as they are.
LEMMA ReadAllKeeps == TraceInv /\ ReadAll => TraceInv'
<1> SUFFICES ASSUME TraceInv, ReadAll PROVE TraceInv'
    OBVIOUS
<1>1. /\ trace \in Seq(Record) /\ trace # <<>> /\ trace[1].kind \in {"header", "hashed"}
      /\ copy' = [trace EXCEPT ![1] = Hashed] /\ rewrite = "no" /\ rewrite' = "read"
      /\ UNCHANGED <<trace, writer, carries, recorded, annotated, lost>>
    BY DEF ReadAll, TraceInv, TraceTyped
<1>2. 1 \in 1 .. Len(trace) /\ Len(trace) \in Nat /\ DOMAIN trace = 1 .. Len(trace)
    BY <1>1
<1>3. /\ copy' \in Seq(Record) /\ DOMAIN copy' = DOMAIN trace /\ copy'[1] = Hashed
      /\ copy' # <<>> /\ \A i \in DOMAIN trace : i # 1 => copy'[i] = trace[i]
    BY <1>1, <1>2, RecordKinds
<1>4. trace[1] \in Record /\ trace[1].n = 0
    BY <1>1, <1>2, RecordKinds
<1>5. ASSUME NEW n \in Nat \ {0}, n \in {trace[i].n : i \in DOMAIN trace}
      PROVE  n \in {copy'[i].n : i \in DOMAIN copy'}
    <2>1. PICK i \in DOMAIN trace : trace[i].n = n
        BY <1>5
    <2>2. i # 1
        BY <1>4, <2>1
    <2>3. copy'[i].n = n /\ i \in DOMAIN copy'
        BY <1>3, <2>1, <2>2
    <2> QED
        BY <2>3
<1>6. TraceTyped' /\ CopyLeads'
    BY <1>1, <1>3 DEF TraceInv, TraceTyped, CopyLeads
<1>7. HeaderFirst' /\ Numbers'
    BY <1>1 DEF TraceInv, HeaderFirst, HeaderLeads, Numbers
<1>8. Found(lost \union {trace[i].n : i \in DOMAIN trace})
    BY <1>1 DEF TraceInv, Surviving
<1>9. Surviving'
    <2>1. Found(lost \union {trace[i].n : i \in DOMAIN trace})'
        BY <1>1, <1>8 DEF Found
    <2>2. Found(lost \union {copy[i].n : i \in DOMAIN copy})'
        <3>1. SUFFICES ASSUME NEW n \in 1 .. recorded,
                              \A v \in Writers : writer[v] # "idle" => carries[v] # n
                       PROVE  n \in lost \union {copy'[i].n : i \in DOMAIN copy'}
            BY <1>1 DEF Found
        <3>2. n \in lost \union {trace[i].n : i \in DOMAIN trace}
            BY <1>8, <3>1 DEF Found
        <3>3. n \in Nat \ {0}
            BY DEF TraceInv, TraceTyped
        <3> QED
            BY <1>5, <3>2, <3>3
    <2> QED
        BY <2>1, <2>2 DEF Surviving
<1> QED
    BY <1>6, <1>7, <1>9 DEF TraceInv

LEMMA TruncateFileKeeps == TraceInv /\ Truncate => TraceInv'
    BY DEF TraceInv, TraceTyped, HeaderFirst, CopyLeads, Numbers, Surviving, Found, Truncate

\* What is left of the file behind the copy.
LEMMA Remainder ==
    ASSUME NEW s \in Seq(Record), NEW t \in Seq(Record)
    PROVE  (IF Len(s) > Len(t) THEN <<Torn>> \o SubSeq(s, Len(t) + 2, Len(s)) ELSE <<>>) \in Seq(Record)
<1>1. ASSUME NEW m \in Nat \ {0} PROVE SubSeq(s, m, Len(s)) \in Seq(Record)
    OBVIOUS
<1>2. <<Torn>> \in Seq(Record)
    BY RecordKinds
<1>3. Len(t) + 2 \in Nat \ {0}
    OBVIOUS
<1>4. SubSeq(s, Len(t) + 2, Len(s)) \in Seq(Record)
    BY <1>1, <1>3
<1>5. <<Torn>> \o SubSeq(s, Len(t) + 2, Len(s)) \in Seq(Record)
    BY <1>2, <1>4
<1> QED
    BY <1>5

LEMMA WriteBackKeeps == TraceInv /\ WriteBack => TraceInv'
<1> SUFFICES ASSUME TraceInv, WriteBack PROVE TraceInv'
    OBVIOUS
<1> DEFINE rest == IF Len(trace) > Len(copy)
                   THEN <<Torn>> \o SubSeq(trace, Len(copy) + 2, Len(trace)) ELSE <<>>
<1>1. /\ rewrite = "truncated" /\ rewrite' = "no" /\ trace' = copy \o rest /\ annotated' = TRUE
      /\ copy' = <<>> /\ UNCHANGED <<writer, carries, recorded, lost>>
    BY DEF WriteBack
<1>2. rest \in Seq(Record) /\ copy \in Seq(Record) /\ copy # <<>> /\ copy[1] = Hashed
    BY <1>1, Remainder DEF TraceInv, TraceTyped, CopyLeads
<1> HIDE DEF rest
<1>3. /\ copy \o rest \in Seq(Record) /\ Len(copy \o rest) = Len(copy) + Len(rest)
      /\ Len(copy) \in Nat \ {0} /\ Len(rest) \in Nat
      /\ \A i \in 1 .. Len(copy) : (copy \o rest)[i] = copy[i]
    BY <1>2
<1>4. /\ trace' \in Seq(Record) /\ trace' # <<>> /\ trace'[1] = Hashed
      /\ \A i \in DOMAIN copy : i \in DOMAIN trace' /\ trace'[i] = copy[i]
    BY <1>1, <1>2, <1>3
<1>5. TraceTyped'
    BY <1>1, <1>4 DEF TraceInv, TraceTyped
<1>6. HeaderFirst' /\ CopyLeads' /\ Numbers'
    BY <1>1, <1>4 DEF TraceInv, HeaderFirst, HeaderLeads, CopyLeads, Numbers
<1>7. Surviving'
    <2>1. Found(lost \union {copy[i].n : i \in DOMAIN copy})
        BY <1>1 DEF TraceInv, Surviving
    <2>2. {copy[i].n : i \in DOMAIN copy} \subseteq {trace'[i].n : i \in DOMAIN trace'}
        BY <1>4
    <2>3. Found(lost \union {trace[i].n : i \in DOMAIN trace})'
        BY <1>1, <2>1, <2>2 DEF Found
    <2> QED
        BY <1>1, <2>3 DEF Surviving
<1> QED
    BY <1>5, <1>6, <1>7 DEF TraceInv

LEMMA TraceIsInductive == TraceInv /\ [TraceNext]_traceVars => TraceInv'
<1>1. CASE UNCHANGED traceVars
    BY <1>1 DEF traceVars, TraceInv, TraceTyped, HeaderFirst, HeaderLeads, CopyLeads, Numbers, Surviving, Found
<1>2. CASE TraceNext
    BY <1>2, LookKeeps, WritersKeep, ReadAllKeeps, TruncateFileKeeps, WriteBackKeeps DEF TraceNext
<1> QED
    BY <1>1, <1>2

LEMMA TracesAreKept == TraceInv => TraceKept
    BY DEF TraceInv, HeaderFirst, Surviving, Found, TraceKept, HeaderLeads, OnlyRewritingLoses

-----------------------------------------------------------------------------
(***************************************************************************)
(* The model calls.                                                        *)
(***************************************************************************)
\* What is known of a call, of a callback and of a line of a trace.
CallOf ==
    [d : 1 .. Started, run : 1 .. Runs, kind : {"helper", "probe", "stream", "turn"}, asked : Asked,
     stage : {"sent", "ended", "closed", "dropped", "failed"}, index : Nat, metered : BOOLEAN]
CallbackOf(n) == [call : 1 .. n, bound : BOOLEAN]
LineOf(n) == [call : 1 .. n, type : {"llm_call", "backend_llm_call", "cache_warm"}, index : Nat]

CaptureTyped ==
    /\ now \in 0 .. Started /\ calls \in Seq(CallOf)
    /\ pending \subseteq CallbackOf(Len(calls)) /\ lines \subseteq LineOf(Len(calls))
    /\ store \in [Keys -> Seq(Nat)]
    /\ \A k \in Keys : \A i \in DOMAIN store[k] : store[k][i] \in 1 .. Len(calls)
    /\ reported \in [1 .. Started -> SUBSET Nat]

\* A call is of a delegation that has begun; only a stream lingers.
CallsAgree ==
    \A c \in 1 .. Len(calls) :
        /\ calls[c].d <= now
        /\ calls[c].stage \in {"ended", "dropped"} => calls[c].kind = "stream"

\* The count of helper calls: those that returned, each once, and under the
\* current delegation all of its own.
HelpersStored ==
    /\ \A d \in 1 .. Started : \A i \in DOMAIN store[<<d, "helper">>] :
         /\ calls[store[<<d, "helper">>][i]].stage = "closed"
         /\ \A j \in DOMAIN store[<<d, "helper">>] :
              store[<<d, "helper">>][i] = store[<<d, "helper">>][j] => i = j
    /\ \A c \in 1 .. Len(calls) :
         calls[c].kind = "helper" /\ calls[c].stage = "closed" /\ calls[c].d = now =>
             \E i \in DOMAIN store[<<now, "helper">>] : store[<<now, "helper">>][i] = c

\* A stream of this key is over.
Over(key) ==
    \E o \in DOMAIN calls : /\ StreamKey(calls[o]) = key /\ calls[o].kind = "stream"
                            /\ calls[o].stage \in {"closed", "failed"}

\* A key is given back only by a stream that is over.
StreamsOwned ==
    \A c \in 1 .. Len(calls) :
        calls[c].kind = "stream" => StreamKey(calls[c]) \in owned \/ Over(StreamKey(calls[c]))

\* The inductive invariant behind CountsHold.
CaptureInv ==
    /\ CaptureTyped /\ CallsAgree /\ HelpersStored /\ StreamsOwned
    /\ OwnedUntilClosed /\ TokensStayHome /\ IndexesAreUnique /\ KeysHaveOwners

LEMMA CaptureConstants ==
    Started \in Nat /\ Started > 0 /\ Runs \in Nat /\ Runs > 0 /\ MaxCalls \in Nat
    BY CaptureBounds

LEMMA KeysKnown ==
    /\ \A d \in 0 .. Started, r \in {"helper", "executor"} : <<d, r>> \in Keys
    /\ \A d \in 1 .. Started, r \in {"helper", "executor"} : <<d, r>> \in Keys
    /\ \A k \in Keys : k = <<k[1], k[2]>> /\ k[1] \in 0 .. Started /\ k[2] \in {"helper", "executor"}
    BY DEF Keys

LEMMA CaptureStarts == CaptureInit => CaptureInv
<1> SUFFICES ASSUME CaptureInit PROVE CaptureInv
    OBVIOUS
<1>1. Len(calls) = 0 /\ DOMAIN calls = {} /\ calls \in Seq(CallOf)
    BY DEF CaptureInit
<1>2. store \in [Keys -> Seq(Nat)] /\ \A k \in Keys : store[k] = <<>>
    BY DEF CaptureInit
<1>3. CaptureTyped
    <2>1. now \in 0 .. Started /\ pending = {} /\ lines = {} /\ reported \in [1 .. Started -> SUBSET Nat]
        BY CaptureConstants DEF CaptureInit
    <2> QED
        BY <1>1, <1>2, <2>1 DEF CaptureTyped
<1>4. CallsAgree /\ StreamsOwned
    BY <1>1 DEF CallsAgree, StreamsOwned
<1>5. HelpersStored
    <2>1. \A d \in 1 .. Started : store[<<d, "helper">>] = <<>>
        BY <1>2, KeysKnown
    <2> QED
        BY <1>1, <2>1 DEF HelpersStored
<1>6. OwnedUntilClosed /\ TokensStayHome
    BY <1>2 DEF OwnedUntilClosed, TokensStayHome, ToSet
<1>7. IndexesAreUnique /\ KeysHaveOwners
    BY DEF CaptureInit, IndexesAreUnique, KeysHaveOwners
<1> QED
    BY <1>3, <1>4, <1>5, <1>6, <1>7 DEF CaptureInv

\* Calls that are sent or change their stage, while nothing is counted.
GoesOn(n) ==
    /\ calls' \in Seq(CallOf) /\ n = Len(calls) /\ n <= Len(calls')
    /\ \A c \in 1 .. n :
         /\ calls'[c].d = calls[c].d /\ calls'[c].kind = calls[c].kind /\ calls'[c].asked = calls[c].asked
         /\ calls[c].stage \in {"closed", "failed"} => calls'[c].stage = calls[c].stage
         /\ calls[c].kind = "helper" /\ calls'[c].stage = "closed" => calls[c].stage = "closed"
         /\ calls'[c].stage \in {"ended", "dropped"} => calls[c].kind = "stream"
    /\ \A c \in n + 1 .. Len(calls') : calls'[c].stage = "sent" /\ calls'[c].d <= now
    /\ UNCHANGED <<now, store, reported>>

LEMMA CallsGoOn ==
    ASSUME CaptureInv, GoesOn(Len(calls)),
           pending' \subseteq CallbackOf(Len(calls')), lines \subseteq lines',
           lines' \subseteq LineOf(Len(calls')),
           \A l \in lines' \ lines : l.type # "llm_call",
           StreamsOwned', KeysHaveOwners'
    PROVE  CaptureInv'
<1> DEFINE n == Len(calls)
           m == Len(calls')
<1>1. /\ n \in Nat /\ m \in Nat /\ n <= m /\ DOMAIN calls = 1 .. n /\ DOMAIN calls' = 1 .. m
      /\ UNCHANGED <<now, store, reported>> /\ calls' \in Seq(CallOf)
    BY DEF GoesOn, CaptureInv, CaptureTyped
<1>2. \A c \in 1 .. n :
         /\ calls'[c].d = calls[c].d /\ calls'[c].kind = calls[c].kind /\ calls'[c].asked = calls[c].asked
         /\ StreamKey(calls'[c]) = StreamKey(calls[c]) /\ Role(calls'[c]) = Role(calls[c])
         /\ calls[c].stage \in {"closed", "failed"} => calls'[c].stage = calls[c].stage
         /\ calls[c].kind = "helper" /\ calls'[c].stage = "closed" => calls[c].stage = "closed"
         /\ calls'[c].stage \in {"ended", "dropped"} => calls[c].kind = "stream"
    BY DEF GoesOn, StreamKey, Role
<1>3. \A c \in 1 .. m : c \in 1 .. n \/ (calls'[c].stage = "sent" /\ calls'[c].d <= now)
    BY <1>1 DEF GoesOn
<1>4. \A k \in Keys : \A i \in DOMAIN store[k] : store[k][i] \in 1 .. n
    BY DEF CaptureInv, CaptureTyped
<1>5. \A c \in 1 .. n : c \in 1 .. m
    BY <1>1
<1>6. lines \subseteq LineOf(n)
    BY DEF CaptureInv, CaptureTyped
<1> HIDE DEF n, m
<1>7. CaptureTyped'
    BY <1>1, <1>4, <1>5 DEF CaptureInv, CaptureTyped, m
<1>8. CallsAgree'
    BY <1>1, <1>2, <1>3 DEF CaptureInv, CallsAgree, n, m
<1>9. HelpersStored'
    <2>1. ASSUME NEW d \in 1 .. Started, NEW i \in DOMAIN store[<<d, "helper">>]
          PROVE  calls'[store[<<d, "helper">>][i]].stage = "closed"
        <3>1. store[<<d, "helper">>][i] \in 1 .. n /\ calls[store[<<d, "helper">>][i]].stage = "closed"
            BY <1>4, KeysKnown DEF CaptureInv, HelpersStored
        <3> QED
            BY <1>2, <3>1
    <2>2. ASSUME NEW c \in 1 .. m, calls'[c].kind = "helper", calls'[c].stage = "closed", calls'[c].d = now
          PROVE  \E i \in DOMAIN store[<<now, "helper">>] : store[<<now, "helper">>][i] = c
        <3>1. c \in 1 .. n
            BY <1>3, <2>2
        <3> QED
            BY <1>2, <2>2, <3>1 DEF CaptureInv, HelpersStored, n
    <2> QED
        BY <1>1, <2>1, <2>2 DEF CaptureInv, HelpersStored, m
<1>10. TokensStayHome'
    <2>1. ASSUME NEW k \in Keys, k[1] > 0, NEW c \in ToSet(store[k])
          PROVE  calls'[c].d = k[1] /\ Role(calls'[c]) = k[2] /\ calls'[c].kind # "probe"
        <3>1. c \in 1 .. n
            BY <1>4, <2>1 DEF ToSet
        <3>2. calls[c].d = k[1] /\ Role(calls[c]) = k[2] /\ calls[c].kind # "probe"
            BY <2>1 DEF CaptureInv, TokensStayHome
        <3> QED
            BY <1>2, <3>1, <3>2
    <2> QED
        BY <1>1, <2>1 DEF TokensStayHome
<1>11. OwnedUntilClosed'
    <2>1. ASSUME NEW k \in Keys, k[1] > 0, k[2] = "executor", NEW c \in ToSet(store[k])
          PROVE  \E o \in DOMAIN calls' : /\ StreamKey(calls'[o]) = StreamKey(calls'[c])
                                          /\ calls'[o].kind = "stream"
                                          /\ calls'[o].stage \in {"closed", "failed"}
        <3>1. c \in 1 .. n
            BY <1>4, <2>1 DEF ToSet
        <3>2. PICK o \in DOMAIN calls : /\ StreamKey(calls[o]) = StreamKey(calls[c])
                                        /\ calls[o].kind = "stream"
                                        /\ calls[o].stage \in {"closed", "failed"}
            BY <2>1 DEF CaptureInv, OwnedUntilClosed
        <3> QED
            BY <1>1, <1>2, <1>5, <3>1, <3>2
    <2> QED
        BY <1>1, <2>1 DEF OwnedUntilClosed
<1>12. IndexesAreUnique'
    <2>1. ASSUME NEW r \in {"helper", "executor"}
          PROVE  {l \in lines' : l.type = "llm_call" /\ calls'[l.call].d = now /\ Role(calls'[l.call]) = r}
                   = {l \in lines : l.type = "llm_call" /\ calls[l.call].d = now /\ Role(calls[l.call]) = r}
        <3>1. \A l \in lines : l.call \in 1 .. n
            BY <1>6 DEF LineOf
        <3> QED
            BY <1>2, <3>1
    <2>2. now' = now /\ store' = store /\ IndexesAreUnique
        BY <1>1 DEF CaptureInv
    <2> QED
        BY ONLY <2>1, <2>2 DEF IndexesAreUnique
<1> QED
    BY <1>7, <1>8, <1>9, <1>10, <1>11, <1>12 DEF CaptureInv

LEMMA CallAppended ==
    ASSUME CaptureInv, NEW call \in CallOf
    PROVE  /\ Append(calls, call) \in Seq(CallOf) /\ Len(Append(calls, call)) = Len(calls) + 1
           /\ Len(calls) \in Nat /\ Append(calls, call)[Len(calls) + 1] = call
           /\ \A c \in 1 .. Len(calls) : Append(calls, call)[c] = calls[c]
    BY DEF CaptureInv, CaptureTyped

\* A call is sent.
LEMMA IssueKeeps ==
    ASSUME CaptureInv, NEW d \in 1 .. now, NEW call \in CallOf, call.d = d, call.stage = "sent",
           calls' = Append(calls, call),
           owned' = owned \union (IF call.kind = "stream" THEN {StreamKey(call)} ELSE {}),
           UNCHANGED <<now, pending, store, lines, reported>>
    PROVE  CaptureInv'
<1> DEFINE n == Len(calls)
<1>1. /\ calls' \in Seq(CallOf) /\ Len(calls') = n + 1 /\ n \in Nat /\ calls'[n + 1] = call
      /\ \A c \in 1 .. n : calls'[c] = calls[c]
    BY CallAppended
<1>2. DOMAIN calls = 1 .. n /\ DOMAIN calls' = 1 .. n + 1
    BY <1>1 DEF CaptureInv, CaptureTyped
<1>3. /\ pending \subseteq CallbackOf(n) /\ lines \subseteq LineOf(n)
      /\ \A c \in 1 .. n : calls[c].stage \in {"ended", "dropped"} => calls[c].kind = "stream"
    BY DEF CaptureInv, CaptureTyped, CallsAgree
<1> HIDE DEF n
<1>4. 1 .. n \subseteq 1 .. n + 1 /\ n + 1 \in 1 .. n + 1 /\ n <= n + 1
      /\ \A c \in 1 .. n + 1 : c \in 1 .. n \/ c = n + 1
    BY <1>1
<1>5. d <= now
    BY DEF CaptureInv, CaptureTyped
<1>6. GoesOn(n)
    BY <1>1, <1>3, <1>4, <1>5 DEF GoesOn, n
<1>7. pending' \subseteq CallbackOf(n + 1) /\ lines' \subseteq LineOf(n + 1)
    BY <1>3, <1>4 DEF CallbackOf, LineOf
<1>9. StreamsOwned'
    <2>1. ASSUME NEW c \in 1 .. n + 1, calls'[c].kind = "stream"
          PROVE  StreamKey(calls'[c]) \in owned' \/ Over(StreamKey(calls[c]))'
        <3>1. CASE c = n + 1
            BY <1>1, <2>1, <3>1
        <3>2. CASE c \in 1 .. n
            <4>1. StreamKey(calls[c]) \in owned \/ Over(StreamKey(calls[c]))
                BY <1>1, <2>1, <3>2 DEF CaptureInv, StreamsOwned, n
            <4>2. calls'[c] = calls[c]
                BY <1>1, <3>2
            <4>3. Over(StreamKey(calls[c])) => Over(StreamKey(calls[c]))'
                BY <1>1, <1>2, <1>4, <4>2 DEF Over
            <4> QED
                BY <4>1, <4>2, <4>3
        <3> QED
            BY <1>4, <3>1, <3>2
    <2> QED
        BY <1>1, <2>1 DEF StreamsOwned
<1>10. KeysHaveOwners'
    <2>1. ASSUME NEW key \in owned' PROVE \E c \in DOMAIN calls' :
            StreamKey(calls'[c]) = key /\ calls'[c].kind = "stream" /\ calls'[c].stage \in {"sent", "ended", "dropped"}
        <3>1. CASE key \in owned
            <4>1. PICK c \in DOMAIN calls : StreamKey(calls[c]) = key /\ calls[c].kind = "stream"
                                                /\ calls[c].stage \in {"sent", "ended", "dropped"}
                BY <3>1 DEF CaptureInv, KeysHaveOwners
            <4> QED
                BY <1>1, <1>2, <1>4, <4>1
        <3>2. CASE key \notin owned
            BY <1>1, <1>2, <1>4, <2>1, <3>2
        <3> QED
            BY <3>1, <3>2
    <2> QED
        BY <2>1 DEF KeysHaveOwners
<1> QED
    BY <1>1, <1>6, <1>7, <1>9, <1>10, CallsGoOn DEF n

LEMMA NumbersAreNaturals ==
    ASSUME CaptureInv, NEW d, NEW run PROVE Cardinality(Numbered(d, run)) \in Nat
<1>1. Len(calls) \in Nat /\ Numbered(d, run) \subseteq 1 .. Len(calls)
    BY DEF Numbered, CaptureInv, CaptureTyped
<1>2. IsFiniteSet(1 .. Len(calls))
    BY <1>1, FS_Interval
<1>3. IsFiniteSet(Numbered(d, run))
    BY <1>1, <1>2, FS_Subset
<1> QED
    BY <1>3, FS_CardinalityType

LEMMA SendingKeeps ==
    ASSUME CaptureInv, NEW d \in 1 .. Started, NEW asked \in Asked,
           \/ Complete(d, asked) \/ Probe(d, asked)
           \/ \E run \in 1 .. Runs, sort \in {"stream", "turn"} : Send(d, run, sort, asked)
    PROVE  CaptureInv'
<1> DEFINE Call(run, sort, index) == [d |-> d, run |-> run, kind |-> sort, asked |-> asked,
                                      stage |-> "sent", index |-> index, metered |-> TRUE]
<1>1. ASSUME NEW run \in 1 .. Runs, NEW sort \in {"helper", "probe", "stream", "turn"}, NEW index \in Nat,
             Issue(d, run, sort, asked, index),
             owned' = owned \union (IF sort = "stream" THEN {<<d, asked>>} ELSE {}),
             UNCHANGED <<now, pending, store, lines, reported>>
      PROVE  CaptureInv'
    <2>1. /\ Call(run, sort, index) \in CallOf /\ Call(run, sort, index).d = d
          /\ Call(run, sort, index).stage = "sent" /\ Call(run, sort, index).kind = sort
          /\ StreamKey(Call(run, sort, index)) = <<d, asked>>
        BY DEF CallOf, StreamKey
    <2>2. d \in 1 .. now /\ calls' = Append(calls, Call(run, sort, index))
        BY <1>1 DEF Issue
    <2> HIDE DEF Call
    <2> QED
        BY <1>1, <2>1, <2>2, IssueKeeps
<1>2. 1 \in 1 .. Runs /\ 0 \in Nat
    BY CaptureConstants
<1>3. CASE Complete(d, asked)
    <2>1. owned' = owned \union (IF "helper" = "stream" THEN {<<d, asked>>} ELSE {})
        BY <1>3 DEF Complete
    <2> QED
        BY <1>1, <1>2, <1>3, <2>1 DEF Complete
<1>4. CASE Probe(d, asked)
    <2>1. owned' = owned \union (IF "probe" = "stream" THEN {<<d, asked>>} ELSE {})
        BY <1>4 DEF Probe
    <2> QED
        BY <1>1, <1>2, <1>4, <2>1 DEF Probe
<1>5. ASSUME NEW run \in 1 .. Runs, NEW sort \in {"stream", "turn"}, Send(d, run, sort, asked)
      PROVE  CaptureInv'
    <2>1. Cardinality(Numbered(d, run)) + 1 \in Nat
        BY NumbersAreNaturals
    <2> QED
        BY <1>1, <1>5, <2>1 DEF Send
<1> QED
    BY <1>3, <1>4, <1>5

\* A call that changes its stage.
LEMMA StageKeeps ==
    ASSUME CaptureInv, NEW c \in DOMAIN calls, NEW stage \in {"ended", "closed", "dropped", "failed"},
           NEW metered \in BOOLEAN,
           calls' = [calls EXCEPT ![c] = [calls[c] EXCEPT !.stage = stage, !.metered = metered]],
           calls[c].stage \notin {"closed", "failed"},
           calls[c].kind = "helper" => stage # "closed",
           stage \in {"ended", "dropped"} => calls[c].kind = "stream" /\ owned' = owned,
           stage \in {"closed", "failed"} =>
             owned' = owned \ (IF calls[c].kind = "stream" THEN {StreamKey(calls[c])} ELSE {}),
           pending' \subseteq CallbackOf(Len(calls)), lines \subseteq lines',
           lines' \subseteq LineOf(Len(calls)), \A l \in lines' \ lines : l.type # "llm_call",
           UNCHANGED <<now, store, reported>>
    PROVE  CaptureInv'
<1> DEFINE n == Len(calls)
           k == [calls[c] EXCEPT !.stage = stage, !.metered = metered]
<1>1. n \in Nat /\ DOMAIN calls = 1 .. n /\ calls \in Seq(CallOf) /\ calls[c] \in CallOf
    BY DEF CaptureInv, CaptureTyped
<1>2. /\ k \in CallOf /\ k.stage = stage /\ k.kind = calls[c].kind /\ k.d = calls[c].d
      /\ k.asked = calls[c].asked /\ StreamKey(k) = StreamKey(calls[c])
    BY <1>1 DEF CallOf, StreamKey
<1> HIDE DEF k
<1>3. /\ calls' \in Seq(CallOf) /\ Len(calls') = n /\ DOMAIN calls' = 1 .. n
      /\ calls'[c] = k /\ \A o \in 1 .. n : o # c => calls'[o] = calls[o]
    BY <1>1, <1>2 DEF k
<1> HIDE DEF n
<1>4. \A o \in 1 .. n : calls[o].stage \in {"ended", "dropped"} => calls[o].kind = "stream"
    BY DEF CaptureInv, CallsAgree, n
<1>5. GoesOn(n)
    <2>1. n + 1 .. n = {} /\ n <= n
        BY <1>1
    <2> QED
        BY <1>1, <1>2, <1>3, <1>4, <2>1 DEF GoesOn, n
<1>6. ASSUME NEW o \in 1 .. n
      PROVE  calls'[o].kind = calls[o].kind /\ StreamKey(calls'[o]) = StreamKey(calls[o])
    BY <1>2, <1>3
<1>7. ASSUME NEW key PROVE Over(key) => \E o \in DOMAIN calls' :
             /\ StreamKey(calls'[o]) = key /\ calls'[o].kind = "stream" /\ calls'[o].stage \in {"closed", "failed"}
    BY <1>1, <1>3 DEF Over
<1>8. StreamsOwned'
    <2>1. ASSUME NEW o \in 1 .. n, calls[o].kind = "stream"
          PROVE  \/ StreamKey(calls[o]) \in owned'
                 \/ \E q \in DOMAIN calls' : /\ StreamKey(calls'[q]) = StreamKey(calls[o])
                                             /\ calls'[q].kind = "stream"
                                             /\ calls'[q].stage \in {"closed", "failed"}
        <3>1. StreamKey(calls[o]) \in owned \/ Over(StreamKey(calls[o]))
            BY <2>1 DEF CaptureInv, StreamsOwned, n
        <3>2. CASE Over(StreamKey(calls[o]))
            BY <1>7, <3>2
        <3>3. CASE StreamKey(calls[o]) \in owned /\ StreamKey(calls[o]) \notin owned'
            <4>1. /\ stage \in {"closed", "failed"} /\ calls[c].kind = "stream"
                  /\ StreamKey(calls[o]) = StreamKey(calls[c])
                BY <3>3
            <4> QED
                BY <1>1, <1>2, <1>3, <4>1
        <3> QED
            BY <3>1, <3>2, <3>3
    <2>2. ASSUME NEW o \in 1 .. n, calls'[o].kind = "stream"
          PROVE  StreamKey(calls'[o]) \in owned' \/ Over(StreamKey(calls[o]))'
        BY <1>6, <2>1, <2>2 DEF Over
    <2> QED
        BY <1>3, <2>2 DEF StreamsOwned
<1>9. KeysHaveOwners'
    <2>1. ASSUME NEW key \in owned'
          PROVE  \E o \in DOMAIN calls' : StreamKey(calls'[o]) = key /\ calls'[o].kind = "stream"
                                              /\ calls'[o].stage \in {"sent", "ended", "dropped"}
        <3>1. key \in owned
            BY <2>1
        <3>2. PICK o \in DOMAIN calls : StreamKey(calls[o]) = key /\ calls[o].kind = "stream"
                                            /\ calls[o].stage \in {"sent", "ended", "dropped"}
            BY <3>1 DEF CaptureInv, KeysHaveOwners
        <3>3. CASE o = c
            <4>1. stage \in {"ended", "dropped"}
                BY <2>1, <3>2, <3>3
            <4> QED
                BY <1>1, <1>2, <1>3, <3>2, <3>3, <4>1
        <3>4. CASE o # c
            BY <1>1, <1>3, <3>2, <3>4
        <3> QED
            BY <3>3, <3>4
    <2> QED
        BY <2>1 DEF KeysHaveOwners
<1> QED
    BY <1>3, <1>5, <1>8, <1>9, CallsGoOn DEF n

LEMMA StageIs ==
    ASSUME CaptureInv, NEW c \in DOMAIN calls, NEW stage \in {"ended", "closed", "dropped", "failed"},
           NEW metered \in BOOLEAN
    PROVE  /\ Stage(c, stage) =>
                calls' = [calls EXCEPT ![c] = [calls[c] EXCEPT !.stage = stage, !.metered = calls[c].metered]]
           /\ [calls EXCEPT ![c].metered = metered, ![c].stage = stage] =
                [calls EXCEPT ![c] = [calls[c] EXCEPT !.stage = stage, !.metered = metered]]
           /\ calls[c] \in CallOf /\ calls[c].metered \in BOOLEAN
<1>1. calls \in Seq(CallOf) /\ DOMAIN calls = 1 .. Len(calls) /\ calls[c] \in CallOf
    BY DEF CaptureInv, CaptureTyped
<1>2. calls[c].metered \in BOOLEAN /\ [calls[c] EXCEPT !.metered = calls[c].metered] = calls[c]
    BY <1>1 DEF CallOf
<1>3. [calls[c] EXCEPT !.stage = stage] = [calls[c] EXCEPT !.stage = stage, !.metered = calls[c].metered]
    BY <1>1 DEF CallOf
<1>4. [[calls[c] EXCEPT !.metered = metered] EXCEPT !.stage = stage] =
         [calls[c] EXCEPT !.stage = stage, !.metered = metered]
    BY <1>1 DEF CallOf
<1>5. [calls EXCEPT ![c].metered = metered, ![c].stage = stage] =
         [calls EXCEPT ![c] = [[calls[c] EXCEPT !.metered = metered] EXCEPT !.stage = stage]]
    BY <1>1
<1> QED
    BY <1>1, <1>2, <1>3, <1>4, <1>5 DEF Stage

LEMMA AnsweredIs ==
    ASSUME CaptureInv, NEW c, NEW metered \in BOOLEAN, NEW bound, Answered(c, metered, bound)
    PROVE  calls' = [calls EXCEPT ![c] = [calls[c] EXCEPT
               !.stage = IF calls[c].kind = "stream" THEN "ended" ELSE "closed",
               !.metered = metered]]
<1> DEFINE stage == IF calls[c].kind = "stream" THEN "ended" ELSE "closed"
<1>1. /\ c \in DOMAIN calls
      /\ calls' = [calls EXCEPT ![c].metered = metered, ![c].stage = stage]
    BY DEF Answered
<1>2. calls \in Seq(CallOf) /\ DOMAIN calls = 1 .. Len(calls) /\ calls[c] \in CallOf
    BY <1>1 DEF CaptureInv, CaptureTyped
<1> HIDE DEF stage
<1>3. [[calls[c] EXCEPT !.metered = metered] EXCEPT !.stage = stage] =
         [calls[c] EXCEPT !.stage = stage, !.metered = metered]
    BY <1>2 DEF CallOf
<1>4. calls' = [calls EXCEPT ![c] = [[calls[c] EXCEPT !.metered = metered] EXCEPT !.stage = stage]]
    BY <1>1, <1>2
<1>5. calls' = [calls EXCEPT ![c] = [calls[c] EXCEPT !.stage = stage, !.metered = metered]]
    BY <1>3, <1>4
<1> QED
    BY <1>5 DEF stage

LEMMA NewLines ==
    ASSUME CaptureInv, NEW c \in DOMAIN calls, NEW n \in Nat,
           NEW type \in {"llm_call", "backend_llm_call", "cache_warm"}
    PROVE  /\ Lines(c, type, n) \subseteq LineOf(Len(calls))
           /\ \A l \in Lines(c, type, n) : l = [call |-> c, type |-> type, index |-> n]
           /\ [call |-> c, type |-> type, index |-> n] \in Lines(c, type, n)
           /\ lines \subseteq LineOf(Len(calls)) /\ pending \subseteq CallbackOf(Len(calls))
           /\ calls[c].index \in Nat
           /\ \A bound \in BOOLEAN : [call |-> c, bound |-> bound] \in CallbackOf(Len(calls))
<1>1. calls[c] \in CallOf /\ c \in 1 .. Len(calls) /\ DOMAIN calls = 1 .. Len(calls)
      /\ lines \subseteq LineOf(Len(calls)) /\ pending \subseteq CallbackOf(Len(calls))
    BY DEF CaptureInv, CaptureTyped
<1> QED
    BY <1>1 DEF Lines, LineOf, CallOf, CallbackOf

LEMMA EndingKeeps ==
    ASSUME CaptureInv, NEW c,
           Fail(c) \/ FinishStream(c) \/ DropStream(c) \/ CollectStream(c)
    PROVE  CaptureInv'
<1>1. c \in DOMAIN calls
    BY DEF Fail, FinishStream, DropStream, CollectStream
<1>2. calls[c].metered \in BOOLEAN /\ calls[c].index \in Nat /\ DOMAIN calls = 1 .. Len(calls)
    <2>1. calls \in Seq(CallOf) /\ DOMAIN calls = 1 .. Len(calls)
        BY DEF CaptureInv, CaptureTyped
    <2>2. calls[c] \in CallOf
        BY <1>1, <2>1
    <2> QED
        BY <2>1, <2>2 DEF CallOf
<1>3. /\ lines \subseteq LineOf(Len(calls)) /\ pending \subseteq CallbackOf(Len(calls))
      /\ Lines(c, "backend_llm_call", calls[c].index) \subseteq LineOf(Len(calls))
      /\ \A l \in Lines(c, "backend_llm_call", calls[c].index) : l.type = "backend_llm_call"
    <2>1. /\ Lines(c, "backend_llm_call", calls[c].index) \subseteq LineOf(Len(calls))
          /\ lines \subseteq LineOf(Len(calls)) /\ pending \subseteq CallbackOf(Len(calls))
        BY <1>1, <1>2, NewLines
    <2> QED
        BY <2>1 DEF Lines
<1>4. calls[c].stage \in {"ended", "dropped"} => calls[c].kind = "stream"
    BY <1>1, <1>2 DEF CaptureInv, CallsAgree
<1>5. CASE Fail(c)
    <2>1. calls' = [calls EXCEPT ![c] = [calls[c] EXCEPT !.stage = "failed", !.metered = calls[c].metered]]
        BY <1>1, <1>5, StageIs DEF Fail
    <2> QED
        BY <1>1, <1>2, <1>3, <1>5, <2>1, StageKeeps DEF Fail
<1>6. CASE FinishStream(c)
    <2>1. calls' = [calls EXCEPT ![c] = [calls[c] EXCEPT !.stage = "closed", !.metered = calls[c].metered]]
        BY <1>1, <1>6, StageIs DEF FinishStream
    <2>2. calls[c].stage = "ended" /\ calls[c].kind = "stream"
        BY <1>4, <1>6 DEF FinishStream
    <2>3. lines' \subseteq LineOf(Len(calls)) /\ \A l \in lines' \ lines : l.type # "llm_call"
        BY <1>3, <1>6 DEF FinishStream
    <2> QED
        BY <1>1, <1>2, <1>3, <1>6, <2>1, <2>2, <2>3, StageKeeps DEF FinishStream
<1>7. CASE DropStream(c)
    <2>1. calls' = [calls EXCEPT ![c] = [calls[c] EXCEPT !.stage = "dropped", !.metered = calls[c].metered]]
        BY <1>1, <1>7, StageIs DEF DropStream
    <2> QED
        BY <1>1, <1>2, <1>3, <1>7, <2>1, StageKeeps DEF DropStream
<1>8. CASE CollectStream(c)
    <2>1. calls' = [calls EXCEPT ![c] = [calls[c] EXCEPT !.stage = "failed", !.metered = calls[c].metered]]
        BY <1>1, <1>8, StageIs DEF CollectStream
    <2>2. calls[c].stage = "dropped" /\ calls[c].kind = "stream"
        BY <1>4, <1>8 DEF CollectStream
    <2>3. /\ owned' = owned \ {StreamKey(calls[c])}
          /\ pending' = pending /\ lines' = lines /\ UNCHANGED <<now, store, reported>>
        BY <1>8 DEF CollectStream
    <2>4. pending' \subseteq CallbackOf(Len(calls)) /\ lines' \subseteq LineOf(Len(calls))
        BY <1>3, <2>3
    <2>5. PICK stage \in {"failed"}, metered \in BOOLEAN : metered = calls[c].metered
        BY <1>2
    <2>6. calls' = [calls EXCEPT ![c] = [calls[c] EXCEPT !.stage = stage, !.metered = metered]]
        BY <2>1, <2>5
    <2> QED
        BY <1>1, <2>2, <2>3, <2>4, <2>6, StageKeeps
<1> QED
    BY <1>5, <1>6, <1>7, <1>8

LEMMA ReturnsKeep ==
    ASSUME CaptureInv, NEW c, NEW metered \in BOOLEAN, NEW bound \in BOOLEAN,
           ReturnTurn(c, metered, bound) \/ Deliver(c, metered, bound)
    PROVE  CaptureInv'
<1>1. c \in DOMAIN calls /\ Answered(c, metered, bound)
    BY DEF ReturnTurn, Deliver
<1> DEFINE stage == IF calls[c].kind = "stream" THEN "ended" ELSE "closed"
<1>2. /\ stage \in {"ended", "closed"} /\ calls[c].stage = "sent"
      /\ calls' = [calls EXCEPT ![c] = [calls[c] EXCEPT !.stage = stage, !.metered = metered]]
    <2>1. stage \in {"ended", "closed"} /\ calls[c].stage = "sent"
        BY <1>1 DEF Answered
    <2>2. calls' = [calls EXCEPT ![c] = [calls[c] EXCEPT !.stage = stage, !.metered = metered]]
        BY <1>1, AnsweredIs
    <2> QED
        BY <2>1, <2>2
<1>3. /\ lines \subseteq LineOf(Len(calls)) /\ pending' \subseteq CallbackOf(Len(calls))
      /\ Lines(c, "backend_llm_call", calls[c].index) \subseteq LineOf(Len(calls))
      /\ \A l \in Lines(c, "backend_llm_call", calls[c].index) : l.type = "backend_llm_call"
    <2>1. calls[c].index \in Nat
        BY <1>1, NewLines
    <2>2. /\ Lines(c, "backend_llm_call", calls[c].index) \subseteq LineOf(Len(calls))
          /\ lines \subseteq LineOf(Len(calls)) /\ pending \subseteq CallbackOf(Len(calls))
          /\ [call |-> c, bound |-> bound] \in CallbackOf(Len(calls))
        BY <1>1, <2>1, NewLines
    <2> QED
        BY <1>1, <2>2 DEF Answered, Lines
<1>4. /\ calls[c].kind \in {"turn", "probe", "stream"}
      /\ stage = "ended" => calls[c].kind = "stream"
      /\ owned' = owned /\ UNCHANGED <<now, store, reported>>
    BY DEF ReturnTurn, Deliver
<1>5. lines \subseteq lines' /\ lines' \subseteq LineOf(Len(calls))
      /\ \A l \in lines' \ lines : l.type # "llm_call"
    BY <1>3 DEF ReturnTurn, Deliver
<1>6. calls[c].kind # "stream" => stage = "closed"
    OBVIOUS
<1>7. stage = "closed" => calls[c].kind # "stream"
    OBVIOUS
<1> HIDE DEF stage
<1>8. /\ stage \in {"ended", "dropped"} => calls[c].kind = "stream" /\ owned' = owned
      /\ stage \in {"closed", "failed"} =>
             owned' = owned \ (IF calls[c].kind = "stream" THEN {StreamKey(calls[c])} ELSE {})
    BY <1>2, <1>4, <1>6, <1>7
<1> QED
    BY <1>1, <1>2, <1>3, <1>4, <1>5, <1>8, StageKeeps

\* The count of one key is one call longer, the others are what they were.
CountedUnder(key, c) ==
    /\ key \in Keys /\ store' \in [Keys -> Seq(Nat)] /\ Len(store[key]) \in Nat
    /\ \A k \in Keys : k # key => store'[k] = store[k]
    /\ Len(store'[key]) = Len(store[key]) + 1 /\ store'[key][Len(store[key]) + 1] = c
    /\ \A i \in 1 .. Len(store[key]) : store'[key][i] = store[key][i]
    /\ \A k \in Keys : \A i \in DOMAIN store'[k] : store'[k][i] \in 1 .. Len(calls)

\* A call is counted under its own key: the numbers of that key go on.
LEMMA CountingKeeps ==
    ASSUME CaptureInv, NEW c \in DOMAIN calls, NEW key, key = <<calls[c].d, Role(calls[c])>>,
           store' = Count(key, c), now' = now,
           calls' \in Seq(CallOf), Len(calls') = Len(calls),
           \A o \in DOMAIN calls : calls'[o].d = calls[o].d /\ Role(calls'[o]) = Role(calls[o])
                                    /\ calls'[o].kind = calls[o].kind,
           calls[c].kind # "probe",
           lines \subseteq lines', Lines(c, "llm_call", Len(store'[key])) \subseteq lines',
           \A l \in lines' \ lines : l.type = "llm_call" => l \in Lines(c, "llm_call", Len(store'[key]))
    PROVE  CountedUnder(key, c) /\ TokensStayHome' /\ IndexesAreUnique'
<1> DEFINE n == Len(calls)
           m == Len(store[key])
<1>1. /\ n \in Nat /\ DOMAIN calls = 1 .. n /\ calls[c] \in CallOf /\ c \in Nat
      /\ store \in [Keys -> Seq(Nat)] /\ lines \subseteq LineOf(n)
      /\ now \in 0 .. Started
      /\ \A k \in Keys : \A i \in DOMAIN store[k] : store[k][i] \in 1 .. n
    BY DEF CaptureInv, CaptureTyped
<1>2. Role(calls[c]) \in {"helper", "executor"} /\ calls[c].d \in 1 .. Started
    BY <1>1 DEF CallOf, Role
<1>3. key \in Keys
    BY <1>2, KeysKnown
<1>4. store[key] \in Seq(Nat) /\ m \in Nat /\ DOMAIN store[key] = 1 .. m
    BY <1>1, <1>3
<1>5. /\ store' \in [Keys -> Seq(Nat)] /\ store'[key] = Append(store[key], c)
      /\ \A k \in Keys : k # key => store'[k] = store[k]
    BY <1>1, <1>3, <1>4 DEF Count
<1>6. /\ Len(store'[key]) = m + 1 /\ store'[key][m + 1] = c /\ DOMAIN store'[key] = 1 .. m + 1
      /\ \A i \in 1 .. m : store'[key][i] = store[key][i]
    <2>1. \A s \in Seq(Nat) : \A e \in Nat :
            /\ Len(Append(s, e)) = Len(s) + 1 /\ Append(s, e)[Len(s) + 1] = e
            /\ DOMAIN Append(s, e) = 1 .. Len(s) + 1
            /\ \A i \in 1 .. Len(s) : Append(s, e)[i] = s[i]
        OBVIOUS
    <2>2. store[key] \in Seq(Nat) /\ c \in Nat
        BY <1>1, <1>4
    <2>3. /\ Len(Append(store[key], c)) = Len(store[key]) + 1
          /\ Append(store[key], c)[Len(store[key]) + 1] = c
          /\ DOMAIN Append(store[key], c) = 1 .. Len(store[key]) + 1
          /\ \A i \in 1 .. Len(store[key]) : Append(store[key], c)[i] = store[key][i]
        BY <2>1, <2>2
    <2> QED
        BY <1>5, <2>3
<1> HIDE DEF n, m
<1>7. \A i \in 1 .. m + 1 : i \in 1 .. m \/ i = m + 1
    BY <1>4 DEF m
<1>8. \A k \in Keys : \A i \in DOMAIN store'[k] :
         store'[k][i] = c \/ (i \in DOMAIN store[k] /\ store'[k][i] = store[k][i])
    BY <1>4, <1>5, <1>6, <1>7
<1>9. \A k \in Keys : \A i \in DOMAIN store'[k] : store'[k][i] \in 1 .. n
    BY <1>1, <1>8
<1>10. TokensStayHome'
    <2>1. ASSUME NEW k \in Keys, k[1] > 0, NEW i \in DOMAIN store'[k]
          PROVE  calls'[store'[k][i]].d = k[1] /\ Role(calls'[store'[k][i]]) = k[2]
                /\ calls'[store'[k][i]].kind # "probe"
        <3>1. CASE k # key
            <4>1. store'[k][i] = store[k][i] /\ i \in DOMAIN store[k] /\ store[k][i] \in DOMAIN calls
                BY <1>1, <1>5, <2>1, <3>1
            <4>2. calls[store[k][i]].d = k[1] /\ Role(calls[store[k][i]]) = k[2]
                  /\ calls[store[k][i]].kind # "probe"
                BY <2>1, <4>1 DEF CaptureInv, TokensStayHome, ToSet
            <4> QED
                BY <4>1, <4>2
        <3>2. CASE k = key
            <4>1. CASE store'[k][i] = c
                BY <3>2, <4>1
            <4>2. CASE i \in DOMAIN store[k] /\ store'[k][i] = store[k][i]
                <5>1. store[k][i] \in DOMAIN calls
                    BY <1>1, <4>2
                <5>2. calls[store[k][i]].d = k[1] /\ Role(calls[store[k][i]]) = k[2]
                      /\ calls[store[k][i]].kind # "probe"
                    BY <2>1, <4>2 DEF CaptureInv, TokensStayHome, ToSet
                <5> QED
                    BY <4>2, <5>1, <5>2
            <4> QED
                BY <1>8, <4>1, <4>2
        <3> QED
            BY <3>1, <3>2
    <2>2. ASSUME NEW k \in Keys, k[1] > 0, NEW o \in ToSet(store'[k])
          PROVE  calls'[o].d = k[1] /\ Role(calls'[o]) = k[2] /\ calls'[o].kind # "probe"
        <3>1. PICK i \in DOMAIN store'[k] : store'[k][i] = o
            BY <2>2 DEF ToSet
        <3> QED
            BY <2>1, <2>2, <3>1
    <2> QED
        BY <2>2 DEF TokensStayHome
<1>11. ASSUME NEW r \in {"helper", "executor"}, now > 0
       PROVE  LET counted == {l \in lines' : l.type = "llm_call" /\ calls'[l.call].d = now
                                                /\ Role(calls'[l.call]) = r}
              IN /\ {l.index : l \in counted} = DOMAIN store'[<<now, r>>]
                 /\ \A l, o \in counted : l.index = o.index => l = o
    <2> DEFINE prior == {l \in lines : l.type = "llm_call" /\ calls[l.call].d = now /\ Role(calls[l.call]) = r}
               new == {l \in lines' : l.type = "llm_call" /\ calls'[l.call].d = now /\ Role(calls'[l.call]) = r}
               line == [call |-> c, type |-> "llm_call", index |-> m + 1]
    <2>1. {l.index : l \in prior} = DOMAIN store[<<now, r>>] /\ \A l, o \in prior : l.index = o.index => l = o
        BY <1>11 DEF CaptureInv, IndexesAreUnique
    <2>2. line \in lines' /\ \A l \in lines' \ lines : l.type = "llm_call" => l = line
        <3>1. line \in Lines(c, "llm_call", m + 1) /\ \A l \in Lines(c, "llm_call", m + 1) : l = line
            BY DEF Lines
        <3> QED
            BY <1>6, <3>1
    <2>3. \A l \in lines : l.call \in DOMAIN calls
        BY <1>1 DEF LineOf
    <2>4. line.call = c /\ line.type = "llm_call" /\ line.index = m + 1
        OBVIOUS
    <2> HIDE DEF line
    <2>5. <<now, r>> \in Keys
        BY <1>1, KeysKnown
    <2>6. CASE key = <<now, r>>
        <3>1. calls[c].d = now /\ Role(calls[c]) = r
            BY <2>6
        <3>2. new = prior \union {line}
            BY <2>2, <2>3, <2>4, <3>1
        <3>3. DOMAIN store'[<<now, r>>] = DOMAIN store[<<now, r>>] \union {m + 1}
              /\ m + 1 \notin DOMAIN store[<<now, r>>]
            <4>1. 1 .. m + 1 = (1 .. m) \union {m + 1} /\ m + 1 \notin 1 .. m
                BY <1>4 DEF m
            <4> QED
                BY <1>4, <1>6, <2>6, <4>1 DEF m
        <3> HIDE DEF new, prior
        <3>4. {l.index : l \in new} = {l.index : l \in prior} \union {m + 1}
            BY <2>4, <3>2
        <3>5. \A l \in prior : l.index \in DOMAIN store[<<now, r>>]
            BY <2>1
        <3>6. ASSUME NEW l \in prior PROVE l.index # line.index
            <4>1. l.index # m + 1
                BY <3>3, <3>5
            <4> QED
                BY <2>4, <4>1
        <3> QED
            BY <2>1, <3>2, <3>3, <3>4, <3>6 DEF new
    <2>7. CASE key # <<now, r>>
        <3>1. ~(calls[c].d = now /\ Role(calls[c]) = r)
            BY <2>7
        <3>2. new = prior
            BY <2>2, <2>3, <2>4, <3>1
        <3>3. store'[<<now, r>>] = store[<<now, r>>]
            BY <1>5, <2>5, <2>7
        <3> HIDE DEF prior
        <3> QED
            BY <2>1, <3>2, <3>3
    <2> QED
        BY <2>6, <2>7
<1>12. IndexesAreUnique'
    <2>1. ASSUME now > 0
          PROVE  \A r \in {"helper", "executor"} :
                   LET counted == {l \in lines' : l.type = "llm_call" /\ calls'[l.call].d = now
                                                    /\ Role(calls'[l.call]) = r}
                   IN /\ {l.index : l \in counted} = DOMAIN store'[<<now, r>>]
                      /\ \A l, o \in counted : l.index = o.index => l = o
        BY <1>11, <2>1
    <2>2. now' = now
        OBVIOUS
    <2> QED
        BY ONLY <2>1, <2>2 DEF IndexesAreUnique
<1> QED
    BY <1>3, <1>4, <1>5, <1>6, <1>9, <1>10, <1>12 DEF CountedUnder, n, m

LEMMA HelperReturnKeeps ==
    ASSUME CaptureInv, NEW c, NEW metered \in BOOLEAN, NEW bound \in BOOLEAN,
           ReturnHelper(c, metered, bound)
    PROVE  CaptureInv'
<1> DEFINE n == Len(calls)
           k == [calls[c] EXCEPT !.stage = "closed", !.metered = metered]
<1>0. PICK key : key = <<calls[c].d, "helper">>
    OBVIOUS
<1>1. /\ c \in DOMAIN calls /\ Answered(c, metered, bound) /\ calls[c].kind = "helper"
      /\ calls[c].stage = "sent" /\ UNCHANGED <<now, owned, reported>>
    BY DEF ReturnHelper, Answered
<1>2. /\ n \in Nat /\ DOMAIN calls = 1 .. n /\ calls \in Seq(CallOf) /\ calls[c] \in CallOf
      /\ store \in [Keys -> Seq(Nat)] /\ now \in 0 .. Started /\ reported \in [1 .. Started -> SUBSET Nat]
      /\ \A e \in Keys : \A i \in DOMAIN store[e] : store[e][i] \in 1 .. n
    BY <1>1 DEF CaptureInv, CaptureTyped
<1>3. calls' = [calls EXCEPT ![c] = k]
    BY <1>1, StageIs DEF Answered
<1>4. /\ k \in CallOf /\ k.stage = "closed" /\ k.kind = "helper" /\ k.d = calls[c].d
      /\ StreamKey(k) = StreamKey(calls[c]) /\ Role(k) = Role(calls[c]) /\ Role(calls[c]) = "helper"
    BY <1>1, <1>2 DEF CallOf, StreamKey, Role
<1> HIDE DEF k
<1>5. /\ calls' \in Seq(CallOf) /\ Len(calls') = n /\ DOMAIN calls' = 1 .. n
      /\ calls'[c] = k /\ \A o \in 1 .. n : o # c => calls'[o] = calls[o]
    BY <1>1, <1>2, <1>3, <1>4
<1>6. /\ store' = Count(key, c) /\ key = <<calls[c].d, Role(calls[c])>>
      /\ lines' = lines \union Lines(c, "llm_call", Len(store'[key]))
                         \union Lines(c, "backend_llm_call", Len(store'[key]))
    BY <1>0, <1>4 DEF ReturnHelper
<1>7. \A l \in lines' \ lines : l.type = "llm_call" => l \in Lines(c, "llm_call", Len(store'[key]))
    BY <1>6 DEF Lines
<1> HIDE DEF n
<1>8. /\ key \in Keys /\ store' \in [Keys -> Seq(Nat)] /\ Len(store[key]) \in Nat
      /\ \A e \in Keys : e # key => store'[e] = store[e]
      /\ Len(store'[key]) = Len(store[key]) + 1 /\ store'[key][Len(store[key]) + 1] = c
      /\ \A i \in 1 .. Len(store[key]) : store'[key][i] = store[key][i]
      /\ \A e \in Keys : \A i \in DOMAIN store'[e] : store'[e][i] \in 1 .. n
      /\ TokensStayHome' /\ IndexesAreUnique'
    <2>1. \A o \in DOMAIN calls : calls'[o].d = calls[o].d /\ Role(calls'[o]) = Role(calls[o])
                                  /\ calls'[o].kind = calls[o].kind
        BY <1>1, <1>2, <1>4, <1>5
    <2>2. lines \subseteq lines' /\ Lines(c, "llm_call", Len(store'[key])) \subseteq lines'
        BY <1>6
    <2>3. now' = now /\ Len(calls') = Len(calls) /\ calls' \in Seq(CallOf)
        BY <1>1, <1>5 DEF n
    <2>4. CaptureInv /\ c \in DOMAIN calls /\ store' = Count(key, c) /\ key = <<calls[c].d, Role(calls[c])>>
          /\ calls[c].kind # "probe"
        BY <1>1, <1>6
    <2>5. CountedUnder(key, c) /\ TokensStayHome' /\ IndexesAreUnique'
        BY <1>7, <2>1, <2>2, <2>3, <2>4, CountingKeeps
    <2> QED
        BY <2>5 DEF CountedUnder, n
<1>9. CaptureTyped'
    <2>1. Lines(c, "llm_call", Len(store'[key])) \subseteq LineOf(n)
          /\ Lines(c, "backend_llm_call", Len(store'[key])) \subseteq LineOf(n)
          /\ lines \subseteq LineOf(n)
        <3>1. Len(store'[key]) \in Nat
            BY <1>8
        <3> QED
            BY <1>1, <3>1, NewLines DEF n
    <2>2. pending' \subseteq CallbackOf(n)
        <3>1. pending \subseteq CallbackOf(n) /\ [call |-> c, bound |-> bound] \in CallbackOf(n)
            BY <1>1, NewLines DEF n
        <3>2. \A x \in pending' : x \in pending \/ x = [call |-> c, bound |-> bound]
            BY <1>1 DEF Answered
        <3> QED
            BY <3>1, <3>2
    <2>3. lines' \subseteq LineOf(n)
        BY <1>6, <2>1
    <2> QED
        BY <1>1, <1>2, <1>5, <1>8, <2>2, <2>3 DEF CaptureTyped, n
<1>10. CallsAgree' /\ KeysHaveOwners' /\ StreamsOwned'
    <2>1. CallsAgree'
        BY <1>1, <1>2, <1>4, <1>5 DEF CaptureInv, CallsAgree, n
    <2>2. KeysHaveOwners'
        BY <1>1, <1>2, <1>4, <1>5 DEF CaptureInv, KeysHaveOwners
    <2>3. ASSUME NEW o \in 1 .. n, calls'[o].kind = "stream"
          PROVE  StreamKey(calls'[o]) \in owned' \/ Over(StreamKey(calls[o]))'
        <3>1. o # c /\ calls'[o] = calls[o]
            BY <1>4, <1>5, <2>3
        <3>2. StreamKey(calls[o]) \in owned \/ Over(StreamKey(calls[o]))
            BY <2>3, <3>1 DEF CaptureInv, StreamsOwned, n
        <3>3. Over(StreamKey(calls[o])) => Over(StreamKey(calls[o]))'
            BY <1>1, <1>2, <1>5, <3>1 DEF Over
        <3> QED
            BY <1>1, <3>1, <3>2, <3>3
    <2> QED
        BY <1>5, <2>1, <2>2, <2>3 DEF StreamsOwned
<1>11. OwnedUntilClosed'
    <2>1. ASSUME NEW e \in Keys, e[1] > 0, e[2] = "executor", NEW q \in ToSet(store'[e])
          PROVE  \E o \in DOMAIN calls' : /\ StreamKey(calls'[o]) = StreamKey(calls'[q])
                                          /\ calls'[o].kind = "stream"
                                          /\ calls'[o].stage \in {"closed", "failed"}
        <3>1. e # key
            BY <1>0, <2>1
        <3>2. store'[e] = store[e] /\ q \in 1 .. n
            BY <1>2, <1>8, <2>1, <3>1 DEF ToSet
        <3>3. PICK o \in DOMAIN calls : /\ StreamKey(calls[o]) = StreamKey(calls[q])
                                        /\ calls[o].kind = "stream"
                                        /\ calls[o].stage \in {"closed", "failed"}
            BY <2>1, <3>2 DEF CaptureInv, OwnedUntilClosed
        <3>4. StreamKey(calls'[q]) = StreamKey(calls[q]) /\ calls'[o] = calls[o]
            BY <1>1, <1>2, <1>4, <1>5, <3>2, <3>3
        <3> QED
            BY <1>2, <1>5, <3>3, <3>4
    <2> QED
        BY <2>1 DEF OwnedUntilClosed
<1>12. HelpersStored'
    <2> DEFINE m == Len(store[key])
    <2>1. DOMAIN store'[key] = 1 .. m + 1 /\ DOMAIN store[key] = 1 .. m /\ m \in Nat
        BY <1>2, <1>8
    <2>2. /\ \A i \in 1 .. m + 1 : i \in 1 .. m \/ i = m + 1
          /\ m + 1 \in 1 .. m + 1 /\ \A i \in 1 .. m : i \in 1 .. m + 1
        BY <2>1
    <2>3. store'[key][m + 1] = c /\ \A i \in 1 .. m : store'[key][i] = store[key][i]
        BY <1>8
    <2> HIDE DEF m
    <2>4. ASSUME NEW d \in 1 .. Started, NEW i \in DOMAIN store[<<d, "helper">>]
          PROVE  /\ store[<<d, "helper">>][i] \in 1 .. n /\ store[<<d, "helper">>][i] # c
                 /\ calls[store[<<d, "helper">>][i]].stage = "closed"
        BY <1>1, <1>2, KeysKnown DEF CaptureInv, HelpersStored
    <2>5. ASSUME NEW d \in 1 .. Started, NEW i \in DOMAIN store'[<<d, "helper">>]
          PROVE  /\ calls'[store'[<<d, "helper">>][i]].stage = "closed"
                 /\ \A j \in DOMAIN store'[<<d, "helper">>] :
                      store'[<<d, "helper">>][i] = store'[<<d, "helper">>][j] => i = j
        <3>1. \A j \in DOMAIN store[<<d, "helper">>] : \A l \in DOMAIN store[<<d, "helper">>] :
                store[<<d, "helper">>][j] = store[<<d, "helper">>][l] => j = l
            BY DEF CaptureInv, HelpersStored
        <3>2. CASE <<d, "helper">> = key
            <4>1. \A j \in 1 .. m : /\ store'[key][j] # c /\ calls'[store'[key][j]].stage = "closed"
                                    /\ \A l \in 1 .. m : store'[key][j] = store'[key][l] => j = l
                <5>1. \A j \in 1 .. m : /\ store[key][j] \in 1 .. n /\ store[key][j] # c
                                        /\ calls[store[key][j]].stage = "closed"
                    BY <2>1, <2>4, <3>2
                <5>2. \A j \in 1 .. m : \A l \in 1 .. m : store[key][j] = store[key][l] => j = l
                    BY <2>1, <3>1, <3>2
                <5> QED
                    BY <1>5, <2>3, <5>1, <5>2
            <4>2. i \in 1 .. m \/ i = m + 1
                BY <2>1, <2>2, <3>2
            <4>3. calls'[store'[key][i]].stage = "closed"
                BY <1>4, <1>5, <2>3, <4>1, <4>2
            <4>4. ASSUME NEW j \in 1 .. m + 1, store'[key][i] = store'[key][j] PROVE i = j
                BY <2>2, <2>3, <4>1, <4>2, <4>4
            <4> QED
                BY <2>1, <3>2, <4>3, <4>4
        <3>3. CASE <<d, "helper">> # key
            <4>1. store'[<<d, "helper">>] = store[<<d, "helper">>]
                BY <1>8, <3>3, KeysKnown
            <4>2. i \in DOMAIN store[<<d, "helper">>]
                BY <4>1
            <4>3. /\ store[<<d, "helper">>][i] \in 1 .. n /\ store[<<d, "helper">>][i] # c
                  /\ calls[store[<<d, "helper">>][i]].stage = "closed"
                BY <2>4, <4>2
            <4>4. calls'[store[<<d, "helper">>][i]].stage = "closed"
                BY <1>5, <4>3
            <4> QED
                BY <3>1, <4>1, <4>2, <4>4
        <3> QED
            BY <3>2, <3>3
    <2>6. ASSUME NEW o \in 1 .. n, calls'[o].kind = "helper", calls'[o].stage = "closed", calls'[o].d = now
          PROVE  \E i \in DOMAIN store'[<<now, "helper">>] : store'[<<now, "helper">>][i] = o
        <3>1. CASE o = c
            <4>1. key = <<now, "helper">>
                BY <1>0, <1>4, <1>5, <2>6, <3>1
            <4> QED
                BY <2>1, <2>2, <2>3, <3>1, <4>1
        <3>2. CASE o # c
            <4>1. PICK i \in DOMAIN store[<<now, "helper">>] : store[<<now, "helper">>][i] = o
                BY <1>5, <2>6, <3>2 DEF CaptureInv, HelpersStored, n
            <4>2. CASE key = <<now, "helper">>
                BY <2>1, <2>2, <2>3, <4>1, <4>2
            <4>3. CASE key # <<now, "helper">>
                BY <1>2, <1>8, <4>1, <4>3, KeysKnown
            <4> QED
                BY <4>2, <4>3
        <3> QED
            BY <3>1, <3>2
    <2>7. now' = now /\ Len(calls') = n
        BY <1>1, <1>5
    <2> QED
        BY <2>5, <2>6, <2>7 DEF HelpersStored
<1> QED
    BY <1>8, <1>9, <1>10, <1>11, <1>12 DEF CaptureInv

LEMMA CallbackKeeps ==
    ASSUME CaptureInv, NEW p \in pending, Callback(p)
    PROVE  CaptureInv'
<1> DEFINE n == Len(calls)
           c == p.call
<1>1. /\ n \in Nat /\ DOMAIN calls = 1 .. n /\ calls \in Seq(CallOf) /\ c \in 1 .. n
      /\ p.bound \in BOOLEAN /\ calls[c] \in CallOf /\ store \in [Keys -> Seq(Nat)]
      /\ now \in 0 .. Started /\ reported \in [1 .. Started -> SUBSET Nat]
      /\ \A e \in Keys : \A i \in DOMAIN store[e] : store[e][i] \in 1 .. n
      /\ pending \subseteq CallbackOf(n) /\ lines \subseteq LineOf(n)
    <2>1. /\ n \in Nat /\ DOMAIN calls = 1 .. n /\ calls \in Seq(CallOf) /\ pending \subseteq CallbackOf(n)
          /\ store \in [Keys -> Seq(Nat)] /\ lines \subseteq LineOf(n)
          /\ now \in 0 .. Started /\ reported \in [1 .. Started -> SUBSET Nat]
          /\ \A e \in Keys : \A i \in DOMAIN store[e] : store[e][i] \in 1 .. n
        BY DEF CaptureInv, CaptureTyped
    <2>2. c \in 1 .. n /\ p.bound \in BOOLEAN
        BY <2>1 DEF CallbackOf
    <2> QED
        BY <2>1, <2>2
<1>2. PICK key, counts : /\ key = Key(p) /\ counts = (Unowned(p) \/ FreeStream(p)) /\ counts \in BOOLEAN
                         /\ Handle(p, key, counts)
    BY DEF Callback
<1>3. /\ pending' \subseteq CallbackOf(n) /\ UNCHANGED <<now, calls, owned, reported>>
    BY <1>1, <1>2 DEF Handle
<1> HIDE DEF n, c
<1>4. CASE ~counts
    <2>1. store' = store /\ lines \subseteq lines'
        BY <1>2, <1>4 DEF Handle
    <2>2. lines' \subseteq lines \union Lines(c, "cache_warm", 0)
        BY <1>2, <1>4 DEF Handle, c
    <2>3. /\ Lines(c, "cache_warm", 0) \subseteq LineOf(n)
          /\ \A l \in Lines(c, "cache_warm", 0) : l.type = "cache_warm"
        <3>1. Lines(c, "cache_warm", 0) \subseteq LineOf(n)
            BY <1>1, NewLines DEF n
        <3> QED
            BY <3>1 DEF Lines
    <2>4. lines' \subseteq LineOf(n) /\ \A l \in lines' \ lines : l.type # "llm_call"
        BY <1>1, <2>2, <2>3
    <2>5. GoesOn(n)
        <3>1. n + 1 .. n = {} /\ n <= n
            BY <1>1
        <3> QED
            BY <1>1, <1>3, <2>1, <3>1 DEF CaptureInv, CallsAgree, GoesOn, n
    <2>6. StreamsOwned' /\ KeysHaveOwners'
        <3>1. StreamsOwned'
            BY <1>3 DEF CaptureInv, StreamsOwned, Over
        <3>2. KeysHaveOwners'
            BY <1>3 DEF CaptureInv, KeysHaveOwners
        <3> QED
            BY <3>1, <3>2
    <2> QED
        BY <1>3, <2>1, <2>4, <2>5, <2>6, CallsGoOn DEF n
<1>5. ASSUME counts PROVE CallsAgree' /\ StreamsOwned' /\ KeysHaveOwners'
    <2>1. CallsAgree'
        BY <1>3 DEF CaptureInv, CallsAgree
    <2>2. StreamsOwned'
        BY <1>3 DEF CaptureInv, StreamsOwned, Over
    <2>3. KeysHaveOwners'
        BY <1>3 DEF CaptureInv, KeysHaveOwners
    <2> QED
        BY <2>1, <2>2, <2>3
<1>6. ASSUME counts, NEW e, e \in Keys,
             store' \in [Keys -> Seq(Nat)], lines' \subseteq LineOf(n),
             \A k \in Keys : \A i \in DOMAIN store'[k] : store'[k][i] \in 1 .. n,
             \A k \in Keys : k # e => store'[k] = store[k],
             e[2] = "executor", TokensStayHome', IndexesAreUnique', OwnedUntilClosed'
      PROVE  CaptureInv'
    <2>1. CaptureTyped'
        BY <1>1, <1>3, <1>6 DEF CaptureTyped, n
    <2>2. HelpersStored'
        <3>1. \A d \in 0 .. Started : store'[<<d, "helper">>] = store[<<d, "helper">>]
            BY <1>6, KeysKnown
        <3>2. \A d \in 1 .. Started : d \in 0 .. Started
            BY CaptureConstants
        <3>3. UNCHANGED <<now, calls>> /\ store'[<<now, "helper">>] = store[<<now, "helper">>]
            BY <1>1, <1>3, <3>1
        <3> QED
            BY <3>1, <3>2, <3>3 DEF CaptureInv, HelpersStored
    <2> QED
        BY <1>5, <1>6, <2>1, <2>2 DEF CaptureInv
<1>7. CASE counts /\ ~p.bound
    <2>1. key = <<0, "executor">> /\ key \in Keys /\ lines' = lines
        <3>1. key = <<0, "executor">> /\ lines' = lines
            BY <1>2, <1>7 DEF Handle, Key
        <3>2. 0 \in 0 .. Started
            BY CaptureConstants
        <3> QED
            BY <3>1, <3>2, KeysKnown
    <2>2. store[key] \in Seq(Nat) /\ c \in Nat
        BY <1>1, <2>1
    <2>3. Append(store[key], c) \in Seq(Nat)
          /\ \A i \in DOMAIN Append(store[key], c) : Append(store[key], c)[i] = c
                 \/ (i \in DOMAIN store[key] /\ Append(store[key], c)[i] = store[key][i])
        BY <2>2
    <2>4. store' = [store EXCEPT ![key] = Append(store[key], c)]
        BY <1>2, <1>7 DEF Handle, Count, c
    <2>5. /\ store' \in [Keys -> Seq(Nat)] /\ store'[key] = Append(store[key], c)
          /\ \A k \in Keys : k # key => store'[k] = store[k]
        BY <1>1, <2>1, <2>3, <2>4
    <2>6. \A k \in Keys : \A i \in DOMAIN store'[k] : store'[k][i] \in 1 .. n
        BY <1>1, <2>3, <2>5
    <2>7. \A k \in Keys : k[1] > 0 => store'[k] = store[k]
        BY <2>1, <2>5
    <2>8. TokensStayHome' /\ OwnedUntilClosed'
        <3>1. TokensStayHome'
            BY <1>3, <2>7 DEF CaptureInv, TokensStayHome
        <3>2. OwnedUntilClosed'
            BY <1>3, <2>7 DEF CaptureInv, OwnedUntilClosed
        <3> QED
            BY <3>1, <3>2
    <2>9. IndexesAreUnique'
        <3>1. now > 0 => \A r \in {"helper", "executor"} : store'[<<now, r>>] = store[<<now, r>>]
            <4>1. now > 0 => \A r \in {"helper", "executor"} : <<now, r>> \in Keys /\ <<now, r>>[1] > 0
                BY <1>1, KeysKnown
            <4> QED
                BY <2>7, <4>1
        <3> QED
            BY <1>3, <2>1, <3>1 DEF CaptureInv, IndexesAreUnique
    <2>10. key[2] = "executor" /\ lines' \subseteq LineOf(n)
        BY <1>1, <2>1
    <2> QED
        BY <1>6, <1>7, <2>1, <2>5, <2>6, <2>8, <2>9, <2>10
<1>8. CASE counts /\ p.bound
    <2>1. /\ key = <<calls[c].d, Role(calls[c])>> /\ calls[c].kind = "stream"
          /\ StreamKey(calls[c]) \notin owned
        BY <1>2, <1>8 DEF Key, Unowned, FreeStream, c
    <2>2. Role(calls[c]) = "executor" /\ key[2] = "executor"
        BY <2>1 DEF Role
    <2>3. store' = Count(key, c) /\ lines' = lines \union Lines(c, "llm_call", Len(store'[key]))
        BY <1>2, <1>8 DEF Handle, c
    <2>4. CountedUnder(key, c) /\ TokensStayHome' /\ IndexesAreUnique'
        <3>1. /\ calls' \in Seq(CallOf) /\ Len(calls') = Len(calls) /\ now' = now /\ c \in DOMAIN calls
              /\ \A o \in DOMAIN calls : calls'[o].d = calls[o].d /\ Role(calls'[o]) = Role(calls[o])
                                        /\ calls'[o].kind = calls[o].kind
            BY <1>1, <1>3
        <3>2. /\ lines \subseteq lines' /\ Lines(c, "llm_call", Len(store'[key])) \subseteq lines'
              /\ \A l \in lines' \ lines : l.type = "llm_call" => l \in Lines(c, "llm_call", Len(store'[key]))
            BY <2>3
        <3>3. store' = Count(key, c) /\ key = <<calls[c].d, Role(calls[c])>> /\ calls[c].kind # "probe"
            BY <2>1, <2>3
        <3> QED
            BY <3>1, <3>2, <3>3, CountingKeeps
    <2>5. /\ key \in Keys /\ store' \in [Keys -> Seq(Nat)] /\ Len(store[key]) \in Nat
          /\ \A k \in Keys : k # key => store'[k] = store[k]
          /\ Len(store'[key]) = Len(store[key]) + 1 /\ store'[key][Len(store[key]) + 1] = c
          /\ \A i \in 1 .. Len(store[key]) : store'[key][i] = store[key][i]
          /\ \A k \in Keys : \A i \in DOMAIN store'[k] : store'[k][i] \in 1 .. n
        BY <2>4 DEF CountedUnder, n
    <2>6. lines' \subseteq LineOf(n)
        <3>1. Len(store'[key]) \in Nat /\ c \in DOMAIN calls
            BY <1>1, <2>5
        <3>2. Lines(c, "llm_call", Len(store'[key])) \subseteq LineOf(n)
            BY <3>1, NewLines DEF n
        <3> QED
            BY <1>1, <2>3, <3>2
    <2>7. OwnedUntilClosed'
        <3>1. ASSUME NEW k \in Keys, k[1] > 0, k[2] = "executor", NEW q \in ToSet(store'[k])
              PROVE  \E o \in DOMAIN calls : /\ StreamKey(calls[o]) = StreamKey(calls[q])
                                            /\ calls[o].kind = "stream"
                                            /\ calls[o].stage \in {"closed", "failed"}
            <4>1. CASE q \in ToSet(store[k])
                BY <3>1, <4>1 DEF CaptureInv, OwnedUntilClosed
            <4>2. CASE q = c
                <5>1. Over(StreamKey(calls[c]))
                    BY <1>1, <2>1 DEF CaptureInv, StreamsOwned, n
                <5> QED
                    BY <4>2, <5>1 DEF Over
            <4>3. q \in ToSet(store[k]) \/ q = c
                <5>1. PICK i \in DOMAIN store'[k] : store'[k][i] = q
                    BY <3>1 DEF ToSet
                <5>2. CASE k = key
                    <6>1. /\ DOMAIN store'[k] = 1 .. Len(store[k]) + 1 /\ DOMAIN store[k] = 1 .. Len(store[k])
                          /\ Len(store[k]) \in Nat
                        BY <1>1, <2>5, <5>2
                    <6>2. i = Len(store[k]) + 1 \/ i \in DOMAIN store[k]
                        BY <5>1, <6>1
                    <6> QED
                        BY <2>5, <5>1, <5>2, <6>1, <6>2 DEF ToSet
                <5>3. CASE k # key
                    BY <2>5, <5>1, <5>3 DEF ToSet
                <5> QED
                    BY <5>2, <5>3
            <4> QED
                BY <4>1, <4>2, <4>3
        <3> QED
            BY <1>3, <3>1 DEF OwnedUntilClosed
    <2> QED
        BY <1>6, <1>8, <2>2, <2>4, <2>5, <2>6, <2>7
<1> QED
    BY <1>2, <1>4, <1>7, <1>8

LEMMA StartKeeps == ASSUME CaptureInv, StartDelegation PROVE CaptureInv'
<1>1. /\ now \in 0 .. Started /\ calls \in Seq(CallOf) /\ store \in [Keys -> Seq(Nat)]
      /\ \A k \in Keys : \A i \in DOMAIN store[k] : store[k][i] \in 1 .. Len(calls)
      /\ DOMAIN calls = 1 .. Len(calls)
    BY DEF CaptureInv, CaptureTyped
<1>2. /\ now' = now + 1 /\ now' \in 1 .. Started /\ now < now'
      /\ UNCHANGED <<calls, owned, pending, lines, reported>>
    BY <1>1, CaptureConstants DEF StartDelegation
<1>3. /\ store' \in [Keys -> Seq(Nat)]
      /\ \A k \in Keys : store'[k] = store[k] \/ store'[k] = <<>>
      /\ \A k \in Keys : k[1] # now => store'[k] = store[k]
    BY <1>1 DEF StartDelegation
<1>4. \A k \in Keys : \A i \in DOMAIN store'[k] : i \in DOMAIN store[k] /\ store'[k][i] = store[k][i]
    BY <1>3
<1>5. \A c \in 1 .. Len(calls) : calls[c].d <= now /\ calls[c].d \in 1 .. Started
    <2>1. \A c \in 1 .. Len(calls) : calls[c] \in CallOf
        BY <1>1
    <2> QED
        BY <2>1 DEF CaptureInv, CallsAgree, CallOf
<1>6. \A c \in 1 .. Len(calls) : calls[c].d # now' /\ calls[c].d <= now'
    BY <1>1, <1>2, <1>5
<1>7. CaptureTyped'
    <2>1. now' \in 0 .. Started
        BY <1>2
    <2> QED
        BY <1>1, <1>2, <1>3, <1>4, <2>1 DEF CaptureInv, CaptureTyped
<1>8. CallsAgree'
    BY <1>2, <1>6 DEF CaptureInv, CallsAgree
<1>9. StreamsOwned'
    BY <1>2 DEF CaptureInv, StreamsOwned, Over
<1>10. KeysHaveOwners'
    BY <1>2 DEF CaptureInv, KeysHaveOwners
<1>11. \A k \in Keys : ToSet(store'[k]) \subseteq ToSet(store[k])
    BY <1>4 DEF ToSet
<1>12. TokensStayHome'
    BY <1>2, <1>11 DEF CaptureInv, TokensStayHome
<1>13. OwnedUntilClosed'
    BY <1>2, <1>11 DEF CaptureInv, OwnedUntilClosed
<1>14. HelpersStored'
    <2>1. \A d \in 1 .. Started : <<d, "helper">> \in Keys
        BY KeysKnown
    <2>2. ASSUME NEW d \in 1 .. Started, NEW i \in DOMAIN store'[<<d, "helper">>]
          PROVE  /\ calls[store'[<<d, "helper">>][i]].stage = "closed"
                 /\ \A j \in DOMAIN store'[<<d, "helper">>] :
                      store'[<<d, "helper">>][i] = store'[<<d, "helper">>][j] => i = j
        <3>1. \A j \in DOMAIN store'[<<d, "helper">>] :
                j \in DOMAIN store[<<d, "helper">>] /\ store'[<<d, "helper">>][j] = store[<<d, "helper">>][j]
            BY <1>4, <2>1
        <3> QED
            BY <3>1 DEF CaptureInv, HelpersStored
    <2>3. ASSUME NEW c \in 1 .. Len(calls), calls[c].d = now' PROVE FALSE
        BY <1>6, <2>3
    <2> QED
        BY <1>2, <2>2, <2>3 DEF HelpersStored
<1>15. IndexesAreUnique'
    <2>1. ASSUME NEW r \in {"helper", "executor"}
          PROVE  DOMAIN store'[<<now', r>>] = {}
        <3>1. <<now', r>> \in Keys /\ <<now', r>>[1] = now' /\ now' > 0
            <4>1. now' \in 0 .. Started /\ now' > 0
                BY <1>2, CaptureConstants
            <4>2. <<now', r>> \in Keys
                BY <4>1 DEF Keys
            <4> QED
                BY <4>1, <4>2
        <3>2. ASSUME NEW i \in DOMAIN store[<<now', r>>] PROVE FALSE
            <4>1. store[<<now', r>>][i] \in ToSet(store[<<now', r>>]) /\ store[<<now', r>>][i] \in 1 .. Len(calls)
                BY <1>1, <3>1 DEF ToSet
            <4>2. calls[store[<<now', r>>][i]].d = now'
                BY <3>1, <4>1 DEF CaptureInv, TokensStayHome
            <4> QED
                BY <1>6, <4>1, <4>2
        <3> QED
            BY <1>4, <3>1, <3>2
    <2>2. ASSUME NEW l \in lines, calls[l.call].d = now' PROVE FALSE
        <3>1. l.call \in 1 .. Len(calls)
            BY DEF CaptureInv, CaptureTyped, LineOf
        <3> QED
            BY <1>6, <2>2, <3>1
    <2>3. \A r \in {"helper", "executor"} :
            {l \in lines : l.type = "llm_call" /\ calls[l.call].d = now' /\ Role(calls[l.call]) = r} = {}
        BY <2>2
    <2> QED
        BY <1>2, <2>1, <2>3 DEF IndexesAreUnique
<1> QED
    BY <1>7, <1>8, <1>9, <1>10, <1>12, <1>13, <1>14, <1>15 DEF CaptureInv

LEMMA ReportKeeps == ASSUME CaptureInv, Report PROVE CaptureInv'
<1>1. /\ now \in 0 .. Started /\ calls \in Seq(CallOf) /\ store \in [Keys -> Seq(Nat)]
      /\ \A k \in Keys : \A i \in DOMAIN store[k] : store[k][i] \in 1 .. Len(calls)
      /\ DOMAIN calls = 1 .. Len(calls) /\ Len(calls) \in Nat /\ reported \in [1 .. Started -> SUBSET Nat]
    BY DEF CaptureInv, CaptureTyped
<1>2. UNCHANGED <<now, calls, owned, pending, store, lines>>
    BY DEF Report
<1>3. Usage("helper") \subseteq Nat /\ Usage("executor") \subseteq Nat /\ OwnTotals \subseteq Nat
    <2>1. <<now, "helper">> \in Keys /\ <<now, "executor">> \in Keys
        BY <1>1, KeysKnown
    <2>2. Usage("helper") \subseteq Nat /\ Usage("executor") \subseteq Nat
        BY <1>1, <2>1 DEF Usage, ToSet
    <2>3. OwnTotals \subseteq Nat
        BY <1>1 DEF OwnTotals
    <2> QED
        BY <2>2, <2>3
<1>4. reported' \in [1 .. Started -> SUBSET Nat]
    <2>1. PICK charged \in SUBSET Nat : reported' = [reported EXCEPT ![now] = charged]
        BY <1>3 DEF Report, HelperRecord
    <2> QED
        BY <1>1, <2>1
<1>5. CaptureTyped'
    BY <1>2, <1>4 DEF CaptureInv, CaptureTyped
<1>6. CallsAgree' /\ HelpersStored' /\ KeysHaveOwners'
    BY <1>2 DEF CaptureInv, CallsAgree, HelpersStored, KeysHaveOwners
<1>7. StreamsOwned'
    BY <1>2 DEF CaptureInv, StreamsOwned, Over
<1>8. OwnedUntilClosed' /\ TokensStayHome' /\ IndexesAreUnique'
    BY <1>2 DEF CaptureInv, OwnedUntilClosed, TokensStayHome, IndexesAreUnique
<1> QED
    BY <1>5, <1>6, <1>7, <1>8 DEF CaptureInv

LEMMA CaptureIsInductive == CaptureInv /\ [CaptureNext]_captureVars => CaptureInv'
<1> SUFFICES ASSUME CaptureInv, [CaptureNext]_captureVars PROVE CaptureInv'
    OBVIOUS
<1>1. CASE UNCHANGED captureVars
    <2>1. UNCHANGED <<now, calls, owned, pending, store, lines, reported>>
        BY <1>1 DEF captureVars
    <2>2. CaptureTyped' /\ CallsAgree' /\ HelpersStored' /\ KeysHaveOwners'
        BY <2>1 DEF CaptureInv, CaptureTyped, CallsAgree, HelpersStored, KeysHaveOwners
    <2>3. StreamsOwned'
        BY <2>1 DEF CaptureInv, StreamsOwned, Over
    <2>4. OwnedUntilClosed' /\ TokensStayHome' /\ IndexesAreUnique'
        BY <2>1 DEF CaptureInv, OwnedUntilClosed, TokensStayHome, IndexesAreUnique
    <2> QED
        BY <2>2, <2>3, <2>4 DEF CaptureInv
<1>2. CASE StartDelegation
    BY <1>2, StartKeeps
<1>3. ASSUME NEW d \in 1 .. Started, NEW asked \in Asked,
             \/ Complete(d, asked) \/ Probe(d, asked)
             \/ \E run \in 1 .. Runs, sort \in {"stream", "turn"} : Send(d, run, sort, asked)
      PROVE  CaptureInv'
    BY <1>3, SendingKeeps
<1>4. ASSUME NEW c \in 1 .. MaxCalls, NEW metered \in BOOLEAN, NEW bound \in BOOLEAN,
             ReturnHelper(c, metered, bound) \/ ReturnTurn(c, metered, bound) \/ Deliver(c, metered, bound)
      PROVE  CaptureInv'
    BY <1>4, HelperReturnKeeps, ReturnsKeep
<1>5. ASSUME NEW c \in 1 .. MaxCalls, Fail(c) \/ FinishStream(c) \/ DropStream(c) \/ CollectStream(c)
      PROVE  CaptureInv'
    BY <1>5, EndingKeeps
<1>6. ASSUME NEW p \in pending, Callback(p) PROVE CaptureInv'
    BY <1>6, CallbackKeeps
<1>7. CASE Report
    BY <1>7, ReportKeeps
<1> QED
    BY <1>1, <1>2, <1>3, <1>4, <1>5, <1>6, <1>7 DEF CaptureNext

LEMMA CountsAreSound == CaptureInv => CountsHold
<1> SUFFICES ASSUME CaptureInv PROVE HelpersCountedOnce
    BY DEF CaptureInv, CountsHold
<1> DEFINE places(c, d) == {i \in DOMAIN store[<<d, "helper">>] : store[<<d, "helper">>][i] = c}
<1>1. ASSUME NEW c, NEW d \in 1 .. Started
      PROVE  Cardinality(places(c, d)) <= 1 /\ (places(c, d) # {} => Cardinality(places(c, d)) = 1)
    <2>1. CASE places(c, d) = {}
        BY <2>1, FS_EmptySet
    <2>2. CASE places(c, d) # {}
        <3>1. PICK i : i \in places(c, d)
            BY <2>2
        <3>2. places(c, d) = {i}
            BY <3>1 DEF CaptureInv, HelpersStored
        <3>3. Cardinality({i}) = 1
            BY FS_Singleton
        <3> QED
            BY <3>2, <3>3
    <2> QED
        BY <2>1, <2>2
<1>2. ASSUME NEW c \in DOMAIN calls, calls[c].kind = "helper", calls[c].stage = "closed", calls[c].d = now
      PROVE  Cardinality(places(c, now)) = 1
    <2>1. c \in 1 .. Len(calls) /\ calls[c] \in CallOf
        BY DEF CaptureInv, CaptureTyped
    <2>2. now \in 1 .. Started
        BY <1>2, <2>1 DEF CallOf
    <2>3. places(c, now) # {}
        BY <1>2, <2>1 DEF CaptureInv, HelpersStored
    <2> HIDE DEF places
    <2> QED
        BY <1>1, <2>2, <2>3
<1> QED
    BY <1>1, <1>2 DEF HelpersCountedOnce

LEMMA OwnCalls ==
    ASSUME CaptureInv, [CaptureNext]_captureVars,
           NEW d \in 1 .. Started, NEW c \in reported'[d] \ reported[d]
    PROVE  calls[c].d = d /\ calls[c].metered /\ calls[c].kind # "probe"
<1>1. Report
    BY DEF CaptureNext, captureVars, StartDelegation, Complete, Probe, Send, ReturnHelper, ReturnTurn,
           Deliver, Fail, FinishStream, DropStream, CollectStream, Callback, Handle
<1>2. now \in 1 .. Started /\ reported \in [1 .. Started -> SUBSET Nat]
    BY <1>1 DEF CaptureInv, CaptureTyped, Report
<1>3. PICK helpers \in SUBSET Usage("helper"), own \in SUBSET OwnTotals :
        reported' = [reported EXCEPT ![now] = helpers \union
                       (IF Usage("executor") # {} THEN Usage("executor") ELSE own)]
    BY <1>1 DEF Report, HelperRecord
<1>4. d = now /\ (c \in Usage("helper") \/ c \in Usage("executor") \/ c \in OwnTotals)
    BY <1>2, <1>3
<1>5. \A r \in {"helper", "executor"} : <<now, r>> \in Keys /\ <<now, r>>[1] = now /\ now > 0
    <2>1. now \in 0 .. Started /\ now > 0
        BY <1>2, CaptureConstants
    <2> QED
        BY <2>1, KeysKnown
<1>6. ASSUME NEW r \in {"helper", "executor"}, c \in Usage(r)
      PROVE  calls[c].d = now /\ calls[c].metered /\ calls[c].kind # "probe"
    <2>1. c \in ToSet(store[<<now, r>>]) /\ calls[c].metered
        BY <1>6 DEF Usage
    <2> QED
        BY <1>5, <2>1 DEF CaptureInv, TokensStayHome
<1>7. c \in OwnTotals => calls[c].d = now /\ calls[c].metered /\ calls[c].kind # "probe"
    BY DEF OwnTotals
<1> QED
    BY <1>4, <1>6, <1>7

-----------------------------------------------------------------------------
(***************************************************************************)
(* The theorems.                                                           *)
(***************************************************************************)
\* However late callbacks run and streams are closed, each model call is
\* counted in its own delegation and role, a helper's once, under a number of
\* its own, and a registered stream key has a call that is still open
\* (litellm_callback.py:456, gateway.py:156, observable_model.py:398).
THEOREM CountsAreRight == CaptureSpec => []CountsHold
<1> HIDE DEF CaptureInv
<1> QED
    BY CaptureStarts, CaptureIsInductive, CountsAreSound, PTL DEF CaptureSpec

\* The record of a delegation is charged with its own calls only, whichever
\* runs are still calling when it is written (mcp_server.py:1244), and a
\* session that names its conversation keeps the name (store.py:155).
THEOREM WhatIsLeftIsOwn == CaptureSpec /\ SessionsSpec => LeftForLater
<1>1. CaptureInv /\ [CaptureNext]_captureVars =>
        [\A d \in 1..Started : \A c \in reported'[d] \ reported[d] :
           calls[c].d = d /\ calls[c].metered /\ calls[c].kind # "probe"]_captureVars
    BY OwnCalls
<1>2. CaptureSpec => ReportsAreOwn
    <2> HIDE DEF CaptureInv
    <2> QED
        BY <1>1, CaptureStarts, CaptureIsInductive, PTL DEF CaptureSpec, ReportsAreOwn
<1> QED
    BY <1>2, ConversationsAreKept DEF LeftForLater

\* A search finds files as they were indexed, a full run leaves the files of
\* the workspace and no others, and a delegation that was filed has its
\* outcome in the index (workspace_indexer.py:118-164).
THEOREM IndexIsFaithful == FilesSpec /\ EntriesSpec => []IndexIsSound
<1>1. EntriesInv => EntriesHaveOutcomes
    BY DEF EntriesInv
<1> HIDE DEF FilesInv, EntriesInv
<1> QED
    BY <1>1, FilesStart, FilesAreInductive, FilesAreSound, EntriesStart, EntriesAreInductive, PTL
    DEF FilesSpec, EntriesSpec, IndexIsSound

\* A trace begins with its header, whichever thread was first, and loses a
\* line only to the rewriting of the file (trace.py:166-210).
THEOREM TracesStayWhole == TraceSpec => []TraceKept
<1> HIDE DEF TraceInv
<1> QED
    BY TraceStarts, TraceIsInductive, TracesAreKept, PTL DEF TraceSpec

-----------------------------------------------------------------------------
(***************************************************************************)
(* The pairing of a trace's lines: whoever is in a row waits no longer,    *)
(* and what a lone line lacked is gone for good.                           *)
(***************************************************************************)
\* A row has lines of its two sides, under one key, that wait no longer.
RowsAgree ==
    \A r \in pairings :
        /\ r.proxy # 0 \/ r.backend # 0
        /\ r.proxy # 0 => events[r.proxy].side = "proxy" /\ r.proxy \notin unmatched
        /\ r.backend # 0 => events[r.backend].side = "backend" /\ r.backend \notin unmatched
        /\ r.proxy # 0 /\ r.backend # 0 => EventKey(r.proxy) = EventKey(r.backend)

RowsApart ==
    \A r, o \in pairings :
        \/ r.proxy # 0 /\ r.proxy = o.proxy
        \/ r.backend # 0 /\ r.backend = o.backend
        => r = o

LinesCovered ==
    comparing => \A i \in DOMAIN events \ unmatched : \E r \in pairings : i \in {r.proxy, r.backend}

\* Who stays alone has nobody to wait for.
NobodyLeft ==
    \A r \in pairings : \A i \in unmatched :
        /\ r.backend = 0 /\ events[i].side = "backend" => EventKey(i) # EventKey(r.proxy)
        /\ r.proxy = 0 /\ events[i].side = "proxy" => EventKey(i) # EventKey(r.backend)

GapsDiffer ==
    \A r, o \in pairings :
        r.backend = 0 /\ o.proxy = 0 => EventKey(r.proxy) # EventKey(o.backend)

\* The lines of a step without a call index go in file order.
ProxiesInOrder ==
    \A r \in pairings : \A i \in unmatched :
        /\ r.proxy # 0 /\ events[i].side = "proxy"
        /\ EventKey(i) = EventKey(r.proxy) /\ events[i].index = 0
        => r.proxy < i

PairingInv ==
    /\ PairingTypeOK /\ (~comparing => pairings = {} /\ unmatched = {})
    /\ RowsAgree /\ RowsApart /\ LinesCovered /\ NobodyLeft /\ GapsDiffer
    /\ ProxiesInOrder /\ ModelsBeforeOrder

LEMMA FirstIs ==
    ASSUME NEW S, S \subseteq Nat \ {0}
    PROVE  /\ First(S) = 0 <=> S = {}
           /\ S # {} => First(S) \in S /\ \A j \in S : First(S) <= j
<1>1. CASE S = {}
    BY <1>1 DEF First
<1>2. CASE S # {}
    <2>1. \E i \in S : \A j \in S : i <= j
        BY <1>2, LeastNatural
    <2>2. First(S) = CHOOSE i \in S : \A j \in S : i <= j
        BY <1>2 DEF First
    <2>3. First(S) \in S /\ \A j \in S : First(S) <= j
        BY <2>1, <2>2
    <2> QED
        BY <1>2, <2>3
<1> QED
    BY <1>1, <1>2

\* A pair of queue heads, one of which may be missing.
Heads(p, b) ==
    /\ comparing /\ (p # 0 \/ b # 0)
    /\ p # 0 => p \in unmatched /\ events[p].side = "proxy"
    /\ b # 0 => b \in unmatched /\ events[b].side = "backend"
    /\ p # 0 /\ b # 0 => EventKey(p) = EventKey(b)

\* The one that is missing has nobody to be.
Alone(p, b) ==
    \A i \in unmatched :
        /\ b = 0 /\ events[i].side = "backend" => EventKey(i) # EventKey(p)
        /\ p = 0 /\ events[i].side = "proxy" => EventKey(i) # EventKey(b)

Foremost(p) ==
    \A i \in unmatched :
        p # 0 /\ events[i].side = "proxy" /\ EventKey(i) = EventKey(p) => p <= i

\* Without a call index, lines of two models meet when none waits that fits.
Fits(p, b) ==
    p # 0 /\ b # 0 /\ events[p].index = 0 /\ ~Compatible(events[p].model, events[b].model) =>
        \A i \in unmatched :
            events[i].side = "backend" /\ EventKey(i) = EventKey(p) =>
                ~Compatible(events[p].model, events[i].model)

LEMMA PairKeeps ==
    ASSUME PairingInv, NEW p, NEW b, Heads(p, b), Alone(p, b), Foremost(p), Fits(p, b), Pair(p, b)
    PROVE  PairingInv'
<1> DEFINE n == Len(events)
           new == Row(p, b)
<1>1. /\ n \in Nat /\ DOMAIN events = 1 .. n /\ unmatched \subseteq 1 .. n /\ comparing
      /\ \A r \in pairings : r \in [proxy : 0 .. n, backend : 0 .. n]
    BY DEF PairingInv, PairingTypeOK, Heads
<1>2. new.proxy = p /\ new.backend = b
    BY DEF Row
<1>3. /\ UNCHANGED <<events, comparing>> /\ pairings' = pairings \union {new}
      /\ unmatched' = unmatched \ {p, b}
    BY DEF Pair
<1>4. p \in 0 .. n /\ b \in 0 .. n /\ new \in [proxy : 0 .. n, backend : 0 .. n]
    <2>1. (p = 0 \/ p \in 1 .. n) /\ (b = 0 \/ b \in 1 .. n)
        BY <1>1 DEF Heads
    <2>2. p \in 0 .. n /\ b \in 0 .. n
        BY <1>1, <2>1
    <2> QED
        BY <2>2 DEF Row
<1>5. \A i \in unmatched' : i \in unmatched /\ i # p /\ i # b
    BY <1>3
<1>6. \A r \in pairings' : r \in pairings \/ r = new
    BY <1>3
<1>7. ASSUME NEW r \in pairings
      PROVE  /\ r.proxy # 0 => r.proxy # p
             /\ r.backend # 0 => r.backend # b
    BY DEF PairingInv, RowsAgree, Heads
<1> HIDE DEF n, new
<1>8. PairingTypeOK' /\ (~comparing => pairings = {} /\ unmatched = {})'
    BY <1>1, <1>3, <1>4 DEF PairingInv, PairingTypeOK, n
<1>9. RowsAgree'
    <2>1. ASSUME NEW r \in pairings
          PROVE  /\ r.proxy # 0 \/ r.backend # 0
                 /\ r.proxy # 0 => events[r.proxy].side = "proxy" /\ r.proxy \notin unmatched'
                 /\ r.backend # 0 => events[r.backend].side = "backend" /\ r.backend \notin unmatched'
                 /\ r.proxy # 0 /\ r.backend # 0 => EventKey(r.proxy) = EventKey(r.backend)
        BY <1>5 DEF PairingInv, RowsAgree
    <2>2. /\ p # 0 \/ b # 0
          /\ p # 0 => events[p].side = "proxy" /\ p \notin unmatched'
          /\ b # 0 => events[b].side = "backend" /\ b \notin unmatched'
          /\ p # 0 /\ b # 0 => EventKey(p) = EventKey(b)
        BY <1>5 DEF Heads
    <2> QED
        BY <1>2, <1>3, <1>6, <2>1, <2>2 DEF RowsAgree, EventKey
<1>10. RowsApart'
    BY <1>2, <1>6, <1>7 DEF PairingInv, RowsApart
<1>11. LinesCovered'
    <2>1. ASSUME NEW i \in DOMAIN events, i \notin unmatched'
          PROVE  \E r \in pairings' : i \in {r.proxy, r.backend}
        <3>1. CASE i \in unmatched
            <4>1. new \in pairings' /\ i \in {new.proxy, new.backend}
                BY <1>2, <1>3, <2>1, <3>1
            <4> QED
                BY <4>1
        <3>2. CASE i \notin unmatched
            <4>1. PICK r \in pairings : i \in {r.proxy, r.backend}
                BY <1>1, <2>1, <3>2 DEF PairingInv, LinesCovered
            <4> QED
                BY <1>3, <4>1
        <3> QED
            BY <3>1, <3>2
    <2> QED
        BY <1>3, <2>1 DEF LinesCovered
<1>12. NobodyLeft'
    <2>1. ASSUME NEW r \in pairings', NEW i \in unmatched'
          PROVE  /\ r.backend = 0 /\ events[i].side = "backend" => EventKey(i) # EventKey(r.proxy)
                 /\ r.proxy = 0 /\ events[i].side = "proxy" => EventKey(i) # EventKey(r.backend)
        <3>1. CASE r \in pairings
            BY <1>5, <3>1 DEF PairingInv, NobodyLeft
        <3>2. CASE r = new
            BY <1>2, <1>5, <3>2 DEF Alone
        <3> QED
            BY <1>6, <3>1, <3>2
    <2> QED
        BY <1>3, <2>1 DEF NobodyLeft, EventKey
<1>13. GapsDiffer'
    <2>1. ASSUME NEW r \in pairings', NEW o \in pairings', r.backend = 0, o.proxy = 0
          PROVE  EventKey(r.proxy) # EventKey(o.backend)
        <3>1. CASE r \in pairings /\ o \in pairings
            BY <2>1, <3>1 DEF PairingInv, GapsDiffer
        <3>2. CASE r = new /\ o \in pairings
            <4>1. p \in unmatched /\ events[p].side = "proxy"
                BY <1>2, <2>1, <3>2 DEF Heads
            <4> QED
                BY <1>2, <2>1, <3>2, <4>1 DEF PairingInv, NobodyLeft
        <3>3. CASE r \in pairings /\ o = new
            <4>1. b \in unmatched /\ events[b].side = "backend"
                BY <1>2, <2>1, <3>3 DEF Heads
            <4> QED
                BY <1>2, <2>1, <3>3, <4>1 DEF PairingInv, NobodyLeft
        <3>4. CASE r = new /\ o = new
            BY <1>2, <2>1, <3>4 DEF Heads
        <3> QED
            BY <1>6, <3>1, <3>2, <3>3, <3>4
    <2> QED
        BY <1>3, <2>1 DEF GapsDiffer, EventKey
<1>14. ProxiesInOrder'
    <2>1. ASSUME NEW r \in pairings', NEW i \in unmatched', r.proxy # 0, events[i].side = "proxy",
                 EventKey(i) = EventKey(r.proxy), events[i].index = 0
          PROVE  r.proxy < i
        <3>1. CASE r \in pairings
            BY <1>5, <2>1, <3>1 DEF PairingInv, ProxiesInOrder
        <3>2. CASE r = new
            <4>1. p <= i /\ p # i /\ i \in unmatched
                BY <1>2, <1>5, <2>1, <3>2 DEF Foremost
            <4> QED
                BY <1>1, <1>2, <1>4, <3>2, <4>1
        <3> QED
            BY <1>6, <3>1, <3>2
    <2> QED
        BY <1>3, <2>1 DEF ProxiesInOrder, EventKey
<1>15. ModelsBeforeOrder'
    <2>1. ASSUME NEW r \in pairings', r.proxy # 0, r.backend # 0, events[r.proxy].index = 0,
                 ~Compatible(events[r.proxy].model, events[r.backend].model),
                 NEW i \in DOMAIN events, events[i].side = "backend", EventKey(i) = EventKey(r.proxy),
                 Compatible(events[r.proxy].model, events[i].model)
          PROVE  \E o \in pairings' : o.backend = i /\ o.proxy # 0 /\ o.proxy < r.proxy
        <3>1. CASE r \in pairings
            <4>1. Status(r) = "field_diff"
                BY <2>1 DEF Status
            <4>2. PICK o \in pairings : o.backend = i /\ o.proxy # 0 /\ o.proxy < r.proxy
                BY <2>1, <3>1, <4>1 DEF PairingInv, ModelsBeforeOrder
            <4> QED
                BY <1>3, <4>2
        <3>2. CASE r = new
            <4>1. p \in unmatched /\ events[p].side = "proxy" /\ EventKey(p) = EventKey(i)
                  /\ events[p].index = 0
                BY <1>2, <2>1, <3>2 DEF Heads
            <4>2. i \notin unmatched
                BY <1>2, <2>1, <3>2 DEF Fits
            <4>3. PICK o \in pairings : i \in {o.proxy, o.backend}
                BY <1>1, <2>1, <4>2 DEF PairingInv, LinesCovered
            <4>4. i # 0
                BY <1>1, <2>1
            <4>5. o.backend = i
                BY <2>1, <4>3, <4>4 DEF PairingInv, RowsAgree
            <4>6. o.proxy # 0
                BY <4>1, <4>5 DEF PairingInv, NobodyLeft
            <4>7. EventKey(o.proxy) = EventKey(p)
                BY <4>1, <4>4, <4>5, <4>6 DEF PairingInv, RowsAgree
            <4>8. o.proxy < p
                BY <4>1, <4>6, <4>7 DEF PairingInv, ProxiesInOrder
            <4> QED
                BY <1>2, <1>3, <3>2, <4>5, <4>6, <4>8
        <3> QED
            BY <1>6, <3>1, <3>2
    <2>2. \A r : Status(r)' = "field_diff" =>
            r.proxy # 0 /\ r.backend # 0 /\ ~Compatible(events[r.proxy].model, events[r.backend].model)
        BY <1>3 DEF Status
    <2> QED
        BY <1>3, <2>1, <2>2 DEF ModelsBeforeOrder, EventKey
<1> QED
    BY <1>8, <1>9, <1>10, <1>11, <1>12, <1>13, <1>14, <1>15 DEF PairingInv

\* While a trace grows, and when its pairing begins, there are no rows.
LEMMA NoRowsYet ==
    ASSUME PairingTypeOK', pairings' = {}, unmatched' = IF comparing' THEN DOMAIN events' ELSE {}
    PROVE  PairingInv'
<1>1. RowsAgree' /\ RowsApart' /\ NobodyLeft' /\ GapsDiffer' /\ ProxiesInOrder' /\ ModelsBeforeOrder'
    BY DEF RowsAgree, RowsApart, NobodyLeft, GapsDiffer, ProxiesInOrder, ModelsBeforeOrder
<1>2. LinesCovered'
    BY DEF LinesCovered
<1> QED
    BY <1>1, <1>2 DEF PairingInv

LEMMA PairingStarts == PairingInit => PairingInv
<1> SUFFICES ASSUME PairingInit PROVE PairingInv
    OBVIOUS
<1>1. events = <<>> /\ comparing = FALSE /\ unmatched = {} /\ pairings = {}
    BY DEF PairingInit
<1>2. PairingTypeOK
    <2>1. events \in Seq(Event("proxy") \union Event("backend"))
        BY <1>1
    <2>2. comparing \in BOOLEAN
        BY <1>1, Zenon
    <2> QED
        BY <1>1, <2>1, <2>2 DEF PairingTypeOK
<1>3. RowsAgree /\ RowsApart /\ NobodyLeft /\ GapsDiffer /\ ProxiesInOrder /\ ModelsBeforeOrder
    BY <1>1 DEF RowsAgree, RowsApart, NobodyLeft, GapsDiffer, ProxiesInOrder, ModelsBeforeOrder
<1> QED
    BY <1>1, <1>2, <1>3 DEF PairingInv, LinesCovered

LEMMA Queues ==
    ASSUME PairingInv, NEW side, NEW key
    PROVE  LET waiting == Unmatched(side, key) IN
           /\ waiting \subseteq Nat \ {0}
           /\ First(waiting) # 0 => /\ First(waiting) \in unmatched
                                    /\ events[First(waiting)].side = side
                                    /\ EventKey(First(waiting)) = key
           /\ \A i \in unmatched : events[i].side = side /\ EventKey(i) = key =>
                First(waiting) # 0 /\ First(waiting) <= i
<1> DEFINE waiting == Unmatched(side, key)
<1>1. unmatched \subseteq Nat \ {0}
    <2>1. Len(events) \in Nat /\ DOMAIN events = 1 .. Len(events) /\ unmatched \subseteq DOMAIN events
        BY DEF PairingInv, PairingTypeOK
    <2> QED
        BY <2>1
<1>2. \A i : i \in waiting <=> i \in unmatched /\ events[i].side = side /\ EventKey(i) = key
    BY DEF Unmatched
<1> HIDE DEF waiting
<1>3. waiting \subseteq Nat \ {0}
    BY <1>1, <1>2
<1>4. /\ First(waiting) = 0 <=> waiting = {}
      /\ waiting # {} => First(waiting) \in waiting /\ \A j \in waiting : First(waiting) <= j
    BY <1>3, FirstIs
<1>5. First(waiting) # 0 => First(waiting) \in waiting
    BY <1>4
<1>6. \A i \in waiting : First(waiting) # 0 /\ First(waiting) <= i
    BY <1>4
<1> QED
    BY <1>2, <1>3, <1>5, <1>6 DEF waiting

LEMMA KeyKeeps ==
    ASSUME PairingInv, NEW key \in Steps \X Indexes, PairByKey(key)
    PROVE  PairingInv'
<1> DEFINE p == First(Unmatched("proxy", key))
           b == First(Unmatched("backend", key))
<1>1. comparing /\ key[2] # 0 /\ (p # 0 \/ b # 0) /\ Pair(p, b)
    BY DEF PairByKey
<1>2. /\ p # 0 => p \in unmatched /\ events[p].side = "proxy" /\ EventKey(p) = key
      /\ \A i \in unmatched : events[i].side = "proxy" /\ EventKey(i) = key => p # 0 /\ p <= i
    BY Queues
<1>3. /\ b # 0 => b \in unmatched /\ events[b].side = "backend" /\ EventKey(b) = key
      /\ \A i \in unmatched : events[i].side = "backend" /\ EventKey(i) = key => b # 0 /\ b <= i
    BY Queues
<1> HIDE DEF p, b
<1>4. Heads(p, b)
    BY <1>1, <1>2, <1>3 DEF Heads
<1>5. Alone(p, b) /\ Foremost(p)
    BY <1>1, <1>2, <1>3 DEF Alone, Foremost
<1>6. Fits(p, b)
    <2>1. p # 0 => events[p].index # 0
        BY <1>1, <1>2 DEF EventKey
    <2> QED
        BY <2>1 DEF Fits
<1> QED
    BY <1>1, <1>4, <1>5, <1>6, PairKeeps

LEMMA StepKeeps ==
    ASSUME PairingInv, NEW step, PairByStep(step)
    PROVE  PairingInv'
<1> DEFINE key == <<step, 0>>
           p == First(Unmatched("proxy", key))
           free == Unmatched("backend", key)
           fitting == {i \in free : Compatible(events[p].model, events[i].model)}
           b == IF fitting # {} THEN First(fitting) ELSE First(free)
<1>1. comparing /\ p # 0 /\ Pair(p, b)
    BY DEF PairByStep
<1>2. /\ p \in unmatched /\ events[p].side = "proxy" /\ EventKey(p) = key
      /\ \A i \in unmatched : events[i].side = "proxy" /\ EventKey(i) = key => p <= i
    BY <1>1, Queues
<1>3. /\ free \subseteq Nat \ {0}
      /\ \A i : i \in free <=> i \in unmatched /\ events[i].side = "backend" /\ EventKey(i) = key
    BY Queues DEF Unmatched
<1>4. fitting \subseteq free /\ \A i \in free : i \in fitting <=> Compatible(events[p].model, events[i].model)
    OBVIOUS
<1> HIDE DEF key, p, free, fitting
<1>5. /\ fitting # {} => b \in fitting /\ b # 0
      /\ fitting = {} => b = First(free)
    <2>1. fitting \subseteq Nat \ {0}
        BY <1>3, <1>4
    <2> QED
        BY <2>1, FirstIs
<1>6. /\ free # {} => First(free) \in free /\ First(free) # 0
      /\ free = {} => First(free) = 0
    BY <1>3, FirstIs
<1> HIDE DEF b
<1>7. /\ b # 0 => b \in free
      /\ b = 0 => free = {}
    BY <1>4, <1>5, <1>6
<1>8. Heads(p, b)
    BY <1>1, <1>2, <1>3, <1>7 DEF Heads
<1>9. Alone(p, b) /\ Foremost(p)
    BY <1>1, <1>2, <1>3, <1>7 DEF Alone, Foremost
<1>10. Fits(p, b)
    <2>1. ASSUME b # 0, ~Compatible(events[p].model, events[b].model), NEW i \in free
          PROVE  ~Compatible(events[p].model, events[i].model)
        BY <1>4, <1>5, <1>7, <2>1
    <2> QED
        BY <1>2, <1>3, <2>1 DEF Fits
<1> QED
    BY <1>1, <1>8, <1>9, <1>10, PairKeeps

LEMMA RestKeeps ==
    ASSUME PairingInv, NEW step, LeaveRest(step)
    PROVE  PairingInv'
<1> DEFINE key == <<step, 0>>
           b == First(Unmatched("backend", key))
<1>1. comparing /\ Unmatched("proxy", key) = {} /\ b # 0 /\ Pair(0, b)
    BY DEF LeaveRest
<1>2. \A i \in unmatched : events[i].side = "proxy" => EventKey(i) # key
    BY <1>1 DEF Unmatched
<1>3. b \in unmatched /\ events[b].side = "backend" /\ EventKey(b) = key
    BY <1>1, Queues
<1> HIDE DEF key, b
<1>4. Heads(0, b) /\ Alone(0, b) /\ Foremost(0) /\ Fits(0, b)
    BY <1>1, <1>2, <1>3 DEF Heads, Alone, Foremost, Fits
<1> QED
    BY <1>1, <1>4, PairKeeps

LEMMA PairingIsInductive == PairingInv /\ [PairingNext]_pairingVars => PairingInv'
<1> SUFFICES ASSUME PairingInv, [PairingNext]_pairingVars PROVE PairingInv'
    OBVIOUS
<1>1. ASSUME NEW e \in Event("proxy") \union Event("backend"), ~comparing,
             events' = Append(events, e), UNCHANGED <<comparing, unmatched, pairings>>
      PROVE  PairingInv'
    <2>1. unmatched' = {} /\ pairings' = {} /\ comparing' = comparing
        BY <1>1 DEF PairingInv
    <2>2. PairingTypeOK'
        BY <1>1, <2>1 DEF PairingInv, PairingTypeOK
    <2> QED
        BY <1>1, <2>1, <2>2, NoRowsYet
<1>2. CASE \/ \E e \in Event("backend") : RecordBackend(e)
           \/ \E e \in Event("proxy") : RecordProxy(e)
    BY <1>1, <1>2 DEF RecordBackend, RecordProxy
<1>3. CASE StartPairing
    <2>1. comparing' = TRUE /\ unmatched' = DOMAIN events' /\ pairings' = {} /\ events' = events
        BY <1>3 DEF StartPairing, PairingInv
    <2>2. PairingTypeOK'
        BY <2>1 DEF PairingInv, PairingTypeOK
    <2> QED
        BY <2>1, <2>2, NoRowsYet
<1>4. CASE \E key \in Steps \X Indexes : PairByKey(key)
    BY <1>4, KeyKeeps
<1>5. CASE \E step \in Steps : PairByStep(step) \/ LeaveRest(step)
    BY <1>5, StepKeeps, RestKeeps
<1>6. CASE UNCHANGED pairingVars
    <2>1. /\ events' = events /\ comparing' = comparing
          /\ unmatched' = unmatched /\ pairings' = pairings
        BY <1>6 DEF pairingVars
    <2>2. /\ PairingTypeOK' /\ (~comparing => pairings = {} /\ unmatched = {})'
          /\ RowsAgree' /\ RowsApart' /\ LinesCovered'
        BY <2>1 DEF PairingInv, PairingTypeOK, RowsAgree, RowsApart, LinesCovered, EventKey
    <2>3. NobodyLeft' /\ GapsDiffer' /\ ProxiesInOrder' /\ ModelsBeforeOrder'
        BY <2>1 DEF PairingInv, NobodyLeft, GapsDiffer, ProxiesInOrder, ModelsBeforeOrder,
                    EventKey, Status
    <2> QED
        BY <2>2, <2>3 DEF PairingInv
<1> QED
    BY <1>2, <1>3, <1>4, <1>5, <1>6 DEF PairingNext

LEMMA RowsAreSound == PairingInv => PairingTypeOK /\ PairingIsSound
<1> SUFFICES ASSUME PairingInv PROVE PairingTypeOK /\ PairingIsSound
    OBVIOUS
<1>1. EachLineOnce
    <2> SUFFICES ASSUME comparing, NEW i \in DOMAIN events \ unmatched
                 PROVE  Cardinality({r \in pairings : i \in {r.proxy, r.backend}}) = 1
        BY DEF EachLineOnce
    <2>1. PICK r \in pairings : i \in {r.proxy, r.backend}
        BY DEF PairingInv, LinesCovered
    <2>2. i # 0
        BY DEF PairingInv, PairingTypeOK
    <2>3. ASSUME NEW o \in pairings, i \in {o.proxy, o.backend} PROVE o = r
        <3>1. \/ i = r.proxy /\ i = o.proxy
              \/ i = r.backend /\ i = o.backend
            BY <2>1, <2>2, <2>3 DEF PairingInv, RowsAgree
        <3> QED
            BY <2>2, <3>1 DEF PairingInv, RowsApart
    <2>4. {o \in pairings : i \in {o.proxy, o.backend}} = {r}
        BY <2>1, <2>3
    <2> QED
        BY <2>4, FS_Singleton
<1>2. GapsAreReal
    BY DEF PairingInv, GapsDiffer, GapsAreReal, Status
<1> QED
    BY <1>1, <1>2 DEF PairingInv, PairingIsSound

\* The comparison of a trace is a pairing, whatever lines it has: every line is
\* in one row, no two lone lines belong together, and no two models are mixed
\* that could have been kept apart (compare.py:203-359).
THEOREM PairingsAreSound == PairingSpec => []PairingIsSound
<1> HIDE DEF PairingInv
<1> QED
    BY PairingStarts, PairingIsInductive, RowsAreSound, PTL DEF PairingSpec

\* The guards of the comparison's actions: a row can be made.
RowDue ==
    \/ \E key \in Steps \X Indexes :
        key[2] # 0 /\ (Unmatched("proxy", key) # {} \/ Unmatched("backend", key) # {})
    \/ KeysDone /\ \E step \in Steps :
        Unmatched("proxy", <<step, 0>>) # {} \/ Unmatched("backend", <<step, 0>>) # {}

LEMMA WaitingIsDue == PairingInv /\ comparing /\ unmatched # {} => RowDue
<1> SUFFICES ASSUME PairingInv, unmatched # {} PROVE RowDue
    OBVIOUS
<1>1. ASSUME NEW i \in unmatched
      PROVE  /\ EventKey(i) \in Steps \X Indexes
             /\ i \in Unmatched("proxy", EventKey(i)) \/ i \in Unmatched("backend", EventKey(i))
    <2>1. events[i] \in Event("proxy") \union Event("backend")
        BY DEF PairingInv, PairingTypeOK
    <2>2. /\ events[i].step \in Steps /\ events[i].index \in Indexes
          /\ events[i].side = "proxy" \/ events[i].side = "backend"
        BY <2>1 DEF Event
    <2> QED
        BY <2>2 DEF Unmatched, EventKey
<1>2. CASE KeysDone
    <2>1. PICK i \in unmatched : TRUE
        OBVIOUS
    <2>2. events[i].step \in Steps /\ EventKey(i) = <<events[i].step, 0>>
        BY <1>1, <1>2, <2>1 DEF KeysDone, EventKey
    <2>3. \/ Unmatched("proxy", <<events[i].step, 0>>) # {}
          \/ Unmatched("backend", <<events[i].step, 0>>) # {}
        BY <1>1, <2>1, <2>2
    <2> QED
        BY <1>2, <2>2, <2>3 DEF RowDue
<1>3. CASE ~KeysDone
    <2>1. PICK i \in unmatched : events[i].index # 0
        BY <1>3 DEF KeysDone
    <2>2. EventKey(i) \in Steps \X Indexes /\ EventKey(i)[2] # 0
        BY <1>1, <2>1 DEF EventKey
    <2>3. Unmatched("proxy", EventKey(i)) # {} \/ Unmatched("backend", EventKey(i)) # {}
        BY <1>1, <2>1
    <2> QED
        BY <2>2, <2>3 DEF RowDue
<1> QED
    BY <1>2, <1>3

\* A step of the comparison leaves its rows and its trace as they are, and
\* makes a row of at least one line that waited.
RowIsMade ==
    /\ events' = events /\ comparing'
    /\ pairings \subseteq pairings'
    /\ unmatched' \subseteq unmatched /\ unmatched' # unmatched

LEMMA StepsMakeRows == PairingInv /\ [PairingNext]_pairingVars => [comparing => RowIsMade]_pairingVars
<1> SUFFICES ASSUME PairingInv, PairingNext, comparing PROVE RowIsMade
    OBVIOUS
<1>1. ASSUME NEW p, NEW b, Pair(p, b), p \in unmatched \/ b \in unmatched PROVE RowIsMade
    BY <1>1 DEF Pair, RowIsMade
<1>2. ASSUME NEW side, NEW key, First(Unmatched(side, key)) # 0
      PROVE  First(Unmatched(side, key)) \in unmatched
    BY <1>2, Queues
<1>3. CASE \E key \in Steps \X Indexes : PairByKey(key)
    BY <1>1, <1>2, <1>3 DEF PairByKey
<1>4. CASE \E step \in Steps : PairByStep(step)
    <2>1. PICK step \in Steps : PairByStep(step)
        BY <1>4
    <2>2. PICK b : First(Unmatched("proxy", <<step, 0>>)) # 0
                   /\ Pair(First(Unmatched("proxy", <<step, 0>>)), b)
        BY <2>1 DEF PairByStep
    <2> QED
        BY <1>1, <1>2, <2>2
<1>5. CASE \E step \in Steps : LeaveRest(step)
    BY <1>1, <1>2, <1>5 DEF LeaveRest
<1> QED
    BY <1>3, <1>4, <1>5 DEF PairingNext, RecordBackend, RecordProxy, StartPairing

\* The comparison of a trace goes on until no line waits: while one does, a row
\* can be made, and each row takes lines that waited and changes no row before
\* it (compare.py:225-280).
THEOREM NoLineIsSkipped ==
    PairingSpec => /\ [](comparing /\ unmatched # {} => RowDue)
                   /\ [][comparing => RowIsMade]_pairingVars
<1> HIDE DEF PairingInv, RowDue, RowIsMade
<1> QED
    BY PairingStarts, PairingIsInductive, WaitingIsDue, StepsMakeRows, PTL DEF PairingSpec

-----------------------------------------------------------------------------
(***************************************************************************)
(* The components side by side.                                            *)
(***************************************************************************)
LEMMA ComponentsStart ==
    Init => /\ CaptureInit /\ PairingInit /\ TraceInit /\ LifecycleInit /\ RetentionInit
            /\ SessionsInit /\ FilesInit /\ EntriesInit
    BY DEF Init

LEMMA ComponentsStep ==
    [Next]_vars =>
        /\ [CaptureNext]_captureVars /\ [PairingNext]_pairingVars /\ [TraceNext]_traceVars
        /\ [LifecycleNext]_lifecycleVars /\ [RetentionNext]_retentionVars
        /\ [SessionsNext]_sessionsVars /\ [FilesNext]_filesVars /\ [EntriesNext]_entriesVars
    BY DEF Next, vars, Others

\* Each component runs as it would alone, the others do not disturb it.
THEOREM ComponentsRunAlone ==
    Spec => /\ CaptureSpec /\ PairingSpec /\ TraceSpec /\ RetentionSpec
            /\ SessionsSpec /\ FilesSpec /\ EntriesSpec
    BY ComponentsStart, ComponentsStep, PTL
    DEF Spec, CaptureSpec, PairingSpec, TraceSpec, RetentionSpec, SessionsSpec, FilesSpec, EntriesSpec

LEMMA CaptureTypes == CaptureInv => CaptureTypeOK
<1> SUFFICES ASSUME CaptureInv PROVE CaptureTypeOK
    OBVIOUS
<1>1. /\ now \in 0 .. Started /\ DOMAIN calls = 1 .. Len(calls)
      /\ \A c \in DOMAIN calls : calls[c] \in CallOf
      /\ \A k \in Keys : \A i \in DOMAIN store[k] : store[k][i] \in 1 .. Len(calls)
      /\ pending \subseteq CallbackOf(Len(calls)) /\ lines \subseteq LineOf(Len(calls))
    BY DEF CaptureInv, CaptureTyped
<1>2. \A k \in Keys : ToSet(store[k]) \subseteq DOMAIN calls
    BY <1>1 DEF ToSet
<1>3. \A p \in pending : p.call \in DOMAIN calls
    BY <1>1 DEF CallbackOf
<1>4. \A l \in lines : l.type \in {"llm_call", "backend_llm_call", "cache_warm"}
    BY <1>1 DEF LineOf
<1> QED
    BY <1>1, <1>2, <1>3, <1>4 DEF CaptureTypeOK, CallOf

LEMMA TraceTypes == TraceInv => TraceTypeOK
<1> SUFFICES ASSUME TraceInv PROVE TraceTypeOK
    OBVIOUS
<1>1. ToSet(trace) \subseteq Record /\ ToSet(copy) \subseteq Record
    BY DEF TraceInv, TraceTyped, ToSet
<1>2. ToSet(trace) \union ToSet(copy) \subseteq {Plain, Hashed, Torn} \union {Line(n) : n \in 1..MaxRecords}
    BY <1>1 DEF Record
<1> QED
    BY <1>2 DEF TraceInv, TraceTyped, TraceTypeOK

LEMMA SessionsTypes == SessionsInv => SessionsTypeOK
<1> SUFFICES ASSUME SessionsInv PROVE SessionsTypeOK
    OBVIOUS
<1>1. \A s \in DOMAIN session : session[s] \in SessionFile
    BY DEF SessionsInv, SessionsTyped
<1>2. \A s \in DOMAIN session : session[s].host \in Hosts \union {NoHost} /\ session[s].last \in 0 .. MaxTime
    BY <1>1 DEF SessionFile
<1>3. \A c \in Clients : client[c].session \in 0 .. Len(session)
    BY DEF SessionsInv, Owns
<1> QED
    BY <1>2, <1>3 DEF SessionsInv, SessionsTyped, SessionsTypeOK

LEMMA IndexTypes == FilesInv /\ EntriesInv => IndexTypeOK
    BY DEF FilesInv, FilesTyped, EntriesInv, RowOf, Summary, IndexTypeOK

\* Every component's state is of its types, whichever of them runs.
THEOREM ServicesTypes == Spec => []TypeOK
<1>1. PairingInv => PairingTypeOK
    BY RowsAreSound
<1>2. LifecycleInv => LifecycleTypeOK
    BY DEF LifecycleInv
<1>3. RetentionInv => RetentionTypeOK
    BY DEF RetentionInv
<1> HIDE DEF CaptureInv, PairingInv, TraceInv, LifecycleInv, RetentionInv, SessionsInv, FilesInv,
             EntriesInv
<1> QED
    BY <1>1, <1>2, <1>3, ComponentsStart, ComponentsStep, CaptureStarts, CaptureIsInductive, CaptureTypes,
       PairingStarts, PairingIsInductive, TraceStarts, TraceIsInductive, TraceTypes, LifecycleStarts, LifecycleIsInductive,
       RetentionStarts, RetentionIsInductive, SessionsStart, SessionsAreInductive, SessionsTypes,
       FilesStart, FilesAreInductive, EntriesStart, EntriesAreInductive, IndexTypes, PTL
    DEF Spec, TypeOK

\* What is proved of each alone holds of all of them side by side, as they are
\* run together.
THEOREM ServicesHold ==
    Spec => [](/\ CountsHold /\ TracesAreFaithful /\ OneServes /\ CollectionSpares /\ HostsApart
               /\ IndexIsSound)
<1>1. EntriesInv => EntriesHaveOutcomes
    BY DEF EntriesInv
<1>2. PairingInv => PairingIsSound
    BY RowsAreSound
<1> HIDE DEF CaptureInv, PairingInv, TraceInv, LifecycleInv, RetentionInv, SessionsInv, FilesInv, EntriesInv
<1> QED
    BY <1>1, <1>2, ComponentsStart, ComponentsStep, CaptureStarts, CaptureIsInductive, CountsAreSound,
       PairingStarts, PairingIsInductive, TraceStarts, TraceIsInductive, TracesAreKept, LifecycleStarts, LifecycleIsInductive,
       ServersAreAlone, RetentionStarts, RetentionIsInductive, CollectionIsSparing, SessionsStart,
       SessionsAreInductive, SessionsAreOwned, FilesStart, FilesAreInductive, FilesAreSound,
       EntriesStart, EntriesAreInductive, PTL
    DEF Spec, IndexIsSound, TracesAreFaithful
=============================================================================
