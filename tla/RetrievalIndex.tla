--------------------------- MODULE RetrievalIndex ---------------------------
(***************************************************************************)
(* The two full-text indexes of a workspace (core/rag): one of its files,  *)
(* which `index-workspace' and the end of each delegation bring up to      *)
(* date, and one of its delegations, which the end of a delegation and     *)
(* `rag index' write.  The commands run beside the server.  A file is      *)
(* hashed by a walk, read and summarised later, and written later still;   *)
(* the words of a row are kept apart from it, under the row's number.      *)
(***************************************************************************)
EXTENDS Naturals, FiniteSets, FiniteSetsExt

CONSTANTS
    FileCount, \* paths of the workspace that may be indexed, numbered as they sort
    Texts,     \* contents of a file, standing for their hash and summary too
    Absent,    \* no such file
    NoText,    \* a file without summary
    Hook,      \* the end of a delegation as an indexer
    Command,   \* `index-workspace' as an indexer
    Limits,    \* what MCP_CODER_WORKSPACE_INDEX_LIMIT or --limit may be
    MaxWrites, \* bound: rows written
    MaxEdits,  \* bound: edits of files
    Filed      \* delegations with a row in the workspace history

ASSUME IndexAssumption ==
    /\ Absent \notin Texts /\ NoText \notin Texts /\ Hook # Command
    /\ FileCount \in Nat /\ Limits \subseteq Nat \ {0} /\ MaxWrites \in Nat /\ MaxEdits \in Nat

VARIABLES
    disk,     \* per path: its content or Absent
    row,      \* workspace_file_index, per path; number 0 is no row
    words,    \* workspace_file_fts: <<number of a row, path, text>>
    indexer,  \* where each indexer is and what it holds
    writes,   \* rows written so far
    edits,    \* edits so far
    raced,    \* paths edited while an indexer ran
    disturbed,\* something was changed beside the running `index-workspace'
    synced,   \* `index-workspace' is through, and nothing has changed since
    pruned,   \* a row was deleted
    history,  \* snapshots, per delegation: "none", "open", "ended"
    filing,   \* the handler of the delegation: "running", "ended", "filed", "gone"
    entry,    \* delegation_index, per delegation: none, or what was indexed
    backfill, \* `rag index': the rows it read and the one it found missing
    overtaken \* delegations whose row it read before their end

filesVars == <<disk, row, words, indexer, writes, edits, raced, disturbed, synced, pruned>>
entriesVars == <<history, filing, entry, backfill, overtaken>>

Indexed == 1 .. FileCount
Indexers == {Hook, Command}
NoRow == [number |-> 0, sha |-> Absent, text |-> NoText]
Waiting == [at |-> "idle", changed |-> TRUE, limit |-> 0, manifest |-> [p \in Indexed |-> Absent],
            left |-> {}, todo |-> {}, now |-> {}, row |-> NoRow]
NoBackfill == [rows |-> {}, missing |-> {}]

FilesInit ==
    /\ disk \in [Indexed -> Texts \union {Absent}]
    /\ row = [p \in Indexed |-> NoRow] /\ words = {}
    /\ indexer = [i \in Indexers |-> Waiting]
    /\ writes = 0 /\ edits = 0 /\ raced = {} /\ disturbed = FALSE /\ synced = FALSE /\ pruned = FALSE

EntriesInit ==
    /\ history = [d \in Filed |-> "none"] /\ filing = [d \in Filed |-> "running"]
    /\ entry = [d \in Filed |-> "none"] /\ backfill = NoBackfill /\ overtaken = {}

-----------------------------------------------------------------------------
(* The index of files *)

Present(manifest) == {p \in Indexed : manifest[p] # Absent}
InIndex == {p \in Indexed : row[p].number # 0}
\* A full run takes the paths as they sort, a delegation in its own order.
Turns(i, paths) == IF i = Command THEN {Min(paths)} ELSE paths
Beside(i) == i = Hook /\ indexer[Command].at # "idle"

\* Somebody edits the workspace: the host, a user, a later delegation.
Edit(p, text) ==
    /\ disk[p] # text /\ edits < MaxEdits /\ edits' = edits + 1
    /\ disk' = [disk EXCEPT ![p] = text]
    /\ raced' = IF \E i \in Indexers : indexer[i].at # "idle" THEN raced \union {p} ELSE raced
    /\ disturbed' = (disturbed \/ indexer[Command].at # "idle")
    /\ synced' = FALSE
    /\ UNCHANGED <<row, words, indexer, writes, pruned>>

\* The files are compared, up to the limit; then they are indexed.
Compared(w) ==
    IF w.left = {} \/ Cardinality(w.todo) = w.limit
      THEN [w EXCEPT !.at = "index", !.changed = TRUE, !.limit = 0] ELSE w

\* eligible_manifest_paths: all files are hashed before the first is indexed.
\* The end of a delegation asks for the files it changed.
Walk(i, paths, changed, limit) ==
    /\ indexer[i].at = "idle"
    /\ i = Hook => changed
    /\ i = Command => paths = Indexed
    /\ indexer' = [indexer EXCEPT ![i] = Compared(
         [Waiting EXCEPT !.at = "compare", !.changed = changed, !.limit = limit,
                         !.manifest = disk, !.left = paths \cap Present(disk)])]
    /\ disturbed' = (disturbed /\ i # Command)
    /\ UNCHANGED <<disk, row, words, writes, edits, raced, synced, pruned>>

\* Mutant: a file with a row is not indexed again.
UpToDateWhenThere(i, p) == p \in InIndex

UpToDate(i, p) == p \in InIndex /\ row[p].sha = indexer[i].manifest[p]

Compare(i) ==
    /\ indexer[i].at = "compare"
    /\ \E p \in Turns(i, indexer[i].left) :
         LET known == indexer[i].changed /\ UpToDate(i, p) IN
         indexer' = [indexer EXCEPT ![i] = Compared(
           [@ EXCEPT !.left = indexer[i].left \ {p},
                     !.todo = indexer[i].todo \union (IF known THEN {} ELSE {p})])]
    /\ UNCHANGED <<disk, row, words, writes, edits, raced, disturbed, synced, pruned>>

\* A file that is gone has no summary, and neither has one whose model failed.
Summaries(p) == {disk[p], NoText} \ {Absent}

\* _index_one_path, up to its row, which has the hash of the walk.
ReadSource(i) ==
    /\ indexer[i].at = "index" /\ indexer[i].todo # {}
    /\ \E p \in Turns(i, indexer[i].todo) : \E text \in Summaries(p) :
         indexer' = [indexer EXCEPT
           ![i].at = "upsert", ![i].now = {p},
           ![i].todo = @ \ {p},
           ![i].row = [number |-> 0, sha |-> indexer[i].manifest[p], text |-> text]]
    /\ UNCHANGED <<disk, row, words, writes, edits, raced, disturbed, synced, pruned>>

\* SQLite numbers a new row one above the highest there is.
NewNumber == Max({row[q].number : q \in Indexed}) + 1

\* INSERT OR REPLACE: a replaced row leaves without the trigger that would
\* take its words away, and the new one has another number.
Upsert(i, p) ==
    /\ indexer[i].at = "upsert" /\ p \in indexer[i].now /\ writes < MaxWrites
    /\ row' = [row EXCEPT ![p] = [indexer[i].row EXCEPT !.number = NewNumber]]
    /\ words' = words \union {<<NewNumber, p, indexer[i].row.text>>}
    /\ indexer' = [indexer EXCEPT ![i].at = "index", ![i].now = {}, ![i].row = NoRow]
    /\ writes' = writes + 1
    /\ disturbed' = (disturbed \/ Beside(i))
    /\ synced' = FALSE
    /\ UNCHANGED <<disk, edits, raced, pruned>>

\* What a full run removes: the rows whose files the walk has not found.
Unseen(i) == InIndex \ Present(indexer[i].manifest)

EndOfLoop(i) ==
    /\ indexer[i].at = "index" /\ indexer[i].todo = {}
    /\ indexer' = [indexer EXCEPT ![i] =
         IF i = Command THEN [@ EXCEPT !.at = "delete", !.now = Unseen(i)] ELSE Waiting]
    /\ UNCHANGED <<disk, row, words, writes, edits, raced, disturbed, synced, pruned>>

\* DELETE: the trigger takes away the words of the row as it is.
DeleteStale ==
    /\ indexer[Command].at = "delete"
    /\ LET gone == indexer[Command].now \cap InIndex IN
         /\ row' = [p \in Indexed |-> IF p \in gone THEN NoRow ELSE row[p]]
         /\ words' = words \ {<<row[p].number, p, row[p].text>> : p \in gone}
         /\ pruned' = (pruned \/ gone # {})
    /\ synced' = (~disturbed /\ indexer[Command].left = {})
    /\ disturbed' = FALSE
    /\ indexer' = [indexer EXCEPT ![Command] = Waiting]
    /\ UNCHANGED <<disk, writes, edits, raced>>

\* An error, a locked database or the end of the process: what is written stays.
Interrupt(i) ==
    /\ indexer[i].at # "idle"
    /\ indexer' = [indexer EXCEPT ![i] = Waiting]
    /\ disturbed' = (disturbed /\ i # Command)
    /\ UNCHANGED <<disk, row, words, writes, edits, raced, synced, pruned>>

FilesNext ==
    \/ \E p \in Indexed, t \in Texts \union {Absent} : Edit(p, t)
    \/ \E i \in Indexers :
         \/ \E paths \in SUBSET Indexed \ {{}}, changed \in BOOLEAN, limit \in Limits :
              Walk(i, paths, changed, limit)
         \/ Compare(i) \/ ReadSource(i) \/ \E p \in Indexed : Upsert(i, p)
         \/ EndOfLoop(i) \/ Interrupt(i)
    \/ DeleteStale

FilesSpec == FilesInit /\ [][FilesNext]_filesVars

\* workspace_search: a word is looked up, and its rows by their numbers.
Hits(p, text) == {q \in InIndex : <<row[q].number, p, text>> \in words}

-----------------------------------------------------------------------------
(* The index of delegations *)

BeginRow(d) ==
    /\ filing[d] = "running" /\ history[d] = "none"
    /\ history' = [history EXCEPT ![d] = "open"]
    /\ UNCHANGED <<filing, entry, backfill, overtaken>>

\* The row of the history has its outcome; then the handler files it.
EndRow(d) ==
    /\ filing[d] = "running" /\ history[d] = "open"
    /\ history' = [history EXCEPT ![d] = "ended"]
    /\ filing' = [filing EXCEPT ![d] = "ended"]
    /\ UNCHANGED <<entry, backfill, overtaken>>

\* index_delegation_after_delegate: a failure is a warning.
FileEntry(d, works) ==
    /\ filing[d] = "ended"
    /\ filing' = [filing EXCEPT ![d] = IF works THEN "filed" ELSE "gone"]
    /\ entry' = IF works THEN [entry EXCEPT ![d] = "ended"] ELSE entry
    /\ UNCHANGED <<history, backfill, overtaken>>

\* The process dies; the next start of a server closes its row.
CrashAndReconcile(d) ==
    \/ /\ filing[d] \in {"running", "ended"} /\ filing' = [filing EXCEPT ![d] = "gone"]
       /\ UNCHANGED <<history, entry, backfill, overtaken>>
    \/ /\ filing[d] = "gone" /\ history[d] = "open"
       /\ history' = [history EXCEPT ![d] = "ended"]
       /\ UNCHANGED <<filing, entry, backfill, overtaken>>

\* backfill_from_history reads all rows, whether ended or not, ...
ReadHistory ==
    /\ backfill = NoBackfill
    /\ backfill' = [NoBackfill EXCEPT !.rows = {<<d, history[d]>> : d \in {e \in Filed : history[e] # "none"}}]
    /\ overtaken' = overtaken \union {d \in Filed : history[d] = "open"}
    /\ UNCHANGED <<history, filing, entry>>

\* ... looks whether each has an entry ...
FindMissing(r) ==
    /\ r \in backfill.rows /\ backfill.missing = {}
    /\ backfill' = [rows |-> backfill.rows \ {r},
                    missing |-> IF entry[r[1]] = "none" THEN {r} ELSE {}]
    /\ UNCHANGED <<history, filing, entry, overtaken>>

\* ... and writes one if not.
AddMissing(r) ==
    /\ r \in backfill.missing
    /\ entry' = [entry EXCEPT ![r[1]] = r[2]]
    /\ backfill' = [backfill EXCEPT !.missing = {}]
    /\ UNCHANGED <<history, filing, overtaken>>

EntriesNext ==
    \/ \E d \in Filed : BeginRow(d) \/ EndRow(d) \/ CrashAndReconcile(d)
    \/ \E d \in Filed, works \in BOOLEAN : FileEntry(d, works)
    \/ ReadHistory
    \/ \E r \in Filed \X {"open", "ended"} : FindMissing(r) \/ AddMissing(r)

EntriesSpec == EntriesInit /\ [][EntriesNext]_entriesVars

IndexTypeOK ==
    /\ \A p \in Indexed : row[p].number \in 0 .. MaxWrites /\ row[p].text \in Texts \union {NoText}
    /\ words \subseteq (1 .. MaxWrites) \X Indexed \X (Texts \union {NoText})
    /\ raced \subseteq Indexed /\ disturbed \in BOOLEAN
    /\ \A d \in Filed : entry[d] \in {"none", "open", "ended"}

-----------------------------------------------------------------------------
(* Properties *)

\* After a full run that nothing disturbed and no limit cut short, the index
\* has the files of the workspace with their hashes, and no others, whatever
\* interrupted runs and the ends of delegations had left (workspace_indexer.py
\* 118-164).
IndexMirrors ==
    synced => \A p \in Indexed :
        IF disk[p] = Absent THEN p \notin InIndex ELSE p \in InIndex /\ row[p].sha = disk[p]

\* The summary of a row is of the text its hash says, unless the file was
\* edited while an indexer held its hash (workspace_indexer.py 88-107).
HashOfItsText ==
    \A p \in InIndex \ raced : row[p].text \in {row[p].sha, NoText}

\* A file is found by its text; and until a row was deleted, by no other, as
\* the number a replaced row leaves its words under is not given again
\* (workspace_db.py 29-41).
FoundByOwnText ==
    /\ \A p \in InIndex : p \in Hits(p, row[p].text)
    /\ ~pruned => \A w \in words : \A p \in Hits(w[2], w[3]) :
                      row[p].number = w[1] => w[2] = p /\ w[3] = row[p].text

\* A delegation that was filed is found with its outcome, unless `rag index'
\* read its row before its end (index.py 150-215).
EntriesHaveOutcomes ==
    \A d \in Filed \ overtaken :
        /\ entry[d] # "open"
        /\ filing[d] = "filed" => entry[d] = "ended"

\* A search tells of the workspace and of its delegations as they are.
IndexIsSound ==
    IndexMirrors /\ HashOfItsText /\ FoundByOwnText /\ EntriesHaveOutcomes

\* docs/notes/archive/rag-gap-analysis.md:263: "Refresh on sha256 change; drop
\* stale summaries".  The words of a replaced row come back with its number.
HitsAreOwn ==
    \A w \in words, p \in InIndex : row[p].number = w[1] => w[2] = p /\ w[3] = row[p].text

\* docs/guide/terminology.md:99: "FTS5 index over past delegations.
\* Auto-indexed each delegate."  An open row that `rag index' read may replace
\* the entry, and is never filled in when the process dies.
EntriesAreFinal == \A d \in Filed : filing[d] \in {"filed", "gone"} => entry[d] # "open"
=============================================================================
