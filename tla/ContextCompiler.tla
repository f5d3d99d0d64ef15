-------------------------- MODULE ContextCompiler --------------------------
(***************************************************************************)
(* The compiler of the executor's context: which files the package of a    *)
(* delegation with a spec names, with how much of their text, and what is  *)
(* taken from them until the package fits the model's budget               *)
(* (core/context/{file_picker,assemble,capability_adjust,excerpts,budget}  *)
(* .py, core/specs/delegation_policies.py, the translation in              *)
(* core/engine/aider_engine.py).                                           *)
(*                                                                         *)
(* Paths are numbers in the order in which the compiler sorts them.  A     *)
(* text is its weight, 0 for none.  The passes of the planner and of the   *)
(* builder lie between the first read of a file and the next, so each read *)
(* finds the file as it is by then: any weight, or unreadable.  A path has *)
(* one role; the compiler takes one the spec names twice for editing.      *)
(***************************************************************************)
EXTENDS Naturals, FiniteSets, FiniteSetsExt, Functions

CONSTANTS
    PathCount,   \* paths of the workspace
    MaxDiscover, \* MCP_CODER_PICKER_MAX_DISCOVERED
    MaxWeight,   \* of a text
    SmallWeight, \* MCP_CODER_READ_FULL_MAX_BYTES
    HeadWeight,  \* the forty lines a shrunk excerpt keeps
    Budget       \* tokens of the model's context, 0 when budgeting is off

ASSUME CompilerAssumption ==
    /\ PathCount \in Nat /\ MaxDiscover \in Nat \ {0} /\ MaxWeight \in Nat
    /\ SmallWeight \in 1 .. MaxWeight /\ HeadWeight \in Nat /\ Budget \in Nat

VARIABLES
    at,       \* the step of the compiler, the steps of the budget numbered
    role,     \* per path: what the spec's contract says of it
    found,    \* paths the picker found beyond the contract
    suggested,\* of those, the ones it proposes for editing
    entries,  \* the package: per path of it a tier and the weight of its text
    pos,      \* where the loop of a budget step is
    pointers, \* paths the brief lists as dropped
    unread,   \* paths some step could not read
    warned,   \* context_budget:still_over_limit
    request   \* what the executor gets: files to edit, read block, contract

compilerVars == <<at, role, found, suggested, entries, pos, pointers, unread, warned, request>>
picks == <<role, found, suggested>>

Paths == 1 .. PathCount
Roles == {"edit", "read", "delete", "none"}
Tiers == {"edit-full", "read-full", "read-excerpt", "pointer"}
Contract == {p \in Paths : role[p] # "none"}
NoRequest == [fnames |-> {}, readBlock |-> {}, allowed |-> {}, deletes |-> {}]

CompilerTypeOK ==
    /\ at \in {"pick", "assemble", "adjust", "excerpt", "shrink", "drop",
               "translate", "done"}
    /\ role \in [Paths -> Roles]
    /\ found \subseteq Paths \ Contract /\ suggested \subseteq found
    /\ DOMAIN entries \subseteq Paths
    /\ \A p \in DOMAIN entries :
         entries[p] \in [tier : Tiers, text : 0 .. MaxWeight + HeadWeight + 1]
    /\ pos \in 1 .. PathCount + 1
    /\ pointers \subseteq Paths /\ unread \subseteq Paths /\ warned \in BOOLEAN
    /\ request \in [{"fnames", "readBlock", "allowed", "deletes"} -> SUBSET Paths]

CompilerInit ==
    /\ at = "pick" /\ role \in [Paths -> Roles]
    /\ found = {} /\ suggested = {} /\ entries = <<>> /\ pos = 1
    /\ pointers = {} /\ unread = {} /\ warned = FALSE /\ request = NoRequest

-----------------------------------------------------------------------------
\* A read of a file, 0 when it is missing or not text.
Reads == 0 .. MaxWeight

\* build_file_excerpt: a small text is its own excerpt; the symbols of a
\* larger one may weigh anything.
Excerpts == 0 .. MaxWeight

\* The first lines of an excerpt and the note below them: a short excerpt
\* gains the note.
Shrunk(text) == Min({text, HeadWeight}) + 1

TextWeight(f) == MapThenSumSet(LAMBDA p : f[p].text, DOMAIN f)

\* The brief weighs one, and one per path it lists as dropped.
Estimate(f, listed) == 1 + Cardinality(listed) + TextWeight(f)

Over == ~(Estimate(entries, {}) <= Budget)

\* A path the contract does not know is for reading, and so is one that is
\* to be deleted.
Tier(p) == IF role[p] = "edit" THEN "edit-full" ELSE "read-full"

-----------------------------------------------------------------------------
\* Mutant: the picker does not look whether the contract has the path.
PickKnownToo ==
    /\ at = "pick" /\ at' = "assemble"
    /\ found' \in SUBSET Paths /\ suggested' = {}
    /\ UNCHANGED <<role, entries, pos, pointers, unread, warned, request>>

\* The picker adds the paths of the retrieval, as many as they are, and
\* then hits of the symbol scan up to its cap, which counts both; hits in a
\* directory with files to edit are suggested when the spec lets it discover.
PickFiles ==
    /\ at = "pick" /\ at' = "assemble"
    /\ \E rag, hits \in SUBSET (Paths \ Contract), discover \in BOOLEAN :
         /\ hits \cap rag = {}
         /\ hits = {} \/ Cardinality(rag \cup hits) <= MaxDiscover
         /\ found' = rag \cup hits
         /\ suggested' \in IF discover THEN SUBSET hits ELSE {{}}
    /\ UNCHANGED <<role, entries, pos, pointers, unread, warned, request>>

\* Without the builder there is no picker.
SkipPicker ==
    /\ at = "pick" /\ at' = "assemble"
    /\ UNCHANGED <<picks, entries, pos, pointers, unread, warned, request>>

\* assemble_context: texts to edit in full, texts to read in full up to the
\* threshold and as excerpts above it.
AssembledEntries(read, excerpt) ==
    [p \in Contract \cup found |->
        IF Tier(p) = "read-full" /\ read[p] > SmallWeight /\ excerpt[p] > 0
          THEN [tier |-> "read-excerpt", text |-> excerpt[p]]
          ELSE [tier |-> Tier(p), text |-> read[p]]]

Assemble ==
    /\ at = "assemble" /\ at' = "adjust"
    /\ \E read, excerpt \in [Contract \cup found -> Reads] :
         /\ \A p \in DOMAIN read :
              read[p] <= SmallWeight \/ Tier(p) = "edit-full" => excerpt[p] = 0
         /\ entries' = AssembledEntries(read, excerpt)
         /\ unread' = {p \in DOMAIN read : read[p] = 0}
    /\ UNCHANGED <<picks, pos, pointers, warned, request>>

\* The next step of the budget, or none when the package fits.
NextStep(step, f) ==
    IF Estimate(f, {}) <= Budget \/ Budget = 0 THEN "translate" ELSE step

\* apply_backend_capabilities for a backend that cannot take files to read:
\* what cannot be read again stays as it is.
Adjust ==
    /\ at = "adjust"
    /\ \/ UNCHANGED entries
       \/ \E excerpt \in [DOMAIN entries -> Excerpts] :
            entries' = [p \in DOMAIN entries |->
                IF entries[p].tier = "read-full" /\ excerpt[p] > 0
                  THEN [tier |-> "read-excerpt", text |-> excerpt[p]]
                  ELSE entries[p]]
    /\ at' = NextStep("excerpt", entries')
    /\ UNCHANGED <<picks, pos, pointers, unread, warned, request>>

\* The loops of apply_context_budget look at one entry after the other and
\* stop when the package fits; the next loop starts from the first entry.
Advance(here, then) ==
    IF ~Over' THEN at' = "translate" /\ pos' = 1
    ELSE IF pos < PathCount THEN at' = here /\ pos' = pos + 1
    ELSE at' = then /\ pos' = 1

HasTier(tiers) == pos \in DOMAIN entries /\ entries[pos].tier \in tiers

\* Step 1; a text that cannot be read again is cleared.
ExcerptEntry ==
    /\ at = "excerpt"
    /\ IF HasTier({"read-full"})
         THEN \E excerpt \in Excerpts :
                /\ entries' = [entries EXCEPT ![pos] =
                                  [tier |-> "read-excerpt", text |-> excerpt]]
                /\ unread' = IF excerpt = 0 THEN unread \cup {pos} ELSE unread
         ELSE UNCHANGED <<entries, unread>>
    /\ Advance("excerpt", "shrink")
    /\ UNCHANGED <<picks, pointers, warned, request>>

\* Mutant: the loop shrinks whatever has a text.
ShrinkAny ==
    /\ at = "shrink"
    /\ IF pos \in DOMAIN entries /\ entries[pos].text > 0
         THEN entries' = [entries EXCEPT ![pos].text = Shrunk(@)]
         ELSE UNCHANGED entries
    /\ Advance("shrink", "drop")
    /\ UNCHANGED <<picks, pointers, unread, warned, request>>

\* Mutant: the loop stops before the last path.
ShrinkButLast ==
    /\ at = "shrink"
    /\ IF HasTier({"read-excerpt"}) /\ entries[pos].text > 0 /\ pos < PathCount
         THEN entries' = [entries EXCEPT ![pos].text = Shrunk(@)]
         ELSE UNCHANGED entries
    /\ Advance("shrink", "drop")
    /\ UNCHANGED <<picks, pointers, unread, warned, request>>

\* Step 2.
ShrinkEntry ==
    /\ at = "shrink"
    /\ IF HasTier({"read-excerpt"}) /\ entries[pos].text > 0
         THEN entries' = [entries EXCEPT ![pos].text = Shrunk(@)]
         ELSE UNCHANGED entries
    /\ Advance("shrink", "drop")
    /\ UNCHANGED <<picks, pointers, unread, warned, request>>

\* Step 3; the list of the dropped paths is added to the brief after the
\* loop, which does not count it when it stops, and may be too much again.
DropEntry ==
    /\ at = "drop"
    /\ IF HasTier({"read-full", "read-excerpt"}) /\ entries[pos].text > 0
         THEN /\ entries' = [entries EXCEPT ![pos] = [tier |-> "pointer", text |-> 0]]
              /\ pointers' = pointers \cup {pos}
         ELSE UNCHANGED <<entries, pointers>>
    /\ Advance("drop", "translate")
    /\ warned' = (at' = "translate" /\ ~(Estimate(entries', pointers') <= Budget))
    /\ UNCHANGED <<picks, unread, request>>

\* translate_context_package and the two blocks of the contract below it:
\* what may be touched is what the spec says, read or not.
Translate ==
    /\ at = "translate" /\ at' = "done"
    /\ request' = [fnames    |-> {p \in DOMAIN entries : entries[p].tier = "edit-full"},
                   readBlock |-> {p \in DOMAIN entries :
                                    /\ entries[p].tier \in {"read-full", "read-excerpt"}
                                    /\ entries[p].text > 0},
                   allowed   |-> Contract,
                   deletes   |-> {p \in Paths : role[p] = "delete"}]
    /\ UNCHANGED <<picks, entries, pos, pointers, unread, warned>>

CompilerNext ==
    \/ PickFiles \/ SkipPicker \/ Assemble \/ Adjust
    \/ ExcerptEntry \/ ShrinkEntry \/ DropEntry \/ Translate

CompilerSpec == CompilerInit /\ [][CompilerNext]_compilerVars

-----------------------------------------------------------------------------
(* Properties *)

\* The executor can edit what the spec lets it edit and nothing the picker,
\* the retrieval or a hint brought in; and no step takes a file to edit from
\* it (assemble.py 178, "never edit-full", and budget.py 104).
EditsAreTheContract ==
    at = "done" => request.fnames = {p \in Paths : role[p] = "edit"}

\* The texts to edit are those the compiler read first: neither the backend's
\* capabilities nor the budget shortens them (budget.py 104).
EditTextsKept ==
    [][\A p \in DOMAIN entries : role[p] = "edit" => entries'[p] = entries[p]]_compilerVars

\* A path of the package that reaches the executor without its text is listed
\* in the brief, unless some read of it failed: what the budget takes, it
\* names (budget.py 225-227).
DroppedAreListed ==
    at = "done" =>
        \A p \in DOMAIN entries :
            p \in request.readBlock \/ p \in request.fnames \/ p \in pointers \/ p \in unread

\* The warning means that nothing is left to take, or that it is the list of
\* the dropped paths that is too much; without it the package fits
\* (budget.py 96-105).
WarningIsLast ==
    at = "done" /\ Budget > 0 =>
        /\ ~warned => Estimate(entries, pointers) <= Budget
        /\ warned => Estimate(entries, {}) <= Budget \/ request.readBlock = {}

\* A text is dropped only when every other was shortened first: no file to
\* read is in full or longer than the lines an excerpt keeps.
GentlestFirst ==
    pointers # {} =>
        \A p \in DOMAIN entries : role[p] # "edit" =>
            entries[p].tier # "read-full" /\ entries[p].text <= HeadWeight + 1

\* What the package promises the executor, together: the files of the contract,
\* the names of what was taken, a warning that is meant, the gentlest cuts first.
PackageIsSound ==
    EditsAreTheContract /\ DroppedAreListed /\ WarningIsLast /\ GentlestFirst
=============================================================================
