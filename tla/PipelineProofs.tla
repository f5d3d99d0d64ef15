--------------------------- MODULE PipelineProofs ---------------------------
(***************************************************************************)
(* Theorems about the gates before the executor, the pipeline that builds  *)
(* its prompt and the compiler of its context, for every set of questions, *)
(* cap on rounds, number of turns, number of paths and budget.             *)
(***************************************************************************)
EXTENDS MCPipeline, FiniteSetTheorems, SequenceTheorems, TLAPS

-----------------------------------------------------------------------------
(***************************************************************************)
(* The gates.                                                              *)
(***************************************************************************)
\* Questions are asked below the cap only, and no delegation with a refused
\* spec asks or runs.
AskedBelowCap ==
    gate \in {"dispatch", "resolve", "pause"} /\ (gate = "dispatch" => asked # {}) =>
        BlockedRounds(spec) < RoundCap

\* The inductive invariant behind ClarityHolds.
GatesInv ==
    /\ GatesTypeOK
    /\ \A s \in Specs : rounds[s] <= RoundCap
    /\ AskedBelowCap
    /\ gate \in {"resolve", "pause", "run"} => ~invalid
    /\ gate = "run" => \A q \in asked : qa[q] # "absent"

LEMMA RoundCapIsNatural == RoundCap \in Nat
    BY RoundCapAssumption

LEMMA RoundsAreNaturals ==
    ASSUME GatesTypeOK, NEW s \in Specs
    PROVE  /\ BlockedRounds(s) \in Nat /\ rounds[s] \in Nat /\ rounds[s] <= BlockedRounds(s)
    BY DEF GatesTypeOK, Specs, BlockedRounds

LEMMA GatesStart == GatesInit => GatesInv
<1> SUFFICES ASSUME GatesInit PROVE GatesInv
    OBVIOUS
<1>1. qa \in [Questions -> Answers] /\ rounds \in [Specs -> Nat] /\ 0 \in 0 .. RoundCap + 1
      /\ \A s \in Specs : rounds[s] <= RoundCap
    BY RoundCapIsNatural DEF GatesInit, Answers
<1>2. GatesTypeOK
    BY <1>1 DEF GatesInit, GatesTypeOK, Gates, Specs
<1> QED
    BY <1>1, <1>2 DEF GatesInit, GatesInv, AskedBelowCap

LEMMA AnswersAreTyped ==
    ASSUME GatesTypeOK, NEW qs, NEW answer \in {"open", "host", "agent"}
    PROVE  /\ AppendQA(qs, answer) \in [Questions -> Answers]
           /\ \A q \in Questions : qa[q] # "absent" => AppendQA(qs, answer)[q] = qa[q]
           /\ \A q \in Questions : q \in qs => AppendQA(qs, answer)[q] # "absent"
    BY DEF GatesTypeOK, AppendQA, Answers

LEMMA GatesKeep == ASSUME GatesInv, GatesNext PROVE GatesInv'
<1> USE DEF GatesInv, GatesTypeOK, Gates, Specs
<1>1. CASE Delegate
    <2>1. invalid' \in BOOLEAN /\ 0 \in 0 .. RoundCap + 1
        <3>1. CASE spec' = NoSpec
            BY <1>1, <3>1, RoundCapIsNatural DEF Delegate
        <3>2. CASE spec' # NoSpec
            BY <1>1, <3>2, RoundCapIsNatural DEF Delegate
        <3> QED
            BY <3>1, <3>2
    <2>2. /\ spec' \in Specs /\ gate' = "validate" /\ validation' = "skipped" /\ asked' = {}
          /\ round' = 0 /\ verdict' = "none" /\ UNCHANGED <<qa, rounds>>
        BY <1>1 DEF Delegate
    <2> QED
        BY <2>1, <2>2 DEF AskedBelowCap
<1>2. CASE ValidateSpec
    <2>1. validation' \in {"skipped", "passed", "blocked", "failed"}
        BY <1>2 DEF ValidateSpec, ValidationVerdict, Verdict
    <2> QED
        BY <1>2, <2>1 DEF ValidateSpec, AskedBelowCap
<1>3. CASE CheckClarity
    <2> DEFINE prior == BlockedRounds(spec)
    <2>1. prior \in Nat /\ prior' = prior
        BY <1>3, RoundsAreNaturals DEF CheckClarity, BlockedRounds
    <2> HIDE DEF prior
    <2>2. /\ round' \in 0 .. RoundCap + 1 /\ asked' \subseteq Questions
          /\ asked' # {} => prior < RoundCap
        BY <1>3, <2>1, RoundCapIsNatural DEF CheckClarity, prior
    <2> QED
        BY <1>3, <2>1, <2>2 DEF CheckClarity, AskedBelowCap, prior
<1>4. CASE Dispatch
    <2>1. BlockedRounds(spec)' = BlockedRounds(spec)
        BY <1>4 DEF Dispatch, BlockedRounds
    <2> QED
        BY <1>4, <2>1 DEF Dispatch, AskedBelowCap
<1>5. CASE Resolve
    <2>1. BlockedRounds(spec)' = BlockedRounds(spec)
        BY <1>5 DEF Resolve, BlockedRounds
    <2>2. qa' \in [Questions -> Answers] /\ (gate' = "run" => \A q \in asked : qa'[q] # "absent")
        BY <1>5, AnswersAreTyped DEF Resolve
    <2> QED
        BY <1>5, <2>1, <2>2 DEF Resolve, AskedBelowCap
<1>6. CASE Pause
    <2>1. qa' \in [Questions -> Answers]
        BY <1>6, AnswersAreTyped DEF Pause
    <2>2. BlockedRounds(spec) < RoundCap /\ BlockedRounds(spec) \in Nat
          /\ rounds[spec] \in Nat /\ rounds[spec] <= BlockedRounds(spec)
        BY <1>6, RoundsAreNaturals DEF Pause, AskedBelowCap
    <2>3. rounds' \in [Specs -> Nat] /\ \A s \in Specs : rounds'[s] <= RoundCap
        BY <1>6, <2>2, RoundCapIsNatural DEF Pause
    <2> QED
        BY <1>6, <2>1, <2>3 DEF Pause, AskedBelowCap
<1>7. CASE ReachExecutor
    BY <1>7 DEF ReachExecutor, AskedBelowCap
<1>8. CASE HostAnswers
    <2>1. qa' \in [Questions -> Answers]
        BY <1>8 DEF HostAnswers, Answers
    <2> QED
        BY <1>8, <2>1 DEF HostAnswers, AskedBelowCap
<1>9. CASE NewSession
    BY <1>9, RoundCapIsNatural DEF NewSession, AskedBelowCap
<1> QED
    BY <1>1, <1>2, <1>3, <1>4, <1>5, <1>6, <1>7, <1>8, <1>9 DEF GatesNext

LEMMA GatesAreInductive == GatesInv /\ [GatesNext]_gateVars => GatesInv'
<1>1. CASE UNCHANGED gateVars
    BY <1>1 DEF gateVars, GatesInv, GatesTypeOK, AskedBelowCap, BlockedRounds
<1> QED
    BY <1>1, GatesKeep

LEMMA GatesHold == GatesInv => ClarityHolds
    BY DEF GatesInv, AskedBelowCap, ClarityHolds, ClarityCapped, RunsOnlyWhenAnswered

\* However many delegations of a session follow one another, with a spec and
\* without, the host is asked at most RoundCap times and no delegation runs
\* with a question that nobody has put into the spec
\* (helper_llm_pipeline.py:485, mcp_server.py:1011).
THEOREM GatesAreSound == GatesSpec => []ClarityHolds
<1> HIDE DEF GatesInv
<1> QED
    BY GatesStart, GatesAreInductive, GatesHold, PTL DEF GatesSpec

\* An answer that is in the spec stays there, whatever a later round asks
\* (write.py:339).
THEOREM AnswersAreNotReplaced == GatesSpec => AnswersKept
<1>1. ASSUME GatesInv, [GatesNext]_gateVars, NEW q \in Questions, qa[q] \in {"host", "agent"}
      PROVE  qa'[q] = qa[q]
    <2>1. CASE qa' = qa
        BY <2>1
    <2>2. CASE \E p \in Questions : qa[p] = "open" /\ qa' = [qa EXCEPT ![p] = "host"]
        BY <1>1, <2>2 DEF GatesInv, GatesTypeOK
    <2>3. CASE qa' = AppendQA(asked, "agent") \/ qa' = AppendQA(asked, "open")
        BY <1>1, <2>3, AnswersAreTyped DEF GatesInv
    <2> QED
        BY <1>1, <2>1, <2>2, <2>3
        DEF GatesNext, gateVars, Delegate, ValidateSpec, CheckClarity, Dispatch, Resolve, Pause,
            ReachExecutor, HostAnswers, NewSession
<1>2. GatesInv /\ [GatesNext]_gateVars =>
        [\A q \in Questions : qa[q] \in {"host", "agent"} => qa'[q] = qa[q]]_gateVars
    BY <1>1
<1> HIDE DEF GatesInv
<1> QED
    BY <1>2, GatesStart, GatesAreInductive, PTL DEF GatesSpec, AnswersKept

-----------------------------------------------------------------------------
(***************************************************************************)
(* The compiler of the context.                                            *)
(***************************************************************************)
EntryOf == [tier : Tiers, text : 0 .. MaxWeight + HeadWeight + 1]

\* An entry is for editing when the contract says so; one without a text was
\* dropped by the budget, and is listed, or could not be read.
EntrySound(p) ==
    /\ entries[p].tier = "edit-full" <=> role[p] = "edit"
    /\ entries[p].tier = "pointer" => p \in pointers /\ entries[p].text = 0
    /\ entries[p].text = 0 => role[p] = "edit" \/ p \in pointers \/ p \in unread

\* What each loop of the budget leaves behind it.
Excerpted(p) == role[p] # "edit" => entries[p].tier # "read-full"
Shortened(p) == role[p] # "edit" => entries[p].tier # "read-full" /\ entries[p].text <= HeadWeight + 1
Dropped(p) == role[p] # "edit" => entries[p].text = 0

LoopsBehind ==
    /\ at = "excerpt" => \A p \in DOMAIN entries : p < pos => Excerpted(p)
    /\ at = "shrink" => \A p \in DOMAIN entries : Excerpted(p) /\ (p < pos => Shortened(p))
    /\ at = "drop" => \A p \in DOMAIN entries : Shortened(p) /\ (p < pos => Dropped(p))
    /\ pointers # {} => \A p \in DOMAIN entries : Shortened(p)
    /\ at \notin {"drop", "translate", "done"} => pointers = {}

\* Once the budget is through, the package fits or nothing is left to take,
\* but for the list of what was taken.
FitsOrWarned ==
    /\ at \notin {"translate", "done"} => ~warned
    /\ at \in {"translate", "done"} /\ Budget > 0 =>
         /\ ~warned => Estimate(entries, pointers) <= Budget
         /\ warned => Estimate(entries, {}) <= Budget \/ \A p \in DOMAIN entries : Dropped(p)

\* The inductive invariant behind PackageIsSound.
CompilerInv ==
    /\ CompilerTypeOK
    /\ DOMAIN entries = IF at \in {"pick", "assemble"} THEN {} ELSE Contract \cup found
    /\ \A p \in DOMAIN entries : EntrySound(p)
    /\ at \in {"pick", "assemble", "adjust"} => pos = 1
    /\ LoopsBehind /\ FitsOrWarned
    /\ at = "done" =>
         /\ request.fnames = {p \in DOMAIN entries : entries[p].tier = "edit-full"}
         /\ request.readBlock = {p \in DOMAIN entries : /\ entries[p].tier \in {"read-full", "read-excerpt"}
                                                        /\ entries[p].text > 0}

LEMMA CompilerBounds ==
    /\ PathCount \in Nat /\ MaxWeight \in Nat /\ HeadWeight \in Nat /\ Budget \in Nat /\ SmallWeight \in Nat
    /\ 1 \in 1 .. PathCount + 1
    /\ 0 .. MaxWeight \subseteq 0 .. MaxWeight + HeadWeight + 1
    BY CompilerAssumption

LEMMA CompilerStarts == CompilerInit => CompilerInv
<1> SUFFICES ASSUME CompilerInit PROVE CompilerInv
    OBVIOUS
<1>1. DOMAIN entries = {}
    BY DEF CompilerInit
<1>2. CompilerTypeOK
    <2>1. NoRequest \in [{"fnames", "readBlock", "allowed", "deletes"} -> SUBSET Paths]
        BY DEF NoRequest
    <2>2. /\ pos = 1 /\ role \in [Paths -> Roles] /\ found = {} /\ suggested = {} /\ pointers = {}
          /\ unread = {} /\ warned = FALSE /\ request = NoRequest /\ at = "pick"
        BY DEF CompilerInit
    <2> QED
        BY <1>1, <2>1, <2>2, CompilerBounds DEF CompilerTypeOK
<1> QED
    BY <1>1, <1>2 DEF CompilerInit, CompilerInv, LoopsBehind, FitsOrWarned

LEMMA PickingKeeps == ASSUME CompilerInv, PickFiles \/ SkipPicker PROVE CompilerInv'
<1>1. /\ found' \subseteq Paths \ Contract /\ suggested' \subseteq found'
      /\ UNCHANGED <<role, entries, pos, pointers, unread, warned, request>>
      /\ at = "pick" /\ at' = "assemble" /\ DOMAIN entries = {}
    BY DEF PickFiles, SkipPicker, picks, CompilerInv, CompilerTypeOK
<1>2. CompilerTypeOK'
    BY <1>1 DEF CompilerInv, CompilerTypeOK, Contract
<1> QED
    BY <1>1, <1>2 DEF CompilerInv, LoopsBehind, FitsOrWarned

LEMMA AssembleKeeps == ASSUME CompilerInv, Assemble PROVE CompilerInv'
<1>1. PICK read \in [Contract \cup found -> Reads], excerpt \in [Contract \cup found -> Reads] :
        /\ entries' = AssembledEntries(read, excerpt)
        /\ unread' = {p \in DOMAIN read : read[p] = 0}
    BY DEF Assemble
<1>2. /\ UNCHANGED <<role, found, suggested, pos, pointers, warned, request>>
      /\ at = "assemble" /\ at' = "adjust" /\ pointers = {} /\ ~warned
    BY DEF Assemble, picks, CompilerInv, LoopsBehind, FitsOrWarned
<1>3. /\ DOMAIN entries' = Contract \cup found /\ Contract \cup found \subseteq Paths
      /\ (Contract \cup found)' = Contract \cup found
    BY <1>1, <1>2 DEF AssembledEntries, Contract, CompilerInv, CompilerTypeOK
<1>4. ASSUME NEW p \in Contract \cup found
      PROVE  /\ entries'[p] \in EntryOf
             /\ entries'[p].tier = "edit-full" <=> role[p] = "edit"
             /\ entries'[p].tier # "pointer"
             /\ entries'[p].text = 0 => p \in unread'
    <2>1. read[p] \in 0 .. MaxWeight /\ excerpt[p] \in 0 .. MaxWeight
        BY <1>1 DEF Reads
    <2>2. entries'[p] = IF Tier(p) = "read-full" /\ read[p] > SmallWeight /\ excerpt[p] > 0
                          THEN [tier |-> "read-excerpt", text |-> excerpt[p]]
                          ELSE [tier |-> Tier(p), text |-> read[p]]
        BY <1>1 DEF AssembledEntries
    <2>3. Tier(p) \in {"edit-full", "read-full"} /\ (Tier(p) = "edit-full" <=> role[p] = "edit")
        BY DEF Tier
    <2> HIDE DEF Tier
    <2>4. \A w \in 0 .. MaxWeight : w \in 0 .. MaxWeight + HeadWeight + 1 /\ (w > 0 => w # 0)
        BY CompilerBounds
    <2>5. CASE Tier(p) = "read-full" /\ read[p] > SmallWeight /\ excerpt[p] > 0
        BY <2>1, <2>2, <2>3, <2>4, <2>5 DEF EntryOf, Tiers
    <2>6. CASE ~(Tier(p) = "read-full" /\ read[p] > SmallWeight /\ excerpt[p] > 0)
        <3>1. entries'[p] = [tier |-> Tier(p), text |-> read[p]]
            BY <2>2, <2>6
        <3>2. read[p] = 0 => p \in unread'
            BY <1>1
        <3> QED
            BY <2>1, <2>3, <2>4, <3>1, <3>2 DEF EntryOf, Tiers
    <2> QED
        BY <2>5, <2>6
<1>5. CompilerTypeOK'
    <2>1. unread' \subseteq Paths
        BY <1>1, <1>3
    <2>2. Contract' = Contract
        BY <1>2 DEF Contract
    <2> QED
        BY <1>2, <1>3, <1>4, <2>1, <2>2 DEF CompilerInv, CompilerTypeOK, EntryOf
<1>6. \A p \in DOMAIN entries' : EntrySound(p)'
    BY <1>2, <1>3, <1>4 DEF EntrySound
<1> QED
    BY <1>2, <1>3, <1>5, <1>6 DEF CompilerInv, LoopsBehind, FitsOrWarned

\* The package fits, or there is no budget.
LEMMA FitsAtOnce ==
    ASSUME NEW step \in {"excerpt"}, at' = NextStep(step, entries')
    PROVE  /\ at' \in {"excerpt", "translate"}
           /\ at' = "translate" /\ Budget > 0 => Estimate(entries', {}) <= Budget
    BY CompilerBounds DEF NextStep

LEMMA AdjustKeeps == ASSUME CompilerInv, Adjust PROVE CompilerInv'
<1>1. /\ UNCHANGED <<role, found, suggested, pos, pointers, unread, warned, request>>
      /\ at = "adjust" /\ pointers = {} /\ ~warned /\ DOMAIN entries = Contract \cup found
      /\ at' = NextStep("excerpt", entries')
      /\ \A p \in DOMAIN entries : EntrySound(p) /\ entries[p] \in EntryOf
    BY DEF Adjust, picks, CompilerInv, CompilerTypeOK, EntryOf, LoopsBehind, FitsOrWarned
<1>2. /\ at' \in {"excerpt", "translate"}
      /\ at' = "translate" /\ Budget > 0 => Estimate(entries', {}) <= Budget
    BY <1>1, FitsAtOnce
<1>3. /\ DOMAIN entries' = DOMAIN entries
      /\ \A p \in DOMAIN entries :
           /\ entries'[p] \in EntryOf
           /\ \/ entries'[p] = entries[p]
              \/ /\ entries'[p].tier = "read-excerpt" /\ entries[p].tier = "read-full"
                 /\ entries'[p].text > 0 /\ entries'[p].text # 0
    <2>1. CASE entries' = entries
        BY <1>1, <2>1
    <2>2. CASE \E excerpt \in [DOMAIN entries -> Excerpts] :
                 entries' = [p \in DOMAIN entries |->
                    IF entries[p].tier = "read-full" /\ excerpt[p] > 0
                      THEN [tier |-> "read-excerpt", text |-> excerpt[p]]
                      ELSE entries[p]]
        <3>1. PICK excerpt \in [DOMAIN entries -> Excerpts] :
                 entries' = [p \in DOMAIN entries |->
                    IF entries[p].tier = "read-full" /\ excerpt[p] > 0
                      THEN [tier |-> "read-excerpt", text |-> excerpt[p]]
                      ELSE entries[p]]
            BY <2>2
        <3>2. \A p \in DOMAIN entries : excerpt[p] \in 0 .. MaxWeight + HeadWeight + 1
            BY CompilerBounds DEF Excerpts
        <3> QED
            BY <1>1, <3>1, <3>2 DEF EntryOf, Tiers
    <2> QED
        BY <2>1, <2>2 DEF Adjust
<1>4. CompilerTypeOK'
    BY <1>1, <1>2, <1>3 DEF CompilerInv, CompilerTypeOK, EntryOf, Contract
<1>5. \A p \in DOMAIN entries' : EntrySound(p)'
    BY <1>1, <1>3 DEF EntrySound
<1>6. (Contract \cup found)' = Contract \cup found
    BY <1>1 DEF Contract
<1>7. LoopsBehind'
    <2>1. at' = "excerpt" => \A p \in DOMAIN entries' : ~(p < pos')
        <3>1. DOMAIN entries' \subseteq 1 .. PathCount /\ pos' = 1
            BY <1>1, <1>3 DEF CompilerInv, CompilerTypeOK, Paths
        <3> QED
            BY <3>1, CompilerBounds
    <2> QED
        BY <1>1, <1>2, <2>1 DEF LoopsBehind
<1> QED
    BY <1>1, <1>2, <1>3, <1>4, <1>5, <1>6, <1>7 DEF CompilerInv, FitsOrWarned

\* A step of a loop: the next entry, the next loop, or the end.
LEMMA LoopGoesOn ==
    ASSUME CompilerInv, NEW here, NEW then, Advance(here, then)
    PROVE  /\ pos' \in 1 .. PathCount + 1
           /\ \/ at' = "translate" /\ Estimate(entries', {}) <= Budget
              \/ at' = here /\ \A p \in Paths : p < pos' => p < pos \/ p = pos
              \/ at' = then /\ (\A p \in Paths : p < pos \/ p = pos) /\ \A p \in Paths : ~(p < pos')
<1>1. pos \in 1 .. PathCount + 1 /\ PathCount \in Nat /\ 1 \in 1 .. PathCount + 1
    BY CompilerBounds DEF CompilerInv, CompilerTypeOK
<1>2. CASE ~Over'
    BY <1>1, <1>2 DEF Advance, Over
<1>3. CASE Over' /\ pos < PathCount
    <2>1. at' = here /\ pos' = pos + 1
        BY <1>3 DEF Advance
    <2> QED
        BY <1>1, <1>3, <2>1 DEF Paths
<1>4. CASE Over' /\ ~(pos < PathCount)
    <2>1. at' = then /\ pos' = 1
        BY <1>4 DEF Advance
    <2> QED
        BY <1>1, <1>4, <2>1 DEF Paths
<1> QED
    BY <1>2, <1>3, <1>4

\* What a loop changes: the entry it looks at, and no entry for editing.
LEMMA LoopKeeps ==
    ASSUME CompilerInv, NEW here, NEW then, Advance(here, then),
           here \in {"excerpt", "shrink", "drop"}, then \in {"shrink", "drop", "translate"},
           at = here, UNCHANGED <<picks, request>>, DOMAIN entries' = DOMAIN entries,
           \A p \in DOMAIN entries : p # pos => entries'[p] = entries[p],
           \A p \in DOMAIN entries : p = pos => entries'[p] \in EntryOf /\ EntrySound(p)',
           pointers \subseteq pointers', unread \subseteq unread',
           pointers' \subseteq Paths, unread' \subseteq Paths, warned' \in BOOLEAN,
           LoopsBehind', FitsOrWarned'
    PROVE  CompilerInv'
<1>1. /\ DOMAIN entries = Contract \cup found /\ UNCHANGED <<role, found, suggested, request>>
      /\ \A p \in DOMAIN entries : EntrySound(p) /\ entries[p] \in EntryOf
    BY DEF CompilerInv, CompilerTypeOK, EntryOf, picks
<1>2. (Contract \cup found)' = Contract \cup found
    BY <1>1 DEF Contract
<1>3. at' \in {"excerpt", "shrink", "drop", "translate"} /\ pos' \in 1 .. PathCount + 1
    BY LoopGoesOn
<1>4. \A p \in DOMAIN entries' : entries'[p] \in EntryOf
    BY <1>1
<1>5. ASSUME NEW p \in DOMAIN entries PROVE EntrySound(p)'
    BY <1>1 DEF EntrySound
<1>6. CompilerTypeOK'
    BY <1>1, <1>3, <1>4 DEF CompilerInv, CompilerTypeOK, EntryOf, Contract
<1> QED
    BY <1>1, <1>2, <1>3, <1>5, <1>6 DEF CompilerInv

LEMMA ExcerptKeeps == ASSUME CompilerInv, ExcerptEntry PROVE CompilerInv'
<1>0. PICK q : q = pos
    OBVIOUS
<1>1. /\ UNCHANGED <<role, found, suggested, pointers, warned, request>> /\ Advance("excerpt", "shrink")
      /\ at = "excerpt" /\ pointers = {} /\ ~warned /\ UNCHANGED picks
      /\ DOMAIN entries \subseteq Paths
      /\ \A p \in DOMAIN entries : EntrySound(p) /\ entries[p] \in EntryOf
      /\ \A p \in DOMAIN entries : p < pos => Excerpted(p)
    BY DEF ExcerptEntry, picks, CompilerInv, CompilerTypeOK, EntryOf, LoopsBehind, FitsOrWarned
<1>2. /\ DOMAIN entries' = DOMAIN entries /\ unread \subseteq unread' /\ unread' \subseteq Paths
      /\ \A p \in DOMAIN entries : p # pos => entries'[p] = entries[p]
      /\ pos \in DOMAIN entries => entries'[pos] \in EntryOf /\ EntrySound(q)' /\ Excerpted(q)'
    <2>1. CASE HasTier({"read-full"})
        <3>1. PICK excerpt \in Excerpts :
                /\ entries' = [entries EXCEPT ![pos] = [tier |-> "read-excerpt", text |-> excerpt]]
                /\ unread' = IF excerpt = 0 THEN unread \cup {pos} ELSE unread
            BY <1>0, <2>1 DEF ExcerptEntry
        <3>2. pos \in DOMAIN entries /\ entries[pos].tier = "read-full"
            BY <2>1 DEF HasTier
        <3>3. excerpt \in 0 .. MaxWeight + HeadWeight + 1
            BY CompilerBounds DEF Excerpts
        <3>4. /\ entries'[pos] = [tier |-> "read-excerpt", text |-> excerpt]
              /\ DOMAIN entries' = DOMAIN entries
              /\ \A p \in DOMAIN entries : p # pos => entries'[p] = entries[p]
            BY <3>1, <3>2
        <3>5. role[pos] # "edit"
            BY <1>1, <3>2 DEF EntrySound
        <3>6. entries'[pos] \in EntryOf /\ Excerpted(q)'
            BY <1>0, <3>3, <3>4 DEF EntryOf, Tiers, Excerpted
        <3>7. EntrySound(q)'
            BY <1>0, <1>1, <3>1, <3>4, <3>5 DEF EntrySound
        <3>8. unread \subseteq Paths /\ pos \in Paths
            BY <1>1, <3>2 DEF CompilerInv, CompilerTypeOK
        <3> QED
            BY <3>1, <3>4, <3>6, <3>7, <3>8
    <2>2. CASE ~HasTier({"read-full"})
        <3>1. UNCHANGED <<entries, unread>>
            BY <2>2 DEF ExcerptEntry
        <3>2. pos \in DOMAIN entries => entries[pos].tier # "read-full"
            BY <2>2 DEF HasTier
        <3>3. pos \in DOMAIN entries => EntrySound(q)' /\ Excerpted(q)'
            BY <1>0, <1>1, <3>1, <3>2 DEF EntrySound, Excerpted
        <3> QED
            BY <1>0, <1>1, <3>1, <3>3 DEF CompilerInv, CompilerTypeOK
    <2> QED
        BY <2>1, <2>2
<1>3. \A p \in DOMAIN entries : p < pos \/ p = pos => Excerpted(p)'
    BY <1>0, <1>1, <1>2 DEF Excerpted
<1>4. \/ at' = "translate" /\ Estimate(entries', {}) <= Budget
      \/ at' = "excerpt" /\ \A p \in Paths : p < pos' => p < pos \/ p = pos
      \/ at' = "shrink" /\ (\A p \in Paths : p < pos \/ p = pos) /\ \A p \in Paths : ~(p < pos')
    BY <1>1, LoopGoesOn
<1>5. LoopsBehind'
    BY <1>1, <1>2, <1>3, <1>4 DEF LoopsBehind
<1>6. FitsOrWarned'
    BY <1>1, <1>4 DEF FitsOrWarned
<1>7. pointers \subseteq pointers' /\ pointers' \subseteq Paths /\ warned' \in BOOLEAN
    BY <1>1 DEF CompilerInv, CompilerTypeOK
<1> QED
    BY <1>0, <1>1, <1>2, <1>5, <1>6, <1>7, LoopKeeps

LEMMA ShrunkIsShort ==
    ASSUME NEW text \in Nat
    PROVE  Shrunk(text) \in 1 .. HeadWeight + 1
<1>1. HeadWeight \in Nat
    BY CompilerBounds
<1>2. Min({text, HeadWeight}) \in {text, HeadWeight} /\ Min({text, HeadWeight}) <= HeadWeight
    <2>1. \E x \in {text, HeadWeight} : \A y \in {text, HeadWeight} : x <= y
        BY <1>1
    <2> QED
        BY <2>1 DEF Min
<1> QED
    BY <1>1, <1>2 DEF Shrunk

LEMMA ShrinkKeeps == ASSUME CompilerInv, ShrinkEntry PROVE CompilerInv'
<1>0. PICK q : q = pos
    OBVIOUS
<1>1. /\ UNCHANGED <<role, found, suggested, pointers, unread, warned, request>> /\ Advance("shrink", "drop")
      /\ at = "shrink" /\ pointers = {} /\ ~warned /\ UNCHANGED picks
      /\ DOMAIN entries \subseteq Paths
      /\ \A p \in DOMAIN entries : EntrySound(p) /\ entries[p] \in EntryOf
      /\ \A p \in DOMAIN entries : Excerpted(p) /\ (p < pos => Shortened(p))
    BY DEF ShrinkEntry, picks, CompilerInv, CompilerTypeOK, EntryOf, LoopsBehind, FitsOrWarned
<1>2. /\ DOMAIN entries' = DOMAIN entries
      /\ \A p \in DOMAIN entries : p # pos => entries'[p] = entries[p]
      /\ pos \in DOMAIN entries => /\ entries'[pos] \in EntryOf /\ EntrySound(q)'
                                   /\ Shortened(q)' /\ Excerpted(q)'
    <2>1. CASE HasTier({"read-excerpt"}) /\ entries[pos].text > 0
        <3>1. pos \in DOMAIN entries /\ entries[pos].tier = "read-excerpt" /\ entries[pos] \in EntryOf
            BY <1>0, <1>1, <2>1 DEF HasTier
        <3>2. entries[pos].text \in Nat
            BY <3>1, CompilerBounds DEF EntryOf
        <3>3. PICK text : text = Shrunk(entries[pos].text) /\ text \in 1 .. HeadWeight + 1
            BY <3>2, ShrunkIsShort
        <3>4. entries' = [entries EXCEPT ![pos] = [entries[pos] EXCEPT !.text = text]]
            BY <2>1, <3>3 DEF ShrinkEntry
        <3>5. [entries[pos] EXCEPT !.text = text] = [tier |-> "read-excerpt", text |-> text]
            BY <3>1 DEF EntryOf
        <3>6. /\ entries'[pos] = [tier |-> "read-excerpt", text |-> text]
              /\ DOMAIN entries' = DOMAIN entries
              /\ \A p \in DOMAIN entries : p # pos => entries'[p] = entries[p]
            BY <3>1, <3>4, <3>5
        <3>7. text \in 0 .. MaxWeight + HeadWeight + 1 /\ text # 0 /\ text <= HeadWeight + 1
            BY <3>3, CompilerBounds
        <3>8. role[pos] # "edit"
            BY <1>1, <3>1 DEF EntrySound
        <3>9. entries'[pos] \in EntryOf /\ Shortened(q)' /\ Excerpted(q)'
            BY <1>0, <3>6, <3>7 DEF EntryOf, Tiers, Shortened, Excerpted
        <3>10. EntrySound(q)'
            BY <1>0, <1>1, <3>6, <3>7, <3>8 DEF EntrySound
        <3> QED
            BY <3>6, <3>9, <3>10
    <2>2. CASE ~(HasTier({"read-excerpt"}) /\ entries[pos].text > 0)
        <3>1. entries' = entries
            BY <2>2 DEF ShrinkEntry
        <3>2. pos \in DOMAIN entries => entries[pos].tier # "read-excerpt" \/ ~(entries[pos].text > 0)
            BY <2>2 DEF HasTier
        <3>3. ASSUME pos \in DOMAIN entries, role[pos] # "edit" PROVE entries[pos].text <= HeadWeight + 1
            <4>1. /\ entries[pos].tier \in Tiers /\ entries[pos].text \in 0 .. MaxWeight + HeadWeight + 1
                  /\ entries[pos].tier # "read-full" /\ entries[pos].tier # "edit-full"
                  /\ entries[pos].tier = "pointer" => entries[pos].text = 0
                BY <1>1, <3>3 DEF EntryOf, EntrySound, Excerpted
            <4>2. entries[pos].text = 0
                BY <3>2, <3>3, <4>1, CompilerBounds DEF Tiers
            <4> QED
                BY <4>2, CompilerBounds
        <3>4. pos \in DOMAIN entries => EntrySound(q)' /\ Shortened(q)' /\ Excerpted(q)'
            BY <1>0, <1>1, <3>1, <3>3 DEF EntrySound, Shortened, Excerpted
        <3> QED
            BY <1>1, <3>1, <3>4
    <2> QED
        BY <2>1, <2>2
<1>3. \A p \in DOMAIN entries : Excerpted(p)' /\ (p < pos \/ p = pos => Shortened(p)')
    BY <1>0, <1>1, <1>2 DEF Excerpted, Shortened
<1>4. \/ at' = "translate" /\ Estimate(entries', {}) <= Budget
      \/ at' = "shrink" /\ \A p \in Paths : p < pos' => p < pos \/ p = pos
      \/ at' = "drop" /\ (\A p \in Paths : p < pos \/ p = pos) /\ \A p \in Paths : ~(p < pos')
    BY <1>1, LoopGoesOn
<1>5. LoopsBehind'
    BY <1>1, <1>2, <1>3, <1>4 DEF LoopsBehind
<1>6. FitsOrWarned'
    BY <1>1, <1>4 DEF FitsOrWarned
<1>7. /\ pointers \subseteq pointers' /\ pointers' \subseteq Paths /\ warned' \in BOOLEAN
      /\ unread \subseteq unread' /\ unread' \subseteq Paths
    BY <1>1 DEF CompilerInv, CompilerTypeOK
<1> QED
    BY <1>0, <1>1, <1>2, <1>5, <1>6, <1>7, LoopKeeps

LEMMA DropKeeps == ASSUME CompilerInv, DropEntry PROVE CompilerInv'
<1>0. PICK q : q = pos
    OBVIOUS
<1>1. /\ UNCHANGED <<role, found, suggested, unread, request>> /\ Advance("drop", "translate")
      /\ at = "drop" /\ ~warned /\ UNCHANGED picks
      /\ warned' = (at' = "translate" /\ ~(Estimate(entries', pointers') <= Budget))
      /\ DOMAIN entries \subseteq Paths
      /\ \A p \in DOMAIN entries : EntrySound(p) /\ entries[p] \in EntryOf
      /\ \A p \in DOMAIN entries : Shortened(p) /\ (p < pos => Dropped(p))
    BY DEF DropEntry, picks, CompilerInv, CompilerTypeOK, EntryOf, LoopsBehind, FitsOrWarned
<1>2. /\ DOMAIN entries' = DOMAIN entries /\ pointers \subseteq pointers' /\ pointers' \subseteq Paths
      /\ \A p \in DOMAIN entries : p # pos => entries'[p] = entries[p]
      /\ pos \in DOMAIN entries => /\ entries'[pos] \in EntryOf /\ EntrySound(q)'
                                   /\ Shortened(q)' /\ Dropped(q)'
    <2>1. CASE HasTier({"read-full", "read-excerpt"}) /\ entries[pos].text > 0
        <3>1. pos \in DOMAIN entries /\ entries[pos].tier # "edit-full"
            BY <1>0, <2>1 DEF HasTier
        <3>2. /\ entries' = [entries EXCEPT ![pos] = [tier |-> "pointer", text |-> 0]]
              /\ pointers' = pointers \cup {pos}
            BY <2>1 DEF DropEntry
        <3>3. /\ entries'[pos] = [tier |-> "pointer", text |-> 0] /\ DOMAIN entries' = DOMAIN entries
              /\ \A p \in DOMAIN entries : p # pos => entries'[p] = entries[p]
            BY <3>1, <3>2
        <3>4. 0 \in 0 .. MaxWeight + HeadWeight + 1 /\ 0 <= HeadWeight + 1
            BY CompilerBounds
        <3>5. role[pos] # "edit"
            BY <1>1, <3>1 DEF EntrySound
        <3>6. entries'[pos] \in EntryOf /\ Shortened(q)' /\ Dropped(q)'
            BY <1>0, <3>3, <3>4 DEF EntryOf, Tiers, Shortened, Dropped
        <3>7. EntrySound(q)'
            BY <1>0, <1>1, <3>2, <3>3, <3>5 DEF EntrySound
        <3>8. pointers \subseteq Paths /\ pos \in Paths
            BY <1>1, <3>1 DEF CompilerInv, CompilerTypeOK
        <3> QED
            BY <3>2, <3>3, <3>6, <3>7, <3>8
    <2>2. CASE ~(HasTier({"read-full", "read-excerpt"}) /\ entries[pos].text > 0)
        <3>1. entries' = entries /\ pointers' = pointers
            BY <2>2 DEF DropEntry
        <3>2. ASSUME pos \in DOMAIN entries, role[pos] # "edit" PROVE entries[pos].text = 0
            <4>1. /\ entries[pos].tier \in Tiers /\ entries[pos].text \in 0 .. MaxWeight + HeadWeight + 1
                  /\ entries[pos].tier # "read-full" /\ entries[pos].tier # "edit-full"
                  /\ entries[pos].tier = "pointer" => entries[pos].text = 0
                BY <1>1, <3>2 DEF EntryOf, EntrySound, Shortened
            <4>2. entries[pos].tier = "read-excerpt" => ~(entries[pos].text > 0)
                BY <2>2, <3>2 DEF HasTier
            <4> QED
                BY <4>1, <4>2, CompilerBounds DEF Tiers
        <3>3. pos \in DOMAIN entries => EntrySound(q)' /\ Shortened(q)' /\ Dropped(q)'
            BY <1>0, <1>1, <3>1, <3>2 DEF EntrySound, Shortened, Dropped
        <3> QED
            BY <1>0, <1>1, <3>1, <3>3 DEF CompilerInv, CompilerTypeOK
    <2> QED
        BY <2>1, <2>2
<1>3. \A p \in DOMAIN entries : Shortened(p)' /\ (p < pos \/ p = pos => Dropped(p)')
    BY <1>0, <1>1, <1>2 DEF Shortened, Dropped
<1>4. \/ at' = "translate" /\ Estimate(entries', {}) <= Budget
      \/ at' = "drop" /\ \A p \in Paths : p < pos' => p < pos \/ p = pos
      \/ at' = "translate" /\ (\A p \in Paths : p < pos \/ p = pos) /\ \A p \in Paths : ~(p < pos')
    BY <1>1, LoopGoesOn
<1>5. LoopsBehind'
    BY <1>1, <1>2, <1>3, <1>4 DEF LoopsBehind
<1>6. at' = "translate" => Estimate(entries', {}) <= Budget \/ \A p \in DOMAIN entries' : Dropped(p)'
    BY <1>1, <1>2, <1>3, <1>4
<1>7. FitsOrWarned'
    BY <1>1, <1>4, <1>6 DEF FitsOrWarned
<1>8. warned' \in BOOLEAN /\ unread \subseteq unread' /\ unread' \subseteq Paths
    BY <1>1 DEF CompilerInv, CompilerTypeOK
<1> QED
    BY <1>0, <1>1, <1>2, <1>5, <1>7, <1>8, LoopKeeps

LEMMA TranslateKeeps == ASSUME CompilerInv, Translate PROVE CompilerInv'
<1>1. /\ UNCHANGED <<role, found, suggested, entries, pos, pointers, unread, warned>>
      /\ at = "translate" /\ at' = "done" /\ DOMAIN entries \subseteq Paths
    BY DEF Translate, picks, CompilerInv, CompilerTypeOK
<1>2. /\ request'.fnames = {p \in DOMAIN entries : entries[p].tier = "edit-full"}
      /\ request'.readBlock = {p \in DOMAIN entries : /\ entries[p].tier \in {"read-full", "read-excerpt"}
                                                     /\ entries[p].text > 0}
    BY DEF Translate
<1>3. request' \in [{"fnames", "readBlock", "allowed", "deletes"} -> SUBSET Paths]
    BY <1>1 DEF Translate, Contract
<1>4. CompilerTypeOK'
    BY <1>1, <1>3 DEF CompilerInv, CompilerTypeOK, Contract
<1>5. \A p \in DOMAIN entries' : EntrySound(p)'
    BY <1>1 DEF CompilerInv, EntrySound
<1>6. LoopsBehind'
    BY <1>1 DEF CompilerInv, LoopsBehind, Shortened
<1>7. FitsOrWarned'
    BY <1>1 DEF CompilerInv, FitsOrWarned, Dropped
<1> QED
    BY <1>1, <1>2, <1>4, <1>5, <1>6, <1>7 DEF CompilerInv, Contract

LEMMA CompilerIsInductive == CompilerInv /\ [CompilerNext]_compilerVars => CompilerInv'
<1>1. ASSUME CompilerInv, UNCHANGED compilerVars PROVE CompilerInv'
    BY <1>1 DEF compilerVars, CompilerInv, CompilerTypeOK, Contract, EntrySound, LoopsBehind, Excerpted,
                Shortened, Dropped, FitsOrWarned
<1> QED
    BY <1>1, PickingKeeps, AssembleKeeps, AdjustKeeps, ExcerptKeeps, ShrinkKeeps, DropKeeps, TranslateKeeps
    DEF CompilerNext

LEMMA PackagesAreSound == CompilerInv => PackageIsSound
<1> SUFFICES ASSUME CompilerInv PROVE PackageIsSound
    OBVIOUS
<1>1. ASSUME at = "done" PROVE EditsAreTheContract
    <2>1. /\ request.fnames = {p \in DOMAIN entries : entries[p].tier = "edit-full"}
          /\ DOMAIN entries = Contract \cup found /\ found \subseteq Paths \ Contract
          /\ \A p \in DOMAIN entries : entries[p].tier = "edit-full" <=> role[p] = "edit"
        BY <1>1 DEF CompilerInv, CompilerTypeOK, EntrySound
    <2>2. \A p \in Paths : role[p] = "edit" => p \in Contract
        BY DEF Contract
    <2> QED
        BY <2>1, <2>2 DEF EditsAreTheContract, Contract
<1>2. ASSUME at = "done", NEW p \in DOMAIN entries
      PROVE  p \in request.readBlock \/ p \in request.fnames \/ p \in pointers \/ p \in unread
    <2>1. entries[p].tier \in Tiers /\ entries[p].text \in 0 .. MaxWeight + HeadWeight + 1 /\ EntrySound(p)
        BY <1>2 DEF CompilerInv, CompilerTypeOK
    <2>2. entries[p].text > 0 \/ entries[p].text = 0
        BY <2>1, CompilerBounds
    <2> QED
        BY <1>2, <2>1, <2>2 DEF CompilerInv, EntrySound, Tiers
<1>3. ASSUME at = "done", \A p \in DOMAIN entries : Dropped(p) PROVE request.readBlock = {}
    <2>1. ASSUME NEW p \in request.readBlock PROVE FALSE
        <3>1. p \in DOMAIN entries /\ entries[p].tier # "edit-full" /\ entries[p].text > 0
            BY <1>3, <2>1 DEF CompilerInv
        <3>2. entries[p].text = 0
            BY <1>3, <3>1 DEF CompilerInv, EntrySound, Dropped
        <3> QED
            BY <3>1, <3>2
    <2> QED
        BY <2>1
<1>4. WarningIsLast
    BY <1>3 DEF CompilerInv, FitsOrWarned, WarningIsLast
<1>5. GentlestFirst
    BY DEF CompilerInv, LoopsBehind, Shortened, GentlestFirst
<1> QED
    BY <1>1, <1>2, <1>4, <1>5 DEF PackageIsSound, EditsAreTheContract, DroppedAreListed

\* Whatever the picker brings in and whichever read fails on the way, the
\* executor edits the files of the contract and no others, what the budget
\* took is named, a warning is meant, and nothing is dropped before all was
\* shortened (assemble.py:178, budget.py:96).
THEOREM PackagesHold == CompilerSpec => []PackageIsSound
<1> HIDE DEF CompilerInv
<1> QED
    BY CompilerStarts, CompilerIsInductive, PackagesAreSound, PTL DEF CompilerSpec

\* No step after the first read touches a text that is to be edited
\* (budget.py:104).
THEOREM TextsToEditStay == CompilerSpec => EditTextsKept
<1>1. ASSUME CompilerInv, [CompilerNext]_compilerVars, NEW p \in DOMAIN entries, role[p] = "edit"
      PROVE  entries'[p] = entries[p]
    <2>1. entries[p].tier = "edit-full" /\ at \notin {"pick", "assemble"}
        BY <1>1 DEF CompilerInv, EntrySound
    <2>2. CASE UNCHANGED compilerVars
        BY <2>2 DEF compilerVars
    <2>3. CASE Adjust
        BY <2>1, <2>3 DEF Adjust
    <2>4. CASE ExcerptEntry
        BY <2>1, <2>4 DEF ExcerptEntry, HasTier
    <2>5. CASE ShrinkEntry
        BY <2>1, <2>5 DEF ShrinkEntry, HasTier
    <2>6. CASE DropEntry
        BY <2>1, <2>6 DEF DropEntry, HasTier
    <2>7. CASE Translate
        BY <2>7 DEF Translate
    <2> QED
        BY <1>1, <2>1, <2>2, <2>3, <2>4, <2>5, <2>6, <2>7 DEF CompilerNext, PickFiles, SkipPicker, Assemble
<1>2. CompilerInv /\ [CompilerNext]_compilerVars =>
        [\A p \in DOMAIN entries : role[p] = "edit" => entries'[p] = entries[p]]_compilerVars
    BY <1>1
<1> HIDE DEF CompilerInv
<1> QED
    BY <1>2, CompilerStarts, CompilerIsInductive, PTL DEF CompilerSpec, EditTextsKept

-----------------------------------------------------------------------------
(***************************************************************************)
(* The pipeline.                                                           *)
(***************************************************************************)
OfPackage == {"file_picker", "rag_retrieval", "context_assemble", "planner_pass", "builder_llm"}
Entry == Phases \X {"ok", "skipped", "error"}
Times(p) == Cardinality(Entries(p))

\* The phases of the package that are still to come.
Ahead ==
    IF stage = "file_picker" THEN OfPackage
    ELSE IF stage = "rag_retrieval" THEN OfPackage \ {"file_picker"}
    ELSE IF stage = "context_assemble" THEN {"context_assemble", "planner_pass", "builder_llm"}
    ELSE IF stage = "planner_pass" THEN {"planner_pass", "builder_llm"}
    ELSE IF stage = "builder_llm" THEN {"builder_llm"}
    ELSE {}

\* None of them is listed yet, and those behind are listed once.
OnceEach == \A p \in OfPackage : Times(p) <= 1 /\ (p \in Ahead => Times(p) = 0)

\* Until the executor is reached nothing has run.
Untouched ==
    /\ stage \in OfPackage \cup {"translate", "run"} =>
         /\ turn = 1 /\ prompt = <<>> /\ result = "none" /\ started = {}
         /\ Times("executor") = 0 /\ Times("reviewer_pass") = 0
    /\ stage \in OfPackage \cup {"translate"} => ~engine /\ kind # "review"
    /\ stage \in (OfPackage \ {"file_picker"}) \cup {"translate"} => kind = "package"

\* The executor and the reviewer ran once per turn, but for a first turn
\* that ended before its executor.
RunsCounted ==
    kind # "review" =>
        /\ stage \in {"reviewer_pass", "decide"} =>
             Times("executor") = IF FellThrough THEN turn - 1 ELSE turn
        /\ stage = "reviewer_pass" => Times("reviewer_pass") = turn - 1
        /\ stage = "decide" \/ (stage = "end" /\ result = "success") => Times("reviewer_pass") = turn

\* Only planner and builder leave their phase open, and then no engine is
\* found, or the reviewer, and then the call is over.
OneOpen ==
    started # {} =>
        \/ /\ \E p \in {"planner_pass", "builder_llm"} : started = {p} /\ Times(p) = 0
           /\ prompt = <<>> /\ ~engine
           /\ stage \in {"reviewer_pass", "decide"} => result = "raised"
           /\ result \in {"raised", "lost"}
        \/ /\ started = {"reviewer_pass"} /\ stage = "end" /\ result = "lost"
           /\ Times("reviewer_pass") = turn - 1
           /\ Times("executor") = IF FellThrough THEN turn - 1 ELSE turn

\* What was applied, from the top of the brief.
TopOf(applied) ==
    (IF "plan" \in applied THEN <<"plan">> ELSE <<>>)
        \o (IF "builder" \in applied THEN <<"builder">> ELSE <<>>) \o <<"mechanical">>
Top == TopOf(audit)

\* The brief of a package, from stage to stage, and what the executor got.
BriefGrows ==
    kind = "package" =>
        /\ stage \in {"file_picker", "rag_retrieval", "context_assemble", "planner_pass"} => audit = {} /\ ~plan
        /\ stage \in {"planner_pass", "builder_llm"} => brief = <<"mechanical">>
        /\ stage = "builder_llm" => audit = IF plan THEN {"plan"} ELSE {}
        /\ stage = "translate" => brief = Top
        /\ stage = "run" \/ ~FellThrough => brief \in {Top, Top \o <<"pointers">>}
        /\ ~FellThrough => prompt \in {Top, Top \o <<"pointers">>, Top \o <<"correction">>,
                                       Top \o <<"pointers", "correction">>}

\* The inductive invariant behind PhasesAccountFor and PromptIsAudited.
PipelineInv ==
    /\ PipelineTypeOK
    /\ OnceEach
    /\ kind = "legacy" /\ stage = "run" => brief = <<"raw">>
    /\ Untouched /\ RunsCounted /\ OneOpen /\ BriefGrows

LEMMA PipelineBounds ==
    MaxTurns \in Nat /\ 1 \in 1 .. MaxTurns /\ DelegationKinds \subseteq {"package", "legacy", "review"}
    BY PipelineAssumption

LEMMA PhasesAre ==
    /\ ToSet(PackageStages) = OfPackage /\ Phases = OfPackage \cup {"executor", "reviewer_pass"}
    /\ DOMAIN PackageStages = 1 .. 5 /\ PackageStages \in Seq(OfPackage)
    /\ \A i, j \in 1 .. 5 : PackageStages[i] = PackageStages[j] => i = j
    /\ \A i \in 1 .. 5 : PackageStages[i] \in OfPackage
<1>1. DOMAIN PackageStages = 1 .. 5 /\ PackageStages \in Seq(OfPackage)
    BY DEF PackageStages, OfPackage
<1>2. /\ PackageStages[1] = "file_picker" /\ PackageStages[2] = "rag_retrieval"
      /\ PackageStages[3] = "context_assemble" /\ PackageStages[4] = "planner_pass"
      /\ PackageStages[5] = "builder_llm"
    BY DEF PackageStages
<1>3. \A i \in 1 .. 5 : i = 1 \/ i = 2 \/ i = 3 \/ i = 4 \/ i = 5
    OBVIOUS
<1>4. 1 \in 1 .. 5 /\ 2 \in 1 .. 5 /\ 3 \in 1 .. 5 /\ 4 \in 1 .. 5 /\ 5 \in 1 .. 5
    OBVIOUS
<1> HIDE DEF PackageStages
<1>5. ToSet(PackageStages) = OfPackage
    BY <1>1, <1>2, <1>3, <1>4 DEF ToSet, OfPackage
<1>6. \A i, j \in 1 .. 5 : PackageStages[i] = PackageStages[j] => i = j
    BY <1>2, <1>3
<1>7. \A i \in 1 .. 5 : PackageStages[i] \in OfPackage
    BY <1>2, <1>3 DEF OfPackage
<1> QED
    BY <1>1, <1>5, <1>6, <1>7 DEF Phases

LEMMA EntriesAreFinite ==
    ASSUME phases \in Seq(Entry), NEW p PROVE IsFiniteSet(Entries(p))
<1>1. Len(phases) \in Nat /\ Entries(p) \subseteq 1 .. Len(phases)
    BY DEF Entries
<1>2. IsFiniteSet(Entries(p))
    <2>1. IsFiniteSet(1 .. Len(phases))
        BY <1>1, FS_Interval
    <2>2. Entries(p) \in SUBSET (1 .. Len(phases))
        BY <1>1
    <2> QED
        BY <2>1, <2>2, FS_Subset
<1> QED
    BY <1>2

\* A phase that is listed is listed once more, and no other is.
LEMMA PhaseListed ==
    ASSUME phases \in Seq(Entry), NEW p \in Phases, NEW status \in {"ok", "skipped", "error"},
           Ended(p, status)
    PROVE  /\ phases' \in Seq(Entry) /\ started' = started \ {p}
           /\ Times(p)' = Times(p) + 1
           /\ \A q : q # p => Times(q)' = Times(q)
<1> DEFINE n == Len(phases)
<1>1. n \in Nat /\ DOMAIN phases = 1 .. n /\ <<p, status>> \in Entry /\ <<p, status>>[1] = p
    BY DEF Entry
<1>2. /\ phases' \in Seq(Entry) /\ DOMAIN phases' = 1 .. n + 1 /\ phases'[n + 1] = <<p, status>>
      /\ \A i \in 1 .. n : phases'[i] = phases[i]
    BY <1>1 DEF Ended
<1> HIDE DEF n
<1>3. 1 .. n + 1 = (1 .. n) \cup {n + 1} /\ n + 1 \notin 1 .. n
    BY <1>1
<1>4. Entries(p)' = Entries(p) \cup {n + 1} /\ n + 1 \notin Entries(p)
    BY <1>1, <1>2, <1>3 DEF Entries
<1>5. ASSUME NEW q, q # p PROVE Entries(q)' = Entries(q)
    BY <1>1, <1>2, <1>3, <1>5 DEF Entries
<1>6. IsFiniteSet(Entries(p))
    <2>1. Entries(p) \in SUBSET (1 .. n)
        BY <1>1 DEF Entries
    <2>2. IsFiniteSet(1 .. n)
        BY <1>1, FS_Interval
    <2> QED
        BY <2>1, <2>2, FS_Subset
<1>7. Times(p)' = Times(p) + 1
    <2>1. Cardinality(Entries(p) \cup {n + 1}) = Cardinality(Entries(p)) + 1
        BY <1>4, <1>6, FS_AddElement
    <2> QED
        BY <1>4, <2>1 DEF Times
<1>8. ASSUME NEW q, q # p PROVE Times(q)' = Times(q)
    BY <1>5, <1>8 DEF Times
<1> QED
    BY <1>2, <1>7, <1>8 DEF Ended

LEMMA PipelineStarts == PipelineInit => PipelineInv
<1> SUFFICES ASSUME PipelineInit PROVE PipelineInv
    OBVIOUS
<1>1. \A p : Times(p) = 0
    <2>1. \A p : Entries(p) = {}
        BY DEF PipelineInit, Entries
    <2> QED
        BY <2>1, FS_EmptySet DEF Times
<1>2. PipelineTypeOK
    <2>1. phases \in Seq(Entry) /\ brief \in Seq(Parts) /\ prompt \in Seq(Parts)
        BY DEF PipelineInit
    <2>2. stage \in Phases \cup {"translate", "run", "decide", "end"}
        BY PhasesAre DEF PipelineInit, OfPackage
    <2> QED
        BY <2>1, <2>2, PipelineBounds DEF PipelineInit, PipelineTypeOK, Entry, Reviews
<1>3. kind \in {"package", "legacy", "review"}
    BY PipelineBounds DEF PipelineInit
<1>4. Untouched /\ RunsCounted /\ OneOpen
    BY <1>1 DEF PipelineInit, Untouched, RunsCounted, OneOpen, OfPackage
<1>5. FellThrough
    BY DEF PipelineInit, FellThrough
<1>6. BriefGrows
    BY <1>5 DEF PipelineInit, BriefGrows
<1>7. kind = "legacy" /\ stage = "run" => brief = <<"raw">>
    BY DEF PipelineInit
<1> QED
    BY <1>1, <1>2, <1>4, <1>6, <1>7 DEF PipelineInv, OnceEach

LEMMA RecorderIdle == UNCHANGED phases => \A p : Times(p)' = Times(p)
<1> SUFFICES ASSUME UNCHANGED phases, NEW p PROVE Times(p)' = Times(p)
    OBVIOUS
<1>1. Entries(p)' = Entries(p)
    BY DEF Entries
<1> QED
    BY <1>1 DEF Times

LEMMA FellThroughStays == UNCHANGED <<kind, prompt>> => FellThrough' = FellThrough
    BY DEF FellThrough

\* The stage that follows one of the package.
After(s) ==
    IF s = "file_picker" THEN "rag_retrieval"
    ELSE IF s = "rag_retrieval" THEN "context_assemble"
    ELSE IF s = "context_assemble" THEN "planner_pass"
    ELSE IF s = "planner_pass" THEN "builder_llm" ELSE "translate"

\* A stage of the package that ends its phase, by going on or by raising,
\* leaves the record in order.
LEMMA StageEnds ==
    ASSUME PipelineInv, kind = "package", stage \in OfPackage,
           NEW status \in {"ok", "skipped", "error"}, Ended(stage, status),
           \/ stage' = After(stage) /\ UNCHANGED result
           \/ stage' = "reviewer_pass" /\ result' = "raised",
           UNCHANGED <<kind, prompt, engine, turn>>
    PROVE  /\ phases' \in Seq(Entry) /\ started' = {}
           /\ OnceEach' /\ Untouched' /\ RunsCounted' /\ OneOpen'
<1>1. /\ turn = 1 /\ prompt = <<>> /\ result = "none" /\ started = {} /\ ~engine
      /\ Times("executor") = 0 /\ Times("reviewer_pass") = 0
    BY DEF PipelineInv, Untouched
<1>2. PICK s \in OfPackage : s = stage
    OBVIOUS
<1>3. s \in Phases /\ phases \in Seq(Entry)
    BY PhasesAre DEF PipelineInv, PipelineTypeOK, Entry
<1>4. /\ phases' \in Seq(Entry) /\ started' = started \ {s}
      /\ Times(s)' = Times(s) + 1
      /\ \A q : q # s => Times(q)' = Times(q)
    BY <1>2, <1>3, PhaseListed
<1>5. Times("executor")' = 0 /\ Times("reviewer_pass")' = 0
    BY <1>1, <1>2, <1>4 DEF OfPackage
<1>6. Times(s) = 0
    BY <1>2 DEF PipelineInv, OnceEach, Ahead, OfPackage
<1>7. OnceEach'
    <2>1. ASSUME NEW p \in OfPackage
          PROVE  Times(p)' <= 1 /\ (p \in Ahead' => Times(p)' = 0)
        <3>1. CASE p = s
            <4>1. p \notin Ahead'
                BY <1>2, <3>1 DEF Ahead, After, OfPackage
            <4> QED
                BY <1>4, <1>6, <3>1, <4>1
        <3>2. CASE p # s
            <4>1. p \in Ahead' => p \in Ahead
                BY <1>2, <3>2 DEF Ahead, After, OfPackage
            <4> QED
                BY <1>4, <3>2, <4>1 DEF PipelineInv, OnceEach
        <3> QED
            BY <3>1, <3>2
    <2> QED
        BY <2>1 DEF OnceEach
<1>8. Untouched'
    BY <1>1, <1>2, <1>4, <1>5 DEF Untouched, After, OfPackage
<1>9. RunsCounted'
    <2>1. FellThrough'
        BY <1>1 DEF FellThrough
    <2>2. stage' \notin {"decide", "end"}
        BY <1>2 DEF After, OfPackage
    <2> QED
        BY <1>1, <1>5, <2>1, <2>2 DEF RunsCounted
<1> QED
    BY <1>1, <1>4, <1>7, <1>8, <1>9 DEF OneOpen

LEMMA StagesAre ==
    /\ Phases \cup {"translate", "run", "decide", "end"} =
         OfPackage \cup {"executor", "reviewer_pass", "translate", "run", "decide", "end"}
    /\ \A s \in OfPackage : After(s) \in OfPackage \cup {"translate"}
    BY PhasesAre DEF After, OfPackage

\* What is left to show of such a stage: the types, and how the brief grows.
LEMMA StageKeeps ==
    ASSUME PipelineInv, kind = "package", stage \in OfPackage,
           NEW status \in {"ok", "skipped", "error"}, Ended(stage, status),
           \/ stage' = After(stage) /\ UNCHANGED result
           \/ stage' = "reviewer_pass" /\ result' = "raised",
           UNCHANGED <<kind, prompt, engine, reviewed>>,
           picked' \in BOOLEAN, plan' \in BOOLEAN,
           brief' \in Seq(Parts), audit' \subseteq {"plan", "builder"}, BriefGrows'
    PROVE  PipelineInv'
<1>1. /\ phases' \in Seq(Entry) /\ started' = {}
      /\ OnceEach' /\ Untouched' /\ RunsCounted' /\ OneOpen'
    BY StageEnds DEF reviewed
<1>2. PipelineTypeOK'
    <2>1. PipelineTypeOK
        BY DEF PipelineInv
    <2>2. stage' \in Phases \cup {"translate", "run", "decide", "end"}
        BY StagesAre
    <2>3. result' \in {"none", "success", "failure", "raised", "lost"}
        BY <2>1 DEF PipelineTypeOK
    <2> QED
        BY <1>1, <2>1, <2>2, <2>3 DEF PipelineTypeOK, Entry, reviewed
<1> QED
    BY <1>1, <1>2 DEF PipelineInv

LEMMA FilePickerKeeps == PipelineInv /\ FilePicker => PipelineInv'
<1> SUFFICES ASSUME PipelineInv, FilePicker PROVE PipelineInv'
    OBVIOUS
<1>1. PICK status \in {"ok", "skipped", "error"} :
        /\ Ended("file_picker", status)
        /\ \/ stage' = "rag_retrieval" /\ UNCHANGED result
           \/ stage' = "reviewer_pass" /\ result' = "raised"
    BY DEF FilePicker, EndAndRaise, RaiseInStage, Mark
<1>2. /\ stage = "file_picker" /\ stage \in OfPackage /\ After(stage) = "rag_retrieval"
      /\ kind = "package"
    BY DEF FilePicker, OfPackage, After
<1>3. audit = {} /\ ~plan /\ prompt = <<>>
    BY <1>2 DEF PipelineInv, BriefGrows, Untouched
<1>4. picked' \in BOOLEAN
    BY DEF FilePicker, PipelineInv, PipelineTypeOK
<1>5. UNCHANGED <<kind, plan, audit, brief, prompt, engine, reviewed>>
    BY DEF FilePicker
<1>6. brief' \in Seq(Parts) /\ audit' \subseteq {"plan", "builder"} /\ plan' \in BOOLEAN
    BY <1>3, <1>5 DEF PipelineInv, PipelineTypeOK
<1>7. FellThrough'
    BY <1>3, <1>5 DEF FellThrough
<1>8. BriefGrows'
    BY <1>1, <1>3, <1>5, <1>7 DEF BriefGrows
<1> QED
    BY <1>1, <1>2, <1>4, <1>5, <1>6, <1>8, StageKeeps

LEMMA RagRetrievalKeeps == PipelineInv /\ RagRetrieval => PipelineInv'
<1> SUFFICES ASSUME PipelineInv, RagRetrieval PROVE PipelineInv'
    OBVIOUS
<1>1. /\ stage = "rag_retrieval" /\ stage \in OfPackage /\ After(stage) = "context_assemble"
      /\ stage' = "context_assemble"
    BY DEF RagRetrieval, OfPackage, After
<1>2. PICK status \in {"ok", "skipped", "error"} : Ended("rag_retrieval", status)
    BY DEF RagRetrieval, Mark
<1>3. audit = {} /\ ~plan /\ prompt = <<>> /\ kind = "package"
    BY <1>1 DEF PipelineInv, BriefGrows, Untouched, OfPackage
<1>4. UNCHANGED <<kind, picked, plan, audit, brief, prompt, result, engine, reviewed>>
    BY DEF RagRetrieval, compiled
<1>5. /\ picked' \in BOOLEAN /\ plan' \in BOOLEAN
      /\ brief' \in Seq(Parts) /\ audit' \subseteq {"plan", "builder"}
    BY <1>4 DEF PipelineInv, PipelineTypeOK
<1>6. FellThrough'
    BY <1>3, <1>4 DEF FellThrough
<1>7. BriefGrows'
    BY <1>1, <1>3, <1>4, <1>6 DEF BriefGrows
<1> QED
    BY <1>1, <1>2, <1>3, <1>4, <1>5, <1>7, StageKeeps

LEMMA ContextAssembleKeeps == PipelineInv /\ ContextAssemble => PipelineInv'
<1> SUFFICES ASSUME PipelineInv, ContextAssemble PROVE PipelineInv'
    OBVIOUS
<1>1. PICK status \in {"ok", "skipped", "error"} :
        /\ Ended("context_assemble", status)
        /\ \/ stage' = "planner_pass" /\ brief' = <<"mechanical">> /\ UNCHANGED result
           \/ stage' = "reviewer_pass" /\ result' = "raised" /\ UNCHANGED brief
    BY DEF ContextAssemble, EndAndRaise, RaiseInStage
<1>2. stage = "context_assemble" /\ stage \in OfPackage /\ After(stage) = "planner_pass"
    BY DEF ContextAssemble, OfPackage, After
<1>3. audit = {} /\ ~plan /\ prompt = <<>> /\ kind = "package"
    BY <1>2 DEF PipelineInv, BriefGrows, Untouched, OfPackage
<1>4. UNCHANGED <<kind, picked, plan, audit, prompt, engine, reviewed>>
    BY DEF ContextAssemble, compiled
<1>5. picked' \in BOOLEAN /\ plan' \in BOOLEAN /\ audit' \subseteq {"plan", "builder"}
    BY <1>4 DEF PipelineInv, PipelineTypeOK
<1>6. brief' \in Seq(Parts)
    <2>1. <<"mechanical">> \in Seq(Parts)
        BY DEF Parts
    <2>2. brief \in Seq(Parts)
        BY DEF PipelineInv, PipelineTypeOK
    <2> QED
        BY <1>1, <2>1, <2>2
<1>7. FellThrough'
    BY <1>3, <1>4 DEF FellThrough
<1>8. BriefGrows'
    BY <1>1, <1>3, <1>4, <1>7 DEF BriefGrows
<1>9. \/ stage' = After(stage) /\ UNCHANGED result
      \/ stage' = "reviewer_pass" /\ result' = "raised"
    BY <1>1, <1>2
<1>10. Ended(stage, status)
    BY <1>1, <1>2
<1> QED
    BY <1>2, <1>3, <1>4, <1>5, <1>6, <1>8, <1>9, <1>10, StageKeeps

\* A stage that raises with its phase open leaves the record as it was.
LEMMA StageLeftOpen ==
    ASSUME PipelineInv, stage \in {"planner_pass", "builder_llm"}, LeaveOpen(stage),
           UNCHANGED <<kind, picked, brief, prompt, engine, reviewed>>,
           plan' \in BOOLEAN, audit' \subseteq {"plan", "builder"}
    PROVE  PipelineInv'
<1>1. PICK s \in {"planner_pass", "builder_llm"} : s = stage
    OBVIOUS
<1>2. PipelineTypeOK /\ s \in OfPackage
    BY DEF PipelineInv, OfPackage
<1>3. /\ prompt = <<>> /\ turn = 1 /\ started = {} /\ ~engine /\ kind = "package"
      /\ Times("executor") = 0 /\ Times("reviewer_pass") = 0
    BY <1>1, <1>2 DEF PipelineInv, Untouched, OfPackage
<1>4. FellThrough'
    BY <1>3 DEF FellThrough
<1>5. /\ started' = {s} /\ UNCHANGED phases /\ stage' = "reviewer_pass" /\ result' = "raised"
    BY <1>1, <1>3 DEF LeaveOpen, Start, RaiseInStage
<1>6. \A p : Times(p)' = Times(p)
    BY <1>5, RecorderIdle
<1>7. OnceEach'
    <2>1. Ahead' = {}
        BY <1>5 DEF Ahead
    <2> QED
        BY <1>6, <2>1 DEF PipelineInv, OnceEach
<1>8. Untouched'
    BY <1>5 DEF Untouched, OfPackage
<1>9. RunsCounted'
    BY <1>3, <1>4, <1>5, <1>6 DEF RunsCounted, reviewed
<1>10. Times(s) = 0
    BY <1>1, <1>2 DEF PipelineInv, OnceEach, Ahead, OfPackage
<1>11. OneOpen'
    <2>1. started' = {s} /\ Times(s)' = 0
        BY <1>5, <1>6, <1>10
    <2> QED
        BY <1>3, <1>5, <2>1 DEF OneOpen
<1>12. BriefGrows'
    BY <1>4, <1>5 DEF BriefGrows
<1>13. PipelineTypeOK'
    <2>1. s \in Phases
        BY <1>2, PhasesAre
    <2> QED
        BY <1>2, <1>5, <2>1, StagesAre DEF PipelineTypeOK, reviewed
<1> QED
    BY <1>3, <1>5, <1>7, <1>8, <1>9, <1>11, <1>12, <1>13 DEF PipelineInv

\* The planner that goes on or ends its phase, and the one that leaves it open.
LEMMA PlannerPassKeeps == PipelineInv /\ PlannerPass => PipelineInv'
<1> SUFFICES ASSUME PipelineInv, PlannerPass PROVE PipelineInv'
    OBVIOUS
<1>1. /\ stage = "planner_pass" /\ stage \in OfPackage /\ After(stage) = "builder_llm"
      /\ UNCHANGED <<kind, picked, brief, prompt, engine, reviewed>>
    BY DEF PlannerPass, OfPackage, After
<1>2. /\ audit = {} /\ ~plan /\ prompt = <<>> /\ kind = "package" /\ brief = <<"mechanical">>
      /\ turn = 1 /\ started = {} /\ ~engine
      /\ Times("executor") = 0 /\ Times("reviewer_pass") = 0
    BY <1>1 DEF PipelineInv, BriefGrows, Untouched, OfPackage
<1>3. FellThrough'
    BY <1>1, <1>2 DEF FellThrough
<1>4. PipelineTypeOK
    BY DEF PipelineInv
<1>5. plan' \in BOOLEAN
    BY <1>4 DEF PlannerPass, PlannerPlan, PipelineTypeOK
<1>6. brief' \in Seq(Parts) /\ picked' \in BOOLEAN
    BY <1>1, <1>4 DEF PipelineTypeOK
<1>7. CASE /\ stage' = "builder_llm" /\ UNCHANGED result
           /\ audit' = IF plan' THEN {"plan"} ELSE {}
           /\ \E status \in {"ok", "skipped", "error"} : Ended("planner_pass", status)
    <2>1. BriefGrows'
        BY <1>1, <1>2, <1>3, <1>7 DEF BriefGrows
    <2>2. audit' \subseteq {"plan", "builder"}
        BY <1>7
    <2>3. PICK status \in {"ok", "skipped", "error"} : Ended(stage, status)
        BY <1>1, <1>7
    <2> QED
        BY <1>1, <1>2, <1>5, <1>6, <1>7, <2>1, <2>2, <2>3, StageKeeps
<1>8. CASE LeaveOpen("planner_pass") /\ UNCHANGED audit
    <2>1. audit' \subseteq {"plan", "builder"}
        BY <1>2, <1>8
    <2> QED
        BY <1>1, <1>2, <1>5, <1>8, <2>1, StageLeftOpen
<1> QED
    BY <1>2, <1>7, <1>8 DEF PlannerPass, Mark

\* What a short sequence becomes with one element more.
LEMMA AppendToOne ==
    ASSUME NEW S, NEW a \in S, NEW b \in S PROVE Append(<<a>>, b) = <<a, b>>
<1>1. /\ <<a>> \in Seq(S) /\ Len(<<a>>) = 1 /\ <<a>>[1] = a
      /\ <<a, b>> \in Seq(S) /\ Len(<<a, b>>) = 2 /\ <<a, b>>[1] = a /\ <<a, b>>[2] = b
    OBVIOUS
<1>2. \A s \in Seq(S) : \A e \in S :
        /\ Append(s, e) \in Seq(S) /\ Len(Append(s, e)) = Len(s) + 1
        /\ Append(s, e)[Len(s) + 1] = e /\ \A i \in 1 .. Len(s) : Append(s, e)[i] = s[i]
    OBVIOUS
<1>3. /\ Append(<<a>>, b) \in Seq(S) /\ Len(Append(<<a>>, b)) = 2
      /\ Append(<<a>>, b)[2] = b /\ Append(<<a>>, b)[1] = a
    BY <1>1, <1>2
<1>4. \A i \in 1 .. 2 : i = 1 \/ i = 2
    OBVIOUS
<1>5. \A i \in 1 .. Len(Append(<<a>>, b)) : Append(<<a>>, b)[i] = <<a, b>>[i]
    BY <1>1, <1>3, <1>4
<1>6. Len(Append(<<a>>, b)) = Len(<<a, b>>)
    BY <1>1, <1>3
<1> QED
    BY <1>1, <1>3, <1>5, <1>6, SeqEqual

LEMMA AppendToTwo ==
    ASSUME NEW S, NEW a \in S, NEW b \in S, NEW c \in S PROVE Append(<<a, b>>, c) = <<a, b, c>>
<1>1. /\ <<a, b>> \in Seq(S) /\ Len(<<a, b>>) = 2 /\ <<a, b>>[1] = a /\ <<a, b>>[2] = b
      /\ <<a, b, c>> \in Seq(S) /\ Len(<<a, b, c>>) = 3
      /\ <<a, b, c>>[1] = a /\ <<a, b, c>>[2] = b /\ <<a, b, c>>[3] = c
    OBVIOUS
<1>2. \A s \in Seq(S) : \A e \in S :
        /\ Append(s, e) \in Seq(S) /\ Len(Append(s, e)) = Len(s) + 1
        /\ Append(s, e)[Len(s) + 1] = e /\ \A i \in 1 .. Len(s) : Append(s, e)[i] = s[i]
    OBVIOUS
<1>3. /\ Append(<<a, b>>, c) \in Seq(S) /\ Len(Append(<<a, b>>, c)) = 3
      /\ Append(<<a, b>>, c)[1] = a /\ Append(<<a, b>>, c)[2] = b /\ Append(<<a, b>>, c)[3] = c
    BY <1>1, <1>2
<1>4. \A i \in 1 .. 3 : i = 1 \/ i = 2 \/ i = 3
    OBVIOUS
<1>5. \A i \in 1 .. Len(Append(<<a, b>>, c)) : Append(<<a, b>>, c)[i] = <<a, b, c>>[i]
    BY <1>1, <1>3, <1>4
<1>6. Len(Append(<<a, b>>, c)) = Len(<<a, b, c>>)
    BY <1>1, <1>3
<1> QED
    BY <1>1, <1>3, <1>5, <1>6, SeqEqual

\* How the parts of a brief are joined.
LEMMA PartsJoin ==
    ASSUME NEW a \in Parts, NEW b \in Parts, NEW c \in Parts
    PROVE  /\ <<a>> \o <<b>> = <<a, b>> /\ <<a, b>> \o <<c>> = <<a, b, c>>
           /\ <<a>> \o <<b, c>> = <<a, b, c>>
           /\ <<a>> \o <<>> = <<a>> /\ <<>> \o <<a>> = <<a>>
<1> HIDE DEF Parts
<1>1. <<a>> \in Seq(Parts) /\ <<b>> \in Seq(Parts) /\ <<c>> \in Seq(Parts) /\ <<a, b>> \in Seq(Parts)
    OBVIOUS
<1>2. Append(<<a>>, b) = <<a>> \o <<b>> /\ Append(<<a, b>>, c) = <<a, b>> \o <<c>>
    BY <1>1, AppendIsConcat
<1>3. <<b>> \o <<c>> = <<b, c>>
    BY <1>1, AppendIsConcat, AppendToOne
<1>4. (<<a>> \o <<b>>) \o <<c>> = <<a>> \o (<<b>> \o <<c>>)
    BY <1>1, ConcatAssociative
<1>5. <<a>> \o <<>> = <<a>> /\ <<>> \o <<a>> = <<a>>
    BY <1>1, ConcatEmptySeq
<1>6. <<a>> \o <<b>> = <<a, b>> /\ <<a, b>> \o <<c>> = <<a, b, c>>
    BY <1>2, AppendToOne, AppendToTwo
<1> QED
    BY <1>3, <1>4, <1>5, <1>6

LEMMA PartsAre ==
    /\ "plan" \in Parts /\ "builder" \in Parts /\ "mechanical" \in Parts
    /\ "pointers" \in Parts /\ "correction" \in Parts /\ "raw" \in Parts
    BY DEF Parts

LEMMA PlanOnTop ==
    /\ <<"plan">> \o <<"mechanical">> = <<"plan", "mechanical">>
    /\ <<"builder">> \o <<"mechanical">> = <<"builder", "mechanical">>
    /\ <<"plan">> \o <<"builder">> \o <<"mechanical">> = <<"plan", "builder", "mechanical">>
    /\ <<"plan">> \o <<"builder", "mechanical">> = <<"plan", "builder", "mechanical">>
    /\ <<"plan">> \o <<>> = <<"plan">> /\ <<>> \o <<"builder">> = <<"builder">>
    /\ <<>> \o <<>> = <<>> /\ <<>> \o <<"mechanical">> = <<"mechanical">>
<1>1. <<>> \o <<>> = <<>>
    <2>1. <<>> \in Seq(Parts)
        OBVIOUS
    <2> QED
        BY <2>1, ConcatEmptySeq
<1>2. /\ <<"plan">> \o <<"mechanical">> = <<"plan", "mechanical">>
      /\ <<"builder">> \o <<"mechanical">> = <<"builder", "mechanical">>
    BY PartsAre, PartsJoin
<1>3. <<"plan">> \o <<"builder">> = <<"plan", "builder">>
    BY PartsAre, PartsJoin
<1>4. <<"plan", "builder">> \o <<"mechanical">> = <<"plan", "builder", "mechanical">>
    BY PartsAre, PartsJoin
<1>5. <<"plan">> \o <<"builder", "mechanical">> = <<"plan", "builder", "mechanical">>
    BY PartsAre, PartsJoin
<1>6. /\ <<"plan">> \o <<>> = <<"plan">> /\ <<>> \o <<"builder">> = <<"builder">>
      /\ <<>> \o <<"mechanical">> = <<"mechanical">>
    BY PartsAre, PartsJoin
<1> QED
    BY <1>1, <1>2, <1>3, <1>4, <1>5, <1>6

LEMMA TopIs ==
    ASSUME NEW a
    PROVE  /\ TopOf(a) \in Seq(Parts) /\ TopOf(a) # <<>> /\ Head(TopOf(a)) # "raw"
           /\ "plan" \notin a /\ "builder" \notin a => TopOf(a) = <<"mechanical">>
           /\ "plan" \in a /\ "builder" \notin a => TopOf(a) = <<"plan", "mechanical">>
           /\ "plan" \notin a /\ "builder" \in a => TopOf(a) = <<"builder", "mechanical">>
           /\ "plan" \in a /\ "builder" \in a => TopOf(a) = <<"plan", "builder", "mechanical">>
<1>1. CASE "plan" \notin a /\ "builder" \notin a
    <2>1. TopOf(a) = <<"mechanical">>
        BY <1>1, PlanOnTop DEF TopOf
    <2> QED
        BY <1>1, <2>1 DEF Parts
<1>2. CASE "plan" \in a /\ "builder" \notin a
    <2>1. TopOf(a) = <<"plan", "mechanical">>
        BY <1>2, PlanOnTop DEF TopOf
    <2> QED
        BY <1>2, <2>1 DEF Parts
<1>3. CASE "plan" \notin a /\ "builder" \in a
    <2>1. TopOf(a) = <<"builder", "mechanical">>
        BY <1>3, PlanOnTop DEF TopOf
    <2> QED
        BY <1>3, <2>1 DEF Parts
<1>4. CASE "plan" \in a /\ "builder" \in a
    <2>1. TopOf(a) = <<"plan", "builder", "mechanical">>
        BY <1>4, PlanOnTop DEF TopOf
    <2> QED
        BY <1>4, <2>1 DEF Parts
<1> QED
    BY <1>1, <1>2, <1>3, <1>4

\* The builder's brief goes above the mechanical one and the plan above both.
LEMMA BuilderPassKeeps == PipelineInv /\ BuilderPass => PipelineInv'
<1> SUFFICES ASSUME PipelineInv, BuilderPass PROVE PipelineInv'
    OBVIOUS
<1>1. /\ stage = "builder_llm" /\ stage \in OfPackage /\ After(stage) = "translate"
      /\ stage' = "translate"
      /\ UNCHANGED <<kind, picked, plan, prompt, result, engine, reviewed>>
    BY DEF BuilderPass, OfPackage, After
<1>2. /\ audit = (IF plan THEN {"plan"} ELSE {}) /\ prompt = <<>> /\ kind = "package"
      /\ brief = <<"mechanical">>
    BY <1>1 DEF PipelineInv, BriefGrows, Untouched, OfPackage
<1>3. FellThrough'
    BY <1>1, <1>2 DEF FellThrough
<1>4. PICK status \in {"ok", "skipped", "error"} : Ended("builder_llm", status)
    BY DEF BuilderPass, Mark
<1>5. PICK applied \in BOOLEAN :
        /\ audit' = IF applied THEN audit \cup {"builder"} ELSE audit
        /\ brief' = IF plan THEN MergePlan(IF applied THEN MergeBrief(brief) ELSE brief)
                    ELSE IF applied THEN MergeBrief(brief) ELSE brief
    <2>1. PICK reply \in Replies, on \in BOOLEAN :
            LET applied == picked /\ on /\ BuilderBrief(reply)
                merged  == IF applied THEN MergeBrief(brief) ELSE brief
            IN  /\ audit' = IF applied THEN audit \cup {"builder"} ELSE audit
                /\ brief' = IF plan THEN MergePlan(merged) ELSE merged
        BY DEF BuilderPass
    <2>2. (picked /\ on /\ BuilderBrief(reply)) \in BOOLEAN
        OBVIOUS
    <2> QED
        BY <2>1, <2>2
<1>6. MergeBrief(brief) = <<"builder", "mechanical">>
    BY <1>2, PlanOnTop DEF MergeBrief
<1>7. MergePlan(brief) = <<"plan", "mechanical">>
    BY <1>2, PlanOnTop DEF MergePlan
<1>8. MergePlan(MergeBrief(brief)) = <<"plan", "builder", "mechanical">>
    BY <1>6, PlanOnTop DEF MergePlan
<1>9. brief' = Top' /\ audit' \subseteq {"plan", "builder"}
    <2>1. CASE applied /\ plan
        BY <1>2, <1>5, <1>8, <2>1, TopIs DEF Top
    <2>2. CASE applied /\ ~plan
        BY <1>2, <1>5, <1>6, <2>2, TopIs DEF Top
    <2>3. CASE ~applied /\ plan
        BY <1>2, <1>5, <1>7, <2>3, TopIs DEF Top
    <2>4. CASE ~applied /\ ~plan
        BY <1>2, <1>5, <2>4, TopIs DEF Top
    <2> QED
        BY <2>1, <2>2, <2>3, <2>4
<1>10. brief' \in Seq(Parts)
    BY <1>9, TopIs DEF Top
<1>11. BriefGrows'
    BY <1>1, <1>3, <1>9 DEF BriefGrows
<1>12. plan' \in BOOLEAN /\ picked' \in BOOLEAN
    BY <1>1 DEF PipelineInv, PipelineTypeOK
<1> QED
    BY <1>1, <1>2, <1>4, <1>9, <1>10, <1>11, <1>12, StageKeeps

\* Behind the stages of the package their phases are left alone.
LEMMA PackageStaysListed ==
    ASSUME PipelineInv, \A p \in OfPackage : Times(p)' = Times(p), stage' \notin OfPackage
    PROVE  OnceEach'
<1>1. Ahead' = {}
    BY DEF Ahead, OfPackage
<1> QED
    BY <1>1 DEF PipelineInv, OnceEach

LEMMA BuilderRaisesKeeps == PipelineInv /\ BuilderRaises => PipelineInv'
<1> SUFFICES ASSUME PipelineInv, BuilderRaises PROVE PipelineInv'
    OBVIOUS
<1>1. /\ stage = "builder_llm" /\ LeaveOpen(stage)
      /\ UNCHANGED <<kind, picked, brief, prompt, engine, reviewed>>
    BY DEF BuilderRaises, compiled
<1>2. plan' \in BOOLEAN /\ audit' \subseteq {"plan", "builder"}
    BY DEF BuilderRaises, compiled, PipelineInv, PipelineTypeOK
<1> QED
    BY <1>1, <1>2, StageLeftOpen

LEMMA EngineTranslateKeeps == PipelineInv /\ EngineTranslate => PipelineInv'
<1> SUFFICES ASSUME PipelineInv, EngineTranslate PROVE PipelineInv'
    OBVIOUS
<1>1. /\ stage = "translate" /\ engine' \in BOOLEAN
      /\ UNCHANGED <<kind, picked, plan, audit, phases, started, prompt, turn, review, recorded>>
    BY DEF EngineTranslate, compiled, reviewed
<1>2. /\ prompt = <<>> /\ kind = "package" /\ brief = Top /\ turn = 1 /\ result = "none" /\ started = {}
      /\ Times("executor") = 0 /\ Times("reviewer_pass") = 0
    BY <1>1 DEF PipelineInv, BriefGrows, Untouched, OfPackage
<1>3. PipelineTypeOK
    BY DEF PipelineInv
<1>4. FellThrough'
    BY <1>1, <1>2 DEF FellThrough
<1>5. \A p : Times(p)' = Times(p)
    BY <1>1, RecorderIdle
<1>6. \/ stage' = "run" /\ UNCHANGED result /\ brief' \in {brief, Append(brief, "pointers")}
      \/ stage' = "reviewer_pass" /\ result' = "raised" /\ UNCHANGED brief
    BY DEF EngineTranslate, RaiseInStage
<1>7. Top' = Top /\ Top \in Seq(Parts) /\ Append(Top, "pointers") = Top \o <<"pointers">>
    BY <1>1, TopIs, PartsAre, AppendIsConcat DEF Top
<1>8. Append(Top, "pointers") \in Seq(Parts)
    BY <1>7, PartsAre
<1>9. PipelineTypeOK'
    <2>1. stage' \in Phases \cup {"translate", "run", "decide", "end"}
        BY <1>6, StagesAre
    <2>2. brief' \in Seq(Parts)
        BY <1>2, <1>6, <1>7, <1>8
    <2>3. result' \in {"none", "success", "failure", "raised", "lost"}
        BY <1>2, <1>6
    <2> QED
        BY <1>1, <1>3, <2>1, <2>2, <2>3 DEF PipelineTypeOK
<1>10. OnceEach'
    <2>1. stage' \notin OfPackage
        BY <1>6 DEF OfPackage
    <2> QED
        BY <1>5, <2>1, PackageStaysListed
<1>11. Untouched'
    BY <1>1, <1>2, <1>5, <1>6 DEF Untouched, OfPackage
<1>12. RunsCounted'
    BY <1>1, <1>2, <1>4, <1>5, <1>6 DEF RunsCounted
<1>13. OneOpen'
    BY <1>1, <1>2 DEF OneOpen
<1>14. BriefGrows'
    <2>1. CASE stage' = "run"
        BY <1>2, <1>4, <1>6, <1>7, <2>1 DEF BriefGrows
    <2>2. CASE stage' # "run"
        BY <1>4, <1>6, <2>2 DEF BriefGrows
    <2> QED
        BY <2>1, <2>2
<1>15. kind' = "package"
    BY <1>1, <1>2
<1> QED
    BY <1>9, <1>10, <1>11, <1>12, <1>13, <1>14, <1>15 DEF PipelineInv

\* Without a package the five phases are listed at one go, one entry each.
LEMMA LegacyPromptKeeps == PipelineInv /\ LegacyPrompt => PipelineInv'
<1> SUFFICES ASSUME PipelineInv, LegacyPrompt PROVE PipelineInv'
    OBVIOUS
<1> DEFINE five == [i \in DOMAIN PackageStages |-> <<PackageStages[i], "skipped">>]
           n == Len(phases)
<1>1. /\ stage = "file_picker" /\ kind = "legacy" /\ engine' \in BOOLEAN /\ brief' = <<"raw">>
      /\ UNCHANGED <<kind, picked, plan, audit, started, prompt, turn, review, recorded>>
      /\ phases' = phases \o five
      /\ \/ stage' = "run" /\ UNCHANGED result /\ engine'
         \/ stage' = "reviewer_pass" /\ result' = "raised" /\ ~engine'
    BY DEF LegacyPrompt, compiled, reviewed, RaiseInStage
<1>2. /\ prompt = <<>> /\ turn = 1 /\ result = "none" /\ started = {}
      /\ Times("executor") = 0 /\ Times("reviewer_pass") = 0
      /\ \A p \in OfPackage : Times(p) = 0
    BY <1>1 DEF PipelineInv, Untouched, OfPackage, OnceEach, Ahead
<1>3. PipelineTypeOK
    BY DEF PipelineInv
<1>4. FellThrough'
    BY <1>1, <1>2 DEF FellThrough
<1>5. phases \in Seq(Entry) /\ n \in Nat /\ DOMAIN phases = 1 .. n
    BY <1>3 DEF PipelineTypeOK, Entry
<1>6. five \in Seq(Entry) /\ Len(five) = 5 /\ \A i \in 1 .. 5 : five[i] = <<PackageStages[i], "skipped">>
    <2>1. DOMAIN PackageStages = 1 .. 5
        BY PhasesAre
    <2>2. \A i \in 1 .. 5 : five[i] = <<PackageStages[i], "skipped">>
        BY <2>1
    <2>3. \A i \in 1 .. 5 : <<PackageStages[i], "skipped">> \in Entry
        <3>1. \A i \in 1 .. 5 : PackageStages[i] \in Phases
            BY PhasesAre
        <3> QED
            BY <3>1 DEF Entry
    <2>4. five \in [1 .. 5 -> Entry]
        BY <2>1, <2>3
    <2> QED
        BY <2>2, <2>4
<1> HIDE DEF five, n
<1>7. /\ phases' \in Seq(Entry) /\ DOMAIN phases' = 1 .. n + 5
      /\ \A i \in 1 .. n + 5 : phases'[i] = IF i <= n THEN phases[i] ELSE five[i - n]
    <2>1. /\ phases \o five \in Seq(Entry) /\ Len(phases \o five) = Len(phases) + Len(five)
          /\ \A i \in 1 .. Len(phases) + Len(five) :
                (phases \o five)[i] = IF i <= Len(phases) THEN phases[i] ELSE five[i - Len(phases)]
        BY <1>5, <1>6, ConcatProperties
    <2>2. Len(phases) = n /\ Len(five) = 5
        BY <1>6 DEF n
    <2>3. /\ phases' \in Seq(Entry) /\ Len(phases') = n + 5
          /\ \A i \in 1 .. n + 5 : phases'[i] = IF i <= n THEN phases[i] ELSE five[i - n]
        BY <1>1, <2>1, <2>2
    <2>4. DOMAIN phases' = 1 .. Len(phases')
        BY <2>3
    <2> QED
        BY <2>3, <2>4
<1>8. ASSUME NEW p, p \notin OfPackage PROVE Times(p)' = Times(p)
    <2>1. \A i \in 1 .. 5 : five[i][1] \in OfPackage
        BY <1>6, PhasesAre
    <2>2. ASSUME NEW i \in 1 .. n + 5, ~(i <= n) PROVE phases'[i][1] # p
        <3>1. i - n \in 1 .. 5
            BY <1>5, <2>2
        <3> QED
            BY <1>7, <1>8, <2>1, <2>2, <3>1
    <2>3. \A i \in 1 .. n + 5 : i <= n => i \in 1 .. n /\ phases'[i] = phases[i]
        BY <1>5, <1>7
    <2>4. \A i \in 1 .. n : i \in 1 .. n + 5 /\ phases'[i] = phases[i]
        BY <1>5, <1>7
    <2>5. Entries(p)' = Entries(p)
        BY <1>5, <1>7, <2>2, <2>3, <2>4 DEF Entries
    <2> QED
        BY <2>5 DEF Times
<1>9. ASSUME NEW p \in OfPackage PROVE Times(p)' <= 1
    <2>1. Entries(p) = {}
        <3>1. IsFiniteSet(Entries(p))
            BY <1>5, EntriesAreFinite
        <3> QED
            BY <1>2, <3>1, FS_EmptySet DEF Times
    <2>2. \A i \in 1 .. n : phases'[i][1] # p
        BY <1>5, <1>7, <2>1 DEF Entries
    <2>3. ASSUME NEW i \in 1 .. n + 5, NEW j \in 1 .. n + 5, phases'[i][1] = p, phases'[j][1] = p
          PROVE  i = j
        <3>1. ~(i <= n) /\ ~(j <= n)
            BY <1>5, <2>2, <2>3
        <3>2. i - n \in 1 .. 5 /\ j - n \in 1 .. 5
            BY <1>5, <3>1
        <3>3. PackageStages[i - n] = p /\ PackageStages[j - n] = p
            BY <1>6, <1>7, <2>3, <3>1, <3>2
        <3>4. i - n = j - n
            BY <3>2, <3>3, PhasesAre
        <3> QED
            BY <1>5, <3>4
    <2>4. \A i, j \in Entries(p)' : i = j
        BY <1>7, <2>3 DEF Entries
    <2>5. CASE Entries(p)' = {}
        BY <2>5, FS_EmptySet DEF Times
    <2>6. CASE Entries(p)' # {}
        <3>1. PICK i \in Entries(p)' : TRUE
            BY <2>6
        <3>2. Entries(p)' = {i}
            BY <2>4, <3>1
        <3> QED
            BY <3>2, FS_Singleton DEF Times
    <2> QED
        BY <2>5, <2>6
<1>10. "executor" \notin OfPackage /\ "reviewer_pass" \notin OfPackage /\ stage' \notin OfPackage
    BY <1>1 DEF OfPackage
<1>11. Times("executor")' = 0 /\ Times("reviewer_pass")' = 0
    BY <1>2, <1>8, <1>10
<1>12. OnceEach'
    <2>1. Ahead' = {}
        BY <1>1 DEF Ahead
    <2> QED
        BY <1>9, <2>1 DEF OnceEach
<1>13. PipelineTypeOK'
    <2>1. stage' \in Phases \cup {"translate", "run", "decide", "end"}
        BY <1>1, StagesAre
    <2>2. brief' \in Seq(Parts)
        BY <1>1, PartsAre
    <2>3. result' \in {"none", "success", "failure", "raised", "lost"}
        BY <1>1, <1>2
    <2> QED
        BY <1>1, <1>3, <1>7, <2>1, <2>2, <2>3 DEF PipelineTypeOK, Entry
<1>14. Untouched'
    BY <1>1, <1>2, <1>10, <1>11 DEF Untouched
<1>15. RunsCounted'
    BY <1>1, <1>2, <1>4, <1>11 DEF RunsCounted
<1>16. OneOpen' /\ BriefGrows'
    BY <1>1, <1>2 DEF OneOpen, BriefGrows
<1> QED
    BY <1>1, <1>12, <1>13, <1>14, <1>15, <1>16 DEF PipelineInv

\* Whatever is below it, a brief that starts with what was applied is not the
\* prompt assembled on entry.
LEMMA TopStaysOnTop ==
    ASSUME NEW a, NEW t \in Seq(Parts)
    PROVE  TopOf(a) \o t \in Seq(Parts) /\ TopOf(a) \o t # <<>> /\ Head(TopOf(a) \o t) # "raw"
<1> DEFINE s == TopOf(a)
<1>1. s \in Seq(Parts) /\ s # <<>> /\ Head(s) # "raw"
    BY TopIs
<1> HIDE DEF s
<1>2. s \o t \in Seq(Parts) /\ Len(s \o t) = Len(s) + Len(t) /\ Len(s) \in Nat /\ Len(t) \in Nat
    BY <1>1, ConcatProperties
<1>3. Len(s) # 0
    BY <1>1
<1>4. 1 \in 1 .. Len(s) + Len(t) /\ 1 <= Len(s)
    BY <1>2, <1>3
<1>5. (s \o t)[1] = s[1]
    BY <1>1, <1>4, ConcatProperties
<1>6. s \o t # <<>>
    BY <1>2, <1>3
<1>7. Head(s \o t) = (s \o t)[1] /\ Head(s) = s[1]
    BY <1>1, <1>2, <1>6
<1> QED
    BY <1>1, <1>2, <1>5, <1>6, <1>7 DEF s

LEMMA RunExecutorKeeps == PipelineInv /\ RunExecutor => PipelineInv'
<1> SUFFICES ASSUME PipelineInv, RunExecutor PROVE PipelineInv'
    OBVIOUS
<1>1. /\ stage = "run" /\ stage' = "reviewer_pass" /\ kind # "review" /\ prompt' = brief
      /\ result' \in {"success", "failure", "raised"}
      /\ UNCHANGED <<kind, picked, plan, audit, brief, engine, turn, review, recorded>>
    BY DEF RunExecutor, RunWith, compiled, reviewed
<1>2. PICK status \in {"ok", "skipped", "error"} : Ended("executor", status)
    BY DEF RunExecutor, RunWith
<1>3. turn = 1 /\ started = {} /\ Times("executor") = 0 /\ Times("reviewer_pass") = 0
    BY <1>1 DEF PipelineInv, Untouched, OfPackage
<1>4. PipelineTypeOK
    BY DEF PipelineInv
<1>5. phases \in Seq(Entry) /\ "executor" \in Phases
    BY <1>4, PhasesAre DEF PipelineTypeOK, Entry
<1>6. /\ phases' \in Seq(Entry) /\ started' = started \ {"executor"}
      /\ Times("executor")' = Times("executor") + 1
      /\ \A q : q # "executor" => Times(q)' = Times(q)
    BY <1>2, <1>5, PhaseListed
<1>7. Times("executor")' = 1 /\ Times("reviewer_pass")' = 0 /\ started' = {}
    BY <1>3, <1>6
<1>8. Top' = Top
    BY <1>1 DEF Top
<1>9. ~FellThrough'
    <2>1. CASE kind = "package"
        <3>1. brief \in {Top, Top \o <<"pointers">>}
            BY <1>1, <2>1 DEF PipelineInv, BriefGrows
        <3>2. brief # <<>> /\ Head(brief) # "raw"
            <4>1. <<"pointers">> \in Seq(Parts)
                BY PartsAre
            <4> QED
                BY <3>1, <4>1, TopIs, TopStaysOnTop DEF Top
        <3> QED
            BY <1>1, <3>2 DEF FellThrough
    <2>2. CASE kind # "package"
        <3>1. kind = "legacy"
            BY <1>1, <1>4, <2>2, PipelineBounds DEF PipelineTypeOK
        <3>2. brief = <<"raw">>
            BY <1>1, <3>1 DEF PipelineInv
        <3> QED
            BY <1>1, <2>2, <3>2 DEF FellThrough
    <2> QED
        BY <2>1, <2>2
<1>10. OnceEach'
    <2>1. \A p \in OfPackage : Times(p)' = Times(p)
        BY <1>6 DEF OfPackage
    <2>2. stage' \notin OfPackage
        BY <1>1 DEF OfPackage
    <2> QED
        BY <2>1, <2>2, PackageStaysListed
<1>11. PipelineTypeOK'
    <2>1. stage' \in Phases \cup {"translate", "run", "decide", "end"}
        BY <1>1, StagesAre
    <2>2. prompt' \in Seq(Parts)
        BY <1>1, <1>4 DEF PipelineTypeOK
    <2> QED
        BY <1>1, <1>4, <1>6, <1>7, <2>1, <2>2 DEF PipelineTypeOK, Entry
<1>12. Untouched'
    BY <1>1 DEF Untouched, OfPackage
<1>13. RunsCounted'
    BY <1>1, <1>3, <1>7, <1>9 DEF RunsCounted
<1>14. OneOpen'
    BY <1>7 DEF OneOpen
<1>15. BriefGrows'
    <2>1. kind = "package" => brief \in {Top, Top \o <<"pointers">>}
        BY <1>1 DEF PipelineInv, BriefGrows
    <2> QED
        BY <1>1, <1>8, <2>1 DEF BriefGrows
<1> QED
    BY <1>1, <1>10, <1>11, <1>12, <1>13, <1>14, <1>15 DEF PipelineInv

LEMMA RunReviewKeeps == PipelineInv /\ RunReview => PipelineInv'
<1> SUFFICES ASSUME PipelineInv, RunReview PROVE PipelineInv'
    OBVIOUS
<1>1. /\ stage = "run" /\ stage' = "reviewer_pass" /\ kind = "review" /\ prompt' = <<"raw">>
      /\ result' \in {"success", "failure", "raised"}
      /\ UNCHANGED <<kind, picked, plan, audit, phases, started, brief, engine, turn, review, recorded>>
    BY DEF RunReview, compiled, reviewed
<1>2. started = {}
    BY <1>1 DEF PipelineInv, Untouched
<1>3. OnceEach'
    <2>1. \A p : Times(p)' = Times(p)
        BY <1>1, RecorderIdle
    <2>2. stage' \notin OfPackage
        BY <1>1 DEF OfPackage
    <2> QED
        BY <2>1, <2>2, PackageStaysListed
<1>4. PipelineTypeOK'
    <2>1. PipelineTypeOK
        BY DEF PipelineInv
    <2>2. stage' \in Phases \cup {"translate", "run", "decide", "end"}
        BY <1>1, StagesAre
    <2>3. prompt' \in Seq(Parts)
        BY <1>1, PartsAre
    <2> QED
        BY <1>1, <2>1, <2>2, <2>3 DEF PipelineTypeOK
<1>5. Untouched' /\ RunsCounted' /\ OneOpen' /\ BriefGrows'
    BY <1>1, <1>2 DEF Untouched, RunsCounted, OneOpen, BriefGrows, OfPackage
<1> QED
    BY <1>1, <1>3, <1>4, <1>5 DEF PipelineInv

LEMMA ReviewerPassKeeps == PipelineInv /\ ReviewerPass => PipelineInv'
<1> SUFFICES ASSUME PipelineInv, ReviewerPass PROVE PipelineInv'
    OBVIOUS
<1>1. /\ stage = "reviewer_pass" /\ stage' = "decide"
      /\ recorded' = (IF turn = 1 THEN review' ELSE recorded)
      /\ UNCHANGED <<kind, picked, plan, audit, brief, prompt, result, engine, turn>>
    BY DEF ReviewerPass, compiled
<1>2. PipelineTypeOK
    BY DEF PipelineInv
<1>3. phases \in Seq(Entry) /\ "reviewer_pass" \in Phases /\ turn \in Nat
    <2>1. \A k \in 1 .. MaxTurns : k \in Nat
        BY PipelineBounds
    <2> QED
        BY <1>2, <2>1, PhasesAre DEF PipelineTypeOK, Entry
<1>4. review' \in Reviews
    <2>1. \A reply : ReviewVerdict(reply) \in {"passed", "blocked", "failed"}
        BY DEF ReviewVerdict, Verdict
    <2>2. review' = "skipped" \/ \E reply : review' = ReviewVerdict(reply)
        BY DEF ReviewerPass
    <2> QED
        BY <2>1, <2>2 DEF Reviews
<1>5. /\ phases' \in Seq(Entry) /\ started' \in {started, started \ {"reviewer_pass"}}
      /\ \A q : q # "reviewer_pass" => Times(q)' = Times(q)
      /\ kind # "review" => Times("reviewer_pass")' = Times("reviewer_pass") + 1
    <2>1. CASE \E status \in {"ok", "skipped", "error"} : Ended("reviewer_pass", status)
        <3>1. PICK status \in {"ok", "skipped", "error"} : Ended("reviewer_pass", status)
            BY <2>1
        <3> QED
            BY <1>3, <3>1, PhaseListed
    <2>2. CASE kind = "review" /\ UNCHANGED <<phases, started>>
        BY <1>3, <2>2, RecorderIdle
    <2> QED
        BY <2>1, <2>2 DEF ReviewerPass, Mark
<1>6. OnceEach'
    <2>1. \A p \in OfPackage : Times(p)' = Times(p)
        BY <1>5 DEF OfPackage
    <2>2. stage' \notin OfPackage
        BY <1>1 DEF OfPackage
    <2> QED
        BY <2>1, <2>2, PackageStaysListed
<1>7. PipelineTypeOK'
    <2>1. stage' \in Phases \cup {"translate", "run", "decide", "end"}
        BY <1>1, StagesAre
    <2>2. started' \subseteq Phases
        BY <1>2, <1>5 DEF PipelineTypeOK
    <2>3. recorded' \in Reviews
        BY <1>1, <1>2, <1>4 DEF PipelineTypeOK
    <2> QED
        BY <1>1, <1>2, <1>4, <1>5, <2>1, <2>2, <2>3 DEF PipelineTypeOK, Entry
<1>8. FellThrough' = FellThrough /\ Top' = Top
    BY <1>1, FellThroughStays DEF Top
<1>9. RunsCounted'
    <2>1. kind # "review" =>
            /\ Times("executor") = IF FellThrough THEN turn - 1 ELSE turn
            /\ Times("reviewer_pass") = turn - 1
        BY <1>1 DEF PipelineInv, RunsCounted
    <2>2. kind # "review" => Times("reviewer_pass")' = turn
        BY <1>3, <1>5, <2>1
    <2> QED
        BY <1>1, <1>5, <1>8, <2>1, <2>2 DEF RunsCounted
<1>10. Untouched'
    BY <1>1 DEF Untouched, OfPackage
<1>11. OneOpen'
    <2>1. started # {} =>
            /\ \E p \in {"planner_pass", "builder_llm"} : started = {p} /\ Times(p) = 0
            /\ prompt = <<>> /\ ~engine /\ result = "raised"
        BY <1>1 DEF PipelineInv, OneOpen
    <2>2. ASSUME started' # {}
          PROVE  /\ \E p \in {"planner_pass", "builder_llm"} : started' = {p} /\ Times(p)' = 0
                 /\ prompt = <<>> /\ ~engine /\ result = "raised"
        <3>1. started # {}
            BY <1>5, <2>2
        <3>2. PICK p \in {"planner_pass", "builder_llm"} : started = {p} /\ Times(p) = 0
            BY <2>1, <3>1
        <3>3. started' = {p} /\ Times(p)' = 0
            BY <1>5, <3>2
        <3> QED
            BY <2>1, <3>1, <3>3
    <2> QED
        BY <1>1, <2>2 DEF OneOpen
<1>12. BriefGrows'
    <2>1. kind = "package" /\ ~FellThrough =>
            /\ brief \in {Top, Top \o <<"pointers">>}
            /\ prompt \in {Top, Top \o <<"pointers">>, Top \o <<"correction">>,
                            Top \o <<"pointers", "correction">>}
        BY DEF PipelineInv, BriefGrows
    <2> QED
        BY <1>1, <1>8, <2>1 DEF BriefGrows
<1> QED
    BY <1>1, <1>6, <1>7, <1>9, <1>10, <1>11, <1>12 DEF PipelineInv

\* A review that raises ends the call with its phase open.
LEMMA ReviewerRaisesKeeps == PipelineInv /\ ReviewerRaises => PipelineInv'
<1> SUFFICES ASSUME PipelineInv, ReviewerRaises PROVE PipelineInv'
    OBVIOUS
<1>1. /\ stage = "reviewer_pass" /\ stage' = "end" /\ result = "success" /\ result' = "lost"
      /\ kind # "review" /\ started' = started \cup {"reviewer_pass"}
      /\ UNCHANGED <<kind, picked, plan, audit, phases, brief, prompt, engine, turn, review, recorded>>
    BY DEF ReviewerRaises, Start, compiled, reviewed
<1>2. started' = {"reviewer_pass"}
    BY <1>1 DEF PipelineInv, OneOpen
<1>3. \A p : Times(p)' = Times(p)
    BY <1>1, RecorderIdle
<1>4. FellThrough' = FellThrough /\ Top' = Top
    BY <1>1, FellThroughStays DEF Top
<1>5. OnceEach'
    <2>1. stage' \notin OfPackage
        BY <1>1 DEF OfPackage
    <2> QED
        BY <1>3, <2>1, PackageStaysListed
<1>6. PipelineTypeOK'
    <2>1. stage' \in Phases \cup {"translate", "run", "decide", "end"} /\ "reviewer_pass" \in Phases
        BY <1>1, StagesAre, PhasesAre
    <2> QED
        BY <1>1, <1>2, <2>1 DEF PipelineInv, PipelineTypeOK
<1>7. RunsCounted' /\ Untouched'
    BY <1>1 DEF RunsCounted, Untouched, OfPackage
<1>8. OneOpen'
    <2>1. /\ Times("executor") = IF FellThrough THEN turn - 1 ELSE turn
          /\ Times("reviewer_pass") = turn - 1
        BY <1>1 DEF PipelineInv, RunsCounted
    <2> QED
        BY <1>1, <1>2, <1>3, <1>4, <2>1 DEF OneOpen
<1>9. BriefGrows'
    <2>1. kind = "package" /\ ~FellThrough =>
            /\ brief \in {Top, Top \o <<"pointers">>}
            /\ prompt \in {Top, Top \o <<"pointers">>, Top \o <<"correction">>,
                            Top \o <<"pointers", "correction">>}
        BY DEF PipelineInv, BriefGrows
    <2> QED
        BY <1>1, <1>4, <2>1 DEF BriefGrows
<1> QED
    BY <1>1, <1>5, <1>6, <1>7, <1>8, <1>9 DEF PipelineInv

LEMMA FinishKeeps == PipelineInv /\ Finish => PipelineInv'
<1> SUFFICES ASSUME PipelineInv, Finish PROVE PipelineInv'
    OBVIOUS
<1>1. /\ stage = "decide" /\ stage' = "end"
      /\ result' = (IF kind = "package" /\ ~engine THEN "lost" ELSE result)
      /\ UNCHANGED <<kind, picked, plan, audit, phases, started, brief, prompt, engine, turn, review, recorded>>
    BY DEF Finish, compiled, reviewed
<1>2. \A p : Times(p)' = Times(p)
    BY <1>1, RecorderIdle
<1>3. FellThrough' = FellThrough /\ Top' = Top
    BY <1>1, FellThroughStays DEF Top
<1>4. OnceEach'
    <2>1. stage' \notin OfPackage
        BY <1>1 DEF OfPackage
    <2> QED
        BY <1>2, <2>1, PackageStaysListed
<1>5. PipelineTypeOK'
    <2>1. stage' \in Phases \cup {"translate", "run", "decide", "end"}
        BY <1>1, StagesAre
    <2> QED
        BY <1>1, <2>1 DEF PipelineInv, PipelineTypeOK
<1>6. RunsCounted'
    <2>1. kind # "review" => Times("reviewer_pass") = turn
        BY <1>1 DEF PipelineInv, RunsCounted
    <2> QED
        BY <1>1, <1>2, <2>1 DEF RunsCounted
<1>7. Untouched'
    BY <1>1 DEF Untouched, OfPackage
<1>8. OneOpen'
    BY <1>1, <1>2 DEF PipelineInv, OneOpen
<1>9. BriefGrows'
    <2>1. kind = "package" /\ ~FellThrough =>
            /\ brief \in {Top, Top \o <<"pointers">>}
            /\ prompt \in {Top, Top \o <<"pointers">>, Top \o <<"correction">>,
                            Top \o <<"pointers", "correction">>}
        BY DEF PipelineInv, BriefGrows
    <2> QED
        BY <1>1, <1>3, <2>1 DEF BriefGrows
<1> QED
    BY <1>1, <1>4, <1>5, <1>6, <1>7, <1>8, <1>9 DEF PipelineInv

\* A rerun starts from the brief of the first run and not from its own last
\* prompt, so one correction is all that ever stands below it.
LEMMA RerunKeeps == PipelineInv /\ Rerun => PipelineInv'
<1> SUFFICES ASSUME PipelineInv, Rerun PROVE PipelineInv'
    OBVIOUS
<1> DEFINE base == IF FellThrough THEN <<"raw">> ELSE brief
<1>1. /\ stage = "decide" /\ kind = "package" /\ engine /\ turn < MaxTurns /\ turn' = turn + 1
      /\ stage' = (IF result' = "raised" THEN "end" ELSE "reviewer_pass")
      /\ result' \in {"success", "failure", "raised"}
      /\ prompt' \in {base, Append(base, "correction")}
      /\ UNCHANGED <<kind, picked, plan, audit, brief, engine, review, recorded>>
    BY DEF Rerun, RunWith, Corrected, compiled
<1>2. PICK status \in {"ok", "skipped", "error"} : Ended("executor", status)
    BY DEF Rerun, RunWith
<1>3. PipelineTypeOK
    BY DEF PipelineInv
<1>4. phases \in Seq(Entry) /\ "executor" \in Phases /\ turn \in Nat /\ turn' \in 1 .. MaxTurns
    <2>1. \A k \in 1 .. MaxTurns : k \in Nat /\ (k < MaxTurns => k + 1 \in 1 .. MaxTurns)
        BY PipelineBounds
    <2>2. turn \in 1 .. MaxTurns
        BY <1>3 DEF PipelineTypeOK
    <2> QED
        BY <1>1, <1>3, <2>1, <2>2, PhasesAre DEF PipelineTypeOK, Entry
<1>5. /\ phases' \in Seq(Entry) /\ started' = started \ {"executor"}
      /\ Times("executor")' = Times("executor") + 1
      /\ \A q : q # "executor" => Times(q)' = Times(q)
    BY <1>2, <1>4, PhaseListed
<1>6. started = {}
    BY <1>1 DEF PipelineInv, OneOpen
<1>7. ~FellThrough => brief \in {Top, Top \o <<"pointers">>}
    BY <1>1 DEF PipelineInv, BriefGrows
<1>8. Top' = Top /\ Top \in Seq(Parts)
    BY <1>1, TopIs DEF Top
<1>9. FellThrough => prompt' \in {<<"raw">>, <<"raw", "correction">>}
    BY <1>1, PartsAre, AppendToOne
<1>10. ~FellThrough =>
         prompt' \in {Top, Top \o <<"pointers">>, Top \o <<"correction">>,
                      Top \o <<"pointers", "correction">>}
    <2>1. Append(Top, "correction") = Top \o <<"correction">>
        BY <1>8, PartsAre, AppendIsConcat
    <2>2. Append(Top \o <<"pointers">>, "correction") = Top \o <<"pointers", "correction">>
        <3>1. <<"pointers">> \in Seq(Parts) /\ <<"correction">> \in Seq(Parts)
            BY PartsAre
        <3>2. Top \o <<"pointers">> \in Seq(Parts)
            BY <1>8, <3>1, ConcatProperties
        <3>3. Append(Top \o <<"pointers">>, "correction") = (Top \o <<"pointers">>) \o <<"correction">>
            BY <3>2, PartsAre, AppendIsConcat
        <3>4. (Top \o <<"pointers">>) \o <<"correction">> = Top \o (<<"pointers">> \o <<"correction">>)
            BY <1>8, <3>1, ConcatAssociative
        <3>5. <<"pointers">> \o <<"correction">> = <<"pointers", "correction">>
            BY PartsAre, PartsJoin
        <3> QED
            BY <3>3, <3>4, <3>5
    <2> QED
        BY <1>1, <1>7, <2>1, <2>2
<1>11. /\ <<"pointers">> \in Seq(Parts) /\ <<"correction">> \in Seq(Parts)
       /\ <<"pointers", "correction">> \in Seq(Parts)
    BY PartsAre
<1>12. prompt' \in Seq(Parts) /\ FellThrough' = FellThrough
    <2>1. CASE FellThrough
        <3>1. prompt' \in Seq(Parts)
            <4>1. <<"raw">> \in Seq(Parts) /\ <<"raw", "correction">> \in Seq(Parts)
                BY PartsAre
            <4> QED
                BY <1>9, <2>1, <4>1
        <3>2. Head(<<"raw">>) = "raw" /\ Head(<<"raw", "correction">>) = "raw"
            OBVIOUS
        <3>3. FellThrough'
            BY <1>1, <1>9, <2>1, <3>2 DEF FellThrough
        <3> QED
            BY <2>1, <3>1, <3>3 DEF FellThrough
    <2>2. CASE ~FellThrough
        <3>1. prompt' \in Seq(Parts) /\ prompt' # <<>> /\ Head(prompt') # "raw"
            BY <1>8, <1>10, <1>11, <2>2, TopIs, TopStaysOnTop DEF Top
        <3>2. ~FellThrough'
            BY <3>1 DEF FellThrough
        <3> QED
            BY <2>2, <3>1, <3>2 DEF FellThrough
    <2> QED
        BY <2>1, <2>2
<1> HIDE DEF base
<1>13. OnceEach'
    <2>1. \A p \in OfPackage : Times(p)' = Times(p)
        BY <1>5 DEF OfPackage
    <2>2. stage' \notin OfPackage
        BY <1>1 DEF OfPackage
    <2> QED
        BY <2>1, <2>2, PackageStaysListed
<1>14. PipelineTypeOK'
    <2>1. stage' \in Phases \cup {"translate", "run", "decide", "end"}
        BY <1>1, StagesAre
    <2>2. result' \in {"none", "success", "failure", "raised", "lost"}
        BY <1>1
    <2>3. started' \subseteq Phases
        BY <1>5, <1>6
    <2> QED
        BY <1>1, <1>3, <1>4, <1>5, <1>12, <2>1, <2>2, <2>3 DEF PipelineTypeOK, Entry
<1>15. RunsCounted'
    <2>1. /\ Times("executor") = (IF FellThrough THEN turn - 1 ELSE turn)
          /\ Times("reviewer_pass") = turn
        BY <1>1 DEF PipelineInv, RunsCounted
    <2>2. Times("executor")' = (IF FellThrough THEN turn' - 1 ELSE turn')
        BY <1>1, <1>4, <1>5, <2>1
    <2>3. Times("reviewer_pass")' = turn' - 1
        BY <1>1, <1>4, <1>5, <2>1
    <2> QED
        BY <1>1, <1>12, <2>2, <2>3 DEF RunsCounted
<1>16. Untouched'
    BY <1>1 DEF Untouched, OfPackage
<1>17. OneOpen'
    BY <1>5, <1>6 DEF OneOpen
<1>18. BriefGrows'
    BY <1>1, <1>7, <1>8, <1>10, <1>12 DEF BriefGrows
<1> QED
    BY <1>1, <1>13, <1>14, <1>15, <1>16, <1>17, <1>18 DEF PipelineInv

LEMMA PipelineIsInductive == PipelineInv /\ [PipelineNext]_pipelineVars => PipelineInv'
<1> SUFFICES ASSUME PipelineInv, [PipelineNext]_pipelineVars PROVE PipelineInv'
    OBVIOUS
<1>1. CASE UNCHANGED pipelineVars
    <2>1. \A p : Times(p)' = Times(p)
        BY <1>1, RecorderIdle DEF pipelineVars
    <2>2. FellThrough' = FellThrough /\ Top' = Top /\ Ahead' = Ahead
        BY <1>1, FellThroughStays DEF pipelineVars, Top, Ahead
    <2>3. PipelineTypeOK'
        BY <1>1 DEF PipelineInv, PipelineTypeOK, pipelineVars
    <2>4. OnceEach'
        BY <2>1, <2>2 DEF PipelineInv, OnceEach
    <2>5. Untouched' /\ RunsCounted'
        BY <1>1, <2>1, <2>2 DEF PipelineInv, Untouched, RunsCounted, pipelineVars
    <2>6. OneOpen'
        BY <1>1, <2>1, <2>2 DEF PipelineInv, OneOpen, pipelineVars
    <2>7. BriefGrows'
        BY <1>1, <2>2 DEF PipelineInv, BriefGrows, pipelineVars
    <2> QED
        BY <1>1, <2>3, <2>4, <2>5, <2>6, <2>7 DEF PipelineInv, pipelineVars
<1> QED
    BY <1>1, FilePickerKeeps, RagRetrievalKeeps, ContextAssembleKeeps, PlannerPassKeeps,
       BuilderPassKeeps, BuilderRaisesKeeps, EngineTranslateKeeps, LegacyPromptKeeps, RunExecutorKeeps,
       RunReviewKeeps, ReviewerPassKeeps, ReviewerRaisesKeeps, RerunKeeps, FinishKeeps DEF PipelineNext

LEMMA PhasesAddUp == PipelineInv => PhasesAccountFor
<1> SUFFICES ASSUME PipelineInv PROVE PhasesAccountFor
    OBVIOUS
<1>1. \A p \in ToSet(PackageStages) : Cardinality(Entries(p)) <= 1
    BY PhasesAre DEF PipelineInv, OnceEach, Times
<1>2. stage = "decide" \/ (stage = "end" /\ result = "success") =>
        (kind # "review" => Cardinality(Entries("reviewer_pass")) = turn)
    BY DEF PipelineInv, RunsCounted, Times
<1>3. stage = "decide" /\ kind # "review" =>
        Cardinality(Entries("executor")) = IF FellThrough THEN turn - 1 ELSE turn
    BY DEF PipelineInv, RunsCounted, Times
<1>4. ASSUME started # {}
      PROVE  \/ /\ FellThrough /\ ~engine /\ result \in {"raised", "lost"}
                /\ \A p \in started : Entries(p) = {}
             \/ /\ started = {"reviewer_pass"} /\ result = "lost"
                /\ Cardinality(Entries("reviewer_pass")) = turn - 1
                /\ Cardinality(Entries("executor")) = IF FellThrough THEN turn - 1 ELSE turn
    <2>1. CASE started = {"reviewer_pass"} /\ result = "lost"
               /\ Times("reviewer_pass") = turn - 1
               /\ Times("executor") = IF FellThrough THEN turn - 1 ELSE turn
        BY <2>1 DEF Times
    <2>2. CASE /\ \E p \in {"planner_pass", "builder_llm"} : started = {p} /\ Times(p) = 0
               /\ prompt = <<>> /\ ~engine /\ result \in {"raised", "lost"}
        <3>1. PICK p \in {"planner_pass", "builder_llm"} : started = {p} /\ Times(p) = 0
            BY <2>2
        <3>2. IsFiniteSet(Entries(p))
            BY EntriesAreFinite DEF PipelineInv, PipelineTypeOK, Entry
        <3>3. Entries(p) = {}
            BY <3>1, <3>2, FS_EmptySet DEF Times
        <3> QED
            BY <2>2, <3>1, <3>3 DEF FellThrough
    <2> QED
        BY <1>4, <2>1, <2>2 DEF PipelineInv, OneOpen
<1> QED
    BY <1>1, <1>2, <1>3, <1>4 DEF PhasesAccountFor

\* A prompt is its top and what is below it.
LEMMA PromptSplits ==
    ASSUME NEW s \in Seq(Parts), NEW t \in Seq(Parts), s # <<>>
    PROVE  IsPrefix(s, s \o t) /\ SubSeq(s \o t, Len(s) + 1, Len(s \o t)) = t
<1>1. /\ s \o t \in Seq(Parts) /\ Len(s \o t) = Len(s) + Len(t)
      /\ Len(s) \in Nat /\ Len(t) \in Nat /\ Len(s) # 0
    BY ConcatProperties
<1>2. SubSeq(s \o t, 1, Len(s)) = SubSeq(s, 1, Len(s))
    <2>1. 1 \in 1 .. Len(s) /\ Len(s) \in 1 .. Len(s)
        BY <1>1
    <2> QED
        BY <2>1, SubSeqOfConcat1
<1>3. Len(s) <= Len(s \o t)
    BY <1>1
<1>4. CASE Len(t) = 0
    <2>1. t = <<>> /\ Len(s \o t) = Len(s)
        BY <1>1, <1>4
    <2>2. SubSeq(s \o t, Len(s) + 1, Len(s)) = <<>>
        BY <1>1
    <2> QED
        BY <1>2, <1>3, <2>1, <2>2 DEF IsPrefix
<1>5. CASE Len(t) # 0
    <2>1. Len(s) + 1 \in Len(s) + 1 .. Len(s) + Len(t) /\ Len(s) + Len(t) \in Len(s) + 1 .. Len(s) + Len(t)
        BY <1>1, <1>5
    <2>2. SubSeq(s \o t, Len(s) + 1, Len(s) + Len(t)) =
            SubSeq(t, Len(s) + 1 - Len(s), Len(s) + Len(t) - Len(s))
        BY <2>1, SubSeqOfConcat2
    <2>3. Len(s) + 1 - Len(s) = 1 /\ Len(s) + Len(t) - Len(s) = Len(t)
        BY <1>1
    <2>4. SubSeq(t, 1, Len(t)) = t
        BY SubSeqFull
    <2> QED
        BY <1>1, <1>2, <1>3, <2>2, <2>3, <2>4 DEF IsPrefix
<1> QED
    BY <1>4, <1>5

LEMMA PromptAddsUp == PipelineInv => PromptIsAudited
<1> SUFFICES ASSUME PipelineInv, kind = "package", ~FellThrough
             PROVE  /\ IsPrefix(Top, prompt)
                    /\ SubSeq(prompt, Len(Top) + 1, Len(prompt)) \in
                         {<<>>, <<"pointers">>, <<"correction">>, <<"pointers", "correction">>}
    BY DEF PromptIsAudited, Top, TopOf
<1>1. prompt \in {Top, Top \o <<"pointers">>, Top \o <<"correction">>,
                  Top \o <<"pointers", "correction">>}
    BY DEF PipelineInv, BriefGrows
<1>2. Top \in Seq(Parts) /\ Top # <<>>
    BY TopIs DEF Top
<1>3. /\ <<>> \in Seq(Parts) /\ <<"pointers">> \in Seq(Parts) /\ <<"correction">> \in Seq(Parts)
      /\ <<"pointers", "correction">> \in Seq(Parts)
    BY PartsAre
<1>4. Top = Top \o <<>>
    BY <1>2, ConcatEmptySeq
<1> DEFINE Below == {<<>>, <<"pointers">>, <<"correction">>, <<"pointers", "correction">>}
<1>5. PICK t \in Below : prompt = Top \o t
    BY <1>1, <1>4
<1>6. t \in Seq(Parts)
    BY <1>3
<1>7. IsPrefix(Top, Top \o t) /\ SubSeq(Top \o t, Len(Top) + 1, Len(Top \o t)) = t
    BY <1>2, <1>6, PromptSplits
<1> QED
    BY <1>5, <1>7

\* Every phase that was started is in the record of the delegation, once or
\* once per turn; the only gap is the phase of the stage that raised, and then
\* no executor ran (phases.py 40-65, mcp_server.py 3451-3527).
THEOREM PhasesAddUpAlways == PipelineSpec => []PhasesAccountFor
<1> HIDE DEF PipelineInv
<1> QED
    BY PipelineStarts, PipelineIsInductive, PhasesAddUp, PTL DEF PipelineSpec

\* The executor always works from the mechanical brief with exactly what the
\* record says was applied above it and at most one correction below, however
\* many reruns there are (helper_llm_pipeline.py 90-102, mcp_server.py 3609-3668).
THEOREM PromptIsAsRecorded == PipelineSpec => []PromptIsAudited
<1> HIDE DEF PipelineInv
<1> QED
    BY PipelineStarts, PipelineIsInductive, PromptAddsUp, PTL DEF PipelineSpec

-----------------------------------------------------------------------------
(***************************************************************************)
(* The three side by side.                                                 *)
(***************************************************************************)
LEMMA StagesStart == Init => GatesInit /\ PipelineInit /\ CompilerInit
    BY DEF Init

LEMMA StagesStep ==
    [Next]_vars =>
        [GatesNext]_gateVars /\ [PipelineNext]_pipelineVars /\ [CompilerNext]_compilerVars
    BY DEF Next, vars, Others

\* Whichever of the three runs, the state of each is of its types.
THEOREM PipelineTypes == Spec => []TypeOK
<1>1. GatesInv => GatesTypeOK
    BY DEF GatesInv
<1>2. PipelineInv => PipelineTypeOK
    BY DEF PipelineInv
<1>3. CompilerInv => CompilerTypeOK
    BY DEF CompilerInv
<1> HIDE DEF GatesInv, PipelineInv, CompilerInv
<1> QED
    BY <1>1, <1>2, <1>3, StagesStart, StagesStep, GatesStart, GatesAreInductive, PipelineStarts,
       PipelineIsInductive, CompilerStarts, CompilerIsInductive, PTL DEF Spec, TypeOK

\* What is proved of each alone holds of the three side by side, as they are
\* run together.
THEOREM PipelineHolds ==
    Spec => [](ClarityHolds /\ PhasesAccountFor /\ PromptIsAudited /\ PackageIsSound)
<1> HIDE DEF GatesInv, PipelineInv, CompilerInv
<1> QED
    BY StagesStart, StagesStep, GatesStart, GatesAreInductive, GatesHold, PipelineStarts,
       PipelineIsInductive, PhasesAddUp, PromptAddsUp, CompilerStarts, CompilerIsInductive,
       PackagesAreSound, PTL DEF Spec
=============================================================================
