----------------------------- MODULE PausedStates -----------------------------
(***************************************************************************)
(* The directory of paused supervisor states of one project key            *)
(* (core/state/supervisor_state.py): one JSON file per resume token.       *)
(* Tokens are numbered in the order of their paused_at timestamps; they    *)
(* all get the same time to live, so they also expire in that order.       *)
(***************************************************************************)
EXTENDS Integers

PauseReasons == {"clarity_check", "needs_input", "max_turns_reached"}

\* What find_latest returns when no file qualifies (Python's None).
NoPause ==
  [tok |-> 0, ref |-> 0, reason |-> "none", turn |-> 0, reviewer |-> "none"]

\* SupervisorState.create: ref is context_ref (the delegation that paused),
\* turn is turn_index, reviewer the lifecycle context's reviewer result.
Pause(tok, ref, reason, turn, reviewer) ==
  [tok |-> tok, ref |-> ref, reason |-> reason, turn |-> turn,
   reviewer |-> reviewer]

\* Expired files stay in the directory; load refuses them.
Live(files, expired) == {f \in files : f.tok \notin expired}

\* Mutant: the scan keeps the smallest paused_at.
FindOldest(files, expired) ==
  LET oldest == {f \in Live(files, expired) :
                   \A g \in Live(files, expired) : f.tok <= g.tok}
  IN  IF oldest = {} THEN NoPause ELSE CHOOSE f \in oldest : TRUE

\* find_latest: the newest file that is not expired, if there is one.
FindLatest(files, expired) ==
  LET newest == {f \in Live(files, expired) :
                   \A g \in Live(files, expired) : g.tok <= f.tok}
  IN  IF newest = {} THEN NoPause ELSE CHOOSE f \in newest : TRUE

\* Mutant: the file is left in place.
AbandonNothing(files, pause) == files

\* _abandon_paused_state: unlink(missing_ok=True).
Abandon(files, pause) == {f \in files : f.tok # pause.tok}
=============================================================================
