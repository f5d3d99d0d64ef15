----------------------------- MODULE MCDelegation -----------------------------
(***************************************************************************)
(* Small instances of Delegation for TLC.                                  *)
(***************************************************************************)
EXTENDS Delegation, TLC

CONSTANTS server, cli

AllFaults  == FaultStages
NoFaults   == {}
LateFaults == {"pause_save", "postloop", "touch", "after_record"}
TouchFault == {"touch"}
OneProc   == {server}
TwoProcs  == {server, cli}

\* The processes are interchangeable: each has its own agent and shares the disk.
ProcSymmetry == Permutations(TwoProcs)
=============================================================================
