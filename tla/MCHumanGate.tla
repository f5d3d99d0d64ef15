------------------------------ MODULE MCHumanGate ------------------------------
(***************************************************************************)
(* Small instances of HumanGate for TLC.                                   *)
(***************************************************************************)
EXTENDS HumanGate

\* Two delegations with files and context of their own, or with the same.
OwnCoders == <<[first |-> 1, rerun |-> 2], [first |-> 3, rerun |-> 4]>>
SameCoder == <<[first |-> 1, rerun |-> 2], [first |-> 1, rerun |-> 2]>>
=============================================================================
