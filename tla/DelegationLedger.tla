--------------------------- MODULE DelegationLedger ---------------------------
(***************************************************************************)
(* What the delegation log promises: the comments in delegate_to_agent ask *)
(* for delegations.jsonl to stay one to one with the trace tree.  A        *)
(* delegation may open a trace, and one that did leaves the open state     *)
(* only by being recorded, once and for good, or by the death of its       *)
(* process.  Review calls stopped at a gate are recorded without a trace.  *)
(***************************************************************************)
CONSTANT Ids

VARIABLES
  open,  \* traced, not yet recorded, still running
  done,  \* recorded
  gone   \* traced and never recorded: the process died

Init == open = {} /\ done = {} /\ gone = {}

Open(d) ==
  /\ d \notin open \cup done \cup gone
  /\ open' = open \cup {d}
  /\ UNCHANGED <<done, gone>>

Record(d) ==
  /\ d \notin done \cup gone
  /\ done' = done \cup {d}
  /\ open' = open \ {d}
  /\ UNCHANGED gone

Lose(d) ==
  /\ d \in open
  /\ gone' = gone \cup {d}
  /\ open' = open \ {d}
  /\ UNCHANGED done

Next == \E d \in Ids : Open(d) \/ Record(d) \/ Lose(d)

Spec == Init /\ [][Next]_<<open, done, gone>>
=============================================================================
