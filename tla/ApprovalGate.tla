---------------------------- MODULE ApprovalGate ----------------------------
(***************************************************************************)
(* What a Contract Renewal Run promises to the person who approves it: one *)
(* final decision; after an approval, and only then, the N actions of the  *)
(* approved manifest take effect in order, none of them twice, until the   *)
(* Run is complete or has failed; after a failure nothing more happens.    *)
(***************************************************************************)
EXTENDS Naturals

CONSTANT N

VARIABLES
  decision,  \* "none", "approve" or "reject"
  done,      \* done[i]: times action i took effect
  outcome    \* "open", "complete" or "failed"

gateVars == <<decision, done, outcome>>

Init ==
  /\ decision = "none"
  /\ done = [i \in 1..N |-> 0]
  /\ outcome = "open"

Decide ==
  /\ decision = "none"
  /\ decision' \in {"approve", "reject"}
  /\ UNCHANGED <<done, outcome>>

Act(i) ==
  /\ decision = "approve" /\ outcome = "open"
  /\ done[i] = 0
  /\ \A j \in 1..(i - 1) : done[j] = 1
  /\ done' = [done EXCEPT ![i] = 1]
  /\ UNCHANGED <<decision, outcome>>

Complete ==
  /\ decision = "approve" /\ outcome = "open"
  /\ \A i \in 1..N : done[i] = 1
  /\ outcome' = "complete"
  /\ UNCHANGED <<decision, done>>

Fail ==
  /\ decision = "approve" /\ outcome = "open"
  /\ outcome' = "failed"
  /\ UNCHANGED <<decision, done>>

Next == Decide \/ (\E i \in 1..N : Act(i)) \/ Complete \/ Fail

Spec == Init /\ [][Next]_gateVars

=============================================================================
