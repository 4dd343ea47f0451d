--------------------------- MODULE EvidencePermit ---------------------------
(***************************************************************************)
(* What a scoped investigation promises to whoever asked for the evidence: *)
(* each role gets one permit; it is in use by one tool at a time, which    *)
(* leaves one piece of evidence, and once it ended it is never used again; *)
(* and evidence is accepted only after the permits were closed together,   *)
(* with everything gathered.  After a refusal nothing can be accepted,     *)
(* although a permit may outlive it.                                       *)
(***************************************************************************)
CONSTANTS Roles, Evidence

VARIABLES
  permit,   \* permit[r]: "none", "active", "calling", "failed" or "closed"
  taken,    \* taken[r]: the evidence gathered under it
  verdict   \* "none", "open", "refused" or "accepted"

permitVars == <<permit, taken, verdict>>

Init ==
  /\ permit = [r \in Roles |-> "none"]
  /\ taken = [r \in Roles |-> {}]
  /\ verdict = "none"

Issue ==
  /\ verdict = "none" /\ verdict' = "open"
  /\ permit = [r \in Roles |-> "none"] /\ permit' = [r \in Roles |-> "active"]
  /\ UNCHANGED taken

Moves(r, from, to) == permit[r] \in from /\ permit' = [permit EXCEPT ![r] = to]

Use(r) == Moves(r, {"active"}, "calling") /\ UNCHANGED <<taken, verdict>>

Gather(r) ==
  /\ Moves(r, {"calling"}, "active")
  /\ \E e \in Evidence : taken' = [taken EXCEPT ![r] = @ \cup {e}]
  /\ UNCHANGED verdict

Revoke(r) == Moves(r, {"active", "calling"}, "failed") /\ UNCHANGED <<taken, verdict>>

Refuse == verdict = "open" /\ verdict' = "refused" /\ UNCHANGED <<permit, taken>>

\* All permits at once, complete; the one who closes them may fail over it.
Close ==
  /\ verdict = "open" /\ verdict' \in {"open", "refused"}
  /\ permit = [r \in Roles |-> "active"] /\ permit' = [r \in Roles |-> "closed"]
  /\ taken = [r \in Roles |-> Evidence]
  /\ UNCHANGED taken

Accept ==
  /\ verdict = "open" /\ verdict' = "accepted"
  /\ permit = [r \in Roles |-> "closed"] /\ taken = [r \in Roles |-> Evidence]
  /\ UNCHANGED <<permit, taken>>

Next ==
  \/ Issue \/ Refuse \/ Close \/ Accept
  \/ \E r \in Roles : Use(r) \/ Gather(r) \/ Revoke(r)

Spec == Init /\ [][Next]_permitVars

=============================================================================
