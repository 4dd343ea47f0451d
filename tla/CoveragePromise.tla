--------------------------- MODULE CoveragePromise ---------------------------
(***************************************************************************)
(* What Service Coverage Renewal promises to a customer, to the two        *)
(* reviewers and to the accounts: a confirmed request is prepared once, by *)
(* itself; it is held, or goes to Operations and then to the Manager; only *)
(* after both approved is it executed; it is issued at most one invoice    *)
(* number, which no other request has; and it is complete only with one.   *)
(***************************************************************************)
EXTENDS Naturals

CONSTANTS Requests, Numbers

VARIABLES
  stage,    \* stage[r]: whose turn it is, or how the request ended
  invoice   \* invoice[r]: the invoice number issued for request r, or 0

promiseVars == <<stage, invoice>>

Init ==
  /\ stage = [r \in Requests |-> "none"]
  /\ invoice = [r \in Requests |-> 0]

Moves(r, from, to) ==
  /\ stage[r] = from
  /\ stage' = [stage EXCEPT ![r] = to]
  /\ UNCHANGED invoice

Ask(r)               == Moves(r, "none", "preparing")
Hold(r)              == Moves(r, "preparing", "held")
Submit(r)            == Moves(r, "preparing", "operations")
OperationsDecides(r) == \E to \in {"manager", "rejected"} : Moves(r, "operations", to)
ManagerDecides(r)    == \E to \in {"approved", "rejected"} : Moves(r, "manager", to)
Execute(r)           == Moves(r, "approved", "executing")

Issue(r, n) ==
  /\ stage[r] = "executing" /\ invoice[r] = 0
  /\ \A s \in Requests : invoice[s] # n
  /\ invoice' = [invoice EXCEPT ![r] = n]
  /\ UNCHANGED stage

Complete(r) == invoice[r] # 0 /\ Moves(r, "executing", "completed")

Next ==
  \E r \in Requests :
    \/ Ask(r) \/ Hold(r) \/ Submit(r) \/ OperationsDecides(r) \/ ManagerDecides(r)
    \/ Execute(r) \/ (\E n \in Numbers : Issue(r, n)) \/ Complete(r)

Spec == Init /\ [][Next]_promiseVars

=============================================================================
