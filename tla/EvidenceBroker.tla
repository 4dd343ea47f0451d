--------------------------- MODULE EvidenceBroker ---------------------------
(***************************************************************************)
(* One scoped evidence investigation: the broker (evidence_broker.py), its *)
(* read-only tools (evidence_sources.py) and the controller that asks for  *)
(* it (evidence_runtime.py).  The controller issues a scope to each role;  *)
(* hosted specialists call tools under it, possibly twice at a time; the   *)
(* controller verifies the receipts and closes the scopes, or revokes      *)
(* them.                                                                   *)
(*                                                                         *)
(* Every write replaces a scope under the etag it was read with, which is  *)
(* its revision here.  A call arrives with a genuine handle.  What a role  *)
(* must gather is a set of pieces: a call of each of its tools, and of the *)
(* analysing one for each document.                                        *)
(***************************************************************************)
EXTENDS Naturals, Sequences, FiniteSets

CONSTANTS
  Roles,      \* the specialists of a workflow pack, one scope each
  Callers,    \* concurrent tool calls; the gateway may duplicate one
  Controller, \* the controller, when it revokes a scope
  Evidence,   \* the pieces one role must gather
  NoPiece,
  MaxCalls,   \* calls of one scope; 6 in the code
  MaxTries,   \* attempts at marking a scope failed; 3 in the code
  MaxSource,  \* bound: versions of the registry
  MaxFaults   \* bound: crashes, failing calls of the store, wrong arguments

ASSUME BrokerAssumption ==
  /\ Controller \notin Callers /\ NoPiece \notin Evidence
  /\ MaxCalls \in Nat /\ MaxTries \in Nat \ {0}
  /\ MaxSource \in Nat /\ MaxFaults \in Nat

VARIABLES
  scope,    \* scope[r]: the scope document of role r
  source,   \* the version of the registry
  expired,  \* the five minutes of the binding are over
  k,        \* the investigation of the controller
  w,        \* w[c]: the tool call c, or a revocation by the controller
  faults    \* faults so far

vars == <<scope, source, expired, k, w, faults>>

-----------------------------------------------------------------------------
States == {"none", "active", "calling", "failed", "closed"}
Ended  == {"failed", "closed"}

\* seen: the version of the registry when the tool finished.
Receipts == [piece : Evidence, seen : Nat]
Scopes   == [state : States, calls : 0..MaxCalls, receipts : Seq(Receipts), rev : Nat]

\* bound: the version the binding was issued for; report: how many receipts of
\* each role the specialists name; held: the revisions verified by finish.
Controllers ==
  [pc : {"idle", "team", "verify", "close", "check", "abort", "accepted", "refused"},
   bound : Nat, report : [Roles -> Nat], held : [Roles -> Nat], todo : SUBSET Roles]

Workers == Callers \cup {Controller}

Calls ==
  [pc : {"reserve", "readback", "tool", "publish", "fail", "revoke"}, role : Roles,
   piece : Evidence \cup {NoPiece}, rev : Nat, seen : Nat, tries : 0..MaxTries]

NoCall == [pc |-> "idle"]

Called(pc, r, e, rev) == [pc |-> pc, role |-> r, piece |-> e, rev |-> rev, seen |-> 0, tries |-> 0]

TypeOK ==
  /\ scope \in [Roles -> Scopes]
  /\ \A r \in Roles : Len(scope[r].receipts) <= scope[r].calls
  /\ source \in Nat /\ expired \in BOOLEAN
  /\ k \in Controllers
  /\ w \in [Workers -> Calls \cup {NoCall}]
  /\ faults \in Nat

Init ==
  /\ scope = [r \in Roles |-> [state |-> "none", calls |-> 0, receipts |-> <<>>, rev |-> 0]]
  /\ source = 1 /\ expired = FALSE
  /\ k = [pc |-> "idle", bound |-> 0, report |-> [r \in Roles |-> 0],
          held |-> [r \in Roles |-> 0], todo |-> {}]
  /\ w = [c \in Workers |-> NoCall]
  /\ faults = 0

-----------------------------------------------------------------------------
(* The registry, the clock and the store.                                  *)

\* While the binding is of use: before it nothing depends on them, and after it
\* a tool that is still running may fail as well without them.
Binding == k.pc \in {"team", "verify", "close", "check"}

\* A new registry file, under a version never used before.
SourceChanges ==
  /\ Binding
  /\ source < MaxSource
  /\ source' = source + 1
  /\ UNCHANGED <<scope, expired, k, w, faults>>

Expires ==
  /\ Binding /\ ~expired
  /\ expired' = TRUE
  /\ UNCHANGED <<scope, source, k, w, faults>>

\* Mutant: the scope is replaced whatever is stored.
CurrentAnyway(r, rev) == TRUE

\* The etag a replacement is made under is the stored one.
IsCurrent(r, rev) == scope[r].rev = rev

Replaced(r, new) == [scope EXCEPT ![r] = [new EXCEPT !.rev = @ + 1]]

Reserved(r)    == Replaced(r, [scope[r] EXCEPT !.state = "calling", !.calls = @ + 1])
Failed(r)      == Replaced(r, [scope[r] EXCEPT !.state = "failed"])
Published(r, x) ==
  Replaced(r, [scope[r] EXCEPT !.state = "active", !.receipts = Append(@, x)])

Closed == [r \in Roles |-> [scope[r] EXCEPT !.state = "closed", !.rev = @ + 1]]

-----------------------------------------------------------------------------
(* A tool call.                                                            *)

Goes(c, pc) == w' = [w EXCEPT ![c].pc = pc]
Ends(c)     == w' = [w EXCEPT ![c] = NoCall]
Denied(c)   == w' = [w EXCEPT ![c] = Called("fail", w[c].role, NoPiece, 0)]

Fault == faults < MaxFaults /\ faults' = faults + 1

Available(r) ==
  /\ scope[r].state = "active" /\ ~expired
  /\ scope[r].calls < MaxCalls

Call(c, r, e) ==
  /\ w[c].pc = "idle" /\ scope[r].state # "none"
  /\ Available(r)
  /\ w' = [w EXCEPT ![c] = Called("reserve", r, e, scope[r].rev)]
  /\ UNCHANGED <<scope, source, expired, k, faults>>

\* The scope is not available, or the arguments are outside it.
Deny(c, r) ==
  /\ w[c].pc = "idle" /\ scope[r].state \notin {"none"} \cup Ended
  /\ IF Available(r) THEN Fault ELSE UNCHANGED faults
  /\ w' = [w EXCEPT ![c] = Called("fail", r, NoPiece, 0)]
  /\ UNCHANGED <<scope, source, expired, k>>

Reserve(c) ==
  LET r == w[c].role IN
  /\ w[c].pc = "reserve"
  /\ IF IsCurrent(r, w[c].rev) THEN scope' = Reserved(r) /\ Goes(c, "readback")
                               ELSE UNCHANGED scope /\ Denied(c)
  /\ UNCHANGED <<source, expired, k, faults>>

\* Mutant: the reservation is taken for granted.
StillReservedOrNot(r) == TRUE

\* The reservation was not revoked before it was read back.
StillReserved(r) == scope[r].state = "calling"

ReadBack(c) ==
  LET r == w[c].role IN
  /\ w[c].pc = "readback"
  /\ IF StillReserved(r) THEN w' = [w EXCEPT ![c].pc = "tool", ![c].rev = scope[r].rev]
                         ELSE Denied(c)
  /\ UNCHANGED <<scope, source, expired, k, faults>>

\* The tool looks at the registry before it reads and after; it may always fail.
RunTool(c) ==
  /\ w[c].pc = "tool"
  /\ \/ /\ source = k.bound /\ ~expired
        /\ w' = [w EXCEPT ![c].pc = "publish", ![c].seen = source]
     \/ Denied(c)
  /\ UNCHANGED <<scope, source, expired, k, faults>>

Receipt(c) == [piece |-> w[c].piece, seen |-> w[c].seen]

Publish(c) ==
  LET r == w[c].role IN
  /\ w[c].pc = "publish"
  /\ IF IsCurrent(r, w[c].rev) THEN scope' = Published(r, Receipt(c)) /\ Ends(c)
                               ELSE UNCHANGED scope /\ Denied(c)
  /\ UNCHANGED <<source, expired, k, faults>>

\* _fail: read the scope, mark it failed, three times at most.
FailReads(c) ==
  LET r == w[c].role IN
  /\ w[c].pc = "fail"
  /\ IF scope[r].state \in Ended THEN Ends(c)
     ELSE w' = [w EXCEPT ![c].pc = "revoke", ![c].rev = scope[r].rev, ![c].tries = @ + 1]
  /\ UNCHANGED <<scope, source, expired, k, faults>>

FailWrites(c) ==
  LET r == w[c].role IN
  /\ w[c].pc = "revoke"
  /\ \/ IsCurrent(r, w[c].rev) /\ scope' = Failed(r) /\ Ends(c)
     \/ /\ ~IsCurrent(r, w[c].rev) /\ UNCHANGED scope
        /\ IF w[c].tries < MaxTries THEN Goes(c, "fail") ELSE Ends(c)
  /\ UNCHANGED <<source, expired, k, faults>>

\* The call is cut off, or a call of the store fails after it was applied or
\* before: the scope is marked failed, unless that is what failed.
CallFails(c) ==
  LET r == w[c].role IN
  /\ Fault
  /\ w[c].pc # "idle"
  /\ IF w[c].pc \in {"fail", "revoke"} THEN Ends(c) ELSE Denied(c) \/ Ends(c)
  /\ \/ UNCHANGED scope
     \/ /\ IsCurrent(r, w[c].rev)
        /\ \/ w[c].pc = "reserve" /\ scope' = Reserved(r)
           \/ w[c].pc = "publish" /\ scope' = Published(r, Receipt(c))
           \/ w[c].pc = "revoke" /\ scope' = Failed(r)
  /\ UNCHANGED <<source, expired, k>>

-----------------------------------------------------------------------------
(* The controller.                                                         *)

None == [r \in Roles |-> 0]

Aborting == [k EXCEPT !.pc = "abort", !.todo = Roles, !.report = None, !.held = None]

Issue ==
  /\ k.pc = "idle"
  /\ scope' = [r \in Roles |-> [scope[r] EXCEPT !.state = "active", !.rev = 1]]
  /\ k' = [k EXCEPT !.pc = "team", !.bound = source]
  /\ UNCHANGED <<source, expired, w, faults>>

\* The specialists report the receipts they have, in time, or anything else.
Report ==
  /\ k.pc = "team"
  /\ \/ /\ ~expired
        /\ k' = [k EXCEPT !.pc = "verify", !.todo = Roles,
                          !.report = [r \in Roles |-> Len(scope[r].receipts)]]
     \/ k' = Aborting
  /\ UNCHANGED <<scope, source, expired, w, faults>>

Gathered(r) == {scope[r].receipts[i].piece : i \in DOMAIN scope[r].receipts}

\* Mutant: some evidence is enough.
CompleteAnyway(r) == scope[r].receipts # <<>> /\ Len(scope[r].receipts) = k.report[r]

\* The receipts named are the ones on record, some, and all that is mandatory.
Complete(r) ==
  /\ scope[r].receipts # <<>> /\ Len(scope[r].receipts) = k.report[r]
  /\ Gathered(r) = Evidence

Verify(r) ==
  /\ k.pc = "verify" /\ r \in k.todo
  /\ k' = IF scope[r].state = "active" /\ Complete(r)
          THEN [k EXCEPT !.held[r] = scope[r].rev, !.todo = @ \ {r},
                         !.pc = IF @ = "verify" /\ k.todo = {r} THEN "close" ELSE @]
          ELSE Aborting
  /\ UNCHANGED <<scope, source, expired, w, faults>>

\* Both scopes are closed in one batch, or neither.
Close ==
  /\ k.pc = "close"
  /\ IF \A r \in Roles : IsCurrent(r, k.held[r])
     THEN scope' = Closed /\ k' = [k EXCEPT !.pc = "check", !.report = None, !.held = None]
     ELSE UNCHANGED scope /\ k' = Aborting
  /\ UNCHANGED <<source, expired, w, faults>>

\* The registry is still the one the binding was issued for.
SourceIsCurrent == source = k.bound

Check ==
  /\ k.pc = "check"
  /\ k' = IF SourceIsCurrent /\ ~expired THEN [k EXCEPT !.pc = "accepted"] ELSE Aborting
  /\ UNCHANGED <<scope, source, expired, w, faults>>

\* abort: one role after the other is marked failed.
Abort(r) ==
  /\ k.pc = "abort" /\ r \in k.todo
  /\ w[Controller].pc = "idle"
  /\ \A x \in Roles \ k.todo : scope[x].state \in Ended
  /\ k' = [k EXCEPT !.todo = @ \ {r}]
  /\ w' = [w EXCEPT ![Controller] = Called("fail", r, NoPiece, 0)]
  /\ UNCHANGED <<scope, source, expired, faults>>

\* All are, or one cannot be.
AbortEnds ==
  /\ k.pc = "abort"
  /\ w[Controller].pc = "idle"
  /\ k.todo = {} \/ \E x \in Roles \ k.todo : scope[x].state \notin Ended
  /\ k' = [k EXCEPT !.pc = "refused"]
  /\ UNCHANGED <<scope, source, expired, w, faults>>

\* The controller dies, or a call of the store fails after it was applied or
\* before, and the scopes are revoked.
ControllerFails ==
  /\ Fault
  /\ Binding
  /\ k' \in {Aborting, [k EXCEPT !.pc = "refused"]}
  /\ \/ UNCHANGED scope
     \/ k.pc = "close" /\ (\A r \in Roles : IsCurrent(r, k.held[r])) /\ scope' = Closed
  /\ UNCHANGED <<source, expired, w>>

Calling(c) ==
  \/ Reserve(c) \/ ReadBack(c) \/ RunTool(c) \/ Publish(c)
  \/ FailReads(c) \/ FailWrites(c) \/ CallFails(c)

Next ==
  \/ SourceChanges \/ Expires
  \/ \E c \in Callers, r \in Roles : Deny(c, r) \/ \E e \in Evidence : Call(c, r, e)
  \/ \E c \in Workers : Calling(c)
  \/ Issue \/ Report \/ Close \/ Check
  \/ \E r \in Roles : Verify(r) \/ Abort(r)
  \/ AbortEnds \/ ControllerFails

Spec == Init /\ [][Next]_vars

-----------------------------------------------------------------------------
(* Properties.                                                             *)

\* Evidence is used only when it is whole and current: at that moment both
\* scopes are closed, every mandatory piece is there, and every receipt was
\* taken under the registry that is in force, whatever calls were duplicated,
\* cut off or late.
AcceptedEvidenceIsWhole ==
  [][k.pc # "accepted" /\ k'.pc = "accepted" =>
       /\ ~expired
       /\ \A r \in Roles :
            /\ scope[r].state = "closed"
            /\ Gathered(r) = Evidence
            /\ \A i \in DOMAIN scope[r].receipts : scope[r].receipts[i].seen = source]_vars

\* Aborting is refusing, although the revocations may still be under way.
Verdict ==
  CASE k.pc = "idle" -> "none"
    [] k.pc \in {"abort", "refused"} -> "refused"
    [] k.pc = "accepted" -> "accepted"
    [] OTHER -> "open"

\* The broker, its tools and the controller only do what their permits allow: a
\* tool still running when its scope is revoked leaves no receipt, scopes are
\* closed together or not at all, and a refused investigation is never accepted.
Permit ==
  INSTANCE EvidencePermit WITH
    permit  <- [r \in Roles |-> scope[r].state],
    taken   <- [r \in Roles |-> Gathered(r)],
    verdict <- Verdict

ImplementsPermit == Permit!Spec

\* A scope runs one tool at a time, however often a call is delivered: the
\* scope is reserved for it and no other call holds a reservation.
OneToolAtATime ==
  \A c, d \in Callers :
    /\ w[c].pc \in {"tool", "publish"} => scope[w[c].role].state # "active"
    /\ w[c].pc \in {"tool", "publish"} /\ w[d].pc \in {"tool", "publish"}
         /\ w[c].role = w[d].role => c = d

=============================================================================
