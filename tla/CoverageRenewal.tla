-------------------------- MODULE CoverageRenewal --------------------------
(***************************************************************************)
(* Service Coverage Renewal: the controller and its table                  *)
(* (coverage_controller.py, coverage_renewal.py), the customer's start     *)
(* (coverage_customer.py), the two reviewers (coverage_review.py), the     *)
(* store with its snapshots and invoice numbers (coverage_store.py), the   *)
(* executor and the loop that runs it (coverage_executor.py,               *)
(* coverage_runner.py).                                                    *)
(*                                                                         *)
(* Snapshots are replaced under an etag; the receipt and the number        *)
(* reservations are create-only documents that no etag ties to them.       *)
(* Every read, every commit and every call is a step of its own.           *)
(*                                                                         *)
(* A request drafts one package in its life, so a record says only whether *)
(* the package is frozen; note, reason and time of a decision are left     *)
(* out, and so is a command that restates the hash of another package.     *)
(***************************************************************************)
EXTENDS Naturals, FiniteSets

CONSTANTS
  Requests,    \* renewal requests (message identifiers of customers)
  Clients,     \* concurrent handlers of customers' and reviewers' calls
  Runners,     \* execution loops: one per replica, two while one replaces another
  MaxNumber,   \* last invoice number of the year; 99999 in the code
  MaxTaken,    \* bound: numbers the year's other renewals took before these
  MaxTries,    \* attempts of allocate_next_invoice; 5 in the code
  MaxInputs,   \* bound: confirmations, decisions and retries
  MaxRetries,  \* bound: calls of retry, which no route mounts
  MaxCrashes   \* bound: handlers cut off between two steps

Procs == Clients \cup Runners

ASSUME CoverageAssumption ==
  /\ Requests # {} /\ Clients \cap Runners = {}
  /\ MaxNumber \in Nat \ {0} /\ MaxTaken \in 0..MaxNumber
  /\ MaxTries \in Nat \ {0}
  /\ MaxInputs \in Nat /\ MaxRetries \in Nat /\ MaxCrashes \in Nat

VARIABLES
  rec,       \* rec[r]: the snapshot document of request r
  receipt,   \* receipt[r]: the invoice number in its execution document, or 0
  counter,   \* the counter document of the year: its value + 1, 0 if absent
  reserved,  \* reserved[r]: the number documents created for request r
  blobs,     \* the artifacts stored: <<request, kind, invoice number>>
  h,         \* h[p]: what handler p is doing
  inputs,    \* inputs so far
  retries,   \* calls of retry so far
  crashes    \* crashes so far

stored == <<rec, receipt, counter, reserved, blobs>>
counts == <<inputs, retries, crashes>>
vars == <<stored, h, counts>>

-----------------------------------------------------------------------------
States ==
  {"ABSENT", "CUSTOMER_REQUESTED", "EVIDENCE_ASSEMBLING", "ELIGIBILITY_VERIFIED",
   "PACKAGE_DRAFTED", "AWAITING_OPERATIONS_APPROVAL", "OPERATIONS_APPROVED",
   "AWAITING_MANAGER_APPROVAL", "MANAGER_APPROVED", "EXECUTING", "COMPLETED",
   "EVIDENCE_HOLD", "OPERATIONS_REJECTED", "MANAGER_REJECTED", "EXECUTION_FAILED"}

Reviewers == {"operations", "manager"}   \* the two configured identities
Kinds     == {"certificate", "invoice"}
Numbers   == 1..MaxNumber

Verbs     == {"none", "approve", "reject"}
Decisions == [verb : Verbs, by : Reviewers \cup {"nobody"}]
Undecided == [verb |-> "none", by |-> "nobody"]

Records ==
  [rev : Nat, state : States, package : BOOLEAN, ops : Decisions, mgr : Decisions]

NoRecord ==
  [rev |-> 0, state |-> "ABSENT", package |-> FALSE, ops |-> Undecided, mgr |-> Undecided]

\* The transition table; nobody cancels a request or reopens a held one.
Table ==
  {<<"CUSTOMER_REQUESTED", "EVIDENCE_ASSEMBLING">>,
   <<"EVIDENCE_ASSEMBLING", "ELIGIBILITY_VERIFIED">>,
   <<"EVIDENCE_ASSEMBLING", "EVIDENCE_HOLD">>,
   <<"ELIGIBILITY_VERIFIED", "PACKAGE_DRAFTED">>,
   <<"ELIGIBILITY_VERIFIED", "EVIDENCE_HOLD">>,
   <<"PACKAGE_DRAFTED", "AWAITING_OPERATIONS_APPROVAL">>,
   <<"PACKAGE_DRAFTED", "EVIDENCE_HOLD">>,
   <<"AWAITING_OPERATIONS_APPROVAL", "OPERATIONS_APPROVED">>,
   <<"AWAITING_OPERATIONS_APPROVAL", "OPERATIONS_REJECTED">>,
   <<"OPERATIONS_APPROVED", "AWAITING_MANAGER_APPROVAL">>,
   <<"AWAITING_MANAGER_APPROVAL", "MANAGER_APPROVED">>,
   <<"AWAITING_MANAGER_APPROVAL", "MANAGER_REJECTED">>,
   <<"MANAGER_APPROVED", "EXECUTING">>,
   <<"EXECUTING", "COMPLETED">>,
   <<"EXECUTING", "EXECUTION_FAILED">>,
   <<"EXECUTION_FAILED", "EXECUTING">>,
   <<"EVIDENCE_HOLD", "EVIDENCE_ASSEMBLING">>}

\* read and commit: the two halves of advancing the record to target on behalf
\* of by; raised: verify_eligibility raised; from execute on, the calls of the
\* executor in its order.
Labels ==
  {"idle", "create", "investigate", "read", "commit", "raised", "execute", "lookup",
   "allocate", "reserve", "write_certificate", "write_invoice", "publish"}

Handlers ==
  [pc : Labels, req : Requests, snap : Records, target : States,
   by : Reviewers \cup {"nobody", "runner", "retry"},
   number : 0..MaxNumber, tries : 0..MaxTries]

\* A handler that does nothing keeps no field that matters.
Resting(r) ==
  [pc |-> "idle", req |-> r, snap |-> NoRecord, target |-> "ABSENT",
   by |-> "nobody", number |-> 0, tries |-> 0]

AnyRequest == CHOOSE r \in Requests : TRUE

TypeOK ==
  /\ rec \in [Requests -> Records]
  /\ receipt \in [Requests -> 0..MaxNumber]
  /\ counter \in 0..(MaxNumber + 1)
  /\ reserved \in [Requests -> SUBSET Numbers]
  /\ blobs \in SUBSET (Requests \X Kinds \X Numbers)
  /\ h \in [Procs -> Handlers]
  /\ inputs \in Nat /\ retries \in Nat /\ crashes \in Nat

Init ==
  /\ rec = [r \in Requests |-> NoRecord]
  /\ receipt = [r \in Requests |-> 0]
  /\ counter \in {0} \cup {n + 1 : n \in 1..MaxTaken}
  /\ reserved = [r \in Requests |-> {}]
  /\ blobs = {}
  /\ h = [p \in Procs |-> Resting(AnyRequest)]
  /\ inputs = 0 /\ retries = 0 /\ crashes = 0

-----------------------------------------------------------------------------
(* Guards of the code, over a snapshot s.                                  *)

\* _authorized and approvals_authorize_execution: both approved the package,
\* and they are two people.
Authorized(s) ==
  /\ s.package
  /\ s.ops.verb = "approve" /\ s.mgr.verb = "approve"
  /\ s.ops.by # s.mgr.by

\* Mutant: the reviewer's identity is not compared with the configured ones.
MayAdvanceAnyone(s, target, by) ==
  CASE target \in {"OPERATIONS_APPROVED", "OPERATIONS_REJECTED",
                   "MANAGER_APPROVED", "MANAGER_REJECTED"} ->
         s.package /\ <<s.state, target>> \in Table
    [] target = "EXECUTING" -> s.state \in {"MANAGER_APPROVED", "EXECUTION_FAILED"}
    [] target = "COMPLETED" -> TRUE
    [] OTHER -> <<s.state, target>> \in Table

\* What the caller checks of the record it read before it commits target.  The
\* executor's own COMPLETED commit checks nothing.
MayAdvance(s, target, by) ==
  CASE target \in {"OPERATIONS_APPROVED", "OPERATIONS_REJECTED"} ->
         by = "operations" /\ s.package /\ <<s.state, target>> \in Table
    [] target \in {"MANAGER_APPROVED", "MANAGER_REJECTED"} ->
         /\ by = "manager" /\ s.package /\ <<s.state, target>> \in Table
         /\ s.ops.verb # "none" /\ by # s.ops.by
    [] target = "EXECUTING" ->
         /\ Authorized(s)
         /\ s.state = IF by = "runner" THEN "MANAGER_APPROVED" ELSE "EXECUTION_FAILED"
    [] target = "COMPLETED" -> TRUE
    [] OTHER -> <<s.state, target>> \in Table

\* The record stored for target: a decision is stored with its verb and actor.
Advanced(s, target, by) ==
  LET verb == IF target \in {"OPERATIONS_APPROVED", "MANAGER_APPROVED"}
                THEN "approve" ELSE "reject"
      moved == [s EXCEPT !.rev = @ + 1, !.state = target]
  IN CASE target = "PACKAGE_DRAFTED" -> [moved EXCEPT !.package = TRUE]
       [] target \in {"OPERATIONS_APPROVED", "OPERATIONS_REJECTED"} ->
            [moved EXCEPT !.ops = [verb |-> verb, by |-> by]]
       [] target \in {"MANAGER_APPROVED", "MANAGER_REJECTED"} ->
            [moved EXCEPT !.mgr = [verb |-> verb, by |-> by]]
       [] OTHER -> moved

-----------------------------------------------------------------------------
(* The handlers' bookkeeping.                                              *)

At(p, label) == h[p].pc = label

Become(p, new) == h' = [h EXCEPT ![p] = new]

Ends(p) == Become(p, Resting(AnyRequest))

GoesTo(p, label) == Become(p, [h[p] EXCEPT !.pc = label])

\* The next thing p does is read the record to advance it to target.
WillAdvance(p, target) ==
  Become(p, [Resting(h[p].req) EXCEPT !.pc = "read", !.target = target])

\* A call raised something that is not a Conflict: _fail.
Fails(p) == WillAdvance(p, "EXECUTION_FAILED")

\* A call was applied: its reply arrives, or is lost and the caller fails.
RepliesWith(p, label) ==
  Become(p, [h[p] EXCEPT !.pc = label, !.tries = 0]) \/ Fails(p)

Begins(p, new) ==
  /\ At(p, "idle") /\ inputs < MaxInputs
  /\ inputs' = inputs + 1
  /\ Become(p, new)
  /\ UNCHANGED <<stored, crashes>>

-----------------------------------------------------------------------------
(* Calls from outside.                                                     *)

\* The customer confirms: a request that exists is only reported on.
Confirm(p, r) ==
  /\ rec[r].state = "ABSENT"
  /\ Begins(p, [Resting(r) EXCEPT !.pc = "create"])
  /\ UNCHANGED retries

\* A reviewer decides.  A command equal to the recorded decision is acknowledged
\* and any other is refused once the state has moved on.
Decide(p, r, by, target) ==
  /\ rec[r].package
  /\ Begins(p, [Resting(r) EXCEPT !.pc = "read", !.target = target, !.by = by])
  /\ UNCHANGED retries

Retry(p, r) ==
  /\ retries < MaxRetries /\ retries' = retries + 1
  /\ rec[r].state = "EXECUTION_FAILED"
  /\ Begins(p, [Resting(r) EXCEPT !.pc = "read", !.target = "EXECUTING", !.by = "retry"])

\* The loop lists the renewals and takes up one that is approved or executing.
RunnerPicks(p, r) ==
  /\ p \in Runners /\ At(p, "idle")
  /\ \/ /\ rec[r].state = "MANAGER_APPROVED"
        /\ Become(p, [Resting(r) EXCEPT !.pc = "read", !.target = "EXECUTING", !.by = "runner"])
     \/ /\ rec[r].state = "EXECUTING"
        /\ Become(p, [Resting(r) EXCEPT !.pc = "execute"])
  /\ UNCHANGED <<stored, counts>>

-----------------------------------------------------------------------------
(* The controller.                                                         *)

\* store.create: only the first of two confirmations creates the request.
Create(p) ==
  LET r == h[p].req IN
  /\ At(p, "create")
  /\ IF rec[r].state = "ABSENT"
       THEN /\ rec' = [rec EXCEPT ![r] = [NoRecord EXCEPT !.rev = 1, !.state = "CUSTOMER_REQUESTED"]]
            /\ WillAdvance(p, "EVIDENCE_ASSEMBLING")
       ELSE UNCHANGED rec /\ Ends(p)
  /\ UNCHANGED <<receipt, counter, reserved, blobs, counts>>

\* Mutant: a failing investigation is not put on hold.
InvestigateUnheld(p) ==
  /\ At(p, "investigate")
  /\ WillAdvance(p, "ELIGIBILITY_VERIFIED") \/ Ends(p)
  /\ UNCHANGED <<stored, counts>>

\* The investigator fails, or eligibility is decided from the trusted sources.
Investigate(p) ==
  /\ At(p, "investigate")
  /\ WillAdvance(p, "ELIGIBILITY_VERIFIED") \/ WillAdvance(p, "EVIDENCE_HOLD")
  /\ UNCHANGED <<stored, counts>>

\* verify_eligibility is called outside the try that holds a failing
\* investigation.  What it raises, reading the sources (before it commits
\* ELIGIBILITY_VERIFIED) or drafting the package (before PACKAGE_DRAFTED), goes to
\* the customer's call, and the record stays where it is.
VerificationRaises(p) ==
  /\ At(p, "read")
  /\ h[p].target \in {"ELIGIBILITY_VERIFIED", "PACKAGE_DRAFTED"}
  /\ Become(p, [Resting(h[p].req) EXCEPT !.pc = "raised"])
  /\ UNCHANGED <<stored, counts>>

Raised(p) ==
  /\ At(p, "raised")
  /\ Ends(p)
  /\ UNCHANGED <<stored, counts>>

\* store.get, then the checks; a refusal ends the call.
Read(p) ==
  LET s == rec[h[p].req] IN
  /\ At(p, "read")
  /\ IF MayAdvance(s, h[p].target, h[p].by)
       THEN Become(p, [h[p] EXCEPT !.pc = "commit", !.snap = s])
       ELSE Ends(p)
  /\ UNCHANGED <<stored, counts>>

\* What the call does after a commit.
Follows(p) ==
  CASE h[p].target = "EVIDENCE_ASSEMBLING" ->
         Become(p, [Resting(h[p].req) EXCEPT !.pc = "investigate"])
    [] h[p].target = "ELIGIBILITY_VERIFIED" -> WillAdvance(p, "PACKAGE_DRAFTED")
    [] h[p].target = "PACKAGE_DRAFTED" -> WillAdvance(p, "AWAITING_OPERATIONS_APPROVAL")
    [] h[p].target = "OPERATIONS_APPROVED" -> WillAdvance(p, "AWAITING_MANAGER_APPROVAL")
    [] h[p].target = "EXECUTING" -> Become(p, [Resting(h[p].req) EXCEPT !.pc = "execute"])
    [] OTHER -> Ends(p)

\* Mutant: the snapshot is replaced whatever its etag.
Overwrites(p) ==
  rec' = [rec EXCEPT ![h[p].req] = Advanced(h[p].snap, h[p].target, h[p].by)]

\* store.commit: the etag must still be the one that was read.
Replaces(p) ==
  /\ rec[h[p].req].rev = h[p].snap.rev
  /\ rec' = [rec EXCEPT ![h[p].req] = Advanced(h[p].snap, h[p].target, h[p].by)]

Commit(p) ==
  /\ At(p, "commit")
  /\ Replaces(p)
  /\ Follows(p)
  /\ UNCHANGED <<receipt, counter, reserved, blobs, counts>>

\* Conflict goes to the caller: nothing is undone.
CommitConflict(p) ==
  /\ At(p, "commit")
  /\ rec[h[p].req].rev # h[p].snap.rev
  /\ Ends(p)
  /\ UNCHANGED <<stored, counts>>

-----------------------------------------------------------------------------
(* The executor.                                                           *)

Execute(p) ==
  LET s == rec[h[p].req] IN
  /\ At(p, "execute")
  /\ IF s.state = "EXECUTING" /\ Authorized(s) THEN GoesTo(p, "lookup") ELSE Ends(p)
  /\ UNCHANGED <<stored, counts>>

\* An execution on record is returned as it is.
Lookup(p) ==
  /\ At(p, "lookup")
  /\ IF receipt[h[p].req] # 0 THEN Ends(p) ELSE GoesTo(p, "allocate")
  /\ UNCHANGED <<stored, counts>>

TriesAgain(p) ==
  IF h[p].tries + 1 < MaxTries
    THEN Become(p, [h[p] EXCEPT !.pc = "allocate", !.number = 0, !.tries = @ + 1])
    ELSE Ends(p)

\* Mutant: the year's numbers are not limited.
AllocateUnlimited(p) ==
  /\ At(p, "allocate")
  /\ IF counter = 0
       THEN counter' = 1 /\ (TriesAgain(p) \/ Fails(p))
       ELSE UNCHANGED counter /\ Become(p, [h[p] EXCEPT !.pc = "reserve", !.number = counter])
  /\ UNCHANGED <<rec, receipt, reserved, blobs, counts>>

\* allocate_next_invoice reads the counter and creates one that is missing; an
\* exhausted year raises Conflict, which does not fail the renewal.
Allocate(p) ==
  /\ At(p, "allocate")
  /\ IF counter = 0
       THEN counter' = 1 /\ (TriesAgain(p) \/ Fails(p))
       ELSE /\ UNCHANGED counter
            /\ IF counter > MaxNumber THEN Ends(p)
               ELSE Become(p, [h[p] EXCEPT !.pc = "reserve", !.number = counter])
  /\ UNCHANGED <<rec, receipt, reserved, blobs, counts>>

\* Mutant: the number is taken without comparing the counter or creating it.
ReservesBlindly(p) ==
  /\ counter' = h[p].number + 1
  /\ reserved' = [reserved EXCEPT ![h[p].req] = @ \cup {h[p].number}]

\* One batch: the counter must be the one read, the number document must not exist.
Reserves(p) ==
  /\ counter = h[p].number
  /\ \A r \in Requests : h[p].number \notin reserved[r]
  /\ counter' = h[p].number + 1
  /\ reserved' = [reserved EXCEPT ![h[p].req] = @ \cup {h[p].number}]

Reserve(p) ==
  /\ At(p, "reserve")
  /\ Reserves(p)
  /\ RepliesWith(p, "write_certificate")
  /\ UNCHANGED <<rec, receipt, blobs, counts>>

ReserveConflict(p) ==
  /\ At(p, "reserve")
  /\ counter # h[p].number \/ \E r \in Requests : h[p].number \in reserved[r]
  /\ TriesAgain(p)
  /\ UNCHANGED <<stored, counts>>

Stores(p, kind) == blobs' = blobs \cup {<<h[p].req, kind, h[p].number>>}

WriteCertificate(p) ==
  /\ At(p, "write_certificate")
  /\ Stores(p, "certificate")
  /\ RepliesWith(p, "write_invoice")
  /\ UNCHANGED <<rec, receipt, counter, reserved, counts>>

\* Mutant: the receipt is published although the invoice was not stored.
WriteInvoiceUnchecked(p) ==
  /\ At(p, "write_invoice")
  /\ Stores(p, "invoice") \/ UNCHANGED blobs
  /\ RepliesWith(p, "publish")
  /\ UNCHANGED <<rec, receipt, counter, reserved, counts>>

WriteInvoice(p) ==
  /\ At(p, "write_invoice")
  /\ Stores(p, "invoice")
  /\ RepliesWith(p, "publish")
  /\ UNCHANGED <<rec, receipt, counter, reserved, counts>>

\* Mutant: the receipt is upserted.
PublishOver(p) ==
  /\ At(p, "publish")
  /\ receipt' = [receipt EXCEPT ![h[p].req] = h[p].number]
  /\ WillAdvance(p, "COMPLETED") \/ Fails(p)
  /\ UNCHANGED <<rec, counter, reserved, blobs, counts>>

\* Mutant: a lost reply of create_execution does not fail the renewal.
PublishUnnoticed(p) ==
  /\ At(p, "publish")
  /\ IF receipt[h[p].req] = 0
       THEN /\ receipt' = [receipt EXCEPT ![h[p].req] = h[p].number]
            /\ WillAdvance(p, "COMPLETED") \/ Ends(p)
       ELSE UNCHANGED receipt /\ Ends(p)
  /\ UNCHANGED <<rec, counter, reserved, blobs, counts>>

\* create_execution: the receipt is create-only, and a second one a Conflict.
Publish(p) ==
  /\ At(p, "publish")
  /\ IF receipt[h[p].req] = 0
       THEN /\ receipt' = [receipt EXCEPT ![h[p].req] = h[p].number]
            /\ WillAdvance(p, "COMPLETED") \/ Fails(p)
       ELSE UNCHANGED receipt /\ Ends(p)
  /\ UNCHANGED <<rec, counter, reserved, blobs, counts>>

\* A store, storage or rendering error inside execute's try, nothing applied.
Raises(p) ==
  /\ h[p].pc \in {"allocate", "reserve", "write_certificate", "write_invoice", "publish"}
  /\ Fails(p)
  /\ UNCHANGED <<stored, counts>>

-----------------------------------------------------------------------------
\* The process dies, or a store error ends the call, at any point.
Crash(p) ==
  /\ ~At(p, "idle")
  /\ crashes < MaxCrashes /\ crashes' = crashes + 1
  /\ Ends(p)
  /\ UNCHANGED <<stored, inputs, retries>>

Calls(p) ==
  \E r \in Requests :
    \/ Confirm(p, r)
    \/ Retry(p, r)
    \/ \E by \in Reviewers :
         \/ Decide(p, r, by, "OPERATIONS_APPROVED")
         \/ Decide(p, r, by, "OPERATIONS_REJECTED")
         \/ Decide(p, r, by, "MANAGER_APPROVED")
         \/ Decide(p, r, by, "MANAGER_REJECTED")

\* What a running handler does next, without the outside world's help.
Continues(p) ==
  \/ Create(p) \/ Investigate(p) \/ VerificationRaises(p) \/ Raised(p)
  \/ Read(p) \/ Commit(p) \/ CommitConflict(p)
  \/ Execute(p) \/ Lookup(p) \/ Allocate(p) \/ Reserve(p) \/ ReserveConflict(p)
  \/ WriteCertificate(p) \/ WriteInvoice(p) \/ Publish(p) \/ Raises(p)

Next ==
  \/ \E p \in Clients : Calls(p)
  \/ \E p \in Runners, r \in Requests : RunnerPicks(p, r)
  \/ \E p \in Procs : Continues(p) \/ Crash(p)

Spec == Init /\ [][Next]_vars

\* Calls end (each has a timeout) and every scan of a loop visits each renewal;
\* nobody is obliged to confirm, to decide or to retry.
FairSpec ==
  /\ Spec
  /\ \A p \in Procs : WF_vars(Continues(p))
  /\ \A p \in Runners, r \in Requests : SF_vars(RunnerPicks(p, r))

-----------------------------------------------------------------------------
(* What must hold.                                                         *)

\* Nothing is numbered, stored or issued before the two configured people have
\* both approved: Operations first, the Manager after.
IssuedByTwoPeople ==
  \A r \in Requests :
    (reserved[r] # {} \/ receipt[r] # 0 \/ rec[r].state \in {"EXECUTING", "COMPLETED"}) =>
      /\ rec[r].ops = [verb |-> "approve", by |-> "operations"]
      /\ rec[r].mgr = [verb |-> "approve", by |-> "manager"]

\* An invoice number is never given out twice: not to two requests, and not to
\* two executors of one request that race on the counter.
NumbersNeverShared ==
  /\ \A r, s \in Requests : r # s => reserved[r] \cap reserved[s] = {}
  /\ \A p, q \in Procs :
       LET holding == {"write_certificate", "write_invoice", "publish"}
       IN p # q /\ h[p].pc \in holding /\ h[q].pc \in holding => h[p].number # h[q].number

\* A receipt names two stored files, and a completed renewal has a receipt: what
\* the customer is told to download is there.
IssuedDocumentsExist ==
  \A r \in Requests :
    /\ receipt[r] # 0 => \A kind \in Kinds : <<r, kind, receipt[r]>> \in blobs
    /\ rec[r].state = "COMPLETED" => receipt[r] # 0

\* A recorded decision and the package it froze are never overwritten, by a
\* second reviewer, a late commit or the executor.
DecisionsStand ==
  [][\A r \in Requests :
       /\ rec[r].ops.verb # "none" => rec'[r].ops = rec[r].ops /\ rec'[r].package
       /\ rec[r].mgr.verb # "none" => rec'[r].mgr = rec[r].mgr]_vars

\* A rejected or completed renewal stays so: an executor that fails late cannot
\* take a completed one back.
ClosedStays ==
  [][\A r \in Requests :
       rec[r].state \in {"COMPLETED", "OPERATIONS_REJECTED", "MANAGER_REJECTED"} =>
         rec'[r].state = rec[r].state]_vars

\* The states of the code as the promise counts them; a failed execution may be
\* taken up again.
StageOf ==
  [state \in States |->
     CASE state = "ABSENT" -> "none"
       [] state \in {"CUSTOMER_REQUESTED", "EVIDENCE_ASSEMBLING", "ELIGIBILITY_VERIFIED",
                     "PACKAGE_DRAFTED"} -> "preparing"
       [] state = "EVIDENCE_HOLD" -> "held"
       [] state = "AWAITING_OPERATIONS_APPROVAL" -> "operations"
       [] state \in {"OPERATIONS_APPROVED", "AWAITING_MANAGER_APPROVAL"} -> "manager"
       [] state = "MANAGER_APPROVED" -> "approved"
       [] state \in {"EXECUTING", "EXECUTION_FAILED"} -> "executing"
       [] state = "COMPLETED" -> "completed"
       [] OTHER -> "rejected"]

\* The controller, its reviewers and executors keep the promise: no confirmation
\* prepares a request twice or reopens a held one, no two executors issue two
\* invoices or one number twice, and the first receipt is the outcome that no
\* duplicate, retry or racing executor replaces.
Promise ==
  INSTANCE CoveragePromise WITH
    stage   <- [r \in Requests |-> StageOf[rec[r].state]],
    invoice <- receipt

ImplementsPromise == Promise!Spec

\* An execution is settled, unless a handler died, retry was used on it, or the
\* year ran out of numbers before it had one: losing every race for a number only
\* hands the renewal to the next scan.
ExecutionSettles ==
  \A r \in Requests :
    (rec[r].state = "EXECUTING") ~>
      \/ rec[r].state \in {"COMPLETED", "EXECUTION_FAILED"}
      \/ crashes > 0 \/ retries > 0
      \/ counter > MaxNumber /\ reserved[r] = {}

\* A confirmed request reaches a reviewer or is held, whatever the investigator
\* does and whoever confirms again, unless its handler died or the verification
\* itself raised: coverage_customer.py:80-81 leaves what it raises to the caller.
RequestIsReviewed ==
  \A r \in Requests :
    (rec[r].state = "CUSTOMER_REQUESTED") ~>
      \/ rec[r].state \in {"AWAITING_OPERATIONS_APPROVAL", "EVIDENCE_HOLD"}
      \/ crashes > 0
      \/ \E p \in Procs : At(p, "raised") /\ h[p].req = r

\* The executor's header: a retry or duplicate call "can never allocate a second
\* invoice number".
OneNumberPerRenewal == \A r \in Requests : Cardinality(reserved[r]) <= 1

\* The loop's comment: "Resume an execution interrupted before it committed
\* COMPLETED".  An interrupted execution is completed, or fails.
InterruptedExecutionResumes ==
  \A r \in Requests :
    (rec[r].state = "EXECUTING") ~> (rec[r].state \in {"COMPLETED", "EXECUTION_FAILED"})

=============================================================================
