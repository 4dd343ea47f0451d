------------------------ MODULE CoverageRenewalProofs ------------------------
(***************************************************************************)
(* Proofs about CoverageRenewal for every number of requests, handlers,    *)
(* execution loops, invoice numbers, tries and crashes.                    *)
(*                                                                         *)
(* The argument: the state of a record tells which decisions it holds, and *)
(* a commit under the etag that was read starts from the record it was     *)
(* checked against.  Once both approvals are recorded a renewal stays      *)
(* among the states of its execution; only an executor reserves, stores    *)
(* and publishes, in that order; and a number is reserved at the counter,  *)
(* above every number reserved before.                                     *)
(***************************************************************************)
EXTENDS CoverageRenewal, TLAPS

Before == {"ABSENT", "CUSTOMER_REQUESTED", "EVIDENCE_ASSEMBLING", "ELIGIBILITY_VERIFIED",
           "PACKAGE_DRAFTED", "AWAITING_OPERATIONS_APPROVAL", "EVIDENCE_HOLD"}

Between == {"OPERATIONS_APPROVED", "AWAITING_MANAGER_APPROVAL"}

After == {"MANAGER_APPROVED", "EXECUTING", "COMPLETED", "EXECUTION_FAILED"}

Settled == {"COMPLETED", "OPERATIONS_REJECTED", "MANAGER_REJECTED"}

ApprovedBy(who) == [verb |-> "approve", by |-> who]
RejectedBy(who) == [verb |-> "reject", by |-> who]

\* The decisions a snapshot holds are those of its state.
RecordOK(s) ==
  /\ s \in Records
  /\ s.state \notin Before => s.package
  /\ s.state = "ABSENT" => s.rev = 0
  /\ s.state \in Before => s.ops = Undecided
  /\ s.state = "OPERATIONS_REJECTED" => s.ops = RejectedBy("operations")
  /\ s.state \in Between \cup After \cup {"MANAGER_REJECTED"} => s.ops = ApprovedBy("operations")
  /\ s.state \in Before \cup Between \cup {"OPERATIONS_REJECTED"} => s.mgr = Undecided
  /\ s.state = "MANAGER_REJECTED" => s.mgr = RejectedBy("manager")
  /\ s.state \in After => s.mgr = ApprovedBy("manager")

\* What a commit makes of the snapshot s: new.
Succeeds(s, new) ==
  /\ RecordOK(new) /\ new.rev = s.rev + 1 /\ new.state # "ABSENT"
  /\ s.state \in After => new.state \in After
  /\ s.state \in Settled => new.state = s.state
  /\ s.ops.verb # "none" => new.ops = s.ops /\ new.package
  /\ s.mgr.verb # "none" => new.mgr = s.mgr

\* The guards of the targets, one by one.
LEMMA MayAdvanceMeans ==
  ASSUME NEW s \in Records, NEW target \in States, NEW by, MayAdvance(s, target, by)
  PROVE  \/ target \in {"OPERATIONS_APPROVED", "OPERATIONS_REJECTED"}
              /\ by = "operations" /\ s.package /\ <<s.state, target>> \in Table
         \/ target \in {"MANAGER_APPROVED", "MANAGER_REJECTED"}
              /\ by = "manager" /\ s.package /\ <<s.state, target>> \in Table
         \/ target = "EXECUTING" /\ Authorized(s) /\ s.state \in {"MANAGER_APPROVED", "EXECUTION_FAILED"}
         \/ target = "COMPLETED"
         \/ target \notin {"OPERATIONS_APPROVED", "OPERATIONS_REJECTED", "MANAGER_APPROVED",
                           "MANAGER_REJECTED", "EXECUTING", "COMPLETED"}
              /\ <<s.state, target>> \in Table
BY DEF MayAdvance

\* The table, state by state.
LEMMA TableMeans ==
  ASSUME NEW a, NEW b, <<a, b>> \in Table
  PROVE  /\ b \in {"OPERATIONS_APPROVED", "OPERATIONS_REJECTED"} => a = "AWAITING_OPERATIONS_APPROVAL"
         /\ b \in {"MANAGER_APPROVED", "MANAGER_REJECTED"} => a = "AWAITING_MANAGER_APPROVAL"
         /\ b \in Before => a \in Before
         /\ b = "AWAITING_MANAGER_APPROVAL" => a = "OPERATIONS_APPROVED"
         /\ b = "EXECUTION_FAILED" => a = "EXECUTING"
         /\ b # "ABSENT" /\ a \notin Settled
BY DEF Table, Before, Settled

LEMMA AdvancedMeans ==
  ASSUME NEW s \in Records, NEW target \in States, NEW by
  PROVE  LET new == Advanced(s, target, by) IN
         /\ new.rev = s.rev + 1 /\ new.state = target
         /\ target # "PACKAGE_DRAFTED" => new.package = s.package
         /\ new.ops = IF target = "OPERATIONS_APPROVED" THEN ApprovedBy(by)
                      ELSE IF target = "OPERATIONS_REJECTED" THEN RejectedBy(by) ELSE s.ops
         /\ new.mgr = IF target = "MANAGER_APPROVED" THEN ApprovedBy(by)
                      ELSE IF target = "MANAGER_REJECTED" THEN RejectedBy(by) ELSE s.mgr
BY DEF Advanced, ApprovedBy, RejectedBy, Records

\* The record stored is of its type when a decision is by one of the reviewers.
LEMMA AdvancedType ==
  ASSUME NEW s \in Records, NEW target \in States, NEW by,
         target \in {"OPERATIONS_APPROVED", "OPERATIONS_REJECTED", "MANAGER_APPROVED",
                    "MANAGER_REJECTED"} => by \in Reviewers
  PROVE  Advanced(s, target, by) \in Records
<1>. DEFINE moved == [s EXCEPT !.rev = @ + 1, !.state = target]
            verb == IF target \in {"OPERATIONS_APPROVED", "MANAGER_APPROVED"}
                      THEN "approve" ELSE "reject"
            decision == [verb |-> verb, by |-> by]
<1>1. moved \in Records
  <2>1. s.rev + 1 \in Nat /\ target \in States
    BY DEF Records
  <2>. QED BY <2>1 DEF Records
<1>2. by \in Reviewers => decision \in Decisions
  BY DEF Decisions, Verbs
<1>3. \/ target = "PACKAGE_DRAFTED" /\ Advanced(s, target, by) = [moved EXCEPT !.package = TRUE]
      \/ by \in Reviewers /\ Advanced(s, target, by) = [moved EXCEPT !.ops = decision]
      \/ by \in Reviewers /\ Advanced(s, target, by) = [moved EXCEPT !.mgr = decision]
      \/ Advanced(s, target, by) = moved
  BY DEF Advanced
<1>. HIDE DEF moved, decision
<1>4. [moved EXCEPT !.package = TRUE] \in Records
  BY <1>1 DEF Records
<1>5. decision \in Decisions => [moved EXCEPT !.ops = decision] \in Records
  BY <1>1 DEF Records
<1>6. decision \in Decisions => [moved EXCEPT !.mgr = decision] \in Records
  BY <1>1 DEF Records
<1>. QED BY <1>1, <1>2, <1>3, <1>4, <1>5, <1>6

\* A commit that its caller's checks allow keeps the record what it must be.
LEMMA CommitSucceeds ==
  ASSUME NEW s, RecordOK(s), NEW target \in States,
         NEW by \in Reviewers \cup {"nobody", "runner", "retry"}, MayAdvance(s, target, by),
         target = "COMPLETED" => s.state \in After
  PROVE  Succeeds(s, Advanced(s, target, by)) /\ Advanced(s, target, by).state = target
<1>1. s \in Records
  BY DEF RecordOK
<1>. DEFINE new == Advanced(s, target, by)
<1>2. /\ new.rev = s.rev + 1 /\ new.state = target
      /\ target # "PACKAGE_DRAFTED" => new.package = s.package
      /\ new.ops = IF target = "OPERATIONS_APPROVED" THEN ApprovedBy(by)
                   ELSE IF target = "OPERATIONS_REJECTED" THEN RejectedBy(by) ELSE s.ops
      /\ new.mgr = IF target = "MANAGER_APPROVED" THEN ApprovedBy(by)
                   ELSE IF target = "MANAGER_REJECTED" THEN RejectedBy(by) ELSE s.mgr
  BY <1>1, AdvancedMeans
<1>3. new \in Records
  BY <1>1, MayAdvanceMeans, AdvancedType DEF Reviewers
<1>. SUFFICES Succeeds(s, new) /\ new.state = target
  OBVIOUS
<1>. HIDE DEF new
<1>4. ApprovedBy(by).verb = "approve" /\ RejectedBy(by).verb = "reject" /\ Undecided.verb = "none"
  BY DEF ApprovedBy, RejectedBy, Undecided
<1>8. ASSUME RecordOK(new), target # "ABSENT", s.state \in After => target \in After,
             s.state \in Settled => target = s.state,
             s.ops.verb # "none" => new.ops = s.ops /\ new.package,
             s.mgr.verb # "none" => new.mgr = s.mgr
      PROVE  Succeeds(s, new)
  BY <1>2, <1>8 DEF Succeeds
<1>5. CASE target \in {"OPERATIONS_APPROVED", "OPERATIONS_REJECTED"}
  <2>1. by = "operations" /\ s.package /\ s.state = "AWAITING_OPERATIONS_APPROVAL"
    BY <1>1, <1>5, MayAdvanceMeans, TableMeans
  <2>2. s.ops = Undecided /\ s.mgr = Undecided
    BY <2>1 DEF RecordOK, Before
  <2>4. RecordOK(new)
    BY <1>2, <1>5, <1>3, <2>1, <2>2 DEF RecordOK, Before, Between, After
  <2>5. s.state \notin After /\ s.state \notin Settled /\ target # "ABSENT"
    BY <1>5, <2>1 DEF After, Settled
  <2>6. s.ops.verb = "none" /\ s.mgr.verb = "none"
    BY <1>4, <2>2
  <2>. QED BY <1>2, <1>8, <2>4, <2>5, <2>6
<1>6. CASE target \in {"MANAGER_APPROVED", "MANAGER_REJECTED"}
  <2>1. by = "manager" /\ s.package /\ s.state = "AWAITING_MANAGER_APPROVAL"
    BY <1>1, <1>6, MayAdvanceMeans, TableMeans
  <2>2. s.ops = ApprovedBy("operations") /\ s.mgr = Undecided
    BY <2>1 DEF RecordOK, Before, Between
  <2>4. RecordOK(new)
    BY <1>2, <1>6, <1>3, <2>1, <2>2 DEF RecordOK, Before, Between, After
  <2>5. s.state \notin After /\ s.state \notin Settled /\ target # "ABSENT"
    BY <1>6, <2>1 DEF After, Settled
  <2>6. s.mgr.verb = "none" /\ new.ops = s.ops /\ new.package = s.package
    BY <1>2, <1>4, <1>6, <2>2
  <2>7. s.ops.verb # "none" => new.ops = s.ops /\ new.package
    BY <2>1, <2>6
  <2>. QED BY <1>2, <1>8, <2>4, <2>5, <2>6, <2>7
<1>7. CASE target \notin {"OPERATIONS_APPROVED", "OPERATIONS_REJECTED", "MANAGER_APPROVED",
                         "MANAGER_REJECTED"}
  <2>1. new.ops = s.ops /\ new.mgr = s.mgr
    BY <1>2, <1>7
  <2>3. \/ target \in {"EXECUTING", "COMPLETED", "EXECUTION_FAILED"} /\ s.state \in After
        \/ target \in Before /\ target # "ABSENT" /\ s.state \in Before
        \/ target = "AWAITING_MANAGER_APPROVAL" /\ s.state = "OPERATIONS_APPROVED"
    <3>1. \/ target = "EXECUTING" /\ s.state \in After
          \/ target = "COMPLETED" /\ s.state \in After
          \/ target \notin {"EXECUTING", "COMPLETED"} /\ <<s.state, target>> \in Table
      BY <1>1, <1>7, MayAdvanceMeans DEF After
    <3>2. target \in Before \cup {"AWAITING_MANAGER_APPROVAL", "EXECUTING", "COMPLETED", "EXECUTION_FAILED"}
      BY <1>7 DEF States, Before
    <3>3. CASE <<s.state, target>> \in Table
      BY <3>1, <3>2, <3>3, TableMeans DEF After
    <3>. QED BY <3>1, <3>3
  <2>4. s.state = "COMPLETED" => target = "COMPLETED"
    BY <1>1, <1>7, MayAdvanceMeans, TableMeans DEF Settled
  <2>5. RecordOK(new)
    BY <1>2, <1>3, <1>7, <2>1, <2>3 DEF RecordOK, Before, Between, After
  <2>6. s.ops.verb # "none" => new.package
    <3>1. s.ops.verb # "none" => s.state \notin Before
      BY <1>4 DEF RecordOK
    <3>2. s.state \notin Before => target # "PACKAGE_DRAFTED"
      BY <2>3 DEF Before
    <3>. QED BY <1>2, <3>1, <3>2 DEF RecordOK
  <2>7. s.state \in After => target \in After
    BY <2>3 DEF Before, After
  <2>8. s.state \in Settled => target = s.state
    BY <2>3, <2>4 DEF Before, After, Settled
  <2>9. target # "ABSENT"
    BY <2>3
  <2>10. s.ops.verb # "none" => new.ops = s.ops /\ new.package
    BY <2>1, <2>6
  <2>. QED BY <1>2, <1>8, <2>1, <2>5, <2>7, <2>8, <2>9, <2>10
<1>. QED BY <1>2, <1>5, <1>6, <1>7

-----------------------------------------------------------------------------
(* The inductive invariant.                                                *)

Executing == {"lookup", "allocate", "reserve", "write_certificate", "write_invoice", "publish"}
Holding   == {"write_certificate", "write_invoice", "publish"}

\* What handler x knows of the record d, the receipt n, the numbers and the
\* files of its request.
HandlerOK(x, d, n, numbers, files) ==
  /\ x \in Handlers
  /\ x.pc = "commit" => /\ MayAdvance(x.snap, x.target, x.by)
                        /\ x.snap.rev <= d.rev /\ (x.snap.rev = d.rev => x.snap = d)
  /\ x.pc \in {"read", "commit"} /\ x.target = "COMPLETED" => d.state \in After /\ n # 0
  /\ x.pc \in Executing => d.state \in After
  /\ x.pc \in Holding \cup {"reserve"} => x.number # 0
  /\ x.pc \in Holding => x.number \in numbers
  /\ x.pc \in {"write_invoice", "publish"} => <<x.req, "certificate", x.number>> \in files
  /\ x.pc = "publish" => <<x.req, "invoice", x.number>> \in files

HandlersOK ==
  \A p \in Procs :
    HandlerOK(h[p], rec[h[p].req], receipt[h[p].req], reserved[h[p].req], blobs)

\* Request r.
RequestOK(r) ==
  /\ RecordOK(rec[r])
  /\ reserved[r] # {} \/ receipt[r] # 0 => rec[r].state \in After
  /\ receipt[r] # 0 => \A kind \in Kinds : <<r, kind, receipt[r]>> \in blobs
  /\ rec[r].state = "COMPLETED" => receipt[r] # 0

NumbersOK ==
  /\ \A r \in Requests : \A n \in reserved[r] : n < counter
  /\ \A r, s \in Requests : r # s => reserved[r] \cap reserved[s] = {}
  /\ \A p, q \in Procs :
       p # q /\ h[p].pc \in Holding /\ h[q].pc \in Holding => h[p].number # h[q].number

\* No document of the store is taken back: what a step may do to them.
Grows ==
  \A r \in Requests :
    /\ rec'[r] = rec[r] \/ Succeeds(rec[r], rec'[r])
    /\ receipt[r] # 0 => receipt'[r] = receipt[r]
    /\ reserved[r] \subseteq reserved'[r]

IInv == TypeOK /\ HandlersOK /\ (\A r \in Requests : RequestOK(r)) /\ NumbersOK

-----------------------------------------------------------------------------
(* The handlers.                                                           *)

LEMMA AnyRequestExists == AnyRequest \in Requests
BY CoverageAssumption DEF AnyRequest

LEMMA RestingOK ==
  ASSUME NEW r \in Requests, NEW d, NEW n, NEW numbers, NEW files
  PROVE  /\ HandlerOK(Resting(r), d, n, numbers, files)
         /\ Resting(r).req = r /\ Resting(r).pc = "idle"
<1>. DEFINE x == Resting(r)
<1>1. NoRecord \in Records
  BY DEF NoRecord, Records, States, Decisions, Verbs, Undecided
<1>2. x \in Handlers /\ x.pc = "idle" /\ x.req = r
  BY <1>1, CoverageAssumption DEF Resting, Handlers, Labels, States
<1>. HIDE DEF x
<1>3. HandlerOK(x, d, n, numbers, files)
  BY <1>2 DEF HandlerOK, Executing, Holding
<1>. QED BY <1>2, <1>3 DEF x

\* Handlers at their first steps.
Early(x, r, target) ==
  /\ x \in Handlers /\ x.req = r /\ x.target = target
  /\ x.pc \in {"read", "create", "investigate", "raised", "execute"}

LEMMA RestingMeans ==
  ASSUME NEW r \in Requests
  PROVE  Resting(r) \in Handlers /\ Resting(r).target = "ABSENT" /\ Resting(r).req = r
BY RestingOK DEF HandlerOK, Resting

LEMMA StartsEarly ==
  ASSUME NEW r \in Requests, NEW pc \in {"create", "investigate", "raised", "execute"}
  PROVE  Early([Resting(r) EXCEPT !.pc = pc], r, "ABSENT")
BY RestingMeans DEF Early, Handlers, Labels

LEMMA AdvancesEarly ==
  ASSUME NEW r \in Requests, NEW target \in States
  PROVE  Early([Resting(r) EXCEPT !.pc = "read", !.target = target], r, target)
<1>1. PICK y \in Handlers : y = Resting(r) /\ y.req = r
  BY RestingMeans
<1>2. PICK x : x = [y EXCEPT !.pc = "read", !.target = target]
  OBVIOUS
<1>3. x \in Handlers /\ x.req = r /\ x.target = target /\ x.pc = "read"
  BY <1>1, <1>2 DEF Handlers, Labels
<1>. QED BY <1>1, <1>2, <1>3 DEF Early

LEMMA DecidesEarly ==
  ASSUME NEW r \in Requests, NEW target \in States,
         NEW by \in Reviewers \cup {"nobody", "runner", "retry"}
  PROVE  Early([Resting(r) EXCEPT !.pc = "read", !.target = target, !.by = by], r, target)
<1>1. PICK y \in Handlers : y = Resting(r) /\ y.req = r
  BY RestingMeans
<1>2. PICK x : x = [y EXCEPT !.pc = "read", !.target = target, !.by = by]
  OBVIOUS
<1>3. x \in Handlers /\ x.req = r /\ x.target = target /\ x.pc = "read"
  BY <1>1, <1>2 DEF Handlers, Labels
<1>. QED BY <1>1, <1>2, <1>3 DEF Early

LEMMA EarlyOK ==
  ASSUME NEW x, NEW r, NEW target, Early(x, r, target), NEW d, NEW n, NEW numbers, NEW files,
         target = "COMPLETED" => d.state \in After /\ n # 0
  PROVE  HandlerOK(x, d, n, numbers, files) /\ x.pc \notin Holding /\ x.req = r
BY DEF Early, HandlerOK, Executing, Holding

\* What a handler knows stays true while the documents only grow.
LEMMA HandlerStable ==
  ASSUME NEW x, NEW d, NEW n, NEW numbers, NEW files, HandlerOK(x, d, n, numbers, files), RecordOK(d),
         NEW e, e = d \/ Succeeds(d, e),
         NEW m, n # 0 => m = n, NEW others, numbers \subseteq others, NEW more, files \subseteq more
  PROVE  HandlerOK(x, e, m, others, more)
<1>1. CASE e = d
  BY <1>1 DEF HandlerOK
<1>2. CASE Succeeds(d, e)
  <2>1. d.rev \in Nat /\ e.rev = d.rev + 1 /\ (d.state \in After => e.state \in After)
    BY <1>2 DEF Succeeds, RecordOK, Records
  <2>2. x.pc = "commit" => x.snap.rev \in Nat /\ x.snap.rev <= d.rev
    BY DEF HandlerOK, Handlers, Records
  <2>3. x.pc = "commit" => x.snap.rev <= e.rev /\ x.snap.rev # e.rev
    BY <2>1, <2>2
  <2>. QED BY <2>1, <2>3 DEF HandlerOK
<1>. QED BY <1>1, <1>2

LEMMA HandlersMove ==
  ASSUME IInv, NEW p \in Procs, NEW x, h' = [h EXCEPT ![p] = x], Grows, blobs \subseteq blobs',
         HandlerOK(x, rec'[x.req], receipt'[x.req], reserved'[x.req], blobs')
  PROVE  /\ HandlersOK' /\ h' \in [Procs -> Handlers]
         /\ h'[p] = x /\ \A q \in Procs : q # p => h'[q] = h[q]
<1>1. h \in [Procs -> Handlers] /\ x \in Handlers
  BY DEF IInv, TypeOK, HandlerOK
<1>2. h' \in [Procs -> Handlers] /\ h'[p] = x /\ \A q \in Procs : q # p => h'[q] = h[q]
  BY <1>1
<1>3. ASSUME NEW q \in Procs, q # p
      PROVE  HandlerOK(h[q], rec'[h[q].req], receipt'[h[q].req], reserved'[h[q].req], blobs')
  <2>1. h[q].req \in Requests
    BY <1>1 DEF Handlers
  <2>. QED BY <2>1, <1>3, HandlerStable DEF IInv, HandlersOK, RequestOK, Grows
<1>. QED BY <1>2, <1>3 DEF HandlersOK

\* A handler goes on and at most the counter is written.
LEMMA QuietMove ==
  ASSUME IInv, NEW p \in Procs, NEW x, h' = [h EXCEPT ![p] = x],
         HandlerOK(x, rec[x.req], receipt[x.req], reserved[x.req], blobs),
         x.pc \in Holding => h[p].pc \in Holding /\ x.number = h[p].number,
         UNCHANGED <<rec, receipt, reserved, blobs>>,
         counter' \in 0..(MaxNumber + 1), counter <= counter',
         inputs' \in Nat, retries' \in Nat, crashes' \in Nat
  PROVE  IInv' /\ Grows
<1>1. Grows
  BY DEF Grows
<1>2. /\ HandlersOK' /\ h' \in [Procs -> Handlers]
      /\ h'[p] = x /\ \A q \in Procs : q # p => h'[q] = h[q]
  BY <1>1, HandlersMove
<1>3. TypeOK'
  BY <1>2 DEF IInv, TypeOK
<1>4. \A r \in Requests : RequestOK(r)'
  BY DEF IInv, RequestOK
<1>5. NumbersOK'
  <2>1. \A r \in Requests : \A n \in reserved[r] : n \in Nat /\ n < counter /\ counter \in Nat
    BY CoverageAssumption DEF IInv, TypeOK, NumbersOK, Numbers
  <2>2. \A r \in Requests : \A n \in reserved'[r] : n < counter'
    BY <2>1
  <2>3. \A q \in Procs : h'[q].pc \in Holding => h[q].pc \in Holding /\ h'[q].number = h[q].number
    BY <1>2
  <2>. QED BY <2>2, <2>3 DEF IInv, NumbersOK
<1>. QED BY <1>1, <1>2, <1>3, <1>4, <1>5 DEF IInv

\* A handler replaces or creates a record and goes on.
LEMMA RecordMove ==
  ASSUME IInv, NEW p \in Procs, NEW x, h' = [h EXCEPT ![p] = x],
         NEW r \in Requests, NEW new, Succeeds(rec[r], new), rec' = [rec EXCEPT ![r] = new],
         new.state = "COMPLETED" => receipt[r] # 0,
         HandlerOK(x, rec'[x.req], receipt[x.req], reserved[x.req], blobs), x.pc \notin Holding,
         UNCHANGED <<receipt, counter, reserved, blobs, counts>>
  PROVE  IInv' /\ Grows
<1>1. rec'[r] = new /\ (\A q \in Requests : q # r => rec'[q] = rec[q]) /\ rec' \in [Requests -> Records]
  BY DEF IInv, TypeOK, Succeeds, RecordOK
<1>2. Grows
  BY <1>1 DEF Grows
<1>3. /\ HandlersOK' /\ h' \in [Procs -> Handlers]
      /\ h'[p] = x /\ \A q \in Procs : q # p => h'[q] = h[q]
  BY <1>2, HandlersMove
<1>4. TypeOK'
  BY <1>1, <1>3 DEF IInv, TypeOK, counts
<1>5. \A q \in Requests : RequestOK(q)'
  BY <1>1 DEF IInv, RequestOK, Succeeds
<1>6. NumbersOK'
  BY <1>3 DEF IInv, NumbersOK
<1>. QED BY <1>2, <1>3, <1>4, <1>5, <1>6 DEF IInv

-----------------------------------------------------------------------------
(* The steps.                                                              *)

LEMMA InitIInv == Init => IInv
<1>. SUFFICES ASSUME Init PROVE IInv
  OBVIOUS
<1>1. NoRecord \in Records /\ RecordOK(NoRecord) /\ NoRecord.state = "ABSENT"
  BY DEF NoRecord, RecordOK, Records, States, Decisions, Verbs, Undecided, Before, Between, After
<1>2. HandlersOK
  BY AnyRequestExists, RestingOK DEF Init, HandlersOK
<1>3. \A p \in Procs : h[p] \in Handlers /\ h[p].pc = "idle"
  BY <1>2, AnyRequestExists, RestingOK DEF HandlersOK, HandlerOK, Init
<1>4. TypeOK
  BY <1>1, <1>3, CoverageAssumption DEF Init, TypeOK
<1>5. \A r \in Requests : RequestOK(r)
  BY <1>1 DEF Init, RequestOK, After
<1>6. NumbersOK
  BY <1>3 DEF Init, NumbersOK, Holding
<1>. QED BY <1>2, <1>4, <1>5, <1>6 DEF IInv

\* What is known of a handler.
LEMMA Known ==
  ASSUME IInv, NEW p \in Procs
  PROVE  /\ h \in [Procs -> Handlers] /\ h[p] \in Handlers /\ h[p].req \in Requests
         /\ HandlerOK(h[p], rec[h[p].req], receipt[h[p].req], reserved[h[p].req], blobs)
         /\ RequestOK(h[p].req) /\ rec[h[p].req] \in Records
         /\ counter \in 0..(MaxNumber + 1) /\ counter <= counter
         /\ inputs \in Nat /\ retries \in Nat /\ crashes \in Nat
BY DEF IInv, TypeOK, HandlersOK, Handlers

\* A handler starts over at a read or another first step, and at most the
\* counter is written.
LEMMA QuietFresh ==
  ASSUME IInv, NEW p \in Procs, NEW r, NEW target, NEW x, Early(x, r, target),
         target # "COMPLETED", h' = [h EXCEPT ![p] = x],
         UNCHANGED <<rec, receipt, reserved, blobs>>,
         counter' \in 0..(MaxNumber + 1), counter <= counter',
         inputs' \in Nat, retries' \in Nat, crashes' \in Nat
  PROVE  IInv' /\ Grows
<1>1. HandlerOK(x, rec[x.req], receipt[x.req], reserved[x.req], blobs) /\ x.pc \notin Holding
  BY EarlyOK
<1>. QED BY <1>1, QuietMove

\* A handler ends or fails, and at most the counter is written.
LEMMA QuietStop ==
  ASSUME IInv, NEW p \in Procs, Ends(p) \/ Fails(p),
         UNCHANGED <<rec, receipt, reserved, blobs>>,
         counter' \in 0..(MaxNumber + 1), counter <= counter',
         inputs' \in Nat, retries' \in Nat, crashes' \in Nat
  PROVE  IInv' /\ Grows
<1>1. CASE Ends(p)
  <2>. DEFINE x == Resting(AnyRequest)
  <2>1. HandlerOK(x, rec[x.req], receipt[x.req], reserved[x.req], blobs) /\ x.pc = "idle"
    BY RestingOK, AnyRequestExists
  <2>2. h' = [h EXCEPT ![p] = x]
    BY <1>1 DEF Ends, Become
  <2>. HIDE DEF x
  <2>. QED BY <2>1, <2>2, QuietMove DEF Holding
<1>2. CASE Fails(p)
  <2>1. h[p].req \in Requests
    BY Known
  <2>2. h' = [h EXCEPT ![p] = [Resting(h[p].req) EXCEPT !.pc = "read", !.target = "EXECUTION_FAILED"]]
    BY <1>2 DEF Fails, WillAdvance, Become
  <2>3. Early([Resting(h[p].req) EXCEPT !.pc = "read", !.target = "EXECUTION_FAILED"], h[p].req,
              "EXECUTION_FAILED")
    BY <2>1, AdvancesEarly DEF States
  <2>. QED BY <2>2, <2>3, QuietFresh
<1>. QED BY <1>1, <1>2

\* A handler goes on with its request, and at most the counter is written.
LEMMA QuietOn ==
  ASSUME IInv, NEW p \in Procs, NEW x \in Handlers, h' = [h EXCEPT ![p] = x],
         x.req = h[p].req, x.pc \in Executing \ Holding, rec[h[p].req].state \in After,
         x.pc = "reserve" => x.number # 0,
         UNCHANGED <<rec, receipt, reserved, blobs, counter, counts>>
  PROVE  IInv' /\ Grows
<1>1. HandlerOK(x, rec[x.req], receipt[x.req], reserved[x.req], blobs)
  BY DEF HandlerOK, Executing, Holding
<1>. QED BY <1>1, Known, QuietMove DEF counts

LEMMA CallsStep ==
  ASSUME IInv, NEW p \in Procs, Calls(p) \/ \E r \in Requests : RunnerPicks(p, r)
  PROVE  IInv' /\ Grows
<1>0. /\ counter \in 0..(MaxNumber + 1) /\ counter <= counter
      /\ inputs \in Nat /\ retries \in Nat /\ crashes \in Nat
  BY Known
<1>1. ASSUME NEW x, NEW r, NEW target, Early(x, r, target), target # "COMPLETED",
             h' = [h EXCEPT ![p] = x], UNCHANGED <<stored, crashes>>, inputs' \in Nat, retries' \in Nat
      PROVE  IInv' /\ Grows
  BY <1>0, <1>1, QuietFresh DEF stored
<1>2. ASSUME NEW r \in Requests, Confirm(p, r) PROVE IInv' /\ Grows
  <2>. DEFINE x == [Resting(r) EXCEPT !.pc = "create"]
  <2>1. h' = [h EXCEPT ![p] = x] /\ UNCHANGED <<stored, crashes, retries>> /\ inputs' \in Nat
    BY <1>0, <1>2 DEF Confirm, Begins, Become
  <2>2. Early(x, r, "ABSENT")
    BY StartsEarly
  <2>. HIDE DEF x
  <2>. QED BY <1>0, <1>1, <2>1, <2>2, Zenon
<1>3. ASSUME NEW r \in Requests, NEW by \in Reviewers, NEW target \in States \ {"COMPLETED"},
             Decide(p, r, by, target)
      PROVE  IInv' /\ Grows
  <2>. DEFINE x == [Resting(r) EXCEPT !.pc = "read", !.target = target, !.by = by]
  <2>1. h' = [h EXCEPT ![p] = x] /\ UNCHANGED <<stored, crashes, retries>> /\ inputs' \in Nat
    BY <1>0, <1>3 DEF Decide, Begins, Become
  <2>2. Early(x, r, target)
    BY DecidesEarly
  <2>3. target # "COMPLETED"
    OBVIOUS
  <2>. HIDE DEF x
  <2>. QED BY <1>0, <1>1, <2>1, <2>2, <2>3, Zenon
<1>4. ASSUME NEW r \in Requests, Retry(p, r) PROVE IInv' /\ Grows
  <2>. DEFINE x == [Resting(r) EXCEPT !.pc = "read", !.target = "EXECUTING", !.by = "retry"]
  <2>1. /\ h' = [h EXCEPT ![p] = x] /\ UNCHANGED <<stored, crashes>>
        /\ inputs' \in Nat /\ retries' \in Nat
    BY <1>0, <1>4 DEF Retry, Begins, Become
  <2>2. Early(x, r, "EXECUTING")
    BY DecidesEarly DEF States
  <2>. HIDE DEF x
  <2>. QED BY <1>0, <1>1, <2>1, <2>2
<1>5. ASSUME NEW r \in Requests, RunnerPicks(p, r) PROVE IInv' /\ Grows
  <2>. DEFINE x == [Resting(r) EXCEPT !.pc = "read", !.target = "EXECUTING", !.by = "runner"]
              y == [Resting(r) EXCEPT !.pc = "execute"]
  <2>1. (h' = [h EXCEPT ![p] = x] \/ h' = [h EXCEPT ![p] = y]) /\ UNCHANGED <<stored, counts>>
    BY <1>5 DEF RunnerPicks, Become
  <2>2. Early(x, r, "EXECUTING") /\ Early(y, r, "ABSENT")
    BY DecidesEarly, StartsEarly DEF States
  <2>. HIDE DEF x, y
  <2>. QED BY <1>0, <1>1, <2>1, <2>2 DEF counts
<1>. QED BY <1>2, <1>3, <1>4, <1>5 DEF Calls, States

LEMMA CreateStep == ASSUME IInv, NEW p \in Procs, Create(p) PROVE IInv' /\ Grows
<1>. PICK r \in Requests : r = h[p].req
  BY Known
<1>1. CASE rec[r].state = "ABSENT"
  <2>. DEFINE new == [NoRecord EXCEPT !.rev = 1, !.state = "CUSTOMER_REQUESTED"]
              x == [Resting(r) EXCEPT !.pc = "read", !.target = "EVIDENCE_ASSEMBLING"]
  <2>1. /\ rec' = [rec EXCEPT ![r] = new] /\ h' = [h EXCEPT ![p] = x]
        /\ UNCHANGED <<receipt, counter, reserved, blobs, counts>>
    BY <1>1 DEF Create, WillAdvance, Become
  <2>2. /\ new \in Records /\ new.rev = 1 /\ new.state = "CUSTOMER_REQUESTED"
        /\ new.ops = Undecided /\ new.mgr = Undecided
    BY DEF NoRecord, Records, States, Decisions, Verbs, Undecided
  <2>3. RecordOK(rec[r]) /\ rec[r].rev = 0 /\ rec[r].ops = Undecided /\ rec[r].mgr = Undecided
    BY <1>1, Known DEF RequestOK, RecordOK, Before
  <2>. HIDE DEF new
  <2>4. RecordOK(new)
    BY <2>2 DEF RecordOK, Before, Between, After
  <2>5. Undecided.verb = "none"
    BY DEF Undecided
  <2>6. Succeeds(rec[r], new)
    BY <1>1, <2>2, <2>3, <2>4, <2>5 DEF Succeeds, After, Settled
  <2>7. Early(x, r, "EVIDENCE_ASSEMBLING")
    BY AdvancesEarly DEF States
  <2>. HIDE DEF x
  <2>8. HandlerOK(x, rec'[x.req], receipt[x.req], reserved[x.req], blobs) /\ x.pc \notin Holding
    BY <2>7, EarlyOK
  <2>. QED BY <2>1, <2>2, <2>6, <2>8, RecordMove
<1>2. CASE rec[r].state # "ABSENT"
  BY <1>2, Known, QuietStop DEF Create, counts
<1>. QED BY <1>1, <1>2

LEMMA ReadStep == ASSUME IInv, NEW p \in Procs, Read(p) PROVE IInv' /\ Grows
<1>. PICK r \in Requests : r = h[p].req
  BY Known
<1>1. CASE MayAdvance(rec[r], h[p].target, h[p].by)
  <2>. DEFINE x == [h[p] EXCEPT !.pc = "commit", !.snap = rec[r]]
  <2>1. h' = [h EXCEPT ![p] = x] /\ h[p].pc = "read" /\ UNCHANGED <<stored, counts>>
    BY <1>1 DEF Read, Become, At
  <2>2. /\ x \in Handlers /\ x.pc = "commit" /\ x.snap = rec[r] /\ x.req = r
        /\ x.target = h[p].target /\ x.by = h[p].by
    BY Known DEF Handlers, Labels
  <2>. HIDE DEF x
  <2>3. x.target = "COMPLETED" => rec[r].state \in After /\ receipt[r] # 0
    BY <2>1, <2>2, Known DEF HandlerOK
  <2>4. rec[r].rev \in Nat
    BY Known DEF Records
  <2>5. HandlerOK(x, rec[r], receipt[r], reserved[r], blobs) /\ x.pc \notin Holding
    BY <1>1, <2>2, <2>3, <2>4 DEF HandlerOK, Executing, Holding
  <2>. QED BY <2>1, <2>2, <2>5, Known, QuietMove DEF stored, counts
<1>2. CASE ~MayAdvance(rec[r], h[p].target, h[p].by)
  BY <1>2, Known, QuietStop DEF Read, stored, counts
<1>. QED BY <1>1, <1>2

\* An advance that is not a completion, with nothing written.
LEMMA QuietAdvance ==
  ASSUME IInv, NEW p \in Procs, NEW target \in States \ {"COMPLETED"}, WillAdvance(p, target),
         UNCHANGED <<stored, counts>>
  PROVE  IInv' /\ Grows
<1>. DEFINE x == [Resting(h[p].req) EXCEPT !.pc = "read", !.target = target]
<1>1. h' = [h EXCEPT ![p] = x] /\ h[p].req \in Requests
  BY Known DEF WillAdvance, Become
<1>2. Early(x, h[p].req, target)
  BY <1>1, AdvancesEarly
<1>. HIDE DEF x
<1>. QED BY <1>1, <1>2, QuietFresh, Known DEF stored, counts

\* What a call does after its commit.
LEMMA FollowsMeans ==
  ASSUME NEW p \in Procs, h[p].req \in Requests, Follows(p)
  PROVE  \E x : /\ h' = [h EXCEPT ![p] = x]
               /\ \/ \E target \in States \ {"COMPLETED", "EVIDENCE_ASSEMBLING"} :
                       Early(x, h[p].req, target)
                  \/ x = Resting(AnyRequest)
<1>. PICK r \in Requests : r = h[p].req
  OBVIOUS
<1>1. \/ h' = [h EXCEPT ![p] = [Resting(r) EXCEPT !.pc = "investigate"]]
      \/ h' = [h EXCEPT ![p] = [Resting(r) EXCEPT !.pc = "execute"]]
      \/ h' = [h EXCEPT ![p] = [Resting(r) EXCEPT !.pc = "read", !.target = "PACKAGE_DRAFTED"]]
      \/ h' = [h EXCEPT ![p] = [Resting(r) EXCEPT !.pc = "read", !.target = "AWAITING_OPERATIONS_APPROVAL"]]
      \/ h' = [h EXCEPT ![p] = [Resting(r) EXCEPT !.pc = "read", !.target = "AWAITING_MANAGER_APPROVAL"]]
      \/ h' = [h EXCEPT ![p] = Resting(AnyRequest)]
  BY DEF Follows, WillAdvance, Become, Ends
<1>2. /\ Early([Resting(r) EXCEPT !.pc = "investigate"], r, "ABSENT")
      /\ Early([Resting(r) EXCEPT !.pc = "execute"], r, "ABSENT")
  BY StartsEarly
<1>3. \A t \in States : Early([Resting(r) EXCEPT !.pc = "read", !.target = t], r, t)
  BY AdvancesEarly
<1>4. {"ABSENT", "PACKAGE_DRAFTED", "AWAITING_OPERATIONS_APPROVAL", "AWAITING_MANAGER_APPROVAL"}
        \subseteq States \ {"COMPLETED", "EVIDENCE_ASSEMBLING"}
  BY DEF States
<1>. QED BY <1>1, <1>2, <1>3, <1>4, Zenon

LEMMA CommitStep == ASSUME IInv, NEW p \in Procs, Commit(p) PROVE IInv' /\ Grows
<1>. PICK r \in Requests : r = h[p].req
  BY Known
<1>. DEFINE target == h[p].target
            by == h[p].by
            new == Advanced(h[p].snap, target, by)
<1>1. /\ h[p].pc = "commit" /\ rec[r].rev = h[p].snap.rev /\ rec' = [rec EXCEPT ![r] = new]
      /\ Follows(p) /\ UNCHANGED <<receipt, counter, reserved, blobs, counts>>
  BY DEF Commit, Replaces, At
<1>2. /\ h[p].snap = rec[r] /\ MayAdvance(rec[r], target, by)
      /\ target = "COMPLETED" => rec[r].state \in After /\ receipt[r] # 0
  BY <1>1, Known DEF HandlerOK
<1>3. target \in States /\ by \in Reviewers \cup {"nobody", "runner", "retry"} /\ RecordOK(rec[r])
  BY Known DEF Handlers, RequestOK
<1>4. Succeeds(rec[r], new) /\ new.state = target
  BY <1>2, <1>3, CommitSucceeds
<1>5. PICK x : /\ h' = [h EXCEPT ![p] = x]
               /\ \/ \E t \in States \ {"COMPLETED"} : Early(x, r, t)
                  \/ x = Resting(AnyRequest)
  BY <1>1, Known, FollowsMeans
<1>6. HandlerOK(x, rec'[x.req], receipt[x.req], reserved[x.req], blobs) /\ x.pc \notin Holding
  BY <1>5, EarlyOK, RestingOK, AnyRequestExists DEF Holding
<1>. HIDE DEF new, target
<1>. QED BY <1>1, <1>2, <1>4, <1>5, <1>6, RecordMove

\* Another try, or the end of it.
LEMMA TriesAgainStep ==
  ASSUME IInv, NEW p \in Procs, h[p].pc \in Executing, TriesAgain(p),
         UNCHANGED <<rec, receipt, reserved, blobs, counts>>,
         counter' \in 0..(MaxNumber + 1), counter <= counter'
  PROVE  IInv' /\ Grows
<1>1. CASE h[p].tries + 1 < MaxTries
  <2>. DEFINE x == [h[p] EXCEPT !.pc = "allocate", !.number = 0, !.tries = @ + 1]
  <2>1. h' = [h EXCEPT ![p] = x]
    BY <1>1 DEF TriesAgain, Become
  <2>2. h[p].tries + 1 \in 0..MaxTries /\ h[p] \in Handlers /\ 0 \in 0..MaxNumber
    BY <1>1, Known, CoverageAssumption DEF Handlers
  <2>3. x \in Handlers /\ x.pc = "allocate" /\ x.req = h[p].req
    BY <2>2 DEF Handlers, Labels
  <2>. HIDE DEF x
  <2>4. rec[h[p].req].state \in After
    BY Known DEF HandlerOK
  <2>5. HandlerOK(x, rec[x.req], receipt[x.req], reserved[x.req], blobs) /\ x.pc \notin Holding
    BY <2>3, <2>4 DEF HandlerOK, Executing, Holding
  <2>. QED BY <2>1, <2>5, QuietMove, Known DEF counts
<1>2. CASE ~(h[p].tries + 1 < MaxTries)
  BY <1>2, QuietStop, Known DEF TriesAgain, counts
<1>. QED BY <1>1, <1>2

LEMMA AllocateStep == ASSUME IInv, NEW p \in Procs, Allocate(p) PROVE IInv' /\ Grows
<1>1. h[p].pc = "allocate" /\ h[p].pc \in Executing /\ UNCHANGED <<rec, receipt, reserved, blobs, counts>>
  BY DEF Allocate, At, Executing
<1>2. counter \in 0..(MaxNumber + 1)
  BY Known
<1>3. CASE counter = 0
  <2>1. counter' \in 0..(MaxNumber + 1) /\ counter <= counter' /\ (TriesAgain(p) \/ Fails(p))
    BY <1>3, CoverageAssumption DEF Allocate
  <2>. QED BY <1>1, <2>1, TriesAgainStep, QuietStop, Known DEF counts
<1>4. CASE counter > MaxNumber
  BY <1>1, <1>2, <1>4, QuietStop, Known, CoverageAssumption DEF Allocate, counts
<1>5. CASE counter # 0 /\ ~(counter > MaxNumber)
  <2>. DEFINE x == [h[p] EXCEPT !.pc = "reserve", !.number = counter]
  <2>1. h' = [h EXCEPT ![p] = x] /\ counter' = counter
    BY <1>5 DEF Allocate, Become
  <2>2. counter \in 0..MaxNumber /\ h[p] \in Handlers
    BY <1>2, <1>5, Known, CoverageAssumption
  <2>3. x \in Handlers /\ x.pc = "reserve" /\ x.req = h[p].req /\ x.number = counter
    BY <2>2 DEF Handlers, Labels
  <2>. HIDE DEF x
  <2>4. rec[h[p].req].state \in After /\ x.pc \in Executing \ Holding
    BY <1>1, <2>3, Known DEF HandlerOK, Executing, Holding
  <2>. QED BY <1>1, <1>5, <2>1, <2>3, <2>4, QuietOn
<1>. QED BY <1>3, <1>4, <1>5

LEMMA LookupStep == ASSUME IInv, NEW p \in Procs, Execute(p) \/ Lookup(p) PROVE IInv' /\ Grows
<1>1. CASE Ends(p)
  BY <1>1, QuietStop, Known DEF Execute, Lookup, stored, counts
<1>2. CASE ~Ends(p)
  <2>1. PICK pc \in {"lookup", "allocate"} : h' = [h EXCEPT ![p] = [h[p] EXCEPT !.pc = pc]]
    BY <1>2 DEF Execute, Lookup, GoesTo, Become
  <2>2. rec[h[p].req].state \in After
    BY <1>2, Known DEF Execute, Lookup, At, HandlerOK, Executing, After
  <2>. DEFINE x == [h[p] EXCEPT !.pc = pc]
  <2>3. x \in Handlers /\ x.pc = pc /\ x.req = h[p].req
    BY Known DEF Handlers, Labels
  <2>4. pc \in Executing \ Holding /\ pc # "reserve"
    BY DEF Executing, Holding
  <2>. HIDE DEF x
  <2>5. h' = [h EXCEPT ![p] = x]
    BY <2>1 DEF x
  <2>. QED BY <2>2, <2>3, <2>4, <2>5, QuietOn DEF Execute, Lookup, stored
<1>. QED BY <1>1, <1>2

LEMMA InvestigateStep == ASSUME IInv, NEW p \in Procs, Investigate(p) PROVE IInv' /\ Grows
<1>1. {"ELIGIBILITY_VERIFIED", "EVIDENCE_HOLD"} \subseteq States \ {"COMPLETED"}
  BY DEF States
<1>. QED BY <1>1, QuietAdvance DEF Investigate

\* verify_eligibility raises, and its caller ends.
LEMMA RaisedStep ==
  ASSUME IInv, NEW p \in Procs, VerificationRaises(p) \/ Raised(p)
  PROVE  IInv' /\ Grows
<1>1. CASE VerificationRaises(p)
  <2>. DEFINE x == [Resting(h[p].req) EXCEPT !.pc = "raised"]
  <2>1. h' = [h EXCEPT ![p] = x] /\ h[p].req \in Requests
    BY <1>1, Known DEF VerificationRaises, Become
  <2>2. Early(x, h[p].req, "ABSENT")
    BY <2>1, StartsEarly
  <2>. HIDE DEF x
  <2>. QED BY <1>1, <2>1, <2>2, QuietFresh, Known DEF VerificationRaises, stored, counts
<1>2. CASE Raised(p)
  BY <1>2, QuietStop, Known DEF Raised, stored, counts
<1>. QED BY <1>1, <1>2

\* A handler writes files or a receipt and goes on.
LEMMA StoreMove ==
  ASSUME IInv, NEW p \in Procs, NEW x, h' = [h EXCEPT ![p] = x],
         HandlerOK(x, rec[x.req], receipt'[x.req], reserved[x.req], blobs'),
         x.pc \in Holding => h[p].pc \in Holding /\ x.number = h[p].number,
         blobs \subseteq blobs', blobs' \subseteq Requests \X Kinds \X Numbers,
         receipt' \in [Requests -> 0..MaxNumber],
         \A r \in Requests : receipt[r] # 0 => receipt'[r] = receipt[r],
         \A r \in Requests : receipt'[r] # receipt[r] =>
           rec[r].state \in After /\ \A kind \in Kinds : <<r, kind, receipt'[r]>> \in blobs',
         UNCHANGED <<rec, reserved, counter, counts>>
  PROVE  IInv' /\ Grows
<1>1. Grows
  BY DEF Grows
<1>2. /\ HandlersOK' /\ h' \in [Procs -> Handlers]
      /\ h'[p] = x /\ \A q \in Procs : q # p => h'[q] = h[q]
  BY <1>1, HandlersMove
<1>3. TypeOK'
  BY <1>2 DEF IInv, TypeOK, counts
<1>4. ASSUME NEW r \in Requests PROVE RequestOK(r)'
  <2>1. RequestOK(r)
    BY DEF IInv
  <2>2. CASE receipt'[r] = receipt[r]
    BY <2>1, <2>2 DEF RequestOK
  <2>3. CASE receipt'[r] # receipt[r]
    BY <2>1, <2>3 DEF RequestOK
  <2>. QED BY <2>2, <2>3
<1>5. NumbersOK'
  <2>1. \A q \in Procs : h'[q].pc \in Holding => h[q].pc \in Holding /\ h'[q].number = h[q].number
    BY <1>2
  <2>. QED BY <2>1 DEF IInv, NumbersOK
<1>. QED BY <1>1, <1>2, <1>3, <1>4, <1>5 DEF IInv

\* The reply that arrives.
LEMMA Replied ==
  ASSUME NEW p \in Procs, h[p] \in Handlers, NEW label \in Holding
  PROVE  LET x == [h[p] EXCEPT !.pc = label, !.tries = 0] IN
         x \in Handlers /\ x.pc = label /\ x.req = h[p].req /\ x.number = h[p].number
<1>1. label \in Labels /\ 0 \in 0..MaxTries
  BY CoverageAssumption DEF Holding, Labels
<1>. QED BY <1>1 DEF Handlers

LEMMA ReserveStep == ASSUME IInv, NEW p \in Procs, Reserve(p) PROVE IInv' /\ Grows
<1>. PICK r \in Requests : r = h[p].req
  BY Known
<1>. PICK n : n = h[p].number
  OBVIOUS
<1>1. /\ h[p].pc = "reserve" /\ counter = n /\ counter' = n + 1
      /\ reserved' = [reserved EXCEPT ![r] = @ \cup {n}]
      /\ RepliesWith(p, "write_certificate") /\ UNCHANGED <<rec, receipt, blobs, counts>>
  BY DEF Reserve, Reserves, At
<1>2. n \in Numbers /\ rec[r].state \in After /\ h[p] \in Handlers
  <2>1. h[p] \in Handlers /\ n # 0 /\ rec[r].state \in After
    BY <1>1, Known DEF HandlerOK, Executing
  <2>. QED BY <2>1, CoverageAssumption DEF Handlers, Numbers
<1>3. n \in Nat /\ n >= 1 /\ n <= MaxNumber /\ MaxNumber \in Nat
  BY <1>2, CoverageAssumption DEF Numbers
<1>4. reserved \in [Requests -> SUBSET Numbers]
  BY DEF IInv, TypeOK
<1>5. /\ reserved' \in [Requests -> SUBSET Numbers] /\ reserved'[r] = reserved[r] \cup {n}
      /\ \A q \in Requests : q # r => reserved'[q] = reserved[q]
  BY <1>1, <1>2, <1>4
<1>6. Grows
  BY <1>1, <1>5 DEF Grows
<1>7. \A q \in Requests : \A m \in reserved[q] : m \in Nat /\ m < n
  BY <1>1, <1>4, CoverageAssumption DEF IInv, NumbersOK, Numbers
<1>8. \A q \in Procs : h[q].pc \in Holding => h[q].number # n
  <2>1. \A q \in Procs : h[q].pc \in Holding => h[q].number \in reserved[h[q].req] /\ h[q].req \in Requests
    BY Known DEF HandlerOK
  <2>. QED BY <1>3, <1>7, <2>1
<1>9. ASSUME NEW x, h' = [h EXCEPT ![p] = x], x.pc \in Holding => x.number = n,
             HandlerOK(x, rec[x.req], receipt[x.req], reserved'[x.req], blobs)
      PROVE  IInv'
  <2>1. /\ HandlersOK' /\ h' \in [Procs -> Handlers]
        /\ h'[p] = x /\ \A q \in Procs : q # p => h'[q] = h[q]
    BY <1>1, <1>6, <1>9, HandlersMove
  <2>2. counter' \in 0..(MaxNumber + 1)
    BY <1>1, <1>3
  <2>3. TypeOK'
    BY <1>1, <1>5, <2>1, <2>2 DEF IInv, TypeOK, counts
  <2>4. ASSUME NEW q \in Requests PROVE RequestOK(q)'
    <3>1. RequestOK(q)
      BY DEF IInv
    <3>. QED BY <1>1, <1>2, <1>5, <3>1 DEF RequestOK
  <2>5. \A q \in Requests : \A m \in reserved'[q] : m < counter'
    BY <1>1, <1>3, <1>5, <1>7
  <2>6. \A q, s \in Requests : q # s => reserved'[q] \cap reserved'[s] = {}
    <3>1. \A q \in Requests : n \notin reserved[q]
      BY <1>3, <1>7
    <3>. QED BY <1>5, <3>1 DEF IInv, NumbersOK
  <2>7. \A q, s \in Procs :
          q # s /\ h'[q].pc \in Holding /\ h'[s].pc \in Holding => h'[q].number # h'[s].number
    BY <1>8, <1>9, <2>1 DEF IInv, NumbersOK
  <2>. QED BY <2>1, <2>3, <2>4, <2>5, <2>6, <2>7 DEF IInv, NumbersOK
<1>10. CASE Fails(p)
  <2>. DEFINE x == [Resting(r) EXCEPT !.pc = "read", !.target = "EXECUTION_FAILED"]
  <2>1. h' = [h EXCEPT ![p] = x]
    BY <1>10 DEF Fails, WillAdvance, Become
  <2>2. Early(x, r, "EXECUTION_FAILED")
    BY AdvancesEarly DEF States
  <2>. HIDE DEF x
  <2>3. HandlerOK(x, rec[x.req], receipt[x.req], reserved'[x.req], blobs) /\ x.pc \notin Holding
    BY <2>2, EarlyOK
  <2>. QED BY <1>6, <1>9, <2>1, <2>3
<1>11. CASE ~Fails(p)
  <2>. DEFINE x == [h[p] EXCEPT !.pc = "write_certificate", !.tries = 0]
  <2>1. h' = [h EXCEPT ![p] = x]
    BY <1>1, <1>11 DEF RepliesWith, Become
  <2>2. x \in Handlers /\ x.pc = "write_certificate" /\ x.req = r /\ x.number = n
    BY <1>2, Replied DEF Holding
  <2>. HIDE DEF x
  <2>3. HandlerOK(x, rec[x.req], receipt[x.req], reserved'[x.req], blobs)
    BY <1>2, <1>3, <1>5, <2>2 DEF HandlerOK, Executing, Holding
  <2>. QED BY <1>6, <1>9, <2>1, <2>2, <2>3
<1>. QED BY <1>10, <1>11

\* A file is written.
LEMMA WriteStep ==
  ASSUME IInv, NEW p \in Procs, WriteCertificate(p) \/ WriteInvoice(p)
  PROVE  IInv' /\ Grows
<1>. PICK r \in Requests : r = h[p].req
  BY Known
<1>. PICK n : n = h[p].number
  OBVIOUS
<1>1. PICK label \in Holding, kind \in Kinds :
        /\ blobs' = blobs \cup {<<r, kind, n>>} /\ RepliesWith(p, label)
        /\ UNCHANGED <<rec, receipt, counter, reserved, counts>>
        /\ \/ h[p].pc = "write_certificate" /\ kind = "certificate" /\ label = "write_invoice"
           \/ h[p].pc = "write_invoice" /\ kind = "invoice" /\ label = "publish"
  BY DEF WriteCertificate, WriteInvoice, Stores, At, Kinds, Holding
<1>2. h[p].pc \in Holding /\ label \in Holding /\ label \in Executing
  BY <1>1 DEF Holding, Executing
<1>3. /\ h[p] \in Handlers /\ rec[r].state \in After /\ n # 0 /\ n \in reserved[r]
      /\ label = "publish" => <<r, "certificate", n>> \in blobs
  BY <1>1, <1>2, Known DEF HandlerOK, Executing, Holding
<1>4. n \in Numbers
  BY <1>3 DEF Handlers, Numbers
<1>5. /\ blobs \subseteq blobs' /\ blobs' \subseteq Requests \X Kinds \X Numbers
      /\ receipt \in [Requests -> 0..MaxNumber]
  BY <1>1, <1>4 DEF IInv, TypeOK
<1>6. CASE Fails(p)
  <2>. DEFINE x == [Resting(r) EXCEPT !.pc = "read", !.target = "EXECUTION_FAILED"]
  <2>1. h' = [h EXCEPT ![p] = x]
    BY <1>6 DEF Fails, WillAdvance, Become
  <2>2. Early(x, r, "EXECUTION_FAILED")
    BY AdvancesEarly DEF States
  <2>. HIDE DEF x
  <2>3. HandlerOK(x, rec[x.req], receipt'[x.req], reserved[x.req], blobs') /\ x.pc \notin Holding
    BY <2>2, EarlyOK
  <2>. QED BY <1>1, <1>5, <2>1, <2>3, StoreMove
<1>7. CASE ~Fails(p)
  <2>. DEFINE x == [h[p] EXCEPT !.pc = label, !.tries = 0]
  <2>1. h' = [h EXCEPT ![p] = x]
    BY <1>1, <1>7 DEF RepliesWith, Become
  <2>2. x \in Handlers /\ x.pc = label /\ x.req = r /\ x.number = n
    BY <1>2, <1>3, Replied
  <2>. HIDE DEF x
  <2>3. label = "publish" => <<r, "invoice", n>> \in blobs'
    BY <1>1
  <2>4. label \in {"write_invoice", "publish"} => <<r, "certificate", n>> \in blobs'
    BY <1>1, <1>3
  <2>5. HandlerOK(x, rec[x.req], receipt'[x.req], reserved[x.req], blobs')
    BY <1>1, <1>2, <1>3, <2>2, <2>3, <2>4 DEF HandlerOK, Executing, Holding
  <2>. QED BY <1>1, <1>2, <1>5, <2>1, <2>2, <2>5, StoreMove
<1>. QED BY <1>6, <1>7

LEMMA PublishStep == ASSUME IInv, NEW p \in Procs, Publish(p) PROVE IInv' /\ Grows
<1>. PICK r \in Requests : r = h[p].req
  BY Known
<1>. PICK n : n = h[p].number
  OBVIOUS
<1>1. CASE receipt[r] # 0
  BY <1>1, QuietStop, Known DEF Publish, counts
<1>2. CASE receipt[r] = 0
  <2>1. /\ h[p].pc = "publish" /\ receipt' = [receipt EXCEPT ![r] = n]
        /\ UNCHANGED <<rec, counter, reserved, blobs, counts>>
    BY <1>2 DEF Publish, At
  <2>2. PICK target \in {"COMPLETED", "EXECUTION_FAILED"} :
          h' = [h EXCEPT ![p] = [Resting(r) EXCEPT !.pc = "read", !.target = target]]
    BY <1>2 DEF Publish, Fails, WillAdvance, Become
  <2>3. /\ h[p] \in Handlers /\ rec[r].state \in After /\ n # 0
        /\ \A kind \in Kinds : <<r, kind, n>> \in blobs
    BY <2>1, Known DEF HandlerOK, Executing, Holding, Kinds
  <2>4. receipt \in [Requests -> 0..MaxNumber] /\ n \in 0..MaxNumber
    BY <2>3 DEF IInv, TypeOK, Handlers
  <2>5. /\ receipt' \in [Requests -> 0..MaxNumber] /\ receipt'[r] = n
        /\ \A q \in Requests : q # r => receipt'[q] = receipt[q]
    BY <2>1, <2>4
  <2>6. blobs \subseteq blobs' /\ blobs' \subseteq Requests \X Kinds \X Numbers
    BY <2>1 DEF IInv, TypeOK
  <2>. DEFINE x == [Resting(r) EXCEPT !.pc = "read", !.target = target]
  <2>7. Early(x, r, target)
    BY AdvancesEarly DEF States
  <2>. HIDE DEF x
  <2>8. x.req = r
    BY <2>7 DEF Early
  <2>9. HandlerOK(x, rec[x.req], receipt'[x.req], reserved[x.req], blobs') /\ x.pc \notin Holding
    BY <2>3, <2>5, <2>7, <2>8, EarlyOK
  <2>10. \A q \in Requests : receipt[q] # 0 => receipt'[q] = receipt[q]
    BY <1>2, <2>5
  <2>11. \A q \in Requests : receipt'[q] # receipt[q] =>
           rec[q].state \in After /\ \A kind \in Kinds : <<q, kind, receipt'[q]>> \in blobs'
    BY <2>1, <2>3, <2>5
  <2>12. h' = [h EXCEPT ![p] = x]
    BY <2>2 DEF x
  <2>. QED BY <2>1, <2>5, <2>6, <2>9, <2>10, <2>11, <2>12, StoreMove
<1>. QED BY <1>1, <1>2

LEMMA ContinuesStep == ASSUME IInv, NEW p \in Procs, Continues(p) PROVE IInv' /\ Grows
<1>1. CASE CommitConflict(p)
  BY <1>1, QuietStop, Known DEF CommitConflict, stored, counts
<1>2. CASE Raises(p)
  BY <1>2, QuietStop, Known DEF Raises, stored, counts
<1>3. CASE ReserveConflict(p)
  <2>1. h[p].pc \in Executing
    BY <1>3 DEF ReserveConflict, At, Executing
  <2>. QED BY <1>3, <2>1, TriesAgainStep, Known DEF ReserveConflict, stored
<1>. QED BY <1>1, <1>2, <1>3, CreateStep, InvestigateStep, RaisedStep, ReadStep, CommitStep,
            LookupStep, AllocateStep, ReserveStep, WriteStep, PublishStep DEF Continues

LEMMA StepIInv == IInv /\ [Next]_vars => IInv' /\ Grows
<1>. SUFFICES ASSUME IInv, [Next]_vars PROVE IInv' /\ Grows
  OBVIOUS
<1>1. CASE UNCHANGED vars
  <2>1. Grows
    BY <1>1 DEF Grows, vars, stored
  <2>2. TypeOK' /\ NumbersOK' /\ HandlersOK'
    BY <1>1 DEF IInv, TypeOK, NumbersOK, HandlersOK, vars, stored, counts
  <2>3. \A r \in Requests : RequestOK(r)'
    BY <1>1 DEF IInv, RequestOK, vars, stored
  <2>. QED BY <2>1, <2>2, <2>3 DEF IInv
<1>2. ASSUME NEW p \in Procs, Crash(p) PROVE IInv' /\ Grows
  BY <1>2, QuietStop, Known DEF Crash, stored
<1>3. Clients \subseteq Procs /\ Runners \subseteq Procs
  BY DEF Procs
<1>. QED BY <1>1, <1>2, <1>3, CallsStep, ContinuesStep DEF Next

\* The state of the handlers, of the requests and of the numbers is kept by every
\* step.
THEOREM Invariance == Spec => []IInv
<1>1. IInv /\ [Next]_vars => IInv'
  BY StepIInv
<1>. QED BY <1>1, InitIInv, PTL DEF Spec

\* Every document, counter and handler keeps its shape; the counter stays within
\* one of the year's last number.
THEOREM TypeCorrect == Spec => []TypeOK
<1>1. IInv => TypeOK
  BY DEF IInv
<1>. QED BY <1>1, Invariance, PTL

\* Nothing is numbered, published or executed before the two configured people
\* have both approved the package.
THEOREM TwoPeople == Spec => []IssuedByTwoPeople
<1>1. IInv => IssuedByTwoPeople
  <2>. SUFFICES ASSUME IInv, NEW r \in Requests,
                       reserved[r] # {} \/ receipt[r] # 0 \/ rec[r].state \in {"EXECUTING", "COMPLETED"}
                PROVE  rec[r].ops = ApprovedBy("operations") /\ rec[r].mgr = ApprovedBy("manager")
    BY DEF IssuedByTwoPeople, ApprovedBy
  <2>1. rec[r].state \in After
    BY DEF IInv, RequestOK, After
  <2>. QED BY <2>1 DEF IInv, RequestOK, RecordOK
<1>. QED BY <1>1, Invariance, PTL

\* However many executors race, crash and repeat, no invoice number is given out
\* twice.
THEOREM NumbersUnshared == Spec => []NumbersNeverShared
<1>1. IInv => NumbersNeverShared
  BY DEF IInv, NumbersOK, NumbersNeverShared, Holding
<1>. QED BY <1>1, Invariance, PTL

\* A receipt names two stored files and a completed renewal has a receipt.
THEOREM DocumentsExist == Spec => []IssuedDocumentsExist
<1>1. IInv => IssuedDocumentsExist
  BY DEF IInv, RequestOK, IssuedDocumentsExist
<1>. QED BY <1>1, Invariance, PTL

\* No step overwrites a recorded decision, or the package it froze.
THEOREM DecisionsKept == Spec => DecisionsStand
<1>1. IInv /\ [Next]_vars =>
        [\A r \in Requests :
           /\ rec[r].ops.verb # "none" => rec'[r].ops = rec[r].ops /\ rec'[r].package
           /\ rec[r].mgr.verb # "none" => rec'[r].mgr = rec[r].mgr]_vars
  <2>. SUFFICES ASSUME IInv, [Next]_vars, NEW r \in Requests
                PROVE  /\ rec[r].ops.verb # "none" => rec'[r].ops = rec[r].ops /\ rec'[r].package
                       /\ rec[r].mgr.verb # "none" => rec'[r].mgr = rec[r].mgr
    OBVIOUS
  <2>1. rec'[r] = rec[r] \/ Succeeds(rec[r], rec'[r])
    BY StepIInv DEF Grows
  <2>2. rec[r].ops.verb # "none" => rec[r].package
    <3>1. RecordOK(rec[r])
      BY DEF IInv, RequestOK
    <3>2. rec[r].ops.verb # "none" => rec[r].state \notin Before
      BY <3>1 DEF RecordOK, Undecided
    <3>. QED BY <3>1, <3>2 DEF RecordOK
  <2>. QED BY <2>1, <2>2 DEF Succeeds
<1>. QED BY <1>1, Invariance, PTL DEF Spec, DecisionsStand

\* A rejected or completed renewal stays so.
THEOREM ClosedIsFinal == Spec => ClosedStays
<1>1. IInv /\ [Next]_vars =>
        [\A r \in Requests :
           rec[r].state \in {"COMPLETED", "OPERATIONS_REJECTED", "MANAGER_REJECTED"} =>
             rec'[r].state = rec[r].state]_vars
  <2>. SUFFICES ASSUME IInv, [Next]_vars, NEW r \in Requests, rec[r].state \in Settled
                PROVE  rec'[r].state = rec[r].state
    BY DEF Settled
  <2>. QED BY StepIInv DEF Grows, Succeeds
<1>. QED BY <1>1, Invariance, PTL DEF Spec, ClosedStays

-----------------------------------------------------------------------------
(* The promise to the customer and the reviewers.  Two facts more than the *)
(* invariant are needed: at most one handler starts the preparation of a   *)
(* request, while it is as the customer left it; and an executor at work,  *)
(* like a published receipt, means that the execution has begun.           *)

Begun == {"EXECUTING", "EXECUTION_FAILED", "COMPLETED"}

\* What handler x is after.
Starts(x)   == x.pc \in {"read", "commit"} /\ x.target = "EVIDENCE_ASSEMBLING"
Executes(x) == x.pc \in Executing \/ (x.pc \in {"read", "commit"} /\ x.target = "COMPLETED")

PromiseInv ==
  /\ \A r \in Requests : receipt[r] # 0 => receipt[r] \in reserved[r] /\ rec[r].state \in Begun
  /\ \A p \in Procs : Executes(h[p]) => rec[h[p].req].state \in Begun
  /\ \A p \in Procs : Starts(h[p]) => rec[h[p].req].state = "CUSTOMER_REQUESTED"
  /\ \A p, q \in Procs : p # q /\ Starts(h[p]) /\ Starts(h[q]) => h[p].req # h[q].req

\* Handler y, after x on the record d, starts no preparation and no execution.
GoesOnFrom(x, d, y) ==
  /\ Starts(y) => Starts(x) /\ y.req = x.req
  /\ Executes(y) => y.req = x.req /\ (Executes(x) \/ d.state \in Begun)

\* The kinds of step, as the promise sees them.
Calm ==
  /\ UNCHANGED <<rec, receipt>>
  /\ \/ UNCHANGED h
     \/ \E p \in Procs : \E x : h' = [h EXCEPT ![p] = x] /\ GoesOnFrom(h[p], rec[h[p].req], x)
Creates(p)   == Create(p) /\ rec[h[p].req].state = "ABSENT"
Publishes(p) == Publish(p) /\ receipt[h[p].req] = 0

\* Handlers that take up neither.
LEMMA EarlyNeither ==
  ASSUME NEW x, NEW r, NEW target, Early(x, r, target), target \notin {"COMPLETED", "EVIDENCE_ASSEMBLING"}
  PROVE  ~Starts(x) /\ ~Executes(x)
BY DEF Early, Starts, Executes, Executing

LEMMA RestingNeither == ASSUME NEW r \in Requests PROVE ~Starts(Resting(r)) /\ ~Executes(Resting(r))
BY RestingOK DEF Starts, Executes, Executing

LEMMA CalmFresh ==
  ASSUME NEW p \in Procs, NEW x, h' = [h EXCEPT ![p] = x], ~Starts(x), ~Executes(x),
         UNCHANGED <<rec, receipt>>
  PROVE  Calm
BY DEF Calm, GoesOnFrom

LEMMA CalmStop ==
  ASSUME IInv, NEW p \in Procs, Ends(p) \/ Fails(p), UNCHANGED <<rec, receipt>>
  PROVE  Calm
<1>1. CASE Ends(p)
  BY <1>1, AnyRequestExists, RestingNeither, CalmFresh DEF Ends, Become
<1>2. CASE Fails(p)
  <2>. PICK r \in Requests : r = h[p].req
    BY Known
  <2>. DEFINE x == [Resting(r) EXCEPT !.pc = "read", !.target = "EXECUTION_FAILED"]
  <2>1. h' = [h EXCEPT ![p] = x]
    BY <1>2 DEF Fails, WillAdvance, Become
  <2>2. Early(x, r, "EXECUTION_FAILED")
    BY AdvancesEarly DEF States
  <2>. HIDE DEF x
  <2>3. ~Starts(x) /\ ~Executes(x)
    BY <2>2, EarlyNeither
  <2>. QED BY <2>1, <2>3, CalmFresh
<1>. QED BY <1>1, <1>2

\* An executor goes on.
LEMMA CalmOn ==
  ASSUME NEW p \in Procs, NEW x, h' = [h EXCEPT ![p] = x], x.req = h[p].req,
         x.pc \in Executing, h[p].pc \in Executing \/ rec[h[p].req].state \in Begun,
         UNCHANGED <<rec, receipt>>
  PROVE  Calm
<1>1. ~Starts(x) /\ (Executes(h[p]) \/ rec[h[p].req].state \in Begun)
  BY DEF Starts, Executes, Executing
<1>. QED BY <1>1 DEF Calm, GoesOnFrom

LEMMA CalmReply ==
  ASSUME IInv, NEW p \in Procs, NEW label \in Holding, RepliesWith(p, label), h[p].pc \in Executing,
         UNCHANGED <<rec, receipt>>
  PROVE  Calm
<1>1. CASE Fails(p)
  BY <1>1, CalmStop
<1>2. CASE ~Fails(p)
  <2>. DEFINE x == [h[p] EXCEPT !.pc = label, !.tries = 0]
  <2>1. h' = [h EXCEPT ![p] = x]
    BY <1>2 DEF RepliesWith, Become
  <2>2. x.pc = label /\ x.req = h[p].req
    BY Known, Replied
  <2>3. label \in Executing
    BY DEF Holding, Executing
  <2>. HIDE DEF x
  <2>. QED BY <2>1, <2>2, <2>3, CalmOn
<1>. QED BY <1>1, <1>2

LEMMA CalmAgain ==
  ASSUME IInv, NEW p \in Procs, TriesAgain(p), h[p].pc \in Executing, UNCHANGED <<rec, receipt>>
  PROVE  Calm
<1>1. CASE Ends(p)
  BY <1>1, CalmStop
<1>2. CASE ~Ends(p)
  <2>. DEFINE x == [h[p] EXCEPT !.pc = "allocate", !.number = 0, !.tries = @ + 1]
  <2>1. h' = [h EXCEPT ![p] = x]
    BY <1>2 DEF TriesAgain, Become
  <2>2. x.pc = "allocate" /\ x.req = h[p].req
    BY Known DEF Handlers
  <2>. HIDE DEF x
  <2>3. x.pc \in Executing
    BY <2>2 DEF Executing
  <2>. QED BY <2>1, <2>2, <2>3, CalmOn
<1>. QED BY <1>1, <1>2

LEMMA CallsCalm ==
  ASSUME IInv, NEW p \in Procs, Calls(p) \/ \E r \in Requests : RunnerPicks(p, r)
  PROVE  Calm
<1>1. ASSUME NEW x, NEW r, NEW target, Early(x, r, target),
             target \notin {"COMPLETED", "EVIDENCE_ASSEMBLING"},
             h' = [h EXCEPT ![p] = x], UNCHANGED stored
      PROVE  Calm
  BY <1>1, EarlyNeither, CalmFresh DEF stored
<1>2. ASSUME NEW r \in Requests, Confirm(p, r) PROVE Calm
  <2>. DEFINE x == [Resting(r) EXCEPT !.pc = "create"]
  <2>1. h' = [h EXCEPT ![p] = x] /\ UNCHANGED stored
    BY <1>2 DEF Confirm, Begins, Become
  <2>2. Early(x, r, "ABSENT")
    BY StartsEarly
  <2>. HIDE DEF x
  <2>. QED BY <1>1, <2>1, <2>2
<1>3. ASSUME NEW r \in Requests, NEW by \in Reviewers,
             NEW target \in States \ {"COMPLETED", "EVIDENCE_ASSEMBLING"}, Decide(p, r, by, target)
      PROVE  Calm
  <2>. DEFINE x == [Resting(r) EXCEPT !.pc = "read", !.target = target, !.by = by]
  <2>1. h' = [h EXCEPT ![p] = x] /\ UNCHANGED stored
    BY <1>3 DEF Decide, Begins, Become
  <2>2. Early(x, r, target)
    BY DecidesEarly
  <2>. HIDE DEF x
  <2>. QED BY <1>1, <2>1, <2>2
<1>4. ASSUME NEW r \in Requests, Retry(p, r) PROVE Calm
  <2>. DEFINE x == [Resting(r) EXCEPT !.pc = "read", !.target = "EXECUTING", !.by = "retry"]
  <2>1. h' = [h EXCEPT ![p] = x] /\ UNCHANGED stored
    BY <1>4 DEF Retry, Begins, Become
  <2>2. Early(x, r, "EXECUTING")
    BY DecidesEarly DEF States
  <2>. HIDE DEF x
  <2>. QED BY <1>1, <2>1, <2>2
<1>5. ASSUME NEW r \in Requests, RunnerPicks(p, r) PROVE Calm
  <2>. DEFINE x == [Resting(r) EXCEPT !.pc = "read", !.target = "EXECUTING", !.by = "runner"]
              y == [Resting(r) EXCEPT !.pc = "execute"]
  <2>1. (h' = [h EXCEPT ![p] = x] \/ h' = [h EXCEPT ![p] = y]) /\ UNCHANGED stored
    BY <1>5 DEF RunnerPicks, Become
  <2>2. Early(x, r, "EXECUTING") /\ Early(y, r, "ABSENT")
    BY DecidesEarly, StartsEarly DEF States
  <2>. HIDE DEF x, y
  <2>. QED BY <1>1, <2>1, <2>2
<1>. QED BY <1>2, <1>3, <1>4, <1>5 DEF Calls, States

LEMMA ContinuesKinds ==
  ASSUME IInv, NEW p \in Procs, Continues(p)
  PROVE  Calm \/ Creates(p) \/ Commit(p) \/ Publishes(p)
<1>1. ASSUME Create(p), ~Creates(p) PROVE Calm
  BY <1>1, CalmStop DEF Create, Creates
<1>2. ASSUME Publish(p), ~Publishes(p) PROVE Calm
  BY <1>2, CalmStop DEF Publish, Publishes
<1>3. CASE CommitConflict(p) \/ Raises(p) \/ Raised(p)
  BY <1>3, CalmStop DEF CommitConflict, Raises, Raised, stored
<1>4. CASE Investigate(p)
  <2>. PICK r \in Requests : r = h[p].req
    BY Known
  <2>1. PICK target \in {"ELIGIBILITY_VERIFIED", "EVIDENCE_HOLD"} : WillAdvance(p, target)
    BY <1>4 DEF Investigate
  <2>. DEFINE x == [Resting(r) EXCEPT !.pc = "read", !.target = target]
  <2>2. h' = [h EXCEPT ![p] = x] /\ UNCHANGED <<rec, receipt>>
    BY <1>4, <2>1 DEF Investigate, WillAdvance, Become, stored
  <2>3. Early(x, r, target)
    BY AdvancesEarly DEF States
  <2>. HIDE DEF x
  <2>. QED BY <2>2, <2>3, EarlyNeither, CalmFresh
<1>5. CASE Read(p)
  <2>. PICK s : s = rec[h[p].req]
    OBVIOUS
  <2>1. CASE Ends(p)
    BY <1>5, <2>1, CalmStop DEF Read, stored
  <2>2. CASE ~Ends(p)
    <3>. DEFINE x == [h[p] EXCEPT !.pc = "commit", !.snap = s]
    <3>1. h' = [h EXCEPT ![p] = x] /\ h[p].pc = "read" /\ UNCHANGED <<rec, receipt>>
      BY <1>5, <2>2 DEF Read, Become, At, stored
    <3>2. x.pc = "commit" /\ x.req = h[p].req /\ x.target = h[p].target
      BY Known DEF Handlers
    <3>. HIDE DEF x
    <3>3. GoesOnFrom(h[p], s, x)
      BY <3>1, <3>2 DEF GoesOnFrom, Starts, Executes, Executing
    <3>. QED BY <3>1, <3>3 DEF Calm
  <2>. QED BY <2>1, <2>2
<1>6. CASE Execute(p) \/ Lookup(p)
  <2>1. CASE Ends(p)
    BY <1>6, <2>1, CalmStop DEF Execute, Lookup, stored
  <2>2. CASE ~Ends(p)
    <3>1. PICK pc \in {"lookup", "allocate"} : h' = [h EXCEPT ![p] = [h[p] EXCEPT !.pc = pc]]
      BY <1>6, <2>2 DEF Execute, Lookup, GoesTo, Become
    <3>2. (h[p].pc \in Executing \/ rec[h[p].req].state \in Begun) /\ UNCHANGED <<rec, receipt>>
      BY <1>6, <2>2 DEF Execute, Lookup, At, Executing, Begun, stored
    <3>. DEFINE x == [h[p] EXCEPT !.pc = pc]
    <3>3. x.pc \in Executing /\ x.req = h[p].req /\ h' = [h EXCEPT ![p] = x]
      BY <3>1, Known DEF Handlers, Executing
    <3>. HIDE DEF x
    <3>. QED BY <3>2, <3>3, CalmOn
  <2>. QED BY <2>1, <2>2
<1>7. CASE Allocate(p)
  <2>1. h[p].pc \in Executing /\ UNCHANGED <<rec, receipt>>
    BY <1>7 DEF Allocate, At, Executing
  <2>2. CASE TriesAgain(p)
    BY <2>1, <2>2, CalmAgain
  <2>3. CASE Ends(p) \/ Fails(p)
    BY <2>1, <2>3, CalmStop
  <2>4. CASE Become(p, [h[p] EXCEPT !.pc = "reserve", !.number = counter])
    <3>. DEFINE x == [h[p] EXCEPT !.pc = "reserve", !.number = counter]
    <3>1. x.pc \in Executing /\ x.req = h[p].req /\ h' = [h EXCEPT ![p] = x]
      BY <2>4, Known DEF Handlers, Executing, Become
    <3>. HIDE DEF x
    <3>. QED BY <2>1, <3>1, CalmOn
  <2>. QED BY <1>7, <2>2, <2>3, <2>4 DEF Allocate
<1>8. CASE Reserve(p) \/ WriteCertificate(p) \/ WriteInvoice(p)
  <2>1. PICK label \in Holding : RepliesWith(p, label)
    BY <1>8 DEF Reserve, WriteCertificate, WriteInvoice, Holding
  <2>2. h[p].pc \in Executing /\ UNCHANGED <<rec, receipt>>
    BY <1>8 DEF Reserve, WriteCertificate, WriteInvoice, At, Executing
  <2>. QED BY <2>1, <2>2, CalmReply
<1>9. CASE ReserveConflict(p)
  BY <1>9, CalmAgain DEF ReserveConflict, At, Executing, stored
<1>10. CASE VerificationRaises(p)
  <2>. DEFINE x == [Resting(h[p].req) EXCEPT !.pc = "raised"]
  <2>1. h' = [h EXCEPT ![p] = x] /\ UNCHANGED <<rec, receipt>>
    BY <1>10 DEF VerificationRaises, Become, stored
  <2>2. Early(x, h[p].req, "ABSENT")
    BY Known, StartsEarly
  <2>. HIDE DEF x
  <2>3. ~Starts(x) /\ ~Executes(x)
    BY <2>2, EarlyNeither
  <2>. QED BY <2>1, <2>3, CalmFresh
<1>. QED BY <1>1, <1>2, <1>3, <1>4, <1>5, <1>6, <1>7, <1>8, <1>9, <1>10 DEF Continues

LEMMA PromiseKinds ==
  ASSUME IInv, [Next]_vars
  PROVE  Calm \/ \E p \in Procs : Creates(p) \/ Commit(p) \/ Publishes(p)
<1>1. CASE UNCHANGED vars
  BY <1>1 DEF Calm, vars, stored
<1>2. ASSUME NEW p \in Procs, Crash(p) PROVE Calm
  BY <1>2, CalmStop DEF Crash, stored
<1>3. Clients \subseteq Procs /\ Runners \subseteq Procs
  BY DEF Procs
<1>. QED BY <1>1, <1>2, <1>3, CallsCalm, ContinuesKinds DEF Next

\* The states of the code as the promise counts them.
LEMMA Stages ==
  /\ StageOf["ABSENT"] = "none" /\ StageOf["EVIDENCE_HOLD"] = "held"
  /\ StageOf["CUSTOMER_REQUESTED"] = "preparing" /\ StageOf["EVIDENCE_ASSEMBLING"] = "preparing"
  /\ StageOf["ELIGIBILITY_VERIFIED"] = "preparing" /\ StageOf["PACKAGE_DRAFTED"] = "preparing"
  /\ StageOf["AWAITING_OPERATIONS_APPROVAL"] = "operations"
  /\ StageOf["OPERATIONS_APPROVED"] = "manager" /\ StageOf["AWAITING_MANAGER_APPROVAL"] = "manager"
  /\ StageOf["MANAGER_APPROVED"] = "approved"
  /\ StageOf["EXECUTING"] = "executing" /\ StageOf["EXECUTION_FAILED"] = "executing"
  /\ StageOf["COMPLETED"] = "completed"
  /\ StageOf["OPERATIONS_REJECTED"] = "rejected" /\ StageOf["MANAGER_REJECTED"] = "rejected"
BY DEF StageOf, States

\* Where a commit takes a request, stage by stage.
StageMoves(from, to, state) ==
  \/ from = to
  \/ from = "preparing" /\ to \in {"held", "operations"}
  \/ from = "operations" /\ to \in {"manager", "rejected"}
  \/ from = "manager" /\ to \in {"approved", "rejected"}
  \/ from = "approved" /\ to = "executing"
  \/ from = "executing" /\ to = "completed" /\ state = "COMPLETED"

LEMMA CommitMoves ==
  ASSUME NEW s \in Records, NEW target \in States, NEW by, MayAdvance(s, target, by),
         target = "EVIDENCE_ASSEMBLING" => s.state = "CUSTOMER_REQUESTED",
         target = "COMPLETED" => s.state \in Begun
  PROVE  /\ StageMoves(StageOf[s.state], StageOf[target], target)
         /\ s.state \in Begun => target \in Begun
         /\ s.state = "CUSTOMER_REQUESTED" => target = "EVIDENCE_ASSEMBLING"
<1>1. CASE target = "COMPLETED"
  <2>1. s.state = "EXECUTING" \/ s.state = "EXECUTION_FAILED" \/ s.state = "COMPLETED"
    BY <1>1 DEF Begun
  <2>. QED BY <1>1, <2>1, Stages DEF StageMoves, Begun
<1>2. CASE target = "EXECUTING"
  <2>1. s.state = "MANAGER_APPROVED" \/ s.state = "EXECUTION_FAILED"
    BY <1>2, MayAdvanceMeans
  <2>. QED BY <1>2, <2>1, Stages DEF StageMoves, Begun
<1>3. CASE target \notin {"COMPLETED", "EXECUTING"}
  <2>1. <<s.state, target>> \in Table
    BY <1>3, MayAdvanceMeans
  <2>2. target = "EXECUTION_FAILED" => s.state = "EXECUTING"
    BY <2>1, TableMeans
  <2>3. /\ target = "EVIDENCE_HOLD" =>
             s.state \in {"EVIDENCE_ASSEMBLING", "ELIGIBILITY_VERIFIED", "PACKAGE_DRAFTED"}
        /\ target = "ELIGIBILITY_VERIFIED" => s.state = "EVIDENCE_ASSEMBLING"
        /\ target = "PACKAGE_DRAFTED" => s.state = "ELIGIBILITY_VERIFIED"
        /\ target = "AWAITING_OPERATIONS_APPROVAL" => s.state = "PACKAGE_DRAFTED"
    BY <2>1 DEF Table
  <2>4. /\ target \in {"OPERATIONS_APPROVED", "OPERATIONS_REJECTED"} =>
             s.state = "AWAITING_OPERATIONS_APPROVAL"
        /\ target = "AWAITING_MANAGER_APPROVAL" => s.state = "OPERATIONS_APPROVED"
        /\ target \in {"MANAGER_APPROVED", "MANAGER_REJECTED"} => s.state = "AWAITING_MANAGER_APPROVAL"
    BY <2>1, TableMeans
  <2>5. target \notin {"ABSENT", "CUSTOMER_REQUESTED"}
    BY <2>1 DEF Table
  <2>6. target \in {"EVIDENCE_ASSEMBLING", "ELIGIBILITY_VERIFIED", "PACKAGE_DRAFTED",
                    "AWAITING_OPERATIONS_APPROVAL", "OPERATIONS_APPROVED",
                    "AWAITING_MANAGER_APPROVAL", "MANAGER_APPROVED", "EVIDENCE_HOLD",
                    "OPERATIONS_REJECTED", "MANAGER_REJECTED", "EXECUTION_FAILED"}
    BY <1>3, <2>5 DEF States
  <2>7. s.state \in Begun => target = "EXECUTION_FAILED"
    BY <2>2, <2>3, <2>4, <2>6 DEF Begun
  <2>8. s.state = "CUSTOMER_REQUESTED" => target = "EVIDENCE_ASSEMBLING"
    BY <2>2, <2>3, <2>4, <2>6
  <2>9. StageMoves(StageOf[s.state], StageOf[target], target)
    BY <2>2, <2>3, <2>4, <2>6, Stages DEF StageMoves
  <2>. QED BY <2>7, <2>8, <2>9 DEF Begun
<1>. QED BY <1>1, <1>2, <1>3

\* What a commit does to its request, and its handler after it.
LEMMA CommitMeans ==
  ASSUME IInv, PromiseInv, NEW p \in Procs, Commit(p)
  PROVE  \E r \in Requests, target \in States :
           /\ r = h[p].req /\ UNCHANGED receipt
           /\ rec'[r].state = target /\ \A q \in Requests : q # r => rec'[q] = rec[q]
           /\ StageMoves(StageOf[rec[r].state], StageOf[target], target)
           /\ rec[r].state \in Begun => target \in Begun
           /\ rec[r].state = "CUSTOMER_REQUESTED" => Starts(h[p])
           /\ ~Starts(h'[p]) /\ ~Executes(h'[p]) /\ \A q \in Procs : q # p => h'[q] = h[q]
<1>. PICK r \in Requests : r = h[p].req
  BY Known
<1>. PICK s \in Records : s = rec[r]
  BY Known
<1>. PICK target \in States : target = h[p].target
  BY Known DEF Handlers
<1>. PICK new : new = Advanced(s, target, h[p].by)
  OBVIOUS
<1>1. /\ h[p].pc = "commit" /\ rec[r].rev = h[p].snap.rev
      /\ rec' = [rec EXCEPT ![r] = Advanced(h[p].snap, target, h[p].by)]
      /\ Follows(p) /\ UNCHANGED receipt
  BY DEF Commit, Replaces, At
<1>2. h[p].snap = s /\ MayAdvance(s, target, h[p].by)
  BY <1>1, Known DEF HandlerOK
<1>3. rec' = [rec EXCEPT ![r] = new] /\ new.state = target /\ rec \in [Requests -> Records]
  BY <1>1, <1>2, AdvancedMeans DEF IInv, TypeOK
<1>4. rec'[r].state = target /\ \A q \in Requests : q # r => rec'[q] = rec[q]
  BY <1>3
<1>5. /\ target = "EVIDENCE_ASSEMBLING" <=> Starts(h[p])
      /\ target = "COMPLETED" => Executes(h[p])
  BY <1>1 DEF Starts, Executes
<1>6. /\ target = "EVIDENCE_ASSEMBLING" => s.state = "CUSTOMER_REQUESTED"
      /\ target = "COMPLETED" => s.state \in Begun
  BY <1>5 DEF PromiseInv
<1>7. /\ StageMoves(StageOf[s.state], StageOf[target], target)
      /\ s.state \in Begun => target \in Begun
      /\ s.state = "CUSTOMER_REQUESTED" => target = "EVIDENCE_ASSEMBLING"
  BY <1>2, <1>6, CommitMoves
<1>8. PICK x : /\ h' = [h EXCEPT ![p] = x]
               /\ \/ \E t \in States \ {"COMPLETED", "EVIDENCE_ASSEMBLING"} : Early(x, r, t)
                  \/ x = Resting(AnyRequest)
  BY <1>1, FollowsMeans
<1>9. ~Starts(x) /\ ~Executes(x)
  BY <1>8, EarlyNeither, RestingNeither, AnyRequestExists
<1>10. h'[p] = x /\ \A q \in Procs : q # p => h'[q] = h[q]
  BY <1>8 DEF IInv, TypeOK
<1>. QED BY <1>1, <1>4, <1>5, <1>7, <1>9, <1>10

-----------------------------------------------------------------------------
(* Every step keeps the facts of the promise.                              *)

LEMMA InitPromiseInv == Init => PromiseInv
<1>. SUFFICES ASSUME Init PROVE PromiseInv
  OBVIOUS
<1>1. \A p \in Procs : ~Starts(h[p]) /\ ~Executes(h[p])
  BY AnyRequestExists, RestingNeither DEF Init
<1>. QED BY <1>1 DEF Init, PromiseInv

LEMMA StepPromiseInv == IInv /\ PromiseInv /\ [Next]_vars => PromiseInv'
<1>. SUFFICES ASSUME IInv, PromiseInv, [Next]_vars PROVE PromiseInv'
  OBVIOUS
<1>0. /\ IInv' /\ h \in [Procs -> Handlers] /\ h' \in [Procs -> Handlers]
      /\ \A r \in Requests : reserved[r] \subseteq reserved'[r]
      /\ \A p \in Procs : h[p].req \in Requests /\ h'[p].req \in Requests
  <2>1. IInv' /\ \A r \in Requests : reserved[r] \subseteq reserved'[r]
    BY StepIInv DEF Grows
  <2>2. h \in [Procs -> Handlers] /\ h' \in [Procs -> Handlers]
    BY <2>1 DEF IInv, TypeOK
  <2>. QED BY <2>1, <2>2 DEF Handlers
<1>1. CASE Calm
  <2>1. \A r \in Requests : receipt'[r] # 0 => receipt'[r] \in reserved'[r] /\ rec'[r].state \in Begun
    BY <1>0, <1>1 DEF Calm, PromiseInv
  <2>2. CASE UNCHANGED h
    BY <1>1, <2>1, <2>2 DEF Calm, PromiseInv
  <2>3. CASE \E p \in Procs : \E x : h' = [h EXCEPT ![p] = x] /\ GoesOnFrom(h[p], rec[h[p].req], x)
    <3>0. PICK p \in Procs : \E x : h' = [h EXCEPT ![p] = x] /\ GoesOnFrom(h[p], rec[h[p].req], x)
      BY <2>3
    <3>1. PICK x : h' = [h EXCEPT ![p] = x] /\ GoesOnFrom(h[p], rec[h[p].req], x)
      BY <3>0
    <3>2. h'[p] = x /\ \A q \in Procs : q # p => h'[q] = h[q]
      BY <1>0, <3>1
    <3>3. rec' = rec
      BY <1>1 DEF Calm
    <3>4. \A q \in Procs : Executes(h'[q]) => rec'[h'[q].req].state \in Begun
      BY <3>1, <3>2, <3>3 DEF GoesOnFrom, PromiseInv
    <3>5. \A q \in Procs : Starts(h'[q]) => Starts(h[q]) /\ h'[q].req = h[q].req
      BY <3>1, <3>2 DEF GoesOnFrom
    <3>. QED BY <2>1, <3>3, <3>4, <3>5 DEF PromiseInv
  <2>. QED BY <1>1, <2>2, <2>3 DEF Calm
<1>2. ASSUME NEW p \in Procs, Creates(p) PROVE PromiseInv'
  <2>. PICK r \in Requests : r = h[p].req
    BY <1>0
  <2>. DEFINE x == [Resting(r) EXCEPT !.pc = "read", !.target = "EVIDENCE_ASSEMBLING"]
  <2>1. /\ rec' = [rec EXCEPT ![r] = [NoRecord EXCEPT !.rev = 1, !.state = "CUSTOMER_REQUESTED"]]
        /\ h' = [h EXCEPT ![p] = x] /\ UNCHANGED receipt /\ rec[r].state = "ABSENT"
    BY <1>2 DEF Creates, Create, WillAdvance, Become
  <2>2. Early(x, r, "EVIDENCE_ASSEMBLING")
    BY AdvancesEarly DEF States
  <2>. HIDE DEF x
  <2>3. ~Executes(x) /\ x.req = r
    BY <2>2 DEF Early, Executes, Executing
  <2>4. h'[p] = x /\ \A q \in Procs : q # p => h'[q] = h[q]
    BY <1>0, <2>1
  <2>5. rec'[r].state = "CUSTOMER_REQUESTED" /\ \A q \in Requests : q # r => rec'[q] = rec[q]
    BY <2>1 DEF IInv, TypeOK, NoRecord
  <2>6. \A q \in Procs : Starts(h[q]) \/ Executes(h[q]) => h[q].req # r
    BY <2>1 DEF PromiseInv, Begun
  <2>7. receipt[r] = 0
    BY <2>1 DEF PromiseInv, Begun
  <2>8. \A q \in Requests : receipt'[q] # 0 => receipt'[q] \in reserved'[q] /\ rec'[q].state \in Begun
    BY <1>0, <2>1, <2>5, <2>7 DEF PromiseInv
  <2>9. \A q \in Procs : Executes(h'[q]) => rec'[h'[q].req].state \in Begun
    BY <1>0, <2>3, <2>4, <2>5, <2>6 DEF PromiseInv
  <2>10. \A q \in Procs : Starts(h'[q]) => rec'[h'[q].req].state = "CUSTOMER_REQUESTED"
    BY <1>0, <2>3, <2>4, <2>5, <2>6 DEF PromiseInv
  <2>11. \A q, s \in Procs : q # s /\ Starts(h'[q]) /\ Starts(h'[s]) => h'[q].req # h'[s].req
    BY <2>3, <2>4, <2>6 DEF PromiseInv
  <2>. QED BY <2>8, <2>9, <2>10, <2>11 DEF PromiseInv
<1>3. ASSUME NEW p \in Procs, Commit(p) PROVE PromiseInv'
  <2>1. PICK r \in Requests, target \in States :
           /\ r = h[p].req /\ UNCHANGED receipt
           /\ rec'[r].state = target /\ \A q \in Requests : q # r => rec'[q] = rec[q]
           /\ StageMoves(StageOf[rec[r].state], StageOf[target], target)
           /\ rec[r].state \in Begun => target \in Begun
           /\ rec[r].state = "CUSTOMER_REQUESTED" => Starts(h[p])
           /\ ~Starts(h'[p]) /\ ~Executes(h'[p])
           /\ \A q \in Procs : q # p => h'[q] = h[q]
    BY <1>3, CommitMeans
  <2>2. \A q \in Requests : rec[q].state \in Begun => rec'[q].state \in Begun
    BY <2>1
  <2>3. \A q \in Requests : receipt'[q] # 0 => receipt'[q] \in reserved'[q] /\ rec'[q].state \in Begun
    BY <1>0, <2>1, <2>2 DEF PromiseInv
  <2>4. \A q \in Procs : Executes(h'[q]) => rec'[h'[q].req].state \in Begun
    BY <1>0, <2>1, <2>2 DEF PromiseInv
  <2>5. \A q \in Procs : Starts(h'[q]) => q # p /\ h[q].req # r /\ h'[q] = h[q]
    BY <2>1 DEF PromiseInv
  <2>6. \A q \in Procs : Starts(h'[q]) => rec'[h'[q].req].state = "CUSTOMER_REQUESTED"
    BY <1>0, <2>1, <2>5 DEF PromiseInv
  <2>7. \A q, s \in Procs : q # s /\ Starts(h'[q]) /\ Starts(h'[s]) => h'[q].req # h'[s].req
    BY <2>5 DEF PromiseInv
  <2>. QED BY <2>3, <2>4, <2>6, <2>7 DEF PromiseInv
<1>4. ASSUME NEW p \in Procs, Publishes(p) PROVE PromiseInv'
  <2>. PICK r \in Requests : r = h[p].req
    BY <1>0
  <2>. PICK n : n = h[p].number
    OBVIOUS
  <2>1. PICK target \in {"COMPLETED", "EXECUTION_FAILED"} :
          h' = [h EXCEPT ![p] = [Resting(r) EXCEPT !.pc = "read", !.target = target]]
    BY <1>4 DEF Publishes, Publish, Fails, WillAdvance, Become
  <2>. DEFINE x == [Resting(r) EXCEPT !.pc = "read", !.target = target]
  <2>2. Early(x, r, target)
    BY AdvancesEarly DEF States
  <2>3. h' = [h EXCEPT ![p] = x]
    BY <2>1
  <2>. HIDE DEF x
  <2>4. ~Starts(x) /\ x.req = r
    BY <2>2 DEF Early, Starts
  <2>5. /\ receipt' = [receipt EXCEPT ![r] = n] /\ receipt \in [Requests -> 0..MaxNumber]
        /\ rec' = rec /\ h[p].pc = "publish"
    BY <1>4 DEF Publishes, Publish, At, IInv, TypeOK
  <2>6. n \in reserved[r] /\ rec[r].state \in Begun
    BY <2>5, Known DEF HandlerOK, Holding, PromiseInv, Executes, Executing
  <2>7. h'[p] = x /\ \A q \in Procs : q # p => h'[q] = h[q]
    BY <1>0, <2>3
  <2>8. receipt'[r] = n /\ \A q \in Requests : q # r => receipt'[q] = receipt[q]
    BY <2>5
  <2>9. \A q \in Requests : receipt'[q] # 0 => receipt'[q] \in reserved'[q] /\ rec'[q].state \in Begun
    BY <1>0, <2>5, <2>6, <2>8 DEF PromiseInv
  <2>10. \A q \in Procs : Executes(h'[q]) => rec'[h'[q].req].state \in Begun
    BY <2>4, <2>5, <2>6, <2>7 DEF PromiseInv
  <2>11. \A q \in Procs : Starts(h'[q]) => Starts(h[q]) /\ h'[q] = h[q]
    BY <2>4, <2>7
  <2>. QED BY <2>5, <2>9, <2>10, <2>11 DEF PromiseInv
<1>. QED BY <1>1, <1>2, <1>3, <1>4, PromiseKinds

\* An executor at work and a receipt mean an execution that has begun; a request
\* has one handler at most that starts its preparation.
THEOREM PromiseInvariance == Spec => []PromiseInv
<1>1. IInv /\ PromiseInv /\ [Next]_vars => PromiseInv'
  BY StepPromiseInv
<1>. QED BY <1>1, InitPromiseInv, Invariance, PTL DEF Spec

-----------------------------------------------------------------------------
(* Every step is one of the promise's, or none.                            *)

LEMMA PromiseInit == Init => Promise!Init
<1>. SUFFICES ASSUME Init PROVE Promise!Init
  OBVIOUS
<1>1. \A r \in Requests : rec[r].state = "ABSENT"
  BY DEF Init, NoRecord
<1>. QED BY <1>1, Stages DEF Promise!Init, Init

\* A stage of one request moves and no receipt is published.
LEMMA PromiseMove ==
  ASSUME NEW r \in Requests, rec \in [Requests -> Records], UNCHANGED receipt,
         \A q \in Requests : q # r => rec'[q] = rec[q],
         NEW from, from = StageOf[rec[r].state], NEW to, to = StageOf[rec'[r].state]
  PROVE  Promise!Moves(r, from, to)
<1>. DEFINE stages == [q \in Requests |-> StageOf[rec[q].state]]
<1>1. [q \in Requests |-> StageOf[rec'[q].state]] = [stages EXCEPT ![r] = to]
  OBVIOUS
<1>. QED BY <1>1 DEF Promise!Moves

LEMMA PromiseStep == IInv /\ PromiseInv /\ [Next]_vars => [Promise!Next]_(Promise!promiseVars)
<1>. SUFFICES ASSUME IInv, PromiseInv, [Next]_vars PROVE [Promise!Next]_(Promise!promiseVars)
  OBVIOUS
<1>0. rec \in [Requests -> Records] /\ receipt \in [Requests -> 0..MaxNumber]
  BY DEF IInv, TypeOK
<1>1. CASE Calm
  BY <1>1 DEF Calm, Promise!promiseVars
<1>2. ASSUME NEW p \in Procs, Creates(p) PROVE Promise!Next
  <2>. PICK r \in Requests : r = h[p].req
    BY Known
  <2>1. /\ rec' = [rec EXCEPT ![r] = [NoRecord EXCEPT !.rev = 1, !.state = "CUSTOMER_REQUESTED"]]
        /\ UNCHANGED receipt /\ rec[r].state = "ABSENT"
    BY <1>2 DEF Creates, Create
  <2>2. rec'[r].state = "CUSTOMER_REQUESTED" /\ \A q \in Requests : q # r => rec'[q] = rec[q]
    BY <1>0, <2>1 DEF NoRecord
  <2>3. Promise!Moves(r, "none", "preparing")
    BY <1>0, <2>1, <2>2, Stages, PromiseMove
  <2>. QED BY <2>3 DEF Promise!Next, Promise!Ask
<1>3. ASSUME NEW p \in Procs, Commit(p) PROVE [Promise!Next]_(Promise!promiseVars)
  <2>1. PICK r \in Requests, target \in States :
           /\ UNCHANGED receipt
           /\ rec'[r].state = target /\ \A q \in Requests : q # r => rec'[q] = rec[q]
           /\ StageMoves(StageOf[rec[r].state], StageOf[target], target)
    BY <1>3, CommitMeans
  <2>2. PICK from : from = StageOf[rec[r].state]
    OBVIOUS
  <2>3. PICK to : to = StageOf[target]
    OBVIOUS
  <2>4. Promise!Moves(r, from, to)
    BY <1>0, <2>1, <2>2, <2>3, PromiseMove
  <2>5. CASE from = to
    <3>1. \A q \in Requests : StageOf[rec'[q].state] = StageOf[rec[q].state]
      BY <2>1, <2>2, <2>3, <2>5
    <3>. QED BY <2>1, <3>1 DEF Promise!promiseVars
  <2>6. CASE from = "preparing" /\ to \in {"held", "operations"}
    BY <2>4, <2>6 DEF Promise!Next, Promise!Hold, Promise!Submit
  <2>7. CASE from = "operations" /\ to \in {"manager", "rejected"}
    BY <2>4, <2>7 DEF Promise!Next, Promise!OperationsDecides
  <2>8. CASE from = "manager" /\ to \in {"approved", "rejected"}
    BY <2>4, <2>8 DEF Promise!Next, Promise!ManagerDecides
  <2>9. CASE from = "approved" /\ to = "executing"
    BY <2>4, <2>9 DEF Promise!Next, Promise!Execute
  <2>10. CASE from = "executing" /\ to = "completed" /\ target = "COMPLETED"
    <3>1. receipt[r] # 0
      <4>1. RequestOK(r)'
        BY StepIInv DEF IInv
      <4>. QED BY <2>1, <2>10, <4>1 DEF RequestOK
    <3>. QED BY <2>4, <2>10, <3>1 DEF Promise!Next, Promise!Complete
  <2>. QED BY <2>1, <2>2, <2>3, <2>5, <2>6, <2>7, <2>8, <2>9, <2>10 DEF StageMoves
<1>4. ASSUME NEW p \in Procs, Publishes(p) PROVE [Promise!Next]_(Promise!promiseVars)
  <2>. PICK r \in Requests : r = h[p].req
    BY Known
  <2>. PICK n : n = h[p].number
    OBVIOUS
  <2>1. /\ receipt' = [receipt EXCEPT ![r] = n] /\ receipt[r] = 0
        /\ rec' = rec /\ h[p].pc = "publish"
    BY <1>4 DEF Publishes, Publish, At
  <2>2. n \in reserved[r] /\ rec[r].state \in Begun
    BY <2>1, Known DEF HandlerOK, Holding, PromiseInv, Executes, Executing
  <2>3. n \in Numbers /\ n # 0
    BY <2>2, CoverageAssumption DEF IInv, TypeOK, Numbers
  <2>4. \A s \in Requests : receipt[s] # n
    BY <2>1, <2>2, <2>3 DEF PromiseInv, IInv, NumbersOK
  <2>5. rec[r].state # "COMPLETED"
    BY <2>1 DEF IInv, RequestOK
  <2>6. StageOf[rec[r].state] = "executing"
    BY <2>2, <2>5, Stages DEF Begun
  <2>7. Promise!Issue(r, n)
    BY <2>1, <2>4, <2>6 DEF Promise!Issue
  <2>. QED BY <2>3, <2>7 DEF Promise!Next
<1>. QED BY <1>1, <1>2, <1>3, <1>4, PromiseKinds

\* The code keeps the promise: one preparation, two decisions in order, one
\* invoice number that no other request has, and completion only with it.
THEOREM RenewalKeepsPromise == Spec => ImplementsPromise
<1>1. IInv /\ PromiseInv /\ [Next]_vars => [Promise!Next]_(Promise!promiseVars)
  BY PromiseStep
<1>. QED BY <1>1, PromiseInit, Invariance, PromiseInvariance, PTL DEF Spec, ImplementsPromise, Promise!Spec

=============================================================================
