-------------------------- MODULE RenewalRunProofs --------------------------
(***************************************************************************)
(* Proofs about RenewalRun for every number of handlers, actions and       *)
(* versions and every bound.                                               *)
(*                                                                         *)
(* The argument: a snapshot that still has the stored revision IS the      *)
(* stored record (Fresh), so a commit that succeeds acts on the record its *)
(* guards were checked on (Pending).  Hence only one handler ever commits  *)
(* execution.started, and what that handler is doing tells how far each    *)
(* action has come (Executing).  RecordOK says what the record alone tells *)
(* once the handler is gone.                                               *)
(***************************************************************************)
EXTENDS RenewalRun, TLAPS

\* The states in which a decision of each kind is stored.
DecisionOf(state) ==
  CASE state \in {"APPROVED", "EXECUTING", "EXECUTED", "EXECUTION_FAILED"} -> "approve"
    [] state = "CLOSED_REJECTED" -> "reject"
    [] OTHER -> "none"

\* What holds of a stored record r, given the effects e, the brief documents b
\* and the consented version c.
RecordOK(r, e, b, c) ==
  /\ r.rev = 0 => r = NoRecord
  /\ r.dec = DecisionOf(r.state)
  /\ r.ptr \in b \cup {0}
  /\ r.dec # "none" => /\ r.appr # 0 /\ r.appr = c /\ r.env = c /\ r.ptr = c
                       /\ r.envEvidence = r.evidence
  /\ r.state \notin {"EXECUTING", "EXECUTED", "EXECUTION_FAILED"} =>
       \A k \in Keys : e[k] = 0 /\ r.status[k] = "none"
  /\ \A k \in Keys : r.status[k] # "none" => k[2] = r.appr
  /\ \A k \in Keys : /\ e[k] \in {0, 1}
                     /\ r.status[k] = "none" => e[k] = 0
                     /\ r.status[k] = "completed" => e[k] = 1
  /\ \A i \in 1..NumActions, v \in Versions : r.status[<<i, v>>] # "none" =>
       \A j \in 1..(i - 1) : r.status[<<j, v>>] = "completed"
  /\ r.state = "EXECUTION_FAILED" => \E k \in Keys : r.status[k] = "unknown"
  /\ r.state = "EXECUTED" => \A i \in 1..NumActions : r.status[<<i, r.appr>>] = "completed"

\* The snapshot of handler g is the stored record r or older than it.
Fresh(g, r) ==
  /\ g.snap.rev <= r.rev
  /\ g.snap.rev = r.rev => g.snap = r

\* What the checks of handler g established about the snapshot it commits.
Pending(g) ==
  /\ g.pc = "run.detected" => g.snap.state = "ABSENT"
  /\ g.pc = "agent.started" => g.snap.state \in {"DETECTED", "EVIDENCE_HOLD"}
  /\ g.pc = "evidence.validated" => g.snap.state = "CONTEXT_ASSEMBLING"
  /\ g.pc = "policy.verified" => g.snap.state = "CONTEXT_ASSEMBLED"
  /\ g.pc \in {"brief.versioned", "approval.requested"} => g.snap.state = "POLICY_VERIFIED"
  /\ g.pc \in {"brief.versioned", "approval.requested", "posting"} => g.snap.env # 0
  /\ g.pc = "approval.recorded" =>
       /\ g.snap.state = "AWAITING_APPROVAL"
       /\ g.verb \in {"approve", "reject"}
       /\ g.ver # 0 /\ g.ver = g.snap.env /\ g.ver = g.snap.ptr
       /\ g.snap.envEvidence = g.snap.evidence
  /\ g.pc = "execution.started" =>
       /\ g.snap.state \in {"APPROVED", "EXECUTION_FAILED"}
       /\ g.ver = g.snap.env
       /\ g.step = 1
       /\ \A k \in Keys : g.snap.status[k] \notin {"started", "unknown"}
  /\ g.pc \notin ExecutionPoints => g.step = 1

\* How far a handler g past execution.started has come in the record r.
Executing(g, r, e) ==
  g.pc \in ExecutionPoints =>
    /\ r.state = "EXECUTING"
    /\ g.ver \in Versions /\ g.ver = r.appr
    /\ \A j \in 1..NumActions :
         /\ j < g.step => r.status[<<j, g.ver>>] = "completed"
         /\ j > g.step => r.status[<<j, g.ver>>] = "none"
    /\ g.pc = "dispatch" =>
         /\ g.snap.status = r.status
         /\ g.step <= NumActions => r.status[<<g.step, g.ver>>] = "none"
    /\ g.pc = "calling" =>
         /\ g.step <= NumActions
         /\ r.status[<<g.step, g.ver>>] = "started" /\ e[<<g.step, g.ver>>] = 0
    /\ g.pc \in {"event", "event commit"} =>
         /\ g.event = "action.started" =>
              g.step <= NumActions /\ r.status[<<g.step, g.ver>>] = "none"
         /\ g.event \in {"action.completed", "execution.failed"} =>
              g.step <= NumActions /\ r.status[<<g.step, g.ver>>] = "started"
         /\ g.event = "action.completed" => e[<<g.step, g.ver>>] = 1
         /\ g.event = "execution.completed" => g.step = NumActions + 1
    /\ g.pc = "event commit" => g.tries < MaxTries

\* The states before a decision.
Undecided ==
  {"ABSENT", "DETECTED", "CONTEXT_ASSEMBLING", "CONTEXT_ASSEMBLED",
   "POLICY_VERIFIED", "AWAITING_APPROVAL", "EVIDENCE_HOLD"}

HandlerOK(g, r, e) == Fresh(g, r) /\ Pending(g) /\ Executing(g, r, e)

\* The inductive invariant.
IInv ==
  /\ TypeOK
  /\ RecordOK(rec, effects, briefs, consent)
  /\ \A p \in Procs : HandlerOK(h[p], rec, effects)
  /\ SoleExecutor

-----------------------------------------------------------------------------
(* Types.                                                                  *)

\* The empty record and the idle handler are well typed.
LEMMA NoRecordType == NoRecord \in Records /\ Idle \in Handlers
<1>1. NoRecord \in Records
  BY RunAssumption DEF NoRecord, Records, RunStates, Decisions, Statuses
<1>2. QED
  BY <1>1, RunAssumption
     DEF Idle, Handlers, Labels, Decisions, ExecutionEvents

\* A commit of a well-typed record stores a well-typed one, one revision on.
LEMMA CommitType ==
  ASSUME TypeOK, NEW p \in Procs, NEW new \in Records, new.rev = h[p].snap.rev,
         Commit(p, new)
  PROVE  /\ rec' \in Records
         /\ rec' = [new EXCEPT !.rev = rec.rev + 1]
         /\ rec'.rev = rec.rev + 1
         /\ rec'.state = new.state /\ rec'.env = new.env
         /\ rec.rev = h[p].snap.rev
BY DEF TypeOK, Commit, Records, Handlers

\* Another handler's invariant survives a commit that leaves the execution alone.
LEMMA OthersKept ==
  ASSUME NEW g \in Handlers, NEW r \in Records, NEW s \in Records,
         NEW e, NEW f,
         HandlerOK(g, r, e),
         s.rev = r.rev + 1,
         g.pc \in ExecutionPoints =>
           s.state = r.state /\ s.status = r.status /\ s.appr = r.appr /\ f = e
  PROVE  HandlerOK(g, s, f)
<1>1. Fresh(g, s)
  BY DEF HandlerOK, Fresh, Records, Handlers
<1>2. Pending(g)
  BY DEF HandlerOK
<1>3. Executing(g, s, f)
  BY DEF HandlerOK, Executing
<1>4. QED
  BY <1>1, <1>2, <1>3 DEF HandlerOK

\* The invariant after a step of handler p that leaves it as g.
LEMMA HandlerStep ==
  ASSUME IInv, NEW p \in Procs, NEW g \in Handlers, h' = [h EXCEPT ![p] = g],
         rec' \in Records, briefs' \in SUBSET Versions, cards' \in SUBSET Versions,
         effects' \in [Keys -> Nat], lapsed' \in SUBSET Versions, sources' \in SourceStates,
         inputs' \in Nat, crashes' \in Nat, consent' \in 0..MaxVersion,
         RecordOK(rec', effects', briefs', consent'),
         HandlerOK(g, rec', effects'),
         \A q \in Procs \ {p} : HandlerOK(h[q], rec', effects'),
         g.pc \in ExecutionPoints =>
           \A q \in Procs \ {p} : h[q].pc \notin ExecutionPoints
  PROVE  IInv'
<1>1. h' \in [Procs -> Handlers] /\ h'[p] = g /\ \A q \in Procs \ {p} : h'[q] = h[q]
  BY DEF IInv, TypeOK
<1>2. TypeOK'
  BY <1>1 DEF TypeOK
<1>3. \A q \in Procs : HandlerOK(h'[q], rec', effects')
  BY <1>1
<1>4. SoleExecutor'
  BY <1>1 DEF IInv, SoleExecutor
<1>5. QED
  BY <1>2, <1>3, <1>4 DEF IInv

\* A step of p that leaves the record, the effects and the history alone.
LEMMA LocalStep ==
  ASSUME IInv, NEW p \in Procs, NEW g \in Handlers, h' = [h EXCEPT ![p] = g],
         UNCHANGED <<rec, briefs, effects, consent>>,
         cards' \in SUBSET Versions, lapsed' \in SUBSET Versions, sources' \in SourceStates,
         inputs' \in Nat, crashes' \in Nat,
         HandlerOK(g, rec, effects),
         g.pc \in ExecutionPoints => h[p].pc \in ExecutionPoints
  PROVE  IInv'
<1>1. RecordOK(rec', effects', briefs', consent')
  BY DEF IInv
<1>2. HandlerOK(g, rec', effects') /\ \A q \in Procs \ {p} : HandlerOK(h[q], rec', effects')
  BY DEF IInv
<1>3. g.pc \in ExecutionPoints => \A q \in Procs \ {p} : h[q].pc \notin ExecutionPoints
  BY DEF IInv, SoleExecutor
<1>4. QED
  BY <1>1, <1>2, <1>3, HandlerStep DEF IInv, TypeOK

\* A step of p that commits the record new, made from its snapshot.
LEMMA CommitStep ==
  ASSUME IInv, NEW p \in Procs, NEW new \in Records, NEW g \in Handlers,
         new.rev = h[p].snap.rev, Stored(p, new), h' = [h EXCEPT ![p] = g],
         briefs' \in SUBSET Versions, consent' \in 0..MaxVersion,
         RecordOK(rec', effects, briefs', consent'),
         HandlerOK(g, rec', effects),
         g.pc \in ExecutionPoints =>
           h[p].pc \in ExecutionPoints \/ rec.state # "EXECUTING",
         \/ h[p].pc \in ExecutionPoints
         \/ rec.state # "EXECUTING"
         \/ new.state = rec.state /\ new.status = rec.status /\ new.appr = rec.appr
  PROVE  IInv'
<1>1. rec' \in Records /\ rec' = [new EXCEPT !.rev = rec.rev + 1]
  BY CommitType DEF IInv, Stored
<1>2. /\ rec'.rev = rec.rev + 1
      /\ rec'.state = new.state /\ rec'.status = new.status /\ rec'.appr = new.appr
  BY <1>1 DEF IInv, TypeOK, Records
<1>3. ASSUME NEW q \in Procs \ {p} PROVE HandlerOK(h[q], rec', effects)
  <2>1. h[q] \in Handlers /\ HandlerOK(h[q], rec, effects) /\ rec \in Records
    BY DEF IInv, TypeOK
  <2>2. h[q].pc \in ExecutionPoints =>
          rec.state = "EXECUTING" /\ h[p].pc \notin ExecutionPoints
    BY <2>1 DEF IInv, SoleExecutor, HandlerOK, Executing
  <2>3. QED
    BY <1>1, <1>2, <2>1, <2>2, OthersKept
<1>4. ASSUME g.pc \in ExecutionPoints, NEW q \in Procs \ {p}
      PROVE  h[q].pc \notin ExecutionPoints
  BY <1>4 DEF IInv, SoleExecutor, HandlerOK, Executing
<1>5. UNCHANGED <<cards, effects, lapsed, sources, inputs, crashes>>
  BY DEF Stored
<1>6. QED
  BY <1>1, <1>3, <1>4, <1>5, HandlerStep DEF IInv, TypeOK

\* A commit that succeeds acts on the record its handler had read.
LEMMA SnapshotIsCurrent ==
  ASSUME IInv, NEW p \in Procs, rec.rev = h[p].snap.rev
  PROVE  /\ h[p].snap = rec /\ rec \in Records
         /\ h[p] \in Handlers /\ Pending(h[p]) /\ Executing(h[p], rec, effects)
         /\ RecordOK(rec, effects, briefs, consent)
BY DEF IInv, TypeOK, HandlerOK, Fresh

\* An idle handler owes the invariant nothing.
LEMMA IdleOK == ASSUME IInv PROVE HandlerOK(Idle, rec, effects)
<1>1. Fresh(Idle, rec)
  BY NoRecordType DEF IInv, TypeOK, RecordOK, Fresh, Idle, NoRecord, Records
<1>2. Pending(Idle) /\ Executing(Idle, rec, effects)
  BY DEF Pending, Executing, Idle, ExecutionPoints
<1>3. QED
  BY <1>1, <1>2 DEF HandlerOK

-----------------------------------------------------------------------------
(* Steps that commit nothing.                                              *)

\* Ending a handler is always safe: what it started stays on record.
LEMMA EndsStep ==
  ASSUME IInv, NEW p \in Procs, Ends(p), UNCHANGED <<rec, briefs, effects, consent>>,
         cards' \in SUBSET Versions, lapsed' \in SUBSET Versions, sources' \in SourceStates,
         inputs' \in Nat, crashes' \in Nat
  PROVE  IInv'
<1>1. Idle.pc \notin ExecutionPoints
  BY DEF Idle, ExecutionPoints
<1>2. QED
  BY <1>1, LocalStep, IdleOK, NoRecordType DEF Ends, Become

\* Reading the record for a commit whose precondition the record satisfies.
LEMMA ReadStep ==
  ASSUME IInv, NEW p \in Procs, NEW g \in Handlers, h' = [h EXCEPT ![p] = g],
         UNCHANGED <<rec, briefs, effects, consent, lapsed, sources, crashes>>,
         cards' \in SUBSET Versions, inputs' \in Nat,
         g.snap \in {rec, NoRecord}, Pending(g), g.pc \notin ExecutionPoints
  PROVE  IInv'
<1>1. Fresh(g, rec)
  BY NoRecordType DEF IInv, TypeOK, RecordOK, Fresh, NoRecord, Records
<1>2. Executing(g, rec, effects)
  BY DEF Executing
<1>3. QED
  BY <1>1, <1>2, LocalStep DEF HandlerOK, IInv, TypeOK

\* A client's request, an agent's callback or a click only reads the record.
LEMMA RequestStep ==
  ASSUME IInv, NEW p \in Procs, Request(p)
  PROVE  IInv'
<1> USE DEF Input, InputOnly, At, Reads, Become
<1>1. h[p] \in Handlers /\ rec \in Records /\ inputs \in Nat /\ Pending(h[p])
  BY DEF IInv, TypeOK, HandlerOK
<1>2. CASE DetectRead(p)
  <2> DEFINE g == [h[p] EXCEPT !.pc = "run.detected", !.snap = rec]
  <2>1. g \in Handlers
    BY <1>1 DEF Handlers, Labels, CommitPoints
  <2>2. Pending(g) /\ g.pc \notin ExecutionPoints /\ g.snap = rec
    BY <1>1, <1>2 DEF DetectRead, Pending, ExecutionPoints, Handlers
  <2>3. h' = [h EXCEPT ![p] = g] /\ inputs' \in Nat /\ InputOnly
    BY <1>1, <1>2 DEF DetectRead
  <2>4. QED
    BY <2>1, <2>2, <2>3, ReadStep DEF IInv, TypeOK
<1>3. CASE AssembleRead(p)
  <2> DEFINE g == [h[p] EXCEPT !.pc = "agent.started", !.snap = rec]
  <2>1. g \in Handlers
    BY <1>1 DEF Handlers, Labels, CommitPoints
  <2>2. Pending(g) /\ g.pc \notin ExecutionPoints /\ g.snap = rec
    BY <1>1, <1>3 DEF AssembleRead, Pending, ExecutionPoints, Handlers
  <2>3. h' = [h EXCEPT ![p] = g] /\ inputs' \in Nat /\ InputOnly
    BY <1>1, <1>3 DEF AssembleRead
  <2>4. QED
    BY <2>1, <2>2, <2>3, ReadStep DEF IInv, TypeOK
<1>4. CASE PricingRead(p)
  <2> DEFINE g == [h[p] EXCEPT !.pc = "tool.pricing_completed", !.snap = rec]
  <2>1. g \in Handlers
    BY <1>1 DEF Handlers, Labels, CommitPoints, AuditEvents
  <2>2. Pending(g) /\ g.pc \notin ExecutionPoints /\ g.snap = rec
    BY <1>1, <1>4 DEF PricingRead, Pending, ExecutionPoints, Handlers
  <2>3. h' = [h EXCEPT ![p] = g] /\ inputs' \in Nat /\ InputOnly
    BY <1>1, <1>4 DEF PricingRead
  <2>4. QED
    BY <2>1, <2>2, <2>3, ReadStep DEF IInv, TypeOK
<1>5. CASE RequestRead(p)
  <2> DEFINE g == [h[p] EXCEPT !.pc = "approval.requested", !.snap = rec]
  <2>1. g \in Handlers
    BY <1>1 DEF Handlers, Labels, CommitPoints
  <2>2. Pending(g) /\ g.pc \notin ExecutionPoints /\ g.snap = rec
    BY <1>1, <1>5 DEF RequestRead, VerifiedPackage, Pending, ExecutionPoints, Handlers
  <2>3. h' = [h EXCEPT ![p] = g] /\ inputs' \in Nat /\ InputOnly
    BY <1>1, <1>5 DEF RequestRead
  <2>4. QED
    BY <2>1, <2>2, <2>3, ReadStep DEF IInv, TypeOK
<1>6. ASSUME NEW v \in Versions, NEW verb \in {"approve", "reject"}, DecideRead(p, v, verb)
      PROVE  IInv'
  <2> DEFINE g == [Idle EXCEPT !.pc = Verdict(rec, v), !.snap = rec, !.ver = v, !.verb = verb]
  <2>1. Verdict(rec, v) \in {"approval.denied", "approval.duplicate_ignored", "approval.recorded"}
    BY DEF Verdict
  <2>2. g \in Handlers /\ g.snap = rec /\ g.pc = Verdict(rec, v) /\ g.ver = v
        /\ g.verb = verb /\ g.step = 1
    <3>1. Verdict(rec, v) \in Labels
      BY <2>1 DEF Labels, CommitPoints, AuditEvents
    <3>2. v \in 0..MaxVersion /\ verb \in Decisions
      BY RunAssumption DEF Versions, Decisions
    <3>3. Idle \in Handlers /\ Idle.step = 1
      BY NoRecordType DEF Idle
    <3>4. QED
      BY <1>1, <3>1, <3>2, <3>3 DEF Handlers
  <2>3. Verdict(rec, v) = "approval.recorded" =>
          /\ rec.state = "AWAITING_APPROVAL"
          /\ v = rec.env /\ v = rec.ptr /\ rec.envEvidence = rec.evidence
    BY DEF Verdict, VerifiedPackage
  <2>4. h' = [h EXCEPT ![p] = g] /\ inputs' \in Nat /\ InputOnly
    BY <1>1, <1>6 DEF DecideRead
  <2> HIDE DEF g
  <2>5. v # 0
    BY DEF Versions
  <2>6. Pending(g) /\ g.pc \notin ExecutionPoints
    BY <2>1, <2>2, <2>3, <2>5 DEF Pending, ExecutionPoints
  <2>7. QED
    BY <2>2, <2>4, <2>6, ReadStep DEF IInv, TypeOK
<1>7. QED
  BY <1>2, <1>3, <1>4, <1>5, <1>6 DEF Request

\* Assembly and the card: the steps between two commits.
LEMMA AssemblyLocalStep ==
  ASSUME IInv, NEW p \in Procs,
         \/ AgentProposes(p) \/ AssemblyFails(p) \/ HoldRead(p)
         \/ CardSent(p) \/ CardFails(p) \/ Refused(p)
  PROVE  IInv'
<1> USE DEF Local, At, Become
<1>1. h[p] \in Handlers /\ rec \in Records /\ inputs \in Nat /\ crashes \in Nat
      /\ sources \in SourceStates /\ lapsed \in SUBSET Versions /\ cards \in SUBSET Versions
      /\ Pending(h[p]) /\ Fresh(h[p], rec)
  BY DEF IInv, TypeOK, HandlerOK
<1>2. CASE Refused(p)
  BY <1>1, <1>2, EndsStep DEF Refused
<1>3. CASE AgentProposes(p) /\ rec.state # "CONTEXT_ASSEMBLING"
  BY <1>1, <1>3, EndsStep DEF AgentProposes
<1>4. CASE AgentProposes(p) /\ rec.state = "CONTEXT_ASSEMBLING"
  <2> DEFINE g == [h[p] EXCEPT !.pc = "evidence.validated", !.snap = rec]
  <2>1. g \in Handlers
    BY <1>1 DEF Handlers, Labels, CommitPoints
  <2>2. Pending(g) /\ g.pc \notin ExecutionPoints /\ g.snap = rec
    BY <1>1, <1>4 DEF AgentProposes, Pending, ExecutionPoints, Handlers
  <2>3. h' = [h EXCEPT ![p] = g] /\ Local /\ UNCHANGED cards
    BY <1>4 DEF AgentProposes, Reads
  <2>4. QED
    BY <1>1, <2>1, <2>2, <2>3, ReadStep
<1>5. CASE AssemblyFails(p)
  <2> DEFINE g == [h[p] EXCEPT !.pc = "assembly failed", !.snap = NoRecord]
  <2>1. g \in Handlers
    BY <1>1, NoRecordType DEF Handlers, Labels
  <2>2. Pending(g) /\ g.pc \notin ExecutionPoints /\ g.snap = NoRecord
    BY <1>1, <1>5 DEF AssemblyFails, Pending, ExecutionPoints, Handlers
  <2>3. h' = [h EXCEPT ![p] = g] /\ Local /\ UNCHANGED cards
    BY <1>5 DEF AssemblyFails, Drops
  <2>4. QED
    BY <1>1, <2>1, <2>2, <2>3, ReadStep
<1>6. CASE HoldRead(p)
  <2> DEFINE g == [h[p] EXCEPT !.pc = "evidence.hold", !.snap = rec]
  <2>1. g \in Handlers
    BY <1>1 DEF Handlers, Labels, CommitPoints
  <2>2. Pending(g) /\ g.pc \notin ExecutionPoints /\ g.snap = rec
    BY <1>1, <1>6 DEF HoldRead, Pending, ExecutionPoints, Handlers
  <2>3. h' = [h EXCEPT ![p] = g] /\ Local /\ UNCHANGED cards
    BY <1>6 DEF HoldRead, Reads
  <2>4. QED
    BY <1>1, <2>1, <2>2, <2>3, ReadStep
<1>7. CASE CardSent(p) \/ CardFails(p)
  <2>1. PICK label \in {"approval.card_sent", "approval.delivery_failed"} :
          /\ h' = [h EXCEPT ![p] = [h[p] EXCEPT !.pc = label]]
          /\ Local /\ At(p, "posting")
          /\ cards' \in {cards, cards \cup {h[p].snap.env}}
    BY <1>7 DEF CardSent, CardFails
  <2> DEFINE g == [h[p] EXCEPT !.pc = label]
  <2>2. g \in Handlers
    BY <1>1 DEF Handlers, Labels, CommitPoints, AuditEvents
  <2>3. HandlerOK(g, rec, effects) /\ g.pc \notin ExecutionPoints
    BY <1>1, <2>1 DEF HandlerOK, Fresh, Pending, Executing, ExecutionPoints, Handlers
  <2>4. PICK old \in {cards, cards \cup {h[p].snap.env}} : cards' = old
    BY <2>1
  <2>5. cards' \in SUBSET Versions
    <3>1. h[p].snap.env \in 0..MaxVersion /\ h[p].snap.env # 0
      BY <1>1, <2>1 DEF Handlers, Records, Pending
    <3>2. QED
      BY <1>1, <2>4, <3>1, RunAssumption DEF Versions
  <2>6. QED
    BY <1>1, <2>1, <2>2, <2>3, <2>5, LocalStep DEF IInv, TypeOK
<1>8. QED
  BY <1>2, <1>3, <1>4, <1>5, <1>6, <1>7

-----------------------------------------------------------------------------
(* The execution: the steps between two commits.                           *)

\* execute reads the Run and decides whether to start.
LEMMA ExecuteReadStep ==
  ASSUME IInv, NEW p \in Procs, ExecuteRead(p)
  PROVE  IInv'
<1> USE DEF Local, At, Become
<1>1. /\ h[p] \in Handlers /\ rec \in Records /\ h[p].pc = "execute" /\ Pending(h[p])
      /\ inputs \in Nat /\ crashes \in Nat /\ sources \in SourceStates
      /\ lapsed \in SUBSET Versions /\ cards \in SUBSET Versions
  BY DEF IInv, TypeOK, HandlerOK, ExecuteRead
<1>2. CASE rec.state = "EXECUTED"
  BY <1>1, <1>2, EndsStep DEF ExecuteRead
<1>3. CASE rec.state # "EXECUTED"
  <2> DEFINE label == IF Executable(rec) THEN "execution.started" ELSE "execution.denied"
             g == [h[p] EXCEPT !.pc = label, !.snap = rec, !.ver = rec.env]
  <2>1. label \in {"execution.started", "execution.denied"}
    OBVIOUS
  <2>2. g \in Handlers
    <3>1. label \in Labels
      BY <2>1 DEF Labels, CommitPoints, AuditEvents
    <3>2. rec.env \in 0..MaxVersion
      BY <1>1 DEF Records
    <3>3. QED
      BY <1>1, <3>1, <3>2 DEF Handlers
  <2>3. g.snap = rec /\ g.pc = label /\ g.step = 1 /\ g.ver = rec.env
    BY <1>1 DEF Pending, ExecutionPoints, Handlers
  <2>4. label = "execution.started" => Executable(rec)
    OBVIOUS
  <2>5. h' = [h EXCEPT ![p] = g] /\ Local /\ UNCHANGED cards
    BY <1>3 DEF ExecuteRead
  <2> HIDE DEF g, label
  <2>6. Pending(g) /\ g.pc \notin ExecutionPoints
    BY <2>1, <2>3, <2>4 DEF Pending, ExecutionPoints, Executable
  <2>7. QED
    BY <1>1, <2>2, <2>3, <2>5, <2>6, ReadStep
<1>4. QED
  BY <1>2, <1>3

\* The loop over the manifest goes to the next action that has no receipt.
LEMMA DispatchStep ==
  ASSUME IInv, NEW p \in Procs, Dispatch(p)
  PROVE  IInv'
<1> USE DEF Local, At, Become, Recording
<1>1. /\ h[p] \in Handlers /\ rec \in Records /\ h[p].pc = "dispatch"
      /\ HandlerOK(h[p], rec, effects) /\ RecordOK(rec, effects, briefs, consent)
      /\ inputs \in Nat /\ crashes \in Nat /\ sources \in SourceStates
      /\ lapsed \in SUBSET Versions /\ cards \in SUBSET Versions
      /\ Local /\ UNCHANGED cards
  BY DEF IInv, TypeOK, Dispatch
<1>2. Executing(h[p], rec, effects) /\ h[p].pc \in ExecutionPoints /\ h[p].step \in 1..(NumActions + 1)
  BY <1>1 DEF HandlerOK, ExecutionPoints, Handlers
<1>3. Fresh(Idle, rec)
  BY IdleOK DEF HandlerOK
<1>4. CASE h[p].step <= NumActions /\ h[p].snap.status[<<h[p].step, h[p].ver>>] = "completed"
  BY <1>1, <1>2, <1>4 DEF Executing
<1>5. CASE ~(h[p].step <= NumActions /\ h[p].snap.status[<<h[p].step, h[p].ver>>] = "completed")
  <2>1. PICK event \in {"execution.completed", "action.started"} :
          /\ h' = [h EXCEPT ![p] = [h[p] EXCEPT !.pc = "event", !.snap = NoRecord,
                                                !.event = event, !.tries = 0]]
          /\ event = "execution.completed" => h[p].step > NumActions
          /\ event = "action.started" => h[p].step <= NumActions
    <3>1. CASE h[p].step > NumActions
      BY <1>1, <3>1 DEF Dispatch
    <3>2. CASE ~(h[p].step > NumActions)
      <4>1. h[p].step <= NumActions
        BY <1>2, <3>2, RunAssumption
      <4>2. QED
        BY <1>5, <3>2, <4>1 DEF Dispatch
    <3>3. QED
      BY <3>1, <3>2
  <2> DEFINE g == [h[p] EXCEPT !.pc = "event", !.snap = NoRecord, !.event = event, !.tries = 0]
  <2>2. g \in Handlers
    <3>1. "event" \in Labels /\ event \in ExecutionEvents
      BY DEF Labels, ExecutionEvents
    <3>2. 0 \in 0..MaxTries
      BY RunAssumption
    <3>3. QED
      BY <1>1, <3>1, <3>2, NoRecordType DEF Handlers
  <2>3. /\ g.pc = "event" /\ g.snap = NoRecord /\ g.event = event
        /\ g.step = h[p].step /\ g.ver = h[p].ver
    BY <1>1 DEF Handlers
  <2>4. h' = [h EXCEPT ![p] = g]
    BY <2>1
  <2> HIDE DEF g
  <2>5. Fresh(g, rec)
    BY <1>3, <2>3 DEF Fresh, Idle
  <2>6. Pending(g)
    BY <2>3 DEF Pending, ExecutionPoints
  <2>7. event = "execution.completed" => g.step = NumActions + 1
    BY <1>2, <2>1, <2>3, RunAssumption
  <2>8. Executing(g, rec, effects)
    BY <1>1, <1>2, <2>1, <2>3, <2>7 DEF Executing
  <2>9. QED
    BY <1>1, <1>2, <2>2, <2>4, <2>5, <2>6, <2>8, LocalStep DEF HandlerOK
<1>6. QED
  BY <1>4, <1>5

\* execution_event reads, or loses its race and tries again or gives up.
LEMMA EventLocalStep ==
  ASSUME IInv, NEW p \in Procs, EventRead(p) \/ EventConflict(p) \/ GivesUp(p)
  PROVE  IInv'
<1> USE DEF Local, At, Become
<1>1. /\ h[p] \in Handlers /\ rec \in Records /\ h[p].pc \in {"event", "event commit"}
      /\ HandlerOK(h[p], rec, effects)
      /\ inputs \in Nat /\ crashes \in Nat /\ sources \in SourceStates
      /\ lapsed \in SUBSET Versions /\ cards \in SUBSET Versions
      /\ Local /\ UNCHANGED cards
  BY DEF IInv, TypeOK, EventRead, EventConflict, LostRace, GivesUp, GaveUp
<1>2. Executing(h[p], rec, effects) /\ h[p].pc \in ExecutionPoints
  BY <1>1 DEF HandlerOK, ExecutionPoints
<1>3. Fresh(Idle, rec)
  BY IdleOK DEF HandlerOK
<1>4. CASE Ends(p)
  BY <1>1, <1>4, EndsStep
<1>5. CASE EventRead(p) /\ Reads(p, "event commit")
  <2> DEFINE g == [h[p] EXCEPT !.pc = "event commit", !.snap = rec]
  <2>1. g \in Handlers
    BY <1>1 DEF Handlers, Labels
  <2>2. /\ g.pc = "event commit" /\ g.snap = rec /\ g.event = h[p].event
        /\ g.step = h[p].step /\ g.ver = h[p].ver /\ g.tries < MaxTries
    BY <1>1, <1>5 DEF Handlers, EventRead
  <2>3. h' = [h EXCEPT ![p] = g]
    BY <1>5 DEF Reads
  <2> HIDE DEF g
  <2>4. Fresh(g, rec)
    <3>1. rec.rev \in Nat
      BY <1>1 DEF Records
    <3>2. rec.rev <= rec.rev
      BY <3>1
    <3>3. QED
      BY <2>2, <3>2, Zenon DEF Fresh
  <2>5. Pending(g)
    BY <2>2 DEF Pending, ExecutionPoints
  <2>6. Executing(g, rec, effects)
    BY <1>1, <1>2, <2>2 DEF Executing
  <2>7. QED
    BY <1>1, <1>2, <2>1, <2>3, <2>4, <2>5, <2>6, LocalStep DEF HandlerOK
<1>6. CASE EventConflict(p)
  <2> DEFINE g == [h[p] EXCEPT !.pc = "event", !.snap = NoRecord, !.tries = @ + 1]
  <2>1. g \in Handlers
    <3>1. "event" \in Labels
      BY DEF Labels
    <3>2. h[p].tries \in 0..MaxTries
      BY <1>1 DEF Handlers
    <3>3. h[p].tries < MaxTries
      BY <1>2, <1>6 DEF EventConflict, LostRace, Executing
    <3>4. h[p].tries + 1 \in 0..MaxTries
      <4> HIDE DEF g
      <4>1. ASSUME NEW t \in 0..MaxTries, t < MaxTries PROVE t + 1 \in 0..MaxTries
        BY <4>1, RunAssumption
      <4>2. QED
        BY <3>2, <3>3, <4>1
    <3>5. QED
      BY <1>1, <3>1, <3>4, NoRecordType DEF Handlers
  <2>2. /\ g.pc = "event" /\ g.snap = NoRecord /\ g.event = h[p].event
        /\ g.step = h[p].step /\ g.ver = h[p].ver
    BY <1>1 DEF Handlers
  <2>3. h' = [h EXCEPT ![p] = g]
    BY <1>6 DEF EventConflict
  <2> HIDE DEF g
  <2>4. Fresh(g, rec)
    BY <1>3, <2>2 DEF Fresh, Idle
  <2>5. Pending(g)
    BY <2>2 DEF Pending, ExecutionPoints
  <2>6. Executing(g, rec, effects)
    BY <1>1, <1>2, <2>2 DEF Executing
  <2>7. QED
    BY <1>1, <1>2, <2>1, <2>3, <2>4, <2>5, <2>6, LocalStep DEF HandlerOK
<1>7. QED
  BY <1>1, <1>4, <1>5, <1>6 DEF EventRead, GivesUp

\* A Graph call returns or raises.
LEMMA CallStep ==
  ASSUME IInv, NEW p \in Procs, CallReturns(p) \/ CallRaises(p)
  PROVE  IInv'
<1> USE DEF At
<1>1. /\ h[p] \in Handlers /\ rec \in Records /\ h[p].pc = "calling"
      /\ HandlerOK(h[p], rec, effects) /\ RecordOK(rec, effects, briefs, consent)
      /\ inputs \in Nat /\ crashes \in Nat /\ sources \in SourceStates
      /\ lapsed \in SUBSET Versions /\ cards \in SUBSET Versions
      /\ effects \in [Keys -> Nat]
      /\ UNCHANGED <<rec, briefs, cards, lapsed, sources, inputs, crashes, consent>>
  BY DEF IInv, TypeOK, CallReturns, CallRaises
<1>2. Executing(h[p], rec, effects) /\ h[p].pc \in ExecutionPoints /\ h[p].step \in 1..(NumActions + 1)
  BY <1>1 DEF HandlerOK, ExecutionPoints, Handlers
<1> DEFINE k == <<h[p].step, h[p].ver>>
<1>3. k \in Keys /\ rec.state = "EXECUTING" /\ rec.status[k] = "started" /\ effects[k] = 0
  BY <1>1, <1>2, RunAssumption DEF Executing, Keys
<1>4. PICK event \in {"action.completed", "execution.failed"} :
        /\ Recording(p, event)
        /\ \/ effects' = [effects EXCEPT ![k] = 1]
           \/ event = "execution.failed" /\ effects' = effects
  <2>1. TakesEffect(p) => effects' = [effects EXCEPT ![k] = 1]
    <3>1. effects[k] + 1 = 1
      BY <1>3
    <3>2. QED
      BY <3>1 DEF TakesEffect
  <2> HIDE DEF k
  <2>2. CASE CallReturns(p)
    <3>1. Recording(p, "action.completed") /\ effects' = [effects EXCEPT ![k] = 1]
      BY <2>1, <2>2 DEF CallReturns
    <3>2. QED
      BY <3>1, Zenon
  <2>3. CASE CallRaises(p)
    <3>1. effects' = [effects EXCEPT ![k] = 1] \/ effects' = effects
      BY <2>1, <2>3 DEF CallRaises
    <3>2. QED
      BY <2>3, <3>1, Zenon DEF CallRaises
  <2>4. QED
    BY <2>2, <2>3
<1> DEFINE g == [h[p] EXCEPT !.pc = "event", !.snap = NoRecord, !.event = event, !.tries = 0]
<1>5. g \in Handlers
  <2>1. "event" \in Labels /\ event \in ExecutionEvents
    BY DEF Labels, ExecutionEvents
  <2>2. 0 \in 0..MaxTries
    BY RunAssumption
  <2>3. QED
    BY <1>1, <2>1, <2>2, NoRecordType DEF Handlers
<1>6. /\ g.pc = "event" /\ g.snap = NoRecord /\ g.event = event
      /\ g.step = h[p].step /\ g.ver = h[p].ver
  BY <1>1 DEF Handlers
<1>7. h' = [h EXCEPT ![p] = g]
  BY <1>4 DEF Recording, Become
<1> HIDE DEF g, k
<1>8. /\ effects' \in [Keys -> Nat]
      /\ effects'[k] \in {0, 1} /\ (event = "action.completed" => effects'[k] = 1)
      /\ \A j \in Keys \ {k} : effects'[j] = effects[j]
  BY <1>1, <1>3, <1>4
<1>9. RecordOK(rec, effects', briefs, consent)
  <2>1. \A j \in Keys : /\ effects'[j] \in {0, 1}
                        /\ rec.status[j] = "none" => effects'[j] = 0
                        /\ rec.status[j] = "completed" => effects'[j] = 1
    BY <1>1, <1>3, <1>8 DEF RecordOK
  <2>2. QED
    BY <1>1, <1>3, <2>1 DEF RecordOK
<1>10. HandlerOK(g, rec, effects')
  <2>1. Fresh(g, rec)
    BY <1>6, IdleOK DEF HandlerOK, Fresh, Idle
  <2>2. Pending(g)
    BY <1>6 DEF Pending, ExecutionPoints
  <2>3. Executing(g, rec, effects')
    BY <1>1, <1>2, <1>3, <1>6, <1>8 DEF Executing, k
  <2>4. QED
    BY <2>1, <2>2, <2>3 DEF HandlerOK
<1>11. ASSUME NEW q \in Procs \ {p}
       PROVE  h[q].pc \notin ExecutionPoints /\ HandlerOK(h[q], rec, effects')
  <2>1. h[q].pc \notin ExecutionPoints /\ HandlerOK(h[q], rec, effects)
    BY <1>2 DEF IInv, SoleExecutor
  <2>2. QED
    BY <2>1 DEF HandlerOK, Executing
<1>12. consent \in 0..MaxVersion /\ briefs \in SUBSET Versions
  BY DEF IInv, TypeOK
<1>13. QED
  BY <1>1, <1>5, <1>7, <1>8, <1>9, <1>10, <1>11, <1>12, HandlerStep

-----------------------------------------------------------------------------
(* The commits.                                                            *)

\* A record without a decision may be replaced by another one.
LEMMA UndecidedRecord ==
  ASSUME NEW r \in Records, NEW s \in Records, NEW e, NEW b, NEW d, NEW c,
         RecordOK(r, e, b, c), r.state \in Undecided, s.state \in Undecided,
         s.rev # 0, s.dec = r.dec, s.appr = r.appr, s.status = r.status,
         s.ptr \in d \cup {0}
  PROVE  RecordOK(s, e, d, c)
<1>1. r.dec = "none" /\ s.dec = DecisionOf(s.state)
  BY DEF RecordOK, DecisionOf, Undecided
<1>2. \A k \in Keys : e[k] = 0 /\ s.status[k] = "none"
  BY DEF RecordOK, Undecided
<1>3. s.state \notin {"EXECUTION_FAILED", "EXECUTED"}
  BY DEF Undecided
<1>4. \A i \in 1..NumActions, v \in Versions : s.status[<<i, v>>] = "none"
  BY <1>2 DEF Keys
<1>5. QED
  BY <1>1, <1>2, <1>3, <1>4 DEF RecordOK

\* A commit before the decision.
LEMMA EarlyCommit ==
  ASSUME IInv, NEW p \in Procs, NEW new \in Records, NEW g \in Handlers,
         new.rev = h[p].snap.rev, Stored(p, new), h' = [h EXCEPT ![p] = g],
         rec.state \in Undecided, new.state \in Undecided,
         new.dec = rec.dec, new.appr = rec.appr, new.status = rec.status,
         briefs' \in SUBSET Versions, new.ptr \in briefs' \cup {0}, consent' = consent,
         g.snap \in {rec', NoRecord}, Pending(g), g.pc \notin ExecutionPoints
  PROVE  IInv'
<1>1. /\ rec \in Records /\ rec.rev \in Nat /\ RecordOK(rec, effects, briefs, consent)
      /\ consent \in 0..MaxVersion
  BY DEF IInv, TypeOK, Records
<1>2. rec' \in Records /\ rec' = [new EXCEPT !.rev = rec.rev + 1]
  BY CommitType DEF IInv, Stored
<1>3. /\ rec'.rev = rec.rev + 1 /\ rec'.rev # 0
      /\ rec'.state = new.state /\ rec'.dec = new.dec /\ rec'.appr = new.appr
      /\ rec'.status = new.status /\ rec'.ptr = new.ptr
  BY <1>1, <1>2 DEF Records
<1>4. RecordOK(rec', effects, briefs', consent)
  BY <1>1, <1>2, <1>3, UndecidedRecord
<1>5. Fresh(g, rec')
  <2>1. NoRecord.rev = 0 /\ 0 <= rec'.rev /\ rec'.rev <= rec'.rev
    BY <1>1, <1>3 DEF NoRecord
  <2>2. QED
    BY <1>3, <2>1, Zenon DEF Fresh
<1>6. HandlerOK(g, rec', effects)
  BY <1>5 DEF HandlerOK, Executing
<1>7. rec.state # "EXECUTING"
  BY DEF Undecided
<1>8. QED
  BY <1>1, <1>4, <1>6, <1>7, CommitStep

\* A handler that ends, or that reads anew before it commits.
LEMMA Stopping ==
  ASSUME NEW p \in Procs, h[p] \in Handlers, h[p].step = 1,
         NEW label \in {"proposing", "assembly failed", "execute"},
         NEW g \in {Idle, [h[p] EXCEPT !.pc = label, !.snap = NoRecord]}
  PROVE  g \in Handlers /\ Pending(g) /\ g.pc \notin ExecutionPoints /\ g.snap = NoRecord
<1>1. label \in Labels
  BY DEF Labels
<1>2. g \in Handlers /\ g.snap = NoRecord /\ g.pc \in {label, "idle"} /\ g.step = 1
  <2>1. CASE g = Idle
    BY <2>1, NoRecordType DEF Idle
  <2>2. CASE g = [h[p] EXCEPT !.pc = label, !.snap = NoRecord]
    BY <1>1, <2>2, NoRecordType DEF Handlers
  <2>3. QED
    BY <2>1, <2>2
<1>3. QED
  BY <1>2 DEF Pending, ExecutionPoints

\* A handler that goes on with the record r it committed.
LEMMA GoingOn ==
  ASSUME NEW p \in Procs, h[p] \in Handlers, h[p].step = 1, NEW r \in Records,
         NEW label \in {"brief.versioned", "posting"},
         label = "brief.versioned" => r.state = "POLICY_VERIFIED",
         r.env # 0,
         NEW g, g = [h[p] EXCEPT !.pc = label, !.snap = r]
  PROVE  g \in Handlers /\ Pending(g) /\ g.pc \notin ExecutionPoints /\ g.snap = r
<1>1. label \in Labels
  BY DEF Labels, CommitPoints
<1>2. g \in Handlers /\ g.snap = r /\ g.pc = label /\ g.step = 1
  BY <1>1 DEF Handlers
<1>3. QED
  BY <1>2 DEF Pending, ExecutionPoints

\* Audit events and denials: the record is written back as it was read.
LEMMA AuditStep ==
  ASSUME IInv, NEW p \in Procs, CommitAudit(p)
  PROVE  IInv'
<1> DEFINE snap == h[p].snap
           g == IF At(p, "approval.duplicate_ignored") /\ snap.dec = "approve"
                THEN [h[p] EXCEPT !.pc = "execute", !.snap = NoRecord]
                ELSE Idle
<1>1. /\ Stored(p, snap) /\ Commit(p, snap) /\ h[p].pc \in AuditEvents
      /\ h' = [h EXCEPT ![p] = g] /\ briefs' = briefs /\ consent' = consent
  BY DEF CommitAudit, Stored, Drops, Ends, Become
<1>2. /\ snap = rec /\ rec \in Records /\ h[p] \in Handlers /\ Pending(h[p])
      /\ RecordOK(rec, effects, briefs, consent)
  BY <1>1, SnapshotIsCurrent DEF Commit
<1>3. briefs \in SUBSET Versions /\ consent \in 0..MaxVersion
  BY DEF IInv, TypeOK
<1>4. rec' \in Records /\ rec' = [rec EXCEPT !.rev = rec.rev + 1]
  BY <1>1, <1>2, CommitType DEF IInv
<1>5. /\ rec'.rev = rec.rev + 1 /\ rec'.rev # 0 /\ rec'.state = rec.state
      /\ rec'.dec = rec.dec /\ rec'.appr = rec.appr /\ rec'.status = rec.status
      /\ rec'.env = rec.env /\ rec'.ptr = rec.ptr
      /\ rec'.evidence = rec.evidence /\ rec'.envEvidence = rec.envEvidence
  BY <1>2, <1>4 DEF Records
<1>6. RecordOK(rec', effects, briefs, consent)
  BY <1>2, <1>5 DEF RecordOK
<1>7. g \in Handlers /\ Pending(g) /\ g.pc \notin ExecutionPoints /\ g.snap = NoRecord
  <2>1. h[p].step = 1
    BY <1>1, <1>2 DEF Pending, ExecutionPoints, AuditEvents
  <2>2. QED
    BY <1>2, <2>1, Stopping
<1> HIDE DEF g
<1>8. HandlerOK(g, rec', effects)
  <2>1. NoRecord.rev = 0 /\ 0 <= rec'.rev /\ rec'.rev # 0
    BY <1>4, <1>5 DEF NoRecord, Records
  <2>2. Fresh(g, rec')
    BY <1>7, <2>1 DEF Fresh
  <2>3. QED
    BY <1>7, <2>2 DEF HandlerOK, Executing
<1>9. QED
  BY <1>1, <1>2, <1>3, <1>6, <1>7, <1>8, CommitStep

\* The commits before the decision.
LEMMA EarlyStep ==
  ASSUME IInv, NEW p \in Procs,
         \/ CommitDetected(p) \/ CommitAgentStarted(p) \/ CommitEvidence(p)
         \/ CommitPolicy(p) \/ CommitBrief(p) \/ CommitHold(p) \/ CommitRequested(p)
  PROVE  IInv'
<1> USE DEF At, Become, Ends, Drops, GoesOn
<1>1. rec.rev = h[p].snap.rev
  BY DEF CommitDetected, CommitAgentStarted, CommitEvidence, CommitPolicy, CommitBrief,
         CommitHold, CommitRequested, Stored, Commit
<1>2. /\ h[p].snap = rec /\ rec \in Records /\ h[p] \in Handlers /\ Pending(h[p])
      /\ RecordOK(rec, effects, briefs, consent)
      /\ briefs \in SUBSET Versions
  BY <1>1, SnapshotIsCurrent DEF IInv, TypeOK
<1>3. /\ rec.rev \in Nat /\ rec.env \in 0..MaxVersion /\ rec.evidence \in Nat
      /\ rec.ptr \in briefs \cup {0} /\ h[p].snap.rev = rec.rev
  BY <1>2 DEF Records, RecordOK
<1>4. h[p].pc \notin ExecutionPoints => h[p].step = 1
  BY <1>2 DEF Pending
<1>5. CASE CommitDetected(p)
  <2> DEFINE new == [rec EXCEPT !.state = "DETECTED"]
  <2>1. /\ new \in Records /\ new.rev = rec.rev /\ new.state = "DETECTED" /\ new.dec = rec.dec
        /\ new.appr = rec.appr /\ new.status = rec.status /\ new.ptr = rec.ptr
    BY <1>2 DEF Records, RunStates
  <2>2. rec.state = "ABSENT" /\ h[p].step = 1
    BY <1>2, <1>4, <1>5 DEF CommitDetected, Pending, ExecutionPoints
  <2>3. /\ Stored(p, new) /\ briefs' = briefs /\ consent' = consent
        /\ h' = [h EXCEPT ![p] = Idle]
    BY <1>2, <1>5 DEF CommitDetected
  <2>4. Idle \in Handlers /\ Pending(Idle) /\ Idle.pc \notin ExecutionPoints /\ Idle.snap = NoRecord
    BY <1>2, <2>2, Stopping
  <2> HIDE DEF new
  <2>5. QED
    BY <1>2, <1>3, <2>1, <2>2, <2>3, <2>4, EarlyCommit DEF Undecided
<1>6. CASE CommitAgentStarted(p)
  <2> DEFINE new == [rec EXCEPT !.state = "CONTEXT_ASSEMBLING"]
             label == IF FactsHold THEN "proposing" ELSE "assembly failed"
             g == [h[p] EXCEPT !.pc = label, !.snap = NoRecord]
  <2>1. /\ new \in Records /\ new.rev = rec.rev /\ new.state = "CONTEXT_ASSEMBLING"
        /\ new.dec = rec.dec
        /\ new.appr = rec.appr /\ new.status = rec.status /\ new.ptr = rec.ptr
    BY <1>2 DEF Records, RunStates
  <2>2. rec.state \in {"DETECTED", "EVIDENCE_HOLD"} /\ h[p].step = 1
    BY <1>2, <1>4, <1>6 DEF CommitAgentStarted, Pending, ExecutionPoints
  <2>3. /\ Stored(p, new) /\ briefs' = briefs /\ consent' = consent
        /\ h' = [h EXCEPT ![p] = g]
    BY <1>2, <1>6 DEF CommitAgentStarted
  <2>4. g \in Handlers /\ Pending(g) /\ g.pc \notin ExecutionPoints /\ g.snap = NoRecord
    <3>1. label \in {"proposing", "assembly failed"}
      OBVIOUS
    <3>2. QED
      BY <1>2, <2>2, <3>1, Stopping
  <2> HIDE DEF new, g
  <2>5. QED
    BY <1>2, <1>3, <2>1, <2>2, <2>3, <2>4, EarlyCommit DEF Undecided
<1>7. CASE CommitEvidence(p)
  <2> DEFINE new == [rec EXCEPT !.state = "CONTEXT_ASSEMBLED", !.evidence = rec.evidence + 1]
             g == IF FactsHold THEN [h[p] EXCEPT !.pc = "policy.verified", !.snap = rec']
                               ELSE [h[p] EXCEPT !.pc = "assembly failed", !.snap = NoRecord]
  <2>1. /\ new \in Records /\ new.rev = rec.rev /\ new.state = "CONTEXT_ASSEMBLED"
        /\ new.dec = rec.dec
        /\ new.appr = rec.appr /\ new.status = rec.status /\ new.ptr = rec.ptr
    <3>1. "CONTEXT_ASSEMBLED" \in RunStates
      BY DEF RunStates
    <3>2. rec.evidence + 1 \in Nat
      BY <1>3
    <3>3. QED
      BY <1>2, <1>3, <3>1, <3>2 DEF Records
  <2>2. rec.state = "CONTEXT_ASSEMBLING" /\ h[p].step = 1
    BY <1>2, <1>4, <1>7 DEF CommitEvidence, Pending, ExecutionPoints
  <2>3. Stored(p, new) /\ briefs' = briefs /\ consent' = consent
    BY <1>2, <1>7 DEF CommitEvidence
  <2>6. h' = [h EXCEPT ![p] = g]
    <3>1. CASE ~FactsHold
      BY <1>2, <1>7, <3>1 DEF CommitEvidence
    <3>2. CASE FactsHold
      BY <1>2, <1>7, <3>2 DEF CommitEvidence
    <3>3. QED
      BY <3>1, <3>2
  <2> HIDE DEF new
  <2>4. rec' \in Records /\ rec'.state = "CONTEXT_ASSEMBLED"
    BY <1>2, <2>1, <2>3, CommitType DEF Stored, IInv
  <2>5. g \in Handlers /\ Pending(g) /\ g.pc \notin ExecutionPoints /\ g.snap \in {rec', NoRecord}
    <3>1. CASE ~FactsHold
      BY <1>2, <2>2, <3>1, Stopping
    <3>2. CASE FactsHold
      <4>1. g = [h[p] EXCEPT !.pc = "policy.verified", !.snap = rec']
        BY <3>2
      <4> HIDE DEF g
      <4>2. /\ h[p] \in Handlers /\ h[p].step = 1
            /\ rec' \in Records /\ rec'.state = "CONTEXT_ASSEMBLED"
        BY <1>2, <2>2, <2>4
      <4>3. "policy.verified" \in Labels
        BY DEF Labels, CommitPoints
      <4>4. /\ g \in Handlers /\ g.snap = rec' /\ g.pc = "policy.verified"
            /\ g.step = 1
        BY <4>1, <4>2, <4>3 DEF Handlers
      <4>5. Pending(g) /\ g.pc \notin ExecutionPoints
        BY <4>2, <4>4 DEF Pending, ExecutionPoints
      <4>6. QED
        BY <4>4, <4>5
    <3>3. QED
      BY <3>1, <3>2
  <2> HIDE DEF g
  <2>7. QED
    BY <1>2, <1>3, <2>1, <2>2, <2>3, <2>5, <2>6, EarlyCommit DEF Undecided
<1>8. CASE CommitPolicy(p)
  <2> DEFINE new == [rec EXCEPT !.state = "POLICY_VERIFIED", !.env = rec.env + 1,
                                !.envEvidence = rec.evidence]
             g == [h[p] EXCEPT !.pc = "brief.versioned", !.snap = rec']
  <2>1. /\ new \in Records /\ new.rev = rec.rev /\ new.state = "POLICY_VERIFIED"
        /\ new.dec = rec.dec /\ new.env # 0
        /\ new.appr = rec.appr /\ new.status = rec.status /\ new.ptr = rec.ptr
    <3>1. rec.env + 1 \in 0..MaxVersion
      BY <1>2, <1>3, <1>8, RunAssumption DEF CommitPolicy
    <3>2. QED
      <4>1. "POLICY_VERIFIED" \in RunStates
        BY DEF RunStates
      <4>2. rec.env + 1 # 0
        BY <1>3
      <4>3. QED
        BY <1>2, <1>3, <3>1, <4>1, <4>2 DEF Records
  <2>2. rec.state = "CONTEXT_ASSEMBLED" /\ h[p].step = 1
    BY <1>2, <1>4, <1>8 DEF CommitPolicy, Pending, ExecutionPoints
  <2>3. /\ Stored(p, new) /\ briefs' = briefs /\ consent' = consent
        /\ h' = [h EXCEPT ![p] = g]
    BY <1>2, <1>8 DEF CommitPolicy
  <2> HIDE DEF new
  <2>4. rec' \in Records /\ rec'.state = "POLICY_VERIFIED" /\ rec'.env # 0
    BY <1>2, <2>1, <2>3, CommitType DEF Stored, IInv
  <2>5. g \in Handlers /\ Pending(g) /\ g.pc \notin ExecutionPoints /\ g.snap = rec'
    BY <1>2, <2>2, <2>4, GoingOn
  <2> HIDE DEF g
  <2>6. QED
    BY <1>2, <1>3, <2>1, <2>2, <2>3, <2>5, EarlyCommit DEF Undecided
<1>9. CASE CommitBrief(p)
  <2> DEFINE new == [rec EXCEPT !.ptr = rec.env]
             failed == [h[p] EXCEPT !.pc = "assembly failed", !.snap = NoRecord]
  <2>1. /\ new \in Records /\ new.rev = rec.rev /\ new.state = rec.state
        /\ new.dec = rec.dec
        /\ new.appr = rec.appr /\ new.status = rec.status /\ new.ptr = rec.env
    BY <1>2, <1>3 DEF Records, RunStates
  <2>2. rec.state = "POLICY_VERIFIED" /\ rec.env # 0 /\ h[p].step = 1
    BY <1>2, <1>4, <1>9 DEF CommitBrief, Pending, ExecutionPoints
  <2>3. Stored(p, new) /\ briefs' = briefs \cup {rec.env} /\ consent' = consent
    BY <1>2, <1>9 DEF CommitBrief
  <2>4. PICK g \in {Idle, failed} : h' = [h EXCEPT ![p] = g]
    <3>1. h' = [h EXCEPT ![p] = Idle] \/ h' = [h EXCEPT ![p] = failed]
      BY <1>9 DEF CommitBrief
    <3>2. QED
      BY <3>1
  <2>5. g \in Handlers /\ Pending(g) /\ g.pc \notin ExecutionPoints /\ g.snap = NoRecord
    BY <1>2, <2>2, Stopping
  <2>6. briefs' \in SUBSET Versions /\ new.ptr \in briefs' \cup {0}
    BY <1>2, <1>3, <2>1, <2>2, <2>3, RunAssumption DEF Versions
  <2> HIDE DEF new, failed
  <2>7. QED
    BY <1>2, <2>1, <2>2, <2>3, <2>4, <2>5, <2>6, EarlyCommit DEF Undecided
<1>10. CASE CommitHold(p)
  <2> DEFINE new == [rec EXCEPT !.state = "EVIDENCE_HOLD"]
  <2>1. /\ new \in Records /\ new.rev = rec.rev /\ new.state = "EVIDENCE_HOLD"
        /\ new.dec = rec.dec
        /\ new.appr = rec.appr /\ new.status = rec.status /\ new.ptr = rec.ptr
    BY <1>2 DEF Records, RunStates
  <2>2. rec.state \in Undecided /\ h[p].step = 1
    BY <1>2, <1>4, <1>10 DEF CommitHold, MayHold, Undecided, ExecutionPoints
  <2>3. /\ Stored(p, new) /\ briefs' = briefs /\ consent' = consent
        /\ h' = [h EXCEPT ![p] = Idle]
    BY <1>2, <1>10 DEF CommitHold
  <2>4. Idle \in Handlers /\ Pending(Idle) /\ Idle.pc \notin ExecutionPoints /\ Idle.snap = NoRecord
    BY <1>2, <2>2, Stopping
  <2> HIDE DEF new
  <2>5. QED
    BY <1>2, <1>3, <2>1, <2>2, <2>3, <2>4, EarlyCommit DEF Undecided
<1>11. CASE CommitRequested(p)
  <2> DEFINE new == [rec EXCEPT !.state = "AWAITING_APPROVAL", !.requested = rec.env]
             g == [h[p] EXCEPT !.pc = "posting", !.snap = rec']
  <2>1. /\ new \in Records /\ new.rev = rec.rev /\ new.state = "AWAITING_APPROVAL"
        /\ new.dec = rec.dec /\ new.env = rec.env
        /\ new.appr = rec.appr /\ new.status = rec.status /\ new.ptr = rec.ptr
    BY <1>2, <1>3 DEF Records, RunStates
  <2>2. rec.state = "POLICY_VERIFIED" /\ rec.env # 0 /\ h[p].step = 1
    BY <1>2, <1>4, <1>11 DEF CommitRequested, Pending, ExecutionPoints
  <2>3. /\ Stored(p, new) /\ briefs' = briefs /\ consent' = consent
        /\ h' = [h EXCEPT ![p] = g]
    BY <1>2, <1>11 DEF CommitRequested
  <2> HIDE DEF new
  <2>4. rec' \in Records /\ rec'.env # 0
    BY <1>2, <2>1, <2>2, <2>3, CommitType DEF Stored, IInv
  <2>5. g \in Handlers /\ Pending(g) /\ g.pc \notin ExecutionPoints /\ g.snap = rec'
    <3>1. g = [h[p] EXCEPT !.pc = "posting", !.snap = rec']
      OBVIOUS
    <3> HIDE DEF g
    <3>2. QED
      BY <1>2, <2>2, <2>4, <3>1, GoingOn
  <2> HIDE DEF g
  <2>6. QED
    BY <1>2, <1>3, <2>1, <2>2, <2>3, <2>5, EarlyCommit DEF Undecided
<1>12. QED
  BY <1>5, <1>6, <1>7, <1>8, <1>9, <1>10, <1>11

\* The decision: the click named the very version the snapshot holds.
LEMMA DecisionStep ==
  ASSUME IInv, NEW p \in Procs, CommitDecision(p)
  PROVE  IInv'
<1> DEFINE verb == h[p].verb
           state == IF verb = "approve" THEN "APPROVED" ELSE "CLOSED_REJECTED"
           new == [rec EXCEPT !.state = state, !.dec = verb, !.appr = rec.env]
           running == [h[p] EXCEPT !.pc = "execute", !.snap = NoRecord]
<1>1. rec.rev = h[p].snap.rev
  BY DEF CommitDecision, Stored, Commit
<1>2. /\ h[p].snap = rec /\ rec \in Records /\ h[p] \in Handlers /\ Pending(h[p])
      /\ RecordOK(rec, effects, briefs, consent)
      /\ briefs \in SUBSET Versions
  BY <1>1, SnapshotIsCurrent DEF IInv, TypeOK
<1>3. /\ rec.state = "AWAITING_APPROVAL" /\ verb \in {"approve", "reject"}
      /\ h[p].ver # 0 /\ h[p].ver = rec.env /\ h[p].ver = rec.ptr
      /\ rec.envEvidence = rec.evidence /\ h[p].step = 1
  BY <1>2 DEF CommitDecision, At, Pending, ExecutionPoints
<1>4. /\ rec.env \in 0..MaxVersion /\ rec.ptr \in 0..MaxVersion /\ rec.rev \in Nat
      /\ h[p].ver \in 0..MaxVersion /\ rec.ptr \in briefs \cup {0}
  BY <1>2 DEF Records, Handlers, RecordOK
<1>5. Stored(p, new) /\ consent' = h[p].ver /\ briefs' = briefs
  BY <1>2 DEF CommitDecision
<1>6. /\ new \in Records /\ new.rev = rec.rev /\ new.state = state /\ new.dec = verb
      /\ new.appr = rec.env /\ new.env = rec.env /\ new.ptr = rec.ptr
      /\ new.evidence = rec.evidence /\ new.envEvidence = rec.envEvidence
      /\ new.status = rec.status
  <2>1. state \in RunStates /\ verb \in Decisions
    BY <1>3 DEF RunStates, Decisions
  <2> HIDE DEF state, verb
  <2>2. QED
    BY <1>2, <1>4, <2>1 DEF Records
<1>7. PICK g \in {Idle, running} : h' = [h EXCEPT ![p] = g]
  <2>1. h' = [h EXCEPT ![p] = Idle] \/ h' = [h EXCEPT ![p] = running]
    BY DEF CommitDecision, Drops, Ends, Become
  <2>2. QED
    BY <2>1
<1>8. g \in Handlers /\ Pending(g) /\ g.pc \notin ExecutionPoints /\ g.snap = NoRecord
  BY <1>2, <1>3, Stopping
<1>9. \/ verb = "approve" /\ state = "APPROVED"
      \/ verb = "reject" /\ state = "CLOSED_REJECTED"
  BY <1>3
<1> HIDE DEF new, running, state, verb
<1>10. rec' \in Records /\ rec' = [new EXCEPT !.rev = rec.rev + 1] /\ rec'.rev = rec.rev + 1
  BY <1>2, <1>5, <1>6, CommitType DEF Stored, IInv
<1>11. /\ rec'.rev # 0 /\ rec'.state = state /\ rec'.dec = verb
       /\ rec'.appr = rec.env /\ rec'.env = rec.env /\ rec'.ptr = rec.ptr
       /\ rec'.evidence = rec.evidence /\ rec'.envEvidence = rec.envEvidence
       /\ rec'.status = rec.status
  BY <1>4, <1>6, <1>10 DEF Records
<1>12. RecordOK(rec', effects, briefs, consent')
  <2>1. rec'.dec = DecisionOf(rec'.state)
    BY <1>9, <1>11 DEF DecisionOf
  <2>2. \A k \in Keys : effects[k] = 0 /\ rec'.status[k] = "none"
    BY <1>2, <1>3, <1>11 DEF RecordOK
  <2>3. \A i \in 1..NumActions, v \in Versions : rec'.status[<<i, v>>] = "none"
    BY <2>2 DEF Keys
  <2>4. rec'.state \notin {"EXECUTION_FAILED", "EXECUTED"}
    BY <1>9, <1>11
  <2>5. QED
    BY <1>3, <1>4, <1>5, <1>11, <2>1, <2>2, <2>3, <2>4 DEF RecordOK
<1>13. HandlerOK(g, rec', effects)
  <2>1. NoRecord.rev = 0 /\ 0 <= rec'.rev /\ rec'.rev # 0
    BY <1>4, <1>10, <1>11 DEF NoRecord
  <2>2. QED
    BY <1>8, <2>1 DEF HandlerOK, Fresh, Executing
<1>14. QED
  BY <1>2, <1>3, <1>4, <1>5, <1>6, <1>7, <1>8, <1>12, <1>13, CommitStep

\* execution.started: the record is APPROVED and nothing has happened yet.
LEMMA StartedStep ==
  ASSUME IInv, NEW p \in Procs, CommitStarted(p)
  PROVE  IInv'
<1> DEFINE new == [rec EXCEPT !.state = "EXECUTING"]
           g == [h[p] EXCEPT !.pc = "dispatch", !.snap = rec']
<1>1. rec.rev = h[p].snap.rev
  BY DEF CommitStarted, Stored, Commit
<1>2. /\ h[p].snap = rec /\ rec \in Records /\ h[p] \in Handlers /\ Pending(h[p])
      /\ RecordOK(rec, effects, briefs, consent)
      /\ briefs \in SUBSET Versions /\ consent \in 0..MaxVersion
  BY <1>1, SnapshotIsCurrent DEF IInv, TypeOK
<1>3. /\ rec.state \in {"APPROVED", "EXECUTION_FAILED"}
      /\ h[p].ver = rec.env /\ h[p].step = 1
      /\ \A k \in Keys : rec.status[k] \notin {"started", "unknown"}
  BY <1>2 DEF CommitStarted, At, Pending
<1>4. rec.state = "APPROVED" /\ \A k \in Keys : effects[k] = 0 /\ rec.status[k] = "none"
  BY <1>2, <1>3 DEF RecordOK
<1>5. /\ rec.dec = "approve" /\ rec.env = rec.appr /\ rec.appr # 0
      /\ rec.appr \in 0..MaxVersion /\ rec.rev \in Nat
  BY <1>2, <1>4 DEF RecordOK, DecisionOf, Records
<1>6. Stored(p, new) /\ consent' = consent /\ briefs' = briefs /\ h' = [h EXCEPT ![p] = g]
  BY <1>2 DEF CommitStarted, GoesOn, Become
<1>7. new \in Records /\ new.rev = rec.rev
  <2>1. "EXECUTING" \in RunStates
    BY DEF RunStates
  <2>2. QED
    BY <1>2, <2>1 DEF Records
<1>8. rec' \in Records /\ rec' = [new EXCEPT !.rev = rec.rev + 1] /\ rec'.rev = rec.rev + 1
  BY <1>2, <1>6, <1>7, CommitType DEF Stored, IInv
<1>9. /\ rec'.rev # 0 /\ rec'.state = "EXECUTING" /\ rec'.dec = rec.dec
      /\ rec'.appr = rec.appr /\ rec'.env = rec.env /\ rec'.ptr = rec.ptr
      /\ rec'.evidence = rec.evidence /\ rec'.envEvidence = rec.envEvidence
      /\ rec'.status = rec.status
  BY <1>2, <1>5, <1>8 DEF Records
<1>10. RecordOK(rec', effects, briefs, consent)
  <2>1. rec'.dec = DecisionOf(rec'.state)
    BY <1>5, <1>9 DEF DecisionOf
  <2>2. \A i \in 1..NumActions, v \in Versions : rec'.status[<<i, v>>] = "none"
    BY <1>4, <1>9 DEF Keys
  <2>3. QED
    BY <1>2, <1>4, <1>9, <2>1, <2>2 DEF RecordOK
<1>11. /\ g \in Handlers /\ g.pc = "dispatch" /\ g.snap = rec' /\ g.step = 1 /\ g.ver = rec.appr
  <2>1. "dispatch" \in Labels
    BY DEF Labels
  <2>2. QED
    BY <1>2, <1>3, <1>5, <1>8, <2>1 DEF Handlers
<1> HIDE DEF new, g
<1>12. HandlerOK(g, rec', effects)
  <2>1. rec'.rev <= rec'.rev
    BY <1>5, <1>8
  <2>2. Fresh(g, rec')
    BY <1>11, <2>1, Zenon DEF Fresh
  <2>3. Pending(g)
    BY <1>11 DEF Pending, ExecutionPoints
  <2>4. g.ver \in Versions
    BY <1>5, <1>11, RunAssumption DEF Versions
  <2>5. \A j \in 1..NumActions : ~(j < g.step) /\ rec'.status[<<j, g.ver>>] = "none"
    BY <1>4, <1>9, <1>11, <2>4, RunAssumption DEF Keys
  <2>6. NumActions >= 1 /\ 1 \in 1..NumActions
    BY RunAssumption
  <2>7. Executing(g, rec', effects)
    BY <1>9, <1>11, <2>4, <2>5, <2>6 DEF Executing
  <2>8. QED
    BY <2>2, <2>3, <2>7 DEF HandlerOK
<1>13. QED
  BY <1>2, <1>4, <1>6, <1>7, <1>10, <1>11, <1>12, CommitStep

\* What an execution event leaves of the record: the state, and one status.
LEMMA EventFields ==
  ASSUME NEW r \in Records, NEW event \in ExecutionEvents, NEW k,
         event # "execution.completed" => k \in Keys
  PROVE  LET new == WithEvent(r, event, k) IN
         /\ new \in Records /\ new.rev = r.rev /\ new.dec = r.dec /\ new.appr = r.appr
         /\ new.env = r.env /\ new.ptr = r.ptr
         /\ new.evidence = r.evidence /\ new.envEvidence = r.envEvidence
         /\ \A j \in Keys \ {k} : new.status[j] = r.status[j]
         /\ event = "action.started" => new.state = r.state /\ new.status[k] = "started"
         /\ event = "action.completed" => new.state = r.state /\ new.status[k] = "completed"
         /\ event = "execution.failed" =>
              new.state = "EXECUTION_FAILED" /\ new.status[k] = "unknown"
         /\ event = "execution.completed" => new.state = "EXECUTED" /\ new.status = r.status
<1>1. /\ r.status \in [Keys -> Statuses]
      /\ "EXECUTION_FAILED" \in RunStates /\ "EXECUTED" \in RunStates
      /\ {"started", "completed", "unknown"} \subseteq Statuses
  BY DEF Records, RunStates, Statuses
<1>2. CASE event = "action.started"
  BY <1>1, <1>2 DEF WithEvent, Records
<1>3. CASE event = "action.completed"
  BY <1>1, <1>3 DEF WithEvent, Records
<1>4. CASE event = "execution.failed"
  BY <1>1, <1>4 DEF WithEvent, Records
<1>5. CASE event = "execution.completed"
  BY <1>1, <1>5 DEF WithEvent, Records
<1>6. QED
  BY <1>2, <1>3, <1>4, <1>5 DEF ExecutionEvents

\* execution_event commits: the status of one action, or the end of the Run.
LEMMA EventCommitStep ==
  ASSUME IInv, NEW p \in Procs, EventCommit(p)
  PROVE  IInv'
<1> DEFINE k == <<h[p].step, h[p].ver>>
           event == h[p].event
           new == WithEvent(rec, event, k)
<1>1. rec.rev = h[p].snap.rev /\ h[p].pc = "event commit"
  BY DEF EventCommit, Stored, Commit, At
<1>2. /\ h[p].snap = rec /\ rec \in Records /\ h[p] \in Handlers
      /\ Executing(h[p], rec, effects) /\ h[p].pc \in ExecutionPoints
      /\ RecordOK(rec, effects, briefs, consent)
      /\ briefs \in SUBSET Versions /\ consent \in 0..MaxVersion
      /\ rec.rev \in Nat
  BY <1>1, SnapshotIsCurrent DEF IInv, TypeOK, ExecutionPoints, Records
<1>3. /\ rec.state = "EXECUTING" /\ h[p].ver \in Versions /\ h[p].ver = rec.appr
      /\ h[p].step \in 1..(NumActions + 1) /\ event \in ExecutionEvents
  BY <1>2 DEF Executing, Handlers
<1>4. \A j \in 1..NumActions :
        /\ j < h[p].step => rec.status[<<j, h[p].ver>>] = "completed"
        /\ j > h[p].step => rec.status[<<j, h[p].ver>>] = "none"
  BY <1>2 DEF Executing
<1>5. /\ event = "action.started" => h[p].step <= NumActions /\ rec.status[k] = "none"
      /\ event \in {"action.completed", "execution.failed"} =>
           h[p].step <= NumActions /\ rec.status[k] = "started"
      /\ event = "action.completed" => effects[k] = 1
      /\ event = "execution.completed" => h[p].step = NumActions + 1
  BY <1>1, <1>2 DEF Executing
<1>6. event # "execution.completed" => k \in Keys /\ h[p].step \in 1..NumActions
  BY <1>3, <1>5, RunAssumption DEF Keys, ExecutionEvents
<1>7. Stored(p, new) /\ briefs' = briefs /\ consent' = consent
  BY <1>2 DEF EventCommit
<1>8. /\ new \in Records /\ new.rev = rec.rev /\ new.dec = rec.dec /\ new.appr = rec.appr
      /\ new.env = rec.env /\ new.ptr = rec.ptr
      /\ new.evidence = rec.evidence /\ new.envEvidence = rec.envEvidence
      /\ \A j \in Keys \ {k} : new.status[j] = rec.status[j]
      /\ event = "action.started" => new.state = "EXECUTING" /\ new.status[k] = "started"
      /\ event = "action.completed" => new.state = "EXECUTING" /\ new.status[k] = "completed"
      /\ event = "execution.failed" =>
           new.state = "EXECUTION_FAILED" /\ new.status[k] = "unknown"
      /\ event = "execution.completed" => new.state = "EXECUTED" /\ new.status = rec.status
  BY <1>2, <1>3, <1>6, EventFields
<1> HIDE DEF new, k, event
<1>9. rec' \in Records /\ rec' = [new EXCEPT !.rev = rec.rev + 1] /\ rec'.rev = rec.rev + 1
  BY <1>1, <1>2, <1>7, <1>8, CommitType DEF Stored, IInv
<1>10. /\ rec'.rev # 0 /\ rec'.dec = rec.dec /\ rec'.appr = rec.appr
       /\ rec'.env = rec.env /\ rec'.ptr = rec.ptr
       /\ rec'.evidence = rec.evidence /\ rec'.envEvidence = rec.envEvidence
       /\ rec'.state = new.state /\ rec'.status = new.status
  BY <1>2, <1>8, <1>9 DEF Records
<1>11. \A j \in Keys : j # k => rec'.status[j] = rec.status[j]
  BY <1>8, <1>10
<1>12. RecordOK(rec', effects, briefs, consent)
  <2>1. rec'.dec = DecisionOf(rec'.state) /\ rec.dec = "approve"
    BY <1>2, <1>3, <1>8, <1>10 DEF RecordOK, DecisionOf, ExecutionEvents
  <2>2. \A j \in Keys : rec'.status[j] # "none" => j[2] = rec'.appr
    <3>1. k[2] = rec.appr
      BY <1>3 DEF k
    <3>2. QED
      BY <1>2, <1>10, <1>11, <3>1 DEF RecordOK
  <2>3. \A j \in Keys : /\ effects[j] \in {0, 1}
                        /\ rec'.status[j] = "none" => effects[j] = 0
                        /\ rec'.status[j] = "completed" => effects[j] = 1
    BY <1>2, <1>3, <1>5, <1>6, <1>8, <1>10, <1>11 DEF RecordOK, ExecutionEvents
  <2>4. \A i \in 1..NumActions, v \in Versions : rec'.status[<<i, v>>] # "none" =>
          \A j \in 1..(i - 1) : rec'.status[<<j, v>>] = "completed"
    <3>1. SUFFICES ASSUME NEW i \in 1..NumActions, NEW v \in Versions, NEW j \in 1..(i - 1),
                          rec'.status[<<i, v>>] # "none"
                   PROVE  rec'.status[<<j, v>>] = "completed"
      OBVIOUS
    <3>2. /\ <<i, v>> \in Keys /\ <<j, v>> \in Keys /\ j \in 1..NumActions /\ j < i
      BY RunAssumption DEF Keys
    <3>3. CASE v # h[p].ver
      BY <1>2, <1>3, <1>11, <3>1, <3>2, <3>3 DEF RecordOK, k
    <3>4. CASE v = h[p].ver /\ i > h[p].step
      <4>1. <<i, v>> # k
        BY <1>3, <3>4, RunAssumption DEF k
      <4>2. QED
        BY <1>4, <1>11, <3>1, <3>2, <3>4, <4>1
    <3>5. CASE v = h[p].ver /\ i <= h[p].step
      <4>1. j < h[p].step
        BY <1>3, <3>2, <3>5, RunAssumption
      <4>2. <<j, v>> # k
        BY <1>3, <4>1, <3>2, RunAssumption DEF k
      <4>3. QED
        BY <1>4, <1>11, <3>2, <3>5, <4>1, <4>2
    <3>6. i > h[p].step \/ i <= h[p].step
      BY <1>3, RunAssumption
    <3>7. QED
      BY <3>3, <3>4, <3>5, <3>6
  <2>5. rec'.state = "EXECUTION_FAILED" => \E j \in Keys : rec'.status[j] = "unknown"
    BY <1>3, <1>6, <1>8, <1>10 DEF ExecutionEvents
  <2>6. rec'.state = "EXECUTED" => \A i \in 1..NumActions : rec'.status[<<i, rec'.appr>>] = "completed"
    <3>1. rec'.state = "EXECUTED" => event = "execution.completed"
      BY <1>3, <1>8, <1>10 DEF ExecutionEvents
    <3>2. \A i \in 1..NumActions : i < NumActions + 1
      BY RunAssumption
    <3>3. QED
      BY <1>3, <1>4, <1>5, <1>8, <1>10, <3>1, <3>2
  <2>7. rec'.state \in {"EXECUTING", "EXECUTED", "EXECUTION_FAILED"}
    BY <1>3, <1>8, <1>10 DEF ExecutionEvents
  <2>8. QED
    BY <1>2, <1>10, <2>1, <2>2, <2>3, <2>4, <2>5, <2>6, <2>7 DEF RecordOK
<1>13. NoRecord.rev = 0 /\ 0 <= rec'.rev /\ rec'.rev <= rec'.rev
  BY <1>2, <1>9 DEF NoRecord
<1>14. CASE event = "action.started"
  <2> DEFINE g == [h[p] EXCEPT !.pc = "calling", !.snap = NoRecord]
  <2>1. h' = [h EXCEPT ![p] = g]
    BY <1>14 DEF EventCommit, Drops, Become, event
  <2>2. /\ g \in Handlers /\ g.pc = "calling" /\ g.snap = NoRecord
        /\ g.step = h[p].step /\ g.ver = h[p].ver
    <3>1. "calling" \in Labels
      BY DEF Labels
    <3>2. QED
      BY <1>2, <3>1, NoRecordType DEF Handlers
  <2> HIDE DEF g
  <2>3. Fresh(g, rec') /\ Pending(g)
    BY <1>10, <1>13, <2>2 DEF Fresh, Pending, ExecutionPoints
  <2>4. effects[k] = 0 /\ rec'.status[k] = "started" /\ rec'.state = "EXECUTING"
    BY <1>2, <1>5, <1>6, <1>8, <1>10, <1>14 DEF RecordOK
  <2>5. \A j \in 1..NumActions :
          /\ j < g.step => rec'.status[<<j, g.ver>>] = "completed"
          /\ j > g.step => rec'.status[<<j, g.ver>>] = "none"
    BY <1>3, <1>4, <1>11, <2>2, RunAssumption DEF Keys, k
  <2>6. Executing(g, rec', effects)
    BY <1>3, <1>5, <1>10, <1>14, <2>2, <2>4, <2>5 DEF Executing, k
  <2>7. QED
    BY <1>2, <1>7, <1>8, <1>12, <2>1, <2>2, <2>3, <2>6, CommitStep DEF HandlerOK
<1>15. CASE event = "action.completed"
  <2> DEFINE g == [h[p] EXCEPT !.pc = "dispatch", !.snap = rec', !.step = h[p].step + 1]
  <2>1. h' = [h EXCEPT ![p] = g]
    BY <1>15 DEF EventCommit, Become, event
  <2>2. /\ g \in Handlers /\ g.pc = "dispatch" /\ g.snap = rec'
        /\ g.step = h[p].step + 1 /\ g.ver = h[p].ver
    <3>1. "dispatch" \in Labels
      BY DEF Labels
    <3>2. h[p].step + 1 \in 1..(NumActions + 1)
      BY <1>6, <1>15, RunAssumption
    <3>3. QED
      BY <1>2, <1>9, <3>1, <3>2 DEF Handlers
  <2> HIDE DEF g
  <2>3. Fresh(g, rec') /\ Pending(g)
    <3>1. Fresh(g, rec')
      BY <1>13, <2>2, Zenon DEF Fresh
    <3>2. QED
      BY <2>2, <3>1 DEF Pending, ExecutionPoints
  <2>4. rec'.status[k] = "completed" /\ rec'.state = "EXECUTING"
    BY <1>8, <1>10, <1>15
  <2>5. \A j \in 1..NumActions :
          /\ j < g.step => rec'.status[<<j, g.ver>>] = "completed"
          /\ j >= g.step => rec'.status[<<j, g.ver>>] = "none"
    <3>1. ASSUME NEW j \in 1..NumActions
          PROVE  /\ <<j, h[p].ver>> \in Keys
                 /\ j # h[p].step => rec'.status[<<j, h[p].ver>>] = rec.status[<<j, h[p].ver>>]
      BY <1>3, <1>11 DEF Keys, k
    <3>2. ASSUME NEW j \in 1..NumActions
          PROVE  /\ j < g.step => j < h[p].step \/ j = h[p].step
                 /\ j >= g.step => j > h[p].step /\ j # h[p].step
      BY <1>3, <2>2, RunAssumption
    <3>3. QED
      BY <1>4, <2>2, <2>4, <3>1, <3>2 DEF k
  <2>6. Executing(g, rec', effects)
    <3>1. \A j \in 1..NumActions : j > g.step => j >= g.step
      BY <2>2, <1>3, RunAssumption
    <3>2. g.step <= NumActions => g.step \in 1..NumActions /\ g.step >= g.step
      BY <2>2, <1>3, RunAssumption
    <3>3. QED
      BY <1>3, <1>10, <2>2, <2>4, <2>5, <3>1, <3>2 DEF Executing
  <2>7. QED
    BY <1>2, <1>7, <1>8, <1>12, <2>1, <2>2, <2>3, <2>6, CommitStep DEF HandlerOK
<1>16. CASE event \in {"execution.failed", "execution.completed"}
  <2>1. h' = [h EXCEPT ![p] = Idle]
    BY <1>16 DEF EventCommit, Ends, Become, event
  <2>2. /\ Idle \in Handlers /\ Idle.pc = "idle" /\ Idle.snap = NoRecord /\ Idle.step = 1
    BY NoRecordType DEF Idle
  <2>3. HandlerOK(Idle, rec', effects) /\ Idle.pc \notin ExecutionPoints
    BY <1>10, <1>13, <2>2 DEF HandlerOK, Fresh, Pending, Executing, ExecutionPoints
  <2>4. QED
    BY <1>2, <1>7, <1>8, <1>12, <2>1, <2>2, <2>3, CommitStep
<1>17. QED
  BY <1>3, <1>14, <1>15, <1>16 DEF ExecutionEvents

-----------------------------------------------------------------------------
(* The theorems.                                                           *)

\* The inductive invariant holds before the Run exists.
LEMMA InitInvariant == Init => IInv
<1> SUFFICES ASSUME Init PROVE IInv
  OBVIOUS
<1> USE DEF Init
<1>1. \A k \in Keys : NoRecord.status[k] = "none" /\ effects[k] = 0
  BY DEF NoRecord
<1>2. NoRecord.state = "ABSENT" /\ NoRecord.dec = "none" /\ NoRecord.rev = 0 /\ NoRecord.ptr = 0
  BY DEF NoRecord
<1>3. TypeOK
  <2>1. 0 \in 0..MaxVersion /\ 0 \in Nat /\ sources \in SourceStates
    BY RunAssumption DEF SourceStates
  <2>2. h \in [Procs -> Handlers] /\ effects \in [Keys -> Nat]
    BY <2>1, NoRecordType
  <2>3. QED
    BY <2>1, <2>2, NoRecordType DEF TypeOK
<1>4. RecordOK(rec, effects, briefs, consent)
  <2>1. \A i \in 1..NumActions, v \in Versions : NoRecord.status[<<i, v>>] = "none"
    BY <1>1 DEF Keys
  <2>2. NoRecord.dec = DecisionOf(NoRecord.state)
    BY <1>2 DEF DecisionOf
  <2>3. QED
    BY <1>1, <1>2, <2>1, <2>2 DEF RecordOK
<1>5. ASSUME NEW p \in Procs PROVE HandlerOK(h[p], rec, effects) /\ h[p].pc = "idle"
  <2>1. h[p] = Idle /\ Idle.pc = "idle" /\ Idle.snap = NoRecord /\ Idle.step = 1
    BY DEF Idle
  <2>2. NoRecord.rev <= NoRecord.rev
    BY <1>2
  <2>3. Fresh(Idle, rec)
    BY <2>1, <2>2 DEF Fresh
  <2>4. QED
    BY <2>1, <2>3 DEF HandlerOK, Pending, Executing, ExecutionPoints
<1>6. SoleExecutor
  BY <1>5 DEF SoleExecutor, ExecutionPoints
<1>7. QED
  BY <1>3, <1>4, <1>5, <1>6 DEF IInv

\* A crash ends a handler at any point.
LEMMA CrashStep ==
  ASSUME IInv, NEW p \in Procs, Crash(p)
  PROVE  IInv'
BY EndsStep DEF Crash, IInv, TypeOK

\* The environment leaves the record, the handlers and the effects alone.
LEMMA EnvironmentStep ==
  ASSUME IInv, WindowLapses \/ FactsChange \/ UNCHANGED vars
  PROVE  IInv'
<1>1. /\ UNCHANGED <<rec, briefs, h, cards, effects, inputs, crashes, consent>>
      /\ lapsed' \in SUBSET Versions /\ sources' \in SourceStates
  <2>1. WindowLapses => rec.requested \in Versions
    BY RunAssumption DEF WindowLapses, IInv, TypeOK, Records, Versions
  <2>2. QED
    BY <2>1 DEF WindowLapses, FactsChange, vars, IInv, TypeOK
<1>2. TypeOK'
  BY <1>1 DEF IInv, TypeOK
<1>3. QED
  BY <1>1, <1>2 DEF IInv, SoleExecutor

\* Every step of every handler, and of the environment, keeps the invariant.
LEMMA StepInvariant == IInv /\ [Next]_vars => IInv'
<1> SUFFICES ASSUME IInv, [Next]_vars PROVE IInv'
  OBVIOUS
<1>1. CASE WindowLapses \/ FactsChange \/ UNCHANGED vars
  BY <1>1, EnvironmentStep
<1>2. ASSUME NEW p \in Procs, Request(p) \/ Crash(p)
      PROVE  IInv'
  BY <1>2, RequestStep, CrashStep
<1>3. ASSUME NEW p \in Procs, Continues(p)
      PROVE  IInv'
  BY <1>3, AuditStep, EarlyStep, DecisionStep, StartedStep, AssemblyLocalStep,
     ExecuteReadStep, DispatchStep, EventLocalStep, EventCommitStep, CallStep
     DEF Continues
<1>4. QED
  BY <1>1, <1>2, <1>3 DEF Next

\* The inductive invariant holds in every reachable state.
THEOREM Invariance == Spec => []IInv
BY InitInvariant, StepInvariant, PTL DEF Spec

\* Every variable keeps its type, for every number of handlers and versions.
THEOREM TypeCorrect == Spec => []TypeOK
<1>1. IInv => TypeOK
  BY DEF IInv
<1>2. QED
  BY <1>1, Invariance, PTL

\* No action takes effect twice, for every number of handlers, clicks, crashes
\* and manifest entries.
THEOREM EffectsAtMostOnce == Spec => []AtMostOnce
<1>1. IInv => AtMostOnce
  BY DEF IInv, RecordOK, AtMostOnce
<1>2. QED
  BY <1>1, Invariance, PTL

\* A decision and the stored package are of the version on the card.
THEOREM DecisionIsBound == Spec => []DecisionBindsPackage
<1>1. IInv => DecisionBindsPackage
  BY DEF IInv, RecordOK, DecisionBindsPackage
<1>2. QED
  BY <1>1, Invariance, PTL

\* Every effect is one the approver consented to, on the brief shown.
THEOREM EffectsAreConsented == Spec => []ConsentedEffects
<1>1. IInv => ConsentedEffects
  <2>1. SUFFICES ASSUME IInv, NEW k \in Keys, effects[k] > 0
                 PROVE  /\ rec.dec = "approve"
                        /\ k[2] = consent /\ k[2] = rec.env /\ k[2] = rec.ptr
                        /\ k[2] \in briefs
    BY DEF ConsentedEffects
  <2>2. RecordOK(rec, effects, briefs, consent) /\ rec \in Records
    BY <2>1 DEF IInv, TypeOK
  <2>3. effects[k] # 0
    BY <2>1
  <2>4. rec.state \in {"EXECUTING", "EXECUTED", "EXECUTION_FAILED"} /\ k[2] = rec.appr
    BY <2>2, <2>3 DEF RecordOK
  <2>5. rec.dec = "approve"
    BY <2>2, <2>4 DEF RecordOK, DecisionOf
  <2>6. QED
    BY <2>2, <2>4, <2>5 DEF RecordOK
<1>2. QED
  BY <1>1, Invariance, PTL

\* An action takes effect only after the receipts of those before it are stored.
THEOREM EffectsInOrder == Spec => []InManifestOrder
<1>1. IInv => InManifestOrder
  <2>1. SUFFICES ASSUME IInv, NEW i \in 1..NumActions, NEW v \in Versions,
                        effects[<<i, v>>] > 0
                 PROVE  \A j \in 1..(i - 1) : rec.status[<<j, v>>] = "completed"
    BY DEF InManifestOrder
  <2>2. <<i, v>> \in Keys /\ effects[<<i, v>>] # 0
    BY <2>1 DEF Keys
  <2>3. QED
    BY <2>1, <2>2 DEF IInv, RecordOK
<1>2. QED
  BY <1>1, Invariance, PTL

\* The record announces every effect, and its receipts tell of real effects.
THEOREM RecordTellsOutcome == Spec => []OutcomeOnRecord
<1>1. IInv => OutcomeOnRecord
  <2>1. SUFFICES ASSUME IInv, NEW k \in Keys
                 PROVE  /\ effects[k] > 0 => rec.status[k] # "none"
                        /\ rec.status[k] = "completed" => effects[k] = 1
                        /\ rec.state = "EXECUTED" /\ k[2] = rec.appr =>
                             rec.status[k] = "completed"
    BY DEF OutcomeOnRecord
  <2>2. RecordOK(rec, effects, briefs, consent)
    BY <2>1 DEF IInv
  <2>3. PICK i \in 1..NumActions, v \in Versions : k = <<i, v>>
    BY DEF Keys
  <2>4. rec.state = "EXECUTED" /\ k[2] = rec.appr => rec.status[k] = "completed"
    BY <2>2, <2>3 DEF RecordOK
  <2>5. effects[k] > 0 => rec.status[k] # "none"
    BY <2>2 DEF RecordOK
  <2>6. QED
    BY <2>2, <2>4, <2>5 DEF RecordOK
<1>2. QED
  BY <1>1, Invariance, PTL

\* Two handlers never execute side by side.
THEOREM OneExecutor == Spec => []SoleExecutor
<1>1. IInv => SoleExecutor
  BY DEF IInv
<1>2. QED
  BY <1>1, Invariance, PTL

-----------------------------------------------------------------------------
(* What a step may never do to a record that carries a decision.           *)

SamePackage ==
  /\ rec'.dec = rec.dec /\ rec'.appr = rec.appr
  /\ rec'.env = rec.env /\ rec'.ptr = rec.ptr
  /\ rec'.evidence = rec.evidence /\ rec'.envEvidence = rec.envEvidence

SameOutcome == rec'.state = rec.state /\ rec'.status = rec.status

\* Only execution.started moves an approved Run, and only the execution events
\* move one that executes; a stored outcome of an action is never overwritten.
Progresses ==
  \/ SameOutcome
  \/ rec.state = "APPROVED" /\ rec'.status = rec.status
  \/ /\ rec.state = "EXECUTING"
     /\ \A k \in Keys : rec.status[k] \in {"completed", "unknown"} =>
          rec'.status[k] = rec.status[k]

\* After a decision a step leaves the package alone and only adds outcomes.
LEMMA DecidedStep ==
  ASSUME IInv, Next, rec.dec # "none"
  PROVE  SamePackage /\ Progresses
<1>1. rec \in Records /\ RecordOK(rec, effects, briefs, consent)
  BY DEF IInv, TypeOK
<1>2. rec.state \in {"APPROVED", "EXECUTING", "EXECUTED", "EXECUTION_FAILED", "CLOSED_REJECTED"}
  BY <1>1 DEF RecordOK, DecisionOf
<1>3. CASE UNCHANGED rec
  BY <1>3 DEF SamePackage, Progresses, SameOutcome
<1>4. ASSUME NEW p \in Procs, CommitAudit(p)
      PROVE  SamePackage /\ SameOutcome
  <2>1. Stored(p, h[p].snap) /\ Commit(p, h[p].snap) /\ rec.rev = h[p].snap.rev
    BY <1>4 DEF CommitAudit, Stored, Commit
  <2>2. h[p].snap = rec
    BY <2>1, SnapshotIsCurrent
  <2>3. rec' = [rec EXCEPT !.rev = rec.rev + 1]
    BY <1>1, <2>1, <2>2, CommitType DEF IInv
  <2>4. QED
    BY <1>1, <2>3 DEF SamePackage, SameOutcome, Records
<1>5. ASSUME NEW p \in Procs,
             \/ CommitDetected(p) \/ CommitAgentStarted(p) \/ CommitEvidence(p)
             \/ CommitPolicy(p) \/ CommitBrief(p) \/ CommitHold(p) \/ CommitRequested(p)
             \/ CommitDecision(p)
      PROVE  FALSE
  <2>1. rec.rev = h[p].snap.rev
    BY <1>5 DEF CommitDetected, CommitAgentStarted, CommitEvidence, CommitPolicy, CommitBrief,
           CommitHold, CommitRequested, CommitDecision, Stored, Commit
  <2>2. h[p].snap = rec /\ Pending(h[p])
    BY <2>1, SnapshotIsCurrent
  <2>3. rec.state \in Undecided
    BY <1>5, <2>2
       DEF CommitDetected, CommitAgentStarted, CommitEvidence, CommitPolicy, CommitBrief,
           CommitHold, CommitRequested, CommitDecision, At, Pending, MayHold, Undecided
  <2>4. QED
    BY <1>2, <2>3 DEF Undecided
<1>6. ASSUME NEW p \in Procs, CommitStarted(p)
      PROVE  SamePackage /\ rec.state = "APPROVED" /\ rec'.status = rec.status
  <2> DEFINE new == [rec EXCEPT !.state = "EXECUTING"]
  <2>1. rec.rev = h[p].snap.rev
    BY <1>6 DEF CommitStarted, Stored, Commit
  <2>2. h[p].snap = rec /\ Pending(h[p])
    BY <2>1, SnapshotIsCurrent
  <2>3. rec.state = "APPROVED"
    BY <1>1, <1>6, <2>2 DEF CommitStarted, At, Pending, RecordOK
  <2>4. Commit(p, new) /\ new \in Records /\ new.rev = h[p].snap.rev
    <3>1. "EXECUTING" \in RunStates
      BY DEF RunStates
    <3>2. QED
      BY <1>1, <1>6, <2>2, <3>1 DEF CommitStarted, Stored, Records
  <2>5. rec' = [new EXCEPT !.rev = rec.rev + 1]
    <3> HIDE DEF new
    <3>1. QED
      BY <2>4, CommitType DEF IInv
  <2>6. QED
    BY <1>1, <2>3, <2>5 DEF SamePackage, Records
<1>7. ASSUME NEW p \in Procs, EventCommit(p)
      PROVE  SamePackage /\ Progresses
  <2> DEFINE k == <<h[p].step, h[p].ver>>
             new == WithEvent(rec, h[p].event, k)
  <2>1. rec.rev = h[p].snap.rev /\ h[p].pc = "event commit"
    BY <1>7 DEF EventCommit, Stored, Commit, At
  <2>2. /\ h[p].snap = rec /\ h[p] \in Handlers
        /\ Executing(h[p], rec, effects) /\ h[p].pc \in ExecutionPoints
    BY <2>1, SnapshotIsCurrent DEF ExecutionPoints
  <2>3. rec.state = "EXECUTING" /\ h[p].ver \in Versions /\ h[p].event \in ExecutionEvents
        /\ h[p].step \in 1..(NumActions + 1)
    BY <2>2 DEF Executing, Handlers
  <2>4. h[p].event # "execution.completed" =>
          h[p].step <= NumActions /\ rec.status[k] \in {"none", "started"}
    BY <2>1, <2>2, <2>3 DEF Executing, ExecutionEvents
  <2>5. h[p].event # "execution.completed" => k \in Keys
    BY <2>3, <2>4, RunAssumption DEF Keys
  <2>6. /\ new \in Records /\ new.rev = rec.rev /\ new.dec = rec.dec /\ new.appr = rec.appr
        /\ new.env = rec.env /\ new.ptr = rec.ptr
        /\ new.evidence = rec.evidence /\ new.envEvidence = rec.envEvidence
        /\ \A j \in Keys \ {k} : new.status[j] = rec.status[j]
        /\ h[p].event = "execution.completed" => new.status = rec.status
    BY <1>1, <2>3, <2>5, EventFields
  <2>7. Commit(p, new) /\ new.rev = h[p].snap.rev
    BY <1>7, <2>2, <2>6 DEF EventCommit, Stored
  <2> HIDE DEF new, k
  <2>8. rec' = [new EXCEPT !.rev = rec.rev + 1]
    BY <2>6, <2>7, CommitType DEF IInv
  <2>9. SamePackage /\ rec'.status = new.status
    BY <2>6, <2>8 DEF SamePackage, Records
  <2>10. \A j \in Keys : rec.status[j] \in {"completed", "unknown"} =>
           rec'.status[j] = rec.status[j]
    BY <2>4, <2>6, <2>9
  <2>11. QED
    BY <2>3, <2>9, <2>10 DEF Progresses
<1>8. ASSUME NEW p \in Procs,
             \/ Request(p) \/ Crash(p) \/ Refused(p)
             \/ AgentProposes(p) \/ AssemblyFails(p) \/ HoldRead(p) \/ CardSent(p) \/ CardFails(p)
             \/ ExecuteRead(p) \/ Dispatch(p) \/ EventRead(p)
             \/ EventConflict(p) \/ GivesUp(p) \/ CallReturns(p) \/ CallRaises(p)
      PROVE  UNCHANGED rec
  <2>1. CASE Request(p)
    BY <2>1 DEF Request, DetectRead, AssembleRead, PricingRead, RequestRead, DecideRead, InputOnly
  <2>2. CASE \/ Crash(p) \/ Refused(p) \/ CallReturns(p) \/ CallRaises(p)
    BY <2>2 DEF Crash, Refused, CallReturns, CallRaises
  <2>3. CASE \/ AgentProposes(p) \/ AssemblyFails(p) \/ HoldRead(p) \/ CardSent(p)
             \/ CardFails(p) \/ ExecuteRead(p) \/ Dispatch(p) \/ EventRead(p)
             \/ EventConflict(p) \/ GivesUp(p)
    BY <2>3 DEF AgentProposes, AssemblyFails, HoldRead, CardSent, CardFails,
                ExecuteRead, Dispatch, EventRead, EventConflict, GivesUp, Local
  <2>4. QED
    BY <1>8, <2>1, <2>2, <2>3
<1>9. CASE WindowLapses \/ FactsChange
  BY <1>3, <1>9 DEF WindowLapses, FactsChange
<1>10. QED
  BY <1>3, <1>4, <1>5, <1>6, <1>7, <1>8, <1>9 DEF Next, Continues, Progresses

\* No late hold, assembly or click changes a decided package.
THEOREM DecidedPackageFrozen == Spec => ApprovedPackageFrozen
<1>1. IInv /\ [Next]_vars =>
        [rec.dec # "none" =>
           /\ rec'.dec = rec.dec /\ rec'.appr = rec.appr
           /\ rec'.env = rec.env /\ rec'.ptr = rec.ptr
           /\ rec'.evidence = rec.evidence /\ rec'.envEvidence = rec.envEvidence]_vars
  BY DecidedStep DEF SamePackage
<1>2. QED
  BY <1>1, Invariance, PTL DEF Spec, ApprovedPackageFrozen

\* A closed, executed or failed Run never moves again.
THEOREM ClosedRunStays == Spec => OutcomeIsFinal
<1>1. IInv /\ [Next]_vars =>
        [rec.state \in {"CLOSED_REJECTED", "EXECUTED", "EXECUTION_FAILED"} =>
           rec'.state = rec.state]_vars
  <2>1. SUFFICES ASSUME IInv, Next,
                        rec.state \in {"CLOSED_REJECTED", "EXECUTED", "EXECUTION_FAILED"}
                 PROVE  rec'.state = rec.state
    OBVIOUS
  <2>2. rec.dec # "none"
    BY <2>1 DEF IInv, RecordOK, DecisionOf
  <2>3. QED
    BY <2>1, <2>2, DecidedStep DEF Progresses, SameOutcome
<1>2. QED
  BY <1>1, Invariance, PTL DEF Spec, OutcomeIsFinal

\* No commit discards a receipt or an unknown outcome.
THEOREM OutcomesAreKept == Spec => ReceiptsKept
<1>1. IInv /\ [Next]_vars =>
        [\A k \in Keys : rec.status[k] \in {"completed", "unknown"} =>
           rec'.status[k] = rec.status[k]]_vars
  <2>1. SUFFICES ASSUME IInv, Next, NEW k \in Keys,
                        rec.status[k] \in {"completed", "unknown"}
                 PROVE  rec'.status[k] = rec.status[k]
    OBVIOUS
  <2>2. rec.dec # "none"
    BY <2>1 DEF IInv, RecordOK, DecisionOf
  <2>3. QED
    BY <2>1, <2>2, DecidedStep DEF Progresses, SameOutcome
<1>2. QED
  BY <1>1, Invariance, PTL DEF Spec, ReceiptsKept

=============================================================================
