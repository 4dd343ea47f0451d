------------------------ MODULE RenewalRunRefinement ------------------------
(***************************************************************************)
(* RenewalRun implements ApprovalGate for every number of handlers,        *)
(* actions and versions: the recorded decision is the gate's decision, the *)
(* effects of the approved version are what the gate counts, and the state *)
(* of the record is its outcome.                                           *)
(*                                                                         *)
(* Before a decision nothing has taken effect, so a step can only decide.  *)
(* After it the package stands still (DecidedStep): a Graph call is one    *)
(* Act, or a stutter when it raised without acting, and the two events     *)
(* that end an execution are Complete and Fail; RecordOK after the step    *)
(* tells that all effects of a complete Run are there.                     *)
(***************************************************************************)
EXTENDS RenewalRunProofs

\* What the gate counts: the effects of the approved version.
Done == [i \in 1..NumActions |-> IF rec.appr = 0 THEN 0 ELSE effects[<<i, rec.appr>>]]

GateUnchanged == rec'.dec = rec.dec /\ Done' = Done /\ Outcome' = Outcome

\* Only a Graph call has an effect.
LEMMA OnlyCallsAct ==
  ASSUME Next, \A p \in Procs : ~(CallReturns(p) \/ CallRaises(p))
  PROVE  UNCHANGED effects
<1>1. ASSUME NEW p \in Procs, Request(p)
      PROVE  UNCHANGED effects
  BY <1>1 DEF Request, DetectRead, AssembleRead, PricingRead, RequestRead, DecideRead, InputOnly
<1>2. ASSUME NEW p \in Procs,
             \/ CommitAudit(p) \/ CommitDetected(p) \/ CommitAgentStarted(p)
             \/ CommitEvidence(p) \/ CommitPolicy(p) \/ CommitBrief(p) \/ CommitHold(p)
             \/ CommitRequested(p) \/ CommitDecision(p) \/ CommitStarted(p) \/ EventCommit(p)
      PROVE  UNCHANGED effects
  BY <1>2 DEF CommitAudit, CommitDetected, CommitAgentStarted, CommitEvidence, CommitPolicy,
     CommitBrief, CommitHold, CommitRequested, CommitDecision, CommitStarted, EventCommit, Stored
<1>3. ASSUME NEW p \in Procs,
             \/ Crash(p) \/ Refused(p)
             \/ AgentProposes(p) \/ AssemblyFails(p) \/ HoldRead(p) \/ CardSent(p) \/ CardFails(p)
             \/ ExecuteRead(p) \/ Dispatch(p) \/ EventRead(p) \/ EventConflict(p)
             \/ GivesUp(p)
      PROVE  UNCHANGED effects
  BY <1>3 DEF Crash, Refused, AgentProposes, AssemblyFails, HoldRead, CardSent, CardFails,
     ExecuteRead, Dispatch, EventRead, EventConflict, GivesUp, Local
<1>4. CASE WindowLapses \/ FactsChange
  BY <1>4 DEF WindowLapses, FactsChange
<1>5. QED
  BY <1>1, <1>2, <1>3, <1>4 DEF Next, Continues

\* A Graph call is made while the approved Run executes, on an action without
\* an effect whose predecessors all have theirs.
LEMMA CallMaps ==
  ASSUME IInv, NEW p \in Procs, CallReturns(p) \/ CallRaises(p)
  PROVE  (\E i \in 1..NumActions : Gate!Act(i)) \/ GateUnchanged
<1> DEFINE i == h[p].step
           v == h[p].ver
<1>1. /\ h[p] \in Handlers /\ rec \in Records /\ effects \in [Keys -> Nat]
      /\ RecordOK(rec, effects, briefs, consent) /\ Executing(h[p], rec, effects)
      /\ h[p].pc = "calling"
  BY DEF IInv, TypeOK, HandlerOK, CallReturns, CallRaises, At
<1>2. /\ rec.state = "EXECUTING" /\ v \in Versions /\ v = rec.appr
      /\ i \in 1..NumActions /\ effects[<<i, v>>] = 0
      /\ \A j \in 1..(i - 1) : rec.status[<<j, v>>] = "completed"
  <2>1. h[p].pc \in ExecutionPoints /\ i \in 1..(NumActions + 1)
    BY <1>1 DEF ExecutionPoints, Handlers
  <2>2. QED
    BY <1>1, <2>1, RunAssumption DEF Executing
<1>3. rec.dec = "approve" /\ Outcome = "open" /\ rec.appr # 0
  BY <1>1, <1>2, RunAssumption DEF RecordOK, DecisionOf, Outcome, Versions
<1>4. <<i, v>> \in Keys /\ \A j \in 1..(i - 1) : <<j, v>> \in Keys
  BY <1>2, RunAssumption DEF Keys
<1>5. \A j \in 1..(i - 1) : effects[<<j, v>>] = 1
  BY <1>1, <1>2, <1>4 DEF RecordOK
<1>6. rec' = rec
  BY DEF CallReturns, CallRaises
<1>7. CASE UNCHANGED effects
  BY <1>6, <1>7 DEF GateUnchanged, Done, Outcome
<1>8. CASE TakesEffect(p)
  <2>1. Done[i] = 0 /\ \A j \in 1..(i - 1) : Done[j] = 1
    BY <1>2, <1>3, <1>5, RunAssumption DEF Done
  <2>2. Done' = [Done EXCEPT ![i] = 1]
    <3>1. effects' = [effects EXCEPT ![<<i, v>>] = 1]
      BY <1>1, <1>2, <1>4, <1>8 DEF TakesEffect
    <3>2. \A j \in 1..NumActions : <<j, v>> \in Keys
      BY <1>2 DEF Keys
    <3>3. \A j \in 1..NumActions :
            effects'[<<j, v>>] = IF j = i THEN 1 ELSE effects[<<j, v>>]
      BY <1>1, <3>1, <3>2
    <3>4. QED
      BY <1>2, <1>3, <1>6, <3>3 DEF Done
  <2>3. Outcome' = Outcome
    BY <1>6 DEF Outcome
  <2>4. PICK k \in 1..NumActions : k = i
    BY <1>2
  <2>5. Gate!Act(k)
    BY <1>3, <1>6, <2>1, <2>2, <2>3, <2>4 DEF Gate!Act, Done
  <2>6. QED
    BY <2>5
<1>9. QED
  BY <1>7, <1>8 DEF CallReturns, CallRaises

\* No commit takes an undecided Run to EXECUTION_FAILED.
LEMMA UndecidedDoesNotFail ==
  ASSUME IInv, Next, rec.dec = "none"
  PROVE  rec'.state # "EXECUTION_FAILED"
<1>1. rec \in Records /\ rec.state # "EXECUTION_FAILED" /\ rec.state # "EXECUTING"
  BY DEF IInv, TypeOK, RecordOK, DecisionOf
<1>2. ASSUME NEW p \in Procs,
             \/ CommitDetected(p) \/ CommitAgentStarted(p) \/ CommitEvidence(p)
             \/ CommitPolicy(p) \/ CommitHold(p) \/ CommitRequested(p)
             \/ CommitDecision(p) \/ CommitStarted(p)
      PROVE  rec'.state # "EXECUTION_FAILED"
  <2>1. h[p].snap \in Records
    BY DEF IInv, TypeOK, Handlers
  <2>2. QED
    BY <1>2, <2>1 DEF CommitDetected, CommitAgentStarted, CommitEvidence, CommitPolicy,
       CommitHold, CommitRequested, CommitDecision, CommitStarted, Stored, Commit, Records
<1>3. ASSUME NEW p \in Procs, CommitAudit(p) \/ CommitBrief(p)
      PROVE  rec'.state # "EXECUTION_FAILED"
  <2>1. h[p].snap = rec
    BY <1>3, SnapshotIsCurrent DEF CommitAudit, CommitBrief, Stored, Commit
  <2>2. QED
    BY <1>1, <1>3, <2>1 DEF CommitAudit, CommitBrief, Stored, Commit, Records
<1>4. ASSUME NEW p \in Procs, EventCommit(p)
      PROVE  FALSE
  <2>1. rec.rev = h[p].snap.rev /\ h[p].pc \in ExecutionPoints
    BY <1>4 DEF EventCommit, Stored, Commit, At, ExecutionPoints
  <2>2. rec.state = "EXECUTING"
    BY <2>1, SnapshotIsCurrent DEF Executing
  <2>3. QED
    BY <1>1, <2>2
<1>5. ASSUME NEW p \in Procs,
             \/ Request(p) \/ Crash(p) \/ Refused(p)
             \/ AgentProposes(p) \/ AssemblyFails(p) \/ HoldRead(p) \/ CardSent(p) \/ CardFails(p)
             \/ ExecuteRead(p) \/ Dispatch(p) \/ EventRead(p)
             \/ EventConflict(p) \/ GivesUp(p) \/ CallReturns(p) \/ CallRaises(p)
      PROVE  UNCHANGED rec
  <2>1. CASE Request(p)
    BY <2>1 DEF Request, DetectRead, AssembleRead, PricingRead, RequestRead, DecideRead, InputOnly
  <2>2. CASE \/ Crash(p) \/ Refused(p) \/ CallReturns(p) \/ CallRaises(p)
    BY <2>2 DEF Crash, Refused, CallReturns, CallRaises
  <2>3. CASE \/ AgentProposes(p) \/ AssemblyFails(p) \/ HoldRead(p) \/ CardSent(p)
             \/ CardFails(p) \/ ExecuteRead(p) \/ Dispatch(p) \/ EventRead(p)
             \/ EventConflict(p) \/ GivesUp(p)
    BY <2>3 DEF AgentProposes, AssemblyFails, HoldRead, CardSent, CardFails,
                ExecuteRead, Dispatch, EventRead, EventConflict, GivesUp, Local
  <2>4. QED
    BY <1>5, <2>1, <2>2, <2>3
<1>6. CASE WindowLapses \/ FactsChange
  BY <1>1, <1>6 DEF WindowLapses, FactsChange
<1>7. QED
  BY <1>1, <1>2, <1>3, <1>4, <1>5, <1>6 DEF Next, Continues

\* Without a Graph call, an undecided Run can only be decided.
LEMMA UndecidedMaps ==
  ASSUME IInv, IInv', Next, UNCHANGED effects, rec.dec = "none"
  PROVE  Gate!Decide \/ GateUnchanged
<1>1. /\ rec \in Records /\ rec' \in Records
      /\ RecordOK(rec, effects, briefs, consent) /\ RecordOK(rec', effects, briefs', consent')
  BY DEF IInv, TypeOK
<1>2. rec.state \notin {"EXECUTING", "EXECUTED", "EXECUTION_FAILED"}
  BY <1>1 DEF RecordOK, DecisionOf
<1>3. \A k \in Keys : effects[k] = 0
  BY <1>1, <1>2 DEF RecordOK
<1>4. \A i \in 1..NumActions, v \in Versions : effects[<<i, v>>] = 0
  BY <1>3 DEF Keys
<1>5. Done = [i \in 1..NumActions |-> 0] /\ Done' = [i \in 1..NumActions |-> 0]
  <2>1. rec.appr \in 0..MaxVersion /\ rec'.appr \in 0..MaxVersion
    BY <1>1 DEF Records
  <2>2. /\ rec.appr = 0 \/ rec.appr \in Versions
        /\ rec'.appr = 0 \/ rec'.appr \in Versions
    BY <2>1, RunAssumption DEF Versions
  <2>3. QED
    BY <1>4, <2>2 DEF Done
<1>6. rec'.state # "EXECUTED"
  <2>1. SUFFICES ASSUME rec'.state = "EXECUTED" PROVE FALSE
    OBVIOUS
  <2>2. rec'.appr \in Versions
    BY <1>1, <2>1, RunAssumption DEF RecordOK, DecisionOf, Records, Versions
  <2>3. 1 \in 1..NumActions
    BY RunAssumption
  <2>4. <<1, rec'.appr>> \in Keys /\ rec'.status[<<1, rec'.appr>>] = "completed"
    BY <1>1, <2>1, <2>2, <2>3 DEF RecordOK, Keys
  <2>5. QED
    BY <1>1, <1>3, <2>4 DEF RecordOK
<1>7. Outcome = "open" /\ Outcome' = "open"
  BY <1>2, <1>6, UndecidedDoesNotFail DEF Outcome
<1>8. rec'.dec \in {"none", "approve", "reject"}
  BY <1>1 DEF Records, Decisions
<1>9. QED
  BY <1>5, <1>7, <1>8 DEF Gate!Decide, GateUnchanged, Done

\* Without a Graph call, a decided Run can only be completed or fail.
LEMMA DecidedMaps ==
  ASSUME IInv, IInv', Next, UNCHANGED effects, rec.dec # "none"
  PROVE  Gate!Complete \/ Gate!Fail \/ GateUnchanged
<1>1. /\ rec \in Records /\ rec' \in Records
      /\ RecordOK(rec, effects, briefs, consent) /\ RecordOK(rec', effects, briefs', consent')
  BY DEF IInv, TypeOK
<1>2. rec'.dec = rec.dec /\ rec'.appr = rec.appr /\ Progresses
  BY DecidedStep DEF SamePackage
<1>3. Done' = Done
  BY <1>2 DEF Done
<1>4. rec.appr \in Versions
  BY <1>1, RunAssumption DEF RecordOK, Records, Versions
<1>5. CASE rec'.state = rec.state
  BY <1>2, <1>3, <1>5 DEF GateUnchanged, Outcome
<1>6. CASE rec'.state # rec.state
  <2>1. rec.state \in {"APPROVED", "EXECUTING"}
    BY <1>2, <1>6 DEF Progresses, SameOutcome
  <2>2. rec.dec = "approve" /\ Outcome = "open"
    BY <1>1, <2>1 DEF RecordOK, DecisionOf, Outcome
  <2>3. CASE rec'.state = "EXECUTED"
    <3>1. \A i \in 1..NumActions : <<i, rec.appr>> \in Keys
      BY <1>4 DEF Keys
    <3>2. \A i \in 1..NumActions : effects[<<i, rec.appr>>] = 1
      BY <1>1, <1>2, <2>3, <3>1 DEF RecordOK
    <3>3. \A i \in 1..NumActions : Done[i] = 1
      BY <1>4, <3>2, RunAssumption DEF Done, Versions
    <3>4. Outcome' = "complete"
      BY <2>3 DEF Outcome
    <3>5. QED
      BY <1>2, <1>3, <2>2, <3>3, <3>4 DEF Gate!Complete, Done
  <2>4. CASE rec'.state = "EXECUTION_FAILED"
    <3>1. Outcome' = "failed"
      BY <2>4 DEF Outcome
    <3>2. QED
      BY <1>2, <1>3, <2>2, <3>1 DEF Gate!Fail, Done
  <2>5. CASE rec'.state \notin {"EXECUTED", "EXECUTION_FAILED"}
    BY <1>2, <1>3, <2>2, <2>5 DEF GateUnchanged, Outcome
  <2>6. QED
    BY <2>3, <2>4, <2>5
<1>7. QED
  BY <1>5, <1>6

\* The empty record maps to the gate's initial state.
LEMMA InitMaps == Init => Gate!Init
<1>1. SUFFICES ASSUME Init PROVE Gate!Init
  OBVIOUS
<1>2. rec.dec = "none" /\ rec.appr = 0 /\ Outcome = "open"
  BY <1>1 DEF Init, NoRecord, Outcome
<1>3. QED
  BY <1>2 DEF Gate!Init

\* Every step maps to a step of the gate or to a stutter.
LEMMA StepMaps == IInv /\ IInv' /\ [Next]_vars => [Gate!Next]_Gate!gateVars
<1>1. SUFFICES ASSUME IInv, IInv', [Next]_vars
               PROVE  Gate!Next \/ GateUnchanged
  BY DEF GateUnchanged, Gate!gateVars, Done
<1>2. CASE UNCHANGED vars
  BY <1>2 DEF vars, GateUnchanged, Done, Outcome
<1>3. ASSUME NEW p \in Procs, CallReturns(p) \/ CallRaises(p)
      PROVE  Gate!Next \/ GateUnchanged
  BY <1>1, <1>3, CallMaps DEF Gate!Next
<1>4. CASE Next /\ \A p \in Procs : ~(CallReturns(p) \/ CallRaises(p))
  <2>1. UNCHANGED effects
    BY <1>4, OnlyCallsAct
  <2>2. QED
    BY <1>1, <1>4, <2>1, UndecidedMaps, DecidedMaps DEF Gate!Next
<1>5. QED
  BY <1>1, <1>2, <1>3, <1>4

\* The Run keeps the promise made to its approver: one final decision, the
\* approved actions once and in order, and nothing after a failure.
THEOREM ImplementsPromise == Spec => ImplementsGate
BY InitMaps, StepMaps, StepInvariant, InitInvariant, PTL DEF Spec, ImplementsGate, Gate!Spec

=============================================================================
