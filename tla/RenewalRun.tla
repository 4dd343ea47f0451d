----------------------------- MODULE RenewalRun -----------------------------
(***************************************************************************)
(* One Contract Renewal Run: the controller that owns its state            *)
(* (controller.py), the store whose commit is a compare-and-swap on the    *)
(* revision (store.py), the Teams callback that decides and executes       *)
(* (teams.py) and the Graph calls the approved manifest stands for.        *)
(*                                                                         *)
(* Every handler reads a snapshot, decides on it, and commits against the  *)
(* revision it read; between the two any other handler may run.  An await  *)
(* (the agent, the card post, the Graph call) is a step of its own.        *)
(*                                                                         *)
(* A brief hash covers the brief, its manifest and their random ids, so    *)
(* two envelopes have one hash exactly when they are one version: the      *)
(* version stands for both.  Facts, policy and corpus enter only as what   *)
(* current_facts and validate_evidence would say of them now (sources).    *)
(***************************************************************************)
EXTENDS Naturals, FiniteSets

CONSTANTS
  Procs,       \* concurrent handler activations (requests, callbacks, threads)
  NumActions,  \* length of the action manifest; the code builds file, then mail
  MaxVersion,  \* bound: brief versions
  MaxTries,    \* attempts of execution_event; 5 in the code
  MaxInputs,   \* bound: client requests, agent callbacks and card clicks
  MaxCrashes   \* bound: handlers cut off between two steps

ASSUME RunAssumption ==
  /\ NumActions \in Nat \ {0}
  /\ MaxVersion \in Nat \ {0}
  /\ MaxTries \in Nat \ {0}
  /\ MaxInputs \in Nat
  /\ MaxCrashes \in Nat

VARIABLES
  rec,      \* the stored snapshot document (a RunRecord)
  briefs,   \* versions whose immutable brief document was created
  h,        \* h[p]: what handler p is doing and the snapshot it holds
  cards,    \* versions whose approval card reached the Teams channel
  effects,  \* effects[k]: times action key k took effect at Microsoft Graph
  lapsed,   \* versions requested for approval more than an hour ago
  sources,  \* whether facts and evidence still hold: see SourceStates
  inputs,   \* inputs so far
  crashes,  \* crashes so far
  consent   \* history: the version on the card of the recorded decision

vars == <<rec, briefs, h, cards, effects, lapsed, sources, inputs, crashes, consent>>

-----------------------------------------------------------------------------
RunStates ==
  {"ABSENT", "DETECTED", "CONTEXT_ASSEMBLING", "CONTEXT_ASSEMBLED",
   "POLICY_VERIFIED", "AWAITING_APPROVAL", "EVIDENCE_HOLD", "APPROVED",
   "CLOSED_REJECTED", "EXECUTING", "EXECUTED", "EXECUTION_FAILED"}

Decisions == {"none", "approve", "reject"}

\* "expired": validate_evidence fails, as a cited source is no longer valid;
\* "changed": current_facts fails too, as contract, policy or corpus differ.
SourceStates == {"current", "expired", "changed"}

Statuses  == {"none", "started", "completed", "unknown"}
Versions  == 1..MaxVersion
Keys      == (1..NumActions) \X Versions   \* idempotency keys "<action>:v<version>"

\* RunRecord: env is the version of the stored envelope and envEvidence the
\* evidence its hash covers; ptr the current brief pointer of the Run; evidence
\* the assembly that produced the stored evidence; requested the version whose
\* request stamped approval_requested_at; dec and appr the recorded approval.
\* "completed" stands for the status together with its receipt.
Records ==
  [rev : Nat, state : RunStates, env : 0..MaxVersion, envEvidence : Nat,
   ptr : 0..MaxVersion, evidence : Nat, requested : 0..MaxVersion,
   dec : Decisions, appr : 0..MaxVersion, status : [Keys -> Statuses]]

NoRecord ==
  [rev |-> 0, state |-> "ABSENT", env |-> 0, envEvidence |-> 0, ptr |-> 0,
   evidence |-> 0, requested |-> 0, dec |-> "none", appr |-> 0,
   status |-> [k \in Keys |-> "none"]]

\* A handler about to commit an event is labelled with the event's type.
AuditEvents ==
  {"tool.pricing_completed", "approval.card_sent", "approval.denied",
   "approval.duplicate_ignored", "execution.denied"}

CommitPoints == AuditEvents \cup
  {"run.detected", "agent.started", "evidence.validated", "policy.verified",
   "brief.versioned", "evidence.hold", "approval.requested",
   "approval.delivery_failed", "approval.recorded", "execution.started"}

ExecutionEvents ==
  {"action.started", "action.completed", "execution.failed", "execution.completed"}

Labels == CommitPoints \cup
  {"idle", "proposing", "assembly failed", "posting", "execute", "dispatch",
   "calling", "event", "event commit"}

\* ver: the version a click names, then the version being executed; verb: the
\* button clicked; step: the position in the manifest; event and tries: the
\* execution event being recorded and the attempts it has lost.
Handlers ==
  [pc : Labels, snap : Records, ver : 0..MaxVersion, verb : Decisions,
   step : 1..(NumActions + 1), event : ExecutionEvents, tries : 0..MaxTries]

Idle ==
  [pc |-> "idle", snap |-> NoRecord, ver |-> 0, verb |-> "none",
   step |-> 1, event |-> "action.started", tries |-> 0]

TypeOK ==
  /\ rec \in Records
  /\ briefs \in SUBSET Versions
  /\ h \in [Procs -> Handlers]
  /\ cards \in SUBSET Versions
  /\ effects \in [Keys -> Nat]
  /\ lapsed \in SUBSET Versions
  /\ sources \in SourceStates
  /\ inputs \in Nat
  /\ crashes \in Nat
  /\ consent \in 0..MaxVersion

Init ==
  /\ rec = NoRecord
  /\ briefs = {}
  /\ h = [p \in Procs |-> Idle]
  /\ cards = {}
  /\ effects = [k \in Keys |-> 0]
  /\ lapsed = {}
  /\ sources = "current"
  /\ inputs = 0
  /\ crashes = 0
  /\ consent = 0

-----------------------------------------------------------------------------
(* Guards of the code, over a snapshot s.                                  *)

\* Mutant: the transition table also lets an approved Run go on hold.
MayHoldApproved(s) ==
  s.state \in {"DETECTED", "CONTEXT_ASSEMBLING", "CONTEXT_ASSEMBLED",
               "POLICY_VERIFIED", "AWAITING_APPROVAL", "APPROVED"}

\* EVIDENCE_HOLD is a target of every state before a decision.
MayHold(s) ==
  s.state \in {"DETECTED", "CONTEXT_ASSEMBLING", "CONTEXT_ASSEMBLED",
               "POLICY_VERIFIED", "AWAITING_APPROVAL"}

\* current_facts: the files still say what the Run recorded.
FactsHold == sources # "changed"

\* verify_package: facts and evidence still hold, and the pointer, the envelope
\* and the evidence belong together.
VerifiedPackage(s) ==
  /\ FactsHold /\ sources # "expired"
  /\ s.evidence # 0 /\ s.env # 0
  /\ s.ptr = s.env
  /\ s.envEvidence = s.evidence

\* Mutant: a click is not bound to the brief it was shown on.
AnyCardVerdict(s, v) ==
  IF ~VerifiedPackage(s) THEN "approval.denied"
  ELSE IF s.dec # "none" THEN "approval.duplicate_ignored"
  ELSE IF s.state = "AWAITING_APPROVAL" /\ s.requested \notin lapsed \cup {0}
       THEN "approval.recorded"
       ELSE "approval.denied"

\* The checks of decide, in order, for a click on the card of version v.
Verdict(s, v) ==
  IF ~VerifiedPackage(s) \/ v # s.env \/ v # s.ptr THEN "approval.denied"
  ELSE IF s.dec # "none" THEN "approval.duplicate_ignored"
  ELSE IF s.state = "AWAITING_APPROVAL" /\ s.requested \notin lapsed \cup {0}
       THEN "approval.recorded"
       ELSE "approval.denied"

\* Mutant: an outcome that is unknown does not stop a second execution.
ExecutableDespiteUnknown(s) ==
  /\ s.dec = "approve" /\ s.env # 0 /\ s.appr = s.env
  /\ VerifiedPackage(s)
  /\ s.state \in {"APPROVED", "EXECUTION_FAILED"}

\* The checks of execute before it commits execution.started.
Executable(s) ==
  /\ s.dec = "approve" /\ s.env # 0 /\ s.appr = s.env
  /\ VerifiedPackage(s)
  /\ s.state \in {"APPROVED", "EXECUTION_FAILED"}
  /\ \A k \in Keys : s.status[k] \notin {"started", "unknown"}

-----------------------------------------------------------------------------
(* The store and the handlers' bookkeeping.                                *)

\* Mutant: the commit does not compare revisions (a blind upsert).
BlindCommit(p, new) == rec' = [new EXCEPT !.rev = h[p].snap.rev + 1]

\* Store.commit: the revision must still be the one the handler read.
Commit(p, new) ==
  /\ rec.rev = h[p].snap.rev
  /\ rec' = [new EXCEPT !.rev = h[p].snap.rev + 1]

At(p, label) == h[p].pc = label

Become(p, new) == h' = [h EXCEPT ![p] = new]

\* Store.get: the handler goes on with the document it just read.
Reads(p, label) == Become(p, [h[p] EXCEPT !.pc = label, !.snap = rec])

\* record() returns the record it committed, and the handler goes on with that.
GoesOn(p, label) == Become(p, [h[p] EXCEPT !.pc = label, !.snap = rec'])

\* The handler's snapshot is not used again: the next step reads anew.
Drops(p, label) == Become(p, [h[p] EXCEPT !.pc = label, !.snap = NoRecord])

Ends(p) == Become(p, Idle)

Input(p) ==
  /\ At(p, "idle")
  /\ inputs < MaxInputs
  /\ inputs' = inputs + 1

InputOnly == UNCHANGED <<rec, briefs, cards, effects, lapsed, sources, crashes, consent>>

-----------------------------------------------------------------------------
(* Requests: the handler reads the Run and decides what to commit.         *)

\* detect: a Run that exists is returned; otherwise create it at revision 1.
DetectRead(p) ==
  /\ Input(p)
  /\ rec.state = "ABSENT" /\ FactsHold
  /\ Reads(p, "run.detected")
  /\ InputOnly

\* assemble, up to agent.started: the client names the revision it saw, and a
\* Run in another state is refused by the transition table.
AssembleRead(p) ==
  /\ Input(p)
  /\ rec.state \in {"DETECTED", "EVIDENCE_HOLD"}
  /\ rec.env < MaxVersion
  /\ Reads(p, "agent.started")
  /\ InputOnly

\* pricing: the read-only tool the agent calls back while the Run assembles.
PricingRead(p) ==
  /\ Input(p)
  /\ rec.state = "CONTEXT_ASSEMBLING" /\ FactsHold
  /\ Reads(p, "tool.pricing_completed")
  /\ InputOnly

\* request_approval, up to approval.requested.
RequestRead(p) ==
  /\ Input(p)
  /\ VerifiedPackage(rec)
  /\ rec.state = "POLICY_VERIFIED"
  /\ Reads(p, "approval.requested")
  /\ InputOnly

\* on_card_action: the approver clicks a button of any card ever posted, also
\* an old one, also again.
DecideRead(p, v, verb) ==
  /\ Input(p)
  /\ v \in cards
  /\ Become(p, [Idle EXCEPT !.pc = Verdict(rec, v), !.snap = rec, !.ver = v, !.verb = verb])
  /\ InputOnly

-----------------------------------------------------------------------------
(* Commits.                                                                *)

Stored(p, new) ==
  /\ Commit(p, new)
  /\ UNCHANGED <<cards, effects, lapsed, sources, inputs, crashes>>

\* Events that are recorded without changing the Run.  A click that finds a
\* decision already recorded goes on to execute when that decision approved.
CommitAudit(p) ==
  /\ h[p].pc \in AuditEvents
  /\ Stored(p, h[p].snap)
  /\ IF At(p, "approval.duplicate_ignored") /\ h[p].snap.dec = "approve"
       THEN Drops(p, "execute")
       ELSE Ends(p)
  /\ UNCHANGED <<briefs, consent>>

CommitDetected(p) ==
  /\ At(p, "run.detected")
  /\ Stored(p, [h[p].snap EXCEPT !.state = "DETECTED"])
  /\ Ends(p)
  /\ UNCHANGED <<briefs, consent>>

\* The facts are read before the agent is called.
CommitAgentStarted(p) ==
  /\ At(p, "agent.started")
  /\ Stored(p, [h[p].snap EXCEPT !.state = "CONTEXT_ASSEMBLING"])
  /\ Drops(p, IF FactsHold THEN "proposing" ELSE "assembly failed")
  /\ UNCHANGED <<briefs, consent>>

\* build_brief follows this commit and reads the facts again.
CommitEvidence(p) ==
  /\ At(p, "evidence.validated")
  /\ Stored(p, [h[p].snap EXCEPT !.state = "CONTEXT_ASSEMBLED", !.evidence = @ + 1])
  /\ IF FactsHold THEN GoesOn(p, "policy.verified") ELSE Drops(p, "assembly failed")
  /\ UNCHANGED <<briefs, consent>>

CommitPolicy(p) ==
  /\ At(p, "policy.verified")
  /\ h[p].snap.env < MaxVersion
  /\ Stored(p, [h[p].snap EXCEPT !.state = "POLICY_VERIFIED", !.env = @ + 1,
                                 !.envEvidence = h[p].snap.evidence])
  /\ GoesOn(p, "brief.versioned")
  /\ UNCHANGED <<briefs, consent>>

\* The pointer and the create-only brief document are one batch.  Its reply may
\* be lost after it was applied: assemble then holds the Run.
CommitBrief(p) ==
  /\ At(p, "brief.versioned")
  /\ h[p].snap.env \notin briefs
  /\ Stored(p, [h[p].snap EXCEPT !.ptr = h[p].snap.env])
  /\ briefs' = briefs \cup {h[p].snap.env}
  /\ \/ Ends(p)
     \/ Drops(p, "assembly failed")
  /\ UNCHANGED consent

CommitHold(p) ==
  /\ h[p].pc \in {"evidence.hold", "approval.delivery_failed"}
  /\ MayHold(h[p].snap)
  /\ Stored(p, [h[p].snap EXCEPT !.state = "EVIDENCE_HOLD"])
  /\ Ends(p)
  /\ UNCHANGED <<briefs, consent>>

CommitRequested(p) ==
  /\ At(p, "approval.requested")
  /\ Stored(p, [h[p].snap EXCEPT !.state = "AWAITING_APPROVAL", !.requested = h[p].snap.env])
  /\ GoesOn(p, "posting")
  /\ UNCHANGED <<briefs, consent>>

\* The decision is stored with the version of the envelope, not of the card.
CommitDecision(p) ==
  /\ At(p, "approval.recorded")
  /\ Stored(p, [h[p].snap EXCEPT
                  !.state = IF h[p].verb = "approve" THEN "APPROVED" ELSE "CLOSED_REJECTED",
                  !.dec = h[p].verb, !.appr = h[p].snap.env])
  /\ consent' = h[p].ver
  /\ IF h[p].verb = "approve"
       THEN Drops(p, "execute")
       ELSE Ends(p)
  /\ UNCHANGED briefs

CommitStarted(p) ==
  /\ At(p, "execution.started")
  /\ Stored(p, [h[p].snap EXCEPT !.state = "EXECUTING"])
  /\ GoesOn(p, "dispatch")
  /\ UNCHANGED <<briefs, consent>>

\* The commit is refused: the race is lost, the brief document exists, or the
\* transition table does not list the hold.
Refusal(p) ==
  \/ rec.rev # h[p].snap.rev
  \/ At(p, "brief.versioned") /\ h[p].snap.env \in briefs
  \/ At(p, "evidence.hold") /\ ~MayHold(h[p].snap)

\* Conflict and InvalidTransition go to the caller: nothing is written and
\* nothing is undone.
Refused(p) ==
  /\ h[p].pc \in CommitPoints
  /\ Refusal(p)
  /\ Ends(p)
  /\ UNCHANGED <<rec, briefs, cards, effects, lapsed, sources, inputs, crashes, consent>>

-----------------------------------------------------------------------------
(* Assembly and the approval card.                                         *)

Local == UNCHANGED <<rec, briefs, effects, lapsed, sources, inputs, crashes, consent>>

\* The agent answers and the Run is reloaded.  If it is no longer assembling,
\* that is a Conflict; else evidence and facts are checked as they are now.
AgentProposes(p) ==
  /\ At(p, "proposing")
  /\ \/ rec.state # "CONTEXT_ASSEMBLING" /\ Ends(p)
     \/ /\ rec.state = "CONTEXT_ASSEMBLING"
        /\ FactsHold /\ sources # "expired"
        /\ Reads(p, "evidence.validated")
  /\ Local /\ UNCHANGED cards

\* Any exception but Conflict: the agent, a check, the store.
AssemblyFails(p) ==
  /\ h[p].pc \in {"proposing", "evidence.validated", "policy.verified", "brief.versioned"}
  /\ Drops(p, "assembly failed")
  /\ Local /\ UNCHANGED cards

HoldRead(p) ==
  /\ At(p, "assembly failed")
  /\ Reads(p, "evidence.hold")
  /\ Local /\ UNCHANGED cards

\* approvals.request returned a message id.
CardSent(p) ==
  /\ At(p, "posting")
  /\ cards' = cards \cup {h[p].snap.env}
  /\ Become(p, [h[p] EXCEPT !.pc = "approval.card_sent"])
  /\ Local

\* approvals.request raised; the card may have reached the channel all the same.
CardFails(p) ==
  /\ At(p, "posting")
  /\ cards' \in {cards, cards \cup {h[p].snap.env}}
  /\ Become(p, [h[p] EXCEPT !.pc = "approval.delivery_failed"])
  /\ Local

-----------------------------------------------------------------------------
(* Execution.                                                              *)

\* execute reads the Run again after the decision.
ExecuteRead(p) ==
  /\ At(p, "execute")
  /\ IF rec.state = "EXECUTED" THEN Ends(p)
     ELSE Become(p, [h[p] EXCEPT
            !.pc = IF Executable(rec) THEN "execution.started" ELSE "execution.denied",
            !.snap = rec, !.ver = rec.env])
  /\ Local /\ UNCHANGED cards

Recording(p, event) ==
  Become(p, [h[p] EXCEPT !.pc = "event", !.snap = NoRecord, !.event = event, !.tries = 0])

\* The loop over the manifest: a completed action is skipped, the next one is
\* marked started, and after the last the Run is complete.
Dispatch(p) ==
  /\ At(p, "dispatch")
  /\ IF h[p].step > NumActions THEN Recording(p, "execution.completed")
     ELSE IF h[p].snap.status[<<h[p].step, h[p].ver>>] = "completed"
       THEN Become(p, [h[p] EXCEPT !.step = @ + 1])
       ELSE Recording(p, "action.started")
  /\ Local /\ UNCHANGED cards

\* Mutant: the outcome of a call that raised is not recorded as unknown.
ForgetsUnknown(s, event, k) ==
  CASE event = "action.started"      -> [s EXCEPT !.status[k] = "started"]
    [] event = "action.completed"    -> [s EXCEPT !.status[k] = "completed"]
    [] event = "execution.failed"    -> [s EXCEPT !.status[k] = "none",
                                                  !.state = "EXECUTION_FAILED"]
    [] event = "execution.completed" -> [s EXCEPT !.state = "EXECUTED"]

\* Mutant: the receipt of a call that returned is not stored.
ForgetsReceipt(s, event, k) ==
  CASE event = "action.started"      -> [s EXCEPT !.status[k] = "started"]
    [] event = "action.completed"    -> s
    [] event = "execution.failed"    -> [s EXCEPT !.status[k] = "unknown",
                                                  !.state = "EXECUTION_FAILED"]
    [] event = "execution.completed" -> [s EXCEPT !.state = "EXECUTED"]

\* What each execution event changes in the Run; k is the key of the action.
WithEvent(s, event, k) ==
  CASE event = "action.started"      -> [s EXCEPT !.status[k] = "started"]
    [] event = "action.completed"    -> [s EXCEPT !.status[k] = "completed"]
    [] event = "execution.failed"    -> [s EXCEPT !.status[k] = "unknown",
                                                  !.state = "EXECUTION_FAILED"]
    [] event = "execution.completed" -> [s EXCEPT !.state = "EXECUTED"]

\* Mutant: the audit commit is retried without end.
EventReadUnbounded(p) ==
  /\ At(p, "event")
  /\ IF rec.state = "EXECUTING" THEN Reads(p, "event commit") ELSE Ends(p)
  /\ Local /\ UNCHANGED cards

\* execution_event: reload, so that a concurrent audit commit cannot discard
\* the receipt; a Run that is no longer EXECUTING is refused.
EventRead(p) ==
  /\ At(p, "event")
  /\ h[p].tries < MaxTries
  /\ IF rec.state = "EXECUTING" THEN Reads(p, "event commit") ELSE Ends(p)
  /\ Local /\ UNCHANGED cards

\* Every attempt lost its race: what happened at Graph stays unrecorded and the
\* Run EXECUTING.
GaveUp(p) == At(p, "event") /\ h[p].tries = MaxTries

GivesUp(p) ==
  /\ GaveUp(p)
  /\ Ends(p)
  /\ Local /\ UNCHANGED cards

EventCommit(p) ==
  /\ At(p, "event commit")
  /\ Stored(p, WithEvent(h[p].snap, h[p].event, <<h[p].step, h[p].ver>>))
  /\ CASE h[p].event = "action.started"   -> Drops(p, "calling")
       [] h[p].event = "action.completed" ->
            Become(p, [h[p] EXCEPT !.pc = "dispatch", !.snap = rec', !.step = @ + 1])
       [] OTHER -> Ends(p)
  /\ UNCHANGED <<briefs, consent>>

LostRace(p) == At(p, "event commit") /\ rec.rev # h[p].snap.rev

\* Mutant: the audit commit is not retried.
EventConflictGivesUp(p) ==
  LostRace(p) /\ Ends(p) /\ Local /\ UNCHANGED cards

\* Only the audit commit is tried again, never the Graph call.
EventConflict(p) ==
  /\ LostRace(p)
  /\ Become(p, [h[p] EXCEPT !.pc = "event", !.snap = NoRecord, !.tries = @ + 1])
  /\ Local /\ UNCHANGED cards

TakesEffect(p) == effects' = [effects EXCEPT ![<<h[p].step, h[p].ver>>] = @ + 1]

CallReturns(p) ==
  /\ At(p, "calling")
  /\ TakesEffect(p)
  /\ Recording(p, "action.completed")
  /\ UNCHANGED <<rec, briefs, cards, lapsed, sources, inputs, crashes, consent>>

\* The call raised: a timeout or an error reply does not tell whether it acted.
CallRaises(p) ==
  /\ At(p, "calling")
  /\ TakesEffect(p) \/ UNCHANGED effects
  /\ Recording(p, "execution.failed")
  /\ UNCHANGED <<rec, briefs, cards, lapsed, sources, inputs, crashes, consent>>

-----------------------------------------------------------------------------
(* The environment.                                                        *)

\* The process dies, or a store error ends the handler, at any point.
Crash(p) ==
  /\ ~At(p, "idle")
  /\ crashes < MaxCrashes
  /\ crashes' = crashes + 1
  /\ Ends(p)
  /\ UNCHANGED <<rec, briefs, cards, effects, lapsed, sources, inputs, consent>>

\* An hour passes after the request for the current version.
WindowLapses ==
  /\ rec.requested \notin lapsed \cup {0}
  /\ lapsed' = lapsed \cup {rec.requested}
  /\ UNCHANGED <<rec, briefs, h, cards, effects, sources, inputs, crashes, consent>>

\* A cited source expires, the files change, or a deployment restores them.
FactsChange ==
  /\ sources' \in SourceStates \ {sources}
  /\ UNCHANGED <<rec, briefs, h, cards, effects, lapsed, inputs, crashes, consent>>

Request(p) ==
  \/ DetectRead(p) \/ AssembleRead(p) \/ PricingRead(p) \/ RequestRead(p)
  \/ \E v \in Versions, verb \in {"approve", "reject"} : DecideRead(p, v, verb)

\* What a running handler does next, without the outside world's help.
Continues(p) ==
  \/ CommitAudit(p) \/ CommitDetected(p) \/ CommitAgentStarted(p)
  \/ CommitEvidence(p) \/ CommitPolicy(p) \/ CommitBrief(p) \/ CommitHold(p)
  \/ CommitRequested(p) \/ CommitDecision(p) \/ CommitStarted(p) \/ Refused(p)
  \/ AgentProposes(p) \/ AssemblyFails(p) \/ HoldRead(p) \/ CardSent(p) \/ CardFails(p)
  \/ ExecuteRead(p) \/ Dispatch(p) \/ EventRead(p) \/ EventCommit(p)
  \/ EventConflict(p) \/ GivesUp(p) \/ CallReturns(p) \/ CallRaises(p)

Next ==
  \/ \E p \in Procs : Request(p) \/ Continues(p) \/ Crash(p)
  \/ WindowLapses
  \/ FactsChange

Spec == Init /\ [][Next]_vars

\* Awaited calls end (each has a timeout) and the event loop resumes every
\* handler; nobody is obliged to send a request or click a card.
FairSpec == Spec /\ \A p \in Procs : WF_vars(Continues(p))

-----------------------------------------------------------------------------
(* What must hold.                                                         *)

\* No action of a manifest takes effect twice, whatever clicks, crashes, lost
\* races and failed calls happen: controller.py promises no automatic resend.
AtMostOnce == \A k \in Keys : effects[k] <= 1

\* Whatever took effect belongs to the very version the approver had on the
\* card, approved, published as an immutable brief and still the current one.
ConsentedEffects ==
  \A k \in Keys : effects[k] > 0 =>
    /\ rec.dec = "approve"
    /\ k[2] = consent /\ k[2] = rec.env /\ k[2] = rec.ptr
    /\ k[2] \in briefs

\* A decision always concerns the package on the card: the stored approval, the
\* envelope, the pointer and the evidence behind it are of one version.
DecisionBindsPackage ==
  rec.dec # "none" =>
    /\ rec.appr = consent /\ rec.env = consent /\ rec.ptr = consent
    /\ rec.envEvidence = rec.evidence

\* An action takes effect only after the receipts of all before it are stored:
\* no mail announces a file whose creation is not on record.
InManifestOrder ==
  \A i \in 1..NumActions, v \in Versions : effects[<<i, v>>] > 0 =>
    \A j \in 1..(i - 1) : rec.status[<<j, v>>] = "completed"

\* The record never lags behind the world: an effect is announced before it can
\* happen, a receipt is stored only for an effect, and EXECUTED means all of them.
OutcomeOnRecord ==
  \A k \in Keys :
    /\ effects[k] > 0 => rec.status[k] # "none"
    /\ rec.status[k] = "completed" => effects[k] = 1
    /\ rec.state = "EXECUTED" /\ k[2] = rec.appr => rec.status[k] = "completed"

\* At most one handler is past execution.started, so two callbacks for one
\* approval never work through the manifest side by side.
ExecutionPoints == {"dispatch", "event", "event commit", "calling"}
SoleExecutor ==
  \A p, q \in Procs :
    h[p].pc \in ExecutionPoints /\ h[q].pc \in ExecutionPoints => p = q

\* Once a decision is stored, no late hold, assembly or second click changes it
\* or the package it is about.
ApprovedPackageFrozen ==
  [][rec.dec # "none" =>
       /\ rec'.dec = rec.dec /\ rec'.appr = rec.appr
       /\ rec'.env = rec.env /\ rec'.ptr = rec.ptr
       /\ rec'.evidence = rec.evidence /\ rec'.envEvidence = rec.envEvidence]_vars

\* A Run that was rejected, executed or failed stays so: although the table
\* lists EXECUTION_FAILED -> EXECUTING, an unknown outcome never starts again.
OutcomeIsFinal ==
  [][rec.state \in {"CLOSED_REJECTED", "EXECUTED", "EXECUTION_FAILED"} =>
       rec'.state = rec.state]_vars

\* A receipt or an unknown outcome, once stored, survives every later commit: a
\* concurrent denial cannot discard it.
ReceiptsKept ==
  [][\A k \in Keys : rec.status[k] \in {"completed", "unknown"} =>
       rec'.status[k] = rec.status[k]]_vars

\* The Run implements the promise made to the approver (ApprovalGate).
Outcome ==
  CASE rec.state = "EXECUTED" -> "complete"
    [] rec.state = "EXECUTION_FAILED" -> "failed"
    [] OTHER -> "open"

Gate == INSTANCE ApprovalGate WITH
  N <- NumActions,
  decision <- rec.dec,
  done <- [i \in 1..NumActions |-> IF rec.appr = 0 THEN 0 ELSE effects[<<i, rec.appr>>]],
  outcome <- Outcome

ImplementsGate == Gate!Spec

\* An execution that started is settled, unless its handler died, or gave up
\* having lost MaxTries commits of one event: fewer callbacks for the same card,
\* however they fall, never leave the Run EXECUTING.
ExecutionSettles ==
  [](\A p \in Procs : ~GaveUp(p)) =>
    ((rec.state = "EXECUTING") ~>
       (rec.state \in {"EXECUTED", "EXECUTION_FAILED"} \/ crashes > 0))

\* The card says "reject makes no file/email writes": the callback of a click on
\* Reject never reaches Microsoft Graph.
RejectMakesNoWrites ==
  \A p \in Procs : h[p].verb = "reject" => h[p].pc # "calling"

=============================================================================
