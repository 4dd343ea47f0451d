# InnexQ in TLA+

TLA+ models of the parts of InnexQ that decide, record and execute on behalf of
people: what may happen, in which order, and what survives a lost race, a crash
or a call whose outcome is unknown. TLC checks the models on small instances;
TLAPS proves the most important properties for every instance.

    tlc -workers 2 -config RenewalRunSafety.cfg MCRenewalRun
    tlapm RenewalRunRefinement.tla

## 1. The system

InnexQ serves customers of an equipment service company. A FastAPI process
(`src/src/api`) keeps its state in Cosmos DB, asks hosted agents for evidence,
asks people for decisions in Teams or in a web client, and performs the approved
writes (SharePoint file, mail, PDF documents). Agents have no authority: code
validates what they say, and people authorize what is done.

| Component | Source (`src/src/`) | State it keeps | Operations | Hard parts |
|---|---|---|---|---|
| Contract Renewal Run | `api/innexq_api/controller.py`, `contracts/…/transitions.py`, `hashing.py`, `events.py` | one snapshot document per Run with a revision, an event per commit, immutable briefs | detect, assemble, pricing, request approval, decide, execute | awaits between read and commit; two callbacks; unknown outcome of an external call |
| Run store | `api/innexq_api/store.py` | the documents above | get, commit (compare-and-swap) | revision check and etag are two things |
| Approval channel | `api/innexq_api/teams.py` | posted cards | post a card, card callback (decide, then execute) | old cards, repeated callbacks, lost replies |
| Graph executor, agent client | `api/innexq_api/adapters.py` | none | upload, mail; propose | timeouts that do not tell whether the call acted |
| Service Coverage Renewal | `api/innexq_api/coverage_*.py`, `contracts/…/coverage_renewal.py` | one snapshot per request, a receipt, a counter and a reservation per invoice number, stored PDFs | confirm, investigate, two decisions, execution loop, retry, download | create-only documents beside an etag-guarded snapshot; two loops during a rollout; crashes between them |
| Certificate Fulfilment | `certificates.py`, `certificate_store.py`, `certificate_runtime.py`, `certificate_repository.py` | one case record per request with its events | request, investigate, release or hold, download | recheck after the PDF was read; concurrent winner |
| Notification outbox | `certificate_notifications.py`, `certificate_store.py` | one notification per held case | claim, deliver, mark, recover | timeout against accepted; late finish against recovery |
| Case review | `case_review.py`, `certificate_store.py` | a review document per held case | acknowledge, note, close | review and case have different etags |
| Evidence broker | `evidence_broker.py`, `evidence_runtime.py`, `evidence_mcp.py` | one capability record per role | reserve, call, finish, abort, expire | close against abort; expiry during a call |
| Customer conversation | `customer_conversation.py`, `customer_routes.py` | one record per message | reply, confirm | duplicate message identifier; confirm against expiry |
| Policy rules | `gateway/innexq_gateway/*.py` | none | eligibility, price, period | calendar arithmetic |
| Everything else | `main.py`, `auth.py`, `config.py`, extraction, rendering, agents, web, infrastructure | | | not modelled: routing, identity, text, layout, I/O |

Interaction. A client calls an operation over HTTP, or the Teams channel calls
back. An operation reads a document, checks it, perhaps awaits an agent or a
person's channel, and commits a new document under the revision (or etag) it
read; a lost race raises `Conflict`, which is not retried except where the code
says so. FastAPI runs synchronous routes in a thread pool and asynchronous ones
on the event loop, and a rollout overlaps two replicas (`infra/api.tf` allows one
replica otherwise), so any two operations may interleave between a read and a
commit. Nothing coordinates them but the store.

What makes each component correct: a Run does what was approved, once, in order,
and tells of it; a renewal is issued by two people and completed once; a
certificate is released only when every check holds at the time of the download;
a notification reaches Operations or is flagged for a person; a review never
changes a release; a capability is used for one call by one role in its time; a
message has one reply. `PROJECT.json` lists the hazards at their lines.

## 2. Modules

| Module | What it is |
|---|---|
| `RenewalRun` | Contract Renewal Run, store, card callback and execution |
| `ApprovalGate` | abstract: the promise to the approver of a Run |
| `CoverageRenewal` | Service Coverage Renewal: controller, reviewers, executor, loop, store |
| `CoveragePromise` | abstract: the promise to the customer, the reviewers and the accounts |
| `CertificateCase` | Certificate Fulfilment: request and download over the registry and the store |
| `CertificateRelease` | abstract: the promise of a certificate request |
| `Conversation` | the customer conversation, composed with `CertificateCase` |
| `OperationsOutbox` | the notifications of held cases and the loops that dispatch them |
| `CaseNotice` | abstract: the promise of a notification to Operations |
| `CaseReview` | the administration of a held case by Operations |
| `EvidenceBroker` | one scoped evidence investigation: broker, tools, controller |
| `EvidencePermit` | abstract: the permit of each role to gather evidence |
| `PolicyRules` | the rules of the gateway, as operators without state |
| `MC...` | symmetry sets for the instances in the `.cfg` files |
| `RenewalRunProofs`, `RenewalRunRefinement`, `CoverageRenewalProofs`, `ConversationProofs`, `OperationsOutboxProofs`, `CaseReviewProofs`, `EvidenceBrokerProofs`, `PolicyRulesProofs` | theorems, see section 4 |

A definition that begins with the comment "Mutant" is a plausible bug beside the
definition it would replace; nothing else uses it.

### RenewalRun

`rec` is the snapshot document of one Run (`RunRecord`); every Run has its own
partition, so one Run is enough. `h[p]` is a running handler: its label is the
event it is about to commit, or the await it is in, and `snap` the record it read.
`effects` is the outside world; `cards`, `lapsed` and `sources` are what the
channel, the clock and the files contribute; `consent` is a history variable.

- A request is `...Read`: it reads the record, runs the checks of its handler and
  takes the label of the event it will commit. A refused request changes nothing
  and is left out, except denials, which are recorded.
- `Commit...` is the commit: `Stored` compares revisions and replaces the record.
  `Refused` is a `Conflict` (or an unlisted transition): the handler ends.
- `assemble` is `AssembleRead`, `CommitAgentStarted`, `AgentProposes` (the await,
  then the reload and the checks), `CommitEvidence`, `CommitPolicy`, `CommitBrief`;
  any exception but a `Conflict` leads to `HoldRead` and `CommitHold`.
- `request_approval` is `RequestRead`, `CommitRequested`, then `CardSent` or
  `CardFails`, then the audit commit or the hold.
- `on_card_action` is `DecideRead` (with `Verdict`, the checks of `decide` in
  order), `CommitDecision` or `CommitAudit`, and then `ExecuteRead`, `CommitStarted`
  and the loop `Dispatch`, `EventRead`, `EventCommit`, `CallReturns`/`CallRaises`.
  `EventConflict` sends a receipt commit that lost its race back to `EventRead`;
  after `MaxTries` of them `GivesUp` ends the handler and the Run stays EXECUTING,
  as `controller.py:636` does.
- `Crash` cuts a handler off anywhere. `WindowLapses` and `FactsChange` are the
  clock and the files.

Abstractions: a brief hash covers the brief, its manifest and their random
identifiers, so the version stands for the hash; the facts, the policy and the
corpus are `sources`, which says what `current_facts` and `validate_evidence`
would answer now; a status "completed" stands for the status with its receipt;
the command key only makes a repeated request return what is stored. A delivered
card can be clicked any number of times, in any order, also after a newer one.

### CoverageRenewal

`rec[r]` is the snapshot of request `r`, `rev` its etag; `receipt[r]` the
create-only execution document (the invoice number in it); `counter` and
`reserved` the invoice-number partition; `blobs` the stored PDFs. Every advance of
a record is `Read` (with `MayAdvance`, the checks of that caller) and `Commit`
(with `Follows`, what the call does next) or `CommitConflict`; two consecutive
commits of one call, as in `operations_decide`, are two reads and two commits.
`Confirm`, `Decide` and `Retry` are calls from outside, `RunnerPicks` a loop that
takes up a renewal from its listing. `Execute`, `Lookup`, `Allocate`, `Reserve`,
`WriteCertificate`, `WriteInvoice` and `Publish` are the calls of the executor in
order; each may raise, before or after it was applied (`Raises`, `RepliesWith`),
and then `_fail` is an advance to `EXECUTION_FAILED`. `Investigate` decides what
`start` does with the evidence, a package or a hold; `VerificationRaises` is an
exception of `verify_eligibility` (a source, the amount or the package), before or
between its commits. `start` does not catch it, so the request stays where it was
(`Raised`). The counter may start at a number other renewals of the year took
(`MaxTaken`). A request drafts one package
in its life (nothing calls `begin_investigation` twice), so a record says whether
the package is frozen; the decision times are taken as ordered, one year's
counter stands for all. `retry` is mounted by no route; the tests use it, and the
model bounds it separately.

### CertificateCase and Conversation

`rec[i]` is the snapshot document of request `i` with its audit events; the length
of the audit is what the store compares (`Advances`), as `certificate_store.py:153`
does. `world` is the history of the registry and of the clock, `released` the PDFs
returned; both are histories because the main property relates a release to an
earlier moment. `RegistryChanges` replaces the registry file under a new etag,
`ValidityChanges` lets a validity period end or begin.

- An investigation is `Look`, its first look at the registry, whose moment is
  `begin`, and `Evaluate` (evidence, then `Passes`, its second look and the policy).
- `request` is `Ask`, `Look`, `Evaluate` and `Create`, the create-only batch whose
  loser answers with the winner's case.
- `download` is `Download`, `Look`, `Evaluate`, `Fetch`, `Look` and `Evaluate` again in
  full, `Commit` and `Return`. `Fetch` is the repository's own look at the registry
  (`certificate_repository.py:102`), which hands out the bytes of the decision if
  they are still on offer: `bytes` is what it read, `read` when. The registry may
  change between any two of these looks. `Decided` is the comparison with the
  certificate first offered, before the fetch and after it; the one after it is all
  that keeps bytes of one certificate from leaving on the facts of another.
- An investigation that fails, for whatever reason, is a hold: `Evaluate` may always
  choose `OnHold`. `Crash` ends a handler between any two steps.

`Conversation` adds `msg[i]`, the stored message of an identifier, and `talk[p]`,
the message being answered: `Post`, `Interpret` (any intent, or a failing call),
`StoreMessage` (create, or the winner's message if it says the same), `PostAgain`
(a repetition), `Lapse` (15 minutes), `Confirm`, and
`ConfirmCoverage` (what was started, and the clock) followed by `StartCoverage`. Message and
request identifiers share one space, so a request by form and a message can race
for one identifier; both kinds of handlers run in the same processes.

### OperationsOutbox

`outbox[c]` is the notification document, `w[d]` a dispatch loop, `posts[c]` the
cards Teams accepted. `Hold` is the batch of the hold, which creates the document.
A pass is `ListClaimed`, `Recover`..., `ListPending`, and for each notification
`Claim`, `Post`, `Deliver` or `GiveUp`; a pass that raises ends and the loop starts
another. Each transition of the store reads and replaces under the etag it read, so
it is one step that finds the state it expects or is a `Conflict`. `Raises` is a
store call that fails before or after it was applied; `Post` may time out although
the card was accepted. `Foreign` are notifications of a former authority, which are
listed and skipped.

### CaseReview

`review` is the review document (state and audited commands), `h[t]` a command
being committed by a tab, `acked` the commands that were answered. `Act` makes the
checks of `act`, `Repeat` answers a command already on record, `Commit` compares the
stored audit with the one read, `Crash` loses the handler or its answer before or
after the commit. One case is enough: reviews share nothing, and the held record a
review is bound to never changes (`CaseHistoryKept` says so).

### EvidenceBroker

`scope[r]` is the scope document of a role with its revision (the etag), `w[c]` a
tool call, `k` the controller's investigation, `source` and `expired` the registry
and the clock. A tool call is `Call` (the checks) or `Deny`, `Reserve`, `ReadBack`,
`RunTool` (the two looks at the registry around the reads), `Publish`; a denied call
spoils the scope by `FailReads` and `FailWrites`, at most three times. The
controller's `Issue`, `Report`, `Verify` (per role), `Close` (one batch) and `Check`
are the steps of `finish` and of the evidence runtime; `Abort` revokes one role
after the other with the same two `Fail...` steps. `CallFails` and
`ControllerFails` cut a call or the controller off, with the store's write applied
or not.

### PolicyRules

Release (`ReleaseReady`), renewal eligibility (`Eligible`), the offer of the
conversation (`DocumentRequestOutcome`), quote, price, authority and coverage
period, each with the order of its checks and its early returns. A source is a
record of facts or `Missing`; an optional flag has three values; money is in cents
and percentages in hundredths of a percent, the decimal places the code admits.
There is no state, hence no run: the theorems settle these for all inputs.

## 3. What the runs check

| Run | Instance | Result |
|---|---|---|
| `renewal_safety` | 2 handlers, 2 actions, 2 versions, 6 inputs, 1 crash, 2 receipt attempts; 1.1 million states | nothing takes effect twice, out of order, or without consent to that very version; the record announces every effect and keeps every outcome; one executor; a decided package is frozen and a finished Run stays finished |
| `renewal_gate` | 2 handlers, 1 version, 6 inputs, 3 receipt attempts, no crash; 0.5 million states | the Run implements `ApprovalGate`; an execution settles unless its handler lost every receipt attempt, which the run reaches |
| `renewal_reject` | as above, one crash | **violated**: a Reject click can execute an approved Run |
| `coverage_safety` | 2 renewals, 2 callers, 2 loops, 6 inputs; 1.8 million states | nothing is numbered or issued without both people; no number is given out twice; decisions stand; the renewals implement `CoveragePromise` |
| `coverage_recovery` | 1 renewal, 2 loops, 1 crash, 1 retry; 0.6 million states | published documents exist; completed and rejected renewals stay |
| `coverage_settles` | 1 renewal, 2 callers, 2 loops, 4 inputs, 2 attempts, 2 numbers of which 2, 1 or none are taken, no crash | a confirmed request reaches a reviewer or a hold unless its verification raised; an execution completes or fails unless the numbers of the year ran out |
| `coverage_numbers` | 1 loop, 1 crash | **violated**: a second invoice number for one renewal |
| `coverage_resume` | 1 loop, 1 crash, fair | **violated**: interrupted after its receipt, a renewal is never completed |
| `conversation` | 2 identifiers, 2 handlers, 1 machine, 2 certificates, 2 turns, 3 inputs, 3 registry states, 1 crash; 0.6 million states | a PDF leaves only if it was on offer with every check passing at a moment from the look of the investigation that followed its fetch; every release is audited and is the certificate first offered; an audit is never rewritten; one reply per message; only what was proposed is started, and nothing on a proposal that lapsed unconfirmed; the cases implement `CertificateRelease` |
| `outbox` | 2 cases, 1 foreign, 2 loops, 2 faults, 2 notifications a query | at most one card a case, none for another authority; the outbox implements `CaseNotice`; every held case settles |
| `review` | 2 tabs, 4 commands, revision up to 3, 5 inputs, 1 crash | what was acknowledged is on record, once; the audit replays to the state; a closed review stays closed |
| `broker` | 2 roles, 2 calls at a time, 2 pieces, 2 calls a scope, 2 tries, 2 registry versions, 1 fault; 3.2 million states | accepted evidence is whole, closed and current; the broker implements `EvidencePermit`; a scope runs one tool at a time |

Why these bounds. Two handlers are what every race in the code takes: one commits
between the read and the commit of another, and a third adds no new kind of
interference to a compare-and-swap. Two actions give an order and a partial
execution; two versions give an old card. Six inputs allow the path to execution
(detect, assemble, request, click) and two more clicks or callbacks at any point
of it. Two receipt attempts in `renewal_safety` reach "gave up" with few inputs,
and so do the three of `renewal_gate` (five in the code) with its six: four inputs
lead to the execution, and the clicks that are left commit often enough during one
call to beat every attempt. Two renewals
are needed for the shared counter.

In `conversation`, three inputs are a request and two downloads of it, or a message,
its confirmation and a request by form for the same identifier, with everything
interleaved; three registry states let a certificate be withdrawn and offered again,
or replaced and then expire. `MaxTurns` is 2 (6 in the code), so that a second
answer is the last one. In `outbox` the query limit is 2 (50 in the code) and
exceeds the number of foreign notifications: with as many foreign ones as the limit
they could fill every answer, which the hazard list names. In `review` a review
takes three commands (1000 in the code), so that the limit is met; a fourth
identifier repeats or is refused. In `broker` a scope takes two calls (6 in the
code), exactly the pieces it must gather, so that one wasted call already spoils
the investigation; marking a scope failed is given up after two lost races (3 in the code), as a third
try only repeats the second. The proofs remove the bounds where they apply.

Fairness. `WF(Continues(p))` for every handler: awaited calls have timeouts, the
event loop and the thread pool resume what is ready. In `CoverageRenewal` also
`SF(RunnerPicks(p, r))`: a scan goes through the whole listing before the next.
In `OperationsOutbox` `WF(Works(d))` for every loop, as `run` repeats its pass after
any exception, and `WF(ClaimAges(c))`, as five minutes pass; a restarted process
starts its loop again. No fairness on requests, clicks, decisions, retries, holds or
faults. The liveness properties of the Run and of the renewal except a crash, as no
code takes up a Run or a call cut off by one; `coverage_resume` shows the one place
where the code says it does. Three more exceptions are part of the properties, each a
place where the code itself stops without an outcome: every receipt attempt of a Run
was lost (`GaveUp`, `controller.py:636`, whose error text says not to repeat the
call); the verification of a renewal raised (`Raised`); and the counter passed the
last number of the year, so that an execution without a number stays EXECUTING however
often the loop resumes it (`coverage_store.py:154-155`). `EveryCaseSettles` allows any finite number of crashes
and faults; the run has two.

Deadlock checking is off: a Run, a renewal, a case, a review or an investigation
that is finished has nothing to do, and the bounds on inputs stop the rest.

### Findings

1. **A Reject click can execute.** The card says "reject makes no file/email
   writes" (`teams.py:235-237`). When the handler of an approval dies before it
   executes, or runs in the other replica and has not begun to, a click on Reject is
   recorded as a duplicate and the callback executes the stored approval
   (`controller.py:551`, `teams.py:526-528`). What it executes is the approved
   version, once, all the same (`ConsentedEffects`, `AtMostOnce`).
2. **A second invoice number.** The executor's header says that a retry "can never
   allocate a second invoice number" (`coverage_executor.py:4-6`); the number is
   allocated before the receipt, so a resumed execution allocates another. No
   number is ever shared, which is what the store promises.
3. **An interrupted execution is never completed.** The loop resumes EXECUTING
   renewals (`coverage_runner.py:50`), but `execute` returns a receipt it finds
   without committing COMPLETED (`coverage_executor.py:73-75`).

Noticed while modelling, without a run of their own:

- A message and a certificate request by form can take one identifier at the same
  time. The check at `customer_conversation.py:55-60` refuses a message for an
  identifier that has a request, but the request may be created between that check
  and the storing of the message. The conversation is then attached to that
  request; nothing is started by it (`StartedAsProposed`).
- `_fail` gives up after three lost races (`evidence_broker.py:132-140`), so a denied
  call does not always spoil the investigation. The evidence accepted is whole all
  the same (`AcceptedEvidenceIsWhole`).
- No check of the eligibility compares the customer of the billing source; it is
  enough that billing is complete and fresh (`CheckBilling`).
- `start` calls `verify_eligibility` outside the `try` that holds a renewal
  (`coverage_customer.py:73-81`): a reader or a package that raises leaves the request
  EVIDENCE_ASSEMBLING or ELIGIBILITY_VERIFIED without a hold, and a repeated
  confirmation only reports progress. No text promises a hold there.
- The look at the clock within a tool call (`evidence_broker.py:225`) is an earlier
  guard against evidence that expired; the one acceptance rests on is the
  controller's last (`evidence_runtime.py:207-209`), which `AcceptedEvidenceIsWhole` is about.
- A Run held between two commits of an assembly (`controller.py:357`), a Run whose
  approval lapsed (`controller.py:555`) and a renewal left OPERATIONS_APPROVED by a
  crash (`coverage_controller.py:376`) are states no operation leaves. No text
  promises a way out, so no property says there is one.

## 4. What is proved

Each theorem holds for every value of the constants; the only assumptions are the
named ones of the models (`RunAssumption` and its like: constants are numbers, at
least one action, version or attempt where the code has one, distinct names are
distinct). Every inductive invariant `IInv` was model-checked before it was proved,
and each property follows from it, or, for an action property, from it and one
lemma about a step.

| Module | Proved | The argument |
|---|---|---|
| `RenewalRunProofs` | `TypeOK`, `AtMostOnce`, `ConsentedEffects`, `DecisionBindsPackage`, `InManifestOrder`, `OutcomeOnRecord`, `SoleExecutor`, `ApprovedPackageFrozen`, `OutcomeIsFinal`, `ReceiptsKept` | below |
| `RenewalRunRefinement` | `ImplementsGate` | a step of an undecided Run can only decide; a Graph call is one `Act` or a stutter; the two last events are `Complete` and `Fail` |
| `CoverageRenewalProofs` | `TypeOK`, `IssuedByTwoPeople`, `NumbersNeverShared`, `IssuedDocumentsExist`, `DecisionsStand`, `ClosedStays`, `ImplementsPromise` | the state of a record tells which decisions it holds; a number in hand is reserved, and a reservation is made above every earlier one; only the executor stores and publishes, in that order |
| `ConversationProofs` | `TalkTypeOK`, `ReleasedOnCurrentFacts`, `EveryReleaseAudited`, `OneReply`, `StartedAsProposed`, `CaseHistoryKept`, `ImplementsRelease` | cases only gain events, so equal length is equality; bytes and every decision a handler keeps are the certificate first offered, so the decision after the fetch is about the bytes fetched; once a proposal lapsed, whoever may still start it has confirmed it before |
| `OperationsOutboxProofs` | `TypeOK`, `AtMostOneCard`, `ImplementsNotice` | nothing makes a notification pending again, so it is claimed once and one loop has it in hand |
| `CaseReviewProofs` | `TypeOK`, `AckedCommandsKept`, `AuditReplays`, `ClosedForGood` | the audit only grows, so a snapshot as long as the stored audit is the stored review |
| `EvidenceBrokerProofs` | `TypeOK`, `OneToolAtATime`, `ImplementsPermit`, `AcceptedEvidenceIsWhole` | a revision names one value of a scope; a reservation has one holder; nobody who may replace an ended scope holds its revision |
| `PolicyRulesProofs` | see below | case analysis and integer arithmetic |

For the Run none of the properties is inductive by itself: that no action is repeated
depends on what every handler believes of the record. Its invariant has three parts.

- `Fresh`: a snapshot with the stored revision *is* the stored record. Hence a
  commit that succeeds acts on the record its checks were made on.
- `Pending`: what the checks of each label established about the snapshot; with
  `Fresh` it becomes a fact about the record when the commit succeeds. This is how
  `CommitDecision` stores the version on the card, and how a second
  `execution.started` is impossible.
- `Executing`: a handler past `execution.started` is the only one (`SoleExecutor`),
  and its position says which actions are completed, which one is in doubt and
  which have not begun. `RecordOK` says what remains true when it is cut off: the
  statuses alone bound the effects.

The other invariants are built the same way: what a stored document tells by itself,
and what a handler between its read and its write knows of it. Two properties need a
second layer over `IInv`, proved with `IInv` as a hypothesis of every step:

- `PromiseInv` (`CoverageRenewalProofs`): a receipt holds a number reserved for its
  own renewal, and a renewal with a receipt, or with an executor at work, has begun
  executing. A number is reserved for one renewal at most (part of `IInv`), so
  `Publish` is an `Issue` of a number no other renewal has, and the COMPLETED commit,
  which the code does from whatever state it reads, is a `Complete`. One handler at
  most is between creating a record and its preparation, so a request is prepared
  once.
- `AuditInv` (`ConversationProofs`): for every request, the PDFs that left and
  the handlers about to return one are together no more than the announced downloads,
  and all are about one certificate. `CommitCounts` is the step that matters: the
  commit that lets a handler return a PDF adds one announcement to the audit, and no
  commit takes one away.

**Refinement.** Each stateful component has an abstract specification, except the
review, whose audit is its own: `ApprovalGate`, `CoveragePromise`,
`CertificateRelease`, `CaseNotice`, `EvidencePermit`. Each states in a page what a
person outside may rely on, without handlers, revisions, tries or faults, and
`Spec => Implements...` is proved step by step: first that a step of the program
changes at most one document, then that the change is one action of the abstract
specification or none. What they say that no single invariant does is the order of
things: Operations before the Manager, approval before a number, all permits closed
before evidence is accepted, a claim before a card.

`AuditReplays` says that a review can be recomputed from its audit: there is a
sequence of states, one for each revision, from "open" to the stored state, in which
every command was allowed and was sent by someone who had seen all before it. It is
stated by the existence of that sequence, so its proof needs no induction over data:
`MayAct` appends one command, and the old sequence is extended by one state.

`PolicyRulesProofs`. `ReleaseIffReleasable` and `EligibleIffRenewable`: the ordered
checks are exactly the conjunction of the policy's facts, so no early return hides
one. `OneReleasePeriod` and `OneEligiblePeriod`: sources that pass at two moments
pass between them. `CurrentIsNotRenewed` and `OfferAgreesWithEligibility`: coverage
whose certificate is still returned is never eligible, what is eligible would be
offered, and what is offered does not fail for its dates. `QuoteReconciles`, `PriceReconciles`, `DiscountsAreMonotone`: the rounded
amounts add up to the cent and a larger discount never costs more.
`AuthorityAgreesWithPrice`: only the role the price names is ever authorized.
`CoverageEndIsLater`, `CoverageLastsAYear`: the period ends on a real date after its
start; after twelve months on the same day, or on 28 February after a 29th.

Model-checked only: the liveness properties (`ExecutionSettles` of the Run and of the
renewal, `RequestIsReviewed`, `EveryCaseSettles`), as fairness and ENABLED are outside
the prover. Every other property of a passing run is a theorem. The three properties
the code violates are shown by their runs.

## 5. What is not modelled

- Identity and token checks: the models start with an authenticated caller. The
  reviewers' identities are modelled, as the two-person rule rests on them.
- HTTP routing, settings, telemetry, presentation; the text of briefs, notes,
  replies, cards and documents; PDF rendering and document extraction.
- The status projection of the conversation and the equipment catalog: reads
  without effect on what is stored.
- Coverage cards, fixture readers and the probe of the evidence setup: pure
  functions and I/O, whose outcomes are the choices of `Investigate` and `Raises`.
- How a tool reads its document, and the token of a tool's caller: a tool is one
  step that succeeds under one version of the registry or fails.
- The agents' reasoning: whatever they answer is a choice of the models.
- The web client and the infrastructure; its replica count justifies the
  concurrency assumed.

Cosmos DB and the blob store are modelled by what the code relies on: a batch is
atomic, `create` refuses an existing id, `replace` refuses another etag, a blob
written under a name is not overwritten.

## 6. Plan

Done: the Run, the coverage renewal, certificates and conversation (composed), outbox,
review and broker, with their invariants and promises proved; the policy rules.

Left, in this order:

1. Compose the evidence broker with the certificate case: `Evaluate` now takes what
   `AcceptedEvidenceIsWhole` guarantees as one of its choices.
2. A second case in `CaseReview` together with the outbox: a review may begin before
   the card of its case arrived.
3. A second year in the invoice counter of `CoverageRenewal`.
4. An abstract specification of the conversation itself (one reply, one confirmation),
   of which `OneReply` and `StartedAsProposed` are the parts proved now.
