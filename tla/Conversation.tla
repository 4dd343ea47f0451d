---------------------------- MODULE Conversation ----------------------------
(***************************************************************************)
(* The customer's conversation (customer_conversation.py) composed with    *)
(* the certificate cases it may open: a message gets one stored reply; a   *)
(* reply may propose a certificate request or a coverage renewal, which    *)
(* only the customer's confirmation starts.                                *)
(*                                                                         *)
(* The model's interpretation is any intent at all.  Answers, refusals and *)
(* clarifications differ only in wording and are one kind here.  What a    *)
(* started renewal does is the matter of CoverageRenewal.                  *)
(***************************************************************************)
EXTENDS CertificateCase

CONSTANTS
  Texts,     \* contents of a message
  MaxTurns   \* messages of one conversation; 6 in the code

ASSUME ConversationAssumption == MaxTurns \in Nat \ {0} /\ Equipment # {}

VARIABLES
  msg,      \* msg[i]: the message document of identifier i
  lapsed,   \* the messages whose proposal is over 15 minutes old
  started,  \* the coverage renewals started: <<message, machine>>
  answers,  \* history of the replies returned to the customer
  talk      \* talk[p]: the message handler p is answering or starting a renewal for

talkVars == <<msg, lapsed, started, answers, talk>>
vars == <<caseVars, talkVars>>

-----------------------------------------------------------------------------
NoParent == "none"

Bodies   == [text : Texts, parent : Ids \cup {NoParent}]
Replies  == [kind : {"certificate", "coverage", "answer"}, equipment : Equipment]
Intents  == {"certificate_request", "coverage_renewal", "status", "other"}
Outcomes == {"existing_pdf", "renewal_required", "unavailable"}
Messages == [body : Bodies, reply : Replies, turns : 1..MaxTurns]

NoMessage == [turns |-> 0]
Silent    == [pc |-> "silent"]

Talks ==
  [pc : {"interpret", "store", "start"}, id : Ids, body : Bodies, turns : 1..MaxTurns, reply : Replies]

AnyReply == [kind |-> "answer", equipment |-> CHOOSE e \in Equipment : TRUE]

Posted(i) == msg[i] # NoMessage

TalkTypeOK ==
  /\ TypeOK
  /\ msg \in [Ids -> Messages \cup {NoMessage}]
  /\ lapsed \in SUBSET Ids
  /\ started \in SUBSET (Ids \X Equipment)
  /\ answers \in SUBSET [id : Ids, body : Bodies, reply : Replies]
  /\ talk \in [Procs -> Talks \cup {Silent}]

Init ==
  /\ CaseInit
  /\ msg = [i \in Ids |-> NoMessage]
  /\ lapsed = {} /\ started = {} /\ answers = {}
  /\ talk = [p \in Procs |-> Silent]

-----------------------------------------------------------------------------
Free(p) == h[p] = Resting /\ talk[p] = Silent

\* A reply reaches the customer.
Answered(i, m) == answers' = answers \cup {[id |-> i, body |-> m.body, reply |-> m.reply]}

\* A message sent again is answered from the store; with other contents it is
\* refused.
PostAgain(p, i, b) ==
  /\ Free(p) /\ Input
  /\ Posted(i) /\ msg[i].body = b
  /\ Answered(i, msg[i])
  /\ UNCHANGED <<rec, world, released, h, crashes, msg, lapsed, started, talk>>

\* The earlier messages of the conversation, if it is young and short enough.
Turns(b) ==
  IF b.parent = NoParent THEN {1}
  ELSE IF Posted(b.parent) /\ b.parent \notin lapsed THEN {msg[b.parent].turns + 1} \cap (1..MaxTurns)
  ELSE {}

Post(p, i, b) ==
  /\ Free(p) /\ Input
  /\ ~Posted(i) /\ ~Exists(rec[i])
  /\ \E n \in Turns(b) :
       talk' = [talk EXCEPT ![p] = [pc |-> "interpret", id |-> i, body |-> b, turns |-> n,
                                    reply |-> AnyReply]]
  /\ UNCHANGED <<rec, world, released, h, crashes, msg, lapsed, started, answers>>

\* A renewal is proposed only where the coverage is found to need one.
Coverage(outcome) == IF outcome = "renewal_required" THEN "coverage" ELSE "answer"

\* _reply: what is offered to the customer for an intent; a status, a booking
\* and anything unclear are only answered.
Reply(intent, equipment, outcome) ==
  [equipment |-> equipment,
   kind |-> CASE intent = "certificate_request" -> "certificate"
              [] intent = "coverage_renewal"    -> Coverage(outcome)
              [] OTHER                          -> "answer"]

\* The model interprets, the controller validates and replies; or the call fails.
Interpret(p) ==
  /\ talk[p].pc = "interpret"
  /\ \/ \E i \in Intents, e \in Equipment, o \in Outcomes :
          talk' = [talk EXCEPT ![p] = [@ EXCEPT !.pc = "store", !.reply = Reply(i, e, o)]]
     \/ talk' = [talk EXCEPT ![p] = Silent]
  /\ UNCHANGED <<caseVars, msg, lapsed, started, answers>>

\* Mutant: the later message replaces the earlier.
KeepsLater(i, m) == m

\* The message is created, or the stored one of the winner is returned if it
\* says the same.
Keeps(i, m) == IF Posted(i) THEN msg[i] ELSE m

StoreMessage(p) ==
  LET t == talk[p]
      m == Keeps(t.id, [body |-> t.body, reply |-> t.reply, turns |-> t.turns]) IN
  /\ t.pc = "store"
  /\ msg' = [msg EXCEPT ![t.id] = m]
  /\ IF m.body = t.body THEN Answered(t.id, m) ELSE UNCHANGED answers
  /\ talk' = [talk EXCEPT ![p] = Silent]
  /\ UNCHANGED <<caseVars, lapsed, started>>

Lapse(i) ==
  /\ Posted(i) /\ i \notin lapsed
  /\ lapsed' = lapsed \cup {i}
  /\ UNCHANGED <<caseVars, msg, started, answers, talk>>

\* Mutant: a proposal may be confirmed at any age.
ProposesForEver(i, kind) == Posted(i) /\ msg[i].reply.kind = kind

\* The reply proposes this, and the proposal has not lapsed.
Proposes(i, kind) == Posted(i) /\ msg[i].reply.kind = kind /\ i \notin lapsed

\* confirm, of a message that opened no case yet: one that did is answered
\* from the store, also after the proposal lapsed.
Confirm(p, i) ==
  /\ Free(p)
  /\ Proposes(i, "certificate")
  /\ Ask(p, i, [equipment |-> msg[i].reply.equipment, context |-> "message"])
  /\ UNCHANGED talkVars

\* The same for a renewal: one that was started is answered with its progress.
ConfirmCoverage(p, i) ==
  /\ Free(p) /\ Input
  /\ \A e \in Equipment : <<i, e>> \notin started
  /\ Proposes(i, "coverage")
  /\ talk' = [talk EXCEPT ![p] = [pc |-> "start", id |-> i, body |-> msg[i].body,
                                  turns |-> msg[i].turns, reply |-> msg[i].reply]]
  /\ UNCHANGED <<rec, world, released, h, crashes, msg, lapsed, started, answers>>

\* The renewal is created for the message, unless another confirmation did it.
StartCoverage(p) ==
  /\ talk[p].pc = "start"
  /\ started' = started \cup {<<talk[p].id, talk[p].reply.equipment>>}
  /\ talk' = [talk EXCEPT ![p] = Silent]
  /\ UNCHANGED <<caseVars, msg, lapsed, answers>>

TalkCrash(p) ==
  /\ talk[p] # Silent
  /\ crashes < MaxCrashes
  /\ crashes' = crashes + 1
  /\ talk' = [talk EXCEPT ![p] = Silent]
  /\ UNCHANGED <<rec, world, released, h, inputs, msg, lapsed, started, answers>>

\* A request by form, a download, and the steps of both.
CaseStep(p) ==
  /\ \/ /\ Free(p)
        /\ \E i \in Ids :
             \/ \E e \in Equipment : Ask(p, i, [equipment |-> e, context |-> "form"])
             \/ Download(p, i)
     \/ Continues(p) \/ Crash(p)
  /\ UNCHANGED talkVars

TalkStep(p) ==
  \/ \E i \in Ids, b \in Bodies : PostAgain(p, i, b) \/ Post(p, i, b)
  \/ Interpret(p) \/ StoreMessage(p) \/ StartCoverage(p) \/ TalkCrash(p)
  \/ \E i \in Ids : Confirm(p, i) \/ ConfirmCoverage(p, i)

Next ==
  \/ (RegistryChanges \/ ValidityChanges) /\ UNCHANGED talkVars
  \/ \E i \in Ids : Lapse(i)
  \/ \E p \in Procs : CaseStep(p) \/ TalkStep(p)

Spec == Init /\ [][Next]_vars

-----------------------------------------------------------------------------
(* Properties.                                                             *)

\* A PDF leaves only if the registry named it and every check passed at a moment
\* after its bytes were read: in the second investigation of download, which
\* starts after the fetch, or later.  The registry may change between any two of
\* the looks that download and the repository take at it.
ReleasedOnCurrentFacts ==
  \A k \in DOMAIN released :
    LET r == released[k] IN
    /\ r.read <= r.begin
    /\ \E j \in r.begin..r.at : world[j].passes /\ world[j].artifact = r.artifact

\* The announcements of a download in an audit, and the PDFs that left for i.
Prepared(events) == {n \in DOMAIN events : events[n] = "download_prepared"}
ReleasedFor(i) == {k \in DOMAIN released : released[k].id = i}

\* One request yields one certificate, and its audit says how often: whatever
\* the registry offers by then, every PDF that left for a request is the one
\* first offered, and concurrent downloads do not overwrite each other's
\* download_prepared.
EveryReleaseAudited ==
  \A i \in Ids :
    /\ Cardinality(ReleasedFor(i)) <= Cardinality(Prepared(rec[i].events))
    /\ \A j, k \in ReleasedFor(i) : released[j].artifact = released[k].artifact

\* No commit rewrites the audit or the target of a case, and a case given to
\* Operations is not touched again, by downloads that read it before either.
CaseHistoryKept ==
  [][\A i \in Ids :
       Exists(rec[i]) =>
         /\ Exists(rec'[i])
         /\ IsPrefix(rec[i].events, rec'[i].events)
         /\ rec'[i].target = rec[i].target
         /\ IsHeld(rec[i]) => rec'[i] = rec[i]]_vars

\* A message identifier has one contents and one reply, for every caller and
\* every repetition.
OneReply == \A x, y \in answers : x.id = y.id => x = y

\* What the stored reply of i proposed, in the form it is started.
Proposed(i, kind, e) == Posted(i) /\ msg[i].reply = [kind |-> kind, equipment |-> e]

\* Message i started nothing, and no confirmation of it is under way.
Unconfirmed(i) ==
  /\ Exists(rec[i]) => rec[i].target.context = "form"
  /\ \A e \in Equipment : <<i, e>> \notin started
  /\ \A p \in Procs :
       /\ h[p] # Resting /\ h[p].id = i => h[p].target.context = "form"
       /\ talk[p].pc = "start" => talk[p].id # i

\* Only a proposal confirmed in time starts anything in a conversation.  A
\* certificate case with the context of a message, and a renewal, are for the
\* machine that the stored reply proposed, however the message was posted and
\* repeated; and once a proposal lapsed with no confirmation of it under way,
\* nothing is ever started by it, although one confirmed in time may be started
\* after the lapse.
StartedAsProposed ==
  /\ [](/\ \A i \in Ids :
            Exists(rec[i]) /\ rec[i].target.context = "message" =>
              Proposed(i, "certificate", rec[i].target.equipment)
        /\ \A x \in started : Proposed(x[1], "coverage", x[2]))
  /\ [][\A i \in Ids : i \in lapsed /\ Unconfirmed(i) => Unconfirmed(i)']_vars

\* The case store implements what is promised: opened once, prepared only
\* while ready, held for good.
Release ==
  INSTANCE CertificateRelease WITH
    status   <- [i \in Ids |-> IF Exists(rec[i]) THEN rec[i].decision.outcome ELSE "none"],
    prepared <- [i \in Ids |-> Cardinality(Prepared(rec[i].events))]

ImplementsRelease == Release!Spec

=============================================================================
