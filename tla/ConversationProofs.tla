------------------------- MODULE ConversationProofs -------------------------
(***************************************************************************)
(* Proofs about Conversation, and the certificate cases in it, for every   *)
(* number of identifiers, handlers, machines, certificates, texts and      *)
(* turns, and every bound.                                                 *)
(*                                                                         *)
(* The argument: cases only gain events and messages are never replaced,   *)
(* so a download whose snapshot has as many events as the stored case      *)
(* holds the stored case.  A registry version has one certificate, so an   *)
(* investigation that passes names what is on offer at a moment when every *)
(* check passes; compared with the certificate first offered, that is what *)
(* the fetched bytes are, and the moment stays in the history.             *)
(***************************************************************************)
EXTENDS Conversation, FiniteSetTheorems, TLAPS

\* The certificate a was on offer, with every check passing, between two moments.
Shown(w, a, from, to) == \E j \in from..to : w[j].passes /\ w[j].artifact = a

WorldOK(w) ==
  /\ w \in Seq(Facts) /\ Len(w) > 0
  /\ \A j \in 1..Len(w) : w[j].version <= w[Len(w)].version
  /\ \A j, k \in 1..Len(w) : w[j].version = w[k].version => w[j].artifact = w[k].artifact

\* Message m proposes this for the machine e.
Proposal(m, kind, e) == m \in Messages /\ m.reply = [kind |-> kind, equipment |-> e]

Opened(c) == c \in Cases /\ Len(c.events) > 0

\* The case c of an identifier with message m.
CaseOK(c, m) ==
  \/ c = NoCase
  \/ Opened(c) /\ (c.target.context = "message" => Proposal(m, "certificate", c.target.equipment))

\* What handler x knows of the case c and message m of its identifier.
HandlerOK(x, c, m, w) ==
  /\ x \in Handlers
  /\ x.begin <= Len(w) /\ x.read <= Len(w)
  /\ x.pc # "look" => x.begin # 0 /\ x.read <= x.begin
  /\ x.pc \in {"fetch", "commit", "return"} => x.op = "download"
  /\ x.pc \in {"fetch", "return"} => x.decision.outcome = "ready"
  /\ x.pc \in {"commit", "return"} /\ x.decision.outcome = "ready" =>
       x.read # 0 /\ Shown(w, x.decision.artifact, x.begin, Len(w))
  /\ x.op = "download" /\ x.decision.outcome = "ready" =>
       x.decision.artifact = x.snap.decision.artifact
  /\ x.read # 0 => x.bytes = x.snap.decision.artifact
  /\ x.op = "download" =>
       /\ Opened(x.snap) /\ IsReady(x.snap) /\ Opened(c)
       /\ Len(x.snap.events) <= Len(c.events)
       /\ Len(x.snap.events) = Len(c.events) => x.snap = c
  /\ x.op = "request" /\ x.target.context = "message" =>
       Proposal(m, "certificate", x.target.equipment)

HandlersOK ==
  \A p \in Procs : h[p] # Resting => HandlerOK(h[p], rec[h[p].id], msg[h[p].id], world)

ReturnOK(r, w) == r.at <= Len(w) /\ r.read <= r.begin /\ Shown(w, r.artifact, r.begin, r.at)

\* What was answered and started.
RepliesOK ==
  /\ \A x \in answers :
       msg[x.id] \in Messages /\ x.body = msg[x.id].body /\ x.reply = msg[x.id].reply
  /\ \A x \in started : Proposal(msg[x[1]], "coverage", x[2])

\* A renewal about to be started is the one proposed.
StartOK(t, m) == t.pc = "start" => Proposal(m, "coverage", t.reply.equipment)

StartsOK == \A p \in Procs : talk[p] # Silent => StartOK(talk[p], msg[talk[p].id])

IInv ==
  /\ TalkTypeOK
  /\ WorldOK(world)
  /\ \A i \in Ids : CaseOK(rec[i], msg[i])
  /\ HandlersOK
  /\ \A k \in DOMAIN released : ReturnOK(released[k], world)
  /\ RepliesOK
  /\ StartsOK

\* What a step may do to a case, a message and the registry.
CaseGrows(c, d) ==
  \/ d = c
  \/ c = NoCase /\ Opened(d)
  \/ /\ Opened(c) /\ Opened(d) /\ IsReady(c)
     /\ IsPrefix(c.events, d.events) /\ Len(c.events) < Len(d.events)
     /\ d.target = c.target

MessageGrows(m, n) == n = m \/ m = NoMessage

WorldGrows(w, v) ==
  \/ v = w
  \/ Len(v) = Len(w) + 1 /\ \A j \in 1..Len(w) : v[j] = w[j]

Grows ==
  /\ \A i \in Ids : CaseGrows(rec[i], rec'[i]) /\ MessageGrows(msg[i], msg'[i])
  /\ WorldGrows(world, world')

-----------------------------------------------------------------------------
(* The data.                                                               *)

LEMMA OpenedExists == ASSUME NEW c, Opened(c) PROVE Exists(c)
<1>1. NoCase.events = <<>> /\ Len(<<>>) = 0
  BY DEF NoCase
<1>. QED BY <1>1 DEF Opened, Exists

LEMMA MessageIsPosted == ASSUME NEW m \in Messages PROVE m # NoMessage
<1>1. NoMessage.turns = 0 /\ m.turns \in 1..MaxTurns
  BY DEF NoMessage, Messages
<1>. QED BY <1>1

LEMMA HandlersAct == ASSUME NEW x \in Handlers PROVE x # Resting
<1>1. Resting.pc = "idle" /\ x.pc \in {"look", "investigate", "create", "fetch", "commit", "return"}
  BY DEF Resting, Handlers
<1>. QED BY <1>1

LEMMA TalksAct == ASSUME NEW t \in Talks PROVE t # Silent /\ t.pc # "silent"
<1>1. Silent.pc = "silent" /\ t.pc \in {"interpret", "store", "start"}
  BY DEF Silent, Talks
<1>. QED BY <1>1

LEMMA HoldIsDecision == OnHold \in Decisions /\ OnHold.outcome = "held"
BY DEF OnHold, Decisions

LEMMA DecisionMeans ==
  ASSUME NEW d \in Decisions
  PROVE  d.outcome \in {"ready", "held"} /\ (d.outcome = "ready" => d.artifact \in Artifacts)
BY DEF Decisions

\* A decision adds to the audit.
LEMMA OutcomeMeans ==
  ASSUME NEW d, NEW yes \in AuditEvents
  PROVE  Outcome(d, yes) \in Seq(AuditEvents) /\ Len(Outcome(d, yes)) > 0
<1>1. "policy_checked" \in AuditEvents /\ "held" \in AuditEvents /\ "case_created" \in AuditEvents
  BY DEF AuditEvents
<1>2. <<"policy_checked">> \in Seq(AuditEvents) /\ Len(<<"policy_checked">>) = 1
  BY <1>1
<1>3. <<yes>> \in Seq(AuditEvents) /\ <<"held", "case_created">> \in Seq(AuditEvents)
  BY <1>1
<1>. DEFINE rest == IF d.outcome = "ready" THEN <<yes>> ELSE <<"held", "case_created">>
<1>4. rest \in Seq(AuditEvents)
  BY <1>3
<1>5. Outcome(d, yes) = <<"policy_checked">> \o rest
  BY DEF Outcome
<1>. HIDE DEF rest
<1>. QED BY <1>2, <1>4, <1>5

LEMMA LongerAudit ==
  ASSUME NEW a \in Seq(AuditEvents), NEW b \in Seq(AuditEvents), Len(b) > 0
  PROVE  /\ a \o b \in Seq(AuditEvents) /\ Len(a \o b) > Len(a) /\ Len(a \o b) > 0
         /\ IsPrefix(a, a \o b)
<1>1. a \o b \in Seq(AuditEvents) /\ Len(a \o b) = Len(a) + Len(b) /\ Len(a) \in Nat /\ Len(b) \in Nat
  BY SMT
<1>2. \A k \in 1..Len(a) : (a \o b)[k] = a[k]
  BY SMT
<1>3. SubSeq(a, 1, Len(a)) = SubSeq(a \o b, 1, Len(a))
  BY <1>1, <1>2
<1>. QED BY <1>1, <1>3 DEF IsPrefix

LEMMA ShownLater ==
  ASSUME NEW w, NEW v, WorldOK(w), WorldGrows(w, v), NEW a, NEW from \in Nat \ {0},
         NEW to \in Nat, to <= Len(w), NEW later \in Nat, to <= later, Shown(w, a, from, to)
  PROVE  Shown(v, a, from, later)
<1>1. PICK j \in from..to : w[j].passes /\ w[j].artifact = a
  BY DEF Shown
<1>2. Len(w) \in Nat
  BY DEF WorldOK
<1>3. j \in 1..Len(w) /\ j \in from..later
  BY <1>1, <1>2
<1>4. v[j] = w[j]
  BY <1>3 DEF WorldGrows
<1>. QED BY <1>1, <1>3, <1>4 DEF Shown

LEMMA WorldLength ==
  ASSUME NEW w, NEW v, WorldOK(w), WorldGrows(w, v)
  PROVE  Len(w) \in Nat /\ Len(v) \in Nat /\ Len(w) <= Len(v)
<1>1. Len(w) \in Nat
  BY DEF WorldOK
<1>. QED BY <1>1 DEF WorldGrows

-----------------------------------------------------------------------------
(* What stays true.                                                        *)

LEMMA ProposalStays ==
  ASSUME NEW m, NEW n, NEW kind, NEW e, Proposal(m, kind, e), MessageGrows(m, n)
  PROVE  Proposal(n, kind, e)
BY MessageIsPosted DEF Proposal, MessageGrows

LEMMA CaseStays ==
  ASSUME NEW c, NEW m, NEW n, CaseOK(c, m), MessageGrows(m, n)
  PROVE  CaseOK(c, n)
BY ProposalStays DEF CaseOK

LEMMA HandlerStays ==
  ASSUME NEW x, NEW c, NEW m, NEW w, HandlerOK(x, c, m, w), WorldOK(w),
         NEW d, CaseGrows(c, d), NEW n, MessageGrows(m, n), NEW v, WorldGrows(w, v)
  PROVE  HandlerOK(x, d, n, v)
<1>1. Len(w) \in Nat /\ Len(v) \in Nat /\ Len(w) <= Len(v)
  BY WorldLength
<1>2. x \in Handlers /\ x.begin \in Nat /\ x.read \in Nat
  BY DEF HandlerOK, Handlers
<1>3. x.begin <= Len(v) /\ x.read <= Len(v)
  BY <1>1, <1>2 DEF HandlerOK
<1>4. x.pc \in {"commit", "return"} /\ x.decision.outcome = "ready" =>
        x.read # 0 /\ Shown(v, x.decision.artifact, x.begin, Len(v))
  <2>. SUFFICES ASSUME x.pc \in {"commit", "return"}, x.decision.outcome = "ready"
                PROVE  x.read # 0 /\ Shown(v, x.decision.artifact, x.begin, Len(v))
    OBVIOUS
  <2>1. x.read # 0 /\ x.begin \in Nat \ {0} /\ Shown(w, x.decision.artifact, x.begin, Len(w))
    BY <1>2 DEF HandlerOK
  <2>. QED BY <1>1, <2>1, ShownLater
<1>5. x.op = "download" =>
        /\ Opened(x.snap) /\ IsReady(x.snap) /\ Opened(d)
        /\ Len(x.snap.events) <= Len(d.events)
        /\ Len(x.snap.events) = Len(d.events) => x.snap = d
  <2>1. CASE d = c
    BY <2>1 DEF HandlerOK
  <2>2. CASE x.op = "download" /\ d # c
    <3>1. Opened(x.snap) /\ IsReady(x.snap) /\ Opened(c) /\ Len(x.snap.events) <= Len(c.events)
      BY <2>2 DEF HandlerOK
    <3>2. Opened(d) /\ Len(c.events) < Len(d.events)
      BY <2>2, <3>1, OpenedExists DEF CaseGrows, Exists
    <3>3. Len(x.snap.events) \in Nat /\ Len(c.events) \in Nat /\ Len(d.events) \in Nat
      BY <3>1, <3>2 DEF Opened, Cases
    <3>. QED BY <3>1, <3>2, <3>3
  <2>. QED BY <2>1, <2>2
<1>6. x.op = "request" /\ x.target.context = "message" => Proposal(n, "certificate", x.target.equipment)
  BY ProposalStays DEF HandlerOK
<1>. QED BY <1>2, <1>3, <1>4, <1>5, <1>6 DEF HandlerOK

LEMMA HandlersStay ==
  ASSUME IInv, Grows
  PROVE  \A q \in Procs : h[q] # Resting => HandlerOK(h[q], rec'[h[q].id], msg'[h[q].id], world')
<1>. SUFFICES ASSUME NEW q \in Procs, h[q] # Resting
              PROVE  HandlerOK(h[q], rec'[h[q].id], msg'[h[q].id], world')
  OBVIOUS
<1>1. h \in [Procs -> Handlers \cup {Resting}] /\ WorldOK(world)
  BY DEF IInv, TalkTypeOK, TypeOK
<1>2. h[q].id \in Ids
  BY <1>1 DEF Handlers
<1>3. HandlerOK(h[q], rec[h[q].id], msg[h[q].id], world)
  BY DEF IInv, HandlersOK
<1>4. /\ CaseGrows(rec[h[q].id], rec'[h[q].id]) /\ MessageGrows(msg[h[q].id], msg'[h[q].id])
      /\ WorldGrows(world, world')
  BY <1>2 DEF Grows
<1>. QED BY <1>1, <1>3, <1>4, HandlerStays

LEMMA HandlersMove ==
  ASSUME IInv, Grows, NEW p \in Procs, NEW x, h' = h \/ h' = [h EXCEPT ![p] = x],
         x = Resting \/ HandlerOK(x, rec'[x.id], msg'[x.id], world')
  PROVE  HandlersOK' /\ h' \in [Procs -> Handlers \cup {Resting}]
<1>1. h \in [Procs -> Handlers \cup {Resting}]
  BY DEF IInv, TalkTypeOK, TypeOK
<1>2. \A q \in Procs : h[q] # Resting => HandlerOK(h[q], rec'[h[q].id], msg'[h[q].id], world')
  BY HandlersStay
<1>3. CASE h' = h
  BY <1>1, <1>2, <1>3 DEF HandlersOK
<1>4. CASE h' = [h EXCEPT ![p] = x]
  <2>1. x \in Handlers \cup {Resting}
    BY DEF HandlerOK
  <2>2. h'[p] = x /\ \A q \in Procs : q # p => h'[q] = h[q]
    BY <1>1, <1>4
  <2>3. ASSUME NEW q \in Procs, h'[q] # Resting
        PROVE  HandlerOK(h'[q], rec'[h'[q].id], msg'[h'[q].id], world')
    <3>1. CASE q = p
      BY <2>2, <2>3, <3>1
    <3>2. CASE q # p
      BY <1>2, <2>2, <2>3, <3>2
    <3>. QED BY <3>1, <3>2
  <2>. QED BY <1>1, <1>4, <2>1, <2>3 DEF HandlersOK
<1>. QED BY <1>3, <1>4

\* A handler, or none, goes on; no document and no history is written.
LEMMA QuietMove ==
  ASSUME IInv, NEW p \in Procs, NEW x, h' = h \/ h' = [h EXCEPT ![p] = x],
         x = Resting \/ HandlerOK(x, rec[x.id], msg[x.id], world),
         UNCHANGED <<rec, world, released, talkVars>>, inputs' \in Nat, crashes' \in Nat
  PROVE  IInv' /\ Grows
<1>1. Grows
  BY DEF Grows, CaseGrows, MessageGrows, WorldGrows, talkVars
<1>2. HandlersOK' /\ h' \in [Procs -> Handlers \cup {Resting}]
  BY <1>1, HandlersMove DEF talkVars
<1>3. TalkTypeOK'
  BY <1>2 DEF IInv, TalkTypeOK, TypeOK, talkVars
<1>4. WorldOK(world') /\ \A i \in Ids : CaseOK(rec'[i], msg'[i])
  BY DEF IInv, talkVars
<1>5. RepliesOK' /\ StartsOK' /\ \A k \in DOMAIN released' : ReturnOK(released'[k], world')
  BY DEF IInv, RepliesOK, StartsOK, talkVars
<1>. QED BY <1>1, <1>2, <1>3, <1>4, <1>5 DEF IInv

\* What is known of every state.
LEMMA Known ==
  ASSUME IInv
  PROVE  /\ rec \in [Ids -> Cases \cup {NoCase}] /\ msg \in [Ids -> Messages \cup {NoMessage}]
         /\ h \in [Procs -> Handlers \cup {Resting}] /\ talk \in [Procs -> Talks \cup {Silent}]
         /\ lapsed \in SUBSET Ids /\ inputs \in Nat /\ crashes \in Nat
         /\ Len(world) \in Nat \ {0} /\ WorldOK(world)
         /\ \A i \in Ids : CaseOK(rec[i], msg[i])
BY DEF IInv, TalkTypeOK, TypeOK, WorldOK

LEMMA HandlerKnown ==
  ASSUME IInv, NEW p \in Procs, h[p].pc # "idle"
  PROVE  /\ h[p] \in Handlers /\ h[p].id \in Ids
         /\ HandlerOK(h[p], rec[h[p].id], msg[h[p].id], world)
<1>1. h[p] # Resting
  BY DEF Resting
<1>2. h[p] \in Handlers
  BY <1>1, Known
<1>. QED BY <1>1, <1>2 DEF IInv, HandlersOK, Handlers

LEMMA TalkKnown ==
  ASSUME IInv, NEW p \in Procs, talk[p].pc # "silent"
  PROVE  talk[p] \in Talks
<1>1. talk[p] # Silent
  BY DEF Silent
<1>. QED BY <1>1, Known

-----------------------------------------------------------------------------
(* The steps.                                                              *)

LEMMA InitIInv == Init => IInv
<1>. SUFFICES ASSUME Init PROVE IInv
  OBVIOUS
<1>1. PICK a \in Artifacts, b \in BOOLEAN : world = <<[version |-> 1, artifact |-> a, passes |-> b]>>
  BY DEF Init, CaseInit
<1>2. [version |-> 1, artifact |-> a, passes |-> b] \in Facts
  BY DEF Facts
<1>3. WorldOK(world) /\ world # <<>>
  <2>1. world \in Seq(Facts) /\ Len(world) = 1 /\ world # <<>>
    BY <1>1, <1>2
  <2>2. \A j \in 1..Len(world) : j = 1
    BY <2>1
  <2>3. world[1].version = 1
    BY <1>1
  <2>. QED BY <2>1, <2>2, <2>3 DEF WorldOK
<1>4. TalkTypeOK
  BY <1>3 DEF Init, CaseInit, TalkTypeOK, TypeOK, WorldOK
<1>5. HandlersOK
  BY DEF Init, CaseInit, HandlersOK
<1>6. \A i \in Ids : CaseOK(rec[i], msg[i])
  BY DEF Init, CaseInit, CaseOK
<1>7. RepliesOK /\ StartsOK /\ \A k \in DOMAIN released : ReturnOK(released[k], world)
  BY DEF Init, CaseInit, RepliesOK, StartsOK
<1>. QED BY <1>3, <1>4, <1>5, <1>6, <1>7 DEF IInv

\* One more state of the registry, of a later version or the same certificate.
LEMMA WorldStep ==
  ASSUME IInv, RegistryChanges \/ ValidityChanges, UNCHANGED talkVars
  PROVE  IInv' /\ Grows
<1>. DEFINE n == Len(world)
            now == world[n]
<1>1. n \in Nat \ {0} /\ WorldOK(world) /\ world \in Seq(Facts) /\ now \in Facts
  BY Known DEF WorldOK
<1>2. PICK f \in Facts :
        /\ world' = Append(world, f)
        /\ f.version > now.version \/ (f.version = now.version /\ f.artifact = now.artifact)
        /\ UNCHANGED <<rec, released, h, inputs, crashes>>
  <2>1. now.version \in Nat /\ now.artifact \in Artifacts /\ now.passes \in BOOLEAN
    BY <1>1 DEF Facts
  <2>2. CASE RegistryChanges
    <3>1. PICK a \in Artifacts, b \in BOOLEAN :
            world' = Append(world, [version |-> now.version + 1, artifact |-> a, passes |-> b])
      BY <2>2 DEF RegistryChanges, Current, Last
    <3>. DEFINE g == [version |-> now.version + 1, artifact |-> a, passes |-> b]
    <3>2. g \in Facts /\ g.version > now.version
      BY <2>1 DEF Facts
    <3>3. world' = Append(world, g)
      BY <3>1
    <3>. HIDE DEF g
    <3>. QED BY <2>2, <3>2, <3>3 DEF RegistryChanges
  <2>3. CASE ValidityChanges
    <3>. DEFINE g == [now EXCEPT !.passes = ~@]
    <3>1. g \in Facts /\ g.version = now.version /\ g.artifact = now.artifact
      BY <1>1 DEF Facts
    <3>2. world' = Append(world, g)
      BY <2>3 DEF ValidityChanges, Current, Last
    <3>. QED BY <2>3, <3>1, <3>2 DEF ValidityChanges
  <2>. QED BY <2>2, <2>3
<1>3. /\ world' \in Seq(Facts) /\ Len(world') = n + 1 /\ world'[n + 1] = f
      /\ \A j \in 1..n : world'[j] = world[j]
  BY <1>1, <1>2
<1>. HIDE DEF now
<1>4. WorldGrows(world, world')
  BY <1>3 DEF WorldGrows
<1>5. WorldOK(world')
  <2>1. \A j \in 1..n : world[j].version \in Nat /\ world[j].version <= now.version
    <3>1. \A j \in 1..n : world[j] \in Facts
      BY <1>1
    <3>2. \A g \in Facts : g.version \in Nat
      BY DEF Facts
    <3>. QED BY <1>1, <3>1, <3>2 DEF WorldOK, now
  <2>2. now.version \in Nat /\ f.version \in Nat
    BY <1>1 DEF Facts
  <2>3. \A j \in 1..n : world[j].version <= f.version
    BY <1>2, <2>1, <2>2
  <2>4. \A j \in 1..n : world[j].version = f.version => world[j].artifact = f.artifact
    <3>1. \A j \in 1..n : world[j].version = now.version => world[j].artifact = now.artifact
      BY <1>1 DEF WorldOK, now
    <3>. QED BY <1>2, <2>1, <2>2, <3>1
  <2>5. \A j \in 1..n + 1 : j \in 1..n \/ j = n + 1
    BY <1>1
  <2>6. \A j \in 1..n + 1 : world'[j].version <= f.version
    BY <1>3, <2>2, <2>3, <2>5
  <2>7. \A j, k \in 1..n + 1 : world'[j].version = world'[k].version => world'[j].artifact = world'[k].artifact
    BY <1>1, <1>3, <2>4, <2>5 DEF WorldOK
  <2>. QED BY <1>1, <1>3, <2>6, <2>7 DEF WorldOK
<1>6. Grows
  BY <1>2, <1>4 DEF Grows, CaseGrows, MessageGrows, talkVars
<1>7. HandlersOK' /\ h' \in [Procs -> Handlers \cup {Resting}]
  BY <1>2, <1>6, HandlersStay, Known DEF HandlersOK
<1>8. TalkTypeOK'
  <2>1. world' # <<>>
    BY <1>1, <1>3
  <2>. QED BY <1>2, <1>3, <1>7, <2>1 DEF IInv, TalkTypeOK, TypeOK, talkVars
<1>9. ASSUME NEW k \in DOMAIN released PROVE ReturnOK(released[k], world')
  <2>1. released[k] \in Returns /\ ReturnOK(released[k], world)
    BY DEF IInv, TalkTypeOK, TypeOK
  <2>2. released[k].begin \in Nat \ {0} /\ released[k].at \in Nat \ {0} /\ released[k].at <= Len(world)
    BY <2>1 DEF Returns, ReturnOK
  <2>. QED BY <1>1, <1>3, <1>4, <2>1, <2>2, ShownLater DEF ReturnOK
<1>10. RepliesOK' /\ StartsOK' /\ \A i \in Ids : CaseOK(rec'[i], msg'[i])
  BY <1>2 DEF IInv, RepliesOK, StartsOK, talkVars
<1>. QED BY <1>2, <1>5, <1>6, <1>7, <1>8, <1>9, <1>10 DEF IInv

\* A request or a download begins.
LEMMA BeginStep ==
  ASSUME IInv, NEW p \in Procs, NEW i \in Ids, NEW t \in Targets, UNCHANGED talkVars,
         \/ Ask(p, i, t) /\ (t.context = "message" => Proposal(msg[i], "certificate", t.equipment))
         \/ Download(p, i)
  PROVE  IInv' /\ Grows
<1>1. CASE Ask(p, i, t)
  <2>. DEFINE x == [pc |-> "look", id |-> i, op |-> "request", target |-> t, snap |-> NoCase,
                    begin |-> 0, read |-> 0, bytes |-> NoArtifact, decision |-> OnHold]
  <2>1. h' = [h EXCEPT ![p] = x] /\ inputs' = inputs + 1 /\ UNCHANGED <<rec, world, released, crashes>>
    BY <1>1 DEF Ask, Begin, Input
  <2>2. x \in Handlers
    BY HoldIsDecision, Known DEF Handlers
  <2>3. ~Download(p, i) => (t.context = "message" => Proposal(msg[i], "certificate", t.equipment))
    OBVIOUS
  <2>4. ~Download(p, i)
    <3>1. Download(p, i) => Exists(rec[i])
      BY DEF Download, MayDownload, IsReady
    <3>. QED BY <1>1, <3>1 DEF Ask
  <2>5. HandlerOK(x, rec[i], msg[i], world)
    BY <2>2, <2>3, <2>4, Known, HoldIsDecision DEF HandlerOK
  <2>6. x.id = i
    OBVIOUS
  <2>. HIDE DEF x
  <2>7. HandlerOK(x, rec[x.id], msg[x.id], world)
    BY <2>5, <2>6
  <2>8. inputs' \in Nat
    BY <2>1, Known
  <2>. QED BY <2>1, <2>7, <2>8, Known, QuietMove
<1>2. CASE Download(p, i)
  <2>. DEFINE x == [pc |-> "look", id |-> i, op |-> "download", target |-> rec[i].target, snap |-> rec[i],
                    begin |-> 0, read |-> 0, bytes |-> NoArtifact, decision |-> OnHold]
  <2>1. /\ h' = [h EXCEPT ![p] = x] /\ inputs' = inputs + 1 /\ IsReady(rec[i])
        /\ UNCHANGED <<rec, world, released, crashes>>
    BY <1>2 DEF Download, MayDownload, Begin, Input
  <2>2. Opened(rec[i]) /\ rec[i].target \in Targets /\ Len(rec[i].events) \in Nat
    BY <2>1, Known DEF CaseOK, IsReady, Exists, Opened, Cases
  <2>3. x \in Handlers
    BY <2>2, HoldIsDecision, Known DEF Handlers, Opened
  <2>4. HandlerOK(x, rec[i], msg[i], world)
    BY <2>1, <2>2, <2>3, Known, HoldIsDecision DEF HandlerOK
  <2>5. x.id = i
    OBVIOUS
  <2>. HIDE DEF x
  <2>7. HandlerOK(x, rec[x.id], msg[x.id], world)
    BY <2>4, <2>5
  <2>8. inputs' \in Nat
    BY <2>1, Known
  <2>. QED BY <2>1, <2>7, <2>8, Known, QuietMove
<1>. QED BY <1>1, <1>2

LEMMA DecidedMeans ==
  ASSUME NEW s, NEW d \in Decisions
  PROVE  /\ Decided(s, d) \in Decisions
         /\ Decided(s, d).outcome = "ready" =>
              /\ Decided(s, d) = d
              /\ s.op = "download" => d.artifact = s.snap.decision.artifact
BY HoldIsDecision DEF Decided

\* An investigation starts from the registry as it is.
LEMMA LookStep ==
  ASSUME IInv, NEW p \in Procs, Look(p), UNCHANGED talkVars PROVE IInv' /\ Grows
<1>. PICK s : s = h[p]
  OBVIOUS
<1>1. s.pc = "look" /\ UNCHANGED <<rec, world, released, inputs, crashes>>
  BY DEF Look
<1>2. s \in Handlers /\ HandlerOK(s, rec[s.id], msg[s.id], world)
  BY <1>1, HandlerKnown
<1>3. Len(world) \in Nat \ {0}
  BY Known
<1>4. PICK x : x = [s EXCEPT !.pc = "investigate", !.begin = Len(world)]
  OBVIOUS
<1>5. h' = [h EXCEPT ![p] = x]
  BY <1>4 DEF Look, Now
<1>6. /\ x \in Handlers /\ x.pc = "investigate" /\ x.id = s.id /\ x.op = s.op
      /\ x.target = s.target /\ x.snap = s.snap /\ x.begin = Len(world) /\ x.read = s.read
      /\ x.bytes = s.bytes /\ x.decision = s.decision
  BY <1>2, <1>3, <1>4 DEF Handlers
<1>7. HandlerOK(x, rec[x.id], msg[x.id], world)
  BY <1>2, <1>3, <1>6 DEF HandlerOK
<1>. QED BY <1>1, <1>5, <1>7, Known, QuietMove

LEMMA EvaluateStep ==
  ASSUME IInv, NEW p \in Procs, Evaluate(p), UNCHANGED talkVars PROVE IInv' /\ Grows
<1>. DEFINE n == Len(world)
<1>. PICK s : s = h[p]
  OBVIOUS
<1>1. s.pc = "investigate" /\ UNCHANGED <<rec, world, released, inputs, crashes>>
  BY DEF Evaluate
<1>2. s \in Handlers /\ s.id \in Ids /\ HandlerOK(s, rec[s.id], msg[s.id], world)
  BY <1>1, HandlerKnown
<1>3. PICK d \in Decisions :
        /\ d.outcome = "ready" => Passes(s.begin) /\ d.artifact = world[s.begin].artifact
        /\ h' = [h EXCEPT ![p] = [s EXCEPT !.decision = Decided(s, d), !.pc = Follows(s, Decided(s, d))]]
  BY DEF Evaluate
<1>4. PICK e \in Decisions :
        /\ e = Decided(s, d)
        /\ e.outcome = "ready" => e = d /\ (s.op = "download" => e.artifact = s.snap.decision.artifact)
  BY DecidedMeans
<1>5. PICK pc \in {"create", "fetch", "commit"} :
        /\ pc = Follows(s, e)
        /\ pc # "create" => s.op = "download"
        /\ pc = "fetch" => e.outcome = "ready"
        /\ pc = "commit" /\ e.outcome = "ready" => s.read # 0
  BY <1>2 DEF Follows, Handlers
<1>6. PICK x : x = [s EXCEPT !.decision = e, !.pc = pc]
  OBVIOUS
<1>7. /\ x \in Handlers /\ x.pc = pc /\ x.decision = e /\ x.id = s.id /\ x.op = s.op
      /\ x.target = s.target /\ x.snap = s.snap /\ x.begin = s.begin /\ x.read = s.read
      /\ x.bytes = s.bytes
  BY <1>2, <1>6 DEF Handlers
<1>8. e.outcome = "ready" => Shown(world, e.artifact, s.begin, n)
  <2>1. n \in Nat \ {0} /\ s.begin \in 1..n
    BY <1>1, <1>2, Known DEF HandlerOK, Handlers
  <2>2. e.outcome = "ready" => world[n].passes /\ world[n].artifact = e.artifact
    <3>1. e.outcome = "ready" => /\ world[n].version = world[s.begin].version /\ world[n].passes
                                 /\ e.artifact = world[s.begin].artifact
      BY <1>3, <1>4 DEF Passes, Current, Last
    <3>. QED BY <2>1, <3>1, Known DEF WorldOK
  <2>. QED BY <2>1, <2>2 DEF Shown
<1>9. HandlerOK(x, rec[x.id], msg[x.id], world)
  BY <1>1, <1>2, <1>4, <1>5, <1>7, <1>8 DEF HandlerOK
<1>10. h' = [h EXCEPT ![p] = x]
  BY <1>3, <1>4, <1>5, <1>6
<1>. QED BY <1>1, <1>9, <1>10, Known, QuietMove

\* The bytes are those of the decision, which is the certificate first offered.
LEMMA FetchStep ==
  ASSUME IInv, NEW p \in Procs, Fetch(p), UNCHANGED talkVars PROVE IInv' /\ Grows
<1>. PICK s : s = h[p]
  OBVIOUS
<1>1. s.pc = "fetch" /\ UNCHANGED <<rec, world, released, inputs, crashes>>
  BY DEF Fetch
<1>2. /\ s \in Handlers /\ HandlerOK(s, rec[s.id], msg[s.id], world) /\ s.op = "download"
      /\ s.decision.outcome = "ready" /\ s.decision.artifact = s.snap.decision.artifact
  BY <1>1, HandlerKnown DEF HandlerOK
<1>3. Len(world) \in Nat \ {0} /\ s.decision.artifact \in Artifacts
  BY <1>2, Known, DecisionMeans DEF Handlers
<1>. DEFINE x == [s EXCEPT !.pc = "look", !.read = Len(world), !.bytes = s.decision.artifact]
            y == [s EXCEPT !.pc = "commit", !.decision = OnHold]
<1>4. h' = [h EXCEPT ![p] = x] \/ h' = [h EXCEPT ![p] = y]
  BY DEF Fetch, Now
<1>5. /\ x \in Handlers /\ x.pc = "look" /\ x.id = s.id /\ x.op = s.op /\ x.target = s.target
      /\ x.snap = s.snap /\ x.begin = s.begin /\ x.read = Len(world)
      /\ x.bytes = s.decision.artifact /\ x.decision = s.decision
  BY <1>2, <1>3 DEF Handlers
<1>6. /\ y \in Handlers /\ y.pc = "commit" /\ y.id = s.id /\ y.op = s.op /\ y.decision = OnHold
      /\ y.target = s.target /\ y.snap = s.snap /\ y.begin = s.begin /\ y.read = s.read
      /\ y.bytes = s.bytes
  BY <1>2, HoldIsDecision DEF Handlers
<1>. HIDE DEF x, y
<1>7. HandlerOK(x, rec[x.id], msg[x.id], world)
  BY <1>2, <1>3, <1>5 DEF HandlerOK
<1>8. HandlerOK(y, rec[y.id], msg[y.id], world)
  BY <1>1, <1>2, <1>6, HoldIsDecision DEF HandlerOK
<1>. QED BY <1>1, <1>4, <1>7, <1>8, Known, QuietMove

\* A case is opened or advanced, and its handler goes on.
LEMMA CaseMove ==
  ASSUME IInv, NEW p \in Procs, NEW x, h' = [h EXCEPT ![p] = x], NEW i \in Ids, NEW c,
         rec' = [rec EXCEPT ![i] = c], CaseGrows(rec[i], c), CaseOK(c, msg[i]), Opened(c),
         x = Resting \/ HandlerOK(x, rec'[x.id], msg[x.id], world),
         UNCHANGED <<world, released, inputs, crashes, talkVars>>
  PROVE  IInv' /\ Grows
<1>1. rec'[i] = c /\ (\A k \in Ids : k # i => rec'[k] = rec[k]) /\ rec' \in [Ids -> Cases \cup {NoCase}]
  BY Known DEF Opened
<1>2. Grows
  BY <1>1 DEF Grows, CaseGrows, MessageGrows, WorldGrows, talkVars
<1>3. HandlersOK' /\ h' \in [Procs -> Handlers \cup {Resting}]
  BY <1>2, HandlersMove DEF talkVars
<1>4. TalkTypeOK'
  BY <1>1, <1>3 DEF IInv, TalkTypeOK, TypeOK, talkVars
<1>5. WorldOK(world') /\ \A k \in Ids : CaseOK(rec'[k], msg'[k])
  BY <1>1 DEF IInv, talkVars
<1>6. RepliesOK' /\ StartsOK' /\ \A k \in DOMAIN released' : ReturnOK(released'[k], world')
  BY DEF IInv, RepliesOK, StartsOK, talkVars
<1>. QED BY <1>2, <1>3, <1>4, <1>5, <1>6 DEF IInv

LEMMA CreateStep ==
  ASSUME IInv, NEW p \in Procs, Create(p), UNCHANGED talkVars PROVE IInv' /\ Grows
<1>. PICK s : s = h[p]
  OBVIOUS
<1>1. s.pc = "create" /\ h' = [h EXCEPT ![p] = Resting] /\ UNCHANGED <<world, released, inputs, crashes>>
  BY DEF Create
<1>2. s \in Handlers /\ s.id \in Ids /\ HandlerOK(s, rec[s.id], msg[s.id], world)
  BY <1>1, HandlerKnown
<1>3. CASE Exists(rec[s.id])
  BY <1>1, <1>3, Known, QuietMove DEF Create
<1>4. CASE ~Exists(rec[s.id])
  <2>1. s.op = "request"
    BY <1>2, <1>4, OpenedExists DEF HandlerOK, Handlers
  <2>. DEFINE more == Outcome(s.decision, "release_ready")
              events == <<"requested">> \o more
              c == [target |-> s.target, decision |-> s.decision, events |-> events]
  <2>2. rec' = [rec EXCEPT ![s.id] = c]
    BY <1>4 DEF Create
  <2>3. "requested" \in AuditEvents /\ "release_ready" \in AuditEvents
    BY DEF AuditEvents
  <2>4. more \in Seq(AuditEvents) /\ Len(more) > 0
    BY <2>3, OutcomeMeans
  <2>. HIDE DEF more
  <2>5. <<"requested">> \in Seq(AuditEvents)
    BY <2>3
  <2>6. events \in Seq(AuditEvents) /\ Len(events) > 0
    BY <2>4, <2>5, LongerAudit
  <2>. HIDE DEF events
  <2>7. c \in Cases /\ c.events = events /\ c.target = s.target
    BY <1>2, <2>6 DEF Cases, Handlers
  <2>. HIDE DEF c
  <2>8. Opened(c)
    BY <2>6, <2>7 DEF Opened
  <2>9. CaseOK(c, msg[s.id])
    BY <1>2, <2>1, <2>7, <2>8 DEF CaseOK, HandlerOK
  <2>10. CaseGrows(rec[s.id], c)
    BY <1>4, <2>8 DEF CaseGrows, Exists
  <2>. QED BY <1>1, <1>2, <2>2, <2>8, <2>9, <2>10, CaseMove
<1>. QED BY <1>3, <1>4

LEMMA CommitStep ==
  ASSUME IInv, NEW p \in Procs, Commit(p), UNCHANGED talkVars PROVE IInv' /\ Grows
<1>. PICK s : s = h[p]
  OBVIOUS
<1>1. s.pc = "commit" /\ UNCHANGED <<world, released, inputs, crashes>>
  BY DEF Commit
<1>2. s \in Handlers /\ s.id \in Ids /\ HandlerOK(s, rec[s.id], msg[s.id], world) /\ s.op = "download"
  BY <1>1, HandlerKnown DEF HandlerOK
<1>3. CASE ~Advances(s)
  BY <1>1, <1>3, Known, QuietMove DEF Commit
<1>4. CASE Advances(s)
  <2>1. /\ Opened(s.snap) /\ IsReady(s.snap) /\ s.snap = rec[s.id]
        /\ s.snap \in Cases /\ s.snap.events \in Seq(AuditEvents) /\ s.snap.target \in Targets
    BY <1>2, <1>4 DEF HandlerOK, Advances, Opened, Cases
  <2>. DEFINE more == Outcome(s.decision, "download_prepared")
              c == [s.snap EXCEPT !.decision = s.decision, !.events = @ \o more]
              x == IF s.decision.outcome = "ready" THEN [s EXCEPT !.pc = "return"] ELSE Resting
  <2>2. rec' = [rec EXCEPT ![s.id] = c] /\ h' = [h EXCEPT ![p] = x]
    BY <1>4 DEF Commit
  <2>3. more \in Seq(AuditEvents) /\ Len(more) > 0
    <3>1. "download_prepared" \in AuditEvents
      BY DEF AuditEvents
    <3>. QED BY <3>1, OutcomeMeans
  <2>. HIDE DEF more
  <2>4. PICK events \in Seq(AuditEvents) :
          /\ events = s.snap.events \o more /\ Len(events) > Len(s.snap.events) /\ Len(events) > 0
          /\ IsPrefix(s.snap.events, events)
    BY <2>1, <2>3, LongerAudit
  <2>5. /\ c.events = events /\ c.target = s.snap.target /\ c \in Cases
    BY <1>2, <2>1, <2>4 DEF Cases, Handlers
  <2>. HIDE DEF c
  <2>6. Opened(c)
    BY <2>4, <2>5 DEF Opened
  <2>7. CaseGrows(rec[s.id], c)
    BY <2>1, <2>4, <2>5, <2>6 DEF CaseGrows
  <2>8. CaseOK(c, msg[s.id])
    <3>1. CaseOK(s.snap, msg[s.id])
      BY <1>2, <2>1, Known
    <3>. QED BY <2>1, <2>5, <2>6, <3>1, OpenedExists DEF CaseOK, Exists
  <2>9. x = Resting \/ HandlerOK(x, rec'[x.id], msg[x.id], world)
    <3>. SUFFICES ASSUME s.decision.outcome = "ready" PROVE HandlerOK(x, rec'[x.id], msg[x.id], world)
      OBVIOUS
    <3>1. /\ x \in Handlers /\ x.pc = "return" /\ x.decision = s.decision /\ x.id = s.id /\ x.op = s.op
          /\ x.target = s.target /\ x.snap = s.snap /\ x.begin = s.begin /\ x.read = s.read
          /\ x.bytes = s.bytes
      BY <1>2 DEF Handlers
    <3>2. rec'[s.id] = c
      BY <1>2, <2>2, Known
    <3>3. Len(s.snap.events) \in Nat /\ Len(c.events) \in Nat /\ Len(s.snap.events) < Len(c.events)
      BY <2>1, <2>4, <2>5
    <3>. HIDE DEF x
    <3>. QED BY <1>1, <1>2, <2>1, <2>6, <3>1, <3>2, <3>3 DEF HandlerOK
  <2>. HIDE DEF x
  <2>. QED BY <1>1, <1>2, <2>2, <2>6, <2>7, <2>8, <2>9, CaseMove
<1>. QED BY <1>3, <1>4

\* The PDF is returned on a decision made since its bytes were read.
LEMMA ReturnStep ==
  ASSUME IInv, NEW p \in Procs, Return(p), UNCHANGED talkVars PROVE IInv' /\ Grows
<1>. PICK s : s = h[p]
  OBVIOUS
<1>1. PICK r : /\ r = [id |-> s.id, artifact |-> s.bytes, read |-> s.read, begin |-> s.begin,
                       at |-> Len(world)]
               /\ released' = Append(released, r)
  BY DEF Return, Now
<1>2. s.pc = "return" /\ h' = [h EXCEPT ![p] = Resting] /\ UNCHANGED <<rec, world, inputs, crashes>>
  BY DEF Return
<1>3. /\ s \in Handlers /\ s.id \in Ids /\ s.decision.outcome = "ready"
      /\ s.read # 0 /\ s.begin # 0 /\ s.read <= s.begin
      /\ s.bytes = s.decision.artifact /\ Shown(world, s.bytes, s.begin, Len(world))
  BY <1>2, HandlerKnown DEF HandlerOK
<1>4. /\ s.bytes \in Artifacts /\ s.read \in Nat \ {0} /\ s.begin \in Nat \ {0}
      /\ Len(world) \in Nat \ {0}
  BY <1>3, DecisionMeans, Known DEF Handlers
<1>5. r \in Returns /\ ReturnOK(r, world)
  BY <1>1, <1>3, <1>4 DEF Returns, ReturnOK
<1>6. released \in Seq(Returns)
  BY DEF IInv, TalkTypeOK, TypeOK
<1>7. released' \in Seq(Returns) /\ \A k \in DOMAIN released' : ReturnOK(released'[k], world')
  BY <1>1, <1>2, <1>5, <1>6 DEF IInv
<1>8. Grows
  BY <1>2 DEF Grows, CaseGrows, MessageGrows, WorldGrows, talkVars
<1>9. HandlersOK' /\ h' \in [Procs -> Handlers \cup {Resting}]
  BY <1>2, <1>8, HandlersMove
<1>10. TalkTypeOK'
  BY <1>2, <1>7, <1>9 DEF IInv, TalkTypeOK, TypeOK, talkVars
<1>11. RepliesOK' /\ StartsOK' /\ WorldOK(world') /\ \A i \in Ids : CaseOK(rec'[i], msg'[i])
  BY <1>2 DEF IInv, RepliesOK, StartsOK, talkVars
<1>. QED BY <1>7, <1>8, <1>9, <1>10, <1>11 DEF IInv

\* A message is stored, answered or confirmed, or lapses; no case is touched.
LEMMA TalkMove ==
  ASSUME IInv, UNCHANGED <<rec, world, released, h>>,
         msg' \in [Ids -> Messages \cup {NoMessage}], \A i \in Ids : MessageGrows(msg[i], msg'[i]),
         lapsed' \in SUBSET Ids, started' \in SUBSET (Ids \X Equipment),
         answers' \in SUBSET [id : Ids, body : Bodies, reply : Replies], RepliesOK', StartsOK',
         talk' \in [Procs -> Talks \cup {Silent}], inputs' \in Nat, crashes' \in Nat
  PROVE  IInv' /\ Grows
<1>1. Grows
  BY DEF Grows, CaseGrows, WorldGrows
<1>2. HandlersOK'
  BY <1>1, HandlersStay DEF HandlersOK
<1>3. TalkTypeOK'
  BY DEF IInv, TalkTypeOK, TypeOK
<1>4. WorldOK(world') /\ \A k \in DOMAIN released' : ReturnOK(released'[k], world')
  BY DEF IInv
<1>5. \A i \in Ids : CaseOK(rec'[i], msg'[i])
  BY CaseStays, Known
<1>. QED BY <1>1, <1>2, <1>3, <1>4, <1>5 DEF IInv

\* The reply of a stored message goes out.
LEMMA AnsweredMeans ==
  ASSUME IInv, NEW i \in Ids, NEW m \in Messages, Answered(i, m), msg'[i] = m,
         \A k \in Ids : MessageGrows(msg[k], msg'[k])
  PROVE  /\ answers' \in SUBSET [id : Ids, body : Bodies, reply : Replies]
         /\ \A x \in answers' :
              msg'[x.id] \in Messages /\ x.body = msg'[x.id].body /\ x.reply = msg'[x.id].reply
<1>. DEFINE y == [id |-> i, body |-> m.body, reply |-> m.reply]
            All == [id : Ids, body : Bodies, reply : Replies]
<1>1. answers' = answers \cup {y} /\ y.id = i /\ y.body = m.body /\ y.reply = m.reply
  BY DEF Answered
<1>2. y \in All
  BY DEF Messages
<1>3. answers \in SUBSET All
  BY DEF IInv, TalkTypeOK
<1>. HIDE DEF y
<1>4. ASSUME NEW x \in answers
      PROVE  msg'[x.id] \in Messages /\ x.body = msg'[x.id].body /\ x.reply = msg'[x.id].reply
  <2>1. x.id \in Ids
    BY <1>3
  <2>2. msg[x.id] \in Messages /\ x.body = msg[x.id].body /\ x.reply = msg[x.id].reply
    BY DEF IInv, RepliesOK
  <2>. QED BY <2>1, <2>2, MessageIsPosted DEF MessageGrows
<1>. QED BY <1>1, <1>2, <1>3, <1>4

LEMMA StartedStay ==
  ASSUME IInv, \A i \in Ids : MessageGrows(msg[i], msg'[i])
  PROVE  \A x \in started : Proposal(msg'[x[1]], "coverage", x[2])
<1>. SUFFICES ASSUME NEW x \in started PROVE Proposal(msg'[x[1]], "coverage", x[2])
  OBVIOUS
<1>1. x[1] \in Ids
  BY DEF IInv, TalkTypeOK
<1>. QED BY <1>1, ProposalStays DEF IInv, RepliesOK

\* One handler goes on talking; what it is about to start is proposed.
LEMMA StartsMove ==
  ASSUME IInv, NEW p \in Procs, NEW t, talk' = talk \/ talk' = [talk EXCEPT ![p] = t],
         t = Silent \/ (t \in Talks /\ StartOK(t, msg'[t.id])),
         \A i \in Ids : MessageGrows(msg[i], msg'[i])
  PROVE  StartsOK' /\ talk' \in [Procs -> Talks \cup {Silent}]
<1>1. \A q \in Procs : talk'[q] = talk[q] \/ talk'[q] = t
  BY Known
<1>2. ASSUME NEW q \in Procs, talk[q] # Silent PROVE StartOK(talk[q], msg'[talk[q].id])
  <2>1. talk[q].id \in Ids
    BY <1>2, Known DEF Talks
  <2>2. StartOK(talk[q], msg[talk[q].id])
    BY <1>2 DEF IInv, StartsOK
  <2>. QED BY <2>1, <2>2, ProposalStays DEF StartOK
<1>3. StartsOK'
  BY <1>1, <1>2 DEF StartsOK
<1>. QED BY <1>3, Known

LEMMA PostStep ==
  ASSUME IInv, NEW p \in Procs, NEW i \in Ids, NEW b \in Bodies, PostAgain(p, i, b) \/ Post(p, i, b)
  PROVE  IInv' /\ Grows
<1>0. inputs' \in Nat /\ UNCHANGED <<rec, world, released, h, crashes, msg, lapsed, started>>
  BY Known DEF PostAgain, Post, Input
<1>1. \A k \in Ids : MessageGrows(msg[k], msg'[k])
  BY <1>0 DEF MessageGrows
<1>2. CASE PostAgain(p, i, b)
  <2>1. msg[i] \in Messages /\ Answered(i, msg[i]) /\ talk' = talk
    BY <1>2, Known DEF PostAgain, Posted
  <2>2. /\ answers' \in SUBSET [id : Ids, body : Bodies, reply : Replies]
        /\ \A x \in answers' :
             msg'[x.id] \in Messages /\ x.body = msg'[x.id].body /\ x.reply = msg'[x.id].reply
    BY <1>0, <1>1, <2>1, AnsweredMeans
  <2>3. RepliesOK'
    BY <1>0, <1>1, <2>2, StartedStay DEF RepliesOK
  <2>4. StartsOK' /\ talk' \in [Procs -> Talks \cup {Silent}]
    BY <1>1, <2>1, StartsMove
  <2>. QED BY <1>0, <1>1, <2>2, <2>3, <2>4, TalkMove, Known DEF IInv, TalkTypeOK
<1>3. CASE Post(p, i, b)
  <2>1. PICK n \in 1..MaxTurns :
          talk' = [talk EXCEPT ![p] = [pc |-> "interpret", id |-> i, body |-> b, turns |-> n,
                                       reply |-> AnyReply]]
    <3>1. Turns(b) \subseteq 1..MaxTurns
      BY ConversationAssumption DEF Turns
    <3>. QED BY <1>3, <3>1 DEF Post
  <2>. DEFINE t == [pc |-> "interpret", id |-> i, body |-> b, turns |-> n, reply |-> AnyReply]
  <2>2. t \in Talks
    <3>1. AnyReply \in Replies
      BY ConversationAssumption DEF AnyReply, Replies
    <3>. QED BY <3>1 DEF Talks
  <2>3. talk' = [talk EXCEPT ![p] = t]
    BY <2>1
  <2>4. t.pc # "start"
    OBVIOUS
  <2>. HIDE DEF t
  <2>6. StartsOK' /\ talk' \in [Procs -> Talks \cup {Silent}] /\ answers' = answers
    BY <1>1, <1>3, <2>2, <2>3, <2>4, StartsMove DEF Post, StartOK
  <2>5. RepliesOK'
    BY <1>0, <2>6 DEF IInv, RepliesOK
  <2>. QED BY <1>0, <1>1, <2>5, <2>6, TalkMove, Known DEF IInv, TalkTypeOK
<1>. QED BY <1>2, <1>3

\* The interpretation of a message, a call that fails, a crash, and the clock.
LEMMA InterpretStep ==
  ASSUME IInv, (\E p \in Procs : Interpret(p) \/ TalkCrash(p)) \/ (\E i \in Ids : Lapse(i))
  PROVE  IInv' /\ Grows
<1>1. /\ UNCHANGED <<rec, world, released, h, msg, started, answers>> /\ inputs' \in Nat
      /\ crashes' \in Nat /\ lapsed' \in SUBSET Ids
  <2>1. ASSUME NEW i \in Ids, Lapse(i) PROVE lapsed' \in SUBSET Ids
    BY <2>1, Known DEF Lapse
  <2>2. ASSUME NEW p \in Procs, TalkCrash(p) PROVE crashes' \in Nat
    BY <2>2, Known DEF TalkCrash
  <2>. QED BY <2>1, <2>2, Known DEF Interpret, TalkCrash, Lapse, caseVars
<1>2. RepliesOK' /\ \A i \in Ids : MessageGrows(msg[i], msg'[i])
  BY <1>1 DEF IInv, RepliesOK, MessageGrows
<1>3. StartsOK' /\ talk' \in [Procs -> Talks \cup {Silent}]
  <2>1. ASSUME NEW p \in Procs, talk' = talk \/ talk' = [talk EXCEPT ![p] = Silent]
        PROVE  StartsOK' /\ talk' \in [Procs -> Talks \cup {Silent}]
    BY <1>2, <2>1, StartsMove
  <2>2. ASSUME NEW p \in Procs, Interpret(p), talk' # [talk EXCEPT ![p] = Silent]
        PROVE  StartsOK' /\ talk' \in [Procs -> Talks \cup {Silent}]
    <3>1. talk[p] \in Talks
      BY <2>2, TalkKnown DEF Interpret
    <3>2. PICK i \in Intents, e \in Equipment, o \in Outcomes :
            talk' = [talk EXCEPT ![p] = [talk[p] EXCEPT !.pc = "store", !.reply = Reply(i, e, o)]]
      BY <2>2 DEF Interpret
    <3>3. Reply(i, e, o) \in Replies
      BY DEF Reply, Coverage, Replies
    <3>. DEFINE t == [talk[p] EXCEPT !.pc = "store", !.reply = Reply(i, e, o)]
    <3>4. t \in Talks /\ t.pc # "start"
      BY <3>1, <3>3 DEF Talks
    <3>5. talk' = [talk EXCEPT ![p] = t]
      BY <3>2
    <3>. HIDE DEF t
    <3>. QED BY <1>2, <3>4, <3>5, StartsMove DEF StartOK
  <2>3. ASSUME NEW i \in Ids, Lapse(i) PROVE StartsOK' /\ talk' \in [Procs -> Talks \cup {Silent}]
    BY <1>1, <2>3, Known DEF IInv, StartsOK, Lapse
  <2>. QED BY <2>1, <2>2, <2>3 DEF TalkCrash
<1>. QED BY <1>1, <1>2, <1>3, TalkMove, Known DEF IInv, TalkTypeOK

LEMMA StoreStep == ASSUME IInv, NEW p \in Procs, StoreMessage(p) PROVE IInv' /\ Grows
<1>. PICK t : t = talk[p]
  OBVIOUS
<1>1. /\ t.pc = "store" /\ talk' = [talk EXCEPT ![p] = Silent]
      /\ UNCHANGED <<rec, world, released, h, inputs, crashes, lapsed, started>>
  BY DEF StoreMessage, caseVars
<1>2. t \in Talks /\ t.id \in Ids
  BY <1>1, TalkKnown DEF Talks
<1>. DEFINE new == [body |-> t.body, reply |-> t.reply, turns |-> t.turns]
            m == Keeps(t.id, new)
<1>3. new \in Messages
  BY <1>2 DEF Messages, Talks
<1>4. msg' = [msg EXCEPT ![t.id] = m] /\ (Answered(t.id, m) \/ answers' = answers)
  BY DEF StoreMessage
<1>. HIDE DEF new
<1>5. m \in Messages /\ (Posted(t.id) => m = msg[t.id])
  BY <1>2, <1>3, Known DEF Keeps, Posted
<1>. HIDE DEF m
<1>6. msg' \in [Ids -> Messages \cup {NoMessage}] /\ msg'[t.id] = m /\ \A i \in Ids : MessageGrows(msg[i], msg'[i])
  BY <1>2, <1>4, <1>5, Known DEF MessageGrows, Posted
<1>7. /\ answers' \in SUBSET [id : Ids, body : Bodies, reply : Replies]
      /\ \A x \in answers' :
           msg'[x.id] \in Messages /\ x.body = msg'[x.id].body /\ x.reply = msg'[x.id].reply
  <2>1. CASE Answered(t.id, m)
    BY <1>2, <1>5, <1>6, <2>1, AnsweredMeans
  <2>2. CASE answers' = answers
    <3>1. answers \in SUBSET [id : Ids, body : Bodies, reply : Replies]
      BY DEF IInv, TalkTypeOK
    <3>2. ASSUME NEW x \in answers
          PROVE  msg'[x.id] \in Messages /\ x.body = msg'[x.id].body /\ x.reply = msg'[x.id].reply
      <4>1. x.id \in Ids
        BY <3>1
      <4>2. msg[x.id] \in Messages /\ x.body = msg[x.id].body /\ x.reply = msg[x.id].reply
        BY DEF IInv, RepliesOK
      <4>. QED BY <1>6, <4>1, <4>2, MessageIsPosted DEF MessageGrows
    <3>. QED BY <2>2, <3>1, <3>2
  <2>. QED BY <1>4, <2>1, <2>2
<1>8. RepliesOK'
  BY <1>1, <1>6, <1>7, StartedStay DEF RepliesOK
<1>9. StartsOK' /\ talk' \in [Procs -> Talks \cup {Silent}] /\ started' \in SUBSET (Ids \X Equipment)
  BY <1>1, <1>6, StartsMove DEF IInv, TalkTypeOK
<1>. QED BY <1>1, <1>6, <1>7, <1>8, <1>9, TalkMove, Known

\* A message that proposes something, in the form the properties state it.
LEMMA ProposesMeans ==
  ASSUME IInv, NEW i \in Ids, NEW kind, Proposes(i, kind)
  PROVE  Proposal(msg[i], kind, msg[i].reply.equipment) /\ msg[i].reply.equipment \in Equipment
<1>1. msg[i] \in Messages /\ msg[i].reply \in Replies /\ msg[i].reply.kind = kind
  BY Known DEF Proposes, Posted, Messages
<1>. QED BY <1>1 DEF Proposal, Replies

LEMMA ConfirmStep ==
  ASSUME IInv, NEW p \in Procs, NEW i \in Ids, Confirm(p, i) \/ ConfirmCoverage(p, i)
  PROVE  IInv' /\ Grows
<1>. PICK e : e = msg[i].reply.equipment
  OBVIOUS
<1>1. CASE Confirm(p, i)
  <2>. DEFINE t == [equipment |-> e, context |-> "message"]
  <2>1. Proposal(msg[i], "certificate", e) /\ e \in Equipment
    BY <1>1, ProposesMeans DEF Confirm
  <2>2. t \in Targets /\ t.equipment = e
    BY <2>1 DEF Targets
  <2>3. Ask(p, i, t) /\ UNCHANGED talkVars
    BY <1>1 DEF Confirm
  <2>. HIDE DEF t
  <2>. QED BY <2>1, <2>2, <2>3, BeginStep
<1>2. CASE ConfirmCoverage(p, i)
  <2>. DEFINE t == [pc |-> "start", id |-> i, body |-> msg[i].body, turns |-> msg[i].turns,
                    reply |-> msg[i].reply]
  <2>1. Proposal(msg[i], "coverage", e) /\ msg[i] \in Messages
    BY <1>2, ProposesMeans DEF ConfirmCoverage, Proposal
  <2>2. /\ talk' = [talk EXCEPT ![p] = t] /\ inputs' \in Nat
        /\ UNCHANGED <<rec, world, released, h, crashes, msg, lapsed, started, answers>>
    BY <1>2, Known DEF ConfirmCoverage, Input
  <2>3. \A k \in Ids : MessageGrows(msg[k], msg'[k])
    BY <2>2 DEF MessageGrows
  <2>4. t \in Talks /\ t.id = i /\ t.reply.equipment = e
    BY <2>1 DEF Talks, Messages
  <2>. HIDE DEF t
  <2>5. StartsOK' /\ talk' \in [Procs -> Talks \cup {Silent}]
    BY <2>1, <2>2, <2>3, <2>4, StartsMove DEF StartOK
  <2>6. RepliesOK'
    BY <2>2 DEF IInv, RepliesOK
  <2>. QED BY <2>2, <2>3, <2>5, <2>6, TalkMove, Known DEF IInv, TalkTypeOK
<1>. QED BY <1>1, <1>2

\* A renewal is started for what the message proposed when it was confirmed.
LEMMA StartStep ==
  ASSUME IInv, NEW p \in Procs, StartCoverage(p) PROVE IInv' /\ Grows
<1>. PICK t : t = talk[p]
  OBVIOUS
<1>1. /\ t.pc = "start" /\ talk' = [talk EXCEPT ![p] = Silent]
      /\ started' = started \cup {<<t.id, t.reply.equipment>>}
      /\ UNCHANGED <<rec, world, released, h, inputs, crashes, msg, lapsed, answers>>
  BY DEF StartCoverage, caseVars
<1>2. /\ t \in Talks /\ t # Silent /\ t.id \in Ids /\ t.reply.equipment \in Equipment
      /\ Proposal(msg[t.id], "coverage", t.reply.equipment)
  <2>1. t \in Talks /\ t # Silent
    BY <1>1, TalkKnown, TalksAct
  <2>. QED BY <1>1, <2>1 DEF IInv, StartsOK, StartOK, Talks, Replies
<1>3. \A k \in Ids : MessageGrows(msg[k], msg'[k])
  BY <1>1 DEF MessageGrows
<1>4. started' \in SUBSET (Ids \X Equipment)
  BY <1>1, <1>2 DEF IInv, TalkTypeOK
<1>5. RepliesOK'
  <2>1. \A x \in started' : Proposal(msg'[x[1]], "coverage", x[2])
    BY <1>1, <1>2 DEF IInv, RepliesOK
  <2>. QED BY <1>1, <2>1 DEF IInv, RepliesOK
<1>6. StartsOK' /\ talk' \in [Procs -> Talks \cup {Silent}]
  BY <1>1, <1>3, StartsMove
<1>. QED BY <1>1, <1>3, <1>4, <1>5, <1>6, TalkMove, Known DEF IInv, TalkTypeOK

\* A request by form, a download, and the steps of both.
LEMMA CaseStepKeeps == ASSUME IInv, NEW p \in Procs, CaseStep(p) PROVE IInv' /\ Grows
<1>0. UNCHANGED talkVars
  BY DEF CaseStep
<1>1. ASSUME NEW i \in Ids, NEW e \in Equipment, Ask(p, i, [equipment |-> e, context |-> "form"])
      PROVE  IInv' /\ Grows
  <2>. DEFINE t == [equipment |-> e, context |-> "form"]
  <2>1. t \in Targets /\ t.context # "message" /\ Ask(p, i, t)
    BY <1>1 DEF Targets
  <2>. HIDE DEF t
  <2>. QED BY <1>0, <2>1, BeginStep
<1>2. ASSUME NEW i \in Ids, Download(p, i) PROVE IInv' /\ Grows
  <2>1. rec[i].target \in Targets
    BY <1>2, Known DEF Download, MayDownload, IsReady, Exists, CaseOK, Opened, Cases
  <2>. QED BY <1>0, <1>2, <2>1, BeginStep
<1>3. CASE Crash(p)
  <2>1. h' = [h EXCEPT ![p] = Resting] /\ crashes' \in Nat /\ UNCHANGED <<rec, world, released, inputs>>
    BY <1>3, Known DEF Crash
  <2>. QED BY <1>0, <2>1, Known, QuietMove
<1>. QED BY <1>0, <1>1, <1>2, <1>3, LookStep, EvaluateStep, FetchStep, CreateStep, CommitStep, ReturnStep
         DEF CaseStep, Continues

LEMMA StepIInv == IInv /\ [Next]_vars => IInv' /\ Grows
<1>. SUFFICES ASSUME IInv, [Next]_vars PROVE IInv' /\ Grows
  OBVIOUS
<1>1. CASE UNCHANGED vars
  <2>1. \A i \in Ids : MessageGrows(msg[i], msg'[i])
    BY <1>1 DEF MessageGrows, vars, talkVars
  <2>2. RepliesOK' /\ StartsOK'
    BY <1>1 DEF IInv, RepliesOK, StartsOK, vars, talkVars
  <2>. QED BY <1>1, <2>1, <2>2, TalkMove, Known DEF IInv, TalkTypeOK, vars, talkVars, caseVars
<1>2. ASSUME NEW p \in Procs, TalkStep(p) PROVE IInv' /\ Grows
  BY <1>2, PostStep, InterpretStep, StoreStep, ConfirmStep, StartStep DEF TalkStep
<1>. QED BY <1>1, <1>2, WorldStep, InterpretStep, CaseStepKeeps DEF Next

-----------------------------------------------------------------------------
\* Cases, messages, handlers, histories: every step keeps what ties them.
THEOREM Invariance == Spec => []IInv
<1>1. IInv /\ [Next]_vars => IInv'
  BY StepIInv
<1>. QED BY <1>1, InitIInv, PTL DEF Spec

\* Every variable keeps its type.
THEOREM TypeCorrect == Spec => []TalkTypeOK
<1>1. IInv => TalkTypeOK
  BY DEF IInv
<1>. QED BY <1>1, Invariance, PTL

\* Every PDF that left was on offer, with all checks passing, at a moment between
\* the investigation after its bytes were read and its return, however the
\* registry changed.
THEOREM CurrentFacts == Spec => []ReleasedOnCurrentFacts
<1>1. IInv => ReleasedOnCurrentFacts
  BY DEF IInv, ReturnOK, Shown, ReleasedOnCurrentFacts
<1>. QED BY <1>1, Invariance, PTL

\* One identifier, one message, one reply.
THEOREM ReplyIsOne == Spec => []OneReply
<1>1. IInv => OneReply
  <2>. SUFFICES ASSUME IInv, NEW x \in answers, NEW y \in answers, x.id = y.id PROVE x = y
    BY DEF OneReply
  <2>1. x \in [id : Ids, body : Bodies, reply : Replies] /\ y \in [id : Ids, body : Bodies, reply : Replies]
    BY DEF IInv, TalkTypeOK
  <2>2. x.body = y.body /\ x.reply = y.reply
    BY DEF IInv, RepliesOK
  <2>. QED BY <2>1, <2>2
<1>. QED BY <1>1, Invariance, PTL

\* No commit rewrites the audit or the target of a case, and a held case stands.
THEOREM HistoryKept == Spec => CaseHistoryKept
<1>1. IInv /\ [Next]_vars =>
        [\A i \in Ids :
           Exists(rec[i]) =>
             /\ Exists(rec'[i])
             /\ IsPrefix(rec[i].events, rec'[i].events)
             /\ rec'[i].target = rec[i].target
             /\ IsHeld(rec[i]) => rec'[i] = rec[i]]_vars
  <2>. SUFFICES ASSUME IInv, [Next]_vars, NEW i \in Ids, Exists(rec[i])
                PROVE  /\ Exists(rec'[i]) /\ IsPrefix(rec[i].events, rec'[i].events)
                       /\ rec'[i].target = rec[i].target
                       /\ IsHeld(rec[i]) => rec'[i] = rec[i]
    OBVIOUS
  <2>1. CaseGrows(rec[i], rec'[i])
    BY StepIInv DEF Grows
  <2>2. CASE rec'[i] = rec[i]
    <3>1. rec[i].events \in Seq(AuditEvents)
      BY Known DEF CaseOK, Exists, Opened, Cases
    <3>2. IsPrefix(rec[i].events, rec[i].events)
      BY <3>1 DEF IsPrefix
    <3>. QED BY <2>2, <3>2
  <2>3. CASE rec'[i] # rec[i]
    BY <2>1, <2>3, OpenedExists DEF CaseGrows, Exists, IsReady, IsHeld
  <2>. QED BY <2>2, <2>3
<1>. QED BY <1>1, Invariance, PTL DEF Spec, CaseHistoryKept


-----------------------------------------------------------------------------
(* One certificate for a request, and its downloads counted: the second    *)
(* layer, over IInv.                                                       *)

\* The handlers that announced a download of i and did not return its PDF yet.
Returning(i) == {p \in Procs : h[p].pc = "return" /\ h[p].id = i}

\* The download x is about the certificate a.
Same(x, a) ==
  /\ x.snap.decision.artifact = a
  /\ x.decision.outcome = "ready" => x.decision.artifact = a

\* The case of i, its downloads and the PDFs that left for it are about a.
Certificate(i, a) ==
  /\ IsReady(rec[i]) => rec[i].decision.artifact = a
  /\ \A p \in Procs : h[p] # Resting /\ h[p].id = i /\ h[p].op = "download" => Same(h[p], a)
  /\ \A k \in ReleasedFor(i) : released[k].artifact = a

Counted(i) ==
  /\ IsFiniteSet(Returning(i))
  /\ Cardinality(ReleasedFor(i)) + Cardinality(Returning(i)) <= Cardinality(Prepared(rec[i].events))

AuditInv ==
  \A i \in Ids :
    /\ Counted(i)
    /\ \E a : Certificate(i, a)
    /\ ~Exists(rec[i]) => ReleasedFor(i) = {}

LEMMA SomeElements ==
  ASSUME NEW s, DOMAIN s = 1..Len(s), Len(s) \in Nat, NEW T, T \subseteq DOMAIN s
  PROVE  IsFiniteSet(T) /\ Cardinality(T) \in Nat
<1>1. IsFiniteSet(1..Len(s))
  BY FS_Interval
<1>. QED BY <1>1, FS_Subset, FS_CardinalityType

\* What a commit of decision d adds to the announcements of an audit.
LEMMA CommitCounts ==
  ASSUME NEW a \in Seq(AuditEvents), NEW d
  PROVE  Cardinality(Prepared(a \o Outcome(d, "download_prepared")))
           = Cardinality(Prepared(a)) + (IF d.outcome = "ready" THEN 1 ELSE 0)
<1>. DEFINE n == Len(a)
            rest == IF d.outcome = "ready" THEN <<"download_prepared">> ELSE <<"held", "case_created">>
            b == a \o (<<"policy_checked">> \o rest)
<1>1. n \in Nat /\ DOMAIN a = 1..n
  OBVIOUS
<1>2. b = a \o Outcome(d, "download_prepared")
  BY DEF Outcome
<1>3. \A k \in 1..n : k \in DOMAIN b /\ b[k] = a[k]
  BY <1>1
<1>4. IsFiniteSet(Prepared(a)) /\ Prepared(a) \subseteq 1..n
  BY <1>1, SomeElements DEF Prepared
<1>5. CASE d.outcome = "ready"
  <2>1. b = a \o <<"policy_checked", "download_prepared">>
    BY <1>5
  <2>2. DOMAIN b = 1..n + 2 /\ b[n + 1] = "policy_checked" /\ b[n + 2] = "download_prepared"
    BY <1>1, <2>1
  <2>. HIDE DEF b
  <2>3. Prepared(b) = Prepared(a) \cup {n + 2}
    <3>1. \A k \in 1..n + 2 : k \in 1..n \/ k = n + 1 \/ k = n + 2
      BY <1>1
    <3>. QED BY <1>1, <1>3, <2>2, <3>1 DEF Prepared
  <2>4. n + 2 \notin Prepared(a)
    BY <1>1, <1>4
  <2>. QED BY <1>2, <1>4, <1>5, <2>3, <2>4, FS_AddElement
<1>6. CASE d.outcome # "ready"
  <2>1. b = a \o <<"policy_checked", "held", "case_created">>
    BY <1>6
  <2>2. DOMAIN b = 1..n + 3 /\ b[n + 1] = "policy_checked" /\ b[n + 2] = "held" /\ b[n + 3] = "case_created"
    BY <1>1, <2>1
  <2>. HIDE DEF b
  <2>3. Prepared(b) = Prepared(a)
    <3>1. \A k \in 1..n + 3 : k \in 1..n \/ k \in {n + 1, n + 2, n + 3}
      BY <1>1
    <3>. QED BY <1>1, <1>3, <2>2, <3>1 DEF Prepared
  <2>4. Cardinality(Prepared(a)) \in Nat
    BY <1>4, FS_CardinalityType
  <2>. QED BY <1>2, <1>6, <2>3, <2>4
<1>. QED BY <1>5, <1>6

\* A request announces no download.
LEMMA OpeningCounts ==
  ASSUME NEW d PROVE Prepared(<<"requested">> \o Outcome(d, "release_ready")) = {}
<1>. DEFINE Others == AuditEvents \ {"download_prepared"}
            rest == IF d.outcome = "ready" THEN <<"release_ready">> ELSE <<"held", "case_created">>
            b == <<"requested">> \o (<<"policy_checked">> \o rest)
<1>1. <<"requested">> \in Seq(Others) /\ <<"policy_checked">> \in Seq(Others)
  BY DEF AuditEvents
<1>2. <<"release_ready">> \in Seq(Others) /\ <<"held", "case_created">> \in Seq(Others)
  BY DEF AuditEvents
<1>3. rest \in Seq(Others)
  BY <1>2
<1>4. b = <<"requested">> \o Outcome(d, "release_ready")
  BY DEF Outcome
<1>5. b \in Seq(Others)
  <2>. HIDE DEF rest, Others
  <2>. QED BY <1>1, <1>3
<1>. HIDE DEF b
<1>6. \A k \in DOMAIN b : b[k] # "download_prepared"
  BY <1>5
<1>. QED BY <1>4, <1>6 DEF Prepared

LEMMA ReleasedFinite ==
  ASSUME IInv
  PROVE  /\ released \in Seq(Returns) /\ DOMAIN released = 1..Len(released) /\ Len(released) \in Nat
         /\ \A i \in Ids : IsFiniteSet(ReleasedFor(i)) /\ Cardinality(ReleasedFor(i)) \in Nat
<1>1. released \in Seq(Returns) /\ DOMAIN released = 1..Len(released) /\ Len(released) \in Nat
  BY DEF IInv, TalkTypeOK, TypeOK
<1>. QED BY <1>1, SomeElements DEF ReleasedFor

LEMMA PreparedFinite ==
  ASSUME IInv, NEW i \in Ids
  PROVE  Cardinality(Prepared(rec[i].events)) \in Nat
<1>1. rec[i].events \in Seq(AuditEvents)
  <2>1. rec[i] \in Cases \/ rec[i] = NoCase
    BY Known
  <2>2. NoCase.events \in Seq(AuditEvents)
    BY DEF NoCase
  <2>. QED BY <2>1, <2>2 DEF Cases
<1>2. DOMAIN rec[i].events = 1..Len(rec[i].events) /\ Len(rec[i].events) \in Nat
  BY <1>1
<1>. QED BY <1>2, SomeElements DEF Prepared

\* What a handler that goes on without announcing or returning anything is about.
Quiet(x) ==
  \/ x = Resting
  \/ /\ x.pc # "return"
     /\ x.op = "download" => \A a : Certificate(x.id, a) => Same(x, a)

\* The steps seen from a case: nothing happens to any, or one is opened or
\* advanced, or its PDF is returned.
QuietStep ==
  /\ UNCHANGED <<rec, released>>
  /\ h' = h \/ \E p \in Procs : \E x : Quiet(x) /\ h' = [h EXCEPT ![p] = x]
OpenStep(p)    == h[p].pc = "create" /\ Create(p) /\ ~Exists(rec[h[p].id])
AdvanceStep(p) == h[p].pc = "commit" /\ Commit(p) /\ Advances(h[p])
ReturnStepOf(p) == h[p].pc = "return" /\ Return(p)

LEMMA BeginQuiet ==
  ASSUME NEW p \in Procs, NEW i \in Ids, NEW t, Ask(p, i, t) \/ Download(p, i)
  PROVE  QuietStep
<1>1. CASE Ask(p, i, t)
  <2>. DEFINE x == [pc |-> "look", id |-> i, op |-> "request", target |-> t, snap |-> NoCase,
                    begin |-> 0, read |-> 0, bytes |-> NoArtifact, decision |-> OnHold]
  <2>1. Quiet(x)
    BY DEF Quiet
  <2>2. h' = [h EXCEPT ![p] = x] /\ UNCHANGED <<rec, released>>
    BY <1>1 DEF Ask, Begin
  <2>. HIDE DEF x
  <2>. QED BY <2>1, <2>2 DEF QuietStep
<1>2. CASE Download(p, i)
  <2>. DEFINE x == [pc |-> "look", id |-> i, op |-> "download", target |-> rec[i].target, snap |-> rec[i],
                    begin |-> 0, read |-> 0, bytes |-> NoArtifact, decision |-> OnHold]
  <2>1. IsReady(rec[i]) /\ h' = [h EXCEPT ![p] = x] /\ UNCHANGED <<rec, released>>
    BY <1>2 DEF Download, MayDownload, Begin
  <2>2. x.pc = "look" /\ x.id = i /\ x.snap = rec[i] /\ x.decision = OnHold
    OBVIOUS
  <2>. HIDE DEF x
  <2>3. Quiet(x)
    BY <2>1, <2>2, HoldIsDecision DEF Quiet, Certificate, Same
  <2>. QED BY <2>1, <2>3 DEF QuietStep
<1>. QED BY <1>1, <1>2

LEMMA EvaluateQuiet ==
  ASSUME IInv, NEW p \in Procs, Look(p) \/ Evaluate(p) \/ Fetch(p)
  PROVE  QuietStep
<1>. PICK s : s = h[p]
  OBVIOUS
<1>1. s.pc \in {"look", "investigate", "fetch"} /\ UNCHANGED <<rec, released>>
  BY DEF Look, Evaluate, Fetch
<1>2. s \in Handlers /\ s # Resting
  BY <1>1, HandlerKnown, HandlersAct
<1>3. \A a : s.op = "download" /\ Certificate(s.id, a) => Same(s, a)
  BY <1>2 DEF Certificate
<1>4. PICK x : h' = [h EXCEPT ![p] = x] /\ Quiet(x)
  <2>1. CASE Evaluate(p)
    <3>1. PICK d \in Decisions :
            h' = [h EXCEPT ![p] = [s EXCEPT !.decision = Decided(s, d), !.pc = Follows(s, Decided(s, d))]]
      BY <2>1 DEF Evaluate
    <3>. DEFINE x == [s EXCEPT !.decision = Decided(s, d), !.pc = Follows(s, Decided(s, d))]
    <3>2. /\ x.decision = Decided(s, d) /\ x.pc = Follows(s, Decided(s, d)) /\ x.id = s.id
          /\ x.op = s.op /\ x.snap = s.snap
      BY <1>2 DEF Handlers
    <3>3. h' = [h EXCEPT ![p] = x]
      BY <3>1
    <3>. HIDE DEF x
    <3>4. x.pc # "return"
      BY <3>2 DEF Follows
    <3>5. ASSUME s.op = "download", NEW a, Certificate(s.id, a) PROVE Same(x, a)
      BY <1>3, <3>2, <3>5, HoldIsDecision DEF Same, Decided
    <3>6. Quiet(x)
      BY <3>2, <3>4, <3>5 DEF Quiet
    <3>. QED BY <3>3, <3>6
  <2>2. CASE Fetch(p)
    <3>. DEFINE x == [s EXCEPT !.pc = "look", !.read = Now, !.bytes = s.decision.artifact]
                y == [s EXCEPT !.pc = "commit", !.decision = OnHold]
    <3>1. h' = [h EXCEPT ![p] = x] \/ h' = [h EXCEPT ![p] = y]
      BY <2>2 DEF Fetch
    <3>2. /\ x.pc = "look" /\ x.id = s.id /\ x.op = s.op /\ x.snap = s.snap
          /\ x.decision = s.decision
          /\ y.pc = "commit" /\ y.id = s.id /\ y.op = s.op /\ y.snap = s.snap
          /\ y.decision = OnHold
      BY <1>2 DEF Handlers
    <3>. HIDE DEF x, y
    <3>3. Quiet(x) /\ Quiet(y)
      BY <1>3, <3>2, HoldIsDecision DEF Quiet, Same
    <3>. QED BY <3>1, <3>3
  <2>3. CASE Look(p)
    <3>. DEFINE x == [s EXCEPT !.pc = "investigate", !.begin = Now]
    <3>1. h' = [h EXCEPT ![p] = x]
      BY <2>3 DEF Look
    <3>2. /\ x.pc = "investigate" /\ x.id = s.id /\ x.op = s.op /\ x.snap = s.snap
          /\ x.decision = s.decision
      BY <1>2 DEF Handlers
    <3>. HIDE DEF x
    <3>3. Quiet(x)
      BY <1>3, <3>2 DEF Quiet, Same
    <3>. QED BY <3>1, <3>3
  <2>. QED BY <2>1, <2>2, <2>3
<1>. QED BY <1>1, <1>4 DEF QuietStep

LEMMA RestQuiet ==
  ASSUME NEW p \in Procs, h' = [h EXCEPT ![p] = Resting], UNCHANGED <<rec, released>>
  PROVE  QuietStep
BY DEF QuietStep, Quiet

LEMMA StepKinds ==
  ASSUME IInv, [Next]_vars
  PROVE  QuietStep \/ \E p \in Procs : OpenStep(p) \/ AdvanceStep(p) \/ ReturnStepOf(p)
<1>1. CASE UNCHANGED vars
  BY <1>1 DEF vars, caseVars, QuietStep
<1>2. CASE RegistryChanges \/ ValidityChanges \/ \E i \in Ids : Lapse(i)
  BY <1>2 DEF RegistryChanges, ValidityChanges, Lapse, caseVars, QuietStep
<1>3. ASSUME NEW p \in Procs, CaseStep(p)
      PROVE  QuietStep \/ OpenStep(p) \/ AdvanceStep(p) \/ ReturnStepOf(p)
  <2>1. CASE Create(p)
    <3>1. ~OpenStep(p) => h' = [h EXCEPT ![p] = Resting] /\ UNCHANGED <<rec, released>>
      BY <2>1 DEF Create, OpenStep
    <3>. QED BY <3>1, RestQuiet
  <2>2. CASE Commit(p)
    <3>1. ~AdvanceStep(p) => h' = [h EXCEPT ![p] = Resting] /\ UNCHANGED <<rec, released>>
      BY <2>2 DEF Commit, AdvanceStep
    <3>. QED BY <3>1, RestQuiet
  <2>3. CASE Return(p)
    BY <2>3 DEF Return, ReturnStepOf
  <2>4. CASE Crash(p)
    BY <2>4, RestQuiet DEF Crash
  <2>. QED BY <1>3, <2>1, <2>2, <2>3, <2>4, BeginQuiet, EvaluateQuiet DEF CaseStep, Continues
<1>4. ASSUME NEW p \in Procs, TalkStep(p) PROVE QuietStep
  <2>1. CASE \E i \in Ids : Confirm(p, i)
    BY <2>1, BeginQuiet DEF Confirm
  <2>2. CASE ~\E i \in Ids : Confirm(p, i)
    <3>1. UNCHANGED <<rec, released, h>>
      BY <1>4, <2>2 DEF TalkStep, PostAgain, Post, Interpret, StoreMessage, TalkCrash, ConfirmCoverage,
           StartCoverage, caseVars
    <3>. QED BY <3>1 DEF QuietStep
  <2>. QED BY <2>1, <2>2
<1>. QED BY <1>1, <1>2, <1>3, <1>4 DEF Next

-----------------------------------------------------------------------------
(* The second layer is kept.                                               *)

\* A case of which nothing changes but the handler p, which does not join those
\* about to return.
LEMMA OthersKeep ==
  ASSUME IInv, NEW i \in Ids, Counted(i), rec'[i] = rec[i], ReleasedFor(i)' = ReleasedFor(i),
         Returning(i)' \subseteq Returning(i)
  PROVE  Counted(i)'
<1>1. IsFiniteSet(Returning(i)) /\ Cardinality(Returning(i)) \in Nat
  BY FS_CardinalityType DEF Counted
<1>2. /\ IsFiniteSet(Returning(i)') /\ Cardinality(Returning(i)') \in Nat
      /\ Cardinality(Returning(i)') <= Cardinality(Returning(i))
  BY <1>1, FS_Subset, FS_CardinalityType
<1>3. Cardinality(ReleasedFor(i)) \in Nat /\ Cardinality(Prepared(rec[i].events)) \in Nat
  BY ReleasedFinite, PreparedFinite
<1>. QED BY <1>1, <1>2, <1>3 DEF Counted

LEMMA QuietKeeps ==
  ASSUME IInv, AuditInv, QuietStep
  PROVE  AuditInv'
<1>1. h \in [Procs -> Handlers \cup {Resting}]
  BY Known
<1>2. UNCHANGED <<rec, released>>
  BY DEF QuietStep
<1>3. \A q \in Procs : h'[q] = h[q] \/ Quiet(h'[q])
  BY <1>1 DEF QuietStep
<1>4. ASSUME NEW i \in Ids
      PROVE  Counted(i)' /\ (\E a : Certificate(i, a))' /\ (~Exists(rec[i]) => ReleasedFor(i) = {})'
  <2>1. ReleasedFor(i)' = ReleasedFor(i)
    BY <1>2 DEF ReleasedFor
  <2>2. Returning(i)' \subseteq Returning(i)
    BY <1>3 DEF Returning, Quiet, Resting
  <2>3. Counted(i)'
    BY <1>2, <2>1, <2>2, OthersKeep DEF AuditInv
  <2>4. PICK a : Certificate(i, a)
    BY DEF AuditInv
  <2>5. \A q \in Procs : h'[q] # Resting /\ h'[q].id = i /\ h'[q].op = "download" => Same(h'[q], a)
    BY <1>3, <2>4 DEF Certificate, Quiet
  <2>6. Certificate(i, a)'
    BY <1>2, <2>1, <2>4, <2>5 DEF Certificate
  <2>. QED BY <1>2, <2>1, <2>3, <2>6 DEF AuditInv
<1>. QED BY <1>4 DEF AuditInv

\* What opening and advancing store.
LEMMA OpenMeans ==
  ASSUME IInv, NEW p \in Procs, OpenStep(p), NEW s, s = h[p]
  PROVE  /\ s.id \in Ids /\ rec[s.id] = NoCase /\ h' = [h EXCEPT ![p] = Resting] /\ released' = released
         /\ \E c : /\ rec' = [rec EXCEPT ![s.id] = c]
                   /\ Exists(c) /\ c.decision = s.decision /\ c.decision \in Decisions
                   /\ Prepared(c.events) = {}
<1>1. /\ s.pc = "create" /\ s \in Handlers /\ s.id \in Ids /\ rec[s.id] = NoCase
  BY HandlerKnown DEF OpenStep, Exists
<1>. DEFINE events == <<"requested">> \o Outcome(s.decision, "release_ready")
            c == [target |-> s.target, decision |-> s.decision, events |-> events]
<1>2. rec' = [rec EXCEPT ![s.id] = c] /\ h' = [h EXCEPT ![p] = Resting] /\ released' = released
  BY DEF OpenStep, Create
<1>3. Prepared(events) = {}
  BY OpeningCounts
<1>4. c.decision = s.decision /\ c.events = events /\ c.decision \in Decisions
  BY <1>1 DEF Handlers
<1>5. Exists(c)
  <2>1. "requested" \in AuditEvents /\ "release_ready" \in AuditEvents
    BY DEF AuditEvents
  <2>2. Outcome(s.decision, "release_ready") \in Seq(AuditEvents) /\ Len(Outcome(s.decision, "release_ready")) > 0
    BY <2>1, OutcomeMeans
  <2>3. <<"requested">> \in Seq(AuditEvents)
    BY <2>1
  <2>4. Len(events) > 0
    BY <2>2, <2>3, LongerAudit
  <2>5. events # <<>>
    BY <2>4
  <2>. HIDE DEF events
  <2>. QED BY <2>5 DEF Exists, NoCase
<1>. HIDE DEF c, events
<1>. QED BY <1>1, <1>2, <1>3, <1>4, <1>5

LEMMA AdvanceMeans ==
  ASSUME IInv, [Next]_vars, NEW p \in Procs, AdvanceStep(p), NEW s, s = h[p]
  PROVE  /\ s \in Handlers /\ s.pc = "commit" /\ s.op = "download" /\ s.id \in Ids
         /\ IsReady(rec[s.id]) /\ s.snap = rec[s.id] /\ released' = released
         /\ s.decision \in Decisions
         /\ h' = [h EXCEPT ![p] = IF s.decision.outcome = "ready" THEN [s EXCEPT !.pc = "return"]
                                  ELSE Resting]
         /\ \E c : /\ rec' = [rec EXCEPT ![s.id] = c]
                   /\ Exists(c) /\ c.decision = s.decision
                   /\ Cardinality(Prepared(c.events)) =
                        Cardinality(Prepared(rec[s.id].events))
                          + (IF s.decision.outcome = "ready" THEN 1 ELSE 0)
<1>1. /\ s.pc = "commit" /\ s \in Handlers /\ s.id \in Ids /\ s.op = "download"
      /\ HandlerOK(s, rec[s.id], msg[s.id], world)
  BY HandlerKnown DEF AdvanceStep, HandlerOK
<1>2. /\ Opened(s.snap) /\ IsReady(s.snap) /\ s.snap = rec[s.id]
      /\ s.snap \in Cases /\ s.snap.events \in Seq(AuditEvents) /\ s.decision \in Decisions
  BY <1>1 DEF HandlerOK, AdvanceStep, Advances, Opened, Cases, Handlers
<1>. DEFINE more == Outcome(s.decision, "download_prepared")
            c == [s.snap EXCEPT !.decision = s.decision, !.events = @ \o more]
<1>3. /\ rec' = [rec EXCEPT ![s.id] = c] /\ released' = released
      /\ h' = [h EXCEPT ![p] = IF s.decision.outcome = "ready" THEN [s EXCEPT !.pc = "return"]
                               ELSE Resting]
  BY DEF AdvanceStep, Commit
<1>4. Cardinality(Prepared(s.snap.events \o more))
        = Cardinality(Prepared(s.snap.events)) + (IF s.decision.outcome = "ready" THEN 1 ELSE 0)
  BY <1>2, CommitCounts
<1>. HIDE DEF more
<1>5. c.decision = s.decision /\ c.events = s.snap.events \o more
  BY <1>2 DEF Cases
<1>6. rec'[s.id] = c
  BY <1>1, <1>3, Known
<1>7. Exists(c)
  <2>1. CaseGrows(rec[s.id], c)
    BY <1>1, <1>6, StepIInv DEF Grows
  <2>. QED BY <1>2, <2>1, OpenedExists DEF CaseGrows, IsReady
<1>. HIDE DEF c
<1>. QED BY <1>1, <1>2, <1>3, <1>4, <1>5, <1>7

\* The case of i after a step on another case by the handler p.
LEMMA ApartKeeps ==
  ASSUME IInv, AuditInv, NEW p \in Procs, NEW x, h' = [h EXCEPT ![p] = x],
         NEW i \in Ids, x = Resting \/ x.id # i,
         rec'[i] = rec[i], ReleasedFor(i)' = ReleasedFor(i),
         \A k \in ReleasedFor(i) : released'[k] = released[k]
  PROVE  /\ Counted(i)' /\ (\E a : Certificate(i, a))'
         /\ (~Exists(rec[i]) => ReleasedFor(i) = {})'
<1>1. \A q \in Procs : h'[q] = h[q] \/ h'[q] = x
  BY Known
<1>2. Returning(i)' \subseteq Returning(i)
  BY <1>1 DEF Returning, Resting
<1>3. Counted(i)'
  BY <1>2, OthersKeep DEF AuditInv
<1>4. PICK a : Certificate(i, a)
  BY DEF AuditInv
<1>5. \A q \in Procs : h'[q] # Resting /\ h'[q].id = i /\ h'[q].op = "download" => Same(h'[q], a)
  BY <1>1, <1>4 DEF Certificate
<1>6. Certificate(i, a)'
  BY <1>4, <1>5 DEF Certificate
<1>. QED BY <1>3, <1>6 DEF AuditInv

LEMMA OpenKeeps ==
  ASSUME IInv, AuditInv, NEW p \in Procs, OpenStep(p)
  PROVE  AuditInv'
<1>. PICK s : s = h[p]
  OBVIOUS
<1>1. /\ s.id \in Ids /\ rec[s.id] = NoCase /\ h' = [h EXCEPT ![p] = Resting] /\ released' = released
  BY OpenMeans
<1>2. PICK c : /\ rec' = [rec EXCEPT ![s.id] = c]
               /\ Exists(c) /\ c.decision = s.decision /\ Prepared(c.events) = {}
  BY OpenMeans
<1>. PICK i : i = s.id
  OBVIOUS
<1>3. rec'[i] = c /\ \A k \in Ids : k # i => rec'[k] = rec[k]
  BY <1>1, <1>2, Known
<1>4. \A k \in Ids : ReleasedFor(k)' = ReleasedFor(k)
  BY <1>1 DEF ReleasedFor
<1>5. ASSUME NEW q \in Procs, h[q] # Resting, h[q].id = i PROVE h[q].op # "download" /\ h[q].pc # "return"
  <2>1. HandlerOK(h[q], rec[i], msg[i], world)
    BY <1>5 DEF IInv, HandlersOK
  <2>2. ~Opened(rec[i])
    BY <1>1, OpenedExists DEF Exists
  <2>. QED BY <2>1, <2>2 DEF HandlerOK
<1>6. \A q \in Procs : h'[q] = Resting \/ h'[q] = h[q]
  BY <1>1, Known
<1>7. ReleasedFor(i)' = {}
  BY <1>1, <1>4 DEF AuditInv, Exists
<1>8. Returning(i)' = {}
  BY <1>5, <1>6 DEF Returning, Resting
<1>9. Counted(i)'
  BY <1>2, <1>3, <1>7, <1>8, FS_EmptySet DEF Counted
<1>10. Certificate(i, s.decision.artifact)'
  BY <1>2, <1>3, <1>5, <1>6, <1>7 DEF Certificate
<1>11. ASSUME NEW k \in Ids, k # i
       PROVE  /\ Counted(k)' /\ (\E a : Certificate(k, a))'
              /\ (~Exists(rec[k]) => ReleasedFor(k) = {})'
  BY <1>1, <1>3, <1>4, <1>11, ApartKeeps
<1>. QED BY <1>7, <1>9, <1>10, <1>11 DEF AuditInv

LEMMA AdvanceKeeps ==
  ASSUME IInv, AuditInv, [Next]_vars, NEW p \in Procs, AdvanceStep(p)
  PROVE  AuditInv'
<1>. PICK s : s = h[p]
  OBVIOUS
<1>. DEFINE x == IF s.decision.outcome = "ready" THEN [s EXCEPT !.pc = "return"] ELSE Resting
            more == IF s.decision.outcome = "ready" THEN 1 ELSE 0
<1>1. /\ s \in Handlers /\ s.pc = "commit" /\ s.op = "download" /\ s.id \in Ids
      /\ IsReady(rec[s.id]) /\ s.snap = rec[s.id] /\ released' = released
      /\ h' = [h EXCEPT ![p] = x]
  BY AdvanceMeans
<1>2. PICK c : /\ rec' = [rec EXCEPT ![s.id] = c]
               /\ Exists(c) /\ c.decision = s.decision
               /\ Cardinality(Prepared(c.events)) = Cardinality(Prepared(rec[s.id].events)) + more
  BY AdvanceMeans
<1>. PICK i : i = s.id
  OBVIOUS
<1>3. rec'[i] = c /\ \A k \in Ids : k # i => rec'[k] = rec[k]
  BY <1>1, <1>2, Known
<1>4. \A k \in Ids : ReleasedFor(k)' = ReleasedFor(k)
  BY <1>1 DEF ReleasedFor
<1>5. /\ x = Resting \/ (x.pc = "return" /\ x.id = i /\ x.op = "download" /\ x.snap = s.snap
                         /\ x.decision = s.decision)
      /\ s.decision.outcome # "ready" => x = Resting
  BY <1>1 DEF Handlers
<1>. HIDE DEF x
<1>6. h'[p] = x /\ \A q \in Procs : q # p => h'[q] = h[q]
  BY <1>1, Known
<1>7. PICK a : Certificate(i, a)
  BY <1>1 DEF AuditInv
<1>8. Same(s, a)
  BY <1>1, <1>7, HandlersAct DEF Certificate
<1>9. Certificate(i, a)'
  <2>1. \A q \in Procs : h'[q] # Resting /\ h'[q].id = i /\ h'[q].op = "download" => Same(h'[q], a)
    BY <1>5, <1>6, <1>7, <1>8 DEF Certificate, Same
  <2>2. IsReady(c) => c.decision.artifact = a
    BY <1>2, <1>8 DEF IsReady, Same
  <2>3. \A k \in ReleasedFor(i)' : released'[k].artifact = a
    BY <1>1, <1>4, <1>7 DEF Certificate
  <2>. QED BY <1>3, <2>1, <2>2, <2>3 DEF Certificate
<1>10. Counted(i)'
  <2>1. /\ IsFiniteSet(Returning(i)) /\ Cardinality(Returning(i)) \in Nat
        /\ Cardinality(ReleasedFor(i)) + Cardinality(Returning(i)) <= Cardinality(Prepared(rec[i].events))
        /\ Cardinality(ReleasedFor(i)) \in Nat /\ Cardinality(Prepared(rec[i].events)) \in Nat
    BY <1>1, FS_CardinalityType, ReleasedFinite, PreparedFinite DEF AuditInv, Counted
  <2>2. p \notin Returning(i)
    BY <1>1 DEF Returning
  <2>3. Returning(i)' = Returning(i) \/ (more = 1 /\ Returning(i)' = Returning(i) \cup {p})
    <3>1. CASE s.decision.outcome = "ready"
      <4>1. Returning(i)' \subseteq Returning(i) \cup {p} /\ Returning(i) \subseteq Returning(i)'
        BY <1>6, <2>2 DEF Returning
      <4>. QED BY <3>1, <4>1
    <3>2. CASE s.decision.outcome # "ready"
      BY <1>5, <1>6, <2>2, <3>2 DEF Returning, Resting
    <3>. QED BY <3>1, <3>2
  <2>4. more \in {0, 1}
    OBVIOUS
  <2>. HIDE DEF more
  <2>5. /\ IsFiniteSet(Returning(i)') /\ Cardinality(Returning(i)') \in Nat
        /\ Cardinality(Returning(i)') <= Cardinality(Returning(i)) + more
    <3>1. /\ IsFiniteSet(Returning(i) \cup {p})
          /\ Cardinality(Returning(i) \cup {p}) = Cardinality(Returning(i)) + 1
      BY <2>1, <2>2, FS_AddElement
    <3>2. CASE Returning(i)' = Returning(i)
      BY <2>1, <2>4, <3>2
    <3>3. CASE more = 1 /\ Returning(i)' = Returning(i) \cup {p}
      <4>1. IsFiniteSet(Returning(i)') /\ Cardinality(Returning(i)') = Cardinality(Returning(i)) + 1
        BY <3>1, <3>3
      <4>. QED BY <2>1, <3>3, <4>1
    <3>. QED BY <2>3, <3>2, <3>3
  <2>. QED BY <1>1, <1>2, <1>3, <1>4, <2>1, <2>4, <2>5 DEF Counted
<1>11. ASSUME NEW k \in Ids, k # i
       PROVE  /\ Counted(k)' /\ (\E b : Certificate(k, b))'
              /\ (~Exists(rec[k]) => ReleasedFor(k) = {})'
  BY <1>1, <1>3, <1>4, <1>5, <1>11, ApartKeeps
<1>. QED BY <1>2, <1>3, <1>9, <1>10, <1>11 DEF AuditInv

LEMMA ReturnKeeps ==
  ASSUME IInv, AuditInv, NEW p \in Procs, ReturnStepOf(p)
  PROVE  AuditInv'
<1>. PICK s : s = h[p]
  OBVIOUS
<1>. PICK n : n = Len(released)
  OBVIOUS
<1>1. PICK r : r.id = s.id /\ r.artifact = s.bytes /\ released' = Append(released, r)
  <2>. DEFINE r == [id |-> s.id, artifact |-> s.bytes, read |-> s.read, begin |-> s.begin, at |-> Now]
  <2>1. r.id = s.id /\ r.artifact = s.bytes
    OBVIOUS
  <2>2. released' = Append(released, r)
    BY DEF ReturnStepOf, Return
  <2>. HIDE DEF r
  <2>. QED BY <2>1, <2>2
<1>2. /\ s.pc = "return" /\ h' = [h EXCEPT ![p] = Resting] /\ rec' = rec
  BY DEF ReturnStepOf, Return
<1>3. /\ s \in Handlers /\ s.id \in Ids /\ s.op = "download" /\ s.decision.outcome = "ready"
      /\ s.bytes = s.decision.artifact /\ Opened(rec[s.id])
  BY <1>2, HandlerKnown DEF HandlerOK
<1>. PICK i : i = s.id
  OBVIOUS
<1>4. /\ n \in Nat /\ DOMAIN released = 1..n /\ DOMAIN released' = 1..n + 1
      /\ released'[n + 1] = r /\ \A k \in 1..n : released'[k] = released[k]
  BY <1>1, ReleasedFinite
<1>5. ReleasedFor(i)' = ReleasedFor(i) \cup {n + 1} /\ n + 1 \notin ReleasedFor(i)
  BY <1>1, <1>4 DEF ReleasedFor
<1>6. \A k \in Ids : k # i => ReleasedFor(k)' = ReleasedFor(k)
  BY <1>1, <1>4 DEF ReleasedFor
<1>7. \A q \in Procs : h'[q] = Resting \/ h'[q] = h[q]
  BY <1>2, Known
<1>8. h'[p] = Resting /\ \A q \in Procs : q # p => h'[q] = h[q]
  BY <1>2, Known
<1>9. p \in Returning(i) /\ Returning(i)' = Returning(i) \ {p}
  BY <1>2, <1>8 DEF Returning, Resting
<1>10. Counted(i)'
  <2>1. /\ IsFiniteSet(Returning(i)) /\ Cardinality(Returning(i)) \in Nat
        /\ Cardinality(ReleasedFor(i)) + Cardinality(Returning(i)) <= Cardinality(Prepared(rec[i].events))
        /\ IsFiniteSet(ReleasedFor(i))
        /\ Cardinality(ReleasedFor(i)) \in Nat /\ Cardinality(Prepared(rec[i].events)) \in Nat
    BY <1>3, FS_CardinalityType, ReleasedFinite, PreparedFinite DEF AuditInv, Counted
  <2>2. /\ IsFiniteSet(Returning(i)') /\ Cardinality(Returning(i)') = Cardinality(Returning(i)) - 1
    BY <1>9, <2>1, FS_RemoveElement
  <2>3. Cardinality(ReleasedFor(i)') = Cardinality(ReleasedFor(i)) + 1
    <3>1. Cardinality(ReleasedFor(i) \cup {n + 1}) = Cardinality(ReleasedFor(i)) + 1
      BY <1>5, <2>1, FS_AddElement
    <3>. QED BY <1>5, <3>1
  <2>. QED BY <1>2, <2>1, <2>2, <2>3 DEF Counted
<1>11. PICK a : Certificate(i, a)
  BY <1>3 DEF AuditInv
<1>12. r.artifact = a
  BY <1>1, <1>3, <1>11, HandlersAct DEF Certificate, Same
<1>13. Certificate(i, a)'
  <2>1. \A k \in ReleasedFor(i)' : released'[k].artifact = a
    <3>1. \A k \in ReleasedFor(i) : k \in 1..n
      BY <1>4 DEF ReleasedFor
    <3>. QED BY <1>4, <1>5, <1>11, <1>12, <3>1 DEF Certificate
  <2>. QED BY <1>2, <1>7, <1>11, <2>1 DEF Certificate
<1>14. ASSUME NEW k \in Ids, k # i
       PROVE  /\ Counted(k)' /\ (\E b : Certificate(k, b))'
              /\ (~Exists(rec[k]) => ReleasedFor(k) = {})'
  <2>1. \A j \in ReleasedFor(k) : released'[j] = released[j]
    BY <1>4 DEF ReleasedFor
  <2>. QED BY <1>2, <1>6, <1>14, <2>1, ApartKeeps
<1>15. Exists(rec'[i])
  BY <1>2, <1>3, OpenedExists
<1>. QED BY <1>10, <1>13, <1>14, <1>15 DEF AuditInv

LEMMA InitAudit == Init => AuditInv
<1>. SUFFICES ASSUME Init, NEW i \in Ids
              PROVE  Counted(i) /\ (\E a : Certificate(i, a)) /\ (~Exists(rec[i]) => ReleasedFor(i) = {})
  BY DEF AuditInv
<1>1. rec[i] = NoCase /\ released = <<>> /\ \A p \in Procs : h[p] = Resting
  BY DEF Init, CaseInit
<1>2. ReleasedFor(i) = {} /\ Returning(i) = {} /\ Prepared(NoCase.events) = {}
  BY <1>1 DEF ReleasedFor, Returning, Resting, Prepared, NoCase
<1>3. Counted(i)
  BY <1>1, <1>2, FS_EmptySet DEF Counted
<1>4. Certificate(i, NoArtifact)
  BY <1>1, <1>2 DEF Certificate, IsReady, Exists
<1>. QED BY <1>2, <1>3, <1>4

LEMMA StepAudit == IInv /\ AuditInv /\ [Next]_vars => AuditInv'
BY StepKinds, QuietKeeps, OpenKeeps, AdvanceKeeps, ReturnKeeps

\* Every PDF that left for a request is announced in its audit, once for each
\* time, and all are the certificate first offered.
THEOREM ReleasesAudited == Spec => []EveryReleaseAudited
<1>1. IInv /\ AuditInv => EveryReleaseAudited
  <2>. SUFFICES ASSUME IInv, AuditInv, NEW i \in Ids
                PROVE  /\ Cardinality(ReleasedFor(i)) <= Cardinality(Prepared(rec[i].events))
                       /\ \A j, k \in ReleasedFor(i) : released[j].artifact = released[k].artifact
    BY DEF EveryReleaseAudited
  <2>1. Cardinality(Returning(i)) \in Nat
    BY FS_CardinalityType DEF AuditInv, Counted
  <2>2. Cardinality(ReleasedFor(i)) \in Nat /\ Cardinality(Prepared(rec[i].events)) \in Nat
    BY ReleasedFinite, PreparedFinite
  <2>. QED BY <2>1, <2>2 DEF AuditInv, Counted, Certificate
<1>. QED BY <1>1, InitAudit, StepAudit, Invariance, PTL DEF Spec

-----------------------------------------------------------------------------
(* What a lapsed proposal starts: nothing, unless its confirmation is under *)
(* way.                                                                     *)

\* The handler x does not confirm the message i.
Elsewhere(x, i) == x # Resting /\ x.id = i => x.target.context = "form"

\* A handler that goes on stays with its case and its target.
LEMMA GoesOn ==
  ASSUME IInv, NEW p \in Procs, Continues(p) \/ Crash(p), NEW i \in Ids, Elsewhere(h[p], i)
  PROVE  \E x : h' = [h EXCEPT ![p] = x] /\ Elsewhere(x, i)
<1>. PICK s : s = h[p]
  OBVIOUS
<1>1. Elsewhere(Resting, i)
  BY DEF Elsewhere
<1>2. CASE h' = [h EXCEPT ![p] = Resting]
  BY <1>1, <1>2
<1>3. CASE h' # [h EXCEPT ![p] = Resting]
  <2>1. s.pc \in {"look", "investigate", "fetch", "commit"}
    BY <1>3 DEF Continues, Crash, Look, Evaluate, Fetch, Create, Commit, Return
  <2>2. s \in Handlers
    BY <2>1, HandlerKnown
  <2>3. ASSUME NEW x, x.id = s.id, x.target = s.target PROVE Elsewhere(x, i)
    BY <2>2, <2>3, HandlersAct DEF Elsewhere
  <2>4. CASE Look(p)
    <3>. DEFINE x == [s EXCEPT !.pc = "investigate", !.begin = Now]
    <3>1. h' = [h EXCEPT ![p] = x] /\ x.id = s.id /\ x.target = s.target
      BY <2>2, <2>4 DEF Look, Handlers
    <3>. HIDE DEF x
    <3>. QED BY <2>3, <3>1
  <2>5. CASE Evaluate(p)
    <3>1. PICK e, pc : h' = [h EXCEPT ![p] = [s EXCEPT !.decision = e, !.pc = pc]]
      BY <2>5 DEF Evaluate
    <3>. DEFINE x == [s EXCEPT !.decision = e, !.pc = pc]
    <3>2. h' = [h EXCEPT ![p] = x] /\ x.id = s.id /\ x.target = s.target
      BY <2>2, <3>1 DEF Handlers
    <3>. HIDE DEF x
    <3>. QED BY <2>3, <3>2
  <2>6. CASE Fetch(p)
    <3>. DEFINE x == [s EXCEPT !.pc = "look", !.read = Now, !.bytes = s.decision.artifact]
                y == [s EXCEPT !.pc = "commit", !.decision = OnHold]
    <3>1. h' = [h EXCEPT ![p] = x] \/ h' = [h EXCEPT ![p] = y]
      BY <2>6 DEF Fetch
    <3>2. x.id = s.id /\ x.target = s.target /\ y.id = s.id /\ y.target = s.target
      BY <2>2 DEF Handlers
    <3>. HIDE DEF x, y
    <3>. QED BY <2>3, <3>1, <3>2
  <2>7. CASE Commit(p)
    <3>. DEFINE x == [s EXCEPT !.pc = "return"]
    <3>1. h' = [h EXCEPT ![p] = x] /\ x.id = s.id /\ x.target = s.target
      BY <1>3, <2>2, <2>7 DEF Commit, Handlers
    <3>. HIDE DEF x
    <3>. QED BY <2>3, <3>1
  <2>. QED BY <1>3, <2>4, <2>5, <2>6, <2>7 DEF Continues, Crash, Create, Return
<1>. QED BY <1>2, <1>3

\* A case that appears is the one its handler was asked for.
LEMMA CaseAppears ==
  ASSUME IInv, [Next]_vars, NEW i \in Ids, ~Exists(rec[i]), Exists(rec'[i])
  PROVE  \E p \in Procs : h[p] # Resting /\ h[p].id = i /\ rec'[i].target = h[p].target
<1>1. ~QuietStep /\ \A p \in Procs : ~ReturnStepOf(p)
  BY DEF QuietStep, ReturnStepOf, Return
<1>2. ASSUME NEW p \in Procs, AdvanceStep(p) PROVE FALSE
  <2>1. h[p].id \in Ids /\ IsReady(rec[h[p].id])
    BY <1>2, AdvanceMeans
  <2>2. PICK c : rec' = [rec EXCEPT ![h[p].id] = c]
    BY <1>2, AdvanceMeans
  <2>. QED BY <2>1, <2>2, Known DEF IsReady
<1>3. PICK p \in Procs : OpenStep(p)
  BY <1>1, <1>2, StepKinds
<1>. PICK s : s = h[p]
  OBVIOUS
<1>4. s \in Handlers /\ s.id \in Ids /\ s # Resting
  BY <1>3, HandlerKnown, HandlersAct DEF OpenStep
<1>5. PICK c : rec' = [rec EXCEPT ![s.id] = c] /\ c.target = s.target
  <2>. DEFINE c == [target |-> s.target, decision |-> s.decision,
                    events |-> <<"requested">> \o Outcome(s.decision, "release_ready")]
  <2>1. rec' = [rec EXCEPT ![s.id] = c]
    BY <1>3 DEF OpenStep, Create
  <2>2. c.target = s.target
    OBVIOUS
  <2>. HIDE DEF c
  <2>. QED BY <2>1, <2>2
<1>6. s.id = i
  BY <1>4, <1>5, Known
<1>. QED BY <1>4, <1>5, <1>6, Known

\* A proposal that lapsed unconfirmed stays so.
LEMMA LapsedStays ==
  ASSUME IInv, [Next]_vars, NEW i \in Ids, i \in lapsed, Unconfirmed(i)
  PROVE  Unconfirmed(i)'
<1>0. \A p \in Procs : Elsewhere(h[p], i) /\ (talk[p].pc = "start" => talk[p].id # i)
  BY DEF Unconfirmed, Elsewhere
<1>1. Exists(rec'[i]) => rec'[i].target.context = "form"
  <2>. SUFFICES ASSUME Exists(rec'[i]) PROVE rec'[i].target.context = "form"
    OBVIOUS
  <2>1. CASE Exists(rec[i])
    <3>1. CaseGrows(rec[i], rec'[i])
      BY StepIInv DEF Grows
    <3>. QED BY <2>1, <3>1 DEF CaseGrows, Exists, Unconfirmed
  <2>2. CASE ~Exists(rec[i])
    BY <1>0, <2>2, CaseAppears DEF Elsewhere
  <2>. QED BY <2>1, <2>2
<1>2. \A p \in Procs : Elsewhere(h'[p], i)
  <2>1. CASE h' = h
    BY <1>0, <2>1
  <2>2. CASE h' # h
    <3>1. PICK p \in Procs : \E x : h' = [h EXCEPT ![p] = x] /\ Elsewhere(x, i)
      <4>1. PICK p \in Procs : CaseStep(p) \/ \E k \in Ids : Confirm(p, k)
        BY <2>2 DEF Next, vars, caseVars, RegistryChanges, ValidityChanges, Lapse, TalkStep, PostAgain,
             Post, Interpret, StoreMessage, TalkCrash, ConfirmCoverage, StartCoverage
      <4>2. CASE Continues(p) \/ Crash(p)
        BY <1>0, <4>2, GoesOn
      <4>3. ASSUME NEW k \in Ids, NEW t, Ask(p, k, t), k # i \/ t.context = "form"
            PROVE  \E x : h' = [h EXCEPT ![p] = x] /\ Elsewhere(x, i)
        <5>. DEFINE x == [pc |-> "look", id |-> k, op |-> "request", target |-> t, snap |-> NoCase,
                          begin |-> 0, read |-> 0, bytes |-> NoArtifact, decision |-> OnHold]
        <5>1. h' = [h EXCEPT ![p] = x]
          BY <4>3 DEF Ask, Begin
        <5>2. Elsewhere(x, i)
          BY <4>3 DEF Elsewhere
        <5>. HIDE DEF x
        <5>. QED BY <5>1, <5>2
      <4>4. ASSUME NEW k \in Ids, Download(p, k)
            PROVE  \E x : h' = [h EXCEPT ![p] = x] /\ Elsewhere(x, i)
        <5>. DEFINE x == [pc |-> "look", id |-> k, op |-> "download", target |-> rec[k].target,
                          snap |-> rec[k], begin |-> 0, read |-> 0, bytes |-> NoArtifact,
                          decision |-> OnHold]
        <5>1. h' = [h EXCEPT ![p] = x] /\ Exists(rec[k])
          BY <4>4 DEF Download, MayDownload, IsReady, Begin
        <5>2. Elsewhere(x, i)
          BY <5>1 DEF Elsewhere, Unconfirmed
        <5>. HIDE DEF x
        <5>. QED BY <5>1, <5>2
      <4>5. ASSUME NEW k \in Ids, Confirm(p, k)
            PROVE  \E x : h' = [h EXCEPT ![p] = x] /\ Elsewhere(x, i)
        <5>1. k # i
          BY <4>5 DEF Confirm, Proposes
        <5>. QED BY <4>3, <4>5, <5>1 DEF Confirm
      <4>. QED BY <4>1, <4>2, <4>3, <4>4, <4>5 DEF CaseStep
    <3>. QED BY <1>0, <3>1, Known
  <2>. QED BY <2>1, <2>2
<1>3. \A e \in Equipment : <<i, e>> \notin started'
  <2>1. CASE started' = started
    BY <2>1 DEF Unconfirmed
  <2>2. CASE started' # started
    <3>1. PICK p \in Procs : StartCoverage(p)
      BY <2>2 DEF Next, vars, talkVars, RegistryChanges, ValidityChanges, Lapse, CaseStep, TalkStep,
           PostAgain, Post, Interpret, StoreMessage, TalkCrash, Confirm, ConfirmCoverage
    <3>2. talk[p].id # i /\ started' = started \cup {<<talk[p].id, talk[p].reply.equipment>>}
      BY <1>0, <3>1 DEF StartCoverage
    <3>. QED BY <3>2 DEF Unconfirmed
  <2>. QED BY <2>1, <2>2
<1>4. \A q \in Procs : talk'[q].pc = "start" => talk'[q].id # i
  <2>1. CASE talk' = talk
    BY <1>0, <2>1
  <2>2. CASE talk' # talk
    <3>1. PICK p \in Procs : TalkStep(p)
      BY <2>2 DEF Next, vars, talkVars, RegistryChanges, ValidityChanges, Lapse, CaseStep
    <3>2. Silent.pc # "start"
      BY DEF Silent
    <3>3. \E t : talk' = [talk EXCEPT ![p] = t] /\ (t.pc = "start" => t.id # i)
      <4>1. CASE talk' = [talk EXCEPT ![p] = Silent]
        BY <3>2, <4>1
      <4>2. ASSUME NEW k \in Ids, NEW b \in Bodies, Post(p, k, b)
            PROVE  \E t : talk' = [talk EXCEPT ![p] = t] /\ (t.pc = "start" => t.id # i)
        <5>1. PICK n : talk' = [talk EXCEPT ![p] = [pc |-> "interpret", id |-> k, body |-> b, turns |-> n,
                                                   reply |-> AnyReply]]
          BY <4>2 DEF Post
        <5>. DEFINE t == [pc |-> "interpret", id |-> k, body |-> b, turns |-> n, reply |-> AnyReply]
        <5>2. talk' = [talk EXCEPT ![p] = t] /\ t.pc # "start"
          BY <5>1
        <5>. HIDE DEF t
        <5>. QED BY <5>2
      <4>3. ASSUME Interpret(p), talk' # [talk EXCEPT ![p] = Silent]
            PROVE  \E t : talk' = [talk EXCEPT ![p] = t] /\ (t.pc = "start" => t.id # i)
        <5>1. talk[p] \in Talks
          BY <4>3, TalkKnown DEF Interpret
        <5>2. PICK r : talk' = [talk EXCEPT ![p] = [talk[p] EXCEPT !.pc = "store", !.reply = r]]
          BY <4>3 DEF Interpret
        <5>. DEFINE t == [talk[p] EXCEPT !.pc = "store", !.reply = r]
        <5>3. talk' = [talk EXCEPT ![p] = t] /\ t.pc # "start"
          BY <5>1, <5>2 DEF Talks
        <5>. HIDE DEF t
        <5>. QED BY <5>3
      <4>4. ASSUME NEW k \in Ids, ConfirmCoverage(p, k)
            PROVE  \E t : talk' = [talk EXCEPT ![p] = t] /\ (t.pc = "start" => t.id # i)
        <5>. DEFINE t == [pc |-> "start", id |-> k, body |-> msg[k].body, turns |-> msg[k].turns,
                          reply |-> msg[k].reply]
        <5>1. talk' = [talk EXCEPT ![p] = t] /\ t.id = k /\ k # i
          BY <4>4 DEF ConfirmCoverage, Proposes
        <5>. HIDE DEF t
        <5>. QED BY <5>1
      <4>. QED BY <2>2, <3>1, <4>1, <4>2, <4>3, <4>4
           DEF TalkStep, PostAgain, StoreMessage, StartCoverage, TalkCrash, Confirm, talkVars
    <3>. QED BY <1>0, <3>3, Known
  <2>. QED BY <2>1, <2>2
<1>. QED BY <1>1, <1>2, <1>3, <1>4 DEF Unconfirmed, Elsewhere

\* A conversation starts what its stored reply proposed, and nothing else; and
\* nothing once that lapsed unconfirmed.
THEOREM OnlyProposed == Spec => StartedAsProposed
<1>1. IInv => /\ \A i \in Ids :
                   Exists(rec[i]) /\ rec[i].target.context = "message" =>
                     Proposed(i, "certificate", rec[i].target.equipment)
              /\ \A x \in started : Proposed(x[1], "coverage", x[2])
  <2>. SUFFICES ASSUME IInv
                PROVE  /\ \A i \in Ids :
                            Exists(rec[i]) /\ rec[i].target.context = "message" =>
                              Proposed(i, "certificate", rec[i].target.equipment)
                       /\ \A x \in started : Proposed(x[1], "coverage", x[2])
    OBVIOUS
  <2>1. ASSUME NEW i \in Ids, Exists(rec[i]), rec[i].target.context = "message"
        PROVE  Proposal(msg[i], "certificate", rec[i].target.equipment)
    BY <2>1, Known DEF CaseOK, Exists
  <2>2. \A x \in started : Proposal(msg[x[1]], "coverage", x[2])
    BY DEF IInv, RepliesOK
  <2>. QED BY <2>1, <2>2, MessageIsPosted DEF Proposed, Proposal, Posted
<1>2. IInv /\ [Next]_vars =>
        [\A i \in Ids : i \in lapsed /\ Unconfirmed(i) => Unconfirmed(i)']_vars
  BY LapsedStays
<1>. QED BY <1>1, <1>2, Invariance, PTL DEF Spec, StartedAsProposed

-----------------------------------------------------------------------------
(* The cases implement CertificateRelease.                                 *)

StatusOf(i) == IF Exists(rec[i]) THEN rec[i].decision.outcome ELSE "none"
PreparedOf(i) == Cardinality(Prepared(rec[i].events))

\* A step that changes one case, in the terms of the abstract specification.
LEMMA ReleaseMove ==
  ASSUME IInv, NEW i \in Ids, NEW c, rec' = [rec EXCEPT ![i] = c],
         \/ StatusOf(i) = "none" /\ StatusOf(i)' \in {"ready", "held"} /\ PreparedOf(i)' = PreparedOf(i)
         \/ StatusOf(i) = "ready" /\ StatusOf(i)' = "ready" /\ PreparedOf(i)' = PreparedOf(i) + 1
         \/ StatusOf(i) = "ready" /\ StatusOf(i)' = "held" /\ PreparedOf(i)' = PreparedOf(i)
  PROVE  Release!Next
<1>1. \A k \in Ids : k # i => rec'[k] = rec[k]
  BY Known
<1>2. \A k \in Ids : k # i => StatusOf(k)' = StatusOf(k) /\ PreparedOf(k)' = PreparedOf(k)
  BY <1>1 DEF StatusOf, PreparedOf
<1>. PICK old, new, n, m :
       /\ old = [k \in Ids |-> StatusOf(k)] /\ new = [k \in Ids |-> StatusOf(k)']
       /\ n = [k \in Ids |-> PreparedOf(k)] /\ m = [k \in Ids |-> PreparedOf(k)']
  OBVIOUS
<1>3. /\ new = [old EXCEPT ![i] = StatusOf(i)'] /\ m = [n EXCEPT ![i] = PreparedOf(i)']
      /\ old[i] = StatusOf(i) /\ n[i] = PreparedOf(i)
  BY <1>2
<1>4. CASE StatusOf(i) = "none" /\ StatusOf(i)' \in {"ready", "held"} /\ PreparedOf(i)' = PreparedOf(i)
  <2>1. m = n
    BY <1>2, <1>4
  <2>2. Release!Open(i)
    BY <1>3, <1>4, <2>1 DEF Release!Open, StatusOf, PreparedOf
  <2>. QED BY <2>2 DEF Release!Next
<1>5. CASE StatusOf(i) = "ready" /\ StatusOf(i)' = "ready" /\ PreparedOf(i)' = PreparedOf(i) + 1
  <2>1. new = old /\ m = [n EXCEPT ![i] = n[i] + 1]
    BY <1>2, <1>3, <1>5
  <2>2. Release!Prepare(i)
    BY <1>3, <1>5, <2>1 DEF Release!Prepare, StatusOf, PreparedOf
  <2>. QED BY <2>2 DEF Release!Next
<1>6. CASE StatusOf(i) = "ready" /\ StatusOf(i)' = "held" /\ PreparedOf(i)' = PreparedOf(i)
  <2>1. m = n
    BY <1>2, <1>6
  <2>2. Release!Hold(i)
    BY <1>3, <1>6, <2>1 DEF Release!Hold, StatusOf, PreparedOf
  <2>. QED BY <2>2 DEF Release!Next
<1>. QED BY <1>4, <1>5, <1>6

LEMMA ReleaseInit == Init => Release!Init
<1>. SUFFICES ASSUME Init PROVE Release!Init
  OBVIOUS
<1>1. \A i \in Ids : rec[i] = NoCase
  BY DEF Init, CaseInit
<1>2. Prepared(NoCase.events) = {}
  BY DEF Prepared, NoCase
<1>3. Cardinality(Prepared(NoCase.events)) = 0
  BY <1>2, FS_EmptySet
<1>. QED BY <1>1, <1>3 DEF Release!Init, Exists

LEMMA ReleaseStep == IInv /\ [Next]_vars => [Release!Next]_(Release!releaseVars)
<1>. SUFFICES ASSUME IInv, [Next]_vars PROVE [Release!Next]_(Release!releaseVars)
  OBVIOUS
<1>1. CASE rec' = rec
  BY <1>1 DEF Release!releaseVars
<1>2. ASSUME NEW p \in Procs, OpenStep(p) PROVE Release!Next
  <2>. PICK s : s = h[p]
    OBVIOUS
  <2>1. s.id \in Ids /\ rec[s.id] = NoCase
    BY <1>2, OpenMeans
  <2>2. PICK c : /\ rec' = [rec EXCEPT ![s.id] = c]
                 /\ Exists(c) /\ c.decision \in Decisions /\ Prepared(c.events) = {}
    BY <1>2, OpenMeans
  <2>3. rec'[s.id] = c
    BY <2>1, <2>2, Known
  <2>4. StatusOf(s.id) = "none" /\ StatusOf(s.id)' \in {"ready", "held"}
    BY <2>1, <2>2, <2>3, DecisionMeans DEF StatusOf, Exists
  <2>5. PreparedOf(s.id)' = PreparedOf(s.id)
    <3>1. Prepared(NoCase.events) = {}
      BY DEF Prepared, NoCase
    <3>. QED BY <2>1, <2>2, <2>3, <3>1 DEF PreparedOf
  <2>. QED BY <2>1, <2>2, <2>4, <2>5, ReleaseMove
<1>3. ASSUME NEW p \in Procs, AdvanceStep(p) PROVE Release!Next
  <2>. PICK s : s = h[p]
    OBVIOUS
  <2>1. s.id \in Ids /\ IsReady(rec[s.id]) /\ s.decision \in Decisions
    BY <1>3, AdvanceMeans
  <2>2. PICK c : /\ rec' = [rec EXCEPT ![s.id] = c]
                 /\ Exists(c) /\ c.decision = s.decision
                 /\ Cardinality(Prepared(c.events)) =
                      Cardinality(Prepared(rec[s.id].events))
                        + (IF s.decision.outcome = "ready" THEN 1 ELSE 0)
    BY <1>3, AdvanceMeans
  <2>3. rec'[s.id] = c
    BY <2>1, <2>2, Known
  <2>4. StatusOf(s.id) = "ready" /\ StatusOf(s.id)' = s.decision.outcome
    BY <2>1, <2>2, <2>3 DEF StatusOf, IsReady
  <2>5. PreparedOf(s.id)' = PreparedOf(s.id) + (IF s.decision.outcome = "ready" THEN 1 ELSE 0)
    BY <2>2, <2>3 DEF PreparedOf
  <2>6. PreparedOf(s.id) \in Nat
    BY <2>1, PreparedFinite DEF PreparedOf
  <2>7. CASE s.decision.outcome = "ready"
    BY <2>1, <2>2, <2>4, <2>5, <2>7, ReleaseMove
  <2>8. CASE s.decision.outcome = "held"
    <3>1. PreparedOf(s.id)' = PreparedOf(s.id)
      BY <2>5, <2>6, <2>8
    <3>. QED BY <2>1, <2>2, <2>4, <2>8, <3>1, ReleaseMove
  <2>. QED BY <2>1, <2>7, <2>8, DecisionMeans
<1>4. QuietStep \/ (\E p \in Procs : ReturnStepOf(p)) => rec' = rec
  BY DEF QuietStep, ReturnStepOf, Return
<1>. QED BY <1>1, <1>2, <1>3, <1>4, StepKinds

\* What a customer and Operations are promised of a request: opened once, ready
\* or held; prepared only while ready; held for good.
THEOREM CasesImplementRelease == Spec => ImplementsRelease
<1>. QED BY ReleaseInit, ReleaseStep, Invariance, PTL DEF Spec, ImplementsRelease, Release!Spec

=============================================================================
