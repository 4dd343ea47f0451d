-------------------------- MODULE CertificateCase --------------------------
(***************************************************************************)
(* Certificate Fulfilment: the controller (certificates.py) over its       *)
(* evidence (certificate_runtime.py), the private registry                 *)
(* (certificate_repository.py) and the store (certificate_store.py).       *)
(*                                                                         *)
(* A case is opened by a create-only batch and advanced by a batch that    *)
(* compares the number of audit events.  The registry is changed by others *)
(* while specialists and OCR work, so every read of it is a step.          *)
(*                                                                         *)
(* One customer's calls are modelled, already authenticated.  The registry *)
(* holds the certificate on offer and whether every check of the policy    *)
(* passes; which check fails, and the reasons of a hold, are left out.     *)
(* Evidence cached by the broker is compared with the registry it was read *)
(* under, which is one of the outcomes of Evaluate.                        *)
(***************************************************************************)
EXTENDS Naturals, Sequences, SequencesExt, FiniteSets

CONSTANTS
  Ids,         \* request identifiers, chosen by the customer's client
  Procs,       \* concurrent handlers
  Equipment,   \* the customer's machines
  Artifacts,   \* content-addressed certificate PDFs
  NoArtifact,
  MaxInputs,   \* bound: requests, downloads, messages and confirmations
  MaxWorld,    \* bound: states of the registry
  MaxCrashes   \* bound: handlers cut off between two steps

ASSUME CaseAssumption ==
  /\ NoArtifact \notin Artifacts
  /\ MaxInputs \in Nat /\ MaxWorld \in Nat \ {0} /\ MaxCrashes \in Nat

VARIABLES
  rec,        \* rec[i]: the snapshot document of request i
  world,      \* history of the registry and the clock; the last one is current
  released,   \* history of the PDFs returned to the customer
  h,          \* h[p]: what handler p is doing
  inputs,     \* inputs so far
  crashes     \* crashes so far

caseVars == <<rec, world, released, h, inputs, crashes>>

-----------------------------------------------------------------------------
Targets == [equipment : Equipment, context : {"form", "message"}]

AuditEvents ==
  {"requested", "policy_checked", "release_ready", "held", "case_created",
   "download_prepared"}

\* Only a passing decision carries an artifact.
Decisions ==
  [outcome : {"ready"}, artifact : Artifacts]
    \cup [outcome : {"held"}, artifact : {NoArtifact}]

Cases   == [target : Targets, decision : Decisions, events : Seq(AuditEvents)]
NoCase  == [events |-> <<>>]
Facts   == [version : Nat, artifact : Artifacts, passes : BOOLEAN]
Returns == [id : Ids, artifact : Artifacts, read : Nat \ {0}, begin : Nat \ {0}, at : Nat \ {0}]

\* Mutant: a hold keeps the artifact it refuses.
OnHoldWithArtifact == [outcome |-> "held", artifact |-> CHOOSE a \in Artifacts : TRUE]

OnHold == [outcome |-> "held", artifact |-> NoArtifact]

\* begin: the state of the registry the last investigation started from; read:
\* the one under which the bytes were fetched; 0 before that.
Handlers ==
  [pc : {"look", "investigate", "create", "fetch", "commit", "return"}, id : Ids,
   op : {"request", "download"}, target : Targets, snap : Cases \cup {NoCase},
   begin : Nat, read : Nat, bytes : Artifacts \cup {NoArtifact}, decision : Decisions]

Resting == [pc |-> "idle"]

Exists(c) == c # NoCase
IsReady(c) == Exists(c) /\ c.decision.outcome = "ready"
IsHeld(c) == Exists(c) /\ c.decision.outcome = "held"

Current == Last(world)
Now     == Len(world)

TypeOK ==
  /\ rec \in [Ids -> Cases \cup {NoCase}]
  /\ world \in Seq(Facts) /\ world # <<>>
  /\ released \in Seq(Returns)
  /\ h \in [Procs -> Handlers \cup {Resting}]
  /\ inputs \in Nat /\ crashes \in Nat

CaseInit ==
  /\ rec = [i \in Ids |-> NoCase]
  /\ \E a \in Artifacts, b \in BOOLEAN : world = <<[version |-> 1, artifact |-> a, passes |-> b]>>
  /\ released = <<>>
  /\ h = [p \in Procs |-> Resting]
  /\ inputs = 0 /\ crashes = 0

-----------------------------------------------------------------------------
(* The registry and the clock.                                             *)

\* A new registry file, under a new etag.
RegistryChanges ==
  /\ Now < MaxWorld
  /\ \E a \in Artifacts, b \in BOOLEAN :
       world' = Append(world, [version |-> Current.version + 1, artifact |-> a, passes |-> b])
  /\ UNCHANGED <<rec, released, h, inputs, crashes>>

\* Time passes: a validity period ends or begins, the file stays the same.
ValidityChanges ==
  /\ Now < MaxWorld
  /\ world' = Append(world, [Current EXCEPT !.passes = ~@])
  /\ UNCHANGED <<rec, released, h, inputs, crashes>>

\* The registry is read again after the investigation; if it is the one the
\* investigation began with, the policy is evaluated now.
Passes(begin) == Current.version = world[begin].version /\ Current.passes

-----------------------------------------------------------------------------
(* Handlers.                                                               *)

Input == inputs < MaxInputs /\ inputs' = inputs + 1

Begin(p, i, op, t, snap) ==
  /\ h[p] = Resting
  /\ Input
  /\ h' = [h EXCEPT ![p] = [pc |-> "look", id |-> i, op |-> op, target |-> t, snap |-> snap,
                            begin |-> 0, read |-> 0, bytes |-> NoArtifact, decision |-> OnHold]]
  /\ UNCHANGED <<rec, world, released, crashes>>

\* request: an identifier in use is answered from the store, or refused for
\* another target, and changes nothing.
Ask(p, i, t) ==
  /\ ~Exists(rec[i])
  /\ Begin(p, i, "request", t, NoCase)

\* Mutant: the stored outcome is not looked at.
MayDownloadAny(c) == Exists(c)

MayDownload(c) == IsReady(c)

Download(p, i) ==
  /\ MayDownload(rec[i])
  /\ Begin(p, i, "download", rec[i].target, rec[i])

\* Where a decision leads: a request stores it; so does a download, which
\* fetches the PDF first if it has not yet.
Follows(s, d) ==
  IF s.op = "request" THEN "create"
  ELSE IF d.outcome = "ready" /\ s.read = 0 THEN "fetch"
  ELSE "commit"

\* An investigation starts from the registry of the moment.
Look(p) ==
  /\ h[p].pc = "look"
  /\ h' = [h EXCEPT ![p] = [@ EXCEPT !.pc = "investigate", !.begin = Now]]
  /\ UNCHANGED <<rec, world, released, inputs, crashes>>

\* Mutant: another certificate than the one first offered is released.
DecidedAnyArtifact(s, d) == d

\* Mutant: what is on offer is compared before the fetch, and not after it.
DecidedBeforeFetch(s, d) ==
  IF s.op = "download" /\ s.read = 0 /\ d.artifact # s.snap.decision.artifact THEN OnHold ELSE d

\* _evaluate: evidence that is missing, fails or has changed is a hold; so is,
\* for a download, a certificate other than the one first offered.
Decided(s, d) ==
  IF s.op = "download" /\ d.artifact # s.snap.decision.artifact THEN OnHold ELSE d

Evaluate(p) ==
  LET s == h[p] IN
  /\ s.pc = "investigate"
  /\ \E d \in Decisions :
       /\ d.outcome = "ready" => Passes(s.begin) /\ d.artifact = world[s.begin].artifact
       /\ h' = [h EXCEPT ![p] =
                 [s EXCEPT !.decision = Decided(s, d), !.pc = Follows(s, Decided(s, d))]]
  /\ UNCHANGED <<rec, world, released, inputs, crashes>>

\* The repository looks at the registry itself and hands out the bytes of the
\* decision if they are still on offer.  The whole investigation is then done
\* again, from a look of its own.
Fetch(p) ==
  LET s == h[p] IN
  /\ s.pc = "fetch"
  /\ \/ /\ Current.artifact = s.decision.artifact
        /\ h' = [h EXCEPT ![p] = [s EXCEPT !.pc = "look", !.read = Now, !.bytes = s.decision.artifact]]
     \/ h' = [h EXCEPT ![p] = [s EXCEPT !.pc = "commit", !.decision = OnHold]]
  /\ UNCHANGED <<rec, world, released, inputs, crashes>>

\* _record: what a decision adds to the audit.
Outcome(d, yes) ==
  <<"policy_checked">>
    \o (IF d.outcome = "ready" THEN <<yes>> ELSE <<"held", "case_created">>)

\* The create-only batch; the loser returns the winner's case or is refused.
Create(p) ==
  LET s == h[p] IN
  /\ s.pc = "create"
  /\ rec' = IF Exists(rec[s.id]) THEN rec
            ELSE [rec EXCEPT ![s.id] =
                   [target |-> s.target, decision |-> s.decision,
                    events |-> <<"requested">> \o Outcome(s.decision, "release_ready")]]
  /\ h' = [h EXCEPT ![p] = Resting]
  /\ UNCHANGED <<world, released, inputs, crashes>>

\* Mutant: the snapshot is written over whatever is stored.
AdvancesBlindly(s) == TRUE

\* The store refuses to advance a case whose events are not those of the
\* snapshot, or to take an Operations case back.
Advances(s) ==
  /\ Len(rec[s.id].events) = Len(s.snap.events)
  /\ IsHeld(rec[s.id]) => s.decision.outcome = "held"

Commit(p) ==
  LET s == h[p] IN
  /\ s.pc = "commit"
  /\ IF Advances(s)
     THEN /\ rec' = [rec EXCEPT ![s.id] =
                      [s.snap EXCEPT !.decision = s.decision,
                                     !.events = @ \o Outcome(s.decision, "download_prepared")]]
          /\ h' = [h EXCEPT ![p] =
                    IF s.decision.outcome = "ready" THEN [s EXCEPT !.pc = "return"] ELSE Resting]
     ELSE /\ h' = [h EXCEPT ![p] = Resting]
          /\ UNCHANGED rec
  /\ UNCHANGED <<world, released, inputs, crashes>>

Return(p) ==
  LET s == h[p] IN
  /\ s.pc = "return"
  /\ released' = Append(released, [id |-> s.id, artifact |-> s.bytes, read |-> s.read,
                                   begin |-> s.begin, at |-> Now])
  /\ h' = [h EXCEPT ![p] = Resting]
  /\ UNCHANGED <<rec, world, inputs, crashes>>

\* The handler is cut off: a crash, or a store or a reply that fails.
Crash(p) ==
  /\ h[p] # Resting
  /\ crashes < MaxCrashes
  /\ crashes' = crashes + 1
  /\ h' = [h EXCEPT ![p] = Resting]
  /\ UNCHANGED <<rec, world, released, inputs>>

Continues(p) == Look(p) \/ Evaluate(p) \/ Fetch(p) \/ Create(p) \/ Commit(p) \/ Return(p)

CaseNext ==
  \/ RegistryChanges \/ ValidityChanges
  \/ \E p \in Procs :
       \/ \E i \in Ids, t \in Targets : Ask(p, i, t)
       \/ \E i \in Ids : Download(p, i)
       \/ Continues(p) \/ Crash(p)

CaseSpec == CaseInit /\ [][CaseNext]_caseVars

=============================================================================
