----------------------------- MODULE CaseReview -----------------------------
(***************************************************************************)
(* The administration of a held case by Operations: the controller and its *)
(* commands (case_review.py of the API and of the contracts) and the       *)
(* review document of the store (certificate_store.py).  A command is sent *)
(* from a tab with the revision it saw and an identifier of its own; it is *)
(* sent again when its answer is lost.                                     *)
(*                                                                         *)
(* One held case is modelled: reviews of two cases share nothing, and the  *)
(* held record a review is bound to never changes.  Notes are left out.    *)
(***************************************************************************)
EXTENDS Naturals, Sequences, SequencesExt, FiniteSets

CONSTANTS
  Tabs,         \* concurrent handlers of Operations' calls
  Commands,     \* command identifiers
  MaxRevision,  \* last revision of a review; 1000 in the code
  MaxInputs,    \* bound: commands sent
  MaxCrashes    \* bound: handlers cut off before or after their commit

ASSUME ReviewAssumption ==
  MaxRevision \in Nat \ {0} /\ MaxInputs \in Nat /\ MaxCrashes \in Nat

VARIABLES
  review,   \* the review document: state and audited commands
  h,        \* h[t]: the command tab t is committing
  acked,    \* history of the commands answered with a review
  inputs,   \* inputs so far
  crashes   \* crashes so far

vars == <<review, h, acked, inputs, crashes>>

-----------------------------------------------------------------------------
States  == {"open", "acknowledged", "closed_without_release"}
Actions == {"acknowledge", "add_note", "close_without_release"}

CommandsSent == [id : Commands, action : Actions, expected : 0..MaxRevision]
Reviews      == [state : States, events : Seq(CommandsSent)]

Unreviewed == [state |-> "open", events |-> <<>>]
NoCommand  == [pc |-> "idle"]
Handlers   == [pc : {"commit"}, command : CommandsSent, snap : Reviews]

Revision(r) == Len(r.events)

TypeOK ==
  /\ review \in Reviews /\ Revision(review) <= MaxRevision
  /\ h \in [Tabs -> Handlers \cup {NoCommand}]
  /\ acked \in SUBSET CommandsSent
  /\ inputs \in Nat /\ crashes \in Nat

Init ==
  /\ review = Unreviewed
  /\ h = [t \in Tabs |-> NoCommand]
  /\ acked = {}
  /\ inputs = 0 /\ crashes = 0

-----------------------------------------------------------------------------
\* Mutant: a closed case may be acknowledged or annotated.
AllowedWhenClosed(state) ==
  IF state = "acknowledged" THEN {"add_note", "close_without_release"} ELSE Actions

\* The actions a state allows, and what they make of it.
Allowed(state) ==
  CASE state = "open"         -> Actions
    [] state = "acknowledged" -> {"add_note", "close_without_release"}
    [] OTHER                  -> {}

NextCaseState(state, action) ==
  CASE action = "acknowledge"           -> "acknowledged"
    [] action = "close_without_release" -> "closed_without_release"
    [] OTHER                            -> state

Carried(r, c) == c \in Range(r.events)
Reused(r, c) == \E x \in Range(r.events) : x.id = c.id /\ x # c

\* Mutant: the revision the sender saw is not compared.
MayActUnseen(r, c) ==
  /\ ~Carried(r, c) /\ ~Reused(r, c)
  /\ Revision(r) < MaxRevision
  /\ c.action \in Allowed(r.state)

\* Mutant: a review grows without end.
MayActWithoutEnd(r, c) ==
  /\ ~Carried(r, c) /\ ~Reused(r, c)
  /\ c.expected = Revision(r)
  /\ c.action \in Allowed(r.state)

\* act, for a command that is not on record yet.
MayAct(r, c) ==
  /\ ~Carried(r, c) /\ ~Reused(r, c)
  /\ c.expected = Revision(r)
  /\ Revision(r) < MaxRevision
  /\ c.action \in Allowed(r.state)

Input == inputs < MaxInputs /\ inputs' = inputs + 1

\* A command on record is answered again, not done again.
AlreadyDone(r, c) == Carried(r, c)

Repeat(t, c) ==
  /\ h[t] = NoCommand /\ Input
  /\ AlreadyDone(review, c)
  /\ acked' = acked \cup {c}
  /\ UNCHANGED <<review, h, crashes>>

Act(t, c) ==
  /\ h[t] = NoCommand /\ Input
  /\ MayAct(review, c)
  /\ h' = [h EXCEPT ![t] = [pc |-> "commit", command |-> c, snap |-> review]]
  /\ UNCHANGED <<review, acked, crashes>>

\* Mutant: the review is written over whatever is stored.
UnchangedOrNot(s) == TRUE

\* commit_review: the stored audit is the one the update was made from.
Unchanged(s) == review.events = s.snap.events

Updated(s) ==
  [state  |-> NextCaseState(s.snap.state, s.command.action),
   events |-> Append(s.snap.events, s.command)]

Commit(t) ==
  LET s == h[t] IN
  /\ s.pc = "commit"
  /\ IF Unchanged(s)
     THEN review' = Updated(s) /\ acked' = acked \cup {s.command}
     ELSE UNCHANGED <<review, acked>>
  /\ h' = [h EXCEPT ![t] = NoCommand]
  /\ UNCHANGED <<inputs, crashes>>

\* The handler or its answer is lost, before or after the commit.
Crash(t) ==
  LET s == h[t] IN
  /\ s.pc = "commit"
  /\ crashes < MaxCrashes
  /\ crashes' = crashes + 1
  /\ review' \in {review} \cup (IF Unchanged(s) THEN {Updated(s)} ELSE {})
  /\ h' = [h EXCEPT ![t] = NoCommand]
  /\ UNCHANGED <<acked, inputs>>

Next ==
  \E t \in Tabs :
    \/ \E c \in CommandsSent : Repeat(t, c) \/ Act(t, c)
    \/ Commit(t) \/ Crash(t)

Spec == Init /\ [][Next]_vars

-----------------------------------------------------------------------------
(* Properties.                                                             *)

\* What Operations were told is done stays done, once: every acknowledged
\* command is on record, and no identifier is there twice, whatever two tabs
\* send and send again.
AckedCommandsKept ==
  /\ acked \subseteq Range(review.events)
  /\ \A i, j \in DOMAIN review.events : review.events[i].id = review.events[j].id => i = j

\* state[n] is what the first n commands on record make of an open case; each
\* was allowed then, and sent by someone who had seen all before it.
Replays(r, state) ==
  /\ state[0] = "open" /\ state[Revision(r)] = r.state
  /\ \A n \in DOMAIN r.events :
       /\ r.events[n].action \in Allowed(state[n - 1])
       /\ r.events[n].expected = n - 1
       /\ state[n] = NextCaseState(state[n - 1], r.events[n].action)

\* Every command was decided on the case as it stood: the audit replays to the
\* stored state.
AuditReplays == \E state \in [0..Revision(review) -> States] : Replays(review, state)

\* The audit only grows, and a closed case is closed for good.
ClosedForGood ==
  [][/\ IsPrefix(review.events, review'.events)
     /\ review.state = "closed_without_release" => review' = review]_vars

=============================================================================
