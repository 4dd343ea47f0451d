-------------------------- MODULE OperationsOutbox --------------------------
(***************************************************************************)
(* The notification outbox of held cases: the loop that dispatches it      *)
(* (certificate_notifications.py) and the transitions of the store         *)
(* (certificate_store.py).  The batch that holds a case creates its        *)
(* notification; a dispatcher claims it, posts one card to Teams and       *)
(* records what came of it.                                                *)
(*                                                                         *)
(* A transition replaces the document under the etag it was read with, so  *)
(* its read and its write are one step that finds the state it expects or  *)
(* is a Conflict.  Posting and every call of the store may fail, after it  *)
(* was applied or before.                                                  *)
(***************************************************************************)
EXTENDS Naturals, FiniteSets

CONSTANTS
  Cases,        \* held cases of the configured Operations user
  Foreign,      \* cases of a former Operations user, in the same container
  Dispatchers,  \* dispatch loops: one per replica, two while one replaces another
  Limit,        \* notifications one query returns; 50 in the code
  MaxFaults     \* bound: crashes and failing calls of the store

All == Cases \cup Foreign

ASSUME OutboxAssumption ==
  /\ Cases # {} /\ Cases \cap Foreign = {}
  /\ Limit \in Nat \ {0} /\ MaxFaults \in Nat

VARIABLES
  outbox,   \* outbox[c]: the notification document of case c
  old,      \* the claims that are over five minutes old
  posts,    \* posts[c]: cards Teams accepted for case c
  w,        \* w[d]: what dispatcher d is doing
  faults    \* faults so far

vars == <<outbox, old, posts, w, faults>>

-----------------------------------------------------------------------------
States == {"none", "pending", "claimed", "delivered", "ambiguous"}

Settled == {"delivered", "ambiguous"}

\* attempt: the number of the claim, for the attempt identifier of the code.
Notifications == [state : States, attempt : Nat]

Phases == {"idle", "recover", "list", "claim", "post", "deliver", "giveup"}

\* todo: the notifications listed and not looked at yet; case and attempt: the
\* one in hand.
Workers == [pc : Phases, todo : SUBSET (All \X Nat), case : All, attempt : Nat]

Resting(c) == [pc |-> "idle", todo |-> {}, case |-> c, attempt |-> 0]
AnyCase == CHOOSE c \in All : TRUE

TypeOK ==
  /\ outbox \in [All -> Notifications]
  /\ \A c \in All : outbox[c].attempt = 0 <=> outbox[c].state \in {"none", "pending"}
  /\ old \in SUBSET All
  /\ posts \in [All -> Nat]
  /\ w \in [Dispatchers -> Workers]
  /\ faults \in Nat

Init ==
  /\ outbox = [c \in All |-> [state |-> "none", attempt |-> 0]]
  /\ old = {}
  /\ posts = [c \in All |-> 0]
  /\ w = [d \in Dispatchers |-> Resting(AnyCase)]
  /\ faults = 0

-----------------------------------------------------------------------------
(* The case is held, and a claim grows old.                                *)

\* The commit of the hold creates the notification in the same batch.
Hold(c) ==
  /\ outbox[c].state = "none"
  /\ outbox' = [outbox EXCEPT ![c].state = "pending"]
  /\ UNCHANGED <<old, posts, w, faults>>

ClaimAges(c) ==
  /\ outbox[c].state = "claimed" /\ c \notin old
  /\ old' = old \cup {c}
  /\ UNCHANGED <<outbox, posts, w, faults>>

-----------------------------------------------------------------------------
(* The store's transitions, for the attempt n of case c.                   *)

Fault == faults < MaxFaults /\ faults' = faults + 1

Stored(c, state) == [outbox EXCEPT ![c].state = state]

\* The document as claim_notification leaves it.
Claimed(c) == [outbox EXCEPT ![c] = [state |-> "claimed", attempt |-> @.attempt + 1]]

\* Mutant: a claim may be taken over.
MayClaimAgain(c) == outbox[c].state \in {"pending", "claimed"}

MayClaim(c) == outbox[c].state = "pending"

\* Mutant: whoever is late finishes the notification.
MayFinishAnyTime(c, n) == TRUE

\* _finish: only what this attempt claimed.
MayFinish(c, n) == outbox[c] = [state |-> "claimed", attempt |-> n]

-----------------------------------------------------------------------------
(* A pass of the dispatcher.                                               *)

\* A notification for the configured tenant and Operations user.
Ours(c) == c \in Cases

Goes(d, pc) == w' = [w EXCEPT ![d].pc = pc]

\* A pass that raises is over; the loop starts another one.
PassEnds(d) == w' = [w EXCEPT ![d] = Resting(AnyCase)]

\* Mutant: nothing is recovered.
StaleClaimsIgnored == {}

\* Our claims that are older than five minutes.
StaleClaims == {c \in old : Ours(c) /\ outbox[c].state = "claimed"}

ListClaimed(d) ==
  /\ w[d].pc = "idle"
  /\ w' = [w EXCEPT ![d].pc = "recover",
                    ![d].todo = {<<c, outbox[c].attempt>> : c \in StaleClaims}]
  /\ UNCHANGED <<outbox, old, posts, faults>>

\* Mutant: an interrupted notification is made pending again.
RecoveredAs == "pending"

\* What becomes of an interrupted claim: staff look at it, nobody posts it again.
Recovered == "ambiguous"

Recover(d) ==
  /\ w[d].pc = "recover"
  /\ \E x \in w[d].todo :
       /\ outbox' = IF MayFinish(x[1], x[2]) THEN Stored(x[1], Recovered) ELSE outbox
       /\ w' = [w EXCEPT ![d].todo = @ \ {x}]
  /\ UNCHANGED <<old, posts, faults>>

RecoverEnds(d) ==
  /\ w[d].pc = "recover" /\ w[d].todo = {}
  /\ Goes(d, "list")
  /\ UNCHANGED <<outbox, old, posts, faults>>

\* Some Limit of the pending notifications, whoever they are for.
Listed ==
  LET pending == {c \in All : outbox[c].state = "pending"} IN
  IF Cardinality(pending) <= Limit THEN {pending}
  ELSE {s \in SUBSET pending : Cardinality(s) = Limit}

ListPending(d) ==
  /\ w[d].pc = "list"
  /\ \E s \in Listed : w' = [w EXCEPT ![d].pc = "claim", ![d].todo = s \X {0}]
  /\ UNCHANGED <<outbox, old, posts, faults>>

Claim(d) ==
  /\ w[d].pc = "claim"
  /\ \E x \in w[d].todo :
       LET c == x[1] IN
       IF Ours(c) /\ MayClaim(c)
       THEN /\ outbox' = Claimed(c)
            /\ w' = [w EXCEPT ![d].pc = "post", ![d].todo = @ \ {x}, ![d].case = c,
                              ![d].attempt = outbox[c].attempt + 1]
       ELSE /\ w' = [w EXCEPT ![d].todo = @ \ {x}]
            /\ UNCHANGED outbox
  /\ UNCHANGED <<old, posts, faults>>

ClaimsEnd(d) ==
  /\ w[d].pc = "claim" /\ w[d].todo = {}
  /\ PassEnds(d)
  /\ UNCHANGED <<outbox, old, posts, faults>>

\* The card is accepted and its receipt arrives; or it is not known to be, and
\* Teams may have accepted it all the same.
Post(d) ==
  LET c == w[d].case IN
  /\ w[d].pc = "post"
  /\ \/ posts' = [posts EXCEPT ![c] = @ + 1] /\ Goes(d, "deliver")
     \/ posts' = [posts EXCEPT ![c] = @ + 1] /\ Goes(d, "giveup")
     \/ UNCHANGED posts /\ Goes(d, "giveup")
  /\ UNCHANGED <<outbox, old, faults>>

\* mark_delivered; a Conflict is an exception like any other.
Deliver(d) ==
  LET c == w[d].case IN
  /\ w[d].pc = "deliver"
  /\ IF MayFinish(c, w[d].attempt)
     THEN outbox' = Stored(c, "delivered") /\ Goes(d, "claim")
     ELSE UNCHANGED outbox /\ Goes(d, "giveup")
  /\ UNCHANGED <<old, posts, faults>>

\* mark_ambiguous; a Conflict is let pass.
GiveUp(d) ==
  LET c == w[d].case IN
  /\ w[d].pc = "giveup"
  /\ outbox' = IF MayFinish(c, w[d].attempt) THEN Stored(c, "ambiguous") ELSE outbox
  /\ Goes(d, "claim")
  /\ UNCHANGED <<old, posts, faults>>

\* A call of the store raises after it was applied, or before: delivery turns
\* to giving up, anything else ends the pass.
Raises(d) ==
  /\ Fault
  /\ CASE w[d].pc = "deliver" -> Goes(d, "giveup")
       [] w[d].pc \in {"idle", "post"} -> FALSE
       [] OTHER -> PassEnds(d)
  /\ UNCHANGED <<old, posts>>
  /\ \/ UNCHANGED outbox
     \/ /\ w[d].pc = "recover"
        /\ \E x \in w[d].todo : MayFinish(x[1], x[2]) /\ outbox' = Stored(x[1], Recovered)
     \/ /\ w[d].pc = "claim"
        /\ \E x \in w[d].todo : Ours(x[1]) /\ MayClaim(x[1]) /\ outbox' = Claimed(x[1])
     \/ /\ w[d].pc \in {"deliver", "giveup"}
        /\ MayFinish(w[d].case, w[d].attempt)
        /\ outbox' = Stored(w[d].case, IF w[d].pc = "deliver" THEN "delivered" ELSE "ambiguous")

\* The process stops; its successor starts with a pass of its own.
Crash(d) ==
  /\ w[d].pc # "idle"
  /\ Fault
  /\ PassEnds(d)
  /\ UNCHANGED <<outbox, old, posts>>

Works(d) ==
  \/ ListClaimed(d) \/ Recover(d) \/ RecoverEnds(d) \/ ListPending(d)
  \/ Claim(d) \/ ClaimsEnd(d) \/ Post(d) \/ Deliver(d) \/ GiveUp(d)

Next ==
  \/ \E c \in All : Hold(c) \/ ClaimAges(c)
  \/ \E d \in Dispatchers : Works(d) \/ Raises(d) \/ Crash(d)

\* The loops run and time passes; nothing else is promised.
Fairness ==
  /\ \A d \in Dispatchers : WF_vars(Works(d))
  /\ \A c \in All : WF_vars(ClaimAges(c))

Spec == Init /\ [][Next]_vars
FairSpec == Spec /\ Fairness

-----------------------------------------------------------------------------
(* Properties.                                                             *)

\* Operations get at most one card for a case, whatever crashes, times out or
\* is recovered by another replica, and none for a case of another authority; a
\* pending notification was never posted and a delivered one was.
AtMostOneCard ==
  \A c \in All :
    /\ posts[c] <= IF c \in Cases THEN 1 ELSE 0
    /\ outbox[c].state \in {"none", "pending"} => posts[c] = 0
    /\ outbox[c].state = "delivered" => posts[c] = 1

\* Every step is one of the promise to Operations: a claim is the only attempt, a
\* delivery on record was seen, and an outcome on record stands, although a late
\* worker and the recovery that overtook it both write it.
Notice ==
  INSTANCE CaseNotice WITH
    Own    <- Cases,
    Others <- Foreign,
    notice <- [c \in All |-> outbox[c].state],
    cards  <- posts

ImplementsNotice == Notice!Spec

\* Every held case is brought to a known end, a receipt or staff attention,
\* after any finite number of faults, while the notifications of another
\* authority are fewer than one query returns.
EveryCaseSettles ==
  \A c \in Cases : outbox[c].state = "pending" ~> outbox[c].state \in Settled

=============================================================================
