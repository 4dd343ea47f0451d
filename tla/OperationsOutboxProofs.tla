----------------------- MODULE OperationsOutboxProofs -----------------------
(***************************************************************************)
(* Proofs about OperationsOutbox for every number of cases, dispatchers    *)
(* and faults.                                                             *)
(*                                                                         *)
(* The argument: a notification is claimed once, because nothing makes it  *)
(* pending again.  So at most one dispatcher ever has the case in hand     *)
(* before its card is posted, and whoever has it posts it once.            *)
(***************************************************************************)
EXTENDS OperationsOutbox, TLAPS

\* Dispatcher d, in the state x of all of them, has a case in hand.
InHand(x, d) == x[d].pc \in {"post", "deliver", "giveup"}

\* What is known of a case in hand, of notifications o and cards p.
HandOK(x, o, p) ==
  /\ \A d \in Dispatchers : InHand(x, d) =>
       x[d].case \in Cases /\ o[x[d].case].state \notin {"none", "pending"}
  /\ \A d \in Dispatchers : x[d].pc = "post" => p[x[d].case] = 0
  /\ \A d \in Dispatchers : x[d].pc = "deliver" => p[x[d].case] = 1
  /\ \A d, e \in Dispatchers :
       x[d].pc = "post" /\ InHand(x, e) /\ x[d].case = x[e].case => d = e

\* The number of the claim tells whether there was one.
NotificationOK(n) == n \in Notifications /\ (n.attempt = 0 <=> n.state \in {"none", "pending"})

IInv == TypeOK /\ AtMostOneCard /\ HandOK(w, outbox, posts)

LEMMA AnyCaseExists == AnyCase \in All
BY OutboxAssumption DEF AnyCase, All

LEMMA RestingWorks ==
  /\ Resting(AnyCase) \in Workers
  /\ Resting(AnyCase).pc = "idle"
BY AnyCaseExists DEF Resting, Workers, Phases

LEMMA InitIInv == Init => IInv
<1>. SUFFICES ASSUME Init PROVE IInv
  OBVIOUS
<1>1. TypeOK
  BY RestingWorks DEF Init, TypeOK, Notifications, States
<1>2. AtMostOneCard
  BY DEF Init, AtMostOneCard
<1>3. HandOK(w, outbox, posts)
  BY RestingWorks DEF Init, HandOK, InHand
<1>. QED BY <1>1, <1>2, <1>3 DEF IInv

\* A step that changes no card and at most the notification of one case, never
\* to pending, and lets a dispatcher go on or put its case down.
LEMMA QuietStep ==
  ASSUME IInv, NEW c \in All, NEW n, NotificationOK(n),
         outbox' = outbox \/ outbox' = [outbox EXCEPT ![c] = n],
         n.state \in {"none", "pending"} => posts[c] = 0 /\ outbox[c].state \in {"none", "pending"},
         n.state = "delivered" => posts[c] = 1,
         NEW d \in Dispatchers, NEW v \in Workers,
         w' = w \/ w' = [w EXCEPT ![d] = v],
         \/ v.pc \notin {"post", "deliver", "giveup"}
         \/ v.pc = "giveup" /\ InHand(w, d) /\ w[d].pc # "post" /\ v.case = w[d].case,
         posts' = posts, old' \subseteq All, faults' \in Nat
  PROVE  IInv'
<1>1. TypeOK'
  BY DEF IInv, TypeOK, NotificationOK
<1>2. \A x \in All : \/ outbox'[x] = outbox[x]
                     \/ x = c /\ outbox'[x] = n
  BY DEF IInv, TypeOK
<1>3. \A e \in Dispatchers : \/ w'[e] = w[e]
                             \/ e = d /\ w'[e] = v
  BY DEF IInv, TypeOK
<1>4. AtMostOneCard'
  BY <1>2 DEF IInv, AtMostOneCard
<1>5. \A e \in Dispatchers : InHand(w', e) => InHand(w, e) /\ w'[e].case = w[e].case
  BY <1>3 DEF InHand
<1>6. \A e \in Dispatchers : w[e].case \in All
  BY DEF IInv, TypeOK, Workers
<1>7. \A e \in Dispatchers : InHand(w', e) =>
        w'[e].case \in Cases /\ outbox'[w'[e].case].state \notin {"none", "pending"}
  BY <1>2, <1>5, <1>6 DEF IInv, HandOK
<1>8. \A e \in Dispatchers : w'[e].pc \in {"post", "deliver"} => w'[e] = w[e]
  BY <1>3
<1>9. /\ \A e \in Dispatchers : w'[e].pc = "post" => posts'[w'[e].case] = 0
      /\ \A e \in Dispatchers : w'[e].pc = "deliver" => posts'[w'[e].case] = 1
  BY <1>8 DEF IInv, HandOK
<1>10. \A e, f \in Dispatchers :
         w'[e].pc = "post" /\ InHand(w', f) /\ w'[e].case = w'[f].case => e = f
  BY <1>5, <1>8 DEF IInv, HandOK
<1>. QED BY <1>1, <1>4, <1>7, <1>9, <1>10 DEF IInv, HandOK

\* The successful claim: the one step that takes a case in hand.
LEMMA ClaimStep ==
  ASSUME IInv, NEW c \in Cases, MayClaim(c), outbox' = Claimed(c),
         NEW d \in Dispatchers, NEW v \in Workers, v.pc = "post", v.case = c,
         w' = [w EXCEPT ![d] = v], UNCHANGED <<posts, old, faults>>
  PROVE  IInv'
<1>1. c \in All
  BY DEF All
<1>2. /\ outbox[c] \in Notifications
      /\ posts[c] = 0
      /\ outbox'[c].state = "claimed" /\ outbox'[c].attempt \in Nat \ {0}
      /\ outbox'[c] \in Notifications
      /\ \A x \in All : x # c => outbox'[x] = outbox[x]
      /\ outbox' \in [All -> Notifications]
  BY <1>1 DEF IInv, TypeOK, MayClaim, Claimed, Notifications, States, AtMostOneCard
<1>3. w'[d] = v /\ \A e \in Dispatchers : e # d => w'[e] = w[e]
  BY DEF IInv, TypeOK
<1>4. \A e \in Dispatchers : w[e].case \in All
  BY DEF IInv, TypeOK, Workers
<1>5. \A e \in Dispatchers : InHand(w, e) => w[e].case # c
  BY DEF IInv, HandOK, MayClaim
<1>6. TypeOK'
  BY <1>2 DEF IInv, TypeOK
<1>7. AtMostOneCard'
  BY <1>2 DEF IInv, AtMostOneCard
<1>8. \A e \in Dispatchers : InHand(w', e) =>
        w'[e].case \in Cases /\ outbox'[w'[e].case].state \notin {"none", "pending"}
  <2>. SUFFICES ASSUME NEW e \in Dispatchers, InHand(w', e)
                PROVE  w'[e].case \in Cases /\ outbox'[w'[e].case].state \notin {"none", "pending"}
    OBVIOUS
  <2>1. CASE e = d
    BY <1>2, <1>3, <2>1
  <2>2. CASE e # d
    <3>1. w'[e] = w[e] /\ InHand(w, e) /\ w[e].case \in All /\ w[e].case # c
      BY <1>3, <1>4, <1>5, <2>2 DEF InHand
    <3>. QED BY <1>2, <3>1 DEF IInv, HandOK
  <2>. QED BY <2>1, <2>2
<1>9. \A e \in Dispatchers : w'[e].pc = "post" => posts'[w'[e].case] = 0
  BY <1>2, <1>3 DEF IInv, HandOK
<1>10. \A e \in Dispatchers : w'[e].pc = "deliver" => posts'[w'[e].case] = 1
  BY <1>3 DEF IInv, HandOK
<1>11. \A e, f \in Dispatchers :
         w'[e].pc = "post" /\ InHand(w', f) /\ w'[e].case = w'[f].case => e = f
  <2>1. \A e \in Dispatchers : e # d /\ InHand(w', e) => w'[e] = w[e] /\ InHand(w, e) /\ w'[e].case # c
    BY <1>3, <1>5 DEF InHand
  <2>2. \A e \in Dispatchers : w'[e].pc = "post" => InHand(w', e)
    BY DEF InHand
  <2>3. w'[d].case = c
    BY <1>3
  <2>. SUFFICES ASSUME NEW e \in Dispatchers, NEW f \in Dispatchers,
                       w'[e].pc = "post", InHand(w', f), w'[e].case = w'[f].case
                PROVE  e = f
    OBVIOUS
  <2>4. e = d <=> f = d
    BY <2>1, <2>2, <2>3
  <2>5. CASE e # d
    BY <2>1, <2>2, <2>4, <2>5 DEF IInv, HandOK
  <2>. QED BY <2>4, <2>5
<1>. QED BY <1>6, <1>7, <1>8, <1>9, <1>10, <1>11 DEF IInv, HandOK

\* The post: the one step that may put a card up.
LEMMA PostStep ==
  ASSUME IInv, NEW d \in Dispatchers, Post(d)
  PROVE  IInv'
<1>0. PICK c : c = w[d].case
  OBVIOUS
<1>1. c \in Cases /\ c \in All /\ posts[c] = 0 /\ outbox[c].state \notin {"none", "pending"}
  BY <1>0 DEF IInv, HandOK, InHand, Post, All
<1>2. PICK pc \in {"deliver", "giveup"} :
         /\ w' = [w EXCEPT ![d].pc = pc]
         /\ (pc = "giveup" /\ posts' = posts) \/ posts' = [posts EXCEPT ![c] = posts[c] + 1]
  BY <1>0 DEF Post, Goes
<1>3. w[d].pc = "post" /\ outbox' = outbox /\ old' = old /\ faults' = faults
  BY DEF Post
<1>4. /\ w \in [Dispatchers -> Workers] /\ w[d] \in Workers
      /\ posts \in [All -> Nat]
      /\ \A e \in Dispatchers : w[e].case \in All
  BY DEF IInv, TypeOK, Workers
<1>5. outbox[c].state # "delivered"
  <2>1. outbox[c].state = "delivered" => posts[c] = 1
    BY <1>1 DEF IInv, AtMostOneCard
  <2>2. posts[c] # 1
    BY <1>1, <1>4
  <2>. QED BY <2>1, <2>2
<1>6. \A e \in Dispatchers : InHand(w, e) /\ w[e].case = c => e = d
  BY <1>0, <1>3 DEF IInv, HandOK
<1>7. InHand(w, d)
  BY <1>3 DEF InHand
<1>. DEFINE v == [w[d] EXCEPT !.pc = pc]
<1>8. v \in Workers /\ v.pc = pc /\ v.case = c
  BY <1>0, <1>4 DEF Workers, Phases
<1>9. w' = [w EXCEPT ![d] = v]
  BY <1>2, <1>4
<1>. HIDE DEF v
<1>10. w'[d] = v /\ (\A e \in Dispatchers : e # d => w'[e] = w[e]) /\ w' \in [Dispatchers -> Workers]
  BY <1>4, <1>8, <1>9
<1>11. /\ posts' \in [All -> Nat]
       /\ posts'[c] = 0 \/ posts'[c] = 1
       /\ pc = "deliver" => posts'[c] = 1
       /\ \A x \in All : x # c => posts'[x] = posts[x]
  <2>1. CASE posts' = posts /\ pc = "giveup"
    BY <1>1, <1>4, <2>1
  <2>2. CASE posts' = [posts EXCEPT ![c] = posts[c] + 1]
    <3>1. posts \in [All -> Nat] /\ c \in All
      BY <1>1, <1>4
    <3>2. /\ posts' \in [All -> Nat]
          /\ posts'[c] = posts[c] + 1
          /\ \A x \in All : x # c => posts'[x] = posts[x]
      BY <2>2, <3>1
    <3>. QED BY <1>1, <3>1, <3>2
  <2>. QED BY <1>2, <2>1, <2>2
<1>12. TypeOK'
  BY <1>3, <1>10, <1>11 DEF IInv, TypeOK
\* Nobody else has the case in hand, and it is not delivered before it is posted.
<1>13. AtMostOneCard'
  <2>. SUFFICES ASSUME NEW x \in All
                PROVE  /\ posts'[x] <= IF x \in Cases THEN 1 ELSE 0
                       /\ outbox'[x].state \in {"none", "pending"} => posts'[x] = 0
                       /\ outbox'[x].state = "delivered" => posts'[x] = 1
    BY DEF AtMostOneCard
  <2>1. CASE x = c
    BY <1>1, <1>3, <1>5, <1>11, <2>1
  <2>2. CASE x # c
    BY <1>3, <1>11, <2>2 DEF IInv, AtMostOneCard
  <2>. QED BY <2>1, <2>2
<1>14. \A e \in Dispatchers : InHand(w', e) =>
         /\ InHand(w, e) /\ w'[e].case = w[e].case
         /\ e # d => w'[e] = w[e] /\ w[e].case # c
  BY <1>0, <1>6, <1>7, <1>8, <1>10 DEF InHand
<1>15. w'[d].case = c /\ w'[d].pc = pc
  BY <1>8, <1>10
<1>16. \A e \in Dispatchers : InHand(w', e) =>
         w'[e].case \in Cases /\ outbox'[w'[e].case].state \notin {"none", "pending"}
  BY <1>3, <1>14 DEF IInv, HandOK
<1>17. \A e \in Dispatchers : w'[e].pc \in {"post", "deliver"} => InHand(w', e)
  BY DEF InHand
<1>18. \A e \in Dispatchers : w'[e].pc = "post" => posts'[w'[e].case] = 0
  <2>. SUFFICES ASSUME NEW e \in Dispatchers, w'[e].pc = "post" PROVE posts'[w'[e].case] = 0
    OBVIOUS
  <2>1. e # d /\ w'[e] = w[e] /\ w[e].case # c /\ w[e].case \in All
    BY <1>4, <1>14, <1>15, <1>17
  <2>. QED BY <1>11, <2>1 DEF IInv, HandOK
<1>19. \A e \in Dispatchers : w'[e].pc = "deliver" => posts'[w'[e].case] = 1
  <2>. SUFFICES ASSUME NEW e \in Dispatchers, w'[e].pc = "deliver" PROVE posts'[w'[e].case] = 1
    OBVIOUS
  <2>1. CASE e = d
    BY <1>11, <1>15, <2>1
  <2>2. CASE e # d
    <3>1. w'[e] = w[e] /\ w[e].case # c /\ w[e].case \in All
      BY <1>4, <1>14, <1>17, <2>2
    <3>. QED BY <1>11, <3>1 DEF IInv, HandOK
  <2>. QED BY <2>1, <2>2
<1>20. \A e, f \in Dispatchers :
         w'[e].pc = "post" /\ InHand(w', f) /\ w'[e].case = w'[f].case => e = f
  <2>. SUFFICES ASSUME NEW e \in Dispatchers, NEW f \in Dispatchers,
                       w'[e].pc = "post", InHand(w', f), w'[e].case = w'[f].case
                PROVE  e = f
    OBVIOUS
  <2>1. e # d /\ w'[e] = w[e] /\ w[e].case # c
    BY <1>14, <1>15, <1>17
  <2>2. InHand(w, f) /\ w'[f].case = w[f].case
    BY <1>14
  <2>. QED BY <2>1, <2>2 DEF IInv, HandOK
<1>. QED BY <1>12, <1>13, <1>16, <1>18, <1>19, <1>20 DEF IInv, HandOK

\* What an attempt that still holds its claim makes of a notification.
LEMMA Finished ==
  ASSUME IInv, NEW c \in All, NEW n, MayFinish(c, n),
         NEW state \in {"delivered", "ambiguous"}
  PROVE  /\ NotificationOK([outbox[c] EXCEPT !.state = state])
         /\ [outbox[c] EXCEPT !.state = state].state = state
         /\ Stored(c, state) = [outbox EXCEPT ![c] = [outbox[c] EXCEPT !.state = state]]
BY DEF IInv, TypeOK, MayFinish, Stored, NotificationOK, Notifications, States

\* Nothing happens to the notifications.
LEMMA Kept ==
  ASSUME IInv
  PROVE  \A c \in All : /\ NotificationOK(outbox[c])
                        /\ outbox = [outbox EXCEPT ![c] = outbox[c]]
                        /\ outbox[c].state \in {"none", "pending"} => posts[c] = 0
                        /\ outbox[c].state = "delivered" => posts[c] = 1
BY DEF IInv, TypeOK, NotificationOK, AtMostOneCard

LEMMA StepIInv == IInv /\ [Next]_vars => IInv'
<1>. SUFFICES ASSUME IInv, [Next]_vars PROVE IInv'
  OBVIOUS
<1>0. /\ AnyCase \in All /\ NotificationOK(outbox[AnyCase])
      /\ outbox[AnyCase].state \in {"none", "pending"} => posts[AnyCase] = 0
      /\ outbox[AnyCase].state = "delivered" => posts[AnyCase] = 1
      /\ old \subseteq All /\ faults \in Nat
      /\ w \in [Dispatchers -> Workers]
  BY Kept, AnyCaseExists DEF IInv, TypeOK
<1>1. ASSUME NEW c \in All, Hold(c) PROVE IInv'
  <2>1. /\ outbox'[c].state = "pending" /\ outbox'[c].attempt = 0
        /\ outbox' \in [All -> Notifications]
        /\ \A x \in All : x # c => outbox'[x] = outbox[x]
        /\ outbox[c].state = "none"
    BY <1>1 DEF Hold, IInv, TypeOK, Notifications, States
  <2>2. TypeOK' /\ AtMostOneCard'
    BY <1>1, <2>1 DEF Hold, IInv, TypeOK, AtMostOneCard
  <2>3. \A e \in Dispatchers : InHand(w, e) => w[e].case # c /\ w[e].case \in All
    BY <2>1, <1>0 DEF IInv, HandOK, Workers
  <2>4. HandOK(w', outbox', posts')
    BY <1>1, <2>1, <2>3 DEF Hold, IInv, HandOK, InHand
  <2>. QED BY <2>2, <2>4 DEF IInv
<1>2. ASSUME NEW c \in All, ClaimAges(c) PROVE IInv'
  BY <1>2 DEF ClaimAges, IInv, TypeOK, AtMostOneCard, HandOK, InHand
<1>3. ASSUME NEW d \in Dispatchers, ListClaimed(d) PROVE IInv'
  <2>. DEFINE v == [w[d] EXCEPT !.pc = "recover",
                                !.todo = {<<c, outbox[c].attempt>> : c \in StaleClaims}]
  <2>1. StaleClaims \subseteq All /\ \A c \in All : outbox[c].attempt \in Nat
    BY <1>0 DEF StaleClaims, IInv, TypeOK, Notifications
  <2>2. v \in Workers /\ v.pc = "recover"
    <3>1. {<<c, outbox[c].attempt>> : c \in StaleClaims} \subseteq All \X Nat
      BY <2>1
    <3>. QED BY <1>0, <3>1 DEF Workers, Phases
  <2>3. w' = [w EXCEPT ![d] = v]
    BY <1>0, <1>3 DEF ListClaimed
  <2>. QED BY <1>0, <1>3, <2>2, <2>3, QuietStep DEF ListClaimed
<1>4. ASSUME NEW d \in Dispatchers, Recover(d) PROVE IInv'
  <2>1. PICK x \in w[d].todo :
          /\ outbox' = IF MayFinish(x[1], x[2]) THEN Stored(x[1], Recovered) ELSE outbox
          /\ w' = [w EXCEPT ![d].todo = @ \ {x}]
    BY <1>4 DEF Recover
  <2>2. x[1] \in All
    BY <1>0 DEF Workers
  <2>. DEFINE v == [w[d] EXCEPT !.todo = @ \ {x}]
  <2>3. v \in Workers /\ v.pc = "recover" /\ w' = [w EXCEPT ![d] = v]
    BY <1>0, <1>4, <2>1 DEF Workers, Recover
  <2>4. CASE MayFinish(x[1], x[2])
    <3>. DEFINE n == [outbox[x[1]] EXCEPT !.state = "ambiguous"]
    <3>1. NotificationOK(n) /\ n.state = "ambiguous" /\ outbox' = [outbox EXCEPT ![x[1]] = n]
      BY <2>1, <2>2, <2>4, Finished DEF Recovered
    <3>. QED BY <1>0, <1>4, <2>2, <2>3, <3>1, QuietStep DEF Recover
  <2>5. CASE ~MayFinish(x[1], x[2])
    BY <1>0, <1>4, <2>1, <2>3, <2>5, QuietStep DEF Recover
  <2>. QED BY <2>4, <2>5
<1>5. ASSUME NEW d \in Dispatchers, RecoverEnds(d) PROVE IInv'
  <2>. DEFINE v == [w[d] EXCEPT !.pc = "list"]
  <2>1. v \in Workers /\ v.pc = "list" /\ w' = [w EXCEPT ![d] = v]
    BY <1>0, <1>5 DEF Workers, Phases, RecoverEnds, Goes
  <2>. QED BY <1>0, <1>5, <2>1, QuietStep DEF RecoverEnds
<1>6. ASSUME NEW d \in Dispatchers, ListPending(d) PROVE IInv'
  <2>1. PICK s \in Listed : w' = [w EXCEPT ![d].pc = "claim", ![d].todo = s \X {0}]
    BY <1>6 DEF ListPending
  <2>2. s \subseteq All
    BY DEF Listed
  <2>. DEFINE v == [w[d] EXCEPT !.pc = "claim", !.todo = s \X {0}]
  <2>3. v \in Workers /\ v.pc = "claim"
    <3>1. s \X {0} \in SUBSET (All \X Nat)
      BY <2>2
    <3>. QED BY <1>0, <3>1 DEF Workers, Phases
  <2>4. w' = [w EXCEPT ![d] = v]
    BY <1>0, <2>1
  <2>. QED BY <1>0, <1>6, <2>3, <2>4, QuietStep DEF ListPending
<1>7. ASSUME NEW d \in Dispatchers, Claim(d) PROVE IInv'
  <2>1. PICK x \in w[d].todo :
          IF Ours(x[1]) /\ MayClaim(x[1])
          THEN /\ outbox' = Claimed(x[1])
               /\ w' = [w EXCEPT ![d].pc = "post", ![d].todo = @ \ {x}, ![d].case = x[1],
                                 ![d].attempt = outbox[x[1]].attempt + 1]
          ELSE /\ w' = [w EXCEPT ![d].todo = @ \ {x}]
               /\ UNCHANGED outbox
    BY <1>7 DEF Claim
  <2>2. x[1] \in All
    BY <1>0 DEF Workers
  <2>3. CASE Ours(x[1]) /\ MayClaim(x[1])
    <3>. DEFINE v == [w[d] EXCEPT !.pc = "post", !.todo = @ \ {x}, !.case = x[1],
                                  !.attempt = outbox[x[1]].attempt + 1]
    <3>1. outbox[x[1]].attempt \in Nat
      BY <2>2 DEF IInv, TypeOK, Notifications
    <3>2. v \in Workers /\ v.pc = "post" /\ v.case = x[1]
      <4>1. w[d] \in Workers /\ w[d].todo \ {x} \in SUBSET (All \X Nat)
        BY <1>0 DEF Workers
      <4>2. outbox[x[1]].attempt + 1 \in Nat
        BY <3>1
      <4>. QED BY <2>2, <4>1, <4>2 DEF Workers, Phases
    <3>3. w' = [w EXCEPT ![d] = v]
      BY <1>0, <2>1, <2>3
    <3>4. x[1] \in Cases
      BY <2>3 DEF Ours
    <3>. QED BY <1>7, <2>1, <2>3, <3>2, <3>3, <3>4, ClaimStep DEF Claim
  <2>4. CASE ~(Ours(x[1]) /\ MayClaim(x[1]))
    <3>. DEFINE v == [w[d] EXCEPT !.todo = @ \ {x}]
    <3>1. v \in Workers /\ v.pc = "claim" /\ w' = [w EXCEPT ![d] = v]
      BY <1>0, <1>7, <2>1, <2>4 DEF Workers, Claim
    <3>. QED BY <1>0, <1>7, <2>1, <2>4, <3>1, QuietStep DEF Claim
  <2>. QED BY <2>3, <2>4
<1>8. ASSUME NEW d \in Dispatchers, PassEnds(d), UNCHANGED <<outbox, old, posts>>, faults' \in Nat
      PROVE IInv'
  BY <1>0, <1>8, RestingWorks, QuietStep DEF PassEnds
<1>9. ASSUME NEW d \in Dispatchers, Deliver(d) \/ GiveUp(d) PROVE IInv'
  <2>. DEFINE c == w[d].case
  <2>1. InHand(w, d) /\ c \in All
    BY <1>0, <1>9 DEF Deliver, GiveUp, InHand, Workers
  <2>2. PICK pc \in {"claim", "giveup"} :
          /\ w' = [w EXCEPT ![d].pc = pc]
          /\ w[d].pc # "post"
          /\ pc = "giveup" => outbox' = outbox
    BY <1>9 DEF Deliver, GiveUp, Goes
  <2>. DEFINE v == [w[d] EXCEPT !.pc = pc]
  <2>3. v \in Workers /\ v.pc = pc /\ v.case = c /\ w' = [w EXCEPT ![d] = v]
    BY <1>0, <2>2 DEF Workers, Phases
  <2>4. CASE outbox' = outbox
    BY <1>0, <1>9, <2>1, <2>2, <2>3, <2>4, QuietStep DEF Deliver, GiveUp
  <2>5. CASE outbox' # outbox
    <3>1. PICK state \in {"delivered", "ambiguous"} :
            /\ MayFinish(c, w[d].attempt) /\ outbox' = Stored(c, state)
            /\ state = "delivered" => w[d].pc = "deliver"
      BY <1>9, <2>5 DEF Deliver, GiveUp
    <3>. DEFINE n == [outbox[c] EXCEPT !.state = state]
    <3>2. NotificationOK(n) /\ n.state = state /\ outbox' = [outbox EXCEPT ![c] = n]
      BY <2>1, <3>1, Finished
    <3>3. n.state = "delivered" => posts[c] = 1
      BY <3>1, <3>2 DEF IInv, HandOK
    <3>. QED BY <1>0, <1>9, <2>1, <2>2, <2>3, <3>2, <3>3, QuietStep DEF Deliver, GiveUp
  <2>. QED BY <2>4, <2>5
<1>10. ASSUME NEW d \in Dispatchers, Raises(d) PROVE IInv'
  <2>0. Fault /\ posts' = posts /\ old' = old
    BY <1>10 DEF Raises
  <2>1. faults' \in Nat /\ posts' = posts /\ old' = old /\ w[d] \in Workers
    BY <1>0, <2>0 DEF Fault
  <2>2. PICK v \in Workers :
          /\ w' = [w EXCEPT ![d] = v]
          /\ \/ v.pc = "idle"
             \/ v.pc = "giveup" /\ w[d].pc = "deliver" /\ v.case = w[d].case
    <3>1. CASE w[d].pc = "deliver"
      <4>. DEFINE v == [w[d] EXCEPT !.pc = "giveup"]
      <4>1. v \in Workers /\ v.pc = "giveup" /\ v.case = w[d].case
        BY <1>0 DEF Workers, Phases
      <4>2. w' = [w EXCEPT ![d] = v]
        BY <1>0, <1>10, <3>1 DEF Raises, Goes
      <4>. QED BY <3>1, <4>1, <4>2
    <3>2. CASE w[d].pc # "deliver"
      BY <1>10, <3>2, RestingWorks DEF Raises, PassEnds
    <3>. QED BY <3>1, <3>2
  <2>3. v.pc = "giveup" => InHand(w, d) /\ w[d].pc # "post"
    BY <2>2 DEF InHand
  <2>4. CASE outbox' = outbox
    BY <1>0, <2>1, <2>2, <2>3, <2>4, QuietStep
  <2>5. CASE \E c \in All, n \in Nat, state \in {"delivered", "ambiguous"} :
               /\ MayFinish(c, n) /\ outbox' = Stored(c, state)
               /\ state = "delivered" => w[d].pc = "deliver" /\ c = w[d].case
    <3>1. PICK c \in All, m \in Nat, state \in {"delivered", "ambiguous"} :
               /\ MayFinish(c, m) /\ outbox' = Stored(c, state)
               /\ state = "delivered" => w[d].pc = "deliver" /\ c = w[d].case
      BY <2>5
    <3>. DEFINE n == [outbox[c] EXCEPT !.state = state]
    <3>2. NotificationOK(n) /\ n.state = state /\ outbox' = [outbox EXCEPT ![c] = n]
      BY <3>1, Finished
    <3>3. n.state = "delivered" => posts[c] = 1
      BY <3>1, <3>2 DEF IInv, HandOK
    <3>. QED BY <2>1, <2>2, <2>3, <3>2, <3>3, <1>0, QuietStep
  <2>6. CASE \E c \in All : MayClaim(c) /\ outbox' = Claimed(c)
    <3>1. PICK c \in All : MayClaim(c) /\ outbox' = Claimed(c)
      BY <2>6
    <3>. DEFINE n == [state |-> "claimed", attempt |-> outbox[c].attempt + 1]
    <3>2. NotificationOK(n) /\ n.state = "claimed" /\ outbox' = [outbox EXCEPT ![c] = n]
      BY <3>1 DEF Claimed, NotificationOK, Notifications, States, IInv, TypeOK
    <3>. QED BY <2>1, <2>2, <2>3, <3>2, <1>0, QuietStep
  <2>7. \A x \in w[d].todo : x[1] \in All /\ x[2] \in Nat
    BY <2>1 DEF Workers
  <2>8. w[d].case \in All /\ w[d].attempt \in Nat
    BY <2>1 DEF Workers
  <2>9. \/ outbox' = outbox
        \/ \E x \in w[d].todo : MayFinish(x[1], x[2]) /\ outbox' = Stored(x[1], "ambiguous")
        \/ \E x \in w[d].todo : MayClaim(x[1]) /\ outbox' = Claimed(x[1])
        \/ /\ MayFinish(w[d].case, w[d].attempt)
           /\ \/ w[d].pc = "deliver" /\ outbox' = Stored(w[d].case, "delivered")
              \/ outbox' = Stored(w[d].case, "ambiguous")
    BY <1>10 DEF Raises, Recovered
  <2>. QED BY <2>4, <2>5, <2>6, <2>7, <2>8, <2>9
<1>11. CASE UNCHANGED vars
  BY <1>11 DEF vars, IInv, TypeOK, AtMostOneCard, HandOK, InHand
<1>12. ASSUME NEW d \in Dispatchers, ClaimsEnd(d) \/ Crash(d) PROVE IInv'
  BY <1>0, <1>8, <1>12 DEF ClaimsEnd, Crash, Fault
<1>. QED
  BY <1>1, <1>2, <1>3, <1>4, <1>5, <1>6, <1>7, <1>9, <1>10, <1>11, <1>12, PostStep
  DEF Next, Works

-----------------------------------------------------------------------------
\* The inductive invariant holds of every reachable state.
THEOREM Invariance == Spec => []IInv
BY InitIInv, StepIInv, PTL DEF Spec

\* Every variable keeps its type, and only claimed notifications have attempts.
THEOREM TypeCorrect == Spec => []TypeOK
<1>1. IInv => TypeOK
  BY DEF IInv
<1>. QED BY <1>1, Invariance, PTL

\* At most one card is put up for a case, for every number of dispatchers,
\* crashes, timeouts and faults of the store; none for another authority.
THEOREM OneCardAtMost == Spec => []AtMostOneCard
<1>1. IInv => AtMostOneCard
  BY DEF IInv
<1>. QED BY <1>1, Invariance, PTL

-----------------------------------------------------------------------------
(* Every step is one of CaseNotice, or none of it.                         *)

LEMMA NoticeInit == Init => Notice!Init
BY DEF Init, Notice!Init, All

\* The document of one case changes its state.
LEMMA NoticeMove ==
  ASSUME outbox \in [All -> Notifications], NEW c \in All,
         NEW n \in Notifications, outbox' = [outbox EXCEPT ![c] = n], UNCHANGED posts,
         NEW from, from = outbox[c].state, NEW to, to = n.state
  PROVE  Notice!Moves(c, from, to)
<1>. DEFINE states == [x \in All |-> outbox[x].state]
<1>1. [x \in All |-> outbox'[x].state] = [states EXCEPT ![c] = to]
  OBVIOUS
<1>. QED BY <1>1 DEF Notice!Moves

\* The transitions of the store.
LEMMA NoticeStored ==
  ASSUME IInv, IInv', NEW c \in All, UNCHANGED posts,
         \/ outbox[c].state = "none" /\ outbox' = Stored(c, "pending")
         \/ c \in Cases /\ MayClaim(c) /\ outbox' = Claimed(c)
         \/ \E m : MayFinish(c, m) /\ outbox' = Stored(c, "ambiguous")
         \/ \E m : MayFinish(c, m) /\ outbox' = Stored(c, "delivered")
  PROVE  Notice!Next
<1>0. outbox \in [All -> Notifications] /\ outbox[c] \in Notifications /\ c \in Cases \cup Foreign
  BY DEF IInv, TypeOK, All
<1>1. CASE outbox[c].state = "none" /\ outbox' = Stored(c, "pending")
  <2>. DEFINE n == [outbox[c] EXCEPT !.state = "pending"]
  <2>1. n \in Notifications /\ n.state = "pending"
    BY <1>0 DEF Notifications, States
  <2>2. outbox' = [outbox EXCEPT ![c] = n]
    BY <1>1 DEF Stored
  <2>. HIDE DEF n
  <2>3. Notice!Moves(c, "none", "pending")
    BY <1>0, <1>1, <2>1, <2>2, NoticeMove
  <2>. QED BY <1>0, <2>3 DEF Notice!Next, Notice!Hold
<1>2. CASE c \in Cases /\ MayClaim(c) /\ outbox' = Claimed(c)
  <2>. DEFINE n == [state |-> "claimed", attempt |-> outbox[c].attempt + 1]
  <2>1. n \in Notifications /\ n.state = "claimed"
    BY <1>0 DEF Notifications, States
  <2>2. outbox' = [outbox EXCEPT ![c] = n]
    BY <1>2 DEF Claimed
  <2>. HIDE DEF n
  <2>3. Notice!Moves(c, "pending", "claimed")
    BY <1>0, <1>2, <2>1, <2>2, NoticeMove DEF MayClaim
  <2>. QED BY <1>0, <1>2, <2>3 DEF Notice!Next, Notice!TakeUp
<1>3. ASSUME NEW m, MayFinish(c, m), NEW to \in {"ambiguous", "delivered"}, outbox' = Stored(c, to)
      PROVE  Notice!Next
  <2>. DEFINE n == [outbox[c] EXCEPT !.state = to]
  <2>0. to \in States /\ outbox[c].state = "claimed"
    BY <1>3 DEF States, MayFinish
  <2>1. n \in Notifications /\ n.state = to
    BY <1>0, <2>0 DEF Notifications
  <2>2. outbox' = [outbox EXCEPT ![c] = n]
    BY <1>3 DEF Stored
  <2>. HIDE DEF n
  <2>3. Notice!Moves(c, "claimed", to)
    BY <1>0, <1>3, <2>0, <2>1, <2>2, NoticeMove
  <2>4. to = "delivered" => posts[c] = 1
    BY <1>0, <2>1, <2>2 DEF IInv, AtMostOneCard
  <2>. QED BY <1>0, <2>3, <2>4 DEF Notice!Next, Notice!Deliver, Notice!LeaveToStaff
<1>. QED BY <1>1, <1>2, <1>3

\* The card, in time or late.
LEMMA NoticePost ==
  ASSUME IInv, NEW d \in Dispatchers, Post(d)
  PROVE  [Notice!Next]_(Notice!noticeVars)
<1>. PICK c : c = w[d].case
  OBVIOUS
<1>1. w[d].pc = "post" /\ UNCHANGED outbox
  BY DEF Post
<1>2. c \in Cases /\ outbox[c].state \notin {"none", "pending"} /\ posts[c] = 0
  BY <1>1 DEF IInv, HandOK, InHand
<1>3. outbox[c].state \in {"claimed", "ambiguous"} /\ c \in Cases \cup Foreign
  BY <1>2 DEF IInv, AtMostOneCard, TypeOK, All, Notifications, States
<1>4. posts' = [posts EXCEPT ![c] = 1] \/ UNCHANGED posts
  BY <1>2 DEF Post
<1>5. CASE UNCHANGED posts
  BY <1>1, <1>5 DEF Notice!noticeVars
<1>6. CASE posts' = [posts EXCEPT ![c] = 1]
  <2>1. Notice!Show(c)
    BY <1>1, <1>2, <1>3, <1>6 DEF Notice!Show, All
  <2>. QED BY <1>3, <2>1 DEF Notice!Next
<1>. QED BY <1>4, <1>5, <1>6

LEMMA NoticeStep == IInv /\ [Next]_vars => [Notice!Next]_(Notice!noticeVars)
<1>. SUFFICES ASSUME IInv, [Next]_vars PROVE [Notice!Next]_(Notice!noticeVars)
  OBVIOUS
<1>0. /\ IInv' /\ w \in [Dispatchers -> Workers]
      /\ \A d \in Dispatchers : w[d].case \in All
      /\ \A d \in Dispatchers : \A x \in w[d].todo : x[1] \in All
  BY StepIInv DEF IInv, TypeOK, Workers
<1>. DEFINE Transition(c) ==
       \/ outbox[c].state = "none" /\ outbox' = Stored(c, "pending")
       \/ c \in Cases /\ MayClaim(c) /\ outbox' = Claimed(c)
       \/ \E m : MayFinish(c, m) /\ outbox' = Stored(c, "ambiguous")
       \/ \E m : MayFinish(c, m) /\ outbox' = Stored(c, "delivered")
\* What becomes of the documents, when no card is posted.
<1>1. ASSUME UNCHANGED posts, UNCHANGED outbox \/ \E c \in All : Transition(c)
      PROVE  [Notice!Next]_(Notice!noticeVars)
  <2>1. CASE UNCHANGED outbox
    BY <1>1, <2>1 DEF Notice!noticeVars
  <2>2. CASE \E c \in All : Transition(c)
    BY <1>0, <1>1, <2>2, NoticeStored
  <2>. QED BY <1>1, <2>1, <2>2
<1>2. ASSUME NEW c \in All, Hold(c) \/ ClaimAges(c) PROVE [Notice!Next]_(Notice!noticeVars)
  <2>1. UNCHANGED posts /\ (UNCHANGED outbox \/ (outbox[c].state = "none" /\ outbox' = Stored(c, "pending")))
    BY <1>2 DEF Hold, ClaimAges, Stored
  <2>. QED BY <1>1, <2>1
<1>3. ASSUME NEW d \in Dispatchers, Works(d), ~Post(d)
      PROVE  UNCHANGED posts /\ (UNCHANGED outbox \/ \E c \in All : Transition(c))
  <2>1. CASE Recover(d)
    BY <1>0, <2>1 DEF Recover, Recovered
  <2>2. CASE Claim(d)
    BY <1>0, <2>2 DEF Claim, Ours
  <2>3. CASE Deliver(d) \/ GiveUp(d)
    BY <1>0, <2>3 DEF Deliver, GiveUp
  <2>4. CASE ListClaimed(d) \/ RecoverEnds(d) \/ ListPending(d) \/ ClaimsEnd(d)
    BY <2>4 DEF ListClaimed, RecoverEnds, ListPending, ClaimsEnd
  <2>. QED BY <1>3, <2>1, <2>2, <2>3, <2>4 DEF Works
<1>4. ASSUME NEW d \in Dispatchers, Raises(d)
      PROVE  UNCHANGED posts /\ (UNCHANGED outbox \/ \E c \in All : Transition(c))
  BY <1>0, <1>4 DEF Raises, Recovered, Ours
<1>. HIDE DEF Transition
<1>5. CASE UNCHANGED <<outbox, posts>>
  BY <1>1, <1>5
<1>. QED BY <1>1, <1>2, <1>3, <1>4, <1>5, NoticePost DEF Next, vars, Crash

\* For every number of cases, loops and faults: one attempt and at most one card
\* for a held case, delivered only when it was seen, and an outcome that stands.
THEOREM OutboxKeepsNotice == Spec => ImplementsNotice
<1>1. IInv /\ [Next]_vars => [Notice!Next]_(Notice!noticeVars)
  BY NoticeStep
<1>. QED BY <1>1, NoticeInit, Invariance, PTL DEF Spec, ImplementsNotice, Notice!Spec

=============================================================================
