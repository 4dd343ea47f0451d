------------------------- MODULE EvidenceBrokerProofs -------------------------
(***************************************************************************)
(* Proofs about EvidenceBroker for every number of roles, callers, pieces, *)
(* calls, tries and faults.                                                *)
(*                                                                         *)
(* The argument: a revision names one value of a scope, so whoever holds   *)
(* the stored revision still knows the scope it read.  A reservation is    *)
(* made of an active scope and only its holder makes the scope active      *)
(* again, so there is one holder; nobody who may replace an ended scope    *)
(* holds its revision; and the scopes that are closed are the ones that    *)
(* were verified.                                                          *)
(***************************************************************************)
EXTENDS EvidenceBroker, TLAPS

Holding == {"readback", "tool", "publish"}

\* Scope s while the controller is kk.
ScopeOK(s, kk) ==
  /\ s \in Scopes /\ Len(s.receipts) <= s.calls
  /\ s.state = "calling" => Len(s.receipts) < s.calls
  /\ \A i \in DOMAIN s.receipts : s.receipts[i].seen = kk.bound
  /\ s.state = "none" <=> kk.pc = "idle"
  /\ s.state = "none" => s.rev = 0 /\ s.receipts = <<>>

\* A call x under way on the scope s: what it knows when s is at its revision.
CallOK(x, s, kk) ==
  /\ kk.pc # "idle"
  /\ x.rev <= s.rev
  /\ x.pc \in Holding \cup {"reserve"} => x.piece \in Evidence
  /\ x.pc = "reserve" /\ x.rev = s.rev => s.state = "active" /\ s.calls < MaxCalls
  /\ x.pc \in Holding => s.state # "active"
  /\ x.pc \in {"tool", "publish"} /\ x.rev = s.rev => s.state = "calling"
  /\ x.pc = "publish" => x.seen = kk.bound
  /\ x.pc = "revoke" /\ x.rev = s.rev => s.state \notin Ended
  /\ x.pc = "fail" => x.tries < MaxTries

WorkOK(x, sc, kk) == x = NoCall \/ (x \in Calls /\ CallOK(x, sc[x.role], kk))

Whole(s) == {s.receipts[i].piece : i \in DOMAIN s.receipts} = Evidence

\* The controller kk over the scopes sc.
ControllerOK(kk, sc) ==
  /\ kk \in Controllers
  /\ \A r \in Roles : kk.held[r] <= sc[r].rev
  /\ kk.pc = "verify" =>
       \A r \in Roles \ kk.todo : kk.held[r] = sc[r].rev => sc[r].state = "active" /\ Whole(sc[r])
  /\ kk.pc = "close" =>
       \A r \in Roles : kk.held[r] = sc[r].rev => sc[r].state = "active" /\ Whole(sc[r])
  /\ kk.pc = "check" => \A r \in Roles : sc[r].state = "closed" /\ Whole(sc[r])

OneHolder(ww) ==
  \A c, d \in Workers :
    ww[c].pc \in Holding /\ ww[d].pc \in Holding /\ ww[c].role = ww[d].role => c = d

Rest == source \in Nat /\ expired \in BOOLEAN /\ faults \in Nat

\* Functions of their domains.
Shape(sc, ww) == sc = [r \in Roles |-> sc[r]] /\ ww = [c \in Workers |-> ww[c]]

IInv ==
  /\ Shape(scope, w)
  /\ \A r \in Roles : ScopeOK(scope[r], k)
  /\ \A c \in Workers : WorkOK(w[c], scope, k)
  /\ ControllerOK(k, scope)
  /\ OneHolder(w)
  /\ Rest

\* An ended scope is left alone.
EndedStand == \A r \in Roles : scope[r].state \in Ended => scope'[r] = scope[r]

LEMMA NoCallIsIdle == NoCall.pc = "idle" /\ NoCall.pc \notin Holding
BY DEF NoCall, Holding

LEMMA CallTypes ==
  ASSUME NEW x \in Calls
  PROVE  /\ x.pc \in {"reserve", "readback", "tool", "publish", "fail", "revoke"}
         /\ x.role \in Roles /\ x.piece \in Evidence \cup {NoPiece}
         /\ x.rev \in Nat /\ x.seen \in Nat /\ x.tries \in 0..MaxTries
BY DEF Calls

LEMMA InitIInv == Init => IInv
<1>. SUFFICES ASSUME Init PROVE IInv
  OBVIOUS
<1>1. \A r \in Roles : ScopeOK(scope[r], k)
  BY BrokerAssumption DEF Init, ScopeOK, Scopes, States
<1>2. ControllerOK(k, scope)
  BY DEF Init, ControllerOK, Controllers
<1>3. Rest
  BY DEF Init, Rest
<1>4. OneHolder(w) /\ \A c \in Workers : WorkOK(w[c], scope, k)
  BY NoCallIsIdle DEF Init, OneHolder, WorkOK
<1>5. Shape(scope, w)
  BY DEF Init, Shape
<1>. QED BY <1>1, <1>2, <1>3, <1>4, <1>5 DEF IInv

-----------------------------------------------------------------------------
(* The two kinds of step of a call.                                        *)

\* A call goes on and the scopes stay as they are.
LEMMA CallMoves ==
  ASSUME IInv, NEW c \in Workers, NEW x, WorkOK(x, scope, k),
         x.pc \in Holding => w[c].pc \in Holding /\ w[c].role = x.role,
         w' = [w EXCEPT ![c] = x],
         scope' = scope, k'.bound = k.bound, k'.pc = "idle" <=> k.pc = "idle",
         ControllerOK(k', scope), Rest'
  PROVE  IInv' /\ EndedStand
<1>1. w'[c] = x /\ \A d \in Workers : d # c => w'[d] = w[d]
  BY DEF IInv, Shape
<1>2. Shape(scope', w')
  BY DEF IInv, Shape
<1>3. \A r \in Roles : ScopeOK(scope'[r], k')
  BY DEF IInv, ScopeOK
<1>4. \A d \in Workers : WorkOK(w'[d], scope', k')
  BY <1>1 DEF IInv, WorkOK, CallOK
<1>5. OneHolder(w')
  BY <1>1 DEF IInv, OneHolder
<1>6. EndedStand
  BY DEF EndedStand
<1>. QED BY <1>2, <1>3, <1>4, <1>5, <1>6 DEF IInv

\* A call replaces a scope, which is not ended, and goes on.
LEMMA ScopeMoves ==
  ASSUME IInv, NEW c \in Workers, NEW x, NEW r \in Roles, NEW s, ScopeOK(s, k),
         scope[r].state \notin Ended, k.pc # "idle", s.rev = scope[r].rev + 1,
         scope' = [scope EXCEPT ![r] = s], w' = [w EXCEPT ![c] = x],
         WorkOK(x, scope', k),
         x.pc \in Holding => x.role = r /\ scope[r].state = "active",
         s.state = "active" => w[c].pc \in Holding /\ w[c].role = r,
         k' = k, Rest'
  PROVE  IInv' /\ EndedStand
<1>1. w'[c] = x /\ \A d \in Workers : d # c => w'[d] = w[d]
  BY DEF IInv, Shape
<1>2. scope'[r] = s /\ \A q \in Roles : q # r => scope'[q] = scope[q]
  BY DEF IInv, Shape
<1>3. Shape(scope', w')
  BY DEF IInv, Shape
<1>4. \A q \in Roles : ScopeOK(scope'[q], k')
  BY <1>2 DEF IInv
<1>5. scope[r].rev \in Nat
  BY DEF IInv, ScopeOK, Scopes
<1>6. ASSUME NEW d \in Workers, d # c PROVE WorkOK(w[d], scope', k)
  <2>1. CASE w[d] = NoCall
    BY <2>1 DEF WorkOK
  <2>2. CASE w[d] # NoCall
    <3>1. w[d] \in Calls /\ CallOK(w[d], scope[w[d].role], k)
      BY <2>2 DEF IInv, WorkOK
    <3>2. w[d].role \in Roles /\ w[d].rev \in Nat
      BY <3>1, CallTypes
    <3>3. CASE w[d].role # r
      BY <1>2, <3>1, <3>2, <3>3 DEF WorkOK
    <3>4. CASE w[d].role = r
      <4>1. w[d].rev <= s.rev /\ w[d].rev # s.rev
        BY <1>5, <3>1, <3>2, <3>4 DEF CallOK
      <4>2. w[d].pc \in Holding => s.state # "active"
        BY <1>6, <3>4 DEF IInv, OneHolder
      <4>3. CallOK(w[d], s, k)
        BY <3>1, <4>1, <4>2 DEF CallOK
      <4>. QED BY <1>2, <3>1, <3>4, <4>3 DEF WorkOK
    <3>. QED BY <3>3, <3>4
  <2>. QED BY <2>1, <2>2
<1>7. \A d \in Workers : WorkOK(w'[d], scope', k')
  BY <1>1, <1>6
<1>8. OneHolder(w')
  <2>1. ASSUME NEW d \in Workers, d # c, x.pc \in Holding, w[d].pc \in Holding
        PROVE  w[d].role # r
    <3>1. w[d] \in Calls /\ CallOK(w[d], scope[w[d].role], k)
      BY <2>1, NoCallIsIdle DEF IInv, WorkOK
    <3>. QED BY <2>1, <3>1 DEF CallOK
  <2>. QED BY <1>1, <2>1 DEF IInv, OneHolder
<1>9. ControllerOK(k', scope')
  <2>1. \A q \in Roles : k.held[q] <= scope'[q].rev /\ (k.held[q] = scope'[q].rev => q # r)
    BY <1>2, <1>5 DEF IInv, ControllerOK, Controllers
  <2>2. k.pc # "check"
    BY DEF IInv, ControllerOK, Ended
  <2>. QED BY <1>2, <2>1, <2>2 DEF IInv, ControllerOK
<1>10. EndedStand
  BY <1>2 DEF EndedStand
<1>. QED BY <1>3, <1>4, <1>7, <1>8, <1>9, <1>10 DEF IInv

\* What is known of a call under way.
LEMMA CallKnown ==
  ASSUME IInv, NEW c \in Workers, w[c].pc # "idle"
  PROVE  /\ w[c] \in Calls /\ CallOK(w[c], scope[w[c].role], k)
         /\ w[c].role \in Roles /\ w[c].rev \in Nat /\ w[c].seen \in Nat
         /\ scope[w[c].role] \in Scopes /\ scope[w[c].role].rev \in Nat
<1>1. w[c] \in Calls /\ CallOK(w[c], scope[w[c].role], k)
  BY NoCallIsIdle DEF IInv, WorkOK
<1>2. w[c].role \in Roles
  BY <1>1, CallTypes
<1>. QED BY <1>1, <1>2, CallTypes DEF IInv, ScopeOK, Scopes

\* The controller is where it was.
LEMMA ControllerKept == IInv => ControllerOK(k, scope) /\ Rest
BY DEF IInv

LEMMA DeniedIsCall ==
  ASSUME IInv, NEW r \in Roles, k.pc # "idle"
  PROVE  /\ WorkOK(Called("fail", r, NoPiece, 0), scope, k)
         /\ Called("fail", r, NoPiece, 0).pc = "fail"
<1>. DEFINE x == Called("fail", r, NoPiece, 0)
<1>1. x \in Calls /\ x.pc = "fail" /\ x.role = r /\ x.rev = 0 /\ x.tries = 0
  BY BrokerAssumption DEF Calls, Called
<1>2. scope[r].rev \in Nat
  BY DEF IInv, ScopeOK, Scopes
<1>. HIDE DEF x
<1>3. CallOK(x, scope[r], k)
  BY <1>1, <1>2, BrokerAssumption DEF CallOK, Holding
<1>. QED BY <1>1, <1>3 DEF WorkOK, x

-----------------------------------------------------------------------------
(* The scopes a call makes.                                                *)

LEMMA ReservedScope ==
  ASSUME IInv, NEW c \in Workers, w[c].pc = "reserve", IsCurrent(w[c].role, w[c].rev)
  PROVE  \E s : /\ ScopeOK(s, k) /\ s.rev = scope[w[c].role].rev + 1 /\ s.state = "calling"
               /\ scope[w[c].role].state = "active" /\ k.pc # "idle"
               /\ s.receipts = scope[w[c].role].receipts
               /\ Reserved(w[c].role) = [scope EXCEPT ![w[c].role] = s]
<1>. PICK r \in Roles : r = w[c].role
  BY CallKnown
<1>1. scope[r].state = "active" /\ scope[r].calls < MaxCalls /\ ScopeOK(scope[r], k) /\ k.pc # "idle"
  BY CallKnown DEF CallOK, IsCurrent, IInv
<1>. DEFINE t == [scope[r] EXCEPT !.state = "calling", !.calls = @ + 1]
            s == [t EXCEPT !.rev = @ + 1]
<1>2. scope[r] \in Scopes
  BY <1>1 DEF ScopeOK
<1>3. scope[r].calls + 1 \in 0..MaxCalls
  BY <1>1, <1>2, BrokerAssumption DEF Scopes
<1>4. /\ s \in Scopes /\ s.state = "calling" /\ s.rev = scope[r].rev + 1
      /\ s.calls = scope[r].calls + 1 /\ s.receipts = scope[r].receipts
  <2>1. /\ t \in Scopes /\ t.state = "calling" /\ t.rev = scope[r].rev
        /\ t.calls = scope[r].calls + 1 /\ t.receipts = scope[r].receipts
    BY <1>2, <1>3 DEF Scopes, States
  <2>. HIDE DEF t
  <2>. QED BY <2>1 DEF Scopes
<1>5. Reserved(r) = [scope EXCEPT ![r] = s]
  BY DEF Reserved, Replaced
<1>. HIDE DEF s
<1>6. Len(s.receipts) < s.calls
  BY <1>1, <1>2, <1>4 DEF ScopeOK, Scopes
<1>7. ScopeOK(s, k)
  BY <1>1, <1>4, <1>6 DEF ScopeOK, Scopes
<1>. QED BY <1>1, <1>4, <1>5, <1>7

LEMMA FailedScope ==
  ASSUME IInv, NEW r \in Roles, scope[r].state \notin Ended, k.pc # "idle"
  PROVE  \E s : /\ ScopeOK(s, k) /\ s.rev = scope[r].rev + 1 /\ s.state = "failed"
               /\ s.receipts = scope[r].receipts
               /\ Failed(r) = [scope EXCEPT ![r] = s]
<1>. DEFINE t == [scope[r] EXCEPT !.state = "failed"]
            s == [t EXCEPT !.rev = @ + 1]
<1>1. scope[r] \in Scopes /\ ScopeOK(scope[r], k)
  BY DEF IInv, ScopeOK
<1>2. /\ s \in Scopes /\ s.state = "failed" /\ s.rev = scope[r].rev + 1
      /\ s.calls = scope[r].calls /\ s.receipts = scope[r].receipts
  <2>1. /\ t \in Scopes /\ t.state = "failed" /\ t.rev = scope[r].rev
        /\ t.calls = scope[r].calls /\ t.receipts = scope[r].receipts
    BY <1>1 DEF Scopes, States
  <2>. HIDE DEF t
  <2>. QED BY <2>1 DEF Scopes
<1>3. Failed(r) = [scope EXCEPT ![r] = s]
  BY DEF Failed, Replaced
<1>. HIDE DEF s
<1>4. ScopeOK(s, k)
  BY <1>1, <1>2 DEF ScopeOK
<1>. QED BY <1>2, <1>3, <1>4

LEMMA PublishedScope ==
  ASSUME IInv, NEW c \in Workers, w[c].pc = "publish", IsCurrent(w[c].role, w[c].rev)
  PROVE  \E s : /\ ScopeOK(s, k) /\ s.rev = scope[w[c].role].rev + 1 /\ s.state = "active"
               /\ scope[w[c].role].state = "calling" /\ k.pc # "idle"
               /\ s.receipts = Append(scope[w[c].role].receipts, Receipt(c))
               /\ Published(w[c].role, Receipt(c)) = [scope EXCEPT ![w[c].role] = s]
<1>. PICK r \in Roles : r = w[c].role
  BY CallKnown
<1>1. /\ scope[r].state = "calling" /\ ScopeOK(scope[r], k) /\ k.pc # "idle"
      /\ w[c].piece \in Evidence /\ w[c].seen = k.bound /\ w[c].seen \in Nat
  BY CallKnown DEF CallOK, IsCurrent, IInv, Holding
<1>. DEFINE x == Receipt(c)
            t == [scope[r] EXCEPT !.state = "active", !.receipts = Append(@, x)]
            s == [t EXCEPT !.rev = @ + 1]
<1>2. scope[r] \in Scopes /\ scope[r].receipts \in Seq(Receipts)
  BY <1>1 DEF ScopeOK, Scopes
<1>3. x \in Receipts /\ x.seen = k.bound
  BY <1>1 DEF Receipt, Receipts
<1>. HIDE DEF x
<1>4. Append(scope[r].receipts, x) \in Seq(Receipts)
  BY <1>2, <1>3
<1>5. /\ s \in Scopes /\ s.state = "active" /\ s.rev = scope[r].rev + 1
      /\ s.calls = scope[r].calls /\ s.receipts = Append(scope[r].receipts, x)
  <2>1. /\ t \in Scopes /\ t.state = "active" /\ t.rev = scope[r].rev
        /\ t.calls = scope[r].calls /\ t.receipts = Append(scope[r].receipts, x)
    BY <1>2, <1>4 DEF Scopes, States
  <2>. HIDE DEF t
  <2>. QED BY <2>1 DEF Scopes
<1>6. Published(r, Receipt(c)) = [scope EXCEPT ![r] = s]
  BY DEF Published, Replaced, x
<1>. HIDE DEF s
<1>7. Len(s.receipts) <= s.calls
  BY <1>1, <1>2, <1>3, <1>5 DEF ScopeOK, Scopes
<1>8. \A i \in DOMAIN s.receipts : s.receipts[i].seen = k.bound
  BY <1>1, <1>2, <1>3, <1>5 DEF ScopeOK
<1>9. ScopeOK(s, k)
  BY <1>1, <1>5, <1>7, <1>8 DEF ScopeOK
<1>. QED BY <1>1, <1>5, <1>6, <1>9 DEF x

-----------------------------------------------------------------------------
(* The steps of a call.                                                    *)

\* The call after a step that only moves its program counter.
LEMMA MovedCall ==
  ASSUME IInv, NEW c \in Workers, w[c].pc # "idle",
         NEW pc \in {"readback", "tool", "publish", "fail", "revoke"}
  PROVE  \E x \in Calls :
           /\ x.pc = pc /\ x.role = w[c].role /\ x.rev = w[c].rev
           /\ x.piece = w[c].piece /\ x.seen = w[c].seen /\ x.tries = w[c].tries
           /\ [w EXCEPT ![c].pc = pc] = [w EXCEPT ![c] = x]
<1>. DEFINE x == [w[c] EXCEPT !.pc = pc]
<1>1. w[c] \in Calls
  BY CallKnown
<1>2. x \in Calls /\ x.pc = pc /\ x.role = w[c].role /\ x.rev = w[c].rev
      /\ x.piece = w[c].piece /\ x.seen = w[c].seen /\ x.tries = w[c].tries
  BY <1>1 DEF Calls
<1>3. [w EXCEPT ![c].pc = pc] = [w EXCEPT ![c] = x]
  OBVIOUS
<1>. QED BY <1>2, <1>3

\* The scopes stay, and the call is denied or over.
LEMMA StopsQuietly ==
  ASSUME IInv, NEW c \in Workers, w[c].pc # "idle", Denied(c) \/ Ends(c),
         UNCHANGED <<scope, k>>, Rest'
  PROVE  IInv' /\ EndedStand
<1>1. w[c].role \in Roles /\ k.pc # "idle"
  BY CallKnown DEF CallOK
<1>2. CASE Ends(c)
  BY <1>2, CallMoves, ControllerKept, NoCallIsIdle DEF Ends, WorkOK
<1>3. CASE Denied(c)
  <2>. DEFINE x == Called("fail", w[c].role, NoPiece, 0)
  <2>1. WorkOK(x, scope, k) /\ x.pc = "fail"
    BY <1>1, DeniedIsCall
  <2>2. w' = [w EXCEPT ![c] = x]
    BY <1>3 DEF Denied
  <2>. HIDE DEF x
  <2>. QED BY <2>1, <2>2, CallMoves, ControllerKept DEF Holding
<1>. QED BY <1>2, <1>3

\* A scope is replaced, and the call is denied or over.
LEMMA StopsReplacing ==
  ASSUME IInv, NEW c \in Workers, w[c].pc # "idle", Denied(c) \/ Ends(c),
         NEW s, ScopeOK(s, k), s.rev = scope[w[c].role].rev + 1,
         scope' = [scope EXCEPT ![w[c].role] = s], scope[w[c].role].state \notin Ended,
         s.state = "active" => w[c].pc \in Holding,
         UNCHANGED k, Rest'
  PROVE  IInv' /\ EndedStand
<1>. PICK r : r = w[c].role
  OBVIOUS
<1>1. r \in Roles /\ k.pc # "idle" /\ scope[r].rev \in Nat
  BY CallKnown DEF CallOK
<1>2. CASE Ends(c)
  BY <1>1, <1>2, ScopeMoves, NoCallIsIdle DEF Ends, WorkOK
<1>3. CASE Denied(c)
  <2>. DEFINE x == Called("fail", r, NoPiece, 0)
  <2>1. x \in Calls /\ x.pc = "fail" /\ x.role = r /\ x.rev = 0 /\ x.tries = 0
    BY <1>1, BrokerAssumption DEF Calls, Called
  <2>2. w' = [w EXCEPT ![c] = x]
    BY <1>3 DEF Denied
  <2>. HIDE DEF x
  <2>3. scope'[r] = s /\ s.rev \in Nat
    BY <1>1 DEF IInv, Shape
  <2>4. CallOK(x, s, k)
    BY <1>1, <2>1, <2>3, BrokerAssumption DEF CallOK, Holding
  <2>5. WorkOK(x, scope', k)
    BY <2>1, <2>3, <2>4 DEF WorkOK
  <2>. QED BY <1>1, <2>1, <2>2, <2>5, ScopeMoves DEF Holding
<1>. QED BY <1>2, <1>3

LEMMA CallingSteps ==
  ASSUME IInv, NEW c \in Workers, Calling(c)
  PROVE  IInv' /\ EndedStand
<1>. PICK r : r = w[c].role
  OBVIOUS
<1>0. w[c].pc # "idle"
  BY DEF Calling, Reserve, ReadBack, RunTool, Publish, FailReads, FailWrites, CallFails
<1>a. Rest' /\ k' = k
  BY DEF IInv, Rest, Fault, Calling, Reserve, ReadBack, RunTool, Publish, FailReads, FailWrites,
     CallFails
<1>b. /\ w[c] \in Calls /\ CallOK(w[c], scope[r], k) /\ r \in Roles
      /\ w[c].rev \in Nat /\ scope[r].rev \in Nat /\ scope[r] \in Scopes
  BY <1>0, CallKnown
<1>c. ControllerOK(k, scope) /\ k.pc # "idle"
  BY <1>b DEF IInv, CallOK
<1>1. CASE Reserve(c)
  <2>1. CASE IsCurrent(r, w[c].rev)
    <3>1. PICK s : /\ ScopeOK(s, k) /\ s.rev = scope[r].rev + 1 /\ s.state = "calling"
                   /\ scope[r].state = "active" /\ scope' = [scope EXCEPT ![r] = s]
      BY <1>1, <2>1, ReservedScope DEF Reserve
    <3>2. PICK x \in Calls :
            /\ x.pc = "readback" /\ x.role = r /\ x.rev = w[c].rev /\ x.piece = w[c].piece
            /\ w' = [w EXCEPT ![c] = x]
      <4>1. w' = [w EXCEPT ![c].pc = "readback"]
        BY <1>1, <2>1 DEF Reserve, Goes
      <4>. QED BY <1>0, <4>1, MovedCall
    <3>3. scope'[r] = s
      BY <1>b, <3>1 DEF IInv, Shape
    <3>4. CallOK(x, s, k)
      BY <1>1, <1>b, <3>1, <3>2 DEF CallOK, Holding, Reserve
    <3>5. WorkOK(x, scope', k)
      BY <3>2, <3>3, <3>4 DEF WorkOK
    <3>. QED BY <1>a, <1>b, <1>c, <3>1, <3>2, <3>5, ScopeMoves DEF Ended
  <2>2. CASE ~IsCurrent(r, w[c].rev)
    BY <1>0, <1>1, <1>a, <2>2, StopsQuietly DEF Reserve
  <2>. QED BY <2>1, <2>2
<1>2. CASE ReadBack(c)
  <2>1. CASE StillReserved(r)
    <3>. DEFINE x == [w[c] EXCEPT !.pc = "tool", !.rev = scope[r].rev]
    <3>1. /\ x \in Calls /\ x.pc = "tool" /\ x.role = r /\ x.rev = scope[r].rev
          /\ x.piece = w[c].piece
      BY <1>b DEF Calls
    <3>2. w' = [w EXCEPT ![c] = x]
      BY <1>2, <2>1 DEF ReadBack
    <3>. HIDE DEF x
    <3>3. scope[r].state = "calling" /\ w[c].piece \in Evidence /\ w[c].pc \in Holding /\ scope' = scope
      BY <1>2, <1>b, <2>1 DEF ReadBack, StillReserved, CallOK, Holding
    <3>4. CallOK(x, scope[r], k)
      BY <1>b, <1>c, <3>1, <3>3 DEF CallOK, Holding
    <3>5. WorkOK(x, scope, k)
      BY <3>1, <3>4 DEF WorkOK
    <3>. QED BY <1>a, <1>c, <3>1, <3>2, <3>3, <3>5, CallMoves
  <2>2. CASE ~StillReserved(r)
    BY <1>0, <1>2, <1>a, <2>2, StopsQuietly DEF ReadBack
  <2>. QED BY <2>1, <2>2
<1>3. CASE RunTool(c)
  <2>1. CASE Denied(c)
    BY <1>0, <1>3, <1>a, <2>1, StopsQuietly DEF RunTool
  <2>2. CASE ~Denied(c)
    <3>. DEFINE x == [w[c] EXCEPT !.pc = "publish", !.seen = source]
    <3>1. source \in Nat /\ source = k.bound /\ w[c].pc = "tool" /\ scope' = scope
      BY <1>3, <2>2 DEF RunTool, IInv, Rest
    <3>2. /\ x \in Calls /\ x.pc = "publish" /\ x.role = r /\ x.rev = w[c].rev
          /\ x.piece = w[c].piece /\ x.seen = k.bound
      BY <1>b, <3>1 DEF Calls
    <3>3. w' = [w EXCEPT ![c] = x]
      BY <1>3, <2>2 DEF RunTool
    <3>. HIDE DEF x
    <3>4. CallOK(x, scope[r], k)
      BY <1>b, <3>1, <3>2 DEF CallOK, Holding
    <3>5. WorkOK(x, scope, k)
      BY <3>2, <3>4 DEF WorkOK
    <3>6. w[c].pc \in Holding
      BY <3>1 DEF Holding
    <3>. QED BY <1>a, <1>c, <3>1, <3>2, <3>3, <3>5, <3>6, CallMoves
  <2>. QED BY <2>1, <2>2
<1>4. CASE Publish(c)
  <2>1. CASE IsCurrent(r, w[c].rev)
    <3>1. PICK s : /\ ScopeOK(s, k) /\ s.rev = scope[r].rev + 1 /\ s.state = "active"
                   /\ scope[r].state = "calling" /\ scope' = [scope EXCEPT ![r] = s]
      BY <1>4, <2>1, PublishedScope DEF Publish
    <3>2. Ends(c) /\ w[c].pc \in Holding
      BY <1>4, <2>1 DEF Publish, Holding
    <3>. QED BY <1>0, <1>a, <3>1, <3>2, StopsReplacing DEF Ended
  <2>2. CASE ~IsCurrent(r, w[c].rev)
    BY <1>0, <1>4, <1>a, <2>2, StopsQuietly DEF Publish
  <2>. QED BY <2>1, <2>2
<1>5. CASE FailReads(c)
  <2>1. CASE scope[r].state \in Ended
    BY <1>0, <1>5, <1>a, <2>1, StopsQuietly DEF FailReads
  <2>2. CASE scope[r].state \notin Ended
    <3>. DEFINE x == [w[c] EXCEPT !.pc = "revoke", !.rev = scope[r].rev, !.tries = @ + 1]
    <3>1. w[c].pc = "fail" /\ scope' = scope
      BY <1>5 DEF FailReads
    <3>2. w[c].tries + 1 \in 0..MaxTries
      BY <1>b, <3>1, CallTypes, BrokerAssumption DEF CallOK
    <3>3. x \in Calls /\ x.pc = "revoke" /\ x.role = r /\ x.rev = scope[r].rev
      BY <1>b, <3>2 DEF Calls
    <3>4. w' = [w EXCEPT ![c] = x]
      BY <1>5, <2>2 DEF FailReads
    <3>. HIDE DEF x
    <3>5. CallOK(x, scope[r], k)
      BY <1>b, <1>c, <2>2, <3>3 DEF CallOK, Holding
    <3>6. WorkOK(x, scope, k)
      BY <3>3, <3>5 DEF WorkOK
    <3>. QED BY <1>a, <1>c, <3>1, <3>3, <3>4, <3>6, CallMoves DEF Holding
  <2>. QED BY <2>1, <2>2
<1>6. CASE FailWrites(c)
  <2>1. CASE IsCurrent(r, w[c].rev) /\ scope' = Failed(r) /\ Ends(c)
    <3>1. scope[r].state \notin Ended
      BY <1>6, <1>b, <2>1 DEF FailWrites, CallOK, IsCurrent
    <3>2. PICK s : ScopeOK(s, k) /\ s.rev = scope[r].rev + 1 /\ s.state = "failed"
                   /\ scope' = [scope EXCEPT ![r] = s]
      BY <1>b, <1>c, <2>1, <3>1, FailedScope
    <3>. QED BY <1>0, <1>a, <2>1, <3>1, <3>2, StopsReplacing
  <2>2. CASE UNCHANGED scope /\ Ends(c)
    BY <1>0, <1>a, <2>2, StopsQuietly
  <2>3. CASE UNCHANGED scope /\ w[c].pc = "revoke" /\ w[c].tries < MaxTries /\ Goes(c, "fail")
    <3>1. PICK x \in Calls :
            /\ x.pc = "fail" /\ x.role = r /\ x.rev = w[c].rev /\ x.tries = w[c].tries
            /\ w' = [w EXCEPT ![c] = x]
      BY <1>0, <2>3, MovedCall DEF Goes
    <3>2. CallOK(x, scope[r], k)
      BY <1>b, <2>3, <3>1 DEF CallOK, Holding
    <3>3. WorkOK(x, scope, k)
      BY <3>1, <3>2 DEF WorkOK
    <3>. QED BY <1>a, <1>c, <2>3, <3>1, <3>3, CallMoves DEF Holding
  <2>. QED BY <1>6, <2>1, <2>2, <2>3 DEF FailWrites
<1>7. CASE CallFails(c)
  <2>1. Denied(c) \/ Ends(c)
    BY <1>7 DEF CallFails
  <2>2. CASE UNCHANGED scope
    BY <1>0, <1>a, <2>1, <2>2, StopsQuietly
  <2>3. CASE IsCurrent(r, w[c].rev) /\ w[c].pc = "reserve" /\ scope' = Reserved(r)
    <3>1. PICK s : /\ ScopeOK(s, k) /\ s.rev = scope[r].rev + 1 /\ s.state = "calling"
                   /\ scope[r].state = "active" /\ scope' = [scope EXCEPT ![r] = s]
      BY <2>3, ReservedScope
    <3>. QED BY <1>0, <1>a, <2>1, <3>1, StopsReplacing DEF Ended
  <2>4. CASE IsCurrent(r, w[c].rev) /\ w[c].pc = "publish" /\ scope' = Published(r, Receipt(c))
    <3>1. PICK s : /\ ScopeOK(s, k) /\ s.rev = scope[r].rev + 1 /\ s.state = "active"
                   /\ scope[r].state = "calling" /\ scope' = [scope EXCEPT ![r] = s]
      BY <2>4, PublishedScope
    <3>2. w[c].pc \in Holding
      BY <2>4 DEF Holding
    <3>. QED BY <1>0, <1>a, <2>1, <3>1, <3>2, StopsReplacing DEF Ended
  <2>5. CASE IsCurrent(r, w[c].rev) /\ w[c].pc = "revoke" /\ scope' = Failed(r)
    <3>1. scope[r].state \notin Ended
      BY <1>b, <2>5 DEF CallOK, IsCurrent
    <3>2. PICK s : ScopeOK(s, k) /\ s.rev = scope[r].rev + 1 /\ s.state = "failed"
                   /\ scope' = [scope EXCEPT ![r] = s]
      BY <1>b, <1>c, <2>5, <3>1, FailedScope
    <3>. QED BY <1>0, <1>a, <2>1, <3>1, <3>2, StopsReplacing
  <2>. QED BY <1>7, <2>2, <2>3, <2>4, <2>5 DEF CallFails
<1>. QED BY <1>1, <1>2, <1>3, <1>4, <1>5, <1>6, <1>7 DEF Calling

-----------------------------------------------------------------------------
(* The steps of the controller.                                            *)

\* The controller goes on, and the scopes and the calls stay as they are.
LEMMA ControllerMoves ==
  ASSUME IInv, ControllerOK(k', scope), k'.bound = k.bound, k'.pc = "idle" <=> k.pc = "idle",
         scope' = scope, w' = w, Rest'
  PROVE  IInv' /\ EndedStand
BY DEF IInv, Shape, ScopeOK, WorkOK, CallOK, OneHolder, EndedStand

LEMMA AbortingIsOK ==
  ASSUME IInv
  PROVE  ControllerOK(Aborting, scope) /\ Aborting.bound = k.bound /\ Aborting.pc = "abort"
<1>1. k \in Controllers /\ \A r \in Roles : scope[r].rev \in Nat
  BY DEF IInv, ControllerOK, ScopeOK, Scopes
<1>2. /\ Aborting \in Controllers /\ Aborting.pc = "abort" /\ Aborting.bound = k.bound
      /\ \A r \in Roles : Aborting.held[r] = 0
  BY <1>1 DEF Aborting, None, Controllers
<1>. HIDE DEF Aborting
<1>. QED BY <1>1, <1>2 DEF ControllerOK

\* The controller after a step that keeps what it holds.
LEMMA Advanced ==
  ASSUME IInv, NEW pc \in {"check", "accepted", "refused", "abort"}, NEW todo \in SUBSET Roles,
         pc = "check" => \A r \in Roles : scope[r].state = "closed" /\ Whole(scope[r])
  PROVE  /\ ControllerOK([k EXCEPT !.pc = pc, !.todo = todo], scope)
         /\ [k EXCEPT !.pc = pc, !.todo = todo].bound = k.bound
         /\ [k EXCEPT !.pc = pc, !.todo = todo].pc = pc
<1>. DEFINE kk == [k EXCEPT !.pc = pc, !.todo = todo]
<1>1. k \in Controllers /\ \A r \in Roles : k.held[r] <= scope[r].rev
  BY DEF IInv, ControllerOK
<1>2. kk \in Controllers /\ kk.pc = pc /\ kk.bound = k.bound /\ kk.held = k.held
  BY <1>1 DEF Controllers
<1>. HIDE DEF kk
<1>3. ControllerOK(kk, scope)
  BY <1>1, <1>2 DEF ControllerOK
<1>. QED BY <1>2, <1>3 DEF kk

LEMMA IssueStep == IInv /\ Issue => IInv' /\ EndedStand
<1>. SUFFICES ASSUME IInv, Issue PROVE IInv' /\ EndedStand
  OBVIOUS
<1>1. /\ k \in Controllers /\ k.pc = "idle" /\ w' = w /\ source \in Nat /\ Rest'
      /\ scope' = [r \in Roles |-> [scope[r] EXCEPT !.state = "active", !.rev = 1]]
      /\ k' = [k EXCEPT !.pc = "team", !.bound = source]
  BY DEF Issue, IInv, ControllerOK, Rest
<1>2. /\ k' \in Controllers /\ k'.pc = "team" /\ k'.held = k.held
  BY <1>1 DEF Controllers
<1>3. \A r \in Roles :
        /\ scope[r] \in Scopes /\ scope[r].state = "none" /\ scope[r].rev = 0
        /\ scope[r].receipts = <<>> /\ Len(scope[r].receipts) <= scope[r].calls
  BY <1>1 DEF IInv, ScopeOK
<1>4. \A r \in Roles :
        /\ scope'[r] \in Scopes /\ scope'[r].state = "active" /\ scope'[r].rev = 1
        /\ scope'[r].receipts = <<>> /\ Len(scope'[r].receipts) <= scope'[r].calls
  BY <1>1, <1>3 DEF Scopes, States
<1>5. \A c \in Workers : w[c] = NoCall
  BY <1>1 DEF IInv, WorkOK, CallOK
<1>6. \A r \in Roles : ScopeOK(scope'[r], k')
  BY <1>2, <1>4 DEF ScopeOK
<1>7. ControllerOK(k', scope')
  <2>1. \A r \in Roles : k.held[r] \in Nat /\ k.held[r] <= 0
    BY <1>1, <1>3 DEF IInv, ControllerOK, Controllers
  <2>. QED BY <1>2, <1>4, <2>1 DEF ControllerOK
<1>8. \A c \in Workers : WorkOK(w'[c], scope', k')
  BY <1>1, <1>5 DEF WorkOK
<1>9. Shape(scope', w')
  BY <1>1 DEF IInv, Shape
<1>10. EndedStand
  BY <1>3 DEF EndedStand, Ended
<1>11. OneHolder(w')
  BY <1>1 DEF IInv
<1>. QED BY <1>1, <1>6, <1>7, <1>8, <1>9, <1>10, <1>11 DEF IInv

\* The batch: what is closed is what was verified.
LEMMA CloseStep ==
  ASSUME IInv, k.pc = "close", \A r \in Roles : IsCurrent(r, k.held[r]), scope' = Closed,
         NEW kk, k' = kk, kk \in Controllers, kk.bound = k.bound,
         kk.pc \in {"check", "abort", "refused"}, \A r \in Roles : kk.held[r] <= scope[r].rev,
         w' = w, Rest'
  PROVE  IInv' /\ EndedStand
<1>1. \A r \in Roles : /\ scope[r] \in Scopes /\ scope[r].state = "active" /\ Whole(scope[r])
                       /\ ScopeOK(scope[r], k)
  BY DEF IInv, ControllerOK, ScopeOK, IsCurrent
<1>2. \A r \in Roles :
        /\ scope'[r] \in Scopes /\ scope'[r].state = "closed" /\ scope'[r].rev = scope[r].rev + 1
        /\ scope'[r].receipts = scope[r].receipts /\ scope'[r].calls = scope[r].calls
        /\ scope[r].rev \in Nat
  <2>. SUFFICES ASSUME NEW r \in Roles
                PROVE  /\ scope'[r] \in Scopes /\ scope'[r].state = "closed"
                       /\ scope'[r].rev = scope[r].rev + 1 /\ scope[r].rev \in Nat
                       /\ scope'[r].receipts = scope[r].receipts /\ scope'[r].calls = scope[r].calls
    OBVIOUS
  <2>1. scope'[r] = [scope[r] EXCEPT !.state = "closed", !.rev = scope[r].rev + 1]
    BY DEF Closed
  <2>2. scope[r] \in Scopes /\ scope[r].rev + 1 \in Nat
    BY <1>1 DEF Scopes
  <2>. QED BY <2>1, <2>2 DEF Scopes, States
<1>3. \A r \in Roles : ScopeOK(scope'[r], k') /\ Whole(scope'[r])
  BY <1>1, <1>2 DEF ScopeOK, Whole
<1>4. \A r \in Roles : kk.held[r] \in Nat
  BY DEF Controllers
<1>5. ControllerOK(k', scope')
  BY <1>2, <1>3, <1>4 DEF ControllerOK
<1>6. ASSUME NEW c \in Workers, w[c] # NoCall PROVE WorkOK(w[c], scope', k')
  <2>1. /\ w[c] \in Calls /\ CallOK(w[c], scope[w[c].role], k)
        /\ w[c].role \in Roles /\ w[c].rev \in Nat
    BY <1>6, CallTypes DEF IInv, WorkOK
  <2>2. CallOK(w[c], scope'[w[c].role], k')
    BY <1>1, <1>2, <2>1 DEF CallOK
  <2>. QED BY <2>1, <2>2 DEF WorkOK
<1>7. \A c \in Workers : WorkOK(w'[c], scope', k')
  BY <1>6 DEF WorkOK
<1>8. Shape(scope', w') /\ OneHolder(w')
  BY <1>2 DEF IInv, Shape, Closed
<1>9. EndedStand
  BY <1>1 DEF EndedStand, Ended
<1>. QED BY <1>3, <1>5, <1>7, <1>8, <1>9 DEF IInv

LEMMA VerifyStep ==
  ASSUME IInv, NEW r \in Roles, Verify(r)
  PROVE  IInv' /\ EndedStand
<1>1. k.pc = "verify" /\ r \in k.todo /\ scope' = scope /\ w' = w /\ Rest'
  BY DEF Verify, IInv, Rest
<1>2. CASE k' = Aborting
  BY <1>1, <1>2, AbortingIsOK, ControllerMoves
<1>3. CASE k' # Aborting
  <2>1. /\ scope[r].state = "active" /\ Complete(r)
        /\ k' = [k EXCEPT !.held[r] = scope[r].rev, !.todo = @ \ {r},
                          !.pc = IF @ = "verify" /\ k.todo = {r} THEN "close" ELSE @]
    BY <1>3 DEF Verify
  <2>2. k \in Controllers /\ scope[r].rev \in Nat /\ ControllerOK(k, scope)
    BY DEF IInv, ControllerOK, ScopeOK, Scopes
  <2>3. PICK held \in [Roles -> Nat] : held = [k.held EXCEPT ![r] = scope[r].rev]
    BY <2>2 DEF Controllers
  <2>4. PICK pc \in {"verify", "close"} : pc = IF k.todo = {r} THEN "close" ELSE "verify"
    OBVIOUS
  <2>5. k' = [k EXCEPT !.held = held, !.todo = k.todo \ {r}, !.pc = pc]
    BY <1>1, <2>1, <2>2, <2>3, <2>4 DEF Controllers
  <2>6. /\ k' \in Controllers /\ k'.pc = pc /\ k'.bound = k.bound /\ k'.held = held
        /\ k'.todo = k.todo \ {r}
    BY <2>2, <2>5 DEF Controllers
  <2>7. Whole(scope[r])
    BY <2>1 DEF Complete, Gathered, Whole
  <2>8. held[r] = scope[r].rev /\ \A q \in Roles : q # r => held[q] = k.held[q]
    BY <2>2, <2>3 DEF Controllers
  <2>9. \A q \in Roles : held[q] <= scope[q].rev
    BY <2>2, <2>8 DEF ControllerOK
  <2>10. \A q \in Roles \ k'.todo : held[q] = scope[q].rev => scope[q].state = "active" /\ Whole(scope[q])
    BY <1>1, <2>1, <2>2, <2>6, <2>7, <2>8 DEF ControllerOK
  <2>11. pc = "close" => k'.todo = {}
    BY <2>4, <2>6
  <2>12. ControllerOK(k', scope)
    BY <2>6, <2>9, <2>10, <2>11 DEF ControllerOK
  <2>. QED BY <1>1, <2>6, <2>12, ControllerMoves
<1>. QED BY <1>2, <1>3

-----------------------------------------------------------------------------
\* Every step preserves the invariant and leaves ended scopes alone.
LEMMA StepIInv == IInv /\ [Next]_vars => IInv' /\ EndedStand
<1>. SUFFICES ASSUME IInv, [Next]_vars PROVE IInv' /\ EndedStand
  OBVIOUS
<1>0. ControllerOK(k, scope) /\ Rest /\ k \in Controllers
  BY DEF IInv, ControllerOK
<1>1. CASE SourceChanges \/ Expires
  <2>1. scope' = scope /\ k' = k /\ w' = w /\ faults' = faults
    BY <1>1 DEF SourceChanges, Expires
  <2>2. source' \in Nat
    BY <1>0, <1>1 DEF SourceChanges, Expires, Rest
  <2>3. expired' \in BOOLEAN
    BY <1>0, <1>1, Zenon DEF SourceChanges, Expires, Rest
  <2>4. Rest'
    BY <1>0, <2>1, <2>2, <2>3 DEF Rest
  <2>. QED BY <1>0, <2>1, <2>4, ControllerMoves
<1>2. ASSUME NEW c \in Callers, NEW r \in Roles, Deny(c, r) PROVE IInv' /\ EndedStand
  <2>. DEFINE x == Called("fail", r, NoPiece, 0)
  <2>1. /\ w[c].pc = "idle" /\ k.pc # "idle" /\ c \in Workers
        /\ scope' = scope /\ k' = k /\ w' = [w EXCEPT ![c] = x] /\ Rest'
    BY <1>0, <1>2 DEF Deny, IInv, ScopeOK, Rest, Workers, Fault
  <2>2. WorkOK(x, scope, k) /\ x.pc = "fail"
    BY <2>1, DeniedIsCall
  <2>. HIDE DEF x
  <2>. QED BY <1>0, <2>1, <2>2, CallMoves DEF Holding
<1>3. ASSUME NEW c \in Callers, NEW r \in Roles, NEW e \in Evidence, Call(c, r, e)
      PROVE  IInv' /\ EndedStand
  <2>. DEFINE x == Called("reserve", r, e, scope[r].rev)
  <2>1. /\ k.pc # "idle" /\ c \in Workers /\ scope[r] \in Scopes
        /\ scope[r].state = "active" /\ scope[r].calls < MaxCalls
        /\ scope' = scope /\ k' = k /\ w' = [w EXCEPT ![c] = x] /\ Rest'
    BY <1>0, <1>3 DEF Call, Available, IInv, ScopeOK, Rest, Workers
  <2>2. scope[r].rev \in Nat
    BY <2>1 DEF Scopes
  <2>3. x \in Calls /\ x.pc = "reserve" /\ x.role = r /\ x.rev = scope[r].rev /\ x.piece = e
    BY <2>2, BrokerAssumption DEF Calls, Called
  <2>. HIDE DEF x
  <2>4. CallOK(x, scope[r], k)
    BY <2>1, <2>2, <2>3 DEF CallOK, Holding
  <2>5. WorkOK(x, scope, k)
    BY <2>3, <2>4 DEF WorkOK
  <2>. QED BY <1>0, <2>1, <2>3, <2>5, CallMoves DEF Holding
<1>4. ASSUME NEW c \in Workers, Calling(c) PROVE IInv' /\ EndedStand
  BY <1>4, CallingSteps
<1>5. CASE Issue
  BY <1>5, IssueStep
<1>6. CASE Report
  <2>1. k.pc = "team" /\ scope' = scope /\ w' = w /\ Rest'
    BY <1>0, <1>6 DEF Report, Rest
  <2>2. CASE k' = Aborting
    BY <2>1, <2>2, AbortingIsOK, ControllerMoves
  <2>3. CASE k' # Aborting
    <3>1. \A r \in Roles : Len(scope[r].receipts) \in Nat
      BY DEF IInv, ScopeOK, Scopes
    <3>2. PICK report \in [Roles -> Nat] : report = [r \in Roles |-> Len(scope[r].receipts)]
      BY <3>1
    <3>3. k' = [k EXCEPT !.pc = "verify", !.todo = Roles, !.report = report]
      BY <1>6, <2>3, <3>2 DEF Report
    <3>4. k' \in Controllers /\ k'.pc = "verify" /\ k'.todo = Roles /\ k'.held = k.held
          /\ k'.bound = k.bound
      BY <1>0, <3>3 DEF Controllers
    <3>5. ControllerOK(k', scope)
      BY <1>0, <3>4 DEF ControllerOK
    <3>. QED BY <2>1, <3>4, <3>5, ControllerMoves
  <2>. QED BY <2>2, <2>3
<1>7. ASSUME NEW r \in Roles, Verify(r) PROVE IInv' /\ EndedStand
  BY <1>7, VerifyStep
<1>8. CASE Close
  <2>1. k.pc = "close" /\ w' = w /\ Rest'
    BY <1>0, <1>8 DEF Close, Rest
  <2>2. CASE \A r \in Roles : IsCurrent(r, k.held[r])
    <3>1. scope' = Closed /\ k' = [k EXCEPT !.pc = "check", !.report = None, !.held = None]
      BY <1>8, <2>2 DEF Close
    <3>2. /\ k' \in Controllers /\ k'.pc = "check" /\ k'.bound = k.bound
          /\ \A r \in Roles : k'.held[r] = 0
      BY <1>0, <3>1 DEF Controllers, None
    <3>3. \A r \in Roles : k'.held[r] <= scope[r].rev
      BY <3>2 DEF IInv, ScopeOK, Scopes
    <3>. QED BY <2>1, <2>2, <3>1, <3>2, <3>3, CloseStep
  <2>3. CASE ~(\A r \in Roles : IsCurrent(r, k.held[r]))
    <3>1. scope' = scope /\ k' = Aborting
      BY <1>8, <2>3 DEF Close
    <3>. QED BY <2>1, <3>1, AbortingIsOK, ControllerMoves
  <2>. QED BY <2>2, <2>3
<1>9. CASE Check
  <2>1. k.pc = "check" /\ scope' = scope /\ w' = w /\ Rest'
    BY <1>0, <1>9 DEF Check, Rest
  <2>2. CASE k' = Aborting
    BY <2>1, <2>2, AbortingIsOK, ControllerMoves
  <2>3. CASE k' # Aborting
    <3>1. k' = [k EXCEPT !.pc = "accepted", !.todo = k.todo] /\ k.todo \in SUBSET Roles
      BY <1>0, <1>9, <2>3 DEF Check, Controllers
    <3>. QED BY <2>1, <3>1, Advanced, ControllerMoves
  <2>. QED BY <2>2, <2>3
<1>10. ASSUME NEW r \in Roles, Abort(r) PROVE IInv' /\ EndedStand
  <2>. DEFINE x == Called("fail", r, NoPiece, 0)
  <2>1. /\ k.pc = "abort" /\ Controller \in Workers /\ w[Controller].pc = "idle"
        /\ scope' = scope /\ w' = [w EXCEPT ![Controller] = x] /\ Rest'
        /\ k' = [k EXCEPT !.pc = "abort", !.todo = k.todo \ {r}]
    BY <1>0, <1>10 DEF Abort, Rest, Workers, Controllers
  <2>2. WorkOK(x, scope, k) /\ x.pc = "fail"
    BY <2>1, DeniedIsCall
  <2>3. k.todo \ {r} \in SUBSET Roles
    BY <1>0 DEF Controllers
  <2>4. ControllerOK(k', scope) /\ k'.bound = k.bound /\ k'.pc = "abort"
    BY <2>1, <2>3, Advanced
  <2>. HIDE DEF x
  <2>. QED BY <2>1, <2>2, <2>4, CallMoves DEF Holding
<1>11. CASE AbortEnds
  <2>1. /\ k.pc = "abort" /\ scope' = scope /\ w' = w /\ Rest'
        /\ k' = [k EXCEPT !.pc = "refused", !.todo = k.todo] /\ k.todo \in SUBSET Roles
    BY <1>0, <1>11 DEF AbortEnds, Rest, Controllers
  <2>. QED BY <2>1, Advanced, ControllerMoves
<1>12. CASE ControllerFails
  <2>1. k.pc \in {"team", "verify", "close", "check"} /\ w' = w /\ Rest'
    BY <1>0, <1>12 DEF ControllerFails, Binding, Fault, Rest
  <2>2. k' = Aborting \/ k' = [k EXCEPT !.pc = "refused", !.todo = k.todo]
    BY <1>0, <1>12 DEF ControllerFails, Controllers
  <2>3. k.todo \in SUBSET Roles
    BY <1>0 DEF Controllers
  <2>4. ControllerOK(k', scope) /\ k'.bound = k.bound /\ k'.pc \in {"abort", "refused"}
    <3>1. CASE k' = Aborting
      BY <3>1, AbortingIsOK
    <3>2. CASE k' = [k EXCEPT !.pc = "refused", !.todo = k.todo]
      BY <2>3, <3>2, Advanced
    <3>. QED BY <2>2, <3>1, <3>2
  <2>5. CASE UNCHANGED scope
    BY <2>1, <2>4, <2>5, ControllerMoves
  <2>6. CASE k.pc = "close" /\ (\A r \in Roles : IsCurrent(r, k.held[r])) /\ scope' = Closed
    BY <2>1, <2>4, <2>6, CloseStep DEF ControllerOK
  <2>. QED BY <1>12, <2>5, <2>6 DEF ControllerFails
<1>13. CASE UNCHANGED vars
  BY <1>0, <1>13, ControllerMoves DEF vars, Rest
<1>. QED
  BY <1>1, <1>2, <1>3, <1>4, <1>5, <1>6, <1>7, <1>8, <1>9, <1>10, <1>11, <1>12, <1>13 DEF Next

-----------------------------------------------------------------------------
\* The inductive invariant holds of every reachable state.
THEOREM Invariance == Spec => []IInv
<1>1. IInv /\ [Next]_vars => IInv'
  BY StepIInv
<1>. QED BY <1>1, InitIInv, PTL DEF Spec

\* Every variable keeps its type: no scope outgrows its calls, no call its tries.
THEOREM TypeCorrect == Spec => []TypeOK
<1>1. IInv => TypeOK
  BY DEF IInv, Shape, ScopeOK, WorkOK, ControllerOK, Rest, TypeOK
<1>. QED BY <1>1, Invariance, PTL

\* A scope runs one tool at a time, for every number of callers and duplicates.
THEOREM OneTool == Spec => []OneToolAtATime
<1>1. IInv => OneToolAtATime
  <2>. SUFFICES ASSUME IInv PROVE OneToolAtATime
    OBVIOUS
  <2>1. \A c \in Workers : w[c].pc \in Holding => scope[w[c].role].state # "active"
    BY NoCallIsIdle DEF IInv, WorkOK, CallOK
  <2>2. Callers \subseteq Workers /\ \A c \in Callers : w[c].pc \in {"tool", "publish"} => w[c].pc \in Holding
    BY DEF Workers, Holding
  <2>. QED BY <2>1, <2>2 DEF IInv, OneHolder, OneToolAtATime
<1>. QED BY <1>1, Invariance, PTL

\* A failed or closed scope is never replaced, whatever is still running.
THEOREM EndedIsFinal == Spec => [][EndedStand]_vars
<1>1. IInv /\ [Next]_vars => [EndedStand]_vars
  BY StepIInv
<1>. QED BY <1>1, Invariance, PTL DEF Spec

\* Accepted evidence is whole, closed and current, for every number of calls,
\* duplicates, faults and changes of the registry.
THEOREM AcceptedIsWhole == Spec => AcceptedEvidenceIsWhole
<1>. DEFINE Good == k.pc # "accepted" /\ k'.pc = "accepted" =>
                /\ ~expired
                /\ \A r \in Roles :
                     /\ scope[r].state = "closed"
                     /\ Gathered(r) = Evidence
                     /\ \A i \in DOMAIN scope[r].receipts : scope[r].receipts[i].seen = source
<1>1. IInv /\ [Next]_vars => [Good]_vars
  <2>. SUFFICES ASSUME IInv, [Next]_vars, k.pc # "accepted", k'.pc = "accepted"
                PROVE  Good
    OBVIOUS
  <2>1. Check
    <3>1. k \in Controllers
      BY DEF IInv, ControllerOK
    <3>2. k' # k
      OBVIOUS
    <3>3. ~Report /\ ~Close /\ ~ControllerFails /\ ~Issue /\ ~AbortEnds
      <4>1. Aborting.pc = "abort"
        BY AbortingIsOK
      <4>. QED
        BY <3>1, <4>1 DEF Controllers, Report, Close, ControllerFails, Issue, AbortEnds
    <3>4. \A r \in Roles : ~Verify(r) /\ ~Abort(r)
      <4>1. Aborting.pc = "abort"
        BY AbortingIsOK
      <4>. QED BY <3>1, <4>1 DEF Controllers, Verify, Abort
    <3>. QED BY <3>2, <3>3, <3>4 DEF Next, vars, SourceChanges, Expires, Deny, Call, Calling,
           Reserve, ReadBack, RunTool, Publish, FailReads, FailWrites, CallFails
  <2>2. SourceIsCurrent /\ ~expired /\ k.pc = "check"
    <3>1. Aborting.pc = "abort"
      BY AbortingIsOK
    <3>. QED BY <2>1, <3>1 DEF Check
  <2>. QED BY <2>2 DEF IInv, ControllerOK, ScopeOK, Whole, Gathered, SourceIsCurrent
<1>. QED BY <1>1, Invariance, PTL DEF Spec, AcceptedEvidenceIsWhole

-----------------------------------------------------------------------------
(* Every step is one the permits allow, or none of them.                   *)

\* The verdict, before a step and after it.
LEMMA Verdicts ==
  /\ k.pc = "idle" => Verdict = "none"
  /\ k.pc \in {"team", "verify", "close", "check"} => Verdict = "open"
  /\ k.pc \in {"abort", "refused"} => Verdict = "refused"
  /\ k.pc = "accepted" => Verdict = "accepted"
  /\ k'.pc \in {"team", "verify", "close", "check"} => Verdict' = "open"
  /\ k'.pc \in {"abort", "refused"} => Verdict' = "refused"
  /\ k'.pc = "accepted" => Verdict' = "accepted"
BY DEF Verdict

LEMMA PermitInit == Init => Permit!Init
BY Verdicts DEF Init, Gathered, Permit!Init

\* The controller goes on, refuses or accepts; the scopes are as they were.
LEMMA PermitVerdict ==
  ASSUME IInv, scope' = scope,
         \/ Verdict' = Verdict
         \/ k.pc \in {"team", "verify", "close", "check"} /\ k'.pc \in {"abort", "refused"}
         \/ k.pc = "check" /\ k'.pc = "accepted"
  PROVE  [Permit!Next]_(Permit!permitVars)
<1>1. UNCHANGED <<[r \in Roles |-> scope[r].state], [r \in Roles |-> Gathered(r)]>>
  BY DEF Gathered
<1>2. CASE Verdict' = Verdict
  BY <1>1, <1>2 DEF Permit!permitVars
<1>3. CASE k.pc \in {"team", "verify", "close", "check"} /\ k'.pc \in {"abort", "refused"}
  BY <1>1, <1>3, Verdicts DEF Permit!Next, Permit!Refuse
<1>4. CASE k.pc = "check" /\ k'.pc = "accepted"
  <2>1. \A r \in Roles : scope[r].state = "closed" /\ Gathered(r) = Evidence
    BY <1>4 DEF IInv, ControllerOK, Whole, Gathered
  <2>2. /\ [r \in Roles |-> scope[r].state] = [r \in Roles |-> "closed"]
        /\ [r \in Roles |-> Gathered(r)] = [r \in Roles |-> Evidence]
    BY <2>1
  <2>. QED BY <1>1, <1>4, <2>2, Verdicts DEF Permit!Next, Permit!Accept
<1>. QED BY <1>2, <1>3, <1>4

\* One scope is replaced.
LEMMA PermitMoves ==
  ASSUME IInv, NEW r \in Roles, NEW s, scope' = [scope EXCEPT ![r] = s],
         NEW from, scope[r].state \in from, NEW to, s.state = to
  PROVE  Permit!Moves(r, from, to)
<1>1. scope'[r] = s /\ \A q \in Roles : q # r => scope'[q] = scope[q]
  BY DEF IInv, Shape
<1>. DEFINE states == [q \in Roles |-> scope[q].state]
<1>2. \A q \in Roles : scope'[q].state = IF q = r THEN to ELSE scope[q].state
  BY <1>1
<1>3. [q \in Roles |-> scope'[q].state]
        = [q \in Roles |-> IF q = r THEN to ELSE scope[q].state]
  BY <1>2
<1>4. [states EXCEPT ![r] = to] = [q \in Roles |-> IF q = r THEN to ELSE scope[q].state]
  OBVIOUS
<1>5. [q \in Roles |-> scope'[q].state] = [states EXCEPT ![r] = to]
  BY <1>3, <1>4
<1>. QED BY <1>5 DEF Permit!Moves

\* No receipt is left by it.
LEMMA PermitReplaced ==
  ASSUME IInv, NEW r \in Roles, NEW s, scope' = [scope EXCEPT ![r] = s], k' = k,
         s.receipts = scope[r].receipts,
         \/ scope[r].state = "active" /\ s.state = "calling"
         \/ scope[r].state \in {"active", "calling"} /\ s.state = "failed"
  PROVE  Permit!Next
<1>1. scope'[r] = s /\ \A q \in Roles : q # r => scope'[q] = scope[q]
  BY DEF IInv, Shape
<1>2. \A q \in Roles : scope'[q].receipts = scope[q].receipts
  BY <1>1
<1>3. UNCHANGED <<[q \in Roles |-> Gathered(q)], Verdict>>
  BY <1>2 DEF Gathered, Verdict
<1>4. CASE scope[r].state = "active" /\ s.state = "calling"
  <2>1. Permit!Moves(r, {"active"}, "calling")
    BY <1>4, PermitMoves
  <2>. QED BY <1>3, <2>1 DEF Permit!Next, Permit!Use
<1>5. CASE scope[r].state \in {"active", "calling"} /\ s.state = "failed"
  <2>1. Permit!Moves(r, {"active", "calling"}, "failed")
    BY <1>5, PermitMoves
  <2>. QED BY <1>3, <2>1 DEF Permit!Next, Permit!Revoke
<1>. QED BY <1>4, <1>5

\* A reservation, a mark of failure and a receipt.
LEMMA PermitReserved ==
  ASSUME IInv, NEW c \in Workers, w[c].pc = "reserve", IsCurrent(w[c].role, w[c].rev),
         scope' = Reserved(w[c].role), k' = k
  PROVE  Permit!Next
<1>. PICK r \in Roles : r = w[c].role
  BY CallKnown
<1>1. PICK s : /\ scope[r].state = "active" /\ s.state = "calling"
               /\ s.receipts = scope[r].receipts /\ scope' = [scope EXCEPT ![r] = s]
  BY ReservedScope
<1>. QED BY <1>1, PermitReplaced

LEMMA PermitFailed ==
  ASSUME IInv, NEW c \in Workers, w[c].pc = "revoke", IsCurrent(w[c].role, w[c].rev),
         scope' = Failed(w[c].role), k' = k
  PROVE  Permit!Next
<1>. PICK r \in Roles : r = w[c].role
  BY CallKnown
<1>1. scope[r].state \notin Ended /\ k.pc # "idle"
  BY CallKnown DEF CallOK, IsCurrent
<1>2. scope[r].state \in {"active", "calling"}
  BY <1>1 DEF IInv, ScopeOK, Scopes, States, Ended
<1>3. PICK s : /\ s.state = "failed" /\ s.receipts = scope[r].receipts
               /\ scope' = [scope EXCEPT ![r] = s]
  BY <1>1, FailedScope
<1>. QED BY <1>2, <1>3, PermitReplaced

LEMMA PermitPublished ==
  ASSUME IInv, NEW c \in Workers, w[c].pc = "publish", IsCurrent(w[c].role, w[c].rev),
         scope' = Published(w[c].role, Receipt(c)), k' = k
  PROVE  Permit!Next
<1>. PICK r \in Roles : r = w[c].role
  BY CallKnown
<1>. PICK e \in Evidence : e = w[c].piece
  BY CallKnown DEF CallOK, Holding
<1>1. PICK s : /\ s.state = "active" /\ scope[r].state = "calling"
               /\ s.receipts = Append(scope[r].receipts, Receipt(c))
               /\ scope' = [scope EXCEPT ![r] = s]
  BY PublishedScope
<1>2. scope'[r] = s /\ \A q \in Roles : q # r => scope'[q] = scope[q]
  BY <1>1 DEF IInv, Shape
<1>3. Permit!Moves(r, {"calling"}, "active")
  BY <1>1, PermitMoves
<1>4. PICK old \in Seq(Receipts) : old = scope[r].receipts
  BY DEF IInv, ScopeOK, Scopes
<1>5. PICK x \in Receipts : x = Receipt(c) /\ x.piece = e
  BY CallKnown DEF Receipt, Receipts
<1>6. {Append(old, x)[i].piece : i \in DOMAIN Append(old, x)}
        = {old[i].piece : i \in DOMAIN old} \cup {e}
  <2>1. /\ DOMAIN old = 1..Len(old) /\ DOMAIN Append(old, x) = 1..(Len(old) + 1) /\ Len(old) \in Nat
        /\ Append(old, x)[Len(old) + 1] = x
        /\ \A i \in 1..Len(old) : Append(old, x)[i] = old[i]
    OBVIOUS
  <2>2. \A i \in 1..(Len(old) + 1) : i \in 1..Len(old) \/ i = Len(old) + 1
    BY <2>1
  <2>3. Len(old) + 1 \in 1..(Len(old) + 1) /\ 1..Len(old) \subseteq 1..(Len(old) + 1)
    BY <2>1
  <2>. QED BY <1>5, <2>1, <2>2, <2>3
<1>7. Gathered(r)' = Gathered(r) \cup {e} /\ \A q \in Roles : q # r => Gathered(q)' = Gathered(q)
  <2>1. scope'[r].receipts = Append(old, x)
    BY <1>1, <1>2, <1>4, <1>5
  <2>2. Gathered(r)' = {Append(old, x)[i].piece : i \in DOMAIN Append(old, x)}
    BY <2>1 DEF Gathered
  <2>3. Gathered(r) = {old[i].piece : i \in DOMAIN old}
    BY <1>4 DEF Gathered
  <2>4. \A q \in Roles : q # r => Gathered(q)' = Gathered(q)
    BY <1>2 DEF Gathered
  <2>. QED BY <1>6, <2>2, <2>3, <2>4
<1>. DEFINE taken == [q \in Roles |-> Gathered(q)]
<1>8. [q \in Roles |-> Gathered(q)'] = [taken EXCEPT ![r] = @ \cup {e}]
  BY <1>7
<1>9. Permit!Gather(r)
  BY <1>3, <1>8 DEF Permit!Gather, Verdict
<1>. QED BY <1>9 DEF Permit!Next

\* The batch that closes all the scopes.
LEMMA PermitClosed ==
  ASSUME IInv, k.pc = "close", \A r \in Roles : IsCurrent(r, k.held[r]), scope' = Closed,
         k'.pc \in {"check", "abort", "refused"}
  PROVE  Permit!Next
<1>1. \A r \in Roles : scope[r] \in Scopes /\ scope[r].state = "active" /\ Gathered(r) = Evidence
  BY DEF IInv, ControllerOK, IsCurrent, ScopeOK, Whole, Gathered
<1>2. \A r \in Roles : scope'[r].state = "closed" /\ scope'[r].receipts = scope[r].receipts
  BY <1>1 DEF Closed, Scopes
<1>3. /\ [r \in Roles |-> scope[r].state] = [r \in Roles |-> "active"]
      /\ [r \in Roles |-> scope'[r].state] = [r \in Roles |-> "closed"]
      /\ [r \in Roles |-> Gathered(r)] = [r \in Roles |-> Evidence]
      /\ [r \in Roles |-> Gathered(r)'] = [r \in Roles |-> Gathered(r)]
  BY <1>1, <1>2 DEF Gathered
<1>4. Verdict = "open" /\ Verdict' \in {"open", "refused"}
  BY Verdicts
<1>. QED BY <1>3, <1>4 DEF Permit!Next, Permit!Close

LEMMA PermitIssued == ASSUME IInv, Issue PROVE Permit!Next
<1>1. \A r \in Roles : scope[r] \in Scopes /\ scope[r].state = "none"
  BY DEF Issue, IInv, ScopeOK
<1>2. \A r \in Roles : scope'[r].state = "active" /\ scope'[r].receipts = scope[r].receipts
  BY <1>1 DEF Issue, Scopes
<1>3. /\ [r \in Roles |-> scope[r].state] = [r \in Roles |-> "none"]
      /\ [r \in Roles |-> scope'[r].state] = [r \in Roles |-> "active"]
      /\ [r \in Roles |-> Gathered(r)'] = [r \in Roles |-> Gathered(r)]
  BY <1>1, <1>2 DEF Gathered
<1>4. k.pc = "idle" /\ k'.pc = "team"
  BY DEF Issue, IInv, ControllerOK, Controllers
<1>. QED BY <1>3, <1>4, Verdicts DEF Permit!Next, Permit!Issue

LEMMA PermitStep == IInv /\ [Next]_vars => [Permit!Next]_(Permit!permitVars)
<1>. SUFFICES ASSUME IInv, [Next]_vars PROVE [Permit!Next]_(Permit!permitVars)
  OBVIOUS
<1>0. k \in Controllers /\ Aborting.pc = "abort"
  BY AbortingIsOK DEF IInv, ControllerOK
<1>1. CASE UNCHANGED <<scope, k>>
  <2>1. Verdict' = Verdict
    BY <1>1 DEF Verdict
  <2>. QED BY <1>1, <2>1, PermitVerdict
<1>2. ASSUME NEW c \in Workers, Calling(c) PROVE [Permit!Next]_(Permit!permitVars)
  <2>1. k' = k
    BY <1>2 DEF Calling, Reserve, ReadBack, RunTool, Publish, FailReads, FailWrites, CallFails
  <2>2. \/ UNCHANGED scope
        \/ /\ IsCurrent(w[c].role, w[c].rev)
           /\ \/ w[c].pc = "reserve" /\ scope' = Reserved(w[c].role)
              \/ w[c].pc = "publish" /\ scope' = Published(w[c].role, Receipt(c))
              \/ w[c].pc = "revoke" /\ scope' = Failed(w[c].role)
    BY <1>2 DEF Calling, Reserve, ReadBack, RunTool, Publish, FailReads, FailWrites, CallFails
  <2>. QED BY <1>1, <2>1, <2>2, PermitReserved, PermitPublished, PermitFailed
\* What the controller does but issue and close.
<1>3. ASSUME UNCHANGED scope, k.pc \in {"team", "verify", "close", "check"},
             k'.pc \in {"verify", "close", "abort", "refused"}
      PROVE  [Permit!Next]_(Permit!permitVars)
  BY <1>3, PermitVerdict, Verdicts
<1>4. CASE Report
  <2>1. UNCHANGED scope /\ k.pc = "team" /\ k'.pc \in {"verify", "abort"}
    BY <1>0, <1>4 DEF Report, Controllers
  <2>. QED BY <1>3, <2>1
<1>5. ASSUME NEW r \in Roles, Verify(r) PROVE [Permit!Next]_(Permit!permitVars)
  <2>1. UNCHANGED scope /\ k.pc = "verify" /\ k'.pc \in {"verify", "close", "abort"}
    BY <1>0, <1>5 DEF Verify, Controllers
  <2>. QED BY <1>3, <2>1
<1>6. CASE Close
  <2>1. CASE \A r \in Roles : IsCurrent(r, k.held[r])
    <3>1. k.pc = "close" /\ scope' = Closed /\ k'.pc = "check"
      BY <1>0, <1>6, <2>1 DEF Close, Controllers
    <3>. QED BY <2>1, <3>1, PermitClosed
  <2>2. CASE ~(\A r \in Roles : IsCurrent(r, k.held[r]))
    <3>1. k.pc = "close" /\ UNCHANGED scope /\ k'.pc = "abort"
      BY <1>0, <1>6, <2>2 DEF Close
    <3>. QED BY <1>3, <3>1
  <2>. QED BY <2>1, <2>2
<1>7. CASE Check
  <2>1. UNCHANGED scope /\ k.pc = "check" /\ k'.pc \in {"accepted", "abort"}
    BY <1>0, <1>7 DEF Check, Controllers
  <2>. QED BY <2>1, PermitVerdict
<1>8. ASSUME AbortEnds \/ \E r \in Roles : Abort(r) PROVE [Permit!Next]_(Permit!permitVars)
  <2>1. UNCHANGED scope /\ k.pc = "abort" /\ k'.pc \in {"abort", "refused"}
    BY <1>0, <1>8 DEF Abort, AbortEnds, Controllers
  <2>. QED BY <2>1, PermitVerdict, Verdicts
<1>9. CASE ControllerFails
  <2>1. k.pc \in {"team", "verify", "close", "check"} /\ k'.pc \in {"abort", "refused"}
    BY <1>0, <1>9 DEF ControllerFails, Binding, Controllers
  <2>2. CASE UNCHANGED scope
    BY <1>3, <2>1, <2>2
  <2>3. CASE k.pc = "close" /\ (\A r \in Roles : IsCurrent(r, k.held[r])) /\ scope' = Closed
    BY <2>1, <2>3, PermitClosed
  <2>. QED BY <1>9, <2>2, <2>3 DEF ControllerFails
<1>10. CASE Issue
  BY <1>10, PermitIssued
<1>. QED BY <1>1, <1>2, <1>4, <1>5, <1>6, <1>7, <1>8, <1>9, <1>10
         DEF Next, vars, SourceChanges, Expires, Deny, Call

\* For every number of roles, calls, duplicates and faults: the broker and its
\* controller do nothing that the permits of the investigation do not allow.
THEOREM BrokerKeepsPermits == Spec => ImplementsPermit
<1>1. IInv /\ [Next]_vars => [Permit!Next]_(Permit!permitVars)
  BY PermitStep
<1>. QED BY <1>1, PermitInit, Invariance, PTL DEF Spec, ImplementsPermit, Permit!Spec

=============================================================================
