-------------------------- MODULE CaseReviewProofs --------------------------
(***************************************************************************)
(* Proofs about CaseReview for every number of tabs and commands and every *)
(* bound.                                                                  *)
(*                                                                         *)
(* The argument: the audit of a review only grows, so a handler whose      *)
(* snapshot has as many events as the stored review holds the stored       *)
(* review itself (Fresh), and the checks of act were made on what commit   *)
(* replaces.                                                               *)
(***************************************************************************)
EXTENDS CaseReview, TLAPS

\* The snapshot of s is the review r or an earlier one, and passed the checks.
Fresh(s, r) ==
  /\ Len(s.snap.events) <= Len(r.events)
  /\ Len(s.snap.events) = Len(r.events) => s.snap = r
  /\ MayAct(s.snap, s.command)

IInv ==
  /\ TypeOK
  /\ AckedCommandsKept
  /\ \A t \in Tabs : h[t] # NoCommand => Fresh(h[t], review)

\* What a commit of an allowed command c makes of a review r.
LEMMA AppendedReview ==
  ASSUME NEW r \in Reviews, NEW c \in CommandsSent, MayAct(r, c),
         NEW s, s.snap = r, s.command = c
  PROVE  /\ Updated(s) \in Reviews
         /\ Len(Updated(s).events) = Len(r.events) + 1
         /\ Len(Updated(s).events) <= MaxRevision
         /\ IsPrefix(r.events, Updated(s).events)
         /\ Range(Updated(s).events) = Range(r.events) \cup {c}
         /\ r.state # "closed_without_release"
         /\ (\A i, j \in DOMAIN r.events : r.events[i].id = r.events[j].id => i = j)
              => \A i, j \in DOMAIN Updated(s).events :
                   Updated(s).events[i].id = Updated(s).events[j].id => i = j
<1>. DEFINE new == Append(r.events, c)
<1>1. /\ r.events \in Seq(CommandsSent) /\ r.state \in States
      /\ c.action \in Actions
  BY DEF Reviews, CommandsSent
<1>2. /\ Updated(s).events = new
      /\ Updated(s).state = NextCaseState(r.state, c.action)
  BY DEF Updated
<1>3. /\ new \in Seq(CommandsSent) /\ Len(new) = Len(r.events) + 1
      /\ DOMAIN new = 1..Len(r.events) + 1
      /\ \A i \in 1..Len(r.events) : new[i] = r.events[i]
      /\ new[Len(r.events) + 1] = c
      /\ Len(r.events) \in Nat /\ DOMAIN r.events = 1..Len(r.events)
  BY <1>1
<1>4. NextCaseState(r.state, c.action) \in States
  BY <1>1 DEF NextCaseState, States, Actions
<1>5. Updated(s) \in Reviews
  BY <1>2, <1>3, <1>4 DEF Updated, Reviews
<1>6. Len(new) <= MaxRevision
  BY <1>3, ReviewAssumption DEF MayAct, Revision
<1>7. IsPrefix(r.events, new)
  BY <1>1, <1>3 DEF IsPrefix
<1>8. Range(new) = Range(r.events) \cup {c}
  BY <1>3 DEF Range
<1>9. r.state # "closed_without_release"
  BY DEF MayAct, Allowed
<1>10. ASSUME \A i, j \in DOMAIN r.events : r.events[i].id = r.events[j].id => i = j,
              NEW i \in DOMAIN new, NEW j \in DOMAIN new, new[i].id = new[j].id
       PROVE  i = j
  <2>1. \A x \in Range(r.events) : x.id # c.id
    BY DEF MayAct, Carried, Reused
  <2>2. \A x \in 1..Len(r.events) : r.events[x].id # c.id
    BY <1>3, <2>1 DEF Range
  <2>. QED BY <1>3, <1>10, <2>2
<1>. QED BY <1>2, <1>3, <1>5, <1>6, <1>7, <1>8, <1>9, <1>10

LEMMA InitIInv == Init => IInv
BY ReviewAssumption DEF Init, IInv, TypeOK, AckedCommandsKept, Reviews, Unreviewed, States,
   Revision, NoCommand, Range

\* A handler's commit, acknowledged or cut off: what it leaves when the stored
\* audit is the one it read, and when it is not.
LEMMA CommitEffect ==
  ASSUME IInv, NEW t \in Tabs, h[t] # NoCommand, Unchanged(h[t])
  PROVE  /\ h[t].snap = review
         /\ review \in Reviews /\ h[t].command \in CommandsSent
         /\ MayAct(review, h[t].command)
<1>1. h[t] \in Handlers
  BY DEF IInv, TypeOK
<1>2. /\ h[t].snap \in Reviews /\ h[t].command \in CommandsSent
  BY <1>1 DEF Handlers
<1>. QED BY <1>2 DEF IInv, TypeOK, Fresh, Unchanged

\* The review is replaced by one with one event more, and the handler t rests.
LEMMA Replacement ==
  ASSUME IInv, NEW t \in Tabs, h[t] # NoCommand, Unchanged(h[t]),
         review' = Updated(h[t]), h' = [h EXCEPT ![t] = NoCommand],
         acked' = acked \/ acked' = acked \cup {h[t].command},
         inputs' \in Nat, crashes' \in Nat
  PROVE  /\ IInv'
         /\ IsPrefix(review.events, review'.events)
         /\ review.state # "closed_without_release"
<1>1. /\ h[t].snap = review /\ review \in Reviews
      /\ h[t].command \in CommandsSent /\ MayAct(review, h[t].command)
  BY CommitEffect
<1>2. /\ review' \in Reviews
      /\ Len(review'.events) = Len(review.events) + 1
      /\ Len(review'.events) <= MaxRevision
      /\ IsPrefix(review.events, review'.events)
      /\ Range(review'.events) = Range(review.events) \cup {h[t].command}
      /\ review.state # "closed_without_release"
      /\ \A i, j \in DOMAIN review'.events : review'.events[i].id = review'.events[j].id => i = j
  BY <1>1, AppendedReview DEF IInv, AckedCommandsKept
<1>3. TypeOK'
  BY <1>1, <1>2 DEF IInv, TypeOK, Revision
<1>4. AckedCommandsKept'
  BY <1>2 DEF IInv, AckedCommandsKept
<1>5. ASSUME NEW u \in Tabs, h'[u] # NoCommand
      PROVE  Fresh(h'[u], review')
  <2>1. u # t /\ h'[u] = h[u] /\ h[u] # NoCommand
    BY <1>5 DEF IInv, TypeOK
  <2>2. h[u] \in Handlers /\ Fresh(h[u], review)
    BY <2>1 DEF IInv, TypeOK
  <2>3. Len(h[u].snap.events) \in Nat /\ Len(review.events) \in Nat
    BY <1>1, <2>2 DEF Handlers, Reviews
  <2>. QED BY <1>2, <2>1, <2>2, <2>3 DEF Fresh
<1>. QED BY <1>2, <1>3, <1>4, <1>5 DEF IInv

\* Every step keeps the invariant, lets the audit only grow, and leaves a closed
\* review alone.
LEMMA StepIInv ==
  ASSUME IInv, [Next]_vars
  PROVE  /\ IInv'
         /\ IsPrefix(review.events, review'.events)
         /\ review.state = "closed_without_release" => review' = review
<1>0. review \in Reviews /\ review.events \in Seq(CommandsSent)
  BY DEF IInv, TypeOK, Reviews
<1>1. IsPrefix(review.events, review.events)
  BY <1>0 DEF IsPrefix
<1>2. ASSUME NEW t \in Tabs, NEW c \in CommandsSent, Repeat(t, c)
      PROVE  IInv' /\ review' = review
  BY <1>2 DEF IInv, Repeat, AlreadyDone, Carried, Input, TypeOK, AckedCommandsKept, Fresh, Revision
<1>3. ASSUME NEW t \in Tabs, NEW c \in CommandsSent, Act(t, c)
      PROVE  IInv' /\ review' = review
  <2>1. TypeOK'
    BY <1>0, <1>3 DEF IInv, TypeOK, Act, Input, Handlers, Revision
  <2>2. AckedCommandsKept'
    BY <1>3 DEF IInv, Act, AckedCommandsKept
  <2>3. ASSUME NEW u \in Tabs, h'[u] # NoCommand
        PROVE  Fresh(h'[u], review')
    <3>1. Len(review.events) \in Nat
      BY <1>0
    <3>. QED BY <1>3, <2>3, <3>1 DEF IInv, TypeOK, Act, Fresh
  <2>. QED BY <1>3, <2>1, <2>2, <2>3 DEF IInv, Act
<1>4. ASSUME NEW t \in Tabs, Commit(t) \/ Crash(t), review' = review
      PROVE  IInv'
  <2>1. h[t] # NoCommand /\ h' = [h EXCEPT ![t] = NoCommand]
    BY <1>4 DEF Commit, Crash, NoCommand
  <2>2. acked' \subseteq Range(review.events) /\ acked' \subseteq CommandsSent
    <3>1. CASE acked' = acked
      BY <3>1 DEF IInv, TypeOK, AckedCommandsKept
    <3>2. CASE acked' # acked
      <4>1. Unchanged(h[t]) /\ review' = Updated(h[t])
        BY <1>4, <3>2 DEF Commit, Crash
      <4>2. MayAct(review, h[t].command) /\ h[t].snap = review /\ h[t].command \in CommandsSent
        BY <2>1, <4>1, CommitEffect
      <4>3. Len(review'.events) = Len(review.events) + 1
        BY <1>0, <4>1, <4>2, AppendedReview
      <4>. QED BY <1>0, <1>4, <4>3
    <3>. QED BY <3>1, <3>2
  <2>3. inputs' \in Nat /\ crashes' \in Nat
    BY <1>4 DEF Commit, Crash, IInv, TypeOK
  <2>4. TypeOK' /\ AckedCommandsKept'
    BY <1>4, <2>1, <2>2, <2>3 DEF IInv, TypeOK, AckedCommandsKept, Revision
  <2>5. \A u \in Tabs : h'[u] # NoCommand => Fresh(h'[u], review')
    BY <1>4, <2>1 DEF IInv, TypeOK, Fresh
  <2>. QED BY <2>4, <2>5 DEF IInv
<1>5. ASSUME NEW t \in Tabs, Commit(t) \/ Crash(t), review' # review
      PROVE  /\ IInv'
             /\ IsPrefix(review.events, review'.events)
             /\ review.state # "closed_without_release"
  <2>1. /\ h[t] # NoCommand /\ h' = [h EXCEPT ![t] = NoCommand]
        /\ Unchanged(h[t]) /\ review' = Updated(h[t])
        /\ acked' = acked \/ acked' = acked \cup {h[t].command}
        /\ inputs' \in Nat /\ crashes' \in Nat
    BY <1>5 DEF Commit, Crash, NoCommand, IInv, TypeOK
  <2>. QED BY <2>1, Replacement
<1>6. CASE UNCHANGED vars
  BY <1>1, <1>6 DEF vars, IInv, TypeOK, AckedCommandsKept, Fresh, Revision
<1>. QED BY <1>1, <1>2, <1>3, <1>4, <1>5, <1>6 DEF Next

\* A step leaves the review alone, or appends to it a command that act allows.
LEMMA ReviewMove ==
  ASSUME IInv, [Next]_vars
  PROVE  \/ review' = review
         \/ \E c \in CommandsSent :
              /\ MayAct(review, c)
              /\ review' = [state  |-> NextCaseState(review.state, c.action),
                            events |-> Append(review.events, c)]
<1>1. CASE \A t \in Tabs : review' = review \/ ~(Commit(t) \/ Crash(t))
  BY <1>1 DEF Next, Repeat, Act, vars
<1>2. CASE \E t \in Tabs : (Commit(t) \/ Crash(t)) /\ review' # review
  <2>1. PICK t \in Tabs : (Commit(t) \/ Crash(t)) /\ review' # review
    BY <1>2
  <2>2. h[t] # NoCommand /\ Unchanged(h[t]) /\ review' = Updated(h[t])
    BY <2>1 DEF Commit, Crash, NoCommand
  <2>3. /\ h[t].snap = review /\ h[t].command \in CommandsSent
        /\ MayAct(review, h[t].command)
    BY <2>2, CommitEffect
  <2>. QED BY <2>2, <2>3 DEF Updated
<1>. QED BY <1>1, <1>2

\* The states of a replay, continued by one allowed command.
LEMMA ReplayGrows ==
  ASSUME NEW r \in Reviews, NEW c \in CommandsSent, MayAct(r, c),
         NEW state \in [0..Revision(r) -> States], Replays(r, state),
         NEW new, new = [state |-> NextCaseState(r.state, c.action),
                         events |-> Append(r.events, c)]
  PROVE  \E next \in [0..Revision(new) -> States] : Replays(new, next)
<1>. DEFINE last == Revision(r)
            next == [n \in 0..last + 1 |-> IF n <= last THEN state[n]
                                           ELSE NextCaseState(r.state, c.action)]
<1>1. /\ r.events \in Seq(CommandsSent) /\ r.state \in States /\ c.action \in Actions
      /\ last \in Nat /\ last = Len(r.events)
  BY DEF Reviews, CommandsSent, Revision
<1>2. /\ new.events = Append(r.events, c) /\ new.state = NextCaseState(r.state, c.action)
      /\ Revision(new) = last + 1
      /\ DOMAIN new.events = 1..last + 1 /\ DOMAIN r.events = 1..last
      /\ \A n \in 1..last : new.events[n] = r.events[n]
      /\ new.events[last + 1] = c
  BY <1>1 DEF Revision
<1>3. NextCaseState(r.state, c.action) \in States
  BY <1>1 DEF NextCaseState, States, Actions
<1>4. next \in [0..last + 1 -> States]
  BY <1>1, <1>3
<1>5. /\ \A n \in 0..last : next[n] = state[n]
      /\ next[last + 1] = new.state
  BY <1>1, <1>2
<1>6. next[0] = "open" /\ next[Revision(new)] = new.state
  <2>1. next[0] = state[0]
    BY <1>1, <1>5
  <2>. HIDE DEF next
  <2>. QED BY <1>2, <1>5, <2>1 DEF Replays
<1>7. ASSUME NEW n \in 1..last
      PROVE  /\ new.events[n].action \in Allowed(next[n - 1])
             /\ new.events[n].expected = n - 1
             /\ next[n] = NextCaseState(next[n - 1], new.events[n].action)
  <2>1. n \in 0..last /\ n - 1 \in 0..last
    BY <1>1
  <2>2. next[n] = state[n] /\ next[n - 1] = state[n - 1] /\ new.events[n] = r.events[n]
    BY <1>2, <1>5, <2>1
  <2>. HIDE DEF next
  <2>. QED BY <1>2, <2>2 DEF Replays
<1>8. /\ c.action \in Allowed(next[last]) /\ c.expected = last
      /\ next[last + 1] = NextCaseState(next[last], c.action)
  <2>1. next[last] = state[last] /\ state[last] = r.state
    BY <1>1, <1>5 DEF Replays
  <2>. HIDE DEF next
  <2>. QED BY <1>2, <1>5, <2>1 DEF MayAct, Revision
<1>. HIDE DEF next
<1>9. ASSUME NEW n \in DOMAIN new.events
      PROVE  /\ new.events[n].action \in Allowed(next[n - 1])
             /\ new.events[n].expected = n - 1
             /\ next[n] = NextCaseState(next[n - 1], new.events[n].action)
  <2>1. CASE n \in 1..last
    BY <1>7, <2>1
  <2>2. CASE n = last + 1
    <3>1. n - 1 = last
      BY <1>1, <2>2
    <3>. QED BY <1>2, <1>8, <2>2, <3>1
  <2>. QED BY <1>1, <1>2, <2>1, <2>2
<1>10. Replays(new, next)
  BY <1>6, <1>9 DEF Replays
<1>. QED BY <1>2, <1>4, <1>10

-----------------------------------------------------------------------------
\* The inductive invariant holds of every reachable state.
THEOREM Invariance == Spec => []IInv
<1>1. IInv /\ [Next]_vars => IInv'
  BY StepIInv
<1>. QED BY <1>1, InitIInv, PTL DEF Spec

\* Every variable keeps its type, and no review outgrows its last revision.
THEOREM TypeCorrect == Spec => []TypeOK
<1>1. IInv => TypeOK
  BY DEF IInv
<1>. QED BY <1>1, Invariance, PTL

\* Every acknowledged command is on record, once, whatever the tabs send and
\* send again and whichever handlers are lost.
THEOREM AcknowledgedIsKept == Spec => []AckedCommandsKept
<1>1. IInv => AckedCommandsKept
  BY DEF IInv
<1>. QED BY <1>1, Invariance, PTL

\* The audit replays to the stored state: every command on record was allowed in
\* the state it was made in, by a sender who had seen every command before it.
THEOREM AuditReplay == Spec => []AuditReplays
<1>1. Init => AuditReplays
  <2>1. SUFFICES ASSUME Init PROVE AuditReplays
    OBVIOUS
  <2>. DEFINE first == [n \in 0..0 |-> "open"]
  <2>2. Revision(review) = 0 /\ review.events = <<>> /\ review.state = "open"
    BY <2>1 DEF Init, Unreviewed, Revision
  <2>3. first \in [0..Revision(review) -> States] /\ Replays(review, first)
    BY <2>2 DEF Replays, States
  <2>. QED BY <2>3 DEF AuditReplays
<1>2. IInv /\ AuditReplays /\ [Next]_vars => AuditReplays'
  <2>1. SUFFICES ASSUME IInv, AuditReplays, [Next]_vars PROVE AuditReplays'
    OBVIOUS
  <2>2. PICK state \in [0..Revision(review) -> States] : Replays(review, state)
    BY <2>1 DEF AuditReplays
  <2>3. CASE review' = review
    BY <2>1, <2>3 DEF AuditReplays, Replays, Revision
  <2>4. CASE review' # review
    <3>1. PICK c \in CommandsSent :
            /\ MayAct(review, c)
            /\ review' = [state  |-> NextCaseState(review.state, c.action),
                          events |-> Append(review.events, c)]
      BY <2>1, <2>4, ReviewMove
    <3>2. review \in Reviews
      BY <2>1 DEF IInv, TypeOK
    <3>3. \E next \in [0..Revision(review') -> States] : Replays(review', next)
      BY <2>2, <3>1, <3>2, ReplayGrows
    <3>. QED BY <3>3 DEF AuditReplays, Replays, Revision
  <2>. QED BY <2>3, <2>4
<1>. QED BY <1>1, <1>2, Invariance, PTL DEF Spec

\* The audit only grows, and no step changes a closed review.
THEOREM ClosedIsFinal == Spec => ClosedForGood
<1>1. IInv /\ [Next]_vars
        => [/\ IsPrefix(review.events, review'.events)
            /\ review.state = "closed_without_release" => review' = review]_vars
  BY StepIInv
<1>. QED BY <1>1, Invariance, PTL DEF Spec, ClosedForGood

=============================================================================
