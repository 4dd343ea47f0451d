----------------------------- MODULE CaseNotice -----------------------------
(***************************************************************************)
(* What the notification outbox promises to Operations and to a held case: *)
(* the notification is due once and taken up once, and only for a case of  *)
(* Operations' own; Operations see at most one card for it; it is recorded *)
(* as delivered only when they did, or as ambiguous, once and for all.     *)
(* The card of an ambiguous one may still arrive.                          *)
(***************************************************************************)
EXTENDS Naturals

CONSTANTS
  Own,     \* the cases of the configured Operations user
  Others   \* the cases of a former one

VARIABLES
  notice,  \* notice[c]: what is recorded of the notification of case c
  cards    \* cards[c]: the cards Operations got for case c

noticeVars == <<notice, cards>>

Init ==
  /\ notice = [c \in Own \cup Others |-> "none"]
  /\ cards = [c \in Own \cup Others |-> 0]

Moves(c, from, to) ==
  /\ notice[c] = from
  /\ notice' = [notice EXCEPT ![c] = to]
  /\ UNCHANGED cards

Hold(c)         == Moves(c, "none", "pending")
TakeUp(c)       == c \in Own /\ Moves(c, "pending", "claimed")
Deliver(c)      == cards[c] = 1 /\ Moves(c, "claimed", "delivered")
LeaveToStaff(c) == Moves(c, "claimed", "ambiguous")

Show(c) ==
  /\ c \in Own /\ notice[c] \in {"claimed", "ambiguous"} /\ cards[c] = 0
  /\ cards' = [cards EXCEPT ![c] = 1]
  /\ UNCHANGED notice

Next ==
  \E c \in Own \cup Others :
    Hold(c) \/ TakeUp(c) \/ Show(c) \/ Deliver(c) \/ LeaveToStaff(c)

Spec == Init /\ [][Next]_noticeVars

=============================================================================
