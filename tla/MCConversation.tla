--------------------------- MODULE MCConversation ---------------------------
(* Small instances of Conversation; handlers are interchangeable.          *)
EXTENDS Conversation

Symmetric == Permutations(Procs) \cup Permutations(Artifacts) \cup Permutations(Ids)

=============================================================================
