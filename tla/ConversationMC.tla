--------------------------- MODULE ConversationMC ---------------------------
(***************************************************************************)
(* Model-checking instance of Conversation: model values, and the symmetry *)
(* among them.                                                             *)
(***************************************************************************)
EXTENDS Conversation, TLC

Symmetry == Permutations(Runs) \cup Permutations(Actors) \cup Permutations(Sessions)
=============================================================================
