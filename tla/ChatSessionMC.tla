--------------------------- MODULE ChatSessionMC ---------------------------
(***************************************************************************)
(* Model-checking instance of ChatSession: three turns that follow each    *)
(* other, two that may overlap, and two messages of which one may be       *)
(* edited.  Nothing is symmetric: NextTurn takes the turns in an order.    *)
(***************************************************************************)
EXTENDS ChatSession
=============================================================================
