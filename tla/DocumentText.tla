---------------------------- MODULE DocumentText ----------------------------
(***************************************************************************)
(* How TextProcessor (doc_digitization.py) cuts a text into chunks.  A     *)
(* text is a sequence that tells its visible characters from blank ones,   *)
(* and a chunk is the set of the positions it keeps.                       *)
(***************************************************************************)
LOCAL INSTANCE Integers
LOCAL INSTANCE Sequences

Step(size, overlap) == size - overlap

(* The loop ends when start has passed the text, so with a step that is    *)
(* not positive it does not end.                                           *)
Starts(text, size, overlap) ==
    {k * Step(size, overlap) : k \in 0 .. Len(text)} \cap 0 .. Len(text) - 1

(* A piece of the text without the blanks at its ends. *)
Stripped(text, positions) ==
    LET visible == {p \in positions : text[p]}
    IN  {p \in positions : \E a, b \in visible : a <= p /\ p <= b}

Chunks(text, size, overlap) ==
    {Stripped(text, (s + 1 .. s + size) \cap DOMAIN text) : s \in Starts(text, size, overlap)} \ {{}}

(* A passage of at most overlap + 1 characters that begins and ends        *)
(* visibly is whole in one of the chunks, wherever it stands in the text.  *)
PassagesStayWhole(MaxLength) ==
    \A n \in 0 .. MaxLength : \A text \in [1 .. n -> BOOLEAN] :
    \A size \in 1 .. n + 1 : \A overlap \in 0 .. size - 1 :
    \A a \in 1 .. n : \A b \in a .. n :
        text[a] /\ text[b] /\ b - a <= overlap =>
            \E c \in Chunks(text, size, overlap) : a .. b \subseteq c
=============================================================================
