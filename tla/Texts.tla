------------------------------- MODULE Texts -------------------------------
(***************************************************************************)
(* Texts and bytes: sequences that are printed piece by piece and read     *)
(* from the front.  What a reader has left is the rest of the sequence     *)
(* behind its iterator or position.                                        *)
(***************************************************************************)
EXTENDS Integers, Sequences, SequencesExt

\* What is left of s after its first n elements.
From(s, n) == SubSeq(s, n + 1, Len(s))

\* k |-> the last k of some pieces, one after the other.
LastJoined(pieces) ==
    LET n == Len(pieces)
        last[k \in 0..n] == IF k = 0 THEN <<>> ELSE pieces[n - k + 1] \o last[k - 1]
    IN last

Joined(pieces) == LastJoined(pieces)[Len(pieces)]
=============================================================================
