------------------------------ MODULE Selection ------------------------------
(* Part of a sequence, in its order: Rust's filter, for a set of places.     *)
EXTENDS Integers, Sequences

\* The elements of s at the places I.
Selected(s, I) ==
    LET sel[k \in 0 .. Len(s)] ==
          IF k = 0 THEN <<>>
          ELSE IF k \in I THEN Append(sel[k - 1], s[k]) ELSE sel[k - 1]
    IN  sel[Len(s)]
=============================================================================
