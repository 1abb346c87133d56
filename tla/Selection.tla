----------------------------- MODULE Selection -----------------------------
(***************************************************************************)
(* Vec::retain and Iterator::filter over the lines of a session: what is   *)
(* left of a sequence when only the elements of a set are kept, in order.  *)
(* A recursive function, so that proofs can reason about it.               *)
(***************************************************************************)
EXTENDS Integers, Sequences

SelectPrefix(s, keep) ==
    LET f[n \in 0..Len(s)] ==
            IF n = 0 THEN <<>>
            ELSE IF s[n] \in keep THEN Append(f[n - 1], s[n]) ELSE f[n - 1]
    IN  f

Select(s, keep) == SelectPrefix(s, keep)[Len(s)]
=============================================================================
