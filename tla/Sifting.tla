------------------------------- MODULE Sifting -------------------------------
(***************************************************************************)
(* SelectSeq with a set in place of an operator, written as the loop that  *)
(* it stands for, so that it can be reasoned about.                        *)
(***************************************************************************)
EXTENDS Naturals, Sequences

(* The elements of seq that are in S, in their order.                        *)
Sift(seq, S) ==
  LET Sifted[n \in 0 .. Len(seq)] ==
        IF n = 0 THEN <<>>
        ELSE IF seq[n] \in S THEN Append(Sifted[n - 1], seq[n])
        ELSE Sifted[n - 1]
  IN  Sifted[Len(seq)]
=============================================================================
