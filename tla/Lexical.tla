------------------------------ MODULE Lexical ------------------------------
(***************************************************************************)
(* The order of sequences of numbers: of texts as sort.Strings sorts them, *)
(* and of paths as filepath.WalkDir walks them.                            *)
(***************************************************************************)
EXTENDS Integers, Sequences

\* v comes before w: it is shorter and all w begins with, or has a smaller
\* number where they differ first.
Before(v, w) == \E i \in 1..Len(w) :
    /\ i <= Len(v) + 1
    /\ \A k \in 1..(i - 1) : v[k] = w[k]
    /\ i <= Len(v) => v[i] < w[i]
=============================================================================
