------------------------------- MODULE MCTable -------------------------------
EXTENDS Table, TLC

CONSTANTS k1, k2, k3, k4, b1, b2

\* Three keys of one bucket and one of another.
MCColliding == k1 :> b1 @@ k2 :> b1 @@ k3 :> b1 @@ k4 :> b2

\* No property tells one value or one column from another.
TableSymmetry == Permutations(Value) \cup Permutations(Column)
=============================================================================
