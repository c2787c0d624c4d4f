------------------------------ MODULE MCComments ------------------------------
EXTENDS Comments, TLC

CONSTANTS c1, c2, c3, comma, empty, s1, s2

\* One comment holds a semicolon.
MCTyped == {<<c>> : c \in Text \ {s1, s2}} \cup {<<s1, s2>>}
=============================================================================
