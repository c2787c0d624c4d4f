------------------------------- MODULE MCPosts -------------------------------
EXTENDS Posts, TLC

\* No property tells one file from another.
FileSymmetry == Permutations(File)
=============================================================================
