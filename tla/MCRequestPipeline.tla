-------------------------- MODULE MCRequestPipeline --------------------------
EXTENDS RequestPipeline, TLC

\* No safety property tells one request from another.
RequestSymmetry == Permutations(Request)
=============================================================================
