--------------------------- MODULE RequestService ---------------------------
(***************************************************************************)
(* What the callers of add_request_query can rely on.  That an accepted    *)
(* request is held until it is processed is what README.md:16 promises;    *)
(* that requests are processed one by one, each once and in the order of   *)
(* acceptance, is what the code does (README.md:17 says "concurrently"),   *)
(* and what the client's wrappers, which submit the puts of one row one    *)
(* after the other, depend on.  The promise ends when reliable becomes     *)
(* FALSE; from then on nothing is promised.                                *)
(***************************************************************************)
EXTENDS Naturals, Sequences

CONSTANT Request

VARIABLES accepted, executed, reliable

svars == <<accepted, executed, reliable>>

Init == accepted = <<>> /\ executed = <<>> /\ reliable = TRUE

Accept(r) ==
  /\ accepted' = Append(accepted, r)
  /\ UNCHANGED <<executed, reliable>>

Execute ==
  /\ Len(executed) < Len(accepted)
  /\ executed' = Append(executed, accepted[Len(executed) + 1])
  /\ UNCHANGED <<accepted, reliable>>

Fail == reliable' = FALSE

Next == reliable => \/ \E r \in Request : Accept(r)
                    \/ Execute
                    \/ Fail

Spec == Init /\ [][Next]_svars
=============================================================================
