---------------------------- MODULE KeyValueStore ----------------------------
(***************************************************************************)
(* What a table promises its clients: a map from row and column to the     *)
(* last value put there.  A put changes one cell, a delete clears one row. *)
(* The promise ends when reliable becomes FALSE.                           *)
(***************************************************************************)
CONSTANTS Key, Column, Value, NULL

VARIABLES store, reliable

kvars == <<store, reliable>>

Init ==
  /\ store = [k \in Key |-> [c \in Column |-> NULL]]
  /\ reliable = TRUE

Put(k, c, v) ==
  /\ store' = [store EXCEPT ![k][c] = v]
  /\ UNCHANGED reliable

Delete(k) ==
  /\ store' = [store EXCEPT ![k] = [c \in Column |-> NULL]]
  /\ UNCHANGED reliable

Fail == reliable' = FALSE

Next == reliable => \/ \E k \in Key, c \in Column, v \in Value : Put(k, c, v)
                    \/ \E k \in Key : Delete(k)
                    \/ Fail

Spec == Init /\ [][Next]_kvars
=============================================================================
