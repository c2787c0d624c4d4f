------------------------------ MODULE CommentList ------------------------------
(***************************************************************************)
(* What the comments of a post promise their readers: a comment goes to    *)
(* the end of the list, a comment leaves it only when a user deletes it,   *)
(* and reading changes nothing.  The promise ends when reliable becomes    *)
(* FALSE.                                                                  *)
(***************************************************************************)
EXTENDS Sequences, Naturals

CONSTANT Text

VARIABLES list, gone, reliable

Init == list = <<>> /\ gone = {} /\ reliable = TRUE

Add(c) == list' = Append(list, c) /\ UNCHANGED <<gone, reliable>>

Remove(i) ==
  /\ list' = SubSeq(list, 1, i - 1) \o SubSeq(list, i + 1, Len(list))
  /\ gone' = gone \cup {list[i]}
  /\ UNCHANGED reliable

Fail == reliable' = FALSE

Next == reliable => \/ \E c \in Text : Add(c)
                    \/ \E i \in DOMAIN list : Remove(i)
                    \/ Fail

Spec == Init /\ [][Next]_<<list, gone, reliable>>
=============================================================================
