--------------------------- MODULE MCSparrowSilent ---------------------------
(* Instances of SparrowSilent: two addresses; cuts by height from the first  *)
(* and from the second row, a closed range, and a time.                      *)
EXTENDS SparrowSilent

Cuts == {[start |-> 0, stop |-> 9, time |-> FALSE],
         [start |-> 2, stop |-> 9, time |-> FALSE],
         [start |-> 2, stop |-> 2, time |-> TRUE]}
=============================================================================
