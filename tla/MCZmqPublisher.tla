--------------------------- MODULE MCZmqPublisher ---------------------------
(* Small instances of ZmqPublisher. *)
EXTENDS ZmqPublisher, TLC

Prefixes == {"", "rawtx", "sequence"}
Matches ==
    [p \in Prefixes |->
        IF p = "" THEN Topic ELSE {p}]
Symmetry == Permutations(Channel)
=============================================================================
