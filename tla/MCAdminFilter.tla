---------------------------- MODULE MCAdminFilter ----------------------------
(* A small instance of AdminFilter. *)
EXTENDS AdminFilter

CONSTANTS b1, b2
Bits == {b1, b2}
=============================================================================
