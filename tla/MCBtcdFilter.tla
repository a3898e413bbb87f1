---------------------------- MODULE MCBtcdFilter ----------------------------
(* A small instance of BtcdFilter: one transaction spends what another pays. *)
EXTENDS BtcdFilter, TLC

CONSTANTS a, pay, spend

Paid == (pay :> {a}) @@ (spend :> {})
Spent == (pay :> {}) @@ (spend :> {<<pay, a>>})
=============================================================================
