-------------------------- MODULE MCElectrumOutpoint --------------------------
(* Instances of ElectrumOutpoint: an outpoint that is funded and spent.  The *)
(* client names a version below the configured range, its first and its last,*)
(* and one that is not defined.                                              *)
EXTENDS ElectrumOutpoint, TLC

Named == {1000, 10000, 10250, 10700}

CONSTANTS o1, fund, spend, other

FunderIs == (o1 :> fund)
SpendsIs == (fund :> other) @@ (spend :> o1)
=============================================================================
