------------------------ MODULE MCElectrumSubscribe ------------------------
(* Small instances of ElectrumSubscribe. *)
EXTENDS ElectrumSubscribe, TLC

CONSTANTS k1, k2, t1, t2

OneKey == [t \in Tx |-> k1]
SecondKey == [t \in Tx |-> k2]
=============================================================================
