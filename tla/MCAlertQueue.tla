---------------------------- MODULE MCAlertQueue ----------------------------
(* Model-checking instance of AlertQueue. *)
EXTENDS AlertQueue

CONSTANTS a1, a2, w1, w2

AlertSet == {a1, a2}
TwoWorkers == {w1, w2}
OneWorker == {w1}
=============================================================================
