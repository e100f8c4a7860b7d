----------------------------- MODULE MCEventBus -----------------------------
(***************************************************************************)
(* EventBus for TLC: two subscribers whose queues hold fewer events than   *)
(* are published.  Each falls behind on its own, so no symmetry is needed  *)
(* to keep the state graph small (and none is sound for liveness).         *)
(***************************************************************************)
EXTENDS EventBus

=============================================================================
