----------------------------- MODULE MCEventBus -----------------------------
(* Small instances of EventBus. *)
EXTENDS EventBus

CONSTANTS r1, r2
=============================================================================
