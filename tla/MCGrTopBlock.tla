---------------------------- MODULE MCGrTopBlock ----------------------------
(* Application threads for GrTopBlock. *)
EXTENDS GrTopBlock, TLC

CONSTANTS c1, c2

\* One thread makes every call, another may call stop() and lock() at any time.
OneOwner == (c1 :> {"start", "stop", "wait", "lock", "unlock"}) @@ (c2 :> {"stop", "lock"})

\* One thread runs the flowgraph, another reconfigures it.
Reconfigured == (c1 :> {"start", "wait"}) @@ (c2 :> {"lock", "unlock"})
=============================================================================
