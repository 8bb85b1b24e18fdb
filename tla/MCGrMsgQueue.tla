---------------------------- MODULE MCGrMsgQueue ----------------------------
(* Instances of GrMsgQueue for TLC: every constant is given in the cfg. *)
EXTENDS GrMsgQueue
=============================================================================
