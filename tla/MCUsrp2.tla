------------------------------ MODULE MCUsrp2 ------------------------------
(* Instances of Usrp2 for TLC: every constant is given in the cfg. *)
EXTENDS Usrp2
=============================================================================
