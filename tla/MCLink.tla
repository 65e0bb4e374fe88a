------------------------------- MODULE MCLink -------------------------------
(* Instances of MasterClientLink for TLC: all values are in the .cfg. *)
EXTENDS MasterClientLink
=============================================================================
