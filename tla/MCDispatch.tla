------------------------------ MODULE MCDispatch ------------------------------
(* CapabilityDispatch over all five contracts. *)
EXTENDS CapabilityDispatch

MCDetails == {"detail"}
=============================================================================
