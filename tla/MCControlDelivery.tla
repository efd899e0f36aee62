------------------------- MODULE MCControlDelivery -------------------------
(* A small instance of ControlDelivery for TLC. *)
EXTENDS ControlDelivery
=============================================================================
