---------------------------- MODULE MCLiveOrders ----------------------------
(* A small instance of LiveOrders for TLC. *)
EXTENDS LiveOrders
=============================================================================
