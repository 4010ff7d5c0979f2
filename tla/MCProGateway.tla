---------------------------- MODULE MCProGateway ----------------------------
(* A small instance of ProGateway for TLC. *)
EXTENDS ProGateway
=============================================================================
