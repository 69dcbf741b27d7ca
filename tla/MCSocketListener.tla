-------------------------- MODULE MCSocketListener --------------------------
(* Instances of SocketListener for TLC. *)
EXTENDS SocketListener
=============================================================================
