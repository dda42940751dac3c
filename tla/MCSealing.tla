---------------------------- MODULE MCSealing ----------------------------
(* An instance of Sealing for TLC. *)
EXTENDS Sealing
=============================================================================
