------------------------------ MODULE MCSweeper ------------------------------
(* Small instances of Sweeper for TLC. *)
EXTENDS Sweeper
=============================================================================
