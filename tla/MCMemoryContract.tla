-------------------------- MODULE MCMemoryContract --------------------------
(* Small instances of MemoryContract for TLC. *)
EXTENDS MemoryContract, MCMemoryCache
=============================================================================
