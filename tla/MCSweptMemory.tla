--------------------------- MODULE MCSweptMemory ---------------------------
(* Small instances of SweptMemory for TLC. *)
EXTENDS SweptMemory, MCMemoryCache
=============================================================================
