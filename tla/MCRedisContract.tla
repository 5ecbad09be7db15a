--------------------------- MODULE MCRedisContract ---------------------------
(* Small instances of RedisContract for TLC. *)
EXTENDS RedisContract, MCRedisCache
=============================================================================
