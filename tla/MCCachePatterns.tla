-------------------------- MODULE MCCachePatterns ---------------------------
(* CachePatterns on small instances; the configuration gives the constants. *)
EXTENDS CachePatterns

=============================================================================
