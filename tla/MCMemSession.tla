---------------------------- MODULE MCMemSession ----------------------------
(* MemSession on small instances; the configurations give the constants.   *)
EXTENDS MemSession

=============================================================================
