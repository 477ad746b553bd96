---------------------------- MODULE MCBeeLogger -----------------------------
(* BeeLogger on small instances; the configurations give the constants.    *)
EXTENDS BeeLogger

=============================================================================
