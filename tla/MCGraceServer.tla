--------------------------- MODULE MCGraceServer ----------------------------
(* GraceServer on small instances; the configurations give the constants.  *)
EXTENDS GraceServer

=============================================================================
