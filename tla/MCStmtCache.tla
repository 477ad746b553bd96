---------------------------- MODULE MCStmtCache -----------------------------
(* StmtCache on small instances; the configuration gives the constants.    *)
EXTENDS StmtCache

=============================================================================
