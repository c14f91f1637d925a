---------------------------- MODULE MCStdioTable ----------------------------
(* StdioTable with small constants: see the .cfg files. *)
EXTENDS StdioTable
=============================================================================
