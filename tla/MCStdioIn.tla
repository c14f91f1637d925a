------------------------------ MODULE MCStdioIn ------------------------------
(* StdioIn with small constants: see the .cfg files. *)
EXTENDS StdioIn
=============================================================================
