----------------------------- MODULE MCStdioOut -----------------------------
(* StdioOut with small constants: see the .cfg files. *)
EXTENDS StdioOut
=============================================================================
