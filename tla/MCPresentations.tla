--------------------------- MODULE MCPresentations ---------------------------
(* Presentations on small instances, for TLC. *)
EXTENDS Presentations, TLC
=============================================================================
