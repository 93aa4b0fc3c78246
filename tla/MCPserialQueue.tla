--------------------------- MODULE MCPserialQueue ---------------------------
(* Instances of PserialQueue for TLC.                                      *)
EXTENDS PserialQueue
=============================================================================
