-------------------------------- MODULE MCPpcb -------------------------------
(* Ppcb with few clients and short data. *)
EXTENDS Ppcb
=============================================================================
