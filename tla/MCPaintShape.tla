----------------------------- MODULE MCPaintShape -----------------------------
(* PaintShape with a few calls. *)
EXTENDS PaintShape
===============================================================================
