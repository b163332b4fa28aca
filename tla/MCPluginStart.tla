----------------------------- MODULE MCPluginStart -----------------------------
(* PluginStart with a few processes. *)
EXTENDS PluginStart
===============================================================================
