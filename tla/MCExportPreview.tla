---------------------------- MODULE MCExportPreview ----------------------------
(* ExportPreview with every command of ImageCommands. *)
EXTENDS ExportPreview
===============================================================================
