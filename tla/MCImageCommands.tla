---------------------------- MODULE MCImageCommands ----------------------------
(* ImageCommands on the artist's image alone or with a few more. *)
EXTENDS ImageCommands
===============================================================================
