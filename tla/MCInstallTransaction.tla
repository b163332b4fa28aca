------------------------- MODULE MCInstallTransaction -------------------------
(* InstallTransaction with one or two installers. *)
EXTENDS InstallTransaction, TLC

Symmetry == Permutations(Installers)
===============================================================================
