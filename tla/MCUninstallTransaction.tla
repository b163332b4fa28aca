------------------------ MODULE MCUninstallTransaction ------------------------
(* UninstallTransaction with a few installers and removers. *)
EXTENDS UninstallTransaction, TLC

Symmetry == Permutations(Installers) \cup Permutations(Removers)
OneFailure == faults + crashes + interrupts <= 1
===============================================================================
