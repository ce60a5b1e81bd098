------------------------- MODULE MCSandboxLifecycle -------------------------
(* SandboxLifecycle for TLC.                                               *)
EXTENDS SandboxLifecycle, TLC

Symmetry == Permutations(Tasks)
=============================================================================
