--------------------------- MODULE MCRestartCycle ----------------------------
(* One session at its cap, with TLC's bounds on persons and on faults. *)
EXTENDS RestartCycle
=============================================================================
