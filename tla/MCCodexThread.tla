--------------------------- MODULE MCCodexThread ----------------------------
(* A thread of the daemon of codex with two messages of TLC's own. *)
EXTENDS CodexThread

CONSTANTS m1, m2
=============================================================================
