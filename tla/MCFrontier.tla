----------------------------- MODULE MCFrontier -----------------------------
(* Small instances of Frontier for TLC. *)
EXTENDS Frontier, MCSite
=============================================================================
