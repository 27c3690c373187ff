----------------------------- MODULE MCExitKeys -----------------------------
(* Instances of ExitKeys for TLC. *)
EXTENDS ExitKeys
=============================================================================
