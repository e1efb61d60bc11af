--------------------------- MODULE MCSrpHandshake ---------------------------
(* SrpHandshake for TLC, which checks liveness and so takes no symmetry. *)
EXTENDS SrpHandshake
=============================================================================
