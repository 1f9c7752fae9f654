--------------------------- MODULE MCProbeServer ---------------------------
(* The instances of ProbeServer that TLC checks. *)
EXTENDS ProbeServer
=============================================================================
