--------------------------- MODULE MCMIConnection ---------------------------
(* Model-checking instances of MIConnection. *)
EXTENDS MIConnection

\* Callers are interchangeable: no action or safety property tells them apart.
CallerSymmetry == Permutations(Callers)
=============================================================================
