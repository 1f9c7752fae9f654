------------------------- MODULE MCSessionRegistry -------------------------
(* Which client names which session ids. *)
EXTENDS SessionRegistry, TLC

CONSTANTS c1, c2, i1, i2

\* i1 is named by both clients, i2 by one.
SharedId == (c1 :> {i1}) @@ (c2 :> {i1, i2})
=============================================================================
