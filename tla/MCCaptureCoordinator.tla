------------------------ MODULE MCCaptureCoordinator ------------------------
(* Who captures what. *)
EXTENDS CaptureCoordinator, TLC

CONSTANTS c1, c2

\* Every two ways of capturing meet.
Both == (c1 :> {"timed", "around"}) @@ (c2 :> {"triggered", "around"})
\* Two clients around breakpoints: OwnCaptureOnly does not hold here.
TwoAround == (c1 :> {"around"}) @@ (c2 :> {"around"})
\* One client may have its captures decoded, by two analyzers.
OneDecodes == (c1 :> {0, 2}) @@ (c2 :> {0})
=============================================================================
