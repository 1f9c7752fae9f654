--------------------------- MODULE MCDebugSession ---------------------------
(* Who runs which tools of one session. *)
EXTENDS DebugSession

CONSTANTS a, b

\* One client runs the target and sets breakpoints, another interferes.
RunnerAndHelper ==
  (a :> {"continue", "step", "reset_halt", "break", "tbreak", "delete"})
    @@ (b :> {"delete", "reset_run", "disconnect"})

\* Tools that await a stop, and those that keep it from coming; two disconnects may overlap.
Waiters == (a :> {"continue", "step", "disconnect"}) @@ (b :> {"interrupt", "disconnect"})

\* A breakpoint set while another client's run goes on: its first hit may be
\* processed before it is in the table, so HitsMatch does not hold here.
SetWhileRunning == (a :> {"continue"}) @@ (b :> {"break"})

\* A reset while another client awaits a stop: here FreshStop does not hold.
ResetWhileRunning == (a :> {"continue"}) @@ (b :> {"reset_halt"})
=============================================================================
