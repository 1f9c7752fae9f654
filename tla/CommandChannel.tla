--------------------------- MODULE CommandChannel ---------------------------
(***************************************************************************)
(* What a user of MIConnection may rely on, without tokens, pipes, locks   *)
(* or tasks: a channel to GDB that opens once, may be lost, and is closed; *)
(* every request is answered, rejected or abandoned before it ends, and    *)
(* the very step that loses or closes the channel rejects every request    *)
(* still open.                                                             *)
(***************************************************************************)
CONSTANT Callers

VARIABLES phase,    \* "new", "up", "lost" (no more answers), "closed"
          request   \* per caller: "idle", "asked", and how it was settled

vars == <<phase, request>>

Init ==
  /\ phase = "new"
  /\ request = [c \in Callers |-> "idle"]

Settle(how) == [c \in Callers |-> IF request[c] = "asked" THEN how ELSE request[c]]

Open ==
  /\ phase = "new"
  /\ phase' = "up"
  /\ UNCHANGED request

\* A lost channel still takes requests; they can only be abandoned or rejected.
Ask(c) ==
  /\ phase \in {"up", "lost"}
  /\ request[c] = "idle"
  /\ request' = [request EXCEPT ![c] = "asked"]
  /\ UNCHANGED phase

Answer(c) ==
  /\ phase = "up"
  /\ request[c] = "asked"
  /\ request' = [request EXCEPT ![c] = "answered"]
  /\ UNCHANGED phase

\* the caller's timer
Abandon(c) ==
  /\ request[c] = "asked"
  /\ request' = [request EXCEPT ![c] = "abandoned"]
  /\ UNCHANGED phase

\* send() returns or raises
Finish(c) ==
  /\ request[c] # "idle"
  /\ request' = [request EXCEPT ![c] = "idle"]
  /\ UNCHANGED phase

Lose ==
  /\ phase = "up"
  /\ phase' = "lost"
  /\ request' = Settle("rejected")

Close ==
  /\ phase \in {"up", "lost"}
  /\ phase' = "closed"
  /\ request' = Settle("rejected")

Next ==
  \/ Open \/ Lose \/ Close
  \/ \E c \in Callers : Ask(c) \/ Answer(c) \/ Abandon(c) \/ Finish(c)

Spec == Init /\ [][Next]_vars
=============================================================================
