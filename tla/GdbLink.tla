------------------------------ MODULE GdbLink ------------------------------
(***************************************************************************)
(* The commands of one session on their way through MIConnection.send to   *)
(* GDB and the answers on their way back, as far as the tools that send    *)
(* them can tell.  MIConnection.tla models the same code with its tokens,  *)
(* futures and tasks.                                                      *)
(*                                                                         *)
(* GDB executes its commands in order.  A command that timed out is still  *)
(* executed, and its answer, whose token nobody waits for any more, is     *)
(* given to the oldest command that waits; so is the answer to the         *)
(* -exec-interrupt that is sent, without a token, when a command times out.*)
(***************************************************************************)
EXTENDS Naturals, Sequences, FiniteSetsExt

CONSTANTS
    Clients,      \* the tasks that send commands
    MaxTimeouts   \* bound: how many commands time out

ASSUME LinkAssumption == "nobody" \notin Clients /\ MaxTimeouts \in Nat

VARIABLES
    pipe,      \* commands that GDB has not answered, oldest first
    reply,     \* for each client, the answer that its call has not seen yet
    timeouts   \* how many commands have timed out

linkVars == <<pipe, reply, timeouts>>

Nobody == "nobody"
Nothing == [kind |-> "nothing"]
GdbError == [kind |-> "error"]
TimedOut == [kind |-> "timeout"]

\* A ^done that carries nothing a tool looks for.
Done == [kind |-> "done"]

Ok(r) == r.kind = "done"

Interrupt == [client |-> Nobody, cmd |-> "interrupt"]

LinkInit ==
    /\ pipe = <<>>
    /\ reply = [c \in Clients |-> Nothing]
    /\ timeouts = 0

\* The commands whose senders wait; pipe is in the order of _pending_order.
Waiting == {i \in DOMAIN pipe : pipe[i].client # Nobody}

\* GDB has executed its oldest command and answers.
Answers(answer) ==
    IF Waiting = {}
    THEN pipe' = Tail(pipe) /\ UNCHANGED reply
    ELSE LET i == Min(Waiting) IN
         /\ pipe' = Tail([pipe EXCEPT ![i].client = Nobody])
         /\ reply' = [reply EXCEPT ![pipe[i].client] = answer]

\* wait_for gives up: the token is forgotten and GDB is told to interrupt.
TimesOut(c) ==
    \E i \in Waiting :
        /\ pipe[i].client = c
        /\ timeouts < MaxTimeouts
        /\ timeouts' = timeouts + 1
        /\ pipe' = Append([pipe EXCEPT ![i].client = Nobody], Interrupt)
        /\ reply' = [reply EXCEPT ![c] = TimedOut]

=============================================================================
