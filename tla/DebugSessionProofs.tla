------------------------- MODULE DebugSessionProofs -------------------------
(***************************************************************************)
(* What DebugSession.tla promises, for any number of clients, commands and *)
(* stops.                                                                  *)
(*                                                                         *)
(* The types, and that the session knows the target's state, hold whatever *)
(* tools the clients call and whenever timers fire.  What a run returns    *)
(* and what the breakpoint table says holds of sessions in which one       *)
(* client runs the target (and, for the table, sets the breakpoints) and   *)
(* the others delete, reset and disconnect: an interrupt and a command     *)
(* that timed out leave answers on their way that settle somebody else's   *)
(* command, and a second runner clears and takes the stop event of the     *)
(* first.  The definitions SetWhileRunning and ResetWhileRunning of        *)
(* MCDebugSession.tla are such sessions, and TLC refutes the properties in *)
(* them.                                                                   *)
(***************************************************************************)
EXTENDS DebugSession, FiniteSetTheorems, SequenceTheorems, TLAPS

\* What is on the way to GDB, and back from it.
Items == [token : Nat, text : Commands \cup {"interrupt"}, arg : Nat]
Results == [type : {"result"}, token : Nat, class : {"done", "error"}, bkpt : Nat]
StopRecords == [type : {"stopped"}, stop : 1..MaxStops, bkpt : Nat]
Records == Results \cup [type : {"running"}] \cup StopRecords
\* What waits in the event queue of the session.
Events == [stop : 1..MaxStops, bkpt : Nat]
\* An entry of a breakpoint table.
Breakpoint == [hits : Nat, temporary : BOOLEAN]

\* id -> breakpoint, for ids that have been issued
IsTable(t) == \A id \in DOMAIN t : id \in Nat /\ id < next_token /\ t[id] \in Breakpoint

\* c waits for the answer to its command.
Sending(c) == tool[c].pc = "sending"

\* The types, conjunct by conjunct.
ScalarsOK ==
  /\ conn_state \in {"stopped", "running", "exited", "disconnected"}
  /\ next_token \in Nat \ {0}
  /\ event_loop \in {"running", "gone"} /\ stop_event \in BOOLEAN
  /\ gdb \in {"halted", "running", "gone"}
  /\ last_stop \in 0..MaxStops /\ stops \in 1..MaxStops

\* A call's token and number have been issued.
ToolsOK ==
  /\ tool \in [Clients -> Tool]
  /\ \A c \in Clients : tool[c].token < next_token /\ tool[c].arg < next_token

\* So have those of the commands on their way to GDB ...
InboxOK ==
  /\ inbox \in Seq(Items)
  /\ \A i \in DOMAIN inbox : inbox[i].token < next_token

\* ... and those of GDB's answers.
OutboxOK ==
  /\ outbox \in Seq(Records)
  /\ \A i \in DOMAIN outbox :
        outbox[i].type = "result" => outbox[i].token < next_token /\ outbox[i].bkpt < next_token

\* Every variable has its type.
Shape ==
  /\ ScalarsOK /\ ToolsOK /\ InboxOK /\ OutboxOK
  /\ events \in Seq(Events) /\ IsTable(breakpoints) /\ IsTable(table)

\* The pending commands are those that calls wait for, each once.
Pending ==
  /\ pending_order \in Seq(1..(next_token - 1))
  /\ \A i, j \in DOMAIN pending_order : i # j => pending_order[i] # pending_order[j]
  /\ \A i \in DOMAIN pending_order :
       \E c \in Clients : Sending(c) /\ tool[c].token = pending_order[i]
  /\ \A c \in Clients : Sending(c) => \E i \in DOMAIN pending_order : pending_order[i] = tool[c].token
  /\ \A c, d \in Clients : Sending(c) /\ Sending(d) /\ c # d => tool[c].token # tool[d].token

\* Records that tell the session the target's state.
Tells(i) == outbox[i].type \in {"running", "stopped"}
\* The last record on its way that tells the state tells GDB's; if there is none, the
\* session knows it already.
Follows ==
  IF gdb = "gone" THEN Up \/ outbox = <<>>
  ELSE /\ Up
       /\ \/ (\A i \in DOMAIN outbox : ~Tells(i)) /\ (conn_state = "running" <=> gdb = "running")
          \/ \E i \in DOMAIN outbox :
               /\ Tells(i) /\ (outbox[i].type = "running" <=> gdb = "running")
               /\ \A j \in DOMAIN outbox : j > i => ~Tells(j)

\* Only r runs the target or wakes those who wait for a stop; nothing is interrupted and
\* no timer fires.
RunsAlone(r) ==
  /\ Timeouts = {}
  /\ \A c \in Clients : "interrupt" \notin Ops[c]
  /\ \A c \in Clients \ {r} : Ops[c] \cap (Runs \cup {"reset_halt"}) = {}

\* What the calls can be when only r runs the target.
Roles(r) ==
  \A c \in Clients :
    /\ tool[c].op = "interrupt" => tool[c].pc = "idle"
    /\ c # r => tool[c].op \notin Runs \cup {"reset_halt"}
    /\ tool[c].pc \in {"waiting", "woken"} => tool[c].op \in Runs
    /\ tool[c].pc # "grace"
    /\ tool[c].pc = "closing" => tool[c].op = "disconnect"

\* The answers on their way.
IsResult(i) == outbox[i].type = "result"

\* Every command and every answer on its way belongs to the one call that waits for it.
Owned ==
  /\ gdb # "gone" =>
       \A i \in DOMAIN inbox :
         \E c \in Clients : Sending(c) /\ tool[c].token = inbox[i].token
                            /\ tool[c].op = inbox[i].text /\ tool[c].arg = inbox[i].arg
  /\ \A i \in DOMAIN outbox : IsResult(i) =>
       \E c \in Clients : Sending(c) /\ tool[c].token = outbox[i].token
  /\ \A i, j \in DOMAIN inbox : i # j => inbox[i].token # inbox[j].token
  /\ \A i, j \in DOMAIN outbox : i # j /\ IsResult(i) /\ IsResult(j) => outbox[i].token # outbox[j].token
  /\ \A i \in DOMAIN inbox : \A j \in DOMAIN outbox : IsResult(j) => inbox[i].token # outbox[j].token

\* The stops on their way: records that are not read, and events that are not processed.
IsStop(i) == outbox[i].type = "stopped"
StopUnseen == events # <<>> \/ \E i \in DOMAIN outbox : IsStop(i)

\* At most one stop is on its way, and the target does not run while one is.
OneStop ==
  /\ Len(events) <= 1
  /\ \A i, j \in DOMAIN outbox : IsStop(i) /\ IsStop(j) => i = j
  /\ events # <<>> => \A i \in DOMAIN outbox : ~IsStop(i)
  /\ StopUnseen => gdb # "running"

\* The answer that lets c go on.
Accepts(i, c) == IsResult(i) /\ outbox[i].token = tool[c].token /\ outbox[i].class = "done"
\* GDB has executed the command of c.
Executed(c) ==
  \/ tool[c].pc \in {"accepted", "waiting", "woken"}
  \/ Sending(c) /\ \E i \in DOMAIN outbox : Accepts(i, c)
\* r continues, steps, finishes or runs to a line.
InRun(r) == tool[r].op \in Runs
\* A run that GDB has executed and whose stop has not been processed.
Out(r) == InRun(r) /\ Executed(r) /\ ~stop_event
\* The target does not run, and no stop of it is on its way.
Settled == gdb # "running" /\ ~StopUnseen
\* The target runs, or a stop is on its way, only while a run of r is out; every stop that
\* a run of r can take is later than its command.
Phase(r) ==
  /\ ~Out(r) => Settled
  /\ Out(r) => gdb # "halted" \/ StopUnseen
  /\ Out(r) => /\ \A i \in DOMAIN outbox : IsStop(i) => outbox[i].stop > tool[r].mark
               /\ \A i \in DOMAIN events : events[i].stop > tool[r].mark
  /\ tool[r].mark <= stops
  /\ InRun(r) /\ tool[r].pc \in {"sending", "waiting"} => ~stop_event
  /\ tool[r].pc = "woken" => stop_event
  /\ InRun(r) /\ tool[r].pc \in {"accepted", "woken"} /\ stop_event => last_stop > tool[r].mark
  /\ InRun(r) /\ Sending(r) =>
        \A i \in DOMAIN outbox : IsStop(i) => \E k \in 1..(i - 1) : Accepts(k, r)
  /\ InRun(r) /\ Sending(r) => events = <<>>
  /\ InRun(r) /\ tool[r].pc = "returned" => tool[r].got > tool[r].mark

\* The commands that set breakpoints.
Setters == {"break", "tbreak"}
\* Only r sets breakpoints.
SetsAlone(r) == \A c \in Clients \ {r} : Ops[c] \cap Setters = {}

\* An insertion, a deletion that GDB has executed and the session has not recorded.
Inserting(c, id) == tool[c].op \in Setters /\ tool[c].token = id /\ Executed(c)
Deleting(c, id) == tool[c].op = "delete" /\ tool[c].arg = id /\ Executed(c)
\* A hit of the breakpoint is on its way to the session.
HitUnseen(id) ==
  \/ \E i \in DOMAIN outbox : IsStop(i) /\ outbox[i].bkpt = id
  \/ \E i \in DOMAIN events : events[i].bkpt = id
Unseen(id) == IF HitUnseen(id) THEN 1 ELSE 0

\* A breakpoint in both tables is the same, up to the hit that is on its way.
SameTables ==
  /\ 0 \notin DOMAIN breakpoints \cup DOMAIN table
  /\ \A id \in DOMAIN table \cap DOMAIN breakpoints :
        /\ table[id].temporary = breakpoints[id].temporary
        /\ table[id].hits = breakpoints[id].hits + Unseen(id)
  /\ \A id \in DOMAIN table : table[id].temporary => table[id].hits = 0

\* r's insertion is of the breakpoint that has its token; nobody can know its number yet.
Inserts(r) ==
  /\ \A c \in Clients \ {r} : tool[c].op \notin Setters
  /\ \A id \in DOMAIN table : Inserting(r, id) => table[id] = NewBreakpoint(r)
  /\ \A id \in DOMAIN breakpoints : ~Inserting(r, id)
  /\ \A c \in Clients : tool[c].op = "delete" => ~Inserting(r, tool[c].arg)
  /\ tool[r].op \in Setters /\ tool[r].pc = "accepted" =>
        tool[r].arg = tool[r].token /\ tool[r].token # 0
  /\ tool[r].op \in Setters /\ Sending(r) =>
        \A i \in DOMAIN outbox : Accepts(i, r) => outbox[i].bkpt = tool[r].token

\* What a deletion under way removes is no longer in GDB's table.
Deletes == \A c \in Clients : \A id \in DOMAIN table : ~Deleting(c, id)

\* The tables differ by insertions and deletions under way, and by a temporary breakpoint
\* whose only hit is on its way.
Differ(r) ==
  /\ \A id \in DOMAIN table \ DOMAIN breakpoints : Inserting(r, id)
  /\ tool[r].op \in Setters /\ Executed(r) => tool[r].token \in DOMAIN table
  /\ \A id \in DOMAIN breakpoints \ DOMAIN table :
        \/ \E c \in Clients : Deleting(c, id)
        \/ breakpoints[id].temporary /\ breakpoints[id].hits + Unseen(id) = 1

\* A breakpoint that is not inserted yet is in no table, and nobody deletes it.
Unnumbered ==
  \A i \in DOMAIN inbox : inbox[i].text \in Setters =>
    /\ inbox[i].token \notin DOMAIN table \cup DOMAIN breakpoints
    /\ \A c \in Clients : tool[c].op = "delete" => tool[c].arg # inbox[i].token

\* The session's table follows GDB's.
InStep(r) ==
  /\ SameTables /\ Inserts(r) /\ Deletes
  /\ gdb # "gone" => Differ(r) /\ Unnumbered

\* Appending to a sequence.
LEMMA AppendEffect ==
  ASSUME NEW S, NEW s \in Seq(S), NEW e \in S
  PROVE  /\ Append(s, e) \in Seq(S)
         /\ DOMAIN Append(s, e) = DOMAIN s \cup {Len(s) + 1}
         /\ \A i \in DOMAIN s : Append(s, e)[i] = s[i] /\ i < Len(s) + 1 /\ i \in Nat
         /\ Append(s, e)[Len(s) + 1] = e
         /\ Len(s) + 1 \notin DOMAIN s
OBVIOUS

\* Taking the first element off a sequence.
LEMMA TailEffect ==
  ASSUME NEW S, NEW s \in Seq(S), s # <<>>
  PROVE  /\ Tail(s) \in Seq(S)
         /\ Head(s) = s[1] /\ 1 \in DOMAIN s
         /\ \A i \in DOMAIN Tail(s) : i \in Nat \ {0} /\ i + 1 \in DOMAIN s /\ Tail(s)[i] = s[i + 1]
         /\ \A i \in DOMAIN s : i # 1 => i - 1 \in DOMAIN Tail(s) /\ Tail(s)[i - 1] = s[i]
         /\ Len(Tail(s)) = Len(s) - 1
OBVIOUS

\* Removing the first occurrence of a value from a sequence.
LEMMA RemoveFirstEffect ==
  ASSUME NEW S, NEW s \in Seq(S), NEW e,
         \A i, j \in DOMAIN s : i # j => s[i] # s[j]
  PROVE  /\ RemoveFirst(s, e) \in Seq(S)
         /\ \A i, j \in DOMAIN RemoveFirst(s, e) :
               i # j => RemoveFirst(s, e)[i] # RemoveFirst(s, e)[j]
         /\ \A i \in DOMAIN RemoveFirst(s, e) :
               /\ RemoveFirst(s, e)[i] # e
               /\ \E j \in DOMAIN s : s[j] = RemoveFirst(s, e)[i]
         /\ \A j \in DOMAIN s : s[j] # e =>
               \E i \in DOMAIN RemoveFirst(s, e) : RemoveFirst(s, e)[i] = s[j]
<1>1. CASE ~ \E i \in 1..Len(s) : s[i] = e
  <2>1. RemoveFirst(s, e) = s
    BY <1>1 DEF RemoveFirst
  <2>2. \A i \in DOMAIN s : s[i] # e
    BY <1>1
  <2> QED BY <2>1, <2>2
<1>2. CASE \E i \in 1..Len(s) : s[i] = e
  <2> DEFINE I == {i \in 1..Len(s) : s[i] = e}
  <2>1. PICK k \in 1..Len(s) : s[k] = e /\ I = {k}
    BY <1>2
  <2>2. SelectInSeq(s, LAMBDA v : v = e) = k
    <3>1. SelectInSeq(s, LAMBDA v : v = e) = IF I # {} THEN Min(I) ELSE 0
      BY DEF SelectInSeq
    <3>2. Min({k}) = k
      BY DEF Min
    <3> QED BY <3>1, <3>2, <2>1
  <2>3. RemoveFirst(s, e) = RemoveAt(s, k)
    BY <1>2, <2>2 DEF RemoveFirst
  <2> DEFINE front == SubSeq(s, 1, k - 1)
             back == SubSeq(s, k + 1, Len(s))
             r == front \o back
  <2>4. RemoveFirst(s, e) = r
    BY <2>3 DEF RemoveAt
  <2>5. /\ front \in Seq(S) /\ Len(front) = k - 1
        /\ \A j \in 1..(k - 1) : front[j] = s[j]
    OBVIOUS
  <2>6. /\ back \in Seq(S) /\ Len(back) = Len(s) - k
        /\ \A j \in 1..(Len(s) - k) : back[j] = s[k + j]
    OBVIOUS
  <2> HIDE DEF front, back
  <2>7. /\ r \in Seq(S) /\ Len(r) = Len(s) - 1
        /\ \A j \in 1..(Len(s) - 1) : r[j] = IF j <= k - 1 THEN front[j] ELSE back[j - (k - 1)]
    <3>1. /\ Len(r) = Len(front) + Len(back)
          /\ \A j \in 1..(Len(front) + Len(back)) :
               r[j] = IF j <= Len(front) THEN front[j] ELSE back[j - Len(front)]
      BY <2>5, <2>6, ConcatProperties
    <3>2. Len(front) + Len(back) = Len(s) - 1
      BY <2>5, <2>6
    <3> QED BY <3>1, <3>2, <2>5, <2>6, ConcatProperties
  <2> HIDE DEF r
  <2>8. \A j \in 1..(Len(s) - 1) : r[j] = IF j < k THEN s[j] ELSE s[j + 1]
    <3> SUFFICES ASSUME NEW j \in 1..(Len(s) - 1) PROVE r[j] = IF j < k THEN s[j] ELSE s[j + 1]
      OBVIOUS
    <3>1. CASE j < k
      BY <3>1, <2>5, <2>7
    <3>2. CASE ~(j < k)
      <4>1. j - (k - 1) \in 1..(Len(s) - k) /\ k + (j - (k - 1)) = j + 1
        BY <3>2
      <4> QED BY <4>1, <3>2, <2>6, <2>7
    <3> QED BY <3>1, <3>2
  <2>9. DOMAIN r = 1..(Len(s) - 1)
    BY <2>7
  <2>10. ASSUME NEW i \in DOMAIN r
         PROVE  r[i] # e /\ \E j \in DOMAIN s : s[j] = r[i]
    BY <2>8, <2>9, <2>1
  <2>11. ASSUME NEW i \in DOMAIN r, NEW j \in DOMAIN r, i # j PROVE r[i] # r[j]
    <3> DEFINE up(n) == IF n < k THEN n ELSE n + 1
    <3>1. i \in 1..(Len(s) - 1) /\ j \in 1..(Len(s) - 1) /\ DOMAIN s = 1..Len(s)
      BY <2>9
    <3>3. up(i) \in DOMAIN s /\ up(j) \in DOMAIN s /\ up(i) # up(j)
      BY <3>1, <2>11
    <3>2. r[i] = s[up(i)] /\ r[j] = s[up(j)]
      BY <2>8, <2>9
    <3> HIDE DEF up
    <3> QED BY <3>3, <3>2
  <2>12. ASSUME NEW j \in DOMAIN s, s[j] # e PROVE \E i \in DOMAIN r : r[i] = s[j]
    <3>1. CASE j < k
      BY <3>1, <2>8, <2>9
    <3>2. CASE j > k
      <4>1. j - 1 \in DOMAIN r /\ r[j - 1] = s[j]
        BY <3>2, <2>8, <2>9
      <4> QED BY <4>1
    <3> QED BY <3>1, <3>2, <2>1, <2>12
  <2> QED BY <2>4, <2>7, <2>10, <2>11, <2>12
<1> QED BY <1>1, <1>2

-----------------------------------------------------------------------------

\* A command is sent with a new token.
LEMMA SendShape ==
  ASSUME Shape, NEW c \in Clients, NEW op \in Commands, NEW arg \in Nat, arg < next_token,
         NEW left \in Nat, Send(c, op, arg, left)
  PROVE  next_token' = next_token + 1 /\ ToolsOK' /\ InboxOK'
<1>1. next_token \in Nat /\ next_token' = next_token + 1
  BY DEF Send, Shape, ScalarsOK
<1> DEFINE new == [op |-> op, pc |-> "sending", token |-> next_token,
                   arg |-> arg, left |-> left, mark |-> stops, got |-> 0]
           item == [token |-> next_token, text |-> op, arg |-> arg]
<1>2. new \in Tool /\ item \in Items
  BY DEF Tool, Shape, ScalarsOK, Active, Items
<1>3. tool' = [tool EXCEPT ![c] = new] /\ inbox' = Append(inbox, item)
  BY DEF Send
<1>4. new.token = next_token /\ new.arg = arg /\ item.token = next_token
  OBVIOUS
<1> HIDE DEF new, item
<1>5. tool' \in [Clients -> Tool] /\ \A d \in Clients : tool'[d] = IF d = c THEN new ELSE tool[d]
  BY <1>2, <1>3 DEF Shape, ToolsOK
<1>6. \A d \in Clients : tool[d].token \in Nat /\ tool[d].arg \in Nat
  BY DEF Shape, ToolsOK, Tool
<1>7. ToolsOK'
  BY <1>1, <1>4, <1>5, <1>6 DEF Shape, ToolsOK
<1>8. \A i \in DOMAIN inbox : inbox[i].token \in Nat /\ inbox[i].token < next_token
  <2>1. \A i \in DOMAIN inbox : inbox[i] \in Items
    BY DEF Shape, InboxOK
  <2> QED BY <2>1 DEF Shape, InboxOK, Items
<1>9. InboxOK'
  BY <1>1, <1>2, <1>3, <1>4, <1>8, AppendEffect DEF Shape, InboxOK
<1> QED BY <1>1, <1>7, <1>9

\* A larger next token leaves what is in the tables and the outbox in order.
LEMMA LaterShape ==
  ASSUME Shape, next_token' = next_token + 1
  PROVE  /\ UNCHANGED outbox => OutboxOK'
         /\ UNCHANGED table => IsTable(table)'
         /\ UNCHANGED breakpoints => IsTable(breakpoints)'
<1>1. next_token \in Nat
  BY DEF Shape, ScalarsOK
<1>2. \A i \in DOMAIN outbox : outbox[i].type = "result" =>
        /\ outbox[i].token \in Nat /\ outbox[i].bkpt \in Nat
        /\ outbox[i].token < next_token /\ outbox[i].bkpt < next_token
  BY DEF Shape, OutboxOK, Records, Results, StopRecords
<1>3. OutboxOK /\ IsTable(table) /\ IsTable(breakpoints)
  BY DEF Shape
<1> QED BY <1>1, <1>2, <1>3 DEF OutboxOK, IsTable

\* A client that changes the place of a call, and what it got.
LEMMA EndShape ==
  ASSUME Shape, NEW c \in Clients, NEW how \in Active \cup Finished, End(c, how)
  PROVE  tool' \in [Clients -> Tool] /\ \A d \in Clients : tool'[d].token = tool[d].token /\ tool'[d].arg = tool[d].arg
<1> DEFINE new == [tool[c] EXCEPT !.pc = how, !.got = last_stop]
<1>1. tool[c] \in Tool /\ last_stop \in Nat
  BY DEF Shape, ScalarsOK, ToolsOK
<1>2. new \in Tool /\ new.token = tool[c].token /\ new.arg = tool[c].arg
  BY <1>1 DEF Tool
<1>3. tool' = [tool EXCEPT ![c] = new]
  BY DEF End, Shape, ToolsOK
<1> HIDE DEF new
<1> QED BY <1>2, <1>3 DEF Shape, ToolsOK

\* Tools that change without being given another command.
LEMMA ToolsShape ==
  ASSUME Shape, UNCHANGED next_token, tool' = [c \in Clients |-> tool'[c]],
         \A c \in Clients :
           tool'[c] \in Tool /\ tool'[c].token = tool[c].token /\ tool'[c].arg < next_token
  PROVE  ToolsOK'
BY DEF Shape, ToolsOK

\* A call that changes where it is.
LEMMA MoveShape ==
  ASSUME NEW m \in Tool, NEW pc \in Active \cup Finished, NEW op \in Commands \cup {"interrupt", "disconnect"},
         NEW got \in Nat
  PROVE  /\ [m EXCEPT !.pc = pc] \in Tool
         /\ [m EXCEPT !.op = op, !.pc = pc] \in Tool
         /\ [m EXCEPT !.op = op, !.pc = pc, !.got = got] \in Tool
BY DEF Tool

\* Waking those who wait for a stop keeps the calls calls.
LEMMA SetStopEventShape ==
  ASSUME NEW tools \in [Clients -> Tool], SetStopEvent(tools)
  PROVE  /\ stop_event' \in BOOLEAN
         /\ tool' = [c \in Clients |-> tool'[c]]
         /\ \A c \in Clients :
              tool'[c] \in Tool /\ tool'[c].token = tools[c].token /\ tool'[c].arg = tools[c].arg
<1>1. stop_event' = TRUE /\ tool' = [c \in Clients |-> IF tools[c].pc = "waiting"
                                THEN [tools[c] EXCEPT !.pc = "woken"] ELSE tools[c]]
  BY DEF SetStopEvent
<1>2. \A c \in Clients : tools[c] \in Tool
  OBVIOUS
<1>3. \A c \in Clients : LET new == [tools[c] EXCEPT !.pc = "woken"] IN new \in Tool /\ new.token = tools[c].token /\ new.arg = tools[c].arg
  BY <1>2 DEF Tool, Active
<1> QED BY <1>1, <1>2, <1>3

\* Rejecting those who wait for an answer keeps the calls calls.
LEMMA RejectSendersShape ==
  ASSUME NEW tools \in [Clients -> Tool], tool' = RejectSenders(tools)
  PROVE  \A c \in Clients :
              tool'[c] \in Tool /\ tool'[c].token = tools[c].token /\ tool'[c].arg = tools[c].arg
<1>2. \A c \in Clients : tools[c] \in Tool
  OBVIOUS
<1>3. \A c \in Clients : LET new == [tools[c] EXCEPT !.pc = "refused"] IN new \in Tool /\ new.token = tools[c].token /\ new.arg = tools[c].arg
  BY <1>2 DEF Tool, Active
<1> QED BY <1>2, <1>3 DEF RejectSenders

\* A raw interrupt has no token.
LEMMA InterruptShape ==
  ASSUME Shape, WriteInterrupt, UNCHANGED next_token
  PROVE  InboxOK'
<1> DEFINE item == [token |-> 0, text |-> "interrupt", arg |-> 0]
<1>1. item \in Items /\ item.token = 0 /\ inbox' = Append(inbox, item)
  BY DEF Items, WriteInterrupt
<1> HIDE DEF item
<1>2. 0 < next_token /\ inbox \in Seq(Items)
  BY DEF Shape, ScalarsOK, InboxOK
<1> QED BY <1>1, <1>2, AppendEffect DEF Shape, InboxOK

\* A call that begins keeps the types.
LEMMA BeginShape ==
  ASSUME Shape, NEW c \in Clients, Begin(c)
  PROVE  Shape'
<1> USE DEF Shape
<1>1. ASSUME NEW op \in Runs, NEW count \in 1..2, Run(c, op, count) PROVE Shape'
  <2>1. Send(c, op, 0, count) /\ op \in Commands /\ 0 < next_token
    BY <1>1 DEF Run, Commands, ScalarsOK
  <2>2. next_token' = next_token + 1 /\ ToolsOK' /\ InboxOK'
    BY <2>1, SendShape
  <2>3. stop_event' \in BOOLEAN
    BY <1>1, Zenon DEF Run
  <2>4. ScalarsOK'
    BY <1>1, <2>2, <2>3 DEF Run, ScalarsOK, targetVars
  <2> QED BY <1>1, <2>2, <2>4, LaterShape DEF Run, targetVars
<1>2. ASSUME NEW op \in Commands, NEW arg \in Nat, arg < next_token, Command(c, op, arg) PROVE Shape'
  <2>2. next_token' = next_token + 1 /\ ToolsOK' /\ InboxOK'
    BY <1>2, SendShape DEF Command
  <2> QED BY <1>2, <2>2, LaterShape DEF Command, ScalarsOK, Events, sessionVars, targetVars
<1>3. CASE NothingToInterrupt(c)
  <2>0. tool[c] \in Tool /\ last_stop \in Nat /\ "returned" \in Finished
    BY DEF ToolsOK, ScalarsOK, Finished
  <2>1. [tool[c] EXCEPT !.op = "interrupt", !.pc = "returned", !.got = last_stop] \in Tool
    BY <2>0, MoveShape
  <2>2. ToolsOK'
    BY <1>3, <2>1, ToolsShape DEF NothingToInterrupt, connVars, ToolsOK, Tool
  <2> QED BY <1>3, <2>2 DEF NothingToInterrupt, connVars, sessionVars, targetVars, ScalarsOK, InboxOK, OutboxOK, IsTable
<1>4. CASE Interrupt(c)
  <2>1. [tool[c] EXCEPT !.op = "interrupt", !.pc = "waiting"] \in Tool
    BY MoveShape DEF ToolsOK, ScalarsOK, Active
  <2>2. ToolsOK'
    BY <1>4, <2>1, ToolsShape DEF Interrupt, connVars, ToolsOK, Tool
  <2>3. InboxOK'
    BY <1>4, InterruptShape DEF Interrupt, connVars
  <2> QED BY <1>4, <2>2, <2>3 DEF Interrupt, connVars, sessionVars, targetVars, ScalarsOK, OutboxOK, IsTable
<1>5. CASE Disconnect(c)
  <2>1. [tool[c] EXCEPT !.op = "disconnect", !.pc = "closing"] \in Tool
    BY MoveShape DEF ToolsOK, ScalarsOK, Active
  <2>2. ToolsOK'
    BY <1>5, <2>1, ToolsShape DEF Disconnect, connVars, ToolsOK, Tool
  <2> QED BY <1>5, <2>2 DEF Disconnect, connVars, sessionVars, targetVars, ScalarsOK, InboxOK, OutboxOK, IsTable
<1>6. 0 < next_token /\ {"reset_halt", "reset_run", "break", "tbreak", "delete"} \subseteq Commands /\ {"continue", "step"} \subseteq Runs
      /\ \A id \in DOMAIN breakpoints : id \in Nat /\ id < next_token
  BY DEF Commands, Runs, ScalarsOK, IsTable
<1> QED BY <1>1, <1>2, <1>3, <1>4, <1>5, <1>6 DEF Begin

\* A run that proceeds sends another step or ends.
LEMMA ProceedShape ==
  ASSUME Shape, NEW c \in Clients, Proceed(c), tool[c].left \in Nat,
         UNCHANGED <<conn_state, event_loop, events, last_stop, breakpoints, outbox, targetVars>>
  PROVE  Shape'
<1> USE DEF Shape
<1>1. CASE tool[c].op = "step" /\ tool[c].left > 1 /\ Up
  <2>1. Send(c, "step", 0, tool[c].left - 1) /\ stop_event' = FALSE
    BY <1>1 DEF Proceed
  <2>2. "step" \in Commands /\ 0 < next_token /\ tool[c].left - 1 \in Nat
    BY <1>1 DEF Commands, Runs, ScalarsOK
  <2>3. next_token' = next_token + 1 /\ ToolsOK' /\ InboxOK'
    BY <2>1, <2>2, SendShape
  <2>4. stop_event' \in BOOLEAN
    BY <2>1, Zenon
  <2>5. ScalarsOK'
    BY <2>3, <2>4 DEF ScalarsOK, targetVars
  <2> QED BY <2>3, <2>5, LaterShape DEF targetVars
<1>2. CASE ~(tool[c].op = "step" /\ tool[c].left > 1 /\ Up)
  <2>1. PICK how \in Finished : End(c, how)
    BY <1>2 DEF Proceed, Finished
  <2>2. /\ UNCHANGED <<next_token, pending_order, inbox>>
        /\ stop_event' = FALSE \/ stop_event' = stop_event
    BY <1>2 DEF Proceed
  <2>3. tool' \in [Clients -> Tool] /\ \A d \in Clients : tool'[d].token = tool[d].token /\ tool'[d].arg = tool[d].arg
    BY <2>1, EndShape
  <2>4. ToolsOK'
    BY <2>2, <2>3, ToolsShape DEF ToolsOK
  <2>5. ScalarsOK'
    BY <2>2 DEF ScalarsOK, targetVars
  <2> QED BY <2>2, <2>4, <2>5 DEF InboxOK, OutboxOK, IsTable, targetVars
<1> QED BY <1>1, <1>2

\* set_breakpoint and remove_breakpoint keep the table a table.
LEMMA RecordShape ==
  ASSUME Shape, NEW c \in Clients, UNCHANGED next_token, breakpoints' = RecordBreakpoint(c)
  PROVE  IsTable(breakpoints)'
<1>1. tool[c].arg \in Nat /\ tool[c].arg < next_token /\ NewBreakpoint(c) \in Breakpoint
  BY DEF Shape, ToolsOK, Tool, NewBreakpoint, Breakpoint
<1>2. IsTable(breakpoints)
  BY DEF Shape
<1> HIDE DEF NewBreakpoint
<1>3. CASE tool[c].op = "delete"
  BY <1>2, <1>3 DEF RecordBreakpoint, Restrict, IsTable
<1>4. CASE tool[c].op # "delete"
  <2>1. breakpoints' = With(breakpoints, tool[c].arg, NewBreakpoint(c))
    BY <1>4 DEF RecordBreakpoint
  <2>2. /\ DOMAIN breakpoints' = {tool[c].arg} \cup DOMAIN breakpoints
        /\ \A id \in DOMAIN breakpoints' : breakpoints'[id] =
              IF id = tool[c].arg THEN NewBreakpoint(c) ELSE breakpoints[id]
    BY <2>1 DEF With
  <2> QED BY <1>1, <1>2, <2>2 DEF IsTable
<1> QED BY <1>3, <1>4

\* A call that goes on keeps the types.
LEMMA ResumeShape ==
  ASSUME Shape, NEW c \in Clients, Resume(c)
  PROVE  Shape'
<1> USE DEF Shape
<1>0. tool \in [Clients -> Tool] /\ tool[c] \in Tool /\ tool[c].left \in Nat
  BY DEF ToolsOK, Tool
<1>1. CASE RunAccepted(c)
  <2>1. CASE stop_event
    BY <1>0, <1>1, <2>1, ProceedShape DEF RunAccepted
  <2>2. CASE ~stop_event
    <3>1. [tool[c] EXCEPT !.pc = "waiting"] \in Tool
      BY <1>0, MoveShape DEF Active
    <3>2. ToolsOK'
      BY <1>1, <2>2, <3>1, ToolsShape DEF RunAccepted, ToolsOK, Tool
    <3> QED BY <1>1, <2>2, <3>2 DEF RunAccepted, targetVars, ScalarsOK, InboxOK, OutboxOK, IsTable
  <2> QED BY <2>1, <2>2
<1>2. CASE ResetAccepted(c)
  <2>1. /\ stop_event' \in BOOLEAN /\ tool' = [d \in Clients |-> tool'[d]]
        /\ \A d \in Clients : tool'[d] \in Tool /\ tool'[d].token = tool[d].token /\ tool'[d].arg = tool[d].arg
    <3>1. CASE tool[c].op = "reset_halt"
      <4> DEFINE tools == [tool EXCEPT ![c].pc = "returned"]
      <4>1. [tool[c] EXCEPT !.pc = "returned"] \in Tool
        BY <1>0, MoveShape DEF Finished
      <4>2. /\ tools \in [Clients -> Tool]
            /\ \A d \in Clients : tools[d].token = tool[d].token /\ tools[d].arg = tool[d].arg
        BY <1>0, <4>1 DEF Tool
      <4>3. SetStopEvent(tools)
        BY <1>2, <3>1 DEF ResetAccepted
      <4> HIDE DEF tools
      <4> QED BY <4>2, <4>3, SetStopEventShape
    <3>2. CASE tool[c].op # "reset_halt"
      <4>1. End(c, "returned") /\ "returned" \in Finished /\ stop_event' = stop_event
        BY <1>2, <3>2 DEF ResetAccepted, Finished
      <4>2. tool' \in [Clients -> Tool] /\ \A d \in Clients : tool'[d].token = tool[d].token /\ tool'[d].arg = tool[d].arg
        BY <4>1, EndShape
      <4> QED BY <4>1, <4>2 DEF ScalarsOK
    <3> QED BY <3>1, <3>2
  <2>2. ToolsOK'
    BY <1>2, <2>1, ToolsShape DEF ResetAccepted, connVars, ToolsOK
  <2> QED BY <1>2, <2>1, <2>2 DEF ResetAccepted, connVars, targetVars, ScalarsOK, InboxOK, OutboxOK, IsTable
<1>3. CASE BreakpointAccepted(c)
  <2>1. tool' \in [Clients -> Tool] /\ \A d \in Clients : tool'[d].token = tool[d].token /\ tool'[d].arg = tool[d].arg
    BY <1>3, EndShape DEF BreakpointAccepted, Finished
  <2>2. ToolsOK'
    BY <1>3, <2>1, ToolsShape DEF BreakpointAccepted, connVars, ToolsOK
  <2>3. IsTable(breakpoints)'
    BY <1>3, RecordShape DEF BreakpointAccepted, connVars
  <2> QED BY <1>3, <2>2, <2>3 DEF BreakpointAccepted, connVars, targetVars, ScalarsOK, InboxOK, OutboxOK, IsTable
<1>4. CASE Refused(c)
  <2>1. tool' \in [Clients -> Tool] /\ \A d \in Clients : tool'[d].token = tool[d].token /\ tool'[d].arg = tool[d].arg
    BY <1>4, EndShape DEF Refused, Finished
  <2>2. ToolsOK'
    BY <1>4, <2>1, ToolsShape DEF Refused, connVars, ToolsOK
  <2> QED BY <1>4, <2>2 DEF Refused, connVars, sessionVars, targetVars, ScalarsOK, InboxOK, OutboxOK, IsTable
<1>5. CASE Woken(c)
  BY <1>0, <1>5, ProceedShape DEF Woken
<1>6. CASE Disconnected(c)
  <2> DEFINE tools == [tool EXCEPT ![c].pc = "returned"]
  <2>1. [tool[c] EXCEPT !.pc = "returned"] \in Tool
    BY <1>0, MoveShape DEF Finished
  <2>2. /\ tools \in [Clients -> Tool]
        /\ \A d \in Clients : tools[d].token = tool[d].token /\ tools[d].arg = tool[d].arg
    BY <1>0, <2>1 DEF Tool
  <2>3. tool' = RejectSenders(tools)
    BY <1>6 DEF Disconnected
  <2> HIDE DEF tools
  <2>4. \A d \in Clients : tool'[d] \in Tool /\ tool'[d].token = tool[d].token /\ tool'[d].arg = tool[d].arg
    BY <2>2, <2>3, RejectSendersShape
  <2>5. tool' = [d \in Clients |-> tool'[d]]
    BY <2>3 DEF RejectSenders
  <2>6. ToolsOK'
    BY <1>6, <2>4, <2>5, ToolsShape DEF Disconnected, ToolsOK
  <2>7. ScalarsOK'
    BY <1>6, SessionAssumption DEF Disconnected, ScalarsOK
  <2>8. InboxOK' /\ OutboxOK' /\ events' \in Seq(Events) /\ IsTable(breakpoints)' /\ IsTable(table)'
    BY <1>6 DEF Disconnected, InboxOK, OutboxOK, IsTable
  <2> QED BY <2>6, <2>7, <2>8
<1> QED BY <1>1, <1>2, <1>3, <1>4, <1>5, <1>6 DEF Resume

\* A timer that fires keeps the types.
LEMMA TimerShape ==
  ASSUME Shape, NEW c \in Clients, Timer(c)
  PROVE  Shape'
<1> USE DEF Shape
<1>0. /\ UNCHANGED <<next_token, conn_state, outbox, breakpoints, event_loop, events, last_stop, stop_event>>
      /\ UNCHANGED targetVars
  BY DEF Timer, SendTimesOut, StopTimesOut, GraceEnds, connVars, sessionVars
<1>1. inbox' = inbox \/ WriteInterrupt
  BY DEF Timer, SendTimesOut, StopTimesOut, GraceEnds
<1>2. InboxOK'
  <2>1. CASE inbox' = inbox
    BY <1>0, <2>1 DEF InboxOK
  <2>2. CASE WriteInterrupt
    BY <1>0, <2>2, InterruptShape
  <2> QED BY <1>1, <2>1, <2>2
<1>3. ToolsOK'
  <2>1. CASE End(c, "TimeoutError")
    <3>1. tool' \in [Clients -> Tool] /\ \A d \in Clients : tool'[d].token = tool[d].token /\ tool'[d].arg = tool[d].arg
      BY <2>1, EndShape DEF Finished
    <3> QED BY <1>0, <3>1, ToolsShape DEF ToolsOK
  <2>2. CASE tool' = [tool EXCEPT ![c].pc = "grace"]
    <3>1. [tool[c] EXCEPT !.pc = "grace"] \in Tool
      BY MoveShape DEF Active, ToolsOK
    <3> QED BY <1>0, <2>2, <3>1, ToolsShape DEF ToolsOK, Tool
  <2> QED BY <2>1, <2>2 DEF Timer, SendTimesOut, StopTimesOut, GraceEnds
<1> QED BY <1>0, <1>2, <1>3 DEF ScalarsOK, OutboxOK, IsTable, targetVars

\* The reader takes a record off the outbox.
LEMMA ReceivedShape ==
  ASSUME Shape, NEW type, Received(type), UNCHANGED next_token
  PROVE  /\ OutboxOK'
         /\ Head(outbox) \in Records /\ Head(outbox).type = type
         /\ type = "result" => Head(outbox).token < next_token /\ Head(outbox).bkpt < next_token
<1>1. outbox \in Seq(Records) /\ outbox # <<>> /\ outbox' = Tail(outbox)
  BY DEF Shape, OutboxOK, Received
<1>2. /\ outbox' \in Seq(Records)
      /\ Head(outbox) = outbox[1] /\ 1 \in DOMAIN outbox
      /\ \A i \in DOMAIN outbox' : i + 1 \in DOMAIN outbox /\ outbox'[i] = outbox[i + 1]
  BY <1>1, TailEffect
<1>3. Head(outbox) \in Records /\ Head(outbox).type = type
  BY <1>1, <1>2 DEF Received
<1> QED BY <1>2, <1>3 DEF Shape, OutboxOK

\* What ReadResult makes of a call.
Answered(c, token) ==
  IF Sending(c) /\ tool[c].token = token
  THEN [tool[c] EXCEPT !.pc = IF Head(outbox).class = "error" THEN "refused" ELSE "accepted",
                       !.arg = IF tool[c].op = "delete" THEN @ ELSE Head(outbox).bkpt]
  ELSE tool[c]

\* The token that a result settles.
Settles == IF Contains(pending_order, Head(outbox).token) THEN Head(outbox).token
           ELSE IF pending_order = <<>> THEN 0 ELSE Head(pending_order)

\* Reading a result, in terms of the token that it settles.
LEMMA ReadResultEffect ==
  ASSUME ReadResult
  PROVE  /\ Received("result")
         /\ pending_order' = Forget(Settles)
         /\ tool' = [c \in Clients |-> Answered(c, Settles)]
         /\ UNCHANGED <<conn_state, next_token, sessionVars, inbox, targetVars>>
BY DEF ReadResult, Settles, Answered, Sending

\* A call that is answered is still a call, and keeps its command.
LEMMA AnsweredShape ==
  ASSUME Shape, NEW c \in Clients, NEW token, Head(outbox) \in Results, Head(outbox).bkpt < next_token
  PROVE  /\ Answered(c, token) \in Tool
         /\ Answered(c, token).token = tool[c].token /\ Answered(c, token).arg < next_token
         /\ Answered(c, token).op = tool[c].op /\ Answered(c, token).mark = tool[c].mark
         /\ Answered(c, token).got = tool[c].got /\ Answered(c, token).left = tool[c].left
<1>1. tool[c] \in Tool /\ tool[c].arg < next_token
  BY DEF Shape, ToolsOK
<1> DEFINE pc == IF Head(outbox).class = "error" THEN "refused" ELSE "accepted"
           arg == IF tool[c].op = "delete" THEN tool[c].arg ELSE Head(outbox).bkpt
<1>2. pc \in Active /\ arg \in Nat /\ arg < next_token
  BY <1>1 DEF Active, Results, Tool
<1>3. Answered(c, token) = tool[c] \/ Answered(c, token) = [tool[c] EXCEPT !.pc = pc, !.arg = arg]
  BY DEF Answered
<1> HIDE DEF pc, arg
<1> DEFINE new == [tool[c] EXCEPT !.pc = pc, !.arg = arg]
<1>4. new \in Tool /\ new.token = tool[c].token /\ new.arg = arg /\ new.op = tool[c].op
      /\ new.mark = tool[c].mark /\ new.got = tool[c].got /\ new.left = tool[c].left
  BY <1>1, <1>2 DEF Tool
<1> HIDE DEF new
<1> QED BY <1>1, <1>2, <1>3, <1>4 DEF new

\* The event loop keeps the types.
LEMMA LoopShape ==
  ASSUME Shape, Loop
  PROVE  Shape'
<1> USE DEF Shape
<1>1. CASE ReadResult
  <2>1. /\ Received("result") /\ tool' = [c \in Clients |-> Answered(c, Settles)]
        /\ UNCHANGED <<conn_state, next_token, sessionVars, inbox, targetVars>>
    BY <1>1, ReadResultEffect
  <2>2. OutboxOK' /\ Head(outbox) \in Results /\ Head(outbox).bkpt < next_token
    BY <2>1, ReceivedShape DEF Records, StopRecords, Results
  <2>3. ToolsOK'
    BY <2>1, <2>2, AnsweredShape, ToolsShape
  <2> QED BY <2>1, <2>2, <2>3 DEF sessionVars, targetVars, ScalarsOK, InboxOK, IsTable
<1>2. CASE ReadRunning
  <2>1. OutboxOK'
    BY <1>2, ReceivedShape DEF ReadRunning
  <2> QED BY <1>2, <2>1 DEF ReadRunning, sessionVars, targetVars, ScalarsOK, InboxOK, ToolsOK, IsTable
<1>3. CASE ReadStopped
  <2>1. OutboxOK' /\ Head(outbox) \in StopRecords
    BY <1>3, ReceivedShape DEF ReadStopped, Records, StopRecords, Results
  <2>2. [stop |-> Head(outbox).stop, bkpt |-> Head(outbox).bkpt] \in Events
    BY <2>1 DEF StopRecords, Events
  <2>3. events' \in Seq(Events)
    BY <1>3, <2>2 DEF ReadStopped
  <2> QED BY <1>3, <2>1, <2>3 DEF ReadStopped, targetVars, ScalarsOK, InboxOK, ToolsOK, IsTable
<1>4. CASE ReaderEOF
  <2>1. tool' = RejectSenders(tool) /\ tool \in [Clients -> Tool]
    BY <1>4 DEF ReaderEOF, ToolsOK
  <2>2. \A d \in Clients : tool'[d] \in Tool /\ tool'[d].token = tool[d].token /\ tool'[d].arg = tool[d].arg
    BY <2>1, RejectSendersShape
  <2>3. tool' = [d \in Clients |-> tool'[d]]
    BY <2>1 DEF RejectSenders
  <2>4. ToolsOK'
    BY <1>4, <2>2, <2>3, ToolsShape DEF ReaderEOF, ToolsOK
  <2> QED BY <1>4, <2>4 DEF ReaderEOF, sessionVars, targetVars, ScalarsOK, InboxOK, OutboxOK, IsTable
<1>5. CASE ProcessStop
  <2>1. /\ stop_event' \in BOOLEAN /\ tool' = [d \in Clients |-> tool'[d]]
        /\ \A d \in Clients : tool'[d] \in Tool /\ tool'[d].token = tool[d].token /\ tool'[d].arg = tool[d].arg
    <3>1. SetStopEvent(tool) /\ tool \in [Clients -> Tool]
      BY <1>5 DEF ProcessStop, ToolsOK
    <3> QED BY <3>1, SetStopEventShape
  <2>2. ToolsOK'
    BY <1>5, <2>1, ToolsShape DEF ProcessStop, connVars, ToolsOK
  <2>3. Head(events) \in Events /\ events' \in Seq(Events)
    BY <1>5, TailEffect DEF ProcessStop
  <2>4. last_stop' \in 0..MaxStops
    BY <1>5, <2>3, SessionAssumption DEF ProcessStop, Events
  <2>5. IsTable(breakpoints)'
    <3> DEFINE hit(id) == [breakpoints[id] EXCEPT !.hits = @ + 1]
    <3>1. \A id \in DOMAIN breakpoints : hit(id) \in Breakpoint
      BY DEF IsTable, Breakpoint
    <3>2. /\ DOMAIN breakpoints' = DOMAIN breakpoints
          /\ \A id \in DOMAIN breakpoints : breakpoints'[id] = hit(id) \/ breakpoints'[id] = breakpoints[id]
      BY <1>5 DEF ProcessStop
    <3>3. UNCHANGED next_token
      BY <1>5 DEF ProcessStop, connVars
    <3> HIDE DEF hit
    <3> QED BY <3>1, <3>2, <3>3 DEF IsTable
  <2>6. ScalarsOK'
    BY <1>5, <2>1, <2>4 DEF ProcessStop, connVars, targetVars, ScalarsOK
  <2> QED BY <1>5, <2>2, <2>3, <2>5, <2>6 DEF ProcessStop, connVars, targetVars, InboxOK, OutboxOK, IsTable
<1> QED BY <1>1, <1>2, <1>3, <1>4, <1>5 DEF Loop

\* GDB takes a command off the inbox.
LEMMA ReadsShape ==
  ASSUME Shape, NEW texts, Reads(texts), UNCHANGED next_token
  PROVE  /\ InboxOK'
         /\ Head(inbox) \in Items /\ Head(inbox).token < next_token /\ Head(inbox).text \in texts
<1>1. inbox \in Seq(Items) /\ inbox # <<>> /\ inbox' = Tail(inbox)
  BY DEF Shape, InboxOK, Reads
<1>2. /\ inbox' \in Seq(Items)
      /\ Head(inbox) = inbox[1] /\ 1 \in DOMAIN inbox
      /\ \A i \in DOMAIN inbox' : i + 1 \in DOMAIN inbox /\ inbox'[i] = inbox[i + 1]
  BY <1>1, TailEffect
<1>3. Head(inbox) \in Items /\ Head(inbox).text \in texts
  BY <1>1, <1>2 DEF Reads
<1> QED BY <1>2, <1>3 DEF Shape, InboxOK

\* GDB writes a record.
LEMMA WritesShape ==
  ASSUME Shape, NEW record \in Records, outbox' = Append(outbox, record), UNCHANGED next_token,
         record.type = "result" => record.token < next_token /\ record.bkpt < next_token
  PROVE  OutboxOK'
<1>1. outbox \in Seq(Records)
  BY DEF Shape, OutboxOK
<1> QED BY <1>1, AppendEffect DEF Shape, OutboxOK

\* GDB keeps the types.
LEMMA GdbShape ==
  ASSUME Shape, Gdb
  PROVE  Shape'
<1> USE DEF Shape
<1>1. ASSUME NEW texts, Reads(texts), UNCHANGED <<next_token, tool>>,
             NEW class \in {"done", "error"}, NEW bkpt \in Nat, bkpt < next_token
      PROVE  /\ InboxOK' /\ ToolsOK'
             /\ Result(class, bkpt) \in Records
             /\ outbox' = Append(outbox, Result(class, bkpt)) => OutboxOK'
  <2>1. InboxOK' /\ Head(inbox) \in Items /\ Head(inbox).token < next_token
    BY <1>1, ReadsShape
  <2>2. /\ Result(class, bkpt) \in Records /\ Result(class, bkpt).token < next_token
        /\ Result(class, bkpt).bkpt < next_token
    BY <1>1, <2>1 DEF Result, Records, Results, Items
  <2> HIDE DEF Result
  <2> QED BY <1>1, <2>1, <2>2, WritesShape DEF ToolsOK
<1>2. 0 \in Nat /\ 0 < next_token
  BY DEF ScalarsOK
<1>3. CASE GdbRuns
  <2>1. InboxOK' /\ ToolsOK' /\ Result("done", 0) \in Records
    BY <1>1, <1>2, <1>3 DEF GdbRuns, connVars
  <2>2. outbox' = outbox \o <<Result("done", 0), [type |-> "running"]>>
    BY <1>3 DEF GdbRuns
  <2>3. Result("done", 0).token < next_token /\ Result("done", 0).bkpt < next_token
    <3>1. Head(inbox).token < next_token
      BY <1>3, ReadsShape DEF GdbRuns, connVars
    <3> QED BY <1>2, <3>1 DEF Result
  <2>4. [type |-> "running"] \in Records
    BY DEF Records
  <2> DEFINE one == Result("done", 0)
             two == [type |-> "running"]
  <2>5. outbox \in Seq(Records) /\ two.type = "running"
    BY DEF OutboxOK
  <2> HIDE DEF one, two
  <2>6. /\ outbox' \in Seq(Records)
        /\ \A i \in DOMAIN outbox' : (i \in DOMAIN outbox /\ outbox'[i] = outbox[i]) \/ outbox'[i] = one \/ outbox'[i] = two
    <3>1. outbox' = outbox \o <<one, two>> /\ one \in Records /\ two \in Records
      BY <2>1, <2>2, <2>4 DEF one, two
    <3> QED BY <2>5, <3>1
  <2>7. UNCHANGED next_token
    BY <1>3 DEF GdbRuns, connVars
  <2>8. OutboxOK'
    BY <2>3, <2>5, <2>6, <2>7 DEF OutboxOK, one
  <2> QED BY <1>3, <2>1, <2>7, <2>8 DEF GdbRuns, connVars, sessionVars, ScalarsOK, IsTable
<1>4. CASE GdbResets
  <2>1. InboxOK' /\ ToolsOK' /\ OutboxOK'
    BY <1>1, <1>2, <1>4 DEF GdbResets, connVars
  <2> QED BY <1>4, <2>1 DEF GdbResets, connVars, sessionVars, ScalarsOK, IsTable
<1>5. CASE GdbInserts
  <2> DEFINE id == Head(inbox).token
             new == [hits |-> 0, temporary |-> Head(inbox).text = "tbreak"]
  <2>0. id \in Nat /\ id < next_token /\ new \in Breakpoint
    BY <1>5, ReadsShape DEF GdbInserts, connVars, Items, Breakpoint
  <2>1. /\ Reads({"break", "tbreak"}) /\ table' = With(table, id, new)
        /\ outbox' = Append(outbox, Result("done", id))
        /\ UNCHANGED <<connVars, sessionVars, tool, gdb, core, stops>>
    BY <1>5 DEF GdbInserts
  <2> HIDE DEF id, new
  <2>2. InboxOK' /\ ToolsOK' /\ OutboxOK'
    BY <1>1, <2>0, <2>1 DEF connVars
  <2>3. IsTable(table)'
    BY <2>0, <2>1 DEF IsTable, With, connVars
  <2> QED BY <2>1, <2>2, <2>3 DEF connVars, sessionVars, ScalarsOK, IsTable
<1>6. CASE GdbDeletes
  <2>1. InboxOK' /\ ToolsOK' /\ OutboxOK'
    BY <1>1, <1>2, <1>6 DEF GdbDeletes, connVars
  <2>2. IsTable(table)'
    BY <1>6 DEF GdbDeletes, IsTable, Restrict, connVars
  <2> QED BY <1>6, <2>1, <2>2 DEF GdbDeletes, connVars, sessionVars, ScalarsOK, IsTable
<1>7. CASE GdbInterrupts
  <2>1. InboxOK' /\ ToolsOK' /\ OutboxOK'
    BY <1>1, <1>2, <1>7 DEF GdbInterrupts, connVars
  <2> QED BY <1>7, <2>1 DEF GdbInterrupts, connVars, sessionVars, targetVars, ScalarsOK, IsTable
<1>8. CASE GdbRefuses
  <2>1. InboxOK' /\ ToolsOK' /\ OutboxOK'
    BY <1>1, <1>2, <1>8 DEF GdbRefuses, connVars
  <2> QED BY <1>8, <2>1 DEF GdbRefuses, connVars, sessionVars, targetVars, ScalarsOK, IsTable
<1>9. ASSUME NEW id \in {0} \cup DOMAIN table, TargetStops(id) PROVE Shape'
  <2> DEFINE record == [type |-> "stopped", stop |-> stops + 1, bkpt |-> id]
  <2>1. record \in Records /\ record.type # "result" /\ stops + 1 \in 1..MaxStops
    <3>1. stops + 1 \in 1..MaxStops /\ id \in Nat
      BY <1>9, SessionAssumption DEF TargetStops, ScalarsOK, IsTable
    <3> QED BY <3>1 DEF Records, StopRecords
  <2>2. outbox' = Append(outbox, record)
    BY <1>9 DEF TargetStops
  <2> HIDE DEF record
  <2>3. OutboxOK'
    BY <1>9, <2>1, <2>2, WritesShape DEF TargetStops, connVars
  <2>4. IsTable(table)'
    <3>1. CASE id = 0
      BY <1>9, <3>1 DEF TargetStops, IsTable, connVars
    <3>2. CASE id # 0 /\ table[id].temporary
      BY <1>9, <3>2 DEF TargetStops, IsTable, Restrict, connVars
    <3>3. CASE id # 0 /\ ~table[id].temporary
      <4>1. table[id] \in Breakpoint /\ [table[id] EXCEPT !.hits = @ + 1] \in Breakpoint
        BY <3>3 DEF IsTable, Breakpoint
      <4> QED BY <1>9, <3>3, <4>1 DEF TargetStops, IsTable, connVars
    <3> QED BY <3>1, <3>2, <3>3
  <2>5. ScalarsOK'
    BY <1>9, <2>1 DEF TargetStops, connVars, sessionVars, ScalarsOK
  <2> QED BY <1>9, <2>3, <2>4, <2>5 DEF TargetStops, connVars, sessionVars, InboxOK, ToolsOK, IsTable
<1>10. CASE GdbDies
  BY <1>10 DEF GdbDies, connVars, sessionVars, ScalarsOK, ToolsOK, InboxOK, OutboxOK, IsTable
<1> QED BY <1>3, <1>4, <1>5, <1>6, <1>7, <1>8, <1>9, <1>10 DEF Gdb

\* The types hold initially.
LEMMA InitShape == Init => Shape
<1> SUFFICES ASSUME Init PROVE Shape
  OBVIOUS
<1>1. ToolsOK
  <2> DEFINE idle == [op |-> "interrupt", pc |-> "idle", token |-> 0,
                      arg |-> 0, left |-> 0, mark |-> 0, got |-> 0]
  <2>1. idle \in Tool /\ idle.token = 0 /\ idle.arg = 0
    BY DEF Tool, Finished
  <2>2. tool = [c \in Clients |-> idle] /\ next_token = 1
    BY DEF Init
  <2> HIDE DEF idle
  <2> QED BY <2>1, <2>2 DEF ToolsOK
<1>2. stop_event \in BOOLEAN
  BY Zenon DEF Init
<1> QED BY <1>1, <1>2, SessionAssumption DEF Init, Shape, ScalarsOK, InboxOK, OutboxOK, IsTable

\* Every step keeps the types.
LEMMA StepShape == Shape /\ [Next]_vars => Shape'
<1> SUFFICES ASSUME Shape, [Next]_vars PROVE Shape'
  OBVIOUS
<1>1. CASE UNCHANGED vars
  BY <1>1 DEF vars, connVars, sessionVars, targetVars, Shape, ScalarsOK, ToolsOK, InboxOK, OutboxOK, IsTable
<1> QED BY <1>1, BeginShape, ResumeShape, TimerShape, LoopShape, GdbShape DEF Next

-----------------------------------------------------------------------------
(* What an action does to the calls. *)

\* The calls of the others stay as they are.
Untouched(c) == \A d \in Clients : d # c => tool'[d] = tool[d]

\* A call goes on with the command that it is.
Keeps(c) ==
  /\ tool'[c].op = tool[c].op /\ tool'[c].token = tool[c].token /\ tool'[c].arg = tool[c].arg
  /\ tool'[c].mark = tool[c].mark

\* The call that sends a command, after it.
LEMMA SendEffect ==
  ASSUME Shape, NEW c \in Clients, NEW op, NEW arg, NEW left, Send(c, op, arg, left)
  PROVE  /\ Untouched(c)
         /\ tool'[c].op = op /\ tool'[c].pc = "sending" /\ tool'[c].token = next_token
         /\ tool'[c].arg = arg /\ tool'[c].left = left /\ tool'[c].mark = stops
BY DEF Send, Shape, ToolsOK, Untouched

\* The call that ends, after it.
LEMMA EndEffect ==
  ASSUME Shape, NEW c \in Clients, NEW how, End(c, how)
  PROVE  Untouched(c) /\ Keeps(c) /\ tool'[c].pc = how /\ tool'[c].got = last_stop
<1> DEFINE new == [tool[c] EXCEPT !.pc = how, !.got = last_stop]
<1>1. tool' = [tool EXCEPT ![c] = new] /\ tool[c] \in Tool
  BY DEF End, Shape, ToolsOK
<1>2. /\ new.op = tool[c].op /\ new.token = tool[c].token /\ new.arg = tool[c].arg
      /\ new.mark = tool[c].mark /\ new.pc = how /\ new.got = last_stop
  BY <1>1 DEF Tool
<1> HIDE DEF new
<1> QED BY <1>1, <1>2 DEF Shape, ToolsOK, Untouched, Keeps

\* The call that goes on, after it.
LEMMA MoveEffect ==
  ASSUME Shape, NEW c \in Clients, NEW pc, tool' = [tool EXCEPT ![c].pc = pc]
  PROVE  Untouched(c) /\ Keeps(c) /\ tool'[c].pc = pc /\ tool'[c].got = tool[c].got
<1> DEFINE new == [tool[c] EXCEPT !.pc = pc]
<1>1. tool' = [tool EXCEPT ![c] = new] /\ tool[c] \in Tool
  BY DEF Shape, ToolsOK
<1>2. /\ new.op = tool[c].op /\ new.token = tool[c].token /\ new.arg = tool[c].arg
      /\ new.mark = tool[c].mark /\ new.pc = pc /\ new.got = tool[c].got
  BY <1>1 DEF Tool
<1> HIDE DEF new
<1> QED BY <1>1, <1>2 DEF Shape, ToolsOK, Untouched, Keeps

\* A call becomes another one that is not sent.
LEMMA OpensEffect ==
  ASSUME Shape, NEW c \in Clients, NothingToInterrupt(c) \/ Interrupt(c) \/ Disconnect(c)
  PROVE  /\ Untouched(c) /\ tool'[c].token = tool[c].token
         /\ tool'[c].arg = tool[c].arg /\ tool'[c].mark = tool[c].mark
         /\ ~Disconnect(c) => tool'[c].op = "interrupt" /\ tool'[c].pc \in {"returned", "waiting"}
         /\ Disconnect(c) => tool'[c].op = "disconnect" /\ tool'[c].pc = "closing"
<1>0. tool[c] \in Tool /\ tool \in [Clients -> Tool]
  BY DEF Shape, ToolsOK
<1>1. CASE NothingToInterrupt(c) /\ ~Disconnect(c)
  <2> DEFINE new == [tool[c] EXCEPT !.op = "interrupt", !.pc = "returned", !.got = last_stop]
  <2>1. tool' = [tool EXCEPT ![c] = new]
    BY <1>0, <1>1 DEF NothingToInterrupt
  <2>2. /\ new.op = "interrupt" /\ new.token = tool[c].token /\ new.arg = tool[c].arg
        /\ new.mark = tool[c].mark /\ new.pc = "returned"
    BY <1>0 DEF Tool
  <2> HIDE DEF new
  <2> QED BY <1>0, <1>1, <2>1, <2>2 DEF Untouched
<1>2. CASE Interrupt(c) /\ ~Disconnect(c)
  <2> DEFINE new == [tool[c] EXCEPT !.op = "interrupt", !.pc = "waiting"]
  <2>1. tool' = [tool EXCEPT ![c] = new]
    BY <1>0, <1>2 DEF Interrupt
  <2>2. /\ new.op = "interrupt" /\ new.token = tool[c].token /\ new.arg = tool[c].arg
        /\ new.mark = tool[c].mark /\ new.pc = "waiting"
    BY <1>0 DEF Tool
  <2> HIDE DEF new
  <2> QED BY <1>0, <1>2, <2>1, <2>2 DEF Untouched
<1>3. CASE Disconnect(c)
  <2> DEFINE new == [tool[c] EXCEPT !.op = "disconnect", !.pc = "closing"]
  <2>1. tool' = [tool EXCEPT ![c] = new]
    BY <1>0, <1>3 DEF Disconnect
  <2>2. /\ new.op = "disconnect" /\ new.token = tool[c].token /\ new.arg = tool[c].arg
        /\ new.mark = tool[c].mark /\ new.pc = "closing"
    BY <1>0 DEF Tool
  <2> HIDE DEF new
  <2> QED BY <1>0, <1>3, <2>1, <2>2 DEF Untouched
<1> QED BY <1>1, <1>2, <1>3

\* Everybody who waits for the stop event is woken.
LEMMA SetStopEventEffect ==
  ASSUME NEW tools \in [Clients -> Tool], SetStopEvent(tools), NEW c \in Clients
  PROVE  /\ tools[c].pc # "waiting" => tool'[c] = tools[c]
         /\ tools[c].pc = "waiting" =>
              /\ tool'[c].pc = "woken" /\ tool'[c].got = tools[c].got
              /\ tool'[c].op = tools[c].op /\ tool'[c].token = tools[c].token
              /\ tool'[c].arg = tools[c].arg /\ tool'[c].mark = tools[c].mark
<1> DEFINE new == [tools[c] EXCEPT !.pc = "woken"]
<1>1. tool'[c] = IF tools[c].pc = "waiting" THEN new ELSE tools[c]
  BY DEF SetStopEvent
<1>2. /\ new.op = tools[c].op /\ new.token = tools[c].token /\ new.arg = tools[c].arg
      /\ new.mark = tools[c].mark /\ new.pc = "woken" /\ new.got = tools[c].got
  <2>1. tools[c] \in Tool
    OBVIOUS
  <2> QED BY <2>1 DEF Tool
<1> QED BY <1>1, <1>2

\* Everybody who waits for an answer is told that there will be none.
LEMMA RejectSendersEffect ==
  ASSUME NEW tools \in [Clients -> Tool], tool' = RejectSenders(tools), NEW c \in Clients
  PROVE  /\ tools[c].pc # "sending" => tool'[c] = tools[c]
         /\ tools[c].pc = "sending" =>
              /\ tool'[c].pc = "refused" /\ tool'[c].got = tools[c].got
              /\ tool'[c].op = tools[c].op /\ tool'[c].token = tools[c].token
              /\ tool'[c].arg = tools[c].arg /\ tool'[c].mark = tools[c].mark
<1> DEFINE new == [tools[c] EXCEPT !.pc = "refused"]
<1>1. tool'[c] = IF tools[c].pc = "sending" THEN new ELSE tools[c]
  BY DEF RejectSenders
<1>2. /\ new.op = tools[c].op /\ new.token = tools[c].token /\ new.arg = tools[c].arg
      /\ new.mark = tools[c].mark /\ new.pc = "refused" /\ new.got = tools[c].got
  <2>1. tools[c] \in Tool
    OBVIOUS
  <2> QED BY <2>1 DEF Tool
<1> QED BY <1>1, <1>2

\* An accepted reset ends its call, and one that halts wakes those who wait for a stop.
LEMMA ResetEffect ==
  ASSUME Shape, NEW c \in Clients, ResetAccepted(c), NEW d \in Clients
  PROVE  /\ Keeps(d)
         /\ d = c => tool'[d].pc = "returned"
         /\ d # c /\ tool[c].op = "reset_halt" /\ tool[d].pc = "waiting" => tool'[d].pc = "woken" /\ tool'[d].got = tool[d].got
         /\ d # c /\ ~(tool[c].op = "reset_halt" /\ tool[d].pc = "waiting") => tool'[d] = tool[d]
         /\ tool[c].op = "reset_halt" => stop_event'
         /\ tool[c].op # "reset_halt" => stop_event' = stop_event
<1>1. CASE tool[c].op = "reset_halt"
  <2> DEFINE tools == [tool EXCEPT ![c].pc = "returned"]
             new == [tool[c] EXCEPT !.pc = "returned"]
  <2>1. SetStopEvent(tools)
    BY <1>1 DEF ResetAccepted
  <2>2. tool[c] \in Tool /\ new \in Tool
    BY MoveShape DEF Finished, Shape, ToolsOK
  <2>3. new.op = tool[c].op /\ new.token = tool[c].token /\ new.arg = tool[c].arg
        /\ new.mark = tool[c].mark /\ new.pc = "returned"
    BY <2>2 DEF Tool
  <2>4. tools = [tool EXCEPT ![c] = new]
    OBVIOUS
  <2> HIDE DEF new, tools
  <2>5. tools \in [Clients -> Tool] /\ tools[c] = new /\ (d # c => tools[d] = tool[d])
    BY <2>2, <2>4 DEF Shape, ToolsOK
  <2>6. stop_event'
    BY <2>1 DEF SetStopEvent
  <2> QED BY <1>1, <2>1, <2>3, <2>5, <2>6, SetStopEventEffect DEF Keeps
<1>2. CASE tool[c].op # "reset_halt"
  <2>1. End(c, "returned") /\ stop_event' = stop_event
    BY <1>2 DEF ResetAccepted
  <2> QED BY <1>2, <2>1, EndEffect DEF Untouched, Keeps
<1> QED BY <1>1, <1>2

\* Disconnecting ends its call, and refuses those that wait for an answer.
LEMMA DisconnectedEffect ==
  ASSUME Shape, NEW c \in Clients, Disconnected(c), NEW d \in Clients
  PROVE  /\ Keeps(d)
         /\ d = c => tool'[d].pc = "returned"
         /\ d # c /\ tool[d].pc = "sending" => tool'[d].pc = "refused"
         /\ d # c /\ tool[d].pc # "sending" => tool'[d] = tool[d]
         /\ tool'[d].got = tool[d].got
<1> DEFINE tools == [tool EXCEPT ![c].pc = "returned"]
           new == [tool[c] EXCEPT !.pc = "returned"]
<1>1. tool' = RejectSenders(tools)
  BY DEF Disconnected
<1>2. tool[c] \in Tool /\ new \in Tool
  BY MoveShape DEF Finished, Shape, ToolsOK
<1>3. new.op = tool[c].op /\ new.token = tool[c].token /\ new.arg = tool[c].arg
      /\ new.mark = tool[c].mark /\ new.pc = "returned" /\ new.got = tool[c].got
  BY <1>2 DEF Tool
<1>4. tools = [tool EXCEPT ![c] = new]
  OBVIOUS
<1> HIDE DEF new, tools
<1>5. tools \in [Clients -> Tool] /\ tools[c] = new /\ (d # c => tools[d] = tool[d])
  BY <1>2, <1>4 DEF Shape, ToolsOK
<1> QED BY <1>1, <1>3, <1>5, RejectSendersEffect DEF Keeps

\* A result makes the call that it settles go on, and only its place and its argument change.
LEMMA AnsweredEffect ==
  ASSUME Shape, NEW c \in Clients, ReadResult
  PROVE  /\ tool'[c].op = tool[c].op /\ tool'[c].token = tool[c].token
         /\ tool'[c].mark = tool[c].mark /\ tool'[c].got = tool[c].got
         /\ ~(Sending(c) /\ tool[c].token = Settles) => tool'[c] = tool[c]
         /\ Sending(c) /\ tool[c].token = Settles =>
              /\ tool'[c].pc = IF Head(outbox).class = "error" THEN "refused" ELSE "accepted"
              /\ tool'[c].arg = IF tool[c].op = "delete" THEN tool[c].arg ELSE Head(outbox).bkpt
<1>1. tool'[c] = Answered(c, Settles) /\ tool[c] \in Tool
  BY ReadResultEffect DEF Shape, ToolsOK
<1> DEFINE pc == IF Head(outbox).class = "error" THEN "refused" ELSE "accepted"
           arg == IF tool[c].op = "delete" THEN tool[c].arg ELSE Head(outbox).bkpt
           new == [tool[c] EXCEPT !.pc = pc, !.arg = arg]
<1>2. Answered(c, Settles) = IF Sending(c) /\ tool[c].token = Settles THEN new ELSE tool[c]
  BY DEF Answered
<1> HIDE DEF pc, arg
<1>3. new.pc = pc /\ new.token = tool[c].token /\ new.arg = arg /\ new.op = tool[c].op
      /\ new.mark = tool[c].mark /\ new.got = tool[c].got
  BY <1>1 DEF Tool
<1> HIDE DEF new
<1> QED BY <1>1, <1>2, <1>3 DEF pc, arg

-----------------------------------------------------------------------------
(* The pending tokens are those of the calls that wait for an answer. *)

\* Nobody begins or ceases to wait for an answer.
LEMMA PendingStays ==
  ASSUME Pending, UNCHANGED <<next_token, pending_order>>,
         \A d \in Clients : tool'[d].token = tool[d].token /\ (Sending(d)' <=> Sending(d))
  PROVE  Pending'
BY DEF Pending

\* Nobody waits for an answer any more.
LEMMA PendingEmpties ==
  ASSUME pending_order' = <<>>, \A d \in Clients : ~Sending(d)'
  PROVE  Pending'
BY DEF Pending

\* A token is forgotten, and its call waits no longer.
LEMMA PendingForgets ==
  ASSUME Pending, NEW t, pending_order' = Forget(t), UNCHANGED next_token,
         \A d \in Clients : tool'[d].token = tool[d].token
                            /\ (Sending(d)' <=> Sending(d) /\ tool[d].token # t)
  PROVE  Pending'
<1> DEFINE S == 1..(next_token - 1)
<1>1. pending_order \in Seq(S) /\ pending_order' = RemoveFirst(pending_order, t)
  BY DEF Pending, Forget
<1>2. \A i, j \in DOMAIN pending_order : i # j => pending_order[i] # pending_order[j]
  BY DEF Pending
<1>3. /\ pending_order' \in Seq(S)
      /\ \A i, j \in DOMAIN pending_order' : i # j => pending_order'[i] # pending_order'[j]
      /\ \A i \in DOMAIN pending_order' :
               /\ pending_order'[i] # t
               /\ \E j \in DOMAIN pending_order : pending_order[j] = pending_order'[i]
      /\ \A j \in DOMAIN pending_order : pending_order[j] # t =>
               \E i \in DOMAIN pending_order' : pending_order'[i] = pending_order[j]
  <2> HIDE DEF S
  <2> QED BY <1>1, <1>2, RemoveFirstEffect
<1>4. ASSUME NEW i \in DOMAIN pending_order'
      PROVE  \E c \in Clients : Sending(c)' /\ tool'[c].token = pending_order'[i]
  <2>1. PICK j \in DOMAIN pending_order : pending_order[j] = pending_order'[i] /\ pending_order[j] # t
    BY <1>3
  <2>2. PICK c \in Clients : Sending(c) /\ tool[c].token = pending_order[j]
    BY DEF Pending
  <2> QED BY <2>1, <2>2
<1>5. ASSUME NEW c \in Clients, Sending(c)'
      PROVE  \E i \in DOMAIN pending_order' : pending_order'[i] = tool'[c].token
  <2>1. Sending(c) /\ tool[c].token # t /\ tool'[c].token = tool[c].token
    BY <1>5
  <2>2. PICK j \in DOMAIN pending_order : pending_order[j] = tool[c].token
    BY <2>1 DEF Pending
  <2> QED BY <1>3, <2>1, <2>2
<1>6. \A c, d \in Clients : Sending(c)' /\ Sending(d)' /\ c # d => tool'[c].token # tool'[d].token
  BY DEF Pending
<1> QED BY <1>3, <1>4, <1>5, <1>6 DEF Pending

\* A command is sent: its token is new.
LEMMA PendingSends ==
  ASSUME Shape, Pending, NEW c \in Clients, NEW op, NEW arg, NEW left, Send(c, op, arg, left), ~Sending(c)
  PROVE  Pending'
<1>1. next_token \in Nat \ {0} /\ next_token' = next_token + 1 /\ pending_order' = Append(pending_order, next_token)
  BY DEF Send, Shape, ScalarsOK
<1> DEFINE S == 1..(next_token' - 1)
<1>2. pending_order \in Seq(S) /\ next_token \in S
  BY <1>1 DEF Pending
<1>3. /\ pending_order' \in Seq(S)
      /\ DOMAIN pending_order' = DOMAIN pending_order \cup {Len(pending_order) + 1}
      /\ \A i \in DOMAIN pending_order : pending_order'[i] = pending_order[i] /\ pending_order[i] < next_token
      /\ pending_order'[Len(pending_order) + 1] = next_token
      /\ Len(pending_order) + 1 \notin DOMAIN pending_order
  <2>1. \A i \in DOMAIN pending_order : pending_order[i] < next_token
    BY <1>1 DEF Pending
  <2> HIDE DEF S
  <2> QED BY <1>1, <1>2, <2>1, AppendEffect
<1>4. Untouched(c) /\ Sending(c)' /\ tool'[c].token = next_token
  BY SendEffect DEF Sending
<1>5. \A d \in Clients : tool[d].token < next_token /\ tool[d].token \in Nat
  BY DEF Shape, ToolsOK, Tool
<1>6. \A d \in Clients : d # c => tool'[d].token = tool[d].token /\ (Sending(d)' <=> Sending(d))
  BY <1>4 DEF Untouched, Sending
<1>7. \A i, j \in DOMAIN pending_order' : i # j => pending_order'[i] # pending_order'[j]
  BY <1>1, <1>3 DEF Pending
<1>8. \A i \in DOMAIN pending_order' : \E d \in Clients : Sending(d)' /\ tool'[d].token = pending_order'[i]
  <2> SUFFICES ASSUME NEW i \in DOMAIN pending_order' PROVE \E d \in Clients : Sending(d)' /\ tool'[d].token = pending_order'[i]
    OBVIOUS
  <2>1. CASE i \in DOMAIN pending_order
    <3>1. PICK d \in Clients : Sending(d) /\ tool[d].token = pending_order[i]
      BY <2>1 DEF Pending
    <3> QED BY <2>1, <3>1, <1>3, <1>6
  <2> QED BY <2>1, <1>3, <1>4
<1>9. \A d \in Clients : Sending(d)' => \E i \in DOMAIN pending_order' : pending_order'[i] = tool'[d].token
  <2> SUFFICES ASSUME NEW d \in Clients, Sending(d)' PROVE \E i \in DOMAIN pending_order' : pending_order'[i] = tool'[d].token
    OBVIOUS
  <2>1. CASE d # c
    <3>1. PICK i \in DOMAIN pending_order : pending_order[i] = tool[d].token
      BY <2>1, <1>6 DEF Pending
    <3> QED BY <2>1, <3>1, <1>3, <1>6
  <2> QED BY <2>1, <1>3, <1>4
<1>10. \A d, e \in Clients : Sending(d)' /\ Sending(e)' /\ d # e => tool'[d].token # tool'[e].token
  <2> SUFFICES ASSUME NEW d \in Clients, NEW e \in Clients, Sending(d)', Sending(e)', d # e
               PROVE  tool'[d].token # tool'[e].token
    OBVIOUS
  <2>1. CASE d = c \/ e = c
    BY <2>1, <1>1, <1>4, <1>5, <1>6
  <2>2. CASE d # c /\ e # c
    BY <2>2, <1>6 DEF Pending
  <2> QED BY <2>1, <2>2
<1> QED BY <1>3, <1>7, <1>8, <1>9, <1>10 DEF Pending

\* Every step keeps the pending commands and the calls that wait together.
LEMMA StepPending ==
  ASSUME Shape, Pending, [Next]_vars
  PROVE  Pending'
<1>1. CASE UNCHANGED vars
  BY <1>1 DEF vars, connVars, Pending, Sending
<1>2. ASSUME NEW c \in Clients, Begin(c) PROVE Pending'
  <2>1. ASSUME NEW op, NEW arg, NEW left, Send(c, op, arg, left), Idle(c, op) PROVE Pending'
    <3>1. ~Sending(c)
      BY <2>1 DEF Idle, Finished, Sending
    <3> QED BY <2>1, <3>1, PendingSends
  <2>2. CASE NothingToInterrupt(c) \/ Interrupt(c) \/ Disconnect(c)
    <3>1. Untouched(c) /\ tool'[c].token = tool[c].token /\ ~Sending(c)'
      BY <2>2, OpensEffect DEF Sending
    <3>3. ~Sending(c) /\ UNCHANGED connVars
      BY <2>2 DEF NothingToInterrupt, Interrupt, Disconnect, Idle, Finished, Sending
    <3>2. \A d \in Clients : tool'[d].token = tool[d].token /\ (Sending(d)' <=> Sending(d))
      BY <3>1, <3>3 DEF Sending, Untouched
    <3> QED BY <3>2, <3>3, PendingStays DEF connVars
  <2> QED BY <1>2, <2>1, <2>2 DEF Begin, Run, Command
<1>3. ASSUME NEW c \in Clients, Resume(c) PROVE Pending'
  <2>1. ASSUME NEW how \in Finished \cup {"waiting"}, ~Sending(c),
               End(c, how) \/ tool' = [tool EXCEPT ![c].pc = how],
               UNCHANGED <<next_token, pending_order>>
        PROVE  Pending'
    <3>1. Untouched(c) /\ Keeps(c) /\ tool'[c].pc = how
      BY <2>1, EndEffect, MoveEffect
    <3>2. \A d \in Clients : tool'[d].token = tool[d].token /\ (Sending(d)' <=> Sending(d))
      BY <2>1, <3>1 DEF Finished, Sending, Untouched, Keeps
    <3> QED BY <2>1, <3>2, PendingStays
  <2>2. ASSUME Proceed(c), ~Sending(c) PROVE Pending'
    <3>1. CASE \E left : Send(c, "step", 0, left)
      BY <2>2, <3>1, PendingSends
    <3>2. CASE \E how \in Finished : End(c, how) /\ UNCHANGED <<next_token, pending_order>>
      BY <2>2, <3>2, <2>1
    <3> QED BY <2>2, <3>1, <3>2 DEF Proceed, Finished
  <2>3. CASE RunAccepted(c)
    BY <2>1, <2>2, <2>3 DEF RunAccepted, Sending
  <2>4. CASE ResetAccepted(c)
    <3>1. UNCHANGED <<next_token, pending_order>> /\ tool[c].pc = "accepted"
      BY <2>4 DEF ResetAccepted, connVars
    <3>2. \A d \in Clients : tool'[d].token = tool[d].token /\ (Sending(d)' <=> Sending(d))
      BY <2>4, <3>1, ResetEffect DEF Sending, Keeps
    <3> QED BY <3>1, <3>2, PendingStays
  <2>5. CASE BreakpointAccepted(c)
    BY <2>1, <2>5 DEF BreakpointAccepted, Sending, Finished, connVars
  <2>6. CASE Refused(c)
    BY <2>1, <2>6 DEF Refused, Sending, Finished, connVars
  <2>7. CASE Woken(c)
    BY <2>2, <2>7 DEF Woken, Sending
  <2>8. CASE Disconnected(c)
    <3>1. \A d \in Clients : ~Sending(d)'
      BY <2>8, DisconnectedEffect DEF Sending
    <3> QED BY <2>8, <3>1, PendingEmpties DEF Disconnected
  <2> QED BY <1>3, <2>3, <2>4, <2>5, <2>6, <2>7, <2>8 DEF Resume
<1>4. ASSUME NEW c \in Clients, Timer(c) PROVE Pending'
  <2>1. CASE SendTimesOut(c)
    <3>1. Untouched(c) /\ Keeps(c) /\ ~Sending(c)' /\ Sending(c)
      BY <2>1, EndEffect DEF SendTimesOut, Sending
    <3>2. \A d \in Clients : tool'[d].token = tool[d].token
                            /\ (Sending(d)' <=> Sending(d) /\ tool[d].token # tool[c].token)
      BY <3>1 DEF Untouched, Keeps, Sending, Pending
    <3> QED BY <2>1, <3>2, PendingForgets DEF SendTimesOut
  <2>2. CASE StopTimesOut(c) \/ GraceEnds(c)
    <3>1. \E how \in {"grace", "TimeoutError"} : End(c, how) \/ tool' = [tool EXCEPT ![c].pc = how]
      BY <2>2 DEF StopTimesOut, GraceEnds
    <3>2. Untouched(c) /\ Keeps(c) /\ ~Sending(c)' /\ ~Sending(c)
      BY <2>2, <3>1, EndEffect, MoveEffect DEF StopTimesOut, GraceEnds, Sending
    <3>3. \A d \in Clients : tool'[d].token = tool[d].token /\ (Sending(d)' <=> Sending(d))
      BY <3>2 DEF Sending, Untouched, Keeps
    <3> QED BY <2>2, <3>3, PendingStays DEF StopTimesOut, GraceEnds, connVars
  <2> QED BY <1>4, <2>1, <2>2 DEF Timer
<1>5. CASE Loop
  <2>1. CASE ReadResult
    <3>1. pending_order' = Forget(Settles) /\ UNCHANGED next_token
      BY <2>1, ReadResultEffect
    <3>2. \A d \in Clients : tool'[d].token = tool[d].token
                            /\ (Sending(d)' <=> Sending(d) /\ tool[d].token # Settles)
      BY <2>1, AnsweredEffect DEF Sending
    <3> QED BY <3>1, <3>2, PendingForgets
  <2>2. CASE ReaderEOF
    <3>1. \A d \in Clients : ~Sending(d)'
      BY <2>2, RejectSendersEffect DEF ReaderEOF, Sending, Shape, ToolsOK
    <3> QED BY <2>2, <3>1, PendingEmpties DEF ReaderEOF
  <2>3. CASE ReadRunning \/ ReadStopped
    <3>1. UNCHANGED <<next_token, pending_order, tool>>
      BY <2>3 DEF ReadRunning, ReadStopped
    <3> QED BY <3>1 DEF Pending, Sending
  <2>4. CASE ProcessStop
    <3>1. SetStopEvent(tool) /\ UNCHANGED <<next_token, pending_order>> /\ tool \in [Clients -> Tool]
      BY <2>4 DEF ProcessStop, connVars, Shape, ToolsOK
    <3>2. \A d \in Clients : tool'[d].token = tool[d].token /\ (Sending(d)' <=> Sending(d))
      BY <3>1, SetStopEventEffect DEF Sending
    <3> QED BY <3>1, <3>2, PendingStays
  <2> QED BY <1>5, <2>1, <2>2, <2>3, <2>4 DEF Loop
<1>6. CASE Gdb
  <2>1. UNCHANGED <<next_token, pending_order, tool>>
    BY <1>6 DEF Gdb, GdbRuns, GdbResets, GdbInserts, GdbDeletes, GdbInterrupts, GdbRefuses, TargetStops, GdbDies, connVars
  <2> QED BY <2>1 DEF Pending, Sending
<1> QED BY <1>1, <1>2, <1>3, <1>4, <1>5, <1>6 DEF Next

\* There are no more pending tokens than clients.
LEMMA PendingFits ==
  ASSUME Pending
  PROVE  Len(pending_order) <= Cardinality(Clients)
<1> DEFINE D == 1..Len(pending_order)
           owner == [i \in D |-> CHOOSE c \in Clients : Sending(c) /\ tool[c].token = pending_order[i]]
<1>1. pending_order \in Seq(1..(next_token - 1)) /\ Len(pending_order) \in Nat /\ DOMAIN pending_order = D
  BY DEF Pending
<1>2. \A i \in D : owner[i] \in Clients /\ tool[owner[i]].token = pending_order[i]
  <2> SUFFICES ASSUME NEW i \in D PROVE owner[i] \in Clients /\ tool[owner[i]].token = pending_order[i]
    OBVIOUS
  <2>1. \E c \in Clients : Sending(c) /\ tool[c].token = pending_order[i]
    BY <1>1 DEF Pending
  <2> QED BY <2>1
<1> HIDE DEF owner
<1>3. owner \in [D -> Clients]
  BY <1>2 DEF owner
<1>4. owner \in Injection(D, Clients)
  <2>1. \A i, j \in D : owner[i] = owner[j] => i = j
    <3> SUFFICES ASSUME NEW i \in D, NEW j \in D, owner[i] = owner[j] PROVE i = j
      OBVIOUS
    <3>1. pending_order[i] = pending_order[j]
      BY <1>2
    <3> QED BY <1>1, <3>1 DEF Pending
  <2> QED BY <1>3, <2>1 DEF Injection, IsInjective
<1>5. IsFiniteSet(Clients) /\ IsFiniteSet(D) /\ Cardinality(D) = Len(pending_order)
  BY <1>1, SessionAssumption, FS_Interval
<1>6. Cardinality(D) <= Cardinality(Clients)
  BY <1>4, <1>5, FS_Injection
<1> QED BY <1>5, <1>6

\* Every variable always has its type, and the pending commands are no more than the
\* clients: whatever tools are called, whatever is lost to a timer, an interrupt or a
\* disconnect (session.py, mi_connection.py).
THEOREM TypeCorrect == Spec => []TypeOK
<1>1. Init => Shape /\ Pending
  BY InitShape DEF Init, Pending, Sending
<1>2. Shape /\ Pending /\ [Next]_vars => Shape' /\ Pending'
  BY StepShape, StepPending
<1>3. Shape /\ Pending => TypeOK
  <2> SUFFICES ASSUME Shape, Pending PROVE TypeOK
    OBVIOUS
  <2>1. Len(pending_order) <= Cardinality(Clients)
    BY PendingFits
  <2>2. next_token \in Nat /\ \A i \in DOMAIN pending_order : pending_order[i] \in 1..(next_token - 1)
    BY DEF Shape, ScalarsOK, Pending
  <2> QED BY <2>1, <2>2 DEF TypeOK, Shape, ScalarsOK, ToolsOK, IsTable, Breakpoint
<1> QED BY <1>1, <1>2, <1>3, PTL DEF Spec

-----------------------------------------------------------------------------
(* The state of the connection is GDB's, but for the records on their way. *)

\* The reader takes a record, and the session takes the state that it tells.
LEMMA ReadsFollow ==
  ASSUME Shape, Follows, NEW type \in {"result", "running", "stopped"}, Received(type), UNCHANGED gdb,
         conn_state' = IF type = "result" THEN conn_state ELSE type
  PROVE  Follows'
<1>1. /\ outbox \in Seq(Records) /\ outbox # <<>> /\ outbox' = Tail(outbox) /\ Up
      /\ Head(outbox).type = type
  BY DEF Shape, OutboxOK, Received
<1>2. /\ outbox' \in Seq(Records) /\ Head(outbox) = outbox[1] /\ 1 \in DOMAIN outbox
      /\ \A i \in DOMAIN outbox' : i \in Nat \ {0} /\ i + 1 \in DOMAIN outbox /\ outbox'[i] = outbox[i + 1]
      /\ \A i \in DOMAIN outbox : i # 1 => i - 1 \in DOMAIN outbox' /\ outbox'[i - 1] = outbox[i]
  BY <1>1, TailEffect
<1>3. \A i \in DOMAIN outbox : i \in Nat \ {0}
  BY <1>1
<1>4. Up'
  BY <1>1 DEF Up
<1>5. CASE gdb = "gone"
  BY <1>4, <1>5 DEF Follows
<1>6. CASE gdb # "gone"
  <2>1. CASE \A i \in DOMAIN outbox : ~Tells(i)
    <3>1. type = "result" /\ (conn_state' = "running" <=> gdb' = "running")
      BY <1>1, <1>2, <1>6, <2>1 DEF Follows, Tells
    <3>2. \A i \in DOMAIN outbox' : ~Tells(i)'
      BY <1>2, <2>1 DEF Tells
    <3> QED BY <1>4, <1>6, <3>1, <3>2 DEF Follows
  <2>2. CASE \E i \in DOMAIN outbox : Tells(i)
    <3>1. PICK i \in DOMAIN outbox :
            /\ Tells(i) /\ (outbox[i].type = "running" <=> gdb = "running")
            /\ \A j \in DOMAIN outbox : j > i => ~Tells(j)
      BY <1>6, <2>2 DEF Follows
    <3>2. CASE i = 1
      <4>1. conn_state' = "running" <=> gdb' = "running"
        BY <1>1, <1>2, <3>1, <3>2 DEF Tells
      <4>2. \A j \in DOMAIN outbox' : ~Tells(j)'
        BY <1>2, <3>1, <3>2 DEF Tells
      <4> QED BY <1>4, <1>6, <4>1, <4>2 DEF Follows
    <3>3. CASE i # 1
      <4> DEFINE k == i - 1
      <4>1. k \in DOMAIN outbox' /\ outbox'[k] = outbox[i]
        BY <1>2, <3>3
      <4>2. \A j \in DOMAIN outbox' : j > k => ~Tells(j)'
        BY <1>2, <1>3, <3>1 DEF Tells
      <4>3. Tells(k)' /\ (outbox'[k].type = "running" <=> gdb' = "running")
        BY <3>1, <4>1 DEF Tells
      <4> HIDE DEF k
      <4> QED BY <1>4, <1>6, <4>1, <4>2, <4>3 DEF Follows
    <3> QED BY <3>2, <3>3
  <2> QED BY <2>1, <2>2
<1> QED BY <1>5, <1>6

\* GDB writes an answer, or that the target stopped.
LEMMA WritesFollow ==
  ASSUME Shape, Follows, UNCHANGED conn_state, gdb # "gone", gdb' # "gone",
         NEW record \in Records, outbox' = Append(outbox, record),
         \/ record.type = "result" /\ UNCHANGED gdb
         \/ record.type = "stopped" /\ gdb' = "halted"
  PROVE  Follows'
<1>1. outbox \in Seq(Records)
  BY DEF Shape, OutboxOK
<1>0. PICK last : last = Len(outbox) + 1
  OBVIOUS
<1>2. /\ DOMAIN outbox' = DOMAIN outbox \cup {last} /\ last \in Nat
      /\ \A i \in DOMAIN outbox : outbox'[i] = outbox[i] /\ i < last /\ i \in Nat
      /\ outbox'[last] = record
  BY <1>0, <1>1, AppendEffect
<1>3. Up'
  BY DEF Follows, Up
<1>4. CASE record.type = "result"
  <2>1. ~Tells(last)' /\ \A i \in DOMAIN outbox : Tells(i)' <=> Tells(i)
    BY <1>2, <1>4 DEF Tells
  <2>2. CASE \A i \in DOMAIN outbox : ~Tells(i)
    BY <1>2, <1>3, <1>4, <2>1, <2>2 DEF Follows
  <2>3. CASE \E i \in DOMAIN outbox : Tells(i)
    <3>1. PICK i \in DOMAIN outbox :
            /\ Tells(i) /\ (outbox[i].type = "running" <=> gdb = "running")
            /\ \A j \in DOMAIN outbox : j > i => ~Tells(j)
      BY <2>3 DEF Follows
    <3>2. i \in DOMAIN outbox' /\ Tells(i)' /\ (outbox'[i].type = "running" <=> gdb' = "running")
      BY <1>2, <1>4, <2>1, <3>1
    <3>3. \A j \in DOMAIN outbox' : j > i => ~Tells(j)'
      BY <1>2, <2>1, <3>1
    <3> QED BY <1>3, <3>2, <3>3 DEF Follows
  <2> QED BY <2>2, <2>3
<1>5. CASE record.type = "stopped"
  <2>1. Tells(last)' /\ (outbox'[last].type = "running" <=> gdb' = "running")
    BY <1>2, <1>5 DEF Tells
  <2>2. \A j \in DOMAIN outbox' : j > last => ~Tells(j)'
    BY <1>2
  <2> QED BY <1>2, <1>3, <2>1, <2>2 DEF Follows
<1> QED BY <1>4, <1>5

\* GDB runs the target and says so after its answer.
LEMMA RunsFollow ==
  ASSUME Shape, Follows, GdbRuns
  PROVE  Follows'
<1> DEFINE one == Result("done", 0)
           two == [type |-> "running"]
<1>1. one \in Records /\ two \in Records /\ two.type = "running"
  <2>1. Head(inbox) \in Items
    BY ReadsShape DEF GdbRuns, connVars
  <2> QED BY <2>1 DEF Records, Results, Result, Items
<1>2. outbox' = outbox \o <<one, two>> /\ outbox \in Seq(Records)
  BY DEF GdbRuns, Shape, OutboxOK
<1> HIDE DEF one, two
<1>0. PICK last : last = Len(outbox) + 2
  OBVIOUS
<1>3. last \in DOMAIN outbox' /\ outbox'[last] = two /\ \A j \in DOMAIN outbox' : ~(j > last)
  BY <1>0, <1>1, <1>2
<1>4. Up' /\ gdb' = "running"
  BY DEF GdbRuns, Follows, Up, connVars
<1>5. Tells(last)' /\ (outbox'[last].type = "running" <=> gdb' = "running")
  BY <1>1, <1>3, <1>4 DEF Tells
<1> QED BY <1>3, <1>4, <1>5 DEF Follows

\* Every step keeps what the session will believe and what is so together.
LEMMA StepFollows ==
  ASSUME Shape, Follows, [Next]_vars
  PROVE  Follows'
<1>1. CASE UNCHANGED <<outbox, conn_state, gdb>>
  BY <1>1 DEF Follows, Up, Tells
<1>2. ASSUME NEW c \in Clients, Begin(c) \/ Resume(c) \/ Timer(c) PROVE Follows'
  <2>1. CASE Disconnected(c)
    BY <2>1 DEF Disconnected, Follows
  <2>2. CASE ~Disconnected(c)
    BY <1>1, <1>2, <2>2 DEF Begin, Run, Command, NothingToInterrupt, Interrupt, Disconnect,
       Resume, RunAccepted, ResetAccepted, BreakpointAccepted, Refused, Woken,
       Timer, SendTimesOut, StopTimesOut, GraceEnds, connVars, targetVars
  <2> QED BY <2>1, <2>2
<1>3. CASE Loop
  <2>1. CASE ReadResult
    <3>1. Received("result") /\ UNCHANGED conn_state /\ UNCHANGED gdb
      BY <2>1, ReadResultEffect DEF targetVars
    <3> QED BY <3>1, ReadsFollow
  <2>2. CASE ReadRunning
    <3>1. Received("running") /\ conn_state' = "running" /\ UNCHANGED gdb
      BY <2>2 DEF ReadRunning, targetVars
    <3> QED BY <3>1, ReadsFollow
  <2>7. CASE ReadStopped
    <3>1. Received("stopped") /\ conn_state' = "stopped" /\ UNCHANGED gdb
      BY <2>7 DEF ReadStopped, targetVars
    <3> QED BY <3>1, ReadsFollow
  <2>3. CASE ReaderEOF
    BY <2>3 DEF ReaderEOF, Follows, targetVars
  <2>4. CASE ProcessStop
    BY <2>4, <1>1 DEF ProcessStop, connVars, targetVars
  <2> QED BY <1>3, <2>1, <2>2, <2>3, <2>4, <2>7 DEF Loop
<1>4. CASE Gdb
  <2>1. CASE GdbRuns
    BY <2>1, RunsFollow
  <2>2. ASSUME NEW texts, Reads(texts), UNCHANGED <<connVars, gdb>>, NEW class \in {"done", "error"},
               NEW bkpt \in Nat, outbox' = Append(outbox, Result(class, bkpt))
        PROVE  Follows'
    <3>1. Result(class, bkpt) \in Records /\ Result(class, bkpt).type = "result"
      <4>1. Head(inbox) \in Items
        BY <2>2, ReadsShape DEF connVars
      <4> QED BY <4>1 DEF Records, Results, Result, Items
    <3> QED BY <2>2, <3>1, WritesFollow DEF connVars, Reads
  <2>3. CASE GdbInserts
    <3>1. Head(inbox).token \in Nat
      BY <2>3, ReadsShape DEF GdbInserts, connVars, Items
    <3> QED BY <2>2, <2>3, <3>1 DEF GdbInserts
  <2>4. CASE GdbResets \/ GdbDeletes \/ GdbInterrupts \/ GdbRefuses
    BY <2>2, <2>4 DEF GdbResets, GdbDeletes, GdbInterrupts, GdbRefuses, targetVars
  <2>5. ASSUME NEW id \in {0} \cup DOMAIN table, TargetStops(id) PROVE Follows'
    <3> DEFINE record == [type |-> "stopped", stop |-> stops + 1, bkpt |-> id]
    <3>1. record \in Records
      <4>1. stops + 1 \in 1..MaxStops /\ id \in Nat
        BY <2>5, SessionAssumption DEF TargetStops, Shape, ScalarsOK, IsTable
      <4> QED BY <4>1 DEF Records, StopRecords
    <3>2. record.type = "stopped" /\ outbox' = Append(outbox, record) /\ gdb = "running" /\ gdb' = "halted"
          /\ UNCHANGED conn_state
      BY <2>5 DEF TargetStops, connVars
    <3> HIDE DEF record
    <3> QED BY <3>1, <3>2, WritesFollow
  <2>6. CASE GdbDies
    BY <2>6 DEF GdbDies, Follows, connVars, Up
  <2> QED BY <1>4, <2>1, <2>3, <2>4, <2>5, <2>6 DEF Gdb
<1>5. CASE UNCHANGED vars
  BY <1>1, <1>5 DEF vars, connVars, targetVars
<1> QED BY <1>2, <1>3, <1>4, <1>5 DEF Next

\* When nothing is on its way, the session's target state is GDB's (_on_running,
\* _on_stopped): interrupts and timers that leave answers behind do not disturb it.
THEOREM StateIsKnown == Spec => []StateIsGdbs
<1>1. Init => Shape /\ Follows
  BY InitShape DEF Init, Follows, Up
<1>2. Shape /\ Follows /\ [Next]_vars => Shape' /\ Follows'
  BY StepShape, StepFollows
<1>3. Shape /\ Follows => StateIsGdbs
  BY DEF Follows, StateIsGdbs, Quiet
<1> QED BY <1>1, <1>2, <1>3, PTL DEF Spec

-----------------------------------------------------------------------------
(* Who does what. *)

\* A call that becomes another one keeps the roles if the new one does.
LEMMA RolesStay ==
  ASSUME NEW r, Roles(r), NEW c \in Clients, Untouched(c),
         /\ tool'[c].op = "interrupt" => tool'[c].pc = "idle"
         /\ c # r => tool'[c].op \notin Runs \cup {"reset_halt"}
         /\ tool'[c].pc \in {"waiting", "woken"} => tool'[c].op \in Runs
         /\ tool'[c].pc # "grace"
         /\ tool'[c].pc = "closing" => tool'[c].op = "disconnect"
  PROVE  Roles(r)'
BY DEF Roles, Untouched

\* Without timers and interrupts these actions are out of the question.
LEMMA NoTimer ==
  ASSUME NEW r, RunsAlone(r), Roles(r), NEW c \in Clients
  PROVE  ~Timer(c) /\ ~NothingToInterrupt(c) /\ ~Interrupt(c)
BY DEF RunsAlone, Roles, Timer, SendTimesOut, StopTimesOut, GraceEnds, NothingToInterrupt, Interrupt, Idle

\* A call that ends keeps its role.
LEMMA RolesEnd ==
  ASSUME NEW r \in Clients, Shape, Roles(r), NEW c \in Clients, tool[c].op # "interrupt",
         NEW how \in Finished, End(c, how)
  PROVE  Roles(r)'
<1>1. Untouched(c) /\ Keeps(c) /\ tool'[c].pc = how
      /\ how \notin {"grace", "closing", "waiting", "woken"}
  BY EndEffect DEF Finished
<1>2. c # r => tool[c].op \notin Runs \cup {"reset_halt"}
  BY DEF Roles
<1> QED BY <1>1, <1>2, RolesStay DEF Keeps

\* Every step keeps the roles.
LEMMA StepRoles ==
  ASSUME NEW r \in Clients, RunsAlone(r), Shape, Roles(r), [Next]_vars
  PROVE  Roles(r)'
<1>1. CASE UNCHANGED tool
  BY <1>1 DEF Roles
<1>2. ASSUME NEW c \in Clients, Begin(c) PROVE Roles(r)'
  <2>1. ASSUME NEW op \in Commands, NEW arg, NEW left, Send(c, op, arg, left), Idle(c, op) PROVE Roles(r)'
    <3>1. op \in Ops[c] /\ op # "interrupt" /\ (c # r => op \notin Runs \cup {"reset_halt"})
      BY <2>1 DEF Idle, RunsAlone
    <3> QED BY <2>1, <3>1, SendEffect, RolesStay
  <2>2. CASE Disconnect(c)
    BY <2>2, OpensEffect, RolesStay DEF Runs
  <2>3. Runs \subseteq Commands /\ {"reset_halt", "reset_run", "break", "tbreak", "delete"} \subseteq Commands
        /\ {"continue", "step"} \subseteq Runs
    BY DEF Commands, Runs
  <2> QED BY <1>2, <2>1, <2>2, <2>3, NoTimer DEF Begin, Run, Command
<1>3. ASSUME NEW c \in Clients, Resume(c) PROVE Roles(r)'
  <2>2. ASSUME Proceed(c), tool[c].op \in Runs PROVE Roles(r)'
    <3>1. CASE \E left : Send(c, "step", 0, left)
      BY <2>2, <3>1, SendEffect, RolesStay DEF Runs, Roles
    <3>2. CASE \E how \in Finished : End(c, how)
      BY <2>2, <3>2, RolesEnd DEF Runs
    <3> QED BY <2>2, <3>1, <3>2 DEF Proceed, Finished
  <2>3. CASE RunAccepted(c)
    <3>1. CASE tool' = [tool EXCEPT ![c].pc = "waiting"]
      BY <2>3, <3>1, MoveEffect, RolesStay DEF RunAccepted, Runs, Keeps, Roles
    <3> QED BY <2>2, <2>3, <3>1 DEF RunAccepted
  <2>4. CASE ResetAccepted(c)
    BY <2>4, ResetEffect DEF Roles, Keeps, ResetAccepted
  <2>5. CASE BreakpointAccepted(c)
    <3>1. tool[c].op # "interrupt" /\ End(c, "returned")
      BY <2>5 DEF BreakpointAccepted, Roles
    <3>2. "returned" \in Finished
      BY DEF Finished
    <3> QED BY <3>1, <3>2, RolesEnd
  <2>6. CASE Refused(c)
    <3>1. tool[c].op # "interrupt" /\ End(c, "failed")
      BY <2>6 DEF Refused, Roles
    <3>2. "failed" \in Finished
      BY DEF Finished
    <3> QED BY <3>1, <3>2, RolesEnd
  <2>7. CASE Woken(c)
    BY <2>2, <2>7 DEF Woken, Roles
  <2>8. CASE Disconnected(c)
    <3> SUFFICES ASSUME NEW d \in Clients
                 PROVE  /\ tool'[d].op = "interrupt" => tool'[d].pc = "idle"
                        /\ d # r => tool'[d].op \notin Runs \cup {"reset_halt"}
                        /\ tool'[d].pc \in {"waiting", "woken"} => tool'[d].op \in Runs
                        /\ tool'[d].pc # "grace"
                        /\ tool'[d].pc = "closing" => tool'[d].op = "disconnect"
      BY DEF Roles
    <3>1. tool[c].op = "disconnect"
      BY <2>8 DEF Disconnected, Roles
    <3>2. CASE d = c
      BY <2>8, <3>1, <3>2, DisconnectedEffect DEF Keeps, Runs
    <3>3. CASE d # c
      BY <2>8, <3>3, DisconnectedEffect DEF Keeps, Roles
    <3> QED BY <3>2, <3>3
  <2> QED BY <1>3, <2>3, <2>4, <2>5, <2>6, <2>7, <2>8 DEF Resume
<1>4. CASE Loop
  <2>1. CASE ReadResult
    BY <2>1, AnsweredEffect DEF Roles, Sending
  <2>2. CASE ReaderEOF
    BY <2>2, RejectSendersEffect DEF ReaderEOF, Roles, Shape, ToolsOK
  <2>3. CASE ReadRunning \/ ReadStopped
    BY <2>3, <1>1 DEF ReadRunning, ReadStopped
  <2>4. CASE ProcessStop
    BY <2>4, SetStopEventEffect DEF ProcessStop, Roles, Shape, ToolsOK
  <2> QED BY <1>4, <2>1, <2>2, <2>3, <2>4 DEF Loop
<1>5. CASE Gdb
  BY <1>1, <1>5 DEF Gdb, GdbRuns, GdbResets, GdbInserts, GdbDeletes, GdbInterrupts, GdbRefuses, TargetStops, GdbDies
<1>6. CASE UNCHANGED vars
  BY <1>1, <1>6 DEF vars
<1> QED BY <1>2, <1>3, <1>4, <1>5, <1>6, NoTimer DEF Next

-----------------------------------------------------------------------------
(* The queues, place by place. *)

\* The reader takes the first record.
Taken ==
  /\ 1 \in DOMAIN outbox /\ Head(outbox) = outbox[1] /\ outbox[1] \in Records
  /\ \A i \in DOMAIN outbox : i \in Nat \ {0}
  /\ \A i \in DOMAIN outbox' : i \in Nat \ {0} /\ i + 1 \in DOMAIN outbox /\ outbox'[i] = outbox[i + 1]
  /\ \A i \in DOMAIN outbox : i # 1 => i - 1 \in DOMAIN outbox' /\ outbox'[i - 1] = outbox[i]

\* The records after one is taken, place by place.
LEMMA TakenEffect ==
  ASSUME Shape, NEW type, Received(type)
  PROVE  Taken /\ outbox[1].type = type
<1>1. outbox \in Seq(Records) /\ outbox # <<>> /\ outbox' = Tail(outbox)
  BY DEF Shape, OutboxOK, Received
<1>2. Taken
  BY <1>1, TailEffect DEF Taken
<1> QED BY <1>2 DEF Taken, Received

\* A record is added: at place n, at the end.
Added(n, record) ==
  /\ DOMAIN outbox' = DOMAIN outbox \cup {n} /\ n \notin DOMAIN outbox
  /\ \A i \in DOMAIN outbox : outbox'[i] = outbox[i] /\ i < n
  /\ outbox'[n] = record /\ n \in Nat

\* The records after one is added, place by place.
LEMMA AddedEffect ==
  ASSUME Shape, NEW record \in Records, outbox' = Append(outbox, record)
  PROVE  Added(Len(outbox) + 1, record)
<1>1. outbox \in Seq(Records)
  BY DEF Shape, OutboxOK
<1> QED BY <1>1, AppendEffect DEF Added

\* GDB reads the first command and answers it at place n; a run is reported after that.
Answers(n, class, bkpt) ==
  /\ gdb # "gone" /\ gdb' # "gone"
  /\ 1 \in DOMAIN inbox /\ Head(inbox) = inbox[1] /\ inbox[1] \in Items
  /\ \A i \in DOMAIN inbox : i \in Nat
  /\ \A i \in DOMAIN inbox' : i + 1 \in DOMAIN inbox /\ inbox'[i] = inbox[i + 1] /\ i + 1 # 1 /\ i \in Nat
  /\ n \in DOMAIN outbox' /\ n \notin DOMAIN outbox /\ n \in Nat
  /\ outbox'[n].type = "result" /\ outbox'[n].token = inbox[1].token
  /\ outbox'[n].class = class /\ outbox'[n].bkpt = bkpt
  /\ \A i \in DOMAIN outbox : i \in DOMAIN outbox' /\ outbox'[i] = outbox[i] /\ i < n
  /\ \A i \in DOMAIN outbox' : i \in DOMAIN outbox \/ i = n \/ outbox'[i].type = "running"
  /\ UNCHANGED <<connVars, sessionVars, tool, stops>>

\* GDB reads a command.
LEMMA ReadsEffect ==
  ASSUME Shape, NEW texts, Reads(texts)
  PROVE  /\ gdb # "gone" /\ inbox[1].text \in texts
         /\ 1 \in DOMAIN inbox /\ Head(inbox) = inbox[1] /\ inbox[1] \in Items
         /\ \A i \in DOMAIN inbox : i \in Nat
         /\ \A i \in DOMAIN inbox' : i + 1 \in DOMAIN inbox /\ inbox'[i] = inbox[i + 1] /\ i + 1 # 1 /\ i \in Nat
<1>1. inbox \in Seq(Items) /\ inbox # <<>> /\ inbox' = Tail(inbox)
  BY DEF Shape, InboxOK, Reads
<1>2. /\ 1 \in DOMAIN inbox /\ Head(inbox) = inbox[1]
      /\ \A i \in DOMAIN inbox' : i \in Nat \ {0} /\ i + 1 \in DOMAIN inbox /\ inbox'[i] = inbox[i + 1]
  BY <1>1, TailEffect
<1> QED BY <1>1, <1>2 DEF Reads

\* GDB's commands and records after it answered one, place by place.
LEMMA AnswersEffect ==
  ASSUME Shape, NEW texts, Reads(texts), NEW class \in {"done", "error"}, NEW bkpt \in Nat,
         outbox' = Append(outbox, Result(class, bkpt)), gdb' # "gone",
         UNCHANGED <<connVars, sessionVars, tool, stops>>
  PROVE  Answers(Len(outbox) + 1, class, bkpt)
<1>1. Result(class, bkpt) \in Records
  BY ReadsEffect DEF Result, Records, Results, Items
<1>2. PICK n : n = Len(outbox) + 1
  OBVIOUS
<1>3. Added(n, Result(class, bkpt))
  BY <1>1, <1>2, AddedEffect
<1> QED BY <1>2, <1>3, ReadsEffect DEF Added, Answers, Result

\* Running the target answers its command.
LEMMA RunsAnswers ==
  ASSUME Shape, GdbRuns
  PROVE  Answers(Len(outbox) + 1, "done", 0)
<1> DEFINE one == Result("done", 0)
           two == [type |-> "running"]
<1>0. Reads(Runs) /\ gdb' # "gone" /\ UNCHANGED <<connVars, sessionVars, tool, stops>>
  BY DEF GdbRuns
<1>1. one \in Records /\ two \in Records /\ two.type = "running"
  BY <1>0, ReadsEffect DEF Result, Records, Results, Items
<1>2. outbox' = outbox \o <<one, two>> /\ outbox \in Seq(Records)
  BY DEF GdbRuns, Shape, OutboxOK
<1>3. one.type = "result" /\ one.token = Head(inbox).token /\ one.class = "done" /\ one.bkpt = 0
  BY DEF Result
<1> HIDE DEF one, two
<1>4. PICK n : n = Len(outbox) + 1
  OBVIOUS
<1>5. /\ n \in Nat /\ n \notin DOMAIN outbox /\ DOMAIN outbox' = DOMAIN outbox \cup {n, n + 1}
      /\ \A i \in DOMAIN outbox : outbox'[i] = outbox[i] /\ i < n
      /\ outbox'[n] = one /\ outbox'[n + 1] = two
  BY <1>1, <1>2, <1>4
<1> QED BY <1>0, <1>1, <1>3, <1>4, <1>5, ReadsEffect DEF Answers

\* The target stops: a record of it is added.
LEMMA StopsEffect ==
  ASSUME Shape, NEW id \in {0} \cup DOMAIN table, TargetStops(id)
  PROVE  /\ Added(Len(outbox) + 1, [type |-> "stopped", stop |-> stops + 1, bkpt |-> id])
         /\ id \in Nat /\ stops \in Nat
<1> DEFINE record == [type |-> "stopped", stop |-> stops + 1, bkpt |-> id]
<1>1. id \in Nat /\ stops + 1 \in 1..MaxStops /\ stops \in Nat
  BY SessionAssumption DEF TargetStops, Shape, ScalarsOK, IsTable
<1>2. record \in Records
  BY <1>1 DEF Records, StopRecords
<1>3. outbox' = Append(outbox, record)
  BY DEF TargetStops
<1> HIDE DEF record
<1>4. Added(Len(outbox) + 1, record)
  BY <1>2, <1>3, AddedEffect
<1> QED BY <1>1, <1>4 DEF record

-----------------------------------------------------------------------------
(* Every command and every answer on its way belongs to the call that waits for it. *)

\* A call that waits for an answer still does.
KeepsSending(d) == Sending(d) => Sending(d)' /\ Keeps(d)

\* Nothing on its way changes, and every waiting call goes on waiting.
LEMMA OwnedStays ==
  ASSUME Owned, UNCHANGED <<inbox, outbox, gdb>>, \A d \in Clients : KeepsSending(d)
  PROVE  Owned'
BY DEF Owned, KeepsSending, Keeps, IsResult

\* One call that is not waiting for an answer changes.
LEMMA OwnedBy ==
  ASSUME Owned, UNCHANGED <<inbox, outbox, gdb>>, NEW c \in Clients, ~Sending(c), Untouched(c)
  PROVE  Owned'
BY OwnedStays DEF KeepsSending, Keeps, Untouched, Sending

\* A new command belongs to the call that sent it.
LEMMA OwnedSends ==
  ASSUME Shape, Owned, NEW c \in Clients, ~Sending(c), NEW op, NEW arg, NEW left, Send(c, op, arg, left),
         op \in Commands, arg \in Nat, UNCHANGED <<outbox, gdb>>
  PROVE  Owned'
<1> DEFINE item == [token |-> next_token, text |-> op, arg |-> arg]
<1>1. inbox \in Seq(Items) /\ inbox' = Append(inbox, item) /\ next_token \in Nat
  BY DEF Shape, InboxOK, ScalarsOK, Send
<1>2. item \in Items
  BY <1>1 DEF Items
<1>3. item.token = next_token /\ item.text = op /\ item.arg = arg
  OBVIOUS
<1> HIDE DEF item
<1>4. PICK n : n = Len(inbox) + 1
  OBVIOUS
<1>5. /\ DOMAIN inbox' = DOMAIN inbox \cup {n} /\ n \notin DOMAIN inbox /\ inbox'[n] = item
      /\ \A i \in DOMAIN inbox : inbox'[i] = inbox[i]
  BY <1>1, <1>2, <1>4, AppendEffect
<1>6. /\ \A i \in DOMAIN inbox : inbox[i].token < next_token /\ inbox[i] \in Items
      /\ \A i \in DOMAIN outbox : IsResult(i) => outbox[i].token < next_token
  BY <1>1 DEF Shape, InboxOK, OutboxOK, IsResult
<1>7. /\ \A i \in DOMAIN inbox : inbox[i].token # next_token
      /\ \A i \in DOMAIN outbox : IsResult(i) => outbox[i].token # next_token
  BY <1>1, <1>6
<1>8. /\ Sending(c)' /\ tool'[c].token = next_token /\ tool'[c].op = op /\ tool'[c].arg = arg
      /\ \A d \in Clients : Sending(d) => Sending(d)' /\ Keeps(d)
  BY SendEffect DEF Sending, Untouched, Keeps
<1>9. \A i \in DOMAIN outbox : IsResult(i)' = IsResult(i)
  BY DEF IsResult
<1>10. gdb # "gone" =>
         \A i \in DOMAIN inbox' :
           \E d \in Clients : Sending(d)' /\ tool'[d].token = inbox'[i].token
                              /\ tool'[d].op = inbox'[i].text /\ tool'[d].arg = inbox'[i].arg
  <2> SUFFICES ASSUME gdb # "gone", NEW i \in DOMAIN inbox'
               PROVE  \E d \in Clients : Sending(d)' /\ tool'[d].token = inbox'[i].token
                              /\ tool'[d].op = inbox'[i].text /\ tool'[d].arg = inbox'[i].arg
    OBVIOUS
  <2>1. CASE i = n
    BY <1>3, <1>5, <1>8, <2>1
  <2>2. CASE i \in DOMAIN inbox
    <3>1. PICK d \in Clients : Sending(d) /\ tool[d].token = inbox[i].token
                              /\ tool[d].op = inbox[i].text /\ tool[d].arg = inbox[i].arg
      BY <2>2 DEF Owned
    <3> QED BY <1>5, <1>8, <2>2, <3>1 DEF Keeps
  <2> QED BY <1>5, <2>1, <2>2
<1>11. \A i \in DOMAIN outbox' : IsResult(i)' => \E d \in Clients : Sending(d)' /\ tool'[d].token = outbox'[i].token
  BY <1>8, <1>9 DEF Owned, Keeps
<1>12. \A i, j \in DOMAIN inbox' : i # j => inbox'[i].token # inbox'[j].token
  BY <1>3, <1>5, <1>7 DEF Owned
<1>13. \A i, j \in DOMAIN outbox' : i # j /\ IsResult(i)' /\ IsResult(j)' => outbox'[i].token # outbox'[j].token
  BY <1>9 DEF Owned
<1>14. \A i \in DOMAIN inbox' : \A j \in DOMAIN outbox' : IsResult(j)' => inbox'[i].token # outbox'[j].token
  BY <1>3, <1>5, <1>7, <1>9 DEF Owned
<1> QED BY <1>10, <1>11, <1>12, <1>13, <1>14 DEF Owned

\* The reader takes a record, and whoever waits for another answer goes on waiting.
LEMMA OwnedTaken ==
  ASSUME Owned, Taken, UNCHANGED <<inbox, gdb>>,
         \A d \in Clients : KeepsSending(d) \/ (IsResult(1) /\ tool[d].token = outbox[1].token)
  PROVE  Owned'
<1>1. \A i \in DOMAIN outbox' : IsResult(i)' => i + 1 \in DOMAIN outbox /\ IsResult(i + 1) /\ i + 1 # 1 /\ outbox'[i] = outbox[i + 1]
  BY DEF Taken, IsResult
<1>2. ASSUME gdb # "gone", NEW i \in DOMAIN inbox
      PROVE  \E c \in Clients : Sending(c)' /\ tool'[c].token = inbox[i].token
                                /\ tool'[c].op = inbox[i].text /\ tool'[c].arg = inbox[i].arg
  <2>1. PICK c \in Clients : Sending(c) /\ tool[c].token = inbox[i].token
                             /\ tool[c].op = inbox[i].text /\ tool[c].arg = inbox[i].arg
    BY <1>2 DEF Owned
  <2>2. IsResult(1) => inbox[i].token # outbox[1].token
    BY DEF Owned, Taken
  <2> QED BY <2>1, <2>2 DEF KeepsSending, Keeps
<1>3. ASSUME NEW i \in DOMAIN outbox', IsResult(i)'
      PROVE  \E c \in Clients : Sending(c)' /\ tool'[c].token = outbox'[i].token
  <2>1. PICK c \in Clients : Sending(c) /\ tool[c].token = outbox[i + 1].token
    BY <1>1, <1>3 DEF Owned
  <2>2. IsResult(1) => outbox[i + 1].token # outbox[1].token
    BY <1>1, <1>3 DEF Owned, Taken
  <2> QED BY <1>1, <1>3, <2>1, <2>2 DEF KeepsSending, Keeps
<1>4. \A i, j \in DOMAIN outbox' : i # j /\ IsResult(i)' /\ IsResult(j)' => outbox'[i].token # outbox'[j].token
  <2> SUFFICES ASSUME NEW i \in DOMAIN outbox', NEW j \in DOMAIN outbox', i # j, IsResult(i)', IsResult(j)'
               PROVE  outbox'[i].token # outbox'[j].token
    OBVIOUS
  <2>1. i + 1 # j + 1
    BY DEF Taken
  <2> QED BY <1>1, <2>1 DEF Owned
<1>5. \A i \in DOMAIN inbox' : \A j \in DOMAIN outbox' : IsResult(j)' => inbox'[i].token # outbox'[j].token
  BY <1>1 DEF Owned
<1> QED BY <1>2, <1>3, <1>4, <1>5 DEF Owned

\* GDB answers.
LEMMA OwnedAnswers ==
  ASSUME Owned, NEW n, NEW class, NEW bkpt, Answers(n, class, bkpt)
  PROVE  Owned'
<1> USE DEF Answers
<1>1. \A d \in Clients : tool'[d] = tool[d] /\ (Sending(d)' <=> Sending(d))
  BY DEF Sending
<1>2. \A i \in DOMAIN outbox' : IsResult(i)' => i = n \/ (i \in DOMAIN outbox /\ IsResult(i) /\ outbox'[i] = outbox[i])
  <2> SUFFICES ASSUME NEW i \in DOMAIN outbox', IsResult(i)', i # n
               PROVE  i \in DOMAIN outbox /\ IsResult(i) /\ outbox'[i] = outbox[i]
    BY DEF IsResult
  <2>1. i \in DOMAIN outbox
    BY DEF IsResult
  <2> QED BY <2>1 DEF IsResult
<1>3. PICK o \in Clients : Sending(o) /\ tool[o].token = inbox[1].token
  BY DEF Owned
<1>4. \A i \in DOMAIN outbox' : IsResult(i)' => \E c \in Clients : Sending(c)' /\ tool'[c].token = outbox'[i].token
  BY <1>1, <1>2, <1>3 DEF Owned
<1>5. \A i \in DOMAIN inbox' :
        \E c \in Clients : Sending(c)' /\ tool'[c].token = inbox'[i].token
                           /\ tool'[c].op = inbox'[i].text /\ tool'[c].arg = inbox'[i].arg
  BY <1>1 DEF Owned
<1>6. \A i, j \in DOMAIN inbox' : i # j => inbox'[i].token # inbox'[j].token
  <2> SUFFICES ASSUME NEW i \in DOMAIN inbox', NEW j \in DOMAIN inbox', i # j PROVE inbox'[i].token # inbox'[j].token
    OBVIOUS
  <2>1. i + 1 # j + 1
    OBVIOUS
  <2> QED BY <2>1 DEF Owned
<1>7. \A i \in DOMAIN outbox : IsResult(i) => inbox[1].token # outbox[i].token
  BY DEF Owned
<1>8. \A i, j \in DOMAIN outbox' : i # j /\ IsResult(i)' /\ IsResult(j)' => outbox'[i].token # outbox'[j].token
  BY <1>2, <1>7 DEF Owned
<1>9. \A i \in DOMAIN inbox' : inbox'[i].token # inbox[1].token
  BY DEF Owned
<1>10. \A i \in DOMAIN inbox' : \A j \in DOMAIN outbox' : IsResult(j)' => inbox'[i].token # outbox'[j].token
  BY <1>2, <1>9 DEF Owned
<1> QED BY <1>4, <1>5, <1>6, <1>8, <1>10 DEF Owned

\* What GDB does without interrupts: it answers a command, or the target stops, or it dies.
LEMMA GdbCases ==
  ASSUME Shape, NEW r, Roles(r), Owned, Gdb
  PROVE  \/ GdbRuns
         \/ \E class, bkpt : /\ Answers(Len(outbox) + 1, class, bkpt) /\ UNCHANGED gdb
                             /\ class = "error" \/ inbox[1].text \notin Runs
         \/ \E id \in {0} \cup DOMAIN table : TargetStops(id)
         \/ GdbDies
<1>1. ASSUME NEW texts, Reads(texts), "interrupt" \in texts => texts = {"interrupt"} \/ texts = Commands \cup {"interrupt"}
      PROVE  inbox[1].text # "interrupt"
  <2>1. PICK c \in Clients : Sending(c) /\ tool[c].op = inbox[1].text
    BY <1>1, ReadsEffect DEF Owned
  <2> QED BY <2>1 DEF Roles, Sending
<1>2. ASSUME NEW texts, Reads(texts), texts \cap Runs = {}, NEW bkpt \in Nat, UNCHANGED gdb,
             outbox' = Append(outbox, Result("done", bkpt)), UNCHANGED <<connVars, sessionVars, tool, stops>>
      PROVE  \E class, b : /\ Answers(Len(outbox) + 1, class, b) /\ UNCHANGED gdb
                           /\ class = "error" \/ inbox[1].text \notin Runs
  <2>1. Answers(Len(outbox) + 1, "done", bkpt) /\ inbox[1].text \notin Runs
    BY <1>2, ReadsEffect, AnswersEffect
  <2> QED BY <1>2, <2>1
<1>3. CASE GdbResets
  <2>1. /\ Reads({"reset_halt", "reset_run"}) /\ outbox' = Append(outbox, Result("done", 0)) /\ UNCHANGED gdb
        /\ UNCHANGED <<connVars, sessionVars, tool, stops>>
    BY <1>3 DEF GdbResets
  <2> QED BY <1>2, <2>1 DEF Runs
<1>4. CASE GdbInserts
  <2> DEFINE id == Head(inbox).token
  <2>1. /\ Reads({"break", "tbreak"}) /\ outbox' = Append(outbox, Result("done", id))
        /\ UNCHANGED <<connVars, sessionVars, tool, stops, gdb>>
    BY <1>4 DEF GdbInserts
  <2>2. id \in Nat
    BY <2>1, ReadsEffect DEF Items
  <2> HIDE DEF id
  <2> QED BY <1>2, <2>1, <2>2 DEF Runs
<1>5. CASE GdbDeletes
  <2>1. /\ Reads({"delete"}) /\ outbox' = Append(outbox, Result("done", 0))
        /\ UNCHANGED <<connVars, sessionVars, tool, stops, gdb>>
    BY <1>5 DEF GdbDeletes
  <2> QED BY <1>2, <2>1 DEF Runs
<1>6. CASE GdbRefuses
  <2>1. /\ Reads(Commands \cup {"interrupt"}) /\ outbox' = Append(outbox, Result("error", 0))
        /\ UNCHANGED <<connVars, sessionVars, tool, targetVars>>
    BY <1>6 DEF GdbRefuses
  <2>2. gdb' # "gone" /\ UNCHANGED <<gdb, stops>>
    BY <2>1, ReadsEffect DEF targetVars
  <2>3. Answers(Len(outbox) + 1, "error", 0)
    BY <2>1, <2>2, AnswersEffect
  <2> QED BY <2>2, <2>3
<1>7. ~GdbInterrupts
  BY <1>1, ReadsEffect DEF GdbInterrupts
<1> QED BY <1>3, <1>4, <1>5, <1>6, <1>7 DEF Gdb

\* Every step keeps commands and answers with their calls.
LEMMA StepOwned ==
  ASSUME NEW r \in Clients, RunsAlone(r), Shape, Pending, Follows, Roles(r), Owned, [Next]_vars
  PROVE  Owned'
<1>1. CASE UNCHANGED vars
  BY <1>1 DEF vars, targetVars, Owned, Sending, IsResult
<1>2. ASSUME NEW c \in Clients, Begin(c) PROVE Owned'
  <2>0. ~Sending(c) \/ Disconnect(c)
    BY <1>2, NoTimer DEF Begin, Run, Command, Idle, Finished, Sending
  <2>1. ASSUME NEW op \in Commands, NEW arg \in Nat, NEW left, Send(c, op, arg, left), Idle(c, op),
               UNCHANGED <<outbox, targetVars>>
        PROVE  Owned'
    BY <2>1, OwnedSends DEF Idle, Finished, Sending, targetVars
  <2>2. CASE Disconnect(c)
    <3>1. ~Sending(c) /\ Untouched(c) /\ UNCHANGED <<inbox, outbox, gdb>>
      BY <2>2, OpensEffect DEF Disconnect, Idle, Finished, Sending, targetVars
    <3> QED BY <3>1, OwnedBy
  <2>3. CASE Run(c, "continue", 1) \/ \E count \in 1..2 : Run(c, "step", count)
    BY <2>1, <2>3 DEF Run, Commands, Runs
  <2>4. CASE \E op \in {"reset_halt", "reset_run", "break", "tbreak"} : Command(c, op, 0)
    BY <2>1, <2>4 DEF Command, Commands
  <2>5. CASE \E id \in DOMAIN breakpoints : Command(c, "delete", id)
    <3>1. PICK id \in DOMAIN breakpoints : Command(c, "delete", id)
      BY <2>5
    <3>2. id \in Nat /\ "delete" \in Commands
      BY DEF Shape, IsTable, Commands
    <3> QED BY <2>1, <3>1, <3>2 DEF Command
  <2> QED BY <1>2, <2>2, <2>3, <2>4, <2>5, NoTimer DEF Begin
<1>3. ASSUME NEW c \in Clients, Resume(c) PROVE Owned'
  <2>1. CASE Disconnected(c)
    BY <2>1, DisconnectedEffect DEF Disconnected, Owned
  <2>2. ~Sending(c)
    BY <1>3 DEF Resume, RunAccepted, ResetAccepted, BreakpointAccepted, Refused, Woken, Disconnected, Sending
  <2>3. ASSUME NEW how, End(c, how) \/ tool' = [tool EXCEPT ![c].pc = how], UNCHANGED <<inbox, outbox, gdb>>
        PROVE  Owned'
    BY <2>2, <2>3, EndEffect, MoveEffect, OwnedBy
  <2>4. ASSUME Proceed(c), UNCHANGED <<outbox, gdb>> PROVE Owned'
    <3>1. ASSUME NEW left, Send(c, "step", 0, left) PROVE Owned'
      BY <2>2, <2>4, <3>1, OwnedSends DEF Commands, Runs
    <3>2. ASSUME NEW how, End(c, how), UNCHANGED inbox PROVE Owned'
      BY <2>3, <2>4, <3>2
    <3> QED BY <2>4, <3>1, <3>2 DEF Proceed
  <2>5. CASE RunAccepted(c)
    BY <2>3, <2>4, <2>5 DEF RunAccepted, targetVars
  <2>6. CASE Woken(c)
    BY <2>4, <2>6 DEF Woken, targetVars
  <2>7. CASE BreakpointAccepted(c)
    BY <2>3, <2>7 DEF BreakpointAccepted, targetVars
  <2>8. CASE Refused(c)
    BY <2>3, <2>8 DEF Refused, targetVars
  <2>9. CASE ResetAccepted(c)
    <3>1. UNCHANGED <<inbox, outbox, gdb>>
      BY <2>9 DEF ResetAccepted, targetVars
    <3>2. \A d \in Clients : KeepsSending(d)
      BY <2>2, <2>9, ResetEffect DEF KeepsSending, Sending
    <3> QED BY <3>1, <3>2, OwnedStays
  <2> QED BY <1>3, <2>1, <2>5, <2>6, <2>7, <2>8, <2>9 DEF Resume
<1>4. CASE Loop
  <2>1. CASE ReadResult
    <3>1. Taken /\ outbox[1].type = "result" /\ UNCHANGED <<inbox, gdb>>
      BY <2>1, TakenEffect, ReadResultEffect DEF targetVars
    <3>2. Settles = outbox[1].token
      <4>1. PICK c \in Clients : Sending(c) /\ tool[c].token = outbox[1].token
        BY <3>1 DEF Owned, Taken, IsResult
      <4>2. Contains(pending_order, outbox[1].token)
        BY <4>1 DEF Pending, Contains
      <4> QED BY <3>1, <4>2 DEF Settles, Taken
    <3>3. \A d \in Clients : KeepsSending(d) \/ (IsResult(1) /\ tool[d].token = outbox[1].token)
      <4> SUFFICES ASSUME NEW d \in Clients, tool[d].token # outbox[1].token PROVE KeepsSending(d)
        BY <3>1 DEF IsResult
      <4>1. tool'[d] = tool[d]
        BY <2>1, <3>2, AnsweredEffect
      <4> QED BY <4>1 DEF KeepsSending, Keeps, Sending
    <3> QED BY <3>1, <3>3, OwnedTaken
  <2>2. CASE ReaderEOF
    <3>1. gdb' = "gone" /\ outbox' = <<>> /\ UNCHANGED inbox
      BY <2>2 DEF ReaderEOF, targetVars
    <3> QED BY <3>1 DEF Owned
  <2>3. CASE ReadRunning \/ ReadStopped
    <3>1. Taken /\ UNCHANGED <<inbox, gdb, tool>>
      BY <2>3, TakenEffect DEF ReadRunning, ReadStopped, targetVars
    <3>2. \A d \in Clients : KeepsSending(d) \/ (IsResult(1) /\ tool[d].token = outbox[1].token)
      BY <3>1 DEF KeepsSending, Sending, Keeps
    <3> QED BY <3>1, <3>2, OwnedTaken
  <2>4. CASE ProcessStop
    <3>1. SetStopEvent(tool) /\ tool \in [Clients -> Tool] /\ UNCHANGED <<inbox, outbox, gdb>>
      BY <2>4 DEF ProcessStop, Shape, ToolsOK, targetVars
    <3>2. \A d \in Clients : KeepsSending(d)
      BY <3>1, SetStopEventEffect DEF KeepsSending, Sending, Keeps
    <3> QED BY <3>1, <3>2, OwnedStays
  <2> QED BY <1>4, <2>1, <2>2, <2>3, <2>4 DEF Loop
<1>5. CASE Gdb
  <2>1. CASE GdbRuns \/ \E class, bkpt : Answers(Len(outbox) + 1, class, bkpt)
    BY <2>1, RunsAnswers, OwnedAnswers
  <2>2. CASE \E id \in {0} \cup DOMAIN table : TargetStops(id)
    <3>1. PICK id \in {0} \cup DOMAIN table : TargetStops(id)
      BY <2>2
    <3>2. UNCHANGED <<tool, inbox>> /\ gdb # "gone"
      BY <3>1 DEF TargetStops
    <3>4. PICK n : n = Len(outbox) + 1
      OBVIOUS
    <3>5. Added(n, [type |-> "stopped", stop |-> stops + 1, bkpt |-> id])
      BY <3>1, <3>4, StopsEffect
    <3>6. /\ \A i \in DOMAIN outbox' : IsResult(i)' => i \in DOMAIN outbox /\ IsResult(i) /\ outbox'[i] = outbox[i]
          /\ \A d \in Clients : Sending(d)' <=> Sending(d)
      BY <3>2, <3>5 DEF Added, IsResult, Sending
    <3> QED BY <3>2, <3>6 DEF Owned
  <2>3. CASE GdbDies
    BY <2>3 DEF GdbDies, Owned, IsResult, Sending
  <2> QED BY <1>5, <2>1, <2>2, <2>3, GdbCases
<1> QED BY <1>1, <1>2, <1>3, <1>4, <1>5, NoTimer DEF Next

-----------------------------------------------------------------------------
(* There is at most one stop on its way to the session, and none while the target runs. *)

\* A command that GDB has not read has no answer.
LEMMA UnreadNotExecuted ==
  ASSUME Owned, NEW c, Sending(c), 1 \in DOMAIN inbox, tool[c].token = inbox[1].token
  PROVE  ~Executed(c)
BY DEF Owned, Executed, Accepts, Sending

\* Only r runs the target, and only when nothing is on its way.
LEMMA RunsFromSettled ==
  ASSUME NEW r \in Clients, Shape, Roles(r), Owned, Phase(r), GdbRuns
  PROVE  /\ Sending(r) /\ tool[r].token = inbox[1].token /\ InRun(r)
         /\ Settled /\ ~Executed(r)
<1>1. gdb # "gone" /\ inbox[1].text \in Runs /\ 1 \in DOMAIN inbox
  BY ReadsEffect DEF GdbRuns
<1>2. PICK c \in Clients : Sending(c) /\ tool[c].token = inbox[1].token /\ tool[c].op = inbox[1].text
  BY <1>1 DEF Owned
<1>3. c = r
  BY <1>1, <1>2 DEF Roles
<1>4. ~Executed(r)
  BY <1>1, <1>2, <1>3, UnreadNotExecuted
<1> QED BY <1>1, <1>2, <1>3, <1>4 DEF Phase, Out, InRun

\* Every step keeps at most one stop on its way: the target runs again only when r has
\* seen the one before.
LEMMA StepOneStop ==
  ASSUME NEW r \in Clients, RunsAlone(r), Shape, Roles(r), Owned, OneStop, Phase(r), [Next]_vars
  PROVE  OneStop'
<1>0. events \in Seq(Events)
  BY DEF Shape
<1>1. CASE UNCHANGED <<outbox, events, gdb>>
  BY <1>1 DEF OneStop, StopUnseen, IsStop
<1>2. ASSUME NEW c \in Clients, Begin(c) PROVE OneStop'
  BY <1>1, <1>2, NoTimer DEF Begin, Run, Command, Disconnect, sessionVars, targetVars
<1>3. ASSUME NEW c \in Clients, Resume(c) PROVE OneStop'
  <2>1. CASE Disconnected(c)
    BY <2>1 DEF Disconnected, OneStop, StopUnseen
  <2> QED BY <1>1, <1>3, <2>1
          DEF Resume, RunAccepted, ResetAccepted, BreakpointAccepted, Refused, Woken, sessionVars, targetVars
<1>4. CASE Loop
  <2>1. CASE ReadResult \/ ReadRunning
    <3>1. Taken /\ outbox[1].type # "stopped" /\ UNCHANGED <<events, gdb>>
      BY <2>1, TakenEffect, ReadResultEffect DEF ReadRunning, sessionVars, targetVars
    <3>2. \A i \in DOMAIN outbox' : IsStop(i)' => i + 1 \in DOMAIN outbox /\ IsStop(i + 1) /\ i \in Nat
      BY <3>1 DEF Taken, IsStop
    <3>3. \A i, j \in DOMAIN outbox' : IsStop(i)' /\ IsStop(j)' => i = j
      <4> SUFFICES ASSUME NEW i \in DOMAIN outbox', NEW j \in DOMAIN outbox', IsStop(i)', IsStop(j)'
                   PROVE  i = j
        OBVIOUS
      <4>1. i + 1 = j + 1
        BY <3>2 DEF OneStop
      <4> QED BY <3>2, <4>1
    <3> QED BY <3>1, <3>2, <3>3 DEF OneStop, StopUnseen
  <2>2. CASE ReadStopped
    <3>1. Taken /\ IsStop(1) /\ UNCHANGED gdb
      BY <2>2, TakenEffect DEF ReadStopped, targetVars, IsStop
    <3>2. events = <<>> /\ gdb # "running"
      BY <3>1 DEF OneStop, StopUnseen, Taken
    <3>3. \A i \in DOMAIN outbox' : ~IsStop(i)'
      <4> SUFFICES ASSUME NEW i \in DOMAIN outbox', IsStop(i)' PROVE FALSE
        OBVIOUS
      <4>1. i + 1 \in DOMAIN outbox /\ IsStop(i + 1) /\ i + 1 # 1
        BY <3>1 DEF Taken, IsStop
      <4> QED BY <3>1, <4>1 DEF OneStop, Taken
    <3>4. Len(events') = 1
      BY <2>2, <3>2 DEF ReadStopped
    <3> QED BY <3>1, <3>2, <3>3, <3>4 DEF OneStop, StopUnseen
  <2>3. CASE ReaderEOF
    BY <1>1, <2>3 DEF ReaderEOF, sessionVars, targetVars
  <2>4. CASE ProcessStop
    <3>1. events # <<>> /\ events' = Tail(events) /\ UNCHANGED <<outbox, gdb>>
      BY <2>4 DEF ProcessStop, targetVars
    <3>2. Len(events) = 1 /\ events' = <<>>
      <4>1. Len(events) <= 1 /\ Len(events') = Len(events) - 1 /\ events' \in Seq(Events)
        BY <1>0, <3>1, TailEffect DEF OneStop
      <4>2. Len(events') = 0 /\ Len(events) = 1
        BY <1>0, <4>1
      <4> QED BY <4>1, <4>2, EmptySeq
    <3> QED BY <3>1, <3>2 DEF OneStop, StopUnseen, IsStop
  <2> QED BY <1>4, <2>1, <2>2, <2>3, <2>4 DEF Loop
<1>5. CASE Gdb
  <2>1. ASSUME NEW n, NEW class, NEW bkpt, Answers(n, class, bkpt), UNCHANGED gdb \/ Settled
        PROVE  OneStop'
    <3>1. \A i \in DOMAIN outbox' : IsStop(i)' => i \in DOMAIN outbox /\ IsStop(i)
      <4> SUFFICES ASSUME NEW i \in DOMAIN outbox', IsStop(i)' PROVE i \in DOMAIN outbox /\ IsStop(i)
        OBVIOUS
      <4>1. i \in DOMAIN outbox
        BY <2>1 DEF Answers, IsStop
      <4> QED BY <2>1, <4>1 DEF Answers, IsStop
    <3>2. UNCHANGED events
      BY <2>1 DEF Answers, sessionVars
    <3> QED BY <2>1, <3>1, <3>2 DEF OneStop, StopUnseen, Settled
  <2>2. CASE GdbRuns
    BY <2>1, <2>2, RunsAnswers, RunsFromSettled
  <2>3. CASE \E class, bkpt : Answers(Len(outbox) + 1, class, bkpt) /\ UNCHANGED gdb
    BY <2>1, <2>3
  <2>4. CASE \E id \in {0} \cup DOMAIN table : TargetStops(id)
    <3>1. gdb = "running" /\ gdb' = "halted" /\ UNCHANGED events
      BY <2>4 DEF TargetStops, sessionVars
    <3>2. events = <<>> /\ \A i \in DOMAIN outbox : ~IsStop(i)
      BY <3>1 DEF OneStop, StopUnseen
    <3>3. PICK n : \A i \in DOMAIN outbox' : i = n \/ (i \in DOMAIN outbox /\ outbox'[i] = outbox[i])
      BY <2>4, StopsEffect DEF Added
    <3> QED BY <3>1, <3>2, <3>3 DEF OneStop, StopUnseen, IsStop
  <2>5. CASE GdbDies
    BY <2>5 DEF GdbDies, OneStop, StopUnseen, IsStop, sessionVars
  <2> QED BY <1>5, <2>2, <2>3, <2>4, <2>5, GdbCases
<1>6. CASE UNCHANGED vars
  BY <1>1, <1>6 DEF vars, sessionVars, targetVars
<1> QED BY <1>2, <1>3, <1>4, <1>5, <1>6, NoTimer DEF Next

-----------------------------------------------------------------------------
(* A run of the target and its stop. *)

\* Nothing that matters to a run changes.
LEMMA PhaseStays ==
  ASSUME NEW r, Phase(r), tool'[r] = tool[r], UNCHANGED <<stop_event, last_stop, events, outbox, gdb, stops>>
  PROVE  Phase(r)'
BY DEF Phase, Out, InRun, Executed, Sending, Settled, StopUnseen, IsStop, Accepts, IsResult

\* Nothing is on its way.
LEMMA PhaseSettled ==
  ASSUME NEW r, Settled', ~(InRun(r) /\ Executed(r))', tool'[r].mark <= stops',
         InRun(r)' /\ Sending(r)' => ~stop_event',
         tool'[r].pc = "woken" => stop_event',
         InRun(r)' /\ tool'[r].pc = "returned" => tool'[r].got > tool'[r].mark
  PROVE  Phase(r)'
<1>1. ~Out(r)'
  BY DEF Out
<1>2. events' = <<>> /\ \A i \in DOMAIN outbox' : ~IsStop(i)'
  BY DEF Settled, StopUnseen
<1>3. InRun(r)' => tool'[r].pc \notin {"accepted", "waiting", "woken"}
  BY DEF Executed
<1> QED BY <1>1, <1>2, <1>3 DEF Phase, Sending, InRun

\* A call of r begins from rest, and nothing accepts it before it is sent.
LEMMA PhaseBegins ==
  ASSUME NEW r \in Clients, Shape, Settled, UNCHANGED <<events, outbox, gdb, stops>>,
         NEW op, NEW arg, NEW left, Send(r, op, arg, left), op \in Runs => ~stop_event'
  PROVE  Phase(r)'
<1>1. /\ tool'[r].op = op /\ tool'[r].pc = "sending" /\ tool'[r].token = next_token
      /\ tool'[r].mark = stops
  BY SendEffect
<1>2. \A i \in DOMAIN outbox : IsResult(i) => outbox[i].token # next_token
  <2>1. next_token \in Nat /\ \A i \in DOMAIN outbox : outbox[i] \in Records
    BY DEF Shape, OutboxOK, ScalarsOK
  <2>2. \A i \in DOMAIN outbox : IsResult(i) => outbox[i] \in Results
    BY <2>1 DEF IsResult, Records, Results, StopRecords
  <2> QED BY <2>1, <2>2 DEF Shape, OutboxOK, IsResult, Results
<1>3. ~Executed(r)'
  BY <1>1, <1>2 DEF Executed, Accepts, IsResult
<1>4. Settled' /\ tool'[r].mark <= stops'
  BY <1>1 DEF Settled, StopUnseen, IsStop, Shape, ScalarsOK
<1> QED BY <1>1, <1>3, <1>4, PhaseSettled DEF InRun, Sending

\* The calls of the others do not touch a run of r.
LEMMA OthersLeave ==
  ASSUME NEW r \in Clients, RunsAlone(r), Shape, Roles(r), NEW c \in Clients, c # r,
         Begin(c) \/ Resume(c), ~Disconnected(c)
  PROVE  tool'[r] = tool[r] /\ UNCHANGED <<stop_event, last_stop, events, outbox, gdb, stops>>
<1>1. ASSUME NEW op, NEW arg, NEW left, Send(c, op, arg, left) PROVE tool'[r] = tool[r]
  BY <1>1, SendEffect DEF Untouched
<1>2. ASSUME NEW how, End(c, how) PROVE tool'[r] = tool[r]
  BY <1>2, EndEffect DEF Untouched
<1>3. tool[c].op \notin Runs \cup {"reset_halt"}
  BY DEF Roles
<1>4. CASE Begin(c)
  <2>1. ~Run(c, "continue", 1) /\ ~ \E count \in 1..2 : Run(c, "step", count)
    BY DEF Run, Idle, RunsAlone, Runs
  <2>2. ~Command(c, "reset_halt", 0) 
    BY DEF Command, Idle, RunsAlone
  <2>3. CASE Disconnect(c)
    BY <2>3, OpensEffect DEF Disconnect, Untouched, targetVars
  <2> QED BY <1>1, <1>4, <2>1, <2>3, NoTimer DEF Begin, Command, sessionVars, targetVars
<1>5. CASE ResetAccepted(c)
  BY <1>3, <1>5, ResetEffect DEF ResetAccepted, targetVars
<1>6. CASE BreakpointAccepted(c)
  BY <1>2, <1>6 DEF BreakpointAccepted, targetVars
<1>7. CASE Refused(c)
  BY <1>2, <1>7 DEF Refused, sessionVars, targetVars
<1>8. ~RunAccepted(c) /\ ~Woken(c)
  BY <1>3 DEF RunAccepted, Woken, Roles
<1> QED BY <1>4, <1>5, <1>6, <1>7, <1>8 DEF Resume

\* A call of r begins.
LEMMA BeginPhase ==
  ASSUME NEW r \in Clients, RunsAlone(r), Shape, Roles(r), Phase(r), Begin(r)
  PROVE  Phase(r)'
<1>1. tool[r].pc \in Finished
  BY NoTimer DEF Begin, Run, Command, Disconnect, Idle
<1>2. Settled
  BY <1>1 DEF Finished, Phase, Out, Executed, Sending
<1>3. ASSUME NEW op, NEW count, Run(r, op, count) PROVE Phase(r)'
  BY <1>2, <1>3, PhaseBegins DEF Run, targetVars
<1>4. ASSUME NEW op, NEW arg, op \notin Runs, Command(r, op, arg) PROVE Phase(r)'
  BY <1>2, <1>4, PhaseBegins DEF Command, sessionVars, targetVars
<1>5. CASE Disconnect(r)
  <2>1. tool'[r].op = "disconnect" /\ tool'[r].pc = "closing" /\ tool'[r].mark = tool[r].mark
    BY <1>5, OpensEffect
  <2>2. UNCHANGED <<events, outbox, gdb, stops>>
    BY <1>5 DEF Disconnect, targetVars
  <2>3. Settled' /\ ~InRun(r)' /\ tool'[r].mark <= stops'
    BY <1>2, <2>1, <2>2 DEF Settled, StopUnseen, IsStop, InRun, Runs, Phase
  <2> QED BY <2>1, <2>3, PhaseSettled
<1> QED BY <1>3, <1>4, <1>5, NoTimer DEF Begin, Runs

\* A stop that was awaited has come: the next step begins from rest, or the run returns it.
LEMMA ProceedPhase ==
  ASSUME NEW r \in Clients, Shape, Phase(r), InRun(r), tool[r].pc \in {"accepted", "woken"}, stop_event,
         Proceed(r), UNCHANGED <<last_stop, events, outbox, gdb, stops>>
  PROVE  Phase(r)'
<1>1. Settled /\ last_stop > tool[r].mark /\ tool[r].mark <= stops
  BY DEF Phase, Out
<1>2. Settled'
  BY <1>1 DEF Settled, StopUnseen, IsStop
<1>3. ASSUME NEW how \in {"returned", "failed"}, End(r, how) PROVE Phase(r)'
  <2>1. /\ tool'[r].mark = tool[r].mark /\ tool'[r].got = last_stop /\ tool'[r].pc = how
    BY <1>3, EndEffect DEF Keeps
  <2>2. ~Executed(r)' /\ ~Sending(r)' /\ tool'[r].pc # "woken"
    BY <2>1 DEF Executed, Sending
  <2> QED BY <1>1, <1>2, <2>1, <2>2, PhaseSettled
<1>4. ASSUME NEW left, Send(r, "step", 0, left), stop_event' = FALSE PROVE Phase(r)'
  BY <1>1, <1>4, PhaseBegins
<1> QED BY <1>3, <1>4 DEF Proceed

\* A call of r goes on.
LEMMA ResumePhase ==
  ASSUME NEW r \in Clients, Shape, Roles(r), Phase(r), Resume(r), ~Disconnected(r)
  PROVE  Phase(r)'
<1>1. tool[r].mark <= stops /\ (~(InRun(r) /\ Executed(r)) => Settled)
  BY DEF Phase, Out
\* The call ends, and it was not a run that was accepted.
<1>2. ASSUME tool'[r].mark = tool[r].mark, tool'[r].pc \in Finished, ~InRun(r) \/ tool'[r].pc # "returned",
             tool'[r].op = tool[r].op,
             ~(InRun(r) /\ Executed(r)), UNCHANGED <<events, outbox, gdb, stops>>
      PROVE  Phase(r)'
  <2>1. Settled'
    BY <1>1, <1>2 DEF Settled, StopUnseen, IsStop
  <2>2. ~Executed(r)' /\ ~Sending(r)' /\ tool'[r].pc # "woken" /\ (InRun(r)' <=> InRun(r))
    BY <1>2 DEF Executed, Sending, Finished, InRun
  <2> QED BY <1>1, <1>2, <2>1, <2>2, PhaseSettled
<1>3. CASE RunAccepted(r)
  <2>1. InRun(r) /\ tool[r].pc = "accepted" /\ UNCHANGED <<last_stop, events, outbox, gdb, stops>>
    BY <1>3 DEF RunAccepted, InRun, targetVars
  <2>2. CASE stop_event
    BY <1>3, <2>1, <2>2, ProceedPhase DEF RunAccepted
  <2>3. CASE ~stop_event
    <3>1. tool' = [tool EXCEPT ![r].pc = "waiting"] /\ UNCHANGED stop_event
      BY <1>3, <2>3 DEF RunAccepted
    <3>2. Keeps(r) /\ tool'[r].pc = "waiting"
      BY <3>1, MoveEffect
    <3>3. Out(r) /\ Out(r)' /\ ~Sending(r)'
      BY <2>1, <2>3, <3>1, <3>2 DEF Out, Executed, InRun, Keeps, Sending
    <3> QED BY <2>1, <2>3, <3>1, <3>2, <3>3 DEF Phase, Keeps, IsStop, StopUnseen
  <2> QED BY <2>2, <2>3
<1>4. CASE Woken(r)
  <2>1. InRun(r) /\ stop_event /\ tool[r].pc = "woken" /\ UNCHANGED <<last_stop, events, outbox, gdb, stops>>
    BY <1>4 DEF Woken, Roles, InRun, Phase, targetVars
  <2> QED BY <1>4, <2>1, ProceedPhase DEF Woken
<1>5. CASE ResetAccepted(r)
  <2>1. Keeps(r) /\ tool'[r].pc = "returned" /\ UNCHANGED <<events, outbox, gdb, stops>> /\ ~InRun(r)
    BY <1>5, ResetEffect DEF ResetAccepted, targetVars, InRun, Runs
  <2> QED BY <1>2, <2>1 DEF Keeps, Finished
<1>6. CASE BreakpointAccepted(r)
  <2>1. Keeps(r) /\ tool'[r].pc = "returned" /\ UNCHANGED <<events, outbox, gdb, stops>> /\ ~InRun(r)
    BY <1>6, EndEffect DEF BreakpointAccepted, targetVars, InRun, Runs
  <2> QED BY <1>2, <2>1 DEF Keeps, Finished
<1>7. CASE Refused(r)
  <2>1. Keeps(r) /\ tool'[r].pc = "failed" /\ UNCHANGED <<events, outbox, gdb, stops>> /\ ~Executed(r)
    BY <1>7, EndEffect DEF Refused, sessionVars, targetVars, Executed, Sending
  <2> QED BY <1>2, <2>1 DEF Keeps, Finished
<1> QED BY <1>3, <1>4, <1>5, <1>6, <1>7 DEF Resume

\* A disconnect refuses a run or leaves it as it is; GDB is gone, and so is its stop.
LEMMA DisconnectedPhase ==
  ASSUME NEW r \in Clients, Shape, Roles(r), Phase(r), NEW c \in Clients, Disconnected(c)
  PROVE  Phase(r)'
<1>1. Settled' /\ UNCHANGED <<stop_event, stops>>
  BY DEF Disconnected, Settled, StopUnseen
<1>2. outbox' = <<>> /\ events' = <<>> /\ gdb' = "gone" /\ tool[c].op = "disconnect"
      /\ tool[r].pc \notin {"accepted", "woken"}
  BY DEF Disconnected, Roles
<1>3. CASE r = c
  <2>1. tool'[r].op = "disconnect" /\ tool'[r].mark = tool[r].mark /\ tool'[r].pc = "returned"
    BY <1>2, <1>3, DisconnectedEffect DEF Keeps
  <2> QED BY <1>1, <2>1, PhaseSettled DEF InRun, Runs, Phase
<1>4. CASE r # c /\ Sending(r)
  <2>1. tool'[r].mark = tool[r].mark /\ tool'[r].pc = "refused"
    BY <1>4, DisconnectedEffect DEF Keeps, Sending
  <2> QED BY <1>1, <2>1, PhaseSettled DEF Executed, Sending, Phase
<1>5. CASE r # c /\ ~Sending(r)
  <2>1. tool'[r] = tool[r]
    BY <1>5, DisconnectedEffect DEF Sending
  <2> QED BY <1>1, <1>2, <1>5, <2>1 DEF Phase, Out, InRun, Executed, Sending, StopUnseen, Accepts, Settled
<1> QED BY <1>3, <1>4, <1>5

\* The reader takes a record that is neither a stop nor the answer to r.
LEMMA PhaseTaken ==
  ASSUME Shape, NEW r, Phase(r), Taken, ~IsStop(1), ~(Sending(r) /\ Accepts(1, r)), tool'[r] = tool[r],
         UNCHANGED <<stop_event, last_stop, events, gdb, stops>>
  PROVE  Phase(r)'
<1>1. \A i \in DOMAIN outbox' : IsStop(i)' => i + 1 \in DOMAIN outbox /\ IsStop(i + 1) /\ outbox'[i] = outbox[i + 1]
  BY DEF Taken, IsStop
<1>2. \A i \in DOMAIN outbox : IsStop(i) => i - 1 \in DOMAIN outbox' /\ IsStop(i - 1)'
  BY DEF Taken, IsStop
<1>3. StopUnseen' <=> StopUnseen
  BY <1>1, <1>2 DEF StopUnseen
<1>4. \A i \in DOMAIN outbox' : Accepts(i, r)' => i + 1 \in DOMAIN outbox /\ Accepts(i + 1, r)
  BY DEF Taken, Accepts, IsResult
<1>5. \A i \in DOMAIN outbox : i # 1 /\ Accepts(i, r) => i - 1 \in DOMAIN outbox' /\ Accepts(i - 1, r)'
  BY DEF Taken, Accepts, IsResult
<1>6. Executed(r)' <=> Executed(r)
  BY <1>4, <1>5 DEF Executed, Sending
<1>7. (Out(r)' <=> Out(r)) /\ (Settled' <=> Settled) /\ (InRun(r)' <=> InRun(r)) /\ (Sending(r)' <=> Sending(r))
  BY <1>3, <1>6 DEF Out, InRun, Settled, Sending
<1>8. ASSUME InRun(r)', Sending(r)', NEW i \in DOMAIN outbox', IsStop(i)' PROVE \E k \in 1..(i - 1) : Accepts(k, r)'
  <2>1. PICK k \in 1..i : Accepts(k, r)
    <3>1. i + 1 \in DOMAIN outbox /\ IsStop(i + 1) /\ (i + 1) - 1 = i
      BY <1>1, <1>8 DEF Taken
    <3> QED BY <1>7, <1>8, <3>1 DEF Phase
  <2>2. i \in Nat /\ i + 1 \in DOMAIN outbox
    BY <1>1, <1>8 DEF Taken
  <2>3. k \in DOMAIN outbox
    BY <2>1, <2>2 DEF Shape, OutboxOK
  <2>4. k # 1
    BY <1>7, <1>8, <2>1
  <2>5. Accepts(k - 1, r)' /\ k - 1 \in 1..(i - 1)
    BY <1>5, <2>1, <2>2, <2>3, <2>4
  <2> QED BY <2>5
<1> QED BY <1>1, <1>3, <1>7, <1>8 DEF Phase

\* A result settles its own command.
LEMMA SettlesItsOwn ==
  ASSUME Shape, Pending, Owned, Received("result")
  PROVE  Settles = outbox[1].token /\ \E c \in Clients : Sending(c) /\ tool[c].token = outbox[1].token
<1>1. Taken /\ outbox[1].type = "result"
  BY TakenEffect
<1>2. PICK c \in Clients : Sending(c) /\ tool[c].token = outbox[1].token
  BY <1>1 DEF Owned, Taken, IsResult
<1>3. Contains(pending_order, outbox[1].token)
  BY <1>2 DEF Pending, Contains
<1> QED BY <1>1, <1>2, <1>3 DEF Settles, Taken

\* The event loop brings an answer or a stop closer.
LEMMA LoopPhase ==
  ASSUME NEW r \in Clients, Shape, Pending, Owned, OneStop, Phase(r), Loop
  PROVE  Phase(r)'
<1>1. CASE ReadResult
  <2>1. /\ Taken /\ outbox[1].type = "result" /\ Settles = outbox[1].token
        /\ UNCHANGED <<stop_event, last_stop, events, gdb, stops>>
    BY <1>1, TakenEffect, ReadResultEffect, SettlesItsOwn DEF sessionVars, targetVars
  <2>2. CASE ~(Sending(r) /\ tool[r].token = outbox[1].token)
    <3>1. tool'[r] = tool[r]
      BY <1>1, <2>1, <2>2, AnsweredEffect
    <3>2. ~IsStop(1) /\ ~(Sending(r) /\ Accepts(1, r))
      BY <2>1, <2>2 DEF IsStop, Accepts
    <3> QED BY <2>1, <3>1, <3>2, PhaseTaken
  <2>3. CASE Sending(r) /\ tool[r].token = outbox[1].token
    <3>1. /\ tool'[r].op = tool[r].op /\ tool'[r].mark = tool[r].mark
          /\ tool'[r].pc = IF outbox[1].class = "error" THEN "refused" ELSE "accepted"
      BY <1>1, <2>1, <2>3, AnsweredEffect DEF Taken
    <3>2. \A i \in DOMAIN outbox' : IsStop(i)' => i + 1 \in DOMAIN outbox /\ IsStop(i + 1) /\ outbox'[i] = outbox[i + 1]
      BY <2>1 DEF Taken, IsStop
    <3>3. \A i \in DOMAIN outbox : IsStop(i) => i - 1 \in DOMAIN outbox' /\ IsStop(i - 1)'
      BY <2>1 DEF Taken, IsStop
    <3>4. (StopUnseen' <=> StopUnseen) /\ (Settled' <=> Settled) /\ (InRun(r)' <=> InRun(r)) /\ ~Sending(r)'
      BY <2>1, <3>1, <3>2, <3>3 DEF StopUnseen, Settled, InRun, Sending
    <3>5. CASE outbox[1].class = "error"
      <4>1. ~Executed(r)
        BY <2>1, <2>3, <3>5 DEF Executed, Accepts, Owned, Sending, Taken, IsResult
      <4>2. Settled'
        BY <3>4, <4>1 DEF Phase, Out
      <4>3. ~Executed(r)' /\ tool'[r].pc = "refused"
        BY <3>1, <3>5 DEF Executed, Sending
      <4> QED BY <2>1, <3>1, <3>4, <4>2, <4>3, PhaseSettled DEF Phase
    <3>6. CASE outbox[1].class # "error"
      <4>1. tool'[r].pc = "accepted" /\ Executed(r)'
        BY <3>1, <3>6 DEF Executed
      <4>2. outbox[1].class = "done"
        BY <2>1, <3>6 DEF Taken, Records, Results, StopRecords
      <4>3. Executed(r)
        BY <2>1, <2>3, <4>2 DEF Executed, Accepts, IsResult, Taken
      <4>4. Out(r)' <=> Out(r)
        BY <2>1, <3>4, <4>1, <4>3 DEF Out
      <4> QED BY <2>1, <2>3, <3>1, <3>2, <3>4, <4>1, <4>4 DEF Phase, Sending
    <3> QED BY <3>5, <3>6
  <2> QED BY <2>2, <2>3
<1>2. CASE ReadRunning
  <2>1. Taken /\ ~IsStop(1) /\ ~Accepts(1, r) /\ UNCHANGED <<tool, stop_event, last_stop, events, gdb, stops>>
    BY <1>2, TakenEffect DEF ReadRunning, sessionVars, targetVars, IsStop, Accepts, IsResult
  <2> QED BY <2>1, PhaseTaken
<1>3. CASE ReadStopped
  <2>1. Taken /\ IsStop(1) /\ UNCHANGED <<tool, stop_event, last_stop, gdb, stops>>
    BY <1>3, TakenEffect DEF ReadStopped, targetVars, IsStop
  <2>2. StopUnseen /\ Out(r) /\ events = <<>>
    BY <2>1 DEF Taken, StopUnseen, Phase, Settled, OneStop
  <2>3. InRun(r) /\ ~Sending(r) /\ tool[r].pc # "woken" /\ tool[r].pc \in {"accepted", "waiting"} /\ ~stop_event
    <3>1. ~Sending(r)
      BY <2>1, <2>2 DEF Phase, Out, Taken
    <3> QED BY <2>2, <3>1 DEF Out, Executed, Phase
  <2>4. events' = <<[stop |-> outbox[1].stop, bkpt |-> outbox[1].bkpt]>>
    BY <1>3, <2>1, <2>2 DEF ReadStopped, Taken
  <2>5. \A i \in DOMAIN events' : events'[i].stop > tool[r].mark
    BY <2>1, <2>2, <2>4 DEF Phase, Taken
  <2>6. \A i \in DOMAIN outbox' : ~IsStop(i)'
    <3> SUFFICES ASSUME NEW i \in DOMAIN outbox', IsStop(i)' PROVE FALSE
      OBVIOUS
    <3>1. i + 1 \in DOMAIN outbox /\ IsStop(i + 1) /\ i + 1 # 1
      BY <2>1 DEF Taken, IsStop
    <3> QED BY <2>1, <3>1 DEF OneStop, Taken
  <2>7. StopUnseen' /\ Out(r)' /\ ~Sending(r)'
    BY <2>1, <2>3, <2>4 DEF StopUnseen, Out, InRun, Executed, Sending
  <2> QED BY <2>1, <2>3, <2>5, <2>6, <2>7 DEF Phase, InRun
<1>4. CASE ReaderEOF
  <2>1. /\ tool' = RejectSenders(tool) /\ tool \in [Clients -> Tool] /\ outbox = <<>>
        /\ UNCHANGED <<stop_event, last_stop, events, outbox, gdb, stops>>
    BY <1>4 DEF ReaderEOF, sessionVars, targetVars, Shape, ToolsOK
  <2>2. CASE ~Sending(r)
    BY <2>1, <2>2, RejectSendersEffect, PhaseStays DEF Sending
  <2>3. CASE Sending(r)
    <3>1. tool'[r].pc = "refused" /\ tool'[r].mark = tool[r].mark /\ ~Executed(r)
      BY <2>1, <2>3, RejectSendersEffect DEF Sending, Executed
    <3>2. Settled' /\ ~Executed(r)' /\ tool'[r].mark <= stops'
      BY <2>1, <3>1 DEF Phase, Out, Settled, StopUnseen, IsStop, Executed, Sending
    <3> QED BY <3>1, <3>2, PhaseSettled DEF Sending
  <2> QED BY <2>2, <2>3
<1>5. CASE ProcessStop
  <2>1. /\ SetStopEvent(tool) /\ tool \in [Clients -> Tool] /\ events # <<>> /\ events' = Tail(events)
        /\ last_stop' = Head(events).stop /\ UNCHANGED <<outbox, gdb, stops>> /\ events \in Seq(Events)
    BY <1>5 DEF ProcessStop, Shape, ToolsOK, targetVars
  <2>2. Out(r) /\ gdb # "running" /\ \A i \in DOMAIN outbox : ~IsStop(i)
    BY <2>1 DEF StopUnseen, Phase, Settled, OneStop
  <2>3. InRun(r) /\ ~Sending(r) /\ tool[r].pc \in {"accepted", "waiting"}
    BY <2>1, <2>2 DEF Out, Phase, Executed
  <2>4. last_stop' > tool[r].mark
    BY <2>1, <2>2, TailEffect DEF Phase
  <2>5. events' = <<>>
    <3>1. Len(events) <= 1 /\ Len(events') = Len(events) - 1 /\ events' \in Seq(Events)
      BY <2>1, TailEffect DEF OneStop
    <3>2. Len(events') = 0
      BY <2>1, <3>1, EmptySeq
    <3> QED BY <3>1, <3>2, EmptySeq
  <2>6. /\ tool'[r].op = tool[r].op /\ tool'[r].mark = tool[r].mark
        /\ tool'[r].pc \in {"accepted", "woken"} /\ stop_event'
    <3>1. stop_event'
      BY <2>1 DEF SetStopEvent
    <3> QED BY <2>1, <2>3, <3>1, SetStopEventEffect
  <2>7. Settled' /\ ~StopUnseen' /\ ~Out(r)' /\ ~Sending(r)'
    BY <2>1, <2>2, <2>5, <2>6 DEF Settled, StopUnseen, IsStop, Out, Sending
  <2> QED BY <2>1, <2>2, <2>4, <2>5, <2>6, <2>7 DEF Phase, StopUnseen, Sending
<1> QED BY <1>1, <1>2, <1>3, <1>4, <1>5 DEF Loop

\* GDB executes a run, or the target stops.
LEMMA GdbPhase ==
  ASSUME NEW r \in Clients, Shape, Pending, Roles(r), Owned, OneStop, Phase(r), Gdb
  PROVE  Phase(r)'
<1>1. CASE GdbRuns
  <2>1. /\ Sending(r) /\ tool[r].token = inbox[1].token /\ InRun(r) /\ Settled
        /\ gdb' = "running"
    BY <1>1, RunsFromSettled DEF GdbRuns
  <2>2. PICK n : Answers(n, "done", 0)
    BY <1>1, RunsAnswers
  <2>3. UNCHANGED <<tool, stop_event, events, stops, last_stop>> /\ ~stop_event
    BY <2>1, <2>2 DEF Answers, sessionVars, Phase, Sending
  <2>4. n \in DOMAIN outbox' /\ Accepts(n, r)'
    BY <2>1, <2>2, <2>3 DEF Answers, Accepts, IsResult
  <2>5. Sending(r)' /\ InRun(r)' /\ Executed(r)'
    BY <2>1, <2>3, <2>4 DEF Sending, InRun, Executed
  <2>6. Out(r)'
    BY <2>3, <2>5 DEF Out
  <2>7. events' = <<>> /\ \A i \in DOMAIN outbox' : ~IsStop(i)'
    <3>1. events = <<>> /\ \A i \in DOMAIN outbox : ~IsStop(i)
      BY <2>1 DEF Settled, StopUnseen
    <3>2. ASSUME NEW i \in DOMAIN outbox', IsStop(i)' PROVE FALSE
      <4>1. i \in DOMAIN outbox
        BY <2>2, <3>2 DEF Answers, IsStop
      <4> QED BY <2>2, <3>1, <3>2, <4>1 DEF Answers, IsStop
    <3> QED BY <2>3, <3>1, <3>2
  <2> QED BY <2>1, <2>3, <2>5, <2>6, <2>7 DEF Phase, Sending
<1>2. ASSUME NEW n, NEW class, NEW bkpt, Answers(n, class, bkpt), UNCHANGED gdb,
             class = "error" \/ inbox[1].text \notin Runs
      PROVE  Phase(r)'
  <2>1. UNCHANGED <<tool, stop_event, events, stops, last_stop>>
    BY <1>2 DEF Answers, sessionVars
  <2>2. \A i \in DOMAIN outbox' : IsStop(i)' => i \in DOMAIN outbox /\ IsStop(i) /\ outbox'[i] = outbox[i]
    <3> SUFFICES ASSUME NEW i \in DOMAIN outbox', IsStop(i)'
                 PROVE  i \in DOMAIN outbox /\ IsStop(i) /\ outbox'[i] = outbox[i]
      OBVIOUS
    <3>1. i \in DOMAIN outbox
      BY <1>2 DEF Answers, IsStop
    <3> QED BY <1>2, <3>1 DEF Answers, IsStop
  <2>3. \A i \in DOMAIN outbox : i \in DOMAIN outbox' /\ (IsStop(i)' <=> IsStop(i)) /\ (Accepts(i, r)' <=> Accepts(i, r))
    BY <1>2, <2>1 DEF Answers, IsStop, Accepts, IsResult
  <2>4. InRun(r) /\ Sending(r) => ~Accepts(n, r)'
    <3> SUFFICES ASSUME InRun(r), Sending(r), Accepts(n, r)' PROVE FALSE
      OBVIOUS
    <3>1. tool[r].token = inbox[1].token /\ class = "done"
      BY <1>2, <2>1 DEF Answers, Accepts
    <3>2. PICK c \in Clients : Sending(c) /\ tool[c].token = inbox[1].token /\ tool[c].op = inbox[1].text
      BY <1>2 DEF Owned, Answers
    <3>3. c = r
      BY <3>1, <3>2 DEF Pending
    <3> QED BY <1>2, <3>1, <3>2, <3>3 DEF InRun
  <2>5. InRun(r) /\ Sending(r) => \A i \in DOMAIN outbox' : Accepts(i, r)' => i \in DOMAIN outbox
    <3> SUFFICES ASSUME InRun(r), Sending(r), NEW i \in DOMAIN outbox', Accepts(i, r)' PROVE i \in DOMAIN outbox
      OBVIOUS
    <3> QED BY <1>2, <2>4 DEF Answers, Accepts, IsResult
  <2>6. InRun(r) => (Executed(r)' <=> Executed(r))
    BY <2>1, <2>3, <2>5 DEF Executed, Sending
  <2>7. (StopUnseen' <=> StopUnseen) /\ (Out(r)' <=> Out(r)) /\ (InRun(r)' <=> InRun(r)) /\ (Sending(r)' <=> Sending(r))
    BY <2>1, <2>2, <2>3, <2>6 DEF StopUnseen, Out, InRun, Sending
  <2>8. Settled' <=> Settled
    BY <1>2, <2>7 DEF Settled
  <2>9. ASSUME InRun(r)', Sending(r)', NEW i \in DOMAIN outbox', IsStop(i)' PROVE \E k \in 1..(i - 1) : Accepts(k, r)'
    <3>1. PICK k \in 1..(i - 1) : Accepts(k, r)
      BY <2>2, <2>7, <2>9 DEF Phase
    <3>2. k \in DOMAIN outbox
      BY <2>2, <2>9 DEF Shape, OutboxOK
    <3> QED BY <2>3, <3>1, <3>2
  <2> QED BY <1>2, <2>1, <2>2, <2>7, <2>8, <2>9 DEF Phase
<1>3. ASSUME NEW id \in {0} \cup DOMAIN table, TargetStops(id) PROVE Phase(r)'
  <2> DEFINE record == [type |-> "stopped", stop |-> stops + 1, bkpt |-> id]
  <2>1. /\ gdb = "running" /\ gdb' = "halted" /\ stops' = stops + 1 /\ stops \in Nat
        /\ UNCHANGED <<tool, stop_event, events, last_stop>>
    BY <1>3 DEF TargetStops, sessionVars, Shape, ScalarsOK
  <2>2. PICK n : Added(n, record)
    BY <1>3, StopsEffect
  <2>3. record.type = "stopped" /\ record.stop = stops + 1
    OBVIOUS
  <2> HIDE DEF record
  <2>4. Out(r) /\ events = <<>> /\ \A i \in DOMAIN outbox : ~IsStop(i)
    BY <2>1 DEF Phase, Settled, OneStop, StopUnseen
  <2>5. \A i \in DOMAIN outbox : Accepts(i, r) => i \in DOMAIN outbox' /\ Accepts(i, r)'
    BY <2>1, <2>2 DEF Added, Accepts, IsResult
  <2>6. Out(r)' /\ (InRun(r)' <=> InRun(r)) /\ (Sending(r)' <=> Sending(r))
    BY <2>1, <2>4, <2>5 DEF Out, InRun, Executed, Sending
  <2>7. StopUnseen' /\ \A i \in DOMAIN outbox' : IsStop(i)' => i = n
    BY <2>1, <2>2, <2>3, <2>4 DEF Added, StopUnseen, IsStop
  <2>8. \A i \in DOMAIN outbox' : IsStop(i)' => outbox'[i].stop > tool[r].mark
    <3>1. tool[r].mark <= stops /\ tool[r].mark \in Nat
      BY DEF Phase, Shape, ToolsOK, Tool
    <3>2. outbox'[n].stop = stops + 1
      BY <2>2, <2>3 DEF Added
    <3> QED BY <2>1, <2>7, <3>1, <3>2
  <2>9. tool[r].mark <= stops'
    BY <2>1 DEF Phase, Shape, ToolsOK, Tool
  <2>10. InRun(r) /\ Sending(r) => \E k \in 1..(n - 1) : Accepts(k, r)'
    <3> SUFFICES ASSUME InRun(r), Sending(r) PROVE \E k \in 1..(n - 1) : Accepts(k, r)'
      OBVIOUS
    <3>1. PICK k \in DOMAIN outbox : Accepts(k, r)
      BY <2>4 DEF Out, Executed, Sending
    <3>2. k \in 1..(n - 1)
      BY <2>2 DEF Added, Shape, OutboxOK
    <3> QED BY <2>5, <3>1, <3>2
  <2> QED BY <2>1, <2>4, <2>6, <2>7, <2>8, <2>9, <2>10 DEF Phase
<1>4. CASE GdbDies
  <2>1. gdb' = "gone" /\ UNCHANGED <<tool, outbox, stop_event, events, last_stop, stops>>
    BY <1>4 DEF GdbDies, sessionVars
  <2>2. (Out(r)' <=> Out(r)) /\ (Settled => Settled') /\ (InRun(r)' <=> InRun(r)) /\ (Sending(r)' <=> Sending(r))
    BY <2>1 DEF Out, InRun, Executed, Sending, Accepts, IsResult, Settled, StopUnseen, IsStop
  <2> QED BY <2>1, <2>2 DEF Phase, IsStop, Accepts, IsResult
<1> QED BY <1>1, <1>2, <1>3, <1>4, GdbCases

\* Every step keeps runs and stops together.
LEMMA StepPhase ==
  ASSUME NEW r \in Clients, RunsAlone(r), Shape, Pending, Roles(r), Owned, OneStop, Phase(r), [Next]_vars
  PROVE  Phase(r)'
<1>1. ASSUME NEW c \in Clients, Begin(c) PROVE Phase(r)'
  <2>1. CASE c = r
    BY <1>1, <2>1, BeginPhase
  <2>2. CASE c # r
    <3>1. CASE ~Disconnected(c)
      BY <1>1, <2>2, <3>1, OthersLeave, PhaseStays
    <3>2. CASE Disconnected(c)
      BY <3>2, DisconnectedPhase
    <3> QED BY <3>1, <3>2
  <2> QED BY <2>1, <2>2
<1>2. ASSUME NEW c \in Clients, Resume(c) PROVE Phase(r)'
  <2>1. CASE Disconnected(c)
    BY <2>1, DisconnectedPhase
  <2>2. CASE ~Disconnected(c) /\ c = r
    BY <1>2, <2>2, ResumePhase
  <2>3. CASE ~Disconnected(c) /\ c # r
    BY <1>2, <2>3, OthersLeave, PhaseStays
  <2> QED BY <2>1, <2>2, <2>3
<1>3. CASE Loop
  BY <1>3, LoopPhase
<1>4. CASE Gdb
  BY <1>4, GdbPhase
<1>5. CASE UNCHANGED vars
  BY <1>5, PhaseStays DEF vars, sessionVars, targetVars
<1> QED BY <1>1, <1>2, <1>3, <1>4, <1>5, NoTimer DEF Next

-----------------------------------------------------------------------------
(* GDB's breakpoints and the session's. *)

\* The insertions and deletions that GDB has executed and the session has not recorded.
Changing(c) == tool[c].op \in Setters \cup {"delete"} /\ Executed(c)

\* The insertions and deletions under way stay the same.
ChangesKept ==
  \A c \in Clients :
    /\ Changing(c)' <=> Changing(c)
    /\ Changing(c) => /\ tool'[c].op = tool[c].op /\ tool'[c].token = tool[c].token
                      /\ tool[c].op = "delete" => tool'[c].arg = tool[c].arg

\* Nobody else is setting a breakpoint.
OnlySets(r) == \A c \in Clients \ {r} : tool[c].op \notin Setters

\* What r's insertion will record is the number that GDB gave.
AnswerNumbers(r) ==
  /\ tool[r].op \in Setters /\ tool[r].pc = "accepted" =>
        tool[r].arg = tool[r].token /\ tool[r].token # 0
  /\ tool[r].op \in Setters /\ Sending(r) =>
        \A i \in DOMAIN outbox : Accepts(i, r) => outbox[i].bkpt = tool[r].token

\* Deletions under way are of breakpoints that are not being inserted.
DeletesOthers(r) == \A c \in Clients : tool[c].op = "delete" => ~Inserting(r, tool[c].arg)

\* Nothing happens to the tables, and no insertion or deletion gets any further.
LEMMA InStepKept ==
  ASSUME NEW r \in Clients, InStep(r), UNCHANGED <<breakpoints, table>>, gdb' # "gone" => gdb # "gone",
         \A id \in DOMAIN breakpoints : HitUnseen(id)' <=> HitUnseen(id),
         ChangesKept, OnlySets(r)', AnswerNumbers(r)', DeletesOthers(r)', gdb' # "gone" => Unnumbered'
  PROVE  InStep(r)'
<1>1. \A id : Inserting(r, id)' <=> Inserting(r, id)
  BY DEF Inserting, ChangesKept, Changing
<1>2. \A c \in Clients : \A id : Deleting(c, id)' <=> Deleting(c, id)
  BY DEF Deleting, ChangesKept, Changing, Setters
<1>3. \A id : Inserting(r, id) => NewBreakpoint(r)' = NewBreakpoint(r)
  BY DEF Inserting, ChangesKept, Changing, NewBreakpoint
<1>4. \A id \in DOMAIN breakpoints : Unseen(id)' = Unseen(id)
  BY DEF Unseen
<1>5. SameTables'
  BY <1>4 DEF InStep, SameTables
<1>6. Inserts(r)'
  BY <1>1, <1>3 DEF InStep, Inserts, OnlySets, AnswerNumbers, DeletesOthers
<1>7. Deletes'
  BY <1>2 DEF InStep, Deletes
<1>8. ASSUME gdb' # "gone" PROVE Differ(r)'
  <2>1. Differ(r)
    BY <1>8 DEF InStep
  <2>2. \A id \in DOMAIN table \ DOMAIN breakpoints : Inserting(r, id)'
    BY <1>1, <2>1 DEF Differ
  <2>3. (tool[r].op \in Setters /\ Executed(r))' => tool'[r].token \in DOMAIN table
    BY <2>1 DEF Differ, ChangesKept, Changing
  <2>4. \A id \in DOMAIN breakpoints \ DOMAIN table :
           \/ \E c \in Clients : Deleting(c, id)'
           \/ breakpoints[id].temporary /\ breakpoints[id].hits + Unseen(id)' = 1
    BY <1>2, <1>4, <2>1 DEF Differ
  <2> QED BY <2>2, <2>3, <2>4 DEF Differ
<1> QED BY <1>5, <1>6, <1>7, <1>8 DEF InStep

\* While an insertion or deletion of r is under way, and whenever r does not run the
\* target, no hit is on its way.
LEMMA NothingUnseen ==
  ASSUME NEW r, Phase(r), ~(InRun(r) /\ Executed(r))
  PROVE  Settled /\ \A id : ~HitUnseen(id)
BY DEF Phase, Out, Settled, StopUnseen, HitUnseen

\* While r sets a breakpoint nothing runs and no hit is on its way.
LEMMA InsertingSettled ==
  ASSUME NEW r, Phase(r), tool[r].op \in Setters
  PROVE  Settled /\ \A id : ~HitUnseen(id)
BY NothingUnseen DEF InRun, Runs, Setters

\* A call that is neither accepted nor answered executes nothing.
LEMMA BeginsExecutesNothing ==
  ASSUME NEW c \in Clients, Shape, NEW op, NEW arg, NEW left, Send(c, op, arg, left), UNCHANGED outbox
  PROVE  /\ ~Executed(c)' /\ \A i \in DOMAIN outbox' : ~Accepts(i, c)'
         /\ \A d \in Clients \ {c} : tool'[d] = tool[d] /\ (Executed(d)' <=> Executed(d))
                                     /\ \A i \in DOMAIN outbox : Accepts(i, d)' <=> Accepts(i, d)
<1>1. tool'[c].pc = "sending" /\ tool'[c].token = next_token /\ Untouched(c)
  BY SendEffect
<1>2. \A i \in DOMAIN outbox : IsResult(i) => outbox[i].token # next_token
  <2>1. next_token \in Nat /\ \A i \in DOMAIN outbox : outbox[i] \in Records
    BY DEF Shape, OutboxOK, ScalarsOK
  <2>2. \A i \in DOMAIN outbox : IsResult(i) => outbox[i] \in Results
    BY <2>1 DEF IsResult, Records, Results, StopRecords
  <2> QED BY <2>1, <2>2 DEF Shape, OutboxOK, IsResult, Results
<1>3. \A i \in DOMAIN outbox' : ~Accepts(i, c)'
  BY <1>1, <1>2 DEF Accepts, IsResult
<1>4. ~Executed(c)'
  BY <1>1, <1>3 DEF Executed
<1>5. \A d \in Clients \ {c} : tool'[d] = tool[d]
  BY <1>1 DEF Untouched
<1>6. \A d \in Clients \ {c} : \A i \in DOMAIN outbox : Accepts(i, d)' <=> Accepts(i, d)
  BY <1>5 DEF Accepts, IsResult
<1>7. \A d \in Clients \ {c} : Executed(d)' <=> Executed(d)
  BY <1>5, <1>6 DEF Executed, Sending
<1> QED BY <1>3, <1>4, <1>5, <1>6, <1>7

\* A command is sent, by a call that had not changed a table.
LEMMA SendsInStep ==
  ASSUME NEW r \in Clients, Shape, InStep(r), NEW c \in Clients, ~Changing(c),
         NEW op, NEW arg, NEW left, Send(c, op, arg, left), op \in Commands, arg \in Nat,
         op \in Setters => c = r, op = "delete" => arg \in DOMAIN breakpoints,
         UNCHANGED <<events, breakpoints, outbox, targetVars>>
  PROVE  InStep(r)'
<1> DEFINE item == [token |-> next_token, text |-> op, arg |-> arg]
<1>1. /\ tool'[c].op = op /\ tool'[c].pc = "sending" /\ tool'[c].token = next_token /\ tool'[c].arg = arg
      /\ UNCHANGED <<gdb, table>>
  BY SendEffect DEF targetVars
<1>2. /\ ~Executed(c)' /\ \A i \in DOMAIN outbox' : ~Accepts(i, c)'
      /\ \A d \in Clients \ {c} : tool'[d] = tool[d] /\ (Executed(d)' <=> Executed(d))
                                     /\ \A i \in DOMAIN outbox : Accepts(i, d)' <=> Accepts(i, d)
  BY BeginsExecutesNothing
<1>3. ChangesKept
  BY <1>2 DEF ChangesKept, Changing
<1>4. \A id \in DOMAIN breakpoints : HitUnseen(id)' <=> HitUnseen(id)
  BY DEF HitUnseen, IsStop
<1>5. OnlySets(r)'
  BY <1>1, <1>2 DEF OnlySets, InStep, Inserts
<1>6. AnswerNumbers(r)'
  <2>1. CASE c = r
    BY <1>1, <1>2, <2>1 DEF AnswerNumbers
  <2>2. CASE c # r
    BY <1>2, <2>2 DEF AnswerNumbers, InStep, Inserts, Sending
  <2> QED BY <2>1, <2>2
<1>7. \A id \in DOMAIN breakpoints : ~Inserting(r, id)'
  BY <1>2 DEF InStep, Inserts, Inserting
<1>8. DeletesOthers(r)'
  <2> SUFFICES ASSUME NEW d \in Clients, tool'[d].op = "delete" PROVE ~Inserting(r, tool[d].arg)'
    BY DEF DeletesOthers
  <2>1. CASE d = c
    BY <1>1, <1>7, <2>1
  <2>2. CASE d # c
    BY <1>2, <2>2 DEF InStep, Inserts, Inserting
  <2> QED BY <2>1, <2>2
<1>9. ASSUME gdb' # "gone" PROVE Unnumbered'
  <2>1. Unnumbered
    BY <1>1, <1>9 DEF InStep
  <2>2. inbox \in Seq(Items) /\ inbox' = Append(inbox, item) /\ next_token \in Nat /\ item \in Items
    BY DEF Shape, InboxOK, ScalarsOK, Send, Items
  <2>3. item.token = next_token /\ item.text = op
    OBVIOUS
  <2> HIDE DEF item
  <2>4. \A i \in DOMAIN inbox' : inbox'[i] = item \/ (i \in DOMAIN inbox /\ inbox'[i] = inbox[i])
    BY <2>2, AppendEffect
  <2>5. /\ \A id \in DOMAIN table \cup DOMAIN breakpoints : id # next_token
        /\ \A d \in Clients : tool[d].arg # next_token
    <3>1. /\ \A id \in DOMAIN table \cup DOMAIN breakpoints : id \in Nat /\ id < next_token
          /\ \A d \in Clients : tool[d].arg \in Nat /\ tool[d].arg < next_token
      BY DEF Shape, IsTable, ToolsOK, Tool
    <3> QED BY <2>2, <3>1
  <2>6. \A d \in Clients : tool'[d].op = "delete" => tool'[d].arg # next_token
    BY <1>1, <1>2, <2>5
  <2>7. ASSUME NEW i \in DOMAIN inbox, inbox[i].text \in Setters, NEW d \in Clients, tool'[d].op = "delete"
        PROVE  tool'[d].arg # inbox[i].token
    BY <1>1, <1>2, <2>1, <2>7 DEF Unnumbered
  <2>8. ASSUME NEW i \in DOMAIN inbox', inbox'[i].text \in Setters
        PROVE  /\ inbox'[i].token \notin DOMAIN table \cup DOMAIN breakpoints
               /\ \A d \in Clients : tool'[d].op = "delete" => tool'[d].arg # inbox'[i].token
    BY <2>1, <2>3, <2>4, <2>5, <2>6, <2>7, <2>8 DEF Unnumbered
  <2> QED BY <1>1, <2>8 DEF Unnumbered
<1> QED BY <1>1, <1>3, <1>4, <1>5, <1>6, <1>8, <1>9, InStepKept

\* A call begins: its command is on its way and has changed nothing.
LEMMA BeginInStep ==
  ASSUME NEW r \in Clients, RunsAlone(r), SetsAlone(r), Shape, Roles(r), InStep(r), NEW c \in Clients, Begin(c)
  PROVE  InStep(r)'
<1>1. tool[c].pc \in Finished
  BY NoTimer DEF Begin, Run, Command, Disconnect, Idle
<1>2. ~Executed(c)
  BY <1>1 DEF Finished, Executed, Sending
<1>3. ASSUME NEW op \in Commands \ {"delete"}, NEW left, Send(c, op, 0, left), op \in Ops[c],
             UNCHANGED <<events, breakpoints, outbox, targetVars>>
      PROVE  InStep(r)'
  BY <1>2, <1>3, SendsInStep DEF Changing, SetsAlone
<1>4. CASE Run(c, "continue", 1) \/ \E count \in 1..2 : Run(c, "step", count)
  BY <1>3, <1>4 DEF Run, Idle, Commands, Runs
<1>5. CASE \E op \in {"reset_halt", "reset_run", "break", "tbreak"} : Command(c, op, 0)
  BY <1>3, <1>5 DEF Command, Idle, Commands, sessionVars
<1>6. CASE \E id \in DOMAIN breakpoints : Command(c, "delete", id)
  <2>1. PICK id \in DOMAIN breakpoints : Command(c, "delete", id)
    BY <1>6
  <2>2. id \in Nat /\ "delete" \in Commands /\ "delete" \notin Setters
    BY DEF Shape, IsTable, Commands, Setters
  <2>3. Send(c, "delete", id, 1) /\ UNCHANGED <<events, breakpoints, outbox, targetVars>>
    BY <2>1 DEF Command, sessionVars
  <2> QED BY <1>2, <2>2, <2>3, SendsInStep DEF Changing
<1>7. CASE Disconnect(c)
  <2>1. /\ Untouched(c) /\ tool'[c].op = "disconnect" /\ tool'[c].pc = "closing"
        /\ UNCHANGED <<events, breakpoints, inbox, outbox, table, gdb>>
    BY <1>7, OpensEffect DEF Disconnect, targetVars
  <2>2. \A d \in Clients : tool'[d] = tool[d] \/ (d = c /\ ~Executed(d) /\ ~Executed(d)')
    BY <1>2, <2>1 DEF Untouched, Executed, Sending
  <2>3. \A d \in Clients : Executed(d)' <=> Executed(d)
    BY <2>1, <2>2 DEF Executed, Sending, Accepts, IsResult
  <2>4. ChangesKept
    BY <2>1, <2>2, <2>3 DEF ChangesKept, Changing
  <2>5. \A id \in DOMAIN breakpoints : HitUnseen(id)' <=> HitUnseen(id)
    BY <2>1 DEF HitUnseen, IsStop
  <2>6. OnlySets(r)'
    BY <2>1 DEF OnlySets, InStep, Inserts, Setters, Untouched
  <2>7. AnswerNumbers(r)'
    <3>1. CASE r = c
      BY <2>1, <3>1 DEF AnswerNumbers, Setters
    <3>2. CASE r # c
      BY <2>1, <3>2 DEF AnswerNumbers, InStep, Inserts, Untouched, Sending, Accepts, IsResult
    <3> QED BY <3>1, <3>2
  <2>8. DeletesOthers(r)'
    BY <2>1, <2>3, <2>2 DEF DeletesOthers, InStep, Inserts, Inserting, Untouched
  <2>9. gdb' # "gone" => Unnumbered'
    BY <2>1 DEF InStep, Unnumbered, Untouched
  <2> QED BY <2>1, <2>4, <2>5, <2>6, <2>7, <2>8, <2>9, InStepKept
<1> QED BY <1>4, <1>5, <1>6, <1>7, <1>1, NoTimer DEF Begin

\* Calls end or go on that change neither table.
LEMMA InStepEnds ==
  ASSUME NEW r \in Clients, InStep(r), UNCHANGED <<events, breakpoints, inbox, outbox, table, gdb>>,
         \A c \in Clients : /\ tool'[c].op = tool[c].op /\ tool'[c].token = tool[c].token
                            /\ tool'[c].arg = tool[c].arg
                            /\ tool'[c] = tool[c] \/ (~Changing(c) /\ ~Changing(c)' /\ ~Sending(c)'
                                                      /\ tool'[c].pc # "accepted")
  PROVE  InStep(r)'
<1>1. ChangesKept
  BY DEF ChangesKept, Changing, Executed, Sending, Accepts, IsResult
<1>2. \A id \in DOMAIN breakpoints : HitUnseen(id)' <=> HitUnseen(id)
  BY DEF HitUnseen, IsStop
<1>3. OnlySets(r)'
  BY DEF OnlySets, InStep, Inserts
<1>4. AnswerNumbers(r)'
  BY DEF AnswerNumbers, InStep, Inserts, Sending, Accepts, IsResult
<1>5. DeletesOthers(r)'
  <2>1. \A id : Inserting(r, id)' <=> Inserting(r, id)
    BY <1>1 DEF Inserting, ChangesKept, Changing
  <2> QED BY <2>1 DEF DeletesOthers, InStep, Inserts
<1>6. gdb' # "gone" => Unnumbered'
  BY DEF InStep, Unnumbered
<1> QED BY <1>1, <1>2, <1>3, <1>4, <1>5, <1>6, InStepKept

\* A run goes on with its next command, or ends.
LEMMA ProceedInStep ==
  ASSUME NEW r \in Clients, RunsAlone(r), Shape, Roles(r), InStep(r), NEW c \in Clients, Proceed(c),
         InRun(c), tool[c].pc \in {"accepted", "woken"}, UNCHANGED <<events, breakpoints, outbox, targetVars>>
  PROVE  InStep(r)'
<1>1. ~Changing(c)
  BY DEF InRun, Changing, Runs, Setters
<1>2. ASSUME NEW left, Send(c, "step", 0, left) PROVE InStep(r)'
  BY <1>1, <1>2, SendsInStep DEF Commands, Runs, Setters
<1>3. ASSUME NEW how \in {"returned", "failed"}, End(c, how), UNCHANGED inbox PROVE InStep(r)'
  <2>1. Untouched(c) /\ Keeps(c) /\ tool'[c].pc = how
    BY <1>3, EndEffect
  <2>2. ~Changing(c)' /\ ~Sending(c)' /\ tool'[c].pc # "accepted"
    BY <2>1 DEF InRun, Changing, Runs, Setters, Keeps, Sending
  <2> QED BY <1>1, <1>3, <2>1, <2>2, InStepEnds DEF Untouched, Keeps, targetVars
<1> QED BY <1>2, <1>3 DEF Proceed

\* A call goes on that is no insertion or deletion.
LEMMA ResumeInStep ==
  ASSUME NEW r \in Clients, RunsAlone(r), Shape, Roles(r), InStep(r), NEW c \in Clients, Resume(c),
         ~BreakpointAccepted(c), ~Disconnected(c)
  PROVE  InStep(r)'
<1>1. ASSUME NEW how \in {"waiting", "failed"}, Untouched(c), Keeps(c), tool'[c].pc = how, ~Changing(c),
             how = "waiting" => InRun(c), UNCHANGED <<events, breakpoints, inbox, outbox, table, gdb>>
      PROVE  InStep(r)'
  <2>1. ~Changing(c)' /\ ~Sending(c)' /\ tool'[c].pc # "accepted"
    BY <1>1 DEF InRun, Changing, Runs, Setters, Keeps, Sending, Executed
  <2> QED BY <1>1, <2>1, InStepEnds DEF Untouched, Keeps
<1>2. CASE RunAccepted(c)
  <2>1. InRun(c) /\ tool[c].pc = "accepted" /\ UNCHANGED <<events, breakpoints, outbox, targetVars>> /\ ~Changing(c)
    BY <1>2 DEF RunAccepted, InRun, Changing, Runs, Setters
  <2>2. CASE stop_event
    BY <1>2, <2>1, <2>2, ProceedInStep DEF RunAccepted
  <2>3. CASE ~stop_event
    BY <1>1, <1>2, <2>1, <2>3, MoveEffect DEF RunAccepted, targetVars
  <2> QED BY <2>2, <2>3
<1>3. CASE Woken(c)
  BY <1>3, ProceedInStep DEF Woken, Roles, InRun
<1>4. CASE Refused(c)
  <2>1. ~Changing(c)
    BY <1>4 DEF Refused, Changing, Executed, Sending
  <2> QED BY <1>1, <1>4, <2>1, EndEffect DEF Refused, sessionVars, targetVars
<1>5. CASE ResetAccepted(c)
  <2>1. UNCHANGED <<events, breakpoints, inbox, outbox, table, gdb>>
    BY <1>5 DEF ResetAccepted, targetVars
  <2>2. ASSUME NEW d \in Clients
        PROVE  /\ tool'[d].op = tool[d].op /\ tool'[d].token = tool[d].token /\ tool'[d].arg = tool[d].arg
               /\ tool'[d] = tool[d] \/ (~Changing(d) /\ ~Changing(d)' /\ ~Sending(d)' /\ tool'[d].pc # "accepted")
    <3>1. Keeps(d)
      BY <1>5, ResetEffect
    <3>2. CASE d = c
      BY <1>5, <3>1, <3>2, ResetEffect DEF ResetAccepted, Keeps, Changing, Setters, Sending
    <3>3. CASE d # c /\ tool[d].pc = "waiting" /\ tool[c].op = "reset_halt"
      BY <1>5, <3>1, <3>3, ResetEffect DEF Roles, Runs, Keeps, Changing, Setters, Sending
    <3>4. CASE d # c /\ ~(tool[d].pc = "waiting" /\ tool[c].op = "reset_halt")
      BY <1>5, <3>1, <3>4, ResetEffect DEF Keeps
    <3> QED BY <3>2, <3>3, <3>4
  <2> QED BY <2>1, <2>2, InStepEnds
<1> QED BY <1>2, <1>3, <1>4, <1>5 DEF Resume

\* After a disconnect GDB is gone, and what it had executed is not recorded any more.
LEMMA DisconnectedInStep ==
  ASSUME NEW r \in Clients, Shape, Roles(r), InStep(r), NEW c \in Clients, Disconnected(c)
  PROVE  InStep(r)'
<1>1. breakpoints' = <<>> /\ gdb' = "gone" /\ table' = table
  BY DEF Disconnected
<1>2. \A d \in Clients : Keeps(d)
  BY DisconnectedEffect
<1>3. \A d \in Clients : ~Changing(d)' /\ ~Sending(d)' /\ tool'[d].pc # "accepted"
  <2> SUFFICES ASSUME NEW d \in Clients PROVE ~Changing(d)' /\ ~Sending(d)' /\ tool'[d].pc # "accepted"
    OBVIOUS
  <2>1. tool[d].pc \notin {"accepted", "woken"}
    BY DEF Disconnected
  <2>2. tool'[d].pc \in {"returned", "refused"} \/ (tool'[d] = tool[d] /\ ~Sending(d))
    BY DisconnectedEffect DEF Sending
  <2>3. tool'[d].pc \notin {"accepted", "woken", "sending"}
    BY <2>1, <2>2 DEF Sending
  <2>4. tool'[d].pc = "waiting" => tool'[d].op \in Runs
    BY <2>2 DEF Roles
  <2> QED BY <2>3, <2>4 DEF Changing, Executed, Sending, Setters, Runs
<1>4. Inserts(r)'
  BY <1>1, <1>2, <1>3 DEF InStep, Inserts, Inserting, Changing, Keeps
<1>5. Deletes'
  BY <1>1, <1>3 DEF Deletes, Deleting, Changing
<1>6. SameTables'
  BY <1>1 DEF InStep, SameTables
<1> QED BY <1>1, <1>4, <1>5, <1>6 DEF InStep

\* The session records a deletion: GDB's table lost the breakpoint before.
LEMMA DeletionRecorded ==
  ASSUME NEW r \in Clients, Shape, InStep(r), NEW c \in Clients, BreakpointAccepted(c), tool[c].op = "delete"
  PROVE  InStep(r)'
<1> DEFINE gone == tool[c].arg
<1>1. /\ Untouched(c) /\ Keeps(c) /\ tool'[c].pc = "returned"
      /\ UNCHANGED <<events, inbox, outbox, table, gdb>>
  BY EndEffect DEF BreakpointAccepted, targetVars
<1>2. /\ DOMAIN breakpoints' = DOMAIN breakpoints \ {gone}
      /\ \A id \in DOMAIN breakpoints' : breakpoints'[id] = breakpoints[id]
  BY DEF BreakpointAccepted, RecordBreakpoint, Restrict
<1>3. Deleting(c, gone) /\ \A id : Deleting(c, id) => id = gone
  BY DEF BreakpointAccepted, Deleting, Executed
<1>4. gone \notin DOMAIN table
  BY <1>3 DEF InStep, Deletes
<1>5. \A d \in Clients \ {c} : tool'[d] = tool[d] /\ (Executed(d)' <=> Executed(d))
  BY <1>1 DEF Untouched, Executed, Sending, Accepts, IsResult
<1>6. tool'[c].op = "delete" /\ ~Executed(c)' /\ ~Sending(c)' /\ tool'[c].arg = gone
  BY <1>1 DEF Keeps, Executed, Sending
<1>7. \A id : Unseen(id)' = Unseen(id)
  BY <1>1 DEF Unseen, HitUnseen, IsStop
<1>8. \A id : Inserting(r, id)' <=> Inserting(r, id)
  BY <1>5, <1>6 DEF Inserting, Setters
<1>9. /\ \A d \in Clients : tool'[d].op = tool[d].op /\ tool'[d].arg = tool[d].arg
      /\ \A d \in Clients : \A id : Deleting(d, id)' => Deleting(d, id)
      /\ \A d \in Clients : \A id : id # gone /\ Deleting(d, id) => Deleting(d, id)'
  BY <1>3, <1>5, <1>6 DEF Deleting
<1>10. SameTables'
  BY <1>1, <1>2, <1>7 DEF InStep, SameTables
<1>11. Inserts(r)'
  <2>1. \A i \in DOMAIN outbox : c # r => (Accepts(i, r)' <=> Accepts(i, r))
    BY <1>1, <1>5 DEF Accepts, IsResult
  <2> QED BY <1>1, <1>2, <1>5, <1>6, <1>8, <1>9, <2>1 DEF InStep, Inserts, NewBreakpoint, Sending, Setters
<1>12. Deletes'
  BY <1>1, <1>9 DEF InStep, Deletes
<1>13. ASSUME gdb' # "gone" PROVE Differ(r)' /\ Unnumbered'
  <2>1. Differ(r) /\ Unnumbered
    BY <1>1, <1>13 DEF InStep
  <2>2. \A id \in DOMAIN table' \ DOMAIN breakpoints' : Inserting(r, id)'
    BY <1>1, <1>2, <1>4, <1>8, <2>1 DEF Differ
  <2>3. tool'[r].op \in Setters /\ Executed(r)' => tool'[r].token \in DOMAIN table'
    BY <1>1, <1>5, <1>6, <2>1 DEF Differ, Setters
  <2>4. \A id \in DOMAIN breakpoints' \ DOMAIN table' :
           \/ \E d \in Clients : Deleting(d, id)'
           \/ breakpoints'[id].temporary /\ breakpoints'[id].hits + Unseen(id)' = 1
    BY <1>1, <1>2, <1>7, <1>9, <2>1 DEF Differ
  <2>5. Unnumbered'
    BY <1>1, <1>2, <1>9, <2>1 DEF Unnumbered
  <2> QED BY <2>2, <2>3, <2>4, <2>5 DEF Differ
<1> QED BY <1>10, <1>11, <1>12, <1>13 DEF InStep

\* The session records an insertion: GDB's table has the breakpoint, and it was not hit.
LEMMA InsertionRecorded ==
  ASSUME NEW r \in Clients, Shape, Owned, Phase(r), InStep(r), NEW c \in Clients,
         BreakpointAccepted(c), tool[c].op \in Setters
  PROVE  InStep(r)'
<1> DEFINE new == tool[r].token
<1>1. c = r /\ tool[r].pc = "accepted"
  BY DEF InStep, Inserts, BreakpointAccepted
<1>2. tool[r].arg = new /\ new # 0 /\ Inserting(r, new) /\ Executed(r)
  BY <1>1 DEF InStep, Inserts, Inserting, Executed
<1>3. new \notin DOMAIN breakpoints
  BY <1>2 DEF InStep, Inserts
<1>4. /\ DOMAIN breakpoints' = DOMAIN breakpoints \cup {new} /\ breakpoints'[new] = NewBreakpoint(r)
      /\ \A id \in DOMAIN breakpoints : breakpoints'[id] = breakpoints[id]
  BY <1>1, <1>2, <1>3 DEF BreakpointAccepted, RecordBreakpoint, Setters, With
<1>5. /\ Untouched(r) /\ Keeps(r) /\ tool'[r].pc = "returned"
      /\ UNCHANGED <<events, inbox, outbox, table, gdb>>
  BY <1>1, EndEffect DEF BreakpointAccepted, targetVars
<1>6. \A id : ~HitUnseen(id)
  BY <1>1, InsertingSettled
<1>7. \A id : Unseen(id) = 0 /\ Unseen(id)' = 0
  BY <1>5, <1>6 DEF Unseen, HitUnseen, IsStop
<1>8. ~Executed(r)' /\ ~Sending(r)' /\ \A id : ~Inserting(r, id)'
  BY <1>5 DEF Executed, Sending, Inserting
<1>9. new \in DOMAIN table => table[new] = NewBreakpoint(r)
  BY <1>2 DEF InStep, Inserts
<1>10. NewBreakpoint(r).hits = 0
  BY DEF NewBreakpoint
<1>11. SameTables'
  <2>1. 0 \notin DOMAIN breakpoints' \cup DOMAIN table'
    BY <1>2, <1>4, <1>5 DEF InStep, SameTables
  <2>2. ASSUME NEW id \in DOMAIN table, id \in DOMAIN breakpoints'
        PROVE  /\ table[id].temporary = breakpoints'[id].temporary
               /\ table[id].hits = breakpoints'[id].hits + Unseen(id)'
    <3>1. CASE id = new
      BY <1>4, <1>7, <1>9, <1>10, <2>2, <3>1
    <3>2. CASE id # new
      BY <1>4, <1>7, <2>2, <3>2 DEF InStep, SameTables
    <3> QED BY <3>1, <3>2
  <2> QED BY <1>5, <2>1, <2>2 DEF InStep, SameTables
<1>12. /\ \A d \in Clients : tool'[d].op = tool[d].op /\ tool'[d].arg = tool[d].arg
       /\ \A d \in Clients : \A id : Deleting(d, id)' <=> Deleting(d, id)
  <2>1. \A d \in Clients \ {r} : tool'[d] = tool[d]
    BY <1>5 DEF Untouched
  <2>2. \A d \in Clients : tool'[d].op = tool[d].op /\ tool'[d].arg = tool[d].arg
    BY <1>5, <2>1 DEF Keeps
  <2>3. tool[r].op # "delete"
    BY <1>1 DEF Setters
  <2>4. \A d \in Clients \ {r} : Executed(d)' <=> Executed(d)
    BY <1>5, <2>1 DEF Executed, Sending, Accepts, IsResult
  <2> QED BY <2>2, <2>3, <2>4 DEF Deleting
<1>13. Inserts(r)'
  BY <1>5, <1>8, <1>12 DEF InStep, Inserts
<1>14. Deletes'
  BY <1>5, <1>12 DEF InStep, Deletes
<1>15. ASSUME gdb' # "gone" PROVE Differ(r)' /\ Unnumbered'
  <2>1. Differ(r) /\ Unnumbered /\ gdb # "gone"
    BY <1>5, <1>15 DEF InStep
  <2>2. \A id \in DOMAIN table' : id \in DOMAIN breakpoints'
    BY <1>4, <1>5, <2>1 DEF Differ, Inserting
  <2>3. new \in DOMAIN table
    BY <1>1, <1>2, <2>1 DEF Differ
  <2>4. \A id \in DOMAIN breakpoints' \ DOMAIN table' :
           \/ \E d \in Clients : Deleting(d, id)'
           \/ breakpoints'[id].temporary /\ breakpoints'[id].hits + Unseen(id)' = 1
    BY <1>4, <1>5, <1>7, <1>12, <2>1, <2>3 DEF Differ
  <2>5. \A i \in DOMAIN inbox : inbox[i].text \notin Setters
    <3> SUFFICES ASSUME NEW i \in DOMAIN inbox, inbox[i].text \in Setters PROVE FALSE
      OBVIOUS
    <3>1. PICK d \in Clients : Sending(d) /\ tool[d].op = inbox[i].text
      BY <2>1 DEF Owned
    <3> QED BY <1>1, <3>1 DEF InStep, Inserts, Sending
  <2>6. Unnumbered'
    BY <1>5, <2>5 DEF Unnumbered
  <2> QED BY <1>8, <2>2, <2>4, <2>6 DEF Differ
<1> QED BY <1>11, <1>13, <1>14, <1>15 DEF InStep

\* The reader takes a record that accepts nothing of c.
LEMMA ExecutedTaken ==
  ASSUME NEW c, Taken, ~(Sending(c) /\ Accepts(1, c)), tool'[c] = tool[c]
  PROVE  /\ Executed(c)' <=> Executed(c)
         /\ \A i \in DOMAIN outbox' : Accepts(i, c)' => i + 1 \in DOMAIN outbox /\ Accepts(i + 1, c)
<1>1. \A i \in DOMAIN outbox' : Accepts(i, c)' => i + 1 \in DOMAIN outbox /\ Accepts(i + 1, c)
  BY DEF Taken, Accepts, IsResult
<1>2. \A i \in DOMAIN outbox : i # 1 /\ Accepts(i, c) => i - 1 \in DOMAIN outbox' /\ Accepts(i - 1, c)'
  BY DEF Taken, Accepts, IsResult
<1> QED BY <1>1, <1>2 DEF Executed, Sending

\* Taking a record that is no stop leaves the hits on their way.
LEMMA HitsTaken ==
  ASSUME Taken, ~IsStop(1), UNCHANGED events
  PROVE  \A id : HitUnseen(id)' <=> HitUnseen(id)
<1>1. \A i \in DOMAIN outbox' : IsStop(i)' => i + 1 \in DOMAIN outbox /\ IsStop(i + 1) /\ outbox'[i] = outbox[i + 1]
  BY DEF Taken, IsStop
<1>2. \A i \in DOMAIN outbox : IsStop(i) => i - 1 \in DOMAIN outbox' /\ IsStop(i - 1)' /\ outbox'[i - 1] = outbox[i]
  BY DEF Taken, IsStop
<1> QED BY <1>1, <1>2 DEF HitUnseen

\* The reader takes a record that is no result.
LEMMA OtherTakenInStep ==
  ASSUME NEW r \in Clients, InStep(r), Taken, ~IsResult(1), UNCHANGED <<breakpoints, table, gdb, tool, inbox>>,
         \A id : HitUnseen(id)' <=> HitUnseen(id)
  PROVE  InStep(r)'
<1>1. \A c \in Clients : Executed(c)' <=> Executed(c)
  BY ExecutedTaken DEF Accepts
<1>2. ChangesKept
  BY <1>1 DEF ChangesKept, Changing
<1>3. OnlySets(r)' /\ DeletesOthers(r)'
  BY <1>1 DEF OnlySets, DeletesOthers, InStep, Inserts, Inserting
<1>4. AnswerNumbers(r)'
  BY ExecutedTaken DEF AnswerNumbers, InStep, Inserts, Sending, Taken, Accepts
<1>5. gdb' # "gone" => Unnumbered'
  BY DEF InStep, Unnumbered
<1> QED BY <1>2, <1>3, <1>4, <1>5, InStepKept

\* A result lets its call go on.
LEMMA ResultInStep ==
  ASSUME NEW r \in Clients, Shape, Pending, Owned, InStep(r), ReadResult
  PROVE  InStep(r)'
<1>1. /\ Taken /\ outbox[1].type = "result" /\ Settles = outbox[1].token
      /\ UNCHANGED <<events, breakpoints, table, gdb, inbox>>
  BY TakenEffect, ReadResultEffect, SettlesItsOwn DEF sessionVars, targetVars
<1>2. \A id : HitUnseen(id)' <=> HitUnseen(id)
  BY <1>1, HitsTaken DEF IsStop
<1>3. outbox[1].class \in {"done", "error"}
  BY <1>1 DEF Taken, Records, Results, StopRecords
<1>4. \A c \in Clients : /\ tool'[c].op = tool[c].op /\ tool'[c].token = tool[c].token
                         /\ tool[c].op = "delete" => tool'[c].arg = tool[c].arg
  BY AnsweredEffect
<1>5. ASSUME NEW c \in Clients, ~(Sending(c) /\ tool[c].token = outbox[1].token)
      PROVE  /\ tool'[c] = tool[c] /\ (Executed(c)' <=> Executed(c))
             /\ \A i \in DOMAIN outbox' : Accepts(i, c)' => i + 1 \in DOMAIN outbox /\ Accepts(i + 1, c)
  <2>1. tool'[c] = tool[c] /\ ~(Sending(c) /\ Accepts(1, c))
    BY <1>1, <1>5, AnsweredEffect DEF Accepts
  <2> QED BY <1>1, <2>1, ExecutedTaken
<1>6. ASSUME NEW c \in Clients, Sending(c), tool[c].token = outbox[1].token
      PROVE  /\ Executed(c)' <=> Executed(c)
             /\ tool'[c].pc \in {"accepted", "refused"}
             /\ tool'[c].pc = "accepted" => Accepts(1, c)
             /\ tool[c].op # "delete" => tool'[c].arg = outbox[1].bkpt
  <2>1. /\ tool'[c].pc = IF outbox[1].class = "error" THEN "refused" ELSE "accepted"
        /\ tool[c].op # "delete" => tool'[c].arg = outbox[1].bkpt
    BY <1>1, <1>6, AnsweredEffect DEF Taken
  <2>2. CASE outbox[1].class = "error"
    <3>1. ~Executed(c)
      BY <1>1, <1>6, <2>2 DEF Executed, Accepts, Owned, Sending, Taken, IsResult
    <3> QED BY <2>1, <2>2, <3>1 DEF Executed, Sending
  <2>3. CASE outbox[1].class = "done"
    <3>1. Accepts(1, c) /\ Executed(c)
      BY <1>1, <1>6, <2>3 DEF Executed, Accepts, IsResult, Taken
    <3> QED BY <2>1, <2>3, <3>1 DEF Executed
  <2> QED BY <1>3, <2>2, <2>3
<1>7. \A c \in Clients : Executed(c)' <=> Executed(c)
  BY <1>5, <1>6
<1>8. ChangesKept
  BY <1>4, <1>7 DEF ChangesKept, Changing
<1>9. OnlySets(r)' /\ DeletesOthers(r)'
  BY <1>4, <1>7 DEF OnlySets, DeletesOthers, InStep, Inserts, Inserting
<1>10. AnswerNumbers(r)'
  <2>1. CASE Sending(r) /\ tool[r].token = outbox[1].token
    <3>1. tool'[r].pc \in {"accepted", "refused"} /\ (tool'[r].pc = "accepted" => Accepts(1, r))
          /\ (tool[r].op # "delete" => tool'[r].arg = outbox[1].bkpt)
      BY <1>6, <2>1
    <3>2. tool[r].token # 0
      <4>1. PICK i \in DOMAIN pending_order : pending_order[i] = tool[r].token
        BY <2>1 DEF Pending
      <4>2. next_token \in Nat /\ pending_order[i] \in 1..(next_token - 1)
        BY <4>1 DEF Pending, Shape, ScalarsOK
      <4> QED BY <4>1, <4>2
    <3>3. tool[r].op \in Setters /\ Accepts(1, r) => outbox[1].bkpt = tool[r].token
      BY <1>1, <2>1 DEF InStep, Inserts, Taken
    <3> QED BY <1>4, <3>1, <3>2, <3>3 DEF AnswerNumbers, Sending, Setters
  <2>2. CASE ~(Sending(r) /\ tool[r].token = outbox[1].token)
    <3>1. tool'[r] = tool[r] /\ \A i \in DOMAIN outbox' : Accepts(i, r)' => i + 1 \in DOMAIN outbox /\ Accepts(i + 1, r)
      BY <1>5, <2>2
    <3> QED BY <1>1, <3>1 DEF AnswerNumbers, InStep, Inserts, Sending, Taken
  <2> QED BY <2>1, <2>2
<1>11. gdb' # "gone" => Unnumbered'
  BY <1>1, <1>4 DEF InStep, Unnumbered
<1> QED BY <1>1, <1>2, <1>8, <1>9, <1>10, <1>11, InStepKept

\* The hit is counted.
LEMMA ProcessedInStep ==
  ASSUME NEW r \in Clients, Shape, Roles(r), OneStop, Phase(r), InStep(r), ProcessStop
  PROVE  InStep(r)'
<1> DEFINE hit == Head(events).bkpt
<1>1. /\ SetStopEvent(tool) /\ tool \in [Clients -> Tool] /\ events # <<>> /\ events' = Tail(events)
      /\ UNCHANGED <<inbox, outbox, gdb, table>> /\ events \in Seq(Events)
  BY DEF ProcessStop, Shape, ToolsOK, targetVars
<1>2. Len(events) = 1 /\ events' = <<>> /\ DOMAIN events = {1} /\ Head(events) = events[1]
  <2>1. Len(events) <= 1 /\ Len(events') = Len(events) - 1 /\ events' \in Seq(Events) /\ Head(events) = events[1]
    BY <1>1, TailEffect DEF OneStop
  <2>2. Len(events') = 0 /\ Len(events) = 1
    BY <1>1, <2>1, EmptySeq
  <2> QED BY <1>1, <2>1, <2>2, EmptySeq
<1>3. \A i \in DOMAIN outbox : ~IsStop(i)
  BY <1>1 DEF OneStop
<1>4. \A id : HitUnseen(id) <=> id = hit
  BY <1>2, <1>3 DEF HitUnseen
<1>5. \A id : ~HitUnseen(id)'
  BY <1>1, <1>2, <1>3 DEF HitUnseen, IsStop
<1>6. \A id : Unseen(id)' = 0 /\ Unseen(id) = IF id = hit THEN 1 ELSE 0
  BY <1>4, <1>5 DEF Unseen
<1>7. /\ DOMAIN breakpoints' = DOMAIN breakpoints
      /\ \A id \in DOMAIN breakpoints :
            /\ breakpoints'[id].temporary = breakpoints[id].temporary
            /\ breakpoints'[id].hits = breakpoints[id].hits + Unseen(id)
            /\ breakpoints[id].hits \in Nat
  <2> DEFINE counted(id) == [breakpoints[id] EXCEPT !.hits = @ + 1]
  <2>1. breakpoints' = [id \in DOMAIN breakpoints |-> IF id = hit THEN counted(id) ELSE breakpoints[id]]
    BY DEF ProcessStop
  <2>2. \A id \in DOMAIN breakpoints :
           /\ breakpoints[id].hits \in Nat
           /\ counted(id).temporary = breakpoints[id].temporary
           /\ counted(id).hits = breakpoints[id].hits + 1
    BY DEF Shape, IsTable, Breakpoint
  <2> HIDE DEF counted, hit
  <2> QED BY <1>6, <2>1, <2>2
<1> HIDE DEF hit
<1>8. \A c \in Clients : /\ tool'[c].op = tool[c].op /\ tool'[c].token = tool[c].token /\ tool'[c].arg = tool[c].arg
                         /\ tool'[c] = tool[c] \/ (tool'[c].pc = "woken" /\ tool[c].pc = "waiting")
  BY <1>1, SetStopEventEffect
<1>9. \A c \in Clients : Executed(c)' <=> Executed(c)
  BY <1>1, <1>8 DEF Executed, Sending, Accepts, IsResult
<1>10. /\ \A c \in Clients : \A id : Deleting(c, id)' <=> Deleting(c, id)
       /\ \A id : Inserting(r, id)' <=> Inserting(r, id)
  BY <1>8, <1>9 DEF Deleting, Inserting
<1>11. SameTables'
  <2>1. ASSUME NEW id \in DOMAIN table, id \in DOMAIN breakpoints
        PROVE  /\ table[id].temporary = breakpoints'[id].temporary
               /\ table[id].hits = breakpoints'[id].hits + Unseen(id)'
    BY <1>6, <1>7, <2>1 DEF InStep, SameTables
  <2> QED BY <1>1, <1>7, <2>1 DEF InStep, SameTables
<1>12. Inserts(r)'
  <2>1. \A i \in DOMAIN outbox : Accepts(i, r)' <=> Accepts(i, r)
    BY <1>1, <1>8 DEF Accepts, IsResult
  <2>2. (tool'[r].pc = "accepted" <=> tool[r].pc = "accepted") /\ (Sending(r)' <=> Sending(r))
    BY <1>8 DEF Sending
  <2> QED BY <1>1, <1>7, <1>8, <1>10, <2>1, <2>2 DEF InStep, Inserts, NewBreakpoint
<1>13. Deletes'
  BY <1>1, <1>10 DEF InStep, Deletes
<1>14. ASSUME gdb' # "gone" PROVE Differ(r)' /\ Unnumbered'
  <2>1. Differ(r) /\ Unnumbered
    BY <1>1, <1>14 DEF InStep
  <2>2. Unnumbered'
    BY <1>1, <1>7, <1>8, <2>1 DEF Unnumbered
  <2>3. \A id \in DOMAIN breakpoints' \ DOMAIN table' :
           \/ \E d \in Clients : Deleting(d, id)'
           \/ breakpoints'[id].temporary /\ breakpoints'[id].hits + Unseen(id)' = 1
    BY <1>1, <1>6, <1>7, <1>10, <2>1 DEF Differ
  <2>4. /\ \A id \in DOMAIN table' \ DOMAIN breakpoints' : Inserting(r, id)'
        /\ tool'[r].op \in Setters /\ Executed(r)' => tool'[r].token \in DOMAIN table'
    BY <1>1, <1>7, <1>8, <1>9, <1>10, <2>1 DEF Differ
  <2> QED BY <2>2, <2>3, <2>4 DEF Differ
<1> QED BY <1>11, <1>12, <1>13, <1>14 DEF InStep

\* The event loop keeps the tables in step.
LEMMA LoopInStep ==
  ASSUME NEW r \in Clients, Shape, Pending, Roles(r), Owned, OneStop, Phase(r), InStep(r), Loop
  PROVE  InStep(r)'
<1>1. CASE ReadRunning
  <2>1. Taken /\ ~IsStop(1) /\ ~IsResult(1) /\ UNCHANGED <<events, breakpoints, table, gdb, tool, inbox>>
    BY <1>1, TakenEffect DEF ReadRunning, sessionVars, targetVars, IsStop, IsResult
  <2> QED BY <2>1, HitsTaken, OtherTakenInStep
<1>2. CASE ReadStopped
  <2>1. Taken /\ IsStop(1) /\ ~IsResult(1) /\ UNCHANGED <<breakpoints, table, gdb, tool, inbox>>
    BY <1>2, TakenEffect DEF ReadStopped, targetVars, IsStop, IsResult
  <2>2. events = <<>> /\ \A i \in DOMAIN outbox : IsStop(i) => i = 1
    BY <2>1 DEF Taken, OneStop
  <2>3. events' = <<[stop |-> outbox[1].stop, bkpt |-> outbox[1].bkpt]>>
    BY <1>2, <2>1, <2>2 DEF ReadStopped, Taken
  <2>4. \A i \in DOMAIN outbox' : ~IsStop(i)'
    <3> SUFFICES ASSUME NEW i \in DOMAIN outbox', IsStop(i)' PROVE FALSE
      OBVIOUS
    <3>1. i + 1 \in DOMAIN outbox /\ IsStop(i + 1) /\ i + 1 # 1
      BY <2>1 DEF Taken, IsStop
    <3> QED BY <2>2, <3>1
  <2>5. \A id : HitUnseen(id) <=> outbox[1].bkpt = id
    BY <2>1, <2>2 DEF HitUnseen, Taken
  <2>6. \A id : HitUnseen(id)' <=> outbox[1].bkpt = id
    BY <2>3, <2>4 DEF HitUnseen
  <2> QED BY <2>1, <2>5, <2>6, OtherTakenInStep
<1>3. CASE ReaderEOF
  <2>1. /\ tool' = RejectSenders(tool) /\ tool \in [Clients -> Tool] /\ outbox = <<>>
        /\ UNCHANGED <<events, breakpoints, inbox, outbox, table, gdb>>
    BY <1>3 DEF ReaderEOF, sessionVars, targetVars, Shape, ToolsOK
  <2>2. ASSUME NEW c \in Clients
        PROVE  /\ tool'[c].op = tool[c].op /\ tool'[c].token = tool[c].token /\ tool'[c].arg = tool[c].arg
               /\ tool'[c] = tool[c] \/ (~Changing(c) /\ ~Changing(c)' /\ ~Sending(c)' /\ tool'[c].pc # "accepted")
    <3>1. CASE ~Sending(c)
      BY <2>1, <3>1, RejectSendersEffect DEF Sending
    <3>2. CASE Sending(c)
      BY <2>1, <3>2, RejectSendersEffect DEF Sending, Changing, Executed
    <3> QED BY <3>1, <3>2
  <2> QED BY <2>1, <2>2, InStepEnds
<1>4. CASE ReadResult
  BY <1>4, ResultInStep
<1>5. CASE ProcessStop
  BY <1>5, ProcessedInStep
<1> QED BY <1>1, <1>2, <1>3, <1>4, <1>5 DEF Loop

\* An answer makes a difference to the call that it answers only.
LEMMA AnswersCalls ==
  ASSUME Pending, Owned, NEW n, NEW class, NEW bkpt, Answers(n, class, bkpt), NEW c \in Clients
  PROVE  /\ \A i \in DOMAIN outbox : i \in DOMAIN outbox' /\ (Accepts(i, c)' <=> Accepts(i, c)) /\ outbox'[i] = outbox[i]
         /\ \A i \in DOMAIN outbox' : Accepts(i, c)' => i \in DOMAIN outbox \/ i = n
         /\ ~(Sending(c) /\ tool[c].token = inbox[1].token /\ class = "done") =>
               /\ Executed(c)' <=> Executed(c)
               /\ Sending(c) => \A i \in DOMAIN outbox' : Accepts(i, c)' => i \in DOMAIN outbox /\ Accepts(i, c)
         /\ Sending(c) /\ tool[c].token = inbox[1].token => ~Executed(c)
         /\ Sending(c) /\ tool[c].token = inbox[1].token /\ class = "done" => Executed(c)' /\ Accepts(n, c)'
<1>1. tool'[c] = tool[c]
  BY DEF Answers
<1>2. \A i \in DOMAIN outbox : i \in DOMAIN outbox' /\ (Accepts(i, c)' <=> Accepts(i, c)) /\ outbox'[i] = outbox[i]
  BY <1>1 DEF Answers, Accepts, IsResult
<1>3. \A i \in DOMAIN outbox' : Accepts(i, c)' => i \in DOMAIN outbox \/ i = n
  BY DEF Answers, Accepts, IsResult
<1>4. ASSUME ~(Sending(c) /\ tool[c].token = inbox[1].token /\ class = "done"), Sending(c)
      PROVE  \A i \in DOMAIN outbox' : Accepts(i, c)' => i \in DOMAIN outbox /\ Accepts(i, c)
  <2>1. ~Accepts(n, c)'
    BY <1>1, <1>4 DEF Answers, Accepts
  <2> QED BY <1>2, <1>3, <2>1
<1>5. ASSUME ~(Sending(c) /\ tool[c].token = inbox[1].token /\ class = "done")
      PROVE  Executed(c)' <=> Executed(c)
  BY <1>1, <1>2, <1>4, <1>5 DEF Executed, Sending
<1>6. ASSUME Sending(c), tool[c].token = inbox[1].token PROVE ~Executed(c)
  BY <1>6, UnreadNotExecuted DEF Answers
<1>7. ASSUME Sending(c), tool[c].token = inbox[1].token, class = "done" PROVE Executed(c)' /\ Accepts(n, c)'
  <2>1. Accepts(n, c)' /\ n \in DOMAIN outbox'
    BY <1>1, <1>7 DEF Answers, Accepts, IsResult
  <2> QED BY <1>1, <1>7, <2>1 DEF Executed, Sending
<1> QED BY <1>2, <1>3, <1>4, <1>5, <1>6, <1>7

\* An answer is not a hit.
LEMMA AnswersHits ==
  ASSUME NEW n, NEW class, NEW bkpt, Answers(n, class, bkpt)
  PROVE  \A id : Unseen(id)' = Unseen(id) /\ (HitUnseen(id)' <=> HitUnseen(id))
<1>1. UNCHANGED events
  BY DEF Answers, sessionVars
<1>2. \A i \in DOMAIN outbox' : IsStop(i)' => i \in DOMAIN outbox /\ IsStop(i) /\ outbox'[i] = outbox[i]
  <2> SUFFICES ASSUME NEW i \in DOMAIN outbox', IsStop(i)'
               PROVE  i \in DOMAIN outbox /\ IsStop(i) /\ outbox'[i] = outbox[i]
    OBVIOUS
  <2>1. i \in DOMAIN outbox
    BY DEF Answers, IsStop
  <2> QED BY <2>1 DEF Answers, IsStop
<1>3. \A i \in DOMAIN outbox : i \in DOMAIN outbox' /\ (IsStop(i)' <=> IsStop(i)) /\ outbox'[i] = outbox[i]
  BY DEF Answers, IsStop
<1> QED BY <1>1, <1>2, <1>3 DEF HitUnseen, Unseen

\* A command that is not about breakpoints is executed, or any command refused.
LEMMA OtherAnswersInStep ==
  ASSUME NEW r \in Clients, Pending, Owned, InStep(r), NEW n, NEW class, NEW bkpt, Answers(n, class, bkpt),
         class = "error" \/ inbox[1].text \notin Setters \cup {"delete"}, UNCHANGED table
  PROVE  InStep(r)'
<1>1. UNCHANGED <<tool, breakpoints>> /\ gdb # "gone"
  BY DEF Answers, sessionVars
<1>2. ASSUME NEW c \in Clients, tool[c].op \in Setters \cup {"delete"}
      PROVE  ~(Sending(c) /\ tool[c].token = inbox[1].token /\ class = "done")
  <2>1. PICK o \in Clients : Sending(o) /\ tool[o].token = inbox[1].token /\ tool[o].op = inbox[1].text
    BY DEF Owned, Answers
  <2>2. Sending(c) /\ tool[c].token = inbox[1].token => c = o
    BY <2>1 DEF Pending
  <2> QED BY <1>2, <2>1, <2>2
<1>3. ChangesKept
  BY <1>1, <1>2, AnswersCalls DEF ChangesKept, Changing
<1>4. OnlySets(r)'
  BY <1>1 DEF OnlySets, InStep, Inserts
<1>5. AnswerNumbers(r)'
  <2>1. ASSUME tool[r].op \in Setters, Sending(r), NEW i \in DOMAIN outbox', Accepts(i, r)'
        PROVE  outbox'[i].bkpt = tool[r].token
    <3>1. i \in DOMAIN outbox /\ Accepts(i, r) /\ outbox'[i] = outbox[i]
      BY <1>2, <2>1, AnswersCalls
    <3> QED BY <2>1, <3>1 DEF InStep, Inserts
  <2> QED BY <1>1, <2>1 DEF AnswerNumbers, InStep, Inserts, Sending
<1>6. DeletesOthers(r)'
  <2>1. \A id : Inserting(r, id)' <=> Inserting(r, id)
    BY <1>1, <1>3 DEF Inserting, ChangesKept, Changing
  <2> QED BY <1>1, <2>1 DEF DeletesOthers, InStep, Inserts
<1>7. Unnumbered'
  BY <1>1 DEF InStep, Unnumbered, Answers
<1> QED BY <1>1, <1>3, <1>4, <1>5, <1>6, <1>7, AnswersHits, InStepKept

\* GDB inserts a breakpoint: its number is new, and its answer is on its way.
LEMMA InsertsInStep ==
  ASSUME NEW r \in Clients, Shape, Pending, Owned, InStep(r), GdbInserts
  PROVE  InStep(r)'
<1> DEFINE id == inbox[1].token
           new == [hits |-> 0, temporary |-> inbox[1].text = "tbreak"]
<1>1. /\ Reads({"break", "tbreak"}) /\ outbox' = Append(outbox, Result("done", Head(inbox).token))
      /\ UNCHANGED <<connVars, sessionVars, tool, stops, gdb>>
      /\ table' = With(table, Head(inbox).token, [hits |-> 0, temporary |-> Head(inbox).text = "tbreak"])
  BY DEF GdbInserts
<1>2. /\ gdb # "gone" /\ inbox[1].text \in Setters /\ Head(inbox) = inbox[1] /\ id \in Nat /\ 1 \in DOMAIN inbox
  BY <1>1, ReadsEffect DEF Items, Setters
<1>3. PICK n : Answers(n, "done", id)
  BY <1>1, <1>2, AnswersEffect
<1>4. /\ DOMAIN table' = DOMAIN table \cup {id} /\ table'[id] = new
      /\ \A j \in DOMAIN table : j # id => table'[j] = table[j]
  BY <1>1, <1>2 DEF With
<1>5. UNCHANGED <<tool, breakpoints, gdb>>
  BY <1>1 DEF sessionVars
<1>6. Sending(r) /\ tool[r].token = id /\ tool[r].op = inbox[1].text /\ new = NewBreakpoint(r)
  <2>1. PICK o \in Clients : Sending(o) /\ tool[o].token = id /\ tool[o].op = inbox[1].text
    BY <1>2 DEF Owned
  <2>2. o = r
    BY <1>2, <2>1 DEF InStep, Inserts
  <2> QED BY <2>1, <2>2 DEF NewBreakpoint
<1>7. /\ id \notin DOMAIN table \cup DOMAIN breakpoints
      /\ \A c \in Clients : tool[c].op = "delete" => tool[c].arg # id
  BY <1>2 DEF InStep, Unnumbered
<1>8. ~Executed(r) /\ Executed(r)'
  BY <1>3, <1>6, AnswersCalls
<1>9. \A c \in Clients \ {r} : Executed(c)' <=> Executed(c)
  <2> SUFFICES ASSUME NEW c \in Clients \ {r} PROVE Executed(c)' <=> Executed(c)
    OBVIOUS
  <2>1. ~(Sending(c) /\ tool[c].token = id)
    BY <1>6 DEF Pending
  <2> QED BY <1>3, <2>1, AnswersCalls
<1> HIDE DEF id, new
<1>10. \A j : Inserting(r, j)' <=> j = id
  BY <1>2, <1>5, <1>6, <1>8 DEF Inserting
<1>11. /\ \A c \in Clients : \A j : Deleting(c, j)' <=> Deleting(c, j)
       /\ \A c \in Clients : ~Deleting(c, id)
  <2>1. tool[r].op # "delete"
    BY <1>2, <1>6 DEF Setters
  <2> QED BY <1>5, <1>7, <1>9, <2>1 DEF Deleting
<1>12. \A j : Unseen(j)' = Unseen(j)
  BY <1>3, AnswersHits
<1>13. id # 0
  <2>1. PICK i \in DOMAIN pending_order : pending_order[i] = tool[r].token
    BY <1>6 DEF Pending
  <2>2. next_token \in Nat /\ pending_order[i] \in 1..(next_token - 1)
    BY <2>1 DEF Pending, Shape, ScalarsOK
  <2> QED BY <1>6, <2>1, <2>2
<1>14. SameTables'
  <2>1. \A j \in DOMAIN table' \cap DOMAIN breakpoints' : j \in DOMAIN table /\ j # id
    BY <1>4, <1>5, <1>7
  <2>2. new.hits = 0
    BY DEF new
  <2> QED BY <1>4, <1>5, <1>12, <1>13, <2>1, <2>2 DEF InStep, SameTables
<1>15. Inserts(r)'
  <2>1. \A j \in DOMAIN table' : Inserting(r, j)' => table'[j] = NewBreakpoint(r)'
    BY <1>4, <1>5, <1>6, <1>10 DEF NewBreakpoint
  <2>2. ASSUME NEW i \in DOMAIN outbox', Accepts(i, r)' PROVE outbox'[i].bkpt = tool'[r].token
    <3>1. i = n
      <4>1. i \in DOMAIN outbox \/ i = n
        BY <1>3, <2>2, AnswersCalls
      <4>2. i \in DOMAIN outbox => Accepts(i, r)
        BY <1>3, <2>2, AnswersCalls
      <4> QED BY <1>6, <1>8, <4>1, <4>2 DEF Executed
    <3>2. outbox'[n].bkpt = id
      BY <1>3 DEF Answers
    <3> QED BY <1>5, <1>6, <3>1, <3>2
  <2>3. tool'[r].pc # "accepted"
    BY <1>5, <1>6 DEF Sending
  <2> QED BY <1>5, <1>7, <1>10, <2>1, <2>2, <2>3 DEF InStep, Inserts
<1>16. Deletes'
  BY <1>4, <1>11 DEF InStep, Deletes
<1>17. Differ(r)'
  <2>1. Differ(r)
    BY <1>2 DEF InStep
  <2>2. \A j \in DOMAIN table \ DOMAIN breakpoints : FALSE
    BY <1>8, <2>1 DEF Differ, Inserting
  <2>3. \A j \in DOMAIN table' \ DOMAIN breakpoints' : Inserting(r, j)'
    BY <1>4, <1>5, <1>10, <2>2
  <2>4. tool'[r].token \in DOMAIN table'
    BY <1>4, <1>5, <1>6
  <2>5. \A j \in DOMAIN breakpoints' \ DOMAIN table' :
           \/ \E d \in Clients : Deleting(d, j)'
           \/ breakpoints'[j].temporary /\ breakpoints'[j].hits + Unseen(j)' = 1
    BY <1>4, <1>5, <1>11, <1>12, <2>1 DEF Differ
  <2> QED BY <2>3, <2>4, <2>5 DEF Differ
<1>18. Unnumbered'
  <2>1. \A i \in DOMAIN inbox' : inbox'[i].text \notin Setters
    <3> SUFFICES ASSUME NEW i \in DOMAIN inbox', inbox'[i].text \in Setters PROVE FALSE
      OBVIOUS
    <3>1. i + 1 \in DOMAIN inbox /\ inbox'[i] = inbox[i + 1] /\ i + 1 # 1
      BY <1>3 DEF Answers
    <3>2. PICK o \in Clients : Sending(o) /\ tool[o].token = inbox[i + 1].token /\ tool[o].op = inbox[i + 1].text
      BY <1>2, <3>1 DEF Owned
    <3>3. o = r
      BY <3>1, <3>2 DEF InStep, Inserts
    <3>4. inbox[i + 1].token # inbox[1].token
      BY <1>2, <3>1 DEF Owned
    <3> QED BY <1>6, <3>2, <3>3, <3>4 DEF id
  <2> QED BY <2>1 DEF Unnumbered
<1> QED BY <1>14, <1>15, <1>16, <1>17, <1>18 DEF InStep

\* GDB deletes a breakpoint, or refuses to: its answer is on its way.
LEMMA DeletesInStep ==
  ASSUME NEW r \in Clients, Shape, Pending, Owned, InStep(r), GdbDeletes
  PROVE  InStep(r)'
<1>0. PICK id : id = inbox[1].arg
  OBVIOUS
<1>1. /\ Reads({"delete"}) /\ outbox' = Append(outbox, Result("done", 0)) /\ Head(inbox).arg \in DOMAIN table
      /\ UNCHANGED <<connVars, sessionVars, tool, stops, gdb>>
      /\ table' = Restrict(table, DOMAIN table \ {Head(inbox).arg})
  BY DEF GdbDeletes
<1>2. /\ gdb # "gone" /\ inbox[1].text = "delete" /\ Head(inbox) = inbox[1] /\ 1 \in DOMAIN inbox
  BY <1>1, ReadsEffect
<1>3. PICK n : Answers(n, "done", 0)
  BY <1>1, <1>2, AnswersEffect
<1>4. /\ DOMAIN table' = DOMAIN table \ {id} /\ \A j \in DOMAIN table' : table'[j] = table[j]
  BY <1>0, <1>1, <1>2 DEF Restrict
<1>5. UNCHANGED <<tool, breakpoints, gdb>>
  BY <1>1 DEF sessionVars
<1>6. PICK o \in Clients : Sending(o) /\ tool[o].token = inbox[1].token /\ tool[o].op = "delete" /\ tool[o].arg = id
  BY <1>0, <1>2 DEF Owned
<1>7. Executed(o)'
  BY <1>3, <1>6, AnswersCalls
<1>8. \A c \in Clients \ {o} : Executed(c)' <=> Executed(c)
  <2> SUFFICES ASSUME NEW c \in Clients \ {o} PROVE Executed(c)' <=> Executed(c)
    OBVIOUS
  <2>1. ~(Sending(c) /\ tool[c].token = inbox[1].token)
    BY <1>6 DEF Pending
  <2> QED BY <1>3, <2>1, AnswersCalls
<1>9. \A j : Inserting(r, j)' <=> Inserting(r, j)
  <2>1. tool[o].op \notin Setters
    BY <1>6 DEF Setters
  <2> QED BY <1>5, <1>8, <2>1 DEF Inserting
<1>10. /\ \A c \in Clients : \A j : Deleting(c, j) => Deleting(c, j)'
       /\ \A c \in Clients : \A j : Deleting(c, j)' => Deleting(c, j) \/ j = id
       /\ Deleting(o, id)'
  <2>1. \A c \in Clients \ {o} : \A j : Deleting(c, j)' <=> Deleting(c, j)
    BY <1>5, <1>8 DEF Deleting
  <2>2. \A j : (Deleting(o, j)' <=> j = id) /\ (Deleting(o, j) => j = id)
    BY <1>5, <1>6, <1>7 DEF Deleting
  <2> QED BY <2>1, <2>2
<1>11. \A j : Unseen(j)' = Unseen(j)
  BY <1>3, AnswersHits
<1>12. ~Inserting(r, id)
  BY <1>6 DEF InStep, Inserts
<1>13. SameTables'
  BY <1>4, <1>5, <1>11 DEF InStep, SameTables
<1>14. Inserts(r)'
  <2>1. ASSUME tool[r].op \in Setters, Sending(r), NEW i \in DOMAIN outbox', Accepts(i, r)'
        PROVE  outbox'[i].bkpt = tool[r].token
    <3>1. ~(Sending(r) /\ tool[r].token = inbox[1].token)
      BY <1>6, <2>1 DEF Pending, Setters
    <3>2. i \in DOMAIN outbox /\ Accepts(i, r) /\ outbox'[i] = outbox[i]
      BY <1>3, <2>1, <3>1, AnswersCalls
    <3> QED BY <2>1, <3>2 DEF InStep, Inserts
  <2> QED BY <1>4, <1>5, <1>9, <2>1 DEF InStep, Inserts, NewBreakpoint, Sending
<1>15. Deletes'
  BY <1>4, <1>10 DEF InStep, Deletes
<1>16. Differ(r)'
  <2>1. Differ(r)
    BY <1>2 DEF InStep
  <2>2. \A j \in DOMAIN table' \ DOMAIN breakpoints' : Inserting(r, j)'
    BY <1>4, <1>5, <1>9, <2>1 DEF Differ
  <2>3. tool'[r].op \in Setters /\ Executed(r)' => tool'[r].token \in DOMAIN table'
    <3> SUFFICES ASSUME tool[r].op \in Setters, Executed(r)' PROVE tool[r].token \in DOMAIN table'
      BY <1>5
    <3>1. Executed(r)
      BY <1>6, <1>8 DEF Setters
    <3>2. tool[r].token \in DOMAIN table /\ Inserting(r, tool[r].token)
      BY <2>1, <3>1 DEF Differ, Inserting
    <3> QED BY <1>4, <1>12, <3>2
  <2>4. \A j \in DOMAIN breakpoints' \ DOMAIN table' :
           \/ \E d \in Clients : Deleting(d, j)'
           \/ breakpoints'[j].temporary /\ breakpoints'[j].hits + Unseen(j)' = 1
    <3> SUFFICES ASSUME NEW j \in DOMAIN breakpoints, j \notin DOMAIN table'
                 PROVE  \/ \E d \in Clients : Deleting(d, j)'
                        \/ breakpoints[j].temporary /\ breakpoints[j].hits + Unseen(j) = 1
      BY <1>5, <1>11
    <3>1. CASE j = id
      BY <1>6, <1>10, <3>1 DEF Deleting
    <3>2. CASE j # id
      BY <1>4, <1>10, <2>1, <3>2 DEF Differ
    <3> QED BY <3>1, <3>2
  <2> QED BY <2>2, <2>3, <2>4 DEF Differ
<1>17. Unnumbered'
  BY <1>2, <1>3, <1>4, <1>5 DEF InStep, Unnumbered, Answers
<1> QED BY <1>13, <1>14, <1>15, <1>16, <1>17 DEF InStep

\* The target stops, maybe at a breakpoint.
LEMMA StopsInStep ==
  ASSUME NEW r \in Clients, Shape, OneStop, Phase(r), InStep(r), NEW id \in {0} \cup DOMAIN table, TargetStops(id)
  PROVE  InStep(r)'
<1> DEFINE record == [type |-> "stopped", stop |-> stops + 1, bkpt |-> id]
<1>1. gdb = "running" /\ gdb' # "gone" /\ UNCHANGED <<tool, breakpoints, events, inbox>>
  BY DEF TargetStops, sessionVars
<1>2. PICK n : Added(n, record)
  BY StopsEffect
<1>3. record.type = "stopped" /\ record.bkpt = id
  OBVIOUS
<1> HIDE DEF record
<1>4. InRun(r) /\ Executed(r) /\ events = <<>> /\ \A i \in DOMAIN outbox : ~IsStop(i)
  BY <1>1 DEF Phase, Settled, OneStop, StopUnseen, Out
<1>5. Differ(r) /\ Unnumbered
  BY <1>1 DEF InStep
<1>6. \A j : (HitUnseen(j)' <=> j = id) /\ ~HitUnseen(j)
  <2>1. \A i \in DOMAIN outbox' : IsStop(i)' <=> i = n
    BY <1>2, <1>3, <1>4 DEF Added, IsStop
  <2>2. n \in DOMAIN outbox' /\ outbox'[n].bkpt = id
    BY <1>2, <1>3 DEF Added
  <2> QED BY <1>1, <1>4, <2>1, <2>2 DEF HitUnseen
<1>7. \A j : Unseen(j) = 0 /\ Unseen(j)' = IF j = id THEN 1 ELSE 0
  BY <1>6 DEF Unseen
<1>8. \A c \in Clients : \A i \in DOMAIN outbox' : Accepts(i, c)' <=> (i \in DOMAIN outbox /\ Accepts(i, c))
  BY <1>1, <1>2, <1>3 DEF Added, Accepts, IsResult
<1>9. \A c \in Clients : Executed(c)' <=> Executed(c)
  BY <1>1, <1>2, <1>8 DEF Executed, Sending, Added
<1>10. /\ \A c \in Clients : \A j : Deleting(c, j)' <=> Deleting(c, j)
       /\ \A j : ~Inserting(r, j) /\ ~Inserting(r, j)'
  BY <1>1, <1>4, <1>9 DEF Deleting, Inserting, InRun, Runs, Setters
<1>11. DOMAIN table \subseteq DOMAIN breakpoints
  BY <1>5, <1>10 DEF Differ
\* the hit
<1>12. /\ DOMAIN table' \subseteq DOMAIN table
       /\ \A j \in DOMAIN table' : /\ table'[j].temporary = table[j].temporary
                                   /\ table'[j].hits = table[j].hits + Unseen(j)'
                                   /\ table'[j].temporary => j # id
       /\ \A j \in DOMAIN table \ DOMAIN table' : j = id /\ table[j].temporary
  <2>1. \A j \in DOMAIN table : table[j].hits \in Nat /\ table[j].hits + 0 = table[j].hits
    BY DEF Shape, IsTable, Breakpoint
  <2>2. CASE id = 0
    <3>1. table' = table /\ 0 \notin DOMAIN table
      BY <2>2 DEF TargetStops, InStep, SameTables
    <3> QED BY <1>7, <2>1, <2>2, <3>1
  <2>3. CASE id # 0 /\ table[id].temporary
    <3>1. table' = Restrict(table, DOMAIN table \ {id}) /\ id \in DOMAIN table
      BY <2>3 DEF TargetStops
    <3>2. DOMAIN table' = DOMAIN table \ {id} /\ \A j \in DOMAIN table' : table'[j] = table[j]
      BY <3>1 DEF Restrict
    <3> QED BY <1>7, <2>1, <2>3, <3>2
  <2>4. CASE id # 0 /\ ~table[id].temporary
    <3> DEFINE counted == [table[id] EXCEPT !.hits = @ + 1]
    <3>1. table' = [table EXCEPT ![id] = counted] /\ id \in DOMAIN table
      BY <2>4 DEF TargetStops
    <3>2. counted.temporary = table[id].temporary /\ counted.hits = table[id].hits + 1
      BY <3>1 DEF Shape, IsTable, Breakpoint
    <3> HIDE DEF counted
    <3>3. DOMAIN table' = DOMAIN table /\ table'[id] = counted /\ \A j \in DOMAIN table : j # id => table'[j] = table[j]
      BY <3>1
    <3> QED BY <1>7, <2>1, <2>4, <3>2, <3>3
  <2> QED BY <2>2, <2>3, <2>4
<1>13. \A j \in DOMAIN table : /\ table[j].temporary = breakpoints[j].temporary
                               /\ table[j].hits = breakpoints[j].hits
                               /\ table[j].temporary => table[j].hits = 0
  BY <1>7, <1>11 DEF InStep, SameTables, Shape, IsTable, Breakpoint
<1>14. SameTables'
  <2>1. \A j \in DOMAIN table' : table'[j].temporary => table'[j].hits = 0
    BY <1>7, <1>12, <1>13
  <2> QED BY <1>1, <1>12, <1>13, <2>1 DEF InStep, SameTables
<1>15. Inserts(r)'
  <2>1. tool'[r].op \notin Setters
    BY <1>1, <1>4 DEF InRun, Runs, Setters
  <2> QED BY <1>1, <1>10, <2>1 DEF InStep, Inserts
<1>16. Deletes'
  BY <1>10, <1>12 DEF InStep, Deletes
<1>17. Differ(r)'
  <2>1. \A j \in DOMAIN table' \ DOMAIN breakpoints' : Inserting(r, j)'
    BY <1>1, <1>11, <1>12
  <2>2. tool'[r].op \notin Setters
    BY <1>1, <1>4 DEF InRun, Runs, Setters
  <2>3. \A j \in DOMAIN breakpoints' \ DOMAIN table' :
           \/ \E d \in Clients : Deleting(d, j)'
           \/ breakpoints'[j].temporary /\ breakpoints'[j].hits + Unseen(j)' = 1
    <3> SUFFICES ASSUME NEW j \in DOMAIN breakpoints, j \notin DOMAIN table'
                 PROVE  \/ \E d \in Clients : Deleting(d, j)'
                        \/ breakpoints[j].temporary /\ breakpoints[j].hits + Unseen(j)' = 1
      BY <1>1
    <3>1. CASE j \in DOMAIN table
      <4>1. j = id /\ table[j].temporary /\ breakpoints[j].hits = 0 /\ breakpoints[j].temporary
        BY <1>12, <1>13, <3>1
      <4> QED BY <1>7, <4>1
    <3>2. CASE j \notin DOMAIN table
      <4>1. (\E d \in Clients : Deleting(d, j)) \/ (breakpoints[j].temporary /\ breakpoints[j].hits + Unseen(j) = 1)
        BY <1>5, <3>2 DEF Differ
      <4>2. j # id
        BY <3>2 DEF InStep, SameTables
      <4> QED BY <1>7, <1>10, <4>1, <4>2
    <3> QED BY <3>1, <3>2
  <2> QED BY <2>1, <2>2, <2>3 DEF Differ
<1>18. Unnumbered'
  BY <1>1, <1>5, <1>12 DEF Unnumbered
<1> QED BY <1>14, <1>15, <1>16, <1>17, <1>18 DEF InStep

\* GDB keeps the tables in step.
LEMMA GdbInStep ==
  ASSUME NEW r \in Clients, Shape, Pending, Roles(r), Owned, OneStop, Phase(r), InStep(r), Gdb
  PROVE  InStep(r)'
<1>1. CASE GdbRuns
  <2>1. inbox[1].text \notin Setters \cup {"delete"} /\ UNCHANGED table
    BY <1>1, ReadsEffect DEF GdbRuns, Runs, Setters
  <2> QED BY <1>1, <2>1, RunsAnswers, OtherAnswersInStep
<1>2. CASE GdbResets
  <2>1. /\ Reads({"reset_halt", "reset_run"}) /\ outbox' = Append(outbox, Result("done", 0))
        /\ UNCHANGED <<connVars, sessionVars, tool, stops, gdb, table>>
    BY <1>2 DEF GdbResets
  <2>2. gdb # "gone" /\ inbox[1].text \notin Setters \cup {"delete"}
    BY <2>1, ReadsEffect DEF Setters
  <2>3. Answers(Len(outbox) + 1, "done", 0)
    BY <2>1, <2>2, AnswersEffect
  <2> QED BY <2>1, <2>2, <2>3, OtherAnswersInStep
<1>3. CASE GdbRefuses
  <2>1. /\ Reads(Commands \cup {"interrupt"}) /\ outbox' = Append(outbox, Result("error", 0))
        /\ UNCHANGED <<connVars, sessionVars, tool, targetVars>>
    BY <1>3 DEF GdbRefuses
  <2>2. gdb # "gone" /\ UNCHANGED <<gdb, stops, table>>
    BY <2>1, ReadsEffect DEF targetVars
  <2>3. Answers(Len(outbox) + 1, "error", 0)
    BY <2>1, <2>2, AnswersEffect
  <2> QED BY <2>2, <2>3, OtherAnswersInStep
<1>4. ~GdbInterrupts
  <2> SUFFICES ASSUME GdbInterrupts PROVE FALSE
    OBVIOUS
  <2>1. inbox[1].text = "interrupt" /\ gdb # "gone" /\ 1 \in DOMAIN inbox
    BY ReadsEffect DEF GdbInterrupts
  <2>2. PICK c \in Clients : Sending(c) /\ tool[c].op = inbox[1].text
    BY <2>1 DEF Owned
  <2> QED BY <2>1, <2>2 DEF Roles, Sending
<1>5. CASE GdbDies
  <2>1. UNCHANGED <<tool, breakpoints, table, outbox, events>> /\ gdb' = "gone" /\ gdb # "gone"
    BY <1>5 DEF GdbDies, sessionVars
  <2>2. ChangesKept /\ OnlySets(r)' /\ AnswerNumbers(r)' /\ DeletesOthers(r)'
    BY <2>1 DEF ChangesKept, Changing, Executed, Sending, Accepts, IsResult, OnlySets, AnswerNumbers,
                DeletesOthers, Inserting, InStep, Inserts
  <2>3. \A id \in DOMAIN breakpoints : HitUnseen(id)' <=> HitUnseen(id)
    BY <2>1 DEF HitUnseen, IsStop
  <2> QED BY <2>1, <2>2, <2>3, InStepKept
<1> QED BY <1>1, <1>2, <1>3, <1>4, <1>5, InsertsInStep, DeletesInStep, StopsInStep DEF Gdb

\* Every step keeps the tables in step.
LEMMA StepInStep ==
  ASSUME NEW r \in Clients, RunsAlone(r), SetsAlone(r), Shape, Pending, Roles(r), Owned, OneStop, Phase(r),
         InStep(r), [Next]_vars
  PROVE  InStep(r)'
<1>1. ASSUME NEW c \in Clients, Resume(c) PROVE InStep(r)'
  <2>1. CASE BreakpointAccepted(c)
    BY <2>1, DeletionRecorded, InsertionRecorded DEF BreakpointAccepted, Setters
  <2>2. CASE Disconnected(c)
    BY <2>2, DisconnectedInStep
  <2> QED BY <1>1, <2>1, <2>2, ResumeInStep
<1>2. CASE UNCHANGED vars
  <2>1. UNCHANGED <<events, breakpoints, inbox, outbox, table, gdb, tool>>
    BY <1>2 DEF vars, sessionVars, targetVars
  <2> QED BY <2>1, InStepEnds
<1> QED BY <1>1, <1>2, BeginInStep, LoopInStep, GdbInStep, NoTimer DEF Next

-----------------------------------------------------------------------------
(* What holds of a session whose target one client runs. *)

\* The invariant of a session whose target one client runs.
OneRunner(r) == Shape /\ Pending /\ Follows /\ Roles(r) /\ Owned /\ OneStop /\ Phase(r)

\* The invariant of a session with one runner.
LEMMA OneRunnerHolds ==
  ASSUME NEW r \in Clients, RunsAlone(r)
  PROVE  Spec => []OneRunner(r)
<1>1. Init => OneRunner(r)
  <2> SUFFICES ASSUME Init PROVE OneRunner(r)
    OBVIOUS
  <2>1. Shape
    BY InitShape
  <2>2. Pending /\ Roles(r) /\ Owned
    BY DEF Init, Pending, Sending, Roles, Owned, IsResult, Runs
  <2>3. Follows /\ OneStop
    BY DEF Init, Follows, Up, Tells, OneStop, StopUnseen, IsStop
  <2>4. Phase(r)
    BY DEF Init, Phase, Out, InRun, Executed, Sending, Settled, StopUnseen, IsStop, Runs
  <2> QED BY <2>1, <2>2, <2>3, <2>4 DEF OneRunner
<1>2. OneRunner(r) /\ [Next]_vars => OneRunner(r)'
  <2> SUFFICES ASSUME OneRunner(r), [Next]_vars PROVE OneRunner(r)'
    OBVIOUS
  <2> QED BY StepShape, StepPending, StepFollows, StepRoles, StepOwned, StepOneStop, StepPhase DEF OneRunner
<1> QED BY <1>1, <1>2, PTL DEF Spec

\* A run returns a stop that came after its own command: _resume_and_wait clears the
\* event before it sends, and nobody else's command can be answered in between.
THEOREM StopsAreFresh ==
  ASSUME NEW r \in Clients, RunsAlone(r)
  PROVE  Spec => []FreshStop
<1>1. OneRunner(r) => FreshStop
  BY DEF OneRunner, FreshStop, Roles, Phase, InRun
<1> QED BY <1>1, OneRunnerHolds, PTL

\* A run does not wait for a stop that has been processed or that will not come: the
\* event is cleared before the command is sent, never after its answer.
THEOREM NoStopIsLost ==
  ASSUME NEW r \in Clients, RunsAlone(r)
  PROVE  Spec => []NoLostStop
<1>1. OneRunner(r) => NoLostStop
  <2> SUFFICES ASSUME OneRunner(r), NEW c \in Clients, tool[c].pc \in {"waiting", "grace"}
               PROVE  StopOnItsWay
    BY DEF NoLostStop
  <2>1. c = r /\ InRun(r) /\ tool[r].pc = "waiting"
    BY DEF OneRunner, Roles, InRun
  <2>2. Out(r)
    BY <2>1 DEF OneRunner, Phase, Out, Executed
  <2> QED BY <2>2 DEF OneRunner, Phase, StopUnseen, IsStop, StopOnItsWay
<1> QED BY <1>1, OneRunnerHolds, PTL

\* The invariant of a session with one runner who also sets the breakpoints.
LEMMA TablesInStep ==
  ASSUME NEW r \in Clients, RunsAlone(r), SetsAlone(r)
  PROVE  Spec => [](OneRunner(r) /\ InStep(r))
<1>1. Init => InStep(r)
  <2> SUFFICES ASSUME Init PROVE InStep(r)
    OBVIOUS
  <2>1. \A c \in Clients : tool[c].op = "interrupt" /\ ~Executed(c) /\ ~Sending(c)
    BY DEF Init, Executed, Sending
  <2>2. DOMAIN breakpoints = {} /\ DOMAIN table = {} /\ inbox = <<>>
    BY DEF Init
  <2> QED BY <2>1, <2>2 DEF InStep, SameTables, Inserts, Deletes, Differ, Unnumbered, Setters, Inserting, Deleting
<1>2. OneRunner(r) /\ InStep(r) /\ [Next]_vars => InStep(r)'
  <2> SUFFICES ASSUME OneRunner(r), InStep(r), [Next]_vars PROVE InStep(r)'
    OBVIOUS
  <2> QED BY StepInStep DEF OneRunner
<1> QED BY <1>1, <1>2, OneRunnerHolds, PTL DEF Spec

\* When nothing is on its way, the session's breakpoint table and GDB's have the same
\* breakpoints (set_breakpoint, remove_breakpoint, _process_stop_event).
THEOREM TheTablesMatch ==
  ASSUME NEW r \in Clients, RunsAlone(r), SetsAlone(r)
  PROVE  Spec => []BreakpointsMatch
<1>1. OneRunner(r) /\ InStep(r) => BreakpointsMatch
  <2> SUFFICES ASSUME OneRunner(r), InStep(r), Quiet, Up, gdb # "gone"
               PROVE  /\ DOMAIN table \subseteq DOMAIN breakpoints
                      /\ \A id \in DOMAIN breakpoints \ DOMAIN table :
                           breakpoints[id].temporary /\ breakpoints[id].hits = 1
    BY DEF BreakpointsMatch
  <2>1. \A c \in Clients : Executed(c) => tool[c].op \in Runs
    BY DEF Quiet, Executed, Sending, Finished, OneRunner, Roles
  <2>2. /\ \A c \in Clients : \A id : ~Deleting(c, id)
        /\ \A id : ~Inserting(r, id)
    BY <2>1 DEF Deleting, Inserting, Runs, Setters
  <2>3. \A id : Unseen(id) = 0
    BY DEF Quiet, Unseen, HitUnseen
  <2>4. Differ(r) /\ \A id \in DOMAIN breakpoints : breakpoints[id].hits \in Nat
    BY DEF InStep, OneRunner, Shape, IsTable, Breakpoint
  <2> QED BY <2>2, <2>3, <2>4 DEF Differ
<1> QED BY <1>1, TablesInStep, PTL

\* When nothing is on its way, the session has counted every hit that GDB has: no hit is
\* processed before its breakpoint is in the table.
THEOREM TheHitsMatch ==
  ASSUME NEW r \in Clients, RunsAlone(r), SetsAlone(r)
  PROVE  Spec => []HitsMatch
<1>1. OneRunner(r) /\ InStep(r) => HitsMatch
  <2> SUFFICES ASSUME OneRunner(r), InStep(r), Quiet, NEW id \in DOMAIN breakpoints \cap DOMAIN table
               PROVE  breakpoints[id].hits = table[id].hits
    BY DEF HitsMatch
  <2>1. Unseen(id) = 0
    BY DEF Quiet, Unseen, HitUnseen
  <2>2. breakpoints[id].hits \in Nat
    BY DEF OneRunner, Shape, IsTable, Breakpoint
  <2> QED BY <2>1, <2>2 DEF InStep, SameTables
<1> QED BY <1>1, TablesInStep, PTL
=============================================================================
