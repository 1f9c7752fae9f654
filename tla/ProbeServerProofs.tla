------------------------- MODULE ProbeServerProofs -------------------------
(***************************************************************************)
(* Proofs about ProbeServer for an object whose calls do not overlap, for  *)
(* every number of processes and both ways of waiting for the server.      *)
(***************************************************************************)
EXTENDS ProbeServer, TLAPS

(***************************************************************************)
(* The inductive invariant.  NoOrphan alone is not inductive: a start that *)
(* is creating a process relies on no process running then, and the waits  *)
(* rely on self._process still being the process they wait for, which is   *)
(* what calls that do not overlap give.                                    *)
(***************************************************************************)
Numbered ==
    /\ process <= spawned
    /\ \A p \in Procs : proc[p] = "none" <=> p > spawned

NothingRuns == \A p \in Procs : proc[p] \notin {"alive", "termed"}

Held ==
    \A c \in Clients :
        /\ pc[c] = "spawn" => NothingRuns
        /\ pc[c] \in {"grace", "poll", "stop"} =>
               awaited[c] = process /\ process # 0

IInv == TypeOK /\ NoOrphan /\ Numbered /\ Held

\* Calls of the object do not overlap: every task is the same one.
Sequential == \A c, d \in Clients : c = d

\* An object that was just made satisfies it.
LEMMA InitIInv == Init => IInv
BY ServerAssumption DEF Init, IInv, TypeOK, NoOrphan, Numbered, Held, NothingRuns,
    Procs, Fates, Phases, Results

\* Every step of calls that do not overlap preserves it, one step per action.
LEMMA NextIInv ==
    ASSUME Sequential, IInv, [Next]_vars
    PROVE  IInv'
<1> USE ServerAssumption DEF IInv, TypeOK, NoOrphan, Numbered, Held, NothingRuns,
        Procs, Fates, Phases, Results, Exists, IsRunning
<1>1. ASSUME NEW c \in Clients, Start(c) PROVE IInv'
  BY <1>1 DEF Sequential, Start, Ends, Awaits
<1>2. ASSUME NEW c \in Clients, Stop(c) PROVE IInv'
  BY <1>2 DEF Sequential, Stop, Ends, Awaits
<1>3. ASSUME NEW c \in Clients, Spawned(c) PROVE IInv'
  <2>1. spawned + 1 \in Procs /\ proc[spawned + 1] = "none"
    BY <1>3 DEF Spawned
  <2> QED BY <1>3, <2>1 DEF Sequential, Spawned, Awaits
<1>4. ASSUME NEW c \in Clients, SpawnFails(c) PROVE IInv'
  BY <1>4 DEF Sequential, SpawnFails, Ends
<1>5. ASSUME NEW c \in Clients, StillRunning(c) PROVE IInv'
  BY <1>5 DEF Sequential, StillRunning, Reports, Ends
<1>6. ASSUME NEW c \in Clients, ExitedAtOnce(c) PROVE IInv'
  BY <1>6 DEF Sequential, ExitedAtOnce, ReadsStderr, Ends, Awaits
<1>7. ASSUME NEW c \in Clients, PortReady(c) PROVE IInv'
  BY <1>7 DEF Sequential, PortReady, Reports, Ends
<1>8. ASSUME NEW c \in Clients, PortNotReady(c) PROVE IInv'
  BY <1>8 DEF Sequential, PortNotReady, ReadsStderr, Ends, Awaits
<1>9. ASSUME NEW c \in Clients, StderrRead(c) PROVE IInv'
  BY <1>9 DEF Sequential, StderrRead, Ends
<1>10. ASSUME NEW c \in Clients, Stopped(c) PROVE IInv'
  BY <1>10 DEF Sequential, Stopped, Ends
<1>11. ASSUME NEW c \in Clients, StopTimesOut(c) PROVE IInv'
  BY <1>11 DEF Sequential, StopTimesOut, Ends
<1>12. ASSUME NEW p \in Procs, Listens(p) PROVE IInv'
  BY <1>12 DEF Listens
<1>13. ASSUME NEW p \in Procs, Exits(p) PROVE IInv'
  BY <1>13 DEF Exits
<1>14. ASSUME UNCHANGED vars PROVE IInv'
  BY <1>14 DEF vars
<1> QED
  BY <1>1, <1>2, <1>3, <1>4, <1>5, <1>6, <1>7, <1>8, <1>9, <1>10, <1>11,
     <1>12, <1>13, <1>14 DEF Next, Call, Resume

\* Every state of an object whose calls do not overlap satisfies IInv.
THEOREM Invariant == ASSUME Sequential PROVE Spec => []IInv
<1>1. IInv /\ [Next]_vars => IInv'
  BY NextIInv
<1> QED BY InitIInv, <1>1, PTL DEF Spec

\* A server that still runs is the one the object holds, so that a later stop
\* can end it, whatever starts failed and stops timed out before.
THEOREM NoServerIsOrphaned == ASSUME Sequential PROVE Spec => []NoOrphan
<1>1. IInv => NoOrphan
  BY DEF IInv
<1> QED BY Invariant, <1>1, PTL

-----------------------------------------------------------------------------

\* What the end of a call, or of the way to its next await, leaves behind.
CallTypes ==
    /\ kind \in Kinds /\ pc \in [Clients -> Phases]
    /\ awaited \in [Clients -> 0..MaxSpawns] /\ result \in [Clients -> Results]

\* A call that ends keeps the types.
LEMMA EndsTypes ==
    ASSUME TypeOK, NEW c \in Clients, NEW r \in Results, Ends(c, r)
    PROVE  CallTypes'
BY ServerAssumption DEF TypeOK, CallTypes, Ends, Phases

\* A call that goes on to wait keeps them, too.
LEMMA AwaitsTypes ==
    ASSUME TypeOK, NEW c \in Clients, NEW phase \in Phases, NEW p \in 0..MaxSpawns,
           Awaits(c, phase, p)
    PROVE  CallTypes'
BY DEF TypeOK, CallTypes, Awaits

\* The types are kept by every step, also of calls that do overlap.
LEMMA NextTypeOK ==
    ASSUME TypeOK, [Next]_vars
    PROVE  TypeOK'
<1> USE ServerAssumption DEF CallTypes, Procs, Fates, Exists, IsRunning
<1>0. /\ "started" \in Results /\ "stopped" \in Results /\ "error" \in Results
      /\ "spawn" \in Phases /\ "grace" \in Phases /\ "stderr" \in Phases
      /\ "poll" \in Phases /\ "stop" \in Phases /\ 0 \in 0..MaxSpawns
  BY DEF Results, Phases
<1>1. ASSUME NEW c \in Clients, Start(c) PROVE TypeOK'
  <2>1. CallTypes'
    BY <1>0, <1>1, EndsTypes, AwaitsTypes DEF TypeOK, Start
  <2> QED BY <1>1, <2>1 DEF TypeOK, Start
<1>2. ASSUME NEW c \in Clients, Stop(c) PROVE TypeOK'
  <2>1. CallTypes'
    BY <1>0, <1>2, EndsTypes, AwaitsTypes DEF TypeOK, Stop
  <2> QED BY <1>2, <2>1 DEF TypeOK, Stop
<1>3. ASSUME NEW c \in Clients, Spawned(c) PROVE TypeOK'
  <2>1. CallTypes'
    BY <1>0, <1>3, EndsTypes, AwaitsTypes DEF TypeOK, Spawned
  <2> QED BY <1>3, <2>1 DEF TypeOK, Spawned
<1>4. ASSUME NEW c \in Clients, SpawnFails(c) PROVE TypeOK'
  <2>1. CallTypes'
    BY <1>0, <1>4, EndsTypes, AwaitsTypes DEF TypeOK, SpawnFails
  <2> QED BY <1>4, <2>1 DEF TypeOK, SpawnFails
<1>5. ASSUME NEW c \in Clients, StillRunning(c) PROVE TypeOK'
  <2>1. CallTypes'
    BY <1>0, <1>5, EndsTypes, AwaitsTypes DEF TypeOK, StillRunning, Reports
  <2> QED BY <1>5, <2>1 DEF TypeOK, StillRunning
<1>6. ASSUME NEW c \in Clients, ExitedAtOnce(c) PROVE TypeOK'
  <2>1. CallTypes'
    BY <1>0, <1>6, EndsTypes, AwaitsTypes DEF TypeOK, ExitedAtOnce, ReadsStderr
  <2> QED BY <1>6, <2>1 DEF TypeOK, ExitedAtOnce
<1>7. ASSUME NEW c \in Clients, PortReady(c) PROVE TypeOK'
  <2>1. CallTypes'
    BY <1>0, <1>7, EndsTypes, AwaitsTypes DEF TypeOK, PortReady, Reports
  <2> QED BY <1>7, <2>1 DEF TypeOK, PortReady
<1>8. ASSUME NEW c \in Clients, PortNotReady(c) PROVE TypeOK'
  <2>1. CallTypes'
    BY <1>0, <1>8, EndsTypes, AwaitsTypes DEF TypeOK, PortNotReady, ReadsStderr
  <2> QED BY <1>8, <2>1 DEF TypeOK, PortNotReady
<1>9. ASSUME NEW c \in Clients, StderrRead(c) PROVE TypeOK'
  <2>1. CallTypes'
    BY <1>0, <1>9, EndsTypes, AwaitsTypes DEF TypeOK, StderrRead
  <2> QED BY <1>9, <2>1 DEF TypeOK, StderrRead
<1>10. ASSUME NEW c \in Clients, Stopped(c) PROVE TypeOK'
  <2>1. CallTypes'
    BY <1>0, <1>10, EndsTypes, AwaitsTypes DEF TypeOK, Stopped
  <2> QED BY <1>10, <2>1 DEF TypeOK, Stopped
<1>11. ASSUME NEW c \in Clients, StopTimesOut(c) PROVE TypeOK'
  <2>1. CallTypes'
    BY <1>0, <1>11, EndsTypes, AwaitsTypes DEF TypeOK, StopTimesOut
  <2> QED BY <1>11, <2>1 DEF TypeOK, StopTimesOut
<1>12. ASSUME NEW p \in Procs, Listens(p) PROVE TypeOK'
  BY <1>12 DEF TypeOK, Listens
<1>13. ASSUME NEW p \in Procs, Exits(p) PROVE TypeOK'
  BY <1>13 DEF TypeOK, Exits
<1>14. ASSUME UNCHANGED vars PROVE TypeOK'
  BY <1>14 DEF TypeOK, vars
<1> QED
  BY <1>1, <1>2, <1>3, <1>4, <1>5, <1>6, <1>7, <1>8, <1>9, <1>10, <1>11, <1>12, <1>13,
     <1>14 DEF Next, Call, Resume

\* Whoever calls start and stop, and however often, the object's fields and the processes'
\* states keep to their values, and a call ends as started, stopped or with an error.
THEOREM TypeCorrect == Spec => []TypeOK
<1>1. Init => TypeOK
  BY ServerAssumption DEF Init, TypeOK, Procs, Fates, Phases, Results
<1> QED BY <1>1, NextTypeOK, PTL DEF Spec

=============================================================================
