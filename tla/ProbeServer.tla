---------------------------- MODULE ProbeServer ----------------------------
(***************************************************************************)
(* A debug server process behind one object of src/server/probe:           *)
(* OpenOCDServer, JLinkServer, PyOCDServer, QEMUTarget, QEMUSystemMIPS and *)
(* QEMUUserTarget.  The six classes have the same start, stop and          *)
(* is_running; they differ in how start decides that the server is up:     *)
(* the "grace" kind waits a second or two for the process not to exit,     *)
(* the "port" kind (QEMUUserTarget) polls the GDB port until it accepts a  *)
(* connection.  Every await is a point where other callers of the object,  *)
(* and the process itself, may take steps.                                 *)
(***************************************************************************)
EXTENDS Naturals

CONSTANTS
    Clients,    \* the tasks that call start and stop of the object
    Kinds,      \* the kinds the object may be of: "grace", "port"
    MaxSpawns   \* bound: how many processes the object starts

ASSUME ServerAssumption == Kinds \subseteq {"grace", "port"} /\ MaxSpawns \in Nat

VARIABLES
    kind,       \* the kind of the object
    process,    \* self._process: the number of the process, 0 for None
    spawned,    \* how many processes were started so far
    proc,       \* what became of each process
    listening,  \* the processes whose GDB port accepts connections
    pc,         \* where each client's call is suspended
    awaited,    \* the process a suspended call waits for
    result      \* how the client's last call ended

vars == <<kind, process, spawned, proc, listening, pc, awaited, result>>

Procs == 1..MaxSpawns

(***************************************************************************)
(* A process is told to end by SIGTERM ("termed", which it may ignore) or  *)
(* SIGKILL ("killed"); "dead" is a process whose returncode is set.        *)
(***************************************************************************)
Fates == {"none", "alive", "termed", "killed", "dead"}

Phases == {"idle", "spawn", "grace", "stderr", "poll", "stop"}

Results == {"none", "started", "stopped", "error"}

\* Every variable keeps to its values.
TypeOK ==
    /\ kind \in Kinds
    /\ process \in 0..MaxSpawns
    /\ spawned \in 0..MaxSpawns
    /\ proc \in [Procs -> Fates]
    /\ listening \in SUBSET Procs
    /\ pc \in [Clients -> Phases]
    /\ awaited \in [Clients -> 0..MaxSpawns]
    /\ result \in [Clients -> Results]

Exists(p) == proc[p] \in {"alive", "termed", "killed"}

IsRunning == process # 0 /\ Exists(process)

Init ==
    /\ kind \in Kinds
    /\ process = 0
    /\ spawned = 0
    /\ proc = [p \in Procs |-> "none"]
    /\ listening = {}
    /\ pc = [c \in Clients |-> "idle"]
    /\ awaited = [c \in Clients |-> 0]
    /\ result = [c \in Clients |-> "none"]

\* The call of c ends with r.
Ends(c, r) ==
    /\ pc' = [pc EXCEPT ![c] = "idle"]
    /\ awaited' = [awaited EXCEPT ![c] = 0]
    /\ result' = [result EXCEPT ![c] = r]
    /\ UNCHANGED kind

\* The call of c goes on to wait for process p.
Awaits(c, phase, p) ==
    /\ pc' = [pc EXCEPT ![c] = phase]
    /\ awaited' = [awaited EXCEPT ![c] = p]
    /\ UNCHANGED <<result, kind>>

-----------------------------------------------------------------------------
(* start *)

Start(c) ==
    /\ pc[c] = "idle"
    /\ \/ IsRunning /\ Ends(c, "started")
       \/ ~IsRunning /\ Ends(c, "error")   \* the program is not installed
       \/ ~IsRunning /\ spawned < MaxSpawns /\ Awaits(c, "spawn", 0)
    /\ UNCHANGED <<process, spawned, proc, listening>>

\* create_subprocess_exec returns and self._process is assigned.
Spawned(c) ==
    /\ pc[c] = "spawn"
    /\ spawned < MaxSpawns
    /\ spawned' = spawned + 1
    /\ process' = spawned'
    /\ proc' = [proc EXCEPT ![spawned'] = "alive"]
    /\ Awaits(c, IF kind = "grace" THEN "grace" ELSE "poll", spawned')
    /\ UNCHANGED listening

SpawnFails(c) ==
    /\ pc[c] = "spawn"
    /\ Ends(c, "error")
    /\ UNCHANGED <<process, spawned, proc, listening>>

\* The last statement of start logs self._process.pid, whatever
\* self._process is by then.
Reports(c) == Ends(c, IF process = 0 THEN "error" ELSE "started")

\* What the failing start does with a process that has exited: read the
\* standard error of self._process to its end, then raise.
ReadsStderr(c) ==
    IF process = 0 THEN Ends(c, "error") ELSE Awaits(c, "stderr", process)

StillRunning(c) ==
    /\ pc[c] = "grace"
    /\ Exists(awaited[c])
    /\ Reports(c)
    /\ UNCHANGED <<process, spawned, proc, listening>>

ExitedAtOnce(c) ==
    /\ pc[c] = "grace"
    /\ proc[awaited[c]] = "dead"
    /\ ReadsStderr(c)
    /\ UNCHANGED <<process, spawned, proc, listening>>

\* _wait_for_port gets a connection, from whichever process listens there.
PortReady(c) ==
    /\ pc[c] = "poll"
    /\ listening # {}
    /\ Reports(c)
    /\ UNCHANGED <<process, spawned, proc, listening>>

\* Mutant: the failing start forgets the process that it started.
PortGivesUp(c) ==
    /\ pc[c] = "poll"
    /\ process' = 0
    /\ Ends(c, "error")
    /\ UNCHANGED <<spawned, proc, listening>>

PortNotReady(c) ==
    /\ pc[c] = "poll"
    /\ IF process # 0 /\ ~Exists(process) THEN ReadsStderr(c) ELSE Ends(c, "error")
    /\ UNCHANGED <<process, spawned, proc, listening>>

StderrRead(c) ==
    /\ pc[c] = "stderr"
    /\ proc[awaited[c]] = "dead"
    /\ Ends(c, "error")
    /\ UNCHANGED <<process, spawned, proc, listening>>

-----------------------------------------------------------------------------
(* stop *)

Stop(c) ==
    /\ pc[c] = "idle"
    /\ IF IsRunning
       THEN /\ proc' = [proc EXCEPT ![process] = IF @ = "alive" THEN "termed" ELSE @]
            /\ Awaits(c, "stop", process)
            /\ UNCHANGED process
       ELSE /\ process' = 0
            /\ Ends(c, "stopped")
            /\ UNCHANGED proc
    /\ UNCHANGED <<spawned, listening>>

Stopped(c) ==
    /\ pc[c] = "stop"
    /\ proc[awaited[c]] = "dead"
    /\ process' = 0
    /\ Ends(c, "stopped")
    /\ UNCHANGED <<spawned, proc, listening>>

\* Mutant: the timeout of stop is raised to its caller.
StopRaises(c) ==
    /\ pc[c] = "stop"
    /\ Exists(awaited[c])
    /\ Ends(c, "timeout")
    /\ UNCHANGED <<process, spawned, proc, listening>>

\* Mutant: stop waits without a timeout.
StopWaits(c) ==
    /\ pc[c] = "stop"
    /\ ~Exists(awaited[c])
    /\ process' = 0
    /\ Ends(c, "stopped")
    /\ UNCHANGED <<spawned, proc, listening>>

\* The wait times out and the handler kills self._process, which another
\* call may have cleared, replaced or seen exit in the meantime.
StopTimesOut(c) ==
    /\ pc[c] = "stop"
    /\ Exists(awaited[c])
    /\ IF IsRunning
       THEN /\ proc' = [proc EXCEPT ![process] = "killed"]
            /\ process' = 0
            /\ Ends(c, "stopped")
       ELSE Ends(c, "error") /\ UNCHANGED <<proc, process>>
    /\ UNCHANGED <<spawned, listening>>

-----------------------------------------------------------------------------
(* The process *)

\* The server opens its port, unless a process before it still holds it.
Listens(p) ==
    /\ proc[p] \in {"alive", "termed"}
    /\ listening = {}
    /\ listening' = {p}
    /\ UNCHANGED <<kind, process, spawned, proc, pc, awaited, result>>

Exits(p) ==
    /\ Exists(p)
    /\ proc' = [proc EXCEPT ![p] = "dead"]
    /\ listening' = listening \ {p}
    /\ UNCHANGED <<kind, process, spawned, pc, awaited, result>>

-----------------------------------------------------------------------------

Call(c) == Start(c) \/ Stop(c)

Resume(c) ==
    \/ Spawned(c) \/ SpawnFails(c) \/ StillRunning(c) \/ ExitedAtOnce(c)
    \/ PortReady(c) \/ PortNotReady(c) \/ StderrRead(c)
    \/ Stopped(c) \/ StopTimesOut(c)

Next ==
    \/ \E c \in Clients : Call(c) \/ Resume(c)
    \/ \E p \in Procs : Listens(p) \/ Exits(p)

Spec == Init /\ [][Next]_vars

(***************************************************************************)
(* The event loop resumes every suspended call: the waits of start and of  *)
(* stop have timers and the standard error of a dead process ends.  The    *)
(* processes are not asked for anything.                                   *)
(***************************************************************************)
FairSpec == Spec /\ \A c \in Clients : WF_vars(Resume(c))

-----------------------------------------------------------------------------

\* A process that runs and was not sent SIGKILL is the one the object holds:
\* neither a start that failed, nor a retry, nor a stop that timed out may
\* leave a server behind that no later stop can reach.
NoOrphan ==
    \A p \in Procs : proc[p] \in {"alive", "termed"} => p = process

\* start returns the port only when a server accepts connections there: the
\* comment in QEMUUserTarget.start says that it verifies this.
StartedMeansReady ==
    [][\A c \in Clients :
         result[c] # "started" /\ result'[c] = "started" => listening # {}]_vars

\* Every call of start and stop ends, whatever the server does.
EveryCallEnds == \A c \in Clients : pc[c] # "idle" ~> pc[c] = "idle"

=============================================================================
