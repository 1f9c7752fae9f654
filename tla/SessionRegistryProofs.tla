------------------------ MODULE SessionRegistryProofs ------------------------
(***************************************************************************)
(* For any number of clients and ids: as long as no two calls have worked  *)
(* on one id at a time since the server came up, no GDB is orphaned and    *)
(* nothing is saved that session_disconnect could not delete.  Without     *)
(* that condition both fail (README, section 7).                           *)
(***************************************************************************)
EXTENDS SessionRegistry, FiniteSetTheorems, TLAPS

-----------------------------------------------------------------------------
(* What holds however the calls overlap. *)

ToolsHaveObjects == \A c \in Clients : tool[c].pc # "idle" => tool[c].object \in 1..created

DownIsEmpty ==
  server = "down" =>
    /\ sessions = <<>> /\ gdb = {}
    /\ \A c \in Clients : tool[c].pc = "idle"

Base == TypeOK /\ ToolsHaveObjects /\ DownIsEmpty

-----------------------------------------------------------------------------
(* What holds as long as no two calls have worked on one id at a time. *)

\* A tool in progress works on the session registered under its id, alone.
ToolsOwnSessions ==
  \A c \in Clients :
    tool[c].pc # "idle" =>
      /\ tool[c].id \in DOMAIN sessions
      /\ sessions[tool[c].id] = tool[c].object
      /\ \A d \in Clients : d # c /\ tool[d].pc # "idle" => tool[d].id # tool[c].id

\* GDB lives from the end of the spawn to the end of the stop.
ProcessHasConnection ==
  /\ \A o \in gdb : conn[o] \in {"up", "stopping"}
  /\ \A c \in Clients : tool[c].pc = "spawning" => conn[tool[c].object] = "spawning"

Orderly ==
  /\ EveryGdbIsRegistered
  /\ EverySaveIsRegistered
  /\ ToolsOwnSessions
  /\ ProcessHasConnection

IInv == Base /\ (overlapped = {} => Orderly)

-----------------------------------------------------------------------------
\* Dropping an id leaves the other ids their objects.
LEMMA DropFacts ==
  ASSUME NEW map, NEW id
  PROVE  LET rest == Restrict(map, DOMAIN map \ {id})
         IN  /\ DOMAIN rest = DOMAIN map \ {id}
             /\ \A i \in DOMAIN map : i # id => rest[i] = map[i]
  BY DEF Restrict

\* A server that has just been installed satisfies the invariant.
LEMMA InitEstablishes == Init => IInv
  <1> SUFFICES ASSUME Init PROVE IInv
    OBVIOUS
  <1>1. /\ DOMAIN sessions = {} /\ gdb = {} /\ Loadable = {}
        /\ \A c \in Clients : tool[c].pc = "idle"
        /\ Idle \in Tools
    BY RegistryAssumption DEF Init, Loadable, Idle, Tools
  <1>2. TypeOK
    BY <1>1, RegistryAssumption DEF Init, TypeOK, IsInjective, Objects
  <1>3. Base
    BY <1>1, <1>2 DEF Init, Base, ToolsHaveObjects, DownIsEmpty
  <1>4. Orderly
    BY <1>1 DEF Orderly, EveryGdbIsRegistered, EverySaveIsRegistered, ToolsOwnSessions,
                ProcessHasConnection
  <1>5. QED
    BY <1>3, <1>4 DEF IInv

-----------------------------------------------------------------------------
\* A client that moves on keeps its id and its object.
LEMMA StepFacts ==
  ASSUME TypeOK, NEW c \in Clients, NEW pc \in {"idle", "replacing", "spawning", "selecting", "closing"},
         Step(c, pc)
  PROVE  /\ tool' \in [Clients -> Tools]
         /\ tool'[c].pc = pc /\ tool'[c].id = tool[c].id /\ tool'[c].object = tool[c].object
         /\ \A d \in Clients : d # c => tool'[d] = tool[d]
  BY DEF TypeOK, Step, Tools

\* What a call finds in its client's tool while it is in progress.
LEMMA ObjectFacts ==
  ASSUME Base, RegistryAssumption, NEW c \in Clients, tool[c].pc # "idle"
  PROVE  /\ server = "up" /\ tool[c].id \in Ids
         /\ tool[c].object \in 1..created /\ tool[c].object \in Objects
  BY DEF Base, TypeOK, ToolsHaveObjects, DownIsEmpty, Tools, Objects

\* The object that a call registers is new.
LEMMA NewObject ==
  ASSUME TypeOK, RegistryAssumption, created < MaxObjects
  PROVE  /\ created + 1 \in Objects /\ created + 1 \in 1..(created + 1)
         /\ created \in Nat /\ created + 1 \in 0..MaxObjects
         /\ \A n \in 0..created : n \in 0..(created + 1) /\ n # created + 1
         /\ \A n \in 1..created : n \in 1..(created + 1) /\ n # created + 1
  BY DEF RegistryAssumption, TypeOK, Objects

\* What registering does to the sessions, the tools and the connections.
LEMMA RegisterFacts ==
  ASSUME TypeOK, RegistryAssumption, NEW c \in Clients, NEW id \in Ids,
         NEW connections \in [Objects -> {"none", "spawning", "up", "stopping"}],
         Register(c, id, connections)
  PROVE  /\ cleared' = cleared \ {id}
         /\ created < MaxObjects /\ created' = created + 1
         /\ DOMAIN sessions' = DOMAIN sessions \cup {id}
         /\ sessions'[id] = created + 1
         /\ \A i \in DOMAIN sessions : i # id => sessions'[i] = sessions[i]
         /\ tool' \in [Clients -> Tools]
         /\ tool'[c] = [pc |-> "spawning", id |-> id, object |-> created + 1]
         /\ \A d \in Clients : d # c => tool'[d] = tool[d]
         /\ conn' \in [Objects -> {"none", "spawning", "up", "stopping"}]
         /\ conn'[created + 1] = "spawning"
         /\ \A p \in Objects : p # created + 1 => conn'[p] = connections[p]
  <1>1. created < MaxObjects /\ created' = created + 1 /\ cleared' = cleared \ {id}
    BY DEF Register
  <1>2. sessions' = Put(sessions, id, created + 1)
    BY <1>1 DEF Register
  <1>3. created + 1 \in Objects
    BY <1>1, NewObject
  <1>4. /\ tool' = [tool EXCEPT ![c] = [pc |-> "spawning", id |-> id, object |-> created + 1]]
        /\ conn' = [connections EXCEPT ![created + 1] = "spawning"]
    BY <1>1 DEF Register, Starts
  <1>5. /\ DOMAIN sessions' = DOMAIN sessions \cup {id} /\ sessions'[id] = created + 1
        /\ \A i \in DOMAIN sessions : i # id => sessions'[i] = sessions[i]
    BY <1>2 DEF Put
  <1>6. [pc |-> "spawning", id |-> id, object |-> created + 1] \in Tools
    BY <1>3 DEF Tools
  <1>7. /\ tool' \in [Clients -> Tools]
        /\ tool'[c] = [pc |-> "spawning", id |-> id, object |-> created + 1]
        /\ \A d \in Clients : d # c => tool'[d] = tool[d]
    BY <1>4, <1>6 DEF TypeOK
  <1>8. /\ conn' \in [Objects -> {"none", "spawning", "up", "stopping"}]
        /\ conn'[created + 1] = "spawning"
        /\ \A p \in Objects : p # created + 1 => conn'[p] = connections[p]
    BY <1>3, <1>4
  <1>9. QED
    BY <1>1, <1>5, <1>7, <1>8

\* A registered object is one of those created, and no other id has it.
LEMMA RegisterKeepsBase ==
  ASSUME Base, RegistryAssumption, server = "up", NEW c \in Clients, NEW id \in Ids,
         NEW connections \in [Objects -> {"none", "spawning", "up", "stopping"}],
         Register(c, id, connections), gdb' \subseteq gdb, overlapped' \subseteq Ids,
         UNCHANGED <<server, decoder, channels, disk>>
  PROVE  Base'
  <1>1. TypeOK /\ ToolsHaveObjects
    BY DEF Base
  <1>2. /\ cleared' = cleared \ {id}
        /\ created < MaxObjects /\ created' = created + 1
        /\ DOMAIN sessions' = DOMAIN sessions \cup {id}
        /\ sessions'[id] = created + 1
        /\ \A i \in DOMAIN sessions : i # id => sessions'[i] = sessions[i]
        /\ tool' \in [Clients -> Tools]
        /\ tool'[c] = [pc |-> "spawning", id |-> id, object |-> created + 1]
        /\ \A d \in Clients : d # c => tool'[d] = tool[d]
        /\ conn' \in [Objects -> {"none", "spawning", "up", "stopping"}]
    BY <1>1, RegisterFacts
  <1>3. /\ created + 1 \in 1..(created + 1)
        /\ created \in Nat /\ created + 1 \in 0..MaxObjects
        /\ \A n \in 0..created : n \in 0..(created + 1) /\ n # created + 1
        /\ \A n \in 1..created : n \in 1..(created + 1) /\ n # created + 1
    BY <1>1, <1>2, NewObject
  <1>4. \A i \in DOMAIN sessions : sessions[i] \in 1..created
    BY <1>1 DEF TypeOK
  <1>5. \A i \in DOMAIN sessions' : sessions'[i] \in 1..created'
    BY <1>2, <1>3, <1>4
  <1>6. IsInjective(sessions')
    BY <1>1, <1>2, <1>3, <1>4 DEF TypeOK, IsInjective
  <1>7. gdb' \subseteq 1..created' /\ decoder' \in [Ids -> 0..created'] /\ created' \in 0..MaxObjects
    BY <1>1, <1>2, <1>3 DEF TypeOK
  <1>8. TypeOK'
    BY <1>1, <1>2, <1>5, <1>6, <1>7 DEF TypeOK, disk
  <1>9. ToolsHaveObjects'
    BY <1>1, <1>2, <1>3 DEF ToolsHaveObjects
  <1>10. QED
    BY <1>8, <1>9 DEF Base, DownIsEmpty

\* What dropping an id leaves of the registry and of the disk.
LEMMA PopKeepsTypes ==
  ASSUME TypeOK, NEW id \in Ids, Pop(id)
  PROVE  /\ DOMAIN sessions' = DOMAIN sessions \ {id}
         /\ \A i \in DOMAIN sessions : i # id => sessions'[i] = sessions[i]
         /\ IsInjective(sessions')
         /\ decoder' \in [Ids -> 0..created] /\ channels' \in [Ids -> {"none", "empty", "set"}]
         /\ mapFile' \in [Ids -> {"none", "whole", "torn"}] /\ file' \in [Ids -> {"none", "whole", "torn"}]
         /\ cleared' \subseteq Ids
  <1>1. /\ DOMAIN sessions' = DOMAIN sessions \ {id}
        /\ \A i \in DOMAIN sessions : i # id => sessions'[i] = sessions[i]
    BY DropFacts DEF Pop
  <1>2. IsInjective(sessions')
    BY <1>1 DEF TypeOK, IsInjective
  <1>3. /\ decoder' \in [Ids -> 0..created] /\ channels' \in [Ids -> {"none", "empty", "set"}]
        /\ mapFile' \in [Ids -> {"none", "whole", "torn"}] /\ file' \in [Ids -> {"none", "whole", "torn"}]
        /\ cleared' \subseteq Ids
    BY DEF Pop, TypeOK
  <1>4. QED
    BY <1>1, <1>2, <1>3

\* Dropping an id takes nothing from the tools still in progress.
LEMMA PopKeepsBase ==
  ASSUME Base, RegistryAssumption, server = "up", NEW id \in Ids, Pop(id),
         tool' \in [Clients -> Tools],
         \A d \in Clients : tool'[d].pc # "idle" => tool'[d] = tool[d],
         conn' \in [Objects -> {"none", "spawning", "up", "stopping"}],
         gdb' \subseteq gdb, overlapped' \subseteq Ids, UNCHANGED <<server, created>>
  PROVE  Base'
  <1>1. TypeOK /\ ToolsHaveObjects
    BY DEF Base
  <1>2. /\ DOMAIN sessions' = DOMAIN sessions \ {id}
        /\ \A i \in DOMAIN sessions : i # id => sessions'[i] = sessions[i]
        /\ IsInjective(sessions')
        /\ decoder' \in [Ids -> 0..created] /\ channels' \in [Ids -> {"none", "empty", "set"}]
        /\ mapFile' \in [Ids -> {"none", "whole", "torn"}] /\ file' \in [Ids -> {"none", "whole", "torn"}]
        /\ cleared' \subseteq Ids
    BY <1>1, PopKeepsTypes
  <1>3. TypeOK'
    BY <1>1, <1>2 DEF TypeOK
  <1>4. QED
    BY <1>1, <1>3 DEF Base, ToolsHaveObjects, DownIsEmpty

\* Every step of a call and every call of the Saleae tools, however they overlap.
LEMMA ClientKeepsBase ==
  ASSUME Base, RegistryAssumption, NEW c \in Clients, Client(c)
  PROVE  Base'
  <1> DEFINE Kinds == {"none", "spawning", "up", "stopping"}
  <1>1. /\ TypeOK /\ ToolsHaveObjects /\ conn \in [Objects -> Kinds]
        /\ overlapped \subseteq Ids /\ tool \in [Clients -> Tools]
    BY DEF Base, TypeOK
  <1>2. ASSUME NEW o, NEW k \in Kinds
        PROVE  [conn EXCEPT ![o] = k] \in [Objects -> Kinds]
    BY <1>1
  <1>3. ASSUME NEW id \in Ids, NEW pc \in {"replacing", "closing"},
               server = "up", id \in DOMAIN sessions,
               Starts(c, id, pc, sessions[id]),
               conn' = [conn EXCEPT ![sessions[id]] = "stopping"], NoteOverlap(id),
               UNCHANGED <<server, created, sessions, gdb, decoder, channels, disk, cleared>>
        PROVE  Base'
    <2>1. sessions[id] \in 1..created /\ sessions[id] \in {0} \cup Objects
      BY <1>1, <1>3 DEF TypeOK, Objects
    <2>2. /\ tool' \in [Clients -> Tools]
          /\ tool'[c] = [pc |-> pc, id |-> id, object |-> sessions[id]]
          /\ \A d \in Clients : d # c => tool'[d] = tool[d]
      BY <1>1, <1>3, <2>1 DEF Starts, Tools
    <2>3. conn' \in [Objects -> Kinds] /\ overlapped' \subseteq Ids
      BY <1>1, <1>2, <1>3 DEF NoteOverlap
    <2>4. TypeOK'
      BY <1>1, <1>3, <2>2, <2>3 DEF TypeOK, disk
    <2>5. QED
      BY <1>1, <1>3, <2>1, <2>2, <2>4 DEF Base, ToolsHaveObjects, DownIsEmpty
  <1>4. ASSUME NEW id \in Ids, Connect(c, id)
        PROVE  Base'
    <2>1. CASE id \in DOMAIN sessions /\ ~Disconnected(sessions[id])
      BY <1>3, <1>4, <2>1 DEF Connect, MayStart
    <2>2. CASE ~(id \in DOMAIN sessions /\ ~Disconnected(sessions[id]))
      BY <1>1, <1>4, <2>2, RegisterKeepsBase DEF Connect, MayStart, NoteOverlap
    <2>3. QED
      BY <2>1, <2>2
  <1>5. ASSUME NEW id \in Ids, DisconnectAtOnce(c, id)
        PROVE  Base'
    BY <1>1, <1>2, <1>5, PopKeepsBase DEF DisconnectAtOnce, MayStart, NoteOverlap
  <1>6. ASSUME NEW id \in Ids, Disconnect(c, id)
        PROVE  Base'
    BY <1>3, <1>6 DEF Disconnect, MayStart
  <1>7. ASSUME NEW id \in Ids, SaleaeConnect(c, id) \/ SaleaeConfigure(c, id)
        PROVE  Base'
    <2>1. /\ UNCHANGED <<server, created, sessions, conn, gdb, decoder, file, tool, overlapped>>
          /\ channels' \in [Ids -> {"none", "empty", "set"}] /\ mapFile' \in [Ids -> {"none", "whole", "torn"}]
          /\ cleared' \subseteq Ids
      BY <1>1, <1>7 DEF SaleaeConnect, SaleaeConfigure, disk, TypeOK
    <2>2. QED
      BY <1>1, <2>1 DEF Base, TypeOK, ToolsHaveObjects, DownIsEmpty
  <1>8. CASE Replaced(c)
    <2>1. server = "up" /\ tool[c].id \in Ids
      BY <1>8, ObjectFacts DEF Replaced
    <2>2. /\ Register(c, tool[c].id, [conn EXCEPT ![tool[c].object] = "none"])
          /\ gdb' \subseteq gdb
          /\ UNCHANGED <<server, decoder, channels, disk, overlapped>>
      BY <1>8 DEF Replaced
    <2>3. QED
      BY <1>1, <1>2, <2>1, <2>2, RegisterKeepsBase
  <1>9. ASSUME NEW pc \in {"idle", "selecting"}, tool[c].pc # "idle", Step(c, pc),
               conn' \in [Objects -> Kinds], gdb' \subseteq gdb \cup {tool[c].object},
               decoder' \in [Ids -> 0..created], file' \in [Ids -> {"none", "whole", "torn"}],
               cleared' \subseteq Ids,
               UNCHANGED <<server, created, sessions, channels, mapFile, overlapped>>
        PROVE  Base'
    <2>1. /\ tool' \in [Clients -> Tools]
          /\ tool'[c].object = tool[c].object /\ \A d \in Clients : d # c => tool'[d] = tool[d]
      BY <1>1, <1>9, StepFacts
    <2>2. server = "up" /\ tool[c].object \in 1..created
      BY <1>9, ObjectFacts
    <2>3. TypeOK'
      BY <1>1, <1>9, <2>1, <2>2 DEF TypeOK
    <2>4. QED
      BY <1>1, <1>9, <2>1, <2>2, <2>3 DEF Base, ToolsHaveObjects, DownIsEmpty
  <1>10. CASE Spawned(c)
    BY <1>1, <1>2, <1>9, <1>10 DEF Spawned, disk, TypeOK
  <1>11. CASE ConnectFails(c)
    BY <1>1, <1>2, <1>9, <1>11 DEF ConnectFails, disk, TypeOK
  <1>12. ASSUME NEW svd \in BOOLEAN, Connected(c, svd)
         PROVE  Base'
    <2>1. tool[c].id \in Ids /\ tool[c].object \in 0..created
      BY <1>12, ObjectFacts, <1>1 DEF Connected, TypeOK
    <2>2. /\ decoder' \in [Ids -> 0..created] /\ cleared' \subseteq Ids
          /\ file' \in [Ids -> {"none", "whole", "torn"}]
      BY <1>1, <1>12, <2>1 DEF Connected, Save, TypeOK
    <2>3. QED
      BY <1>1, <1>9, <1>12, <2>2 DEF Connected
  <1>13. CASE Closed(c)
    <2>1. tool[c].id \in Ids /\ server = "up"
      BY <1>13, ObjectFacts DEF Closed
    <2>2. /\ tool' \in [Clients -> Tools]
          /\ \A d \in Clients : tool'[d].pc # "idle" => tool'[d] = tool[d]
      BY <1>1, <1>13, StepFacts DEF Closed
    <2>3. QED
      BY <1>1, <1>2, <1>13, <2>1, <2>2, PopKeepsBase DEF Closed
  <1>14. CASE CloseCrashes(c)
    BY <1>1, <1>9, <1>14 DEF CloseCrashes, disk, TypeOK
  <1>15. QED
    BY <1>4, <1>5, <1>6, <1>7, <1>8, <1>10, <1>11, <1>12, <1>13, <1>14 DEF Client

\* When the server goes, its tasks and every GDB go with it.
LEMMA GonePreserves ==
  ASSUME Base, RegistryAssumption, ServerGone,
         file' \in [Ids -> {"none", "whole", "torn"}],
         mapFile' \in [Ids -> {"none", "whole", "torn"}], cleared' \subseteq Ids
  PROVE  IInv'
  <1>1. Idle \in Tools
    BY RegistryAssumption DEF Idle, Tools
  <1>2. /\ DOMAIN sessions' = {} /\ sessions' = <<>> /\ gdb' = {} /\ server' = "down"
        /\ \A c \in Clients : tool'[c] = Idle
        /\ Idle.pc = "idle"
    BY DEF ServerGone, Idle
  <1>3. TypeOK'
    <2>1. /\ decoder' \in [Ids -> 0..created'] /\ channels' \in [Ids -> {"none", "empty", "set"}]
          /\ tool' \in [Clients -> Tools] /\ overlapped' \subseteq Ids
          /\ conn' \in [Objects -> {"none", "spawning", "up", "stopping"}]
      BY <1>1 DEF ServerGone, Base, TypeOK
    <2>2. QED
      BY <1>2, <2>1 DEF ServerGone, Base, TypeOK, IsInjective
  <1>4. Base'
    BY <1>2, <1>3 DEF Base, ToolsHaveObjects, DownIsEmpty
  <1>5. Orderly'
    BY <1>2 DEF Orderly, EveryGdbIsRegistered, EverySaveIsRegistered, ToolsOwnSessions,
                ProcessHasConnection
  <1>6. QED
    BY <1>4, <1>5 DEF IInv

\* A restart registers a new object without a GDB for every file that loads.
LEMMA StartPreserves ==
  ASSUME Base, RegistryAssumption, Start
  PROVE  IInv'
  <1> DEFINE n == Cardinality(Loadable)
  <1>1. /\ server = "down" /\ server' = "up" /\ created + n <= MaxObjects
        /\ created' = created + n
        /\ UNCHANGED <<conn, gdb, decoder, channels, disk, tool, cleared, overlapped>>
    BY DEF Start
  <1>2. PICK objects \in Injection(Loadable, (created + 1)..(created + n)) : sessions' = objects
    BY DEF Start
  <1>3. /\ DOMAIN sessions' = Loadable /\ IsInjective(sessions')
        /\ \A id \in Loadable : sessions'[id] \in (created + 1)..(created + n)
    BY <1>2 DEF Injection
  <1>4. gdb = {} /\ \A c \in Clients : tool[c].pc = "idle"
    BY <1>1 DEF Base, DownIsEmpty
  <1>5. TypeOK'
    <2>1. n \in Nat
      BY RegistryAssumption, FS_Subset, FS_CardinalityType DEF RegistryAssumption, Loadable
    <2>2. created \in Nat /\ created' \in 0..MaxObjects
      BY <1>1, <2>1, RegistryAssumption DEF Base, TypeOK, RegistryAssumption
    <2>3. \A id \in DOMAIN sessions' : sessions'[id] \in 1..created'
      BY <1>1, <1>3, <2>1, <2>2
    <2>4. decoder' \in [Ids -> 0..created'] /\ gdb' \subseteq 1..created'
      BY <1>1, <1>4, <2>1, <2>2 DEF Base, TypeOK
    <2>5. Loadable \subseteq Ids
      BY DEF Loadable
    <2>6. QED
      BY <1>1, <1>3, <2>2, <2>3, <2>4, <2>5 DEF Base, TypeOK, disk
  <1>6. Base'
    BY <1>1, <1>4, <1>5 DEF Base, ToolsHaveObjects, DownIsEmpty
  <1>7. Orderly'
    BY <1>1, <1>3, <1>4
       DEF Orderly, EveryGdbIsRegistered, EverySaveIsRegistered, ToolsOwnSessions,
           ProcessHasConnection, Loadable, disk
  <1>8. QED
    BY <1>6, <1>7 DEF IInv

-----------------------------------------------------------------------------
(* Every step of a call keeps the rest, if no other call works on its id.  *)

AloneOn(c, id) == \A d \in Clients : d # c /\ tool[d].pc # "idle" => tool[d].id # id

\* A call that starts on an id without an overlap is the only one on it.
LEMMA StartsAlone ==
  ASSUME NEW c \in Clients, NEW id \in Ids, NoteOverlap(id), overlapped' = {}
  PROVE  AloneOn(c, id)
  BY DEF NoteOverlap, Busy, AloneOn

\* Among calls on different ids, the objects differ as well.
LEMMA ObjectsApart ==
  ASSUME Base, Orderly, RegistryAssumption, NEW c \in Clients, tool[c].pc # "idle"
  PROVE  /\ tool[c].id \in DOMAIN sessions /\ sessions[tool[c].id] = tool[c].object
         /\ \A i \in DOMAIN sessions : i # tool[c].id => sessions[i] # tool[c].object
         /\ AloneOn(c, tool[c].id)
         /\ \A d \in Clients : d # c /\ tool[d].pc # "idle" => tool[d].object # tool[c].object
  <1>1. /\ tool[c].id \in DOMAIN sessions /\ sessions[tool[c].id] = tool[c].object
        /\ AloneOn(c, tool[c].id)
    BY DEF Orderly, ToolsOwnSessions, AloneOn
  <1>2. \A i \in DOMAIN sessions : i # tool[c].id => sessions[i] # tool[c].object
    BY <1>1 DEF Base, TypeOK, IsInjective
  <1>3. ASSUME NEW d \in Clients, d # c, tool[d].pc # "idle"
        PROVE  tool[d].object # tool[c].object
    <2>1. tool[d].id # tool[c].id
      BY <1>1, <1>3 DEF AloneOn
    <2>2. tool[d].id \in DOMAIN sessions /\ sessions[tool[d].id] = tool[d].object
      BY <1>3 DEF Orderly, ToolsOwnSessions
    <2>3. QED
      BY <1>2, <2>1, <2>2
  <1>4. QED
    BY <1>1, <1>2, <1>3

\* Registering a new object under an id whose old object has no GDB (any more).
LEMMA RegisterPreserves ==
  ASSUME Base, Orderly, RegistryAssumption, server = "up",
         NEW c \in Clients, NEW id \in Ids, AloneOn(c, id),
         NEW connections \in [Objects -> {"none", "spawning", "up", "stopping"}],
         Register(c, id, connections),
         gdb' \subseteq gdb,
         \A o \in gdb' : /\ connections[o] \in {"up", "stopping"}
                         /\ id \in DOMAIN sessions => sessions[id] # o,
         \A d \in Clients \ {c} :
            tool[d].pc = "spawning" => connections[tool[d].object] = "spawning",
         UNCHANGED <<server, disk>>
  PROVE  Orderly'
  <1> DEFINE o == created + 1
  <1>1. /\ created < MaxObjects
        /\ DOMAIN sessions' = DOMAIN sessions \cup {id} /\ sessions'[id] = created + 1
        /\ \A i \in DOMAIN sessions : i # id => sessions'[i] = sessions[i]
        /\ tool'[c] = [pc |-> "spawning", id |-> id, object |-> created + 1]
        /\ \A d \in Clients : d # c => tool'[d] = tool[d]
        /\ conn'[created + 1] = "spawning"
        /\ \A p \in Objects : p # created + 1 => conn'[p] = connections[p]
    <2>1. TypeOK
      BY DEF Base
    <2>2. QED
      BY <2>1, RegisterFacts, SMTT(60)
  <1>2. o \in Objects /\ \A n \in 1..created : n # o /\ n \in Objects
    BY <1>1, NewObject, RegistryAssumption DEF Base, TypeOK, Objects, RegistryAssumption
  <1>3. EveryGdbIsRegistered'
    BY <1>1 DEF Orderly, EveryGdbIsRegistered
  <1>4. EverySaveIsRegistered'
    BY <1>1 DEF Orderly, EverySaveIsRegistered, Loadable, disk
  <1>5. ToolsOwnSessions'
    BY <1>1 DEF Orderly, ToolsOwnSessions, AloneOn
  <1>6. ProcessHasConnection'
    <2>1. \A p \in gdb' : p \in Objects /\ p # o
      BY <1>2 DEF Base, TypeOK
    <2>2. \A d \in Clients : d # c /\ tool[d].pc = "spawning" =>
             tool[d].object \in Objects /\ tool[d].object # o
      BY <1>2 DEF Base, ToolsHaveObjects
    <2>3. QED
      BY <1>1, <2>1, <2>2 DEF ProcessHasConnection
  <1>7. QED
    BY <1>3, <1>4, <1>5, <1>6 DEF Orderly

\* A call that begins to stop the session registered under an id of its own.
LEMMA StoppingPreserves ==
  ASSUME Base, Orderly, RegistryAssumption, NEW c \in Clients, tool[c].pc = "idle",
         NEW id \in Ids, AloneOn(c, id), id \in DOMAIN sessions, ~Disconnected(sessions[id]),
         NEW pc \in {"replacing", "closing"},
         Starts(c, id, pc, sessions[id]),
         conn' = [conn EXCEPT ![sessions[id]] = "stopping"],
         UNCHANGED <<server, created, sessions, gdb, disk>>
  PROVE  Orderly'
  <1> DEFINE o == sessions[id]
  <1>1. /\ tool'[c] = [pc |-> pc, id |-> id, object |-> o]
        /\ \A d \in Clients : d # c => tool'[d] = tool[d]
    BY DEF Base, TypeOK, Starts
  <1>2. o \in Objects /\ conn[o] \notin {"none", "spawning"}
    BY DEF Base, TypeOK, Objects, Disconnected
  <1>3. conn'[o] = "stopping" /\ \A p \in Objects : p # o => conn'[p] = conn[p]
    BY <1>2 DEF Base, TypeOK
  <1>4. ToolsOwnSessions'
    BY <1>1 DEF Orderly, ToolsOwnSessions, AloneOn
  <1>5. ProcessHasConnection'
    <2>1. gdb \subseteq Objects
      BY DEF Base, TypeOK, Objects
    <2>2. \A d \in Clients : tool[d].pc = "spawning" =>
             tool[d].object \in Objects /\ conn[tool[d].object] = "spawning"
      BY ObjectFacts DEF Orderly, ProcessHasConnection
    <2>3. QED
      BY <1>1, <1>2, <1>3, <2>1, <2>2 DEF Orderly, ProcessHasConnection
  <1>6. EveryGdbIsRegistered' /\ EverySaveIsRegistered'
    BY DEF Orderly, EveryGdbIsRegistered, EverySaveIsRegistered, Loadable, disk
  <1>7. QED
    BY <1>4, <1>5, <1>6 DEF Orderly

\* session_connect stops a live session of the id first, or registers a new one.
LEMMA ConnectPreserves ==
  ASSUME Base, Orderly, RegistryAssumption, NEW c \in Clients, NEW id \in Ids,
         Connect(c, id), overlapped' = {}
  PROVE  Orderly'
  <1>1. server = "up" /\ tool[c].pc = "idle" /\ AloneOn(c, id)
    BY StartsAlone DEF Connect, MayStart
  <1>2. CASE id \in DOMAIN sessions /\ ~Disconnected(sessions[id])
    BY <1>1, <1>2, StoppingPreserves DEF Connect
  <1>3. CASE ~(id \in DOMAIN sessions /\ ~Disconnected(sessions[id]))
    <2>1. Register(c, id, conn) /\ gdb' = gdb /\ UNCHANGED <<server, disk>>
      BY <1>3 DEF Connect
    <2>2. \A o \in gdb : conn[o] \in {"up", "stopping"}
                         /\ (id \in DOMAIN sessions => sessions[id] # o)
      BY <1>3 DEF Orderly, ProcessHasConnection, Disconnected
    <2>3. conn \in [Objects -> {"none", "spawning", "up", "stopping"}]
      BY DEF Base, TypeOK
    <2>4. \A d \in Clients \ {c} : tool[d].pc = "spawning" => conn[tool[d].object] = "spawning"
      BY DEF Orderly, ProcessHasConnection
    <2>5. QED
      BY <1>1, <2>1, <2>2, <2>3, <2>4, RegisterPreserves
  <1>4. QED
    BY <1>2, <1>3

\* The old session's disconnect() is over and a new object takes its id.
LEMMA ReplacedPreserves ==
  ASSUME Base, Orderly, RegistryAssumption, NEW c \in Clients, Replaced(c)
  PROVE  Orderly'
  <1> DEFINE id == tool[c].id
             old == tool[c].object
             connections == [conn EXCEPT ![old] = "none"]
  <1>1. tool[c].pc = "replacing" /\ server = "up" /\ id \in Ids /\ old \in Objects
    BY ObjectFacts DEF Replaced
  <1>2. /\ sessions[id] = old /\ AloneOn(c, id)
        /\ \A d \in Clients : d # c /\ tool[d].pc # "idle" => tool[d].object # old
    BY <1>1, ObjectsApart
  <1>3. /\ connections \in [Objects -> {"none", "spawning", "up", "stopping"}]
        /\ \A p \in Objects : p # old => connections[p] = conn[p]
    BY <1>1 DEF Base, TypeOK
  <1>4. ASSUME NEW d \in Clients \ {c}, tool[d].pc = "spawning"
        PROVE  connections[tool[d].object] = "spawning"
    <2>1. tool[d].object \in Objects /\ tool[d].object # old
      BY <1>2, <1>4, ObjectFacts
    <2>2. conn[tool[d].object] = "spawning"
      BY <1>4 DEF Orderly, ProcessHasConnection
    <2>3. QED
      BY <1>3, <2>1, <2>2
  <1>5. Register(c, id, connections) /\ gdb' = gdb \ {old} /\ UNCHANGED <<server, disk>>
    BY DEF Replaced
  <1>6. gdb' \subseteq gdb /\ \A o \in gdb' : o \in Objects /\ o # old /\ conn[o] \in {"up", "stopping"}
    BY <1>5 DEF Base, Orderly, TypeOK, Objects, ProcessHasConnection
  <1>7. \A o \in gdb' : connections[o] \in {"up", "stopping"}
                        /\ (id \in DOMAIN sessions => sessions[id] # o)
    BY <1>2, <1>3, <1>6
  <1> HIDE DEF connections, id, old
  <1>8. QED
    BY <1>1, <1>2, <1>3, <1>4, <1>5, <1>6, <1>7, RegisterPreserves

\* start() returns: GDB lives under the object that the id still names.
LEMMA SpawnedPreserves ==
  ASSUME Base, Orderly, RegistryAssumption, NEW c \in Clients, Spawned(c)
  PROVE  Orderly'
  <1> DEFINE o == tool[c].object
  <1>1. tool[c].pc = "spawning" /\ conn[o] = "spawning"
    BY DEF Spawned, Orderly, ProcessHasConnection
  <1>2. /\ gdb' = gdb \cup {o}
        /\ conn' = [conn EXCEPT ![o] = "up"]
        /\ Step(c, "selecting")
        /\ UNCHANGED <<server, created, sessions, disk>>
    BY <1>1 DEF Spawned
  <1>3. /\ tool'[c].pc = "selecting" /\ tool'[c].id = tool[c].id /\ tool'[c].object = o
        /\ \A d \in Clients : d # c => tool'[d] = tool[d]
    BY <1>2, StepFacts DEF Base
  <1>4. /\ o \in Objects /\ sessions[tool[c].id] = o /\ tool[c].id \in DOMAIN sessions
        /\ \A d \in Clients : d # c /\ tool[d].pc # "idle" => tool[d].object # o
    BY <1>1, ObjectFacts, ObjectsApart
  <1>5. conn'[o] = "up" /\ \A p \in Objects : p # o => conn'[p] = conn[p]
    BY <1>2, <1>4 DEF Base, TypeOK
  <1>6. EveryGdbIsRegistered' /\ EverySaveIsRegistered' /\ ToolsOwnSessions'
    BY <1>1, <1>2, <1>3, <1>4
       DEF Orderly, EveryGdbIsRegistered, EverySaveIsRegistered, ToolsOwnSessions, Loadable, disk
  <1>7. ProcessHasConnection'
    <2>1. gdb \subseteq Objects
      BY DEF Base, TypeOK, Objects
    <2>2. \A d \in Clients : d # c /\ tool[d].pc = "spawning" => tool[d].object \in Objects
      BY ObjectFacts
    <2>3. QED
      BY <1>2, <1>3, <1>4, <1>5, <2>1, <2>2 DEF Orderly, ProcessHasConnection
  <1>8. QED
    BY <1>6, <1>7 DEF Orderly

\* A connect() that fails leaves a registered session, with its GDB if it had one.
LEMMA ConnectFailsPreserves ==
  ASSUME Base, Orderly, RegistryAssumption, NEW c \in Clients, ConnectFails(c)
  PROVE  Orderly'
  <1> DEFINE o == tool[c].object
  <1>1. /\ tool[c].pc \in {"spawning", "selecting"}
        /\ Step(c, "idle")
        /\ UNCHANGED <<server, created, sessions, gdb, disk>>
    BY DEF ConnectFails
  <1>2. /\ tool'[c].pc = "idle"
        /\ \A d \in Clients : d # c => tool'[d] = tool[d]
    BY <1>1, StepFacts DEF Base
  <1>3. /\ o \in Objects
        /\ \A d \in Clients : d # c /\ tool[d].pc # "idle" => tool[d].object # o
    BY <1>1, ObjectFacts, ObjectsApart
  <1>4. /\ \A p \in Objects : p # o => conn'[p] = conn[p]
        /\ tool[c].pc # "spawning" => conn' = conn
    BY <1>1, <1>3 DEF ConnectFails, Base, TypeOK
  <1>5. EveryGdbIsRegistered' /\ EverySaveIsRegistered' /\ ToolsOwnSessions'
    BY <1>1, <1>2
       DEF Orderly, EveryGdbIsRegistered, EverySaveIsRegistered, ToolsOwnSessions, Loadable, disk
  <1>6. ProcessHasConnection'
    <2>1. \A p \in gdb' : p \in Objects /\ conn'[p] \in {"up", "stopping"}
      BY <1>1, <1>3, <1>4 DEF Base, Orderly, TypeOK, Objects, ProcessHasConnection
    <2>2. ASSUME NEW d \in Clients, d # c, tool[d].pc = "spawning"
          PROVE  conn'[tool[d].object] = "spawning"
      <3>1. tool[d].object \in Objects
        BY <2>2, ObjectFacts
      <3>2. conn[tool[d].object] = "spawning"
        BY <2>2 DEF Orderly, ProcessHasConnection
      <3>3. QED
        BY <1>3, <1>4, <2>2, <3>1, <3>2
    <2>3. QED
      BY <1>2, <2>1, <2>2 DEF ProcessHasConnection
  <1>7. QED
    BY <1>5, <1>6 DEF Orderly

\* The session that is saved is registered under its id.
LEMMA ConnectedPreserves ==
  ASSUME Base, Orderly, RegistryAssumption, NEW c \in Clients, NEW svd \in BOOLEAN,
         Connected(c, svd)
  PROVE  Orderly'
  <1> DEFINE id == tool[c].id
  <1>1. /\ tool[c].pc = "selecting"
        /\ file' = [file EXCEPT ![id] = "whole"]
        /\ Step(c, "idle")
        /\ UNCHANGED <<server, created, sessions, conn, gdb>>
    BY DEF Connected, Save
  <1>2. tool'[c].pc = "idle" /\ \A d \in Clients : d # c => tool'[d] = tool[d]
    BY <1>1, StepFacts DEF Base
  <1>3. id \in Ids /\ id \in DOMAIN sessions
    BY <1>1, ObjectFacts, ObjectsApart
  <1>4. Loadable' \subseteq Loadable \cup {id}
    BY <1>1, <1>3 DEF Loadable, Base, TypeOK
  <1>5. QED
    BY <1>1, <1>2, <1>3, <1>4
       DEF Orderly, EveryGdbIsRegistered, EverySaveIsRegistered, ToolsOwnSessions,
           ProcessHasConnection

\* Dropping an id whose object has no GDB (any more).
LEMMA PopPreserves ==
  ASSUME Base, Orderly, RegistryAssumption, NEW id \in DOMAIN sessions,
         Pop(id),
         \A d \in Clients : tool'[d].pc # "idle" => tool'[d] = tool[d] /\ tool[d].id # id,
         conn' = [conn EXCEPT ![sessions[id]] = "none"],
         gdb' = gdb \ {sessions[id]},
         UNCHANGED server
  PROVE  Orderly'
  <1> DEFINE o == sessions[id]
  <1>1. /\ DOMAIN sessions' = DOMAIN sessions \ {id}
        /\ \A i \in DOMAIN sessions : i # id => sessions'[i] = sessions[i]
    BY DropFacts DEF Pop
  <1>2. /\ o \in Objects /\ id \in Ids
        /\ \A i \in DOMAIN sessions : i # id => sessions[i] # o
    BY DEF Base, TypeOK, Objects, IsInjective
  <1>3. \A p \in Objects : p # o => conn'[p] = conn[p]
    BY <1>2 DEF Base, TypeOK
  <1>4. EveryGdbIsRegistered'
    BY <1>1 DEF Orderly, EveryGdbIsRegistered
  <1>5. EverySaveIsRegistered'
    <2>1. Loadable' \subseteq Loadable \ {id}
      BY <1>2 DEF Pop, Loadable, Base, TypeOK
    <2>2. QED
      BY <1>1, <2>1 DEF Orderly, EverySaveIsRegistered
  <1>6. ToolsOwnSessions'
    BY <1>1 DEF Orderly, ToolsOwnSessions
  <1>7. ProcessHasConnection'
    <2>1. gdb \subseteq Objects
      BY DEF Base, TypeOK, Objects
    <2>2. ASSUME NEW d \in Clients, tool'[d].pc = "spawning"
          PROVE  conn'[tool'[d].object] = "spawning"
      <3>1. tool'[d] = tool[d] /\ tool[d].id # id
        BY <2>2
      <3>2. /\ tool[d].id \in DOMAIN sessions /\ sessions[tool[d].id] = tool[d].object
            /\ conn[tool[d].object] = "spawning"
        BY <2>2, <3>1 DEF Orderly, ToolsOwnSessions, ProcessHasConnection
      <3>3. tool[d].object \in Objects /\ tool[d].object # o
        BY <1>2, <3>1, <3>2 DEF Base, TypeOK, Objects
      <3>4. QED
        BY <1>3, <3>1, <3>2, <3>3
    <2>3. QED
      BY <1>3, <2>1, <2>2 DEF Orderly, ProcessHasConnection
  <1>8. QED
    BY <1>4, <1>5, <1>6, <1>7 DEF Orderly

\* A session without a GDB is disconnected and dropped in one step.
LEMMA DisconnectAtOncePreserves ==
  ASSUME Base, Orderly, RegistryAssumption, NEW c \in Clients, NEW id \in Ids,
         DisconnectAtOnce(c, id), overlapped' = {}
  PROVE  Orderly'
  <1>1. /\ tool[c].pc = "idle" /\ id \in DOMAIN sessions
        /\ conn[sessions[id]] \in {"none", "spawning"}
        /\ Pop(id) /\ conn' = [conn EXCEPT ![sessions[id]] = "none"]
        /\ UNCHANGED <<server, gdb, tool>>
    BY DEF DisconnectAtOnce, MayStart, Disconnected
  <1>2. gdb' = gdb \ {sessions[id]}
    BY <1>1 DEF Orderly, ProcessHasConnection
  <1>3. AloneOn(c, id)
    BY StartsAlone DEF DisconnectAtOnce
  <1>4. \A d \in Clients : tool'[d].pc # "idle" => tool'[d] = tool[d] /\ tool[d].id # id
    BY <1>1, <1>3 DEF AloneOn
  <1>5. QED
    BY <1>1, <1>2, <1>4, PopPreserves

\* session_disconnect begins to stop a session that stays registered.
LEMMA DisconnectPreserves ==
  ASSUME Base, Orderly, RegistryAssumption, NEW c \in Clients, NEW id \in Ids,
         Disconnect(c, id), overlapped' = {}
  PROVE  Orderly'
  BY StartsAlone, StoppingPreserves DEF Disconnect, MayStart

\* The entry is dropped in the step that ends the GDB it named.
LEMMA ClosedPreserves ==
  ASSUME Base, Orderly, RegistryAssumption, NEW c \in Clients, Closed(c)
  PROVE  Orderly'
  <1> DEFINE id == tool[c].id
  <1>1. /\ tool[c].pc = "closing"
        /\ conn' = [conn EXCEPT ![tool[c].object] = "none"]
        /\ gdb' = gdb \ {tool[c].object}
        /\ Pop(id) /\ Step(c, "idle") /\ UNCHANGED server
    BY DEF Closed
  <1>2. id \in DOMAIN sessions /\ sessions[id] = tool[c].object /\ AloneOn(c, id)
    BY <1>1, ObjectsApart
  <1>3. tool'[c].pc = "idle" /\ \A d \in Clients : d # c => tool'[d] = tool[d]
    BY <1>1, StepFacts DEF Base
  <1>4. \A d \in Clients : tool'[d].pc # "idle" => tool'[d] = tool[d] /\ tool[d].id # id
    BY <1>2, <1>3 DEF AloneOn
  <1>5. QED
    BY <1>1, <1>2, <1>4, PopPreserves

\* A second stop() that raises changes nothing but its own call.
LEMMA CloseCrashesPreserves ==
  ASSUME Base, Orderly, NEW c \in Clients, CloseCrashes(c)
  PROVE  Orderly'
  <1>1. /\ tool[c].pc # "idle" /\ Step(c, "idle")
        /\ UNCHANGED <<server, sessions, conn, gdb, disk>>
    BY DEF CloseCrashes
  <1>2. tool'[c].pc = "idle" /\ \A d \in Clients : d # c => tool'[d] = tool[d]
    BY <1>1, StepFacts DEF Base
  <1>3. QED
    BY <1>1, <1>2
       DEF Orderly, EveryGdbIsRegistered, EverySaveIsRegistered, ToolsOwnSessions,
           ProcessHasConnection, Loadable, disk

\* The channel map has no part in the invariant.
LEMMA SaleaePreserves ==
  ASSUME Orderly, NEW c \in Clients, NEW id \in Ids,
         SaleaeConnect(c, id) \/ SaleaeConfigure(c, id)
  PROVE  Orderly'
  <1>1. UNCHANGED <<server, sessions, conn, gdb, file, tool>>
    BY DEF SaleaeConnect, SaleaeConfigure, disk
  <1>2. QED
    BY <1>1
       DEF Orderly, EveryGdbIsRegistered, EverySaveIsRegistered, ToolsOwnSessions,
           ProcessHasConnection, Loadable

-----------------------------------------------------------------------------

\* What overlapped once stays overlapped, until the server goes.
LEMMA OverlapStays ==
  ASSUME NEW c \in Clients, Client(c), overlapped' = {}
  PROVE  overlapped = {}
  BY DEF Client, Connect, Replaced, Spawned, ConnectFails, Connected, DisconnectAtOnce,
         Disconnect, Closed, CloseCrashes, SaleaeConnect, SaleaeConfigure, NoteOverlap

\* Every step preserves the invariant.
LEMMA StepPreserves ==
  ASSUME IInv, RegistryAssumption, [Next]_vars
  PROVE  IInv'
  <1>1. CASE UNCHANGED vars
    BY <1>1 DEF vars, memory, disk, IInv, Base, Orderly, TypeOK, EveryGdbIsRegistered,
                EverySaveIsRegistered, Loadable, ToolsHaveObjects, ToolsOwnSessions,
                ProcessHasConnection, DownIsEmpty
  <1>2. ASSUME NEW c \in Clients, Client(c)
        PROVE  IInv'
    <2>1. Base'
      BY <1>2, ClientKeepsBase DEF IInv
    <2>2. ASSUME overlapped' = {}
          PROVE  Orderly'
      <3>1. Base /\ Orderly
        BY <1>2, <2>2, OverlapStays DEF IInv
      <3>2. QED
        BY <1>2, <2>2, <3>1, ConnectPreserves, ReplacedPreserves, SpawnedPreserves,
           ConnectFailsPreserves, ConnectedPreserves, DisconnectAtOncePreserves,
           DisconnectPreserves, ClosedPreserves, CloseCrashesPreserves, SaleaePreserves
           DEF Client
    <2>3. QED
      BY <2>1, <2>2 DEF IInv
  <1>3. ASSUME NEW c \in Clients, Crash(c)
        PROVE  IInv'
    <2>1. /\ file' \in [Ids -> {"none", "whole", "torn"}]
          /\ mapFile' \in [Ids -> {"none", "whole", "torn"}] /\ cleared' \subseteq Ids
      BY <1>3 DEF Crash, CrashWhileSaving, CrashWhileConfiguring, CrashWhileDeleting, Save,
                  IInv, Base, TypeOK
    <2>2. ServerGone
      BY <1>3 DEF Crash, CrashWhileSaving, CrashWhileConfiguring, CrashWhileDeleting
    <2>3. QED
      BY <2>1, <2>2, GonePreserves DEF IInv
  <1>4. CASE Stop
    BY <1>4, GonePreserves DEF Stop, disk, IInv, Base, TypeOK
  <1>5. CASE Start
    BY <1>5, StartPreserves DEF IInv
  <1>6. QED
    BY <1>1, <1>2, <1>3, <1>4, <1>5 DEF Next

\* The invariant holds of the registry, whatever its clients do.
THEOREM Invariant == Spec => []IInv
  <1>1. Init => IInv
    BY InitEstablishes
  <1>2. IInv /\ [Next]_vars => IInv'
    BY StepPreserves, RegistryAssumption
  <1>3. QED
    BY <1>1, <1>2, PTL DEF Spec

\* Type correctness, two sessions never sharing an object.
THEOREM TypeCorrect == Spec => []TypeOK
  <1>1. IInv => TypeOK
    BY DEF IInv, Base
  <1>2. QED
    BY <1>1, Invariant, PTL

\* A disconnected id stays without traces, one action at a time.
LEMMA StepLeavesNoTrace ==
  ASSUME TypeOK, LeavesNoTrace, RegistryAssumption, [Next]_vars
  PROVE  LeavesNoTrace'
  <1>1. CASE UNCHANGED vars
    BY <1>1 DEF vars, memory, disk, LeavesNoTrace
  <1>2. ASSUME NEW c \in Clients, NEW id \in Ids,
               NEW connections, Register(c, id, connections),
               UNCHANGED <<decoder, channels, disk>>
        PROVE  LeavesNoTrace'
    <2>1. cleared' = cleared \ {id} /\ DOMAIN sessions' = DOMAIN sessions \cup {id}
      BY <1>2 DEF Register, Put
    <2>2. QED
      BY <1>2, <2>1 DEF LeavesNoTrace, disk
  <1>3. ASSUME NEW id \in Ids, Pop(id)
        PROVE  LeavesNoTrace'
    <2>1. /\ DOMAIN sessions' = DOMAIN sessions \ {id} /\ cleared' = cleared \cup {id}
          /\ decoder'[id] = 0 /\ channels'[id] = "none" /\ file'[id] = "none" /\ mapFile'[id] = "none"
          /\ \A i \in Ids : i # id =>
               /\ decoder'[i] = decoder[i] /\ channels'[i] = channels[i]
               /\ file'[i] = file[i] /\ mapFile'[i] = mapFile[i]
      BY <1>3, DropFacts DEF Pop, TypeOK
    <2>2. QED
      BY <2>1 DEF LeavesNoTrace, TypeOK
  <1>4. ASSUME NEW c \in Clients, Client(c)
        PROVE  LeavesNoTrace'
    <2>1. tool[c].id \in Ids
      BY DEF TypeOK, Tools
    <2>2. ASSUME NEW id \in Ids, Connect(c, id) \/ Disconnect(c, id)
          PROVE  LeavesNoTrace'
      BY <1>2, <2>2 DEF Connect, Disconnect, disk, LeavesNoTrace
    <2>3. ASSUME NEW id \in Ids, DisconnectAtOnce(c, id) \/ Closed(c)
          PROVE  LeavesNoTrace'
      BY <1>3, <2>1, <2>3 DEF DisconnectAtOnce, Closed
    <2>4. CASE Replaced(c)
      BY <1>2, <2>1, <2>4 DEF Replaced
    <2>5. CASE Spawned(c) \/ ConnectFails(c) \/ CloseCrashes(c)
      BY <2>5 DEF Spawned, ConnectFails, CloseCrashes, disk, LeavesNoTrace
    <2>6. ASSUME NEW svd \in BOOLEAN, Connected(c, svd)
          PROVE  LeavesNoTrace'
      BY <2>1, <2>6 DEF Connected, Save, LeavesNoTrace, TypeOK
    <2>7. ASSUME NEW id \in Ids, SaleaeConnect(c, id)
          PROVE  LeavesNoTrace'
      BY <2>7 DEF SaleaeConnect, disk, LeavesNoTrace, TypeOK
    <2>8. ASSUME NEW id \in Ids, SaleaeConfigure(c, id)
          PROVE  LeavesNoTrace'
      BY <2>8 DEF SaleaeConfigure, LeavesNoTrace, TypeOK
    <2>9. QED
      BY <1>4, <2>2, <2>3, <2>4, <2>5, <2>6, <2>7, <2>8 DEF Client
  <1>5. ASSUME NEW c \in Clients, Crash(c)
        PROVE  LeavesNoTrace'
    <2>1. /\ DOMAIN sessions' = {} /\ decoder' = [id \in Ids |-> 0]
          /\ channels' = [id \in Ids |-> "none"]
      BY <1>5 DEF Crash, CrashWhileSaving, CrashWhileConfiguring, CrashWhileDeleting, ServerGone
    <2>2. CASE CrashWhileSaving(c)
      BY <2>1, <2>2 DEF CrashWhileSaving, Save, LeavesNoTrace, TypeOK
    <2>3. ASSUME NEW id \in Ids, CrashWhileConfiguring(c, id)
          PROVE  LeavesNoTrace'
      BY <2>1, <2>3 DEF CrashWhileConfiguring, LeavesNoTrace, TypeOK
    <2>4. ASSUME NEW id \in Ids, CrashWhileDeleting(c, id)
          PROVE  LeavesNoTrace'
      BY <2>1, <2>4 DEF CrashWhileDeleting, LeavesNoTrace, TypeOK
    <2>5. QED
      BY <1>5, <2>2, <2>3, <2>4 DEF Crash
  <1>6. CASE Stop
    BY <1>6 DEF Stop, ServerGone, disk, LeavesNoTrace, TypeOK
  <1>7. CASE Start
    <2>1. DOMAIN sessions' = Loadable
      BY <1>7 DEF Start, Injection
    <2>2. QED
      BY <1>7, <2>1 DEF Start, disk, Loadable, LeavesNoTrace
  <1>8. QED
    BY <1>1, <1>4, <1>5, <1>6, <1>7 DEF Next

\* Once session_disconnect has returned, nothing of the session is left or comes back until
\* the next call that writes something under its id, whatever overlaps and crashes.
THEOREM DisconnectLeavesNoTrace == Spec => []LeavesNoTrace
  <1>1. Init => LeavesNoTrace
    BY DEF Init, LeavesNoTrace
  <1>2. TypeOK /\ LeavesNoTrace /\ [Next]_vars => LeavesNoTrace'
    BY StepLeavesNoTrace, RegistryAssumption
  <1>3. QED
    BY <1>1, <1>2, TypeCorrect, PTL DEF Spec

\* While no two calls overlap on an id, every GDB the server started can be stopped with
\* session_disconnect: session_connect replaces an old session only after its GDB is gone.
THEOREM NoGdbIsOrphaned == Spec => []NoOrphan
  <1>1. IInv => NoOrphan
    BY DEF IInv, Orderly, NoOrphan
  <1>2. QED
    BY <1>1, Invariant, PTL

\* While no two calls overlap on an id, a session saved on disk is registered, before and
\* after a restart, so that session_disconnect can delete what it has saved.
THEOREM SavedSessionsAreRegistered == Spec => []SavedIsRegistered
  <1>1. IInv => SavedIsRegistered
    BY DEF IInv, Orderly, SavedIsRegistered
  <1>2. QED
    BY <1>1, Invariant, PTL
=============================================================================
