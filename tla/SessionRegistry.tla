--------------------------- MODULE SessionRegistry ---------------------------
(***************************************************************************)
(* server/mcp_server.py and server/session_store.py: the sessions the MCP  *)
(* server knows, the GDB each of them owns, and what is saved on disk.     *)
(* Tool calls are tasks; an action is the code between two awaits.         *)
(***************************************************************************)
EXTENDS Naturals, FiniteSets, Functions

CONSTANTS Clients,      \* tasks that run session tools
          Ids,          \* session ids
          Uses,         \* the ids each client names in its calls
          MaxObjects    \* bound: DebugSession objects created in a behaviour

ASSUME RegistryAssumption ==
  /\ Ids # {} /\ IsFiniteSet(Ids)
  /\ Uses \in [Clients -> SUBSET Ids]
  /\ MaxObjects \in Nat

Objects == 1..MaxObjects

VARIABLES
  server,      \* "up", "down"
  created,     \* DebugSession objects created so far
  sessions,    \* _sessions: id -> object
  conn,        \* each object's connection: "none", "spawning", "up", "stopping"
  gdb,         \* objects whose GDB process is alive
  decoder,     \* _svd_decoders: the object whose connect loaded it, 0 for none
  channels,    \* _saleae_coordinators: "none", or a coordinator whose channel map is "empty" or "set"
  file,        \* session.json: "none", "whole", "torn"
  mapFile,     \* channels.json: "none", "whole", "torn"
  tool,        \* what each client is doing
  cleared,     \* history: ids whose session_disconnect has returned, and no call wrote since
  overlapped   \* history: ids that two calls were working on at a time

memory == <<sessions, conn, decoder, channels, tool>>
disk == <<file, mapFile>>
vars == <<server, created, memory, gdb, disk, cleared, overlapped>>

Idle == [pc |-> "idle", id |-> CHOOSE id \in Ids : TRUE, object |-> 0]

Init ==
  /\ server = "up" /\ created = 0
  /\ sessions = <<>>
  /\ conn = [o \in Objects |-> "none"]
  /\ gdb = {}
  /\ decoder = [id \in Ids |-> 0]
  /\ channels = [id \in Ids |-> "none"]
  /\ file = [id \in Ids |-> "none"]
  /\ mapFile = [id \in Ids |-> "none"]
  /\ tool = [c \in Clients |-> Idle]
  /\ cleared = {} /\ overlapped = {}

-----------------------------------------------------------------------------
(* session_connect *)

\* DebugSession.state is DISCONNECTED until start() has spawned GDB.
Disconnected(o) == conn[o] \in {"none", "spawning"}

Step(c, pc) == tool' = [tool EXCEPT ![c].pc = pc]
Starts(c, id, pc, o) == tool' = [tool EXCEPT ![c] = [pc |-> pc, id |-> id, object |-> o]]

MayStart(c, id) == server = "up" /\ tool[c].pc = "idle" /\ id \in Uses[c]

Busy(id) == \E d \in Clients : tool[d].pc # "idle" /\ tool[d].id = id
NoteOverlap(id) == overlapped' = IF Busy(id) THEN overlapped \cup {id} ELSE overlapped

Put(map, key, value) ==
  [k \in DOMAIN map \cup {key} |-> IF k = key THEN value ELSE map[k]]

\* Mutant: the object of an earlier connect is used again.
RegisterAgain(c, id, connections) ==
  /\ created' = created
  /\ sessions' = Put(sessions, id, created)
  /\ conn' = [connections EXCEPT ![created] = "spawning"]
  /\ Starts(c, id, "spawning", created)
  /\ cleared' = cleared \ {id}

\* A new DebugSession is registered before its connect() is awaited.
Register(c, id, connections) ==
  /\ created < MaxObjects
  /\ created' = created + 1
  /\ sessions' = Put(sessions, id, created')
  /\ conn' = [connections EXCEPT ![created'] = "spawning"]
  /\ Starts(c, id, "spawning", created')
  /\ cleared' = cleared \ {id}

\* Mutant: the old session of the id is dropped, not disconnected.
ConnectForgetsOld(c, id) ==
  /\ MayStart(c, id)
  /\ NoteOverlap(id)
  /\ Register(c, id, conn)
  /\ UNCHANGED <<server, gdb, decoder, channels, disk>>

Connect(c, id) ==
  /\ MayStart(c, id)
  /\ NoteOverlap(id)
  /\ IF id \in DOMAIN sessions /\ ~Disconnected(sessions[id])
     THEN /\ Starts(c, id, "replacing", sessions[id])
          /\ conn' = [conn EXCEPT ![sessions[id]] = "stopping"]
          /\ UNCHANGED <<created, sessions, cleared>>
     ELSE Register(c, id, conn)
  /\ UNCHANGED <<server, gdb, decoder, channels, disk>>

\* old.disconnect() is over, whatever it raised
Replaced(c) ==
  LET old == tool[c].object
  IN  /\ tool[c].pc = "replacing"
      /\ Register(c, tool[c].id, [conn EXCEPT ![old] = "none"])
      /\ gdb' = gdb \ {old}
  /\ UNCHANGED <<server, decoder, channels, disk, overlapped>>

\* Without its connection (a disconnect() came first) connect() raises here.
Spawned(c) ==
  LET o == tool[c].object
  IN  /\ tool[c].pc = "spawning"
      /\ gdb' = gdb \cup {o}
      /\ IF conn[o] = "spawning"
         THEN conn' = [conn EXCEPT ![o] = "up"] /\ Step(c, "selecting")
         ELSE UNCHANGED conn /\ Step(c, "idle")
  /\ UNCHANGED <<server, created, sessions, decoder, channels, disk, cleared,
                 overlapped>>

\* No GDB, or the target refuses: the session stays registered.
ConnectFails(c) ==
  /\ tool[c].pc \in {"spawning", "selecting"}
  /\ conn' = IF tool[c].pc = "spawning" THEN [conn EXCEPT ![tool[c].object] = "none"] ELSE conn
  /\ Step(c, "idle")
  /\ UNCHANGED <<server, created, sessions, gdb, decoder, channels, disk, cleared,
                 overlapped>>

Save(id, how) == file' = [file EXCEPT ![id] = how]

\* The target is selected; svd: an svd_path was given and loaded.
Connected(c, svd) ==
  LET id == tool[c].id
  IN  /\ tool[c].pc = "selecting" /\ conn[tool[c].object] = "up"
      /\ decoder' = IF svd THEN [decoder EXCEPT ![id] = tool[c].object] ELSE decoder
      /\ Save(id, "whole")
      /\ cleared' = cleared \ {id}
      /\ Step(c, "idle")
  /\ UNCHANGED <<server, created, sessions, conn, gdb, channels, mapFile, overlapped>>

-----------------------------------------------------------------------------
(* session_disconnect *)

\* Mutant: the saved state survives.
PopKeepsFile(id) ==
  /\ sessions' = Restrict(sessions, DOMAIN sessions \ {id})
  /\ decoder' = [decoder EXCEPT ![id] = 0]
  /\ channels' = [channels EXCEPT ![id] = "none"]
  /\ cleared' = cleared \cup {id}
  /\ UNCHANGED disk

\* Mutant: of the saved files only session.json goes.
PopKeepsMap(id) ==
  /\ sessions' = Restrict(sessions, DOMAIN sessions \ {id})
  /\ decoder' = [decoder EXCEPT ![id] = 0]
  /\ channels' = [channels EXCEPT ![id] = "none"]
  /\ file' = [file EXCEPT ![id] = "none"]
  /\ cleared' = cleared \cup {id}
  /\ UNCHANGED mapFile

\* What follows the await: everything under the id goes, session.json and
\* channels.json too.
Pop(id) ==
  /\ sessions' = Restrict(sessions, DOMAIN sessions \ {id})
  /\ decoder' = [decoder EXCEPT ![id] = 0]
  /\ channels' = [channels EXCEPT ![id] = "none"]
  /\ file' = [file EXCEPT ![id] = "none"]
  /\ mapFile' = [mapFile EXCEPT ![id] = "none"]
  /\ cleared' = cleared \cup {id}

\* stop() of a connection without a process does not suspend.
DisconnectAtOnce(c, id) ==
  /\ MayStart(c, id) /\ id \in DOMAIN sessions
  /\ NoteOverlap(id)
  /\ Disconnected(sessions[id])
  /\ conn' = [conn EXCEPT ![sessions[id]] = "none"]
  /\ Pop(id)
  /\ UNCHANGED <<server, created, gdb, tool>>

Disconnect(c, id) ==
  /\ MayStart(c, id) /\ id \in DOMAIN sessions
  /\ NoteOverlap(id)
  /\ ~Disconnected(sessions[id])
  /\ conn' = [conn EXCEPT ![sessions[id]] = "stopping"]
  /\ Starts(c, id, "closing", sessions[id])
  /\ UNCHANGED <<server, created, sessions, gdb, decoder, channels, disk, cleared>>

\* Mutant: the entry goes, GDB is left to itself.
ClosedWithoutStop(c) ==
  /\ tool[c].pc = "closing"
  /\ Pop(tool[c].id)
  /\ Step(c, "idle")
  /\ conn' = [conn EXCEPT ![tool[c].object] = "none"]
  /\ UNCHANGED <<server, created, gdb, overlapped>>

\* The entry of the id is popped, whichever session it holds by now.
Closed(c) ==
  LET o == tool[c].object
  IN  /\ tool[c].pc = "closing"
      /\ conn' = [conn EXCEPT ![o] = "none"]
      /\ gdb' = gdb \ {o}
      /\ Pop(tool[c].id)
      /\ Step(c, "idle")
  /\ UNCHANGED <<server, created, overlapped>>

\* A second stop() of the connection has finished first: this one raises.
CloseCrashes(c) ==
  /\ tool[c].pc = "closing" /\ conn[tool[c].object] = "none"
  /\ Step(c, "idle")
  /\ UNCHANGED <<server, created, sessions, conn, gdb, decoder, channels, disk, cleared,
                 overlapped>>

-----------------------------------------------------------------------------
(* saleae_connect and saleae_configure: what they keep per session. *)

\* A new coordinator; a channel map that can be read is restored.
SaleaeConnect(c, id) ==
  /\ MayStart(c, id)
  /\ channels' = [channels EXCEPT ![id] = IF mapFile[id] = "whole" THEN "set" ELSE "empty"]
  /\ UNCHANGED <<server, created, sessions, conn, gdb, decoder, disk, tool, cleared, overlapped>>

SaleaeConfigure(c, id) ==
  /\ MayStart(c, id) /\ channels[id] # "none"
  /\ channels' = [channels EXCEPT ![id] = "set"]
  /\ mapFile' = [mapFile EXCEPT ![id] = "whole"]
  /\ cleared' = cleared \ {id}
  /\ UNCHANGED <<server, created, sessions, conn, gdb, decoder, file, tool, overlapped>>

-----------------------------------------------------------------------------
(* The server's life.  A GDB whose stdin is closed exits (external). *)

ServerGone ==
  /\ server' = "down"
  /\ sessions' = <<>>
  /\ conn' = [o \in Objects |-> "none"]
  /\ gdb' = {}
  /\ decoder' = [id \in Ids |-> 0]
  /\ channels' = [id \in Ids |-> "none"]
  /\ tool' = [c \in Clients |-> Idle]
  /\ overlapped' = {}
  /\ UNCHANGED created

\* lifespan's cleanup, or a crash between two steps: the files stay
Stop == server = "up" /\ ServerGone /\ UNCHANGED <<disk, cleared>>

\* a crash inside write_text(): the file is truncated before it is written
CrashWhileSaving(c) ==
  /\ tool[c].pc = "selecting" /\ conn[tool[c].object] = "up"
  /\ ServerGone
  /\ Save(tool[c].id, "torn") /\ cleared' = cleared \ {tool[c].id}
  /\ UNCHANGED mapFile

CrashWhileConfiguring(c, id) ==
  /\ MayStart(c, id) /\ channels[id] # "none"
  /\ ServerGone
  /\ mapFile' = [mapFile EXCEPT ![id] = "torn"] /\ cleared' = cleared \ {id}
  /\ UNCHANGED file

\* a crash inside delete(), which unlinks the two files one by one
CrashWhileDeleting(c, id) ==
  /\ \/ tool[c].pc = "closing" /\ tool[c].id = id
     \/ MayStart(c, id) /\ id \in DOMAIN sessions /\ Disconnected(sessions[id])
  /\ ServerGone
  /\ \/ file' = [file EXCEPT ![id] = "none"] /\ UNCHANGED mapFile
     \/ mapFile' = [mapFile EXCEPT ![id] = "none"] /\ UNCHANGED file
  /\ UNCHANGED cleared

Loadable == {id \in Ids : file[id] = "whole"}

\* Mutant: the saved sessions are not looked at.
StartLoadsNothing ==
  /\ server = "down"
  /\ server' = "up"
  /\ UNCHANGED <<created, sessions, conn, gdb, decoder, channels, disk, tool, cleared,
                 overlapped>>

\* lifespan: an unconnected session for every file that loads
Start ==
  /\ server = "down"
  /\ created + Cardinality(Loadable) <= MaxObjects
  /\ server' = "up"
  /\ \E objects \in Injection(Loadable, (created + 1)..(created + Cardinality(Loadable))) :
        sessions' = objects
  /\ created' = created + Cardinality(Loadable)
  /\ UNCHANGED <<conn, gdb, decoder, channels, disk, tool, cleared, overlapped>>

-----------------------------------------------------------------------------

Client(c) ==
  \/ \E id \in Ids : \/ Connect(c, id) \/ DisconnectAtOnce(c, id) \/ Disconnect(c, id)
                     \/ SaleaeConnect(c, id) \/ SaleaeConfigure(c, id)
  \/ Replaced(c) \/ Spawned(c) \/ ConnectFails(c)
  \/ \E svd \in BOOLEAN : Connected(c, svd)
  \/ Closed(c) \/ CloseCrashes(c)

Crash(c) ==
  \/ CrashWhileSaving(c)
  \/ \E id \in Ids : CrashWhileDeleting(c, id) \/ CrashWhileConfiguring(c, id)

Next == (\E c \in Clients : Client(c) \/ Crash(c)) \/ Stop \/ Start

Spec == Init /\ [][Next]_vars

-----------------------------------------------------------------------------
(* Properties. *)

Tools == [pc : {"idle", "replacing", "spawning", "selecting", "closing"}, id : Ids,
          object : {0} \cup Objects]

\* Every variable keeps to its values; no object is registered under two ids.
TypeOK ==
  /\ server \in {"up", "down"} /\ created \in 0..MaxObjects
  /\ DOMAIN sessions \subseteq Ids
  /\ \A id \in DOMAIN sessions : sessions[id] \in 1..created
  /\ IsInjective(sessions)
  /\ conn \in [Objects -> {"none", "spawning", "up", "stopping"}]
  /\ gdb \subseteq 1..created
  /\ decoder \in [Ids -> 0..created]
  /\ channels \in [Ids -> {"none", "empty", "set"}]
  /\ file \in [Ids -> {"none", "whole", "torn"}] /\ mapFile \in [Ids -> {"none", "whole", "torn"}]
  /\ tool \in [Clients -> Tools]
  /\ cleared \subseteq Ids /\ overlapped \subseteq Ids

EveryGdbIsRegistered == \A o \in gdb : \E id \in DOMAIN sessions : sessions[id] = o
EverySaveIsRegistered == server = "up" => Loadable \subseteq DOMAIN sessions

\* As long as no two calls have worked on one id at a time, every live GDB can
\* still be stopped: its session is registered.
NoOrphan == overlapped = {} => EveryGdbIsRegistered

\* As long, and while the server is up, a saved session is one that
\* session_disconnect can delete.
SavedIsRegistered == overlapped = {} => EverySaveIsRegistered

\* "Disconnect and clean up": once session_disconnect has returned, nothing of the session
\* is left, in memory or on disk, and nothing comes back after a crash or by saleae_connect.
LeavesNoTrace ==
  \A id \in cleared :
    /\ id \notin DOMAIN sessions /\ decoder[id] = 0 /\ channels[id] # "set"
    /\ file[id] = "none" /\ mapFile[id] = "none"

\* (Not promised.) A saved session can be loaded again, whenever the server stops.
SavedIsRecoverable == [][\A id \in Ids : file[id] = "whole" => file'[id] # "torn"]_vars

\* (Not promised.) A channel map, once configured, is there after the next saleae_connect.
MapRemembered == [][\A id \in Ids : mapFile[id] = "whole" => mapFile'[id] = "whole"]_vars
=============================================================================
