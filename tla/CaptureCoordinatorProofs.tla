---------------------- MODULE CaptureCoordinatorProofs ----------------------
(***************************************************************************)
(* What CaptureCoordinator.tla promises of its captures, for any number of *)
(* clients, captures and coordinators.                                     *)
(***************************************************************************)
EXTENDS CaptureCoordinator, TLAPS

\* A call with a capture of its own.
Using == {"started", "waiting", "continuing", "dwelling", "stopping"}
\* A call whose capture has become its coordinator's current one, and may still record.
Past == {"waiting", "continuing", "dwelling", "stopping"}
\* A call that is done with recording.
Reading == {"extracting", "exporting"}

\* What a phase says of a call by itself.
Phase(m) ==
  /\ m.pc \in Active => m.self \in Coordinators
  /\ m.pc \in {"inserting", "starting"} => m.got = 0
  /\ m.pc \in Using => m.got \in Captures
  /\ m.pc \in {"continuing", "dwelling", "stopping"} => m.kind = "around"
  /\ m.pc = "waiting" => m.kind # "around"
  /\ m.pc = "cleaning" => m.stops \in Captures

\* The files and results of the analyzers.
Decoding(m) ==
  /\ m.files = IF m.pc = "exporting" THEN 1 ELSE 0
  /\ m.given <= m.asked
  /\ m.pc = "exporting" => m.given < m.asked
  /\ m.pc = "ok" => m.given = m.asked

\* Captures that calls and coordinators name have been started, each by one call.
Named ==
  /\ \A c \in Clients : client[c].got # 0 => capture[client[c].got] # "unused"
  /\ \A c \in Clients : client[c].stops # 0 => capture[client[c].stops] # "unused"
  /\ \A s \in Coordinators : current[s] # 0 => capture[current[s]] # "unused"
  /\ \A c, d \in Clients : c # d /\ client[c].got # 0 => client[c].got # client[d].got

\* Between the start of a capture and the task that resumes with it, nobody else knows it;
\* from then on it is the current one of its coordinator for as long as it records, and so the
\* one that a clean-up of its call stops.
Held ==
  /\ \A c \in Clients : client[c].pc = "started" =>
       /\ client[c].got \in Recording
       /\ \A s \in Coordinators : current[s] # client[c].got
       /\ \A d \in Clients : client[d].stops # client[c].got
  /\ \A c \in Clients : client[c].pc \in Past /\ client[c].got \in Recording =>
       Current(c) = client[c].got
  /\ \A c \in Clients : client[c].pc = "cleaning" /\ client[c].got \in Recording =>
       client[c].stops = client[c].got
  /\ \A c \in Clients : client[c].pc \in Reading => client[c].got \notin Recording

\* From the stop on, a capture that records has recorded at the stop.
Covers ==
  \A c \in Clients : client[c].kind = "around" =>
    /\ client[c].pc \in {"dwelling", "stopping"} /\ client[c].got \in Recording
         => client[c].got \in covered
    /\ client[c].pc \in Reading \cup {"ok"} => client[c].got \in covered

IInv ==
  /\ TypeOK
  /\ \A c \in Clients : Phase(client[c]) /\ Decoding(client[c])
  /\ Named /\ Held /\ Covers /\ NoCaptureLeft

-----------------------------------------------------------------------------

\* The invariant holds initially: nothing has been called and nothing records.
LEMMA InitInv == Init => IInv
<1> SUFFICES ASSUME Init PROVE IInv
  OBVIOUS
<1>0. \A c \in Clients : /\ client[c].pc = "idle" /\ client[c].files = 0
                         /\ client[c].given = 0 /\ client[c].asked = 0
                         /\ client[c].got = 0 /\ client[c].stops = 0
  BY DEF Init, Idle
<1> USE CaptureAssumption DEF Init, Idle, Captures, Coordinators
<1>1. TypeOK
  BY DEF TypeOK, Client, Active, Finished, Recording
<1>2. \A c \in Clients : Phase(client[c])
  BY DEF Phase, Active, Using
<1>3. \A c \in Clients : Decoding(client[c])
  <2> SUFFICES ASSUME NEW c \in Clients, NEW m, m = client[c] PROVE Decoding(m)
    OBVIOUS
  <2>1. m.pc = "idle" /\ m.files = 0 /\ m.given = 0 /\ m.asked = 0
    BY <1>0
  <2>2. m.given <= m.asked
    BY ONLY <2>1, SMT
  <2> QED
    BY <2>1, <2>2 DEF Decoding
<1>4. Named /\ Held /\ Covers /\ NoCaptureLeft
  BY DEF Named, Held, Covers, NoCaptureLeft, Recording, Past, Reading
<1> QED
  BY <1>1, <1>2, <1>3, <1>4 DEF IInv

-----------------------------------------------------------------------------
(* How a step of one client changes its record *)

\* Client c comes to pc with its coordinator and its capture; what it is going to stop is
\* what it has known. The others stay.
Moves(c, pc) ==
  /\ client' \in [Clients -> Client]
  /\ client'[c].pc = pc /\ client'[c].kind = client[c].kind
  /\ client'[c].self = client[c].self /\ client'[c].got = client[c].got
  /\ client'[c].stops \in {0, client[c].stops, client[c].got, Current(c)}
  /\ \A d \in Clients \ {c} : client'[d] = client[d]

\* Its analyzers stay, too.
Decodes(c) ==
  /\ client'[c].asked = client[c].asked /\ client'[c].given = client[c].given
  /\ client'[c].files = client[c].files

\* A plain move changes the phase alone.
LEMMA GotoMoves ==
  ASSUME TypeOK, NEW c \in Clients, NEW pc \in Active \cup Finished, Goto(c, pc)
  PROVE  Moves(c, pc) /\ Decodes(c)
BY DEF TypeOK, Client, Goto, Moves, Decodes

\* With a current capture there is something to clean up, without one there is not.
LEMMA CleanUpMoves ==
  ASSUME TypeOK, NEW c \in Clients, NEW result \in {"partial", "error"}, NEW held,
         held \in {client[c].got, Current(c)}, held \in {0} \cup Captures, CleanUp(c, result, held)
  PROVE  /\ Moves(c, IF held = 0 THEN result ELSE "cleaning") /\ Decodes(c)
         /\ client'[c].stops = held
<1> DEFINE pc == IF held = 0 THEN result ELSE "cleaning"
<1>1. pc \in Active \cup Finished
  BY DEF Active, Finished
<1>2. client' = [client EXCEPT ![c].pc = pc, ![c].stops = held, ![c].after = result]
  BY DEF CleanUp
<1> HIDE DEF pc
<1>3. Moves(c, pc) /\ Decodes(c) /\ client'[c].stops = held
  BY <1>1, <1>2 DEF TypeOK, Client, Moves, Decodes
<1> QED
  BY <1>3 DEF pc

\* A failure cleans up in capture_around_breakpoint only.
LEMMA FailsMoves ==
  ASSUME TypeOK, NEW c \in Clients, NEW held,
         held \in {client[c].got, Current(c)}, held \in {0} \cup Captures, Fails(c, held)
  PROVE  /\ Moves(c, IF client[c].kind = "around" /\ held # 0 THEN "cleaning" ELSE "error")
         /\ Decodes(c)
         /\ client[c].kind = "around" /\ held # 0 => client'[c].stops = held
<1>1. "error" \in Active \cup Finished
  BY DEF Finished
<1>2. CASE client[c].kind = "around"
  BY <1>2, CleanUpMoves DEF Fails
<1>3. CASE client[c].kind # "around"
  BY <1>1, <1>3, GotoMoves DEF Fails
<1> QED
  BY <1>2, <1>3

-----------------------------------------------------------------------------
(* A step that starts no capture *)

\* What the step of client c to pc, which ends the captures in S, has to see to.
Safe(c, pc, S) ==
  /\ Phase(client[c])' /\ Decoding(client[c])'
  /\ client[c].got \in Recording \ S =>
       /\ pc \in Past => Current(c) = client[c].got
       /\ pc = "cleaning" => client'[c].stops = client[c].got
       /\ pc \notin Reading
       /\ client[c].kind = "around" /\ pc \in {"dwelling", "stopping"} => client[c].got \in covered'
       /\ pc \in Finished => client[c].got \in abandoned'
  /\ client[c].kind = "around" /\ pc \in Reading \cup {"ok"} => client[c].got \in covered'

\* If it sees to it, the invariant is kept.
LEMMA StepInv ==
  ASSUME IInv, NEW c \in Clients, client[c].pc \in Active \ {"started"},
         NEW pc \in (Active \cup Finished) \ {"started"}, Moves(c, pc),
         NEW S \in SUBSET Captures,
         \A k \in S : /\ capture[k] # "unused"
                      /\ \A d \in Clients : client[d].pc = "started" => client[d].got # k,
         capture' = [k \in Captures |-> IF k \in S THEN "ended" ELSE capture[k]],
         UNCHANGED <<connection, current>>, target' \in {"halted", "running"},
         covered \subseteq covered', covered' \subseteq Captures,
         abandoned \subseteq abandoned', abandoned' \subseteq Captures,
         Safe(c, pc, S)
  PROVE  IInv'
<1>1. /\ Recording' = Recording \ S
      /\ \A k \in Captures : capture[k] # "unused" => capture'[k] # "unused"
      /\ capture' \in [Captures -> {"unused", "recording", "ended"}]
  BY DEF IInv, TypeOK, Recording
<1>2. /\ created' = created /\ registered' = registered /\ connected' = connected
      /\ current' = current
  BY DEF connection
<1>3. /\ client' \in [Clients -> Client] /\ client'[c].pc = pc
      /\ client'[c].kind = client[c].kind
      /\ client'[c].self = client[c].self /\ client'[c].got = client[c].got
      /\ client'[c].stops \in {0, client[c].stops, client[c].got, Current(c)}
      /\ \A d \in Clients \ {c} : client'[d] = client[d]
  BY DEF Moves
<1>4. TypeOK'
  BY <1>1, <1>2, <1>3 DEF IInv, TypeOK
<1>5. \A d \in Clients : (Phase(client[d]) /\ Decoding(client[d]))'
  <2> SUFFICES ASSUME NEW d \in Clients PROVE (Phase(client[d]) /\ Decoding(client[d]))'
    OBVIOUS
  <2>1. CASE d = c
    BY <2>1 DEF Safe
  <2>2. CASE d # c
    BY <2>2, <1>3 DEF IInv, Phase, Decoding
  <2> QED
    BY <2>1, <2>2
<1>6. \A d \in Clients : /\ client'[d].got = client[d].got /\ client'[d].self = client[d].self
                        /\ client'[d].kind = client[d].kind
                        /\ client[d].got \in {0} \cup Captures
  BY <1>3 DEF IInv, TypeOK, Client
<1> DEFINE known == {0, client[c].stops, client[c].got, Current(c)}
<1>11. \A k \in known \ {0} :
         /\ capture[k] # "unused"
         /\ \A d \in Clients : client[d].pc = "started" => client[d].got # k
  <2>1. client[c].self \in Coordinators
    BY DEF IInv, Phase
  <2>2. \A k \in known \ {0} : capture[k] # "unused"
    BY <2>1 DEF IInv, Named, Current
  <2>3. \A d \in Clients : client[d].pc = "started" => d # c /\ client[d].got \in Captures
    BY DEF IInv, Phase, Using
  <2>4. \A d \in Clients : client[d].pc = "started" => client[d].got # client[c].got
    BY <2>3 DEF IInv, Named, Captures
  <2>5. \A d \in Clients : client[d].pc = "started" =>
          client[d].got # client[c].stops /\ client[d].got # Current(c)
    BY <2>1 DEF IInv, Held, Current
  <2> QED
    BY <2>2, <2>4, <2>5
<1> HIDE DEF known
<1>7. Named'
  <2>1. \A d \in Clients : client'[d].got # 0 => capture'[client'[d].got] # "unused"
    BY <1>1, <1>6 DEF IInv, Named
  <2>2. \A d \in Clients : client'[d].stops # 0 => capture'[client'[d].stops] # "unused"
    <3> SUFFICES ASSUME NEW d \in Clients, client'[d].stops # 0
                 PROVE  capture'[client'[d].stops] # "unused"
      OBVIOUS
    <3>1. client'[d].stops \in Captures
      BY <1>3 DEF Client
    <3>2. CASE d = c
      BY <3>1, <3>2, <1>1, <1>3, <1>11 DEF known
    <3>3. CASE d # c
      BY <3>1, <3>3, <1>1, <1>3 DEF IInv, Named
    <3> QED
      BY <3>2, <3>3
  <2>3. \A s \in Coordinators : current'[s] # 0 => capture'[current'[s]] # "unused"
    BY <1>1, <1>2 DEF IInv, TypeOK, Named
  <2>4. \A d, e \in Clients : d # e /\ client'[d].got # 0 => client'[d].got # client'[e].got
    BY <1>6 DEF IInv, Named
  <2> QED
    BY <2>1, <2>2, <2>3, <2>4 DEF Named
<1>12. \A d \in Clients : client'[d].pc = "started" =>
         client[d].pc = "started" /\ \A e \in Clients : client'[e].stops # client[d].got
  <2> SUFFICES ASSUME NEW d \in Clients, client'[d].pc = "started", NEW e \in Clients
               PROVE  client[d].pc = "started" /\ client'[e].stops # client[d].got
    OBVIOUS
  <2>1. d # c /\ client[d].pc = "started"
    BY <1>3
  <2>2. client[d].got \in Captures /\ client[d].got # 0
    BY <2>1 DEF IInv, Phase, Using, Captures
  <2>3. CASE e = c
    BY <2>1, <2>2, <2>3, <1>3, <1>11 DEF known
  <2>4. CASE e # c
    BY <2>1, <2>4, <1>3 DEF IInv, Held
  <2> QED
    BY <2>1, <2>3, <2>4
<1>8. Held'
  <2> SUFFICES ASSUME NEW d \in Clients
               PROVE  /\ client'[d].pc = "started" =>
                           /\ client[d].got \in Recording'
                           /\ \A s \in Coordinators : current[s] # client[d].got
                      /\ client'[d].pc \in Past /\ client[d].got \in Recording' =>
                           current[client[d].self] = client[d].got
                      /\ client'[d].pc = "cleaning" /\ client[d].got \in Recording' =>
                           client'[d].stops = client[d].got
                      /\ client'[d].pc \in Reading => client[d].got \notin Recording'
    BY <1>2, <1>6, <1>12 DEF Held, Current
  <2>1. CASE d = c
    BY <2>1, <1>1, <1>3 DEF Safe, Current
  <2>2. CASE d # c
    BY <2>2, <1>1, <1>3 DEF IInv, Held, Current
  <2> QED
    BY <2>1, <2>2
<1>9. Covers'
  <2> SUFFICES ASSUME NEW d \in Clients, client[d].kind = "around"
               PROVE  /\ client'[d].pc \in {"dwelling", "stopping"} /\ client[d].got \in Recording'
                           => client[d].got \in covered'
                      /\ client'[d].pc \in Reading \cup {"ok"} => client[d].got \in covered'
    BY <1>6 DEF Covers
  <2>1. CASE d = c
    BY <2>1, <1>1, <1>3 DEF Safe
  <2>2. CASE d # c
    BY <2>2, <1>1, <1>3 DEF IInv, Covers
  <2> QED
    BY <2>1, <2>2
<1>10. NoCaptureLeft'
  <2> SUFFICES ASSUME NEW k \in Recording', k \notin abandoned'
               PROVE  \E d \in Clients : client'[d].pc \in Active /\ client'[d].got = k
    BY DEF NoCaptureLeft
  <2>1. PICK d \in Clients : client[d].pc \in Active /\ client[d].got = k
    BY <1>1 DEF IInv, NoCaptureLeft
  <2>2. CASE d = c
    BY <2>1, <2>2, <1>1, <1>3 DEF Safe
  <2>3. CASE d # c
    BY <2>1, <2>3, <1>3
  <2> QED
    BY <2>2, <2>3
<1> QED
  BY <1>4, <1>5, <1>7, <1>8, <1>9, <1>10 DEF IInv

-----------------------------------------------------------------------------
(* The actions *)

\* What the invariant says of one client, and of the captures.
LEMMA Facts ==
  ASSUME IInv, NEW c \in Clients
  PROVE  /\ TypeOK /\ client[c].got \in {0} \cup Captures /\ client[c].kind \in {"timed", "triggered", "around"}
         /\ client[c].asked \in Nat /\ client[c].given \in Nat /\ client[c].files \in Nat
         /\ Phase(client[c]) /\ Decoding(client[c])
         /\ target \in {"halted", "running"} /\ covered \subseteq Captures /\ abandoned \subseteq Captures
         /\ capture = [k \in Captures |-> IF k \in {} THEN "ended" ELSE capture[k]]
         /\ {} \in SUBSET Captures
  BY DEF IInv, TypeOK, Client

\* The current capture of a call that goes on is one, or none.
LEMMA KnowsCurrent ==
  ASSUME IInv, NEW c \in Clients, client[c].pc \in Active
  PROVE  Current(c) \in {0} \cup Captures
  BY DEF IInv, TypeOK, Phase, Current

\* What a client that is past the start of its capture may end: its own capture.
LEMMA MayEndOwn ==
  ASSUME IInv, NEW c \in Clients, client[c].pc \in Using \ {"started"}
  PROVE  /\ {client[c].got} \in SUBSET Captures /\ client[c].got \in Captures
         /\ capture[client[c].got] # "unused"
         /\ \A d \in Clients : client[d].pc = "started" => client[d].got # client[c].got
<1>1. client[c].got \in Captures /\ client[c].got # 0
  BY DEF IInv, Phase, Captures
<1> QED
  BY <1>1 DEF IInv, Named, Using

\* Ending one capture, as StepInv takes it.
LEMMA EndsOwn ==
  ASSUME IInv, NEW k \in Captures, capture' = Ended(k)
  PROVE  capture' = [j \in Captures |-> IF j \in {k} THEN "ended" ELSE capture[j]]
  BY DEF IInv, TypeOK, Ended

\* The capture goes on recording after the stop.
LEMMA DweltInv == ASSUME IInv, NEW c \in Clients, Dwelt(c) PROVE IInv'
<1>1. /\ client[c].pc = "dwelling" /\ Moves(c, "stopping") /\ Decodes(c)
      /\ UNCHANGED <<connection, current, capture, target, covered, abandoned>>
  BY Facts, GotoMoves DEF Dwelt, history, Active, Finished
<1>2. Safe(c, "stopping", {})
  BY <1>1, Facts DEF Safe, Moves, Decodes, Phase, Decoding, Active, Finished, Using, Past, Reading,
                    IInv, Held, Covers
<1> QED
  BY <1>1, <1>2, Facts, StepInv DEF Active, Finished

\* The call ends well when every analyzer has its result.
LEMMA ExtractedInv == ASSUME IInv, NEW c \in Clients, Extracted(c) PROVE IInv'
<1>1. /\ client[c].pc = "extracting" /\ Moves(c, "ok") /\ Decodes(c) /\ client[c].given = client[c].asked
      /\ UNCHANGED <<connection, current, capture, target, covered, abandoned>>
  BY Facts, GotoMoves DEF Extracted, history, Active, Finished
<1>2. Safe(c, "ok", {})
  BY <1>1, Facts DEF Safe, Moves, Decodes, Phase, Decoding, Active, Finished, Using, Past, Reading,
                    IInv, Held, Covers
<1> QED
  BY <1>1, <1>2, Facts, StepInv DEF Active, Finished

\* Before the start the call has no capture, whether the breakpoint is set or refused.
LEMMA BreakpointSetInv == ASSUME IInv, NEW c \in Clients, BreakpointSet(c) PROVE IInv'
<1>1. PICK pc \in {"starting", "error"} :
        /\ client[c].pc = "inserting" /\ Moves(c, pc) /\ Decodes(c)
        /\ UNCHANGED <<connection, current, capture, target, covered, abandoned>>
  BY Facts, GotoMoves DEF BreakpointSet, history, Active, Finished
<1>2. client[c].got = 0 /\ client[c].got \notin Recording
  BY <1>1, Facts DEF Phase, Recording, Captures
<1>3. Safe(c, pc, {})
  BY <1>1, <1>2, Facts DEF Safe, Moves, Decodes, Phase, Decoding, Active, Finished, Using, Past, Reading
<1> QED
  BY <1>1, <1>3, Facts, StepInv DEF Active, Finished

\* A refused capture leaves nothing that records: the call has none.
LEMMA DeviceRefusesInv == ASSUME IInv, NEW c \in Clients, DeviceRefuses(c) PROVE IInv'
<1>0. Current(c) \in {0} \cup Captures
  BY KnowsCurrent DEF DeviceRefuses, Active
<1>1. PICK pc \in {"cleaning", "error"} :
        /\ client[c].pc = "starting" /\ Moves(c, pc) /\ Decodes(c)
        /\ UNCHANGED <<connection, current, capture, target, covered, abandoned>>
        /\ pc = "cleaning" => client'[c].stops \in Captures
  BY <1>0, Facts, FailsMoves DEF DeviceRefuses, history
<1>2. client[c].got = 0 /\ client[c].got \notin Recording
  BY <1>1, Facts DEF Phase, Recording, Captures
<1>3. Safe(c, pc, {})
  BY <1>1, <1>2, Facts DEF Safe, Moves, Decodes, Phase, Decoding, Active, Finished, Using, Past, Reading
<1> QED
  BY <1>1, <1>3, Facts, StepInv DEF Active, Finished

\* The next analyzer: exporting, or done with at once.
LEMMA AddsAnalyzerInv == ASSUME IInv, NEW c \in Clients, AddsAnalyzer(c) PROVE IInv'
<1>1. /\ client[c].pc = "extracting" /\ client[c].given < client[c].asked
      /\ UNCHANGED <<connection, current, capture, target, covered, abandoned>>
  BY DEF AddsAnalyzer, history
<1>2. PICK pc \in {"exporting", "extracting"} :
        /\ Moves(c, pc) /\ client'[c].asked = client[c].asked
        /\ client'[c].given <= client[c].asked
        /\ pc = "exporting" => client'[c].given < client[c].asked
        /\ client'[c].files = IF pc = "exporting" THEN 1 ELSE 0
  <2>1. CASE client' = [client EXCEPT ![c].pc = "exporting", ![c].files = @ + 1]
    <3>3. /\ Moves(c, "exporting") /\ client'[c].asked = client[c].asked
          /\ client'[c].given = client[c].given /\ client'[c].files = client[c].files + 1
      BY <2>1, Facts DEF TypeOK, Client, Active, Moves
    <3> QED
      BY <1>1, <3>3, Facts DEF Decoding
  <2>2. CASE client' = [client EXCEPT ![c].given = @ + 1]
    <3>1. /\ Moves(c, "extracting") /\ client'[c].asked = client[c].asked
          /\ client'[c].given = client[c].given + 1 /\ client'[c].files = client[c].files
      BY <1>1, <2>2, Facts DEF TypeOK, Client, Moves
    <3> QED
      BY <1>1, <3>1, Facts DEF Decoding
  <2> QED
    BY <2>1, <2>2 DEF AddsAnalyzer
<1>3. Safe(c, pc, {})
  BY <1>1, <1>2, Facts DEF Safe, Moves, Phase, Decoding, Active, Finished, Using, Past, Reading,
                           IInv, Held, Covers
<1> QED
  BY <1>1, <1>2, <1>3, Facts, StepInv DEF Active, Finished

\* One result more and the file is gone.
LEMMA ExportedInv == ASSUME IInv, NEW c \in Clients, Exported(c) PROVE IInv'
<1>1. /\ client[c].pc = "exporting" /\ client[c].given < client[c].asked
      /\ UNCHANGED <<connection, current, capture, target, covered, abandoned>>
  BY Facts DEF Exported, history, Decoding
<1>2. /\ Moves(c, "extracting") /\ client'[c].asked = client[c].asked
      /\ client'[c].given = client[c].given + 1 /\ client'[c].files = client[c].files - 1
  BY Facts DEF Decoding, Exported, TypeOK, Client, Active, Moves
<1>3. Safe(c, "extracting", {})
  BY <1>1, <1>2, Facts DEF Safe, Moves, Phase, Decoding, Active, Finished, Using, Past, Reading,
                           IInv, Held, Covers
<1> QED
  BY <1>1, <1>2, <1>3, Facts, StepInv DEF Active, Finished

\* The capture's end is the device's, or the call's own.
LEMMA CaptureCompleteInv == ASSUME IInv, NEW c \in Clients, CaptureComplete(c) PROVE IInv'
<1>1. /\ client[c].pc = "waiting" /\ Moves(c, "extracting") /\ Decodes(c)
      /\ UNCHANGED <<connection, current, target, covered, abandoned>>
      /\ capture' = Ended(client[c].got)
  BY Facts, GotoMoves DEF CaptureComplete, history, Active, Finished
<1>2. Safe(c, "extracting", {client[c].got})
  BY <1>1, Facts DEF Safe, Moves, Decodes, Phase, Decoding, Active, Finished, Using, Past, Reading
<1>3. capture' = [k \in Captures |-> IF k \in {client[c].got} THEN "ended" ELSE capture[k]]
  BY <1>1, MayEndOwn, EndsOwn DEF Using
<1>4. /\ {client[c].got} \in SUBSET Captures
      /\ \A k \in {client[c].got} :
           /\ capture[k] # "unused"
           /\ \A d \in Clients : client[d].pc = "started" => client[d].got # k
  BY <1>1, MayEndOwn DEF Using
<1> QED
  BY <1>1, <1>2, <1>3, <1>4, Facts, StepInv DEF Active, Finished

\* If the capture has not ended with wait(), it is abandoned.
LEMMA WaitFailsInv == ASSUME IInv, NEW c \in Clients, WaitFails(c) PROVE IInv'
<1>1. /\ client[c].pc = "waiting" /\ client[c].kind # "around"
      /\ UNCHANGED <<connection, current, target, covered>>
  BY Facts DEF WaitFails, Phase
<1>2. Moves(c, "error") /\ Decodes(c)
  BY <1>1, Facts, GotoMoves DEF WaitFails, Fails, Finished
<1>3. CASE capture' = Ended(client[c].got) /\ UNCHANGED abandoned
  <2>1. Safe(c, "error", {client[c].got})
    BY <1>1, <1>2, <1>3, Facts DEF Safe, Moves, Decodes, Phase, Decoding, Active, Finished, Using, Past, Reading
  <2>2. capture' = [k \in Captures |-> IF k \in {client[c].got} THEN "ended" ELSE capture[k]]
    BY <1>1, <1>3, MayEndOwn, EndsOwn DEF Using
  <2>3. /\ {client[c].got} \in SUBSET Captures
        /\ \A k \in {client[c].got} :
             /\ capture[k] # "unused"
             /\ \A d \in Clients : client[d].pc = "started" => client[d].got # k
    BY <1>1, MayEndOwn DEF Using
  <2> QED
    BY <1>1, <1>2, <1>3, <2>1, <2>2, <2>3, Facts, StepInv DEF Active, Finished
<1>4. CASE abandoned' = abandoned \cup {client[c].got} /\ UNCHANGED capture
  <2>1. Safe(c, "error", {}) /\ client[c].got \in Captures
    BY <1>1, <1>2, <1>4, Facts DEF Safe, Moves, Decodes, Phase, Decoding, Active, Finished, Using, Past, Reading
  <2> QED
    BY <1>1, <1>2, <1>4, <2>1, Facts, StepInv DEF Active, Finished
<1> QED
  BY <1>3, <1>4 DEF WaitFails

\* A call that is past the start cleans up if its capture records: that is the current one.
LEMMA CleanUpSafe ==
  ASSUME IInv, NEW c \in Clients, client[c].pc \in {"waiting", "continuing", "stopping"},
         NEW result \in {"partial", "error"},
         CleanUp(c, result, Current(c)), covered \subseteq covered'
  PROVE  \E pc \in {"cleaning", result} : Moves(c, pc) /\ Safe(c, pc, {})
<1>0. Current(c) \in {0} \cup Captures
  BY KnowsCurrent DEF Active
<1>1. PICK pc \in {"cleaning", result} :
        /\ pc = IF Current(c) = 0 THEN result ELSE "cleaning"
        /\ Moves(c, pc) /\ Decodes(c) /\ client'[c].stops = Current(c)
  BY <1>0, Facts, CleanUpMoves
<1>2. client[c].got \in Recording => client[c].got # 0 /\ Current(c) = client[c].got
  BY DEF IInv, Held, Past, Recording, Captures
<1>3. Safe(c, pc, {})
  BY <1>0, <1>1, <1>2, Facts DEF Safe, Moves, Decodes, Phase, Decoding, Active, Finished, Using, Past, Reading
<1> QED
  BY <1>1, <1>3

\* A timed capture is stopped, a triggered one abandoned.
LEMMA WaitTimesOutInv == ASSUME IInv, NEW c \in Clients, WaitTimesOut(c) PROVE IInv'
<1>1. /\ client[c].pc = "waiting" /\ client[c].got \in Captures
      /\ UNCHANGED <<connection, current, capture, target, covered>>
  BY Facts DEF WaitTimesOut, Phase, Using
<1>2. CASE client[c].kind = "timed"
  <2>1. CleanUp(c, "partial", Current(c)) /\ UNCHANGED abandoned
    BY <1>2 DEF WaitTimesOut
  <2>2. PICK pc \in {"cleaning", "partial"} : Moves(c, pc) /\ Safe(c, pc, {})
    BY <1>1, <2>1, CleanUpSafe
  <2> QED
    BY <1>1, <2>1, <2>2, Facts, StepInv DEF Active, Finished
<1>3. CASE client[c].kind # "timed"
  <2>1. /\ Moves(c, "partial") /\ Decodes(c) /\ abandoned' = abandoned \cup {client[c].got}
    BY <1>3, Facts, GotoMoves DEF WaitTimesOut, Finished
  <2>2. Safe(c, "partial", {})
    BY <1>1, <2>1, Facts DEF Safe, Moves, Decodes, Phase, Decoding, Active, Finished, Using, Past, Reading
  <2> QED
    BY <1>1, <2>1, <2>2, Facts, StepInv DEF Active, Finished
<1> QED
  BY <1>2, <1>3

\* What records at the stop is covered.
LEMMA TargetStopsInv == ASSUME IInv, NEW c \in Clients, TargetStops(c) PROVE IInv'
<1>1. /\ client[c].pc = "continuing" /\ client[c].got \in Captures
      /\ Moves(c, "dwelling") /\ Decodes(c) /\ target' = "halted"
      /\ UNCHANGED <<connection, current, capture, abandoned>>
      /\ covered' = covered \cup ({client[c].got} \cap Recording)
  BY Facts, GotoMoves DEF TargetStops, Phase, Using, Active
<1>2. Safe(c, "dwelling", {})
  BY <1>1, Facts DEF Safe, Moves, Decodes, Phase, Decoding, Active, Finished, Using, Past, Reading,
                     IInv, Held
<1> QED
  BY <1>1, <1>2, Facts, StepInv DEF Active, Finished

\* A run that fails or times out cleans up.
LEMMA ContinueFailsInv == ASSUME IInv, NEW c \in Clients, ContinueFails(c) PROVE IInv'
<1>1. /\ client[c].pc = "continuing" /\ target' \in {"halted", "running"}
      /\ UNCHANGED <<connection, current, capture, covered, abandoned>>
  BY DEF ContinueFails, history
<1>2. PICK result \in {"partial", "error"} : CleanUp(c, result, Current(c))
  BY DEF ContinueFails
<1>3. PICK pc \in {"cleaning", result} : Moves(c, pc) /\ Safe(c, pc, {})
  BY <1>1, <1>2, CleanUpSafe
<1> QED
  BY <1>1, <1>3, Facts, StepInv DEF Active, Finished

\* The step to the clean-up ends the call's capture or none.
LEMMA MayEnd ==
  ASSUME IInv, NEW c \in Clients, client[c].pc \in Using \ {"started"},
         capture' \in {capture, Ended(client[c].got)}
  PROVE  \E S \in SUBSET {client[c].got} :
           /\ S \in SUBSET Captures
           /\ capture' = [k \in Captures |-> IF k \in S THEN "ended" ELSE capture[k]]
           /\ \A k \in S : /\ capture[k] # "unused"
                           /\ \A d \in Clients : client[d].pc = "started" => client[d].got # k
<1>1. /\ client[c].got \in Captures /\ capture[client[c].got] # "unused"
      /\ \A d \in Clients : client[d].pc = "started" => client[d].got # client[c].got
  BY MayEndOwn
<1>2. CASE capture' = capture
  <2>1. capture' = [k \in Captures |-> IF k \in {} THEN "ended" ELSE capture[k]]
    BY <1>2, Facts
  <2>2. {} \in SUBSET {client[c].got} /\ {} \in SUBSET Captures
    OBVIOUS
  <2> QED
    BY <2>1, <2>2
<1>3. CASE capture' = Ended(client[c].got)
  <2>1. capture' = [k \in Captures |-> IF k \in {client[c].got} THEN "ended" ELSE capture[k]]
    BY <1>1, <1>3, EndsOwn
  <2> QED
    BY <1>1, <2>1
<1> QED
  BY <1>2, <1>3

\* A capture that still records when it is stopped was covered; if stop() raises it is tried again.
LEMMA StoppedInv == ASSUME IInv, NEW c \in Clients, Stopped(c) PROVE IInv'
<1>1. /\ client[c].pc = "stopping" /\ client[c].kind = "around" /\ client[c].got \in Captures
      /\ UNCHANGED <<connection, current, target, covered, abandoned>>
      /\ capture' \in {capture, Ended(client[c].got)}
  BY Facts DEF Stopped, history, Phase, Using
<1>2. PICK S \in SUBSET {client[c].got} :
        /\ S \in SUBSET Captures
        /\ capture' = [k \in Captures |-> IF k \in S THEN "ended" ELSE capture[k]]
        /\ \A k \in S : /\ capture[k] # "unused"
                        /\ \A d \in Clients : client[d].pc = "started" => client[d].got # k
  BY <1>1, MayEnd DEF Using
<1>3. CASE /\ capture[client[c].got] = "recording" /\ capture' = Ended(client[c].got)
           /\ Goto(c, "extracting")
  <2>1. /\ Moves(c, "extracting") /\ Decodes(c) /\ client[c].got \in covered
        /\ client[c].got \notin Recording \ S
    <3>1. Moves(c, "extracting") /\ Decodes(c)
      BY <1>3, Facts, GotoMoves DEF Active
    <3>2. client[c].got \in covered
      BY <1>1, <1>3 DEF IInv, Covers, Recording
    <3>3. capture'[client[c].got] = "ended"
      BY <1>1, <1>3 DEF Ended, IInv, TypeOK
    <3>4. client[c].got \in S
      BY <1>1, <1>2, <1>3, <3>3
    <3> QED
      BY <3>1, <3>2, <3>4
  <2>2. Safe(c, "extracting", S)
    BY <1>1, <2>1, Facts DEF Safe, Moves, Decodes, Phase, Decoding, Active, Finished, Using, Past, Reading
  <2> QED
    BY <1>1, <1>2, <2>1, <2>2, Facts, StepInv DEF Active, Finished
<1>4. CASE Fails(c, Current(c))
  <2>1. CleanUp(c, "error", Current(c))
    BY <1>1, <1>4 DEF Fails
  <2>2. PICK pc \in {"cleaning", "error"} : Moves(c, pc) /\ Safe(c, pc, {})
    BY <1>1, <2>1, CleanUpSafe
  <2>3. Safe(c, pc, S)
    BY <2>2 DEF Safe
  <2> QED
    BY <1>1, <1>2, <2>2, <2>3, Facts, StepInv DEF Active, Finished
<1> QED
  BY <1>3, <1>4 DEF Stopped

\* If the call's own capture records, it is the one to be stopped: it ends, or is abandoned.
LEMMA CleanedInv == ASSUME IInv, NEW c \in Clients, Cleaned(c) PROVE IInv'
<1> DEFINE k == client[c].stops
<1>1. /\ client[c].pc = "cleaning" /\ k \in Captures /\ k # 0
      /\ UNCHANGED <<connection, current, target, covered>>
  BY Facts DEF Cleaned, Phase, Captures
<1>2. /\ capture[k] # "unused"
      /\ \A d \in Clients : client[d].pc = "started" => client[d].got # k
      /\ client[c].got \in Recording => k = client[c].got
  BY <1>1 DEF IInv, Named, Held
<1>3. PICK pc \in {"partial", "error"} : Moves(c, pc) /\ Decodes(c)
  <2>1. client[c].after \in {"partial", "error"}
    BY Facts DEF TypeOK, Client
  <2>2. client' = [client EXCEPT ![c].pc = client[c].after, ![c].stops = 0]
    BY DEF Cleaned
  <2>3. Moves(c, client[c].after) /\ Decodes(c)
    BY <2>1, <2>2, Facts DEF TypeOK, Client, Finished, Moves, Decodes
  <2> QED
    BY <2>1, <2>3
<1> HIDE DEF k
<1>4. CASE capture' = Ended(k) /\ UNCHANGED abandoned
  <2>1. client[c].got \notin Recording \ {k}
    BY <1>2
  <2>2. Safe(c, pc, {k})
    BY <1>1, <1>3, <1>4, <2>1, Facts DEF Safe, Moves, Decodes, Phase, Decoding, Active, Finished, Using, Past, Reading
  <2>3. capture' = [j \in Captures |-> IF j \in {k} THEN "ended" ELSE capture[j]]
    BY <1>1, <1>4, EndsOwn
  <2>4. {k} \in SUBSET Captures
    BY <1>1
  <2>5. /\ client[c].pc \in Active \ {"started"} /\ pc \in (Active \cup Finished) \ {"started"}
        /\ \A j \in {k} : /\ capture[j] # "unused"
                          /\ \A d \in Clients : client[d].pc = "started" => client[d].got # j
    BY <1>1, <1>2 DEF Active, Finished
  <2> QED
    BY <1>1, <1>3, <1>4, <2>2, <2>3, <2>4, <2>5, Facts, StepInv
<1>5. CASE abandoned' = abandoned \cup ({k} \cap {client[c].got}) /\ UNCHANGED capture
  <2>1. client[c].got \in Recording => client[c].got \in abandoned'
    BY <1>2, <1>5
  <2>2. Safe(c, pc, {})
    BY <1>1, <1>3, <2>1, Facts DEF Safe, Moves, Decodes, Phase, Decoding, Active, Finished, Using, Past, Reading
  <2>3. abandoned \subseteq abandoned' /\ abandoned' \subseteq Captures
    BY <1>1, <1>5, Facts
  <2> QED
    BY <1>1, <1>3, <1>5, <2>2, <2>3, Facts, StepInv DEF Active, Finished
<1> QED
  BY <1>4, <1>5 DEF Cleaned, k

\* A record without a capture keeps the invariant, where there was none that recorded.
LEMMA FreshInv ==
  ASSUME IInv, NEW c \in Clients, client[c].pc \in Finished,
         NEW m \in Client, m.pc \in {"inserting", "starting", "error"}, m.got = 0,
         m.stops = 0, m.pc # "error" => m.self \in Coordinators,
         m.files = 0, m.given = 0, m.given <= m.asked, client' = [client EXCEPT ![c] = m],
         UNCHANGED <<created, registered, connected, current, capture, target, covered, abandoned>>
  PROVE  IInv'
<1>1. /\ client' \in [Clients -> Client] /\ client'[c] = m
      /\ \A d \in Clients \ {c} : client'[d] = client[d]
      /\ Recording' = Recording
  BY DEF IInv, TypeOK, Recording
<1>2. TypeOK'
  BY <1>1 DEF IInv, TypeOK
<1>3. \A d \in Clients : (Phase(client[d]) /\ Decoding(client[d]))'
  <2> SUFFICES ASSUME NEW d \in Clients PROVE (Phase(client[d]) /\ Decoding(client[d]))'
    OBVIOUS
  <2>1. CASE d = c
    BY <2>1, <1>1 DEF Phase, Decoding, Active, Using, Finished
  <2>2. CASE d # c
    BY <2>2, <1>1 DEF IInv, Phase, Decoding
  <2> QED
    BY <2>1, <2>2
<1>4. Named'
  BY <1>1 DEF IInv, Named
<1>5. m.got \notin Recording
  BY DEF Recording, Captures
<1>6. Held'
  <2> SUFFICES ASSUME NEW d \in Clients
               PROVE  /\ client'[d].pc = "started" =>
                           /\ client'[d].got \in Recording
                           /\ \A s \in Coordinators : current[s] # client'[d].got
                           /\ \A e \in Clients : client'[e].stops # client'[d].got
                      /\ client'[d].pc \in Past /\ client'[d].got \in Recording =>
                           current[client'[d].self] = client'[d].got
                      /\ client'[d].pc = "cleaning" /\ client'[d].got \in Recording =>
                           client'[d].stops = client'[d].got
                      /\ client'[d].pc \in Reading => client'[d].got \notin Recording
    BY <1>1 DEF Held, Current
  <2>1. CASE d = c
    BY <2>1, <1>1, <1>5
  <2>2. CASE d # c
    <3>1. client[d].pc = "started" => client[d].got # 0
      BY DEF IInv, Held, Recording, Captures
    <3> QED
      BY <2>2, <3>1, <1>1 DEF IInv, Held, Current
  <2> QED
    BY <2>1, <2>2
<1>7. Covers'
  <2> SUFFICES ASSUME NEW d \in Clients, client'[d].kind = "around"
               PROVE  /\ client'[d].pc \in {"dwelling", "stopping"} /\ client'[d].got \in Recording
                           => client'[d].got \in covered
                      /\ client'[d].pc \in Reading \cup {"ok"} => client'[d].got \in covered
    BY <1>1 DEF Covers
  <2>1. CASE d = c
    BY <2>1, <1>1, <1>5 DEF Reading
  <2>2. CASE d # c
    BY <2>2, <1>1 DEF IInv, Covers
  <2> QED
    BY <2>1, <2>2
<1>8. NoCaptureLeft'
  <2> SUFFICES ASSUME NEW k \in Recording, k \notin abandoned
               PROVE  \E d \in Clients : client'[d].pc \in Active /\ client'[d].got = k
    BY <1>1 DEF NoCaptureLeft
  <2>1. PICK d \in Clients : client[d].pc \in Active /\ client[d].got = k
    BY DEF IInv, NoCaptureLeft
  <2>2. d # c
    BY <2>1 DEF Active, Finished
  <2> QED
    BY <2>1, <2>2, <1>1
<1> QED
  BY <1>2, <1>3, <1>4, <1>6, <1>7, <1>8 DEF IInv

\* A call begins without a capture; the one before it had stopped its own.
LEMMA CallInv ==
  ASSUME IInv, NEW c \in Clients, NEW kind \in Kinds[c], NEW analyzers \in Analyzers[c],
         Call(c, kind, analyzers)
  PROVE  IInv'
<1> DEFINE refused == [Idle EXCEPT !.kind = kind, !.pc = "error"]
           begun == [Idle EXCEPT !.kind = kind, !.self = registered, !.asked = analyzers,
                       !.pc = IF kind = "around" THEN "inserting" ELSE "starting"]
<1>1. /\ client[c].pc \in Finished
      /\ UNCHANGED <<created, registered, connected, current, capture, target, covered, abandoned>>
      /\ client' = [client EXCEPT ![c] = IF registered \notin connected THEN refused ELSE begun]
  BY DEF Call, connection, history
<1>2. kind \in {"timed", "triggered", "around"} /\ analyzers \in Nat
  BY CaptureAssumption
<1>3. /\ refused \in Client /\ refused.pc = "error" /\ refused.got = 0 /\ refused.stops = 0
      /\ refused.files = 0 /\ refused.given = 0 /\ refused.asked = 0
  BY <1>2 DEF Idle, Client, Active, Finished
<1>4. CASE registered \in connected
  <2>1. registered \in Coordinators
    BY <1>4, CaptureAssumption DEF IInv, TypeOK, Coordinators
  <2>2. /\ begun \in Client /\ begun.pc \in {"inserting", "starting"} /\ begun.got = 0 /\ begun.stops = 0
        /\ begun.files = 0 /\ begun.given = 0 /\ begun.asked = analyzers /\ begun.self \in Coordinators
    BY <2>1, <1>2 DEF Idle, Client, Active, Finished
  <2>3. begun.given <= begun.asked /\ client' = [client EXCEPT ![c] = begun]
    BY <1>1, <1>2, <1>4, <2>2
  <2> HIDE DEF begun, refused
  <2> QED
    BY <1>1, <2>2, <2>3, FreshInv
<1>5. CASE registered \notin connected
  <2>1. refused.given <= refused.asked /\ client' = [client EXCEPT ![c] = refused]
    BY <1>1, <1>3, <1>5
  <2> HIDE DEF refused, begun
  <2> QED
    BY <1>1, <1>3, <2>1, FreshInv
<1> QED
  BY <1>4, <1>5

\* The capture that starts is new, and nothing else records.
LEMMA DeviceStartsInv ==
  ASSUME IInv, NEW c \in Clients, NEW k \in Captures, DeviceStarts(c, k)
  PROVE  IInv'
<1>1. /\ client[c].pc = "starting" /\ Recording = {} /\ capture[k] = "unused"
      /\ UNCHANGED <<created, registered, connected, current, target, covered, abandoned>>
      /\ capture' = [capture EXCEPT ![k] = "recording"]
      /\ client' = [client EXCEPT ![c].pc = "started", ![c].got = k]
  BY DEF DeviceStarts, Records, connection, history
<1>2. /\ client' \in [Clients -> Client]
      /\ client'[c].pc = "started" /\ client'[c].got = k
      /\ client'[c].kind = client[c].kind /\ client'[c].self = client[c].self
      /\ client'[c].asked = client[c].asked /\ client'[c].given = client[c].given
      /\ client'[c].files = client[c].files /\ client'[c].stops = client[c].stops
      /\ \A d \in Clients \ {c} : client'[d] = client[d]
  BY <1>1 DEF IInv, TypeOK, Client, Active
<1>3. /\ Recording' = {k} /\ capture' \in [Captures -> {"unused", "recording", "ended"}]
      /\ \A j \in Captures : j # k => capture'[j] = capture[j]
  BY <1>1 DEF IInv, TypeOK, Recording
<1>4. k # 0
  BY DEF Captures
<1>5. /\ \A d \in Clients : client[d].got # k /\ client[d].stops # k
      /\ \A s \in Coordinators : current[s] # k
  BY <1>1, <1>4 DEF IInv, Named
<1>6. TypeOK'
  BY <1>1, <1>2, <1>3 DEF IInv, TypeOK
<1>7. \A d \in Clients : (Phase(client[d]) /\ Decoding(client[d]))'
  <2> SUFFICES ASSUME NEW d \in Clients PROVE (Phase(client[d]) /\ Decoding(client[d]))'
    OBVIOUS
  <2>1. CASE d = c
    <3>1. Phase(client[c])'
      BY <1>1, <1>2 DEF IInv, Phase, Active, Using
    <3>2. Decoding(client[c])'
      BY <1>1, <1>2 DEF IInv, Decoding
    <3> QED
      BY <2>1, <3>1, <3>2
  <2>2. CASE d # c
    BY <2>2, <1>2 DEF IInv, Phase, Decoding
  <2> QED
    BY <2>1, <2>2
<1>8. Named'
  <2>1. \A d \in Clients : client'[d].got # 0 => capture'[client'[d].got] # "unused"
    BY <1>1, <1>2, <1>3, <1>5 DEF IInv, TypeOK, Client, Named
  <2>4. \A d \in Clients : client'[d].stops # 0 => capture'[client'[d].stops] # "unused"
    BY <1>1, <1>2, <1>3, <1>5 DEF IInv, TypeOK, Client, Named
  <2>2. \A s \in Coordinators : current'[s] # 0 => capture'[current'[s]] # "unused"
    BY <1>1, <1>3, <1>5 DEF IInv, TypeOK, Named
  <2>3. \A d, e \in Clients : d # e /\ client'[d].got # 0 => client'[d].got # client'[e].got
    BY <1>2, <1>5 DEF IInv, Named
  <2> QED
    BY <2>1, <2>2, <2>3, <2>4 DEF Named
<1>9. Held'
  <2> SUFFICES ASSUME NEW d \in Clients
               PROVE  /\ client'[d].pc = "started" =>
                           /\ client'[d].got \in Recording'
                           /\ \A s \in Coordinators : current[s] # client'[d].got
                           /\ \A e \in Clients : client'[e].stops # client'[d].got
                      /\ client'[d].pc \in Past /\ client'[d].got \in Recording' =>
                           current[client'[d].self] = client'[d].got
                      /\ client'[d].pc = "cleaning" /\ client'[d].got \in Recording' =>
                           client'[d].stops = client'[d].got
                      /\ client'[d].pc \in Reading => client'[d].got \notin Recording'
    BY <1>1 DEF Held, Current
  <2>1. CASE d = c
    BY <2>1, <1>2, <1>3, <1>5 DEF Past, Reading
  <2>2. CASE d # c
    BY <2>2, <1>1, <1>2, <1>3, <1>5 DEF IInv, Held, Current
  <2> QED
    BY <2>1, <2>2
<1>10. Covers'
  <2> SUFFICES ASSUME NEW d \in Clients, client'[d].kind = "around"
               PROVE  /\ client'[d].pc \in {"dwelling", "stopping"} /\ client'[d].got \in Recording'
                           => client'[d].got \in covered
                      /\ client'[d].pc \in Reading \cup {"ok"} => client'[d].got \in covered
    BY <1>1 DEF Covers
  <2>1. CASE d = c
    BY <2>1, <1>2 DEF Reading
  <2>2. CASE d # c
    BY <2>2, <1>2, <1>3, <1>5 DEF IInv, Covers
  <2> QED
    BY <2>1, <2>2
<1>11. NoCaptureLeft'
  BY <1>2, <1>3 DEF NoCaptureLeft, Active
<1> QED
  BY <1>6, <1>7, <1>8, <1>9, <1>10, <1>11 DEF IInv

\* Its capture becomes the current one; as nothing else records, no other call loses its own.
LEMMA CaptureStartedInv == ASSUME IInv, NEW c \in Clients, CaptureStarted(c) PROVE IInv'
<1> DEFINE got == client[c].got
           self == client[c].self
<1>1. /\ client[c].pc = "started" /\ current' = [current EXCEPT ![self] = got]
      /\ UNCHANGED <<created, registered, connected, capture, covered, abandoned>>
      /\ target' \in {"halted", "running"}
  BY Facts DEF CaptureStarted, connection, history
<1>2. /\ got \in Recording /\ got \in Captures /\ got # 0 /\ self \in Coordinators
      /\ \A k \in Recording : k = got
  BY <1>1, Facts DEF IInv, Held, TypeOK, Phase, Using, Active, Captures
<1>3. PICK pc \in {"waiting", "continuing", "cleaning"} :
        /\ Moves(c, pc) /\ Decodes(c)
        /\ pc = "waiting" => client[c].kind # "around"
        /\ pc # "waiting" => client[c].kind = "around"
        /\ pc = "cleaning" => client'[c].stops = got
  <2>1. CASE client[c].kind # "around"
    <3>1. Moves(c, "waiting") /\ Decodes(c)
      BY <1>1, <2>1, Facts, GotoMoves DEF CaptureStarted, Active
    <3> QED
      BY <2>1, <3>1
  <2>2. CASE client[c].kind = "around" /\ target = "halted"
    <3>1. Moves(c, "continuing") /\ Decodes(c)
      BY <1>1, <2>2, Facts, GotoMoves DEF CaptureStarted, Active
    <3> QED
      BY <2>2, <3>1
  <2>3. CASE client[c].kind = "around" /\ target # "halted"
    <3>1. CleanUp(c, "error", got)
      BY <1>1, <2>3 DEF CaptureStarted, Fails
    <3>2. Moves(c, "cleaning") /\ Decodes(c) /\ client'[c].stops = got
      BY <1>2, <3>1, Facts, CleanUpMoves
    <3> QED
      BY <2>3, <3>2
  <2> QED
    BY <2>1, <2>2, <2>3
<1> HIDE DEF got, self
<1>4. /\ client' \in [Clients -> Client] /\ client'[c].pc = pc
      /\ client'[c].kind = client[c].kind
      /\ client'[c].self = self /\ client'[c].got = got
      /\ client'[c].stops \in {0, client[c].stops, got, current[self]}
      /\ \A d \in Clients \ {c} : client'[d] = client[d]
  BY <1>3 DEF Moves, Current, got, self
<1>5. /\ Recording' = Recording
      /\ current' \in [Coordinators -> {0} \cup Captures] /\ current'[self] = got
      /\ \A s \in Coordinators : s # self => current'[s] = current[s]
  BY <1>1, <1>2 DEF IInv, TypeOK, Recording
<1>6. TypeOK'
  BY <1>1, <1>4, <1>5 DEF IInv, TypeOK
<1>7. \A d \in Clients : (Phase(client[d]) /\ Decoding(client[d]))'
  <2> SUFFICES ASSUME NEW d \in Clients PROVE (Phase(client[d]) /\ Decoding(client[d]))'
    OBVIOUS
  <2>1. CASE d = c
    <3>1. Phase(client[c])'
      BY <1>2, <1>3, <1>4 DEF Phase, Active, Using
    <3>2. Decoding(client[c])'
      BY <1>1, <1>3, <1>4, Facts DEF Decoding, Decodes
    <3> QED
      BY <2>1, <3>1, <3>2
  <2>2. CASE d # c
    BY <2>2, <1>4 DEF IInv, Phase, Decoding
  <2> QED
    BY <2>1, <2>2
<1>8. Named'
  <2>1. \A d \in Clients : client'[d].got = client[d].got
    BY <1>4 DEF got
  <2>2. capture[got] # "unused"
    BY <1>2 DEF Recording
  <2>3. \A s \in Coordinators : current'[s] # 0 => capture[current'[s]] # "unused"
    BY <1>5, <2>2 DEF IInv, Named
  <2>4. \A d \in Clients : client'[d].stops # 0 => capture[client'[d].stops] # "unused"
    BY <1>2, <1>4, <2>2 DEF IInv, Named
  <2>5. /\ \A d \in Clients : client'[d].got # 0 => capture[client'[d].got] # "unused"
        /\ \A d, e \in Clients : d # e /\ client'[d].got # 0 => client'[d].got # client'[e].got
    BY <2>1 DEF IInv, Named
  <2>6. capture' = capture
    BY <1>1
  <2> QED
    BY <2>3, <2>4, <2>5, <2>6 DEF Named
<1>9. \A d \in Clients \ {c} : client[d].got \notin Recording
  BY <1>2 DEF IInv, Named, got
<1>10. Held'
  <2> SUFFICES ASSUME NEW d \in Clients
               PROVE  /\ client'[d].pc = "started" =>
                           /\ client'[d].got \in Recording
                           /\ \A s \in Coordinators : current'[s] # client'[d].got
                           /\ \A e \in Clients : client'[e].stops # client'[d].got
                      /\ client'[d].pc = "cleaning" /\ client'[d].got \in Recording =>
                           client'[d].stops = client'[d].got
                      /\ client'[d].pc \in Past /\ client'[d].got \in Recording =>
                           current'[client'[d].self] = client'[d].got
                      /\ client'[d].pc \in Reading => client'[d].got \notin Recording
    BY <1>5 DEF Held, Current
  <2>1. CASE d = c
    BY <2>1, <1>3, <1>4, <1>5 DEF Reading, Past
  <2>2. CASE d # c
    BY <2>2, <1>4, <1>9 DEF IInv, Held
  <2> QED
    BY <2>1, <2>2
<1>11. Covers'
  <2> SUFFICES ASSUME NEW d \in Clients, client'[d].kind = "around"
               PROVE  /\ client'[d].pc \in {"dwelling", "stopping"} /\ client'[d].got \in Recording
                           => client'[d].got \in covered
                      /\ client'[d].pc \in Reading \cup {"ok"} => client'[d].got \in covered
    BY <1>1, <1>5 DEF Covers
  <2>1. CASE d = c
    BY <2>1, <1>4 DEF Reading
  <2>2. CASE d # c
    BY <2>2, <1>4 DEF IInv, Covers
  <2> QED
    BY <2>1, <2>2
<1>12. NoCaptureLeft'
  BY <1>2, <1>4, <1>5 DEF NoCaptureLeft, Active
<1> QED
  BY <1>6, <1>7, <1>8, <1>10, <1>11, <1>12 DEF IInv

\* A capture that starts without anybody's knowledge is abandoned at once.
LEMMA StartIsLostInv ==
  ASSUME IInv, NEW c \in Clients, NEW k \in Captures, StartIsLost(c, k)
  PROVE  IInv'
<1>0. Current(c) \in {0} \cup Captures /\ client[c].pc = "starting" /\ client[c].got = 0
  BY KnowsCurrent, Facts DEF StartIsLost, Active, Phase
<1>1. /\ Recording = {} /\ capture[k] = "unused"
      /\ UNCHANGED <<created, registered, connected, current, target, covered>>
      /\ abandoned' = abandoned \cup {k}
      /\ capture' = [capture EXCEPT ![k] = "recording"]
  BY DEF StartIsLost, Records, connection
<1>2. PICK pc \in {"cleaning", "error"} :
        /\ Moves(c, pc) /\ Decodes(c)
        /\ pc = "cleaning" => client'[c].stops \in Captures
  BY <1>0, Facts, FailsMoves DEF StartIsLost
<1>3. /\ client' \in [Clients -> Client]
      /\ client'[c].pc = pc /\ client'[c].got = 0
      /\ client'[c].kind = client[c].kind /\ client'[c].self = client[c].self
      /\ client'[c].stops \in {0, client[c].stops, Current(c)}
      /\ \A d \in Clients \ {c} : client'[d] = client[d]
  BY <1>0, <1>2 DEF Moves
<1>4. /\ Recording' = {k} /\ capture' \in [Captures -> {"unused", "recording", "ended"}]
      /\ \A j \in Captures : j # k => capture'[j] = capture[j]
  BY <1>1 DEF IInv, TypeOK, Recording
<1>5. /\ k # 0
      /\ \A d \in Clients : client[d].got # k /\ client[d].pc # "started"
      /\ \A s \in Coordinators : current[s] # k
  BY <1>1 DEF IInv, Named, Held, Captures
<1>6. TypeOK'
  BY <1>1, <1>3, <1>4 DEF IInv, TypeOK
<1>7. \A d \in Clients : (Phase(client[d]) /\ Decoding(client[d]))'
  <2> SUFFICES ASSUME NEW d \in Clients PROVE (Phase(client[d]) /\ Decoding(client[d]))'
    OBVIOUS
  <2>1. CASE d = c
    <3>1. Phase(client[c])'
      BY <1>0, <1>2, <1>3 DEF IInv, Phase, Active, Using
    <3>2. Decoding(client[c])'
      BY <1>0, <1>2, <1>3, Facts DEF Decoding, Decodes
    <3> QED
      BY <2>1, <3>1, <3>2
  <2>2. CASE d # c
    BY <2>2, <1>3 DEF IInv, Phase, Decoding
  <2> QED
    BY <2>1, <2>2
<1>8. \A d \in Clients : client'[d].got = client[d].got
  BY <1>0, <1>3
<1>9. Named'
  <2>1. \A d \in Clients : client'[d].got # 0 => capture'[client'[d].got] # "unused"
    BY <1>3, <1>4, <1>5, <1>8 DEF IInv, Client, Named
  <2>2. \A j \in {client[c].stops, Current(c)} : j # 0 => capture[j] # "unused"
    BY <1>0, Facts DEF IInv, Named, Current, Phase, Active
  <2>3. \A d \in Clients : client'[d].stops # 0 => capture[client'[d].stops] # "unused"
    BY <1>3, <2>2 DEF IInv, Named
  <2>4. \A d \in Clients : client'[d].stops # 0 => capture'[client'[d].stops] # "unused"
    BY <1>1, <1>3, <1>4, <2>3 DEF Client
  <2>5. \A s \in Coordinators : current'[s] # 0 => capture'[current'[s]] # "unused"
    BY <1>1, <1>4, <1>5 DEF IInv, TypeOK, Named
  <2>6. \A d, e \in Clients : d # e /\ client'[d].got # 0 => client'[d].got # client'[e].got
    BY <1>8 DEF IInv, Named
  <2> QED
    BY <2>1, <2>4, <2>5, <2>6 DEF Named
<1>10. Held'
  <2>1. \A d \in Clients : client'[d].pc # "started" /\ client'[d].got \notin Recording'
    BY <1>2, <1>3, <1>4, <1>5, <1>8
  <2> QED
    BY <2>1 DEF Held
<1>11. Covers'
  <2> SUFFICES ASSUME NEW d \in Clients, client'[d].kind = "around"
               PROVE  /\ client'[d].pc \in {"dwelling", "stopping"} /\ client'[d].got \in Recording'
                           => client'[d].got \in covered
                      /\ client'[d].pc \in Reading \cup {"ok"} => client'[d].got \in covered
    BY <1>1 DEF Covers
  <2>1. CASE d = c
    BY <2>1, <1>2, <1>3 DEF Reading
  <2>2. CASE d # c
    BY <2>2, <1>3, <1>4, <1>5 DEF IInv, Covers
  <2> QED
    BY <2>1, <2>2
<1>12. NoCaptureLeft'
  BY <1>1, <1>4 DEF NoCaptureLeft
<1> QED
  BY <1>6, <1>7, <1>9, <1>10, <1>11, <1>12 DEF IInv

\* A capture that ends by itself takes nothing from a call but the need to stop it.
LEMMA DeviceEndsInv ==
  ASSUME IInv, NEW k \in Captures, DeviceEnds(k)
  PROVE  IInv'
<1>1. /\ capture[k] = "recording"
      /\ \A d \in Clients : client[d].pc = "started" => client[d].got # k
      /\ UNCHANGED <<created, registered, connected, current, target, client, covered, abandoned>>
      /\ capture' = [capture EXCEPT ![k] = "ended"]
  BY DEF DeviceEnds, Recording, Ended, connection, history
<1>2. /\ Recording' = Recording \ {k} /\ capture' \in [Captures -> {"unused", "recording", "ended"}]
      /\ \A j \in Captures : capture[j] # "unused" => capture'[j] # "unused"
  BY <1>1 DEF IInv, TypeOK, Recording
<1>3. TypeOK'
  BY <1>1, <1>2 DEF IInv, TypeOK
<1>4. \A c \in Clients : (Phase(client[c]) /\ Decoding(client[c]))'
  BY <1>1 DEF IInv, Phase, Decoding
<1>5. Named'
  BY <1>1, <1>2 DEF IInv, TypeOK, Client, Named
<1>6. Held' /\ Covers' /\ NoCaptureLeft'
  BY <1>1, <1>2 DEF IInv, Held, Current, Covers, NoCaptureLeft
<1> QED
  BY <1>3, <1>4, <1>5, <1>6 DEF IInv

\* The steps of the server's tools and of the target leave calls and captures alone.
LEMMA OthersInv ==
  ASSUME IInv, UNCHANGED <<current, capture, client, covered, abandoned>>,
         target' \in {"halted", "running"},
         created' \in 0..MaxConnects, registered' \in 0..created', connected' \subseteq 1..created'
  PROVE  IInv'
<1>1. Recording' = Recording
  BY DEF Recording
<1>2. TypeOK'
  BY <1>1 DEF IInv, TypeOK
<1>3. Named' /\ Held' /\ Covers' /\ NoCaptureLeft'
  BY <1>1 DEF IInv, Named, Held, Current, Covers, NoCaptureLeft
<1>4. \A c \in Clients : (Phase(client[c]) /\ Decoding(client[c]))'
  BY DEF IInv, Phase, Decoding
<1> QED
  BY <1>2, <1>3, <1>4 DEF IInv

\* Every step keeps the invariant.
LEMMA NextInv == IInv /\ [Next]_vars => IInv'
<1> SUFFICES ASSUME IInv, [Next]_vars PROVE IInv'
  OBVIOUS
<1>1. ASSUME NEW c \in Clients, Advances(c) PROVE IInv'
  BY <1>1, DeviceStartsInv, StartIsLostInv, BreakpointSetInv, DeviceRefusesInv, CaptureStartedInv,
     WaitTimesOutInv, ContinueFailsInv, DweltInv, StoppedInv, AddsAnalyzerInv, ExportedInv,
     ExtractedInv, CleanedInv DEF Advances
<1>2. ASSUME NEW c \in Clients, Step(c) PROVE IInv'
  BY <1>1, <1>2, CallInv, CaptureCompleteInv, WaitFailsInv, TargetStopsInv DEF Step
<1>3. ASSUME NEW lists \in BOOLEAN, SaleaeConnect(lists) PROVE IInv'
  <2>1. /\ created' \in 0..MaxConnects /\ registered' \in 0..created'
        /\ connected' \subseteq 1..created'
    BY <1>3, CaptureAssumption DEF SaleaeConnect, IInv, TypeOK
  <2> QED
    BY <1>3, <2>1, OthersInv DEF SaleaeConnect, history, IInv, TypeOK
<1>4. ASSUME SessionDisconnect PROVE IInv'
  BY <1>4, OthersInv DEF SessionDisconnect, history, IInv, TypeOK
<1>5. ASSUME TargetElsewhere PROVE IInv'
  BY <1>5, OthersInv DEF TargetElsewhere, connection, history, IInv, TypeOK
<1>6. ASSUME UNCHANGED vars PROVE IInv'
  BY <1>6, OthersInv DEF vars, connection, history, IInv, TypeOK
<1>7. ASSUME NEW k \in Captures, DeviceEnds(k) PROVE IInv'
  BY <1>7, DeviceEndsInv
<1> QED
  BY <1>2, <1>3, <1>4, <1>5, <1>6, <1>7 DEF Next

-----------------------------------------------------------------------------

\* The invariant holds in every state.
THEOREM Invariant == Spec => []IInv
BY InitInv, NextInv, PTL DEF Spec

\* Every variable keeps to its values and one capture at most records at a time, whoever
\* calls capture_timed, capture_triggered and capture_around_breakpoint, and how often.
THEOREM TypeCorrect == Spec => []TypeOK
<1>1. IInv => TypeOK
  BY DEF IInv
<1> QED
  BY <1>1, Invariant, PTL

\* A capture that records belongs to a call that goes on, unless Logic 2 began it without
\* saying so, its trigger did not fire in time, or the last wait() or stop() of its own call
\* raised: a start that is refused, a run that fails or times out, a stop() that raises at the
\* first try, another client and a new coordinator leave none behind.
THEOREM NoCaptureIsLeft == Spec => []NoCaptureLeft
<1>1. IInv => NoCaptureLeft
  BY DEF IInv
<1> QED
  BY <1>1, Invariant, PTL

\* capture_around_breakpoint says "completed" only of a capture that was recording when its
\* run stopped, although other calls may stop it.
THEOREM StopsAreCovered == Spec => []StopIsCovered
<1>1. IInv => StopIsCovered
  BY DEF IInv, Covers, StopIsCovered
<1> QED
  BY <1>1, Invariant, PTL

\* _extract_analyzer_data gives one result per analyzer and leaves no file.
THEOREM ExtractionIsComplete == Spec => []ExtractionComplete
<1>1. IInv => ExtractionComplete
  BY DEF IInv, Decoding, ExtractionComplete, Finished
<1> QED
  BY <1>1, Invariant, PTL

=============================================================================
