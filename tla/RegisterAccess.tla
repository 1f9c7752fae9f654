--------------------------- MODULE RegisterAccess ---------------------------
(***************************************************************************)
(* The tools that read and write the target's peripherals, memory, core    *)
(* registers and flash (src/server/mcp_server.py) through the register     *)
(* description of src/server/svd and the commands of the debug session.    *)
(*                                                                         *)
(* Memory is an array of cells (bytes of the target); the tools always     *)
(* read and write words of WordCells cells.  Tools are coroutines: each    *)
(* send() is answered through GdbLink, the coroutine is resumed some time  *)
(* after the answer, and between the two other tools and the target take   *)
(* their steps.                                                            *)
(***************************************************************************)
EXTENDS GdbLink, Integers

CONSTANTS
    Registers,    \* the registers of the peripheral
    Layout,       \* the address and the size in cells of each register
    Fields,       \* the fields of each register, by offset and width
    Values,       \* the values that callers pass
    Images,       \* the words that firmware images hold at address 0
    Tools,        \* the tools that the clients call
    WordCells,    \* cells per access: 4 in the code
    CellBits,     \* bits per cell: 8 on the target
    CellCount,    \* how many cells the modelled memory has
    MaxRuns,      \* bound: how often the target is resumed
    MaxPipe       \* bound: a call begins only while fewer commands wait for GDB

\* 2 to the power of n, as a function: of ^ the provers know nothing.
Pow2[n \in Nat] == IF n = 0 THEN 1 ELSE 2 * Pow2[n - 1]

WordLimit == Pow2[WordCells * CellBits]

\* Memory accesses stay in the modelled memory; a field need not lie within
\* the word that the tools read.
ASSUME AccessAssumption ==
    /\ WordCells \in Nat \ {0} /\ CellBits \in Nat \ {0}
    /\ CellCount \in Nat /\ WordCells <= CellCount
    /\ MaxRuns \in Nat /\ MaxPipe \in Nat
    /\ Values \subseteq Int
    /\ Images \subseteq 0..(WordLimit - 1)
    /\ \A r \in Registers : Layout[r].address \in 0..(CellCount - WordCells)
    /\ \A r \in Registers : Fields[r] \subseteq [offset : Nat, width : Nat]

VARIABLES
    mem,        \* the target's memory
    running,    \* whether the target runs (GDBState.RUNNING)
    runs,       \* how often it was resumed
    pc,         \* where each client's call is suspended
    op,         \* the call
    left,       \* registers that peripheral_read_all still has to read
    stored,     \* history: GDB executed the write of the current call
    result      \* how the client's last call ended, "none" during a call

vars == <<mem, running, runs, linkVars, pc, op, left, stored, result>>

-----------------------------------------------------------------------------
(* Words, and the fields of a register *)

\* The little-endian word at a; low[n] is what its first n cells amount to.
Word(m, a) ==
    LET low[n \in 0..WordCells] ==
            IF n = 0 THEN 0 ELSE low[n - 1] + m[a + n - 1] * Pow2[CellBits * (n - 1)]
    IN  low[WordCells]

\* The memory after value is packed as a little-endian word and written at a.
Stores(m, a, value) ==
    [x \in DOMAIN m |->
        IF x \in a..(a + WordCells - 1)
        THEN (value \div Pow2[CellBits * (x - a)]) % Pow2[CellBits]
        ELSE m[x]]

Decode(f, raw) == (raw \div Pow2[f.offset]) % Pow2[f.width]

\* Mutant: the other fields are written as zero.
EncodeAlone(f, value, current) == (value % Pow2[f.width]) * Pow2[f.offset]

\* Replace one field of the current value; the value is cut to the field.
Encode(f, value, current) ==
    current - Decode(f, current) * Pow2[f.offset] + (value % Pow2[f.width]) * Pow2[f.offset]

-----------------------------------------------------------------------------
(* Calls, commands and answers *)

FieldWrites == UNION {[tool : {"field"}, reg : {r}, field : Fields[r], value : Values] : r \in Registers}
ValueWrites == [tool : {"value"}, reg : Registers, value : Values]
MemoryWrites == [tool : {"memory"}, address : 0..(CellCount - WordCells), value : Values]
CoreWrites == [tool : {"core"}]
Flashes == [tool : {"flash"}, image : Images, verify : BOOLEAN]
Reads == [tool : {"read"}, reg : Registers] \cup [tool : {"read_all"}]

Calls == {o \in FieldWrites \cup ValueWrites \cup MemoryWrites \cup CoreWrites \cup Flashes
                \cup Reads : o.tool \in Tools}

NoCall == [tool |-> "none"]
\* The answer to a read.  A write, and an interrupt, is answered by Done.
Answered(v) == [kind |-> "done", value |-> v]

\* read_memory returns a word: of an answer that carries no memory it makes
\* no bytes, which struct.unpack does not take.
HasWord(r) == "value" \in DOMAIN r

Phases == {"idle", "read", "write", "readback", "next", "file", "compare"}
Results == {"none", "warned", "written", "verified", "read", "error"}

\* Every variable keeps to its values; in particular no value that does not
\* fit in a word is ever on its way to GDB.
TypeOK ==
    /\ mem \in [0..(CellCount - 1) -> 0..(Pow2[CellBits] - 1)]
    /\ running \in BOOLEAN
    /\ runs \in 0..MaxRuns
    /\ timeouts \in 0..MaxTimeouts
    /\ \A i \in DOMAIN pipe : pipe[i] # Interrupt =>
          /\ pipe[i].client \in Clients \cup {Nobody}
          /\ pipe[i].cmd \in {"read", "write", "set", "file", "compare"}
          /\ pipe[i].address \in 0..(CellCount - WordCells)
          /\ {pipe[i].value, pipe[i].base} \subseteq 0..(WordLimit - 1)
    /\ pc \in [Clients -> Phases]
    /\ \A c \in Clients : op[c] \in Calls \cup {NoCall}
    /\ \A c \in Clients :
          HasWord(reply[c]) => reply[c].value \in 0..(WordLimit - 1)
    /\ left \in [Clients -> SUBSET Registers]
    /\ stored \in [Clients -> BOOLEAN]
    /\ result \in [Clients -> Results]

Init ==
    /\ mem \in [0..(CellCount - 1) -> 0..(Pow2[CellBits] - 1)]
    /\ running = FALSE
    /\ runs = 0
    /\ LinkInit
    /\ pc = [c \in Clients |-> "idle"]
    /\ op = [c \in Clients |-> NoCall]
    /\ left = [c \in Clients |-> {}]
    /\ stored = [c \in Clients |-> FALSE]
    /\ result = [c \in Clients |-> "none"]

Ends(c, r) ==
    /\ pc' = [pc EXCEPT ![c] = "idle"]
    /\ op' = [op EXCEPT ![c] = NoCall]
    /\ left' = [left EXCEPT ![c] = {}]
    /\ reply' = [reply EXCEPT ![c] = Nothing]
    /\ result' = [result EXCEPT ![c] = r]
    /\ stored' = [stored EXCEPT ![c] = FALSE]
    /\ UNCHANGED pipe

\* What the call has read so far, 0 if nothing.
Base(c) == IF HasWord(reply[c]) THEN reply[c].value ELSE 0

\* base is history: the word that the value of a field write was computed from.
Sent(c, phase, cmd, a, v) ==
    /\ pipe' = Append(pipe, [client |-> c, op |-> op'[c], cmd |-> cmd,
                             address |-> a, value |-> v, base |-> Base(c)])
    /\ pc' = [pc EXCEPT ![c] = phase]
    /\ reply' = [reply EXCEPT ![c] = Nothing]

\* read_memory and write_memory: refused unless the session is stopped.
Sends(c, phase, cmd, a, v) == ~running /\ Sent(c, phase, cmd, a, v)

AddressOf(o) == IF o.tool = "memory" THEN o.address ELSE Layout[o.reg].address

\* Mutant: only negative values are refused.
PacksAny(v) == v >= 0

\* struct.pack raises for a value that does not fit in a word.
Packs(v) == v \in 0..(WordLimit - 1)

-----------------------------------------------------------------------------
(* The tools *)

\* A writing tool that was not confirmed answers with a warning.
Warned(c) ==
    /\ pc[c] = "idle"
    /\ Tools \ {"read", "read_all"} # {}
    /\ Ends(c, "warned")
    /\ UNCHANGED <<mem, running, runs, timeouts>>

\* The arguments are checked before anything is sent.
Refused(c, o) ==
    /\ pc[c] = "idle"
    /\ \/ running /\ o.tool \notin {"read_all", "core", "flash"}
       \/ o.tool \in {"value", "memory"} /\ ~Packs(o.value)
    /\ Ends(c, "error")
    /\ UNCHANGED <<mem, running, runs, timeouts>>

\* The call sends its first command: a write of a whole value, the read that
\* a field write and peripheral_read start with, or, in whatever state, the
\* one that sets a core register or names the image to flash.
Begin(c, o) ==
    /\ pc[c] = "idle"
    /\ Len(pipe) < MaxPipe
    /\ op' = [op EXCEPT ![c] = o]
    /\ \/ /\ o.tool \in {"value", "memory"} /\ Packs(o.value)
          /\ Sends(c, "write", "write", AddressOf(o), o.value)
       \/ o.tool \in {"field", "read"} /\ Sends(c, "read", "read", AddressOf(o), 0)
       \/ o.tool = "core" /\ Sent(c, "write", "set", 0, 0)
       \/ o.tool = "flash" /\ Sent(c, "file", "file", 0, 0)
    /\ result' = [result EXCEPT ![c] = "none"]
    /\ UNCHANGED <<mem, running, runs, timeouts, left, stored>>

BeginAll(c, o) ==
    /\ pc[c] = "idle"
    /\ Len(pipe) < MaxPipe
    /\ o.tool = "read_all"
    /\ pc' = [pc EXCEPT ![c] = "next"]
    /\ op' = [op EXCEPT ![c] = o]
    /\ left' = [left EXCEPT ![c] = Registers]
    /\ result' = [result EXCEPT ![c] = "none"]
    /\ UNCHANGED <<mem, running, runs, linkVars, stored>>

\* peripheral_read_all takes the next register; a register that cannot be
\* read is reported as an error and the others are still read.
ReadNext(c) ==
    /\ pc[c] = "next"
    /\ \/ /\ left[c] = {}
          /\ Ends(c, "read")
       \/ \E r \in left[c] :
             /\ left' = [left EXCEPT ![c] = @ \ {r}]
             /\ UNCHANGED <<op, stored, result>>
             /\ \/ running /\ UNCHANGED <<pc, pipe, reply>>
                \/ Sends(c, "read", "read", Layout[r].address, 0)
    /\ UNCHANGED <<mem, running, runs, timeouts>>

\* The word that a field write makes of the word it has read.
NewValue(c) == Encode(op[c].field, op[c].value, reply[c].value)

\* The read of a field write has returned: compute the new value, write it.
\* A field that reaches beyond the word may make a value that is none.
ReadReturned(c) ==
    /\ pc[c] = "read"
    /\ reply[c] # Nothing
    /\ IF op[c].tool = "read_all"
       THEN /\ pc' = [pc EXCEPT ![c] = "next"]
            /\ reply' = [reply EXCEPT ![c] = Nothing]
            /\ UNCHANGED <<pipe, op, left, stored, result>>
       ELSE \/ /\ ~HasWord(reply[c])
               /\ Ends(c, "error")
            \/ /\ HasWord(reply[c]) /\ op[c].tool = "read"
               /\ Ends(c, "read")
            \/ /\ HasWord(reply[c]) /\ op[c].tool = "field"
               /\ running \/ ~Packs(NewValue(c))
               /\ Ends(c, "error")
            \/ /\ HasWord(reply[c]) /\ op[c].tool = "field" /\ Packs(NewValue(c))
               /\ UNCHANGED <<op, left, stored, result>>
               /\ Sends(c, "write", "write", AddressOf(op[c]), NewValue(c))
    /\ UNCHANGED <<mem, running, runs, timeouts>>

\* Mutant: the answer to the write is not looked at.
WriteAssumed(c) ==
    /\ pc[c] = "write"
    /\ Ends(c, "written")
    /\ UNCHANGED <<mem, running, runs, timeouts>>

\* -file-exec-and-symbols has returned: the image is downloaded.
FileReturned(c) ==
    /\ pc[c] = "file"
    /\ reply[c] # Nothing
    /\ IF Ok(reply[c])
       THEN UNCHANGED <<op, left, stored, result>> /\ Sent(c, "write", "write", 0, op[c].image)
       ELSE Ends(c, "error")
    /\ UNCHANGED <<mem, running, runs, timeouts>>

\* The write has returned: peripheral_write reads back and flash_write may
\* compare; otherwise the call is done.
WriteReturned(c) ==
    /\ pc[c] = "write"
    /\ reply[c] # Nothing
    /\ \/ ~Ok(reply[c]) /\ Ends(c, "error")
       \/ /\ Ok(reply[c])
          /\ op[c].tool \in {"memory", "core"} \/ (op[c].tool = "flash" /\ ~op[c].verify)
          /\ Ends(c, "written")
       \/ Ok(reply[c]) /\ op[c].tool \in {"field", "value"} /\ running /\ Ends(c, "error")
       \/ /\ Ok(reply[c])
          /\ UNCHANGED <<op, left, stored, result>>
          /\ \/ op[c].tool \in {"field", "value"} /\ Sends(c, "readback", "read", AddressOf(op[c]), 0)
             \/ op[c].tool = "flash" /\ op[c].verify /\ Sent(c, "compare", "compare", 0, 0)
    /\ UNCHANGED <<mem, running, runs, timeouts>>

ReadbackReturned(c) ==
    /\ pc[c] = "readback"
    /\ reply[c] # Nothing
    /\ Ends(c, IF HasWord(reply[c]) THEN "written" ELSE "error")
    /\ UNCHANGED <<mem, running, runs, timeouts>>

\* Sections that differ are only printed: compare-sections answers ^done.
CompareReturned(c) ==
    /\ pc[c] = "compare"
    /\ reply[c] # Nothing
    /\ Ends(c, IF Ok(reply[c]) THEN "verified" ELSE "error")
    /\ UNCHANGED <<mem, running, runs, timeouts>>

GivesUp(c) ==
    /\ TimesOut(c)
    /\ UNCHANGED <<mem, running, runs, pc, op, left, stored, result>>

-----------------------------------------------------------------------------
(* GDB and the target *)

\* GDB executes its oldest command, or answers ^error: it may to any, and does
\* to one that needs the target while that runs.
Executes ==
    /\ pipe # <<>>
    /\ LET q == Head(pipe) IN
         \/ Answers(GdbError) /\ UNCHANGED <<mem, stored>>
         \/ /\ ~running /\ q.cmd = "read"
            /\ Answers(Answered(Word(mem, q.address))) /\ UNCHANGED <<mem, stored>>
         \/ /\ ~running /\ q.cmd \in {"write", "set"}
            /\ mem' = IF q.cmd = "write" THEN Stores(mem, q.address, q.value) ELSE mem
            /\ stored' = [c \in Clients |-> stored[c] \/ c = q.client]
            /\ Answers(Done)
         \/ /\ q.cmd \in {"file", "interrupt"} \/ (~running /\ q.cmd = "compare")
            /\ Answers(Done) /\ UNCHANGED <<mem, stored>>
    /\ UNCHANGED <<running, runs, timeouts, pc, op, left, result>>

Resumes ==
    /\ ~running
    /\ runs < MaxRuns
    /\ running' = TRUE
    /\ runs' = runs + 1
    /\ UNCHANGED <<mem, linkVars, pc, op, left, stored, result>>

\* The target stops again; its firmware may have changed the memory.
Halts ==
    /\ running
    /\ running' = FALSE
    /\ \/ UNCHANGED mem
       \/ \E x \in DOMAIN mem, v \in 0..(Pow2[CellBits] - 1) : mem' = [mem EXCEPT ![x] = v]
    /\ UNCHANGED <<runs, linkVars, pc, op, left, stored, result>>

-----------------------------------------------------------------------------

Call(c) == Warned(c) \/ \E o \in Calls : Refused(c, o) \/ Begin(c, o) \/ BeginAll(c, o)

Continue(c) ==
    \/ ReadNext(c) \/ ReadReturned(c) \/ WriteReturned(c) \/ ReadbackReturned(c)
    \/ FileReturned(c) \/ CompareReturned(c)

Next ==
    \/ \E c \in Clients : Call(c) \/ Continue(c) \/ GivesUp(c)
    \/ Executes \/ Resumes \/ Halts

Spec == Init /\ [][Next]_vars

-----------------------------------------------------------------------------

\* What a word holds outside a field.
Rest(f, w) == w - Decode(f, w) * Pow2[f.offset]

\* The write of one field (peripheral_write with field and field_value)
\* changes that field of the register and no other bit of the target, which
\* is what encode_field_value promises of the value it computes -- provided
\* that the register still holds what the tool has read: nothing keeps
\* another client or the firmware from writing it in between.
FieldOnly ==
    [][mem' # mem /\ ~running /\ Head(pipe).op.tool = "field"
       /\ Head(pipe).base = Word(mem, Head(pipe).address) =>
         LET q == Head(pipe)
             f == q.op.field
         IN  /\ Rest(f, Word(mem', q.address)) = Rest(f, Word(mem, q.address))
             /\ Decode(f, Word(mem', q.address)) = q.op.value % Pow2[f.width]
             /\ \A x \in DOMAIN mem \ (q.address..(q.address + WordCells - 1)) :
                    mem'[x] = mem[x]]_vars

\* A tool that reports a write had it executed by GDB during that call, and
\* not only sent: errors and a target that runs are not reported as written
\* (peripheral_write, memory_write, register_write, flash_write).  Once a command of any client has timed
\* out this is lost: a late answer can be taken for that of the write.
WrittenMeansStored ==
    [][\A c \in Clients :
         pc[c] # "idle" /\ pc'[c] = "idle" /\ result'[c] \in {"written", "verified"} =>
             stored[c] \/ timeouts > 0]_vars

\* (Not promised by the code.) Writing a register writes the cells of that register only: the size that
\* the SVD file gives is kept in SVDRegister.size.
OwnRegisterOnly ==
    [][mem' # mem /\ ~running /\ Head(pipe).op.tool = "value" =>
         LET a == Head(pipe).address
             n == Layout[Head(pipe).op.reg].size
         IN  \A x \in DOMAIN mem \ (a..(a + n - 1)) : mem'[x] = mem[x]]_vars

=============================================================================
