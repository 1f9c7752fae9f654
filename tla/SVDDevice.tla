----------------------------- MODULE SVDDevice -----------------------------
(***************************************************************************)
(* The SVD parser (src/server/svd/parser.py) after the XML of a device has *)
(* been read: _resolve_derived, which walks the derivedFrom links of every *)
(* peripheral, and the lazily computed registers of a peripheral.  Both    *)
(* recurse; the calls in progress are kept on an explicit stack, so that a *)
(* recursion that does not end shows as a stack that grows.                *)
(***************************************************************************)
EXTENDS Naturals, Sequences, SequencesExt

CONSTANTS
    Peripherals,  \* the names of the peripherals
    Order,        \* the order in which the file lists them
    Unknown,      \* a name that derivedFrom may give and no peripheral has
    NoParent,     \* derivedFrom is absent
    MaxDepth      \* Python's recursion limit, in nested calls

None == "none"      \* _registers is None
Empty == "empty"    \* the registers are {}

ASSUME DeviceAssumption ==
    /\ {Unknown, NoParent, None, Empty} \cap Peripherals = {}
    /\ Order \in Seq(Peripherals) /\ ToSet(Order) = Peripherals
    /\ MaxDepth \in Nat \ {0}

VARIABLES
    derivedFrom,  \* SVDPeripheral.derived_from
    ownXml,       \* the peripherals with a <registers> element
    phase,        \* "resolving" while load runs, then "loaded" or "failed"
    todo,         \* the peripherals that _resolve_derived has not started
    resolved,     \* the set resolved
    visited,      \* the set visited of the walk in progress
    stack,        \* the names whose resolve or registers call is in progress
    registers     \* SVDPeripheral._registers: the peripheral they come from

vars == <<derivedFrom, ownXml, phase, todo, resolved, visited, stack, registers>>

\* The sets hold peripherals, and no recursion goes deeper than Python's limit.
TypeOK ==
    /\ derivedFrom \in [Peripherals -> Peripherals \cup {Unknown, NoParent}]
    /\ ownXml \subseteq Peripherals
    /\ phase \in {"resolving", "loaded", "failed"}
    /\ \E n \in 0..Len(Order) : todo = SubSeq(Order, n + 1, Len(Order))
    /\ resolved \subseteq Peripherals /\ visited \subseteq Peripherals
    /\ stack \in Seq(Peripherals) /\ Len(stack) <= MaxDepth
    /\ registers \in [Peripherals -> Peripherals \cup {None, Empty}]

-----------------------------------------------------------------------------
(* The derivedFrom links of a file *)

\* A set of peripherals that has with each one without <registers> its parent.
HasParents(S) ==
    \A p \in S \ ownXml : derivedFrom[p] \in Peripherals => derivedFrom[p] \in S

\* p, and up its derivedFrom chain as far as a peripheral that has <registers>:
\* the least such set with p.
Line(p) ==
    {q \in Peripherals : \A S \in SUBSET Peripherals : p \in S /\ HasParents(S) => q \in S}

Init ==
    /\ derivedFrom \in [Peripherals -> Peripherals \cup {Unknown, NoParent}]
    /\ ownXml \in SUBSET Peripherals
    /\ phase = "resolving"
    /\ todo = Order
    /\ resolved = {}
    /\ visited = {}
    /\ stack = <<>>
    /\ registers = [p \in Peripherals |-> None]

-----------------------------------------------------------------------------
(* _resolve_derived *)

\* The loop calls resolve(name, set()) for the next peripheral.
ResolveNext ==
    /\ phase = "resolving" /\ stack = <<>> /\ todo # <<>>
    /\ todo' = Tail(todo)
    /\ visited' = {}
    /\ stack' = IF Head(todo) \in resolved THEN <<>> ELSE <<Head(todo)>>
    /\ UNCHANGED <<derivedFrom, ownXml, phase, resolved, registers>>

Top == stack[1]

\* Mutant: the walk does not compare with what it has visited.
SettledUnlessCycle(p) ==
    derivedFrom[p] \notin Peripherals \/ derivedFrom[p] \in resolved

\* resolve(derived_from, visited) returns at once: there is nothing to walk,
\* the name is resolved or unknown, or the walk has come round.
Settled(p) ==
    \/ derivedFrom[p] \notin Peripherals
    \/ derivedFrom[p] \in resolved
    \/ derivedFrom[p] \in visited

\* resolve adds its name to visited and calls itself for the parent.
ResolveParent ==
    /\ phase = "resolving" /\ stack # <<>>
    /\ ~Settled(Top)
    /\ Len(stack) < MaxDepth
    /\ visited' = visited \cup {Top}
    /\ stack' = <<derivedFrom[Top]>> \o stack
    /\ UNCHANGED <<derivedFrom, ownXml, phase, todo, resolved, registers>>

\* Mutant: the name that derivedFrom gives is marked as resolved too.
ResolveMarksParent ==
    /\ phase = "resolving" /\ stack # <<>>
    /\ Settled(Top)
    /\ resolved' = resolved \cup ToSet(stack) \cup {derivedFrom[Top]}
    /\ stack' = <<>>
    /\ UNCHANGED <<derivedFrom, ownXml, phase, todo, visited, registers>>

\* resolve returns, and with it every caller up the chain.
ResolveReturns ==
    /\ phase = "resolving" /\ stack # <<>>
    /\ Settled(Top)
    /\ resolved' = resolved \cup ToSet(stack)
    /\ stack' = <<>>
    /\ UNCHANGED <<derivedFrom, ownXml, phase, todo, visited, registers>>

\* load puts the device in its cache and returns it.
Loaded ==
    /\ phase = "resolving" /\ stack = <<>> /\ todo = <<>>
    /\ phase' = "loaded"
    /\ UNCHANGED <<derivedFrom, ownXml, todo, resolved, visited, stack, registers>>

-----------------------------------------------------------------------------
(* SVDPeripheral.registers *)

\* A tool asks for the registers of a peripheral; computed ones are kept.
Ask(p) ==
    /\ phase = "loaded" /\ stack = <<>>
    /\ registers[p] = None
    /\ stack' = <<p>>
    /\ UNCHANGED <<derivedFrom, ownXml, phase, todo, resolved, visited, registers>>

\* _parse_registers of a peripheral without <registers> asks its parent.
AskParent ==
    /\ phase = "loaded" /\ stack # <<>>
    /\ Top \notin ownXml
    /\ derivedFrom[Top] \in Peripherals
    /\ registers[derivedFrom[Top]] = None
    /\ Len(stack) < MaxDepth
    /\ stack' = <<derivedFrom[Top]>> \o stack
    /\ UNCHANGED <<derivedFrom, ownXml, phase, todo, resolved, visited, registers>>

\* Mutant: only the direct parent's own registers are inherited.
ParsedAlone(p) ==
    IF p \in ownXml THEN p
    ELSE IF derivedFrom[p] \in ownXml THEN derivedFrom[p] ELSE Empty

\* What _parse_registers returns once the parent's registers are known.
Parsed(p) ==
    IF p \in ownXml THEN p
    ELSE IF derivedFrom[p] \in Peripherals THEN registers[derivedFrom[p]] ELSE Empty

ParseReturns ==
    /\ phase = "loaded" /\ stack # <<>>
    /\ Parsed(Top) # None
    /\ registers' = [registers EXCEPT ![Top] = Parsed(Top)]
    /\ stack' = Tail(stack)
    /\ UNCHANGED <<derivedFrom, ownXml, phase, todo, resolved, visited>>

\* The call on top calls deeper.
CallsDeeper == IF phase = "loaded" THEN Parsed(Top) = None ELSE ~Settled(Top)

\* Python's recursion limit: the exception leaves every call in progress, and
\* nothing was computed; load would fail with it.
RecursionError ==
    /\ Len(stack) = MaxDepth
    /\ CallsDeeper
    /\ phase' = IF phase = "loaded" THEN "loaded" ELSE "failed"
    /\ stack' = <<>>
    /\ UNCHANGED <<derivedFrom, ownXml, todo, resolved, visited, registers>>

\* Every peripheral's registers are known, or load failed: nothing is left
\* to compute.
Known ==
    /\ stack = <<>>
    /\ phase # "resolving"
    /\ phase = "loaded" => \A p \in Peripherals : registers[p] # None
    /\ UNCHANGED vars

-----------------------------------------------------------------------------

Step ==
    \/ ResolveNext \/ ResolveParent \/ ResolveReturns \/ Loaded
    \/ AskParent \/ ParseReturns \/ RecursionError

Next == Step \/ Known \/ \E p \in Peripherals : Ask(p)

Spec == Init /\ [][Next]_vars

\* A call that was made runs on: the code does not wait for anything.
FairSpec == Spec /\ WF_vars(Step)

-----------------------------------------------------------------------------

\* No peripheral's registers are asked for while they are being computed: such
\* a call ends at the recursion limit only.  The docstring of _resolve_derived
\* says that it resolves derivedFrom chains "with cycle detection".
NoReentry == phase = "loaded" => IsInjective(stack)

\* The registers of a peripheral are those of the first peripheral on its
\* derivedFrom chain that has a <registers> element, and none if there is no
\* such peripheral.
InheritedRegisters ==
    \A p \in Peripherals : registers[p] # None =>
        Line(p) \cap ownXml = IF registers[p] = Empty THEN {} ELSE {registers[p]}

\* load returns for every file, with derivedFrom cycles and unknown parents
\* too: the walk of _resolve_derived ends.
LoadReturns == <>(phase = "loaded")

=============================================================================
