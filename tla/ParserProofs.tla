---------------------------- MODULE ParserProofs ----------------------------
(***************************************************************************)
(* Proofs about what reads text from outside: the parser of GDB's output   *)
(* (MIParser), for lines, records and pieces of any number and size, and   *)
(* the parser of SVD files (SVDDevice), for any number of peripherals and  *)
(* any derivedFrom links between them.                                     *)
(***************************************************************************)
EXTENDS SVDDevice, MIParser, FiniteSetTheorems, SequenceTheorems, WellFoundedInduction, TLAPS

-----------------------------------------------------------------------------
(* SVDDevice: types *)

\* What the operators of SequencesExt and Sequences do to a stack and a list.
LEMMA Pushed ==
  ASSUME NEW S, NEW s \in Seq(S), NEW e \in S
  PROVE  /\ <<e>> \o s \in Seq(S)
         /\ Len(<<e>> \o s) = Len(s) + 1
         /\ (<<e>> \o s)[1] = e
         /\ <<e>> \o s # <<>>
         /\ \A i \in 2..(Len(s) + 1) : (<<e>> \o s)[i] = s[i - 1]
OBVIOUS

LEMMA ToSetType ==
  ASSUME NEW S, NEW s \in Seq(S)
  PROVE  ToSet(s) \subseteq S
BY DEF ToSet

LEMMA TypeInit == Init => TypeOK
<1> SUFFICES ASSUME Init PROVE TypeOK
  OBVIOUS
<1> USE DeviceAssumption
<1>1. 0 \in 0..Len(Order) /\ Order = SubSeq(Order, 0 + 1, Len(Order))
  OBVIOUS
<1>2. \E n \in 0..Len(Order) : todo = SubSeq(Order, n + 1, Len(Order))
  BY <1>1 DEF Init
<1>3. stack \in Seq(Peripherals) /\ Len(stack) <= MaxDepth
  BY DEF Init
<1> QED BY <1>2, <1>3 DEF Init, TypeOK

\* The call on top is that of a peripheral.
LEMMA TopType ==
  ASSUME TypeOK, stack # <<>>
  PROVE  Top \in Peripherals /\ Tail(stack) \in Seq(Peripherals) /\ Len(stack) >= 1
BY DEF TypeOK, Top

LEMMA TypeStep == TypeOK /\ [Next]_vars => TypeOK'
<1> SUFFICES ASSUME TypeOK, [Next]_vars PROVE TypeOK'
  OBVIOUS
<1> USE DeviceAssumption
<1>1. CASE ResolveNext
  <2>1. PICK n \in 0..Len(Order) : todo = SubSeq(Order, n + 1, Len(Order))
    BY DEF TypeOK
  <2>2. n + 1 \in 0..Len(Order) /\ Tail(todo) = SubSeq(Order, (n + 1) + 1, Len(Order))
    BY <1>1, <2>1 DEF ResolveNext
  <2>3. Head(todo) \in Peripherals
    BY <1>1, <2>1 DEF ResolveNext
  <2>4. <<Head(todo)>> \in Seq(Peripherals) /\ Len(<<Head(todo)>>) <= MaxDepth
    BY <2>3
  <2> QED BY <1>1, <2>2, <2>4 DEF ResolveNext, TypeOK
<1>2. CASE ResolveParent
  <2>1. derivedFrom[Top] \in Peripherals /\ Top \in Peripherals
    BY <1>2, TopType DEF ResolveParent, Settled
  <2>2. <<derivedFrom[Top]>> \o stack \in Seq(Peripherals)
        /\ Len(<<derivedFrom[Top]>> \o stack) <= MaxDepth
    BY <1>2, <2>1, Pushed DEF ResolveParent, TypeOK
  <2> QED BY <1>2, <2>1, <2>2 DEF ResolveParent, TypeOK
<1>3. CASE ResolveReturns
  <2>1. ToSet(stack) \subseteq Peripherals
    BY ToSetType DEF TypeOK
  <2>2. <<>> \in Seq(Peripherals) /\ Len(<<>>) <= MaxDepth
    OBVIOUS
  <2> QED BY <1>3, <2>1, <2>2 DEF ResolveReturns, TypeOK
<1>4. CASE Loaded
  BY <1>4 DEF Loaded, TypeOK
<1>5. CASE AskParent
  <2>1. <<derivedFrom[Top]>> \o stack \in Seq(Peripherals)
        /\ Len(<<derivedFrom[Top]>> \o stack) <= MaxDepth
    BY <1>5, Pushed DEF AskParent, TypeOK
  <2> QED BY <1>5, <2>1 DEF AskParent, TypeOK
<1>6. CASE ParseReturns
  <2>1. Top \in Peripherals /\ Tail(stack) \in Seq(Peripherals) /\ Len(Tail(stack)) <= MaxDepth
    BY <1>6, TopType DEF ParseReturns, TypeOK
  <2>2. Parsed(Top) \in Peripherals \cup {None, Empty}
    BY <2>1 DEF Parsed, TypeOK
  <2>3. registers' \in [Peripherals -> Peripherals \cup {None, Empty}]
    BY <1>6, <2>2 DEF ParseReturns, TypeOK
  <2> QED BY <1>6, <2>1, <2>3 DEF ParseReturns, TypeOK
<1>7. CASE RecursionError
  BY <1>7 DEF RecursionError, TypeOK
<1>8. ASSUME NEW p \in Peripherals, Ask(p) PROVE TypeOK'
  <2>1. <<p>> \in Seq(Peripherals) /\ Len(<<p>>) <= MaxDepth
    OBVIOUS
  <2> QED BY <1>8, <2>1 DEF Ask, TypeOK
<1>9. CASE UNCHANGED vars
  BY <1>9 DEF vars, TypeOK
<1> QED BY <1>1, <1>2, <1>3, <1>4, <1>5, <1>6, <1>7, <1>8, <1>9 DEF Next, Step, Known

\* Type correctness: the walk and the lazy registers handle peripherals of the file only,
\* and no recursion is deeper than Python allows.
THEOREM TypeCorrect == Spec => []TypeOK
BY TypeInit, TypeStep, PTL DEF Spec

-----------------------------------------------------------------------------
(* SVDDevice: the registers that a peripheral inherits *)

\* A peripheral with <registers> is its own line.
LEMMA LineOfOwner ==
  ASSUME NEW p \in ownXml, ownXml \subseteq Peripherals
  PROVE  Line(p) = {p}
<1>1. {p} \in SUBSET Peripherals /\ HasParents({p})
  BY DEF HasParents
<1> QED BY <1>1 DEF Line

\* A peripheral without <registers> and without a known parent is alone.
LEMMA LineOfOrphan ==
  ASSUME NEW p \in Peripherals, derivedFrom[p] \notin Peripherals
  PROVE  Line(p) = {p}
<1>1. {p} \in SUBSET Peripherals /\ HasParents({p})
  BY DEF HasParents
<1> QED BY <1>1 DEF Line

\* A peripheral without <registers> has the line of its parent below it.
LEMMA LineOfChild ==
  ASSUME NEW p \in Peripherals, p \notin ownXml, derivedFrom[p] \in Peripherals
  PROVE  Line(p) = {p} \cup Line(derivedFrom[p])
<1> DEFINE d == derivedFrom[p]
<1>1. Line(d) \subseteq Line(p)
  <2> SUFFICES ASSUME NEW q \in Line(d), NEW S \in SUBSET Peripherals, p \in S, HasParents(S)
               PROVE  q \in S
    BY DEF Line
  <2>1. d \in S
    BY DEF HasParents
  <2> QED BY <2>1 DEF Line
<1>2. p \in Line(p)
  BY DEF Line
<1>3. Line(d) \in SUBSET Peripherals /\ d \in Line(d)
  BY DEF Line
<1>4. ASSUME NEW q \in Line(d), q \notin ownXml, derivedFrom[q] \in Peripherals
      PROVE  derivedFrom[q] \in Line(d)
  <2> SUFFICES ASSUME NEW S \in SUBSET Peripherals, d \in S, HasParents(S)
               PROVE  derivedFrom[q] \in S
    BY <1>4 DEF Line
  <2>1. q \in S
    BY DEF Line
  <2> QED BY <1>4, <2>1 DEF HasParents
<1>5. HasParents({p} \cup Line(d))
  BY <1>3, <1>4 DEF HasParents
<1>6. {p} \cup Line(d) \in SUBSET Peripherals
  BY <1>3
<1>7. Line(p) \subseteq {p} \cup Line(d)
  BY <1>5, <1>6 DEF Line
<1> QED BY <1>1, <1>2, <1>7

\* The links and the <registers> elements of a file stay as they are, and with them
\* every line.
LEMMA LinesStay ==
  ASSUME UNCHANGED <<derivedFrom, ownXml>>, NEW p \in Peripherals
  PROVE  Line(p)' = Line(p)
BY DEF Line, HasParents

\* _parse_registers returns what the property says, if the parent's registers are right.
LEMMA ParsedIsInherited ==
  ASSUME TypeOK, InheritedRegisters, NEW p \in Peripherals, Parsed(p) # None
  PROVE  Line(p) \cap ownXml = IF Parsed(p) = Empty THEN {} ELSE {Parsed(p)}
<1> USE DeviceAssumption
<1>1. CASE p \in ownXml
  <2>1. Line(p) = {p}
    BY <1>1, LineOfOwner DEF TypeOK
  <2>2. Parsed(p) = p /\ p # Empty
    BY <1>1 DEF Parsed
  <2> QED BY <1>1, <2>1, <2>2
<1>2. CASE p \notin ownXml /\ derivedFrom[p] \in Peripherals
  <2>1. Line(p) = {p} \cup Line(derivedFrom[p])
    BY <1>2, LineOfChild
  <2>2. Parsed(p) = registers[derivedFrom[p]]
    BY <1>2 DEF Parsed
  <2>3. Line(derivedFrom[p]) \cap ownXml = IF Parsed(p) = Empty THEN {} ELSE {Parsed(p)}
    BY <1>2, <2>2 DEF InheritedRegisters
  <2> QED BY <1>2, <2>1, <2>3
<1>3. CASE p \notin ownXml /\ derivedFrom[p] \notin Peripherals
  <2>1. Line(p) = {p}
    BY <1>3, LineOfOrphan
  <2> QED BY <1>3, <2>1 DEF Parsed
<1> QED BY <1>1, <1>2, <1>3

LEMMA InheritedInit == Init => InheritedRegisters
BY DEF Init, InheritedRegisters

LEMMA InheritedStep == TypeOK /\ InheritedRegisters /\ [Next]_vars => InheritedRegisters'
<1> SUFFICES ASSUME TypeOK, InheritedRegisters, [Next]_vars,
                    NEW p \in Peripherals, registers'[p] # None
             PROVE  Line(p)' \cap ownXml' = IF registers'[p] = Empty THEN {} ELSE {registers'[p]}
  BY DEF InheritedRegisters
<1>1. UNCHANGED <<derivedFrom, ownXml>>
  BY DEF Next, Step, Known, vars, ResolveNext, ResolveParent, ResolveReturns, Loaded,
         AskParent, ParseReturns, RecursionError, Ask
<1>2. Line(p)' = Line(p) /\ ownXml' = ownXml
  BY <1>1, LinesStay
<1>3. CASE ParseReturns /\ p = Top
  <2>1. registers'[p] = Parsed(p)
    BY <1>3 DEF ParseReturns, TypeOK
  <2>2. Parsed(p) # None
    BY <1>3 DEF ParseReturns
  <2> QED BY <1>2, <2>1, <2>2, ParsedIsInherited
<1>4. CASE ~(ParseReturns /\ p = Top)
  <2>1. registers'[p] = registers[p]
    BY <1>4 DEF TypeOK, Next, Step, Known, vars, ResolveNext, ResolveParent, ResolveReturns,
            Loaded, AskParent, ParseReturns, RecursionError, Ask
  <2> QED BY <1>2, <2>1 DEF InheritedRegisters
<1> QED BY <1>3, <1>4

\* The registers of a peripheral are those of the first peripheral on its derivedFrom
\* chain with a <registers> element, and none when there is no such peripheral, for every
\* file: also after a computation that ended at the recursion limit.
THEOREM RegistersAreInherited == Spec => []InheritedRegisters
BY TypeCorrect, InheritedInit, InheritedStep, PTL DEF Spec

-----------------------------------------------------------------------------
(* SVDDevice: the walk of _resolve_derived *)

\* The calls in progress are, but for the one on top, those of the visited peripherals,
\* each once; the one on top is visited only if it is derived from itself.
Walk ==
    phase = "resolving" /\ stack # <<>> =>
        /\ Cardinality(visited) = Len(stack) - 1
        /\ Top \in visited => derivedFrom[Top] = Top

\* load has not failed: resolve has not come to Python's recursion limit.
Loads == phase # "failed"

LEMMA PeripheralsFinite == IsFiniteSet(Peripherals)
<1> DEFINE listed == [i \in 1..Len(Order) |-> Order[i]]
<1>1. listed \in Surjection(1..Len(Order), Peripherals)
  BY DeviceAssumption DEF ToSet, Surjection
<1>2. IsFiniteSet(1..Len(Order))
  BY FS_Interval, DeviceAssumption
<1> QED BY <1>1, <1>2, FS_Surjection

\* The sets of peripherals that the walk keeps have a size.
LEMMA SetSize ==
  ASSUME NEW S \in SUBSET Peripherals
  PROVE  /\ IsFiniteSet(S) /\ Cardinality(S) \in Nat /\ Cardinality(Peripherals) \in Nat
         /\ Cardinality(S) <= Cardinality(Peripherals)
BY PeripheralsFinite, FS_Subset, FS_CardinalityType

\* Where the walk goes on, the call on top is that of a peripheral that it has not visited,
\* so that there are no more calls than peripherals.
LEMMA FreshTop ==
  ASSUME TypeOK, Walk, phase = "resolving", stack # <<>>, ~Settled(Top)
  PROVE  /\ Top \in Peripherals
         /\ Cardinality(visited \cup {Top}) = Len(stack)
         /\ Len(stack) <= Cardinality(Peripherals)
<1>1. Top \in Peripherals /\ Len(stack) \in Nat
  BY TopType DEF TypeOK
<1>2. Top \notin visited
  BY DEF Walk, Settled
<1>3. visited \in SUBSET Peripherals /\ visited \cup {Top} \in SUBSET Peripherals
  BY <1>1 DEF TypeOK
<1>4. Cardinality(visited \cup {Top}) = Cardinality(visited) + 1
  BY <1>2, <1>3, SetSize, FS_AddElement
<1>5. Cardinality(visited) = Len(stack) - 1
  BY DEF Walk
<1>6. Cardinality(visited \cup {Top}) <= Cardinality(Peripherals)
  BY <1>3, SetSize
<1> QED BY <1>1, <1>4, <1>5, <1>6

LEMMA WalkStep ==
  ASSUME TypeOK, Walk, [Next]_vars
  PROVE  Walk'
<1>1. CASE ResolveNext
  <2>1. visited' = {} /\ (stack' # <<>> => stack' = <<Head(todo)>>)
    BY <1>1 DEF ResolveNext
  <2>2. stack' # <<>> => Len(stack') = 1
    BY <2>1
  <2>3. Cardinality(visited') = 0 /\ Top' \notin visited'
    BY <2>1, FS_EmptySet
  <2> QED BY <2>2, <2>3 DEF Walk
<1>2. CASE ResolveParent
  <2>1. /\ Cardinality(visited') = Len(stack)
        /\ visited' = visited \cup {Top} /\ stack' = <<derivedFrom[Top]>> \o stack
        /\ derivedFrom[Top] \in Peripherals /\ derivedFrom[Top] \notin visited
    BY <1>2, FreshTop DEF ResolveParent, Settled
  <2>2. Len(stack') = Len(stack) + 1 /\ stack'[1] = derivedFrom[Top] /\ Len(stack) \in Nat
    BY <2>1, Pushed DEF TypeOK
  <2>3. stack'[1] \in visited' => derivedFrom[stack'[1]] = stack'[1]
    BY <2>1, <2>2 DEF Top
  <2> QED BY <1>2, <2>1, <2>2, <2>3 DEF Walk, Top, ResolveParent
<1>3. CASE ResolveReturns
  BY <1>3 DEF Walk, ResolveReturns
<1>4. CASE Loaded
  BY <1>4 DEF Walk, Loaded
<1>5. CASE AskParent \/ ParseReturns \/ \E p \in Peripherals : Ask(p)
  BY <1>5 DEF Walk, AskParent, ParseReturns, Ask
<1>6. CASE RecursionError
  BY <1>6 DEF Walk, RecursionError
<1>7. CASE UNCHANGED vars
  BY <1>7 DEF Walk, Top, vars
<1> QED BY <1>1, <1>2, <1>3, <1>4, <1>5, <1>6, <1>7 DEF Next, Step, Known

LEMMA LoadsStep ==
  ASSUME TypeOK, Walk, Loads, [Next]_vars, Cardinality(Peripherals) < MaxDepth
  PROVE  Loads'
<1>1. CASE RecursionError
  <2>1. stack # <<>> /\ Len(stack) = MaxDepth
    BY <1>1, DeviceAssumption DEF RecursionError
  <2>2. ~(phase = "resolving" /\ ~Settled(Top))
    BY <2>1, FreshTop, SetSize, DeviceAssumption
  <2>3. phase = "loaded"
    BY <1>1, <2>2 DEF RecursionError, CallsDeeper, Loads, TypeOK
  <2> QED BY <1>1, <2>3 DEF RecursionError, Loads
<1>2. CASE ~RecursionError
  BY <1>2 DEF Loads, Next, Step, Known, vars, ResolveNext, ResolveParent, ResolveReturns,
          Loaded, AskParent, ParseReturns, Ask
<1> QED BY <1>1, <1>2

\* The walk of _resolve_derived never reaches Python's recursion limit, whatever cycles and
\* unknown parents the file has, as long as it lists fewer peripherals than the limit:
\* the cycle detection works there.
THEOREM WalkEndsEarly ==
  ASSUME Cardinality(Peripherals) < MaxDepth
  PROVE  Spec => []Loads
<1>1. Init => Walk /\ Loads
  BY DEF Init, Walk, Loads
<1>2. TypeOK /\ Walk /\ Loads /\ [Next]_vars => Walk' /\ Loads'
  BY WalkStep, LoadsStep
<1> QED BY TypeCorrect, <1>1, <1>2, PTL DEF Spec

-----------------------------------------------------------------------------
(* MIParser: sequences that are put together from parts *)

\* A set of numbers that has 0 and, with each number, the next one, has all: what induction
\* amounts to for a set.
LEMMA InductiveSet ==
  ASSUME NEW S \in SUBSET Nat, 0 \in S, \A n \in S : n + 1 \in S
  PROVE  S = Nat
<1> DEFINE R == {ss \in Nat \X Nat : ss[1] < ss[2]}
           T == Nat \ S
<1>1. IsWellFoundedOn(R, Nat)
  BY NatLessThanWellFounded DEF OpToRel
<1> SUFFICES ASSUME T # {} PROVE FALSE
  OBVIOUS
<1>2. T \subseteq Nat
  OBVIOUS
<1> HIDE DEF T, R
<1>3. PICK x \in T : \A y \in T : ~(<<y, x>> \in R)
  BY <1>1, <1>2, WFMin
<1>4. x - 1 \in Nat /\ x - 1 + 1 = x /\ x - 1 < x /\ x \in Nat
  BY DEF T
<1>5. x - 1 \in T
  BY <1>4 DEF T
<1>6. <<x - 1, x>> \in R
  BY <1>4 DEF R
<1> QED BY <1>3, <1>5, <1>6

\* G makes the next value of a sequence from the number and the value before.
IsStep(G, V) == G \in [Nat \X V -> V]

\* The sequence that begins with a value and goes on with the step.
IsSequenceOf(f, V, first, G) ==
  f \in [Nat -> V] /\ f[0] = first /\ \A n \in Nat : f[n + 1] = G[<<n, f[n]>>]

\* A value and a step define a sequence of values.
LEMMA Recursion ==
  ASSUME NEW V, NEW first \in V, NEW G, IsStep(G, V)
  PROVE  \E f : IsSequenceOf(f, V, first, G)
<1> USE DEF IsStep
<1> DEFINE Starts(g, k) == g[0] = first /\ \A i \in 0..(k - 1) : g[i + 1] = G[<<i, g[i]>>]
           S == {k \in Nat : \E g \in [0..k -> V] : Starts(g, k)}
<1>1. 0 \in S
  <2> DEFINE g == [i \in 0..0 |-> first]
  <2>1. g \in [0..0 -> V] /\ Starts(g, 0)
    OBVIOUS
  <2> QED BY <2>1
<1>2. ASSUME NEW k \in S
      PROVE  k + 1 \in S
  <2>1. PICK g \in [0..k -> V] : Starts(g, k)
    OBVIOUS
  <2> DEFINE h == [i \in 0..(k + 1) |-> IF i = k + 1 THEN G[<<k, g[k]>>] ELSE g[i]]
  <2>2. k \in Nat /\ g[k] \in V /\ G[<<k, g[k]>>] \in V
    OBVIOUS
  <2>3. h \in [0..(k + 1) -> V]
    BY <2>2
  <2>4. h[0] = first
    BY <2>1, <2>2
  <2>5. ASSUME NEW i \in 0..k
        PROVE  h[i + 1] = G[<<i, h[i]>>]
    <3>1. i \in Nat /\ h[i] = g[i]
      BY <2>2
    <3>2. CASE i = k
      <4>1. h[k + 1] = G[<<k, g[k]>>]
        BY <2>2
      <4> HIDE DEF h
      <4> QED BY <3>1, <3>2, <4>1
    <3>3. CASE i # k
      <4>1. i \in 0..(k - 1) /\ i + 1 \in 0..k /\ i + 1 # k + 1
        BY <2>2, <3>3
      <4>2. h[i + 1] = g[i + 1]
        BY <2>2, <4>1
      <4> QED BY <2>1, <3>1, <4>1, <4>2
    <3> QED BY <3>2, <3>3
  <2> HIDE DEF h
  <2>6. Starts(h, k + 1)
    <3>1. k + 1 - 1 = k
      BY <2>2
    <3> QED BY <2>4, <2>5, <3>1
  <2> QED BY <2>2, <2>3, <2>6
<1> HIDE DEF S
<1>3. S = Nat
  <2>1. S \in SUBSET Nat
    BY DEF S
  <2> QED BY <1>1, <1>2, <2>1, InductiveSet
<1>4. ASSUME NEW k \in Nat, NEW g \in [0..k -> V], Starts(g, k),
             NEW l \in Nat, NEW h \in [0..l -> V], Starts(h, l)
      PROVE  \A n \in Nat : n <= k /\ n <= l => g[n] = h[n]
  <2> DEFINE E == {n \in Nat : n <= k /\ n <= l => g[n] = h[n]}
  <2>1. 0 \in E
    BY <1>4
  <2>2. ASSUME NEW n \in E
        PROVE  n + 1 \in E
    <3> SUFFICES ASSUME n + 1 <= k, n + 1 <= l PROVE g[n + 1] = h[n + 1]
      OBVIOUS
    <3>1. n \in 0..(k - 1) /\ n \in 0..(l - 1) /\ n <= k /\ n <= l
      OBVIOUS
    <3>2. g[n] = h[n]
      BY <3>1
    <3>3. g[n + 1] = G[<<n, g[n]>>] /\ h[n + 1] = G[<<n, h[n]>>]
      BY <1>4, <3>1
    <3> QED BY <3>2, <3>3
  <2>3. E \in SUBSET Nat
    OBVIOUS
  <2> HIDE DEF E
  <2>4. E = Nat
    BY <2>1, <2>2, <2>3, InductiveSet
  <2> QED BY <2>4 DEF E
<1> HIDE DEF Starts
<1> DEFINE C(k) == CHOOSE g \in [0..k -> V] : Starts(g, k)
           f == [n \in Nat |-> C(n)[n]]
<1>5. ASSUME NEW k \in Nat
      PROVE  C(k) \in [0..k -> V] /\ Starts(C(k), k)
  <2>1. k \in S
    BY <1>3
  <2>2. \E g \in [0..k -> V] : Starts(g, k)
    BY <2>1 DEF S
  <2> QED BY <2>2
<1> HIDE DEF C
<1>6. f \in [Nat -> V]
  BY <1>5
<1>7. f[0] = first
  BY <1>5 DEF Starts
<1>8. ASSUME NEW n \in Nat
      PROVE  f[n + 1] = G[<<n, f[n]>>]
  <2>1. n + 1 \in Nat /\ n \in 0..(n + 1 - 1) /\ n <= n + 1
    OBVIOUS
  <2>2. C(n + 1)[n + 1] = G[<<n, C(n + 1)[n]>>]
    BY <1>5, <2>1 DEF Starts
  <2>3. C(n + 1)[n] = C(n)[n]
    BY <1>4, <1>5, <2>1
  <2> QED BY <2>1, <2>2, <2>3
<1> QED BY <1>6, <1>7, <1>8 DEF IsSequenceOf

\* What Joined says of each number of parts.
LEMMA JoinedStep ==
  ASSUME NEW T, NEW parts \in Seq(Seq(T))
  PROVE  /\ Joined(parts)[0] = <<>>
         /\ \A n \in 0..(Len(parts) - 1) : Joined(parts)[n + 1] = Joined(parts)[n] \o parts[n + 1]
<1> DEFINE L == Len(parts)
           V == Seq(T)
           G == [p \in Nat \X V |-> IF p[1] < L THEN p[2] \o parts[p[1] + 1] ELSE p[2]]
<1>1. L \in Nat /\ <<>> \in V
  OBVIOUS
<1>2. G \in [Nat \X V -> V]
  <2>1. ASSUME NEW n \in Nat, NEW v \in V, n < L
        PROVE  v \o parts[n + 1] \in V
    <3>1. n + 1 \in 1..L
      BY <1>1, <2>1
    <3>2. parts[n + 1] \in Seq(T)
      BY <3>1
    <3> QED BY <3>2
  <2> QED BY <2>1
<1>3. \A n \in Nat, v \in V : n < L => G[<<n, v>>] = v \o parts[n + 1]
  OBVIOUS
<1> HIDE DEF G, V, L
<1>4. PICK f : f \in [Nat -> V] /\ f[0] = <<>> /\ \A n \in Nat : f[n + 1] = G[<<n, f[n]>>]
  <2>1. \E f : IsSequenceOf(f, V, <<>>, G)
    BY <1>1, <1>2, Recursion DEF IsStep
  <2> QED BY <2>1 DEF IsSequenceOf
<1> DEFINE g == [n \in 0..L |-> f[n]]
<1>5. g = [n \in 0..L |-> IF n = 0 THEN <<>> ELSE g[n - 1] \o parts[n]]
  <2>1. ASSUME NEW n \in 0..L, n # 0
        PROVE  f[n] = f[n - 1] \o parts[n]
    <3>1. n - 1 \in Nat /\ n - 1 + 1 = n /\ n - 1 < L
      BY <1>1, <2>1
    <3>2. f[n - 1 + 1] = f[n - 1] \o parts[n - 1 + 1]
      BY <1>3, <1>4, <3>1
    <3> QED BY <3>1, <3>2
  <2>2. \A n \in 0..L : n # 0 => n - 1 \in 0..L /\ g[n - 1] = f[n - 1]
    BY <1>1
  <2>3. 0 \in 0..L /\ f[0] = <<>>
    BY <1>1, <1>4
  <2>4. \A n \in 0..L : f[n] = IF n = 0 THEN <<>> ELSE g[n - 1] \o parts[n]
    BY <2>1, <2>2, <2>3
  <2> QED BY <2>4
<1> HIDE DEF g
<1>6. Joined(parts) = [n \in 0..L |-> IF n = 0 THEN <<>> ELSE Joined(parts)[n - 1] \o parts[n]]
  BY <1>5 DEF Joined, L
<1> DEFINE j == Joined(parts)
<1>7. j = [n \in 0..L |-> IF n = 0 THEN <<>> ELSE j[n - 1] \o parts[n]]
  BY <1>6
<1> HIDE DEF j
<1>8. 0 \in 0..L /\ \A n \in 0..(L - 1) : n + 1 \in 0..L /\ n + 1 # 0 /\ n + 1 - 1 = n
  BY <1>1
<1>9. j[0] = <<>> /\ \A n \in 0..(L - 1) : j[n + 1] = j[n] \o parts[n + 1]
  <2>1. \A n \in 0..L : j[n] = IF n = 0 THEN <<>> ELSE j[n - 1] \o parts[n]
    BY <1>7, Zenon
  <2>2. j[0] = <<>>
    BY <1>8, <2>1
  <2>3. ASSUME NEW n \in 0..(L - 1)
        PROVE  j[n + 1] = j[n] \o parts[n + 1]
    <3>1. PICK q \in 0..L : q = n + 1 /\ q # 0 /\ q - 1 = n
      BY <1>8
    <3>2. j[q] = j[q - 1] \o parts[q]
      BY <2>1, <3>1, Zenon
    <3> QED BY <3>1, <3>2
  <2> QED BY <2>2, <2>3
<1> QED BY <1>9 DEF j, L

\* Parts in a row are a sequence.
LEMMA JoinedType ==
  ASSUME NEW T, NEW parts \in Seq(Seq(T)), NEW m \in 0..Len(parts)
  PROVE  Joined(parts)[m] \in Seq(T)
<1> DEFINE S == {k \in Nat : k <= Len(parts) => Joined(parts)[k] \in Seq(T)}
<1>1. 0 \in S
  <2>1. Joined(parts)[0] = <<>> /\ <<>> \in Seq(T)
    BY JoinedStep, EmptySeq
  <2> QED BY <2>1
<1>2. ASSUME NEW k \in S
      PROVE  k + 1 \in S
  <2> SUFFICES ASSUME k + 1 <= Len(parts) PROVE Joined(parts)[k + 1] \in Seq(T)
    OBVIOUS
  <2>1. k \in 0..(Len(parts) - 1) /\ k + 1 \in 1..Len(parts) /\ k <= Len(parts)
    OBVIOUS
  <2>2. Joined(parts)[k] \in Seq(T) /\ parts[k + 1] \in Seq(T)
    BY <2>1
  <2>3. Joined(parts)[k + 1] = Joined(parts)[k] \o parts[k + 1]
    BY <2>1, JoinedStep
  <2> QED BY <2>2, <2>3
<1>3. S \in SUBSET Nat
  OBVIOUS
<1> HIDE DEF S
<1>4. S = Nat
  BY <1>1, <1>2, <1>3, InductiveSet
<1>5. m \in S /\ m <= Len(parts)
  BY <1>4
<1> QED BY <1>5 DEF S

\* All parts in a row begin with the first of them in a row.
LEMMA JoinedPrefix ==
  ASSUME NEW T, NEW parts \in Seq(Seq(T)), NEW m \in 0..Len(parts)
  PROVE  \E r \in Seq(T) : Joined(parts)[Len(parts)] = Joined(parts)[m] \o r
<1> DEFINE L == Len(parts)
           Rest(n) == \E r \in Seq(T) : Joined(parts)[L] = Joined(parts)[n] \o r
           S == {k \in Nat : \A n \in 0..L : n + k = L => Rest(n)}
<1>1. 0 \in S
  <2>1. Joined(parts)[L] \in Seq(T) /\ <<>> \in Seq(T)
    BY JoinedType
  <2>2. Joined(parts)[L] = Joined(parts)[L] \o <<>>
    BY <2>1, ConcatEmptySeq
  <2>3. Rest(L)
    BY <2>1, <2>2
  <2> HIDE DEF Rest
  <2>4. \A n \in 0..L : n + 0 = L => n = L
    OBVIOUS
  <2> QED BY <2>3, <2>4
<1>2. ASSUME NEW k \in S
      PROVE  k + 1 \in S
  <2>1. ASSUME NEW n \in 0..L, n + (k + 1) = L PROVE Rest(n)
    <3>1. n + 1 \in 0..L /\ (n + 1) + k = L /\ n \in 0..(L - 1) /\ n + 1 \in 1..L
      BY <2>1
    <3>2. PICK r \in Seq(T) : Joined(parts)[L] = Joined(parts)[n + 1] \o r
      BY <3>1
    <3>3. Joined(parts)[n + 1] = Joined(parts)[n] \o parts[n + 1]
      BY <3>1, JoinedStep
    <3>4. Joined(parts)[n] \in Seq(T) /\ parts[n + 1] \in Seq(T) /\ parts[n + 1] \o r \in Seq(T)
      BY <3>1, JoinedType
    <3>5. (Joined(parts)[n] \o parts[n + 1]) \o r = Joined(parts)[n] \o (parts[n + 1] \o r)
      <4>1. PICK a, q : a = Joined(parts)[n] /\ q = parts[n + 1]
        OBVIOUS
      <4>2. a \in Seq(T) /\ q \in Seq(T)
        BY <3>4, <4>1
      <4>3. (a \o q) \o r = a \o (q \o r)
        BY <4>2, ConcatAssociative
      <4> QED BY <4>1, <4>3
    <3> QED BY <3>2, <3>3, <3>4, <3>5
  <2> HIDE DEF Rest
  <2> QED BY <2>1
<1>3. S \in SUBSET Nat
  OBVIOUS
<1> HIDE DEF S
<1>4. S = Nat
  BY <1>1, <1>2, <1>3, InductiveSet
<1>5. L - m \in S /\ m + (L - m) = L
  BY <1>4
<1> HIDE DEF Rest
<1>6. Rest(m)
  BY <1>5 DEF S
<1> QED BY <1>6 DEF Rest

\* The place of the first newline in a buffer, as LineEnd has it.
FirstIn(b) ==
  CHOOSE i \in DOMAIN b : b[i] = Newline /\ \A k \in 1..(i - 1) : b[k] # Newline

\* A newline ends the line and is nowhere else.
Ends(line) == line # <<>> /\ \A i \in DOMAIN line : line[i] = Newline <=> i = Len(line)

\* A buffer that has a newline, and begins what is left of a text whose first line is line,
\* begins with that line.
LEMMA Cut ==
  ASSUME NEW b \in Seq(STRING), NEW s \in Seq(STRING), NEW line \in Seq(STRING),
         NEW r \in Seq(STRING),
         Ends(line),
         b \o s = line \o r, Newline \in ToSet(b)
  PROVE  /\ FirstIn(b) = Len(line)
         /\ SubSeq(b, 1, FirstIn(b) - 1) = Front(line)
         /\ SubSeq(b, FirstIn(b) + 1, Len(b)) \in Seq(STRING)
         /\ SubSeq(b, FirstIn(b) + 1, Len(b)) \o s = r
<1> USE DEF Ends
<1> DEFINE n == Len(line)
           m == Len(b)
<1>1. n \in Nat \ {0} /\ m \in Nat /\ Len(s) \in Nat /\ Len(r) \in Nat
  BY EmptySeq
<1>2. /\ DOMAIN b = 1..m /\ DOMAIN line = 1..n
      /\ \A i \in 1..m : b[i] \in STRING
  OBVIOUS
<1>3. /\ m + Len(s) = n + Len(r)
      /\ \A i \in 1..(m + Len(s)) : (b \o s)[i] = IF i <= m THEN b[i] ELSE s[i - m]
      /\ \A i \in 1..(n + Len(r)) : (b \o s)[i] = IF i <= n THEN line[i] ELSE r[i - n]
  BY ConcatProperties
<1>4. \A i \in 1..m : i <= n => b[i] = line[i]
  BY <1>1, <1>3
<1>5. PICK p \in 1..m : b[p] = Newline
  BY <1>2 DEF ToSet
<1>6. n <= m
  <2> SUFFICES ASSUME m < n PROVE FALSE
    BY <1>1
  <2>1. p \in 1..n /\ p # n
    BY <1>1
  <2>2. b[p] = line[p]
    BY <1>4, <2>1
  <2> QED BY <1>2, <1>5, <2>1, <2>2
<1>7. b[n] = Newline /\ \A k \in 1..(n - 1) : b[k] # Newline
  <2>1. n \in 1..n /\ n \in 1..m
    BY <1>1, <1>6
  <2>2. b[n] = line[n] /\ line[n] = Newline
    BY <1>2, <1>4, <2>1
  <2>3. ASSUME NEW k \in 1..(n - 1)
        PROVE  b[k] # Newline
    <3>1. k \in 1..n /\ k \in 1..m /\ k # n /\ k <= n
      BY <1>1, <1>6
    <3> QED BY <1>2, <1>4, <3>1
  <2> QED BY <2>2, <2>3
<1>8. n \in DOMAIN b
  BY <1>1, <1>2, <1>6
<1>9. \A i \in DOMAIN b : (b[i] = Newline /\ \A k \in 1..(i - 1) : b[k] # Newline) => i = n
  BY <1>1, <1>2, <1>7
<1>10. FirstIn(b) = n
  BY <1>7, <1>8, <1>9 DEF FirstIn
<1>11. SubSeq(b, 1, n - 1) = Front(line)
  <2>1. Front(line) = SubSeq(line, 1, n - 1)
    BY DEF Front
  <2>2. /\ SubSeq(b, 1, n - 1) \in Seq(STRING) /\ Len(SubSeq(b, 1, n - 1)) = n - 1
        /\ \A i \in 1..(n - 1) : SubSeq(b, 1, n - 1)[i] = b[i]
    BY <1>1, <1>2, <1>6
  <2>3. /\ SubSeq(line, 1, n - 1) \in Seq(STRING) /\ Len(SubSeq(line, 1, n - 1)) = n - 1
        /\ \A i \in 1..(n - 1) : SubSeq(line, 1, n - 1)[i] = line[i]
    BY <1>1, <1>2
  <2>4. \A i \in 1..(n - 1) : b[i] = line[i]
    BY <1>1, <1>4, <1>6
  <2>5. SubSeq(b, 1, n - 1) = SubSeq(line, 1, n - 1)
    BY <1>1, <2>2, <2>3, <2>4, SeqEqual
  <2> QED BY <2>1, <2>5
<1> DEFINE c == SubSeq(b, n + 1, m)
<1>12. /\ c \in Seq(STRING) /\ Len(c) = m - n
       /\ \A i \in 1..(m - n) : c[i] = b[n + i]
  <2>1. n + 1 \in Int /\ m \in Int /\ \A i \in (n + 1)..m : b[i] \in STRING
    BY <1>1, <1>2
  <2>2. /\ c \in Seq(STRING) /\ Len(c) = IF n + 1 <= m THEN m - (n + 1) + 1 ELSE 0
        /\ \A i \in 1..(m - (n + 1) + 1) : c[i] = b[n + 1 + i - 1]
    BY <2>1, SubSeqProperties
  <2>3. m - (n + 1) + 1 = m - n /\ \A i \in 1..(m - n) : n + 1 + i - 1 = n + i
    BY <1>1
  <2>4. Len(c) = m - n
    BY <1>1, <1>6, <2>2
  <2> QED BY <2>2, <2>3, <2>4
<1> HIDE DEF c
<1>13. c \o s = r
  <2>1. /\ c \o s \in Seq(STRING) /\ Len(c \o s) = (m - n) + Len(s)
        /\ \A i \in 1..((m - n) + Len(s)) : (c \o s)[i] = IF i <= m - n THEN c[i] ELSE s[i - (m - n)]
    <3>1. c \in Seq(STRING) /\ Len(c) = m - n
      BY <1>12
    <3>2. /\ c \o s \in Seq(STRING) /\ Len(c \o s) = Len(c) + Len(s)
          /\ \A i \in 1..(Len(c) + Len(s)) :
               (c \o s)[i] = IF i <= Len(c) THEN c[i] ELSE s[i - Len(c)]
      BY <3>1, ConcatProperties
    <3> QED BY <3>1, <3>2
  <2>2. Len(r) = (m - n) + Len(s)
    BY <1>1, <1>3
  <2>3. ASSUME NEW i \in 1..Len(r)
        PROVE  (c \o s)[i] = r[i]
    <3>1. n + i \in 1..(n + Len(r)) /\ n + i \in 1..(m + Len(s)) /\ ~(n + i <= n) /\ n + i - n = i
      BY <1>1, <1>3
    <3>2. (b \o s)[n + i] = r[i]
      BY <1>3, <3>1
    <3>3. CASE i <= m - n
      <4>1. n + i <= m /\ i \in 1..(m - n)
        BY <1>1, <3>3
      <4>2. (b \o s)[n + i] = b[n + i] /\ (c \o s)[i] = c[i]
        BY <1>3, <2>1, <2>2, <3>1, <4>1
      <4> QED BY <1>12, <3>2, <4>1, <4>2
    <3>4. CASE ~(i <= m - n)
      <4>1. ~(n + i <= m) /\ n + i - m = i - (m - n)
        BY <1>1, <3>4
      <4>2. (b \o s)[n + i] = s[n + i - m] /\ (c \o s)[i] = s[i - (m - n)]
        BY <1>3, <2>1, <2>2, <3>1, <3>4, <4>1
      <4> QED BY <3>2, <4>1, <4>2
    <3> QED BY <3>3, <3>4
  <2> QED BY <2>1, <2>2, <2>3, SeqEqual
<1> QED BY <1>10, <1>11, <1>12, <1>13 DEF c

-----------------------------------------------------------------------------
(* MIParser: what was written *)

TextsOf(w) == [i \in DOMAIN w |-> w[i].text]
RecordsOf(w) == [i \in DOMAIN w |-> w[i].records]
KnownRecords(w) == {Head(w[i].records) : i \in DOMAIN w}

\* The lines of a writing, their texts and their records are sequences.
LEMMA WritingType ==
  ASSUME NEW w \in Writings
  PROVE  /\ Len(w) \in Nat /\ DOMAIN w = 1..Len(w)
         /\ TextsOf(w) \in Seq(Seq(STRING)) /\ Len(TextsOf(w)) = Len(w)
         /\ RecordsOf(w) \in Seq(Seq(KnownRecords(w))) /\ Len(RecordsOf(w)) = Len(w)
         /\ \A i \in 1..Len(w) : /\ TextsOf(w)[i] = w[i].text /\ RecordsOf(w)[i] = w[i].records
                                 /\ w[i].text \in Seq(STRING) /\ w[i].records \in Seq(KnownRecords(w))
<1>1. Len(w) \in Nat /\ w = [i \in 1..Len(w) |-> w[i]] /\ \A i \in DOMAIN w : IsLine(w[i])
  BY ParserAssumption
<1>2. DOMAIN w = 1..Len(w)
  BY <1>1
<1>3. ASSUME NEW i \in 1..Len(w)
      PROVE  w[i].text \in Seq(STRING) /\ w[i].records \in Seq(KnownRecords(w))
  <2>1. IsLine(w[i]) /\ i \in DOMAIN w
    BY <1>1, <1>2
  <2>2. w[i].text \in Seq(STRING)
    BY <2>1 DEF IsLine
  <2>3. PICK q : q = w[i].records
    OBVIOUS
  <2>4. PICK h : h = Head(q)
    OBVIOUS
  <2>5. h \in KnownRecords(w)
    BY <2>1, <2>3, <2>4 DEF KnownRecords
  <2>6. q = <<>> \/ q = <<h>>
    BY <2>1, <2>3, <2>4 DEF IsLine
  <2>7. <<>> \in Seq(KnownRecords(w)) /\ <<h>> \in Seq(KnownRecords(w))
    BY <2>5
  <2> QED BY <2>2, <2>3, <2>6, <2>7
<1>4. TextsOf(w) = [i \in 1..Len(w) |-> w[i].text] /\ RecordsOf(w) = [i \in 1..Len(w) |-> w[i].records]
  BY <1>2 DEF TextsOf, RecordsOf
<1>5. TextsOf(w) \in [1..Len(w) -> Seq(STRING)] /\ RecordsOf(w) \in [1..Len(w) -> Seq(KnownRecords(w))]
  BY <1>3, <1>4
<1>6. /\ TextsOf(w) \in Seq(Seq(STRING)) /\ Len(TextsOf(w)) = Len(w)
      /\ RecordsOf(w) \in Seq(Seq(KnownRecords(w))) /\ Len(RecordsOf(w)) = Len(w)
  BY <1>1, <1>5
<1>7. \A i \in 1..Len(w) : TextsOf(w)[i] = w[i].text /\ RecordsOf(w)[i] = w[i].records
  BY <1>4
<1> QED BY <1>1, <1>2, <1>3, <1>6, <1>7

\* The text of all lines from line n + 1 on begins with that line.
LEMMA TextAhead ==
  ASSUME NEW w \in Writings, NEW n \in 0..(Len(w) - 1)
  PROVE  \E r \in Seq(STRING) :
            /\ Joined(TextsOf(w))[Len(w)] = Joined(TextsOf(w))[n] \o (w[n + 1].text \o r)
            /\ Joined(TextsOf(w))[Len(w)] = Joined(TextsOf(w))[n + 1] \o r
<1> DEFINE ts == TextsOf(w)
<1>1. /\ ts \in Seq(Seq(STRING)) /\ Len(ts) = Len(w) /\ Len(w) \in Nat
      /\ n + 1 \in 1..Len(w) /\ n + 1 \in 0..Len(w) /\ n \in 0..Len(w)
  BY WritingType
<1>2. ts[n + 1] = w[n + 1].text /\ w[n + 1].text \in Seq(STRING)
  BY <1>1, WritingType
<1> HIDE DEF ts
<1>3. PICK r \in Seq(STRING) : Joined(ts)[Len(w)] = Joined(ts)[n + 1] \o r
  <2>1. n + 1 \in 0..Len(ts)
    BY <1>1
  <2>2. \E r \in Seq(STRING) : Joined(ts)[Len(ts)] = Joined(ts)[n + 1] \o r
    BY ONLY <1>1, <2>1, JoinedPrefix
  <2> QED BY <1>1, <2>2
<1>4. Joined(ts)[n + 1] = Joined(ts)[n] \o ts[n + 1] /\ Joined(ts)[n] \in Seq(STRING)
  BY <1>1, JoinedStep, JoinedType
<1>5. PICK a, q : a = Joined(ts)[n] /\ q = ts[n + 1]
  OBVIOUS
<1>6. (a \o q) \o r = a \o (q \o r)
  <2>1. a \in Seq(STRING) /\ q \in Seq(STRING)
    BY <1>2, <1>4, <1>5
  <2> QED BY <2>1, ConcatAssociative
<1> QED BY <1>2, <1>3, <1>4, <1>5, <1>6 DEF ts

-----------------------------------------------------------------------------
(* MIParser: the inductive invariant *)

\* The text of the first n lines has been cut off; the buffer and the stream go on from there.
Behind(n) == Text[n] \o (buffer \o stream) = Text[Len(written)]

\* The call in progress and the calls before it have found the records of the lines that have
\* been cut off.  An exception loses those of its call.
MPInv ==
  /\ written \in Writings
  /\ buffer \in Seq(STRING) /\ stream \in Seq(STRING)
  /\ records \in Seq(KnownRecords(written)) /\ found \in Seq(KnownRecords(written))
  /\ feeding \in BOOLEAN /\ raised \in BOOLEAN
  /\ ~raised => \E n \in 0..Len(written) : records \o found = Expected[n] /\ Behind(n)
  /\ feeding => ~raised
  /\ ~feeding => found = <<>>
  /\ ~feeding /\ ~raised => ~HasLine

LEMMA TextIs == Text = Joined(TextsOf(written)) /\ Expected = Joined(RecordsOf(written))
BY DEF Text, Expected, TextsOf, RecordsOf

LEMMA MPInvInit == MPInit => MPInv
<1> SUFFICES ASSUME MPInit PROVE MPInv
  OBVIOUS
<1>1. written \in Writings /\ Len(written) \in Nat /\ 0 \in 0..Len(written)
  BY WritingType DEF MPInit
<1>2. /\ Text[0] = <<>> /\ Text[Len(written)] \in Seq(STRING) /\ Expected[0] = <<>>
  <2>1. /\ TextsOf(written) \in Seq(Seq(STRING)) /\ Len(TextsOf(written)) = Len(written)
        /\ RecordsOf(written) \in Seq(Seq(KnownRecords(written))) /\ Len(written) \in 0..Len(written)
    BY <1>1, WritingType
  <2>2. Joined(TextsOf(written))[0] = <<>> /\ Joined(RecordsOf(written))[0] = <<>>
    BY <2>1, JoinedStep
  <2>3. Joined(TextsOf(written))[Len(written)] \in Seq(STRING)
    BY <2>1, JoinedType
  <2> QED BY <2>2, <2>3, TextIs
<1>3. <<>> \in Seq(STRING) /\ <<>> \in Seq(KnownRecords(written)) /\ stream \in Seq(STRING)
  BY <1>2 DEF MPInit
<1>4. Behind(0)
  <2>1. buffer \o stream = stream /\ Text[0] \o stream = stream
    BY <1>2, <1>3, ConcatEmptySeq DEF MPInit
  <2> QED BY <2>1 DEF Behind, MPInit
<1>5. records \o found = Expected[0]
  <2>1. records = <<>> /\ found = <<>>
    BY DEF MPInit
  <2>2. <<>> \o <<>> = <<>>
    BY <1>3, ConcatEmptySeq
  <2> QED BY <1>2, <2>1, <2>2
<1>6. ~HasLine
  BY DEF HasLine, MPInit, ToSet
<1> QED BY <1>1, <1>3, <1>4, <1>5, <1>6 DEF MPInit, MPInv

\* More text in the buffer is less in the stream.
LEMMA FeedKeeps == ASSUME MPInv, NEW k \in 1..MaxChunk, Feed(k) PROVE MPInv'
<1>1. k \in Nat /\ k <= Len(stream) /\ Len(stream) \in Nat
  BY ParserAssumption DEF Feed, MPInv
<1> DEFINE a == SubSeq(stream, 1, k)
           b == SubSeq(stream, k + 1, Len(stream))
<1>2. a \in Seq(STRING) /\ b \in Seq(STRING) /\ a \o b = stream
  BY <1>1 DEF MPInv
<1>3. buffer' = buffer \o a /\ stream' = b
  BY DEF Feed
<1> HIDE DEF a, b
<1>4. buffer' \o stream' = buffer \o stream /\ buffer' \in Seq(STRING) /\ stream' \in Seq(STRING)
  <2>1. buffer \in Seq(STRING)
    BY DEF MPInv
  <2>2. (buffer \o a) \o b = buffer \o (a \o b)
    <3>1. PICK x, y, z : x = buffer /\ y = a /\ z = b
      OBVIOUS
    <3>2. x \in Seq(STRING) /\ y \in Seq(STRING) /\ z \in Seq(STRING)
      BY <1>2, <2>1, <3>1
    <3>3. (x \o y) \o z = x \o (y \o z)
      BY <3>2, ConcatAssociative
    <3> QED BY <3>1, <3>3
  <2> QED BY <1>2, <1>3, <2>1, <2>2
<1>5. /\ UNCHANGED <<written, records, raised>> /\ ~raised /\ found' = <<>> /\ feeding' = TRUE
      /\ found = <<>>
  BY DEF Feed, MPInv
<1>6. Text' = Text /\ Expected' = Expected
  BY <1>5 DEF Text, Expected, Joined
<1>7. PICK n \in 0..Len(written) : records \o found = Expected[n] /\ Behind(n)
  BY <1>5 DEF MPInv
<1>8. (records \o found)' = Expected'[n] /\ Behind(n)'
  BY <1>4, <1>5, <1>6, <1>7 DEF Behind
<1> QED BY <1>4, <1>5, <1>8 DEF MPInv

\* Where the buffer has a line, it is the next that was written, and what is cut off is its text.
LEMMA NextLine ==
  ASSUME MPInv, HasLine, NEW n \in 0..Len(written), Behind(n)
  PROVE  /\ n + 1 \in 1..Len(written)
         /\ FirstLine = Stripped(Front(written[n + 1].text))
         /\ SubSeq(buffer, LineEnd + 1, Len(buffer)) \in Seq(STRING)
         /\ Text[n + 1] \o (SubSeq(buffer, LineEnd + 1, Len(buffer)) \o stream) = Text[Len(written)]
<1>1. /\ written \in Writings /\ buffer \in Seq(STRING) /\ stream \in Seq(STRING)
      /\ buffer \o stream \in Seq(STRING)
  BY DEF MPInv
<1>2. Len(written) \in Nat /\ n \in Nat
  BY <1>1, WritingType
<1>3. Text[n] \in Seq(STRING) /\ Text[Len(written)] \in Seq(STRING)
  BY <1>1, <1>2, WritingType, TextIs, JoinedType
<1>4. Newline \in ToSet(buffer)
  BY DEF HasLine
<1>5. buffer \o stream # <<>>
  <2>1. buffer # <<>>
    BY <1>4 DEF ToSet
  <2> QED BY <1>1, <2>1, ConcatEqualIffEmpty
<1>6. n # Len(written)
  <2> SUFFICES ASSUME n = Len(written) PROVE FALSE
    OBVIOUS
  <2>1. PICK t, z : t = Text[n] /\ z = buffer \o stream
    OBVIOUS
  <2>2. t \o z = t /\ t \in Seq(STRING) /\ z \in Seq(STRING)
    BY <1>1, <1>3, <2>1 DEF Behind
  <2>3. z = <<>>
    BY <2>2, ConcatEqualIffEmpty
  <2> QED BY <1>5, <2>1, <2>3
<1>7. n \in 0..(Len(written) - 1) /\ n + 1 \in 1..Len(written)
  BY <1>2, <1>6
<1>8. PICK r \in Seq(STRING) :
         /\ Text[Len(written)] = Text[n] \o (written[n + 1].text \o r)
         /\ Text[Len(written)] = Text[n + 1] \o r
  BY <1>1, <1>7, TextAhead, TextIs
<1>9. PICK line : line = written[n + 1].text
  OBVIOUS
<1>10. line \in Seq(STRING) /\ Ends(line)
  <2>1. n + 1 \in DOMAIN written
    BY <1>1, <1>7, WritingType
  <2>2. IsLine(written[n + 1])
    BY <1>1, <2>1, ParserAssumption
  <2> QED BY <1>9, <2>2 DEF IsLine, Ends
<1>11. buffer \o stream = line \o r
  <2>1. PICK t, z, y : t = Text[n] /\ z = buffer \o stream /\ y = line \o r
    OBVIOUS
  <2>2. t \in Seq(STRING) /\ z \in Seq(STRING)
    BY <1>1, <1>3, <2>1
  <2>3. y \in Seq(STRING)
    BY <1>10, <2>1
  <2>4. t \o z = t \o y
    BY <1>8, <1>9, <2>1 DEF Behind
  <2>5. z = y
    BY <2>2, <2>3, <2>4, ConcatSimplifications
  <2> QED BY <2>1, <2>5
<1>12. LineEnd = FirstIn(buffer)
  BY DEF LineEnd, FirstIn
<1>13. /\ SubSeq(buffer, 1, LineEnd - 1) = Front(line)
       /\ SubSeq(buffer, LineEnd + 1, Len(buffer)) \in Seq(STRING)
       /\ SubSeq(buffer, LineEnd + 1, Len(buffer)) \o stream = r
  <2>1. buffer \in Seq(STRING) /\ stream \in Seq(STRING)
    BY <1>1
  <2>2. /\ FirstIn(buffer) = Len(line)
        /\ SubSeq(buffer, 1, FirstIn(buffer) - 1) = Front(line)
        /\ SubSeq(buffer, FirstIn(buffer) + 1, Len(buffer)) \in Seq(STRING)
        /\ SubSeq(buffer, FirstIn(buffer) + 1, Len(buffer)) \o stream = r
    <3>1. PICK b, z : b = buffer /\ z = stream
      OBVIOUS
    <3>2. b \in Seq(STRING) /\ z \in Seq(STRING) /\ b \o z = line \o r /\ Newline \in ToSet(b)
      BY <1>4, <1>11, <2>1, <3>1
    <3>3. /\ FirstIn(b) = Len(line)
          /\ SubSeq(b, 1, FirstIn(b) - 1) = Front(line)
          /\ SubSeq(b, FirstIn(b) + 1, Len(b)) \in Seq(STRING)
          /\ SubSeq(b, FirstIn(b) + 1, Len(b)) \o z = r
      BY ONLY <1>10, <3>2, r \in Seq(STRING), Cut
    <3> QED BY <3>1, <3>3
  <2> QED BY <1>12, <2>2
<1> QED BY <1>7, <1>8, <1>9, <1>13 DEF FirstLine

\* The loop appends the records of the line that it cuts off.
LEMMA ParseKeeps == ASSUME MPInv, LinesParse, ParsesLine PROVE MPInv'
<1>1. /\ UNCHANGED <<written, stream, feeding, records, raised>> /\ feeding
      /\ buffer' = SubSeq(buffer, LineEnd + 1, Len(buffer))
      /\ found' = found \o RecordsIn(FirstLine) /\ HasLine /\ ~ParseRaises(FirstLine)
  BY DEF ParsesLine
<1>2. ~raised
  BY <1>1 DEF MPInv
<1>3. PICK n \in 0..Len(written) : records \o found = Expected[n] /\ Behind(n)
  BY <1>2 DEF MPInv
<1>4. /\ n + 1 \in 1..Len(written)
      /\ FirstLine = Stripped(Front(written[n + 1].text))
      /\ buffer' \in Seq(STRING)
      /\ Text[n + 1] \o (buffer' \o stream) = Text[Len(written)]
  BY <1>1, <1>3, NextLine
<1>5. /\ written \in Writings /\ Len(written) \in Nat
      /\ n + 1 \in 0..Len(written) /\ n \in 0..(Len(written) - 1)
  BY <1>4, WritingType DEF MPInv
<1>6. RecordsIn(FirstLine) = written[n + 1].records
  <2>1. n + 1 \in DOMAIN written
    BY <1>4, <1>5, WritingType
  <2> QED BY <1>1, <1>4, <1>5, <2>1 DEF LinesParse
<1>7. PICK q : q = written[n + 1].records
  OBVIOUS
<1>8. q \in Seq(KnownRecords(written)) /\ found' = found \o q
  BY <1>1, <1>4, <1>5, <1>6, <1>7, WritingType
<1>9. found \in Seq(KnownRecords(written)) /\ records \in Seq(KnownRecords(written))
  BY DEF MPInv
<1>10. Expected[n + 1] = Expected[n] \o q
  <2>1. /\ RecordsOf(written) \in Seq(Seq(KnownRecords(written)))
        /\ Len(RecordsOf(written)) = Len(written) /\ RecordsOf(written)[n + 1] = q
    BY <1>4, <1>5, <1>7, WritingType
  <2>2. n \in 0..(Len(RecordsOf(written)) - 1)
    BY <1>5, <2>1
  <2>3. Joined(RecordsOf(written))[n + 1] = Joined(RecordsOf(written))[n] \o RecordsOf(written)[n + 1]
    BY <2>1, <2>2, JoinedStep
  <2> QED BY <2>1, <2>3, TextIs
<1>11. records \o found' = Expected[n + 1]
  <2>1. (records \o found) \o q = records \o (found \o q)
    BY ONLY <1>8, <1>9, ConcatAssociative
  <2> QED BY <1>3, <1>8, <1>10, <2>1
<1>12. found' \in Seq(KnownRecords(written))
  BY <1>8, <1>9
<1>13. Text' = Text /\ Expected' = Expected
  BY <1>1 DEF Text, Expected, Joined
<1>14. (records \o found)' = Expected'[n + 1] /\ Behind(n + 1)'
  BY <1>1, <1>4, <1>11, <1>13 DEF Behind
<1> QED BY <1>1, <1>2, <1>4, <1>5, <1>9, <1>12, <1>14 DEF MPInv

\* An exception ends feed(): from then on nothing is said of the records.
LEMMA RaiseKeeps == ASSUME MPInv, LineRaises PROVE MPInv'
<1>1. ~raised /\ HasLine
  BY DEF MPInv, LineRaises
<1>2. PICK n \in 0..Len(written) : Behind(n)
  BY <1>1 DEF MPInv
<1>3. buffer' \in Seq(STRING)
  BY <1>1, <1>2, NextLine DEF LineRaises
<1>4. <<>> \in Seq(KnownRecords(written))
  OBVIOUS
<1> QED BY <1>3, <1>4 DEF MPInv, LineRaises

\* feed() returns what its call has found.
LEMMA ReturnKeeps == ASSUME MPInv, FeedReturns PROVE MPInv'
<1>1. /\ UNCHANGED <<written, stream, buffer, raised>> /\ ~HasLine /\ ~raised
      /\ records' = records \o found /\ found' = <<>> /\ feeding' = FALSE
  BY DEF MPInv, FeedReturns
<1>2. PICK n \in 0..Len(written) : records \o found = Expected[n] /\ Behind(n)
  BY <1>1 DEF MPInv
<1>3. records' \in Seq(KnownRecords(written)) /\ <<>> \in Seq(KnownRecords(written))
  BY <1>1 DEF MPInv
<1>4. records' \o found' = records'
  BY <1>1, <1>3, ConcatEmptySeq
<1>5. Text' = Text /\ Expected' = Expected /\ HasLine' = HasLine
  BY <1>1 DEF Text, Expected, Joined, HasLine
<1>6. (records \o found)' = Expected'[n] /\ Behind(n)'
  BY <1>1, <1>2, <1>4, <1>5 DEF Behind
<1> QED BY <1>1, <1>3, <1>5, <1>6 DEF MPInv

LEMMA MPInvStep == LinesParse /\ MPInv /\ [MPNext]_mpVars => MPInv'
<1> SUFFICES ASSUME LinesParse, MPInv, [MPNext]_mpVars PROVE MPInv'
  OBVIOUS
<1>1. ASSUME UNCHANGED mpVars PROVE MPInv'
  <2>1. Text' = Text /\ Expected' = Expected /\ HasLine' = HasLine
    BY <1>1 DEF Text, Expected, Joined, HasLine, mpVars
  <2>2. \A n : Behind(n)' = Behind(n)
    BY <1>1, <2>1 DEF Behind, mpVars
  <2>3. Expected = Expected' /\ UNCHANGED <<written, stream, buffer, feeding, found, records, raised>>
    BY <1>1, <2>1 DEF mpVars
  <2> QED BY <2>1, <2>2, <2>3 DEF MPInv
<1> QED BY <1>1, FeedKeeps, ParseKeeps, RaiseKeeps, ReturnKeeps DEF MPNext, Ended

\* However the text is cut into pieces, feed() returns the records of the lines in order, as
\* long as _parse_line finds each line's record: for lines of any length and number, any
\* grammar, and pieces of any size.
THEOREM RecordsAreOfLines ==
  ASSUME LinesParse
  PROVE  MPSpec => []RecordsOfLines
<1>1. MPInv => RecordsOfLines
  <2> SUFFICES ASSUME MPInv, ~feeding, ~raised
               PROVE  \E n \in 0..Len(written) :
                         records = Expected[n] /\ Behind(n) /\ ~HasLine
    BY DEF RecordsOfLines, Behind
  <2>1. PICK n \in 0..Len(written) : records \o found = Expected[n] /\ Behind(n)
    BY DEF MPInv
  <2>2. found = <<>> /\ records \in Seq(KnownRecords(written)) /\ ~HasLine
    BY DEF MPInv
  <2>3. records \o <<>> = records
    BY <2>2, ConcatEmptySeq
  <2> QED BY <2>1, <2>2, <2>3
<1> QED BY <1>1, MPInvInit, MPInvStep, PTL DEF MPSpec
=============================================================================
