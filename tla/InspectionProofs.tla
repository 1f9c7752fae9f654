-------------------------- MODULE InspectionProofs --------------------------
(***************************************************************************)
(* What raw_command returns and what fault_analyze reports                 *)
(* (Inspection.tla), for any number of clients, any choice of their tools, *)
(* any faults and any size of the console queue.                           *)
(***************************************************************************)
EXTENDS Inspection, WellFoundedInduction, TLAPS

\* The fields of a call.
Fields == {"tool", "at", "phase", "got", "disturbed", "wrote", "moved"}

\* A record of a call, with whatever values.
IsCall(m) == m = [f \in Fields |-> m[f]]

\* The variables are functions of the clients, a call has its fields, and the queue is a
\* sequence.
Shape ==
  /\ call = [c \in Clients |-> call[c]]
  /\ \A c \in Clients : IsCall(call[c])
  /\ \E S : console \in Seq(S)

\* Every line in the queue was printed while the raw commands ran that run now.
Fresh == \A c \in Clients : InRaw(c) => \A i \in DOMAIN console : c \in console[i].fresh

\* Only raw_command sleeps.
Sleeps == \A c \in Clients : call[c].phase = "sleeping" => StepOf(c).kind = "raw"

IInv == Shape /\ Fresh /\ Sleeps

\* Nothing that Fresh and Sleeps look at has changed in the call of c.
Same(c) ==
  call'[c].tool = call[c].tool /\ call'[c].at = call[c].at /\ call'[c].phase = call[c].phase

-----------------------------------------------------------------------------

\* The smaller of two numbers is one of them.
LEMMA MinOfTwo ==
  ASSUME NEW a \in Nat, NEW b \in Nat
  PROVE  Min({a, b}) \in Nat /\ Min({a, b}) <= b
<1>1. \E x \in {a, b} : \A y \in {a, b} : x <= y
  BY SMT
<1>2. Min({a, b}) \in {a, b} /\ \A y \in {a, b} : Min({a, b}) <= y
  BY <1>1 DEF Min
<1> QED BY <1>2

\* What the queue takes of new lines are lines of the queue and new lines.
LEMMA QueuedLines ==
  ASSUME NEW queue, \E S : queue \in Seq(S), NEW more, \E T : more \in Seq(T)
  PROVE  /\ \E U : Queued(queue, more) \in Seq(U)
         /\ \A i \in DOMAIN Queued(queue, more) :
               \/ \E j \in DOMAIN queue : Queued(queue, more)[i] = queue[j]
               \/ \E j \in DOMAIN more : Queued(queue, more)[i] = more[j]
<1> PICK S : queue \in Seq(S)
  OBVIOUS
<1> PICK T : more \in Seq(T)
  OBVIOUS
<1> DEFINE all == queue \o more
           n == Min({QueueSize, Len(queue) + Len(more)})
<1>1. /\ all \in Seq(S \cup T) /\ Len(all) = Len(queue) + Len(more) /\ Len(all) \in Nat
      /\ \A k \in 1..Len(all) :
            \/ k \in DOMAIN queue /\ all[k] = queue[k]
            \/ k - Len(queue) \in DOMAIN more /\ all[k] = more[k - Len(queue)]
  OBVIOUS
<1>2. n \in Nat /\ n <= Len(all)
  <2>1. QueueSize \in Nat
    BY InspectionAssumption
  <2> QED BY <1>1, <2>1, MinOfTwo
<1> HIDE DEF n, all
<1>3. SubSeq(all, 1, n) \in Seq(S \cup T) /\ Len(SubSeq(all, 1, n)) = n
      /\ \A i \in 1..n : SubSeq(all, 1, n)[i] = all[i]
  BY <1>1, <1>2
<1>4. Queued(queue, more) = SubSeq(all, 1, n)
  BY DEF Queued, all, n
<1>5. DOMAIN Queued(queue, more) = 1..n
  BY <1>2, <1>3, <1>4
<1>6. ASSUME NEW i \in 1..n
      PROVE  \/ \E j \in DOMAIN queue : all[i] = queue[j]
             \/ \E j \in DOMAIN more : all[i] = more[j]
  <2>1. i \in 1..Len(all)
    BY <1>1, <1>2
  <2> QED BY <1>1, <2>1
<1> QED
  BY <1>3, <1>4, <1>5, <1>6

-----------------------------------------------------------------------------

\* A call whose tool, step and phase stay is in its raw command as before.
LEMMA SameRaw ==
  ASSUME NEW c \in Clients, Same(c)
  PROVE  InRaw(c)' <=> InRaw(c)
BY DEF Same, InRaw, InCall, StepOf

\* A tool that comes to another step: if that is a raw command, the queue is empty now.
LEMMA GoesOnKeeps ==
  ASSUME IInv, NEW c \in Clients, NEW mine, IsCall(mine), NEW i, NEW queue \in {console, <<>>},
         GoesOn(c, mine, i, queue)
  PROVE  IInv'
<1> DEFINE script == Script[mine.tool]
           k == Suspends(script, {g.piece : g \in mine.got}, i)
           mine1 == [mine EXCEPT !.at = k, !.phase = "waiting"]
           mine2 == [mine1 EXCEPT !.wrote = 0,
                       !.disturbed = \E e \in Clients \ {c} : InConsole(e)]
<1>1. PICK S : console \in Seq(S)
  BY DEF IInv, Shape
<1>2. queue \in Seq(S) /\ <<>> \in Seq(S)
  <2>1. <<>> \in Seq(S)
    BY ONLY TRUE
  <2>2. queue \in {console, <<>>}
    OBVIOUS
  <2> QED BY ONLY <1>1, <2>1, <2>2
<1>3. CASE k \in DOMAIN script
  <2>1. /\ call' = Meeting(c, script[k].kind, mine1)
        /\ console' = IF script[k].kind = "raw" THEN <<>> ELSE queue
    BY <1>3 DEF GoesOn, Drained
  <2> HIDE DEF script, k
  <2>2. /\ IsCall(mine2) /\ mine2.tool = mine.tool /\ mine2.at = k /\ mine2.phase = "waiting"
    BY DEF IsCall, Fields
  <2>3. call'[c] = mine2
    BY <2>1, Zenon DEF Meeting
  <2>4. ASSUME NEW d \in Clients \ {c}
        PROVE  IsCall(call'[d]) /\ Same(d)
    <3>1. call'[d] = call[d] \/ call'[d] = [call[d] EXCEPT !.disturbed = TRUE]
      BY <2>1, Zenon DEF Meeting
    <3> QED BY <3>1 DEF IInv, Shape, IsCall, Fields, Same
  <2>5. call' = [d \in Clients |-> call'[d]]
    BY <2>1, Zenon DEF Meeting
  <2>6. Shape'
    BY <1>2, <2>1, <2>2, <2>3, <2>4, <2>5 DEF Shape
  <2>7. StepOf(c)' = script[k]
    BY <2>2, <2>3 DEF StepOf, script
  <2>8. Fresh'
    <3> SUFFICES ASSUME NEW d \in Clients, InRaw(d)', NEW j \in DOMAIN console'
                 PROVE  d \in console'[j].fresh
      BY DEF Fresh
    <3>1. script[k].kind # "raw" /\ console' = queue /\ queue = console
      BY <2>1
    <3>2. d # c
      BY <2>7, <3>1 DEF InRaw
    <3> QED BY <2>4, <3>1, <3>2, SameRaw DEF IInv, Fresh
  <2>9. Sleeps'
    <3> SUFFICES ASSUME NEW d \in Clients, call'[d].phase = "sleeping"
                 PROVE  StepOf(d)'.kind = "raw"
      BY DEF Sleeps
    <3>1. d # c
      BY <2>2, <2>3
    <3> QED BY <2>4, <3>1 DEF Same, StepOf, IInv, Sleeps
  <2> QED BY <2>6, <2>8, <2>9 DEF IInv
<1>4. CASE k \notin DOMAIN script
  <2>1. PICK how \in {"failed", "ended"} : call' = [call EXCEPT ![c] = Over(mine, how)]
    BY <1>4 DEF GoesOn
  <2>2. console' = queue
    BY <1>4 DEF GoesOn
  <2>3. IsCall(Over(mine, how)) /\ Over(mine, how).phase = how
    BY DEF Over, NewCall, IsCall, Fields
  <2>4. call'[c].phase = how /\ IsCall(call'[c])
    BY <2>1, <2>3 DEF IInv, Shape
  <2>5. \A d \in Clients \ {c} : call'[d] = call[d]
    BY <2>1 DEF IInv, Shape
  <2>6. Shape'
    BY <1>2, <2>1, <2>2, <2>4, <2>5 DEF IInv, Shape
  <2>7. ~InRaw(c)'
    BY <2>4 DEF InRaw, InCall
  <2>8. Fresh'
    BY <2>2, <2>5, <2>7, SameRaw DEF Fresh, IInv, Same
  <2>9. Sleeps'
    BY <2>4, <2>5 DEF Sleeps, IInv, StepOf
  <2> QED BY <2>6, <2>8, <2>9 DEF IInv
<1> QED BY <1>3, <1>4

\* A tool that is told of an error ends or goes on.
LEMMA CatchesKeeps ==
  ASSUME IInv, NEW c \in Clients, NEW error, Catches(c, error)
  PROVE  IInv'
<1>1. CASE error \in StepOf(c).catch
  BY <1>1, GoesOnKeeps DEF Catches, IInv, Shape
<1>2. CASE error \notin StepOf(c).catch
  <2>1. call' = [call EXCEPT ![c] = Over(call[c], "failed")] /\ console' = console
    BY <1>2 DEF Catches
  <2>2. IsCall(Over(call[c], "failed")) /\ Over(call[c], "failed").phase = "failed"
    BY DEF Over, NewCall, IsCall, Fields
  <2>3. call'[c].phase = "failed" /\ IsCall(call'[c])
    BY <2>1, <2>2 DEF IInv, Shape
  <2>4. \A d \in Clients \ {c} : call'[d] = call[d]
    BY <2>1 DEF IInv, Shape
  <2>5. Shape'
    BY <2>1, <2>3, <2>4 DEF IInv, Shape
  <2>6. ~InRaw(c)'
    BY <2>3 DEF InRaw, InCall
  <2>7. Fresh'
    BY <2>1, <2>4, <2>6, SameRaw DEF Fresh, IInv, Same
  <2>8. Sleeps'
    BY <2>3, <2>4 DEF Sleeps, IInv, StepOf
  <2> QED BY <2>5, <2>7, <2>8 DEF IInv
<1> QED BY <1>1, <1>2

\* Lines that are printed while every call stays where it is.
LEMMA PrintKeeps ==
  ASSUME IInv, NEW T, NEW more \in Seq(T),
         \A j \in DOMAIN more : more[j].fresh = {c \in Clients : InRaw(c)},
         console' \in {console, <<>>, Queued(console, more)},
         call' = [c \in Clients |-> call'[c]],
         \A c \in Clients : IsCall(call'[c]) /\ Same(c)
  PROVE  IInv'
<1>1. PICK S : console \in Seq(S)
  BY DEF IInv, Shape
<1>2. /\ \E U : Queued(console, more) \in Seq(U)
      /\ \A i \in DOMAIN Queued(console, more) :
            \/ \E j \in DOMAIN console : Queued(console, more)[i] = console[j]
            \/ \E j \in DOMAIN more : Queued(console, more)[i] = more[j]
  <2>1. (\E U : console \in Seq(U)) /\ \E U : more \in Seq(U)
    BY <1>1
  <2> QED BY ONLY <2>1, QueuedLines
<1>3. \E U : console' \in Seq(U)
  <2>1. <<>> \in Seq(S)
    OBVIOUS
  <2> QED BY <1>1, <1>2, <2>1
<1>4. Shape'
  BY <1>3 DEF Shape
<1>5. Fresh'
  <2> SUFFICES ASSUME NEW d \in Clients, InRaw(d)', NEW i \in DOMAIN console'
               PROVE  d \in console'[i].fresh
    BY DEF Fresh
  <2>1. InRaw(d)
    BY SameRaw
  <2>2. \A j \in DOMAIN console : d \in console[j].fresh
    BY <2>1 DEF IInv, Fresh
  <2>3. \A j \in DOMAIN more : d \in more[j].fresh
    BY <2>1
  <2>4. CASE console' = console
    BY <2>2, <2>4
  <2>5. CASE console' = <<>>
    BY <2>5
  <2>6. CASE console' = Queued(console, more)
    BY <1>2, <2>2, <2>3, <2>6
  <2> QED BY <2>4, <2>5, <2>6
<1>6. Sleeps'
  BY DEF Sleeps, IInv, Same, StepOf
<1> QED BY <1>4, <1>5, <1>6 DEF IInv

\* The answer to a command is there.
LEMMA ReturnsKeeps ==
  ASSUME IInv, NEW c \in Clients, Returns(c)
  PROVE  IInv'
<1> DEFINE s == StepOf(c)
           mine(got) == [call[c] EXCEPT !.got = @ \cup got]
<1>1. ASSUME NEW error, Catches(c, error)
      PROVE  IInv'
  BY <1>1, CatchesKeeps
<1>2. ASSUME NEW got, NEW i, GoesOn(c, mine(got), i, console)
      PROVE  IInv'
  <2>1. IsCall(mine(got))
    BY DEF IInv, Shape, IsCall, Fields
  <2> QED BY <1>2, <2>1, GoesOnKeeps
<1>3. CASE /\ s.kind = "raw" /\ call' = [call EXCEPT ![c].phase = "sleeping"]
           /\ UNCHANGED console
  <2>1. call[c].phase = "waiting"
    BY DEF Returns
  <2>2. /\ IsCall(call'[c]) /\ call'[c].phase = "sleeping"
        /\ call'[c].tool = call[c].tool /\ call'[c].at = call[c].at
    BY <1>3 DEF IInv, Shape, IsCall, Fields
  <2>3. \A d \in Clients \ {c} : call'[d] = call[d]
    BY <1>3 DEF IInv, Shape
  <2>4. Shape'
    BY <1>3, <2>2, <2>3 DEF IInv, Shape
  <2>5. \A d \in Clients : InRaw(d)' => InRaw(d)
    BY <2>1, <2>2, <2>3 DEF InRaw, InCall, StepOf
  <2>6. Fresh'
    BY <1>3, <2>5 DEF Fresh, IInv
  <2>7. Sleeps'
    BY <1>3, <2>2, <2>3 DEF Sleeps, IInv, StepOf
  <2> QED BY <2>4, <2>6, <2>7 DEF IInv
<1> QED
  BY <1>1, <1>2, <1>3 DEF Returns

\* raw_command takes what is in the queue.
LEMMA CollectsKeeps ==
  ASSUME IInv, NEW c \in Clients, Collects(c)
  PROVE  IInv'
BY GoesOnKeeps, CatchesKeeps DEF Collects, IInv, Shape

\* The steps of GDB, of the target and of the session keep every call where it is.
LEMMA OthersKeep ==
  ASSUME IInv, \/ UNCHANGED <<call, console>> \/ ExecutesConsole
               \/ Resumes \/ Halts \/ Disconnects
  PROVE  IInv'
<1>1. call = [c \in Clients |-> call[c]] /\ \A c \in Clients : IsCall(call[c])
  BY DEF IInv, Shape
<1>2. ASSUME UNCHANGED call
      PROVE  /\ call' = [c \in Clients |-> call'[c]]
             /\ \A c \in Clients : IsCall(call'[c]) /\ Same(c)
  BY <1>1, <1>2 DEF Same
<1>3. ASSUME /\ console' \in {console, <<>>}
             /\ call' = [c \in Clients |-> call'[c]]
             /\ \A c \in Clients : IsCall(call'[c]) /\ Same(c)
      PROVE  IInv'
  <2>1. <<>> \in Seq({}) /\ \A j \in DOMAIN <<>> : <<>>[j].fresh = {c \in Clients : InRaw(c)}
    OBVIOUS
  <2>2. console' \in {console, <<>>, Queued(console, <<>>)}
    BY <1>3
  <2> QED BY ONLY IInv, <1>3, <2>1, <2>2, PrintKeeps
<1>4. CASE UNCHANGED <<call, console>>
  BY <1>2, <1>3, <1>4
<1>5. CASE Disconnects
  BY <1>2, <1>3, <1>5 DEF Disconnects
<1>6. CASE Resumes
  <2>1. /\ call' = [c \in Clients |-> [call[c] EXCEPT !.moved = InCall(c)]]
        /\ console' = console
    BY <1>6 DEF Resumes
  <2>2. \A c \in Clients : IsCall(call'[c]) /\ Same(c)
    BY <1>1, <2>1 DEF IsCall, Fields, Same
  <2>3. call' = [c \in Clients |-> call'[c]]
    BY <2>1
  <2> QED BY <1>3, <2>1, <2>2, <2>3
<1>7. CASE Halts
  <2>1. /\ call' = [c \in Clients |-> [call[c] EXCEPT !.moved = InCall(c), !.disturbed = @ \/ InRaw(c)]]
        /\ console' \in {console, Queued(console, <<Line("target")>>)}
    BY <1>7, Zenon DEF Halts
  <2>2. \A c \in Clients : IsCall(call'[c]) /\ Same(c)
    BY <1>1, <2>1, Zenon DEF IsCall, Fields, Same
  <2>3. Line("target").fresh = {c \in Clients : InRaw(c)}
    BY DEF Line
  <2> DEFINE more == <<Line("target")>>
  <2>4. more \in Seq({Line("target")}) /\ \A j \in DOMAIN more : more[j] = Line("target")
    OBVIOUS
  <2>5. call' = [c \in Clients |-> call'[c]]
    BY <2>1, Zenon
  <2>6. console' \in {console, <<>>, Queued(console, more)}
    BY <2>1, Zenon
  <2> HIDE DEF more
  <2> QED BY ONLY IInv, <2>2, <2>3, <2>4, <2>5, <2>6, PrintKeeps
<1>8. CASE ExecutesConsole
  <2> DEFINE q == Head(pipe)
             l == Line(q.client)
  <2>1. PICK n \in Lines :
          /\ console' = Queued(console, [i \in 1..n |-> l])
          /\ call' = IF q.client = Nobody THEN call ELSE [call EXCEPT ![q.client].wrote = n]
    BY <1>8 DEF ExecutesConsole
  <2>2. l.fresh = {c \in Clients : InRaw(c)}
    BY DEF Line
  <2>3. [i \in 1..n |-> l] \in Seq({l})
    <3>1. n \in Nat
      BY InspectionAssumption
    <3> HIDE DEF l
    <3> QED BY <3>1
  <2> HIDE DEF l
  <2>4. \A c \in Clients : call'[c] = call[c] \/ call'[c] = [call[c] EXCEPT !.wrote = n]
    BY <1>1, <2>1
  <2>5. \A c \in Clients : IsCall(call'[c]) /\ Same(c)
    BY <1>1, <2>4 DEF IsCall, Fields, Same
  <2>6. call' = [c \in Clients |-> call'[c]]
    BY <1>1, <2>1
  <2> QED BY <2>1, <2>2, <2>3, <2>5, <2>6, PrintKeeps
<1> QED BY <1>4, <1>5, <1>6, <1>7, <1>8

\* The invariant holds initially: nothing is called and nothing was printed.
LEMMA InitIInv == Init => IInv
<1> SUFFICES ASSUME Init PROVE IInv
  OBVIOUS
<1>1. call = [c \in Clients |-> [NewCall(Idle) EXCEPT !.phase = Idle]] /\ console = <<>>
  BY DEF Init
<1>2. \A c \in Clients : IsCall(call[c]) /\ call[c].phase = "idle"
  BY <1>1 DEF NewCall, Idle, IsCall, Fields
<1>3. <<>> \in Seq({})
  OBVIOUS
<1> QED BY <1>1, <1>2, <1>3 DEF IInv, Shape, Fresh, Sleeps, InRaw, InCall

\* The invariant is inductive.
LEMMA StepIInv == IInv /\ [Next]_vars => IInv'
<1> SUFFICES ASSUME IInv, [Next]_vars PROVE IInv'
  OBVIOUS
<1>1. ASSUME NEW c \in Clients, NEW tool, Begins(c, tool)
      PROVE  IInv'
  <2>1. IsCall(NewCall(tool))
    BY DEF NewCall, IsCall, Fields
  <2> QED BY <1>1, <2>1, GoesOnKeeps DEF Begins
<1>2. ASSUME NEW c \in Clients, GivesUp(c)
      PROVE  UNCHANGED <<call, console>>
  BY <1>2 DEF GivesUp
<1>3. ASSUME ExecutesAsk
      PROVE  UNCHANGED <<call, console>>
  BY <1>3 DEF ExecutesAsk
<1>4. ASSUME UNCHANGED vars
      PROVE  UNCHANGED <<call, console>>
  BY <1>4 DEF vars
<1> QED
  BY <1>1, <1>2, <1>3, <1>4, ReturnsKeeps, CollectsKeeps, OthersKeep DEF Next, Finished

-----------------------------------------------------------------------------

\* raw_command never returns a line that was printed before it was called, by whatever command
\* or stop, whatever the other clients call and whatever happens to the session meanwhile.
THEOREM RawOutputIsFresh == Spec => NothingStale
<1>1. Init => IInv
  BY InitIInv
<1>2. IInv /\ [Next]_vars => IInv'
  BY StepIInv
<1>3. IInv => \A c \in Clients : Collected(c) => \A i \in DOMAIN Output : c \in Output[i].fresh
  <2> SUFFICES ASSUME IInv, NEW c \in Clients, Collected(c)
               PROVE  \A i \in DOMAIN Output : c \in Output[i].fresh
    OBVIOUS
  <2>1. InRaw(c)
    BY DEF Collected, IInv, Sleeps, InRaw, InCall
  <2> QED BY <2>1 DEF IInv, Fresh, Output
<1> QED BY <1>1, <1>2, <1>3, PTL DEF Spec, NothingStale

-----------------------------------------------------------------------------
(* Numbers and sequences. *)

\* A set of numbers that has 0 and, with each number, the next one, has all: what induction
\* amounts to for a set.
LEMMA InductiveSet ==
  ASSUME NEW S \in SUBSET Nat, 0 \in S, \A n \in S : n + 1 \in S
  PROVE  S = Nat
<1> DEFINE R == {ss \in Nat \X Nat : ss[1] < ss[2]}
           T == Nat \ S
<1>1. IsWellFoundedOn(R, Nat)
  BY NatLessThanWellFounded DEF OpToRel
<1> SUFFICES ASSUME T # {} PROVE FALSE
  OBVIOUS
<1>2. T \subseteq Nat
  OBVIOUS
<1> HIDE DEF T, R
<1>3. PICK x \in T : \A y \in T : ~(<<y, x>> \in R)
  BY <1>1, <1>2, WFMin
<1>4. x - 1 \in Nat /\ x - 1 + 1 = x /\ x - 1 < x /\ x \in Nat
  BY DEF T
<1>5. x - 1 \in T
  BY <1>4 DEF T
<1>6. <<x - 1, x>> \in R
  BY <1>4 DEF R
<1> QED BY <1>3, <1>5, <1>6

\* A set of numbers has a least one.
LEMMA MinOfSome ==
  ASSUME NEW S \in SUBSET Nat, S # {}
  PROVE  Min(S) \in S /\ \A y \in S : Min(S) <= y
<1> DEFINE L == {n \in Nat : \A k \in 0..n : k \notin S}
<1>1. \E x \in S : \A y \in S : x <= y
  <2> SUFFICES ASSUME \A x \in S : \E y \in S : y < x PROVE FALSE
    OBVIOUS
  <2>1. 0 \in L
    OBVIOUS
  <2>2. ASSUME NEW n \in L PROVE n + 1 \in L
    OBVIOUS
  <2>3. L \in SUBSET Nat
    OBVIOUS
  <2> HIDE DEF L
  <2>4. L = Nat
    BY <2>1, <2>2, <2>3, InductiveSet
  <2>5. \A n \in Nat : n \notin S
    BY <2>4 DEF L
  <2> QED BY <2>5
<1> QED BY <1>1 DEF Min

\* Two sequences put together.
LEMMA Joined ==
  ASSUME NEW A, NEW B, NEW s \in Seq(A), NEW t \in Seq(B)
  PROVE  /\ s \o t \in Seq(A \cup B) /\ Len(s \o t) = Len(s) + Len(t)
         /\ \A i \in 1..Len(s) : (s \o t)[i] = s[i]
         /\ \A i \in 1..Len(t) : (s \o t)[Len(s) + i] = t[i]
OBVIOUS

-----------------------------------------------------------------------------
(* The script of fault_analyze never fails. *)

\* Every step of the script catches every error, and no step leads further than to its end.
CatchesEverything(script) ==
  /\ DOMAIN script = 1..10 /\ Len(script) = 10
  /\ \A k \in 1..10 :
        /\ script[k].catch = AllErrors
        /\ script[k].full = 1 /\ script[k].empty = 1
        /\ script[k].bad \in 1..3 /\ k + script[k].bad <= 11

\* The steps of fault_analyze do.
LEMMA FaultSteps == CatchesEverything(FaultScript)
<1> DEFINE reads == [i \in DOMAIN FaultRegs |-> FaultRead(FaultRegs[i])]
           names == [CatchAll(Names) EXCEPT !.bad = 3]
           values == [CatchAll(RegValues) EXCEPT !.bad = 2]
           frame == CatchAll([Memory("frame") EXCEPT !.unpack = TRUE, !.needs = {"names", "values"}])
           rest == <<CatchAll(Frames), names, values, frame>>
           Like(s, n) == s.catch = AllErrors /\ s.full = 1 /\ s.empty = 1 /\ s.bad = n
<1>1. DOMAIN FaultRegs = 1..6
  BY DEF FaultRegs
<1>2. ASSUME NEW r PROVE Like(FaultRead(r), 1)
  BY DEF FaultRead, CatchAll, Memory, Step
<1>3. Like(CatchAll(Frames), 1)
  BY DEF CatchAll, Frames, Step
<1>4. Like(names, 3)
  BY DEF CatchAll, Names, Step
<1>5. Like(values, 2)
  BY DEF CatchAll, RegValues, Step
<1>6. Like(frame, 1)
  BY DEF CatchAll, Memory, Step
<1> HIDE DEF names, values, frame
<1>7. PICK f : f = CatchAll(Frames)
  OBVIOUS
<1>8. rest = <<f, names, values, frame>>
  BY <1>7
<1>9. /\ rest \in Seq({f, names, values, frame}) /\ Len(rest) = 4
      /\ rest[1] = f /\ rest[2] = names /\ rest[3] = values /\ rest[4] = frame
  BY <1>8
<1>10. reads \in Seq({FaultRead(FaultRegs[i]) : i \in 1..6}) /\ Len(reads) = 6
  BY <1>1
<1>11. \A i \in 1..6 : Like(reads[i], 1)
  BY <1>1, <1>2
<1>12. FaultScript = reads \o rest
  BY DEF FaultScript, names, values, frame
<1> HIDE DEF reads, rest
<1>13. /\ DOMAIN FaultScript = 1..10 /\ Len(FaultScript) = 10
       /\ \A i \in 1..6 : FaultScript[i] = reads[i]
       /\ \A i \in 7..10 : FaultScript[i] = rest[i - 6]
  <2>1. PICK A : reads \in Seq(A)
    BY <1>10
  <2>2. PICK B : rest \in Seq(B)
    BY <1>9
  <2>3. Len(reads) = 6 /\ Len(rest) = 4
    BY <1>9, <1>10
  <2>4. /\ reads \o rest \in Seq(A \cup B) /\ Len(reads \o rest) = Len(reads) + Len(rest)
        /\ \A k \in 1..Len(reads) : (reads \o rest)[k] = reads[k]
        /\ \A k \in 1..Len(rest) : (reads \o rest)[Len(reads) + k] = rest[k]
    BY <2>1, <2>2, Joined
  <2>5. PICK all : all = reads \o rest
    OBVIOUS
  <2>6. /\ \A k \in 1..6 : all[k] = reads[k]
        /\ \A k \in 1..4 : all[6 + k] = rest[k]
    BY ONLY <2>3, <2>4, <2>5
  <2>7. all \in Seq(A \cup B) /\ Len(all) = 10
    BY ONLY <2>3, <2>4, <2>5
  <2>8. \A k \in 7..10 : k - 6 \in 1..4 /\ 6 + (k - 6) = k
    OBVIOUS
  <2>9. \A k \in 7..10 : all[k] = rest[k - 6]
    BY <2>8, <2>6
  <2>10. DOMAIN all = 1..10
    BY <2>7
  <2> QED BY <1>12, <2>5, <2>9, <2>10, <2>6, <2>7
<1>14. \A i \in 1..6 : Like(FaultScript[i], 1)
  BY <1>11, <1>13
<1>15. /\ Like(FaultScript[7], 1) /\ Like(FaultScript[8], 3)
       /\ Like(FaultScript[9], 2) /\ Like(FaultScript[10], 1)
  BY <1>3, <1>4, <1>5, <1>6, <1>7, <1>9, <1>13
<1>16. \A i \in 1..10 : i \in 1..6 \/ i = 7 \/ i = 8 \/ i = 9 \/ i = 10
  OBVIOUS
<1> QED BY <1>13, <1>14, <1>15, <1>16 DEF CatchesEverything

\* A script like that never fails between two steps.
LEMMA NeverFails ==
  ASSUME NEW script, CatchesEverything(script), NEW have, NEW i \in 1..11
  PROVE  Suspends(script, have, i) # 0
<1> DEFINE end == Len(script) + 1
           Value(f, k) ==
             IF k >= end THEN end
             ELSE IF ~(script[k].needs \subseteq have) THEN f[k + 1]
             ELSE IF ~Refused(script[k]) THEN k
             ELSE IF "refused" \in script[k].catch THEN f[k + script[k].bad]
             ELSE 0
           Solves(f) == f = [k \in 1..(end + 3) |-> Value(f, k)]
           Partly(f, n) == /\ f = [k \in 1..14 |-> f[k]]
                           /\ \A k \in 1..14 : k > 14 - n => f[k] = Value(f, k)
           S == {n \in Nat : \E f : Partly(f, n)}
<1> DEFINE to == CHOOSE f : Solves(f)
<1>1. Suspends(script, have, i) = to[i]
  BY DEF Suspends
<1> HIDE DEF to
<1>2. end = 11 /\ end + 3 = 14
  BY DEF CatchesEverything
<1> HIDE DEF end
<1>3. \A k \in 1..14 : k < 11 => /\ script[k].bad \in 1..3 /\ k + script[k].bad \in 1..11
                                 /\ "refused" \in script[k].catch
  BY DEF CatchesEverything, AllErrors
<1>4. 0 \in S
  <2>1. Partly([k \in 1..14 |-> 0], 0)
    OBVIOUS
  <2> QED BY <2>1
<1>5. ASSUME NEW n \in S PROVE n + 1 \in S
  <2>1. PICK f : Partly(f, n)
    OBVIOUS
  <2> DEFINE v == Value(f, 14 - n)
             g == [k \in 1..14 |-> IF k = 14 - n THEN v ELSE f[k]]
  <2>2. \A k \in 1..14 : g[k] = IF k = 14 - n THEN v ELSE f[k]
    OBVIOUS
  <2>3. g = [k \in 1..14 |-> g[k]]
    OBVIOUS
  <2> HIDE DEF g
  <2>4. ASSUME NEW k \in 1..14, k > 14 - (n + 1)
        PROVE  g[k] = Value(g, k)
    <3>1. Value(g, k) = Value(f, k)
      <4>1. CASE k >= 11
        BY <1>2, <4>1
      <4>2. CASE k < 11
        <5>1. k + 1 \in 1..14 /\ k + 1 # 14 - n
          BY <2>4, <4>2
        <5>2. k + script[k].bad \in 1..14 /\ k + script[k].bad # 14 - n
          BY <1>3, <2>4, <4>2
        <5>3. g[k + 1] = f[k + 1] /\ g[k + script[k].bad] = f[k + script[k].bad]
          BY <2>2, <5>1, <5>2
        <5> QED BY <5>3
      <4> QED BY <4>1, <4>2
    <3>2. g[k] = Value(f, k)
      <4>1. CASE k = 14 - n
        BY <2>2, <4>1
      <4>2. CASE k # 14 - n
        <5>1. k > 14 - n
          BY <2>4, <4>2
        <5> QED BY <2>1, <2>2, <4>2, <5>1, Zenon
      <4> QED BY <4>1, <4>2
    <3> QED BY <3>1, <3>2
  <2> QED BY <2>3, <2>4
<1>6. S = Nat
  <2>1. S \in SUBSET Nat
    OBVIOUS
  <2> HIDE DEF S
  <2> QED BY <1>4, <1>5, <2>1, InductiveSet
<1>7. \E f : Solves(f)
  <2>1. PICK f : Partly(f, 14)
    BY <1>6
  <2>2. \A k \in 1..14 : f[k] = Value(f, k)
    BY <2>1
  <2> HIDE DEF Value
  <2>3. f = [k \in 1..(end + 3) |-> Value(f, k)]
    BY <1>2, <2>1, <2>2
  <2> QED BY <2>3
<1>8. Solves(to)
  BY <1>7, Zenon DEF to
<1> DEFINE N == {n \in Nat : \A k \in 1..14 : k > 14 - n => to[k] # 0}
<1>9. \A k \in 1..14 : to[k] = Value(to, k)
  BY <1>8, <1>2
<1>10. 0 \in N
  OBVIOUS
<1>11. ASSUME NEW n \in N PROVE n + 1 \in N
  <2> SUFFICES ASSUME NEW k \in 1..14, k > 14 - (n + 1) PROVE to[k] # 0
    OBVIOUS
  <2>1. CASE k >= 11
    BY <1>9, <1>2, <2>1
  <2>2. CASE k < 11
    <3>1. k + 1 \in 1..14 /\ k + 1 > 14 - n
      BY <2>2
    <3>2. k + script[k].bad \in 1..14 /\ k + script[k].bad > 14 - n
      BY <1>3, <2>2
    <3>3. to[k + 1] # 0 /\ to[k + script[k].bad] # 0
      BY <1>11, <3>1, <3>2
    <3>4. "refused" \in script[k].catch
      BY <1>3, <2>2
    <3>5. to[k] \in {k, to[k + 1], to[k + script[k].bad]}
      BY <1>9, <1>2, <2>2, <3>4
    <3> QED BY <3>3, <3>5
  <2> QED BY <2>1, <2>2
<1>12. N = Nat
  <2>1. N \in SUBSET Nat
    OBVIOUS
  <2> HIDE DEF N
  <2> QED BY <1>10, <1>11, <2>1, InductiveSet
<1>13. 14 \in N
  BY <1>12
<1> QED BY <1>1, <1>13

-----------------------------------------------------------------------------
(* The invariant. *)

\* A command whose sender waits is the one of the step that its sender is at.
Sent(q) ==
  /\ q.client \in Clients
  /\ call[q.client].phase = "waiting" /\ reply[q.client] = Nothing
  /\ q.cmd = StepOf(q.client).kind
  /\ q.piece = StepOf(q.client).piece /\ q.form = StepOf(q.client).form

\* What a client may have been told.
Told == {"done", "error", "timeout", "closed"}

\* Of each client at most one command is on its way, and while it is there the client has
\* no answer; until a command has timed out, every command on its way has a sender.
Linked ==
  /\ \E S : pipe \in Seq(S)
  /\ reply = [c \in Clients |-> reply[c]]
  /\ \A i \in DOMAIN pipe : /\ "client" \in DOMAIN pipe[i]
                            /\ pipe[i].client # Nobody => Sent(pipe[i])
                            /\ timeouts = 0 => pipe[i].client # Nobody
  /\ \A i, j \in DOMAIN pipe : i # j /\ pipe[i].client # Nobody => pipe[j].client # pipe[i].client
  /\ \A c \in Clients : reply[c] # Nothing => call[c].phase = "waiting" /\ reply[c].kind \in Told

\* Every variable keeps to its values, and who was never called is in no call.
Types ==
  /\ timeouts \in 0..MaxTimeouts /\ runs \in 0..MaxRuns
  /\ connected \in BOOLEAN /\ running \in BOOLEAN
  /\ status \in {StatusOf(f) : f \in Faults}
  /\ Len(console) <= QueueSize
  /\ calls \in [Clients -> 0..MaxCalls]
  /\ \A c \in Clients : IF calls[c] = 0 THEN call[c].phase = Idle /\ call[c].tool = Idle
       ELSE /\ call[c].tool \in ToolsOf[c]
            /\ call[c].phase \in {"waiting", "sleeping", "ended", "failed"}
            /\ InCall(c) => call[c].at \in DOMAIN Script[call[c].tool]

\* While c runs a raw command that nothing has disturbed, no other console command runs, the
\* queue holds what its command has printed, and nothing before GDB has executed it.
Alone(c) ==
  /\ \A d \in Clients \ {c} : ~InConsole(d)
  /\ \A i \in DOMAIN console : console[i].by = c
  /\ Len(console) = Min({call[c].wrote, QueueSize})
  /\ (\E i \in DOMAIN pipe : pipe[i].client = c) => console = <<>>

Own == timeouts = 0 /\ connected => \A c \in Clients : InRaw(c) /\ ~call[c].disturbed => Alone(c)

\* What c has been given, and the answer it has not seen yet, say what the target holds.
Right(c) ==
  /\ \A g \in call[c].got : g.bits = Content(g.piece)
  /\ "form" \in DOMAIN reply[c] => reply[c].bits = Content(StepOf(c).piece)

Got == timeouts = 0 => \A c \in Clients : InCall(c) /\ ~call[c].moved => Right(c)

FullInv == IInv /\ Linked /\ Types /\ Own /\ Got /\ AlwaysReports

-----------------------------------------------------------------------------
(* The steps of GDB and of the target, as far as commands and answers go. *)

\* A call whose tool, step and phase stay is where it was.
LEMMA SameStep ==
  ASSUME NEW c \in Clients, Same(c)
  PROVE  /\ StepOf(c)' = StepOf(c)
         /\ InCall(c)' <=> InCall(c)
         /\ InRaw(c)' <=> InRaw(c)
         /\ InConsole(c)' <=> InConsole(c)
BY DEF Same, InRaw, InConsole, InCall, StepOf

\* While every call stays at its step: each command with a sender was there before, and who
\* is told something has no command on its way any more.
LEMMA LinkKeeps ==
  ASSUME Linked, NEW m,
         \E S : pipe' \in Seq(S),
         reply' = [c \in Clients |-> reply'[c]],
         \A j \in DOMAIN pipe' : /\ "client" \in DOMAIN pipe'[j]
                                 /\ pipe'[j].client # Nobody =>
                                       m[j] \in DOMAIN pipe /\ pipe'[j] = pipe[m[j]]
                                 /\ timeouts' = 0 => pipe'[j].client # Nobody,
         \A j, k \in DOMAIN pipe' : j # k => m[j] # m[k],
         \A c \in Clients : Same(c),
         \A c \in Clients : \/ reply'[c] = reply[c]
                            \/ /\ call[c].phase = "waiting" /\ reply'[c].kind \in Told
                               /\ \A j \in DOMAIN pipe' : pipe'[j].client # c
  PROVE  Linked'
<1>1. ASSUME NEW j \in DOMAIN pipe', pipe'[j].client # Nobody, NEW q, q = pipe'[j]
      PROVE  Sent(q)'
  <2>1. m[j] \in DOMAIN pipe /\ q = pipe[m[j]]
    BY <1>1
  <2>2. Sent(q)
    BY <1>1, <2>1 DEF Linked
  <2>3. Same(q.client) /\ q.client \in Clients
    BY <2>2 DEF Sent
  <2>4. reply'[q.client] = Nothing
    BY <1>1, <2>2, <2>3 DEF Sent
  <2>5. StepOf(q.client)' = StepOf(q.client)
    BY <2>3 DEF Same, StepOf
  <2> QED BY <2>2, <2>3, <2>4, <2>5 DEF Sent, Same
<1>2. ASSUME NEW i \in DOMAIN pipe', NEW j \in DOMAIN pipe', i # j, pipe'[i].client # Nobody
      PROVE  pipe'[j].client # pipe'[i].client
  <2>1. CASE pipe'[j].client = Nobody
    BY <1>2, <2>1
  <2>2. CASE pipe'[j].client # Nobody
    BY <1>2, <2>2 DEF Linked
  <2> QED BY <2>1, <2>2
<1>3. ASSUME NEW c \in Clients, reply'[c] # Nothing
      PROVE  call'[c].phase = "waiting" /\ reply'[c].kind \in Told
  BY <1>3 DEF Linked, Same
<1>4. ASSUME NEW j \in DOMAIN pipe', pipe'[j].client # Nobody
      PROVE  Sent(pipe[j])'
  <2>1. PICK q : q = pipe'[j]
    OBVIOUS
  <2>2. Sent(q)'
    BY <1>1, <1>4, <2>1
  <2> QED BY <2>1, <2>2 DEF Sent
<1> QED BY <1>2, <1>3, <1>4 DEF Linked

\* The oldest command is answered, and d is given the answer.
Answered(d, answer) ==
  /\ d \in Clients \cup {Nobody}
  /\ reply' = IF d = Nobody THEN reply ELSE [reply EXCEPT ![d] = answer]
  /\ d # Nobody => \E i \in DOMAIN pipe : pipe[i].client = d
  /\ \E S : pipe' \in Seq(S)
  /\ \A j \in DOMAIN pipe' : /\ j + 1 \in DOMAIN pipe
                             /\ "client" \in DOMAIN pipe'[j]
                             /\ pipe'[j].client # Nobody => pipe'[j] = pipe[j + 1] /\ pipe[j + 1].client # d
                             /\ timeouts = 0 => pipe'[j].client # Nobody
  /\ timeouts = 0 => d = Head(pipe).client

\* An answer is given to one client or to nobody.
LEMMA AnswersDo ==
  ASSUME Linked, pipe # <<>>, NEW answer, Answers(answer)
  PROVE  \E d : Answered(d, answer)
<1>1. PICK S : pipe \in Seq(S)
  BY DEF Linked
<1>2. Len(pipe) \in Nat /\ Len(pipe) >= 1 /\ DOMAIN pipe = 1..Len(pipe) /\ Head(pipe) = pipe[1]
  BY <1>1
<1>3. CASE Waiting = {}
  <2>1. pipe' = Tail(pipe) /\ reply' = reply
    BY <1>3 DEF Answers
  <2>2. pipe' \in Seq(S) /\ \A j \in DOMAIN pipe' : j + 1 \in DOMAIN pipe /\ pipe'[j] = pipe[j + 1]
    BY <1>1, <1>2, <2>1
  <2>3. \A i \in DOMAIN pipe : pipe[i].client = Nobody /\ "client" \in DOMAIN pipe[i]
    BY <1>3 DEF Waiting, Linked
  <2>4. timeouts # 0
    BY <1>2, <2>3 DEF Linked
  <2>5. Answered(Nobody, answer)
    BY <2>1, <2>2, <2>3, <2>4 DEF Answered
  <2> QED BY <2>5
<1>4. CASE Waiting # {}
  <2> DEFINE i == Min(Waiting)
             d == pipe[i].client
             e == [pipe[i] EXCEPT !.client = Nobody]
             all == [pipe EXCEPT ![i] = e]
  <2>1. i \in Waiting /\ \A j \in Waiting : i <= j
    <3>1. Waiting \in SUBSET Nat
      BY <1>2 DEF Waiting
    <3> QED BY <1>4, <3>1, MinOfSome
  <2>2. pipe' = Tail(all) /\ reply' = [reply EXCEPT ![d] = answer]
    BY <1>4 DEF Answers
  <2> HIDE DEF i
  <2>3. i \in DOMAIN pipe /\ d # Nobody
    BY <2>1 DEF Waiting
  <2>4. "client" \in DOMAIN e /\ e.client = Nobody
    BY <2>3 DEF Linked
  <2>5. d \in Clients
    BY <2>3 DEF Linked, Sent
  <2> HIDE DEF e
  <2>6. /\ all \in Seq(S \cup {e}) /\ Len(all) = Len(pipe)
        /\ \A j \in DOMAIN pipe : all[j] = IF j = i THEN e ELSE pipe[j]
    BY <1>1, <1>2, <2>3
  <2> HIDE DEF all
  <2>7. pipe' \in Seq(S \cup {e}) /\ Len(pipe') = Len(pipe) - 1
        /\ \A j \in DOMAIN pipe' : j + 1 \in DOMAIN pipe /\ pipe'[j] = all[j + 1]
    BY <1>2, <2>2, <2>6
  <2>8. timeouts = 0 => i = 1
    <3>1. timeouts = 0 => 1 \in Waiting
      BY <1>2 DEF Linked, Waiting
    <3> QED BY <1>2, <2>1, <2>3, <3>1
  <2>9. timeouts = 0 => d = Head(pipe).client
    BY <1>2, <2>8
  <2>10. ASSUME NEW j \in DOMAIN pipe'
         PROVE  /\ "client" \in DOMAIN pipe'[j]
                /\ pipe'[j].client # Nobody => pipe'[j] = pipe[j + 1] /\ pipe[j + 1].client # d
                /\ timeouts = 0 => pipe'[j].client # Nobody
    <3>1. PICK n : n = j + 1
      OBVIOUS
    <3>2. n \in DOMAIN pipe /\ pipe'[j] = all[n] /\ (i = 1 => n # i)
      <4>1. j \in 1..Len(pipe')
        BY <2>7
      <4> QED BY <1>2, <2>7, <3>1, <4>1
    <3>3. CASE n = i
      BY <2>4, <2>6, <2>8, <3>2, <3>3
    <3>4. CASE n # i
      <4>1. pipe'[j] = pipe[n]
        BY <2>6, <3>2, <3>4
      <4>2. pipe[n].client # d
        BY <2>3, <3>2, <3>4 DEF Linked
      <4>3. "client" \in DOMAIN pipe[n] /\ (timeouts = 0 => pipe[n].client # Nobody)
        BY <3>2 DEF Linked
      <4> QED BY <3>1, <4>1, <4>2, <4>3
    <3> QED BY <3>3, <3>4
  <2>11. Answered(d, answer)
    BY <2>2, <2>3, <2>5, <2>7, <2>9, <2>10 DEF Answered
  <2> QED BY <2>11
<1> QED BY <1>3, <1>4

-----------------------------------------------------------------------------
(* The steps of the tools. *)

\* A call that waits for the answer to step k.
At(mine, k) == [mine EXCEPT !.at = k, !.phase = "waiting"]

\* c's call, now mine, sends the command of a step.
Sends(c, mine, queue) ==
  \E k \in DOMAIN Script[mine.tool] :
     LET s == Script[mine.tool][k] IN
     /\ call' = Meeting(c, s.kind, At(mine, k))
     /\ pipe' = Append(pipe, [client |-> c, cmd |-> s.kind, piece |-> s.piece, form |-> s.form])
     /\ console' = IF s.kind = "raw" THEN <<>> ELSE queue

\* c's call, now mine, is over.
Leaves(c, mine, queue) ==
  \E how \in {"ended", "failed"} :
     /\ call' = [call EXCEPT ![c] = Over(mine, how)]
     /\ console' = queue /\ pipe' = pipe
     /\ mine.tool = "fault_analyze" => how = "ended"

\* A tool is called.
Starts(c, mine, queue) ==
  /\ ~InCall(c) /\ queue = console
  /\ calls[c] < MaxCalls /\ calls' = [calls EXCEPT ![c] = @ + 1]
  /\ \E tool \in ToolsOf[c] : mine = NewCall(tool)

\* A call that was suspended goes on: with what it had and what the answer gives it.
Continues(c, mine, queue) ==
  /\ InCall(c) /\ UNCHANGED calls
  /\ \/ call[c].phase = "waiting" /\ reply[c] # Nothing /\ queue = console
     \/ call[c].phase = "sleeping" /\ queue \in {console, <<>>}
  /\ IsCall(mine) /\ mine.tool = call[c].tool /\ mine.moved = call[c].moved
  /\ mine.got \subseteq call[c].got \cup Found(StepOf(c), reply[c])

\* raw_command has its answer and sleeps.
Dozes(c) ==
  /\ call[c].phase = "waiting" /\ reply[c] # Nothing /\ StepOf(c).kind = "raw"
  /\ call' = [call EXCEPT ![c].phase = "sleeping"]
  /\ UNCHANGED <<pipe, console, calls>>

\* One step of c's tool.
Turn(c) ==
  /\ UNCHANGED <<timeouts, connected, running, runs, status>>
  /\ reply' = [reply EXCEPT ![c] = Nothing]
  /\ \/ Dozes(c)
     \/ \E mine, queue :
          /\ Starts(c, mine, queue) \/ Continues(c, mine, queue)
          /\ Sends(c, mine, queue) \/ Leaves(c, mine, queue)

\* The script of fault_analyze.
LEMMA FaultTool == Script["fault_analyze"] = FaultScript
BY DEF Script

\* Where a tool goes on, it sends a command or is over.
LEMMA GoesOnDoes ==
  ASSUME NEW c, NEW mine, NEW i, NEW queue, GoesOn(c, mine, i, queue),
         mine.tool = "fault_analyze" => i \in 1..11
  PROVE  /\ reply' = [reply EXCEPT ![c] = Nothing]
         /\ Sends(c, mine, queue) \/ Leaves(c, mine, queue)
<1> DEFINE script == Script[mine.tool]
           have == {g.piece : g \in mine.got}
           k == Suspends(script, have, i)
<1>1. reply' = [reply EXCEPT ![c] = Nothing]
  BY DEF GoesOn
<1>2. CASE k \in DOMAIN script
  <2>1. Sends(c, mine, queue)
    BY <1>2, Zenon DEF GoesOn, Sends, Drained, At
  <2> QED BY <1>1, <2>1
<1>3. CASE k \notin DOMAIN script
  <2>1. mine.tool = "fault_analyze" => k # 0
    BY NeverFails, FaultSteps, FaultTool
  <2>2. /\ call' = [call EXCEPT ![c] = Over(mine, IF k = 0 THEN "failed" ELSE "ended")]
        /\ console' = queue /\ pipe' = pipe
    BY <1>3 DEF GoesOn
  <2> HIDE DEF k
  <2>3. Leaves(c, mine, queue)
    <3>1. CASE k = 0
      BY <2>1, <2>2, <3>1 DEF Leaves
    <3>2. CASE k # 0
      BY <2>2, <3>2 DEF Leaves
    <3> QED BY <3>1, <3>2
  <2> QED BY <1>1, <2>3
<1> QED BY <1>2, <1>3

\* The step that a call of fault_analyze is at.
LEMMA AtFault ==
  ASSUME Types, NEW c \in Clients, InCall(c), call[c].tool = "fault_analyze"
  PROVE  /\ call[c].at \in 1..10 /\ StepOf(c).catch = AllErrors
         /\ StepOf(c).full = 1 /\ StepOf(c).empty = 1
         /\ StepOf(c).bad \in 1..3 /\ call[c].at + StepOf(c).bad <= 11
<1>1. calls[c] # 0
  BY DEF Types, InCall, Idle
<1>2. call[c].at \in DOMAIN Script["fault_analyze"]
  BY <1>1 DEF Types
<1> QED BY <1>2, FaultSteps, FaultTool DEF CatchesEverything, StepOf

\* A tool that is told of an error sends a command or is over.
LEMMA CatchesDo ==
  ASSUME Types, NEW c \in Clients, InCall(c), NEW error \in AllErrors, Catches(c, error)
  PROVE  /\ reply' = [reply EXCEPT ![c] = Nothing]
         /\ Sends(c, call[c], console) \/ Leaves(c, call[c], console)
<1>1. CASE error \in StepOf(c).catch
  <2>1. GoesOn(c, call[c], call[c].at + StepOf(c).bad, console)
    BY <1>1 DEF Catches
  <2>2. call[c].tool = "fault_analyze" => call[c].at + StepOf(c).bad \in 1..11
    BY AtFault
  <2> QED BY <2>1, <2>2, GoesOnDoes
<1>2. CASE error \notin StepOf(c).catch
  <2>1. call[c].tool # "fault_analyze"
    BY <1>2, AtFault
  <2>2. /\ call' = [call EXCEPT ![c] = Over(call[c], "failed")]
        /\ reply' = [reply EXCEPT ![c] = Nothing]
        /\ UNCHANGED <<pipe, console>>
    BY <1>2 DEF Catches
  <2> QED BY <2>1, <2>2 DEF Leaves
<1> QED BY <1>1, <1>2

\* A tool takes its steps.
LEMMA TurnDoes ==
  ASSUME FullInv, NEW c \in Clients,
         (\E tool \in ToolsOf[c] : Begins(c, tool)) \/ Returns(c) \/ Collects(c)
  PROVE  Turn(c)
<1> USE DEF FullInv
<1>1. IsCall(call[c])
  BY DEF IInv, Shape
<1>2. ASSUME NEW tool \in ToolsOf[c], Begins(c, tool)
      PROVE  Turn(c)
  <2>1. NewCall(tool).tool = tool /\ 1 \in 1..11
    BY DEF NewCall
  <2>2. Starts(c, NewCall(tool), console)
    BY <1>2 DEF Begins, Starts
  <2>3. UNCHANGED <<timeouts, connected, running, runs, status>>
    BY <1>2 DEF Begins
  <2>4. GoesOn(c, NewCall(tool), 1, console)
    BY <1>2 DEF Begins
  <2>5. /\ reply' = [reply EXCEPT ![c] = Nothing]
        /\ Sends(c, NewCall(tool), console) \/ Leaves(c, NewCall(tool), console)
    BY <2>1, <2>4, GoesOnDoes
  <2> QED BY <2>2, <2>3, <2>5 DEF Turn
<1>3. ASSUME Returns(c)
      PROVE  Turn(c)
  <2> DEFINE s == StepOf(c)
             found == Found(s, reply[c])
             more == {g \in found : g.piece \in Used}
             mine == [call[c] EXCEPT !.got = @ \cup more]
  <2>1. /\ call[c].phase = "waiting" /\ reply[c] # Nothing /\ InCall(c)
        /\ UNCHANGED <<timeouts, connected, running, runs, status, calls>>
    BY <1>3 DEF Returns, InCall
  <2>2. ASSUME NEW error \in AllErrors, Catches(c, error)
        PROVE  Turn(c)
    <3>1. Continues(c, call[c], console)
      BY <1>1, <2>1 DEF Continues
    <3>2. /\ reply' = [reply EXCEPT ![c] = Nothing]
          /\ Sends(c, call[c], console) \/ Leaves(c, call[c], console)
      BY <2>1, <2>2, CatchesDo
    <3> QED BY <2>1, <3>1, <3>2 DEF Turn
  <2>3. CASE ~Ok(reply[c]) /\ Catches(c, reply[c].kind)
    <3>1. reply[c].kind \in AllErrors
      BY <2>1, <2>3 DEF Linked, Told, Ok, AllErrors
    <3> QED BY <2>2, <2>3, <3>1
  <2>4. CASE /\ s.kind = "raw"
             /\ call' = [call EXCEPT ![c].phase = "sleeping"]
             /\ reply' = [reply EXCEPT ![c] = Nothing]
             /\ UNCHANGED <<pipe, console>>
    BY <2>1, <2>4 DEF Turn, Dozes
  <2>5. CASE Catches(c, "refused")
    BY <2>2, <2>5 DEF AllErrors
  <2>6. CASE GoesOn(c, mine, call[c].at + (IF found = {} THEN s.empty ELSE s.full), console)
    <3>1. /\ IsCall(mine) /\ mine.tool = call[c].tool /\ mine.moved = call[c].moved
          /\ mine.got = call[c].got \cup more
      BY <1>1 DEF IsCall, Fields
    <3>2. more \subseteq found
      OBVIOUS
    <3> PICK n : n = call[c].at + (IF found = {} THEN s.empty ELSE s.full)
      OBVIOUS
    <3>3. call[c].tool = "fault_analyze" => n \in 1..11
      BY <2>1, AtFault
    <3> HIDE DEF mine, more
    <3>4. Continues(c, mine, console)
      BY <2>1, <3>1, <3>2 DEF Continues
    <3>5. /\ reply' = [reply EXCEPT ![c] = Nothing]
          /\ Sends(c, mine, console) \/ Leaves(c, mine, console)
      BY <2>6, <3>1, <3>3, GoesOnDoes
    <3> QED BY <2>1, <3>4, <3>5 DEF Turn
  <2> QED BY <1>3, <2>3, <2>4, <2>5, <2>6 DEF Returns
<1>4. ASSUME Collects(c)
      PROVE  Turn(c)
  <2>1. /\ call[c].phase = "sleeping" /\ InCall(c)
        /\ UNCHANGED <<timeouts, connected, running, runs, status, calls>>
    BY <1>4 DEF Collects, InCall
  <2>2. Continues(c, call[c], console) /\ Continues(c, call[c], <<>>)
    BY <1>1, <2>1 DEF Continues
  <2>3. CASE connected
    <3> PICK n : n = call[c].at + (IF Output = <<>> THEN StepOf(c).empty ELSE StepOf(c).full)
      OBVIOUS
    <3>1. call[c].tool = "fault_analyze" => n \in 1..11
      BY <2>1, AtFault
    <3>2. GoesOn(c, call[c], n, <<>>)
      BY <1>4, <2>3 DEF Collects
    <3>3. /\ reply' = [reply EXCEPT ![c] = Nothing]
          /\ Sends(c, call[c], <<>>) \/ Leaves(c, call[c], <<>>)
      BY <3>1, <3>2, GoesOnDoes
    <3> QED BY <2>1, <2>2, <3>3 DEF Turn
  <2>4. CASE ~connected
    <3>1. Catches(c, "refused")
      BY <1>4, <2>4 DEF Collects
    <3>2. /\ reply' = [reply EXCEPT ![c] = Nothing]
          /\ Sends(c, call[c], console) \/ Leaves(c, call[c], console)
      BY <2>1, <3>1, CatchesDo DEF AllErrors
    <3> QED BY <2>1, <2>2, <3>2 DEF Turn
  <2> QED BY <2>3, <2>4
<1> QED BY <1>2, <1>3, <1>4

\* The call that a turn goes on with has the fields of a call.
LEMMA TurnIsOfCall ==
  ASSUME NEW c, NEW mine, NEW queue, Starts(c, mine, queue) \/ Continues(c, mine, queue)
  PROVE  IsCall(mine)
BY DEF Starts, Continues, NewCall, IsCall, Fields

\* The calls once c has sent a command of step k.
LEMMA MeetingDoes ==
  ASSUME IInv, NEW c \in Clients, NEW mine, IsCall(mine), NEW k, NEW kind,
         call' = Meeting(c, kind, At(mine, k))
  PROVE  /\ call'[c].tool = mine.tool /\ call'[c].at = k /\ call'[c].phase = "waiting"
         /\ call'[c].got = mine.got /\ call'[c].moved = mine.moved /\ call'[c].wrote = 0
         /\ ~call'[c].disturbed => \A e \in Clients \ {c} : ~InConsole(e)
         /\ \A d \in Clients \ {c} :
               /\ Same(d) /\ call'[d].got = call[d].got
               /\ call'[d].moved = call[d].moved /\ call'[d].wrote = call[d].wrote
               /\ ~call'[d].disturbed => ~call[d].disturbed /\ (kind = "ask" \/ ~InRaw(d))
<1> DEFINE mine1 == [mine EXCEPT !.at = k, !.phase = "waiting"]
           met == \E e \in Clients \ {c} : InConsole(e)
           mine2 == [mine1 EXCEPT !.wrote = 0, !.disturbed = met]
<1>1. call'[c] = mine2
  BY Zenon DEF Meeting, At
<1>2. /\ mine2.tool = mine.tool /\ mine2.at = k /\ mine2.phase = "waiting"
      /\ mine2.got = mine.got /\ mine2.moved = mine.moved /\ mine2.wrote = 0
      /\ mine2.disturbed = met
  <2> HIDE DEF met
  <2> QED BY DEF IsCall, Fields
<1> HIDE DEF mine2
<1>3. ~call'[c].disturbed => ~met
  BY <1>1, <1>2, Zenon
<1>4. ASSUME NEW d \in Clients \ {c}
      PROVE  /\ Same(d) /\ call'[d].got = call[d].got
             /\ call'[d].moved = call[d].moved /\ call'[d].wrote = call[d].wrote
             /\ ~call'[d].disturbed => ~call[d].disturbed /\ (kind = "ask" \/ ~InRaw(d))
  <2>1. IsCall(call[d])
    BY DEF IInv, Shape
  <2>2. CASE kind # "ask" /\ InRaw(d)
    <3>1. call'[d] = [call[d] EXCEPT !.disturbed = TRUE]
      BY <2>2, Zenon DEF Meeting
    <3>2. call'[d].disturbed = TRUE
      BY <2>1, <3>1 DEF IsCall, Fields
    <3>3. /\ Same(d) /\ call'[d].got = call[d].got
          /\ call'[d].moved = call[d].moved /\ call'[d].wrote = call[d].wrote
      BY <2>1, <3>1 DEF IsCall, Fields, Same
    <3> QED BY <3>2, <3>3
  <2>3. CASE ~(kind # "ask" /\ InRaw(d))
    <3>1. call'[d] = call[d]
      BY <2>3, Zenon DEF Meeting
    <3> QED BY <2>3, <3>1 DEF Same
  <2> QED BY <2>2, <2>3
<1> QED BY <1>1, <1>2, <1>3, <1>4

\* The calls once c's is over.
LEMMA LeavesDoes ==
  ASSUME IInv, NEW c \in Clients, NEW mine, NEW how,
         call' = [call EXCEPT ![c] = Over(mine, how)]
  PROVE  /\ call'[c].tool = mine.tool /\ call'[c].phase = how
         /\ \A d \in Clients \ {c} : Same(d) /\ call'[d] = call[d]
<1>1. Over(mine, how).tool = mine.tool /\ Over(mine, how).phase = how
  BY DEF Over, NewCall
<1> QED BY <1>1 DEF IInv, Shape, Same

\* The calls once c sleeps.
LEMMA DozesDoes ==
  ASSUME IInv, NEW c \in Clients, Dozes(c)
  PROVE  /\ call'[c].phase = "sleeping"
         /\ call'[c].tool = call[c].tool /\ call'[c].at = call[c].at
         /\ call'[c].got = call[c].got /\ call'[c].moved = call[c].moved
         /\ call'[c].wrote = call[c].wrote /\ call'[c].disturbed = call[c].disturbed
         /\ StepOf(c)' = StepOf(c) /\ InRaw(c) /\ InCall(c) /\ InConsole(c)
         /\ \A d \in Clients \ {c} : Same(d) /\ call'[d] = call[d]
<1>1. call' = [call EXCEPT ![c].phase = "sleeping"]
  BY DEF Dozes
<1>2. IsCall(call[c])
  BY DEF IInv, Shape
<1>3. /\ call'[c].phase = "sleeping"
      /\ call'[c].tool = call[c].tool /\ call'[c].at = call[c].at
      /\ call'[c].got = call[c].got /\ call'[c].moved = call[c].moved
      /\ call'[c].wrote = call[c].wrote /\ call'[c].disturbed = call[c].disturbed
  BY <1>1, <1>2 DEF IInv, Shape, IsCall, Fields
<1>4. \A d \in Clients \ {c} : Same(d) /\ call'[d] = call[d]
  BY <1>1 DEF IInv, Shape, Same
<1> QED BY <1>3, <1>4 DEF StepOf, Dozes, InRaw, InCall, InConsole

\* When c takes a step it has no command on its way.
LEMMA TurnHasNone ==
  ASSUME Linked, NEW c \in Clients, Turn(c)
  PROVE  c # Nobody /\ \A j \in DOMAIN pipe : pipe[j].client # c
<1>1. c # Nobody
  BY LinkAssumption DEF Nobody
<1>2. call[c].phase # "waiting" \/ reply[c] # Nothing
  BY DEF Turn, Dozes, Starts, Continues, InCall
<1> QED BY <1>1, <1>2 DEF Linked, Sent

\* A turn sends at most one command, after the answer to the one before.
LEMMA TurnLinks ==
  ASSUME FullInv, NEW c \in Clients, Turn(c)
  PROVE  Linked'
<1> USE DEF FullInv
<1>1. c # Nobody /\ \A j \in DOMAIN pipe : pipe[j].client # c
  BY TurnHasNone
<1>2. PICK S : pipe \in Seq(S)
  BY DEF Linked
<1>3. /\ timeouts' = timeouts
      /\ reply' = [d \in Clients |-> reply'[d]] /\ reply'[c] = Nothing
      /\ \A d \in Clients \ {c} : reply'[d] = reply[d]
  BY DEF Turn, Linked
<1>4. ASSUME \A d \in Clients \ {c} : Same(d)
      PROVE  /\ \A d \in Clients : reply'[d] # Nothing =>
                   call'[d].phase = "waiting" /\ reply'[d].kind \in Told
             /\ \A q : Sent(q) /\ q.client # c => Sent(q)'
  <2>1. \A d \in Clients : reply'[d] # Nothing => call'[d].phase = "waiting" /\ reply'[d].kind \in Told
    BY <1>3, <1>4 DEF Linked, Same
  <2>2. ASSUME NEW q, Sent(q), q.client # c
        PROVE  Sent(q)'
    <3>1. q.client \in Clients \ {c}
      BY <2>2 DEF Sent
    <3>2. StepOf(q.client)' = StepOf(q.client) /\ Same(q.client)
      BY <1>4, <3>1, SameStep
    <3> QED BY <1>3, <2>2, <3>1, <3>2 DEF Sent, Same
  <2> QED BY <2>1, <2>2
<1>5. ASSUME \A d \in Clients \ {c} : Same(d), pipe' = pipe
      PROVE  Linked'
  <2>1. \A j \in DOMAIN pipe : pipe[j].client # Nobody => Sent(pipe[j])'
    <3>1. \A q : Sent(q) /\ q.client # c => Sent(q)'
      BY <1>4, <1>5
    <3> SUFFICES ASSUME NEW j \in DOMAIN pipe, pipe[j].client # Nobody
                 PROVE  Sent(pipe[j])'
      OBVIOUS
    <3>2. PICK q : q = pipe[j]
      OBVIOUS
    <3>3. Sent(q)'
      BY <1>1, <3>1, <3>2 DEF Linked
    <3> QED BY <1>5, <3>2, <3>3 DEF Sent
  <2> QED BY <1>3, <1>4, <1>5, <2>1 DEF Linked
<1>6. CASE Dozes(c)
  BY <1>5, <1>6, DozesDoes DEF Dozes
<1>7. ASSUME NEW mine, NEW queue, Leaves(c, mine, queue)
      PROVE  Linked'
  BY <1>5, <1>7, LeavesDoes DEF Leaves
<1>8. ASSUME NEW mine, NEW queue, IsCall(mine), Sends(c, mine, queue)
      PROVE  Linked'
  <2> DEFINE Of(k) == Script[mine.tool][k]
             Entry(k) == [client |-> c, cmd |-> Of(k).kind, piece |-> Of(k).piece, form |-> Of(k).form]
  <2>1. PICK k \in DOMAIN Script[mine.tool] :
          call' = Meeting(c, Of(k).kind, At(mine, k)) /\ pipe' = Append(pipe, Entry(k))
    BY <1>8 DEF Sends
  <2>2. /\ call'[c].tool = mine.tool /\ call'[c].at = k /\ call'[c].phase = "waiting"
        /\ \A d \in Clients \ {c} : Same(d)
    <3> PICK kind : kind = Of(k).kind
      OBVIOUS
    <3>1. call' = Meeting(c, kind, At(mine, k))
      BY <2>1
    <3>2. IInv
      OBVIOUS
    <3>3. IsCall(mine)
      BY <1>8
    <3> QED BY ONLY c \in Clients, <3>1, <3>2, <3>3, MeetingDoes
  <2>3. PICK e : e = Entry(k)
    OBVIOUS
  <2>4. Sent(e)' /\ e.client = c /\ "client" \in DOMAIN e
    <3>1. /\ e.client = c /\ "client" \in DOMAIN e
          /\ e.cmd = Of(k).kind /\ e.piece = Of(k).piece /\ e.form = Of(k).form
      BY <2>3
    <3>2. StepOf(c)' = Of(k)
      BY <2>2 DEF StepOf
    <3> QED BY <1>3, <2>2, <3>1, <3>2 DEF Sent
  <2>5. /\ pipe' \in Seq(S \cup {e}) /\ Len(pipe') = Len(pipe) + 1
        /\ pipe'[Len(pipe) + 1] = e /\ DOMAIN pipe' = 1..(Len(pipe) + 1)
        /\ DOMAIN pipe = 1..Len(pipe) /\ Len(pipe) \in Nat
        /\ \A j \in DOMAIN pipe : pipe'[j] = pipe[j]
    BY <1>2, <2>1, <2>3
  <2> PICK last : last = Len(pipe) + 1
    OBVIOUS
  <2>6. \A j \in DOMAIN pipe' : (j \in DOMAIN pipe /\ pipe'[j] = pipe[j] /\ j # last)
                                 \/ (j = last /\ pipe'[j] = e)
    BY <2>5
  <2>7. ASSUME NEW j \in DOMAIN pipe'
        PROVE  /\ "client" \in DOMAIN pipe'[j]
               /\ pipe'[j].client # Nobody => Sent(pipe[j])'
               /\ timeouts' = 0 => pipe'[j].client # Nobody
    <3> PICK q : q = pipe'[j]
      OBVIOUS
    <3>1. "client" \in DOMAIN q /\ (timeouts = 0 => q.client # Nobody)
      BY <1>1, <2>4, <2>6 DEF Linked
    <3>2. q.client # Nobody => Sent(q)'
      <4>1. \A p : Sent(p) /\ p.client # c => Sent(p)'
        BY <1>4, <2>2
      <4>2. CASE j = last
        BY <2>4, <2>6, <4>2
      <4>3. CASE j # last
        <5>1. q = pipe[j] /\ j \in DOMAIN pipe
          BY <2>6, <4>3
        <5> QED BY <1>1, <4>1, <5>1 DEF Linked
      <4> QED BY <4>2, <4>3
    <3> QED BY <1>3, <3>1, <3>2 DEF Sent
  <2>8. ASSUME NEW i \in DOMAIN pipe', NEW j \in DOMAIN pipe', i # j, pipe'[i].client # Nobody
        PROVE  pipe'[j].client # pipe'[i].client
    BY <1>1, <2>4, <2>6, <2>8 DEF Linked
  <2> QED BY <1>3, <1>4, <2>2, <2>5, <2>7, <2>8 DEF Linked
<1> QED BY <1>6, <1>7, <1>8, TurnIsOfCall DEF Turn

\* The steps of GDB, of the target and of the session leave every call at its step, with
\* what it was given.
LEMMA OthersDo ==
  ASSUME IInv, \/ (\E c \in Clients : GivesUp(c)) \/ ExecutesAsk \/ ExecutesConsole
               \/ Resumes \/ Halts \/ Disconnects \/ UNCHANGED vars
  PROVE  \A c \in Clients : Same(c) /\ call'[c].got = call[c].got
<1>1. call = [c \in Clients |-> call[c]] /\ \A c \in Clients : IsCall(call[c])
  BY DEF IInv, Shape
<1>2. ASSUME UNCHANGED call PROVE \A c \in Clients : Same(c) /\ call'[c].got = call[c].got
  BY <1>2 DEF Same
<1>3. CASE Resumes
  <2>1. call' = [c \in Clients |-> [call[c] EXCEPT !.moved = InCall(c)]]
    BY <1>3 DEF Resumes
  <2> QED BY <1>1, <2>1 DEF IsCall, Fields, Same
<1>4. CASE Halts
  <2>1. call' = [c \in Clients |-> [call[c] EXCEPT !.moved = InCall(c), !.disturbed = @ \/ InRaw(c)]]
    BY <1>4, Zenon DEF Halts
  <2> QED BY <1>1, <2>1, Zenon DEF IsCall, Fields, Same
<1>5. CASE ExecutesConsole
  <2> DEFINE d == Head(pipe).client
  <2>1. PICK n : call' = IF d = Nobody THEN call ELSE [call EXCEPT ![d].wrote = n]
    BY <1>5 DEF ExecutesConsole
  <2> HIDE DEF d
  <2>2. \A c \in Clients : call'[c] = call[c] \/ call'[c] = [call[c] EXCEPT !.wrote = n]
    BY <1>1, <2>1
  <2> QED BY <1>1, <2>2 DEF IsCall, Fields, Same
<1> QED
  BY <1>2, <1>3, <1>4, <1>5 DEF GivesUp, ExecutesAsk, Disconnects, vars

\* GDB executes a command and answers it.
LEMMA ExecutesDo ==
  ASSUME Linked, ExecutesAsk \/ ExecutesConsole
  PROVE  pipe # <<>> /\ UNCHANGED timeouts
         /\ \E answer : answer.kind \in {"done", "error"} /\ Answers(answer)
<1>1. Done.kind = "done" /\ GdbError.kind = "error"
  BY DEF Done, GdbError
<1>2. CASE ExecutesConsole
  BY <1>1, <1>2 DEF ExecutesConsole
<1>3. CASE ExecutesAsk
  <2> DEFINE q == Head(pipe)
             full == [kind |-> "done", form |-> q.form, bits |-> Content(q.piece)]
  <2>1. full.kind = "done"
    OBVIOUS
  <2>2. Answers(Done) \/ Answers(GdbError) \/ Answers(full)
    BY <1>3 DEF ExecutesAsk
  <2>3. pipe # <<>> /\ UNCHANGED timeouts
    BY <1>3 DEF ExecutesAsk
  <2> HIDE DEF full
  <2> QED BY <1>1, <2>1, <2>2, <2>3
<1> QED BY <1>2, <1>3

\* The other steps take commands away, or add one without a sender.
LEMMA OthersLink ==
  ASSUME FullInv, \/ (\E c \in Clients : GivesUp(c)) \/ ExecutesAsk \/ ExecutesConsole
               \/ Resumes \/ Halts \/ Disconnects \/ UNCHANGED vars
  PROVE  Linked'
<1> USE DEF FullInv
<1>1. timeouts \in Nat
  BY LinkAssumption DEF Types
<1>2. \A c \in Clients : Same(c)
  BY OthersDo
<1>3. PICK S : pipe \in Seq(S)
  BY DEF Linked
<1>4. DOMAIN pipe = 1..Len(pipe) /\ Len(pipe) \in Nat
  BY <1>3
<1>5. ASSUME UNCHANGED <<pipe, reply, timeouts>>
      PROVE  Linked'
  <2>1. PICK m : m = [j \in DOMAIN pipe' |-> j]
    OBVIOUS
  <2>2. \A j \in DOMAIN pipe' : m[j] = j
    BY <2>1
  <2>3. /\ \E T : pipe' \in Seq(T)
        /\ reply' = [c \in Clients |-> reply'[c]]
        /\ \A j \in DOMAIN pipe' : /\ "client" \in DOMAIN pipe'[j]
                                   /\ pipe'[j].client # Nobody =>
                                         m[j] \in DOMAIN pipe /\ pipe'[j] = pipe[m[j]]
                                   /\ timeouts' = 0 => pipe'[j].client # Nobody
        /\ \A j, k \in DOMAIN pipe' : j # k => m[j] # m[k]
        /\ \A c \in Clients : reply'[c] = reply[c]
    BY <1>5, <2>2 DEF Linked
  <2> QED BY <1>2, <2>3, LinkKeeps
<1>6. CASE Resumes \/ Halts \/ UNCHANGED vars
  BY <1>5, <1>6, Zenon DEF Resumes, Halts, vars, linkVars
<1>7. CASE Disconnects
  <2>1. /\ pipe' = <<>> /\ timeouts' = timeouts
        /\ reply' = [c \in Clients |->
             IF \E i \in Waiting : pipe[i].client = c THEN [kind |-> "closed"] ELSE reply[c]]
    BY <1>7 DEF Disconnects
  <2>2. PICK r : r = [kind |-> "closed"]
    OBVIOUS
  <2>3. r.kind \in Told
    BY <2>2 DEF Told
  <2>4. ASSUME NEW c \in Clients
        PROVE  reply'[c] = reply[c] \/ (call[c].phase = "waiting" /\ reply'[c].kind \in Told)
    BY <2>1, <2>2, <2>3 DEF Linked, Waiting, Sent
  <2>5. DOMAIN pipe' = {} /\ pipe' \in Seq({})
    BY <2>1
  <2>6. reply' = [c \in Clients |-> reply'[c]]
    BY <2>1
  <2>7. \A m : \A j, k \in DOMAIN pipe' : j # k => m[j] # m[k]
    BY <2>5
  <2>8. \A m : \A j \in DOMAIN pipe' :
           /\ "client" \in DOMAIN pipe'[j]
           /\ pipe'[j].client # Nobody => m[j] \in DOMAIN pipe /\ pipe'[j] = pipe[m[j]]
           /\ timeouts' = 0 => pipe'[j].client # Nobody
    BY <2>5
  <2>9. \A j \in DOMAIN pipe' : \A c \in Clients : pipe'[j].client # c
    BY <2>5
  <2>10. \E T : pipe' \in Seq(T)
    BY <2>5
  <2> QED BY <1>2, <2>4, <2>6, <2>7, <2>8, <2>9, <2>10, LinkKeeps
<1>8. CASE ExecutesAsk \/ ExecutesConsole
  <2>1. PICK answer : answer.kind \in {"done", "error"} /\ Answers(answer)
    BY <1>8, ExecutesDo
  <2>2. pipe # <<>> /\ timeouts' = timeouts
    BY <1>8, ExecutesDo
  <2>3. PICK d : Answered(d, answer)
    BY <2>1, <2>2, AnswersDo
  <2>4. PICK m : m = [j \in DOMAIN pipe' |-> j + 1]
    OBVIOUS
  <2>5. \A j \in DOMAIN pipe' : m[j] = j + 1
    BY <2>4
  <2>6. \A j \in DOMAIN pipe' : /\ "client" \in DOMAIN pipe'[j]
                                /\ pipe'[j].client # Nobody =>
                                      m[j] \in DOMAIN pipe /\ pipe'[j] = pipe[m[j]]
                                /\ timeouts' = 0 => pipe'[j].client # Nobody
    BY <2>2, <2>3, <2>5 DEF Answered
  <2>7. \A j, k \in DOMAIN pipe' : j # k => m[j] # m[k]
    <3>1. DOMAIN pipe' \subseteq Nat
      BY <2>3 DEF Answered
    <3> QED BY <2>5, <3>1
  <2>8. reply' = [c \in Clients |-> reply'[c]]
    BY <2>3 DEF Answered, Linked
  <2>9. \A c \in Clients : \/ reply'[c] = reply[c]
                           \/ /\ call[c].phase = "waiting" /\ reply'[c].kind \in Told
                              /\ \A j \in DOMAIN pipe' : pipe'[j].client # c
    <3> SUFFICES ASSUME NEW c \in Clients, reply'[c] # reply[c]
                 PROVE  /\ call[c].phase = "waiting" /\ reply'[c].kind \in Told
                        /\ \A j \in DOMAIN pipe' : pipe'[j].client # c
      OBVIOUS
    <3>1. d = c /\ d # Nobody /\ reply'[c] = answer
      BY <2>3 DEF Answered, Linked
    <3>2. call[c].phase = "waiting"
      BY <2>3, <3>1 DEF Answered, Linked, Sent
    <3>3. \A j \in DOMAIN pipe' : pipe'[j].client # c
      BY <2>3, <3>1 DEF Answered
    <3> QED BY <2>1, <3>1, <3>2, <3>3 DEF Told
  <2>10. \E T : pipe' \in Seq(T)
    BY <2>3 DEF Answered
  <2> QED BY <1>2, <2>6, <2>7, <2>8, <2>9, <2>10, LinkKeeps
<1>9. ASSUME NEW c \in Clients, GivesUp(c) PROVE Linked'
  <2>1. PICK i \in Waiting :
          /\ pipe[i].client = c
          /\ timeouts' = timeouts + 1
          /\ pipe' = Append([pipe EXCEPT ![i].client = Nobody], Interrupt)
          /\ reply' = [reply EXCEPT ![c] = TimedOut]
    BY <1>9 DEF GivesUp, TimesOut
  <2> DEFINE e == [pipe[i] EXCEPT !.client = Nobody]
             all == [pipe EXCEPT ![i] = e]
  <2>2. i \in DOMAIN pipe /\ pipe[i].client # Nobody /\ "client" \in DOMAIN pipe[i]
    BY <2>1 DEF Waiting, Linked
  <2>3. "client" \in DOMAIN e /\ e.client = Nobody
    BY <2>2
  <2>4. "client" \in DOMAIN Interrupt /\ Interrupt.client = Nobody
    BY DEF Interrupt
  <2>5. pipe' = Append(all, Interrupt)
    BY <2>1
  <2> HIDE DEF e
  <2>6. /\ all \in Seq(S \cup {e}) /\ Len(all) = Len(pipe)
        /\ \A j \in DOMAIN pipe : all[j] = IF j = i THEN e ELSE pipe[j]
    BY <1>3, <1>4, <2>2
  <2> HIDE DEF all
  <2>7. /\ pipe' \in Seq(S \cup {e} \cup {Interrupt})
        /\ \A j \in DOMAIN pipe' : (j \in DOMAIN pipe /\ pipe'[j] = all[j]) \/ pipe'[j] = Interrupt
    BY <1>4, <2>5, <2>6
  <2>8. PICK m : m = [j \in DOMAIN pipe' |-> j]
    OBVIOUS
  <2>9. \A j \in DOMAIN pipe' : m[j] = j
    BY <2>8
  <2>10. timeouts' # 0
    BY <1>1, <2>1
  <2>11. ASSUME NEW j \in DOMAIN pipe'
         PROVE  /\ "client" \in DOMAIN pipe'[j]
                /\ pipe'[j].client # Nobody => m[j] \in DOMAIN pipe /\ pipe'[j] = pipe[m[j]]
                /\ pipe'[j].client # c
    <3>1. c # Nobody
      BY <2>1, <2>2
    <3>2. CASE pipe'[j] = Interrupt
      BY <2>4, <3>1, <3>2
    <3>3. CASE j = i /\ pipe'[j] = all[j]
      BY <2>2, <2>3, <2>6, <3>1, <3>3
    <3>4. CASE j # i /\ j \in DOMAIN pipe /\ pipe'[j] = all[j]
      <4>1. pipe'[j] = pipe[j]
        BY <2>6, <3>4
      <4> QED BY <2>1, <2>2, <2>9, <3>4, <4>1 DEF Linked
    <3> QED BY <2>7, <3>2, <3>3, <3>4
  <2>12. \A j, k \in DOMAIN pipe' : j # k => m[j] # m[k]
    BY <2>9
  <2>13. reply' = [d \in Clients |-> reply'[d]]
    BY <2>1 DEF Linked
  <2>14. \A d \in Clients : \/ reply'[d] = reply[d]
                            \/ /\ call[d].phase = "waiting" /\ reply'[d].kind \in Told
                               /\ \A j \in DOMAIN pipe' : pipe'[j].client # d
    <3> SUFFICES ASSUME NEW d \in Clients, reply'[d] # reply[d]
                 PROVE  /\ call[d].phase = "waiting" /\ reply'[d].kind \in Told
                        /\ \A j \in DOMAIN pipe' : pipe'[j].client # d
      OBVIOUS
    <3>1. d = c /\ reply'[d] = TimedOut
      BY <2>1 DEF Linked
    <3>2. TimedOut.kind \in Told
      BY DEF TimedOut, Told
    <3>3. call[c].phase = "waiting"
      BY <2>1, <2>2 DEF Linked, Sent
    <3> QED BY <2>11, <3>1, <3>2, <3>3
  <2>15. \E T : pipe' \in Seq(T)
    BY <2>7
  <2> QED BY <1>2, <2>10, <2>11, <2>12, <2>13, <2>14, <2>15, LinkKeeps
<1> QED BY <1>6, <1>7, <1>8, <1>9

\* How many lines the queue holds when it has taken more.
LEMMA QueuedSize ==
  ASSUME NEW queue, \E S : queue \in Seq(S), NEW more, \E T : more \in Seq(T)
  PROVE  /\ Len(Queued(queue, more)) = Min({QueueSize, Len(queue) + Len(more)})
         /\ Len(Queued(queue, more)) <= QueueSize
<1> PICK S : queue \in Seq(S)
  OBVIOUS
<1> PICK T : more \in Seq(T)
  OBVIOUS
<1> DEFINE all == queue \o more
           n == Min({QueueSize, Len(queue) + Len(more)})
<1>1. all \in Seq(S \cup T) /\ Len(all) = Len(queue) + Len(more) /\ Len(all) \in Nat
  OBVIOUS
<1>2. n \in Nat /\ n <= Len(all) /\ n <= QueueSize
  <2>1. QueueSize \in Nat /\ {QueueSize, Len(queue) + Len(more)} = {Len(queue) + Len(more), QueueSize}
    BY InspectionAssumption
  <2> QED BY <1>1, <2>1, MinOfTwo
<1> HIDE DEF n, all
<1>3. Len(SubSeq(all, 1, n)) = n
  BY <1>1, <1>2
<1>4. Queued(queue, more) = SubSeq(all, 1, n)
  BY DEF Queued, all, n
<1> QED BY <1>2, <1>3, <1>4 DEF n

\* The queue stays within its size.
LEMMA QueueFits ==
  ASSUME IInv, Len(console) <= QueueSize,
         (\E T : \E more \in Seq(T) : console' \in {console, Queued(console, more)}) \/ console' = <<>>
  PROVE  Len(console') <= QueueSize
<1>1. CASE console' = <<>>
  BY <1>1, InspectionAssumption
<1>2. CASE console' = console
  BY <1>2
<1>3. ASSUME NEW T, NEW more \in Seq(T), console' = Queued(console, more)
      PROVE  Len(console') <= QueueSize
  <2>1. \E S : console \in Seq(S)
    BY DEF IInv, Shape
  <2> QED BY <1>3, <2>1, QueuedSize
<1> QED BY <1>1, <1>2, <1>3

\* What a turn of c's tool leaves in the variables keeps to their types.
LEMMA TurnTypes ==
  ASSUME FullInv, NEW c \in Clients, Turn(c)
  PROVE  Types'
<1> USE DEF FullInv
<1>1. UNCHANGED <<timeouts, connected, running, runs, status>>
  BY DEF Turn
<1>2. ASSUME Len(console') <= QueueSize,
             calls' \in [Clients -> 0..MaxCalls], calls'[c] # 0,
             \A d \in Clients \ {c} : Same(d) /\ calls'[d] = calls[d],
             call'[c].tool \in ToolsOf[c],
             call'[c].phase \in {"waiting", "sleeping", "ended", "failed"},
             InCall(c)' => call'[c].at \in DOMAIN Script[call'[c].tool]
      PROVE  Types'
  <2>1. \A d \in Clients \ {c} : InCall(d)' <=> InCall(d)
    BY <1>2, SameStep
  <2>2. ASSUME NEW d \in Clients
        PROVE  IF calls'[d] = 0 THEN call'[d].phase = Idle /\ call'[d].tool = Idle
               ELSE /\ call'[d].tool \in ToolsOf[d]
                    /\ call'[d].phase \in {"waiting", "sleeping", "ended", "failed"}
                    /\ InCall(d)' => call'[d].at \in DOMAIN Script[call'[d].tool]
    BY <1>2, <2>1 DEF Types, Same
  <2>3. /\ timeouts' \in 0..MaxTimeouts /\ runs' \in 0..MaxRuns
        /\ connected' \in BOOLEAN /\ running' \in BOOLEAN
        /\ status' \in {StatusOf(f) : f \in Faults}
    BY <1>1 DEF Types
  <2> QED BY <1>2, <2>2, <2>3 DEF Types
<1>3. CASE Dozes(c)
  <2>1. calls' = calls /\ console' = console
    BY <1>3 DEF Dozes
  <2>2. calls[c] # 0
    BY <1>3 DEF Dozes, Types, Idle
  <2>3. call'[c].tool \in ToolsOf[c] /\ call'[c].at \in DOMAIN Script[call'[c].tool]
    BY <1>3, <2>2, DozesDoes DEF Types
  <2> QED BY <1>2, <1>3, <2>1, <2>2, <2>3, DozesDoes DEF Types
<1>4. ASSUME NEW mine, NEW queue, Starts(c, mine, queue) \/ Continues(c, mine, queue)
      PROVE  /\ Len(queue) <= QueueSize
             /\ calls' \in [Clients -> 0..MaxCalls] /\ calls'[c] # 0
             /\ \A d \in Clients \ {c} : calls'[d] = calls[d]
             /\ mine.tool \in ToolsOf[c]
  <2>1. Len(<<>>) <= QueueSize /\ MaxCalls \in Nat
    BY InspectionAssumption
  <2>2. calls \in [Clients -> 0..MaxCalls] /\ Len(console) <= QueueSize
    BY DEF Types
  <2>3. CASE Starts(c, mine, queue)
    <3>1. mine.tool \in ToolsOf[c]
      BY <2>3 DEF Starts, NewCall
    <3> QED BY <2>1, <2>2, <2>3, <3>1 DEF Starts
  <2>4. CASE Continues(c, mine, queue)
    <3>1. calls[c] # 0
      BY <2>4 DEF Continues, InCall, Types, Idle
    <3>2. mine.tool \in ToolsOf[c]
      BY <2>4, <3>1 DEF Continues, Types
    <3> QED BY <2>1, <2>2, <2>4, <3>1, <3>2 DEF Continues
  <2> QED BY <1>4, <2>3, <2>4
<1>5. ASSUME NEW mine, NEW queue, Starts(c, mine, queue) \/ Continues(c, mine, queue),
             Leaves(c, mine, queue)
      PROVE  Types'
  <2>1. PICK how \in {"ended", "failed"} : call' = [call EXCEPT ![c] = Over(mine, how)]
    BY <1>5 DEF Leaves
  <2>2. /\ call'[c].tool = mine.tool /\ call'[c].phase = how
        /\ \A d \in Clients \ {c} : Same(d) /\ call'[d] = call[d]
    BY ONLY c \in Clients, IInv, <2>1, LeavesDoes, Zenon
  <2>3. ~InCall(c)' /\ console' = queue
    BY <1>5, <2>2 DEF InCall, Leaves
  <2> QED BY <1>2, <1>4, <1>5, <2>2, <2>3
<1>6. ASSUME NEW mine, NEW queue, Starts(c, mine, queue) \/ Continues(c, mine, queue),
             Sends(c, mine, queue)
      PROVE  Types'
  <2>1. PICK k \in DOMAIN Script[mine.tool] : \E kind :
          call' = Meeting(c, kind, At(mine, k)) /\ console' \in {<<>>, queue}
    BY <1>6 DEF Sends
  <2>2. IInv /\ IsCall(mine)
    BY <1>6, TurnIsOfCall
  <2>3. /\ call'[c].tool = mine.tool /\ call'[c].at = k /\ call'[c].phase = "waiting"
        /\ \A d \in Clients \ {c} : Same(d)
    BY ONLY c \in Clients, <2>1, <2>2, MeetingDoes
  <2>4. Len(console') <= QueueSize
    BY <1>4, <1>6, <2>1, InspectionAssumption
  <2> QED BY <1>2, <1>4, <1>6, <2>3, <2>4
<1> QED BY <1>3, <1>5, <1>6 DEF Turn

\* The other steps keep to the types too.
LEMMA OthersTypes ==
  ASSUME FullInv, \/ (\E c \in Clients : GivesUp(c)) \/ ExecutesAsk \/ ExecutesConsole
               \/ Resumes \/ Halts \/ Disconnects \/ UNCHANGED vars
  PROVE  Types'
<1> USE DEF FullInv
<1>1. \A c \in Clients : Same(c)
  BY OthersDo
<1>2. calls' = calls
  BY Zenon DEF GivesUp, ExecutesAsk, ExecutesConsole, Resumes, Halts, Disconnects, vars
<1>3. Len(console') <= QueueSize
  <2>1. CASE ExecutesConsole
    <3> DEFINE l == Line(Head(pipe).client)
    <3>1. PICK n \in Lines : console' = Queued(console, [i \in 1..n |-> l])
      BY <2>1 DEF ExecutesConsole
    <3>2. n \in Nat
      BY InspectionAssumption
    <3> HIDE DEF l
    <3>3. [i \in 1..n |-> l] \in Seq({l})
      BY <3>2
    <3> QED BY <3>1, <3>3, QueueFits DEF Types
  <2>2. CASE Halts
    <3>1. PICK l : console' \in {console, Queued(console, <<l>>)}
      BY <2>2, Zenon DEF Halts
    <3>2. <<l>> \in Seq({l})
      OBVIOUS
    <3> QED BY <3>1, <3>2, QueueFits DEF Types
  <2>3. CASE console' \in {console, <<>>}
    BY <2>3, InspectionAssumption DEF Types
  <2> QED
    BY <2>1, <2>2, <2>3 DEF GivesUp, ExecutesAsk, Resumes, Disconnects, vars
<1>4. /\ runs' \in 0..MaxRuns /\ connected' \in BOOLEAN /\ running' \in BOOLEAN
      /\ status' \in {StatusOf(f) : f \in Faults}
  <2>1. CASE Resumes
    BY <2>1, InspectionAssumption DEF Resumes, Types
  <2>2. CASE Halts
    BY <2>2, Zenon DEF Halts, Types
  <2>3. CASE Disconnects
    BY <2>3 DEF Disconnects, Types
  <2>4. CASE UNCHANGED <<runs, connected, running, status>>
    BY <2>4 DEF Types
  <2> QED
    BY <2>1, <2>2, <2>3, <2>4 DEF GivesUp, ExecutesAsk, ExecutesConsole, vars
<1>5. timeouts' \in 0..MaxTimeouts
  <2>1. ASSUME NEW c \in Clients, GivesUp(c) PROVE timeouts' \in 0..MaxTimeouts
    BY <2>1, LinkAssumption DEF GivesUp, TimesOut, Types
  <2>2. CASE UNCHANGED timeouts
    BY <2>2 DEF Types
  <2> QED
    BY <2>1, <2>2, Zenon DEF ExecutesAsk, ExecutesConsole, Resumes, Halts, Disconnects, vars, linkVars
<1>6. \A c \in Clients : InCall(c)' <=> InCall(c)
  BY <1>1, SameStep
<1>7. ASSUME NEW d \in Clients
      PROVE  IF calls'[d] = 0 THEN call'[d].phase = Idle /\ call'[d].tool = Idle
             ELSE /\ call'[d].tool \in ToolsOf[d]
                  /\ call'[d].phase \in {"waiting", "sleeping", "ended", "failed"}
                  /\ InCall(d)' => call'[d].at \in DOMAIN Script[call'[d].tool]
  BY <1>1, <1>2, <1>6 DEF Types, Same
<1>8. calls' \in [Clients -> 0..MaxCalls]
  BY <1>2 DEF Types
<1> QED BY <1>3, <1>4, <1>5, <1>7, <1>8 DEF Types

\* A call of fault_analyze is never over without a report.
LEMMA StepReports == FullInv /\ (\/ \E c \in Clients : Turn(c)
                              \/ \A c \in Clients : Same(c)) => AlwaysReports'
<1> SUFFICES ASSUME FullInv,
                    (\E c \in Clients : Turn(c)) \/ \A c \in Clients : Same(c)
             PROVE  AlwaysReports'
  OBVIOUS
<1> USE DEF FullInv
<1>1. CASE \A c \in Clients : Same(c)
  BY <1>1 DEF AlwaysReports, Same
<1>2. ASSUME NEW c \in Clients, Turn(c) PROVE AlwaysReports'
  <2>1. ASSUME \A d \in Clients \ {c} : Same(d),
               call'[c].tool = "fault_analyze" => call'[c].phase # "failed"
        PROVE  AlwaysReports'
    BY <2>1 DEF AlwaysReports, Same
  <2>2. CASE Dozes(c)
    BY <2>1, <2>2, DozesDoes
  <2>3. ASSUME NEW mine, NEW queue, Leaves(c, mine, queue)
        PROVE  AlwaysReports'
    <3>1. PICK how \in {"ended", "failed"} :
            /\ call' = [call EXCEPT ![c] = Over(mine, how)]
            /\ mine.tool = "fault_analyze" => how = "ended"
      BY <2>3 DEF Leaves
    <3>2. /\ call'[c].tool = mine.tool /\ call'[c].phase = how
          /\ \A d \in Clients \ {c} : Same(d) /\ call'[d] = call[d]
      BY ONLY c \in Clients, IInv, <3>1, LeavesDoes, Zenon
    <3> QED BY <2>1, <3>1, <3>2
  <2>4. ASSUME NEW mine, NEW queue, IsCall(mine), Sends(c, mine, queue)
        PROVE  AlwaysReports'
    <3>1. PICK k \in DOMAIN Script[mine.tool] : \E kind : call' = Meeting(c, kind, At(mine, k))
      BY <2>4 DEF Sends
    <3>2. IInv /\ IsCall(mine)
      BY <2>4
    <3>3. call'[c].phase = "waiting" /\ \A d \in Clients \ {c} : Same(d)
      BY ONLY c \in Clients, <3>1, <3>2, MeetingDoes
    <3> QED BY <2>1, <3>3
  <2> QED BY <1>2, <2>2, <2>3, <2>4, TurnIsOfCall DEF Turn
<1> QED BY <1>1, <1>2

-----------------------------------------------------------------------------
(* What a tool is given is what the target holds. *)

\* A piece of an answer that says what the target holds says so too.
LEMMA FoundIsRight ==
  ASSUME NEW c, Right(c), NEW g \in Found(StepOf(c), reply[c])
  PROVE  g.bits = Content(g.piece)
BY DEF Right, Found

\* What a turn keeps of an answer says what the target holds.
LEMMA TurnRight ==
  ASSUME FullInv, NEW c \in Clients, Turn(c)
  PROVE  Got'
<1> USE DEF FullInv
<1> SUFFICES ASSUME timeouts' = 0, NEW d \in Clients, InCall(d)', ~call'[d].moved
             PROVE  Right(d)'
  BY DEF Got
<1>1. /\ timeouts = 0 /\ status' = status
      /\ reply'[c] = Nothing /\ \A e \in Clients \ {c} : reply'[e] = reply[e]
  BY DEF Turn, Linked
<1>2. \A piece : Content(piece)' = Content(piece)
  BY <1>1 DEF Content
<1>3. "form" \notin DOMAIN Nothing
  BY DEF Nothing
<1>4. ASSUME d # c, Same(d), call'[d].got = call[d].got, call'[d].moved = call[d].moved
      PROVE  Right(d)'
  <2>1. StepOf(d)' = StepOf(d) /\ InCall(d)
    BY <1>4, SameStep
  <2>2. Right(d)
    BY <1>1, <1>4, <2>1 DEF Got
  <2>3. reply'[d] = reply[d]
    BY <1>1, <1>4
  <2> QED BY <1>2, <1>4, <2>1, <2>2, <2>3 DEF Right
<1>5. ASSUME d = c, \A g \in call'[c].got : g.bits = Content(g.piece)
      PROVE  Right(d)'
  BY <1>1, <1>2, <1>3, <1>5 DEF Right
<1>6. CASE Dozes(c)
  <2>1. CASE d = c
    <3>1. InCall(c) /\ ~call[c].moved /\ call'[c].got = call[c].got
      BY <1>6, <2>1, DozesDoes
    <3>2. Right(c)
      BY <1>1, <3>1 DEF Got
    <3> QED BY <1>5, <2>1, <3>1, <3>2 DEF Right
  <2>2. CASE d # c
    BY <1>4, <1>6, <2>2, DozesDoes
  <2> QED BY <2>1, <2>2
<1>7. ASSUME NEW mine, NEW queue, Leaves(c, mine, queue)
      PROVE  Right(d)'
  <2>1. PICK how \in {"ended", "failed"} : call' = [call EXCEPT ![c] = Over(mine, how)]
    BY <1>7 DEF Leaves
  <2>2. /\ call'[c].tool = mine.tool /\ call'[c].phase = how
        /\ \A e \in Clients \ {c} : Same(e) /\ call'[e] = call[e]
    BY ONLY c \in Clients, IInv, <2>1, LeavesDoes, Zenon
  <2>3. d # c
    BY <2>2 DEF InCall
  <2> QED BY <1>4, <2>2, <2>3
<1>8. ASSUME NEW mine, NEW queue, Starts(c, mine, queue) \/ Continues(c, mine, queue),
             Sends(c, mine, queue)
      PROVE  Right(d)'
  <2>1. PICK k \in DOMAIN Script[mine.tool] : \E kind : call' = Meeting(c, kind, At(mine, k))
    BY <1>8 DEF Sends
  <2>2. IInv /\ IsCall(mine)
    BY <1>8, TurnIsOfCall
  <2>3. /\ call'[c].got = mine.got /\ call'[c].moved = mine.moved
        /\ \A e \in Clients \ {c} :
              Same(e) /\ call'[e].got = call[e].got /\ call'[e].moved = call[e].moved
    BY ONLY c \in Clients, <2>1, <2>2, MeetingDoes
  <2>4. CASE d # c
    BY <1>4, <2>3, <2>4
  <2>5. CASE d = c
    <3>1. CASE Starts(c, mine, queue)
      <4>1. mine.got = {}
        BY <3>1 DEF Starts, NewCall
      <4> QED BY <1>5, <2>3, <2>5, <4>1
    <3>2. CASE Continues(c, mine, queue)
      <4>1. InCall(c) /\ ~call[c].moved
        BY <2>3, <2>5, <3>2 DEF Continues
      <4>2. Right(c)
        BY <1>1, <4>1 DEF Got
      <4>3. \A g \in mine.got : g \in call[c].got \/ g \in Found(StepOf(c), reply[c])
        BY <3>2 DEF Continues
      <4>4. \A g \in mine.got : g.bits = Content(g.piece)
        BY <4>2, <4>3, FoundIsRight DEF Right
      <4> QED BY <1>5, <2>3, <2>5, <4>4
    <3> QED BY <1>8, <3>1, <3>2
  <2> QED BY <2>4, <2>5
<1> QED BY <1>6, <1>7, <1>8 DEF Turn

\* GDB answers with what the target holds; once the target moves nothing is claimed.
LEMMA OthersRight ==
  ASSUME FullInv, \/ (\E c \in Clients : GivesUp(c)) \/ ExecutesAsk \/ ExecutesConsole
               \/ Resumes \/ Halts \/ Disconnects \/ UNCHANGED vars
  PROVE  Got'
<1> USE DEF FullInv
<1> SUFFICES ASSUME timeouts' = 0, NEW d \in Clients, InCall(d)', ~call'[d].moved
             PROVE  Right(d)'
  BY DEF Got
<1>1. Same(d) /\ call'[d].got = call[d].got
  BY OthersDo
<1>2. StepOf(d)' = StepOf(d) /\ InCall(d)
  BY <1>1, SameStep
<1>3. IsCall(call[d]) /\ call = [c \in Clients |-> call[c]]
  BY DEF IInv, Shape
<1>4. ASSUME timeouts = 0, status' = status, call'[d].moved = call[d].moved,
             reply'[d] # reply[d] /\ "form" \in DOMAIN reply'[d] =>
                 reply'[d].bits = Content(StepOf(d).piece)
      PROVE  Right(d)'
  <2>1. Right(d)
    BY <1>2, <1>4 DEF Got
  <2>2. \A piece : Content(piece)' = Content(piece)
    BY <1>4 DEF Content
  <2> QED BY <1>1, <1>2, <1>4, <2>1, <2>2 DEF Right
<1>5. CASE UNCHANGED vars
  BY <1>4, <1>5 DEF vars, linkVars
<1>6. ASSUME NEW c \in Clients, GivesUp(c) PROVE FALSE
  <2>1. timeouts \in Nat
    BY LinkAssumption DEF Types
  <2> QED BY <1>6, <2>1 DEF GivesUp, TimesOut
<1>7. CASE Resumes \/ Halts
  <2>1. call'[d].moved = InCall(d)
    <3>1. CASE Resumes
      <4>1. call'[d] = [call[d] EXCEPT !.moved = InCall(d)]
        BY <3>1 DEF Resumes
      <4> HIDE DEF InCall
      <4> QED BY <1>3, <4>1 DEF IsCall, Fields
    <3>2. CASE Halts
      <4>1. call'[d] = [call[d] EXCEPT !.moved = InCall(d), !.disturbed = @ \/ InRaw(d)]
        BY <3>2, Zenon DEF Halts
      <4> QED BY <1>3, <4>1 DEF IsCall, Fields
    <3> QED BY <1>7, <3>1, <3>2
  <2> QED BY <1>2, <2>1, Zenon
<1>8. CASE Disconnects
  <2>1. [kind |-> "closed"] = [kind |-> "closed"] /\ "form" \notin DOMAIN [kind |-> "closed"]
    OBVIOUS
  <2>2. reply'[d] = reply[d] \/ "form" \notin DOMAIN reply'[d]
    BY <1>8, <2>1 DEF Disconnects
  <2> QED BY <1>4, <1>8, <2>2 DEF Disconnects
<1>9. CASE ExecutesAsk \/ ExecutesConsole
  <2>1. /\ timeouts' = timeouts /\ pipe # <<>> /\ status' = status
    BY <1>9, ExecutesDo DEF ExecutesAsk, ExecutesConsole
  <2> DEFINE q == Head(pipe)
             full == [kind |-> "done", form |-> q.form, bits |-> Content(q.piece)]
  <2>2. call'[d].moved = call[d].moved
    <3>1. CASE call' = call
      BY <3>1
    <3>2. CASE ExecutesConsole
      <4> DEFINE e == q.client
      <4>1. PICK n : call' = IF e = Nobody THEN call ELSE [call EXCEPT ![e].wrote = n]
        BY <3>2 DEF ExecutesConsole
      <4> HIDE DEF e
      <4>2. call'[d] = call[d] \/ call'[d] = [call[d] EXCEPT !.wrote = n]
        BY <1>3, <4>1
      <4> QED BY <1>3, <4>2 DEF IsCall, Fields
    <3> QED BY <1>9, <3>1, <3>2 DEF ExecutesAsk
  <2>3. PICK answer \in {Done, GdbError, full} : Answers(answer)
    BY <1>9 DEF ExecutesAsk, ExecutesConsole
  <2>4. "form" \notin DOMAIN Done /\ "form" \notin DOMAIN GdbError
    BY DEF Done, GdbError
  <2>5. full.bits = Content(q.piece)
    OBVIOUS
  <2> HIDE DEF full
  <2>6. PICK e : Answered(e, answer)
    BY <2>1, <2>3, AnswersDo
  <2>7. ASSUME reply'[d] # reply[d], "form" \in DOMAIN reply'[d]
        PROVE  reply'[d].bits = Content(StepOf(d).piece)
    <3>1. e = d /\ d # Nobody /\ reply'[d] = answer
      BY <2>6, <2>7 DEF Answered, Linked
    <3>2. answer = full
      BY <2>3, <2>4, <2>7, <3>1
    <3>3. d = q.client
      BY <2>1, <2>6, <3>1 DEF Answered
    <3>4. Sent(q)
      <4>1. \E S : pipe \in Seq(S)
        BY DEF Linked
      <4>2. q = pipe[1] /\ 1 \in DOMAIN pipe
        BY <2>1, <4>1
      <4> QED BY <3>1, <3>3, <4>2 DEF Linked
    <3> QED BY <2>5, <3>1, <3>2, <3>3, <3>4 DEF Sent
  <2> QED BY <1>4, <2>1, <2>2, <2>7
<1> QED BY <1>5, <1>6, <1>7, <1>8, <1>9

-----------------------------------------------------------------------------
(* What raw_command finds in the queue is its own. *)

\* An empty queue is what a command that has printed nothing leaves.
LEMMA NothingPrinted == Len(<<>>) = 0 /\ Min({0, QueueSize}) = 0
<1>1. QueueSize \in Nat
  BY InspectionAssumption
<1>2. Min({0, QueueSize}) \in {0, QueueSize} /\ Min({0, QueueSize}) <= 0
  <2>1. \E x \in {0, QueueSize} : \A y \in {0, QueueSize} : x <= y
    BY <1>1
  <2> QED BY <2>1 DEF Min
<1> QED BY <1>1, <1>2

\* A console command that begins disturbs the raw commands that run.
LEMMA TurnAlone ==
  ASSUME FullInv, NEW c \in Clients, Turn(c)
  PROVE  Own'
<1> USE DEF FullInv
<1> SUFFICES ASSUME timeouts' = 0, connected', NEW d \in Clients, InRaw(d)', ~call'[d].disturbed
             PROVE  Alone(d)'
  BY DEF Own
<1>1. timeouts = 0 /\ connected
  BY DEF Turn
<1>2. ASSUME d # c, Same(d), call'[d].wrote = call[d].wrote, ~call[d].disturbed,
             \A e \in Clients \ {c} : Same(e),
             ~InConsole(c) => ~InConsole(c)',
             console' = console \/ (console' = <<>> /\ call[c].phase = "sleeping"),
             \A j \in DOMAIN pipe' : pipe'[j].client = d => \E i \in DOMAIN pipe : pipe[i].client = d
      PROVE  Alone(d)'
  <2>1. InRaw(d)
    BY <1>2, SameStep
  <2>2. Alone(d)
    BY <1>1, <1>2, <2>1 DEF Own
  <2>3. ~InConsole(c)
    BY <1>2, <2>2 DEF Alone
  <2>4. console' = console
    <3>1. call[c].phase # "sleeping"
      BY <2>3 DEF InConsole, InCall, IInv, Sleeps
    <3> QED BY <1>2, <3>1
  <2>5. \A e \in Clients \ {d} : ~InConsole(e)'
    <3> SUFFICES ASSUME NEW e \in Clients \ {d} PROVE ~InConsole(e)'
      OBVIOUS
    <3>1. CASE e = c
      BY <1>2, <2>3, <3>1
    <3>2. CASE e # c
      BY <1>2, <2>2, <3>2, SameStep DEF Alone
    <3> QED BY <3>1, <3>2
  <2> QED BY <1>2, <2>2, <2>4, <2>5 DEF Alone
<1>3. CASE Dozes(c)
  <2>1. /\ pipe' = pipe /\ console' = console
    BY <1>3 DEF Dozes
  <2>2. CASE d # c
    BY <1>2, <1>3, <2>1, <2>2, DozesDoes
  <2>3. CASE d = c
    <3>1. InRaw(c) /\ ~call[c].disturbed /\ call'[c].wrote = call[c].wrote
      BY <1>3, <2>3, DozesDoes
    <3>2. Alone(c)
      BY <1>1, <3>1 DEF Own
    <3>3. \A e \in Clients \ {c} : InConsole(e)' <=> InConsole(e)
      BY <1>3, DozesDoes, SameStep
    <3> QED BY <2>1, <2>3, <3>1, <3>2, <3>3 DEF Alone
  <2> QED BY <2>2, <2>3
<1>4. ASSUME NEW mine, NEW queue, Starts(c, mine, queue) \/ Continues(c, mine, queue)
      PROVE  queue = console \/ (queue = <<>> /\ call[c].phase = "sleeping")
  BY <1>4 DEF Starts, Continues
<1>5. ASSUME NEW mine, NEW queue, Starts(c, mine, queue) \/ Continues(c, mine, queue),
             Leaves(c, mine, queue)
      PROVE  Alone(d)'
  <2>1. PICK how \in {"ended", "failed"} : call' = [call EXCEPT ![c] = Over(mine, how)]
    BY <1>5 DEF Leaves
  <2>2. /\ call'[c].tool = mine.tool /\ call'[c].phase = how
        /\ \A e \in Clients \ {c} : Same(e) /\ call'[e] = call[e]
    BY ONLY c \in Clients, IInv, <2>1, LeavesDoes, Zenon
  <2>3. d # c /\ ~InConsole(c)'
    BY <2>2 DEF InRaw, InConsole, InCall
  <2>4. console' = queue /\ pipe' = pipe
    BY <1>5 DEF Leaves
  <2> QED BY <1>2, <1>4, <1>5, <2>2, <2>3, <2>4
<1>6. ASSUME NEW mine, NEW queue, Starts(c, mine, queue) \/ Continues(c, mine, queue),
             Sends(c, mine, queue)
      PROVE  Alone(d)'
  <2> DEFINE Of(k) == Script[mine.tool][k]
             Entry(k) == [client |-> c, cmd |-> Of(k).kind, piece |-> Of(k).piece, form |-> Of(k).form]
  <2>1. PICK k \in DOMAIN Script[mine.tool] :
          /\ call' = Meeting(c, Of(k).kind, At(mine, k)) /\ pipe' = Append(pipe, Entry(k))
          /\ console' = IF Of(k).kind = "raw" THEN <<>> ELSE queue
    BY <1>6 DEF Sends
  <2>2. IInv /\ IsCall(mine)
    BY <1>6, TurnIsOfCall
  <2> PICK kind : kind = Of(k).kind
    OBVIOUS
  <2>3. call' = Meeting(c, kind, At(mine, k))
    BY <2>1
  <2>4. /\ call'[c].tool = mine.tool /\ call'[c].at = k /\ call'[c].phase = "waiting"
        /\ call'[c].got = mine.got /\ call'[c].moved = mine.moved /\ call'[c].wrote = 0
        /\ ~call'[c].disturbed => \A e \in Clients \ {c} : ~InConsole(e)
        /\ \A e \in Clients \ {c} :
              /\ Same(e) /\ call'[e].got = call[e].got
              /\ call'[e].moved = call[e].moved /\ call'[e].wrote = call[e].wrote
              /\ ~call'[e].disturbed => ~call[e].disturbed /\ (kind = "ask" \/ ~InRaw(e))
    BY ONLY c \in Clients, <2>2, <2>3, MeetingDoes
  <2>5. StepOf(c)'.kind = kind
    BY <2>4 DEF StepOf
  <2>6. CASE d = c
    <3>1. kind = "raw" /\ console' = <<>>
      BY <2>1, <2>5, <2>6 DEF InRaw
    <3>2. \A e \in Clients \ {c} : ~InConsole(e)'
      BY <2>4, <2>6, SameStep
    <3>3. Len(console') = Min({call'[c].wrote, QueueSize})
      BY <2>4, <3>1, NothingPrinted
    <3>4. \A i \in DOMAIN console' : console'[i].by = c
      BY <3>1
    <3> QED BY <2>6, <3>1, <3>2, <3>3, <3>4 DEF Alone
  <2>7. CASE d # c
    <3>1. InRaw(d) /\ ~call[d].disturbed /\ kind = "ask"
      BY <2>4, <2>7, SameStep
    <3>2. ~InConsole(c)'
      BY <2>5, <3>1 DEF InConsole
    <3>3. console' = queue
      BY <2>1, <3>1
    <3>4. \A j \in DOMAIN pipe' : pipe'[j].client = d => \E i \in DOMAIN pipe : pipe[i].client = d
      <4>1. PICK S : pipe \in Seq(S)
        BY DEF Linked
      <4>2. PICK e : e = Entry(k)
        OBVIOUS
      <4>3. e.client = c
        BY <4>2
      <4>4. \A j \in DOMAIN pipe' : pipe'[j] = e \/ (j \in DOMAIN pipe /\ pipe'[j] = pipe[j])
        BY <2>1, <4>1, <4>2
      <4> QED BY <2>7, <4>3, <4>4
    <3> QED BY <1>2, <1>4, <1>6, <2>4, <2>7, <3>1, <3>2, <3>3, <3>4
  <2> QED BY <2>6, <2>7
<1> QED BY <1>3, <1>5, <1>6 DEF Turn

\* A raw command that is alone prints into an empty queue.
LEMMA OthersAlone ==
  ASSUME FullInv, \/ (\E c \in Clients : GivesUp(c)) \/ ExecutesAsk \/ ExecutesConsole
               \/ Resumes \/ Halts \/ Disconnects \/ UNCHANGED vars
  PROVE  Own'
<1> USE DEF FullInv
<1> SUFFICES ASSUME timeouts' = 0, connected', NEW d \in Clients, InRaw(d)', ~call'[d].disturbed
             PROVE  Alone(d)'
  BY DEF Own
<1>1. \A e \in Clients : Same(e)
  BY OthersDo
<1>2. InRaw(d) /\ \A e \in Clients : InConsole(e)' <=> InConsole(e)
  BY <1>1, SameStep
<1>3. \A e \in Clients : IsCall(call[e])
  BY DEF IInv, Shape
<1>4. ASSUME timeouts = 0, connected, ~call[d].disturbed
      PROVE  Alone(d)
  BY <1>2, <1>4 DEF Own
<1>5. ASSUME timeouts = 0, connected, ~call[d].disturbed, call'[d].wrote = call[d].wrote,
             console' = console,
             \A j \in DOMAIN pipe' : pipe'[j].client = d => \E i \in DOMAIN pipe : pipe[i].client = d
      PROVE  Alone(d)'
  BY <1>2, <1>4, <1>5 DEF Alone
<1>6. CASE UNCHANGED vars
  BY <1>5, <1>6 DEF vars, linkVars
<1>7. ASSUME NEW c \in Clients, GivesUp(c) PROVE FALSE
  <2>1. timeouts \in Nat
    BY LinkAssumption DEF Types
  <2> QED BY <1>7, <2>1 DEF GivesUp, TimesOut
<1>8. CASE Resumes
  <2>1. call'[d] = [call[d] EXCEPT !.moved = InCall(d)]
    BY <1>8 DEF Resumes
  <2> HIDE DEF InCall
  <2>2. call'[d].wrote = call[d].wrote /\ call'[d].disturbed = call[d].disturbed
    BY <1>3, <2>1 DEF IsCall, Fields
  <2> QED BY <1>5, <1>8, <2>2 DEF Resumes, linkVars
<1>9. CASE Halts
  <2>1. call'[d] = [call[d] EXCEPT !.moved = InCall(d), !.disturbed = @ \/ InRaw(d)]
    BY <1>9, Zenon DEF Halts
  <2>2. PICK b : b = (call[d].disturbed \/ InRaw(d))
    OBVIOUS
  <2>3. call'[d].disturbed = b
    BY <1>3, <2>1, <2>2 DEF IsCall, Fields
  <2>4. b
    BY <1>2, <2>2, Zenon
  <2> QED BY <2>3, <2>4
<1>10. CASE Disconnects
  BY <1>10 DEF Disconnects
<1>11. CASE ExecutesAsk \/ ExecutesConsole
  <2>1. pipe # <<>> /\ timeouts = 0
    BY <1>11, ExecutesDo
  <2>2. PICK answer : Answers(answer)
    BY <1>11, ExecutesDo
  <2>3. PICK e : Answered(e, answer)
    BY <2>1, <2>2, AnswersDo
  <2>4. \A j \in DOMAIN pipe' : pipe'[j].client # Nobody =>
           j + 1 \in DOMAIN pipe /\ pipe'[j] = pipe[j + 1] /\ pipe'[j].client # e
    BY <2>3 DEF Answered
  <2>5. d # Nobody
    BY LinkAssumption DEF Nobody
  <2>6. CASE ExecutesAsk
    <3>1. /\ console' = console /\ call' = call /\ connected
      BY <2>6 DEF ExecutesAsk
    <3>2. \A j \in DOMAIN pipe' : pipe'[j].client = d => \E i \in DOMAIN pipe : pipe[i].client = d
      BY <2>4, <2>5
    <3> QED BY <1>5, <2>1, <3>1, <3>2
  <2>7. CASE ExecutesConsole
    <3> DEFINE q == Head(pipe)
               l == Line(q.client)
    <3>1. PICK n \in Lines :
            /\ console' = Queued(console, [i \in 1..n |-> l])
            /\ call' = IF q.client = Nobody THEN call ELSE [call EXCEPT ![q.client].wrote = n]
      BY <2>7 DEF ExecutesConsole
    <3>2. q.cmd \in {"raw", "print"} /\ connected
      BY <2>7 DEF ExecutesConsole
    <3>3. l.by = q.client
      BY DEF Line
    <3> HIDE DEF l
    <3>4. q = pipe[1] /\ 1 \in DOMAIN pipe
      <4>1. \E S : pipe \in Seq(S)
        BY DEF Linked
      <4> QED BY <2>1, <4>1
    <3>5. Sent(q) /\ q.client # Nobody
      BY <2>1, <3>4 DEF Linked
    <3>6. InConsole(q.client) /\ q.client \in Clients
      BY <3>2, <3>5 DEF Sent, InConsole, InCall
    <3>7. \A c \in Clients : call'[c] = call[c] \/ call'[c] = [call[c] EXCEPT !.wrote = n]
      BY <3>1 DEF IInv, Shape
    <3>8. call'[d].disturbed = call[d].disturbed
      BY <1>3, <3>7 DEF IsCall, Fields
    <3>9. Alone(d)
      BY <1>4, <2>1, <3>2, <3>8
    <3>10. q.client = d
      BY <3>6, <3>9 DEF Alone
    <3>11. console = <<>>
      BY <3>4, <3>9, <3>10 DEF Alone
    <3>12. call'[d].wrote = n
      <4>1. call' = [call EXCEPT ![d].wrote = n]
        BY <3>1, <3>5, <3>10
      <4> QED BY <1>3, <4>1 DEF IInv, Shape, IsCall, Fields
    <3>13. n \in Nat
      BY InspectionAssumption
    <3>14. PICK more : more = [i \in 1..n |-> l]
      OBVIOUS
    <3>15. more \in Seq({l}) /\ Len(more) = n /\ \A i \in DOMAIN more : more[i] = l
      BY <3>13, <3>14
    <3>16. console' = Queued(<<>>, more)
      BY <3>1, <3>11, <3>14
    <3>17. <<>> \in Seq({}) /\ Len(<<>>) = 0 /\ DOMAIN <<>> = {}
      OBVIOUS
    <3>18. Len(console') = Min({QueueSize, Len(<<>>) + Len(more)})
      BY <3>15, <3>16, <3>17, QueuedSize
    <3>19. {QueueSize, Len(<<>>) + Len(more)} = {n, QueueSize}
      BY <3>13, <3>15, <3>17
    <3>20. \A i \in DOMAIN console' : console'[i] = l
      <4>1. \A i \in DOMAIN console' : \/ \E j \in DOMAIN <<>> : console'[i] = <<>>[j]
                                      \/ \E j \in DOMAIN more : console'[i] = more[j]
        BY <3>15, <3>16, <3>17, QueuedLines
      <4> QED BY <3>15, <3>17, <4>1
    <3>21. \A j \in DOMAIN pipe' : pipe'[j].client # d
      BY <2>1, <2>3, <2>4, <2>5, <3>10 DEF Answered
    <3>22. \A e1 \in Clients \ {d} : ~InConsole(e1)'
      BY <1>2, <3>9 DEF Alone
    <3>23. Len(console') = Min({call'[d].wrote, QueueSize})
      BY <3>12, <3>18, <3>19
    <3> QED BY <3>3, <3>10, <3>20, <3>21, <3>22, <3>23 DEF Alone
  <2> QED BY <1>11, <2>6, <2>7
<1> QED BY <1>6, <1>7, <1>8, <1>9, <1>10, <1>11

-----------------------------------------------------------------------------

\* The invariant holds initially.
LEMMA InitFullInv == Init => FullInv
<1> SUFFICES ASSUME Init PROVE FullInv
  OBVIOUS
<1>1. IInv
  BY InitIInv
<1>2. /\ pipe = <<>> /\ timeouts = 0 /\ reply = [c \in Clients |-> Nothing]
      /\ connected = TRUE /\ running \in BOOLEAN /\ runs = 0 /\ console = <<>>
      /\ status \in {StatusOf(f) : f \in Faults}
      /\ calls = [c \in Clients |-> 0]
      /\ call = [c \in Clients |-> [NewCall(Idle) EXCEPT !.phase = Idle]]
  BY DEF Init, LinkInit
<1>3. \A c \in Clients : call[c].phase = Idle /\ call[c].tool = Idle /\ ~InCall(c)
  BY <1>2 DEF NewCall, Idle, InCall
<1>4. Linked
  <2>1. <<>> \in Seq({}) /\ DOMAIN <<>> = {}
    OBVIOUS
  <2> QED BY <1>2, <2>1 DEF Linked
<1>5. Types
  <2>1. QueueSize \in Nat /\ MaxCalls \in Nat /\ MaxRuns \in Nat /\ MaxTimeouts \in Nat
    BY InspectionAssumption, LinkAssumption
  <2>2. /\ timeouts \in 0..MaxTimeouts /\ runs \in 0..MaxRuns
        /\ calls \in [Clients -> 0..MaxCalls] /\ \A c \in Clients : calls[c] = 0
        /\ connected \in BOOLEAN /\ Len(console) <= QueueSize
    BY <1>2, <2>1
  <2> QED BY <1>2, <1>3, <2>2 DEF Types
<1>6. Own /\ Got /\ AlwaysReports
  BY <1>3 DEF Own, Got, AlwaysReports, InRaw, Idle
<1> QED BY <1>1, <1>4, <1>5, <1>6 DEF FullInv

\* Every step keeps the invariant.
LEMMA StepFullInv == FullInv /\ [Next]_vars => FullInv'
<1> SUFFICES ASSUME FullInv, [Next]_vars PROVE FullInv'
  OBVIOUS
<1>1. IInv'
  BY StepIInv DEF FullInv
<1>2. ASSUME NEW c \in Clients, Turn(c) PROVE FullInv'
  BY <1>1, <1>2, TurnLinks, TurnTypes, TurnAlone, TurnRight, StepReports DEF FullInv
<1>3. ASSUME \/ (\E c \in Clients : GivesUp(c)) \/ ExecutesAsk \/ ExecutesConsole
             \/ Resumes \/ Halts \/ Disconnects \/ UNCHANGED vars
      PROVE  FullInv'
  <2>1. \A c \in Clients : Same(c)
    BY <1>3, OthersDo DEF FullInv
  <2> QED BY <1>1, <1>3, <2>1, OthersLink, OthersTypes, OthersAlone, OthersRight, StepReports DEF FullInv
<1>4. ASSUME NEW c \in Clients,
             (\E tool \in ToolsOf[c] : Begins(c, tool)) \/ Returns(c) \/ Collects(c)
      PROVE  FullInv'
  BY <1>2, <1>4, TurnDoes
<1> QED BY <1>3, <1>4 DEF Next, Finished

-----------------------------------------------------------------------------

\* The variables keep to their types: the queue to its size, every call to a tool of its
\* client and to a step of its script, and who does not wait has no answer.
THEOREM TypeCorrect == Spec => []TypeOK
<1>1. Init => FullInv
  BY InitFullInv
<1>2. FullInv /\ [Next]_vars => FullInv'
  BY StepFullInv
<1>3. FullInv => TypeOK
  <2> SUFFICES ASSUME FullInv PROVE TypeOK
    OBVIOUS
  <2>1. calls \in [Clients -> 0..MaxCalls]
    BY DEF FullInv, Types
  <2>2. \A c \in Clients : calls[c] > 0 => calls[c] # 0
    BY <2>1
  <2> QED BY <2>1, <2>2 DEF FullInv, Types, Linked, TypeOK
<1> QED BY <1>1, <1>2, <1>3, PTL DEF Spec

\* raw_command returns the output of its own command, whole as far as the queue holds it,
\* unless another console command overlapped, the target stopped or a command timed out.
THEOREM OutputIsOwn == Spec => OwnOutput
<1>1. Init => FullInv
  BY InitFullInv
<1>2. FullInv /\ [Next]_vars => FullInv'
  BY StepFullInv
<1>3. FullInv => \A c \in Clients : Collected(c) /\ ~call[c].disturbed /\ timeouts = 0 =>
                 /\ \A i \in DOMAIN Output : Output[i].by = c
                 /\ Len(Output) = Min({call[c].wrote, QueueSize})
  <2> SUFFICES ASSUME FullInv, NEW c \in Clients, Collected(c), ~call[c].disturbed, timeouts = 0
               PROVE  /\ \A i \in DOMAIN Output : Output[i].by = c
                      /\ Len(Output) = Min({call[c].wrote, QueueSize})
    OBVIOUS
  <2>1. InRaw(c) /\ connected
    BY DEF Collected, FullInv, IInv, Sleeps, InRaw, InCall
  <2>2. Alone(c)
    BY <2>1 DEF FullInv, Own
  <2> QED BY <2>2 DEF Alone, Output
<1> QED BY <1>1, <1>2, <1>3, PTL DEF Spec, OwnOutput

\* fault_analyze gives its report whatever happens on the way.
THEOREM ReportAlwaysComes == Spec => []AlwaysReports
<1>1. Init => FullInv
  BY InitFullInv
<1>2. FullInv /\ [Next]_vars => FullInv'
  BY StepFullInv
<1>3. FullInv => AlwaysReports
  BY DEF FullInv
<1> QED BY <1>1, <1>2, <1>3, PTL DEF Spec

\* A register that was read is taken to hold what the target holds.
LEMMA ReadIsRight ==
  ASSUME NEW c, Right(c), NEW r, r \in {g.piece : g \in call[c].got}
  PROVE  RawReg(c, r) = Content(r)
<1> DEFINE G == {h \in call[c].got : h.piece = r}
<1>1. \A g \in G : g.bits = Content(r)
  BY DEF Right
<1>2. PICK g \in call[c].got : g.piece = r
  OBVIOUS
<1>3. {h.bits : h \in G} = {Content(r)}
  <2>1. g \in G
    BY <1>2
  <2> HIDE DEF G
  <2> QED BY <1>1, <2>1
<1>4. RawReg(c, r) = UNION {Content(r)}
  BY <1>3 DEF RawReg
<1> QED BY <1>4

\* If the target stayed where it was and nothing timed out, what fault_analyze explains is
\* what happened, and the address of a bus fault is shown when the core vouches for it.
THEOREM FaultsAreExplained == Spec => FaultsExplained
<1>1. Init => FullInv
  BY InitFullInv
<1>2. FullInv /\ [Next]_vars => FullInv'
  BY StepFullInv
<1> DEFINE Explained(c) ==
             /\ \A b \in Diagnosed : b \in status.cfsr <=> b \in Report(c).sentences
             /\ "FORCED" \in status.hfsr /\ status.cfsr = {} => Report(c).generic
             /\ Read(c, {"BFAR"}) =>
                   (Report(c).bfar # {} <=> status.bfar # {} /\ "BFARVALID" \in status.cfsr)
<1>3. FullInv => \A c \in Clients :
        Reports(c) /\ ~call[c].moved /\ timeouts = 0 /\ Read(c, {"CFSR", "HFSR"}) => Explained(c)
  <2> SUFFICES ASSUME FullInv, NEW c \in Clients, Reports(c), ~call[c].moved, timeouts = 0,
                      Read(c, {"CFSR", "HFSR"})
               PROVE  Explained(c)
    OBVIOUS
  <2>1. Right(c)
    BY DEF FullInv, Got, Reports
  <2>2. RawReg(c, "CFSR") = status.cfsr /\ RawReg(c, "HFSR") = status.hfsr
    <3>1. RawReg(c, "CFSR") = Content("CFSR") /\ RawReg(c, "HFSR") = Content("HFSR")
      BY <2>1, ReadIsRight DEF Read
    <3> QED BY <3>1 DEF Content
  <2>3. Read(c, {"BFAR"}) => RawReg(c, "BFAR") = status.bfar
    <3>1. Read(c, {"BFAR"}) => RawReg(c, "BFAR") = Content("BFAR")
      BY <2>1, ReadIsRight DEF Read
    <3> QED BY <3>1 DEF Content
  <2> DEFINE raw == [r \in ToSet(FaultRegs) |-> RawReg(c, r)]
  <2>4. {"CFSR", "HFSR", "BFAR"} \subseteq ToSet(FaultRegs)
    BY DEF ToSet, FaultRegs
  <2>5. /\ raw["CFSR"] = status.cfsr /\ raw["HFSR"] = status.hfsr
        /\ raw["BFAR"] = RawReg(c, "BFAR")
    BY <2>2, <2>4
  <2>6. Report(c) = Diagnosis(raw)
    BY DEF Report
  <2> HIDE DEF raw
  <2>7. /\ Report(c).sentences = status.cfsr \cap Diagnosed
        /\ Report(c).generic = (status.cfsr \cap Diagnosed = {} /\ "FORCED" \in status.hfsr)
        /\ Report(c).bfar = IF "BFARVALID" \in status.cfsr THEN raw["BFAR"] ELSE {}
    BY <2>5, <2>6 DEF Diagnosis, Sentences
  <2>8. \A b \in Diagnosed : b \in status.cfsr <=> b \in Report(c).sentences
    BY <2>7
  <2>9. "FORCED" \in status.hfsr /\ status.cfsr = {} => Report(c).generic
    BY <2>7
  <2>10. Read(c, {"BFAR"}) =>
           (Report(c).bfar # {} <=> status.bfar # {} /\ "BFARVALID" \in status.cfsr)
    BY <2>3, <2>5, <2>7
  <2> QED BY <2>8, <2>9, <2>10
<1> QED BY <1>1, <1>2, <1>3, PTL DEF Spec, FaultsExplained

=============================================================================
