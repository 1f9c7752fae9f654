------------------------- MODULE MIConnectionProofs -------------------------
(***************************************************************************)
(* Proofs about MIConnection, for any number of callers and stoppers, any  *)
(* queue size, and no bound that matters on tokens or pipes.               *)
(***************************************************************************)
EXTENDS MIConnection, SequenceTheorems, TLAPS

\* A process, a reader and a stop() in progress come in this order: a start() that is
\* over, a process exactly while the state is not "disconnected", a reader that reads
\* only while there is a process and it has not given up, and no stop() past its join
\* while the reader reads.
Life ==
  /\ start = "done" <=> reader # "none"
  /\ process = "set" => start = "done"
  /\ process = "none" <=> conn_state = "disconnected"
  /\ reader = "reading" => process = "set"
  /\ conn_state = "exited" => reader # "reading"
  /\ \A s \in Stoppers : stop[s] = "locking" => start = "done"
  /\ \A s \in Stoppers : stop[s] \in {"joining", "exiting"} => reader \notin {"none", "reading"}

\* The tokens of the calls in progress have been issued, no two calls share one, and
\* a call whose timer fired has a future that is done.
Tokens ==
  /\ \A c \in Callers : call[c].pc \in Active => call[c].token < token_counter
  /\ \A c, d \in Callers :
       call[c].pc \in Active /\ call[d].pc \in Active /\ c # d
         => call[c].token # call[d].token
  /\ \A c \in Callers :
       call[c].pc \in {"expired", "interrupting"} => call[c].future # "unset"

\* Without a process there is no token in the table.
EmptyWithoutProcess == process = "none" => pending = {}

IInv ==
  /\ TypeOK
  /\ Life
  /\ PendingInStep
  /\ Tokens
  /\ NobodyStranded
  /\ EmptyWithoutProcess

-----------------------------------------------------------------------------
(* What the helpers on the table do. *)

\* Leaving out position k moves the later elements one place down.
LEMMA RemoveAtEffect ==
  ASSUME NEW S, NEW s \in Seq(S), NEW k \in 1 .. Len(s)
  PROVE  /\ RemoveAt(s, k) \in Seq(S)
         /\ Len(RemoveAt(s, k)) = Len(s) - 1
         /\ \A j \in 1 .. Len(s) - 1 :
              RemoveAt(s, k)[j] = IF j < k THEN s[j] ELSE s[j + 1]
<1> DEFINE front == SubSeq(s, 1, k - 1)
           back == SubSeq(s, k + 1, Len(s))
<1>1. /\ front \in Seq(S) /\ Len(front) = k - 1
      /\ \A j \in 1 .. k - 1 : front[j] = s[j]
  OBVIOUS
<1>2. /\ back \in Seq(S) /\ Len(back) = Len(s) - k
      /\ \A j \in 1 .. Len(s) - k : back[j] = s[k + j]
  OBVIOUS
<1>3. RemoveAt(s, k) = front \o back
  BY DEF RemoveAt
<1> HIDE DEF front, back
<1>4. /\ front \o back \in Seq(S)
      /\ Len(front \o back) = Len(s) - 1
      /\ \A j \in 1 .. Len(s) - 1 :
           (front \o back)[j] = IF j <= k - 1 THEN front[j] ELSE back[j - (k - 1)]
  <2>1. /\ Len(front \o back) = Len(front) + Len(back)
        /\ \A j \in 1 .. Len(front) + Len(back) :
             (front \o back)[j] = IF j <= Len(front) THEN front[j]
                                  ELSE back[j - Len(front)]
    BY <1>1, <1>2, ConcatProperties
  <2>2. Len(front) + Len(back) = Len(s) - 1
    BY <1>1, <1>2
  <2> QED BY <1>1, <1>2, <2>1, <2>2, ConcatProperties
<1>5. ASSUME NEW j \in 1 .. Len(s) - 1
      PROVE  (front \o back)[j] = IF j < k THEN s[j] ELSE s[j + 1]
  <2>1. CASE j < k
    BY <2>1, <1>1, <1>4
  <2>2. CASE ~ (j < k)
    <3>1. j - (k - 1) \in 1 .. Len(s) - k /\ k + (j - (k - 1)) = j + 1
      BY <2>2
    <3> QED BY <3>1, <2>2, <1>2, <1>4
  <2> QED BY <2>1, <2>2
<1> QED BY <1>3, <1>4, <1>5

\* Removing an element from a sequence leaves a sequence over the same set.
LEMMA RemoveTokenType ==
  ASSUME NEW S, NEW s \in Seq(S), NEW t
  PROVE  RemoveToken(s, t) \in Seq(S)
<1>1. CASE \E i \in DOMAIN s : s[i] = t
  <2>1. (CHOOSE i \in DOMAIN s : s[i] = t) \in 1 .. Len(s)
    BY <1>1
  <2> QED BY <1>1, <2>1, RemoveAtEffect DEF RemoveToken
<1> QED BY <1>1 DEF RemoveToken

\* Removing a token from an ascending list removes it altogether, and nothing else.
LEMMA RemoveTokenEffect ==
  ASSUME NEW s \in Seq(Nat), Ascending(s), NEW t
  PROVE  /\ Range(RemoveToken(s, t)) = Range(s) \ {t}
         /\ Ascending(RemoveToken(s, t))
<1>1. CASE ~ \E i \in DOMAIN s : s[i] = t
  BY <1>1 DEF RemoveToken, Range
<1>2. CASE \E i \in DOMAIN s : s[i] = t
  <2>1. PICK k \in 1 .. Len(s) : s[k] = t /\ RemoveToken(s, t) = RemoveAt(s, k)
    <3> DEFINE first == CHOOSE i \in DOMAIN s : s[i] = t
    <3>1. first \in DOMAIN s /\ s[first] = t
      BY <1>2
    <3>2. RemoveToken(s, t) = RemoveAt(s, first)
      BY <1>2 DEF RemoveToken
    <3> HIDE DEF first
    <3> QED BY <3>1, <3>2
  <2> DEFINE r == RemoveToken(s, t)
  <2>2. /\ r \in Seq(Nat) /\ Len(r) = Len(s) - 1 /\ DOMAIN r = 1 .. Len(s) - 1
        /\ \A j \in 1 .. Len(s) - 1 : r[j] = IF j < k THEN s[j] ELSE s[j + 1]
    <3>1. r = RemoveAt(s, k)
      BY <2>1
    <3> HIDE DEF r
    <3>2. /\ RemoveAt(s, k) \in Seq(Nat) /\ Len(RemoveAt(s, k)) = Len(s) - 1
          /\ \A j \in 1 .. Len(s) - 1 :
               RemoveAt(s, k)[j] = IF j < k THEN s[j] ELSE s[j + 1]
      BY RemoveAtEffect
    <3>3. DOMAIN r = 1 .. Len(s) - 1
      BY <3>1, <3>2
    <3> QED BY <3>1, <3>2, <3>3
  <2>3. \A i \in 1 .. Len(s) : s[i] \in Nat /\ (i # k => s[i] # t)
    BY <2>1 DEF Ascending
  <2> HIDE DEF r
  <2>4. Ascending(r)
    <3> SUFFICES ASSUME NEW i \in 1 .. Len(s) - 1, NEW j \in 1 .. Len(s) - 1, i < j
                 PROVE  r[i] < r[j]
      BY <2>2 DEF Ascending
    <3> DEFINE up(n) == IF n < k THEN n ELSE n + 1
    <3>1. up(i) \in 1 .. Len(s) /\ up(j) \in 1 .. Len(s) /\ up(i) < up(j)
      OBVIOUS
    <3>2. r[i] = s[up(i)] /\ r[j] = s[up(j)]
      BY <2>2
    <3> QED BY <3>1, <3>2 DEF Ascending
  <2>5. ASSUME NEW x \in Range(r) PROVE x \in Range(s) \ {t}
    <3>1. PICK j \in 1 .. Len(s) - 1 : x = r[j]
      BY <2>2 DEF Range
    <3>2. CASE j < k
      <4>1. j \in 1 .. Len(s) /\ j # k /\ x = s[j]
        BY <3>1, <3>2, <2>2
      <4> QED BY <4>1, <2>3 DEF Range
    <3>3. CASE ~ (j < k)
      <4>1. j + 1 \in 1 .. Len(s) /\ j + 1 # k /\ x = s[j + 1]
        BY <3>1, <3>3, <2>2
      <4> QED BY <4>1, <2>3 DEF Range
    <3> QED BY <3>2, <3>3
  <2>6. ASSUME NEW x \in Range(s) \ {t} PROVE x \in Range(r)
    <3>1. PICK i \in 1 .. Len(s) : s[i] = x /\ i # k
      BY <2>1 DEF Range
    <3>2. CASE i < k
      <4>1. i \in 1 .. Len(s) - 1 /\ r[i] = x
        BY <3>1, <3>2, <2>2
      <4> QED BY <4>1, <2>2 DEF Range
    <3>3. CASE i > k
      <4>1. i - 1 \in 1 .. Len(s) - 1 /\ ~ (i - 1 < k) /\ (i - 1) + 1 = i
        BY <3>3
      <4>2. r[i - 1] = x
        BY <4>1, <3>1, <2>2
      <4> QED BY <4>1, <4>2, <2>2 DEF Range
    <3> QED BY <3>1, <3>2, <3>3
  <2> QED BY <2>4, <2>5, <2>6 DEF r
<1> QED BY <1>1, <1>2

\* Popping the head of an ascending list removes exactly the oldest token.
LEMMA TailEffect ==
  ASSUME NEW s \in Seq(Nat), Ascending(s), s # <<>>
  PROVE  /\ Range(Tail(s)) = Range(s) \ {Head(s)}
         /\ Ascending(Tail(s))
         /\ Head(s) \in Range(s)
<1>1. /\ Tail(s) \in Seq(Nat) /\ Len(Tail(s)) = Len(s) - 1
      /\ DOMAIN Tail(s) = 1 .. Len(Tail(s)) /\ DOMAIN s = 1 .. Len(s)
      /\ \A j \in 1 .. Len(Tail(s)) : Tail(s)[j] = s[j + 1]
      /\ Head(s) = s[1] /\ Len(s) >= 1
  OBVIOUS
<1>2. Ascending(Tail(s)) /\ Head(s) \in Range(s)
  BY <1>1 DEF Ascending, Range
<1>3. \A x : x \in Range(Tail(s)) => x \in Range(s) \ {Head(s)}
  BY <1>1 DEF Ascending, Range
<1>4. ASSUME NEW x \in Range(s) \ {Head(s)} PROVE x \in Range(Tail(s))
  <2>1. PICK i \in 1 .. Len(s) : s[i] = x /\ i # 1
    BY <1>1 DEF Range
  <2>2. i - 1 \in 1 .. Len(Tail(s)) /\ Tail(s)[i - 1] = x
    BY <2>1, <1>1
  <2> QED BY <2>2, <1>1 DEF Range
<1> QED BY <1>2, <1>3, <1>4

\* Registering a token larger than all others keeps the list ascending.
LEMMA AppendEffect ==
  ASSUME NEW s \in Seq(Nat), Ascending(s), NEW t \in Nat, \A u \in Range(s) : u < t
  PROVE  /\ Range(Append(s, t)) = Range(s) \cup {t}
         /\ Ascending(Append(s, t))
<1>1. /\ Append(s, t) \in Seq(Nat) /\ Len(Append(s, t)) = Len(s) + 1
      /\ \A j \in 1 .. Len(s) : Append(s, t)[j] = s[j]
      /\ Append(s, t)[Len(s) + 1] = t
  OBVIOUS
<1>2. \A j \in 1 .. Len(s) : s[j] \in Range(s) /\ s[j] < t
  BY DEF Range
<1>3. Ascending(Append(s, t))
  BY <1>1, <1>2 DEF Ascending
<1>4. Range(Append(s, t)) = Range(s) \cup {t}
  BY <1>1 DEF Range
<1> QED BY <1>3, <1>4

-----------------------------------------------------------------------------
(* Type correctness. *)

\* Resolving or rejecting a future changes that future and no call's position.
LEMMA SetResultType ==
  ASSUME call \in [Callers -> CallRecord], NEW t, NEW class \in {"done", "error"},
         NEW answer \in Nat, SetResult(t, class, answer)
  PROVE  call' \in [Callers -> CallRecord]
<1>1. ASSUME NEW c \in Callers
      PROVE  [call[c] EXCEPT !.future = class, !.answer = answer] \in CallRecord
  BY DEF CallRecord, Futures
<1> QED BY <1>1 DEF SetResult

\* Rejecting the pending futures keeps every call a call record and empties the table.
LEMMA RejectType ==
  ASSUME call \in [Callers -> CallRecord], RejectAllPending
  PROVE  /\ call' \in [Callers -> CallRecord]
         /\ pending' = {} /\ pending_order' = <<>>
<1>1. ASSUME NEW c \in Callers
      PROVE  [call[c] EXCEPT !.future = "rejected"] \in CallRecord
  BY DEF CallRecord, Futures
<1> QED BY <1>1 DEF RejectAllPending

\* Writing a command, suspended in drain() or not, keeps calls, pipe and lock queue typed.
LEMMA WriteCommandType ==
  ASSUME TypeOK, NEW c \in Callers, NEW record \in CallRecord, NEW others \in Seq(Tasks),
         WriteCommand(c, record, others)
  PROVE  /\ call' \in [Callers -> CallRecord]
         /\ write_queue' \in Seq(Tasks)
         /\ stdin' \in Seq(Input)
<1>1. [record EXCEPT !.pc = "WriteError"] \in CallRecord
  BY DEF CallRecord, Finished, Outcomes
<1>2. [record EXCEPT !.pc = IF record.big THEN "draining" ELSE "waiting"] \in CallRecord
  BY DEF CallRecord, Active
<1>3. [token |-> record.token, text |-> "command"] \in Input
  BY DEF CallRecord, Input
<1>4. <<c>> \o others \in Seq(Tasks)
  BY DEF Tasks
<1> DEFINE lost == [record EXCEPT !.pc = "WriteError"]
           sent == [record EXCEPT !.pc = IF record.big THEN "draining" ELSE "waiting"]
           item == [token |-> record.token, text |-> "command"]
<1>5. CASE Broken
  <2>1. call' = [call EXCEPT ![c] = lost] /\ write_queue' = others /\ stdin' = stdin
    BY <1>5 DEF WriteCommand
  <2>2. lost \in CallRecord
    BY <1>1
  <2> HIDE DEF lost
  <2> QED BY <2>1, <2>2 DEF TypeOK
<1>6. CASE ~ Broken
  <2>1. /\ call' = [call EXCEPT ![c] = sent] /\ stdin' = Append(stdin, item)
        /\ write_queue' = <<c>> \o others \/ write_queue' = others
    BY <1>6 DEF WriteCommand
  <2>2. sent \in CallRecord /\ item \in Input
    BY <1>2, <1>3
  <2> HIDE DEF sent, item
  <2>3. stdin \in Seq(Input) /\ call \in [Callers -> CallRecord]
    BY DEF TypeOK
  <2>4. Append(stdin, item) \in Seq(Input)
    BY <2>2, <2>3, AppendProperties
  <2> QED BY <2>1, <2>2, <2>3, <2>4, <1>4
<1> QED BY <1>5, <1>6

\* A raw line is an input of the pipe, and a broken pipe takes none.
LEMMA WriteRawType ==
  ASSUME TypeOK, NEW text \in {"interrupt", "exit"}, WriteRaw(text)
  PROVE  stdin' \in Seq(Input)
<1> DEFINE item == [token |-> RawToken, text |-> text]
<1>1. item \in Input
  BY DEF Input, RawToken
<1>2. stdin' = stdin \/ stdin' = Append(stdin, item)
  BY DEF WriteRaw
<1> HIDE DEF item
<1>3. stdin \in Seq(Input)
  BY DEF TypeOK
<1>4. Append(stdin, item) \in Seq(Input)
  BY <1>1, <1>3, AppendProperties
<1> QED BY <1>2, <1>3, <1>4

\* Whoever waits for the write lock is a task.
LEMMA EnqueueType ==
  ASSUME TypeOK, NEW t \in Tasks, Enqueue(t)
  PROVE  write_queue' \in Seq(Tasks)
BY DEF TypeOK, Enqueue

\* Forgetting a token keeps the types of the dictionary and the list.
LEMMA ForgetTokenType ==
  ASSUME TypeOK, NEW t, ForgetToken(t)
  PROVE  pending' \subseteq Nat \ {0} /\ pending_order' \in Seq(Nat)
BY RemoveTokenType DEF TypeOK, ForgetToken

\* The steps of start().
LEMMA StartType == TypeOK /\ Start => TypeOK'
<1> SUFFICES ASSUME TypeOK, Start PROVE TypeOK'
  OBVIOUS
<1>1. CASE StartBegin
  BY <1>1 DEF StartBegin, TypeOK, tableVars, queueVars, pipeVars
<1>2. CASE StartDone
  BY <1>2 DEF StartDone, TypeOK, States, tableVars, queueVars, pipeVars
<1>3. CASE StartFailed
  BY <1>3 DEF StartFailed, TypeOK, tableVars, queueVars, pipeVars
<1> QED BY <1>1, <1>2, <1>3 DEF Start

\* The steps of send().
LEMMA CallerType ==
  ASSUME TypeOK, NEW c \in Callers, Caller(c)
  PROVE  TypeOK'
<1> USE DEF lifeVars, tableVars, queueVars, pipeVars
<1>0. ASSUME NEW pc \in Active \cup Finished, NEW future \in Futures
      PROVE  /\ [call EXCEPT ![c].pc = pc] \in [Callers -> CallRecord]
             /\ [call EXCEPT ![c].pc = pc, ![c].future = future] \in [Callers -> CallRecord]
  BY DEF TypeOK, CallRecord
<1> DEFINE Cancelled == IF call[c].future = "unset" THEN "cancelled" ELSE call[c].future
<1> DEFINE Stays(pc) == [call EXCEPT ![c].pc = pc]
<1>00. ASSUME NEW pc \in Active \cup Finished, call' = Stays(pc)
       PROVE  call' \in [Callers -> CallRecord]
  BY <1>00, <1>0, "cancelled" \in Futures DEF Futures
<1>01. Cancelled \in Futures
  BY DEF TypeOK, CallRecord, Futures
<1>1. CASE SendRefused(c)
  <2>1. call' = Stays("RuntimeError") /\ "RuntimeError" \in Finished
    BY <1>1 DEF SendRefused, Finished, Outcomes
  <2> HIDE DEF Stays
  <2>2. call' \in [Callers -> CallRecord]
    BY <2>1, <1>00
  <2> QED BY <1>1, <2>2 DEF SendRefused, TypeOK
<1>2. ASSUME NEW big \in Sizes, Send(c, big) PROVE TypeOK'
  <2> DEFINE record == [pc |-> "locking", token |-> token_counter, future |-> "unset",
                        answer |-> 0, big |-> big]
  <2>1. record \in CallRecord
    BY ConnectionAssumption DEF TypeOK, CallRecord, Active, Futures
  <2>2. /\ call' \in [Callers -> CallRecord]
        /\ write_queue' \in Seq(Tasks)
        /\ stdin' \in Seq(Input)
    <3>1. CASE LockFree
      <4>1. WriteCommand(c, record, <<>>)
        BY <1>2, <3>1 DEF Send
      <4>2. <<>> \in Seq(Tasks)
        OBVIOUS
      <4> HIDE DEF record
      <4> QED BY <4>1, <4>2, <2>1, WriteCommandType
    <3>2. CASE ~ LockFree
      <4>1. /\ call' = [call EXCEPT ![c] = record] /\ Enqueue(c) /\ UNCHANGED stdin
        BY <1>2, <3>2 DEF Send
      <4>2. c \in Tasks
        BY DEF Tasks
      <4>3. write_queue' \in Seq(Tasks)
        BY <4>1, <4>2, EnqueueType
      <4> HIDE DEF record
      <4> QED BY <4>1, <4>3, <2>1 DEF TypeOK
    <3> QED BY <3>1, <3>2
  <2>3. /\ token_counter' \in Nat \ {0} /\ pending' \subseteq Nat \ {0}
        /\ pending_order' \in Seq(Nat)
    BY <1>2 DEF Send, TypeOK
  <2> QED BY <1>2, <2>2, <2>3 DEF Send, TypeOK
<1>3. CASE CommandLockAcquired(c)
  <2>1. Tail(write_queue) \in Seq(Tasks)
    BY <1>3 DEF CommandLockAcquired, HoldsLock, TypeOK
  <2>2. call[c] \in CallRecord
    BY DEF TypeOK
  <2>3. /\ call' \in [Callers -> CallRecord]
        /\ write_queue' \in Seq(Tasks)
        /\ stdin' \in Seq(Input)
    BY <1>3, <2>1, <2>2, WriteCommandType DEF CommandLockAcquired
  <2> QED BY <1>3, <2>3 DEF CommandLockAcquired, TypeOK
<1>4. CASE Drained(c)
  <2>1. call' = Stays("waiting") \/ call' = Stays("WriteError")
    BY <1>4 DEF Drained
  <2>2. "waiting" \in Active /\ "WriteError" \in Finished
    BY DEF Active, Finished, Outcomes
  <2> HIDE DEF Stays
  <2>3. call' \in [Callers -> CallRecord]
    BY <2>1, <2>2, <1>00
  <2> QED BY <1>4, <2>3 DEF Drained, HoldsLock, TypeOK
<1>5. CASE TimerFires(c)
  <2>1. call' = [call EXCEPT ![c].pc = "expired", ![c].future = Cancelled]
    BY <1>5 DEF TimerFires
  <2> HIDE DEF Cancelled
  <2>2. call' \in [Callers -> CallRecord]
    BY <2>1, <1>0, <1>01 DEF Active
  <2> QED BY <1>5, <2>2 DEF TimerFires, TypeOK
<1>6. CASE TimeoutHandled(c)
  <2>1. pending' \subseteq Nat \ {0} /\ pending_order' \in Seq(Nat)
    BY <1>6, ForgetTokenType DEF TimeoutHandled
  <2>2. call' = Stays("TimeoutError") \/ call' = Stays("interrupting")
    BY <1>6 DEF TimeoutHandled
  <2>4. "TimeoutError" \in Finished /\ "interrupting" \in Active
    BY DEF Active, Finished, Outcomes
  <2> HIDE DEF Stays
  <2>5. call' \in [Callers -> CallRecord]
    BY <2>2, <2>4, <1>00
  <2>3. write_queue' \in Seq(Tasks) /\ stdin' \in Seq(Input)
    BY <1>6, EnqueueType, WriteRawType DEF TimeoutHandled, TypeOK, Tasks
  <2> QED BY <1>6, <2>1, <2>5, <2>3 DEF TimeoutHandled, TypeOK
<1>7. CASE InterruptLockAcquired(c)
  <2>1. stdin' \in Seq(Input)
    BY <1>7, WriteRawType DEF InterruptLockAcquired
  <2>2. call' = Stays("TimeoutError") /\ "TimeoutError" \in Finished
    BY <1>7 DEF InterruptLockAcquired, Finished, Outcomes
  <2> HIDE DEF Stays
  <2>3. call' \in [Callers -> CallRecord]
    BY <2>2, <1>00
  <2> QED BY <1>7, <2>1, <2>3 DEF InterruptLockAcquired, HoldsLock, TypeOK
<1>8. CASE CallerResumes(c)
  <2>1. call' = Stays("returned") \/ call' = Stays("GDBError")
          \/ call' = Stays("ConnectionError")
    BY <1>8 DEF CallerResumes
  <2>2. {"returned", "GDBError", "ConnectionError"} \subseteq Finished
    BY DEF Finished, Outcomes
  <2> HIDE DEF Stays
  <2>3. call' \in [Callers -> CallRecord]
    BY <2>1, <2>2, <1>00
  <2> QED BY <1>8, <2>3 DEF CallerResumes, TypeOK
<1>9. CASE CallCancelled(c)
  <2>1. call' = [call EXCEPT ![c].pc = "CancelledError", ![c].future = Cancelled]
    BY <1>9 DEF CallCancelled
  <2> HIDE DEF Cancelled
  <2>2. call' \in [Callers -> CallRecord]
    BY <2>1, <1>0, <1>01 DEF Finished, Outcomes
  <2>3. write_queue' \in Seq(Tasks)
    BY <1>9, RemoveTokenType DEF CallCancelled, TypeOK
  <2> QED BY <1>9, <2>2, <2>3 DEF CallCancelled, TypeOK
<1> QED BY <1>1, <1>2, <1>3, <1>4, <1>5, <1>6, <1>7, <1>8, <1>9 DEF Caller

\* The last lines of stop() keep the types of what they touch.
LEMMA FinaliseType ==
  ASSUME TypeOK, NEW s \in Stoppers, Finalise(s)
  PROVE  /\ process' = "none" /\ conn_state' = "disconnected"
         /\ pending' = {} /\ pending_order' = <<>>
         /\ call' \in [Callers -> CallRecord]
         /\ stop' = [stop EXCEPT ![s] = "returned"]
BY RejectType DEF Finalise, TypeOK

\* Terminate either leaves the connection as it is or finalises it.
LEMMA TerminateType ==
  ASSUME TypeOK, NEW s \in Stoppers, Terminate(s)
  PROVE  /\ \/ UNCHANGED <<process, conn_state, pending, pending_order, call>>
            \/ /\ process' = "none" /\ conn_state' = "disconnected"
               /\ pending' = {} /\ pending_order' = <<>>
               /\ call' \in [Callers -> CallRecord]
         /\ stop' \in [Stoppers -> StopSteps]
<1>1. CASE Finalise(s)
  BY <1>1, FinaliseType DEF TypeOK, StopSteps
<1>2. CASE ~ Finalise(s)
  BY <1>2 DEF Terminate, TypeOK, StopSteps
<1> QED BY <1>1, <1>2

\* Joining the reader, and what stop() does at once if it is over, keeps the types.
LEMMA JoinReaderType ==
  ASSUME TypeOK, NEW s \in Stoppers, JoinReader(s)
  PROVE  /\ \/ UNCHANGED <<process, conn_state, pending, pending_order, call>>
            \/ /\ process' = "none" /\ conn_state' = "disconnected"
               /\ pending' = {} /\ pending_order' = <<>>
               /\ call' \in [Callers -> CallRecord]
         /\ stop' \in [Stoppers -> StopSteps]
         /\ reader' \in {"cancelled", "joined"}
<1>1. CASE reader \in {"reading", "cancelled"}
  BY <1>1 DEF JoinReader, TypeOK, StopSteps
<1>2. CASE reader \notin {"reading", "cancelled"}
  <2>1. reader' = "joined" /\ Terminate(s)
    BY <1>2 DEF JoinReader
  <2> QED BY <2>1, TerminateType
<1> QED BY <1>1, <1>2

\* The steps of stop().
LEMMA StopperType ==
  ASSUME TypeOK, NEW s \in Stoppers, Stopper(s)
  PROVE  TypeOK'
<1> USE DEF queueVars, pipeVars
<1>0. <<>> \in Seq(Nat) /\ <<>> \in Seq(Input)
  OBVIOUS
<1>1. CASE StopBegin(s)
  <2>1. CASE process = "none" /\ conn_state' = "disconnected"
             /\ stop' = [stop EXCEPT ![s] = "returned"]
             /\ UNCHANGED <<process, reader, pending, pending_order, call, stdin, write_queue>>
    BY <1>1, <2>1 DEF StopBegin, TypeOK, States, StopSteps
  <2>2. CASE WriteRaw("exit") /\ JoinReader(s) /\ UNCHANGED write_queue
    <3>1. stdin' \in Seq(Input)
      BY <2>2, WriteRawType
    <3> QED BY <1>1, <2>2, <3>1, <1>0, JoinReaderType DEF StopBegin, TypeOK, States
  <2>3. CASE /\ stop' = [stop EXCEPT ![s] = "locking"] /\ Enqueue(s)
             /\ UNCHANGED <<process, conn_state, reader, pending, pending_order, call, stdin>>
    <3>1. s \in Tasks
      BY DEF Tasks
    <3>2. write_queue' \in Seq(Tasks)
      BY <2>3, <3>1, EnqueueType
    <3> QED BY <1>1, <2>3, <3>2 DEF StopBegin, TypeOK, StopSteps
  <2> QED BY <1>1, <2>1, <2>2, <2>3 DEF StopBegin
<1>2. CASE StopLockAcquired(s)
  <2>1. stdin' \in Seq(Input) /\ write_queue' \in Seq(Tasks)
    BY <1>2, WriteRawType DEF StopLockAcquired, HoldsLock, TypeOK
  <2>2. JoinReader(s)
    BY <1>2 DEF StopLockAcquired
  <2> QED BY <1>2, <2>1, <2>2, <1>0, JoinReaderType DEF StopLockAcquired, TypeOK, States
<1>3. CASE StopJoined(s)
  BY <1>3, <1>0, TerminateType DEF StopJoined, TypeOK, States
<1>4. CASE StopReaped(s)
  BY <1>4, <1>0, FinaliseType DEF StopReaped, TypeOK, States, StopSteps
<1>5. CASE StopKills(s)
  <2>1. CASE process = "none"
    BY <1>5, <2>1 DEF StopKills, TypeOK, StopSteps
  <2>2. CASE process # "none"
    BY <1>5, <2>2, <1>0, FinaliseType DEF StopKills, TypeOK, States, StopSteps
  <2> QED BY <2>1, <2>2
<1> QED BY <1>1, <1>2, <1>3, <1>4, <1>5 DEF Stopper

\* An answered token leaves the table; nothing else about the table's type changes.
LEMMA HandleResultType ==
  ASSUME TypeOK, NEW record \in [type : {"result"}, token : Nat, class : {"done", "error"}],
         HandleResult(record)
  PROVE  /\ pending' \subseteq Nat \ {0} /\ pending_order' \in Seq(Nat)
         /\ call' \in [Callers -> CallRecord]
<1>1. record.token \in Nat /\ record.class \in {"done", "error"}
  OBVIOUS
<1>2. CASE record.token \in pending
  BY <1>1, <1>2, ForgetTokenType, SetResultType DEF HandleResult, TypeOK
<1>3. CASE record.token \notin pending /\ pending_order # <<>>
  <2>1. SetResult(Head(pending_order), record.class, record.token)
    BY <1>3 DEF HandleResult
  <2>2. call' \in [Callers -> CallRecord]
    BY <1>1, <2>1, SetResultType DEF TypeOK
  <2>3. /\ pending' = pending \ {Head(pending_order)}
        /\ pending_order' = Tail(pending_order)
    BY <1>3 DEF HandleResult
  <2>4. pending \subseteq Nat \ {0} /\ Tail(pending_order) \in Seq(Nat)
    BY <1>3 DEF TypeOK
  <2> QED BY <2>2, <2>3, <2>4
<1>4. CASE record.token \notin pending /\ pending_order = <<>>
  BY <1>4 DEF HandleResult, TypeOK
<1> QED BY <1>2, <1>3, <1>4

\* put_nowait with the drop of the oldest event keeps to maxsize.
LEMMA PutEventType ==
  ASSUME NEW queue \in Seq(Classes), Len(queue) <= QueueSize, NEW class \in Classes
  PROVE  PutEvent(queue, class) \in Seq(Classes) /\ Len(PutEvent(queue, class)) <= QueueSize
<1>1. QueueSize \in Nat \ {0}
  BY ConnectionAssumption
<1>2. CASE Len(queue) < QueueSize
  BY <1>1, <1>2 DEF PutEvent
<1>3. CASE ~ (Len(queue) < QueueSize)
  <2>1. queue # <<>> /\ Len(queue) = QueueSize
    BY <1>1, <1>3
  <2>2. Tail(queue) \in Seq(Classes) /\ Len(Tail(queue)) = QueueSize - 1
    BY <2>1, <1>1
  <2> QED BY <1>1, <1>3, <2>2 DEF PutEvent
<1> QED BY <1>2, <1>3

\* The steps of the reader task.
LEMMA ReaderType == TypeOK /\ Reader => TypeOK'
<1> SUFFICES ASSUME TypeOK, Reader PROVE TypeOK'
  OBVIOUS
<1> USE DEF lifeVars, tableVars, queueVars, pipeVars
<1>0. ASSUME stdout # <<>>
      PROVE  Head(stdout) \in Record /\ Tail(stdout) \in Seq(Record)
  BY <1>0 DEF TypeOK
<1>1. CASE ReadResult
  <2>1. stdout # <<>> /\ Head(stdout).type = "result" /\ stdout' = Tail(stdout)
    BY <1>1 DEF ReadResult, ReadRecord
  <2>2. Head(stdout) \in [type : {"result"}, token : Nat, class : {"done", "error"}]
    BY <2>1, <1>0 DEF Record
  <2>3. HandleResult(Head(stdout))
    BY <1>1 DEF ReadResult
  <2>4. /\ pending' \subseteq Nat \ {0} /\ pending_order' \in Seq(Nat)
        /\ call' \in [Callers -> CallRecord]
    BY <2>2, <2>3, HandleResultType
  <2> QED BY <1>1, <2>1, <2>4, <1>0 DEF ReadResult, TypeOK
<1>2. CASE ReadAsync
  <2> DEFINE class == Head(stdout).class
  <2>1. stdout # <<>> /\ Head(stdout).type = "async" /\ stdout' = Tail(stdout)
    BY <1>2 DEF ReadAsync, ReadRecord
  <2>2. class \in Classes
    BY <2>1, <1>0 DEF Record
  <2>3. class \in {"stopped", "running", "notify"}
    BY <2>2, ConnectionAssumption
  <2>4. /\ conn_state' = IF class = "notify" THEN conn_state ELSE class
        /\ event_queue' = PutEvent(event_queue, class)
    BY <1>2 DEF ReadAsync
  <2> HIDE DEF class
  <2>5. event_queue' \in Seq(Classes) /\ Len(event_queue') <= QueueSize
    BY <2>2, <2>4, PutEventType DEF TypeOK
  <2>6. conn_state' \in States
    BY <2>3, <2>4 DEF States, TypeOK
  <2> QED BY <1>2, <2>1, <2>5, <2>6, <1>0 DEF ReadAsync, TypeOK
<1>3. CASE ReadConsole
  <2>1. stdout # <<>> /\ stdout' = Tail(stdout)
    BY <1>3 DEF ReadConsole, ReadRecord
  <2>2. console_queue' \in Seq({"text"}) /\ Len(console_queue') <= QueueSize
    BY <1>3, ConnectionAssumption DEF ReadConsole, TypeOK
  <2> QED BY <1>3, <2>1, <2>2, <1>0 DEF ReadConsole, TypeOK
<1>4. ASSUME ReaderGivesUp, stdout' \in Seq(Record) PROVE TypeOK'
  <2>1. RejectAllPending
    BY <1>4 DEF ReaderGivesUp
  <2>2. /\ call' \in [Callers -> CallRecord]
        /\ pending' = {} /\ pending_order' = <<>>
    BY <2>1, RejectType DEF TypeOK
  <2> QED BY <1>4, <2>2 DEF ReaderGivesUp, TypeOK, States
<1>5. CASE ReaderError
  BY <1>5, <1>4, <1>0 DEF ReaderError, ReadRecord
<1>6. CASE ReaderEOF
  BY <1>6, <1>4 DEF ReaderEOF, TypeOK
<1> QED BY <1>1, <1>2, <1>3, <1>5, <1>6 DEF Reader

\* The consumers and GDB.
LEMMA ExternalType == TypeOK /\ (Session \/ Gdb) => TypeOK'
<1> SUFFICES ASSUME TypeOK, Session \/ Gdb PROVE TypeOK'
  OBVIOUS
<1> USE DEF lifeVars, tableVars, queueVars, pipeVars
<1>1. CASE EventTaken
  BY <1>1, ConnectionAssumption DEF EventTaken, TypeOK
<1>2. CASE ConsoleTaken
  BY <1>2, ConnectionAssumption DEF ConsoleTaken, TypeOK
<1>3. ASSUME NEW record \in Record, Emit(record) PROVE stdout' \in Seq(Record)
  BY <1>3, AppendProperties DEF Emit, TypeOK
<1>4. ASSUME NEW class \in {"done", "error"}, GdbAnswers(class) PROVE TypeOK'
  <2> DEFINE answer == [type |-> "result", token |-> Head(stdin).token, class |-> class]
  <2>1. stdin # <<>> /\ Head(stdin) \in Input /\ stdin' = Tail(stdin) /\ Emit(answer)
    BY <1>4 DEF GdbAnswers, TypeOK
  <2>2. answer \in Record
    BY <2>1 DEF Input, Record
  <2> HIDE DEF answer
  <2>3. stdout' \in Seq(Record) /\ stdin' \in Seq(Input)
    BY <2>1, <2>2, <1>3 DEF TypeOK
  <2> QED BY <1>4, <2>3 DEF GdbAnswers, TypeOK
<1>5. CASE GdbExits
  <2> DEFINE answer == [type |-> "result", token |-> RawToken, class |-> "done"]
  <2>1. answer \in Record /\ Emit(answer)
    BY <1>5 DEF GdbExits, Record, RawToken
  <2> HIDE DEF answer
  <2>2. stdout' \in Seq(Record)
    BY <2>1, <1>3
  <2> QED BY <1>5, <2>2 DEF GdbExits, TypeOK
<1>6. ASSUME NEW record \in Record, GdbEmits(record) PROVE TypeOK'
  <2>1. stdout' \in Seq(Record)
    BY <1>6, <1>3 DEF GdbEmits
  <2> QED BY <1>6, <2>1 DEF GdbEmits, TypeOK
<1>7. CASE GdbDies
  BY <1>7 DEF GdbDies, TypeOK
<1>8. /\ \A class \in Classes : [type |-> "async", class |-> class] \in Record
      /\ [type |-> "console"] \in Record /\ [type |-> "overlong"] \in Record
  BY DEF Record
<1> QED BY <1>1, <1>2, <1>4, <1>5, <1>6, <1>7, <1>8 DEF Session, Gdb

\* Every step of the connection keeps every variable to its values.
LEMMA TypeStep == TypeOK /\ [Next]_vars => TypeOK'
<1> SUFFICES ASSUME TypeOK, [Next]_vars PROVE TypeOK'
  OBVIOUS
<1>1. CASE UNCHANGED vars
  BY <1>1 DEF vars, TypeOK
<1> QED BY <1>1, StartType, CallerType, StopperType, ReaderType, ExternalType DEF Next

\* A new object has every variable at one of its values.
LEMMA TypeInit == Init => TypeOK
<1> SUFFICES ASSUME Init PROVE TypeOK
  OBVIOUS
<1>1. call \in [Callers -> CallRecord]
  BY DEF Init, CallRecord, Finished, Futures
<1> QED BY <1>1, ConnectionAssumption DEF Init, TypeOK, States, StopSteps

\* Every variable keeps to its values for ever, and the queues to their maxsize.
THEOREM TypeCorrect == Spec => []TypeOK
BY TypeInit, TypeStep, PTL DEF Spec

-----------------------------------------------------------------------------
(* The life of the process. *)

\* A new object has neither process nor reader nor stop() in progress.
LEMMA LifeInit == Init => Life
BY DEF Init, Life

\* The end of stop() leaves no process, and the state "disconnected".
LEMMA FinaliseLife ==
  ASSUME TypeOK, Life, NEW s \in Stoppers, Finalise(s), start' = start,
         reader' \in {reader, "joined"}, reader \notin {"none", "reading"}
  PROVE  Life'
BY DEF Finalise, TypeOK, StopSteps, Life

\* Terminating a process whose reader is over keeps the order of start(), reader and stop().
LEMMA TerminateLife ==
  ASSUME TypeOK, Life, NEW s \in Stoppers, Terminate(s), start' = start, reader' = "joined",
         reader # "none"
  PROVE  Life'
BY DEF Terminate, Finalise, TypeOK, StopSteps, Life

\* Joining the reader of a connection that was started keeps that order.
LEMMA JoinReaderLife ==
  ASSUME TypeOK, Life, NEW s \in Stoppers, JoinReader(s), start' = start,
         start = "done"
  PROVE  Life'
<1>1. CASE reader \in {"reading", "cancelled"}
  BY <1>1 DEF JoinReader, TypeOK, StopSteps, Life
<1>2. CASE reader \notin {"reading", "cancelled"}
  BY <1>2, TerminateLife DEF JoinReader, Life
<1> QED BY <1>1, <1>2

\* Every step keeps the order of start(), reader and stop().
LEMMA LifeStep == TypeOK /\ Life /\ [Next]_vars => Life'
<1> SUFFICES ASSUME TypeOK, Life, [Next]_vars PROVE Life'
  OBVIOUS
<1> USE DEF lifeVars, tableVars, queueVars, pipeVars
<1>1. ASSUME UNCHANGED <<conn_state, start, process, reader, stop>> PROVE Life'
  BY <1>1 DEF Life
<1>2. CASE UNCHANGED vars
  BY <1>2, <1>1 DEF vars
<1>3. CASE Start
  BY <1>3 DEF Start, StartBegin, StartDone, StartFailed, Life, TypeOK
<1>4. ASSUME NEW c \in Callers, Caller(c) PROVE Life'
  <2>1. UNCHANGED lifeVars
    BY <1>4 DEF Caller, SendRefused, Send, CommandLockAcquired, Drained, TimerFires,
                TimeoutHandled, InterruptLockAcquired, CallerResumes, CallCancelled
  <2> QED BY <2>1, <1>1
<1>5. ASSUME NEW s \in Stoppers, Stopper(s) PROVE Life'
  <2>1. CASE StopBegin(s)
    <3>1. CASE process = "none"
      BY <3>1, <2>1 DEF StopBegin, Life, TypeOK, StopSteps
    <3>2. CASE process = "set" /\ LockFree
      BY <3>2, <2>1, JoinReaderLife DEF StopBegin, Life
    <3>3. CASE process = "set" /\ ~ LockFree
      BY <3>3, <2>1 DEF StopBegin, Life, TypeOK, StopSteps
    <3> QED BY <3>1, <3>2, <3>3 DEF TypeOK
  <2>2. CASE StopLockAcquired(s)
    BY <2>2, JoinReaderLife DEF StopLockAcquired, Life
  <2>3. CASE StopJoined(s)
    BY <2>3, TerminateLife DEF StopJoined, Life
  <2>4. CASE StopReaped(s)
    BY <2>4, FinaliseLife DEF StopReaped, Life
  <2>5. CASE StopKills(s)
    <3>1. CASE process = "none"
      BY <3>1, <2>5 DEF StopKills, Life, TypeOK, StopSteps
    <3>2. CASE process # "none"
      BY <3>2, <2>5, FinaliseLife DEF StopKills, Life
    <3> QED BY <3>1, <3>2
  <2> QED BY <1>5, <2>1, <2>2, <2>3, <2>4, <2>5 DEF Stopper
<1>6. CASE Reader
  <2>1. CASE ReadResult
    BY <2>1, <1>1 DEF ReadResult
  <2>2. CASE ReadAsync
    <3> DEFINE class == Head(stdout).class
    <3>1. stdout # <<>> /\ Head(stdout) \in Record /\ Head(stdout).type = "async"
      BY <2>2 DEF ReadAsync, ReadRecord, TypeOK
    <3>2. class \in {"stopped", "running", "notify"}
      BY <3>1, ConnectionAssumption DEF Record
    <3>3. /\ conn_state' = IF class = "notify" THEN conn_state ELSE class
          /\ reader = "reading" /\ UNCHANGED <<start, process, reader, stop>>
      BY <2>2 DEF ReadAsync, ReadRecord, Reading
    <3> HIDE DEF class
    <3> QED BY <3>2, <3>3 DEF Life
  <2>3. CASE ReadConsole
    BY <2>3, <1>1 DEF ReadConsole
  <2>4. CASE ReaderError \/ ReaderEOF
    BY <2>4 DEF ReaderError, ReaderEOF, ReadRecord, Reading, ReaderGivesUp, Life
  <2> QED BY <1>6, <2>1, <2>2, <2>3, <2>4 DEF Reader
<1>7. CASE Session \/ Gdb
  <2>1. UNCHANGED <<conn_state, start, process, reader, stop>>
    BY <1>7 DEF Session, Gdb, EventTaken, ConsoleTaken, GdbAnswers, GdbExits,
                GdbEmits, GdbDies
  <2> QED BY <2>1, <1>1
<1> QED BY <1>2, <1>3, <1>4, <1>5, <1>6, <1>7 DEF Next

-----------------------------------------------------------------------------
(* The table of pending commands. *)

\* The empty table is in step.
LEMMA TableInit == Init => PendingInStep
BY DEF Init, PendingInStep, Ascending, Range

\* Forgetting a token, whether or not it is there, keeps the two structures in step.
LEMMA ForgetTokenTable ==
  ASSUME TypeOK, PendingInStep, NEW t, ForgetToken(t), token_counter' = token_counter
  PROVE  PendingInStep'
<1>1. /\ Range(pending_order') = Range(pending_order) \ {t}
      /\ Ascending(pending_order')
  BY RemoveTokenEffect DEF TypeOK, PendingInStep, ForgetToken
<1> QED BY <1>1 DEF PendingInStep, ForgetToken

\* Rejecting everybody leaves an empty table, which is in step.
LEMMA EmptyTable ==
  ASSUME pending' = {}, pending_order' = <<>>
  PROVE  PendingInStep'
BY DEF PendingInStep, Ascending, Range

\* _handle_result pops its token, or the oldest, from the dictionary and the list alike.
LEMMA HandleResultTable ==
  ASSUME TypeOK, PendingInStep, NEW record, HandleResult(record),
         token_counter' = token_counter
  PROVE  PendingInStep'
<1>1. CASE record.token \in pending
  BY <1>1, ForgetTokenTable DEF HandleResult
<1>2. CASE record.token \notin pending /\ pending_order # <<>>
  <2>1. /\ Range(Tail(pending_order)) = Range(pending_order) \ {Head(pending_order)}
        /\ Ascending(Tail(pending_order))
    BY <1>2, TailEffect DEF TypeOK, PendingInStep
  <2> QED BY <1>2, <2>1 DEF HandleResult, PendingInStep
<1>3. CASE record.token \notin pending /\ pending_order = <<>>
  BY <1>3 DEF HandleResult, PendingInStep
<1> QED BY <1>1, <1>2, <1>3

\* Only send(), its timeout, the reader and the end of stop() touch the table.
LEMMA TableStep == TypeOK /\ PendingInStep /\ [Next]_vars => PendingInStep'
<1> SUFFICES ASSUME TypeOK, PendingInStep, [Next]_vars PROVE PendingInStep'
  OBVIOUS
<1> USE DEF lifeVars, tableVars, queueVars, pipeVars
<1>1. ASSUME UNCHANGED tableVars PROVE PendingInStep'
  BY <1>1 DEF PendingInStep
<1>2. CASE UNCHANGED vars
  BY <1>2, <1>1 DEF vars
<1>3. CASE Start
  BY <1>3, <1>1 DEF Start, StartBegin, StartDone, StartFailed
<1>4. ASSUME NEW c \in Callers, Caller(c) PROVE PendingInStep'
  <2>1. ASSUME NEW big \in Sizes, Send(c, big) PROVE PendingInStep'
    <3>1. /\ token_counter' = token_counter + 1
          /\ pending' = pending \cup {token_counter}
          /\ pending_order' = Append(pending_order, token_counter)
      BY <2>1 DEF Send
    <3>2. /\ Range(pending_order') = Range(pending_order) \cup {token_counter}
          /\ Ascending(pending_order')
      BY <3>1, AppendEffect DEF TypeOK, PendingInStep
    <3> QED BY <3>1, <3>2 DEF PendingInStep, TypeOK
  <2>2. CASE TimeoutHandled(c)
    BY <2>2, ForgetTokenTable DEF TimeoutHandled
  <2>3. CASE UNCHANGED tableVars
    BY <2>3, <1>1
  <2> QED BY <1>4, <2>1, <2>2, <2>3
          DEF Caller, SendRefused, CommandLockAcquired, Drained, TimerFires,
              InterruptLockAcquired, CallerResumes, CallCancelled
<1>5. ASSUME NEW s \in Stoppers, Stopper(s) PROVE PendingInStep'
  <2>1. \/ pending' = {} /\ pending_order' = <<>>
        \/ UNCHANGED tableVars
    BY <1>5 DEF Stopper, StopBegin, StopLockAcquired, StopJoined, StopReaped, StopKills,
                JoinReader, Terminate, Finalise, RejectAllPending
  <2> QED BY <2>1, <1>1, EmptyTable
<1>6. CASE Reader
  <2>1. CASE ReadResult
    BY <2>1, HandleResultTable DEF ReadResult
  <2>2. CASE ReaderError \/ ReaderEOF
    BY <2>2, EmptyTable DEF ReaderError, ReaderEOF, ReaderGivesUp, RejectAllPending
  <2>3. CASE ReadAsync \/ ReadConsole
    BY <2>3, <1>1 DEF ReadAsync, ReadConsole
  <2> QED BY <1>6, <2>1, <2>2, <2>3 DEF Reader
<1>7. CASE Session \/ Gdb
  BY <1>7, <1>1 DEF Session, Gdb, EventTaken, ConsoleTaken, GdbAnswers, GdbExits,
                    GdbEmits, GdbDies
<1> QED BY <1>2, <1>3, <1>4, <1>5, <1>6, <1>7 DEF Next

\* The dictionary and the list of pending commands name the same tokens for ever.
THEOREM TableInStep == Spec => []PendingInStep
BY TypeInit, TypeStep, TableInit, TableStep, PTL DEF Spec

-----------------------------------------------------------------------------
(* The calls: nobody is stranded. *)

Calls == Tokens /\ NobodyStranded

\* At first no call is in progress and the table is empty.
LEMMA CallsInit == Init => Calls /\ EmptyWithoutProcess
BY DEF Init, Calls, Tokens, NobodyStranded, EmptyWithoutProcess, Active

\* A table that loses only tokens whose futures are done strands nobody.
LEMMA CallsSettled ==
  ASSUME TypeOK, Calls, token_counter' = token_counter,
         call' \in [Callers -> CallRecord],
         \A c \in Callers : call'[c].pc = call[c].pc /\ call'[c].token = call[c].token,
         \A c \in Callers : call[c].future # "unset" => call'[c].future # "unset",
         \A c \in Callers : call[c].pc \in Active /\ call'[c].future = "unset"
                              => call[c].token \in pending'
  PROVE  Calls'
BY DEF Calls, Tokens, NobodyStranded

\* Rejecting everybody empties the table and strands nobody: each future in it is settled.
LEMMA CallsReject ==
  ASSUME TypeOK, Calls, token_counter' = token_counter, RejectAllPending
  PROVE  Calls'
<1>1. call' \in [Callers -> CallRecord]
  BY RejectType DEF TypeOK
<1>2. ASSUME NEW c \in Callers
      PROVE  /\ call'[c].pc = call[c].pc /\ call'[c].token = call[c].token
             /\ call[c].future # "unset" => call'[c].future # "unset"
             /\ ~ (call[c].pc \in Active /\ call'[c].future = "unset")
  <2>1. call[c] \in CallRecord
    BY DEF TypeOK
  <2>2. CASE call[c].token \in pending /\ Awaits(c, call[c].token)
    <3>1. call'[c] = [call[c] EXCEPT !.future = "rejected"]
      BY <2>2 DEF RejectAllPending
    <3> QED BY <3>1, <2>1, <2>2 DEF CallRecord, Awaits
  <2>3. CASE ~ (call[c].token \in pending /\ Awaits(c, call[c].token))
    <3>1. call'[c] = call[c]
      BY <2>3 DEF RejectAllPending
    <3> QED BY <3>1, <2>3 DEF Calls, NobodyStranded, Awaits
  <2> QED BY <2>2, <2>3
<1> QED BY <1>1, <1>2, CallsSettled

\* The token that _handle_result pops is that of the future it settles.
LEMMA CallsResult ==
  ASSUME TypeOK, Calls, token_counter' = token_counter,
         NEW t, NEW class \in {"done", "error"}, NEW answer \in Nat,
         SetResult(t, class, answer), pending' = pending \ {t}
  PROVE  Calls'
<1>1. call' \in [Callers -> CallRecord]
  BY SetResultType DEF TypeOK
<1>2. ASSUME NEW c \in Callers
      PROVE  /\ call'[c].pc = call[c].pc /\ call'[c].token = call[c].token
             /\ call[c].future # "unset" => call'[c].future # "unset"
             /\ call[c].pc \in Active /\ call'[c].future = "unset" => call[c].token \in pending'
  <2>1. call[c] \in CallRecord
    BY DEF TypeOK
  <2>2. CASE Awaits(c, t)
    <3>1. call'[c] = [call[c] EXCEPT !.future = class, !.answer = answer]
      BY <2>2 DEF SetResult
    <3> QED BY <3>1, <2>1, <2>2 DEF CallRecord, Awaits
  <2>3. CASE ~ Awaits(c, t)
    <3>1. call'[c] = call[c]
      BY <2>3 DEF SetResult
    <3> QED BY <3>1, <2>3 DEF Calls, NobodyStranded, Awaits
  <2> QED BY <2>2, <2>3
<1> QED BY <1>1, <1>2, CallsSettled

\* A step of caller c that keeps its token: the others' tokens stay in the table.
LEMMA CallsOwnStep ==
  ASSUME TypeOK, Calls, token_counter' = token_counter, NEW c \in Callers,
         call'[c].token = call[c].token,
         \A d \in Callers : d # c => call'[d] = call[d],
         call'[c].pc \in Active => call[c].pc \in Active,
         call'[c].pc \in {"expired", "interrupting"} => call'[c].future # "unset",
         call'[c].future = "unset" => call[c].future = "unset",
         \/ pending' = pending
         \/ call[c].pc = "expired" /\ pending' = pending \ {call[c].token}
  PROVE  Calls'
<1>1. ASSUME NEW d \in Callers, d # c, call[d].pc \in Active, call[d].future = "unset"
      PROVE  call[d].token \in pending'
  <2>1. call[d].token \in pending
    BY <1>1 DEF Calls, NobodyStranded
  <2>2. call[c].pc = "expired" => call[d].token # call[c].token
    BY <1>1 DEF Calls, Tokens, Active
  <2> QED BY <2>1, <2>2
<1>2. call[c].pc = "expired" => call[c].future # "unset"
  BY DEF Calls, Tokens
<1>3. NobodyStranded'
  <2> SUFFICES ASSUME NEW d \in Callers, call'[d].pc \in Active, call'[d].future = "unset"
               PROVE  call'[d].token \in pending'
    BY DEF NobodyStranded
  <2>1. CASE d = c
    BY <2>1, <1>2 DEF Calls, NobodyStranded
  <2>2. CASE d # c
    BY <2>2, <1>1
  <2> QED BY <2>1, <2>2
<1>4. Tokens'
  BY DEF Calls, Tokens
<1> QED BY <1>3, <1>4 DEF Calls

\* A new call has a token that no other call and no earlier command has.
LEMMA CallsNewCall ==
  ASSUME TypeOK, PendingInStep, Calls, NEW c \in Callers, token_counter' = token_counter + 1,
         pending' = pending \cup {token_counter},
         call'[c].token = token_counter,
         call'[c].pc \notin {"expired", "interrupting"},
         \A d \in Callers : d # c => call'[d] = call[d]
  PROVE  Calls'
<1>0. /\ token_counter \in Nat
      /\ \A d \in Callers : call[d].token \in Nat
  BY DEF TypeOK, CallRecord
<1>1. NobodyStranded'
  BY DEF Calls, NobodyStranded
<1>2. \A d \in Callers : call'[d].pc \in Active => call'[d].token < token_counter'
  BY <1>0 DEF Calls, Tokens
<1>3. \A d, e \in Callers :
        call'[d].pc \in Active /\ call'[e].pc \in Active /\ d # e
          => call'[d].token # call'[e].token
  BY <1>0 DEF Calls, Tokens
<1>4. \A d \in Callers :
        call'[d].pc \in {"expired", "interrupting"} => call'[d].future # "unset"
  BY DEF Calls, Tokens
<1> QED BY <1>1, <1>2, <1>3, <1>4 DEF Calls, Tokens

\* Every step of send() keeps the calls in order.
LEMMA CallsCaller ==
  ASSUME TypeOK, PendingInStep, Calls, NEW c \in Callers, Caller(c)
  PROVE  Calls'
<1> USE DEF lifeVars, tableVars, queueVars, pipeVars
<1>0. call \in [Callers -> CallRecord] /\ call[c] \in CallRecord
  BY DEF TypeOK
<1>1. ASSUME NEW pc, call' = [call EXCEPT ![c].pc = pc]
      PROVE  /\ call'[c].token = call[c].token /\ call'[c].pc = pc
             /\ call'[c].future = call[c].future
             /\ \A d \in Callers : d # c => call'[d] = call[d]
  BY <1>0, <1>1 DEF CallRecord
<1>2. ASSUME NEW pc, NEW future, call' = [call EXCEPT ![c].pc = pc, ![c].future = future]
      PROVE  /\ call'[c].token = call[c].token /\ call'[c].pc = pc
             /\ call'[c].future = future
             /\ \A d \in Callers : d # c => call'[d] = call[d]
  BY <1>0, <1>2 DEF CallRecord
<1> DEFINE Cancelled == IF call[c].future = "unset" THEN "cancelled" ELSE call[c].future
<1>3. CASE SendRefused(c)
  <2>1. call' = [call EXCEPT ![c].pc = "RuntimeError"] /\ UNCHANGED tableVars
    BY <1>3 DEF SendRefused
  <2>2. "RuntimeError" \notin Active
    BY DEF Active
  <2>9. /\ call'[c].token = call[c].token /\ call'[c].pc = "RuntimeError"
        /\ call'[c].future = call[c].future
        /\ \A d \in Callers : d # c => call'[d] = call[d]
    BY <2>1, <1>1
  <2> QED BY <2>1, <2>2, <2>9, CallsOwnStep DEF Active
<1>4. ASSUME NEW big \in Sizes, Send(c, big) PROVE Calls'
  <2> DEFINE record == [pc |-> "locking", token |-> token_counter, future |-> "unset",
                        answer |-> 0, big |-> big]
  <2>1. token_counter' = token_counter + 1 /\ pending' = pending \cup {token_counter}
    BY <1>4 DEF Send
  <2>2. PICK pc \in {"locking", "draining", "waiting", "WriteError"} :
          call' = [call EXCEPT ![c] = [record EXCEPT !.pc = pc]]
    <3>1. CASE LockFree
      <4>1. WriteCommand(c, record, <<>>)
        BY <1>4, <3>1 DEF Send
      <4> QED BY <4>1 DEF WriteCommand
    <3>2. CASE ~ LockFree
      BY <1>4, <3>2 DEF Send
    <3> QED BY <3>1, <3>2
  <2>3. /\ call'[c].token = token_counter /\ call'[c].pc = pc
        /\ \A d \in Callers : d # c => call'[d] = call[d]
    BY <2>2, <1>0
  <2> QED BY <2>1, <2>3, CallsNewCall
<1>5. CASE CommandLockAcquired(c)
  <2>1. PICK pc \in {"draining", "waiting", "WriteError"} : call' = [call EXCEPT ![c].pc = pc]
    BY <1>5, <1>0 DEF CommandLockAcquired, WriteCommand
  <2>2. call[c].pc \in Active /\ UNCHANGED tableVars
    BY <1>5 DEF CommandLockAcquired, Active
  <2> QED BY <2>1, <2>2, <1>1, CallsOwnStep
<1>6. CASE Drained(c)
  <2>1. PICK pc \in {"waiting", "WriteError"} : call' = [call EXCEPT ![c].pc = pc]
    BY <1>6 DEF Drained
  <2>2. call[c].pc \in Active /\ UNCHANGED tableVars
    BY <1>6 DEF Drained, Active
  <2> QED BY <2>1, <2>2, <1>1, CallsOwnStep
<1>7. CASE TimerFires(c)
  <2>1. call' = [call EXCEPT ![c].pc = "expired", ![c].future = Cancelled]
    BY <1>7 DEF TimerFires
  <2>2. call[c].pc \in Active /\ UNCHANGED tableVars
    BY <1>7 DEF TimerFires, Active
  <2>3. Cancelled # "unset"
    OBVIOUS
  <2> HIDE DEF Cancelled
  <2>9. /\ call'[c].token = call[c].token /\ call'[c].pc = "expired"
        /\ call'[c].future = Cancelled
        /\ \A d \in Callers : d # c => call'[d] = call[d]
    BY <2>1, <1>2
  <2> QED BY <2>2, <2>3, <2>9, CallsOwnStep
<1>8. CASE TimeoutHandled(c)
  <2>1. PICK pc \in {"TimeoutError", "interrupting"} : call' = [call EXCEPT ![c].pc = pc]
    BY <1>8 DEF TimeoutHandled
  <2>2. /\ call[c].pc = "expired" /\ pending' = pending \ {call[c].token}
        /\ token_counter' = token_counter
    BY <1>8 DEF TimeoutHandled, ForgetToken
  <2>3. call[c].future # "unset" /\ call[c].pc \in Active
    BY <2>2 DEF Calls, Tokens, Active
  <2> QED BY <2>1, <2>2, <2>3, <1>1, CallsOwnStep
<1>9. CASE InterruptLockAcquired(c)
  <2>1. call' = [call EXCEPT ![c].pc = "TimeoutError"] /\ UNCHANGED tableVars
    BY <1>9 DEF InterruptLockAcquired
  <2>9. /\ call'[c].token = call[c].token /\ call'[c].pc = "TimeoutError"
        /\ call'[c].future = call[c].future
        /\ \A d \in Callers : d # c => call'[d] = call[d]
    BY <2>1, <1>1
  <2> QED BY <2>1, <2>9, CallsOwnStep DEF Active
<1>10. CASE CallerResumes(c)
  <2>1. PICK pc \in {"returned", "GDBError", "ConnectionError"} :
          call' = [call EXCEPT ![c].pc = pc]
    BY <1>10 DEF CallerResumes
  <2>2. UNCHANGED tableVars
    BY <1>10 DEF CallerResumes
  <2> QED BY <2>1, <2>2, <1>1, CallsOwnStep DEF Active
<1>11. CASE CallCancelled(c)
  <2>1. call' = [call EXCEPT ![c].pc = "CancelledError", ![c].future = Cancelled]
    BY <1>11 DEF CallCancelled
  <2>2. UNCHANGED tableVars
    BY <1>11 DEF CallCancelled
  <2>3. Cancelled # "unset" /\ "CancelledError" \notin Active
    BY DEF Active
  <2> HIDE DEF Cancelled
  <2>9. /\ call'[c].token = call[c].token /\ call'[c].pc = "CancelledError"
        /\ call'[c].future = Cancelled
        /\ \A d \in Callers : d # c => call'[d] = call[d]
    BY <2>1, <1>2
  <2> QED BY <2>2, <2>3, <2>9, CallsOwnStep DEF Active
<1> QED BY <1>3, <1>4, <1>5, <1>6, <1>7, <1>8, <1>9, <1>10, <1>11 DEF Caller

\* The reader settles what it takes out of the table.
LEMMA CallsReader ==
  ASSUME TypeOK, PendingInStep, Calls, Reader
  PROVE  Calls'
<1> USE DEF lifeVars, tableVars, queueVars, pipeVars
<1>1. ASSUME UNCHANGED <<tableVars, call>> PROVE Calls'
  BY <1>1 DEF Calls, Tokens, NobodyStranded
<1>2. CASE ReadResult
  <2> DEFINE record == Head(stdout)
  <2>1. record.token \in Nat /\ record.class \in {"done", "error"}
    <3>1. record \in Record /\ record.type = "result"
      BY <1>2 DEF ReadResult, ReadRecord, TypeOK
    <3> QED BY <3>1 DEF Record
  <2>2. HandleResult(record) /\ token_counter' = token_counter
    BY <1>2 DEF ReadResult
  <2> HIDE DEF record
  <2>3. CASE record.token \in pending
    BY <2>1, <2>2, <2>3, CallsResult DEF HandleResult, ForgetToken
  <2>4. CASE record.token \notin pending /\ pending_order # <<>>
    BY <2>1, <2>2, <2>4, CallsResult DEF HandleResult
  <2>5. CASE record.token \notin pending /\ pending_order = <<>>
    BY <2>2, <2>5, <1>1 DEF HandleResult
  <2> QED BY <2>3, <2>4, <2>5
<1>3. CASE ReaderError \/ ReaderEOF
  BY <1>3, CallsReject DEF ReaderError, ReaderEOF, ReaderGivesUp
<1>4. CASE ReadAsync \/ ReadConsole
  BY <1>4, <1>1 DEF ReadAsync, ReadConsole
<1> QED BY <1>2, <1>3, <1>4 DEF Reader

\* Every step keeps the tokens of the calls apart and each unsettled call in the table.
LEMMA CallsStep ==
  TypeOK /\ PendingInStep /\ Calls /\ [Next]_vars => Calls'
<1> SUFFICES ASSUME TypeOK, PendingInStep, Calls, [Next]_vars PROVE Calls'
  OBVIOUS
<1> USE DEF lifeVars, tableVars, queueVars, pipeVars
<1>1. ASSUME UNCHANGED <<tableVars, call>> PROVE Calls'
  BY <1>1 DEF Calls, Tokens, NobodyStranded
<1>2. CASE UNCHANGED vars
  BY <1>2, <1>1 DEF vars
<1>3. CASE Start
  BY <1>3, <1>1 DEF Start, StartBegin, StartDone, StartFailed
<1>4. ASSUME NEW s \in Stoppers, Stopper(s) PROVE Calls'
  <2>1. token_counter' = token_counter /\ (RejectAllPending \/ UNCHANGED <<tableVars, call>>)
    BY <1>4 DEF Stopper, StopBegin, StopLockAcquired, StopJoined, StopReaped, StopKills,
                JoinReader, Terminate, Finalise
  <2> QED BY <2>1, <1>1, CallsReject
<1>5. CASE Session \/ Gdb
  BY <1>5, <1>1 DEF Session, Gdb, EventTaken, ConsoleTaken, GdbAnswers, GdbExits,
                    GdbEmits, GdbDies
<1> QED BY <1>2, <1>3, <1>4, <1>5, CallsCaller, CallsReader DEF Next

\* Tokens are registered only while there is a process, and letting the process go
\* empties the table in the same step.
LEMMA EmptyStep ==
  TypeOK /\ PendingInStep /\ EmptyWithoutProcess /\ [Next]_vars => EmptyWithoutProcess'
<1> SUFFICES ASSUME TypeOK, PendingInStep, EmptyWithoutProcess, [Next]_vars
             PROVE  EmptyWithoutProcess'
  OBVIOUS
<1> USE DEF lifeVars, tableVars, queueVars, pipeVars
<1>1. ASSUME process' = process, pending' \subseteq pending PROVE EmptyWithoutProcess'
  BY <1>1 DEF EmptyWithoutProcess
<1>2. CASE UNCHANGED vars
  BY <1>2, <1>1 DEF vars
<1>3. CASE Start
  BY <1>3 DEF Start, StartBegin, StartDone, StartFailed, EmptyWithoutProcess
<1>4. ASSUME NEW c \in Callers, Caller(c) PROVE EmptyWithoutProcess'
  <2>1. ASSUME NEW big \in Sizes, Send(c, big) PROVE EmptyWithoutProcess'
    BY <2>1 DEF Send, EmptyWithoutProcess
  <2>2. CASE ~ \E big \in Sizes : Send(c, big)
    <3>1. process' = process /\ pending' \subseteq pending
      BY <1>4, <2>2 DEF Caller, SendRefused, CommandLockAcquired, Drained, TimerFires,
           TimeoutHandled, ForgetToken, InterruptLockAcquired, CallerResumes, CallCancelled
    <3> QED BY <3>1, <1>1
  <2> QED BY <2>1, <2>2
<1>5. ASSUME NEW s \in Stoppers, Stopper(s) PROVE EmptyWithoutProcess'
  <2>1. pending' = {} \/ (process' = process /\ pending' = pending)
    BY <1>5 DEF Stopper, StopBegin, StopLockAcquired, StopJoined, StopReaped, StopKills,
                JoinReader, Terminate, Finalise, RejectAllPending
  <2> QED BY <2>1 DEF EmptyWithoutProcess
<1>6. CASE Reader
  <2>1. process' = process /\ pending' \subseteq pending
    BY <1>6 DEF Reader, ReadResult, ReadAsync, ReadConsole, ReaderError, ReaderEOF,
         HandleResult, ForgetToken, ReaderGivesUp, RejectAllPending
  <2> QED BY <2>1, <1>1
<1>7. CASE Session \/ Gdb
  BY <1>7, <1>1 DEF Session, Gdb, EventTaken, ConsoleTaken, GdbAnswers, GdbExits,
                    GdbEmits, GdbDies
<1> QED BY <1>2, <1>3, <1>4, <1>5, <1>6, <1>7 DEF Next

-----------------------------------------------------------------------------
(* The inductive invariant, and what follows from it. *)

\* A new object satisfies the inductive invariant.
LEMMA InvInit == Init => IInv
BY TypeInit, LifeInit, TableInit, CallsInit DEF IInv, Calls

\* Every step preserves the inductive invariant.
LEMMA InvStep == IInv /\ [Next]_vars => IInv'
BY TypeStep, LifeStep, TableStep, CallsStep, EmptyStep DEF IInv, Calls

\* The inductive invariant holds in every reachable state.
THEOREM Invariant == Spec => []IInv
BY InvInit, InvStep, PTL DEF Spec

\* No handler takes a token out of the table and forgets the future of its caller.
THEOREM NobodyIsStranded == Spec => []NobodyStranded
<1>1. IInv => NobodyStranded
  BY DEF IInv
<1> QED BY <1>1, Invariant, PTL

\* When stop() has let the process go, every call in progress has been settled.
THEOREM ClosedIsSettled == Spec => []ClosedMeansSettled
<1>1. IInv => ClosedMeansSettled
  BY DEF IInv, Life, NobodyStranded, EmptyWithoutProcess, ClosedMeansSettled
<1> QED BY <1>1, Invariant, PTL

\* Only stop() leaves "exited": no reader is left to announce a target state, and
\* start() is over.
THEOREM ExitedIsLeftByStop == Spec => ExitedIsFinal
<1>1. IInv /\ [Next]_vars
        => [conn_state = "exited" => conn_state' \in {"exited", "disconnected"}]_vars
  <2> SUFFICES ASSUME IInv, Next, conn_state = "exited"
               PROVE  conn_state' \in {"exited", "disconnected"}
    OBVIOUS
  <2> USE DEF lifeVars
  <2>1. CASE Start
    BY <2>1 DEF IInv, Life, TypeOK, Start, StartBegin, StartDone, StartFailed
  <2>2. ASSUME NEW c \in Callers, Caller(c) PROVE conn_state' = conn_state
    BY <2>2 DEF Caller, SendRefused, Send, CommandLockAcquired, Drained, TimerFires,
                TimeoutHandled, InterruptLockAcquired, CallerResumes, CallCancelled
  <2>3. ASSUME NEW s \in Stoppers, Stopper(s)
        PROVE  conn_state' \in {conn_state, "disconnected"}
    BY <2>3 DEF Stopper, StopBegin, StopLockAcquired, StopJoined, StopReaped, StopKills,
                JoinReader, Terminate, Finalise
  <2>4. CASE Reader
    <3>1. Reader => reader = "reading"
      BY DEF Reader, ReadResult, ReadAsync, ReadConsole, ReaderError, ReaderEOF,
             ReadRecord, Reading
    <3> QED BY <3>1, <2>4 DEF IInv, Life
  <2>5. CASE Session \/ Gdb
    BY <2>5 DEF Session, Gdb, EventTaken, ConsoleTaken, GdbAnswers, GdbExits, GdbEmits,
                GdbDies
  <2> QED BY <2>1, <2>2, <2>3, <2>4, <2>5 DEF Next
<1> QED BY <1>1, Invariant, PTL DEF Spec, ExitedIsFinal
-----------------------------------------------------------------------------
(* The events in the queue. *)

\* The events that tell the target's state, and the last of them.
Exec(queue) == {i \in DOMAIN queue : queue[i] # "notify"}
LastExec(queue, i) == i \in Exec(queue) /\ \A j \in Exec(queue) : j <= i

\* If the queue tells a state at all, it is this one in the end.
Tells(queue, state) ==
  Exec(queue) # {} =>
    \E i \in Exec(queue) :
      LastExec(queue, i) /\ (state \in {"running", "stopped"} => queue[i] = state)

\* Taking the oldest event leaves the last one.
LEMMA TailTells ==
  ASSUME NEW queue \in Seq(Classes), queue # <<>>, NEW state, Tells(queue, state)
  PROVE  Tells(Tail(queue), state)
<1> SUFFICES ASSUME NEW k \in Exec(Tail(queue))
             PROVE  \E i \in Exec(Tail(queue)) :
                      LastExec(Tail(queue), i)
                      /\ (state \in {"running", "stopped"} => Tail(queue)[i] = state)
  BY DEF Tells
<1>1. /\ \A i \in DOMAIN Tail(queue) :
            i \in Nat \ {0} /\ i + 1 \in DOMAIN queue /\ Tail(queue)[i] = queue[i + 1]
      /\ \A i \in DOMAIN queue : i # 1 => i - 1 \in DOMAIN Tail(queue)
      /\ \A i \in DOMAIN queue : i \in Nat \ {0}
  OBVIOUS
<1>2. k \in Nat \ {0} /\ k + 1 \in Exec(queue)
  BY <1>1 DEF Exec
<1>3. PICK i \in Exec(queue) :
        LastExec(queue, i) /\ (state \in {"running", "stopped"} => queue[i] = state)
  BY <1>2 DEF Tells
<1>4. i \in Nat \ {0} /\ k + 1 <= i /\ i \in DOMAIN queue /\ queue[i] # "notify"
  BY <1>1, <1>2, <1>3 DEF LastExec, Exec
<1>5. i # 1
  BY <1>2, <1>4
<1>6. i - 1 \in DOMAIN Tail(queue) /\ (i - 1) + 1 = i
  BY <1>1, <1>4, <1>5
<1>7. Tail(queue)[i - 1] = queue[i]
  BY <1>1, <1>6
<1>8. i - 1 \in Exec(Tail(queue))
  BY <1>4, <1>6, <1>7 DEF Exec
<1>9. ASSUME NEW j \in Exec(Tail(queue)) PROVE j <= i - 1
  <2>1. j \in Nat /\ j + 1 \in Exec(queue)
    BY <1>1 DEF Exec
  <2>2. j + 1 <= i
    BY <2>1, <1>3 DEF LastExec
  <2> QED BY <2>1, <2>2, <1>4
<1> QED BY <1>3, <1>7, <1>8, <1>9 DEF LastExec

\* An event that tells a state is the last one; a notification is not one.
LEMMA AppendTells ==
  ASSUME NEW queue \in Seq(Classes), NEW state, Tells(queue, state), NEW class \in Classes
  PROVE  Tells(Append(queue, class), IF class = "notify" THEN state ELSE class)
<1> DEFINE longer == Append(queue, class)
           n == Len(queue) + 1
<1>1. /\ DOMAIN longer = DOMAIN queue \cup {n} /\ n \in Nat
      /\ \A i \in DOMAIN queue : i \in Nat /\ i < n /\ longer[i] = queue[i]
      /\ longer[n] = class
  OBVIOUS
<1> HIDE DEF longer, n
<1>2. CASE class = "notify"
  <2>1. Exec(longer) = Exec(queue)
    BY <1>1, <1>2 DEF Exec
  <2>2. \A i \in Exec(queue) : longer[i] = queue[i]
    BY <1>1 DEF Exec
  <2>3. Tells(longer, state)
    BY <2>1, <2>2 DEF Tells, LastExec
  <2> QED BY <2>3, <1>2 DEF longer
<1>3. CASE class # "notify"
  <2>1. n \in Exec(longer) /\ \A j \in Exec(longer) : j <= n
    BY <1>1, <1>3 DEF Exec
  <2>2. Tells(longer, class)
    BY <2>1, <1>1 DEF Tells, LastExec
  <2> QED BY <2>2, <1>3 DEF longer
<1> QED BY <1>2, <1>3

\* The events end in the state while there is one to tell.
EventsTell == Tells(event_queue, conn_state)

\* Every step keeps the last word on the target in the queue: when the queue is full
\* the oldest event makes way.
LEMMA EventsStep == TypeOK /\ EventsTell /\ [Next]_vars => EventsTell'
<1> SUFFICES ASSUME TypeOK, EventsTell, [Next]_vars PROVE EventsTell'
  OBVIOUS
<1> USE DEF lifeVars, tableVars, queueVars
<1>0. event_queue \in Seq(Classes)
  BY DEF TypeOK
<1>1. ASSUME event_queue' = event_queue,
             conn_state' = conn_state \/ conn_state' \notin {"running", "stopped"}
      PROVE  EventsTell'
  BY <1>1 DEF EventsTell, Tells
<1>2. CASE UNCHANGED vars
  BY <1>2, <1>1 DEF vars
<1>3. CASE Start
  BY <1>3, <1>1 DEF Start, StartBegin, StartDone, StartFailed
<1>4. ASSUME NEW c \in Callers, Caller(c) PROVE EventsTell'
  BY <1>4, <1>1 DEF Caller, SendRefused, Send, CommandLockAcquired, Drained, TimerFires,
              TimeoutHandled, InterruptLockAcquired, CallerResumes, CallCancelled
<1>5. ASSUME NEW s \in Stoppers, Stopper(s) PROVE EventsTell'
  BY <1>5, <1>1 DEF Stopper, StopBegin, StopLockAcquired, StopJoined, StopReaped, StopKills,
              JoinReader, Terminate, Finalise
<1>6. CASE ReadAsync
  <2>1. PICK class : class = Head(stdout).class
    OBVIOUS
  <2>2. /\ event_queue' = PutEvent(event_queue, class)
        /\ conn_state' = IF class = "notify" THEN conn_state ELSE class
    BY <1>6, <2>1 DEF ReadAsync
  <2>3. class \in Classes
    <3>1. Head(stdout) \in Record /\ Head(stdout).type = "async"
      BY <1>6 DEF ReadAsync, ReadRecord, TypeOK
    <3> QED BY <3>1, <2>1 DEF Record
  <2>4. CASE Len(event_queue) < QueueSize
    <3>1. event_queue' = Append(event_queue, class)
      BY <2>2, <2>4 DEF PutEvent
    <3> QED BY <3>1, <2>2, <2>3, <1>0, AppendTells DEF EventsTell
  <2>5. CASE ~(Len(event_queue) < QueueSize)
    <3>1. event_queue # <<>> /\ event_queue' = Append(Tail(event_queue), class)
      BY <2>2, <2>5, <1>0, ConnectionAssumption DEF PutEvent
    <3>2. Tail(event_queue) \in Seq(Classes)
      BY <3>1, <1>0
    <3>3. Tells(Tail(event_queue), conn_state)
      BY <3>1, <1>0, TailTells DEF EventsTell
    <3> QED BY <3>1, <3>2, <3>3, <2>2, <2>3, AppendTells DEF EventsTell
  <2> QED BY <2>4, <2>5
<1>7. CASE Reader /\ ~ReadAsync
  BY <1>7, <1>1 DEF Reader, ReadResult, ReadConsole, ReaderError, ReaderEOF, ReaderGivesUp
<1>8. CASE EventTaken
  <2>1. event_queue # <<>> /\ event_queue' = Tail(event_queue) /\ conn_state' = conn_state
    BY <1>8 DEF EventTaken
  <2> QED BY <2>1, <1>0, TailTells DEF EventsTell
<1>9. CASE ConsoleTaken \/ Gdb
  BY <1>9, <1>1 DEF ConsoleTaken, Gdb, GdbAnswers, GdbExits, GdbEmits, GdbDies
<1> QED BY <1>2, <1>3, <1>4, <1>5, <1>6, <1>7, <1>8, <1>9 DEF Next, Session

\* The exec events still queued end in the state the connection shows, although a full
\* queue drops events (_handle_async).
THEOREM LastWordIsKept == Spec => []QueueEndsInState
<1>1. Init => EventsTell
  BY DEF Init, EventsTell, Tells, Exec
<1>2. EventsTell /\ TypeOK => QueueEndsInState
  <2> SUFFICES ASSUME EventsTell, TypeOK, conn_state \in {"running", "stopped"},
                      Exec(event_queue) # {}
               PROVE  event_queue[CHOOSE i \in Exec(event_queue) :
                                    \A j \in Exec(event_queue) : j <= i] = conn_state
    BY DEF QueueEndsInState, Exec
  <2>1. PICK i \in Exec(event_queue) :
          LastExec(event_queue, i) /\ event_queue[i] = conn_state
    BY DEF EventsTell, Tells
  <2>2. PICK m : m = CHOOSE k \in Exec(event_queue) : \A j \in Exec(event_queue) : j <= k
    OBVIOUS
  <2>3. m \in Exec(event_queue) /\ \A j \in Exec(event_queue) : j <= m
    BY <2>1, <2>2 DEF LastExec
  <2>4. i \in Nat /\ m \in Nat
    BY <2>3 DEF TypeOK, Exec
  <2>5. i <= m /\ m <= i
    BY <2>1, <2>3 DEF LastExec
  <2>6. i = m
    BY <2>4, <2>5
  <2> QED BY <2>1, <2>2, <2>6
<1> QED BY <1>1, <1>2, EventsStep, TypeCorrect, PTL DEF Spec

-----------------------------------------------------------------------------
(* The way of a token: written to GDB once, answered once, taken by one call. *)

\* A command with token t is in stdin, its answer is in stdout, c was given it.
Written(input, t) == \E i \in DOMAIN input : input[i].token = t
Replied(output, t) == \E i \in DOMAIN output : output[i].type = "result" /\ output[i].token = t
Got(c, t) == call[c].future \in {"done", "error"} /\ call[c].answer = t
Known(t) == Written(stdin, t) \/ Replied(stdout, t) \/ \E c \in Callers : Got(c, t)

\* The pipes hold no token twice.
WrittenOnce(input) ==
  \A i, j \in DOMAIN input :
    input[i].token = input[j].token /\ input[i].token # RawToken => i = j
RepliedOnce(output) ==
  \A i, j \in DOMAIN output :
    /\ output[i].type = "result" /\ output[j].type = "result"
    /\ output[i].token = output[j].token /\ output[i].token # RawToken
    => i = j

IssuedTokens == Nat \ {RawToken}

\* An issued token is in one place only, and nowhere before its command is written.
Way ==
  /\ WrittenOnce(stdin) /\ RepliedOnce(stdout)
  /\ \A t \in IssuedTokens :
       /\ Known(t) => t < token_counter
       /\ Written(stdin, t) => ~Replied(stdout, t)
       /\ Written(stdin, t) \/ Replied(stdout, t) => \A c \in Callers : ~Got(c, t)
       /\ \A c, d \in Callers : Got(c, t) /\ Got(d, t) => c = d
  /\ \A c \in Callers : call[c].pc = "locking" =>
       call[c].token \in IssuedTokens /\ ~Known(call[c].token)

\* GDB takes a line.
LEMMA TakenLine ==
  ASSUME NEW input \in Seq(Input), input # <<>>, WrittenOnce(input)
  PROVE  /\ WrittenOnce(Tail(input))
         /\ Written(input, Head(input).token) /\ Head(input).token \in Nat
         /\ \A t \in IssuedTokens :
              Written(Tail(input), t) => Written(input, t) /\ t # Head(input).token
<1>1. /\ \A i \in DOMAIN Tail(input) :
            i \in Nat \ {0} /\ i + 1 \in DOMAIN input /\ Tail(input)[i] = input[i + 1]
      /\ Head(input) = input[1] /\ 1 \in DOMAIN input /\ input[1] \in Input
  OBVIOUS
<1>2. WrittenOnce(Tail(input))
  BY <1>1 DEF WrittenOnce
<1>3. ASSUME NEW i \in DOMAIN Tail(input), Tail(input)[i].token # RawToken
      PROVE  Tail(input)[i].token # Head(input).token
  <2>1. i + 1 # 1
    BY <1>1
  <2> QED BY <2>1, <1>1, <1>3 DEF WrittenOnce
<1>4. Head(input).token \in Nat
  BY <1>1 DEF Input
<1> QED BY <1>1, <1>2, <1>3, <1>4 DEF Written, IssuedTokens

\* A line is written whose token, if it has one, was not in the pipe.
LEMMA WrittenLine ==
  ASSUME NEW input \in Seq(Input), WrittenOnce(input), NEW item \in Input,
         item.token = RawToken \/ ~Written(input, item.token)
  PROVE  /\ WrittenOnce(Append(input, item))
         /\ \A t : Written(Append(input, item), t) => Written(input, t) \/ t = item.token
<1> DEFINE longer == Append(input, item)
           n == Len(input) + 1
<1>1. /\ DOMAIN longer = DOMAIN input \cup {n} /\ n \notin DOMAIN input
      /\ \A i \in DOMAIN input : longer[i] = input[i]
      /\ longer[n] = item
  OBVIOUS
<1> HIDE DEF longer, n
<1>2. WrittenOnce(longer) /\ \A t : Written(longer, t) => Written(input, t) \/ t = item.token
  BY <1>1 DEF WrittenOnce, Written
<1> QED BY <1>2 DEF longer

\* The reader takes a record.
LEMMA TakenRecord ==
  ASSUME NEW output \in Seq(Record), output # <<>>, RepliedOnce(output)
  PROVE  /\ RepliedOnce(Tail(output))
         /\ Head(output).type = "result" => Replied(output, Head(output).token)
         /\ \A t \in IssuedTokens : Replied(Tail(output), t) =>
              /\ Replied(output, t)
              /\ Head(output).type = "result" => t # Head(output).token
<1>1. /\ \A i \in DOMAIN Tail(output) :
            i \in Nat \ {0} /\ i + 1 \in DOMAIN output /\ Tail(output)[i] = output[i + 1]
      /\ Head(output) = output[1] /\ 1 \in DOMAIN output
  OBVIOUS
<1>2. RepliedOnce(Tail(output))
  BY <1>1 DEF RepliedOnce
<1>3. ASSUME NEW i \in DOMAIN Tail(output), Tail(output)[i].type = "result",
             Tail(output)[i].token # RawToken, Head(output).type = "result"
      PROVE  Tail(output)[i].token # Head(output).token
  <2>1. i + 1 # 1
    BY <1>1
  <2> QED BY <2>1, <1>1, <1>3 DEF RepliedOnce
<1> QED BY <1>1, <1>2, <1>3 DEF Replied, IssuedTokens

\* GDB writes a record whose token, if it has one, was not in the pipe.
LEMMA WrittenRecord ==
  ASSUME NEW output \in Seq(Record), RepliedOnce(output), NEW record \in Record,
         record.type = "result" => record.token = RawToken \/ ~Replied(output, record.token)
  PROVE  /\ RepliedOnce(Append(output, record))
         /\ \A t : Replied(Append(output, record), t) =>
              Replied(output, t) \/ (record.type = "result" /\ t = record.token)
<1> DEFINE longer == Append(output, record)
           n == Len(output) + 1
<1>1. /\ DOMAIN longer = DOMAIN output \cup {n} /\ n \notin DOMAIN output
      /\ \A i \in DOMAIN output : longer[i] = output[i]
      /\ longer[n] = record
  OBVIOUS
<1> HIDE DEF longer, n
<1>2. RepliedOnce(longer)
  BY <1>1 DEF RepliedOnce, Replied
<1>3. \A t : Replied(longer, t) => Replied(output, t) \/ (record.type = "result" /\ t = record.token)
  BY <1>1 DEF Replied
<1> QED BY <1>2, <1>3 DEF longer

\* No token gets any further.
LEMMA WayKept ==
  ASSUME TypeOK, Way, token_counter' = token_counter,
         WrittenOnce(stdin'), RepliedOnce(stdout'),
         \A t \in IssuedTokens : Written(stdin', t) => Written(stdin, t),
         \A t \in IssuedTokens : Replied(stdout', t) => Replied(stdout, t),
         \A c \in Callers : /\ \A t \in IssuedTokens : Got(c, t)' => Got(c, t)
                            /\ call'[c].pc = "locking" =>
                                 call[c].pc = "locking" /\ call'[c].token = call[c].token
  PROVE  Way'
<1>1. \A t \in IssuedTokens : Known(t)' => Known(t)
  BY DEF Known
<1> QED BY <1>1 DEF Way

\* The pipes stay as they are, or lose everything that was not read.
LEMMA SamePipes ==
  ASSUME Way
  PROVE  /\ WrittenOnce(stdin) /\ RepliedOnce(stdout) /\ WrittenOnce(<<>>)
         /\ \A t : ~Written(<<>>, t)
BY DEF Way, WrittenOnce, Written

\* A raw line has no token.
LEMMA RawLine ==
  ASSUME TypeOK, Way, NEW text \in {"interrupt", "exit"}, WriteRaw(text)
  PROVE  WrittenOnce(stdin') /\ \A t \in IssuedTokens : Written(stdin', t) => Written(stdin, t)
<1>1. PICK item : item = [token |-> RawToken, text |-> text]
  OBVIOUS
<1>2. item \in Input /\ item.token = RawToken
  BY <1>1 DEF Input, RawToken
<1>3. stdin' = stdin \/ stdin' = Append(stdin, item)
  BY <1>1 DEF WriteRaw
<1>4. stdin \in Seq(Input)
  BY DEF TypeOK
<1>5. WrittenOnce(stdin)
  BY SamePipes
<1>6. /\ WrittenOnce(Append(stdin, item))
      /\ \A t : Written(Append(stdin, item), t) => Written(stdin, t) \/ t = RawToken
  BY <1>2, <1>4, <1>5, WrittenLine
<1> QED BY <1>3, <1>5, <1>6 DEF IssuedTokens

\* A caller writes its command, whose token is new to the pipes and nobody else's.
LEMMA WayWritten ==
  ASSUME TypeOK, Way, NEW c \in Callers, NEW record \in CallRecord, NEW others,
         WriteCommand(c, record, others), UNCHANGED stdout,
         record.token \in IssuedTokens, ~Known(record.token),
         token_counter' \in Nat, token_counter <= token_counter', record.token < token_counter',
         \A t \in IssuedTokens :
           record.future \in {"done", "error"} /\ record.answer = t => Got(c, t),
         \A d \in Callers \ {c} : call[d].pc = "locking" => call[d].token # record.token
  PROVE  Way'
<1>1. PICK item : item = [token |-> record.token, text |-> "command"]
  OBVIOUS
<1>2. item \in Input /\ item.token = record.token
  BY <1>1 DEF Input, CallRecord
<1>3. stdin' = stdin \/ stdin' = Append(stdin, item)
  BY <1>1 DEF WriteCommand
<1>4. ~Written(stdin, record.token) /\ ~Replied(stdout, record.token)
  BY DEF Known
<1>5. /\ WrittenOnce(stdin')
      /\ \A t \in IssuedTokens : Written(stdin', t) => Written(stdin, t) \/ t = record.token
  <2>1. stdin \in Seq(Input)
    BY DEF TypeOK
  <2>2. WrittenOnce(stdin)
    BY SamePipes
  <2>3. /\ WrittenOnce(Append(stdin, item))
        /\ \A t : Written(Append(stdin, item), t) => Written(stdin, t) \/ t = record.token
    BY <1>2, <1>4, <2>1, <2>2, WrittenLine
  <2> QED BY <1>3, <2>2, <2>3
<1>6. PICK pc : pc \in {"WriteError", "draining", "waiting"}
                /\ call' = [call EXCEPT ![c] = [record EXCEPT !.pc = pc]]
  BY DEF WriteCommand
<1>7. PICK after : after = [record EXCEPT !.pc = pc]
  OBVIOUS
<1>8. /\ after.pc # "locking" /\ after.future = record.future /\ after.answer = record.answer
      /\ call' = [call EXCEPT ![c] = after]
  BY <1>6, <1>7 DEF CallRecord
<1>9. /\ \A d \in Callers : d # c => call'[d] = call[d]
      /\ call'[c] = after
  BY <1>8 DEF TypeOK
<1>10. \A d \in Callers : \A t \in IssuedTokens : Got(d, t)' => Got(d, t)
  BY <1>8, <1>9 DEF Got
<1>11. \A d \in Callers : call'[d].pc = "locking" => d # c /\ call'[d] = call[d]
  BY <1>8, <1>9
<1>12. \A t \in IssuedTokens : Known(t)' => Known(t) \/ t = record.token
  BY <1>5, <1>10 DEF Known
<1>13. \A t \in IssuedTokens : Known(t)' => t < token_counter'
  <2> SUFFICES ASSUME NEW t \in IssuedTokens, Known(t)' PROVE t < token_counter'
    OBVIOUS
  <2>1. Known(t) => t < token_counter
    BY DEF Way
  <2> QED BY <2>1, <1>12 DEF IssuedTokens, TypeOK
<1>14. \A t \in IssuedTokens : Written(stdin', t) => ~Replied(stdout', t)
  BY <1>4, <1>5 DEF Way
<1>15. \A t \in IssuedTokens : Written(stdin', t) \/ Replied(stdout', t) =>
           \A d \in Callers : ~Got(d, t)'
  BY <1>5, <1>10 DEF Way, Known
<1>16. \A t \in IssuedTokens : \A d, e \in Callers : Got(d, t)' /\ Got(e, t)' => d = e
  BY <1>10 DEF Way
<1>17. ASSUME NEW d \in Callers, call'[d].pc = "locking"
       PROVE  call'[d].token \in IssuedTokens /\ ~Known(call[d].token)'
  <2>1. d # c /\ call'[d] = call[d]
    BY <1>11, <1>17
  <2>2. PICK t \in IssuedTokens : t = call[d].token /\ ~Known(t) /\ t # record.token
    BY <2>1, <1>17 DEF Way
  <2>3. ~Known(t)'
    BY <2>2, <1>12
  <2>4. t = call'[d].token
    BY <2>1, <2>2
  <2> QED BY <2>2, <2>3, <2>4
<1> QED BY <1>5, <1>13, <1>14, <1>15, <1>16, <1>17 DEF Way

\* A result resolves one call, and is no longer on its way.
LEMMA WayRead ==
  ASSUME TypeOK, Tokens, Way, ReadResult
  PROVE  Way'
<1>1. /\ stdout # <<>> /\ stdout' = Tail(stdout) /\ Head(stdout).type = "result"
      /\ HandleResult(Head(stdout)) /\ UNCHANGED <<token_counter, stdin>>
  BY DEF ReadResult, ReadRecord, tableVars, lifeVars
<1>2. PICK r : r = Head(stdout).token
  OBVIOUS
<1>3. /\ RepliedOnce(stdout') /\ Replied(stdout, r)
      /\ \A t \in IssuedTokens : Replied(stdout', t) => Replied(stdout, t) /\ t # r
  BY <1>1, <1>2, TakenRecord DEF TypeOK, Way
<1>4. \/ call' = call
      \/ \E t : SetResult(t, Head(stdout).class, r)
  BY <1>1, <1>2 DEF HandleResult
<1>5. \A c \in Callers : call'[c].pc = call[c].pc /\ call'[c].token = call[c].token
  BY <1>4 DEF SetResult, TypeOK, CallRecord
<1>6. \E t : \A c \in Callers : Awaits(c, t) \/ call'[c] = call[c]
  BY <1>4 DEF SetResult
<1>7. PICK u : \A c \in Callers : Awaits(c, u) \/ call'[c] = call[c]
  BY <1>6
<1>8. \A c, d \in Callers : Awaits(c, u) /\ Awaits(d, u) => c = d
  BY DEF Awaits, Tokens
<1>9. \A c \in Callers : call'[c] = call[c] \/ call'[c].answer = r
  BY <1>4 DEF SetResult, TypeOK, CallRecord
<1>10. ASSUME NEW c \in Callers, NEW t, Got(c, t)'
       PROVE  Got(c, t) \/ (t = r /\ Awaits(c, u))
  BY <1>7, <1>9, <1>10 DEF Got
<1>11. ASSUME NEW t \in IssuedTokens
       PROVE  /\ Known(t)' => Known(t)
              /\ Written(stdin', t) => ~Replied(stdout', t)
  BY <1>1, <1>3, <1>10 DEF Known, Way
<1>12. ASSUME NEW t \in IssuedTokens, Written(stdin', t) \/ Replied(stdout', t), NEW c \in Callers
       PROVE  ~Got(c, t)'
  <2>1. t # r /\ ~Got(c, t)
    BY <1>1, <1>3, <1>12 DEF Way
  <2> QED BY <2>1, <1>10
<1>13. ASSUME NEW t \in IssuedTokens, NEW c \in Callers, NEW d \in Callers, Got(c, t)', Got(d, t)'
       PROVE  c = d
  <2>1. CASE t = r
    <3>1. ~Got(c, t) /\ ~Got(d, t)
      BY <2>1, <1>3 DEF Way
    <3> QED BY <3>1, <1>8, <1>10, <1>13
  <2>2. CASE t # r
    BY <2>2, <1>10, <1>13 DEF Way
  <2> QED BY <2>1, <2>2
<1>14. ASSUME NEW c \in Callers, call'[c].pc = "locking"
       PROVE  call'[c].token \in IssuedTokens /\ ~Known(call[c].token)'
  <2>1. PICK t \in IssuedTokens : t = call[c].token /\ ~Known(t)
    BY <1>5, <1>14 DEF Way
  <2>2. ~Known(t)' /\ t = call'[c].token
    BY <2>1, <1>5, <1>11
  <2> QED BY <2>1, <2>2
<1>15. WrittenOnce(stdin') /\ \A t \in IssuedTokens : Known(t)' => t < token_counter'
  BY <1>1, <1>11 DEF Way
<1> QED BY <1>3, <1>11, <1>12, <1>13, <1>14, <1>15 DEF Way

\* GDB answers a command: its token passes from one pipe to the other.
LEMMA WayAnswered ==
  ASSUME TypeOK, Way, NEW class \in {"done", "error"}, GdbAnswers(class)
  PROVE  Way'
<1>1. /\ stdin # <<>> /\ stdin' = Tail(stdin) /\ UNCHANGED <<call, token_counter>>
      /\ Emit([type |-> "result", token |-> Head(stdin).token, class |-> class])
  BY DEF GdbAnswers, tableVars, lifeVars
<1>2. PICK r : r = Head(stdin).token
  OBVIOUS
<1>3. PICK record : record = [type |-> "result", token |-> r, class |-> class]
  OBVIOUS
<1>4. /\ WrittenOnce(stdin') /\ Written(stdin, r) /\ r \in Nat
      /\ \A t \in IssuedTokens : Written(stdin', t) => Written(stdin, t) /\ t # r
  BY <1>1, <1>2, TakenLine DEF TypeOK, Way
<1>5. record \in Record /\ record.type = "result" /\ record.token = r
  BY <1>3, <1>4 DEF Record
<1>6. r # RawToken => ~Replied(stdout, r)
  BY <1>4 DEF Way, IssuedTokens
<1>7. /\ RepliedOnce(stdout')
      /\ \A t \in IssuedTokens : Replied(stdout', t) => Replied(stdout, t) \/ t = r
  <2>1. stdout \in Seq(Record) /\ RepliedOnce(stdout) /\ stdout' = Append(stdout, record)
    BY <1>1, <1>2, <1>3 DEF TypeOK, Way, Emit
  <2>2. /\ RepliedOnce(Append(stdout, record))
        /\ \A t : Replied(Append(stdout, record), t) => Replied(stdout, t) \/ t = r
    BY <2>1, <1>5, <1>6, WrittenRecord
  <2> QED BY <2>1, <2>2
<1>8. \A c \in Callers : \A t : Got(c, t)' <=> Got(c, t)
  BY <1>1 DEF Got
<1>9. \A t \in IssuedTokens : Known(t)' => Known(t)
  BY <1>4, <1>7, <1>8 DEF Known
<1>10. \A t \in IssuedTokens :
         /\ Known(t)' => t < token_counter'
         /\ Written(stdin', t) => ~Replied(stdout', t)
         /\ Written(stdin', t) \/ Replied(stdout', t) => \A c \in Callers : ~Got(c, t)'
         /\ \A c, d \in Callers : Got(c, t)' /\ Got(d, t)' => c = d
  BY <1>1, <1>4, <1>7, <1>8, <1>9 DEF Way
<1>11. ASSUME NEW c \in Callers, call'[c].pc = "locking"
       PROVE  call'[c].token \in IssuedTokens /\ ~Known(call[c].token)'
  <2>1. PICK t \in IssuedTokens : t = call[c].token /\ ~Known(t)
    BY <1>1, <1>11 DEF Way
  <2>2. ~Known(t)' /\ t = call'[c].token
    BY <2>1, <1>1, <1>9
  <2> QED BY <2>1, <2>2
<1> QED BY <1>4, <1>7, <1>10, <1>11 DEF Way

\* A new command has a token that has been nowhere, and is written or waits for the lock.
LEMMA WaySend ==
  ASSUME TypeOK, Tokens, Way, NEW c \in Callers, NEW big \in BOOLEAN, Send(c, big)
  PROVE  Way'
<1>1. PICK record : record = [pc |-> "locking", token |-> token_counter, future |-> "unset",
                              answer |-> 0, big |-> big]
  OBVIOUS
<1>2. /\ token_counter \in IssuedTokens /\ token_counter' = token_counter + 1
      /\ record \in CallRecord /\ UNCHANGED stdout
  BY <1>1 DEF Send, TypeOK, IssuedTokens, RawToken, CallRecord, Active, Futures
<1>3. ~Known(token_counter)
  BY <1>2 DEF Way, IssuedTokens
<1>4. \A d \in Callers : call[d].pc = "locking" => call[d].token # token_counter
  BY <1>2 DEF Tokens, Active, IssuedTokens
<1>5. CASE LockFree
  <2>1. WriteCommand(c, record, <<>>)
    BY <1>1, <1>5 DEF Send
  <2>2. /\ record.token = token_counter /\ record.future = "unset"
        /\ token_counter' \in Nat /\ token_counter <= token_counter' /\ token_counter < token_counter'
    BY <1>1, <1>2 DEF IssuedTokens
  <2> QED BY <2>1, <2>2, <1>2, <1>3, <1>4, WayWritten
<1>6. CASE ~LockFree
  <2>1. call' = [call EXCEPT ![c] = record] /\ stdin' = stdin
    BY <1>1, <1>6 DEF Send
  <2>2. call'[c] = record /\ \A d \in Callers : d # c => call'[d] = call[d]
    BY <2>1 DEF TypeOK
  <2>3. record.future = "unset" /\ record.token = token_counter
    BY <1>1
  <2>4. \A d \in Callers : \A t : Got(d, t)' => Got(d, t)
    BY <2>2, <2>3 DEF Got
  <2>5. \A t \in IssuedTokens : Known(t)' => Known(t)
    BY <2>1, <2>4, <1>2 DEF Known
  <2>6. \A t \in IssuedTokens : Known(t)' => t < token_counter'
    BY <2>5, <1>2 DEF Way, IssuedTokens
  <2>7. ASSUME NEW d \in Callers, call'[d].pc = "locking"
        PROVE  \E t \in IssuedTokens : t = call'[d].token /\ ~Known(t)
    BY <2>2, <2>3, <2>7, <1>2, <1>3 DEF Way
  <2>8. \A d \in Callers : call'[d].pc = "locking" =>
          call'[d].token \in IssuedTokens /\ ~Known(call[d].token)'
    <3> SUFFICES ASSUME NEW d \in Callers, call'[d].pc = "locking"
                 PROVE  call'[d].token \in IssuedTokens /\ ~Known(call[d].token)'
      OBVIOUS
    <3>1. PICK t \in IssuedTokens : t = call'[d].token /\ ~Known(t)
      BY <2>7
    <3>2. ~Known(t)'
      BY <3>1, <2>5
    <3> QED BY <3>1, <3>2
  <2>9. \A t \in IssuedTokens :
          /\ Written(stdin', t) => ~Replied(stdout', t)
          /\ Written(stdin', t) \/ Replied(stdout', t) => \A d \in Callers : ~Got(d, t)'
          /\ \A d, e \in Callers : Got(d, t)' /\ Got(e, t)' => d = e
    BY <2>1, <2>4, <1>2 DEF Way
  <2> QED BY <2>1, <2>6, <2>8, <2>9, <1>2 DEF Way
<1> QED BY <1>5, <1>6

\* The steps of send() after its first.
LEMMA WayCaller ==
  ASSUME TypeOK, Tokens, Way, NEW c \in Callers, Caller(c)
  PROVE  Way'
<1> USE DEF lifeVars, tableVars, queueVars, pipeVars
<1>1. CASE \E big \in Sizes : Send(c, big)
  BY <1>1, WaySend, ConnectionAssumption
<1>2. CASE CommandLockAcquired(c)
  <2>1. /\ call[c].pc = "locking" /\ WriteCommand(c, call[c], Tail(write_queue))
        /\ UNCHANGED <<stdout, token_counter>>
    BY <1>2 DEF CommandLockAcquired
  <2>2. /\ call[c].token \in IssuedTokens /\ ~Known(call[c].token)
        /\ call[c] \in CallRecord /\ token_counter \in Nat
    BY <2>1 DEF Way, TypeOK
  <2>3. /\ call[c].token < token_counter
        /\ \A d \in Callers \ {c} : call[d].pc = "locking" => call[d].token # call[c].token
    BY <2>1 DEF Tokens, Active
  <2>4. \A t \in IssuedTokens :
          call[c].future \in {"done", "error"} /\ call[c].answer = t => Got(c, t)
    BY DEF Got
  <2> QED BY <2>1, <2>2, <2>3, <2>4, WayWritten
<1>3. ASSUME /\ UNCHANGED <<token_counter, stdout>>
             /\ stdin' = stdin \/ WriteRaw("interrupt")
             /\ \A d \in Callers : d # c => call'[d] = call[d]
             /\ call'[c].token = call[c].token /\ call'[c].answer = call[c].answer
             /\ call'[c].future = call[c].future \/ call'[c].future = "cancelled"
             /\ call'[c].pc # "locking"
      PROVE  Way'
  <2>1. WrittenOnce(stdin') /\ \A t \in IssuedTokens : Written(stdin', t) => Written(stdin, t)
    BY <1>3, RawLine, SamePipes
  <2>2. \A d \in Callers : \A t \in IssuedTokens : Got(d, t)' => Got(d, t)
    BY <1>3 DEF Got
  <2>3. RepliedOnce(stdout') /\ \A t \in IssuedTokens : Replied(stdout', t) => Replied(stdout, t)
    BY <1>3, SamePipes
  <2>4. \A d \in Callers : call'[d].pc = "locking" =>
          call[d].pc = "locking" /\ call'[d].token = call[d].token
    BY <1>3
  <2> QED BY <2>1, <2>2, <2>3, <2>4, <1>3, WayKept
<1>4. ASSUME NEW pc, call' = [call EXCEPT ![c].pc = pc], pc # "locking"
      PROVE  /\ \A d \in Callers : d # c => call'[d] = call[d]
             /\ call'[c].token = call[c].token /\ call'[c].answer = call[c].answer
             /\ call'[c].future = call[c].future
             /\ call'[c].pc # "locking"
  BY <1>4 DEF TypeOK, CallRecord
<1> DEFINE Moves(pc) == call' = [call EXCEPT ![c].pc = pc]
           places == {"RuntimeError", "waiting", "WriteError", "returned", "GDBError",
                      "ConnectionError", "TimeoutError", "interrupting"}
<1>5. CASE SendRefused(c) \/ Drained(c) \/ CallerResumes(c)
  <2>1. UNCHANGED <<token_counter, stdout, stdin>>
    BY <1>5 DEF SendRefused, Drained, CallerResumes
  <2>2. \/ Moves("RuntimeError") \/ Moves("waiting") \/ Moves("WriteError")
        \/ Moves("returned") \/ Moves("GDBError") \/ Moves("ConnectionError")
    BY <1>5 DEF SendRefused, Drained, CallerResumes
  <2> HIDE DEF Moves
  <2>3. PICK pc \in places : Moves(pc)
    BY <2>2
  <2> QED BY <2>1, <2>3, <1>3, <1>4 DEF Moves
<1>6. CASE TimeoutHandled(c) \/ InterruptLockAcquired(c)
  <2>1. UNCHANGED <<token_counter, stdout>>
    BY <1>6 DEF TimeoutHandled, InterruptLockAcquired
  <2>2. stdin' = stdin \/ WriteRaw("interrupt")
    BY <1>6 DEF TimeoutHandled, InterruptLockAcquired
  <2>3. Moves("TimeoutError") \/ Moves("interrupting")
    BY <1>6 DEF TimeoutHandled, InterruptLockAcquired
  <2> HIDE DEF Moves
  <2>4. PICK pc \in places : Moves(pc)
    BY <2>3
  <2> QED BY <2>1, <2>2, <2>4, <1>3, <1>4 DEF Moves
<1>7. CASE TimerFires(c) \/ CallCancelled(c)
  <2>1. UNCHANGED <<token_counter, stdout, stdin>>
    BY <1>7 DEF TimerFires, CallCancelled
  <2>2. PICK future : future = IF call[c].future = "unset" THEN "cancelled" ELSE call[c].future
    OBVIOUS
  <2>3. \E pc : call' = [call EXCEPT ![c].pc = pc, ![c].future = future] /\ pc # "locking"
    BY <1>7, <2>2 DEF TimerFires, CallCancelled
  <2>4. PICK pc : call' = [call EXCEPT ![c].pc = pc, ![c].future = future] /\ pc # "locking"
    BY <2>3
  <2>5. /\ \A d \in Callers : d # c => call'[d] = call[d]
        /\ call'[c].token = call[c].token /\ call'[c].answer = call[c].answer
        /\ call'[c].future = future /\ call'[c].pc # "locking"
    BY <2>4 DEF TypeOK, CallRecord
  <2> QED BY <2>1, <2>2, <2>5, <1>3
<1> QED BY <1>1, <1>2, <1>5, <1>6, <1>7 DEF Caller

\* Every step keeps every token on its way.
LEMMA WayStep == TypeOK /\ Tokens /\ Way /\ [Next]_vars => Way'
<1> SUFFICES ASSUME TypeOK, Tokens, Way, [Next]_vars PROVE Way'
  OBVIOUS
<1> USE DEF lifeVars, tableVars, queueVars, pipeVars
<1>1. ASSUME token_counter' = token_counter, RejectAllPending \/ UNCHANGED call,
             WrittenOnce(stdin'), \A t \in IssuedTokens : Written(stdin', t) => Written(stdin, t),
             RepliedOnce(stdout'), \A t \in IssuedTokens : Replied(stdout', t) => Replied(stdout, t)
      PROVE  Way'
  <2>1. \A c \in Callers : /\ call'[c].pc = call[c].pc /\ call'[c].token = call[c].token
                           /\ call'[c].answer = call[c].answer
                           /\ call'[c].future = call[c].future \/ call'[c].future = "rejected"
    BY <1>1 DEF RejectAllPending, TypeOK, CallRecord
  <2>2. \A c \in Callers : \A t \in IssuedTokens : Got(c, t)' => Got(c, t)
    BY <2>1 DEF Got
  <2> QED BY <1>1, <2>1, <2>2, WayKept
<1>2. ASSUME UNCHANGED <<stdin, stdout, token_counter>>, RejectAllPending \/ UNCHANGED call
      PROVE  Way'
  BY <1>1, <1>2, SamePipes
<1>3. CASE UNCHANGED vars
  BY <1>3, <1>2 DEF vars
<1>4. CASE Start
  BY <1>4, <1>2 DEF Start, StartBegin, StartDone, StartFailed
<1>5. ASSUME NEW s \in Stoppers, Stopper(s) PROVE Way'
  <2>1. /\ UNCHANGED <<token_counter, stdout>>
        /\ RejectAllPending \/ UNCHANGED call
    BY <1>5 DEF Stopper, StopBegin, StopLockAcquired, StopJoined, StopReaped, StopKills,
                JoinReader, Terminate, Finalise
  <2>2. stdin' = stdin \/ stdin' = <<>> \/ WriteRaw("exit")
    BY <1>5 DEF Stopper, StopBegin, StopLockAcquired, StopJoined, StopReaped, StopKills
  <2>3. WrittenOnce(stdin') /\ \A t \in IssuedTokens : Written(stdin', t) => Written(stdin, t)
    BY <2>2, RawLine, SamePipes
  <2> QED BY <2>1, <2>3, <1>1, SamePipes
<1>6. ASSUME stdout # <<>>, stdout' = Tail(stdout), UNCHANGED <<stdin, token_counter>>,
             RejectAllPending \/ UNCHANGED call
      PROVE  Way'
  <2>1. RepliedOnce(stdout') /\ \A t \in IssuedTokens : Replied(stdout', t) => Replied(stdout, t)
    BY <1>6, SamePipes, TakenRecord DEF TypeOK
  <2> QED BY <2>1, <1>6, <1>1, SamePipes
<1>7. CASE ReadAsync \/ ReadConsole \/ ReaderError
  BY <1>7, <1>6 DEF ReadAsync, ReadConsole, ReaderError, ReaderGivesUp, ReadRecord
<1>8. CASE ReaderEOF
  BY <1>8, <1>2 DEF ReaderEOF, ReaderGivesUp
<1>9. ASSUME NEW record \in Record, Emit(record), record.type = "result" => record.token = RawToken,
             UNCHANGED <<call, token_counter>>, stdin' = stdin \/ stdin' = <<>>
      PROVE  Way'
  <2>1. stdout \in Seq(Record) /\ stdout' = Append(stdout, record)
    BY <1>9 DEF Emit, TypeOK
  <2>2. /\ RepliedOnce(Append(stdout, record))
        /\ \A t : Replied(Append(stdout, record), t) =>
             Replied(stdout, t) \/ (record.type = "result" /\ t = record.token)
    BY <2>1, <1>9, SamePipes, WrittenRecord
  <2>3. RepliedOnce(stdout') /\ \A t \in IssuedTokens : Replied(stdout', t) => Replied(stdout, t)
    BY <2>1, <2>2, <1>9 DEF IssuedTokens
  <2>4. WrittenOnce(stdin') /\ \A t \in IssuedTokens : Written(stdin', t) => Written(stdin, t)
    BY <1>9, SamePipes
  <2> QED BY <2>3, <2>4, <1>9, <1>1
<1>10. CASE GdbExits
  <2>1. PICK record : record = [type |-> "result", token |-> RawToken, class |-> "done"]
    OBVIOUS
  <2>2. record \in Record /\ record.token = RawToken
    BY <2>1 DEF Record, RawToken
  <2>3. Emit(record) /\ stdin' = <<>> /\ UNCHANGED <<call, token_counter>>
    BY <1>10, <2>1 DEF GdbExits
  <2> QED BY <2>2, <2>3, <1>9
<1>11. ASSUME NEW record \in Record, record.type # "result", GdbEmits(record) PROVE Way'
  BY <1>11, <1>9 DEF GdbEmits
<1>12. /\ \A class \in Classes : /\ [type |-> "async", class |-> class] \in Record
                                  /\ [type |-> "async", class |-> class].type # "result"
       /\ [type |-> "console"] \in Record /\ [type |-> "overlong"] \in Record
       /\ [type |-> "console"].type # "result" /\ [type |-> "overlong"].type # "result"
  BY DEF Record
<1>13. CASE GdbDies
  BY <1>13, <1>1, SamePipes DEF GdbDies
<1>14. CASE EventTaken \/ ConsoleTaken
  BY <1>14, <1>2 DEF EventTaken, ConsoleTaken
<1> QED BY <1>3, <1>4, <1>5, <1>7, <1>8, <1>10, <1>11, <1>12, <1>13, <1>14,
           WayCaller, WayRead, WayAnswered DEF Next, Reader, Session, Gdb

\* Tokens keep their way in every reachable state.
LEMMA TokensKeepTheirWay == Spec => []Way
<1>1. Init => Way
  BY DEF Init, Way, WrittenOnce, RepliedOnce, Known, Written, Replied, Got
<1>2. IInv /\ Way /\ [Next]_vars => Way'
  BY WayStep DEF IInv
<1> QED BY <1>1, <1>2, Invariant, PTL DEF Spec

\* A record resolves at most one call, whichever call it is: tokens are written once,
\* answered once and taken once (_handle_result).
THEOREM AnswersAreTakenOnce == Spec => []OneCallPerAnswer
<1>1. TypeOK /\ Way => OneCallPerAnswer
  <2> SUFFICES ASSUME TypeOK, Way, NEW c \in Callers, NEW d \in Callers,
                      call[c].future \in {"done", "error"}, call[d].future \in {"done", "error"},
                      call[c].answer = call[d].answer, call[c].answer # RawToken
               PROVE  c = d
    BY DEF OneCallPerAnswer
  <2>1. PICK t \in IssuedTokens : t = call[c].answer
    BY DEF TypeOK, CallRecord, IssuedTokens
  <2>2. Got(c, t) /\ Got(d, t)
    BY <2>1 DEF Got
  <2> QED BY <2>2 DEF Way
<1>2. IInv => TypeOK
  BY DEF IInv
<1> QED BY <1>1, <1>2, TokensKeepTheirWay, Invariant, PTL

-----------------------------------------------------------------------------
(* Answers without timeouts.  What undoes the token matching of            *)
(* _handle_result is a timeout of send(): its token leaves the table while *)
(* its answer is on the way, and its "-exec-interrupt" has an answer       *)
(* without a token.  Cancellations, lost pipes, stop() and EOF do no harm. *)

\* The timer of wait_for() in send() does not fire in this step.
NoTimer == \A c \in Callers : ~TimerFires(c)

\* The call has not timed out, and what it was given is the answer to its command.
InTime(c) ==
  /\ call[c].pc \notin {"expired", "interrupting"}
  /\ call[c].pc \in Active => call[c].future # "cancelled"
  /\ call[c].future \in {"done", "error"} => call[c].answer = call[c].token
  /\ call[c].pc = "returned" => call[c].future = "done"

\* All that GDB has to read, and all the results it has written, belong to the table.
ToCome(input, output, table) ==
  /\ \A i \in DOMAIN input : input[i].text = "command" /\ input[i].token \in table
  /\ \A i \in DOMAIN output : output[i].type = "result" => output[i].token \in table

\* While the reader reads, every result on the way finds its token in the table, so
\* that the fallback to the oldest pending command is never taken.
Matched ==
  /\ \A c \in Callers : InTime(c)
  /\ reader = "none" => gdb = "none" /\ stdin = <<>> /\ stdout = <<>>
  /\ reader \in {"none", "reading"} => \A c \in Callers : call[c].future # "rejected"
  /\ reader = "reading" => ToCome(stdin, stdout, pending)

\* An item leaves a pipe, or the first pipe is emptied.
LEMMA LessToCome ==
  ASSUME NEW input \in Seq(Input), NEW output \in Seq(Record), NEW table,
         ToCome(input, output, table)
  PROVE  /\ ToCome(<<>>, output, table)
         /\ input # <<>> => /\ ToCome(Tail(input), output, table)
                            /\ Head(input).text = "command" /\ Head(input).token \in table
         /\ output # <<>> => /\ ToCome(input, Tail(output), table)
                             /\ Head(output).type = "result" => Head(output).token \in table
<1>1. input # <<>> => /\ \A i \in DOMAIN Tail(input) :
                            i + 1 \in DOMAIN input /\ Tail(input)[i] = input[i + 1]
                      /\ Head(input) = input[1] /\ 1 \in DOMAIN input
  OBVIOUS
<1>2. output # <<>> => /\ \A i \in DOMAIN Tail(output) :
                             i + 1 \in DOMAIN output /\ Tail(output)[i] = output[i + 1]
                       /\ Head(output) = output[1] /\ 1 \in DOMAIN output
  OBVIOUS
<1>3. ToCome(<<>>, output, table)
  BY DEF ToCome
<1>4. input # <<>> => /\ ToCome(Tail(input), output, table)
                      /\ Head(input).text = "command" /\ Head(input).token \in table
  BY <1>1 DEF ToCome
<1>5. output # <<>> => /\ ToCome(input, Tail(output), table)
                       /\ Head(output).type = "result" => Head(output).token \in table
  BY <1>2 DEF ToCome
<1> QED BY <1>3, <1>4, <1>5

\* A command whose token is in the table is written.
LEMMA CommandToCome ==
  ASSUME NEW input \in Seq(Input), NEW output, NEW table, ToCome(input, output, table),
         NEW item \in Input, item.text = "command", item.token \in table
  PROVE  ToCome(Append(input, item), output, table)
<1>1. PICK longer : longer = Append(input, item)
  OBVIOUS
<1>2. \A i \in DOMAIN longer : (i \in DOMAIN input /\ longer[i] = input[i]) \/ longer[i] = item
  BY <1>1
<1>3. ToCome(longer, output, table)
  BY <1>2 DEF ToCome
<1> QED BY <1>1, <1>3

\* A record is written: a result has its token in the table.
LEMMA RecordToCome ==
  ASSUME NEW input, NEW output \in Seq(Record), NEW table, ToCome(input, output, table),
         NEW record \in Record, record.type = "result" => record.token \in table
  PROVE  ToCome(input, Append(output, record), table)
<1>1. PICK longer : longer = Append(output, record)
  OBVIOUS
<1>2. \A i \in DOMAIN longer : (i \in DOMAIN output /\ longer[i] = output[i]) \/ longer[i] = record
  BY <1>1
<1>3. ToCome(input, longer, table)
  BY <1>2 DEF ToCome
<1> QED BY <1>1, <1>3

\* A larger table, or one without a token that is in neither pipe, still has them all.
LEMMA OtherTable ==
  ASSUME NEW input, NEW output, NEW table, ToCome(input, output, table), NEW other
  PROVE  /\ ToCome(input, output, table \cup other)
         /\ \A t : ~Written(input, t) /\ ~Replied(output, t)
                     => ToCome(input, output, table \ {t})
<1>1. ToCome(input, output, table \cup other)
  BY DEF ToCome
<1>2. ASSUME NEW t, ~Written(input, t), ~Replied(output, t)
      PROVE  ToCome(input, output, table \ {t})
  BY <1>2 DEF ToCome, Written, Replied
<1> QED BY <1>1, <1>2

\* Rejecting the pending calls leaves every call in time.
LEMMA InTimeRejected ==
  ASSUME TypeOK, \A c \in Callers : InTime(c), RejectAllPending \/ UNCHANGED call
  PROVE  \A c \in Callers : InTime(c)'
<1>1. \A c \in Callers : /\ call'[c].pc = call[c].pc /\ call'[c].token = call[c].token
                         /\ call'[c].answer = call[c].answer
                         /\ \/ call'[c].future = call[c].future
                            \/ call'[c].future = "rejected" /\ call[c].pc \in Active
  BY DEF RejectAllPending, Awaits, TypeOK, CallRecord
<1> QED BY <1>1 DEF InTime, Active

\* A command waiting for the lock while the reader reads is still in the table.
LEMMA LockingIsPending ==
  ASSUME TypeOK, NobodyStranded, Way, Matched, reader = "reading",
         NEW c \in Callers, call[c].pc = "locking"
  PROVE  call[c].token \in pending
<1>1. call[c].future \in Futures /\ call[c].pc \in Active
  BY DEF TypeOK, CallRecord, Active
<1>2. call[c].future \notin {"rejected", "cancelled"}
  BY <1>1 DEF Matched, InTime
<1>3. call[c].future \notin {"done", "error"}
  <2> SUFFICES ASSUME call[c].future \in {"done", "error"} PROVE FALSE
    OBVIOUS
  <2>1. PICK t : t = call[c].token
    OBVIOUS
  <2>2. Got(c, t)
    BY <2>1 DEF Matched, InTime, Got
  <2>3. Known(t)
    BY <2>2 DEF Known
  <2> QED BY <2>1, <2>3 DEF Way
<1>4. call[c].future = "unset"
  BY <1>1, <1>2, <1>3 DEF Futures
<1> QED BY <1>1, <1>4 DEF NobodyStranded

\* A caller writes its command, which is in the table.
LEMMA MatchedWritten ==
  ASSUME TypeOK, Matched, NEW c \in Callers, NEW record \in CallRecord, NEW others,
         WriteCommand(c, record, others), UNCHANGED lifeVars, UNCHANGED stdout,
         pending \subseteq pending', reader = "reading" => record.token \in pending',
         reader \in {"none", "reading"} => record.future # "rejected",
         record.future # "cancelled",
         record.future \in {"done", "error"} => record.answer = record.token
  PROVE  Matched'
<1>1. PICK pc : pc \in {"WriteError", "draining", "waiting"}
                /\ call' = [call EXCEPT ![c] = [record EXCEPT !.pc = pc]]
  BY DEF WriteCommand
<1>2. PICK after : after = [record EXCEPT !.pc = pc]
  OBVIOUS
<1>3. /\ after.pc = pc /\ after.future = record.future /\ after.answer = record.answer
      /\ after.token = record.token
  BY <1>2 DEF CallRecord
<1>4. /\ \A d \in Callers : d # c => call'[d] = call[d]
      /\ call'[c] = after
  BY <1>1, <1>2 DEF TypeOK
<1>5. \A d \in Callers : InTime(d)'
  BY <1>1, <1>3, <1>4 DEF InTime, Matched
<1>6. reader' = reader /\ gdb' = gdb
  BY DEF lifeVars
<1>7. reader \in {"none", "reading"} => \A d \in Callers : call'[d].future # "rejected"
  BY <1>3, <1>4 DEF Matched
<1>8. reader = "none" => stdin' = stdin
  BY DEF Matched, WriteCommand, Broken
<1>9. ASSUME reader = "reading" PROVE ToCome(stdin', stdout', pending')
  <2>1. PICK item : item = [token |-> record.token, text |-> "command"]
    OBVIOUS
  <2>2. item \in Input /\ item.token \in pending' /\ item.text = "command"
    BY <1>9, <2>1 DEF Input, CallRecord
  <2>3. stdin' = stdin \/ stdin' = Append(stdin, item)
    BY <2>1 DEF WriteCommand
  <2>4. ToCome(stdin, stdout, pending')
    <3>1. ToCome(stdin, stdout, pending \cup pending')
      BY <1>9, OtherTable DEF Matched
    <3>2. pending \cup pending' = pending'
      OBVIOUS
    <3> QED BY <3>1, <3>2
  <2>5. stdin \in Seq(Input)
    BY DEF TypeOK
  <2>6. ToCome(Append(stdin, item), stdout, pending')
    BY <2>2, <2>4, <2>5, CommandToCome
  <2> QED BY <2>3, <2>4, <2>6
<1> QED BY <1>5, <1>6, <1>7, <1>8, <1>9 DEF Matched

\* The steps of send(), the timer aside.
LEMMA MatchedCaller ==
  ASSUME IInv, Way, Matched, NEW c \in Callers, Caller(c), ~TimerFires(c)
  PROVE  Matched'
<1>1. TypeOK /\ Life /\ NobodyStranded
  BY DEF IInv
<1>2. CASE \E big \in Sizes : Send(c, big)
  <2>1. PICK big \in Sizes : Send(c, big)
    BY <1>2
  <2>2. PICK record : record = [pc |-> "locking", token |-> token_counter, future |-> "unset",
                                answer |-> 0, big |-> big]
    OBVIOUS
  <2>3. /\ pending' = pending \cup {token_counter} /\ UNCHANGED <<lifeVars, stdout>>
        /\ process = "set"
    BY <2>1 DEF Send
  <2>4. reader # "none"
    BY <2>3, <1>1 DEF Life
  <2>5. CASE LockFree
    <3>1. WriteCommand(c, record, <<>>)
      BY <2>1, <2>2, <2>5 DEF Send
    <3>2. record \in CallRecord
      BY <1>1, <2>2, ConnectionAssumption DEF TypeOK, CallRecord, Active, Futures
    <3>3. record.token = token_counter /\ record.future = "unset"
      BY <2>2
    <3>4. pending \subseteq pending' /\ token_counter \in pending'
      BY <2>3
    <3> QED BY <1>1, <2>3, <3>1, <3>2, <3>3, <3>4, MatchedWritten
  <2>6. CASE ~LockFree
    <3>1. call' = [call EXCEPT ![c] = record] /\ stdin' = stdin
      BY <2>1, <2>2, <2>6 DEF Send
    <3>2. call'[c] = record /\ \A d \in Callers : d # c => call'[d] = call[d]
      BY <3>1, <1>1 DEF TypeOK
    <3>3. record.future = "unset" /\ record.pc = "locking"
      BY <2>2
    <3>4. \A d \in Callers : InTime(d)'
      BY <3>2, <3>3 DEF Matched, InTime
    <3>5. reader' = reader /\ gdb' = gdb /\ stdin' = stdin /\ stdout' = stdout
      BY <2>3, <3>1 DEF lifeVars
    <3>6. reader = "reading" => \A d \in Callers : call'[d].future # "rejected"
      BY <3>2, <3>3 DEF Matched
    <3>7. reader = "reading" => ToCome(stdin', stdout', pending')
      BY <2>3, <3>5, OtherTable DEF Matched
    <3> QED BY <2>4, <3>4, <3>5, <3>6, <3>7 DEF Matched
  <2> QED BY <2>5, <2>6
<1>3. CASE CommandLockAcquired(c)
  <2>1. /\ call[c].pc = "locking" /\ WriteCommand(c, call[c], Tail(write_queue))
        /\ UNCHANGED <<lifeVars, stdout, pending>>
    BY <1>3 DEF CommandLockAcquired, tableVars
  <2>2. call[c] \in CallRecord /\ InTime(c) /\ call[c].pc \in Active
    BY <2>1, <1>1 DEF TypeOK, Matched, Active
  <2>3. reader = "reading" => call[c].token \in pending'
    BY <2>1, <1>1, LockingIsPending
  <2>4. reader \in {"none", "reading"} => call[c].future # "rejected"
    BY DEF Matched
  <2>5. /\ call[c].future # "cancelled"
        /\ call[c].future \in {"done", "error"} => call[c].answer = call[c].token
    BY <2>2 DEF InTime
  <2> QED BY <2>1, <2>2, <2>3, <2>4, <2>5, <1>1, MatchedWritten
<1>4. ASSUME NEW pc, NEW future, UNCHANGED <<reader, gdb, pending, stdin, stdout>>,
             call' = [call EXCEPT ![c].pc = pc, ![c].future = future],
             pc \notin {"expired", "interrupting"},
             pc \in Active => future # "cancelled", pc = "returned" => future = "done",
             future \in {call[c].future, "cancelled"}
      PROVE  Matched'
  <2>1. /\ \A d \in Callers : d # c => call'[d] = call[d]
        /\ call'[c].pc = pc /\ call'[c].future = future
        /\ call'[c].token = call[c].token /\ call'[c].answer = call[c].answer
    BY <1>4, <1>1 DEF TypeOK, CallRecord
  <2>2. \A d \in Callers : InTime(d)'
    BY <1>4, <2>1 DEF Matched, InTime
  <2>3. \A d \in Callers : call'[d].future = "rejected" => call[d].future = "rejected"
    BY <1>4, <2>1
  <2> QED BY <1>4, <2>2, <2>3 DEF Matched
<1>5. CASE SendRefused(c) \/ Drained(c) \/ CallerResumes(c)
  <2>1. UNCHANGED <<reader, gdb, pending, stdin, stdout>>
    BY <1>5 DEF SendRefused, Drained, CallerResumes, lifeVars, tableVars, pipeVars
  <2>2. \E pc \in {"RuntimeError", "waiting", "WriteError", "returned", "GDBError",
                   "ConnectionError"} :
          /\ call' = [call EXCEPT ![c].pc = pc]
          /\ pc = "waiting" => call[c].pc = "draining"
          /\ pc = "returned" => call[c].future = "done"
    BY <1>5 DEF SendRefused, Drained, CallerResumes
  <2>3. PICK pc \in {"RuntimeError", "waiting", "WriteError", "returned", "GDBError",
                     "ConnectionError"} :
          /\ call' = [call EXCEPT ![c].pc = pc]
          /\ pc = "waiting" => call[c].pc = "draining"
          /\ pc = "returned" => call[c].future = "done"
    BY <2>2
  <2>4. call' = [call EXCEPT ![c].pc = pc, ![c].future = call[c].future]
    BY <2>3, <1>1 DEF TypeOK, CallRecord
  <2>5. pc \in Active => call[c].future # "cancelled"
    BY <2>3 DEF Active, Matched, InTime
  <2> QED BY <2>1, <2>3, <2>4, <2>5, <1>4
<1>6. CASE TimeoutHandled(c) \/ InterruptLockAcquired(c)
  BY <1>6 DEF TimeoutHandled, InterruptLockAcquired, Matched, InTime
<1>7. CASE CallCancelled(c)
  <2>1. UNCHANGED <<reader, gdb, pending, stdin, stdout>>
    BY <1>7 DEF CallCancelled, lifeVars, tableVars, pipeVars
  <2>2. PICK future : future = IF call[c].future = "unset" THEN "cancelled" ELSE call[c].future
    OBVIOUS
  <2>3. call' = [call EXCEPT ![c].pc = "CancelledError", ![c].future = future]
    BY <1>7, <2>2 DEF CallCancelled
  <2>4. "CancelledError" \notin Active \cup {"expired", "interrupting", "returned"}
    BY DEF Active
  <2>5. future \in {call[c].future, "cancelled"}
    BY <2>2
  <2> QED BY <2>1, <2>3, <2>4, <2>5, <1>4
<1> QED BY <1>2, <1>3, <1>5, <1>6, <1>7 DEF Caller

\* The reader takes a result: its token is in the table, and in no pipe any more.
LEMMA MatchedRead ==
  ASSUME TypeOK, Way, Matched, ReadResult
  PROVE  Matched'
<1>1. /\ stdout # <<>> /\ stdout' = Tail(stdout) /\ Head(stdout).type = "result"
      /\ reader = "reading" /\ HandleResult(Head(stdout))
      /\ UNCHANGED <<reader, gdb, stdin>>
  BY DEF ReadResult, ReadRecord, Reading, tableVars, lifeVars
<1>2. PICK r : r = Head(stdout).token
  OBVIOUS
<1>3. r \in pending /\ ToCome(stdin, stdout', pending)
  BY <1>1, <1>2, LessToCome DEF TypeOK, Matched
<1>4. r \in IssuedTokens
  BY <1>3 DEF TypeOK, IssuedTokens, RawToken
<1>5. pending' = pending \ {r} /\ SetResult(r, Head(stdout).class, r)
  BY <1>1, <1>2, <1>3 DEF HandleResult, ForgetToken
<1>6. ~Written(stdin', r) /\ ~Replied(stdout', r)
  <2>1. Replied(stdout, r) /\ \A t \in IssuedTokens : Replied(stdout', t) => t # r
    BY <1>1, <1>2, TakenRecord DEF TypeOK, Way
  <2> QED BY <2>1, <1>1, <1>4 DEF Way
<1>7. ToCome(stdin', stdout', pending')
  BY <1>1, <1>3, <1>5, <1>6, OtherTable
<1>8. \A c \in Callers :
        \/ call'[c] = call[c]
        \/ /\ call'[c].pc = call[c].pc /\ call'[c].token = r /\ call'[c].answer = r
           /\ call[c].pc \in Active
           /\ call'[c].future = Head(stdout).class
  BY <1>5 DEF SetResult, Awaits, TypeOK, CallRecord
<1>9. Head(stdout).class \in {"done", "error"}
  <2>1. Head(stdout) \in Record
    BY <1>1 DEF TypeOK
  <2> QED BY <2>1, <1>1 DEF Record
<1>10. \A c \in Callers : InTime(c)' /\ call'[c].future # "rejected"
  BY <1>1, <1>8, <1>9 DEF Matched, InTime, Active
<1> QED BY <1>1, <1>7, <1>10 DEF Matched

\* The reader gives up or is joined: what comes is not read.
LEMMA MatchedClosing ==
  ASSUME TypeOK, Matched, RejectAllPending \/ UNCHANGED call, reader' \notin {"none", "reading"}
  PROVE  Matched'
<1>1. \A c \in Callers : InTime(c)'
  BY InTimeRejected DEF Matched
<1> QED BY <1>1 DEF Matched

\* GDB answers: a token passes from one pipe to the other.
LEMMA MatchedAnswered ==
  ASSUME TypeOK, Matched, NEW class \in {"done", "error"}, GdbAnswers(class)
  PROVE  Matched'
<1>1. /\ gdb = "alive" /\ stdin # <<>> /\ stdin' = Tail(stdin)
      /\ UNCHANGED <<call, reader, gdb, pending>>
      /\ Emit([type |-> "result", token |-> Head(stdin).token, class |-> class])
  BY DEF GdbAnswers, tableVars, lifeVars
<1>2. ASSUME reader = "reading" PROVE ToCome(stdin', stdout', pending')
  <2>1. stdin \in Seq(Input) /\ stdout \in Seq(Record)
    BY DEF TypeOK
  <2>2. PICK r : r = Head(stdin).token
    OBVIOUS
  <2>3. PICK record : record = [type |-> "result", token |-> r, class |-> class]
    OBVIOUS
  <2>4. ToCome(stdin', stdout, pending) /\ r \in pending
    BY <1>1, <1>2, <2>1, <2>2, LessToCome DEF Matched
  <2>5. record \in Record /\ record.token = r
    BY <2>3, <2>4 DEF Record, TypeOK
  <2>6. ToCome(stdin', Append(stdout, record), pending)
    BY <2>1, <2>4, <2>5, RecordToCome
  <2> QED BY <2>2, <2>3, <2>6, <1>1 DEF Emit
<1> QED BY <1>1, <1>2 DEF Matched, InTime

\* Every step but the firing of a timer keeps every answer with its call.
LEMMA MatchedStep == IInv /\ Way /\ Matched /\ [Next]_vars /\ [NoTimer]_vars => Matched'
<1> SUFFICES ASSUME IInv, Way, Matched, [Next]_vars, [NoTimer]_vars PROVE Matched'
  OBVIOUS
<1>1. TypeOK /\ Life
  BY DEF IInv
<1> USE DEF lifeVars, tableVars, queueVars, pipeVars
<1>2. ASSUME UNCHANGED <<call, reader, gdb, pending>>,
             reader = "none" => stdin' = stdin /\ stdout' = stdout,
             reader = "reading" => ToCome(stdin', stdout', pending)
      PROVE  Matched'
  BY <1>2 DEF Matched, InTime
<1>3. ASSUME UNCHANGED <<call, reader, gdb, pending, stdin, stdout>> PROVE Matched'
  BY <1>2, <1>3 DEF Matched
<1>4. CASE UNCHANGED vars
  BY <1>3, <1>4 DEF vars
<1>5. CASE Start
  <2>1. CASE StartBegin \/ StartFailed
    BY <2>1, <1>3 DEF StartBegin, StartFailed
  <2>2. CASE StartDone
    <3>1. /\ start = "spawning" /\ reader' = "reading"
          /\ UNCHANGED <<call, pending, stdin, stdout>>
      BY <2>2 DEF StartDone
    <3>2. reader = "none"
      BY <1>1, <3>1 DEF Life
    <3>3. stdin' = <<>> /\ stdout' = <<>>
      BY <3>1, <3>2 DEF Matched
    <3>4. ToCome(stdin', stdout', pending')
      BY <3>3 DEF ToCome
    <3>5. \A c \in Callers : InTime(c)' /\ call'[c].future # "rejected"
      BY <3>1, <3>2 DEF Matched, InTime
    <3> QED BY <3>1, <3>4, <3>5 DEF Matched
  <2> QED BY <1>5, <2>1, <2>2 DEF Start
<1>6. ASSUME NEW c \in Callers, Caller(c) PROVE Matched'
  <2>1. CASE UNCHANGED vars
    BY <2>1, <1>4
  <2>2. CASE NoTimer
    BY <2>2, <1>6, MatchedCaller DEF NoTimer
  <2> QED BY <2>1, <2>2
<1>7. ASSUME NEW s \in Stoppers, Stopper(s) PROVE Matched'
  <2>1. RejectAllPending \/ UNCHANGED call
    BY <1>7 DEF Stopper, StopBegin, StopLockAcquired, StopJoined, StopReaped, StopKills,
                JoinReader, Terminate, Finalise
  <2>2. \/ reader' \notin {"none", "reading"}
        \/ UNCHANGED <<call, reader, gdb, pending, stdin, stdout>>
    <3>1. CASE StopBegin(s) \/ StopLockAcquired(s) \/ StopJoined(s)
      BY <3>1 DEF StopBegin, StopLockAcquired, StopJoined, JoinReader
    <3>2. CASE StopReaped(s) \/ StopKills(s)
      BY <3>2, <1>1 DEF StopReaped, StopKills, Life
    <3> QED BY <1>7, <3>1, <3>2 DEF Stopper
  <2> QED BY <2>1, <2>2, <1>1, <1>3, MatchedClosing
<1>8. CASE ReadAsync \/ ReadConsole
  <2>1. /\ stdout # <<>> /\ stdout' = Tail(stdout) /\ reader = "reading"
        /\ UNCHANGED <<call, reader, gdb, pending, stdin>>
    BY <1>8 DEF ReadAsync, ReadConsole, ReadRecord, Reading
  <2>2. stdin \in Seq(Input) /\ stdout \in Seq(Record) /\ ToCome(stdin, stdout, pending)
    BY <1>1, <2>1 DEF TypeOK, Matched
  <2>3. ToCome(stdin', stdout', pending)
    BY <2>1, <2>2, LessToCome
  <2> QED BY <2>1, <2>3, <1>2
<1>9. CASE ReaderError \/ ReaderEOF
  <2>1. RejectAllPending /\ reader' = "ended"
    BY <1>9 DEF ReaderError, ReaderEOF, ReaderGivesUp
  <2> QED BY <2>1, <1>1, MatchedClosing
<1>10. ASSUME gdb = "alive" PROVE reader # "none"
  BY <1>10 DEF Matched
<1>11. CASE GdbExits
  <2>1. /\ gdb = "alive" /\ stdin # <<>> /\ Head(stdin).text = "exit"
        /\ UNCHANGED <<call, reader>>
    BY <1>11 DEF GdbExits
  <2>2. stdin \in Seq(Input) /\ stdout \in Seq(Record)
    BY <1>1 DEF TypeOK
  <2>3. reader # "reading"
    BY <2>1, <2>2, LessToCome DEF Matched
  <2> QED BY <2>1, <2>3, <1>1, <1>10, MatchedClosing
<1>12. ASSUME NEW record \in Record, record.type # "result", GdbEmits(record) PROVE Matched'
  <2>1. /\ gdb = "alive" /\ stdout' = Append(stdout, record)
        /\ UNCHANGED <<call, reader, gdb, pending, stdin>>
    BY <1>12 DEF GdbEmits, Emit
  <2>2. stdout \in Seq(Record)
    BY <1>1 DEF TypeOK
  <2>3. reader = "reading" => ToCome(stdin', stdout', pending)
    BY <2>1, <2>2, <1>12, RecordToCome DEF Matched
  <2> QED BY <2>1, <2>3, <1>2, <1>10
<1>13. /\ \A class \in Classes : /\ [type |-> "async", class |-> class] \in Record
                                  /\ [type |-> "async", class |-> class].type # "result"
       /\ [type |-> "console"] \in Record /\ [type |-> "overlong"] \in Record
       /\ [type |-> "console"].type # "result" /\ [type |-> "overlong"].type # "result"
  BY DEF Record
<1>14. CASE GdbDies
  <2>1. /\ gdb = "alive" /\ gdb' = "exited" /\ stdin' = <<>>
        /\ UNCHANGED <<call, reader, pending, stdout>>
    BY <1>14 DEF GdbDies
  <2>2. stdin \in Seq(Input) /\ stdout \in Seq(Record)
    BY <1>1 DEF TypeOK
  <2>3. reader = "reading" => ToCome(stdin', stdout', pending')
    BY <2>1, <2>2, LessToCome DEF Matched
  <2> QED BY <2>1, <2>3, <1>10 DEF Matched, InTime
<1>15. CASE EventTaken \/ ConsoleTaken
  BY <1>15, <1>3 DEF EventTaken, ConsoleTaken
<1> QED BY <1>1, <1>4, <1>5, <1>6, <1>7, <1>8, <1>9, <1>11, <1>12, <1>13, <1>14, <1>15,
           MatchedRead, MatchedAnswered DEF Next, Reader, Session, Gdb

\* As long as no command times out, the record a call returns is the answer to its own
\* command ("token-based command/response matching", line 44), whatever calls are
\* cancelled and whenever GDB dies, the reader fails or stop() closes the connection.
\* (An interrupt that the session writes itself is no part of this module.)
THEOREM AnswersMatchWithoutTimeouts == Spec /\ [][NoTimer]_vars => []OwnAnswer
<1>1. Init => Matched
  BY DEF Init, Matched, InTime
<1>2. Matched => OwnAnswer
  BY DEF Matched, InTime, OwnAnswer
<1> QED BY <1>1, <1>2, MatchedStep, TokensKeepTheirWay, Invariant, PTL DEF Spec

-----------------------------------------------------------------------------
(* MIConnection implements CommandChannel: every step of the connection is *)
(* a step of the channel or leaves what its users see as it is.            *)

Requests == [c \in Callers |-> RequestOf(c)]

\* A new connection is a new channel without requests.
LEMMA ChannelInit == Init => Channel!Init
BY DEF Init, Channel!Init, ChannelPhase, RequestOf, Active

\* What nobody sees: neither the phase nor a request changes.
LEMMA Stutter ==
  ASSUME ChannelPhase' = ChannelPhase, call' = call
  PROVE  UNCHANGED Channel!vars
BY DEF Channel!vars, RequestOf

\* A step of caller c that keeps the phase moves only the request of c.
LEMMA OwnRequest ==
  ASSUME TypeOK, NEW c \in Callers, UNCHANGED lifeVars,
         \A d \in Callers : d # c => call'[d] = call[d],
         call'[c] \in CallRecord
  PROVE  /\ ChannelPhase' = ChannelPhase
         /\ Requests' = [Requests EXCEPT ![c] = RequestOf(c)']
BY DEF ChannelPhase, Requests, RequestOf, lifeVars

\* The step of the channel that a step of caller c is.
LEMMA OwnStep ==
  ASSUME TypeOK, NEW c \in Callers, UNCHANGED lifeVars,
         \A d \in Callers : d # c => call'[d] = call[d],
         call'[c] \in CallRecord,
         \/ RequestOf(c)' = RequestOf(c)
         \/ RequestOf(c)' = "idle"
         \/ RequestOf(c) = "idle" /\ RequestOf(c)' = "asked" /\ ChannelPhase \in {"up", "lost"}
         \/ RequestOf(c) = "asked" /\ RequestOf(c)' = "abandoned"
         \/ RequestOf(c) = "asked" /\ RequestOf(c)' = "answered" /\ ChannelPhase = "up"
  PROVE  [Channel!Next]_(Channel!vars)
<1>1. /\ ChannelPhase' = ChannelPhase
      /\ Requests' = [Requests EXCEPT ![c] = RequestOf(c)']
      /\ Requests[c] = RequestOf(c)
  BY OwnRequest DEF Requests
<1>2. CASE RequestOf(c)' = RequestOf(c)
  BY <1>1, <1>2 DEF Channel!vars, Requests
<1>3. CASE RequestOf(c)' = "idle" /\ RequestOf(c) # "idle"
  BY <1>1, <1>3 DEF Channel!Next, Channel!Finish, Requests
<1>4. CASE RequestOf(c) = "idle" /\ RequestOf(c)' = "asked" /\ ChannelPhase \in {"up", "lost"}
  BY <1>1, <1>4 DEF Channel!Next, Channel!Ask, Requests
<1>5. CASE RequestOf(c) = "asked" /\ RequestOf(c)' = "abandoned"
  BY <1>1, <1>5 DEF Channel!Next, Channel!Abandon, Requests
<1>6. CASE RequestOf(c) = "asked" /\ RequestOf(c)' = "answered" /\ ChannelPhase = "up"
  BY <1>1, <1>6 DEF Channel!Next, Channel!Answer, Requests
<1> QED BY <1>2, <1>3, <1>4, <1>5, <1>6

\* Rejecting all pending futures settles every open request: with NobodyStranded, there
\* is no open request outside the table.
LEMMA RejectSettles ==
  ASSUME TypeOK, NobodyStranded, RejectAllPending
  PROVE  Requests' = [c \in Callers |-> IF Requests[c] = "asked" THEN "rejected" ELSE Requests[c]]
<1> SUFFICES ASSUME NEW c \in Callers
             PROVE  RequestOf(c)' = IF RequestOf(c) = "asked" THEN "rejected" ELSE RequestOf(c)
  BY DEF Requests
<1>1. call[c] \in CallRecord
  BY DEF TypeOK
<1>2. CASE call[c].token \in pending /\ Awaits(c, call[c].token)
  <2>1. call'[c] = [call[c] EXCEPT !.future = "rejected"]
    BY <1>2 DEF RejectAllPending
  <2>2. call'[c].pc = call[c].pc /\ call'[c].future = "rejected"
    BY <2>1, <1>1 DEF CallRecord
  <2> QED BY <2>2, <1>2 DEF RequestOf, Awaits
<1>3. CASE ~ (call[c].token \in pending /\ Awaits(c, call[c].token))
  <2>1. call'[c] = call[c]
    BY <1>3 DEF RejectAllPending
  <2>2. ~ (call[c].pc \in Active /\ call[c].future = "unset")
    BY <1>3 DEF NobodyStranded, Awaits
  <2>3. RequestOf(c) # "asked"
    BY <2>2, <1>1 DEF RequestOf
  <2> QED BY <2>1, <2>3 DEF RequestOf
<1> QED BY <1>2, <1>3

\* A step of send().
LEMMA CallerStep ==
  ASSUME IInv, IInv', NEW c \in Callers, Caller(c)
  PROVE  [Channel!Next]_(Channel!vars)
<1> USE DEF lifeVars, tableVars, queueVars, pipeVars
<1>0. /\ TypeOK /\ call \in [Callers -> CallRecord] /\ call[c] \in CallRecord
      /\ call'[c] \in CallRecord
  BY DEF IInv, TypeOK
<1>1. UNCHANGED lifeVars /\ \A d \in Callers : d # c => call'[d] = call[d]
  BY <1>0 DEF Caller, SendRefused, Send, WriteCommand, CommandLockAcquired, Drained, TimerFires,
       TimeoutHandled, InterruptLockAcquired, CallerResumes, CallCancelled
<1>2. ASSUME RequestOf(c)' \in {RequestOf(c), "idle"} PROVE [Channel!Next]_(Channel!vars)
  BY <1>0, <1>1, <1>2, OwnStep
\* an active call that changes only its position keeps its request or ends it
<1>3. ASSUME call[c].pc \in Active, NEW pc, call' = [call EXCEPT ![c].pc = pc]
      PROVE  [Channel!Next]_(Channel!vars)
  <2>1. call'[c].future = call[c].future
    BY <1>0, <1>3 DEF CallRecord
  <2>2. RequestOf(c)' \in {RequestOf(c), "idle"}
    BY <2>1, <1>3 DEF RequestOf
  <2> QED BY <2>2, <1>2
<1>4. CASE SendRefused(c)
  <2>1. call'[c].pc = "RuntimeError"
    BY <1>4, <1>0 DEF SendRefused, CallRecord
  <2>2. RequestOf(c)' = "idle"
    BY <2>1 DEF RequestOf, Active
  <2> QED BY <2>2, <1>2
<1>5. ASSUME NEW big \in Sizes, Send(c, big) PROVE [Channel!Next]_(Channel!vars)
  <2>1. call[c].pc \in Finished /\ process = "set" /\ UNCHANGED lifeVars
    BY <1>5 DEF Send
  <2>2. RequestOf(c) = "idle"
    BY <2>1 DEF RequestOf, Finished, Outcomes, Active
  <2>3. ChannelPhase \in {"up", "lost"}
    BY <2>1 DEF IInv, Life, ChannelPhase
  <2>4. call'[c].future = "unset"
    <3> DEFINE record == [pc |-> "locking", token |-> token_counter, future |-> "unset",
                          answer |-> 0, big |-> big]
    <3>1. PICK pc \in {"locking", "draining", "waiting", "WriteError"} :
            call' = [call EXCEPT ![c] = [record EXCEPT !.pc = pc]]
      <4>1. CASE LockFree
        <5>1. WriteCommand(c, record, <<>>)
          BY <1>5, <4>1 DEF Send
        <5> QED BY <5>1 DEF WriteCommand
      <4>2. CASE ~ LockFree
        BY <1>5, <4>2 DEF Send
      <4> QED BY <4>1, <4>2
    <3> QED BY <3>1, <1>0
  <2>5. RequestOf(c)' \in {"asked", "idle"}
    BY <2>4 DEF RequestOf
  <2> QED BY <2>2, <2>3, <2>5, <1>0, <1>1, OwnStep
<1>6. CASE CommandLockAcquired(c)
  <2>1. PICK pc \in {"draining", "waiting", "WriteError"} : call' = [call EXCEPT ![c].pc = pc]
    BY <1>6, <1>0 DEF CommandLockAcquired, WriteCommand
  <2> QED BY <1>6, <2>1, <1>3 DEF CommandLockAcquired, Active
<1>7. CASE Drained(c)
  <2>1. PICK pc \in {"waiting", "WriteError"} : call' = [call EXCEPT ![c].pc = pc]
    BY <1>7 DEF Drained
  <2> QED BY <1>7, <2>1, <1>3 DEF Drained, Active
<1>8. CASE TimerFires(c)
  <2> DEFINE Cancelled == IF call[c].future = "unset" THEN "cancelled" ELSE call[c].future
  <2>1. call' = [call EXCEPT ![c].pc = "expired", ![c].future = Cancelled]
    BY <1>8 DEF TimerFires
  <2>2. call'[c].pc = "expired" /\ call'[c].future = Cancelled /\ call[c].pc = "waiting"
    BY <1>8, <2>1, <1>0 DEF TimerFires, CallRecord
  <2>3. CASE call[c].future = "unset"
    <3>1. RequestOf(c) = "asked" /\ RequestOf(c)' = "abandoned"
      BY <2>2, <2>3 DEF RequestOf, Active
    <3> QED BY <3>1, <1>0, <1>1, OwnStep
  <2>4. CASE call[c].future # "unset"
    <3>1. RequestOf(c)' = RequestOf(c)
      BY <2>2, <2>4 DEF RequestOf, Active
    <3> QED BY <3>1, <1>2
  <2> QED BY <2>3, <2>4
<1>9. CASE TimeoutHandled(c)
  <2>1. PICK pc \in {"TimeoutError", "interrupting"} : call' = [call EXCEPT ![c].pc = pc]
    BY <1>9 DEF TimeoutHandled
  <2> QED BY <1>9, <2>1, <1>3 DEF TimeoutHandled, Active
<1>10. CASE InterruptLockAcquired(c)
  BY <1>10, <1>3 DEF InterruptLockAcquired, Active
<1>11. CASE CallerResumes(c)
  <2>1. PICK pc \in {"returned", "GDBError", "ConnectionError"} :
          call' = [call EXCEPT ![c].pc = pc]
    BY <1>11 DEF CallerResumes
  <2> QED BY <1>11, <2>1, <1>3 DEF CallerResumes, Active
<1>12. CASE CallCancelled(c)
  <2>1. call'[c].pc = "CancelledError"
    BY <1>12, <1>0 DEF CallCancelled, CallRecord
  <2>2. RequestOf(c)' = "idle"
    BY <2>1 DEF RequestOf, Active
  <2> QED BY <2>2, <1>2
<1> QED BY <1>4, <1>5, <1>6, <1>7, <1>8, <1>9, <1>10, <1>11, <1>12 DEF Caller

\* A step of stop(): it closes the channel or is not seen.
LEMMA StopperStep ==
  ASSUME IInv, IInv', NEW s \in Stoppers, Stopper(s)
  PROVE  [Channel!Next]_(Channel!vars)
<1>1. CASE process' = "none" /\ process = "set" /\ start' = start /\ RejectAllPending
  <2>1. ChannelPhase \in {"up", "lost"} /\ ChannelPhase' = "closed"
    BY <1>1 DEF IInv, Life, ChannelPhase
  <2>2. Requests' = [c \in Callers |-> IF Requests[c] = "asked" THEN "rejected"
                                       ELSE Requests[c]]
    BY <1>1, RejectSettles DEF IInv
  <2> QED BY <2>1, <2>2 DEF Channel!Next, Channel!Close, Channel!Settle, Requests
<1>2. CASE process' = process /\ start' = start /\ call' = call
           /\ conn_state' \in {conn_state, "disconnected"}
  <2>1. ChannelPhase' = ChannelPhase
    BY <1>2 DEF IInv, Life, ChannelPhase
  <2> QED BY <2>1, <1>2, Stutter
<1>3. process = "set" \/ process = "none"
  BY DEF IInv, TypeOK
\* finalising what another stop() has finalised: the table is empty already
<1>4. CASE process = "none" /\ Finalise(s) /\ start' = start
  <2>1. pending = {}
    BY <1>4 DEF IInv, EmptyWithoutProcess
  <2>2. call' = call
    BY <1>4, <2>1 DEF Finalise, RejectAllPending, IInv, TypeOK
  <2>3. process' = process /\ conn_state' = "disconnected"
    BY <1>4 DEF Finalise
  <2> QED BY <1>2, <1>4, <2>2, <2>3
<1>5. start' = start
  BY DEF Stopper, StopBegin, StopLockAcquired, StopJoined, StopReaped, StopKills
<1>6. \/ Finalise(s)
      \/ process' = process /\ call' = call /\ conn_state' \in {conn_state, "disconnected"}
  BY DEF Stopper, StopBegin, StopLockAcquired, StopJoined, StopReaped, StopKills,
         JoinReader, Terminate
<1>7. Finalise(s) => process' = "none" /\ RejectAllPending
  BY DEF Finalise
<1> QED BY <1>1, <1>2, <1>3, <1>4, <1>5, <1>6, <1>7

\* A step of the reader: it answers one request, loses the channel or is not seen.
LEMMA ReaderStep ==
  ASSUME IInv, IInv', Reader
  PROVE  [Channel!Next]_(Channel!vars)
<1> USE DEF lifeVars, tableVars, queueVars, pipeVars
<1>0. /\ TypeOK /\ call \in [Callers -> CallRecord] /\ call' \in [Callers -> CallRecord]
  BY DEF IInv, TypeOK
<1>1. reader = "reading"
  BY DEF Reader, ReadResult, ReadAsync, ReadConsole, ReaderError, ReaderEOF, ReadRecord, Reading
<1>2. ChannelPhase = "up"
  BY <1>1 DEF IInv, Life, ChannelPhase
<1>3. ASSUME NEW t, NEW class \in {"done", "error"}, NEW answer \in Nat,
             SetResult(t, class, answer), UNCHANGED lifeVars
      PROVE  [Channel!Next]_(Channel!vars)
  <2>1. CASE \E c \in Callers : Awaits(c, t)
    <3>1. PICK c \in Callers : Awaits(c, t)
      BY <2>1
    <3>2. \A d \in Callers : d # c => ~ Awaits(d, t)
      BY <3>1 DEF IInv, Tokens, Awaits
    <3>3. \A d \in Callers : d # c => call'[d] = call[d]
      BY <1>3, <3>2 DEF SetResult
    <3>4. call'[c] = [call[c] EXCEPT !.future = class, !.answer = answer]
      BY <1>3, <3>1 DEF SetResult
    <3>5. call[c] \in CallRecord
      BY <1>0
    <3>6. call'[c].future = class /\ call'[c].pc = call[c].pc
      BY <3>4, <3>5 DEF CallRecord
    <3>7. RequestOf(c) = "asked"
      BY <3>1 DEF RequestOf, Awaits
    <3>8. RequestOf(c)' = "answered"
      BY <3>1, <3>6 DEF RequestOf, Awaits
    <3> QED BY <3>3, <3>7, <3>8, <1>0, <1>2, <1>3, OwnStep
  <2>2. CASE ~ \E c \in Callers : Awaits(c, t)
    <3>1. call' = call
      BY <2>2, <1>3, <1>0 DEF SetResult
    <3> QED BY <3>1, <1>3, Stutter DEF ChannelPhase
  <2> QED BY <2>1, <2>2
<1>4. CASE ReadResult
  <2> DEFINE record == Head(stdout)
  <2>1. record.token \in Nat /\ record.class \in {"done", "error"}
    <3>1. record \in Record /\ record.type = "result"
      BY <1>4, <1>0 DEF ReadResult, ReadRecord, TypeOK
    <3> QED BY <3>1 DEF Record
  <2>2. HandleResult(record) /\ UNCHANGED lifeVars
    BY <1>4 DEF ReadResult
  <2> HIDE DEF record
  <2>3. CASE \E t : SetResult(t, record.class, record.token)
    BY <2>1, <2>2, <2>3, <1>3
  <2>4. CASE call' = call
    BY <2>2, <2>4, Stutter DEF ChannelPhase
  <2> QED BY <2>2, <2>3, <2>4 DEF HandleResult
<1>5. CASE ReadAsync
  <2>1. UNCHANGED <<start, process, call>>
    BY <1>5 DEF ReadAsync
  <2>2. conn_state' # "exited"
    <3>1. reader' = "reading"
      BY <1>5, <1>1 DEF ReadAsync
    <3> QED BY <3>1 DEF IInv, Life
  <2>3. ChannelPhase' = ChannelPhase
    BY <2>1, <2>2, <1>2 DEF ChannelPhase
  <2> QED BY <2>1, <2>3, Stutter
<1>6. CASE ReadConsole
  BY <1>6, Stutter DEF ReadConsole, ChannelPhase
<1>7. CASE ReaderError \/ ReaderEOF
  <2>1. UNCHANGED <<start, process>> /\ conn_state' = "exited" /\ RejectAllPending
    BY <1>7 DEF ReaderError, ReaderEOF, ReaderGivesUp
  <2>2. ChannelPhase' = "lost"
    BY <2>1, <1>2 DEF ChannelPhase
  <2>3. Requests' = [c \in Callers |-> IF Requests[c] = "asked" THEN "rejected"
                                       ELSE Requests[c]]
    BY <2>1, RejectSettles DEF IInv
  <2> QED BY <2>2, <2>3, <1>2 DEF Channel!Next, Channel!Lose, Channel!Settle, Requests
<1> QED BY <1>4, <1>5, <1>6, <1>7 DEF Reader

\* Every step of the connection is a step of the channel or is not seen.
LEMMA ChannelStep == IInv /\ IInv' /\ [Next]_vars => [Channel!Next]_(Channel!vars)
<1> SUFFICES ASSUME IInv, IInv', [Next]_vars PROVE [Channel!Next]_(Channel!vars)
  OBVIOUS
<1> USE DEF lifeVars, tableVars, queueVars, pipeVars
<1>1. CASE UNCHANGED vars
  BY <1>1, Stutter DEF vars, ChannelPhase
<1>2. CASE StartBegin \/ StartFailed
  <2>1. ChannelPhase' = ChannelPhase /\ call' = call
    BY <1>2 DEF StartBegin, StartFailed, ChannelPhase
  <2> QED BY <2>1, Stutter
<1>3. CASE StartDone
  <2>1. ChannelPhase = "new" /\ ChannelPhase' = "up" /\ call' = call
    BY <1>3 DEF StartDone, ChannelPhase
  <2> QED BY <2>1 DEF Channel!Next, Channel!Open, RequestOf
<1>4. CASE Session \/ Gdb
  <2>1. UNCHANGED <<conn_state, start, process, call>>
    BY <1>4 DEF Session, Gdb, EventTaken, ConsoleTaken, GdbAnswers, GdbExits, GdbEmits,
                GdbDies
  <2> QED BY <2>1, Stutter DEF ChannelPhase
<1> QED BY <1>1, <1>2, <1>3, <1>4, CallerStep, StopperStep, ReaderStep DEF Next, Start

\* The connection implements the channel.
THEOREM ConnectionImplementsChannel == Spec => ImplementsChannel
BY ChannelInit, ChannelStep, Invariant, PTL DEF Spec, ImplementsChannel, Channel!Spec
=============================================================================
