----------------------------- MODULE UartProofs -----------------------------
(***************************************************************************)
(* Proofs about Uart, for any number of tasks and callbacks and every size *)
(* of the driver's buffers.                                                *)
(***************************************************************************)
EXTENDS Uart, SequenceTheorems, TLAPS

(* A mutex is kept from one action to the next only by the blocking write  *)
(* and the blocking read, and the event task makes its calls from inside a *)
(* callback.                                                               *)
LocksInv ==
  /\ pc \in [Tasks -> Places]
  /\ txLock \in Tasks \cup {Nobody} /\ rxLock \in Tasks \cup {Nobody}
  /\ \A t \in Tasks : pc[t] = "write" <=> txLock = t
  /\ \A t \in Tasks : pc[t] = "read" <=> rxLock = t
  /\ pc[EventTask] # "idle" => loop \in {"rx_user", "tx_user"}

(* What close relies on: past its wait, the event task is gone for good.   *)
CloseInv ==
  /\ exited <=> loop = "exited"
  /\ \A t \in Tasks : pc[t] = "close_delete" => exited
  /\ freed => exited /\ \A t \in Tasks : pc[t] = "idle"

UartInv == LocksInv /\ CloseInv /\ WritesDoNotOverlap

(* A new handle is unlocked, open and silent.                              *)
LEMMA UartInvInit == InitialState => UartInv
<1> SUFFICES ASSUME InitialState PROVE UartInv
  OBVIOUS
<1> QED
  BY UartAssumption
  DEF InitialState, UartInv, LocksInv, CloseInv, WritesDoNotOverlap, Places,
    Tasks

(* Every step of a task, of the event task and of the driver keeps UartInv. *)
LEMMA UartInvNext == UartInv /\ [Next]_vars => UartInv'
<1> SUFFICES ASSUME UartInv, [Next]_vars PROVE UartInv'
  OBVIOUS
<1> USE UartAssumption
    DEF UartInv, LocksInv, CloseInv, WritesDoNotOverlap, Places, Tasks, txVars,
        rxVars, lifeVars, driverVars, taskVars, callVars
<1>1. ASSUME NEW t \in Tasks, WriteBegin(t) \/ WriteAsync(t) PROVE UartInv'
  BY <1>1 DEF WriteBegin, WriteAsync, MayCall, Go
<1>2. ASSUME NEW t \in Tasks, ReadBegin(t) \/ FlushRx(t) PROVE UartInv'
  BY <1>2 DEF ReadBegin, FlushRx, MayCall, Go
<1>3. ASSUME NEW t \in Tasks, CloseTx(t) PROVE UartInv'
  BY <1>3 DEF CloseTx, MayCall, Go
<1>4. ASSUME NEW t \in Tasks, WriteEnd(t) \/ ReadEnd(t) PROVE UartInv'
  BY <1>4 DEF WriteEnd, ReadEnd, Go
<1>5. ASSUME NEW t \in Tasks, SetTxIdle(t) \/ SetTxRecheck(t) \/ SetTxStore(t)
      PROVE  UartInv'
  BY <1>5 DEF SetTxIdle, SetTxRecheck, SetTxStore, Go
<1>6. ASSUME NEW t \in Tasks, SetRxIdle(t) \/ SetRxStore(t) \/ SetRxRefused(t)
      PROVE  UartInv'
  BY <1>6 DEF SetRxIdle, SetRxStore, SetRxEnd, SetRxRefused, Go
<1>7. ASSUME NEW t \in Tasks, CloseRx(t) \/ CloseExit(t) PROVE UartInv'
  BY <1>7 DEF CloseRx, CloseExit, Go
<1>8. ASSUME NEW t \in Tasks, CloseDelete(t) PROVE UartInv'
  BY <1>8 DEF CloseDelete, Go
<1>9. ASSUME NEW c, SetTxReplace(Setter, c) \/ SetTxFirst(Setter, c)
      PROVE  UartInv'
  BY <1>9 DEF SetTxReplace, SetTxFirst, MayCall, Begin
<1>10. ASSUME NEW c, SetRxReplace(Setter, c) \/ SetRxFirst(Setter, c)
       PROVE  UartInv'
  BY <1>10 DEF SetRxReplace, SetRxFirst, MayCall, Begin
<1>11. CASE SetRxSame(Setter)
  BY <1>11 DEF SetRxSame, MayCall
<1>12. CASE Open
  BY <1>12 DEF Open
<1>13. CASE TaskCheck
  BY <1>13 DEF TaskCheck, Task
<1>14. CASE TaskReceive \/ TaskSkipsData \/ TaskDispatch \/ TaskRxFinish
  BY <1>14 DEF TaskReceive, TaskSkipsData, TaskDispatch, TaskRxFinish, Task
<1>15. CASE TaskReadBytes \/ CallbackReturns
  BY <1>15 DEF TaskReadBytes, CallbackReturns, Task
<1>16. CASE TaskNothingSent \/ TaskSent \/ TaskTxFinish
  BY <1>16 DEF TaskNothingSent, TaskSent, TaskTxFinish, Task
<1>17. CASE BytesSent \/ \E n \in 1 .. Burst : BytesArrive(n)
  BY <1>17 DEF BytesSent, BytesArrive
<1>18. CASE UNCHANGED vars
  BY <1>18 DEF vars
<1> QED
  BY <1>1, <1>2, <1>3, <1>4, <1>5, <1>6, <1>7, <1>8, <1>9, <1>10, <1>11, <1>12,
     <1>13, <1>14, <1>15, <1>16, <1>17, <1>18
  DEF Next, Call, InCall, Register, EventLoop

(* Blocking and asynchronous writes of any number of tasks never overlap.  *)
THEOREM UartWritesDoNotOverlap == UartSpec => []WritesDoNotOverlap
<1>1. UartInv => WritesDoNotOverlap
  BY DEF UartInv
<1> QED BY UartInvInit, UartInvNext, <1>1, PTL DEF UartSpec

(* blusys_uart_close frees nothing the event task or a call still uses.    *)
THEOREM UartFreedHandleUnused == UartSpec => []FreedHandleUnused
<1>1. UartInv => FreedHandleUnused
  BY UartAssumption DEF UartInv, LocksInv, CloseInv, FreedHandleUnused
<1> QED BY UartInvInit, UartInvNext, <1>1, PTL DEF UartSpec

(* Each counter changes only where its callback begins or ends.            *)
LEMMA CountersNext == CountersMatch /\ [Next]_vars => CountersMatch'
<1> SUFFICES ASSUME CountersMatch, [Next]_vars PROVE CountersMatch'
  OBVIOUS
<1> USE DEF CountersMatch, txVars, rxVars, lifeVars, driverVars, taskVars,
  callVars
<1>1. ASSUME NEW t \in Tasks, Call(t) PROVE CountersMatch'
  BY <1>1 DEF Call, WriteBegin, WriteAsync, ReadBegin, FlushRx, CloseTx
<1>2. ASSUME NEW t \in Tasks, InCall(t) PROVE CountersMatch'
  BY <1>2 DEF InCall, WriteEnd, ReadEnd, SetTxIdle, SetTxRecheck, SetTxStore,
     SetRxIdle, SetRxStore, SetRxRefused, CloseRx, CloseExit, CloseDelete
<1>3. CASE Register
  BY <1>3 DEF Register, SetRxSame, SetTxReplace, SetTxFirst, SetRxReplace,
     SetRxFirst
<1>4. CASE Open
  BY <1>4 DEF Open
<1>5. CASE TaskCheck \/ TaskReceive \/ TaskSkipsData \/ TaskReadBytes
  BY <1>5 DEF TaskCheck, TaskReceive, TaskSkipsData, TaskReadBytes, Task
<1>6. CASE TaskDispatch
  BY <1>6 DEF TaskDispatch, Task
<1>7. CASE CallbackReturns \/ TaskRxFinish
  BY <1>7 DEF CallbackReturns, TaskRxFinish, Task
<1>8. CASE TaskNothingSent \/ TaskSent \/ TaskTxFinish
  BY <1>8 DEF TaskNothingSent, TaskSent, TaskTxFinish, Task
<1>9. CASE BytesSent \/ \E n \in 1 .. Burst : BytesArrive(n)
  BY <1>9 DEF BytesSent, BytesArrive
<1>10. CASE UNCHANGED vars
  BY <1>10 DEF vars
<1> QED
  BY <1>1, <1>2, <1>3, <1>4, <1>5, <1>6, <1>7, <1>8, <1>9, <1>10
  DEF Next, EventLoop

(* The counters that set_*_callback and close wait for are one exactly     *)
(* while a callback is in progress: no wait ends early, none starts over.  *)
THEOREM UartCountersMatch == UartSpec => []CountersMatch
<1>1. InitialState => CountersMatch
  BY DEF InitialState, CountersMatch
<1> QED BY <1>1, CountersNext, PTL DEF UartSpec
-----------------------------------------------------------------------------
(* A callback change in progress has unregistered the callback, only the   *)
(* setter makes one, and close says that it closes before it unregisters.  *)
ReplaceInv ==
  /\ \A t \in Tasks :
       pc[t] \in {"tx_wait", "tx_recheck", "tx_store",
                 "rx_wait", "rx_recheck", "rx_store"} => t = Setter
  /\ pc[Setter] \in {"tx_wait", "tx_recheck", "tx_store"}
       => txCallback = NoCallback
  /\ pc[Setter] \in {"rx_wait", "rx_recheck", "rx_store"}
       => rxCallback = NoCallback
  /\ \A t \in Tasks : pc[t] = "close_rx" => closing
  /\ running # NoCallback
       => loop \in {"tx_user", "tx_leave", "rx_read", "rx_user", "rx_leave"}
  /\ ReplacedCallbackEnds

(* At the start nothing is registered and nothing runs.                    *)
LEMMA ReplaceInvInit == InitialState => ReplaceInv
<1> SUFFICES ASSUME InitialState PROVE ReplaceInv
  OBVIOUS
<1> QED
  BY UartAssumption DEF InitialState, ReplaceInv, ReplacedCallbackEnds, Tasks

(* The wait for the counter is what separates the old callback's end from  *)
(* the new one's registration.                                             *)
LEMMA ReplaceInvNext ==
  UartInv /\ CountersMatch /\ ReplaceInv /\ [Next]_vars => ReplaceInv'
<1> SUFFICES ASSUME UartInv, CountersMatch, ReplaceInv, [Next]_vars
             PROVE  ReplaceInv'
  OBVIOUS
<1>0. /\ pc \in [Tasks -> Places] /\ Setter \in Tasks /\ Setter # EventTask
      /\ freed => loop = "exited" /\ \A t \in Tasks : pc[t] = "idle"
  BY UartAssumption DEF UartInv, LocksInv, CloseInv, Tasks
<1> USE <1>0
    DEF ReplaceInv, ReplacedCallbackEnds, Places, txVars, rxVars, lifeVars,
        driverVars, taskVars, callVars
<1>1. ASSUME NEW t \in Tasks, Call(t) PROVE ReplaceInv'
  <2>1. CASE WriteBegin(t) \/ WriteAsync(t)
    BY <2>1 DEF WriteBegin, WriteAsync, MayCall, Go
  <2>2. CASE ReadBegin(t) \/ FlushRx(t)
    BY <2>2 DEF ReadBegin, FlushRx, MayCall, Go
  <2>3. CASE CloseTx(t)
    BY <2>3 DEF CloseTx, MayCall, Go
  <2> QED BY <1>1, <2>1, <2>2, <2>3 DEF Call
<1>2. ASSUME NEW t \in Tasks, WriteEnd(t) \/ ReadEnd(t) PROVE ReplaceInv'
  BY <1>2 DEF WriteEnd, ReadEnd, Go
<1>3. ASSUME NEW t \in Tasks, SetTxIdle(t) PROVE ReplaceInv'
  BY <1>3 DEF SetTxIdle, Go, CountersMatch
<1>4. ASSUME NEW t \in Tasks, SetTxRecheck(t) \/ SetTxStore(t) PROVE ReplaceInv'
  BY <1>4 DEF SetTxRecheck, SetTxStore, Go
<1>5. ASSUME NEW t \in Tasks, SetRxIdle(t) PROVE ReplaceInv'
  BY <1>5 DEF SetRxIdle, Go, CountersMatch
<1>6. ASSUME NEW t \in Tasks, SetRxStore(t) \/ SetRxRefused(t) PROVE ReplaceInv'
  BY <1>6 DEF SetRxStore, SetRxEnd, SetRxRefused, Go
<1>7. ASSUME NEW t \in Tasks, CloseRx(t) \/ CloseExit(t) \/ CloseDelete(t)
      PROVE  ReplaceInv'
  BY <1>7 DEF CloseRx, CloseExit, CloseDelete, Go
<1>8. ASSUME NEW c, SetTxReplace(Setter, c) \/ SetTxFirst(Setter, c)
      PROVE  ReplaceInv'
  BY <1>8 DEF SetTxReplace, SetTxFirst, MayCall, Begin
<1>9. ASSUME NEW c, SetRxReplace(Setter, c) \/ SetRxFirst(Setter, c)
      PROVE  ReplaceInv'
  BY <1>9 DEF SetRxReplace, SetRxFirst, MayCall, Begin
<1>10. CASE SetRxSame(Setter)
  BY <1>10 DEF SetRxSame
<1>11. CASE Open
  BY <1>11 DEF Open
<1>12. CASE TaskCheck \/ TaskReceive \/ TaskSkipsData \/ TaskDispatch
  BY <1>12 DEF TaskCheck, TaskReceive, TaskSkipsData, TaskDispatch, Task
<1>13. CASE TaskReadBytes \/ CallbackReturns \/ TaskRxFinish
  BY <1>13 DEF TaskReadBytes, CallbackReturns, TaskRxFinish, Task
<1>14. CASE TaskNothingSent \/ TaskSent \/ TaskTxFinish
  BY <1>14 DEF TaskNothingSent, TaskSent, TaskTxFinish, Task
<1>15. CASE BytesSent \/ \E n \in 1 .. Burst : BytesArrive(n)
  BY <1>15 DEF BytesSent, BytesArrive
<1>16. CASE UNCHANGED vars
  BY <1>16 DEF vars
<1> QED
  BY <1>1, <1>2, <1>3, <1>4, <1>5, <1>6, <1>7, <1>8, <1>9, <1>10, <1>11, <1>12,
     <1>13, <1>14, <1>15, <1>16
  DEF Next, InCall, Register, EventLoop

(* When set_tx_callback or set_rx_callback has returned, the callback it   *)
(* replaced, and with it the use of its user_ctx, has ended.               *)
THEOREM UartReplacedCallbackEnds == UartSpec => []ReplacedCallbackEnds
<1>1. InitialState => CountersMatch
  BY DEF InitialState, CountersMatch
<1>2. ReplaceInv => ReplacedCallbackEnds
  BY DEF ReplaceInv
<1> QED
  BY UartInvInit, UartInvNext, CountersNext, ReplaceInvInit, ReplaceInvNext,
     <1>1, <1>2, PTL DEF UartSpec
-----------------------------------------------------------------------------
(* Min of the chunk, the rest of the event and the buffer is one of them,  *)
(* and none of them is smaller.                                            *)
LEMMA MinOfThree ==
  ASSUME NEW a \in Nat, NEW b \in Nat, NEW c \in Nat
  PROVE  LET m == Min({a, b, c})
         IN  m \in {a, b, c} /\ m <= a /\ m <= b /\ m <= c
<1>1. \E m \in {a, b, c} : \A y \in {a, b, c} : m <= y
  <2>1. CASE a <= b /\ a <= c
    BY <2>1
  <2>2. CASE b <= a /\ b <= c
    BY <2>2
  <2>3. CASE c <= a /\ c <= b
    BY <2>3
  <2> QED BY <2>1, <2>2, <2>3
<1> QED BY <1>1 DEF Min

(* A task that goes on stays in the places of the model.                   *)
LEMMA GoTypes ==
  ASSUME UartTypeOK
  PROVE  \A t \in Tasks : \A from, to \in Places :
           Go(t, from, to) => /\ pc' \in [Tasks -> Places]
                              /\ arg' \in Callbacks \cup {NoCallback}
  BY DEF UartTypeOK, Go

(* Every variable keeps its type: the counters because they match their    *)
(* callbacks, the buffer and the queue because the driver looks first.     *)
LEMMA UartTypeNext ==
  UartTypeOK /\ CountersMatch /\ [Next]_vars => UartTypeOK'
<1> SUFFICES ASSUME UartTypeOK, CountersMatch, [Next]_vars PROVE UartTypeOK'
  OBVIOUS
<1> USE UartAssumption
    DEF UartTypeOK, Tasks, Places, txVars, rxVars, lifeVars, driverVars,
        taskVars, callVars
<1>1. ASSUME NEW t \in Tasks, Call(t) PROVE UartTypeOK'
  <2>1. CASE WriteBegin(t)
    BY <2>1, GoTypes DEF WriteBegin
  <2>2. CASE WriteAsync(t)
    BY <2>2, GoTypes DEF WriteAsync
  <2>3. CASE ReadBegin(t)
    BY <2>3, GoTypes DEF ReadBegin
  <2>4. CASE FlushRx(t)
    BY <2>4, GoTypes DEF FlushRx, Flush
  <2>5. CASE CloseTx(t)
    BY <2>5, GoTypes DEF CloseTx
  <2> QED BY <1>1, <2>1, <2>2, <2>3, <2>4, <2>5 DEF Call
<1>2. ASSUME NEW t \in Tasks, WriteEnd(t) \/ ReadEnd(t) PROVE UartTypeOK'
  <2>1. CASE WriteEnd(t)
    BY <2>1, GoTypes DEF WriteEnd
  <2>2. CASE ReadEnd(t)
    <3>1. rxBytes' \in 0 .. RxCap
      BY <2>2 DEF ReadEnd
    <3> QED BY <2>2, <3>1, GoTypes DEF ReadEnd
  <2> QED BY <1>2, <2>1, <2>2
<1>3. ASSUME NEW t \in Tasks, SetTxIdle(t) \/ SetTxRecheck(t) \/ SetTxStore(t)
      PROVE  UartTypeOK'
  <2>1. CASE SetTxIdle(t)
    BY <2>1, GoTypes DEF SetTxIdle
  <2>2. CASE SetTxRecheck(t)
    BY <2>2, GoTypes DEF SetTxRecheck
  <2>3. CASE SetTxStore(t)
    BY <2>3, GoTypes DEF SetTxStore
  <2> QED BY <1>3, <2>1, <2>2, <2>3
<1>4. ASSUME NEW t \in Tasks, SetRxIdle(t) \/ SetRxStore(t) \/ SetRxRefused(t)
      PROVE  UartTypeOK'
  <2>1. CASE SetRxIdle(t)
    BY <2>1, GoTypes DEF SetRxIdle
  <2>2. CASE SetRxStore(t)
    BY <2>2, GoTypes DEF SetRxStore, SetRxEnd, Flush
  <2>3. CASE SetRxRefused(t)
    BY <2>3, GoTypes DEF SetRxRefused
  <2> QED BY <1>4, <2>1, <2>2, <2>3
<1>5. ASSUME NEW t \in Tasks, CloseRx(t) \/ CloseExit(t) \/ CloseDelete(t)
      PROVE  UartTypeOK'
  <2>1. CASE CloseRx(t)
    BY <2>1, GoTypes DEF CloseRx
  <2>2. CASE CloseExit(t)
    BY <2>2, GoTypes DEF CloseExit
  <2>3. CASE CloseDelete(t)
    BY <2>3, GoTypes DEF CloseDelete
  <2> QED BY <1>5, <2>1, <2>2, <2>3
<1>6. ASSUME NEW c \in Callbacks \cup {NoCallback},
             \/ SetTxReplace(Setter, c) \/ SetTxFirst(Setter, c)
             \/ SetRxReplace(Setter, c) \/ SetRxFirst(Setter, c)
      PROVE  UartTypeOK'
  BY <1>6 DEF SetTxReplace, SetTxFirst, SetRxReplace, SetRxFirst, Begin
<1>7. CASE SetRxSame(Setter)
  BY <1>7 DEF SetRxSame, Flush
<1>8. CASE Open
  BY <1>8 DEF Open
<1>9. CASE TaskCheck \/ TaskSkipsData
  BY <1>9 DEF TaskCheck, TaskSkipsData, Task
<1>10. CASE TaskReceive
  <2>1. queue # << >> => /\ Head(queue) \in 0 .. RxCap
                         /\ Tail(queue) \in Seq(0 .. RxCap)
                         /\ Len(Tail(queue)) <= QueueCap
    BY DEF UartTypeOK
  <2>2. rxBytes' \in 0 .. RxCap /\ remaining' \in Nat
    BY <1>10, <2>1 DEF TaskReceive, Flush
  <2>3. queue' \in Seq(0 .. RxCap) /\ Len(queue') <= QueueCap
    <3>1. queue' = queue \/ (queue # << >> /\ queue' = Tail(queue))
      BY <1>10 DEF TaskReceive
    <3> QED BY <2>1, <3>1
  <2> QED BY <1>10, <2>2, <2>3 DEF TaskReceive
<1>11. CASE TaskDispatch
  BY <1>11 DEF TaskDispatch, Task, NoReader, CountersMatch
<1>12. CASE TaskReadBytes
  <2> DEFINE size == Min({Chunk, remaining, rxBytes})
  <2>1. size \in Nat /\ size <= remaining /\ size <= rxBytes
    <3>1. Chunk \in Nat /\ remaining \in Nat /\ rxBytes \in Nat
      OBVIOUS
    <3>2. /\ size \in {Chunk, remaining, rxBytes}
          /\ size <= remaining /\ size <= rxBytes
      BY <3>1, MinOfThree, Zenon
    <3> HIDE DEF size
    <3> QED BY <3>1, <3>2
  <2> HIDE DEF size
  <2>2. /\ rxBytes' = rxBytes - size
        /\ remaining' = IF size = 0 THEN 0 ELSE remaining - size
    BY <1>12 DEF TaskReadBytes, size
  <2>3. rxBytes' \in 0 .. RxCap /\ remaining' \in Nat
    BY <2>1, <2>2
  <2> QED BY <1>12, <2>3 DEF TaskReadBytes
<1>13. CASE CallbackReturns \/ TaskRxFinish
  BY <1>13 DEF CallbackReturns, TaskRxFinish, Task, CountersMatch
<1>14. CASE TaskNothingSent \/ TaskSent \/ TaskTxFinish
  BY <1>14 DEF TaskNothingSent, TaskSent, TaskTxFinish, Task, CountersMatch
<1>15. CASE BytesSent
  BY <1>15 DEF BytesSent
<1>16. ASSUME NEW n \in 1 .. Burst, BytesArrive(n) PROVE UartTypeOK'
  <2> DEFINE fits == rxBytes + n <= RxCap
             size == IF fits THEN n ELSE 0
  <2>1. size \in 0 .. RxCap /\ rxBytes' \in 0 .. RxCap
    BY <1>16 DEF BytesArrive
  <2>2. queue' = IF Len(queue) < QueueCap THEN Append(queue, size) ELSE queue
    BY <1>16 DEF BytesArrive
  <2> HIDE DEF size
  <2>3. /\ Append(queue, size) \in Seq(0 .. RxCap)
        /\ Len(Append(queue, size)) = Len(queue) + 1
    BY <2>1
  <2>4. queue \in Seq(0 .. RxCap) /\ Len(queue) \in Nat /\ Len(queue) <= QueueCap
    OBVIOUS
  <2>5. CASE Len(queue) < QueueCap
    <3>1. queue' = Append(queue, size)
      BY <2>2, <2>5
    <3>2. Len(queue') <= QueueCap
      BY <2>3, <2>4, <2>5, <3>1
    <3> QED BY <1>16, <2>1, <2>3, <3>1, <3>2 DEF BytesArrive
  <2>6. CASE ~(Len(queue) < QueueCap)
    <3>1. queue' = queue
      BY <2>2, <2>6
    <3> QED BY <1>16, <2>1, <3>1 DEF BytesArrive
  <2> QED BY <2>5, <2>6
<1>17. CASE UNCHANGED vars
  BY <1>17 DEF vars
<1> QED
  BY <1>1, <1>2, <1>3, <1>4, <1>5, <1>6, <1>7, <1>8, <1>9, <1>10, <1>11, <1>12,
     <1>13, <1>14, <1>15, <1>16, <1>17
  DEF Next, InCall, Register, EventLoop

(* Type correctness together with the counters: what the waits of the      *)
(* callers rely on.                                                        *)
THEOREM UartTypesAndCounters == UartSpec => []UartConsistent
<1>1. InitialState => UartTypeOK /\ CountersMatch
  BY UartAssumption DEF InitialState, UartTypeOK, CountersMatch, Tasks, Places
<1>2. UartTypeOK /\ CountersMatch => UartConsistent
  BY DEF UartConsistent
<1> QED BY <1>1, <1>2, UartTypeNext, CountersNext, PTL DEF UartSpec
-----------------------------------------------------------------------------
(* p[k] is r and the first k sizes of q together.                          *)
Totals(p, r, q) ==
  p = [k \in 0 .. Len(q) |-> IF k = 0 THEN r ELSE p[k - 1] + q[k]]

(* What induction over q would show of its totals. It is instead an        *)
(* invariant of the queue, which is only appended to, taken from and       *)
(* emptied: they exist, they are numbers and grow, and starting elsewhere  *)
(* shifts the last one by as much.                                         *)
Summable(q) ==
  /\ \A r \in Int : \E p : Totals(p, r, q)
  /\ \A r \in Int : \A p : Totals(p, r, q) =>
       \A k \in 0 .. Len(q) : p[k] \in Int /\ \A j \in 0 .. k : p[j] <= p[k]
  /\ \A r1, r2 \in Int : \A p1, p2 : Totals(p1, r1, q) /\ Totals(p2, r2, q) =>
       p1[Len(q)] - r1 = p2[Len(q)] - r2

(* The last of Summable's parts, for one pair of totals.                   *)
LEMMA SummableShift ==
  ASSUME NEW q, Summable(q), NEW r1 \in Int, NEW r2 \in Int, NEW p1, NEW p2,
         Totals(p1, r1, q), Totals(p2, r2, q)
  PROVE  p1[Len(q)] - r1 = p2[Len(q)] - r2
BY DEF Summable

(* The totals of a longer queue begin with those of the shorter.           *)
LEMMA TotalsOfAppend ==
  ASSUME NEW q \in Seq(Nat), NEW n \in Nat, NEW r, NEW p,
         Totals(p, r, Append(q, n))
  PROVE  /\ Totals([k \in 0 .. Len(q) |-> p[k]], r, q)
         /\ p[Len(q) + 1] = p[Len(q)] + n
<1> DEFINE p0 == [k \in 0 .. Len(q) |-> p[k]]
           e == Append(q, n)
<1>1. /\ Len(q) \in Nat /\ Len(e) = Len(q) + 1 /\ e[Len(q) + 1] = n
      /\ \A k \in 1 .. Len(q) : e[k] = q[k]
  OBVIOUS
<1> HIDE DEF e
<1>2. \A k \in 0 .. Len(q) + 1 : p[k] = IF k = 0 THEN r ELSE p[k - 1] + e[k]
  <2>1. p = [k \in 0 .. Len(e) |-> IF k = 0 THEN r ELSE p[k - 1] + e[k]]
    BY DEF Totals, e
  <2> QED BY <1>1, <2>1
<1>3. \A k \in 0 .. Len(q) : p0[k] = IF k = 0 THEN r ELSE p0[k - 1] + q[k]
  <2> TAKE k \in 0 .. Len(q)
  <2>1. CASE k = 0
    BY <1>1, <1>2, <2>1
  <2>2. CASE k # 0
    <3>1. k - 1 \in 0 .. Len(q) /\ k \in 1 .. Len(q) /\ k \in 0 .. Len(q) + 1
      BY <1>1, <2>2
    <3> QED BY <1>1, <1>2, <2>2, <3>1
  <2> QED BY <2>1, <2>2
<1>4. Totals(p0, r, q)
  BY <1>3, Zenon DEF Totals
<1> QED BY <1>1, <1>2, <1>4

(* The totals of a queue without its head are those of the queue, from a   *)
(* start that is lower by the head.                                        *)
LEMMA TotalsOfTail ==
  ASSUME NEW q \in Seq(Nat), q # << >>, NEW r \in Int, NEW p,
         Totals(p, r, Tail(q))
  PROVE  Totals([k \in 0 .. Len(q) |-> IF k = 0 THEN r - Head(q) ELSE p[k - 1]],
                r - Head(q), q)
<1> DEFINE p0 == [k \in 0 .. Len(q) |-> IF k = 0 THEN r - Head(q) ELSE p[k - 1]]
           e == Tail(q)
<1>1. /\ Len(q) \in Nat \ {0} /\ Len(e) = Len(q) - 1 /\ Head(q) \in Nat
      /\ Head(q) = q[1] /\ \A k \in 1 .. Len(q) - 1 : e[k] = q[k + 1]
  OBVIOUS
<1> HIDE DEF e
<1>2. \A k \in 0 .. Len(q) - 1 : p[k] = IF k = 0 THEN r ELSE p[k - 1] + e[k]
  <2>1. p = [k \in 0 .. Len(e) |-> IF k = 0 THEN r ELSE p[k - 1] + e[k]]
    BY DEF Totals, e
  <2> QED BY <1>1, <2>1
<1>3. \A k \in 0 .. Len(q) :
        p0[k] = IF k = 0 THEN r - Head(q) ELSE p0[k - 1] + q[k]
  <2> TAKE k \in 0 .. Len(q)
  <2>1. CASE k = 0
    BY <1>1, <2>1
  <2>2. CASE k = 1
    <3>1. p0[1] = p[0] /\ p[0] = r /\ p0[0] = r - Head(q)
      BY <1>1, <1>2
    <3> QED BY <1>1, <2>2, <3>1
  <2>3. CASE k > 1
    <3>1. /\ k - 1 \in 1 .. Len(q) - 1 /\ k - 1 \in 0 .. Len(q)
          /\ k - 1 # 0 /\ (k - 1) + 1 = k
      BY <1>1, <2>3
    <3>2. p[k - 1] = p[(k - 1) - 1] + e[k - 1]
      BY <1>2, <3>1
    <3>3. p0[k] = p[k - 1] /\ p0[k - 1] = p[(k - 1) - 1] /\ e[k - 1] = q[k]
      BY <1>1, <2>3, <3>1
    <3> QED BY <2>3, <3>2, <3>3
  <2> QED BY <1>1, <2>1, <2>2, <2>3
<1> QED BY <1>3, Zenon DEF Totals

(* The three ways the driver's queue changes keep it summable.             *)
LEMMA SummableEmpty == Summable(<< >>)
<1>1. \A r, p : Totals(p, r, << >>) <=> p = [k \in 0 .. 0 |-> r]
  <2> TAKE r, p
  <2>1. Len(<< >>) = 0
    OBVIOUS
  <2>2. [k \in 0 .. 0 |-> IF k = 0 THEN r ELSE p[k - 1] + << >>[k]]
          = [k \in 0 .. 0 |-> r]
    OBVIOUS
  <2> QED BY <2>1, <2>2 DEF Totals
<1>2. Len(<< >>) = 0
  OBVIOUS
<1>3. ASSUME NEW r \in Int PROVE \E p : Totals(p, r, << >>)
  <2>1. Totals([k \in 0 .. 0 |-> r], r, << >>)
    BY <1>1, Zenon
  <2> QED BY <2>1, Zenon
<1>4. \A r \in Int : \A p : Totals(p, r, << >>) =>
        \A k \in 0 .. 0 : p[k] = r
  BY <1>1
<1>5. \A k \in 0 .. 0 : k = 0 /\ \A j \in 0 .. k : j = 0
  OBVIOUS
<1>6. \A r \in Int : \A p : Totals(p, r, << >>) =>
        \A k \in 0 .. 0 : p[k] \in Int /\ \A j \in 0 .. k : p[j] <= p[k]
  BY <1>4, <1>5
<1>7. \A r1, r2 \in Int : \A p1, p2 :
        Totals(p1, r1, << >>) /\ Totals(p2, r2, << >>) =>
          p1[0] - r1 = p2[0] - r2
  BY <1>4
<1> QED BY <1>2, <1>3, <1>6, <1>7 DEF Summable

LEMMA SummableAppend ==
  ASSUME NEW q \in Seq(Nat), NEW n \in Nat, Summable(q)
  PROVE  Summable(Append(q, n))
<1> DEFINE e == Append(q, n)
           l == Len(q)
           Front0(p) == [k \in 0 .. l |-> p[k]]
<1>1. /\ l \in Nat /\ Len(e) = l + 1 /\ e[l + 1] = n
      /\ \A k \in 1 .. l : e[k] = q[k]
  OBVIOUS
<1>2. \A r, p : Totals(p, r, e) =>
        Totals(Front0(p), r, q) /\ p[l + 1] = p[l] + n
  BY TotalsOfAppend
<1>3. ASSUME NEW r \in Int PROVE \E p : Totals(p, r, e)
  <2>1. PICK p0 : Totals(p0, r, q)
    BY DEF Summable
  <2> DEFINE p == [k \in 0 .. l + 1 |-> IF k = l + 1 THEN p0[l] + n ELSE p0[k]]
  <2>2. \A k \in 0 .. l : p0[k] = IF k = 0 THEN r ELSE p0[k - 1] + q[k]
    BY <1>1, <2>1 DEF Totals
  <2> HIDE DEF e
  <2>3. \A k \in 0 .. l + 1 : p[k] = IF k = 0 THEN r ELSE p[k - 1] + e[k]
    <3> TAKE k \in 0 .. l + 1
    <3>1. CASE k = l + 1
      <4>1. p[k] = p0[l] + n /\ p[k - 1] = p0[l] /\ e[k] = n /\ k # 0
        BY <1>1, <3>1
      <4> QED BY <4>1
    <3>2. CASE k # l + 1 /\ k # 0
      <4>1. k \in 0 .. l /\ k \in 1 .. l /\ k - 1 \in 0 .. l
        BY <1>1, <3>2
      <4>2. p[k] = p0[k] /\ p[k - 1] = p0[k - 1] /\ e[k] = q[k]
        BY <1>1, <3>2, <4>1
      <4> QED BY <2>2, <3>2, <4>1, <4>2
    <3>3. CASE k = 0
      BY <1>1, <2>2, <3>3
    <3> QED BY <3>1, <3>2, <3>3
  <2>4. p = [k \in 0 .. l + 1 |-> IF k = 0 THEN r ELSE p[k - 1] + e[k]]
    BY <2>3, Zenon
  <2>5. Totals(p, r, e)
    BY <1>1, <2>4 DEF Totals
  <2> QED BY <2>5
<1>4. ASSUME NEW r \in Int, NEW p, Totals(p, r, e), NEW k \in 0 .. l + 1
      PROVE  p[k] \in Int /\ \A j \in 0 .. k : p[j] <= p[k]
  <2>1. \A i \in 0 .. l : /\ Front0(p)[i] \in Int
                          /\ \A j \in 0 .. i : Front0(p)[j] <= Front0(p)[i]
    BY <1>2, <1>4 DEF Summable
  <2>2. \A i \in 0 .. l : p[i] \in Int /\ \A j \in 0 .. i : p[j] <= p[i]
    <3> TAKE i \in 0 .. l
    <3>1. \A j \in 0 .. i : j \in 0 .. l
      BY <1>1
    <3> QED BY <2>1, <3>1
  <2>3. p[l + 1] = p[l] + n
    BY <1>2, <1>4
  <2>4. CASE k = l + 1
    <3>1. p[l] \in Int /\ \A j \in 0 .. l : p[j] \in Int /\ p[j] <= p[l]
      BY <1>1, <2>2
    <3>2. \A j \in 0 .. k : j = k \/ j \in 0 .. l
      BY <1>1, <2>4
    <3> HIDE DEF e, l, Front0
    <3>3. p[k] = p[l] + n
      BY <2>3, <2>4, Zenon
    <3>4. p[k] \in Int /\ p[l] <= p[k] /\ p[k] <= p[k]
      BY <3>1, <3>3
    <3>5. ASSUME NEW j \in 0 .. k PROVE p[j] <= p[k]
      <4>1. CASE j = k
        BY <3>4, <4>1, Zenon
      <4>2. CASE j \in 0 .. l
        <5>1. p[j] \in Int /\ p[j] <= p[l]
          BY <3>1, <4>2, Zenon
        <5> QED BY <3>1, <3>4, <5>1
      <4> QED BY <3>2, <4>1, <4>2, Zenon
    <3> QED BY <3>4, <3>5, Zenon
  <2>5. CASE k # l + 1
    BY <1>1, <2>2, <2>5
  <2> QED BY <2>4, <2>5
<1>5. ASSUME NEW r1 \in Int, NEW r2 \in Int, NEW p1, NEW p2,
             Totals(p1, r1, e), Totals(p2, r2, e)
      PROVE  p1[l + 1] - r1 = p2[l + 1] - r2
  <2>1. /\ Totals(Front0(p1), r1, q) /\ p1[l + 1] = p1[l] + n
        /\ Totals(Front0(p2), r2, q) /\ p2[l + 1] = p2[l] + n
    BY <1>2, <1>5
  <2>2. Front0(p1)[l] - r1 = Front0(p2)[l] - r2
    BY <2>1 DEF Summable
  <2>3. Front0(p1)[l] = p1[l] /\ Front0(p2)[l] = p2[l]
    BY <1>1
  <2>4. l \in 0 .. l + 1
    BY <1>1
  <2>5. p1[l] \in Int /\ p2[l] \in Int
    BY <1>4, <1>5, <2>4
  <2>6. p1[l] - r1 = p2[l] - r2
    BY <2>2, <2>3
  <2> HIDE DEF e, l, Front0
  <2>7. /\ p1[l + 1] = p1[l] + n /\ p2[l + 1] = p2[l] + n
        /\ \A x, y \in Int : x - r1 = y - r2 => (x + n) - r1 = (y + n) - r2
    BY <2>1
  <2>8. (p1[l] + n) - r1 = (p2[l] + n) - r2
    BY <2>5, <2>6, <2>7, Zenon
  <2> QED BY <2>7, <2>8, Zenon
<1> HIDE DEF e
<1> QED BY <1>1, <1>3, <1>4, <1>5 DEF Summable, e

LEMMA SummableTail ==
  ASSUME NEW q \in Seq(Nat), q # << >>, Summable(q)
  PROVE  Summable(Tail(q))
<1> DEFINE e == Tail(q)
           l == Len(q)
           h == Head(q)
           Back(p, r) == [k \in 0 .. l |-> IF k = 0 THEN r - h ELSE p[k - 1]]
<1>1. /\ l \in Nat \ {0} /\ Len(e) = l - 1 /\ h \in Nat
      /\ h = q[1] /\ \A k \in 1 .. l - 1 : e[k] = q[k + 1]
  OBVIOUS
<1>2. \A r \in Int : \A p : Totals(p, r, e) => Totals(Back(p, r), r - h, q)
  BY TotalsOfTail
<1>3. ASSUME NEW r \in Int PROVE \E p : Totals(p, r, e)
  <2>1. PICK p0 : Totals(p0, r - h, q)
    BY <1>1 DEF Summable
  <2> DEFINE p == [k \in 0 .. l - 1 |-> p0[k + 1]]
  <2>2. \A k \in 0 .. l : p0[k] = IF k = 0 THEN r - h ELSE p0[k - 1] + q[k]
    BY <1>1, <2>1 DEF Totals
  <2> HIDE DEF e, h
  <2>3. \A k \in 0 .. l - 1 : p[k] = IF k = 0 THEN r ELSE p[k - 1] + e[k]
    <3> TAKE k \in 0 .. l - 1
    <3>1. CASE k = 0
      <4>1. p0[0] = r - h /\ p0[1] = p0[0] + h
        BY <1>1, <2>2
      <4>2. (r - h) + h = r
        BY <1>1
      <4>3. 0 \in 0 .. l - 1 /\ 0 + 1 = 1
        BY <1>1
      <4>4. p[0] = p0[1]
        BY <4>3
      <4> HIDE DEF p
      <4> QED BY <3>1, <4>1, <4>2, <4>4
    <3>2. CASE k # 0
      <4>1. k + 1 \in 0 .. l /\ k + 1 # 0 /\ k - 1 \in 0 .. l - 1 /\ (k + 1) - 1 = k
            /\ (k - 1) + 1 = k /\ k \in 1 .. l - 1
        BY <1>1, <3>2
      <4>2. p0[k + 1] = p0[k] + q[k + 1]
        BY <2>2, <4>1
      <4>3. p[k] = p0[k + 1] /\ p[k - 1] = p0[k] /\ e[k] = q[k + 1]
        BY <1>1, <4>1
      <4> QED BY <3>2, <4>2, <4>3
    <3> QED BY <3>1, <3>2
  <2>4. p = [k \in 0 .. l - 1 |-> IF k = 0 THEN r ELSE p[k - 1] + e[k]]
    BY <2>3, Zenon
  <2>5. Totals(p, r, e)
    BY <1>1, <2>4 DEF Totals
  <2> QED BY <2>5
<1>4. ASSUME NEW r \in Int, NEW p, Totals(p, r, e), NEW k \in 0 .. l - 1
      PROVE  p[k] \in Int /\ \A j \in 0 .. k : p[j] <= p[k]
  <2>1. r - h \in Int /\ k + 1 \in 0 .. l
    BY <1>1
  <2>2. /\ Back(p, r)[k + 1] \in Int
        /\ \A j \in 0 .. k + 1 : Back(p, r)[j] <= Back(p, r)[k + 1]
    BY <1>2, <1>4, <2>1 DEF Summable
  <2>3. \A j \in 0 .. k : /\ j + 1 \in 0 .. l /\ j + 1 \in 0 .. k + 1
                          /\ j + 1 # 0 /\ (j + 1) - 1 = j
    BY <1>1
  <2>4. \A j \in 0 .. k : Back(p, r)[j + 1] = p[j]
    BY <2>3
  <2>5. k \in 0 .. k
    BY <1>1
  <2> HIDE DEF Back, e, h
  <2> QED BY <2>2, <2>3, <2>4, <2>5
<1>5. ASSUME NEW r1 \in Int, NEW r2 \in Int, NEW p1, NEW p2,
             Totals(p1, r1, e), Totals(p2, r2, e)
      PROVE  p1[l - 1] - r1 = p2[l - 1] - r2
  <2>1. r1 - h \in Int /\ r2 - h \in Int /\ l - 1 \in 0 .. l - 1
    BY <1>1
  <2>2. Totals(Back(p1, r1), r1 - h, q) /\ Totals(Back(p2, r2), r2 - h, q)
    BY <1>2, <1>5
  <2>3. Back(p1, r1)[l] = p1[l - 1] /\ Back(p2, r2)[l] = p2[l - 1]
    BY <1>1
  <2>4. p1[l - 1] \in Int /\ p2[l - 1] \in Int
    BY <1>4, <1>5, <2>1
  <2> HIDE DEF Back, e, h
  <2>5. Back(p1, r1)[l] - (r1 - h) = Back(p2, r2)[l] - (r2 - h)
    BY <2>1, <2>2, SummableShift
  <2>6. p1[l - 1] - (r1 - h) = p2[l - 1] - (r2 - h)
    BY <2>3, <2>5
  <2>7. h \in Int
    BY <1>1
  <2>8. \A x, y \in Int : x - (r1 - h) = y - (r2 - h) => x - r1 = y - r2
    BY <2>7
  <2> HIDE DEF l
  <2> QED BY <2>4, <2>6, <2>8, Zenon
<1> HIDE DEF e
<1> QED BY <1>1, <1>3, <1>4, <1>5 DEF Summable, e
-----------------------------------------------------------------------------
(* Every byte in the buffer is in the rest of the event being dispatched   *)
(* or in a queued event.                                                   *)
Deliverable ==
  \A p : Totals(p, remaining, queue) => rxBytes <= p[Len(queue)]

(* Only between an event's data and the end of its dispatch is there a     *)
(* rest of it.                                                             *)
RestInv ==
  loop \notin {"data", "dispatch", "rx_read", "rx_user", "rx_leave"}
    => remaining = 0

StrandInv ==
  /\ Summable(queue)
  /\ RestInv
  /\ rxCallback # NoCallback /\ ~missed /\ ~closing => Deliverable

(* The totals are numbers that begin with what they start from.            *)
LEMMA LastTotal ==
  ASSUME NEW q \in Seq(Nat), Summable(q), NEW r \in Int, NEW p, Totals(p, r, q)
  PROVE  p[Len(q)] \in Int /\ r <= p[Len(q)]
<1>1. Len(q) \in 0 .. Len(q) /\ 0 \in 0 .. Len(q)
  OBVIOUS
<1>2. p[0] = r
  <2>1. p = [k \in 0 .. Len(q) |-> IF k = 0 THEN r ELSE p[k - 1] + q[k]]
    BY DEF Totals
  <2> QED BY <1>1, <2>1
<1>3. p[Len(q)] \in Int /\ \A j \in 0 .. Len(q) : p[j] <= p[Len(q)]
  BY <1>1 DEF Summable
<1> QED BY <1>1, <1>2, <1>3

(* The rest of an event is taken up and used up by the dispatch alone.     *)
LEMMA RestNext == UartInv /\ UartTypeOK /\ RestInv /\ [Next]_vars => RestInv'
<1> SUFFICES ASSUME UartInv, UartTypeOK, RestInv, [Next]_vars PROVE RestInv'
  OBVIOUS
<1> USE DEF RestInv, txVars, rxVars, lifeVars, driverVars, taskVars, callVars
<1>1. ASSUME NEW t \in Tasks, Call(t) PROVE RestInv'
  BY <1>1 DEF Call, WriteBegin, WriteAsync, ReadBegin, FlushRx, CloseTx
<1>2. ASSUME NEW t \in Tasks, InCall(t) PROVE RestInv'
  BY <1>2 DEF InCall, WriteEnd, ReadEnd, SetTxIdle, SetTxRecheck, SetTxStore,
     SetRxIdle, SetRxStore, SetRxRefused, CloseRx, CloseExit, CloseDelete
<1>3. CASE Register
  BY <1>3 DEF Register, SetRxSame, SetTxReplace, SetTxFirst, SetRxReplace,
     SetRxFirst
<1>4. CASE Open
  BY <1>4 DEF Open, UartInv, CloseInv
<1>5. CASE TaskCheck \/ TaskReceive \/ TaskSkipsData \/ TaskDispatch
  BY <1>5 DEF TaskCheck, TaskReceive, TaskSkipsData, TaskDispatch, Task
<1>6. CASE TaskReadBytes
  BY <1>6 DEF TaskReadBytes, Task
<1>7. CASE CallbackReturns
  BY <1>7 DEF CallbackReturns, Task
<1>8. CASE TaskRxFinish
  BY <1>8 DEF TaskRxFinish, Task, UartTypeOK
<1>9. CASE TaskNothingSent \/ TaskSent \/ TaskTxFinish
  BY <1>9 DEF TaskNothingSent, TaskSent, TaskTxFinish, Task
<1>10. CASE BytesSent \/ \E n \in 1 .. Burst : BytesArrive(n)
  BY <1>10 DEF BytesSent, BytesArrive
<1>11. CASE UNCHANGED vars
  BY <1>11 DEF vars
<1> QED
  BY <1>1, <1>2, <1>3, <1>4, <1>5, <1>6, <1>7, <1>8, <1>9, <1>10, <1>11
  DEF Next, EventLoop

(* A byte arrives with its event, an event leaves the queue for the        *)
(* dispatch, and the dispatch takes as much from the buffer as from the    *)
(* rest of its event.                                                      *)
LEMMA StrandNext ==
  UartInv /\ UartTypeOK /\ StrandInv /\ [Next]_vars => StrandInv'
<1> SUFFICES ASSUME UartInv, UartTypeOK, StrandInv, [Next]_vars
             PROVE  StrandInv'
  OBVIOUS
<1>1. RestInv'
  BY RestNext DEF StrandInv
<1>2. /\ queue \in Seq(Nat) /\ rxBytes \in Nat /\ remaining \in Nat
      /\ Summable(queue) /\ RestInv
      /\ rxCallback # NoCallback /\ ~missed /\ ~closing => Deliverable
  <2>1. 0 .. RxCap \subseteq Nat
    OBVIOUS
  <2>2. queue \in Seq(Nat)
    BY <2>1, SeqMonotonic DEF UartTypeOK
  <2> QED BY <2>1, <2>2 DEF UartTypeOK, StrandInv
<1>3. \A p : Totals(p, remaining, queue) =>
        p[Len(queue)] \in Int /\ remaining <= p[Len(queue)]
  BY <1>2, LastTotal
<1> USE DEF txVars, rxVars, lifeVars, driverVars, taskVars, callVars
\* Nothing but the callback changes, or bytes leave the buffer.
<1>4. ASSUME UNCHANGED <<queue, remaining, missed>>,
             \/ UNCHANGED rxBytes \/ rxBytes' \in 0 .. rxBytes,
             rxCallback' \in {rxCallback, NoCallback},
             closing' = closing \/ closing' = TRUE
      PROVE  StrandInv'
  <2>1. rxBytes' \in Nat /\ rxBytes' <= rxBytes
    BY <1>2, <1>4
  <2>2. Deliverable => Deliverable'
    BY <1>2, <1>3, <1>4, <2>1 DEF Deliverable
  <2> QED BY <1>1, <1>2, <1>4, <2>2 DEF StrandInv
\* The buffer is emptied.
<1>5. ASSUME UNCHANGED <<queue, remaining>>, rxBytes' = 0
      PROVE  StrandInv'
  <2>1. Deliverable'
    BY <1>2, <1>3, <1>5 DEF Deliverable
  <2> QED BY <1>1, <1>2, <1>5, <2>1 DEF StrandInv
<1>6. ASSUME NEW t \in Tasks, Call(t) PROVE StrandInv'
  <2>1. CASE FlushRx(t)
    BY <1>5, <2>1 DEF FlushRx, Flush
  <2>2. CASE CloseTx(t)
    BY <1>4, <2>2 DEF CloseTx
  <2>3. CASE WriteBegin(t) \/ WriteAsync(t) \/ ReadBegin(t)
    BY <1>4, <2>3 DEF WriteBegin, WriteAsync, ReadBegin
  <2> QED BY <1>6, <2>1, <2>2, <2>3 DEF Call
<1>7. ASSUME NEW t \in Tasks, InCall(t) PROVE StrandInv'
  <2>1. CASE SetRxStore(t)
    <3>1. CASE arg = NoCallback
      BY <1>4, <2>1, <3>1 DEF SetRxStore
    <3>2. CASE arg # NoCallback
      BY <1>5, <2>1, <3>2 DEF SetRxStore, Flush
    <3> QED BY <3>1, <3>2
  <2>2. CASE ReadEnd(t) \/ CloseRx(t)
    BY <1>4, <2>2 DEF ReadEnd, CloseRx
  <2>3. CASE \/ WriteEnd(t) \/ SetTxIdle(t) \/ SetTxRecheck(t) \/ SetTxStore(t)
             \/ SetRxIdle(t) \/ SetRxRefused(t) \/ CloseExit(t) \/ CloseDelete(t)
    BY <1>4, <2>3 DEF WriteEnd, SetTxIdle, SetTxRecheck, SetTxStore, SetRxIdle,
       SetRxRefused, CloseExit, CloseDelete
  <2> QED BY <1>7, <2>1, <2>2, <2>3 DEF InCall
<1>8. CASE Register
  <2>1. CASE SetRxSame(Setter)
    BY <1>5, <2>1 DEF SetRxSame, Flush
  <2>2. ASSUME NEW c, \/ SetTxReplace(Setter, c) \/ SetTxFirst(Setter, c)
                      \/ SetRxReplace(Setter, c) \/ SetRxFirst(Setter, c)
        PROVE  StrandInv'
    BY <1>4, <2>2 DEF SetTxReplace, SetTxFirst, SetRxReplace, SetRxFirst
  <2> QED BY <1>8, <2>1, <2>2 DEF Register
<1>9. CASE Open
  <2>1. queue' = << >> /\ rxCallback' = NoCallback
    BY <1>9 DEF Open
  <2> QED BY <1>1, <2>1, SummableEmpty DEF StrandInv
<1>10. CASE TaskReceive
  <2>1. CASE queue = << >>
    BY <1>4, <1>10, <2>1 DEF TaskReceive
  <2>2. CASE queue # << >>
    <3>1. /\ queue' = Tail(queue) /\ Head(queue) \in Nat
          /\ Len(Tail(queue)) = Len(queue) - 1 /\ Len(queue) \in Nat \ {0}
          /\ Tail(queue) \in Seq(Nat) /\ remaining = 0
          /\ rxCallback' = rxCallback /\ closing' = closing
      BY <1>2, <1>10, <2>2 DEF TaskReceive, Task, RestInv
    <3>2. Summable(queue')
      BY <1>2, <2>2, <3>1, SummableTail
    <3>3. CASE Head(queue) = 0
      <4>1. Flush /\ remaining' = remaining
        BY <1>10, <2>2, <3>3 DEF TaskReceive
      <4>2. rxBytes' = 0 /\ remaining' = 0
        BY <3>1, <4>1 DEF Flush
      <4>3. \A p : Totals(p, 0, Tail(queue)) => 0 <= p[Len(Tail(queue))]
        <5>1. Summable(Tail(queue)) /\ 0 \in Int
          BY <3>1, <3>2
        <5> QED BY <3>1, <5>1, LastTotal
      <4>4. Deliverable'
        BY <3>1, <4>2, <4>3, Zenon DEF Deliverable
      <4> QED BY <1>1, <3>2, <4>4 DEF StrandInv
    <3>4. CASE Head(queue) > 0
      <4>1. /\ remaining' = Head(queue)
            /\ UNCHANGED <<rxBytes, missed>>
        BY <1>10, <2>2, <3>4 DEF TaskReceive
      <4>2. ASSUME Deliverable PROVE Deliverable'
        <5> SUFFICES ASSUME NEW p, Totals(p, Head(queue), Tail(queue))
                     PROVE  rxBytes <= p[Len(queue) - 1]
          BY <3>1, <4>1 DEF Deliverable
        <5> DEFINE b == [k \in 0 .. Len(queue) |->
                           IF k = 0 THEN Head(queue) - Head(queue) ELSE p[k - 1]]
        <5>1. Totals(b, Head(queue) - Head(queue), queue)
          BY <1>2, <2>2, <3>1, TotalsOfTail
        <5>2. b[Len(queue)] = p[Len(queue) - 1] /\ Head(queue) - Head(queue) = 0
          BY <3>1
        <5> HIDE DEF b
        <5>3. Totals(b, remaining, queue)
          BY <3>1, <5>1, <5>2
        <5>4. rxBytes <= b[Len(queue)]
          BY <4>2, <5>3 DEF Deliverable
        <5> QED BY <5>2, <5>4
      <4> QED BY <1>1, <1>2, <3>1, <3>2, <4>1, <4>2 DEF StrandInv
    <3> QED BY <3>1, <3>3, <3>4
  <2> QED BY <2>1, <2>2
<1>11. CASE TaskSkipsData
  <2>1. UNCHANGED <<queue, rxCallback, closing>> /\ (rxCallback = NoCallback \/ closing)
    BY <1>11 DEF TaskSkipsData, NoReader
  <2> QED BY <1>1, <1>2, <2>1 DEF StrandInv
<1>12. CASE TaskReadBytes
  <2> DEFINE size == Min({Chunk, remaining, rxBytes})
  <2>1. /\ size \in {Chunk, remaining, rxBytes} /\ size \in Nat
        /\ size <= remaining /\ size <= rxBytes
    <3>1. Chunk \in Nat /\ remaining \in Nat /\ rxBytes \in Nat
      BY <1>2, UartAssumption
    <3>2. /\ size \in {Chunk, remaining, rxBytes}
          /\ size <= remaining /\ size <= rxBytes
      BY <3>1, MinOfThree, Zenon
    <3> HIDE DEF size
    <3> QED BY <3>1, <3>2
  <2>2. Chunk # 0
    BY UartAssumption
  <2>3. /\ rxBytes' = rxBytes - size
        /\ remaining' = IF size = 0 THEN 0 ELSE remaining - size
        /\ UNCHANGED <<queue, missed, rxCallback, closing>>
    BY <1>12 DEF TaskReadBytes
  <2> HIDE DEF size
  <2>4. CASE size = 0 /\ remaining = 0
    BY <1>2, <1>4, <2>3, <2>4
  <2>5. CASE size = 0 /\ rxBytes = 0
    <3>1. Deliverable'
      BY <1>2, <2>3, <2>5, LastTotal DEF Deliverable
    <3> QED BY <1>1, <1>2, <2>3, <3>1 DEF StrandInv
  <2>6. CASE size # 0
    <3>1. PICK a : Totals(a, remaining, queue)
      <4>1. remaining \in Int
        BY <1>2
      <4> QED BY <1>2, <4>1, Zenon DEF Summable
    <3>2. remaining - size \in Nat /\ rxBytes' = rxBytes - size
      BY <1>2, <2>1, <2>3
    <3>3. \A p : Totals(p, remaining - size, queue) =>
            /\ p[Len(queue)] \in Int
            /\ a[Len(queue)] - remaining = p[Len(queue)] - (remaining - size)
      BY <1>2, <3>1, <3>2, LastTotal, SummableShift
    <3>4. a[Len(queue)] \in Int
      BY <1>3, <3>1
    <3>5. ASSUME Deliverable PROVE Deliverable'
      <4>1. rxBytes <= a[Len(queue)]
        BY <3>1, <3>5 DEF Deliverable
      <4>2. \A x, y \in Int : /\ rxBytes <= x
                              /\ x - remaining = y - (remaining - size)
                              => rxBytes - size <= y
        BY <1>2, <2>1
      <4>3. \A p : Totals(p, remaining - size, queue) =>
              rxBytes - size <= p[Len(queue)]
        BY <3>3, <3>4, <4>1, <4>2
      <4> QED BY <2>3, <2>6, <4>3 DEF Deliverable
    <3> QED BY <1>1, <1>2, <2>3, <3>5 DEF StrandInv
  <2> QED BY <2>1, <2>2, <2>4, <2>5, <2>6
<1>13. CASE BytesSent
  BY <1>4, <1>13 DEF BytesSent
<1>14. ASSUME NEW n \in 1 .. Burst, BytesArrive(n) PROVE StrandInv'
  <2> DEFINE size == IF rxBytes + n <= RxCap THEN n ELSE 0
  <2>1. size \in Nat /\ rxBytes' = rxBytes + size
    BY <1>2, <1>14 DEF BytesArrive
  <2>2. /\ queue' = IF Len(queue) < QueueCap THEN Append(queue, size) ELSE queue
        /\ UNCHANGED <<remaining, rxCallback, closing>>
        /\ missed' = (missed \/ ~(Len(queue) < QueueCap))
    BY <1>14 DEF BytesArrive
  <2> HIDE DEF size
  <2>3. CASE ~(Len(queue) < QueueCap)
    BY <1>1, <1>2, <2>2, <2>3 DEF StrandInv
  <2>4. CASE Len(queue) < QueueCap
    <3>1. /\ queue' = Append(queue, size)
          /\ Len(Append(queue, size)) = Len(queue) + 1
          /\ ~missed' => ~missed
      <4>1. queue' = Append(queue, size) /\ (~missed' => ~missed)
        BY <2>2, <2>4, Zenon
      <4> QED BY <1>2, <2>1, <4>1
    <3>2. Summable(queue')
      BY <1>2, <2>1, <3>1, SummableAppend
    <3>3. ASSUME Deliverable PROVE Deliverable'
      <4> SUFFICES ASSUME NEW p, Totals(p, remaining, Append(queue, size))
                   PROVE  rxBytes + size <= p[Len(queue) + 1]
        BY <2>1, <2>2, <3>1 DEF Deliverable
      <4> DEFINE f == [k \in 0 .. Len(queue) |-> p[k]]
      <4>1. Totals(f, remaining, queue) /\ p[Len(queue) + 1] = p[Len(queue)] + size
        BY <1>2, <2>1, TotalsOfAppend
      <4>2. f[Len(queue)] = p[Len(queue)]
        BY <1>2
      <4> HIDE DEF f
      <4>3. rxBytes <= p[Len(queue)] /\ p[Len(queue)] \in Int
        BY <1>3, <3>3, <4>1, <4>2 DEF Deliverable
      <4> QED BY <1>2, <2>1, <4>1, <4>3
    <3> QED BY <1>1, <1>2, <2>2, <3>1, <3>2, <3>3 DEF StrandInv
  <2> QED BY <2>3, <2>4
<1>15. CASE TaskCheck \/ TaskDispatch \/ CallbackReturns \/ TaskRxFinish
  BY <1>4, <1>15 DEF TaskCheck, TaskDispatch, CallbackReturns, TaskRxFinish
<1>16. CASE TaskNothingSent \/ TaskSent \/ TaskTxFinish
  BY <1>4, <1>16 DEF TaskNothingSent, TaskSent, TaskTxFinish
<1>17. CASE UNCHANGED vars
  BY <1>4, <1>17 DEF vars
<1> QED
  BY <1>6, <1>7, <1>8, <1>9, <1>10, <1>11, <1>12, <1>13, <1>14, <1>15, <1>16,
     <1>17
  DEF Next, EventLoop

(* With an RX callback registered and no event lost, every received byte   *)
(* is announced by an event the task has not finished: none waits for      *)
(* bytes that may never come to be delivered.                              *)
THEOREM UartNoStrandedBytes == UartSpec => []NoStrandedBytes
<1>1. InitialState => UartTypeOK /\ CountersMatch
  BY UartAssumption DEF InitialState, UartTypeOK, CountersMatch, Tasks, Places
<1>2. InitialState => StrandInv
  BY SummableEmpty DEF InitialState, StrandInv, RestInv
<1>3. StrandInv /\ UartTypeOK => NoStrandedBytes
  <2> SUFFICES ASSUME StrandInv, UartTypeOK,
                      rxCallback # NoCallback /\ ~missed /\ ~closing
               PROVE  rxBytes <= Announced[Len(queue)]
    BY DEF NoStrandedBytes
  <2>1. \E p : Totals(p, remaining, queue)
    <3>1. remaining \in Int
      BY DEF UartTypeOK
    <3> QED BY <3>1, Zenon DEF StrandInv, Summable
  <2>2. Totals(Announced, remaining, queue)
    <3>1. \E p : p = [k \in 0 .. Len(queue) |->
                        IF k = 0 THEN remaining ELSE p[k - 1] + queue[k]]
      BY <2>1 DEF Totals
    <3>2. Announced = CHOOSE p : p = [k \in 0 .. Len(queue) |->
                        IF k = 0 THEN remaining ELSE p[k - 1] + queue[k]]
      BY Zenon DEF Announced
    <3> QED BY <3>1, <3>2, Zenon DEF Totals
  <2> QED BY <2>2 DEF StrandInv, Deliverable
<1> QED
  BY <1>1, <1>2, <1>3, UartInvInit, UartInvNext, UartTypeNext, CountersNext,
     StrandNext, PTL DEF UartSpec
-----------------------------------------------------------------------------
(* Between the wait of a set_callback and its end no callback of that      *)
(* direction runs, and a handle that is being closed sends nothing.        *)
ChangeInv ==
  /\ closing => ~txPending
  /\ \A t \in Tasks :
       pc[t] \in {"close_rx", "close_exit", "close_delete"} => closing
  /\ loop \in {"tx_user", "tx_leave"} /\ pc[Setter] \in {"tx_recheck", "tx_store"}
       => running = NoCallback
  /\ loop \in {"rx_read", "rx_user", "rx_leave"}
       => running # NoCallback /\ pc[Setter] \notin {"rx_recheck", "rx_store"}

(* What a change relies on to end without looking again.                   *)
LEMMA ChangeInvNext ==
  UartInv /\ CountersMatch /\ ReplaceInv /\ ChangeInv /\ [Next]_vars
    => ChangeInv'
<1> SUFFICES ASSUME UartInv, CountersMatch, ReplaceInv, ChangeInv, [Next]_vars
             PROVE  ChangeInv'
  OBVIOUS
<1>0. /\ pc \in [Tasks -> Places] /\ Setter \in Tasks /\ Setter # EventTask
      /\ freed => loop = "exited" /\ \A t \in Tasks : pc[t] = "idle"
  BY UartAssumption DEF UartInv, LocksInv, CloseInv, Tasks
<1> USE <1>0
    DEF ReplaceInv, ReplacedCallbackEnds, ChangeInv, CountersMatch, Places,
        txVars, rxVars, lifeVars, driverVars, taskVars, callVars
<1>1. ASSUME NEW t \in Tasks, Call(t) PROVE ChangeInv'
  <2>1. CASE WriteBegin(t) \/ WriteAsync(t)
    BY <2>1 DEF WriteBegin, WriteAsync, MayCall, Go
  <2>2. CASE ReadBegin(t) \/ FlushRx(t)
    BY <2>2 DEF ReadBegin, FlushRx, MayCall, Go
  <2>3. CASE CloseTx(t)
    BY <2>3 DEF CloseTx, MayCall, Go
  <2> QED BY <1>1, <2>1, <2>2, <2>3 DEF Call
<1>2. ASSUME NEW t \in Tasks, WriteEnd(t) \/ ReadEnd(t) PROVE ChangeInv'
  BY <1>2 DEF WriteEnd, ReadEnd, Go
<1>3. ASSUME NEW t \in Tasks, SetTxIdle(t) PROVE ChangeInv'
  BY <1>3 DEF SetTxIdle, Go
<1>4. ASSUME NEW t \in Tasks, SetTxRecheck(t) \/ SetTxStore(t) PROVE ChangeInv'
  BY <1>4 DEF SetTxRecheck, SetTxStore, Go
<1>5. ASSUME NEW t \in Tasks, SetRxIdle(t) PROVE ChangeInv'
  BY <1>5 DEF SetRxIdle, Go
<1>6. ASSUME NEW t \in Tasks, SetRxStore(t) \/ SetRxRefused(t) PROVE ChangeInv'
  BY <1>6 DEF SetRxStore, SetRxEnd, SetRxRefused, Go
<1>7. ASSUME NEW t \in Tasks, CloseRx(t) \/ CloseExit(t) \/ CloseDelete(t)
      PROVE  ChangeInv'
  BY <1>7 DEF CloseRx, CloseExit, CloseDelete, Go
<1>8. ASSUME NEW c, SetTxReplace(Setter, c) \/ SetTxFirst(Setter, c)
      PROVE  ChangeInv'
  BY <1>8 DEF SetTxReplace, SetTxFirst, MayCall, Begin
<1>9. ASSUME NEW c, SetRxReplace(Setter, c) \/ SetRxFirst(Setter, c)
      PROVE  ChangeInv'
  BY <1>9 DEF SetRxReplace, SetRxFirst, MayCall, Begin
<1>10. CASE SetRxSame(Setter)
  BY <1>10 DEF SetRxSame
<1>11. CASE Open
  BY <1>11 DEF Open
<1>12. CASE TaskCheck \/ TaskReceive \/ TaskSkipsData
  BY <1>12 DEF TaskCheck, TaskReceive, TaskSkipsData, Task
<1>13. CASE TaskDispatch
  BY <1>13 DEF TaskDispatch, Task, NoReader
<1>14. CASE TaskReadBytes \/ CallbackReturns \/ TaskRxFinish
  BY <1>14 DEF TaskReadBytes, CallbackReturns, TaskRxFinish, Task
<1>15. CASE TaskNothingSent \/ TaskSent \/ TaskTxFinish
  BY <1>15 DEF TaskNothingSent, TaskSent, TaskTxFinish, Task
<1>16. CASE BytesSent \/ \E n \in 1 .. Burst : BytesArrive(n)
  BY <1>16 DEF BytesSent, BytesArrive
<1>17. CASE UNCHANGED vars
  BY <1>17 DEF vars
<1> QED
  BY <1>1, <1>2, <1>3, <1>4, <1>5, <1>6, <1>7, <1>8, <1>9, <1>10, <1>11, <1>12,
     <1>13, <1>14, <1>15, <1>16, <1>17
  DEF Next, InCall, Register, EventLoop

(* What holds in every state of what both refinements speak of.            *)
SlotInv == UartInv /\ UartTypeOK /\ CountersMatch /\ ReplaceInv /\ ChangeInv

LEMMA SlotFacts ==
  ASSUME SlotInv
  PROVE  /\ pc \in [Tasks -> Places] /\ Setter \in Tasks /\ Setter # EventTask
         /\ freed => /\ exited /\ loop = "exited"
                     /\ \A t \in Tasks : pc[t] = "idle"
         /\ txCallback \in Callbacks \cup {NoCallback}
         /\ rxCallback \in Callbacks \cup {NoCallback}
         /\ arg \in Callbacks \cup {NoCallback}
         /\ \A t \in Tasks : t # EventTask => t \in Users
         /\ \A t \in Tasks : pc[t] = "close_delete" => exited /\ loop = "exited"
BY UartAssumption
DEF SlotInv, UartInv, UartTypeOK, LocksInv, CloseInv, Tasks

(* The sending side: every step is one of CallbackLifecycle or changes nothing *)
(* that it speaks of.                                                      *)
LEMMA TxLifecycleStep ==
  SlotInv /\ [Next]_vars => [Tx!LifecycleNext]_(Tx!lifecycleVars)
<1> SUFFICES ASSUME SlotInv, [Next]_vars
             PROVE  [Tx!LifecycleNext]_(Tx!lifecycleVars)
  OBVIOUS
<1>0. ReplaceInv /\ ChangeInv
  BY DEF SlotInv
<1> USE SlotFacts, <1>0
    DEF Phase, txVars, rxVars, lifeVars, driverVars, taskVars, callVars
<1> DEFINE Changing == {"tx_wait", "tx_recheck", "tx_store"}
           Running == IF loop \in {"tx_user", "tx_leave"}
                      THEN running ELSE NoCallback
           Same == /\ UNCHANGED <<txCallback, closing, freed>>
                   /\ Running' = Running
                   /\ (pc'[Setter] \in Changing) = (pc[Setter] \in Changing)
<1>1. ASSUME Same PROVE UNCHANGED Tx!lifecycleVars
  BY <1>1 DEF Tx!lifecycleVars
<1>2. ASSUME NEW t \in Tasks, WriteBegin(t) \/ WriteAsync(t)
      PROVE  [Tx!LifecycleNext]_(Tx!lifecycleVars)
  <2>1. Same
    BY <1>2 DEF WriteBegin, WriteAsync, MayCall, Go, Same
  <2> QED BY <2>1, <1>1
<1>3. ASSUME NEW t \in Tasks, ReadBegin(t) \/ FlushRx(t)
      PROVE  [Tx!LifecycleNext]_(Tx!lifecycleVars)
  <2>1. Same
    BY <1>3 DEF ReadBegin, FlushRx, MayCall, Go, Same
  <2> QED BY <2>1, <1>1
<1>4. ASSUME NEW t \in Tasks, WriteEnd(t) \/ ReadEnd(t)
      PROVE  [Tx!LifecycleNext]_(Tx!lifecycleVars)
  <2>1. Same
    BY <1>4 DEF WriteEnd, ReadEnd, Go, Same
  <2> QED BY <2>1, <1>1
<1>5. ASSUME NEW t \in Tasks, SetTxIdle(t) \/ SetRxIdle(t)
      PROVE  [Tx!LifecycleNext]_(Tx!lifecycleVars)
  <2>1. Same
    BY <1>5 DEF SetTxIdle, SetRxIdle, Go, ReplaceInv, Same
  <2> QED BY <2>1, <1>1
<1>6. ASSUME NEW t \in Tasks, SetTxRecheck(t) \/ SetTxStore(t)
      PROVE  [Tx!LifecycleNext]_(Tx!lifecycleVars)
  <2>1. Tx!EndChange
    BY <1>6 DEF SetTxRecheck, SetTxStore, Go, ReplaceInv, ChangeInv, Tx!EndChange
  <2> QED BY <2>1 DEF Tx!LifecycleNext
<1>7. ASSUME NEW t \in Tasks, SetRxStore(t) \/ SetRxRefused(t)
      PROVE  [Tx!LifecycleNext]_(Tx!lifecycleVars)
  <2>1. Same
    BY <1>7 DEF SetRxStore, SetRxRefused, SetRxEnd, Go, ReplaceInv, Same
  <2> QED BY <2>1, <1>1
<1>8. ASSUME NEW t \in Tasks, CloseRx(t) \/ CloseExit(t)
      PROVE  [Tx!LifecycleNext]_(Tx!lifecycleVars)
  <2>1. Same
    BY <1>8 DEF CloseRx, CloseExit, Go, Same
  <2> QED BY <2>1, <1>1
<1>9. ASSUME NEW t \in Tasks, CloseTx(t)
      PROVE  [Tx!LifecycleNext]_(Tx!lifecycleVars)
  <2>1. Tx!BeginClose
    BY <1>9 DEF CloseTx, MayCall, Go, Tx!BeginClose
  <2> QED BY <2>1 DEF Tx!LifecycleNext
<1>10. ASSUME NEW t \in Tasks, CloseDelete(t)
      PROVE  [Tx!LifecycleNext]_(Tx!lifecycleVars)
  <2>1. closing /\ ~freed /\ loop = "exited" /\ pc[Setter] \notin Changing
    BY <1>10 DEF CloseDelete, Go, ChangeInv, Tasks
  <2>2. Tx!Free
    BY <1>10, <2>1 DEF CloseDelete, Go, Tx!Free
  <2> QED BY <2>2 DEF Tx!LifecycleNext
<1>11. ASSUME NEW c, SetTxReplace(Setter, c) \/ SetTxFirst(Setter, c)
      PROVE  [Tx!LifecycleNext]_(Tx!lifecycleVars)
  <2>1. pc[Setter] = "idle" /\ ~closing /\ ~freed
    BY <1>11 DEF SetTxReplace, SetTxFirst, MayCall
  <2>2. Tx!BeginChange
    BY <1>11, <2>1 DEF SetTxReplace, SetTxFirst, Begin, Tx!BeginChange
  <2> QED BY <2>2 DEF Tx!LifecycleNext
<1>12. ASSUME NEW c, SetRxReplace(Setter, c) \/ SetRxFirst(Setter, c)
      PROVE  [Tx!LifecycleNext]_(Tx!lifecycleVars)
  <2>1. Same
    BY <1>12 DEF SetRxReplace, SetRxFirst, MayCall, Begin, Same
  <2> QED BY <2>1, <1>1
<1>13. CASE SetRxSame(Setter)
  <2>1. Same
    BY <1>13 DEF SetRxSame, Same
  <2> QED BY <2>1, <1>1
<1>14. CASE Open
  <2>1. Tx!Reopen
    BY <1>14 DEF Open, Tx!Reopen
  <2> QED BY <2>1 DEF Tx!LifecycleNext
<1>15. CASE TaskCheck \/ TaskReceive \/ TaskSkipsData
  <2>1. Same
    BY <1>15 DEF TaskCheck, TaskReceive, TaskSkipsData, Task, Same
  <2> QED BY <2>1, <1>1
<1>16. CASE TaskDispatch \/ TaskReadBytes \/ TaskRxFinish
  <2>1. Same
    BY <1>16 DEF TaskDispatch, TaskReadBytes, TaskRxFinish, Task, Same
  <2> QED BY <2>1, <1>1
<1>17. CASE CallbackReturns \/ TaskNothingSent
  <2>1. Same
    BY <1>17 DEF CallbackReturns, TaskNothingSent, Task, Same
  <2> QED BY <2>1, <1>1
<1>18. CASE TaskSent
  <2>1. CASE txCallback = NoCallback
    <3>1. Same
      BY <1>18, <2>1 DEF TaskSent, Task, Same
    <3> QED BY <3>1, <1>1
  <2>2. CASE txCallback # NoCallback
    <3>1. ~closing /\ ~freed
      BY <1>18 DEF TaskSent, Task, ChangeInv
    <3>2. Tx!Enter
      BY <1>18, <2>2, <3>1 DEF TaskSent, Task, Tx!Enter
    <3> QED BY <3>2 DEF Tx!LifecycleNext
  <2> QED BY <2>1, <2>2
<1>19. CASE TaskTxFinish
  <2>1. CASE running = NoCallback
    <3>1. Same
      BY <1>19, <2>1 DEF TaskTxFinish, Task, Same
    <3> QED BY <3>1, <1>1
  <2>2. CASE running # NoCallback
    <3>1. Tx!Leave
      BY <1>19, <2>2 DEF TaskTxFinish, Task, Tx!Leave
    <3> QED BY <3>1 DEF Tx!LifecycleNext
  <2> QED BY <2>1, <2>2
<1>20. CASE BytesSent \/ \E n \in 1 .. Burst : BytesArrive(n)
  <2>1. Same
    BY <1>20 DEF BytesSent, BytesArrive, Same
  <2> QED BY <2>1, <1>1
<1>21. CASE UNCHANGED vars
  <2>1. Same
    BY <1>21 DEF vars, Same
  <2> QED BY <2>1, <1>1
<1> QED
  BY <1>2, <1>3, <1>4, <1>5, <1>6, <1>7, <1>8, <1>9, <1>10, <1>11, <1>12,
     <1>13, <1>14, <1>15, <1>16, <1>17, <1>18, <1>19, <1>20, <1>21
  DEF Next, Call, InCall, Register, EventLoop

(* The receiving side: every step is one of CallbackLifecycle or changes nothing *)
(* that it speaks of.                                                      *)
LEMMA RxLifecycleStep ==
  SlotInv /\ [Next]_vars => [Rx!LifecycleNext]_(Rx!lifecycleVars)
<1> SUFFICES ASSUME SlotInv, [Next]_vars
             PROVE  [Rx!LifecycleNext]_(Rx!lifecycleVars)
  OBVIOUS
<1>0. ReplaceInv /\ ChangeInv
  BY DEF SlotInv
<1> USE SlotFacts, <1>0
    DEF Phase, txVars, rxVars, lifeVars, driverVars, taskVars, callVars
<1> DEFINE Changing == {"rx_wait", "rx_recheck", "rx_store"}
           Running == IF loop \in {"rx_read", "rx_user", "rx_leave"}
                      THEN running ELSE NoCallback
           Same == /\ UNCHANGED <<rxCallback, closing, freed>>
                   /\ Running' = Running
                   /\ (pc'[Setter] \in Changing) = (pc[Setter] \in Changing)
<1>1. ASSUME Same PROVE UNCHANGED Rx!lifecycleVars
  BY <1>1 DEF Rx!lifecycleVars
<1>2. ASSUME NEW t \in Tasks, WriteBegin(t) \/ WriteAsync(t)
      PROVE  [Rx!LifecycleNext]_(Rx!lifecycleVars)
  <2>1. Same
    BY <1>2 DEF WriteBegin, WriteAsync, MayCall, Go, Same
  <2> QED BY <2>1, <1>1
<1>3. ASSUME NEW t \in Tasks, ReadBegin(t) \/ FlushRx(t)
      PROVE  [Rx!LifecycleNext]_(Rx!lifecycleVars)
  <2>1. Same
    BY <1>3 DEF ReadBegin, FlushRx, MayCall, Go, Same
  <2> QED BY <2>1, <1>1
<1>4. ASSUME NEW t \in Tasks, WriteEnd(t) \/ ReadEnd(t)
      PROVE  [Rx!LifecycleNext]_(Rx!lifecycleVars)
  <2>1. Same
    BY <1>4 DEF WriteEnd, ReadEnd, Go, Same
  <2> QED BY <2>1, <1>1
<1>5. ASSUME NEW t \in Tasks, SetTxIdle(t) \/ SetRxIdle(t)
      PROVE  [Rx!LifecycleNext]_(Rx!lifecycleVars)
  <2>1. Same
    BY <1>5 DEF SetTxIdle, SetRxIdle, Go, ReplaceInv, Same
  <2> QED BY <2>1, <1>1
<1>6. ASSUME NEW t \in Tasks, SetTxRecheck(t) \/ SetTxStore(t)
      PROVE  [Rx!LifecycleNext]_(Rx!lifecycleVars)
  <2>1. Same
    BY <1>6 DEF SetTxRecheck, SetTxStore, Go, ReplaceInv, Same
  <2> QED BY <2>1, <1>1
<1>7. ASSUME NEW t \in Tasks, SetRxStore(t) \/ SetRxRefused(t)
      PROVE  [Rx!LifecycleNext]_(Rx!lifecycleVars)
  <2>1. Rx!EndChange
    BY <1>7 DEF SetRxStore, SetRxRefused, SetRxEnd, Go, ReplaceInv, ChangeInv, Rx!EndChange
  <2> QED BY <2>1 DEF Rx!LifecycleNext
<1>8. ASSUME NEW t \in Tasks, CloseRx(t)
      PROVE  [Rx!LifecycleNext]_(Rx!lifecycleVars)
  <2>1. closing /\ ~freed
    BY <1>8 DEF CloseRx, Go, ReplaceInv
  <2>2. Rx!Unregister
    BY <1>8, <2>1 DEF CloseRx, Go, ReplaceInv, Rx!Unregister
  <2> QED BY <2>2 DEF Rx!LifecycleNext
<1>9. ASSUME NEW t \in Tasks, CloseExit(t)
      PROVE  [Rx!LifecycleNext]_(Rx!lifecycleVars)
  <2>1. Same
    BY <1>9 DEF CloseExit, Go, Same
  <2> QED BY <2>1, <1>1
<1>10. ASSUME NEW t \in Tasks, CloseTx(t)
      PROVE  [Rx!LifecycleNext]_(Rx!lifecycleVars)
  <2>1. Rx!BeginClose
    BY <1>10 DEF CloseTx, MayCall, Go, Rx!BeginClose
  <2> QED BY <2>1 DEF Rx!LifecycleNext
<1>11. ASSUME NEW t \in Tasks, CloseDelete(t)
      PROVE  [Rx!LifecycleNext]_(Rx!lifecycleVars)
  <2>1. closing /\ ~freed /\ loop = "exited" /\ pc[Setter] \notin Changing
    BY <1>11 DEF CloseDelete, Go, ChangeInv, Tasks
  <2>2. Rx!Free
    BY <1>11, <2>1 DEF CloseDelete, Go, Rx!Free
  <2> QED BY <2>2 DEF Rx!LifecycleNext
<1>12. ASSUME NEW c, SetTxReplace(Setter, c) \/ SetTxFirst(Setter, c)
      PROVE  [Rx!LifecycleNext]_(Rx!lifecycleVars)
  <2>1. Same
    BY <1>12 DEF SetTxReplace, SetTxFirst, MayCall, Begin, Same
  <2> QED BY <2>1, <1>1
<1>13. ASSUME NEW c, SetRxReplace(Setter, c) \/ SetRxFirst(Setter, c)
      PROVE  [Rx!LifecycleNext]_(Rx!lifecycleVars)
  <2>1. pc[Setter] = "idle" /\ ~closing /\ ~freed
    BY <1>13 DEF SetRxReplace, SetRxFirst, MayCall
  <2>2. Rx!BeginChange
    BY <1>13, <2>1 DEF SetRxReplace, SetRxFirst, Begin, Rx!BeginChange
  <2> QED BY <2>2 DEF Rx!LifecycleNext
<1>14. CASE SetRxSame(Setter)
  <2>1. Same
    BY <1>14 DEF SetRxSame, Same
  <2> QED BY <2>1, <1>1
<1>15. CASE Open
  <2>1. Rx!Reopen
    BY <1>15 DEF Open, Rx!Reopen
  <2> QED BY <2>1 DEF Rx!LifecycleNext
<1>16. CASE TaskCheck \/ TaskReceive \/ TaskSkipsData
  <2>1. Same
    BY <1>16 DEF TaskCheck, TaskReceive, TaskSkipsData, Task, Same
  <2> QED BY <2>1, <1>1
<1>17. CASE TaskDispatch
  <2>1. CASE loop = "data"
    <3>1. Same
      BY <1>17, <2>1 DEF TaskDispatch, Task, Same
    <3> QED BY <3>1, <1>1
  <2>2. CASE loop # "data"
    <3>1. ~closing /\ ~freed /\ rxCallback # NoCallback
      BY <1>17, <2>2 DEF TaskDispatch, Task, NoReader
    <3>2. Rx!Enter
      BY <1>17, <2>2, <3>1 DEF TaskDispatch, Task, Rx!Enter
    <3> QED BY <3>2 DEF Rx!LifecycleNext
  <2> QED BY <2>1, <2>2
<1>18. CASE TaskReadBytes \/ CallbackReturns \/ TaskNothingSent
  <2>1. Same
    BY <1>18 DEF TaskReadBytes, CallbackReturns, TaskNothingSent, Task, Same
  <2> QED BY <2>1, <1>1
<1>19. CASE TaskRxFinish
  <2>1. Rx!Leave
    BY <1>19 DEF TaskRxFinish, Task, ChangeInv, Rx!Leave
  <2> QED BY <2>1 DEF Rx!LifecycleNext
<1>20. CASE TaskSent \/ TaskTxFinish
  <2>1. Same
    BY <1>20 DEF TaskSent, TaskTxFinish, Task, Same
  <2> QED BY <2>1, <1>1
<1>21. CASE BytesSent \/ \E n \in 1 .. Burst : BytesArrive(n)
  <2>1. Same
    BY <1>21 DEF BytesSent, BytesArrive, Same
  <2> QED BY <2>1, <1>1
<1>22. CASE UNCHANGED vars
  <2>1. Same
    BY <1>22 DEF vars, Same
  <2> QED BY <2>1, <1>1
<1> QED
  BY <1>2, <1>3, <1>4, <1>5, <1>6, <1>7, <1>8, <1>9, <1>10, <1>11, <1>12,
     <1>13, <1>14, <1>15, <1>16, <1>17, <1>18, <1>19, <1>20, <1>21, <1>22
  DEF Next, Call, InCall, Register, EventLoop

(* Either direction of the UART implements CallbackLifecycle: the counter, *)
(* the mutex and the event task do what callback_lifecycle.h promises, and *)
(* a set_callback that close overtakes does not break it.                  *)
THEOREM UartImplementsLifecycle == UartSpec => ImplementsLifecycle
<1>1. InitialState => CountersMatch /\ UartTypeOK /\ ChangeInv
  <2> SUFFICES ASSUME InitialState PROVE CountersMatch /\ UartTypeOK /\ ChangeInv
    OBVIOUS
  <2>1. << >> \in Seq(0 .. RxCap) /\ Len(<< >>) = 0
    OBVIOUS
  <2> QED
    BY <2>1, UartAssumption
    DEF InitialState, CountersMatch, UartTypeOK, ChangeInv, Tasks, Places
<1>2. InitialState => Tx!LifecycleInit /\ Rx!LifecycleInit
  BY UartAssumption
  DEF InitialState, Tx!LifecycleInit, Rx!LifecycleInit, Phase, Tasks
<1>3. UartInv /\ UartTypeOK /\ CountersMatch /\ ReplaceInv /\ ChangeInv
        => SlotInv
  BY DEF SlotInv
<1> QED
  BY <1>1, <1>2, <1>3, UartInvInit, UartInvNext, UartTypeNext, CountersNext,
     ReplaceInvInit, ReplaceInvNext, ChangeInvNext, TxLifecycleStep,
     RxLifecycleStep, PTL
  DEF UartSpec, ImplementsLifecycle, Tx!LifecycleSpec, Rx!LifecycleSpec
=============================================================================
