--------------------------------- MODULE Uart ---------------------------------
(***************************************************************************)
(* The UART of the HAL (hal/uart.c): the tasks that share a handle, the    *)
(* event task that runs both user callbacks, its two mutexes, and the      *)
(* ESP-IDF driver (external) with its buffers and its bounded event queue. *)
(*                                                                         *)
(* A critical section of the code is one action that needs the mutex free; *)
(* only the blocking write and the blocking read hold theirs from one      *)
(* action to the next.  A callback and its user_ctx are one value.  Calls  *)
(* that answer INVALID_STATE at once change nothing and are left out.      *)
(***************************************************************************)
EXTENDS Integers, FiniteSetsExt, SequencesExt

CONSTANTS
  Users,       \* tasks that hold the handle
  Setter,      \* the one of them that registers callbacks
  EventTask,   \* the handle's own task, whose callbacks may write as well
  Nobody,
  Callbacks,
  NoCallback,  \* NULL
  RxCap,       \* bytes in the driver's receive buffer, 256
  QueueCap,    \* BLUSYS_UART_EVENT_QUEUE_SIZE, 16
  Chunk,       \* BLUSYS_UART_RX_CHUNK_SIZE, 64
  Burst        \* most bytes that arrive under one event

ASSUME UartAssumption ==
  /\ Setter \in Users /\ EventTask \notin Users
  /\ Nobody \notin Users \cup {EventTask} /\ NoCallback \notin Callbacks
  /\ {RxCap, QueueCap, Chunk, Burst} \subseteq Nat \ {0}

VARIABLES
  txLock, rxLock,                  \* holders of the two mutexes
  txCallback, txActive, txPending, \* fields under tx_lock
  rxCallback, rxActive,            \* fields under rx_lock
  closing, exited, freed,
  txBusy,     \* the driver still has bytes to send
  rxBytes,    \* bytes in the receive buffer
  queue,      \* driver events: the size of a UART_DATA, 0 for a full buffer
  missed,     \* an event found the queue full since the last flush
  loop,       \* where the event task is
  remaining,  \* the local of dispatch_rx_data
  running,    \* the callback the event task is calling
  pc,         \* where each task is in its call
  arg         \* the callback the setter is registering

txVars == <<txCallback, txActive, txPending>>
rxVars == <<rxCallback, rxActive>>
lifeVars == <<closing, exited, freed>>
driverVars == <<txBusy, rxBytes, queue, missed>>
taskVars == <<loop, remaining, running>>
callVars == <<pc, arg>>
vars == <<txLock, rxLock, txVars, rxVars, lifeVars, driverVars, taskVars,
          callVars>>

Tasks == Users \cup {EventTask}

InitialState ==
  /\ txLock = Nobody /\ rxLock = Nobody
  /\ txCallback = NoCallback /\ txActive = 0 /\ txPending = FALSE
  /\ rxCallback = NoCallback /\ rxActive = 0
  /\ closing = FALSE /\ exited = FALSE /\ freed = FALSE
  /\ txBusy = FALSE /\ rxBytes = 0 /\ queue = << >> /\ missed = FALSE
  /\ loop = "check" /\ remaining = 0 /\ running = NoCallback
  /\ pc = [t \in Tasks |-> "idle"] /\ arg = NoCallback

Go(t, from, to) ==
  /\ pc[t] = from /\ pc' = [pc EXCEPT ![t] = to]
  /\ arg' = IF t = Setter /\ to = "idle" THEN NoCallback ELSE arg

(* A task may call the API; nobody does while the handle is being closed,  *)
(* except a callback.                                                      *)
MayCall(t) ==
  /\ ~freed /\ pc[t] = "idle"
  /\ \/ t \in Users /\ ~closing
     \/ t = EventTask /\ loop \in {"rx_user", "tx_user"}

-----------------------------------------------------------------------------
(* blusys_uart_write: the mutex is held until the bytes are out or the     *)
(* timeout is over.                                                        *)
WriteBegin(t) ==
  /\ MayCall(t) /\ txLock = Nobody /\ ~closing /\ ~txPending
  /\ txLock' = t /\ txBusy' = TRUE
  /\ Go(t, "idle", "write")
  /\ UNCHANGED <<rxLock, txVars, rxVars, lifeVars, rxBytes, queue, missed,
                 taskVars>>

WriteEnd(t) ==
  /\ Go(t, "write", "idle")
  /\ txLock' = Nobody
  /\ UNCHANGED <<rxLock, txVars, rxVars, lifeVars, driverVars, taskVars>>

\* Fault: an async write may begin while a blocking one holds the mutex.
WriteAsyncUnlocked(t) ==
  /\ MayCall(t) /\ ~closing /\ ~txPending
  /\ txPending' = TRUE /\ txBusy' = TRUE
  /\ UNCHANGED <<txLock, rxLock, txCallback, txActive, rxVars, lifeVars,
                 rxBytes, queue, missed, taskVars, callVars>>

WriteAsync(t) ==
  /\ MayCall(t) /\ txLock = Nobody /\ ~closing /\ ~txPending
  /\ txPending' = TRUE /\ txBusy' = TRUE
  /\ UNCHANGED <<txLock, rxLock, txCallback, txActive, rxVars, lifeVars,
                 rxBytes, queue, missed, taskVars, callVars>>

(* blusys_uart_read, refused while an RX callback is registered.           *)
ReadBegin(t) ==
  /\ MayCall(t) /\ rxLock = Nobody /\ ~closing /\ rxCallback = NoCallback
  /\ rxLock' = t
  /\ Go(t, "idle", "read")
  /\ UNCHANGED <<txLock, txVars, rxVars, lifeVars, driverVars, taskVars>>

ReadEnd(t) ==
  /\ Go(t, "read", "idle")
  /\ rxLock' = Nobody
  /\ rxBytes' \in 0 .. rxBytes
  /\ UNCHANGED <<txLock, txVars, rxVars, lifeVars, txBusy, queue, missed,
                 taskVars>>

(* uart_flush_input empties the buffer; the events stay queued.            *)
Flush == rxBytes' = 0 /\ missed' = FALSE

FlushRx(t) ==
  /\ MayCall(t) /\ rxLock = Nobody /\ ~closing /\ rxCallback = NoCallback
  /\ Flush
  /\ UNCHANGED <<txLock, rxLock, txVars, rxVars, lifeVars, txBusy, queue,
                 taskVars, callVars>>

-----------------------------------------------------------------------------
Begin(t, c, to) ==
  /\ pc' = [pc EXCEPT ![t] = to]
  /\ arg' = c

\* Fault: the old callback stays registered while it is waited for.
SetTxReplaceKeeps(t, c) ==
  /\ MayCall(t) /\ txLock = Nobody /\ ~closing /\ ~txPending
  /\ txCallback \notin {NoCallback, c}
  /\ Begin(t, c, "tx_wait")
  /\ UNCHANGED <<txLock, rxLock, txVars, rxVars, lifeVars, driverVars, taskVars>>

(* blusys_uart_set_tx_callback over another callback: it is unregistered,  *)
(* then waited for without the mutex, then the state is checked again.     *)
SetTxReplace(t, c) ==
  /\ MayCall(t) /\ txLock = Nobody /\ ~closing /\ ~txPending
  /\ txCallback \notin {NoCallback, c}
  /\ txCallback' = NoCallback
  /\ Begin(t, c, "tx_wait")
  /\ UNCHANGED <<txLock, rxLock, txActive, txPending, rxVars, lifeVars,
                 driverVars, taskVars>>

SetTxIdle(t) ==
  /\ txActive = 0
  /\ Go(t, "tx_wait", "tx_recheck")
  /\ UNCHANGED <<txLock, rxLock, txVars, rxVars, lifeVars, driverVars, taskVars>>

SetTxRecheck(t) ==
  /\ txLock = Nobody
  /\ Go(t, "tx_recheck", "idle")
  /\ txCallback' = IF closing \/ txPending THEN txCallback ELSE arg
  /\ UNCHANGED <<txLock, rxLock, txActive, txPending, rxVars, lifeVars,
                 driverVars, taskVars>>

(* With no callback registered the mutex is given and taken again, and     *)
(* nothing is checked the second time.                                     *)
SetTxFirst(t, c) ==
  /\ MayCall(t) /\ txLock = Nobody /\ ~closing /\ ~txPending
  /\ txCallback = NoCallback /\ c # NoCallback
  /\ Begin(t, c, "tx_store")
  /\ UNCHANGED <<txLock, rxLock, txVars, rxVars, lifeVars, driverVars, taskVars>>

SetTxStore(t) ==
  /\ txLock = Nobody
  /\ Go(t, "tx_store", "idle")
  /\ txCallback' = arg
  /\ UNCHANGED <<txLock, rxLock, txActive, txPending, rxVars, lifeVars,
                 driverVars, taskVars>>

(* blusys_uart_set_rx_callback, which discards what was received before.   *)
SetRxReplace(t, c) ==
  /\ MayCall(t) /\ rxLock = Nobody /\ ~closing
  /\ rxCallback \notin {NoCallback, c}
  /\ rxCallback' = NoCallback
  /\ Begin(t, c, "rx_wait")
  /\ UNCHANGED <<txLock, rxLock, txVars, rxActive, lifeVars, driverVars,
                 taskVars>>

\* Fault: the callback in progress is not waited for.
SetRxIdleNot(t) ==
  /\ Go(t, "rx_wait", "rx_recheck")
  /\ UNCHANGED <<txLock, rxLock, txVars, rxVars, lifeVars, driverVars, taskVars>>

SetRxIdle(t) ==
  /\ rxActive = 0
  /\ Go(t, "rx_wait", "rx_recheck")
  /\ UNCHANGED <<txLock, rxLock, txVars, rxVars, lifeVars, driverVars, taskVars>>

SetRxFirst(t, c) ==
  /\ MayCall(t) /\ rxLock = Nobody /\ ~closing
  /\ rxCallback = NoCallback /\ c # NoCallback
  /\ Begin(t, c, "rx_store")
  /\ UNCHANGED <<txLock, rxLock, txVars, rxVars, lifeVars, driverVars, taskVars>>

(* The end of both paths; only a replacement finds out about a close that  *)
(* began in between.                                                       *)
SetRxEnd(t) ==
  /\ rxLock = Nobody
  /\ Go(t, "rx_store", "idle") \/ (~closing /\ Go(t, "rx_recheck", "idle"))

\* Fault: what was received before the registration stays in the buffer.
SetRxStoreNoFlush(t) ==
  /\ SetRxEnd(t)
  /\ rxCallback' = arg
  /\ UNCHANGED <<txLock, rxLock, txVars, rxActive, lifeVars, driverVars,
                 taskVars>>

SetRxStore(t) ==
  /\ SetRxEnd(t)
  /\ rxCallback' = arg
  /\ IF arg # NoCallback THEN Flush ELSE UNCHANGED <<rxBytes, missed>>
  /\ UNCHANGED <<txLock, rxLock, txVars, rxActive, lifeVars, txBusy, queue,
                 taskVars>>

SetRxRefused(t) ==
  /\ rxLock = Nobody /\ closing
  /\ Go(t, "rx_recheck", "idle")
  /\ UNCHANGED <<txLock, rxLock, txVars, rxVars, lifeVars, driverVars, taskVars>>

(* Registering the registered callback again only discards input.          *)
SetRxSame(t) ==
  /\ MayCall(t) /\ rxLock = Nobody /\ ~closing /\ rxCallback # NoCallback
  /\ Flush
  /\ UNCHANGED <<txLock, rxLock, txVars, rxVars, lifeVars, txBusy, queue,
                 taskVars, callVars>>

-----------------------------------------------------------------------------
(* blusys_uart_close, refused on the event task.                           *)
CloseTx(t) ==
  /\ MayCall(t) /\ t # EventTask /\ txLock = Nobody
  /\ closing' = TRUE /\ txPending' = FALSE /\ txCallback' = NoCallback
  /\ Go(t, "idle", "close_rx")
  /\ UNCHANGED <<txLock, rxLock, txActive, rxVars, exited, freed, driverVars,
                 taskVars>>

CloseRx(t) ==
  /\ rxLock = Nobody
  /\ rxCallback' = NoCallback
  /\ Go(t, "close_rx", "close_exit")
  /\ UNCHANGED <<txLock, rxLock, txVars, rxActive, lifeVars, driverVars,
                 taskVars>>

\* Fault: close waits for the callbacks and not for the event task.
CloseExitNoWait(t) ==
  /\ txLock = Nobody /\ txActive = 0 /\ rxActive = 0
  /\ Go(t, "close_exit", "close_delete")
  /\ UNCHANGED <<txLock, rxLock, txVars, rxVars, lifeVars, driverVars, taskVars>>

CloseExit(t) ==
  /\ txLock = Nobody /\ exited /\ txActive = 0 /\ rxActive = 0
  /\ Go(t, "close_exit", "close_delete")
  /\ UNCHANGED <<txLock, rxLock, txVars, rxVars, lifeVars, driverVars, taskVars>>

(* Assumed of the program: calls begun before close have returned when the *)
(* handle is freed.                                                        *)
CloseDelete(t) ==
  /\ txLock = Nobody /\ rxLock = Nobody
  /\ \A u \in Users \ {t} : pc[u] = "idle"
  /\ freed' = TRUE
  /\ Go(t, "close_delete", "idle")
  /\ UNCHANGED <<txLock, rxLock, txVars, rxVars, closing, exited, driverVars,
                 taskVars>>

(* blusys_uart_open gives a new handle and a new event task.               *)
Open ==
  /\ freed
  /\ txCallback' = NoCallback /\ rxCallback' = NoCallback
  /\ txPending' = FALSE /\ txActive' = 0 /\ rxActive' = 0
  /\ closing' = FALSE /\ exited' = FALSE /\ freed' = FALSE
  /\ txBusy' = FALSE /\ rxBytes' = 0 /\ queue' = << >> /\ missed' = FALSE
  /\ loop' = "check"
  /\ UNCHANGED <<txLock, rxLock, remaining, running, callVars>>

-----------------------------------------------------------------------------
(* The event task: its loop, with the callbacks in the middle.             *)
Task(from, to) == loop = from /\ loop' = to

TaskCheck ==
  /\ txLock = Nobody
  /\ Task("check", IF closing THEN "exited" ELSE "receive")
  /\ exited' = closing
  /\ UNCHANGED <<txLock, rxLock, txVars, rxVars, closing, freed, driverVars,
                 remaining, running, callVars>>

(* xQueueReceive: a timeout, a full buffer to be flushed, or data.         *)
TaskReceive ==
  /\ \/ /\ queue = << >> /\ Task("receive", "snapshot")
        /\ UNCHANGED <<queue, rxBytes, missed, remaining>>
     \/ /\ queue # << >> /\ Head(queue) = 0 /\ Task("receive", "snapshot")
        /\ queue' = Tail(queue) /\ Flush /\ UNCHANGED remaining
     \/ /\ queue # << >> /\ Head(queue) > 0 /\ Task("receive", "data")
        /\ queue' = Tail(queue) /\ remaining' = Head(queue)
        /\ UNCHANGED <<rxBytes, missed>>
  /\ UNCHANGED <<txLock, rxLock, txVars, rxVars, lifeVars, txBusy, running,
                 callVars>>

NoReader == rxCallback = NoCallback \/ (loop = "dispatch" /\ closing)

(* Nobody is registered: the data stays in the buffer for a read.          *)
TaskSkipsData ==
  /\ rxLock = Nobody /\ loop \in {"data", "dispatch"} /\ NoReader
  /\ loop' = "snapshot" /\ remaining' = 0
  /\ UNCHANGED <<txLock, rxLock, txVars, rxVars, lifeVars, driverVars, running,
                 callVars>>

TaskDispatch ==
  /\ rxLock = Nobody /\ ~NoReader
  /\ \/ Task("data", "dispatch") /\ UNCHANGED <<rxActive, running>>
     \/ /\ Task("dispatch", "rx_read")
        /\ rxActive' = rxActive + 1 /\ running' = rxCallback
  /\ UNCHANGED <<txLock, rxLock, txVars, rxCallback, lifeVars, driverVars,
                 remaining, callVars>>

(* uart_read_bytes without waiting; nothing there ends the dispatch.       *)
TaskReadBytes ==
  LET size == Min({Chunk, remaining, rxBytes})
  IN  /\ Task("rx_read", IF size = 0 THEN "rx_leave" ELSE "rx_user")
      /\ rxBytes' = rxBytes - size
      /\ remaining' = IF size = 0 THEN 0 ELSE remaining - size
      /\ UNCHANGED <<txLock, rxLock, txVars, rxVars, lifeVars, txBusy, queue,
                     missed, running, callVars>>

CallbackReturns ==
  /\ pc[EventTask] = "idle"
  /\ Task("rx_user", "rx_leave") \/ Task("tx_user", "tx_leave")
  /\ UNCHANGED <<txLock, rxLock, txVars, rxVars, lifeVars, driverVars,
                 remaining, running, callVars>>

TaskRxFinish ==
  /\ rxLock = Nobody
  /\ Task("rx_leave", IF remaining > 0 THEN "dispatch" ELSE "snapshot")
  /\ rxActive' = rxActive - 1 /\ running' = NoCallback
  /\ UNCHANGED <<txLock, rxLock, txVars, rxCallback, lifeVars, driverVars,
                 remaining, callVars>>

TaskNothingSent ==
  /\ txLock = Nobody /\ (~txPending \/ txBusy)
  /\ Task("snapshot", "check")
  /\ UNCHANGED <<txLock, rxLock, txVars, rxVars, lifeVars, driverVars,
                 remaining, running, callVars>>

(* blusys_uart_snapshot_tx_completion.  A transmission is never pending    *)
(* when the handle is closing, so the code's branch for that is dead.      *)
TaskSent ==
  /\ txLock = Nobody /\ txPending /\ ~txBusy
  /\ Task("snapshot", IF txCallback = NoCallback THEN "tx_leave" ELSE "tx_user")
  /\ txPending' = FALSE
  /\ txActive' = IF txCallback = NoCallback THEN 0 ELSE txActive + 1
  /\ running' = txCallback
  /\ UNCHANGED <<txLock, rxLock, txCallback, rxVars, lifeVars, driverVars,
                 remaining, callVars>>

\* Fault: a callback that ended is not counted out.
TaskTxFinishSkips ==
  /\ txLock = Nobody
  /\ Task("tx_leave", "check")
  /\ running' = NoCallback
  /\ UNCHANGED <<txLock, rxLock, txVars, rxVars, lifeVars, driverVars,
                 remaining, callVars>>

TaskTxFinish ==
  /\ txLock = Nobody
  /\ Task("tx_leave", "check")
  /\ txActive' = IF txActive > 0 THEN txActive - 1 ELSE 0
  /\ running' = NoCallback
  /\ UNCHANGED <<txLock, rxLock, txCallback, txPending, rxVars, lifeVars,
                 driverVars, remaining, callVars>>

-----------------------------------------------------------------------------
(* The driver: bytes leave, bytes arrive with an event behind them, and an *)
(* event that finds the queue full is lost.                                *)
BytesSent ==
  /\ txBusy /\ txBusy' = FALSE
  /\ UNCHANGED <<txLock, rxLock, txVars, rxVars, lifeVars, rxBytes, queue,
                 missed, taskVars, callVars>>

BytesArrive(n) ==
  /\ ~freed
  /\ LET fits == rxBytes + n <= RxCap
         room == Len(queue) < QueueCap
     IN  /\ rxBytes' = IF fits THEN rxBytes + n ELSE rxBytes
         /\ queue' = IF room THEN Append(queue, IF fits THEN n ELSE 0) ELSE queue
         /\ missed' = (missed \/ ~room)
  /\ UNCHANGED <<txLock, rxLock, txVars, rxVars, lifeVars, txBusy, taskVars,
                 callVars>>

EventLoop ==
  \/ TaskCheck \/ TaskReceive \/ TaskSkipsData \/ TaskDispatch \/ TaskReadBytes
  \/ CallbackReturns \/ TaskRxFinish \/ TaskNothingSent \/ TaskSent
  \/ TaskTxFinish

InCall(t) ==
  \/ WriteEnd(t) \/ ReadEnd(t)
  \/ SetTxIdle(t) \/ SetTxRecheck(t) \/ SetTxStore(t)
  \/ SetRxIdle(t) \/ SetRxStore(t) \/ SetRxRefused(t)
  \/ CloseRx(t) \/ CloseExit(t) \/ CloseDelete(t)

Call(t) ==
  \/ WriteBegin(t) \/ WriteAsync(t)
  \/ ReadBegin(t) \/ FlushRx(t)
  \/ CloseTx(t)

Register ==
  \/ SetRxSame(Setter)
  \/ \E c \in Callbacks \cup {NoCallback} :
       \/ SetTxReplace(Setter, c) \/ SetTxFirst(Setter, c)
       \/ SetRxReplace(Setter, c) \/ SetRxFirst(Setter, c)

Next ==
  \/ \E t \in Tasks : Call(t) \/ InCall(t)
  \/ Register
  \/ Open
  \/ EventLoop
  \/ BytesSent
  \/ \E n \in 1 .. Burst : BytesArrive(n)

UartSpec == InitialState /\ [][Next]_vars

(* A task inside a call goes on (a read has a timeout that ends), and the  *)
(* driver sends what it was given.                                         *)
(* Strong fairness of the event task: its callbacks return however often   *)
(* they call the API, and a mutex other tasks keep taking is its own in    *)
(* the end.                                                                *)
FairUartSpec ==
  /\ UartSpec
  /\ SF_vars(EventLoop) /\ WF_vars(BytesSent)
  /\ \A t \in Tasks : WF_vars(InCall(t))

-----------------------------------------------------------------------------
Places == {"idle", "write", "read", "tx_wait", "tx_recheck", "tx_store",
           "rx_wait", "rx_recheck", "rx_store", "close_rx", "close_exit", "close_delete"}

(* Type invariant.                                                         *)
UartTypeOK ==
  /\ txLock \in Tasks \cup {Nobody} /\ rxLock \in Tasks \cup {Nobody}
  /\ txCallback \in Callbacks \cup {NoCallback}
  /\ rxCallback \in Callbacks \cup {NoCallback}
  /\ txActive \in 0 .. 1 /\ rxActive \in 0 .. 1
  /\ rxBytes \in 0 .. RxCap /\ remaining \in Nat
  /\ queue \in Seq(0 .. RxCap) /\ Len(queue) <= QueueCap
  /\ running \in Callbacks \cup {NoCallback}
  /\ pc \in [Tasks -> Places]
  /\ arg \in Callbacks \cup {NoCallback}

(* "blocking and async TX must not overlap on the same handle" (uart.md):  *)
(* no task is in the middle of a blocking write while one is pending.      *)
WritesDoNotOverlap == txPending => \A t \in Tasks : pc[t] # "write"

(* With one task registering callbacks, a callback that runs is either the *)
(* registered one or still waited for: when set_tx_callback or             *)
(* set_rx_callback has returned, the one it replaced has ended.            *)
ReplacedCallbackEnds ==
  running # NoCallback /\ ~closing =>
    \/ /\ loop \in {"tx_user", "tx_leave"}
       /\ running = txCallback \/ pc[Setter] = "tx_wait"
    \/ /\ loop \in {"rx_read", "rx_user", "rx_leave"}
       /\ running = rxCallback \/ pc[Setter] = "rx_wait"

(* Each counter is one exactly while its callback is in progress.          *)
CountersMatch ==
  /\ rxActive = IF loop \in {"rx_read", "rx_user", "rx_leave"} THEN 1 ELSE 0
  /\ txActive = IF loop \in {"tx_user", "tx_leave"} /\ running # NoCallback
                THEN 1 ELSE 0

\* What the waits of the callers rely on.
UartConsistent == UartTypeOK /\ CountersMatch

(* The bytes that the event being dispatched and the first k of the queued *)
(* ones announce.                                                          *)
Announced[k \in 0 .. Len(queue)] ==
  IF k = 0 THEN remaining ELSE Announced[k - 1] + queue[k]

(* While an RX callback is registered, every byte in the buffer has an     *)
(* event behind it that will deliver it, whatever was read, skipped or     *)
(* flushed before, unless the driver's event queue overflowed.             *)
NoStrandedBytes ==
  rxCallback # NoCallback /\ ~missed /\ ~closing
    => rxBytes <= Announced[Len(queue)]

(* close frees the handle only when the event task, which uses it between  *)
(* the callbacks too, is gone.                                             *)
FreedHandleUnused ==
  freed => loop = "exited" /\ txLock = Nobody /\ rxLock = Nobody

Phase == IF freed THEN "freed" ELSE IF closing THEN "closing" ELSE "open"

Tx == INSTANCE CallbackLifecycle
        WITH callback <- txCallback, phase <- Phase,
             running <- IF loop \in {"tx_user", "tx_leave"}
                        THEN running ELSE NoCallback,
             changing <- pc[Setter] \in {"tx_wait", "tx_recheck", "tx_store"}

Rx == INSTANCE CallbackLifecycle
        WITH callback <- rxCallback, phase <- Phase,
             running <- IF loop \in {"rx_read", "rx_user", "rx_leave"}
                        THEN running ELSE NoCallback,
             changing <- pc[Setter] \in {"rx_wait", "rx_recheck", "rx_store"}

(* Each direction, with a mutex, a counter and an event task of its own    *)
(* making, keeps the promise of callback_lifecycle.h to the owner of a     *)
(* callback, also when set_callback is overtaken by close.                 *)
ImplementsLifecycle == Tx!LifecycleSpec /\ Rx!LifecycleSpec

Waiting == pc[Setter] \in {"tx_wait", "rx_wait"} \/ (closing /\ ~freed)

(* An asynchronous transmission ends, one callback or none later, and      *)
(* neither a callback change nor close waits for ever: what they wait for  *)
(* cannot start again once they have unregistered it.                      *)
CallsComplete ==
  /\ txPending ~> ~txPending
  /\ Waiting ~> ~Waiting
=============================================================================
