------------------------------ MODULE HalTimer ------------------------------
(***************************************************************************)
(* The general-purpose timer of the HAL (hal/timer.c): the tasks that      *)
(* share a handle, serialised by its lock, the alarm interrupt, which      *)
(* takes no lock, and the ESP-IDF gptimer driver under both.  The handle   *)
(* keeps its own idea of whether the timer runs (`started`) and counts the *)
(* callbacks in progress (callback_lifecycle.h).                           *)
(*                                                                         *)
(* Every critical section of the code is one action.  The driver is        *)
(* external: a state machine whose calls fail with INVALID_STATE when made *)
(* in the wrong state, and an interrupt that stays pending until taken.    *)
(***************************************************************************)
EXTENDS Naturals, FiniteSets

CONSTANTS
  Tasks,      \* tasks that hold the handle
  NoTask,
  Callbacks,  \* callbacks a task may register, and NoCallback for NULL
  NoCallback,
  Cores       \* 1 on the ESP32-C3, 2 on the ESP32 and the ESP32-S3

ASSUME TimerAssumption ==
  NoTask \notin Tasks /\ NoCallback \notin Callbacks /\ Cores \in {1, 2}

VARIABLES
  lock,      \* holder of the handle's mutex
  late,      \* a task has got it while an alarm was latched and not taken
  periodic,  \* the `periodic` argument of open
  started, closing, active, callback,  \* the handle's fields
  freed,     \* the handle's memory was given back
  fsm,       \* gptimer driver: "init", "enable" or "run"
  armed,     \* the alarm comparator is on
  pending,   \* an alarm interrupt is latched
  isr,       \* where the interrupt handler is
  running,   \* the callback it read
  pc, op,    \* where each task is, and in which call
  result     \* what its last call on this handle returned

mutex == <<lock, late>>
handle == <<periodic, started, closing, active, callback, freed>>
driver == <<fsm, armed, pending>>
handler == <<isr, running>>
vars == <<mutex, handle, driver, handler, pc, op, result>>

Ops == {"start", "stop", "configure", "close"}

TimerInit ==
  /\ lock = NoTask /\ late = FALSE /\ periodic \in BOOLEAN
  /\ started = FALSE /\ closing = FALSE /\ active = 0 /\ callback = NoCallback
  /\ freed = FALSE
  /\ fsm = "enable" /\ armed = FALSE /\ pending = FALSE
  /\ isr = "none" /\ running = NoCallback
  /\ pc = [t \in Tasks |-> "idle"]
  /\ op = [t \in Tasks |-> "start"]
  /\ result = [t \in Tasks |-> "ok"]

(* With a single core a task does not run while the handler does or while  *)
(* an enabled interrupt waits for it.                                      *)
InterruptWaits == pending /\ fsm # "init"
TaskRuns == Cores = 2 \/ (isr = "none" /\ ~InterruptWaits)

At(t, where) == TaskRuns /\ pc[t] = where
Goto(t, where) == pc' = [pc EXCEPT ![t] = where]

Finish(t, r) ==
  /\ Goto(t, "idle")
  /\ result' = [result EXCEPT ![t] = r]

Unlock(t, r) == Finish(t, r) /\ lock' = NoTask /\ UNCHANGED late

-----------------------------------------------------------------------------
(* A task calls the API.  docs/hal/timer.md forbids calling close while    *)
(* another call on the handle is in progress.                              *)
Call(t, o) ==
  /\ At(t, "idle") /\ ~freed
  /\ \A u \in Tasks : pc[u] = "idle" \/ (o # "close" /\ op[u] # "close")
  /\ op' = [op EXCEPT ![t] = o]
  /\ Goto(t, "lock")
  /\ UNCHANGED <<mutex, handle, driver, handler, result>>

Lock(t) ==
  /\ At(t, "lock") /\ lock = NoTask
  /\ lock' = t /\ late' = (late \/ InterruptWaits)
  /\ Goto(t, IF op[t] = "close" THEN "closing" ELSE "check")
  /\ UNCHANGED <<handle, driver, handler, op, result>>

SetClosing(t) ==
  /\ At(t, "closing")
  /\ closing' = TRUE
  /\ Goto(t, "check")
  /\ UNCHANGED <<mutex, periodic, started, active, callback, freed, driver,
                 handler, op, result>>

(* blusys_timer_is_started, and where the call goes from there.            *)
Check(t) ==
  /\ At(t, "check")
  /\ \/ /\ op[t] \in {"start", "configure"} /\ ~started
        /\ Goto(t, "wait") /\ UNCHANGED <<mutex, result>>
     \/ /\ op[t] \in {"stop", "close"} /\ started
        /\ Goto(t, "hw") /\ UNCHANGED <<mutex, result>>
     \/ /\ op[t] = "close" /\ ~started
        /\ Goto(t, "disable") /\ UNCHANGED <<mutex, result>>
     \/ /\ op[t] \in {"start", "configure"} /\ started
        /\ Unlock(t, "invalid_state")
     \/ /\ op[t] = "stop" /\ ~started
        /\ Unlock(t, "invalid_state")
  /\ UNCHANGED <<handle, driver, handler, op>>

\* Fault: the handler in progress is not waited for.
WaitNot(t) ==
  /\ At(t, "wait")
  /\ Goto(t, IF op[t] = "start" THEN "hw" ELSE "write")
  /\ UNCHANGED <<mutex, handle, driver, handler, op, result>>

(* blusys_callback_lifecycle_wait_for_idle of start, set_period and        *)
(* set_callback.                                                           *)
Wait(t) ==
  /\ At(t, "wait") /\ active = 0
  /\ Goto(t, IF op[t] = "start" THEN "hw" ELSE "write")
  /\ UNCHANGED <<mutex, handle, driver, handler, op, result>>

(* set_callback stores the callback; set_period stores a period, which no  *)
(* property tells apart, and leaves the callback.                          *)
Write(t) ==
  /\ At(t, "write")
  /\ callback' \in Callbacks \cup {NoCallback}
  /\ Unlock(t, "ok")
  /\ UNCHANGED <<periodic, started, closing, active, freed, driver, handler, op>>

(* The count and the alarm are set first, whatever gptimer_start answers.  *)
StartHardware(t) ==
  /\ At(t, "hw") /\ op[t] = "start"
  /\ armed' = TRUE
  /\ \/ /\ fsm = "enable"
        /\ fsm' = "run"
        /\ Goto(t, "flag") /\ UNCHANGED <<mutex, result>>
     \/ /\ fsm # "enable"
        /\ Unlock(t, "invalid_state") /\ UNCHANGED fsm
  /\ UNCHANGED <<handle, pending, handler, op>>

\* Fault: the flag alone is meant to stop the timer.
StopHardwareSkipped(t) ==
  /\ At(t, "hw") /\ op[t] \in {"stop", "close"}
  /\ Goto(t, "flag")
  /\ UNCHANGED <<mutex, handle, driver, handler, op, result>>

StopHardware(t) ==
  /\ At(t, "hw") /\ op[t] \in {"stop", "close"}
  /\ \/ /\ fsm = "run" \/ op[t] = "close"
        /\ fsm' = IF fsm = "run" THEN "enable" ELSE fsm
        /\ Goto(t, "flag") /\ UNCHANGED <<mutex, result>>
     \/ /\ fsm # "run" /\ op[t] = "stop"
        /\ Unlock(t, "invalid_state") /\ UNCHANGED fsm
  /\ UNCHANGED <<handle, armed, pending, handler, op>>

\* Fault: stop answers before the flag is cleared.
SetStartedNotCleared(t) ==
  /\ At(t, "flag")
  /\ started' = (started \/ op[t] = "start")
  /\ \/ op[t] = "start" /\ Unlock(t, "ok")
     \/ op[t] = "stop" /\ Goto(t, "drain") /\ UNCHANGED <<mutex, result>>
     \/ op[t] = "close" /\ Goto(t, "disable") /\ UNCHANGED <<mutex, result>>
  /\ UNCHANGED <<periodic, closing, active, callback, freed, driver, handler, op>>

(* blusys_timer_set_started, a critical section after the driver's call.   *)
SetStarted(t) ==
  /\ At(t, "flag")
  /\ started' = (op[t] = "start")
  /\ \/ op[t] = "start" /\ Unlock(t, "ok")
     \/ op[t] = "stop" /\ Goto(t, "drain") /\ UNCHANGED <<mutex, result>>
     \/ op[t] = "close" /\ Goto(t, "disable") /\ UNCHANGED <<mutex, result>>
  /\ UNCHANGED <<periodic, closing, active, callback, freed, driver, handler, op>>

Drain(t) ==
  /\ At(t, "drain") /\ active = 0
  /\ Unlock(t, "ok")
  /\ UNCHANGED <<handle, driver, handler, op>>

\* Fault: the driver is not disabled before it is deleted.
DisableSkipped(t) ==
  /\ At(t, "disable")
  /\ lock' = NoTask /\ UNCHANGED late /\ Goto(t, "close_wait")
  /\ UNCHANGED <<handle, driver, handler, op, result>>

(* gptimer_disable: when it fails the handle is usable again.              *)
Disable(t) ==
  /\ At(t, "disable")
  /\ \/ /\ fsm = "enable"
        /\ fsm' = "init"
        /\ lock' = NoTask /\ UNCHANGED late /\ Goto(t, "close_wait")
        /\ UNCHANGED <<closing, result>>
     \/ /\ fsm # "enable"
        /\ closing' = FALSE
        /\ Unlock(t, "invalid_state") /\ UNCHANGED fsm
  /\ UNCHANGED <<periodic, started, active, callback, freed, armed, pending,
                 handler, op>>

CloseWait(t) ==
  /\ At(t, "close_wait") /\ active = 0
  /\ Goto(t, "delete")
  /\ UNCHANGED <<mutex, handle, driver, handler, op, result>>

(* gptimer_del_timer frees the interrupt, which waits for a handler in     *)
(* progress; when it refuses, the handle is freed all the same.            *)
Delete(t) ==
  /\ At(t, "delete")
  /\ fsm = "init" => isr = "none"
  /\ pending' = (pending /\ fsm # "init")
  /\ freed' = TRUE
  /\ Finish(t, "ok")
  /\ UNCHANGED <<mutex, periodic, started, closing, active, callback, fsm,
                 armed, handler, op>>

(* blusys_timer_open gives a new handle.                                   *)
Open ==
  /\ freed /\ \A t \in Tasks : pc[t] = "idle"
  /\ periodic' \in BOOLEAN
  /\ late' = FALSE /\ started' = FALSE /\ closing' = FALSE /\ active' = 0
  /\ callback' = NoCallback /\ freed' = FALSE
  /\ fsm' = "enable" /\ armed' = FALSE /\ pending' = FALSE
  /\ op' = [t \in Tasks |-> "start"] /\ result' = [t \in Tasks |-> "ok"]
  /\ UNCHANGED <<lock, handler, pc>>

-----------------------------------------------------------------------------
(* The counter reaches the alarm.                                          *)
Alarm ==
  /\ fsm = "run" /\ armed
  /\ pending' = TRUE
  /\ armed' = periodic
  /\ UNCHANGED <<mutex, handle, fsm, handler, pc, op, result>>

(* blusys_timer_on_alarm, up to its first portEXIT_CRITICAL_ISR.           *)
IsrEnter ==
  /\ isr = "none" /\ InterruptWaits
  /\ pending' = FALSE
  /\ \/ closing /\ UNCHANGED <<started, active, handler>>
     \/ /\ ~closing
        /\ active' = active + 1
        /\ started' = (started /\ periodic)
        /\ isr' = IF periodic THEN "call" ELSE "stop"
        /\ running' = callback
  /\ UNCHANGED <<mutex, periodic, closing, callback, freed, fsm, armed, pc, op,
                 result>>

IsrStop ==
  /\ isr = "stop"
  /\ fsm' = IF fsm = "run" THEN "enable" ELSE fsm
  /\ isr' = "call"
  /\ UNCHANGED <<mutex, handle, armed, pending, running, pc, op, result>>

IsrCall ==
  /\ isr = "call"
  /\ isr' = "leave"
  /\ UNCHANGED <<mutex, handle, driver, running, pc, op, result>>

IsrLeave ==
  /\ isr = "leave"
  /\ active' = IF active > 0 THEN active - 1 ELSE 0
  /\ isr' = "none" /\ running' = NoCallback
  /\ UNCHANGED <<mutex, periodic, started, closing, callback, freed, driver,
                 pc, op, result>>

InCall(t) ==
  \/ SetClosing(t) \/ Check(t) \/ Wait(t) \/ Write(t)
  \/ StartHardware(t) \/ StopHardware(t) \/ SetStarted(t) \/ Drain(t)
  \/ Disable(t) \/ CloseWait(t) \/ Delete(t)

Interrupt == IsrEnter \/ IsrStop \/ IsrCall \/ IsrLeave

Next ==
  \/ \E t \in Tasks : (\E o \in Ops : Call(t, o)) \/ Lock(t) \/ InCall(t)
  \/ Open
  \/ Alarm
  \/ Interrupt

TimerSpec == TimerInit /\ [][Next]_vars

(* A task inside a call is scheduled again, and a pending interrupt is     *)
(* taken and its handler runs to its end.                                  *)
FairTimerSpec ==
  TimerSpec /\ WF_vars(Interrupt) /\ \A t \in Tasks : WF_vars(InCall(t))

-----------------------------------------------------------------------------
Locked == {"closing", "check", "wait", "write", "hw", "flag", "drain", "disable"}

(* Type invariant.                                                         *)
TimerTypeOK ==
  /\ lock \in Tasks \cup {NoTask}
  /\ late \in BOOLEAN /\ periodic \in BOOLEAN
  /\ started \in BOOLEAN /\ closing \in BOOLEAN /\ freed \in BOOLEAN
  /\ active \in 0 .. 1
  /\ callback \in Callbacks \cup {NoCallback}
  /\ fsm \in {"init", "enable", "run"}
  /\ armed \in BOOLEAN /\ pending \in BOOLEAN
  /\ isr \in {"none", "stop", "call", "leave"}
  /\ running \in Callbacks \cup {NoCallback}
  /\ pc \in [Tasks -> Locked \cup {"idle", "lock", "close_wait", "delete"}]
  /\ op \in [Tasks -> Ops]
  /\ result \in [Tasks -> {"ok", "invalid_state"}]

(* callback_active counts exactly the handlers past their entry: one that  *)
(* gave up because of `closing` is not counted, none is counted twice.     *)
ActiveCountsHandler == active = IF isr = "none" THEN 0 ELSE 1

(* close frees the handle only when no handler uses it or can start to.    *)
FreedHandleUnused == freed => isr = "none" /\ ~InterruptWaits

Quiet == lock = NoTask /\ isr = "none" /\ ~InterruptWaits /\ ~freed

(* Between calls and with no alarm in progress, a counter that runs is     *)
(* never taken for stopped: stop and close will find it.                   *)
RunningIsStarted == Quiet /\ fsm = "run" => started

(* Between calls, a periodic timer, which no handler stops, counts as      *)
(* started only while its counter runs, so that start and stop answer as   *)
(* they should. A one-shot may not: see the README.                        *)
PeriodicStartedIsRunning ==
  periodic /\ Quiet /\ started => fsm = "run"

(* The flags and the counter of the handle agree with the timer.           *)
TimerInv ==
  /\ TimerTypeOK
  /\ ActiveCountsHandler /\ RunningIsStarted /\ PeriodicStartedIsRunning

(* close returns BLUSYS_OK, or INVALID_ARG for a null handle (timer.h): it *)
(* does not fail on the live handle of a periodic timer.                   *)
PeriodicCloseSucceeds ==
  periodic =>
    \A t \in Tasks : pc[t] = "idle" /\ op[t] = "close" => result[t] = "ok"

(* set_callback never replaces a callback that a handler is using, even    *)
(* when the one-shot's handler has already cleared `started`, unless, with *)
(* this handle, a call once got the lock before a latched alarm was taken. *)
NoCallbackChangeUnderHandler ==
  [][callback' # callback /\ ~freed /\ ~late => isr = "none"]_vars

(* No call waits for ever for handlers to leave: the alarms that could     *)
(* bring new ones are cut off before the wait.                             *)
CallsReturn ==
  \A t \in Tasks : pc[t] \notin {"idle", "lock"} ~> pc[t] = "idle"
=============================================================================
