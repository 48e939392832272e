------------------------------- MODULE Button -------------------------------
(***************************************************************************)
(* The debounced button (drivers/button.c): an edge interrupt that arms    *)
(* the debounce timer, the callbacks of two esp_timers, which the one      *)
(* esp_timer task runs one after the other, and the tasks that replace the *)
(* callback or close the button.                                           *)
(*                                                                         *)
(* External: GPIO delivers an edge as long as its callback is registered,  *)
(* and blusys_gpio_set_callback(NULL) waits for the interrupt in progress; *)
(* esp_timer disarms a one-shot timer before it calls its callback, and    *)
(* stopping a timer does not wait for a callback in progress.              *)
(***************************************************************************)
EXTENDS Naturals

CONSTANTS
  Users,       \* tasks that call set_callback and close
  NoUser,
  Callbacks,
  NoCallback,  \* NULL
  LongPress    \* long_press_ms > 0

ASSUME ButtonAssumption ==
  /\ NoUser \notin Users /\ NoCallback \notin Callbacks
  /\ LongPress \in BOOLEAN

VARIABLES
  level,     \* the pin reads as pressed (active_low applied)
  edge,      \* an edge interrupt is pending
  listening, \* the GPIO callback is registered
  debounce, longPress,                  \* the two timers are armed
  lock,      \* holder of button->lock
  pressed, closing, active, callback,   \* fields of the handle
  freed,     \* the handle's memory was given back
  task,      \* where the esp_timer task is
  sampled,   \* the level debounce_timer_cb read
  event,     \* the last event given to invoke_callback
  running,   \* the callback the esp_timer task is calling
  pc         \* where each user is

pin == <<level, edge, listening>>
timers == <<debounce, longPress>>
handle == <<pressed, closing, active, callback, freed>>
timerTask == <<task, sampled, event, running>>
users == <<lock, pc>>
vars == <<pin, timers, handle, timerTask, users>>

(* The contact may be down already: open does not read the pin.            *)
ButtonInit ==
  /\ level \in BOOLEAN /\ edge = FALSE /\ listening = TRUE
  /\ debounce = FALSE /\ longPress = FALSE
  /\ pressed = FALSE /\ closing = FALSE /\ active = 0
  /\ callback = NoCallback /\ freed = FALSE
  /\ task = "idle" /\ sampled = FALSE /\ event = "release"
  /\ running = NoCallback
  /\ lock = NoUser /\ pc = [u \in Users |-> "idle"]

-----------------------------------------------------------------------------
(* The contact opens, closes or bounces.                                   *)
PinChanges ==
  /\ level' = ~level
  /\ edge' = listening
  /\ UNCHANGED <<listening, timers, handle, timerTask, users>>

(* button_gpio_isr_cb: nothing arms the debounce timer between its stop    *)
(* and its start, so both are one step.                                    *)
Interrupt ==
  /\ edge /\ listening
  /\ edge' = FALSE
  /\ debounce' = TRUE
  /\ UNCHANGED <<level, listening, longPress, handle, timerTask, users>>

-----------------------------------------------------------------------------
(* debounce_timer_cb.                                                      *)
DebounceFires ==
  /\ task = "idle" /\ debounce
  /\ debounce' = FALSE
  /\ task' = "debounce"
  /\ UNCHANGED <<pin, longPress, handle, sampled, event, running, users>>

CheckClosing ==
  /\ task = "debounce"
  /\ task' = IF closing THEN "idle" ELSE "read"
  /\ UNCHANGED <<pin, timers, handle, sampled, event, running, users>>

ReadPin ==
  /\ task = "read"
  /\ sampled' = level
  /\ task' = "update"
  /\ UNCHANGED <<pin, timers, handle, event, running, users>>

\* Fault: an edge seen while the sample was taken is dismissed.
UpdatePressedDisarms ==
  /\ task = "update"
  /\ pressed' = sampled /\ debounce' = FALSE
  /\ task' = IF sampled = pressed THEN "idle" ELSE "arm"
  /\ UNCHANGED <<pin, longPress, closing, active, callback, freed, sampled,
                 event, running, users>>

UpdatePressed ==
  /\ task = "update"
  /\ pressed' = sampled
  /\ task' = IF sampled = pressed THEN "idle" ELSE "arm"
  /\ UNCHANGED <<pin, timers, closing, active, callback, freed, sampled, event,
                 running, users>>

(* A press restarts the long-press timer, a release stops it.              *)
ArmLongPress ==
  /\ task = "arm"
  /\ longPress' = (LongPress /\ sampled)
  /\ event' = IF sampled THEN "press" ELSE "release"
  /\ task' = "invoke"
  /\ UNCHANGED <<pin, debounce, handle, sampled, running, users>>

(* long_press_timer_cb.                                                    *)
LongPressFires ==
  /\ task = "idle" /\ longPress
  /\ longPress' = FALSE
  /\ task' = "long"
  /\ UNCHANGED <<pin, debounce, handle, sampled, event, running, users>>

CheckHeld ==
  /\ task = "long"
  /\ \/ /\ closing \/ ~pressed
        /\ task' = "idle" /\ UNCHANGED event
     \/ /\ ~closing /\ pressed
        /\ task' = "invoke" /\ event' = "long_press"
  /\ UNCHANGED <<pin, timers, handle, sampled, running, users>>

(* invoke_callback.                                                        *)
Invoke ==
  /\ task = "invoke"
  /\ \/ /\ callback = NoCallback \/ closing
        /\ task' = "idle" /\ UNCHANGED <<active, running>>
     \/ /\ callback # NoCallback /\ ~closing
        /\ task' = "user" /\ active' = active + 1 /\ running' = callback
  /\ UNCHANGED <<pin, timers, pressed, closing, callback, freed, sampled, event,
                 users>>

\* Fault: a callback that returns is not counted out.
CallbackStillCounted ==
  /\ task = "user"
  /\ task' = "idle" /\ running' = NoCallback
  /\ UNCHANGED <<pin, timers, handle, sampled, event, users>>

CallbackReturns ==
  /\ task = "user"
  /\ task' = "idle" /\ running' = NoCallback
  /\ active' = IF active > 0 THEN active - 1 ELSE 0
  /\ UNCHANGED <<pin, timers, pressed, closing, callback, freed, sampled, event,
                 users>>

-----------------------------------------------------------------------------
Goto(u, from, to) == pc[u] = from /\ pc' = [pc EXCEPT ![u] = to]

(* blusys_button_set_callback.  No call is made while the button is being  *)
(* closed, so its test of `closing` finds it false.                        *)
SetCallback(u) ==
  /\ ~freed /\ \A v \in Users : pc[v] \in {"idle", "set", "set_wait"}
  /\ lock = NoUser /\ lock' = u
  /\ Goto(u, "idle", "set")
  /\ UNCHANGED <<pin, timers, handle, timerTask>>

StoreCallback(u) ==
  /\ callback' \in Callbacks \cup {NoCallback}
  /\ Goto(u, "set", "set_wait")
  /\ UNCHANGED <<pin, timers, pressed, closing, active, freed, timerTask, lock>>

\* Fault: set_callback returns while the old callback runs.
SetCallbackNoWait(u) ==
  /\ Goto(u, "set_wait", "idle")
  /\ lock' = NoUser
  /\ UNCHANGED <<pin, timers, handle, timerTask>>

SetCallbackDone(u) ==
  /\ active = 0
  /\ Goto(u, "set_wait", "idle")
  /\ lock' = NoUser
  /\ UNCHANGED <<pin, timers, handle, timerTask>>

(* blusys_button_close, called when no other call is in progress.          *)
Close(u) ==
  /\ ~freed /\ \A v \in Users : pc[v] = "idle"
  /\ Goto(u, "idle", "close_flag")
  /\ listening' = FALSE /\ edge' = FALSE
  /\ UNCHANGED <<level, timers, handle, timerTask, lock>>

CloseFlag(u) ==
  /\ Goto(u, "close_flag", "close_debounce")
  /\ closing' = TRUE
  /\ UNCHANGED <<pin, timers, pressed, active, callback, freed, timerTask, lock>>

StopDebounce(u) ==
  /\ Goto(u, "close_debounce", "close_long")
  /\ debounce' = FALSE
  /\ UNCHANGED <<pin, longPress, handle, timerTask, lock>>

StopLongPress(u) ==
  /\ Goto(u, "close_long", "close_wait")
  /\ longPress' = FALSE
  /\ UNCHANGED <<pin, debounce, handle, timerTask, lock>>

CloseDone(u) ==
  /\ active = 0
  /\ Goto(u, "close_wait", "idle")
  /\ freed' = TRUE
  /\ UNCHANGED <<pin, timers, pressed, closing, active, callback, timerTask,
                 lock>>

TimerTask ==
  \/ DebounceFires \/ CheckClosing \/ ReadPin \/ UpdatePressed \/ ArmLongPress
  \/ LongPressFires \/ CheckHeld \/ Invoke \/ CallbackReturns

InCall(u) ==
  \/ StoreCallback(u) \/ SetCallbackDone(u)
  \/ CloseFlag(u) \/ StopDebounce(u) \/ StopLongPress(u) \/ CloseDone(u)

Next ==
  \/ PinChanges
  \/ Interrupt
  \/ TimerTask
  \/ \E u \in Users : SetCallback(u) \/ Close(u) \/ InCall(u)

ButtonSpec == ButtonInit /\ [][Next]_vars

(* Interrupts are served, the esp_timer task runs and callbacks return.  A *)
(* timer that is armed again and again need not fire: only when the pin    *)
(* has settled does weak fairness make the debounce timer expire.          *)
FairButtonSpec ==
  ButtonSpec /\ WF_vars(Interrupt) /\ WF_vars(TimerTask)

-----------------------------------------------------------------------------
(* Type invariant.                                                         *)
ButtonTypeOK ==
  /\ active \in 0 .. 1
  /\ callback \in Callbacks \cup {NoCallback}
  /\ running \in Callbacks \cup {NoCallback}
  /\ lock \in Users \cup {NoUser}
  /\ task \in {"idle", "debounce", "read", "update", "arm", "long", "invoke",
               "user"}
  /\ event \in {"press", "release", "long_press"}
  /\ pc \in [Users -> {"idle", "set", "set_wait", "close_flag",
                       "close_debounce", "close_long", "close_wait"}]

(* "callback changes wait for in-flight callbacks to finish" (button.md):  *)
(* once set_callback has returned the replaced callback is not running,    *)
(* and none is when close frees the button.                                *)
CallbacksEnd ==
  /\ lock = NoUser /\ task = "user" => running = callback
  /\ freed => task # "user"

Lifecycle == INSTANCE CallbackLifecycle
               WITH changing <- lock # NoUser,
                    phase <- IF freed THEN "freed"
                             ELSE IF closing THEN "closing" ELSE "open"

(* The button keeps the promise of callback_lifecycle.h to the owner of    *)
(* its callback.                                                           *)
ImplementsLifecycle == Lifecycle!LifecycleSpec

(* After the first edge: when the contact settles, so does the debounced   *)
(* state, at its level, and if it settles down the last event a button     *)
(* with a long press reports is a long press; unless the button is closed. *)
(* Before the first edge nothing is reported, even of a contact that was   *)
(* down when the button was opened: open neither reads the pin nor starts  *)
(* the debounce timer.                                                     *)
SettledIsReported ==
  <>edge =>
    \/ <>~listening
    \/ /\ \A b \in BOOLEAN : <>[](level = b) => <>[](pressed = b)
       /\ LongPress /\ <>[]level => <>[](event = "long_press")
=============================================================================
