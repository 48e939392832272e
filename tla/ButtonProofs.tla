---------------------------- MODULE ButtonProofs ----------------------------
(***************************************************************************)
(* Proofs about Button, for any number of tasks and callbacks, with and    *)
(* without a long press.                                                   *)
(***************************************************************************)
EXTENDS Button, TLAPS

Places == {"idle", "set", "set_wait", "close_flag", "close_debounce",
           "close_long", "close_wait"}

(* active counts the one callback the esp_timer task can be in.            *)
RunningInv ==
  /\ active = IF task = "user" THEN 1 ELSE 0
  /\ running # NoCallback <=> task = "user"

(* Who is inside set_callback holds the lock, who closes the button is     *)
(* alone, and from its second step on, and only then, the handle says that *)
(* it closes.                                                              *)
CallsInv ==
  /\ pc \in [Users -> Places]
  /\ \A u \in Users : lock = u <=> pc[u] \in {"set", "set_wait"}
  /\ \A u, v \in Users :
       pc[u] \in {"close_flag", "close_debounce", "close_long", "close_wait"}
         => v = u \/ pc[v] = "idle"
  /\ \A u \in Users :
       pc[u] \in {"close_debounce", "close_long", "close_wait"} => closing
  /\ closing /\ ~freed =>
       \E u \in Users : pc[u] \in {"close_debounce", "close_long", "close_wait"}
  /\ freed => closing /\ \A u \in Users : pc[u] = "idle"

ButtonInv == ButtonTypeOK /\ RunningInv /\ CallsInv /\ CallbacksEnd

(* An open button at rest.                                                 *)
LEMMA ButtonInvInit == ButtonInit => ButtonInv
<1> SUFFICES ASSUME ButtonInit PROVE ButtonInv
  OBVIOUS
<1> QED
  BY ButtonAssumption
  DEF ButtonInit, ButtonInv, ButtonTypeOK, RunningInv, CallsInv, CallbacksEnd,
      Places

(* The wait for active is what separates the end of a callback from the    *)
(* end of set_callback and of close; closing is what keeps the next one    *)
(* from starting.                                                          *)
LEMMA ButtonInvNext == ButtonInv /\ [Next]_vars => ButtonInv'
<1> SUFFICES ASSUME ButtonInv, [Next]_vars PROVE ButtonInv'
  OBVIOUS
<1> USE ButtonAssumption
    DEF ButtonInv, ButtonTypeOK, RunningInv, CallsInv, CallbacksEnd, Places,
        pin, timers, handle, timerTask, users
<1>1. CASE PinChanges
  BY <1>1 DEF PinChanges
<1>2. CASE Interrupt
  BY <1>2 DEF Interrupt
<1>3. CASE DebounceFires \/ CheckClosing
  BY <1>3 DEF DebounceFires, CheckClosing
<1>4. CASE ReadPin \/ UpdatePressed
  BY <1>4 DEF ReadPin, UpdatePressed
<1>5. CASE ArmLongPress
  BY <1>5 DEF ArmLongPress
<1>6. CASE LongPressFires \/ CheckHeld
  BY <1>6 DEF LongPressFires, CheckHeld
<1>7. CASE Invoke
  BY <1>7 DEF Invoke
<1>8. CASE CallbackReturns
  BY <1>8 DEF CallbackReturns
<1>9. ASSUME NEW u \in Users, SetCallback(u) PROVE ButtonInv'
  BY <1>9 DEF SetCallback, Goto
<1>10. ASSUME NEW u \in Users, StoreCallback(u) PROVE ButtonInv'
  BY <1>10 DEF StoreCallback, Goto
<1>11. ASSUME NEW u \in Users, SetCallbackDone(u) PROVE ButtonInv'
  BY <1>11 DEF SetCallbackDone, Goto
<1>12. ASSUME NEW u \in Users, Close(u) \/ CloseFlag(u) PROVE ButtonInv'
  BY <1>12 DEF Close, CloseFlag, Goto
<1>13. ASSUME NEW u \in Users, StopDebounce(u) \/ StopLongPress(u)
       PROVE  ButtonInv'
  BY <1>13 DEF StopDebounce, StopLongPress, Goto
<1>14. ASSUME NEW u \in Users, CloseDone(u) PROVE ButtonInv'
  BY <1>14 DEF CloseDone, Goto
<1>15. CASE UNCHANGED vars
  BY <1>15 DEF vars
<1> QED
  BY <1>1, <1>2, <1>3, <1>4, <1>5, <1>6, <1>7, <1>8, <1>9, <1>10, <1>11, <1>12,
     <1>13, <1>14, <1>15
  DEF Next, TimerTask, InCall

(* The counter never exceeds one and the tasks are where they can be.      *)
THEOREM ButtonTypeCorrect == ButtonSpec => []ButtonTypeOK
<1>1. ButtonInv => ButtonTypeOK
  BY DEF ButtonInv
<1> QED BY ButtonInvInit, ButtonInvNext, <1>1, PTL DEF ButtonSpec

(* When blusys_button_set_callback has returned, the callback that runs is *)
(* the one it stored; when blusys_button_close has freed the handle, none  *)
(* runs and none can start.                                                *)
THEOREM ButtonCallbacksEnd == ButtonSpec => []CallbacksEnd
<1>1. ButtonInv => CallbacksEnd
  BY DEF ButtonInv
<1> QED BY ButtonInvInit, ButtonInvNext, <1>1, PTL DEF ButtonSpec
-----------------------------------------------------------------------------
(* Every step of the button is one of CallbackLifecycle or changes nothing *)
(* that it speaks of.                                                      *)
LEMMA ButtonLifecycleStep ==
  ButtonInv /\ [Next]_vars =>
    [Lifecycle!LifecycleNext]_(Lifecycle!lifecycleVars)
<1> SUFFICES ASSUME ButtonInv, [Next]_vars
             PROVE  [Lifecycle!LifecycleNext]_(Lifecycle!lifecycleVars)
  OBVIOUS
<1> USE ButtonAssumption
    DEF ButtonInv, ButtonTypeOK, RunningInv, CallsInv, Places, pin, timers,
        handle, timerTask, users, Lifecycle!lifecycleVars
<1>1. ASSUME UNCHANGED <<callback, running, lock, freed, closing>>
      PROVE  UNCHANGED Lifecycle!lifecycleVars
  BY <1>1
<1>2. CASE PinChanges \/ Interrupt
  BY <1>1, <1>2 DEF PinChanges, Interrupt
<1>3. CASE DebounceFires \/ CheckClosing \/ ReadPin \/ UpdatePressed
  BY <1>1, <1>3 DEF DebounceFires, CheckClosing, ReadPin, UpdatePressed
<1>4. CASE ArmLongPress \/ LongPressFires \/ CheckHeld
  BY <1>1, <1>4 DEF ArmLongPress, LongPressFires, CheckHeld
<1>5. CASE Invoke
  <2>1. CASE callback = NoCallback \/ closing
    BY <1>1, <1>5, <2>1 DEF Invoke
  <2>2. CASE callback # NoCallback /\ ~closing
    <3>1. Lifecycle!Enter
      BY <1>5, <2>2 DEF Invoke, Lifecycle!Enter
    <3> QED BY <3>1 DEF Lifecycle!LifecycleNext
  <2> QED BY <2>1, <2>2
<1>6. CASE CallbackReturns
  <2>1. Lifecycle!Leave
    BY <1>6 DEF CallbackReturns, Lifecycle!Leave
  <2> QED BY <2>1 DEF Lifecycle!LifecycleNext
<1>7. ASSUME NEW u \in Users, SetCallback(u)
      PROVE  Lifecycle!LifecycleNext
  <2>1. ~closing /\ ~freed
    BY <1>7 DEF SetCallback
  <2>2. Lifecycle!BeginChange
    BY <1>7, <2>1 DEF SetCallback, Goto, Lifecycle!BeginChange
  <2> QED BY <2>2 DEF Lifecycle!LifecycleNext
<1>8. ASSUME NEW u \in Users, StoreCallback(u)
      PROVE  Lifecycle!LifecycleNext
  <2>1. Lifecycle!Change
    BY <1>8 DEF StoreCallback, Goto, Lifecycle!Change
  <2> QED BY <2>1 DEF Lifecycle!LifecycleNext
<1>9. ASSUME NEW u \in Users, SetCallbackDone(u)
      PROVE  Lifecycle!LifecycleNext
  <2>1. Lifecycle!EndChange
    BY <1>9 DEF SetCallbackDone, Goto, Lifecycle!EndChange
  <2> QED BY <2>1 DEF Lifecycle!LifecycleNext
<1>10. ASSUME NEW u \in Users, CloseFlag(u)
       PROVE  Lifecycle!LifecycleNext
  <2>1. ~closing /\ ~freed
    BY <1>10 DEF CloseFlag, Goto
  <2>2. Lifecycle!BeginClose
    BY <1>10, <2>1 DEF CloseFlag, Goto, Lifecycle!BeginClose
  <2> QED BY <2>2 DEF Lifecycle!LifecycleNext
<1>11. ASSUME NEW u \in Users, Close(u) \/ StopDebounce(u) \/ StopLongPress(u)
       PROVE  UNCHANGED Lifecycle!lifecycleVars
  BY <1>1, <1>11 DEF Close, StopDebounce, StopLongPress
<1>12. ASSUME NEW u \in Users, CloseDone(u)
       PROVE  Lifecycle!LifecycleNext
  <2>1. closing /\ ~freed /\ running = NoCallback /\ lock = NoUser
    BY <1>12 DEF CloseDone, Goto
  <2>2. Lifecycle!Free
    BY <1>12, <2>1 DEF CloseDone, Lifecycle!Free
  <2> QED BY <2>2 DEF Lifecycle!LifecycleNext
<1>13. CASE UNCHANGED vars
  BY <1>1, <1>13 DEF vars
<1> QED
  BY <1>2, <1>3, <1>4, <1>5, <1>6, <1>7, <1>8, <1>9, <1>10, <1>11, <1>12, <1>13
  DEF Next, TimerTask, InCall

(* The button's lock, counter and flag implement CallbackLifecycle.        *)
THEOREM ButtonImplementsLifecycle == ButtonSpec => ImplementsLifecycle
<1>1. ButtonInit => Lifecycle!LifecycleInit
  BY DEF ButtonInit, Lifecycle!LifecycleInit
<1> QED
  BY <1>1, ButtonInvInit, ButtonInvNext, ButtonLifecycleStep, PTL
  DEF ButtonSpec, ImplementsLifecycle, Lifecycle!LifecycleSpec
=============================================================================
