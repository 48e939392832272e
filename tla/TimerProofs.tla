----------------------------- MODULE TimerProofs -----------------------------
(* Proofs about HalTimer, for any number of tasks and callbacks, on one    *)
(* core or two.                                                            *)
EXTENDS HalTimer, TLAPS

Closing == {"close_wait", "delete"}

(* Who is where: the lock is held by the one task that is inside, a close  *)
(* is alone on the handle, and the driver is disabled from there on.       *)
MutexInv == \A t \in Tasks : pc[t] \in Locked <=> lock = t

OpInv ==
  \A t \in Tasks :
    /\ pc[t] \in {"closing", "disable"} \cup Closing => op[t] = "close"
    /\ pc[t] \in {"hw", "flag"} => op[t] \in {"start", "stop", "close"}
    /\ pc[t] = "wait" => op[t] \in {"start", "configure"}
    /\ pc[t] = "write" => op[t] = "configure"
    /\ pc[t] = "drain" => op[t] = "stop"

CloseAlone ==
  \A t, u \in Tasks :
    pc[t] # "idle" /\ op[t] = "close" /\ t # u => pc[u] = "idle"

DisabledInv ==
  /\ fsm = "init" <=> freed \/ \E t \in Tasks : pc[t] \in Closing
  /\ freed => isr = "none" /\ \A t \in Tasks : pc[t] = "idle"

HandleInv == /\ TimerTypeOK /\ ActiveCountsHandler
             /\ MutexInv /\ OpInv /\ CloseAlone /\ DisabledInv

-----------------------------------------------------------------------------
LEMMA HandleInit == TimerInit => HandleInv
<1> SUFFICES ASSUME TimerInit
             PROVE  HandleInv
  OBVIOUS
<1>1. /\ {late, periodic, started, closing, freed} \subseteq BOOLEAN
      /\ {armed, pending} \subseteq BOOLEAN
  BY Zenon DEF TimerInit
<1>2. TimerTypeOK
  BY <1>1 DEF TimerInit, TimerTypeOK, Locked, Ops
<1>3. MutexInv /\ OpInv /\ CloseAlone
  BY TimerAssumption DEF TimerInit, MutexInv, OpInv, CloseAlone, Closing, Locked
<1>4. DisabledInv /\ ActiveCountsHandler
  BY DEF TimerInit, DisabledInv, ActiveCountsHandler, Closing
<1> QED
  BY <1>2, <1>3, <1>4 DEF HandleInv

LEMMA HandleNext == HandleInv /\ [Next]_vars => HandleInv'
<1> SUFFICES ASSUME HandleInv, [Next]_vars
             PROVE  HandleInv'
  OBVIOUS
<1> USE TimerAssumption
    DEF HandleInv, TimerTypeOK, ActiveCountsHandler, MutexInv, OpInv,
        CloseAlone, DisabledInv, Closing, Locked, Ops, mutex, handle, driver,
        handler, At, Goto, Finish, Unlock
<1>1. ASSUME NEW t \in Tasks, NEW o \in Ops, Call(t, o)
      PROVE  HandleInv'
  BY <1>1 DEF Call
<1>2. ASSUME NEW t \in Tasks, Lock(t)
      PROVE  HandleInv'
  BY <1>2 DEF Lock, InterruptWaits
<1>3. ASSUME NEW t \in Tasks, SetClosing(t)
      PROVE  HandleInv'
  BY <1>3 DEF SetClosing
<1>4. ASSUME NEW t \in Tasks, Check(t)
      PROVE  HandleInv'
  BY <1>4 DEF Check
<1>5. ASSUME NEW t \in Tasks, Wait(t)
      PROVE  HandleInv'
  BY <1>5 DEF Wait
<1>6. ASSUME NEW t \in Tasks, Write(t)
      PROVE  HandleInv'
  BY <1>6 DEF Write
<1>7. ASSUME NEW t \in Tasks, StartHardware(t)
      PROVE  HandleInv'
  BY <1>7 DEF StartHardware
<1>8. ASSUME NEW t \in Tasks, StopHardware(t)
      PROVE  HandleInv'
  BY <1>8 DEF StopHardware
<1>9. ASSUME NEW t \in Tasks, SetStarted(t)
      PROVE  HandleInv'
  BY <1>9 DEF SetStarted
<1>10. ASSUME NEW t \in Tasks, Drain(t)
       PROVE  HandleInv'
  BY <1>10 DEF Drain
<1>11. ASSUME NEW t \in Tasks, Disable(t)
       PROVE  HandleInv'
  <2>1. closing' \in BOOLEAN
    BY <1>11, Zenon DEF Disable
  <2>2. CASE fsm = "enable"
    BY <1>11, <2>1, <2>2 DEF Disable
  <2>3. CASE fsm # "enable"
    BY <1>11, <2>1, <2>3 DEF Disable
  <2> QED
    BY <2>2, <2>3
<1>12. ASSUME NEW t \in Tasks, CloseWait(t)
       PROVE  HandleInv'
  BY <1>12 DEF CloseWait
<1>13. ASSUME NEW t \in Tasks, Delete(t)
       PROVE  HandleInv'
  BY <1>13 DEF Delete
<1>14. CASE Open
  BY <1>14 DEF Open
<1>15. CASE Alarm
  BY <1>15 DEF Alarm
<1>16. CASE IsrEnter
  <2>1. isr = "none" /\ fsm # "init" /\ pending' \in BOOLEAN
          /\ started' \in BOOLEAN
    BY <1>16, Zenon DEF IsrEnter, InterruptWaits
  <2>2. CASE closing
    BY <1>16, <2>1, <2>2 DEF IsrEnter
  <2>3. CASE ~closing
    <3>1. /\ active' = 1 /\ isr' \in {"call", "stop"} /\ running' = callback
          /\ UNCHANGED <<lock, late, periodic, closing, callback, freed, fsm>>
          /\ UNCHANGED <<armed, pc, op, result>>
      BY <1>16, <2>1, <2>3 DEF IsrEnter
    <3> QED
      BY <2>1, <3>1
  <2> QED
    BY <2>2, <2>3
<1>17. CASE IsrStop
  BY <1>17 DEF IsrStop
<1>18. CASE IsrCall
  BY <1>18 DEF IsrCall
<1>19. CASE IsrLeave
  BY <1>19 DEF IsrLeave
<1>20. CASE UNCHANGED vars
  BY <1>20 DEF vars
<1> HIDE DEF HandleInv
<1>21. ASSUME NEW t \in Tasks, InCall(t)
       PROVE  HandleInv'
  BY <1>3, <1>4, <1>5, <1>6, <1>7, <1>8, <1>9, <1>10, <1>11, <1>12, <1>13,
     <1>21, Zenon DEF InCall
<1>22. CASE Interrupt
  BY <1>16, <1>17, <1>18, <1>19, <1>22, Zenon DEF Interrupt
<1> QED
  BY <1>1, <1>2, <1>14, <1>15, <1>20, <1>21, <1>22, Zenon DEF Next

THEOREM TimerTypeCorrect == TimerSpec => []TimerTypeOK
<1>1. HandleInv => TimerTypeOK
  BY DEF HandleInv
<1> QED
  BY <1>1, HandleInit, HandleNext, PTL DEF TimerSpec

(* close frees the handle only when no alarm handler uses it or can start  *)
(* to, whatever alarms came during the call.                               *)
THEOREM TimerFreedHandleUnused == TimerSpec => []FreedHandleUnused
<1>1. HandleInv => FreedHandleUnused
  BY DEF HandleInv, DisabledInv, FreedHandleUnused, InterruptWaits
<1> QED
  BY <1>1, HandleInit, HandleNext, PTL DEF TimerSpec

-----------------------------------------------------------------------------
(* The flag against the counter. A counter runs without the flag only      *)
(* while a start is about to set it or a one-shot's handler to stop it; a  *)
(* periodic timer has the flag without the counter only while a stop is    *)
(* about to clear it.                                                      *)
Setting(ops) == \E t \in Tasks : pc[t] = "flag" /\ op[t] \in ops

RunningInv == fsm = "run" /\ ~started => isr = "stop" \/ Setting({"start"})
StoppedInv ==
  \A t \in Tasks : pc[t] = "flag" /\ op[t] \in {"stop", "close"} => fsm # "run"
PeriodicInv ==
  periodic =>
    /\ isr # "stop"
    /\ started => fsm = "run" \/ Setting({"stop", "close"})
    /\ \A t \in Tasks :
         /\ pc[t] = "flag" /\ op[t] = "start" => fsm = "run"
         /\ pc[t] = "disable" => fsm = "enable" /\ ~started
FlagInv == RunningInv /\ StoppedInv /\ PeriodicInv /\ PeriodicCloseSucceeds

LEMMA FlagInit == TimerInit => FlagInv
  BY DEF TimerInit, FlagInv, RunningInv, StoppedInv, PeriodicInv, Setting,
    PeriodicCloseSucceeds

LEMMA FlagNext == HandleInv /\ FlagInv /\ [Next]_vars => FlagInv'
<1> SUFFICES ASSUME HandleInv, FlagInv, [Next]_vars
             PROVE  FlagInv'
  OBVIOUS
<1>0. /\ pc \in [Tasks -> Locked \cup {"idle", "lock"} \cup Closing]
      /\ op \in [Tasks -> Ops] /\ result \in [Tasks -> {"ok", "invalid_state"}]
      /\ MutexInv /\ OpInv /\ CloseAlone /\ DisabledInv
      /\ fsm \in {"init", "enable", "run"}
      /\ NoTask \notin Tasks
  BY TimerAssumption DEF HandleInv, TimerTypeOK, Closing, Locked
<1> USE <1>0
    DEF FlagInv, RunningInv, StoppedInv, PeriodicInv, Setting,
        PeriodicCloseSucceeds, MutexInv, OpInv, CloseAlone, DisabledInv,
        Closing, Locked, Ops, mutex, handle, driver, handler, At, Goto,
        Finish, Unlock
<1>1. ASSUME NEW t \in Tasks, NEW o \in Ops, Call(t, o)
      PROVE  FlagInv'
  BY <1>1 DEF Call
<1>2. ASSUME NEW t \in Tasks, Lock(t)
      PROVE  FlagInv'
  BY <1>2 DEF Lock
<1>3. ASSUME NEW t \in Tasks, SetClosing(t)
      PROVE  FlagInv'
  BY <1>3 DEF SetClosing
<1>4. ASSUME NEW t \in Tasks, Check(t)
      PROVE  FlagInv'
  BY <1>4 DEF Check
<1>5. ASSUME NEW t \in Tasks, Wait(t)
      PROVE  FlagInv'
  BY <1>5 DEF Wait
<1>6. ASSUME NEW t \in Tasks, Write(t)
      PROVE  FlagInv'
  BY <1>6 DEF Write
<1>7. ASSUME NEW t \in Tasks, StartHardware(t)
      PROVE  FlagInv'
  BY <1>7 DEF StartHardware
<1>8. ASSUME NEW t \in Tasks, StopHardware(t)
      PROVE  FlagInv'
  BY <1>8 DEF StopHardware
<1>9. ASSUME NEW t \in Tasks, SetStarted(t)
      PROVE  FlagInv'
  <2>1. started' <=> op[t] = "start"
    BY <1>9, Zenon DEF SetStarted
  <2>2. /\ pc[t] = "flag" /\ UNCHANGED <<periodic, fsm, isr, op>>
        /\ \/ op[t] = "start" /\ pc' = [pc EXCEPT ![t] = "idle"]
              /\ result' = [result EXCEPT ![t] = "ok"]
           \/ /\ op[t] = "stop" /\ pc' = [pc EXCEPT ![t] = "drain"]
              /\ result' = result
           \/ /\ op[t] = "close" /\ pc' = [pc EXCEPT ![t] = "disable"]
              /\ result' = result
    BY <1>9 DEF SetStarted
  <2>3. lock = t /\ \A u \in Tasks : u # t => pc[u] # "flag" /\ pc[u] # "disable"
    BY <2>2
  <2>4. RunningInv' /\ StoppedInv' /\ PeriodicCloseSucceeds'
    BY <2>1, <2>2, <2>3
  <2>5. PeriodicInv'
    BY <2>1, <2>2, <2>3
  <2> QED
    BY <2>4, <2>5
<1>10. ASSUME NEW t \in Tasks, Drain(t)
       PROVE  FlagInv'
  BY <1>10 DEF Drain
<1>11. ASSUME NEW t \in Tasks, Disable(t)
       PROVE  FlagInv'
  BY <1>11 DEF Disable
<1>12. ASSUME NEW t \in Tasks, CloseWait(t)
       PROVE  FlagInv'
  BY <1>12 DEF CloseWait
<1>13. ASSUME NEW t \in Tasks, Delete(t)
       PROVE  FlagInv'
  BY <1>13 DEF Delete
<1>14. CASE Open
  BY <1>14 DEF Open
<1>15. CASE Alarm
  BY <1>15 DEF Alarm
<1>16. CASE IsrEnter
  <2>1. (periodic' <=> periodic) /\ UNCHANGED <<fsm, op, pc, result>>
    BY <1>16 DEF IsrEnter
  <2>2. isr = "none" /\ (closing => isr' = isr /\ (started' <=> started))
    BY <1>16 DEF IsrEnter
  <2>3. ~closing => (started' <=> started /\ periodic)
    BY <1>16, Zenon DEF IsrEnter
  <2>4. ~closing => isr' = IF periodic THEN "call" ELSE "stop"
    BY <1>16, Zenon DEF IsrEnter
  <2>5. RunningInv' /\ StoppedInv' /\ PeriodicCloseSucceeds'
    BY <2>1, <2>2, <2>3, <2>4
  <2>6. PeriodicInv'
    BY <2>1, <2>2, <2>3, <2>4
  <2> QED
    BY <2>5, <2>6
<1>17. CASE IsrStop
  BY <1>17 DEF IsrStop
<1>18. CASE IsrCall
  BY <1>18 DEF IsrCall
<1>19. CASE IsrLeave
  BY <1>19 DEF IsrLeave
<1>20. CASE UNCHANGED vars
  BY <1>20 DEF vars
<1> QED
  BY <1>1, <1>2, <1>3, <1>4, <1>5, <1>6, <1>7, <1>8, <1>9, <1>10, <1>11,
     <1>12, <1>13, <1>14, <1>15, <1>16, <1>17, <1>18, <1>19, <1>20
  DEF Next, InCall, Interrupt

THEOREM TimerFlagAgrees == TimerSpec => []TimerInv
<1>1. HandleInv /\ FlagInv => TimerInv
  BY TimerAssumption
  DEF HandleInv, FlagInv, TimerInv, RunningIsStarted, PeriodicStartedIsRunning,
    Quiet, RunningInv, PeriodicInv, Setting, MutexInv, Locked, TimerTypeOK
<1> QED
  BY <1>1, HandleInit, HandleNext, FlagInit, FlagNext, PTL DEF TimerSpec

(* close does not fail on a periodic timer, whichever call and alarm came  *)
(* before it.                                                              *)
THEOREM TimerPeriodicCloseSucceeds == TimerSpec => []PeriodicCloseSucceeds
<1>1. FlagInv => PeriodicCloseSucceeds
  BY DEF FlagInv
<1> QED
  BY <1>1, HandleInit, HandleNext, FlagInit, FlagNext, PTL DEF TimerSpec

-----------------------------------------------------------------------------
(* set_callback against the handler. As long as no call took the lock      *)
(* before a latched alarm was taken, a call that has found the timer not   *)
(* started cannot meet an alarm any more: none is latched and, once the    *)
(* handler that is still inside has left, none can be raised.              *)
NoAlarm == ~InterruptWaits /\ ~(fsm = "run" /\ armed)

AlarmInv ==
  ~late =>
    /\ InterruptWaits /\ ~periodic => ~armed
    /\ isr = "stop" => ~armed
    /\ \A t \in Tasks :
         /\ pc[t] = "check" /\ op[t] \in {"start", "configure"} /\ ~started
              => NoAlarm
         /\ pc[t] = "wait" => NoAlarm
         /\ pc[t] = "write" \/ (pc[t] = "hw" /\ op[t] = "start")
              => NoAlarm /\ isr = "none"

LEMMA AlarmInit == TimerInit => AlarmInv
  BY DEF TimerInit, AlarmInv, InterruptWaits, NoAlarm

LEMMA AlarmNext ==
  HandleInv /\ FlagInv /\ AlarmInv /\ [Next]_vars => AlarmInv'
<1> SUFFICES ASSUME HandleInv, FlagInv, AlarmInv, [Next]_vars, ~late'
             PROVE  AlarmInv'
  BY DEF AlarmInv
<1>0. /\ pc \in [Tasks -> Locked \cup {"idle", "lock"} \cup Closing]
      /\ op \in [Tasks -> Ops] /\ MutexInv /\ OpInv
      /\ fsm = "init" <=> freed \/ \E t \in Tasks : pc[t] \in Closing
      /\ freed => isr = "none" /\ \A t \in Tasks : pc[t] = "idle"
      /\ active = IF isr = "none" THEN 0 ELSE 1
      /\ RunningInv /\ NoTask \notin Tasks
  BY TimerAssumption
  DEF HandleInv, TimerTypeOK, Closing, Locked, DisabledInv, FlagInv,
    ActiveCountsHandler
<1> USE <1>0
    DEF AlarmInv, NoAlarm, InterruptWaits, MutexInv, OpInv, RunningInv, Setting,
        Closing, Locked, Ops, mutex, handle, driver, handler, At, Goto,
        Finish, Unlock
<1>1. ASSUME NEW t \in Tasks, NEW o \in Ops, Call(t, o)
      PROVE  AlarmInv'
  BY <1>1 DEF Call
<1>2. ASSUME NEW t \in Tasks, Lock(t)
      PROVE  AlarmInv'
  BY <1>2 DEF Lock
<1>3. ASSUME NEW t \in Tasks, SetClosing(t)
      PROVE  AlarmInv'
  BY <1>3 DEF SetClosing
<1>4. ASSUME NEW t \in Tasks, Check(t)
      PROVE  AlarmInv'
  BY <1>4 DEF Check
<1>5. ASSUME NEW t \in Tasks, Wait(t)
      PROVE  AlarmInv'
  BY <1>5 DEF Wait
<1>6. ASSUME NEW t \in Tasks, Write(t)
      PROVE  AlarmInv'
  BY <1>6 DEF Write
<1>7. ASSUME NEW t \in Tasks, StartHardware(t)
      PROVE  AlarmInv'
  BY <1>7 DEF StartHardware
<1>8. ASSUME NEW t \in Tasks, StopHardware(t)
      PROVE  AlarmInv'
  BY <1>8 DEF StopHardware
<1>9. ASSUME NEW t \in Tasks, SetStarted(t)
      PROVE  AlarmInv'
  BY <1>9 DEF SetStarted
<1>10. ASSUME NEW t \in Tasks, Drain(t)
       PROVE  AlarmInv'
  BY <1>10 DEF Drain
<1>11. ASSUME NEW t \in Tasks, Disable(t)
       PROVE  AlarmInv'
  BY <1>11 DEF Disable
<1>12. ASSUME NEW t \in Tasks, CloseWait(t)
       PROVE  AlarmInv'
  BY <1>12 DEF CloseWait
<1>13. ASSUME NEW t \in Tasks, Delete(t)
       PROVE  AlarmInv'
  BY <1>13 DEF Delete
<1>14. CASE Open
  BY <1>14 DEF Open
<1>15. CASE Alarm
  BY <1>15 DEF Alarm
<1>16. CASE IsrEnter
  <2>1. /\ isr = "none" /\ pending' = FALSE
        /\ UNCHANGED <<fsm, armed, pc, op>> /\ (periodic' <=> periodic)
    BY <1>16 DEF IsrEnter
  <2>2. isr' \in {"none", "call", "stop"} /\ (isr' = "stop" => ~periodic)
    BY <1>16 DEF IsrEnter
  <2>3. started' => started
    BY <1>16, Zenon DEF IsrEnter
  <2>4. ~late /\ InterruptWaits
    BY <1>16 DEF IsrEnter
  <2>5. \/ isr' = isr /\ (started' <=> started)
        \/ started' <=> started /\ periodic
    BY <1>16, Zenon DEF IsrEnter
  <2> QED
    BY <2>1, <2>2, <2>3, <2>4, <2>5
<1>17. CASE IsrStop
  BY <1>17 DEF IsrStop
<1>18. CASE IsrCall
  BY <1>18 DEF IsrCall
<1>19. CASE IsrLeave
  BY <1>19 DEF IsrLeave
<1>20. CASE UNCHANGED vars
  BY <1>20 DEF vars
<1> QED
  BY <1>1, <1>2, <1>3, <1>4, <1>5, <1>6, <1>7, <1>8, <1>9, <1>10, <1>11,
     <1>12, <1>13, <1>14, <1>15, <1>16, <1>17, <1>18, <1>19, <1>20
  DEF Next, InCall, Interrupt

(* set_callback never replaces a callback under the handler that uses it,  *)
(* unless a call on this handle has overtaken a latched alarm.             *)
THEOREM TimerNoCallbackChangeUnderHandler ==
  TimerSpec => NoCallbackChangeUnderHandler
<1>1. AlarmInv /\ [Next]_vars =>
        [callback' # callback /\ ~freed /\ ~late => isr = "none"]_vars
  <2> SUFFICES ASSUME AlarmInv, Next, callback' # callback, ~freed, ~late
               PROVE  isr = "none"
    OBVIOUS
  <2>1. \A t \in Tasks : pc[t] = "write" => isr = "none"
    BY DEF AlarmInv
  <2>2. ASSUME NEW t \in Tasks, InCall(t), ~Write(t)
        PROVE  callback' = callback
    BY <2>2
    DEF InCall, SetClosing, Check, Wait, StartHardware, StopHardware,
      SetStarted, Drain, Disable, CloseWait, Delete, handle
  <2>3. ASSUME NEW t \in Tasks, \/ \E o \in Ops : Call(t, o)
                                \/ Lock(t)
        PROVE  callback' = callback
    BY <2>3 DEF Call, Lock, handle
  <2>4. ASSUME Open \/ Alarm \/ Interrupt
        PROVE  callback' = callback
    BY <2>4
    DEF Open, Alarm, Interrupt, IsrEnter, IsrStop, IsrCall, IsrLeave, handle
  <2>5. PICK t \in Tasks : Write(t)
    BY <2>2, <2>3, <2>4 DEF Next
  <2> QED
    BY <2>1, <2>5 DEF Write, At
<1> QED
  BY <1>1, HandleInit, HandleNext, FlagInit, FlagNext, AlarmInit, AlarmNext, PTL
  DEF TimerSpec, NoCallbackChangeUnderHandler
=============================================================================
