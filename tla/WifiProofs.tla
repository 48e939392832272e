----------------------------- MODULE WifiProofs ------------------------------
(* Proofs about Wifi, for any number of tasks, calls, driver events and    *)
(* limits of retries.                                                      *)
EXTENDS Wifi, TLAPS

HandleSet ==
  [connected : BOOLEAN, closing : BOOLEAN, manual : BOOLEAN, ever : BOOLEAN,
   inProgress : BOOLEAN, waiting : BOOLEAN, retries : Nat,
   limit : RetryLimits]
HandlerSet ==
  [at : {"idle", "lost", "got_ip", "callback"}, retry : BOOLEAN,
   closing : BOOLEAN]
WorkerAt == {"take", "check", "delay", "failed", "exited"} \cup Attempting

FieldsInv ==
  /\ w \in HandleSet /\ handler \in HandlerSet
  /\ w.retries <= (IF w.limit = Forever THEN 0 ELSE w.limit)
PlacesInv ==
  /\ bits \subseteq {"connected", "fail", "done", "exited"}
  /\ pc \in [Tasks -> TaskSteps] /\ worker \in WorkerAt
QueueInv ==
  /\ link \in {"off", "down", "joining", "up"}
  /\ queue \in Seq({"lost", "got_ip"}) /\ Len(queue) <= QueueCap
SwitchInv == {notified, freed, overlapped, caught, excused} \subseteq BOOLEAN
TypeInv == FieldsInv /\ PlacesInv /\ QueueInv /\ SwitchInv

LEMMA TypeInit == WifiInit => TypeInv
<1> SUFFICES ASSUME WifiInit
             PROVE  TypeInv
  OBVIOUS
<1>1. w \in HandleSet /\ handler \in HandlerSet /\ w.retries = 0
  BY DEF WifiInit, Opened, Idle, HandleSet, HandlerSet
<1>2. FieldsInv
  <2>1. w.limit # Forever => w.limit \in Nat
    BY <1>1, WifiAssumption DEF HandleSet
  <2> QED
    BY <1>1, <2>1 DEF FieldsInv
<1>3. PlacesInv
  BY DEF WifiInit, PlacesInv, WorkerAt, TaskSteps
<1>4. QueueInv
  BY WifiAssumption DEF WifiInit, QueueInv
<1>5. SwitchInv
  BY Zenon DEF WifiInit, SwitchInv
<1> QED
  BY <1>2, <1>3, <1>4, <1>5 DEF TypeInv

LEMMA FieldsNext == FieldsInv /\ [WifiNext]_wifiVars => FieldsInv'
<1> SUFFICES ASSUME FieldsInv, [WifiNext]_wifiVars
             PROVE  FieldsInv'
  OBVIOUS
<1> USE DEF FieldsInv, HandleSet, HandlerSet, Idle
<1>1. ASSUME NEW t \in Tasks, ConnectBegin(t)
      PROVE  FieldsInv'
  BY <1>1 DEF ConnectBegin, MayConnect, MayCall
<1>2. ASSUME NEW t \in Tasks, ConnectRecheck(t)
      PROVE  FieldsInv'
  BY <1>2 DEF ConnectRecheck, AbortDelay
<1>3. ASSUME NEW t \in Tasks, ConnectLaunch(t)
      PROVE  FieldsInv'
  BY <1>3 DEF ConnectLaunch
<1>4. ASSUME NEW t \in Tasks, ConnectWait(t)
      PROVE  FieldsInv'
  BY <1>4 DEF ConnectWait
<1>5. ASSUME NEW t \in Tasks, ConnectTimeout(t)
      PROVE  FieldsInv'
  BY <1>5 DEF ConnectTimeout
<1>6. ASSUME NEW t \in Tasks, ConnectGiveUp(t)
      PROVE  FieldsInv'
  BY <1>6 DEF ConnectGiveUp
<1>7. ASSUME NEW t \in Tasks, FinishFlag(t)
      PROVE  FieldsInv'
  BY <1>7 DEF FinishFlag
<1>8. ASSUME NEW t \in Tasks, FinishBit(t)
      PROVE  FieldsInv'
  BY <1>8 DEF FinishBit
<1>9. ASSUME NEW t \in Tasks, Disconnect(t)
      PROVE  FieldsInv'
  BY <1>9 DEF Disconnect, MayConnect, MayCall
<1>10. ASSUME NEW t \in Tasks, Drop(t)
       PROVE  FieldsInv'
  BY <1>10 DEF Drop, AbortDelay, RadioDisconnect
<1>11. ASSUME NEW t \in Tasks, CloseBegin(t)
       PROVE  FieldsInv'
  BY <1>11 DEF CloseBegin, MayCall
<1>12. ASSUME NEW t \in Tasks, CloseFailConnect(t)
       PROVE  FieldsInv'
  BY <1>12 DEF CloseFailConnect, SetBit
<1>13. ASSUME NEW t \in Tasks, CloseJoinConnect(t)
       PROVE  FieldsInv'
  BY <1>13 DEF CloseJoinConnect
<1>14. ASSUME NEW t \in Tasks, CloseStopWorker(t)
       PROVE  FieldsInv'
  BY <1>14 DEF CloseStopWorker, AbortDelay
<1>15. ASSUME NEW t \in Tasks, CloseJoinWorker(t)
       PROVE  FieldsInv'
  BY <1>15 DEF CloseJoinWorker, RadioDisconnect
<1>16. ASSUME NEW t \in Tasks, CloseFree(t)
       PROVE  FieldsInv'
  BY <1>16 DEF CloseFree
<1>17. CASE Open
  <2>1. PICK limit \in RetryLimits : w' = Opened(limit)
    BY <1>17 DEF Open
  <2>2. handler' = Idle /\ (limit # Forever => limit \in Nat)
    BY <1>17, WifiAssumption DEF Open
  <2> QED
    BY <2>1, <2>2 DEF Opened
<1>18. CASE WorkerTake
  BY <1>18 DEF WorkerTake
<1>19. CASE WorkerCheck
  BY <1>19 DEF WorkerCheck
<1>20. CASE WorkerAttempt
  <2>1. handler' = handler /\ w.limit \in RetryLimits
    BY <1>20 DEF WorkerAttempt
  <2>2. CASE w' = w
    BY <2>1, <2>2
  <2>3. CASE w' # w
    <3>1. RetryAllowed(w) /\ w' = [w EXCEPT !.inProgress = TRUE,
            !.retries = IF w.limit = Forever THEN 0 ELSE w.retries + 1]
      BY <1>20, <2>3 DEF WorkerAttempt
    <3>2. /\ w'.limit = w.limit
          /\ w'.retries = IF w.limit = Forever THEN 0 ELSE w.retries + 1
      BY <3>1
    <3>3. w.limit # Forever => w.limit \in Nat /\ w.retries + 1 <= w.limit
      BY <2>1, <3>1, WifiAssumption DEF RetryAllowed
    <3>4. w' \in HandleSet
      <4> DEFINE r == IF w.limit = Forever THEN 0 ELSE w.retries + 1
      <4>1. w' = [w EXCEPT !.inProgress = TRUE, !.retries = r]
        BY <3>1
      <4>2. r \in Nat
        OBVIOUS
      <4> HIDE DEF r
      <4> QED
        BY <4>1, <4>2
    <3>5. w'.retries <= (IF w'.limit = Forever THEN 0 ELSE w'.limit)
      BY <3>2, <3>3
    <3> QED
      BY <2>1, <3>4, <3>5
  <2> QED
    BY <2>2, <2>3
<1>21. CASE WorkerGoesOn
  BY <1>21 DEF WorkerGoesOn
<1>22. CASE WorkerLaunch
  BY <1>22 DEF WorkerLaunch
<1>23. CASE WorkerFailed
  BY <1>23 DEF WorkerFailed
<1>24. CASE HandleLost
  BY <1>24 DEF HandleLost, Lost
<1>25. CASE HandleGotIp
  <2>1. /\ w' = [w EXCEPT !.connected = TRUE, !.ever = TRUE,
                          !.inProgress = FALSE, !.retries = 0]
        /\ handler' = [Idle EXCEPT !.at = "got_ip"]
    BY <1>25 DEF HandleGotIp
  <2>2. w'.retries = 0 /\ w'.limit = w.limit /\ handler' \in HandlerSet
    BY <2>1
  <2>3. w.limit # Forever => w.limit \in Nat
    BY WifiAssumption
  <2>4. w' \in HandleSet
    BY <2>1
  <2>5. w'.retries <= (IF w'.limit = Forever THEN 0 ELSE w'.limit)
    BY <2>2, <2>3
  <2> QED
    BY <2>2, <2>4, <2>5
<1>26. CASE HandlerSignals
  BY <1>26 DEF HandlerSignals, SetBit
<1>27. CASE HandlerNotifies
  BY <1>27 DEF HandlerNotifies
<1>28. CASE RadioAnswers
  BY <1>28 DEF RadioAnswers
<1>29. CASE LinkLost
  BY <1>29 DEF LinkLost
<1>30. CASE UNCHANGED wifiVars
  BY <1>30 DEF wifiVars
<1> QED
  BY <1>1, <1>2, <1>3, <1>4, <1>5, <1>6, <1>7, <1>8, <1>9, <1>10, <1>11,
     <1>12, <1>13, <1>14, <1>15, <1>16, <1>17, <1>18, <1>19, <1>20, <1>21,
     <1>22, <1>23, <1>24, <1>25, <1>26, <1>27, <1>28, <1>29, <1>30
  DEF WifiNext, Calls, Proceeds, Worker, Handler

LEMMA PlacesNext == PlacesInv /\ [WifiNext]_wifiVars => PlacesInv'
<1> SUFFICES ASSUME PlacesInv, [WifiNext]_wifiVars
             PROVE  PlacesInv'
  OBVIOUS
<1> USE DEF PlacesInv, WorkerAt, Attempting, TaskSteps, InConnect
<1>1. ASSUME NEW t \in Tasks, ConnectBegin(t)
      PROVE  PlacesInv'
  BY <1>1 DEF ConnectBegin, MayConnect, MayCall
<1>2. ASSUME NEW t \in Tasks, ConnectRecheck(t)
      PROVE  PlacesInv'
  BY <1>2 DEF ConnectRecheck, AbortDelay
<1>3. ASSUME NEW t \in Tasks, ConnectLaunch(t)
      PROVE  PlacesInv'
  BY <1>3 DEF ConnectLaunch
<1>4. ASSUME NEW t \in Tasks, ConnectWait(t)
      PROVE  PlacesInv'
  BY <1>4 DEF ConnectWait
<1>5. ASSUME NEW t \in Tasks, ConnectTimeout(t)
      PROVE  PlacesInv'
  BY <1>5 DEF ConnectTimeout
<1>6. ASSUME NEW t \in Tasks, ConnectGiveUp(t)
      PROVE  PlacesInv'
  BY <1>6 DEF ConnectGiveUp
<1>7. ASSUME NEW t \in Tasks, FinishFlag(t)
      PROVE  PlacesInv'
  BY <1>7 DEF FinishFlag
<1>8. ASSUME NEW t \in Tasks, FinishBit(t)
      PROVE  PlacesInv'
  BY <1>8 DEF FinishBit
<1>9. ASSUME NEW t \in Tasks, Disconnect(t)
      PROVE  PlacesInv'
  BY <1>9 DEF Disconnect, MayConnect, MayCall
<1>10. ASSUME NEW t \in Tasks, Drop(t)
       PROVE  PlacesInv'
  BY <1>10 DEF Drop, AbortDelay, RadioDisconnect
<1>11. ASSUME NEW t \in Tasks, CloseBegin(t)
       PROVE  PlacesInv'
  BY <1>11 DEF CloseBegin, MayCall
<1>12. ASSUME NEW t \in Tasks, CloseFailConnect(t)
       PROVE  PlacesInv'
  BY <1>12 DEF CloseFailConnect, SetBit
<1>13. ASSUME NEW t \in Tasks, CloseJoinConnect(t)
       PROVE  PlacesInv'
  BY <1>13 DEF CloseJoinConnect
<1>14. ASSUME NEW t \in Tasks, CloseStopWorker(t)
       PROVE  PlacesInv'
  BY <1>14 DEF CloseStopWorker, AbortDelay
<1>15. ASSUME NEW t \in Tasks, CloseJoinWorker(t)
       PROVE  PlacesInv'
  BY <1>15 DEF CloseJoinWorker, RadioDisconnect
<1>16. ASSUME NEW t \in Tasks, CloseFree(t)
       PROVE  PlacesInv'
  BY <1>16 DEF CloseFree
<1>17. CASE Open
  BY <1>17 DEF Open, Opened
<1>18. CASE WorkerTake
  BY <1>18 DEF WorkerTake
<1>19. CASE WorkerCheck
  BY <1>19 DEF WorkerCheck
<1>20. CASE WorkerAttempt
  BY <1>20 DEF WorkerAttempt
<1>21. CASE WorkerGoesOn
  BY <1>21 DEF WorkerGoesOn
<1>22. CASE WorkerLaunch
  BY <1>22 DEF WorkerLaunch
<1>23. CASE WorkerFailed
  BY <1>23 DEF WorkerFailed
<1>24. CASE HandleLost
  BY <1>24 DEF HandleLost, Lost
<1>25. CASE HandleGotIp
  BY <1>25 DEF HandleGotIp
<1>26. CASE HandlerSignals
  BY <1>26 DEF HandlerSignals, SetBit
<1>27. CASE HandlerNotifies
  BY <1>27 DEF HandlerNotifies
<1>28. CASE RadioAnswers
  BY <1>28 DEF RadioAnswers
<1>29. CASE LinkLost
  BY <1>29 DEF LinkLost
<1>30. CASE UNCHANGED wifiVars
  BY <1>30 DEF wifiVars
<1> QED
  BY <1>1, <1>2, <1>3, <1>4, <1>5, <1>6, <1>7, <1>8, <1>9, <1>10, <1>11,
     <1>12, <1>13, <1>14, <1>15, <1>16, <1>17, <1>18, <1>19, <1>20, <1>21,
     <1>22, <1>23, <1>24, <1>25, <1>26, <1>27, <1>28, <1>29, <1>30
  DEF WifiNext, Calls, Proceeds, Worker, Handler

LEMMA QueueNext == QueueInv /\ [WifiNext]_wifiVars => QueueInv'
<1> SUFFICES ASSUME QueueInv, [WifiNext]_wifiVars
             PROVE  QueueInv'
  OBVIOUS
<1> USE WifiAssumption DEF QueueInv, radioVars
<1>0. RadioDisconnect => QueueInv'
  BY DEF RadioDisconnect
<1>1. ASSUME NEW t \in Tasks, ConnectBegin(t)
      PROVE  QueueInv'
  BY <1>1 DEF ConnectBegin, MayConnect, MayCall
<1>2. ASSUME NEW t \in Tasks, ConnectRecheck(t)
      PROVE  QueueInv'
  BY <1>2 DEF ConnectRecheck, AbortDelay
<1>3. ASSUME NEW t \in Tasks, ConnectLaunch(t)
      PROVE  QueueInv'
  BY <1>3 DEF ConnectLaunch
<1>4. ASSUME NEW t \in Tasks, ConnectWait(t)
      PROVE  QueueInv'
  BY <1>4 DEF ConnectWait
<1>5. ASSUME NEW t \in Tasks, ConnectTimeout(t)
      PROVE  QueueInv'
  BY <1>5 DEF ConnectTimeout
<1>6. ASSUME NEW t \in Tasks, ConnectGiveUp(t)
      PROVE  QueueInv'
  BY <1>6 DEF ConnectGiveUp
<1>7. ASSUME NEW t \in Tasks, FinishFlag(t)
      PROVE  QueueInv'
  BY <1>7 DEF FinishFlag
<1>8. ASSUME NEW t \in Tasks, FinishBit(t)
      PROVE  QueueInv'
  BY <1>8 DEF FinishBit
<1>9. ASSUME NEW t \in Tasks, Disconnect(t)
      PROVE  QueueInv'
  BY <1>9 DEF Disconnect, MayConnect, MayCall
<1>10. ASSUME NEW t \in Tasks, Drop(t)
       PROVE  QueueInv'
  BY <1>0, <1>10 DEF Drop
<1>11. ASSUME NEW t \in Tasks, CloseBegin(t)
       PROVE  QueueInv'
  BY <1>11 DEF CloseBegin, MayCall
<1>12. ASSUME NEW t \in Tasks, CloseFailConnect(t)
       PROVE  QueueInv'
  BY <1>12 DEF CloseFailConnect, SetBit
<1>13. ASSUME NEW t \in Tasks, CloseJoinConnect(t)
       PROVE  QueueInv'
  BY <1>13 DEF CloseJoinConnect
<1>14. ASSUME NEW t \in Tasks, CloseStopWorker(t)
       PROVE  QueueInv'
  BY <1>14 DEF CloseStopWorker, AbortDelay
<1>15. ASSUME NEW t \in Tasks, CloseJoinWorker(t)
       PROVE  QueueInv'
  BY <1>0, <1>15 DEF CloseJoinWorker
<1>16. ASSUME NEW t \in Tasks, CloseFree(t)
       PROVE  QueueInv'
  BY <1>16 DEF CloseFree
<1>17. CASE Open
  BY <1>17 DEF Open, Opened
<1>18. CASE WorkerTake
  BY <1>18 DEF WorkerTake
<1>19. CASE WorkerCheck
  BY <1>19 DEF WorkerCheck
<1>20. CASE WorkerAttempt
  BY <1>20 DEF WorkerAttempt
<1>21. CASE WorkerGoesOn
  BY <1>21 DEF WorkerGoesOn
<1>22. CASE WorkerLaunch
  BY <1>22 DEF WorkerLaunch
<1>23. CASE WorkerFailed
  BY <1>23 DEF WorkerFailed
<1>24. CASE HandleLost
  BY <1>24 DEF HandleLost, Lost
<1>25. CASE HandleGotIp
  BY <1>25 DEF HandleGotIp
<1>26. CASE HandlerSignals
  BY <1>26 DEF HandlerSignals, SetBit
<1>27. CASE HandlerNotifies
  BY <1>27 DEF HandlerNotifies
<1>28. CASE RadioAnswers
  BY <1>28 DEF RadioAnswers
<1>29. CASE LinkLost
  BY <1>29 DEF LinkLost
<1>30. CASE UNCHANGED wifiVars
  BY <1>30 DEF wifiVars
<1> QED
  BY <1>1, <1>2, <1>3, <1>4, <1>5, <1>6, <1>7, <1>8, <1>9, <1>10, <1>11,
     <1>12, <1>13, <1>14, <1>15, <1>16, <1>17, <1>18, <1>19, <1>20, <1>21,
     <1>22, <1>23, <1>24, <1>25, <1>26, <1>27, <1>28, <1>29, <1>30
  DEF WifiNext, Calls, Proceeds, Worker, Handler

LEMMA TypeNext == TypeInv /\ [WifiNext]_wifiVars => TypeInv'
<1> SUFFICES ASSUME TypeInv, [WifiNext]_wifiVars
             PROVE  SwitchInv'
  BY FieldsNext, PlacesNext, QueueNext DEF TypeInv
<1> USE DEF TypeInv, SwitchInv, history
<1>1. ASSUME NEW t \in Tasks, ConnectBegin(t)
      PROVE  SwitchInv'
  BY <1>1 DEF ConnectBegin, MayConnect, MayCall
<1>2. ASSUME NEW t \in Tasks, ConnectRecheck(t)
      PROVE  SwitchInv'
  BY <1>2 DEF ConnectRecheck, AbortDelay
<1>3. ASSUME NEW t \in Tasks, ConnectLaunch(t)
      PROVE  SwitchInv'
  BY <1>3 DEF ConnectLaunch
<1>4. ASSUME NEW t \in Tasks, ConnectWait(t)
      PROVE  SwitchInv'
  BY <1>4 DEF ConnectWait
<1>5. ASSUME NEW t \in Tasks, ConnectTimeout(t)
      PROVE  SwitchInv'
  BY <1>5 DEF ConnectTimeout
<1>6. ASSUME NEW t \in Tasks, ConnectGiveUp(t)
      PROVE  SwitchInv'
  BY <1>6 DEF ConnectGiveUp
<1>7. ASSUME NEW t \in Tasks, FinishFlag(t)
      PROVE  SwitchInv'
  BY <1>7 DEF FinishFlag
<1>8. ASSUME NEW t \in Tasks, FinishBit(t)
      PROVE  SwitchInv'
  BY <1>8 DEF FinishBit
<1>9. ASSUME NEW t \in Tasks, Disconnect(t)
      PROVE  SwitchInv'
  BY <1>9 DEF Disconnect, MayConnect, MayCall
<1>10. ASSUME NEW t \in Tasks, Drop(t)
       PROVE  SwitchInv'
  BY <1>10 DEF Drop, AbortDelay, RadioDisconnect
<1>11. ASSUME NEW t \in Tasks, CloseBegin(t)
       PROVE  SwitchInv'
  BY <1>11, Zenon DEF CloseBegin, MayCall, CatchesCall
<1>12. ASSUME NEW t \in Tasks, CloseFailConnect(t)
       PROVE  SwitchInv'
  BY <1>12 DEF CloseFailConnect, SetBit
<1>13. ASSUME NEW t \in Tasks, CloseJoinConnect(t)
       PROVE  SwitchInv'
  BY <1>13 DEF CloseJoinConnect
<1>14. ASSUME NEW t \in Tasks, CloseStopWorker(t)
       PROVE  SwitchInv'
  BY <1>14 DEF CloseStopWorker, AbortDelay
<1>15. ASSUME NEW t \in Tasks, CloseJoinWorker(t)
       PROVE  SwitchInv'
  BY <1>15 DEF CloseJoinWorker, RadioDisconnect
<1>16. ASSUME NEW t \in Tasks, CloseFree(t)
       PROVE  SwitchInv'
  BY <1>16 DEF CloseFree
<1>17. CASE Open
  BY <1>17 DEF Open, Opened
<1>18. CASE WorkerTake
  BY <1>18 DEF WorkerTake
<1>19. CASE WorkerCheck
  BY <1>19 DEF WorkerCheck
<1>20. CASE WorkerAttempt
  BY <1>20 DEF WorkerAttempt
<1>21. CASE WorkerGoesOn
  BY <1>21 DEF WorkerGoesOn
<1>22. CASE WorkerLaunch
  BY <1>22 DEF WorkerLaunch
<1>23. CASE WorkerFailed
  BY <1>23 DEF WorkerFailed
<1>24. CASE HandleLost
  BY <1>24 DEF HandleLost, Lost
<1>25. CASE HandleGotIp
  BY <1>25 DEF HandleGotIp
<1>26. CASE HandlerSignals
  BY <1>26 DEF HandlerSignals, SetBit
<1>27. CASE HandlerNotifies
  BY <1>27 DEF HandlerNotifies
<1>28. CASE RadioAnswers
  BY <1>28 DEF RadioAnswers
<1>29. CASE LinkLost
  BY <1>29 DEF LinkLost
<1>30. CASE UNCHANGED wifiVars
  BY <1>30 DEF wifiVars
<1> QED
  BY <1>1, <1>2, <1>3, <1>4, <1>5, <1>6, <1>7, <1>8, <1>9, <1>10, <1>11,
     <1>12, <1>13, <1>14, <1>15, <1>16, <1>17, <1>18, <1>19, <1>20, <1>21,
     <1>22, <1>23, <1>24, <1>25, <1>26, <1>27, <1>28, <1>29, <1>30
  DEF WifiNext, Calls, Proceeds, Worker, Handler

-----------------------------------------------------------------------------
(* BUSY. An attempt in progress is in the hands of a task, of the worker   *)
(* or of the radio, whose answer clears the flag; a disconnect or a close  *)
(* clears it at once, and nobody sets it again against them.               *)
BusyInv ==
  w.inProgress =>
    /\ ~w.closing /\ ~w.manual
    /\ \/ \E t \in Tasks : pc[t] \in {"recheck", "launch", "giveup"}
       \/ worker \in Attempting \cup {"failed"}
       \/ link = "joining" \/ queue # << >>

LEMMA BusyInit == WifiInit => BusyInv
  BY DEF WifiInit, Opened, BusyInv

LEMMA BusyNext == TypeInv /\ BusyInv /\ [WifiNext]_wifiVars => BusyInv'
<1> SUFFICES ASSUME TypeInv, BusyInv, [WifiNext]_wifiVars
             PROVE  BusyInv'
  OBVIOUS
<1>0. /\ w \in HandleSet /\ pc \in [Tasks -> TaskSteps] /\ worker \in WorkerAt
      /\ queue \in Seq({"lost", "got_ip"})
      /\ link \in {"off", "down", "joining", "up"}
  BY DEF TypeInv, FieldsInv, PlacesInv, QueueInv
<1> USE <1>0 DEF BusyInv, HandleSet, Attempting, WorkerAt, radioVars,
                 RetryAllowed
<1>1. ASSUME NEW t \in Tasks, ConnectBegin(t)
      PROVE  BusyInv'
  BY <1>1 DEF ConnectBegin, MayConnect, MayCall
<1>2. ASSUME NEW t \in Tasks, ConnectRecheck(t)
      PROVE  BusyInv'
  BY <1>2 DEF ConnectRecheck, AbortDelay
<1>3. ASSUME NEW t \in Tasks, ConnectLaunch(t)
      PROVE  BusyInv'
  BY <1>3 DEF ConnectLaunch
<1>4. ASSUME NEW t \in Tasks, ConnectWait(t)
      PROVE  BusyInv'
  BY <1>4 DEF ConnectWait
<1>5. ASSUME NEW t \in Tasks, ConnectTimeout(t)
      PROVE  BusyInv'
  BY <1>5 DEF ConnectTimeout
<1>6. ASSUME NEW t \in Tasks, ConnectGiveUp(t)
      PROVE  BusyInv'
  BY <1>6 DEF ConnectGiveUp
<1>7. ASSUME NEW t \in Tasks, FinishFlag(t)
      PROVE  BusyInv'
  BY <1>7 DEF FinishFlag
<1>8. ASSUME NEW t \in Tasks, FinishBit(t)
      PROVE  BusyInv'
  BY <1>8 DEF FinishBit
<1>9. ASSUME NEW t \in Tasks, Disconnect(t)
      PROVE  BusyInv'
  BY <1>9 DEF Disconnect, MayConnect, MayCall
<1>10. ASSUME NEW t \in Tasks, Drop(t)
       PROVE  BusyInv'
  BY <1>10 DEF Drop, AbortDelay, RadioDisconnect
<1>11. ASSUME NEW t \in Tasks, CloseBegin(t)
       PROVE  BusyInv'
  BY <1>11 DEF CloseBegin, MayCall
<1>12. ASSUME NEW t \in Tasks, CloseFailConnect(t)
       PROVE  BusyInv'
  BY <1>12 DEF CloseFailConnect, SetBit
<1>13. ASSUME NEW t \in Tasks, CloseJoinConnect(t)
       PROVE  BusyInv'
  BY <1>13 DEF CloseJoinConnect
<1>14. ASSUME NEW t \in Tasks, CloseStopWorker(t)
       PROVE  BusyInv'
  BY <1>14 DEF CloseStopWorker, AbortDelay
<1>15. ASSUME NEW t \in Tasks, CloseJoinWorker(t)
       PROVE  BusyInv'
  BY <1>15 DEF CloseJoinWorker, RadioDisconnect
<1>16. ASSUME NEW t \in Tasks, CloseFree(t)
       PROVE  BusyInv'
  BY <1>16 DEF CloseFree
<1>17. CASE Open
  BY <1>17 DEF Open, Opened
<1>18. CASE WorkerTake
  BY <1>18 DEF WorkerTake
<1>19. CASE WorkerCheck
  BY <1>19 DEF WorkerCheck
<1>20. CASE WorkerAttempt
  BY <1>20 DEF WorkerAttempt
<1>21. CASE WorkerGoesOn
  BY <1>21 DEF WorkerGoesOn
<1>22. CASE WorkerLaunch
  BY <1>22 DEF WorkerLaunch
<1>23. CASE WorkerFailed
  BY <1>23 DEF WorkerFailed
<1>24. CASE HandleLost
  BY <1>24 DEF HandleLost, Lost
<1>25. CASE HandleGotIp
  BY <1>25 DEF HandleGotIp
<1>26. CASE HandlerSignals
  BY <1>26 DEF HandlerSignals, SetBit
<1>27. CASE HandlerNotifies
  BY <1>27 DEF HandlerNotifies
<1>28. CASE RadioAnswers
  BY <1>28 DEF RadioAnswers
<1>29. CASE LinkLost
  BY <1>29 DEF LinkLost
<1>30. CASE UNCHANGED wifiVars
  BY <1>30 DEF wifiVars
<1> QED
  BY <1>1, <1>2, <1>3, <1>4, <1>5, <1>6, <1>7, <1>8, <1>9, <1>10, <1>11,
     <1>12, <1>13, <1>14, <1>15, <1>16, <1>17, <1>18, <1>19, <1>20, <1>21,
     <1>22, <1>23, <1>24, <1>25, <1>26, <1>27, <1>28, <1>29, <1>30
  DEF WifiNext, Calls, Proceeds, Worker, Handler

-----------------------------------------------------------------------------
(* close. From its first step the handle is closing and no connect can     *)
(* begin; the worker is gone before the radio is stopped. Of connects that *)
(* do not overlap there is one at a time, and the bit that close waits for *)
(* is the one that it sets when it leaves. Unless close caught one there,  *)
(* no connect is between its flag and its bit when close is past its wait, *)
(* and no disconnect is inside once the handle is closing.                 *)
Inside == InConnect \ {"signal"}
ClosingSteps == {"close_connect", "close_join", "close_worker", "close_exit",
                 "close_radio"}

CloseInv ==
  /\ \A t \in Tasks : pc[t] \in ClosingSteps => w.closing /\ ~freed
  /\ \A c, d \in Tasks :
       pc[c] \in ClosingSteps /\ pc[d] \in ClosingSteps => c = d
  /\ freed => /\ w.closing /\ link = "off" /\ queue = << >>
              /\ worker = "exited" /\ handler = Idle
  /\ "exited" \in bits => worker = "exited"
  /\ \A t \in Tasks : pc[t] = "close_radio" => worker = "exited"

ConnectInv ==
  ~overlapped =>
    /\ \A t, u \in Tasks :
         pc[t] \in InConnect /\ pc[u] \in InConnect => t = u
    /\ \A t \in Tasks : pc[t] \in InConnect => "done" \notin bits
    /\ \A t \in Tasks : pc[t] \in Inside =>
         /\ w.waiting /\ ~freed
         /\ \A c \in Tasks :
              pc[c] \notin {"close_worker", "close_exit", "close_radio"}

CaughtInv ==
  ~overlapped /\ ~caught =>
    /\ w.closing => \A t \in Tasks : pc[t] # "drop"
    /\ \A t \in Tasks : pc[t] = "signal" =>
         /\ ~freed
         /\ \A c \in Tasks :
              pc[c] \notin {"close_worker", "close_exit", "close_radio"}

LEMMA CloseInit == WifiInit => CloseInv /\ ConnectInv /\ CaughtInv
  BY DEF WifiInit, Opened, CloseInv, ConnectInv, CaughtInv, ClosingSteps, Inside,
    InConnect

LEMMA CloseNext == TypeInv /\ CloseInv /\ [WifiNext]_wifiVars => CloseInv'
<1> SUFFICES ASSUME TypeInv, CloseInv, [WifiNext]_wifiVars
             PROVE  CloseInv'
  OBVIOUS
<1>0. w \in HandleSet /\ pc \in [Tasks -> TaskSteps]
  BY DEF TypeInv, FieldsInv, PlacesInv
<1> USE <1>0 DEF CloseInv, HandleSet, ClosingSteps, Attempting, radioVars
<1>1. ASSUME NEW t \in Tasks, ConnectBegin(t)
      PROVE  CloseInv'
  BY <1>1 DEF ConnectBegin, MayConnect, MayCall
<1>2. ASSUME NEW t \in Tasks, ConnectRecheck(t)
      PROVE  CloseInv'
  BY <1>2 DEF ConnectRecheck, AbortDelay
<1>3. ASSUME NEW t \in Tasks, ConnectLaunch(t)
      PROVE  CloseInv'
  BY <1>3 DEF ConnectLaunch
<1>4. ASSUME NEW t \in Tasks, ConnectWait(t)
      PROVE  CloseInv'
  BY <1>4 DEF ConnectWait
<1>5. ASSUME NEW t \in Tasks, ConnectTimeout(t)
      PROVE  CloseInv'
  BY <1>5 DEF ConnectTimeout
<1>6. ASSUME NEW t \in Tasks, ConnectGiveUp(t)
      PROVE  CloseInv'
  BY <1>6 DEF ConnectGiveUp
<1>7. ASSUME NEW t \in Tasks, FinishFlag(t)
      PROVE  CloseInv'
  BY <1>7 DEF FinishFlag
<1>8. ASSUME NEW t \in Tasks, FinishBit(t)
      PROVE  CloseInv'
  BY <1>8 DEF FinishBit
<1>9. ASSUME NEW t \in Tasks, Disconnect(t)
      PROVE  CloseInv'
  BY <1>9 DEF Disconnect, MayConnect, MayCall
<1>10. ASSUME NEW t \in Tasks, Drop(t)
       PROVE  CloseInv'
  BY <1>10 DEF Drop, AbortDelay, RadioDisconnect
<1>11. ASSUME NEW t \in Tasks, CloseBegin(t)
       PROVE  CloseInv'
  BY <1>11 DEF CloseBegin, MayCall
<1>12. ASSUME NEW t \in Tasks, CloseFailConnect(t)
       PROVE  CloseInv'
  BY <1>12 DEF CloseFailConnect, SetBit
<1>13. ASSUME NEW t \in Tasks, CloseJoinConnect(t)
       PROVE  CloseInv'
  BY <1>13 DEF CloseJoinConnect
<1>14. ASSUME NEW t \in Tasks, CloseStopWorker(t)
       PROVE  CloseInv'
  BY <1>14 DEF CloseStopWorker, AbortDelay
<1>15. ASSUME NEW t \in Tasks, CloseJoinWorker(t)
       PROVE  CloseInv'
  BY <1>15 DEF CloseJoinWorker, RadioDisconnect
<1>16. ASSUME NEW t \in Tasks, CloseFree(t)
       PROVE  CloseInv'
  BY <1>16 DEF CloseFree
<1>17. CASE Open
  BY <1>17 DEF Open, Opened
<1>18. CASE WorkerTake
  BY <1>18 DEF WorkerTake
<1>19. CASE WorkerCheck
  BY <1>19 DEF WorkerCheck
<1>20. CASE WorkerAttempt
  BY <1>20 DEF WorkerAttempt
<1>21. CASE WorkerGoesOn
  BY <1>21 DEF WorkerGoesOn
<1>22. CASE WorkerLaunch
  BY <1>22 DEF WorkerLaunch
<1>23. CASE WorkerFailed
  BY <1>23 DEF WorkerFailed
<1>24. CASE HandleLost
  BY <1>24 DEF HandleLost, Lost
<1>25. CASE HandleGotIp
  BY <1>25 DEF HandleGotIp
<1>26. CASE HandlerSignals
  <2>1. /\ UNCHANGED <<w, freed, link, queue, worker>>
        /\ bits' \subseteq bits \cup {"fail", "connected"}
        /\ pc' = [t \in Tasks |->
                   IF pc[t] = "blocked" THEN "finish" ELSE pc[t]]
    BY <1>26 DEF HandlerSignals, SetBit
  <2>2. \A t \in Tasks : pc'[t] = pc[t] \/ pc'[t] = "finish"
    BY <2>1
  <2>3. ~freed
    BY <1>26 DEF HandlerSignals, Idle
  <2>4. "exited" \in bits' => "exited" \in bits
    BY <2>1
  <2> QED
    BY <2>1, <2>2, <2>3, <2>4
<1>27. CASE HandlerNotifies
  BY <1>27 DEF HandlerNotifies
<1>28. CASE RadioAnswers
  BY <1>28 DEF RadioAnswers
<1>29. CASE LinkLost
  BY <1>29 DEF LinkLost
<1>30. CASE UNCHANGED wifiVars
  BY <1>30 DEF wifiVars
<1> QED
  BY <1>1, <1>2, <1>3, <1>4, <1>5, <1>6, <1>7, <1>8, <1>9, <1>10, <1>11,
     <1>12, <1>13, <1>14, <1>15, <1>16, <1>17, <1>18, <1>19, <1>20, <1>21,
     <1>22, <1>23, <1>24, <1>25, <1>26, <1>27, <1>28, <1>29, <1>30
  DEF WifiNext, Calls, Proceeds, Worker, Handler

LEMMA ConnectNext ==
  TypeInv /\ CloseInv /\ ConnectInv /\ [WifiNext]_wifiVars => ConnectInv'
<1> SUFFICES ASSUME TypeInv, CloseInv, ConnectInv, [WifiNext]_wifiVars
             PROVE  ConnectInv'
  OBVIOUS
<1>0. /\ w \in HandleSet /\ pc \in [Tasks -> TaskSteps]
      /\ \A t \in Tasks : pc[t] \in ClosingSteps => w.closing
  BY DEF TypeInv, FieldsInv, PlacesInv, CloseInv
<1> USE <1>0 DEF ConnectInv, HandleSet, ClosingSteps, Inside, InConnect,
                 radioVars, history
<1>1. ASSUME NEW t \in Tasks, ConnectBegin(t)
      PROVE  ConnectInv'
  <2>1. CASE overlapped'
    BY <2>1
  <2>2. CASE ~overlapped'
    <3>1. ~overlapped /\ \A u \in Tasks : pc[u] \notin InConnect
      BY <1>1, <2>2 DEF ConnectBegin
    <3>2. pc[t] = "idle" /\ ~freed /\ ~w.closing /\ UNCHANGED freed
      BY <1>1 DEF ConnectBegin, MayConnect, MayCall
    <3> QED BY <1>1, <2>2, <3>1, <3>2 DEF ConnectBegin
  <2> QED BY <2>1, <2>2
<1>2. ASSUME NEW t \in Tasks, ConnectRecheck(t)
      PROVE  ConnectInv'
  BY <1>2 DEF ConnectRecheck, AbortDelay
<1>3. ASSUME NEW t \in Tasks, ConnectLaunch(t)
      PROVE  ConnectInv'
  BY <1>3 DEF ConnectLaunch
<1>4. ASSUME NEW t \in Tasks, ConnectWait(t)
      PROVE  ConnectInv'
  BY <1>4 DEF ConnectWait
<1>5. ASSUME NEW t \in Tasks, ConnectTimeout(t)
      PROVE  ConnectInv'
  BY <1>5 DEF ConnectTimeout
<1>6. ASSUME NEW t \in Tasks, ConnectGiveUp(t)
      PROVE  ConnectInv'
  BY <1>6 DEF ConnectGiveUp
<1>7. ASSUME NEW t \in Tasks, FinishFlag(t)
      PROVE  ConnectInv'
  BY <1>7 DEF FinishFlag
<1>8. ASSUME NEW t \in Tasks, FinishBit(t)
      PROVE  ConnectInv'
  BY <1>8 DEF FinishBit
<1>9. ASSUME NEW t \in Tasks, Disconnect(t)
      PROVE  ConnectInv'
  BY <1>9 DEF Disconnect, MayConnect, MayCall
<1>10. ASSUME NEW t \in Tasks, Drop(t)
       PROVE  ConnectInv'
  BY <1>10 DEF Drop, AbortDelay, RadioDisconnect
<1>11. ASSUME NEW t \in Tasks, CloseBegin(t)
       PROVE  ConnectInv'
  BY <1>11 DEF CloseBegin, MayCall
<1>12. ASSUME NEW t \in Tasks, CloseFailConnect(t)
       PROVE  ConnectInv'
  BY <1>12 DEF CloseFailConnect, SetBit
<1>13. ASSUME NEW t \in Tasks, CloseJoinConnect(t)
       PROVE  ConnectInv'
  BY <1>13 DEF CloseJoinConnect
<1>14. ASSUME NEW t \in Tasks, CloseStopWorker(t)
       PROVE  ConnectInv'
  BY <1>14 DEF CloseStopWorker, AbortDelay
<1>15. ASSUME NEW t \in Tasks, CloseJoinWorker(t)
       PROVE  ConnectInv'
  BY <1>15 DEF CloseJoinWorker, RadioDisconnect
<1>16. ASSUME NEW t \in Tasks, CloseFree(t)
       PROVE  ConnectInv'
  BY <1>16 DEF CloseFree
<1>17. CASE Open
  BY <1>17 DEF Open, Opened
<1>18. CASE WorkerTake
  BY <1>18 DEF WorkerTake
<1>19. CASE WorkerCheck
  BY <1>19 DEF WorkerCheck
<1>20. CASE WorkerAttempt
  BY <1>20 DEF WorkerAttempt
<1>21. CASE WorkerGoesOn
  BY <1>21 DEF WorkerGoesOn
<1>22. CASE WorkerLaunch
  BY <1>22 DEF WorkerLaunch
<1>23. CASE WorkerFailed
  BY <1>23 DEF WorkerFailed
<1>24. CASE HandleLost
  BY <1>24 DEF HandleLost, Lost
<1>25. CASE HandleGotIp
  BY <1>25 DEF HandleGotIp
<1>26. CASE HandlerSignals
  <2>1. /\ UNCHANGED <<w, freed, overlapped>>
        /\ bits \subseteq bits' /\ bits' \subseteq bits \cup {"fail", "connected"}
        /\ pc' = [t \in Tasks |->
                   IF pc[t] = "blocked" THEN "finish" ELSE pc[t]]
    BY <1>26 DEF HandlerSignals, SetBit
  <2>2. \A t \in Tasks :
          /\ pc'[t] \in InConnect <=> pc[t] \in InConnect
          /\ pc'[t] \in Inside <=> pc[t] \in Inside
          /\ pc'[t] \in ClosingSteps => pc'[t] = pc[t]
    BY <2>1
  <2> QED
    BY <2>1, <2>2
<1>27. CASE HandlerNotifies
  BY <1>27 DEF HandlerNotifies
<1>28. CASE RadioAnswers
  BY <1>28 DEF RadioAnswers
<1>29. CASE LinkLost
  BY <1>29 DEF LinkLost
<1>30. CASE UNCHANGED wifiVars
  BY <1>30 DEF wifiVars
<1> QED
  BY <1>1, <1>2, <1>3, <1>4, <1>5, <1>6, <1>7, <1>8, <1>9, <1>10, <1>11,
     <1>12, <1>13, <1>14, <1>15, <1>16, <1>17, <1>18, <1>19, <1>20, <1>21,
     <1>22, <1>23, <1>24, <1>25, <1>26, <1>27, <1>28, <1>29, <1>30
  DEF WifiNext, Calls, Proceeds, Worker, Handler

LEMMA CaughtNext ==
  TypeInv /\ CloseInv /\ ConnectInv /\ CaughtInv /\ [WifiNext]_wifiVars
    => CaughtInv'
<1> SUFFICES ASSUME TypeInv, CloseInv, ConnectInv, CaughtInv, [WifiNext]_wifiVars
             PROVE  CaughtInv'
  OBVIOUS
<1>0. /\ w \in HandleSet /\ pc \in [Tasks -> TaskSteps]
      /\ \A t \in Tasks : pc[t] \in ClosingSteps => w.closing /\ ~freed
  BY DEF TypeInv, FieldsInv, PlacesInv, CloseInv
<1> USE <1>0 DEF CaughtInv, HandleSet, ClosingSteps, history
<1>1. ASSUME NEW t \in Tasks, ConnectBegin(t)
      PROVE  CaughtInv'
  BY <1>1 DEF ConnectBegin, MayConnect, MayCall
<1>2. ASSUME NEW t \in Tasks, ConnectRecheck(t)
      PROVE  CaughtInv'
  BY <1>2 DEF ConnectRecheck, AbortDelay
<1>3. ASSUME NEW t \in Tasks, ConnectLaunch(t)
      PROVE  CaughtInv'
  BY <1>3 DEF ConnectLaunch
<1>4. ASSUME NEW t \in Tasks, ConnectWait(t)
      PROVE  CaughtInv'
  BY <1>4 DEF ConnectWait
<1>5. ASSUME NEW t \in Tasks, ConnectTimeout(t)
      PROVE  CaughtInv'
  BY <1>5 DEF ConnectTimeout
<1>6. ASSUME NEW t \in Tasks, ConnectGiveUp(t)
      PROVE  CaughtInv'
  BY <1>6 DEF ConnectGiveUp
<1>7. ASSUME NEW t \in Tasks, FinishFlag(t)
      PROVE  CaughtInv'
  BY <1>7 DEF FinishFlag, ConnectInv, Inside, InConnect
<1>8. ASSUME NEW t \in Tasks, FinishBit(t)
      PROVE  CaughtInv'
  BY <1>8 DEF FinishBit
<1>9. ASSUME NEW t \in Tasks, Disconnect(t)
      PROVE  CaughtInv'
  BY <1>9 DEF Disconnect, MayConnect, MayCall
<1>10. ASSUME NEW t \in Tasks, Drop(t)
       PROVE  CaughtInv'
  BY <1>10 DEF Drop, AbortDelay, RadioDisconnect
<1>11. ASSUME NEW t \in Tasks, CloseBegin(t)
       PROVE  CaughtInv'
  BY <1>11 DEF CloseBegin, MayCall, CatchesCall
<1>12. ASSUME NEW t \in Tasks, CloseFailConnect(t)
       PROVE  CaughtInv'
  BY <1>12 DEF CloseFailConnect, SetBit
<1>13. ASSUME NEW t \in Tasks, CloseJoinConnect(t)
       PROVE  CaughtInv'
  BY <1>13 DEF CloseJoinConnect, ConnectInv, InConnect
<1>14. ASSUME NEW t \in Tasks, CloseStopWorker(t)
       PROVE  CaughtInv'
  BY <1>14 DEF CloseStopWorker, AbortDelay
<1>15. ASSUME NEW t \in Tasks, CloseJoinWorker(t)
       PROVE  CaughtInv'
  BY <1>15 DEF CloseJoinWorker, RadioDisconnect
<1>16. ASSUME NEW t \in Tasks, CloseFree(t)
       PROVE  CaughtInv'
  BY <1>16 DEF CloseFree
<1>17. CASE Open
  BY <1>17 DEF Open, Opened
<1>18. CASE WorkerTake
  BY <1>18 DEF WorkerTake
<1>19. CASE WorkerCheck
  BY <1>19 DEF WorkerCheck
<1>20. CASE WorkerAttempt
  BY <1>20 DEF WorkerAttempt
<1>21. CASE WorkerGoesOn
  BY <1>21 DEF WorkerGoesOn
<1>22. CASE WorkerLaunch
  BY <1>22 DEF WorkerLaunch
<1>23. CASE WorkerFailed
  BY <1>23 DEF WorkerFailed
<1>24. CASE HandleLost
  BY <1>24 DEF HandleLost, Lost
<1>25. CASE HandleGotIp
  BY <1>25 DEF HandleGotIp
<1>26. CASE HandlerSignals
  <2>1. /\ UNCHANGED <<w, freed, overlapped>>
        /\ bits \subseteq bits' /\ bits' \subseteq bits \cup {"fail", "connected"}
        /\ pc' = [t \in Tasks |->
                   IF pc[t] = "blocked" THEN "finish" ELSE pc[t]]
    BY <1>26 DEF HandlerSignals, SetBit
  <2>2. \A t \in Tasks :
          pc'[t] \in ClosingSteps \cup {"signal", "drop"} => pc'[t] = pc[t]
    BY <2>1
  <2>3. /\ \A t \in Tasks : pc'[t] = "drop" => pc[t] = "drop"
        /\ \A t \in Tasks : pc'[t] = "signal" => pc[t] = "signal"
        /\ \A c \in Tasks :
             pc'[c] \in {"close_worker", "close_exit", "close_radio"} =>
               pc'[c] = pc[c]
    BY <2>2
  <2>4. (overlapped' <=> overlapped) /\ (caught' <=> caught)
    BY <1>26, Zenon DEF HandlerSignals
  <2> QED
    BY <2>1, <2>3, <2>4
<1>27. CASE HandlerNotifies
  BY <1>27 DEF HandlerNotifies
<1>28. CASE RadioAnswers
  BY <1>28 DEF RadioAnswers
<1>29. CASE LinkLost
  BY <1>29 DEF LinkLost
<1>30. CASE UNCHANGED wifiVars
  BY <1>30 DEF wifiVars
<1> QED
  BY <1>1, <1>2, <1>3, <1>4, <1>5, <1>6, <1>7, <1>8, <1>9, <1>10, <1>11,
     <1>12, <1>13, <1>14, <1>15, <1>16, <1>17, <1>18, <1>19, <1>20, <1>21,
     <1>22, <1>23, <1>24, <1>25, <1>26, <1>27, <1>28, <1>29, <1>30
  DEF WifiNext, Calls, Proceeds, Worker, Handler

-----------------------------------------------------------------------------
(* The types, with retry_count within max_retries, and the flag behind     *)
(* BUSY: it is up only while somebody attempts a connection.               *)
THEOREM WifiBusyHasAttempt == WifiSpec => []WifiConsistent
<1>1. TypeInv /\ BusyInv => WifiConsistent
  <2> SUFFICES ASSUME TypeInv, BusyInv
               PROVE  WifiTypeOK /\ BusyHasAttempt
    BY DEF WifiConsistent
  <2>1. BusyHasAttempt
    BY DEF BusyInv, BusyHasAttempt
  <2>2. /\ \A f \in {"connected", "closing", "manual", "ever", "inProgress",
                     "waiting"} : w[f] \in BOOLEAN
        /\ w.limit \in RetryLimits
    BY DEF TypeInv, FieldsInv, HandleSet
  <2>3. w.retries \in 0 .. (IF w.limit = Forever THEN 0 ELSE w.limit)
    BY WifiAssumption DEF TypeInv, FieldsInv, HandleSet
  <2> QED
    BY <2>1, <2>2, <2>3
    DEF TypeInv, PlacesInv, QueueInv, SwitchInv, WifiTypeOK
<1> QED
  BY <1>1, TypeInit, TypeNext, BusyInit, BusyNext, PTL DEF WifiSpec

(* close frees the handle only when the worker has exited and no handler   *)
(* runs, whatever retries and timeouts were under way; and no call that    *)
(* had begun is inside, unless connects overlapped or close caught a call  *)
(* past its last look at the flags.                                        *)
THEOREM WifiFreedHandleUnused == WifiSpec => []FreedHandleUnused
<1>1. TypeInv /\ CloseInv /\ ConnectInv /\ CaughtInv => FreedHandleUnused
  <2> SUFFICES ASSUME TypeInv, CloseInv, ConnectInv, CaughtInv, freed,
                      ~overlapped, ~caught, NEW t \in Tasks
               PROVE  pc[t] = "idle"
    BY DEF FreedHandleUnused, CloseInv
  <2>1. pc[t] \in TaskSteps
    BY DEF TypeInv, PlacesInv
  <2>2. pc[t] \notin Inside
    BY DEF ConnectInv
  <2>3. pc[t] \notin ClosingSteps
    BY DEF CloseInv
  <2>4. pc[t] \notin {"signal", "drop"}
    BY DEF CaughtInv, CloseInv
  <2> QED
    BY <2>1, <2>2, <2>3, <2>4 DEF TaskSteps, Inside, ClosingSteps
<1> QED
  BY <1>1, TypeInit, TypeNext, CloseInit, CloseNext, ConnectNext, CaughtNext, PTL
  DEF WifiSpec
=============================================================================
