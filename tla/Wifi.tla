-------------------------------- MODULE Wifi --------------------------------
(* services/connectivity/wifi.c: the station. Any task may call it; a      *)
(* worker task retries lost connections after a delay; driver events are   *)
(* handled on the ESP event task. One lock guards the flags `w`, four      *)
(* event bits signal between tasks, and the worker has a notification.     *)
(* A critical section is one action, and so is each access outside one.    *)
EXTENDS Naturals, Sequences

CONSTANTS Tasks,          \* tasks that share the handle
          AutoReconnect,  \* config->auto_reconnect
          RetryLimits,    \* the values of config->max_retries; Forever is -1
          Forever,
          QueueCap,       \* bound: driver events waiting for the event task
          MaxCalls        \* bound: connect and disconnect calls on one handle

ASSUME WifiAssumption ==
  /\ RetryLimits \subseteq Nat \cup {Forever}
  /\ QueueCap \in Nat \ {0} /\ MaxCalls \in Nat

VARIABLES w,           \* the fields of the handle
          bits,        \* the event group
          notified,    \* a notification of the worker is pending
          pc,          \* where each task is in its call
          worker,      \* where reconnect_task_main is
          handler,     \* where wifi_event_handler is, and its should_retry
          link,        \* of the radio: off, down, joining or up
          queue,       \* driver events not handled yet
          freed,       \* close has freed the handle
          overlapped,  \* a connect began while another was still inside
          caught,      \* close began when a call had had its last look at
                       \* the flags, and was not yet done with the handle
          excused,     \* a disconnect, or a connect that gave up during an
                       \* attempt of the worker, came after the last connect
          calls        \* connect and disconnect calls, until close begins

wifiVars == <<w, bits, notified, pc, worker, handler, link, queue, freed,
              overlapped, caught, excused, calls>>
radioVars == <<link, queue>>
history == <<overlapped, caught, excused>>

InConnect == {"recheck", "launch", "enter", "blocked", "giveup", "finish",
              "signal"}
Attempting == {"reconnecting", "connecting", "launch"}
TaskSteps == InConnect \cup {"idle", "drop", "close_connect", "close_join",
                             "close_worker", "close_exit", "close_radio"}

Opened(limit) ==
  [connected |-> FALSE, closing |-> FALSE, manual |-> FALSE, ever |-> FALSE,
   inProgress |-> FALSE, waiting |-> FALSE, retries |-> 0,
   limit |-> limit]

Idle == [at |-> "idle", retry |-> FALSE, closing |-> FALSE]

WifiInit ==
  /\ \E limit \in RetryLimits : w = Opened(limit)
  /\ bits = {} /\ notified = FALSE
  /\ pc = [t \in Tasks |-> "idle"]
  /\ worker = "take" /\ handler = Idle
  /\ link = "down" /\ queue = << >>
  /\ freed = FALSE /\ calls = 0
  /\ overlapped = FALSE /\ caught = FALSE /\ excused = FALSE

RetryAllowed(h) ==
  /\ AutoReconnect /\ ~h.inProgress
  /\ ~h.closing /\ ~h.manual /\ h.ever
  /\ h.limit # Forever => h.limit # 0 /\ h.retries < h.limit

-----------------------------------------------------------------------------
(* FreeRTOS and the radio, as the code uses them.                          *)
\* Setting CONNECTED or FAIL wakes the tasks blocked on them.
SetBit(b, next) ==
  /\ bits' = bits \cup {b}
  /\ pc' = [t \in Tasks |-> IF pc[t] = "blocked" THEN "finish" ELSE next[t]]

\* xTaskAbortDelay: a worker that waits for a notification wakes without one.
AbortDelay == worker' = IF worker = "take" THEN "check" ELSE worker

\* esp_wifi_disconnect reports the loss of a link that was up or coming up.
RadioDisconnect ==
  IF link \in {"off", "down"} THEN UNCHANGED radioVars
  ELSE /\ Len(queue) < QueueCap
       /\ link' = "down" /\ queue' = Append(queue, "lost")

RadioAnswers ==
  /\ link = "joining" /\ Len(queue) < QueueCap
  /\ \/ link' = "up" /\ queue' = Append(queue, "got_ip")
     \/ link' = "down" /\ queue' = Append(queue, "lost")
  /\ UNCHANGED <<w, bits, notified, pc, worker, handler, freed, history,
                 calls>>

LinkLost ==
  /\ link = "up" /\ Len(queue) < QueueCap
  /\ link' = "down" /\ queue' = Append(queue, "lost")
  /\ UNCHANGED <<w, bits, notified, pc, worker, handler, freed, history,
                 calls>>

-----------------------------------------------------------------------------
(* connect: the request, the announcement to the callback and the second   *)
(* look at the flags, esp_wifi_connect, and the wait for an answer. Calls  *)
(* that answer BUSY or INVALID_STATE change nothing and are not steps.     *)
MayCall(t) == pc[t] = "idle" /\ ~freed /\ ~w.closing

MayConnect(t) == MayCall(t) /\ calls < MaxCalls /\ calls' = calls + 1

ConnectBegin(t) ==
  /\ MayConnect(t) /\ ~w.inProgress
  /\ w' = [w EXCEPT !.manual = FALSE, !.inProgress = TRUE, !.waiting = TRUE]
  /\ bits' = bits \ {"done", "connected", "fail"}
  /\ pc' = [pc EXCEPT ![t] = "recheck"]
  /\ excused' = FALSE
  /\ overlapped' = (overlapped \/ \E u \in Tasks : pc[u] \in InConnect)
  /\ UNCHANGED <<notified, worker, handler, radioVars, freed, caught>>

ConnectRecheck(t) ==
  /\ pc[t] = "recheck"
  /\ AbortDelay
  /\ IF w.closing \/ w.manual \/ ~w.inProgress
       THEN /\ w' = [w EXCEPT !.inProgress = FALSE]
            /\ pc' = [pc EXCEPT ![t] = "finish"]
       ELSE pc' = [pc EXCEPT ![t] = "launch"] /\ UNCHANGED w
  /\ UNCHANGED <<bits, notified, handler, radioVars, freed, history,
                 calls>>

\* esp_wifi_connect fails when stopped, joining or joined.
ConnectLaunch(t) ==
  /\ pc[t] = "launch"
  /\ IF link = "down"
       THEN link' = "joining" /\ pc' = [pc EXCEPT ![t] = "enter"]
       ELSE pc' = [pc EXCEPT ![t] = "giveup"] /\ UNCHANGED link
  /\ UNCHANGED <<w, bits, notified, worker, handler, queue, freed,
                 history, calls>>

ConnectWait(t) ==
  /\ pc[t] = "enter"
  /\ pc' = [pc EXCEPT ![t] =
       IF {"connected", "fail"} \cap bits = {} THEN "blocked" ELSE "finish"]
  /\ UNCHANGED <<w, bits, notified, worker, handler, radioVars, freed,
                 history, calls>>

ConnectTimeout(t) ==
  /\ pc[t] = "blocked"
  /\ pc' = [pc EXCEPT ![t] = "giveup"]
  /\ UNCHANGED <<w, bits, notified, worker, handler, radioVars, freed,
                 history, calls>>

\* Fault: a connect that timed out or was refused stays in progress.
ConnectGiveUpKeeps(t) ==
  /\ pc[t] = "giveup"
  /\ pc' = [pc EXCEPT ![t] = "finish"]
  /\ UNCHANGED <<w, bits, notified, worker, handler, radioVars, freed,
                 history, calls>>

ConnectGiveUp(t) ==
  /\ pc[t] = "giveup"
  /\ w' = [w EXCEPT !.inProgress = FALSE]
  /\ pc' = [pc EXCEPT ![t] = "finish"]
  /\ excused' = (excused \/ worker \in Attempting)
  /\ UNCHANGED <<bits, notified, worker, handler, radioVars, freed,
                 overlapped, caught, calls>>

\* finish_connect_wait, without the lock: the flag, then the bit.
FinishFlag(t) ==
  /\ pc[t] = "finish"
  /\ w' = [w EXCEPT !.waiting = FALSE]
  /\ pc' = [pc EXCEPT ![t] = "signal"]
  /\ UNCHANGED <<bits, notified, worker, handler, radioVars, freed,
                 history, calls>>

FinishBit(t) ==
  /\ pc[t] = "signal"
  /\ bits' = bits \cup {"done"}
  /\ pc' = [pc EXCEPT ![t] = "idle"]
  /\ UNCHANGED <<w, notified, worker, handler, radioVars, freed, history,
                 calls>>

-----------------------------------------------------------------------------
(* disconnect: the flags under the lock, then the driver.                  *)
Disconnect(t) ==
  /\ MayConnect(t)
  /\ w' = [w EXCEPT !.manual = TRUE, !.inProgress = FALSE]
  /\ excused' = TRUE
  /\ pc' = [pc EXCEPT ![t] = "drop"]
  /\ UNCHANGED <<bits, notified, worker, handler, radioVars, freed,
                 overlapped, caught>>

Drop(t) ==
  /\ pc[t] = "drop"
  /\ AbortDelay /\ RadioDisconnect
  /\ pc' = [pc EXCEPT ![t] = "idle"]
  /\ UNCHANGED <<w, bits, notified, handler, freed, history, calls>>

-----------------------------------------------------------------------------
(* close: fail the connect that waits and wait for it, stop the worker and *)
(* wait for it, then the radio and the handlers. One task closes a handle. *)
\* The handle may be freed under these: a connect between finish_connect_wait's
\* flag and its bit, a disconnect before it wakes the worker.
CatchesCall == \E u \in Tasks : pc[u] \in {"signal", "drop"}

\* Fault: close does not look for a connect that waits.
CloseBeginAlone(t) ==
  /\ MayCall(t)
  /\ w' = [w EXCEPT !.closing = TRUE, !.manual = FALSE, !.inProgress = FALSE]
  /\ pc' = [pc EXCEPT ![t] = "close_worker"]
  /\ caught' = CatchesCall /\ excused' = FALSE /\ calls' = 0
  /\ UNCHANGED <<bits, notified, worker, handler, radioVars, freed,
                 overlapped>>

CloseBegin(t) ==
  /\ MayCall(t)
  /\ w' = [w EXCEPT !.closing = TRUE, !.manual = FALSE, !.inProgress = FALSE]
  /\ pc' = [pc EXCEPT ![t] =
              IF w.waiting THEN "close_connect" ELSE "close_worker"]
  /\ caught' = CatchesCall /\ excused' = FALSE /\ calls' = 0
  /\ UNCHANGED <<bits, notified, worker, handler, radioVars, freed,
                 overlapped>>

CloseFailConnect(t) ==
  /\ pc[t] = "close_connect"
  /\ SetBit("fail", [pc EXCEPT ![t] = "close_join"])
  /\ UNCHANGED <<w, notified, worker, handler, radioVars, freed, history,
                 calls>>

CloseJoinConnect(t) ==
  /\ pc[t] = "close_join" /\ "done" \in bits
  /\ pc' = [pc EXCEPT ![t] = "close_worker"]
  /\ UNCHANGED <<w, bits, notified, worker, handler, radioVars, freed,
                 history, calls>>

\* Fault: close relies on xTaskAbortDelay alone.
CloseStopWorkerNoNotify(t) ==
  /\ pc[t] = "close_worker"
  /\ AbortDelay
  /\ pc' = [pc EXCEPT ![t] = "close_exit"]
  /\ UNCHANGED <<w, bits, notified, handler, radioVars, freed, history,
                 calls>>

CloseStopWorker(t) ==
  /\ pc[t] = "close_worker"
  /\ AbortDelay /\ notified' = TRUE
  /\ pc' = [pc EXCEPT ![t] = "close_exit"]
  /\ UNCHANGED <<w, bits, handler, radioVars, freed, history, calls>>

CloseJoinWorker(t) ==
  /\ pc[t] = "close_exit" /\ "exited" \in bits
  /\ IF w.connected THEN RadioDisconnect ELSE UNCHANGED radioVars
  /\ pc' = [pc EXCEPT ![t] = "close_radio"]
  /\ UNCHANGED <<w, bits, notified, worker, handler, freed, history,
                 calls>>

\* Unregistering waits for a handler that runs; what is queued is not handled.
CloseFree(t) ==
  /\ pc[t] = "close_radio" /\ handler = Idle
  /\ link' = "off" /\ queue' = << >>
  /\ w' = [w EXCEPT !.connected = FALSE, !.inProgress = FALSE]
  /\ freed' = TRUE
  /\ pc' = [pc EXCEPT ![t] = "idle"]
  /\ UNCHANGED <<bits, notified, worker, handler, history, calls>>

Open ==
  /\ freed /\ \A t \in Tasks : pc[t] = "idle"
  /\ freed' = FALSE /\ calls' = 0
  /\ overlapped' = FALSE /\ caught' = FALSE /\ excused' = FALSE
  /\ \E limit \in RetryLimits : w' = Opened(limit)
  /\ bits' = {} /\ notified' = FALSE
  /\ worker' = "take" /\ handler' = Idle /\ link' = "down"
  /\ UNCHANGED <<pc, queue>>

-----------------------------------------------------------------------------
(* reconnect_task_main. It looks at the flags when notified, and again     *)
(* after the delay and after each callback. retry_count is a number that   *)
(* only limits retries when there is a limit, and is not counted otherwise.*)
WorkerTake ==
  /\ worker = "take" /\ notified
  /\ notified' = FALSE /\ worker' = "check"
  /\ UNCHANGED <<w, bits, pc, handler, radioVars, freed, history, calls>>

WorkerCheck ==
  /\ worker = "check"
  /\ IF w.closing THEN worker' = "exited" /\ bits' = bits \cup {"exited"}
     ELSE /\ worker' = IF RetryAllowed(w) THEN "delay" ELSE "take"
          /\ UNCHANGED bits
  /\ UNCHANGED <<w, notified, pc, handler, radioVars, freed, history,
                 calls>>

WorkerAttempt ==
  /\ worker = "delay"
  /\ IF RetryAllowed(w)
       THEN /\ worker' = "reconnecting"
            /\ w' = [w EXCEPT !.inProgress = TRUE,
                       !.retries = IF w.limit = Forever THEN 0 ELSE w.retries + 1]
            /\ bits' = bits \ {"connected", "fail"}
       ELSE worker' = "take" /\ UNCHANGED <<w, bits>>
  /\ UNCHANGED <<notified, pc, handler, radioVars, freed, history, calls>>

WorkerGoesOn ==
  /\ worker \in {"reconnecting", "connecting"}
  /\ worker' = IF w.closing \/ w.manual \/ ~w.inProgress THEN "take"
               ELSE IF worker = "reconnecting" THEN "connecting" ELSE "launch"
  /\ UNCHANGED <<w, bits, notified, pc, handler, radioVars, freed,
                 history, calls>>

WorkerLaunch ==
  /\ worker = "launch"
  /\ IF link = "down" THEN link' = "joining" /\ worker' = "take"
     ELSE worker' = "failed" /\ UNCHANGED link
  /\ UNCHANGED <<w, bits, notified, pc, handler, queue, freed, history,
                 calls>>

WorkerFailed ==
  /\ worker = "failed"
  /\ w' = [w EXCEPT !.inProgress = FALSE] /\ worker' = "take"
  /\ UNCHANGED <<bits, notified, pc, handler, radioVars, freed, history,
                 calls>>

-----------------------------------------------------------------------------
(* wifi_event_handler: the flags under the lock, then the bit, then the    *)
(* callback and the worker.                                                *)
Lost(h) ==
  [h EXCEPT !.connected = FALSE, !.inProgress = FALSE, !.manual = FALSE]

\* Fault: should_retry is computed before the flags are updated.
HandleLostEarly ==
  /\ handler = Idle /\ queue # << >> /\ Head(queue) = "lost"
  /\ queue' = Tail(queue)
  /\ w' = Lost(w)
  /\ handler' = [at |-> "lost", closing |-> w.closing,
                 retry |-> ~w.manual /\ RetryAllowed(w)]
  /\ UNCHANGED <<bits, notified, pc, worker, link, freed, history, calls>>

HandleLost ==
  /\ handler = Idle /\ queue # << >> /\ Head(queue) = "lost"
  /\ queue' = Tail(queue)
  /\ w' = Lost(w)
  /\ handler' = [at |-> "lost", closing |-> w.closing,
                 retry |-> ~w.manual /\ RetryAllowed(Lost(w))]
  /\ UNCHANGED <<bits, notified, pc, worker, link, freed, history, calls>>

HandleGotIp ==
  /\ handler = Idle /\ queue # << >> /\ Head(queue) = "got_ip"
  /\ queue' = Tail(queue)
  /\ w' = [w EXCEPT !.connected = TRUE, !.ever = TRUE, !.inProgress = FALSE,
                    !.retries = 0]
  /\ handler' = [Idle EXCEPT !.at = "got_ip"]
  /\ UNCHANGED <<bits, notified, pc, worker, link, freed, history, calls>>

HandlerSignals ==
  /\ handler.at \in {"lost", "got_ip"}
  /\ SetBit(IF handler.at = "lost" THEN "fail" ELSE "connected", pc)
  /\ handler' = IF handler.at = "lost" /\ ~handler.closing
                THEN [handler EXCEPT !.at = "callback"] ELSE Idle
  /\ UNCHANGED <<w, notified, worker, radioVars, freed, history, calls>>

HandlerNotifies ==
  /\ handler.at = "callback"
  /\ notified' = (notified \/ handler.retry)
  /\ handler' = Idle
  /\ UNCHANGED <<w, bits, pc, worker, radioVars, freed, history, calls>>

-----------------------------------------------------------------------------
Calls(t) == ConnectBegin(t) \/ Disconnect(t) \/ CloseBegin(t)

Proceeds(t) ==
  \/ ConnectRecheck(t) \/ ConnectLaunch(t) \/ ConnectWait(t)
  \/ ConnectGiveUp(t) \/ FinishFlag(t) \/ FinishBit(t) \/ Drop(t)
  \/ CloseFailConnect(t) \/ CloseJoinConnect(t) \/ CloseStopWorker(t)
  \/ CloseJoinWorker(t) \/ CloseFree(t)

Worker == WorkerTake \/ WorkerCheck \/ WorkerAttempt \/ WorkerGoesOn
          \/ WorkerLaunch \/ WorkerFailed

Handler == HandleLost \/ HandleGotIp \/ HandlerSignals \/ HandlerNotifies

WifiNext ==
  \/ \E t \in Tasks : Calls(t) \/ Proceeds(t) \/ ConnectTimeout(t)
  \/ Worker \/ Handler \/ RadioAnswers \/ LinkLost \/ Open

WifiSpec == WifiInit /\ [][WifiNext]_wifiVars

(* The scheduler runs every task that is ready and the radio answers every *)
(* attempt. Nobody has to call, and a wait with a timeout of -1 need not   *)
(* time out.                                                               *)
FairWifiSpec ==
  /\ WifiSpec
  /\ \A t \in Tasks : WF_wifiVars(Proceeds(t))
  /\ WF_wifiVars(Worker) /\ WF_wifiVars(Handler) /\ WF_wifiVars(RadioAnswers)

-----------------------------------------------------------------------------
(* Type invariant: retry_count respects max_retries.                       *)
WifiTypeOK ==
  /\ \A f \in {"connected", "closing", "manual", "ever", "inProgress",
               "waiting"} : w[f] \in BOOLEAN
  /\ w.limit \in RetryLimits
  /\ w.retries \in 0 .. (IF w.limit = Forever THEN 0 ELSE w.limit)
  /\ bits \subseteq {"connected", "fail", "done", "exited"}
  /\ pc \in [Tasks -> TaskSteps]
  /\ link \in {"off", "down", "joining", "up"} /\ Len(queue) <= QueueCap
  /\ {notified, freed, overlapped, caught, excused} \subseteq BOOLEAN

(* close frees the handle only when its worker has exited, no handler runs *)
(* and no call that had begun is inside, but for two windows of the code:  *)
(* of two overlapping connects the first to leave clears connect_waiting   *)
(* under the second, which close then misses; and close does not wait for  *)
(* a call that has had its last look at the flags (`caught`).              *)
FreedHandleUnused ==
  freed => /\ worker = "exited" /\ handler = Idle
           /\ overlapped \/ caught \/ \A t \in Tasks : pc[t] = "idle"

(* connect answers BUSY only "if another connect attempt is already in     *)
(* progress" (wifi.h): somebody is attempting, or the radio's answer is    *)
(* on its way, across timeouts, late answers, disconnects and retries.     *)
BusyHasAttempt ==
  w.inProgress =>
    \/ \E t \in Tasks : pc[t] \in {"recheck", "launch", "enter", "giveup"}
    \/ worker \in Attempting \cup {"failed"}
    \/ link = "joining" \/ queue # << >>

\* What connect and the worker rely on.
WifiConsistent == WifiTypeOK /\ BusyHasAttempt

(* close returns, whatever the worker and a waiting connect were doing.    *)
CloseReturns == w.closing ~> freed

(* "-1 retries forever" (wifi.h): a station that was connected once never  *)
(* rests offline while its users leave it alone, unless they disconnected  *)
(* it or a connect that timed out has cancelled the worker's attempt.      *)
LeftAlone ==
  /\ w.limit = Forever /\ ~w.closing
  /\ w.ever /\ ~w.manual /\ ~excused
  /\ \A t \in Tasks : pc[t] = "idle"

Reconnects ==
  <>[]LeftAlone => []<>(link # "down")
=============================================================================
