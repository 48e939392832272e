------------------------------ MODULE WsClient ------------------------------
(* services/protocol/ws_client.c: the WebSocket client. Any task connects, *)
(* disconnects and sends; every connection has a receive task that reads,  *)
(* calls the callbacks, and gives task_done_sem as the last thing it does. *)
(* Connections are numbered, so that the transports and the receive task   *)
(* of one are told from those of another. Code under the handle's lock is  *)
(* one action where nothing it calls lets a receive task in between.       *)
EXTENDS Naturals, Session

CONSTANTS Tasks,        \* tasks that share the handle
          Nobody,
          MaxConnects   \* bound: connects that create transports

ASSUME WsBoundsOK == Nobody \notin Tasks /\ MaxConnects \in Nat \ {0}

VARIABLES s,          \* h->session
          running,    \* h->running
          transport,  \* h->ws_transport: the connection it is of, 0 for NULL
          doneSem,    \* h->task_done_sem is available
          lock,       \* who holds h->lock across a call
          pc,         \* where each task is in its call
          sending,    \* the transport each task's send has captured
          reader,     \* where the receive task of each connection is
          using,      \* the transport each receive task is reading
          live,       \* connections whose transports are not destroyed
          connects,   \* connections made so far
          freed,      \* close has freed the handle
          overlapped, \* a disconnect or a connect began during a connect
          unjoined    \* a connect or close began when the acknowledgement of
                      \* a receive task that ended by itself was not taken

wsVars == <<s, running, transport, doneSem, lock, pc, sending, reader, using,
            live, connects, freed, overlapped, unjoined>>
readerVars == <<reader, using>>
ghostVars == <<overlapped, unjoined>>

Connections == 1 .. MaxConnects
TaskAt == {"idle", "request", "take", "handshake", "establish", "mark",
           "join", "destroy", "send"}
InConnect == {"request", "take", "handshake", "establish", "mark"}
ReaderAt == {"none", "top", "read", "message", "note", "notify", "clear",
             "give", "gone"}

WsInit ==
  /\ s = NoSession /\ running = FALSE /\ transport = 0 /\ doneSem = FALSE
  /\ lock = Nobody /\ pc = [t \in Tasks |-> "idle"]
  /\ sending = [t \in Tasks |-> 0]
  /\ reader = [c \in Connections |-> "none"]
  /\ using = [c \in Connections |-> 0]
  /\ live = {} /\ connects = 0 /\ freed = FALSE
  /\ overlapped = FALSE /\ unjoined = FALSE

Ending(c) == reader[c] \in {"note", "notify", "clear", "give"}

Free == lock = Nobody

DestroyTransports ==
  /\ live' = live \ {transport}
  /\ transport' = 0

-----------------------------------------------------------------------------
(* connect. request_connect tests and sets its flag without the lock.      *)
ConnectTest(t) ==
  /\ pc[t] = "idle" /\ ~freed /\ CanConnect(s) /\ connects < MaxConnects
  /\ pc' = [pc EXCEPT ![t] = "request"]
  /\ overlapped' = (overlapped \/ \E u \in Tasks : pc[u] \in InConnect)
  /\ unjoined' = (unjoined \/ doneSem \/ \E c \in Connections : Ending(c))
  /\ UNCHANGED <<s, running, transport, doneSem, lock, sending, readerVars,
                 live, connects, freed>>

ConnectRequest(t) ==
  /\ pc[t] = "request"
  /\ s' = RequestConnect(s)
  /\ pc' = [pc EXCEPT ![t] = "take"]
  /\ UNCHANGED <<running, transport, doneSem, lock, sending, readerVars,
                 live, connects, freed, overlapped, unjoined>>

\* The session changed meanwhile, or there is no memory for a transport.
ConnectRefused(t) ==
  /\ pc[t] = "take" /\ Free
  /\ s' = FinishDisconnect(s)
  /\ pc' = [pc EXCEPT ![t] = "idle"]
  /\ UNCHANGED <<running, transport, doneSem, lock, sending, readerVars,
                 live, connects, freed, overlapped, unjoined>>

ConnectCreate(t) ==
  /\ pc[t] = "take" /\ Free
  /\ ~s.closing /\ ~s.connected /\ connects < MaxConnects
  /\ connects' = connects + 1
  /\ transport' = connects' /\ live' = live \cup {connects'}
  /\ pc' = [pc EXCEPT ![t] = "handshake"]
  /\ UNCHANGED <<s, running, doneSem, lock, sending, readerVars, freed,
                 overlapped, unjoined>>

\* esp_transport_connect fails, or the receive task cannot be created.
ConnectAbandon(t) ==
  /\ pc[t] = "handshake" \/ (pc[t] = "establish" /\ Free)
  /\ DestroyTransports
  /\ running' = (running /\ (pc[t] = "handshake" \/ ~Established(s)))
  /\ s' = FinishDisconnect(s)
  /\ pc' = [pc EXCEPT ![t] = "idle"]
  /\ UNCHANGED <<doneSem, lock, sending, readerVars, connects, freed,
                 overlapped, unjoined>>

Handshake(t) ==
  /\ pc[t] = "handshake"
  /\ pc' = [pc EXCEPT ![t] = "establish"]
  /\ UNCHANGED <<s, running, transport, doneSem, lock, sending, readerVars,
                 live, connects, freed, overlapped, unjoined>>

\* The receive task starts before connect has noted that it is active.
ConnectEstablish(t) ==
  /\ pc[t] = "establish" /\ Free /\ Established(s)
  /\ s' = FinishConnect(s, TRUE)
  /\ running' = TRUE
  /\ \E c \in Connections :
       /\ reader[c] = "none" /\ \A d \in 1 .. c - 1 : reader[d] # "none"
       /\ reader' = [reader EXCEPT ![c] = "top"]
  /\ lock' = t
  /\ pc' = [pc EXCEPT ![t] = "mark"]
  /\ UNCHANGED <<transport, doneSem, sending, using, live, connects, freed,
                 overlapped, unjoined>>

ConnectMark(t) ==
  /\ pc[t] = "mark"
  /\ s' = [s EXCEPT !.worker = TRUE]
  /\ lock' = Nobody
  /\ pc' = [pc EXCEPT ![t] = "idle"]
  /\ UNCHANGED <<running, transport, doneSem, sending, readerVars, live,
                 connects, freed, overlapped, unjoined>>

-----------------------------------------------------------------------------
(* disconnect, which the comment on send forbids during a send. What a     *)
(* receive task reads after esp_transport_close no longer matters: running *)
(* is false by then.                                                       *)
MayCallDisconnect(t) ==
  pc[t] = "idle" /\ ~freed /\ Free /\ \A u \in Tasks : pc[u] # "send"

\* Fault: disconnect never waits for the receive task.
DisconnectBeginNoJoin(t) ==
  /\ MayCallDisconnect(t) /\ MayDisconnect(s)
  /\ running' = FALSE
  /\ s' = NoteDisconnected(RequestDisconnect(s))
  /\ pc' = [pc EXCEPT ![t] = "destroy"]
  /\ overlapped' = (overlapped \/ \E u \in Tasks : pc[u] \in InConnect)
  /\ UNCHANGED <<transport, doneSem, lock, sending, readerVars, live,
                 connects, freed, unjoined>>

\* Fault: disconnect does not tell the receive task to stop.
DisconnectBeginKeepsRunning(t) ==
  /\ MayCallDisconnect(t) /\ MayDisconnect(s)
  /\ s' = NoteDisconnected(RequestDisconnect(s))
  /\ pc' = [pc EXCEPT ![t] = IF s.worker THEN "join" ELSE "destroy"]
  /\ overlapped' = (overlapped \/ \E u \in Tasks : pc[u] \in InConnect)
  /\ UNCHANGED <<running, transport, doneSem, lock, sending, readerVars,
                 live, connects, freed, unjoined>>

DisconnectBegin(t) ==
  /\ MayCallDisconnect(t) /\ MayDisconnect(s)
  /\ running' = FALSE
  /\ s' = NoteDisconnected(RequestDisconnect(s))
  /\ pc' = [pc EXCEPT ![t] = IF s.worker THEN "join" ELSE "destroy"]
  /\ overlapped' = (overlapped \/ \E u \in Tasks : pc[u] \in InConnect)
  /\ UNCHANGED <<transport, doneSem, lock, sending, readerVars, live,
                 connects, freed, unjoined>>

DisconnectJoin(t) ==
  /\ pc[t] = "join" /\ doneSem
  /\ doneSem' = FALSE
  /\ pc' = [pc EXCEPT ![t] = "destroy"]
  /\ UNCHANGED <<s, running, transport, lock, sending, readerVars, live,
                 connects, freed, overlapped, unjoined>>

DisconnectEnd(t) ==
  /\ pc[t] = "destroy"
  /\ DestroyTransports
  /\ s' = FinishDisconnect(s)
  /\ pc' = [pc EXCEPT ![t] = "idle"]
  /\ UNCHANGED <<running, doneSem, lock, sending, readerVars, connects,
                 freed, overlapped, unjoined>>

\* close overlaps no other call: it is a disconnect and then this.
CloseFree ==
  /\ ~freed /\ \A u \in Tasks : pc[u] = "idle"
  /\ ~MayDisconnect(s)
  /\ freed' = TRUE
  /\ unjoined' = (unjoined \/ \E c \in Connections : Ending(c))
  /\ UNCHANGED <<s, running, transport, doneSem, lock, pc, sending,
                 readerVars, live, connects, overlapped>>

Send(t) ==
  /\ pc[t] = "idle" /\ ~freed /\ Free /\ s.connected
  /\ sending' = [sending EXCEPT ![t] = transport]
  /\ pc' = [pc EXCEPT ![t] = "send"]
  /\ UNCHANGED <<s, running, transport, doneSem, lock, readerVars, live,
                 connects, freed, overlapped, unjoined>>

Sent(t) ==
  /\ pc[t] = "send"
  /\ sending' = [sending EXCEPT ![t] = 0]
  /\ pc' = [pc EXCEPT ![t] = "idle"]
  /\ UNCHANGED <<s, running, transport, doneSem, lock, readerVars, live,
                 connects, freed, overlapped, unjoined>>

-----------------------------------------------------------------------------
(* ws_recv_task of connection c.                                           *)
ReaderLoops(c) ==
  /\ reader[c] = "top"
  /\ reader' = [reader EXCEPT ![c] = IF running THEN "read" ELSE "clear"]
  /\ using' = [using EXCEPT ![c] = IF running THEN transport ELSE 0]
  /\ UNCHANGED <<s, running, transport, doneSem, lock, pc, sending, live,
                 connects, freed, overlapped, unjoined>>

\* The read returns a frame, nothing before its timeout, or an error or CLOSE.
ReaderReturns(c) ==
  /\ reader[c] = "read"
  /\ using' = [using EXCEPT ![c] = 0]
  /\ \/ /\ ~running
        /\ reader' = [reader EXCEPT ![c] = "clear"]
        /\ UNCHANGED running
     \/ /\ running
        /\ \E next \in {"message", "top"} :
             reader' = [reader EXCEPT ![c] = next]
        /\ UNCHANGED running
     \/ /\ running
        /\ running' = FALSE
        /\ reader' = [reader EXCEPT ![c] = "note"]
  /\ UNCHANGED <<s, transport, doneSem, lock, pc, sending, live, connects,
                 freed, overlapped, unjoined>>

MessageHandled(c) ==
  /\ reader[c] = "message"
  /\ reader' = [reader EXCEPT ![c] = "top"]
  /\ UNCHANGED <<s, running, transport, doneSem, lock, pc, sending, using,
                 live, connects, freed, overlapped, unjoined>>

\* Fault: the loss of a connection is not noted in the session.
ReaderNotesNothing(c) ==
  /\ reader[c] = "note"
  /\ reader' = [reader EXCEPT ![c] = "notify"]
  /\ UNCHANGED <<s, running, transport, doneSem, lock, pc, sending, using,
                 live, connects, freed, overlapped, unjoined>>

ReaderNotes(c) ==
  /\ reader[c] = "note"
  /\ s' = NoteDisconnected(s)
  /\ reader' = [reader EXCEPT ![c] = "notify"]
  /\ UNCHANGED <<running, transport, doneSem, lock, pc, sending, using, live,
                 connects, freed, overlapped, unjoined>>

DisconnectHandled(c) ==
  /\ reader[c] = "notify"
  /\ reader' = [reader EXCEPT ![c] = "clear"]
  /\ UNCHANGED <<s, running, transport, doneSem, lock, pc, sending, using,
                 live, connects, freed, overlapped, unjoined>>

ReaderClears(c) ==
  /\ reader[c] = "clear"
  /\ s' = [s EXCEPT !.worker = FALSE]
  /\ reader' = [reader EXCEPT ![c] = "give"]
  /\ UNCHANGED <<running, transport, doneSem, lock, pc, sending, using, live,
                 connects, freed, overlapped, unjoined>>

ReaderGives(c) ==
  /\ reader[c] = "give"
  /\ doneSem' = TRUE
  /\ reader' = [reader EXCEPT ![c] = "gone"]
  /\ UNCHANGED <<s, running, transport, lock, pc, sending, using, live,
                 connects, freed, overlapped, unjoined>>

-----------------------------------------------------------------------------
TaskStep(t) ==
  \/ ConnectRequest(t) \/ ConnectRefused(t) \/ ConnectCreate(t)
  \/ ConnectAbandon(t) \/ Handshake(t) \/ ConnectEstablish(t)
  \/ ConnectMark(t) \/ DisconnectJoin(t) \/ DisconnectEnd(t) \/ Sent(t)

ReaderStep(c) ==
  \/ ReaderLoops(c) \/ ReaderReturns(c) \/ MessageHandled(c)
  \/ ReaderNotes(c) \/ DisconnectHandled(c) \/ ReaderClears(c)
  \/ ReaderGives(c)

WsNext ==
  \/ \E t \in Tasks : \/ TaskStep(t) \/ ConnectTest(t) \/ DisconnectBegin(t)
                      \/ Send(t)
  \/ CloseFree
  \/ \E c \in Connections : ReaderStep(c)

WsSpec == WsInit /\ [][WsNext]_wsVars
FairWsSpec ==
  /\ WsSpec
  /\ \A t \in Tasks : WF_wsVars(TaskStep(t))
  /\ \A c \in Connections : WF_wsVars(ReaderStep(c))

-----------------------------------------------------------------------------
Reading(c) == reader[c] \notin {"none", "gone"}
AllIdle == \A t \in Tasks : pc[t] = "idle"

\* The variables hold what they are described as.
WsTypeOK ==
  /\ DOMAIN s = {"connected", "connecting", "closing", "worker"}
  /\ \A f \in DOMAIN s : s[f] \in BOOLEAN
  /\ running \in BOOLEAN /\ doneSem \in BOOLEAN /\ freed \in BOOLEAN
  /\ transport \in 0 .. connects /\ connects \in 0 .. MaxConnects
  /\ live \subseteq 1 .. connects
  /\ lock \in Tasks \cup {Nobody}
  /\ \A t \in Tasks : lock = t <=> pc[t] = "mark"
  /\ pc \in [Tasks -> TaskAt] /\ sending \in [Tasks -> 0 .. connects]
  /\ reader \in [Connections -> ReaderAt]
  /\ using \in [Connections -> 0 .. connects]
  /\ overlapped \in BOOLEAN /\ unjoined \in BOOLEAN

(* disconnect and close take away nothing in use: a transport is destroyed *)
(* only when no connect, receive task or send is inside a call on it, and  *)
(* the handle is freed only when no receive task is left. disconnect does  *)
(* not wait for a receive task that ended by itself, and the next one      *)
(* takes its acknowledgement for another's: handles are left out on which  *)
(* the callers go on in spite of one. A send is safe even then.            *)
NothingFreedInUse ==
  ~overlapped =>
    /\ \A t \in Tasks : pc[t] = "send" => sending[t] \in live
    /\ ~unjoined =>
         /\ \A c \in Connections : reader[c] = "read" => using[c] \in live
         /\ \A t \in Tasks : pc[t] = "handshake" => transport \in live
         /\ freed => \A c \in Connections : ~Reading(c)

\* A handle that says it is connected has a receive task that will notice
\* when it no longer is.
ConnectedIsServed ==
  s.connected => \E c \in Connections : Reading(c)

\* No call leaves the session connecting or closing, where every later
\* connect would be refused.
SessionIsReleased == AllIdle => ~s.connecting /\ ~s.closing

\* What a caller may conclude from the flags of the handle.
WsConsistent == WsTypeOK /\ ConnectedIsServed /\ SessionIsReleased

\* Every call comes to an end: disconnect gets an acknowledgement, from
\* whatever receive task, and nobody keeps the lock.
CallsEnd ==
  \A t \in Tasks : pc[t] # "idle" ~> pc[t] = "idle" \/ overlapped

=============================================================================
