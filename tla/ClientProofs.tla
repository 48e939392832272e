----------------------------- MODULE ClientProofs -----------------------------
(* Proofs about the two clients over session_helper.h. WsClient, for any   *)
(* number of tasks and of connections: what a caller may conclude from the *)
(* flags of the handle, and that disconnect and close take nothing away    *)
(* from a call or a receive task that uses it. MqttCapability, for every   *)
(* queue, backoff and number of messages: what the product sees of the     *)
(* broker, and which messages reach it.                                    *)
EXTENDS WsClient, MqttCapability, SequenceTheorems, TLAPS

SessionSet ==
  [connected : BOOLEAN, connecting : BOOLEAN, closing : BOOLEAN,
   worker : BOOLEAN]

TypeInv ==
  /\ s \in SessionSet
  /\ running \in BOOLEAN /\ doneSem \in BOOLEAN /\ freed \in BOOLEAN
  /\ overlapped \in BOOLEAN /\ unjoined \in BOOLEAN
  /\ connects \in 0 .. MaxConnects /\ transport \in 0 .. connects
  /\ live \subseteq 1 .. connects
  /\ lock \in Tasks \cup {Nobody}
  /\ pc \in [Tasks -> TaskAt] /\ sending \in [Tasks -> 0 .. connects]
  /\ \A t \in Tasks : lock = t <=> pc[t] = "mark"
  /\ reader \in [Connections -> ReaderAt]
  /\ using \in [Connections -> 0 .. connects]

FreedInv == freed => AllIdle

(* The helpers of session_helper.h keep the flags flags.                   *)
LEMMA SessionTypes ==
  ASSUME NEW x \in SessionSet
  PROVE  /\ RequestConnect(x) \in SessionSet
         /\ FinishConnect(x, TRUE) \in SessionSet
         /\ RequestDisconnect(x) \in SessionSet
         /\ NoteDisconnected(x) \in SessionSet
         /\ FinishDisconnect(x) \in SessionSet
         /\ NoteDisconnected(RequestDisconnect(x)) \in SessionSet
         /\ [x EXCEPT !.worker = TRUE] \in SessionSet
         /\ [x EXCEPT !.worker = FALSE] \in SessionSet
  BY DEF SessionSet, RequestConnect, FinishConnect, RequestDisconnect,
         NoteDisconnected, FinishDisconnect

LEMMA TypeInit == WsInit => TypeInv /\ FreedInv
<1> SUFFICES ASSUME WsInit
             PROVE  TypeInv /\ FreedInv
  OBVIOUS
<1>1. s \in SessionSet
  BY DEF WsInit, NoSession, SessionSet
<1>2. /\ pc \in [Tasks -> TaskAt] /\ reader \in [Connections -> ReaderAt]
      /\ \A t \in Tasks : lock = t <=> pc[t] = "mark"
  BY WsBoundsOK DEF WsInit, TaskAt, ReaderAt
<1>3. /\ sending \in [Tasks -> 0 .. connects]
      /\ using \in [Connections -> 0 .. connects]
      /\ connects \in 0 .. MaxConnects /\ transport \in 0 .. connects
      /\ live \subseteq 1 .. connects
  BY WsBoundsOK DEF WsInit
<1> QED
  BY <1>1, <1>2, <1>3 DEF WsInit, TypeInv, FreedInv

LEMMA TypeNext == TypeInv /\ [WsNext]_wsVars => TypeInv'
<1> SUFFICES ASSUME TypeInv, [WsNext]_wsVars
             PROVE  TypeInv'
  OBVIOUS
<1> USE WsBoundsOK, SessionTypes DEF TypeInv, TaskAt, ReaderAt,
     Connections, readerVars
<1>1. ASSUME NEW t \in Tasks, ConnectTest(t)
      PROVE  TypeInv'
  BY <1>1 DEF ConnectTest, CanConnect
<1>2. ASSUME NEW t \in Tasks, ConnectRequest(t)
      PROVE  TypeInv'
  BY <1>2 DEF ConnectRequest, RequestConnect
<1>3. ASSUME NEW t \in Tasks, ConnectRefused(t)
      PROVE  TypeInv'
  BY <1>3 DEF ConnectRefused, FinishDisconnect, NoteDisconnected, Free
<1>4. ASSUME NEW t \in Tasks, ConnectCreate(t)
      PROVE  TypeInv'
  BY <1>4 DEF ConnectCreate, Free
<1>5. ASSUME NEW t \in Tasks, ConnectAbandon(t)
      PROVE  TypeInv'
  <2>1. s' \in SessionSet
    BY <1>5, SessionTypes DEF ConnectAbandon
  <2>2. running' \in BOOLEAN
    BY <1>5 DEF ConnectAbandon, Established, SessionSet
  <2>3. live' \subseteq 1 .. connects /\ transport' \in 0 .. connects
    BY <1>5 DEF ConnectAbandon, DestroyTransports
  <2>4. pc' \in [Tasks -> TaskAt] /\ UNCHANGED <<lock, reader, using, sending>>
    BY <1>5 DEF ConnectAbandon
  <2>5. \A u \in Tasks : lock' = u <=> pc'[u] = "mark"
    BY <1>5 DEF ConnectAbandon
  <2>6. UNCHANGED <<doneSem, freed, overlapped, unjoined, connects>>
    BY <1>5 DEF ConnectAbandon
  <2> QED
    BY <2>1, <2>2, <2>3, <2>4, <2>5, <2>6
<1>6. ASSUME NEW t \in Tasks, Handshake(t)
      PROVE  TypeInv'
  BY <1>6 DEF Handshake
<1>7. ASSUME NEW t \in Tasks, ConnectEstablish(t)
      PROVE  TypeInv'
  BY <1>7 DEF ConnectEstablish, FinishConnect, Established, Free
<1>8. ASSUME NEW t \in Tasks, ConnectMark(t)
      PROVE  TypeInv'
  BY <1>8 DEF ConnectMark
<1>9. ASSUME NEW t \in Tasks, DisconnectBegin(t)
      PROVE  TypeInv'
  BY <1>9 DEF DisconnectBegin, MayCallDisconnect, MayDisconnect,
       RequestDisconnect, NoteDisconnected, Free
<1>10. ASSUME NEW t \in Tasks, DisconnectJoin(t)
       PROVE  TypeInv'
  BY <1>10 DEF DisconnectJoin
<1>11. ASSUME NEW t \in Tasks, DisconnectEnd(t)
       PROVE  TypeInv'
  <2>1. s' \in SessionSet
    BY <1>11, SessionTypes DEF DisconnectEnd
  <2>2. live' \subseteq 1 .. connects /\ transport' \in 0 .. connects
    BY <1>11 DEF DisconnectEnd, DestroyTransports
  <2>3. UNCHANGED <<running, doneSem, freed, overlapped, unjoined, connects,
                    lock, reader, using, sending>>
    BY <1>11 DEF DisconnectEnd
  <2>4. /\ pc' \in [Tasks -> TaskAt]
        /\ \A u \in Tasks : lock' = u <=> pc'[u] = "mark"
    BY <1>11 DEF DisconnectEnd
  <2> QED
    BY <2>1, <2>2, <2>3, <2>4
<1>12. CASE CloseFree
  BY <1>12 DEF CloseFree, MayDisconnect
<1>13. ASSUME NEW t \in Tasks, Send(t)
       PROVE  TypeInv'
  BY <1>13 DEF Send, Free
<1>14. ASSUME NEW t \in Tasks, Sent(t)
       PROVE  TypeInv'
  BY <1>14 DEF Sent
<1>15. ASSUME NEW c \in Connections, ReaderLoops(c)
       PROVE  TypeInv'
  BY <1>15 DEF ReaderLoops
<1>16. ASSUME NEW c \in Connections, ReaderReturns(c)
       PROVE  TypeInv'
  <2>1. reader' \in [Connections -> ReaderAt]
    BY <1>16 DEF ReaderReturns
  <2>2. using' \in [Connections -> 0 .. connects]
    BY <1>16 DEF ReaderReturns
  <2>3. running' \in BOOLEAN
    BY <1>16 DEF ReaderReturns
  <2>4. UNCHANGED <<s, transport, doneSem, lock, pc, sending, live, connects,
                    freed, overlapped, unjoined>>
    BY <1>16 DEF ReaderReturns
  <2> QED
    BY <2>1, <2>2, <2>3, <2>4
<1>17. ASSUME NEW c \in Connections, MessageHandled(c)
       PROVE  TypeInv'
  BY <1>17 DEF MessageHandled
<1>18. ASSUME NEW c \in Connections, ReaderNotes(c)
       PROVE  TypeInv'
  BY <1>18 DEF ReaderNotes, NoteDisconnected
<1>19. ASSUME NEW c \in Connections, DisconnectHandled(c)
       PROVE  TypeInv'
  BY <1>19 DEF DisconnectHandled
<1>20. ASSUME NEW c \in Connections, ReaderClears(c)
       PROVE  TypeInv'
  BY <1>20 DEF ReaderClears
<1>21. ASSUME NEW c \in Connections, ReaderGives(c)
       PROVE  TypeInv'
  BY <1>21 DEF ReaderGives
<1>22. CASE UNCHANGED wsVars
  BY <1>22 DEF wsVars, readerVars
<1> QED
  BY <1>1, <1>2, <1>3, <1>4, <1>5, <1>6, <1>7, <1>8, <1>9, <1>10, <1>11,
     <1>12, <1>13, <1>14, <1>15, <1>16, <1>17, <1>18, <1>19, <1>20, <1>21,
     <1>22
  DEF WsNext, TaskStep, ReaderStep

LEMMA FreedNext == FreedInv /\ TypeInv /\ [WsNext]_wsVars => FreedInv'
<1> SUFFICES ASSUME FreedInv, TypeInv, [WsNext]_wsVars
             PROVE  FreedInv'
  OBVIOUS
<1>0. pc \in [Tasks -> TaskAt]
  BY DEF TypeInv
<1> USE <1>0 DEF FreedInv, AllIdle
<1>1. ASSUME NEW t \in Tasks, ConnectTest(t)
      PROVE  FreedInv'
  BY <1>1 DEF ConnectTest, CanConnect
<1>2. ASSUME NEW t \in Tasks, ConnectRequest(t)
      PROVE  FreedInv'
  BY <1>2 DEF ConnectRequest, RequestConnect
<1>3. ASSUME NEW t \in Tasks, ConnectRefused(t)
      PROVE  FreedInv'
  BY <1>3 DEF ConnectRefused, FinishDisconnect, NoteDisconnected, Free
<1>4. ASSUME NEW t \in Tasks, ConnectCreate(t)
      PROVE  FreedInv'
  BY <1>4 DEF ConnectCreate, Free
<1>5. ASSUME NEW t \in Tasks, ConnectAbandon(t)
      PROVE  FreedInv'
  BY <1>5 DEF ConnectAbandon, FinishDisconnect, NoteDisconnected,
       DestroyTransports
<1>6. ASSUME NEW t \in Tasks, Handshake(t)
      PROVE  FreedInv'
  BY <1>6 DEF Handshake
<1>7. ASSUME NEW t \in Tasks, ConnectEstablish(t)
      PROVE  FreedInv'
  BY <1>7 DEF ConnectEstablish, FinishConnect, Established, Free
<1>8. ASSUME NEW t \in Tasks, ConnectMark(t)
      PROVE  FreedInv'
  BY <1>8 DEF ConnectMark
<1>9. ASSUME NEW t \in Tasks, DisconnectBegin(t)
      PROVE  FreedInv'
  BY <1>9 DEF DisconnectBegin, MayCallDisconnect, MayDisconnect,
       RequestDisconnect, NoteDisconnected, Free
<1>10. ASSUME NEW t \in Tasks, DisconnectJoin(t)
       PROVE  FreedInv'
  BY <1>10 DEF DisconnectJoin
<1>11. ASSUME NEW t \in Tasks, DisconnectEnd(t)
       PROVE  FreedInv'
  BY <1>11 DEF DisconnectEnd, FinishDisconnect, NoteDisconnected,
       DestroyTransports
<1>12. CASE CloseFree
  BY <1>12 DEF CloseFree, MayDisconnect
<1>13. ASSUME NEW t \in Tasks, Send(t)
       PROVE  FreedInv'
  BY <1>13 DEF Send, Free
<1>14. ASSUME NEW t \in Tasks, Sent(t)
       PROVE  FreedInv'
  BY <1>14 DEF Sent
<1>15. ASSUME NEW c \in Connections, ReaderLoops(c)
       PROVE  FreedInv'
  BY <1>15 DEF ReaderLoops
<1>16. ASSUME NEW c \in Connections, ReaderReturns(c)
       PROVE  FreedInv'
  BY <1>16 DEF ReaderReturns
<1>17. ASSUME NEW c \in Connections, MessageHandled(c)
       PROVE  FreedInv'
  BY <1>17 DEF MessageHandled
<1>18. ASSUME NEW c \in Connections, ReaderNotes(c)
       PROVE  FreedInv'
  BY <1>18 DEF ReaderNotes, NoteDisconnected
<1>19. ASSUME NEW c \in Connections, DisconnectHandled(c)
       PROVE  FreedInv'
  BY <1>19 DEF DisconnectHandled
<1>20. ASSUME NEW c \in Connections, ReaderClears(c)
       PROVE  FreedInv'
  BY <1>20 DEF ReaderClears
<1>21. ASSUME NEW c \in Connections, ReaderGives(c)
       PROVE  FreedInv'
  BY <1>21 DEF ReaderGives
<1>22. CASE UNCHANGED wsVars
  BY <1>22 DEF wsVars, readerVars
<1> QED
  BY <1>1, <1>2, <1>3, <1>4, <1>5, <1>6, <1>7, <1>8, <1>9, <1>10, <1>11,
     <1>12, <1>13, <1>14, <1>15, <1>16, <1>17, <1>18, <1>19, <1>20, <1>21,
     <1>22
  DEF WsNext, TaskStep, ReaderStep

Serving(c) == reader[c] \in {"top", "read", "message"}

\* Each flag of the session has somebody behind it who will take it back.
SessionInv ==
  /\ s.connecting =>
       \E t \in Tasks : pc[t] \in {"take", "handshake", "establish"}
  /\ s.closing => \E t \in Tasks : pc[t] \in {"join", "destroy"}
  /\ s.connected => \/ running /\ \E c \in Connections : Serving(c)
                    \/ \E c \in Connections : reader[c] = "note"


LEMMA SessionInit == WsInit => SessionInv
  BY DEF WsInit, NoSession, SessionInv

LEMMA SessionNext == TypeInv /\ SessionInv /\ [WsNext]_wsVars => SessionInv'
<1> SUFFICES ASSUME TypeInv, SessionInv, [WsNext]_wsVars
             PROVE  SessionInv'
  OBVIOUS
<1>0. /\ s \in SessionSet /\ pc \in [Tasks -> TaskAt]
      /\ reader \in [Connections -> ReaderAt]
  BY DEF TypeInv
<1> USE <1>0 DEF SessionInv, SessionSet, Serving, readerVars
<1>1. ASSUME NEW t \in Tasks, ConnectTest(t)
      PROVE  SessionInv'
  BY <1>1 DEF ConnectTest, CanConnect
<1>2. ASSUME NEW t \in Tasks, ConnectRequest(t)
      PROVE  SessionInv'
  BY <1>2 DEF ConnectRequest, RequestConnect
<1>3. ASSUME NEW t \in Tasks, ConnectRefused(t)
      PROVE  SessionInv'
  BY <1>3 DEF ConnectRefused, FinishDisconnect, NoteDisconnected, Free
<1>4. ASSUME NEW t \in Tasks, ConnectCreate(t)
      PROVE  SessionInv'
  BY <1>4 DEF ConnectCreate, Free
<1>5. ASSUME NEW t \in Tasks, ConnectAbandon(t)
      PROVE  SessionInv'
  BY <1>5 DEF ConnectAbandon, FinishDisconnect, NoteDisconnected,
       DestroyTransports
<1>6. ASSUME NEW t \in Tasks, Handshake(t)
      PROVE  SessionInv'
  BY <1>6 DEF Handshake
<1>7. ASSUME NEW t \in Tasks, ConnectEstablish(t)
      PROVE  SessionInv'
  BY <1>7 DEF ConnectEstablish, FinishConnect, Established, Free
<1>8. ASSUME NEW t \in Tasks, ConnectMark(t)
      PROVE  SessionInv'
  BY <1>8 DEF ConnectMark
<1>9. ASSUME NEW t \in Tasks, DisconnectBegin(t)
      PROVE  SessionInv'
  BY <1>9 DEF DisconnectBegin, MayCallDisconnect, MayDisconnect,
       RequestDisconnect, NoteDisconnected, Free
<1>10. ASSUME NEW t \in Tasks, DisconnectJoin(t)
       PROVE  SessionInv'
  BY <1>10 DEF DisconnectJoin
<1>11. ASSUME NEW t \in Tasks, DisconnectEnd(t)
       PROVE  SessionInv'
  BY <1>11 DEF DisconnectEnd, FinishDisconnect, NoteDisconnected,
       DestroyTransports
<1>12. CASE CloseFree
  BY <1>12 DEF CloseFree, MayDisconnect
<1>13. ASSUME NEW t \in Tasks, Send(t)
       PROVE  SessionInv'
  BY <1>13 DEF Send, Free
<1>14. ASSUME NEW t \in Tasks, Sent(t)
       PROVE  SessionInv'
  BY <1>14 DEF Sent
<1>15. ASSUME NEW c \in Connections, ReaderLoops(c)
       PROVE  SessionInv'
  BY <1>15 DEF ReaderLoops
<1>16. ASSUME NEW c \in Connections, ReaderReturns(c)
       PROVE  SessionInv'
  BY <1>16 DEF ReaderReturns
<1>17. ASSUME NEW c \in Connections, MessageHandled(c)
       PROVE  SessionInv'
  BY <1>17 DEF MessageHandled
<1>18. ASSUME NEW c \in Connections, ReaderNotes(c)
       PROVE  SessionInv'
  BY <1>18 DEF ReaderNotes, NoteDisconnected
<1>19. ASSUME NEW c \in Connections, DisconnectHandled(c)
       PROVE  SessionInv'
  BY <1>19 DEF DisconnectHandled
<1>20. ASSUME NEW c \in Connections, ReaderClears(c)
       PROVE  SessionInv'
  BY <1>20 DEF ReaderClears
<1>21. ASSUME NEW c \in Connections, ReaderGives(c)
       PROVE  SessionInv'
  BY <1>21 DEF ReaderGives
<1>22. CASE UNCHANGED wsVars
  BY <1>22 DEF wsVars, readerVars
<1> QED
  BY <1>1, <1>2, <1>3, <1>4, <1>5, <1>6, <1>7, <1>8, <1>9, <1>10, <1>11,
     <1>12, <1>13, <1>14, <1>15, <1>16, <1>17, <1>18, <1>19, <1>20, <1>21,
     <1>22
  DEF WsNext, TaskStep, ReaderStep

Connecting(t) == pc[t] \in {"request", "take", "handshake", "establish"}
Disconnecting(t) == pc[t] \in {"join", "destroy"}
Switching(t) == pc[t] \in InConnect \cup {"join", "destroy"}

\* Where no disconnect and no connect overlaps a connect: one task at a time
\* changes the transport, and no send is inside the one it takes away.
SendInv ==
  ~overlapped =>
    /\ \A t, u \in Tasks : Switching(t) /\ Switching(u) => t = u
    /\ \A t \in Tasks : Connecting(t) => ~s.connected /\ ~s.closing
    /\ \A t \in Tasks : Disconnecting(t) =>
         /\ ~s.connected /\ s.closing /\ ~running
         /\ \A u \in Tasks : pc[u] # "send"
    /\ \A t \in Tasks : pc[t] \in {"handshake", "establish"} =>
         /\ transport \in live
         /\ \A u \in Tasks : pc[u] = "send" => sending[u] # transport
    /\ s.connected => transport \in live
    /\ \A t \in Tasks : pc[t] = "send" => sending[t] \in live


LEMMA SendInit == WsInit => SendInv
  BY DEF WsInit, NoSession, SendInv, Switching, Connecting, Disconnecting,
         InConnect

LEMMA SendNext == TypeInv /\ SendInv /\ [WsNext]_wsVars => SendInv'
<1> SUFFICES ASSUME TypeInv, SendInv, [WsNext]_wsVars
             PROVE  SendInv'
  OBVIOUS
<1>0. /\ s \in SessionSet /\ pc \in [Tasks -> TaskAt]
      /\ sending \in [Tasks -> 0 .. connects]
      /\ connects \in Nat /\ transport \in 0 .. connects
      /\ live \subseteq 1 .. connects
  BY WsBoundsOK DEF TypeInv
<1> USE <1>0 DEF SendInv, SessionSet, Switching, Connecting, Disconnecting,
     InConnect, readerVars
<1>1. ASSUME NEW t \in Tasks, ConnectTest(t)
      PROVE  SendInv'
  <2>1. CASE overlapped'
    BY <2>1
  <2>2. CASE ~overlapped'
    <3>1. ~overlapped /\ \A u \in Tasks : pc[u] \notin InConnect
      BY <1>1, <2>2 DEF ConnectTest
    <3>2. ~s.connected /\ ~s.closing
      BY <1>1 DEF ConnectTest, CanConnect
    <3> QED BY <1>1, <2>2, <3>1, <3>2 DEF ConnectTest
  <2> QED BY <2>1, <2>2
<1>2. ASSUME NEW t \in Tasks, ConnectRequest(t)
      PROVE  SendInv'
  BY <1>2 DEF ConnectRequest, RequestConnect
<1>3. ASSUME NEW t \in Tasks, ConnectRefused(t)
      PROVE  SendInv'
  BY <1>3 DEF ConnectRefused, FinishDisconnect, NoteDisconnected, Free
<1>4. ASSUME NEW t \in Tasks, ConnectCreate(t)
      PROVE  SendInv'
  BY <1>4 DEF ConnectCreate, Free
<1>5. ASSUME NEW t \in Tasks, ConnectAbandon(t)
      PROVE  SendInv'
  BY <1>5 DEF ConnectAbandon, FinishDisconnect, NoteDisconnected,
       DestroyTransports
<1>6. ASSUME NEW t \in Tasks, Handshake(t)
      PROVE  SendInv'
  BY <1>6 DEF Handshake
<1>7. ASSUME NEW t \in Tasks, ConnectEstablish(t)
      PROVE  SendInv'
  BY <1>7 DEF ConnectEstablish, FinishConnect, Established, Free
<1>8. ASSUME NEW t \in Tasks, ConnectMark(t)
      PROVE  SendInv'
  BY <1>8 DEF ConnectMark
<1>9. ASSUME NEW t \in Tasks, DisconnectBegin(t)
      PROVE  SendInv'
  BY <1>9 DEF DisconnectBegin, MayCallDisconnect, MayDisconnect,
       RequestDisconnect, NoteDisconnected, Free
<1>10. ASSUME NEW t \in Tasks, DisconnectJoin(t)
       PROVE  SendInv'
  BY <1>10 DEF DisconnectJoin
<1>11. ASSUME NEW t \in Tasks, DisconnectEnd(t)
       PROVE  SendInv'
  BY <1>11 DEF DisconnectEnd, FinishDisconnect, NoteDisconnected,
       DestroyTransports
<1>12. CASE CloseFree
  BY <1>12 DEF CloseFree, MayDisconnect
<1>13. ASSUME NEW t \in Tasks, Send(t)
       PROVE  SendInv'
  BY <1>13 DEF Send, Free
<1>14. ASSUME NEW t \in Tasks, Sent(t)
       PROVE  SendInv'
  BY <1>14 DEF Sent
<1>15. ASSUME NEW c \in Connections, ReaderLoops(c)
       PROVE  SendInv'
  BY <1>15 DEF ReaderLoops
<1>16. ASSUME NEW c \in Connections, ReaderReturns(c)
       PROVE  SendInv'
  BY <1>16 DEF ReaderReturns
<1>17. ASSUME NEW c \in Connections, MessageHandled(c)
       PROVE  SendInv'
  BY <1>17 DEF MessageHandled
<1>18. ASSUME NEW c \in Connections, ReaderNotes(c)
       PROVE  SendInv'
  BY <1>18 DEF ReaderNotes, NoteDisconnected
<1>19. ASSUME NEW c \in Connections, DisconnectHandled(c)
       PROVE  SendInv'
  BY <1>19 DEF DisconnectHandled
<1>20. ASSUME NEW c \in Connections, ReaderClears(c)
       PROVE  SendInv'
  BY <1>20 DEF ReaderClears
<1>21. ASSUME NEW c \in Connections, ReaderGives(c)
       PROVE  SendInv'
  BY <1>21 DEF ReaderGives
<1>22. CASE UNCHANGED wsVars
  BY <1>22 DEF wsVars, readerVars
<1> QED
  BY <1>1, <1>2, <1>3, <1>4, <1>5, <1>6, <1>7, <1>8, <1>9, <1>10, <1>11,
     <1>12, <1>13, <1>14, <1>15, <1>16, <1>17, <1>18, <1>19, <1>20, <1>21,
     <1>22
  DEF WsNext, TaskStep, ReaderStep

\* Where moreover every receive task has been joined before the next connect:
\* there is at most one, and the acknowledgement is its own.
JoinInv ==
  ~overlapped /\ ~unjoined =>
    /\ \A c, d \in Connections : Reading(c) /\ Reading(d) => c = d
    /\ doneSem => \A c \in Connections : ~Reading(c)
    /\ \A t \in Tasks : Connecting(t) \/ pc[t] = "destroy" =>
         ~doneSem /\ \A c \in Connections : ~Reading(c)
    /\ s.connected => \A c \in Connections :
         Reading(c) => Serving(c) \/ reader[c] = "note"
    /\ \A c \in Connections : Serving(c) =>
         s.connected \/ \E t \in Tasks : pc[t] = "join"
    /\ s.connected /\ lock = Nobody => s.worker
    /\ running => s.connected
    /\ \A c \in Connections : reader[c] = "note" => ~running
    /\ \A c \in Connections :
         reader[c] = "read" => using[c] = transport /\ transport \in live
    /\ freed => \A c \in Connections : ~Reading(c)


LEMMA JoinInit == WsInit => JoinInv
  BY DEF WsInit, NoSession, JoinInv, Reading, Serving, Connecting

LEMMA JoinNext ==
  TypeInv /\ SessionInv /\ SendInv /\ FreedInv /\ JoinInv /\ [WsNext]_wsVars
  => JoinInv'
<1> SUFFICES ASSUME TypeInv, SessionInv, SendInv, FreedInv, JoinInv,
                    [WsNext]_wsVars
             PROVE  JoinInv'
  OBVIOUS
<1>0. /\ s \in SessionSet /\ pc \in [Tasks -> TaskAt]
      /\ reader \in [Connections -> ReaderAt]
      /\ using \in [Connections -> 0 .. connects]
      /\ \A t \in Tasks : lock = t <=> pc[t] = "mark"
  BY DEF TypeInv
<1> USE <1>0, WsBoundsOK DEF JoinInv, SendInv, SessionSet, Reading,
     Serving, Connecting, Disconnecting, Switching, InConnect, readerVars
<1>1. ASSUME NEW t \in Tasks, ConnectTest(t)
      PROVE  JoinInv'
  <2> SUFFICES ASSUME ~overlapped', ~unjoined'
               PROVE  JoinInv'
    BY DEF JoinInv
  <2>1. /\ ~overlapped /\ ~unjoined /\ ~doneSem /\ ~s.connected /\ ~s.closing
        /\ \A d \in Connections : ~Ending(d)
    BY <1>1 DEF ConnectTest, CanConnect
  <2>2. \A d \in Connections : ~Serving(d)
    BY <2>1
  <2>3. \A d \in Connections : ~Reading(d)
    BY <2>1, <2>2 DEF Ending, ReaderAt
  <2> QED
    BY <1>1, <2>1, <2>2, <2>3 DEF ConnectTest
<1>2. ASSUME NEW t \in Tasks, ConnectRequest(t)
      PROVE  JoinInv'
  BY <1>2 DEF ConnectRequest, RequestConnect
<1>3. ASSUME NEW t \in Tasks, ConnectRefused(t)
      PROVE  JoinInv'
  BY <1>3 DEF ConnectRefused, FinishDisconnect, NoteDisconnected, Free
<1>4. ASSUME NEW t \in Tasks, ConnectCreate(t)
      PROVE  JoinInv'
  BY <1>4 DEF ConnectCreate, Free
<1>5. ASSUME NEW t \in Tasks, ConnectAbandon(t)
      PROVE  JoinInv'
  BY <1>5 DEF ConnectAbandon, FinishDisconnect, NoteDisconnected,
       DestroyTransports
<1>6. ASSUME NEW t \in Tasks, Handshake(t)
      PROVE  JoinInv'
  BY <1>6 DEF Handshake
<1>7. ASSUME NEW t \in Tasks, ConnectEstablish(t)
      PROVE  JoinInv'
  <2> SUFFICES ASSUME ~overlapped', ~unjoined'
               PROVE  JoinInv'
    BY DEF JoinInv
  <2>1. /\ ~overlapped /\ ~unjoined /\ ~doneSem /\ ~s.connected
        /\ \A d \in Connections : ~Reading(d)
    BY <1>7 DEF ConnectEstablish
  <2>2. s'.connected /\ running' /\ lock' = t
    BY <1>7, <2>1 DEF ConnectEstablish, FinishConnect, Established
  <2>3. PICK c \in Connections : reader' = [reader EXCEPT ![c] = "top"]
    BY <1>7 DEF ConnectEstablish
  <2>4. /\ Reading(c)' /\ Serving(c)'
        /\ \A d \in Connections : d # c => ~Reading(d)'
    BY <2>1, <2>3
  <2>5. /\ UNCHANGED <<doneSem, using, transport, live, freed>>
        /\ ~freed
        /\ \A u \in Tasks : ~Connecting(u)' /\ pc'[u] # "destroy"
    BY <1>7, <2>1 DEF ConnectEstablish, FreedInv, AllIdle
  <2> QED
    BY <2>1, <2>2, <2>3, <2>4, <2>5
<1>8. ASSUME NEW t \in Tasks, ConnectMark(t)
      PROVE  JoinInv'
  BY <1>8 DEF ConnectMark
<1>9. ASSUME NEW t \in Tasks, DisconnectBegin(t)
      PROVE  JoinInv'
  <2> SUFFICES ASSUME ~overlapped', ~unjoined'
               PROVE  JoinInv'
    BY DEF JoinInv
  <2>1. /\ ~overlapped /\ ~unjoined /\ lock = Nobody
        /\ \A u \in Tasks : pc[u] \notin InConnect
    BY <1>9 DEF DisconnectBegin, MayCallDisconnect, Free
  <2>2. s.worker
    BY <1>9, <2>1 DEF DisconnectBegin, MayDisconnect, SessionInv
  <2>3. /\ pc' = [pc EXCEPT ![t] = "join"] /\ pc[t] = "idle"
        /\ ~running' /\ ~freed
        /\ UNCHANGED <<transport, doneSem, lock, reader, using, live, freed>>
    BY <1>9, <2>2 DEF DisconnectBegin, MayCallDisconnect
  <2>4. ~s'.connected
    BY <1>9 DEF DisconnectBegin, NoteDisconnected, RequestDisconnect
  <2>5. pc'[t] = "join" /\ \A u \in Tasks : u # t => pc'[u] = pc[u]
    BY <2>3
  <2> QED
    BY <2>1, <2>3, <2>4, <2>5
<1>10. ASSUME NEW t \in Tasks, DisconnectJoin(t)
       PROVE  JoinInv'
  BY <1>10 DEF DisconnectJoin
<1>11. ASSUME NEW t \in Tasks, DisconnectEnd(t)
       PROVE  JoinInv'
  BY <1>11 DEF DisconnectEnd, FinishDisconnect, NoteDisconnected,
       DestroyTransports
<1>12. CASE CloseFree
  <2> SUFFICES ASSUME ~overlapped', ~unjoined'
               PROVE  JoinInv'
    BY DEF JoinInv
  <2>1. /\ ~overlapped /\ ~unjoined /\ \A u \in Tasks : pc[u] = "idle"
        /\ \A d \in Connections : ~Ending(d)
    BY <1>12 DEF CloseFree
  <2>2. ~s.connected
    BY <1>12, <2>1 DEF CloseFree, MayDisconnect, SessionInv
  <2>3. \A d \in Connections : ~Serving(d)
    BY <2>1, <2>2
  <2>4. \A d \in Connections : ~Reading(d)
    BY <2>1, <2>3 DEF Ending, ReaderAt
  <2> QED
    BY <1>12, <2>1, <2>2, <2>3, <2>4 DEF CloseFree
<1>13. ASSUME NEW t \in Tasks, Send(t)
       PROVE  JoinInv'
  BY <1>13 DEF Send, Free
<1>14. ASSUME NEW t \in Tasks, Sent(t)
       PROVE  JoinInv'
  BY <1>14 DEF Sent
<1>15. ASSUME NEW c \in Connections, ReaderLoops(c)
       PROVE  JoinInv'
  <2> SUFFICES ASSUME ~overlapped', ~unjoined'
               PROVE  JoinInv'
    BY DEF JoinInv
  <2>1. /\ ~overlapped /\ ~unjoined /\ reader[c] = "top"
        /\ UNCHANGED <<s, running, transport, doneSem, lock, pc, live, freed>>
    BY <1>15 DEF ReaderLoops
  <2>2. /\ \A d \in Connections : Reading(d) => d = c
        /\ running => s.connected /\ transport \in live
    BY <2>1
  <2>3. s.connected => running
    BY <2>1, <2>2 DEF SessionInv
  <2>4. /\ reader'[c] = IF running THEN "read" ELSE "clear"
        /\ using'[c] = IF running THEN transport ELSE 0
        /\ \A d \in Connections \ {c} : reader'[d] = reader[d]
    BY <1>15 DEF ReaderLoops
  <2>5. /\ \A d \in Connections : Reading(d)' => d = c
        /\ ~doneSem /\ ~freed
        /\ \A u \in Tasks : ~Connecting(u) /\ pc[u] # "destroy"
    BY <2>1, <2>2, <2>4
  <2> QED
    BY <2>1, <2>2, <2>3, <2>4, <2>5
<1>16. ASSUME NEW c \in Connections, ReaderReturns(c)
       PROVE  JoinInv'
  <2> SUFFICES ASSUME ~overlapped', ~unjoined'
               PROVE  JoinInv'
    BY DEF JoinInv
  <2>1. /\ ~overlapped /\ ~unjoined /\ reader[c] = "read"
        /\ UNCHANGED <<s, transport, doneSem, lock, pc, live, freed>>
        /\ reader'[c] \in {"clear", "message", "top", "note"}
        /\ \A d \in Connections \ {c} : reader'[d] = reader[d]
    BY <1>16 DEF ReaderReturns
  <2>2. /\ \A d \in Connections : Reading(d) => d = c
        /\ ~doneSem /\ ~freed
        /\ \A u \in Tasks : ~Connecting(u) /\ pc[u] # "destroy"
    BY <2>1
  <2>3. s.connected => running
    BY <2>1, <2>2 DEF SessionInv
  <2>4. /\ running' => running
        /\ reader'[c] = "note" => ~running'
        /\ reader'[c] = "clear" => ~running
    BY <1>16 DEF ReaderReturns
  <2>5. \A d \in Connections : Reading(d)' => d = c
    BY <2>1, <2>2
  <2> QED
    BY <2>1, <2>2, <2>3, <2>4, <2>5
<1>17. ASSUME NEW c \in Connections, MessageHandled(c)
       PROVE  JoinInv'
  BY <1>17 DEF MessageHandled
<1>18. ASSUME NEW c \in Connections, ReaderNotes(c)
       PROVE  JoinInv'
  BY <1>18 DEF ReaderNotes, NoteDisconnected
<1>19. ASSUME NEW c \in Connections, DisconnectHandled(c)
       PROVE  JoinInv'
  BY <1>19 DEF DisconnectHandled
<1>20. ASSUME NEW c \in Connections, ReaderClears(c)
       PROVE  JoinInv'
  BY <1>20 DEF ReaderClears
<1>21. ASSUME NEW c \in Connections, ReaderGives(c)
       PROVE  JoinInv'
  BY <1>21 DEF ReaderGives
<1>22. CASE UNCHANGED wsVars
  BY <1>22 DEF wsVars, readerVars
<1> QED
  BY <1>1, <1>2, <1>3, <1>4, <1>5, <1>6, <1>7, <1>8, <1>9, <1>10, <1>11,
     <1>12, <1>13, <1>14, <1>15, <1>16, <1>17, <1>18, <1>19, <1>20, <1>21,
     <1>22
  DEF WsNext, TaskStep, ReaderStep

-----------------------------------------------------------------------------
(* What a caller may conclude from the flags: the types, that a connected  *)
(* handle has a receive task that will notice the loss, and that no call   *)
(* leaves the session connecting or closing.                               *)
THEOREM WsFlagsAreTrue == WsSpec => []WsConsistent
<1>1. TypeInv /\ SessionInv => WsConsistent
  <2> SUFFICES ASSUME TypeInv, SessionInv
               PROVE  WsConsistent
    OBVIOUS
  <2>1. WsTypeOK
    BY DEF TypeInv, WsTypeOK, SessionSet
  <2>2. ConnectedIsServed
    BY DEF SessionInv, ConnectedIsServed, Serving, Reading
  <2>3. SessionIsReleased
    BY DEF SessionInv, SessionIsReleased, AllIdle
  <2> QED
    BY <2>1, <2>2, <2>3 DEF WsConsistent
<1> QED
  BY <1>1, TypeInit, TypeNext, SessionInit, SessionNext, PTL DEF WsSpec

(* disconnect and close take nothing away from a call or a receive task    *)
(* that uses it, whatever connections were lost and made again before, as  *)
(* long as the callers keep the calls apart that the property excuses.     *)
THEOREM WsNothingFreedInUse == WsSpec => []NothingFreedInUse
<1>1. SendInv /\ JoinInv => NothingFreedInUse
  BY DEF SendInv, JoinInv, NothingFreedInUse
<1> QED
  BY <1>1, TypeInit, TypeNext, FreedNext, SessionInit, SessionNext, SendInit,
     SendNext, JoinInit, JoinNext, PTL DEF WsSpec
-----------------------------------------------------------------------------
(* Who has the client: the capability through its handle, poll while it    *)
(* opens one, or nobody; and which events esp-mqtt can be reporting.       *)
Opening == {"connect", "waiting", "established", "giveup"}

ClientInv ==
  /\ poll # "idle" => started
  /\ ~started => ~handle /\ flags = {} /\ pending = << >>
  /\ handle => poll \notin Opening /\ esp \in {"trying", "up"} /\ started
  /\ ~handle /\ poll \notin Opening => esp = "none"
  /\ poll = "connect" => esp = "stopped"
  /\ poll \in {"waiting", "established"} => esp \in {"trying", "up"}
  /\ esp \in {"none", "stopped"} => Idle
  /\ handler \in {"connected", "tell_connected"} => esp = "up"
  /\ handler \in {"failed", "tell_error", "lost", "tell_lost"} => esp = "trying"
  /\ poll \in Opening \cup {"reopen"} => ~connected

(* The variables keep their types.                                         *)
MqttTypes ==
  /\ session \in SessionSet
  /\ answer \in {"none", "connected", "failed"}
  /\ esp \in {"none", "stopped", "trying", "up"} /\ handler \in HandlerAt
  /\ {subscribed, started, ready, handle, connected, shown} \subseteq BOOLEAN
  /\ poll \in PollAt
  /\ flags \subseteq {"connected", "disconnected", "error"}
  /\ wait \in 0 .. MaxBackoff /\ backoff \in 0 .. MaxBackoff
  /\ quirks \subseteq {"late", "coalesced", "relinked", "stale"}

(* What the session and the answer to connect say of the connection.       *)
MqttSessionInv ==
  /\ ~session.closing
  /\ session.connected =>
       \/ esp = "up" /\ handler \in {"idle", "tell_connected"}
       \/ esp = "trying" /\ handler = "lost"
  /\ answer = "connected" => ~session.connecting
  /\ poll = "waiting" /\ answer = "none" => session.connecting
  /\ poll = "established" => answer = "connected"
  /\ handler = "tell_connected" => answer # "none"
  /\ poll \in {"waiting", "established"} /\ answer = "connected" =>
       \/ session.connected
       \/ "disconnected" \in flags
       \/ handler = "tell_lost"
  /\ poll = "waiting" /\ esp = "up" /\ Idle =>
       answer = "connected" \/ "late" \in quirks
  /\ poll = "giveup" /\ esp = "up" /\ Idle => "late" \in quirks

(* What connected_ will be when poll has gone once through the flags.      *)
Expected ==
  IF poll = "disconnected"
  THEN (connected /\ "disconnected" \notin flags) \/ "connected" \in flags
  ELSE (connected \/ "connected" \in flags) /\ "disconnected" \notin flags

ExpectedInv ==
  quirks \cap {"late", "coalesced"} = {} /\ handler \notin {"lost", "tell_lost"}
    => (Expected <=> esp = "up" /\ Idle)

LinkInv ==
  /\ started /\ "stale" \notin quirks => (shown <=> connected)
  /\ quirks = {} /\ handle /\ esp = "up" => session.connected
  /\ quirks = {} /\ connected /\ esp = "up" => subscribed

(* The client changes hands only in poll and in stop.                      *)
LEMMA ClientInvNext ==
  ClientInv /\ [MqttNext]_vars => ClientInv'
<1> SUFFICES ASSUME ClientInv, [MqttNext]_vars
             PROVE  ClientInv'
  OBVIOUS
<1> USE DEF ClientInv, Opening, mqttVars, capVars, Idle
<1>1. CASE Start
  BY <1>1 DEF Start
<1>2. CASE Stop
  BY <1>2 DEF Stop, MqttClose
<1>3. CASE NetworkChanges
  BY <1>3 DEF NetworkChanges
<1>4. CASE PollConnected
  BY <1>4 DEF PollConnected, Take, MqttSubscribe
<1>5. CASE PollDisconnected
  BY <1>5 DEF PollDisconnected, Take
<1>6. CASE PollError
  BY <1>6 DEF PollError, Take
<1>7. CASE PollDrain
  BY <1>7 DEF PollDrain
<1>8. CASE OpenRefused
  BY <1>8 DEF OpenRefused, RetryLater, Lesser
<1>9. CASE OpenBroker
  BY <1>9 DEF OpenBroker, MqttOpen
<1>10. CASE Connect
  BY <1>10 DEF Connect, MqttStart, CanConnect
<1>11. CASE ConnectWakes
  BY <1>11 DEF ConnectWakes
<1>12. CASE ConnectSucceeds
  BY <1>12 DEF ConnectSucceeds, MqttConnected
<1>13. CASE ConnectFails
  BY <1>13 DEF ConnectFails, MqttClose, RetryLater, Lesser
<1>14. CASE EspFails /\ UNCHANGED capVars
  BY <1>14 DEF EspFails
<1>15. CASE EspLoses /\ UNCHANGED capVars
  BY <1>15 DEF EspLoses
<1>16. CASE HandleConnected /\ UNCHANGED capVars
  BY <1>16 DEF HandleConnected, Answer
<1>17. CASE HandleLost /\ UNCHANGED capVars
  BY <1>17 DEF HandleLost, Answer
<1>18. CASE HandleError /\ UNCHANGED capVars
  BY <1>18 DEF HandleError, Answer
<1>19. CASE EspUp
  BY <1>19 DEF EspUp, EspConnects
<1>20. CASE MessageArrives
  BY <1>20 DEF MessageArrives
<1>21. ASSUME NEW state \in {"connected", "disconnected", "error"},
             StateCallback(state)
      PROVE  ClientInv'
  BY <1>21 DEF StateCallback, Told
<1>22. CASE UNCHANGED vars
  BY <1>22 DEF vars
<1> QED
  BY <1>1, <1>2, <1>3, <1>4, <1>5, <1>6, <1>7, <1>8, <1>9, <1>10, <1>11,
     <1>12, <1>13, <1>14, <1>15, <1>16, <1>17, <1>18, <1>19, <1>20, <1>21,
     <1>22
  DEF MqttNext, PollStep, EspTask, EspStep

(* No action takes a variable out of its type.                             *)
LEMMA MqttTypesNext ==
  MqttTypes /\ [MqttNext]_vars => MqttTypes'
<1> SUFFICES ASSUME MqttTypes, [MqttNext]_vars
             PROVE  MqttTypes'
  OBVIOUS
<1> USE MqttBoundsOK, SessionTypes DEF MqttTypes, HandlerAt, PollAt, mqttVars,
        capVars, Idle
<1>1. CASE Start
  <2>1. {subscribed, started, ready, handle, connected, shown}'
          \subseteq BOOLEAN
    BY <1>1, Zenon DEF Start
  <2>2. /\ wait' = 0 /\ backoff' = MinBackoff
        /\ quirks' \subseteq {"late", "coalesced", "relinked", "stale"}
    BY <1>1 DEF Start
  <2>3. UNCHANGED <<session, answer, esp, handler, poll, flags>>
    BY <1>1 DEF Start
  <2> QED BY <2>1, <2>2, <2>3
<1>2. CASE Stop
  BY <1>2 DEF Stop, MqttClose, NoSession, SessionSet
<1>3. CASE NetworkChanges
  BY <1>3 DEF NetworkChanges
<1>4. CASE PollConnected
  <2>1. {subscribed, started, ready, handle, connected, shown}'
          \subseteq BOOLEAN
    <3>1. subscribed' \in BOOLEAN
      BY <1>4, Zenon DEF PollConnected, MqttSubscribe
    <3> QED BY <1>4, <3>1, Zenon DEF PollConnected
  <2>2. /\ wait' \in 0 .. MaxBackoff /\ backoff' \in 0 .. MaxBackoff
        /\ flags' \subseteq flags /\ poll' = "disconnected"
    BY <1>4 DEF PollConnected, Take
  <2>3. UNCHANGED <<session, answer, esp, handler, quirks>>
    BY <1>4 DEF PollConnected
  <2> QED BY <2>1, <2>2, <2>3
<1>5. CASE PollDisconnected
  BY <1>5 DEF PollDisconnected, Take
<1>6. CASE PollError
  BY <1>6 DEF PollError, Take
<1>7. CASE PollDrain
  BY <1>7 DEF PollDrain
<1>8. CASE OpenRefused
  BY <1>8 DEF OpenRefused, RetryLater, Lesser
<1>9. CASE OpenBroker
  BY <1>9 DEF OpenBroker, MqttOpen
<1>10. CASE Connect
  BY <1>10 DEF Connect, MqttStart, CanConnect
<1>11. CASE ConnectWakes
  BY <1>11 DEF ConnectWakes
<1>12. CASE ConnectSucceeds
  BY <1>12 DEF ConnectSucceeds, MqttConnected
<1>13. CASE ConnectFails
  <2>1. NoSession \in SessionSet
    BY DEF NoSession, SessionSet
  <2>2. wait' \in 0 .. MaxBackoff /\ backoff' \in 0 .. MaxBackoff
    BY <1>13 DEF ConnectFails, RetryLater, Lesser
  <2>3. {subscribed, started, ready, handle, connected, shown}'
          \subseteq BOOLEAN
    BY <1>13, Zenon DEF ConnectFails, MqttClose
  <2> QED BY <1>13, <2>1, <2>2, <2>3 DEF ConnectFails, MqttClose
<1>14. CASE EspFails /\ UNCHANGED capVars
  BY <1>14 DEF EspFails
<1>15. CASE EspLoses /\ UNCHANGED capVars
  BY <1>15 DEF EspLoses
<1>16. CASE HandleConnected /\ UNCHANGED capVars
  BY <1>16 DEF HandleConnected, Answer
<1>17. CASE HandleLost /\ UNCHANGED capVars
  BY <1>17 DEF HandleLost, Answer
<1>18. CASE HandleError /\ UNCHANGED capVars
  BY <1>18 DEF HandleError, Answer
<1>19. CASE EspUp
  BY <1>19 DEF EspUp, EspConnects
<1>20. CASE MessageArrives
  BY <1>20 DEF MessageArrives
<1>21. ASSUME NEW state \in {"connected", "disconnected", "error"},
             StateCallback(state)
      PROVE  MqttTypes'
  BY <1>21 DEF StateCallback, Told
<1>22. CASE UNCHANGED vars
  BY <1>22 DEF vars
<1> QED
  BY <1>1, <1>2, <1>3, <1>4, <1>5, <1>6, <1>7, <1>8, <1>9, <1>10, <1>11,
     <1>12, <1>13, <1>14, <1>15, <1>16, <1>17, <1>18, <1>19, <1>20, <1>21,
     <1>22
  DEF MqttNext, PollStep, EspTask, EspStep

(* The session follows what esp-mqtt reports.                              *)
LEMMA MqttSessionNext ==
  ClientInv /\ MqttTypes /\ MqttSessionInv /\ [MqttNext]_vars => MqttSessionInv'
<1> SUFFICES ASSUME ClientInv, MqttTypes, MqttSessionInv, [MqttNext]_vars
             PROVE  MqttSessionInv'
  OBVIOUS
<1> USE DEF MqttSessionInv, ClientInv, Opening, MqttTypes, SessionSet,
  mqttVars,
        capVars, Idle
<1>1. CASE Start
  BY <1>1 DEF Start
<1>2. CASE Stop
  BY <1>2 DEF Stop, MqttClose, NoSession
<1>3. CASE NetworkChanges
  BY <1>3 DEF NetworkChanges
<1>4. CASE PollConnected
  BY <1>4 DEF PollConnected, Take, MqttSubscribe
<1>5. CASE PollDisconnected
  BY <1>5 DEF PollDisconnected, Take
<1>6. CASE PollError
  BY <1>6 DEF PollError, Take
<1>7. CASE PollDrain
  BY <1>7 DEF PollDrain
<1>8. CASE OpenRefused
  BY <1>8 DEF OpenRefused, RetryLater, Lesser
<1>9. CASE OpenBroker
  BY <1>9 DEF OpenBroker, MqttOpen
<1>10. CASE Connect
  BY <1>10 DEF Connect, MqttStart, CanConnect, RequestConnect
<1>11. CASE ConnectWakes
  BY <1>11 DEF ConnectWakes
<1>12. CASE ConnectSucceeds
  BY <1>12 DEF ConnectSucceeds, MqttConnected, FinishConnect, Established
<1>13. CASE ConnectFails
  BY <1>13 DEF ConnectFails, MqttClose, RetryLater, Lesser, NoSession
<1>14. CASE EspFails /\ UNCHANGED capVars
  BY <1>14 DEF EspFails
<1>15. CASE EspLoses /\ UNCHANGED capVars
  BY <1>15 DEF EspLoses
<1>16. CASE HandleConnected /\ UNCHANGED capVars
  BY <1>16 DEF HandleConnected, Answer, FinishConnect
<1>17. CASE HandleLost /\ UNCHANGED capVars
  BY <1>17 DEF HandleLost, Answer, NoteDisconnected
<1>18. CASE HandleError /\ UNCHANGED capVars
  BY <1>18 DEF HandleError, Answer
<1>19. CASE EspUp
  BY <1>19 DEF EspUp, EspConnects
<1>20. CASE MessageArrives
  BY <1>20 DEF MessageArrives
<1>21. ASSUME NEW state \in {"connected", "disconnected", "error"},
             StateCallback(state)
      PROVE  MqttSessionInv'
  BY <1>21 DEF StateCallback, Told
<1>22. CASE UNCHANGED vars
  BY <1>22 DEF vars
<1> QED
  BY <1>1, <1>2, <1>3, <1>4, <1>5, <1>6, <1>7, <1>8, <1>9, <1>10, <1>11,
     <1>12, <1>13, <1>14, <1>15, <1>16, <1>17, <1>18, <1>19, <1>20, <1>21,
     <1>22
  DEF MqttNext, PollStep, EspTask, EspStep

(* Each flag brings poll nearer to what esp-mqtt has told.                 *)
LEMMA ExpectedNext ==
  ClientInv /\ MqttTypes /\ MqttSessionInv /\ ExpectedInv /\ [MqttNext]_vars => ExpectedInv'
<1> SUFFICES ASSUME ClientInv, MqttTypes, MqttSessionInv, ExpectedInv, [MqttNext]_vars
             PROVE  ExpectedInv'
  OBVIOUS
<1> USE DEF ExpectedInv, Expected, ClientInv, Opening, MqttSessionInv,
  mqttVars,
        capVars, Idle
<1>1. CASE Start
  BY <1>1 DEF Start
<1>2. CASE Stop
  BY <1>2 DEF Stop, MqttClose
<1>3. CASE NetworkChanges
  BY <1>3 DEF NetworkChanges
<1>4. CASE PollConnected
  BY <1>4 DEF PollConnected, Take, MqttSubscribe
<1>5. CASE PollDisconnected
  BY <1>5 DEF PollDisconnected, Take
<1>6. CASE PollError
  BY <1>6 DEF PollError, Take
<1>7. CASE PollDrain
  BY <1>7 DEF PollDrain
<1>8. CASE OpenRefused
  BY <1>8 DEF OpenRefused, RetryLater, Lesser
<1>9. CASE OpenBroker
  BY <1>9 DEF OpenBroker, MqttOpen
<1>10. CASE Connect
  BY <1>10 DEF Connect, MqttStart, CanConnect
<1>11. CASE ConnectWakes
  BY <1>11 DEF ConnectWakes
<1>12. CASE ConnectSucceeds
  BY <1>12 DEF ConnectSucceeds, MqttConnected
<1>13. CASE ConnectFails
  BY <1>13 DEF ConnectFails, MqttClose, RetryLater, Lesser, Established
<1>14. CASE EspFails /\ UNCHANGED capVars
  BY <1>14 DEF EspFails
<1>15. CASE EspLoses /\ UNCHANGED capVars
  BY <1>15 DEF EspLoses
<1>16. CASE HandleConnected /\ UNCHANGED capVars
  BY <1>16 DEF HandleConnected, Answer
<1>17. CASE HandleLost /\ UNCHANGED capVars
  BY <1>17 DEF HandleLost, Answer
<1>18. CASE HandleError /\ UNCHANGED capVars
  BY <1>18 DEF HandleError, Answer
<1>19. CASE EspUp
  BY <1>19 DEF EspUp, EspConnects
<1>20. CASE MessageArrives
  BY <1>20 DEF MessageArrives
<1>21. ASSUME NEW state \in {"connected", "disconnected", "error"},
             StateCallback(state)
      PROVE  ExpectedInv'
  BY <1>21 DEF StateCallback, Told
<1>22. CASE UNCHANGED vars
  BY <1>22 DEF vars
<1> QED
  BY <1>1, <1>2, <1>3, <1>4, <1>5, <1>6, <1>7, <1>8, <1>9, <1>10, <1>11,
     <1>12, <1>13, <1>14, <1>15, <1>16, <1>17, <1>18, <1>19, <1>20, <1>21,
     <1>22
  DEF MqttNext, PollStep, EspTask, EspStep

(* What the product sees, and what it can do with the connection.          *)
LEMMA LinkNext ==
  ClientInv /\ MqttTypes /\ MqttSessionInv /\ LinkInv /\ [MqttNext]_vars => LinkInv'
<1> SUFFICES ASSUME ClientInv, MqttTypes, MqttSessionInv, LinkInv, [MqttNext]_vars
             PROVE  LinkInv'
  OBVIOUS
<1> USE DEF LinkInv, ClientInv, Opening, MqttSessionInv, MqttTypes, SessionSet,
        mqttVars, capVars, Idle
<1>1. CASE Start
  BY <1>1 DEF Start
<1>2. CASE Stop
  BY <1>2 DEF Stop, MqttClose
<1>3. CASE NetworkChanges
  BY <1>3 DEF NetworkChanges
<1>4. CASE PollConnected
  BY <1>4 DEF PollConnected, Take, MqttSubscribe
<1>5. CASE PollDisconnected
  BY <1>5 DEF PollDisconnected, Take
<1>6. CASE PollError
  BY <1>6 DEF PollError, Take
<1>7. CASE PollDrain
  BY <1>7 DEF PollDrain
<1>8. CASE OpenRefused
  BY <1>8 DEF OpenRefused, RetryLater, Lesser
<1>9. CASE OpenBroker
  BY <1>9 DEF OpenBroker, MqttOpen
<1>10. CASE Connect
  BY <1>10 DEF Connect, MqttStart, CanConnect, RequestConnect
<1>11. CASE ConnectWakes
  BY <1>11 DEF ConnectWakes
<1>12. CASE ConnectSucceeds
  BY <1>12 DEF ConnectSucceeds, MqttConnected, FinishConnect, Established
<1>13. CASE ConnectFails
  BY <1>13 DEF ConnectFails, MqttClose, RetryLater, Lesser
<1>14. CASE EspFails /\ UNCHANGED capVars
  BY <1>14 DEF EspFails
<1>15. CASE EspLoses /\ UNCHANGED capVars
  BY <1>15 DEF EspLoses
<1>16. CASE HandleConnected /\ UNCHANGED capVars
  BY <1>16 DEF HandleConnected, Answer, FinishConnect
<1>17. CASE HandleLost /\ UNCHANGED capVars
  BY <1>17 DEF HandleLost, Answer, NoteDisconnected
<1>18. CASE HandleError /\ UNCHANGED capVars
  BY <1>18 DEF HandleError, Answer
<1>19. CASE EspUp
  BY <1>19 DEF EspUp, EspConnects
<1>20. CASE MessageArrives
  BY <1>20 DEF MessageArrives
<1>21. ASSUME NEW state \in {"connected", "disconnected", "error"},
             StateCallback(state)
      PROVE  LinkInv'
  BY <1>21 DEF StateCallback, Told
<1>22. CASE UNCHANGED vars
  BY <1>22 DEF vars
<1> QED
  BY <1>1, <1>2, <1>3, <1>4, <1>5, <1>6, <1>7, <1>8, <1>9, <1>10, <1>11,
     <1>12, <1>13, <1>14, <1>15, <1>16, <1>17, <1>18, <1>19, <1>20, <1>21,
     <1>22
  DEF MqttNext, PollStep, EspTask, EspStep

(* What is queued is numbered without a gap up to the last received.       *)
MessagesInv ==
  /\ received \in 0 .. MaxMessages /\ seen \in 0 .. received
  /\ pending \in Seq(1 .. received) /\ Len(pending) <= MaxPending
  /\ NewestMessagesKept

(* A message that arrives becomes the newest; poll takes the whole queue.  *)
LEMMA MessagesNext == MessagesInv /\ [MqttNext]_vars => MessagesInv'
<1> SUFFICES ASSUME MessagesInv, [MqttNext]_vars
             PROVE  MessagesInv'
  OBVIOUS
<1>0. /\ received \in Nat /\ received <= MaxMessages
      /\ seen \in Nat /\ seen <= received
      /\ MaxPending \in Nat \ {0} /\ MaxMessages \in Nat
      /\ Len(pending) \in Nat /\ Len(pending) <= MaxPending
      /\ \A i \in 1 .. Len(pending) :
           pending[i] = received - Len(pending) + i /\ pending[i] > seen
      /\ Len(pending) < MaxPending => Len(pending) = received - seen
  BY MqttBoundsOK DEF MessagesInv, NewestMessagesKept
\* The queue is emptied and everything received is done with.
<1>1. ASSUME pending' = << >>, seen' = received, UNCHANGED received
      PROVE  MessagesInv'
  <2>1. /\ pending' \in Seq(1 .. received) /\ Len(pending') = 0
        /\ received - received = 0
    BY <1>0, <1>1
  <2>2. \A i \in 1 .. 0 : FALSE
    OBVIOUS
  <2> QED BY <1>0, <1>1, <2>1, <2>2 DEF MessagesInv, NewestMessagesKept
<1>2. ASSUME UNCHANGED <<pending, received, seen>> PROVE MessagesInv'
  BY <1>2 DEF MessagesInv, NewestMessagesKept
<1>3. CASE Stop
  BY <1>1, <1>3 DEF Stop
<1>4. CASE PollDrain
  <2>1. CASE pending = << >>
    <3>1. seen = received
      BY <1>0, <2>1
    <3> QED BY <1>1, <1>4, <2>1, <3>1 DEF PollDrain
  <2>2. CASE pending # << >>
    <3>1. Len(pending) \in 1 .. Len(pending)
      BY <1>0, <2>2 DEF MessagesInv
    <3>2. pending[Len(pending)] = received
      BY <1>0, <3>1
    <3> QED BY <1>1, <1>4, <2>2, <3>2 DEF PollDrain
  <2> QED BY <2>1, <2>2
<1>5. CASE MessageArrives
  <2> DEFINE kept == IF Len(pending) < MaxPending THEN pending ELSE Tail(pending)
  <2>1. /\ received' = received + 1 /\ received' \in 0 .. MaxMessages
        /\ UNCHANGED seen /\ pending' = Append(kept, received + 1)
    BY <1>0, <1>5 DEF MessageArrives
  <2>2. /\ kept \in Seq(1 .. received) /\ Len(kept) < MaxPending
        /\ \A i \in 1 .. Len(kept) : /\ kept[i] = received - Len(kept) + i
                                     /\ kept[i] > seen
        /\ Len(kept) + 1 < MaxPending => Len(kept) = received - seen
    <3>1. CASE Len(pending) < MaxPending
      BY <1>0, <3>1 DEF MessagesInv
    <3>2. CASE ~(Len(pending) < MaxPending)
      <4>1. pending # << >> /\ pending \in Seq(1 .. received)
        BY <1>0, <3>2 DEF MessagesInv
      <4>2. /\ kept = Tail(pending) /\ kept \in Seq(1 .. received)
            /\ Len(kept) = Len(pending) - 1
            /\ \A i \in 1 .. Len(kept) : kept[i] = pending[i + 1]
        BY <3>2, <4>1
      <4> HIDE DEF kept
      <4>3. \A i \in 1 .. Len(kept) : /\ i + 1 \in 1 .. Len(pending)
                                      /\ received - Len(pending) + (i + 1)
                                           = received - Len(kept) + i
        BY <1>0, <4>2
      <4> QED BY <1>0, <3>2, <4>2, <4>3
    <3> QED BY <3>1, <3>2
  <2> HIDE DEF kept
  <2>3. kept \in Seq(1 .. received + 1)
    <3>1. 1 .. received \subseteq 1 .. received + 1
      BY <1>0
    <3> QED BY <2>2, <3>1, SeqMonotonic
  <2> DEFINE q == Append(kept, received + 1)
  <2>4. /\ q \in Seq(1 .. received + 1) /\ Len(q) = Len(kept) + 1
        /\ Len(kept) \in Nat
        /\ \A i \in 1 .. Len(q) :
             q[i] = IF i = Len(kept) + 1 THEN received + 1 ELSE kept[i]
    <3>1. received + 1 \in 1 .. received + 1
      BY <1>0
    <3> QED BY <2>3, <3>1
  <2> HIDE DEF q
  <2>5. \A i \in 1 .. Len(q) :
          q[i] = (received + 1) - Len(q) + i /\ q[i] > seen
    <3> TAKE i \in 1 .. Len(q)
    <3>1. CASE i = Len(kept) + 1
      BY <1>0, <2>4, <3>1
    <3>2. CASE i # Len(kept) + 1
      <4>1. i \in 1 .. Len(kept)
        BY <2>4, <3>2
      <4>2. q[i] = received - Len(kept) + i /\ q[i] > seen
        BY <2>2, <2>4, <3>2, <4>1
      <4>3. (received + 1) - Len(q) + i = received - Len(kept) + i
        BY <1>0, <2>4, <4>1
      <4> QED BY <4>2, <4>3
    <3> QED BY <3>1, <3>2
  <2>6. /\ Len(q) <= MaxPending
        /\ Len(q) < MaxPending => Len(q) = (received + 1) - seen
    BY <1>0, <2>2, <2>4
  <2>7. seen \in 0 .. received + 1
    BY <1>0
  <2>8. pending' = q /\ received' = received + 1
    BY <2>1 DEF q
  <2> QED BY <2>1, <2>4, <2>5, <2>6, <2>7, <2>8 DEF MessagesInv,
    NewestMessagesKept
<1>6. CASE UNCHANGED vars
  BY <1>2, <1>6 DEF vars, capVars
<1>7. CASE \/ Start \/ NetworkChanges \/ PollConnected \/ PollDisconnected
           \/ PollError \/ OpenRefused \/ OpenBroker \/ Connect \/ ConnectWakes
           \/ ConnectSucceeds \/ ConnectFails \/ EspStep \/ EspUp
           \/ \E state \in {"connected", "disconnected", "error"} :
                StateCallback(state)
  BY <1>2, <1>7
  DEF Start, NetworkChanges, PollConnected, PollDisconnected, PollError,
      OpenRefused, OpenBroker, Connect, ConnectWakes, ConnectSucceeds,
      ConnectFails, EspStep, EspUp, StateCallback, capVars
<1> QED
  BY <1>3, <1>4, <1>5, <1>6, <1>7 DEF MqttNext, PollStep, EspTask

MqttInv ==
  ClientInv /\ MqttTypes /\ MqttSessionInv /\ ExpectedInv /\ LinkInv /\ MessagesInv

LEMMA MqttInvInit == MqttInit => MqttInv
<1> SUFFICES ASSUME MqttInit PROVE MqttInv
  OBVIOUS
<1> USE MqttBoundsOK DEF MqttInit, Closed, Idle
<1>1. ClientInv
  BY DEF ClientInv, Opening
<1>2. MqttTypes
  <2>1. {subscribed, started, ready, handle, connected, shown} \subseteq BOOLEAN
    BY Zenon
  <2>2. NoSession \in SessionSet
    BY DEF NoSession, SessionSet
  <2> QED BY <2>1, <2>2 DEF MqttTypes, HandlerAt, PollAt
<1>3. MqttSessionInv
  BY DEF MqttSessionInv, NoSession
<1>4. ExpectedInv
  BY DEF ExpectedInv, Expected
<1>5. LinkInv
  BY DEF LinkInv
<1>6. MessagesInv
  BY DEF MessagesInv, NewestMessagesKept
<1> QED BY <1>1, <1>2, <1>3, <1>4, <1>5, <1>6 DEF MqttInv

LEMMA MqttInvNext == MqttInv /\ [MqttNext]_vars => MqttInv'
  BY ClientInvNext, MqttTypesNext, MqttSessionNext, ExpectedNext, LinkNext,
     MessagesNext
  DEF MqttInv

(* With everything delivered, connected_ is the state of the broker, the   *)
(* status the product sees is connected_, and a connection can be used,    *)
(* apart from the cases the property leaves out.                           *)
THEOREM MqttStatusAgrees == MqttSpec => []MqttConsistent
<1>1. ASSUME MqttInv PROVE MqttTypeOK
  <2>1. /\ DOMAIN session = DOMAIN NoSession
        /\ \A f \in DOMAIN session : session[f] \in BOOLEAN
    BY <1>1 DEF MqttInv, MqttTypes, SessionSet, NoSession
  <2>2. /\ subscribed \in BOOLEAN /\ started \in BOOLEAN /\ ready \in BOOLEAN
        /\ handle \in BOOLEAN /\ connected \in BOOLEAN /\ shown \in BOOLEAN
    BY <1>1, Zenon DEF MqttInv, MqttTypes
  <2> QED BY <1>1, <2>1, <2>2
          DEF MqttInv, MqttTypes, MessagesInv, ClientInv, MqttTypeOK
<1>2. ASSUME MqttInv PROVE StatusAgrees
  <2> SUFFICES ASSUME Settled, started PROVE
        /\ quirks \cap {"late", "coalesced"} = {} =>
             (connected <=> handle /\ esp = "up")
        /\ "stale" \notin quirks => (shown <=> connected)
        /\ quirks = {} /\ connected => session.connected /\ subscribed
    BY DEF StatusAgrees
  <2>1. esp = "up" => handle
    BY <1>2 DEF MqttInv, ClientInv, Settled, Opening
  <2>2. quirks \cap {"late", "coalesced"} = {} =>
          (connected <=> handle /\ esp = "up")
    BY <1>2, <2>1 DEF MqttInv, ExpectedInv, Expected, Settled, Idle
  <2> QED BY <1>2, <2>2 DEF MqttInv, LinkInv
<1>3. MqttInv => MqttConsistent
  BY <1>1, <1>2 DEF MqttConsistent
<1> QED BY MqttInvInit, MqttInvNext, <1>3, PTL DEF MqttSpec

(* Whatever bursts arrive, the messages that wait are the newest, in order *)
(* and once each, and no message, flag or client outlives its run.         *)
THEOREM MqttMessagesKept == MqttSpec => []MessagesKept
<1>1. MqttInv => MessagesKept
  BY DEF MqttInv, ClientInv, MessagesInv, MessagesKept, NothingOfEarlierRun,
         Opening
<1> QED BY MqttInvInit, MqttInvNext, <1>1, PTL DEF MqttSpec
=============================================================================
