------------------------------- MODULE Session -------------------------------
(* services/internal/session_helper.h: the flags of a connection, shared   *)
(* by the WebSocket and MQTT clients. Each operator is one helper; what a   *)
(* helper answers is an operator of its own.                               *)

NoSession == [connected |-> FALSE, connecting |-> FALSE, closing |-> FALSE,
              worker |-> FALSE]

CanConnect(s) == ~s.connected /\ ~s.connecting /\ ~s.closing

RequestConnect(s) == [s EXCEPT !.connecting = TRUE]

FinishConnect(s, ok) ==
  IF ~s.connecting THEN s
  ELSE [s EXCEPT !.connecting = FALSE, !.connected = ok /\ ~s.closing]

\* What finish_connect(session, true) answers.
Established(s) == IF s.connecting THEN ~s.closing ELSE s.connected

MayDisconnect(s) ==
  ~s.closing /\ (s.connected \/ s.connecting \/ s.worker)

RequestDisconnect(s) == [s EXCEPT !.closing = TRUE]

NoteDisconnected(s) ==
  [s EXCEPT !.connected = FALSE, !.connecting = FALSE, !.worker = FALSE]

FinishDisconnect(s) == [NoteDisconnected(s) EXCEPT !.closing = FALSE]

=============================================================================
