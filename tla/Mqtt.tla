-------------------------------- MODULE Mqtt --------------------------------
(* services/protocol/mqtt.c: the MQTT client on top of esp-mqtt, whose own *)
(* task calls mqtt_event_handler and connects again by itself when a       *)
(* broker is lost. Each action says what the client's variables become;    *)
(* the module that extends this one says which thread calls it, and when.  *)
EXTENDS Naturals, Session

VARIABLES session,    \* h->session
          answer,     \* the event that ends the wait of connect: the bits
                      \* of h->event_group since connect cleared them
          esp,        \* the esp-mqtt client: none, stopped, trying or up
          handler,    \* where mqtt_event_handler is
          subscribed  \* the broker holds the subscriptions of this connection

mqttVars == <<session, answer, esp, handler, subscribed>>

Idle == handler = "idle"
HandlerAt == {"idle", "connected", "tell_connected", "failed", "tell_error",
              "lost", "tell_lost"}

Closed == session = NoSession /\ answer = "none" /\ esp = "none"
            /\ handler = "idle" /\ subscribed = FALSE

MqttOpen ==
  /\ esp = "none" /\ esp' = "stopped"
  /\ UNCHANGED <<session, answer, handler, subscribed>>

\* blusys_mqtt_close, with the stop that esp_mqtt_client_destroy implies:
\* both wait until the esp-mqtt task is out of the handler.
MqttClose ==
  /\ Idle
  /\ session' = NoSession /\ answer' = "none" /\ esp' = "none"
  /\ subscribed' = FALSE
  /\ UNCHANGED handler

\* blusys_mqtt_connect up to its wait.
MqttStart ==
  /\ CanConnect(session) /\ esp = "stopped"
  /\ session' = RequestConnect(session)
  /\ answer' = "none" /\ esp' = "trying"
  /\ UNCHANGED <<handler, subscribed>>

\* The wait of connect ends well: the event or connect itself finishes it.
MqttConnected ==
  /\ answer = "connected" /\ Established(session)
  /\ session' = FinishConnect(session, TRUE)
  /\ UNCHANGED <<answer, esp, handler, subscribed>>

\* blusys_mqtt_subscribe, INVALID_STATE unless the session is connected.
MqttSubscribe == subscribed' = (subscribed \/ (session.connected /\ esp = "up"))

-----------------------------------------------------------------------------
(* The esp-mqtt task: it connects, is refused, or loses the broker, which  *)
(* ends the subscriptions, and calls the handler.                          *)
EspConnects ==
  /\ esp = "trying" /\ Idle
  /\ esp' = "up" /\ handler' = "connected"
  /\ UNCHANGED <<session, answer, subscribed>>

EspFails ==
  /\ esp = "trying" /\ Idle
  /\ handler' = "failed"
  /\ UNCHANGED <<session, answer, esp, subscribed>>

EspLoses ==
  /\ esp = "up" /\ Idle
  /\ esp' = "trying" /\ handler' = "lost" /\ subscribed' = FALSE
  /\ UNCHANGED <<session, answer>>

\* The first bit that is set is what the waiting connect wakes with.
Answer(a) == answer' = IF answer = "none" THEN a ELSE answer

\* mqtt_event_handler up to the call of state_cb.
HandleConnected ==
  /\ handler = "connected"
  /\ session' = FinishConnect(session, TRUE)
  /\ Answer("connected")
  /\ handler' = "tell_connected"
  /\ UNCHANGED <<esp, subscribed>>

HandleLost ==
  /\ handler = "lost"
  /\ session' = NoteDisconnected(session)
  /\ Answer("failed")
  /\ handler' = "tell_lost"
  /\ UNCHANGED <<esp, subscribed>>

\* A refused attempt is an error and then a disconnection.
HandleError ==
  /\ handler = "failed"
  /\ Answer("failed")
  /\ handler' = "tell_error"
  /\ UNCHANGED <<session, esp, subscribed>>

\* state_cb(state) has been called.
Told(state) ==
  /\ \/ state = "connected" /\ handler = "tell_connected" /\ handler' = "idle"
     \/ state = "error" /\ handler = "tell_error" /\ handler' = "lost"
     \/ state = "disconnected" /\ handler = "tell_lost" /\ handler' = "idle"
  /\ UNCHANGED <<session, answer, esp, subscribed>>

=============================================================================
