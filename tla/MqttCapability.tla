--------------------------- MODULE MqttCapability ---------------------------
(* framework/capabilities/mqtt_device.cpp over the client of Mqtt. The     *)
(* runtime thread starts, polls and stops the capability and, inside a     *)
(* poll, opens and connects the client; the esp-mqtt task only sets the    *)
(* pending flags and queues messages. Messages are numbered as received.   *)
EXTENDS Mqtt, Sequences

CONSTANTS MaxPending,   \* kMaxPending, 16
          MinBackoff,   \* cfg_.reconnect_min_ms, in polls
          MaxBackoff,   \* cfg_.reconnect_max_ms
          MaxMessages   \* bound: messages received

ASSUME MqttBoundsOK ==
  /\ MaxPending \in Nat \ {0} /\ MaxMessages \in Nat
  /\ MinBackoff \in Nat \ {0} /\ MaxBackoff \in Nat
  /\ MinBackoff <= MaxBackoff

VARIABLES poll,       \* where the runtime thread is in poll
          started,    \* started and not stopped: rt_ is not null
          ready,      \* network_ready_
          handle,     \* mqtt_handle_ is not null
          connected,  \* connected_
          shown,      \* status_.connected and status_.capability_ready
          flags,      \* the pending_ flags that are set
          pending,    \* pending_
          received,   \* messages received so far
          seen,       \* the last message given to the product
          wait,       \* time left until next_reconnect_ms_
          backoff,    \* backoff_ms_
          quirks      \* what happened in this run that the code does not
                      \* follow: late, coalesced, relinked or stale

capVars == <<poll, started, ready, handle, connected, shown, flags, pending,
             received, seen, wait, backoff, quirks>>
vars == <<mqttVars, capVars>>

PollAt == {"idle", "disconnected", "error", "drain", "reopen", "connect",
           "waiting", "established", "giveup"}

MqttInit ==
  /\ Closed
  /\ poll = "idle" /\ started = FALSE /\ ready = FALSE /\ handle = FALSE
  /\ connected = FALSE /\ shown = FALSE /\ flags = {} /\ pending = << >>
  /\ received = 0 /\ seen = 0 /\ wait = 0 /\ backoff = 0 /\ quirks = {}

Lesser(a, b) == IF a < b THEN a ELSE b

-----------------------------------------------------------------------------
Start ==
  /\ poll = "idle" /\ ~started
  /\ started' = TRUE /\ connected' = FALSE
  /\ wait' = 0 /\ backoff' = MinBackoff
  /\ quirks' = IF shown THEN {"stale"} ELSE {}
  /\ UNCHANGED <<mqttVars, poll, ready, handle, shown, flags, pending,
                 received, seen>>

\* close_broker, then everything that is pending is cleared.
Stop ==
  /\ poll = "idle" /\ started
  /\ MqttClose
  /\ handle' = FALSE /\ started' = FALSE /\ ready' = FALSE
  /\ connected' = FALSE
  /\ pending' = << >> /\ seen' = received
  /\ flags' = {}
  /\ UNCHANGED <<poll, shown, received, wait, backoff, quirks>>

\* The product's mark_network_ready, between two polls.
NetworkChanges ==
  /\ poll = "idle" /\ started
  /\ ready' = ~ready
  /\ UNCHANGED <<mqttVars, poll, started, handle, connected, shown, flags,
                 pending, received, seen, wait, backoff, quirks>>

-----------------------------------------------------------------------------
(* poll: the three flags in turn, the messages, and a broker to open.      *)
Take(flag) == flags' = flags \ {flag}

\* Fault: the topics of auto_subscribe_topics are not subscribed.
PollConnectedSilent ==
  /\ poll = "idle" /\ started
  /\ poll' = "disconnected"
  /\ Take("connected")
  /\ wait' = IF wait > 0 THEN wait - 1 ELSE 0
  /\ connected' = (connected \/ "connected" \in flags)
  /\ shown' = (shown \/ "connected" \in flags)
  /\ backoff' = IF "connected" \in flags THEN MinBackoff ELSE backoff
  /\ UNCHANGED <<mqttVars, started, ready, handle, pending, received, seen,
                 quirks>>

\* The time since the last poll has passed; issue_auto_subscribes.
PollConnected ==
  /\ poll = "idle" /\ started
  /\ poll' = "disconnected"
  /\ Take("connected")
  /\ wait' = IF wait > 0 THEN wait - 1 ELSE 0
  /\ IF "connected" \in flags
       THEN /\ connected' = TRUE /\ shown' = TRUE /\ backoff' = MinBackoff
            /\ IF handle THEN MqttSubscribe ELSE UNCHANGED subscribed
       ELSE UNCHANGED <<connected, shown, backoff, subscribed>>
  /\ UNCHANGED <<session, answer, esp, handler, started, ready, handle, pending,
                 received, seen, quirks>>

PollDisconnected ==
  /\ poll = "disconnected"
  /\ poll' = "error"
  /\ Take("disconnected")
  /\ connected' = (connected /\ "disconnected" \notin flags)
  /\ shown' = (shown /\ "disconnected" \notin flags)
  /\ UNCHANGED <<mqttVars, started, ready, handle, pending, received, seen,
                 wait, backoff, quirks>>

PollError ==
  /\ poll = "error"
  /\ poll' = "drain"
  /\ Take("error")
  /\ UNCHANGED <<mqttVars, started, ready, handle, connected, shown, pending,
                 received, seen, wait, backoff, quirks>>

\* pending_ is swapped out under its lock, and every message handled.
PollDrain ==
  /\ poll = "drain"
  /\ poll' = IF ~connected /\ ready /\ wait = 0 THEN "reopen" ELSE "idle"
  /\ pending' = << >>
  /\ seen' = IF pending = << >> THEN seen ELSE pending[Len(pending)]
  /\ UNCHANGED <<mqttVars, started, ready, handle, connected, shown, flags,
                 received, wait, backoff, quirks>>

RetryLater ==
  /\ wait' = backoff
  /\ backoff' = Lesser(2 * backoff, MaxBackoff)

\* open_broker refuses while there is a handle; blusys_mqtt_open may fail.
OpenRefused ==
  /\ poll = "reopen"
  /\ poll' = "idle"
  /\ RetryLater
  /\ UNCHANGED <<mqttVars, started, ready, handle, connected, shown, flags,
                 pending, received, seen, quirks>>

OpenBroker ==
  /\ poll = "reopen" /\ ~handle
  /\ MqttOpen
  /\ poll' = "connect"
  /\ UNCHANGED <<started, ready, handle, connected, shown, flags, pending,
                 received, seen, wait, backoff, quirks>>

Connect ==
  /\ poll = "connect"
  /\ \/ MqttStart /\ poll' = "waiting"
     \/ UNCHANGED mqttVars /\ poll' = "giveup"
  /\ UNCHANGED <<started, ready, handle, connected, shown, flags, pending,
                 received, seen, wait, backoff, quirks>>

\* An event ends the wait, or cfg_.connect_timeout_ms does.
ConnectWakes ==
  /\ poll = "waiting"
  /\ poll' = IF answer = "connected" THEN "established" ELSE "giveup"
  /\ UNCHANGED <<mqttVars, started, ready, handle, connected, shown, flags,
                 pending, received, seen, wait, backoff, quirks>>

ConnectSucceeds ==
  /\ poll = "established" /\ MqttConnected
  /\ poll' = "idle" /\ handle' = TRUE
  /\ UNCHANGED <<started, ready, connected, shown, flags, pending, received,
                 seen, wait, backoff, quirks>>

\* Fault: mqtt_handle_ is kept although connect has failed.
ConnectFailsKeeps ==
  /\ poll = "giveup" \/ (poll = "established" /\ ~Established(session))
  /\ MqttClose
  /\ poll' = "idle" /\ handle' = TRUE
  /\ RetryLater
  /\ UNCHANGED <<started, ready, connected, shown, flags, pending, received,
                 seen, quirks>>

\* connect stops the client and open_broker closes it.
ConnectFails ==
  /\ poll = "giveup" \/ (poll = "established" /\ ~Established(session))
  /\ MqttClose
  /\ poll' = "idle"
  /\ RetryLater
  /\ UNCHANGED <<started, ready, handle, connected, shown, flags, pending,
                 received, seen, quirks>>

-----------------------------------------------------------------------------
(* The esp-mqtt task, with on_mqtt_state and on_mqtt_message.              *)
EspStep ==
  /\ EspFails \/ EspLoses \/ HandleConnected \/ HandleLost \/ HandleError
  /\ UNCHANGED capVars

\* The client comes up for a connect, or again by itself.
EspUp ==
  /\ EspConnects
  /\ quirks' = quirks \cup (IF handle THEN {"relinked"} ELSE {})
  /\ UNCHANGED <<poll, started, ready, handle, connected, shown, flags,
                 pending, received, seen, wait, backoff>>

\* The flags keep no order; a wait that has timed out hears a late answer.
StateCallback(state) ==
  /\ Told(state)
  /\ flags' = flags \cup {state}
  /\ quirks' = quirks
       \cup (IF state = "connected" /\ (poll = "giveup" \/ answer = "failed")
               THEN {"late"} ELSE {})
       \cup (IF \/ state = "connected" /\ "disconnected" \in flags
                \/ state = "disconnected" /\ "connected" \in flags
                     /\ poll = "disconnected"
               THEN {"coalesced"} ELSE {})
  /\ UNCHANGED <<poll, started, ready, handle, connected, shown, pending,
                 received, seen, wait, backoff>>

\* Fault: a full queue drops the message that arrives.
MessageArrivesDropsNew ==
  /\ esp = "up" /\ Idle /\ subscribed /\ received < MaxMessages
  /\ received' = received + 1
  /\ pending' = IF Len(pending) < MaxPending
                  THEN Append(pending, received') ELSE pending
  /\ UNCHANGED <<mqttVars, poll, started, ready, handle, connected, shown,
                 flags, seen, wait, backoff, quirks>>

MessageArrives ==
  /\ esp = "up" /\ Idle /\ subscribed /\ received < MaxMessages
  /\ received' = received + 1
  /\ pending' = Append(IF Len(pending) < MaxPending THEN pending
                       ELSE Tail(pending), received')
  /\ UNCHANGED <<mqttVars, poll, started, ready, handle, connected, shown,
                 flags, seen, wait, backoff, quirks>>

-----------------------------------------------------------------------------
PollStep ==
  \/ PollConnected \/ PollDisconnected \/ PollError \/ PollDrain
  \/ OpenRefused \/ OpenBroker \/ Connect \/ ConnectWakes
  \/ ConnectSucceeds \/ ConnectFails

EspTask ==
  \/ EspStep \/ EspUp \/ MessageArrives
  \/ \E state \in {"connected", "disconnected", "error"} : StateCallback(state)

MqttNext == Start \/ Stop \/ NetworkChanges \/ PollStep \/ EspTask

MqttSpec == MqttInit /\ [][MqttNext]_vars

\* The runtime polls for ever, and the esp-mqtt task leaves its handler.
FairMqttSpec ==
  /\ MqttSpec
  /\ WF_vars(PollStep)
  /\ WF_vars(~Idle /\ EspTask)

-----------------------------------------------------------------------------
Settled == poll = "idle" /\ flags = {} /\ Idle

\* Type invariant.
MqttTypeOK ==
  /\ DOMAIN session = DOMAIN NoSession
  /\ \A f \in DOMAIN session : session[f] \in BOOLEAN
  /\ answer \in {"none", "connected", "failed"}
  /\ esp \in {"none", "stopped", "trying", "up"} /\ handler \in HandlerAt
  /\ subscribed \in BOOLEAN /\ poll \in PollAt
  /\ started \in BOOLEAN /\ ready \in BOOLEAN /\ handle \in BOOLEAN
  /\ connected \in BOOLEAN /\ shown \in BOOLEAN
  /\ flags \subseteq {"connected", "disconnected", "error"}
  /\ received \in 0 .. MaxMessages /\ seen \in 0 .. received
  /\ pending \in Seq(1 .. received) /\ Len(pending) <= MaxPending
  /\ wait \in 0 .. MaxBackoff /\ backoff \in 0 .. MaxBackoff
  /\ quirks \subseteq {"late", "coalesced", "relinked", "stale"}
  /\ handle => started /\ esp \in {"trying", "up"}

(* Once nothing is pending, the capability knows the state of the broker   *)
(* and shows it, and when it is up the session accepts what is published   *)
(* and the topics are subscribed. Left out: an answer that came after the  *)
(* connect had timed out, a loss and a return between two looks at the     *)
(* flags, a status that the run before has left, and, for the session, a   *)
(* client that esp-mqtt has connected again.                               *)
StatusAgrees ==
  Settled /\ started =>
    /\ quirks \cap {"late", "coalesced"} = {} =>
         (connected <=> handle /\ esp = "up")
    /\ "stale" \notin quirks => (shown <=> connected)
    /\ quirks = {} /\ connected => session.connected /\ subscribed

\* The variables hold what they are described as, and the capability what
\* it knows of the broker.
MqttConsistent == MqttTypeOK /\ StatusAgrees

\* A stopped capability has no client left and nothing pending, so that
\* nothing of one run is seen in the next.
NothingOfEarlierRun ==
  ~started => /\ esp = "none" /\ Idle /\ ~handle
              /\ flags = {} /\ pending = << >>

\* The messages that wait are the newest received, in order and once each,
\* and one is missing only when the queue has been full.
NewestMessagesKept ==
  /\ \A i \in 1 .. Len(pending) :
       pending[i] = received - Len(pending) + i /\ pending[i] > seen
  /\ Len(pending) < MaxPending => Len(pending) = received - seen

\* Messages reach the product in the run and in the order they came.
MessagesKept == NothingOfEarlierRun /\ NewestMessagesKept

\* A capability that has a network but no client at work opens one, again
\* and again, except after a late answer, which it takes for a connection.
Retries ==
  started /\ ready /\ esp \notin {"trying", "up"} ~>
    \/ poll = "reopen" /\ ~handle
    \/ esp \in {"trying", "up"}
    \/ ~ready \/ ~started \/ "late" \in quirks

=============================================================================
