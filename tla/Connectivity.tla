---------------------------- MODULE Connectivity ----------------------------
(* framework/capabilities/connectivity_device.cpp: Wi-Fi, provisioning and *)
(* the services that need an address, between the application thread, that *)
(* starts, polls and stops the capability, and the tasks of Wi-Fi, SNTP    *)
(* and provisioning, that leave pending flags for the next poll. The Wi-Fi *)
(* service is seen from its callback: the worker that retries may go on or *)
(* give up at each of its checks, which Wifi models from inside.           *)
EXTENDS Naturals

CONSTANTS Configs,     \* what a product may configure, subsets of Parts
          Servers,     \* services without a state: mDNS and local control
          Timeout,     \* sntp_timeout_ms, in polls
          MaxRuns,     \* bound: starts of the application
          MaxLosses,   \* bound: losses of the link and failed attempts
          MaxRequests  \* bound: request_reconnect calls

Dependents == {"sntp"} \cup Servers
Parts == {"wifi", "prov"} \cup Dependents

ASSUME ConnectivityBoundsOK ==
  /\ Configs \subseteq SUBSET Parts /\ Timeout \in Nat \ {0}
  /\ MaxRuns \in Nat /\ MaxLosses \in Nat /\ MaxRequests \in Nat

VARIABLES cfg, auto,  \* cfg_: what is configured, and auto_reconnect
          pc,         \* where the application thread is
          wifi,       \* there is a Wi-Fi handle
          link,       \* what the radio does
          leaving,    \* the event of a disconnect is on its way
          worker,     \* where wifi.c's reconnect_task_main is
          notified,   \* it has been woken, and has not looked yet
          prov,       \* the provisioning service
          services,   \* the services that are open
          begun,      \* dependent_services_started
          synced,     \* SNTP_SYNC_STATUS_COMPLETED, not read yet
          waited, reported, \* the wait for it, sntp_timeout_reported
          flags,      \* pending_flags
          status,     \* status_, the fields that are set
          blurred,    \* the order of a loss and a connection was lost
          belated,    \* the worker has announced a retry with the link up
          runs, losses, requests

workerVars == <<worker, notified, belated>>
radioVars == <<wifi, link, leaving, workerVars>>
serviceVars == <<services, begun, synced, waited, reported>>
boundVars == <<runs, losses, requests>>
vars == <<cfg, auto, pc, radioVars, prov, serviceVars, flags, status, blurred,
          boundVars>>

Flags == {"connecting", "connected", "got_ip", "disconnected", "reconnecting",
          "prov_ok", "prov_already"}
Fields == {"connecting", "connected", "has_ip", "reconnecting", "prov_ready",
           "time_synced", "ready"}

ConnectivityInit ==
  /\ cfg \in Configs /\ auto \in BOOLEAN
  /\ pc = "off" /\ wifi = FALSE /\ link = "idle" /\ leaving = FALSE
  /\ worker = "idle" /\ notified = FALSE /\ belated = FALSE
  /\ prov = "none" /\ services = {} /\ begun = FALSE
  /\ synced = FALSE /\ waited = 0 /\ reported = FALSE
  /\ flags = {} /\ status = {} /\ blurred = FALSE
  /\ runs = 0 /\ losses = 0 /\ requests = 0

-----------------------------------------------------------------------------
(* start.                                                                  *)
Pend(f) == flags' = flags \cup f

\* Flags of a connection that is no more: nothing clears them.
Left == flags \cap {"connected", "got_ip"} # {}

\* A notification or xTaskAbortDelay: the worker looks whether to retry, at
\* once or when it next runs.
Wakes == notified' \in {notified, auto}

\* esp_wifi_connect may fail, too.
StartWifi ==
  /\ pc = "off" /\ runs < MaxRuns /\ "wifi" \in cfg
  /\ runs' = runs + 1
  /\ \/ /\ pc' = "connect" /\ wifi' = TRUE /\ link' \in {"idle", "trying"}
        /\ Pend({"connecting"}) /\ Wakes
     \/ pc' = "run" /\ UNCHANGED <<wifi, link, notified, flags>> \* open fails
  /\ UNCHANGED <<cfg, auto, leaving, worker, belated, prov, serviceVars,
                 status, blurred, losses, requests>>

\* blusys_wifi_close waits for the worker to exit.
CloseWifi ==
  /\ wifi' = FALSE /\ link' = "idle" /\ leaving' = FALSE
  /\ worker' = "idle" /\ notified' = FALSE /\ belated' = FALSE

\* connect answers when there is an address, and otherwise after a failure
\* or its timeout; without auto_reconnect start gives up then.
ConnectReturns ==
  /\ pc = "connect"
  /\ \/ link = "up" /\ pc' = "prov" /\ UNCHANGED <<radioVars, blurred>>
     \/ auto /\ pc' = "prov" /\ UNCHANGED <<radioVars, blurred>>
     \/ /\ ~auto /\ pc' = "run"
        /\ CloseWifi
        /\ blurred' = (blurred \/ Left)
  /\ UNCHANGED <<cfg, auto, prov, serviceVars, flags, status, boundVars>>

StartProv ==
  /\ \/ pc = "prov" /\ UNCHANGED runs
     \/ pc = "off" /\ "wifi" \notin cfg /\ runs < MaxRuns /\ runs' = runs + 1
  /\ pc' = "run"
  /\ \/ /\ "prov" \notin cfg
        /\ UNCHANGED <<prov, flags, status>>
     \/ \* already provisioned, which only the Wi-Fi driver can tell
        /\ "prov" \in cfg /\ wifi
        /\ status' = status \cup {"prov_ready"} /\ Pend({"prov_already"})
        /\ UNCHANGED prov
     \/ \* open fails, always so when Wi-Fi has made the event loop
        /\ "prov" \in cfg
        /\ UNCHANGED <<prov, flags, status>>
     \/ /\ "prov" \in cfg /\ ~wifi
        /\ prov' = "running"
        /\ UNCHANGED <<flags, status>>
  /\ UNCHANGED <<cfg, auto, radioVars, serviceVars, blurred, losses, requests>>

Start == StartWifi \/ ConnectReturns \/ StartProv

-----------------------------------------------------------------------------
(* poll: the pending flags are taken in one exchange and worked off in a   *)
(* fixed order, whatever the order they came in.                           *)
\* Fault: a loss is worked off last.
LinkStatusLossLast(f) ==
  LET s == (status \cup (f \cap {"connecting", "connected", "reconnecting"})
              \cup (IF "got_ip" \in f THEN {"has_ip"} ELSE {}))
             \ (IF f \cap {"connected", "got_ip"} = {} THEN {}
                ELSE {"connecting", "reconnecting"})
  IN IF "disconnected" \in f
     THEN s \ {"connecting", "connected", "has_ip", "ready"} ELSE s

LinkStatus(f) ==
  LET s1 == status \cup (f \cap {"connecting"})
      s2 == IF "disconnected" \in f
            THEN s1 \ {"connecting", "connected", "has_ip", "reconnecting",
                       "ready"}
            ELSE s1
      s3 == IF "reconnecting" \in f
            THEN (s2 \cup {"reconnecting"}) \ {"connecting"} ELSE s2
      s4 == s3 \cup (f \cap {"connected"})
               \cup (IF "got_ip" \in f THEN {"has_ip"} ELSE {})
  IN IF f \cap {"connected", "got_ip"} = {} THEN s4
     ELSE s4 \ {"connecting", "reconnecting"}

\* Fault: the services are not asked for.
AllReadyButServices(s, o) ==
  /\ "wifi" \in cfg => "has_ip" \in s
  /\ "sntp" \in cfg => "time_synced" \in s
  /\ "prov" \in cfg => "prov_ready" \in s

\* check_capability_ready, for the fields s and the open services o.
AllReady(s, o) ==
  /\ "wifi" \in cfg => "has_ip" \in s
  /\ "sntp" \in cfg => "time_synced" \in s
  /\ cfg \cap Servers \subseteq o
  /\ "prov" \in cfg => "prov_ready" \in s

\* start_dependent_services, with the first address: each may fail to open,
\* and is not tried again.
Opened(f) == IF "got_ip" \in f /\ ~begun
             THEN {services \cup o : o \in SUBSET (cfg \cap Dependents)}
             ELSE {services}

\* Fault: a first answer of the time server asks for no check.
ChecksNotTime(f, answered) ==
  f \cap {"got_ip", "prov_ok", "prov_already"} # {}

\* What makes poll check whether all is ready.
Checks(f, answered) ==
  answered \/ f \cap {"got_ip", "prov_ok", "prov_already"} # {}

\* Reading the status of SNTP resets it.
Poll ==
  /\ pc = "run"
  /\ \E o \in Opened(flags) :
       LET awaited == "sntp" \in o /\ "time_synced" \notin status
           answered == awaited /\ synced
           late == awaited /\ ~synced /\ ~reported
           s == LinkStatus(flags)
                  \cup (IF "prov_ok" \in flags THEN {"prov_ready"} ELSE {})
                  \cup (IF answered THEN {"time_synced"} ELSE {})
       IN /\ services' = o
          /\ synced' = (synced /\ ~answered)
          /\ waited' = IF late /\ "sntp" \in services THEN waited + 1
                       ELSE waited
          /\ reported' = IF answered THEN FALSE
                         ELSE reported \/ (late /\ waited' >= Timeout)
          /\ status' = IF Checks(flags, answered) /\ AllReady(s, o)
                       THEN s \cup {"ready"} ELSE s
  /\ begun' = (begun \/ "got_ip" \in flags)
  /\ blurred' = IF "disconnected" \in flags THEN Left /\ link # "up"
                ELSE blurred
  /\ flags' = {}
  /\ UNCHANGED <<cfg, auto, pc, radioVars, prov, boundVars>>

-----------------------------------------------------------------------------
(* stop and request_reconnect.                                             *)
\* The event of the disconnect comes before the handlers are gone, or not.
Stop ==
  /\ pc = "run"
  /\ pc' = "off"
  /\ prov' = "none" /\ services' = {} /\ begun' = FALSE
  /\ waited' = 0 /\ reported' = FALSE
  /\ status' = {}
  /\ CloseWifi
  /\ \/ wifi /\ link # "idle" /\ Pend({"disconnected"})
     \/ UNCHANGED flags
  /\ blurred' = Left
  /\ UNCHANGED <<cfg, auto, synced, boundVars>>

\* request_reconnect up to blusys_wifi_disconnect, whose event follows.
RequestReconnect ==
  /\ pc = "run" /\ wifi /\ requests < MaxRequests
  /\ requests' = requests + 1
  /\ pc' = "reconnect"
  /\ status' = (status \cup {"connecting"}) \ {"reconnecting"}
  /\ Pend({"connecting"}) /\ Wakes
  /\ link' = "idle" /\ leaving' = (leaving \/ link # "idle")
  /\ UNCHANGED <<cfg, auto, wifi, worker, belated, prov, serviceVars, blurred,
                 runs, losses>>

\* blusys_wifi_connect: busy with an attempt of the worker, cancelled by the
\* event of the disconnect, refused by a radio that is not idle, or under way.
RequestConnects ==
  /\ pc = "reconnect"
  /\ \/ pc' = "run" /\ UNCHANGED <<link, notified, flags>>
     \/ /\ Pend({"connecting"}) /\ Wakes
        /\ \/ pc' = "run" /\ UNCHANGED link
           \/ link = "idle" /\ link' = "trying" /\ pc' = "redial"
  /\ UNCHANGED <<cfg, auto, wifi, leaving, worker, belated, prov, serviceVars,
                 status, blurred, boundVars>>

\* With an address, a timeout, or the event of its own disconnect.
ReconnectReturns ==
  /\ pc = "redial"
  /\ pc' = "run"
  /\ UNCHANGED <<cfg, auto, radioVars, prov, serviceVars, flags, status,
                 blurred, boundVars>>

-----------------------------------------------------------------------------
(* The callbacks: wifi.c's event handler and worker, SNTP, provisioning.   *)
Radio(l, f) ==
  /\ wifi /\ link' = l /\ Pend(f)
  /\ UNCHANGED <<cfg, auto, pc, wifi, worker, prov, serviceVars, status,
                 blurred, runs, requests>>

Joins == /\ link = "trying" /\ ~leaving /\ Radio("joined", {"connected"})
         /\ UNCHANGED <<leaving, notified, belated, losses>>
GetsAddress == /\ link = "joined" /\ Radio("up", {"got_ip"})
               /\ belated' = FALSE /\ UNCHANGED <<leaving, notified, losses>>

Loses ==
  /\ link # "idle" /\ ~leaving
  /\ losses < MaxLosses /\ losses' = losses + 1
  /\ Radio("idle", {"disconnected"}) /\ Wakes
  /\ UNCHANGED <<leaving, belated>>

Leaves ==
  /\ leaving /\ leaving' = FALSE
  /\ Radio(link, {"disconnected"}) /\ Wakes
  /\ UNCHANGED <<belated, losses>>

\* reconnect_task_main. retry_allowed asks for an address since the open,
\* and not whether there is one now.
EverConnected == begun \/ "got_ip" \in flags

Worker(from, to) ==
  /\ worker = from /\ worker' = to
  /\ UNCHANGED <<cfg, auto, pc, wifi, leaving, prov, serviceVars, status,
                 blurred, boundVars>>

Announces(f) ==
  /\ Pend({f}) /\ UNCHANGED link
  /\ belated' = (belated \/ (link = "up" /\ "got_ip" \notin flags))

\* After its delay, in which it may be notified once more.
WillRetry == /\ notified /\ EverConnected /\ notified' \in BOOLEAN
             /\ Worker("idle", "reconnecting") /\ Announces("reconnecting")

Retries == Worker("reconnecting", "connecting") /\ Announces("connecting")
                                                /\ UNCHANGED notified

\* esp_wifi_connect fails with a radio that is not idle.
Dials ==
  /\ Worker("connecting", "idle") /\ link = "idle" /\ link' = "trying"
  /\ UNCHANGED <<notified, belated, flags>>

GivesUp ==
  /\ \/ Worker("idle", "idle") /\ notified /\ notified' = FALSE
     \/ Worker("reconnecting", "idle") /\ UNCHANGED notified
     \/ Worker("connecting", "idle") /\ UNCHANGED notified
  /\ UNCHANGED <<link, belated, flags>>

TimeArrives ==
  /\ "sntp" \in services /\ ~synced /\ "time_synced" \notin status
  /\ synced' = TRUE
  /\ UNCHANGED <<cfg, auto, pc, radioVars, prov, services, begun, waited,
                 reported, flags, status, blurred, boundVars>>

Provisioned ==
  /\ prov = "running" /\ prov' = "done"
  /\ Pend({"prov_ok"})
  /\ UNCHANGED <<cfg, auto, pc, radioVars, serviceVars, status, blurred,
                 boundVars>>

Retry == WillRetry \/ Retries \/ Dials \/ GivesUp
Callbacks == \/ Joins \/ GetsAddress \/ Loses \/ Leaves
             \/ TimeArrives \/ Provisioned

ConnectivityNext == Start \/ Poll \/ Stop \/ RequestReconnect
                    \/ RequestConnects \/ ReconnectReturns
                    \/ Callbacks \/ Retry

ConnectivitySpec == ConnectivityInit /\ [][ConnectivityNext]_vars
\* The application polls as long as it runs, and a connect has a timeout.
FairConnectivitySpec == ConnectivitySpec /\ WF_vars(Poll)
                        /\ WF_vars(ConnectReturns) /\ WF_vars(RequestConnects)
                        /\ WF_vars(ReconnectReturns)

-----------------------------------------------------------------------------
\* Type invariant.
SwitchesOK ==
  /\ auto \in BOOLEAN /\ wifi \in BOOLEAN /\ leaving \in BOOLEAN
  /\ notified \in BOOLEAN /\ belated \in BOOLEAN /\ (notified => auto)
  /\ begun \in BOOLEAN /\ synced \in BOOLEAN /\ reported \in BOOLEAN
  /\ (link # "idle" \/ leaving \/ notified \/ worker # "idle"
        \/ pc \in {"reconnect", "redial"} => wifi)

ConnectivityTypeOK ==
  /\ SwitchesOK
  /\ link \in {"idle", "trying", "joined", "up"}
  /\ worker \in {"idle", "reconnecting", "connecting"}
  /\ services \subseteq cfg \cap Dependents
  /\ flags \subseteq Flags /\ status \subseteq Fields
  /\ waited \in 0 .. Timeout /\ prov \in {"none", "running", "done"}

\* Ready means that all that is configured is: an address, provisioning done,
\* the time, and every service open.
ReadyIsServed ==
  "ready" \in status =>
    /\ "wifi" \in cfg => "has_ip" \in status /\ begun
    /\ "prov" \in cfg => "prov_ready" \in status
    /\ cfg \cap Dependents \subseteq services
    /\ "sntp" \in cfg => "time_synced" \in status

\* The variables hold what they are described as, and what is ready is.
ConnectivityConsistent == ConnectivityTypeOK /\ ReadyIsServed

(* Once the pending flags are worked off, the status says of the link what *)
(* the radio does, unless a loss and a connection before it were found by  *)
(* one poll, or flags were left from a connection that was closed: the     *)
(* flags keep no order. A link that is up is not shown as being tried for, *)
(* unless the worker, woken by an earlier event, has announced a retry     *)
(* since: it does not look at the link.                                    *)
StatusAgrees ==
  pc = "run" /\ flags = {} /\ ~leaving /\ ~blurred =>
    /\ "has_ip" \in status <=> link = "up"
    /\ "connected" \in status <=> link \in {"joined", "up"}
    /\ link = "up" /\ ~belated =>
         status \cap {"connecting", "reconnecting"} = {}

(* With the link up, the services open, the time known and provisioning    *)
(* done the capability becomes ready, whatever order they came in.         *)
Held ==
  /\ pc = "run" /\ ("wifi" \in cfg => link = "up")
  /\ cfg \cap Dependents # {} => "wifi" \in cfg
  /\ begun => cfg \cap Dependents \subseteq services
  /\ "sntp" \in cfg => synced \/ "time_synced" \in status
  /\ "prov" \in cfg => "prov_ready" \in status \/ "prov_ok" \in flags

BecomesReady == Held ~> ("ready" \in status \/ ~Held)

(* The wait for the time ends: it is known, or said to be late.            *)
TimeSettles ==
  "sntp" \in services ~> \/ pc = "off" \/ reported
                         \/ "time_synced" \in status

\* No part that is there is waited for without an end.
WaitsEnd == BecomesReady /\ TimeSettles
=============================================================================
