------------------------ MODULE ConnectivityProofs --------------------------
(* Proofs about Connectivity, for any configuration and any number of      *)
(* runs, losses and requests.                                              *)
EXTENDS Connectivity, TLAPS

(* What a poll that takes the flags f makes of the fields of the link.     *)
LEMMA LinkStatusFields ==
  ASSUME NEW f
  PROVE  /\ "has_ip" \in LinkStatus(f) <=>
              "got_ip" \in f \/ ("has_ip" \in status /\ "disconnected" \notin f)
         /\ "connected" \in LinkStatus(f) <=>
              "connected" \in f
                \/ ("connected" \in status /\ "disconnected" \notin f)
         /\ f \cap {"connected", "got_ip"} # {} =>
              LinkStatus(f) \cap {"connecting", "reconnecting"} = {}
         /\ f \cap {"connecting", "reconnecting", "connected", "got_ip"} = {} =>
              LinkStatus(f) \cap {"connecting", "reconnecting"}
                \subseteq status \cap {"connecting", "reconnecting"}
         /\ \A x \in {"prov_ready", "time_synced"} :
              x \in LinkStatus(f) <=> x \in status
         /\ "ready" \in LinkStatus(f) <=>
              "ready" \in status /\ "disconnected" \notin f
  BY DEF LinkStatus

-----------------------------------------------------------------------------
(* Type correctness and what ready means. The invariant adds that the wait *)
(* for the time stops at its limit, that the first address has opened the  *)
(* services, and that only an open SNTP service can have told the time.    *)
WaitLimited == waited < Timeout \/ reported \/ "time_synced" \in status
AddressOpens == "has_ip" \in status => begun
TimeFromSntp == "time_synced" \in status => "sntp" \in services
ConsistentInv ==
  ConnectivityConsistent /\ WaitLimited /\ AddressOpens /\ TimeFromSntp

LEMMA ConsistentInit == ConnectivityInit => ConsistentInv
<1>1. ConnectivityInit => SwitchesOK
  BY DEF ConnectivityInit, SwitchesOK
<1> QED
  BY <1>1, ConnectivityBoundsOK
  DEF ConnectivityInit, ConnectivityConsistent, ConnectivityTypeOK,
    ReadyIsServed, Flags, Fields, ConsistentInv, WaitLimited, AddressOpens,
    TimeFromSntp

LEMMA ConsistentPoll == ConsistentInv /\ Poll => ConsistentInv'
<1> SUFFICES ASSUME ConsistentInv, Poll
             PROVE  ConsistentInv'
  OBVIOUS
<1> DEFINE answers(o) == "sntp" \in o /\ "time_synced" \notin status /\ synced
           late(o) == /\ "sntp" \in o /\ "time_synced" \notin status
                      /\ ~synced /\ ~reported
           fields(o) == LinkStatus(flags)
                          \cup (IF "prov_ok" \in flags THEN {"prov_ready"} ELSE {})
                          \cup (IF answers(o) THEN {"time_synced"} ELSE {})
<1>1. PICK o \in Opened(flags) :
        /\ services' = o
        /\ synced' = (synced /\ ~answers(o))
        /\ waited' = IF late(o) /\ "sntp" \in services THEN waited + 1
                     ELSE waited
        /\ reported' = IF answers(o) THEN FALSE
                       ELSE reported \/ (late(o) /\ waited' >= Timeout)
        /\ status' = IF Checks(flags, answers(o)) /\ AllReady(fields(o), o)
                     THEN fields(o) \cup {"ready"} ELSE fields(o)
  BY DEF Poll
<1>2. /\ begun' = (begun \/ "got_ip" \in flags)
      /\ flags' = {}
      /\ UNCHANGED <<cfg, auto, pc, wifi, link, leaving, prov>>
      /\ UNCHANGED <<worker, notified, belated>>
  BY DEF Poll, radioVars, workerVars
<1>3. services \subseteq o /\ o \subseteq cfg \cap Dependents
  BY DEF Opened, ConsistentInv, ConnectivityConsistent, ConnectivityTypeOK
<1>4. waited' \in 0 .. Timeout /\ WaitLimited'
  <2> USE DEF ConsistentInv, ConnectivityConsistent, ConnectivityTypeOK,
              WaitLimited
  <2>1. CASE answers(o)
    <3>1. waited' = waited /\ "time_synced" \in status'
      BY <1>1, <2>1
    <3> QED
      BY <3>1
  <2>2. CASE late(o) /\ "sntp" \in services
    <3>1. ~answers(o) /\ waited' = waited + 1
      BY <1>1, <2>2
    <3>2. waited' >= Timeout => reported'
      BY <1>1, <2>2, <3>1, Zenon
    <3>3. waited < Timeout
      BY <2>2
    <3> QED
      BY <3>1, <3>2, <3>3, ConnectivityBoundsOK
  <2>3. CASE ~answers(o) /\ ~(late(o) /\ "sntp" \in services)
    <3>1. waited' = waited
      BY <1>1, <2>3
    <3>2. reported => reported'
      BY <1>1, <2>3, Zenon
    <3>3. "time_synced" \in status => "time_synced" \in status'
      BY <1>1, LinkStatusFields
    <3> QED
      BY <3>1, <3>2, <3>3
  <2> QED
    BY <2>1, <2>2, <2>3
<1>5. fields(o) \subseteq Fields /\ status' \subseteq Fields
  <2>1. LinkStatus(flags) \subseteq Fields
    BY DEF LinkStatus, ConsistentInv, ConnectivityConsistent,
      ConnectivityTypeOK, Fields, Flags
  <2> QED
    BY <1>1, <2>1 DEF Fields
<1>6. ConnectivityTypeOK'
  <2>1. SwitchesOK'
    BY <1>1, <1>2
    DEF ConsistentInv, ConnectivityConsistent, ConnectivityTypeOK, SwitchesOK
  <2> QED
    BY <1>1, <1>2, <1>3, <1>4, <1>5, <2>1
    DEF ConsistentInv, ConnectivityConsistent, ConnectivityTypeOK
<1>7. AddressOpens'
  BY <1>1, <1>2, LinkStatusFields DEF ConsistentInv, AddressOpens
<1>8. TimeFromSntp'
  BY <1>1, <1>3, LinkStatusFields DEF ConsistentInv, TimeFromSntp
<1>9. ReadyIsServed'
  <2> SUFFICES ASSUME "ready" \in status'
               PROVE  /\ "wifi" \in cfg => "has_ip" \in status' /\ begun'
                      /\ "prov" \in cfg => "prov_ready" \in status'
                      /\ cfg \cap Dependents \subseteq services'
                      /\ "sntp" \in cfg => "time_synced" \in status'
    BY <1>2 DEF ReadyIsServed
  <2>1. CASE AllReady(fields(o), o)
    <3>1. fields(o) \subseteq status'
      BY <1>1
    <3>2. "sntp" \in cfg => "sntp" \in o
      BY <2>1, <3>1, <1>1, <1>8 DEF AllReady, TimeFromSntp
    <3> QED
      BY <1>1, <1>7, <2>1, <3>1, <3>2
      DEF AllReady, AddressOpens, Dependents
  <2>2. CASE ~AllReady(fields(o), o)
    <3>1. status' = fields(o) /\ "ready" \in status
            /\ "disconnected" \notin flags
      BY <1>1, <2>2, LinkStatusFields
    <3> QED
      BY <1>1, <1>2, <1>3, <3>1, LinkStatusFields
      DEF ConsistentInv, ConnectivityConsistent, ReadyIsServed
  <2> QED
    BY <2>1, <2>2
<1> QED
  BY <1>4, <1>6, <1>7, <1>8, <1>9 DEF ConsistentInv, ConnectivityConsistent

LEMMA SwitchesNext ==
  SwitchesOK /\ [ConnectivityNext]_vars /\ ~Poll => SwitchesOK'
<1> SUFFICES ASSUME SwitchesOK, [ConnectivityNext]_vars, ~Poll
             PROVE  SwitchesOK'
  OBVIOUS
<1> USE DEF SwitchesOK, radioVars, workerVars, serviceVars
<1>0. Wakes => notified' \in BOOLEAN /\ (notified' => auto)
  BY DEF Wakes
<1>1. CASE StartWifi
  <2>1. CASE wifi' = TRUE /\ Wakes
    BY <1>0, <1>1, <2>1, Zenon DEF StartWifi
  <2>2. CASE UNCHANGED <<wifi, link, notified>>
    BY <1>1, <2>2, Zenon DEF StartWifi
  <2> QED
    BY <1>1, <2>1, <2>2, Zenon DEF StartWifi
<1>2. CASE ConnectReturns
  <2>1. CASE UNCHANGED radioVars
    BY <1>2, <2>1, Zenon DEF ConnectReturns
  <2>2. CASE CloseWifi
    BY <1>2, <2>2 DEF ConnectReturns, CloseWifi
  <2> QED
    BY <1>2, <2>1, <2>2 DEF ConnectReturns
<1>3. CASE StartProv
  BY <1>3, Zenon DEF StartProv
<1>4. CASE Stop
  BY <1>4 DEF Stop, CloseWifi
<1>5. CASE RequestReconnect
  BY <1>0, <1>5, Zenon DEF RequestReconnect
<1>6. CASE RequestConnects \/ ReconnectReturns
  <2>1. wifi /\ UNCHANGED <<auto, wifi, leaving, worker, begun, synced,
                             reported, belated>>
    BY <1>6, Zenon DEF RequestConnects, ReconnectReturns
  <2>2. Wakes \/ UNCHANGED notified
    BY <1>6, Zenon DEF RequestConnects, ReconnectReturns
  <2>3. notified' \in BOOLEAN /\ (notified' => auto)
    BY <1>0, <2>2
  <2> QED BY <2>1, <2>3, Zenon
<1>7. CASE Joins \/ GetsAddress \/ Loses \/ Leaves
  <2>1. wifi /\ UNCHANGED <<auto, pc, wifi, worker, begun, synced, reported>>
    BY <1>7, Zenon DEF Joins, GetsAddress, Loses, Leaves, Radio
  <2>2. Wakes \/ UNCHANGED notified
    BY <1>7, Zenon DEF Joins, GetsAddress, Loses, Leaves
  <2>3. notified' \in BOOLEAN /\ (notified' => auto)
    BY <1>0, <2>2
  <2>4. leaving' \in BOOLEAN /\ belated' \in BOOLEAN
    BY <1>7, Zenon DEF Joins, GetsAddress, Loses, Leaves
  <2> QED BY <2>1, <2>3, <2>4, Zenon
<1>8. CASE Retry
  <2>1. wifi /\ UNCHANGED <<auto, pc, wifi, leaving, begun, synced, reported>>
    BY <1>8, Zenon DEF Retry, WillRetry, Retries, Dials, GivesUp, Worker
  <2>2. notified' \in BOOLEAN /\ (notified' => auto)
    <3>1. CASE WillRetry
      BY <3>1 DEF WillRetry
    <3>2. CASE Retries \/ Dials
      BY <3>2 DEF Retries, Dials
    <3>3. CASE GivesUp
      <4>1. notified' = FALSE \/ notified' = notified
        BY <3>3, Zenon DEF GivesUp
      <4>2. CASE notified' = FALSE
        BY <4>2
      <4>3. CASE notified' = notified
        BY <4>3
      <4> QED BY <4>1, <4>2, <4>3, Zenon
    <3> QED BY <1>8, <3>1, <3>2, <3>3, Zenon DEF Retry
  <2>3. belated' \in BOOLEAN
    BY <1>8, Zenon DEF Retry, WillRetry, Retries, Dials, GivesUp, Announces
  <2> QED BY <2>1, <2>2, <2>3, Zenon
<1>9. CASE TimeArrives
  BY <1>9 DEF TimeArrives
<1>10. CASE Provisioned
  BY <1>10, Zenon DEF Provisioned
<1>11. CASE UNCHANGED vars
  BY <1>11, Zenon DEF vars
<1> QED
  BY <1>1, <1>2, <1>3, <1>4, <1>5, <1>6, <1>7, <1>8, <1>9, <1>10, <1>11
  DEF ConnectivityNext, Start, Callbacks

LEMMA ConsistentNext ==
  ConsistentInv /\ [ConnectivityNext]_vars => ConsistentInv'
<1> SUFFICES ASSUME ConsistentInv, [ConnectivityNext]_vars, ~Poll
             PROVE  ConsistentInv'
  BY ConsistentPoll
<1>0. SwitchesOK'
  BY SwitchesNext DEF ConsistentInv, ConnectivityConsistent, ConnectivityTypeOK
<1> USE <1>0 DEF ConsistentInv, WaitLimited, AddressOpens, TimeFromSntp,
                 ConnectivityConsistent, ConnectivityTypeOK, ReadyIsServed,
                 Flags, Fields, radioVars, workerVars, serviceVars, boundVars,
                 Pend, CloseWifi
<1>1. CASE StartWifi
  <2>1. flags' \subseteq Flags /\ link' \in {"idle", "trying", "joined", "up"}
    BY <1>1 DEF StartWifi
  <2>2. UNCHANGED <<cfg, auto, worker, prov, serviceVars, status>>
    BY <1>1 DEF StartWifi
  <2> QED BY <2>1, <2>2
<1>2. CASE ConnectReturns
  BY <1>2 DEF ConnectReturns
<1>3. CASE StartProv
  <2>1. /\ flags' \subseteq Flags /\ status' \subseteq Fields
        /\ prov' \in {"none", "running", "done"}
        /\ status' = status \/ status' = status \cup {"prov_ready"}
    BY <1>3 DEF StartProv
  <2>2. UNCHANGED <<cfg, auto, radioVars, serviceVars, losses, requests>>
    BY <1>3 DEF StartProv
  <2> QED BY <2>1, <2>2
<1>4. CASE Stop
  <2>1. waited' \in 0 .. Timeout /\ WaitLimited'
    BY ConnectivityBoundsOK, <1>4 DEF Stop
  <2>2. services' = {} /\ status' = {} /\ cfg' = cfg /\ prov' = "none"
          /\ link' = "idle" /\ worker' = "idle" /\ flags' \subseteq Flags
    BY <1>4 DEF Stop
  <2> QED
    BY <2>1, <2>2
<1>5. CASE RequestReconnect
  BY <1>5 DEF RequestReconnect, SwitchesOK
<1>6. CASE RequestConnects \/ ReconnectReturns
  <2>1. CASE RequestConnects
    <3>1. flags' \subseteq Flags /\ link' \in {"idle", "trying", "joined", "up"}
      BY <2>1 DEF RequestConnects
    <3>2. UNCHANGED <<cfg, auto, worker, prov, serviceVars, status>>
      BY <2>1 DEF RequestConnects
    <3> QED BY <3>1, <3>2
  <2>2. CASE ReconnectReturns
    BY <2>2 DEF ReconnectReturns
  <2> QED BY <1>6, <2>1, <2>2
<1>7. CASE Joins \/ GetsAddress \/ Loses \/ Leaves
  <2>1. CASE Joins
    BY <2>1 DEF Joins, Radio
  <2>2. CASE GetsAddress
    BY <2>2 DEF GetsAddress, Radio
  <2>3. CASE Loses
    BY <2>3 DEF Loses, Radio
  <2>4. CASE Leaves
    BY <2>4 DEF Leaves, Radio
  <2> QED BY <1>7, <2>1, <2>2, <2>3, <2>4
<1>8. CASE Retry
  <2>1. UNCHANGED <<cfg, auto, prov, serviceVars, status>>
    BY <1>8, Zenon DEF Retry, WillRetry, Retries, Dials, GivesUp, Worker
  <2>2. worker' \in {"idle", "reconnecting", "connecting"}
    BY <1>8, Zenon DEF Retry, WillRetry, Retries, Dials, GivesUp, Worker
  <2>3. flags' = flags \/ \E f \in {"connecting", "reconnecting"} : Pend({f})
    BY <1>8, Zenon DEF Retry, WillRetry, Retries, Dials, GivesUp, Announces
  <2>4. link' \in {link, "trying"}
    BY <1>8, Zenon DEF Retry, WillRetry, Retries, Dials, GivesUp, Announces
  <2>5. flags' \subseteq Flags
    BY <2>3
  <2>6. link' \in {"idle", "trying", "joined", "up"}
    BY <2>4
  <2> QED BY <2>1, <2>2, <2>5, <2>6
<1>9. CASE TimeArrives \/ Provisioned
  <2>1. CASE TimeArrives
    BY <2>1 DEF TimeArrives
  <2>2. CASE Provisioned
    BY <2>2 DEF Provisioned
  <2> QED BY <1>9, <2>1, <2>2
<1>10. CASE UNCHANGED vars
  BY <1>10 DEF vars
<1> QED
  BY <1>1, <1>2, <1>3, <1>4, <1>5, <1>6, <1>7, <1>8, <1>9, <1>10
  DEF ConnectivityNext, Start, Callbacks

(* The variables keep their types, and what is shown as ready is: address, *)
(* credentials, time and every service that was configured.                *)
THEOREM ConnectivityReadyIsServed ==
  ConnectivitySpec => []ConnectivityConsistent
<1>1. ConsistentInv => ConnectivityConsistent
  BY DEF ConsistentInv
<1> QED
  BY <1>1, ConsistentInit, ConsistentNext, PTL DEF ConnectivitySpec

-----------------------------------------------------------------------------
(* The status against the radio. What the next poll will show is what is   *)
(* pending, or is shown and not lost; the invariant relates it to the link *)
(* at every step and not only when nothing is pending.                     *)
Shows(field, flag) ==
  flag \in flags \/ (field \in status /\ "disconnected" \notin flags)

LeavingIsDown == leaving => link \in {"idle", "trying"}
OffIsIdle ==
  pc = "off" => ~wifi /\ link = "idle" /\ worker = "idle" /\ ~notified
StartsBlank ==
  pc \in {"off", "connect", "prov"} => status \cap {"has_ip", "connected"} = {}
UpIsShown == link = "up" => Shows("has_ip", "got_ip")
RedialIsNews ==
  pc \in {"reconnect", "redial"} /\ link = "up" => "got_ip" \in flags
JoinedIsShown ==
  link \in {"joined", "up"} => Shows("connected", "connected")
LostIsPending ==
  ~blurred /\ ~leaving /\ link # "up" /\ Shows("has_ip", "got_ip") =>
    {"got_ip", "disconnected"} \subseteq flags
LeftIsPending ==
  /\ ~blurred /\ ~leaving /\ link \notin {"joined", "up"}
  /\ Shows("connected", "connected")
  => {"connected", "disconnected"} \subseteq flags
UpHasTried ==
  link = "up" /\ "got_ip" \notin flags /\ ~belated =>
    (status \cup flags) \cap {"connecting", "reconnecting"} = {}

StatusInv == LeavingIsDown /\ OffIsIdle /\ StartsBlank
             /\ UpIsShown /\ JoinedIsShown /\ RedialIsNews
             /\ LostIsPending /\ LeftIsPending /\ UpHasTried

LEMMA StatusInit == ConnectivityInit => StatusInv
  BY DEF ConnectivityInit, StatusInv, LeavingIsDown, OffIsIdle, StartsBlank, UpIsShown,
    JoinedIsShown, RedialIsNews, LostIsPending, LeftIsPending, UpHasTried, Shows

\* A poll shows what was pending, and blurs what it had the wrong way round.
LEMMA StatusPoll == StatusInv /\ Poll => StatusInv'
<1> SUFFICES ASSUME StatusInv, Poll
             PROVE  StatusInv'
  OBVIOUS
<1> USE DEF StatusInv
<1>1. /\ flags' = {} /\ pc = "run" /\ UNCHANGED <<pc, link, leaving>>
      /\ "disconnected" \in flags => (blurred' <=> Left /\ link # "up")
      /\ "disconnected" \notin flags => (blurred' <=> blurred)
      /\ belated' = belated
  BY Zenon DEF Poll, radioVars, workerVars
<1>2. /\ "has_ip" \in status' <=> "has_ip" \in LinkStatus(flags)
      /\ "connected" \in status' <=> "connected" \in LinkStatus(flags)
      /\ status' \cap {"connecting", "reconnecting"}
           = LinkStatus(flags) \cap {"connecting", "reconnecting"}
  BY DEF Poll
<1>3. /\ Shows("has_ip", "got_ip")' <=> Shows("has_ip", "got_ip")
      /\ Shows("connected", "connected")' <=> Shows("connected", "connected")
  BY <1>1, <1>2, LinkStatusFields DEF Shows
<1>4. /\ LeavingIsDown' /\ OffIsIdle' /\ StartsBlank'
      /\ UpIsShown' /\ JoinedIsShown' /\ RedialIsNews'
  BY <1>1, <1>3
  DEF LeavingIsDown, OffIsIdle, StartsBlank, UpIsShown, JoinedIsShown,
    RedialIsNews
<1>5. LostIsPending'
  BY <1>1, <1>3 DEF LostIsPending, Shows, Left
<1>6. LeftIsPending'
  BY <1>1, <1>3 DEF LeftIsPending, Shows, Left
<1>7. UpHasTried'
  <2> SUFFICES ASSUME link = "up", ~belated
               PROVE  status' \cap {"connecting", "reconnecting"} = {}
    BY <1>1 DEF UpHasTried
  <2>1. CASE flags \cap {"connected", "got_ip"} # {}
    BY <1>2, <2>1, LinkStatusFields
  <2>2. CASE flags \cap {"connected", "got_ip"} = {}
    BY <1>2, <2>2, LinkStatusFields DEF UpHasTried
  <2> QED
    BY <2>1, <2>2
<1> QED
  BY <1>4, <1>5, <1>6, <1>7

LEMMA StatusNext == StatusInv /\ [ConnectivityNext]_vars => StatusInv'
<1> SUFFICES ASSUME StatusInv, [ConnectivityNext]_vars, ~Poll
             PROVE  StatusInv'
  BY StatusPoll
<1> USE DEF StatusInv, LeavingIsDown, OffIsIdle, StartsBlank, UpIsShown,
            JoinedIsShown, RedialIsNews, LostIsPending, LeftIsPending,
            UpHasTried, Shows,
            radioVars, workerVars, serviceVars, boundVars, Pend, CloseWifi
<1>1. CASE StartWifi
  <2>1. /\ pc = "off" /\ status' = status
        /\ link = "idle" /\ link' \in {"idle", "trying"} /\ flags \subseteq flags'
        /\ flags' \subseteq flags \cup {"connecting"}
        /\ link' = "up" => flags' = flags
    BY <1>1 DEF StartWifi
  <2>2. (leaving' <=> leaving) /\ (blurred' <=> blurred)
    BY <1>1 DEF StartWifi
  <2>3. LeavingIsDown' /\ OffIsIdle' /\ StartsBlank'
    BY <1>1, <2>1, <2>2 DEF StartWifi
  <2>4. UpIsShown' /\ JoinedIsShown' /\ RedialIsNews' /\ UpHasTried'
    BY <2>1
  <2>5. LostIsPending' /\ LeftIsPending'
    BY <2>1, <2>2
  <2> QED
    BY <2>3, <2>4, <2>5
<1>2. CASE ConnectReturns
  <2>1. CASE UNCHANGED radioVars
    BY <1>2, <2>1 DEF ConnectReturns
  <2>2. CASE link' = "idle" /\ leaving' = FALSE /\ blurred' = (blurred \/ Left)
    BY <1>2, <2>2 DEF ConnectReturns, Left
  <2> QED
    BY <1>2, <2>1, <2>2 DEF ConnectReturns
<1>3. CASE StartProv
  BY <1>3 DEF StartProv
<1>4. CASE Stop
  BY <1>4 DEF Stop, Left
<1>5. CASE RequestReconnect
  BY <1>5 DEF RequestReconnect
<1>6. CASE RequestConnects \/ ReconnectReturns
  <2>1. CASE RequestConnects
    <3>1. /\ pc = "reconnect" /\ pc' \in {"run", "redial"}
          /\ link' = link \/ (link = "idle" /\ link' = "trying")
          /\ flags' = flags \/ flags' = flags \cup {"connecting"}
          /\ UNCHANGED <<wifi, leaving, belated, status, blurred>>
      BY <2>1 DEF RequestConnects
    <3> QED BY <3>1
  <2>2. CASE ReconnectReturns
    BY <2>2 DEF ReconnectReturns
  <2> QED BY <1>6, <2>1, <2>2
<1>7. CASE Joins
  BY <1>7 DEF Joins, Radio
<1>8. CASE GetsAddress
  BY <1>8 DEF GetsAddress, Radio
<1>9. CASE Loses
  BY <1>9 DEF Loses, Radio
<1>10. CASE WillRetry \/ Retries
  <2>1. \E f \in {"connecting", "reconnecting"} : Announces(f)
    BY <1>10, Zenon DEF WillRetry, Retries
  <2>2. UNCHANGED <<pc, wifi, link, leaving, status, blurred>>
    BY <1>10, Zenon DEF WillRetry, Retries, Worker, Announces
  <2>3. pc # "off"
    BY <1>10, Zenon DEF WillRetry, Retries, Worker
  <2> QED BY <2>1, <2>2, <2>3 DEF Announces
<1>11. CASE Dials \/ GivesUp
  <2>1. UNCHANGED <<pc, wifi, leaving, belated, flags, status, blurred>>
    BY <1>11, Zenon DEF Dials, GivesUp, Worker
  <2>2. pc # "off" /\ (link' = link \/ (link = "idle" /\ link' = "trying"))
    BY <1>11, Zenon DEF Dials, GivesUp, Worker
  <2> QED BY <2>1, <2>2
<1>12. CASE Leaves
  BY <1>12 DEF Leaves, Radio
<1>13. CASE TimeArrives \/ Provisioned
  BY <1>13 DEF TimeArrives, Provisioned
<1>14. CASE UNCHANGED vars
  BY <1>14 DEF vars
<1> QED
  BY <1>1, <1>2, <1>3, <1>4, <1>5, <1>6, <1>7, <1>8, <1>9, <1>10, <1>11,
     <1>12, <1>13, <1>14
  DEF ConnectivityNext, Start, Callbacks, Retry

(* When nothing is pending the status says of the link what the radio      *)
(* does, but for a loss and a connection that came in one poll, flags that *)
(* a closed connection has left, and a retry announced with the link up.   *)
THEOREM ConnectivityStatusAgrees == ConnectivitySpec => []StatusAgrees
<1>1. StatusInv => StatusAgrees
  BY DEF StatusInv, UpIsShown, JoinedIsShown, LostIsPending, LeftIsPending,
    UpHasTried, Shows, StatusAgrees
<1> QED
  BY <1>1, StatusInit, StatusNext, PTL DEF ConnectivitySpec
=============================================================================
