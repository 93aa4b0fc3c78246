----------------------------- MODULE SlaveWifi -----------------------------
(***************************************************************************)
(* The slave's Wi-Fi control: the requests that change the state of the    *)
(* Wi-Fi driver (slave/main/slave_wifi_std.c, run by pserial_task) and the *)
(* handler of the driver's events (event_handler_wifi, run by the event    *)
(* task).  The two share, without a lock, the flags that say what the      *)
(* station is doing and one cached configuration; what the host believes   *)
(* follows from the events they send.                                      *)
(*                                                                         *)
(* The driver (ESP-IDF's esp_wifi) is external: its operators, Drv..., say *)
(* what this code relies on.  Its events are queued in order, and the      *)
(* handler is registered before the driver can post any.                   *)
(***************************************************************************)
EXTENDS Integers, Sequences

CONSTANTS
  Config,     (* station configurations with an SSID                       *)
  NoConfig,   (* the configuration without one                             *)
  InitConfigs,(* configurations of the driver itself the host asks for     *)
  CacheTx,    (* WIFI_ENABLE_CACHE_TX_BUFFER                               *)
  MaxRetry,   (* CONFIG_ESP_HOSTED_WIFI_AUTO_RECONNECT_MAX_RETRY           *)
  Builds,     (* build options that occur, a subset of Build               *)
  MaxReq,     (* bound: requests of the host                               *)
  MaxAir      (* bound: what happens to the radio link                     *)

(* CONFIG_ESP_HOSTED_WIFI_AUTO_CONNECT_ON_STA_START, ..._ON_STA_DISCONNECT, *)
(* and whether the slave starts Wi-Fi by itself (connect_sta).             *)
Build == [on_start: BOOLEAN, on_disconnect: BOOLEAN, connect_sta: BOOLEAN]

(* wifi_init_config_t: the fields wifi_init_config_changed looks at, those *)
(* it does not, and feature_caps together with cache_tx_buf_num.           *)
InitConfig == [compared: 0 .. 2, other: 0 .. 2, caps: {"default", "host"}]
Default == [compared |-> 0, other |-> 0, caps |-> "default"]

ASSUME WifiAssumption ==
  /\ NoConfig \notin Config /\ Builds \subseteq Build
  /\ InitConfigs \subseteq InitConfig /\ CacheTx \in BOOLEAN
  /\ {MaxRetry, MaxReq, MaxAir} \subseteq Nat

VARIABLES
  build,  (* the options of this build                                     *)
  drv,    (* the Wi-Fi driver                                              *)
  evq,    (* its events, not yet delivered                                 *)
  s,      (* the static variables of slave_wifi_std.c                      *)
  pser,   (* pserial_task: the request it is in                            *)
  evt,    (* the event task: where it is in event_handler_wifi             *)
  told,   (* the station's state, as the host was last told                *)
  wanted, (* history: the configuration the host was last acknowledged     *)
  asked,  (* history: the driver configuration it was last acknowledged    *)
  reqs, air, (* how many requests and link changes there have been         *)
  harm    (* history: which races have happened                            *)

wifiVars == <<build, drv, evq, s, pser, evt, told, wanted, asked, reqs, air, harm>>

-----------------------------------------------------------------------------
AnyConfig == Config \union {NoConfig}
Mode  == {"sta", "ap", "apsta"}
Event == {"sta_start", "sta_stop", "ap_start", "ap_stop", "connected", "disconnected"}

HasSta(mode) == mode \in {"sta", "apsta"}
HasAp(mode)  == mode \in {"ap", "apsta"}
If(cond, ev) == IF cond THEN <<ev>> ELSE <<>>

TypeOK ==
  /\ build \in Builds
  /\ drv \in [up: {"off", "inited", "started"}, mode: Mode, cfg: AnyConfig,
              link: {"idle", "joining", "joined"}, init: InitConfig]
  /\ evq \in Seq(Event)
  /\ s \in [station_connecting: BOOLEAN, new_config_recvd: BOOLEAN,
            new_wifi_config: AnyConfig, suppress_disconnect: BOOLEAN,
            reconnect_retries: 0 .. MaxRetry, wifi_initialized: BOOLEAN,
            cached_init: InitConfig, station_connected: BOOLEAN,
            rxcb: BOOLEAN, softap_started: BOOLEAN]
  /\ pser \in [pc: {"idle", "connect", "cache", "set"}, cfg: AnyConfig]
  /\ evt \in {"idle", "connected", "applied", "drop", "tell", "reconnect"}
  /\ told \in {"up", "down"} /\ wanted \in AnyConfig /\ asked \in InitConfig
  /\ reqs \in 0 .. MaxReq /\ air \in 0 .. MaxAir
  /\ harm \subseteq {"late_cache", "set_overtaken", "connect_twice", "no_ssid", "deinit_failed", "off"}

-----------------------------------------------------------------------------
(* The driver.                                                             *)

DrvOff == [up |-> "off", mode |-> "sta", cfg |-> NoConfig, link |-> "idle",
           init |-> Default]

(* esp_wifi_set_config on the station, refused while it joins.             *)
DrvCanSet == drv.up # "off" /\ drv.link # "joining"

(* esp_wifi_connect: it does nothing but in the case "ok".                 *)
DrvConnectResult(d) ==
  CASE d.up # "started" \/ ~HasSta(d.mode) -> "not_started"
    [] d.up = "started" /\ HasSta(d.mode) /\ d.cfg = NoConfig -> "ssid"
    [] d.up = "started" /\ HasSta(d.mode) /\ d.cfg # NoConfig /\ d.link # "idle" -> "conn"
    [] OTHER -> "ok"
DrvConnect(d) == IF DrvConnectResult(d) = "ok" THEN [d EXCEPT !.link = "joining"] ELSE d

(* What the station and the soft-AP of mode m post when they stop.         *)
DrvStopEvents(d, m) ==
  If(HasSta(m) /\ d.link # "idle", "disconnected")
    \o If(HasSta(m), "sta_stop") \o If(HasAp(m), "ap_stop")
DrvStartEvents(m) == If(HasSta(m), "sta_start") \o If(HasAp(m), "ap_start")

DrvStopped == [drv EXCEPT !.up = IF @ = "started" THEN "inited" ELSE @, !.link = "idle"]
StopEvents == IF drv.up = "started" THEN DrvStopEvents(drv, drv.mode) ELSE <<>>

(* The link comes up, fails to, or is lost.                                *)
DrvAir ==
  /\ air < MaxAir /\ drv.link # "idle"
  /\ air' = air + 1
  /\ \E up \in BOOLEAN :
       /\ up => drv.link = "joining"
       /\ drv' = [drv EXCEPT !.link = IF up THEN "joined" ELSE "idle"]
       /\ evq' = Append(evq, IF up THEN "connected" ELSE "disconnected")
  /\ UNCHANGED <<build, s, pser, evt, told, asked, wanted, reqs, harm>>

-----------------------------------------------------------------------------
(* Requests that one step of pserial_task answers.                         *)

Idle == [pc |-> "idle", cfg |-> NoConfig]
Request == pser.pc = "idle" /\ reqs < MaxReq /\ reqs' = reqs + 1

(* get_merged_init_config: the host's values, but not the capabilities     *)
(* this build lacks.                                                       *)
Merged(c) == IF CacheTx THEN c ELSE [c EXCEPT !.caps = "default"]

(* wifi_init_config_changed.                                               *)
Changed(c, d) == c.compared # d.compared \/ c.caps # d.caps

(* __wrap_esp_wifi_init: nothing if the driver is up with the same         *)
(* configuration; a changed one stops the driver first.                    *)
Reinit(c) == s.wifi_initialized /\ Changed(c, s.cached_init)

(* The real esp_wifi_init does nothing in a driver that is up.             *)
req_wifi_init(host) ==
  LET c == Merged(host) IN
  /\ Request
  /\ asked' = c
  /\ IF s.wifi_initialized /\ ~Reinit(c) THEN UNCHANGED <<s, drv, evq>>
     ELSE /\ s' = [s EXCEPT !.cached_init = c, !.wifi_initialized = TRUE]
          /\ evq' = IF Reinit(c) THEN evq \o StopEvents ELSE evq
          /\ drv' = IF Reinit(c) \/ drv.up = "off"
                    THEN [DrvOff EXCEPT !.up = "inited", !.init = c, !.cfg = drv.cfg]
                    ELSE drv
  /\ UNCHANGED <<build, pser, evt, told, wanted, air, harm>>

(* The flag is cleared first; a driver that is not stopped stays up.       *)
req_wifi_deinit ==
  /\ Request
  /\ s' = [s EXCEPT !.wifi_initialized = FALSE]
  /\ drv' = IF drv.up = "inited" THEN [drv EXCEPT !.up = "off"] ELSE drv
  /\ harm' = IF drv.up = "started" THEN harm \union {"deinit_failed"} ELSE harm
  /\ UNCHANGED <<build, evq, pser, evt, told, asked, wanted, air>>

req_wifi_set_mode(m) ==
  /\ Request /\ drv.up # "off" /\ m # drv.mode
  /\ LET on == drv.up = "started" IN
     /\ drv' = [drv EXCEPT !.mode = m, !.link = IF HasSta(m) THEN @ ELSE "idle"]
     /\ evq' = evq
          \o If(on /\ HasSta(drv.mode) /\ ~HasSta(m) /\ drv.link # "idle", "disconnected")
          \o If(on /\ HasSta(drv.mode) /\ ~HasSta(m), "sta_stop")
          \o If(on /\ HasAp(drv.mode) /\ ~HasAp(m), "ap_stop")
          \o If(on /\ ~HasSta(drv.mode) /\ HasSta(m), "sta_start")
          \o If(on /\ ~HasAp(drv.mode) /\ HasAp(m), "ap_start")
  /\ UNCHANGED <<build, s, pser, evt, told, asked, wanted, air, harm>>

(* (The start events the handler sends itself are not modelled: they do    *)
(* not change what the host knows of the link.)                            *)
req_wifi_start ==
  /\ Request /\ drv.up = "inited"
  /\ drv' = [drv EXCEPT !.up = "started"]
  /\ evq' = evq \o DrvStartEvents(drv.mode)
  /\ UNCHANGED <<build, s, pser, evt, told, asked, wanted, air, harm>>

req_wifi_stop ==
  /\ Request /\ drv.up = "started"
  /\ drv' = DrvStopped
  /\ evq' = evq \o StopEvents
  /\ UNCHANGED <<build, s, pser, evt, told, asked, wanted, air, harm>>

req_wifi_disconnect ==
  /\ Request /\ drv.link # "idle"
  /\ drv' = [drv EXCEPT !.link = "idle"]
  /\ evq' = Append(evq, "disconnected")
  /\ UNCHANGED <<build, s, pser, evt, told, asked, wanted, air, harm>>

-----------------------------------------------------------------------------
(* Requests that read a flag and act on it later.                          *)

(* req_wifi_connect: refused without a configuration; a station that is    *)
(* connected has its last event sent again; ...                            *)
ConnectRequest ==
  /\ Request /\ drv.up # "off" /\ drv.cfg # NoConfig
  /\ IF s.station_connected
     THEN told' = "up" /\ UNCHANGED <<s, pser, harm>>
     ELSE /\ s' = [s EXCEPT !.station_connecting = TRUE]
          /\ pser' = [Idle EXCEPT !.pc = "connect"]
          /\ UNCHANGED <<told, harm>>
  /\ UNCHANGED <<build, drv, evq, evt, asked, wanted, air>>

(* Mutant of ConnectCall: the flag stays set whatever the error.           *)
ConnectCallKeepsFlag ==
  /\ pser.pc = "connect"
  /\ drv' = DrvConnect(drv) /\ pser' = Idle
  /\ UNCHANGED <<build, evq, s, evt, told, asked, wanted, reqs, air, harm>>

(* ... otherwise the driver is called, and an error other than             *)
(* ESP_ERR_WIFI_CONN, which is taken to mean that it joins already, clears *)
(* the flag.                                                               *)
ConnectCall ==
  /\ pser.pc = "connect"
  /\ drv' = DrvConnect(drv)
  /\ s' = IF DrvConnectResult(drv) \in {"ok", "conn"} THEN s
          ELSE [s EXCEPT !.station_connecting = FALSE]
  /\ harm' = IF DrvConnectResult(drv) = "conn" /\ drv.link = "joined"
             THEN harm \union {"connect_twice"} ELSE harm
  /\ pser' = Idle
  /\ UNCHANGED <<build, evq, evt, told, asked, wanted, reqs, air>>

(* req_wifi_set_config, esp_hosted_set_sta_config: the station is looked   *)
(* at, ...                                                                 *)
SetConfigRequest(c) ==
  /\ Request /\ c # wanted
  /\ pser' = [pc |-> IF s.station_connecting THEN "cache" ELSE "set", cfg |-> c]
  /\ UNCHANGED <<build, drv, evq, s, evt, told, asked, wanted, air, harm>>

Cached == [s EXCEPT !.new_wifi_config = pser.cfg, !.new_config_recvd = TRUE]

(* ... the configuration is cached until the station's next event if it    *)
(* was joining, ...                                                        *)
SetConfigCache ==
  /\ pser.pc = "cache"
  /\ s' = Cached
  /\ wanted' = pser.cfg /\ pser' = Idle
  /\ harm' = IF s.station_connecting /\ evt = "idle" THEN harm
             ELSE harm \union {"late_cache"}
  /\ UNCHANGED <<build, drv, evq, evt, told, reqs, asked, air>>

(* Mutant of SetConfigApply: the flag of an older configuration stays.     *)
SetConfigApplyKeepsFlag ==
  /\ pser.pc = "set"
  /\ drv' = IF DrvCanSet THEN [drv EXCEPT !.cfg = pser.cfg] ELSE drv
  /\ s' = IF DrvCanSet THEN s ELSE Cached
  /\ wanted' = pser.cfg /\ pser' = Idle
  /\ UNCHANGED <<build, evq, evt, told, asked, reqs, air, harm>>

(* ... and given to the driver, or cached if the driver refuses it,        *)
(* otherwise.  The request is answered ESP_OK in every case.               *)
SetConfigApply ==
  /\ pser.pc = "set"
  /\ drv' = IF DrvCanSet THEN [drv EXCEPT !.cfg = pser.cfg] ELSE drv
  /\ s' = IF DrvCanSet THEN [s EXCEPT !.new_config_recvd = FALSE] ELSE Cached
  /\ wanted' = pser.cfg /\ pser' = Idle
  /\ harm' = harm \union (IF drv.up = "off" THEN {"off"} ELSE {})
                   \union (IF evt = "idle" THEN {} ELSE {"set_overtaken"})
  /\ UNCHANGED <<build, evq, evt, told, reqs, asked, air>>

-----------------------------------------------------------------------------
(* event_handler_wifi.                                                     *)

Delivered(ev) == evt = "idle" /\ evq # <<>> /\ Head(evq) = ev

(* The cached configuration, given to the driver; the result decides only  *)
(* what happens in DisconnectedApplies.                                    *)
NewApplied(d) == IF DrvCanSet THEN [d EXCEPT !.cfg = s.new_wifi_config] ELSE d

(* WIFI_EVENT_STA_CONNECTED while a configuration is cached: it is given   *)
(* to the driver, the link is taken down, and the event this makes is not  *)
(* to reach the host.  The configuration stays cached.                     *)
ConnectedApplies ==
  /\ Delivered("connected") /\ s.new_config_recvd
  /\ drv' = [NewApplied(drv) EXCEPT !.link = "idle"]
  /\ evq' = Tail(evq) \o If(drv.link # "idle", "disconnected")
  /\ s' = [s EXCEPT !.suppress_disconnect = TRUE]
  /\ UNCHANGED <<build, pser, evt, told, asked, wanted, reqs, air, harm>>

(* Otherwise the host is told, ...                                         *)
ConnectedTells ==
  /\ Delivered("connected") /\ ~s.new_config_recvd
  /\ s' = [s EXCEPT !.station_connecting = FALSE, !.reconnect_retries = 0]
  /\ told' = "up"
  /\ evq' = Tail(evq) /\ evt' = "connected"
  /\ UNCHANGED <<build, drv, pser, asked, wanted, reqs, air, harm>>

(* ... and frames flow from then on.                                       *)
ConnectedOpens ==
  /\ evt = "connected" /\ evt' = "idle"
  /\ s' = [s EXCEPT !.rxcb = TRUE, !.station_connected = TRUE]
  /\ UNCHANGED <<build, drv, evq, pser, told, asked, wanted, reqs, air, harm>>

(* WIFI_EVENT_STA_DISCONNECTED: a cached configuration is given to the     *)
(* driver; ...                                                             *)
DisconnectedApplies ==
  /\ Delivered("disconnected")
  /\ evq' = Tail(evq)
  /\ drv' = IF s.new_config_recvd THEN NewApplied(drv) ELSE drv
  /\ evt' = IF s.new_config_recvd /\ DrvCanSet THEN "applied" ELSE "drop"
  /\ harm' = IF s.new_config_recvd /\ pser.pc = "set" THEN harm \union {"set_overtaken"}
             ELSE harm
  /\ UNCHANGED <<build, s, pser, told, asked, wanted, reqs, air>>

(* Mutant of DisconnectedClears: frames still go to the closed link.       *)
DisconnectedClearsLate ==
  /\ evt \in {"applied", "drop"}
  /\ s' = [s EXCEPT !.new_config_recvd = IF evt = "applied" THEN FALSE ELSE @]
  /\ evt' = IF evt = "applied" THEN "reconnect" ELSE "tell"
  /\ UNCHANGED <<build, drv, evq, pser, told, asked, wanted, reqs, air, harm>>

(* ... if it took it, it is no longer cached -- nor is one that has come   *)
(* in the meantime; frames stop flowing; ...                               *)
DisconnectedClears ==
  /\ evt \in {"applied", "drop"}
  /\ s' = [s EXCEPT !.new_config_recvd = IF evt = "applied" THEN FALSE ELSE @,
                    !.station_connected = FALSE, !.rxcb = FALSE]
  /\ evt' = IF evt = "applied" THEN "reconnect" ELSE "tell"
  /\ UNCHANGED <<build, drv, evq, pser, told, asked, wanted, reqs, air, harm>>

(* CONFIG_ESP_HOSTED_WIFI_AUTO_CONNECT_ON_STA_DISCONNECT: another attempt, *)
(* MaxRetry times in a row.                                                *)
Retry == build.on_disconnect /\ s.reconnect_retries < MaxRetry
RetriesNext == IF Retry THEN s.reconnect_retries + 1 ELSE 0

(* Mutant of DisconnectedTells: a suppressed event stays suppressed.       *)
DisconnectedTellsOnce ==
  /\ evt \in {"tell", "reconnect"} /\ evt' = "idle"
  /\ LET d == IF evt = "reconnect" THEN DrvConnect(drv) ELSE drv
     IN  drv' = IF ~s.suppress_disconnect /\ Retry THEN DrvConnect(d) ELSE d
  /\ told' = IF s.suppress_disconnect THEN told ELSE "down"
  /\ s' = [s EXCEPT !.station_connecting = (evt = "reconnect"),
       !.reconnect_retries = IF s.suppress_disconnect THEN @ ELSE RetriesNext]
  /\ UNCHANGED <<build, evq, pser, asked, wanted, reqs, air, harm>>

(* ... the station joins with the new configuration; and the host is told  *)
(* unless the slave itself had taken the link down.                        *)
DisconnectedTells ==
  /\ evt \in {"tell", "reconnect"} /\ evt' = "idle"
  /\ LET d == IF evt = "reconnect" THEN DrvConnect(drv) ELSE drv
     IN  drv' = IF ~s.suppress_disconnect /\ Retry THEN DrvConnect(d) ELSE d
  /\ told' = IF s.suppress_disconnect THEN told ELSE "down"
  /\ s' = [s EXCEPT !.station_connecting = (evt = "reconnect"),
       !.suppress_disconnect = FALSE,
       !.reconnect_retries = IF s.suppress_disconnect THEN @ ELSE RetriesNext]
  /\ harm' = IF evt = "reconnect" /\ DrvConnectResult(drv) = "ssid"
             THEN harm \union {"no_ssid"} ELSE harm
  /\ UNCHANGED <<build, evq, pser, asked, wanted, reqs, air>>

(* WIFI_EVENT_STA_START: with CONFIG_ESP_HOSTED_WIFI_AUTO_CONNECT_ON_...,  *)
(* the station joins; the result is ignored.                               *)
StaStarts ==
  /\ Delivered("sta_start")
  /\ evq' = Tail(evq)
  /\ IF build.on_start /\ ~s.station_connecting
     THEN /\ s' = [s EXCEPT !.station_connecting = TRUE]
          /\ drv' = DrvConnect(drv)
          /\ harm' = IF DrvConnectResult(drv) = "ssid" THEN harm \union {"no_ssid"} ELSE harm
     ELSE UNCHANGED <<s, drv, harm>>
  /\ UNCHANGED <<build, pser, evt, told, asked, wanted, reqs, air>>

StaStops ==
  /\ Delivered("sta_stop")
  /\ evq' = Tail(evq)
  /\ s' = [s EXCEPT !.station_connecting = FALSE]
  /\ UNCHANGED <<build, drv, pser, evt, told, asked, wanted, reqs, air, harm>>

(* WIFI_EVENT_AP_START and ..._STOP, told once per change.                 *)
ApChanges ==
  /\ Delivered("ap_start") \/ Delivered("ap_stop")
  /\ evq' = Tail(evq)
  /\ s' = [s EXCEPT !.softap_started = (Head(evq) = "ap_start")]
  /\ UNCHANGED <<build, drv, pser, evt, told, asked, wanted, reqs, air, harm>>

-----------------------------------------------------------------------------
Boot(b, flash) ==
  IF b.connect_sta
  THEN [DrvOff EXCEPT !.up = "started", !.cfg = flash]
  ELSE [DrvOff EXCEPT !.cfg = flash]

(* The slave has booted, with what is in its flash; connect_sta, in builds *)
(* that have it, has initialised and started the driver.                   *)
WifiInit ==
  /\ build \in Builds
  /\ \E flash \in AnyConfig : drv = Boot(build, flash) /\ wanted = flash
  /\ evq = If(build.connect_sta, "sta_start")
  /\ s = [station_connecting |-> FALSE, new_config_recvd |-> FALSE,
          new_wifi_config |-> NoConfig, suppress_disconnect |-> FALSE,
          reconnect_retries |-> 0, wifi_initialized |-> build.connect_sta,
          cached_init |-> Default, station_connected |-> FALSE,
          rxcb |-> FALSE, softap_started |-> FALSE]
  /\ pser = Idle /\ evt = "idle" /\ told = "down" /\ asked = Default
  /\ reqs = 0 /\ air = 0 /\ harm = {}

PserialStep ==
  \/ \E c \in InitConfigs : req_wifi_init(c)
  \/ req_wifi_deinit
  \/ \E m \in Mode : req_wifi_set_mode(m)
  \/ req_wifi_start \/ req_wifi_stop \/ req_wifi_disconnect
  \/ ConnectRequest \/ ConnectCall
  \/ \E c \in Config : SetConfigRequest(c)
  \/ SetConfigCache \/ SetConfigApply

EventStep ==
  \/ ConnectedApplies \/ ConnectedTells \/ ConnectedOpens
  \/ DisconnectedApplies \/ DisconnectedClears \/ DisconnectedTells
  \/ StaStarts \/ StaStops \/ ApChanges

WifiNext == DrvAir \/ PserialStep \/ EventStep

WifiSpec == WifiInit /\ [][WifiNext]_wifiVars

-----------------------------------------------------------------------------
(* Properties.                                                             *)

Quiet == evq = <<>> /\ evt = "idle" /\ pser.pc = "idle"

(* Whenever no event is on its way, the host has been told what is true of *)
(* the link, frames are forwarded exactly then, and both flags say so --   *)
(* although a link that comes up for the sake of a cached configuration is *)
(* hidden from the host, and so is its end.                                *)
HostKnowsLink ==
  Quiet => /\ (told = "up") = (drv.link = "joined")
           /\ s.station_connected = (drv.link = "joined")
           /\ s.rxcb = s.station_connected

(* A disconnection is only hidden while the one the slave caused is on its *)
(* way, so that no real one is ever hidden from the host.                  *)
SuppressHasItsEvent ==
  s.suppress_disconnect =>
    \/ \E k \in 1 .. Len(evq) : evq[k] = "disconnected"
    \/ evt \in {"applied", "drop", "tell", "reconnect"}

(* The configuration of the last acknowledged set_config is in the driver  *)
(* or cached -- unless it was cached while the event handler was clearing  *)
(* the flag, or given to the driver while the handler held an older one.   *)
ConfigKept ==
  pser.pc = "idle" /\ harm \intersect {"late_cache", "set_overtaken"} = {} =>
    IF s.new_config_recvd THEN s.new_wifi_config = wanted ELSE drv.cfg = wanted

(* The host is never told of, and no frame goes over, a connection made    *)
(* with a configuration the host has replaced, unless it was replaced      *)
(* after the station's last event.                                         *)
CachedConfigApplied ==
  Quiet /\ drv.link = "joined" /\ s.new_config_recvd =>
    harm \intersect {"late_cache", "connect_twice"} # {}

(* station_connecting, which makes set_config cache, is set only while the *)
(* station joins -- unless the slave tried to join without an SSID, or a   *)
(* connect request met a station whose connection was being announced.     *)
ConnectingMeansJoining ==
  Quiet /\ s.station_connecting =>
    drv.link = "joining" \/ harm \intersect {"no_ssid", "connect_twice"} # {}

(* An initialised driver runs with what the host last asked for, but for   *)
(* the fields wifi_init_config_changed does not look at -- unless an       *)
(* earlier deinit failed after its flag was cleared.                       *)
InitConfigApplied ==
  s.wifi_initialized /\ "deinit_failed" \notin harm =>
    /\ drv.up # "off" /\ drv.init = s.cached_init
    /\ drv.init.compared = asked.compared /\ drv.init.caps = asked.caps

(* Frames for the soft-AP are accepted exactly while it is up.             *)
SoftApKnown ==
  Quiet => s.softap_started = (drv.up = "started" /\ HasAp(drv.mode))

(* The flags by which later requests and events are treated say what is    *)
(* true of the driver.                                                     *)
FlagsTrue == TypeOK /\ ConnectingMeansJoining /\ SoftApKnown

(* No configuration the host was told is accepted gets lost on its way:    *)
(* neither the station's, applied or cached, nor the driver's.             *)
ConfigsApplied == ConfigKept /\ CachedConfigApplied /\ InitConfigApplied
=============================================================================
