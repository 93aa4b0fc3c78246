--------------------------- MODULE SlaveRequests ---------------------------
(***************************************************************************)
(* The slave's request handlers other than the ones SlaveWifi models:      *)
(* firmware update, heartbeat, memory monitor, Bluetooth control,          *)
(* enterprise credentials, scan results, and the plain ones that pass a    *)
(* request on to ESP-IDF (slave_control.c, slave_wifi_std.c,               *)
(* slave_wifi_enterprise.c, slave_bt.c, slave_gpio_expander.c,             *)
(* slave_ext_coex.c).  pserial_task runs one handler at a time; the timer  *)
(* task, the receive task and the Bluetooth controller run beside it.      *)
(*                                                                         *)
(* The families of requests below share no state, so a behaviour uses one. *)
(***************************************************************************)
EXTENDS Integers, Sequences, FiniteSets

CONSTANTS
  Families,   (* families of requests a host may use, a subset of Family   *)
  MaxRequest, (* bound: requests of the host                               *)
  MaxRecords  (* bound: access points a scan finds                         *)

Family == {"ota", "timers", "bt", "eap", "scan", "plain"}

ASSUME RequestsAssumption ==
  Families \subseteq Family /\ MaxRequest \in Nat /\ MaxRecords \in Nat

VARIABLES
  family,  (* the requests this behaviour is about                         *)
  reqs,    (* how many requests there have been                            *)
  answer,  (* what the last one was answered, and whether it was done      *)
  ota,     (* ota_status, first_ota_write, the update partition, the timer *)
  tmr,     (* the software timers, their command queue and the handles     *)
  bt,      (* the Bluetooth controller and vhci_send_sem                   *)
  eap,     (* the enterprise credentials, the driver's pointers to them,   *)
           (* and what the last request made of each (history)             *)
  scan,    (* the scan's records, and what the host was told of them       *)
  pins,    (* the GPIO pins that requests have configured                  *)
  harm     (* history: which hazards have been met                         *)

reqVars == <<family, reqs, answer, ota, tmr, bt, eap, scan, pins, harm>>

Chunk  == {"first", "rest"}
Timer  == 1 .. MaxRequest
NoTimer == 0
Use    == {"hb", "mm"}
Cred   == {"ca", "key"}
Pin    == {"bus", "sdio_reset", "other"}

Harm == {"check_skipped", "begun_again", "timer_failed", "not_ready", "late_failure",
         "start_pending", "no_sem", "never_ready", "copy_failed", "fetch_failed",
         "short_list", "no_list", "wrong_call"}

TypeOK ==
  /\ family \in Families /\ reqs \in 0 .. MaxRequest /\ harm \subseteq Harm
  /\ answer \in [resp: {"ok", "fail", "none"}, done: BOOLEAN]
  /\ ota \in [status: {"not_started", "in_progress", "failed", "completed", "activated"},
              first: BOOLEAN, written: Seq(Chunk), compatible: BOOLEAN, open: BOOLEAN,
              boot: {"running", "update"}, timer: {"none", "created", "armed"}]
  /\ Len(ota.written) <= MaxRequest
  /\ tmr.state \in [Timer -> {"none", "created", "active", "deleted"}]
  /\ tmr.use \in [Timer -> Use]
  /\ tmr.queue \in Seq([cmd: {"start", "stop", "delete"}, id: Timer])
  /\ tmr.handle \in [Use -> Timer \union {NoTimer}]
  /\ tmr.asked \in [Use -> {"on", "off", "unknown"}]
  /\ bt \in [ctrl: {"off", "inited", "enabled"}, sem: {"none", "free", "taken"},
             cb: BOOLEAN, busy: BOOLEAN, waiting: BOOLEAN]
  /\ eap \in [heap: [Cred -> 0 .. MaxRequest], driver: [Cred -> 0 .. MaxRequest],
              last: [Cred -> {"none", "set", "cleared", "failed", "left"}],
              password: {"unset", "old", "new"}, new_password: {"unset", "new"}]
  /\ scan \in [driver: 0 .. MaxRecords, found: 0 .. MaxRecords, told_none: BOOLEAN]
  /\ pins \subseteq Pin

-----------------------------------------------------------------------------
(* How a handler answers.  RPC_TEMPLATE allocates the response first: if   *)
(* that fails the host gets a response without a body.                     *)

Answer(resp, done) == answer' = [resp |-> resp, done |-> done]
NoResponse == Answer("none", FALSE)

Request(f) ==
  family = f /\ ~bt.waiting /\ reqs < MaxRequest /\ reqs' = reqs + 1 /\ UNCHANGED family

Mark(h, cond) == harm' = IF cond THEN harm \union {h} ELSE harm

(* esp_rpc_command_dispatcher: a request no handler is registered for, or  *)
(* whose response cannot be allocated, is answered all the same.           *)
Undispatched ==
  /\ reqs < MaxRequest /\ reqs' = reqs + 1 /\ ~bt.waiting
  /\ NoResponse
  /\ UNCHANGED <<family, ota, tmr, bt, eap, scan, pins, harm>>

-----------------------------------------------------------------------------
(* Firmware update.                                                        *)

OtaOnly == UNCHANGED <<tmr, bt, eap, scan, pins>>
Whole == ota.written = <<"first", "rest">>

(* A new update erases the partition, whatever the boot partition is.      *)
req_ota_begin_handler(compatible) ==
  /\ Request("ota")
  /\ \/ /\ ota' = [ota EXCEPT !.status = "in_progress", !.first = TRUE, !.open = TRUE,
                              !.written = <<>>, !.compatible = compatible]
        /\ Mark("begun_again", ota.boot = "update")
        /\ Answer("ok", TRUE)
     \/ /\ Answer("fail", FALSE) /\ UNCHANGED <<ota, harm>>
  /\ OtaOnly

(* Mutant of FirstCheck: only the size is looked at.                       *)
FirstCheckSizeOnly(chunk) == ota.first /\ chunk # "first"

(* The check of the first chunk that is written: it must be the one with   *)
(* the header, of an image this chip can run.                              *)
FirstCheck(chunk) == ota.first /\ (chunk # "first" \/ ~ota.compatible)

(* The flag goes down before the check: a chunk sent again is not checked. *)
(* ESP-IDF refuses data that does not begin with an image's first byte.    *)
req_ota_write_handler(chunk) ==
  /\ Request("ota")
  /\ IF FirstCheck(chunk)
     THEN /\ ota' = [ota EXCEPT !.first = FALSE]
          /\ Mark("check_skipped", TRUE) /\ Answer("fail", FALSE)
     ELSE \/ /\ ota.open /\ (ota.written = <<>> => chunk = "first")
             /\ ota' = [ota EXCEPT !.first = FALSE, !.written = Append(@, chunk)]
             /\ Answer("ok", TRUE) /\ UNCHANGED harm
          \/ /\ ota' = [ota EXCEPT !.first = FALSE]
             /\ Answer("fail", FALSE) /\ UNCHANGED harm
  /\ OtaOnly

(* esp_ota_end closes the handle and verifies the image.                   *)
req_ota_end_handler ==
  /\ Request("ota")
  /\ \/ /\ ota.open /\ Whole
        /\ ota' = [ota EXCEPT !.open = FALSE, !.status = "completed"]
        /\ Answer("ok", TRUE)
     \/ /\ ota' = [ota EXCEPT !.open = FALSE, !.status = "failed"]
        /\ Answer("fail", FALSE)
  /\ UNCHANGED harm /\ OtaOnly

Ready == ota.status = "completed"

(* An update that is not ready is refused with the code of success.  What  *)
(* fails after the boot partition is set leaves it set.                    *)
req_ota_activate_handler ==
  /\ Request("ota")
  /\ \/ /\ ~Ready /\ Answer("ok", FALSE) /\ Mark("not_ready", TRUE) /\ UNCHANGED ota
     \/ /\ Ready /\ Answer("fail", FALSE) /\ UNCHANGED <<ota, harm>>
     \/ \E timer \in {"none", "created", "armed"} :
          /\ Ready
          /\ ota' = [ota EXCEPT !.boot = "update", !.status = "activated", !.timer = timer]
          /\ Answer(IF timer = "armed" THEN "ok" ELSE "fail", timer = "armed")
          /\ Mark("timer_failed", timer # "armed")
  /\ OtaOnly

(* vTimerCallback restarts the chip, two seconds later.                    *)
vTimerCallback ==
  /\ ota.timer = "armed"
  /\ ota' = [ota EXCEPT !.timer = "none", !.boot = "running", !.status = "not_started",
                        !.first = FALSE, !.open = FALSE, !.written = <<>>]
  /\ UNCHANGED <<family, reqs, answer, harm>> /\ OtaOnly

-----------------------------------------------------------------------------
(* Heartbeat and memory monitor: periodic timers.  A timer's commands go   *)
(* through a queue to the timer task, which has a lower priority.          *)

TimersOnly == UNCHANGED <<ota, bt, eap, scan, pins>>
Unused == {t \in Timer : tmr.state[t] = "none"}
Fresh  == CHOOSE t \in Unused : \A u \in Unused : t <= u
Active(t) == t # NoTimer /\ tmr.state[t] = "active"
Cmd(cmd, t) == [cmd |-> cmd, id |-> t]

(* Mutant of StopHeartbeat: the handle is dropped, the timer is not.       *)
StopHeartbeatOnlyForgets(t) == [tmr EXCEPT !.handle["hb"] = NoTimer]

(* stop_heartbeat: nothing unless the timer task has started the timer.    *)
StopHeartbeat(t) ==
  IF ~Active(t) THEN tmr
  ELSE [tmr EXCEPT !.handle["hb"] = NoTimer, !.queue = @ \o <<Cmd("stop", t), Cmd("delete", t)>>]

(* mem_monitor_setup's first half deletes the timer in any state.          *)
StopMonitor(t) ==
  IF t = NoTimer THEN tmr
  ELSE [tmr EXCEPT !.handle["mm"] = NoTimer,
                   !.queue = @ \o (IF Active(t) THEN <<Cmd("stop", t)>> ELSE <<>>)
                               \o <<Cmd("delete", t)>>]

(* xTimerCreate and xTimerStart, on the timers that stopping has left.     *)
Created(x, u)  == [x EXCEPT !.state[Fresh] = "created", !.use[Fresh] = u, !.handle[u] = Fresh]
Started(x, u)  == [Created(x, u) EXCEPT !.queue = Append(@, Cmd("start", Fresh)), !.asked[u] = "on"]

(* configure_heartbeat; an interval out of range changes nothing.          *)
req_config_heartbeat ==
  LET stopped == StopHeartbeat(tmr.handle["hb"])
      pending == tmr.handle["hb"] # NoTimer /\ ~Active(tmr.handle["hb"]) IN
  /\ Request("timers")
  /\ \/ /\ Answer("fail", FALSE) /\ UNCHANGED <<tmr, harm>>
     \/ /\ tmr' = [stopped EXCEPT !.asked["hb"] = "off"]
        /\ Answer("ok", TRUE) /\ Mark("start_pending", pending)
     \/ /\ Unused # {}
        /\ tmr' = Started(stopped, "hb")
        /\ Answer("ok", TRUE) /\ Mark("start_pending", pending)
     \/ /\ \/ tmr' = [stopped EXCEPT !.asked["hb"] = "unknown", !.handle["hb"] = NoTimer]
           \/ Unused # {} /\ tmr' = [Created(stopped, "hb") EXCEPT !.asked["hb"] = "unknown"]
        /\ Answer("fail", FALSE) /\ Mark("start_pending", pending)
  /\ TimersOnly

(* What the response is filled with is allocated after the effect.         *)
Filled ==
  \/ Answer("ok", TRUE) /\ UNCHANGED harm
  \/ Answer("fail", TRUE) /\ Mark("late_failure", TRUE)

(* req_mem_monitor with parameters mem_monitor_check_params accepts, or    *)
(* not; mem_monitor_setup enables, disables or (a query) changes nothing.  *)
req_mem_monitor ==
  LET stopped == StopMonitor(tmr.handle["mm"]) IN
  /\ Request("timers")
  /\ \/ Answer("fail", FALSE) /\ UNCHANGED <<tmr, harm>>
     \/ Filled /\ UNCHANGED tmr
     \/ Filled /\ tmr' = [stopped EXCEPT !.asked["mm"] = "off"]
     \/ Unused # {} /\ Filled /\ tmr' = Started(stopped, "mm")
     \/ /\ tmr' = [stopped EXCEPT !.asked["mm"] = "unknown"]
        /\ Answer("fail", FALSE) /\ UNCHANGED harm
  /\ TimersOnly

(* The timer task.                                                         *)
Becomes == [start |-> "active", stop |-> "created", delete |-> "deleted"]
TimerTask ==
  /\ tmr.queue # <<>>
  /\ LET c == Head(tmr.queue) IN
     tmr' = [tmr EXCEPT !.queue = Tail(@),
                        !.state[c.id] = IF @ = "deleted" THEN @ ELSE Becomes[c.cmd]]
  /\ UNCHANGED <<family, reqs, answer, harm>> /\ TimersOnly

-----------------------------------------------------------------------------
(* Bluetooth over the transport (the controller with VHCI).  vhci_send_sem *)
(* is taken for each packet and given when the controller is ready again.  *)

BtOnly == UNCHANGED <<ota, tmr, eap, scan, pins>>

init_bluetooth ==
  /\ Request("bt")
  /\ \/ /\ bt.ctrl = "off"
        /\ \E sem \in {"none", "free"} :
             /\ bt' = [bt EXCEPT !.ctrl = "inited", !.sem = sem]
             /\ Answer(IF sem = "free" THEN "ok" ELSE "fail", sem = "free")
             /\ Mark("no_sem", sem = "none")
     \/ Answer("fail", FALSE) /\ UNCHANGED <<bt, harm>>
  /\ BtOnly

(* The callbacks are registered once the controller is enabled.            *)
enable_bluetooth ==
  /\ Request("bt")
  /\ \/ /\ bt.ctrl = "inited"
        /\ \E cb \in BOOLEAN :
             /\ bt' = [bt EXCEPT !.ctrl = "enabled", !.cb = cb]
             /\ Answer(IF cb THEN "ok" ELSE "fail", TRUE)
             /\ Mark("late_failure", ~cb)
     \/ Answer("fail", FALSE) /\ UNCHANGED <<bt, harm>>
  /\ BtOnly

(* A controller that is busy with a packet will not say that it is ready.  *)
disable_bluetooth ==
  /\ Request("bt")
  /\ IF bt.ctrl = "enabled"
     THEN /\ bt' = [bt EXCEPT !.ctrl = "inited", !.cb = FALSE, !.busy = FALSE]
          /\ Answer("ok", TRUE) /\ Mark("never_ready", bt.sem = "taken")
     ELSE /\ bt' = [bt EXCEPT !.cb = FALSE]
          /\ Answer("fail", FALSE) /\ UNCHANGED harm
  /\ BtOnly

(* How esp_bt_controller_deinit and esp_bt_controller_mem_release end.     *)
DeinitResult == IF bt.ctrl = "inited" THEN {"ok", "failed", "not_released"} ELSE {"failed"}

(* The semaphore is deleted before the controller is known to stop.        *)
Deinited(r) == [bt EXCEPT !.sem = "none", !.waiting = FALSE,
                          !.ctrl = IF r = "failed" THEN @ ELSE "off"]

(* deinit_bluetooth first takes the semaphore, however long that takes.    *)
deinit_bluetooth ==
  /\ \/ Request("bt") /\ bt.sem # "taken"
     \/ bt.waiting /\ bt.sem = "free" /\ UNCHANGED <<family, reqs>>
  /\ \E r \in DeinitResult :
       /\ bt' = Deinited(r)
       /\ Answer(IF r = "ok" THEN "ok" ELSE "fail", r # "failed")
       /\ harm' = harm \union (CASE r = "failed" -> {"no_sem"}
                                 [] r = "not_released" -> {"late_failure"}
                                 [] OTHER -> {})
  /\ BtOnly

DeinitWaits ==
  /\ Request("bt") /\ bt.sem = "taken"
  /\ bt' = [bt EXCEPT !.waiting = TRUE]
  /\ UNCHANGED <<answer, harm>> /\ BtOnly

(* Mutant of HciPacket: the packet is dropped and the semaphore kept.      *)
HciPacketDropped == [bt EXCEPT !.sem = "taken"]

HciPacket == [bt EXCEPT !.sem = "taken", !.busy = bt.ctrl = "enabled"]

(* The receive task passes a packet of the host to the controller; a       *)
(* packet that cannot have the semaphore in two seconds is dropped.        *)
process_hci_rx_pkt ==
  /\ family = "bt" /\ bt.sem = "free"
  /\ bt' = HciPacket
  /\ Mark("never_ready", ~bt.cb)
  /\ UNCHANGED <<family, reqs, answer>> /\ BtOnly

controller_rcv_pkt_ready ==
  /\ bt.busy
  /\ bt' = [bt EXCEPT !.busy = FALSE, !.sem = IF bt.cb /\ bt.sem = "taken" THEN "free" ELSE @]
  /\ Mark("never_ready", ~bt.cb)
  /\ UNCHANGED <<family, reqs, answer>> /\ BtOnly

-----------------------------------------------------------------------------
(* Enterprise credentials.  A certificate is copied to the heap and the    *)
(* driver keeps a pointer to the copy; the old copy is freed first.        *)

EapOnly == UNCHANGED <<ota, tmr, bt, scan, pins>>
NowIn(c, copy, how) == [eap EXCEPT !.heap[c] = copy, !.last[c] = how]

Cleared(c) == [NowIn(c, 0, "cleared") EXCEPT !.driver[c] = 0]
Given(c, p) == [NowIn(c, p, "set") EXCEPT !.driver[c] = p]

(* A copy that fails is answered with the success RPC_TEMPLATE begins      *)
(* with: nobody looks at what the handler returns.  The driver, then or    *)
(* when it fails itself, still has the old copy.                           *)
req_eap_set_credential(c) ==
  /\ Request("eap")
  /\ \/ eap' = Given(c, reqs') /\ Answer("ok", TRUE) /\ UNCHANGED harm
     \/ eap' = NowIn(c, 0, "failed") /\ Answer("ok", FALSE) /\ Mark("copy_failed", TRUE)
     \/ eap' = NowIn(c, reqs', "failed") /\ Answer("fail", FALSE) /\ UNCHANGED harm
     \/ Answer("fail", FALSE) /\ UNCHANGED <<eap, harm>>
  /\ EapOnly

req_eap_clear_credential(c) ==
  /\ Request("eap")
  /\ eap' = Cleared(c)
  /\ Answer("ok", TRUE) /\ UNCHANGED harm /\ EapOnly

(* Both copies go, also when the driver fails to leave enterprise mode.    *)
req_wifi_sta_enterprise_disable ==
  /\ Request("eap")
  /\ \E ok \in BOOLEAN, kept \in SUBSET Cred :
       /\ ~ok => kept = Cred
       /\ eap' = [eap EXCEPT !.heap = [c \in Cred |-> 0], !.last = [c \in Cred |-> "left"],
                             !.driver = [c \in Cred |-> IF c \in kept THEN @[c] ELSE 0]]
       /\ Answer(IF ok THEN "ok" ELSE "fail", ok)
  /\ UNCHANGED harm /\ EapOnly

req_eap_set_password ==
  /\ Request("eap")
  /\ \/ /\ eap' = [eap EXCEPT !.password = "old"]
        /\ Answer("ok", TRUE)
     \/ Answer("fail", FALSE) /\ UNCHANGED eap
  /\ UNCHANGED harm /\ EapOnly

req_eap_clear_password ==
  /\ Request("eap")
  /\ eap' = [eap EXCEPT !.password = "unset"]
  /\ Answer("ok", TRUE) /\ UNCHANGED harm /\ EapOnly

(* The request for the new password calls the function for the password.   *)
req_eap_set_new_password ==
  /\ Request("eap")
  /\ \/ /\ eap' = [eap EXCEPT !.password = "new"]
        /\ Answer("ok", FALSE) /\ Mark("wrong_call", TRUE)
     \/ Answer("fail", FALSE) /\ UNCHANGED <<eap, harm>>
  /\ EapOnly

req_eap_clear_new_password ==
  /\ Request("eap")
  /\ eap' = [eap EXCEPT !.new_password = "unset"]
  /\ Answer("ok", TRUE) /\ UNCHANGED harm /\ EapOnly

-----------------------------------------------------------------------------
(* Scan results and the list of stations.                                  *)

ScanOnly == UNCHANGED <<ota, tmr, bt, eap, pins>>

(* The scan runs in the driver and leaves n records there.                 *)
req_wifi_scan_start(n) ==
  /\ Request("scan")
  /\ \/ /\ scan' = [driver |-> n, found |-> n, told_none |-> FALSE] /\ Answer("ok", TRUE)
     \/ Answer("fail", FALSE) /\ UNCHANGED scan
  /\ UNCHANGED harm /\ ScanOnly

req_wifi_clear_ap_list ==
  /\ Request("scan")
  /\ \/ /\ scan' = [driver |-> 0, found |-> 0, told_none |-> FALSE] /\ Answer("ok", TRUE)
     \/ Answer("fail", FALSE) /\ UNCHANGED scan
  /\ UNCHANGED harm /\ ScanOnly

(* copy_ap_record_to_rpc_struct and the allocations before it: the driver  *)
(* has let go of the k records; the host gets them or an error.            *)
Delivered(k) == [scan EXCEPT !.driver = @ - k, !.found = @ - k]
Lost(k)      == [scan EXCEPT !.driver = @ - k]

req_wifi_scan_get_ap_record ==
  /\ Request("scan")
  /\ \/ /\ scan.driver > 0
        /\ \/ scan' = Delivered(1) /\ Answer("ok", TRUE) /\ UNCHANGED harm
           \/ scan' = Lost(1) /\ Answer("fail", FALSE) /\ Mark("fetch_failed", TRUE)
     \/ Answer("fail", FALSE) /\ UNCHANGED <<scan, harm>>
  /\ ScanOnly

(* esp_wifi_scan_get_ap_num finds nothing.                                 *)
NoneToTell == scan.driver = 0

(* An error of the driver is answered as success without records.  Of more *)
(* records than the host has asked for the driver frees the rest.          *)
req_wifi_scan_get_ap_records(number) ==
  /\ Request("scan")
  /\ \/ /\ NoneToTell
        /\ scan' = [scan EXCEPT !.told_none = TRUE] /\ Answer("ok", TRUE) /\ UNCHANGED harm
     \/ /\ \E left \in {0, scan.driver} :
             scan' = [scan EXCEPT !.told_none = TRUE, !.driver = left]
        /\ Answer("ok", FALSE) /\ Mark("no_list", TRUE)
     \/ /\ scan.driver \in 1 .. number
        /\ \/ scan' = Delivered(scan.driver) /\ Answer("ok", TRUE) /\ UNCHANGED harm
           \/ scan' = Lost(scan.driver) /\ Answer("fail", FALSE) /\ Mark("fetch_failed", TRUE)
     \/ /\ number \in 1 .. scan.driver - 1
        /\ \/ /\ scan' = [Delivered(number) EXCEPT !.driver = 0]
              /\ Answer("ok", TRUE) /\ Mark("short_list", TRUE)
           \/ scan' = Lost(scan.driver) /\ Answer("fail", FALSE) /\ Mark("fetch_failed", TRUE)
     \/ Answer("fail", FALSE) /\ UNCHANGED <<scan, harm>>
  /\ ScanOnly

(* The stations' array that cannot be allocated is not an error.           *)
req_wifi_ap_get_sta_list ==
  /\ Request("scan")
  /\ \/ Answer("ok", TRUE) /\ UNCHANGED harm
     \/ Answer("ok", FALSE) /\ Mark("no_list", TRUE)
     \/ Answer("fail", FALSE) /\ UNCHANGED harm
  /\ UNCHANGED scan /\ ScanOnly

-----------------------------------------------------------------------------
(* Plain requests: what is asked is passed to one function of ESP-IDF.     *)
(* Setters change something there, getters do not; encoded getters         *)
(* allocate what they return.                                              *)

ScanSetters    == {"scan_stop", "set_protocol"}
ScanGetters    == {"get_protocol", "scan_get_ap_num"}
RadioSetters   == {"restore", "clear_fast_connect", "deauth_sta", "set_storage", "set_bandwidth",
                   "set_channel"}
RadioGetters   == {"get_bandwidth", "get_channel"}
CountrySetters == {"set_country_code", "set_country"}
CountryEncoded == {"get_country_code", "get_country"}
StationGetters == {"ap_get_sta_aid", "sta_get_rssi", "sta_get_aid", "sta_get_negotiated_phymode"}
BandSetters    == {"set_protocols", "set_bandwidths", "set_band", "set_band_mode"}
BandGetters    == {"get_band", "get_band_mode", "get_inactive_time"}
BandEncoded    == {"get_protocols", "get_bandwidths"}
ConfigEncoded  == {"get_config"}
ApEncoded      == {"sta_get_ap_info"}
TimeSetters    == {"set_inactive_time", "scan_params"}
TwtSetters     == {"twt_config", "itwt_setup", "itwt_teardown", "itwt_suspend",
                   "itwt_send_probe_req", "itwt_set_target_wake_time_offset"}
TwtGetters     == {"itwt_get_flow_id_status"}
DppSetters     == {"dpp_init", "dpp_deinit", "dpp_bootstrap_gen", "dpp_start_listen",
                   "dpp_stop_listen"}
PowerSetters   == {"set_mac", "set_ps", "set_max_tx_power"}
PowerGetters   == {"get_mode", "get_ps", "get_max_tx_power"}
MacEncoded     == {"get_mac"}
EapSetters     == {"enterprise_enable", "identity", "username", "disable_time_check",
                   "ttls_phase2_method", "suiteb", "pac_file", "fast_params",
                   "default_cert_bundle", "okc_support", "domain_name", "eap_methods"}
CoexSetters    == {"disable", "set_work_mode", "set_grant_delay", "set_validate_high"}
ChipEncoded    == {"iface_mac_addr_get", "get_coprocessor_fw_version"}
ImageEncoded   == {"app_get_desc"}

Setter  == ScanSetters \union RadioSetters \union CountrySetters \union BandSetters \union
           TimeSetters \union TwtSetters \union DppSetters \union PowerSetters \union EapSetters
           \union CoexSetters
Getter  == ScanGetters \union RadioGetters \union StationGetters \union BandGetters
           \union TwtGetters \union PowerGetters
Encoded == CountryEncoded \union BandEncoded \union ConfigEncoded \union ApEncoded
           \union MacEncoded \union ChipEncoded \union ImageEncoded

PlainOnly == UNCHANGED <<ota, tmr, bt, eap, scan>>

(* Mutant of Called: the result of the call is not looked at.              *)
CalledUnchecked(result, allocated) == Answer("ok", result = "ok")

(* RPC_RET_FAIL_IF, then RPC_ALLOC_ELEMENT.                                *)
Called(result, allocated) ==
  LET ok == result = "ok" /\ allocated IN Answer(IF ok THEN "ok" ELSE "fail", ok)

plain_request(h) ==
  /\ Request("plain")
  /\ \E result \in {"ok", "error"}, allocated \in BOOLEAN :
       /\ h \in Setter \union Getter => allocated
       /\ Called(result, allocated)
  /\ UNCHANGED <<pins, harm>> /\ PlainOnly

(* The address is set before it is copied to the response.                 *)
req_iface_mac_addr_set ==
  /\ Request("plain")
  /\ Filled \/ (Answer("fail", FALSE) /\ UNCHANGED harm)
  /\ UNCHANGED pins /\ PlainOnly

(* transport_gpio_pin_guard_is_eligible, for every pin of the request: the *)
(* mask has the pins of every bus, but not the reset pin of SDIO.          *)
Reserved == {"bus"}
Eligible(p) == p \intersect Reserved = {}

(* The requests that configure pins, req_gpio_... and the pins of req_ext_coex. *)
gpio_request(p) ==
  /\ Request("plain")
  /\ \/ /\ Eligible(p) /\ pins' = pins \union p /\ Answer("ok", TRUE)
     \/ Answer("fail", FALSE) /\ UNCHANGED pins
  /\ UNCHANGED harm /\ PlainOnly

-----------------------------------------------------------------------------
ReqInit ==
  /\ family \in Families /\ reqs = 0 /\ harm = {} /\ pins = {}
  /\ answer = [resp |-> "none", done |-> FALSE]
  /\ ota = [status |-> "not_started", first |-> FALSE, written |-> <<>>, compatible |-> FALSE,
            open |-> FALSE, boot |-> "running", timer |-> "none"]
  /\ tmr = [state |-> [t \in Timer |-> "none"], use |-> [t \in Timer |-> "hb"], queue |-> <<>>,
            handle |-> [u \in Use |-> NoTimer], asked |-> [u \in Use |-> "off"]]
  /\ bt = [ctrl |-> "off", sem |-> "none", cb |-> FALSE, busy |-> FALSE, waiting |-> FALSE]
  /\ eap = [heap |-> [c \in Cred |-> 0], driver |-> [c \in Cred |-> 0],
            last |-> [c \in Cred |-> "none"],
            password |-> "unset", new_password |-> "unset"]
  /\ scan = [driver |-> 0, found |-> 0, told_none |-> FALSE]

OtaNext ==
  \/ \E compatible \in BOOLEAN : req_ota_begin_handler(compatible)
  \/ \E chunk \in Chunk : req_ota_write_handler(chunk)
  \/ req_ota_end_handler \/ req_ota_activate_handler \/ vTimerCallback
TimersNext == req_config_heartbeat \/ req_mem_monitor \/ TimerTask
BtNext ==
  \/ init_bluetooth \/ enable_bluetooth \/ disable_bluetooth \/ deinit_bluetooth \/ DeinitWaits
  \/ process_hci_rx_pkt \/ controller_rcv_pkt_ready
EapNext ==
  \/ \E c \in Cred : req_eap_set_credential(c) \/ req_eap_clear_credential(c)
  \/ req_wifi_sta_enterprise_disable
  \/ req_eap_set_password \/ req_eap_clear_password
  \/ req_eap_set_new_password \/ req_eap_clear_new_password
ScanNext ==
  \/ \E n \in 0 .. MaxRecords : req_wifi_scan_start(n)
  \/ req_wifi_clear_ap_list \/ req_wifi_scan_get_ap_record
  \/ \E number \in 0 .. MaxRecords : req_wifi_scan_get_ap_records(number)
  \/ req_wifi_ap_get_sta_list
PlainNext ==
  \/ \E h \in Setter \union Getter \union Encoded : plain_request(h)
  \/ req_iface_mac_addr_set
  \/ \E p \in SUBSET Pin : gpio_request(p)

ReqNext == OtaNext \/ TimersNext \/ BtNext \/ EapNext \/ ScanNext \/ PlainNext \/ Undispatched

ReqSpec == ReqInit /\ [][ReqNext]_reqVars

-----------------------------------------------------------------------------
(* What the host is answered is what was done: success only for a request  *)
(* carried out, failure only for one that had no effect.  Known exceptions *)
(* are an activation that was not ready or whose timer failed, a list that *)
(* could not be made, the new password, a certificate that could not be    *)
(* copied, and an effect that an error while answering follows.            *)
AnswerTrue ==
  harm \intersect {"not_ready", "no_list", "wrong_call", "copy_failed", "late_failure"} = {}
    => answer.resp = "none" \/ (answer.resp = "ok") = answer.done

(* The boot partition, when it is the updated one, holds a whole image     *)
(* that was checked for this chip: unless the host began another update    *)
(* after the activation, or sent a refused first chunk again.              *)
BootsGoodImage ==
  (ota.boot = "update" /\ "begun_again" \notin harm) =>
    Whole /\ (ota.compatible \/ "check_skipped" \in harm)

(* Once its commands are carried out, the heartbeat that was asked for     *)
(* runs and no other: unless a request came while the timer task had not   *)
(* yet started the timer, which then nobody stops.                         *)
HeartbeatAsAsked ==
  (tmr.queue = <<>> /\ "start_pending" \notin harm) =>
    LET running == {t \in Timer : Active(t) /\ tmr.use[t] = "hb"} IN
    CASE tmr.asked["hb"] = "on" -> running = {tmr.handle["hb"]}
      [] OTHER -> running = {}

(* The same of the memory monitor, which needs no exception: its timer is  *)
(* deleted in any state.                                                   *)
MonitorAsAsked ==
  tmr.queue = <<>> =>
    LET running == {t \in Timer : Active(t) /\ tmr.use[t] = "mm"} IN
    CASE tmr.asked["mm"] = "on" -> running = {tmr.handle["mm"]}
      [] OTHER -> running = {}

(* An enabled controller can be sent packets, unless its semaphore could   *)
(* not be made or a failed deinit deleted it.                              *)
HciServed == bt.ctrl = "enabled" => bt.sem # "none" \/ "no_sem" \in harm

(* A deinit that waits for the semaphore, and pserial_task with it, waits  *)
(* for a controller that will give it: unless a packet was passed to a     *)
(* controller that was not enabled, or was disabled before it was ready.   *)
DeinitEnds ==
  bt.waiting => bt.sem = "free" \/ (bt.busy /\ bt.cb) \/ "never_ready" \in harm

(* A credential that was set is the driver's and its copy lives, one that  *)
(* was cleared the driver has let go of: only after a set that failed      *)
(* halfway, or when enterprise mode was left without clearing, does the    *)
(* driver keep a pointer to a copy that has been freed.                    *)
CredentialsAsAsked ==
  \A c \in Cred :
    /\ eap.last[c] = "set" => eap.driver[c] # 0 /\ eap.driver[c] = eap.heap[c]
    /\ eap.last[c] \in {"none", "cleared"} => eap.driver[c] = 0 /\ eap.heap[c] = 0

(* A host told that there are no records has all that the scan found,      *)
(* unless a fetch failed halfway, it asked for fewer than there were, or   *)
(* the driver's error was not passed on.                                   *)
NoneMeansDelivered ==
  scan.told_none =>
    scan.found = 0 \/ harm \intersect {"fetch_failed", "short_list", "no_list"} # {}

(* The host is told the truth, in an answer and in an empty list.          *)
HonestAnswers == AnswerTrue /\ NoneMeansDelivered

(* No request configures a pin of the transport, but for SDIO's reset.     *)
BusPinsKept == pins \subseteq Pin \ Reserved

(* What requests leave running or configured was asked for, and allowed.   *)
LeftAsAsked ==
  TypeOK /\ HeartbeatAsAsked /\ MonitorAsAsked /\ CredentialsAsAsked /\ BusPinsKept

(* Bluetooth goes on: packets for an enabled controller are served, and a  *)
(* deinit is not kept waiting for good.                                    *)
BluetoothGoesOn == HciServed /\ DeinitEnds
=============================================================================
