----------------------------- MODULE PhyOverlay -----------------------------
(***************************************************************************)
(* The overlay of the slave firmware: the registry of custom messages      *)
(* (slave_control.c), the handlers the overlay registers in it             *)
(* (phy_rpc_overlay), and around them the wrappers of the host library and *)
(* its upcalls (phy_rpc.c).  app_main boots and registers, pserial_task    *)
(* runs the handlers, the event task applies the radio setup again when    *)
(* Wi-Fi gets ready, the Wi-Fi task captures raw frames and a task         *)
(* forwards them.  PhyRpcHost has the dispatcher between a wrapper and the *)
(* slave; here a request arrives, and an answer may be lost.               *)
(*                                                                         *)
(* The parts share the handlers' dispatch only; a behaviour uses one.      *)
(***************************************************************************)
EXTENDS Integers, Sequences, FiniteSets

CONSTANTS
  Parts,           (* parts a host may use, a subset of Part               *)
  Rooms,           (* values of MAX_CUSTOM_MSG_HANDLERS                    *)
  LinkSets,        (* sets of weak symbols a chip's libphy may resolve     *)
  OVERLAY_CHANNEL, (* the channel configured for this slave                *)
  Channels,        (* the channels a host asks for                         *)
  Dbm,             (* the powers a host asks for                           *)
  Frames,          (* the frames a host sends                              *)
  RAW_QUEUE_LEN,
  MaxRequest,      (* bound: requests of the host                          *)
  MaxReady,        (* bound: Wi-Fi restarts, and restarts of the slave     *)
  MaxFrame         (* bound: frames and events                             *)

Part == {"radio", "hooks", "frames", "raw", "events"}
INT8 == -128 .. 127

ASSUME OverlayAssumption ==
  /\ Parts \subseteq Part /\ Rooms \subseteq Nat
  /\ Dbm \subseteq INT8 /\ Channels \union {OVERLAY_CHANNEL} \subseteq 2 .. 255
  /\ Frames \subseteq Seq(0 .. 255) /\ RAW_QUEUE_LEN \in Nat \ {0}
  /\ MaxRequest \in Nat /\ MaxReady \in Nat /\ MaxFrame \in Nat

VARIABLES
  part, room, links, (* what this behaviour is about                       *)
  boot,     (* how far app_main has come, and how often it started         *)
  registry, (* custom_msg_callbacks                                        *)
  call,     (* the host's request, and where it is                         *)
  answer,   (* the last answer: what it said, and what had been done       *)
  reqs,     (* how many requests there have been                           *)
  told,     (* whether the host knows the capabilities                     *)
  radio,    (* what the handlers and the event task set                    *)
  info,     (* s_state                                                     *)
  ready,    (* how far on_wifi_event has come, and how often it ran        *)
  raw,      (* promiscuous capture: queue, forwarding task, frames         *)
  up,       (* the host's callback and context, and the upcall in progress *)
  harm      (* history: which hazards have been met                        *)

bootVars == <<part, room, links>>
slaveVars == <<boot, registry, radio, info, ready, raw>>
overlayVars == <<bootVars, slaveVars, call, answer, reqs, told, up, harm>>

-----------------------------------------------------------------------------
(* The requests, in the order they are registered in.                      *)

PhyTable == <<"SET_CHANNEL", "SET_PHY_11P", "SET_TX_POWER", "SET_RX_GAIN",
  "SET_AGC_MAX_GAIN", "SET_CCA", "GET_CCA_COUNTERS", "RESET_CCA_COUNT", "SET_LOW_RATE",
  "SET_BANDWIDTH", "GET_PHY_RSSI", "SET_COUNTRY_PERM", "GET_INFO", "SET_FREQ", "SET_BAND",
  "SET_CHAN_FILT", "SET_CHAN14_MIC", "SET_RATE", "SET_MOST_TPW", "GET_MOST_TPW",
  "RESET_RX_GAIN_TBL", "GET_NOISE_FLOOR", "GET_TEMPERATURE", "SET_CSI_DUMP",
  "SET_LOOPBACK", "SET_BT_TX_GAIN", "SET_BT_FILTER", "GET_CAPS">>

ExtrasTable == <<"TX_80211", "SET_PROMISC", "SET_PROMISC_FILTER", "SET_PROTOCOL",
  "SET_MAC", "SET_CSI_ENABLE", "FTM_INITIATE", "SET_EVENT_MASK">>

WirelessTable == <<"ESPNOW_INIT", "ESPNOW_DEINIT", "ESPNOW_SET_PMK", "ESPNOW_ADD_PEER",
  "ESPNOW_DEL_PEER", "ESPNOW_SEND", "IEEE154_ENABLE", "IEEE154_SET_CHAN",
  "IEEE154_SET_PANID", "IEEE154_SET_PROMISC", "IEEE154_TX_RAW">>

Elems(s) == {s[i] : i \in DOMAIN s}
Req == Elems(PhyTable) \union Elems(ExtrasTable) \union Elems(WirelessTable)

(* The wrappers, by what they send and bring back.                         *)
RadioWrapped  == {"SET_CHANNEL", "SET_PHY_11P", "SET_TX_POWER", "SET_RX_GAIN",
                  "SET_AGC_MAX_GAIN", "SET_CCA", "SET_LOW_RATE", "SET_COUNTRY_PERM"}
CountWrapped  == {"SET_BANDWIDTH", "RESET_CCA_COUNT", "GET_CCA_COUNTERS", "GET_PHY_RSSI",
                  "GET_INFO"}
PhyWrapped    == {"SET_FREQ", "SET_BAND", "SET_CHAN_FILT", "SET_CHAN14_MIC", "SET_RATE",
                  "SET_MOST_TPW", "GET_MOST_TPW", "RESET_RX_GAIN_TBL", "GET_NOISE_FLOOR",
                  "GET_TEMPERATURE", "SET_CSI_DUMP", "SET_LOOPBACK", "SET_BT_TX_GAIN",
                  "SET_BT_FILTER", "GET_CAPS"}
WifiWrapped   == {"SET_PROMISC_FILTER", "SET_PROTOCOL", "SET_MAC", "SET_CSI_ENABLE",
                  "FTM_INITIATE"}
EspnowWrapped == {"ESPNOW_INIT", "ESPNOW_DEINIT", "ESPNOW_SET_PMK", "ESPNOW_ADD_PEER",
                  "ESPNOW_DEL_PEER"}
I154Wrapped   == {"IEEE154_ENABLE", "IEEE154_SET_CHAN", "IEEE154_SET_PANID",
                  "IEEE154_SET_PROMISC"}
FrameWrapped  == {"TX_80211", "ESPNOW_SEND", "IEEE154_TX_RAW"}

Used == CASE part = "radio"  -> RadioWrapped \union {"SET_FREQ", "SET_BAND", "SET_MOST_TPW"}
          [] part = "hooks"  -> CountWrapped \union PhyWrapped \union WifiWrapped
                                  \union EspnowWrapped \union I154Wrapped
                                  \union {"SET_EVENT_MASK", "SET_RX_GAIN", "SET_CCA",
                                         "SET_LOW_RATE"}
          [] part = "frames" -> FrameWrapped
          [] part = "raw"    -> {"SET_PROMISC"}
          [] part = "events" -> {}

(* The handlers that only call a function of libphy: which functions, any  *)
(* of which will do.                                                       *)
PhyHook ==
  [SET_FREQ |-> {"phy_set_freq"}, SET_BAND |-> {"phy_band_change", "phy_band_sel"},
   SET_CHAN_FILT |-> {"phy_chan_filt_set"}, SET_CHAN14_MIC |-> {"phy_chan14_mic_cfg_new"},
   SET_RATE |-> {"phy_set_rate"}, SET_MOST_TPW |-> {"phy_set_most_tpw"},
   GET_MOST_TPW |-> {"phy_get_most_tpw"}, RESET_RX_GAIN_TBL |-> {"phy_set_rx_gain_table"},
   GET_NOISE_FLOOR |-> {"phy_get_noise_floor"}, GET_TEMPERATURE |-> {"phy_xpd_tsens"},
   SET_CSI_DUMP |-> {"phy_csidump_force_lltf_cfg"},
   SET_LOOPBACK |-> {"phy_set_loopback_gain"},
   SET_BT_TX_GAIN |-> {"phy_bt_set_tx_gain_new", "phy_bt_tx_gain_set"},
   SET_BT_FILTER |-> {"phy_bt_filter_reg"}]
CcaHook ==
  [GET_CCA_COUNTERS |-> {"phy_get_cca_cnt"}, RESET_CCA_COUNT |-> {"phy_set_cca_cnt"},
   SET_BANDWIDTH |-> {"phy_bb_bss_cbw40"},
   GET_PHY_RSSI |-> {"phy_get_sigrssi", "phy_get_rssi"}]
Hooked == DOMAIN PhyHook \union DOMAIN CcaHook
HookOf(r) == IF r \in DOMAIN PhyHook THEN PhyHook[r] ELSE CcaHook[r]
Resolved(symbols) == symbols \intersect links # {}

(* The handlers that pass their request on to esp_wifi, esp_now or         *)
(* esp_ieee802154, which may not be there, and answer what that returned:  *)
(* it may be there and still say that the chip does not do it.             *)
Passed == WifiWrapped \union EspnowWrapped \union I154Wrapped
Absent(r) ==
  r \in I154Wrapped \union {"IEEE154_TX_RAW"} /\ ~Resolved({"esp_ieee802154"})

(* What GET_CAPS marks: the handlers there is a function for.  The two     *)
(* other tables are marked whole, registered or not.                       *)
PhyCaps ==
  {"SET_CHANNEL", "SET_PHY_11P", "SET_TX_POWER", "SET_COUNTRY_PERM", "GET_INFO", "GET_CAPS"}
  \union {r \in Hooked : Resolved(HookOf(r))}
  \union {r \in {"SET_RX_GAIN"} : Resolved({"phy_force_rx_gain"})}
  \union {r \in {"SET_AGC_MAX_GAIN"} : Resolved({"phy_agc_max_gain_set"})}
  \union {r \in {"SET_CCA"} : Resolved({"phy_disable_cca"})}
  \union {r \in {"SET_LOW_RATE"} : Resolved({"phy_disable_low_rate"})}
ExtrasCaps == Elems(ExtrasTable)
WirelessCaps == {r \in Elems(WirelessTable) : ~Absent(r)}
Caps == PhyCaps \union ExtrasCaps \union WirelessCaps

-----------------------------------------------------------------------------
(* The registry.                                                           *)

(* A table is registered in its order; what the registry has no room for   *)
(* is only logged.                                                         *)
Registered(table, reg) ==
  reg \union {table[i] : i \in {k \in DOMAIN table : Cardinality(reg) + k <= room}}

Mark(h, cond) == harm' = IF cond THEN harm \union {h} ELSE harm

Register(here, next, table) ==
  /\ boot.at = here /\ boot' = [boot EXCEPT !.at = next]
  /\ registry' = Registered(table, registry)
  /\ Mark("no_room", ~Elems(table) \subseteq registry')
  /\ UNCHANGED <<bootVars, call, answer, reqs, told, radio, info, ready, raw, up>>

phy_rpc_handlers_register  == Register("phy", "extras", PhyTable)
phy_rpc_extras_register    == Register("extras", "wireless", ExtrasTable)
phy_rpc_wireless_register  == Register("wireless", "loop", WirelessTable)

-----------------------------------------------------------------------------
(* app_main and the event task: slave_phy_apply.                           *)

BOOTSTRAP == 140
ELSEWHERE == 1     (* where a frequency or a band given to libphy tunes to   *)
UNTOLD    == 0     (* a power s_state is not told: the driver's or libphy's  *)

Radio0 == [country |-> FALSE, chan |-> 0, p11 |-> FALSE, quarter |-> UNTOLD, agc |-> TRUE,
           cca |-> TRUE, low |-> FALSE, max_gain |-> 255]
Info0  == [chan |-> 180, dbm |-> 20, p11 |-> TRUE, cca |-> TRUE, low |-> FALSE,
           max_gain |-> 255]
Raw0   == [q |-> FALSE, task |-> 0, on |-> FALSE, items |-> <<>>, air |-> 0,
           fwd |-> [t \in 1 .. 2 |-> 0], got |-> <<>>]
Up0    == [cb |-> 0, ctx |-> 0, reg |-> -1, rx |-> "idle", told |-> <<>>]
NoCall == [at |-> "host", req |-> "GET_INFO", n |-> 0, frame |-> <<>>]
NoAnswer == [req |-> "GET_INFO", status |-> "none", done |-> "nothing", frame |-> <<>>]

(* The steps of slave_phy_apply, each a call into the driver.              *)
Applied(at) ==
  CASE at = "country" -> [radio EXCEPT !.country = TRUE]
    [] at = "p11"     -> [radio EXCEPT !.p11 = TRUE]
    [] at = "140"     -> [radio EXCEPT !.chan = BOOTSTRAP]
    [] at = "tune"    -> [radio EXCEPT !.chan = OVERLAY_CHANNEL]
ApplySteps == {"country", "p11", "140", "tune"}
MayFail    == {"country", "140"}
After(at)  == CASE at = "country" -> "p11" [] at = "p11" -> "140" [] at = "140" -> "tune"
                [] at = "tune" -> "done"

BootApply ==
  /\ boot.at \in ApplySteps
  /\ radio' = Applied(boot.at)
  /\ boot' = [boot EXCEPT !.at = IF @ = "tune" THEN "phy" ELSE After(@)]
  /\ UNCHANGED <<bootVars, registry, call, answer, reqs, told, info, ready, raw, up, harm>>

(* A restart: app_main when its apply fails, or a task that asserts.  The  *)
(* host keeps what it knew; the request under way is never answered.       *)
Reboot ==
  /\ boot.runs < MaxReady
  /\ boot' = [at |-> "country", runs |-> boot.runs + 1]
  /\ registry' = {} /\ radio' = Radio0 /\ info' = Info0
  /\ ready' = [ready EXCEPT !.at = "idle"] /\ raw' = [Raw0 EXCEPT !.air = raw.air, !.got = raw.got]
  /\ call' = [call EXCEPT !.at = "host"] /\ answer' = NoAnswer
  /\ harm' = harm \union {"reboot"}
  /\ UNCHANGED <<bootVars, reqs, told, up>>
BootFails == boot.at \in MayFail /\ Reboot

WifiReady ==
  /\ part = "radio" /\ ready.at = "idle" /\ ready.runs < MaxReady
  /\ ready' = [at |-> "country", runs |-> ready.runs + 1]
  /\ UNCHANGED <<bootVars, boot, registry, call, answer, reqs, told, radio, info, raw, up, harm>>

on_wifi_event ==
  /\ ready.at \in ApplySteps
  /\ \/ radio' = Applied(ready.at)
        /\ ready' = [ready EXCEPT !.at = IF @ = "tune" THEN "idle" ELSE After(@)]
        /\ Mark("reapplied", registry # {} /\ ready.at \in {"p11", "tune"})
     \/ ready.at \in MayFail /\ ready' = [ready EXCEPT !.at = "idle"]
        /\ UNCHANGED <<radio, harm>>
  /\ UNCHANGED <<bootVars, boot, registry, call, answer, reqs, told, info, raw, up>>

-----------------------------------------------------------------------------
(* A request of the host: the wrapper checks, frames and sends it.         *)

(* Where a wrapper puts a frame, and where the handler looks for it: after *)
(* a fixed part in which two bytes tell its length.                        *)
Low(n)  == n % 256
High(n) == n \div 256
HostTx80211(f) == <<0, 0, 0, 0, Low(Len(f)), High(Len(f)), 0, 0>> \o f
HostEspnow(f)  == <<9, 9, 9, 9, 9, 9, Low(Len(f)), High(Len(f))>> \o f
HostI154(f)    == <<1, 0, Low(Len(f)), High(Len(f))>> \o f
Body(r, f) == CASE r = "TX_80211" -> HostTx80211(f) [] r = "ESPNOW_SEND" -> HostEspnow(f)
                [] r = "IEEE154_TX_RAW" -> HostI154(f)
FixedPart == [TX_80211 |-> 6, ESPNOW_SEND |-> 8, IEEE154_TX_RAW |-> 4]
MaxLen    == [TX_80211 |-> 1500, ESPNOW_SEND |-> 250, IEEE154_TX_RAW |-> 127]
Sendable(r) == IF r \in FrameWrapped THEN {f \in Frames : Len(f) \in 1 .. MaxLen[r]} ELSE {<<>>}

(* Mutant of Parsed: the length is not compared with what there is.        *)
ParsedUnchecked(r, body) ==
  LET fixed == FixedPart[r] IN LET n == body[fixed - 1] + 256 * body[fixed] + 1 IN
  [fits |-> TRUE, frame |-> IF fixed + n > Len(body) THEN <<>>
                                                     ELSE SubSeq(body, fixed + 1, fixed + n)]

Parsed(r, body) ==
  LET fixed == FixedPart[r] IN LET n == body[fixed - 1] + 256 * body[fixed] IN
  IF fixed + n > Len(body) THEN [fits |-> FALSE, frame |-> <<>>]
                           ELSE [fits |-> TRUE, frame |-> SubSeq(body, fixed + 1, fixed + n)]

Args(r) == CASE r = "SET_CHANNEL"  -> Channels
             [] r = "SET_TX_POWER" -> Dbm
             [] r = "SET_RX_GAIN"  -> {30, 255}
             [] r = "SET_AGC_MAX_GAIN" -> {100}
             [] r = "SET_BANDWIDTH" -> {20, 40, 80}
             [] OTHER -> {0, 1}

Call(r) ==
  /\ call.at = "host" /\ reqs < MaxRequest /\ reqs' = reqs + 1
  /\ \E n \in Args(r), f \in Sendable(r) :
       call' = [at |-> "slave", req |-> r, n |-> n, frame |-> f]
  /\ answer' = NoAnswer
  /\ UNCHANGED <<bootVars, slaveVars, told, up, harm>>

(* How the slave answers: esp_hosted_send_custom_data, whose copies of the *)
(* message may fail to be allocated.                                       *)
Says(status, done, frame) ==
  /\ call' = [call EXCEPT !.at = "host"]
  /\ \E s \in {status, "none"} :
       answer' = [req |-> call.req, status |-> s, done |-> done, frame |-> frame]
Simple(status, done) == Says(status, done, <<>>)
WithBody(status) == Simple(status, "all") \/ Simple("no_mem", "nothing")

RestOfSlave == UNCHANGED <<bootVars, boot, registry, reqs, ready, up>>
Quiet       == RestOfSlave /\ UNCHANGED <<raw, radio, info>>

(* req_custom_rpc_handler, whose status the wrapper gets when there is no  *)
(* handler.                                                                *)
handle_custom_rpc_request ==
  /\ call.at = "slave" /\ call.req \notin registry
  /\ Simple("not_found", "nothing") /\ Quiet /\ UNCHANGED <<told, harm>>

Handling(r) == call.at = "slave" /\ call.req = r /\ r \in registry
Plain == RestOfSlave /\ UNCHANGED <<told, raw>>

-----------------------------------------------------------------------------
(* The handlers with a state of their own.                                 *)

(* The bootstrap channel, then the one asked for: another task may set a   *)
(* channel in between.  The country may be refused, which is ignored.      *)
on_set_channel ==
  /\ Handling("SET_CHANNEL")
  /\ \E c \in {TRUE, radio.country} :
       \/ /\ radio' = [radio EXCEPT !.country = c, !.chan = BOOTSTRAP]
          /\ call' = [call EXCEPT !.at = "tuning"] /\ UNCHANGED answer
       \/ /\ radio' = [radio EXCEPT !.country = c]
          /\ Simple("error", IF c = radio.country THEN "nothing" ELSE "part")
  /\ UNCHANGED <<info, harm>> /\ Plain

TunedTo(ch) == info' = [info EXCEPT !.chan = ch] /\ radio' = [radio EXCEPT !.chan = ch]
on_set_channel_tune ==
  /\ call.at = "tuning"
  /\ TunedTo(call.n)
  /\ Simple("ok", "all") /\ UNCHANGED harm /\ Plain

on_set_phy_11p ==
  /\ Handling("SET_PHY_11P")
  /\ radio' = [radio EXCEPT !.p11 = (call.n # 0)] /\ info' = [info EXCEPT !.p11 = (call.n # 0)]
  /\ Simple("ok", "all") /\ UNCHANGED harm /\ Plain

(* dbm * 4 is kept in an int8_t, then clamped; s_state has what was asked. *)
ToInt8(n) == ((n + 128) % 256) - 128
Quarters(dbm) ==
  LET q == ToInt8(dbm * 4) IN IF q < 8 THEN 8 ELSE IF q > 84 THEN 84 ELSE q
on_set_tx_power ==
  /\ Handling("SET_TX_POWER")
  /\ \/ radio' = [radio EXCEPT !.quarter = Quarters(call.n)]
        /\ info' = [info EXCEPT !.dbm = call.n] /\ Simple("ok", "all")
     \/ UNCHANGED <<radio, info>> /\ Simple("error", "nothing")
  /\ UNCHANGED harm /\ Plain

(* Releasing does what there is a function for; forcing a gain has the AGC *)
(* off before it finds that it cannot.                                     *)
on_set_rx_gain ==
  /\ Handling("SET_RX_GAIN")
  /\ LET agc_fn == IF call.n = 255 THEN "phy_enable_agc" ELSE "phy_disable_agc" IN
     radio' = [radio EXCEPT !.agc = IF Resolved({agc_fn}) THEN call.n = 255 ELSE @]
  /\ IF call.n = 255
     THEN Simple("ok", IF radio'.agc THEN "all" ELSE "nothing")
     ELSE IF Resolved({"phy_force_rx_gain"})
     THEN Simple("ok", "all")
     ELSE Simple("not_supported", IF radio' = radio THEN "nothing" ELSE "part")
  /\ UNCHANGED <<info, harm>> /\ Plain

(* A switch with a function for on and one for off, and its entry in       *)
(* s_state, set only when the function is there.                           *)
(* Mutant of Switched: s_state is set all the same.                        *)
SwitchedAnyway(field, on, fn) ==
  /\ info' = [info EXCEPT ![field] = on]
  /\ IF Resolved({fn}) THEN radio' = [radio EXCEPT ![field] = on] /\ Simple("ok", "all")
                       ELSE UNCHANGED radio /\ Simple("not_supported", "nothing")
Switched(field, on, fn) ==
  IF Resolved({fn})
  THEN /\ radio' = [radio EXCEPT ![field] = on] /\ info' = [info EXCEPT ![field] = on]
       /\ Simple("ok", "all")
  ELSE UNCHANGED <<radio, info>> /\ Simple("not_supported", "nothing")

on_set_agc_max_gain ==
  /\ Handling("SET_AGC_MAX_GAIN") /\ UNCHANGED harm /\ Plain
  /\ Switched("max_gain", call.n, "phy_agc_max_gain_set")
on_set_cca ==
  /\ Handling("SET_CCA") /\ UNCHANGED harm /\ Plain
  /\ Switched("cca", call.n # 0, IF call.n # 0 THEN "phy_enable_cca" ELSE "phy_disable_cca")
on_set_low_rate ==
  /\ Handling("SET_LOW_RATE") /\ UNCHANGED harm /\ Plain
  /\ Switched("low", call.n # 0,
              IF call.n # 0 THEN "phy_enable_low_rate" ELSE "phy_disable_low_rate")

on_set_country_permissive ==
  /\ Handling("SET_COUNTRY_PERM")
  /\ \/ radio' = [radio EXCEPT !.country = TRUE] /\ Simple("ok", "all")
     \/ UNCHANGED radio /\ Simple("error", "nothing")
  /\ UNCHANGED <<info, harm>> /\ Plain

on_get_info == Handling("GET_INFO") /\ WithBody("ok") /\ Quiet /\ UNCHANGED <<told, harm>>

(* The answer tells the host what it may use: too early, when not all the  *)
(* tables are registered yet.                                              *)
on_get_caps ==
  /\ Handling("GET_CAPS") /\ WithBody("ok") /\ Quiet
  /\ told' = (told \/ answer'.status = "ok")
  /\ Mark("early", answer'.status = "ok" /\ boot.at # "loop")

-----------------------------------------------------------------------------
(* The handlers that pass their request on.                                *)

(* Mutant of Hook: without the function the answer is still ESP_OK.        *)
HookUnchecked(r) ==
  IF Resolved(HookOf(r)) THEN Simple("ok", "all") ELSE Simple("ok", "nothing")

(* A function of libphy, which cannot fail; but the bandwidth may be       *)
(* invalid, and the lowest reading stands for there being none.            *)
Hook(r) ==
  IF ~Resolved(HookOf(r)) THEN Simple("not_supported", "nothing")
  ELSE CASE r = "SET_BANDWIDTH" /\ call.n \notin {20, 40} -> Simple("invalid", "nothing")
         [] r = "GET_PHY_RSSI" -> WithBody("ok") \/ Simple("not_supported", "nothing")
         [] OTHER -> Simple("ok", "all")

(* What libphy then sets of the radio, of which s_state is not told.       *)
SetUntold(r) ==
  CASE r \in {"SET_FREQ", "SET_BAND"} ->
         radio' = [radio EXCEPT !.chan = ELSEWHERE] /\ Mark("retuned", TRUE)
    [] r = "SET_MOST_TPW" ->
         radio' = [radio EXCEPT !.quarter = UNTOLD] /\ Mark("repowered", TRUE)
    [] OTHER -> UNCHANGED <<radio, harm>>

on_hooked(r) ==
  /\ Handling(r) /\ Hook(r)
  /\ IF answer'.done = "all" THEN SetUntold(r) ELSE UNCHANGED <<radio, harm>>
  /\ UNCHANGED info /\ Plain

on_passed(r) ==
  /\ Handling(r) /\ Quiet /\ UNCHANGED <<told, harm>>
  /\ IF Absent(r) THEN Simple("not_supported", "nothing")
                  ELSE \/ Simple("ok", "all")
                       \/ \E e \in {"error", "not_supported"} : Simple(e, "nothing")

(* Event masks are not implemented.                                        *)
on_set_event_mask ==
  Handling("SET_EVENT_MASK") /\ Simple("ok", "nothing") /\ Quiet /\ UNCHANGED <<told, harm>>

on_frame(r) ==
  /\ Handling(r) /\ Quiet /\ UNCHANGED <<told, harm>>
  /\ LET p == Parsed(r, Body(r, call.frame)) IN
     CASE ~p.fits   -> Simple("invalid", "nothing")
       [] p.fits /\ Absent(r) -> Simple("not_supported", "nothing")
       [] OTHER -> Says("ok", "all", p.frame) \/ Simple("error", "nothing")

-----------------------------------------------------------------------------
(* Promiscuous capture.                                                    *)

(* The first request to enable makes the queue and the forwarding task,    *)
(* whatever becomes of either.                                             *)
on_set_promisc ==
  /\ Handling("SET_PROMISC")
  /\ \E made \in {TRUE, FALSE}, task \in {0, 1}, err \in {TRUE, FALSE} :
       LET first == call.n # 0 /\ ~raw.q IN
       /\ raw' = [raw EXCEPT !.q = @ \/ (first /\ made),
                             !.task = IF first /\ @ < 2 THEN @ + task ELSE @,
                             !.on = IF err THEN @ ELSE call.n # 0]
       /\ harm' = harm \union (IF first /\ ~made THEN {"no_queue"} ELSE {})
                       \union (IF first /\ task = 0 THEN {"no_task"} ELSE {})
       /\ IF err THEN Simple("error", "nothing") ELSE Simple("ok", "all")
  /\ RestOfSlave /\ UNCHANGED <<told, radio, info>>

(* A frame is kept when there are memory and room for it.                  *)
promisc_cb ==
  /\ raw.on /\ raw.q /\ raw.air < MaxFrame
  /\ \/ /\ Len(raw.items) < RAW_QUEUE_LEN
        /\ raw' = [raw EXCEPT !.air = @ + 1, !.items = Append(@, raw.air + 1)]
     \/ raw' = [raw EXCEPT !.air = @ + 1]
  /\ UNCHANGED <<bootVars, boot, registry, call, answer, reqs, told, radio, info, ready, up, harm>>

TakeRaw(t) == raw' = [raw EXCEPT !.fwd[t] = Head(raw.items), !.items = Tail(raw.items)]

(* A task that finds no queue asserts.                                     *)
raw_forward_task(t) ==
  /\ t <= raw.task
  /\ \/ /\ raw.q /\ raw.fwd[t] = 0 /\ raw.items # <<>> /\ TakeRaw(t)
        /\ UNCHANGED <<bootVars, boot, registry, call, answer, reqs, told, radio, info, ready, up, harm>>
     \/ /\ raw.fwd[t] # 0
        /\ \E got \in {raw.got, Append(raw.got, raw.fwd[t])} :
             raw' = [raw EXCEPT !.fwd[t] = 0, !.got = got]
        /\ UNCHANGED <<bootVars, boot, registry, call, answer, reqs, told, radio, info, ready, up, harm>>
     \/ ~raw.q /\ Reboot

-----------------------------------------------------------------------------
(* Events of the slave, and the host's upcalls: the thread that receives   *)
(* tests the callback, then calls it; a registration writes the callback,  *)
(* then its context.                                                       *)

UpOnly == UNCHANGED <<bootVars, slaveVars, call, answer, reqs, told>>

(* A registration passes its own number as the context; 0 is NULL.         *)
RegisterCallback(v) ==
  /\ part = "events" /\ up.reg = -1
  /\ up' = [up EXCEPT !.cb = v, !.reg = v]
  /\ Mark("overlap", up.rx = "checked") /\ UpOnly
RegisterContext ==
  /\ up.reg # -1 /\ up' = [up EXCEPT !.ctx = up.reg, !.reg = -1]
  /\ UNCHANGED harm /\ UpOnly

(* A callback of the slave copies what it is given into an event, when     *)
(* there is memory, and sends it.                                          *)
Emit ==
  /\ part = "events" /\ up.rx = "idle" /\ up' = [up EXCEPT !.rx = "arrived"]
  /\ UNCHANGED harm /\ UpOnly

(* Mutant of UpcallCheck: no test.                                         *)
UpcallNoCheck ==
  /\ up.rx = "arrived" /\ up' = [up EXCEPT !.rx = "checked"]
  /\ UNCHANGED harm /\ UpOnly
UpcallCheck ==
  /\ up.rx = "arrived" /\ up' = [up EXCEPT !.rx = IF up.cb = 0 THEN "idle" ELSE "checked"]
  /\ UNCHANGED harm /\ UpOnly
UpcallCall ==
  /\ up.rx = "checked" /\ up' = [up EXCEPT !.rx = "idle", !.told = <<up.cb, up.ctx>>]
  /\ Mark("overlap", up.reg # -1) /\ UpOnly

-----------------------------------------------------------------------------
OverlayInit ==
  /\ part \in Parts /\ room \in Rooms /\ links \in LinkSets
  /\ part # "hooks" => room = CHOOSE n \in Rooms : \A m \in Rooms : n >= m
  /\ boot = [at |-> "country", runs |-> 0] /\ registry = {} /\ call = NoCall
  /\ answer = NoAnswer /\ reqs = 0 /\ told = FALSE /\ radio = Radio0 /\ info = Info0
  /\ ready = [at |-> "idle", runs |-> 0] /\ raw = Raw0 /\ up = Up0 /\ harm = {}

BootNext ==
  /\ part # "events"
  /\ \/ BootApply \/ BootFails
     \/ phy_rpc_handlers_register \/ phy_rpc_extras_register \/ phy_rpc_wireless_register
RadioNext ==
  \/ WifiReady \/ on_wifi_event
  \/ on_set_channel \/ on_set_channel_tune \/ on_set_phy_11p \/ on_set_tx_power
  \/ on_set_rx_gain \/ on_set_agc_max_gain \/ on_set_cca \/ on_set_low_rate
  \/ on_set_country_permissive
OtherNext ==
  \/ on_get_info \/ on_get_caps \/ on_set_event_mask
  \/ \E r \in Hooked : on_hooked(r)
  \/ \E r \in Passed : on_passed(r)
  \/ \E r \in FrameWrapped : on_frame(r)
RawNext == on_set_promisc \/ promisc_cb \/ \E t \in 1 .. 2 : raw_forward_task(t)
UpNext ==
  \/ \E v \in 0 .. MaxFrame : RegisterCallback(v)
  \/ RegisterContext \/ Emit \/ UpcallCheck \/ UpcallCall

OverlayNext ==
  \/ BootNext \/ \E r \in Used : Call(r)
  \/ handle_custom_rpc_request \/ RadioNext \/ OtherNext \/ RawNext \/ UpNext

OverlaySpec == OverlayInit /\ [][OverlayNext]_overlayVars

-----------------------------------------------------------------------------
(* Every variable of the overlay model keeps its type.                     *)
TypeOK ==
  /\ part \in Parts /\ room \in Rooms /\ links \in LinkSets /\ registry \subseteq Req
  /\ boot \in [at: ApplySteps \union {"phy", "extras", "wireless", "loop"}, runs: 0 .. MaxReady]
  /\ call.at \in {"host", "slave", "tuning"} /\ call.req \in Req
  /\ answer.req \in Req /\ answer.done \in {"all", "part", "nothing"}
  /\ answer.status \in {"none", "ok", "error", "invalid", "no_mem", "not_found", "not_supported"}
  /\ reqs \in 0 .. MaxRequest /\ told \in BOOLEAN
  /\ radio.quarter \in 8 .. 84 \union {UNTOLD} /\ info.dbm \in INT8
  /\ radio.chan \in Channels \union {0, ELSEWHERE, BOOTSTRAP, OVERLAY_CHANNEL}
  /\ ready \in [at: ApplySteps \union {"idle"}, runs: 0 .. MaxReady]
  /\ raw.task \in 0 .. 2 /\ Len(raw.items) <= RAW_QUEUE_LEN
  /\ up.rx \in {"idle", "arrived", "checked"} /\ up.reg \in -1 .. MaxFrame
  /\ harm \subseteq {"no_room", "reboot", "reapplied", "retuned", "repowered", "early",
                     "no_queue", "no_task", "overlap"}

AtRest == call.at # "tuning" /\ ready.at = "idle" /\ boot.at \notin ApplySteps

(* What GET_INFO reports is how the radio is set: unless Wi-Fi got ready   *)
(* again, which tunes to the configured channel and arms 11p without       *)
(* telling s_state, a frequency or a band was set and no channel since, or *)
(* the configured channel is not the one s_state starts with.              *)
InfoTrue ==
  AtRest =>
    /\ info.cca = radio.cca /\ info.low = radio.low /\ info.max_gain = radio.max_gain
    /\ info.p11 = radio.p11 \/ "reapplied" \in harm
    /\ \/ OVERLAY_CHANNEL # Info0.chan \/ info.chan = radio.chan
       \/ "reapplied" \in harm \/ (radio.chan = ELSEWHERE /\ "retuned" \in harm)

(* When no task is setting it, the radio is on a channel that was asked    *)
(* for, never left on the one it is moved from, whoever came in between.   *)
TunedAtRest == AtRest => radio.chan \in Channels \union {OVERLAY_CHANNEL, ELSEWHERE}

(* The power is the one reported, held to the range of the radio: beyond   *)
(* 31 dBm and below -32 dBm the multiplication wraps, SET_MOST_TPW sets it *)
(* behind s_state, and until a power is set s_state reports 20 dBm and the *)
(* driver has its own.                                                     *)
PowerAsReported ==
  IF radio.quarter = UNTOLD
  THEN info.dbm = Info0.dbm \/ "repowered" \in harm
  ELSE info.dbm \in -32 .. 31 =>
         radio.quarter = IF info.dbm < 2 THEN 8 ELSE IF info.dbm > 21 THEN 84 ELSE 4 * info.dbm

(* An ESP_OK answer means that it was done, another that nothing was: but  *)
(* an event mask does nothing, releasing a gain may have no function, and  *)
(* a gain or a channel may be refused halfway.                             *)
AnswerTrue ==
  /\ answer.status = "ok" =>
       answer.done = "all" \/ answer.req \in {"SET_EVENT_MASK", "SET_RX_GAIN"}
  /\ answer.status \notin {"ok", "none"} =>
       answer.done = "nothing" \/ answer.req \in {"SET_RX_GAIN", "SET_CHANNEL"}

(* A host that knows the capabilities is refused what is not in them, and  *)
(* nothing that is: unless the registry had no room for the handler, the   *)
(* host asked before all of them were registered, or the slave restarted.  *)
(* But a switch is marked by its function for off, the RSSI may have no    *)
(* value, and a request that is passed on is marked because ESP-IDF has    *)
(* the call: the chip may not do it, as is said of FTM_INITIATE.           *)
CapsHonest ==
  told /\ answer.status # "none" =>
    IF answer.req \in Caps
    THEN /\ answer.status = "not_found" => harm \intersect {"no_room", "early", "reboot"} # {}
         /\ answer.status = "not_supported" =>
              answer.req \in {"SET_CCA", "SET_LOW_RATE", "GET_PHY_RSSI"} \union Passed
    ELSE answer.status = "ok" => answer.req \in {"SET_RX_GAIN", "SET_CCA", "SET_LOW_RATE"}

(* The frame that is sent is the host's, byte for byte, in whatever header *)
(* the wrapper and the handler agree on: "the slave does not modify it     *)
(* before injecting via esp_wifi_80211_tx" (phy_rpc_proto.h:307-309).      *)
FrameVerbatim ==
  answer.status = "ok" /\ answer.req \in FrameWrapped => answer.frame = call.frame

(* So it is of ESP-NOW and IEEE 802.15.4 frames.  Raw 802.11 the wrapper   *)
(* puts two bytes further than the handler looks.                          *)
FrameIntact == answer.req # "TX_80211" => FrameVerbatim

(* Raw frames reach the host in the order of their capture, none twice;    *)
(* two tasks forward when the first found no queue but had not run yet.    *)
RawInOrder ==
  "no_queue" \in harm \/ \A i, j \in DOMAIN raw.got : i < j => raw.got[i] < raw.got[j]

(* An upcall has a callback and the context registered with it, unless the *)
(* registration changed under it.                                          *)
UpcallMatches ==
  up.told = <<>> \/ "overlap" \in harm \/ (up.told[1] # 0 /\ up.told[1] = up.told[2])

(* The radio is as the host is told: state, channel and power.             *)
StateTrue == TypeOK /\ InfoTrue /\ TunedAtRest /\ PowerAsReported

(* Answers and capabilities tell the host what was done and can be done.   *)
AnswersHonest == AnswerTrue /\ CapsHonest

(* ESP-NOW and IEEE 802.15.4 frames are sent as the host gave them, and    *)
(* captured ones reach it in their order, once.                            *)
FramesIntact == FrameIntact /\ RawInOrder
=============================================================================
