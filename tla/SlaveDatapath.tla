--------------------------- MODULE SlaveDatapath ---------------------------
(***************************************************************************)
(* The slave's path to the host and the host's sleep: the events of the    *)
(* bus driver (event_handler of esp_hosted_coprocessor.c), the tasks that  *)
(* carry the host's sleep and wake-up (power_save_alert_task), the tasks   *)
(* that send (process_tx_pkt, with the wake-up of host_power_save.c), the  *)
(* receive task, the announcement of the slave (host_reset_task), the lock *)
(* that holds off light sleep (slave_light_sleep.c), and the router of     *)
(* network split.  The bus is SDIO, the repository's default; its driver   *)
(* is modelled in SlaveBus, here only its state counts.                    *)
(*                                                                         *)
(* None of these variables has a lock, and every task that has a packet    *)
(* runs process_tx_pkt itself (BYPASS_TX_PRIORITY_Q).  The host is         *)
(* external: it tells the slave before it sleeps and after it wakes.       *)
(***************************************************************************)
EXTENDS NwSplitRouter

CONSTANTS
  Senders,   (* tasks that send to the host: Wi-Fi, pserial, Bluetooth     *)
  Frames,    (* station frames that arrive                                 *)
  Reserved,  (* the configuration's reserved ports                         *)
  Builds,    (* build options that occur, a subset of Build                *)
  MaxHost,   (* bound: what the host does                                  *)
  MaxSend    (* bound: packets to send                                     *)

(* Network split; the bus driver unloaded while the host sleeps; a light   *)
(* sleep while the host sleeps.                                            *)
Build == [split: BOOLEAN, unload: BOOLEAN, light_sleep: BOOLEAN]
PsTasks == {1, 2}   (* bound: power_save_alert_tasks alive at once *)

ASSUME DatapathAssumption ==
  /\ Builds \subseteq Build /\ Frames \subseteq Frame
  /\ LET Lists == [src: Seq(Word), dst: Seq(Word)] IN Reserved \in [tcp: Lists, udp: Lists]
  /\ MaxHost \in Nat /\ MaxSend \in Nat

VARIABLES
  build,  (* the options of this build                                     *)
  host,   (* external: what the host does, and whether it knows the slave  *)
  sl,     (* the slave's static variables                                  *)
  ps,     (* where each power_save_alert_task is                           *)
  snd,    (* where each sender is, and what it carries                     *)
  rst,    (* where host_reset_task is                                      *)
  steps,  (* how much the host has done, and how many packets there were   *)
  lost,   (* history: a packet was dropped although the host was awake and *)
          (* had told so                                                   *)
  harm    (* history: which races have happened                            *)

datapathVars == <<build, host, sl, ps, snd, rst, steps, lost, harm>>

-----------------------------------------------------------------------------
State == {"deinit", "active"}
Kind == {"waking", "passing", "ordinary"}
PsPc == {"none", "on_take", "on_set", "on_deinit", "on_down", "on_ready",
         "off_prepare", "off_clear", "off_give", "off_reset"}
SndPc == {"idle", "check", "wake", "init", "initing", "trigger", "wait", "give", "write"}

TypeOK ==
  /\ build \in Builds
  /\ host \in [st: {"off", "awake", "asleep", "waking"}, knows: BOOLEAN]
  /\ sl \in [enable: BOOLEAN, power_save_on: BOOLEAN, wakeup_sem: 0 .. 1,
             datapath: BOOLEAN, handle: BOOLEAN, state: State,
             host_reset_sem: 0 .. 1, pm_lock: {"none", "held", "released"}]
  /\ ps \in [PsTasks -> PsPc]
  /\ snd \in [Senders -> [pc: SndPc, kind: Kind]]
  /\ rst \in {"wait", "startup"}
  /\ steps \in [host: 0 .. MaxHost, send: 0 .. MaxSend]
  /\ lost \in BOOLEAN
  /\ harm \subseteq {"overlap", "borrowed", "aborted", "rebooted", "before_init",
                     "woke_between", "double_init", "timer"}

-----------------------------------------------------------------------------
(* Helpers.                                                                *)

Harm(h, cond) == harm' = IF cond THEN harm \union {h} ELSE harm

(* The driver is up, as the host sees it: not unloaded, nor being so.      *)
BusUp == sl.handle /\ sl.state = "active" /\ \A i \in PsTasks : ps[i] # "on_down"

PsQuiet == \A i \in PsTasks : ps[i] = "none"

Unladen == [pc |-> "idle", kind |-> "waking"]

(* A packet is dropped.                                                    *)
Drops(t) ==
  /\ snd' = [snd EXCEPT ![t] = Unladen]
  /\ lost' = (lost \/ (host.st = "awake" /\ PsQuiet))

-----------------------------------------------------------------------------
(* event_handler, called by the bus driver when the host writes to it.     *)

(* The task created for an event finds a free place.                       *)
CreatesAlert(pc) ==
  \E i \in PsTasks :
    /\ ps[i] = "none" /\ \A j \in PsTasks : j < i => ps[j] # "none"
    /\ ps' = [ps EXCEPT ![i] = pc]

(* Mutant of Opened: the startup is not asked for.                         *)
OpenedSilently == [sl EXCEPT !.state = "active", !.datapath = TRUE]

(* ESP_OPEN_DATA_PATH.                                                     *)
Opened == [sl EXCEPT !.state = "active", !.datapath = TRUE, !.host_reset_sem = 1]

(* ESP_POWER_SAVE_OFF, before its task.                                    *)
AwakeAgain == [sl EXCEPT !.state = "active", !.datapath = TRUE]

-----------------------------------------------------------------------------
(* The host.                                                               *)

HostMay == steps.host < MaxHost /\ steps' = [steps EXCEPT !.host = @ + 1]

(* Its transport comes up.                                                 *)
HostOpens ==
  /\ HostMay /\ host.st = "off" /\ BusUp
  /\ host' = [st |-> "awake", knows |-> FALSE]
  /\ sl' = Opened
  /\ UNCHANGED <<build, ps, snd, rst, lost, harm>>

(* It says that it will sleep.  The power save of the slave may not have   *)
(* been initialised yet, or an earlier change is still being carried out.  *)
HostSleeps ==
  /\ HostMay /\ host.st = "awake" /\ BusUp
  /\ host' = [host EXCEPT !.st = "asleep"]
  /\ CreatesAlert("on_take")
  /\ Harm("overlap", ~PsQuiet)
  /\ UNCHANGED <<build, sl, snd, rst, lost>>

(* It fails to sleep after it has said so (esp_hosted_power_save_start).   *)
HostAborts ==
  /\ HostMay /\ host.st = "asleep"
  /\ host' = [host EXCEPT !.st = "awake"]
  /\ Harm("aborted", TRUE)
  /\ UNCHANGED <<build, sl, ps, snd, rst, lost>>

(* It wakes, because of the wake-up pin or by itself, and says so once the *)
(* slave's bus is there.                                                   *)
HostWakes ==
  /\ host.st = "asleep"
  /\ host' = [host EXCEPT !.st = "waking"]
  /\ UNCHANGED <<build, sl, ps, snd, rst, steps, lost, harm>>

HostSaysAwake ==
  /\ host.st = "waking" /\ BusUp
  /\ host' = [st |-> "awake", knows |-> FALSE]
  /\ sl' = AwakeAgain
  /\ CreatesAlert("off_prepare")
  /\ Harm("overlap", ~PsQuiet)
  /\ UNCHANGED <<build, snd, rst, steps, lost>>

(* It reboots without resetting the slave, perhaps out of its sleep.       *)
HostReboots ==
  /\ HostMay /\ host.st \in {"awake", "asleep", "waking"}
  /\ host' = [st |-> "off", knows |-> FALSE]
  /\ Harm("rebooted", sl.power_save_on \/ ~PsQuiet \/ host.st # "awake")
  /\ UNCHANGED <<build, sl, ps, snd, rst, lost>>

-----------------------------------------------------------------------------
(* host_power_save_alert, a step at a time.  The callbacks are those of    *)
(* example_light_sleep.c, which also initialises both modules.             *)

(* host_power_save_init and slave_light_sleep_init, after                  *)
(* esp_hosted_coprocessor_init.                                            *)
PowerSaveInit ==
  /\ ~sl.enable
  /\ sl' = [sl EXCEPT !.enable = TRUE, !.wakeup_sem = 1,
                      !.pm_lock = IF build.light_sleep THEN "held" ELSE "none"]
  /\ UNCHANGED <<build, host, ps, snd, rst, steps, lost, harm>>

To(i, pc) == ps' = [ps EXCEPT ![i] = pc]

(* A sender may have taken the semaphore to see whether the host is awake: *)
(* it is there again when the sender gives it back.                        *)
PsOnTake(i) ==
  /\ ps[i] = "on_take"
  /\ IF sl.enable
     THEN /\ sl' = [sl EXCEPT !.wakeup_sem = 0]
          /\ To(i, "on_set")
          /\ Harm("borrowed", \E t \in Senders : snd[t].pc = "give")
     ELSE /\ To(i, "none") /\ Harm("before_init", TRUE) /\ UNCHANGED sl
  /\ UNCHANGED <<build, host, snd, rst, steps, lost>>

PsOnSet(i) ==
  /\ ps[i] = "on_set"
  /\ sl' = [sl EXCEPT !.power_save_on = TRUE]
  /\ To(i, "on_deinit")
  /\ UNCHANGED <<build, host, snd, rst, steps, lost, harm>>

(* The driver's deinit, which takes a while, when the driver is to be      *)
(* unloaded; else there is nothing to it.                                  *)
PsOnDeinit(i) ==
  /\ ps[i] = "on_deinit"
  /\ To(i, IF build.unload /\ sl.state = "active" THEN "on_down" ELSE "on_ready")
  /\ UNCHANGED <<build, host, sl, snd, rst, steps, lost, harm>>

(* Its end.  A sender that found the driver active has been misled: its    *)
(* packet is dropped at the write.                                         *)
PsOnDown(i) ==
  /\ ps[i] = "on_down"
  /\ sl' = [sl EXCEPT !.state = "deinit"]
  /\ To(i, "on_ready")
  /\ UNCHANGED <<build, host, snd, rst, steps, lost, harm>>

(* slave_light_sleep_start.                                                *)
PsOnReady(i) ==
  /\ ps[i] = "on_ready"
  /\ sl' = [sl EXCEPT !.pm_lock = IF @ = "held" THEN "released" ELSE @]
  /\ To(i, "none")
  /\ UNCHANGED <<build, host, snd, rst, steps, lost, harm>>

(* slave_light_sleep_stop.                                                 *)
LightSleepStopped(lock) == IF lock = "released" THEN "held" ELSE lock

PsOffPrepare(i) ==
  /\ ps[i] = "off_prepare"
  /\ IF sl.enable
     THEN /\ sl' = [sl EXCEPT !.pm_lock = LightSleepStopped(@)]
          /\ To(i, "off_clear")
     ELSE /\ To(i, "off_reset") /\ UNCHANGED sl
  /\ UNCHANGED <<build, host, snd, rst, steps, lost, harm>>

(* Mutant of Cleared: the flag stays.                                      *)
ClearedNot == sl

Cleared == [sl EXCEPT !.power_save_on = FALSE]

PsOffClear(i) ==
  /\ ps[i] = "off_clear"
  /\ sl' = Cleared
  /\ To(i, "off_give")
  /\ UNCHANGED <<build, host, snd, rst, steps, lost, harm>>

(* Mutant of Gave: the semaphore is not given.                             *)
GaveNot == sl

Gave == [sl EXCEPT !.wakeup_sem = 1]

PsOffGive(i) ==
  /\ ps[i] = "off_give"
  /\ sl' = Gave
  /\ To(i, "off_reset")
  /\ UNCHANGED <<build, host, snd, rst, steps, lost, harm>>

(* power_save_alert_task, after the alert.                                 *)
PsOffReset(i) ==
  /\ ps[i] = "off_reset"
  /\ sl' = [sl EXCEPT !.host_reset_sem = 1]
  /\ To(i, "none")
  /\ UNCHANGED <<build, host, snd, rst, steps, lost, harm>>

-----------------------------------------------------------------------------
(* Sending.                                                                *)

(* What the configuration lists, as it was meant: the ports of each list   *)
(* that are kept whole, and those whose last digit is cut off, as which    *)
(* others may come.                                                        *)
Listed(ports) == {ports[i] : i \in {j \in DOMAIN ports : j <= MaxAllowed}}
Whole(ports) == {p \in Listed(ports) : p < 10000}
CutForms(ports) == {p \div 10 : p \in Listed(ports) \ Whole(ports)}

IsListed(f) ==
  /\ f.proto \in {"tcp", "udp"}
  /\ f.src \in Listed(Reserved[f.proto].src) \/ f.dst \in Listed(Reserved[f.proto].dst)
IsListedWhole(f) ==
  /\ f.proto \in {"tcp", "udp"}
  /\ f.src \in Whole(Reserved[f.proto].src) \/ f.dst \in Whole(Reserved[f.proto].dst)
IsCutForm(f) ==
  /\ f.proto \in {"tcp", "udp"}
  /\ f.src \in CutForms(Reserved[f.proto].src) \/ f.dst \in CutForms(Reserved[f.proto].dst)

(* What no rule is for.                                                    *)
OfDefault(f) ==
  f.proto = "other" \/ (f.proto \in {"tcp", "udp"} /\ ~IsRemote(f.dst) /\ ~IsLocal(f.dst))

(* A station frame, by what the configuration and the protocols make of    *)
(* it: listed ports and the forms they are cut to, the wake-up message,    *)
(* DHCP and, unless the slave is the default, what no rule is for, may     *)
(* wake the host; others should come only to a host that is awake, as far  *)
(* as the slave knows.                                                     *)
FrameKind(f, saving) ==
  IF \/ IsListed(f) \/ IsCutForm(f)
     \/ f.proto = "tcp" /\ IsRemote(f.dst) /\ IsWakeUp(f)
     \/ f.proto = "udp" /\ f.dst = DHCP_CLIENT_PORT
     \/ DefaultBridge # "slave" /\ OfDefault(f)
  THEN "waking" ELSE IF saving THEN "ordinary" ELSE "passing"

(* What goes to the host: with network split what the router sends there,  *)
(* by whether it believes the host asleep; without, every frame.           *)
ToHost(split, saving) ==
  {f \in Frames :
     split => Route(f, AllowedPorts(Reserved), saving, FALSE) \in {"host", "both"}}
Routed ==
  [split \in BOOLEAN |->
     [saving \in BOOLEAN |-> {FrameKind(f, saving) : f \in ToHost(split, saving)}]]

Carries(t, kind) ==
  /\ snd[t].pc = "idle" /\ steps.send < MaxSend
  /\ steps' = [steps EXCEPT !.send = @ + 1]
  /\ snd' = [snd EXCEPT ![t] = [pc |-> "check", kind |-> kind]]

(* A response or an event, or a Bluetooth packet.                          *)
SendSerial(t) ==
  /\ Carries(t, "waking")
  /\ UNCHANGED <<build, host, sl, ps, rst, lost, harm>>

(* wlan_sta_rx_callback: a frame the router has for the host.  The part of *)
(* a frame for both that goes to the slave's own stack changes nothing     *)
(* here.                                                                   *)
SendFrame(t) ==
  /\ \E kind \in Routed[build.split][sl.power_save_on] : Carries(t, kind)
  /\ UNCHANGED <<build, host, sl, ps, rst, lost, harm>>

(* wlan_ap_rx_callback: every frame of a station of the SoftAP is the      *)
(* host's, with network split too.                                         *)
SendApFrame(t) ==
  /\ Carries(t, "waking")
  /\ UNCHANGED <<build, host, sl, ps, rst, lost, harm>>

(* process_tx_pkt: a closed data path drops the packet, a sleeping host is *)
(* woken for any (is_host_wakeup_needed).  A packet the router let pass    *)
(* while the host was awake may find it asleep.                            *)
Check(t) ==
  /\ snd[t].pc = "check"
  /\ IF ~sl.datapath THEN Drops(t)
     ELSE /\ snd' = [snd EXCEPT ![t].pc = IF sl.power_save_on THEN "wake" ELSE "write"]
          /\ UNCHANGED lost
  /\ UNCHANGED <<build, host, sl, ps, rst, steps, harm>>

(* wakeup_host, first part.                                                *)
Wake(t) ==
  /\ snd[t].pc = "wake"
  /\ IF sl.power_save_on /\ sl.enable /\ ~sl.handle
     THEN Drops(t)
     ELSE /\ snd' = [snd EXCEPT ![t].pc =
                IF ~sl.power_save_on \/ ~sl.enable THEN "write" ELSE
                IF sl.state = "deinit" THEN "init" ELSE "trigger"]
          /\ UNCHANGED lost
  /\ UNCHANGED <<build, host, sl, ps, rst, steps, harm>>

(* The driver's init: nothing for a driver that is active.                 *)
Init_(t) ==
  /\ snd[t].pc = "init"
  /\ snd' = [snd EXCEPT ![t].pc = IF sl.state = "active" THEN "trigger" ELSE "initing"]
  /\ Harm("double_init", sl.state # "active" /\ \E u \in Senders : snd[u].pc = "initing")
  /\ UNCHANGED <<build, host, sl, ps, rst, steps, lost>>

(* It ends.  sdio_slave_initialize refuses a bus that is initialised, and  *)
(* the handle is lost: the packet goes to write with no handle.            *)
InitDone(t) ==
  /\ snd[t].pc = "initing"
  /\ IF sl.state = "active"
     THEN sl' = [sl EXCEPT !.handle = FALSE] /\ snd' = [snd EXCEPT ![t].pc = "write"]
     ELSE /\ sl' = [sl EXCEPT !.state = "active", !.handle = TRUE]
          /\ snd' = [snd EXCEPT ![t].pc = IF sl.power_save_on THEN "trigger" ELSE "write"]
  /\ UNCHANGED <<build, host, ps, rst, steps, lost, harm>>

(* wakeup_host, second part.  A host that has woken meanwhile makes it     *)
(* report a failure, since nothing was triggered.                          *)
Trigger(t) ==
  /\ snd[t].pc = "trigger"
  /\ IF sl.power_save_on
     THEN snd' = [snd EXCEPT ![t].pc = "wait"] /\ UNCHANGED <<lost, harm>>
     ELSE Drops(t) /\ Harm("woke_between", TRUE)
  /\ UNCHANGED <<build, host, sl, ps, rst, steps>>

(* trigger_host_wakeup: the pin is pulsed until the semaphore is there ... *)
TriggerTake(t) ==
  /\ snd[t].pc = "wait" /\ sl.wakeup_sem = 1
  /\ sl' = [sl EXCEPT !.wakeup_sem = 0]
  /\ snd' = [snd EXCEPT ![t].pc = "give"]
  /\ UNCHANGED <<build, host, ps, rst, steps, lost, harm>>

GivesBack == [sl EXCEPT !.wakeup_sem = 1]

TriggerGive(t) ==
  /\ snd[t].pc = "give"
  /\ sl' = GivesBack
  /\ snd' = [snd EXCEPT ![t].pc = "write"]
  /\ UNCHANGED <<build, host, ps, rst, steps, lost, harm>>

(* ... or its timer cannot be created or started.                          *)
TriggerFails(t) ==
  /\ snd[t].pc = "wait"
  /\ Drops(t) /\ Harm("timer", TRUE)
  /\ UNCHANGED <<build, host, sl, ps, rst, steps>>

(* sdio_write refuses a driver that is not active and a host that sleeps.  *)
Write(t) ==
  /\ snd[t].pc = "write"
  /\ IF ~sl.handle \/ sl.state # "active" \/ sl.power_save_on
     THEN Drops(t)
     ELSE snd' = [snd EXCEPT ![t] = Unladen] /\ UNCHANGED lost
  /\ UNCHANGED <<build, host, sl, ps, rst, steps, harm>>

-----------------------------------------------------------------------------
(* host_reset_task: the capabilities, then the event ESPInit.              *)
HostReset ==
  /\ rst = "wait" /\ sl.host_reset_sem = 1
  /\ sl' = [sl EXCEPT !.host_reset_sem = 0]
  /\ rst' = "startup"
  /\ UNCHANGED <<build, host, ps, snd, steps, lost, harm>>

Startup ==
  /\ rst = "startup"
  /\ rst' = "wait"
  /\ host' = [host EXCEPT !.knows =
                 @ \/ (host.st = "awake" /\ sl.handle /\ sl.state = "active")]
  /\ UNCHANGED <<build, sl, ps, snd, steps, lost, harm>>

-----------------------------------------------------------------------------
(* esp_hosted_coprocessor_init has run: the driver is up, the data path    *)
(* waits for the host.                                                     *)
DatapathInit ==
  /\ build \in Builds
  /\ host = [st |-> "off", knows |-> FALSE]
  /\ sl = [enable |-> FALSE, power_save_on |-> FALSE, wakeup_sem |-> 0,
           datapath |-> FALSE, handle |-> TRUE, state |-> "active",
           host_reset_sem |-> 0, pm_lock |-> "none"]
  /\ ps = [i \in PsTasks |-> "none"]
  /\ snd = [t \in Senders |-> Unladen]
  /\ rst = "wait"
  /\ steps = [host |-> 0, send |-> 0]
  /\ lost = FALSE /\ harm = {}

DatapathNext ==
  \/ HostOpens \/ HostSleeps \/ HostAborts \/ HostWakes \/ HostSaysAwake \/ HostReboots
  \/ PowerSaveInit
  \/ \E i \in PsTasks :
       \/ PsOnTake(i) \/ PsOnSet(i) \/ PsOnDeinit(i) \/ PsOnDown(i) \/ PsOnReady(i)
       \/ PsOffPrepare(i) \/ PsOffClear(i) \/ PsOffGive(i) \/ PsOffReset(i)
  \/ \E t \in Senders :
       \/ SendSerial(t) \/ SendFrame(t) \/ SendApFrame(t)
       \/ Check(t) \/ Wake(t) \/ Init_(t) \/ InitDone(t)
       \/ Trigger(t) \/ TriggerTake(t) \/ TriggerGive(t) \/ TriggerFails(t) \/ Write(t)
  \/ HostReset \/ Startup

DatapathSpec == DatapathInit /\ [][DatapathNext]_datapathVars
-----------------------------------------------------------------------------
(* Properties.  A race that harm names is one the code really has.         *)

Told == host.st \in {"asleep", "waking"}
None(races) == harm \intersect races = {}

(* Once the tasks are done the slave knows whether the host sleeps.  (The  *)
(* alerts of host_power_save.c run in tasks of their own, in no order.)    *)
SleepKnown ==
  PsQuiet /\ None({"overlap", "aborted", "rebooted", "before_init"}) =>
    (sl.power_save_on <=> Told)

(* The semaphore senders wait for is there exactly while the host does not *)
(* sleep: no sender waits for a host that is awake, none goes on without   *)
(* waking one that sleeps.                                                 *)
SemaphoreMeansAwake ==
  PsQuiet /\ sl.enable /\ (\A t \in Senders : snd[t].pc # "give")
    /\ None({"overlap", "borrowed"}) =>
    (sl.wakeup_sem = 1 <=> ~sl.power_save_on)

(* While the host is awake and has said so, the driver is up, and the data *)
(* path is open: packets pass in both directions (recv_task idles without). *)
PathOpen ==
  PsQuiet /\ host.st = "awake"
    /\ None({"overlap", "aborted", "rebooted", "double_init"}) =>
    sl.datapath /\ sl.handle /\ sl.state = "active" /\ ~sl.power_save_on

(* A packet is not lost on its way to a host that is awake and has said so *)
(* but by one of the races of the wake-up.                                 *)
LostOnlyByRace ==
  lost => ~None({"overlap", "aborted", "rebooted", "woke_between", "double_init", "timer"})

(* The slave sleeps lightly only while the host sleeps.                    *)
LightSleepOnlyWithHost ==
  PsQuiet /\ sl.pm_lock = "released" /\ None({"overlap", "aborted", "rebooted"}) => Told

(* At rest, a host that is awake has had the slave's capabilities since it *)
(* opened the data path or woke (host_reset_task).                         *)
Announced ==
  PsQuiet /\ rst = "wait" /\ sl.host_reset_sem = 0 /\ host.st = "awake"
    /\ None({"aborted", "rebooted", "double_init", "overlap"}) => host.knows

(* With network split, station frames that nothing names do not wake the   *)
(* host, but for those that were let pass just before it went to sleep and *)
(* those whose port is a listed one less its last digit.  Responses,       *)
(* events, Bluetooth and every frame of the SoftAP do wake it.             *)
OrdinaryTrafficLetsSleep ==
  build.split => \A t \in Senders : snd[t].pc \in {"wait", "give"} => snd[t].kind # "ordinary"

(* Listed frames that the router has for another than the host.            *)
Astray ==
  [saving \in BOOLEAN |->
     {f \in Frames : IsListed(f) /\ Route(f, AllowedPorts(Reserved), saving, FALSE) # "host"}]

(* A frame from or to a port that the configuration lists for the host     *)
(* reaches it, asleep or awake, unless it is listed by five-digit ports    *)
(* only, which init_allowed_ports cuts to four: those have to find their   *)
(* way as other traffic does.                                              *)
ListedReachesHost == \A f \in Astray[sl.power_save_on] : ~IsListedWhole(f)

(* What the slave believes of the host's sleep is true of the host, of     *)
(* the senders' semaphore and of its own light sleep.                      *)
SleepTrue ==
  /\ TypeOK
  /\ SleepKnown
  /\ SemaphoreMeansAwake
  /\ LightSleepOnlyWithHost

(* A host that is awake is served: the path is open and it knows the       *)
(* slave.                                                                  *)
PathServes == PathOpen /\ Announced

(* Network split has for the host what the configuration lists for it, and *)
(* wakes it for no other frame of the station's, but for the ports it      *)
(* cuts.                                                                   *)
RoutedRight == OrdinaryTrafficLetsSleep /\ ListedReachesHost
=============================================================================
