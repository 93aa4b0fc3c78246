------------------------ MODULE SlaveTransportProofs ------------------------
(***************************************************************************)
(* Proofs about what carries the slave's traffic: first its data path and  *)
(* the host's sleep, for any senders, frames, reserved ports, builds and   *)
(* numbers of steps; then the bus drivers beneath it, for any of the four  *)
(* buses, any senders, queue sizes, thresholds and numbers of steps.  The  *)
(* two models share nothing: each has its own invariant.                   *)
(***************************************************************************)
EXTENDS SlaveDatapath, SlaveBus, TLAPS, FiniteSetTheorems

USE DEF datapathVars, Unladen

-----------------------------------------------------------------------------
(* None of the races that leave the host and the slave apart for good.     *)
Orderly == "overlap" \notin harm /\ "aborted" \notin harm /\ "rebooted" \notin harm

(* Where the tasks are that carry the host's sleep, and its wake-up.       *)
Going  == {"on_take", "on_set", "on_deinit", "on_down", "on_ready"}
Coming == {"off_prepare", "off_clear", "off_give", "off_reset"}

(* One task at a time, unless two of them overlap.                         *)
OneAlert ==
  "overlap" \notin harm => \A i, j \in PsTasks : ps[i] # "none" /\ ps[j] # "none" => i = j

(* What a step needs has been initialised, or opened.                      *)
Ready ==
  /\ sl.power_save_on => sl.enable
  /\ sl.pm_lock # "none" => sl.enable
  /\ \A i \in PsTasks : ps[i] = "on_set" => sl.enable
  /\ host.st # "off" => sl.datapath

(* The driver's handle is kept, and one sender at a time brings the driver *)
(* up, unless two of them do.                                              *)
BusKept ==
  "double_init" \notin harm =>
    /\ sl.handle
    /\ \A t \in Senders : snd[t].pc = "initing" => sl.state = "deinit"
    /\ \A t, u \in Senders : snd[t].pc = "initing" /\ snd[u].pc = "initing" => t = u

(* The slave follows the host: where a task is says what the host does,    *)
(* and what the slave has noted is true of it but while a task is on its   *)
(* way to note it.                                                         *)
Followed ==
  Orderly =>
    /\ \A i \in PsTasks : ps[i] \in Going => Told
    /\ \A i \in PsTasks : ps[i] \in Coming => host.st = "awake"
    /\ sl.power_save_on => Told \/ \E i \in PsTasks : ps[i] \in {"off_prepare", "off_clear"}
    /\ Told /\ "before_init" \notin harm =>
         sl.power_save_on \/ \E i \in PsTasks : ps[i] \in {"on_take", "on_set"}
    /\ sl.pm_lock = "released" => Told \/ \E i \in PsTasks : ps[i] = "off_prepare"
    /\ host.st = "awake" => sl.state = "active"

(* The semaphore is there, or a sender is about to give it back.           *)
Available == sl.wakeup_sem = 1 \/ \E t \in Senders : snd[t].pc = "give"

(* It is there while the host does not sleep, but between the two steps    *)
(* that change both.                                                       *)
Signalled ==
  sl.enable /\ "overlap" \notin harm /\ "borrowed" \notin harm =>
    /\ (\A i \in PsTasks : ps[i] \notin {"on_set", "off_give"}) =>
         (sl.power_save_on <=> ~Available)
    /\ \A i \in PsTasks : ps[i] = "on_set" => ~Available
    /\ \A i \in PsTasks : ps[i] = "off_give" => ~sl.power_save_on

(* A host that is awake and does not know the slave will be told.          *)
AnnouncementOwed ==
  Orderly /\ "double_init" \notin harm /\ host.st = "awake" /\ ~host.knows =>
    sl.host_reset_sem = 1 \/ rst = "startup" \/ \E i \in PsTasks : ps[i] \in Coming

(* Network split sends nothing that was meant to wait.                     *)
NoneOrdinary == build.split => \A t \in Senders : snd[t].kind # "ordinary"

(* A loss has its race.                                                    *)
LossHasRace ==
  lost => \E h \in {"overlap", "aborted", "rebooted", "woke_between", "double_init", "timer"} :
            h \in harm

(* The inductive invariant.                                                *)
DatapathInv ==
  /\ TypeOK
  /\ OneAlert
  /\ Ready
  /\ BusKept
  /\ Followed
  /\ Signalled
  /\ AnnouncementOwed
  /\ NoneOrdinary
  /\ LossHasRace

-----------------------------------------------------------------------------
(* The router.                                                             *)

(* What a frame says of itself.                                            *)
LEMMA KnownFrame ==
  ASSUME NEW f \in Frames
  PROVE  /\ f.proto \in {"multicast", "tcp", "udp", "echo", "echo_reply",
                         "arp_request", "arp_reply", "other"}
         /\ f.src \in Word /\ f.dst \in Word
<1>1. f \in Frame
  BY DatapathAssumption
<1> QED
  BY <1>1 DEF Frame

(* What a list comes to: its short ports, and the others less a digit.     *)
LEMMA ListRead ==
  ASSUME NEW ports \in Seq(Word)
  PROVE  Allowed(ports) = Whole(ports) \union CutForms(ports)
<1>1. \A p \in Listed(ports) : p \in Nat
  BY DEF Listed, Word
<1>2. Allowed(ports) = {Kept(p) : p \in Listed(ports)}
  BY DEF Allowed, Listed
<1>3. \A p \in Whole(ports) : p \in Listed(ports) /\ Kept(p) = p
  BY <1>1 DEF Whole, Kept
<1>4. \A p \in Listed(ports) \ Whole(ports) : Kept(p) = p \div 10
  BY <1>1 DEF Whole, Kept
<1> QED
  BY <1>2, <1>3, <1>4 DEF CutForms

(* So it is the frames of these that are taken for the host's.             *)
LEMMA ReservedMeansListed ==
  ASSUME NEW f \in Frames, f.proto \in {"tcp", "udp"}
  PROVE  IsReserved(f, AllowedPorts(Reserved)[f.proto]) <=> IsListedWhole(f) \/ IsCutForm(f)
<1> DEFINE src == Reserved[f.proto].src
           dst == Reserved[f.proto].dst
<1>1. src \in Seq(Word) /\ dst \in Seq(Word)
  BY DatapathAssumption
<1>2. AllowedPorts(Reserved)[f.proto] = [src |-> Allowed(src), dst |-> Allowed(dst)]
  BY DEF AllowedPorts
<1>3. /\ IsListedWhole(f) <=> f.src \in Whole(src) \/ f.dst \in Whole(dst)
      /\ IsCutForm(f) <=> f.src \in CutForms(src) \/ f.dst \in CutForms(dst)
  BY DEF IsListedWhole, IsCutForm
<1> HIDE DEF src, dst
<1>4. /\ Allowed(src) = Whole(src) \union CutForms(src)
      /\ Allowed(dst) = Whole(dst) \union CutForms(dst)
  BY <1>1, ListRead
<1> QED
  BY <1>2, <1>3, <1>4 DEF IsReserved

(* What network split has for a host it believes asleep may wake it.       *)
LEMMA NoOrdinaryRouted ==
  \A split \in BOOLEAN, saving \in BOOLEAN :
    /\ Routed[split][saving] \subseteq Kind
    /\ split => "ordinary" \notin Routed[split][saving]
<1> DEFINE allowed == AllowedPorts(Reserved)
<1>1. ASSUME NEW f \in Frames, Route(f, allowed, TRUE, FALSE) \in {"host", "both"}
      PROVE  FrameKind(f, TRUE) = "waking"
  <2> HIDE DEF allowed
  <2>1. CASE f.proto \in {"multicast", "echo", "arp_request", "echo_reply", "arp_reply"}
    BY <1>1, <2>1 DEF Route
  <2>2. CASE f.proto \in {"tcp", "udp"}
    <3>1. IsReserved(f, allowed[f.proto]) => IsListed(f) \/ IsCutForm(f)
      BY <2>2, ReservedMeansListed DEF allowed, IsListed, IsListedWhole, Whole
    <3> QED
      BY <1>1, <2>2, <3>1, RouterAssumption
         DEF Route, FrameKind, IperfBridge, PortBridge, RemoteBridge, Bridges, OfDefault
  <2>3. CASE f.proto = "other"
    BY <1>1, <2>3, RouterAssumption DEF Route, FrameKind, Bridges, OfDefault
  <2>4. f.proto \in {"multicast", "tcp", "udp", "echo", "echo_reply",
                     "arp_request", "arp_reply", "other"}
    BY KnownFrame
  <2> QED
    BY <2>1, <2>2, <2>3, <2>4
<1>2. \A f \in Frames : /\ FrameKind(f, FALSE) \in {"waking", "passing"}
                        /\ FrameKind(f, TRUE) \in {"waking", "ordinary"}
  BY DEF FrameKind
<1>3. ASSUME NEW split \in BOOLEAN, NEW saving \in BOOLEAN
      PROVE  Routed[split][saving] = {FrameKind(f, saving) : f \in ToHost(split, saving)}
  BY DEF Routed
<1>4. \A f \in ToHost(TRUE, TRUE) : FrameKind(f, TRUE) = "waking"
  BY <1>1 DEF ToHost
<1>5. \A split \in BOOLEAN, saving \in BOOLEAN : ToHost(split, saving) \subseteq Frames
  BY DEF ToHost
<1>6. ASSUME NEW split \in BOOLEAN, NEW saving \in BOOLEAN, NEW kind \in Routed[split][saving]
      PROVE  kind \in Kind /\ (split => kind # "ordinary")
  <2>1. PICK f \in ToHost(split, saving) : kind = FrameKind(f, saving)
    BY <1>3, <1>6
  <2>2. f \in Frames
    BY <1>5, <2>1
  <2> QED
    BY <1>2, <1>4, <2>1, <2>2 DEF Kind
<1> QED
  BY <1>6

(* What the configuration lists and is not cut goes to the host.           *)
LEMMA ListedIsRouted ==
  \A saving \in BOOLEAN : \A f \in Astray[saving] : ~IsListedWhole(f)
<1> SUFFICES ASSUME NEW saving \in BOOLEAN, NEW f \in Astray[saving], IsListedWhole(f)
             PROVE  FALSE
  OBVIOUS
<1>1. f \in Frames /\ Route(f, AllowedPorts(Reserved), saving, FALSE) # "host"
  BY DEF Astray
<1>2. f.proto \in {"tcp", "udp"}
  BY DEF IsListedWhole
<1>3. IsReserved(f, AllowedPorts(Reserved)[f.proto])
  BY <1>1, <1>2, ReservedMeansListed
<1> QED
  BY <1>1, <1>2, <1>3 DEF Route

-----------------------------------------------------------------------------
(* The types are kept.                                                     *)

(* The options, and how often what is counted may happen.                  *)
LEMMA Limits == Builds \subseteq Build /\ MaxHost \in Nat /\ MaxSend \in Nat
  BY DatapathAssumption

(* The slave's static variables.                                           *)
SlaveStatics ==
  [enable: BOOLEAN, power_save_on: BOOLEAN, wakeup_sem: 0 .. 1,
   datapath: BOOLEAN, handle: BOOLEAN, state: State,
   host_reset_sem: 0 .. 1, pm_lock: {"none", "held", "released"}]

(* What is written of them keeps their types.                              *)
LEMMA StaticsKept ==
  ASSUME NEW s \in SlaveStatics
  PROVE  /\ [s EXCEPT !.state = "active", !.datapath = TRUE, !.host_reset_sem = 1] \in SlaveStatics
         /\ [s EXCEPT !.state = "active", !.handle = TRUE] \in SlaveStatics
         /\ [s EXCEPT !.handle = FALSE] \in SlaveStatics
<1>1. [s EXCEPT !.state = "active", !.datapath = TRUE, !.host_reset_sem = 1] \in SlaveStatics
  <2>1. [s EXCEPT !.state = "active", !.datapath = TRUE] \in SlaveStatics
    BY DEF SlaveStatics, State
  <2>2. \A r \in SlaveStatics : [r EXCEPT !.host_reset_sem = 1] \in SlaveStatics
    BY DEF SlaveStatics, State
  <2> QED
    BY <2>1, <2>2
<1>2. [s EXCEPT !.state = "active", !.handle = TRUE] \in SlaveStatics
  BY DEF SlaveStatics, State
<1>3. [s EXCEPT !.handle = FALSE] \in SlaveStatics
  BY DEF SlaveStatics, State
<1> QED
  BY <1>1, <1>2, <1>3

(* The power save's initialisation keeps them.                             *)
LEMMA PowerSaveInitKept ==
  ASSUME NEW s \in SlaveStatics, NEW lock \in {"none", "held"}
  PROVE  [s EXCEPT !.enable = TRUE, !.wakeup_sem = 1, !.pm_lock = lock] \in SlaveStatics
<1>1. [s EXCEPT !.enable = TRUE] \in SlaveStatics
  BY DEF SlaveStatics, State
<1>2. \A r \in SlaveStatics : [r EXCEPT !.wakeup_sem = 1] \in SlaveStatics
  BY DEF SlaveStatics, State
<1>3. \A r \in SlaveStatics : [r EXCEPT !.pm_lock = lock] \in SlaveStatics
  BY DEF SlaveStatics, State
<1> QED
  BY <1>1, <1>2, <1>3

(* By what the host does and by host_reset_task.                           *)
LEMMA HostTypes ==
  ASSUME TypeOK,
         \/ HostOpens \/ HostSleeps \/ HostAborts \/ HostWakes \/ HostSaysAwake
         \/ HostReboots \/ PowerSaveInit \/ HostReset \/ Startup
  PROVE  TypeOK'
<1> USE DEF TypeOK, State
<1>1. CASE HostOpens
  <2>1. sl' \in SlaveStatics
    BY <1>1, StaticsKept DEF HostOpens, Opened, SlaveStatics
  <2> QED
    BY <1>1, <2>1, Limits DEF HostOpens, HostMay, SlaveStatics
<1>2. CASE HostSleeps
  BY <1>2, Limits DEF HostSleeps, HostMay, CreatesAlert, Harm, PsPc
<1>3. CASE HostAborts
  BY <1>3, Limits DEF HostAborts, HostMay, Harm
<1>4. CASE HostWakes
  BY <1>4 DEF HostWakes
<1>5. CASE HostSaysAwake
  BY <1>5 DEF HostSaysAwake, AwakeAgain, CreatesAlert, Harm, PsPc
<1>6. CASE HostReboots
  BY <1>6, Limits DEF HostReboots, HostMay, Harm
<1>7. CASE PowerSaveInit
  <2>1. PICK lock \in {"none", "held"} :
          sl' = [sl EXCEPT !.enable = TRUE, !.wakeup_sem = 1, !.pm_lock = lock]
    BY <1>7 DEF PowerSaveInit
  <2>2. sl \in SlaveStatics
    BY DEF SlaveStatics
  <2>3. sl' \in SlaveStatics
    BY <2>1, <2>2, PowerSaveInitKept, Zenon
  <2> QED
    BY <1>7, <2>3 DEF PowerSaveInit, SlaveStatics
<1>8. CASE HostReset
  BY <1>8 DEF HostReset
<1>9. CASE Startup
  <2>1. \E knows \in BOOLEAN : host' = [host EXCEPT !.knows = knows]
    BY <1>9 DEF Startup
  <2> QED
    BY <1>9, <2>1 DEF Startup
<1> QED
  BY <1>1, <1>2, <1>3, <1>4, <1>5, <1>6, <1>7, <1>8, <1>9

(* By the tasks that carry the host's sleep.                               *)
LEMMA AlertTypes ==
  ASSUME TypeOK, NEW i \in PsTasks,
         \/ PsOnTake(i) \/ PsOnSet(i) \/ PsOnDeinit(i) \/ PsOnDown(i) \/ PsOnReady(i)
         \/ PsOffPrepare(i) \/ PsOffClear(i) \/ PsOffGive(i) \/ PsOffReset(i)
  PROVE  TypeOK'
<1> USE DEF TypeOK, To
<1>1. CASE PsOnTake(i)
  BY <1>1 DEF PsOnTake, Harm, PsPc
<1>2. CASE PsOnSet(i)
  BY <1>2 DEF PsOnSet, PsPc
<1>3. CASE PsOnDeinit(i)
  BY <1>3 DEF PsOnDeinit, PsPc
<1>4. CASE PsOnDown(i)
  BY <1>4 DEF PsOnDown, PsPc, State
<1>5. CASE PsOnReady(i)
  BY <1>5 DEF PsOnReady, PsPc
<1>6. CASE PsOffPrepare(i)
  BY <1>6 DEF PsOffPrepare, LightSleepStopped, PsPc
<1>7. CASE PsOffClear(i)
  BY <1>7 DEF PsOffClear, Cleared, PsPc
<1>8. CASE PsOffGive(i)
  BY <1>8 DEF PsOffGive, Gave, PsPc
<1>9. CASE PsOffReset(i)
  BY <1>9 DEF PsOffReset, PsPc
<1> QED
  BY <1>1, <1>2, <1>3, <1>4, <1>5, <1>6, <1>7, <1>8, <1>9

(* By the tasks that send.                                                 *)
LEMMA SenderTypes ==
  ASSUME TypeOK, NEW t \in Senders,
         \/ SendSerial(t) \/ SendFrame(t) \/ SendApFrame(t)
         \/ Check(t) \/ Wake(t) \/ Init_(t) \/ InitDone(t)
         \/ Trigger(t) \/ TriggerTake(t) \/ TriggerGive(t) \/ TriggerFails(t) \/ Write(t)
  PROVE  TypeOK'
<1> USE DEF TypeOK
<1>1. CASE SendSerial(t) \/ SendFrame(t) \/ SendApFrame(t)
  <2>1. build.split \in BOOLEAN /\ sl.power_save_on \in BOOLEAN
    BY Limits DEF Build
  <2>2. \E kind \in Kind : Carries(t, kind)
    BY <1>1, <2>1, NoOrdinaryRouted DEF SendSerial, SendFrame, SendApFrame, Kind
  <2> QED
    BY <1>1, <2>2, Limits DEF SendSerial, SendFrame, SendApFrame, Carries, SndPc
<1> DEFINE Moves == \/ \E pc \in SndPc : snd' = [snd EXCEPT ![t].pc = pc]
                    \/ snd' = [snd EXCEPT ![t] = [pc |-> "idle", kind |-> "waking"]]
<1>m. Moves => snd' \in [Senders -> [pc: SndPc, kind: Kind]]
  BY DEF SndPc, Kind
<1>2. CASE Check(t)
  <2>1. Moves
    BY <1>2 DEF Check, Drops, SndPc
  <2>2. lost' \in BOOLEAN
    BY <1>2 DEF Check, Drops
  <2> QED
    BY <1>2, <1>m, <2>1, <2>2 DEF Check
<1>3. CASE Wake(t)
  <2>1. Moves
    BY <1>3 DEF Wake, Drops, SndPc
  <2>2. lost' \in BOOLEAN
    BY <1>3 DEF Wake, Drops
  <2> QED
    BY <1>3, <1>m, <2>1, <2>2 DEF Wake
<1>4. CASE Init_(t)
  BY <1>4 DEF Init_, Harm, SndPc
<1>5. CASE InitDone(t)
  <2>1. Moves
    BY <1>5 DEF InitDone, SndPc
  <2>2. \/ sl' = [sl EXCEPT !.handle = FALSE]
        \/ sl' = [sl EXCEPT !.state = "active", !.handle = TRUE]
    BY <1>5, Zenon DEF InitDone
  <2>3. sl \in SlaveStatics
    BY DEF SlaveStatics
  <2>4. sl' \in SlaveStatics
    BY <2>2, <2>3, StaticsKept, Zenon
  <2> QED
    BY <1>5, <1>m, <2>1, <2>4 DEF InitDone, SlaveStatics
<1>6. CASE Trigger(t) \/ TriggerFails(t)
  <2>1. Moves
    BY <1>6 DEF Trigger, TriggerFails, Drops, SndPc
  <2>2. lost' \in BOOLEAN
    BY <1>6 DEF Trigger, TriggerFails, Drops
  <2> QED
    BY <1>6, <1>m, <2>1, <2>2 DEF Trigger, TriggerFails, Harm
<1>7. CASE TriggerTake(t) \/ TriggerGive(t)
  BY <1>7 DEF TriggerTake, TriggerGive, GivesBack, SndPc
<1>8. CASE Write(t)
  <2>1. Moves
    BY <1>8 DEF Write, Drops, SndPc
  <2>2. lost' \in BOOLEAN
    BY <1>8 DEF Write, Drops
  <2> QED
    BY <1>8, <1>m, <2>1, <2>2 DEF Write
<1> QED
  BY <1>1, <1>2, <1>3, <1>4, <1>5, <1>6, <1>7, <1>8

-----------------------------------------------------------------------------
(* The invariant is kept.                                                  *)

(* What the host does, and the start of the slave's power save.            *)
LEMMA HostKeeps ==
  ASSUME DatapathInv, TypeOK',
         HostOpens \/ HostSleeps \/ HostAborts \/ HostWakes \/ HostSaysAwake \/ HostReboots \/
         PowerSaveInit
  PROVE  DatapathInv'
<1> USE DEF DatapathInv, PsTasks
<1>1. CASE HostOpens
  <2>1. OneAlert' /\ Signalled' /\ NoneOrdinary' /\ LossHasRace'
    BY <1>1 DEF HostOpens, HostMay, BusUp, Opened, TypeOK, OneAlert, Signalled, NoneOrdinary,
         LossHasRace, Available, Told, Orderly, Coming
  <2>2. Ready'
    BY <1>1 DEF HostOpens, HostMay, BusUp, Opened, TypeOK, Ready
  <2>3. BusKept'
    BY <1>1 DEF HostOpens, HostMay, BusUp, Opened, TypeOK, BusKept
  <2>4. Followed'
    BY <1>1 DEF HostOpens, HostMay, BusUp, Opened, TypeOK, Followed, OneAlert, Ready, Told,
         Orderly, Going, Coming
  <2>5. AnnouncementOwed'
    BY <1>1 DEF HostOpens, HostMay, BusUp, Opened, TypeOK, AnnouncementOwed, OneAlert,
         BusKept, Followed, Orderly, Coming, Told, Going
  <2> QED
    BY <2>1, <2>2, <2>3, <2>4, <2>5
<1>2. CASE HostSleeps
  <2>1. BusKept' /\ NoneOrdinary' /\ LossHasRace'
    BY <1>2 DEF HostSleeps, HostMay, CreatesAlert, Harm, PsQuiet, TypeOK, BusKept,
         NoneOrdinary, LossHasRace, Told, Orderly, Coming
  <2>2. OneAlert'
    BY <1>2 DEF HostSleeps, HostMay, CreatesAlert, Harm, PsQuiet, TypeOK, OneAlert
  <2>3. Ready'
    BY <1>2 DEF HostSleeps, HostMay, CreatesAlert, Harm, PsQuiet, TypeOK, Ready
  <2>4. Followed'
    BY <1>2 DEF HostSleeps, HostMay, CreatesAlert, Harm, PsQuiet, TypeOK, Followed, OneAlert,
         Ready, Told, Orderly, Going, Coming
  <2>5. Signalled'
    BY <1>2 DEF HostSleeps, HostMay, CreatesAlert, Harm, PsQuiet, TypeOK, Signalled, OneAlert,
         Ready, Available
  <2>6. AnnouncementOwed'
    BY <1>2 DEF HostSleeps, HostMay, CreatesAlert, Harm, PsQuiet, TypeOK, AnnouncementOwed,
         OneAlert, BusKept, Followed, Orderly, Coming, Told, Going
  <2> QED
    BY <2>1, <2>2, <2>3, <2>4, <2>5, <2>6
<1>3. CASE HostAborts
  <2>1. OneAlert' /\ BusKept' /\ Signalled' /\ NoneOrdinary' /\ LossHasRace'
    BY <1>3 DEF HostAborts, HostMay, Harm, TypeOK, OneAlert, BusKept, Signalled, NoneOrdinary,
         LossHasRace, Available, Told, Orderly, Coming
  <2>2. Ready'
    BY <1>3 DEF HostAborts, HostMay, Harm, TypeOK, Ready
  <2>3. Followed'
    BY <1>3 DEF HostAborts, HostMay, Harm, TypeOK, Followed, OneAlert, Ready, Told, Orderly,
         Going, Coming
  <2>4. AnnouncementOwed'
    BY <1>3 DEF HostAborts, HostMay, Harm, TypeOK, AnnouncementOwed, OneAlert, BusKept,
         Followed, Orderly, Coming, Told, Going
  <2> QED
    BY <2>1, <2>2, <2>3, <2>4
<1>4. CASE HostWakes
  <2>1. OneAlert' /\ BusKept' /\ Signalled' /\ NoneOrdinary' /\ LossHasRace'
    BY <1>4 DEF HostWakes, TypeOK, OneAlert, BusKept, Signalled, NoneOrdinary, LossHasRace,
         Available, Told, Orderly, Coming
  <2>2. Ready'
    BY <1>4 DEF HostWakes, TypeOK, Ready
  <2>3. Followed'
    BY <1>4 DEF HostWakes, TypeOK, Followed, OneAlert, Ready, Told, Orderly, Going, Coming
  <2>4. AnnouncementOwed'
    BY <1>4 DEF HostWakes, TypeOK, AnnouncementOwed, OneAlert, BusKept, Followed, Orderly,
         Coming, Told, Going
  <2> QED
    BY <2>1, <2>2, <2>3, <2>4
<1>5. CASE HostSaysAwake
  <2>1. NoneOrdinary' /\ LossHasRace'
    BY <1>5 DEF HostSaysAwake, BusUp, AwakeAgain, CreatesAlert, Harm, PsQuiet, TypeOK,
         NoneOrdinary, LossHasRace, Told, Orderly, Coming
  <2>2. OneAlert'
    BY <1>5 DEF HostSaysAwake, BusUp, AwakeAgain, CreatesAlert, Harm, PsQuiet, TypeOK,
         OneAlert
  <2>3. Ready'
    BY <1>5 DEF HostSaysAwake, BusUp, AwakeAgain, CreatesAlert, Harm, PsQuiet, TypeOK, Ready
  <2>4. BusKept'
    BY <1>5 DEF HostSaysAwake, BusUp, AwakeAgain, CreatesAlert, Harm, PsQuiet, TypeOK, BusKept
  <2>5. Followed'
    BY <1>5 DEF HostSaysAwake, BusUp, AwakeAgain, CreatesAlert, Harm, PsQuiet, TypeOK,
         Followed, OneAlert, Ready, Told, Orderly, Going, Coming
  <2>6. Signalled'
    BY <1>5 DEF HostSaysAwake, BusUp, AwakeAgain, CreatesAlert, Harm, PsQuiet, TypeOK,
         Signalled, OneAlert, Ready, Available
  <2>7. AnnouncementOwed'
    BY <1>5 DEF HostSaysAwake, BusUp, AwakeAgain, CreatesAlert, Harm, PsQuiet, TypeOK,
         AnnouncementOwed, OneAlert, BusKept, Followed, Orderly, Coming, Told, Going
  <2> QED
    BY <2>1, <2>2, <2>3, <2>4, <2>5, <2>6, <2>7
<1>6. CASE HostReboots
  <2>1. OneAlert' /\ BusKept' /\ Signalled' /\ NoneOrdinary' /\ LossHasRace'
    BY <1>6 DEF HostReboots, HostMay, Harm, PsQuiet, TypeOK, OneAlert, BusKept, Signalled,
         NoneOrdinary, LossHasRace, Available, Told, Orderly, Coming
  <2>2. Ready'
    BY <1>6 DEF HostReboots, HostMay, Harm, PsQuiet, TypeOK, Ready
  <2>3. Followed'
    BY <1>6 DEF HostReboots, HostMay, Harm, PsQuiet, TypeOK, Followed, OneAlert, Ready, Told,
         Orderly, Going, Coming
  <2>4. AnnouncementOwed'
    BY <1>6 DEF HostReboots, HostMay, Harm, PsQuiet, TypeOK, AnnouncementOwed, OneAlert,
         BusKept, Followed, Orderly, Coming, Told, Going
  <2> QED
    BY <2>1, <2>2, <2>3, <2>4
<1>7. CASE PowerSaveInit
  <2>1. OneAlert' /\ BusKept' /\ AnnouncementOwed' /\ NoneOrdinary' /\ LossHasRace'
    BY <1>7 DEF PowerSaveInit, TypeOK, OneAlert, BusKept, AnnouncementOwed, NoneOrdinary,
         LossHasRace, Orderly, Coming, Told
  <2>2. Ready'
    BY <1>7 DEF PowerSaveInit, TypeOK, Ready
  <2>3. Followed'
    BY <1>7 DEF PowerSaveInit, TypeOK, Followed, OneAlert, Ready, Told, Orderly, Going, Coming
  <2>4. Signalled'
    BY <1>7 DEF PowerSaveInit, TypeOK, Signalled, OneAlert, Ready, Available
  <2> QED
    BY <2>1, <2>2, <2>3, <2>4
<1> QED
  BY <1>1, <1>2, <1>3, <1>4, <1>5, <1>6, <1>7

(* A step of a task that carries the host's sleep or its wake-up.          *)
LEMMA AlertKeeps ==
  ASSUME DatapathInv, TypeOK', NEW i \in PsTasks,
         PsOnTake(i) \/ PsOnSet(i) \/ PsOnDeinit(i) \/ PsOnDown(i) \/ PsOnReady(i) \/
         PsOffPrepare(i) \/ PsOffClear(i) \/ PsOffGive(i) \/ PsOffReset(i)
  PROVE  DatapathInv'
<1> USE DEF DatapathInv, PsTasks
<1>1. CASE PsOnTake(i)
  <2>1. BusKept' /\ NoneOrdinary' /\ LossHasRace'
    BY <1>1 DEF PsOnTake, To, Harm, TypeOK, BusKept, NoneOrdinary, LossHasRace, Told, Orderly,
         Coming
  <2>2. OneAlert'
    BY <1>1 DEF PsOnTake, To, Harm, TypeOK, OneAlert
  <2>3. Ready'
    BY <1>1 DEF PsOnTake, To, Harm, TypeOK, Ready
  <2>4. Followed'
    BY <1>1 DEF PsOnTake, To, Harm, TypeOK, Followed, OneAlert, Ready, Told, Orderly, Going,
         Coming
  <2>5. Signalled'
    BY <1>1 DEF PsOnTake, To, Harm, TypeOK, Signalled, OneAlert, Ready, Available
  <2>6. AnnouncementOwed'
    BY <1>1 DEF PsOnTake, To, Harm, TypeOK, AnnouncementOwed, OneAlert, BusKept, Followed,
         Orderly, Coming, Told, Going
  <2> QED
    BY <2>1, <2>2, <2>3, <2>4, <2>5, <2>6
<1>2. CASE PsOnSet(i)
  <2>1. BusKept' /\ NoneOrdinary' /\ LossHasRace'
    BY <1>2 DEF PsOnSet, To, TypeOK, BusKept, NoneOrdinary, LossHasRace, Told, Orderly, Coming
  <2>2. OneAlert'
    BY <1>2 DEF PsOnSet, To, TypeOK, OneAlert
  <2>3. Ready'
    BY <1>2 DEF PsOnSet, To, TypeOK, Ready
  <2>4. Followed'
    BY <1>2 DEF PsOnSet, To, TypeOK, Followed, OneAlert, Ready, Told, Orderly, Going, Coming
  <2>5. Signalled'
    BY <1>2 DEF PsOnSet, To, TypeOK, Signalled, OneAlert, Ready, Available
  <2>6. AnnouncementOwed'
    BY <1>2 DEF PsOnSet, To, TypeOK, AnnouncementOwed, OneAlert, BusKept, Followed, Orderly,
         Coming, Told, Going
  <2> QED
    BY <2>1, <2>2, <2>3, <2>4, <2>5, <2>6
<1>3. CASE PsOnDeinit(i)
  <2>1. BusKept' /\ NoneOrdinary' /\ LossHasRace'
    BY <1>3 DEF PsOnDeinit, To, TypeOK, BusKept, NoneOrdinary, LossHasRace, Told, Orderly,
         Coming
  <2>2. OneAlert'
    BY <1>3 DEF PsOnDeinit, To, TypeOK, OneAlert
  <2>3. Ready'
    BY <1>3 DEF PsOnDeinit, To, TypeOK, Ready
  <2>4. Followed'
    BY <1>3 DEF PsOnDeinit, To, TypeOK, Followed, OneAlert, Ready, Told, Orderly, Going,
         Coming
  <2>5. Signalled'
    BY <1>3 DEF PsOnDeinit, To, TypeOK, Signalled, OneAlert, Ready, Available
  <2>6. AnnouncementOwed'
    BY <1>3 DEF PsOnDeinit, To, TypeOK, AnnouncementOwed, OneAlert, BusKept, Followed,
         Orderly, Coming, Told, Going
  <2> QED
    BY <2>1, <2>2, <2>3, <2>4, <2>5, <2>6
<1>4. CASE PsOnDown(i)
  <2>1. NoneOrdinary' /\ LossHasRace'
    BY <1>4 DEF PsOnDown, To, TypeOK, NoneOrdinary, LossHasRace, Told, Orderly, Coming
  <2>2. OneAlert'
    BY <1>4 DEF PsOnDown, To, TypeOK, OneAlert
  <2>3. Ready'
    BY <1>4 DEF PsOnDown, To, TypeOK, Ready
  <2>4. BusKept'
    BY <1>4 DEF PsOnDown, To, TypeOK, BusKept
  <2>5. Followed'
    BY <1>4 DEF PsOnDown, To, TypeOK, Followed, OneAlert, Ready, Told, Orderly, Going, Coming
  <2>6. Signalled'
    BY <1>4 DEF PsOnDown, To, TypeOK, Signalled, OneAlert, Ready, Available
  <2>7. AnnouncementOwed'
    BY <1>4 DEF PsOnDown, To, TypeOK, AnnouncementOwed, OneAlert, BusKept, Followed, Orderly,
         Coming, Told, Going
  <2> QED
    BY <2>1, <2>2, <2>3, <2>4, <2>5, <2>6, <2>7
<1>5. CASE PsOnReady(i)
  <2>1. BusKept' /\ NoneOrdinary' /\ LossHasRace'
    BY <1>5 DEF PsOnReady, To, TypeOK, BusKept, NoneOrdinary, LossHasRace, Told, Orderly,
         Coming
  <2>2. OneAlert'
    BY <1>5 DEF PsOnReady, To, TypeOK, OneAlert
  <2>3. Ready'
    BY <1>5 DEF PsOnReady, To, TypeOK, Ready
  <2>4. Followed'
    BY <1>5 DEF PsOnReady, To, TypeOK, Followed, OneAlert, Ready, Told, Orderly, Going, Coming
  <2>5. Signalled'
    BY <1>5 DEF PsOnReady, To, TypeOK, Signalled, OneAlert, Ready, Available
  <2>6. AnnouncementOwed'
    BY <1>5 DEF PsOnReady, To, TypeOK, AnnouncementOwed, OneAlert, BusKept, Followed, Orderly,
         Coming, Told, Going
  <2> QED
    BY <2>1, <2>2, <2>3, <2>4, <2>5, <2>6
<1>6. CASE PsOffPrepare(i)
  <2>1. BusKept' /\ NoneOrdinary' /\ LossHasRace'
    BY <1>6 DEF PsOffPrepare, To, LightSleepStopped, TypeOK, BusKept, NoneOrdinary,
         LossHasRace, Told, Orderly, Coming
  <2>2. OneAlert'
    BY <1>6 DEF PsOffPrepare, To, LightSleepStopped, TypeOK, OneAlert
  <2>3. Ready'
    BY <1>6 DEF PsOffPrepare, To, LightSleepStopped, TypeOK, Ready
  <2>4. Followed'
    BY <1>6 DEF PsOffPrepare, To, LightSleepStopped, TypeOK, Followed, OneAlert, Ready, Told,
         Orderly, Going, Coming
  <2>5. Signalled'
    BY <1>6 DEF PsOffPrepare, To, LightSleepStopped, TypeOK, Signalled, OneAlert, Ready,
         Available
  <2>6. AnnouncementOwed'
    BY <1>6 DEF PsOffPrepare, To, LightSleepStopped, TypeOK, AnnouncementOwed, OneAlert,
         BusKept, Followed, Orderly, Coming, Told, Going
  <2> QED
    BY <2>1, <2>2, <2>3, <2>4, <2>5, <2>6
<1>7. CASE PsOffClear(i)
  <2>1. BusKept' /\ NoneOrdinary' /\ LossHasRace'
    BY <1>7 DEF PsOffClear, To, Cleared, TypeOK, BusKept, NoneOrdinary, LossHasRace, Told,
         Orderly, Coming
  <2>2. OneAlert'
    BY <1>7 DEF PsOffClear, To, Cleared, TypeOK, OneAlert
  <2>3. Ready'
    BY <1>7 DEF PsOffClear, To, Cleared, TypeOK, Ready
  <2>4. Followed'
    BY <1>7 DEF PsOffClear, To, Cleared, TypeOK, Followed, OneAlert, Ready, Told, Orderly,
         Going, Coming
  <2>5. Signalled'
    BY <1>7 DEF PsOffClear, To, Cleared, TypeOK, Signalled, OneAlert, Ready, Available
  <2>6. AnnouncementOwed'
    BY <1>7 DEF PsOffClear, To, Cleared, TypeOK, AnnouncementOwed, OneAlert, BusKept,
         Followed, Orderly, Coming, Told, Going
  <2> QED
    BY <2>1, <2>2, <2>3, <2>4, <2>5, <2>6
<1>8. CASE PsOffGive(i)
  <2>1. BusKept' /\ NoneOrdinary' /\ LossHasRace'
    BY <1>8 DEF PsOffGive, To, Gave, TypeOK, BusKept, NoneOrdinary, LossHasRace, Told,
         Orderly, Coming
  <2>2. OneAlert'
    BY <1>8 DEF PsOffGive, To, Gave, TypeOK, OneAlert
  <2>3. Ready'
    BY <1>8 DEF PsOffGive, To, Gave, TypeOK, Ready
  <2>4. Followed'
    BY <1>8 DEF PsOffGive, To, Gave, TypeOK, Followed, OneAlert, Ready, Told, Orderly, Going,
         Coming
  <2>5. Signalled'
    BY <1>8 DEF PsOffGive, To, Gave, TypeOK, Signalled, OneAlert, Ready, Available
  <2>6. AnnouncementOwed'
    BY <1>8 DEF PsOffGive, To, Gave, TypeOK, AnnouncementOwed, OneAlert, BusKept, Followed,
         Orderly, Coming, Told, Going
  <2> QED
    BY <2>1, <2>2, <2>3, <2>4, <2>5, <2>6
<1>9. CASE PsOffReset(i)
  <2>1. BusKept' /\ NoneOrdinary' /\ LossHasRace'
    BY <1>9 DEF PsOffReset, To, TypeOK, BusKept, NoneOrdinary, LossHasRace, Told, Orderly,
         Coming
  <2>2. OneAlert'
    BY <1>9 DEF PsOffReset, To, TypeOK, OneAlert
  <2>3. Ready'
    BY <1>9 DEF PsOffReset, To, TypeOK, Ready
  <2>4. Followed'
    BY <1>9 DEF PsOffReset, To, TypeOK, Followed, OneAlert, Ready, Told, Orderly, Going,
         Coming
  <2>5. Signalled'
    BY <1>9 DEF PsOffReset, To, TypeOK, Signalled, OneAlert, Ready, Available
  <2>6. AnnouncementOwed'
    BY <1>9 DEF PsOffReset, To, TypeOK, AnnouncementOwed, OneAlert, BusKept, Followed,
         Orderly, Coming, Told, Going
  <2> QED
    BY <2>1, <2>2, <2>3, <2>4, <2>5, <2>6
<1> QED
  BY <1>1, <1>2, <1>3, <1>4, <1>5, <1>6, <1>7, <1>8, <1>9

(* A step of a sender that does not bring the driver up leaves it as it is. *)
LEMMA BusStays ==
  ASSUME BusKept, sl' = sl, harm \subseteq harm',
         \A u \in Senders : snd'[u].pc = "initing" => snd[u].pc = "initing"
  PROVE  BusKept'
BY DEF BusKept

(* A step of a task that sends.                                            *)
LEMMA SenderKeeps ==
  ASSUME DatapathInv, TypeOK', NEW t \in Senders,
         SendSerial(t) \/ SendFrame(t) \/ SendApFrame(t) \/
         Check(t) \/ Wake(t) \/ Init_(t) \/ InitDone(t) \/
         Trigger(t) \/ TriggerTake(t) \/ TriggerGive(t) \/ TriggerFails(t) \/ Write(t)
  PROVE  DatapathInv'
<1> USE DEF DatapathInv, PsTasks
<1>1. CASE SendSerial(t) \/ SendApFrame(t)
  <2>1. OneAlert' /\ Ready' /\ Followed' /\ AnnouncementOwed' /\ LossHasRace'
    BY <1>1 DEF SendSerial, SendApFrame, Carries, TypeOK, OneAlert, Ready, Followed,
         AnnouncementOwed, LossHasRace, Told, Orderly, Going, Coming
  <2>2. BusKept'
    <3>1. sl' = sl /\ harm \subseteq harm'
      BY <1>1 DEF SendSerial, SendApFrame
    <3>2. \A u \in Senders : snd'[u].pc = "initing" => snd[u].pc = "initing"
      BY <1>1 DEF SendSerial, SendApFrame, Carries, TypeOK
    <3> QED
      BY <3>1, <3>2, BusStays
  <2>3. Signalled'
    BY <1>1 DEF SendSerial, SendApFrame, Carries, TypeOK, Signalled, OneAlert, Ready, Available
  <2>4. NoneOrdinary'
    BY <1>1 DEF SendSerial, SendApFrame, Carries, TypeOK, NoneOrdinary
  <2> QED
    BY <2>1, <2>2, <2>3, <2>4
<1>2. CASE SendFrame(t)
  <2>1. OneAlert' /\ Ready' /\ Followed' /\ AnnouncementOwed' /\ LossHasRace'
    BY <1>2 DEF SendFrame, Carries, TypeOK, OneAlert, Ready, Followed, AnnouncementOwed,
         LossHasRace, Told, Orderly, Going, Coming
  <2>2. BusKept'
    <3>1. sl' = sl /\ harm \subseteq harm'
      BY <1>2 DEF SendFrame
    <3>2. \A u \in Senders : snd'[u].pc = "initing" => snd[u].pc = "initing"
      BY <1>2 DEF SendFrame, Carries, TypeOK
    <3> QED
      BY <3>1, <3>2, BusStays
  <2>3. Signalled'
    BY <1>2 DEF SendFrame, Carries, TypeOK, Signalled, OneAlert, Ready, Available
  <2>4. NoneOrdinary'
    <3>1. build.split \in BOOLEAN /\ sl.power_save_on \in BOOLEAN
      BY Limits DEF TypeOK, Build
    <3>2. PICK kind \in Routed[build.split][sl.power_save_on] : Carries(t, kind)
      BY <1>2 DEF SendFrame
    <3>3. build.split => kind # "ordinary"
      BY <3>1, <3>2, NoOrdinaryRouted
    <3> HIDE DEF Routed
    <3> QED
      BY <1>2, <3>2, <3>3 DEF SendFrame, Carries, TypeOK, NoneOrdinary
  <2> QED
    BY <2>1, <2>2, <2>3, <2>4
<1>3. CASE Check(t)
  <2>1. OneAlert' /\ Ready' /\ Followed' /\ AnnouncementOwed' /\ NoneOrdinary'
    BY <1>3 DEF Check, Drops, PsQuiet, TypeOK, OneAlert, Ready, Followed, AnnouncementOwed,
         NoneOrdinary, Told, Orderly, Going, Coming
  <2>2. BusKept'
    <3>1. sl' = sl /\ harm \subseteq harm'
      BY <1>3 DEF Check
    <3>2. \A u \in Senders : snd'[u].pc = "initing" => snd[u].pc = "initing"
      BY <1>3 DEF Check, Drops, Unladen, TypeOK
    <3> QED
      BY <3>1, <3>2, BusStays
  <2>3. Signalled'
    BY <1>3 DEF Check, Drops, PsQuiet, TypeOK, Signalled, OneAlert, Ready, Available
  <2>4. LossHasRace'
    BY <1>3, ZenonT(60) DEF Check, Drops, PsQuiet, TypeOK, LossHasRace, Ready, BusKept, Followed,
         Told, Orderly, Coming, Going
  <2> QED
    BY <2>1, <2>2, <2>3, <2>4
<1>4. CASE Wake(t)
  <2>1. OneAlert' /\ Ready' /\ Followed' /\ AnnouncementOwed' /\ NoneOrdinary'
    BY <1>4 DEF Wake, Drops, PsQuiet, TypeOK, OneAlert, Ready, Followed, AnnouncementOwed,
         NoneOrdinary, Told, Orderly, Going, Coming
  <2>2. BusKept'
    <3>1. sl' = sl /\ harm \subseteq harm'
      BY <1>4 DEF Wake
    <3>2. \A u \in Senders : snd'[u].pc = "initing" => snd[u].pc = "initing"
      BY <1>4 DEF Wake, Drops, Unladen, TypeOK
    <3> QED
      BY <3>1, <3>2, BusStays
  <2>3. Signalled'
    BY <1>4, SMTT(60) DEF Wake, Drops, PsQuiet, TypeOK, Signalled, OneAlert, Ready, Available
  <2>4. LossHasRace'
    BY <1>4, ZenonT(60) DEF Wake, Drops, PsQuiet, TypeOK, LossHasRace, Ready, BusKept, Followed,
         Told, Orderly, Coming, Going
  <2> QED
    BY <2>1, <2>2, <2>3, <2>4
<1>5. CASE Init_(t)
  <2>1. OneAlert' /\ Ready' /\ Followed' /\ AnnouncementOwed' /\ NoneOrdinary' /\ LossHasRace'
    BY <1>5 DEF Init_, Harm, TypeOK, OneAlert, Ready, Followed, AnnouncementOwed,
         NoneOrdinary, LossHasRace, Told, Orderly, Going, Coming
  <2>2. BusKept'
    BY <1>5 DEF Init_, Harm, State, TypeOK, BusKept
  <2>3. Signalled'
    BY <1>5 DEF Init_, Harm, State, TypeOK, Signalled, OneAlert, Ready, Available
  <2> QED
    BY <2>1, <2>2, <2>3
<1>6. CASE InitDone(t)
  <2>1. /\ snd[t].pc = "initing" /\ \E pc \in SndPc \ {"give", "initing"} :
                                       snd' = [snd EXCEPT ![t].pc = pc]
        /\ UNCHANGED <<build, host, ps, rst, steps, lost, harm>>
    BY <1>6 DEF InitDone, SndPc
  <2>2. CASE sl.state = "active" /\ sl' = [sl EXCEPT !.handle = FALSE]
    <3>1. OneAlert' /\ Ready' /\ BusKept' /\ Followed'
      BY <2>1, <2>2 DEF TypeOK, OneAlert, Ready, BusKept, Followed, Told, Orderly, Going, Coming
    <3>2. Signalled'
      BY <2>1, <2>2 DEF TypeOK, Signalled, Available
    <3>3. AnnouncementOwed' /\ NoneOrdinary' /\ LossHasRace'
      BY <2>1, <2>2 DEF TypeOK, AnnouncementOwed, NoneOrdinary, LossHasRace, Orderly, Coming
    <3> QED
      BY <3>1, <3>2, <3>3
  <2>3. CASE sl.state = "deinit" /\ sl' = [sl EXCEPT !.state = "active", !.handle = TRUE]
    <3>1. OneAlert' /\ Ready' /\ BusKept' /\ Followed'
      BY <2>1, <2>3 DEF TypeOK, OneAlert, Ready, BusKept, Followed, Told, Orderly, Going, Coming
    <3>2. Signalled'
      BY <2>1, <2>3 DEF TypeOK, Signalled, Available
    <3>3. AnnouncementOwed' /\ NoneOrdinary' /\ LossHasRace'
      BY <2>1, <2>3 DEF TypeOK, AnnouncementOwed, NoneOrdinary, LossHasRace, Orderly, Coming
    <3> QED
      BY <3>1, <3>2, <3>3
  <2> QED
    BY <1>6, <2>2, <2>3 DEF InitDone, TypeOK, State
<1>7. CASE Trigger(t)
  <2>0. /\ snd' = [snd EXCEPT ![t].pc = "wait"] \/ snd' = [snd EXCEPT ![t] = Unladen]
        /\ UNCHANGED <<build, host, sl, ps, rst>> /\ harm \subseteq harm'
    BY <1>7 DEF Trigger, Drops, Harm
  <2>1. OneAlert' /\ Ready' /\ Followed' /\ AnnouncementOwed' /\ NoneOrdinary'
    <3>1. OneAlert' /\ Ready'
      BY <2>0 DEF OneAlert, Ready
    <3>2. Followed' /\ AnnouncementOwed'
      BY <2>0 DEF Followed, AnnouncementOwed, Told, Orderly, Going, Coming
    <3>3. NoneOrdinary'
      BY <2>0 DEF NoneOrdinary, Unladen, TypeOK
    <3> QED
      BY <3>1, <3>2, <3>3
  <2>2. BusKept'
    <3>1. \A u \in Senders : snd'[u].pc = "initing" => snd[u].pc = "initing"
      BY <2>0 DEF Unladen, TypeOK
    <3> QED
      BY <2>0, <3>1, BusStays
  <2>3. Signalled'
    BY <1>7 DEF Trigger, Drops, PsQuiet, Harm, TypeOK, Signalled, OneAlert, Ready, Available
  <2>4. LossHasRace'
    BY <1>7, ZenonT(60) DEF Trigger, Drops, PsQuiet, Harm, TypeOK, LossHasRace, Ready, BusKept,
         Followed, Told, Orderly, Coming, Going
  <2> QED
    BY <2>1, <2>2, <2>3, <2>4
<1>8. CASE TriggerTake(t)
  <2>1. OneAlert' /\ Ready' /\ Followed' /\ AnnouncementOwed' /\ NoneOrdinary' /\ LossHasRace'
    BY <1>8 DEF TriggerTake, TypeOK, OneAlert, Ready, Followed, AnnouncementOwed,
         NoneOrdinary, LossHasRace, Told, Orderly, Going, Coming
  <2>2. BusKept'
    BY <1>8 DEF TriggerTake, TypeOK, BusKept
  <2>3. Signalled'
    BY <1>8 DEF TriggerTake, TypeOK, Signalled, OneAlert, Ready, Available
  <2> QED
    BY <2>1, <2>2, <2>3
<1>9. CASE TriggerGive(t)
  <2>1. OneAlert' /\ Ready' /\ Followed' /\ AnnouncementOwed' /\ NoneOrdinary' /\ LossHasRace'
    BY <1>9 DEF TriggerGive, GivesBack, TypeOK, OneAlert, Ready, Followed, AnnouncementOwed,
         NoneOrdinary, LossHasRace, Told, Orderly, Going, Coming
  <2>2. BusKept'
    BY <1>9 DEF TriggerGive, GivesBack, TypeOK, BusKept
  <2>3. Signalled'
    BY <1>9 DEF TriggerGive, GivesBack, TypeOK, Signalled, OneAlert, Ready, Available
  <2> QED
    BY <2>1, <2>2, <2>3
<1>10. CASE TriggerFails(t)
  <2>1. OneAlert' /\ Ready' /\ Followed' /\ AnnouncementOwed' /\ NoneOrdinary'
    BY <1>10 DEF TriggerFails, Drops, PsQuiet, Harm, TypeOK, OneAlert, Ready, Followed,
         AnnouncementOwed, NoneOrdinary, Told, Orderly, Going, Coming
  <2>2. BusKept'
    <3>1. sl' = sl /\ harm \subseteq harm'
      BY <1>10 DEF TriggerFails, Harm
    <3>2. \A u \in Senders : snd'[u].pc = "initing" => snd[u].pc = "initing"
      BY <1>10 DEF TriggerFails, Drops, Unladen, TypeOK
    <3> QED
      BY <3>1, <3>2, BusStays
  <2>3. Signalled'
    BY <1>10 DEF TriggerFails, Drops, PsQuiet, Harm, TypeOK, Signalled, OneAlert, Ready,
         Available
  <2>4. LossHasRace'
    BY <1>10 DEF TriggerFails, Drops, PsQuiet, Harm, TypeOK, LossHasRace, Ready, BusKept,
         Followed, Told, Orderly, Coming, Going
  <2> QED
    BY <2>1, <2>2, <2>3, <2>4
<1>11. CASE Write(t)
  <2>1. OneAlert' /\ Ready' /\ Followed' /\ AnnouncementOwed' /\ NoneOrdinary'
    BY <1>11 DEF Write, Drops, PsQuiet, TypeOK, OneAlert, Ready, Followed, AnnouncementOwed,
         NoneOrdinary, Told, Orderly, Going, Coming
  <2>2. BusKept'
    <3>1. sl' = sl /\ harm \subseteq harm'
      BY <1>11 DEF Write
    <3>2. \A u \in Senders : snd'[u].pc = "initing" => snd[u].pc = "initing"
      BY <1>11 DEF Write, Drops, Unladen, TypeOK
    <3> QED
      BY <3>1, <3>2, BusStays
  <2>3. Signalled'
    BY <1>11 DEF Write, Drops, PsQuiet, TypeOK, Signalled, OneAlert, Ready, Available
  <2>4. LossHasRace'
    BY <1>11, ZenonT(60) DEF Write, Drops, PsQuiet, TypeOK, LossHasRace, Ready, BusKept, Followed,
         Told, Orderly, Coming, Going
  <2> QED
    BY <2>1, <2>2, <2>3, <2>4
<1> QED
  BY <1>1, <1>2, <1>3, <1>4, <1>5, <1>6, <1>7, <1>8, <1>9, <1>10, <1>11

(* A step of host_reset_task.                                              *)
LEMMA ResetKeeps ==
  ASSUME DatapathInv, TypeOK',
         HostReset \/ Startup
  PROVE  DatapathInv'
<1> USE DEF DatapathInv, PsTasks
<1>1. CASE HostReset
  <2>1. OneAlert' /\ Ready' /\ BusKept' /\ Followed' /\ Signalled' /\ NoneOrdinary' /\ LossHasRace'
    BY <1>1 DEF HostReset, TypeOK, OneAlert, Ready, BusKept, Followed, Signalled,
         NoneOrdinary, LossHasRace, Told, Orderly, Going, Coming, Available
  <2>2. AnnouncementOwed'
    BY <1>1 DEF HostReset, TypeOK, AnnouncementOwed, OneAlert, BusKept, Followed, Orderly,
         Coming, Told, Going
  <2> QED
    BY <2>1, <2>2
<1>2. CASE Startup
  <2>1. OneAlert' /\ BusKept' /\ Signalled' /\ NoneOrdinary' /\ LossHasRace'
    BY <1>2 DEF Startup, TypeOK, OneAlert, BusKept, Signalled, NoneOrdinary, LossHasRace,
         Available, Told, Orderly, Coming
  <2>2. Ready'
    BY <1>2 DEF Startup, TypeOK, Ready
  <2>3. Followed'
    BY <1>2 DEF Startup, TypeOK, Followed, OneAlert, Ready, Told, Orderly, Going, Coming
  <2>4. AnnouncementOwed'
    BY <1>2 DEF Startup, TypeOK, AnnouncementOwed, OneAlert, BusKept, Followed, Orderly,
         Coming, Told, Going
  <2> QED
    BY <2>1, <2>2, <2>3, <2>4
<1> QED
  BY <1>1, <1>2

-----------------------------------------------------------------------------
(* The invariant holds.                                                    *)

(* At the start nothing has happened.                                      *)
LEMMA StartsRight ==
  DatapathInit => DatapathInv
<1> SUFFICES ASSUME DatapathInit PROVE DatapathInv
  OBVIOUS
<1>1. TypeOK
  <2>1. sl \in SlaveStatics
    BY DEF DatapathInit, SlaveStatics, State
  <2>2. snd \in [Senders -> [pc: SndPc, kind: Kind]] /\ ps \in [PsTasks -> PsPc]
    BY DEF DatapathInit, Kind, PsPc, SndPc
  <2>3. steps \in [host: 0 .. MaxHost, send: 0 .. MaxSend]
    BY Limits DEF DatapathInit
  <2> QED
    BY <2>1, <2>2, <2>3 DEF DatapathInit, TypeOK, SlaveStatics
<1>2. OneAlert /\ Ready /\ BusKept
  BY DEF DatapathInit, OneAlert, Ready, BusKept
<1>3. Followed /\ AnnouncementOwed
  BY DEF DatapathInit, Followed, AnnouncementOwed, Told, Going, Coming
<1>4. Signalled /\ NoneOrdinary /\ LossHasRace
  BY DEF DatapathInit, Signalled, NoneOrdinary, LossHasRace
<1> QED
  BY <1>1, <1>2, <1>3, <1>4 DEF DatapathInv

(* Every step keeps it.                                                    *)
LEMMA StepsKeep ==
  DatapathInv /\ [DatapathNext]_datapathVars => DatapathInv'
<1> SUFFICES ASSUME DatapathInv, [DatapathNext]_datapathVars PROVE DatapathInv'
  OBVIOUS
<1>1. CASE HostOpens \/ HostSleeps \/ HostAborts \/ HostWakes \/ HostSaysAwake
           \/ HostReboots \/ PowerSaveInit
  BY <1>1, HostTypes, HostKeeps DEF DatapathInv
<1>2. CASE \E i \in PsTasks :
             \/ PsOnTake(i) \/ PsOnSet(i) \/ PsOnDeinit(i) \/ PsOnDown(i) \/ PsOnReady(i)
             \/ PsOffPrepare(i) \/ PsOffClear(i) \/ PsOffGive(i) \/ PsOffReset(i)
  BY <1>2, AlertTypes, AlertKeeps DEF DatapathInv
<1>3. CASE \E t \in Senders :
             \/ SendSerial(t) \/ SendFrame(t) \/ SendApFrame(t)
             \/ Check(t) \/ Wake(t) \/ Init_(t) \/ InitDone(t)
             \/ Trigger(t) \/ TriggerTake(t) \/ TriggerGive(t) \/ TriggerFails(t) \/ Write(t)
  BY <1>3, SenderTypes, SenderKeeps DEF DatapathInv
<1>4. CASE HostReset \/ Startup
  BY <1>4, HostTypes, ResetKeeps DEF DatapathInv
<1>5. CASE UNCHANGED datapathVars
  <2>1. TypeOK' /\ OneAlert' /\ Ready' /\ BusKept'
    BY <1>5 DEF DatapathInv, TypeOK, OneAlert, Ready, BusKept
  <2>2. Followed' /\ AnnouncementOwed'
    BY <1>5 DEF DatapathInv, Followed, AnnouncementOwed, Told, Orderly
  <2>3. Signalled' /\ NoneOrdinary' /\ LossHasRace'
    BY <1>5 DEF DatapathInv, Signalled, Available, NoneOrdinary, LossHasRace
  <2> QED
    BY <2>1, <2>2, <2>3 DEF DatapathInv
<1> QED
  BY <1>1, <1>2, <1>3, <1>4, <1>5 DEF DatapathNext

(* The inductive invariant holds in every reachable state.                 *)
LEMMA DatapathInvariance ==
  DatapathSpec => []DatapathInv
BY StartsRight, StepsKeep, PTL DEF DatapathSpec

-----------------------------------------------------------------------------
(* What follows from it.                                                   *)

(* Once its tasks are done, what the slave holds of the host's sleep is    *)
(* true of the host, of the semaphore that senders wait for and of its own *)
(* light sleep (host_power_save_alert, slave_light_sleep_start).           *)
THEOREM SleepIsTrue ==
  DatapathSpec => []SleepTrue
<1>1. DatapathInv => SleepTrue
  <2> SUFFICES ASSUME DatapathInv PROVE SleepTrue
    OBVIOUS
  <2> USE DEF DatapathInv, None, PsQuiet
  <2>1. SleepKnown
    BY DEF SleepKnown, Followed, Orderly, TypeOK
  <2>2. SemaphoreMeansAwake
    BY DEF SemaphoreMeansAwake, Signalled, Available, TypeOK
  <2>3. LightSleepOnlyWithHost
    BY DEF LightSleepOnlyWithHost, Followed, Orderly
  <2> QED
    BY <2>1, <2>2, <2>3 DEF SleepTrue
<1> QED
  BY <1>1, DatapathInvariance, PTL

(* A host that is awake has an open path, whose bus driver is up, and has  *)
(* been told what the slave can do, or will be (event_handler, sdio_init,  *)
(* host_reset_task).                                                       *)
THEOREM HostIsServed ==
  DatapathSpec => []PathServes
<1>1. DatapathInv => PathServes
  <2> SUFFICES ASSUME DatapathInv PROVE PathServes
    OBVIOUS
  <2> USE DEF DatapathInv, None, PsQuiet, Orderly
  <2>1. PathOpen
    BY DEF PathOpen, Ready, BusKept, Followed, Told, TypeOK
  <2>2. Announced
    BY DEF Announced, AnnouncementOwed, Coming
  <2> QED
    BY <2>1, <2>2 DEF PathServes
<1> QED
  BY <1>1, DatapathInvariance, PTL

(* A packet for a host that is awake and has said so is only lost to a     *)
(* race of the wake-up (process_tx_pkt, wakeup_host, sdio_write).          *)
THEOREM LossIsByRace ==
  DatapathSpec => []LostOnlyByRace
<1>1. DatapathInv => LostOnlyByRace
  BY DEF DatapathInv, LossHasRace, LostOnlyByRace, None
<1> QED
  BY <1>1, DatapathInvariance, PTL

(* Network split has for the host what the configuration lists for it, but *)
(* for the ports it cuts, and wakes it for no other frame of the station's *)
(* (init_allowed_ports, nw_split_filter_and_route_packet), whatever the    *)
(* ports, the frames and the default.                                      *)
THEOREM FramesAreRouted ==
  DatapathSpec => []RoutedRight
<1>1. DatapathInv => RoutedRight
  <2> SUFFICES ASSUME DatapathInv PROVE RoutedRight
    OBVIOUS
  <2>1. OrdinaryTrafficLetsSleep
    BY DEF DatapathInv, NoneOrdinary, OrdinaryTrafficLetsSleep
  <2>2. sl.power_save_on \in BOOLEAN
    BY DEF DatapathInv, TypeOK
  <2>3. ListedReachesHost
    BY <2>2, ListedIsRouted DEF ListedReachesHost
  <2> QED
    BY <2>1, <2>3 DEF RoutedRight
<1> QED
  BY <1>1, DatapathInvariance, PTL

-----------------------------------------------------------------------------
(* The bus drivers.                                                        *)

USE DEF rxVars, spiVars, slotVars, Prio, Packet, Said, SpiTasks, Writers

(* Their inductive invariant.                                              *)

(* What the tasks of the receive path are at, by bus: SPI's task joins in  *)
(* when it has dealt with its transaction, UART has no throttling, only    *)
(* SDIO is ever unloaded under them, and, once its buffers are             *)
(* unregistered, has none left of its own.                                 *)
RxShape ==
  /\ prod.pc \notin {"idle", "gone"} => prod.prio \in Prio
  /\ bus = "spi" => /\ pool.rx = 0
                    /\ prod.pc \in {"idle", "put", "give"}
                    /\ rd.pc \in {"take", "up", "pop", "process"}
                    /\ at["post"].pc # "idle" => prod.pc = "idle"
  /\ bus # "spi" => rd.pc # "up"
  /\ bus = "uart" => /\ prod.pc \in {"idle", "put", "give"}
                     /\ rd.pc \in {"take", "pop", "process"}
  /\ bus # "sdio" => rd.fresh /\ \A p \in Prio : rx.old[p] = 0
  /\ bus \in {"spi_hd", "uart"} => up
  /\ bus = "spi_hd" => prod.pc # "gone"
  /\ bus = "sdio" /\ (~up \/ unload.at \in {"stopped", "reset"}) =>
       /\ pool.rx = 0 /\ rx.arrived = <<>> /\ ~rd.fresh
       /\ \A p \in Prio : rx.new[p] = 0

(* How far SDIO has been unloaded: its tasks are there or not, and what it *)
(* has sent is what it takes back, unless that is too much or came late.   *)
UnloadShape ==
  /\ unload.at # "no" => bus = "sdio" /\ up
  /\ bus = "sdio" => /\ prod.pc = "gone" <=> ~up \/ unload.at # "no"
                     /\ td = "gone" <=> ~up \/ unload.at # "no"
  /\ unload.at \in {"deleted", "stopped"} => unload.tries = Reclaim
  /\ unload.at = "reset" =>
       /\ "overfull" \notin busHarm => fin <= unload.tries
       /\ "late" \notin busHarm => dma = <<>>

(* No receive buffer is in two places, also while SDIO is unloaded.        *)
BuffersWithin ==
  bus \in {"spi_hd", "sdio"} =>
    pool.rx + Len(rx.arrived) + Total(rx.new)
      + (IF prod.pc \in {"check", "flow", "tell", "put"} THEN 1 ELSE 0)
      + (IF Reading /\ rd.fresh THEN 1 ELSE 0) <= RxQ

(* SPI_HD loses no block.                                                  *)
SpiHdBlocks == bus = "spi_hd" => BlocksThere = TxBlocks

(* UART's blocks are free, queued, or with a task.                         *)
UartBlocks ==
  bus = "uart" /\ ~dead =>
    pool.rx + Total(rx.new) + (IF prod.pc = "put" THEN 1 ELSE 0)
      + (IF rd.pc = "process" THEN 1 ELSE 0) = RxQ

(* A writer holds what its place says, and only flow_ctrl_task speaks of   *)
(* throttling, which is only SPI_HD's way of telling it.                   *)
WriterShape(w) ==
  /\ wr[w].block <=> wr[w].pc = "put" \/ (bus = "sdio" /\ wr[w].pc = "slot")
  /\ wr[w].slot <=> (bus # "uart" /\ wr[w].pc = "put")
                      \/ (bus = "spi_hd" /\ wr[w].pc = "alloc")
  /\ bus = "uart" => wr[w].pc # "slot"
  /\ w # "flow" \/ bus # "spi_hd" => wr[w].says = "none"
  /\ w = "flow" /\ bus = "spi_hd" /\ wr[w].pc # "idle" => wr[w].says \in {"on", "off"}

SlotShape ==
  /\ bus # "spi" => \A w \in Writers : WriterShape(w)
  /\ bus # "spi_hd" => thr.trig = 0 /\ \A i \in DOMAIN dma : dma[i] = "none"
  /\ bus = "uart" => dma = <<>> /\ fin = 0 /\ td = "idle"
  /\ bus = "spi_hd" => td # "gone" /\ (link.loaded => dma # <<>>)

(* The throttling ends once the queue has emptied, unless recv_task is     *)
(* about to look.                                                          *)
EndIsSeen ==
  Throttles /\ thr.current /\ Load < Low => rd.pc = "check"

(* Who has decided on a start or a stop is right until it has told it.     *)
DecisionStands ==
  "crossed" \notin busHarm =>
    /\ prod.pc \in {"flow", "tell"} => thr.current
    /\ rd.pc \in {"flow", "tell"} => ~thr.current

(* SDIO: when the throttling has ended, the host knows or has an interrupt *)
(* that says so, which it looks at last.  No other bus has any.            *)
InterruptOwed ==
  /\ bus # "sdio" => thr.ints = {}
  /\ bus = "sdio" /\ "crossed" \notin busHarm =>
       /\ prod.pc # "gone" /\ ~thr.current /\ rd.pc \notin {"flow", "tell"}
            /\ (thr.host \/ "on" \in thr.ints) => "off" \in thr.ints
       /\ ~up \/ unload.at = "reset" => "on" \notin thr.ints

(* SPI_HD: when it has ended, flow_ctrl_task reads that it has ...         *)
FlowTrue ==
  bus = "spi_hd" /\ "crossed" \notin busHarm /\ ~thr.current /\ rd.pc # "flow" => ~thr.flow

(* ... and the last word to a host that has been told otherwise is on its  *)
(* way, with the task or in the peripheral.                                *)
LastWordOff ==
  IF wr["flow"].pc # "idle" THEN wr["flow"].says = "off"
  ELSE /\ thr.host => \E i \in DOMAIN dma : dma[i] = "off"
       /\ \A i \in DOMAIN dma :
            dma[i] = "on" => \E j \in DOMAIN dma : i < j /\ dma[j] = "off"

MessageOwed ==
  bus = "spi_hd" /\ busHarm \intersect {"crossed", "failed"} = {} /\ ~thr.current
    /\ rd.pc \notin {"flow", "tell"} /\ thr.trig = 0
    => LastWordOff

(* SPI: who raises the line or lowers it has done the one and owes the     *)
(* other half.                                                             *)
Raisers == BusSenders \union {"start"}
Loaders == {"start", "post"}
Loading == {"next", "reset", "reset_flag", "dummy", "attach"}

LineShape ==
  /\ \A t \in SpiTasks : at[t].pc \in {"put", "give", "dr", "dr_flag"} => t \in Raisers
  /\ \A t \in SpiTasks : at[t].pc \in Loading => t \in Loaders
  /\ at["start"].pc # "finish"
  /\ "cleared" \notin busHarm =>
       /\ \A t \in Raisers : at[t].pc = "dr_flag" => spi.dr
       /\ spi.dr => spi.flag \/ \E t \in Raisers : at[t].pc = "dr_flag"
       /\ spi.flag /\ ~spi.dr => \E t \in Loaders : at[t].pc = "reset_flag"

(* After the first startup event there is one transaction, or a task that  *)
(* is about to load it.                                                    *)
OneTransaction ==
  bus = "spi" /\ ~dead /\ busHarm \intersect {"restarted", "starved"} = {} =>
    Len(flight) + Len(done) + (IF at["post"].pc \in Loading THEN 1 ELSE 0)
      + (IF at["start"].pc # "idle" THEN 1 ELSE 0) = (IF count.start > 0 THEN 1 ELSE 0)

LineUp == spi.dr \/ \E t \in Raisers : at[t].pc = "dr"

(* While something is queued the line is up, or about to be raised, or     *)
(* about to be known to be down.                                           *)
QueuedIsRaised ==
  "cleared" \notin busHarm /\ TxWaiting # {} =>
    \/ LineUp
    \/ at["start"].pc = "give"
    \/ \E t \in Loaders : at[t].pc = "reset_flag"

(* While a packet is loaded, or about to be, it is up or about to be.      *)
LoadedIsRaised ==
  bus = "spi" /\ ~dead /\ busHarm \intersect {"cleared", "restarted", "starved"} = {} =>
    /\ (\E i \in DOMAIN flight : flight[i].data) => LineUp
    /\ \A t \in Loaders : at[t].pc = "attach" /\ at[t].sends.data => LineUp

BusInv ==
  /\ BusTypeOK /\ RxShape /\ SlotShape /\ TokensMatch
  /\ UnloadShape /\ NothingTwice /\ NothingLost /\ SpiHdBlocks
  /\ UartBlocks /\ BuffersAllLoaded /\ BuffersWithin /\ BuffersUnshared /\ SpiBlocksAccounted
  /\ EndIsSeen /\ DecisionStands /\ InterruptOwed /\ FlowTrue /\ MessageOwed
  /\ LineShape /\ OneTransaction /\ QueuedIsRaised /\ LoadedIsRaised /\ LoadedIsAnnounced

-----------------------------------------------------------------------------
(* The kinds of step.                                                      *)

ProdStep ==
  ProdReceives \/ ProdChecks \/ ProdFlow \/ ProdTells \/ ProdPuts \/ ProdGives
RdStep ==
  RdTakes \/ RdLooks \/ RdPops \/ RdChecks \/ RdFlow \/ RdTells \/ RdProcesses
RaiseStep(t) ==
  SpiWrite(t) \/ SpiPut(t) \/ SpiGive(t) \/ SetDataReady(t) \/ SetDataReadyFlag(t)
LoadStep(t) ==
  NextBuffer(t) \/ ResetDataReady(t) \/ ResetDataReadyFlag(t) \/ NextDummy(t) \/ Attach(t)
WriteStep(w) ==
  \/ WriteBegins(w) \/ TakeSlot(w) \/ TakeBlock(w) \/ SlotPut(w) \/ PutFails(w) \/ UartPut(w)

RxStep == (ProdStep \/ RdStep) /\ UNCHANGED <<spiVars, slotVars>>
SpiStep ==
  /\ bus = "spi" /\ UNCHANGED slotVars
  /\ \/ \E t \in Raisers : RaiseStep(t)
     \/ \E t \in Loaders : LoadStep(t)
     \/ PostResult \/ PostFinish \/ HostClocks \/ SpiReload
SlotStep ==
  /\ bus # "spi" /\ UNCHANGED spiVars
  /\ \/ \E w \in Writers : WriteStep(w)
     \/ TxLoads \/ HostReads \/ HostSeesInts \/ TxDone \/ HostSends \/ HostDeepWakes
     \/ SdioDeletes \/ SdioStops \/ SdioResets \/ SdioReclaims \/ SdioGoes \/ SdioUp

(* Every step is one of these, and the bus stays.                          *)
LEMMA Steps ==
  ASSUME Next
  PROVE  ~dead /\ (RxStep \/ SpiStep \/ SlotStep)
<1>1. ~dead
  BY DEF Next
<1>2. CASE RxNext /\ UNCHANGED <<spiVars, slotVars>>
  BY <1>1, <1>2 DEF RxNext, RxStep, ProdStep, RdStep
<1>3. CASE bus = "spi" /\ SpiNext /\ UNCHANGED slotVars
  BY <1>1, <1>3 DEF SpiNext, SpiStep, RaiseStep, LoadStep, Raisers, Loaders
<1>4. CASE bus # "spi" /\ SlotNext /\ UNCHANGED spiVars
  BY <1>1, <1>4 DEF SlotNext, SlotStep, WriteStep
<1> QED
  BY <1>2, <1>3, <1>4 DEF Next

(* A set that differs from another in one element at most.                 *)
LEMMA Recount ==
  ASSUME NEW U, IsFiniteSet(U), NEW A \in SUBSET U, NEW B \in SUBSET U, NEW u \in U,
         \A x \in U \ {u} : x \in A <=> x \in B
  PROVE  /\ Cardinality(A) \in Nat /\ Cardinality(B) \in Nat
         /\ Cardinality(B) + (IF u \in A THEN 1 ELSE 0)
              = Cardinality(A) + (IF u \in B THEN 1 ELSE 0)
<1>1. IsFiniteSet(A) /\ IsFiniteSet(B)
  BY FS_Subset
<1>2. Cardinality(A) \in Nat /\ Cardinality(B) \in Nat
  BY <1>1, FS_CardinalityType
<1>3. CASE u \in A /\ u \notin B
  <2>1. A = B \union {u}
    BY <1>3
  <2> QED
    BY <1>1, <1>2, <1>3, <2>1, FS_AddElement
<1>4. CASE u \notin A /\ u \in B
  <2>1. B = A \union {u}
    BY <1>4
  <2> QED
    BY <1>1, <1>2, <1>4, <2>1, FS_AddElement
<1>5. CASE u \in A <=> u \in B
  <2>1. A = B
    BY <1>5
  <2> QED
    BY <1>2, <1>5, <2>1
<1> QED
  BY <1>3, <1>4, <1>5

-----------------------------------------------------------------------------
(* Counts.                                                                 *)

(* The parameters, and the sets that are counted.                          *)
LEMMA Constants ==
  ASSUME BusTypeOK
  PROVE  /\ TxQ \in Nat \ {0} /\ RxQ \in Nat \ {0} /\ InFlight \in Nat \ {0} /\ Reclaim \in Nat
         /\ High \in Nat /\ Low \in Nat \ {0} /\ Low <= High
         /\ TxBlocks \in Nat /\ bus \in Bus
<1>1. bus \in Bus
  BY BusAssumption DEF BusTypeOK, RxTypeOK
<1> QED
  BY <1>1, BusAssumption DEF TxBlocks, Bus

(* There are finitely many tasks.                                          *)
LEMMA FiniteTasks ==
  /\ IsFiniteSet(SpiTasks) /\ IsFiniteSet(Writers)
  /\ Cardinality(Holders) \in Nat
  /\ HoldsOf("block") \in Nat /\ HoldsOf("slot") \in Nat
<1>1. IsFiniteSet(BusSenders) /\ IsFiniteSet({"start", "post"}) /\ IsFiniteSet({"flow", "start"})
  <2>1. /\ IsFiniteSet({"start"}) /\ IsFiniteSet({"post"}) /\ IsFiniteSet({"flow"})
    BY FS_Singleton
  <2>2. {"start", "post"} = {"start"} \union {"post"}
    OBVIOUS
  <2>3. {"flow", "start"} = {"flow"} \union {"start"}
    OBVIOUS
  <2>4. IsFiniteSet({"start"} \union {"post"}) /\ IsFiniteSet({"flow"} \union {"start"})
    BY <2>1, FS_Union, Zenon
  <2> QED
    BY <2>2, <2>3, <2>4, BusAssumption
<1>2. IsFiniteSet(SpiTasks) /\ IsFiniteSet(Writers)
  BY <1>1, FS_Union
<1> DEFINE With(field) == {w \in Writers : wr[w][field]}
<1>3. /\ Holders \subseteq SpiTasks
      /\ With("block") \subseteq Writers /\ With("slot") \subseteq Writers
  BY DEF Holders
<1>4. HoldsOf("block") = Cardinality(With("block")) /\ HoldsOf("slot") = Cardinality(With("slot"))
  BY DEF HoldsOf
<1> HIDE DEF With
<1> QED
  BY <1>2, <1>3, <1>4, FS_Subset, FS_CardinalityType

(* The totals of the queues.                                               *)
LEMMA Totals ==
  ASSUME BusTypeOK
  PROVE  /\ Total(rx.new) \in Nat /\ Total(rx.old) \in Nat /\ Total(spi.q) \in Nat
         /\ Queued \in Nat /\ Queued <= 3 * RxQ
         /\ \A p \in Prio : Depth(p) \in Nat /\ rx.new[p] \in Nat /\ rx.old[p] \in Nat
<1>1. \A p \in Prio : rx.new[p] \in 0 .. RxQ /\ rx.old[p] \in 0 .. RxQ /\ Depth(p) <= RxQ
  BY DEF BusTypeOK, RxTypeOK
<1>2. \A p \in Prio : spi.q[p] \in 0 .. TxQ
  BY DEF BusTypeOK, SpiTypeOK
<1> QED
  BY <1>1, <1>2, Constants DEF Total, Queued, Depth

(* A step of one task changes the count by that task.                      *)
LEMMA Recounted ==
  ASSUME NEW t \in SpiTasks, \A u \in SpiTasks \ {t} : at'[u].pc = at[u].pc
  PROVE  /\ Cardinality(Holders') \in Nat
         /\ Cardinality(Holders') + (IF at[t].pc \in {"put", "attach"} THEN 1 ELSE 0)
              = Cardinality(Holders) + (IF at'[t].pc \in {"put", "attach"} THEN 1 ELSE 0)
<1>1. Holders \in SUBSET SpiTasks /\ Holders' \in SUBSET SpiTasks
  BY DEF Holders
<1>2. \A u \in SpiTasks \ {t} : u \in Holders <=> u \in Holders'
  BY DEF Holders
<1>3. /\ t \in Holders <=> at[t].pc \in {"put", "attach"}
      /\ t \in Holders' <=> at'[t].pc \in {"put", "attach"}
  BY DEF Holders
<1> HIDE DEF SpiTasks
<1>4. /\ Cardinality(Holders) \in Nat /\ Cardinality(Holders') \in Nat
      /\ Cardinality(Holders') + (IF t \in Holders THEN 1 ELSE 0)
           = Cardinality(Holders) + (IF t \in Holders' THEN 1 ELSE 0)
  BY <1>1, <1>2, FiniteTasks, Recount
<1> QED
  BY <1>3, <1>4

(* The same for what a writer holds.                                       *)
LEMMA RecountedWriter ==
  ASSUME NEW w \in Writers, NEW field,
         \A u \in Writers \ {w} : wr'[u] = wr[u]
  PROVE  /\ HoldsOf(field) \in Nat /\ HoldsOf(field)' \in Nat
         /\ HoldsOf(field)' + (IF wr[w][field] THEN 1 ELSE 0)
              = HoldsOf(field) + (IF wr'[w][field] THEN 1 ELSE 0)
<1> DEFINE With == {u \in Writers : wr[u][field]}
           After == {u \in Writers : wr'[u][field]}
<1>0. HoldsOf(field) = Cardinality(With) /\ HoldsOf(field)' = Cardinality(After)
  BY DEF HoldsOf
<1>1. With \in SUBSET Writers /\ After \in SUBSET Writers
  OBVIOUS
<1>2. \A u \in Writers \ {w} : u \in With <=> u \in After
  OBVIOUS
<1>3. (w \in With <=> wr[w][field]) /\ (w \in After <=> wr'[w][field])
  OBVIOUS
<1> HIDE DEF Writers, With, After
<1>4. /\ Cardinality(With) \in Nat /\ Cardinality(After) \in Nat
      /\ Cardinality(After) + (IF w \in With THEN 1 ELSE 0)
           = Cardinality(With) + (IF w \in After THEN 1 ELSE 0)
  BY <1>1, <1>2, FiniteTasks, Recount
<1> QED
  BY <1>0, <1>3, <1>4, Zenon

-----------------------------------------------------------------------------
(* There is room for what a step gives back.                               *)

(* A block that is given back to the pool was not in it.                   *)
LEMMA Room ==
  ASSUME BusInv, ~dead
  PROVE  /\ bus = "spi" /\ rd.pc = "process" => pool.tx + 1 <= TxBlocks
         /\ bus = "spi" /\ at["post"].pc = "finish" => pool.tx + 2 <= TxBlocks
         /\ bus = "uart" /\ rd.pc = "process" => pool.rx + 1 <= RxQ
         /\ bus \in {"spi_hd", "sdio"} /\ rd.pc = "process" /\ rd.fresh => pool.rx + 1 <= RxQ
         /\ bus \in {"spi_hd", "sdio"} /\ rx.arrived # <<>> => pool.rx + 1 <= RxQ
<1>0. /\ BusTypeOK /\ RxTypeOK /\ SpiTypeOK /\ RxShape /\ UartBlocks /\ BuffersWithin
      /\ SpiBlocksAccounted
  BY DEF BusInv, BusTypeOK
<1>1. /\ Total(rx.new) \in Nat /\ Total(rx.old) \in Nat /\ Total(spi.q) \in Nat
      /\ Cardinality(Holders) \in Nat /\ TxBlocks \in Nat /\ RxQ \in Nat
  BY <1>0, Totals, FiniteTasks, Constants
<1>2. /\ pool.tx \in Nat /\ pool.rx \in Nat /\ Len(flight) \in Nat /\ Len(done) \in Nat
      /\ Len(rx.arrived) \in Nat
      /\ rx.arrived # <<>> => Len(rx.arrived) >= 1
  <2>1. pool.tx \in Nat /\ pool.rx \in Nat
    BY <1>0, <1>1 DEF RxTypeOK
  <2>2. flight \in Seq(Sends) /\ done \in Seq(Packet \union {"none"}) /\ rx.arrived \in Seq(Packet)
    BY <1>0 DEF RxTypeOK, SpiTypeOK
  <2> QED
    BY <2>1, <2>2
<1>3. ASSUME bus = "spi"
      PROVE  /\ rd.pc = "process" => pool.tx + 1 <= TxBlocks
             /\ at["post"].pc = "finish" => pool.tx + 2 <= TxBlocks
  <2> DEFINE post == IF at["post"].pc # "idle" THEN 2 ELSE 0
             putting == IF prod.pc = "put" THEN 1 ELSE 0
             reading == IF rd.pc = "process" THEN 1 ELSE 0
             held == Cardinality(Holders)
             n == Len(flight)
             m == Len(done)
  <2>1. /\ post \in Nat /\ putting \in Nat /\ reading \in Nat
        /\ held \in Nat /\ n \in Nat /\ m \in Nat /\ pool.tx \in Nat
    BY <1>1, <1>2
  <2>2. pool.tx + Total(spi.q) + 2 * n + 2 * m + held + post + putting + reading
          + Total(rx.new) + Total(rx.old) = TxBlocks
    BY <1>0, <1>3 DEF SpiBlocksAccounted
  <2>3. (rd.pc = "process" => reading = 1) /\ (at["post"].pc = "finish" => post = 2)
    OBVIOUS
  <2> HIDE DEF post, putting, reading, held, n, m
  <2> QED
    BY <1>1, <2>1, <2>2, <2>3
<1>4. bus = "uart" /\ rd.pc = "process" => pool.rx + 1 <= RxQ
  BY <1>0, <1>1, <1>2 DEF UartBlocks
<1>5. ASSUME bus \in {"spi_hd", "sdio"}
      PROVE  /\ rd.pc = "process" /\ rd.fresh => pool.rx + 1 <= RxQ
             /\ rx.arrived # <<>> => pool.rx + 1 <= RxQ
  <2> DEFINE putting == IF prod.pc \in {"check", "flow", "tell", "put"} THEN 1 ELSE 0
             reading == IF rd.pc \in {"check", "flow", "tell", "process"} /\ rd.fresh
                        THEN 1 ELSE 0
             n == Len(rx.arrived)
  <2>1. /\ putting \in Nat /\ reading \in Nat /\ n \in Nat /\ pool.rx \in Nat
        /\ rx.arrived # <<>> => n >= 1
        /\ rd.pc = "process" /\ rd.fresh => reading = 1
    BY <1>2
  <2>2. pool.rx + n + Total(rx.new) + putting + reading <= RxQ
    BY <1>0, <1>5 DEF BuffersWithin, Reading
  <2> HIDE DEF putting, reading, n
  <2> QED
    BY <1>1, <2>1, <2>2, SMTT(60)
<1> QED
  BY <1>3, <1>4, <1>5


-----------------------------------------------------------------------------
(* The types are kept.                                                     *)

PoolOK == pool \in [tx: 0 .. TxBlocks, rx: 0 .. RxQ]
RxOK ==
  /\ rx \in [arrived: Seq(Packet), new: [Prio -> 0 .. RxQ], old: [Prio -> 0 .. RxQ],
             sem: 0 .. 3 * RxQ]
  /\ Len(rx.arrived) <= RxQ /\ \A p \in Prio : Depth(p) <= RxQ
ProdOK == prod \in [pc: {"idle", "check", "flow", "tell", "put", "give", "gone"}, prio: Packet]
RdOK ==
  rd \in [pc: {"take", "up", "pop", "check", "flow", "tell", "process"}, prio: Packet,
          fresh: BOOLEAN]
ThrOK ==
  thr \in [current: BOOLEAN, flow: BOOLEAN, trig: 0 .. 1, ints: SUBSET {"on", "off"},
           host: BOOLEAN]
CountOK ==
  count \in [send: 0 .. MaxToHost, host: 0 .. MaxFromHost, start: 0 .. MaxStart,
             break: 0 .. MaxBreak]
FlagsOK == bus \in Buses /\ up \in BOOLEAN /\ dead \in BOOLEAN /\ busHarm \subseteq Harms

(* The types, one by one.                                                  *)
LEMMA TypeParts ==
  BusTypeOK <=> /\ PoolOK /\ RxOK /\ ProdOK /\ RdOK /\ ThrOK /\ CountOK /\ FlagsOK
                /\ SpiTypeOK /\ SlotTypeOK
  BY DEF BusTypeOK, RxTypeOK, PoolOK, RxOK, ProdOK, RdOK, ThrOK, CountOK, FlagsOK

(* The same of the next state.                                             *)
LEMMA TypePartsNext ==
  BusTypeOK' <=> /\ PoolOK' /\ RxOK' /\ ProdOK' /\ RdOK' /\ ThrOK' /\ CountOK' /\ FlagsOK'
                 /\ SpiTypeOK' /\ SlotTypeOK'
  BY DEF BusTypeOK, RxTypeOK, PoolOK, RxOK, ProdOK, RdOK, ThrOK, CountOK, FlagsOK

(* What is not changed keeps its type.                                     *)
LEMMA TypesFrame ==
  ASSUME BusTypeOK, UNCHANGED bus
  PROVE  /\ UNCHANGED pool => PoolOK'
         /\ UNCHANGED rx => RxOK'
         /\ UNCHANGED prod => ProdOK'
         /\ UNCHANGED rd => RdOK'
         /\ UNCHANGED thr => ThrOK'
         /\ UNCHANGED count => CountOK'
         /\ UNCHANGED <<up, dead, busHarm>> => FlagsOK'
         /\ UNCHANGED spiVars => SpiTypeOK'
         /\ UNCHANGED slotVars => SlotTypeOK'
<1>1. TxBlocks' = TxBlocks
  BY DEF TxBlocks
<1>2. UNCHANGED rx => RxOK'
  BY TypeParts DEF RxOK, Depth
<1>3. UNCHANGED spiVars => SpiTypeOK'
  BY TypeParts DEF SpiTypeOK
<1>4. UNCHANGED slotVars => SlotTypeOK'
  BY <1>1, TypeParts DEF SlotTypeOK
<1> QED
  BY <1>1, <1>2, <1>3, <1>4, TypeParts
     DEF PoolOK, ProdOK, RdOK, ThrOK, CountOK, FlagsOK

(* A history variable only grows by what it may hold.                      *)
LEMMA HarmKept ==
  ASSUME BusTypeOK, NEW h \in Harms, NEW cond, BusHarm(h, cond)
  PROVE  busHarm' \subseteq Harms
  BY TypeParts DEF FlagsOK, BusHarm

(* The queues of what is received.                                         *)
LEMMA RxRecord ==
  ASSUME BusTypeOK
  PROVE  /\ rx.arrived \in Seq(Packet) /\ Len(rx.arrived) <= RxQ
         /\ rx.new \in [Prio -> 0 .. RxQ] /\ rx.old \in [Prio -> 0 .. RxQ]
         /\ rx.sem \in 0 .. 3 * RxQ
         /\ \A p \in Prio : Depth(p) <= RxQ
  BY TypeParts DEF RxOK

(* The numbers in the queues.                                              *)
LEMMA Counts ==
  ASSUME BusTypeOK
  PROVE  \A p \in Prio : /\ rx.new[p] \in 0 .. RxQ /\ rx.old[p] \in 0 .. RxQ
                         /\ Depth(p) \in 0 .. RxQ
<1>1. \A p \in Prio : rx.new[p] \in 0 .. RxQ /\ rx.old[p] \in 0 .. RxQ /\ Depth(p) <= RxQ
  BY RxRecord
<1>2. RxQ \in Nat
  BY Constants
<1> QED
  BY <1>1, <1>2 DEF Depth

(* What the receive path's steps change.                                   *)
LEMMA RxTypes ==
  ASSUME BusInv, ~dead, RxStep
  PROVE  BusTypeOK'
<1>0. /\ BusTypeOK /\ UNCHANGED bus /\ UNCHANGED spiVars /\ UNCHANGED slotVars
      /\ TxBlocks' = TxBlocks /\ TxBlocks \in Nat /\ RxQ \in Nat
  <2>1. BusTypeOK /\ UNCHANGED bus /\ UNCHANGED spiVars /\ UNCHANGED slotVars
    BY DEF BusInv, RxStep, ProdStep, RdStep, ProdReceives, ProdChecks, ProdFlow, ProdTells,
         ProdPuts, ProdGives, RdTakes, RdLooks, RdPops, RdChecks, RdFlow, RdTells, RdProcesses
  <2> QED
    BY <2>1, Constants DEF TxBlocks
<1>1. CASE ProdReceives
  <2> DEFINE p == Head(rx.arrived)
  <2>0. /\ p \in Packet /\ rx.arrived # <<>> /\ up /\ bus # "spi"
        /\ Tail(rx.arrived) \in Seq(Packet) /\ Len(Tail(rx.arrived)) <= RxQ
    BY <1>0, <1>1, RxRecord DEF ProdReceives
  <2>1. PoolOK'
    <3>1. pool \in [tx: 0 .. TxBlocks, rx: 0 .. RxQ] /\ bus \in Bus
      BY <1>0, TypeParts, Constants DEF PoolOK
    <3>2. bus \in {"spi_hd", "sdio"} => pool.rx + 1 <= RxQ
      BY <2>0, Room
    <3> DEFINE n == IF bus = "uart" THEN (IF p = "bad" \/ pool.rx = 0 THEN pool.rx
                                          ELSE pool.rx - 1)
                    ELSE IF p = "bad" THEN pool.rx + 1 ELSE pool.rx
    <3>3. pool' = [pool EXCEPT !.rx = n]
      BY <1>1 DEF ProdReceives
    <3>4. n \in 0 .. RxQ
      <4>1. pool.rx \in 0 .. RxQ /\ bus \in {"spi_hd", "sdio", "uart"}
        BY <2>0, <3>1 DEF Bus
      <4> HIDE DEF p
      <4> QED
        BY <1>0, <3>2, <4>1
    <3> HIDE DEF n
    <3> QED
      BY <1>0, <3>1, <3>3, <3>4 DEF PoolOK
  <2>2. RxOK'
    <3>1. rx' = [rx EXCEPT !.arrived = Tail(rx.arrived)]
      BY <1>1 DEF ProdReceives
    <3>2. rx'.new = rx.new /\ rx'.old = rx.old /\ rx'.arrived = Tail(rx.arrived)
      BY <1>0, <3>1, TypeParts DEF RxOK
    <3>3. \A q \in Prio : Depth(q)' <= RxQ
      BY <1>0, <3>2, RxRecord DEF Depth
    <3> QED
      BY <1>0, <2>0, <3>1, <3>2, <3>3, TypeParts DEF RxOK
  <2>3. ProdOK' /\ dead' \in BOOLEAN /\ UNCHANGED <<up, rd, thr, count, busHarm>>
    BY <1>1, <2>0 DEF ProdReceives, ProdOK
  <2> QED
    BY <1>0, <2>1, <2>2, <2>3, TypesFrame, TypeParts, TypePartsNext DEF FlagsOK
<1>2. CASE ProdChecks \/ ProdFlow \/ RdChecks \/ RdFlow
  <2>1. UNCHANGED <<pool, rx, count, up, dead>>
    BY <1>2 DEF ProdChecks, ProdFlow, RdChecks, RdFlow
  <2>2. ThrOK' /\ ProdOK' /\ RdOK'
    <3>0. ThrOK /\ ProdOK /\ RdOK
      BY <1>0, TypeParts
    <3>1. ThrOK'
      <4>1. \/ UNCHANGED thr
            \/ \E b \in BOOLEAN :
                 thr' = [thr EXCEPT !.current = b] \/ thr' = [thr EXCEPT !.flow = b]
        BY <1>2 DEF ProdChecks, ProdFlow, RdChecks, RdFlow
      <4> QED
        BY <3>0, <4>1 DEF ThrOK
    <3>2. ProdOK'
      BY <1>2, <3>0 DEF ProdChecks, ProdFlow, RdChecks, RdFlow, ProdTo, ProdOK
    <3>3. RdOK'
      BY <1>2, <3>0 DEF ProdChecks, ProdFlow, RdChecks, RdFlow, RdTo, RdOK
    <3> QED
      BY <3>1, <3>2, <3>3
  <2>3. FlagsOK'
    BY <1>0, <1>2, TypeParts DEF ProdChecks, ProdFlow, RdChecks, RdFlow, FlagsOK, BusHarm, Harms
  <2> QED
    BY <1>0, <2>1, <2>2, <2>3, TypesFrame, TypePartsNext
<1>3. CASE ProdTells \/ RdTells
  <2>1. UNCHANGED <<pool, rx, count, up, dead, busHarm>>
    BY <1>3 DEF ProdTells, RdTells
  <2>2. ThrOK' /\ ProdOK' /\ RdOK'
    BY <1>0, <1>3, TypeParts DEF ProdTells, RdTells, Tell, ProdTo, RdTo, ThrOK, ProdOK, RdOK
  <2> QED
    BY <1>0, <2>1, <2>2, TypesFrame, TypePartsNext
<1>4. CASE ProdPuts
  <2>1. /\ UNCHANGED <<pool, rd, thr, count, up, dead, busHarm>> /\ prod.prio \in Prio
        /\ Depth(prod.prio) < RxQ
        /\ rx' = [rx EXCEPT !.new[prod.prio] = rx.new[prod.prio] + 1]
    BY <1>4 DEF ProdPuts, BusInv, RxShape
  <2>2. ProdOK'
    BY <1>0, <1>4, TypeParts DEF ProdPuts, ProdTo, ProdOK
  <2>3. /\ rx.new[prod.prio] \in 0 .. RxQ /\ rx.old[prod.prio] \in 0 .. RxQ
        /\ rx.new[prod.prio] + 1 \in 0 .. RxQ
    BY <1>0, <2>1, Counts DEF Depth
  <2>4. /\ rx'.new = [rx.new EXCEPT ![prod.prio] = rx.new[prod.prio] + 1]
        /\ rx'.old = rx.old /\ rx'.arrived = rx.arrived /\ rx'.sem = rx.sem
        /\ rx' = [rx EXCEPT !.new = rx'.new]
    BY <1>0, <2>1, TypeParts DEF RxOK
  <2>5. rx'.new \in [Prio -> 0 .. RxQ]
    BY <1>0, <2>1, <2>3, <2>4, RxRecord
  <2>6. ASSUME NEW p \in Prio
        PROVE  Depth(p)' <= RxQ
    <3>1. p # prod.prio => Depth(p)' = Depth(p)
      BY <1>0, <2>4, RxRecord DEF Depth
    <3>2. p = prod.prio => Depth(p)' = Depth(p) + 1
      <4>1. p = prod.prio => rx'.new[p] = rx.new[p] + 1 /\ rx'.old[p] = rx.old[p]
        BY <1>0, <2>4, RxRecord
      <4>2. rx.new[p] \in Nat /\ rx.old[p] \in Nat
        BY <1>0, Totals
      <4> QED
        BY <4>1, <4>2 DEF Depth
    <3> QED
      BY <1>0, <2>1, <3>1, <3>2, Counts
  <2>7. RxOK'
    BY <1>0, <2>4, <2>5, <2>6, TypeParts DEF RxOK
  <2> QED
    BY <1>0, <2>1, <2>2, <2>7, TypesFrame, TypePartsNext
<1>5. CASE ProdGives \/ RdTakes
  <2>1. /\ UNCHANGED <<pool, thr, count, up, dead, busHarm>>
    BY <1>5 DEF ProdGives, RdTakes
  <2> DEFINE n == IF ProdGives THEN (IF rx.sem < 3 * RxQ THEN rx.sem + 1 ELSE rx.sem)
                  ELSE rx.sem - 1
  <2>5. rx' = [rx EXCEPT !.sem = n]
    BY <1>5 DEF ProdGives, RdTakes
  <2>6. n \in 0 .. 3 * RxQ
    <3>1. rx.sem \in 0 .. 3 * RxQ /\ 3 * RxQ \in Nat /\ (~ProdGives => rx.sem > 0)
      BY <1>0, <1>5, RxRecord DEF RdTakes
    <3> QED
      BY <3>1
  <2> HIDE DEF n
  <2>2. ProdOK' /\ RdOK'
    BY <1>0, <1>5, TypeParts DEF ProdGives, RdTakes, ProdTo, RdTo, ProdOK, RdOK
  <2>3. rx'.new = rx.new /\ rx'.old = rx.old /\ rx'.arrived = rx.arrived
    BY <1>0, <2>5, TypeParts DEF RxOK
  <2>4. RxOK'
    BY <1>0, <2>5, <2>6, <2>3, TypeParts DEF RxOK, Depth
  <2> QED
    BY <1>0, <2>1, <2>2, <2>4, TypesFrame, TypePartsNext
<1>6. CASE RdLooks
  <2>1. UNCHANGED <<pool, rx, prod, thr, count, up, dead>>
    BY <1>6 DEF RdLooks
  <2>2. RdOK'
    BY <1>0, <1>6, TypeParts DEF RdLooks, RdTo, RdOK
  <2>3. FlagsOK'
    BY <1>0, <1>6, TypeParts DEF RdLooks, FlagsOK, BusHarm, Harms
  <2> QED
    BY <1>0, <2>1, <2>2, <2>3, TypesFrame, TypePartsNext
<1>7. CASE RdPops
  <2> DEFINE p == First(Waiting)
  <2>0. p \in Prio /\ UNCHANGED <<pool, prod, thr, count, up, dead, busHarm>>
    BY <1>7 DEF First, RdPops
  <2>1. RdOK'
    <3> DEFINE fresh == rx.old[p] = 0
               pc == IF Throttles THEN "check" ELSE "process"
    <3>1. fresh \in BOOLEAN /\ pc \in {"check", "process"}
      OBVIOUS
    <3>2. rd' = [rd EXCEPT !.pc = "take"] \/ rd' = [prio |-> p, fresh |-> fresh, pc |-> pc]
      BY <1>7 DEF RdPops, RdTo
    <3> HIDE DEF fresh, pc
    <3> QED
      BY <1>0, <2>0, <3>1, <3>2, TypeParts DEF RdOK
  <2>2. CASE UNCHANGED rx
    BY <1>0, <2>0, <2>1, <2>2, TypesFrame, TypePartsNext
  <2>3. CASE Depth(p) # 0
    <3>1. /\ rx.new[p] \in 0 .. RxQ /\ rx.old[p] \in 0 .. RxQ
          /\ rx.old[p] = 0 => rx.new[p] > 0
          /\ rx.old[p] > 0 => rx.old[p] - 1 \in 0 .. RxQ
          /\ rx.new[p] > 0 => rx.new[p] - 1 \in 0 .. RxQ
      BY <1>0, <2>0, <2>3, Counts DEF Depth
    <3>2. \/ rx' = [rx EXCEPT !.old[p] = rx.old[p] - 1] /\ rx.old[p] > 0
          \/ rx' = [rx EXCEPT !.new[p] = rx.new[p] - 1] /\ rx.new[p] > 0
      BY <1>7, <2>3, <3>1 DEF RdPops
    <3>3. /\ rx'.arrived = rx.arrived /\ rx'.sem = rx.sem
          /\ rx' = [rx EXCEPT !.new = rx'.new, !.old = rx'.old]
          /\ \/ rx'.new = rx.new /\ rx'.old = [rx.old EXCEPT ![p] = rx.old[p] - 1]
                  /\ rx.old[p] > 0
             \/ rx'.old = rx.old /\ rx'.new = [rx.new EXCEPT ![p] = rx.new[p] - 1]
                  /\ rx.new[p] > 0
      BY <1>0, <2>0, <3>2, TypeParts DEF RxOK
    <3>4. rx'.new \in [Prio -> 0 .. RxQ] /\ rx'.old \in [Prio -> 0 .. RxQ]
      BY <1>0, <2>0, <3>1, <3>3, RxRecord
    <3>5. ASSUME NEW q \in Prio
          PROVE  Depth(q)' <= RxQ
      <4>1. q # p => Depth(q)' = Depth(q)
        BY <1>0, <3>3, RxRecord DEF Depth
      <4>2. q = p => Depth(q)' = Depth(q) - 1
        <5>1. q = p => \/ rx'.new[q] = rx.new[q] - 1 /\ rx'.old[q] = rx.old[q]
                       \/ rx'.new[q] = rx.new[q] /\ rx'.old[q] = rx.old[q] - 1
          BY <1>0, <2>0, <3>3, RxRecord
        <5>2. rx.new[q] \in Nat /\ rx.old[q] \in Nat
          BY <1>0, Totals
        <5> QED
          BY <5>1, <5>2 DEF Depth
      <4> QED
        BY <1>0, <4>1, <4>2, Counts
    <3>6. RxOK'
      BY <1>0, <3>3, <3>4, <3>5, TypeParts DEF RxOK
    <3> QED
      BY <1>0, <2>0, <2>1, <3>6, TypesFrame, TypePartsNext
  <2> QED
    BY <1>7, <2>2, <2>3 DEF RdPops
<1>8. CASE RdProcesses
  <2>1. UNCHANGED <<rx, prod, thr, count, up, busHarm>> /\ dead' \in BOOLEAN
    BY <1>0, <1>8, TypeParts DEF RdProcesses, FlagsOK
  <2>2. RdOK'
    BY <1>0, <1>8, TypeParts DEF RdProcesses, RdTo, RdOK
  <2>3. PoolOK'
    BY <1>0, <1>8, Room, Constants, TypeParts DEF RdProcesses, Released, PoolOK, Bus
  <2>4. FlagsOK'
    BY <1>0, <2>1, TypeParts DEF FlagsOK
  <2> QED
    BY <1>0, <2>1, <2>2, <2>3, <2>4, TypesFrame, TypePartsNext
<1> QED
  BY <1>1, <1>2, <1>3, <1>4, <1>5, <1>6, <1>7, <1>8 DEF RxStep, ProdStep, RdStep

LineOK ==
  spi \in [dr: BOOLEAN, flag: BOOLEAN, latch: BOOLEAN, q: [Prio -> 0 .. TxQ],
           sem: 0 .. 3 * TxQ]
LoadOK ==
  /\ flight \in Seq(Sends) /\ done \in Seq(Packet \union {"none"})
  /\ Len(flight) + Len(done) <= InFlight
AtOK == at \in [SpiTasks -> [pc: SpiPc, prio: Prio, sends: Sends]]

(* The types of SPI, one by one.                                           *)
LEMMA SpiParts ==
  /\ SpiTypeOK <=> LineOK /\ LoadOK /\ AtOK
  /\ SpiTypeOK' <=> LineOK' /\ LoadOK' /\ AtOK'
  BY DEF SpiTypeOK, LineOK, LoadOK, AtOK

(* What is not changed keeps its type.                                     *)
LEMMA SpiFrame ==
  ASSUME BusTypeOK
  PROVE  /\ LineOK /\ LoadOK /\ AtOK
         /\ UNCHANGED spi => LineOK'
         /\ UNCHANGED <<flight, done>> => LoadOK'
         /\ UNCHANGED at => AtOK'
<1>1. LineOK /\ LoadOK /\ AtOK
  BY TypeParts, SpiParts
<1> QED
  BY <1>1 DEF LineOK, LoadOK, AtOK

(* One more of what is bounded.                                            *)
LEMMA CountedType ==
  ASSUME BusTypeOK
  PROVE  /\ May("send", MaxToHost) => CountOK'
         /\ May("host", MaxFromHost) => CountOK'
         /\ May("start", MaxStart) => CountOK'
         /\ May("break", MaxBreak) => CountOK'
<1>1. CountOK
  BY TypeParts
<1>2. {MaxToHost, MaxFromHost, MaxStart, MaxBreak} \subseteq Nat
  BY BusAssumption
<1>3. May("send", MaxToHost) => CountOK'
  BY <1>1, <1>2 DEF May, CountOK
<1>4. May("host", MaxFromHost) => CountOK'
  BY <1>1, <1>2 DEF May, CountOK
<1>5. May("start", MaxStart) => CountOK'
  BY <1>1, <1>2 DEF May, CountOK
<1>6. May("break", MaxBreak) => CountOK'
  BY <1>1, <1>2 DEF May, CountOK
<1> QED
  BY <1>3, <1>4, <1>5, <1>6

(* Moving a task, and what it holds.                                       *)
LEMMA MovesType ==
  ASSUME BusTypeOK, NEW t \in SpiTasks, NEW pc \in SpiPc
  PROVE  /\ Go(t, pc) => AtOK'
         /\ \A p \in Prio : at' = [at EXCEPT ![t].pc = pc, ![t].prio = p] => AtOK'
         /\ \A s \in Sends : at' = [at EXCEPT ![t].pc = pc, ![t].sends = s] => AtOK'
<1>1. AtOK
  BY SpiFrame
<1>2. Go(t, pc) => AtOK'
  BY <1>1 DEF Go, AtOK
<1>3. ASSUME NEW p \in Prio, at' = [at EXCEPT ![t].pc = pc, ![t].prio = p]
      PROVE  AtOK'
  <2> DEFINE r == at[t]
  <2>0. r \in [pc: SpiPc, prio: Prio, sends: Sends]
    BY <1>1 DEF AtOK
  <2> HIDE DEF r
  <2>3. [r EXCEPT !.pc = pc] \in [pc: SpiPc, prio: Prio, sends: Sends]
    BY <2>0
  <2>4. [[r EXCEPT !.pc = pc] EXCEPT !.prio = p] \in [pc: SpiPc, prio: Prio, sends: Sends]
    BY <1>3, <2>3
  <2>1. [at[t] EXCEPT !.pc = pc, !.prio = p] \in [pc: SpiPc, prio: Prio, sends: Sends]
    BY <2>4 DEF r
  <2>2. at' = [at EXCEPT ![t] = [at[t] EXCEPT !.pc = pc, !.prio = p]]
    BY <1>1, <1>3 DEF AtOK
  <2> QED
    BY <1>1, <2>1, <2>2 DEF AtOK
<1>4. ASSUME NEW s \in Sends, at' = [at EXCEPT ![t].pc = pc, ![t].sends = s]
      PROVE  AtOK'
  <2> DEFINE r == at[t]
  <2>0. r \in [pc: SpiPc, prio: Prio, sends: Sends]
    BY <1>1 DEF AtOK
  <2> HIDE DEF r
  <2>3. [r EXCEPT !.pc = pc] \in [pc: SpiPc, prio: Prio, sends: Sends]
    BY <2>0
  <2>4. [[r EXCEPT !.pc = pc] EXCEPT !.sends = s] \in [pc: SpiPc, prio: Prio, sends: Sends]
    BY <1>4, <2>3
  <2>1. [at[t] EXCEPT !.pc = pc, !.sends = s] \in [pc: SpiPc, prio: Prio, sends: Sends]
    BY <2>4 DEF r
  <2>2. at' = [at EXCEPT ![t] = [at[t] EXCEPT !.pc = pc, !.sends = s]]
    BY <1>1, <1>4 DEF AtOK
  <2> QED
    BY <1>1, <2>1, <2>2 DEF AtOK
<1> QED
  BY <1>2, <1>3, <1>4

(* Taking a block.                                                         *)
LEMMA TakesType ==
  ASSUME BusTypeOK
  PROVE  /\ pool' = [pool EXCEPT !.tx = IF @ > 0 THEN @ - 1 ELSE @] => PoolOK' \/ bus' # bus
         /\ pool.tx > 0 /\ pool' = [pool EXCEPT !.tx = @ - 1] => PoolOK' \/ bus' # bus
<1>1. PoolOK /\ TxBlocks \in Nat
  BY TypeParts, Constants
<1>2. bus' = bus => TxBlocks' = TxBlocks
  BY DEF TxBlocks
<1> DEFINE n == IF pool.tx > 0 THEN pool.tx - 1 ELSE pool.tx
<1>3. n \in 0 .. TxBlocks /\ pool.tx \in 0 .. TxBlocks
  BY <1>1 DEF PoolOK
<1>4. /\ pool' = [pool EXCEPT !.tx = IF @ > 0 THEN @ - 1 ELSE @] => pool' = [pool EXCEPT !.tx = n]
      /\ pool.tx > 0 /\ pool' = [pool EXCEPT !.tx = @ - 1] => pool' = [pool EXCEPT !.tx = n]
  OBVIOUS
<1> HIDE DEF n
<1> QED
  BY <1>1, <1>2, <1>3, <1>4 DEF PoolOK

(* What SPI's steps change.                                                *)
LEMMA SpiTypes ==
  ASSUME BusInv, ~dead, SpiStep
  PROVE  BusTypeOK'
<1>0. BusTypeOK /\ UNCHANGED bus /\ bus = "spi" /\ UNCHANGED slotVars
  BY DEF BusInv, SpiStep, RaiseStep, LoadStep, SpiWrite, SpiPut, SpiGive, SetDataReady,
       SetDataReadyFlag, NextBuffer, ResetDataReady, ResetDataReadyFlag, NextDummy, Attach,
       PostResult, PostFinish, HostClocks, SpiReload
<1>a. TxBlocks \in Nat /\ InFlight \in Nat /\ TxQ \in Nat /\ TxBlocks' = TxBlocks
  BY <1>0, Constants DEF TxBlocks
<1>b. LineOK /\ LoadOK /\ AtOK /\ PoolOK /\ ThrOK /\ ProdOK /\ FlagsOK
  BY <1>0, SpiFrame, TypeParts
<1>c. PrioOf \in [BusSenders -> Prio] /\ "start" \notin BusSenders
  BY BusAssumption
<1>d. SpiThrottle \in BOOLEAN
  BY <1>b DEF SpiThrottle, ThrOK
<1>e. /\ \A p \in Prio : spi.q[p] \in 0 .. TxQ
      /\ spi.sem \in 0 .. 3 * TxQ /\ 3 * TxQ \in Nat
  BY <1>a, <1>b DEF LineOK
<1>1. ASSUME NEW t \in Raisers, SpiWrite(t)
      PROVE  BusTypeOK'
  <2> DEFINE p == IF t = "start" THEN "others" ELSE PrioOf[t]
  <2>1. p \in Prio /\ t \in SpiTasks
    BY <1>c DEF Raisers
  <2>2. AtOK'
    <3>1. at' = [at EXCEPT ![t].pc = "put", ![t].prio = p]
      BY <1>1 DEF SpiWrite
    <3>2. "put" \in SpiPc
      BY DEF SpiPc
    <3> HIDE DEF p
    <3> QED
      BY <1>0, <2>1, <3>1, <3>2, MovesType
  <2>3. PoolOK'
    BY <1>0, <1>1, TakesType DEF SpiWrite
  <2>4. ThrOK'
    BY <1>1, <1>b, <1>d DEF SpiWrite, ThrOK
  <2>5. CountOK'
    BY <1>0, <1>1, CountedType DEF SpiWrite, MayStart, MaySend
  <2>6. FlagsOK'
    BY <1>0, <1>1, <1>b DEF SpiWrite, FlagsOK, BusHarm, Harms
  <2> QED
    BY <1>0, <1>1, <2>2, <2>3, <2>4, <2>5, <2>6, TypesFrame, TypePartsNext, SpiFrame, SpiParts
       DEF SpiWrite
<1>2. ASSUME NEW t \in Raisers, SpiPut(t)
      PROVE  BusTypeOK'
  <2> DEFINE p == at[t].prio
  <2>1. t \in SpiTasks /\ AtOK'
    BY <1>0, <1>2, MovesType DEF SpiPut, Raisers, SpiPc
  <2>2. p \in Prio /\ spi.q[p] \in 0 .. TxQ /\ spi.q[p] + 1 \in 0 .. TxQ
    BY <1>2, <1>a, <1>b, <1>e, <2>1 DEF SpiPut, AtOK
  <2>3. spi' = [spi EXCEPT !.q = [spi.q EXCEPT ![p] = spi.q[p] + 1]]
    BY <1>2, <1>b DEF SpiPut, LineOK
  <2> HIDE DEF p
  <2>4. LineOK'
    BY <1>b, <2>2, <2>3 DEF LineOK
  <2> QED
    BY <1>0, <1>2, <2>1, <2>4, TypesFrame, TypePartsNext, SpiFrame, SpiParts DEF SpiPut
<1>3. ASSUME NEW t \in Raisers, SpiGive(t)
      PROVE  BusTypeOK'
  <2>1. t \in SpiTasks /\ AtOK'
    BY <1>0, <1>3, MovesType DEF SpiGive, Raisers, SpiPc
  <2> DEFINE n == IF spi.sem < 3 * TxQ THEN spi.sem + 1 ELSE spi.sem
  <2>2. n \in 0 .. 3 * TxQ /\ spi' = [spi EXCEPT !.sem = n]
    BY <1>3, <1>e DEF SpiGive
  <2> HIDE DEF n
  <2>3. LineOK'
    BY <1>b, <2>2 DEF LineOK
  <2> QED
    BY <1>0, <1>3, <2>1, <2>3, TypesFrame, TypePartsNext, SpiFrame, SpiParts DEF SpiGive
<1>4. ASSUME NEW t \in Raisers, SetDataReady(t) \/ SetDataReadyFlag(t)
      PROVE  BusTypeOK'
  <2>1. t \in SpiTasks /\ AtOK'
    BY <1>0, <1>4, MovesType DEF SetDataReady, SetDataReadyFlag, AfterRaise, Raisers, SpiPc
  <2> DEFINE risen == spi.latch \/ ~spi.dr
  <2>2. risen \in BOOLEAN
    BY <1>b DEF LineOK
  <2>3. \/ spi' = spi
        \/ spi' = [spi EXCEPT !.dr = TRUE, !.latch = risen]
        \/ spi' = [spi EXCEPT !.flag = TRUE]
    BY <1>4 DEF SetDataReady, SetDataReadyFlag, Raised
  <2> HIDE DEF risen
  <2>4. LineOK'
    <3>1. CASE spi' = [spi EXCEPT !.dr = TRUE, !.latch = risen]
      <4>1. [spi EXCEPT !.dr = TRUE] \in [dr: BOOLEAN, flag: BOOLEAN, latch: BOOLEAN,
                                          q: [Prio -> 0 .. TxQ], sem: 0 .. 3 * TxQ]
        BY <1>b DEF LineOK
      <4>2. spi' = [[spi EXCEPT !.dr = TRUE] EXCEPT !.latch = risen]
        BY <3>1
      <4> QED
        BY <2>2, <4>1, <4>2 DEF LineOK
    <3> QED
      BY <1>b, <2>3, <3>1 DEF LineOK
  <2>5. UNCHANGED <<pool, rx, prod, rd, thr, count, up, dead, busHarm, flight, done>>
    BY <1>4 DEF SetDataReady, SetDataReadyFlag
  <2> QED
    BY <1>0, <2>1, <2>4, <2>5, TypesFrame, TypePartsNext, SpiFrame, SpiParts
<1>5. ASSUME NEW t \in Loaders, NextBuffer(t)
      PROVE  BusTypeOK'
  <2> DEFINE p == First(TxWaiting)
  <2>1. t \in SpiTasks /\ p \in Prio
    BY DEF Loaders, First
  <2>2. AtOK'
    <3> DEFINE s == [data |-> TRUE, throttle |-> FALSE]
    <3>1. s \in Sends /\ "attach" \in SpiPc /\ "reset" \in SpiPc
      BY DEF Sends, SpiPc
    <3>2. \/ at' = [at EXCEPT ![t].pc = "attach", ![t].sends = s]
          \/ Go(t, "reset")
      BY <1>5 DEF NextBuffer, Holds
    <3> HIDE DEF s
    <3>3. at' = [at EXCEPT ![t].pc = "attach", ![t].sends = s] => AtOK'
      BY <1>0, <2>1, <3>1, MovesType
    <3>4. Go(t, "reset") => AtOK'
      BY <1>0, <2>1, <3>1, MovesType
    <3> QED
      BY <3>2, <3>3, <3>4
  <2>3. LineOK'
    <3>1. CASE spi.sem > 0 /\ spi.q[p] > 0
      <4>1. spi.sem - 1 \in 0 .. 3 * TxQ /\ spi.q[p] - 1 \in 0 .. TxQ
        BY <1>a, <1>e, <2>1, <3>1
      <4>2. spi' = [spi EXCEPT !.sem = spi.sem - 1, !.q = [spi.q EXCEPT ![p] = spi.q[p] - 1]]
        BY <1>5, <3>1, <1>b DEF NextBuffer, LineOK
      <4> HIDE DEF p
      <4>3. [spi.q EXCEPT ![p] = spi.q[p] - 1] \in [Prio -> 0 .. TxQ]
        BY <1>b, <4>1, <2>1 DEF LineOK
      <4> DEFINE q == [spi.q EXCEPT ![p] = spi.q[p] - 1]
                 n == spi.sem - 1
      <4> HIDE DEF q, n
      <4>4. spi' = [[spi EXCEPT !.sem = n] EXCEPT !.q = q] /\ n \in 0 .. 3 * TxQ
            /\ q \in [Prio -> 0 .. TxQ]
        BY <4>1, <4>2, <4>3 DEF q, n
      <4>5. [spi EXCEPT !.sem = n] \in [dr: BOOLEAN, flag: BOOLEAN, latch: BOOLEAN,
                                        q: [Prio -> 0 .. TxQ], sem: 0 .. 3 * TxQ]
        BY <1>b, <4>4 DEF LineOK
      <4> QED
        BY <4>4, <4>5 DEF LineOK
    <3>2. CASE ~(spi.sem > 0 /\ spi.q[p] > 0)
      <4> DEFINE n == IF spi.sem > 0 THEN spi.sem - 1 ELSE 0
      <4>1. n \in 0 .. 3 * TxQ
        BY <1>e
      <4>2. spi' = [spi EXCEPT !.sem = n]
        BY <1>5, <3>2 DEF NextBuffer
      <4> HIDE DEF n
      <4> QED
        BY <1>b, <4>1, <4>2 DEF LineOK
    <3> QED
      BY <3>1, <3>2
  <2> QED
    BY <1>0, <1>5, <2>2, <2>3, TypesFrame, TypePartsNext, SpiFrame, SpiParts DEF NextBuffer
<1>6. ASSUME NEW t \in Loaders, ResetDataReady(t) \/ ResetDataReadyFlag(t)
      PROVE  BusTypeOK'
  <2>1. t \in SpiTasks /\ AtOK'
    BY <1>0, <1>6, MovesType DEF ResetDataReady, ResetDataReadyFlag, Loaders, SpiPc
  <2>2. LineOK'
    BY <1>6, <1>b DEF ResetDataReady, ResetDataReadyFlag, LineOK
  <2>3. /\ UNCHANGED <<pool, rx, prod, rd, thr, count, up, dead, flight, done>>
        /\ busHarm' \subseteq Harms
    BY <1>0, <1>6, HarmKept DEF ResetDataReady, ResetDataReadyFlag, Harms
  <2> QED
    BY <1>0, <1>b, <2>1, <2>2, <2>3, TypesFrame, TypePartsNext, SpiFrame, SpiParts DEF FlagsOK
<1>7. ASSUME NEW t \in Loaders, NextDummy(t)
      PROVE  BusTypeOK'
  <2>1. t \in SpiTasks
    BY DEF Loaders
  <2>2. AtOK'
    <3>1. /\ [data |-> FALSE, throttle |-> SpiThrottle] \in Sends
          /\ "attach" \in SpiPc /\ "finish" \in SpiPc /\ "idle" \in SpiPc
      BY <1>d DEF Sends, SpiPc
    <3>2. \/ at' = [at EXCEPT ![t].pc = "attach",
                              ![t].sends = [data |-> FALSE, throttle |-> SpiThrottle]]
          \/ Go(t, IF t = "post" THEN "finish" ELSE "idle")
      BY <1>7 DEF NextDummy, Holds
    <3> QED
      BY <1>0, <2>1, <3>1, <3>2, MovesType
  <2>3. PoolOK'
    BY <1>0, <1>7, TakesType, TypesFrame DEF NextDummy
  <2>4. ThrOK'
    BY <1>7, <1>b, <1>d DEF NextDummy, ThrOK
  <2>5. FlagsOK'
    BY <1>0, <1>7, <1>b, HarmKept DEF NextDummy, FlagsOK, Harms
  <2> QED
    BY <1>0, <1>7, <2>2, <2>3, <2>4, <2>5, TypesFrame, TypePartsNext, SpiFrame, SpiParts
       DEF NextDummy
<1>8. ASSUME NEW t \in Loaders, Attach(t)
      PROVE  BusTypeOK'
  <2>1. t \in SpiTasks /\ AtOK'
    BY <1>0, <1>8, MovesType DEF Attach, Loaders, SpiPc
  <2>2. PoolOK'
    BY <1>0, <1>8, TakesType DEF Attach
  <2>3. LoadOK'
    <3>1. at[t].sends \in Sends /\ Len(flight) + Len(done) < InFlight
      BY <1>8, <1>b, <2>1 DEF Attach, AtOK
    <3>2. done' = done /\ (flight' = flight \/ flight' = Append(flight, at[t].sends))
      BY <1>8 DEF Attach
    <3> QED
      BY <1>a, <1>b, <3>1, <3>2 DEF LoadOK
  <2>4. FlagsOK'
    BY <1>0, <1>8, <1>b DEF Attach, FlagsOK
  <2> QED
    BY <1>0, <1>8, <2>1, <2>2, <2>3, <2>4, TypesFrame, TypePartsNext, SpiFrame, SpiParts DEF Attach
<1>9. CASE PostResult
  <2>1. AtOK'
    BY <1>0, <1>9, MovesType DEF PostResult, SpiPc
  <2>2. ProdOK' /\ LoadOK'
    BY <1>9, <1>a, <1>b DEF PostResult, ProdOK, LoadOK
  <2> QED
    BY <1>0, <1>9, <2>1, <2>2, TypesFrame, TypePartsNext, SpiFrame, SpiParts DEF PostResult
<1>10. CASE PostFinish
  <2>1. AtOK' /\ ProdOK'
    BY <1>0, <1>10, <1>b, MovesType DEF PostFinish, SpiPc, ProdOK, ProdTo
  <2>2. PoolOK'
    BY <1>0, <1>10, <1>a, <1>b, Room DEF PostFinish, Finished, PoolOK
  <2> QED
    BY <1>0, <1>10, <2>1, <2>2, TypesFrame, TypePartsNext, SpiFrame, SpiParts DEF PostFinish
<1>11. CASE HostClocks
  <2>1. CountOK'
    BY <1>0, <1>11, CountedType, TypesFrame DEF HostClocks
  <2>2. Head(flight) \in Sends /\ flight # <<>>
    BY <1>11, <1>b DEF HostClocks, LoadOK
  <2>3. ThrOK'
    BY <1>11, <1>b, <2>2 DEF HostClocks, ThrOK, Sends
  <2>4. LineOK'
    <3> DEFINE l == spi.latch /\ ~Head(flight).data
    <3>1. l \in BOOLEAN /\ spi' = [spi EXCEPT !.latch = l]
      BY <1>11 DEF HostClocks
    <3> HIDE DEF l
    <3> QED
      BY <1>b, <3>1 DEF LineOK
  <2>5. LoadOK'
    <3>1. PICK p \in FromHost \union {"none"} : done' = Append(done, p)
      BY <1>11 DEF HostClocks
    <3>2. p \in Packet \union {"none"} /\ flight' = Tail(flight)
      BY <1>11, BusAssumption DEF HostClocks
    <3> QED
      BY <1>a, <1>b, <2>2, <3>1, <3>2 DEF LoadOK
  <2> QED
    BY <1>0, <1>11, <2>1, <2>2, <2>3, <2>4, <2>5, TypesFrame, TypePartsNext, SpiFrame, SpiParts
       DEF HostClocks
<1>12. CASE SpiReload
  <2>1. CountOK'
    BY <1>0, <1>12, CountedType, TypesFrame DEF SpiReload
  <2>2. FlagsOK'
    BY <1>0, <1>12, <1>b DEF SpiReload, FlagsOK
  <2> QED
    BY <1>0, <1>12, <2>1, <2>2, TypesFrame, TypePartsNext, SpiFrame, SpiParts DEF SpiReload
<1> QED
  BY <1>1, <1>2, <1>3, <1>4, <1>5, <1>6, <1>7, <1>8, <1>9, <1>10, <1>11, <1>12
     DEF SpiStep, RaiseStep, LoadStep

-----------------------------------------------------------------------------
(* The other buses: their blocks and places.                               *)

(* What the drivers with places hold.                                      *)
LEMMA SlotRecord ==
  ASSUME BusTypeOK
  PROVE  /\ slots \in Nat /\ fin \in Nat /\ dma \in Seq(Said) /\ Len(dma) \in Nat
         /\ td \in {"idle", "first", "second", "gone"}
         /\ wr \in [Writers -> [pc: WrPc, says: Said, block: BOOLEAN, slot: BOOLEAN]]
         /\ link \in [dr: BOOLEAN, loaded: BOOLEAN, ready: 0 .. 1]
         /\ unload \in [at: {"no", "deleted", "stopped", "reset"}, tries: 0 .. Reclaim]
         /\ pool \in [tx: Nat, rx: Nat] /\ pool.tx \in Nat /\ pool.rx \in Nat
         /\ TxQ \in Nat /\ TxBlocks \in Nat /\ bus \in Bus
<1>1. TxQ \in Nat /\ TxBlocks \in Nat /\ RxQ \in Nat /\ bus \in Bus
  BY Constants
<1>2. PoolOK /\ SlotTypeOK
  BY TypeParts
<1>3. pool \in [tx: Nat, rx: Nat]
  BY <1>1, <1>2 DEF PoolOK
<1>4. slots \in Nat /\ fin \in Nat /\ dma \in Seq(Said)
  BY <1>1, <1>2 DEF SlotTypeOK
<1> QED
  BY <1>1, <1>2, <1>3, <1>4 DEF SlotTypeOK

BlockHeld == IF td = "first" \/ (td = "second" /\ bus # "spi_hd") THEN 1 ELSE 0
SlotHeld == IF td = "first" \/ (td = "second" /\ bus = "spi_hd") THEN 1 ELSE 0
Writer(pc, says, block, slot) == [pc |-> pc, says |-> says, block |-> block, slot |-> slot]
Unaccounted == {"tx_killed", "overfull", "late"}

(* What a writer's step leaves of the writers.                             *)
LEMMA OneWriter ==
  ASSUME BusTypeOK, NEW w \in Writers, WriteStep(w)
  PROVE  /\ \A u \in Writers \ {w} : wr'[u] = wr[u]
         /\ UNCHANGED <<bus, rx, prod, rd, fin, td, link, unload>>
         /\ wr' \in [Writers -> [pc: WrPc, says: Said, block: BOOLEAN, slot: BOOLEAN]]
<1>1. wr \in [Writers -> [pc: WrPc, says: Said, block: BOOLEAN, slot: BOOLEAN]]
  BY SlotRecord
<1>2. UNCHANGED <<bus, rx, prod, rd, fin, td, link, unload>>
  BY DEF WriteStep, WriteBegins, TakeSlot, TakeBlock, SlotPut, PutFails, UartPut
<1> DEFINE R == [pc: WrPc, says: Said, block: BOOLEAN, slot: BOOLEAN]
<1>3. ASSUME NEW r \in R, wr' = [wr EXCEPT ![w] = r]
      PROVE  wr' \in [Writers -> R] /\ \A u \in Writers \ {w} : wr'[u] = wr[u]
  BY <1>1, <1>3
<1>4. wr[w] \in R
  BY <1>1
<1>5. ASSUME NEW pc \in WrPc
      PROVE  [wr[w] EXCEPT !.pc = pc] \in R
  BY <1>4, <1>5
<1>6. Resting \in R
  BY DEF Resting, WrPc
<1>7. CASE WriteBegins(w)
  <2> DEFINE pc == IF bus = "spi_hd" THEN "slot" ELSE "alloc"
             says == IF w # "flow" THEN "none" ELSE IF thr.flow THEN "on" ELSE "off"
             r == [wr[w] EXCEPT !.pc = pc]
  <2>1. pc \in WrPc /\ says \in Said
    BY DEF WrPc
  <2>2. wr' = [wr EXCEPT ![w] = [[wr[w] EXCEPT !.pc = pc] EXCEPT !.says = says]]
    BY <1>1, <1>7 DEF WriteBegins
  <2> HIDE DEF pc, says
  <2>3. r \in R
    BY <1>5, <2>1
  <2> HIDE DEF r
  <2>4. [r EXCEPT !.says = says] \in R
    BY <2>1, <2>3
  <2> QED
    BY <1>2, <1>3, <2>2, <2>4 DEF r
<1>8. CASE TakeSlot(w) \/ (TakeBlock(w) /\ pool.tx > 0)
  <2> DEFINE pc == IF TakeSlot(w) THEN (IF bus = "spi_hd" THEN "alloc" ELSE "put")
                   ELSE (IF bus = "sdio" THEN "slot" ELSE "put")
             r == [wr[w] EXCEPT !.pc = pc]
  <2>1. pc \in WrPc
    BY DEF WrPc
  <2>2. r \in R
    BY <1>5, <2>1
  <2>3. \/ wr' = [wr EXCEPT ![w] = [[wr[w] EXCEPT !.pc = pc] EXCEPT !.slot = TRUE]]
        \/ wr' = [wr EXCEPT ![w] = [[wr[w] EXCEPT !.pc = pc] EXCEPT !.block = TRUE]]
    BY <1>1, <1>8 DEF TakeSlot, TakeBlock
  <2> HIDE DEF pc, r
  <2>4. [r EXCEPT !.slot = TRUE] \in R /\ [r EXCEPT !.block = TRUE] \in R
    BY <2>2
  <2> QED
    BY <1>2, <1>3, <2>3, <2>4 DEF r
<1>9. CASE (TakeBlock(w) /\ ~(pool.tx > 0)) \/ SlotPut(w) \/ PutFails(w) \/ UartPut(w)
  <2>1. wr' = [wr EXCEPT ![w] = Resting]
    BY <1>9 DEF TakeBlock, SlotPut, PutFails, UartPut
  <2> QED
    BY <1>2, <1>3, <1>6, <2>1
<1> QED
  BY <1>7, <1>8, <1>9 DEF WriteStep

(* The two sums, with the terms named.                                     *)
LEMMA Sums ==
  /\ BlocksThere = pool.tx + HoldsOf("block") + Len(dma) + fin + BlockHeld
  /\ PlacesThere = slots + HoldsOf("slot") + Len(dma) + fin + SlotHeld
  /\ BlocksThere' = pool'.tx + HoldsOf("block")' + Len(dma') + fin' + BlockHeld'
  /\ PlacesThere' = slots' + HoldsOf("slot")' + Len(dma') + fin' + SlotHeld'
  /\ BlockHeld \in {0, 1} /\ SlotHeld \in {0, 1}
  /\ BlockHeld' \in {0, 1} /\ SlotHeld' \in {0, 1}
  BY DEF BlocksThere, PlacesThere, BlockHeld, SlotHeld

(* The sums are numbers.                                                   *)
LEMMA SumTypes ==
  ASSUME BusTypeOK
  PROVE  BlocksThere \in Nat /\ PlacesThere \in Nat
<1> DEFINE hb == HoldsOf("block")
           hs == HoldsOf("slot")
           n == Len(dma)
<1>1. /\ slots \in Nat /\ fin \in Nat /\ n \in Nat /\ pool.tx \in Nat
      /\ hb \in Nat /\ hs \in Nat
  BY SlotRecord, FiniteTasks
<1>2. /\ BlocksThere = pool.tx + hb + n + fin + BlockHeld
      /\ PlacesThere = slots + hs + n + fin + SlotHeld
      /\ BlockHeld \in Nat /\ SlotHeld \in Nat
  BY Sums
<1> HIDE DEF hb, hs, n
<1> QED
  BY <1>1, <1>2

(* What is left of a sum.                                                  *)
LEMMA Less ==
  ASSUME NEW a \in Nat, NEW b \in Nat, NEW d \in Nat, a + d = b, NEW m \in Nat
  PROVE  (b <= m => a <= m) /\ (d = 0 => a = b)
  OBVIOUS

(* A step that loses nothing, or names what it loses, keeps the accounts.  *)
LEMMA AccountsKept ==
  ASSUME BusInv, ~dead, bus # "spi", UNCHANGED bus, NEW d \in Nat, NEW k \in Nat,
         BlocksThere' \in Nat, PlacesThere' \in Nat,
         BlocksThere' + d = BlocksThere, PlacesThere' + k = PlacesThere,
         busHarm \subseteq busHarm',
         busHarm' \intersect Unaccounted = {} =>
           /\ bus # "uart" => d = 0
           /\ "kept" \notin busHarm' => k = 0,
         bus = "spi_hd" => d = 0,
         bus = "uart" /\ ~dead' => Startups \in Int /\ Startups' = Startups + d
  PROVE  NothingTwice' /\ NothingLost' /\ SpiHdBlocks'
<1>1. /\ BlocksThere \in Nat /\ PlacesThere \in Nat /\ TxBlocks' = TxBlocks /\ TxBlocks \in Nat
      /\ TxQ \in Nat
  BY SumTypes, Constants DEF BusInv, TxBlocks
<1>2. BlocksThere <= TxBlocks /\ PlacesThere <= TxQ
  BY DEF BusInv, NothingTwice
<1>a. /\ BlocksThere' <= TxBlocks /\ PlacesThere' <= TxQ
      /\ d = 0 => BlocksThere' = BlocksThere
      /\ k = 0 => PlacesThere' = PlacesThere
  <2>1. /\ BlocksThere' <= TxBlocks
        /\ d = 0 => BlocksThere' = BlocksThere
    BY <1>1, <1>2, Less
  <2>2. /\ PlacesThere' <= TxQ
        /\ k = 0 => PlacesThere' = PlacesThere
    BY <1>1, <1>2, Less
  <2> QED
    BY <2>1, <2>2
<1>3. NothingTwice'
  BY <1>1, <1>a, Zenon DEF NothingTwice
<1>4. SpiHdBlocks'
  <2>1. bus = "spi_hd" => BlocksThere = TxBlocks /\ d = 0
    BY DEF BusInv, SpiHdBlocks
  <2> QED
    BY <1>1, <1>a, <2>1, Zenon DEF SpiHdBlocks
<1>5. ASSUME ~dead', busHarm' \intersect Unaccounted = {}
      PROVE  /\ BlocksThere' = TxBlocks' - (IF bus' = "uart" THEN Startups' ELSE 0)
             /\ "kept" \notin busHarm' => PlacesThere' = TxQ
  <2>1. busHarm \intersect Unaccounted = {}
    BY <1>5
  <2>2. /\ BlocksThere = TxBlocks - (IF bus = "uart" THEN Startups ELSE 0)
        /\ "kept" \notin busHarm => PlacesThere = TxQ
    BY <2>1 DEF BusInv, NothingLost, Unaccounted
  <2>3. "kept" \notin busHarm' => PlacesThere' = TxQ
    <3>1. "kept" \notin busHarm' => "kept" \notin busHarm
      OBVIOUS
    <3> QED
      BY <1>a, <1>5, <2>2, <3>1, Zenon
  <2>4. CASE bus = "uart"
    <3> DEFINE b == BlocksThere
               b2 == BlocksThere'
               u == Startups
               u2 == Startups'
    <3>1. /\ u \in Int /\ u2 = u + d /\ b = TxBlocks - u /\ b2 + d = b /\ b2 \in Nat
          /\ b \in Nat
      BY <1>1, <1>5, <2>2, <2>4
    <3> HIDE DEF b, b2, u, u2
    <3>2. b2 = TxBlocks - u2
      BY <1>1, <3>1
    <3> QED
      BY <1>1, <2>3, <2>4, <3>2 DEF b2, u2
  <2>5. CASE bus # "uart"
    <3>1. BlocksThere' = BlocksThere /\ BlocksThere = TxBlocks - 0 /\ TxBlocks - 0 = TxBlocks
      BY <1>1, <1>a, <1>5, <2>2, <2>5
    <3> QED
      BY <1>1, <2>3, <2>5, <3>1, Zenon
  <2> QED
    BY <2>4, <2>5
<1>6. NothingLost'
  BY <1>5 DEF NothingLost, Unaccounted
<1> QED
  BY <1>3, <1>4, <1>6

(* SPI_HD: who has a place finds a block.                                  *)
LEMMA BlockIsThere ==
  ASSUME BusInv
  PROVE  PlaceMeansBlock
<1>1. SUFFICES ASSUME bus = "spi_hd", NEW w \in Writers, wr[w].pc = "alloc"
               PROVE  pool.tx > 0
  BY DEF PlaceMeansBlock
<1>0. BusTypeOK /\ SlotShape /\ NothingTwice /\ SpiHdBlocks /\ TxBlocks = TxQ
  BY <1>1 DEF BusInv, TxBlocks
<1> DEFINE With(field) == {u \in Writers : wr[u][field]}
           x == pool.tx
           n == Len(dma)
           hb == HoldsOf("block")
           hs == HoldsOf("slot")
<1>2. hb \in Nat /\ hs \in Nat /\ hb + 1 <= hs
  <2>1. /\ w \notin With("block") /\ With("block") \union {w} \subseteq With("slot")
        /\ With("block") \subseteq Writers /\ With("slot") \subseteq Writers
    BY <1>0, <1>1 DEF SlotShape, WriterShape
  <2>2. hb = Cardinality(With("block")) /\ hs = Cardinality(With("slot"))
    BY DEF HoldsOf
  <2> HIDE DEF With, hb, hs
  <2>3. IsFiniteSet(With("block")) /\ IsFiniteSet(With("slot"))
    BY <2>1, FiniteTasks, FS_Subset
  <2>4. Cardinality(With("block") \union {w}) = Cardinality(With("block")) + 1
    BY <2>1, <2>3, FS_AddElement
  <2>5. Cardinality(With("block") \union {w}) <= Cardinality(With("slot"))
    BY <2>1, <2>3, FS_Subset
  <2> QED
    BY <2>2, <2>3, <2>4, <2>5, FS_CardinalityType
<1>3. x \in Nat /\ n \in Nat /\ fin \in Nat /\ slots \in Nat /\ TxQ \in Nat
  BY <1>0, <1>1, SlotRecord
<1>4. /\ x + hb + n + fin + BlockHeld = TxQ
      /\ slots + hs + n + fin + SlotHeld <= TxQ
  BY <1>0, <1>1, Sums DEF NothingTwice, SpiHdBlocks
<1>5. BlockHeld \in Nat /\ SlotHeld \in Nat /\ BlockHeld <= SlotHeld
  BY <1>1 DEF BlockHeld, SlotHeld
<1> HIDE DEF x, n, hb, hs
<1>6. x > 0
  BY <1>2, <1>3, <1>4, <1>5
<1> QED
  BY <1>6 DEF x

(* What UART's startup events have taken follows the one that takes it.    *)
LEMMA StartupsFollow ==
  ASSUME BusInv, ~dead, ~dead', bus = "uart", NEW w \in Writers, WriteStep(w)
  PROVE  /\ Startups \in Int
         /\ Startups' = Startups + (IF w = "start" /\ wr[w].pc = "put" THEN 1 ELSE 0)
<1>0. /\ BusTypeOK /\ WriterShape(w) /\ count.start \in Nat
      /\ count \in [send: 0 .. MaxToHost, host: 0 .. MaxFromHost, start: 0 .. MaxStart,
                    break: 0 .. MaxBreak]
      /\ wr \in [Writers -> [pc: WrPc, says: Said, block: BOOLEAN, slot: BOOLEAN]]
  <2>1. BusTypeOK
    BY DEF BusInv
  <2>2. CountOK /\ MaxStart \in Nat
    BY <2>1, TypeParts, BusAssumption
  <2> QED
    BY <2>1, <2>2, SlotRecord DEF CountOK, BusInv, SlotShape
<1>1. Startups \in Int
  BY <1>0 DEF Startups
<1>2. CASE w # "start"
  <2>1. wr'["start"] = wr["start"]
    BY <1>0, <1>2, OneWriter
  <2>2. count'.start = count.start
    <3>1. UNCHANGED count \/ May("send", MaxToHost) \/ May("break", MaxBreak)
      BY <1>2 DEF WriteStep, WriteBegins, TakeSlot, TakeBlock, SlotPut, PutFails, UartPut,
                  MaySend
    <3> QED
      BY <1>0, <3>1 DEF May
  <2> QED
    BY <1>1, <1>2, <2>1, <2>2 DEF Startups
<1>3. CASE w = "start" /\ WriteBegins(w)
  <2>1. /\ wr[w].pc = "idle" /\ wr'[w].pc = "alloc"
    BY <1>0, <1>3 DEF WriteBegins
  <2>2. count'.start = count.start + 1
    BY <1>0, <1>3 DEF WriteBegins, MayStart, May
  <2> QED
    BY <1>0, <1>3, <2>1, <2>2 DEF Startups
<1>4. CASE w = "start" /\ ~WriteBegins(w)
  <2>1. count' = count
    BY <1>0, <1>4 DEF WriteStep, TakeSlot, TakeBlock, SlotPut, PutFails, UartPut
  <2>2. \/ wr[w].pc = "alloc" /\ wr'[w].pc = "put"
        \/ wr[w].pc = "put" /\ wr'[w].pc = "idle"
    <3>1. wr[w].pc # "slot"
      BY <1>0 DEF WriterShape
    <3>2. TakeBlock(w) \/ UartPut(w)
      BY <1>4, <3>1 DEF WriteStep, TakeSlot, SlotPut, PutFails
    <3>3. CASE TakeBlock(w)
      <4>1. pool.tx > 0
        BY <1>4, <3>3 DEF TakeBlock
      <4>2. wr' = [wr EXCEPT ![w].block = TRUE, ![w].pc = "put"]
        BY <3>3, <4>1 DEF TakeBlock
      <4> QED
        BY <1>0, <3>3, <4>2 DEF TakeBlock
    <3>4. CASE UartPut(w)
      <4>1. wr' = [wr EXCEPT ![w] = Resting] /\ wr[w].pc = "put"
        BY <3>4 DEF UartPut
      <4> QED
        BY <1>0, <4>1 DEF Resting
    <3> QED
      BY <3>2, <3>3, <3>4
  <2> QED
    BY <1>0, <1>4, <2>1, <2>2 DEF Startups
<1> QED
  BY <1>2, <1>3, <1>4

(* What a writer holds follows it.                                         *)
LEMMA WriterMoves ==
  ASSUME BusInv, ~dead, bus # "spi", NEW w \in Writers, WriteStep(w)
  PROVE  /\ NothingTwice' /\ NothingLost' /\ SpiHdBlocks'
         /\ slots' \in Nat /\ dma' \in Seq(Said) /\ pool' \in [tx: Nat, rx: Nat]
         /\ HoldsOf("block")' \in Nat /\ HoldsOf("slot")' \in Nat
<1> DEFINE b == IF wr[w].block THEN 1 ELSE 0
           b2 == IF wr'[w].block THEN 1 ELSE 0
           s == IF wr[w].slot THEN 1 ELSE 0
           s2 == IF wr'[w].slot THEN 1 ELSE 0
           n == Len(dma)
           n2 == Len(dma')
           d == IF bus = "uart" /\ w = "start" /\ wr[w].pc = "put" THEN 1 ELSE 0
<1>0. BusTypeOK /\ WriterShape(w) /\ PlaceMeansBlock
  BY BlockIsThere DEF BusInv, SlotShape
<1>1. /\ UNCHANGED <<bus, fin, td, link>> /\ TxBlocks' = TxBlocks
      /\ UNCHANGED <<BlockHeld, SlotHeld>>
      /\ wr \in [Writers -> [pc: WrPc, says: Said, block: BOOLEAN, slot: BOOLEAN]]
      /\ wr' \in [Writers -> [pc: WrPc, says: Said, block: BOOLEAN, slot: BOOLEAN]]
  BY <1>0, OneWriter, SlotRecord DEF TxBlocks, BlockHeld, SlotHeld
<1>2. /\ HoldsOf("block") \in Nat /\ HoldsOf("block")' \in Nat
      /\ HoldsOf("block")' + b = HoldsOf("block") + b2
      /\ HoldsOf("slot") \in Nat /\ HoldsOf("slot")' \in Nat
      /\ HoldsOf("slot")' + s = HoldsOf("slot") + s2
  BY <1>0, OneWriter, RecountedWriter
<1>3. /\ slots \in Nat /\ fin \in Nat /\ n \in Nat /\ pool.tx \in Nat /\ dma \in Seq(Said)
      /\ pool \in [tx: Nat, rx: Nat]
  BY <1>0, SlotRecord
<1>5. \E k \in {0, 1} :
        /\ dma' \in Seq(Said) /\ pool' \in [tx: Nat, rx: Nat] /\ slots' \in Nat /\ n2 \in Nat
        /\ pool'.tx + b2 + n2 + d = pool.tx + b + n
        /\ slots' + s2 + n2 + k = slots + s + n
        /\ k = 1 => "kept" \in busHarm'
  <2>1. CASE WriteBegins(w)
    <3>1. wr'[w].block = wr[w].block /\ wr'[w].slot = wr[w].slot /\ d = 0
      BY <1>1, <2>1 DEF WriteBegins
    <3>2. b2 = b /\ s2 = s /\ n2 = n /\ dma' = dma /\ pool' = pool /\ slots' = slots
      BY <2>1, <3>1 DEF WriteBegins
    <3>3. b \in Nat /\ s \in Nat
      OBVIOUS
    <3> HIDE DEF b, b2, s, s2, n, n2, d
    <3> WITNESS 0 \in {0, 1}
    <3> QED
      BY <1>3, <3>1, <3>2, <3>3
  <2>2. CASE TakeSlot(w)
    <3>1. b2 = b /\ s = 0 /\ s2 = 1 /\ d = 0 /\ b \in Nat
      BY <1>0, <1>1, <2>2 DEF TakeSlot, WriterShape
    <3>2. pool' = pool /\ dma' = dma /\ n2 = n /\ slots' = slots - 1 /\ slots > 0
      BY <2>2 DEF TakeSlot
    <3> HIDE DEF b, b2, s, s2, n, n2, d
    <3> WITNESS 0 \in {0, 1}
    <3> QED
      BY <1>3, <3>1, <3>2
  <2>3. CASE TakeBlock(w) /\ pool.tx > 0
    <3>1. s2 = s /\ b = 0 /\ b2 = 1 /\ d = 0 /\ s \in Nat
      BY <1>0, <1>1, <2>3 DEF TakeBlock, WriterShape
    <3>2. slots' = slots /\ dma' = dma /\ n2 = n /\ pool' = [pool EXCEPT !.tx = pool.tx - 1]
      BY <2>3 DEF TakeBlock
    <3>3. pool' \in [tx: Nat, rx: Nat] /\ pool'.tx = pool.tx - 1
      BY <1>3, <2>3, <3>2
    <3> HIDE DEF b, b2, s, s2, n, n2, d
    <3> WITNESS 0 \in {0, 1}
    <3> QED
      BY <1>3, <2>3, <3>1, <3>2, <3>3
  <2>4. CASE TakeBlock(w) /\ ~(pool.tx > 0)
    <3>0. bus # "spi_hd"
      BY <1>0, <2>4 DEF PlaceMeansBlock, TakeBlock
    <3>1. b = 0 /\ b2 = 0 /\ s = 0 /\ s2 = 0 /\ d = 0
      BY <1>0, <1>1, <2>4, <3>0 DEF TakeBlock, WriterShape, Resting
    <3>2. slots' = slots /\ dma' = dma /\ n2 = n /\ pool' = pool
      BY <2>4 DEF TakeBlock
    <3> HIDE DEF b, b2, s, s2, n, n2, d
    <3> WITNESS 0 \in {0, 1}
    <3> QED
      BY <1>3, <3>1, <3>2
  <2>5. CASE SlotPut(w)
    <3>1. b = 1 /\ b2 = 0 /\ s = 1 /\ s2 = 0 /\ d = 0
      BY <1>0, <1>1, <2>5 DEF SlotPut, WriterShape, Resting
    <3>2. slots' = slots /\ pool' = pool /\ dma' = Append(dma, wr[w].says) /\ wr[w].says \in Said
      BY <1>1, <2>5 DEF SlotPut
    <3>3. dma' \in Seq(Said) /\ n2 = n + 1
      BY <1>3, <3>2
    <3> HIDE DEF b, b2, s, s2, n, n2, d
    <3> WITNESS 0 \in {0, 1}
    <3>4. /\ pool'.tx + b2 + n2 + d = pool.tx + b + n
          /\ slots' + s2 + n2 + 0 = slots + s + n
          /\ n2 \in Nat
      BY <1>3, <3>1, <3>2, <3>3, SMTT(60)
    <3> QED
      BY <1>3, <3>2, <3>3, <3>4
  <2>6. CASE PutFails(w)
    <3>1. b = 1 /\ b2 = 0 /\ s = 1 /\ s2 = 0 /\ d = 0
      BY <1>0, <1>1, <2>6 DEF PutFails, WriterShape, Resting
    <3>2. /\ dma' = dma /\ n2 = n /\ pool' = [pool EXCEPT !.tx = pool.tx + 1]
          /\ \/ slots' = slots + 1
             \/ slots' = slots /\ "kept" \in busHarm'
      BY <1>0, <2>6, SlotRecord DEF PutFails, FailureGives, Bus
    <3>3. pool' \in [tx: Nat, rx: Nat] /\ pool'.tx = pool.tx + 1
      BY <1>3, <3>2
    <3> HIDE DEF b, b2, s, s2, n, n2, d
    <3>4. CASE slots' = slots + 1
      <4> WITNESS 0 \in {0, 1}
      <4> QED
        BY <1>3, <3>1, <3>2, <3>3, <3>4
    <3>5. CASE slots' = slots /\ "kept" \in busHarm'
      <4> WITNESS 1 \in {0, 1}
      <4> QED
        BY <1>3, <3>1, <3>2, <3>3, <3>5
    <3> QED
      BY <3>2, <3>4, <3>5
  <2>7. CASE UartPut(w)
    <3>1. b = 1 /\ b2 = 0 /\ s = 0 /\ s2 = 0
      BY <1>0, <1>1, <2>7 DEF UartPut, WriterShape, Resting
    <3>2. /\ slots' = slots /\ dma' = dma /\ n2 = n
          /\ \/ pool' = [pool EXCEPT !.tx = pool.tx + 1] /\ d = 0
             \/ pool' = pool /\ d = 1
      BY <2>7 DEF UartPut
    <3>3. /\ pool' \in [tx: Nat, rx: Nat]
          /\ \/ pool'.tx = pool.tx + 1 /\ d = 0
             \/ pool'.tx = pool.tx /\ d = 1
      BY <1>3, <3>2
    <3> HIDE DEF b, b2, s, s2, n, n2, d
    <3> WITNESS 0 \in {0, 1}
    <3> QED
      BY <1>3, <3>1, <3>2, <3>3
  <2> QED
    BY <2>1, <2>2, <2>3, <2>4, <2>5, <2>6, <2>7 DEF WriteStep
<1>6. PICK k \in {0, 1} :
        /\ dma' \in Seq(Said) /\ pool' \in [tx: Nat, rx: Nat] /\ slots' \in Nat /\ n2 \in Nat
        /\ pool'.tx + b2 + n2 + d = pool.tx + b + n
        /\ slots' + s2 + n2 + k = slots + s + n
        /\ k = 1 => "kept" \in busHarm'
  BY <1>5
<1>7. /\ BlocksThere' \in Nat /\ PlacesThere' \in Nat
      /\ BlocksThere' + d = BlocksThere /\ PlacesThere' + k = PlacesThere
  <2> DEFINE hb == HoldsOf("block")
             hb2 == HoldsOf("block")'
             hs == HoldsOf("slot")
             hs2 == HoldsOf("slot")'
             x == pool.tx
             x2 == pool'.tx
             y == slots
             y2 == slots'
  <2>1. /\ hb \in Nat /\ hb2 \in Nat /\ hb2 + b = hb + b2
        /\ hs \in Nat /\ hs2 \in Nat /\ hs2 + s = hs + s2
        /\ BlocksThere = x + hb + n + fin + BlockHeld
        /\ PlacesThere = y + hs + n + fin + SlotHeld
        /\ BlocksThere' = x2 + hb2 + n2 + fin + BlockHeld
        /\ PlacesThere' = y2 + hs2 + n2 + fin + SlotHeld
        /\ x2 + b2 + n2 + d = x + b + n
        /\ y2 + s2 + n2 + k = y + s + n
    BY <1>1, <1>2, <1>6, Sums
  <2>2. /\ x \in Nat /\ x2 \in Nat /\ n \in Nat /\ n2 \in Nat /\ y \in Nat /\ y2 \in Nat
        /\ fin \in Nat /\ b \in Nat /\ b2 \in Nat /\ s \in Nat /\ s2 \in Nat
        /\ BlockHeld \in Nat /\ SlotHeld \in Nat /\ d \in Nat /\ k \in Nat
    <3>1. b \in Nat /\ b2 \in Nat /\ s \in Nat /\ s2 \in Nat /\ d \in Nat /\ k \in Nat
      OBVIOUS
    <3>2. BlockHeld \in Nat /\ SlotHeld \in Nat
      BY Sums
    <3>3. pool'.tx \in Nat
      BY <1>6
    <3> HIDE DEF b, b2, s, s2, n, n2, d
    <3> QED
      BY <1>3, <1>6, <3>1, <3>2, <3>3
  <2> HIDE DEF b, b2, s, s2, n, n2, d, hb, hb2, hs, hs2, x, x2, y, y2
  <2>3. BlocksThere' \in Nat /\ BlocksThere' + d = BlocksThere
    BY <2>1, <2>2
  <2>4. PlacesThere' \in Nat /\ PlacesThere' + k = PlacesThere
    BY <2>1, <2>2
  <2> QED
    BY <2>3, <2>4
<1>8. busHarm \subseteq busHarm'
  BY DEF WriteStep, WriteBegins, TakeSlot, TakeBlock, SlotPut, PutFails, UartPut, BusHarm
<1>9. bus = "uart" /\ ~dead' => Startups \in Int /\ Startups' = Startups + d
  BY StartupsFollow
<1>10. (bus # "uart" => d = 0) /\ d \in Nat /\ k \in Nat /\ ("kept" \notin busHarm' => k = 0)
  BY <1>6
<1> HIDE DEF d
<1>11. NothingTwice' /\ NothingLost' /\ SpiHdBlocks'
  BY <1>1, <1>7, <1>8, <1>9, <1>10, AccountsKept
<1> QED
  BY <1>2, <1>6, <1>11

OtherSlotStep ==
  \/ TxLoads \/ HostReads \/ HostSeesInts \/ TxDone \/ HostSends \/ HostDeepWakes
  \/ SdioDeletes \/ SdioStops \/ SdioResets \/ SdioReclaims \/ SdioGoes \/ SdioUp

(* The bus drivers' other steps move blocks and places.                    *)
LEMMA OtherMoves ==
  ASSUME BusInv, ~dead, bus # "spi", OtherSlotStep
  PROVE  /\ NothingTwice' /\ NothingLost' /\ SpiHdBlocks' /\ UNCHANGED <<bus, wr>>
         /\ slots' \in Nat /\ dma' \in Seq(Said)
         /\ fin' \in Nat /\ td' \in {"idle", "first", "second", "gone"}
         /\ pool'.tx \in Nat
         /\ HoldsOf("block")' \in Nat /\ HoldsOf("slot")' \in Nat
<1> DEFINE n == Len(dma)
           n2 == Len(dma')
           x == pool.tx
           x2 == pool'.tx
           y == slots
           y2 == slots'
           f2 == fin'
           e == BlockHeld
           e2 == BlockHeld'
           g == SlotHeld
           g2 == SlotHeld'
           Moves(d, k) ==
             /\ dma' \in Seq(Said) /\ n2 \in Nat /\ f2 \in Nat /\ y2 \in Nat /\ x2 \in Nat
             /\ td' \in {"idle", "first", "second", "gone"}
             /\ x2 + n2 + f2 + e2 + d = x + n + fin + e
             /\ y2 + n2 + f2 + g2 + k = y + n + fin + g
<1>0. BusTypeOK /\ SlotShape /\ UnloadShape
  BY DEF BusInv
<1>1. /\ UNCHANGED <<bus, wr>> /\ TxBlocks' = TxBlocks
      /\ UNCHANGED <<HoldsOf("block"), HoldsOf("slot")>>
  BY DEF OtherSlotStep, TxLoads, HostReads, HostSeesInts, TxDone, HostSends, HostDeepWakes,
         SdioDeletes, SdioStops, SdioResets, SdioReclaims, SdioGoes, SdioUp, TxBlocks, HoldsOf
<1>2. HoldsOf("block") \in Nat /\ HoldsOf("slot") \in Nat
  BY FiniteTasks
<1>3. /\ slots \in Nat /\ fin \in Nat /\ n \in Nat /\ pool.tx \in Nat /\ dma \in Seq(Said)
      /\ pool \in [tx: Nat, rx: Nat] /\ td \in {"idle", "first", "second", "gone"}
      /\ TxBlocks \in Nat /\ TxQ \in Nat /\ Reclaim \in Nat
  BY <1>0, SlotRecord, Constants
<1>a. /\ x \in Nat /\ y \in Nat /\ n \in Nat /\ fin \in Nat
      /\ e \in Nat /\ e2 \in Nat /\ g \in Nat /\ g2 \in Nat
  BY <1>3, Sums
<1>5. \E d, k \in Nat :
        /\ Moves(d, k)
        /\ bus # "sdio" \/ busHarm' \intersect Unaccounted = {} => d = 0 /\ k = 0
  <2>1. CASE \/ TxLoads \/ HostSeesInts \/ HostSends \/ HostDeepWakes \/ SdioUp \/ SdioStops
    <3>1. UNCHANGED <<dma, fin, slots, bus>> /\ pool'.tx = pool.tx
      BY <1>3, <2>1 DEF TxLoads, HostSeesInts, HostSends, HostDeepWakes, SdioUp, SdioStops
    <3>2. UNCHANGED td \/ (td = "gone" /\ td' = "idle")
      BY <1>0, <2>1 DEF TxLoads, HostSeesInts, HostSends, HostDeepWakes, SdioUp, SdioStops,
                        UnloadShape
    <3>3. UNCHANGED <<BlockHeld, SlotHeld>>
      BY <3>1, <3>2 DEF BlockHeld, SlotHeld
    <3>4. td' \in {"idle", "first", "second", "gone"}
      BY <1>3, <3>2
    <3>5. n2 = n /\ x2 = x /\ y2 = y /\ f2 = fin /\ e2 = e /\ g2 = g /\ dma' = dma
      BY <3>1, <3>3
    <3> HIDE DEF n, n2, x, x2, y, y2, f2, e, e2, g, g2
    <3>6. Moves(0, 0)
      BY <1>3, <1>a, <3>4, <3>5
    <3> HIDE DEF Moves
    <3> QED
      BY <3>6
  <2>2. CASE HostReads
    <3>1. /\ UNCHANGED <<td, slots, bus, pool>>
          /\ \/ UNCHANGED <<dma, fin>>
             \/ dma # <<>> /\ dma' = Tail(dma) /\ fin' = fin + 1
      BY <1>0, <2>2 DEF HostReads, SlotShape
    <3>2. UNCHANGED <<BlockHeld, SlotHeld>>
      BY <3>1 DEF BlockHeld, SlotHeld
    <3>a. dma # <<>> => Tail(dma) \in Seq(Said) /\ Len(Tail(dma)) = n - 1 /\ n > 0
      BY <1>3
    <3>3. \/ dma' = dma /\ n2 = n /\ f2 = fin
          \/ dma' \in Seq(Said) /\ n2 = n - 1 /\ n > 0 /\ f2 = fin + 1
      <4>1. CASE UNCHANGED <<dma, fin>>
        BY <4>1
      <4>2. CASE dma # <<>> /\ dma' = Tail(dma) /\ fin' = fin + 1
        BY <3>a, <4>2
      <4> QED
        BY <3>1, <4>1, <4>2
    <3>4. x2 = x /\ y2 = y /\ e2 = e /\ g2 = g
      BY <3>1, <3>2
    <3>5. dma' \in Seq(Said) /\ td' \in {"idle", "first", "second", "gone"}
      BY <1>3, <3>1, <3>3
    <3> HIDE DEF n, n2, x, x2, y, y2, f2, e, e2, g, g2
    <3>6. n2 \in Nat /\ f2 \in Nat /\ n2 + f2 = n + fin
      BY <1>a, <3>3
    <3>7. Moves(0, 0)
      BY <1>a, <3>4, <3>5, <3>6
    <3> HIDE DEF Moves
    <3> QED
      BY <3>7
  <2>3. CASE TxDone
    <3>1. UNCHANGED <<bus, dma>> /\ n2 = n /\ dma' \in Seq(Said)
      BY <1>3, <2>3 DEF TxDone
    <3>2. ASSUME td = "idle"
          PROVE  Moves(0, 0)
      <4>1. /\ fin > 0 /\ f2 = fin - 1 /\ td' = "first" /\ x2 = x /\ y2 = y
        BY <2>3, <3>2 DEF TxDone
      <4>2. e = 0 /\ g = 0 /\ e2 = 1 /\ g2 = 1
        BY <3>2, <4>1 DEF BlockHeld, SlotHeld
      <4> HIDE DEF n, n2, x, x2, y, y2, f2, e, e2, g, g2
      <4> QED
        BY <1>a, <3>1, <4>1, <4>2
    <3>3. ASSUME td = "first"
          PROVE  Moves(0, 0)
      <4>1. /\ f2 = fin /\ td' = "second"
            /\ bus = "spi_hd" => x2 = x + 1 /\ y2 = y
            /\ bus # "spi_hd" => x2 = x /\ y2 = y + 1
        BY <1>3, <2>3, <3>3 DEF TxDone
      <4>2. /\ e = 1 /\ g = 1
            /\ bus = "spi_hd" => e2 = 0 /\ g2 = 1
            /\ bus # "spi_hd" => e2 = 1 /\ g2 = 0
        BY <3>1, <3>3, <4>1 DEF BlockHeld, SlotHeld
      <4> HIDE DEF n, n2, x, x2, y, y2, f2, e, e2, g, g2
      <4>3. CASE bus = "spi_hd"
        BY <1>a, <3>1, <4>1, <4>2, <4>3
      <4>4. CASE bus # "spi_hd"
        BY <1>a, <3>1, <4>1, <4>2, <4>4
      <4> QED
        BY <4>3, <4>4
    <3>4. ASSUME td = "second"
          PROVE  Moves(0, 0)
      <4>1. /\ f2 = fin /\ td' = "idle"
            /\ bus # "spi_hd" => x2 = x + 1 /\ y2 = y
            /\ bus = "spi_hd" => x2 = x /\ y2 = y + 1
        BY <1>3, <2>3, <3>4 DEF TxDone
      <4>2. /\ e2 = 0 /\ g2 = 0
            /\ bus = "spi_hd" => e = 0 /\ g = 1
            /\ bus # "spi_hd" => e = 1 /\ g = 0
        BY <3>1, <3>4, <4>1 DEF BlockHeld, SlotHeld
      <4> HIDE DEF n, n2, x, x2, y, y2, f2, e, e2, g, g2
      <4>3. CASE bus = "spi_hd"
        BY <1>a, <3>1, <4>1, <4>2, <4>3
      <4>4. CASE bus # "spi_hd"
        BY <1>a, <3>1, <4>1, <4>2, <4>4
      <4> QED
        BY <4>3, <4>4
    <3> HIDE DEF Moves
    <3>5. td \in {"idle", "first", "second"}
      BY <2>3 DEF TxDone
    <3>6. Moves(0, 0)
      BY <3>2, <3>3, <3>4, <3>5
    <3> QED
      BY <3>6
  <2>4. CASE SdioDeletes
    <3>1. /\ dma' = dma /\ n2 = n /\ f2 = fin /\ x2 = x /\ y2 = y /\ td' = "gone"
          /\ td # "idle" => "tx_killed" \in busHarm'
          /\ bus' = bus
      BY <2>4 DEF SdioDeletes
    <3>2. e2 = 0 /\ g2 = 0 /\ (td = "idle" => e = 0 /\ g = 0)
      BY <3>1 DEF BlockHeld, SlotHeld
    <3>3. bus = "sdio" /\ (busHarm' \intersect Unaccounted = {} => e = 0 /\ g = 0)
      BY <2>4, <3>1, <3>2 DEF Unaccounted, SdioDeletes
    <3> HIDE DEF n, n2, x, x2, y, y2, f2, e, e2, g, g2
    <3>4. Moves(e, g)
      BY <1>3, <1>a, <3>1, <3>2
    <3> HIDE DEF Moves
    <3> QED
      BY <1>a, <3>3, <3>4
  <2>5. CASE SdioResets
    <3>1. /\ dma' = <<>> /\ fin' = fin + n /\ UNCHANGED <<pool, slots, td, bus>>
      BY <2>5 DEF SdioResets
    <3>2. /\ dma' \in Seq(Said) /\ n2 = 0 /\ f2 = fin + n /\ x2 = x /\ y2 = y
          /\ td' \in {"idle", "first", "second", "gone"}
      BY <1>3, <3>1
    <3>3. e2 = e /\ g2 = g
      BY <3>1 DEF BlockHeld, SlotHeld
    <3> HIDE DEF n, n2, x, x2, y, y2, f2, e, e2, g, g2
    <3>4. Moves(0, 0)
      BY <1>a, <3>2, <3>3
    <3> HIDE DEF Moves
    <3> QED
      BY <3>4
  <2>6. CASE SdioReclaims
    <3>1. /\ dma' = dma /\ n2 = n /\ UNCHANGED <<td, bus>>
          /\ \/ fin > 0 /\ f2 = fin - 1 /\ y2 = y + 1 /\ x2 = x + 1
             \/ f2 = fin /\ y2 = y /\ x2 = x
      BY <1>3, <2>6 DEF SdioReclaims
    <3>2. e2 = e /\ g2 = g
      BY <3>1 DEF BlockHeld, SlotHeld
    <3>3. dma' \in Seq(Said) /\ td' \in {"idle", "first", "second", "gone"}
      BY <1>3, <3>1
    <3> HIDE DEF n, n2, x, x2, y, y2, f2, e, e2, g, g2
    <3>4. fin > 0 /\ f2 = fin - 1 /\ y2 = y + 1 /\ x2 = x + 1 => Moves(0, 0)
      BY <1>a, <3>1, <3>2, <3>3
    <3>5. f2 = fin /\ y2 = y /\ x2 = x => Moves(0, 0)
      BY <1>a, <3>1, <3>2, <3>3
    <3>6. Moves(0, 0)
      <4> HIDE DEF Moves
      <4> QED
        BY <3>1, <3>4, <3>5
    <3> HIDE DEF Moves
    <3> QED
      BY <3>6
  <2>7. CASE SdioGoes
    <3>1. /\ dma' = <<>> /\ fin' = 0 /\ UNCHANGED <<pool, slots, td, bus, busHarm>>
          /\ unload.at = "reset" /\ unload.tries = 0
      BY <2>7 DEF SdioGoes
    <3>2. /\ dma' \in Seq(Said) /\ n2 = 0 /\ f2 = 0 /\ x2 = x /\ y2 = y
          /\ td' \in {"idle", "first", "second", "gone"}
      BY <1>3, <3>1
    <3>3. e2 = e /\ g2 = g
      BY <3>1 DEF BlockHeld, SlotHeld
    <3>4. busHarm' \intersect Unaccounted = {} => n = 0 /\ fin = 0
      <4>1. ASSUME busHarm' \intersect Unaccounted = {}
            PROVE  dma = <<>> /\ fin <= 0
        BY <1>0, <3>1, <4>1 DEF UnloadShape, Unaccounted
      <4> QED
        BY <1>3, <4>1
    <3>5. bus = "sdio"
      BY <1>0, <3>1 DEF UnloadShape
    <3> HIDE DEF n, n2, x, x2, y, y2, f2, e, e2, g, g2
    <3> DEFINE m == n + fin
    <3>6. m \in Nat /\ (busHarm' \intersect Unaccounted = {} => m = 0)
      BY <1>a, <3>4
    <3>7. Moves(m, m)
      BY <1>a, <3>2, <3>3
    <3> HIDE DEF Moves, m
    <3> QED
      BY <3>5, <3>6, <3>7
  <2> QED
    BY <2>1, <2>2, <2>3, <2>4, <2>5, <2>6, <2>7 DEF OtherSlotStep
<1>6. PICK d \in Nat, k \in Nat :
        /\ Moves(d, k)
        /\ bus # "sdio" \/ busHarm' \intersect Unaccounted = {} => d = 0 /\ k = 0
  BY <1>5
<1>7. /\ BlocksThere' \in Nat /\ PlacesThere' \in Nat
      /\ BlocksThere' + d = BlocksThere /\ PlacesThere' + k = PlacesThere
  <2> DEFINE hb == HoldsOf("block")
             hs == HoldsOf("slot")
  <2>1. /\ hb \in Nat /\ hs \in Nat
        /\ BlocksThere = x + hb + n + fin + e
        /\ PlacesThere = y + hs + n + fin + g
        /\ BlocksThere' = x2 + hb + n2 + f2 + e2
        /\ PlacesThere' = y2 + hs + n2 + f2 + g2
    BY <1>1, <1>2, Sums
  <2>2. /\ n2 \in Nat /\ f2 \in Nat /\ y2 \in Nat /\ x2 \in Nat
        /\ x2 + n2 + f2 + e2 + d = x + n + fin + e
        /\ y2 + n2 + f2 + g2 + k = y + n + fin + g
    BY <1>6
  <2> HIDE DEF n, n2, hb, hs, x, x2, y, y2, f2, e, e2, g, g2
  <2>3. BlocksThere' \in Nat /\ BlocksThere' + d = BlocksThere
    BY <1>a, <1>6, <2>1, <2>2
  <2>4. PlacesThere' \in Nat /\ PlacesThere' + k = PlacesThere
    BY <1>a, <1>6, <2>1, <2>2
  <2> QED
    BY <2>3, <2>4
<1>8. busHarm \subseteq busHarm'
  BY DEF OtherSlotStep, TxLoads, HostReads, HostSeesInts, TxDone, HostSends, HostDeepWakes,
         SdioDeletes, SdioStops, SdioResets, SdioReclaims, SdioGoes, SdioUp, BusHarm
<1>9. bus = "uart" /\ ~dead' => Startups \in Int /\ Startups' = Startups + d
  <2>1. /\ count \in [send: 0 .. MaxToHost, host: 0 .. MaxFromHost, start: 0 .. MaxStart,
                      break: 0 .. MaxBreak]
        /\ MaxStart \in Nat
    BY <1>0, TypeParts, BusAssumption DEF CountOK
  <2>2. count'.start = count.start
    <3>1. UNCHANGED count \/ May("host", MaxFromHost) \/ May("break", MaxBreak)
      BY DEF OtherSlotStep, TxLoads, HostReads, HostSeesInts, TxDone, HostSends, HostDeepWakes,
             SdioDeletes, SdioStops, SdioResets, SdioReclaims, SdioGoes, SdioUp
    <3> QED
      BY <2>1, <3>1 DEF May
  <2> QED
    BY <1>1, <1>6, <2>1, <2>2 DEF Startups
<1>10. NothingTwice' /\ NothingLost' /\ SpiHdBlocks'
  <2>1. /\ bus # "uart" => TRUE
        /\ bus = "spi_hd" => d = 0
        /\ busHarm' \intersect Unaccounted = {} => d = 0 /\ k = 0
    BY <1>6
  <2> HIDE DEF Moves
  <2> QED
    BY <1>1, <1>6, <1>7, <1>8, <1>9, <2>1, AccountsKept
<1> QED
  BY <1>1, <1>2, <1>6, <1>10

(* The accounts are kept.                                                  *)
LEMMA AccountsStay ==
  ASSUME BusInv, ~dead, RxStep \/ SpiStep \/ SlotStep
  PROVE  NothingTwice' /\ NothingLost' /\ SpiHdBlocks'
<1>1. CASE RxStep
  <2>1. UNCHANGED <<bus, slotVars, count>> /\ busHarm \subseteq busHarm'
    BY <1>1 DEF RxStep, ProdStep, RdStep, ProdReceives, ProdChecks, ProdFlow, ProdTells,
         ProdPuts, ProdGives, RdTakes, RdLooks, RdPops, RdChecks, RdFlow, RdTells, RdProcesses,
         BusHarm
  <2>2. bus # "spi" => pool'.tx = pool.tx
    <3>1. pool \in [tx: Nat, rx: Nat]
      BY SlotRecord DEF BusInv
    <3> QED
      BY <1>1, <3>1 DEF BusInv, RxStep, ProdStep, RdStep, ProdReceives, ProdChecks, ProdFlow,
         ProdTells, ProdPuts, ProdGives, RdTakes, RdLooks, RdPops, RdChecks, RdFlow, RdTells,
         RdProcesses, Released
  <2>3. bus # "spi" => UNCHANGED <<BlocksThere, PlacesThere, Startups, TxBlocks>>
    BY <2>1, <2>2 DEF BlocksThere, PlacesThere, Startups, HoldsOf, TxBlocks
  <2>4. NothingTwice /\ NothingLost /\ SpiHdBlocks
    BY DEF BusInv
  <2> QED
    BY <2>1, <2>3, <2>4 DEF NothingTwice, NothingLost, SpiHdBlocks
<1>2. CASE SpiStep
  <2>1. bus' = "spi"
    BY <1>2 DEF SpiStep, RaiseStep, LoadStep, SpiWrite, SpiPut, SpiGive, SetDataReady,
       SetDataReadyFlag, NextBuffer, ResetDataReady, ResetDataReadyFlag, NextDummy, Attach,
       PostResult, PostFinish, HostClocks, SpiReload
  <2> QED
    BY <2>1 DEF NothingTwice, NothingLost, SpiHdBlocks
<1>3. CASE SlotStep
  BY <1>3, WriterMoves, OtherMoves DEF SlotStep, OtherSlotStep
<1> QED
  BY <1>1, <1>2, <1>3

(* The sums bound what the drivers hold.                                   *)
LEMMA SlotBounds ==
  ASSUME BusInv, ~dead, SlotStep
  PROVE  SlotTypeOK' /\ pool'.tx \in 0 .. TxBlocks /\ UNCHANGED bus /\ TxBlocks' = TxBlocks
<1> DEFINE n2 == Len(dma')
           x2 == pool'.tx
           y2 == slots'
           f2 == fin'
           e2 == BlockHeld'
           g2 == SlotHeld'
           hb == HoldsOf("block")'
           hs == HoldsOf("slot")'
           Un == [at: {"no", "deleted", "stopped", "reset"}, tries: 0 .. Reclaim]
<1>0. BusTypeOK /\ bus # "spi"
  BY DEF BusInv, SlotStep
<1>1. ASSUME NEW w \in Writers, WriteStep(w)
      PROVE  /\ NothingTwice' /\ UNCHANGED <<bus, fin, td, link, unload>>
             /\ slots' \in Nat /\ dma' \in Seq(Said)
             /\ pool'.tx \in Nat /\ hb \in Nat /\ hs \in Nat
             /\ wr' \in [Writers -> [pc: WrPc, says: Said, block: BOOLEAN, slot: BOOLEAN]]
  BY <1>0, <1>1, OneWriter, WriterMoves
<1>2. ASSUME OtherSlotStep
      PROVE  link' \in [dr: BOOLEAN, loaded: BOOLEAN, ready: 0 .. 1]
  <2> DEFINE L == [dr: BOOLEAN, loaded: BOOLEAN, ready: 0 .. 1]
  <2>0. link \in L
    BY <1>0, SlotRecord
  <2>1. ASSUME NEW k \in L, NEW b \in BOOLEAN, NEW r \in {0, 1}
        PROVE  /\ [k EXCEPT !.dr = b] \in L /\ [k EXCEPT !.loaded = b] \in L
               /\ [k EXCEPT !.ready = r] \in L
    <3>1. r \in 0 .. 1
      BY <2>1
    <3> QED
      BY <3>1
  <2>2. CASE TxLoads
    <3>1. link' = [[[link EXCEPT !.loaded = TRUE] EXCEPT !.dr = TRUE] EXCEPT !.ready = 1]
      BY <2>0, <2>2 DEF TxLoads, Loaded
    <3> HIDE DEF L
    <3> QED
      BY <2>0, <2>1, <3>1 DEF L
  <2>3. CASE HostReads
    <3> DEFINE reads == bus = "sdio" \/ (link.ready = 1 /\ link.loaded)
               l == link.loaded /\ ~reads
    <3>1. l \in BOOLEAN
      BY <2>0
    <3>2. \/ link' = link
          \/ link' = [[[link EXCEPT !.dr = FALSE] EXCEPT !.ready = 0] EXCEPT !.loaded = l]
      BY <2>0, <2>3 DEF HostReads
    <3> HIDE DEF L, l
    <3>3. /\ [link EXCEPT !.dr = FALSE] \in L
          /\ [[link EXCEPT !.dr = FALSE] EXCEPT !.ready = 0] \in L
      BY <2>0, <2>1
    <3>4. link' \in L
      BY <2>0, <2>1, <3>1, <3>2, <3>3
    <3> QED
      BY <3>4 DEF L
  <2>4. CASE HostDeepWakes
    <3>1. link' = [[link EXCEPT !.dr = FALSE] EXCEPT !.ready = 0]
      BY <2>0, <2>4 DEF HostDeepWakes
    <3> HIDE DEF L
    <3> QED
      BY <2>0, <2>1, <3>1 DEF L
  <2>5. CASE ~(TxLoads \/ HostReads \/ HostDeepWakes)
    <3>1. link' = link
      BY <1>2, <2>5 DEF OtherSlotStep, HostSeesInts, TxDone, HostSends,
         SdioDeletes, SdioStops, SdioResets, SdioReclaims, SdioGoes, SdioUp
    <3> QED
      BY <2>0, <3>1
  <2> QED
    BY <2>2, <2>3, <2>4, <2>5
<1>a. ASSUME OtherSlotStep
      PROVE  unload' \in Un
  <2>0. unload \in Un /\ Reclaim \in Nat
    BY <1>0, SlotRecord, Constants
  <2>1. CASE SdioDeletes
    <3>1. unload' = [at |-> "deleted", tries |-> Reclaim]
      BY <2>1 DEF SdioDeletes
    <3>2. Reclaim \in 0 .. Reclaim
      BY <2>0
    <3> QED
      BY <3>1, <3>2
  <2>2. CASE SdioReclaims
    <3>1. unload' = [unload EXCEPT !.tries = unload.tries - 1] /\ unload.tries > 0
      BY <2>2 DEF SdioReclaims
    <3>2. unload.tries - 1 \in 0 .. Reclaim
      BY <2>0, <3>1
    <3> QED
      BY <2>0, <3>1, <3>2
  <2>3. CASE SdioStops \/ SdioResets \/ SdioGoes
    <3>1. \E a \in {"no", "stopped", "reset"} : unload' = [unload EXCEPT !.at = a]
      BY <2>3 DEF SdioStops, SdioResets, SdioGoes
    <3> QED
      BY <2>0, <3>1
  <2>4. CASE ~(SdioDeletes \/ SdioReclaims \/ SdioStops \/ SdioResets \/ SdioGoes)
    <3>1. unload' = unload
      BY <1>a, <2>4 DEF OtherSlotStep, TxLoads, HostReads, HostSeesInts, TxDone, HostSends,
                        HostDeepWakes, SdioUp
    <3> QED
      BY <2>0, <3>1
  <2> QED
    BY <2>1, <2>2, <2>3, <2>4
<1>3. /\ NothingTwice' /\ UNCHANGED bus
      /\ y2 \in Nat /\ dma' \in Seq(Said) /\ unload' \in Un
      /\ x2 \in Nat /\ hb \in Nat /\ hs \in Nat /\ f2 \in Nat
      /\ td' \in {"idle", "first", "second", "gone"}
      /\ wr' \in [Writers -> [pc: WrPc, says: Said, block: BOOLEAN, slot: BOOLEAN]]
      /\ link' \in [dr: BOOLEAN, loaded: BOOLEAN, ready: 0 .. 1]
  <2>1. /\ td \in {"idle", "first", "second", "gone"} /\ fin \in Nat /\ unload \in Un
        /\ link \in [dr: BOOLEAN, loaded: BOOLEAN, ready: 0 .. 1]
        /\ wr \in [Writers -> [pc: WrPc, says: Said, block: BOOLEAN, slot: BOOLEAN]]
    BY <1>0, SlotRecord
  <2>2. CASE \E w \in Writers : WriteStep(w)
    BY <1>1, <2>1, <2>2
  <2>3. CASE OtherSlotStep
    <3>1. UNCHANGED wr
      BY <1>0, <2>3, OtherMoves
    <3> HIDE DEF Un
    <3> QED
      BY <1>0, <1>2, <1>a, <2>1, <2>3, <3>1, OtherMoves
  <2> QED
    BY <2>2, <2>3 DEF SlotStep, OtherSlotStep
<1>4. TxBlocks' = TxBlocks /\ TxBlocks \in Nat /\ TxQ \in Nat
  BY <1>0, <1>3, Constants DEF TxBlocks
<1>5. /\ x2 + hb + n2 + f2 + e2 <= TxBlocks
      /\ y2 + hs + n2 + f2 + g2 <= TxQ
  BY <1>0, <1>3, <1>4, Sums DEF NothingTwice
<1>6. n2 \in Nat /\ e2 \in Nat /\ g2 \in Nat
  <2>1. dma' \in Seq(Said)
    BY <1>3
  <2>2. n2 \in Nat
    BY <2>1
  <2>3. e2 \in {0, 1} /\ g2 \in {0, 1}
    BY Sums
  <2> QED
    BY <2>2, <2>3
<1>7. x2 \in 0 .. TxBlocks /\ y2 \in 0 .. TxQ /\ n2 <= TxQ /\ f2 \in 0 .. TxQ
  <2>1. x2 \in Nat /\ y2 \in Nat /\ hb \in Nat /\ hs \in Nat /\ f2 \in Nat
    BY <1>3
  <2> HIDE DEF n2, x2, y2, f2, e2, g2, hb, hs
  <2> QED
    BY <1>4, <1>5, <1>6, <2>1
<1> QED
  BY <1>3, <1>4, <1>7 DEF SlotTypeOK

(* What the other buses' steps change.                                     *)
LEMMA SlotTypes ==
  ASSUME BusInv, ~dead, SlotStep
  PROVE  BusTypeOK'
<1>0. BusTypeOK /\ bus # "spi" /\ UNCHANGED bus /\ SlotTypeOK' /\ SpiTypeOK' /\ TxBlocks' = TxBlocks
  <2>1. BusTypeOK /\ bus # "spi" /\ UNCHANGED spiVars
    BY DEF BusInv, SlotStep
  <2> QED
    BY <2>1, SlotBounds, TypesFrame
<1>a. PoolOK /\ RxOK /\ ProdOK /\ RdOK /\ ThrOK /\ CountOK /\ FlagsOK /\ RxQ \in Nat
  BY <1>0, TypeParts, Constants
<1>1. PoolOK'
  <2>1. pool'.tx \in 0 .. TxBlocks
    BY SlotBounds
  <2>2. pool \in [tx: Int, rx: 0 .. RxQ] /\ pool.rx \in 0 .. RxQ
    BY <1>a DEF PoolOK
  <2>3. pool' \in [tx: Int, rx: 0 .. RxQ]
    <3> DEFINE x == pool'.tx
    <3>0. x \in Int
      BY <2>1
    <3>1. CASE \E w \in Writers : WriteStep(w)
      <4>1. \/ UNCHANGED pool
            \/ pool' = [pool EXCEPT !.tx = @ - 1] \/ pool' = [pool EXCEPT !.tx = @ + 1]
        BY <3>1 DEF WriteStep, WriteBegins, TakeSlot, TakeBlock, SlotPut, PutFails, UartPut
      <4> QED
        BY <2>2, <4>1
    <3>2. CASE TxLoads \/ HostReads \/ HostSeesInts \/ TxDone \/ HostDeepWakes
      <4>1. UNCHANGED pool \/ pool' = [pool EXCEPT !.tx = @ + 1]
        BY <3>2 DEF TxLoads, HostReads, HostSeesInts, TxDone, HostDeepWakes
      <4> QED
        BY <2>2, <4>1
    <3>3. CASE HostSends
      <4>1. pool' = pool \/ (pool.rx > 0 /\ pool' = [pool EXCEPT !.rx = pool.rx - 1])
        BY <1>0, <3>3 DEF HostSends
      <4>2. pool.rx > 0 => pool.rx - 1 \in 0 .. RxQ
        BY <1>a, <2>2
      <4> QED
        BY <2>2, <4>1, <4>2
    <3>4. CASE SdioStops
      <4>1. pool' = [pool EXCEPT !.rx = 0] /\ 0 \in 0 .. RxQ
        BY <1>a, <3>4 DEF SdioStops
      <4> QED
        BY <2>2, <4>1
    <3>6. CASE SdioReclaims
      <4>1. UNCHANGED pool \/ pool' = [pool EXCEPT !.tx = @ + 1]
        BY <3>6 DEF SdioReclaims
      <4> QED
        BY <2>2, <4>1
    <3>7. CASE SdioDeletes \/ SdioResets \/ SdioGoes
      <4>1. UNCHANGED pool
        BY <3>7 DEF SdioDeletes, SdioResets, SdioGoes
      <4> QED
        BY <2>2, <4>1
    <3>5. CASE SdioUp
      <4>1. pool' = [pool EXCEPT !.rx = RxQ] /\ RxQ \in 0 .. RxQ
        BY <1>a, <3>5 DEF SdioUp
      <4> QED
        BY <2>2, <4>1
    <3> QED
      BY <3>1, <3>2, <3>3, <3>4, <3>5, <3>6, <3>7 DEF SlotStep
  <2> QED
    BY <1>0, <2>1, <2>3 DEF PoolOK
<1>2. RxOK' /\ ProdOK' /\ RdOK'
  <2>1. CASE HostSends
    <3>1. PICK p \in FromHost : rx' = [rx EXCEPT !.arrived = Append(rx.arrived, p)]
      BY <2>1 DEF HostSends
    <3>2. p \in Packet /\ Len(rx.arrived) < RxQ /\ rx.arrived \in Seq(Packet)
      BY <1>0, <2>1, RxRecord, BusAssumption DEF HostSends
    <3>3. Append(rx.arrived, p) \in Seq(Packet) /\ Len(Append(rx.arrived, p)) <= RxQ
      BY <1>a, <3>2
    <3>4. rx'.arrived = Append(rx.arrived, p) /\ rx'.new = rx.new /\ rx'.old = rx.old
      BY <1>a, <3>1 DEF RxOK
    <3>5. \A q \in Prio : Depth(q)' <= RxQ
      BY <1>0, <3>4, RxRecord DEF Depth
    <3>6. RxOK'
      BY <1>a, <3>1, <3>3, <3>4, <3>5 DEF RxOK
    <3>7. UNCHANGED <<prod, rd>>
      BY <2>1 DEF HostSends
    <3> QED
      BY <1>0, <3>6, <3>7, TypesFrame
  <2>2. CASE SdioStops
    <3> DEFINE none == [p \in Prio |-> 0]
               left == [p \in Prio |-> Depth(p)]
    <3>0. rx' = [rx EXCEPT !.arrived = <<>>, !.new = none, !.old = left]
      BY <2>2 DEF SdioStops
    <3>1. none \in [Prio -> 0 .. RxQ] /\ left \in [Prio -> 0 .. RxQ]
          /\ <<>> \in Seq(Packet)
      BY <1>0, <1>a, Counts
    <3>2. \A p \in Prio : none[p] = 0 /\ left[p] = Depth(p)
      OBVIOUS
    <3> HIDE DEF none, left
    <3>3. rx' = [[[rx EXCEPT !.arrived = <<>>] EXCEPT !.new = none] EXCEPT !.old = left]
      BY <1>a, <3>0 DEF RxOK
    <3> DEFINE X == [arrived: Seq(Packet), new: [Prio -> 0 .. RxQ], old: [Prio -> 0 .. RxQ],
                     sem: 0 .. 3 * RxQ]
    <3>4. [rx EXCEPT !.arrived = <<>>] \in X
      BY <1>a, <3>1 DEF RxOK
    <3>5. rx'.arrived = <<>> /\ rx'.new = none /\ rx'.old = left /\ rx' \in X
      BY <3>1, <3>3, <3>4
    <3>6. \A p \in Prio : Depth(p)' <= RxQ
      BY <1>0, <3>2, <3>5, Counts DEF Depth
    <3>7. RxOK'
      BY <1>a, <3>5, <3>6 DEF RxOK
    <3>8. ProdOK' /\ RdOK'
      BY <1>a, <2>2 DEF SdioStops, ProdOK, RdOK
    <3> QED
      BY <3>7, <3>8
  <2>5. CASE SdioDeletes \/ SdioUp
    <3>1. UNCHANGED <<rx, rd>>
      BY <2>5 DEF SdioDeletes, SdioUp
    <3>2. prod' = [pc |-> "gone", prio |-> "bad"] \/ prod' = [prod EXCEPT !.pc = "idle"]
      BY <2>5 DEF SdioDeletes, SdioUp
    <3>3. ProdOK'
      BY <1>a, <3>2 DEF ProdOK
    <3> QED
      BY <1>0, <3>1, <3>3, TypesFrame
  <2>3. CASE UNCHANGED <<rx, prod, rd>>
    BY <1>0, <2>3, TypesFrame
  <2>4. (HostSends \/ SdioStops \/ SdioDeletes \/ SdioUp) \/ UNCHANGED <<rx, prod, rd>>
    BY DEF SlotStep, WriteStep, WriteBegins, TakeSlot, TakeBlock, SlotPut, PutFails, UartPut,
         TxLoads, HostReads, HostSeesInts, TxDone, HostDeepWakes, SdioResets, SdioReclaims,
         SdioGoes
  <2> QED
    BY <2>1, <2>2, <2>3, <2>4, <2>5
<1>3. ThrOK'
  <2> DEFINE h == thr'.host
             T == [current: BOOLEAN, flow: BOOLEAN, trig: 0 .. 1, ints: SUBSET {"on", "off"},
                   host: BOOLEAN]
  <2>0. thr \in T
    BY <1>a DEF ThrOK
  <2>1. ASSUME NEW said, HostHears(said)
        PROVE  thr' \in T
    <3> DEFINE b == IF said = "none" THEN thr.host ELSE said = "on"
    <3>1. b \in BOOLEAN /\ thr' = [thr EXCEPT !.host = b]
      BY <2>0, <2>1 DEF HostHears
    <3> HIDE DEF b
    <3> QED
      BY <2>0, <3>1
  <2>2. CASE HostSeesInts
    <3> DEFINE b == "off" \notin thr.ints
    <3>1. b \in BOOLEAN /\ thr' = [[thr EXCEPT !.ints = {}] EXCEPT !.host = b]
      BY <2>0, <2>2 DEF HostSeesInts
    <3>2. [thr EXCEPT !.ints = {}] \in T
      BY <2>0
    <3> HIDE DEF b
    <3>3. thr' \in T
      BY <3>1, <3>2
    <3> QED
      BY <3>3 DEF ThrOK
  <2>3. CASE (\E w \in Writers : UartPut(w)) \/ HostReads
    <3>1. UNCHANGED thr \/ \E said : HostHears(said)
      BY <2>3 DEF UartPut, HostReads
    <3>2. thr' \in T
      <4> HIDE DEF T
      <4> QED
        BY <2>0, <2>1, <3>1
    <3> QED
      BY <3>2 DEF ThrOK
  <2>4. CASE \/ UNCHANGED thr \/ thr' = [thr EXCEPT !.trig = 0]
             \/ thr' = [thr EXCEPT !.ints = {}] \/ thr' = [thr EXCEPT !.host = FALSE]
    <3>1. 0 \in 0 .. 1
      OBVIOUS
    <3>2. thr' \in T
      BY <2>0, <2>4, <3>1
    <3> QED
      BY <3>2 DEF ThrOK
  <2>5. \/ HostSeesInts \/ HostReads \/ \E w \in Writers : UartPut(w)
        \/ UNCHANGED thr \/ thr' = [thr EXCEPT !.trig = 0]
        \/ thr' = [thr EXCEPT !.ints = {}] \/ thr' = [thr EXCEPT !.host = FALSE]
    BY DEF SlotStep, WriteStep, WriteBegins, TakeSlot, TakeBlock, SlotPut, PutFails,
         TxLoads, TxDone, HostSends, HostDeepWakes,
         SdioDeletes, SdioStops, SdioResets, SdioReclaims, SdioGoes, SdioUp
  <2> QED
    BY <2>2, <2>3, <2>4, <2>5
<1>4. CountOK'
  <2>1. \/ UNCHANGED count \/ May("send", MaxToHost) \/ May("host", MaxFromHost)
        \/ May("start", MaxStart) \/ May("break", MaxBreak)
    BY DEF SlotStep, WriteStep, WriteBegins, TakeSlot, TakeBlock, SlotPut, PutFails, UartPut,
         TxLoads, HostReads, HostSeesInts, TxDone, HostSends, HostDeepWakes,
         SdioDeletes, SdioStops, SdioResets, SdioReclaims, SdioGoes, SdioUp,
         MaySend, MayStart
  <2> QED
    BY <1>0, <2>1, CountedType, TypesFrame
<1>5. FlagsOK'
  <2>1. up' \in BOOLEAN /\ dead' \in BOOLEAN
    BY <1>a DEF SlotStep, WriteStep, WriteBegins, TakeSlot, TakeBlock, SlotPut, PutFails, UartPut,
         TxLoads, HostReads, HostSeesInts, TxDone, HostSends, HostDeepWakes,
         SdioDeletes, SdioStops, SdioResets, SdioReclaims, SdioGoes, SdioUp,
         FlagsOK
  <2>2. \E H \in SUBSET Harms : busHarm' = busHarm \union H
    <3>1. CASE \E w \in Writers : PutFails(w)
      <4>1. \E H \in {{"failed", "kept"}, {"failed"}} : busHarm' = busHarm \union H
        BY <3>1 DEF PutFails
      <4>2. \A H \in {{"failed", "kept"}, {"failed"}} : H \in SUBSET Harms
        BY DEF Harms
      <4> QED
        BY <4>1, <4>2, Zenon
    <3>2. CASE SdioDeletes
      <4>1. \E H \in {{}, {"rx_killed"}}, K \in {{}, {"tx_killed"}} :
              busHarm' = (busHarm \union H) \union K
        BY <3>2, Zenon DEF SdioDeletes
      <4>2. PICK H \in {{}, {"rx_killed"}}, K \in {{}, {"tx_killed"}} :
              busHarm' = (busHarm \union H) \union K
        BY <4>1
      <4>3. H \union K \in SUBSET Harms /\ busHarm' = busHarm \union (H \union K)
        BY <4>2 DEF Harms
      <4> QED
        BY <4>3
    <3>3. CASE ~SdioDeletes /\ ~\E w \in Writers : PutFails(w)
      <4>1. \/ busHarm' = busHarm
            \/ \E h \in {"late", "stranded", "queued", "overfull"} :
                 busHarm' = busHarm \union {h}
        BY <3>3 DEF SlotStep, WriteStep, WriteBegins, TakeSlot, TakeBlock, SlotPut, UartPut,
             TxLoads, HostReads, HostSeesInts, TxDone, HostSends, HostDeepWakes,
             SdioStops, SdioResets, SdioReclaims, SdioGoes, SdioUp, BusHarm
      <4>2. {} \in SUBSET Harms /\ busHarm \union {} = busHarm
        OBVIOUS
      <4>3. \A h \in {"late", "stranded", "queued", "overfull"} : {h} \in SUBSET Harms
        BY DEF Harms
      <4> QED
        BY <4>1, <4>2, <4>3, Zenon
    <3> QED
      BY <3>1, <3>2, <3>3
  <2> QED
    BY <1>0, <1>a, <2>1, <2>2 DEF FlagsOK
<1> QED
  BY <1>0, <1>1, <1>2, <1>3, <1>4, <1>5, TypePartsNext

(* Every step keeps the types.                                             *)
LEMMA TypesKept ==
  ASSUME BusInv, ~dead, RxStep \/ SpiStep \/ SlotStep
  PROVE  BusTypeOK'
  BY RxTypes, SpiTypes, SlotTypes

-----------------------------------------------------------------------------
(* Where the tasks can be.                                                 *)

(* The tasks of SPI are apart.                                             *)
LEMMA TaskNames ==
  /\ "post" \notin Raisers /\ "flow" \notin Raisers /\ "start" \notin BusSenders
  /\ "post" \notin BusSenders /\ "flow" \notin BusSenders
  /\ Raisers \subseteq SpiTasks /\ Loaders \subseteq SpiTasks
  /\ "start" \in Raisers /\ "post" \in SpiTasks /\ "start" \in SpiTasks
  /\ Raisers \subseteq Writers /\ "flow" \in Writers
  BY BusAssumption DEF Raisers, Loaders

(* What a record of the receive path is made of.                           *)
LEMMA RxParts ==
  ASSUME BusTypeOK
  PROVE  /\ prod \in [pc: {"idle", "check", "flow", "tell", "put", "give", "gone"}, prio: Packet]
         /\ rd \in [pc: {"take", "up", "pop", "check", "flow", "tell", "process"}, prio: Packet,
                    fresh: BOOLEAN]
         /\ rx \in [arrived: Seq(Packet), new: [Prio -> 0 .. RxQ], old: [Prio -> 0 .. RxQ],
                    sem: 0 .. 3 * RxQ]
         /\ thr \in [current: BOOLEAN, flow: BOOLEAN, trig: 0 .. 1,
                     ints: SUBSET {"on", "off"}, host: BOOLEAN]
  BY TypeParts DEF ProdOK, RdOK, RxOK, ThrOK

(* The shape of the receive path is kept by its own steps, ...             *)
LEMMA RxShapeRx ==
  ASSUME BusInv, ~dead, RxStep
  PROVE  RxShape'
<1>0. /\ BusTypeOK /\ RxShape /\ UNCHANGED <<bus, up, at, unload>> /\ bus \in Bus
      /\ (bus = "spi" \/ bus = "uart" => ~Throttles)
  <2>1. BusTypeOK /\ RxShape /\ UNCHANGED <<bus, up, at, unload>>
    BY DEF BusInv, RxStep, ProdStep, RdStep, ProdReceives, ProdChecks, ProdFlow, ProdTells,
         ProdPuts, ProdGives, RdTakes, RdLooks, RdPops, RdChecks, RdFlow, RdTells, RdProcesses
  <2> QED
    BY <2>1, Constants DEF Throttles
<1>1. /\ prod \in [pc: {"idle", "check", "flow", "tell", "put", "give", "gone"}, prio: Packet]
      /\ rd \in [pc: {"take", "up", "pop", "check", "flow", "tell", "process"}, prio: Packet,
                 fresh: BOOLEAN]
      /\ rx \in [arrived: Seq(Packet), new: [Prio -> 0 .. RxQ], old: [Prio -> 0 .. RxQ],
                 sem: 0 .. 3 * RxQ]
      /\ pool \in [tx: Nat, rx: Nat]
  BY <1>0, RxParts, SlotRecord
<1>2. CASE ProdReceives
  <2>1. Head(rx.arrived) \in Packet /\ rx.arrived # <<>>
    BY <1>1, <1>2 DEF ProdReceives
  <2>2. /\ prod'.pc # "idle" => prod'.prio \in Prio
        /\ prod'.pc \in {"idle", "check", "put"}
    BY <1>2, <2>1 DEF ProdReceives
  <2>3. /\ bus # "spi" /\ up /\ UNCHANGED rd /\ (bus = "uart" => prod'.pc \in {"idle", "put"})
        /\ rx'.old = rx.old
    BY <1>0, <1>1, <1>2 DEF ProdReceives
  <2> QED
    BY <1>0, <2>1, <2>2, <2>3 DEF RxShape
<1>3. CASE ProdChecks \/ ProdFlow \/ ProdTells
  <2>1. /\ prod.pc \in {"check", "flow", "tell"} /\ prod'.pc \in {"flow", "tell", "put"}
        /\ prod'.prio = prod.prio /\ UNCHANGED <<pool, rd, rx>>
    BY <1>1, <1>3 DEF ProdChecks, ProdFlow, ProdTells, ProdTo
  <2> QED
    BY <1>0, <2>1 DEF RxShape
<1>4. CASE ProdPuts \/ ProdGives
  <2>1. /\ prod.pc \in {"put", "give"} /\ prod'.pc \in {"give", "idle"}
        /\ prod'.prio = prod.prio /\ UNCHANGED <<pool, rd>>
        /\ rx'.old = rx.old /\ rx'.arrived = rx.arrived
    BY <1>0, <1>1, <1>4 DEF ProdPuts, ProdGives, ProdTo, RxShape
  <2>2. bus = "sdio" => ~(~up \/ unload.at \in {"stopped", "reset"})
    BY <2>1 DEF BusInv, UnloadShape
  <2> QED
    BY <1>0, <1>4, <2>1, <2>2 DEF RxShape
<1>5. CASE RdTakes \/ RdLooks
  <2>1. /\ bus = "spi" => rd'.pc \in {"take", "up", "pop"}
        /\ bus # "spi" => rd'.pc = "pop"
        /\ rd'.fresh = rd.fresh /\ UNCHANGED <<pool, prod>>
        /\ rx'.old = rx.old /\ rx'.new = rx.new /\ rx'.arrived = rx.arrived
    BY <1>0, <1>1, <1>5 DEF RdTakes, RdLooks, RdTo, RxShape
  <2> QED
    BY <1>0, <2>1 DEF RxShape
<1>6. CASE RdPops
  <2>0. UNCHANGED <<pool, prod>>
    BY <1>6 DEF RdPops
  <2> DEFINE p == First(Waiting)
  <2>1. p \in Prio
    BY DEF First
  <2>2. CASE Depth(p) = 0
    <3>1. rd'.pc = "take" /\ rd'.fresh = rd.fresh /\ UNCHANGED rx
      BY <1>1, <1>6, <2>2 DEF RdPops, RdTo
    <3> QED
      BY <1>0, <2>0, <3>1 DEF RxShape
  <2>3. CASE Depth(p) # 0
    <3>1. /\ rd' = [prio |-> p, fresh |-> rx.old[p] = 0,
                    pc |-> IF Throttles THEN "check" ELSE "process"]
          /\ rx' = IF rx.old[p] > 0 THEN [rx EXCEPT !.old[p] = @ - 1]
                   ELSE [rx EXCEPT !.new[p] = @ - 1]
      BY <1>6, <2>3 DEF RdPops
    <3>2. /\ rd'.pc \in {"check", "process"} /\ (bus \in {"spi", "uart"} => rd'.pc = "process")
          /\ rd'.fresh <=> rx.old[p] = 0
      BY <1>0, <3>1, Zenon
    <3>4. /\ rx'.arrived = rx.arrived
          /\ rx.old[p] = 0 => rx'.old = rx.old
          /\ rx.old[p] > 0 => rx'.new = rx.new
      <4> HIDE DEF p
      <4> QED
        BY <1>1, <2>1, <3>1
    <3>3. rx.old[p] \in Nat /\ rx.new[p] \in Nat /\ (rx.old[p] = 0 => rx.new[p] # 0)
      BY <1>0, <2>1, <2>3, Totals DEF Depth
    <3> HIDE DEF p
    <3> QED
      BY <1>0, <2>0, <2>1, <3>2, <3>3, <3>4 DEF RxShape
  <2> QED
    BY <2>2, <2>3
<1>7. CASE RdChecks \/ RdFlow \/ RdTells
  <2>1. /\ rd.pc \in {"check", "flow", "tell"} /\ rd'.pc \in {"flow", "tell", "process"}
        /\ rd'.fresh = rd.fresh /\ UNCHANGED <<pool, prod, rx>>
    BY <1>1, <1>7 DEF RdChecks, RdFlow, RdTells, RdTo
  <2> QED
    BY <1>0, <2>1 DEF RxShape
<1>8. CASE RdProcesses
  <2>1. /\ rd'.pc = "take" /\ rd'.fresh = rd.fresh /\ UNCHANGED <<prod, rx>>
        /\ bus = "spi" \/ ~rd.fresh => pool'.rx = pool.rx
    BY <1>1, <1>8 DEF RdProcesses, Released, RdTo
  <2> QED
    BY <1>0, <2>1 DEF RxShape
<1> QED
  BY <1>2, <1>3, <1>4, <1>5, <1>6, <1>7, <1>8 DEF RxStep, ProdStep, RdStep

(* ... by SPI's, ...                                                       *)
LEMMA RxShapeSpi ==
  ASSUME BusInv, ~dead, SpiStep
  PROVE  RxShape'
<1>0. /\ BusTypeOK /\ RxShape /\ bus = "spi"
      /\ prod \in [pc: {"idle", "check", "flow", "tell", "put", "give", "gone"}, prio: Packet]
      /\ pool \in [tx: Nat, rx: Nat]
      /\ at \in [SpiTasks -> [pc: SpiPc, prio: Prio, sends: Sends]]
  BY RxParts, SlotRecord, SpiFrame DEF AtOK, BusInv, SpiStep
<1>1. UNCHANGED <<bus, rx, rd, unload>> /\ pool'.rx = pool.rx
  BY <1>0 DEF SpiStep, RaiseStep, LoadStep, SpiWrite, SpiPut, SpiGive, SetDataReady,
       SetDataReadyFlag, NextBuffer, ResetDataReady, ResetDataReadyFlag, NextDummy, Attach,
       PostResult, PostFinish, HostClocks, SpiReload, Finished
<1>2. CASE \E t \in Raisers : RaiseStep(t)
  <2>1. UNCHANGED prod
    BY <1>2 DEF RaiseStep, SpiWrite, SpiPut, SpiGive, SetDataReady, SetDataReadyFlag
  <2>2. at'["post"] = at["post"]
    <3>1. PICK t \in Raisers : RaiseStep(t)
      BY <1>2
    <3>2. t # "post" /\ "post" \in SpiTasks /\ t \in SpiTasks
      BY TaskNames
    <3> QED
      BY <1>0, <3>1, <3>2
         DEF RaiseStep, SpiWrite, SpiPut, SpiGive, SetDataReady, SetDataReadyFlag, Go
  <2> QED
    BY <1>0, <1>1, <2>1, <2>2 DEF RxShape
<1>3. CASE \E t \in Loaders : LoadStep(t)
  <2>1. UNCHANGED prod
    BY <1>3 DEF LoadStep, NextBuffer, ResetDataReady, ResetDataReadyFlag, NextDummy, Attach
  <2>2. at["post"].pc = "idle" => at'["post"].pc = "idle"
    <3>1. PICK t \in Loaders : LoadStep(t)
      BY <1>3
    <3>2. "post" \in SpiTasks /\ t \in SpiTasks /\ at[t].pc # "idle"
      BY <3>1, TaskNames DEF LoadStep, NextBuffer, ResetDataReady, ResetDataReadyFlag, NextDummy,
                             Attach
    <3> QED
      BY <1>0, <3>1, <3>2 DEF LoadStep, NextBuffer, ResetDataReady, ResetDataReadyFlag, NextDummy,
                              Attach, Go, Holds
  <2> QED
    BY <1>0, <1>1, <2>1, <2>2 DEF RxShape
<1>4. CASE PostResult
  <2>1. prod.pc = "idle" /\ prod'.pc = "idle"
    BY <1>0, <1>4 DEF PostResult
  <2> QED
    BY <1>0, <1>1, <2>1 DEF RxShape
<1>5. CASE PostFinish
  <2>1. at'["post"].pc = "idle"
    BY <1>0, <1>5 DEF PostFinish, Go
  <2>2. prod'.prio = prod.prio /\ prod'.pc \in {"idle", "put"}
        /\ (prod'.pc # "idle" => prod.prio \in Prio)
    BY <1>0, <1>5 DEF PostFinish, ProdTo
  <2> QED
    BY <1>0, <1>1, <2>1, <2>2 DEF RxShape
<1>6. CASE HostClocks \/ SpiReload
  <2>1. UNCHANGED <<prod, at>>
    BY <1>6 DEF HostClocks, SpiReload
  <2> QED
    BY <1>0, <1>1, <2>1 DEF RxShape
<1> QED
  BY <1>2, <1>3, <1>4, <1>5, <1>6 DEF SpiStep

(* ... and by the other buses'.                                            *)
LEMMA RxShapeSlot ==
  ASSUME BusInv, ~dead, SlotStep
  PROVE  RxShape'
<1>0. /\ BusTypeOK /\ RxShape /\ bus # "spi" /\ UNCHANGED <<bus, at>>
      /\ rd \in [pc: {"take", "up", "pop", "check", "flow", "tell", "process"}, prio: Packet,
                 fresh: BOOLEAN]
      /\ rx \in [arrived: Seq(Packet), new: [Prio -> 0 .. RxQ], old: [Prio -> 0 .. RxQ],
                 sem: 0 .. 3 * RxQ]
      /\ pool \in [tx: Nat, rx: Nat]
  BY RxParts, SlotRecord, SlotBounds DEF BusInv, SlotStep
<1>1. CASE \E w \in Writers : WriteStep(w)
  <2>1. UNCHANGED <<up, rx, prod, rd, unload>> /\ pool'.rx = pool.rx
    BY <1>0, <1>1
       DEF WriteStep, WriteBegins, TakeSlot, TakeBlock, SlotPut, PutFails, UartPut
  <2> QED
    BY <1>0, <2>1 DEF RxShape
<1>2. CASE TxLoads \/ HostReads \/ HostSeesInts \/ TxDone \/ HostDeepWakes
  <2>1. UNCHANGED <<up, rx, prod, rd, unload>> /\ pool'.rx = pool.rx
    BY <1>0, <1>2 DEF TxLoads, HostReads, HostSeesInts, TxDone, HostDeepWakes
  <2> QED
    BY <1>0, <2>1 DEF RxShape
<1>3. CASE HostSends
  <2>1. /\ UNCHANGED <<up, prod, rd, unload>> /\ rx'.old = rx.old
        /\ up /\ unload.at \notin {"stopped", "reset"}
    BY <1>0, <1>3 DEF HostSends, Serving
  <2> QED
    BY <1>0, <2>1 DEF RxShape
<1>4. CASE SdioStops
  <2>1. /\ bus = "sdio" /\ prod' = prod /\ rd'.pc = rd.pc /\ rd'.fresh = FALSE
        /\ pool'.rx = 0 /\ rx'.arrived = <<>> /\ \A p \in Prio : rx'.new[p] = 0
    BY <1>0, <1>4 DEF SdioStops, UnloadShape, BusInv
  <2> QED
    BY <1>0, <2>1 DEF RxShape
<1>5. CASE SdioDeletes
  <2>1. /\ bus = "sdio" /\ prod'.pc = "gone" /\ up' /\ unload'.at = "deleted"
        /\ UNCHANGED <<pool, rx, rd>>
    BY <1>5 DEF SdioDeletes
  <2> QED
    BY <1>0, <2>1 DEF RxShape
<1>6. CASE SdioResets \/ SdioReclaims \/ SdioGoes
  <2>1. /\ bus = "sdio" /\ unload.at \in {"stopped", "reset"}
        /\ UNCHANGED <<prod, rx, rd>> /\ pool'.rx = pool.rx
    BY <1>0, <1>6 DEF SdioResets, SdioReclaims, SdioGoes, UnloadShape, BusInv
  <2> QED
    BY <1>0, <2>1 DEF RxShape
<1>7. CASE SdioUp
  <2>1. /\ bus = "sdio" /\ up' = TRUE /\ unload' = unload /\ prod'.pc = "idle"
        /\ unload.at = "no" /\ UNCHANGED <<rx, rd>>
    BY <1>0, <1>7, RxParts, SlotRecord DEF SdioUp, UnloadShape, BusInv
  <2> QED
    BY <1>0, <2>1 DEF RxShape
<1> QED
  BY <1>1, <1>2, <1>3, <1>4, <1>5, <1>6, <1>7 DEF SlotStep

(* The shape of the receive path is kept.                                  *)
LEMMA RxShapeKept ==
  ASSUME BusInv, ~dead, RxStep \/ SpiStep \/ SlotStep
  PROVE  RxShape'
  BY RxShapeRx, RxShapeSpi, RxShapeSlot

(* The shape of the writers.                                               *)
LEMMA SlotShapeKept ==
  ASSUME BusInv, ~dead, RxStep \/ SpiStep \/ SlotStep
  PROVE  SlotShape'
<1>0. /\ BusTypeOK /\ RxShape /\ SlotShape /\ bus \in Bus
      /\ thr \in [current: BOOLEAN, flow: BOOLEAN, trig: 0 .. 1,
                  ints: SUBSET {"on", "off"}, host: BOOLEAN]
      /\ prod \in [pc: {"idle", "check", "flow", "tell", "put", "give", "gone"}, prio: Packet]
      /\ dma \in Seq(Said)
      /\ link \in [dr: BOOLEAN, loaded: BOOLEAN, ready: 0 .. 1]
      /\ wr \in [Writers -> [pc: WrPc, says: Said, block: BOOLEAN, slot: BOOLEAN]]
  BY RxParts, SlotRecord DEF BusInv
<1>1. ASSUME UNCHANGED <<bus, slotVars>>, bus # "spi_hd" => thr'.trig = thr.trig
      PROVE  SlotShape'
  BY <1>0, <1>1 DEF SlotShape, WriterShape
<1>2. CASE RxStep
  <2>1. UNCHANGED <<bus, slotVars>>
    BY <1>2 DEF RxStep, ProdStep, RdStep, ProdReceives, ProdChecks, ProdFlow, ProdTells,
         ProdPuts, ProdGives, RdTakes, RdLooks, RdPops, RdChecks, RdFlow, RdTells, RdProcesses
  <2>2. bus # "spi_hd" => thr'.trig = thr.trig
    <3>1. CASE ProdTells \/ RdTells
      <4>1. bus # "spi_hd" => bus = "sdio"
        BY <1>0, <3>1 DEF ProdTells, RdTells, RxShape, Bus
      <4> QED
        BY <1>0, <3>1, <4>1 DEF ProdTells, RdTells, Tell
    <3>2. CASE ~(ProdTells \/ RdTells)
      <4>1. \/ UNCHANGED thr
            \/ \E b : thr' = [thr EXCEPT !.current = b] \/ thr' = [thr EXCEPT !.flow = b]
        BY <1>2, <3>2 DEF RxStep, ProdStep, RdStep, ProdReceives, ProdChecks, ProdFlow,
         ProdPuts, ProdGives, RdTakes, RdLooks, RdPops, RdChecks, RdFlow, RdProcesses
      <4> QED
        BY <1>0, <4>1
    <3> QED
      BY <3>1, <3>2
  <2> QED
    BY <1>1, <2>1, <2>2
<1>3. CASE SpiStep
  <2>1. UNCHANGED <<bus, slotVars>>
    BY <1>3 DEF SpiStep, RaiseStep, LoadStep, SpiWrite, SpiPut, SpiGive, SetDataReady,
       SetDataReadyFlag, NextBuffer, ResetDataReady, ResetDataReadyFlag, NextDummy, Attach,
       PostResult, PostFinish, HostClocks, SpiReload
  <2>2. UNCHANGED thr \/ \E b : thr' = [thr EXCEPT !.current = b] \/ thr' = [thr EXCEPT !.host = b]
    BY <1>3 DEF SpiStep, RaiseStep, LoadStep, SpiWrite, SpiPut, SpiGive, SetDataReady,
       SetDataReadyFlag, NextBuffer, ResetDataReady, ResetDataReadyFlag, NextDummy, Attach,
       PostResult, PostFinish, HostClocks, SpiReload
  <2>3. thr'.trig = thr.trig
    BY <1>0, <2>2
  <2> QED
    BY <1>1, <2>1, <2>3
<1>4. ASSUME SlotStep, NEW w \in Writers, WriteStep(w)
      PROVE  SlotShape'
  <2>0. /\ bus # "spi" /\ WriterShape(w) /\ UNCHANGED <<bus, fin, td, link>>
        /\ \A u \in Writers \ {w} : wr'[u] = wr[u]
    BY <1>0, <1>4, OneWriter DEF SlotStep, SlotShape
  <2>1. \A u \in Writers \ {w} : WriterShape(u)'
    BY <1>0, <2>0 DEF SlotShape, WriterShape
  <2>2. WriterShape(w)'
    <3>1. CASE WriteBegins(w)
      <4>1. /\ wr[w].pc = "idle"
            /\ wr'[w].pc = IF bus = "spi_hd" THEN "slot" ELSE "alloc"
            /\ wr'[w].says = IF w # "flow" THEN "none" ELSE IF thr.flow THEN "on" ELSE "off"
            /\ wr'[w].block = wr[w].block /\ wr'[w].slot = wr[w].slot
            /\ w = "flow" => thr.trig = 1
        BY <1>0, <3>1 DEF WriteBegins
      <4> QED
        BY <1>0, <2>0, <4>1 DEF WriterShape, SlotShape
    <3>2. CASE TakeSlot(w)
      <4>1. /\ wr[w].pc = "slot" /\ wr'[w].pc = IF bus = "spi_hd" THEN "alloc" ELSE "put"
            /\ wr'[w].says = wr[w].says /\ wr'[w].block = wr[w].block /\ wr'[w].slot = TRUE
        BY <1>0, <3>2 DEF TakeSlot
      <4> QED
        BY <1>0, <2>0, <4>1 DEF WriterShape, Bus
    <3>3. CASE TakeBlock(w) /\ pool.tx > 0
      <4>1. /\ wr[w].pc = "alloc" /\ wr'[w].pc = IF bus = "sdio" THEN "slot" ELSE "put"
            /\ wr'[w].says = wr[w].says /\ wr'[w].block = TRUE /\ wr'[w].slot = wr[w].slot
        BY <1>0, <3>3 DEF TakeBlock
      <4> QED
        BY <1>0, <2>0, <4>1 DEF WriterShape, Bus
    <3>4. CASE (TakeBlock(w) /\ ~(pool.tx > 0)) \/ SlotPut(w) \/ PutFails(w) \/ UartPut(w)
      <4>1. wr'[w] = Resting
        BY <1>0, <3>4 DEF TakeBlock, SlotPut, PutFails, UartPut
      <4> QED
        BY <4>1 DEF WriterShape, Resting
    <3> QED
      BY <1>4, <3>1, <3>2, <3>3, <3>4 DEF WriteStep
  <2>3. bus # "spi_hd" => thr'.trig = 0
    <3>1. UNCHANGED thr \/ thr' = [thr EXCEPT !.trig = 0] \/ \E b : thr' = [thr EXCEPT !.host = b]
      BY <1>4 DEF WriteStep, WriteBegins, TakeSlot, TakeBlock, SlotPut, PutFails, UartPut, HostHears
    <3> QED
      BY <1>0, <3>1 DEF SlotShape
  <2>4. /\ bus # "spi_hd" => \A i \in DOMAIN dma' : dma'[i] = "none"
        /\ bus = "uart" => dma' = <<>>
        /\ dma # <<>> => dma' # <<>>
    <3>1. CASE UNCHANGED dma
      BY <1>0, <3>1 DEF SlotShape
    <3>2. CASE SlotPut(w)
      <4>1. dma' = Append(dma, wr[w].says) /\ bus # "uart" /\ wr[w].says \in Said
        BY <1>0, <3>2 DEF SlotPut
      <4>2. bus # "spi_hd" => wr[w].says = "none"
        BY <2>0 DEF WriterShape
      <4>3. bus # "spi_hd" => \A i \in DOMAIN dma : dma[i] = "none"
        BY <1>0 DEF SlotShape
      <4> QED
        BY <1>0, <4>1, <4>2, <4>3
    <3>3. SlotPut(w) \/ UNCHANGED dma
      BY <1>4 DEF WriteStep, WriteBegins, TakeSlot, TakeBlock, PutFails, UartPut
    <3> QED
      BY <3>1, <3>2, <3>3
  <2> QED
    BY <1>0, <2>0, <2>1, <2>2, <2>3, <2>4 DEF SlotShape
<1>5. ASSUME SlotStep, OtherSlotStep
      PROVE  SlotShape'
  <2>0. bus # "spi" /\ UNCHANGED <<bus, wr>>
    BY <1>5, OtherMoves DEF SlotStep
  <2>1. \A w \in Writers : WriterShape(w)'
    BY <1>0, <2>0 DEF SlotShape, WriterShape
  <2>2. thr'.trig = thr.trig
    <3>1. CASE HostSeesInts
      <4>1. \E b : thr' = [[thr EXCEPT !.ints = {}] EXCEPT !.host = b]
        BY <1>0, <3>1 DEF HostSeesInts
      <4> QED
        BY <1>0, <4>1
    <3>2. CASE ~HostSeesInts
      <4>1. UNCHANGED thr \/ \E b : thr' = [thr EXCEPT !.host = b] \/ thr' = [thr EXCEPT !.ints = b]
        BY <1>5, <3>2 DEF OtherSlotStep, TxLoads, HostReads, TxDone, HostSends, HostDeepWakes,
             SdioDeletes, SdioStops, SdioResets, SdioReclaims, SdioGoes, SdioUp, HostHears
      <4> QED
        BY <1>0, <4>1
    <3> QED
      BY <3>1, <3>2
  <2>3. CASE TxLoads \/ HostSeesInts \/ HostSends \/ HostDeepWakes
    <3>1. UNCHANGED <<dma, fin, td>>
      BY <2>3 DEF TxLoads, HostSeesInts, HostSends, HostDeepWakes
    <3>2. link'.loaded => link.loaded \/ dma # <<>>
      BY <1>0, <2>3 DEF TxLoads, Loaded, HostSeesInts, HostSends, HostDeepWakes
    <3> QED
      BY <1>0, <2>0, <2>1, <2>2, <3>1, <3>2 DEF SlotShape
  <2>4. CASE HostReads
    <3>1. /\ bus # "uart" /\ UNCHANGED td
          /\ \/ UNCHANGED <<dma, fin>> /\ (link'.loaded => link.loaded)
             \/ dma' = Tail(dma) /\ dma # <<>> /\ (bus = "spi_hd" => ~link'.loaded)
      BY <1>0, <2>4 DEF HostReads, SlotShape
    <3>2. ASSUME dma # <<>>, \A i \in DOMAIN dma : dma[i] = "none"
          PROVE  \A i \in DOMAIN Tail(dma) : Tail(dma)[i] = "none"
      BY <1>0, <3>2
    <3> QED
      BY <1>0, <2>0, <2>1, <2>2, <3>1, <3>2 DEF SlotShape
  <2>5. CASE TxDone
    <3>1. bus # "uart" /\ UNCHANGED <<dma, link>> /\ td' # "gone"
      BY <1>0, <2>5 DEF TxDone, SlotShape
    <3> QED
      BY <1>0, <2>0, <2>1, <2>2, <3>1 DEF SlotShape
  <2>6. CASE SdioDeletes \/ SdioStops \/ SdioResets \/ SdioReclaims \/ SdioGoes \/ SdioUp
    <3>1. bus = "sdio" /\ (UNCHANGED dma \/ dma' = <<>>)
      BY <2>6 DEF SdioDeletes, SdioStops, SdioResets, SdioReclaims, SdioGoes, SdioUp,
                  UnloadShape, BusInv
    <3> QED
      BY <1>0, <2>0, <2>1, <2>2, <3>1 DEF SlotShape
  <2> QED
    BY <1>5, <2>3, <2>4, <2>5, <2>6 DEF OtherSlotStep
<1> QED
  BY <1>2, <1>3, <1>4, <1>5 DEF SlotStep, OtherSlotStep

(* A write changes nothing of how far SDIO has been unloaded.              *)
LEMMA UnloadWrites ==
  ASSUME NEW w \in Writers, WriteStep(w)
  PROVE  /\ UNCHANGED <<bus, up, prod, td, unload, fin>>
         /\ SlotPut(w) \/ UNCHANGED dma
         /\ SlotPut(w) => "late" \in busHarm' \/ unload.at # "reset"
         /\ "overfull" \in busHarm <=> "overfull" \in busHarm'
         /\ "late" \in busHarm => "late" \in busHarm'
  BY DEF WriteStep, WriteBegins, TakeSlot, TakeBlock, SlotPut, PutFails, UartPut, BusHarm

(* The record of how far SDIO is unloaded is kept.                         *)
LEMMA UnloadShapeKept ==
  ASSUME BusInv, ~dead, RxStep \/ SpiStep \/ SlotStep
  PROVE  UnloadShape'
<1>0. /\ BusTypeOK /\ RxShape /\ SlotShape /\ UnloadShape
      /\ prod \in [pc: {"idle", "check", "flow", "tell", "put", "give", "gone"}, prio: Packet]
      /\ unload \in [at: {"no", "deleted", "stopped", "reset"}, tries: 0 .. Reclaim]
      /\ fin \in Nat /\ dma \in Seq(Said) /\ Reclaim \in Nat
  BY RxParts, SlotRecord, BusAssumption DEF BusInv
<1>1. CASE RxStep
  <2>1. /\ UNCHANGED <<bus, up, slotVars>>
        /\ "overfull" \in busHarm' <=> "overfull" \in busHarm
        /\ "late" \in busHarm' <=> "late" \in busHarm
    BY <1>1 DEF RxStep, ProdStep, RdStep, ProdReceives, ProdChecks, ProdFlow, ProdTells,
         ProdPuts, ProdGives, RdTakes, RdLooks, RdPops, RdChecks, RdFlow, RdTells, RdProcesses,
         BusHarm
  <2>2. prod'.pc = "gone" <=> prod.pc = "gone"
    BY <1>0, <1>1 DEF RxStep, ProdStep, RdStep, ProdReceives, ProdChecks, ProdFlow, ProdTells,
         ProdPuts, ProdGives, RdTakes, RdLooks, RdPops, RdChecks, RdFlow, RdTells, RdProcesses,
         ProdTo
  <2> QED
    BY <1>0, <2>1, <2>2 DEF UnloadShape
<1>2. CASE SpiStep
  <2>1. bus = "spi" /\ UNCHANGED <<bus, slotVars>>
    BY <1>2 DEF SpiStep, RaiseStep, LoadStep, SpiWrite, SpiPut, SpiGive, SetDataReady,
       SetDataReadyFlag, NextBuffer, ResetDataReady, ResetDataReadyFlag, NextDummy, Attach,
       PostResult, PostFinish, HostClocks, SpiReload
  <2> QED
    BY <1>0, <2>1 DEF UnloadShape
<1>3. ASSUME NEW w \in Writers, WriteStep(w)
      PROVE  UnloadShape'
  BY <1>0, <1>3, UnloadWrites DEF UnloadShape
<1>4. CASE TxLoads \/ HostSeesInts \/ HostSends \/ HostDeepWakes \/ SdioStops
  <2>1. /\ UNCHANGED <<bus, up, prod, td, fin, dma>>
        /\ UNCHANGED unload \/ (unload.at = "deleted" /\ unload' = [unload EXCEPT !.at = "stopped"])
        /\ "overfull" \in busHarm' <=> "overfull" \in busHarm
        /\ "late" \in busHarm' <=> "late" \in busHarm
    BY <1>4 DEF TxLoads, HostSeesInts, HostSends, HostDeepWakes, SdioStops, BusHarm
  <2>2. CASE UNCHANGED unload
    BY <1>0, <2>1, <2>2 DEF UnloadShape
  <2>3. CASE unload.at = "deleted" /\ unload' = [unload EXCEPT !.at = "stopped"]
    <3>1. unload'.at = "stopped" /\ unload'.tries = unload.tries
      BY <1>0, <2>3
    <3> QED
      BY <1>0, <2>1, <2>3, <3>1 DEF UnloadShape
  <2> QED
    BY <2>1, <2>2, <2>3
<1>5. CASE HostReads
  <2>1. /\ UNCHANGED <<bus, up, prod, td, unload, busHarm>> /\ unload.at # "reset"
    BY <1>5 DEF HostReads, Serving
  <2> QED
    BY <1>0, <2>1 DEF UnloadShape
<1>6. CASE TxDone
  <2>1. /\ UNCHANGED <<bus, up, prod, unload, busHarm>> /\ td # "gone" /\ td' # "gone"
        /\ bus # "spi_hd" => unload.at = "no"
    BY <1>0, <1>6 DEF TxDone, UnloadShape
  <2> QED
    BY <1>0, <2>1 DEF UnloadShape
<1>7. CASE SdioDeletes
  <2>1. /\ bus = "sdio" /\ up /\ UNCHANGED <<bus, up>> /\ prod'.pc = "gone" /\ td' = "gone"
        /\ unload'.at = "deleted" /\ unload'.tries = Reclaim
    BY <1>7 DEF SdioDeletes
  <2> QED
    BY <2>1 DEF UnloadShape
<1>8. CASE SdioResets
  <2>1. /\ UNCHANGED <<bus, up, prod, td>> /\ dma' = <<>>
        /\ unload.at = "stopped" /\ unload'.at = "reset" /\ unload'.tries = Reclaim
        /\ fin' > Reclaim => "overfull" \in busHarm'
    BY <1>0, <1>8 DEF SdioResets, BusHarm, UnloadShape
  <2>2. fin' \in Nat
    BY <1>0, <1>8 DEF SdioResets
  <2> QED
    BY <1>0, <2>1, <2>2 DEF UnloadShape
<1>9. CASE SdioReclaims
  <2>1. /\ UNCHANGED <<bus, up, prod, td, dma, busHarm>>
        /\ unload.at = "reset" /\ unload'.at = "reset" /\ unload'.tries = unload.tries - 1
        /\ unload.tries > 0 /\ unload.tries \in Nat
    BY <1>0, <1>9 DEF SdioReclaims
  <2>2. (fin > 0 /\ fin' = fin - 1) \/ (fin = 0 /\ fin' = 0)
    BY <1>0, <1>9 DEF SdioReclaims
  <2> QED
    BY <1>0, <2>1, <2>2 DEF UnloadShape
<1>10. CASE SdioGoes
  <2>1. /\ UNCHANGED <<bus, prod, td>> /\ up' = FALSE /\ unload.at = "reset" /\ unload'.at = "no"
    BY <1>0, <1>10 DEF SdioGoes
  <2> QED
    BY <1>0, <2>1 DEF UnloadShape
<1>11. CASE SdioUp
  <2>1. /\ UNCHANGED <<bus, unload>> /\ up' /\ unload.at = "no"
        /\ prod'.pc = "idle" /\ td' = "idle"
    BY <1>0, <1>11 DEF SdioUp, UnloadShape
  <2> QED
    BY <1>0, <2>1 DEF UnloadShape
<1> QED
  BY <1>1, <1>2, <1>3, <1>4, <1>5, <1>6, <1>7, <1>8, <1>9, <1>10, <1>11 DEF SlotStep

-----------------------------------------------------------------------------
(* The queues and their semaphore.                                         *)

(* One queue changes.                                                      *)
LEMMA TotalWith ==
  ASSUME NEW f \in [Prio -> Nat], NEW p \in Prio, NEW n \in Nat
  PROVE  Total([f EXCEPT ![p] = n]) \in Nat /\ Total(f) \in Nat
         /\ Total([f EXCEPT ![p] = n]) + f[p] = Total(f) + n
<1>1. f["serial"] \in Nat /\ f["bt"] \in Nat /\ f["others"] \in Nat
  OBVIOUS
<1>2. CASE p = "serial"
  BY <1>1, <1>2 DEF Total
<1>3. CASE p = "bt"
  BY <1>1, <1>3 DEF Total
<1>4. CASE p = "others"
  BY <1>1, <1>4 DEF Total
<1> QED
  BY <1>2, <1>3, <1>4

(* A packet is queued.                                                     *)
LEMMA PutsTotal ==
  ASSUME BusInv, ProdPuts
  PROVE  /\ Total(rx'.new) = Total(rx.new) + 1 /\ Total(rx'.old) = Total(rx.old)
         /\ rx'.arrived = rx.arrived /\ rx'.sem = rx.sem /\ prod'.pc = "give" /\ prod.pc = "put"
<1>1. BusTypeOK /\ prod.prio \in Prio
  BY DEF BusInv, RxShape, ProdPuts
<1> DEFINE p == prod.prio
<1>2. rx' = [rx EXCEPT !.new[p] = rx.new[p] + 1]
  BY DEF ProdPuts
<1>3. /\ rx'.new = [rx.new EXCEPT ![p] = rx.new[p] + 1]
      /\ rx'.old = rx.old /\ rx'.arrived = rx.arrived /\ rx'.sem = rx.sem
  BY <1>1, <1>2, RxParts
<1>4. rx.new \in [Prio -> Nat] /\ rx.new[p] \in Nat /\ rx.new[p] + 1 \in Nat
  <2>1. rx.new \in [Prio -> 0 .. RxQ]
    BY <1>1, RxRecord
  <2> QED
    BY <1>1, <2>1, Constants
<1>5. Total(rx'.new) = Total(rx.new) + 1
  <2> HIDE DEF p
  <2>1. /\ Total(rx'.new) \in Nat /\ Total(rx.new) \in Nat
        /\ Total(rx'.new) + rx.new[p] = Total(rx.new) + (rx.new[p] + 1)
    BY <1>1, <1>3, <1>4, TotalWith DEF p
  <2> QED
    BY <1>4, <2>1
<1>6. prod'.pc = "give" /\ prod.pc = "put"
  BY <1>1, RxParts DEF ProdPuts, ProdTo
<1> QED
  BY <1>3, <1>5, <1>6

(* A packet is read, if there is one.                                      *)
LEMMA PopsTotal ==
  ASSUME BusTypeOK, RdPops
  PROVE  \/ UNCHANGED rx /\ Queued = 0 /\ rd'.pc = "take" /\ rd'.fresh = rd.fresh
         \/ /\ rx'.arrived = rx.arrived /\ rx'.sem = rx.sem
            /\ rd'.pc = IF Throttles THEN "check" ELSE "process"
            /\ \/ /\ rd'.fresh = TRUE /\ Total(rx'.old) = Total(rx.old)
                  /\ Total(rx'.new) = Total(rx.new) - 1 /\ Total(rx.new) > 0
               \/ /\ rd'.fresh = FALSE /\ Total(rx'.new) = Total(rx.new)
                  /\ Total(rx'.old) = Total(rx.old) - 1 /\ Total(rx.old) > 0
<1> DEFINE p == First(Waiting)
<1>1. p \in Prio /\ (Depth(p) = 0 => \A q \in Prio : Depth(q) = 0)
  <2>1. \A q \in Prio : Depth(q) \in Nat
    BY Totals
  <2> QED
    BY <2>1 DEF First, Waiting
<1>2. rx.new \in [Prio -> Nat] /\ rx.old \in [Prio -> Nat]
  BY RxRecord, Constants
<1>3. CASE Depth(p) = 0
  <2>1. \A q \in Prio : rx.new[q] = 0 /\ rx.old[q] = 0
    <3>1. \A q \in Prio : rx.new[q] \in Nat /\ rx.old[q] \in Nat /\ Depth(q) = 0
      BY <1>1, <1>3, Totals
    <3> QED
      BY <3>1 DEF Depth
  <2>2. Queued = 0
    BY <2>1 DEF Queued, Total
  <2> QED
    BY <1>3, <2>2, RxParts DEF RdPops, RdTo
<1>4. CASE Depth(p) # 0
  <2>1. /\ rx' = IF rx.old[p] > 0 THEN [rx EXCEPT !.old[p] = @ - 1]
                 ELSE [rx EXCEPT !.new[p] = @ - 1]
        /\ rd' = [prio |-> p, fresh |-> rx.old[p] = 0,
                  pc |-> IF Throttles THEN "check" ELSE "process"]
    BY <1>4 DEF RdPops
  <2>2. rd'.pc = (IF Throttles THEN "check" ELSE "process") /\ rd'.fresh = (rx.old[p] = 0)
    BY <2>1, Zenon
  <2>3. rx.new[p] \in Nat /\ rx.old[p] \in Nat /\ (rx.old[p] = 0 => rx.new[p] > 0)
    BY <1>1, <1>2, <1>4 DEF Depth
  <2> HIDE DEF p
  <2>4. CASE rx.old[p] > 0
    <3>1. /\ rx'.old = [rx.old EXCEPT ![p] = rx.old[p] - 1] /\ rx'.new = rx.new
          /\ rx'.arrived = rx.arrived /\ rx'.sem = rx.sem
      BY <2>1, <2>4, RxParts
    <3>2. rd'.fresh = FALSE
      <4>1. ~(rx.old[p] = 0)
        BY <2>3, <2>4
      <4> QED
        BY <2>2, <4>1
    <3>3. Total(rx'.old) = Total(rx.old) - 1 /\ Total(rx.old) > 0
      <4>1. rx.old[p] - 1 \in Nat
        BY <2>3, <2>4
      <4>2. /\ Total(rx'.old) \in Nat /\ Total(rx.old) \in Nat
            /\ Total(rx'.old) + rx.old[p] = Total(rx.old) + (rx.old[p] - 1)
        BY <1>1, <1>2, <3>1, <4>1, TotalWith DEF p
      <4> QED
        BY <2>3, <2>4, <4>2
    <3> QED
      BY <2>2, <3>1, <3>2, <3>3
  <2>5. CASE rx.old[p] = 0
    <3>1. /\ rx'.new = [rx.new EXCEPT ![p] = rx.new[p] - 1] /\ rx'.old = rx.old
          /\ rx'.arrived = rx.arrived /\ rx'.sem = rx.sem
      BY <2>1, <2>5, RxParts
    <3>2. rd'.fresh = TRUE
      BY <2>2, <2>5
    <3>3. Total(rx'.new) = Total(rx.new) - 1 /\ Total(rx.new) > 0
      <4>1. rx.new[p] - 1 \in Nat
        BY <2>3, <2>5
      <4>2. /\ Total(rx'.new) \in Nat /\ Total(rx.new) \in Nat
            /\ Total(rx'.new) + rx.new[p] = Total(rx.new) + (rx.new[p] - 1)
        BY <1>1, <1>2, <3>1, <4>1, TotalWith DEF p
      <4> QED
        BY <2>3, <2>5, <4>2
    <3> QED
      BY <2>2, <3>1, <3>2, <3>3
  <2>6. rx.old[p] > 0 \/ rx.old[p] = 0
    BY <2>3
  <2> QED
    BY <2>4, <2>5, <2>6
<1> QED
  BY <1>3, <1>4

(* An unloading makes all that is queued old.                              *)
LEMMA DownTotal ==
  ASSUME BusTypeOK, SdioStops
  PROVE  /\ Total(rx'.new) = 0 /\ Total(rx'.old) = Queued /\ rx'.arrived = <<>>
         /\ rx'.sem = rx.sem
<1>1. /\ \A p \in Prio : rx'.new[p] = 0 /\ rx'.old[p] = Depth(p)
      /\ rx'.arrived = <<>> /\ rx'.sem = rx.sem
  BY RxParts DEF SdioStops
<1>2. \A p \in Prio : rx.new[p] \in Nat /\ rx.old[p] \in Nat
  BY Totals
<1>3. Total(rx'.new) = 0
  BY <1>1 DEF Total
<1>4. /\ rx'.old["serial"] = rx.new["serial"] + rx.old["serial"]
      /\ rx'.old["bt"] = rx.new["bt"] + rx.old["bt"]
      /\ rx'.old["others"] = rx.new["others"] + rx.old["others"]
  BY <1>1 DEF Depth
<1>5. /\ rx.new["serial"] \in Nat /\ rx.new["bt"] \in Nat /\ rx.new["others"] \in Nat
      /\ rx.old["serial"] \in Nat /\ rx.old["bt"] \in Nat /\ rx.old["others"] \in Nat
  BY <1>2
<1>6. Total(rx'.old) = Queued
  BY <1>4, <1>5 DEF Total, Queued
<1> QED
  BY <1>1, <1>3, <1>6

(* History is not forgotten.                                               *)
LEMMA HarmGrows ==
  ASSUME RxStep \/ SpiStep \/ SlotStep
  PROVE  busHarm \subseteq busHarm'
<1>1. CASE (\E w \in Writers : PutFails(w)) \/ SdioDeletes
  BY <1>1 DEF PutFails, SdioDeletes
<1>2. CASE ~((\E w \in Writers : PutFails(w)) \/ SdioDeletes)
  <2>1. \/ UNCHANGED busHarm
        \/ \E h, c : BusHarm(h, c)
    BY <1>2
       DEF RxStep, SpiStep, SlotStep, ProdStep, RdStep, RaiseStep, LoadStep, WriteStep,
         ProdReceives, ProdChecks, ProdFlow, ProdTells, ProdPuts, ProdGives, RdTakes, RdLooks,
         RdPops, RdChecks, RdFlow, RdTells, RdProcesses, SpiWrite, SpiPut, SpiGive, SetDataReady,
         SetDataReadyFlag, NextBuffer, ResetDataReady, ResetDataReadyFlag, NextDummy, Attach,
         PostResult, PostFinish, HostClocks, SpiReload, WriteBegins, TakeSlot, TakeBlock, SlotPut,
         UartPut, TxLoads, HostReads, HostSeesInts, TxDone, HostSends, HostDeepWakes,
         SdioStops, SdioResets, SdioReclaims, SdioGoes, SdioUp
  <2> QED
    BY <2>1 DEF BusHarm
<1> QED
  BY <1>1, <1>2

Giving == IF prod.pc = "give" THEN 1 ELSE 0
Taken == IF rd.pc \in {"up", "pop"} THEN 1 ELSE 0

(* The semaphore counts what is queued.                                    *)
LEMMA TokensKept ==
  ASSUME BusInv, ~dead, RxStep \/ SpiStep \/ SlotStep
  PROVE  TokensMatch'
<1> DEFINE new == Total(rx.new)
           old == Total(rx.old)
           new2 == Total(rx'.new)
           old2 == Total(rx'.old)
           sem == rx.sem
           sem2 == rx'.sem
           give == Giving
           give2 == Giving'
           taken == Taken
           taken2 == Taken'
<1>0. BusTypeOK /\ RxShape /\ UnloadShape /\ TokensMatch /\ RxQ \in Nat
  BY Constants DEF BusInv
<1> SUFFICES ASSUME busHarm' \intersect {"token_lost", "rx_killed"} = {}
             PROVE  sem2 + give2 + taken2 = new2 + old2
  BY DEF TokensMatch, Queued, Giving, Taken
<1>1. sem + give + taken = new + old
  <2>1. busHarm \intersect {"token_lost", "rx_killed"} = {}
    BY HarmGrows
  <2> QED
    BY <1>0, <2>1 DEF TokensMatch, Queued, Giving, Taken
<1>2. new \in Nat /\ old \in Nat /\ sem \in Nat /\ give \in {0, 1} /\ taken \in {0, 1}
      /\ new + old <= 3 * RxQ
  <2>1. sem \in Nat
    BY <1>0, RxRecord
  <2> QED
    BY <1>0, <2>1, Totals DEF Giving, Taken, Queued
<1>3. ASSUME new2 = new, old2 = old, sem2 = sem, give2 = give, taken2 = taken
      PROVE  sem2 + give2 + taken2 = new2 + old2
  BY <1>1, <1>3
<1>4. ASSUME UNCHANGED <<rd, rx>>, prod'.pc = "give" <=> prod.pc = "give"
      PROVE  sem2 + give2 + taken2 = new2 + old2
  BY <1>3, <1>4 DEF Giving, Taken
<1>5. CASE ProdReceives
  <2>1. UNCHANGED rd /\ prod.pc = "idle" /\ prod'.pc # "give"
    BY <1>5 DEF ProdReceives
  <2>2. rx'.new = rx.new /\ rx'.old = rx.old /\ rx'.sem = rx.sem
    BY <1>0, <1>5, RxParts DEF ProdReceives
  <2> QED
    BY <1>3, <2>1, <2>2 DEF Giving, Taken
<1>6. CASE ProdChecks \/ ProdFlow \/ ProdTells
  <2>1. UNCHANGED <<rx, rd>> /\ prod'.pc # "give" /\ prod.pc # "give"
    BY <1>0, <1>6, RxParts DEF ProdChecks, ProdFlow, ProdTells, ProdTo
  <2> QED
    BY <1>4, <2>1
<1>7. CASE ProdPuts
  <2>1. new2 = new + 1 /\ old2 = old /\ sem2 = sem /\ give2 = 1 /\ give = 0 /\ taken2 = taken
    BY <1>0, <1>7, PutsTotal DEF Giving, Taken, ProdPuts
  <2> HIDE DEF new, old, new2, old2, sem, sem2, give, give2, taken, taken2
  <2> QED
    BY <1>1, <1>2, <2>1
<1>8. CASE ProdGives
  <2>1. /\ new2 = new /\ old2 = old /\ sem2 = (IF sem < 3 * RxQ THEN sem + 1 ELSE sem)
        /\ give2 = 0 /\ give = 1 /\ taken2 = taken
    BY <1>0, <1>8, RxParts DEF Giving, Taken, ProdGives, ProdTo
  <2> HIDE DEF new, old, new2, old2, sem, sem2, give, give2, taken, taken2
  <2> QED
    BY <1>0, <1>1, <1>2, <2>1
<1>9. CASE RdTakes
  <2>1. /\ new2 = new /\ old2 = old /\ sem2 = sem - 1 /\ give2 = give /\ taken = 0 /\ taken2 = 1
    BY <1>0, <1>9, RxParts DEF Giving, Taken, RdTakes, RdTo
  <2> HIDE DEF new, old, new2, old2, sem, sem2, give, give2, taken, taken2
  <2> QED
    BY <1>1, <1>2, <2>1
<1>10. CASE RdLooks
  <2>1. up
    BY <1>10 DEF RdLooks, BusHarm
  <2>2. UNCHANGED <<rx, prod>> /\ rd.pc = "up" /\ rd'.pc = "pop"
    BY <1>0, <1>10, <2>1, RxParts DEF RdLooks, RdTo
  <2> QED
    BY <1>3, <2>2 DEF Giving, Taken
<1>11. CASE RdPops
  <2>1. /\ give2 = give /\ taken = 1 /\ taken2 = 0
        /\ \/ sem2 = sem /\ new2 = new /\ old2 = old /\ new + old = 0
           \/ sem2 = sem /\ new2 = new - 1 /\ old2 = old
           \/ sem2 = sem /\ new2 = new /\ old2 = old - 1
    BY <1>0, <1>11, PopsTotal DEF Giving, Taken, RdPops, Queued
  <2> HIDE DEF new, old, new2, old2, sem, sem2, give, give2, taken, taken2
  <2> QED
    BY <1>1, <1>2, <2>1
<1>12. CASE RdChecks \/ RdFlow \/ RdTells \/ RdProcesses
  <2>1. UNCHANGED <<rx, prod>> /\ rd.pc \notin {"up", "pop"} /\ rd'.pc \notin {"up", "pop"}
    BY <1>0, <1>12, RxParts DEF RdChecks, RdFlow, RdTells, RdProcesses, RdTo
  <2> QED
    BY <1>3, <2>1 DEF Giving, Taken
<1>13. CASE SpiStep
  <2>1. UNCHANGED <<rx, rd>>
    BY <1>13 DEF SpiStep, RaiseStep, LoadStep, SpiWrite, SpiPut, SpiGive, SetDataReady,
       SetDataReadyFlag, NextBuffer, ResetDataReady, ResetDataReadyFlag, NextDummy, Attach,
       PostResult, PostFinish, HostClocks, SpiReload
  <2>2. prod'.pc = "give" <=> prod.pc = "give"
    <3>1. CASE PostFinish
      <4>1. prod.pc = "idle"
        BY <1>0, <1>13, <3>1 DEF PostFinish, RxShape, SpiStep
      <4> QED
        BY <1>0, <3>1, <4>1, RxParts DEF PostFinish, ProdTo
    <3>2. CASE ~PostFinish
      <4>1. UNCHANGED prod \/ \E p : prod' = [prod EXCEPT !.prio = p]
        BY <1>13, <3>2 DEF SpiStep, RaiseStep, LoadStep, SpiWrite, SpiPut, SpiGive, SetDataReady,
         SetDataReadyFlag, NextBuffer, ResetDataReady, ResetDataReadyFlag, NextDummy, Attach,
         PostResult, HostClocks, SpiReload
      <4> QED
        BY <1>0, <4>1, RxParts
    <3> QED
      BY <3>1, <3>2
  <2> QED
    BY <1>4, <2>1, <2>2
<1>14. CASE SdioStops
  <2>1. prod' = prod /\ rd'.pc = rd.pc
    BY <1>0, <1>14, RxParts DEF SdioStops
  <2>2. new2 = 0 /\ old2 = new + old /\ sem2 = sem /\ give2 = give /\ taken2 = taken
    BY <1>0, <1>14, <2>1, DownTotal DEF Giving, Taken, Queued
  <2> HIDE DEF new, old, new2, old2, sem, sem2, give, give2, taken, taken2
  <2> QED
    BY <1>1, <1>2, <2>2
<1>15. CASE SdioDeletes \/ SdioUp
  <2>1. UNCHANGED <<rd, rx>> /\ prod'.pc # "give"
    BY <1>0, <1>15, RxParts DEF SdioDeletes, SdioUp
  <2>2. prod.pc # "give"
    BY <1>0, <1>15 DEF SdioDeletes, SdioUp, UnloadShape
  <2> QED
    BY <1>4, <2>1, <2>2
<1>16. CASE SlotStep /\ ~(SdioStops \/ SdioDeletes \/ SdioUp)
  <2>1. UNCHANGED <<rd, prod>> /\ (UNCHANGED rx \/ \E a : rx' = [rx EXCEPT !.arrived = a])
    BY <1>16 DEF SlotStep, WriteStep, WriteBegins, TakeSlot, TakeBlock, SlotPut, PutFails, UartPut,
       TxLoads, HostReads, HostSeesInts, TxDone, HostSends, HostDeepWakes, SdioResets,
       SdioReclaims, SdioGoes
  <2>2. rx'.new = rx.new /\ rx'.old = rx.old /\ rx'.sem = rx.sem
    BY <1>0, <2>1, RxParts
  <2> QED
    BY <1>3, <2>1, <2>2 DEF Giving, Taken
<1> QED
  BY <1>5, <1>6, <1>7, <1>8, <1>9, <1>10, <1>11, <1>12, <1>13, <1>14, <1>15,
     <1>16 DEF RxStep, ProdStep, RdStep, SlotStep

-----------------------------------------------------------------------------
(* The receive buffers.                                                    *)

Free == IF bus = "spi" THEN pool.tx ELSE pool.rx
Arrived == IF bus \in {"spi_hd", "sdio"} THEN Len(rx.arrived) ELSE 0
InProd == IF prod.pc \in {"check", "flow", "tell", "put"} THEN 1 ELSE 0
InRd == IF rd.pc \in {"check", "flow", "tell", "process"} /\ rd.fresh THEN 1 ELSE 0

(* The receive path moves buffers and loses none, on any bus.              *)
LEMMA RxFlow ==
  ASSUME BusInv, ~dead, RxStep
  PROVE  /\ UNCHANGED <<bus, up, spiVars, slotVars>> /\ (bus = "spi" => ~dead')
         /\ bus # "uart" \/ ~dead' =>
              Free' + Arrived' + Total(rx'.new) + InProd' + InRd'
                = Free + Arrived + Total(rx.new) + InProd + InRd
<1> DEFINE f == Free
           f2 == Free'
           a == Arrived
           a2 == Arrived'
           n == Total(rx.new)
           n2 == Total(rx'.new)
           p == InProd
           p2 == InProd'
           r == InRd
           r2 == InRd'
<1>0. BusTypeOK /\ RxShape /\ bus \in Bus
  BY Constants DEF BusInv
<1>1. UNCHANGED <<bus, up, spiVars, slotVars>> /\ (bus = "spi" => ~dead')
  BY <1>0 DEF RxShape, RxStep, ProdStep, RdStep, ProdReceives, ProdChecks, ProdFlow, ProdTells,
         ProdPuts, ProdGives, RdTakes, RdLooks, RdPops, RdChecks, RdFlow, RdTells, RdProcesses
<1> SUFFICES ASSUME bus # "uart" \/ ~dead'
             PROVE  f2 + a2 + n2 + p2 + r2 = f + a + n + p + r
  BY <1>1
<1>2. /\ f \in Nat /\ a \in Nat /\ n \in Nat /\ p \in {0, 1} /\ r \in {0, 1}
  <2>1. rx.arrived \in Seq(Packet) /\ pool.tx \in Nat /\ pool.rx \in Nat
    BY <1>0, RxRecord, SlotRecord
  <2>2. f \in Nat /\ a \in Nat
    BY <2>1 DEF Free, Arrived
  <2> QED
    BY <1>0, <2>2, Totals DEF InProd, InRd
<1>3. CASE ProdReceives
  <2> DEFINE q == Head(rx.arrived)
             m == Len(rx.arrived)
  <2>1. /\ rx.arrived \in Seq(Packet) /\ rx.arrived # <<>> /\ bus # "spi"
        /\ rx'.arrived = Tail(rx.arrived) /\ rx'.new = rx.new /\ UNCHANGED <<rd, bus>>
        /\ prod.pc = "idle"
    BY <1>0, <1>3, RxParts DEF ProdReceives
  <2>2. m \in Nat /\ m > 0 /\ Len(rx'.arrived) = m - 1
    BY <2>1
  <2>3. p = 0 /\ p2 = (IF q = "bad" THEN 0 ELSE 1)
    BY <1>3 DEF InProd, ProdReceives
  <2>4. /\ bus = "uart" => (q = "bad" \/ pool.rx # 0)
    BY <1>3 DEF ProdReceives
  <2>5. pool.rx \in Nat /\ pool \in [tx: Nat, rx: Nat]
    BY <1>0, SlotRecord
  <2>6. f2 = IF bus = "uart" THEN (IF q = "bad" THEN f ELSE f - 1)
             ELSE IF q = "bad" THEN f + 1 ELSE f
    BY <1>3, <2>1, <2>4, <2>5 DEF ProdReceives, Free
  <2>7. bus # "uart" => a = m /\ a2 = m - 1
    BY <1>0, <2>1, <2>2 DEF Arrived, Bus
  <2>8. bus = "uart" => a = 0 /\ a2 = 0
    BY <2>1 DEF Arrived
  <2>9. n2 = n /\ r2 = r
    BY <2>1 DEF InRd
  <2> HIDE DEF f, f2, a, a2, n, n2, p, p2, r, r2, m, q
  <2> QED
    BY <1>2, <2>2, <2>3, <2>6, <2>7, <2>8, <2>9
<1>4. CASE ProdChecks \/ ProdFlow \/ ProdTells
  <2>1. UNCHANGED <<bus, rx, rd, pool>> /\ p = 1 /\ p2 = 1
    BY <1>0, <1>4, RxParts DEF ProdChecks, ProdFlow, ProdTells, ProdTo, InProd
  <2> QED
    BY <2>1 DEF Free, Arrived, InRd
<1>5. CASE ProdPuts
  <2>1. n2 = n + 1 /\ a2 = a /\ f2 = f /\ r2 = r /\ p = 1 /\ p2 = 0
    BY <1>5, PutsTotal DEF Free, Arrived, InProd, InRd, ProdPuts
  <2> HIDE DEF f, f2, a, a2, n, n2, p, p2, r, r2
  <2> QED
    BY <1>2, <2>1
<1>6. CASE ProdGives
  <2>1. n2 = n /\ a2 = a /\ f2 = f /\ r2 = r /\ p2 = p
    BY <1>0, <1>6, RxParts DEF Free, Arrived, InProd, InRd, ProdGives, ProdTo
  <2> QED
    BY <2>1
<1>7. CASE RdTakes \/ RdLooks
  <2>1. n2 = n /\ a2 = a /\ f2 = f /\ r2 = r /\ p2 = p
    BY <1>0, <1>7, RxParts DEF Free, Arrived, InProd, InRd, RdTakes, RdLooks, RdTo
  <2> QED
    BY <2>1
<1>8. CASE RdPops
  <2>1. f2 = f /\ p2 = p /\ r = 0
    BY <1>8 DEF Free, InProd, InRd, RdPops
  <2>2. /\ a2 = a
        /\ \/ n2 = n /\ r2 = 0
           \/ n2 = n - 1 /\ r2 = 1
    BY <1>0, <1>1, <1>8, PopsTotal DEF Arrived, InRd
  <2> HIDE DEF f, f2, a, a2, n, n2, p, p2, r, r2
  <2> QED
    BY <1>2, <2>1, <2>2
<1>9. CASE RdChecks \/ RdFlow \/ RdTells
  <2>1. n2 = n /\ a2 = a /\ f2 = f /\ r2 = r /\ p2 = p
    BY <1>0, <1>9, RxParts DEF Free, Arrived, InProd, InRd, RdChecks, RdFlow, RdTells, RdTo
  <2> QED
    BY <2>1
<1>10. CASE RdProcesses
  <2>1. n2 = n /\ a2 = a /\ p2 = p /\ r2 = 0
    BY <1>0, <1>10, RxParts DEF Free, Arrived, InProd, InRd, RdProcesses, RdTo
  <2>2. r = 1 <=> rd.fresh
    BY <1>0, <1>10, RxParts DEF InRd, RdProcesses
  <2>3. f2 = IF rd.fresh THEN f + 1 ELSE f
    BY <1>0, <1>1, <1>10, SlotRecord DEF RdProcesses, Released, Free
  <2> HIDE DEF f, f2, a, a2, n, n2, p, p2, r, r2
  <2> QED
    BY <1>2, <2>1, <2>2, <2>3
<1> QED
  BY <1>3, <1>4, <1>5, <1>6, <1>7, <1>8, <1>9, <1>10 DEF RxStep, ProdStep, RdStep

(* The receive buffers of the other buses, in those terms.                 *)
LEMMA BuffersNow ==
  ASSUME BusTypeOK, RxShape
  PROVE  /\ UartBlocks <=>
              (bus = "uart" /\ ~dead => Free + Arrived + Total(rx.new) + InProd + InRd = RxQ)
         /\ BuffersAllLoaded <=>
              (bus \in {"spi_hd", "sdio"} /\ prod.pc # "gone"
                 => Free + Arrived + Total(rx.new) + InProd + InRd = RxQ)
         /\ BuffersWithin <=>
              (bus \in {"spi_hd", "sdio"}
                 => Free + Arrived + Total(rx.new) + InProd + InRd <= RxQ)
<1> DEFINE n == Total(rx.new)
           m == Len(rx.arrived)
           x == pool.rx
<1>1. bus = "uart" => /\ Free = x /\ Arrived = 0
                      /\ InProd = (IF prod.pc = "put" THEN 1 ELSE 0)
                      /\ InRd = (IF rd.pc = "process" THEN 1 ELSE 0)
  BY DEF RxShape, Free, Arrived, InProd, InRd
<1>2. bus \in {"spi_hd", "sdio"} => Free = x /\ Arrived = m
  BY DEF Free, Arrived
<1>3. UartBlocks <=>
        (bus = "uart" /\ ~dead => x + n + (IF prod.pc = "put" THEN 1 ELSE 0)
                                     + (IF rd.pc = "process" THEN 1 ELSE 0) = RxQ)
  BY DEF UartBlocks
<1>4. /\ BuffersAllLoaded <=>
           (bus \in {"spi_hd", "sdio"} /\ prod.pc # "gone" => x + m + n + InProd + InRd = RxQ)
      /\ BuffersWithin <=> (bus \in {"spi_hd", "sdio"} => x + m + n + InProd + InRd <= RxQ)
  BY DEF BuffersAllLoaded, BuffersWithin, InProd, InRd, Reading
<1>5. x \in Nat /\ x + 0 = x
  BY SlotRecord
<1> HIDE DEF n, m, x
<1> QED
  BY <1>1, <1>2, <1>3, <1>4, <1>5 DEF n

(* The same of the next state.                                             *)
LEMMA BuffersNext ==
  ASSUME BusTypeOK', RxShape'
  PROVE  /\ (bus = "uart" /\ ~dead => Free + Arrived + Total(rx.new) + InProd + InRd = RxQ)'
              => UartBlocks'
         /\ (bus \in {"spi_hd", "sdio"} /\ prod.pc # "gone"
                => Free + Arrived + Total(rx.new) + InProd + InRd = RxQ)'
              => BuffersAllLoaded'
         /\ (bus \in {"spi_hd", "sdio"}
                => Free + Arrived + Total(rx.new) + InProd + InRd <= RxQ)'
              => BuffersWithin'
<1> DEFINE n == Total(rx'.new)
           m == Len(rx'.arrived)
           x == pool'.rx
<1>1. bus' = "uart" => /\ Free' = x /\ Arrived' = 0
                       /\ InProd' = (IF prod'.pc = "put" THEN 1 ELSE 0)
                       /\ InRd' = (IF rd'.pc = "process" THEN 1 ELSE 0)
  BY DEF RxShape, Free, Arrived, InProd, InRd
<1>2. bus' \in {"spi_hd", "sdio"} => Free' = x /\ Arrived' = m
  BY DEF Free, Arrived
<1>3. UartBlocks' <=>
        (bus' = "uart" /\ ~dead' => x + n + (IF prod'.pc = "put" THEN 1 ELSE 0)
                                       + (IF rd'.pc = "process" THEN 1 ELSE 0) = RxQ)
  BY DEF UartBlocks
<1>4. /\ BuffersAllLoaded' <=>
           (bus' \in {"spi_hd", "sdio"} /\ prod'.pc # "gone"
              => x + m + n + InProd' + InRd' = RxQ)
      /\ BuffersWithin' <=>
           (bus' \in {"spi_hd", "sdio"} => x + m + n + InProd' + InRd' <= RxQ)
  BY DEF BuffersAllLoaded, BuffersWithin, InProd, InRd, Reading
<1>5. x \in Nat
  <2>1. PoolOK' /\ RxQ \in Nat
    BY TypePartsNext, BusAssumption
  <2> QED
    BY <2>1 DEF PoolOK
<1>6. x + 0 = x
  BY <1>5
<1> HIDE DEF n, m, x
<1> QED
  BY <1>1, <1>2, <1>3, <1>4, <1>6 DEF n

(* The receive buffers are all accounted for.                              *)
LEMMA BuffersKept ==
  ASSUME BusInv, ~dead, RxStep \/ SpiStep \/ SlotStep
  PROVE  UartBlocks' /\ BuffersAllLoaded' /\ BuffersWithin'
<1> DEFINE sum == Free + Arrived + Total(rx.new) + InProd + InRd
           sum2 == Free' + Arrived' + Total(rx'.new) + InProd' + InRd'
<1>0. /\ BusTypeOK /\ RxShape /\ BusTypeOK' /\ RxShape' /\ UartBlocks /\ BuffersAllLoaded
      /\ UnloadShape /\ UnloadShape' /\ BuffersWithin /\ RxQ \in Nat
  BY TypesKept, RxShapeKept, UnloadShapeKept, Constants DEF BusInv
<1>1. /\ bus = "uart" => sum = RxQ
      /\ bus \in {"spi_hd", "sdio"} => sum <= RxQ
      /\ bus \in {"spi_hd", "sdio"} /\ prod.pc # "gone" => sum = RxQ
  BY <1>0, BuffersNow
<1>2. SUFFICES ASSUME bus' # "spi"
               PROVE  /\ bus' = "uart" /\ ~dead' => sum2 = RxQ
                      /\ bus' \in {"spi_hd", "sdio"} => sum2 <= RxQ
                      /\ bus' \in {"spi_hd", "sdio"} /\ prod'.pc # "gone" => sum2 = RxQ
  BY <1>0, BuffersNext
<1>3. CASE RxStep
  <2>1. UNCHANGED <<bus, up, unload>> /\ (bus # "uart" \/ ~dead' => sum2 = sum)
    BY <1>3, RxFlow
  <2>2. bus \in {"spi_hd", "sdio"} => (prod'.pc = "gone" <=> prod.pc = "gone")
    BY <1>0, <2>1 DEF RxShape, UnloadShape
  <2> HIDE DEF sum, sum2
  <2> QED
    BY <1>1, <2>1, <2>2
<1>4. CASE SpiStep
  <2>1. bus' = "spi"
    BY <1>4 DEF SpiStep, RaiseStep, LoadStep, SpiWrite, SpiPut, SpiGive, SetDataReady,
       SetDataReadyFlag, NextBuffer, ResetDataReady, ResetDataReadyFlag, NextDummy, Attach,
       PostResult, PostFinish, HostClocks, SpiReload
  <2> QED
    BY <1>2, <2>1
<1>5. CASE SlotStep
  <2>0. bus # "spi" /\ UNCHANGED bus /\ pool \in [tx: Nat, rx: Nat]
    BY <1>0, <1>5, SlotBounds, SlotRecord DEF SlotStep, BusInv
  <2> DEFINE f == Free
             f2 == Free'
             a == Arrived
             a2 == Arrived'
             n == Total(rx.new)
             n2 == Total(rx'.new)
             p == InProd
             p2 == InProd'
             r == InRd
             r2 == InRd'
  <2>a. f \in Nat /\ a \in Nat /\ n \in Nat /\ p \in {0, 1} /\ r \in {0, 1}
    <3>1. rx.arrived \in Seq(Packet) /\ pool.tx \in Nat /\ pool.rx \in Nat
      BY <1>0, RxRecord, SlotRecord
    <3>2. f \in Nat /\ a \in Nat
      BY <3>1 DEF Free, Arrived
    <3> QED
      BY <1>0, <3>2, Totals DEF InProd, InRd
  <2>b. sum = f + a + n + p + r /\ sum2 = f2 + a2 + n2 + p2 + r2
    OBVIOUS
  <2>1. CASE SdioUp
    <3>1. bus' = "sdio" /\ f2 = RxQ /\ a2 = 0 /\ n2 = 0 /\ p2 = 0 /\ r2 = 0
      BY <1>0, <2>0, <2>1, RxParts DEF SdioUp, RxShape, Free, Arrived, InProd, InRd, Total
    <3> HIDE DEF f2, a2, n2, p2, r2, sum, sum2
    <3> QED
      BY <1>0, <2>b, <3>1
  <2>2. CASE SdioStops
    <3>1. /\ bus' = "sdio" /\ prod'.pc = "gone"
          /\ f2 = 0 /\ a2 = 0 /\ n2 = 0 /\ p2 = 0 /\ r2 = 0
      <4>1. bus = "sdio" /\ prod.pc = "gone" /\ UNCHANGED prod
        BY <1>0, <2>2 DEF SdioStops, UnloadShape
      <4>2. n2 = 0 /\ rx'.arrived = <<>>
        BY <1>0, <2>2, DownTotal
      <4>3. pool'.rx = 0 /\ ~rd'.fresh
        BY <1>0, <2>0, <2>2, RxParts DEF SdioStops
      <4> QED
        BY <2>0, <4>1, <4>2, <4>3 DEF Free, Arrived, InProd, InRd
    <3> HIDE DEF f2, a2, n2, p2, r2, sum, sum2
    <3> QED
      BY <1>0, <2>b, <3>1
  <2>3. CASE SdioDeletes
    <3>1. /\ bus = "sdio" /\ prod'.pc = "gone"
          /\ f2 = f /\ a2 = a /\ n2 = n /\ p2 = 0 /\ r2 = r
      BY <2>3 DEF SdioDeletes, Free, Arrived, InProd, InRd
    <3> HIDE DEF f, f2, a, a2, n, n2, p, p2, r, r2, sum, sum2
    <3>2. sum2 <= sum
      BY <2>a, <2>b, <3>1
    <3>3. sum \in Nat /\ sum2 \in Nat
      BY <2>a, <2>b, <3>1
    <3> QED
      BY <1>0, <1>1, <2>0, <3>1, <3>2, <3>3
  <2>4. CASE HostSends
    <3>1. UNCHANGED <<up, prod, rd>> /\ up
      BY <2>4 DEF HostSends, Serving
    <3>2. p2 = p /\ r2 = r /\ n2 = n
      BY <1>0, <2>4, <3>1, RxParts DEF HostSends, InProd, InRd
    <3>3. \E q : rx'.arrived = Append(rx.arrived, q)
      BY <1>0, <2>4, RxParts DEF HostSends
    <3>4. Len(rx'.arrived) = Len(rx.arrived) + 1
      BY <1>0, <3>3, RxRecord
    <3>5. /\ bus = "uart" => f2 = f /\ a2 = a
          /\ bus # "uart" => f2 = f - 1 /\ a2 = a + 1
      BY <1>0, <2>0, <2>4, <3>4, Constants DEF HostSends, Free, Arrived, Bus
    <3> HIDE DEF f, f2, a, a2, n, n2, p, p2, r, r2, sum, sum2
    <3>9. sum2 = sum
      <4>1. \/ f2 = f /\ a2 = a
            \/ f2 = f - 1 /\ a2 = a + 1
        BY <3>5
      <4> QED
        BY <2>a, <2>b, <3>2, <4>1
    <3> QED
      BY <1>1, <2>0, <3>1, <3>9
  <2>5. CASE ~(SdioUp \/ SdioStops \/ SdioDeletes \/ HostSends)
    <3>1. UNCHANGED <<rx, prod, rd>> /\ (dead => dead') /\ pool'.rx = pool.rx
      BY <1>5, <2>0, <2>5
         DEF SlotStep, WriteStep, WriteBegins, TakeSlot, TakeBlock, SlotPut, PutFails, UartPut,
             TxLoads, HostReads, HostSeesInts, TxDone, HostDeepWakes, SdioResets,
             SdioReclaims, SdioGoes
    <3>2. sum2 = sum
      BY <2>0, <3>1 DEF Free, Arrived, InProd, InRd
    <3> HIDE DEF sum, sum2
    <3> QED
      BY <1>1, <2>0, <3>1, <3>2
  <2> QED
    BY <2>1, <2>2, <2>3, <2>4, <2>5
<1> QED
  BY <1>3, <1>4, <1>5

(* No buffer of a queued packet is the host's, unless it unloaded the bus. *)
LEMMA BuffersUnsharedKept ==
  ASSUME BusInv, ~dead, RxStep \/ SpiStep \/ SlotStep
  PROVE  BuffersUnshared'
<1> SUFFICES ASSUME "queued" \notin busHarm'
             PROVE  Total(rx'.old) = 0 /\ (Reading' => rd'.fresh)
  BY DEF BuffersUnshared
<1>0. BusTypeOK /\ Total(rx.old) = 0 /\ (Reading => rd.fresh)
  BY HarmGrows DEF BusInv, BuffersUnshared
<1>1. ASSUME rx'.old = rx.old, UNCHANGED rd
      PROVE  Total(rx'.old) = 0 /\ (Reading' => rd'.fresh)
  BY <1>0, <1>1 DEF Reading
<1>2. ASSUME rx'.old = rx.old, rd'.fresh = rd.fresh, Reading' => Reading
      PROVE  Total(rx'.old) = 0 /\ (Reading' => rd'.fresh)
  BY <1>0, <1>2
<1>3. CASE ProdStep
  BY <1>0, <1>1, <1>3, RxParts DEF ProdStep, ProdReceives, ProdChecks, ProdFlow, ProdTells,
                                   ProdPuts, ProdGives
<1>4. CASE RdTakes \/ RdLooks \/ RdChecks \/ RdFlow \/ RdTells \/ RdProcesses
  <2>1. /\ rx'.old = rx.old /\ rd'.fresh = rd.fresh
        /\ rd'.pc \in {"take", "up", "pop"} \/ Reading
    BY <1>0, <1>4, RxParts DEF RdTakes, RdLooks, RdChecks, RdFlow, RdTells, RdProcesses, RdTo,
                               Reading
  <2> QED
    BY <1>2, <2>1 DEF Reading
<1>5. CASE RdPops
  <2> DEFINE q == First(Waiting)
  <2>1. q \in Prio
    BY DEF First
  <2>2. rx.old[q] = 0 /\ ~(rx.old[q] > 0)
    <3>1. \A x \in Prio : rx.old[x] \in Nat
      BY <1>0, Totals
    <3>2. /\ rx.old["serial"] \in Nat /\ rx.old["bt"] \in Nat /\ rx.old["others"] \in Nat
          /\ rx.old["serial"] + rx.old["bt"] + rx.old["others"] = 0
      BY <1>0, <3>1 DEF Total
    <3>3. rx.old["serial"] = 0 /\ rx.old["bt"] = 0 /\ rx.old["others"] = 0
      <4> DEFINE x == rx.old["serial"]
                 y == rx.old["bt"]
                 z == rx.old["others"]
      <4>1. x \in Nat /\ y \in Nat /\ z \in Nat /\ x + y + z = 0
        BY <3>2
      <4> HIDE DEF x, y, z
      <4>2. x = 0 /\ y = 0 /\ z = 0
        BY <4>1
      <4> QED
        BY <4>2 DEF x, y, z
    <3> HIDE DEF q
    <3> QED
      BY <2>1, <3>3
  <2>3. \/ RdTo("take") /\ UNCHANGED rx
        \/ /\ rx' = [rx EXCEPT !.new[q] = rx.new[q] - 1]
           /\ rd'.fresh = TRUE
    <3>1. CASE Depth(q) = 0
      BY <1>5, <3>1 DEF RdPops
    <3>2. CASE Depth(q) # 0
      <4>1. /\ rx' = IF rx.old[q] > 0 THEN [rx EXCEPT !.old[q] = @ - 1]
                     ELSE [rx EXCEPT !.new[q] = @ - 1]
            /\ rd' = [prio |-> q, fresh |-> rx.old[q] = 0,
                      pc |-> IF Throttles THEN "check" ELSE "process"]
        BY <1>5, <3>2 DEF RdPops
      <4>2. rd'.fresh = (rx.old[q] = 0)
        BY <4>1, Zenon
      <4> HIDE DEF q
      <4>3. rd'.fresh = TRUE
        BY <2>2, <4>2
      <4> QED
        BY <2>2, <4>1, <4>3
    <3> QED
      BY <3>1, <3>2
  <2>4. rx'.old = rx.old
    BY <1>0, <2>3, RxParts
  <2>5. Reading' => rd'.fresh
    BY <1>0, <2>3, RxParts DEF RdTo, Reading
  <2> QED
    BY <1>0, <2>4, <2>5
<1>6. CASE SpiStep
  <2>1. UNCHANGED <<rx, rd>>
    BY <1>6 DEF SpiStep, RaiseStep, LoadStep, SpiWrite, SpiPut, SpiGive, SetDataReady,
       SetDataReadyFlag, NextBuffer, ResetDataReady, ResetDataReadyFlag, NextDummy, Attach,
       PostResult, PostFinish, HostClocks, SpiReload
  <2> QED
    BY <1>1, <2>1
<1>7. CASE SdioStops
  <2>1. ~Reading /\ \A q \in Prio : ~(rx.new[q] > 0)
    BY <1>7, Zenon DEF SdioStops, BusHarm
  <2>2. rx.new["serial"] = 0 /\ rx.new["bt"] = 0 /\ rx.new["others"] = 0
    BY <1>0, <2>1, Totals
  <2>3. Total(rx'.old) = 0
    <3>1. Total(rx'.old) = Total(rx.new) + Total(rx.old)
      BY <1>0, <1>7, DownTotal DEF Queued
    <3> QED
      BY <1>0, <2>2, <3>1 DEF Total
  <2>4. rd'.pc = rd.pc
    BY <1>0, <1>7, RxParts DEF SdioStops
  <2> QED
    BY <2>1, <2>3, <2>4 DEF Reading
<1>8. CASE SlotStep /\ ~SdioStops
  <2>1. UNCHANGED rd /\ (UNCHANGED rx \/ \E x : rx' = [rx EXCEPT !.arrived = x])
    BY <1>8 DEF SlotStep, WriteStep, WriteBegins, TakeSlot, TakeBlock, SlotPut, PutFails, UartPut,
       TxLoads, HostReads, HostSeesInts, TxDone, HostSends, HostDeepWakes, SdioDeletes,
       SdioResets, SdioReclaims, SdioGoes, SdioUp
  <2>2. rx'.old = rx.old
    BY <1>0, <2>1, RxParts
  <2> QED
    BY <1>1, <2>1, <2>2
<1> QED
  BY <1>3, <1>4, <1>5, <1>6, <1>7, <1>8 DEF RxStep, RdStep

-----------------------------------------------------------------------------
(* The pool of SPI.                                                        *)

InPost == IF at["post"].pc # "idle" THEN 2 ELSE 0
Putting == IF prod.pc = "put" THEN 1 ELSE 0
Processing == IF rd.pc = "process" THEN 1 ELSE 0

(* The sum, with its terms named.                                          *)
LEMMA SpiSum ==
  /\ SpiBlocksAccounted <=>
       (bus = "spi" /\ ~dead =>
          pool.tx + Total(spi.q) + 2 * Len(flight) + 2 * Len(done) + Cardinality(Holders)
            + InPost + Putting + Processing + Total(rx.new) + Total(rx.old) = TxBlocks)
  /\ SpiBlocksAccounted' <=>
       (bus' = "spi" /\ ~dead' =>
          pool'.tx + Total(spi'.q) + 2 * Len(flight') + 2 * Len(done') + Cardinality(Holders')
            + InPost' + Putting' + Processing' + Total(rx'.new) + Total(rx'.old) = TxBlocks')
  BY DEF SpiBlocksAccounted, InPost, Putting, Processing

(* What changes in a step of SPI's driver: the free blocks, the queues,    *)
(* the transactions, and the tasks that hold a block.                      *)
LEMMA SpiMoves ==
  ASSUME BusInv, SpiStep, ~dead'
  PROVE  /\ UNCHANGED <<bus, rx, rd>>
         /\ pool'.tx + Total(spi'.q) + 2 * Len(flight') + 2 * Len(done') + Cardinality(Holders')
              + InPost' + Putting'
            = pool.tx + Total(spi.q) + 2 * Len(flight) + 2 * Len(done) + Cardinality(Holders)
              + InPost + Putting
<1> DEFINE x == pool.tx
           x2 == pool'.tx
           q == Total(spi.q)
           q2 == Total(spi'.q)
           n == Len(flight)
           n2 == Len(flight')
           m == Len(done)
           m2 == Len(done')
           h == Cardinality(Holders)
           h2 == Cardinality(Holders')
           p == InPost
           p2 == InPost'
           g == Putting
           g2 == Putting'
<1>0. /\ BusTypeOK /\ RxShape /\ bus = "spi" /\ pool \in [tx: Nat, rx: Nat]
      /\ at \in [SpiTasks -> [pc: SpiPc, prio: Prio, sends: Sends]]
      /\ LineOK /\ LoadOK
      /\ prod \in [pc: {"idle", "check", "flow", "tell", "put", "give", "gone"}, prio: Packet]
  BY SpiFrame, SlotRecord, RxParts DEF BusInv, SpiStep, AtOK
<1>1. UNCHANGED <<bus, rx, rd>>
  BY DEF SpiStep, RaiseStep, LoadStep, SpiWrite, SpiPut, SpiGive, SetDataReady,
       SetDataReadyFlag, NextBuffer, ResetDataReady, ResetDataReadyFlag, NextDummy, Attach,
       PostResult, PostFinish, HostClocks, SpiReload
<1>2. /\ x \in Nat /\ q \in Nat /\ n \in Nat /\ m \in Nat /\ h \in Nat /\ p \in {0, 2}
      /\ g \in {0, 1}
  <2>1. x \in Nat /\ n \in Nat /\ m \in Nat
    <3>1. flight \in Seq(Sends) /\ done \in Seq(Packet \union {"none"})
      BY <1>0 DEF LoadOK
    <3> QED
      BY <1>0, <3>1
  <2>2. p \in {0, 2} /\ g \in {0, 1}
    BY DEF InPost, Putting
  <2> QED
    BY <1>0, <2>1, <2>2, Totals, FiniteTasks
<1>3. SUFFICES x2 + q2 + 2 * n2 + 2 * m2 + h2 + p2 + g2 = x + q + 2 * n + 2 * m + h + p + g
  BY <1>1
<1>4. /\ spi.q \in [Prio -> Nat] /\ TxQ \in Nat
      /\ flight \in Seq(Sends) /\ done \in Seq(Packet \union {"none"})
  BY <1>0, Constants DEF LineOK, LoadOK
(* A task moves, and the post-process task's transaction stays.            *)
<1>5. ASSUME NEW t \in SpiTasks, \A u \in SpiTasks \ {t} : at'[u].pc = at[u].pc
      PROVE  /\ h2 \in Nat
             /\ h2 + (IF at[t].pc \in {"put", "attach"} THEN 1 ELSE 0)
                  = h + (IF at'[t].pc \in {"put", "attach"} THEN 1 ELSE 0)
  BY <1>5, Recounted
<1>6. ASSUME NEW t \in SpiTasks, NEW pc, Go(t, pc) \/ \E d, s : Holds(t, d, s) /\ pc = "attach"
      PROVE  at'[t].pc = pc /\ \A u \in SpiTasks \ {t} : at'[u].pc = at[u].pc
  BY <1>0, <1>6 DEF Go, Holds
<1>7. ASSUME NEW t \in Raisers, RaiseStep(t)
      PROVE  x2 + q2 + 2 * n2 + 2 * m2 + h2 + p2 + g2 = x + q + 2 * n + 2 * m + h + p + g
  <2>0. t \in SpiTasks /\ t # "post" /\ UNCHANGED <<flight, done, prod>>
    BY <1>7, TaskNames
       DEF RaiseStep, SpiWrite, SpiPut, SpiGive, SetDataReady, SetDataReadyFlag
  <2>1. n2 = n /\ m2 = m /\ g2 = g
    BY <2>0 DEF Putting
  <2>2. CASE SpiWrite(t)
    <3>1. /\ at[t].pc = "idle" /\ at'[t].pc = "put"
          /\ \A u \in SpiTasks \ {t} : at'[u].pc = at[u].pc
      BY <1>0, <2>0, <2>2 DEF SpiWrite
    <3>2. x > 0 /\ x2 = x - 1 /\ q2 = q
      <4>1. x # 0 /\ pool' = [pool EXCEPT !.tx = IF x > 0 THEN x - 1 ELSE x]
        BY <2>2 DEF SpiWrite
      <4>2. x > 0
        BY <1>2, <4>1
      <4>3. x2 = x - 1
        BY <1>0, <4>1, <4>2
      <4> QED
        BY <2>2, <4>2, <4>3 DEF SpiWrite
    <3>3. p2 = p
      BY <2>0, <3>1, TaskNames DEF InPost
    <3>4. h2 \in Nat /\ h2 = h + 1
      BY <1>2, <2>0, <1>5, <3>1
    <3> HIDE DEF x, x2, q, q2, n, n2, m, m2, h, h2, p, p2, g, g2
    <3> QED
      BY <1>2, <2>1, <3>2, <3>3, <3>4
  <2>3. CASE SpiPut(t)
    <3> DEFINE r == at[t].prio
    <3>1. /\ at[t].pc = "put" /\ at'[t].pc \in {"give", "dr"}
          /\ \A u \in SpiTasks \ {t} : at'[u].pc = at[u].pc
      BY <1>6, <2>0, <2>3 DEF SpiPut
    <3>2. r \in Prio /\ spi'.q = [spi.q EXCEPT ![r] = spi.q[r] + 1] /\ x2 = x
      BY <1>0, <2>0, <2>3 DEF SpiPut, LineOK
    <3>3. p2 = p
      BY <2>0, <3>1, TaskNames DEF InPost
    <3>4. h2 \in Nat /\ h2 + 1 = h
      BY <1>2, <2>0, <1>5, <3>1
    <3>5. q2 = q + 1
      <4> DEFINE k == spi.q[r]
      <4>1. k \in Nat /\ k + 1 \in Nat
        BY <1>4, <3>2
      <4> HIDE DEF r
      <4>2. q2 \in Nat /\ q2 + k = q + (k + 1)
        <5> DEFINE f == spi.q
                   l == k + 1
        <5>1. /\ f \in [Prio -> Nat] /\ l \in Nat /\ r \in Prio
              /\ spi'.q = [f EXCEPT ![r] = l] /\ k = f[r]
          BY <1>4, <3>2, <4>1
        <5> HIDE DEF f, k, l
        <5> QED
          BY <5>1, TotalWith DEF f, l
      <4> HIDE DEF k, q, q2
      <4> QED
        BY <1>2, <4>1, <4>2
    <3>6. x2 = x
      BY <3>2
    <3> HIDE DEF x, x2, q, q2, n, n2, m, m2, h, h2, p, p2, g, g2
    <3> QED
      BY <1>2, <2>1, <3>3, <3>4, <3>5, <3>6
  <2>4. CASE SpiGive(t) \/ SetDataReady(t) \/ SetDataReadyFlag(t)
    <3>0. \E pc \in {"idle", "dr", "dr_flag", "next", "give"} : Go(t, pc)
      BY <2>4 DEF SpiGive, SetDataReady, SetDataReadyFlag, AfterRaise
    <3>1. /\ at[t].pc \notin {"put", "attach"} /\ at'[t].pc \notin {"put", "attach"}
          /\ \A u \in SpiTasks \ {t} : at'[u].pc = at[u].pc
      BY <1>6, <2>0, <2>4, <3>0 DEF SpiGive, SetDataReady, SetDataReadyFlag
    <3>2. spi'.q = spi.q /\ x2 = x
      <4>1. CASE SpiGive(t)
        BY <1>0, <4>1 DEF SpiGive, LineOK
      <4>2. CASE SetDataReady(t) \/ SetDataReadyFlag(t)
        BY <1>0, <4>2 DEF SetDataReady, SetDataReadyFlag, Raised, LineOK
      <4> QED
        BY <2>4, <4>1, <4>2
    <3>3. p2 = p
      BY <2>0, <3>1, TaskNames DEF InPost
    <3>4. h2 \in Nat /\ h2 = h
      BY <1>2, <2>0, <1>5, <3>1
    <3> QED
      BY <2>1, <3>2, <3>3, <3>4
  <2> QED
    BY <1>7, <2>2, <2>3, <2>4 DEF RaiseStep
<1>8. ASSUME NEW t \in Loaders, LoadStep(t)
      PROVE  x2 + q2 + 2 * n2 + 2 * m2 + h2 + p2 + g2 = x + q + 2 * n + 2 * m + h + p + g
  <2>0. t \in SpiTasks /\ UNCHANGED <<done, prod>>
    BY <1>8, TaskNames
       DEF LoadStep, NextBuffer, ResetDataReady, ResetDataReadyFlag, NextDummy, Attach
  <2>1. m2 = m /\ g2 = g
    BY <2>0 DEF Putting
  <2>2. CASE NextBuffer(t)
    <3> DEFINE r == First(TxWaiting)
    <3>1. /\ at[t].pc = "next" /\ x2 = x /\ n2 = n
      BY <2>2 DEF NextBuffer
    <3>2. r \in Prio
      BY DEF First
    <3>3. CASE spi.sem > 0 /\ spi.q[r] > 0
      <4>1. Holds(t, TRUE, FALSE) /\ spi'.q = [spi.q EXCEPT ![r] = spi.q[r] - 1]
        BY <1>0, <2>2, <3>3 DEF NextBuffer, LineOK
      <4>2. at'[t].pc = "attach" /\ \A u \in SpiTasks \ {t} : at'[u].pc = at[u].pc
        BY <1>6, <2>0, <4>1
      <4>3. p2 = p
        BY <2>0, <3>1, <4>2, TaskNames DEF InPost
      <4>4. h2 \in Nat /\ h2 = h + 1
        BY <1>2, <2>0, <1>5, <3>1, <4>2
      <4>5. q2 = q - 1 /\ q2 \in Nat
        <5> DEFINE k == spi.q[r]
        <5>1. k \in Nat /\ k - 1 \in Nat
          BY <1>4, <3>2, <3>3
        <5> HIDE DEF r
        <5>2. q2 \in Nat /\ q2 + k = q + (k - 1)
          <6> DEFINE f == spi.q
                     l == k - 1
          <6>1. /\ f \in [Prio -> Nat] /\ l \in Nat /\ r \in Prio
                /\ spi'.q = [f EXCEPT ![r] = l] /\ k = f[r]
            BY <1>4, <3>2, <4>1, <5>1
          <6> HIDE DEF f, k, l
          <6> QED
            BY <6>1, TotalWith DEF f, l
        <5> HIDE DEF k, q, q2
        <5> QED
          BY <1>2, <5>1, <5>2
      <4> HIDE DEF x, x2, q, q2, n, n2, m, m2, h, h2, p, p2, g, g2
      <4> QED
        BY <1>2, <2>1, <3>1, <4>3, <4>4, <4>5
    <3>4. CASE ~(spi.sem > 0 /\ spi.q[r] > 0)
      <4>1. Go(t, "reset") /\ spi'.q = spi.q
        BY <1>0, <2>2, <3>4 DEF NextBuffer, LineOK
      <4>2. at'[t].pc = "reset" /\ \A u \in SpiTasks \ {t} : at'[u].pc = at[u].pc
        BY <1>6, <2>0, <4>1
      <4>3. p2 = p
        BY <2>0, <3>1, <4>2, TaskNames DEF InPost
      <4>4. h2 \in Nat /\ h2 = h
        BY <1>2, <2>0, <1>5, <3>1, <4>2
      <4> QED
        BY <2>1, <3>1, <4>1, <4>3, <4>4
    <3> QED
      BY <3>3, <3>4
  <2>3. CASE ResetDataReady(t) \/ ResetDataReadyFlag(t)
    <3>1. /\ at[t].pc \in {"reset", "reset_flag"} /\ x2 = x /\ n2 = n
          /\ \E pc \in {"reset_flag", "dummy"} : Go(t, pc)
      BY <2>3 DEF ResetDataReady, ResetDataReadyFlag
    <3>2. /\ at'[t].pc \in {"reset_flag", "dummy"} /\ \A u \in SpiTasks \ {t} : at'[u].pc = at[u].pc
      BY <1>6, <2>0, <3>1
    <3>3. spi'.q = spi.q
      BY <1>0, <2>3 DEF ResetDataReady, ResetDataReadyFlag, LineOK
    <3>4. p2 = p
      BY <2>0, <3>1, <3>2, TaskNames DEF InPost
    <3>5. h2 \in Nat /\ h2 = h
      BY <1>2, <2>0, <1>5, <3>1, <3>2
    <3> QED
      BY <2>1, <3>1, <3>3, <3>4, <3>5
  <2>4. CASE NextDummy(t) /\ pool.tx > 0
    <3>1. /\ at[t].pc = "dummy" /\ x2 = x - 1 /\ n2 = n /\ q2 = q
          /\ \E s : Holds(t, FALSE, s)
      BY <1>0, <2>4 DEF NextDummy
    <3>2. at'[t].pc = "attach" /\ \A u \in SpiTasks \ {t} : at'[u].pc = at[u].pc
      BY <1>6, <2>0, <3>1
    <3>4. p2 = p
      BY <2>0, <3>1, <3>2, TaskNames DEF InPost
    <3>5. h2 \in Nat /\ h2 = h + 1
      BY <1>2, <2>0, <1>5, <3>1, <3>2
    <3>6. x > 0
      BY <2>4
    <3> HIDE DEF x, x2, q, q2, n, n2, m, m2, h, h2, p, p2, g, g2
    <3> QED
      BY <1>2, <2>1, <3>1, <3>4, <3>5, <3>6
  <2>5. CASE NextDummy(t) /\ ~(pool.tx > 0)
    <3>1. /\ at[t].pc = "dummy" /\ x2 = x /\ n2 = n /\ q2 = q
          /\ Go(t, IF t = "post" THEN "finish" ELSE "idle")
      BY <1>0, <2>5 DEF NextDummy
    <3>2. /\ at'[t].pc = IF t = "post" THEN "finish" ELSE "idle"
          /\ \A u \in SpiTasks \ {t} : at'[u].pc = at[u].pc
      BY <1>6, <2>0, <3>1
    <3>4. p2 = p
      BY <2>0, <3>1, <3>2, TaskNames DEF InPost
    <3>5. h2 \in Nat /\ h2 = h
      BY <1>2, <2>0, <1>5, <3>1, <3>2
    <3> QED
      BY <2>1, <3>1, <3>4, <3>5
  <2>6. CASE Attach(t)
    <3>1. /\ at[t].pc = "attach" /\ x > 0 /\ x2 = x - 1 /\ q2 = q
          /\ flight' = Append(flight, at[t].sends)
          /\ Go(t, IF t = "post" THEN "finish" ELSE "idle")
      <4>1. x # 0 /\ pool' = [pool EXCEPT !.tx = IF x > 0 THEN x - 1 ELSE x]
        BY <2>6 DEF Attach
      <4>2. x > 0
        BY <1>2, <4>1
      <4>3. x2 = x - 1
        BY <1>0, <4>1, <4>2
      <4> QED
        BY <2>6, <4>2, <4>3 DEF Attach
    <3>2. /\ at'[t].pc = IF t = "post" THEN "finish" ELSE "idle"
          /\ \A u \in SpiTasks \ {t} : at'[u].pc = at[u].pc
      BY <1>6, <2>0, <3>1
    <3>3. n2 = n + 1
      BY <1>4, <3>1
    <3>4. p2 = p
      BY <2>0, <3>1, <3>2, TaskNames DEF InPost
    <3>5. h2 \in Nat /\ h2 + 1 = h
      BY <1>2, <2>0, <1>5, <3>1, <3>2
    <3>6. x > 0 /\ x2 = x - 1 /\ q2 = q
      BY <3>1
    <3> HIDE DEF x, x2, q, q2, n, n2, m, m2, h, h2, p, p2, g, g2
    <3> QED
      BY <1>2, <2>1, <3>3, <3>4, <3>5, <3>6
  <2> QED
    BY <1>8, <2>2, <2>3, <2>4, <2>5, <2>6 DEF LoadStep
<1>9. CASE PostResult
  <2>0. "post" \in SpiTasks
    BY TaskNames
  <2>1. /\ at["post"].pc = "idle" /\ x2 = x /\ q2 = q /\ n2 = n /\ Go("post", "next")
        /\ done # <<>> /\ done' = Tail(done) /\ g2 = g
    BY <1>0, <1>9 DEF PostResult, Putting
  <2>2. at'["post"].pc = "next" /\ \A u \in SpiTasks \ {"post"} : at'[u].pc = at[u].pc
    BY <1>6, <2>0, <2>1
  <2>3. p = 0 /\ p2 = 2
    BY <2>1, <2>2 DEF InPost
  <2>4. h2 \in Nat /\ h2 = h
    BY <1>2, <1>5, <2>0, <2>1, <2>2
  <2>5. m > 0 /\ m2 = m - 1
    BY <1>4, <2>1
  <2> HIDE DEF x, x2, q, q2, n, n2, m, m2, h, h2, p, p2, g, g2
  <2> QED
    BY <1>2, <2>1, <2>3, <2>4, <2>5
<1>10. CASE PostFinish
  <2>0. "post" \in SpiTasks
    BY TaskNames
  <2>1. /\ at["post"].pc = "finish" /\ q2 = q /\ n2 = n /\ m2 = m /\ Go("post", "idle")
        /\ x2 = IF prod.prio = "bad" THEN x + 2 ELSE x + 1
        /\ prod.pc = "idle" /\ prod'.pc = IF prod.prio = "bad" THEN "idle" ELSE "put"
    BY <1>0, <1>10 DEF PostFinish, Finished, ProdTo, RxShape
  <2>2. at'["post"].pc = "idle" /\ \A u \in SpiTasks \ {"post"} : at'[u].pc = at[u].pc
    BY <1>6, <2>0, <2>1
  <2>3. p = 2 /\ p2 = 0 /\ g = 0 /\ g2 = IF prod.prio = "bad" THEN 0 ELSE 1
    BY <2>1, <2>2 DEF InPost, Putting
  <2>4. h2 \in Nat /\ h2 = h
    BY <1>2, <1>5, <2>0, <2>1, <2>2
  <2> HIDE DEF x, x2, q, q2, n, n2, m, m2, h, h2, p, p2, g, g2
  <2> QED
    BY <1>2, <2>1, <2>3, <2>4
<1>11. CASE HostClocks
  <2>1. /\ x2 = x /\ p2 = p /\ g2 = g /\ h2 = h
        /\ flight # <<>> /\ flight' = Tail(flight) /\ \E r : done' = Append(done, r)
        /\ spi'.q = spi.q
    BY <1>0, <1>11 DEF HostClocks, InPost, Putting, Holders, LineOK
  <2>2. n > 0 /\ n2 = n - 1 /\ m2 = m + 1
    BY <1>4, <2>1
  <2>3. q2 = q
    BY <2>1
  <2> HIDE DEF x, x2, q, q2, n, n2, m, m2, h, h2, p, p2, g, g2
  <2> QED
    BY <1>2, <2>1, <2>2, <2>3
<1>12. CASE SpiReload
  <2>1. x2 = x /\ q2 = q /\ n2 = n /\ m2 = m /\ h2 = h /\ p2 = p /\ g2 = g
    BY <1>12 DEF SpiReload, InPost, Putting, Holders
  <2> QED
    BY <2>1
<1> QED
  BY <1>7, <1>8, <1>9, <1>10, <1>11, <1>12 DEF SpiStep

(* Every block of SPI's pool is in one place.                              *)
LEMMA SpiBlocksKept ==
  ASSUME BusInv, ~dead, RxStep \/ SpiStep \/ SlotStep
  PROVE  SpiBlocksAccounted'
<1> DEFINE x == pool.tx
           x2 == pool'.tx
           q == Total(spi.q)
           q2 == Total(spi'.q)
           n == Len(flight)
           n2 == Len(flight')
           m == Len(done)
           m2 == Len(done')
           h == Cardinality(Holders)
           h2 == Cardinality(Holders')
           p == InPost
           p2 == InPost'
           g == Putting
           g2 == Putting'
           r == Processing
           r2 == Processing'
           w == Total(rx.new)
           w2 == Total(rx'.new)
           o == Total(rx.old)
           o2 == Total(rx'.old)
<1>1. SUFFICES ASSUME bus' = "spi", ~dead'
               PROVE  x2 + q2 + 2 * n2 + 2 * m2 + h2 + p2 + g2 + r2 + w2 + o2 = TxBlocks'
  BY SpiSum
<1>0. /\ BusTypeOK /\ RxShape /\ SpiBlocksAccounted /\ BusTypeOK' /\ RxShape'
  BY TypesKept, RxShapeKept DEF BusInv
<1>2. UNCHANGED bus /\ TxBlocks' = TxBlocks /\ bus = "spi"
  <2>1. UNCHANGED bus
    BY SlotBounds, RxFlow, SpiMoves, <1>1
  <2> QED
    BY <1>1, <2>1 DEF TxBlocks
<1>3. x + q + 2 * n + 2 * m + h + p + g + r + w + o = TxBlocks
  BY <1>0, <1>2, SpiSum
<1>4. /\ x \in Nat /\ q \in Nat /\ n \in Nat /\ m \in Nat /\ h \in Nat /\ p \in Nat
      /\ g \in Nat /\ r \in Nat /\ w \in Nat /\ o \in Nat
  <2>1. n \in Nat /\ m \in Nat
    <3>1. flight \in Seq(Sends) /\ done \in Seq(Packet \union {"none"})
      BY <1>0, SpiFrame DEF LoadOK
    <3> QED
      BY <3>1
  <2>2. p \in Nat /\ g \in Nat /\ r \in Nat
    BY DEF InPost, Putting, Processing
  <2> QED
    BY <1>0, <2>1, <2>2, Totals, FiniteTasks, SlotRecord
<1>5. CASE RxStep
  <2>1. q2 = q /\ n2 = n /\ m2 = m /\ h2 = h /\ p2 = p
    BY <1>5, RxFlow DEF Holders, InPost
  <2>2. /\ Free = x /\ Free' = x2 /\ Arrived = 0 /\ Arrived' = 0 /\ InProd = g /\ InProd' = g2
        /\ InRd = r /\ InRd' = r2 /\ o = 0 /\ o2 = 0
    BY <1>0, <1>1, <1>2 DEF Free, Arrived, InProd, InRd, Putting, Processing, RxShape, Total
  <2>3. Free' + Arrived' + w2 + InProd' + InRd' = Free + Arrived + w + InProd + InRd
    BY <1>1, <1>5, RxFlow
  <2>4. x2 + 0 + w2 + g2 + r2 = x + 0 + w + g + r
    BY <2>2, <2>3
  <2>5. x2 \in Nat /\ w2 \in Nat /\ g2 \in Nat /\ r2 \in Nat
    <3>1. PoolOK' /\ RxOK' /\ TxBlocks \in Nat /\ RxQ \in Nat
      BY <1>0, TypePartsNext, Constants
    <3>2. x2 \in Nat
      BY <1>2, <3>1 DEF PoolOK
    <3>3. rx'.new \in [Prio -> Nat]
      BY <3>1 DEF RxOK
    <3>4. w2 \in Nat
      BY <3>3 DEF Total
    <3> QED
      BY <3>2, <3>4 DEF Putting, Processing
  <2>6. o = 0 /\ o2 = 0
    BY <2>2
  <2> HIDE DEF x, x2, q, q2, n, n2, m, m2, h, h2, p, p2, g, g2, r, r2, w, w2, o, o2
  <2> QED
    BY <1>2, <1>3, <1>4, <2>1, <2>4, <2>5, <2>6
<1>6. CASE SpiStep
  <2>1. r2 = r /\ w2 = w /\ o2 = o
    BY <1>1, <1>6, SpiMoves DEF Processing
  <2>2. x2 + q2 + 2 * n2 + 2 * m2 + h2 + p2 + g2 = x + q + 2 * n + 2 * m + h + p + g
    BY <1>1, <1>6, SpiMoves
  <2> DEFINE s == x + q + 2 * n + 2 * m + h + p + g
             s2 == x2 + q2 + 2 * n2 + 2 * m2 + h2 + p2 + g2
  <2>3. s2 = s /\ s + r + w + o = TxBlocks
    BY <1>3, <2>2
  <2>4. s2 + r2 + w2 + o2 = TxBlocks
    <3> HIDE DEF s, s2
    <3> QED
      BY <2>1, <2>3
  <2> QED
    BY <1>2, <2>4
<1>7. CASE SlotStep
  BY <1>2, <1>7 DEF SlotStep
<1> QED
  BY <1>5, <1>6, <1>7

-----------------------------------------------------------------------------
(* Throttling.                                                             *)

(* A queue that is not shorter is not less full.                           *)
LEMMA FullerLoad ==
  ASSUME NEW m \in Nat, NEW n \in Nat, NEW d \in Nat \ {0}, m <= n
  PROVE  (m * 100) \div d \in Nat /\ (m * 100) \div d <= (n * 100) \div d
  OBVIOUS

(* The steps that neither throttle nor touch a queue.                      *)
LEMMA LoadFrame ==
  ASSUME BusInv, ~dead, RxStep \/ SpiStep \/ SlotStep
  PROVE  /\ ~(ProdPuts \/ RdPops) => Load' = Load
         /\ ProdPuts /\ Load' < Low => Load < Low
         /\ Throttles' = Throttles
<1>0. BusTypeOK /\ RxQ \in Nat \ {0} /\ Low \in Nat /\ UNCHANGED bus
  <2>1. UNCHANGED bus
    BY RxFlow, SlotBounds DEF SpiStep, RaiseStep, LoadStep, SpiWrite, SpiPut, SpiGive,
       SetDataReady, SetDataReadyFlag, NextBuffer, ResetDataReady, ResetDataReadyFlag, NextDummy,
       Attach, PostResult, PostFinish, HostClocks, SpiReload
  <2> QED
    BY <2>1, Constants DEF BusInv
<1>1. Throttles' = Throttles
  BY <1>0 DEF Throttles
<1>2. ASSUME rx'.new = rx.new, rx'.old = rx.old
      PROVE  Load' = Load
  BY <1>2 DEF Load, Depth
<1>3. ASSUME UNCHANGED rx \/ \E a : rx' = [rx EXCEPT !.arrived = a] \/ rx' = [rx EXCEPT !.sem = a]
      PROVE  Load' = Load
  BY <1>0, <1>2, <1>3, RxParts
<1>4. SdioStops => Load' = Load
  <2>1. SdioStops => \A p \in Prio : rx'.new[p] = 0 /\ rx'.old[p] = rx.new[p] + rx.old[p]
    BY <1>0, RxParts DEF SdioStops, Depth
  <2>2. \A p \in Prio : rx.new[p] \in Nat /\ rx.old[p] \in Nat
    BY <1>0, Totals
  <2>3. SdioStops => Depth("others")' = Depth("others")
    BY <2>1, <2>2 DEF Depth
  <2> QED
    BY <2>3 DEF Load
<1>5. ~(ProdPuts \/ RdPops \/ SdioStops) =>
        UNCHANGED rx \/ \E a : rx' = [rx EXCEPT !.arrived = a] \/ rx' = [rx EXCEPT !.sem = a]
  <2>1. RxStep /\ ~(ProdPuts \/ RdPops) =>
          UNCHANGED rx \/ \E a : rx' = [rx EXCEPT !.arrived = a] \/ rx' = [rx EXCEPT !.sem = a]
    BY DEF RxStep, ProdStep, RdStep, ProdReceives, ProdChecks, ProdFlow, ProdTells, ProdGives,
           RdTakes, RdLooks, RdChecks, RdFlow, RdTells, RdProcesses
  <2>2. SpiStep => UNCHANGED rx
    BY DEF SpiStep, RaiseStep, LoadStep, SpiWrite, SpiPut, SpiGive,
       SetDataReady, SetDataReadyFlag, NextBuffer, ResetDataReady, ResetDataReadyFlag, NextDummy,
       Attach, PostResult, PostFinish, HostClocks, SpiReload
  <2>3. SlotStep /\ ~SdioStops => UNCHANGED rx \/ \E a : rx' = [rx EXCEPT !.arrived = a]
    BY DEF SlotStep, WriteStep, WriteBegins, TakeSlot, TakeBlock, SlotPut, PutFails, UartPut,
       TxLoads, HostReads, HostSeesInts, TxDone, HostSends, HostDeepWakes, SdioDeletes,
       SdioResets, SdioReclaims, SdioGoes, SdioUp
  <2> QED
    BY <2>1, <2>2, <2>3
<1>6. ASSUME ProdPuts, Load' < Low
      PROVE  Load < Low
  <2> DEFINE p == prod.prio
             d == Depth("others")
             d2 == Depth("others")'
  <2>1. rx' = [rx EXCEPT !.new[p] = rx.new[p] + 1] /\ p \in Prio
    BY <1>6 DEF ProdPuts, BusInv, RxShape
  <2>2. rx'.new = [rx.new EXCEPT ![p] = rx.new[p] + 1] /\ rx'.old = rx.old
    BY <1>0, <2>1, RxParts
  <2>3. \A q \in Prio : rx.new[q] \in Nat /\ rx.old[q] \in Nat
    BY <1>0, Totals
  <2>4. d \in Nat /\ d2 \in Nat /\ d <= d2
    <3>1. rx.new \in [Prio -> 0 .. RxQ]
      BY <1>0, RxRecord
    <3>2. rx'.new["others"] = rx.new["others"] \/ rx'.new["others"] = rx.new["others"] + 1
      BY <2>1, <2>2, <3>1
    <3> QED
      BY <2>2, <2>3, <3>2 DEF Depth
  <2>5. Load = (d * 100) \div RxQ /\ Load' = (d2 * 100) \div RxQ
    BY DEF Load
  <2> HIDE DEF d, d2
  <2>6. /\ (d * 100) \div RxQ \in Nat /\ (d2 * 100) \div RxQ \in Nat
        /\ (d * 100) \div RxQ <= (d2 * 100) \div RxQ
    BY <1>0, <2>4, FullerLoad
  <2> DEFINE l == (d * 100) \div RxQ
             l2 == (d2 * 100) \div RxQ
  <2>7. l \in Nat /\ l2 \in Nat /\ l <= l2 /\ Load = l /\ Load' = l2
    BY <2>5, <2>6
  <2> HIDE DEF l, l2
  <2> QED
    BY <1>0, <1>6, <2>7
<1> QED
  BY <1>1, <1>3, <1>4, <1>5, <1>6

(* How much of the queue is used is a number.                              *)
LEMMA LoadType ==
  ASSUME BusTypeOK
  PROVE  Load \in Nat /\ High \in Nat /\ Low \in Nat /\ Low <= High
<1> DEFINE d == Depth("others")
<1>1. d \in Nat /\ RxQ \in Nat \ {0}
  BY Totals, Constants
<1>2. Load = (d * 100) \div RxQ
  BY DEF Load
<1> HIDE DEF d
<1>3. (d * 100) \div RxQ \in Nat
  BY <1>1, FullerLoad
<1> QED
  BY <1>2, <1>3, Constants

(* Who decides, and who tells.                                             *)
LEMMA Deciders ==
  ASSUME BusInv, ~dead, RxStep \/ SpiStep \/ SlotStep, bus' # "spi"
  PROVE  /\ ~(ProdChecks \/ RdChecks) => thr'.current = thr.current
         /\ ~(ProdFlow \/ RdFlow) => thr'.flow = thr.flow
         /\ UNCHANGED bus /\ bus # "spi" /\ busHarm \subseteq busHarm'
<1>0. BusTypeOK /\ thr \in [current: BOOLEAN, flow: BOOLEAN, trig: 0 .. 1,
                            ints: SUBSET {"on", "off"}, host: BOOLEAN]
  BY RxParts DEF BusInv
<1>1. CASE RxStep
  <2>1. UNCHANGED bus
    BY <1>1, RxFlow
  <2>2. /\ ~(ProdChecks \/ RdChecks) => thr'.current = thr.current
        /\ ~(ProdFlow \/ RdFlow) => thr'.flow = thr.flow
    BY <1>0, <1>1 DEF RxStep, ProdStep, RdStep, ProdReceives, ProdChecks, ProdFlow, ProdTells,
       ProdPuts, ProdGives, RdTakes, RdLooks, RdPops, RdChecks, RdFlow, RdTells, RdProcesses, Tell
  <2> QED
    BY <2>1, <2>2, HarmGrows
<1>2. CASE SpiStep
  BY <1>2 DEF SpiStep, RaiseStep, LoadStep, SpiWrite, SpiPut, SpiGive,
       SetDataReady, SetDataReadyFlag, NextBuffer, ResetDataReady, ResetDataReadyFlag, NextDummy,
       Attach, PostResult, PostFinish, HostClocks, SpiReload
<1>3. CASE SlotStep
  <2>1. UNCHANGED bus /\ bus # "spi"
    BY <1>3, SlotBounds DEF SlotStep
  <2>2. thr'.current = thr.current /\ thr'.flow = thr.flow
    <3>1. CASE \E w \in Writers : WriteStep(w)
      BY <1>0, <3>1 DEF WriteStep, WriteBegins, TakeSlot, TakeBlock, SlotPut, PutFails, UartPut,
         HostHears
    <3>2. CASE TxLoads \/ HostReads \/ HostSeesInts \/ TxDone
      BY <1>0, <3>2 DEF TxLoads, HostReads, HostSeesInts, TxDone, HostHears
    <3>3. CASE \/ HostSends \/ HostDeepWakes \/ SdioDeletes \/ SdioStops \/ SdioResets
               \/ SdioReclaims \/ SdioGoes \/ SdioUp
      BY <1>0, <3>3 DEF HostSends, HostDeepWakes,
         SdioDeletes, SdioStops, SdioResets, SdioReclaims, SdioGoes, SdioUp
    <3> QED
      BY <1>3, <3>1, <3>2, <3>3 DEF SlotStep
  <2> QED
    BY <2>1, <2>2, HarmGrows
<1> QED
  BY <1>1, <1>2, <1>3

(* The end of the throttling is seen, ...                                  *)
LEMMA EndKept ==
  ASSUME BusInv, ~dead, RxStep \/ SpiStep \/ SlotStep
  PROVE  EndIsSeen'
<1>0. /\ BusTypeOK /\ EndIsSeen /\ RxShape
      /\ rd \in [pc: {"take", "up", "pop", "check", "flow", "tell", "process"}, prio: Packet,
                 fresh: BOOLEAN]
      /\ thr \in [current: BOOLEAN, flow: BOOLEAN, trig: 0 .. 1,
                  ints: SUBSET {"on", "off"}, host: BOOLEAN]
  BY RxParts DEF BusInv
<1>1. SUFFICES ASSUME Throttles', thr'.current, Load' < Low
               PROVE  rd'.pc = "check"
  BY DEF EndIsSeen
<1>2. Throttles /\ bus' # "spi"
  BY <1>1, LoadFrame DEF Throttles
<1>a. /\ ~(ProdChecks \/ RdChecks) => thr'.current = thr.current
      /\ UNCHANGED bus /\ bus # "spi"
  BY <1>2, Deciders
<1>3. CASE ProdChecks
  <2>1. Load' = Load /\ UNCHANGED rd /\ rx' = rx
    BY <1>3 DEF ProdChecks, Load, Depth
  <2>2. ~StartNeeded
    BY <1>0, <1>1, <2>1, LoadType DEF StartNeeded
  <2>3. thr' = thr
    BY <1>3, <2>2 DEF ProdChecks
  <2> QED
    BY <1>0, <1>1, <1>2, <2>1, <2>3 DEF EndIsSeen
<1>4. CASE RdChecks
  <2>1. Load' = Load
    BY <1>4 DEF RdChecks, Load, Depth
  <2>2. ~StopNeeded
    BY <1>0, <1>1, <1>4 DEF RdChecks
  <2>3. thr' = thr
    BY <1>4, <2>2 DEF RdChecks
  <2> QED
    BY <1>1, <2>1, <2>2, <2>3 DEF StopNeeded
<1>5. CASE RdPops
  <2>1. UNCHANGED thr /\ rd.pc = "pop"
    BY <1>5 DEF RdPops
  <2>2. CASE UNCHANGED rx
    <3>1. Load' = Load
      BY <2>2 DEF Load, Depth
    <3> QED
      BY <1>0, <1>1, <1>2, <2>1, <3>1 DEF EndIsSeen
  <2>3. CASE rd'.pc = IF Throttles THEN "check" ELSE "process"
    BY <1>2, <2>3
  <2> QED
    BY <1>0, <1>5, <2>2, <2>3, PopsTotal
<1>6. CASE ~(ProdChecks \/ RdChecks \/ RdPops)
  <2>1. Load < Low
    BY <1>1, <1>6, LoadFrame
  <2>2. rd.pc = "check"
    BY <1>0, <1>1, <1>2, <1>6, <1>a, <2>1 DEF EndIsSeen
  <2>3. rd'.pc = rd.pc
    <3>1. CASE RxStep
      BY <1>0, <1>6, <2>2, <3>1 DEF RxStep, ProdStep, RdStep, ProdReceives, ProdChecks, ProdFlow,
         ProdTells, ProdPuts, ProdGives, RdTakes, RdLooks, RdFlow, RdTells, RdProcesses
    <3>2. CASE SpiStep
      BY <1>a, <3>2 DEF SpiStep
    <3>3. CASE SlotStep
      BY <1>0, <3>3 DEF SlotStep, WriteStep, WriteBegins, TakeSlot, TakeBlock, SlotPut, PutFails,
         UartPut, TxLoads, HostReads, HostSeesInts, TxDone, HostSends, HostDeepWakes,
         SdioDeletes, SdioStops, SdioResets, SdioReclaims, SdioGoes,
         SdioUp
    <3> QED
      BY <3>1, <3>2, <3>3
  <2> QED
    BY <2>2, <2>3
<1> QED
  BY <1>3, <1>4, <1>5, <1>6

(* The steps of the writers, the peripheral and the host leave the tasks   *)
(* of the receive path, except that unloading the bus deletes one.         *)
LEMMA SlotLeavesTasks ==
  ASSUME BusInv, SlotStep
  PROVE  rd'.pc = rd.pc /\ (UNCHANGED prod \/ prod'.pc \in {"idle", "gone"})
<1>1. rd \in [pc: {"take", "up", "pop", "check", "flow", "tell", "process"}, prio: Packet,
              fresh: BOOLEAN]
  BY RxParts DEF BusInv
<1>2. CASE SdioStops
  BY <1>1, <1>2 DEF SdioStops
<1>3. CASE \E w \in Writers : WriteStep(w)
  BY <1>3, OneWriter DEF BusInv
<1>4. CASE \/ TxLoads \/ HostReads \/ HostSeesInts \/ TxDone \/ HostSends \/ HostDeepWakes
           \/ SdioResets \/ SdioReclaims \/ SdioGoes
  BY <1>4 DEF TxLoads, HostReads, HostSeesInts, TxDone, HostSends, HostDeepWakes, SdioResets,
              SdioReclaims, SdioGoes
<1>5. CASE SdioDeletes \/ SdioUp
  <2>1. prod \in [pc: {"idle", "check", "flow", "tell", "put", "give", "gone"}, prio: Packet]
    BY RxParts DEF BusInv
  <2> QED
    BY <1>5, <2>1 DEF SdioDeletes, SdioUp
<1> QED
  BY <1>2, <1>3, <1>4, <1>5 DEF SlotStep

(* ... and who has decided stays right until it has told it.               *)
LEMMA DecisionKept ==
  ASSUME BusInv, ~dead, RxStep \/ SpiStep \/ SlotStep
  PROVE  DecisionStands'
<1>0. /\ DecisionStands /\ RxShape /\ RxShape'
      /\ prod \in [pc: {"idle", "check", "flow", "tell", "put", "give", "gone"}, prio: Packet]
      /\ rd \in [pc: {"take", "up", "pop", "check", "flow", "tell", "process"}, prio: Packet,
                 fresh: BOOLEAN]
      /\ thr \in [current: BOOLEAN, flow: BOOLEAN, trig: 0 .. 1,
                  ints: SUBSET {"on", "off"}, host: BOOLEAN]
  BY RxParts, RxShapeKept DEF BusInv
<1>1. CASE bus' = "spi"
  BY <1>0, <1>1 DEF RxShape, DecisionStands
<1>2. CASE bus' # "spi"
  <2>1. SUFFICES ASSUME "crossed" \notin busHarm'
                 PROVE  /\ prod'.pc \in {"flow", "tell"} => thr'.current
                        /\ rd'.pc \in {"flow", "tell"} => ~thr'.current
    BY DEF DecisionStands
  <2>2. /\ "crossed" \notin busHarm /\ bus # "spi"
        /\ ~(ProdChecks \/ RdChecks) => thr'.current = thr.current
    BY <1>2, <2>1, Deciders
  <2>3. /\ prod.pc \in {"flow", "tell"} => thr.current
        /\ rd.pc \in {"flow", "tell"} => ~thr.current
    BY <1>0, <2>2 DEF DecisionStands
  <2>4. CASE ProdChecks
    <3>1. UNCHANGED rd /\ ~(StartNeeded /\ rd.pc \in {"flow", "tell"})
      BY <2>1, <2>4 DEF ProdChecks, BusHarm
    <3>2. CASE StartNeeded
      <4>1. thr'.current = TRUE
        BY <1>0, <2>4, <3>2 DEF ProdChecks
      <4> QED
        BY <3>1, <3>2, <4>1
    <3>3. CASE ~StartNeeded
      <4>1. thr' = thr /\ prod'.pc = "put"
        BY <1>0, <2>4, <3>3 DEF ProdChecks, ProdTo
      <4> QED
        BY <2>3, <3>1, <4>1
    <3> QED
      BY <3>2, <3>3
  <2>5. CASE RdChecks
    <3>1. UNCHANGED prod /\ ~(StopNeeded /\ prod.pc \in {"flow", "tell"})
      BY <2>1, <2>5 DEF RdChecks, BusHarm
    <3>2. CASE StopNeeded
      <4>1. thr'.current = FALSE
        BY <1>0, <2>5, <3>2 DEF RdChecks
      <4> QED
        BY <3>1, <3>2, <4>1
    <3>3. CASE ~StopNeeded
      <4>1. thr' = thr /\ rd'.pc = "process"
        BY <1>0, <2>5, <3>3 DEF RdChecks, RdTo
      <4> QED
        BY <2>3, <3>1, <4>1
    <3> QED
      BY <3>2, <3>3
  <2>6. CASE RxStep /\ ~(ProdChecks \/ RdChecks)
    <3>1. /\ prod'.pc \in {"flow", "tell"} => prod.pc \in {"flow", "tell"}
          /\ rd'.pc \in {"flow", "tell"} => rd.pc \in {"flow", "tell"}
      BY <1>0, <2>6 DEF RxStep, ProdStep, RdStep, ProdReceives, ProdFlow, ProdTells, ProdPuts,
         ProdGives, RdTakes, RdLooks, RdPops, RdFlow, RdTells, RdProcesses, ProdTo, RdTo
    <3> QED
      BY <2>2, <2>3, <2>6, <3>1
  <2>7. CASE SlotStep /\ ~(ProdChecks \/ RdChecks)
    <3>1. rd'.pc = rd.pc /\ (UNCHANGED prod \/ prod'.pc \in {"idle", "gone"})
      BY <2>7, SlotLeavesTasks
    <3> QED
      BY <2>2, <2>3, <2>7, <3>1
  <2>8. ~SpiStep
    BY <2>2 DEF SpiStep
  <2> QED
    BY <2>4, <2>5, <2>6, <2>7, <2>8
<1> QED
  BY <1>1, <1>2

(* Outside the receive path the host is told, and nothing is decided.      *)
LEMMA SlotTells ==
  ASSUME BusInv, ~dead, SlotStep
  PROVE  /\ UNCHANGED bus /\ bus # "spi" /\ rd'.pc = rd.pc
         /\ thr'.current = thr.current /\ thr'.flow = thr.flow
         /\ ~(HostSeesInts \/ SdioResets) => thr'.ints = thr.ints
         /\ ~(HostSeesInts \/ HostReads \/ SdioUp \/ HostDeepWakes \/ \E w \in Writers : UartPut(w))
              => thr'.host = thr.host
         /\ ~(\E w \in Writers : WriteBegins(w)) => thr'.trig = thr.trig
         /\ ~(SdioGoes \/ SdioUp) => UNCHANGED up
         /\ ~(SdioDeletes \/ SdioStops \/ SdioResets \/ SdioReclaims \/ SdioGoes)
              => UNCHANGED <<unload, prod>> \/ SdioUp
<1>0. thr \in [current: BOOLEAN, flow: BOOLEAN, trig: 0 .. 1, ints: SUBSET {"on", "off"},
               host: BOOLEAN]
  BY RxParts DEF BusInv
<1>1. UNCHANGED bus /\ bus # "spi" /\ rd'.pc = rd.pc
  BY SlotBounds, SlotLeavesTasks DEF SlotStep
<1>2. CASE \E w \in Writers : WriteStep(w)
  <2>1. PICK w \in Writers : WriteStep(w)
    BY <1>2
  <2>2. /\ ~WriteBegins(w) => thr'.trig = thr.trig
        /\ ~UartPut(w) => thr'.host = thr.host
        /\ thr'.current = thr.current /\ thr'.flow = thr.flow
        /\ thr'.ints = thr.ints /\ UNCHANGED <<up, unload, prod>>
    BY <1>0, <2>1 DEF WriteStep, WriteBegins, TakeSlot, TakeBlock, SlotPut, PutFails, UartPut,
       HostHears
  <2> QED
    BY <1>1, <2>2
<1>3. CASE \/ TxLoads \/ HostReads \/ HostSeesInts \/ TxDone \/ HostSends \/ HostDeepWakes
           \/ SdioDeletes \/ SdioStops \/ SdioResets \/ SdioReclaims \/ SdioGoes \/ SdioUp
  BY <1>0, <1>1, <1>3 DEF TxLoads, HostReads, HostSeesInts, TxDone, HostSends, HostDeepWakes,
     SdioDeletes, SdioStops, SdioResets, SdioReclaims, SdioGoes, SdioUp, HostHears
<1> QED
  BY <1>2, <1>3 DEF SlotStep

(* What is told, and what the host knows: which steps change it.           *)
LEMMA Tellers ==
  ASSUME BusInv, ~dead, RxStep \/ SlotStep
  PROVE  /\ ~(ProdTells \/ RdTells \/ HostSeesInts \/ SdioResets) => thr'.ints = thr.ints
         /\ ~(HostSeesInts \/ HostReads \/ SdioUp \/ HostDeepWakes \/ \E w \in Writers : UartPut(w))
              => thr'.host = thr.host
         /\ ~(ProdTells \/ RdTells \/ \E w \in Writers : WriteBegins(w)) => thr'.trig = thr.trig
         /\ ~RdTells /\ rd.pc \in {"flow", "tell"} => rd'.pc \in {"flow", "tell"}
         /\ ~RdFlow /\ rd.pc = "flow" => rd'.pc = "flow"
<1>0. /\ thr \in [current: BOOLEAN, flow: BOOLEAN, trig: 0 .. 1,
                  ints: SUBSET {"on", "off"}, host: BOOLEAN]
      /\ rd \in [pc: {"take", "up", "pop", "check", "flow", "tell", "process"}, prio: Packet,
                 fresh: BOOLEAN]
  BY RxParts DEF BusInv
<1>1. CASE RxStep
  <2>1. /\ ~(ProdTells \/ RdTells) => thr'.ints = thr.ints /\ thr'.trig = thr.trig
        /\ thr'.host = thr.host
    BY <1>0, <1>1 DEF RxStep, ProdStep, RdStep, ProdReceives, ProdChecks, ProdFlow, ProdTells,
       ProdPuts, ProdGives, RdTakes, RdLooks, RdPops, RdChecks, RdFlow, RdTells, RdProcesses, Tell
  <2>2. /\ ~RdTells /\ rd.pc \in {"flow", "tell"} => rd'.pc \in {"flow", "tell"}
        /\ ~RdFlow /\ rd.pc = "flow" => rd'.pc = "flow"
    BY <1>0, <1>1 DEF RxStep, ProdStep, RdStep, ProdReceives, ProdChecks, ProdFlow, ProdTells,
       ProdPuts, ProdGives, RdTakes, RdLooks, RdPops, RdChecks, RdFlow, RdTells, RdProcesses, RdTo
  <2> QED
    BY <2>1, <2>2
<1>2. CASE SlotStep
  BY <1>2, SlotTells
<1> QED
  BY <1>1, <1>2

(* SDIO's interrupts: the host hears of the end.                           *)
LEMMA InterruptKept ==
  ASSUME BusInv, ~dead, RxStep \/ SpiStep \/ SlotStep
  PROVE  InterruptOwed'
<1>0. /\ BusTypeOK /\ InterruptOwed /\ DecisionStands /\ RxShape /\ SlotShape
      /\ UnloadShape /\ UnloadShape'
      /\ thr \in [current: BOOLEAN, flow: BOOLEAN, trig: 0 .. 1,
                  ints: SUBSET {"on", "off"}, host: BOOLEAN]
  BY RxParts, UnloadShapeKept DEF BusInv
<1>a. bus' # "sdio" => thr'.ints = {}
  <2>1. CASE RxStep
    <3>1. UNCHANGED bus /\ (bus # "sdio" => thr'.ints = thr.ints)
      BY <1>0, <2>1, RxFlow DEF RxStep, ProdStep, RdStep, ProdReceives, ProdChecks, ProdFlow,
         ProdTells, ProdPuts, ProdGives, RdTakes, RdLooks, RdPops, RdChecks, RdFlow, RdTells,
         RdProcesses, Tell
    <3> QED
      BY <1>0, <3>1 DEF InterruptOwed
  <2>2. CASE SpiStep
    <3>1. UNCHANGED bus /\ thr'.ints = thr.ints
      BY <1>0, <2>2 DEF SpiStep, RaiseStep, LoadStep, SpiWrite, SpiPut, SpiGive, SetDataReady,
         SetDataReadyFlag, NextBuffer, ResetDataReady, ResetDataReadyFlag, NextDummy, Attach,
         PostResult, PostFinish, HostClocks, SpiReload
    <3> QED
      BY <1>0, <3>1 DEF InterruptOwed
  <2>3. CASE SlotStep
    <3>1. UNCHANGED bus
      BY <2>3, SlotBounds
    <3>2. CASE ~(ProdTells \/ RdTells \/ HostSeesInts \/ SdioResets)
      BY <1>0, <2>3, <3>1, <3>2, Tellers DEF InterruptOwed
    <3>3. CASE HostSeesInts \/ SdioResets
      BY <1>0, <3>3 DEF HostSeesInts, SdioResets
    <3>4. CASE (ProdTells \/ RdTells) /\ bus # "sdio"
      BY <1>0, <3>4 DEF ProdTells, RdTells, Tell, InterruptOwed
    <3> QED
      BY <3>1, <3>2, <3>3, <3>4
  <2> QED
    BY <2>1, <2>2, <2>3
<1>1. SUFFICES ASSUME bus' = "sdio", "crossed" \notin busHarm'
               PROVE  /\ prod'.pc # "gone" /\ ~thr'.current /\ rd'.pc \notin {"flow", "tell"}
                           /\ (thr'.host \/ "on" \in thr'.ints)
                           => "off" \in thr'.ints
                      /\ ~up' \/ unload'.at = "reset" => "on" \notin thr'.ints
  BY <1>a DEF InterruptOwed
<1>2. /\ bus = "sdio" /\ "crossed" \notin busHarm /\ (RxStep \/ SlotStep)
      /\ ~(ProdChecks \/ RdChecks) => thr'.current = thr.current
  BY <1>1, Deciders DEF SpiStep
<1>3. /\ prod.pc # "gone" /\ ~thr.current /\ rd.pc \notin {"flow", "tell"}
           /\ (thr.host \/ "on" \in thr.ints) => "off" \in thr.ints
      /\ ~up \/ unload.at = "reset" => "on" \notin thr.ints
  BY <1>0, <1>2 DEF InterruptOwed
<1>b. ASSUME UNCHANGED <<up, unload>>
      PROVE  prod'.pc # "gone" <=> prod.pc # "gone"
  BY <1>0, <1>1, <1>2, <1>b DEF UnloadShape
<1>4. CASE RxStep
  <2>0. /\ UNCHANGED <<up, unload>> /\ (prod'.pc # "gone" <=> prod.pc # "gone")
        /\ thr'.host = thr.host
        /\ rd \in [pc: {"take", "up", "pop", "check", "flow", "tell", "process"}, prio: Packet,
                    fresh: BOOLEAN]
    BY <1>0, <1>4, <1>b, RxFlow, RxParts, Tellers DEF RxStep, ProdStep, RdStep, ProdReceives,
       ProdChecks, ProdFlow, ProdTells, ProdPuts, ProdGives, RdTakes, RdLooks, RdPops, RdChecks,
       RdFlow, RdTells, RdProcesses, Tell
  <2>1. CASE ProdTells
    <3>1. thr.current /\ up /\ unload.at = "no"
      BY <1>0, <1>2, <2>1 DEF ProdTells, DecisionStands, UnloadShape
    <3>2. thr'.current
      BY <1>0, <1>2, <2>1, <3>1 DEF ProdTells, Tell
    <3> QED
      BY <2>0, <3>1, <3>2
  <2>2. CASE RdTells
    <3>1. thr'.ints = thr.ints \union {"off"}
      BY <1>0, <1>2, <2>2 DEF RdTells, Tell
    <3> QED
      BY <1>3, <2>0, <3>1
  <2>3. CASE ProdChecks
    <3>1. UNCHANGED rd
      BY <2>3 DEF ProdChecks
    <3>2. CASE StartNeeded
      <4>1. thr'.current /\ thr'.ints = thr.ints
        BY <1>0, <2>3, <3>2 DEF ProdChecks
      <4> QED
        BY <1>3, <2>0, <4>1
    <3>3. CASE ~StartNeeded
      <4>1. UNCHANGED thr
        BY <2>3, <3>3 DEF ProdChecks
      <4> QED
        BY <1>3, <2>0, <3>1, <4>1
    <3> QED
      BY <3>2, <3>3
  <2>4. CASE RdChecks
    <3>1. rd.pc = "check"
      BY <2>4 DEF RdChecks
    <3>2. CASE StopNeeded
      <4>1. rd'.pc = "tell" /\ thr'.ints = thr.ints
        BY <1>0, <1>2, <2>0, <2>4, <3>2 DEF RdChecks, RdTo
      <4> QED
        BY <1>3, <2>0, <3>1, <4>1
    <3>3. CASE ~StopNeeded
      <4>1. UNCHANGED thr
        BY <2>4, <3>3 DEF RdChecks
      <4> QED
        BY <1>3, <2>0, <3>1, <4>1
    <3> QED
      BY <3>2, <3>3
  <2>5. CASE ~(ProdTells \/ RdTells \/ ProdChecks \/ RdChecks)
    <3>1. /\ thr'.ints = thr.ints /\ thr'.current = thr.current
          /\ rd.pc \in {"flow", "tell"} => rd'.pc \in {"flow", "tell"}
      BY <1>0, <1>2, <1>4, <2>5, Tellers DEF RxStep, ProdStep, RdStep, ProdReceives, ProdFlow,
         ProdPuts, ProdGives, RdTakes, RdLooks, RdPops, RdFlow, RdProcesses
    <3> QED
      BY <1>3, <2>0, <3>1
  <2> QED
    BY <2>1, <2>2, <2>3, <2>4, <2>5
<1>5. CASE SlotStep
  <2>0. rd'.pc = rd.pc /\ thr'.current = thr.current
    BY <1>5, SlotTells
  <2>1. CASE HostSeesInts
    <3>1. thr'.ints = {} /\ thr'.host = ("off" \notin thr.ints) /\ thr.ints # {}
          /\ UNCHANGED <<up, unload, prod>>
      BY <1>0, <2>1 DEF HostSeesInts
    <3>2. "off" \in thr.ints \/ "on" \in thr.ints
      BY <1>0, <3>1
    <3> QED
      BY <1>3, <2>0, <3>1, <3>2
  <2>2. CASE SdioDeletes
    <3>1. prod'.pc = "gone" /\ up' /\ unload'.at = "deleted"
      BY <2>2 DEF SdioDeletes
    <3> QED
      BY <3>1
  <2>3. CASE SdioStops
    <3>1. UNCHANGED <<prod, thr, up>> /\ up /\ unload'.at # "reset"
      <4>1. unload \in [at: {"no", "deleted", "stopped", "reset"}, tries: 0 .. Reclaim]
        BY <1>0, SlotRecord
      <4> QED
        BY <1>0, <2>3, <4>1 DEF SdioStops, UnloadShape
    <3> QED
      BY <1>3, <2>0, <3>1
  <2>4. CASE SdioResets
    <3>1. thr'.ints = {} /\ prod'.pc = "gone"
      BY <1>0, <1>2, <2>4 DEF SdioResets, UnloadShape
    <3> QED
      BY <3>1
  <2>5. CASE SdioReclaims \/ SdioGoes
    <3>1. UNCHANGED <<prod, thr>> /\ unload.at = "reset"
      BY <2>5 DEF SdioReclaims, SdioGoes
    <3> QED
      BY <1>3, <2>0, <3>1
  <2>6. CASE SdioUp
    <3>1. thr'.ints = thr.ints /\ ~up /\ thr'.host = FALSE
      BY <1>0, <2>6 DEF SdioUp
    <3> QED
      BY <1>3, <3>1
  <2>7. CASE ~(HostSeesInts \/ SdioDeletes \/ SdioStops \/ SdioResets \/ SdioReclaims
                 \/ SdioGoes \/ SdioUp)
    <3>1. thr'.ints = thr.ints /\ UNCHANGED <<up, unload, prod>>
      BY <1>5, <2>7, SlotTells
    <3>2. thr'.host = thr.host
      <4>1. CASE HostReads
        <5>1. dma # <<>> /\ dma \in Seq(Said)
          BY <1>0, <1>2, <4>1, SlotRecord DEF HostReads
        <5>2. Head(dma) = dma[1] /\ 1 \in DOMAIN dma
          BY <5>1
        <5>3. dma[1] = "none"
          BY <1>0, <1>2, <5>2 DEF SlotShape
        <5>4. Head(dma) = "none" /\ HostHears(Head(dma))
          BY <1>2, <4>1, <5>2, <5>3 DEF HostReads
        <5> QED
          BY <1>0, <5>4 DEF HostHears
      <4>2. CASE ~HostReads
        BY <1>2, <1>5, <2>7, <4>2, SlotTells DEF HostDeepWakes, UartPut
      <4> QED
        BY <4>1, <4>2
    <3> QED
      BY <1>3, <2>0, <3>1, <3>2
  <2> QED
    BY <2>1, <2>2, <2>3, <2>4, <2>5, <2>6, <2>7
<1> QED
  BY <1>2, <1>4, <1>5

(* SPI_HD: flow_ctrl_task reads that it has ended.                         *)
LEMMA FlowKept ==
  ASSUME BusInv, ~dead, RxStep \/ SpiStep \/ SlotStep
  PROVE  FlowTrue'
<1>0. /\ BusTypeOK /\ FlowTrue /\ DecisionStands /\ Throttles = (bus \in {"spi_hd", "sdio"})
      /\ thr \in [current: BOOLEAN, flow: BOOLEAN, trig: 0 .. 1,
                  ints: SUBSET {"on", "off"}, host: BOOLEAN]
      /\ rd \in [pc: {"take", "up", "pop", "check", "flow", "tell", "process"}, prio: Packet,
                 fresh: BOOLEAN]
  BY RxParts DEF BusInv, Throttles
<1>1. SUFFICES ASSUME bus' = "spi_hd", "crossed" \notin busHarm', ~thr'.current, rd'.pc # "flow"
               PROVE  ~thr'.flow
  BY DEF FlowTrue
<1>2. /\ bus = "spi_hd" /\ "crossed" \notin busHarm /\ (RxStep \/ SlotStep)
      /\ ~(ProdChecks \/ RdChecks) => thr'.current = thr.current
      /\ ~(ProdFlow \/ RdFlow) => thr'.flow = thr.flow
  BY <1>1, Deciders DEF SpiStep
<1>3. ~thr.current /\ rd.pc # "flow" => ~thr.flow
  BY <1>0, <1>2 DEF FlowTrue
<1>4. CASE ProdFlow
  <2>1. thr.current
    BY <1>0, <1>2, <1>4 DEF ProdFlow, DecisionStands
  <2>2. thr'.current
    BY <1>0, <1>4, <2>1 DEF ProdFlow
  <2> QED
    BY <1>1, <2>2
<1>5. CASE RdFlow
  BY <1>0, <1>5 DEF RdFlow
<1>6. CASE ProdChecks
  <2>1. UNCHANGED rd
    BY <1>6 DEF ProdChecks
  <2>2. ~StartNeeded
    BY <1>0, <1>1, <1>6 DEF ProdChecks
  <2>3. UNCHANGED thr
    BY <1>6, <2>2 DEF ProdChecks
  <2> QED
    BY <1>1, <1>3, <2>1, <2>3
<1>7. CASE RdChecks
  <2>1. rd.pc = "check"
    BY <1>7 DEF RdChecks
  <2>2. ~StopNeeded
    BY <1>0, <1>1, <1>2, <1>7 DEF RdChecks, RdTo
  <2>3. UNCHANGED thr
    BY <1>7, <2>2 DEF RdChecks
  <2> QED
    BY <1>1, <1>3, <2>1, <2>3
<1>8. CASE ~(ProdFlow \/ RdFlow \/ ProdChecks \/ RdChecks)
  <2>1. rd.pc # "flow"
    BY <1>1, <1>2, <1>8, Tellers
  <2> QED
    BY <1>1, <1>2, <1>3, <1>8, <2>1
<1> QED
  BY <1>4, <1>5, <1>6, <1>7, <1>8

(* ... and the last word is on its way to the host: after what goes on in  *)
(* the receive path, ...                                                   *)
LEMMA MessageRx ==
  ASSUME BusInv, ~dead, RxStep, bus = "spi_hd", busHarm' \intersect {"crossed", "failed"} = {},
         ~thr'.current, rd'.pc \notin {"flow", "tell"}, thr'.trig = 0
  PROVE  LastWordOff'
<1>0. /\ BusTypeOK /\ MessageOwed /\ Throttles /\ UNCHANGED <<wr, dma>>
      /\ thr \in [current: BOOLEAN, flow: BOOLEAN, trig: 0 .. 1,
                  ints: SUBSET {"on", "off"}, host: BOOLEAN]
      /\ rd \in [pc: {"take", "up", "pop", "check", "flow", "tell", "process"}, prio: Packet,
                 fresh: BOOLEAN]
  BY RxParts DEF BusInv, Throttles, RxStep
<1>1. /\ bus' # "spi" /\ busHarm \subseteq busHarm'
      /\ ~(ProdChecks \/ RdChecks) => thr'.current = thr.current
  <2>1. bus' # "spi"
    BY RxFlow
  <2> QED
    BY <2>1, Deciders
<1>2. ~(ProdTells \/ RdTells)
  BY <1>0 DEF ProdTells, RdTells, Tell
<1>3. ~(ProdChecks /\ StartNeeded) /\ ~(RdChecks /\ StopNeeded)
  BY <1>0 DEF ProdChecks, RdChecks, RdTo
<1>4. thr'.current = thr.current
  BY <1>1, <1>3 DEF ProdChecks, RdChecks
<1>5. thr'.host = thr.host /\ thr'.trig = thr.trig /\ rd.pc \notin {"flow", "tell"}
  <2>1. ~(HostSeesInts \/ HostReads \/ SdioUp \/ HostDeepWakes \/ \E w \in Writers : UartPut(w))
          \/ thr'.host = thr.host
    BY <1>0 DEF RxStep, ProdStep, RdStep, ProdReceives, ProdChecks, ProdFlow, ProdTells,
       ProdPuts, ProdGives, RdTakes, RdLooks, RdPops, RdChecks, RdFlow, RdTells, RdProcesses, Tell
  <2>2. ~(\E w \in Writers : WriteBegins(w)) \/ thr'.trig = thr.trig
    BY <1>0, <1>2 DEF RxStep, ProdStep, RdStep, ProdReceives, ProdChecks, ProdFlow, ProdTells,
       ProdPuts, ProdGives, RdTakes, RdLooks, RdPops, RdChecks, RdFlow, RdTells, RdProcesses
  <2> QED
    BY <1>2, <2>1, <2>2, Tellers
<1>6. LastWordOff
  BY <1>0, <1>1, <1>4, <1>5 DEF MessageOwed
<1> QED
  BY <1>0, <1>5, <1>6 DEF LastWordOff

(* ... after a step of a writer, ...                                       *)
LEMMA MessageWrites ==
  ASSUME BusInv, ~dead, bus = "spi_hd", busHarm' \intersect {"crossed", "failed"} = {},
         ~thr.current, rd.pc \notin {"flow", "tell"}, thr'.trig = 0,
         busHarm \subseteq busHarm', NEW w \in Writers, WriteStep(w)
  PROVE  LastWordOff'
<1>0. /\ BusTypeOK /\ SlotShape /\ PlaceMeansBlock
      /\ thr \in [current: BOOLEAN, flow: BOOLEAN, trig: 0 .. 1,
                  ints: SUBSET {"on", "off"}, host: BOOLEAN]
      /\ dma \in Seq(Said) /\ wr[w] \in [pc: WrPc, says: Said, block: BOOLEAN, slot: BOOLEAN]
      /\ wr \in [Writers -> [pc: WrPc, says: Said, block: BOOLEAN, slot: BOOLEAN]]
  BY RxParts, SlotRecord, BlockIsThere DEF BusInv
<1>1. "flow" \in Writers /\ \A u \in Writers \ {w} : wr'[u] = wr[u]
  BY <1>0, OneWriter
<1>2. thr.trig = 0 => LastWordOff
  BY DEF BusInv, MessageOwed
<1>3. ~PutFails(w) /\ ~UartPut(w)
  BY <1>0 DEF PutFails, UartPut, BusHarm
<1>4. CASE WriteBegins(w) /\ w = "flow"
  <2>1. ~thr.flow
    BY DEF BusInv, FlowTrue
  <2>2. wr'[w].pc = "slot" /\ wr'[w].says = "off"
    BY <1>0, <1>4, <2>1 DEF WriteBegins
  <2> QED
    BY <1>4, <2>2 DEF LastWordOff
<1>5. CASE (TakeSlot(w) \/ TakeBlock(w)) /\ w = "flow"
  <2>1. wr'[w].pc # "idle" /\ wr[w].pc # "idle" /\ wr'[w].says = wr[w].says /\ UNCHANGED thr
    BY <1>0, <1>5 DEF TakeSlot, TakeBlock, PlaceMeansBlock
  <2> QED
    BY <1>2, <1>5, <2>1 DEF LastWordOff
<1>6. CASE SlotPut(w)
  <2>1. dma' = Append(dma, wr[w].says) /\ wr[w].pc = "put" /\ UNCHANGED thr
    BY <1>6 DEF SlotPut
  <2>2. LastWordOff
    BY <1>2, <2>1
  <2>3. /\ \A i \in DOMAIN dma : i \in DOMAIN dma' /\ dma'[i] = dma[i] /\ i < Len(dma) + 1
        /\ Len(dma) + 1 \in DOMAIN dma' /\ dma'[Len(dma) + 1] = wr[w].says
        /\ \A i \in DOMAIN dma' : i \in DOMAIN dma \/ i = Len(dma) + 1
    BY <1>0, <2>1
  <2>4. CASE w = "flow"
    <3>1. wr[w].says = "off" /\ wr'[w].pc = "idle"
      BY <1>0, <1>6, <2>1, <2>2, <2>4 DEF LastWordOff, SlotPut, Resting
    <3> HIDE <2>1
    <3> QED
      BY <2>3, <2>4, <3>1 DEF LastWordOff
  <2>5. CASE w # "flow"
    <3>1. wr[w].says = "none" /\ wr'["flow"] = wr["flow"]
      BY <1>0, <1>1, <2>5 DEF SlotShape, WriterShape
    <3> QED
      BY <2>1, <2>2, <2>3, <3>1 DEF LastWordOff
  <2> QED
    BY <2>4, <2>5
<1>7. CASE (WriteBegins(w) \/ TakeSlot(w) \/ TakeBlock(w)) /\ w # "flow"
  <2>1. UNCHANGED dma /\ thr'.host = thr.host /\ thr'.trig = thr.trig /\ wr'["flow"] = wr["flow"]
    BY <1>1, <1>7 DEF WriteBegins, TakeSlot, TakeBlock
  <2> QED
    BY <1>2, <2>1 DEF LastWordOff
<1> QED
  BY <1>3, <1>4, <1>5, <1>6, <1>7 DEF WriteStep

(* ... and after the host has read.                                        *)
LEMMA MessageReads ==
  ASSUME BusTypeOK, SlotShape, bus = "spi_hd", LastWordOff, HostReads
  PROVE  LastWordOff'
<1>0. /\ thr \in [current: BOOLEAN, flow: BOOLEAN, trig: 0 .. 1,
                  ints: SUBSET {"on", "off"}, host: BOOLEAN]
      /\ dma \in Seq(Said) /\ UNCHANGED wr
  BY RxParts, SlotRecord DEF HostReads
<1>1. CASE ~(link.ready = 1 /\ link.loaded)
  <2>1. UNCHANGED <<dma, thr>>
    BY <1>1 DEF HostReads
  <2> QED
    BY <1>0, <2>1 DEF LastWordOff
<1>2. CASE link.ready = 1 /\ link.loaded
  <2>1. dma # <<>> /\ dma' = Tail(dma) /\ HostHears(Head(dma))
    BY <1>2 DEF HostReads, SlotShape
  <2>2. thr'.host = IF dma[1] = "none" THEN thr.host ELSE dma[1] = "on"
    BY <1>0, <2>1 DEF HostHears
  <2>3. /\ \A i \in DOMAIN dma' : i + 1 \in DOMAIN dma /\ dma'[i] = dma[i + 1] /\ i \in Nat \ {0}
        /\ \A i \in DOMAIN dma : i = 1 \/ (i - 1 \in DOMAIN dma' /\ dma'[i - 1] = dma[i] /\ i > 1)
        /\ 1 \in DOMAIN dma /\ \A i \in DOMAIN dma : i \in Nat \ {0}
    BY <1>0, <2>1
  <2>4. CASE wr["flow"].pc # "idle"
    BY <1>0, <2>4 DEF LastWordOff
  <2>5. CASE wr["flow"].pc = "idle"
    <3>1. /\ thr.host => \E i \in DOMAIN dma : dma[i] = "off"
          /\ \A i \in DOMAIN dma :
               dma[i] = "on" => \E j \in DOMAIN dma : i < j /\ dma[j] = "off"
      BY <2>5 DEF LastWordOff
    <3>2. ASSUME thr'.host
          PROVE  \E i \in DOMAIN dma' : dma'[i] = "off"
      <4>1. \E j \in DOMAIN dma : j > 1 /\ dma[j] = "off"
        <5>1. CASE dma[1] = "none"
          BY <2>2, <2>3, <3>1, <3>2, <5>1
        <5>2. CASE dma[1] = "on"
          BY <2>3, <3>1, <5>2
        <5> QED
          BY <2>2, <3>2, <5>1, <5>2
      <4> QED
        BY <2>3, <4>1
    <3>3. ASSUME NEW i \in DOMAIN dma', dma'[i] = "on"
          PROVE  \E j \in DOMAIN dma' : i < j /\ dma'[j] = "off"
      <4>1. PICK j \in DOMAIN dma : i + 1 < j /\ dma[j] = "off"
        BY <2>3, <3>1, <3>3
      <4>2. j - 1 \in DOMAIN dma' /\ dma'[j - 1] = "off" /\ i < j - 1
        BY <2>3, <4>1
      <4> QED
        BY <4>2
    <3> QED
      BY <1>0, <2>5, <3>2, <3>3 DEF LastWordOff
  <2> QED
    BY <2>4, <2>5
<1> QED
  BY <1>1, <1>2

(* The last word is on its way to the host.                                *)
LEMMA MessageKept ==
  ASSUME BusInv, ~dead, RxStep \/ SpiStep \/ SlotStep
  PROVE  MessageOwed'
<1>0. /\ BusTypeOK /\ SlotShape /\ MessageOwed
      /\ thr \in [current: BOOLEAN, flow: BOOLEAN, trig: 0 .. 1,
                  ints: SUBSET {"on", "off"}, host: BOOLEAN]
  BY RxParts DEF BusInv
<1>1. SUFFICES ASSUME bus' = "spi_hd", busHarm' \intersect {"crossed", "failed"} = {},
                      ~thr'.current, rd'.pc \notin {"flow", "tell"}, thr'.trig = 0
               PROVE  LastWordOff'
  BY DEF MessageOwed
<1>2. bus = "spi_hd" /\ (RxStep \/ SlotStep) /\ busHarm \subseteq busHarm'
  BY <1>1, Deciders DEF SpiStep
<1>3. CASE RxStep
  BY <1>1, <1>2, <1>3, MessageRx
<1>4. CASE SlotStep
  <2>1. rd'.pc = rd.pc /\ thr'.current = thr.current
    <3>1. thr'.current = thr.current
      BY <1>0, <1>4 DEF SlotStep, WriteStep, WriteBegins, TakeSlot, TakeBlock, SlotPut, PutFails,
         UartPut, TxLoads, HostReads, HostSeesInts, TxDone, HostSends, HostDeepWakes,
         SdioDeletes, SdioStops, SdioResets, SdioReclaims, SdioGoes,
         SdioUp, HostHears
    <3> QED
      BY <1>4, <3>1, SlotLeavesTasks
  <2>2. CASE \E w \in Writers : WriteStep(w)
    BY <1>1, <1>2, <2>1, <2>2, MessageWrites
  <2>3. thr'.trig = thr.trig => LastWordOff
    BY <1>0, <1>1, <1>2, <2>1 DEF MessageOwed
  <2>4. CASE HostReads
    <3>1. thr'.trig = thr.trig
      BY <1>0, <2>4 DEF HostReads, HostHears
    <3> QED
      BY <1>0, <1>2, <2>3, <2>4, <3>1, MessageReads
  <2>5. CASE TxLoads \/ TxDone \/ HostSends
    <3>1. UNCHANGED <<thr, wr, dma>>
      BY <2>5 DEF TxLoads, TxDone, HostSends
    <3> QED
      BY <2>3, <3>1 DEF LastWordOff
  <2>6. CASE HostDeepWakes
    <3>1. UNCHANGED <<wr, dma>> /\ thr'.host = FALSE /\ thr'.trig = thr.trig
      BY <1>0, <2>6 DEF HostDeepWakes
    <3> QED
      BY <2>3, <3>1 DEF LastWordOff
  <2>7. ~(\/ HostSeesInts \/ SdioDeletes \/ SdioStops \/ SdioResets \/ SdioReclaims
          \/ SdioGoes \/ SdioUp)
    <3>1. unload.at = "no" /\ thr.ints = {}
      BY <1>2 DEF BusInv, UnloadShape, InterruptOwed
    <3> QED
      BY <1>2, <3>1 DEF HostSeesInts, SdioDeletes, SdioStops, SdioResets, SdioReclaims, SdioGoes,
         SdioUp
  <2> QED
    BY <1>4, <2>2, <2>4, <2>5, <2>6, <2>7 DEF SlotStep
<1> QED
  BY <1>2, <1>3, <1>4

(* SPI_HD: what is loaded is announced.                                    *)
LEMMA AnnouncedKept ==
  ASSUME BusInv, RxStep \/ SpiStep \/ SlotStep
  PROVE  LoadedIsAnnounced'
<1>0. /\ BusTypeOK /\ LoadedIsAnnounced /\ busHarm \subseteq busHarm'
      /\ link \in [dr: BOOLEAN, loaded: BOOLEAN, ready: 0 .. 1]
  BY SlotRecord, HarmGrows DEF BusInv
<1>1. SUFFICES ASSUME bus' = "spi_hd", link'.loaded, "stranded" \notin busHarm'
               PROVE  link'.dr /\ link'.ready = 1
  BY DEF LoadedIsAnnounced
<1>2. CASE TxLoads
  BY <1>0, <1>2 DEF TxLoads, Loaded
<1>3. CASE HostReads
  BY <1>0, <1>1, <1>3 DEF HostReads, LoadedIsAnnounced
<1>4. CASE HostDeepWakes
  <2>1. ~link.loaded
    BY <1>1, <1>4 DEF HostDeepWakes, BusHarm
  <2> QED
    BY <1>0, <1>1, <1>4, <2>1 DEF HostDeepWakes
<1>5. CASE ~(TxLoads \/ HostReads \/ HostDeepWakes)
  <2>1. UNCHANGED <<bus, link>>
    <3>1. RxStep => UNCHANGED <<bus, link>>
      BY DEF RxStep, ProdStep, RdStep, ProdReceives, ProdChecks, ProdFlow, ProdTells, ProdPuts,
         ProdGives, RdTakes, RdLooks, RdPops, RdChecks, RdFlow, RdTells, RdProcesses
    <3>2. SpiStep => UNCHANGED <<bus, link>>
      BY DEF SpiStep, RaiseStep, LoadStep, SpiWrite, SpiPut, SpiGive, SetDataReady,
         SetDataReadyFlag, NextBuffer, ResetDataReady, ResetDataReadyFlag, NextDummy, Attach,
         PostResult, PostFinish, HostClocks, SpiReload
    <3>3. SlotStep => UNCHANGED <<bus, link>>
      BY <1>5 DEF SlotStep, WriteStep, WriteBegins, TakeSlot, TakeBlock, SlotPut, PutFails,
         UartPut, HostSeesInts, TxDone, HostSends,
         SdioDeletes, SdioStops, SdioResets, SdioReclaims, SdioGoes, SdioUp
    <3> QED
      BY <3>1, <3>2, <3>3
  <2> QED
    BY <1>0, <1>1, <2>1 DEF LoadedIsAnnounced
<1> QED
  BY <1>2, <1>3, <1>4, <1>5

-----------------------------------------------------------------------------
(* SPI: the line, and what waits.                                          *)

(* Where a step takes a task that raises the line, ...                     *)
LEMMA RaiseMoves ==
  ASSUME BusTypeOK, NEW t \in Raisers, RaiseStep(t)
  PROVE  /\ t \in SpiTasks /\ \A u \in SpiTasks \ {t} : at'[u] = at[u]
         /\ SpiWrite(t) => at[t].pc = "idle" /\ at'[t].pc = "put"
         /\ SpiPut(t) => at[t].pc = "put" /\ at'[t].pc = IF t = "start" THEN "give" ELSE "dr"
         /\ SpiGive(t) => at[t].pc = "give" /\ at'[t].pc = IF t = "start" THEN "dr" ELSE "idle"
         /\ SetDataReady(t) => /\ at[t].pc = "dr"
                               /\ at'[t].pc = IF spi.flag THEN AfterRaise(t) ELSE "dr_flag"
         /\ SetDataReadyFlag(t) => at[t].pc = "dr_flag" /\ at'[t].pc = AfterRaise(t)
<1>0. t \in SpiTasks /\ at \in [SpiTasks -> [pc: SpiPc, prio: Prio, sends: Sends]]
  BY SpiFrame, TaskNames DEF AtOK
<1>1. ASSUME NEW pc, Go(t, pc)
      PROVE  at'[t].pc = pc /\ \A u \in SpiTasks \ {t} : at'[u] = at[u]
  BY <1>0, <1>1 DEF Go
<1>2. CASE SpiWrite(t)
  <2>1. at[t].pc = "idle" /\ at'[t].pc = "put" /\ \A u \in SpiTasks \ {t} : at'[u] = at[u]
    BY <1>0, <1>2 DEF SpiWrite
  <2> QED
    BY <1>0, <2>1 DEF SpiPut, SpiGive, SetDataReady, SetDataReadyFlag
<1>3. CASE SpiPut(t)
  <2>1. at[t].pc = "put" /\ Go(t, IF t = "start" THEN "give" ELSE "dr")
    BY <1>3 DEF SpiPut
  <2> QED
    BY <1>0, <1>1, <2>1 DEF SpiWrite, SpiGive, SetDataReady, SetDataReadyFlag
<1>4. CASE SpiGive(t)
  <2>1. at[t].pc = "give" /\ Go(t, IF t = "start" THEN "dr" ELSE "idle")
    BY <1>4 DEF SpiGive
  <2> QED
    BY <1>0, <1>1, <2>1 DEF SpiWrite, SpiPut, SetDataReady, SetDataReadyFlag
<1>5. CASE SetDataReady(t)
  <2>1. at[t].pc = "dr" /\ Go(t, IF spi.flag THEN AfterRaise(t) ELSE "dr_flag")
    BY <1>5 DEF SetDataReady
  <2> QED
    BY <1>0, <1>1, <2>1 DEF SpiWrite, SpiPut, SpiGive, SetDataReadyFlag
<1>6. CASE SetDataReadyFlag(t)
  <2>1. at[t].pc = "dr_flag" /\ Go(t, AfterRaise(t))
    BY <1>6 DEF SetDataReadyFlag
  <2> QED
    BY <1>0, <1>1, <2>1 DEF SpiWrite, SpiPut, SpiGive, SetDataReady
<1> QED
  BY <1>2, <1>3, <1>4, <1>5, <1>6 DEF RaiseStep

NextHas == spi.sem > 0 /\ spi.q[First(TxWaiting)] > 0
Ends(t) == IF t = "post" THEN "finish" ELSE "idle"

(* ... one that loads a transaction, ...                                   *)
LEMMA LoadMoves ==
  ASSUME BusTypeOK, NEW t \in Loaders, LoadStep(t)
  PROVE  /\ t \in SpiTasks /\ \A u \in SpiTasks \ {t} : at'[u] = at[u]
         /\ NextBuffer(t) => /\ at[t].pc = "next"
                             /\ at'[t].pc = IF NextHas THEN "attach" ELSE "reset"
         /\ ResetDataReady(t) => /\ at[t].pc = "reset"
                                 /\ at'[t].pc = IF spi.flag THEN "reset_flag" ELSE "dummy"
         /\ ResetDataReadyFlag(t) => at[t].pc = "reset_flag" /\ at'[t].pc = "dummy"
         /\ NextDummy(t) => /\ at[t].pc = "dummy"
                            /\ at'[t].pc = IF pool.tx > 0 THEN "attach" ELSE Ends(t)
                            /\ pool.tx > 0 => ~at'[t].sends.data
         /\ Attach(t) => at[t].pc = "attach" /\ at'[t].pc = Ends(t)
<1>0. t \in SpiTasks /\ at \in [SpiTasks -> [pc: SpiPc, prio: Prio, sends: Sends]]
  BY SpiFrame, TaskNames DEF AtOK
<1>1. ASSUME NEW pc, Go(t, pc)
      PROVE  at'[t].pc = pc /\ \A u \in SpiTasks \ {t} : at'[u] = at[u]
  BY <1>0, <1>1 DEF Go
<1>a. ASSUME NEW data, NEW throttle, Holds(t, data, throttle)
      PROVE  /\ at'[t].pc = "attach" /\ at'[t].sends.data = data
             /\ \A u \in SpiTasks \ {t} : at'[u] = at[u]
  BY <1>0, <1>a DEF Holds
<1>2. CASE NextBuffer(t)
  <2>1. at[t].pc = "next" /\ IF NextHas THEN Holds(t, TRUE, FALSE) ELSE Go(t, "reset")
    BY <1>2 DEF NextBuffer, NextHas
  <2>2. /\ at'[t].pc = (IF NextHas THEN "attach" ELSE "reset")
        /\ \A u \in SpiTasks \ {t} : at'[u] = at[u]
    BY <1>1, <1>a, <2>1
  <2> QED
    BY <1>0, <2>1, <2>2 DEF ResetDataReady, ResetDataReadyFlag, NextDummy, Attach
<1>3. CASE ResetDataReady(t)
  <2>1. at[t].pc = "reset" /\ Go(t, IF spi.flag THEN "reset_flag" ELSE "dummy")
    BY <1>3 DEF ResetDataReady
  <2> QED
    BY <1>0, <1>1, <2>1 DEF NextBuffer, ResetDataReadyFlag, NextDummy, Attach
<1>4. CASE ResetDataReadyFlag(t)
  <2>1. at[t].pc = "reset_flag" /\ Go(t, "dummy")
    BY <1>4 DEF ResetDataReadyFlag
  <2> QED
    BY <1>0, <1>1, <2>1 DEF NextBuffer, ResetDataReady, NextDummy, Attach
<1>5. CASE NextDummy(t)
  <2>1. /\ at[t].pc = "dummy"
        /\ IF pool.tx > 0 THEN Holds(t, FALSE, SpiThrottle) ELSE Go(t, Ends(t))
    BY <1>5 DEF NextDummy, Ends
  <2>2. /\ at'[t].pc = (IF pool.tx > 0 THEN "attach" ELSE Ends(t))
        /\ \A u \in SpiTasks \ {t} : at'[u] = at[u]
        /\ pool.tx > 0 => ~at'[t].sends.data
    <3>1. CASE pool.tx > 0
      <4>1. Holds(t, FALSE, SpiThrottle)
        BY <2>1, <3>1
      <4> QED
        BY <1>a, <3>1, <4>1
    <3>2. CASE ~(pool.tx > 0)
      BY <1>1, <2>1, <3>2
    <3> QED
      BY <3>1, <3>2
  <2> QED
    BY <1>0, <2>1, <2>2 DEF NextBuffer, ResetDataReady, ResetDataReadyFlag, Attach
<1>6. CASE Attach(t)
  <2>1. at[t].pc = "attach" /\ Go(t, Ends(t))
    BY <1>6 DEF Attach, Ends
  <2> QED
    BY <1>0, <1>1, <2>1 DEF NextBuffer, ResetDataReady, ResetDataReadyFlag, NextDummy
<1> QED
  BY <1>2, <1>3, <1>4, <1>5, <1>6 DEF LoadStep

(* ... and the task of the transactions.                                   *)
LEMMA PostMoves ==
  ASSUME BusTypeOK
  PROVE  /\ PostResult \/ PostFinish => \A u \in SpiTasks \ {"post"} : at'[u] = at[u]
         /\ PostResult => at["post"].pc = "idle" /\ at'["post"].pc = "next"
         /\ PostFinish => at["post"].pc = "finish" /\ at'["post"].pc = "idle"
<1>0. "post" \in SpiTasks /\ at \in [SpiTasks -> [pc: SpiPc, prio: Prio, sends: Sends]]
  BY SpiFrame DEF AtOK
<1>1. CASE PostResult
  BY <1>0, <1>1 DEF PostResult, PostFinish, Go
<1>2. CASE PostFinish
  BY <1>0, <1>2 DEF PostResult, PostFinish, Go
<1> QED
  BY <1>1, <1>2

(* What a step does to the line and its shadow.                            *)
LEMMA LineMoves ==
  ASSUME BusTypeOK, SpiStep
  PROVE  /\ (\A t \in Raisers : ~SetDataReady(t)) /\ (\A t \in Loaders : ~ResetDataReady(t))
              => spi'.dr = spi.dr
         /\ (\A t \in Raisers : ~SetDataReadyFlag(t)) /\ (\A t \in Loaders : ~ResetDataReadyFlag(t))
              => spi'.flag = spi.flag
         /\ \A t \in Raisers : SetDataReady(t) => spi'.dr = (spi.dr \/ ~spi.flag)
         /\ \A t \in Raisers : SetDataReadyFlag(t) => spi'.flag = TRUE
         /\ \A t \in Loaders : ResetDataReady(t) => spi'.dr = (spi.dr /\ ~spi.flag)
         /\ \A t \in Loaders : ResetDataReadyFlag(t) => spi'.flag = FALSE
<1>0. spi \in [dr: BOOLEAN, flag: BOOLEAN, latch: BOOLEAN, q: [Prio -> 0 .. TxQ],
               sem: 0 .. 3 * TxQ]
  BY SpiFrame DEF LineOK
<1>1. CASE \E t \in Raisers : RaiseStep(t)
  <2>1. PICK t \in Raisers : RaiseStep(t)
    BY <1>1
  <2>2. /\ ~SetDataReady(t) => spi'.dr = spi.dr
        /\ ~SetDataReadyFlag(t) => spi'.flag = spi.flag
    BY <1>0, <2>1
       DEF RaiseStep, SpiWrite, SpiPut, SpiGive, SetDataReady, SetDataReadyFlag, Raised
  <2>3. QED
    BY <1>0, <2>2 DEF SetDataReady, SetDataReadyFlag, Raised, ResetDataReady, ResetDataReadyFlag
<1>2. CASE \E t \in Loaders : LoadStep(t)
  <2>1. PICK t \in Loaders : LoadStep(t)
    BY <1>2
  <2>2. /\ ~ResetDataReady(t) => spi'.dr = spi.dr
        /\ ~ResetDataReadyFlag(t) => spi'.flag = spi.flag
    BY <1>0, <2>1
       DEF LoadStep, NextBuffer, ResetDataReady, ResetDataReadyFlag, NextDummy, Attach
  <2>3. QED
    BY <1>0, <2>2 DEF SetDataReady, SetDataReadyFlag, Raised, ResetDataReady, ResetDataReadyFlag
<1>3. CASE PostResult \/ PostFinish \/ HostClocks \/ SpiReload
  <2>1. spi'.dr = spi.dr /\ spi'.flag = spi.flag
    BY <1>0, <1>3 DEF PostResult, PostFinish, HostClocks, SpiReload
  <2> QED
    BY <1>0, <2>1 DEF SetDataReady, SetDataReadyFlag, Raised, ResetDataReady, ResetDataReadyFlag
<1> QED
  BY <1>1, <1>2, <1>3 DEF SpiStep

(* A step of the other drivers, or of the receive path, leaves SPI's.      *)
LEMMA SpiLeft ==
  ASSUME RxStep \/ SlotStep
  PROVE  UNCHANGED <<spi, flight, done, at>>
  BY DEF RxStep, SlotStep

(* Who raises the line or loads is where it may be, ...                    *)
LEMMA PlacesKept ==
  ASSUME BusInv, SpiStep
  PROVE  /\ \A t \in SpiTasks : at'[t].pc \in {"put", "give", "dr", "dr_flag"} => t \in Raisers
         /\ \A t \in SpiTasks : at'[t].pc \in Loading => t \in Loaders
         /\ at'["start"].pc # "finish"
<1>0. /\ BusTypeOK
      /\ \A t \in SpiTasks : at[t].pc \in {"put", "give", "dr", "dr_flag"} => t \in Raisers
      /\ \A t \in SpiTasks : at[t].pc \in Loading => t \in Loaders
      /\ at["start"].pc # "finish" /\ "start" \in SpiTasks
  BY DEF BusInv, LineShape
<1>1. CASE \E t \in Raisers : RaiseStep(t)
  <2>1. PICK t \in Raisers : RaiseStep(t)
    BY <1>1
  <2>2. /\ t \in SpiTasks /\ \A u \in SpiTasks \ {t} : at'[u] = at[u]
        /\ at'[t].pc \in {"put", "give", "dr", "dr_flag", "idle"}
             \/ (t = "start" /\ at'[t].pc = "next")
    BY <1>0, <2>1, RaiseMoves DEF RaiseStep, AfterRaise
  <2> QED
    BY <1>0, <2>2 DEF Loading, Loaders
<1>2. CASE \E t \in Loaders : LoadStep(t)
  <2>1. PICK t \in Loaders : LoadStep(t)
    BY <1>2
  <2>2. /\ t \in SpiTasks /\ \A u \in SpiTasks \ {t} : at'[u] = at[u]
        /\ at'[t].pc \in Loading \union {"idle"} \/ (t = "post" /\ at'[t].pc = "finish")
    BY <1>0, <2>1, LoadMoves DEF LoadStep, Ends, Loading
  <2> QED
    BY <1>0, <2>2 DEF Loading
<1>3. CASE PostResult \/ PostFinish
  <2>1. /\ \A u \in SpiTasks \ {"post"} : at'[u] = at[u]
        /\ at'["post"].pc \in {"next", "idle"}
    BY <1>0, <1>3, PostMoves
  <2> QED
    BY <1>0, <2>1 DEF Loading, Loaders
<1>4. CASE HostClocks \/ SpiReload
  <2>1. UNCHANGED at
    BY <1>4 DEF HostClocks, SpiReload
  <2> QED
    BY <1>0, <2>1
<1> QED
  BY <1>1, <1>2, <1>3, <1>4 DEF SpiStep

(* ... the line is as its task holds it, ...                               *)
LEMMA ShadowKept ==
  ASSUME BusInv, SpiStep, "cleared" \notin busHarm'
  PROVE  /\ \A t \in Raisers : at'[t].pc = "dr_flag" => spi'.dr
         /\ spi'.dr => spi'.flag \/ \E t \in Raisers : at'[t].pc = "dr_flag"
         /\ spi'.flag /\ ~spi'.dr => \E t \in Loaders : at'[t].pc = "reset_flag"
<1>0. /\ BusTypeOK /\ "cleared" \notin busHarm /\ Raisers \subseteq SpiTasks
      /\ Loaders \subseteq SpiTasks /\ "post" \notin Raisers
      /\ spi.dr \in BOOLEAN /\ spi.flag \in BOOLEAN
  <2>1. BusTypeOK /\ "cleared" \notin busHarm
    BY HarmGrows DEF BusInv
  <2> QED
    BY <2>1, TaskNames, SpiFrame DEF LineOK
<1>1. /\ \A t \in Raisers : at[t].pc = "dr_flag" => spi.dr
      /\ spi.dr => spi.flag \/ \E t \in Raisers : at[t].pc = "dr_flag"
      /\ spi.flag /\ ~spi.dr => \E t \in Loaders : at[t].pc = "reset_flag"
  BY <1>0 DEF BusInv, LineShape
<1>a. ASSUME spi'.dr = spi.dr, spi'.flag = spi.flag,
             \A t \in Raisers : at'[t].pc = "dr_flag" <=> at[t].pc = "dr_flag",
             \A t \in Loaders : at[t].pc = "reset_flag" => at'[t].pc = "reset_flag"
      PROVE  /\ \A t \in Raisers : at'[t].pc = "dr_flag" => spi'.dr
             /\ spi'.dr => spi'.flag \/ \E t \in Raisers : at'[t].pc = "dr_flag"
             /\ spi'.flag /\ ~spi'.dr => \E t \in Loaders : at'[t].pc = "reset_flag"
  BY <1>1, <1>a
<1>2. CASE \E t \in Raisers : RaiseStep(t)
  <2>1. PICK t \in Raisers : RaiseStep(t)
    BY <1>2
  <2>2. t \in SpiTasks /\ \A u \in SpiTasks \ {t} : at'[u] = at[u]
    BY <1>0, <2>1, RaiseMoves
  <2>3. CASE SetDataReady(t) /\ ~spi.flag
    <3>1. /\ spi'.dr = TRUE /\ at'[t].pc = "dr_flag"
      BY <1>0, <2>1, <2>3, LineMoves, RaiseMoves
    <3> QED
      BY <3>1
  <2>4. CASE SetDataReadyFlag(t)
    <3>1. at[t].pc = "dr_flag" /\ spi' = [spi EXCEPT !.flag = TRUE]
      BY <2>4 DEF SetDataReadyFlag
    <3>2. spi.dr
      BY <1>1, <2>1, <3>1
    <3>3. spi'.dr = spi.dr /\ spi'.flag = TRUE
      BY <1>0, <3>1, SpiFrame DEF LineOK
    <3> QED
      BY <3>2, <3>3
  <2>5. CASE SpiWrite(t) \/ SpiPut(t) \/ SpiGive(t) \/ (SetDataReady(t) /\ spi.flag)
    <3>1. spi'.dr = spi.dr /\ spi'.flag = spi.flag
      <4>1. spi \in [dr: BOOLEAN, flag: BOOLEAN, latch: BOOLEAN, q: [Prio -> 0 .. TxQ],
                     sem: 0 .. 3 * TxQ]
        BY <1>0, SpiFrame DEF LineOK
      <4> QED
        BY <2>5, <4>1 DEF SpiWrite, SpiPut, SpiGive, SetDataReady
    <3>2. at[t].pc \notin {"dr_flag", "reset_flag"} /\ at'[t].pc # "dr_flag"
      BY <1>0, <2>1, <2>5, RaiseMoves DEF AfterRaise
    <3> QED
      BY <1>0, <1>a, <2>2, <3>1, <3>2
  <2> QED
    BY <2>1, <2>3, <2>4, <2>5 DEF RaiseStep
<1>3. CASE \E t \in Loaders : LoadStep(t)
  <2>1. PICK t \in Loaders : LoadStep(t)
    BY <1>3
  <2>2. t \in SpiTasks /\ \A u \in SpiTasks \ {t} : at'[u] = at[u]
    BY <1>0, <2>1, LoadMoves
  <2>3. /\ at[t].pc # "dr_flag" /\ at'[t].pc # "dr_flag"
        /\ at[t].pc = "reset_flag" => ResetDataReadyFlag(t)
    BY <1>0, <2>1, LoadMoves DEF LoadStep, Ends
  <2>4. spi \in [dr: BOOLEAN, flag: BOOLEAN, latch: BOOLEAN, q: [Prio -> 0 .. TxQ],
                 sem: 0 .. 3 * TxQ]
    BY <1>0, SpiFrame DEF LineOK
  <2>5. CASE ResetDataReady(t) /\ spi.flag
    <3>1. ~Raising
      BY <2>5 DEF ResetDataReady, BusHarm
    <3>2. \A s \in Raisers : at[s].pc # "dr_flag"
      BY <3>1 DEF Raising, Raisers
    <3>3. spi'.dr = FALSE /\ at'[t].pc = "reset_flag"
      BY <1>0, <2>1, <2>4, <2>5, LoadMoves DEF ResetDataReady
    <3> QED
      BY <1>0, <2>1, <2>2, <2>3, <3>2, <3>3
  <2>6. CASE ResetDataReadyFlag(t)
    <3>1. ~Raising /\ ~spi.dr
      BY <2>6 DEF ResetDataReadyFlag, BusHarm
    <3>2. \A s \in Raisers : at[s].pc # "dr_flag"
      BY <3>1 DEF Raising, Raisers
    <3>3. spi'.dr = spi.dr /\ spi'.flag = FALSE
      BY <2>4, <2>6 DEF ResetDataReadyFlag
    <3> QED
      BY <1>0, <2>2, <2>3, <3>1, <3>2, <3>3
  <2>7. CASE NextBuffer(t) \/ (ResetDataReady(t) /\ ~spi.flag) \/ NextDummy(t) \/ Attach(t)
    <3>1. spi'.dr = spi.dr /\ spi'.flag = spi.flag
      BY <2>4, <2>7 DEF NextBuffer, ResetDataReady, NextDummy, Attach
    <3>2. at[t].pc # "reset_flag"
      BY <2>7 DEF NextBuffer, ResetDataReady, NextDummy, Attach
    <3> QED
      BY <1>0, <1>a, <2>2, <2>3, <3>1, <3>2
  <2> QED
    BY <2>1, <2>5, <2>6, <2>7 DEF LoadStep
<1>4. CASE PostResult \/ PostFinish \/ HostClocks \/ SpiReload
  <2>1. spi'.dr = spi.dr /\ spi'.flag = spi.flag
    <3>1. spi \in [dr: BOOLEAN, flag: BOOLEAN, latch: BOOLEAN, q: [Prio -> 0 .. TxQ],
                   sem: 0 .. 3 * TxQ]
      BY <1>0, SpiFrame DEF LineOK
    <3> QED
      BY <1>4, <3>1 DEF PostResult, PostFinish, HostClocks, SpiReload
  <2>2. /\ \A u \in SpiTasks \ {"post"} : at'[u] = at[u]
        /\ at["post"].pc = "reset_flag" => at'["post"].pc = "reset_flag"
    <3>1. CASE PostResult \/ PostFinish
      BY <1>0, <3>1, PostMoves
    <3>2. CASE HostClocks \/ SpiReload
      BY <3>2 DEF HostClocks, SpiReload
    <3> QED
      BY <1>4, <3>1, <3>2
  <2> QED
    BY <1>0, <1>a, <2>1, <2>2
<1> QED
  BY <1>2, <1>3, <1>4 DEF SpiStep

(* No step of the bus disturbs the line's shape.                           *)
LEMMA LineShapeKept ==
  ASSUME BusInv, RxStep \/ SpiStep \/ SlotStep
  PROVE  LineShape'
<1>1. CASE SpiStep
  BY <1>1, PlacesKept, ShadowKept DEF LineShape
<1>2. CASE RxStep \/ SlotStep
  <2>1. UNCHANGED <<spi, at>> /\ LineShape /\ busHarm \subseteq busHarm'
    BY <1>2, SpiLeft, HarmGrows DEF BusInv
  <2> QED
    BY <2>1 DEF LineShape
<1> QED
  BY <1>1, <1>2

PostLoads == IF at["post"].pc \in Loading THEN 1 ELSE 0
StartRuns == IF at["start"].pc # "idle" THEN 1 ELSE 0
Started == IF count.start > 0 THEN 1 ELSE 0

(* ... and there is one transaction.                                       *)
LEMMA OneKept ==
  ASSUME BusInv, ~dead, RxStep \/ SpiStep \/ SlotStep
  PROVE  OneTransaction'
<1> DEFINE n == Len(flight)
           n2 == Len(flight')
           m == Len(done)
           m2 == Len(done')
           p == PostLoads
           p2 == PostLoads'
           s == StartRuns
           s2 == StartRuns'
           c == Started
           c2 == Started'
<1>0. /\ BusTypeOK /\ LineShape /\ OneTransaction /\ busHarm \subseteq busHarm'
      /\ at \in [SpiTasks -> [pc: SpiPc, prio: Prio, sends: Sends]]
      /\ flight \in Seq(Sends) /\ done \in Seq(Packet \union {"none"})
      /\ count \in [send: Nat, host: Nat, start: Nat, break: Nat]
  <2>1. BusTypeOK
    BY DEF BusInv
  <2>2. count \in [send: Nat, host: Nat, start: Nat, break: Nat]
    <3>1. CountOK
      BY <2>1, TypeParts
    <3> QED
      BY <3>1, BusAssumption DEF CountOK
  <2> QED
    BY <2>1, <2>2, SpiFrame, HarmGrows DEF BusInv, LoadOK, AtOK
<1>a. n \in Nat /\ m \in Nat /\ p \in {0, 1} /\ s \in {0, 1} /\ c \in {0, 1}
  BY <1>0 DEF PostLoads, StartRuns, Started
<1>1. SUFFICES ASSUME bus' = "spi", ~dead', busHarm' \intersect {"restarted", "starved"} = {}
               PROVE  n2 + m2 + p2 + s2 = c2
  BY DEF OneTransaction, PostLoads, StartRuns, Started
<1>2. bus = "spi" /\ ~SlotStep
  <2>1. UNCHANGED bus
    BY <1>1, RxFlow, SlotBounds DEF SpiStep, RaiseStep, LoadStep, SpiWrite, SpiPut, SpiGive,
       SetDataReady, SetDataReadyFlag, NextBuffer, ResetDataReady, ResetDataReadyFlag, NextDummy,
       Attach, PostResult, PostFinish, HostClocks, SpiReload
  <2> QED
    BY <1>1, <2>1 DEF SlotStep
<1>3. n + m + p + s = c
  BY <1>0, <1>1, <1>2 DEF OneTransaction, PostLoads, StartRuns, Started
<1>4. CASE RxStep
  <2>1. UNCHANGED <<flight, done, at, count>>
    BY <1>4, SpiLeft DEF RxStep, ProdStep, RdStep, ProdReceives, ProdChecks, ProdFlow, ProdTells,
       ProdPuts, ProdGives, RdTakes, RdLooks, RdPops, RdChecks, RdFlow, RdTells, RdProcesses
  <2>2. n2 = n /\ m2 = m /\ p2 = p /\ s2 = s /\ c2 = c
    BY <2>1 DEF PostLoads, StartRuns, Started
  <2> QED
    BY <1>3, <2>2
<1>5. CASE SpiWrite("start")
  <2>1. at["start"].pc = "idle" /\ at'["start"].pc = "put" /\ at'["post"] = at["post"]
    BY <1>0, <1>5, TaskNames DEF SpiWrite
  <2>2. flight = <<>> /\ done = <<>> /\ at["post"].pc = "idle" /\ UNCHANGED <<flight, done>>
    BY <1>1, <1>5 DEF SpiWrite, BusHarm
  <2>3. count'.start = count.start + 1
    BY <1>0, <1>5 DEF SpiWrite, MayStart, May
  <2>4. n2 = 0 /\ m2 = 0
    BY <2>2
  <2>5. p2 = 0
    BY <2>1, <2>2 DEF PostLoads, Loading
  <2>6. s2 = 1
    BY <2>1 DEF StartRuns
  <2>7. c2 = 1
    BY <1>0, <2>3 DEF Started
  <2> QED
    BY <2>4, <2>5, <2>6, <2>7
<1>6. CASE \E t \in Raisers : RaiseStep(t) /\ ~(t = "start" /\ SpiWrite(t))
  <2>1. PICK t \in Raisers : RaiseStep(t) /\ ~(t = "start" /\ SpiWrite(t))
    BY <1>6
  <2>2. UNCHANGED <<flight, done>> /\ count'.start = count.start
    BY <1>0, <2>1
       DEF RaiseStep, SpiWrite, SpiPut, SpiGive, SetDataReady, SetDataReadyFlag, MaySend, May
  <2>3. at'["post"] = at["post"]
    BY <1>0, <2>1, RaiseMoves, TaskNames
  <2>4. at["start"].pc # "idle" <=> at'["start"].pc # "idle"
    <3>1. CASE t = "start"
      BY <1>0, <2>1, <3>1, RaiseMoves DEF RaiseStep, AfterRaise
    <3>2. CASE t # "start"
      BY <1>0, <2>1, <3>2, RaiseMoves, TaskNames
    <3> QED
      BY <3>1, <3>2
  <2>5. n2 = n /\ m2 = m /\ p2 = p /\ s2 = s /\ c2 = c
    BY <2>2, <2>3, <2>4 DEF PostLoads, StartRuns, Started
  <2> QED
    BY <1>3, <2>5
<1>7. CASE \E t \in Loaders : LoadStep(t) /\ ~Attach(t)
  <2>1. PICK t \in Loaders : LoadStep(t) /\ ~Attach(t)
    BY <1>7
  <2>2. UNCHANGED <<flight, done, count>>
    BY <2>1 DEF LoadStep, NextBuffer, ResetDataReady, ResetDataReadyFlag, NextDummy
  <2>3. NextDummy(t) => pool.tx > 0
    <3>1. pool.tx \in Nat
      BY <1>0, SlotRecord
    <3> QED
      BY <1>1, <3>1 DEF NextDummy, BusHarm
  <2>4. at[t].pc \in Loading /\ at'[t].pc \in Loading /\ \A u \in SpiTasks \ {t} : at'[u] = at[u]
    BY <1>0, <2>1, <2>3, LoadMoves DEF LoadStep, Loading
  <2>5. /\ at'["post"].pc \in Loading <=> at["post"].pc \in Loading
        /\ at["start"].pc # "idle" <=> at'["start"].pc # "idle"
    BY <2>4 DEF Loading
  <2>6. n2 = n /\ m2 = m /\ p2 = p /\ s2 = s /\ c2 = c
    BY <2>2, <2>5 DEF PostLoads, StartRuns, Started
  <2> QED
    BY <1>3, <2>6
<1>8. CASE \E t \in Loaders : Attach(t)
  <2>1. PICK t \in Loaders : Attach(t)
    BY <1>8
  <2>2. LoadStep(t)
    BY <2>1 DEF LoadStep
  <2>3. UNCHANGED <<done, count>> /\ flight' = Append(flight, at[t].sends) /\ at[t].sends \in Sends
    <3>1. pool.tx \in Nat /\ t \in SpiTasks
      BY <1>0, SlotRecord, TaskNames
    <3>2. pool.tx > 0
      <4>1. dead' = (pool.tx = 0)
        BY <2>1 DEF Attach
      <4>2. pool.tx # 0
        BY <1>1, <4>1
      <4> QED
        BY <3>1, <4>2
    <3>3. UNCHANGED <<done, count>> /\ flight' = Append(flight, at[t].sends)
      BY <2>1, <3>2 DEF Attach
    <3> QED
      BY <1>0, <3>1, <3>3
  <2>4. n2 = n + 1
    BY <1>0, <2>3
  <2>5. /\ at[t].pc = "attach" /\ at'[t].pc = Ends(t)
        /\ \A u \in SpiTasks \ {t} : at'[u] = at[u]
    BY <1>0, <2>1, <2>2, LoadMoves
  <2>6. p2 + s2 + 1 = p + s
    <3>1. CASE t = "post"
      <4>1. p = 1 /\ p2 = 0
        BY <2>5, <3>1 DEF PostLoads, Loading, Ends
      <4>2. s2 = s
        BY <2>5, <3>1 DEF StartRuns
      <4> QED
        BY <1>a, <4>1, <4>2
    <3>2. CASE t = "start"
      <4>1. s = 1 /\ s2 = 0
        BY <2>5, <3>2 DEF StartRuns, Ends
      <4>2. p2 = p
        BY <2>5, <3>2 DEF PostLoads
      <4> QED
        BY <1>a, <4>1, <4>2
    <3> QED
      BY <2>1, <3>1, <3>2 DEF Loaders
  <2>7. m2 = m /\ c2 = c
    BY <2>3 DEF Started
  <2>8. p2 \in Nat /\ s2 \in Nat
    BY DEF PostLoads, StartRuns
  <2> HIDE DEF n, n2, m, m2, p, p2, s, s2, c, c2
  <2> QED
    BY <1>3, <1>a, <2>4, <2>6, <2>7, <2>8
<1>9. CASE PostResult
  <2>1. done # <<>> /\ done' = Tail(done) /\ UNCHANGED <<flight, count>>
    BY <1>9 DEF PostResult
  <2>2. m2 + 1 = m /\ m2 \in Nat
    BY <1>0, <2>1
  <2>3. /\ \A u \in SpiTasks \ {"post"} : at'[u] = at[u]
        /\ at["post"].pc = "idle" /\ at'["post"].pc = "next"
    BY <1>0, <1>9, PostMoves
  <2>4. p = 0 /\ p2 = 1 /\ s2 = s
    BY <2>3 DEF PostLoads, StartRuns, Loading
  <2>5. n2 = n /\ c2 = c
    BY <2>1 DEF Started
  <2> HIDE DEF n, n2, m, m2, p, p2, s, s2, c, c2
  <2> QED
    BY <1>3, <1>a, <2>2, <2>4, <2>5
<1>10. CASE PostFinish
  <2>1. UNCHANGED <<flight, done, count>>
    BY <1>10 DEF PostFinish
  <2>2. /\ \A u \in SpiTasks \ {"post"} : at'[u] = at[u]
        /\ at["post"].pc = "finish" /\ at'["post"].pc = "idle"
    BY <1>0, <1>10, PostMoves
  <2>3. n2 = n /\ m2 = m /\ p2 = p /\ s2 = s /\ c2 = c
    BY <2>1, <2>2 DEF PostLoads, StartRuns, Started, Loading
  <2> QED
    BY <1>3, <2>3
<1>11. CASE HostClocks
  <2>1. /\ flight # <<>> /\ flight' = Tail(flight)
        /\ \E q \in FromHost \union {"none"} : done' = Append(done, q)
        /\ UNCHANGED at /\ count'.start = count.start
    BY <1>0, <1>11 DEF HostClocks, May
  <2>2. m2 = m + 1
    BY <1>0, <2>1
  <2>3. n2 + 1 = n /\ n2 \in Nat
    BY <1>0, <2>1
  <2>4. p2 = p /\ s2 = s /\ c2 = c
    BY <2>1 DEF PostLoads, StartRuns, Started
  <2> HIDE DEF n, n2, m, m2, p, p2, s, s2, c, c2
  <2> QED
    BY <1>3, <1>a, <2>2, <2>3, <2>4
<1>12. CASE SpiReload
  <2>1. UNCHANGED <<flight, done, at>> /\ count'.start = count.start
    BY <1>0, <1>12 DEF SpiReload, May
  <2>2. n2 = n /\ m2 = m /\ p2 = p /\ s2 = s /\ c2 = c
    BY <2>1 DEF PostLoads, StartRuns, Started
  <2> QED
    BY <1>3, <2>2
<1> QED
  BY <1>2, <1>4, <1>5, <1>6, <1>7, <1>8, <1>9, <1>10, <1>11, <1>12 DEF SpiStep, LoadStep, RaiseStep

(* What is queued is raised, ...                                           *)
LEMMA QueuedKept ==
  ASSUME BusInv, RxStep \/ SpiStep \/ SlotStep
  PROVE  QueuedIsRaised'
<1>0. /\ BusTypeOK /\ LineShape /\ QueuedIsRaised /\ busHarm \subseteq busHarm'
      /\ spi \in [dr: BOOLEAN, flag: BOOLEAN, latch: BOOLEAN, q: [Prio -> 0 .. TxQ],
                  sem: 0 .. 3 * TxQ]
      /\ Raisers \subseteq SpiTasks /\ Loaders \subseteq SpiTasks /\ "post" \notin Raisers
      /\ "start" \in Raisers /\ "start" \in SpiTasks
  <2>1. BusTypeOK
    BY DEF BusInv
  <2> QED
    BY <2>1, SpiFrame, HarmGrows, TaskNames DEF BusInv, LineOK
<1>1. SUFFICES ASSUME "cleared" \notin busHarm', TxWaiting' # {}
               PROVE  \/ LineUp'
                      \/ at'["start"].pc = "give"
                      \/ \E t \in Loaders : at'[t].pc = "reset_flag"
  BY DEF QueuedIsRaised
<1>2. TxWaiting # {} => \/ LineUp
                        \/ at["start"].pc = "give"
                        \/ \E t \in Loaders : at[t].pc = "reset_flag"
  BY <1>0, <1>1 DEF QueuedIsRaised
<1>3. CASE RxStep \/ SlotStep
  BY <1>1, <1>2, <1>3, SpiLeft DEF LineUp, TxWaiting
<1>a. ASSUME TxWaiting # {}, spi'.dr = spi.dr,
             \A t \in Raisers : at[t].pc = "dr" => at'[t].pc = "dr",
             at["start"].pc = "give" => at'["start"].pc \in {"give", "dr"},
             \A t \in Loaders : at[t].pc = "reset_flag" => at'[t].pc = "reset_flag"
      PROVE  \/ LineUp'
             \/ at'["start"].pc = "give"
             \/ \E t \in Loaders : at'[t].pc = "reset_flag"
  BY <1>0, <1>2, <1>a DEF LineUp
<1>4. CASE \E t \in Raisers : RaiseStep(t)
  <2>1. PICK t \in Raisers : RaiseStep(t)
    BY <1>4
  <2>2. t \in SpiTasks /\ \A u \in SpiTasks \ {t} : at'[u] = at[u]
    BY <1>0, <2>1, RaiseMoves
  <2>3. CASE SpiPut(t)
    <3>1. at'[t].pc = IF t = "start" THEN "give" ELSE "dr"
      BY <1>0, <2>1, <2>3, RaiseMoves
    <3> QED
      BY <3>1 DEF LineUp
  <2>4. CASE SpiWrite(t) \/ SpiGive(t) \/ SetDataReadyFlag(t)
    <3>1. spi'.dr = spi.dr /\ TxWaiting' = TxWaiting
      BY <1>0, <2>4 DEF SpiWrite, SpiGive, SetDataReadyFlag, TxWaiting
    <3>2. /\ at[t].pc \notin {"dr", "reset_flag"}
          /\ t = "start" /\ at[t].pc = "give" => at'[t].pc = "dr"
      BY <1>0, <2>1, <2>4, RaiseMoves
    <3> QED
      BY <1>0, <1>1, <1>a, <2>2, <3>1, <3>2
  <2>5. CASE SetDataReady(t) /\ ~spi.flag
    <3>1. spi'.dr = TRUE
      BY <1>0, <2>5 DEF SetDataReady, Raised
    <3> QED
      BY <3>1 DEF LineUp
  <2>6. CASE SetDataReady(t) /\ spi.flag
    <3>1. UNCHANGED spi /\ at[t].pc = "dr"
      BY <2>6 DEF SetDataReady
    <3>2. spi.dr \/ \E u \in Loaders : at[u].pc = "reset_flag"
      BY <1>0, <1>1, <2>6 DEF LineShape
    <3>3. \A u \in Loaders : at[u].pc = "reset_flag" => at'[u].pc = "reset_flag"
      BY <1>0, <2>2, <3>1
    <3> QED
      BY <3>1, <3>2, <3>3 DEF LineUp
  <2> QED
    BY <2>1, <2>3, <2>4, <2>5, <2>6 DEF RaiseStep
<1>5. CASE \E t \in Loaders : LoadStep(t)
  <2>1. PICK t \in Loaders : LoadStep(t)
    BY <1>5
  <2>2. t \in SpiTasks /\ \A u \in SpiTasks \ {t} : at'[u] = at[u]
    BY <1>0, <2>1, LoadMoves
  <2>3. /\ at[t].pc \notin {"dr", "give"}
        /\ at[t].pc = "reset_flag" => ResetDataReadyFlag(t)
    BY <1>0, <2>1, LoadMoves DEF LoadStep
  <2>4. TxWaiting' \subseteq TxWaiting
    <3>1. CASE NextBuffer(t)
      <4> DEFINE p == First(TxWaiting)
      <4>1. p \in Prio
        BY DEF First
      <4>2. spi'.q = spi.q \/ (spi'.q = [spi.q EXCEPT ![p] = spi.q[p] - 1] /\ spi.q[p] > 0)
        <5> HIDE DEF p
        <5>1. \/ \E s : spi' = [spi EXCEPT !.sem = s]
              \/ spi.q[p] > 0 /\ spi' = [spi EXCEPT !.sem = @ - 1, !.q[p] = @ - 1]
          BY <3>1 DEF NextBuffer, p
        <5> QED
          BY <1>0, <4>1, <5>1
      <4> HIDE DEF p
      <4>3. \A q \in Prio : spi'.q[q] = spi.q[q] \/ (q = p /\ spi.q[q] > 0)
        BY <1>0, <4>1, <4>2
      <4> QED
        BY <4>3 DEF TxWaiting
    <3>2. CASE ~NextBuffer(t)
      <4>1. spi'.q = spi.q
        BY <1>0, <2>1, <3>2 DEF LoadStep, ResetDataReady, ResetDataReadyFlag, NextDummy, Attach
      <4> QED
        BY <4>1 DEF TxWaiting
    <3> QED
      BY <3>1, <3>2
  <2>5. CASE ResetDataReady(t) /\ spi.flag
    BY <1>0, <2>1, <2>5, LoadMoves
  <2>6. ~ResetDataReadyFlag(t)
    BY <1>1, <2>4 DEF ResetDataReadyFlag, BusHarm, Raising
  <2>7. CASE ~(ResetDataReady(t) /\ spi.flag)
    <3>1. spi'.dr = spi.dr
      BY <1>0, <2>1, <2>6, <2>7 DEF LoadStep, NextBuffer, ResetDataReady, NextDummy, Attach
    <3> QED
      BY <1>0, <1>1, <1>a, <2>2, <2>3, <2>4, <2>6, <3>1
  <2> QED
    BY <2>5, <2>7
<1>6. CASE PostResult \/ PostFinish \/ HostClocks \/ SpiReload
  <2>1. spi'.dr = spi.dr /\ spi'.q = spi.q
    BY <1>0, <1>6 DEF PostResult, PostFinish, HostClocks, SpiReload
  <2>2. /\ \A u \in SpiTasks \ {"post"} : at'[u] = at[u]
        /\ at["post"].pc = "reset_flag" => at'["post"].pc = "reset_flag"
    <3>1. CASE PostResult \/ PostFinish
      BY <1>0, <3>1, PostMoves
    <3>2. CASE HostClocks \/ SpiReload
      BY <3>2 DEF HostClocks, SpiReload
    <3> QED
      BY <1>6, <3>1, <3>2
  <2>3. TxWaiting' = TxWaiting
    BY <2>1 DEF TxWaiting
  <2>4. "start" # "post"
    OBVIOUS
  <2> QED
    BY <1>0, <1>1, <1>a, <2>1, <2>2, <2>3, <2>4
<1> QED
  BY <1>3, <1>4, <1>5, <1>6 DEF SpiStep

(* While there is one transaction, one task is at it, or none.             *)
LEMMA OneAtWork ==
  ASSUME BusInv, bus = "spi", ~dead, busHarm \intersect {"restarted", "starved"} = {}
  PROVE  /\ flight # <<>> => at["post"].pc \notin Loading /\ at["start"].pc = "idle"
         /\ at["start"].pc # "idle" => at["post"].pc \notin Loading
<1>1. /\ flight \in Seq(Sends) /\ done \in Seq(Packet \union {"none"})
      /\ OneTransaction
  BY SpiFrame DEF BusInv, LoadOK
<1> DEFINE n == Len(flight)
           m == Len(done)
           p == PostLoads
           s == StartRuns
           c == Started
<1>2. n + m + p + s = c
  BY <1>1 DEF OneTransaction, PostLoads, StartRuns, Started
<1>3. n \in Nat /\ m \in Nat /\ p \in {0, 1} /\ s \in {0, 1} /\ c \in {0, 1}
  BY <1>1 DEF PostLoads, StartRuns, Started
<1>4. flight # <<>> => n > 0
  BY <1>1
<1>5. /\ p = 0 => at["post"].pc \notin Loading
      /\ s = 0 <=> at["start"].pc = "idle"
  BY DEF PostLoads, StartRuns
<1> HIDE DEF n, m, p, s, c
<1>6. (n > 0 => p = 0 /\ s = 0) /\ (s # 0 => p = 0)
  BY <1>2, <1>3
<1> QED
  BY <1>4, <1>5, <1>6

(* ... and so is what is loaded.                                           *)
LEMMA LoadedKept ==
  ASSUME BusInv, ~dead, RxStep \/ SpiStep \/ SlotStep
  PROVE  LoadedIsRaised'
<1>0. /\ BusTypeOK /\ LineShape /\ LoadedIsRaised /\ busHarm \subseteq busHarm'
      /\ spi \in [dr: BOOLEAN, flag: BOOLEAN, latch: BOOLEAN, q: [Prio -> 0 .. TxQ],
                  sem: 0 .. 3 * TxQ]
      /\ flight \in Seq(Sends)
      /\ at \in [SpiTasks -> [pc: SpiPc, prio: Prio, sends: Sends]]
      /\ Raisers \subseteq SpiTasks /\ Loaders \subseteq SpiTasks /\ "post" \notin Raisers
      /\ "start" \in Raisers /\ "start" \in SpiTasks /\ "post" \in SpiTasks
  <2>1. BusTypeOK
    BY DEF BusInv
  <2> QED
    BY <2>1, SpiFrame, HarmGrows, TaskNames DEF BusInv, LineOK, LoadOK, AtOK
<1>1. SUFFICES ASSUME bus' = "spi", ~dead',
                      busHarm' \intersect {"cleared", "restarted", "starved"} = {}
               PROVE  /\ (\E i \in DOMAIN flight' : flight'[i].data) => LineUp'
                      /\ \A t \in Loaders : at'[t].pc = "attach" /\ at'[t].sends.data => LineUp'
  BY DEF LoadedIsRaised
<1>2. bus = "spi" /\ ~SlotStep
  <2>1. UNCHANGED bus
    BY <1>1, RxFlow, SlotBounds DEF SpiStep, RaiseStep, LoadStep, SpiWrite, SpiPut, SpiGive,
       SetDataReady, SetDataReadyFlag, NextBuffer, ResetDataReady, ResetDataReadyFlag, NextDummy,
       Attach, PostResult, PostFinish, HostClocks, SpiReload
  <2> QED
    BY <1>1, <2>1 DEF SlotStep
<1>3. /\ (\E i \in DOMAIN flight : flight[i].data) => LineUp
      /\ \A t \in Loaders : at[t].pc = "attach" /\ at[t].sends.data => LineUp
  BY <1>0, <1>1, <1>2 DEF LoadedIsRaised
<1>4. /\ flight # <<>> => at["post"].pc \notin Loading /\ at["start"].pc = "idle"
      /\ at["start"].pc # "idle" => at["post"].pc \notin Loading
  BY <1>0, <1>1, <1>2, OneAtWork
<1>a. \A t \in Loaders : at[t].pc \in Loading =>
        flight = <<>> /\ \A u \in Loaders \ {t} : at[u].pc \notin Loading
  BY <1>4 DEF Loaders, Loading
<1>b. ASSUME LineUp => LineUp',
             \A i \in DOMAIN flight' : flight'[i].data => \E j \in DOMAIN flight : flight[j].data,
             \A t \in Loaders : at'[t].pc = "attach" => at'[t] = at[t]
      PROVE  /\ (\E i \in DOMAIN flight' : flight'[i].data) => LineUp'
             /\ \A t \in Loaders : at'[t].pc = "attach" /\ at'[t].sends.data => LineUp'
  BY <1>3, <1>b
<1>5. CASE RxStep
  BY <1>3, <1>5, SpiLeft DEF LineUp
<1>6. CASE \E t \in Raisers : RaiseStep(t)
  <2>1. PICK t \in Raisers : RaiseStep(t)
    BY <1>6
  <2>2. /\ t \in SpiTasks /\ \A u \in SpiTasks \ {t} : at'[u] = at[u]
        /\ at'[t].pc # "attach"
    BY <1>0, <2>1, RaiseMoves DEF RaiseStep, AfterRaise
  <2>3. UNCHANGED flight
    BY <2>1 DEF RaiseStep, SpiWrite, SpiPut, SpiGive, SetDataReady, SetDataReadyFlag
  <2>4. CASE ~SetDataReady(t)
    <3>1. spi'.dr = spi.dr
      BY <1>0, <2>1, <2>4 DEF RaiseStep, SpiWrite, SpiPut, SpiGive, SetDataReadyFlag
    <3>2. at[t].pc # "dr"
      BY <1>0, <2>1, <2>4, RaiseMoves DEF RaiseStep
    <3>3. LineUp => LineUp'
      BY <1>0, <2>2, <3>1, <3>2 DEF LineUp
    <3> QED
      BY <1>0, <1>b, <2>2, <2>3, <3>3
  <2>5. CASE SetDataReady(t) /\ ~spi.flag
    <3>1. spi'.dr = TRUE
      BY <1>0, <2>5 DEF SetDataReady, Raised
    <3> QED
      BY <3>1 DEF LineUp
  <2>6. CASE SetDataReady(t) /\ spi.flag
    <3>1. UNCHANGED spi
      BY <2>6 DEF SetDataReady
    <3>2. spi.dr \/ \E u \in Loaders : at[u].pc = "reset_flag"
      BY <1>0, <1>1, <2>6 DEF LineShape
    <3>3. spi.dr => LineUp'
      BY <3>1 DEF LineUp
    <3>4. ASSUME NEW i \in DOMAIN flight', flight'[i].data
          PROVE  LineUp'
      <4>1. flight # <<>>
        BY <1>0, <2>3, <3>4
      <4>2. \A u \in Loaders : at[u].pc # "reset_flag"
        BY <1>a, <4>1 DEF Loading
      <4> QED
        BY <3>2, <3>3, <4>2
    <3>5. ASSUME NEW u \in Loaders, at'[u].pc = "attach"
          PROVE  LineUp'
      <4>1. at[u].pc = "attach"
        BY <1>0, <2>2, <3>5
      <4>2. \A v \in Loaders : at[v].pc # "reset_flag"
        BY <1>a, <4>1 DEF Loading
      <4> QED
        BY <3>2, <3>3, <4>2
    <3> QED
      BY <3>4, <3>5
  <2> QED
    BY <2>4, <2>5, <2>6
<1>7. CASE \E t \in Loaders : LoadStep(t)
  <2>1. PICK t \in Loaders : LoadStep(t)
    BY <1>7
  <2>2. /\ t \in SpiTasks /\ \A u \in SpiTasks \ {t} : at'[u] = at[u]
        /\ at[t].pc \in Loading /\ at[t].pc # "dr"
    BY <1>0, <2>1, LoadMoves DEF LoadStep, Loading
  <2>3. flight = <<>> /\ \A u \in Loaders \ {t} : at'[u].pc # "attach" /\ at[u].pc # "reset_flag"
    BY <1>0, <1>a, <2>1, <2>2 DEF Loading
  <2>4. spi'.dr = spi.dr => (LineUp => LineUp')
    BY <1>0, <2>2 DEF LineUp
  <2>5. CASE NextBuffer(t)
    <3>1. spi'.dr = spi.dr /\ UNCHANGED flight
      BY <1>0, <2>5 DEF NextBuffer
    <3>2. at'[t].pc = "attach" => LineUp
      <4>1. SUFFICES ASSUME NextHas
                     PROVE  LineUp
        BY <1>0, <2>1, <2>5, LoadMoves
      <4>2. First(TxWaiting) \in Prio
        BY DEF First
      <4>3. TxWaiting # {}
        BY <4>1, <4>2 DEF NextHas, TxWaiting
      <4>4. at[t].pc = "next"
        BY <1>0, <2>1, <2>5, LoadMoves
      <4>5. at["start"].pc # "give"
        BY <1>4, <2>2, <4>4 DEF Loaders
      <4> QED
        BY <1>0, <1>1, <2>1, <2>3, <4>3, <4>4, <4>5 DEF BusInv, QueuedIsRaised
    <3> QED
      BY <2>3, <2>4, <3>1, <3>2
  <2>6. CASE ResetDataReady(t) \/ ResetDataReadyFlag(t)
    <3>1. UNCHANGED flight /\ at'[t].pc # "attach"
      BY <1>0, <2>1, <2>6, LoadMoves DEF ResetDataReady, ResetDataReadyFlag
    <3> QED
      BY <2>3, <3>1
  <2>7. CASE NextDummy(t)
    <3>1. UNCHANGED flight /\ ~(at'[t].pc = "attach" /\ at'[t].sends.data)
      BY <1>0, <2>1, <2>7, LoadMoves DEF NextDummy, Ends
    <3> QED
      BY <2>3, <3>1
  <2>8. CASE Attach(t)
    <3>1. spi'.dr = spi.dr /\ at[t].pc = "attach" /\ at'[t].pc # "attach"
      BY <1>0, <2>1, <2>8, LoadMoves DEF Attach, Ends
    <3>2. at[t].sends \in Sends /\ (flight' = flight \/ flight' = Append(flight, at[t].sends))
      BY <1>0, <2>2, <2>8 DEF Attach
    <3>3. \A i \in DOMAIN flight' : flight'[i] = at[t].sends
      BY <2>3, <3>2
    <3>4. at[t].sends.data => LineUp
      BY <1>3, <2>1, <3>1
    <3> QED
      BY <2>3, <2>4, <3>1, <3>3, <3>4
  <2> QED
    BY <2>1, <2>5, <2>6, <2>7, <2>8 DEF LoadStep
<1>8. CASE PostResult \/ PostFinish \/ HostClocks \/ SpiReload
  <2>1. spi'.dr = spi.dr
    BY <1>0, <1>8 DEF PostResult, PostFinish, HostClocks, SpiReload
  <2>2. /\ \A u \in SpiTasks \ {"post"} : at'[u] = at[u]
        /\ at'["post"] = at["post"] \/ at'["post"].pc # "attach"
    <3>1. CASE PostResult \/ PostFinish
      BY <1>0, <3>1, PostMoves
    <3>2. CASE HostClocks \/ SpiReload
      BY <3>2 DEF HostClocks, SpiReload
    <3> QED
      BY <1>8, <3>1, <3>2
  <2>3. \A i \in DOMAIN flight' : flight'[i].data => \E j \in DOMAIN flight : flight[j].data
    <3>1. UNCHANGED flight \/ (flight # <<>> /\ flight' = Tail(flight))
      BY <1>8 DEF PostResult, PostFinish, HostClocks, SpiReload
    <3>2. CASE flight # <<>> /\ flight' = Tail(flight)
      <4>1. \A i \in DOMAIN flight' : i + 1 \in DOMAIN flight /\ flight'[i] = flight[i + 1]
        BY <1>0, <3>2
      <4> QED
        BY <4>1
    <3> QED
      BY <3>1, <3>2
  <2>4. LineUp => LineUp'
    BY <1>0, <2>1, <2>2 DEF LineUp
  <2> QED
    BY <1>0, <1>b, <2>2, <2>3, <2>4
<1> QED
  BY <1>2, <1>5, <1>6, <1>7, <1>8 DEF SpiStep

-----------------------------------------------------------------------------
(* The invariant holds, and what follows from it.                          *)

(* At first nothing is held, ...                                           *)
LEMMA NothingHeld ==
  ASSUME Init
  PROVE  /\ Cardinality(Holders) = 0 /\ HoldsOf("block") = 0 /\ HoldsOf("slot") = 0
         /\ Total(rx.new) = 0 /\ Total(rx.old) = 0 /\ Total(spi.q) = 0
<1>1. Holders = {}
  BY DEF Init, SpiInit, Holders
<1>2. {w \in Writers : wr[w]["block"]} = {} /\ {w \in Writers : wr[w]["slot"]} = {}
  BY DEF Init, SlotInit, Resting
<1>3. Total(rx.new) = 0 /\ Total(rx.old) = 0
  BY DEF Init, RxInit, Total
<1>4. Total(spi.q) = 0
  BY DEF Init, SpiInit, Total
<1> QED
  BY <1>1, <1>2, <1>3, <1>4, FS_EmptySet DEF HoldsOf

(* ... everything has its type, ...                                        *)
LEMMA TypesFirst ==
  ASSUME Init
  PROVE  BusTypeOK
<1>1. /\ TxQ \in Nat \ {0} /\ RxQ \in Nat \ {0} /\ InFlight \in Nat \ {0} /\ Buses \subseteq Bus
      /\ MaxToHost \in Nat /\ MaxFromHost \in Nat /\ MaxStart \in Nat /\ MaxBreak \in Nat
  BY BusAssumption
<1>2. bus \in Bus /\ TxBlocks \in Nat
  BY <1>1 DEF Init, RxInit, TxBlocks, Bus
<1>3. PoolOK
  BY <1>1, <1>2 DEF Init, RxInit, PoolOK
<1>4. RxOK
  <2>1. /\ rx.arrived = <<>> /\ rx.new \in [Prio -> 0 .. RxQ] /\ rx.old \in [Prio -> 0 .. RxQ]
        /\ rx.sem \in 0 .. 3 * RxQ
    BY <1>1 DEF Init, RxInit
  <2>2. rx \in [arrived: Seq(Packet), new: [Prio -> 0 .. RxQ], old: [Prio -> 0 .. RxQ],
                sem: 0 .. 3 * RxQ]
    BY <1>1 DEF Init, RxInit
  <2>3. \A p \in Prio : rx.new[p] = 0 /\ rx.old[p] = 0
    BY DEF Init, RxInit
  <2>4. \A p \in Prio : Depth(p) <= RxQ
    BY <1>1, <2>3 DEF Depth
  <2>5. Len(rx.arrived) <= RxQ
    BY <1>1, <2>1
  <2> QED
    BY <2>2, <2>4, <2>5 DEF RxOK
<1>5. ProdOK /\ RdOK /\ ThrOK
  BY DEF Init, RxInit, ProdOK, RdOK, ThrOK
<1>6. CountOK /\ FlagsOK
  <2>1. count = [send |-> 0, host |-> 0, start |-> 0, break |-> 0]
    BY DEF Init, RxInit
  <2>2. 0 \in 0 .. MaxToHost /\ 0 \in 0 .. MaxFromHost /\ 0 \in 0 .. MaxStart /\ 0 \in 0 .. MaxBreak
    BY <1>1
  <2>3. CountOK
    BY <2>1, <2>2 DEF CountOK
  <2> QED
    BY <2>3 DEF Init, RxInit, FlagsOK
<1>7. SpiTypeOK
  <2>1. LineOK
    BY <1>1 DEF Init, SpiInit, LineOK
  <2>2. LoadOK
    BY <1>1 DEF Init, SpiInit, LoadOK
  <2>3. AtOK
    BY DEF Init, SpiInit, AtOK, SpiPc, Sends
  <2> QED
    BY <2>1, <2>2, <2>3, SpiParts
<1>8. SlotTypeOK
  BY <1>1, <1>2, BusAssumption DEF Init, SlotInit, SlotTypeOK, Resting, WrPc
<1> QED
  BY <1>3, <1>4, <1>5, <1>6, <1>7, <1>8, TypeParts

(* ... and so the invariant holds.                                         *)
LEMMA HoldsFirst ==
  ASSUME Init
  PROVE  BusInv
<1>1. BusTypeOK
  BY TypesFirst
<1>2. /\ TxQ \in Nat /\ RxQ \in Nat /\ TxBlocks \in Nat /\ Low \in Nat \ {0}
  BY <1>1, Constants
<1>3. /\ up = TRUE /\ dead = FALSE /\ busHarm = {} /\ prod.pc = "idle" /\ rd.pc = "take"
      /\ rd.fresh = TRUE /\ rx.arrived = <<>> /\ rx.sem = 0
      /\ pool.tx = TxBlocks /\ pool.rx = (IF bus = "spi" THEN 0 ELSE RxQ)
      /\ thr = [current |-> FALSE, flow |-> FALSE, trig |-> 0, ints |-> {}, host |-> FALSE]
      /\ count.start = 0 /\ \A p \in Prio : rx.new[p] = 0 /\ rx.old[p] = 0
  BY DEF Init, RxInit
<1>4. /\ spi.dr = FALSE /\ spi.flag = FALSE /\ flight = <<>> /\ done = <<>>
      /\ \A t \in SpiTasks : at[t].pc = "idle"
      /\ \A p \in Prio : spi.q[p] = 0
  BY DEF Init, SpiInit
<1>5. /\ slots = TxQ /\ dma = <<>> /\ fin = 0 /\ td = "idle" /\ link.loaded = FALSE
      /\ unload.at = "no" /\ \A w \in Writers : wr[w] = Resting
  BY DEF Init, SlotInit
<1>6. RxShape /\ UnloadShape
  BY <1>3, <1>4, <1>5 DEF RxShape, UnloadShape
<1>7. SlotShape
  <2>1. \A w \in Writers : WriterShape(w)
    BY <1>5 DEF WriterShape, Resting
  <2> QED
    BY <1>3, <1>5, <2>1 DEF SlotShape
<1>8. /\ Cardinality(Holders) = 0 /\ HoldsOf("block") = 0 /\ HoldsOf("slot") = 0
      /\ Total(rx.new) = 0 /\ Total(rx.old) = 0 /\ Total(spi.q) = 0
  BY NothingHeld
<1>9. TokensMatch
  BY <1>3, <1>8 DEF TokensMatch, Queued
<1>10. UartBlocks
  BY <1>2, <1>3, <1>8 DEF UartBlocks
<1>11. BuffersAllLoaded /\ BuffersWithin /\ BuffersUnshared
  <2>1. Len(rx.arrived) = 0
    BY <1>3
  <2> QED
    BY <1>2, <1>3, <1>8, <2>1 DEF BuffersAllLoaded, BuffersWithin, BuffersUnshared, Reading
<1>12. SpiBlocksAccounted
  <2>1. "post" \in SpiTasks /\ Len(flight) = 0 /\ Len(done) = 0
    BY <1>4
  <2> QED
    BY <1>2, <1>3, <1>4, <1>8, <2>1 DEF SpiBlocksAccounted
<1>13. NothingTwice /\ NothingLost /\ SpiHdBlocks
  <2>1. Len(dma) = 0 /\ wr["start"].pc = "idle" /\ BlockHeld = 0 /\ SlotHeld = 0
    BY <1>5 DEF Resting, BlockHeld, SlotHeld
  <2>2. BlocksThere = TxBlocks /\ PlacesThere = TxQ /\ Startups = 0
    BY <1>2, <1>3, <1>5, <1>8, <2>1, Sums DEF Startups
  <2> QED
    BY <1>2, <2>2 DEF NothingTwice, NothingLost, SpiHdBlocks
<1>14. EndIsSeen /\ DecisionStands /\ InterruptOwed /\ FlowTrue
  BY <1>3 DEF EndIsSeen, DecisionStands, InterruptOwed, FlowTrue
<1>15. MessageOwed
  <2>1. "flow" \in Writers /\ wr["flow"].pc = "idle" /\ \A i \in DOMAIN dma : FALSE
    BY <1>5 DEF Resting
  <2> QED
    BY <1>3, <2>1 DEF MessageOwed, LastWordOff
<1>16. LineShape
  BY <1>4, TaskNames DEF LineShape, Loading
<1>17. OneTransaction
  <2>1. Len(flight) = 0 /\ Len(done) = 0 /\ at["post"].pc = "idle" /\ at["start"].pc = "idle"
    BY <1>4
  <2> QED
    BY <1>3, <2>1 DEF OneTransaction, Loading
<1>18. QueuedIsRaised /\ LoadedIsRaised
  <2>1. TxWaiting = {} /\ \A i \in DOMAIN flight : FALSE
    BY <1>4 DEF TxWaiting
  <2>2. \A t \in Loaders : at[t].pc # "attach"
    BY <1>4 DEF Loaders
  <2> QED
    BY <2>1, <2>2 DEF QueuedIsRaised, LoadedIsRaised
<1>19. LoadedIsAnnounced
  BY <1>5 DEF LoadedIsAnnounced
<1> QED
  BY <1>1, <1>6, <1>7, <1>9, <1>10, <1>11, <1>12, <1>13, <1>14, <1>15, <1>16, <1>17, <1>18, <1>19
     DEF BusInv

(* Every step keeps it.                                                    *)
LEMMA InvKept ==
  ASSUME BusInv, Next
  PROVE  BusInv'
<1>1. ~dead /\ (RxStep \/ SpiStep \/ SlotStep)
  BY Steps
<1> QED
  BY <1>1, TypesKept, RxShapeKept, SlotShapeKept, TokensKept, BuffersKept, SpiBlocksKept,
     AccountsStay, UnloadShapeKept, BuffersUnsharedKept, EndKept, DecisionKept, InterruptKept,
     FlowKept, MessageKept, LineShapeKept,
     OneKept, QueuedKept, LoadedKept, AnnouncedKept
     DEF BusInv

(* So does a step that changes nothing.                                    *)
LEMMA InvStutters ==
  ASSUME BusInv, UNCHANGED busVars
  PROVE  BusInv'
<1>1. UNCHANGED <<bus, up, pool, rx, prod, rd, thr, count, dead, busHarm>>
      /\ UNCHANGED <<spi, flight, done, at>>
      /\ UNCHANGED <<slots, dma, fin, td, wr, link, unload>>
  BY DEF busVars
<1>2. BusTypeOK'
  <2>1. BusTypeOK /\ UNCHANGED <<up, dead, busHarm>> /\ UNCHANGED spiVars /\ UNCHANGED slotVars
    BY <1>1 DEF BusInv
  <2> QED
    BY <1>1, <2>1, TypesFrame, TypePartsNext
<1>3. RxShape' /\ SlotShape' /\ UnloadShape'
  BY <1>1 DEF BusInv, RxShape, SlotShape, WriterShape, UnloadShape
<1>4. TokensMatch' /\ UartBlocks' /\ SpiBlocksAccounted'
  <2>1. UNCHANGED <<Queued, Total(rx.new), Total(spi.q), Holders, TxBlocks>>
    BY <1>1 DEF Queued, Total, Holders, TxBlocks
  <2> QED
    BY <1>1, <2>1 DEF BusInv, TokensMatch, UartBlocks, SpiBlocksAccounted
<1>8. BuffersAllLoaded' /\ BuffersWithin' /\ BuffersUnshared'
  BY <1>1 DEF BusInv, BuffersAllLoaded, BuffersWithin, BuffersUnshared, Reading, Total
<1>7. NothingTwice' /\ NothingLost' /\ SpiHdBlocks'
  <2>1. UNCHANGED <<BlocksThere, PlacesThere, Startups, TxBlocks>>
    BY <1>1 DEF BlocksThere, PlacesThere, Startups, HoldsOf, TxBlocks
  <2> QED
    BY <1>1, <2>1 DEF BusInv, NothingTwice, NothingLost, SpiHdBlocks
<1>5. EndIsSeen' /\ DecisionStands' /\ InterruptOwed' /\ FlowTrue' /\ MessageOwed'
  BY <1>1 DEF BusInv, EndIsSeen, DecisionStands, InterruptOwed, FlowTrue, MessageOwed, LastWordOff,
       Throttles, Load, Depth
<1>6. LineShape' /\ OneTransaction' /\ QueuedIsRaised' /\ LoadedIsRaised' /\ LoadedIsAnnounced'
  BY <1>1 DEF BusInv, LineShape, OneTransaction, QueuedIsRaised, LoadedIsRaised,
       LoadedIsAnnounced, LineUp, TxWaiting
<1> QED
  BY <1>2, <1>3, <1>4, <1>5, <1>6, <1>7, <1>8 DEF BusInv

(* The inductive invariant of the bus drivers.                             *)
THEOREM BusInvariant == BusSpec => []BusInv
<1>1. Init => BusInv
  BY HoldsFirst
<1>2. BusInv /\ [Next]_busVars => BusInv'
  BY InvKept, InvStutters
<1> QED
  BY <1>1, <1>2, PTL DEF BusSpec

(* Every block, place, receive buffer and count of the receive semaphore   *)
(* is in one place at a time, and lost only to a named failure or race,    *)
(* whatever the bus, the sizes of its queues and the tasks that send, and  *)
(* through each step of sdio_deinit (spi_slave_api.c, spi_hd_, sdio_ and   *)
(* uart_slave_api.c).                                                      *)
THEOREM BusAccounted == BusSpec => []Accounted
<1>1. BusInv => Accounted
  BY BlockIsThere DEF BusInv, Accounted
<1> QED
  BY <1>1, BusInvariant, PTL

(* What waits for the host has been announced to it: by esp_spi_write's    *)
(* and queue_next_transaction's handling of the data-ready line, and by    *)
(* cb_tx_ready's count.                                                    *)
THEOREM BusWaitingAnnounced == BusSpec => []WaitingAnnounced
<1>1. ASSUME BusInv
      PROVE  PacketsAnnounced
  <2>1. SUFFICES ASSUME bus = "spi", ~dead, SpiQuiet, done = <<>>, count.start > 0,
                        TxWaiting # {} \/ \E i \in DOMAIN flight : flight[i].data,
                        busHarm \intersect {"cleared", "restarted", "starved"} = {}
                 PROVE  flight # <<>> /\ (spi.dr \/ spi.latch)
    BY DEF PacketsAnnounced
  <2>2. \A t \in SpiTasks : at[t].pc = "idle"
    BY <2>1 DEF SpiQuiet
  <2>3. flight # <<>>
    <3>1. SUFFICES ASSUME flight = <<>>
                   PROVE  FALSE
      OBVIOUS
    <3>2. Len(flight) = 0 /\ Len(done) = 0
      BY <2>1, <3>1
    <3>3. at["post"].pc \notin Loading /\ at["start"].pc = "idle"
      BY <2>2 DEF Loading
    <3>4. OneTransaction /\ busHarm \intersect {"restarted", "starved"} = {}
      BY <1>1, <2>1 DEF BusInv
    <3> QED
      BY <2>1, <3>2, <3>3, <3>4 DEF OneTransaction
  <2>4. LineUp
    <3>1. /\ at["start"].pc # "give" /\ \A t \in Loaders : at[t].pc # "reset_flag"
      BY <2>2 DEF Loaders
    <3> QED
      BY <1>1, <2>1, <3>1 DEF BusInv, QueuedIsRaised, LoadedIsRaised
  <2>5. spi.dr
    BY <2>2, <2>4, TaskNames DEF LineUp
  <2> QED
    BY <2>3, <2>5
<1>2. ASSUME BusInv
      PROVE  ShadowTrue
  <2>1. SUFFICES ASSUME SpiQuiet, "cleared" \notin busHarm
                 PROVE  spi.dr = spi.flag
    BY DEF ShadowTrue
  <2>2. /\ \A t \in Raisers : at[t].pc # "dr_flag"
        /\ \A t \in Loaders : at[t].pc # "reset_flag"
    BY <2>1, TaskNames DEF SpiQuiet
  <2>3. spi.dr \in BOOLEAN /\ spi.flag \in BOOLEAN
    <3>1. BusTypeOK
      BY <1>2 DEF BusInv
    <3> QED
      BY <3>1, SpiFrame DEF LineOK
  <2>4. spi.dr <=> spi.flag
    <3>1. LineShape
      BY <1>2 DEF BusInv
    <3> QED
      BY <2>1, <2>2, <3>1 DEF LineShape
  <2> QED
    BY <2>3, <2>4
<1>3. BusInv => WaitingAnnounced
  BY <1>1, <1>2 DEF WaitingAnnounced, BusInv
<1> QED
  BY <1>3, BusInvariant, PTL

(* The host is never left throttled by a slave that has nothing to do      *)
(* (stop_rx_data_throttling_if_needed, flow_ctrl_task, SDIO's interrupts). *)
THEOREM BusIdleMeansOpen == BusSpec => []IdleMeansOpen
<1>1. ASSUME BusInv, Throttles, RxQuiet, busHarm \intersect {"crossed", "failed"} = {}
      PROVE  ~thr.host
  <2>1. Load < Low
    <3>1. Queued = 0 /\ RxQ \in Nat \ {0} /\ Low \in Nat \ {0}
      BY <1>1, Constants DEF RxQuiet, BusInv
    <3>2. \A p \in Prio : rx.new[p] \in Nat /\ rx.old[p] \in Nat
      BY <1>1, Totals DEF BusInv
    <3>a. /\ rx.new["serial"] \in Nat /\ rx.new["bt"] \in Nat /\ rx.new["others"] \in Nat
          /\ rx.old["serial"] \in Nat /\ rx.old["bt"] \in Nat /\ rx.old["others"] \in Nat
      BY <3>2
    <3>3. Depth("others") = 0
      <4> DEFINE a == rx.new["others"]
                 b == rx.old["others"]
                 c == rx.new["serial"] + rx.new["bt"]
                 d == rx.old["serial"] + rx.old["bt"]
      <4>1. a \in Nat /\ b \in Nat /\ c \in Nat /\ d \in Nat
        BY <3>a
      <4>2. (c + a) + (d + b) = 0 /\ Depth("others") = a + b
        BY <3>1 DEF Queued, Total, Depth
      <4> HIDE DEF a, b, c, d
      <4> QED
        BY <4>1, <4>2
    <3>4. (0 * 100) \div RxQ = 0
      BY <3>1
    <3> QED
      BY <3>1, <3>3, <3>4 DEF Load
  <2>2. ~thr.current
    BY <1>1, <2>1 DEF BusInv, EndIsSeen, RxQuiet
  <2>3. CASE bus = "sdio"
    BY <1>1, <2>2, <2>3 DEF BusInv, InterruptOwed, RxQuiet
  <2>4. CASE bus = "spi_hd"
    <3>1. LastWordOff
      BY <1>1, <2>2, <2>4 DEF BusInv, MessageOwed, RxQuiet
    <3> QED
      BY <1>1, <3>1 DEF LastWordOff, RxQuiet
  <2> QED
    BY <1>1, <2>3, <2>4 DEF Throttles
<1>2. BusInv => IdleMeansOpen
  BY <1>1 DEF IdleMeansOpen
<1> QED
  BY <1>2, BusInvariant, PTL
=============================================================================
