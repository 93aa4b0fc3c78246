------------------------------ MODULE SlaveRx ------------------------------
(***************************************************************************)
(* What the four bus drivers of the slave have in common: the path of the  *)
(* host's packets, from the driver's task that receives them through three *)
(* queues and a counting semaphore to recv_task, the pools of buffers, and *)
(* the throttling of the host when the queue of Wi-Fi data fills.          *)
(*                                                                         *)
(* The drivers are spi_slave_api.c (module SpiSlave) and spi_hd_, sdio_    *)
(* and uart_slave_api.c (module SlotBus).  A build has one of them.  The   *)
(* host, the DMA and the tasks' interleavings are external.  A packet is   *)
(* its priority; one that fails the driver's checks is "bad".              *)
(***************************************************************************)
EXTENDS Integers, Sequences, FiniteSets

CONSTANTS
  Buses,    (* the buses that occur, among Bus                             *)
  BusSenders, (* tasks that send to the host                               *)
  PrioOf,   (* and the priority of what each sends                         *)
  FromHost, (* what the host sends: priorities, and "bad"                  *)
  TxQ, RxQ, (* the configured queue sizes                                  *)
  InFlight, (* transactions the SPI driver holds, 3 in the code            *)
  Reclaim,  (* transmit buffers sdio_deinit takes back, 3 in the code      *)
  High, Low,(* the throttling thresholds the host configured, in percent   *)
  MaxToHost, (* bound: packets to the host, the startup events included    *)
  MaxStart, MaxFromHost, (* bounds: startup events; packets from the host  *)
  MaxBreak  (* bound: driver calls that fail, and bus reloads              *)

Bus == {"spi", "spi_hd", "sdio", "uart"}
Prio == {"serial", "bt", "others"}
Tasks == BusSenders \union {"flow", "start", "post"}

ASSUME BusAssumption ==
  /\ Buses \subseteq Bus
  /\ TxQ \in Nat \ {0} /\ RxQ \in Nat \ {0} /\ InFlight \in Nat \ {0} /\ Reclaim \in Nat
  /\ High \in 1 .. 100 /\ Low \in 1 .. High
  /\ {MaxToHost, MaxFromHost, MaxStart, MaxBreak} \subseteq Nat
  /\ PrioOf \in [BusSenders -> Prio] /\ FromHost \subseteq Prio \union {"bad"}
  /\ IsFiniteSet(BusSenders) /\ BusSenders \intersect {"flow", "start", "post"} = {}

VARIABLES
  bus,   (* the driver of this build                                       *)
  up,    (* if_handle_g.state is ACTIVE, not DEINIT                        *)
  pool,  (* free blocks of the pools; SPI has one, pool.tx                 *)
  rx,    (* what has arrived, how many packets are in each queue, behind   *)
         (* how many whose buffers sdio_deinit has unregistered, and the   *)
         (* semaphore                                                      *)
  prod,  (* the driver's task that receives                                *)
  rd,    (* recv_task, reading                                             *)
  thr,   (* throttling: the slave's flags, what is told, the host's flag   *)
  count, (* how often each bounded thing has happened                      *)
  dead,  (* an assertion has failed, and the slave restarts, or memory     *)
         (* that was freed has been written: not followed further          *)
  busHarm(* history: which races and failures have happened                *)

rxVars == <<bus, up, pool, rx, prod, rd, thr, count, dead, busHarm>>

-----------------------------------------------------------------------------
Packet == Prio \union {"bad"}
Said == {"none", "on", "off"}   (* throttle_cmd *)
Harms == {"crossed", "token_lost", "failed", "kept", "cleared", "restarted", "stranded",
          "starved", "rx_killed", "tx_killed", "queued", "overfull", "late"}

(* Over the three queues of a driver.                                      *)
Total(f) == f["serial"] + f["bt"] + f["others"]

Depth(p) == rx.new[p] + rx.old[p]

TxBlocks == CASE bus = "spi" -> TxQ + RxQ + 2 * InFlight
              [] bus = "sdio" -> TxQ + 2
              [] OTHER -> TxQ

RxTypeOK ==
  /\ bus \in Buses /\ up \in BOOLEAN /\ dead \in BOOLEAN
  /\ pool \in [tx: 0 .. TxBlocks, rx: 0 .. RxQ]
  /\ rx \in [arrived: Seq(Packet), new: [Prio -> 0 .. RxQ], old: [Prio -> 0 .. RxQ],
             sem: 0 .. 3 * RxQ]
  /\ Len(rx.arrived) <= RxQ /\ \A p \in Prio : Depth(p) <= RxQ
  /\ prod \in [pc: {"idle", "check", "flow", "tell", "put", "give", "gone"}, prio: Packet]
  /\ rd \in [pc: {"take", "up", "pop", "check", "flow", "tell", "process"}, prio: Packet,
            fresh: BOOLEAN]
  /\ thr \in [current: BOOLEAN, flow: BOOLEAN, trig: 0 .. 1, ints: SUBSET {"on", "off"},
              host: BOOLEAN]
  /\ count \in [send: 0 .. MaxToHost, host: 0 .. MaxFromHost, start: 0 .. MaxStart,
                break: 0 .. MaxBreak]
  /\ busHarm \subseteq Harms

RxInit ==
  /\ bus \in Buses /\ up = TRUE /\ dead = FALSE
  /\ pool = [tx |-> TxBlocks, rx |-> IF bus = "spi" THEN 0 ELSE RxQ]
  /\ rx = [arrived |-> <<>>, new |-> [p \in Prio |-> 0], old |-> [p \in Prio |-> 0],
            sem |-> 0]
  /\ prod = [pc |-> "idle", prio |-> "bad"]
  /\ rd = [pc |-> "take", prio |-> "bad", fresh |-> TRUE]
  /\ thr = [current |-> FALSE, flow |-> FALSE, trig |-> 0, ints |-> {}, host |-> FALSE]
  /\ count = [send |-> 0, host |-> 0, start |-> 0, break |-> 0]
  /\ busHarm = {}

May(what, max) == count[what] < max /\ count' = [count EXCEPT ![what] = @ + 1]
MaySend == count.send + count.start < MaxToHost /\ May("send", MaxToHost)
MayStart == count.send + count.start < MaxToHost /\ May("start", MaxStart)
BusHarm(h, cond) == busHarm' = IF cond THEN busHarm \union {h} ELSE busHarm

-----------------------------------------------------------------------------
(* Throttling.  SPI has its own, in SpiSlave; UART is built without.       *)

Throttles == bus \in {"spi_hd", "sdio"}
Load == (Depth("others") * 100) \div RxQ

(* SDIO tells the host by an interrupt, SPI_HD by a message of its         *)
(* flow_ctrl_task, which says what wifi_flow_ctrl is when it runs.         *)
Tell(said) ==
  thr' = IF bus = "sdio" THEN [thr EXCEPT !.ints = @ \union {said}]
         ELSE [thr EXCEPT !.trig = 1]

(* Mutant of StopNeeded: throttling is left only above the low threshold.  *)
StopNeededNever == thr.current /\ Load > Low

StartNeeded == ~thr.current /\ Load > High
StopNeeded == thr.current /\ Load < Low

-----------------------------------------------------------------------------
(* The driver's task that receives: uart_rx_task, spi_hd_rx_task,          *)
(* sdio_rx_task, a step at a time.  SPI's task joins in at "put".          *)

ProdTo(pc) == prod' = [prod EXCEPT !.pc = pc]

(* The next packet.  A bad one is given back, or, by UART, read and        *)
(* forgotten; UART takes a block for a good one, and asserts there is one. *)
ProdReceives ==
  /\ bus # "spi" /\ up /\ prod.pc = "idle" /\ rx.arrived # <<>>
  /\ LET p == Head(rx.arrived) IN
       /\ rx' = [rx EXCEPT !.arrived = Tail(@)]
       /\ prod' = [prio |-> p, pc |-> IF p = "bad" THEN "idle"
                                      ELSE IF Throttles THEN "check" ELSE "put"]
       /\ dead' = (bus = "uart" /\ p # "bad" /\ pool.rx = 0)
       /\ pool' = [pool EXCEPT !.rx =
                     IF bus = "uart" THEN (IF p = "bad" \/ pool.rx = 0 THEN @ ELSE @ - 1)
                     ELSE IF p = "bad" THEN @ + 1 ELSE @]
  /\ UNCHANGED <<bus, up, rd, thr, count, busHarm>>

(* start_rx_data_throttling_if_needed: the slave's flag, ...               *)
ProdChecks ==
  /\ prod.pc = "check"
  /\ thr' = IF StartNeeded THEN [thr EXCEPT !.current = TRUE] ELSE thr
  /\ ProdTo(IF ~StartNeeded THEN "put" ELSE IF bus = "sdio" THEN "tell" ELSE "flow")
  /\ BusHarm("crossed", StartNeeded /\ rd.pc \in {"flow", "tell"})
  /\ UNCHANGED <<bus, up, pool, rx, rd, count, dead>>

(* ... wifi_flow_ctrl, ...                                                 *)
ProdFlow ==
  /\ prod.pc = "flow"
  /\ thr' = [thr EXCEPT !.flow = TRUE]
  /\ ProdTo("tell")
  /\ UNCHANGED <<bus, up, pool, rx, rd, count, dead, busHarm>>

(* ... and the host.                                                       *)
ProdTells ==
  /\ prod.pc = "tell"
  /\ Tell("on")
  /\ ProdTo("put")
  /\ UNCHANGED <<bus, up, pool, rx, rd, count, dead, busHarm>>

(* xQueueSend, which waits for a place.                                    *)
ProdPuts ==
  /\ prod.pc = "put" /\ Depth(prod.prio) < RxQ
  /\ rx' = [rx EXCEPT !.new[prod.prio] = @ + 1]
  /\ ProdTo("give")
  /\ UNCHANGED <<bus, up, pool, rd, thr, count, dead, busHarm>>

ProdGives ==
  /\ prod.pc = "give"
  /\ rx' = [rx EXCEPT !.sem = IF @ < 3 * RxQ THEN @ + 1 ELSE @]
  /\ ProdTo("idle")
  /\ UNCHANGED <<bus, up, pool, rd, thr, count, dead, busHarm>>

-----------------------------------------------------------------------------
(* recv_task: the driver's read, process_rx_pkt, the driver's read_done.   *)

RdTo(pc) == rd' = [rd EXCEPT !.pc = pc]

(* The semaphore.  The other drivers look at their state before it.        *)
RdTakes ==
  /\ rd.pc = "take" /\ rx.sem > 0 /\ (bus = "spi" \/ up)
  /\ rx' = [rx EXCEPT !.sem = @ - 1]
  /\ RdTo(IF bus = "spi" THEN "up" ELSE "pop")
  /\ UNCHANGED <<bus, up, pool, prod, thr, count, dead, busHarm>>

(* esp_spi_read looks at its state after it, and does not give it back.    *)
RdLooks ==
  /\ rd.pc = "up"
  /\ RdTo(IF up THEN "pop" ELSE "take")
  /\ BusHarm("token_lost", ~up)
  /\ UNCHANGED <<bus, up, pool, rx, prod, thr, count, dead>>

Waiting == {p \in Prio : Depth(p) > 0}

(* The order of the queues.                                                *)
First(ps) == IF "serial" \in ps THEN "serial" ELSE IF "bt" \in ps THEN "bt" ELSE "others"

RdPops ==
  /\ rd.pc = "pop"
  /\ LET p == First(Waiting) IN
       IF Depth(p) = 0 THEN RdTo("take") /\ UNCHANGED rx
       ELSE /\ rx' = IF rx.old[p] > 0 THEN [rx EXCEPT !.old[p] = @ - 1]
                     ELSE [rx EXCEPT !.new[p] = @ - 1]
            /\ rd' = [prio |-> p, fresh |-> rx.old[p] = 0,
                      pc |-> IF Throttles THEN "check" ELSE "process"]
  /\ UNCHANGED <<bus, up, pool, prod, thr, count, dead, busHarm>>

(* stop_rx_data_throttling_if_needed, as above.                            *)
RdChecks ==
  /\ rd.pc = "check"
  /\ thr' = IF StopNeeded THEN [thr EXCEPT !.current = FALSE] ELSE thr
  /\ RdTo(IF ~StopNeeded THEN "process" ELSE IF bus = "sdio" THEN "tell" ELSE "flow")
  /\ BusHarm("crossed", StopNeeded /\ prod.pc \in {"flow", "tell"})
  /\ UNCHANGED <<bus, up, pool, rx, prod, count, dead>>

RdFlow ==
  /\ rd.pc = "flow"
  /\ thr' = [thr EXCEPT !.flow = FALSE]
  /\ RdTo("tell")
  /\ UNCHANGED <<bus, up, pool, rx, prod, count, dead, busHarm>>

RdTells ==
  /\ rd.pc = "tell"
  /\ Tell("off")
  /\ RdTo("process")
  /\ UNCHANGED <<bus, up, pool, rx, prod, count, dead, busHarm>>

(* read_done: the block is free, or loaded for the host again.             *)
Released ==
  IF bus = "spi" THEN [pool EXCEPT !.tx = @ + 1] ELSE [pool EXCEPT !.rx = @ + 1]

(* A buffer that sdio_deinit has unregistered is given back too: its       *)
(* descriptor is freed memory, which the peripheral refuses or writes.     *)
RdProcesses ==
  /\ rd.pc = "process"
  /\ \/ rd.fresh /\ pool' = Released /\ UNCHANGED dead
     \/ ~rd.fresh /\ dead' \in BOOLEAN /\ UNCHANGED pool
  /\ RdTo("take")
  /\ UNCHANGED <<bus, up, rx, prod, thr, count, busHarm>>

RxNext ==
  \/ ProdReceives \/ ProdChecks \/ ProdFlow \/ ProdTells \/ ProdPuts \/ ProdGives
  \/ RdTakes \/ RdLooks \/ RdPops \/ RdChecks \/ RdFlow \/ RdTells \/ RdProcesses
=============================================================================
