----------------------------- MODULE SpiSlave ------------------------------
(***************************************************************************)
(* The SPI driver, spi_slave_api.c: three transmit queues and a semaphore, *)
(* the transactions loaded in the peripheral, the task that handles each   *)
(* finished transaction and loads the next, and the data-ready line with   *)
(* its shadow data_ready_flag.  A transaction is loaded at all times: with *)
(* a packet, or else with a dummy.                                         *)
(*                                                                         *)
(* The host (spi_drv.c, external) clocks a loaded transaction while the    *)
(* data-ready line is up, or has risen since it last received a packet, or *)
(* when it has a packet of its own.                                        *)
(***************************************************************************)
EXTENDS SlaveRx

VARIABLES
  spi,   (* the line, its shadow, the host's latch of its rise, the queues *)
         (* and their semaphore                                            *)
  flight,(* the transactions in the peripheral: what each sends            *)
  done,  (* the finished transactions: what each sent and received         *)
  at     (* where each task is, and what it holds                          *)

spiVars == <<spi, flight, done, at>>

Sends == [data: BOOLEAN, throttle: BOOLEAN]
SpiPc == {"idle", "put", "dr", "dr_flag", "give", "next", "reset", "reset_flag",
          "dummy", "attach", "finish"}
SpiTasks == BusSenders \union {"start", "post"}

SpiTypeOK ==
  /\ spi \in [dr: BOOLEAN, flag: BOOLEAN, latch: BOOLEAN, q: [Prio -> 0 .. TxQ],
              sem: 0 .. 3 * TxQ]
  /\ flight \in Seq(Sends) /\ done \in Seq(Packet \union {"none"})
  /\ Len(flight) + Len(done) <= InFlight
  /\ at \in [SpiTasks -> [pc: SpiPc, prio: Prio, sends: Sends]]

SpiInit ==
  /\ spi = [dr |-> FALSE, flag |-> FALSE, latch |-> FALSE, q |-> [p \in Prio |-> 0], sem |-> 0]
  /\ flight = <<>> /\ done = <<>>
  /\ at = [t \in SpiTasks |-> [pc |-> "idle", prio |-> "others",
                               sends |-> [data |-> FALSE, throttle |-> FALSE]]]

Go(t, pc) == at' = [at EXCEPT ![t].pc = pc]

-----------------------------------------------------------------------------
(* esp_spi_write, by a sender, and generate_startup_event.                 *)

(* find_wifi_tx_throttling_to_be_set.                                      *)
SpiThrottle == IF Load < Low THEN FALSE ELSE IF Load > High THEN TRUE ELSE thr.current

(* The block; both assert that there is one.  A packet works out the       *)
(* throttling, but does not carry it.                                      *)
SpiWrite(t) ==
  /\ at[t].pc = "idle" /\ up
  /\ IF t = "start" THEN MayStart ELSE MaySend
  /\ at' = [at EXCEPT ![t].pc = "put",
                      ![t].prio = IF t = "start" THEN "others" ELSE PrioOf[t]]
  /\ dead' = (pool.tx = 0)
  /\ pool' = [pool EXCEPT !.tx = IF @ > 0 THEN @ - 1 ELSE @]
  /\ thr' = IF t = "start" \/ pool.tx = 0 THEN thr ELSE [thr EXCEPT !.current = SpiThrottle]
  /\ BusHarm("restarted", t = "start" /\ (flight # <<>> \/ done # <<>> \/ at["post"].pc # "idle"))
  /\ UNCHANGED <<bus, up, rx, prod, rd, spi, flight, done>>

(* xQueueSend.  The startup event gives the semaphore before it raises the *)
(* line, a packet after.                                                   *)
SpiPut(t) ==
  /\ at[t].pc = "put" /\ spi.q[at[t].prio] < TxQ
  /\ spi' = [spi EXCEPT !.q[at[t].prio] = @ + 1]
  /\ Go(t, IF t = "start" THEN "give" ELSE "dr")
  /\ UNCHANGED <<bus, up, pool, rx, prod, rd, thr, count, dead, busHarm, flight, done>>

SpiGive(t) ==
  /\ at[t].pc = "give"
  /\ spi' = [spi EXCEPT !.sem = IF @ < 3 * TxQ THEN @ + 1 ELSE @]
  /\ Go(t, IF t = "start" THEN "dr" ELSE "idle")
  /\ UNCHANGED <<bus, up, pool, rx, prod, rd, thr, count, dead, busHarm, flight, done>>

(* Mutant of Raised: only the shadow is set.                               *)
RaisedFlagOnly == [spi EXCEPT !.flag = TRUE]

(* set_dataready_gpio: the line, which the host latches when it rises, ... *)
Raised == [spi EXCEPT !.dr = TRUE, !.latch = @ \/ ~spi.dr]

AfterRaise(t) == IF t = "start" THEN "next" ELSE "give"

SetDataReady(t) ==
  /\ at[t].pc = "dr"
  /\ IF spi.flag THEN UNCHANGED spi /\ Go(t, AfterRaise(t))
     ELSE spi' = Raised /\ Go(t, "dr_flag")
  /\ UNCHANGED <<bus, up, pool, rx, prod, rd, thr, count, dead, busHarm, flight, done>>

(* ... and then its shadow.                                                *)
SetDataReadyFlag(t) ==
  /\ at[t].pc = "dr_flag"
  /\ spi' = [spi EXCEPT !.flag = TRUE]
  /\ Go(t, AfterRaise(t))
  /\ UNCHANGED <<bus, up, pool, rx, prod, rd, thr, count, dead, busHarm, flight, done>>

-----------------------------------------------------------------------------
(* queue_next_transaction, by the post-process task and, at a startup, by  *)
(* host_reset_task.                                                        *)

Holds(t, data, throttle) ==
  at' = [at EXCEPT ![t].pc = "attach", ![t].sends = [data |-> data, throttle |-> throttle]]

TxWaiting == {p \in Prio : spi.q[p] > 0}

(* A packet is queued, or someone is about to raise the line.              *)
Raising ==
  TxWaiting # {} \/ \E s \in BusSenders \union {"start"} : at[s].pc \in {"dr", "dr_flag"}

(* get_next_tx_buffer: a packet, if the semaphore says so, ...             *)
NextBuffer(t) ==
  /\ at[t].pc = "next"
  /\ LET p == First(TxWaiting) IN
       IF spi.sem > 0 /\ spi.q[p] > 0
       THEN /\ spi' = [spi EXCEPT !.sem = @ - 1, !.q[p] = @ - 1]
            /\ Holds(t, TRUE, FALSE)
       ELSE /\ spi' = [spi EXCEPT !.sem = IF @ > 0 THEN @ - 1 ELSE 0]
            /\ Go(t, "reset")
  /\ UNCHANGED <<bus, up, pool, rx, prod, rd, thr, count, dead, busHarm, flight, done>>

(* ... else the line goes down, although a packet may have been queued or  *)
(* loaded meanwhile, ...                                                   *)
ResetDataReady(t) ==
  /\ at[t].pc = "reset"
  /\ IF spi.flag THEN spi' = [spi EXCEPT !.dr = FALSE] /\ Go(t, "reset_flag")
     ELSE UNCHANGED spi /\ Go(t, "dummy")
  /\ BusHarm("cleared", spi.flag /\ Raising)
  /\ UNCHANGED <<bus, up, pool, rx, prod, rd, thr, count, dead, flight, done>>

ResetDataReadyFlag(t) ==
  /\ at[t].pc = "reset_flag"
  /\ spi' = [spi EXCEPT !.flag = FALSE]
  /\ Go(t, "dummy")
  /\ BusHarm("cleared", Raising \/ spi.dr)
  /\ UNCHANGED <<bus, up, pool, rx, prod, rd, thr, count, dead, flight, done>>

(* ... and a dummy carries the throttling.  Without a block, the           *)
(* transaction that has finished is not followed by another.               *)
NextDummy(t) ==
  /\ at[t].pc = "dummy"
  /\ IF pool.tx > 0
     THEN /\ pool' = [pool EXCEPT !.tx = @ - 1]
          /\ thr' = [thr EXCEPT !.current = SpiThrottle]
          /\ Holds(t, FALSE, SpiThrottle)
     ELSE UNCHANGED <<pool, thr>> /\ Go(t, IF t = "post" THEN "finish" ELSE "idle")
  /\ BusHarm("starved", pool.tx = 0)
  /\ UNCHANGED <<bus, up, rx, prod, rd, count, dead, spi, flight, done>>

(* The receive buffer, asserted, and the peripheral.                       *)
Attach(t) ==
  /\ at[t].pc = "attach" /\ Len(flight) + Len(done) < InFlight
  /\ dead' = (pool.tx = 0)
  /\ pool' = [pool EXCEPT !.tx = IF @ > 0 THEN @ - 1 ELSE @]
  /\ flight' = IF pool.tx > 0 THEN Append(flight, at[t].sends) ELSE flight
  /\ Go(t, IF t = "post" THEN "finish" ELSE "idle")
  /\ UNCHANGED <<bus, up, rx, prod, rd, thr, count, busHarm, spi, done>>

-----------------------------------------------------------------------------
(* spi_transaction_post_process_task.                                      *)

(* The result of a transaction is there.                                   *)
PostResult ==
  /\ up /\ at["post"].pc = "idle" /\ prod.pc = "idle" /\ done # <<>>
  /\ prod' = [prod EXCEPT !.prio = IF Head(done) = "none" THEN "bad" ELSE Head(done)]
  /\ done' = Tail(done)
  /\ Go("post", "next")
  /\ UNCHANGED <<bus, up, pool, rx, rd, thr, count, dead, busHarm, spi, flight>>

(* The transmit buffer is free, and the other one too, unless it holds a   *)
(* good packet.                                                            *)
Finished == [pool EXCEPT !.tx = IF prod.prio = "bad" THEN @ + 2 ELSE @ + 1]

(* process_spi_rx.                                                         *)
PostFinish ==
  /\ at["post"].pc = "finish"
  /\ pool' = Finished
  /\ ProdTo(IF prod.prio = "bad" THEN "idle" ELSE "put")
  /\ Go("post", "idle")
  /\ UNCHANGED <<bus, up, rx, rd, thr, count, dead, busHarm, spi, flight, done>>

-----------------------------------------------------------------------------
(* The host clocks the first transaction, with a packet of its own or not. *)
HostClocks ==
  /\ up /\ flight # <<>>
  /\ \E p \in FromHost \union {"none"} :
       /\ IF p = "none" THEN (spi.dr \/ spi.latch) /\ UNCHANGED count ELSE May("host", MaxFromHost)
       /\ p = "others" => ~thr.host
       /\ done' = Append(done, p)
  /\ flight' = Tail(flight)
  /\ spi' = [spi EXCEPT !.latch = @ /\ ~Head(flight).data]
  /\ thr' = [thr EXCEPT !.host = Head(flight).throttle]
  /\ UNCHANGED <<bus, up, pool, rx, prod, rd, dead, busHarm, at>>

(* The bus is unloaded and loaded, for the host's sleep: only the state    *)
(* changes (esp_spi_deinit, esp_spi_init after the first time).            *)
SpiReload ==
  /\ IF up THEN May("break", MaxBreak) ELSE UNCHANGED count
  /\ up' = ~up
  /\ UNCHANGED <<bus, pool, rx, prod, rd, thr, dead, busHarm, spi, flight, done, at>>

SpiNext ==
  \/ \E t \in BusSenders \union {"start"} :
       SpiWrite(t) \/ SpiPut(t) \/ SpiGive(t) \/ SetDataReady(t) \/ SetDataReadyFlag(t)
  \/ \E t \in {"start", "post"} :
       \/ NextBuffer(t) \/ ResetDataReady(t) \/ ResetDataReadyFlag(t) \/ NextDummy(t) \/ Attach(t)
  \/ PostResult \/ PostFinish \/ HostClocks \/ SpiReload

-----------------------------------------------------------------------------
(* What SPI promises.                                                      *)

(* Nothing of a task's own is under way.                                   *)
SpiQuiet == \A t \in SpiTasks : at[t].pc = "idle"

(* No packet waits unseen: when, after the startup, no task is at work and *)
(* a packet is queued or loaded, something is loaded and the host clocks.  *)
(* Three things break it: the line is reset as a packet is being queued; a *)
(* repeated startup event loads one more transaction, whose dummy resets   *)
(* the line though a packet is still loaded; and the pool, smaller than    *)
(* the queues together, has no block for a dummy, so that the last         *)
(* transaction is not followed by another.                                 *)
PacketsAnnounced ==
  bus = "spi" /\ ~dead /\ SpiQuiet /\ done = <<>> /\ count.start > 0
    /\ (TxWaiting # {} \/ \E i \in DOMAIN flight : flight[i].data)
    /\ busHarm \intersect {"cleared", "restarted", "starved"} = {}
    => flight # <<>> /\ (spi.dr \/ spi.latch)

(* The line and its shadow agree when no task is changing them.            *)
ShadowTrue == bus = "spi" /\ SpiQuiet /\ "cleared" \notin busHarm => spi.dr = spi.flag

(* The tasks that hold a block they have taken.                            *)
Holders == {t \in SpiTasks : at[t].pc \in {"put", "attach"}}

(* Every block of the pool is in one place: free, in a queue or a          *)
(* transaction, or held by a task.                                         *)
SpiBlocksAccounted ==
  bus = "spi" /\ ~dead =>
    LET inPost == IF at["post"].pc # "idle" THEN 2 ELSE 0
        inProd == IF prod.pc = "put" THEN 1 ELSE 0
        inRd == IF rd.pc = "process" THEN 1 ELSE 0
    IN pool.tx + Total(spi.q) + 2 * Len(flight) + 2 * Len(done) + Cardinality(Holders)
         + inPost + inProd + inRd + Total(rx.new) + Total(rx.old) = TxBlocks
=============================================================================
