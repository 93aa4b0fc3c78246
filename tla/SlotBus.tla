------------------------------ MODULE SlotBus ------------------------------
(***************************************************************************)
(* The drivers that send as soon as there is room: spi_hd_slave_api.c and  *)
(* sdio_slave_api.c, where a counting semaphore holds the places in the    *)
(* peripheral's queue and a task frees what was sent, and uart_slave_api.c *)
(* where the writer waits until the bytes are out.  SPI_HD counts for the  *)
(* host, in registers, what it may send and read; SDIO is reloaded when    *)
(* the host sleeps, if the build unloads the bus, with writers and         *)
(* recv_task running on.                                                   *)
(***************************************************************************)
EXTENDS SlaveRx

VARIABLES
  slots, (* mempool_tx_sem, sdio_send_queue_sem                            *)
  dma,   (* what waits in the peripheral for the host, in order            *)
  fin,   (* how many sent buffers wait for the tx_done task                *)
  td,    (* where the tx_done task is                                      *)
  wr,    (* where each writer is, and what it holds                        *)
  link,  (* SPI_HD: the line as the host has seen it, the head of dma is   *)
         (* loaded, the length not yet read                                *)
  unload (* where sdio_deinit is, and how often it still tries to take     *)
         (* back a sent buffer                                             *)

slotVars == <<slots, dma, fin, td, wr, link, unload>>

Writers == BusSenders \union {"flow", "start"}
WrPc == {"idle", "slot", "alloc", "put"}

SlotTypeOK ==
  /\ slots \in 0 .. TxQ /\ fin \in 0 .. TxQ
  /\ dma \in Seq(Said) /\ Len(dma) <= TxQ
  /\ td \in {"idle", "first", "second", "gone"}
  /\ wr \in [Writers -> [pc: WrPc, says: Said, block: BOOLEAN, slot: BOOLEAN]]
  /\ link \in [dr: BOOLEAN, loaded: BOOLEAN, ready: 0 .. 1]
  /\ unload \in [at: {"no", "deleted", "stopped", "reset"}, tries: 0 .. Reclaim]

Resting == [pc |-> "idle", says |-> "none", block |-> FALSE, slot |-> FALSE]

SlotInit ==
  /\ slots = TxQ /\ dma = <<>> /\ fin = 0 /\ td = "idle"
  /\ wr = [w \in Writers |-> Resting]
  /\ link = [dr |-> FALSE, loaded |-> FALSE, ready |-> 0]
  /\ unload = [at |-> "no", tries |-> 0]

-----------------------------------------------------------------------------
(* write, by a sender, by flow_ctrl_task, and generate_startup_event.      *)

(* SPI_HD takes the place and then a block, SDIO the block first; UART has *)
(* no places.                                                              *)
WriteBegins(w) ==
  /\ wr[w].pc = "idle" /\ up
  /\ IF w = "flow" THEN thr.trig = 1 /\ thr' = [thr EXCEPT !.trig = 0] /\ UNCHANGED count
     ELSE IF w = "start" THEN MayStart /\ UNCHANGED thr
     ELSE MaySend /\ UNCHANGED thr
  /\ wr' = [wr EXCEPT ![w].pc = IF bus = "spi_hd" THEN "slot" ELSE "alloc",
                      ![w].says = IF w # "flow" THEN "none" ELSE IF thr.flow THEN "on" ELSE "off"]
  /\ UNCHANGED <<bus, up, pool, rx, prod, rd, dead, busHarm,
                 slots, dma, fin, td, link, unload>>

TakeSlot(w) ==
  /\ wr[w].pc = "slot" /\ slots > 0
  /\ slots' = slots - 1
  /\ wr' = [wr EXCEPT ![w].slot = TRUE, ![w].pc = IF bus = "spi_hd" THEN "alloc" ELSE "put"]
  /\ UNCHANGED <<bus, up, pool, rx, prod, rd, thr, count, dead, busHarm,
                 dma, fin, td, link, unload>>

(* Without a block a packet is dropped, a place that was taken stays       *)
(* taken, and a startup event asserts.                                     *)
TakeBlock(w) ==
  /\ wr[w].pc = "alloc"
  /\ IF pool.tx > 0
     THEN /\ pool' = [pool EXCEPT !.tx = @ - 1]
          /\ wr' = [wr EXCEPT ![w].block = TRUE, ![w].pc = IF bus = "sdio" THEN "slot" ELSE "put"]
          /\ UNCHANGED dead
     ELSE /\ dead' = (w = "start")
          /\ wr' = [wr EXCEPT ![w] = Resting]
          /\ UNCHANGED pool
  /\ UNCHANGED <<bus, up, rx, prod, rd, thr, count, busHarm, slots, dma, fin, td, link, unload>>

HostHears(said) == thr' = [thr EXCEPT !.host = IF said = "none" THEN @ ELSE said = "on"]

(* The peripheral takes it, and while sdio_deinit is at work too.          *)
SlotPut(w) ==
  /\ bus # "uart" /\ up /\ wr[w].pc = "put"
  /\ dma' = Append(dma, wr[w].says)
  /\ wr' = [wr EXCEPT ![w] = Resting]
  /\ BusHarm("late", unload.at = "reset")
  /\ UNCHANGED <<bus, up, pool, rx, prod, rd, thr, count, dead, slots, fin, td, link, unload>>

(* Mutant of FailureGives: what a failed write held is kept.               *)
FailureGivesNone(w) == FALSE

(* sdio_write gives the place back when the peripheral refuses the packet; *)
(* SPI_HD and the startup events do not.                                   *)
FailureGives(w) == bus = "sdio" /\ w # "start"

(* The peripheral refuses it; one that has been unloaded does, or is       *)
(* reached through memory that is gone.                                    *)
PutFails(w) ==
  /\ bus # "uart" /\ wr[w].pc = "put"
  /\ \/ up /\ May("break", MaxBreak) /\ UNCHANGED dead
     \/ ~up /\ dead' \in BOOLEAN /\ UNCHANGED count
  /\ pool' = [pool EXCEPT !.tx = @ + 1]
  /\ wr' = [wr EXCEPT ![w] = Resting]
  /\ slots' = IF FailureGives(w) THEN slots + 1 ELSE slots
  /\ busHarm' = busHarm \union
                  IF bus = "spi_hd" \/ w = "start" THEN {"failed", "kept"} ELSE {"failed"}
  /\ UNCHANGED <<bus, up, rx, prod, rd, thr, dma, fin, td, link, unload>>

(* uart_write_bytes, until all is out, and the block is free; the startup  *)
(* event's is never freed.                                                 *)
UartPut(w) ==
  /\ bus = "uart" /\ wr[w].pc = "put"
  /\ pool' = IF w = "start" THEN pool ELSE [pool EXCEPT !.tx = @ + 1]
  /\ HostHears(wr[w].says)
  /\ wr' = [wr EXCEPT ![w] = Resting]
  /\ UNCHANGED <<bus, up, rx, prod, rd, count, dead, busHarm, slots, dma, fin, td, link, unload>>

-----------------------------------------------------------------------------
(* The host reads, and the tx_done task frees.                             *)

(* The peripheral works.                                                   *)
Serving == up /\ unload.at \in {"no", "deleted"}

(* cb_tx_ready: the peripheral has loaded the next packet, the length      *)
(* register grows, and the line rises.                                     *)
Loaded == [link EXCEPT !.loaded = TRUE, !.dr = TRUE, !.ready = 1]

TxLoads ==
  /\ bus = "spi_hd" /\ ~link.loaded /\ dma # <<>>
  /\ link' = Loaded
  /\ UNCHANGED <<bus, up, pool, rx, prod, rd, thr, count, dead, busHarm,
                 slots, dma, fin, td, wr, unload>>

(* The host reads the length, clears the line (cb_cmd9_recv), and reads as *)
(* much; SDIO tells it of each packet.                                     *)
HostReads ==
  /\ Serving /\ IF bus = "spi_hd" THEN link.dr ELSE bus = "sdio" /\ dma # <<>>
  /\ LET reads == bus = "sdio" \/ (link.ready = 1 /\ link.loaded) IN
       /\ link' = IF bus = "sdio" THEN link
                  ELSE [link EXCEPT !.dr = FALSE, !.ready = 0, !.loaded = @ /\ ~reads]
       /\ IF reads
          THEN dma' = Tail(dma) /\ fin' = fin + 1 /\ HostHears(Head(dma))
          ELSE UNCHANGED <<dma, fin, thr>>
  /\ UNCHANGED <<bus, up, pool, rx, prod, rd, count, dead, busHarm, slots, td, wr, unload>>

(* SDIO's interrupts: start is looked at before stop.                      *)
HostSeesInts ==
  /\ thr.ints # {}
  /\ thr' = [thr EXCEPT !.ints = {}, !.host = "off" \notin thr.ints]
  /\ UNCHANGED <<bus, up, pool, rx, prod, rd, count, dead, busHarm, slotVars>>

(* spi_hd_tx_done_task frees the block, then gives the place;              *)
(* sdio_tx_done_task the other way round.                                  *)
TxDone ==
  /\ \/ td = "idle" /\ fin > 0 /\ fin' = fin - 1 /\ td' = "first"
     \/ td = "first" /\ td' = "second" /\ UNCHANGED fin
     \/ td = "second" /\ td' = "idle" /\ UNCHANGED fin
  /\ LET block == (bus = "spi_hd") IN
       /\ pool' = IF (td = "first" /\ block) \/ (td = "second" /\ ~block)
                  THEN [pool EXCEPT !.tx = @ + 1] ELSE pool
       /\ slots' = IF (td = "first" /\ ~block) \/ (td = "second" /\ block)
                   THEN slots + 1 ELSE slots
  /\ UNCHANGED <<bus, up, rx, prod, rd, thr, count, dead, busHarm, dma, wr, link, unload>>

-----------------------------------------------------------------------------
(* The host sends, SPI_HD and SDIO into the buffers that are loaded.       *)
HostSends ==
  /\ Serving /\ Len(rx.arrived) < RxQ /\ May("host", MaxFromHost)
  /\ bus = "uart" \/ pool.rx > 0
  /\ \E p \in FromHost :
       /\ p = "others" => ~thr.host
       /\ rx' = [rx EXCEPT !.arrived = Append(@, p)]
  /\ pool' = IF bus = "uart" THEN pool ELSE [pool EXCEPT !.rx = @ - 1]
  /\ UNCHANGED <<bus, up, prod, rd, thr, dead, busHarm, slotVars>>

(* SPI_HD: the host comes out of a deep sleep with its counts at 0.  The   *)
(* slave clears tx_ready_buf_size with its own event.                      *)
HostDeepWakes ==
  /\ bus = "spi_hd" /\ May("break", MaxBreak)
  /\ link' = [link EXCEPT !.dr = FALSE, !.ready = 0]
  /\ thr' = [thr EXCEPT !.host = FALSE]
  /\ BusHarm("stranded", link.loaded)
  /\ UNCHANGED <<bus, up, pool, rx, prod, rd, dead, slots, dma, fin, td, wr, unload>>

(* sdio_deinit, a step at a time: the state stays ACTIVE to the last, so   *)
(* writers that wait for a place and recv_task go on through it.  First    *)
(* both tasks are deleted where they are, ...                              *)
SdioDeletes ==
  /\ bus = "sdio" /\ up /\ unload.at = "no" /\ May("break", MaxBreak)
  /\ unload' = [at |-> "deleted", tries |-> Reclaim]
  /\ prod' = [pc |-> "gone", prio |-> "bad"] /\ td' = "gone"
  /\ busHarm' = busHarm \union (IF prod.pc # "idle" THEN {"rx_killed"} ELSE {})
                        \union (IF td # "idle" THEN {"tx_killed"} ELSE {})
  /\ UNCHANGED <<bus, up, pool, rx, rd, thr, dead, slots, dma, fin, wr, link>>

(* ... then the receive buffers are unregistered, those of the packets     *)
(* that wait to be read among them, and the peripheral stopped, ...        *)
Reading == rd.pc \in {"check", "flow", "tell", "process"}

SdioStops ==
  /\ unload.at = "deleted"
  /\ unload' = [unload EXCEPT !.at = "stopped"]
  /\ pool' = [pool EXCEPT !.rx = 0]
  /\ rx' = [rx EXCEPT !.arrived = <<>>, !.new = [p \in Prio |-> 0],
                     !.old = [p \in Prio |-> Depth(p)]]
  /\ rd' = [rd EXCEPT !.fresh = FALSE]
  /\ BusHarm("queued", Reading \/ \E p \in Prio : rx.new[p] > 0)
  /\ UNCHANGED <<bus, up, prod, thr, count, dead, slots, dma, fin, td, wr, link>>

(* ... the interrupts are cleared and what was not read is put with what   *)
(* was, ...                                                                *)
SdioResets ==
  /\ unload.at = "stopped"
  /\ unload' = [unload EXCEPT !.at = "reset"]
  /\ thr' = [thr EXCEPT !.ints = {}]
  /\ dma' = <<>> /\ fin' = fin + Len(dma)
  /\ BusHarm("overfull", fin + Len(dma) > Reclaim)
  /\ UNCHANGED <<bus, up, pool, rx, prod, rd, count, dead, slots, td, wr, link>>

(* ... a few sent buffers are taken back, whose places let writers on, ... *)
SdioReclaims ==
  /\ unload.at = "reset" /\ unload.tries > 0
  /\ unload' = [unload EXCEPT !.tries = @ - 1]
  /\ IF fin > 0
     THEN fin' = fin - 1 /\ slots' = slots + 1 /\ pool' = [pool EXCEPT !.tx = @ + 1]
     ELSE UNCHANGED <<fin, slots, pool>>
  /\ UNCHANGED <<bus, up, rx, prod, rd, thr, count, dead, busHarm, dma, td, wr, link>>

(* ... and the driver goes, with what it still has.                        *)
SdioGoes ==
  /\ unload.at = "reset" /\ unload.tries = 0
  /\ unload' = [unload EXCEPT !.at = "no"] /\ up' = FALSE
  /\ dma' = <<>> /\ fin' = 0
  /\ UNCHANGED <<bus, pool, rx, prod, rd, thr, count, dead, busHarm, slots, td, wr, link>>

(* sdio_init: the static buffers are registered and loaded again, also     *)
(* those in which a packet waits, and the tasks created; queues,           *)
(* semaphores and the pool stay.                                           *)
SdioUp ==
  /\ bus = "sdio" /\ ~up
  /\ up' = TRUE /\ prod' = [prod EXCEPT !.pc = "idle"] /\ td' = "idle"
  /\ pool' = [pool EXCEPT !.rx = RxQ]
  /\ thr' = [thr EXCEPT !.host = FALSE]
  /\ UNCHANGED <<bus, rx, rd, count, dead, busHarm, slots, dma, fin, wr, link, unload>>

SlotNext ==
  \/ \E w \in Writers :
       WriteBegins(w) \/ TakeSlot(w) \/ TakeBlock(w) \/ SlotPut(w) \/ PutFails(w) \/ UartPut(w)
  \/ TxLoads \/ HostReads \/ HostSeesInts \/ TxDone \/ HostSends \/ HostDeepWakes
  \/ SdioDeletes \/ SdioStops \/ SdioResets \/ SdioReclaims \/ SdioGoes \/ SdioUp

-----------------------------------------------------------------------------
(* What these drivers promise.                                             *)

HoldsOf(field) == Cardinality({w \in Writers : wr[w][field]})

(* Where a block and a place can be: free, with a writer, in the           *)
(* peripheral, or with the tx_done task.                                   *)
BlocksThere ==
  pool.tx + HoldsOf("block") + Len(dma) + fin
    + (IF td = "first" \/ (td = "second" /\ bus # "spi_hd") THEN 1 ELSE 0)
PlacesThere ==
  slots + HoldsOf("slot") + Len(dma) + fin
    + (IF td = "first" \/ (td = "second" /\ bus = "spi_hd") THEN 1 ELSE 0)

(* No block is in two places and no place given twice, whatever fails and  *)
(* whenever the bus is unloaded.                                           *)
NothingTwice == bus # "spi" => BlocksThere <= TxBlocks /\ PlacesThere <= TxQ

(* The startup events that have gone out.                                  *)
Startups == count.start - (IF wr["start"].pc = "idle" THEN 0 ELSE 1)

(* None is lost, but one block to each of UART's startup events, the place *)
(* of a packet that is refused on SPI_HD or of a refused startup event,    *)
(* and what an unloading of SDIO finds with the tx_done task, in excess of *)
(* what it takes back, or sent after the peripheral's reset.               *)
NothingLost ==
  bus # "spi" /\ ~dead /\ busHarm \intersect {"tx_killed", "overfull", "late"} = {} =>
    /\ BlocksThere = TxBlocks - (IF bus = "uart" THEN Startups ELSE 0)
    /\ "kept" \notin busHarm => PlacesThere = TxQ

(* SPI_HD: who has a place finds a block: the pool has as many, and the    *)
(* block is free before the place is.                                      *)
PlaceMeansBlock ==
  bus = "spi_hd" => \A w \in Writers : wr[w].pc = "alloc" => pool.tx > 0

(* SPI_HD: a loaded packet is one the host will read: it has been told of  *)
(* it, and finds its length.  A host that wakes with its count at 0 is the *)
(* exception: the packet is stranded, and all behind it.                   *)
LoadedIsAnnounced ==
  bus = "spi_hd" /\ link.loaded /\ "stranded" \notin busHarm => link.dr /\ link.ready = 1

(* All the receive buffers are loaded for the host, or hold a packet on    *)
(* its way, and after a reload too, whatever it left in the queues, ...    *)
BuffersAllLoaded ==
  bus \in {"spi_hd", "sdio"} /\ prod.pc # "gone" =>
    pool.rx + Len(rx.arrived) + Total(rx.new)
      + (IF prod.pc \in {"check", "flow", "tell", "put"} THEN 1 ELSE 0)
      + (IF Reading /\ rd.fresh THEN 1 ELSE 0) = RxQ

(* ... which are packets whose buffers the host now writes again, or whose *)
(* descriptors are gone: there are none unless it unloaded the bus while   *)
(* packets waited to be read.                                              *)
BuffersUnshared ==
  "queued" \notin busHarm => Total(rx.old) = 0 /\ (Reading => rd.fresh)
=============================================================================
