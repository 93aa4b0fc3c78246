------------------------------ MODULE SlaveBus -----------------------------
(***************************************************************************)
(* The bus drivers of the slave: a build with SPI runs SpiSlave, one with  *)
(* SPI_HD, SDIO or UART runs SlotBus, and each the common receive path of  *)
(* SlaveRx.  A failed assertion ends it.                                   *)
(***************************************************************************)
EXTENDS SpiSlave, SlotBus

busVars == <<rxVars, spiVars, slotVars>>

BusTypeOK == RxTypeOK /\ SpiTypeOK /\ SlotTypeOK

Init == RxInit /\ SpiInit /\ SlotInit

Next ==
  /\ ~dead
  /\ \/ RxNext /\ UNCHANGED <<spiVars, slotVars>>
     \/ bus = "spi" /\ SpiNext /\ UNCHANGED slotVars
     \/ bus # "spi" /\ SlotNext /\ UNCHANGED spiVars

BusSpec == Init /\ [][Next]_busVars

-----------------------------------------------------------------------------
Queued == Total(rx.new) + Total(rx.old)

(* The receive semaphore counts what is queued, up to the packet that is   *)
(* being queued and the one that is being read: recv_task neither finds a  *)
(* count without a packet nor leaves a packet behind.  SPI loses a count   *)
(* when it is unloaded under a reader, SDIO when its task is deleted       *)
(* before it gives it.                                                     *)
TokensMatch ==
  busHarm \intersect {"token_lost", "rx_killed"} = {} =>
    rx.sem + (IF prod.pc = "give" THEN 1 ELSE 0) + (IF rd.pc \in {"up", "pop"} THEN 1 ELSE 0)
      = Queued

(* Nothing of the receive path is under way, nor on its way to the host.   *)
RxQuiet ==
  /\ prod.pc = "idle" /\ rx.arrived = <<>> /\ Queued = 0 /\ rd.pc = "take"
  /\ thr.trig = 0 /\ thr.ints = {} /\ wr["flow"].pc = "idle"
  /\ \A i \in DOMAIN dma : dma[i] = "none"

(* The host is never left throttled by a slave that has nothing to do,     *)
(* which would never tell it otherwise: except when the start of the       *)
(* throttling and its end cross, each being told after both were decided,  *)
(* or the peripheral refuses the message that ends it.                     *)
IdleMeansOpen ==
  Throttles /\ RxQuiet /\ busHarm \intersect {"crossed", "failed"} = {} => ~thr.host

(* Every block, place, receive buffer and count is in one place at a       *)
(* time, on each of the buses, through an unloading of the bus too, and    *)
(* none is lost but to the named failures and races.                       *)
Accounted ==
  /\ BusTypeOK
  /\ TokensMatch
  /\ SpiBlocksAccounted
  /\ NothingTwice
  /\ NothingLost
  /\ BuffersAllLoaded
  /\ BuffersUnshared
  /\ PlaceMeansBlock

(* What waits for the host has been announced to it, on SPI by the line    *)
(* and on SPI_HD by the count.                                             *)
WaitingAnnounced == PacketsAnnounced /\ ShadowTrue /\ LoadedIsAnnounced
=============================================================================
