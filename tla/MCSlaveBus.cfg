\* Each of the four buses, two places to the host and one from it, a few packets
\* each way: enough for the SPI pool to run out, and for an unloading to find
\* more sent buffers than it takes back.
SPECIFICATION BusSpec
CONSTANTS
  Buses = {"spi", "spi_hd", "sdio", "uart"}
  wifi = wifi
  pserial = pserial
  BusSenders = {wifi, pserial}
  PrioOf <- SentAs
  FromHost = {"bt", "others", "bad"}
  TxQ = 2
  RxQ = 1
  InFlight = 2
  Reclaim = 1
  High = 40
  Low = 30
  MaxToHost = 2
  MaxFromHost = 4
  MaxStart = 2
  MaxBreak = 1
CHECK_DEADLOCK FALSE
INVARIANTS
  Accounted
  WaitingAnnounced
  IdleMeansOpen
