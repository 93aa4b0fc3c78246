\* Two tasks and one entry, uid rolling over, fair scheduling: two requests that
\* race, or five one after the other, enough for responses nobody takes to fill
\* rpc_rx_q, stop rpc_tx_thread, fill rpc_tx_q and leave the fifth request waiting.
SPECIFICATION FairSpec
CONSTANTS
  Caller = {c1, c2}
  MAX_SYNC_RPC_TRANSACTIONS = 1
  RPC_TX_QUEUE_SIZE = 1
  RPC_RX_QUEUE_SIZE = 2
  UID_MAX = 2
  MaxCalls = 5
  MaxRacing = 2
  NULL = NULL
CHECK_DEADLOCK FALSE
INVARIANTS
  Accounted
  NoEmptyFetch
  OwnUntilDisturbed
PROPERTIES
  CallEnds
