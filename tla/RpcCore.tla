------------------------------ MODULE RpcCore ------------------------------
(***************************************************************************)
(* Synchronous requests in the vendored host stack                         *)
(* (vendor/esp_hosted/host/drivers/rpc/core/rpc_core.c).                   *)
(*                                                                         *)
(* A caller numbers its request (uid), enters its semaphore in             *)
(* sync_rsp_table, queues the request for rpc_tx_thread, and waits on the  *)
(* semaphore.  rpc_rx_thread puts every response into ONE queue, rpc_rx_q, *)
(* and posts the semaphore found under the response's uid; the woken       *)
(* caller takes whatever is at the head of that queue.  Nothing is locked, *)
(* so uid and the table are read and written a step at a time.             *)
(*                                                                         *)
(* A call's semaphore is named by its caller.  Left to other modules:      *)
(* asynchronous requests, events, and rpc_core_deinit.                     *)
(***************************************************************************)
EXTENDS Integers, Sequences, FiniteSets

CONSTANTS
  Caller,            (* tasks making synchronous requests                  *)
  MAX_SYNC_RPC_TRANSACTIONS,
  RPC_TX_QUEUE_SIZE,
  RPC_RX_QUEUE_SIZE,
  UID_MAX,           (* uid is 1 .. UID_MAX (2^32 - 1 in the code)         *)
  MaxCalls,          (* bound: requests made one after the other           *)
  MaxRacing,         (* bound: requests made when two of them overlap      *)
  NULL

ASSUME RpcCoreAssumption ==
  /\ IsFiniteSet(Caller) /\ NULL \notin Caller
  /\ {MAX_SYNC_RPC_TRANSACTIONS, RPC_TX_QUEUE_SIZE, RPC_RX_QUEUE_SIZE,
      UID_MAX} \subseteq Nat \ {0}
  /\ MaxCalls \in Nat /\ MaxRacing \in 0 .. MaxCalls

VARIABLES
  uid,             (* the global counter                                   *)
  sync_rsp_table,  (* [Entry -> [uid, sem]]; uid 0: the entry is free      *)
  sem,             (* [Caller -> its semaphore]                            *)
  pc, req,         (* where each caller stands, and its locals             *)
  result,          (* [Caller -> what its last request returned]           *)
  rpc_tx_q, rpc_rx_q,
  tx, rx,          (* rpc_tx_thread, rpc_rx_thread                         *)
  reqs, wire,      (* requests and responses on the link, as uids          *)
  calls,           (* requests made so far; whether any two have overlapped*)
  gaveUp,          (* history: requests that returned without a response   *)
  failedTx         (* history: uids that could not be transmitted          *)

callVars == <<uid, sync_rsp_table, sem, pc, req, result, calls, gaveUp>>
linkVars == <<reqs, wire>>
vars == <<callVars, rpc_tx_q, rpc_rx_q, tx, rx, linkVars, failedTx>>

-----------------------------------------------------------------------------
Entry == 1 .. MAX_SYNC_RPC_TRANSACTIONS
Uid   == 0 .. UID_MAX
Sem   == Caller \union {NULL}

PC == {"idle", "uid", "find", "claim", "queue", "lookup", "wait", "destroy",
       "clear_uid", "clear_sem", "fetch", "abort"}

(* Where a call's end comes from; got is the uid of the response fetched.  *)
Result == [code: {"NONE", "NO_ENTRY", "TIMEOUT", "RESP"}, uid: Uid, got: Uid]

NoReq    == [uid |-> 0, entry |-> 1, sem |-> NULL, woken |-> FALSE]
NoResult == [code |-> "NONE", uid |-> 0, got |-> 0]

(* The first entry with this uid, as every search of the table finds it.   *)
IsFirst(i, u) == /\ sync_rsp_table[i].uid = u
                 /\ \A j \in Entry : sync_rsp_table[j].uid = u => i <= j
Listed(u) == \E i \in Entry : sync_rsp_table[i].uid = u

NextUid(u) == IF u = UID_MAX THEN 1 ELSE u + 1

(* Posting: a binary semaphore saturates; NULL is refused.  A post to a    *)
(* deleted one is undefined: it is taken to change nothing here.           *)
Posted(s) == IF s # NULL /\ sem[s] = "empty" THEN [sem EXCEPT ![s] = "full"] ELSE sem

Live(r) == /\ pc[r.caller] \notin {"idle", "uid", "find"}
           /\ req[r.caller].uid = r.uid

InProgress == {c \in Caller : pc[c] # "idle"}

TypeOK ==
  /\ uid \in Uid
  /\ sync_rsp_table \in [Entry -> [uid: Uid, sem: Sem]]
  /\ sem \in [Caller -> {"empty", "full", "dead"}]
  /\ pc \in [Caller -> PC]
  /\ req \in [Caller -> [uid: Uid, entry: Entry, sem: Sem, woken: BOOLEAN]]
  /\ result \in [Caller -> Result]
  /\ rpc_tx_q \in Seq([caller: Caller, uid: Uid])
  /\ Len(rpc_tx_q) <= RPC_TX_QUEUE_SIZE
  /\ rpc_rx_q \in Seq(Uid) /\ Len(rpc_rx_q) <= RPC_RX_QUEUE_SIZE
  /\ tx \in {"idle", "put", "post"}
  /\ rx \in [pc: {"idle", "put", "find", "post"}, uid: Uid, sem: Sem]
  /\ reqs \in Seq(Uid) /\ wire \in Seq(Uid)
  /\ calls \in [made: Nat, overlap: BOOLEAN] /\ gaveUp \in Nat
  /\ failedTx \subseteq Uid

Init ==
  /\ uid = 0
  /\ sync_rsp_table = [i \in Entry |-> [uid |-> 0, sem |-> NULL]]
  /\ sem = [c \in Caller |-> "dead"]
  /\ pc = [c \in Caller |-> "idle"]
  /\ req = [c \in Caller |-> NoReq]
  /\ result = [c \in Caller |-> NoResult]
  /\ rpc_tx_q = <<>> /\ rpc_rx_q = <<>> /\ reqs = <<>> /\ wire = <<>>
  /\ tx = "idle"
  /\ rx = [pc |-> "idle", uid |-> 0, sem |-> NULL]
  /\ calls = [made |-> 0, overlap |-> FALSE] /\ gaveUp = 0 /\ failedTx = {}

-----------------------------------------------------------------------------
(* The caller: rpc_send_req, then rpc_wait_and_parse_sync_resp.            *)
Goto(c, p) == pc' = [pc EXCEPT ![c] = p]

Return(c, r) == /\ Goto(c, "idle")
                /\ req' = [req EXCEPT ![c] = NoReq]
                /\ result' = [result EXCEPT ![c] = r]

(* uid++ is a load ...                                                     *)
LoadUid(c) ==
  /\ pc[c] = "idle"
  /\ calls' = [made |-> calls.made + 1, overlap |-> calls.overlap \/ InProgress # {}]
  /\ calls.made < IF calls'.overlap THEN MaxRacing ELSE MaxCalls
  /\ Goto(c, "uid")
  /\ req' = [req EXCEPT ![c].uid = uid]
  /\ result' = [result EXCEPT ![c] = NoResult]
  /\ UNCHANGED <<uid, sync_rsp_table, sem, gaveUp, rpc_tx_q, rpc_rx_q, tx, rx,
                 linkVars, failedTx>>

(* Mutant of StoreUid: the new semaphore is left full, as                  *)
(* hosted_create_semaphore returns it.                                     *)
StoreUidSemFull(c) ==
  /\ pc[c] = "uid"
  /\ uid' = NextUid(req[c].uid)
  /\ req' = [req EXCEPT ![c].uid = uid']
  /\ sem' = [sem EXCEPT ![c] = "full"]
  /\ Goto(c, "find")
  /\ UNCHANGED <<sync_rsp_table, result, calls, gaveUp, rpc_tx_q, rpc_rx_q,
                 tx, rx, linkVars, failedTx>>

(* ... and a store; the request's semaphore is created and emptied.        *)
StoreUid(c) ==
  /\ pc[c] = "uid"
  /\ uid' = NextUid(req[c].uid)
  /\ req' = [req EXCEPT ![c].uid = uid']
  /\ sem' = [sem EXCEPT ![c] = "empty"]
  /\ Goto(c, "find")
  /\ UNCHANGED <<sync_rsp_table, result, calls, gaveUp, rpc_tx_q, rpc_rx_q,
                 tx, rx, linkVars, failedTx>>

(* Find a free entry ...                                                   *)
FindEntry(c) ==
  /\ pc[c] = "find"
  /\ \E i \in Entry : /\ IsFirst(i, 0)
                      /\ req' = [req EXCEPT ![c].entry = i]
  /\ Goto(c, "claim")
  /\ UNCHANGED <<uid, sync_rsp_table, sem, result, calls, gaveUp, rpc_tx_q,
                 rpc_rx_q, tx, rx, linkVars, failedTx>>

(* ... or fail: the semaphore is destroyed and nothing is sent.            *)
TableFull(c) ==
  /\ pc[c] = "find"
  /\ ~Listed(0)
  /\ sem' = [sem EXCEPT ![c] = "dead"]
  /\ gaveUp' = gaveUp + 1
  /\ Return(c, [code |-> "NO_ENTRY", uid |-> req[c].uid, got |-> 0])
  /\ UNCHANGED <<uid, sync_rsp_table, calls, rpc_tx_q, rpc_rx_q, tx, rx,
                 linkVars, failedTx>>

(* Enter the semaphore, even if another task has taken the entry since.    *)
Claim(c) ==
  /\ pc[c] = "claim"
  /\ sync_rsp_table' = [sync_rsp_table EXCEPT ![req[c].entry] =
                          [uid |-> req[c].uid, sem |-> c]]
  /\ Goto(c, "queue")
  /\ UNCHANGED <<uid, sem, req, result, calls, gaveUp, rpc_tx_q, rpc_rx_q, tx,
                 rx, linkVars, failedTx>>

(* Queue the request; blocks while rpc_tx_q is full.                       *)
QueueRequest(c) ==
  /\ pc[c] = "queue"
  /\ Len(rpc_tx_q) < RPC_TX_QUEUE_SIZE
  /\ rpc_tx_q' = Append(rpc_tx_q, [caller |-> c, uid |-> req[c].uid])
  /\ Goto(c, "lookup")
  /\ UNCHANGED <<uid, sync_rsp_table, sem, req, result, calls, gaveUp,
                 rpc_rx_q, tx, rx, linkVars, failedTx>>

(* wait_for_sync_response searches the table for the uid.  An entry whose  *)
(* semaphore is NULL fails the wait, and destroying NULL asserts.          *)
Lookup(c) ==
  /\ pc[c] = "lookup"
  /\ \E i \in Entry :
       /\ IsFirst(i, req[c].uid)
       /\ req' = [req EXCEPT ![c].entry = i, ![c].sem = sync_rsp_table[i].sem]
       /\ Goto(c, IF sync_rsp_table[i].sem = NULL THEN "abort" ELSE "wait")
  /\ UNCHANGED <<uid, sync_rsp_table, sem, result, calls, gaveUp, rpc_tx_q,
                 rpc_rx_q, tx, rx, linkVars, failedTx>>

(* Not in the table any more: no wait, the request is freed.               *)
LookupFails(c) ==
  /\ pc[c] = "lookup"
  /\ ~Listed(req[c].uid)
  /\ gaveUp' = gaveUp + 1
  /\ Return(c, [code |-> "NO_ENTRY", uid |-> req[c].uid, got |-> 0])
  /\ UNCHANGED <<uid, sync_rsp_table, sem, calls, rpc_tx_q, rpc_rx_q, tx, rx,
                 linkVars, failedTx>>

(* The wait on the semaphore succeeds ...                                  *)
Wake(c) ==
  /\ pc[c] = "wait"
  /\ sem[req[c].sem] = "full"
  /\ sem' = [sem EXCEPT ![req[c].sem] = "empty"]
  /\ req' = [req EXCEPT ![c].woken = TRUE]
  /\ Goto(c, "destroy")
  /\ UNCHANGED <<uid, sync_rsp_table, result, calls, gaveUp, rpc_tx_q,
                 rpc_rx_q, tx, rx, linkVars, failedTx>>

(* Mutant of Timeout: the wait is for ever.                                *)
TimeoutNever(c) == FALSE /\ pc[c] = "wait" /\ UNCHANGED vars

(* ... or expires after rsp_timeout_sec.                                   *)
Timeout(c) ==
  /\ pc[c] = "wait"
  /\ sem[req[c].sem] # "full"
  /\ Goto(c, "destroy")
  /\ UNCHANGED <<uid, sync_rsp_table, sem, req, result, calls, gaveUp,
                 rpc_tx_q, rpc_rx_q, tx, rx, linkVars, failedTx>>

(* Either way the entry's semaphore is destroyed (asserting on NULL), ...  *)
Destroy(c) ==
  /\ pc[c] = "destroy"
  /\ LET s == sync_rsp_table[req[c].entry].sem
     IN  IF s = NULL THEN Goto(c, "abort") /\ UNCHANGED sem
         ELSE Goto(c, "clear_uid") /\ sem' = [sem EXCEPT ![s] = "dead"]
  /\ UNCHANGED <<uid, sync_rsp_table, req, result, calls, gaveUp, rpc_tx_q,
                 rpc_rx_q, tx, rx, linkVars, failedTx>>

(* Mutant of ClearUid: the entry is only freed on success.                 *)
ClearUidIfWoken(c) ==
  /\ pc[c] = "clear_uid"
  /\ sync_rsp_table' = IF req[c].woken
       THEN [sync_rsp_table EXCEPT ![req[c].entry].uid = 0]
       ELSE sync_rsp_table
  /\ Goto(c, "clear_sem")
  /\ UNCHANGED <<uid, sem, req, result, calls, gaveUp, rpc_tx_q, rpc_rx_q, tx,
                 rx, linkVars, failedTx>>

(* ... the entry is freed ...                                              *)
ClearUid(c) ==
  /\ pc[c] = "clear_uid"
  /\ sync_rsp_table' = [sync_rsp_table EXCEPT ![req[c].entry].uid = 0]
  /\ Goto(c, "clear_sem")
  /\ UNCHANGED <<uid, sem, req, result, calls, gaveUp, rpc_tx_q, rpc_rx_q, tx,
                 rx, linkVars, failedTx>>

(* ... and its semaphore forgotten; then a caller that was woken fetches   *)
(* a response, and one that was not returns without.                       *)
ClearSem(c) ==
  /\ pc[c] = "clear_sem"
  /\ sync_rsp_table' = [sync_rsp_table EXCEPT ![req[c].entry].sem = NULL]
  /\ IF req[c].woken
     THEN Goto(c, "fetch") /\ UNCHANGED <<req, result, gaveUp>>
     ELSE /\ Return(c, [code |-> "TIMEOUT", uid |-> req[c].uid, got |-> 0])
          /\ gaveUp' = gaveUp + 1
  /\ UNCHANGED <<uid, sem, calls, rpc_tx_q, rpc_rx_q, tx, rx, linkVars,
                 failedTx>>

(* The head of rpc_rx_q, whoever it is for; blocks while it is empty.      *)
Fetch(c) ==
  /\ pc[c] = "fetch"
  /\ rpc_rx_q # <<>>
  /\ Return(c, [code |-> "RESP", uid |-> req[c].uid, got |-> Head(rpc_rx_q)])
  /\ rpc_rx_q' = Tail(rpc_rx_q)
  /\ UNCHANGED <<uid, sync_rsp_table, sem, calls, gaveUp, rpc_tx_q, tx, rx,
                 linkVars, failedTx>>

-----------------------------------------------------------------------------
(* rpc_tx_thread: process_rpc_tx_msg.                                      *)

(* Mutant of TxSend: a request stays queued until it has been sent twice.  *)
TxSendAgain ==
  /\ tx = "idle" /\ rpc_tx_q # <<>>
  /\ reqs' = Append(reqs, Head(rpc_tx_q).uid)
  /\ rpc_tx_q' = IF reqs = <<>> THEN rpc_tx_q ELSE Tail(rpc_tx_q)
  /\ UNCHANGED <<callVars, rpc_rx_q, tx, rx, wire, failedTx>>

TxSend ==
  /\ tx = "idle" /\ rpc_tx_q # <<>>
  /\ reqs' = Append(reqs, Head(rpc_tx_q).uid)
  /\ rpc_tx_q' = Tail(rpc_tx_q)
  /\ UNCHANGED <<callVars, rpc_rx_q, tx, rx, wire, failedTx>>

(* Encoding or the transport fails: a response is made up for the caller,  *)
(* if there is memory for it.                                              *)
TxFail ==
  /\ tx = "idle" /\ rpc_tx_q # <<>>
  /\ failedTx' = failedTx \union {Head(rpc_tx_q).uid}
  /\ tx' \in {"put", "idle"}
  /\ rpc_tx_q' = Tail(rpc_tx_q)
  /\ UNCHANGED <<callVars, rpc_rx_q, rx, linkVars>>

(* The queued pointer outlived its request, which a caller that gave up    *)
(* has freed: its contents may also be gone, and nothing sensible is sent. *)
TxGone ==
  /\ tx = "idle" /\ rpc_tx_q # <<>>
  /\ ~Live(Head(rpc_tx_q))
  /\ rpc_tx_q' = Tail(rpc_tx_q)
  /\ UNCHANGED <<callVars, rpc_rx_q, tx, rx, linkVars, failedTx>>

(* The made-up response carries uid 0, which nobody sets; blocks while     *)
(* rpc_rx_q is full.                                                       *)
TxPut ==
  /\ tx = "put"
  /\ Len(rpc_rx_q) < RPC_RX_QUEUE_SIZE
  /\ rpc_rx_q' = Append(rpc_rx_q, 0)
  /\ tx' = "post"
  /\ UNCHANGED <<callVars, rpc_tx_q, rx, linkVars, failedTx>>

(* uid 0 is the mark of a free entry, so it is one of those that is posted.*)
TxPost ==
  /\ tx = "post"
  /\ tx' = "idle"
  /\ sem' = IF Listed(0)
            THEN Posted(sync_rsp_table[CHOOSE i \in Entry : IsFirst(i, 0)].sem)
            ELSE sem
  /\ UNCHANGED <<uid, sync_rsp_table, pc, req, result, calls, gaveUp,
                 rpc_tx_q, rpc_rx_q, rx, linkVars, failedTx>>

-----------------------------------------------------------------------------
(* The slave: responses carry the uid of their request, in order, at most  *)
(* one each; a request or its response may get lost.                       *)
SlaveResponds == /\ reqs # <<>>
                 /\ wire' = Append(wire, Head(reqs))
                 /\ reqs' = Tail(reqs)
                 /\ UNCHANGED <<callVars, rpc_tx_q, rpc_rx_q, tx, rx, failedTx>>

SlaveSilent == /\ reqs # <<>>
               /\ reqs' = Tail(reqs)
               /\ UNCHANGED <<callVars, rpc_tx_q, rpc_rx_q, tx, rx, wire,
                              failedTx>>

-----------------------------------------------------------------------------
(* rpc_rx_thread: process_rpc_rx_msg on a response.                        *)

(* Read a response; one that cannot be unpacked or stored is dropped.      *)
RxRead ==
  /\ rx.pc = "idle" /\ wire # <<>>
  /\ rx' \in {[rx EXCEPT !.pc = "put", !.uid = Head(wire)], rx}
  /\ wire' = Tail(wire)
  /\ UNCHANGED <<callVars, rpc_tx_q, rpc_rx_q, tx, reqs, failedTx>>

(* Blocks while rpc_rx_q is full.                                          *)
RxPut ==
  /\ rx.pc = "put"
  /\ Len(rpc_rx_q) < RPC_RX_QUEUE_SIZE
  /\ rpc_rx_q' = Append(rpc_rx_q, rx.uid)
  /\ rx' = [rx EXCEPT !.pc = "find"]
  /\ UNCHANGED <<callVars, rpc_tx_q, tx, linkVars, failedTx>>

(* Read the semaphore out of the table ...                                 *)
RxFind ==
  /\ rx.pc = "find"
  /\ \/ ~Listed(rx.uid) /\ rx' = [pc |-> "idle", uid |-> 0, sem |-> NULL]
     \/ \E i \in Entry :
          /\ IsFirst(i, rx.uid)
          /\ rx' = [rx EXCEPT !.pc = "post", !.sem = sync_rsp_table[i].sem]
  /\ UNCHANGED <<callVars, rpc_tx_q, rpc_rx_q, tx, linkVars, failedTx>>

(* ... and post it, although the caller may have destroyed it since: then  *)
(* the post is lost, or reaches what has been allocated in its place.      *)
RxPost ==
  /\ rx.pc = "post"
  /\ \/ sem' = Posted(rx.sem)
     \/ /\ \A i \in Entry : sync_rsp_table[i] # [uid |-> rx.uid, sem |-> rx.sem]
        /\ UNCHANGED sem
  /\ rx' = [pc |-> "idle", uid |-> 0, sem |-> NULL]
  /\ UNCHANGED <<uid, sync_rsp_table, pc, req, result, calls, gaveUp,
                 rpc_tx_q, rpc_rx_q, tx, linkVars, failedTx>>

-----------------------------------------------------------------------------
CallStep(c) ==
  \/ StoreUid(c) \/ FindEntry(c) \/ TableFull(c) \/ Claim(c) \/ QueueRequest(c)
  \/ Lookup(c) \/ LookupFails(c) \/ Wake(c) \/ Timeout(c) \/ Destroy(c)
  \/ ClearUid(c) \/ ClearSem(c) \/ Fetch(c)
TxStep == TxSend \/ TxFail \/ TxGone \/ TxPut \/ TxPost
RxStep == RxRead \/ RxPut \/ RxFind \/ RxPost

Next == \/ \E c \in Caller : LoadUid(c) \/ CallStep(c)
        \/ TxStep \/ RxStep \/ SlaveResponds \/ SlaveSilent

Spec == Init /\ [][Next]_vars

(* Tasks and threads are scheduled, and waits expire.  Nothing is assumed  *)
(* of the slave.                                                           *)
FairSpec == /\ Spec
            /\ \A c \in Caller : WF_vars(CallStep(c))
            /\ WF_vars(TxStep) /\ WF_vars(RxStep)

-----------------------------------------------------------------------------
(* Properties.                                                             *)

(* A woken caller never blocks on rpc_rx_q, although it waits there with   *)
(* no timeout: every semaphore posted and not yet taken, and every caller  *)
(* on its way to the queue, has a response in it.  (Lost wake-ups, posts   *)
(* to the wrong semaphore and responses taken by another caller would all  *)
(* break this balance.)                                                    *)
Fetching == {c \in Caller : /\ req[c].woken
                            /\ pc[c] \in {"destroy", "clear_uid", "clear_sem", "fetch"}}
Posting  == {c \in Caller : sem[c] = "full"}
InHand   == (IF tx = "post" THEN 1 ELSE 0)
              + (IF rx.pc \in {"find", "post"} THEN 1 ELSE 0)
NoEmptyFetch ==
  Cardinality(Fetching) + Cardinality(Posting) + InHand <= Len(rpc_rx_q)

(* Responses are conserved: those queued, in the hands of a thread, on the *)
(* link or still to come belong to a request in progress or to one that    *)
(* gave up, one each.  As nothing drains rpc_rx_q, a response in excess of *)
(* the requests in progress stays there for good, and so rpc_rx_q cannot   *)
(* fill up, and block the receive thread, before that many have given up.  *)
Outstanding ==
  Len(rpc_tx_q) + Len(reqs) + Len(wire) + Len(rpc_rx_q)
    + (IF tx = "put" THEN 1 ELSE 0) + (IF rx.pc = "put" THEN 1 ELSE 0)
Conserved == Outstanding <= Cardinality(InProgress) + gaveUp

(* While no two calls have overlapped, an entry in use is that of the call *)
(* in progress: no way out of a call leaks one and the table cannot fill   *)
(* up.  (Two tasks that race may claim the same entry, which is then lost  *)
(* to one of them.)                                                        *)
NoEntryLeak ==
  ~calls.overlap =>
    \A i \in Entry : sync_rsp_table[i].uid # 0 =>
      \E c \in Caller : /\ req[c].uid = sync_rsp_table[i].uid
                        /\ pc[c] \in {"queue", "lookup", "wait", "destroy", "clear_uid"}

(* rpc_core.c:43 says of the uid, "to link between requests and            *)
(* responses": but nothing compares the uids.  A caller is given the       *)
(* response to its own request only as long as no two calls have           *)
(* overlapped and none has given up or failed to be sent.                  *)
OwnUntilDisturbed ==
  ~calls.overlap /\ gaveUp = 0 /\ failedTx = {} =>
    \A c \in Caller : result[c].code = "RESP" => result[c].got = result[c].uid

(* Every synchronous request ends, also one that meets a race on the table *)
(* (then possibly in the assertion of hosted_destroy_semaphore): the waits *)
(* on the semaphore and on the response queue do.  The one wait that need  *)
(* not end is the one on rpc_tx_q, and only if the send path jams for good:*)
(* responses nobody came for fill rpc_rx_q, rpc_tx_thread waits to add one *)
(* it made up, and the requests behind it fill rpc_tx_q.  Nothing in the   *)
(* code empties rpc_rx_q but a caller that is woken.  (By Conserved that   *)
(* takes RPC_RX_QUEUE_SIZE + RPC_TX_QUEUE_SIZE + 1 requests, less those in *)
(* progress, that returned without a response.)                            *)
Jam == /\ tx = "put"
       /\ Len(rpc_rx_q) = RPC_RX_QUEUE_SIZE /\ Len(rpc_tx_q) = RPC_TX_QUEUE_SIZE
Jammed(c) == pc[c] = "queue" /\ Jam
CallEnds ==
  \A c \in Caller : pc[c] # "idle" ~> (pc[c] \in {"idle", "abort"} \/ []Jammed(c))

(* What requests take they give back: the types, the balance of the        *)
(* responses, and the table.                                               *)
Accounted == TypeOK /\ Conserved /\ NoEntryLeak
=============================================================================
