--------------------------- MODULE RpcCoreProofs ---------------------------
(***************************************************************************)
(* Proofs about synchronous requests in the vendored host stack, for any   *)
(* number of callers, sizes of the table and of the queues, number of      *)
(* uids, and any number of requests.                                       *)
(***************************************************************************)
EXTENDS RpcCore, TLAPS, SequenceTheorems, FiniteSetTheorems

USE DEF callVars, linkVars, vars

-----------------------------------------------------------------------------
(* Counting callers.                                                       *)

(* A set of callers that has another, but for one, and one that lacks one. *)
LEMMA Counting ==
  ASSUME NEW A \in SUBSET Caller, NEW B \in SUBSET Caller
  PROVE  /\ Cardinality(A) \in Nat /\ Cardinality(B) \in Nat
         /\ A \subseteq B => Cardinality(A) <= Cardinality(B)
         /\ \A x : A \subseteq B \union {x} => Cardinality(A) <= Cardinality(B) + 1
         /\ \A x \in B : A \subseteq B \ {x} => Cardinality(A) + 1 <= Cardinality(B)
<1>1. IsFiniteSet(Caller)
  BY RpcCoreAssumption
<1>2. /\ IsFiniteSet(A) /\ IsFiniteSet(B)
      /\ Cardinality(A) \in Nat /\ Cardinality(B) \in Nat
  BY <1>1, FS_Subset, FS_CardinalityType
<1>3. ASSUME A \subseteq B PROVE Cardinality(A) <= Cardinality(B)
  BY <1>2, <1>3, FS_Subset
<1>4. ASSUME NEW x, A \subseteq B \union {x} PROVE Cardinality(A) <= Cardinality(B) + 1
  <2>1. /\ IsFiniteSet(B \union {x})
        /\ Cardinality(B \union {x}) = IF x \in B THEN Cardinality(B) ELSE Cardinality(B) + 1
    BY <1>2, FS_AddElement
  <2>2. Cardinality(A) <= Cardinality(B \union {x})
    BY <1>4, <2>1, FS_Subset
  <2> QED
    BY <1>2, <2>1, <2>2
<1>5. ASSUME NEW x \in B, A \subseteq B \ {x} PROVE Cardinality(A) + 1 <= Cardinality(B)
  <2>1. IsFiniteSet(B \ {x}) /\ Cardinality(B \ {x}) = Cardinality(B) - 1
    BY <1>2, FS_RemoveElement
  <2>2. Cardinality(A) <= Cardinality(B \ {x})
    BY <1>5, <2>1, FS_Subset
  <2> QED
    BY <1>2, <2>1, <2>2
<1> QED
  BY <1>2, <1>3, <1>4, <1>5

-----------------------------------------------------------------------------
(* The inductive invariant.                                                *)

(* A caller is woken while it waits, and waits on a semaphore.             *)
Woken ==
  \A c \in Caller :
    /\ req[c].woken => pc[c] \in {"destroy", "clear_uid", "clear_sem", "fetch", "abort"}
    /\ pc[c] = "fetch" => req[c].woken
    /\ pc[c] = "wait" => req[c].sem # NULL
    /\ pc[c] \notin {"idle", "uid"} => req[c].uid # 0

(* Responses are owed only to callers that have queued their request.      *)
Asked == {c \in Caller : pc[c] \in {"lookup", "wait", "destroy", "clear_uid", "clear_sem",
                                     "fetch", "abort"}}
Owed  == Outstanding <= Cardinality(Asked) + gaveUp

(* While no two calls have overlapped there is one caller, and an entry in *)
(* use is its own.                                                         *)
OneCaller ==
  ~calls.overlap =>
    /\ \A c, d \in InProgress : c = d
    /\ \A i \in Entry : sync_rsp_table[i].uid # 0 =>
         \E c \in Caller : /\ pc[c] \in {"queue", "lookup", "wait", "destroy", "clear_uid"}
                           /\ req[c].entry = i
                           /\ sync_rsp_table[i] = [uid |-> req[c].uid, sem |-> c]

(* ... and while none has given up or failed to be sent, everything that   *)
(* is under way is that caller's.                                          *)
Undisturbed == ~calls.overlap /\ gaveUp = 0 /\ failedTx = {}
Awaited     == {req[c].uid : c \in Asked}
OwnOnly ==
  Undisturbed =>
    /\ tx = "idle"
    /\ \A k \in 1 .. Len(rpc_tx_q) : rpc_tx_q[k].uid \in Awaited
    /\ \A k \in 1 .. Len(reqs) : reqs[k] \in Awaited
    /\ \A k \in 1 .. Len(wire) : wire[k] \in Awaited
    /\ \A k \in 1 .. Len(rpc_rx_q) : rpc_rx_q[k] \in Awaited
    /\ rx.pc = "put" => rx.uid \in Awaited
    /\ \A c \in Caller : result[c].code = "RESP" => result[c].got = result[c].uid

CoreInv == TypeOK /\ Woken /\ NoEmptyFetch /\ Owed /\ OneCaller /\ OwnOnly

-----------------------------------------------------------------------------
(* Types.                                                                  *)

(* Posting keeps them.                                                     *)
LEMMA PostedTyped ==
  ASSUME NEW s, TypeOK
  PROVE  Posted(s) \in [Caller -> {"empty", "full", "dead"}]
  BY DEF Posted, TypeOK

(* The queues' steps.                                                      *)
LEMMA SeqTyped ==
  ASSUME NEW S, NEW q \in Seq(S), NEW e \in S
  PROVE  /\ Append(q, e) \in Seq(S) /\ Len(Append(q, e)) = Len(q) + 1 /\ Len(q) \in Nat
         /\ q # <<>> => /\ Head(q) \in S /\ Tail(q) \in Seq(S) /\ Len(Tail(q)) = Len(q) - 1
                        /\ Len(q) \in Nat \ {0}
  OBVIOUS

(* Every step of a caller keeps them ...                                   *)
LEMMA CallerTyped ==
  ASSUME TypeOK, NEW c \in Caller, LoadUid(c) \/ CallStep(c)
  PROVE  TypeOK'
<1> DEFINE Reqs == [uid: Uid, entry: Entry, sem: Sem, woken: BOOLEAN]
           Rest == /\ uid' \in Uid /\ sync_rsp_table' \in [Entry -> [uid: Uid, sem: Sem]]
                   /\ sem' \in [Caller -> {"empty", "full", "dead"}] /\ pc' \in [Caller -> PC]
                   /\ req' \in [Caller -> Reqs] /\ result' \in [Caller -> Result]
                   /\ rpc_tx_q' \in Seq([caller: Caller, uid: Uid])
                   /\ Len(rpc_tx_q') <= RPC_TX_QUEUE_SIZE
                   /\ rpc_rx_q' \in Seq(Uid) /\ Len(rpc_rx_q') <= RPC_RX_QUEUE_SIZE
                   /\ calls' \in [made: Nat, overlap: BOOLEAN] /\ gaveUp' \in Nat
<1>1. /\ uid \in Uid /\ sync_rsp_table \in [Entry -> [uid: Uid, sem: Sem]]
      /\ sem \in [Caller -> {"empty", "full", "dead"}] /\ pc \in [Caller -> PC]
      /\ req \in [Caller -> Reqs] /\ result \in [Caller -> Result]
      /\ rpc_tx_q \in Seq([caller: Caller, uid: Uid]) /\ Len(rpc_tx_q) <= RPC_TX_QUEUE_SIZE
      /\ rpc_rx_q \in Seq(Uid) /\ Len(rpc_rx_q) <= RPC_RX_QUEUE_SIZE
      /\ calls \in [made: Nat, overlap: BOOLEAN] /\ gaveUp \in Nat
  BY DEF TypeOK
<1>2. UNCHANGED <<tx, rx, reqs, wire, failedTx>>
  BY DEF CallStep, LoadUid, StoreUid, FindEntry, TableFull, Claim, QueueRequest, Lookup,
         LookupFails, Wake, Timeout, Destroy, ClearUid, ClearSem, Fetch
<1>3. SUFFICES Rest
  BY <1>2 DEF TypeOK
<1>4. /\ NoReq \in Reqs /\ NoResult \in Result /\ NULL \in Sem /\ Caller \subseteq Sem
      /\ 0 \in Uid /\ \A u \in Uid : NextUid(u) \in Uid
  <2>1. MAX_SYNC_RPC_TRANSACTIONS \in Nat \ {0} /\ UID_MAX \in Nat \ {0}
    BY RpcCoreAssumption
  <2> QED
    BY <2>1 DEF NoReq, NoResult, Result, Sem, Uid, Entry, NextUid
<1>5. ASSUME NEW p \in PC, Goto(c, p) PROVE pc' \in [Caller -> PC]
  BY <1>1, <1>5 DEF Goto
<1>6. ASSUME NEW r \in Result, Return(c, r)
      PROVE  /\ pc' \in [Caller -> PC] /\ req' \in [Caller -> Reqs]
             /\ result' \in [Caller -> Result]
  BY <1>1, <1>4, <1>6 DEF Return, Goto, PC
<1>7. req[c].uid \in Uid /\ req[c].entry \in Entry /\ gaveUp + 1 \in Nat
  BY <1>1
<1>8. CASE LoadUid(c)
  <2>1. calls' \in [made: Nat, overlap: BOOLEAN]
    <3>1. calls' = [made |-> calls.made + 1, overlap |-> calls.overlap \/ InProgress # {}]
      BY <1>8 DEF LoadUid
    <3>2. (calls.overlap \/ InProgress # {}) \in BOOLEAN /\ calls.made + 1 \in Nat
      BY <1>1
    <3> QED
      BY <3>1, <3>2
  <2>2. req' \in [Caller -> Reqs]
    BY <1>1, <1>8 DEF LoadUid
  <2>3. result' \in [Caller -> Result]
    BY <1>1, <1>4, <1>8 DEF LoadUid
  <2>4. pc' \in [Caller -> PC]
    BY <1>5, <1>8 DEF LoadUid, PC
  <2> QED
    BY <1>1, <1>8, <2>1, <2>2, <2>3, <2>4 DEF LoadUid
<1>9. CASE StoreUid(c)
  BY <1>1, <1>4, <1>7, <1>9 DEF StoreUid, Goto, PC
<1>10. CASE FindEntry(c)
  <2>1. PICK i \in Entry : req' = [req EXCEPT ![c].entry = i]
    BY <1>10 DEF FindEntry
  <2>2. req' \in [Caller -> Reqs]
    BY <1>1, <2>1, SMTT(60)
  <2>3. pc' \in [Caller -> PC]
    BY <1>5, <1>10 DEF FindEntry, PC
  <2> QED
    BY <1>1, <1>10, <2>2, <2>3 DEF FindEntry
<1>11. CASE TableFull(c)
  <2>1. [code |-> "NO_ENTRY", uid |-> req[c].uid, got |-> 0] \in Result
    BY <1>4, <1>7 DEF Result
  <2>2. sem' \in [Caller -> {"empty", "full", "dead"}]
    BY <1>1, <1>11 DEF TableFull
  <2> QED
    BY <1>1, <1>6, <1>7, <1>11, <2>1, <2>2 DEF TableFull
<1>12. CASE Claim(c)
  BY <1>1, <1>4, <1>7, <1>12 DEF Claim, Goto, PC
<1>13. CASE QueueRequest(c)
  <2>1. [caller |-> c, uid |-> req[c].uid] \in [caller: Caller, uid: Uid]
    BY <1>7
  <2>2. /\ rpc_tx_q' \in Seq([caller: Caller, uid: Uid]) /\ Len(rpc_tx_q') = Len(rpc_tx_q) + 1
        /\ Len(rpc_tx_q) \in Nat /\ Len(rpc_tx_q) < RPC_TX_QUEUE_SIZE
    BY <1>1, <1>13, <2>1, SeqTyped DEF QueueRequest
  <2>3. Len(rpc_tx_q') <= RPC_TX_QUEUE_SIZE
    BY <2>2, RpcCoreAssumption
  <2>4. pc' \in [Caller -> PC]
    BY <1>5, <1>13 DEF QueueRequest, PC
  <2> QED
    BY <1>1, <1>13, <2>2, <2>3, <2>4 DEF QueueRequest
<1>14. CASE Lookup(c)
  <2>1. PICK i \in Entry :
           /\ req' = [req EXCEPT ![c].entry = i, ![c].sem = sync_rsp_table[i].sem]
           /\ Goto(c, "abort") \/ Goto(c, "wait")
    BY <1>14 DEF Lookup
  <2>2. sync_rsp_table[i].sem \in Sem
    BY <1>1
  <2>3. req' \in [Caller -> Reqs]
    BY <1>1, <2>1, <2>2, ZenonT(60)
  <2>4. pc' \in [Caller -> PC]
    BY <1>5, <2>1 DEF PC
  <2> QED
    BY <1>1, <1>14, <2>3, <2>4 DEF Lookup
<1>15. CASE LookupFails(c)
  <2>1. [code |-> "NO_ENTRY", uid |-> req[c].uid, got |-> 0] \in Result
    BY <1>4, <1>7 DEF Result
  <2> QED
    BY <1>1, <1>6, <1>7, <1>15, <2>1 DEF LookupFails
<1>16. CASE Wake(c) \/ Timeout(c)
  <2>1. pc' \in [Caller -> PC]
    BY <1>5, <1>16 DEF Wake, Timeout, PC
  <2>2. \/ req' = [req EXCEPT ![c].woken = TRUE] \/ req' = req
    BY <1>16 DEF Wake, Timeout
  <2>3. req' \in [Caller -> Reqs]
    <3>1. CASE req' = [req EXCEPT ![c].woken = TRUE]
      <4>1. ASSUME NEW r \in Reqs PROVE [r EXCEPT !.woken = TRUE] \in Reqs
        OBVIOUS
      <4> HIDE DEF Reqs
      <4> QED
        BY <1>1, <3>1, <4>1
    <3> QED
      BY <1>1, <2>2, <3>1
  <2>4. \/ sem' = [sem EXCEPT ![req[c].sem] = "empty"] \/ sem' = sem
    BY <1>16 DEF Wake, Timeout
  <2>5. sem' \in [Caller -> {"empty", "full", "dead"}]
    BY <1>1, <2>4
  <2> QED
    BY <1>1, <1>16, <2>1, <2>3, <2>5 DEF Wake, Timeout
<1>17. CASE Destroy(c)
  BY <1>1, <1>17 DEF Destroy, Goto, PC
<1>18. CASE ClearUid(c)
  BY <1>1, <1>4, <1>18, SMTT(30) DEF ClearUid, Goto, PC
<1>19. CASE ClearSem(c)
  <2>1. [code |-> "TIMEOUT", uid |-> req[c].uid, got |-> 0] \in Result
    BY <1>4, <1>7 DEF Result
  <2>2. sync_rsp_table' \in [Entry -> [uid: Uid, sem: Sem]]
    BY <1>1, <1>4, <1>19 DEF ClearSem
  <2>3. pc' \in [Caller -> PC] /\ req' \in [Caller -> Reqs] /\ result' \in [Caller -> Result]
    BY <1>1, <1>5, <1>6, <1>19, <2>1 DEF ClearSem, PC
  <2>4. gaveUp' \in Nat
    BY <1>1, <1>7, <1>19 DEF ClearSem
  <2> QED
    BY <1>1, <1>19, <2>2, <2>3, <2>4 DEF ClearSem
<1>20. CASE Fetch(c)
  <2>1. /\ Head(rpc_rx_q) \in Uid /\ Tail(rpc_rx_q) \in Seq(Uid)
        /\ Len(Tail(rpc_rx_q)) <= RPC_RX_QUEUE_SIZE
    <3>1. rpc_rx_q # <<>> /\ RPC_RX_QUEUE_SIZE \in Nat
      BY <1>20, RpcCoreAssumption DEF Fetch
    <3> QED
      BY <1>1, <3>1
  <2>2. [code |-> "RESP", uid |-> req[c].uid, got |-> Head(rpc_rx_q)] \in Result
    BY <1>7, <2>1 DEF Result
  <2> QED
    BY <1>1, <1>6, <1>20, <2>1, <2>2 DEF Fetch
<1> QED
  BY <1>8, <1>9, <1>10, <1>11, <1>12, <1>13, <1>14, <1>15, <1>16, <1>17, <1>18, <1>19, <1>20
     DEF CallStep

(* ... and so does one of a thread or of the link.                         *)
LEMMA LinkTyped ==
  ASSUME TypeOK, TxStep \/ RxStep \/ SlaveResponds \/ SlaveSilent
  PROVE  TypeOK'
<1> DEFINE Msg  == [caller: Caller, uid: Uid]
           Rest == /\ sem' \in [Caller -> {"empty", "full", "dead"}]
                   /\ rpc_tx_q' \in Seq(Msg) /\ Len(rpc_tx_q') <= RPC_TX_QUEUE_SIZE
                   /\ rpc_rx_q' \in Seq(Uid) /\ Len(rpc_rx_q') <= RPC_RX_QUEUE_SIZE
                   /\ tx' \in {"idle", "put", "post"}
                   /\ rx' \in [pc: {"idle", "put", "find", "post"}, uid: Uid, sem: Sem]
                   /\ reqs' \in Seq(Uid) /\ wire' \in Seq(Uid) /\ failedTx' \subseteq Uid
<1>1. /\ sync_rsp_table \in [Entry -> [uid: Uid, sem: Sem]]
      /\ sem \in [Caller -> {"empty", "full", "dead"}]
      /\ rpc_tx_q \in Seq(Msg) /\ Len(rpc_tx_q) <= RPC_TX_QUEUE_SIZE
      /\ rpc_rx_q \in Seq(Uid) /\ Len(rpc_rx_q) <= RPC_RX_QUEUE_SIZE
      /\ tx \in {"idle", "put", "post"}
      /\ rx \in [pc: {"idle", "put", "find", "post"}, uid: Uid, sem: Sem]
      /\ reqs \in Seq(Uid) /\ wire \in Seq(Uid) /\ failedTx \subseteq Uid
  BY DEF TypeOK
<1>2. UNCHANGED <<uid, sync_rsp_table, pc, req, result, calls, gaveUp>>
  BY DEF TxStep, RxStep, TxSend, TxFail, TxGone, TxPut, TxPost, RxRead, RxPut, RxFind, RxPost,
         SlaveResponds, SlaveSilent
<1>3. SUFFICES Rest
  BY <1>2 DEF TypeOK
<1>4. /\ 0 \in Uid /\ NULL \in Sem /\ RPC_TX_QUEUE_SIZE \in Nat /\ RPC_RX_QUEUE_SIZE \in Nat
  BY RpcCoreAssumption DEF Uid, Sem
<1>5. ASSUME rpc_tx_q # <<>>
      PROVE  /\ Head(rpc_tx_q) \in Msg /\ Tail(rpc_tx_q) \in Seq(Msg)
             /\ Len(Tail(rpc_tx_q)) <= RPC_TX_QUEUE_SIZE /\ Head(rpc_tx_q).uid \in Uid
  <2> HIDE DEF Msg
  <2>1. /\ Head(rpc_tx_q) \in Msg /\ Tail(rpc_tx_q) \in Seq(Msg)
        /\ Len(Tail(rpc_tx_q)) <= RPC_TX_QUEUE_SIZE
    BY <1>1, <1>4, <1>5
  <2> QED
    BY <2>1 DEF Msg
<1>6. CASE TxSend
  <2>1. reqs' \in Seq(Uid)
    BY <1>1, <1>5, <1>6 DEF TxSend
  <2> QED
    BY <1>1, <1>5, <1>6, <2>1 DEF TxSend
<1>7. CASE TxFail \/ TxGone
  BY <1>1, <1>5, <1>7 DEF TxFail, TxGone
<1>8. CASE TxPut
  <2>1. rpc_rx_q' \in Seq(Uid) /\ Len(rpc_rx_q') <= RPC_RX_QUEUE_SIZE
    BY <1>1, <1>4, <1>8 DEF TxPut
  <2> QED
    BY <1>1, <1>8, <2>1 DEF TxPut
<1>9. CASE TxPost
  BY <1>1, <1>9, PostedTyped DEF TxPost
<1>10. CASE RxRead
  <2>1. Head(wire) \in Uid /\ Tail(wire) \in Seq(Uid)
    BY <1>1, <1>10 DEF RxRead
  <2> QED
    BY <1>1, <1>10, <2>1 DEF RxRead
<1>11. CASE RxPut
  <2>1. rpc_rx_q' \in Seq(Uid) /\ Len(rpc_rx_q') <= RPC_RX_QUEUE_SIZE
    BY <1>1, <1>4, <1>11 DEF RxPut
  <2> QED
    BY <1>1, <1>11, <2>1 DEF RxPut
<1>12. CASE RxFind
  <2>1. CASE rx' = [pc |-> "idle", uid |-> 0, sem |-> NULL]
    BY <1>1, <1>4, <1>12, <2>1 DEF RxFind
  <2>2. CASE \E i \in Entry : rx' = [rx EXCEPT !.pc = "post", !.sem = sync_rsp_table[i].sem]
    <3>1. PICK i \in Entry : rx' = [rx EXCEPT !.pc = "post", !.sem = sync_rsp_table[i].sem]
      BY <2>2
    <3>2. sync_rsp_table[i].sem \in Sem
      BY <1>1
    <3> QED
      BY <1>1, <1>12, <3>1, <3>2 DEF RxFind
  <2> QED
    BY <1>12, <2>1, <2>2 DEF RxFind
<1>13. CASE RxPost
  BY <1>1, <1>4, <1>13, PostedTyped DEF RxPost
<1>14. CASE SlaveResponds \/ SlaveSilent
  <2>1. reqs # <<>> /\ (wire' = wire \/ wire' = Append(wire, Head(reqs))) /\ reqs' = Tail(reqs)
    BY <1>14 DEF SlaveResponds, SlaveSilent
  <2>2. Head(reqs) \in Uid /\ Tail(reqs) \in Seq(Uid)
    BY <1>1, <2>1, SeqTyped, Zenon
  <2>3. reqs' \in Seq(Uid)
    BY <2>1, <2>2
  <2>4. ASSUME wire' = Append(wire, Head(reqs)) PROVE wire' \in Seq(Uid)
    BY <1>1, <2>2, <2>4, SeqTyped
  <2> QED
    BY <1>1, <1>14, <2>1, <2>3, <2>4 DEF SlaveResponds, SlaveSilent
<1> QED
  BY <1>6, <1>7, <1>8, <1>9, <1>10, <1>11, <1>12, <1>13, <1>14 DEF TxStep, RxStep

-----------------------------------------------------------------------------
(* Who does what.                                                          *)

(* A caller's step is its own affair ...                                   *)
LEMMA CallerFrame ==
  ASSUME TypeOK, NEW c \in Caller, LoadUid(c) \/ CallStep(c)
  PROVE  /\ UNCHANGED <<tx, rx, reqs, wire, failedTx>>
         /\ \A d \in Caller \ {c} :
              /\ pc'[d] = pc[d] /\ req'[d] = req[d] /\ result'[d] = result[d]
         /\ pc'[c] = "idle" \/ result'[c] = result[c] \/ result'[c] = NoResult
<1>1. UNCHANGED <<tx, rx, reqs, wire, failedTx>>
  BY DEF CallStep, LoadUid, StoreUid, FindEntry, TableFull, Claim, QueueRequest, Lookup,
         LookupFails, Wake, Timeout, Destroy, ClearUid, ClearSem, Fetch
<1>2. pc \in [Caller -> PC] /\ DOMAIN req = Caller /\ DOMAIN result = Caller
  BY DEF TypeOK
<1>3. ASSUME NEW p, Goto(c, p) PROVE pc'[c] = p /\ \A d \in Caller \ {c} : pc'[d] = pc[d]
  BY <1>2, <1>3 DEF Goto
<1>4. ASSUME NEW r, Return(c, r)
      PROVE  /\ pc'[c] = "idle"
             /\ \A d \in Caller \ {c} :
                  /\ pc'[d] = pc[d] /\ req'[d] = req[d] /\ result'[d] = result[d]
  BY <1>2, <1>4 DEF Return, Goto
<1>5. CASE LoadUid(c)
  BY <1>1, <1>2, <1>3, <1>5 DEF LoadUid
<1>6. CASE StoreUid(c) \/ FindEntry(c) \/ Claim(c) \/ QueueRequest(c) \/ Wake(c) \/ Timeout(c)
             \/ ClearUid(c)
  BY <1>1, <1>2, <1>3, <1>6 DEF StoreUid, FindEntry, Claim, QueueRequest, Wake, Timeout,
                                ClearUid
<1>7. CASE Lookup(c) \/ Destroy(c)
  BY <1>1, <1>2, <1>3, <1>7 DEF Lookup, Destroy
<1>8. CASE TableFull(c) \/ LookupFails(c) \/ Fetch(c)
  BY <1>1, <1>4, <1>8 DEF TableFull, LookupFails, Fetch
<1>9. CASE ClearSem(c)
  BY <1>1, <1>3, <1>4, <1>9 DEF ClearSem
<1> QED
  BY <1>5, <1>6, <1>7, <1>8, <1>9 DEF CallStep

(* ... and the threads leave the callers alone.                            *)
LEMMA LinkFrame ==
  ASSUME TxStep \/ RxStep \/ SlaveResponds \/ SlaveSilent
  PROVE  UNCHANGED <<uid, sync_rsp_table, pc, req, result, calls, gaveUp>>
  BY DEF TxStep, RxStep, TxSend, TxFail, TxGone, TxPut, TxPost, RxRead, RxPut, RxFind, RxPost,
         SlaveResponds, SlaveSilent

(* What a caller has said stays said.                                      *)
LEMMA WokenKept ==
  ASSUME TypeOK, Woken, NEW c \in Caller, LoadUid(c) \/ CallStep(c)
  PROVE  Woken'
<1> DEFINE W(d, p, r) == /\ r.woken => p \in {"destroy", "clear_uid", "clear_sem", "fetch",
                                              "abort"}
                         /\ p = "fetch" => r.woken
                         /\ p = "wait" => r.sem # NULL
                         /\ p \notin {"idle", "uid"} => r.uid # 0
<1>1. /\ pc \in [Caller -> PC] /\ uid \in Uid
      /\ req \in [Caller -> [uid: Uid, entry: Entry, sem: Sem, woken: BOOLEAN]]
  BY DEF TypeOK
<1>2. \A d \in Caller : W(d, pc[d], req[d])
  BY DEF Woken
<1>3. SUFFICES W(c, pc'[c], req'[c])
  BY <1>2, CallerFrame DEF Woken
<1>4. \A u \in Uid : NextUid(u) \in Uid /\ NextUid(u) # 0
  BY RpcCoreAssumption DEF Uid, NextUid
<1>5. ASSUME NEW p, Goto(c, p) PROVE pc'[c] = p
  BY <1>1, <1>5 DEF Goto
<1>6. ASSUME NEW r, Return(c, r) PROVE pc'[c] = "idle" /\ req'[c] = NoReq
  BY <1>1, <1>6 DEF Return, Goto
<1>7. W(c, pc[c], req[c])
  BY <1>2
<1>8. CASE LoadUid(c)
  <2>1. pc[c] = "idle" /\ pc'[c] = "uid" /\ req'[c] = [req[c] EXCEPT !.uid = uid]
    BY <1>1, <1>5, <1>8 DEF LoadUid
  <2>2. req'[c].woken = req[c].woken
    BY <1>1, <2>1
  <2> QED
    BY <1>7, <2>1, <2>2
<1>9. CASE StoreUid(c)
  <2>1. /\ pc[c] = "uid" /\ pc'[c] = "find"
        /\ req'[c] = [req[c] EXCEPT !.uid = NextUid(req[c].uid)]
    BY <1>1, <1>5, <1>9 DEF StoreUid
  <2>2. req'[c].woken = req[c].woken /\ req'[c].uid = NextUid(req[c].uid) /\ req[c].uid \in Uid
    BY <1>1, <2>1
  <2> QED
    BY <1>4, <1>7, <2>1, <2>2
<1>10. CASE FindEntry(c)
  <2>1. PICK i \in Entry : req' = [req EXCEPT ![c].entry = i]
    BY <1>10 DEF FindEntry
  <2>2. pc[c] = "find" /\ pc'[c] = "claim"
    BY <1>5, <1>10 DEF FindEntry
  <2>3. req'[c].woken = req[c].woken /\ req'[c].uid = req[c].uid
    BY <1>1, <2>1
  <2> QED
    BY <1>7, <2>2, <2>3
<1>11. CASE Claim(c) \/ QueueRequest(c)
  BY <1>5, <1>7, <1>11 DEF Claim, QueueRequest
<1>12. CASE Lookup(c)
  <2>1. PICK i \in Entry :
          /\ req' = [req EXCEPT ![c].entry = i, ![c].sem = sync_rsp_table[i].sem]
          /\ Goto(c, IF sync_rsp_table[i].sem = NULL THEN "abort" ELSE "wait")
    BY <1>12 DEF Lookup
  <2>2. /\ pc[c] = "lookup" /\ pc'[c] \in {"abort", "wait"}
        /\ pc'[c] = "wait" => sync_rsp_table[i].sem # NULL
    BY <1>5, <1>12, <2>1 DEF Lookup
  <2>3. /\ req'[c].woken = req[c].woken /\ req'[c].uid = req[c].uid
        /\ req'[c].sem = sync_rsp_table[i].sem
    BY <1>1, <2>1
  <2> QED
    BY <1>7, <2>2, <2>3
<1>13. CASE Wake(c)
  <2>1. pc[c] = "wait" /\ pc'[c] = "destroy" /\ req'[c] = [req[c] EXCEPT !.woken = TRUE]
    BY <1>1, <1>5, <1>13 DEF Wake
  <2>2. req'[c].uid = req[c].uid
    BY <1>1, <2>1
  <2> QED
    BY <1>7, <2>1, <2>2
<1>14. CASE Timeout(c) \/ ClearUid(c)
  BY <1>5, <1>7, <1>14 DEF Timeout, ClearUid
<1>15. CASE Destroy(c)
  BY <1>5, <1>7, <1>15 DEF Destroy
<1>16. CASE ClearSem(c)
  BY <1>5, <1>6, <1>7, <1>16 DEF ClearSem, NoReq
<1>17. CASE TableFull(c) \/ LookupFails(c) \/ Fetch(c)
  BY <1>6, <1>17 DEF TableFull, LookupFails, Fetch, NoReq
<1> QED
  BY <1>8, <1>9, <1>10, <1>11, <1>12, <1>13, <1>14, <1>15, <1>16, <1>17 DEF CallStep

-----------------------------------------------------------------------------
(* No woken caller finds the queue empty.                                  *)

(* The numbers of the balance.                                             *)
LEMMA Balance ==
  ASSUME TypeOK
  PROVE  /\ Fetching \in SUBSET Caller /\ Posting \in SUBSET Caller /\ InHand \in Nat
         /\ Cardinality(Fetching) \in Nat /\ Cardinality(Posting) \in Nat
         /\ Len(rpc_rx_q) \in Nat /\ Len(rpc_tx_q) \in Nat /\ Len(reqs) \in Nat
         /\ Len(wire) \in Nat
<1>1. Fetching \in SUBSET Caller /\ Posting \in SUBSET Caller
  BY DEF Fetching, Posting
<1>2. Cardinality(Fetching) \in Nat /\ Cardinality(Posting) \in Nat
  BY <1>1, Counting
<1>3. InHand \in Nat
  BY DEF InHand
<1>4. rpc_rx_q \in Seq(Uid) /\ reqs \in Seq(Uid) /\ wire \in Seq(Uid)
  BY DEF TypeOK
<1>5. rpc_tx_q \in Seq([caller: Caller, uid: Uid])
  BY DEF TypeOK
<1>6. Len(rpc_rx_q) \in Nat /\ Len(rpc_tx_q) \in Nat /\ Len(reqs) \in Nat /\ Len(wire) \in Nat
  BY <1>4, <1>5, LenProperties
<1> QED
  BY <1>1, <1>2, <1>3, <1>6

(* A caller's step keeps it: waking moves one from those posted to those   *)
(* on their way, and fetching takes one of each.                           *)
LEMMA CallerBalance ==
  ASSUME TypeOK, TypeOK', Woken, Woken', NoEmptyFetch,
         NEW c \in Caller, LoadUid(c) \/ CallStep(c)
  PROVE  NoEmptyFetch'
<1>1. /\ pc \in [Caller -> PC] /\ sem \in [Caller -> {"empty", "full", "dead"}]
      /\ req \in [Caller -> [uid: Uid, entry: Entry, sem: Sem, woken: BOOLEAN]]
  BY DEF TypeOK
<1>2. /\ Cardinality(Fetching) \in Nat /\ Cardinality(Posting) \in Nat /\ InHand \in Nat
      /\ Cardinality(Fetching)' \in Nat /\ Cardinality(Posting)' \in Nat
      /\ Fetching \in SUBSET Caller /\ Posting \in SUBSET Caller
      /\ Fetching' \in SUBSET Caller /\ Posting' \in SUBSET Caller
      /\ Len(rpc_rx_q) \in Nat
  <2>1. Fetching' \in SUBSET Caller /\ Posting' \in SUBSET Caller
    BY DEF Fetching, Posting
  <2> QED
    BY <2>1, Balance, Counting
<1>3. InHand' = InHand
  BY CallerFrame DEF InHand
<1>4. /\ \A d \in Caller \ {c} : d \in Fetching' <=> d \in Fetching
      /\ c \in Fetching => /\ req[c].woken
                           /\ pc[c] \in {"destroy", "clear_uid", "clear_sem", "fetch"}
      /\ c \in Fetching' => /\ req'[c].woken
                            /\ pc'[c] \in {"destroy", "clear_uid", "clear_sem", "fetch"}
  BY CallerFrame DEF Fetching
<1>5. ASSUME NEW p, Goto(c, p) PROVE pc'[c] = p
  BY <1>1, <1>5 DEF Goto
<1>6. ASSUME NEW r, Return(c, r) PROVE pc'[c] = "idle"
  BY <1>1, <1>6 DEF Return, Goto
<1>7. ASSUME Fetching' \subseteq Fetching, Posting' \subseteq Posting, UNCHANGED rpc_rx_q
      PROVE  NoEmptyFetch'
  <2>1. /\ Cardinality(Fetching') <= Cardinality(Fetching)
        /\ Cardinality(Posting') <= Cardinality(Posting)
    BY <1>2, <1>7, Counting
  <2> QED
    BY <1>2, <1>3, <1>7, <2>1 DEF NoEmptyFetch
<1>8. ASSUME UNCHANGED sem \/ \E s : \E v \in {"empty", "dead"} : sem' = [sem EXCEPT ![s] = v]
      PROVE  Posting' \subseteq Posting
  BY <1>1, <1>8 DEF Posting
<1>9. CASE LoadUid(c) \/ StoreUid(c) \/ FindEntry(c) \/ Claim(c) \/ QueueRequest(c)
  <2>1. pc'[c] \in {"uid", "find", "claim", "queue", "lookup"} /\ UNCHANGED rpc_rx_q
    BY <1>5, <1>9 DEF LoadUid, StoreUid, FindEntry, Claim, QueueRequest
  <2>2. UNCHANGED sem \/ \E s : \E v \in {"empty", "dead"} : sem' = [sem EXCEPT ![s] = v]
    BY <1>9 DEF LoadUid, StoreUid, FindEntry, Claim, QueueRequest
  <2> QED
    BY <1>2, <1>4, <1>7, <1>8, <2>1, <2>2
<1>10. CASE Lookup(c) \/ TableFull(c) \/ LookupFails(c)
  <2>1. pc'[c] \in {"wait", "abort", "idle"} /\ UNCHANGED rpc_rx_q
    BY <1>5, <1>6, <1>10 DEF Lookup, TableFull, LookupFails
  <2>2. UNCHANGED sem \/ \E s : \E v \in {"empty", "dead"} : sem' = [sem EXCEPT ![s] = v]
    BY <1>10 DEF Lookup, TableFull, LookupFails
  <2> QED
    BY <1>2, <1>4, <1>7, <1>8, <2>1, <2>2
<1>11. CASE Timeout(c)
  <2>1. pc[c] = "wait" /\ req'[c] = req[c] /\ UNCHANGED <<rpc_rx_q, sem>>
    BY <1>11 DEF Timeout
  <2>2. ~req[c].woken
    BY <2>1 DEF Woken
  <2> QED
    BY <1>2, <1>4, <1>7, <1>8, <2>1, <2>2
<1>12. CASE Destroy(c) \/ ClearUid(c)
  <2>1. pc[c] \in {"destroy", "clear_uid"} /\ req'[c] = req[c] /\ UNCHANGED rpc_rx_q
    BY <1>12 DEF Destroy, ClearUid
  <2>2. UNCHANGED sem \/ \E s : \E v \in {"empty", "dead"} : sem' = [sem EXCEPT ![s] = v]
    BY <1>12 DEF Destroy, ClearUid
  <2>3. c \in Fetching' => c \in Fetching
    BY <1>4, <2>1 DEF Fetching
  <2> QED
    BY <1>2, <1>4, <1>7, <1>8, <2>1, <2>2, <2>3
<1>13. CASE ClearSem(c)
  <2>1. pc[c] = "clear_sem" /\ UNCHANGED <<rpc_rx_q, sem>>
    BY <1>13 DEF ClearSem
  <2>2. req[c].woken \/ pc'[c] = "idle"
    BY <1>6, <1>13 DEF ClearSem
  <2>3. c \in Fetching' => c \in Fetching
    BY <1>4, <2>1, <2>2 DEF Fetching
  <2> QED
    BY <1>2, <1>4, <1>7, <1>8, <2>1, <2>3
<1>14. CASE Wake(c)
  <2> DEFINE s == req[c].sem
  <2>1. /\ pc[c] = "wait" /\ sem[s] = "full" /\ sem' = [sem EXCEPT ![s] = "empty"]
        /\ UNCHANGED rpc_rx_q
    BY <1>14 DEF Wake
  <2>2. s \in Caller
    BY <1>1, <2>1 DEF Woken, Sem
  <2>3. s \in Posting /\ Posting' \subseteq Posting \ {s}
    BY <1>1, <2>1, <2>2 DEF Posting
  <2>4. Fetching' \subseteq Fetching \union {c}
    BY <1>2, <1>4
  <2>5. /\ Cardinality(Fetching') <= Cardinality(Fetching) + 1
        /\ Cardinality(Posting') + 1 <= Cardinality(Posting)
    BY <1>2, <2>3, <2>4, Counting
  <2> QED
    BY <1>2, <1>3, <2>1, <2>5 DEF NoEmptyFetch
<1>15. CASE Fetch(c)
  <2>1. /\ pc[c] = "fetch" /\ rpc_rx_q # <<>> /\ rpc_rx_q' = Tail(rpc_rx_q)
        /\ UNCHANGED sem /\ pc'[c] = "idle"
    BY <1>6, <1>15 DEF Fetch
  <2>2. c \in Fetching
    BY <2>1 DEF Woken, Fetching
  <2>3. Fetching' \subseteq Fetching \ {c}
    BY <1>2, <1>4, <2>1
  <2>4. Posting' \subseteq Posting
    BY <1>8, <2>1
  <2>5. /\ Cardinality(Fetching') + 1 <= Cardinality(Fetching)
        /\ Cardinality(Posting') <= Cardinality(Posting)
    BY <1>2, <2>2, <2>3, <2>4, Counting
  <2>6. Len(rpc_rx_q') = Len(rpc_rx_q) - 1
    <3>1. rpc_rx_q \in Seq(Uid)
      BY DEF TypeOK
    <3> QED
      BY <2>1, <3>1
  <2> QED
    BY <1>2, <1>3, <2>5, <2>6 DEF NoEmptyFetch
<1> QED
  BY <1>9, <1>10, <1>11, <1>12, <1>13, <1>14, <1>15 DEF CallStep

(* One of a thread: a response is queued before its semaphore is posted,   *)
(* and posted once.                                                        *)
LEMMA LinkBalance ==
  ASSUME TypeOK, NoEmptyFetch, TxStep \/ RxStep \/ SlaveResponds \/ SlaveSilent
  PROVE  NoEmptyFetch'
<1>1. /\ sem \in [Caller -> {"empty", "full", "dead"}] /\ rpc_rx_q \in Seq(Uid)
      /\ rx \in [pc: {"idle", "put", "find", "post"}, uid: Uid, sem: Sem]
  BY DEF TypeOK
<1>2. /\ Cardinality(Fetching) \in Nat /\ Cardinality(Posting) \in Nat /\ InHand \in Nat
      /\ Cardinality(Posting') \in Nat /\ Len(rpc_rx_q) \in Nat
      /\ Posting \in SUBSET Caller /\ Posting' \in SUBSET Caller
  <2>1. Posting' \in SUBSET Caller
    BY DEF Posting
  <2> QED
    BY <2>1, Balance, Counting
<1>3. Fetching' = Fetching
  BY LinkFrame DEF Fetching
<1>4. ASSUME UNCHANGED sem PROVE Posting' = Posting
  BY <1>4 DEF Posting
<1>5. ASSUME NEW s, sem' = Posted(s) \/ UNCHANGED sem
      PROVE  Cardinality(Posting') <= Cardinality(Posting) + 1
  <2>1. Posting' \subseteq Posting \union {s}
    BY <1>1, <1>5 DEF Posting, Posted
  <2> QED
    BY <1>2, <2>1, Counting
<1>6. ASSUME NEW q \in Nat, Len(rpc_rx_q') = Len(rpc_rx_q) + q, InHand' <= InHand + q,
             InHand' \in Nat, UNCHANGED sem
      PROVE  NoEmptyFetch'
  BY <1>2, <1>3, <1>4, <1>6 DEF NoEmptyFetch
<1>7. CASE TxSend \/ TxFail \/ TxGone \/ SlaveResponds \/ SlaveSilent
  <2>1. UNCHANGED <<rpc_rx_q, sem, rx>> /\ (tx' = tx \/ (tx = "idle" /\ tx' \in {"put", "idle"}))
    <3>1. CASE TxSend \/ TxGone
      BY <3>1 DEF TxSend, TxGone
    <3>2. CASE TxFail
      BY <3>2 DEF TxFail
    <3>3. CASE SlaveResponds \/ SlaveSilent
      BY <3>3 DEF SlaveResponds, SlaveSilent
    <3> QED
      BY <1>7, <3>1, <3>2, <3>3
  <2>2. InHand' = InHand
    BY <2>1 DEF InHand
  <2>3. Len(rpc_rx_q') = Len(rpc_rx_q) + 0 /\ UNCHANGED sem
    BY <1>2, <2>1
  <2> QED
    BY <1>2, <1>6, <2>2, <2>3
<1>8. CASE RxRead \/ RxFind
  <2>1. /\ UNCHANGED <<rpc_rx_q, sem, tx>>
        /\ \/ rx.pc = "idle" /\ rx'.pc \in {"idle", "put"}
           \/ rx.pc = "find"
    BY <1>1, <1>8 DEF RxRead, RxFind
  <2>2. InHand' <= InHand /\ InHand' \in Nat
    BY <2>1 DEF InHand
  <2>3. Len(rpc_rx_q') = Len(rpc_rx_q) + 0 /\ UNCHANGED sem
    BY <1>2, <2>1
  <2> QED
    BY <1>2, <1>6, <2>2, <2>3
<1>9. CASE TxPut \/ RxPut
  <2>1. /\ UNCHANGED sem /\ \E u \in Uid : rpc_rx_q' = Append(rpc_rx_q, u)
        /\ \/ tx = "put" /\ tx' = "post" /\ rx' = rx
           \/ rx.pc = "put" /\ rx'.pc = "find" /\ tx' = tx
    <3>1. CASE TxPut
      <4>1. 0 \in Uid
        BY RpcCoreAssumption DEF Uid
      <4> QED
        BY <3>1, <4>1 DEF TxPut
    <3>2. CASE RxPut
      <4>1. rx.uid \in Uid /\ rx'.pc = "find"
        BY <1>1, <3>2 DEF RxPut
      <4> QED
        BY <3>2, <4>1 DEF RxPut
    <3> QED
      BY <1>9, <3>1, <3>2
  <2>2. InHand' <= InHand + 1 /\ InHand' \in Nat
    BY <2>1 DEF InHand
  <2>3. Len(rpc_rx_q') = Len(rpc_rx_q) + 1
    BY <1>1, <2>1
  <2> QED
    BY <1>6, <2>1, <2>2, <2>3
<1>10. CASE TxPost \/ RxPost
  <2>1. /\ UNCHANGED rpc_rx_q /\ \E s : sem' = Posted(s) \/ UNCHANGED sem
        /\ \/ tx = "post" /\ tx' = "idle" /\ rx' = rx
           \/ rx.pc = "post" /\ rx'.pc = "idle" /\ tx' = tx
    BY <1>1, <1>10 DEF TxPost, RxPost
  <2>2. Cardinality(Posting') <= Cardinality(Posting) + 1
    BY <1>5, <2>1
  <2>3. InHand' + 1 = InHand /\ InHand' \in Nat
    BY <2>1 DEF InHand
  <2>4. UNCHANGED rpc_rx_q
    BY <2>1
  <2>5. Cardinality(Fetching) + Cardinality(Posting') + InHand' <= Len(rpc_rx_q)
    <3>1. ASSUME NEW f \in Nat, NEW p \in Nat, NEW p1 \in Nat, NEW h \in Nat, NEW h1 \in Nat,
                 NEW l \in Nat, f + p + h <= l, p1 <= p + 1, h1 + 1 = h
          PROVE  f + p1 + h1 <= l
      BY <3>1
    <3>2. Cardinality(Fetching) + Cardinality(Posting) + InHand <= Len(rpc_rx_q)
      BY DEF NoEmptyFetch
    <3> QED
      BY <1>2, <2>2, <2>3, <3>1, <3>2
  <2> QED
    BY <1>3, <2>4, <2>5 DEF NoEmptyFetch
<1> QED
  BY <1>7, <1>8, <1>9, <1>10 DEF TxStep, RxStep

-----------------------------------------------------------------------------
(* No response that nobody asked for.                                      *)

(* Its parts are numbers.                                                  *)
LEMMA OwedTypes ==
  ASSUME TypeOK
  PROVE  /\ Asked \in SUBSET Caller /\ InProgress \in SUBSET Caller
         /\ Cardinality(Asked) \in Nat /\ Cardinality(InProgress) \in Nat
         /\ gaveUp \in Nat /\ Outstanding \in Nat
<1>1. Asked \in SUBSET Caller /\ InProgress \in SUBSET Caller
  BY DEF Asked, InProgress
<1>2. Cardinality(Asked) \in Nat /\ Cardinality(InProgress) \in Nat
  BY <1>1, Counting
<1>3. gaveUp \in Nat
  BY DEF TypeOK
<1>4. Outstanding \in Nat
  BY Balance DEF Outstanding
<1> QED
  BY <1>1, <1>2, <1>3, <1>4

(* A thread passes on at most what it has taken ...                        *)
LEMMA LinkOwes ==
  ASSUME TypeOK, Owed, TxStep \/ RxStep \/ SlaveResponds \/ SlaveSilent
  PROVE  Owed'
<1> DEFINE Lens(a, b, c, d, t, r) == a + b + c + d + (IF t = "put" THEN 1 ELSE 0)
                                       + (IF r = "put" THEN 1 ELSE 0)
           Take(q) == Len(q) - 1
<1>1. /\ rpc_rx_q \in Seq(Uid) /\ reqs \in Seq(Uid) /\ wire \in Seq(Uid)
      /\ rpc_tx_q \in Seq([caller: Caller, uid: Uid])
      /\ rx \in [pc: {"idle", "put", "find", "post"}, uid: Uid, sem: Sem]
      /\ tx \in {"idle", "put", "post"}
  BY DEF TypeOK
<1>2. Asked' = Asked /\ gaveUp' = gaveUp
  BY LinkFrame DEF Asked
<1>3. /\ Len(rpc_rx_q) \in Nat /\ Len(rpc_tx_q) \in Nat /\ Len(reqs) \in Nat
      /\ Len(wire) \in Nat
  BY Balance
<1>4. SUFFICES Outstanding' <= Outstanding
  <2>1. Outstanding' \in Int
    <3>1. TypeOK'
      BY LinkTyped
    <3>2. /\ Len(rpc_rx_q') \in Nat /\ Len(rpc_tx_q') \in Nat /\ Len(reqs') \in Nat
          /\ Len(wire') \in Nat
      <4>1. /\ rpc_rx_q' \in Seq(Uid) /\ reqs' \in Seq(Uid) /\ wire' \in Seq(Uid)
            /\ rpc_tx_q' \in Seq([caller: Caller, uid: Uid])
        BY <3>1 DEF TypeOK
      <4> QED
        BY <4>1, LenProperties
    <3> QED
      BY <3>2 DEF Outstanding
  <2> QED
    BY <1>2, <2>1, OwedTypes DEF Owed
<1>5. /\ Outstanding = Lens(Len(rpc_tx_q), Len(reqs), Len(wire), Len(rpc_rx_q), tx, rx.pc)
      /\ Outstanding' = Lens(Len(rpc_tx_q'), Len(reqs'), Len(wire'), Len(rpc_rx_q'), tx', rx'.pc)
  BY DEF Outstanding
<1>6. CASE TxSend \/ TxFail \/ TxGone
  <2>1. /\ rpc_tx_q # <<>> /\ rpc_tx_q' = Tail(rpc_tx_q) /\ UNCHANGED <<wire, rpc_rx_q, rx>>
    BY <1>6 DEF TxSend, TxFail, TxGone
  <2>2. Len(rpc_tx_q') = Take(rpc_tx_q)
    BY <1>1, <2>1
  <2>3. CASE TxSend
    <3>1. reqs' = Append(reqs, Head(rpc_tx_q).uid) /\ tx' = tx
      BY <2>3 DEF TxSend
    <3>2. Len(reqs') = Len(reqs) + 1
      <4>1. Head(rpc_tx_q) \in [caller: Caller, uid: Uid]
        BY <1>1, <2>1, HeadTailProperties, Zenon
      <4> QED
        BY <1>1, <3>1, <4>1
    <3> QED
      BY <1>3, <1>5, <2>1, <2>2, <3>1, <3>2
  <2>4. CASE TxFail
    <3>1. tx = "idle" /\ reqs' = reqs
      BY <2>4 DEF TxFail
    <3> QED
      BY <1>3, <1>5, <2>1, <2>2, <3>1
  <2>5. CASE TxGone
    <3>1. tx' = tx /\ reqs' = reqs
      BY <2>5 DEF TxGone
    <3> QED
      BY <1>3, <1>5, <2>1, <2>2, <3>1
  <2> QED
    BY <1>6, <2>3, <2>4, <2>5
<1>7. CASE TxPut
  <2>1. /\ tx = "put" /\ tx' = "post" /\ rpc_rx_q' = Append(rpc_rx_q, 0)
        /\ UNCHANGED <<rpc_tx_q, reqs, wire, rx>>
    BY <1>7 DEF TxPut
  <2>2. Len(rpc_rx_q') = Len(rpc_rx_q) + 1
    BY <1>1, <2>1
  <2> QED
    BY <1>3, <1>5, <2>1, <2>2
<1>8. CASE TxPost \/ RxFind \/ RxPost
  <2>1. UNCHANGED <<rpc_tx_q, reqs, wire, rpc_rx_q>>
    BY <1>8 DEF TxPost, RxFind, RxPost
  <2>2. tx' = tx \/ tx' = "idle"
    BY <1>8 DEF TxPost, RxFind, RxPost
  <2>3. rx' = rx \/ rx'.pc # "put"
    <3>1. CASE TxPost
      BY <3>1 DEF TxPost
    <3>2. CASE RxFind
      <4>1. CASE rx' = [pc |-> "idle", uid |-> 0, sem |-> NULL]
        BY <4>1
      <4>2. ASSUME NEW i \in Entry, rx' = [rx EXCEPT !.pc = "post", !.sem = sync_rsp_table[i].sem]
            PROVE  rx'.pc # "put"
        BY <1>1, <4>2
      <4> QED
        BY <3>2, <4>1, <4>2 DEF RxFind
    <3>3. CASE RxPost
      BY <3>3 DEF RxPost
    <3> QED
      BY <1>8, <3>1, <3>2, <3>3
  <2> QED
    BY <1>3, <1>5, <2>1, <2>2, <2>3
<1>9. CASE RxRead
  <2>1. /\ rx.pc = "idle" /\ wire # <<>> /\ wire' = Tail(wire)
        /\ UNCHANGED <<rpc_tx_q, reqs, rpc_rx_q, tx>>
    BY <1>9 DEF RxRead
  <2>2. Len(wire') = Take(wire)
    BY <1>1, <2>1
  <2> QED
    BY <1>3, <1>5, <2>1, <2>2
<1>10. CASE RxPut
  <2>1. /\ rx.pc = "put" /\ rx'.pc = "find" /\ rpc_rx_q' = Append(rpc_rx_q, rx.uid)
        /\ UNCHANGED <<rpc_tx_q, reqs, wire, tx>>
    BY <1>1, <1>10 DEF RxPut
  <2>2. Len(rpc_rx_q') = Len(rpc_rx_q) + 1
    BY <1>1, <2>1
  <2> QED
    BY <1>3, <1>5, <2>1, <2>2
<1>11. CASE SlaveResponds \/ SlaveSilent
  <2>1. /\ reqs # <<>> /\ reqs' = Tail(reqs) /\ UNCHANGED <<rpc_tx_q, rpc_rx_q, tx, rx>>
        /\ wire' = wire \/ wire' = Append(wire, Head(reqs))
    BY <1>11 DEF SlaveResponds, SlaveSilent
  <2>2. Len(reqs') = Take(reqs)
    BY <1>1, <2>1
  <2>3. Len(wire') = Len(wire) \/ Len(wire') = Len(wire) + 1
    <3>1. Head(reqs) \in Uid
      BY <1>1, <2>1, SeqTyped, Zenon
    <3> QED
      BY <1>1, <2>1, <3>1
  <2> QED
    BY <1>3, <1>5, <2>1, <2>2, <2>3
<1> QED
  BY <1>6, <1>7, <1>8, <1>9, <1>10, <1>11 DEF TxStep, RxStep

(* ... and a caller that no longer asks has taken one, or gave up.         *)
LEMMA CallerOwes ==
  ASSUME TypeOK, TypeOK', Owed, NEW c \in Caller, LoadUid(c) \/ CallStep(c)
  PROVE  /\ Owed'
         /\ gaveUp' >= gaveUp
         /\ c \in Asked => c \in Asked' \/ gaveUp' > gaveUp \/ Fetch(c)
<1>1. /\ pc \in [Caller -> PC] /\ rpc_rx_q \in Seq(Uid)
      /\ rpc_tx_q \in Seq([caller: Caller, uid: Uid])
      /\ req \in [Caller -> [uid: Uid, entry: Entry, sem: Sem, woken: BOOLEAN]]
  BY DEF TypeOK
<1>2. /\ Asked \in SUBSET Caller /\ Cardinality(Asked) \in Nat /\ gaveUp \in Nat
      /\ Outstanding \in Nat
      /\ Asked' \in SUBSET Caller /\ Cardinality(Asked') \in Nat
      /\ Len(rpc_rx_q) \in Nat /\ Len(rpc_tx_q) \in Nat
  <2>1. Asked' \in SUBSET Caller
    BY DEF Asked
  <2> QED
    BY <2>1, OwedTypes, Balance, Counting
<1>3. /\ UNCHANGED <<tx, rx, reqs, wire>>
      /\ \A d \in Caller \ {c} : d \in Asked' <=> d \in Asked
  BY CallerFrame DEF Asked
<1>4. ASSUME NEW n \in Int, NEW m \in Int, Len(rpc_tx_q') = Len(rpc_tx_q) + n,
             Len(rpc_rx_q') = Len(rpc_rx_q) + m
      PROVE  Outstanding' = Outstanding + n + m
  BY <1>2, <1>3, <1>4, Balance DEF Outstanding
<1>5. ASSUME NEW p, Goto(c, p) PROVE pc'[c] = p
  BY <1>1, <1>5 DEF Goto
<1>6. ASSUME NEW r, Return(c, r) PROVE pc'[c] = "idle"
  BY <1>1, <1>6 DEF Return, Goto
<1>7. ASSUME UNCHANGED <<rpc_tx_q, rpc_rx_q, gaveUp>>, c \in Asked => c \in Asked'
      PROVE  Owed' /\ gaveUp' >= gaveUp /\ (c \in Asked => c \in Asked')
  <2>1. Outstanding' = Outstanding + 0 + 0
    BY <1>2, <1>4, <1>7
  <2>2. Cardinality(Asked) <= Cardinality(Asked')
    BY <1>2, <1>3, <1>7, Counting
  <2>3. Owed'
    BY <1>2, <1>7, <2>1, <2>2 DEF Owed
  <2> QED
    BY <1>2, <1>7, <2>3
<1>8. ASSUME UNCHANGED <<rpc_tx_q, rpc_rx_q>>, gaveUp' = gaveUp + 1
      PROVE  Owed' /\ gaveUp' >= gaveUp /\ gaveUp' > gaveUp
  <2>1. Outstanding' = Outstanding + 0 + 0
    <3>1. Len(rpc_tx_q') = Len(rpc_tx_q) + 0 /\ Len(rpc_rx_q') = Len(rpc_rx_q) + 0
      BY <1>2, <1>8
    <3> QED
      BY <1>4, <3>1
  <2>2. Asked \subseteq Asked' \union {c}
    BY <1>2, <1>3
  <2>3. Cardinality(Asked) <= Cardinality(Asked') + 1
    BY <1>2, <2>2, Counting
  <2>4. Owed'
    BY <1>2, <1>8, <2>1, <2>3 DEF Owed
  <2> QED
    BY <1>2, <1>8, <2>4
<1>9. CASE LoadUid(c) \/ StoreUid(c) \/ FindEntry(c) \/ Claim(c)
  <2>1. pc[c] \in {"idle", "uid", "find", "claim"} /\ UNCHANGED <<rpc_tx_q, rpc_rx_q, gaveUp>>
    BY <1>9 DEF LoadUid, StoreUid, FindEntry, Claim
  <2> QED
    BY <1>7, <2>1 DEF Asked
<1>10. CASE Lookup(c) \/ Wake(c) \/ Timeout(c) \/ Destroy(c) \/ ClearUid(c)
  <2>1. /\ UNCHANGED <<rpc_tx_q, rpc_rx_q, gaveUp>>
        /\ pc'[c] \in {"wait", "abort", "destroy", "clear_uid", "clear_sem"}
    BY <1>5, <1>10 DEF Lookup, Wake, Timeout, Destroy, ClearUid
  <2> QED
    BY <1>7, <2>1 DEF Asked
<1>11. CASE TableFull(c) \/ LookupFails(c)
  BY <1>8, <1>11 DEF TableFull, LookupFails
<1>12. CASE ClearSem(c)
  <2>1. CASE req[c].woken
    <3>1. UNCHANGED <<rpc_tx_q, rpc_rx_q, gaveUp>> /\ pc'[c] = "fetch"
      BY <1>5, <1>12, <2>1 DEF ClearSem
    <3> QED
      BY <1>7, <3>1 DEF Asked
  <2>2. CASE ~req[c].woken
    BY <1>8, <1>12, <2>2 DEF ClearSem
  <2> QED
    BY <2>1, <2>2
<1>13. CASE QueueRequest(c)
  <2>1. /\ pc[c] = "queue" /\ pc'[c] = "lookup" /\ UNCHANGED <<rpc_rx_q, gaveUp>>
        /\ rpc_tx_q' = Append(rpc_tx_q, [caller |-> c, uid |-> req[c].uid])
    BY <1>5, <1>13 DEF QueueRequest
  <2>2. Len(rpc_tx_q') = Len(rpc_tx_q) + 1
    <3>1. [caller |-> c, uid |-> req[c].uid] \in [caller: Caller, uid: Uid]
      BY <1>1
    <3> QED
      BY <1>1, <2>1, <3>1
  <2>3. Outstanding' = Outstanding + 1 + 0
    <3>1. Len(rpc_rx_q') = Len(rpc_rx_q) + 0
      BY <1>2, <2>1
    <3> QED
      BY <1>4, <2>2, <3>1
  <2>4. c \in Asked' /\ c \notin Asked
    BY <2>1 DEF Asked
  <2>5. Cardinality(Asked) + 1 <= Cardinality(Asked')
    BY <1>2, <1>3, <2>4, Counting
  <2>6. Owed'
    BY <1>2, <2>1, <2>3, <2>5 DEF Owed
  <2> QED
    BY <1>2, <2>1, <2>4, <2>6
<1>14. CASE Fetch(c)
  <2>1. /\ rpc_rx_q # <<>> /\ rpc_rx_q' = Tail(rpc_rx_q) /\ UNCHANGED <<rpc_tx_q, gaveUp>>
    BY <1>14 DEF Fetch
  <2>2. Len(rpc_rx_q') = Len(rpc_rx_q) + (-1)
    BY <1>1, <2>1
  <2>3. Outstanding' = Outstanding + 0 + (-1)
    <3>1. Len(rpc_tx_q') = Len(rpc_tx_q) + 0
      BY <1>2, <2>1
    <3> QED
      BY <1>4, <2>2, <3>1
  <2>4. Asked \subseteq Asked' \union {c}
    BY <1>2, <1>3
  <2>5. Cardinality(Asked) <= Cardinality(Asked') + 1
    BY <1>2, <2>4, Counting
  <2>6. Owed'
    BY <1>2, <2>1, <2>3, <2>5 DEF Owed
  <2> QED
    BY <1>2, <1>14, <2>1, <2>6
<1> QED
  BY <1>9, <1>10, <1>11, <1>12, <1>13, <1>14 DEF CallStep

-----------------------------------------------------------------------------
(* One caller at a time, until two overlap.                                *)

(* An overlap is for good, and a call that overlaps none is the only one.  *)
LEMMA OverlapStays ==
  ASSUME TypeOK, OneCaller, NEW c \in Caller, LoadUid(c) \/ CallStep(c), ~calls'.overlap
  PROVE  /\ ~calls.overlap
         /\ \A d \in Caller \ {c} : pc[d] = "idle" /\ pc'[d] = "idle"
         /\ LoadUid(c) \/ UNCHANGED calls
<1>1. CASE LoadUid(c)
  <2>1. calls' = [made |-> calls.made + 1, overlap |-> calls.overlap \/ InProgress # {}]
    BY <1>1 DEF LoadUid
  <2>2. ~calls.overlap /\ InProgress = {}
    BY <2>1
  <2>3. \A d \in Caller \ {c} : pc[d] = "idle"
    BY <2>2 DEF InProgress
  <2> QED
    BY <1>1, <2>2, <2>3, CallerFrame
<1>2. CASE CallStep(c)
  <2>1. UNCHANGED calls /\ pc[c] # "idle"
    BY <1>2 DEF CallStep, StoreUid, FindEntry, TableFull, Claim, QueueRequest, Lookup,
                LookupFails, Wake, Timeout, Destroy, ClearUid, ClearSem, Fetch
  <2>2. c \in InProgress /\ \A d \in InProgress : d = c
    BY <2>1 DEF OneCaller, InProgress
  <2>3. \A d \in Caller \ {c} : pc[d] = "idle"
    BY <2>2 DEF InProgress
  <2> QED
    BY <2>1, <2>3, CallerFrame
<1> QED
  BY <1>1, <1>2

(* A caller's step leaves at most its own entry in use.                    *)
LEMMA OneCallerKept ==
  ASSUME TypeOK, TypeOK', Woken, OneCaller, NEW c \in Caller, LoadUid(c) \/ CallStep(c)
  PROVE  OneCaller'
<1> DEFINE Using(p) == p \in {"queue", "lookup", "wait", "destroy", "clear_uid"}
           Own(t, i, p, r) == /\ Using(p) /\ r.entry = i
                              /\ t[i] = [uid |-> r.uid, sem |-> c]
<1> SUFFICES ASSUME ~calls'.overlap
             PROVE  /\ \A d, e \in InProgress' : d = e
                    /\ \A i \in Entry : sync_rsp_table'[i].uid # 0 =>
                         Own(sync_rsp_table', i, pc'[c], req'[c])
  BY DEF OneCaller
<1>1. /\ ~calls.overlap
      /\ \A d \in Caller \ {c} : pc[d] = "idle" /\ pc'[d] = "idle"
      /\ LoadUid(c) \/ UNCHANGED calls
  BY OverlapStays
<1>2. \A d, e \in InProgress' : d = e
  BY <1>1 DEF InProgress
<1>3. /\ sync_rsp_table \in [Entry -> [uid: Uid, sem: Sem]] /\ pc \in [Caller -> PC]
      /\ req \in [Caller -> [uid: Uid, entry: Entry, sem: Sem, woken: BOOLEAN]]
  BY DEF TypeOK
<1>4. \A i \in Entry : sync_rsp_table[i].uid # 0 => Own(sync_rsp_table, i, pc[c], req[c])
  <2> SUFFICES ASSUME NEW i \in Entry, sync_rsp_table[i].uid # 0
               PROVE  Own(sync_rsp_table, i, pc[c], req[c])
    OBVIOUS
  <2>1. PICK d \in Caller : /\ Using(pc[d]) /\ req[d].entry = i
                            /\ sync_rsp_table[i] = [uid |-> req[d].uid, sem |-> d]
    BY <1>1 DEF OneCaller
  <2>2. d = c
    BY <1>1, <2>1
  <2> QED
    BY <2>1, <2>2
<1>5. ASSUME NEW p, Goto(c, p) PROVE pc'[c] = p
  BY <1>3, <1>5 DEF Goto
<1>6. ASSUME ~Using(pc[c]), UNCHANGED sync_rsp_table
      PROVE  \A i \in Entry : sync_rsp_table'[i].uid = 0
  BY <1>4, <1>6
<1>7. CASE LoadUid(c) \/ StoreUid(c) \/ FindEntry(c) \/ TableFull(c) \/ Fetch(c)
  <2>1. pc[c] \in {"idle", "uid", "find", "fetch"} /\ UNCHANGED sync_rsp_table
    BY <1>7 DEF LoadUid, StoreUid, FindEntry, TableFull, Fetch
  <2> QED
    BY <1>2, <1>6, <2>1
<1>8. CASE Claim(c)
  <2>1. /\ pc[c] = "claim" /\ pc'[c] = "queue" /\ req'[c] = req[c]
        /\ sync_rsp_table' = [sync_rsp_table EXCEPT ![req[c].entry] =
                                [uid |-> req[c].uid, sem |-> c]]
    BY <1>5, <1>8 DEF Claim
  <2>2. req[c].entry \in Entry
    BY <1>3
  <2>3. \A i \in Entry : i # req[c].entry => sync_rsp_table'[i].uid = 0
    BY <1>3, <1>4, <2>1, <2>2
  <2>4. sync_rsp_table'[req[c].entry] = [uid |-> req[c].uid, sem |-> c]
    BY <1>3, <2>1, <2>2
  <2> QED
    BY <1>2, <2>1, <2>3, <2>4
<1>9. CASE QueueRequest(c) \/ Timeout(c)
  <2>1. Using(pc'[c]) /\ Using(pc[c]) /\ req'[c] = req[c] /\ UNCHANGED sync_rsp_table
    BY <1>5, <1>9 DEF QueueRequest, Timeout
  <2> QED
    BY <1>2, <1>4, <2>1
<1>10. CASE Wake(c)
  <2>1. /\ Using(pc'[c]) /\ req' = [req EXCEPT ![c].woken = TRUE] /\ UNCHANGED sync_rsp_table
    BY <1>5, <1>10 DEF Wake
  <2>2. req'[c].uid = req[c].uid /\ req'[c].entry = req[c].entry
    BY <1>3, <2>1
  <2> QED
    BY <1>2, <1>4, <2>1, <2>2
<1>11. CASE Lookup(c)
  <2>1. PICK i \in Entry :
          /\ IsFirst(i, req[c].uid)
          /\ req' = [req EXCEPT ![c].entry = i, ![c].sem = sync_rsp_table[i].sem]
          /\ Goto(c, IF sync_rsp_table[i].sem = NULL THEN "abort" ELSE "wait")
    BY <1>11 DEF Lookup
  <2>2. pc[c] = "lookup" /\ UNCHANGED sync_rsp_table
    BY <1>11 DEF Lookup
  <2>3. sync_rsp_table[i].uid = req[c].uid /\ req[c].uid # 0
    BY <2>1, <2>2 DEF IsFirst, Woken
  <2>4. Own(sync_rsp_table, i, pc[c], req[c])
    BY <1>4, <2>3
  <2>5. sync_rsp_table[i].sem = c /\ c # NULL
    BY <2>4, RpcCoreAssumption
  <2>6. pc'[c] = "wait"
    BY <1>5, <2>1, <2>5
  <2>7. req'[c].uid = req[c].uid /\ req'[c].entry = i
    BY <1>3, <2>1
  <2> QED
    BY <1>2, <1>4, <2>2, <2>4, <2>6, <2>7
<1>12. CASE LookupFails(c)
  <2>1. ~Listed(req[c].uid) /\ UNCHANGED sync_rsp_table
    BY <1>12 DEF LookupFails
  <2>2. \A i \in Entry : sync_rsp_table[i].uid = 0
    BY <1>4, <2>1 DEF Listed
  <2> QED
    BY <1>2, <2>1, <2>2
<1>13. CASE Destroy(c)
  <2>1. /\ UNCHANGED <<sync_rsp_table, req>> /\ pc[c] = "destroy"
        /\ sync_rsp_table[req[c].entry].sem = NULL \/ pc'[c] = "clear_uid"
    BY <1>5, <1>13 DEF Destroy
  <2>2. CASE pc'[c] = "clear_uid"
    BY <1>2, <1>4, <2>1, <2>2
  <2>3. CASE sync_rsp_table[req[c].entry].sem = NULL
    <3>1. \A i \in Entry : sync_rsp_table[i].uid = 0
      <4> SUFFICES ASSUME NEW i \in Entry, sync_rsp_table[i].uid # 0 PROVE FALSE
        OBVIOUS
      <4>1. Own(sync_rsp_table, i, pc[c], req[c])
        BY <1>4
      <4>2. sync_rsp_table[req[c].entry].sem = c
        BY <4>1
      <4> QED
        BY <2>3, <4>2, RpcCoreAssumption
    <3> QED
      BY <1>2, <2>1, <3>1
  <2> QED
    BY <2>1, <2>2, <2>3
<1>14. CASE ClearUid(c)
  <2>1. sync_rsp_table' = [sync_rsp_table EXCEPT ![req[c].entry].uid = 0]
    BY <1>14 DEF ClearUid
  <2>2. \A i \in Entry : sync_rsp_table'[i].uid = 0
    <3>1. \A i \in Entry : i # req[c].entry => sync_rsp_table[i].uid = 0
      BY <1>4
    <3> QED
      BY <1>3, <2>1, <3>1
  <2> QED
    BY <1>2, <2>2
<1>15. CASE ClearSem(c)
  <2>1. pc[c] = "clear_sem" /\ sync_rsp_table' = [sync_rsp_table EXCEPT ![req[c].entry].sem = NULL]
    BY <1>15 DEF ClearSem
  <2>2. \A i \in Entry : sync_rsp_table[i].uid = 0
    BY <1>4, <2>1
  <2>3. \A i \in Entry : sync_rsp_table'[i].uid = 0
    BY <1>3, <2>1, <2>2
  <2> QED
    BY <1>2, <2>3
<1> QED
  BY <1>7, <1>8, <1>9, <1>10, <1>11, <1>12, <1>13, <1>14, <1>15 DEF CallStep

(* Nothing else touches the callers or the table.                          *)
LEMMA OneCallerLeft ==
  ASSUME OneCaller, TxStep \/ RxStep \/ SlaveResponds \/ SlaveSilent
  PROVE  OneCaller'
<1>1. UNCHANGED <<sync_rsp_table, pc, req, calls>>
  BY LinkFrame
<1> QED
  BY <1>1 DEF OneCaller, InProgress

-----------------------------------------------------------------------------
(* Until something goes wrong, everything under way is the one caller's.   *)

(* A step on a sequence whose elements all satisfy P keeps that.           *)
LEMMA AllKept ==
  ASSUME NEW S, NEW T, NEW q \in Seq(S), \A k \in 1 .. Len(q) : q[k] \in T
  PROVE  /\ \A e \in S : e \in T =>
              \A k \in 1 .. Len(Append(q, e)) : Append(q, e)[k] \in T
         /\ q # <<>> => /\ Head(q) \in T
                        /\ \A k \in 1 .. Len(Tail(q)) : Tail(q)[k] \in T
<1>1. ASSUME NEW e \in S, e \in T, NEW k \in 1 .. Len(Append(q, e))
      PROVE  Append(q, e)[k] \in T
  <2>1. Len(q) \in Nat /\ Len(Append(q, e)) = Len(q) + 1
    OBVIOUS
  <2>2. CASE k = Len(q) + 1
    <3>1. Append(q, e)[k] = e
      BY <2>2
    <3> QED
      BY <1>1, <3>1
  <2>3. CASE k # Len(q) + 1
    <3>1. k \in 1 .. Len(q)
      BY <2>1, <2>3
    <3>2. Append(q, e)[k] = q[k]
      BY <3>1
    <3> QED
      BY <3>1, <3>2
  <2> QED
    BY <2>2, <2>3
<1>2. ASSUME q # <<>>
      PROVE  Head(q) \in T /\ \A k \in 1 .. Len(Tail(q)) : Tail(q)[k] \in T
  <2>1. Len(q) \in Nat \ {0} /\ Head(q) = q[1] /\ Len(Tail(q)) = Len(q) - 1
    BY <1>2
  <2>2. ASSUME NEW k \in 1 .. Len(Tail(q)) PROVE Tail(q)[k] \in T
    <3>1. k + 1 \in 1 .. Len(q)
      BY <2>1
    <3>2. Tail(q)[k] = q[k + 1]
      BY <1>2, <2>1
    <3> QED
      BY <3>1, <3>2
  <2>3. 1 \in 1 .. Len(q)
    BY <2>1
  <2> QED
    BY <2>1, <2>2, <2>3
<1> QED
  BY <1>1, <1>2

(* A caller who goes on waiting waits for the same; only a response        *)
(* fetched ends a call with one.                                           *)
LEMMA SameUid ==
  ASSUME TypeOK, NEW c \in Caller, LoadUid(c) \/ CallStep(c)
  PROVE  /\ c \in Asked /\ c \in Asked' => req'[c].uid = req[c].uid
         /\ Fetch(c) \/ result'[c] = result[c] \/ result'[c].code # "RESP"
         /\ \/ Fetch(c) \/ UNCHANGED rpc_rx_q
         /\ \/ UNCHANGED rpc_tx_q
            \/ /\ c \in Asked'
               /\ rpc_tx_q' = Append(rpc_tx_q, [caller |-> c, uid |-> req'[c].uid])
<1>1. /\ pc \in [Caller -> PC] /\ DOMAIN result = Caller
      /\ req \in [Caller -> [uid: Uid, entry: Entry, sem: Sem, woken: BOOLEAN]]
  BY DEF TypeOK
<1>2. ASSUME NEW p, Goto(c, p) PROVE pc'[c] = p
  BY <1>1, <1>2 DEF Goto
<1>3. ASSUME NEW r, Return(c, r) PROVE pc'[c] = "idle" /\ result'[c] = r
  BY <1>1, <1>3 DEF Return, Goto
<1>4. CASE LoadUid(c) \/ StoreUid(c) \/ FindEntry(c) \/ Claim(c)
  <2>1. pc[c] \in {"idle", "uid", "find", "claim"} /\ UNCHANGED <<rpc_tx_q, rpc_rx_q>>
    BY <1>4 DEF LoadUid, StoreUid, FindEntry, Claim
  <2>2. result'[c] = result[c] \/ result'[c] = NoResult
    BY <1>1, <1>4 DEF LoadUid, StoreUid, FindEntry, Claim
  <2> QED
    BY <2>1, <2>2 DEF Asked, NoResult
<1>5. CASE QueueRequest(c)
  <2>1. /\ req'[c] = req[c] /\ result'[c] = result[c] /\ UNCHANGED rpc_rx_q
        /\ rpc_tx_q' = Append(rpc_tx_q, [caller |-> c, uid |-> req'[c].uid])
        /\ pc'[c] = "lookup"
    BY <1>2, <1>5 DEF QueueRequest
  <2> QED
    BY <2>1 DEF Asked
<1>6. CASE Timeout(c) \/ Destroy(c) \/ ClearUid(c)
  BY <1>6 DEF Timeout, Destroy, ClearUid
<1>7. CASE Lookup(c)
  <2>1. PICK i \in Entry :
           req' = [req EXCEPT ![c].entry = i, ![c].sem = sync_rsp_table[i].sem]
    BY <1>7 DEF Lookup
  <2>2. req'[c].uid = req[c].uid
    BY <1>1, <2>1
  <2> QED
    BY <1>7, <2>2 DEF Lookup
<1>8. CASE Wake(c)
  <2>1. req' = [req EXCEPT ![c].woken = TRUE]
    BY <1>8 DEF Wake
  <2>2. req'[c].uid = req[c].uid
    BY <1>1, <2>1
  <2> QED
    BY <1>8, <2>2 DEF Wake
<1>9. CASE TableFull(c) \/ LookupFails(c)
  <2>1. /\ pc'[c] = "idle" /\ result'[c].code = "NO_ENTRY"
        /\ UNCHANGED <<rpc_tx_q, rpc_rx_q>>
    BY <1>3, <1>9 DEF TableFull, LookupFails
  <2> QED
    BY <2>1 DEF Asked
<1>10. CASE ClearSem(c)
  <2>1. /\ UNCHANGED <<rpc_tx_q, rpc_rx_q>>
        /\ \/ pc'[c] = "idle" /\ result'[c].code = "TIMEOUT"
           \/ UNCHANGED <<req, result>>
    BY <1>3, <1>10 DEF ClearSem
  <2> QED
    BY <2>1 DEF Asked
<1>11. CASE Fetch(c)
  <2>1. pc'[c] = "idle" /\ UNCHANGED rpc_tx_q
    BY <1>3, <1>11 DEF Fetch
  <2> QED
    BY <1>11, <2>1 DEF Asked
<1> QED
  BY <1>4, <1>5, <1>6, <1>7, <1>8, <1>9, <1>10, <1>11 DEF CallStep

(* A caller's step: it adds its own request, and takes its own response,   *)
(* after which nothing is left under way.                                  *)
LEMMA CallerOwn ==
  ASSUME TypeOK, TypeOK', Owed, OneCaller, OwnOnly, NEW c \in Caller, LoadUid(c) \/ CallStep(c)
  PROVE  OwnOnly'
<1> DEFINE Aw     == {req[d].uid : d \in Asked}
           Aw1    == {req'[d].uid : d \in Asked'}
           Msg    == [caller: Caller, uid: Uid]
           Of(q, T) == \A k \in 1 .. Len(q) : q[k] \in T
           Rest   == /\ tx' = "idle"
                     /\ \A k \in 1 .. Len(rpc_tx_q') : rpc_tx_q'[k].uid \in Aw1
                     /\ Of(reqs', Aw1) /\ Of(wire', Aw1) /\ Of(rpc_rx_q', Aw1)
                     /\ rx'.pc = "put" => rx'.uid \in Aw1
                     /\ \A d \in Caller :
                          result'[d].code = "RESP" => result'[d].got = result'[d].uid
<1> SUFFICES ASSUME Undisturbed' PROVE Rest
  BY DEF OwnOnly, Awaited
<1>1. /\ rpc_rx_q \in Seq(Uid) /\ reqs \in Seq(Uid) /\ wire \in Seq(Uid)
      /\ rpc_tx_q \in Seq(Msg) /\ gaveUp \in Nat /\ rpc_tx_q' \in Seq(Msg)
      /\ pc \in [Caller -> PC] /\ DOMAIN result = Caller
  BY DEF TypeOK
<1>2. /\ UNCHANGED <<tx, rx, reqs, wire, failedTx>>
      /\ \A d \in Caller \ {c} : /\ pc'[d] = pc[d] /\ req'[d] = req[d]
                                 /\ result'[d] = result[d]
  BY CallerFrame
<1>3. ~calls'.overlap /\ gaveUp' = 0 /\ failedTx' = {}
  BY DEF Undisturbed
<1>4. ~calls.overlap /\ \A d \in Caller \ {c} : pc[d] = "idle" /\ pc'[d] = "idle"
  BY <1>3, OverlapStays
<1>5. gaveUp = 0 /\ gaveUp' = gaveUp
  BY <1>1, <1>3, CallerOwes
<1>6. Undisturbed
  BY <1>2, <1>3, <1>4, <1>5 DEF Undisturbed
<1>7. /\ tx = "idle" /\ \A k \in 1 .. Len(rpc_tx_q) : rpc_tx_q[k].uid \in Aw
      /\ Of(reqs, Aw) /\ Of(wire, Aw) /\ Of(rpc_rx_q, Aw)
      /\ rx.pc = "put" => rx.uid \in Aw
      /\ \A d \in Caller : result[d].code = "RESP" => result[d].got = result[d].uid
  BY <1>6 DEF OwnOnly, Awaited
<1>8. Asked \subseteq {c} /\ Asked' \subseteq {c}
  BY <1>4 DEF Asked
<1>9. CASE ~Fetch(c)
  <2>1. c \in Asked => c \in Asked'
    BY <1>1, <1>5, <1>9, CallerOwes
  <2>2. Aw \subseteq Aw1
    BY <1>8, <2>1, SameUid
  <2>3. \A k \in 1 .. Len(rpc_tx_q') : rpc_tx_q'[k].uid \in Aw1
    <3>1. CASE UNCHANGED rpc_tx_q
      BY <1>7, <2>2, <3>1
    <3>2. CASE /\ c \in Asked'
               /\ rpc_tx_q' = Append(rpc_tx_q, [caller |-> c, uid |-> req'[c].uid])
      <4> DEFINE e == [caller |-> c, uid |-> req'[c].uid]
                 T == {m \in Msg : m.uid \in Aw1}
      <4>1. req'[c].uid \in Uid
        BY DEF TypeOK
      <4>2. e \in Msg /\ e \in T
        BY <3>2, <4>1
      <4>3. \A k \in 1 .. Len(rpc_tx_q) : rpc_tx_q[k] \in T
        <5>1. \A k \in 1 .. Len(rpc_tx_q) : rpc_tx_q[k] \in Msg
          BY <1>1, ElementOfSeq, Zenon
        <5> QED
          BY <1>7, <2>2, <5>1
      <4> HIDE DEF e, T, Msg
      <4>4. \A k \in 1 .. Len(Append(rpc_tx_q, e)) : Append(rpc_tx_q, e)[k] \in T
        BY <1>1, <4>2, <4>3, AllKept
      <4>5. rpc_tx_q' = Append(rpc_tx_q, e)
        BY <3>2 DEF e
      <4> QED
        BY <4>4, <4>5 DEF T
    <3> QED
      BY <3>1, <3>2, <1>9, SameUid
  <2>4. UNCHANGED rpc_rx_q /\ (result'[c] = result[c] \/ result'[c].code # "RESP")
    BY <1>9, SameUid
  <2>5. \A d \in Caller : result'[d].code = "RESP" => result'[d].got = result'[d].uid
    BY <1>2, <1>7, <2>4
  <2> QED
    BY <1>2, <1>7, <2>2, <2>3, <2>4, <2>5
<1>10. CASE Fetch(c)
  <2>1. /\ pc[c] = "fetch" /\ rpc_rx_q # <<>> /\ rpc_rx_q' = Tail(rpc_rx_q) /\ UNCHANGED rpc_tx_q
        /\ result'[c] = [code |-> "RESP", uid |-> req[c].uid, got |-> Head(rpc_rx_q)]
    BY <1>1, <1>10 DEF Fetch, Return
  <2>2. Outstanding <= 1
    <3>1. Cardinality(Asked) <= 1
      <4>1. Cardinality({c}) = 1 /\ {c} \in SUBSET Caller
        BY FS_Singleton
      <4> QED
        BY <1>8, <4>1, OwedTypes, Counting
    <3> QED
      BY <1>5, <3>1, OwedTypes DEF Owed
  <2>3. Len(rpc_rx_q) \in Nat \ {0}
    BY <1>1, <2>1
  <2>4. /\ Len(rpc_rx_q) = 1 /\ Len(rpc_tx_q) = 0 /\ Len(reqs) = 0 /\ Len(wire) = 0
        /\ rx.pc # "put"
    <3> DEFINE t  == IF tx = "put" THEN 1 ELSE 0
               p  == IF rx.pc = "put" THEN 1 ELSE 0
               l1 == Len(rpc_tx_q)
               l2 == Len(reqs)
               l3 == Len(wire)
               l4 == Len(rpc_rx_q)
    <3>1. /\ t \in Nat /\ p \in Nat /\ (p = 0 => rx.pc # "put")
          /\ l1 \in Nat /\ l2 \in Nat /\ l3 \in Nat /\ l4 \in Nat \ {0}
      BY <2>3, Balance
    <3>2. l1 + l2 + l3 + l4 + t + p <= 1
      BY <2>2 DEF Outstanding
    <3> HIDE DEF t, p, l1, l2, l3, l4
    <3>3. l4 = 1 /\ l1 = 0 /\ l2 = 0 /\ l3 = 0 /\ p = 0
      BY <3>1, <3>2
    <3> QED
      BY <3>1, <3>3 DEF l1, l2, l3, l4
  <2>5. Len(rpc_rx_q') = 0
    BY <1>1, <2>1, <2>4
  <2>6. Head(rpc_rx_q) = req[c].uid
    <3>1. Head(rpc_rx_q) \in Aw
      BY <1>1, <1>7, <2>1, AllKept
    <3> QED
      BY <1>8, <3>1
  <2>7. result'[c].got = result'[c].uid
    BY <2>1, <2>6
  <2>8. \A d \in Caller : result'[d].code = "RESP" => result'[d].got = result'[d].uid
    BY <1>2, <1>7, <2>7
  <2>9. /\ Len(rpc_tx_q') = 0 /\ Len(reqs') = 0 /\ Len(wire') = 0
        /\ tx' = "idle" /\ rx'.pc # "put"
    BY <1>2, <1>7, <2>1, <2>4
  <2> QED
    BY <2>5, <2>8, <2>9
<1> QED
  BY <1>9, <1>10

(* A thread's or the link's: it passes on what it has taken.               *)
LEMMA LinkOwn ==
  ASSUME TypeOK, OwnOnly, TxStep \/ RxStep \/ SlaveResponds \/ SlaveSilent
  PROVE  OwnOnly'
<1> DEFINE Aw     == {req[d].uid : d \in Asked}
           Msg    == [caller: Caller, uid: Uid]
           Of(q, T) == \A k \in 1 .. Len(q) : q[k] \in T
           Sent   == {m \in Msg : m.uid \in Aw}
           Rest   == /\ tx' = "idle"
                     /\ \A k \in 1 .. Len(rpc_tx_q') : rpc_tx_q'[k].uid \in Aw
                     /\ Of(reqs', Aw) /\ Of(wire', Aw) /\ Of(rpc_rx_q', Aw)
                     /\ rx'.pc = "put" => rx'.uid \in Aw
<1>1. UNCHANGED <<pc, req, result, calls, gaveUp>>
  BY LinkFrame
<1>2. Asked' = Asked /\ {req'[d].uid : d \in Asked'} = Aw
  BY <1>1 DEF Asked
<1> SUFFICES ASSUME Undisturbed' PROVE Rest /\ UNCHANGED result
  <2>1. CASE ~Undisturbed'
    BY <2>1 DEF OwnOnly
  <2>2. CASE Undisturbed'
    <3>1. failedTx \subseteq failedTx'
      BY DEF TxStep, RxStep, TxSend, TxFail, TxGone, TxPut, TxPost, RxRead, RxPut, RxFind,
             RxPost, SlaveResponds, SlaveSilent
    <3>2. Undisturbed
      BY <1>1, <2>2, <3>1 DEF Undisturbed
    <3>3. \A d \in Caller : result[d].code = "RESP" => result[d].got = result[d].uid
      BY <3>2 DEF OwnOnly
    <3>4. Rest /\ UNCHANGED result
      BY <2>2
    <3> QED
      BY <1>2, <3>3, <3>4 DEF OwnOnly, Awaited
  <2> QED
    BY <2>1, <2>2
<1>3. /\ rpc_rx_q \in Seq(Uid) /\ reqs \in Seq(Uid) /\ wire \in Seq(Uid)
      /\ rpc_tx_q \in Seq(Msg)
      /\ rx \in [pc: {"idle", "put", "find", "post"}, uid: Uid, sem: Sem]
  BY DEF TypeOK
<1>4. failedTx' = {} /\ UNCHANGED result
  BY <1>1 DEF Undisturbed
<1>5. ~TxFail /\ failedTx = {} /\ ~calls.overlap /\ gaveUp = 0
  <2>1. ~TxFail
    BY <1>4 DEF TxFail
  <2>2. UNCHANGED failedTx
    BY <2>1 DEF TxStep, RxStep, TxSend, TxGone, TxPut, TxPost, RxRead, RxPut, RxFind, RxPost,
                SlaveResponds, SlaveSilent
  <2> QED
    BY <1>1, <1>4, <2>1, <2>2 DEF Undisturbed
<1>6. /\ tx = "idle" /\ \A k \in 1 .. Len(rpc_tx_q) : rpc_tx_q[k].uid \in Aw
      /\ Of(reqs, Aw) /\ Of(wire, Aw) /\ Of(rpc_rx_q, Aw)
      /\ rx.pc = "put" => rx.uid \in Aw
  BY <1>5 DEF OwnOnly, Undisturbed, Awaited
<1>7. Aw \in SUBSET Uid
  BY DEF TypeOK, Asked
<1> HIDE DEF Aw
<1>8. CASE TxSend \/ TxGone
  <2>1. /\ rpc_tx_q # <<>> /\ rpc_tx_q' = Tail(rpc_tx_q)
        /\ UNCHANGED <<rpc_rx_q, tx, rx, wire>>
        /\ reqs' = reqs \/ reqs' = Append(reqs, Head(rpc_tx_q).uid)
    BY <1>8 DEF TxSend, TxGone
  <2>2. Of(rpc_tx_q, Sent)
    <3>1. \A k \in 1 .. Len(rpc_tx_q) : rpc_tx_q[k] \in Msg
      BY <1>3, ElementOfSeq, Zenon
    <3> QED
      BY <1>6, <3>1
  <2>3. Head(rpc_tx_q) \in Sent /\ Of(Tail(rpc_tx_q), Sent)
    <3> HIDE DEF Sent, Msg
    <3> QED
      BY <1>3, <2>1, <2>2, AllKept
  <2>4. Head(rpc_tx_q).uid \in Aw /\ Head(rpc_tx_q).uid \in Uid
    BY <1>7, <2>3
  <2>5. Of(reqs', Aw)
    BY <1>3, <1>6, <2>1, <2>4, AllKept
  <2> QED
    BY <1>4, <1>6, <2>1, <2>3, <2>5
<1>9. CASE TxPut \/ TxPost
  BY <1>6, <1>9 DEF TxPut, TxPost
<1>10. CASE SlaveResponds \/ SlaveSilent
  <2>1. /\ reqs # <<>> /\ reqs' = Tail(reqs) /\ UNCHANGED <<rpc_tx_q, rpc_rx_q, tx, rx>>
        /\ wire' = wire \/ wire' = Append(wire, Head(reqs))
    BY <1>10 DEF SlaveResponds, SlaveSilent
  <2>2. Head(reqs) \in Aw /\ Of(Tail(reqs), Aw)
    BY <1>3, <1>6, <2>1, AllKept
  <2>3. Of(wire', Aw)
    BY <1>3, <1>6, <1>7, <2>1, <2>2, AllKept
  <2> QED
    BY <1>4, <1>6, <2>1, <2>2, <2>3
<1>11. CASE RxRead
  <2>1. /\ rx' \in {[rx EXCEPT !.pc = "put", !.uid = Head(wire)], rx} /\ wire # <<>>
        /\ wire' = Tail(wire) /\ UNCHANGED <<rpc_tx_q, rpc_rx_q, tx, reqs>>
    BY <1>11 DEF RxRead
  <2>2. Head(wire) \in Aw /\ Of(Tail(wire), Aw)
    BY <1>3, <1>6, <2>1, AllKept
  <2>3. rx'.pc = "put" => rx'.uid \in Aw
    BY <1>3, <1>6, <2>1, <2>2
  <2> QED
    BY <1>4, <1>6, <2>1, <2>2, <2>3
<1>12. CASE RxPut
  <2>1. /\ rx.pc = "put" /\ rpc_rx_q' = Append(rpc_rx_q, rx.uid) /\ rx'.pc = "find"
        /\ UNCHANGED <<rpc_tx_q, tx, reqs, wire>>
    BY <1>3, <1>12 DEF RxPut
  <2>2. Of(rpc_rx_q', Aw)
    BY <1>3, <1>6, <1>7, <2>1, AllKept
  <2> QED
    BY <1>4, <1>6, <2>1, <2>2
<1>13. CASE RxFind \/ RxPost
  <2>1. UNCHANGED <<rpc_tx_q, rpc_rx_q, tx, reqs, wire>>
    BY <1>13 DEF RxFind, RxPost
  <2>2. rx'.pc # "put"
    <3>1. ASSUME NEW i \in Entry, rx' = [rx EXCEPT !.pc = "post", !.sem = sync_rsp_table[i].sem]
          PROVE  rx'.pc # "put"
      BY <1>3, <3>1
    <3>2. ASSUME rx' = [pc |-> "idle", uid |-> 0, sem |-> NULL] PROVE rx'.pc # "put"
      BY <3>2
    <3> QED
      BY <1>13, <3>1, <3>2 DEF RxFind, RxPost
  <2> QED
    BY <1>4, <1>6, <2>1, <2>2
<1> QED
  BY <1>5, <1>8, <1>9, <1>10, <1>11, <1>12, <1>13 DEF TxStep, RxStep

-----------------------------------------------------------------------------
(* The theorems.                                                           *)

(* The inductive invariant.                                                *)
LEMMA CoreInvariant ==
  Spec => []CoreInv
<1>1. Init => CoreInv
  <2> SUFFICES ASSUME Init PROVE CoreInv
    OBVIOUS
  <2>1. /\ 0 \in Uid /\ 1 \in Entry /\ NULL \in Sem /\ RPC_TX_QUEUE_SIZE \in Nat
        /\ RPC_RX_QUEUE_SIZE \in Nat
    BY RpcCoreAssumption DEF Uid, Entry, Sem
  <2>2. /\ rpc_tx_q = <<>> /\ rpc_rx_q = <<>> /\ reqs = <<>> /\ wire = <<>>
        /\ tx = "idle" /\ rx = [pc |-> "idle", uid |-> 0, sem |-> NULL]
        /\ gaveUp = 0 /\ failedTx = {} /\ calls = [made |-> 0, overlap |-> FALSE]
        /\ pc = [c \in Caller |-> "idle"] /\ sem = [c \in Caller |-> "dead"]
        /\ req = [c \in Caller |-> NoReq] /\ result = [c \in Caller |-> NoResult]
        /\ uid = 0 /\ sync_rsp_table = [i \in Entry |-> [uid |-> 0, sem |-> NULL]]
    BY DEF Init
  <2>3. Len(rpc_tx_q) = 0 /\ Len(rpc_rx_q) = 0 /\ Len(reqs) = 0 /\ Len(wire) = 0
    BY <2>2
  <2>4. TypeOK
    <3>1. NoReq \in [uid: Uid, entry: Entry, sem: Sem, woken: BOOLEAN]
      BY <2>1 DEF NoReq
    <3>2. NoResult \in Result
      BY <2>1 DEF NoResult, Result
    <3>3. /\ rpc_tx_q \in Seq([caller: Caller, uid: Uid]) /\ rpc_rx_q \in Seq(Uid)
          /\ reqs \in Seq(Uid) /\ wire \in Seq(Uid)
      BY <2>2
    <3>4. /\ pc \in [Caller -> PC] /\ sem \in [Caller -> {"empty", "full", "dead"}]
      BY <2>2 DEF PC
    <3> QED
      BY <2>1, <2>2, <2>3, <3>1, <3>2, <3>3, <3>4 DEF TypeOK
  <2>5. Woken
    BY <2>2 DEF Woken, NoReq
  <2>6. Fetching = {} /\ Posting = {} /\ InHand = 0 /\ Asked = {} /\ InProgress = {}
    BY <2>2 DEF Fetching, Posting, InHand, Asked, InProgress
  <2>7. NoEmptyFetch
    BY <2>3, <2>6, FS_EmptySet DEF NoEmptyFetch
  <2>8. Owed
    BY <2>2, <2>3, <2>6, FS_EmptySet DEF Owed, Outstanding
  <2>9. OneCaller
    BY <2>2, <2>6 DEF OneCaller
  <2>10. OwnOnly
    BY <2>2, <2>3 DEF OwnOnly, NoResult
  <2> QED
    BY <2>4, <2>5, <2>7, <2>8, <2>9, <2>10 DEF CoreInv
<1>2. CoreInv /\ [Next]_vars => CoreInv'
  <2> SUFFICES ASSUME CoreInv, [Next]_vars PROVE CoreInv'
    OBVIOUS
  <2>1. TypeOK /\ Woken /\ NoEmptyFetch /\ Owed /\ OneCaller /\ OwnOnly
    BY DEF CoreInv
  <2>2. ASSUME NEW c \in Caller, LoadUid(c) \/ CallStep(c) PROVE CoreInv'
    <3>1. TypeOK'
      BY <2>1, <2>2, CallerTyped
    <3>2. Woken'
      BY <2>1, <2>2, WokenKept
    <3>3. NoEmptyFetch'
      BY <2>1, <2>2, <3>1, <3>2, CallerBalance
    <3>4. Owed'
      BY <2>1, <2>2, <3>1, CallerOwes
    <3>5. OneCaller'
      BY <2>1, <2>2, <3>1, OneCallerKept
    <3>6. OwnOnly'
      BY <2>1, <2>2, <3>1, CallerOwn
    <3> QED
      BY <3>1, <3>2, <3>3, <3>4, <3>5, <3>6 DEF CoreInv
  <2>3. ASSUME TxStep \/ RxStep \/ SlaveResponds \/ SlaveSilent PROVE CoreInv'
    <3>1. TypeOK'
      BY <2>1, <2>3, LinkTyped
    <3>2. Woken'
      BY <2>1, <2>3, LinkFrame DEF Woken
    <3>3. NoEmptyFetch'
      BY <2>1, <2>3, LinkBalance
    <3>4. Owed'
      BY <2>1, <2>3, LinkOwes
    <3>5. OneCaller'
      BY <2>1, <2>3, OneCallerLeft
    <3>6. OwnOnly'
      BY <2>1, <2>3, LinkOwn
    <3> QED
      BY <3>1, <3>2, <3>3, <3>4, <3>5, <3>6 DEF CoreInv
  <2>4. CASE UNCHANGED vars
    <3>1. TypeOK' /\ Woken' /\ OneCaller'
      BY <2>1, <2>4 DEF TypeOK, Woken, OneCaller, InProgress
    <3>2. NoEmptyFetch' /\ Owed'
      BY <2>1, <2>4 DEF NoEmptyFetch, Fetching, Posting, InHand, Owed, Outstanding, Asked
    <3>3. OwnOnly'
      BY <2>1, <2>4 DEF OwnOnly, Undisturbed, Awaited, Asked
    <3> QED
      BY <3>1, <3>2, <3>3 DEF CoreInv
  <2> QED
    BY <2>2, <2>3, <2>4 DEF Next
<1> QED
  BY <1>1, <1>2, PTL DEF Spec

(* What requests take they give back: responses in the receive queue and   *)
(* on their way never exceed the requests in progress and those that gave  *)
(* up, and as long as no two calls have overlapped every entry of          *)
(* sync_rsp_table in use is that of the call in progress.                  *)
THEOREM AccountsKept ==
  Spec => []Accounted
<1>1. CoreInv => Accounted
  <2> SUFFICES ASSUME CoreInv PROVE Accounted
    OBVIOUS
  <2>1. TypeOK /\ Owed /\ OneCaller
    BY DEF CoreInv
  <2>2. Conserved
    <3>1. Asked \subseteq InProgress
      BY DEF Asked, InProgress
    <3>2. Cardinality(Asked) <= Cardinality(InProgress)
      BY <2>1, <3>1, OwedTypes, Counting
    <3> QED
      BY <2>1, <3>2, OwedTypes DEF Owed, Conserved
  <2>3. NoEntryLeak
    <3> SUFFICES ASSUME ~calls.overlap, NEW i \in Entry, sync_rsp_table[i].uid # 0
                 PROVE  \E c \in Caller :
                          /\ req[c].uid = sync_rsp_table[i].uid
                          /\ pc[c] \in {"queue", "lookup", "wait", "destroy", "clear_uid"}
      BY DEF NoEntryLeak
    <3>1. PICK c \in Caller :
            /\ pc[c] \in {"queue", "lookup", "wait", "destroy", "clear_uid"}
            /\ sync_rsp_table[i] = [uid |-> req[c].uid, sem |-> c]
      BY <2>1 DEF OneCaller
    <3>2. sync_rsp_table[i].uid = req[c].uid
      BY <3>1
    <3> QED
      BY <3>1, <3>2
  <2> QED
    BY <2>1, <2>2, <2>3 DEF Accounted
<1> QED
  BY <1>1, CoreInvariant, PTL

(* A woken caller never blocks on rpc_rx_q, where it waits without a       *)
(* timeout: every semaphore posted, every caller on its way and every      *)
(* response about to be announced has a response of its own in the queue.  *)
THEOREM NoFetchBlocks ==
  Spec => []NoEmptyFetch
<1>1. CoreInv => NoEmptyFetch
  BY DEF CoreInv
<1> QED
  BY <1>1, CoreInvariant, PTL

(* Although nothing compares the uids, a caller is given the response to   *)
(* its own request as long as no two calls have overlapped and none has    *)
(* given up or failed to be sent.                                          *)
THEOREM OwnAnswersUntilDisturbed ==
  Spec => []OwnUntilDisturbed
<1>1. CoreInv => OwnUntilDisturbed
  BY DEF CoreInv, OwnOnly, Undisturbed, OwnUntilDisturbed
<1> QED
  BY <1>1, CoreInvariant, PTL

=============================================================================
