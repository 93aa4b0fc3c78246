-------------------------- MODULE PhyRpcHostProofs --------------------------
(***************************************************************************)
(* Proofs about the host dispatcher, for any number of tasks and slots and *)
(* any kinds of answers: types; who owns a slot; where an answer comes     *)
(* from (HostInv); that it is given once and found whole (ServedInv); and  *)
(* that the dispatcher implements RpcService.                              *)
(***************************************************************************)
EXTENDS PhyRpcHost, TLAPS

USE DEF hostVars, netVars, vars

-----------------------------------------------------------------------------
(* Types.                                                                  *)

(* The blank records the variables are reset to are well typed.            *)
LEMMA Blanks == /\ AnyMsg \in MsgId
                /\ 0 \in Slot
                /\ NoCall \in Locals
                /\ NoAnswer \in Answer
                /\ NoResult \in Result
<1>1. AnyMsg \in MsgId
  BY HostAssumption DEF AnyMsg
<1>2. 0 \in Slot
  BY HostAssumption DEF Slot
<1> QED
  BY <1>1, <1>2 DEF NoCall, NoAnswer, NoResult, Locals, Answer, Result,
     Status, SlaveStatus, Code, Size

(* A freshly initialised library.                                          *)
LEMMA InitType == Init => TypeOK
  BY Blanks DEF Init, TypeOK, SlotRecord, Status, SlaveStatus, PC, RxPC

(* Every step of do_call.                                                  *)
LEMMA CallType ==
  ASSUME TypeOK, NEW c \in Caller, CallStep(c)
  PROVE  TypeOK'
<1>12. CASE Lock(c)
  BY <1>12 DEF TypeOK, Lock, PC
<1>1. CASE Scan(c)
  <2>1. PICK i \in Slot : call' = [call EXCEPT ![c].slot = i]
    BY <1>1 DEF Scan
  <2>2. call' \in [Caller -> Locals]
    BY <2>1, ZenonT(60) DEF TypeOK, Locals
  <2> QED
    BY <1>1, <2>2 DEF TypeOK, Scan, PC
<1>2. CASE ScanFull(c)
  BY <1>2, Blanks DEF TypeOK, ScanFull, Return, PC, NoResult, Result, Code
<1>3. CASE Fill(c)
  <2> DEFINE new == [in_use |-> TRUE, op_id |-> s_next_op_id,
                     want_resp_id |-> call[c].want, out_cap |-> call[c].cap,
                     out_len |-> 0, status |-> "ESP_FAIL"]
  <2>1. new \in SlotRecord
    BY DEF TypeOK, SlotRecord, Locals, Status
  <2>2. s_inflight' \in [Slot -> SlotRecord]
    BY <1>3, <2>1 DEF TypeOK, Fill
  <2>3. s_next_op_id' \in Nat
    BY <1>3 DEF TypeOK, Fill
  <2>4. call' \in [Caller -> Locals]
    BY <1>3, ZenonT(60) DEF TypeOK, Fill, Locals
  <2> QED
    BY <1>3, <2>2, <2>3, <2>4 DEF TypeOK, Fill, PC
<1>4. CASE Transmit(c)
  BY <1>4 DEF TypeOK, Transmit, PC, Locals, Request
<1>5. CASE SendOk(c)
  BY <1>5 DEF TypeOK, SendOk, PC
<1>6. CASE SendErr(c)
  BY <1>6, ZenonT(60) DEF TypeOK, SendErr, PC, Locals, Code
<1>7. CASE Wake(c)
  BY <1>7 DEF TypeOK, Wake, PC
<1>8. CASE Timeout(c)
  <2>1. call' = [call EXCEPT ![c].err = "TIMEOUT"]
    BY <1>8 DEF Timeout
  <2>2. call' \in [Caller -> Locals]
    BY <2>1, ZenonT(60) DEF TypeOK, Locals, Code
  <2> QED
    BY <1>8, <2>2 DEF TypeOK, Timeout, PC
<1>9. CASE GiveUp(c)
  <2>1. call[c] \in Locals
    BY DEF TypeOK
  <2>2. s_inflight' \in [Slot -> SlotRecord]
    BY <1>9, <2>1, ZenonT(60) DEF TypeOK, GiveUp, Locals, SlotRecord
  <2>3. result' \in [Caller -> Result]
    BY <1>9, <2>1, Blanks DEF TypeOK, GiveUp, Return, Locals, Result, NoResult
  <2>4. abandoned' \subseteq Slot
    BY <1>9, <2>1 DEF TypeOK, GiveUp, Locals
  <2> QED
    BY <1>9, <2>2, <2>3, <2>4, Blanks DEF TypeOK, GiveUp, Return, PC
<1>10. CASE ReadStatus(c)
  <2>1. call[c] \in Locals /\ s_inflight[call[c].slot] \in SlotRecord
    BY DEF TypeOK, Locals
  <2>2. call' \in [Caller -> Locals]
    BY <1>10, <2>1 DEF TypeOK, ReadStatus, Locals, SlotRecord
  <2> QED
    BY <1>10, <2>2 DEF TypeOK, ReadStatus, PC
<1>11. CASE Release(c)
  <2>1. call[c] \in Locals /\ s_inflight[call[c].slot] \in SlotRecord
    BY DEF TypeOK, Locals
  <2>2. s_inflight' \in [Slot -> SlotRecord]
    BY <1>11, <2>1 DEF TypeOK, Release, SlotRecord
  <2>3. result' \in [Caller -> Result]
    BY <1>11, <2>1 DEF TypeOK, Release, Return, Locals, Result, SlotRecord, Code
  <2> QED
    BY <1>11, <2>2, <2>3, Blanks DEF TypeOK, Release, Return, PC
<1> QED
  BY <1>1, <1>2, <1>3, <1>4, <1>5, <1>6, <1>7, <1>8, <1>9, <1>10, <1>11,
     <1>12 DEF CallStep

(* Every step of on_response.                                              *)
LEMMA RxType ==
  ASSUME TypeOK, RxStep
  PROVE  TypeOK'
<1>1. CASE RxDrop
  BY <1>1 DEF TypeOK, RxDrop
<1>2. CASE RxMatch
  <2>1. PICK i \in Slot :
          rx' = [pc |-> "status", ans |-> Head(wire), slot |-> i]
    BY <1>2 DEF RxMatch
  <2>2. Head(wire) \in Answer /\ Tail(wire) \in Seq(Answer)
    BY <1>2 DEF TypeOK, RxMatch
  <2> QED
    BY <1>2, <2>1, <2>2 DEF TypeOK, RxMatch, RxPC
<1>3. CASE RxWriteStatus
  <2>1. rx.slot \in Slot /\ rx.ans.status \in Status
    BY DEF TypeOK, Answer, Status
  <2>2. s_inflight' \in [Slot -> SlotRecord]
    BY <1>3, <2>1, ZenonT(60) DEF TypeOK, RxWriteStatus, SlotRecord
  <2> QED
    BY <1>3, <2>2 DEF TypeOK, RxWriteStatus, RxPC
<1>4. CASE RxCopyBody
  BY <1>4, ZenonT(60) DEF TypeOK, RxCopyBody, RxPC, SlotRecord
<1>5. CASE RxGive
  BY <1>5, Blanks DEF TypeOK, RxGive, RxPC
<1> QED
  BY <1>1, <1>2, <1>3, <1>4, <1>5 DEF RxStep

(* Every step keeps every variable in its type.                            *)
LEMMA NextType == TypeOK /\ [Next]_vars => TypeOK'
<1> SUFFICES ASSUME TypeOK, [Next]_vars PROVE TypeOK'
  OBVIOUS
<1>1. ASSUME NEW c \in Caller, NEW m \in MsgId, NEW cap \in {0, 1},
             Enter(c, m, cap)
      PROVE  TypeOK'
  BY <1>1, Blanks DEF TypeOK, Enter, PC, Locals
<1>2. ASSUME NEW c \in Caller, CallStep(c) PROVE TypeOK'
  BY <1>2, CallType
<1>3. ASSUME NEW kind \in AnswerKind, SlaveAnswers(kind[1], kind[2])
      PROVE  TypeOK'
  <2>1. kind \in SlaveStatus \X Size
    BY HostAssumption
  <2>2. Head(reqs) \in Request
    BY <1>3 DEF TypeOK, SlaveAnswers
  <2> QED
    BY <1>3, <2>1, <2>2 DEF TypeOK, SlaveAnswers, Request, Answer
<1>4. CASE SlaveSilent
  BY <1>4 DEF TypeOK, SlaveSilent
<1>5. CASE RxStep
  BY <1>5, RxType
<1>6. CASE UNCHANGED vars
  BY <1>6 DEF TypeOK
<1> QED
  BY <1>1, <1>2, <1>3, <1>4, <1>5, <1>6 DEF Next

(* The tables, semaphores, queues and locals of the dispatcher keep their  *)
(* types in every behaviour of phy_rpc.c.                                  *)
THEOREM TypeCorrect == Spec => []TypeOK
<1>1. Init => TypeOK
  BY InitType
<1>2. TypeOK /\ [Next]_vars => TypeOK'
  BY NextType
<1> QED
  BY <1>1, <1>2, PTL DEF Spec

-----------------------------------------------------------------------------
(* Slots, mutex and the origin of what a call returns.                     *)

(* No slot is in use and nothing has been asked yet.                       *)
LEMMA InitInv == Init => HostInv
<1> SUFFICES ASSUME Init PROVE HostInv
  OBVIOUS
<1>1. TypeOK
  BY InitType
<1>2. ASSUME NEW i \in Slot PROVE ~s_inflight[i].in_use
  BY DEF Init
<1>3. ASSUME NEW c \in Caller PROVE pc[c] = "idle" /\ result[c] = NoResult
  BY DEF Init
<1>4. SlotOwnership /\ OpIdsIssued /\ OpIdUnique
  BY <1>2, <1>3 DEF SlotOwnership, OpIdsIssued, OpIdUnique, Owns, Owning
<1>5. Reservation /\ RxTargetStable
  BY <1>3, HostAssumption DEF Init, Reservation, RxTargetStable
<1>6. Provenance
  BY <1>2, <1>3 DEF Init, Provenance
<1>7. NoFalseAnswer
  BY <1>3 DEF NoFalseAnswer, NoResult
<1> QED
  BY <1>1, <1>4, <1>5, <1>6, <1>7 DEF HostInv

(* The owner of a slot owns no other and holds no mutex.                   *)
LEMMA OwnFacts ==
  ASSUME HostInv, NEW c \in Caller, pc[c] \in Owning
  PROVE  /\ call[c].slot \in Slot
         /\ Owns(c, call[c].slot)
         /\ s_inflight[call[c].slot].in_use
         /\ s_inflight[call[c].slot].op_id = call[c].op
         /\ \A d \in Caller \ {c} : ~Owns(d, call[c].slot)
         /\ mutex # c
<1>1. call[c].slot \in Slot
  BY DEF HostInv, TypeOK, Locals
<1>2. Owns(c, call[c].slot)
  BY DEF Owns
<1>3. mutex # c
  BY DEF HostInv, Reservation, Owning
<1> QED
  BY <1>1, <1>2, <1>3 DEF HostInv, SlotOwnership

(* A step of an owner that changes no shared state but "done" and queues   *)
(* towards the slave.                                                      *)
LEMMA LocalStep ==
  ASSUME HostInv, TypeOK',
         NEW c \in Caller, NEW x \in Owning,
         pc[c] \in Owning, pc' = [pc EXCEPT ![c] = x],
         call'[c].slot = call[c].slot, call'[c].op = call[c].op,
         \A d \in Caller \ {c} : call'[d] = call[d],
         x = "read" => Said(call'[c].op, call'[c].st),
         UNCHANGED <<s_inflight, mutex, s_next_op_id, rx, wire, answers,
                     result>>
  PROVE  HostInv'
<1>0. pc \in [Caller -> PC]
  BY DEF HostInv, TypeOK
<1>1. \A d \in Caller : (pc'[d] \in Owning <=> pc[d] \in Owning)
                        /\ (d # c => pc'[d] = pc[d])
                        /\ call'[d].slot = call[d].slot
                        /\ call'[d].op = call[d].op
  BY <1>0
<1>2. \A d \in Caller, i \in Slot : Owns(d, i)' <=> Owns(d, i)
  BY <1>1 DEF Owns
<1>3. SlotOwnership'
  BY <1>1, <1>2 DEF HostInv, SlotOwnership
<1>4. Reservation'
  BY <1>0, <1>1, HostAssumption DEF HostInv, Reservation, Owning, Free
<1>5. RxTargetStable' /\ OpIdsIssued' /\ OpIdUnique'
  BY DEF HostInv, RxTargetStable, OpIdsIssued, OpIdUnique
<1>6. Provenance'
  BY <1>0, <1>1 DEF HostInv, Provenance, Said, SentBody
<1>7. NoFalseAnswer'
  BY DEF HostInv, NoFalseAnswer, Said, SentBody
<1> QED
  BY <1>3, <1>4, <1>5, <1>6, <1>7 DEF HostInv

(* An owner that frees its slot and returns.                               *)
LEMMA FreeStep ==
  ASSUME HostInv, TypeOK', NEW c \in Caller, NEW r \in Result,
         pc[c] \in Owning, Return(c, r),
         s_inflight' = [s_inflight EXCEPT ![call[c].slot].in_use = FALSE],
         r.code = "RESP" => Said(r.op, r.status) /\ SentBody(r.op, r.len),
         UNCHANGED <<mutex, s_next_op_id, rx, wire, answers>>
  PROVE  HostInv'
<1>1. pc' = [pc EXCEPT ![c] = "idle"] /\ call' = [call EXCEPT ![c] = NoCall]
      /\ result' = [result EXCEPT ![c] = r]
  BY DEF Return
<1>2. /\ pc \in [Caller -> PC]
      /\ s_inflight \in [Slot -> SlotRecord]
      /\ call \in [Caller -> Locals]
      /\ result \in [Caller -> Result]
  BY DEF HostInv, TypeOK
<1>3. \A d \in Caller : d # c => pc'[d] = pc[d] /\ call'[d] = call[d]
  BY <1>1, <1>2
<1>4. pc'[c] = "idle"
  BY <1>1, <1>2
<1>5. \A d \in Caller, i \in Slot : Owns(d, i)' <=> d # c /\ Owns(d, i)
  BY <1>3, <1>4 DEF Owns, Owning
<1>6. \A i \in Slot : /\ s_inflight'[i].in_use <=>
                           i # call[c].slot /\ s_inflight[i].in_use
                      /\ s_inflight'[i].op_id = s_inflight[i].op_id
                      /\ s_inflight'[i].status = s_inflight[i].status
                      /\ s_inflight'[i].out_len = s_inflight[i].out_len
  BY <1>2, OwnFacts DEF SlotRecord
<1>7. SlotOwnership'
  <2> SUFFICES ASSUME NEW i \in Slot
      PROVE /\ s_inflight'[i].in_use <=> \E d \in Caller : Owns(d, i)'
            /\ \A d, e \in Caller : Owns(d, i)' /\ Owns(e, i)' => d = e
            /\ \A d \in Caller : Owns(d, i)' =>
                 s_inflight'[i].op_id = call'[d].op
    BY DEF SlotOwnership
  <2>1. \A d, e \in Caller : Owns(d, i)' /\ Owns(e, i)' => d = e
    BY <1>5 DEF HostInv, SlotOwnership
  <2>2. \A d \in Caller : Owns(d, i)' => s_inflight'[i].op_id = call'[d].op
    BY <1>3, <1>5, <1>6 DEF HostInv, SlotOwnership
  <2>3. CASE i = call[c].slot
    BY <2>1, <2>2, <2>3, <1>5, <1>6, OwnFacts
  <2>4. CASE i # call[c].slot
    <3>1. ~Owns(c, i)
      BY <2>4 DEF Owns
    <3> QED
      BY <3>1, <2>1, <2>2, <2>4, <1>5, <1>6 DEF HostInv, SlotOwnership
  <2> QED
    BY <2>3, <2>4
<1>8. Reservation'
  <2>1. \A i \in Slot : Free(i) => Free(i)'
    BY <1>6 DEF Free
  <2>2. \A d \in Caller : pc'[d] \in {"scan", "fill"} =>
          d # c /\ pc[d] = pc'[d] /\ call'[d].slot = call[d].slot
          /\ call[d].slot \in Slot
    BY <1>2, <1>3, <1>4 DEF Locals
  <2>3. mutex # c
    BY OwnFacts
  <2> QED
    BY <2>1, <2>2, <2>3, <1>3 DEF HostInv, Reservation
<1>9. RxTargetStable' /\ OpIdsIssued' /\ OpIdUnique'
  <2>1. rx.slot \in Slot
    BY DEF HostInv, TypeOK
  <2> QED
    BY <2>1, <1>6 DEF HostInv, RxTargetStable, OpIdsIssued, OpIdUnique
<1>10. Provenance'
  BY <1>3, <1>4, <1>6 DEF HostInv, Provenance, Said, SentBody
<1>11. NoFalseAnswer'
  BY <1>1, <1>2 DEF HostInv, NoFalseAnswer, Said, SentBody
<1> QED
  BY <1>7, <1>8, <1>9, <1>10, <1>11 DEF HostInv

(* Entering, choosing a slot, finding none: the mutex protects the choice. *)
LEMMA ReserveSteps ==
  ASSUME HostInv, TypeOK', NEW c \in Caller,
         \/ \E m \in MsgId, cap \in {0, 1} : Enter(c, m, cap)
         \/ Lock(c)
         \/ Scan(c)
         \/ ScanFull(c)
  PROVE  HostInv'
<1>0. /\ pc \in [Caller -> PC] /\ pc[c] \notin Owning /\ pc'[c] \notin Owning
      /\ call \in [Caller -> Locals]
      /\ \A d \in Caller : d # c => pc'[d] = pc[d] /\ call'[d] = call[d]
      /\ UNCHANGED <<s_inflight, s_next_op_id, rx, wire, answers>>
  BY DEF HostInv, TypeOK, Enter, Lock, Scan, ScanFull, Return, Owning
<1>1. \A d \in Caller, i \in Slot : Owns(d, i)' <=> Owns(d, i)
  BY <1>0 DEF Owns
<1>2. \A d \in Caller : pc[d] \in Owning => d # c
  BY <1>0
<1>3. SlotOwnership'
  BY <1>0, <1>1, <1>2 DEF HostInv, SlotOwnership, Owns
<1>4. Reservation' /\ RxTargetStable'
  <2>1. CASE \E m \in MsgId, cap \in {0, 1} : Enter(c, m, cap)
    BY <2>1, <1>0, ZenonT(60) DEF Enter, HostInv, Reservation, RxTargetStable, Free
  <2>4. CASE Lock(c)
    <3>1. mutex = NoOne /\ mutex' = c /\ pc'[c] = "scan"
      BY <2>4, <1>0 DEF Lock
    <3>2. \A d \in Caller : pc[d] \notin {"scan", "fill"}
      BY <3>1, HostAssumption DEF HostInv, Reservation
    <3>3. rx.pc = "idle"
      BY <3>1, HostAssumption DEF HostInv, Reservation
    <3> QED
      BY <3>1, <3>2, <3>3, <1>0, HostAssumption DEF Reservation, RxTargetStable
  <2>2. CASE Scan(c)
    <3>1. PICK i \in Slot : Free(i) /\ call' = [call EXCEPT ![c].slot = i]
      BY <2>2 DEF Scan
    <3>2. call'[c].slot = i /\ pc'[c] = "fill" /\ mutex' = mutex
      BY <2>2, <3>1, <1>0 DEF Scan, Locals
    <3> QED
      BY <3>1, <3>2, <2>2, <1>0
      DEF HostInv, Reservation, RxTargetStable, Scan, Free
  <2>3. CASE ScanFull(c)
    <3>1. pc[c] = "scan" /\ mutex = c /\ mutex' = NoOne /\ pc'[c] = "idle"
      BY <2>3, <1>0 DEF ScanFull, Return, HostInv, Reservation
    <3> QED
      BY <3>1, <1>0, HostAssumption
      DEF HostInv, Reservation, RxTargetStable, Free
  <2> QED
    BY <2>1, <2>2, <2>3, <2>4
<1>5. OpIdsIssued' /\ OpIdUnique'
  BY <1>0 DEF HostInv, OpIdsIssued, OpIdUnique
<1>6. Provenance'
  <2>1. pc'[c] # "read"
    BY <1>0 DEF Owning
  <2> QED
    BY <2>1, <1>0 DEF HostInv, Provenance, Said, SentBody
<1>7. NoFalseAnswer'
  <2>1. result' = result \/ result' = [result EXCEPT ![c] = NoResult]
        \/ result' = [result EXCEPT ![c] = [NoResult EXCEPT !.code = "NO_MEM"]]
    BY DEF Enter, Lock, Scan, ScanFull, Return
  <2>2. \A d \in Caller : result'[d] = result[d] \/ result'[d].code # "RESP"
    BY <2>1 DEF NoResult, HostInv, TypeOK
  <2> QED
    BY <2>2, <1>0 DEF HostInv, NoFalseAnswer, Said, SentBody
<1> QED
  BY <1>3, <1>4, <1>5, <1>6, <1>7 DEF HostInv

(* Filling the reserved slot hands it to its caller with a fresh op id.    *)
LEMMA FillStep ==
  ASSUME HostInv, TypeOK', NEW c \in Caller, Fill(c)
  PROVE  HostInv'
<1> DEFINE n == call[c].slot
<1>0. /\ pc \in [Caller -> PC] /\ pc[c] = "fill" /\ pc'[c] = "send"
      /\ call \in [Caller -> Locals] /\ n \in Slot
      /\ \A d \in Caller : d # c => pc'[d] = pc[d] /\ call'[d] = call[d]
      /\ call'[c].slot = n /\ call'[c].op = s_next_op_id
      /\ UNCHANGED <<rx, wire, answers, result>>
  BY DEF HostInv, TypeOK, Fill, Locals
<1>1. /\ s_inflight \in [Slot -> SlotRecord]
      /\ s_inflight'[n].in_use
      /\ s_inflight'[n].op_id = s_next_op_id
      /\ s_inflight'[n].status = "ESP_FAIL"
      /\ s_inflight'[n].out_len = 0
      /\ \A i \in Slot : i # n => s_inflight'[i] = s_inflight[i]
  BY <1>0 DEF HostInv, TypeOK, Fill
<1>2. mutex = c /\ mutex' = NoOne /\ rx.pc = "idle" /\ Free(n)
      /\ \A d \in Caller : d # c => pc[d] \notin {"scan", "fill"}
  BY <1>0, HostAssumption DEF Fill, HostInv, Reservation, RxTargetStable
<1>3. \A d \in Caller, i \in Slot :
        Owns(d, i)' <=> Owns(d, i) \/ (d = c /\ i = n)
  BY <1>0 DEF Owns, Owning
<1>4. \A d \in Caller : ~Owns(d, n)
  BY <1>0, <1>2 DEF HostInv, SlotOwnership, Free
<1>5. \A i \in Slot : ~Owns(c, i)
  BY <1>0 DEF Owns, Owning
<1>6. SlotOwnership'
  <2> SUFFICES ASSUME NEW i \in Slot
      PROVE /\ s_inflight'[i].in_use <=> \E d \in Caller : Owns(d, i)'
            /\ \A d, e \in Caller : Owns(d, i)' /\ Owns(e, i)' => d = e
            /\ \A d \in Caller : Owns(d, i)' =>
                 s_inflight'[i].op_id = call'[d].op
    BY DEF SlotOwnership
  <2>1. CASE i = n
    BY <2>1, <1>0, <1>1, <1>3, <1>4
  <2>2. CASE i # n
    BY <2>2, <1>0, <1>1, <1>3, <1>5 DEF HostInv, SlotOwnership
  <2> QED
    BY <2>1, <2>2
<1>7. Reservation' /\ RxTargetStable'
  BY <1>0, <1>2, HostAssumption DEF Reservation, RxTargetStable
<1>8. s_next_op_id \in Nat /\ s_next_op_id' = s_next_op_id + 1
      /\ \A i \in Slot : s_inflight[i].op_id \in Nat
  BY <1>1 DEF HostInv, TypeOK, Fill, SlotRecord
<1>9. OpIdsIssued' /\ OpIdUnique'
  <2>1. \A i \in Slot : i # n /\ s_inflight'[i].in_use =>
          s_inflight'[i].op_id < s_next_op_id
    BY <1>1 DEF HostInv, OpIdsIssued
  <2>2. OpIdsIssued'
    BY <2>1, <1>1, <1>8 DEF OpIdsIssued
  <2>3. OpIdUnique'
    <3> SUFFICES ASSUME NEW i \in Slot, NEW j \in Slot,
                        s_inflight'[i].in_use, s_inflight'[j].in_use,
                        s_inflight'[i].op_id = s_inflight'[j].op_id
                 PROVE  i = j
      BY DEF OpIdUnique
    <3>1. i = n <=> j = n
      BY <2>1, <1>1, <1>8
    <3> QED
      BY <3>1, <1>1 DEF HostInv, OpIdUnique
  <2> QED
    BY <2>2, <2>3
<1>10. Provenance'
  BY <1>0, <1>1 DEF HostInv, Provenance, Said, SentBody
<1>11. NoFalseAnswer'
  BY <1>0 DEF HostInv, NoFalseAnswer, Said, SentBody
<1> QED
  BY <1>6, <1>7, <1>9, <1>10, <1>11 DEF HostInv

(* Every step of a call that holds a slot.                                 *)
LEMMA OwnerSteps ==
  ASSUME HostInv, TypeOK', NEW c \in Caller,
         \/ Transmit(c) \/ SendOk(c) \/ SendErr(c) \/ Wake(c) \/ Timeout(c)
         \/ GiveUp(c) \/ ReadStatus(c) \/ Release(c)
  PROVE  HostInv'
<1>0. call \in [Caller -> Locals] /\ call[c] \in Locals
      /\ pc \in [Caller -> PC] /\ s_inflight \in [Slot -> SlotRecord]
  BY DEF HostInv, TypeOK
<1>1. CASE Transmit(c)
  BY <1>1, LocalStep DEF Transmit, Owning
<1>2. CASE SendOk(c)
  BY <1>2, LocalStep DEF SendOk, Owning
<1>3. ASSUME pc[c] \in Owning, NEW e \in Code,
             call' = [call EXCEPT ![c].err = e],
             pc' = [pc EXCEPT ![c] = "giveup"],
             UNCHANGED <<s_inflight, mutex, s_next_op_id, rx, wire, answers,
                         result>>
      PROVE  HostInv'
  <2>1. /\ call'[c].slot = call[c].slot /\ call'[c].op = call[c].op
        /\ \A d \in Caller \ {c} : call'[d] = call[d]
    BY <1>0, <1>3 DEF Locals
  <2>2. "giveup" \in Owning
    BY DEF Owning
  <2> QED
    BY <1>3, <2>1, <2>2, LocalStep
<1>4. CASE SendErr(c)
  BY <1>3, <1>4 DEF SendErr, Owning, Code
<1>5. CASE Wake(c)
  BY <1>5, LocalStep DEF Wake, Owning
<1>6. CASE Timeout(c)
  BY <1>3, <1>6 DEF Timeout, Owning, Code
<1>7. CASE GiveUp(c)
  <2> DEFINE r == [NoResult EXCEPT !.code = call[c].err, !.op = call[c].op]
  <2>1. r \in Result /\ r.status = "ESP_FAIL" /\ r.len = 0
    BY <1>0, Blanks DEF NoResult, Result, Locals
  <2>2. pc[c] \in Owning
    BY <1>7 DEF GiveUp, Owning
  <2>3. Said(r.op, r.status) /\ SentBody(r.op, r.len)
    BY <2>1 DEF Said, SentBody
  <2> QED
    BY <1>7, <2>1, <2>2, <2>3, FreeStep DEF GiveUp
<1>8. CASE ReadStatus(c)
  <2>1. pc[c] \in Owning /\ "read" \in Owning
    BY <1>8 DEF ReadStatus, Owning
  <2>2. /\ call'[c].slot = call[c].slot /\ call'[c].op = call[c].op
        /\ call'[c].st = s_inflight[call[c].slot].status
        /\ \A d \in Caller \ {c} : call'[d] = call[d]
    BY <1>0, <1>8 DEF ReadStatus, Locals
  <2>3. Said(call'[c].op, call'[c].st)
    BY <2>1, <2>2, OwnFacts DEF HostInv, Provenance
  <2> QED
    BY <1>8, <2>1, <2>2, <2>3, LocalStep DEF ReadStatus
<1>9. CASE Release(c)
  <2> DEFINE r == [code |-> "RESP", op |-> call[c].op, status |-> call[c].st,
                   len |-> s_inflight[call[c].slot].out_len]
  <2>1. pc[c] = "read" /\ pc[c] \in Owning
    BY <1>9 DEF Release, Owning
  <2>2. r \in Result
    BY <1>0 DEF Result, Locals, Code, SlotRecord
  <2>3. Said(r.op, r.status) /\ SentBody(r.op, r.len)
    BY <2>1, OwnFacts DEF HostInv, Provenance
  <2> QED
    BY <1>9, <2>1, <2>2, <2>3, FreeStep DEF Release
<1> QED
  BY <1>1, <1>2, <1>4, <1>5, <1>6, <1>7, <1>8, <1>9

(* on_response, working on the slot it matched while it holds the mutex.   *)
LEMMA RxSteps ==
  ASSUME HostInv, TypeOK', RxStep
  PROVE  HostInv'
<1>0. /\ s_inflight \in [Slot -> SlotRecord] /\ rx.slot \in Slot
      /\ wire \in Seq(Answer) /\ rx.ans \in Answer
  BY DEF HostInv, TypeOK
<1>1. /\ UNCHANGED <<pc, call, result, s_next_op_id, answers>>
      /\ \A i \in Slot : /\ s_inflight'[i].in_use = s_inflight[i].in_use
                         /\ s_inflight'[i].op_id = s_inflight[i].op_id
  <2>1. UNCHANGED <<pc, call, result, s_next_op_id, answers>>
    BY DEF RxStep, RxDrop, RxMatch, RxWriteStatus, RxCopyBody, RxGive
  <2>2. CASE UNCHANGED s_inflight
    BY <2>1, <2>2
  <2>3. CASE RxWriteStatus
    BY <2>1, <2>3, <1>0 DEF RxWriteStatus, SlotRecord
  <2>4. CASE RxCopyBody
    BY <2>1, <2>4, <1>0 DEF RxCopyBody, SlotRecord
  <2> QED
    BY <2>2, <2>3, <2>4 DEF RxStep, RxDrop, RxMatch, RxGive
<1>2. SlotOwnership'
  BY <1>1 DEF HostInv, SlotOwnership, Owns
<1>3. OpIdsIssued' /\ OpIdUnique'
  BY <1>1 DEF HostInv, OpIdsIssued, OpIdUnique
<1>4. NoFalseAnswer'
  BY <1>1 DEF HostInv, NoFalseAnswer, Said, SentBody
<1>5. \A i \in Slot : Free(i)' <=> Free(i)
  BY <1>1 DEF Free
<1>6. \A c \in Caller : pc[c] \in {"scan", "fill"} => call[c].slot \in Slot
  BY DEF HostInv, TypeOK, Locals
<1>7. Reservation' /\ RxTargetStable' /\ Provenance'
  <2>1. CASE RxDrop
    <3>1. \A k \in 1 .. Len(wire') : wire'[k] \in answers
      BY <2>1, <1>0 DEF RxDrop, HostInv, Provenance
    <3> QED
      BY <2>1, <3>1, <1>5, <1>6 DEF RxDrop, HostInv, Reservation,
         RxTargetStable, Provenance, Said, SentBody
  <2>2. CASE RxMatch
    <3>1. PICK i \in Slot :
            /\ Matches(i, Head(wire))
            /\ rx' = [pc |-> "status", ans |-> Head(wire), slot |-> i]
      BY <2>2 DEF RxMatch
    <3>2. \A k \in 1 .. Len(wire') : wire'[k] \in answers
      BY <2>2, <1>0 DEF RxMatch, HostInv, Provenance
    <3>3. Head(wire) \in answers
      BY <2>2, <1>0 DEF RxMatch, HostInv, Provenance
    <3>4. mutex' = Rx /\ mutex = NoOne /\ s_inflight' = s_inflight
      BY <2>2 DEF RxMatch
    <3>5. Reservation'
      BY <3>1, <3>4, <1>1, HostAssumption DEF HostInv, Reservation
    <3>6. RxTargetStable'
      BY <3>1, <3>4 DEF RxTargetStable, Matches
    <3>7. Provenance'
      BY <3>1, <3>2, <3>3, <3>4, <1>1 DEF HostInv, Provenance, Said, SentBody
    <3> QED
      BY <3>5, <3>6, <3>7
  <2>3. CASE RxWriteStatus
    <3>1. /\ rx.pc = "status" /\ rx'.pc = "copy" /\ rx'.slot = rx.slot
          /\ rx'.ans = rx.ans /\ UNCHANGED <<mutex, wire>>
      BY <2>3 DEF RxWriteStatus, HostInv, TypeOK
    <3>2. rx.ans \in answers /\ s_inflight[rx.slot].op_id = rx.ans.op_id
      BY <3>1 DEF HostInv, Provenance, RxTargetStable
    <3>3. \A i \in Slot :
            /\ s_inflight'[i].out_len = s_inflight[i].out_len
            /\ s_inflight'[i].status = IF i = rx.slot THEN rx.ans.status
                                       ELSE s_inflight[i].status
      BY <2>3, <1>0 DEF RxWriteStatus, SlotRecord
    <3>4. Reservation' /\ RxTargetStable'
      BY <3>1, <1>0, <1>1, <1>5, <1>6 DEF HostInv, Reservation, RxTargetStable
    <3>5. Provenance'
      BY <3>1, <3>2, <3>3, <1>1 DEF HostInv, Provenance, Said, SentBody
    <3> QED
      BY <3>4, <3>5
  <2>4. CASE RxCopyBody
    <3>1. /\ rx.pc = "copy" /\ rx'.pc = "give" /\ rx'.slot = rx.slot
          /\ rx'.ans = rx.ans /\ UNCHANGED <<mutex, wire>>
      BY <2>4 DEF RxCopyBody, HostInv, TypeOK
    <3>2. rx.ans \in answers /\ s_inflight[rx.slot].op_id = rx.ans.op_id
      BY <3>1 DEF HostInv, Provenance, RxTargetStable
    <3>3. \A i \in Slot :
            /\ s_inflight'[i].status = s_inflight[i].status
            /\ \/ s_inflight'[i].out_len = s_inflight[i].out_len
               \/ i = rx.slot /\ rx.ans.size = "body"
      BY <2>4, <1>0 DEF RxCopyBody, SlotRecord
    <3>4. Reservation' /\ RxTargetStable'
      BY <3>1, <1>0, <1>1, <1>5, <1>6 DEF HostInv, Reservation, RxTargetStable
    <3>5. Provenance'
      BY <3>1, <3>2, <3>3, <1>1 DEF HostInv, Provenance, Said, SentBody
    <3> QED
      BY <3>4, <3>5
  <2>5. CASE RxGive
    <3>1. /\ rx'.pc = "idle" /\ mutex = Rx /\ mutex' = NoOne
          /\ s_inflight' = s_inflight /\ wire' = wire
      BY <2>5 DEF RxGive, HostInv, Reservation
    <3> QED
      BY <3>1, <1>1, HostAssumption DEF HostInv, Reservation, RxTargetStable,
         Provenance, Said, SentBody
  <2> QED
    BY <2>1, <2>2, <2>3, <2>4, <2>5 DEF RxStep
<1> QED
  BY <1>2, <1>3, <1>4, <1>7 DEF HostInv

(* The slave only adds to what it has said.                                *)
LEMMA SlaveSteps ==
  ASSUME HostInv, TypeOK',
         (\E kind \in AnswerKind : SlaveAnswers(kind[1], kind[2]))
           \/ SlaveSilent
  PROVE  HostInv'
<1>1. UNCHANGED hostVars /\ answers \subseteq answers'
  BY DEF SlaveAnswers, SlaveSilent
<1>2. /\ SlotOwnership' /\ Reservation' /\ RxTargetStable'
      /\ OpIdsIssued' /\ OpIdUnique'
  BY <1>1 DEF HostInv, SlotOwnership, Owns, Reservation, Free,
     RxTargetStable, OpIdsIssued, OpIdUnique
<1>3. \A k \in 1 .. Len(wire') : wire'[k] \in answers'
  <2>1. wire' = wire \/ \E a \in answers' : wire' = Append(wire, a)
    BY DEF SlaveAnswers, SlaveSilent
  <2>2. wire \in Seq(Answer)
    BY DEF HostInv, TypeOK
  <2> QED
    BY <2>1, <2>2, <1>1 DEF HostInv, Provenance
<1>4. Provenance' /\ NoFalseAnswer'
  BY <1>1, <1>3 DEF HostInv, Provenance, NoFalseAnswer, Said, SentBody
<1> QED
  BY <1>2, <1>4 DEF HostInv

(* No step of do_call, on_response or the slave breaks it.                 *)
LEMMA NextInv == HostInv /\ [Next]_vars => HostInv'
<1> SUFFICES ASSUME HostInv, [Next]_vars PROVE HostInv'
  OBVIOUS
<1>0. TypeOK'
  BY NextType DEF HostInv
<1>1. ASSUME NEW c \in Caller, NEW m \in MsgId, NEW cap \in {0, 1},
             Enter(c, m, cap)
      PROVE  HostInv'
  BY <1>0, <1>1, ReserveSteps
<1>2. ASSUME NEW c \in Caller, CallStep(c) PROVE HostInv'
  BY <1>0, <1>2, ReserveSteps, FillStep, OwnerSteps DEF CallStep
<1>3. ASSUME NEW kind \in AnswerKind, SlaveAnswers(kind[1], kind[2])
      PROVE  HostInv'
  BY <1>0, <1>3, SlaveSteps
<1>4. CASE SlaveSilent
  BY <1>0, <1>4, SlaveSteps
<1>5. CASE RxStep
  BY <1>0, <1>5, RxSteps
<1>6. CASE UNCHANGED vars
  BY <1>0, <1>6 DEF HostInv, SlotOwnership, Owns, Reservation, Free,
     RxTargetStable, OpIdsIssued, OpIdUnique, Provenance, NoFalseAnswer,
     Said, SentBody
<1> QED
  BY <1>1, <1>2, <1>3, <1>4, <1>5, <1>6 DEF Next

(* The conjunction of the dispatcher's invariants is inductive.            *)
THEOREM Invariance == Spec => []HostInv
<1>1. Init => HostInv
  BY InitInv
<1>2. HostInv /\ [Next]_vars => HostInv'
  BY NextInv
<1> QED
  BY <1>1, <1>2, PTL DEF Spec

(* No two calls ever share a slot of s_inflight[] and none is leaked, for  *)
(* any number of tasks, although in_use is cleared outside the mutex.      *)
THEOREM SlotsOwned == Spec => []SlotOwnership
<1>1. HostInv => SlotOwnership
  BY DEF HostInv
<1> QED
  BY <1>1, Invariance, PTL

(* on_response never writes into a slot that has been handed on.           *)
THEOREM TargetStable == Spec => []RxTargetStable
<1>1. HostInv => RxTargetStable
  BY DEF HostInv
<1> QED
  BY <1>1, Invariance, PTL

(* do_call never reports a status or a body the slave did not send for the *)
(* very operation it issued.                                               *)
THEOREM AnswersAreOwn == Spec => []NoFalseAnswer
<1>1. HostInv => NoFalseAnswer
  BY DEF HostInv
<1> QED
  BY <1>1, Invariance, PTL

-----------------------------------------------------------------------------
(* The answers: an operation is answered once, and the caller finds the    *)
(* answer whole.                                                           *)

(* Every operation is on its way to the slave, or answered, at most once.  *)
RequestsOnce ==
  /\ s_next_op_id >= 1
  /\ \A k \in 1 .. Len(reqs) : reqs[k].op_id \in 1 .. s_next_op_id - 1
  /\ \A k, l \in 1 .. Len(reqs) : reqs[k].op_id = reqs[l].op_id => k = l
  /\ \A a \in answers : a.op_id \in 1 .. s_next_op_id - 1
  /\ \A a \in answers, k \in 1 .. Len(reqs) : a.op_id # reqs[k].op_id
  /\ \A a, b \in answers : a.op_id = b.op_id => a = b
  /\ \A c \in Caller : pc[c] = "send" =>
       /\ \A k \in 1 .. Len(reqs) : reqs[k].op_id # call[c].op
       /\ \A a \in answers : a.op_id # call[c].op
  /\ \A c \in Caller : pc[c] \in Owning => call[c].op >= 1

(* Its answer is on its way back at most once.                             *)
AnswersOnce ==
  /\ \A k, l \in 1 .. Len(wire) : wire[k].op_id = wire[l].op_id => k = l
  /\ rx.pc # "idle" =>
       \A k \in 1 .. Len(wire) : wire[k].op_id # rx.ans.op_id

(* Taking the head off a queue shifts it.                                  *)
LEMMA TailFacts ==
  ASSUME NEW S, NEW q \in Seq(S), q # <<>>
  PROVE  /\ Head(q) \in S /\ Tail(q) \in Seq(S)
         /\ Len(q) \in Nat \ {0} /\ Len(Tail(q)) = Len(q) - 1
         /\ \A k \in 1 .. Len(Tail(q)) : k + 1 \in 1 .. Len(q)
                                         /\ Tail(q)[k] = q[k + 1]
         /\ 1 \in 1 .. Len(q) /\ Head(q) = q[1]
OBVIOUS

(* Adding to a queue leaves what is in it where it is.                     *)
LEMMA AppendFacts ==
  ASSUME NEW S, NEW q \in Seq(S), NEW e \in S
  PROVE  /\ Append(q, e) \in Seq(S)
         /\ Len(q) \in Nat /\ Len(Append(q, e)) = Len(q) + 1
         /\ \A k \in 1 .. Len(q) : Append(q, e)[k] = q[k]
         /\ Append(q, e)[Len(q) + 1] = e
OBVIOUS

(* An owner's op id has been issued.                                       *)
LEMMA OwnOp ==
  ASSUME HostInv, NEW c \in Caller, pc[c] \in Owning
  PROVE  /\ call[c].op < s_next_op_id
         /\ \A d \in Caller : pc[d] \in Owning /\ call[d].op = call[c].op
                               => d = c
<1>1. /\ call[c].slot \in Slot /\ s_inflight[call[c].slot].in_use
      /\ s_inflight[call[c].slot].op_id = call[c].op
      /\ \A d \in Caller \ {c} : ~Owns(d, call[c].slot)
  BY OwnFacts
<1>2. ASSUME NEW d \in Caller, pc[d] \in Owning, call[d].op = call[c].op
      PROVE  d = c
  <2>1. /\ call[d].slot \in Slot /\ s_inflight[call[d].slot].in_use
        /\ s_inflight[call[d].slot].op_id = call[d].op
        /\ Owns(d, call[d].slot)
    BY <1>2, OwnFacts
  <2>2. call[d].slot = call[c].slot
    BY <1>1, <1>2, <2>1 DEF HostInv, OpIdUnique
  <2> QED
    BY <1>1, <2>1, <2>2
<1> QED
  BY <1>1, <1>2 DEF HostInv, OpIdsIssued

(* A step that neither sends nor issues, and moves no caller to "send".    *)
LEMMA QuietStep ==
  ASSUME TypeOK, TypeOK', RequestsOnce,
         UNCHANGED <<s_next_op_id, answers, reqs>>,
         \A c \in Caller : pc'[c] = "send" => pc[c] = "send",
         \A c \in Caller : pc'[c] \in Owning =>
           pc[c] \in Owning /\ call'[c].op = call[c].op
  PROVE  RequestsOnce'
  BY DEF RequestsOnce, Owning

(* do_call sends each op id once, and the slave answers it once.           *)
LEMMA RequestsStep ==
  ASSUME HostInv, TypeOK', RequestsOnce, [Next]_vars
  PROVE  RequestsOnce'
<1>0. TypeOK /\ pc \in [Caller -> PC] /\ call \in [Caller -> Locals]
      /\ reqs \in Seq(Request) /\ s_next_op_id \in Nat
  BY DEF HostInv, TypeOK
<1>1. ASSUME NEW c \in Caller, NEW m \in MsgId, NEW cap \in {0, 1},
             Enter(c, m, cap)
      PROVE  RequestsOnce'
  BY <1>0, <1>1, QuietStep DEF Enter, Owning
<1>2. ASSUME NEW c \in Caller, CallStep(c) PROVE RequestsOnce'
  <2>1. CASE Lock(c) \/ ScanFull(c) \/ GiveUp(c) \/ Release(c)
    BY <1>0, <2>1, QuietStep DEF Lock, ScanFull, GiveUp, Release, Return,
       Owning
  <2>2. CASE Scan(c)
    BY <1>0, <2>2, QuietStep DEF Scan, Owning
  <2>3. CASE Fill(c)
    <3>1. /\ s_next_op_id' = s_next_op_id + 1 /\ UNCHANGED <<answers, reqs>>
          /\ call'[c].op = s_next_op_id /\ pc'[c] = "send"
          /\ \A d \in Caller \ {c} : call'[d] = call[d] /\ pc'[d] = pc[d]
      BY <1>0, <2>3 DEF Fill, Locals
    <3>2. /\ \A k \in 1 .. Len(reqs) : reqs[k].op_id \in 1 .. s_next_op_id - 1
          /\ \A a \in answers : a.op_id \in 1 .. s_next_op_id - 1
          /\ s_next_op_id >= 1
      BY DEF RequestsOnce
    <3>3. /\ \A k \in 1 .. Len(reqs) : /\ reqs[k].op_id \in 1 .. s_next_op_id
                                       /\ reqs[k].op_id # s_next_op_id
          /\ \A a \in answers : /\ a.op_id \in 1 .. s_next_op_id
                                /\ a.op_id # s_next_op_id
      BY <3>2, <1>0
    <3> QED
      BY <3>1, <3>3, <1>0 DEF RequestsOnce
  <2>4. CASE Transmit(c)
    <3> DEFINE r == [op_id |-> call[c].op, msg_id |-> call[c].want]
    <3>1. /\ r \in Request /\ reqs' = Append(reqs, r)
          /\ UNCHANGED <<answers, s_next_op_id, call>>
          /\ \A d \in Caller \ {c} : pc'[d] = pc[d]
          /\ pc[c] = "send" /\ pc'[c] = "sending" /\ r.op_id = call[c].op
      BY <1>0, <2>4 DEF Transmit, Locals, Request
    <3> HIDE DEF r
    <3>2. /\ Len(reqs') = Len(reqs) + 1 /\ Len(reqs) \in Nat
          /\ \A k \in 1 .. Len(reqs) : reqs'[k] = reqs[k]
          /\ reqs'[Len(reqs) + 1].op_id = call[c].op
      BY <3>1, <1>0, AppendFacts
    <3>3. /\ call[c].op \in 1 .. s_next_op_id - 1
          /\ \A k \in 1 .. Len(reqs) : reqs[k].op_id # call[c].op
          /\ \A a \in answers : a.op_id # call[c].op
          /\ \A d \in Caller : d # c /\ pc[d] = "send" =>
                                 call[d].op # call[c].op
      BY <3>1, <1>0, OwnOp DEF RequestsOnce, Owning, Locals
    <3>4. \A k \in 1 .. Len(reqs') : k \in 1 .. Len(reqs) \/ k = Len(reqs) + 1
      BY <3>2
    <3>5. \A d \in Caller : pc'[d] = "send" => d # c /\ pc[d] = "send"
      BY <3>1
    <3>6. \A d \in Caller : pc'[d] \in Owning => pc[d] \in Owning
      BY <3>1 DEF Owning
    <3>7. /\ \A k \in 1 .. Len(reqs') : reqs'[k].op_id \in 1 .. s_next_op_id - 1
          /\ \A k, l \in 1 .. Len(reqs') :
               reqs'[k].op_id = reqs'[l].op_id => k = l
          /\ \A a \in answers, k \in 1 .. Len(reqs') : a.op_id # reqs'[k].op_id
      BY <3>2, <3>3, <3>4, SMTT(30) DEF RequestsOnce
    <3> QED
      BY <3>1, <3>2, <3>3, <3>4, <3>5, <3>6, <3>7 DEF RequestsOnce
  <2>5. CASE SendOk(c) \/ Wake(c)
    BY <1>0, <2>5, QuietStep DEF SendOk, Wake, Owning
  <2>6. CASE SendErr(c) \/ Timeout(c) \/ ReadStatus(c)
    BY <1>0, <2>6, QuietStep DEF SendErr, Timeout, ReadStatus, Owning, Locals
  <2> QED
    BY <1>2, <2>1, <2>2, <2>3, <2>4, <2>5, <2>6 DEF CallStep
<1>3. ASSUME NEW kind \in AnswerKind, SlaveAnswers(kind[1], kind[2])
      PROVE  RequestsOnce'
  <2> DEFINE a == [op_id |-> Head(reqs).op_id, msg_id |-> Head(reqs).msg_id,
                   status |-> kind[1], size |-> kind[2]]
  <2>1. /\ reqs # <<>> /\ reqs' = Tail(reqs) /\ answers' = answers \union {a}
        /\ UNCHANGED <<pc, call, s_next_op_id>>
    BY <1>3 DEF SlaveAnswers
  <2>2. a.op_id = reqs[1].op_id /\ 1 \in 1 .. Len(reqs)
    BY <2>1, <1>0, TailFacts
  <2>3. \A k \in 1 .. Len(reqs') : k + 1 \in 1 .. Len(reqs) /\ k \in Nat \ {0}
                                   /\ reqs'[k] = reqs[k + 1]
    BY <2>1, <1>0, TailFacts
  <2> HIDE DEF a
  <2> QED
    BY <2>1, <2>2, <2>3 DEF RequestsOnce, Owning
<1>4. CASE SlaveSilent
  <2>1. /\ reqs # <<>> /\ reqs' = Tail(reqs)
        /\ UNCHANGED <<pc, call, s_next_op_id, answers>>
    BY <1>4 DEF SlaveSilent
  <2>2. \A k \in 1 .. Len(reqs') : k + 1 \in 1 .. Len(reqs) /\ k \in Nat \ {0}
                                   /\ reqs'[k] = reqs[k + 1]
    BY <2>1, <1>0, TailFacts
  <2> QED
    BY <2>1, <2>2 DEF RequestsOnce, Owning
<1>5. CASE RxStep \/ UNCHANGED vars
  <2>1. UNCHANGED <<pc, call, s_next_op_id, answers, reqs>>
    BY <1>5 DEF RxStep, RxDrop, RxMatch, RxWriteStatus, RxCopyBody, RxGive
  <2> QED
    BY <2>1 DEF RequestsOnce
<1> QED
  BY <1>1, <1>2, <1>3, <1>4, <1>5 DEF Next

(* An answer is on its way, or in on_response's hands, but not both.       *)
LEMMA AnswersStep ==
  ASSUME HostInv, TypeOK', RequestsOnce, AnswersOnce, [Next]_vars
  PROVE  AnswersOnce'
<1>0. wire \in Seq(Answer) /\ rx \in [pc: RxPC, ans: Answer, slot: Slot]
  BY DEF HostInv, TypeOK
<1>1. CASE UNCHANGED <<wire, rx>>
  BY <1>1 DEF AnswersOnce
<1>2. ASSUME NEW kind \in AnswerKind, SlaveAnswers(kind[1], kind[2])
      PROVE  AnswersOnce'
  <2> DEFINE a == [op_id |-> Head(reqs).op_id, msg_id |-> Head(reqs).msg_id,
                   status |-> kind[1], size |-> kind[2]]
  <2>1. reqs # <<>> /\ wire' = Append(wire, a) /\ rx' = rx
    BY <1>2 DEF SlaveAnswers
  <2>2. a.op_id = reqs[1].op_id /\ 1 \in 1 .. Len(reqs)
    BY <2>1, TailFacts DEF HostInv, TypeOK
  <2>3. /\ \A k \in 1 .. Len(wire) : wire[k] \in answers
        /\ rx.pc # "idle" => rx.ans \in answers
    BY DEF HostInv, Provenance
  <2>4. /\ \A k \in 1 .. Len(wire) : wire[k].op_id # a.op_id
        /\ rx.pc # "idle" => rx.ans.op_id # a.op_id
    BY <2>2, <2>3 DEF RequestsOnce
  <2>5. /\ Len(wire') = Len(wire) + 1 /\ Len(wire) \in Nat
        /\ \A k \in 1 .. Len(wire) : wire'[k] = wire[k]
        /\ wire'[Len(wire) + 1] = a
    BY <2>1, <1>0, AppendFacts
  <2>6. \A k \in 1 .. Len(wire') : k \in 1 .. Len(wire) \/ k = Len(wire) + 1
    BY <2>5
  <2> HIDE DEF a
  <2>7. \A k, l \in 1 .. Len(wire') : wire'[k].op_id = wire'[l].op_id => k = l
    BY <2>4, <2>5, <2>6 DEF AnswersOnce
  <2>8. rx'.pc # "idle" =>
          \A k \in 1 .. Len(wire') : wire'[k].op_id # rx'.ans.op_id
    BY <2>1, <2>4, <2>5, <2>6 DEF AnswersOnce
  <2> QED
    BY <2>7, <2>8 DEF AnswersOnce
<1>3. ASSUME wire # <<>>, wire' = Tail(wire),
             rx'.pc # "idle" => rx'.ans = Head(wire), rx.pc = "idle"
      PROVE  AnswersOnce'
  <2>1. \A k \in 1 .. Len(wire') : k + 1 \in 1 .. Len(wire) /\ k \in Nat \ {0}
                                   /\ wire'[k] = wire[k + 1]
    BY <1>3, <1>0, TailFacts
  <2>2. 1 \in 1 .. Len(wire) /\ Head(wire) = wire[1]
    BY <1>3, <1>0, TailFacts
  <2> QED
    BY <1>3, <2>1, <2>2 DEF AnswersOnce
<1>4. CASE RxDrop \/ RxMatch
  BY <1>3, <1>4 DEF RxDrop, RxMatch
<1>5. CASE RxWriteStatus \/ RxCopyBody \/ RxGive
  <2>1. wire' = wire /\ (rx'.pc # "idle" => rx.pc # "idle" /\ rx'.ans = rx.ans)
    BY <1>5, <1>0 DEF RxWriteStatus, RxCopyBody, RxGive
  <2> QED
    BY <2>1 DEF AnswersOnce
<1> QED
  BY <1>1, <1>2, <1>4, <1>5 DEF Next, RxStep, CallStep, Enter, Lock, Scan,
     ScanFull, Fill, Transmit, SendOk, SendErr, Wake, Timeout, GiveUp,
     ReadStatus, Release, SlaveSilent

(* The call on slot i has been signalled or has taken the signal.          *)
Served(i) == done[i] = 1 \/ \E c \in Caller :
                              Owns(c, i) /\ pc[c] \in {"woken", "read"}

(* on_response is at work on slot i.                                       *)
Busy(i) == rx.pc # "idle" /\ rx.slot = i

(* Slot i holds all of an answer to its operation.                         *)
Complete(i) ==
  \E a \in answers :
    /\ a.op_id = s_inflight[i].op_id
    /\ a.status = s_inflight[i].status
    /\ s_inflight[i].out_len = IF a.size = "body" THEN s_inflight[i].out_cap
                                                  ELSE 0

(* How far the answer to the call on slot i has come.                      *)
SlotProgress(i) ==
  /\ Served(i) =>
       /\ s_inflight[i].in_use /\ ~Busy(i) /\ Complete(i)
       /\ \A k \in 1 .. Len(wire) : wire[k].op_id # s_inflight[i].op_id
  /\ done[i] = 1 =>
       \A c \in Caller : Owns(c, i) => pc[c] \notin {"woken", "read"}
  /\ Busy(i) => /\ s_inflight[i].in_use
                /\ rx.pc \in {"copy", "give"} =>
                     s_inflight[i].status = rx.ans.status
  /\ s_inflight[i].in_use /\ ~Served(i) =>
       s_inflight[i].out_len =
         IF Busy(i) /\ rx.pc = "give" /\ rx.ans.size = "body"
         THEN s_inflight[i].out_cap ELSE 0

Undisturbed == \A i \in Slot \ abandoned : SlotProgress(i)

(* A step that leaves slot i, its owner and its answer alone.              *)
LEMMA SlotUntouched ==
  ASSUME NEW i \in Slot, SlotProgress(i),
         s_inflight'[i] = s_inflight[i], done'[i] = done[i],
         Busy(i)' <=> Busy(i), Busy(i) => rx' = rx,
         answers \subseteq answers',
         Served(i) => \A k \in 1 .. Len(wire') :
                         wire'[k].op_id # s_inflight[i].op_id,
         \A c \in Caller :
           Owns(c, i)' /\ pc'[c] \in {"woken", "read"} <=>
           Owns(c, i) /\ pc[c] \in {"woken", "read"}
  PROVE  SlotProgress(i)'
<1>1. Served(i)' <=> Served(i)
  BY DEF Served
<1>2. Complete(i) => Complete(i)'
  BY DEF Complete
<1>3. done'[i] = 1 =>
        \A c \in Caller : Owns(c, i)' => pc'[c] \notin {"woken", "read"}
  BY DEF SlotProgress
<1> QED
  BY <1>1, <1>2, <1>3 DEF SlotProgress

(* A step of a caller that keeps, or does not have, a slot, and leaves the *)
(* table and on_response alone.                                            *)
LEMMA CallerStays ==
  ASSUME HostInv, Undisturbed, NEW c \in Caller,
         UNCHANGED <<s_inflight, done, rx, wire, answers, abandoned>>,
         \A d \in Caller \ {c} : pc'[d] = pc[d] /\ call'[d] = call[d],
         pc'[c] \in Owning <=> pc[c] \in Owning,
         pc[c] \in Owning => call'[c].slot = call[c].slot,
         pc'[c] \in {"woken", "read"} <=> pc[c] \in {"woken", "read"}
  PROVE  Undisturbed'
<1> SUFFICES ASSUME NEW i \in Slot \ abandoned PROVE SlotProgress(i)'
  BY DEF Undisturbed
<1>1. SlotProgress(i)
  BY DEF Undisturbed
<1>2. \A d \in Caller : Owns(d, i)' /\ pc'[d] \in {"woken", "read"} <=>
                        Owns(d, i) /\ pc[d] \in {"woken", "read"}
  BY DEF Owns
<1>3. Served(i) => \A k \in 1 .. Len(wire') :
                     wire'[k].op_id # s_inflight[i].op_id
  BY <1>1 DEF SlotProgress
<1> QED
  BY <1>1, <1>2, <1>3, SlotUntouched DEF Busy

(* Freeing a slot leaves the others alone.                                 *)
LEMMA FreeUndisturbed ==
  ASSUME HostInv, Undisturbed, NEW c \in Caller, pc[c] \in Owning,
         NEW r, Return(c, r),
         s_inflight' = [s_inflight EXCEPT ![call[c].slot].in_use = FALSE],
         abandoned \subseteq abandoned', abandoned' \subseteq Slot,
         call[c].slot \in abandoned' \/ pc[c] \in {"woken", "read"},
         UNCHANGED <<done, rx, wire, answers>>
  PROVE  Undisturbed'
<1> SUFFICES ASSUME NEW i \in Slot \ abandoned' PROVE SlotProgress(i)'
  BY DEF Undisturbed
<1>1. SlotProgress(i)
  BY DEF Undisturbed
<1>0. /\ pc \in [Caller -> PC] /\ s_inflight \in [Slot -> SlotRecord]
      /\ call \in [Caller -> Locals]
  BY DEF HostInv, TypeOK
<1>2. /\ pc' = [pc EXCEPT ![c] = "idle"]
      /\ call' = [call EXCEPT ![c] = NoCall]
  BY DEF Return
<1>3. pc'[c] = "idle" /\ \A d \in Caller \ {c} : pc'[d] = pc[d]
                                                  /\ call'[d] = call[d]
  BY <1>0, <1>2
<1>4. \A d \in Caller : Owns(d, i)' <=> d # c /\ Owns(d, i)
  BY <1>3 DEF Owns, Owning
<1>5. CASE i # call[c].slot
  <2>1. s_inflight'[i] = s_inflight[i]
    BY <1>5, <1>0
  <2>2. ~Owns(c, i)
    BY <1>5 DEF Owns
  <2>3. \A d \in Caller : Owns(d, i)' /\ pc'[d] \in {"woken", "read"} <=>
                          Owns(d, i) /\ pc[d] \in {"woken", "read"}
    BY <2>2, <1>3, <1>4
  <2>4. Served(i) => \A k \in 1 .. Len(wire') :
                       wire'[k].op_id # s_inflight[i].op_id
    BY <1>1 DEF SlotProgress
  <2> QED
    BY <1>1, <2>1, <2>3, <2>4, SlotUntouched DEF Busy
<1>6. CASE i = call[c].slot
  <2>1. pc[c] \in {"woken", "read"} /\ Owns(c, i)
    BY <1>6 DEF Owns
  <2>2. Served(i) /\ ~Busy(i) /\ done[i] # 1
    BY <1>1, <2>1 DEF SlotProgress, Served
  <2>3. ~Busy(i)'
    BY <2>2 DEF Busy
  <2>4. \A d \in Caller : ~Owns(d, i)'
    BY <1>4, <1>6, OwnFacts
  <2>5. ~Served(i)'
    BY <2>2, <2>4 DEF Served
  <2>6. ~s_inflight'[i].in_use
    BY <1>0, <1>6 DEF SlotRecord
  <2> QED
    BY <2>2, <2>3, <2>5, <2>6 DEF SlotProgress
<1> QED
  BY <1>5, <1>6

(* Filling a slot starts its progress afresh.                              *)
LEMMA FillUndisturbed ==
  ASSUME HostInv, Undisturbed, NEW c \in Caller, Fill(c)
  PROVE  Undisturbed'
<1> SUFFICES ASSUME NEW i \in Slot \ abandoned PROVE SlotProgress(i)'
  BY DEF Undisturbed, Fill
<1> DEFINE n == call[c].slot
<1>1. SlotProgress(i)
  BY DEF Undisturbed
<1>0. /\ pc \in [Caller -> PC] /\ s_inflight \in [Slot -> SlotRecord]
      /\ call \in [Caller -> Locals] /\ done \in [Slot -> {0, 1}]
      /\ s_next_op_id \in Nat
  BY DEF HostInv, TypeOK
<1>2. /\ pc[c] = "fill" /\ pc'[c] = "send" /\ call'[c].slot = n
      /\ \A d \in Caller \ {c} : pc'[d] = pc[d] /\ call'[d] = call[d]
  BY <1>0 DEF Fill, Locals
<1>3. ~s_inflight[n].in_use /\ n \in Slot
  BY <1>0, <1>2 DEF HostInv, Reservation, Free, Locals
<1>4. UNCHANGED <<done, rx, wire, answers, abandoned>>
  BY DEF Fill
<1>5. CASE i # n
  <2>1. s_inflight'[i] = s_inflight[i]
    BY <1>5, <1>0 DEF Fill
  <2>2. \A d \in Caller : Owns(d, i)' <=> Owns(d, i)
    BY <1>2, <1>5 DEF Owns, Owning
  <2>3. \A d \in Caller : Owns(d, i)' /\ pc'[d] \in {"woken", "read"} <=>
                          Owns(d, i) /\ pc[d] \in {"woken", "read"}
    BY <2>2, <1>2
  <2>4. Served(i) => \A k \in 1 .. Len(wire') :
                       wire'[k].op_id # s_inflight[i].op_id
    BY <1>1, <1>4 DEF SlotProgress
  <2> QED
    BY <1>1, <1>4, <2>1, <2>3, <2>4, SlotUntouched DEF Busy
<1>6. CASE i = n
  <2>1. ~Served(i) /\ ~Busy(i)
    BY <1>1, <1>3, <1>6 DEF SlotProgress
  <2>2. \A d \in Caller : ~Owns(d, i)
    BY <1>3, <1>6 DEF HostInv, SlotOwnership
  <2>3. \A d \in Caller : Owns(d, i)' => pc'[d] = "send"
    BY <2>2, <1>2 DEF Owns
  <2>4. ~Served(i)' /\ ~Busy(i)'
    BY <2>1, <2>3, <1>4 DEF Served, Busy
  <2>5. done'[i] # 1
    BY <2>1, <1>4 DEF Served
  <2>6. s_inflight'[i].out_len = 0
    BY <1>0, <1>6 DEF Fill
  <2> QED
    BY <2>4, <2>5, <2>6 DEF SlotProgress
<1> QED
  BY <1>5, <1>6

(* Taking the signal: the slot stays served, through its owner.            *)
LEMMA WakeUndisturbed ==
  ASSUME HostInv, Undisturbed, NEW c \in Caller, Wake(c)
  PROVE  Undisturbed'
<1> SUFFICES ASSUME NEW i \in Slot \ abandoned PROVE SlotProgress(i)'
  BY DEF Undisturbed, Wake
<1> DEFINE n == call[c].slot
<1>1. SlotProgress(i)
  BY DEF Undisturbed
<1>0. /\ pc \in [Caller -> PC] /\ done \in [Slot -> {0, 1}]
      /\ call \in [Caller -> Locals]
  BY DEF HostInv, TypeOK
<1>2. /\ pc[c] = "wait" /\ pc'[c] = "woken" /\ done[n] = 1
      /\ done' = [done EXCEPT ![n] = 0]
      /\ UNCHANGED <<s_inflight, call, rx, wire, answers, abandoned>>
      /\ \A d \in Caller \ {c} : pc'[d] = pc[d]
  BY <1>0 DEF Wake
<1>3. n \in Slot /\ Owns(c, n) /\ \A d \in Caller \ {c} : ~Owns(d, n)
  BY <1>2, OwnFacts DEF Owning
<1>4. \A d \in Caller : Owns(d, i)' <=> Owns(d, i)
  BY <1>2 DEF Owns, Owning
<1>5. CASE i # n
  <2>1. done'[i] = done[i]
    BY <1>5, <1>2, <1>0
  <2>2. ~Owns(c, i)
    BY <1>5 DEF Owns
  <2>3. \A d \in Caller : Owns(d, i)' /\ pc'[d] \in {"woken", "read"} <=>
                          Owns(d, i) /\ pc[d] \in {"woken", "read"}
    BY <2>2, <1>2, <1>4
  <2>4. Served(i) => \A k \in 1 .. Len(wire') :
                       wire'[k].op_id # s_inflight[i].op_id
    BY <1>1, <1>2 DEF SlotProgress
  <2> QED
    BY <1>1, <1>2, <2>1, <2>3, <2>4, SlotUntouched DEF Busy
<1>6. CASE i = n
  <2>1. Served(i) /\ Served(i)'
    BY <1>2, <1>3, <1>4, <1>6 DEF Served
  <2>2. done'[i] # 1
    BY <1>0, <1>2, <1>3, <1>6
  <2>3. Complete(i)' /\ ~Busy(i)'
    BY <1>1, <1>2, <2>1 DEF SlotProgress, Complete, Busy
  <2> QED
    BY <1>1, <1>2, <2>1, <2>2, <2>3 DEF SlotProgress
<1> QED
  BY <1>5, <1>6

(* Every step of do_call.                                                  *)
LEMMA CallUndisturbed ==
  ASSUME HostInv, TypeOK', Undisturbed, NEW c \in Caller,
         \/ \E m \in MsgId, cap \in {0, 1} : Enter(c, m, cap)
         \/ CallStep(c)
  PROVE  Undisturbed'
<1>0. /\ pc \in [Caller -> PC] /\ call \in [Caller -> Locals]
      /\ call[c].slot \in Slot /\ abandoned \subseteq Slot
  BY DEF HostInv, TypeOK, Locals
<1>1. CASE \E m \in MsgId, cap \in {0, 1} : Enter(c, m, cap)
  BY <1>0, <1>1, CallerStays DEF Enter, Owning
<1>2. CASE Lock(c) \/ Scan(c)
  BY <1>0, <1>2, CallerStays DEF Lock, Scan, Owning
<1>3. CASE ScanFull(c)
  BY <1>0, <1>3, CallerStays DEF ScanFull, Return, Owning
<1>4. CASE Fill(c)
  BY <1>4, FillUndisturbed
<1>5. CASE Transmit(c) \/ SendOk(c)
  BY <1>0, <1>5, CallerStays DEF Transmit, SendOk, Owning
<1>6. CASE SendErr(c) \/ Timeout(c) \/ ReadStatus(c)
  <2>1. call'[c].slot = call[c].slot
    BY <1>0, <1>6 DEF SendErr, Timeout, ReadStatus, Locals
  <2> QED
    BY <1>0, <1>6, <2>1, CallerStays DEF SendErr, Timeout, ReadStatus, Owning
<1>7. CASE Wake(c)
  BY <1>7, WakeUndisturbed
<1>8. CASE GiveUp(c)
  <2> DEFINE r == [NoResult EXCEPT !.code = call[c].err, !.op = call[c].op]
  <2>1. /\ pc[c] \in Owning /\ Return(c, r)
        /\ s_inflight' = [s_inflight EXCEPT ![call[c].slot].in_use = FALSE]
        /\ abandoned' = abandoned \union {call[c].slot}
        /\ UNCHANGED <<done, rx, wire, answers>>
    BY <1>8 DEF GiveUp, Owning
  <2> HIDE DEF r
  <2> QED
    BY <1>0, <2>1, FreeUndisturbed
<1>9. CASE Release(c)
  <2> DEFINE r == [code |-> "RESP", op |-> call[c].op, status |-> call[c].st,
                   len |-> s_inflight[call[c].slot].out_len]
  <2>1. /\ pc[c] \in Owning /\ pc[c] = "read" /\ Return(c, r)
        /\ s_inflight' = [s_inflight EXCEPT ![call[c].slot].in_use = FALSE]
        /\ UNCHANGED <<done, rx, wire, answers, abandoned>>
    BY <1>9 DEF Release, Owning
  <2> HIDE DEF r
  <2> QED
    BY <1>0, <2>1, FreeUndisturbed
<1> QED
  BY <1>1, <1>2, <1>3, <1>4, <1>5, <1>6, <1>7, <1>8, <1>9 DEF CallStep

(* The slave answers an operation once: not one that is already served.    *)
LEMMA SlaveUndisturbed ==
  ASSUME HostInv, RequestsOnce, Undisturbed,
         (\E kind \in AnswerKind : SlaveAnswers(kind[1], kind[2]))
           \/ SlaveSilent
  PROVE  Undisturbed'
<1> SUFFICES ASSUME NEW i \in Slot \ abandoned PROVE SlotProgress(i)'
  BY DEF Undisturbed, SlaveAnswers, SlaveSilent
<1>1. SlotProgress(i)
  BY DEF Undisturbed
<1>2. UNCHANGED hostVars /\ answers \subseteq answers'
  BY DEF SlaveAnswers, SlaveSilent
<1>3. Served(i) => \A k \in 1 .. Len(wire') :
                     wire'[k].op_id # s_inflight[i].op_id
  <2> SUFFICES ASSUME Served(i), NEW k \in 1 .. Len(wire')
               PROVE  wire'[k].op_id # s_inflight[i].op_id
    OBVIOUS
  <2>1. \A l \in 1 .. Len(wire) : wire[l].op_id # s_inflight[i].op_id
    BY <1>1 DEF SlotProgress
  <2>2. PICK a \in answers : a.op_id = s_inflight[i].op_id
    BY <1>1 DEF SlotProgress, Complete
  <2>3. CASE SlaveSilent
    BY <2>1, <2>3 DEF SlaveSilent
  <2>4. ASSUME NEW kind \in AnswerKind, SlaveAnswers(kind[1], kind[2])
        PROVE  wire'[k].op_id # s_inflight[i].op_id
    <3> DEFINE b == [op_id |-> Head(reqs).op_id, msg_id |-> Head(reqs).msg_id,
                     status |-> kind[1], size |-> kind[2]]
    <3>1. reqs # <<>> /\ wire' = Append(wire, b) /\ b.op_id = Head(reqs).op_id
      BY <2>4 DEF SlaveAnswers
    <3> HIDE DEF b
    <3>2. b.op_id = reqs[1].op_id /\ 1 \in 1 .. Len(reqs)
      BY <3>1, TailFacts DEF HostInv, TypeOK
    <3>3. b.op_id # s_inflight[i].op_id
      BY <3>2, <2>2 DEF RequestsOnce
    <3>4. (k \in 1 .. Len(wire) /\ wire'[k] = wire[k]) \/ wire'[k] = b
      BY <3>1 DEF HostInv, TypeOK
    <3> QED
      BY <3>3, <3>4, <2>1
  <2> QED
    BY <2>3, <2>4
<1> QED
  BY <1>1, <1>2, <1>3, SlotUntouched DEF Busy, Owns

(* on_response works on a slot in use whose call has not been served.      *)
LEMMA RxUndisturbed ==
  ASSUME HostInv, AnswersOnce, Undisturbed, RxStep
  PROVE  Undisturbed'
<1> SUFFICES ASSUME NEW i \in Slot \ abandoned PROVE SlotProgress(i)'
  BY DEF Undisturbed, RxStep, RxDrop, RxMatch, RxWriteStatus, RxCopyBody,
         RxGive
<1>1. SlotProgress(i)
  BY DEF Undisturbed
<1>0. /\ s_inflight \in [Slot -> SlotRecord] /\ done \in [Slot -> {0, 1}]
      /\ wire \in Seq(Answer) /\ rx \in [pc: RxPC, ans: Answer, slot: Slot]
      /\ rx.slot \in Slot /\ rx.pc \in RxPC /\ rx.ans \in Answer
  BY DEF HostInv, TypeOK
<1>2. /\ UNCHANGED <<pc, call, answers>>
      /\ \A c \in Caller : Owns(c, i)' <=> Owns(c, i)
  BY DEF RxStep, RxDrop, RxMatch, RxWriteStatus, RxCopyBody, RxGive, Owns
<1>3. wire # <<>> => \A k \in 1 .. Len(Tail(wire)) :
                       k + 1 \in 1 .. Len(wire) /\ Tail(wire)[k] = wire[k + 1]
  BY <1>0, TailFacts
<1>4. CASE RxDrop
  <2>1. Served(i) => \A k \in 1 .. Len(wire') :
                       wire'[k].op_id # s_inflight[i].op_id
    BY <1>1, <1>3, <1>4 DEF RxDrop, SlotProgress
  <2> QED
    BY <1>1, <1>2, <1>4, <2>1, SlotUntouched DEF RxDrop, Busy
<1>5. CASE RxMatch
  <2>1. PICK j \in Slot :
          /\ Matches(j, Head(wire))
          /\ rx' = [pc |-> "status", ans |-> Head(wire), slot |-> j]
    BY <1>5 DEF RxMatch
  <2>2. /\ rx.pc = "idle" /\ wire # <<>> /\ wire' = Tail(wire)
        /\ UNCHANGED <<s_inflight, done>>
    BY <1>5 DEF RxMatch
  <2>3. Served(i) => \A k \in 1 .. Len(wire') :
                       wire'[k].op_id # s_inflight[i].op_id
    BY <1>1, <1>3, <2>2 DEF SlotProgress
  <2>4. Served(i) => j # i
    BY <1>0, <1>1, <2>1, <2>2, TailFacts DEF SlotProgress, Matches
  <2>5. CASE j # i
    BY <1>1, <1>2, <2>1, <2>2, <2>3, <2>5, SlotUntouched DEF Busy
  <2>6. CASE j = i
    <3>1. ~Served(i) /\ s_inflight[i].in_use
      BY <2>1, <2>4, <2>6 DEF Matches
    <3>2. ~Served(i)'
      BY <3>1, <1>2, <2>2 DEF Served
    <3>3. ~Busy(i) /\ rx'.pc = "status"
      BY <2>1, <2>2 DEF Busy
    <3>4. done'[i] # 1
      BY <3>1, <2>2 DEF Served
    <3> QED
      BY <1>1, <2>2, <3>1, <3>2, <3>3, <3>4 DEF SlotProgress
  <2> QED
    BY <2>5, <2>6
<1>6. CASE RxWriteStatus
  <2>1. /\ rx.pc = "status" /\ rx'.pc = "copy" /\ rx'.slot = rx.slot
        /\ rx'.ans = rx.ans /\ UNCHANGED <<done, wire>>
        /\ s_inflight' = [s_inflight EXCEPT ![rx.slot].status = rx.ans.status]
    BY <1>0, <1>6 DEF RxWriteStatus
  <2>2. CASE i # rx.slot
    <3>1. s_inflight'[i] = s_inflight[i] /\ ~Busy(i) /\ ~Busy(i)'
      BY <1>0, <2>1, <2>2 DEF Busy
    <3> QED
      BY <1>1, <1>2, <2>1, <3>1, SlotUntouched DEF SlotProgress
  <2>3. CASE i = rx.slot
    <3>1. Busy(i) /\ Busy(i)' /\ ~Served(i) /\ s_inflight[i].in_use
      BY <1>1, <2>1, <2>3 DEF Busy, SlotProgress
    <3>2. ~Served(i)' /\ done'[i] # 1
      BY <3>1, <1>2, <2>1 DEF Served
    <3>3. /\ s_inflight'[i].in_use /\ s_inflight'[i].status = rx'.ans.status
          /\ s_inflight'[i].out_len = s_inflight[i].out_len
      BY <3>1, <1>0, <2>1, <2>3 DEF SlotRecord
    <3> QED
      BY <1>1, <2>1, <3>1, <3>2, <3>3 DEF SlotProgress
  <2> QED
    BY <2>2, <2>3
<1>7. CASE RxCopyBody
  <2>1. /\ rx.pc = "copy" /\ rx'.pc = "give" /\ rx'.slot = rx.slot
        /\ rx'.ans = rx.ans /\ UNCHANGED <<done, wire>>
    BY <1>0, <1>7 DEF RxCopyBody
  <2>2. CASE i # rx.slot
    <3>1. s_inflight'[i] = s_inflight[i] /\ ~Busy(i) /\ ~Busy(i)'
      BY <1>0, <1>7, <2>1, <2>2 DEF RxCopyBody, Busy
    <3> QED
      BY <1>1, <1>2, <2>1, <3>1, SlotUntouched DEF SlotProgress
  <2>3. CASE i = rx.slot
    <3>1. /\ Busy(i) /\ Busy(i)' /\ ~Served(i) /\ s_inflight[i].in_use
          /\ s_inflight[i].out_len = 0
          /\ s_inflight[i].status = rx.ans.status
      BY <1>1, <2>1, <2>3 DEF Busy, SlotProgress
    <3>2. ~Served(i)' /\ done'[i] # 1
      BY <3>1, <1>2, <2>1 DEF Served
    <3>3. s_inflight[i].out_cap \in {0, 1}
      BY <1>0, <2>3 DEF SlotRecord
    <3>4. /\ s_inflight'[i].in_use /\ s_inflight'[i].status = rx'.ans.status
          /\ s_inflight'[i].out_cap = s_inflight[i].out_cap
          /\ s_inflight'[i].out_len =
               IF rx.ans.size = "body" THEN s_inflight[i].out_cap ELSE 0
      BY <3>1, <3>3, <1>0, <1>7, <2>1, <2>3 DEF RxCopyBody, SlotRecord
    <3> QED
      BY <1>1, <2>1, <3>1, <3>2, <3>4 DEF SlotProgress
  <2> QED
    BY <2>2, <2>3
<1>8. CASE RxGive
  <2>1. /\ rx.pc = "give" /\ rx'.pc = "idle" /\ UNCHANGED <<s_inflight, wire>>
        /\ done' = [done EXCEPT ![rx.slot] = 1]
    BY <1>8 DEF RxGive
  <2>2. CASE i # rx.slot
    <3>1. done'[i] = done[i] /\ ~Busy(i) /\ ~Busy(i)'
      BY <1>0, <2>1, <2>2 DEF Busy
    <3> QED
      BY <1>1, <1>2, <2>1, <3>1, SlotUntouched DEF SlotProgress
  <2>3. CASE i = rx.slot
    <3>1. /\ Busy(i) /\ ~Served(i) /\ s_inflight[i].in_use
          /\ s_inflight[i].status = rx.ans.status
          /\ s_inflight[i].out_len =
               IF rx.ans.size = "body" THEN s_inflight[i].out_cap ELSE 0
      BY <1>1, <2>1, <2>3 DEF Busy, SlotProgress
    <3>2. rx.ans \in answers /\ rx.ans.op_id = s_inflight[i].op_id
      BY <2>1, <2>3 DEF HostInv, Provenance, RxTargetStable
    <3>3. Complete(i)' /\ ~Busy(i)'
      BY <3>1, <3>2, <2>1, <1>2 DEF Complete, Busy
    <3>4. \A k \in 1 .. Len(wire') : wire'[k].op_id # s_inflight'[i].op_id
      BY <3>2, <2>1 DEF AnswersOnce
    <3>5. \A c \in Caller : Owns(c, i)' => pc'[c] \notin {"woken", "read"}
      BY <3>1, <1>2 DEF Served
    <3>6. Served(i)'
      BY <1>0, <2>1, <2>3 DEF Served
    <3> QED
      BY <2>1, <3>1, <3>3, <3>4, <3>5, <3>6 DEF SlotProgress
  <2> QED
    BY <2>2, <2>3
<1> QED
  BY <1>4, <1>5, <1>6, <1>7, <1>8 DEF RxStep

(* The inductive invariant behind the last two properties of a call.       *)
ServedInv == HostInv /\ RequestsOnce /\ AnswersOnce /\ Undisturbed

(* At esp_hosted_open_init no slot is in use.                              *)
LEMMA ServedInit == Init => ServedInv
<1> SUFFICES ASSUME Init PROVE ServedInv
  OBVIOUS
<1>1. HostInv
  BY InitInv
<1>2. RequestsOnce /\ AnswersOnce
  BY DEF Init, RequestsOnce, AnswersOnce, Owning
<1>3. ASSUME NEW i \in Slot PROVE SlotProgress(i)
  <2>1. /\ done[i] = 0 /\ rx.pc = "idle" /\ ~s_inflight[i].in_use
        /\ \A c \in Caller : pc[c] = "idle"
    BY DEF Init
  <2>2. ~Served(i) /\ ~Busy(i)
    BY <2>1 DEF Served, Busy
  <2> QED
    BY <2>1, <2>2 DEF SlotProgress
<1> QED
  BY <1>1, <1>2, <1>3 DEF ServedInv, Undisturbed

(* No step of do_call, on_response or the slave breaks it.                 *)
LEMMA ServedNext == ServedInv /\ [Next]_vars => ServedInv'
<1> SUFFICES ASSUME ServedInv, [Next]_vars PROVE ServedInv'
  OBVIOUS
<1>1. HostInv /\ HostInv' /\ TypeOK'
  BY NextInv DEF ServedInv, HostInv
<1>2. RequestsOnce' /\ AnswersOnce'
  BY <1>1, RequestsStep, AnswersStep DEF ServedInv
<1>3. Undisturbed'
  <2>1. CASE UNCHANGED vars
    BY <2>1 DEF ServedInv, Undisturbed, SlotProgress, Served, Busy, Complete,
       Owns
  <2> QED
    BY <2>1, <1>1, CallUndisturbed, SlaveUndisturbed, RxUndisturbed
       DEF ServedInv, Next
<1> QED
  BY <1>1, <1>2, <1>3 DEF ServedInv

(* ServedInv holds throughout.                                             *)
LEMMA ServedAlways == Spec => []ServedInv
<1> QED
  BY ServedInit, ServedNext, PTL DEF Spec

(* A call that wakes because its slot was signalled finds the status and   *)
(* the whole body of its own answer there, unless a call on that slot gave *)
(* up before it: the one way do_call's unlocked slot release can hurt.     *)
THEOREM AnswersComplete == Spec => []CompleteUnlessAbandoned
<1>1. ASSUME ServedInv PROVE CompleteUnlessAbandoned
  <2> SUFFICES ASSUME NEW c \in Caller, pc[c] \in {"woken", "read"},
                      call[c].slot \notin abandoned
      PROVE /\ rx.pc = "idle" \/ rx.slot # call[c].slot
            /\ \E a \in answers :
                 /\ a.op_id = call[c].op
                 /\ a.status = s_inflight[call[c].slot].status
                 /\ s_inflight[call[c].slot].out_len =
                      IF a.size = "body" THEN s_inflight[call[c].slot].out_cap
                      ELSE 0
    BY DEF CompleteUnlessAbandoned
  <2>1. /\ call[c].slot \in Slot /\ Owns(c, call[c].slot)
        /\ s_inflight[call[c].slot].op_id = call[c].op
    BY <1>1, OwnFacts DEF ServedInv, Owning
  <2>2. Served(call[c].slot) /\ SlotProgress(call[c].slot)
    BY <1>1, <2>1 DEF Served, ServedInv, Undisturbed
  <2> QED
    BY <2>1, <2>2 DEF SlotProgress, Busy, Complete
<1> QED
  BY <1>1, ServedAlways, PTL

(* on_response copies a body only into the buffer of a call that is still  *)
(* inside do_call, on a slot no call has given up on.                      *)
THEOREM BodiesGoToLiveCalls == Spec => []BodyGoesToLiveCall
<1>1. ASSUME ServedInv PROVE BodyGoesToLiveCall
  <2> SUFFICES ASSUME rx.pc = "copy", rx.slot \notin abandoned
      PROVE \E c \in Caller : Owns(c, rx.slot) /\ call[c].op = rx.ans.op_id
    BY DEF BodyGoesToLiveCall
  <2>1. rx.slot \in Slot /\ Busy(rx.slot)
    BY <1>1 DEF ServedInv, HostInv, TypeOK, Busy
  <2>2. s_inflight[rx.slot].in_use
    BY <1>1, <2>1 DEF ServedInv, Undisturbed, SlotProgress
  <2> QED
    BY <1>1, <2>1, <2>2 DEF ServedInv, HostInv, SlotOwnership, RxTargetStable
<1> QED
  BY <1>1, ServedAlways, PTL

-----------------------------------------------------------------------------
(* The dispatcher implements RpcService.                                   *)

(* Before it has an operation a call has no result either.                 *)
BeforeOp == \A c \in Caller :
  /\ pc[c] \in {"idle", "lock", "scan", "fill"} => call[c].op = 0
  /\ pc[c] # "idle" => result[c] = NoResult

(* Enter and Return reset what BeforeOp says they do.                      *)
LEMMA BeforeOpNext ==
  ASSUME TypeOK, BeforeOp, [Next]_vars
  PROVE  BeforeOp'
<1>0. /\ pc \in [Caller -> PC] /\ call \in [Caller -> Locals]
      /\ result \in [Caller -> Result]
  BY DEF TypeOK
<1>1. CASE UNCHANGED <<pc, call, result>>
  BY <1>1 DEF BeforeOp
<1>2. ASSUME NEW c \in Caller,
             \/ \E m \in MsgId, cap \in {0, 1} : Enter(c, m, cap)
             \/ CallStep(c)
      PROVE  BeforeOp'
  <2>1. \A d \in Caller \ {c} : /\ pc'[d] = pc[d] /\ call'[d] = call[d]
                                /\ result'[d] = result[d]
    BY <1>0, <1>2 DEF CallStep, Enter, Lock, Scan, ScanFull, Fill, Transmit,
       SendOk, SendErr, Wake, Timeout, GiveUp, ReadStatus, Release, Return
  <2>2. CASE \E m \in MsgId, cap \in {0, 1} : Enter(c, m, cap)
    <3>1. pc[c] = "idle" /\ call'[c].op = call[c].op /\ result'[c] = NoResult
      BY <1>0, <2>2 DEF Enter, Locals
    <3> QED
      BY <2>1, <3>1 DEF BeforeOp
  <2>3. CASE Lock(c) \/ Scan(c)
    <3>1. pc[c] \in {"lock", "scan"} /\ call'[c].op = call[c].op
          /\ result'[c] = result[c]
      BY <1>0, <2>3 DEF Lock, Scan, Locals
    <3> QED
      BY <2>1, <3>1 DEF BeforeOp
  <2>4. CASE ScanFull(c) \/ GiveUp(c) \/ Release(c)
    <3>1. pc'[c] = "idle" /\ call'[c].op = 0
      BY <1>0, <2>4 DEF ScanFull, GiveUp, Release, Return, NoCall
    <3> QED
      BY <2>1, <3>1 DEF BeforeOp
  <2>5. CASE \/ Fill(c) \/ Transmit(c) \/ SendOk(c) \/ SendErr(c) \/ Wake(c)
             \/ Timeout(c) \/ ReadStatus(c)
    <3>1. /\ pc[c] # "idle" /\ result'[c] = result[c]
          /\ pc'[c] \notin {"idle", "lock", "scan", "fill"}
      BY <1>0, <2>5 DEF Fill, Transmit, SendOk, SendErr, Wake, Timeout,
         ReadStatus
    <3> QED
      BY <2>1, <3>1 DEF BeforeOp
  <2> QED
    BY <1>2, <2>2, <2>3, <2>4, <2>5 DEF CallStep
<1> QED
  BY <1>1, <1>2 DEF Next, SlaveAnswers, SlaveSilent, RxStep, RxDrop, RxMatch,
     RxWriteStatus, RxCopyBody, RxGive

(* The steps of the dispatcher that RpcService does not see.               *)
LEMMA Unseen ==
  ASSUME TypeOK, UNCHANGED <<s_next_op_id, answers>>,
         \A d \in Caller : /\ PhaseOf(d)' = PhaseOf(d)
                           /\ call'[d].op = call[d].op
                           /\ result'[d].op = result[d].op
                           /\ result'[d].status = result[d].status
  PROVE  UNCHANGED Service!svars
  BY DEF Service!svars

(* The slave's answer is a Say: its operation has no answer yet.           *)
LEMMA SaysOnce ==
  ASSUME ServedInv, NEW kind \in AnswerKind, SlaveAnswers(kind[1], kind[2])
  PROVE  [Service!SNext]_(Service!svars)
<1> DEFINE a == [op_id |-> Head(reqs).op_id, msg_id |-> Head(reqs).msg_id,
                 status |-> kind[1], size |-> kind[2]]
<1>0. kind[1] \in SlaveStatus
  BY HostAssumption
<1>1. /\ reqs # <<>> /\ answers' = answers \union {a}
      /\ a.op_id = Head(reqs).op_id /\ a.status = kind[1]
      /\ UNCHANGED <<pc, call, result, s_next_op_id>>
  BY DEF SlaveAnswers
<1> HIDE DEF a
<1>2. a.op_id = reqs[1].op_id /\ 1 \in 1 .. Len(reqs)
  BY <1>1, TailFacts DEF ServedInv, HostInv, TypeOK
<1>3. a.op_id \in 1 .. s_next_op_id - 1 /\ \A b \in answers : b.op_id # a.op_id
  BY <1>2 DEF ServedInv, RequestsOnce
<1>4. \A s \in SlaveStatus :
        <<a.op_id, s>> \notin {<<b.op_id, b.status>> : b \in answers}
  BY <1>3
<1>5. {<<b.op_id, b.status>> : b \in answers'} =
        {<<b.op_id, b.status>> : b \in answers} \union {<<a.op_id, kind[1]>>}
  BY <1>1
<1>6. \A d \in Caller : PhaseOf(d)' = PhaseOf(d)
  BY <1>1 DEF PhaseOf
<1>7. Service!Say(a.op_id, kind[1])
  BY <1>1, <1>3, <1>4, <1>5, <1>6 DEF Service!Say
<1> QED
  BY <1>0, <1>3, <1>7 DEF Service!SNext

(* Starting, being refused, being given an operation id.                   *)
LEMMA StartsAndIssues ==
  ASSUME ServedInv, TypeOK', BeforeOp, NEW c \in Caller,
         \/ \E m \in MsgId, cap \in {0, 1} : Enter(c, m, cap)
         \/ ScanFull(c) \/ Fill(c)
  PROVE  [Service!SNext]_(Service!svars)
<1>0. /\ pc \in [Caller -> PC] /\ call \in [Caller -> Locals]
      /\ result \in [Caller -> Result] /\ s_next_op_id \in Nat
  BY DEF ServedInv, HostInv, TypeOK
<1>1. \A d \in Caller \ {c} : /\ pc'[d] = pc[d] /\ call'[d] = call[d]
                              /\ result'[d] = result[d]
                              /\ PhaseOf(d)' = PhaseOf(d)
  BY <1>0 DEF Enter, ScanFull, Fill, Return, PhaseOf
<1>2. CASE \E m \in MsgId, cap \in {0, 1} : Enter(c, m, cap)
  <2>1. /\ pc[c] = "idle" /\ pc'[c] = "lock" /\ call'[c].op = call[c].op
        /\ result'[c] = NoResult /\ UNCHANGED <<s_next_op_id, answers>>
    <3>1. PICK m \in MsgId, cap \in {0, 1} : Enter(c, m, cap)
      BY <1>2
    <3> QED
      BY <1>0, <3>1 DEF Enter, Locals
  <2>2. PhaseOf(c) = "idle" /\ PhaseOf(c)' = "starting"
    BY <2>1 DEF PhaseOf
  <2>3. result'[c].op = 0 /\ result'[c].status = "ESP_FAIL"
    BY <2>1 DEF NoResult
  <2>4. Service!Start(c)
    BY <1>1, <2>1, <2>2, <2>3 DEF Service!Start
  <2> QED
    BY <2>4 DEF Service!SNext
<1>3. CASE ScanFull(c)
  <2>1. /\ pc[c] = "scan" /\ pc'[c] = "idle" /\ call'[c].op = 0
        /\ result'[c].op = 0 /\ result'[c].status = "ESP_FAIL"
        /\ UNCHANGED <<s_next_op_id, answers>>
    BY <1>0, <1>3 DEF ScanFull, Return, NoCall, NoResult
  <2>2. PhaseOf(c) = "starting" /\ PhaseOf(c)' = "idle"
    BY <2>1 DEF PhaseOf
  <2>3. /\ call[c].op = 0 /\ result[c].op = 0
        /\ result[c].status = "ESP_FAIL"
    BY <2>1 DEF BeforeOp, NoResult
  <2>4. Service!Refuse(c)
    BY <1>1, <2>1, <2>2, <2>3 DEF Service!Refuse
  <2> QED
    BY <2>4 DEF Service!SNext
<1>4. CASE Fill(c)
  <2>1. /\ pc[c] = "fill" /\ pc'[c] = "send" /\ call'[c].op = s_next_op_id
        /\ result' = result /\ answers' = answers
        /\ s_next_op_id' = s_next_op_id + 1
    BY <1>0, <1>4 DEF Fill, Locals
  <2>2. PhaseOf(c) = "starting" /\ PhaseOf(c)' = "pending"
    BY <2>1 DEF PhaseOf
  <2>3. /\ s_next_op_id' - 1 = (s_next_op_id - 1) + 1
        /\ s_next_op_id = (s_next_op_id - 1) + 1
    BY <1>0, <2>1
  <2>4. Service!Issue(c)
    BY <1>1, <2>1, <2>2, <2>3 DEF Service!Issue
  <2> QED
    BY <2>4 DEF Service!SNext
<1> QED
  BY <1>2, <1>3, <1>4

(* Ending, with the slave's answer or without.                             *)
LEMMA Finishes ==
  ASSUME ServedInv, TypeOK', BeforeOp, NEW c \in Caller,
         GiveUp(c) \/ Release(c)
  PROVE  [Service!SNext]_(Service!svars)
<1>0. /\ pc \in [Caller -> PC] /\ call \in [Caller -> Locals]
      /\ result \in [Caller -> Result] /\ call[c] \in Locals
  BY DEF ServedInv, HostInv, TypeOK
<1>1. \A d \in Caller \ {c} : /\ pc'[d] = pc[d] /\ call'[d] = call[d]
                              /\ result'[d] = result[d]
                              /\ PhaseOf(d)' = PhaseOf(d)
  BY <1>0 DEF GiveUp, Release, Return, PhaseOf
<1>2. /\ pc[c] \in {"giveup", "read"} /\ pc'[c] = "idle" /\ call'[c].op = 0
      /\ UNCHANGED <<s_next_op_id, answers>>
  BY <1>0 DEF GiveUp, Release, Return, NoCall
<1>3. PhaseOf(c) = "pending" /\ PhaseOf(c)' = "idle"
  BY <1>2 DEF PhaseOf
<1>4. /\ result'[c].op = call[c].op
      /\ \/ result'[c].status = "ESP_FAIL"
         \/ pc[c] = "read" /\ result'[c].status = call[c].st
  <2>1. CASE GiveUp(c)
    <3>1. result'[c] = [NoResult EXCEPT !.code = call[c].err, !.op = call[c].op]
      BY <1>0, <2>1 DEF GiveUp, Return
    <3> QED
      BY <3>1 DEF NoResult
  <2>2. CASE Release(c)
    BY <1>0, <2>2 DEF Release, Return
  <2> QED
    BY <2>1, <2>2
<1>5. PICK st \in SlaveStatus \union {"ESP_FAIL"} : st = result'[c].status
  BY <1>0, <1>4 DEF Locals, Status
<1>6. \/ st = "ESP_FAIL"
      \/ <<call[c].op, st>> \in {<<a.op_id, a.status>> : a \in answers}
  BY <1>4, <1>5 DEF ServedInv, HostInv, Provenance, Said
<1>7. Service!Finish(c, st)
  BY <1>1, <1>2, <1>3, <1>4, <1>5, <1>6 DEF Service!Finish
<1> QED
  BY <1>7 DEF Service!SNext

(* Every step of the dispatcher is a step of the service or invisible.     *)
LEMMA StepRefines ==
  ASSUME ServedInv, TypeOK', BeforeOp, [Next]_vars
  PROVE  [Service!SNext]_(Service!svars)
<1>0. /\ TypeOK /\ pc \in [Caller -> PC] /\ call \in [Caller -> Locals]
  BY DEF ServedInv, HostInv, TypeOK
<1>1. ASSUME NEW c \in Caller,
             \/ Lock(c) \/ Scan(c) \/ Transmit(c) \/ SendOk(c) \/ SendErr(c)
             \/ Wake(c) \/ Timeout(c) \/ ReadStatus(c)
      PROVE  UNCHANGED Service!svars
  <2>1. /\ UNCHANGED <<result, s_next_op_id, answers>>
        /\ \A d \in Caller : call'[d].op = call[d].op
    BY <1>0, <1>1, SMTT(30) DEF Lock, Scan, Transmit, SendOk, SendErr, Wake, Timeout,
       ReadStatus, Locals
  <2>2. \A d \in Caller \ {c} : pc'[d] = pc[d]
    BY <1>0, <1>1 DEF Lock, Scan, Transmit, SendOk, SendErr, Wake, Timeout,
       ReadStatus
  <2>3. \/ pc[c] \in {"lock", "scan"} /\ pc'[c] \in {"scan", "fill"}
        \/ /\ pc[c] \in {"send", "sending", "wait", "woken"}
           /\ pc'[c] \in {"sending", "wait", "giveup", "woken", "read"}
    BY <1>0, <1>1 DEF Lock, Scan, Transmit, SendOk, SendErr, Wake, Timeout,
       ReadStatus
  <2>4. \A d \in Caller : PhaseOf(d)' = PhaseOf(d)
    BY <2>2, <2>3 DEF PhaseOf
  <2> QED
    BY <1>0, <2>1, <2>4, Unseen
<1>2. CASE SlaveSilent \/ RxStep \/ UNCHANGED vars
  <2>1. UNCHANGED <<pc, call, result, s_next_op_id, answers>>
    BY <1>2 DEF SlaveSilent, RxStep, RxDrop, RxMatch, RxWriteStatus,
       RxCopyBody, RxGive
  <2>2. \A d \in Caller : PhaseOf(d)' = PhaseOf(d)
    BY <2>1 DEF PhaseOf
  <2> QED
    BY <1>0, <2>1, <2>2, Unseen
<1> QED
  BY <1>1, <1>2, SaysOnce, StartsAndIssues, Finishes DEF Next, CallStep

(* do_call and on_response together are an RpcService: a call ends once,   *)
(* with the status the slave gave to its very operation or with none, and  *)
(* the slave is asked at most once per operation, whatever the             *)
(* interleaving, the losses and the timeouts.                              *)
THEOREM Implements == Spec => ImplementsService
<1>1. Init => ServedInv /\ BeforeOp
  BY ServedInit DEF Init, BeforeOp, NoCall
<1>2. ServedInv /\ BeforeOp /\ [Next]_vars => (ServedInv /\ BeforeOp)'
  BY ServedNext, BeforeOpNext DEF ServedInv, HostInv
<1>3. Init => Service!SInit
  BY DEF Init, Service!SInit, PhaseOf, NoCall, NoResult
<1>4. ServedInv /\ BeforeOp /\ [Next]_vars => [Service!SNext]_(Service!svars)
  BY StepRefines, NextType DEF ServedInv, HostInv
<1> QED
  BY <1>1, <1>2, <1>3, <1>4, PTL DEF Spec, ImplementsService, Service!SSpec

=============================================================================
