----------------------------- MODULE PhyRpcHost -----------------------------
(***************************************************************************)
(* The synchronous-call dispatcher of the host library                     *)
(* (esp_hosted_open/src/phy_rpc.c): do_call, run by any number of          *)
(* application tasks, and on_response, run by the one RPC receive thread   *)
(* of the vendored host stack.                                             *)
(*                                                                         *)
(* The two meet in s_inflight[]: a table of slots, each with a binary      *)
(* semaphore "done", guarded by s_inflight_mutex -- except that do_call    *)
(* clears in_use WITHOUT the mutex and never drains "done".  Every access  *)
(* that another thread can observe is a step of its own.                   *)
(*                                                                         *)
(* Below the dispatcher, esp_hosted_send_custom_data is a blocking request *)
(* to the slave; the slave's answer is a separate, later event.  Both      *)
(* directions are FIFO (one queue and one thread per direction), requests  *)
(* and answers may be lost, and a send may report an error although the    *)
(* request is still on its way.                                            *)
(*                                                                         *)
(* The module describes the time between a successful esp_hosted_open_init *)
(* and the matching deinit; PhyRpcLifecycle models those two.              *)
(***************************************************************************)
EXTENDS Integers, Sequences, FiniteSets

CONSTANTS
  Caller,        (* application tasks that call the API                    *)
  MAX_INFLIGHT,  (* number of slots (4 in the code)                        *)
  MsgId,         (* response message ids of the RPCs called                *)
  AnswerKind,    (* <<status, size>> of the answers the slave gives        *)
  MaxCalls,      (* bound: calls that get a slot in one behaviour          *)
  Rx,            (* the RPC receive thread                                 *)
  NoOne          (* the mutex is free / no slot                            *)

Slot == 0 .. MAX_INFLIGHT - 1

(* An answer is shorter than its header, just a header, or has a body.     *)
Size == {"short", "header", "body"}

(* esp_err_t values: what the slave can answer, and the value do_call      *)
(* puts in a fresh slot.                                                   *)
SlaveStatus == {"ESP_OK", "ESP_ERR"}
Status      == SlaveStatus \union {"ESP_FAIL"}

(* How a call ended; "RESP" is a return through s_inflight[slot].status.   *)
Code == {"NONE", "NO_MEM", "SEND_ERR", "TIMEOUT", "RESP"}

ASSUME HostAssumption ==
  /\ MAX_INFLIGHT \in Nat \ {0}
  /\ MsgId # {}
  /\ MaxCalls \in Nat
  /\ AnswerKind \subseteq SlaveStatus \X Size
  /\ Rx \notin Caller
  /\ NoOne \notin Caller \union {Rx}
  /\ NoOne \notin Slot

VARIABLES
  s_inflight,    (* [Slot -> record]: the table                            *)
  done,          (* [Slot -> {0, 1}]: the binary semaphores                *)
  mutex,         (* holder of s_inflight_mutex                             *)
  s_next_op_id,
  pc,            (* [Caller -> where its do_call stands]                   *)
  call,          (* [Caller -> locals of its do_call]                      *)
  result,        (* [Caller -> what its last do_call returned]             *)
  rx,            (* on_response: its step, the answer, the slot it matched *)
  reqs,          (* requests on their way to the slave                     *)
  wire,          (* answers on their way to on_response                    *)
  answers,       (* history: every answer the slave has sent               *)
  abandoned      (* history: slots on which a call gave up                 *)

hostVars == <<s_inflight, done, mutex, s_next_op_id, pc, call, result, rx>>
netVars  == <<reqs, wire, answers>>
vars     == <<hostVars, netVars, abandoned>>

-----------------------------------------------------------------------------
PC == {"idle", "lock", "scan", "fill", "send", "sending", "wait", "giveup", "woken", "read"}
RxPC == {"idle", "status", "copy", "give"}

SlotRecord == [in_use: BOOLEAN, op_id: Nat, want_resp_id: MsgId,
               out_cap: {0, 1}, out_len: {0, 1}, status: Status]
Request    == [op_id: Nat, msg_id: MsgId]
Answer     == [op_id: Nat, msg_id: MsgId, status: SlaveStatus, size: Size]
Locals     == [slot: Slot, op: Nat, want: MsgId, cap: {0, 1}, st: Status,
               err: Code]
Result     == [code: Code, op: Nat, status: Status, len: {0, 1}]

AnyMsg   == CHOOSE m \in MsgId : TRUE
NoCall   == [slot |-> 0, op |-> 0, want |-> AnyMsg, cap |-> 0,
             st |-> "ESP_FAIL", err |-> "NONE"]
NoAnswer == [op_id |-> 0, msg_id |-> AnyMsg, status |-> "ESP_OK",
             size |-> "header"]
NoResult == [code |-> "NONE", op |-> 0, status |-> "ESP_FAIL", len |-> 0]

(* A caller past Fill owns its slot until it clears in_use.                *)
Owning == {"send", "sending", "wait", "giveup", "woken", "read"}
Owns(c, i) == pc[c] \in Owning /\ call[c].slot = i

Free(i) == ~s_inflight[i].in_use

(* Mutant of Matches: any answer to the same kind of request will do.      *)
MatchesAnyOp(i, a) == /\ s_inflight[i].in_use
                      /\ s_inflight[i].want_resp_id = a.msg_id

(* The lookup of on_response: used, right op id, right response id.        *)
Matches(i, a) == /\ s_inflight[i].in_use
                 /\ s_inflight[i].op_id = a.op_id
                 /\ s_inflight[i].want_resp_id = a.msg_id

(* Leaving do_call: its locals are gone.                                   *)
Return(c, r) == /\ pc' = [pc EXCEPT ![c] = "idle"]
                /\ result' = [result EXCEPT ![c] = r]
                /\ call' = [call EXCEPT ![c] = NoCall]

-----------------------------------------------------------------------------
TypeOK ==
  /\ s_inflight \in [Slot -> SlotRecord]
  /\ done \in [Slot -> {0, 1}]
  /\ mutex \in Caller \union {Rx, NoOne}
  /\ s_next_op_id \in Nat
  /\ pc \in [Caller -> PC]
  /\ call \in [Caller -> Locals]
  /\ result \in [Caller -> Result]
  /\ rx \in [pc: RxPC, ans: Answer, slot: Slot]
  /\ reqs \in Seq(Request)
  /\ wire \in Seq(Answer)
  /\ answers \subseteq Answer
  /\ abandoned \subseteq Slot

Init ==
  /\ s_inflight = [i \in Slot |-> [in_use |-> FALSE, op_id |-> 0,
                     want_resp_id |-> AnyMsg, out_cap |-> 0, out_len |-> 0,
                     status |-> "ESP_OK"]]
  /\ call = [c \in Caller |-> NoCall]
  /\ rx = [pc |-> "idle", ans |-> NoAnswer, slot |-> 0]
  /\ done = [i \in Slot |-> 0]
  /\ mutex = NoOne
  /\ s_next_op_id = 1
  /\ pc = [c \in Caller |-> "idle"]
  /\ result = [c \in Caller |-> NoResult]
  /\ reqs = <<>> /\ wire = <<>> /\ answers = {}
  /\ abandoned = {}

-----------------------------------------------------------------------------
(* do_call, l.105-158.                                                     *)

(* A task enters the API ...                                               *)
Enter(c, m, cap) ==
  /\ pc[c] = "idle"
  /\ s_next_op_id <= MaxCalls
  /\ pc' = [pc EXCEPT ![c] = "lock"]
  /\ call' = [call EXCEPT ![c].want = m, ![c].cap = cap]
  /\ result' = [result EXCEPT ![c] = NoResult]
  /\ UNCHANGED <<s_inflight, done, mutex, s_next_op_id, rx, netVars, abandoned>>

(* ... and takes the mutex to reserve a slot.                              *)
Lock(c) ==
  /\ pc[c] = "lock"
  /\ mutex = NoOne
  /\ mutex' = c
  /\ pc' = [pc EXCEPT ![c] = "scan"]
  /\ UNCHANGED <<s_inflight, done, s_next_op_id, call, result, rx, netVars,
                 abandoned>>

(* The first slot that is not in use ...                                   *)
Scan(c) ==
  /\ pc[c] = "scan"
  /\ \E i \in Slot :
       /\ Free(i)
       /\ \A j \in Slot : Free(j) => i <= j
       /\ call' = [call EXCEPT ![c].slot = i]
  /\ pc' = [pc EXCEPT ![c] = "fill"]
  /\ UNCHANGED <<s_inflight, done, mutex, s_next_op_id, result, rx, netVars,
                 abandoned>>

(* Mutant of ScanFull: the "slot < 0" check is missing.                    *)
ScanFullUnchecked(c) ==
  /\ pc[c] = "scan"
  /\ \A i \in Slot : ~Free(i)
  /\ pc' = [pc EXCEPT ![c] = "fill"]
  /\ call' = [call EXCEPT ![c].slot = MAX_INFLIGHT]
  /\ UNCHANGED <<s_inflight, done, mutex, s_next_op_id, result, rx, netVars,
                 abandoned>>

(* ... or ESP_ERR_NO_MEM when all are.                                     *)
ScanFull(c) ==
  /\ pc[c] = "scan"
  /\ \A i \in Slot : ~Free(i)
  /\ mutex' = NoOne
  /\ Return(c, [NoResult EXCEPT !.code = "NO_MEM"])
  /\ UNCHANGED <<s_inflight, done, s_next_op_id, rx, netVars, abandoned>>

(* Fill the slot with the next op id and release the mutex.  "done" is     *)
(* left as the slot's previous user left it.                               *)
Fill(c) ==
  /\ pc[c] = "fill"
  /\ s_inflight' = [s_inflight EXCEPT ![call[c].slot] =
       [in_use |-> TRUE, op_id |-> s_next_op_id, want_resp_id |-> call[c].want,
        out_cap |-> call[c].cap, out_len |-> 0, status |-> "ESP_FAIL"]]
  /\ s_next_op_id' = s_next_op_id + 1
  /\ call' = [call EXCEPT ![c].op = s_next_op_id]
  /\ mutex' = NoOne
  /\ pc' = [pc EXCEPT ![c] = "send"]
  /\ UNCHANGED <<done, result, rx, netVars, abandoned>>

(* esp_hosted_send_custom_data hands the request to the stack below ...    *)
Transmit(c) ==
  /\ pc[c] = "send"
  /\ reqs' = Append(reqs, [op_id |-> call[c].op, msg_id |-> call[c].want])
  /\ pc' = [pc EXCEPT ![c] = "sending"]
  /\ UNCHANGED <<s_inflight, done, mutex, s_next_op_id, call, result, rx, wire,
                 answers, abandoned>>

(* ... returns ESP_OK (not always on account of this request: the stack    *)
(* below hands a waiting task whichever acknowledgement is queued first,   *)
(* rpc_core.c:get_response) ...                                            *)
SendOk(c) ==
  /\ pc[c] = "sending"
  /\ pc' = [pc EXCEPT ![c] = "wait"]
  /\ UNCHANGED <<s_inflight, done, mutex, s_next_op_id, call, result, rx,
                 netVars, abandoned>>

(* ... or an error, before or after anything was transmitted.              *)
SendErr(c) ==
  /\ pc[c] \in {"send", "sending"}
  /\ pc' = [pc EXCEPT ![c] = "giveup"]
  /\ call' = [call EXCEPT ![c].err = "SEND_ERR"]
  /\ UNCHANGED <<s_inflight, done, mutex, s_next_op_id, result, rx, netVars,
                 abandoned>>

(* xSemaphoreTake(done, s_timeout_ms): succeeds ...                        *)
Wake(c) ==
  /\ pc[c] = "wait"
  /\ done[call[c].slot] = 1
  /\ done' = [done EXCEPT ![call[c].slot] = 0]
  /\ pc' = [pc EXCEPT ![c] = "woken"]
  /\ UNCHANGED <<s_inflight, mutex, s_next_op_id, call, result, rx, netVars,
                 abandoned>>

(* ... or expires.                                                         *)
Timeout(c) ==
  /\ pc[c] = "wait"
  /\ done[call[c].slot] = 0
  /\ pc' = [pc EXCEPT ![c] = "giveup"]
  /\ call' = [call EXCEPT ![c].err = "TIMEOUT"]
  /\ UNCHANGED <<s_inflight, done, mutex, s_next_op_id, result, rx, netVars,
                 abandoned>>

(* Mutant of GiveUp: the error path of a failed send keeps the slot.       *)
GiveUpLeak(c) ==
  /\ pc[c] = "giveup"
  /\ s_inflight' = [s_inflight EXCEPT ![call[c].slot].in_use =
                                        call[c].err = "SEND_ERR"]
  /\ abandoned' = abandoned \union {call[c].slot}
  /\ Return(c, [NoResult EXCEPT !.code = call[c].err, !.op = call[c].op])
  /\ UNCHANGED <<done, mutex, s_next_op_id, rx, netVars>>

(* Both failures clear in_use, without the mutex, and return the error.    *)
GiveUp(c) ==
  /\ pc[c] = "giveup"
  /\ s_inflight' = [s_inflight EXCEPT ![call[c].slot].in_use = FALSE]
  /\ abandoned' = abandoned \union {call[c].slot}
  /\ Return(c, [NoResult EXCEPT !.code = call[c].err, !.op = call[c].op])
  /\ UNCHANGED <<done, mutex, s_next_op_id, rx, netVars>>

(* A woken caller reads the status, ...                                    *)
ReadStatus(c) ==
  /\ pc[c] = "woken"
  /\ call' = [call EXCEPT ![c].st = s_inflight[call[c].slot].status]
  /\ pc' = [pc EXCEPT ![c] = "read"]
  /\ UNCHANGED <<s_inflight, done, mutex, s_next_op_id, result, rx, netVars,
                 abandoned>>

(* ... then the length, and clears in_use, again without the mutex.        *)
Release(c) ==
  /\ pc[c] = "read"
  /\ Return(c, [code |-> "RESP", op |-> call[c].op, status |-> call[c].st,
                len |-> s_inflight[call[c].slot].out_len])
  /\ s_inflight' = [s_inflight EXCEPT ![call[c].slot].in_use = FALSE]
  /\ UNCHANGED <<done, mutex, s_next_op_id, rx, netVars, abandoned>>

-----------------------------------------------------------------------------
(* The slave, as far as this dispatcher sees it: it takes the requests in  *)
(* order and answers each at most once, with the request's own op id.      *)
SlaveAnswers(st, sz) ==
  /\ reqs # <<>>
  /\ LET a == [op_id |-> Head(reqs).op_id, msg_id |-> Head(reqs).msg_id,
               status |-> st, size |-> sz]
     IN  /\ wire' = Append(wire, a)
         /\ answers' = answers \union {a}
  /\ reqs' = Tail(reqs)
  /\ UNCHANGED <<hostVars, abandoned>>

(* The request or its answer is lost.                                      *)
SlaveSilent ==
  /\ reqs # <<>>
  /\ reqs' = Tail(reqs)
  /\ UNCHANGED <<hostVars, wire, answers, abandoned>>

-----------------------------------------------------------------------------
(* on_response, l.70-103.                                                  *)

(* Mutant of RxDrop: the "no waiter" return forgets to give the mutex.     *)
RxDropKeepsMutex ==
  /\ rx.pc = "idle"
  /\ wire # <<>>
  /\ mutex = NoOne /\ \A i \in Slot : ~Matches(i, Head(wire))
  /\ mutex' = Rx
  /\ wire' = Tail(wire)
  /\ UNCHANGED <<s_inflight, done, s_next_op_id, pc, call, result, rx, reqs,
                 answers, abandoned>>

(* Too short to hold a header, or no slot waits for it: dropped.           *)
RxDrop ==
  /\ rx.pc = "idle"
  /\ wire # <<>>
  /\ \/ Head(wire).size = "short"
     \/ mutex = NoOne /\ \A i \in Slot : ~Matches(i, Head(wire))
  /\ wire' = Tail(wire)
  /\ UNCHANGED <<hostVars, reqs, answers, abandoned>>

(* Mutant of RxMatch: the mutex only covers the lookup.                    *)
RxMatchUnlocked ==
  /\ rx.pc = "idle"
  /\ wire # <<>>
  /\ mutex = NoOne
  /\ \E i \in Slot : /\ Matches(i, Head(wire))
                     /\ rx' = [pc |-> "status", ans |-> Head(wire), slot |-> i]
  /\ wire' = Tail(wire)
  /\ UNCHANGED <<s_inflight, done, mutex, s_next_op_id, pc, call, result, reqs,
                 answers, abandoned>>

(* Take the mutex and find the slot.                                       *)
RxMatch ==
  /\ rx.pc = "idle"
  /\ wire # <<>>
  /\ Head(wire).size # "short"
  /\ mutex = NoOne
  /\ \E i \in Slot :
       /\ Matches(i, Head(wire))
       /\ \A j \in Slot : Matches(j, Head(wire)) => i <= j
       /\ rx' = [pc |-> "status", ans |-> Head(wire), slot |-> i]
  /\ mutex' = Rx
  /\ wire' = Tail(wire)
  /\ UNCHANGED <<s_inflight, done, s_next_op_id, pc, call, result, reqs,
                 answers, abandoned>>

(* Mutant of RxWriteStatus: the caller is signalled before the copy.       *)
RxSignalsEarly ==
  /\ rx.pc = "status"
  /\ s_inflight' = [s_inflight EXCEPT ![rx.slot].status = rx.ans.status]
  /\ done' = [done EXCEPT ![rx.slot] = 1]
  /\ rx' = [rx EXCEPT !.pc = "copy"]
  /\ UNCHANGED <<mutex, s_next_op_id, pc, call, result, netVars, abandoned>>

(* The slave's status goes into the slot first, ...                        *)
RxWriteStatus ==
  /\ rx.pc = "status"
  /\ s_inflight' = [s_inflight EXCEPT ![rx.slot].status = rx.ans.status]
  /\ rx' = [rx EXCEPT !.pc = "copy"]
  /\ UNCHANGED <<done, mutex, s_next_op_id, pc, call, result, netVars,
                 abandoned>>

(* ... then a memcpy into the caller's buffer, if it has one and there is  *)
(* a body.                                                                 *)
RxCopyBody ==
  /\ rx.pc = "copy"
  /\ s_inflight' = IF rx.ans.size = "body" /\ s_inflight[rx.slot].out_cap > 0
                   THEN [s_inflight EXCEPT ![rx.slot].out_len = 1]
                   ELSE s_inflight
  /\ rx' = [rx EXCEPT !.pc = "give"]
  /\ UNCHANGED <<done, mutex, s_next_op_id, pc, call, result, netVars,
                 abandoned>>

(* Signal the caller, then release the mutex.                              *)
RxGive ==
  /\ rx.pc = "give"
  /\ done' = [done EXCEPT ![rx.slot] = 1]
  /\ mutex' = NoOne
  /\ rx' = [pc |-> "idle", ans |-> NoAnswer, slot |-> 0]
  /\ UNCHANGED <<s_inflight, s_next_op_id, pc, call, result, netVars, abandoned>>

-----------------------------------------------------------------------------
(* Steps of one call, once it has begun.                                   *)
CallStep(c) ==
  \/ Lock(c) \/ Scan(c) \/ ScanFull(c) \/ Fill(c) \/ Transmit(c) \/ SendOk(c)
  \/ SendErr(c) \/ Wake(c) \/ Timeout(c) \/ GiveUp(c) \/ ReadStatus(c)
  \/ Release(c)

RxStep == RxDrop \/ RxMatch \/ RxWriteStatus \/ RxCopyBody \/ RxGive

Next ==
  \/ \E c \in Caller, m \in MsgId, cap \in {0, 1} : Enter(c, m, cap)
  \/ \E c \in Caller : CallStep(c)
  \/ \E kind \in AnswerKind : SlaveAnswers(kind[1], kind[2])
  \/ SlaveSilent
  \/ RxStep

Spec == Init /\ [][Next]_vars

(* The scheduler runs every ready task, a send returns (it has a timeout   *)
(* of its own) and a wait expires: a call that has begun keeps stepping,   *)
(* and so does the receive thread.  A task waiting for the mutex gets it   *)
(* if it keeps being released: FreeRTOS queues the waiters.                *)
FairSpec == /\ Spec
            /\ \A c \in Caller : WF_vars(CallStep(c)) /\ SF_vars(Lock(c))
            /\ WF_vars(RxStep)

-----------------------------------------------------------------------------
(* Properties.                                                             *)

(* A slot is in use exactly when one call owns it, and it carries that     *)
(* call's op id: no two calls share a slot although in_use is cleared      *)
(* outside the mutex, and no error path leaks one.                         *)
SlotOwnership ==
  \A i \in Slot :
    /\ s_inflight[i].in_use <=> \E c \in Caller : Owns(c, i)
    /\ \A c, d \in Caller : Owns(c, i) /\ Owns(d, i) => c = d
    /\ \A c \in Caller : Owns(c, i) => s_inflight[i].op_id = call[c].op

(* No two calls in progress ever carry the same op id, so an answer        *)
(* matches at most one slot.                                               *)
OpIdUnique ==
  \A i, j \in Slot :
    s_inflight[i].in_use /\ s_inflight[j].in_use
      /\ s_inflight[i].op_id = s_inflight[j].op_id => i = j

(* While on_response works on the slot it matched, the slot is never       *)
(* handed to another call -- the matched call may give up and clear        *)
(* in_use, but reserving needs the mutex on_response holds -- so status    *)
(* and length are written into the right call's slot or a dead one.        *)
RxTargetStable ==
  rx.pc # "idle" => s_inflight[rx.slot].op_id = rx.ans.op_id

(* The mutex is held by exactly the code between its take and its give,    *)
(* and the slot a caller chose under it is still free when it fills it.    *)
Reservation ==
  /\ \A c \in Caller :
       /\ pc[c] \in {"scan", "fill"} => mutex = c
       /\ pc[c] = "fill" => Free(call[c].slot)
  /\ mutex \in Caller => pc[mutex] \in {"scan", "fill"}
  /\ mutex = Rx <=> rx.pc # "idle"

(* Op ids of the slots in use are in the past of the counter.              *)
OpIdsIssued ==
  \A i \in Slot : s_inflight[i].in_use => s_inflight[i].op_id < s_next_op_id

(* Where a status or a length can come from: what the slave said for op.   *)
Said(op, st)  == st # "ESP_FAIL" =>
                   \E a \in answers : a.op_id = op /\ a.status = st
SentBody(op, len) == len = 1 =>
                   \E a \in answers : a.op_id = op /\ a.size = "body"

(* Everything on its way to a caller is something the slave said.          *)
Provenance ==
  /\ \A k \in 1 .. Len(wire) : wire[k] \in answers
  /\ rx.pc # "idle" => rx.ans \in answers
  /\ \A i \in Slot : s_inflight[i].in_use =>
       /\ Said(s_inflight[i].op_id, s_inflight[i].status)
       /\ SentBody(s_inflight[i].op_id, s_inflight[i].out_len)
  /\ \A c \in Caller : pc[c] = "read" => Said(call[c].op, call[c].st)

(* A status do_call returns is the one the slave gave to this very op, or  *)
(* the ESP_FAIL do_call itself put there; in particular success is never   *)
(* reported on the strength of another call's answer, and a body is only   *)
(* counted when the slave sent one for this op.                            *)
NoFalseAnswer ==
  \A c \in Caller : result[c].code = "RESP" =>
    /\ Said(result[c].op, result[c].status)
    /\ SentBody(result[c].op, result[c].len)

(* The inductive invariant behind the four properties above.               *)
HostInv == /\ TypeOK
           /\ SlotOwnership
           /\ Reservation
           /\ RxTargetStable
           /\ OpIdsIssued
           /\ OpIdUnique
           /\ Provenance
           /\ NoFalseAnswer

(* On a slot no call has given up on, a woken caller finds its own answer  *)
(* complete: the slave's status, and the body's length if it sent a body.  *)
CompleteUnlessAbandoned ==
  \A c \in Caller :
    pc[c] \in {"woken", "read"} /\ call[c].slot \notin abandoned =>
      LET s == s_inflight[call[c].slot]
      IN  /\ rx.pc = "idle" \/ rx.slot # call[c].slot
          /\ \E a \in answers :
               /\ a.op_id = call[c].op
               /\ a.status = s.status
               /\ s.out_len = IF a.size = "body" THEN s.out_cap ELSE 0

(* on_response copies the body into memory of the caller, which is gone    *)
(* once do_call returns.  The call it copies for is still in do_call,      *)
(* although it may give up while on_response works, if no call on the slot *)
(* has given up; the exception is real, and nothing in the code closes it. *)
BodyGoesToLiveCall ==
  rx.pc = "copy" /\ rx.ans.size = "body" /\ rx.slot \notin abandoned =>
    \E c \in Caller : Owns(c, rx.slot) /\ call[c].op = rx.ans.op_id

(* What phy_rpc_proto.h:13-15 says of the op id: the answer is routed back *)
(* to the waiting caller, so a caller that stops waiting because its slot  *)
(* was signalled has the slave's status for its own op.                    *)
AnswerReachesWaiter ==
  \A c \in Caller : result[c].code = "RESP" => result[c].status # "ESP_FAIL"

(* The dispatcher implements RpcService.  An outcome's operation is the op *)
(* id (0 for none), its status what the slave said or ESP_FAIL.            *)
PhaseOf(c) == CASE pc[c] = "idle"                     -> "idle"
                [] pc[c] \in {"lock", "scan", "fill"} -> "starting"
                [] OTHER                              -> "pending"

Service == INSTANCE RpcService WITH
  PeerStatus  <- SlaveStatus,
  NoAnswerYet <- "ESP_FAIL",
  None        <- 0,
  phase       <- [c \in Caller |-> PhaseOf(c)],
  opOf        <- [c \in Caller |-> call[c].op],
  issued      <- s_next_op_id - 1,
  said        <- {<<a.op_id, a.status>> : a \in answers},
  outcome     <- [c \in Caller |-> <<result[c].op, result[c].status>>]

ImplementsService == Service!SSpec

(* Every call returns: none of the blocking points -- the mutex, the send, *)
(* the wait for "done" -- holds a task for ever.                           *)
CallReturns == \A c \in Caller : pc[c] # "idle" ~> pc[c] = "idle"

=============================================================================
