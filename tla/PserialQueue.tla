---------------------------- MODULE PserialQueue ----------------------------
(***************************************************************************)
(* The serial endpoint of the slave: recv_task puts the fragments of the   *)
(* host's requests together in one static buffer                           *)
(* (slave/main/esp_hosted_coprocessor.c), and hands each request to        *)
(* pserial_task through req_queue (slave/main/protocomm_pserial.c).  The   *)
(* same queue carries the events that any task of the slave sends to the   *)
(* host -- also those a request's own handler sends, in pserial_task, the  *)
(* queue's only reader.                                                    *)
(*                                                                         *)
(* A request is a number and a length in fragments; a buffer is a sequence *)
(* of fragments.  The host numbers every fragment 0 (it never sets         *)
(* seq_num), so the sequence-number branch of process_serial_rx_pkt is     *)
(* never taken and is left out.                                            *)
(***************************************************************************)
EXTENDS Integers, Sequences

CONSTANTS
  REQ_Q_MAX,   (* places in req_queue (10; 3 on the ESP32-C2)              *)
  Capacity,    (* fragments r.data has room for (8192 bytes: 5)            *)
  MaxReq,      (* bound: requests the host sends                           *)
  MaxEvents,   (* bound: events other tasks send                           *)
  MaxEmit,     (* events one request handler sends at most                 *)
  HostCuts,    (* whether a host write may fail between two fragments      *)
  OutOfMemory  (* whether the slave may run out of memory                  *)

ASSUME PserialAssumption ==
  /\ {REQ_Q_MAX, Capacity} \subseteq Nat \ {0}
  /\ {MaxReq, MaxEvents, MaxEmit} \subseteq Nat
  /\ {HostCuts, OutOfMemory} \subseteq BOOLEAN

VARIABLES
  bus,        (* fragments from the host, not yet read                     *)
  sent,       (* requests the host has begun to send                       *)
  r,          (* the reassembly buffer                                     *)
  recv,       (* recv_task                                                 *)
  req_queue,  (* requests and events for pserial_task                      *)
  pser,       (* pserial_task                                              *)
  out,        (* responses and events sent to the host                     *)
  events,     (* events sent by other tasks so far                         *)
  lost,       (* history: buffers handed over that were no request         *)
  harm        (* history: what has happened to fragments                   *)

hostVars == <<bus, sent>>
vars == <<hostVars, r, recv, req_queue, pser, out, events, lost, harm>>

-----------------------------------------------------------------------------
Fragment == [req: 1 .. MaxReq, i: 1 .. Capacity, n: 1 .. Capacity]
Request(q, n) == [i \in 1 .. n |-> [req |-> q, i |-> i, n |-> n]]
IsRequest(buf) == \E q \in 1 .. MaxReq, n \in 1 .. Capacity : buf = Request(q, n)

Item == [kind: {"req", "evt"}, of: 0 .. MaxReq, buf: Seq(Fragment)]
Sent == [kind: {"resp", "evt"}, of: 0 .. MaxReq]

Room(buf) == Capacity - Len(buf)
HasSpace  == Len(req_queue) < REQ_Q_MAX
PserIdle  == [pc |-> "idle", buf |-> <<>>, left |-> 0]
Xmit      == [pc |-> "xmit", buf |-> <<>>, left |-> 0]
RecvIdle  == [pc |-> "idle", frag |-> <<>>, buf |-> <<>>, room |-> 0]

TypeOK ==
  /\ bus \in Seq(Fragment) /\ sent \in 0 .. MaxReq
  /\ r \in [valid: BOOLEAN, buf: Seq(Fragment)]
  /\ Len(r.buf) <= Capacity
  /\ recv \in [pc: {"idle", "store", "commit", "send"}, frag: Seq(Fragment),
               buf: Seq(Fragment), room: 0 .. Capacity]
  /\ req_queue \in Seq(Item) /\ Len(req_queue) <= REQ_Q_MAX
  /\ pser \in [pc: {"idle", "clear", "parse", "handler", "xmit"},
               buf: Seq(Fragment), left: 0 .. MaxEmit]
  /\ out \in Seq(Sent)
  /\ events \in 0 .. MaxEvents /\ lost \in Nat
  /\ harm \subseteq {"cut", "stale_room", "early_valid", "no_mem"}

Init ==
  /\ bus = <<>> /\ sent = 0
  /\ r = [valid |-> FALSE, buf |-> <<>>]
  /\ recv = RecvIdle
  /\ req_queue = <<>>
  /\ pser = PserIdle
  /\ out = <<>> /\ events = 0 /\ lost = 0 /\ harm = {}

-----------------------------------------------------------------------------
(* The host writes a request, all its fragments in a row (one thread of    *)
(* the host writes, rpc_tx_thread), without waiting for earlier ones ...   *)
HostSend(n) ==
  /\ sent < MaxReq
  /\ sent' = sent + 1
  /\ bus' = bus \o Request(sent', n)
  /\ UNCHANGED <<r, recv, req_queue, pser, out, events, lost, harm>>

(* ... or fails after some of them (serial_ll_write) and does not resume.  *)
HostCut(n, k) ==
  /\ HostCuts /\ sent < MaxReq /\ k < n
  /\ sent' = sent + 1
  /\ bus' = bus \o SubSeq(Request(sent', n), 1, k)
  /\ harm' = harm \union {"cut"}
  /\ UNCHANGED <<r, recv, req_queue, pser, out, events, lost>>

-----------------------------------------------------------------------------
(* recv_task: process_serial_rx_pkt.                                       *)

(* The room in the buffer is computed first ...                            *)
RecvRead ==
  /\ recv.pc = "idle" /\ bus # <<>>
  /\ recv' = [recv EXCEPT !.pc = "store", !.frag = <<Head(bus)>>,
                          !.room = Room(r.buf)]
  /\ bus' = Tail(bus)
  /\ UNCHANGED <<sent, r, req_queue, pser, out, events, lost, harm>>

(* What the buffer holds with the fragment copied behind r.len, as much of *)
(* it as there was room for.                                               *)
Extended == r.buf \o (IF recv.room > 0 THEN recv.frag ELSE <<>>)

(* Mutant of RecvStore: no wait for the previous request to be read.       *)
RecvStoreNoWait ==
  /\ recv.pc = "store"
  /\ recv' = [recv EXCEPT !.pc = "commit", !.buf = Extended]
  /\ UNCHANGED <<hostVars, r, req_queue, pser, out, events, lost, harm>>

(* ... then the previous request has to be read, and as much of the        *)
(* fragment is copied as there was room for BEFORE that wait.              *)
RecvStore ==
  /\ recv.pc = "store"
  /\ ~r.valid
  /\ recv' = [recv EXCEPT !.pc = "commit", !.buf = Extended]
  /\ harm' = harm
       \union (IF recv.room = 0 /\ Room(r.buf) > 0 THEN {"stale_room"} ELSE {})
       \union (IF pser.pc = "clear" THEN {"early_valid"} ELSE {})
  /\ UNCHANGED <<hostVars, r, req_queue, pser, out, events, lost>>

(* r.len is written from the value read before the copy.  The last         *)
(* fragment makes the buffer valid.                                        *)
RecvCommit ==
  /\ recv.pc = "commit"
  /\ LET f == Head(recv.frag)
     IN  /\ r' = [valid |-> f.i = f.n, buf |-> recv.buf]
         /\ recv' = IF f.i = f.n THEN [RecvIdle EXCEPT !.pc = "send"]
                    ELSE RecvIdle
  /\ UNCHANGED <<hostVars, req_queue, pser, out, events, lost, harm>>

(* parse_protobuf_req: a copy goes to pserial_task; blocks while the queue *)
(* is full.                                                                *)
RecvSend ==
  /\ recv.pc = "send" /\ HasSpace
  /\ req_queue' = Append(req_queue, [kind |-> "req", of |-> 0, buf |-> r.buf])
  /\ recv' = RecvIdle
  /\ UNCHANGED <<hostVars, r, pser, out, events, lost, harm>>

(* No memory for the copy: the result is ignored, and the buffer stays     *)
(* valid although nobody will read it.                                     *)
RecvNoMem ==
  /\ OutOfMemory /\ recv.pc = "send"
  /\ recv' = RecvIdle
  /\ harm' = harm \union {"no_mem"}
  /\ UNCHANGED <<hostVars, r, req_queue, pser, out, events, lost>>

-----------------------------------------------------------------------------
(* Any other task of the slave sends an event to the host.                 *)
SendEvent ==
  /\ events < MaxEvents /\ HasSpace
  /\ events' = events + 1
  /\ req_queue' = Append(req_queue, [kind |-> "evt", of |-> 0, buf |-> <<>>])
  /\ UNCHANGED <<hostVars, r, recv, pser, out, lost, harm>>

-----------------------------------------------------------------------------
(* pserial_task.                                                           *)

(* An event is encoded and its transmission begins.                        *)
TakeEvent ==
  /\ pser.pc = "idle" /\ req_queue # <<>>
  /\ Head(req_queue).kind = "evt"
  /\ out' = Append(out, [kind |-> "evt", of |-> Head(req_queue).of])
  /\ req_queue' = Tail(req_queue)
  /\ pser' = Xmit
  /\ UNCHANGED <<hostVars, r, recv, events, lost, harm>>

(* The transmission ends: serial_write_data waits for a place in the queue *)
(* to the host, or for the sleeping host to wake up, without a limit.      *)
XmitDone ==
  /\ pser.pc = "xmit"
  /\ pser' = PserIdle
  /\ UNCHANGED <<hostVars, r, recv, req_queue, out, events, lost, harm>>

(* What serial_read_data leaves in the queued copy: no more of it than     *)
(* r.len says, from the buffer if that is valid.                           *)
ReadData(copy) ==
  LET len == IF Len(copy) < Len(r.buf) THEN Len(copy) ELSE Len(r.buf)
  IN  SubSeq(IF r.valid THEN r.buf ELSE copy, 1, len)

(* Mutant of TakeRequest: the buffer is never given back.                  *)
TakeRequestKeepsValid ==
  /\ pser.pc = "idle" /\ req_queue # <<>>
  /\ Head(req_queue).kind = "req"
  /\ pser' = [pc |-> "clear", left |-> 0, buf |-> ReadData(Head(req_queue).buf)]
  /\ req_queue' = Tail(req_queue)
  /\ UNCHANGED <<hostVars, r, recv, out, events, lost, harm>>

(* serial_read_data: a valid buffer is read and given back to recv_task    *)
(* ...                                                                     *)
TakeRequest ==
  /\ pser.pc = "idle" /\ req_queue # <<>>
  /\ Head(req_queue).kind = "req"
  /\ pser' = [pc |-> IF r.valid THEN "clear" ELSE "parse", left |-> 0,
              buf |-> ReadData(Head(req_queue).buf)]
  /\ r' = [r EXCEPT !.valid = FALSE]
  /\ req_queue' = Tail(req_queue)
  /\ UNCHANGED <<hostVars, recv, out, events, lost, harm>>

(* ... before its length is reset.                                         *)
ClearLength ==
  /\ pser.pc = "clear"
  /\ r' = [r EXCEPT !.buf = <<>>]
  /\ pser' = [pser EXCEPT !.pc = "parse"]
  /\ UNCHANGED <<hostVars, recv, req_queue, out, events, lost, harm>>

(* rpc_req_handler: what is no request is dropped without an answer, ...   *)
RejectRequest ==
  /\ pser.pc = "parse"
  /\ ~IsRequest(pser.buf)
  /\ lost' = lost + 1
  /\ pser' = PserIdle
  /\ UNCHANGED <<hostVars, r, recv, req_queue, out, events, harm>>

(* ... and a request is dispatched to its handler.                         *)
Dispatch(k) ==
  /\ pser.pc = "parse"
  /\ IsRequest(pser.buf)
  /\ pser' = [pser EXCEPT !.pc = "handler", !.left = k]
  /\ UNCHANGED <<hostVars, r, recv, req_queue, out, events, lost, harm>>

(* The handler answers through esp_hosted_send_custom_data, which queues   *)
(* an event; blocks while the queue is full.  (An event there is no memory *)
(* for is dropped without an error: as if the handler had not sent it.)    *)
HandlerSend ==
  /\ pser.pc = "handler" /\ pser.left > 0 /\ HasSpace
  /\ req_queue' = Append(req_queue,
       [kind |-> "evt", of |-> pser.buf[1].req, buf |-> <<>>])
  /\ pser' = [pser EXCEPT !.left = @ - 1]
  /\ UNCHANGED <<hostVars, r, recv, out, events, lost, harm>>

(* Mutant of HandlerReturns: the handler's events are sent on its return.  *)
HandlerReturnsLate ==
  /\ pser.pc = "handler" /\ pser.left = 0
  /\ \/ /\ req_queue # <<>> /\ Head(req_queue).of = pser.buf[1].req
        /\ out' = Append(out, [kind |-> "evt", of |-> pser.buf[1].req])
        /\ req_queue' = Tail(req_queue)
        /\ UNCHANGED pser
     \/ /\ out' = Append(out, [kind |-> "resp", of |-> pser.buf[1].req])
        /\ pser' = Xmit
        /\ UNCHANGED req_queue
  /\ UNCHANGED <<hostVars, r, recv, events, lost, harm>>

(* When the handler returns, the transmission of its response begins at    *)
(* once ...                                                                *)
HandlerReturns ==
  /\ pser.pc = "handler" /\ pser.left = 0
  /\ out' = Append(out, [kind |-> "resp", of |-> pser.buf[1].req])
  /\ pser' = Xmit
  /\ UNCHANGED <<hostVars, r, recv, req_queue, events, lost, harm>>

(* ... unless there is no memory to build or encode it.                    *)
HandlerFails ==
  /\ OutOfMemory
  /\ pser.pc = "handler" /\ pser.left = 0
  /\ pser' = PserIdle
  /\ UNCHANGED <<hostVars, r, recv, req_queue, out, events, lost, harm>>

-----------------------------------------------------------------------------
HostStep == \E n \in 1 .. Capacity :
              HostSend(n) \/ \E k \in 1 .. n - 1 : HostCut(n, k)
RecvStep == RecvRead \/ RecvStore \/ RecvCommit \/ RecvSend \/ RecvNoMem
(* What pserial_task does without waiting for anybody ...                  *)
PserOwn  == \/ TakeEvent \/ TakeRequest \/ ClearLength \/ RejectRequest
            \/ \E k \in 0 .. MaxEmit : Dispatch(k)
(* ... and what may take as long as it likes: a transmission, a handler.   *)
PserWait == XmitDone \/ HandlerSend \/ HandlerReturns \/ HandlerFails
PserStep == PserOwn \/ PserWait

Next == HostStep \/ RecvStep \/ SendEvent \/ PserStep

Spec == Init /\ [][Next]_vars

(* Both tasks are scheduled.  Nothing is assumed of what they wait for: a  *)
(* transmission may wait for ever for a host that sleeps (wakeup_host with *)
(* portMAX_DELAY), and a handler for a driver (deinit_bluetooth takes the  *)
(* controller's semaphore) or for a place in pserial_task's own queue.     *)
FairSpec == Spec /\ WF_vars(RecvStep) /\ WF_vars(PserOwn)

-----------------------------------------------------------------------------
(* Properties.                                                             *)

(* The hand-shake over the one buffer: while a request waits in the queue, *)
(* recv_task leaves the buffer alone and holds no second request, so what  *)
(* pserial_task will read is what was queued, although the buffer is       *)
(* shared without a lock -- as long as recv_task does not wake up between  *)
(* the two assignments of serial_read_data.                                *)
QueuedRequestKept ==
  "early_valid" \notin harm =>
    \A k \in 1 .. Len(req_queue) : req_queue[k].kind = "req" =>
      /\ r = [valid |-> TRUE, buf |-> req_queue[k].buf]
      /\ recv.pc \notin {"commit", "send"}
      /\ \A j \in 1 .. Len(req_queue) : req_queue[j].kind = "req" => j = k

(* There are only three ways for the host's fragments to reach             *)
(* rpc_req_handler as anything but a request: a write of the host broke    *)
(* off, a fragment was cut to the room there was before the wait, or one   *)
(* was stored before the length of the buffer was reset.                   *)
LostOnlyByHarm ==
  lost > 0 => harm \intersect {"cut", "stale_room", "early_valid"} # {}

(* The host sees the response to a request before any event its handler    *)
(* sent, although the handler sends those first (unless a request is       *)
(* handed over a second time, see AnsweredInOrder).                        *)
ResponseBeforeItsEvents ==
  "early_valid" \notin harm =>
    \A j, k \in 1 .. Len(out) :
      out[j].kind = "evt" /\ out[k].kind = "resp" /\ out[j].of = out[k].of =>
        k < j

(* No request is answered twice, and answers come in the order of the      *)
(* requests -- again unless recv_task wakes up between the assignments of  *)
(* serial_read_data, when it can hand over the old request once more.      *)
AnsweredInOrder ==
  "early_valid" \notin harm =>
    \A j, k \in 1 .. Len(out) :
      j < k /\ out[j].kind = "resp" /\ out[k].kind = "resp" =>
        out[j].of < out[k].of

(* recv_task always gets to read the next fragment, although it waits      *)
(* without a time-out for the one buffer and for a place in the queue,     *)
(* unless one transmission or one handler lasts for ever (a handler does   *)
(* that also when it sends an event into its own task's full queue), or a  *)
(* request no memory was found to copy stays in the buffer: its hand-over  *)
(* is the only other thing that keeps recv_task for good.                  *)
Unread == /\ "no_mem" \in harm /\ r.valid
          /\ \A k \in 1 .. Len(req_queue) : req_queue[k].kind = "evt"
RecvReturns ==
  recv.pc # "idle" ~> \/ recv.pc = "idle"
                      \/ [](pser.pc = "xmit") \/ [](pser.pc = "handler")
                      \/ []Unread

(* The host's view of the endpoint: the types, no request is lost but in   *)
(* the three ways, its events follow its response, and requests are        *)
(* answered once and in order.                                             *)
RequestsInOrder ==
  /\ TypeOK
  /\ LostOnlyByHarm
  /\ ResponseBeforeItsEvents
  /\ AnsweredInOrder
=============================================================================
