------------------------- MODULE PserialQueueProofs -------------------------
(***************************************************************************)
(* Proofs about the slave's serial endpoint, for any size of queue, buffer *)
(* and request, any number of requests and events, with and without broken *)
(* writes and memory shortages.                                            *)
(***************************************************************************)
EXTENDS PserialQueue, TLAPS, SequenceTheorems

USE DEF hostVars, vars

-----------------------------------------------------------------------------
(* Sequences.                                                              *)

(* Taking the head off a queue shifts it.                                  *)
LEMMA TailFacts ==
  ASSUME NEW S, NEW q \in Seq(S), q # <<>>
  PROVE  /\ Head(q) \in S /\ Tail(q) \in Seq(S) /\ Head(q) = q[1]
         /\ Len(q) \in Nat \ {0} /\ Len(Tail(q)) = Len(q) - 1
         /\ \A k \in 1 .. Len(Tail(q)) : /\ k + 1 \in 1 .. Len(q)
                                         /\ Tail(q)[k] = q[k + 1]
OBVIOUS

(* Adding to a queue leaves what is in it where it is.                     *)
LEMMA AppendFacts ==
  ASSUME NEW S, NEW q \in Seq(S), NEW e \in S
  PROVE  /\ Append(q, e) \in Seq(S)
         /\ Len(q) \in Nat /\ Len(Append(q, e)) = Len(q) + 1
         /\ \A k \in 1 .. Len(q) : Append(q, e)[k] = q[k]
         /\ Append(q, e)[Len(q) + 1] = e
OBVIOUS

(* Joining two sequences.                                                  *)
LEMMA JoinFacts ==
  ASSUME NEW S, NEW p \in Seq(S), NEW q \in Seq(S)
  PROVE  /\ p \o q \in Seq(S) /\ Len(p \o q) = Len(p) + Len(q)
         /\ Len(p) \in Nat /\ Len(q) \in Nat
         /\ \A k \in 1 .. Len(p) : (p \o q)[k] = p[k]
         /\ \A k \in 1 .. Len(q) : (p \o q)[Len(p) + k] = q[k]
OBVIOUS

(* A request is a sequence of as many fragments as its length says.        *)
LEMMA RequestSeq ==
  ASSUME NEW q \in 1 .. MaxReq, NEW n \in 1 .. Capacity
  PROVE  /\ Request(q, n) \in Seq(Fragment)
         /\ Len(Request(q, n)) = n
         /\ \A i \in 1 .. n : Request(q, n)[i] = [req |-> q, i |-> i, n |-> n]
<1>1. n \in Nat
  BY PserialAssumption
<1>2. \A i \in 1 .. n : [req |-> q, i |-> i, n |-> n] \in Fragment
  BY <1>1, PserialAssumption DEF Fragment
<1> QED
  BY <1>1, <1>2 DEF Request

(* A prefix of it is one too.                                              *)
LEMMA CutSeq ==
  ASSUME NEW q \in 1 .. MaxReq, NEW n \in 1 .. Capacity, NEW k \in 1 .. n
  PROVE  /\ SubSeq(Request(q, n), 1, k) \in Seq(Fragment)
         /\ Len(SubSeq(Request(q, n), 1, k)) = k
         /\ \A i \in 1 .. k : SubSeq(Request(q, n), 1, k)[i]
                                = [req |-> q, i |-> i, n |-> n]
  BY RequestSeq, PserialAssumption

(* What serial_read_data leaves is no longer than the copy.                *)
LEMMA ReadSeq ==
  ASSUME TypeOK, NEW copy \in Seq(Fragment)
  PROVE  /\ ReadData(copy) \in Seq(Fragment)
         /\ r.valid /\ copy = r.buf => ReadData(copy) = copy
<1>1. r.buf \in Seq(Fragment)
  BY DEF TypeOK
<1> QED
  BY <1>1 DEF ReadData

-----------------------------------------------------------------------------
(* Types: recv_task never writes beyond the buffer.                        *)
Bounded ==
  /\ TypeOK
  /\ recv.pc \in {"store", "commit"} => Len(recv.frag) = 1
  /\ recv.pc \notin {"store", "commit"} => recv.frag = <<>>
  /\ recv.pc = "store" /\ recv.room > 0 => Len(r.buf) < Capacity
  /\ recv.pc = "commit" => Len(recv.buf) <= Capacity
  /\ pser.pc = "handler" => IsRequest(pser.buf)

(* The host's writes keep the types: a request's fragments are fragments.  *)
LEMMA HostBounded ==
  ASSUME Bounded, HostStep
  PROVE  Bounded'
<1>1. ASSUME NEW n \in 1 .. Capacity, HostSend(n) PROVE Bounded'
  <2>1. /\ sent' \in 1 .. MaxReq /\ bus' = bus \o Request(sent', n)
        /\ UNCHANGED <<r, recv, req_queue, pser, out, events, lost, harm>>
    BY <1>1, PserialAssumption, SMTT(30) DEF Bounded, TypeOK, HostSend
  <2>2. bus' \in Seq(Fragment)
    BY <2>1, RequestSeq DEF Bounded, TypeOK
  <2> QED
    BY <2>1, <2>2 DEF Bounded, TypeOK
<1>2. ASSUME NEW n \in 1 .. Capacity, NEW k \in 1 .. n - 1, HostCut(n, k)
      PROVE  Bounded'
  <2>0. harm' \subseteq {"cut", "stale_room", "early_valid", "no_mem"}
    BY <1>2 DEF Bounded, TypeOK, HostCut
  <2>1. /\ sent' \in 1 .. MaxReq
        /\ bus' = bus \o SubSeq(Request(sent', n), 1, k)
        /\ UNCHANGED <<r, recv, req_queue, pser, out, events, lost>>
    <3>1. /\ sent' = sent + 1 /\ sent < MaxReq
          /\ bus' = bus \o SubSeq(Request(sent', n), 1, k)
          /\ UNCHANGED <<r, recv, req_queue, pser, out, events, lost>>
      BY <1>2 DEF HostCut
    <3> QED
      BY <3>1, PserialAssumption, SMTT(30) DEF Bounded, TypeOK
  <2>2. k \in 1 .. n
    BY PserialAssumption
  <2>3. bus' \in Seq(Fragment)
    <3> DEFINE cut == SubSeq(Request(sent', n), 1, k)
    <3>1. cut \in Seq(Fragment)
      BY <2>1, <2>2, CutSeq
    <3> HIDE DEF cut
    <3> QED
      BY <2>1, <3>1, JoinFacts DEF Bounded, TypeOK, cut
  <2> QED
    BY <2>0, <2>1, <2>3 DEF Bounded, TypeOK
<1> QED
  BY <1>1, <1>2 DEF HostStep

(* So do recv_task's steps: a fragment is copied only into room there is,  *)
(* because between computing the room and copying nobody else makes the    *)
(* buffer longer.                                                          *)
LEMMA RecvBounded ==
  ASSUME Bounded, RecvStep
  PROVE  Bounded'
<1>0. TypeOK /\ Capacity \in Nat /\ r.buf \in Seq(Fragment)
  BY PserialAssumption DEF Bounded, TypeOK
<1>1. CASE RecvRead
  <2>1. /\ Head(bus) \in Fragment /\ bus' \in Seq(Fragment)
        /\ <<Head(bus)>> \in Seq(Fragment) /\ Len(<<Head(bus)>>) = 1
    BY <1>1 DEF RecvRead, Bounded, TypeOK
  <2>2. Room(r.buf) \in 0 .. Capacity
        /\ (Room(r.buf) > 0 => Len(r.buf) < Capacity)
    BY <1>0 DEF TypeOK, Room
  <2>3. /\ recv' = [recv EXCEPT !.pc = "store", !.frag = <<Head(bus)>>,
                                !.room = Room(r.buf)]
        /\ UNCHANGED <<sent, r, req_queue, pser, out, events, lost, harm>>
    BY <1>1 DEF RecvRead
  <2> QED
    BY <2>1, <2>2, <2>3 DEF Bounded, TypeOK
<1>2. CASE RecvStore
  <2>1. /\ recv.frag \in Seq(Fragment) /\ Len(recv.frag) = 1
        /\ recv.room \in 0 .. Capacity
    BY <1>2 DEF RecvStore, Bounded, TypeOK
  <2>2. Extended \in Seq(Fragment) /\ Len(Extended) <= Capacity
    <3>1. CASE recv.room > 0
      <4>1. Len(r.buf) < Capacity
        BY <1>2, <3>1 DEF RecvStore, Bounded
      <4>2. Extended = r.buf \o recv.frag
        BY <3>1 DEF Extended
      <4>3. recv.frag \in Seq(Fragment) /\ r.buf \in Seq(Fragment)
        BY <1>0, <2>1
      <4>4. Len(r.buf \o recv.frag) = Len(r.buf) + Len(recv.frag)
        BY ONLY <4>3, JoinFacts
      <4> QED
        BY <1>0, <2>1, <4>1, <4>2, <4>3, <4>4, JoinFacts
    <3>2. CASE ~(recv.room > 0)
      BY <1>0, <3>2 DEF Extended, TypeOK
    <3> QED
      BY <3>1, <3>2
  <2>3. /\ recv' = [recv EXCEPT !.pc = "commit", !.buf = Extended]
        /\ UNCHANGED <<hostVars, r, req_queue, pser, out, events, lost>>
        /\ recv.pc = "store"
    BY <1>2 DEF RecvStore
  <2>4. harm' \subseteq {"cut", "stale_room", "early_valid", "no_mem"}
    BY <1>2 DEF RecvStore, Bounded, TypeOK
  <2> QED
    BY <2>1, <2>2, <2>3, <2>4 DEF Bounded, TypeOK
<1>3. CASE RecvCommit
  <2>1. /\ r' \in [valid: BOOLEAN, buf: Seq(Fragment)] /\ r'.buf = recv.buf
        /\ recv' = [RecvIdle EXCEPT !.pc = "send"] \/ recv' = RecvIdle
        /\ UNCHANGED <<hostVars, req_queue, pser, out, events, lost, harm>>
    <3>1. recv.buf \in Seq(Fragment)
      BY DEF Bounded, TypeOK
    <3> QED
      BY <1>3, <3>1 DEF RecvCommit
  <2>2. recv.pc = "commit" /\ Len(recv.buf) <= Capacity
    BY <1>3 DEF RecvCommit, Bounded
  <2>3. /\ recv' \in [pc: {"idle", "store", "commit", "send"},
                      frag: Seq(Fragment), buf: Seq(Fragment),
                      room: 0 .. Capacity]
        /\ recv'.pc \notin {"store", "commit"} /\ recv'.frag = <<>>
    <3>1. PICK e \in Seq(Fragment) : e = <<>>
      BY EmptySeq
    <3>2. RecvIdle = [pc |-> "idle", frag |-> e, buf |-> e, room |-> 0]
      BY <3>1 DEF RecvIdle
    <3>3. recv' \in {[RecvIdle EXCEPT !.pc = "send"], RecvIdle}
      BY <2>1
    <3>4. \E p \in {"idle", "send"} :
            recv' = [pc |-> p, frag |-> e, buf |-> e, room |-> 0]
      BY <3>2, <3>3
    <3>5. /\ recv' \in [pc: {"idle", "store", "commit", "send"},
                        frag: Seq(Fragment), buf: Seq(Fragment),
                        room: 0 .. Capacity]
          /\ recv'.pc \notin {"store", "commit"} /\ recv'.frag = e
      BY <3>4, <1>0
    <3> QED
      BY <3>1, <3>5
  <2> QED
    BY <2>1, <2>2, <2>3 DEF Bounded, TypeOK
<1>4. CASE RecvSend
  <2> DEFINE e == [kind |-> "req", of |-> 0, buf |-> r.buf]
  <2>1. e \in Item
    BY <1>0, PserialAssumption DEF Item
  <2>2. /\ req_queue' = Append(req_queue, e) /\ Len(req_queue) < REQ_Q_MAX
        /\ recv' = RecvIdle
        /\ UNCHANGED <<hostVars, r, pser, out, events, lost, harm>>
    BY <1>4 DEF RecvSend, HasSpace
  <2> HIDE DEF e
  <2>3. req_queue' \in Seq(Item) /\ Len(req_queue') <= REQ_Q_MAX
    BY <1>0, <2>1, <2>2, AppendFacts, PserialAssumption, SMTT(60) DEF TypeOK
  <2> QED
    BY <1>0, <2>2, <2>3 DEF Bounded, TypeOK, RecvIdle
<1>5. CASE RecvNoMem
  BY <1>0, <1>5 DEF RecvNoMem, Bounded, TypeOK, RecvIdle
<1> QED
  BY <1>1, <1>2, <1>3, <1>4, <1>5 DEF RecvStep

(* So do pserial_task's: what it takes from the queue it hands on, and     *)
(* only a request reaches a handler.                                       *)
LEMMA PserBounded ==
  ASSUME Bounded, PserStep
  PROVE  Bounded'
<1>0. /\ TypeOK /\ {Capacity, REQ_Q_MAX, MaxReq, MaxEmit} \subseteq Nat
      /\ r.buf \in Seq(Fragment)
      /\ req_queue \in Seq(Item) /\ out \in Seq(Sent)
      /\ pser.buf \in Seq(Fragment)
  BY PserialAssumption DEF Bounded, TypeOK
<1>1. req_queue # <<>> =>
        /\ Head(req_queue) \in Item
        /\ Tail(req_queue) \in Seq(Item)
        /\ Len(Tail(req_queue)) <= REQ_Q_MAX
  BY <1>0, TailFacts, SMTT(60) DEF TypeOK
<1>2. ASSUME pser.pc = "handler"
      PROVE  pser.buf[1].req \in 0 .. MaxReq
  <2>1. PICK q \in 1 .. MaxReq, n \in 1 .. Capacity : pser.buf = Request(q, n)
    BY <1>2 DEF Bounded, IsRequest
  <2>2. 1 \in 1 .. n
    BY <1>0
  <2>3. Request(q, n)[1] = [req |-> q, i |-> 1, n |-> n]
    BY <2>2, RequestSeq
  <2> QED
    BY <2>1, <2>3, <1>0
<1>3. CASE TakeEvent
  <2> DEFINE e == [kind |-> "evt", of |-> Head(req_queue).of]
  <2>1. e \in Sent
    BY <1>1, <1>3 DEF TakeEvent, Item, Sent
  <2>2. /\ out' = Append(out, e) /\ req_queue' = Tail(req_queue)
        /\ req_queue # <<>> /\ pser' = Xmit
        /\ UNCHANGED <<hostVars, r, recv, events, lost, harm>>
    BY <1>3 DEF TakeEvent
  <2> HIDE DEF e
  <2> QED
    BY <1>0, <1>1, <2>1, <2>2 DEF Bounded, TypeOK, Xmit
<1>4. CASE TakeRequest
  <2>1. ReadData(Head(req_queue).buf) \in Seq(Fragment)
    BY <1>0, <1>1, <1>4, ReadSeq DEF TakeRequest, Item
  <2>2. r' \in [valid: BOOLEAN, buf: Seq(Fragment)] /\ r'.buf = r.buf
    BY <1>0, <1>4 DEF TakeRequest, TypeOK
  <2>3. /\ pser' = [pc |-> IF r.valid THEN "clear" ELSE "parse", left |-> 0,
                    buf |-> ReadData(Head(req_queue).buf)]
        /\ req_queue' = Tail(req_queue) /\ req_queue # <<>>
        /\ UNCHANGED <<hostVars, recv, out, events, lost, harm>>
    BY <1>4 DEF TakeRequest
  <2>4. /\ pser' \in [pc: {"idle", "clear", "parse", "handler", "xmit"},
                      buf: Seq(Fragment), left: 0 .. MaxEmit]
        /\ pser'.pc # "handler"
    BY <1>0, <2>1, <2>3
  <2> QED
    BY <1>0, <1>1, <2>2, <2>3, <2>4 DEF Bounded, TypeOK
<1>5. CASE ClearLength
  <2>0. r' = [r EXCEPT !.buf = <<>>]
    BY <1>5 DEF ClearLength
  <2>1. UNCHANGED <<hostVars, recv, req_queue, out, events, lost, harm>>
    BY <1>5 DEF ClearLength
  <2>2. /\ r' \in [valid: BOOLEAN, buf: Seq(Fragment)] /\ r'.buf = <<>>
        /\ Len(r'.buf) = 0
    <3>1. PICK e \in Seq(Fragment) : e = <<>>
      BY EmptySeq
    <3>2. r \in [valid: BOOLEAN, buf: Seq(Fragment)]
      BY <1>0 DEF TypeOK
    <3>3. r' = [r EXCEPT !.buf = e]
      BY <2>0, <3>1
    <3> QED
      BY <3>1, <3>2, <3>3
  <2>3. Len(r'.buf) < Capacity /\ Len(r'.buf) <= Capacity
    BY <2>2, PserialAssumption
  <2>4. /\ pser' \in [pc: {"idle", "clear", "parse", "handler", "xmit"},
                      buf: Seq(Fragment), left: 0 .. MaxEmit]
        /\ pser'.pc # "handler"
    BY <1>0, <1>5 DEF TypeOK, ClearLength
  <2> QED
    BY <2>1, <2>2, <2>3, <2>4 DEF Bounded, TypeOK
<1>6. CASE RejectRequest
  BY <1>0, <1>6 DEF RejectRequest, Bounded, TypeOK, PserIdle
<1>7. ASSUME NEW k \in 0 .. MaxEmit, Dispatch(k) PROVE Bounded'
  BY <1>0, <1>7 DEF Dispatch, Bounded, TypeOK
<1>8. CASE HandlerSend
  <2> DEFINE e == [kind |-> "evt", of |-> pser.buf[1].req, buf |-> <<>>]
  <2>1. e \in Item
    BY <1>0, <1>2, <1>8 DEF HandlerSend, Item
  <2>2. /\ req_queue' = Append(req_queue, e) /\ Len(req_queue) < REQ_Q_MAX
        /\ UNCHANGED <<hostVars, r, recv, out, events, lost, harm>>
    BY <1>8 DEF HandlerSend, HasSpace
  <2> HIDE DEF e
  <2>3. req_queue' \in Seq(Item) /\ Len(req_queue') <= REQ_Q_MAX
    BY <1>0, <2>1, <2>2, AppendFacts
  <2>4. /\ pser' \in [pc: {"idle", "clear", "parse", "handler", "xmit"},
                      buf: Seq(Fragment), left: 0 .. MaxEmit]
        /\ pser'.buf = pser.buf /\ pser.pc = "handler"
    <3>1. /\ pser' = [pser EXCEPT !.left = @ - 1]
          /\ pser.left > 0 /\ pser.pc = "handler"
      BY <1>8 DEF HandlerSend
    <3>2. pser \in [pc: {"idle", "clear", "parse", "handler", "xmit"},
                   buf: Seq(Fragment), left: 0 .. MaxEmit]
      BY <1>0 DEF TypeOK
    <3>3. pser.left - 1 \in 0 .. MaxEmit
      BY <1>0, <3>1, <3>2
    <3> QED
      BY <3>1, <3>2, <3>3
  <2>5. IsRequest(pser'.buf)
    BY <2>4 DEF Bounded
  <2>6. IsRequest(pser.buf)'
    BY <2>5 DEF IsRequest
  <2> QED
    BY <1>0, <2>2, <2>3, <2>4, <2>6 DEF Bounded, TypeOK
<1>9. CASE HandlerReturns
  <2> DEFINE e == [kind |-> "resp", of |-> pser.buf[1].req]
  <2>1. e \in Sent
    BY <1>0, <1>2, <1>9 DEF HandlerReturns, Sent
  <2>2. /\ out' = Append(out, e) /\ pser' = Xmit
        /\ UNCHANGED <<hostVars, r, recv, req_queue, events, lost, harm>>
    BY <1>9 DEF HandlerReturns
  <2> HIDE DEF e
  <2> QED
    BY <1>0, <2>1, <2>2 DEF Bounded, TypeOK, Xmit
<1>10. CASE HandlerFails \/ XmitDone
  <2>1. pser' = PserIdle /\ UNCHANGED <<hostVars, r, recv, req_queue, out, events, lost, harm>>
    BY <1>10 DEF HandlerFails, XmitDone
  <2> QED
    BY <1>0, <2>1 DEF Bounded, TypeOK, PserIdle
<1> QED
  BY <1>3, <1>4, <1>5, <1>6, <1>7, <1>8, <1>9, <1>10 DEF PserStep, PserOwn, PserWait

(* Every step keeps the types.                                             *)
LEMMA NextBounded == Bounded /\ [Next]_vars => Bounded'
<1> SUFFICES ASSUME Bounded, [Next]_vars PROVE Bounded'
  OBVIOUS
<1>1. CASE SendEvent
  <2> DEFINE e == [kind |-> "evt", of |-> 0, buf |-> <<>>]
  <2>1. e \in Item
    BY PserialAssumption DEF Item
  <2>2. /\ req_queue' = Append(req_queue, e) /\ Len(req_queue) < REQ_Q_MAX
        /\ events' \in 0 .. MaxEvents
        /\ UNCHANGED <<hostVars, r, recv, pser, out, lost, harm>>
    BY <1>1, PserialAssumption, SMTT(60) DEF SendEvent, HasSpace, Bounded, TypeOK
  <2> HIDE DEF e
  <2>3. req_queue' \in Seq(Item) /\ Len(req_queue') <= REQ_Q_MAX
    BY <2>1, <2>2, AppendFacts, PserialAssumption, SMTT(60) DEF Bounded, TypeOK
  <2> QED
    BY <2>2, <2>3 DEF Bounded, TypeOK
<1>2. CASE UNCHANGED vars
  BY <1>2 DEF Bounded, TypeOK, IsRequest
<1> QED
  BY <1>1, <1>2, HostBounded, RecvBounded, PserBounded DEF Next

(* They hold at the start, ...                                             *)
LEMMA InitBounded == Init => Bounded
  BY PserialAssumption DEF Init, Bounded, TypeOK, RecvIdle, PserIdle

(* ... so always.                                                          *)
LEMMA BoundedAlways == Spec => []Bounded
<1> QED
  BY InitBounded, NextBounded, PTL DEF Spec

-----------------------------------------------------------------------------
(* The hand-shake.                                                         *)
QueuedReq(k) == k \in 1 .. Len(req_queue) /\ req_queue[k].kind = "req"
NoneQueued   == \A k \in 1 .. Len(req_queue) : req_queue[k].kind # "req"

(* recv_task and pserial_task take turns with the buffer.                  *)
TakingTurns ==
  /\ \A k \in 1 .. Len(req_queue) : req_queue[k].kind = "req" =>
       /\ r.valid /\ r.buf = req_queue[k].buf
       /\ recv.pc \notin {"commit", "send"} /\ pser.pc # "clear"
       /\ \A j \in 1 .. Len(req_queue) : req_queue[j].kind = "req" => j = k
  /\ recv.pc \in {"commit", "send"} => NoneQueued /\ pser.pc # "clear"
  /\ recv.pc = "commit" => ~r.valid
  /\ recv.pc = "send" => r.valid
  /\ pser.pc = "clear" => ~r.valid
Turns == "early_valid" \notin harm => TakingTurns

(* A step that adds at most an event to the queue and leaves the buffer    *)
(* and the two tasks' hold on it alone.                                    *)
LEMMA TurnsKept ==
  ASSUME Bounded, TakingTurns,
         \/ req_queue' = req_queue
         \/ \E e \in Item : e.kind = "evt" /\ req_queue' = Append(req_queue, e),
         r' = r,
         recv'.pc = recv.pc \/ recv'.pc \notin {"commit", "send"},
         pser'.pc = pser.pc \/ pser'.pc # "clear"
  PROVE  TakingTurns'
<1>0. req_queue \in Seq(Item)
  BY DEF Bounded, TypeOK
<1>1. \A k : QueuedReq(k)' <=> QueuedReq(k) /\ req_queue'[k] = req_queue[k]
  <2>1. CASE req_queue' = req_queue
    BY <2>1 DEF QueuedReq
  <2>2. ASSUME NEW e \in Item, e.kind = "evt",
               req_queue' = Append(req_queue, e)
        PROVE  \A k : QueuedReq(k)' <=>
                      QueuedReq(k) /\ req_queue'[k] = req_queue[k]
    <3>1. /\ Len(req_queue) \in Nat /\ Len(req_queue') = Len(req_queue) + 1
          /\ \A k \in 1 .. Len(req_queue) : req_queue'[k] = req_queue[k]
          /\ req_queue'[Len(req_queue) + 1] = e
      BY <1>0, <2>2, AppendFacts
    <3>2. \A k : k \in 1 .. Len(req_queue') <=>
                 k \in 1 .. Len(req_queue) \/ k = Len(req_queue) + 1
      BY <3>1
    <3> QED
      BY <2>2, <3>1, <3>2 DEF QueuedReq
  <2> QED
    BY <2>1, <2>2
<1> QED
  BY <1>1 DEF TakingTurns, NoneQueued, QueuedReq

(* recv_task stores only into a buffer that has been read, and queues one  *)
(* request at a time.                                                      *)
LEMMA RecvTurns ==
  ASSUME Bounded, TakingTurns, RecvStep, "early_valid" \notin harm'
  PROVE  TakingTurns'
<1>1. CASE RecvRead
  BY <1>1, TurnsKept DEF RecvRead, Bounded, TypeOK
<1>2. CASE RecvStore
  <2>1. /\ ~r.valid /\ pser.pc # "clear" /\ recv'.pc = "commit"
        /\ UNCHANGED <<r, req_queue, pser>>
    BY <1>2 DEF RecvStore, Bounded, TypeOK
  <2> QED
    BY <2>1 DEF TakingTurns, NoneQueued
<1>3. CASE RecvCommit
  <2>1. /\ recv.pc = "commit" /\ UNCHANGED <<req_queue, pser>>
        /\ \/ recv'.pc = "send" /\ r'.valid
           \/ recv'.pc = "idle"
    <3>1. /\ \/ recv' = [RecvIdle EXCEPT !.pc = "send"] /\ r'.valid
             \/ recv' = RecvIdle
          /\ recv.pc = "commit" /\ UNCHANGED <<req_queue, pser>>
      <4> DEFINE f == Head(recv.frag)
      <4>1. /\ r' = [valid |-> f.i = f.n, buf |-> recv.buf]
            /\ recv' = IF f.i = f.n THEN [RecvIdle EXCEPT !.pc = "send"]
                       ELSE RecvIdle
            /\ recv.pc = "commit" /\ UNCHANGED <<req_queue, pser>>
        BY <1>3 DEF RecvCommit
      <4>2. r'.valid <=> f.i = f.n
        BY <4>1
      <4> QED
        BY <4>1, <4>2
    <3>2. [RecvIdle EXCEPT !.pc = "send"].pc = "send" /\ RecvIdle.pc = "idle"
      BY DEF RecvIdle
    <3> QED
      BY <3>1, <3>2
  <2> QED
    BY <2>1 DEF TakingTurns, NoneQueued
<1>4. CASE RecvSend
  <2> DEFINE e == [kind |-> "req", of |-> 0, buf |-> r.buf]
  <2>1. e \in Item /\ e.kind = "req" /\ e.buf = r.buf
    BY PserialAssumption DEF Item, Bounded, TypeOK
  <2>2. /\ req_queue' = Append(req_queue, e) /\ recv.pc = "send"
        /\ recv' = RecvIdle /\ UNCHANGED <<r, pser>>
    BY <1>4 DEF RecvSend
  <2> HIDE DEF e
  <2>3. /\ Len(req_queue) \in Nat /\ Len(req_queue') = Len(req_queue) + 1
        /\ \A k \in 1 .. Len(req_queue) : req_queue'[k] = req_queue[k]
        /\ req_queue'[Len(req_queue) + 1] = e
    BY <2>1, <2>2, AppendFacts DEF Bounded, TypeOK
  <2>4. \A k \in 1 .. Len(req_queue') : k \in 1 .. Len(req_queue)
                                        \/ k = Len(req_queue) + 1
    BY <2>3
  <2>5. recv'.pc = "idle"
    BY <2>2 DEF RecvIdle
  <2>6. NoneQueued /\ r.valid /\ pser.pc # "clear"
    BY <2>2 DEF TakingTurns
  <2>7. \A k \in 1 .. Len(req_queue') : req_queue'[k].kind = "req" =>
          k = Len(req_queue) + 1
    BY <2>3, <2>4, <2>6 DEF NoneQueued
  <2> QED
    BY <2>1, <2>2, <2>3, <2>5, <2>6, <2>7 DEF TakingTurns
<1>5. CASE RecvNoMem
  BY <1>5, TurnsKept DEF RecvNoMem, RecvIdle
<1> QED
  BY <1>1, <1>2, <1>3, <1>4, <1>5 DEF RecvStep

(* pserial_task takes the one request there is, and gives the buffer back. *)
LEMMA PserTurns ==
  ASSUME Bounded, TakingTurns, PserStep
  PROVE  TakingTurns'
<1>0. req_queue \in Seq(Item)
  BY DEF Bounded, TypeOK
<1>1. req_queue # <<>> =>
        /\ Head(req_queue) = req_queue[1] /\ 1 \in 1 .. Len(req_queue)
        /\ \A k \in 1 .. Len(Tail(req_queue)) :
             /\ k + 1 \in 1 .. Len(req_queue) /\ k \in Nat \ {0}
             /\ Tail(req_queue)[k] = req_queue[k + 1]
  BY <1>0, TailFacts
<1>2. CASE TakeEvent
  <2>1. /\ req_queue # <<>> /\ req_queue' = Tail(req_queue)
        /\ pser'.pc = "xmit" /\ UNCHANGED <<r, recv>>
    BY <1>2 DEF TakeEvent, Xmit
  <2> QED
    BY <1>1, <2>1 DEF TakingTurns, NoneQueued
<1>3. CASE TakeRequest
  <2>1. /\ req_queue # <<>> /\ req_queue' = Tail(req_queue)
        /\ Head(req_queue).kind = "req" /\ UNCHANGED recv
        /\ r' = [r EXCEPT !.valid = FALSE]
    BY <1>3 DEF TakeRequest
  <2>2. /\ r.valid /\ recv.pc \notin {"commit", "send"}
        /\ \A j \in 1 .. Len(req_queue) : req_queue[j].kind = "req" => j = 1
    BY <1>1, <2>1 DEF TakingTurns
  <2>3. NoneQueued'
    BY <1>1, <2>1, <2>2 DEF NoneQueued
  <2>4. ~r'.valid
    BY <2>1 DEF Bounded, TypeOK
  <2> QED
    BY <2>1, <2>2, <2>3, <2>4 DEF TakingTurns, NoneQueued
<1>4. CASE ClearLength
  <2>1. /\ pser.pc = "clear" /\ pser'.pc = "parse" /\ r'.valid = r.valid
        /\ UNCHANGED <<recv, req_queue>>
    BY <1>4 DEF ClearLength, Bounded, TypeOK
  <2> QED
    BY <2>1 DEF TakingTurns, NoneQueued
<1>5. CASE RejectRequest \/ HandlerReturns \/ HandlerFails \/ XmitDone
  BY <1>5, TurnsKept DEF RejectRequest, HandlerReturns, HandlerFails, XmitDone,
     PserIdle, Xmit
<1>6. ASSUME NEW k \in 0 .. MaxEmit, Dispatch(k) PROVE TakingTurns'
  BY <1>6, TurnsKept DEF Dispatch, Bounded, TypeOK
<1>7. CASE HandlerSend
  <2> DEFINE e == [kind |-> "evt", of |-> pser.buf[1].req, buf |-> <<>>]
  <2>1. /\ req_queue' = Append(req_queue, e) /\ e.kind = "evt"
        /\ pser.pc = "handler" /\ pser' = [pser EXCEPT !.left = @ - 1]
        /\ UNCHANGED <<r, recv>>
    BY <1>7 DEF HandlerSend
  <2>2. e \in Item
    <3>1. PICK q \in 1 .. MaxReq, n \in 1 .. Capacity :
            pser.buf = Request(q, n)
      BY <2>1 DEF Bounded, IsRequest
    <3>2. pser.buf[1] = [req |-> q, i |-> 1, n |-> n]
      BY <3>1, RequestSeq, PserialAssumption
    <3>3. pser.buf[1].req \in 0 .. MaxReq
      BY <3>2, PserialAssumption
    <3> QED
      BY <3>3 DEF Item
  <2> HIDE DEF e
  <2>3. pser'.pc = pser.pc
    BY <2>1 DEF Bounded, TypeOK
  <2> QED
    BY <2>1, <2>2, <2>3, TurnsKept
<1> QED
  BY <1>2, <1>3, <1>4, <1>5, <1>6, <1>7 DEF PserStep, PserOwn, PserWait

(* Every step keeps the hand-shake, while no fragment is stored inside     *)
(* serial_read_data.                                                       *)
LEMMA NextTurns == Bounded /\ Turns /\ [Next]_vars => Turns'
<1> SUFFICES ASSUME Bounded, Turns, [Next]_vars, "early_valid" \notin harm'
             PROVE  TakingTurns'
  BY DEF Turns
<1>1. harm \subseteq harm'
  BY DEF Next, HostStep, HostSend, HostCut, RecvStep, RecvRead, RecvStore,
     RecvCommit, RecvSend, RecvNoMem, SendEvent, PserStep, PserOwn,
     PserWait, TakeEvent,
     TakeRequest, ClearLength, RejectRequest, Dispatch, HandlerSend,
     HandlerReturns, HandlerFails, XmitDone
<1>2. TakingTurns
  BY <1>1 DEF Turns
<1>3. CASE HostStep
  BY <1>2, <1>3, TurnsKept DEF HostStep, HostSend, HostCut
<1>4. CASE SendEvent
  <2> DEFINE e == [kind |-> "evt", of |-> 0, buf |-> <<>>]
  <2>1. e \in Item /\ e.kind = "evt"
    BY PserialAssumption DEF Item
  <2>2. req_queue' = Append(req_queue, e) /\ UNCHANGED <<r, recv, pser>>
    BY <1>4 DEF SendEvent
  <2> HIDE DEF e
  <2> QED
    BY <1>2, <2>1, <2>2, TurnsKept
<1>5. CASE UNCHANGED vars
  BY <1>2, <1>5, TurnsKept
<1> QED
  BY <1>2, <1>3, <1>4, <1>5, RecvTurns, PserTurns DEF Next

(* It holds at the start, ...                                              *)
LEMMA InitTurns == Init => Turns
  BY DEF Init, Turns, TakingTurns, RecvIdle, PserIdle

(* ... so always.                                                          *)
LEMMA TurnsAlways == Spec => [](Bounded /\ Turns)
<1> QED
  BY InitBounded, InitTurns, NextBounded, NextTurns, PTL DEF Spec

(* What waits in req_queue is what the shared reassembly buffer holds: no  *)
(* fragment is stored between handing a request over and reading it,       *)
(* unless recv_task wakes inside serial_read_data.                         *)
THEOREM QueuedRequestsKept == Spec => []QueuedRequestKept
<1>1. Bounded /\ Turns => QueuedRequestKept
  <2> SUFFICES ASSUME Bounded, TakingTurns, NEW k \in 1 .. Len(req_queue),
                      req_queue[k].kind = "req"
      PROVE /\ r = [valid |-> TRUE, buf |-> req_queue[k].buf]
            /\ recv.pc \notin {"commit", "send"}
            /\ \A j \in 1 .. Len(req_queue) : req_queue[j].kind = "req" => j = k
    BY DEF QueuedRequestKept, Turns
  <2> QED
    BY DEF TakingTurns, Bounded, TypeOK
<1> QED
  BY <1>1, TurnsAlways, PTL

-----------------------------------------------------------------------------
(* The stream of fragments recv_task has not stored yet, and the order of  *)
(* the requests they belong to.                                            *)
Stream   == recv.frag \o bus
Frags(q) == {q[j] : j \in 1 .. Len(q)}

(* The fragments of two sequences joined.                                  *)
LEMMA FragsJoin ==
  ASSUME NEW S, NEW p \in Seq(S), NEW q \in Seq(S)
  PROVE  Frags(p \o q) = Frags(p) \union Frags(q)
<1>1. /\ Len(p \o q) = Len(p) + Len(q) /\ Len(p) \in Nat /\ Len(q) \in Nat
      /\ \A k \in 1 .. Len(p) : (p \o q)[k] = p[k]
      /\ \A k \in 1 .. Len(q) : (p \o q)[Len(p) + k] = q[k]
  BY JoinFacts
<1>2. \A k \in 1 .. Len(p \o q) :
        k \in 1 .. Len(p) \/ (k - Len(p) \in 1 .. Len(q)
                              /\ (p \o q)[k] = q[k - Len(p)])
  <2> SUFFICES ASSUME NEW k \in 1 .. Len(p \o q), k \notin 1 .. Len(p)
               PROVE  k - Len(p) \in 1 .. Len(q)
                      /\ (p \o q)[k] = q[k - Len(p)]
    OBVIOUS
  <2>1. k - Len(p) \in 1 .. Len(q) /\ k = Len(p) + (k - Len(p))
    BY <1>1
  <2> QED
    BY <1>1, <2>1
<1>3. /\ \A k \in 1 .. Len(p) : k \in 1 .. Len(p \o q)
      /\ \A k \in 1 .. Len(q) : Len(p) + k \in 1 .. Len(p \o q)
  BY <1>1
<1>4. Frags(p \o q) \subseteq Frags(p) \union Frags(q)
  BY <1>1, <1>2 DEF Frags
<1>5. Frags(p) \subseteq Frags(p \o q)
  BY <1>1, <1>3 DEF Frags
<1>6. Frags(q) \subseteq Frags(p \o q)
  BY <1>1, <1>3 DEF Frags
<1> QED
  BY <1>4, <1>5, <1>6

(* The fragments of a sequence of fragments.                               *)
LEMMA FragsType ==
  ASSUME NEW q \in Seq(Fragment)
  PROVE  \A f \in Frags(q) : f \in Fragment /\ f.req \in 1 .. MaxReq
                             /\ f.req \in Nat
<1> SUFFICES ASSUME NEW f \in Frags(q)
             PROVE  f \in Fragment /\ f.req \in 1 .. MaxReq /\ f.req \in Nat
  OBVIOUS
<1>1. f \in Fragment
  BY DEF Frags
<1> QED
  BY <1>1, PserialAssumption DEF Fragment

(* The fragments left behind the head.                                     *)
LEMMA FragsTail ==
  ASSUME NEW S, NEW q \in Seq(S), q # <<>>
  PROVE  /\ Frags(Tail(q)) \subseteq Frags(q) /\ Head(q) \in Frags(q)
         /\ Head(q) = q[1] /\ 1 \in 1 .. Len(q)
<1>1. 1 \in 1 .. Len(q)
  BY TailFacts
<1> QED
  BY <1>1, TailFacts DEF Frags

(* The stream is a sequence of fragments.                                  *)
LEMMA StreamSeq ==
  ASSUME Bounded
  PROVE  Stream \in Seq(Fragment) /\ Frags(Stream) \subseteq Fragment
<1>1. Stream \in Seq(Fragment)
  BY JoinFacts DEF Bounded, TypeOK, Stream
<1> QED
  BY <1>1 DEF Frags

(* What recv_task has in hand is the head of the stream.                   *)
LEMMA StreamHead ==
  ASSUME Bounded, recv.pc \in {"store", "commit"}
  PROVE  /\ Stream # <<>> /\ Tail(Stream) = bus
         /\ Head(recv.frag) = Stream[1] /\ recv.frag[1] = Stream[1]
         /\ recv.frag = <<Stream[1]>>
<1>1. /\ recv.frag \in Seq(Fragment) /\ Len(recv.frag) = 1
      /\ bus \in Seq(Fragment)
  BY DEF Bounded, TypeOK
<1>2. PICK f \in Fragment : recv.frag = <<f>>
  <2>1. recv.frag[1] \in Fragment
    BY <1>1
  <2>2. recv.frag = <<recv.frag[1]>>
    BY <1>1, <2>1
  <2> QED
    BY <2>1, <2>2
<1> QED
  BY <1>1, <1>2 DEF Stream

(* How a step of either task changes the stream.                           *)
LEMMA StreamKept ==
  ASSUME Bounded, [Next]_vars, ~HostStep, ~RecvCommit
  PROVE  Stream' = Stream
<1>0. bus \in Seq(Fragment)
  BY SMTT(60) DEF Bounded, TypeOK
<1>1. CASE RecvRead
  <2>1. /\ recv'.frag = <<Head(bus)>> /\ bus' = Tail(bus) /\ bus # <<>>
        /\ recv.frag = <<>>
    BY <1>1 DEF RecvRead, Bounded, TypeOK
  <2>2. <<Head(bus)>> \o Tail(bus) = bus /\ <<>> \o bus = bus
    BY <1>0, <2>1
  <2> QED
    BY <2>1, <2>2 DEF Stream
<1>2. CASE RecvStore
  BY <1>2 DEF RecvStore, Bounded, TypeOK, Stream
<1>3. CASE RecvSend \/ RecvNoMem
  <2>1. /\ recv'.frag = <<>> /\ bus' = bus /\ recv.frag = <<>>
    BY <1>3 DEF RecvSend, RecvNoMem, RecvIdle, Bounded
  <2> QED
    BY <2>1 DEF Stream
<1>4. CASE SendEvent \/ PserStep \/ UNCHANGED vars
  BY <1>4 DEF SendEvent, PserStep, PserOwn,
     PserWait, TakeEvent, TakeRequest, ClearLength,
     RejectRequest, Dispatch, HandlerSend, HandlerReturns, HandlerFails, XmitDone, Stream
<1> QED
  BY <1>1, <1>2, <1>3, <1>4 DEF Next, RecvStep

(* Counting a fragment takes it off the stream.                            *)
LEMMA StreamCommit ==
  ASSUME Bounded, Bounded', RecvCommit
  PROVE  /\ Stream # <<>> /\ Stream' = Tail(Stream)
         /\ recv.frag[1] = Stream[1] /\ r'.buf = recv.buf
         /\ r'.valid <=> Stream[1].i = Stream[1].n
         /\ recv'.pc # "commit"
<1> DEFINE f == Head(recv.frag)
<1>1. /\ r' = [valid |-> f.i = f.n, buf |-> recv.buf]
      /\ recv' = IF f.i = f.n THEN [RecvIdle EXCEPT !.pc = "send"]
                 ELSE RecvIdle
      /\ recv.pc = "commit" /\ bus' = bus
  BY DEF RecvCommit
<1>2. r'.buf = recv.buf /\ (r'.valid <=> f.i = f.n)
  BY <1>1
<1>3. /\ Stream # <<>> /\ Tail(Stream) = bus /\ f = Stream[1]
      /\ recv.frag[1] = Stream[1]
  BY <1>1, StreamHead
<1>4. recv'.pc # "commit" /\ recv'.pc # "store"
  <2>1. [RecvIdle EXCEPT !.pc = "send"].pc = "send" /\ RecvIdle.pc = "idle"
    BY DEF RecvIdle
  <2> QED
    BY <1>1, <2>1
<1>5. recv'.frag = <<>> /\ bus' \in Seq(Fragment)
  BY <1>4 DEF Bounded, TypeOK
<1>6. Stream' = bus'
  BY <1>5 DEF Stream
<1> QED
  BY <1>1, <1>2, <1>3, <1>4, <1>6

(* The host writes a request, or the beginning of one.                     *)
LEMMA StreamGrows ==
  ASSUME Bounded, HostStep
  PROVE  \E ext \in Seq(Fragment) :
           /\ Stream' = Stream \o ext
           /\ sent' = sent + 1
           /\ \A j \in 1 .. Len(ext) : ext[j].req = sent + 1
           /\ \A j, k \in 1 .. Len(ext) : j < k => ext[j].i # ext[j].n
<1>0. /\ recv.frag \in Seq(Fragment) /\ bus \in Seq(Fragment)
  BY DEF Bounded, TypeOK
<1>1. ASSUME NEW n \in 1 .. Capacity, NEW k \in 1 .. n,
             NEW ext \in Seq(Fragment), Len(ext) = k,
             \A i \in 1 .. k : ext[i] = [req |-> sent + 1, i |-> i, n |-> n],
             bus' = bus \o ext, recv' = recv, sent' = sent + 1
      PROVE  /\ Stream' = Stream \o ext
             /\ \A j \in 1 .. Len(ext) : ext[j].req = sent + 1
             /\ \A j, l \in 1 .. Len(ext) : j < l => ext[j].i # ext[j].n
  <2>1. (recv.frag \o bus) \o ext = recv.frag \o (bus \o ext)
    <3>1. ext \in Seq(Fragment)
      OBVIOUS
    <3>2. \A s, t, u \in Seq(Fragment) : (s \o t) \o u = s \o (t \o u)
      BY ConcatAssociative, SMTT(30)
    <3> QED
      BY <1>0, <3>1, <3>2, Zenon
  <2>2. Stream' = Stream \o ext
    BY <1>1, <2>1 DEF Stream
  <2>3. \A j \in 1 .. Len(ext) : /\ ext[j].req = sent + 1 /\ ext[j].i = j
                                 /\ ext[j].n = n
    BY <1>1
  <2> QED
    BY <1>1, <2>2, <2>3, PserialAssumption
<1>2. ASSUME NEW n \in 1 .. Capacity, HostSend(n)
      PROVE  \E ext \in Seq(Fragment) :
               /\ Stream' = Stream \o ext
               /\ sent' = sent + 1
               /\ \A j \in 1 .. Len(ext) : ext[j].req = sent + 1
               /\ \A j, k \in 1 .. Len(ext) : j < k => ext[j].i # ext[j].n
  <2>1. /\ sent' = sent + 1 /\ sent < MaxReq
        /\ bus' = bus \o Request(sent', n) /\ recv' = recv
    BY <1>2 DEF HostSend
  <2>2. sent' \in 1 .. MaxReq /\ n \in 1 .. n
    BY <2>1, PserialAssumption, SMTT(30) DEF Bounded, TypeOK
  <2> DEFINE ext == Request(sent', n)
  <2>3. /\ ext \in Seq(Fragment) /\ Len(ext) = n
        /\ \A i \in 1 .. n : ext[i] = [req |-> sent + 1, i |-> i, n |-> n]
    BY <2>1, <2>2, RequestSeq
  <2> HIDE DEF ext
  <2>4. bus' = bus \o ext
    BY <2>1 DEF ext
  <2> QED
    BY <1>1, <2>1, <2>2, <2>3, <2>4
<1>3. ASSUME NEW n \in 1 .. Capacity, NEW k \in 1 .. n - 1, HostCut(n, k)
      PROVE  \E ext \in Seq(Fragment) :
               /\ Stream' = Stream \o ext
               /\ sent' = sent + 1
               /\ \A j \in 1 .. Len(ext) : ext[j].req = sent + 1
               /\ \A j, l \in 1 .. Len(ext) : j < l => ext[j].i # ext[j].n
  <2>1. /\ sent' = sent + 1 /\ sent < MaxReq
        /\ bus' = bus \o SubSeq(Request(sent', n), 1, k) /\ recv' = recv
    BY <1>3 DEF HostCut
  <2>2. sent' \in 1 .. MaxReq /\ k \in 1 .. n
    BY <2>1, PserialAssumption, SMTT(30) DEF Bounded, TypeOK
  <2> DEFINE ext == SubSeq(Request(sent', n), 1, k)
  <2>3. /\ ext \in Seq(Fragment) /\ Len(ext) = k
        /\ \A i \in 1 .. k : ext[i] = [req |-> sent + 1, i |-> i, n |-> n]
    BY <2>1, <2>2, CutSeq
  <2> HIDE DEF ext
  <2>4. bus' = bus \o ext
    BY <2>1 DEF ext
  <2> QED
    BY <1>1, <2>1, <2>2, <2>3, <2>4
<1> QED
  BY <1>2, <1>3 DEF HostStep

(* Requests leave the stream in the order of their numbers, and after the  *)
(* last fragment of one come only later ones.                              *)
Ordered ==
  /\ \A f \in Frags(Stream) : f.req <= sent
  /\ \A j, k \in 1 .. Len(Stream) : j < k =>
       /\ Stream[j].req <= Stream[k].req
       /\ Stream[j].i = Stream[j].n => Stream[j].req < Stream[k].req
  /\ \A g \in Frags(r.buf) :
       /\ g.req <= sent
       /\ \A f \in Frags(Stream) : /\ g.req <= f.req
                                   /\ r.valid => g.req < f.req
  /\ recv.pc = "commit" =>
       \A g \in Frags(recv.buf) : g.req <= recv.frag[1].req

(* A step that leaves the stream alone, and keeps no more in the buffer,   *)
(* keeps the order.                                                        *)
LEMMA OrderedKept ==
  ASSUME Ordered, Stream' = Stream, sent' = sent,
         Frags(r.buf)' \subseteq Frags(r.buf), r'.valid => r.valid,
         recv'.pc = "commit" =>
           \A g \in Frags(recv.buf)' : g.req <= recv'.frag[1].req
  PROVE  Ordered'
  BY DEF Ordered, Frags

(* The host sends requests in the order of their numbers.                  *)
LEMMA HostOrdered ==
  ASSUME Bounded, Ordered, HostStep
  PROVE  Ordered'
<1>1. PICK ext \in Seq(Fragment) :
        /\ Stream' = Stream \o ext
        /\ sent' = sent + 1
        /\ \A j \in 1 .. Len(ext) : ext[j].req = sent + 1
        /\ \A j, k \in 1 .. Len(ext) : j < k => ext[j].i # ext[j].n
  BY StreamGrows
<1>2. Stream \in Seq(Fragment) /\ sent \in Nat
  BY StreamSeq DEF Bounded, TypeOK
<1>3. UNCHANGED <<r, recv>>
  BY DEF HostStep, HostSend, HostCut
<1>4. /\ Len(Stream') = Len(Stream) + Len(ext)
      /\ Len(Stream) \in Nat /\ Len(ext) \in Nat
      /\ \A k \in 1 .. Len(Stream) : Stream'[k] = Stream[k]
      /\ \A k \in 1 .. Len(ext) : Stream'[Len(Stream) + k] = ext[k]
  BY <1>1, <1>2, JoinFacts
<1>12. Frags(Stream') = Frags(Stream) \union Frags(ext)
  BY <1>1, <1>2, FragsJoin
<1>5. \A f \in Frags(ext) : f.req = sent + 1
  BY <1>1 DEF Frags
<1>6. \A f \in Frags(Stream) : f.req \in Nat /\ f.req <= sent
  BY <1>2, FragsType DEF Ordered
<1>7. \A g \in Frags(r.buf) : g.req \in Nat /\ g.req <= sent
  <2>1. r.buf \in Seq(Fragment)
    BY DEF Bounded, TypeOK
  <2> QED
    BY <2>1, FragsType DEF Ordered
<1>8. \A f \in Frags(Stream') : f.req <= sent'
  BY <1>1, <1>2, <1>12, <1>5, <1>6
<1>9. ASSUME NEW j \in 1 .. Len(Stream'), NEW k \in 1 .. Len(Stream'), j < k
      PROVE  /\ Stream'[j].req <= Stream'[k].req
             /\ Stream'[j].i = Stream'[j].n => Stream'[j].req < Stream'[k].req
  <2>1. CASE k \in 1 .. Len(Stream)
    <3>1. j \in 1 .. Len(Stream)
      BY <1>4, <1>9, <2>1
    <3> QED
      BY <1>4, <1>9, <2>1, <3>1 DEF Ordered
  <2>2. CASE k \notin 1 .. Len(Stream)
    <3>1. /\ k - Len(Stream) \in 1 .. Len(ext)
          /\ k = Len(Stream) + (k - Len(Stream))
      BY <1>4, <2>2
    <3>2. Stream'[k] = ext[k - Len(Stream)] /\ Stream'[k].req = sent + 1
      BY <1>1, <1>4, <3>1
    <3>3. CASE j \in 1 .. Len(Stream)
      <4>1. Stream'[j] = Stream[j] /\ Stream[j] \in Frags(Stream)
        BY <1>4, <3>3 DEF Frags
      <4> QED
        BY <1>2, <1>6, <3>2, <4>1
    <3>4. CASE j \notin 1 .. Len(Stream)
      <4>1. /\ j - Len(Stream) \in 1 .. Len(ext)
            /\ j = Len(Stream) + (j - Len(Stream))
            /\ j - Len(Stream) < k - Len(Stream)
        BY <1>4, <1>9, <3>4
      <4>2. Stream'[j] = ext[j - Len(Stream)] /\ Stream'[j].req = sent + 1
        BY <1>1, <1>4, <4>1
      <4> QED
        <5>1. ext[j - Len(Stream)].i # ext[j - Len(Stream)].n
          BY <1>1, <3>1, <4>1
        <5> QED
          BY <1>2, <3>2, <4>2, <5>1
    <3> QED
      BY <3>3, <3>4
  <2> QED
    BY <2>1, <2>2
<1>10. \A g \in Frags(r.buf) : 
         /\ g.req <= sent'
         /\ \A f \in Frags(Stream') : /\ g.req <= f.req
                                      /\ r.valid => g.req < f.req
  <2> SUFFICES ASSUME NEW g \in Frags(r.buf)
               PROVE  /\ g.req <= sent'
                      /\ \A f \in Frags(Stream') : /\ g.req <= f.req
                                                   /\ r.valid => g.req < f.req
    OBVIOUS
  <2>1. g.req <= sent' 
    BY <1>1, <1>2, <1>7
  <2>2. ASSUME NEW f \in Frags(Stream')
        PROVE  g.req <= f.req /\ (r.valid => g.req < f.req)
    <3>1. CASE f \in Frags(Stream)
      BY <3>1 DEF Ordered
    <3>2. CASE f \in Frags(ext)
      BY <1>2, <1>5, <1>7, <3>2
    <3> QED
      BY <1>12, <3>1, <3>2
  <2> QED
    BY <2>1, <2>2
<1>11. recv'.pc = "commit" =>
         \A g \in Frags(recv.buf)' : g.req <= recv'.frag[1].req
  BY <1>3 DEF Ordered, Frags
<1> QED
  BY <1>3, <1>8, <1>9, <1>10, <1>11 DEF Ordered, Frags

(* What is copied behind r.len is the fragment in hand.                    *)
LEMMA ExtendedFrags ==
  ASSUME Bounded, recv.pc = "store"
  PROVE  Frags(Extended) \subseteq Frags(r.buf) \union {Stream[1]}
<1>1. r.buf \in Seq(Fragment) /\ recv.frag \in Seq(Fragment)
      /\ <<>> \in Seq(Fragment)
  BY DEF Bounded, TypeOK
<1>2. recv.frag = <<Stream[1]>>
  BY StreamHead
<1>3. Frags(recv.frag) \subseteq {Stream[1]} /\ Frags(<<>>) = {}
  BY <1>2 DEF Frags
<1>4. CASE recv.room > 0
  <2>1. Extended = r.buf \o recv.frag
    BY <1>4 DEF Extended
  <2> QED
    BY <2>1, <1>1, <1>3, FragsJoin
<1>5. CASE ~(recv.room > 0)
  <2>1. Extended = r.buf
    BY <1>5, <1>1, ConcatEmptySeq DEF Extended
  <2> QED
    BY <2>1
<1> QED
  BY <1>4, <1>5

(* Every step keeps the order of what is on its way.                       *)
LEMMA NextOrdered ==
  ASSUME Bounded, Bounded', Ordered, [Next]_vars
  PROVE  Ordered'
<1>1. CASE HostStep
  BY <1>1, HostOrdered
<1>2. CASE RecvStore
  <2>1. /\ recv'.buf = Extended /\ recv'.frag = recv.frag /\ recv.pc = "store"
        /\ UNCHANGED <<r, sent, bus>>
    BY <1>2 DEF RecvStore, Bounded, TypeOK
  <2>2. Stream' = Stream
    BY <2>1 DEF Stream
  <2>3. /\ Stream # <<>> /\ recv.frag[1] = Stream[1]
        /\ Stream[1] \in Frags(Stream)
    BY <2>1, StreamHead, StreamSeq, FragsTail
  <2>4. \A g \in Frags(Extended) : g.req <= recv.frag[1].req
    <3>1. recv.frag[1].req \in Nat
      BY <2>3, StreamSeq, PserialAssumption DEF Fragment
    <3> QED
      BY <2>1, <2>3, <3>1, ExtendedFrags DEF Ordered
  <2> QED
    BY <2>1, <2>2, <2>4, OrderedKept DEF Frags
<1>3. CASE RecvCommit
  <2>1. /\ Stream # <<>> /\ Stream' = Tail(Stream)
        /\ recv.frag[1] = Stream[1] /\ r'.buf = recv.buf
        /\ r'.valid <=> Stream[1].i = Stream[1].n
        /\ recv'.pc # "commit"
    BY <1>3, StreamCommit
  <2>2. recv.pc = "commit" /\ sent' = sent
    BY <1>3 DEF RecvCommit
  <2>3. Stream \in Seq(Fragment) /\ Frags(Stream) \subseteq Fragment
    BY StreamSeq
  <2>4. /\ \A k \in 1 .. Len(Stream') : /\ k + 1 \in 1 .. Len(Stream)
                                        /\ Stream'[k] = Stream[k + 1]
                                        /\ k \in Nat \ {0}
        /\ Frags(Stream') \subseteq Frags(Stream)
        /\ 1 \in 1 .. Len(Stream) /\ Stream[1] \in Frags(Stream)
    BY <2>1, <2>3, TailFacts, FragsTail
  <2>5. \A j, k \in 1 .. Len(Stream') : j < k =>
          /\ Stream'[j].req <= Stream'[k].req
          /\ Stream'[j].i = Stream'[j].n => Stream'[j].req < Stream'[k].req
    BY <2>4 DEF Ordered
  <2>6. \A f \in Frags(Stream') :
          /\ Stream[1].req <= f.req
          /\ r'.valid => Stream[1].req < f.req
    BY <2>1, <2>4 DEF Ordered, Frags
  <2>7. \A g \in Frags(recv.buf) : g \in Fragment /\ g.req <= Stream[1].req
    <3>1. recv.buf \in Seq(Fragment)
      BY DEF Bounded, TypeOK
    <3> QED
      BY <2>1, <2>2, <3>1, FragsType DEF Ordered
  <2>8. Stream[1].req \in Nat /\ Stream[1].req <= sent /\ sent \in Nat
    <3>1. sent \in Nat
      BY DEF Bounded, TypeOK
    <3> QED
      BY <2>3, <2>4, <3>1, FragsType DEF Ordered
  <2>9. \A g \in Frags(recv.buf) : g.req <= sent
    BY <2>7, <2>8, PserialAssumption DEF Fragment
  <2>10. \A g \in Frags(recv.buf), f \in Frags(Stream') :
           /\ g.req <= f.req
           /\ r'.valid => g.req < f.req
    <3> SUFFICES ASSUME NEW g \in Frags(recv.buf), NEW f \in Frags(Stream')
                 PROVE  g.req <= f.req /\ (r'.valid => g.req < f.req)
      OBVIOUS
    <3>1. g.req \in Nat /\ f.req \in Nat
      BY <2>3, <2>4, <2>7, PserialAssumption, SMTT(30) DEF Fragment
    <3> QED
      BY <3>1, <2>6, <2>7, <2>8
  <2>11. \A f \in Frags(Stream') : f.req <= sent
    BY <2>4 DEF Ordered
  <2>12. Frags(r'.buf) = Frags(recv.buf)
    BY <2>1
  <2> QED
    BY <2>1, <2>2, <2>5, <2>9, <2>10, <2>11, <2>12 DEF Ordered, Frags
<1>4. CASE ~HostStep /\ ~RecvStore /\ ~RecvCommit
  <2>1. Stream' = Stream
    BY <1>4, StreamKept
  <2>2. sent' = sent /\ (recv'.pc = "commit" => recv' = recv)
    <3>1. CASE RecvRead
      BY <3>1 DEF RecvRead, Bounded, TypeOK
    <3>2. CASE RecvSend \/ RecvNoMem
      BY <3>2 DEF RecvSend, RecvNoMem, RecvIdle
    <3>3. CASE SendEvent \/ PserStep \/ UNCHANGED vars
      BY <3>3 DEF SendEvent, PserStep, PserOwn,
     PserWait, TakeEvent, TakeRequest, ClearLength,
         RejectRequest, Dispatch, HandlerSend, HandlerReturns, HandlerFails, XmitDone
    <3> QED
      BY <1>4, <3>1, <3>2, <3>3 DEF Next, RecvStep
  <2>3. CASE ClearLength
    <3>1. r' = [r EXCEPT !.buf = <<>>]
      BY <2>3 DEF ClearLength
    <3>2. PICK e \in Seq(Fragment) : e = <<>>
      BY EmptySeq
    <3>3. r'.buf = <<>> /\ r'.valid = r.valid
      BY <3>1, <3>2 DEF Bounded, TypeOK
    <3>4. Frags(r'.buf) = {}
      BY <3>3 DEF Frags
    <3> QED
      BY <2>1, <2>2, <3>3, <3>4, OrderedKept DEF Ordered, Frags
  <2>4. CASE ~ClearLength
    <3>1. r'.buf = r.buf /\ (r'.valid => r.valid)
      BY <1>4, <2>4 DEF Next, RecvStep, RecvRead, RecvSend, RecvNoMem,
         SendEvent, PserStep, PserOwn,
     PserWait, TakeEvent, TakeRequest, 
         RejectRequest, Dispatch, HandlerSend, HandlerReturns, HandlerFails, XmitDone,
         Bounded, TypeOK
    <3> QED
      BY <2>1, <2>2, <3>1, OrderedKept DEF Ordered, Frags
  <2> QED
    BY <2>3, <2>4
<1> QED
  BY <1>1, <1>2, <1>3, <1>4

-----------------------------------------------------------------------------
(* What pserial_task has handled.                                          *)
Reqs(q) == {f.req : f \in Frags(q)}
OutOf   == {out[j].of : j \in 1 .. Len(out)}
EvtOf   == {h \in 0 .. MaxReq : \E j \in 1 .. Len(req_queue) :
              req_queue[j].kind = "evt" /\ req_queue[j].of = h}
InHand  == IF pser.pc \in {"idle", "xmit"} THEN {} ELSE Reqs(pser.buf)
Handled == OutOf \union EvtOf \union InHand

Below(A, B) == \A a \in A, b \in B : a < b

(* It has handled only what precedes everything recv_task still holds, and *)
(* has sent nothing of the request it handles.                             *)
Handing ==
  /\ Handled \subseteq 0 .. sent
  /\ Below(Handled, Reqs(Stream))
  /\ pser.pc # "clear" => Below(Handled, Reqs(r.buf))
  /\ recv.pc = "commit" => Below(Handled, Reqs(recv.buf))
  /\ Below(OutOf, InHand)

(* Its answers: in the order of the requests, and none after an event of   *)
(* its own handler.                                                        *)
Answering ==
  /\ \A j, k \in 1 .. Len(out) :
       j < k /\ out[j].kind = "resp" /\ out[k].kind = "resp" =>
         out[j].of < out[k].of
  /\ \A j, k \in 1 .. Len(out) :
       out[j].kind = "evt" /\ out[k].kind = "resp" /\ out[j].of = out[k].of =>
         k < j

Handed == "early_valid" \notin harm => Handing /\ Answering

(* Fragments belong to requests, and requests are numbered from 1.         *)
LEMMA ReqsType ==
  ASSUME NEW q \in Seq(Fragment)
  PROVE  /\ Reqs(q) \subseteq 1 .. MaxReq
         /\ \A x \in Reqs(q) : x \in Nat /\ 0 < x
<1>1. \A f \in Frags(q) : f.req \in 1 .. MaxReq
  BY FragsType
<1> QED
  BY <1>1, PserialAssumption DEF Reqs

(* What the sequences of a state hold.                                     *)
LEMMA HeldTypes ==
  ASSUME Bounded
  PROVE  /\ r.buf \in Seq(Fragment) /\ recv.buf \in Seq(Fragment)
         /\ pser.buf \in Seq(Fragment) /\ Stream \in Seq(Fragment)
         /\ out \in Seq(Sent) /\ req_queue \in Seq(Item) /\ sent \in Nat
  BY StreamSeq DEF Bounded, TypeOK

(* The request a handler works on.                                         *)
LEMMA HandlersRequest ==
  ASSUME Bounded, pser.pc = "handler"
  PROVE  pser.buf[1].req \in 1 .. MaxReq /\ pser.buf[1].req \in InHand
<1>1. PICK q \in 1 .. MaxReq, n \in 1 .. Capacity : pser.buf = Request(q, n)
  BY DEF Bounded, IsRequest
<1>2. 1 \in 1 .. n
  BY PserialAssumption
<1>3. pser.buf[1] = [req |-> q, i |-> 1, n |-> n] /\ Len(pser.buf) = n
  BY <1>1, <1>2, RequestSeq
<1>4. pser.buf[1] \in Frags(pser.buf) /\ pser.buf[1].req = q
  BY <1>2, <1>3 DEF Frags
<1>5. pser.buf[1].req \in Reqs(pser.buf)
  BY <1>4 DEF Reqs
<1> QED
  BY <1>4, <1>5 DEF InHand

(* Steps that handle nothing new, and hold no more than before.            *)
LEMMA HandingKept ==
  ASSUME Bounded, Bounded', Handing,
         Handled' \subseteq Handled \union {0}, Below(OutOf, InHand)',
         Reqs(Stream)' \subseteq Reqs(Stream), sent' = sent,
         pser'.pc # "clear" =>
           \/ Reqs(r.buf)' = {}
           \/ pser.pc # "clear" /\ Reqs(r.buf)' \subseteq Reqs(r.buf),
         recv'.pc = "commit" =>
           recv.pc = "commit" /\ Reqs(recv.buf)' \subseteq Reqs(recv.buf)
  PROVE  Handing'
<1>1. /\ \A x \in Reqs(Stream) : x \in Nat /\ 0 < x
      /\ \A x \in Reqs(r.buf) : x \in Nat /\ 0 < x
      /\ \A x \in Reqs(recv.buf) : x \in Nat /\ 0 < x
      /\ sent \in Nat
  BY HeldTypes, ReqsType
<1>2. Handled' \subseteq 0 .. sent'
  BY <1>1 DEF Handing
<1>3. Below(Handled, Reqs(Stream))'
  BY <1>1 DEF Handing, Below
<1>4. pser'.pc # "clear" => Below(Handled, Reqs(r.buf))'
  BY <1>1 DEF Handing, Below
<1>5. recv'.pc = "commit" => Below(Handled, Reqs(recv.buf))'
  BY <1>1 DEF Handing, Below
<1> QED
  BY <1>2, <1>3, <1>4, <1>5 DEF Handing

(* The host sends only later requests.                                     *)
LEMMA HostHanding ==
  ASSUME Bounded, Handing, HostStep
  PROVE  Handing'
<1>1. PICK ext \in Seq(Fragment) :
        /\ Stream' = Stream \o ext
        /\ sent' = sent + 1
        /\ \A j \in 1 .. Len(ext) : ext[j].req = sent + 1
  BY StreamGrows
<1>2. UNCHANGED <<r, recv, req_queue, pser, out>>
  BY DEF HostStep, HostSend, HostCut
<1>3. Stream \in Seq(Fragment) /\ sent \in Nat
  BY HeldTypes
<1>4. \A x \in Reqs(Stream') : x \in Reqs(Stream) \/ x = sent + 1
  <2>1. Frags(Stream') = Frags(Stream) \union Frags(ext)
    BY <1>1, <1>3, FragsJoin
  <2>2. \A f \in Frags(ext) : f.req = sent + 1
    BY <1>1 DEF Frags
  <2> QED
    BY <2>1, <2>2 DEF Reqs
<1>5. Handled' = Handled /\ Below(OutOf, InHand)' /\ Reqs(r.buf)' = Reqs(r.buf)
      /\ Reqs(recv.buf)' = Reqs(recv.buf)
  BY <1>2 DEF Handing, Handled, OutOf, EvtOf, InHand, Below, Reqs, Frags
<1>6. Handled' \subseteq 0 .. sent'
  BY <1>1, <1>3, <1>5 DEF Handing
<1>7. Below(Handled, Reqs(Stream))'
  BY <1>3, <1>4, <1>5 DEF Handing, Below
<1>8. /\ pser'.pc # "clear" => Below(Handled, Reqs(r.buf))'
      /\ recv'.pc = "commit" => Below(Handled, Reqs(recv.buf))'
  BY <1>2, <1>5 DEF Handing, Below
<1> QED
  BY <1>5, <1>6, <1>7, <1>8 DEF Handing

(* recv_task moves fragments on, and marks what it hands over.             *)
LEMMA RecvHanding ==
  ASSUME Bounded, Bounded', Handing, RecvStep, "early_valid" \notin harm'
  PROVE  Handing'
<1>1. UNCHANGED <<sent, out, pser>>
  BY DEF RecvStep, RecvRead, RecvStore, RecvCommit, RecvSend, RecvNoMem
<1>2. EvtOf' = EvtOf
  <2>1. CASE req_queue' = req_queue
    BY <2>1 DEF EvtOf
  <2>2. CASE RecvSend
    <3> DEFINE e == [kind |-> "req", of |-> 0, buf |-> r.buf]
    <3>1. e \in Item /\ e.kind = "req"
      BY PserialAssumption DEF Item, Bounded, TypeOK
    <3>2. req_queue' = Append(req_queue, e) /\ req_queue \in Seq(Item)
      BY <2>2 DEF RecvSend, Bounded, TypeOK
    <3> HIDE DEF e
    <3>3. /\ Len(req_queue) \in Nat /\ Len(req_queue') = Len(req_queue) + 1
          /\ \A k \in 1 .. Len(req_queue) : req_queue'[k] = req_queue[k]
          /\ req_queue'[Len(req_queue) + 1] = e
      BY <3>1, <3>2, AppendFacts
    <3>4. \A k : k \in 1 .. Len(req_queue') <=>
                 k \in 1 .. Len(req_queue) \/ k = Len(req_queue) + 1
      BY <3>3
    <3> QED
      BY <3>1, <3>3, <3>4 DEF EvtOf
  <2> QED
    BY <2>1, <2>2 DEF RecvStep, RecvRead, RecvStore, RecvCommit, RecvNoMem
<1>3. OutOf' = OutOf /\ InHand' = InHand /\ Handled' = Handled
      /\ Below(OutOf, InHand)'
  <2>1. OutOf' = OutOf
    BY <1>1 DEF OutOf
  <2>2. InHand' = InHand
    BY <1>1 DEF InHand, Reqs, Frags
  <2>3. Handled' = Handled
    BY <2>1, <2>2, <1>2 DEF Handled
  <2>4. Below(OutOf, InHand)
    BY DEF Handing
  <2> QED
    BY <2>1, <2>2, <2>3, <2>4 DEF Below
<1>4. CASE RecvRead \/ RecvSend \/ RecvNoMem
  <2>1. Stream' = Stream
    <3>1. HostStep => sent' = sent + 1
      BY DEF HostStep, HostSend, HostCut
    <3>2. sent' # sent + 1
      BY <1>1, HeldTypes
    <3>3. ~RecvCommit
      BY <1>4 DEF RecvCommit, RecvRead, RecvSend, RecvNoMem
    <3> QED
      BY <3>1, <3>2, <3>3, StreamKept DEF Next
  <2>2. r' = r /\ recv'.pc # "commit"
    <3>1. CASE RecvRead
      BY <3>1 DEF RecvRead, Bounded, TypeOK
    <3>2. CASE RecvSend \/ RecvNoMem
      BY <3>2 DEF RecvSend, RecvNoMem, RecvIdle
    <3> QED
      BY <1>4, <3>1, <3>2
  <2> QED
    BY <1>1, <1>3, <2>1, <2>2, HandingKept DEF Reqs, Frags
<1>5. CASE RecvStore
  <2>1. /\ recv'.buf = Extended /\ recv'.frag = recv.frag /\ recv.pc = "store"
        /\ UNCHANGED <<r, bus>> /\ pser.pc # "clear"
    BY <1>5 DEF RecvStore, Bounded, TypeOK
  <2>2. Stream' = Stream /\ Stream[1] \in Frags(Stream)
    BY <2>1, StreamHead, StreamSeq, FragsTail DEF Stream
  <2>3. Frags(Extended) \subseteq Frags(r.buf) \union {Stream[1]}
    BY <2>1, ExtendedFrags
  <2>4. Reqs(recv'.buf) \subseteq Reqs(r.buf) \union Reqs(Stream)
    BY <2>1, <2>2, <2>3 DEF Reqs
  <2>5. Below(Handled, Reqs(recv.buf))'
    BY <1>1, <1>3, <2>1, <2>4 DEF Handing, Below
  <2> QED
    BY <1>1, <1>3, <2>1, <2>2, <2>5 DEF Handing
<1>6. CASE RecvCommit
  <2>1. /\ Stream # <<>> /\ Stream' = Tail(Stream) /\ r'.buf = recv.buf
        /\ recv'.pc # "commit" /\ recv.pc = "commit"
    BY <1>6, StreamCommit DEF RecvCommit
  <2>2. Reqs(Stream') \subseteq Reqs(Stream)
    BY <2>1, StreamSeq, FragsTail DEF Reqs
  <2>3. Below(Handled, Reqs(Stream))'
    BY <1>3, <2>2 DEF Handing, Below
  <2>4. Below(Handled, Reqs(r.buf))'
    BY <1>3, <2>1 DEF Handing, Below
  <2> QED
    BY <1>1, <1>3, <2>1, <2>3, <2>4 DEF Handing
<1> QED
  BY <1>4, <1>5, <1>6 DEF RecvStep

(* pserial_task takes, in order, what recv_task holds, and answers in      *)
(* order.                                                                  *)
LEMMA PserHanding ==
  ASSUME Bounded, Bounded', TakingTurns, Ordered, Handing, PserStep
  PROVE  Handing'
<1>1. UNCHANGED <<sent, bus, recv>> /\ Stream' = Stream
  BY DEF PserStep, PserOwn, PserWait, TakeEvent, TakeRequest, ClearLength, RejectRequest,
     Dispatch, HandlerSend, HandlerReturns, HandlerFails, XmitDone, Stream
<1>2. recv'.pc = "commit" =>
        recv.pc = "commit" /\ Reqs(recv.buf)' \subseteq Reqs(recv.buf)
  BY <1>1 DEF Reqs, Frags
<1>3. Reqs(Stream)' \subseteq Reqs(Stream)
  BY <1>1 DEF Reqs, Frags
<1>4. /\ out \in Seq(Sent) /\ req_queue \in Seq(Item)
      /\ pser.buf \in Seq(Fragment)
  BY HeldTypes
<1>5. req_queue # <<>> =>
        /\ Head(req_queue) = req_queue[1] /\ 1 \in 1 .. Len(req_queue)
        /\ \A k \in 1 .. Len(Tail(req_queue)) :
             /\ k + 1 \in 1 .. Len(req_queue)
             /\ Tail(req_queue)[k] = req_queue[k + 1]
  BY <1>4, TailFacts
<1>6. req_queue # <<>> /\ req_queue' = Tail(req_queue) =>
        EvtOf' \subseteq EvtOf
  BY <1>5 DEF EvtOf
<1>7. UNCHANGED <<out, req_queue>> /\ pser'.pc \in {"idle", "xmit"} =>
        Handled' \subseteq Handled /\ Below(OutOf, InHand)'
  BY DEF Handled, OutOf, EvtOf, InHand, Below
<1>8. CASE TakeEvent
  <2> DEFINE e == [kind |-> "evt", of |-> Head(req_queue).of]
  <2>1. /\ out' = Append(out, e) /\ req_queue' = Tail(req_queue)
        /\ req_queue # <<>> /\ Head(req_queue).kind = "evt"
        /\ UNCHANGED r /\ pser.pc = "idle" /\ pser'.pc = "xmit"
    BY <1>8 DEF TakeEvent, Xmit
  <2>2. e \in Sent /\ e.of \in EvtOf
    <3>1. Head(req_queue).of \in 0 .. MaxReq
      <4>1. Head(req_queue) \in Item
        BY <2>1, <1>4, TailFacts
      <4> QED
        BY <4>1 DEF Item
    <3> QED
      BY <2>1, <3>1, <1>5 DEF Sent, EvtOf
  <2> HIDE DEF e
  <2>3. /\ Len(out) \in Nat /\ Len(out') = Len(out) + 1
        /\ \A k \in 1 .. Len(out) : out'[k] = out[k]
        /\ out'[Len(out) + 1] = e
    BY <1>4, <2>1, <2>2, AppendFacts
  <2>4. OutOf' \subseteq OutOf \union {e.of}
    BY <2>3 DEF OutOf
  <2>5. Handled' \subseteq Handled /\ Below(OutOf, InHand)'
    BY <1>6, <2>1, <2>2, <2>4 DEF Handled, InHand, Below
  <2> QED
    BY <1>1, <1>2, <1>3, <2>1, <2>5, HandingKept
<1>9. CASE TakeRequest
  <2>1. /\ req_queue # <<>> /\ req_queue' = Tail(req_queue)
        /\ Head(req_queue).kind = "req" /\ pser.pc = "idle" /\ out' = out
        /\ pser' = [pc |-> IF r.valid THEN "clear" ELSE "parse", left |-> 0,
                    buf |-> ReadData(Head(req_queue).buf)]
    BY <1>9 DEF TakeRequest
  <2>2. /\ r.valid /\ r.buf = Head(req_queue).buf
        /\ recv.pc # "commit"
    BY <1>5, <2>1 DEF TakingTurns
  <2>3. ReadData(Head(req_queue).buf) = r.buf
    BY <2>2, HeldTypes, ReadSeq DEF Bounded
  <2>4. pser'.buf = r.buf /\ pser'.pc = "clear"
    BY <2>1, <2>2, <2>3
  <2>5. InHand' = Reqs(r.buf) /\ InHand = {}
    BY <2>1, <2>4 DEF InHand
  <2>6. OutOf' = OutOf /\ Handled' \subseteq Handled \union Reqs(r.buf)
    BY <1>6, <2>1, <2>5 DEF Handled, OutOf
  <2>7. Below(OutOf, InHand)'
    BY <2>1, <2>5, <2>6 DEF Handing, Handled, Below
  <2>8. Reqs(r.buf) \subseteq 0 .. sent /\ Below(Reqs(r.buf), Reqs(Stream))
    <3>1. \A x \in Reqs(r.buf) : x \in Nat
      BY HeldTypes, ReqsType
    <3>2. sent \in Nat
      BY HeldTypes
    <3>3. \A x \in Reqs(r.buf) : x <= sent
      BY DEF Ordered, Reqs
    <3> QED
      BY <2>2, <3>1, <3>2, <3>3 DEF Ordered, Reqs, Below
  <2>9. Handled' \subseteq 0 .. sent' /\ Below(Handled, Reqs(Stream))'
    BY <1>1, <2>6, <2>8 DEF Handing, Below
  <2> QED
    BY <1>1, <2>2, <2>4, <2>7, <2>9 DEF Handing
<1>10. CASE ClearLength
  <2>1. /\ UNCHANGED <<req_queue, out>> /\ r' = [r EXCEPT !.buf = <<>>]
        /\ pser' = [pser EXCEPT !.pc = "parse"] /\ pser.pc = "clear"
    BY <1>10 DEF ClearLength
  <2>2. pser'.buf = pser.buf /\ pser'.pc = "parse"
    BY <2>1 DEF Bounded, TypeOK
  <2>3. Handled' = Handled /\ Below(OutOf, InHand)'
    BY <2>1, <2>2 DEF Handing, Handled, OutOf, EvtOf, InHand, Below, Reqs, Frags
  <2>4. Reqs(r.buf)' = {}
    <3>1. PICK e \in Seq(Fragment) : e = <<>>
      BY EmptySeq
    <3>2. r'.buf = <<>>
      BY <2>1, <3>1 DEF Bounded, TypeOK
    <3> QED
      BY <3>2 DEF Reqs, Frags
  <2> QED
    BY <1>1, <1>2, <1>3, <2>3, <2>4, HandingKept
<1>11. CASE RejectRequest \/ HandlerFails \/ XmitDone
  <2>1. UNCHANGED <<out, req_queue, r>> /\ pser'.pc = "idle" /\ pser.pc # "clear"
    BY <1>11 DEF RejectRequest, HandlerFails, XmitDone, PserIdle
  <2> QED
    BY <1>1, <1>2, <1>3, <1>7, <2>1, HandingKept
<1>12. ASSUME NEW k \in 0 .. MaxEmit, Dispatch(k) PROVE Handing'
  <2>1. /\ UNCHANGED <<out, req_queue, r>> /\ pser.pc = "parse"
        /\ pser'.pc = "handler" /\ pser'.buf = pser.buf
    BY <1>12 DEF Dispatch, Bounded, TypeOK
  <2>2. Handled' = Handled /\ Below(OutOf, InHand)'
    BY <2>1 DEF Handing, Handled, OutOf, EvtOf, InHand, Below, Reqs, Frags
  <2> QED
    BY <1>1, <1>2, <1>3, <2>1, <2>2, HandingKept
<1>13. CASE HandlerSend
  <2> DEFINE e == [kind |-> "evt", of |-> pser.buf[1].req, buf |-> <<>>]
  <2>1. /\ req_queue' = Append(req_queue, e) /\ e.of = pser.buf[1].req
        /\ pser.pc = "handler" /\ pser' = [pser EXCEPT !.left = @ - 1]
        /\ UNCHANGED <<r, out>>
    BY <1>13 DEF HandlerSend
  <2>2. e \in Item /\ e.of \in InHand
    BY <2>1, HandlersRequest DEF Item
  <2> HIDE DEF e
  <2>3. /\ Len(req_queue) \in Nat /\ Len(req_queue') = Len(req_queue) + 1
        /\ \A k \in 1 .. Len(req_queue) : req_queue'[k] = req_queue[k]
        /\ req_queue'[Len(req_queue) + 1] = e
    BY <1>4, <2>1, <2>2, AppendFacts
  <2>4. EvtOf' \subseteq EvtOf \union {e.of}
    BY <2>3 DEF EvtOf
  <2>5. pser'.pc = pser.pc /\ pser'.buf = pser.buf
    BY <2>1 DEF Bounded, TypeOK
  <2>6. OutOf' = OutOf /\ InHand' = InHand
    BY <2>1, <2>5 DEF OutOf, InHand, Reqs, Frags
  <2>7. Handled' \subseteq Handled /\ Below(OutOf, InHand)'
    BY <2>2, <2>4, <2>6 DEF Handing, Handled, Below
  <2> QED
    BY <1>1, <1>2, <1>3, <2>1, <2>7, HandingKept
<1>14. CASE HandlerReturns
  <2> DEFINE e == [kind |-> "resp", of |-> pser.buf[1].req]
  <2>1. /\ out' = Append(out, e) /\ e.of = pser.buf[1].req
        /\ pser.pc = "handler" /\ pser' = Xmit
        /\ UNCHANGED <<r, req_queue>>
    BY <1>14 DEF HandlerReturns
  <2>2. e \in Sent /\ e.of \in InHand
    BY <2>1, HandlersRequest DEF Sent
  <2> HIDE DEF e
  <2>3. /\ Len(out) \in Nat /\ Len(out') = Len(out) + 1
        /\ \A k \in 1 .. Len(out) : out'[k] = out[k]
        /\ out'[Len(out) + 1] = e
    BY <1>4, <2>1, <2>2, AppendFacts
  <2>4. OutOf' \subseteq OutOf \union {e.of}
    BY <2>3 DEF OutOf
  <2>5. EvtOf' = EvtOf /\ InHand' = {}
    BY <2>1 DEF EvtOf, InHand, Xmit
  <2>6. Handled' \subseteq Handled /\ Below(OutOf, InHand)'
    BY <2>2, <2>4, <2>5 DEF Handled, Below
  <2> QED
    BY <1>1, <1>2, <1>3, <2>1, <2>6, HandingKept
<1> QED
  BY <1>8, <1>9, <1>10, <1>11, <1>12, <1>13, <1>14 DEF PserStep, PserOwn, PserWait

(* Other tasks' events are of no request.                                  *)
LEMMA EventHanding ==
  ASSUME Bounded, Bounded', Handing, SendEvent
  PROVE  Handing'
<1> DEFINE e == [kind |-> "evt", of |-> 0, buf |-> <<>>]
<1>1. /\ req_queue' = Append(req_queue, e) /\ e.of = 0
      /\ UNCHANGED <<bus, sent, r, recv, pser, out>>
  BY DEF SendEvent
<1>2. e \in Item
  BY PserialAssumption DEF Item
<1> HIDE DEF e
<1>3. /\ Len(req_queue) \in Nat /\ Len(req_queue') = Len(req_queue) + 1
      /\ \A k \in 1 .. Len(req_queue) : req_queue'[k] = req_queue[k]
      /\ req_queue'[Len(req_queue) + 1] = e
  BY <1>1, <1>2, HeldTypes, AppendFacts
<1>4. EvtOf' \subseteq EvtOf \union {0}
  BY <1>1, <1>3 DEF EvtOf
<1>5. OutOf' = OutOf /\ InHand' = InHand /\ Stream' = Stream
      /\ Reqs(r.buf)' = Reqs(r.buf) /\ Reqs(recv.buf)' = Reqs(recv.buf)
      /\ Reqs(Stream)' = Reqs(Stream)
  BY <1>1 DEF OutOf, InHand, Stream, Reqs, Frags
<1>6. Handled' \subseteq Handled \union {0} /\ Below(OutOf, InHand)'
  BY <1>4, <1>5 DEF Handing, Handled, Below
<1> QED
  BY <1>1, <1>5, <1>6, HandingKept

(* A response follows all earlier ones and precedes its own events.        *)
LEMMA NextAnswering ==
  ASSUME Bounded, Handing, Answering, [Next]_vars
  PROVE  Answering'
<1>0. out \in Seq(Sent)
  BY HeldTypes
<1>1. CASE TakeEvent
  <2> DEFINE e == [kind |-> "evt", of |-> Head(req_queue).of]
  <2>1. /\ out' = Append(out, e) /\ req_queue # <<>> /\ e.kind = "evt"
    BY <1>1 DEF TakeEvent
  <2>2. e \in Sent
    <3>1. Head(req_queue).of \in 0 .. MaxReq
      <4>1. Head(req_queue) \in Item
        BY <2>1, HeldTypes, TailFacts
      <4> QED
        BY <4>1 DEF Item
    <3> QED
      BY <3>1 DEF Sent
  <2> HIDE DEF e
  <2>3. /\ Len(out) \in Nat /\ Len(out') = Len(out) + 1
        /\ \A k \in 1 .. Len(out) : out'[k] = out[k]
        /\ out'[Len(out) + 1] = e
    BY <1>0, <2>1, <2>2, AppendFacts
  <2>4. \A k \in 1 .. Len(out') : k \in 1 .. Len(out) \/ k = Len(out) + 1
    BY <2>3
  <2> QED
    BY <2>1, <2>3, <2>4 DEF Answering
<1>2. CASE HandlerReturns
  <2> DEFINE e == [kind |-> "resp", of |-> pser.buf[1].req]
  <2>1. /\ out' = Append(out, e) /\ e.of = pser.buf[1].req /\ e.kind = "resp"
        /\ pser.pc = "handler"
    BY <1>2 DEF HandlerReturns
  <2>2. e \in Sent /\ e.of \in InHand /\ e.of \in Nat
    BY <2>1, HandlersRequest, PserialAssumption DEF Sent
  <2> HIDE DEF e
  <2>3. /\ Len(out) \in Nat /\ Len(out') = Len(out) + 1
        /\ \A k \in 1 .. Len(out) : out'[k] = out[k]
        /\ out'[Len(out) + 1] = e
    BY <1>0, <2>1, <2>2, AppendFacts
  <2>4. \A k \in 1 .. Len(out') : k \in 1 .. Len(out) \/ k = Len(out) + 1
    BY <2>3
  <2>5. \A j \in 1 .. Len(out) : out[j].of \in Nat /\ out[j].of < e.of
    <3>1. \A j \in 1 .. Len(out) : out[j] \in Sent /\ out[j].of \in OutOf
      BY <1>0 DEF OutOf
    <3> QED
      BY <2>2, <3>1, PserialAssumption DEF Handing, Below, Sent
  <2>6. ASSUME NEW j \in 1 .. Len(out'), NEW k \in 1 .. Len(out'), j < k,
               out'[j].kind = "resp", out'[k].kind = "resp"
        PROVE  out'[j].of < out'[k].of
    BY <2>3, <2>4, <2>5, <2>6 DEF Answering
  <2>7. ASSUME NEW j \in 1 .. Len(out'), NEW k \in 1 .. Len(out'),
               out'[j].kind = "evt", out'[k].kind = "resp",
               out'[j].of = out'[k].of
        PROVE  k < j
    BY <2>1, <2>2, <2>3, <2>4, <2>5, <2>7 DEF Answering
  <2> QED
    BY <2>6, <2>7 DEF Answering
<1>3. CASE ~TakeEvent /\ ~HandlerReturns
  <2>1. out' = out
    BY <1>3 DEF Next, HostStep, HostSend, HostCut, RecvStep, RecvRead,
       RecvStore, RecvCommit, RecvSend, RecvNoMem, SendEvent, PserStep,
       PserOwn, PserWait, TakeRequest, ClearLength, RejectRequest, Dispatch,
       HandlerSend, HandlerFails, XmitDone
  <2> QED
    BY <2>1 DEF Answering
<1> QED
  BY <1>1, <1>2, <1>3

(* Every step keeps the order of what has been handled.                    *)
LEMMA NextHanded ==
  ASSUME Bounded, Bounded', Turns, Ordered, Handed, [Next]_vars
  PROVE  Handed'
<1> SUFFICES ASSUME "early_valid" \notin harm'
             PROVE  Handing' /\ Answering'
  BY DEF Handed
<1>1. harm \subseteq harm'
  BY DEF Next, HostStep, HostSend, HostCut, RecvStep, RecvRead, RecvStore,
     RecvCommit, RecvSend, RecvNoMem, SendEvent, PserStep, PserOwn,
     PserWait, TakeEvent,
     TakeRequest, ClearLength, RejectRequest, Dispatch, HandlerSend,
     HandlerReturns, HandlerFails, XmitDone
<1>2. Handing /\ Answering /\ TakingTurns
  BY <1>1 DEF Handed, Turns
<1>3. CASE UNCHANGED vars
  <2>1. /\ Handled' = Handled /\ OutOf' = OutOf /\ InHand' = InHand
        /\ Reqs(Stream)' = Reqs(Stream) /\ Reqs(r.buf)' = Reqs(r.buf)
        /\ Reqs(recv.buf)' = Reqs(recv.buf)
    BY <1>3 DEF Handled, OutOf, EvtOf, InHand, Reqs, Frags, Stream
  <2>2. Handing'
    BY <1>2, <1>3, <2>1 DEF Handing, Below
  <2> QED
    BY <1>2, <1>3, <2>2, NextAnswering
<1> QED
  BY <1>2, <1>3, HostHanding, RecvHanding, PserHanding, EventHanding,
     NextAnswering DEF Next

-----------------------------------------------------------------------------
(* Requests arrive whole.                                                  *)

(* The beginning of a request up to, not including, fragment f.            *)
Before(f) == [j \in 1 .. f.i - 1 |-> [req |-> f.req, i |-> j, n |-> f.n]]

(* Fragment g comes right after f.                                         *)
Follows(f, g) == IF f.i < f.n THEN g = [req |-> f.req, i |-> f.i + 1, n |-> f.n]
                 ELSE g.i = 1

(* The stream is made of whole requests but for the beginning of the first *)
(* one, and that is what the buffer holds.                                 *)
InPieces ==
  /\ \A k \in 1 .. Len(Stream) : Stream[k].i <= Stream[k].n
  /\ \A k \in 1 .. Len(Stream) : k + 1 \in 1 .. Len(Stream) =>
       Follows(Stream[k], Stream[k + 1])
  /\ Stream # <<>> => Stream[Len(Stream)].i = Stream[Len(Stream)].n
  /\ r.valid \/ pser.pc = "clear" => Stream = <<>> \/ Stream[1].i = 1
  /\ ~(r.valid \/ pser.pc = "clear") =>
       IF Stream = <<>> THEN r.buf = <<>> ELSE r.buf = Before(Stream[1])
  /\ recv.pc = "commit" => recv.buf = Append(r.buf, Stream[1])

Harmless == harm \intersect {"cut", "stale_room", "early_valid"} = {}
Whole == Harmless =>
  /\ InPieces
  /\ lost = 0
  /\ r.valid => IsRequest(r.buf)
  /\ pser.pc \notin {"idle", "xmit"} => IsRequest(pser.buf)

(* The beginning of a request is a sequence of fragments.                  *)
LEMMA BeforeSeq ==
  ASSUME NEW f \in Fragment
  PROVE  /\ Before(f) \in Seq(Fragment) /\ Len(Before(f)) = f.i - 1
         /\ \A j \in 1 .. f.i - 1 :
              Before(f)[j] = [req |-> f.req, i |-> j, n |-> f.n]
<1>1. f.i \in 1 .. Capacity /\ f.i - 1 \in Nat
  BY PserialAssumption DEF Fragment
<1>2. \A j \in 1 .. f.i - 1 : [req |-> f.req, i |-> j, n |-> f.n] \in Fragment
  BY <1>1, PserialAssumption DEF Fragment
<1> QED
  BY <1>1, <1>2 DEF Before

(* There is nothing before a request's first fragment, ...                 *)
LEMMA BeforeFirst ==
  ASSUME NEW f \in Fragment, f.i = 1
  PROVE  Before(f) = <<>>
<1>1. Before(f) \in Seq(Fragment) /\ Len(Before(f)) = 0
  BY BeforeSeq
<1> QED
  BY <1>1, EmptySeq

(* ... each fragment adds itself, ...                                      *)
LEMMA BeforeNext ==
  ASSUME NEW f \in Fragment, f.i < f.n,
         NEW g \in Fragment, g = [req |-> f.req, i |-> f.i + 1, n |-> f.n]
  PROVE  Append(Before(f), f) = Before(g)
<1>1. f.i \in Nat \ {0} /\ g.i = f.i + 1 /\ g.req = f.req /\ g.n = f.n
      /\ f = [req |-> f.req, i |-> f.i, n |-> f.n]
  BY PserialAssumption DEF Fragment
<1>2. /\ Before(f) \in Seq(Fragment) /\ Len(Before(f)) = f.i - 1
      /\ \A j \in 1 .. f.i - 1 :
           Before(f)[j] = [req |-> f.req, i |-> j, n |-> f.n]
      /\ Before(g) \in Seq(Fragment) /\ Len(Before(g)) = g.i - 1
      /\ \A j \in 1 .. g.i - 1 :
           Before(g)[j] = [req |-> g.req, i |-> j, n |-> g.n]
  BY BeforeSeq
<1> DEFINE s == Append(Before(f), f)
<1>3. /\ s \in Seq(Fragment) /\ Len(s) = f.i
      /\ \A j \in 1 .. f.i - 1 : s[j] = Before(f)[j]
      /\ s[f.i] = f
  BY <1>1, <1>2, AppendFacts
<1> HIDE DEF s
<1>4. \A j \in 1 .. Len(s) : s[j] = Before(g)[j]
  <2>1. \A j \in 1 .. Len(s) : j \in 1 .. f.i - 1 \/ j = f.i
    BY <1>1, <1>3
  <2> QED
    BY <1>1, <1>2, <1>3, <2>1
<1>5. s = Before(g)
  BY <1>1, <1>2, <1>3, <1>4, SeqEqual
<1> QED
  BY <1>5 DEF s

(* ... and the last one completes the request.                             *)
LEMMA BeforeLast ==
  ASSUME NEW f \in Fragment, f.i = f.n
  PROVE  IsRequest(Append(Before(f), f))
<1>1. f.i \in Nat \ {0} /\ f.n = f.i /\ f.req \in 1 .. MaxReq
      /\ f.n \in 1 .. Capacity
      /\ f = [req |-> f.req, i |-> f.i, n |-> f.n]
  BY PserialAssumption DEF Fragment
<1>2. /\ Before(f) \in Seq(Fragment) /\ Len(Before(f)) = f.i - 1
      /\ \A j \in 1 .. f.i - 1 :
           Before(f)[j] = [req |-> f.req, i |-> j, n |-> f.n]
  BY BeforeSeq
<1>3. /\ Request(f.req, f.n) \in Seq(Fragment)
      /\ Len(Request(f.req, f.n)) = f.n
      /\ \A j \in 1 .. f.n :
           Request(f.req, f.n)[j] = [req |-> f.req, i |-> j, n |-> f.n]
  BY <1>1, RequestSeq
<1> DEFINE s == Append(Before(f), f)
<1>4. /\ s \in Seq(Fragment) /\ Len(s) = f.i
      /\ \A j \in 1 .. f.i - 1 : s[j] = Before(f)[j]
      /\ s[f.i] = f
  BY <1>1, <1>2, AppendFacts
<1> HIDE DEF s
<1>5. \A j \in 1 .. Len(s) : s[j] = Request(f.req, f.n)[j]
  <2>1. \A j \in 1 .. Len(s) : j \in 1 .. f.i - 1 \/ j = f.i
    BY <1>1, <1>4
  <2> QED
    BY <1>1, <1>2, <1>3, <1>4, <2>1
<1>6. s = Request(f.req, f.n)
  BY <1>1, <1>3, <1>4, <1>5, SeqEqual
<1> QED
  BY <1>1, <1>6 DEF s, IsRequest

(* A step that leaves the stream and the buffer alone.                     *)
LEMMA PiecesKept ==
  ASSUME InPieces, Stream' = Stream, r' = r,
         pser'.pc = "clear" <=> pser.pc = "clear",
         recv'.pc = "commit" => recv' = recv
  PROVE  InPieces'
  BY DEF InPieces, Follows, Before

(* The host appends whole requests.                                        *)
LEMMA HostPieces ==
  ASSUME Bounded, InPieces, NEW n \in 1 .. Capacity, HostSend(n)
  PROVE  InPieces'
<1>1. /\ sent' = sent + 1 /\ bus' = bus \o Request(sent', n)
      /\ UNCHANGED <<r, recv, pser>>
  BY DEF HostSend
<1>2. sent' \in 1 .. MaxReq
  BY PserialAssumption, SMTT(30) DEF HostSend, Bounded, TypeOK
<1> DEFINE ext == Request(sent', n)
<1>3. /\ ext \in Seq(Fragment) /\ Len(ext) = n /\ n \in Nat \ {0}
      /\ \A j \in 1 .. n : ext[j] = [req |-> sent', i |-> j, n |-> n]
  BY <1>2, RequestSeq, PserialAssumption
<1>4. Stream' = Stream \o ext
  <2>1. \A s, t, u \in Seq(Fragment) : (s \o t) \o u = s \o (t \o u)
    BY ConcatAssociative
  <2>2. (recv.frag \o bus) \o ext = recv.frag \o (bus \o ext)
    <3>1. recv.frag \in Seq(Fragment) /\ bus \in Seq(Fragment)
      BY DEF Bounded, TypeOK
    <3>2. ext \in Seq(Fragment)
      BY <1>3
    <3> QED
      BY <2>1, <3>1, <3>2, Zenon
  <2> QED
    BY <1>1, <2>2 DEF Stream
<1> HIDE DEF ext
<1>5. Stream \in Seq(Fragment)
  BY HeldTypes
<1>6. /\ Len(Stream') = Len(Stream) + n /\ Len(Stream) \in Nat
      /\ \A k \in 1 .. Len(Stream) : Stream'[k] = Stream[k]
      /\ \A k \in 1 .. n : Stream'[Len(Stream) + k] = ext[k]
  BY <1>3, <1>4, <1>5, JoinFacts
<1>7. \A k \in 1 .. Len(Stream') :
        \/ k \in 1 .. Len(Stream)
        \/ k - Len(Stream) \in 1 .. n /\ Stream'[k] = ext[k - Len(Stream)]
  <2> SUFFICES ASSUME NEW k \in 1 .. Len(Stream'), k \notin 1 .. Len(Stream)
               PROVE  /\ k - Len(Stream) \in 1 .. n
                      /\ Stream'[k] = ext[k - Len(Stream)]
    OBVIOUS
  <2>1. k - Len(Stream) \in 1 .. n /\ k = Len(Stream) + (k - Len(Stream))
    BY <1>3, <1>6
  <2> QED
    BY <1>6, <2>1
<1>8. \A k \in 1 .. Len(Stream') : Stream'[k].i <= Stream'[k].n
  BY <1>3, <1>6, <1>7 DEF InPieces
<1>9. ASSUME NEW k \in 1 .. Len(Stream'), k + 1 \in 1 .. Len(Stream')
      PROVE  Follows(Stream'[k], Stream'[k + 1])
  <2>1. CASE k + 1 \in 1 .. Len(Stream)
    <3>1. k \in 1 .. Len(Stream)
      BY <1>6, <2>1
    <3> QED
      BY <1>6, <2>1, <3>1 DEF InPieces
  <2>2. CASE k = Len(Stream)
    <3>1. Stream # <<>> /\ k \in 1 .. Len(Stream)
      BY <1>5, <1>6, <2>2, EmptySeq
    <3>2. Stream'[k] = Stream[k] /\ Stream[k].i = Stream[k].n
      BY <1>6, <2>2, <3>1 DEF InPieces
    <3>3. 1 \in 1 .. n /\ Stream'[k + 1] = ext[1]
      BY <1>3, <1>6, <2>2
    <3>4. Stream'[k + 1].i = 1
      BY <1>3, <3>3
    <3>5. Stream[k].i \in Nat
      <4>1. Stream[k] \in Fragment
        BY <1>5, <3>1
      <4> QED
        BY <4>1, PserialAssumption DEF Fragment
    <3> QED
      BY <3>2, <3>4, <3>5 DEF Follows
  <2>3. CASE k - Len(Stream) \in 1 .. n /\ k + 1 - Len(Stream) \in 1 .. n
    <3>1. /\ Stream'[k] = ext[k - Len(Stream)]
          /\ Stream'[k + 1] = ext[k + 1 - Len(Stream)]
      <4>1. k = Len(Stream) + (k - Len(Stream))
            /\ k + 1 = Len(Stream) + (k + 1 - Len(Stream))
        BY <1>6
      <4> QED
        BY <1>6, <2>3, <4>1
    <3> DEFINE j == k - Len(Stream)
    <3>2. j \in 1 .. n /\ j + 1 \in 1 .. n /\ k + 1 - Len(Stream) = j + 1
      BY <1>6, <2>3
    <3> HIDE DEF j
    <3>3. Stream'[k] = ext[j] /\ Stream'[k + 1] = ext[j + 1] /\ j < n
      BY <1>3, <3>1, <3>2 DEF j
    <3>4. /\ Stream'[k] = [req |-> sent', i |-> j, n |-> n]
          /\ Stream'[k + 1] = [req |-> sent', i |-> j + 1, n |-> n]
      BY <1>3, <3>2, <3>3
    <3> QED
      BY <3>3, <3>4 DEF Follows
  <2> QED
    BY <1>6, <1>9, <2>1, <2>2, <2>3
<1>10. Stream' # <<>> /\ Stream'[Len(Stream')].i = Stream'[Len(Stream')].n
  <2>1. n \in 1 .. n /\ Len(Stream') = Len(Stream) + n /\ Len(Stream') > 0
    BY <1>3, <1>6
  <2>2. Stream'[Len(Stream')] = ext[n]
    BY <1>6, <2>1
  <2>3. Stream' \in Seq(Fragment) /\ Stream' # <<>>
    BY <1>3, <1>4, <1>5, <2>1, JoinFacts
  <2> QED
    BY <1>3, <2>1, <2>2, <2>3
<1>11. Stream = <<>> =>
         Stream'[1] \in Fragment /\ Stream'[1].i = 1 /\ Before(Stream'[1]) = <<>>
  <2> SUFFICES ASSUME Stream = <<>>
               PROVE  Stream'[1] \in Fragment /\ Stream'[1].i = 1
                      /\ Before(Stream'[1]) = <<>>
    OBVIOUS
  <2>1. Len(Stream) = 0 /\ 1 \in 1 .. n
    BY <1>3
  <2>2. Stream'[1] = ext[1] /\ ext[1] \in Fragment
    BY <1>3, <1>6, <2>1
  <2> QED
    BY <1>3, <2>1, <2>2, BeforeFirst
<1>12. Stream # <<>> => Stream'[1] = Stream[1]
  <2>1. Stream # <<>> => 1 \in 1 .. Len(Stream)
    BY <1>5, TailFacts
  <2> QED
    BY <1>6, <2>1
<1>13. recv.pc = "commit" => Stream # <<>>
  BY StreamHead
<1>14. r.valid \/ pser.pc = "clear" => Stream'[1].i = 1
  BY <1>11, <1>12 DEF InPieces
<1>15. ~(r.valid \/ pser.pc = "clear") => r.buf = Before(Stream'[1])
  BY <1>11, <1>12 DEF InPieces
<1>16. recv.pc = "commit" => recv.buf = Append(r.buf, Stream'[1])
  BY <1>12, <1>13 DEF InPieces
<1> QED
  BY <1>1, <1>8, <1>9, <1>10, <1>14, <1>15, <1>16 DEF InPieces, Before, Follows

(* The buffer has room for the fragment in hand: nothing is cut off.       *)
LEMMA StorePieces ==
  ASSUME Bounded, InPieces, RecvStore, Harmless'
  PROVE  InPieces'
<1>1. /\ recv.pc = "store" /\ ~r.valid /\ recv'.buf = Extended
      /\ recv'.frag = recv.frag
      /\ UNCHANGED <<bus, r, pser>>
  BY DEF RecvStore, Bounded, TypeOK
<1>2. /\ pser.pc # "clear"
      /\ ~(recv.room = 0 /\ Room(r.buf) > 0)
  BY DEF RecvStore, Harmless
<1>3. /\ Stream # <<>> /\ recv.frag = <<Stream[1]>> /\ Stream' = Stream
      /\ Stream[1] \in Fragment /\ 1 \in 1 .. Len(Stream)
  <2>1. Stream # <<>> /\ recv.frag = <<Stream[1]>> /\ Stream' = Stream
    BY <1>1, StreamHead DEF Stream
  <2> QED
    BY <2>1, HeldTypes, TailFacts
<1>4. r.buf = Before(Stream[1])
  BY <1>1, <1>2, <1>3 DEF InPieces
<1>5. Room(r.buf) > 0
  <2>1. Len(r.buf) = Stream[1].i - 1
    BY <1>3, <1>4, BeforeSeq
  <2> QED
    BY <1>3, <2>1, PserialAssumption DEF Room, Fragment
<1>6. recv.room > 0
  BY <1>2, <1>5, PserialAssumption, SMTT(60) DEF Bounded, TypeOK
<1>7. Extended = Append(r.buf, Stream[1])
  <2>1. Extended = r.buf \o <<Stream[1]>>
    BY <1>3, <1>6 DEF Extended
  <2> QED
    BY <1>3, <2>1, HeldTypes
<1> QED
  BY <1>1, <1>2, <1>3, <1>4, <1>7 DEF InPieces, Before, Follows

(* What the buffer holds after a fragment is counted: a whole request, or  *)
(* all that precedes the next fragment.                                    *)
LEMMA CommitPieces ==
  ASSUME Bounded, Bounded', InPieces, TakingTurns, RecvCommit
  PROVE  InPieces' /\ (r'.valid => IsRequest(r'.buf))
<1>1. /\ Stream # <<>> /\ Stream' = Tail(Stream) /\ r'.buf = recv.buf
      /\ r'.valid <=> Stream[1].i = Stream[1].n
      /\ recv'.pc # "commit"
  BY StreamCommit
<1>2. /\ recv.pc = "commit" /\ pser' = pser /\ ~r.valid /\ pser.pc # "clear"
  BY DEF RecvCommit, TakingTurns
<1>3. Stream \in Seq(Fragment)
  BY HeldTypes
<1>4. /\ Stream[1] \in Fragment /\ 1 \in 1 .. Len(Stream) /\ Len(Stream) \in Nat
      /\ Len(Stream') = Len(Stream) - 1 /\ Stream' \in Seq(Fragment)
      /\ \A k \in 1 .. Len(Stream') : /\ k + 1 \in 1 .. Len(Stream)
                                      /\ Stream'[k] = Stream[k + 1]
  BY <1>1, <1>3, TailFacts
<1> DEFINE f == Stream[1]
<1>5. f.i \in Nat /\ f.n \in Nat /\ f.i <= f.n
  <2>1. f.i <= f.n
    BY <1>4 DEF InPieces
  <2> QED
    BY <1>4, <2>1, PserialAssumption DEF Fragment
<1>6. recv.buf = Append(Before(f), f)
  BY <1>1, <1>2 DEF InPieces
<1>7. r'.valid => IsRequest(r'.buf)
  BY <1>1, <1>4, <1>6, BeforeLast
<1>8. \A k \in 1 .. Len(Stream') : Stream'[k].i <= Stream'[k].n
  BY <1>4 DEF InPieces
<1>9. \A k \in 1 .. Len(Stream') : k + 1 \in 1 .. Len(Stream') =>
        Follows(Stream'[k], Stream'[k + 1])
  <2> SUFFICES ASSUME NEW k \in 1 .. Len(Stream'), k + 1 \in 1 .. Len(Stream')
               PROVE  Follows(Stream'[k], Stream'[k + 1])
    OBVIOUS
  <2>1. /\ k + 1 \in 1 .. Len(Stream) /\ Stream'[k] = Stream[k + 1]
        /\ (k + 1) + 1 \in 1 .. Len(Stream)
        /\ Stream'[k + 1] = Stream[(k + 1) + 1]
    BY <1>4
  <2> QED
    BY <2>1 DEF InPieces
<1>10. Stream' # <<>> => Stream'[Len(Stream')].i = Stream'[Len(Stream')].n
  <2> SUFFICES ASSUME Stream' # <<>>
               PROVE  Stream'[Len(Stream')].i = Stream'[Len(Stream')].n
    OBVIOUS
  <2>1. Len(Stream') \in 1 .. Len(Stream') /\ Len(Stream') + 1 = Len(Stream)
    BY <1>4, EmptySeq
  <2>2. Stream'[Len(Stream')] = Stream[Len(Stream)]
    BY <1>4, <2>1
  <2> QED
    BY <1>1, <2>2 DEF InPieces
<1>11. Stream' # <<>> => Stream'[1] = Stream[2] /\ Follows(f, Stream[2])
                         /\ Stream[2] \in Fragment
  <2> SUFFICES ASSUME Stream' # <<>>
               PROVE  Stream'[1] = Stream[2] /\ Follows(f, Stream[2])
                      /\ Stream[2] \in Fragment
    OBVIOUS
  <2>1. 1 \in 1 .. Len(Stream') /\ 1 + 1 \in 1 .. Len(Stream)
    BY <1>4, EmptySeq
  <2>2. Stream'[1] = Stream[1 + 1] /\ Follows(f, Stream[1 + 1])
    BY <1>4, <2>1 DEF InPieces
  <2> QED
    BY <1>3, <2>1, <2>2
<1>12. CASE f.i = f.n
  <2>1. r'.valid /\ (Stream' # <<>> => Stream'[1].i = 1)
    BY <1>1, <1>5, <1>11, <1>12 DEF Follows
  <2> QED
    BY <1>1, <1>7, <1>8, <1>9, <1>10, <2>1 DEF InPieces, Follows, Before
<1>13. CASE f.i # f.n
  <2>1. ~r'.valid /\ f.i < f.n
    BY <1>1, <1>5, <1>13
  <2>2. Stream' # <<>>
    <3> SUFFICES ASSUME Stream' = <<>> PROVE FALSE
      OBVIOUS
    <3>1. Len(Stream) = 1
      BY <1>4
    <3> QED
      BY <1>1, <1>13, <3>1 DEF InPieces
  <2>3. Append(Before(f), f) = Before(Stream[2])
    BY <1>4, <1>11, <2>1, <2>2, BeforeNext DEF Follows
  <2>4. r'.buf = Before(Stream'[1])
    BY <1>1, <1>6, <1>11, <2>2, <2>3
  <2>5. pser'.pc # "clear"
    BY <1>2
  <2> QED
    BY <1>1, <1>7, <1>8, <1>9, <1>10, <2>1, <2>2, <2>4, <2>5
       DEF InPieces, Follows, Before
<1> QED
  BY <1>12, <1>13

(* Giving the buffer back, and emptying it.                                *)
LEMMA GivenBack ==
  ASSUME Bounded, InPieces, TakingTurns, TakeRequest \/ ClearLength
  PROVE  InPieces'
<1>1. Stream' = Stream /\ recv' = recv /\ Stream \in Seq(Fragment)
  BY HeldTypes DEF TakeRequest, ClearLength, Stream
<1>2. recv.pc # "commit"
  <2>1. CASE TakeRequest
    <3>1. 1 \in 1 .. Len(req_queue) /\ req_queue[1].kind = "req"
      BY <2>1, HeldTypes, TailFacts DEF TakeRequest
    <3> QED
      BY <3>1 DEF TakingTurns
  <2>2. CASE ClearLength
    BY <2>2 DEF ClearLength, TakingTurns
  <2> QED
    BY <2>1, <2>2
<1>3. Stream = <<>> \/ Stream[1].i = 1
  <2>1. CASE TakeRequest
    <3>1. 1 \in 1 .. Len(req_queue) /\ req_queue[1].kind = "req"
      BY <2>1, HeldTypes, TailFacts DEF TakeRequest
    <3> QED
      BY <3>1 DEF TakingTurns, InPieces
  <2>2. CASE ClearLength
    BY <2>2 DEF ClearLength, InPieces
  <2> QED
    BY <2>1, <2>2
<1>4. CASE TakeRequest
  <2>1. /\ req_queue # <<>> /\ Head(req_queue).kind = "req"
        /\ pser' = [pc |-> IF r.valid THEN "clear" ELSE "parse", left |-> 0,
                    buf |-> ReadData(Head(req_queue).buf)]
    BY <1>4 DEF TakeRequest
  <2>2. r.valid
    <3>1. 1 \in 1 .. Len(req_queue) /\ Head(req_queue) = req_queue[1]
      BY <2>1, HeldTypes, TailFacts
    <3> QED
      BY <2>1, <3>1 DEF TakingTurns
  <2>3. pser'.pc = "clear"
    BY <2>1, <2>2
  <2> QED
    BY <1>1, <1>2, <1>3, <2>3 DEF InPieces, Follows, Before
<1>5. CASE ClearLength
  <2>1. /\ r' = [r EXCEPT !.buf = <<>>]
        /\ pser' = [pser EXCEPT !.pc = "parse"] /\ pser.pc = "clear"
    BY <1>5 DEF ClearLength
  <2>2. r'.buf = <<>> /\ r'.valid = r.valid /\ ~r.valid /\ pser'.pc = "parse"
    <3>1. PICK e \in Seq(Fragment) : e = <<>>
      BY EmptySeq
    <3>2. ~r.valid
      BY <2>1 DEF TakingTurns
    <3>3. r \in [valid: BOOLEAN, buf: Seq(Fragment)] /\ r' = [r EXCEPT !.buf = e]
      BY <2>1, <3>1 DEF Bounded, TypeOK
    <3>4. r'.buf = e /\ r'.valid = r.valid
      BY <3>3
    <3>5. pser'.pc = "parse"
      BY <2>1 DEF Bounded, TypeOK
    <3> QED
      BY <3>1, <3>2, <3>4, <3>5
  <2>3. Stream # <<>> => Before(Stream[1]) = <<>>
    <3>1. Stream # <<>> => Stream[1] \in Fragment
      BY <1>1, TailFacts
    <3> QED
      BY <1>3, <3>1, BeforeFirst
  <2>4. Stream' # <<>> => Before(Stream'[1]) = <<>>
    BY <1>1, <2>3
  <2>5. recv'.pc # "commit"
    BY <1>1, <1>2
  <2>6. /\ \A k \in 1 .. Len(Stream') : Stream'[k].i <= Stream'[k].n
        /\ \A k \in 1 .. Len(Stream') : k + 1 \in 1 .. Len(Stream') =>
             Follows(Stream'[k], Stream'[k + 1])
        /\ Stream' # <<>> => Stream'[Len(Stream')].i = Stream'[Len(Stream')].n
    BY <1>1 DEF InPieces
  <2> QED
    BY <2>2, <2>4, <2>5, <2>6 DEF InPieces, Before, Follows
<1> QED
  BY <1>4, <1>5

(* What reaches rpc_req_handler is a request.                              *)
LEMMA NextWhole ==
  ASSUME Bounded, Bounded', Turns, Whole, [Next]_vars
  PROVE  Whole'
<1> SUFFICES ASSUME Harmless'
             PROVE  /\ InPieces' /\ lost' = 0
                    /\ r'.valid => IsRequest(r'.buf)
                    /\ pser'.pc \notin {"idle", "xmit"} => IsRequest(pser'.buf)
  BY DEF Whole, IsRequest
<1>1. harm \subseteq harm'
  BY DEF Next, HostStep, HostSend, HostCut, RecvStep, RecvRead, RecvStore,
     RecvCommit, RecvSend, RecvNoMem, SendEvent, PserStep, PserOwn,
     PserWait, TakeEvent,
     TakeRequest, ClearLength, RejectRequest, Dispatch, HandlerSend,
     HandlerReturns, HandlerFails, XmitDone
<1>2. /\ InPieces /\ lost = 0 /\ TakingTurns
      /\ r.valid => IsRequest(r.buf)
      /\ pser.pc \notin {"idle", "xmit"} => IsRequest(pser.buf)
  BY <1>1 DEF Whole, Harmless, Turns
<1>3. CASE HostStep
  <2>1. PICK n \in 1 .. Capacity : HostSend(n)
    BY <1>3 DEF HostStep, HostCut, Harmless
  <2>2. UNCHANGED <<r, pser, lost>>
    BY <2>1 DEF HostSend
  <2> QED
    BY <1>2, <2>1, <2>2, HostPieces
<1>4. CASE RecvRead \/ RecvSend \/ RecvNoMem
  <2>1. Stream' = Stream
    <3>1. HostStep => sent' = sent + 1
      BY DEF HostStep, HostSend, HostCut
    <3>2. sent' # sent + 1 /\ ~RecvCommit
      BY <1>4, HeldTypes DEF RecvCommit, RecvRead, RecvSend, RecvNoMem
    <3> QED
      BY <3>1, <3>2, StreamKept
  <2>2. UNCHANGED <<r, pser, lost>>
    BY <1>4 DEF RecvRead, RecvSend, RecvNoMem
  <2>3. recv'.pc # "commit"
    <3>1. CASE RecvRead
      BY <3>1 DEF RecvRead, Bounded, TypeOK
    <3>2. CASE RecvSend \/ RecvNoMem
      BY <3>2 DEF RecvSend, RecvNoMem, RecvIdle
    <3> QED
      BY <1>4, <3>1, <3>2
  <2> QED
    BY <1>2, <2>1, <2>2, <2>3, PiecesKept
<1>5. CASE RecvStore
  <2>1. UNCHANGED <<r, pser, lost>>
    BY <1>5 DEF RecvStore
  <2> QED
    BY <1>2, <1>5, <2>1, StorePieces
<1>6. CASE RecvCommit
  <2>1. UNCHANGED <<pser, lost>>
    BY <1>6 DEF RecvCommit
  <2> QED
    BY <1>2, <1>6, <2>1, CommitPieces
<1>7. CASE TakeRequest
  <2>1. /\ lost' = lost /\ r' = [r EXCEPT !.valid = FALSE]
        /\ req_queue # <<>> /\ Head(req_queue).kind = "req"
        /\ pser' = [pc |-> IF r.valid THEN "clear" ELSE "parse", left |-> 0,
                    buf |-> ReadData(Head(req_queue).buf)]
    BY <1>7 DEF TakeRequest
  <2>2. r.valid /\ r.buf = Head(req_queue).buf
    <3>1. 1 \in 1 .. Len(req_queue) /\ Head(req_queue) = req_queue[1]
      BY <2>1, HeldTypes, TailFacts
    <3> QED
      BY <1>2, <2>1, <3>1 DEF TakingTurns
  <2>3. pser'.buf = r.buf
    <3>1. ReadData(Head(req_queue).buf) = r.buf
      BY <2>2, HeldTypes, ReadSeq DEF Bounded
    <3> QED
      BY <2>1, <3>1
  <2>4. ~r'.valid
    BY <2>1 DEF Bounded, TypeOK
  <2> QED
    BY <1>2, <1>7, <2>1, <2>2, <2>3, <2>4, GivenBack
<1>8. CASE ClearLength
  <2>1. /\ lost' = lost /\ pser' = [pser EXCEPT !.pc = "parse"]
        /\ r' = [r EXCEPT !.buf = <<>>] /\ pser.pc = "clear"
    BY <1>8 DEF ClearLength
  <2>2. pser'.buf = pser.buf
    BY <2>1 DEF Bounded, TypeOK
  <2>3. ~r'.valid
    <3>1. PICK e \in Seq(Fragment) : e = <<>>
      BY EmptySeq
    <3>2. ~r.valid
      BY <1>2, <2>1 DEF TakingTurns
    <3>3. r \in [valid: BOOLEAN, buf: Seq(Fragment)] /\ r' = [r EXCEPT !.buf = e]
      BY <2>1, <3>1 DEF Bounded, TypeOK
    <3> QED
      BY <3>2, <3>3
  <2>4. IsRequest(pser'.buf)
    BY <1>2, <2>1, <2>2
  <2>5. InPieces'
    BY <1>2, <1>8, GivenBack
  <2>6. lost' = 0
    BY <1>2, <2>1
  <2> QED
    BY <2>3, <2>4, <2>5, <2>6
<1>9. CASE SendEvent \/ TakeEvent \/ HandlerReturns \/ HandlerFails \/ XmitDone
           \/ HandlerSend \/ (\E k \in 0 .. MaxEmit : Dispatch(k))
  <2>1. UNCHANGED <<bus, recv, r, lost>>
    BY <1>9 DEF SendEvent, TakeEvent, HandlerReturns, HandlerFails, XmitDone,
       HandlerSend, Dispatch
  <2>2. Stream' = Stream
    BY <2>1 DEF Stream
  <2>3. /\ pser'.pc = "clear" <=> pser.pc = "clear"
        /\ \/ pser'.pc \in {"idle", "xmit"}
           \/ pser.pc \notin {"idle", "xmit"} /\ pser'.buf = pser.buf
           \/ UNCHANGED pser
    <3>1. CASE SendEvent \/ TakeEvent
      BY <3>1 DEF SendEvent, TakeEvent, Xmit
    <3>2. CASE HandlerReturns \/ HandlerFails \/ XmitDone
      BY <3>2 DEF HandlerReturns, HandlerFails, XmitDone, PserIdle, Xmit
    <3>3. CASE HandlerSend
      <4>1. pser.pc = "handler" /\ pser' = [pser EXCEPT !.left = @ - 1]
        BY <3>3 DEF HandlerSend
      <4> QED
        BY <4>1 DEF Bounded, TypeOK
    <3>4. ASSUME NEW k \in 0 .. MaxEmit, Dispatch(k)
          PROVE  /\ pser'.pc = "handler" /\ pser.pc = "parse"
                 /\ pser'.buf = pser.buf
      BY <3>4 DEF Dispatch, Bounded, TypeOK
    <3> QED
      BY <1>9, <3>1, <3>2, <3>3, <3>4
  <2>4. InPieces'
    BY <1>2, <2>1, <2>2, <2>3, PiecesKept
  <2> QED
    BY <1>2, <2>1, <2>3, <2>4
<1>10. CASE RejectRequest
  BY <1>2, <1>10 DEF RejectRequest
<1>11. CASE UNCHANGED vars
  <2>1. Stream' = Stream
    BY <1>11 DEF Stream
  <2> QED
    BY <1>2, <1>11, <2>1, PiecesKept
<1> QED
  BY <1>3, <1>4, <1>5, <1>6, <1>7, <1>8, <1>9, <1>10, <1>11
     DEF Next, RecvStep, PserStep, PserOwn, PserWait

-----------------------------------------------------------------------------
(* The inductive invariant of the endpoint.                                *)
EndpointInv == Bounded /\ Turns /\ Ordered /\ Handed /\ Whole

(* The start of the endpoint, ...                                          *)
LEMMA InitEndpoint == Init => EndpointInv
<1> SUFFICES ASSUME Init PROVE EndpointInv
  OBVIOUS
<1>1. /\ bus = <<>> /\ sent = 0 /\ r.valid = FALSE /\ r.buf = <<>>
      /\ recv.frag = <<>> /\ recv.buf = <<>> /\ recv.pc = "idle"
      /\ req_queue = <<>> /\ pser.pc = "idle" /\ out = <<>> /\ lost = 0
  BY DEF Init, RecvIdle, PserIdle
<1>2. Stream = <<>>
  BY <1>1 DEF Stream
<1>3. /\ Frags(Stream) = {} /\ Frags(r.buf) = {} /\ Reqs(Stream) = {}
      /\ Reqs(r.buf) = {} /\ Handled = {}
  BY <1>1, <1>2 DEF Frags, Reqs, Handled, OutOf, EvtOf, InHand
<1>4. Ordered
  BY <1>1, <1>2, <1>3 DEF Ordered
<1>5. Handed
  BY <1>1, <1>2, <1>3 DEF Handed, Handing, Answering, Below, Handled
<1>6. Whole
  BY <1>1, <1>2 DEF Whole, InPieces
<1> QED
  BY <1>4, <1>5, <1>6, InitBounded, InitTurns DEF EndpointInv

(* ... and each of its steps.                                              *)
LEMMA NextEndpoint == EndpointInv /\ [Next]_vars => EndpointInv'
  BY NextBounded, NextTurns, NextOrdered, NextHanded, NextWhole
     DEF EndpointInv

(* Whatever the interleaving of recv_task, pserial_task and the senders of *)
(* events: no request is lost but by a broken write, a fragment cut to a   *)
(* stale room, or a store inside serial_read_data; requests are answered   *)
(* once and in order; and a handler's events follow its response.          *)
THEOREM RequestsAnsweredInOrder == Spec => []RequestsInOrder
<1>1. EndpointInv => RequestsInOrder
  <2> SUFFICES ASSUME EndpointInv PROVE RequestsInOrder
    OBVIOUS
  <2>1. TypeOK
    BY DEF EndpointInv, Bounded
  <2>2. LostOnlyByHarm
    BY <2>1 DEF EndpointInv, Whole, Harmless, LostOnlyByHarm, TypeOK
  <2>3. AnsweredInOrder /\ ResponseBeforeItsEvents
    BY DEF EndpointInv, Handed, Answering, AnsweredInOrder,
       ResponseBeforeItsEvents
  <2> QED
    BY <2>1, <2>2, <2>3 DEF RequestsInOrder
<1> QED
  BY <1>1, InitEndpoint, NextEndpoint, PTL DEF Spec

=============================================================================
