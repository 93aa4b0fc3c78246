------------------------ MODULE PhyRpcLifecycleProofs ------------------------
(***************************************************************************)
(* Proofs about bringing the host library up and down, for any number of   *)
(* messages, entries of the registry, registrations and calls.             *)
(***************************************************************************)
EXTENDS PhyRpcLifecycle, TLAPS, FiniteSetTheorems, WellFoundedInduction

USE DEF regVars, libVars, regRest, appRest, callRest, rxRest

-----------------------------------------------------------------------------
(* The inductive invariant.                                                *)

(* At most two locks are made, as nobody makes one once there is one; a    *)
(* task that waits for a lock or has it names one that was made.           *)
LocksMade ==
  /\ custom_callbacks_mutex = 0 => made = 0
  /\ made = 1 => \E t \in Task : reg[t].pc # "create"
  /\ made = 2 => \A t \in Task : reg[t].pc # "create"
  /\ \A t \in Task : reg[t].pc \in {"lock", "scan", "write"} => reg[t].lock \in 1 .. made

(* While there is one lock, one task at a time is between finding the      *)
(* entry and writing it, and what it has found is still so.                *)
Exclusive ==
  ~TwoLocks =>
    \A t \in Task :
      /\ reg[t].pc \in {"scan", "write"} => holder[1] = t
      /\ reg[t].pc = "write" => /\ reg[t].slot = Found(reg[t])
                                /\ reg[t].ok <=> reg[t].slot # 0

(* ... and the registry holds what is registered, each id once.            *)
Kept ==
  ~TwoLocks =>
    /\ \A i \in Slots : custom_callbacks[i] # 0 => custom_callbacks[i] \in registered
    /\ \A id \in registered : \E i \in Slots : custom_callbacks[i] = id
    /\ \A i, j \in Slots :
         custom_callbacks[i] # 0 /\ custom_callbacks[i] = custom_callbacks[j] => i = j

(* The two tasks register different messages; init has registered all it   *)
(* has gone past, and nobody takes them away before deinit.                *)
Progress ==
  /\ reg["other"].pc # "idle" => reg["other"].id \in OtherIds
  /\ reg["app"].pc # "idle" => /\ app.pc \in {"init", "deinit"}
                               /\ reg["app"].id = app.next /\ app.next \in LibIds
                               /\ reg["app"].add <=> app.pc = "init"
  /\ app.pc = "init" => app.next \in LibIds /\ 1 .. (app.next - 1) \subseteq registered
  /\ app.pc = "init" /\ reg["app"].pc = "return" /\ reg["app"].ok => app.next \in registered
  /\ app.result = "ESP_OK" => app.pc = "idle" /\ LibIds \subseteq registered

(* A lock in use is of the last init and not deleted, and so are the       *)
(* semaphores.                                                             *)
Tearing == {"deinit", "delete", "clear"}
LockLives ==
  /\ dead \subseteq 1 .. app.inits
  /\ s_inflight_mutex # 0 => /\ s_inflight_mutex \in 1 .. app.inits
                             /\ s_inflight_mutex \notin dead
                             /\ done = "live"
  /\ app.pc = "clear" => s_inflight_mutex = 0

(* Until the application goes wrong, the library is up while a call or an  *)
(* answer is under way.                                                    *)
Busy == call.pc # "idle" \/ pending # {} \/ rx.pc # "idle"
Harmless ==
  harm = {} =>
    /\ ~bad
    /\ Busy => s_inflight_mutex # 0 /\ app.pc \notin Tearing
    /\ app.pc \in Tearing => done # "dead"
    /\ rx.pc = "inside" => rx.lock = s_inflight_mutex

(* Calls are numbered from 1.                                              *)
Numbered == call.pc # "idle" => call.n # 0

LifeInv == /\ TypeOK /\ LocksMade /\ Exclusive /\ Kept
           /\ Progress /\ LockLives /\ Harmless /\ Numbered

-----------------------------------------------------------------------------
(* The registry's searches.                                                *)

(* A set of numbers that is not empty has a first.                         *)
LEMMA FirstIsIn ==
  ASSUME NEW S \in SUBSET Nat, S # {}
  PROVE  First(S) \in S
<1>1. \E i \in S : \A j \in S : ~(<<j, i>> \in OpToRel(<, Nat))
  BY NatLessThanWellFounded, WFMin, Zenon
<1>2. \E i \in S : \A j \in S : i <= j
  <2>1. PICK i \in S : \A j \in S : ~(<<j, i>> \in OpToRel(<, Nat))
    BY <1>1
  <2>2. ASSUME NEW j \in S PROVE i <= j
    <3>1. ~(j < i)
      BY <2>1 DEF OpToRel
    <3> QED
      BY <3>1
  <2> QED
    BY <2>1, <2>2
<1> QED
  BY <1>2 DEF First

(* What is found is the id's entry, or a free one for a new id; nothing is *)
(* found only if there is none.                                            *)
LEMMA FoundIs ==
  ASSUME NEW r
  PROVE  /\ Found(r) \in Slots \union {0} /\ 0 \notin Slots
         /\ Found(r) # 0 => /\ Found(r) \in Slots
                            /\ \/ custom_callbacks[Found(r)] = r.id
                               \/ r.add /\ custom_callbacks[Found(r)] = 0 /\ Holding(r.id) = {}
         /\ Found(r) = 0 => Holding(r.id) = {} /\ (r.add => Holding(0) = {})
<1>1. Slots \subseteq Nat /\ 0 \notin Slots
  BY LifecycleAssumption DEF Slots
<1>2. \A id : Holding(id) \in SUBSET Nat /\ Holding(id) \subseteq Slots
  BY <1>1 DEF Holding
<1>3. \A id : Holding(id) # {} => First(Holding(id)) \in Holding(id)
  BY <1>2, FirstIsIn
<1>4. \A id : Holding(id) # {} => /\ First(Holding(id)) \in Slots
                                  /\ custom_callbacks[First(Holding(id))] = id
  BY <1>3 DEF Holding
<1>5. CASE Holding(r.id) # {}
  BY <1>1, <1>4, <1>5 DEF Found
<1>6. CASE Holding(r.id) = {} /\ r.add /\ Holding(0) # {}
  BY <1>1, <1>4, <1>6 DEF Found
<1>7. CASE Holding(r.id) = {} /\ ~(r.add /\ Holding(0) # {})
  BY <1>1, <1>7 DEF Found
<1> QED
  BY <1>5, <1>6, <1>7

-----------------------------------------------------------------------------
(* Types.                                                                  *)
RegPc  == {"idle", "check", "create", "lock", "scan", "write", "return"}
RegRec == [pc: RegPc, id: Ids \union {0}, add: BOOLEAN, lock: 0 .. 2, slot: Slots \union {0},
           ok: BOOLEAN]
AppRec == [pc: {"idle", "init", "deinit", "delete", "clear", "abort"}, next: 0 .. NUM_IDS + 1,
           result: {"none", "ESP_OK", "FAIL"}, inits: 0 .. MaxInit]
RxRec  == [pc: {"idle", "lock", "callback", "inside"}, id: Ids \union {0}, n: 0 .. MaxCalls,
           lock: 0 .. MaxInit + 2]

(* The constants, and the calls of the registry.                           *)
LEMMA Basics ==
  /\ NUM_RESP \in Nat \ {0} /\ NUM_IDS \in Nat \ {0} /\ NUM_RESP <= NUM_IDS
  /\ MaxInit \in Nat /\ MaxOther \in Nat /\ MaxCalls \in Nat
  /\ LibIds \subseteq Ids /\ OtherIds \subseteq Ids /\ 0 \notin Ids /\ Ids \subseteq Nat
  /\ LibIds \intersect OtherIds = {} /\ 1 \in LibIds
  /\ DeinitIds \in SUBSET Nat /\ DeinitIds # {} /\ DeinitIds \subseteq LibIds
  /\ \A id \in Ids, add \in BOOLEAN :
       /\ StartReg(id, add) \in RegRec
       /\ StartReg(id, add).pc = "check" /\ StartReg(id, add).id = id
       /\ StartReg(id, add).add = add /\ StartReg(id, add).ok = FALSE
  /\ RegIdle \in RegRec /\ RegIdle.pc = "idle"
<1>1. /\ NUM_RESP \in Nat \ {0} /\ NUM_IDS \in Nat \ {0} /\ NUM_RESP <= NUM_IDS
      /\ MaxInit \in Nat /\ MaxOther \in Nat /\ MaxCalls \in Nat
      /\ MAX_CUSTOM_CALLBACKS \in Nat \ {0}
  BY LifecycleAssumption
<1>2. /\ LibIds \subseteq Ids /\ OtherIds \subseteq Ids /\ 0 \notin Ids /\ Ids \subseteq Nat
      /\ LibIds \intersect OtherIds = {} /\ 1 \in LibIds
  BY <1>1, LifecycleAssumption DEF Ids, LibIds
<1>3. DeinitIds \in SUBSET Nat /\ DeinitIds # {} /\ DeinitIds \subseteq LibIds
  BY <1>2, LifecycleAssumption
<1>4. RegIdle \in RegRec /\ RegIdle.pc = "idle" /\ RegIdle.ok = FALSE
  BY DEF RegIdle, RegRec, RegPc
<1>5. ASSUME NEW id \in Ids, NEW add \in BOOLEAN
      PROVE  /\ StartReg(id, add) \in RegRec
             /\ StartReg(id, add).pc = "check" /\ StartReg(id, add).id = id
             /\ StartReg(id, add).add = add /\ StartReg(id, add).ok = FALSE
  <2>1. ASSUME NEW r \in RegRec, NEW s, s = [r EXCEPT !.pc = "check", !.id = id, !.add = add]
        PROVE  /\ s \in RegRec /\ s.pc = "check" /\ s.id = id /\ s.add = add /\ s.ok = r.ok
    BY <2>1 DEF RegRec, RegPc
  <2> QED
    BY <1>4, <2>1 DEF StartReg
<1> QED
  BY <1>1, <1>2, <1>3, <1>4, <1>5

(* A step in the registry keeps them.                                      *)
LEMMA RegTyped ==
  ASSUME TypeOK, LocksMade, Progress, NEW t \in Task, RegStep(t)
  PROVE  TypeOK'
<1>1. /\ custom_callbacks \in [Slots -> Ids \union {0}]
      /\ made \in 0 .. 2 /\ custom_callbacks_mutex \in 0 .. made
      /\ holder \in [1 .. 2 -> Task \union {"none"}]
      /\ reg \in [Task -> RegRec] /\ registered \subseteq Ids
  BY DEF TypeOK, RegRec, RegPc
<1>2. UNCHANGED <<app, others, s_inflight_mutex, dead, done, call, pending, rx, harm, bad>>
  BY DEF RegStep, RegCheck, RegCreate, RegLock, RegScan, RegWrite
<1>3. SUFFICES /\ custom_callbacks' \in [Slots -> Ids \union {0}]
               /\ made' \in 0 .. 2 /\ custom_callbacks_mutex' \in 0 .. made'
               /\ holder' \in [1 .. 2 -> Task \union {"none"}]
               /\ reg' \in [Task -> RegRec] /\ registered' \subseteq Ids
  BY <1>2, SMTT(60) DEF TypeOK, RegRec, RegPc
<1>4. ASSUME NEW p \in RegPc
      PROVE  /\ [reg EXCEPT ![t].pc = p] \in [Task -> RegRec]
             /\ \A l \in 0 .. 2 : [reg EXCEPT ![t].pc = p, ![t].lock = l] \in [Task -> RegRec]
             /\ \A s \in Slots \union {0}, o \in BOOLEAN :
                  [reg EXCEPT ![t].slot = s, ![t].pc = p, ![t].ok = o] \in [Task -> RegRec]
  <2>1. ASSUME NEW r \in RegRec
        PROVE  /\ [r EXCEPT !.pc = p] \in RegRec
               /\ \A l \in 0 .. 2 : [r EXCEPT !.pc = p, !.lock = l] \in RegRec
               /\ \A s \in Slots \union {0}, o \in BOOLEAN :
                    [r EXCEPT !.slot = s, !.pc = p, !.ok = o] \in RegRec
    BY DEF RegRec
  <2> QED
    BY <1>1, <2>1
<1>5. CASE RegCheck(t)
  <2>1. reg' \in [Task -> RegRec]
    <3>1. custom_callbacks_mutex \in 0 .. 2
      BY <1>1
    <3>2. (IF custom_callbacks_mutex = 0 THEN "create" ELSE "lock") \in RegPc
      BY DEF RegPc
    <3> QED
      BY <1>4, <1>5, <3>1, <3>2 DEF RegCheck
  <2> QED
    BY <1>1, <1>5, <2>1, SMTT(60) DEF RegCheck
<1>6. CASE RegCreate(t)
  <2>1. made # 2
    BY <1>6, SMTT(60) DEF RegCreate, LocksMade
  <2>2. reg' \in [Task -> RegRec]
    BY <1>4, <1>6 DEF RegCreate, Goto, RegPc
  <2> QED
    BY <1>1, <1>6, <2>1, <2>2 DEF RegCreate
<1>7. CASE RegLock(t)
  <2>1. reg' \in [Task -> RegRec]
    BY <1>4, <1>7 DEF RegLock, Goto, RegPc
  <2> QED
    BY <1>1, <1>7, <2>1 DEF RegLock
<1>8. CASE RegScan(t)
  <2>1. reg' \in [Task -> RegRec]
    <3>1. Found(reg[t]) \in Slots \union {0}
      BY FoundIs
    <3> QED
      BY <1>4, <1>8, <3>1, ZenonT(60) DEF RegScan, RegPc
  <2> QED
    BY <1>1, <1>8, <2>1, SMTT(60) DEF RegScan
<1>9. CASE RegWrite(t)
  <2>1. reg' \in [Task -> RegRec]
    BY <1>4, <1>9, ZenonT(60) DEF RegWrite, Goto, RegPc
  <2>2. holder' \in [1 .. 2 -> Task \union {"none"}]
    BY <1>1, <1>9 DEF RegWrite
  <2>3. reg[t].id \in Ids
    BY <1>9, Basics DEF RegWrite, Progress, Task
  <2>4. custom_callbacks' \in [Slots -> Ids \union {0}]
    BY <1>1, <1>9, <2>3 DEF RegWrite
  <2>5. registered' \subseteq Ids
    BY <1>1, <1>9, <2>3 DEF RegWrite
  <2> QED
    BY <1>1, <1>9, <2>1, <2>2, <2>4, <2>5 DEF RegWrite
<1> QED
  BY <1>5, <1>6, <1>7, <1>8, <1>9 DEF RegStep

(* Nor does a call of it, ...                                              *)
LEMMA OtherTyped ==
  ASSUME TypeOK, OtherCalls
  PROVE  TypeOK'
<1>1. reg \in [Task -> RegRec] /\ others \in 0 .. MaxOther
  BY DEF TypeOK, RegRec, RegPc
<1>2. PICK id \in OtherIds, add \in BOOLEAN : reg' = [reg EXCEPT !["other"] = StartReg(id, add)]
  BY DEF OtherCalls
<1>3. reg' \in [Task -> RegRec]
  BY <1>1, <1>2, Basics
<1>4. others' \in 0 .. MaxOther
  BY <1>1, Basics DEF OtherCalls
<1>5. UNCHANGED <<custom_callbacks, custom_callbacks_mutex, made, holder, registered, app,
                  s_inflight_mutex, dead, done, call, pending, rx, harm, bad>>
  BY DEF OtherCalls
<1> QED
  BY <1>3, <1>4, <1>5 DEF TypeOK, RegRec, RegPc

(* ... init and deinit, ...                                                *)
LEMMA AppTyped ==
  ASSUME TypeOK, Progress, AppStep
  PROVE  TypeOK'
<1>1. /\ reg \in [Task -> RegRec] /\ app \in AppRec
      /\ s_inflight_mutex \in 0 .. MaxInit /\ dead \subseteq 1 .. MaxInit
      /\ done \in {"none", "live", "dead"}
      /\ harm \subseteq {"deinit_busy", "deinit_twice"} /\ bad \in BOOLEAN
  BY DEF TypeOK, RegRec, RegPc, AppRec
<1>2. UNCHANGED <<custom_callbacks, custom_callbacks_mutex, made, holder, registered, others,
                  call, pending, rx>>
  BY DEF AppStep, InitCall, InitNext, InitReturns, InitFails, DeinitCall, DeinitNext,
         DeinitDelete, DeinitReturns
<1>3. SUFFICES /\ reg' \in [Task -> RegRec] /\ app' \in AppRec
               /\ s_inflight_mutex' \in 0 .. MaxInit /\ dead' \subseteq 1 .. MaxInit
               /\ done' \in {"none", "live", "dead"}
               /\ harm' \subseteq {"deinit_busy", "deinit_twice"} /\ bad' \in BOOLEAN
  BY <1>2 DEF TypeOK, RegRec, RegPc, AppRec
<1>4. \A i \in LibIds : i \in Ids /\ i \in 1 .. NUM_IDS /\ i \in 0 .. NUM_IDS + 1
  BY Basics DEF LibIds
<1>5. \A r \in RegRec : [reg EXCEPT !["app"] = r] \in [Task -> RegRec]
  BY <1>1
<1>6. /\ \A i \in LibIds, add \in BOOLEAN : StartReg(i, add) \in RegRec
      /\ RegIdle \in RegRec
  BY <1>4, Basics
<1>7. CASE InitCall
  <2>1. app.inits + 1 \in 0 .. MaxInit
    BY <1>1, <1>7, Basics DEF InitCall, AppRec
  <2>2. app' \in AppRec
    BY <1>4, <1>7, <2>1, Basics DEF InitCall, AppRec
  <2>3. reg' \in [Task -> RegRec]
    BY <1>5, <1>6, <1>7, Basics DEF InitCall
  <2> QED
    BY <1>1, <1>7, <2>1, <2>2, <2>3 DEF InitCall
<1>8. CASE InitNext
  <2>1. app.next \in LibIds /\ app.next < NUM_IDS
    BY <1>8 DEF InitNext, Progress
  <2>2. app.next + 1 \in LibIds
    BY <2>1, Basics DEF LibIds
  <2>3. app' \in AppRec
    BY <1>1, <1>4, <1>8, <2>2 DEF InitNext, AppRec
  <2>4. reg' \in [Task -> RegRec]
    BY <1>5, <1>6, <1>8, <2>2 DEF InitNext
  <2> QED
    BY <1>1, <1>8, <2>3, <2>4 DEF InitNext
<1>9. CASE InitReturns \/ InitFails
  <2>1. app' \in AppRec
    BY <1>1, <1>9 DEF InitReturns, InitFails, AppRec
  <2>2. reg' \in [Task -> RegRec]
    BY <1>5, <1>6, <1>9 DEF InitReturns, InitFails
  <2> QED
    BY <1>1, <1>9, <2>1, <2>2 DEF InitReturns, InitFails
<1>10. First(DeinitIds) \in LibIds
  BY Basics, FirstIsIn
<1>11. CASE DeinitCall
  <2>1. app' \in AppRec
    BY <1>1, <1>4, <1>10, <1>11 DEF DeinitCall, AppRec
  <2>2. reg' \in [Task -> RegRec]
    BY <1>5, <1>6, <1>10, <1>11 DEF DeinitCall
  <2>3. harm' \subseteq {"deinit_busy", "deinit_twice"}
    BY <1>1, <1>11 DEF DeinitCall
  <2> QED
    BY <1>1, <1>11, <2>1, <2>2, <2>3 DEF DeinitCall
<1>12. CASE DeinitNext
  <2>1. CASE After(app.next) = {}
    <3>1. app' \in AppRec
      BY <1>1, <1>12, <2>1 DEF DeinitNext, AppRec
    <3>2. reg' \in [Task -> RegRec]
      BY <1>5, <1>6, <1>12, <2>1 DEF DeinitNext
    <3> QED
      BY <1>1, <1>12, <3>1, <3>2 DEF DeinitNext
  <2>2. CASE After(app.next) # {}
    <3>1. First(After(app.next)) \in LibIds
      <4>1. After(app.next) \in SUBSET Nat /\ After(app.next) \subseteq LibIds
        BY Basics DEF After
      <4> QED
        BY <2>2, <4>1, FirstIsIn
    <3>2. app' \in AppRec
      BY <1>1, <1>4, <1>12, <2>2, <3>1 DEF DeinitNext, AppRec
    <3>3. reg' \in [Task -> RegRec]
      BY <1>5, <1>6, <1>12, <2>2, <3>1 DEF DeinitNext
    <3> QED
      BY <1>1, <1>12, <3>2, <3>3 DEF DeinitNext
  <2> QED
    BY <2>1, <2>2
<1>13. CASE DeinitDelete
  <2>1. app' \in AppRec
    BY <1>1, <1>13 DEF DeinitDelete, AppRec
  <2>2. /\ dead' \subseteq 1 .. MaxInit /\ s_inflight_mutex' = 0
        /\ UNCHANGED <<reg, done, harm, bad>>
    BY <1>1, <1>13, Basics DEF DeinitDelete
  <2> QED
    BY <1>1, <2>1, <2>2, Basics
<1>14. CASE DeinitReturns
  <2>1. app' \in AppRec
    <3>1. 0 \in 0 .. NUM_IDS + 1
      BY Basics
    <3>2. app' = [app EXCEPT !.pc = "idle", !.next = 0]
      BY <1>14 DEF DeinitReturns
    <3> QED
      BY <1>1, <3>1, <3>2 DEF AppRec
  <2>2. bad' \in BOOLEAN
    BY <1>14 DEF DeinitReturns
  <2> QED
    BY <1>1, <1>14, <2>1, <2>2 DEF DeinitReturns
<1> QED
  BY <1>7, <1>8, <1>9, <1>11, <1>12, <1>13, <1>14 DEF AppStep

(* ... a call ...                                                          *)
LEMMA CallTyped ==
  ASSUME TypeOK, Numbered, CallStep
  PROVE  TypeOK'
<1> DEFINE Answers == [n: 1 .. MaxCalls, id: 1 .. NUM_RESP]
<1>1. /\ call \in [pc: {"idle", "reserve", "wait"}, n: 0 .. MaxCalls]
      /\ pending \subseteq Answers
      /\ harm \subseteq {"deinit_busy", "deinit_twice"} /\ bad \in BOOLEAN
  BY DEF TypeOK
<1>2. UNCHANGED <<custom_callbacks, custom_callbacks_mutex, made, holder, registered, others,
                  reg, app, s_inflight_mutex, dead, done, rx>>
  BY DEF CallStep, CallStart, CallReserve, CallReturns
<1>3. SUFFICES /\ call' \in [pc: {"idle", "reserve", "wait"}, n: 0 .. MaxCalls]
               /\ pending' \subseteq Answers
               /\ harm' \subseteq {"deinit_busy", "deinit_twice"} /\ bad' \in BOOLEAN
  BY <1>2 DEF TypeOK
<1>4. CASE CallStart
  <2>1. call' \in [pc: {"idle", "reserve", "wait"}, n: 0 .. MaxCalls]
    BY <1>1, <1>4, Basics DEF CallStart
  <2>2. harm' \subseteq {"deinit_busy", "deinit_twice"}
    BY <1>1, <1>4 DEF CallStart
  <2> QED
    BY <1>1, <1>4, <2>1, <2>2 DEF CallStart
<1>5. CASE CallReserve \/ CallReturns
  <2>1. bad' \in BOOLEAN
    BY <1>5 DEF CallReserve, CallReturns, Unusable
  <2>2. call' \in [pc: {"idle", "reserve", "wait"}, n: 0 .. MaxCalls] /\ UNCHANGED harm
    BY <1>1, <1>5 DEF CallReserve, CallReturns
  <2>3. pending' \subseteq Answers
    <3>1. CASE CallReserve
      <4>1. PICK answers \in SUBSET [n: {call.n}, id: 1 .. NUM_RESP] :
              pending' = pending \union answers
        BY <3>1 DEF CallReserve
      <4>2. call.n \in 1 .. MaxCalls
        BY <1>1, <3>1 DEF CallReserve, Numbered
      <4> QED
        BY <1>1, <4>1, <4>2
    <3>2. CASE CallReturns
      BY <1>1, <3>2 DEF CallReturns
    <3> QED
      BY <1>5, <3>1, <3>2
  <2> QED
    BY <1>1, <2>1, <2>2, <2>3
<1> QED
  BY <1>4, <1>5 DEF CallStep

(* ... and the receive thread.                                             *)
LEMMA RxTyped ==
  ASSUME TypeOK, RxStep
  PROVE  TypeOK'
<1>1. /\ rx \in RxRec /\ pending \subseteq [n: 1 .. MaxCalls, id: 1 .. NUM_RESP]
      /\ bad \in BOOLEAN /\ made \in 0 .. 2 /\ custom_callbacks_mutex \in 0 .. made
      /\ s_inflight_mutex \in 0 .. MaxInit
  BY DEF TypeOK, RxRec
<1>2. UNCHANGED <<custom_callbacks, custom_callbacks_mutex, made, holder, registered, others,
                  reg, app, s_inflight_mutex, dead, done, call, harm>>
  BY DEF RxStep, RxAnswer, RxLookup, RxEnter, RxReturns
<1>3. SUFFICES /\ rx' \in RxRec /\ pending' \subseteq pending /\ bad' \in BOOLEAN
  BY <1>1, <1>2 DEF TypeOK, RxRec
<1>4. RxIdle \in RxRec
  BY Basics DEF RxIdle, RxRec
<1>5. CASE RxAnswer
  <2>1. PICK a \in pending :
          /\ pending' = pending \ {a}
          /\ rx' = IF custom_callbacks_mutex = 0 THEN RxIdle
                   ELSE [pc |-> "lock", id |-> a.id, n |-> a.n,
                         lock |-> custom_callbacks_mutex]
    BY <1>5 DEF RxAnswer
  <2>2. a.id \in 1 .. NUM_RESP /\ a.n \in 1 .. MaxCalls
    BY <1>1
  <2>3. a.id \in Ids /\ a.n \in 0 .. MaxCalls /\ custom_callbacks_mutex \in 0 .. MaxInit + 2
    BY <1>1, <2>2, Basics DEF LibIds
  <2>4. rx' \in RxRec
    BY <1>4, <2>1, <2>3 DEF RxRec
  <2> QED
    BY <1>1, <1>5, <2>1, <2>4 DEF RxAnswer
<1>6. CASE RxLookup
  <2>1. rx' \in RxRec
    BY <1>1, <1>4, <1>6 DEF RxLookup, RxRec
  <2> QED
    BY <1>1, <1>6, <2>1 DEF RxLookup
<1>7. CASE RxEnter
  <2>1. s_inflight_mutex \in 0 .. MaxInit + 2
    BY <1>1, Basics
  <2>2. rx' \in RxRec
    BY <1>1, <1>7, <2>1 DEF RxEnter, RxRec
  <2>3. bad' \in BOOLEAN
    BY <1>7 DEF RxEnter, Unusable
  <2> QED
    BY <1>7, <2>2, <2>3 DEF RxEnter
<1>8. CASE RxReturns
  <2>1. bad' \in BOOLEAN
    BY <1>8 DEF RxReturns, Unusable
  <2> QED
    BY <1>4, <1>8, <2>1 DEF RxReturns
<1> QED
  BY <1>5, <1>6, <1>7, <1>8 DEF RxStep

-----------------------------------------------------------------------------
(* The registry.                                                           *)

(* A search only looks at the registry, and at what is asked.              *)
LEMMA SameFound ==
  ASSUME UNCHANGED custom_callbacks, NEW u, reg'[u].id = reg[u].id, reg'[u].add = reg[u].add
  PROVE  Found(reg[u])' = Found(reg[u])
<1>1. \A id : Holding(id)' = Holding(id)
  BY DEF Holding
<1> QED
  BY <1>1 DEF Found, Holding

(* What a step of the registry does to the task's call.                    *)
LEMMA RegFacts ==
  ASSUME TypeOK, NEW t \in Task, RegStep(t)
  PROVE  /\ \A u \in Task \ {t} : reg'[u] = reg[u]
         /\ reg'[t].id = reg[t].id /\ reg'[t].add = reg[t].add /\ reg[t].pc # "idle"
         /\ RegCheck(t) => /\ reg'[t].pc = IF custom_callbacks_mutex = 0 THEN "create" ELSE "lock"
                           /\ reg'[t].lock = custom_callbacks_mutex
         /\ RegCreate(t) => reg'[t].pc = "check"
         /\ RegLock(t) => reg'[t].pc = "scan" /\ reg'[t].lock = reg[t].lock
         /\ RegScan(t) => /\ reg'[t].pc = "write" /\ reg'[t].lock = reg[t].lock
                          /\ reg'[t].slot = Found(reg[t])
                          /\ reg'[t].ok <=> Found(reg[t]) # 0
         /\ RegWrite(t) => reg'[t].pc = "return" /\ reg'[t].ok = reg[t].ok
<1>1. reg \in [Task -> RegRec]
  BY DEF TypeOK, RegRec, RegPc
<1>2. reg[t] \in RegRec
  BY <1>1
<1>4. CASE RegCheck(t)
  <2> DEFINE p == IF custom_callbacks_mutex = 0 THEN "create" ELSE "lock"
  <2>1. /\ reg' = [reg EXCEPT ![t].pc = p, ![t].lock = custom_callbacks_mutex]
        /\ reg[t].pc = "check"
    BY <1>4 DEF RegCheck
  <2> HIDE DEF p
  <2>2. reg'[t] = [reg[t] EXCEPT !.pc = p, !.lock = custom_callbacks_mutex]
    BY <1>1, <2>1
  <2>3. /\ reg'[t].pc = p /\ reg'[t].lock = custom_callbacks_mutex
        /\ reg'[t].id = reg[t].id /\ reg'[t].add = reg[t].add
    BY <1>2, <2>2 DEF RegRec
  <2>4. \A u \in Task \ {t} : reg'[u] = reg[u]
    BY <1>1, <2>1
  <2> QED
    BY <1>4, <2>1, <2>3, <2>4
       DEF p, RegCheck, RegCreate, RegLock, RegScan, RegWrite
<1>5. CASE RegCreate(t) \/ RegLock(t) \/ RegWrite(t)
  <2>1. /\ reg[t].pc \in {"create", "lock", "write"}
        /\ \E p : reg' = [reg EXCEPT ![t].pc = p]
        /\ RegCreate(t) => reg' = [reg EXCEPT ![t].pc = "check"]
        /\ RegLock(t) => reg' = [reg EXCEPT ![t].pc = "scan"]
        /\ RegWrite(t) => reg' = [reg EXCEPT ![t].pc = "return"]
    BY <1>5 DEF RegCreate, RegLock, RegWrite, Goto
  <2>2. /\ \E p : reg'[t] = [reg[t] EXCEPT !.pc = p]
        /\ RegCreate(t) => reg'[t] = [reg[t] EXCEPT !.pc = "check"]
        /\ RegLock(t) => reg'[t] = [reg[t] EXCEPT !.pc = "scan"]
        /\ RegWrite(t) => reg'[t] = [reg[t] EXCEPT !.pc = "return"]
    BY <1>1, <2>1
  <2>3. /\ reg'[t].id = reg[t].id /\ reg'[t].add = reg[t].add /\ reg'[t].lock = reg[t].lock
        /\ reg'[t].ok = reg[t].ok
        /\ RegCreate(t) => reg'[t].pc = "check"
        /\ RegLock(t) => reg'[t].pc = "scan"
        /\ RegWrite(t) => reg'[t].pc = "return"
    <3>1. PICK p : reg'[t] = [reg[t] EXCEPT !.pc = p]
      BY <2>2
    <3>2. /\ reg'[t].id = reg[t].id /\ reg'[t].add = reg[t].add /\ reg'[t].lock = reg[t].lock
          /\ reg'[t].ok = reg[t].ok
      BY <1>2, <3>1 DEF RegRec
    <3>3. /\ RegCreate(t) => reg'[t].pc = "check"
          /\ RegLock(t) => reg'[t].pc = "scan"
          /\ RegWrite(t) => reg'[t].pc = "return"
      BY <1>2, <2>2 DEF RegRec
    <3> QED
      BY <3>2, <3>3
  <2>4. \A u \in Task \ {t} : reg'[u] = reg[u]
    BY <1>1, <2>1
  <2>5. ~RegCheck(t) /\ ~RegScan(t)
    BY <2>1 DEF RegCheck, RegScan
  <2> QED
    BY <2>1, <2>3, <2>4, <2>5
<1>6. CASE RegScan(t)
  <2> DEFINE f == Found(reg[t])
             o == f # 0
  <2>1. reg' = [reg EXCEPT ![t].slot = f, ![t].pc = "write", ![t].ok = o] /\ reg[t].pc = "scan"
    BY <1>6 DEF RegScan
  <2>2. o \in BOOLEAN
    OBVIOUS
  <2> HIDE DEF f, o
  <2>3. reg'[t] = [reg[t] EXCEPT !.slot = f, !.pc = "write", !.ok = o]
    BY <1>1, <2>1
  <2>4. /\ reg'[t].pc = "write" /\ reg'[t].lock = reg[t].lock /\ reg'[t].slot = f
        /\ reg'[t].ok = o /\ reg'[t].id = reg[t].id /\ reg'[t].add = reg[t].add
    BY <1>2, <2>3 DEF RegRec
  <2>5. \A u \in Task \ {t} : reg'[u] = reg[u]
    BY <1>1, <2>1
  <2>6. ~RegCheck(t) /\ ~RegCreate(t) /\ ~RegLock(t) /\ ~RegWrite(t)
    BY <2>1 DEF RegCheck, RegCreate, RegLock, RegWrite
  <2>7. reg'[t].ok <=> Found(reg[t]) # 0
    BY <2>4 DEF f, o
  <2>8. reg'[t].slot = Found(reg[t])
    BY <2>4 DEF f
  <2> QED
    BY <2>1, <2>4, <2>5, <2>6, <2>7, <2>8
<1> QED
  BY <1>4, <1>5, <1>6 DEF RegStep

(* Steps that leave the registry alone, and at most begin a call of it or  *)
(* forget one, keep what is said of it.                                    *)
LEMMA QuietRegistry ==
  ASSUME LocksMade, Exclusive, Kept, UNCHANGED regVars,
         \A u \in Task : reg'[u] = reg[u] \/ reg'[u].pc \in {"check", "idle"}
  PROVE  LocksMade' /\ Exclusive' /\ Kept'
<1>1. LocksMade'
  BY DEF LocksMade
<1>2. Kept'
  BY DEF Kept, TwoLocks
<1>3. Exclusive'
  <2> SUFFICES ASSUME ~TwoLocks', NEW t \in Task
               PROVE  /\ reg'[t].pc \in {"scan", "write"} => holder'[1] = t
                      /\ reg'[t].pc = "write" => /\ reg'[t].slot = Found(reg[t])'
                                                 /\ reg'[t].ok <=> reg'[t].slot # 0
    BY DEF Exclusive
  <2>1. CASE reg'[t].pc \in {"check", "idle"}
    BY <2>1
  <2>2. CASE reg'[t] = reg[t]
    <3>1. Found(reg[t])' = Found(reg[t])
      BY <2>2, SameFound
    <3> QED
      BY <2>2, <3>1 DEF Exclusive, TwoLocks
  <2> QED
    BY <2>1, <2>2
<1> QED
  BY <1>1, <1>2, <1>3

(* No third lock is made.                                                  *)
LEMMA LocksKept ==
  ASSUME TypeOK, LocksMade, NEW t \in Task, RegStep(t)
  PROVE  LocksMade'
<1>1. made \in 0 .. 2 /\ custom_callbacks_mutex \in 0 .. made /\ Task = {"app", "other"}
  BY DEF TypeOK, Task
<1>2. \A u \in Task \ {t} : reg'[u] = reg[u]
  BY RegFacts
<1>3. CASE RegCheck(t)
  <2>1. UNCHANGED <<made, custom_callbacks_mutex>>
    BY <1>3 DEF RegCheck
  <2> QED
    BY <1>1, <1>2, <1>3, <2>1, RegFacts DEF LocksMade
<1>4. CASE RegCreate(t)
  <2>1. /\ made' = made + 1 /\ custom_callbacks_mutex' = made + 1 /\ reg[t].pc = "create"
        /\ reg'[t].pc = "check"
    BY <1>4, RegFacts DEF RegCreate
  <2> QED
    BY <1>1, <1>2, <2>1 DEF LocksMade
<1>5. CASE RegLock(t) \/ RegScan(t)
  <2>1. /\ UNCHANGED <<made, custom_callbacks_mutex>> /\ reg[t].pc \in {"lock", "scan"}
        /\ reg'[t].pc \in {"scan", "write"} /\ reg'[t].lock = reg[t].lock
    BY <1>5, RegFacts DEF RegLock, RegScan
  <2> QED
    BY <1>1, <1>2, <2>1, SMTT(60) DEF LocksMade
<1>6. CASE RegWrite(t)
  <2>1. UNCHANGED <<made, custom_callbacks_mutex>> /\ reg'[t].pc = "return"
    BY <1>6, RegFacts DEF RegWrite
  <2> QED
    BY <1>1, <1>2, <2>1 DEF LocksMade
<1> QED
  BY <1>3, <1>4, <1>5, <1>6 DEF RegStep

(* One lock keeps the two tasks apart.                                     *)
LEMMA ExclusiveKept ==
  ASSUME TypeOK, LocksMade, Exclusive, NEW t \in Task, RegStep(t)
  PROVE  Exclusive'
<1> SUFFICES ASSUME ~TwoLocks', NEW u \in Task
             PROVE  /\ reg'[u].pc \in {"scan", "write"} => holder'[1] = u
                    /\ reg'[u].pc = "write" => /\ reg'[u].slot = Found(reg[u])'
                                               /\ reg'[u].ok <=> reg'[u].slot # 0
  BY DEF Exclusive
<1>1. /\ made \in 0 .. 2 /\ holder \in [1 .. 2 -> Task \union {"none"}]
      /\ custom_callbacks_mutex \in 0 .. made
  BY DEF TypeOK
<1>2. ~TwoLocks
  BY <1>1 DEF TwoLocks, RegStep, RegCheck, RegCreate, RegLock, RegScan, RegWrite
<1>3. \A v \in Task : /\ reg[v].pc \in {"scan", "write"} => holder[1] = v
                      /\ reg[v].pc = "write" => /\ reg[v].slot = Found(reg[v])
                                                /\ reg[v].ok <=> reg[v].slot # 0
  BY <1>2 DEF Exclusive
<1>4. \A v \in Task \ {t} : reg'[v] = reg[v]
  BY RegFacts
<1>5. \A v \in Task : v # "none"
  BY DEF Task
<1>6. ASSUME UNCHANGED <<custom_callbacks, holder>>, u # t
      PROVE  /\ reg'[u].pc \in {"scan", "write"} => holder'[1] = u
             /\ reg'[u].pc = "write" => /\ reg'[u].slot = Found(reg[u])'
                                        /\ reg'[u].ok <=> reg'[u].slot # 0
  <2>1. reg'[u] = reg[u]
    BY <1>4, <1>6
  <2>2. Found(reg[u])' = Found(reg[u])
    BY <1>6, <2>1, SameFound
  <2> QED
    BY <1>3, <1>6, <2>1, <2>2
<1>7. CASE RegCheck(t) \/ RegCreate(t)
  <2>1. UNCHANGED <<custom_callbacks, holder>> /\ reg'[t].pc \in {"create", "lock", "check"}
    BY <1>7, RegFacts DEF RegCheck, RegCreate
  <2> QED
    BY <1>6, <2>1
<1>8. CASE RegLock(t)
  <2>1. /\ reg[t].pc = "lock" /\ holder[reg[t].lock] = "none" /\ reg'[t].pc = "scan"
        /\ holder' = [holder EXCEPT ![reg[t].lock] = t] /\ UNCHANGED <<custom_callbacks, made>>
    BY <1>8, RegFacts DEF RegLock
  <2>2. reg[t].lock = 1
    BY <1>1, <1>2, <2>1 DEF LocksMade, TwoLocks
  <2>3. holder[1] = "none" /\ holder'[1] = t
    BY <1>1, <2>1, <2>2
  <2>4. CASE u = t
    BY <2>1, <2>3, <2>4
  <2>5. CASE u # t
    <3>1. reg'[u] = reg[u] /\ reg[u].pc \notin {"scan", "write"}
      BY <1>3, <1>4, <1>5, <2>3, <2>5
    <3> QED
      BY <3>1
  <2> QED
    BY <2>4, <2>5
<1>9. CASE RegScan(t)
  <2>1. /\ reg[t].pc = "scan" /\ UNCHANGED <<custom_callbacks, holder>>
        /\ reg'[t].slot = Found(reg[t]) /\ (reg'[t].ok <=> Found(reg[t]) # 0)
    BY <1>9, RegFacts DEF RegScan
  <2>2. Found(reg[t])' = Found(reg[t])
    BY <2>1, RegFacts, SameFound
  <2>3. holder'[1] = t
    BY <1>3, <2>1
  <2> QED
    BY <1>6, <2>1, <2>2, <2>3
<1>10. CASE RegWrite(t)
  <2>1. reg[t].pc = "write" /\ reg'[t].pc = "return"
    BY <1>10, RegFacts DEF RegWrite
  <2>2. CASE u = t
    BY <2>1, <2>2
  <2>3. CASE u # t
    <3>1. reg'[u] = reg[u] /\ reg[u].pc \notin {"scan", "write"}
      BY <1>3, <1>4, <2>1, <2>3
    <3> QED
      BY <3>1
  <2> QED
    BY <2>2, <2>3
<1> QED
  BY <1>7, <1>8, <1>9, <1>10 DEF RegStep

(* What is written is what was found.                                      *)
LEMMA RegistryStays ==
  ASSUME TypeOK, LocksMade, Exclusive, Kept, Progress, NEW t \in Task, RegStep(t)
  PROVE  Kept'
<1>1. CASE ~RegWrite(t)
  <2>1. UNCHANGED <<custom_callbacks, registered>> /\ (made' = made \/ made' = made + 1)
    BY <1>1 DEF RegStep, RegCheck, RegCreate, RegLock, RegScan
  <2>2. made \in Nat
    BY DEF TypeOK
  <2> QED
    BY <2>1, <2>2 DEF Kept, TwoLocks
<1>2. CASE RegWrite(t)
  <2> DEFINE s == reg[t].slot
             n == reg[t].id
             a == reg[t].add
  <2>1. reg[t].pc = "write" /\ UNCHANGED made
    BY <1>2 DEF RegWrite
  <2> SUFFICES ASSUME ~TwoLocks
               PROVE  /\ \A i \in Slots : custom_callbacks'[i] # 0 =>
                           custom_callbacks'[i] \in registered'
                      /\ \A id \in registered' : \E i \in Slots : custom_callbacks'[i] = id
                      /\ \A i, j \in Slots :
                           custom_callbacks'[i] # 0 /\ custom_callbacks'[i] = custom_callbacks'[j]
                             => i = j
    BY <2>1 DEF Kept, TwoLocks
  <2>2. /\ \A i \in Slots : custom_callbacks[i] # 0 => custom_callbacks[i] \in registered
        /\ \A id \in registered : \E i \in Slots : custom_callbacks[i] = id
        /\ \A i, j \in Slots :
             custom_callbacks[i] # 0 /\ custom_callbacks[i] = custom_callbacks[j] => i = j
    BY DEF Kept
  <2>3. s = Found(reg[t]) /\ (reg[t].ok <=> s # 0)
    BY <2>1 DEF Exclusive
  <2>4. n # 0
    BY <2>1, Basics DEF Progress, Task
  <2>5. DOMAIN custom_callbacks = Slots /\ 0 \notin registered
    BY Basics DEF TypeOK
  <2>6. CASE ~reg[t].ok
    BY <1>2, <2>2, <2>6 DEF RegWrite
  <2>7. CASE reg[t].ok
    <3>1. /\ s \in Slots
          /\ \/ custom_callbacks[s] = n
             \/ a /\ custom_callbacks[s] = 0 /\ Holding(n) = {}
      BY <2>3, <2>7, FoundIs
    <3>2. CASE a
      <4>1. /\ custom_callbacks' = [custom_callbacks EXCEPT ![s] = n]
            /\ registered' = registered \union {n}
        BY <1>2, <2>7, <3>2 DEF RegWrite
      <4>2. /\ custom_callbacks'[s] = n
            /\ \A i \in Slots \ {s} : custom_callbacks'[i] = custom_callbacks[i]
        BY <2>5, <3>1, <4>1
      <4>3. \A i \in Slots \ {s} : custom_callbacks[i] # n
        BY <2>2, <2>4, <3>1 DEF Holding
      <4>4. custom_callbacks[s] \in {0, n}
        BY <3>1
      <4>5. \A i, j \in Slots :
              custom_callbacks'[i] # 0 /\ custom_callbacks'[i] = custom_callbacks'[j] => i = j
        BY <2>2, <4>2, <4>3
      <4>6. \A id \in registered' : \E i \in Slots : custom_callbacks'[i] = id
        BY <2>2, <2>5, <3>1, <4>1, <4>2, <4>4
      <4>7. \A i \in Slots : custom_callbacks'[i] # 0 => custom_callbacks'[i] \in registered'
        BY <2>2, <4>1, <4>2
      <4> QED
        BY <4>5, <4>6, <4>7
    <3>3. CASE ~a
      <4>1. /\ custom_callbacks' = [custom_callbacks EXCEPT ![s] = 0]
            /\ registered' = registered \ {n} /\ custom_callbacks[s] = n
        BY <1>2, <2>7, <3>1, <3>3 DEF RegWrite
      <4>2. /\ custom_callbacks'[s] = 0
            /\ \A i \in Slots \ {s} : custom_callbacks'[i] = custom_callbacks[i]
        BY <2>5, <3>1, <4>1
      <4>3. \A i \in Slots \ {s} : custom_callbacks[i] # n
        BY <2>2, <2>4, <3>1, <4>1
      <4>4. \A i, j \in Slots :
              custom_callbacks'[i] # 0 /\ custom_callbacks'[i] = custom_callbacks'[j] => i = j
        BY <2>2, <4>2
      <4>5. \A id \in registered' : \E i \in Slots : custom_callbacks'[i] = id
        BY <2>2, <4>1, <4>2
      <4>6. \A i \in Slots : custom_callbacks'[i] # 0 => custom_callbacks'[i] \in registered'
        BY <2>2, <4>1, <4>2, <4>3
      <4> QED
        BY <4>4, <4>5, <4>6
    <3> QED
      BY <3>2, <3>3
  <2> QED
    BY <2>6, <2>7
<1> QED
  BY <1>1, <1>2

-----------------------------------------------------------------------------
(* What init has registered.                                               *)

(* A step of the registry serves one call of one task.                     *)
LEMMA RegProgress ==
  ASSUME TypeOK, Progress, NEW t \in Task, RegStep(t)
  PROVE  Progress'
<1>1. /\ \A u \in Task \ {t} : reg'[u] = reg[u]
      /\ reg'[t].id = reg[t].id /\ reg'[t].add = reg[t].add /\ reg[t].pc # "idle"
  BY RegFacts
<1>2. UNCHANGED app
  BY DEF RegStep, RegCheck, RegCreate, RegLock, RegScan, RegWrite
<1>3. Task = {"app", "other"} /\ LibIds \intersect OtherIds = {}
  BY Basics DEF Task
<1>4. CASE ~RegWrite(t)
  <2>1. UNCHANGED registered /\ reg'[t].pc # "return"
    BY <1>4, RegFacts, ZenonT(60) DEF RegStep, RegCheck, RegCreate, RegLock, RegScan
  <2> QED
    BY <1>1, <1>2, <1>3, <2>1, SMTT(60) DEF Progress
<1>5. CASE RegWrite(t)
  <2>1. /\ reg'[t].ok = reg[t].ok
        /\ \/ UNCHANGED registered
           \/ reg[t].add /\ registered' = registered \union {reg[t].id}
           \/ ~reg[t].add /\ registered' = registered \ {reg[t].id}
        /\ reg[t].ok /\ reg[t].add => registered' = registered \union {reg[t].id}
    BY <1>5, RegFacts DEF RegWrite
  <2>2. CASE t = "app"
    BY <1>1, <1>2, <1>3, <2>1, <2>2 DEF Progress
  <2>3. CASE t = "other"
    <3>1. reg[t].id \in OtherIds /\ UNCHANGED app /\ reg'["app"] = reg["app"]
      BY <1>1, <1>2, <1>3, <2>3 DEF Progress
    <3>2. \A i \in LibIds : i \in registered' <=> i \in registered
      BY <1>3, <2>1, <3>1
    <3>3. app.pc = "init" => 1 .. (app.next - 1) \subseteq LibIds
      BY Basics DEF Progress, LibIds
    <3> QED
      BY <1>1, <2>3, <3>1, <3>2, <3>3 DEF Progress
  <2> QED
    BY <1>3, <2>2, <2>3
<1> QED
  BY <1>4, <1>5

(* Init and deinit go through their messages.                              *)
LEMMA AppProgress ==
  ASSUME TypeOK, Progress, AppStep
  PROVE  /\ Progress'
         /\ reg'["other"] = reg["other"]
         /\ reg'["app"] = reg["app"] \/ reg'["app"].pc \in {"check", "idle"}
<1>1. reg \in [Task -> RegRec] /\ app \in AppRec /\ "app" \in Task /\ "other" \in Task
  BY DEF TypeOK, RegRec, RegPc, AppRec, Task
<1>2. UNCHANGED registered
  BY DEF AppStep, InitCall, InitNext, InitReturns, InitFails, DeinitCall, DeinitNext,
         DeinitDelete, DeinitReturns
<1>3. ASSUME NEW r, reg' = [reg EXCEPT !["app"] = r]
      PROVE  reg'["app"] = r /\ reg'["other"] = reg["other"]
  BY <1>1, <1>3
<1>4. reg["other"].pc # "idle" => reg["other"].id \in OtherIds
  BY DEF Progress
<1>5. RegIdle.pc = "idle" /\ TRUE \in BOOLEAN /\ FALSE \in BOOLEAN
  BY Basics
<1>6. \A i \in LibIds, add \in BOOLEAN :
        /\ StartReg(i, add).pc = "check" /\ StartReg(i, add).id = i
        /\ StartReg(i, add).add = add /\ StartReg(i, add).ok = FALSE
  BY Basics
<1>7. CASE InitCall
  <2>1. /\ app'.pc = "init" /\ app'.next = 1 /\ app'.result = "none"
        /\ reg'["app"] = StartReg(1, TRUE) /\ reg'["other"] = reg["other"]
    BY <1>3, <1>7 DEF InitCall
  <2>2. 1 \in LibIds
    BY Basics
  <2>3. /\ reg'["app"].pc = "check" /\ reg'["app"].id = 1 /\ reg'["app"].add
    BY <1>5, <1>6, <2>1, <2>2
  <2>4. 1 .. (app'.next - 1) \subseteq registered'
    BY <2>1
  <2> QED
    BY <1>4, <2>1, <2>2, <2>3, <2>4 DEF Progress
<1>8. CASE InitNext
  <2>1. /\ app.pc = "init" /\ reg["app"].pc = "return" /\ reg["app"].ok /\ app.next < NUM_IDS
        /\ app' = [app EXCEPT !.next = @ + 1]
        /\ reg'["app"] = StartReg(app.next + 1, TRUE) /\ reg'["other"] = reg["other"]
    BY <1>3, <1>8 DEF InitNext
  <2>2. app'.pc = "init" /\ app'.next = app.next + 1 /\ app'.result = app.result
    BY <1>1, <2>1 DEF AppRec
  <2>3. /\ app.next \in LibIds /\ 1 .. (app.next - 1) \subseteq registered
        /\ app.next \in registered /\ app.result # "ESP_OK"
    BY <2>1 DEF Progress
  <2>4. app.next + 1 \in LibIds /\ 1 .. app'.next - 1 \subseteq registered
    BY <2>1, <2>2, <2>3, Basics DEF LibIds
  <2>5. /\ reg'["app"].pc = "check" /\ reg'["app"].id = app.next + 1 /\ reg'["app"].add
    BY <1>5, <1>6, <2>1, <2>4, ZenonT(60)
  <2> QED
    BY <1>2, <1>4, <2>1, <2>2, <2>3, <2>4, <2>5 DEF Progress
<1>9. CASE InitReturns
  <2>1. /\ app.pc = "init" /\ reg["app"].pc = "return" /\ reg["app"].ok /\ app.next = NUM_IDS
        /\ app' = [app EXCEPT !.pc = "idle", !.result = "ESP_OK"]
        /\ reg'["app"] = RegIdle /\ reg'["other"] = reg["other"]
    BY <1>3, <1>9 DEF InitReturns
  <2>2. app'.pc = "idle"
    BY <1>1, <2>1 DEF AppRec
  <2>3. LibIds \subseteq registered
    BY <2>1, Basics DEF Progress, LibIds
  <2> QED
    BY <1>2, <1>4, <1>5, <2>1, <2>2, <2>3 DEF Progress
<1>10. CASE InitFails
  <2>1. /\ app' = [app EXCEPT !.result = "FAIL",
                              !.pc = IF app.next <= NUM_RESP THEN "idle" ELSE "abort"]
        /\ reg'["app"] = RegIdle /\ reg'["other"] = reg["other"]
    BY <1>3, <1>10 DEF InitFails
  <2>2. app'.pc \in {"idle", "abort"} /\ app'.result = "FAIL"
    BY <1>1, <2>1 DEF AppRec
  <2> QED
    BY <1>4, <1>5, <2>1, <2>2 DEF Progress
<1>11. CASE DeinitCall
  <2>1. /\ app' = [app EXCEPT !.pc = "deinit", !.next = First(DeinitIds), !.result = "none"]
        /\ reg'["app"] = StartReg(First(DeinitIds), FALSE) /\ reg'["other"] = reg["other"]
    BY <1>3, <1>11 DEF DeinitCall
  <2>2. app'.pc = "deinit" /\ app'.next = First(DeinitIds) /\ app'.result = "none"
    BY <1>1, <2>1 DEF AppRec
  <2>3. First(DeinitIds) \in LibIds
    BY Basics, FirstIsIn
  <2>4. reg'["app"].pc = "check" /\ reg'["app"].id = app'.next /\ ~reg'["app"].add
    BY <1>5, <1>6, <2>1, <2>2, <2>3, ZenonT(60)
  <2> QED
    BY <1>4, <2>1, <2>2, <2>3, <2>4 DEF Progress
<1>12. CASE DeinitNext
  <2>1. app.pc = "deinit" /\ app.result # "ESP_OK"
    BY <1>12 DEF DeinitNext, Progress
  <2>2. CASE After(app.next) = {}
    <3>1. /\ app' = [app EXCEPT !.pc = "delete"]
          /\ reg'["app"] = RegIdle /\ reg'["other"] = reg["other"]
      BY <1>3, <1>12, <2>2 DEF DeinitNext
    <3>2. app'.pc = "delete" /\ app'.result = app.result
      BY <1>1, <3>1 DEF AppRec
    <3> QED
      BY <1>4, <1>5, <2>1, <3>1, <3>2 DEF Progress
  <2>3. CASE After(app.next) # {}
    <3> DEFINE i == First(After(app.next))
    <3>1. /\ app' = [app EXCEPT !.next = i]
          /\ reg'["app"] = StartReg(i, FALSE) /\ reg'["other"] = reg["other"]
      BY <1>3, <1>12, <2>3 DEF DeinitNext
    <3>2. i \in LibIds
      <4>1. After(app.next) \in SUBSET Nat /\ After(app.next) \subseteq LibIds
        BY Basics DEF After
      <4> QED
        BY <2>3, <4>1, FirstIsIn
    <3>3. app'.pc = "deinit" /\ app'.next = i /\ app'.result = app.result
      BY <1>1, <2>1, <3>1 DEF AppRec
    <3>4. reg'["app"].pc = "check" /\ reg'["app"].id = i /\ ~reg'["app"].add
      BY <1>5, <1>6, <3>1, <3>2
    <3> QED
      BY <1>4, <2>1, <3>1, <3>2, <3>3, <3>4 DEF Progress
  <2> QED
    BY <2>2, <2>3
<1>13. CASE DeinitDelete \/ DeinitReturns
  <2>1. /\ app.pc \in {"delete", "clear"} /\ reg' = reg
        /\ \/ app' = [app EXCEPT !.pc = "clear"]
           \/ app' = [app EXCEPT !.pc = "idle", !.next = 0]
    BY <1>13 DEF DeinitDelete, DeinitReturns
  <2>2. app'.pc \in {"clear", "idle"} /\ app'.result = app.result
    BY <1>1, <2>1 DEF AppRec
  <2>3. app.result # "ESP_OK" /\ reg["app"].pc = "idle"
    BY <2>1 DEF Progress
  <2> QED
    BY <1>4, <2>1, <2>2, <2>3 DEF Progress
<1> QED
  BY <1>7, <1>8, <1>9, <1>10, <1>11, <1>12, <1>13 DEF AppStep

(* The other task registers messages that are not the library's.           *)
LEMMA OtherProgress ==
  ASSUME TypeOK, Progress, OtherCalls
  PROVE  /\ Progress'
         /\ reg'["app"] = reg["app"]
         /\ reg'["other"].pc = "check"
<1>1. reg \in [Task -> RegRec] /\ "app" \in Task /\ "other" \in Task
  BY DEF TypeOK, RegRec, RegPc, Task
<1>2. PICK id \in OtherIds, add \in BOOLEAN : reg' = [reg EXCEPT !["other"] = StartReg(id, add)]
  BY DEF OtherCalls
<1>3. reg'["app"] = reg["app"] /\ reg'["other"] = StartReg(id, add)
  BY <1>1, <1>2
<1>4. reg'["other"].pc = "check" /\ reg'["other"].id = id
  BY <1>3, Basics
<1>5. UNCHANGED <<app, registered>>
  BY DEF OtherCalls
<1> QED
  BY <1>3, <1>4, <1>5 DEF Progress

-----------------------------------------------------------------------------
(* The library's lock and semaphores.                                      *)

(* A deleted one has no handle any more.                                   *)
LEMMA LivesKept ==
  ASSUME TypeOK, LockLives, AppStep
  PROVE  LockLives'
<1>1. app \in AppRec /\ s_inflight_mutex \in Nat /\ MaxInit \in Nat
  BY Basics DEF TypeOK, AppRec
<1>2. app.inits \in Nat
  BY <1>1 DEF AppRec
<1>3. CASE InitCall
  <2>1. /\ s_inflight_mutex' = app.inits + 1 /\ done' = "live" /\ UNCHANGED dead
        /\ app'.inits = app.inits + 1 /\ app'.pc = "init"
    BY <1>3 DEF InitCall
  <2> QED
    BY <1>2, <2>1 DEF LockLives
<1>4. CASE InitNext \/ InitReturns \/ InitFails \/ DeinitCall \/ DeinitNext
  <2>1. app'.inits = app.inits /\ app'.pc # "clear"
    <3>1. CASE InitNext
      BY <1>1, <3>1 DEF InitNext, AppRec
    <3>2. CASE InitReturns \/ InitFails
      BY <1>1, <3>2 DEF InitReturns, InitFails, AppRec
    <3>3. CASE DeinitCall
      BY <1>1, <3>3 DEF DeinitCall, AppRec
    <3>4. CASE DeinitNext
      BY <1>1, <3>4 DEF DeinitNext, AppRec
    <3> QED
      BY <1>4, <3>1, <3>2, <3>3, <3>4
  <2>2. UNCHANGED <<s_inflight_mutex, done, dead>>
    BY <1>4 DEF InitNext, InitReturns, InitFails, DeinitCall, DeinitNext
  <2> QED
    BY <2>1, <2>2 DEF LockLives
<1>5. CASE DeinitDelete
  <2>1. /\ dead' = dead \union ({s_inflight_mutex} \ {0}) /\ s_inflight_mutex' = 0
        /\ app'.inits = app.inits
    BY <1>1, <1>5 DEF DeinitDelete, AppRec
  <2> QED
    BY <1>1, <1>2, <2>1 DEF LockLives
<1>6. CASE DeinitReturns
  <2>1. /\ app.pc = "clear" /\ UNCHANGED <<s_inflight_mutex, dead>>
        /\ app'.inits = app.inits /\ app'.pc = "idle"
    BY <1>1, <1>6 DEF DeinitReturns, AppRec
  <2> QED
    BY <2>1 DEF LockLives
<1> QED
  BY <1>3, <1>4, <1>5, <1>6 DEF AppStep

(* Init and deinit as the application should call them do no harm.         *)
LEMMA AppHarmless ==
  ASSUME TypeOK, Progress, LockLives, Harmless, AppStep
  PROVE  Harmless'
<1> SUFFICES ASSUME harm' = {}
             PROVE  /\ ~bad'
                    /\ Busy' => s_inflight_mutex' # 0 /\ app'.pc \notin Tearing
                    /\ app'.pc \in Tearing => done' # "dead"
                    /\ rx'.pc = "inside" => rx'.lock = s_inflight_mutex'
  BY DEF Harmless, Tearing
<1>1. app \in AppRec
  BY DEF TypeOK, AppRec
<1>2. UNCHANGED <<call, pending, rx>> /\ Busy' = Busy
  BY DEF AppStep, InitCall, InitNext, InitReturns, InitFails, DeinitCall, DeinitNext,
         DeinitDelete, DeinitReturns, Busy
<1>3. harm = {}
  BY DEF AppStep, InitCall, InitNext, InitReturns, InitFails, DeinitCall, DeinitNext,
         DeinitDelete, DeinitReturns
<1>4. /\ ~bad /\ (Busy => s_inflight_mutex # 0 /\ app.pc \notin Tearing)
      /\ app.pc \in Tearing => done # "dead"
      /\ rx.pc = "inside" => rx.lock = s_inflight_mutex
  BY <1>3 DEF Harmless
<1>5. rx.pc = "inside" => Busy
  BY DEF Busy
<1>6. CASE InitCall
  <2>1. s_inflight_mutex = 0 /\ ~Busy
    BY <1>4, <1>6 DEF InitCall
  <2>2. app'.pc = "init" /\ UNCHANGED bad
    BY <1>6 DEF InitCall
  <2> QED
    BY <1>2, <1>4, <1>5, <2>1, <2>2 DEF Tearing
<1>7. CASE InitNext \/ InitReturns \/ InitFails
  <2>1. app'.pc \notin Tearing
    <3>1. CASE InitNext
      BY <1>1, <3>1 DEF InitNext, AppRec, Tearing
    <3>2. CASE InitReturns \/ InitFails
      BY <1>1, <3>2 DEF InitReturns, InitFails, AppRec, Tearing
    <3> QED
      BY <1>7, <3>1, <3>2
  <2>2. UNCHANGED <<s_inflight_mutex, bad>>
    BY <1>7 DEF InitNext, InitReturns, InitFails
  <2> QED
    BY <1>2, <1>4, <2>1, <2>2
<1>8. CASE DeinitCall
  <2>1. /\ ~Busy /\ done # "dead" /\ UNCHANGED <<s_inflight_mutex, done, bad>>
    BY <1>8 DEF DeinitCall, Busy
  <2> QED
    BY <1>2, <1>4, <1>5, <2>1
<1>9. CASE DeinitNext \/ DeinitDelete
  <2>1. app.pc \in Tearing /\ UNCHANGED <<done, bad>>
    BY <1>9 DEF DeinitNext, DeinitDelete, Tearing
  <2> QED
    BY <1>2, <1>4, <1>5, <2>1
<1>10. CASE DeinitReturns
  <2>1. app.pc \in Tearing /\ bad' = (done = "dead") /\ app'.pc = "idle"
    BY <1>1, <1>10 DEF DeinitReturns, AppRec, Tearing
  <2>2. ~bad'
    BY <1>4, <2>1
  <2> QED
    BY <1>2, <1>4, <1>5, <2>1, <2>2 DEF Tearing
<1> QED
  BY <1>6, <1>7, <1>8, <1>9, <1>10 DEF AppStep

(* A call finds the library up, ...                                        *)
LEMMA CallHarmless ==
  ASSUME TypeOK, LockLives, Harmless, Numbered, CallStep
  PROVE  Harmless' /\ Numbered'
<1>1. UNCHANGED <<s_inflight_mutex, done, dead, app, rx>>
  BY DEF CallStep, CallStart, CallReserve, CallReturns
<1>2. /\ call \in [pc: {"idle", "reserve", "wait"}, n: 0 .. MaxCalls] /\ MaxCalls \in Nat
  BY Basics DEF TypeOK
<1>3. Numbered'
  BY <1>2 DEF CallStep, CallStart, CallReserve, CallReturns, Numbered
<1>4. Harmless'
  <2> SUFFICES ASSUME harm' = {}
               PROVE  /\ ~bad'
                      /\ Busy' => s_inflight_mutex' # 0 /\ app'.pc \notin Tearing
                      /\ app'.pc \in Tearing => done' # "dead"
                      /\ rx'.pc = "inside" => rx'.lock = s_inflight_mutex'
    BY DEF Harmless, Tearing
  <2>1. harm = {}
    BY DEF CallStep, CallStart, CallReserve, CallReturns
  <2>2. /\ ~bad /\ (Busy => s_inflight_mutex # 0 /\ app.pc \notin Tearing)
        /\ app.pc \in Tearing => done # "dead"
        /\ rx.pc = "inside" => rx.lock = s_inflight_mutex
    BY <2>1 DEF Harmless
  <2>3. CASE CallStart
    <3>1. s_inflight_mutex # 0 /\ app.pc \notin Tearing /\ UNCHANGED bad
      BY <2>3 DEF CallStart, Tearing
    <3> QED
      BY <1>1, <2>2, <3>1
  <2>4. CASE CallReserve \/ CallReturns
    <3>1. /\ Busy
          /\ bad' = Unusable(s_inflight_mutex) \/ bad' = (done = "dead")
      BY <2>4 DEF CallReserve, CallReturns, Busy
    <3>2. s_inflight_mutex # 0 /\ s_inflight_mutex \notin dead /\ done = "live"
      BY <2>2, <3>1 DEF LockLives
    <3>3. ~bad'
      BY <3>1, <3>2 DEF Unusable
    <3> QED
      BY <1>1, <2>2, <3>1, <3>3
  <2> QED
    BY <2>3, <2>4 DEF CallStep
<1> QED
  BY <1>3, <1>4

(* ... and so does the receive thread.                                     *)
LEMMA RxHarmless ==
  ASSUME TypeOK, LockLives, Harmless, RxStep
  PROVE  Harmless'
<1>1. UNCHANGED <<s_inflight_mutex, done, dead, app, call, harm>>
  BY DEF RxStep, RxAnswer, RxLookup, RxEnter, RxReturns
<1> SUFFICES ASSUME harm = {}
             PROVE  /\ ~bad'
                    /\ Busy' => s_inflight_mutex # 0 /\ app.pc \notin Tearing
                    /\ app.pc \in Tearing => done # "dead"
                    /\ rx'.pc = "inside" => rx'.lock = s_inflight_mutex
  BY <1>1 DEF Harmless, Tearing
<1>2. /\ ~bad /\ (Busy => s_inflight_mutex # 0 /\ app.pc \notin Tearing)
      /\ app.pc \in Tearing => done # "dead"
      /\ rx.pc = "inside" => rx.lock = s_inflight_mutex
  BY DEF Harmless
<1>3. rx \in RxRec
  BY DEF TypeOK, RxRec
<1>4. Busy
  BY DEF RxStep, RxAnswer, RxLookup, RxEnter, RxReturns, Busy
<1>5. /\ s_inflight_mutex # 0 /\ s_inflight_mutex \notin dead /\ done = "live"
      /\ app.pc \notin Tearing
  BY <1>2, <1>4 DEF LockLives
<1>6. CASE RxAnswer
  <2>1. rx'.pc # "inside" /\ UNCHANGED bad
    BY <1>6 DEF RxAnswer, RxIdle
  <2> QED
    BY <1>2, <1>5, <2>1
<1>7. CASE RxLookup
  <2>1. rx'.pc # "inside" /\ UNCHANGED bad
    BY <1>3, <1>7 DEF RxLookup, RxIdle, RxRec
  <2> QED
    BY <1>2, <1>5, <2>1
<1>8. CASE RxEnter
  <2>1. bad' = Unusable(s_inflight_mutex) /\ rx'.lock = s_inflight_mutex
    BY <1>3, <1>8 DEF RxEnter, RxRec
  <2>2. ~bad'
    BY <1>5, <2>1 DEF Unusable
  <2> QED
    BY <1>5, <2>1, <2>2
<1>9. CASE RxReturns
  <2>1. /\ bad' = (Unusable(rx.lock) \/ (call = [pc |-> "wait", n |-> rx.n] /\ done = "dead"))
        /\ rx'.pc # "inside" /\ rx.lock = s_inflight_mutex
    BY <1>2, <1>9 DEF RxReturns, RxIdle
  <2>2. ~bad'
    BY <1>5, <2>1 DEF Unusable
  <2> QED
    BY <1>5, <2>1, <2>2
<1> QED
  BY <1>6, <1>7, <1>8, <1>9 DEF RxStep

-----------------------------------------------------------------------------
(* Room.                                                                   *)

(* A registry with no entry left, and none for the id that is looked for,  *)
(* holds as many others as it has entries.                                 *)
LEMMA FullRegistry ==
  ASSUME TypeOK, Kept, ~TwoLocks, NEW id \in LibIds, Holding(id) = {}, Holding(0) = {}
  PROVE  NUM_IDS + Cardinality(registered \ LibIds) > MAX_CUSTOM_CALLBACKS
<1> DEFINE Others == registered \ LibIds
           Rest   == LibIds \ {id}
<1>1. /\ NUM_IDS \in Nat \ {0} /\ MAX_CUSTOM_CALLBACKS \in Nat \ {0} /\ IsFiniteSet(OtherIds)
  BY LifecycleAssumption
<1>2. IsFiniteSet(LibIds) /\ Cardinality(LibIds) = NUM_IDS
  BY <1>1, FS_Interval DEF LibIds
<1>3. IsFiniteSet(Slots) /\ Cardinality(Slots) = MAX_CUSTOM_CALLBACKS
  BY <1>1, FS_Interval DEF Slots
<1>4. /\ custom_callbacks \in [Slots -> Ids \union {0}] /\ registered \subseteq Ids
  BY DEF TypeOK
<1>5. IsFiniteSet(Rest) /\ Cardinality(Rest) = NUM_IDS - 1
  BY <1>2, FS_RemoveElement
<1>6. IsFiniteSet(Others) /\ Cardinality(Others) \in Nat
  <2>1. Others \in SUBSET OtherIds
    BY <1>4 DEF Ids
  <2> QED
    BY <1>1, <2>1, FS_Subset, FS_CardinalityType
<1>7. /\ IsFiniteSet(Rest \union Others)
      /\ Cardinality(Rest \union Others) = NUM_IDS - 1 + Cardinality(Others)
  <2>1. Rest \intersect Others = {}
    OBVIOUS
  <2>2. /\ IsFiniteSet(Rest \union Others)
        /\ Cardinality(Rest \union Others) =
             Cardinality(Rest) + Cardinality(Others) - Cardinality(Rest \intersect Others)
    BY <1>5, <1>6, FS_Union
  <2>3. Cardinality(Rest \intersect Others) = 0
    BY <2>1, FS_EmptySet
  <2> QED
    BY <1>1, <1>5, <1>6, <2>2, <2>3
<1>8. custom_callbacks \in [Slots -> Rest \union Others]
  <2>1. ASSUME NEW i \in Slots PROVE custom_callbacks[i] \in Rest \union Others
    <3>1. custom_callbacks[i] # 0 /\ custom_callbacks[i] # id
      BY DEF Holding
    <3>2. custom_callbacks[i] \in registered
      BY <3>1 DEF Kept
    <3> QED
      BY <3>1, <3>2
  <2> QED
    BY <1>4, <2>1
<1>9. ~(Cardinality(Rest \union Others) < Cardinality(Slots))
  <2> SUFFICES ASSUME Cardinality(Rest \union Others) < Cardinality(Slots) PROVE FALSE
    OBVIOUS
  <2>1. \E i, j \in Slots : i # j /\ custom_callbacks[i] = custom_callbacks[j]
    BY <1>3, <1>7, <1>8, FS_PigeonHole
  <2>2. \A i \in Slots : custom_callbacks[i] # 0
    BY DEF Holding
  <2> QED
    BY <2>1, <2>2 DEF Kept
<1> QED
  BY <1>1, <1>3, <1>6, <1>7, <1>9

-----------------------------------------------------------------------------
(* The theorems.                                                           *)

(* The inductive invariant.                                                *)
LEMMA LifeInvariant ==
  Spec => []LifeInv
<1>1. Init => LifeInv
  <2> SUFFICES ASSUME Init PROVE LifeInv
    OBVIOUS
  <2>1. /\ custom_callbacks = [i \in Slots |-> 0] /\ custom_callbacks_mutex = 0 /\ made = 0
        /\ holder = [k \in 1 .. 2 |-> "none"] /\ reg = [t \in Task |-> RegIdle]
        /\ app = [pc |-> "idle", next |-> 0, result |-> "none", inits |-> 0]
        /\ others = 0 /\ s_inflight_mutex = 0 /\ done = "none" /\ dead = {}
        /\ call = [pc |-> "idle", n |-> 0] /\ pending = {}
        /\ rx = [pc |-> "idle", id |-> 0, n |-> 0, lock |-> 0]
        /\ registered = {} /\ harm = {} /\ bad = FALSE
    BY DEF Init, NoCall, RxIdle
  <2>2. TypeOK
    <3>1. reg \in [Task -> RegRec]
      BY <2>1, Basics
    <3>2. /\ app \in AppRec /\ rx \in RxRec
      BY <2>1, Basics DEF AppRec, RxRec
    <3>3. /\ call \in [pc: {"idle", "reserve", "wait"}, n: 0 .. MaxCalls]
          /\ others \in 0 .. MaxOther /\ s_inflight_mutex \in 0 .. MaxInit
      BY <2>1, Basics
    <3>4. /\ custom_callbacks \in [Slots -> Ids \union {0}] /\ made \in 0 .. 2
          /\ custom_callbacks_mutex \in 0 .. made
          /\ holder \in [1 .. 2 -> Task \union {"none"}]
      BY <2>1
    <3> QED
      BY <2>1, <3>1, <3>2, <3>3, <3>4 DEF TypeOK, RegRec, RegPc, AppRec, RxRec
  <2>3. \A t \in Task : reg[t].pc = "idle"
    BY <2>1, Basics
  <2>4. LocksMade /\ Exclusive
    BY <2>1, <2>3 DEF LocksMade, Exclusive
  <2>5. Kept
    BY <2>1 DEF Kept
  <2>6. Progress
    BY <2>1, <2>3 DEF Progress, Task
  <2>7. LockLives /\ Harmless /\ Numbered
    BY <2>1 DEF LockLives, Harmless, Busy, Tearing, Numbered
  <2> QED
    BY <2>2, <2>4, <2>5, <2>6, <2>7 DEF LifeInv
<1>2. LifeInv /\ [Next]_vars => LifeInv'
  <2> SUFFICES ASSUME LifeInv, [Next]_vars PROVE LifeInv'
    OBVIOUS
  <2>1. /\ TypeOK /\ LocksMade /\ Exclusive /\ Kept /\ Progress /\ LockLives /\ Harmless
        /\ Numbered
    BY DEF LifeInv
  <2>2. ASSUME NEW t \in Task, RegStep(t) PROVE LifeInv'
    <3>1. UNCHANGED <<app, others, s_inflight_mutex, dead, done, call, pending, rx, harm, bad>>
      BY <2>2 DEF RegStep, RegCheck, RegCreate, RegLock, RegScan, RegWrite
    <3>2. LockLives' /\ Harmless' /\ Numbered'
      BY <2>1, <3>1 DEF LockLives, Harmless, Busy, Numbered
    <3>3. TypeOK' /\ LocksMade' /\ Exclusive' /\ Kept' /\ Progress'
      BY <2>1, <2>2, RegTyped, LocksKept, ExclusiveKept, RegistryStays, RegProgress
    <3> QED
      BY <3>2, <3>3 DEF LifeInv
  <2>3. CASE OtherCalls
    <3>1. UNCHANGED <<regVars, app, s_inflight_mutex, dead, done, call, pending, rx, harm, bad>>
      BY <2>3 DEF OtherCalls
    <3>2. LockLives' /\ Harmless' /\ Numbered'
      BY <2>1, <3>1 DEF LockLives, Harmless, Busy, Numbered
    <3>3. LocksMade' /\ Exclusive' /\ Kept'
      BY <2>1, <2>3, <3>1, OtherProgress, QuietRegistry DEF Task
    <3>4. TypeOK' /\ Progress'
      BY <2>1, <2>3, OtherTyped, OtherProgress
    <3> QED
      BY <3>2, <3>3, <3>4 DEF LifeInv
  <2>4. CASE AppStep
    <3>1. UNCHANGED <<regVars, call>>
      BY <2>4 DEF AppStep, InitCall, InitNext, InitReturns, InitFails, DeinitCall, DeinitNext,
                  DeinitDelete, DeinitReturns
    <3>2. LocksMade' /\ Exclusive' /\ Kept'
      BY <2>1, <2>4, <3>1, AppProgress, QuietRegistry DEF Task
    <3>3. TypeOK' /\ Progress' /\ LockLives' /\ Harmless' /\ Numbered'
      BY <2>1, <2>4, <3>1, AppTyped, AppProgress, LivesKept, AppHarmless DEF Numbered
    <3> QED
      BY <3>2, <3>3 DEF LifeInv
  <2>5. CASE CallStep
    <3>1. UNCHANGED <<regVars, reg, app, s_inflight_mutex, dead, done>>
      BY <2>5 DEF CallStep, CallStart, CallReserve, CallReturns
    <3>2. LocksMade' /\ Exclusive' /\ Kept'
      BY <2>1, <3>1, QuietRegistry
    <3>3. Progress' /\ LockLives'
      BY <2>1, <3>1 DEF Progress, LockLives
    <3>4. TypeOK' /\ Harmless' /\ Numbered'
      BY <2>1, <2>5, CallTyped, CallHarmless
    <3> QED
      BY <3>2, <3>3, <3>4 DEF LifeInv
  <2>6. CASE RxStep
    <3>1. UNCHANGED <<regVars, reg, app, s_inflight_mutex, dead, done, call>>
      BY <2>6 DEF RxStep, RxAnswer, RxLookup, RxEnter, RxReturns
    <3>2. LocksMade' /\ Exclusive' /\ Kept'
      BY <2>1, <3>1, QuietRegistry
    <3>3. Progress' /\ LockLives' /\ Numbered'
      BY <2>1, <3>1 DEF Progress, LockLives, Numbered
    <3>4. TypeOK' /\ Harmless'
      BY <2>1, <2>6, RxTyped, RxHarmless
    <3> QED
      BY <3>2, <3>3, <3>4 DEF LifeInv
  <2>7. CASE UNCHANGED vars
    <3>1. UNCHANGED <<regVars, reg, app, others, s_inflight_mutex, dead, done, call, pending,
                      rx, harm, bad>>
      BY <2>7 DEF vars
    <3>2. LocksMade' /\ Exclusive' /\ Kept'
      BY <2>1, <3>1, QuietRegistry
    <3>3. TypeOK' /\ Progress' /\ LockLives' /\ Harmless' /\ Numbered'
      BY <2>1, <3>1 DEF TypeOK, Progress, LockLives, Harmless, Busy, Numbered
    <3> QED
      BY <3>2, <3>3 DEF LifeInv
  <2> QED
    BY <2>2, <2>3, <2>4, <2>5, <2>6, <2>7 DEF Next
<1> QED
  BY <1>1, <1>2, PTL DEF Spec

(* In spite of another task that registers and deregisters its messages,   *)
(* every message registered has one entry of the registry and nothing else *)
(* has, and after init has returned ESP_OK every message of the library is *)
(* routed -- unless two tasks made the registry's lock at the same time.   *)
THEOREM RegistryIsKept ==
  Spec => []RegistryKept
<1>1. LifeInv => RegistryKept
  <2> SUFFICES ASSUME LifeInv PROVE RegistryKept
    OBVIOUS
  <2>1. TypeOK /\ Kept /\ Progress
    BY DEF LifeInv
  <2>2. RegistrationKept
    <3> SUFFICES ASSUME ~TwoLocks, NEW id \in Ids
                 PROVE  Cardinality(Holding(id)) = IF id \in registered THEN 1 ELSE 0
      BY DEF RegistrationKept
    <3>1. id # 0
      BY Basics
    <3>2. CASE id \in registered
      <4>1. PICK i \in Slots : custom_callbacks[i] = id
        BY <2>1, <3>2 DEF Kept
      <4>2. Holding(id) = {i}
        BY <2>1, <3>1, <4>1 DEF Kept, Holding
      <4> QED
        BY <3>2, <4>2, FS_Singleton
    <3>3. CASE id \notin registered
      <4>1. Holding(id) = {}
        BY <2>1, <3>1, <3>3 DEF Kept, Holding
      <4> QED
        BY <3>3, <4>1, FS_EmptySet
    <3> QED
      BY <3>2, <3>3
  <2>3. AllRoutedWhenUp
    BY <2>1 DEF AllRoutedWhenUp, Progress, Kept
  <2> QED
    BY <2>1, <2>2, <2>3 DEF RegistryKept
<1> QED
  BY <1>1, LifeInvariant, PTL

(* A deleted lock or semaphore of the library is only used if the          *)
(* application called deinit with calls or answers under way, made a call  *)
(* during it, or called it twice.                                          *)
THEOREM DeadUseIsHarm ==
  Spec => []DeadUseOnlyByHarm
<1>1. LifeInv => DeadUseOnlyByHarm
  BY DEF LifeInv, Harmless, DeadUseOnlyByHarm
<1> QED
  BY <1>1, LifeInvariant, PTL

(* Init finds no entry for a message only where the registry is too small  *)
(* for the library next to what others have registered by then: what       *)
(* deinit leaves behind takes no room from the next init.                  *)
THEOREM FailureIsLackOfRoom ==
  Spec => FailsOnlyForRoom
<1>1. LifeInv =>
        [RegScan("app") /\ reg["app"].add /\ ~reg'["app"].ok /\ ~TwoLocks =>
           NUM_IDS + Cardinality(registered \ LibIds) > MAX_CUSTOM_CALLBACKS]_vars
  <2> SUFFICES ASSUME LifeInv, RegScan("app"), reg["app"].add, ~reg'["app"].ok, ~TwoLocks
               PROVE  NUM_IDS + Cardinality(registered \ LibIds) > MAX_CUSTOM_CALLBACKS
    OBVIOUS
  <2>1. TypeOK /\ Kept /\ Progress
    BY DEF LifeInv
  <2>2. "app" \in Task /\ RegStep("app")
    BY DEF Task, RegStep
  <2>3. Found(reg["app"]) = 0
    BY <2>1, <2>2, RegFacts
  <2>4. Holding(reg["app"].id) = {} /\ Holding(0) = {}
    BY <2>3, FoundIs
  <2>5. reg["app"].id \in LibIds
    BY <2>1 DEF Progress, RegScan
  <2> QED
    BY <2>1, <2>4, <2>5, FullRegistry
<1> QED
  BY <1>1, LifeInvariant, PTL DEF FailsOnlyForRoom

=============================================================================
