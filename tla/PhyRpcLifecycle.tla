-------------------------- MODULE PhyRpcLifecycle --------------------------
(***************************************************************************)
(* Bringing the host library up and down (esp_hosted_open_init and         *)
(* esp_hosted_open_deinit in phy_rpc.c) on top of esp-hosted's registry of *)
(* custom messages (rpc_evt_register_custom_callback in rpc_evt.c), while  *)
(* another task registers messages of its own, a task makes calls, and the *)
(* receive thread routes what the slave sends.                             *)
(*                                                                         *)
(* Message ids are numbers: init registers 1 .. NUM_RESP (responses, one   *)
(* after the other, giving up at the first failure) and then the events up *)
(* to NUM_IDS (under ESP_ERROR_CHECK).  A registry entry is the id it      *)
(* routes, 0 if free: id and callback are only ever written together.      *)
(* Handles of mutexes are numbers, 0 is NULL.  do_call and on_response are *)
(* those of PhyRpcHost, reduced to the objects they use.                   *)
(***************************************************************************)
EXTENDS Integers, FiniteSets

CONSTANTS
  NUM_RESP, NUM_IDS,     (* ids init registers (47, 54)                    *)
  DeinitIds,             (* ids deinit deregisters (29 of them)            *)
  OtherIds,              (* ids another task registers                     *)
  MAX_CUSTOM_CALLBACKS,  (* H_MAX_CUSTOM_MSG_HANDLERS (1 to 32)            *)
  MaxInit, MaxOther, MaxCalls   (* bounds: init, other registrations, calls*)

LibIds == 1 .. NUM_IDS
Ids    == LibIds \union OtherIds
Slots  == 1 .. MAX_CUSTOM_CALLBACKS

ASSUME LifecycleAssumption ==
  /\ {NUM_RESP, NUM_IDS, MAX_CUSTOM_CALLBACKS} \subseteq Nat \ {0}
  /\ NUM_RESP <= NUM_IDS
  /\ DeinitIds \subseteq LibIds /\ DeinitIds # {}
  /\ OtherIds \subseteq Nat \ (0 .. NUM_IDS) /\ IsFiniteSet(OtherIds)
  /\ {MaxInit, MaxOther, MaxCalls} \subseteq Nat

Task == {"app", "other"}

VARIABLES
  custom_callbacks,        (* the registry                                 *)
  custom_callbacks_mutex,  (* its lock, made on first use                  *)
  made,                    (* locks made so far                            *)
  holder,                  (* who holds each of them                       *)
  reg,                     (* each task's call of the registry             *)
  app,                     (* the task that calls init and deinit          *)
  others,                  (* registrations of the other task so far       *)
  s_inflight_mutex,        (* the library's lock                           *)
  done,                    (* the library's semaphores                     *)
  dead,                    (* library locks deleted so far                 *)
  call,                    (* the task that makes calls                    *)
  pending,                 (* answers on their way                         *)
  rx,                      (* the receive thread                           *)
  registered,              (* history: ids whose registration succeeded    *)
  harm,                    (* history: what the application got wrong      *)
  bad                      (* whether a deleted object has been used       *)

regVars == <<custom_callbacks, custom_callbacks_mutex, made, holder, registered>>
libVars == <<s_inflight_mutex, done, dead>>
vars == <<regVars, reg, app, others, libVars, call, pending, rx, harm, bad>>

-----------------------------------------------------------------------------
RegIdle == [pc |-> "idle", id |-> 0, add |-> FALSE, lock |-> 0, slot |-> 0, ok |-> FALSE]
RxIdle  == [pc |-> "idle", id |-> 0, n |-> 0, lock |-> 0]
NoCall  == [pc |-> "idle", n |-> 0]

TypeOK ==
  /\ custom_callbacks \in [Slots -> Ids \union {0}]
  /\ made \in 0 .. 2 /\ custom_callbacks_mutex \in 0 .. made
  /\ holder \in [1 .. 2 -> Task \union {"none"}]
  /\ reg \in [Task -> [pc: {"idle", "check", "create", "lock", "scan", "write",
                           "return"},
                      id: Ids \union {0}, add: BOOLEAN, lock: 0 .. 2,
                      slot: Slots \union {0}, ok: BOOLEAN]]
  /\ app \in [pc: {"idle", "init", "deinit", "delete", "clear", "abort"},
              next: 0 .. NUM_IDS + 1, result: {"none", "ESP_OK", "FAIL"},
              inits: 0 .. MaxInit]
  /\ others \in 0 .. MaxOther
  /\ s_inflight_mutex \in 0 .. MaxInit /\ dead \subseteq 1 .. MaxInit
  /\ done \in {"none", "live", "dead"}
  /\ call \in [pc: {"idle", "reserve", "wait"}, n: 0 .. MaxCalls]
  /\ pending \subseteq [n: 1 .. MaxCalls, id: 1 .. NUM_RESP]
  /\ rx \in [pc: {"idle", "lock", "callback", "inside"}, id: Ids \union {0},
             n: 0 .. MaxCalls, lock: 0 .. MaxInit + 2]
  /\ registered \subseteq Ids
  /\ harm \subseteq {"deinit_busy", "deinit_twice"}
  /\ bad \in BOOLEAN

Init ==
  /\ custom_callbacks = [i \in Slots |-> 0]
  /\ custom_callbacks_mutex = 0 /\ made = 0
  /\ holder = [k \in 1 .. 2 |-> "none"]
  /\ reg = [t \in Task |-> RegIdle]
  /\ app = [pc |-> "idle", next |-> 0, result |-> "none", inits |-> 0]
  /\ others = 0
  /\ s_inflight_mutex = 0 /\ done = "none" /\ dead = {}
  /\ call = NoCall /\ pending = {}
  /\ rx = RxIdle
  /\ registered = {} /\ harm = {} /\ bad = FALSE

(* Nothing is said of what happens after an abort or once a deleted object *)
(* has been used.                                                          *)
Running == app.pc # "abort" /\ ~bad

-----------------------------------------------------------------------------
(* rpc_evt_register_custom_callback, called by task t.                     *)

StartReg(id, add) == [RegIdle EXCEPT !.pc = "check", !.id = id, !.add = add]
Goto(t, pc) == reg' = [reg EXCEPT ![t].pc = pc]
regRest == <<app, others, libVars, call, pending, rx, harm, bad>>

(* The lock is made on first use, by whoever finds that there is none.     *)
RegCheck(t) ==
  /\ Running
  /\ reg[t].pc = "check"
  /\ reg' = [reg EXCEPT ![t].pc = IF custom_callbacks_mutex = 0 THEN "create" ELSE "lock",
                        ![t].lock = custom_callbacks_mutex]
  /\ UNCHANGED <<regVars, regRest>>

RegCreate(t) ==
  /\ Running
  /\ reg[t].pc = "create"
  /\ made' = made + 1
  /\ custom_callbacks_mutex' = made + 1
  /\ Goto(t, "check")
  /\ UNCHANGED <<custom_callbacks, holder, registered, regRest>>

RegLock(t) ==
  /\ Running
  /\ reg[t].pc = "lock"
  /\ holder[reg[t].lock] = "none"
  /\ holder' = [holder EXCEPT ![reg[t].lock] = t]
  /\ Goto(t, "scan")
  /\ UNCHANGED <<custom_callbacks, custom_callbacks_mutex, made, registered, regRest>>

First(S) == CHOOSE i \in S : \A j \in S : i <= j
Holding(id) == {i \in Slots : custom_callbacks[i] = id}

(* Mutant of Found: an id already there is not looked for.                 *)
FoundFreeOnly(r) ==
  IF r.add /\ Holding(0) # {} THEN First(Holding(0))
  ELSE IF ~r.add /\ Holding(r.id) # {} THEN First(Holding(r.id)) ELSE 0

(* The entry of the id if it has one, else a free one if it is to get one. *)
Found(r) ==
  IF Holding(r.id) # {} THEN First(Holding(r.id))
  ELSE IF r.add /\ Holding(0) # {} THEN First(Holding(0)) ELSE 0

RegScan(t) ==
  /\ Running
  /\ reg[t].pc = "scan"
  /\ reg' = [reg EXCEPT ![t].slot = Found(reg[t]), ![t].pc = "write",
                        ![t].ok = Found(reg[t]) # 0]
  /\ UNCHANGED <<regVars, regRest>>

(* Mutant of RegWrite: not unlocked if there is no entry.                  *)
RegWriteKeepsLock(t) ==
  /\ Running
  /\ reg[t].pc = "write"
  /\ IF reg[t].ok
     THEN /\ custom_callbacks' = [custom_callbacks EXCEPT
               ![reg[t].slot] = IF reg[t].add THEN reg[t].id ELSE 0]
          /\ registered' = IF reg[t].add THEN registered \union {reg[t].id}
                           ELSE registered \ {reg[t].id}
     ELSE UNCHANGED <<custom_callbacks, registered>>
  /\ holder' = [holder EXCEPT
       ![custom_callbacks_mutex] = IF reg[t].ok THEN "none" ELSE @]
  /\ Goto(t, "return")
  /\ UNCHANGED <<custom_callbacks_mutex, made, regRest>>

(* The entry is written; what is unlocked is the lock there is now.        *)
RegWrite(t) ==
  /\ Running
  /\ reg[t].pc = "write"
  /\ IF reg[t].ok
     THEN /\ custom_callbacks' = [custom_callbacks EXCEPT
               ![reg[t].slot] = IF reg[t].add THEN reg[t].id ELSE 0]
          /\ registered' = IF reg[t].add THEN registered \union {reg[t].id}
                           ELSE registered \ {reg[t].id}
     ELSE UNCHANGED <<custom_callbacks, registered>>
  /\ holder' = [holder EXCEPT ![custom_callbacks_mutex] = "none"]
  /\ Goto(t, "return")
  /\ UNCHANGED <<custom_callbacks_mutex, made, regRest>>

RegStep(t) == RegCheck(t) \/ RegCreate(t) \/ RegLock(t) \/ RegScan(t) \/ RegWrite(t)

(* Another task of the application registers and deregisters its messages. *)
OtherCalls ==
  /\ Running
  /\ reg["other"].pc \in {"idle", "return"} /\ others < MaxOther
  /\ others' = others + 1
  /\ \E id \in OtherIds, add \in BOOLEAN :
       reg' = [reg EXCEPT !["other"] = StartReg(id, add)]
  /\ UNCHANGED <<regVars, app, libVars, call, pending, rx, harm, bad>>

-----------------------------------------------------------------------------
(* esp_hosted_open_init and esp_hosted_open_deinit.                        *)
appRest == <<others, call, pending, rx>>

(* Without effect once there is a lock (ESP_ERR_INVALID_STATE).            *)
InitCall ==
  /\ Running
  /\ app.pc = "idle" /\ app.inits < MaxInit
  /\ s_inflight_mutex = 0
  /\ s_inflight_mutex' = app.inits + 1
  /\ done' = "live"
  /\ app' = [pc |-> "init", next |-> 1, result |-> "none", inits |-> app.inits + 1]
  /\ reg' = [reg EXCEPT !["app"] = StartReg(1, TRUE)]
  /\ UNCHANGED <<regVars, dead, appRest, harm, bad>>

(* An id is registered: on to the next one, ...                            *)
InitNext ==
  /\ Running
  /\ app.pc = "init" /\ reg["app"].pc = "return" /\ reg["app"].ok
  /\ app.next < NUM_IDS
  /\ app' = [app EXCEPT !.next = @ + 1]
  /\ reg' = [reg EXCEPT !["app"] = StartReg(app.next + 1, TRUE)]
  /\ UNCHANGED <<regVars, libVars, appRest, harm, bad>>

(* ... or that was the last one.                                           *)
InitReturns ==
  /\ Running
  /\ app.pc = "init" /\ reg["app"].pc = "return" /\ reg["app"].ok
  /\ app.next = NUM_IDS
  /\ app' = [app EXCEPT !.pc = "idle", !.result = "ESP_OK"]
  /\ reg' = [reg EXCEPT !["app"] = RegIdle]
  /\ UNCHANGED <<regVars, libVars, appRest, harm, bad>>

(* Mutant of InitFails: the error is ignored.                              *)
InitFailsIgnored ==
  /\ Running
  /\ app.pc = "init" /\ reg["app"].pc = "return" /\ ~reg["app"].ok
  /\ app' = [app EXCEPT !.pc = "idle", !.result = "ESP_OK"]
  /\ reg' = [reg EXCEPT !["app"] = RegIdle]
  /\ UNCHANGED <<regVars, libVars, appRest, harm, bad>>

(* There is no entry left for a response, and init gives up as it is; or   *)
(* for an event, and the host aborts.                                      *)
InitFails ==
  /\ Running
  /\ app.pc = "init" /\ reg["app"].pc = "return" /\ ~reg["app"].ok
  /\ app' = [app EXCEPT !.result = "FAIL",
                        !.pc = IF app.next <= NUM_RESP THEN "idle" ELSE "abort"]
  /\ reg' = [reg EXCEPT !["app"] = RegIdle]
  /\ UNCHANGED <<regVars, libVars, appRest, harm, bad>>

After(i) == {j \in DeinitIds : j > i}

(* deinit (which does nothing before the first init) deregisters its list, *)
(* whatever the registry says, ...                                         *)
DeinitCall ==
  /\ Running
  /\ app.pc = "idle" /\ app.inits > 0
  /\ app' = [app EXCEPT !.pc = "deinit", !.next = First(DeinitIds), !.result = "none"]
  /\ reg' = [reg EXCEPT !["app"] = StartReg(First(DeinitIds), FALSE)]
  /\ harm' = harm \union
       (IF call.pc # "idle" \/ pending # {} \/ rx.pc # "idle" THEN {"deinit_busy"} ELSE {})
       \union (IF done = "dead" THEN {"deinit_twice"} ELSE {})
  /\ UNCHANGED <<regVars, libVars, appRest, bad>>

DeinitNext ==
  /\ Running
  /\ app.pc = "deinit" /\ reg["app"].pc = "return"
  /\ IF After(app.next) = {}
     THEN /\ app' = [app EXCEPT !.pc = "delete"]
          /\ reg' = [reg EXCEPT !["app"] = RegIdle]
     ELSE /\ app' = [app EXCEPT !.next = First(After(app.next))]
          /\ reg' = [reg EXCEPT !["app"] = StartReg(First(After(app.next)), FALSE)]
  /\ UNCHANGED <<regVars, libVars, appRest, harm, bad>>

(* Mutant of DeinitDelete: the handle of the deleted lock is kept.         *)
DeinitDeleteKeepsHandle ==
  /\ Running
  /\ app.pc = "delete"
  /\ dead' = dead \union ({s_inflight_mutex} \ {0})
  /\ app' = [app EXCEPT !.pc = "clear"]
  /\ UNCHANGED <<regVars, reg, s_inflight_mutex, done, appRest, harm, bad>>

(* ... deletes the lock, ...                                               *)
DeinitDelete ==
  /\ Running
  /\ app.pc = "delete"
  /\ dead' = dead \union ({s_inflight_mutex} \ {0})
  /\ s_inflight_mutex' = 0
  /\ app' = [app EXCEPT !.pc = "clear"]
  /\ UNCHANGED <<regVars, reg, done, appRest, harm, bad>>

(* ... and the semaphores, whose handles it keeps.                         *)
DeinitReturns ==
  /\ Running
  /\ app.pc = "clear"
  /\ bad' = (done = "dead")
  /\ done' = "dead"
  /\ app' = [app EXCEPT !.pc = "idle", !.next = 0]
  /\ UNCHANGED <<regVars, reg, s_inflight_mutex, dead, appRest, harm>>

-----------------------------------------------------------------------------
(* do_call: it looks at the lock, takes it, and sends its request, which   *)
(* the slave answers or not; then it waits, until woken or timed out.      *)
callRest == <<regVars, reg, app, others, libVars, rx>>

CallStart ==
  /\ Running
  /\ call.pc = "idle" /\ call.n < MaxCalls
  /\ s_inflight_mutex # 0
  /\ call' = [pc |-> "reserve", n |-> call.n + 1]
  /\ harm' = harm \union
       (IF app.pc \in {"deinit", "delete", "clear"} THEN {"deinit_busy"} ELSE {})
  /\ UNCHANGED <<callRest, pending, bad>>

Unusable(m) == m = 0 \/ m \in dead

CallReserve ==
  /\ Running
  /\ call.pc = "reserve"
  /\ ~(rx.pc = "inside" /\ rx.lock = s_inflight_mutex)
  /\ bad' = Unusable(s_inflight_mutex)
  /\ call' = [call EXCEPT !.pc = "wait"]
  /\ \E answers \in SUBSET [n: {call.n}, id: 1 .. NUM_RESP] :
       Cardinality(answers) <= 1 /\ pending' = pending \union answers
  /\ UNCHANGED <<callRest, harm>>

CallReturns ==
  /\ Running
  /\ call.pc = "wait"
  /\ bad' = (done = "dead")
  /\ call' = [call EXCEPT !.pc = "idle"]
  /\ UNCHANGED <<callRest, pending, harm>>

-----------------------------------------------------------------------------
(* The receive thread: rpc_event_callback looks the message up, under the  *)
(* lock of the registry if there is one, ...                               *)
rxRest == <<regVars, reg, app, others, libVars, call, harm>>

RxAnswer ==
  /\ Running
  /\ rx.pc = "idle"
  /\ \E a \in pending :
       /\ pending' = pending \ {a}
       /\ rx' = IF custom_callbacks_mutex = 0 THEN RxIdle
                ELSE [pc |-> "lock", id |-> a.id, n |-> a.n,
                      lock |-> custom_callbacks_mutex]
  /\ UNCHANGED <<rxRest, bad>>

RxLookup ==
  /\ Running
  /\ rx.pc = "lock" /\ holder[rx.lock] = "none"
  /\ rx' = IF Holding(rx.id) = {} THEN RxIdle ELSE [rx EXCEPT !.pc = "callback"]
  /\ UNCHANGED <<rxRest, pending, bad>>

(* ... and calls on_response without it, which takes the library's lock    *)
RxEnter ==
  /\ Running
  /\ rx.pc = "callback"
  /\ bad' = Unusable(s_inflight_mutex)
  /\ rx' = [rx EXCEPT !.pc = "inside", !.lock = s_inflight_mutex]
  /\ UNCHANGED <<rxRest, pending>>

(* and wakes the call that waits for the answer, if any.                   *)
RxReturns ==
  /\ Running
  /\ rx.pc = "inside"
  /\ bad' = (Unusable(rx.lock) \/ (call = [pc |-> "wait", n |-> rx.n] /\ done = "dead"))
  /\ rx' = RxIdle
  /\ UNCHANGED <<rxRest, pending>>

-----------------------------------------------------------------------------
AppStep == \/ InitCall \/ InitNext \/ InitReturns \/ InitFails
           \/ DeinitCall \/ DeinitNext \/ DeinitDelete \/ DeinitReturns
CallStep == CallStart \/ CallReserve \/ CallReturns
RxStep == RxAnswer \/ RxLookup \/ RxEnter \/ RxReturns

Next ==
  \/ \E t \in Task : RegStep(t)
  \/ OtherCalls \/ AppStep \/ CallStep \/ RxStep

Spec == Init /\ [][Next]_vars

(* The tasks are scheduled; a lock is given to who waits for it in turn.   *)
FairSpec ==
  /\ Spec
  /\ \A t \in Task : WF_vars(RegStep(t)) /\ SF_vars(RegLock(t))
  /\ WF_vars(RxStep) /\ SF_vars(RxLookup)

-----------------------------------------------------------------------------
(* Properties.                                                             *)

(* Whether two tasks have made the lock of the registry at the same time.  *)
TwoLocks == made > 1

(* What was registered is in the registry once, and nothing else is, in    *)
(* spite of concurrent registrations, unless two tasks made the lock.      *)
RegistrationKept ==
  ~TwoLocks =>
    \A id \in Ids : Cardinality(Holding(id)) = IF id \in registered THEN 1 ELSE 0

(* After init has returned ESP_OK every message of the library is routed.  *)
AllRoutedWhenUp ==
  app.result = "ESP_OK" /\ ~TwoLocks => LibIds \subseteq {custom_callbacks[i] : i \in Slots}

(* What deinit leaves in the registry takes no room from the next init:    *)
(* init only finds no entry where the registry is too small for the        *)
(* library next to what others have registered by then.                    *)
FailsOnlyForRoom ==
  [][RegScan("app") /\ reg["app"].add /\ ~reg'["app"].ok /\ ~TwoLocks =>
       NUM_IDS + Cardinality(registered \ LibIds) > MAX_CUSTOM_CALLBACKS]_vars

(* A deleted lock or semaphore is only used if deinit was called with      *)
(* calls or answers under way, a call was made during it, or deinit was    *)
(* called twice -- although deinit leaves responses registered.            *)
DeadUseOnlyByHarm == bad => harm # {}

(* The receive thread always gets back to the transport, unless two tasks  *)
(* made the lock of the registry.                                          *)
RxReturnsToBus ==
  rx.pc # "idle" ~> rx.pc = "idle" \/ TwoLocks \/ ~Running

(* What examples/host_p4_demo/main/main.c:61-62 takes for granted: init    *)
(* registers the custom messages and returns ESP_OK.                       *)
InitSucceeds == app.result # "FAIL"

(* The registry of a library that comes and goes, at once: the types,      *)
(* what is registered, and what is routed.                                 *)
RegistryKept == TypeOK /\ RegistrationKept /\ AllRoutedWhenUp
=============================================================================
