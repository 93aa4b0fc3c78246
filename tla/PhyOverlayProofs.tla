-------------------------- MODULE PhyOverlayProofs --------------------------
(***************************************************************************)
(* Proofs about the overlay of the slave firmware, for any parts a host    *)
(* uses, sizes of the registry, chips, channels, powers and frames, and    *)
(* any number of requests, restarts and captured frames.                   *)
(***************************************************************************)
EXTENDS PhyOverlay, TLAPS, SequenceTheorems

USE DEF bootVars, slaveVars, overlayVars, Mark

-----------------------------------------------------------------------------
(* What the tables hold.                                                   *)
PhyReq == RadioWrapped \union CountWrapped \union PhyWrapped

(* The first table has the requests of the radio, ...                      *)
LEMMA PhyElems ==
  Elems(PhyTable) = PhyReq
<1>1. /\ DOMAIN PhyTable = 1 .. 28
  BY DEF PhyTable
<1>2. Elems(PhyTable) \subseteq PhyReq
  BY DEF PhyTable, Elems, PhyReq, RadioWrapped, CountWrapped, PhyWrapped
<1>3. PhyReq \subseteq Elems(PhyTable)
  BY <1>1 DEF PhyTable, Elems, PhyReq, RadioWrapped, CountWrapped, PhyWrapped
<1> QED
  BY <1>2, <1>3

(* ... the others those of Wi-Fi, ESP-NOW and 802.15.4.                    *)
LEMMA OtherElems ==
  /\ Elems(ExtrasTable) = WifiWrapped \union {"TX_80211", "SET_PROMISC", "SET_EVENT_MASK"}
  /\ Elems(WirelessTable) =
       EspnowWrapped \union I154Wrapped \union {"ESPNOW_SEND", "IEEE154_TX_RAW"}
<1>1. /\ DOMAIN ExtrasTable = 1 .. 8 /\ DOMAIN WirelessTable = 1 .. 11
  BY DEF ExtrasTable, WirelessTable
<1> QED
  BY <1>1 DEF ExtrasTable, WirelessTable, Elems, WifiWrapped, EspnowWrapped, I154Wrapped

(* The handlers that call one function are of the first table.             *)
LEMMA HookedElems ==
  Hooked = (CountWrapped \ {"GET_INFO"}) \union (PhyWrapped \ {"GET_CAPS"})
  BY DEF Hooked, PhyHook, CcaHook, CountWrapped, PhyWrapped

(* What is marked is in a table.                                           *)
LEMMA CapsTabled ==
  Caps \subseteq Elems(PhyTable) \union Elems(ExtrasTable) \union Elems(WirelessTable)
  BY PhyElems, OtherElems, HookedElems
     DEF Caps, PhyCaps, ExtrasCaps, WirelessCaps, PhyReq, RadioWrapped, CountWrapped, PhyWrapped

(* What is passed on is marked unless it is absent, and what is hooked     *)
(* when there is a function for it.                                        *)
LEMMA CapsOf ==
  /\ \A r \in Hooked : r \in Caps <=> Resolved(HookOf(r))
  /\ \A r \in Passed \union FrameWrapped : r \in Caps <=> ~Absent(r)
<1>1. /\ \A r \in Hooked : r \notin ExtrasCaps /\ r \notin Elems(WirelessTable)
      /\ \A r \in Passed \union FrameWrapped : r \notin Elems(PhyTable)
  BY PhyElems, OtherElems, HookedElems
     DEF PhyReq, RadioWrapped, CountWrapped, PhyWrapped, WifiWrapped, EspnowWrapped, I154Wrapped,
         FrameWrapped, Passed, ExtrasCaps
<1>2. PhyCaps \subseteq Elems(PhyTable)
  BY PhyElems, HookedElems DEF PhyCaps, PhyReq, RadioWrapped, CountWrapped, PhyWrapped
<1>3. \A r \in Hooked : r \in PhyCaps <=> Resolved(HookOf(r))
  BY HookedElems DEF PhyCaps, CountWrapped, PhyWrapped
<1>4. \A r \in Hooked : r \in Caps <=> Resolved(HookOf(r))
  BY <1>1, <1>3 DEF Caps, WirelessCaps
<1>5. \A r \in Passed \union FrameWrapped : r \in Caps <=> ~Absent(r)
  <2>1. ASSUME NEW r \in WifiWrapped \union {"TX_80211"}
        PROVE  r \in ExtrasCaps /\ ~Absent(r)
    BY OtherElems DEF ExtrasCaps, Absent, WifiWrapped, I154Wrapped
  <2>2. ASSUME NEW r \in EspnowWrapped \union I154Wrapped \union {"ESPNOW_SEND", "IEEE154_TX_RAW"}
        PROVE  r \notin ExtrasCaps /\ (r \in WirelessCaps <=> ~Absent(r))
    BY OtherElems DEF ExtrasCaps, WirelessCaps, WifiWrapped, EspnowWrapped, I154Wrapped
  <2> QED
    BY <1>1, <1>2, <2>1, <2>2 DEF Caps, Passed, FrameWrapped
<1> QED
  BY <1>4, <1>5

-----------------------------------------------------------------------------
(* Frames.                                                                 *)
Byte == 0 .. 255

(* The two bytes of a length make the length.                              *)
LEMMA LowHigh ==
  ASSUME NEW n \in Nat
  PROVE  Low(n) + 256 * High(n) = n /\ Low(n) \in Nat /\ High(n) \in Nat
  BY DEF Low, High

(* What follows a head of a message.                                       *)
LEMMA Following ==
  ASSUME NEW h \in Seq(Nat), NEW f \in Seq(Nat)
  PROVE  /\ Len(h \o f) = Len(h) + Len(f)
         /\ \A k \in 1 .. Len(h) : (h \o f)[k] = h[k]
         /\ SubSeq(h \o f, Len(h) + 1, Len(h) + Len(f)) = f
<1>1. /\ h \o f \in Seq(Nat) /\ Len(h \o f) = Len(h) + Len(f)
      /\ \A k \in 1 .. Len(h) : (h \o f)[k] = h[k]
      /\ \A k \in 1 .. Len(f) : (h \o f)[Len(h) + k] = f[k]
      /\ Len(h) \in Nat /\ Len(f) \in Nat
  OBVIOUS
<1> DEFINE s == SubSeq(h \o f, Len(h) + 1, Len(h) + Len(f))
<1>2. /\ s \in Seq(Nat) /\ Len(s) = Len(f)
      /\ \A k \in 1 .. Len(f) : s[k] = (h \o f)[Len(h) + k]
  BY <1>1
<1>3. s = f
  <2> HIDE DEF s
  <2> QED
    BY <1>1, <1>2, SeqEqual
<1> QED
  BY <1>1, <1>3

(* What the handler finds of the host's frame, which for raw 802.11 is not *)
(* where the wrapper put it.                                               *)
Sent(r, f) == IF r = "TX_80211" THEN SubSeq(<<0, 0>> \o f, 1, Len(f)) ELSE f

(* It is found whole.                                                      *)
LEMMA FrameParsed ==
  ASSUME NEW r \in FrameWrapped, NEW f \in Seq(Byte)
  PROVE  /\ Parsed(r, Body(r, f)).fits
         /\ Parsed(r, Body(r, f)).frame = Sent(r, f)
         /\ Sent(r, f) \in Seq(Byte)
<1> DEFINE L == Len(f)
<1>1. L \in Nat /\ f \in Seq(Nat)
  <2>1. Byte \subseteq Nat
    BY DEF Byte
  <2>2. f \in Seq(Nat)
    BY <2>1, SeqMonotonic
  <2> QED
    BY <2>2
<1> HIDE DEF L
<1>2. Low(L) \in Nat /\ High(L) \in Nat /\ Low(L) + 256 * High(L) = L
  BY <1>1, LowHigh
<1>3. CASE r = "ESPNOW_SEND"
  <2> DEFINE h == <<9, 9, 9, 9, 9, 9, Low(L), High(L)>>
             m == h \o f
  <2>1. h \in Seq(Nat) /\ Len(h) = 8 /\ h[7] = Low(L) /\ h[8] = High(L)
    BY <1>2
  <2>2. Body(r, f) = m /\ FixedPart[r] = 8
    BY <1>3 DEF Body, HostEspnow, FixedPart, L
  <2> HIDE DEF h
  <2>3. /\ Len(m) = Len(h) + L
        /\ \A k \in 1 .. Len(h) : m[k] = h[k]
        /\ SubSeq(m, Len(h) + 1, Len(h) + L) = f
    BY <1>1, <2>1, Following, Zenon DEF L
  <2> HIDE DEF m
  <2>4. /\ Len(m) = 8 + L /\ m[7] = Low(L) /\ m[8] = High(L)
        /\ SubSeq(m, 9, 8 + L) = f
    BY <1>1, <2>1, <2>3
  <2>5. Parsed(r, m) = [fits |-> TRUE, frame |-> f]
    <3>1. m[FixedPart[r] - 1] + 256 * m[FixedPart[r]] = L
      BY <1>2, <2>2, <2>4
    <3>2. /\ ~(FixedPart[r] + L > Len(m))
          /\ SubSeq(m, FixedPart[r] + 1, FixedPart[r] + L) = f
      BY <1>1, <2>2, <2>4
    <3> QED
      BY <3>1, <3>2, Zenon DEF Parsed
  <2> QED
    BY <1>3, <2>2, <2>5 DEF Sent
<1>4. CASE r = "IEEE154_TX_RAW"
  <2> DEFINE h == <<1, 0, Low(L), High(L)>>
             m == h \o f
  <2>1. h \in Seq(Nat) /\ Len(h) = 4 /\ h[3] = Low(L) /\ h[4] = High(L)
    BY <1>2
  <2>2. Body(r, f) = m /\ FixedPart[r] = 4
    BY <1>4 DEF Body, HostI154, FixedPart, L
  <2> HIDE DEF h
  <2>3. /\ Len(m) = Len(h) + L
        /\ \A k \in 1 .. Len(h) : m[k] = h[k]
        /\ SubSeq(m, Len(h) + 1, Len(h) + L) = f
    BY <1>1, <2>1, Following, Zenon DEF L
  <2> HIDE DEF m
  <2>4. /\ Len(m) = 4 + L /\ m[3] = Low(L) /\ m[4] = High(L)
        /\ SubSeq(m, 5, 4 + L) = f
    BY <1>1, <2>1, <2>3
  <2>5. Parsed(r, m) = [fits |-> TRUE, frame |-> f]
    <3>1. m[FixedPart[r] - 1] + 256 * m[FixedPart[r]] = L
      BY <1>2, <2>2, <2>4
    <3>2. /\ ~(FixedPart[r] + L > Len(m))
          /\ SubSeq(m, FixedPart[r] + 1, FixedPart[r] + L) = f
      BY <1>1, <2>2, <2>4
    <3> QED
      BY <3>1, <3>2, Zenon DEF Parsed
  <2> QED
    BY <1>4, <2>2, <2>5 DEF Sent
<1>5. CASE r = "TX_80211"
  <2> DEFINE h == <<0, 0, 0, 0, Low(L), High(L), 0, 0>>
             m == h \o f
             g == <<0, 0>> \o f
  <2>1. /\ h \in Seq(Nat) /\ Len(h) = 8 /\ h[5] = Low(L) /\ h[6] = High(L)
        /\ h[7] = 0 /\ h[8] = 0
    BY <1>2
  <2>2. Body(r, f) = m /\ FixedPart[r] = 6
    BY <1>5 DEF Body, HostTx80211, FixedPart, L
  <2> HIDE DEF h
  <2>3. /\ m \in Seq(Nat) /\ Len(m) = Len(h) + L
        /\ \A k \in 1 .. Len(h) + L : m[k] = IF k <= Len(h) THEN h[k] ELSE f[k - Len(h)]
    BY <1>1, <2>1, ConcatProperties, Zenon DEF L
  <2>4. <<0, 0>> \in Seq(Byte) /\ Len(<<0, 0>>) = 2
    BY DEF Byte
  <2>5. /\ g \in Seq(Byte) /\ Len(g) = Len(<<0, 0>>) + L
        /\ \A k \in 1 .. Len(<<0, 0>>) + L :
             g[k] = IF k <= Len(<<0, 0>>) THEN <<0, 0>>[k] ELSE f[k - Len(<<0, 0>>)]
    BY <2>4, ConcatProperties, Zenon DEF L
  <2> HIDE DEF g, m
  <2>6. Len(g) = 2 + L /\ \A k \in 1 .. 2 + L : g[k] = IF k <= 2 THEN 0 ELSE f[k - 2]
    BY <1>1, <2>4, <2>5
  <2>7. Len(m) = 8 + L /\ m[5] = Low(L) /\ m[6] = High(L)
    BY <1>1, <2>1, <2>3
  <2>8. \A k \in 1 .. 2 + L : m[6 + k] = g[k]
    <3> SUFFICES ASSUME NEW k \in 1 .. 2 + L PROVE m[6 + k] = g[k]
      OBVIOUS
    <3>1. CASE k = 1 \/ k = 2
      BY <1>1, <2>1, <2>3, <2>6, <3>1, SMTT(30)
    <3>2. CASE k > 2
      <4>1. 6 + k \in 1 .. 8 + L /\ ~(6 + k <= 8) /\ (6 + k) - 8 = k - 2
        BY <1>1, <3>2
      <4>2. m[6 + k] = f[k - 2]
        BY <2>1, <2>3, <4>1
      <4> QED
        BY <1>1, <2>6, <3>2, <4>2
    <3> QED
      BY <1>1, <3>1, <3>2
  <2> DEFINE a == SubSeq(m, 7, 6 + L)
             b == SubSeq(g, 1, L)
  <2>9. /\ a \in Seq(Nat) /\ Len(a) = L
        /\ \A k \in 1 .. L : a[k] = m[6 + k]
    BY <1>1, <2>3, <2>7
  <2>10. /\ b \in Seq(Byte) /\ Len(b) = L
         /\ \A k \in 1 .. L : b[k] = g[k]
    BY <1>1, <2>5, <2>6
  <2> HIDE DEF a, b
  <2>11. b \in Seq(Nat)
    <3>1. Byte \subseteq Nat
      BY DEF Byte
    <3> QED
      BY <2>10, <3>1, SeqMonotonic
  <2>12. a = b
    <3>1. \A k \in 1 .. L : a[k] = b[k]
      BY <1>1, <2>8, <2>9, <2>10, SMTT(30)
    <3> QED
      BY <2>9, <2>10, <2>11, <3>1, SeqEqual
  <2>13. Parsed(r, m) = [fits |-> TRUE, frame |-> a]
    <3>1. m[FixedPart[r] - 1] + 256 * m[FixedPart[r]] = L
      BY <1>2, <2>2, <2>7
    <3>2. /\ ~(FixedPart[r] + L > Len(m))
          /\ SubSeq(m, FixedPart[r] + 1, FixedPart[r] + L) = a
      BY <1>1, <2>2, <2>7 DEF a
    <3> QED
      BY <3>1, <3>2, Zenon DEF Parsed
  <2> QED
    BY <1>5, <2>2, <2>10, <2>12, <2>13 DEF Sent, b, g, L
<1> QED
  BY <1>3, <1>4, <1>5 DEF FrameWrapped

-----------------------------------------------------------------------------
(* The inductive invariant.                                                *)
Chan    == Channels \union {0, ELSEWHERE, BOOTSTRAP, OVERLAY_CHANNEL}
Arg     == INT8 \union 2 .. 255
Status  == {"none", "ok", "error", "invalid", "no_mem", "not_found", "not_supported"}
Done    == {"all", "part", "nothing"}
Harm    == {"no_room", "reboot", "reapplied", "retuned", "repowered", "early", "no_queue",
            "no_task", "overlap"}
Boots   == [at: ApplySteps \union {"phy", "extras", "wireless", "loop"}, runs: 0 .. MaxReady]
Calls   == [at: {"host", "slave", "tuning"}, req: Req, n: Arg, frame: Seq(Byte)]
Answers == [req: Req, status: Status, done: Done, frame: Seq(Byte)]
Radios  == [country: BOOLEAN, chan: Chan, p11: BOOLEAN, quarter: 8 .. 84 \union {UNTOLD}, agc: BOOLEAN,
            cca: BOOLEAN, low: BOOLEAN, max_gain: Arg]
Infos   == [chan: Channels \union {180}, dbm: INT8, p11: BOOLEAN, cca: BOOLEAN, low: BOOLEAN,
            max_gain: Arg]
Readies == [at: ApplySteps \union {"idle"}, runs: 0 .. MaxReady]
Raws    == [q: BOOLEAN, task: 0 .. 2, on: BOOLEAN, items: Seq(Nat), air: Nat,
            fwd: [1 .. 2 -> Nat], got: Seq(Nat)]
Ups     == [cb: Nat, ctx: Nat, reg: -1 .. MaxFrame, rx: {"idle", "arrived", "checked"},
            told: Seq(Nat)]

(* Types.                                                                  *)
Basics ==
  /\ part \in Parts /\ room \in Rooms /\ links \in LinkSets /\ registry \subseteq Req
  /\ boot \in Boots /\ call \in Calls /\ call.n \in Args(call.req)
  /\ answer \in Answers /\ reqs \in 0 .. MaxRequest /\ told \in BOOLEAN
  /\ radio \in Radios /\ info \in Infos /\ ready \in Readies
  /\ raw \in Raws /\ Len(raw.items) <= RAW_QUEUE_LEN /\ up \in Ups /\ harm \subseteq Harm

(* While nothing is registered yet s_state is as it started, and the       *)
(* switches agree with it always; 11p and the channel do once they have    *)
(* been set, and while nobody is setting them.                             *)
RadioKept ==
  /\ registry = {} => info = Info0
  /\ boot.at \in ApplySteps \union {"phy"} => registry = {}
  /\ call.at = "tuning" => call.req = "SET_CHANNEL" /\ call.req \in registry
  /\ info.cca = radio.cca /\ info.low = radio.low /\ info.max_gain = radio.max_gain
  /\ info.p11 = radio.p11 \/ "reapplied" \in harm \/ boot.at \in {"country", "p11"}
  /\ call.at # "tuning" /\ boot.at \notin ApplySteps /\ ready.at # "tune" =>
       /\ radio.chan \in Channels \union {OVERLAY_CHANNEL, ELSEWHERE}
       /\ \/ OVERLAY_CHANNEL # Info0.chan \/ info.chan = radio.chan
          \/ "reapplied" \in harm \/ (radio.chan = ELSEWHERE /\ "retuned" \in harm)
  /\ PowerAsReported

(* A table is registered by the time app_main is past it, and a host knows *)
(* the capabilities only once it is past all, or there is a harm.          *)
Tabled(table, at) == boot.at \in at => Elems(table) \subseteq registry \/ "no_room" \in harm
AnswersKept ==
  /\ call.at # "host" => answer = NoAnswer
  /\ Tabled(PhyTable, {"extras", "wireless", "loop"})
  /\ Tabled(ExtrasTable, {"wireless", "loop"})
  /\ Tabled(WirelessTable, {"loop"})
  /\ told => boot.at = "loop" \/ harm \intersect {"early", "reboot"} # {}
  /\ AnswerTrue /\ CapsHonest /\ FrameIntact

(* Frames that were captured, are queued, are being forwarded and have     *)
(* arrived are in this order: there is one task as long as the queue was   *)
(* made at once.                                                           *)
Rising(q) == \A i, j \in 1 .. Len(q) : i < j => q[i] < q[j]
Under(q, n) == \A i \in 1 .. Len(q) : q[i] < n
Over(q, n)  == \A i \in 1 .. Len(q) : n < q[i]
RawKept ==
  "no_queue" \notin harm =>
    /\ raw.task <= 1 /\ raw.fwd[2] = 0 /\ (raw.task = 1 => raw.q)
    /\ Rising(raw.got) /\ Rising(raw.items)
    /\ \A i \in 1 .. Len(raw.got) : Over(raw.items, raw.got[i])
    /\ Under(raw.got, raw.air + 1) /\ Under(raw.items, raw.air + 1) /\ Over(raw.items, 0)
    /\ raw.fwd[1] <= raw.air
    /\ raw.fwd[1] # 0 => Under(raw.got, raw.fwd[1]) /\ Over(raw.items, raw.fwd[1])

(* Between two registrations the context is the callback's; while one      *)
(* checks, nobody registers.                                               *)
UpcallKept ==
  "overlap" \notin harm =>
    /\ up.rx = "checked" => up.cb # 0
    /\ up.reg = -1 => up.ctx = up.cb
    /\ up.reg # -1 => up.reg = up.cb
    /\ UpcallMatches

OverlayInv == Basics /\ RadioKept /\ AnswersKept /\ RawKept /\ UpcallKept

-----------------------------------------------------------------------------
(* What the slave answers.                                                 *)

(* An answer that may be given to the request under way.                   *)
Fit(status, done, frame) ==
  /\ status \in Status /\ done \in Done /\ frame \in Seq(Byte)
  /\ status = "ok" => done = "all" \/ call.req \in {"SET_EVENT_MASK", "SET_RX_GAIN"}
  /\ status \notin {"ok", "none"} =>
       done = "nothing" \/ call.req \in {"SET_RX_GAIN", "SET_CHANNEL"}
  /\ status = "not_found" => call.req \notin registry
  /\ call.req \in Caps /\ status = "not_supported" =>
       call.req \in {"SET_CCA", "SET_LOW_RATE", "GET_PHY_RSSI"} \union Passed
  /\ call.req \notin Caps /\ status = "ok" =>
       call.req \in {"SET_RX_GAIN", "SET_CCA", "SET_LOW_RATE"}
  /\ status = "ok" /\ call.req \in FrameWrapped => frame = Sent(call.req, call.frame)

Fits(a) == Fit(a.status, a.done, a.frame) /\ a.req = call.req
Answered == call' = [call EXCEPT !.at = "host"] /\ answer' \in Answers /\ Fits(answer')

(* Losing a fitting answer leaves a fitting one.                           *)
LEMMA SaysFits ==
  ASSUME Basics, NEW status, NEW done, NEW frame, Says(status, done, frame),
         Fit(status, done, frame)
  PROVE  Answered
<1>1. PICK t \in {status, "none"} :
        answer' = [req |-> call.req, status |-> t, done |-> done, frame |-> frame]
  BY DEF Says
<1>2. Fit(t, done, frame)
  BY DEF Fit, Status
<1>3. call.req \in Req
  BY DEF Basics, Calls
<1>4. answer' \in Answers /\ Fits(answer')
  BY <1>1, <1>2, <1>3 DEF Fits, Fit, Answers
<1> QED
  BY <1>4 DEF Answered, Says

(* An answer without a body.                                               *)
FitSimple(status, done) ==
  /\ status \in Status /\ done \in Done
  /\ status = "ok" => /\ done = "all" \/ call.req \in {"SET_EVENT_MASK", "SET_RX_GAIN"}
                      /\ call.req \notin FrameWrapped
  /\ status \notin {"ok", "none"} =>
       done = "nothing" \/ call.req \in {"SET_RX_GAIN", "SET_CHANNEL"}
  /\ status = "not_found" => call.req \notin registry
  /\ call.req \in Caps /\ status = "not_supported" =>
       call.req \in {"SET_CCA", "SET_LOW_RATE", "GET_PHY_RSSI"} \union Passed
  /\ call.req \notin Caps /\ status = "ok" =>
       call.req \in {"SET_RX_GAIN", "SET_CCA", "SET_LOW_RATE"}

(* ... is one.                                                             *)
LEMMA SimpleFits ==
  ASSUME Basics, NEW status, NEW done, Simple(status, done), FitSimple(status, done)
  PROVE  Answered
<1>1. <<>> \in Seq(Byte)
  OBVIOUS
<1>2. Fit(status, done, <<>>)
  BY <1>1 DEF Fit, FitSimple
<1> QED
  BY <1>2, SaysFits DEF Simple

(* The requests that are marked whatever the chip, and those marked by one *)
(* function.                                                               *)
LEMMA OwnCaps ==
  /\ {"SET_CHANNEL", "SET_PHY_11P", "SET_TX_POWER", "SET_COUNTRY_PERM", "GET_INFO", "GET_CAPS",
      "SET_PROMISC", "SET_EVENT_MASK"} \subseteq Caps
  /\ "SET_AGC_MAX_GAIN" \in Caps <=> Resolved({"phy_agc_max_gain_set"})
  /\ "SET_RX_GAIN" \in Caps <=> Resolved({"phy_force_rx_gain"})
<1>1. {"SET_CHANNEL", "SET_PHY_11P", "SET_TX_POWER", "SET_COUNTRY_PERM", "GET_INFO", "GET_CAPS",
       "SET_PROMISC", "SET_EVENT_MASK"} \subseteq Caps
  BY OtherElems DEF Caps, PhyCaps, ExtrasCaps
<1>2. "SET_AGC_MAX_GAIN" \notin Hooked /\ "SET_RX_GAIN" \notin Hooked
  BY HookedElems DEF CountWrapped, PhyWrapped
<1>3. ASSUME NEW r \in {"SET_AGC_MAX_GAIN", "SET_RX_GAIN"}
      PROVE  r \notin ExtrasCaps /\ r \notin WirelessCaps
  BY OtherElems DEF ExtrasCaps, WirelessCaps, WifiWrapped, EspnowWrapped, I154Wrapped
<1> QED
  BY <1>1, <1>2, <1>3 DEF Caps, PhyCaps

(* A request that is marked on every chip is answered.                     *)
LEMMA MarkedFits ==
  ASSUME Basics, call.req \in Caps, call.req \notin FrameWrapped,
         Simple("ok", "all") \/ Simple("error", "nothing") \/ Simple("invalid", "nothing")
           \/ Simple("no_mem", "nothing")
  PROVE  Answered
<1>1. /\ FitSimple("ok", "all") /\ FitSimple("error", "nothing") /\ FitSimple("invalid", "nothing")
      /\ FitSimple("no_mem", "nothing")
  BY DEF FitSimple, Status, Done
<1> QED
  BY <1>1, SimpleFits

(* The handlers of the radio.                                              *)
Handler ==
  \/ on_set_channel \/ on_set_channel_tune \/ on_set_phy_11p \/ on_set_tx_power
  \/ on_set_rx_gain \/ on_set_agc_max_gain \/ on_set_cca \/ on_set_low_rate
  \/ on_set_country_permissive
Tuning == call' = [call EXCEPT !.at = "tuning"] /\ UNCHANGED answer /\ Handling("SET_CHANNEL")

(* They answer, or leave the tuning for later.                             *)
LEMMA RadioAnswers ==
  ASSUME Basics, RadioKept, Handler
  PROVE  Answered \/ Tuning
<1>1. FrameWrapped = {"TX_80211", "ESPNOW_SEND", "IEEE154_TX_RAW"}
  BY DEF FrameWrapped
<1>2. CASE on_set_channel
  <2>1. call.req = "SET_CHANNEL"
    BY <1>2 DEF on_set_channel, Handling
  <2>2. FitSimple("error", "nothing") /\ FitSimple("error", "part")
    BY <2>1 DEF FitSimple, Status, Done
  <2>3. Simple("error", "nothing") \/ Simple("error", "part") \/ Tuning
    BY <1>2 DEF on_set_channel, Tuning
  <2> QED
    BY <2>2, <2>3, SimpleFits
<1>3. CASE on_set_channel_tune
  <2>1. call.req = "SET_CHANNEL" /\ Simple("ok", "all")
    BY <1>3 DEF on_set_channel_tune, RadioKept
  <2> QED
    BY <1>1, <2>1, OwnCaps, MarkedFits
<1>4. CASE on_set_phy_11p \/ on_set_tx_power \/ on_set_country_permissive
  <2>1. /\ call.req \in {"SET_PHY_11P", "SET_TX_POWER", "SET_COUNTRY_PERM"}
        /\ Simple("ok", "all") \/ Simple("error", "nothing")
    BY <1>4 DEF on_set_phy_11p, on_set_tx_power, on_set_country_permissive, Handling
  <2> QED
    BY <1>1, <2>1, OwnCaps, MarkedFits
<1>5. CASE on_set_rx_gain
  <2>1. call.req = "SET_RX_GAIN"
    BY <1>5 DEF on_set_rx_gain, Handling
  <2>2. \/ \E done \in Done : Simple("ok", done)
        \/ ~Resolved({"phy_force_rx_gain"}) /\ \E done \in Done : Simple("not_supported", done)
    BY <1>5 DEF on_set_rx_gain, Done
  <2>3. \A done \in Done : FitSimple("ok", done)
    BY <1>1, <2>1 DEF FitSimple, Status
  <2>4. ~Resolved({"phy_force_rx_gain"}) => \A done \in Done : FitSimple("not_supported", done)
    BY <1>1, <2>1, OwnCaps DEF FitSimple, Status
  <2> QED
    BY <2>2, <2>3, <2>4, SimpleFits
<1>6. CASE on_set_agc_max_gain
  <2>1. call.req = "SET_AGC_MAX_GAIN"
    BY <1>6 DEF on_set_agc_max_gain, Handling
  <2>2. IF Resolved({"phy_agc_max_gain_set"}) THEN Simple("ok", "all")
                                              ELSE Simple("not_supported", "nothing")
    BY <1>6 DEF on_set_agc_max_gain, Switched
  <2>3. IF Resolved({"phy_agc_max_gain_set"}) THEN FitSimple("ok", "all")
                                              ELSE FitSimple("not_supported", "nothing")
    BY <1>1, <2>1, OwnCaps DEF FitSimple, Status, Done
  <2> QED
    BY <2>2, <2>3, SimpleFits
<1>7. CASE on_set_cca \/ on_set_low_rate
  <2>1. call.req \in {"SET_CCA", "SET_LOW_RATE"}
    BY <1>7 DEF on_set_cca, on_set_low_rate, Handling
  <2>2. Simple("ok", "all") \/ Simple("not_supported", "nothing")
    BY <1>7 DEF on_set_cca, on_set_low_rate, Switched
  <2>3. FitSimple("ok", "all") /\ FitSimple("not_supported", "nothing")
    BY <1>1, <2>1 DEF FitSimple, Status, Done
  <2> QED
    BY <2>2, <2>3, SimpleFits
<1> QED
  BY <1>2, <1>3, <1>4, <1>5, <1>6, <1>7 DEF Handler

(* All other handlers, and there being none.                               *)
Other == OtherNext \/ on_set_promisc \/ handle_custom_rpc_request

(* They answer.                                                            *)
LEMMA OtherAnswers ==
  ASSUME Basics, Other
  PROVE  Answered
<1>1. FrameWrapped = {"TX_80211", "ESPNOW_SEND", "IEEE154_TX_RAW"}
  BY DEF FrameWrapped
<1>2. CASE on_get_info \/ on_get_caps
  <2>1. /\ call.req \in {"GET_INFO", "GET_CAPS"}
        /\ Simple("ok", "all") \/ Simple("no_mem", "nothing")
    BY <1>2 DEF on_get_info, on_get_caps, Handling, WithBody
  <2> QED
    BY <1>1, <2>1, OwnCaps, MarkedFits
<1>3. CASE on_set_event_mask
  <2>1. call.req = "SET_EVENT_MASK" /\ Simple("ok", "nothing")
    BY <1>3 DEF on_set_event_mask, Handling
  <2>2. FitSimple("ok", "nothing")
    BY <1>1, <2>1, OwnCaps DEF FitSimple, Status, Done
  <2> QED
    BY <2>1, <2>2, SimpleFits
<1>4. ASSUME NEW r \in Hooked, on_hooked(r) PROVE Answered
  <2>1. call.req = r /\ Hook(r) /\ r \notin FrameWrapped
    BY <1>1, <1>4, HookedElems DEF on_hooked, Handling, CountWrapped, PhyWrapped
  <2>2. CASE ~Resolved(HookOf(r))
    <3>1. Simple("not_supported", "nothing") /\ call.req \notin Caps
      BY <2>1, <2>2, CapsOf DEF Hook
    <3>2. FitSimple("not_supported", "nothing")
      BY <3>1 DEF FitSimple, Status, Done
    <3> QED
      BY <3>1, <3>2, SimpleFits
  <2>3. CASE Resolved(HookOf(r))
    <3>1. call.req \in Caps
      BY <2>1, <2>3, CapsOf
    <3>2. CASE r = "GET_PHY_RSSI"
      <4>1. Simple("ok", "all") \/ Simple("no_mem", "nothing") \/ Simple("not_supported", "nothing")
        BY <2>1, <2>3, <3>2 DEF Hook, WithBody
      <4>2. FitSimple("not_supported", "nothing")
        BY <2>1, <3>2 DEF FitSimple, Status, Done
      <4> QED
        BY <2>1, <3>1, <4>1, <4>2, MarkedFits, SimpleFits
    <3>3. CASE r # "GET_PHY_RSSI"
      <4>1. Simple("ok", "all") \/ Simple("invalid", "nothing")
        BY <2>1, <2>3, <3>3 DEF Hook
      <4> QED
        BY <2>1, <3>1, <4>1, MarkedFits
    <3> QED
      BY <3>2, <3>3
  <2> QED
    BY <2>2, <2>3
<1>5. ASSUME NEW r \in Passed, on_passed(r) PROVE Answered
  <2>1. call.req = r /\ r \notin FrameWrapped
    BY <1>1, <1>5 DEF on_passed, Handling, Passed, WifiWrapped, EspnowWrapped, I154Wrapped
  <2>2. CASE Absent(r)
    <3>1. Simple("not_supported", "nothing") /\ call.req \notin Caps
      BY <1>5, <2>1, <2>2, CapsOf DEF on_passed
    <3>2. FitSimple("not_supported", "nothing")
      BY <3>1 DEF FitSimple, Status, Done
    <3> QED
      BY <3>1, <3>2, SimpleFits
  <2>3. CASE ~Absent(r)
    <3>1. /\ call.req \in Caps
          /\ \/ Simple("ok", "all") \/ Simple("error", "nothing")
             \/ Simple("not_supported", "nothing")
      BY <1>5, <2>1, <2>3, CapsOf DEF on_passed
    <3>2. FitSimple("not_supported", "nothing")
      BY <2>1 DEF FitSimple, Status, Done
    <3> QED
      BY <2>1, <3>1, <3>2, MarkedFits, SimpleFits
  <2> QED
    BY <2>2, <2>3
<1>6. ASSUME NEW r \in FrameWrapped, on_frame(r) PROVE Answered
  <2> DEFINE p == Parsed(r, Body(r, call.frame))
  <2>1. call.req = r /\ call.frame \in Seq(Byte)
    BY <1>6 DEF on_frame, Handling, Basics, Calls
  <2>2. p.fits /\ p.frame = Sent(r, call.frame) /\ p.frame \in Seq(Byte)
    BY <2>1, FrameParsed
  <2> HIDE DEF p
  <2>3. IF Absent(r) THEN Simple("not_supported", "nothing")
                     ELSE Says("ok", "all", p.frame) \/ Simple("error", "nothing")
    BY <1>6, <2>2 DEF on_frame, p
  <2>4. r \in Caps <=> ~Absent(r)
    BY CapsOf
  <2>5. CASE Absent(r)
    <3>1. FitSimple("not_supported", "nothing")
      BY <2>1, <2>4, <2>5 DEF FitSimple, Status, Done
    <3> QED
      BY <2>3, <2>5, <3>1, SimpleFits
  <2>6. CASE ~Absent(r)
    <3>1. Fit("ok", "all", p.frame) /\ FitSimple("error", "nothing")
      BY <2>1, <2>2, <2>4, <2>6 DEF Fit, FitSimple, Status, Done
    <3> QED
      BY <2>3, <2>6, <3>1, SaysFits, SimpleFits
  <2> QED
    BY <2>5, <2>6
<1>7. CASE on_set_promisc
  <2>1. call.req = "SET_PROMISC" /\ (Simple("ok", "all") \/ Simple("error", "nothing"))
    BY <1>7 DEF on_set_promisc, Handling
  <2> QED
    BY <1>1, <2>1, OwnCaps, MarkedFits
<1>8. CASE handle_custom_rpc_request
  <2>1. FitSimple("not_found", "nothing") /\ Simple("not_found", "nothing")
    BY <1>8 DEF handle_custom_rpc_request, FitSimple, Status, Done
  <2> QED
    BY <2>1, SimpleFits
<1> QED
  BY <1>2, <1>3, <1>4, <1>5, <1>6, <1>7, <1>8 DEF Other, OtherNext

-----------------------------------------------------------------------------
(* Steps.                                                                  *)
Registers == phy_rpc_handlers_register \/ phy_rpc_extras_register \/ phy_rpc_wireless_register
Calling   == \E r \in Used : Call(r)
Besides   == UNCHANGED <<bootVars, boot, registry, call, answer, reqs, told, radio, info, ready,
                         up, harm>>
Takes(t)  == raw.q /\ raw.fwd[t] = 0 /\ raw.items # <<>> /\ TakeRaw(t) /\ Besides
Gives(t)  == /\ raw.fwd[t] # 0 /\ Besides
             /\ \E got \in {raw.got, Append(raw.got, raw.fwd[t])} :
                  raw' = [raw EXCEPT !.fwd[t] = 0, !.got = got]
Forwards  == \E t \in 1 .. 2 : t <= raw.task /\ (Takes(t) \/ Gives(t))

(* Every step is one of these.                                             *)
LEMMA Kinds ==
  ASSUME OverlayNext
  PROVE  \/ BootApply \/ Reboot \/ Registers \/ Calling \/ WifiReady \/ on_wifi_event
         \/ Handler \/ Other \/ promisc_cb \/ Forwards \/ UpNext
<1>1. ASSUME NEW t \in 1 .. 2, raw_forward_task(t) PROVE Reboot \/ Forwards
  BY <1>1 DEF raw_forward_task, Forwards, Takes, Gives, Besides
<1>2. BootFails => Reboot
  BY DEF BootFails
<1>3. RadioNext => WifiReady \/ on_wifi_event \/ Handler
  BY DEF RadioNext, Handler
<1>4. RawNext => Other \/ promisc_cb \/ Reboot \/ Forwards
  BY <1>1 DEF RawNext, Other
<1>5. BootNext => BootApply \/ Reboot \/ Registers
  BY <1>2 DEF BootNext, Registers
<1> QED
  BY <1>3, <1>4, <1>5 DEF OverlayNext, Calling, Other

(* What the handlers leave alone.                                          *)
LEMMA HandlersLeave ==
  /\ Handler => UNCHANGED <<bootVars, boot, registry, reqs, ready, up, raw, told, harm>>
  /\ Other   => UNCHANGED <<bootVars, boot, registry, reqs, ready, up, info>>
<1>1. Handler => UNCHANGED <<bootVars, boot, registry, reqs, ready, up, raw, told, harm>>
  BY DEF Handler, on_set_channel, on_set_channel_tune, on_set_phy_11p, on_set_tx_power,
         on_set_rx_gain, on_set_agc_max_gain, on_set_cca, on_set_low_rate,
         on_set_country_permissive, Plain, RestOfSlave
<1>2. Other => UNCHANGED <<bootVars, boot, registry, reqs, ready, up, info>>
  BY DEF Other, OtherNext, on_get_info, on_get_caps, on_set_event_mask, on_hooked, on_passed,
         on_frame, on_set_promisc, handle_custom_rpc_request, Plain, Quiet, RestOfSlave
<1> QED
  BY <1>1, <1>2

(* A harm is never forgotten.                                              *)
LEMMA HarmGrows ==
  ASSUME OverlayNext, harm \subseteq Harm
  PROVE  harm \subseteq harm' /\ harm' \subseteq Harm
<1>1. CASE Other
  <2>1. ASSUME NEW r \in Hooked, on_hooked(r) PROVE harm \subseteq harm' /\ harm' \subseteq Harm
    BY <2>1 DEF on_hooked, SetUntold, Harm
  <2>2. CASE on_get_caps
    BY <2>2 DEF on_get_caps, Harm
  <2>3. CASE on_set_promisc
    BY <2>3 DEF on_set_promisc, Harm
  <2>4. CASE \/ on_get_info \/ on_set_event_mask \/ \E r \in Passed : on_passed(r)
             \/ (\E r \in FrameWrapped : on_frame(r)) \/ handle_custom_rpc_request
    BY <2>4 DEF on_get_info, on_set_event_mask, on_passed, on_frame, handle_custom_rpc_request
  <2> QED
    BY <1>1, <2>1, <2>2, <2>3, <2>4 DEF Other, OtherNext
<1>2. CASE UpNext
  BY <1>2 DEF UpNext, RegisterCallback, RegisterContext, Emit, UpcallCheck, UpcallCall, Harm
<1>3. CASE Reboot \/ Registers
  BY <1>3 DEF Reboot, Registers, Register, phy_rpc_handlers_register, phy_rpc_extras_register,
              phy_rpc_wireless_register, Harm
<1>4. CASE on_wifi_event
  BY <1>4 DEF on_wifi_event, Harm
<1>5. CASE BootApply \/ Calling \/ WifiReady \/ promisc_cb \/ Forwards
  BY <1>5 DEF BootApply, Calling, Call, WifiReady, promisc_cb, Forwards, Takes, Gives, Besides
<1> QED
  BY <1>1, <1>2, <1>3, <1>4, <1>5, Kinds, HandlersLeave

-----------------------------------------------------------------------------
(* Types.                                                                  *)

(* The arguments a host gives.                                             *)
LEMMA ArgsTyped == \A r \in Req : Args(r) \subseteq Arg
<1>1. /\ Channels \subseteq Arg /\ Dbm \subseteq Arg /\ {30, 255} \subseteq Arg
      /\ {100} \subseteq Arg /\ {20, 40, 80} \subseteq Arg /\ {0, 1} \subseteq Arg
  <2>1. Channels \subseteq 2 .. 255 /\ Dbm \subseteq INT8
    BY OverlayAssumption
  <2>2. \A n \in {30, 255, 100, 20, 40, 80, 0, 1} : n \in Arg
    BY DEF Arg, INT8
  <2> QED
    BY <2>1, <2>2 DEF Arg
<1> QED
  BY <1>1 DEF Args

(* A step of the setup, of app_main or the event task.                     *)
LEMMA AppliedTyped ==
  ASSUME NEW at \in ApplySteps, radio \in Radios
  PROVE  Applied(at) \in Radios
  BY DEF ApplySteps, Applied, Radios, Chan

(* An answer keeps the types of the request.                               *)
LEMMA AnsweredTyped ==
  ASSUME Basics, Answered \/ Tuning
  PROVE  call' \in Calls /\ call'.n \in Args(call'.req) /\ answer' \in Answers
<1>1. /\ call \in Calls /\ answer \in Answers /\ call.n \in Args(call.req)
      /\ \E at \in {"host", "tuning"} : call' = [call EXCEPT !.at = at]
      /\ answer' \in Answers
  BY DEF Answered, Tuning, Basics
<1>2. call' \in Calls /\ call'.n = call.n /\ call'.req = call.req
  BY <1>1 DEF Calls
<1> QED
  BY <1>1, <1>2

(* ... and the handlers of the radio keep the others.                      *)
LEMMA HandlerTyped ==
  ASSUME Basics, RadioKept, Handler
  PROVE  radio' \in Radios /\ info' \in Infos
<1>1. /\ radio \in Radios /\ info \in Infos /\ call.n \in Arg /\ call.n \in Args(call.req)
      /\ call.req \in Req
  BY DEF Basics, Calls
<1>2. /\ call.req = "SET_CHANNEL" => call.n \in Channels
      /\ call.req = "SET_TX_POWER" => call.n \in INT8
  BY <1>1, OverlayAssumption DEF Args
<1>3. CASE on_set_channel
  BY <1>1, <1>3 DEF on_set_channel, Radios, Chan
<1>4. CASE on_set_channel_tune
  BY <1>1, <1>2, <1>4 DEF on_set_channel_tune, TunedTo, RadioKept, Radios, Infos, Chan
<1>5. CASE on_set_phy_11p \/ on_set_country_permissive
  <2>1. (call.n # 0) \in BOOLEAN
    OBVIOUS
  <2>2. \/ \E b \in BOOLEAN : radio' = [radio EXCEPT !.p11 = b] /\ info' = [info EXCEPT !.p11 = b]
        \/ radio' = [radio EXCEPT !.country = TRUE] /\ UNCHANGED info
        \/ UNCHANGED <<radio, info>>
    BY <1>5, <2>1, Zenon DEF on_set_phy_11p, on_set_country_permissive
  <2>3. ASSUME NEW b \in BOOLEAN, radio' = [radio EXCEPT !.p11 = b],
               info' = [info EXCEPT !.p11 = b]
        PROVE  radio' \in Radios /\ info' \in Infos
    BY <1>1, <2>3 DEF Radios, Infos
  <2>4. CASE radio' = [radio EXCEPT !.country = TRUE] /\ UNCHANGED info
    BY <1>1, <2>4 DEF Radios
  <2> QED
    BY <1>1, <2>2, <2>3, <2>4
<1>6. CASE on_set_tx_power
  <2>1. call.n \in INT8
    BY <1>2, <1>6 DEF on_set_tx_power, Handling
  <2>2. Quarters(call.n) \in 8 .. 84
    BY <2>1 DEF Quarters, ToInt8, INT8
  <2> HIDE DEF INT8
  <2> QED
    BY <1>1, <1>6, <2>1, <2>2 DEF on_set_tx_power, Radios, Infos
<1>7. CASE on_set_rx_gain
  BY <1>1, <1>7, ZenonT(60) DEF on_set_rx_gain, Radios
<1>8. CASE on_set_agc_max_gain
  <2>1. \/ radio' = [radio EXCEPT !.max_gain = call.n] /\ info' = [info EXCEPT !.max_gain = call.n]
        \/ UNCHANGED <<radio, info>>
    BY <1>8 DEF on_set_agc_max_gain, Switched
  <2> QED
    BY <1>1, <2>1 DEF Radios, Infos
<1>9. CASE on_set_cca \/ on_set_low_rate
  <2>1. \/ \E b \in BOOLEAN : \/ /\ radio' = [radio EXCEPT !.cca = b]
                                 /\ info' = [info EXCEPT !.cca = b]
                              \/ /\ radio' = [radio EXCEPT !.low = b]
                                 /\ info' = [info EXCEPT !.low = b]
        \/ UNCHANGED <<radio, info>>
    BY <1>9 DEF on_set_cca, on_set_low_rate, Switched
  <2> QED
    BY <1>1, <2>1 DEF Radios, Infos
<1> QED
  BY <1>3, <1>4, <1>5, <1>6, <1>7, <1>8, <1>9 DEF Handler

(* What libphy sets, s_state knowing nothing of it.                        *)
LEMMA HookSets ==
  ASSUME NEW r, on_hooked(r)
  PROVE  \/ UNCHANGED <<radio, harm>>
         \/ radio' = [radio EXCEPT !.chan = ELSEWHERE] /\ "retuned" \in harm'
         \/ radio' = [radio EXCEPT !.quarter = UNTOLD] /\ "repowered" \in harm'
  BY DEF on_hooked, SetUntold

(* The other handlers change the radio or the capture.                     *)
LEMMA OtherTyped ==
  ASSUME Basics, Other
  PROVE  radio' \in Radios /\ told' \in BOOLEAN /\ raw' \in Raws /\ raw'.items = raw.items
<1>1. radio \in Radios /\ told \in BOOLEAN /\ raw \in Raws
  BY DEF Basics
<1>2. CASE on_get_caps
  <2>1. /\ UNCHANGED <<radio, raw>>
        /\ told' = (told \/ answer'.status = "ok")
    BY <1>2 DEF on_get_caps, Quiet
  <2>2. told' \in BOOLEAN
    BY <2>1, Zenon
  <2> QED
    BY <1>1, <2>1, <2>2
<1>3. ASSUME NEW r \in Hooked, on_hooked(r)
      PROVE  radio' \in Radios /\ UNCHANGED <<told, raw>>
  <2>1. \/ radio' = [radio EXCEPT !.chan = ELSEWHERE] \/ radio' = radio
        \/ radio' = [radio EXCEPT !.quarter = UNTOLD]
    BY <1>3, HookSets
  <2>2. ELSEWHERE \in Chan
    BY DEF Chan
  <2> QED
    BY <1>1, <1>3, <2>1, <2>2 DEF on_hooked, Plain, Radios
<1>4. CASE on_set_promisc
  <2>1. PICK made \in {TRUE, FALSE}, task \in {0, 1}, err \in {TRUE, FALSE} :
          raw' = [raw EXCEPT !.q = @ \/ ((call.n # 0 /\ ~raw.q) /\ made),
                             !.task = IF (call.n # 0 /\ ~raw.q) /\ @ < 2 THEN @ + task ELSE @,
                             !.on = IF err THEN @ ELSE call.n # 0]
    BY <1>4 DEF on_set_promisc
  <2>2. /\ (raw.q \/ ((call.n # 0 /\ ~raw.q) /\ made)) \in BOOLEAN
        /\ (IF err THEN raw.on ELSE call.n # 0) \in BOOLEAN
    <3>1. (call.n # 0) \in BOOLEAN /\ raw.on \in BOOLEAN
      BY <1>1 DEF Raws
    <3> QED
      BY <3>1, Zenon
  <2>3. (IF (call.n # 0 /\ ~raw.q) /\ raw.task < 2 THEN raw.task + task ELSE raw.task) \in 0 .. 2
    BY <1>1 DEF Raws
  <2>4. ASSUME NEW q \in BOOLEAN, NEW k \in 0 .. 2, NEW on \in BOOLEAN
        PROVE  /\ [raw EXCEPT !.q = q, !.task = k, !.on = on] \in Raws
               /\ [raw EXCEPT !.q = q, !.task = k, !.on = on].items = raw.items
    BY <1>1 DEF Raws
  <2>5. raw' \in Raws /\ raw'.items = raw.items
    BY <2>1, <2>2, <2>3, <2>4, ZenonT(40)
  <2>6. UNCHANGED <<told, radio>>
    BY <1>4 DEF on_set_promisc
  <2> QED
    BY <1>1, <2>5, <2>6
<1>5. CASE \/ on_get_info \/ on_set_event_mask \/ \E r \in Passed : on_passed(r)
           \/ (\E r \in FrameWrapped : on_frame(r)) \/ handle_custom_rpc_request
  <2>1. UNCHANGED <<radio, told, raw>>
    BY <1>5 DEF on_get_info, on_set_event_mask, on_passed, on_frame, handle_custom_rpc_request,
                Quiet
  <2> QED
    BY <1>1, <2>1
<1> QED
  BY <1>1, <1>2, <1>3, <1>4, <1>5 DEF Other, OtherNext

(* The capture's steps keep its types.                                     *)
LEMMA RawTyped ==
  ASSUME Basics, promisc_cb \/ Forwards
  PROVE  raw' \in Raws /\ Len(raw'.items) <= RAW_QUEUE_LEN
<1>1. /\ raw \in Raws /\ raw.items \in Seq(Nat) /\ raw.air \in Nat /\ Len(raw.items) \in Nat
      /\ RAW_QUEUE_LEN \in Nat /\ raw.got \in Seq(Nat) /\ Len(raw.items) <= RAW_QUEUE_LEN
      /\ raw.air + 1 \in Nat /\ raw.fwd \in [1 .. 2 -> Nat]
  BY OverlayAssumption DEF Basics, Raws
<1>2. CASE promisc_cb
  <2>1. Append(raw.items, raw.air + 1) \in Seq(Nat)
    BY <1>1
  <2>2. CASE /\ Len(raw.items) < RAW_QUEUE_LEN
             /\ raw' = [raw EXCEPT !.air = @ + 1, !.items = Append(@, raw.air + 1)]
    <3>1. Len(Append(raw.items, raw.air + 1)) <= RAW_QUEUE_LEN
      BY <1>1, <2>2
    <3> QED
      BY <1>1, <2>1, <2>2, <3>1 DEF Raws
  <2>3. CASE raw' = [raw EXCEPT !.air = @ + 1]
    BY <1>1, <2>3 DEF Raws
  <2> QED
    BY <1>2, <2>2, <2>3 DEF promisc_cb
<1>3. ASSUME NEW t \in 1 .. 2, Takes(t) PROVE raw' \in Raws /\ Len(raw'.items) <= RAW_QUEUE_LEN
  <2>1. /\ Head(raw.items) \in Nat /\ Tail(raw.items) \in Seq(Nat)
        /\ Len(Tail(raw.items)) <= RAW_QUEUE_LEN
    BY <1>1, <1>3, SMTT(60) DEF Takes
  <2>2. [raw.fwd EXCEPT ![t] = Head(raw.items)] \in [1 .. 2 -> Nat]
    BY <1>1, <2>1
  <2>3. raw' = [raw EXCEPT !.fwd = [raw.fwd EXCEPT ![t] = Head(raw.items)],
                           !.items = Tail(raw.items)]
    BY <1>1, <1>3 DEF Takes, TakeRaw, Raws
  <2> QED
    BY <1>1, <2>1, <2>2, <2>3 DEF Raws
<1>4. ASSUME NEW t \in 1 .. 2, Gives(t) PROVE raw' \in Raws /\ Len(raw'.items) <= RAW_QUEUE_LEN
  <2>1. PICK got \in {raw.got, Append(raw.got, raw.fwd[t])} :
          raw' = [raw EXCEPT !.fwd[t] = 0, !.got = got]
    BY <1>4 DEF Gives
  <2>2. got \in Seq(Nat)
    <3>1. raw.fwd[t] \in Nat
      BY <1>1
    <3>2. Append(raw.got, raw.fwd[t]) \in Seq(Nat)
      BY <1>1, <3>1
    <3> QED
      BY <1>1, <2>1, <3>2
  <2>3. [raw.fwd EXCEPT ![t] = 0] \in [1 .. 2 -> Nat]
    BY <1>1
  <2>4. raw' = [raw EXCEPT !.fwd = [raw.fwd EXCEPT ![t] = 0], !.got = got]
    BY <1>1, <2>1 DEF Raws
  <2> QED
    BY <1>1, <2>2, <2>3, <2>4 DEF Raws
<1> QED
  BY <1>2, <1>3, <1>4 DEF Forwards

(* ... and so do the upcalls'.                                             *)
LEMMA UpTyped ==
  ASSUME Basics, UpNext
  PROVE  up' \in Ups
<1>1. up \in Ups /\ MaxFrame \in Nat
  BY OverlayAssumption DEF Basics
<1>2. ASSUME NEW v \in 0 .. MaxFrame, RegisterCallback(v) PROVE up' \in Ups
  <2>1. v \in Nat /\ v \in -1 .. MaxFrame
    BY <1>1
  <2> QED
    BY <1>1, <1>2, <2>1 DEF RegisterCallback, Ups
<1>3. CASE RegisterContext
  <2>1. up.reg \in Nat /\ -1 \in -1 .. MaxFrame
    BY <1>1, <1>3 DEF RegisterContext, Ups
  <2>2. up' = [up EXCEPT !.ctx = up.reg, !.reg = -1]
    BY <1>3 DEF RegisterContext
  <2> QED
    BY <1>1, <2>1, <2>2 DEF Ups
<1>4. CASE Emit \/ UpcallCheck
  BY <1>1, <1>4 DEF Emit, UpcallCheck, Ups
<1>5. CASE UpcallCall
  <2>1. <<up.cb, up.ctx>> \in Seq(Nat)
    BY <1>1 DEF Ups
  <2> QED
    BY <1>1, <1>5, <2>1 DEF UpcallCall, Ups
<1> QED
  BY <1>2, <1>3, <1>4, <1>5 DEF UpNext

(* What the state starts as, or a restart of the slave makes of it.        *)
LEMMA StartTyped ==
  /\ Radio0 \in Radios /\ Info0 \in Infos /\ NoCall \in Calls /\ NoAnswer \in Answers
  /\ NoCall.n \in Args(NoCall.req) /\ Up0 \in Ups /\ Raw0 \in Raws /\ Len(Raw0.items) = 0
<1>1. <<>> \in Seq(Byte) /\ <<>> \in Seq(Nat) /\ Len(<<>>) = 0 /\ MaxFrame \in Nat
  BY OverlayAssumption
<1>2. "GET_INFO" \in Req
  BY PhyElems DEF Req, PhyReq, CountWrapped
<1>3. Radio0 \in Radios
  BY DEF Radio0, Radios, Chan, Arg
<1>4. Info0 \in Infos
  BY DEF Info0, Infos, INT8, Arg
<1>5. NoAnswer \in Answers
  BY <1>1, <1>2 DEF NoAnswer, Answers, Status, Done
<1>6. NoCall \in Calls /\ NoCall.n \in Args(NoCall.req)
  BY <1>1, <1>2 DEF NoCall, Calls, Arg, INT8, Args
<1>7. Up0 \in Ups
  BY <1>1 DEF Up0, Ups
<1>8. Raw0 \in Raws /\ Len(Raw0.items) = 0
  <2>1. [t \in 1 .. 2 |-> 0] \in [1 .. 2 -> Nat]
    OBVIOUS
  <2> QED
    BY <1>1, <2>1 DEF Raw0, Raws
<1> QED
  BY <1>3, <1>4, <1>5, <1>6, <1>7, <1>8

(* Every step keeps the types.                                             *)
LEMMA BasicsKept ==
  ASSUME Basics, RadioKept, OverlayNext
  PROVE  Basics'
<1> DEFINE B == /\ part' \in Parts /\ room' \in Rooms /\ links' \in LinkSets
           C == call' \in Calls /\ call'.n \in Args(call'.req)
           R == raw' \in Raws /\ Len(raw'.items) <= RAW_QUEUE_LEN
<1>1. /\ part \in Parts /\ room \in Rooms /\ links \in LinkSets /\ registry \subseteq Req
      /\ boot \in Boots /\ call \in Calls /\ call.n \in Args(call.req)
      /\ answer \in Answers /\ reqs \in 0 .. MaxRequest /\ told \in BOOLEAN
      /\ radio \in Radios /\ info \in Infos /\ ready \in Readies
      /\ raw \in Raws /\ Len(raw.items) <= RAW_QUEUE_LEN /\ up \in Ups /\ harm \subseteq Harm
  BY DEF Basics
<1>2. harm' \subseteq Harm
  BY <1>1, HarmGrows
<1>3. MaxReady \in Nat /\ MaxRequest \in Nat /\ RAW_QUEUE_LEN \in Nat
  BY OverlayAssumption
<1>4. SUFFICES /\ B /\ registry' \subseteq Req /\ boot' \in Boots /\ C
               /\ answer' \in Answers /\ reqs' \in 0 .. MaxRequest /\ told' \in BOOLEAN
               /\ radio' \in Radios /\ info' \in Infos /\ ready' \in Readies
               /\ R /\ up' \in Ups
  BY <1>2 DEF Basics
<1>5. CASE BootApply
  <2>1. boot.at \in ApplySteps /\ radio' = Applied(boot.at)
        /\ boot' = [boot EXCEPT !.at = IF @ = "tune" THEN "phy" ELSE After(@)]
    BY <1>5 DEF BootApply
  <2>2. boot' \in Boots
    BY <1>1, <2>1 DEF Boots, ApplySteps, After
  <2> QED
    BY <1>1, <1>5, <2>1, <2>2, AppliedTyped DEF BootApply
<1>6. CASE Reboot
  <2>1. boot' \in Boots /\ ready' \in Readies
    BY <1>1, <1>3, <1>6 DEF Reboot, Boots, Readies, ApplySteps
  <2>2. C
    BY <1>1, <1>6 DEF Reboot, Calls
  <2>3. R
    <3>1. raw' = [Raw0 EXCEPT !.air = raw.air, !.got = raw.got]
      BY <1>6 DEF Reboot
    <3>2. raw' \in Raws /\ raw'.items = Raw0.items
      BY <1>1, <3>1, StartTyped DEF Raws
    <3> QED
      BY <1>3, <3>2, StartTyped
  <2> QED
    BY <1>1, <1>6, <2>1, <2>2, <2>3, StartTyped DEF Reboot
<1>7. CASE Registers
  <2>1. PICK table \in {PhyTable, ExtrasTable, WirelessTable},
             here, next \in {"phy", "extras", "wireless", "loop"} : Register(here, next, table)
    BY <1>7 DEF Registers, phy_rpc_handlers_register, phy_rpc_extras_register,
                phy_rpc_wireless_register
  <2>2. registry' \subseteq Req
    BY <1>1, <2>1 DEF Register, Registered, Req, Elems
  <2>3. boot' \in Boots
    BY <1>1, <2>1 DEF Register, Boots
  <2> QED
    BY <1>1, <2>1, <2>2, <2>3 DEF Register
<1>8. ASSUME NEW r \in Used, Call(r)
      PROVE  C /\ answer' \in Answers /\ reqs' \in 0 .. MaxRequest
             /\ UNCHANGED <<bootVars, slaveVars, told, up, harm>>
  <2>1. PICK n \in Args(r), f \in Sendable(r) :
          call' = [at |-> "slave", req |-> r, n |-> n, frame |-> f]
    BY <1>8 DEF Call
  <2>2. r \in Req
    <3>1. part \in {"radio", "hooks", "frames", "raw", "events"}
      BY <1>1, OverlayAssumption DEF Part
    <3>2. r \in PhyReq \union WifiWrapped \union EspnowWrapped \union I154Wrapped
               \union FrameWrapped \union {"SET_EVENT_MASK", "SET_PROMISC"}
      BY <3>1 DEF Used, PhyReq, RadioWrapped, PhyWrapped
    <3> QED
      BY <3>2, PhyElems, OtherElems DEF Req, FrameWrapped
  <2>3. n \in Arg
    BY <2>1, <2>2, ArgsTyped
  <2>4. f \in Seq(Byte)
    <3>1. f \in Frames \/ f = <<>>
      BY <2>1 DEF Sendable
    <3>2. Frames \subseteq Seq(Byte) /\ <<>> \in Seq(Byte)
      BY OverlayAssumption DEF Byte
    <3> QED
      BY <3>1, <3>2
  <2>5. C
    BY <2>1, <2>2, <2>3, <2>4 DEF Calls
  <2>6. reqs' \in 0 .. MaxRequest
    BY <1>1, <1>3, <1>8 DEF Call
  <2> QED
    BY <1>8, <2>5, <2>6, StartTyped DEF Call
<1>9. CASE Calling
  BY <1>1, <1>8, <1>9 DEF Calling
<1>10. CASE WifiReady
  <2>1. ready' \in Readies
    BY <1>1, <1>3, <1>10 DEF WifiReady, Readies, ApplySteps
  <2> QED
    BY <1>1, <1>10, <2>1 DEF WifiReady
<1>11. CASE on_wifi_event
  <2>1. ready' \in Readies
    BY <1>1, <1>11 DEF on_wifi_event, Readies, ApplySteps, After
  <2>2. radio' \in Radios
    BY <1>1, <1>11, AppliedTyped DEF on_wifi_event
  <2> QED
    BY <1>1, <1>11, <2>1, <2>2 DEF on_wifi_event
<1>12. CASE Handler
  <2>1. Answered \/ Tuning
    BY <1>12, RadioAnswers
  <2> QED
    BY <1>1, <1>12, <2>1, AnsweredTyped, HandlerTyped, HandlersLeave
<1>13. CASE Other
  <2>1. Answered
    BY <1>13, OtherAnswers
  <2> QED
    BY <1>1, <1>13, <2>1, AnsweredTyped, OtherTyped, HandlersLeave
<1>14. CASE promisc_cb \/ Forwards
  <2>1. UNCHANGED <<bootVars, boot, registry, call, answer, reqs, told, radio, info, ready, up>>
    BY <1>14 DEF promisc_cb, Forwards, Takes, Gives, Besides
  <2> QED
    BY <1>1, <1>14, <2>1, RawTyped
<1>15. CASE UpNext
  <2>1. UNCHANGED <<bootVars, slaveVars, call, answer, reqs, told>>
    BY <1>15 DEF UpNext, RegisterCallback, RegisterContext, Emit, UpcallCheck, UpcallCall, UpOnly
  <2> QED
    BY <1>1, <1>15, <2>1, UpTyped
<1> QED
  BY <1>5, <1>6, <1>7, <1>9, <1>10, <1>11, <1>12, <1>13, <1>14, <1>15, Kinds

-----------------------------------------------------------------------------
(* Answers.                                                                *)

(* What is marked depends on the chip alone.                               *)
LEMMA CapsStay ==
  ASSUME UNCHANGED bootVars
  PROVE  Caps' = Caps
  BY DEF Caps, PhyCaps, ExtrasCaps, WirelessCaps, Resolved, Absent

(* A host learns the capabilities from an answer; too early is marked.     *)
LEMMA Learns ==
  ASSUME Basics, Handler \/ Other
  PROVE  /\ told' => told \/ answer'.status = "ok"
         /\ told' => told \/ boot.at = "loop" \/ "early" \in harm'
<1>1. CASE on_get_caps
  <2>1. /\ told' = (told \/ answer'.status = "ok")
        /\ harm' = IF answer'.status = "ok" /\ boot.at # "loop" THEN harm \union {"early"} ELSE harm
    BY <1>1 DEF on_get_caps
  <2>2. told' <=> told \/ answer'.status = "ok"
    BY <2>1, Zenon
  <2> QED
    BY <2>1, <2>2
<1>2. CASE ~on_get_caps
  <2>1. UNCHANGED told
    BY <1>2, HandlersLeave
       DEF Other, OtherNext, on_get_info, on_set_event_mask, on_hooked, on_passed, on_frame,
           on_set_promisc, handle_custom_rpc_request, Plain
  <2> QED
    BY <2>1
<1> QED
  BY <1>1, <1>2

(* A fitting answer is true.                                               *)
LEMMA FittingTrue ==
  ASSUME Basics, AnswersKept, Answered, Handler \/ Other
  PROVE  AnswerTrue' /\ CapsHonest' /\ FrameIntact'
<1>1. /\ UNCHANGED <<bootVars, boot, registry>> /\ harm \subseteq harm' /\ Caps' = Caps
  BY HandlersLeave, HarmGrows, CapsStay DEF Basics, OverlayNext, Handler, Other, RadioNext, RawNext
<1>2. /\ Fit(answer'.status, answer'.done, answer'.frame) /\ answer'.req = call.req
      /\ call'.frame = call.frame
  BY DEF Answered, Fits, Basics, Calls
<1>3. AnswerTrue'
  BY <1>2 DEF AnswerTrue, Fit
<1>4. FrameIntact'
  BY <1>2 DEF FrameIntact, FrameVerbatim, Fit, Sent
<1>5. told /\ call.req \in Caps /\ call.req \notin registry =>
        harm \intersect {"no_room", "early", "reboot"} # {}
  BY CapsTabled DEF AnswersKept, Tabled
<1>6. CapsHonest'
  <2> SUFFICES ASSUME told', answer'.status # "none"
               PROVE  IF answer'.req \in Caps
                      THEN /\ answer'.status = "not_found" =>
                                harm' \intersect {"no_room", "early", "reboot"} # {}
                           /\ answer'.status = "not_supported" =>
                                answer'.req \in {"SET_CCA", "SET_LOW_RATE", "GET_PHY_RSSI"}
                                                 \union Passed
                      ELSE answer'.status = "ok" =>
                             answer'.req \in {"SET_RX_GAIN", "SET_CCA", "SET_LOW_RATE"}
    BY <1>1 DEF CapsHonest
  <2>1. answer'.status = "not_found" => told /\ call.req \notin registry
    BY <1>2, Learns DEF Fit
  <2> QED
    BY <1>1, <1>2, <1>5, <2>1 DEF Fit
<1> QED
  BY <1>3, <1>4, <1>6

(* No answer is always true.                                               *)
LEMMA NoneTrue ==
  ASSUME answer' = NoAnswer
  PROVE  AnswerTrue' /\ CapsHonest' /\ FrameIntact'
  BY DEF AnswerTrue, CapsHonest, FrameIntact, FrameVerbatim, NoAnswer

(* An answer stays true as long as it stays.                               *)
LEMMA StaysTrue ==
  ASSUME AnswersKept, UNCHANGED <<bootVars, answer, told>>, call'.frame = call.frame,
         harm \subseteq harm'
  PROVE  AnswerTrue' /\ CapsHonest' /\ FrameIntact'
<1>1. Caps' = Caps
  BY CapsStay
<1>2. AnswerTrue /\ CapsHonest /\ FrameIntact
  BY DEF AnswersKept
<1>3. AnswerTrue'
  BY <1>2 DEF AnswerTrue
<1>4. FrameIntact'
  BY <1>2 DEF FrameIntact, FrameVerbatim
<1>5. CapsHonest'
  BY <1>1, <1>2 DEF CapsHonest
<1> QED
  BY <1>3, <1>4, <1>5

(* What is known of the registry.                                          *)
Tables ==
  /\ Tabled(PhyTable, {"extras", "wireless", "loop"})
  /\ Tabled(ExtrasTable, {"wireless", "loop"})
  /\ Tabled(WirelessTable, {"loop"})

(* ... stays known, with the registry, and when app_main goes on to a      *)
(* place before the tables.                                                *)
LEMMA TablesStay ==
  ASSUME Tables, harm \subseteq harm',
         \/ UNCHANGED <<boot, registry>>
         \/ boot'.at \notin {"extras", "wireless", "loop"}
  PROVE  Tables'
  BY DEF Tables, Tabled

(* Every step leaves the last answer true.                                 *)
LEMMA AnswersAreKept ==
  ASSUME Basics, RadioKept, AnswersKept, OverlayNext
  PROVE  AnswersKept'
<1>1. /\ harm \subseteq harm' /\ boot \in Boots /\ call \in Calls /\ Tables
      /\ call.at # "host" => answer = NoAnswer
      /\ told => boot.at = "loop" \/ harm \intersect {"early", "reboot"} # {}
  BY HarmGrows DEF Basics, AnswersKept, Tables
<1>2. SUFFICES /\ call'.at # "host" => answer' = NoAnswer
               /\ Tables'
               /\ told' => boot'.at = "loop" \/ harm' \intersect {"early", "reboot"} # {}
               /\ AnswerTrue' /\ CapsHonest' /\ FrameIntact'
  BY DEF AnswersKept, Tables
<1>3. CASE BootApply
  <2>1. /\ UNCHANGED <<bootVars, call, answer, told>> /\ boot.at \in ApplySteps
        /\ boot' = [boot EXCEPT !.at = IF @ = "tune" THEN "phy" ELSE After(@)]
    BY <1>3 DEF BootApply
  <2>2. boot'.at \in ApplySteps \union {"phy"} /\ boot.at # "loop"
    BY <1>1, <2>1 DEF Boots, ApplySteps, After
  <2>3. boot'.at \notin {"extras", "wireless", "loop"}
    BY <2>2 DEF ApplySteps
  <2> QED
    BY <1>1, <2>1, <2>2, <2>3, StaysTrue, TablesStay
<1>4. CASE Reboot
  <2>1. /\ answer' = NoAnswer /\ boot'.at = "country" /\ "reboot" \in harm'
    BY <1>4 DEF Reboot
  <2> QED
    BY <1>1, <2>1, NoneTrue, TablesStay
<1>5. CASE Registers
  <2>1. PICK k \in 1 .. 3 :
          Register(CASE k = 1 -> "phy" [] k = 2 -> "extras" [] k = 3 -> "wireless",
                   CASE k = 1 -> "extras" [] k = 2 -> "wireless" [] k = 3 -> "loop",
                   CASE k = 1 -> PhyTable [] k = 2 -> ExtrasTable [] k = 3 -> WirelessTable)
    BY <1>5 DEF Registers, phy_rpc_handlers_register, phy_rpc_extras_register,
                phy_rpc_wireless_register
  <2> DEFINE table == CASE k = 1 -> PhyTable [] k = 2 -> ExtrasTable [] k = 3 -> WirelessTable
  <2>2. /\ registry \subseteq registry'
        /\ Elems(table) \subseteq registry' \/ "no_room" \in harm'
        /\ UNCHANGED <<bootVars, call, answer, told>>
    BY <2>1 DEF Register, Registered
  <2>3. /\ k = 1 => boot.at = "phy" /\ boot'.at = "extras"
        /\ k = 2 => boot.at = "extras" /\ boot'.at = "wireless"
        /\ k = 3 => boot.at = "wireless" /\ boot'.at = "loop"
    BY <1>1, <2>1 DEF Register, Boots
  <2>4. Tables'
    BY <1>1, <2>2, <2>3 DEF Tables, Tabled
  <2> QED
    BY <1>1, <2>2, <2>3, <2>4, StaysTrue
<1>6. CASE Calling
  <2>1. UNCHANGED <<bootVars, boot, registry, told, harm>> /\ answer' = NoAnswer
    BY <1>6 DEF Calling, Call
  <2> QED
    BY <1>1, <2>1, NoneTrue, TablesStay
<1>7. CASE WifiReady \/ on_wifi_event \/ promisc_cb \/ Forwards \/ UpNext
  <2>1. UNCHANGED <<bootVars, boot, registry, call, answer, told>>
    BY <1>7 DEF WifiReady, on_wifi_event, promisc_cb, Forwards, Takes, Gives, Besides,
                UpNext, RegisterCallback, RegisterContext, Emit, UpcallCheck, UpcallCall, UpOnly
  <2> QED
    BY <1>1, <2>1, StaysTrue, TablesStay
<1>8. CASE Handler \/ Other
  <2>1. Answered \/ Tuning
    BY <1>8, RadioAnswers, OtherAnswers
  <2>2. UNCHANGED <<bootVars, boot, registry>>
    BY <1>8, HandlersLeave
  <2>3. told' => boot'.at = "loop" \/ harm' \intersect {"early", "reboot"} # {}
    BY <1>1, <1>8, <2>2, Learns
  <2>4. Tables'
    BY <1>1, <2>2, TablesStay
  <2>5. CASE Answered
    BY <1>1, <1>8, <2>3, <2>4, <2>5, FittingTrue DEF Answered
  <2>6. CASE Tuning
    <3>1. UNCHANGED answer /\ answer = NoAnswer
      BY <1>1, <2>6 DEF Tuning, Handling
    <3> QED
      BY <2>3, <2>4, <3>1, NoneTrue
  <2> QED
    BY <2>1, <2>5, <2>6
<1> QED
  BY <1>3, <1>4, <1>5, <1>6, <1>7, <1>8, Kinds

-----------------------------------------------------------------------------
(* The radio and s_state.                                                  *)

(* The power is held to the range, and wraps only outside it.              *)
LEMMA QuartersOf ==
  ASSUME NEW dbm \in -32 .. 31
  PROVE  Quarters(dbm) = IF dbm < 2 THEN 8 ELSE IF dbm > 21 THEN 84 ELSE 4 * dbm
<1>1. ToInt8(dbm * 4) = dbm * 4
  BY DEF ToInt8
<1> QED
  BY <1>1 DEF Quarters

(* What is kept of the channel.                                            *)
ChanKept ==
  call.at # "tuning" /\ boot.at \notin ApplySteps /\ ready.at # "tune" =>
    /\ radio.chan \in Channels \union {OVERLAY_CHANNEL, ELSEWHERE}
    /\ \/ OVERLAY_CHANNEL # Info0.chan \/ info.chan = radio.chan
       \/ "reapplied" \in harm \/ (radio.chan = ELSEWHERE /\ "retuned" \in harm)

(* Neither radio nor s_state changes.                                      *)
LEMMA RadioStays ==
  ASSUME RadioKept, UNCHANGED <<radio, info, registry, boot>>, harm \subseteq harm',
         call'.at # "tuning", call.at # "tuning",
         ready'.at = "tune" <=> ready.at = "tune"
  PROVE  RadioKept'
  BY DEF RadioKept, PowerAsReported

(* A step of the setup, by app_main, ...                                   *)
LEMMA BootRadio ==
  ASSUME Basics, RadioKept, BootApply
  PROVE  RadioKept'
<1>1. /\ boot.at \in ApplySteps /\ radio' = Applied(boot.at)
      /\ boot' = [boot EXCEPT !.at = IF @ = "tune" THEN "phy" ELSE After(@)]
      /\ UNCHANGED <<registry, call, info, ready, harm>>
  BY DEF BootApply
<1>2. boot \in Boots /\ radio \in Radios /\ registry = {} /\ info = Info0 /\ call.at # "tuning"
  BY <1>1 DEF Basics, RadioKept
<1>3. /\ radio'.cca = radio.cca /\ radio'.low = radio.low /\ radio'.max_gain = radio.max_gain
      /\ radio'.quarter = radio.quarter
      /\ radio'.p11 = IF boot.at = "p11" THEN TRUE ELSE radio.p11
      /\ boot.at = "tune" => radio'.chan = OVERLAY_CHANNEL
  BY <1>1, <1>2 DEF Applied, ApplySteps, Radios
<1>4. /\ boot'.at \in ApplySteps \union {"phy"}
      /\ boot.at = "country" => boot'.at = "p11"
      /\ boot'.at \notin ApplySteps => boot.at = "tune"
  BY <1>1, <1>2 DEF Boots, ApplySteps, After
<1>5. info.p11 = TRUE /\ info.chan = Info0.chan
  BY <1>2 DEF Info0
<1>6. info'.p11 = radio'.p11 \/ "reapplied" \in harm' \/ boot'.at \in {"country", "p11"}
  <2>1. CASE boot.at = "country"
    BY <1>4, <2>1
  <2>2. CASE boot.at = "p11"
    BY <1>1, <1>3, <1>5, <2>2
  <2>3. CASE boot.at \notin {"country", "p11"}
    BY <1>1, <1>3, <2>3 DEF RadioKept
  <2> QED
    BY <2>1, <2>2, <2>3
<1> QED
  BY <1>1, <1>2, <1>3, <1>4, <1>5, <1>6 DEF RadioKept, PowerAsReported

(* ... and by the event task.                                              *)
LEMMA EventRadio ==
  ASSUME Basics, RadioKept, on_wifi_event
  PROVE  RadioKept'
<1>1. ready \in Readies /\ radio \in Radios /\ ready.at \in ApplySteps
      /\ UNCHANGED <<boot, registry, call, info>>
  BY DEF on_wifi_event, Basics
<1>2. CASE /\ ready.at \in MayFail /\ ready' = [ready EXCEPT !.at = "idle"]
           /\ UNCHANGED <<radio, harm>>
  <2>1. ready'.at # "tune" /\ ready.at # "tune"
    BY <1>1, <1>2 DEF Readies, MayFail
  <2> QED
    BY <1>1, <1>2, <2>1 DEF RadioKept, PowerAsReported
<1>3. CASE /\ radio' = Applied(ready.at)
           /\ ready' = [ready EXCEPT !.at = IF @ = "tune" THEN "idle" ELSE After(@)]
           /\ Mark("reapplied", registry # {} /\ ready.at \in {"p11", "tune"})
  <2>1. /\ radio'.cca = radio.cca /\ radio'.low = radio.low /\ radio'.max_gain = radio.max_gain
        /\ radio'.quarter = radio.quarter
        /\ radio'.p11 = IF ready.at = "p11" THEN TRUE ELSE radio.p11
        /\ ready.at = "tune" => radio'.chan = OVERLAY_CHANNEL
        /\ ready.at # "140" /\ ready.at # "tune" => radio'.chan = radio.chan
    BY <1>1, <1>3 DEF Applied, ApplySteps, Radios
  <2>2. /\ harm \subseteq harm'
        /\ registry # {} /\ ready.at \in {"p11", "tune"} => "reapplied" \in harm'
    BY <1>3
  <2>3. ready.at = "140" => ready'.at = "tune"
    BY <1>1, <1>3 DEF Readies, After
  <2>4. registry = {} => info.p11 = TRUE /\ info.chan = Info0.chan
    BY DEF RadioKept, Info0
  <2>5. info'.p11 = radio'.p11 \/ "reapplied" \in harm' \/ boot'.at \in {"country", "p11"}
    <3>1. CASE ready.at = "p11"
      BY <1>1, <2>1, <2>2, <2>4, <3>1
    <3>2. CASE ready.at # "p11"
      BY <1>1, <2>1, <2>2, <3>2 DEF RadioKept
    <3> QED
      BY <3>1, <3>2
  <2>6. ChanKept'
    <3>1. CASE ready.at = "tune"
      BY <1>1, <2>1, <2>2, <2>4, <3>1 DEF ChanKept, RadioKept
    <3>2. CASE ready.at = "140"
      BY <2>3, <3>2 DEF ChanKept
    <3>3. CASE ready.at # "tune" /\ ready.at # "140"
      BY <1>1, <2>1, <2>2, <3>3 DEF ChanKept, RadioKept
    <3> QED
      BY <3>1, <3>2, <3>3
  <2> QED
    BY <1>1, <2>1, <2>2, <2>5, <2>6 DEF RadioKept, PowerAsReported, ChanKept
<1> QED
  BY <1>2, <1>3 DEF on_wifi_event

(* The handlers keep s_state true.                                         *)
LEMMA HandlerRadio ==
  ASSUME Basics, RadioKept, Handler
  PROVE  RadioKept'
<1>1. /\ UNCHANGED <<boot, registry, ready, harm>> /\ radio \in Radios /\ info \in Infos
      /\ call \in Calls /\ call.n \in Args(call.req) /\ call.n \in Arg
  BY HandlersLeave DEF Basics, Calls
<1>2. registry # {}
  BY DEF Handler, on_set_channel, on_set_channel_tune, on_set_phy_11p, on_set_tx_power,
         on_set_rx_gain, on_set_agc_max_gain, on_set_cca, on_set_low_rate,
         on_set_country_permissive, Handling, RadioKept
<1>3. boot.at \notin ApplySteps \union {"phy"}
  BY <1>2 DEF RadioKept
<1>4. /\ boot.at \notin ApplySteps /\ boot.at \notin {"country", "p11"}
      /\ info.p11 = radio.p11 \/ "reapplied" \in harm
  BY <1>3 DEF RadioKept, ApplySteps
<1>5. \A at \in {"host", "tuning"} : [call EXCEPT !.at = at].at = at
      /\ [call EXCEPT !.at = at].req = call.req
  BY <1>1 DEF Calls
<1>6. CASE on_set_channel
  <2>1. \/ call'.at = "host" /\ radio'.chan = radio.chan /\ call.at # "tuning"
        \/ /\ call'.at = "tuning" /\ call'.req = "SET_CHANNEL"
           /\ call.req \in registry /\ call.req = call'.req
    BY <1>1, <1>5, <1>6 DEF on_set_channel, Simple, Says, Handling, Radios
  <2>2. /\ UNCHANGED info /\ radio'.cca = radio.cca /\ radio'.low = radio.low
        /\ radio'.max_gain = radio.max_gain /\ radio'.quarter = radio.quarter
        /\ radio'.p11 = radio.p11
    BY <1>1, <1>6 DEF on_set_channel, Radios
  <2> QED
    BY <1>1, <1>2, <1>3, <1>4, <2>1, <2>2 DEF RadioKept, PowerAsReported
<1>7. ASSUME call'.at = "host", call.at # "tuning",
             radio'.chan = radio.chan, info'.chan = info.chan,
             info'.cca = radio'.cca, info'.low = radio'.low, info'.max_gain = radio'.max_gain,
             info'.p11 = radio'.p11 \/ "reapplied" \in harm,
             PowerAsReported'
      PROVE  RadioKept'
  BY <1>1, <1>2, <1>3, <1>7 DEF RadioKept
<1>8. CASE on_set_channel_tune
  <2>1. /\ info' = [info EXCEPT !.chan = call.n] /\ radio' = [radio EXCEPT !.chan = call.n]
        /\ call'.at = "host"
    BY <1>5, <1>8 DEF on_set_channel_tune, TunedTo, Simple, Says
  <2>2. call.n \in Channels
    BY <1>1, <1>8 DEF on_set_channel_tune, RadioKept, Args
  <2>3. /\ info'.chan = call.n /\ radio'.chan = call.n
        /\ info'.cca = radio'.cca /\ info'.low = radio'.low /\ info'.max_gain = radio'.max_gain
        /\ info'.dbm = info.dbm /\ radio'.quarter = radio.quarter
        /\ info'.p11 = info.p11 /\ radio'.p11 = radio.p11
    BY <1>1, <2>1 DEF Radios, Infos, RadioKept
  <2> QED
    BY <1>1, <1>2, <1>3, <1>4, <2>1, <2>2, <2>3 DEF RadioKept, PowerAsReported
<1>9. ASSUME Simple("ok", "all") \/ Simple("error", "nothing") \/ Simple("ok", "nothing")
             \/ Simple("not_supported", "nothing") \/ Simple("not_supported", "part")
      PROVE  call'.at = "host"
  BY <1>5, <1>9 DEF Simple, Says
<1>10. CASE on_set_phy_11p
  <2> DEFINE b == (call.n # 0)
  <2>1. radio' = [radio EXCEPT !.p11 = b] /\ info' = [info EXCEPT !.p11 = b]
    BY <1>10 DEF on_set_phy_11p
  <2> HIDE DEF b
  <2>2. /\ info'.p11 = radio'.p11 /\ radio'.chan = radio.chan /\ info'.chan = info.chan
        /\ info'.cca = radio'.cca /\ info'.low = radio'.low /\ info'.max_gain = radio'.max_gain
        /\ info'.dbm = info.dbm /\ radio'.quarter = radio.quarter
    BY <1>1, <2>1 DEF Radios, Infos, RadioKept
  <2>3. call.at # "tuning" /\ call'.at = "host"
    BY <1>9, <1>10 DEF on_set_phy_11p, Handling
  <2> QED
    BY <1>1, <1>7, <2>2, <2>3 DEF RadioKept, PowerAsReported
<1>11. CASE on_set_tx_power
  <2>1. call.at # "tuning" /\ call'.at = "host"
    BY <1>9, <1>11 DEF on_set_tx_power, Handling
  <2>2. CASE UNCHANGED <<radio, info>>
    BY <1>1, <1>2, <1>4, <1>7, <2>1, <2>2 DEF RadioKept, PowerAsReported
  <2>3. CASE /\ radio' = [radio EXCEPT !.quarter = Quarters(call.n)]
             /\ info' = [info EXCEPT !.dbm = call.n]
    <3>1. /\ info'.p11 = info.p11 /\ radio'.p11 = radio.p11
          /\ radio'.chan = radio.chan /\ info'.chan = info.chan
          /\ info'.cca = radio'.cca /\ info'.low = radio'.low /\ info'.max_gain = radio'.max_gain
          /\ info'.dbm = call.n /\ radio'.quarter = Quarters(call.n)
      BY <1>1, <2>3 DEF Radios, Infos, RadioKept
    <3>2. call.n \in Int
      BY <1>1 DEF Arg, INT8
    <3>3. Quarters(call.n) # UNTOLD
      BY <3>2 DEF Quarters, ToInt8, UNTOLD
    <3>4. PowerAsReported'
      BY <3>1, <3>3, QuartersOf DEF PowerAsReported
    <3> QED
      BY <1>4, <1>7, <2>1, <3>1, <3>4
  <2> QED
    BY <1>11, <2>2, <2>3 DEF on_set_tx_power
<1>12. CASE on_set_rx_gain \/ on_set_country_permissive
  <2>1. call.at # "tuning" /\ call'.at = "host"
    BY <1>9, <1>12 DEF on_set_rx_gain, on_set_country_permissive, Handling
  <2>2. /\ UNCHANGED info /\ radio'.p11 = radio.p11 /\ radio'.chan = radio.chan
        /\ radio'.cca = radio.cca /\ radio'.low = radio.low /\ radio'.max_gain = radio.max_gain
        /\ radio'.quarter = radio.quarter
    BY <1>1, <1>12 DEF on_set_rx_gain, on_set_country_permissive, Radios
  <2> QED
    BY <1>1, <1>4, <1>7, <2>1, <2>2 DEF RadioKept, PowerAsReported
<1>13. CASE on_set_agc_max_gain
  <2>1. call.at # "tuning" /\ call'.at = "host"
    BY <1>9, <1>13 DEF on_set_agc_max_gain, Switched, Handling
  <2>2. \/ UNCHANGED <<radio, info>>
        \/ radio' = [radio EXCEPT !.max_gain = call.n] /\ info' = [info EXCEPT !.max_gain = call.n]
    BY <1>13 DEF on_set_agc_max_gain, Switched
  <2>3. /\ info'.p11 = info.p11 /\ radio'.p11 = radio.p11
        /\ radio'.chan = radio.chan /\ info'.chan = info.chan
        /\ info'.cca = radio'.cca /\ info'.low = radio'.low /\ info'.max_gain = radio'.max_gain
        /\ info'.dbm = info.dbm /\ radio'.quarter = radio.quarter
    BY <1>1, <2>2 DEF Radios, Infos, RadioKept
  <2> QED
    BY <1>1, <1>4, <1>7, <2>1, <2>3 DEF RadioKept, PowerAsReported
<1>14. CASE on_set_cca \/ on_set_low_rate
  <2>1. call.at # "tuning" /\ call'.at = "host"
    BY <1>9, <1>14 DEF on_set_cca, on_set_low_rate, Switched, Handling
  <2> DEFINE b == (call.n # 0)
  <2>2. \/ UNCHANGED <<radio, info>>
        \/ radio' = [radio EXCEPT !.cca = b] /\ info' = [info EXCEPT !.cca = b]
        \/ radio' = [radio EXCEPT !.low = b] /\ info' = [info EXCEPT !.low = b]
    BY <1>14 DEF on_set_cca, on_set_low_rate, Switched
  <2> HIDE DEF b
  <2>3. /\ info'.p11 = info.p11 /\ radio'.p11 = radio.p11
        /\ radio'.chan = radio.chan /\ info'.chan = info.chan
        /\ info'.cca = radio'.cca /\ info'.low = radio'.low /\ info'.max_gain = radio'.max_gain
        /\ info'.dbm = info.dbm /\ radio'.quarter = radio.quarter
    BY <1>1, <2>2 DEF Radios, Infos, RadioKept
  <2> QED
    BY <1>1, <1>4, <1>7, <2>1, <2>3 DEF RadioKept, PowerAsReported
<1> QED
  BY <1>6, <1>8, <1>10, <1>11, <1>12, <1>13, <1>14 DEF Handler

(* Every step keeps s_state true.                                          *)
LEMMA RadioIsKept ==
  ASSUME Basics, RadioKept, OverlayNext
  PROVE  RadioKept'
<1>1. /\ harm \subseteq harm' /\ boot \in Boots /\ call \in Calls /\ ready \in Readies
      /\ radio \in Radios
  BY HarmGrows DEF Basics
<1>2. CASE Reboot
  <2>1. /\ boot'.at = "country" /\ registry' = {} /\ radio' = Radio0 /\ info' = Info0
        /\ call'.at = "host"
    BY <1>1, <1>2 DEF Reboot, Calls
  <2> QED
    BY <2>1 DEF RadioKept, PowerAsReported, Radio0, Info0, ApplySteps
<1>3. CASE Registers
  <2>1. /\ UNCHANGED <<call, radio, info, ready>> /\ registry \subseteq registry'
        /\ boot.at \in {"phy", "extras", "wireless"}
        /\ boot'.at \in {"extras", "wireless", "loop"}
    BY <1>1, <1>3 DEF Registers, phy_rpc_handlers_register, phy_rpc_extras_register,
                      phy_rpc_wireless_register, Register, Registered, Boots
  <2>2. boot.at \notin ApplySteps /\ boot'.at \notin ApplySteps \union {"phy"}
    BY <2>1 DEF ApplySteps
  <2>3. info.p11 = radio.p11 \/ "reapplied" \in harm
    BY <2>1 DEF RadioKept
  <2> QED
    BY <1>1, <2>1, <2>2, <2>3 DEF RadioKept, PowerAsReported
<1>4. CASE Calling
  <2>1. /\ UNCHANGED <<radio, info, registry, boot, ready>> /\ call'.at = "slave"
        /\ call.at = "host"
    BY <1>4 DEF Calling, Call
  <2> QED
    BY <1>1, <2>1, RadioStays
<1>5. CASE WifiReady
  <2>1. /\ UNCHANGED <<radio, info, registry, boot, call>>
        /\ ready'.at = "country" /\ ready.at = "idle"
    BY <1>1, <1>5 DEF WifiReady
  <2> QED
    BY <1>1, <2>1 DEF RadioKept, PowerAsReported
<1>6. CASE Other
  <2>1. /\ UNCHANGED <<boot, registry, ready, info>> /\ call.at = "slave" /\ call'.at = "host"
    <3>1. UNCHANGED <<boot, registry, ready, info>> /\ Answered
      BY <1>6, HandlersLeave, OtherAnswers
    <3>2. call.at = "slave"
      BY <1>6 DEF Other, OtherNext, on_get_info, on_get_caps, on_set_event_mask, on_hooked,
                  on_passed, on_frame, on_set_promisc, handle_custom_rpc_request, Handling
    <3> QED
      BY <1>1, <3>1, <3>2 DEF Answered, Calls
  <2>2. CASE UNCHANGED radio
    BY <1>1, <2>1, <2>2, RadioStays
  <2>3. CASE radio' # radio
    <3>1. PICK r \in Hooked : on_hooked(r)
      BY <1>6, <2>3 DEF Other, OtherNext, on_get_info, on_get_caps, on_set_event_mask, on_passed,
                        on_frame, on_set_promisc, handle_custom_rpc_request, Quiet
    <3>2. /\ radio'.cca = radio.cca /\ radio'.low = radio.low
          /\ radio'.max_gain = radio.max_gain /\ radio'.p11 = radio.p11
      BY <1>1, <2>3, <3>1, HookSets DEF Radios
    <3>3. CASE radio' = [radio EXCEPT !.chan = ELSEWHERE] /\ "retuned" \in harm'
      <4>1. radio'.chan = ELSEWHERE /\ radio'.quarter = radio.quarter
        BY <1>1, <3>3 DEF Radios
      <4> QED
        BY <1>1, <2>1, <3>2, <3>3, <4>1 DEF RadioKept, PowerAsReported
    <3>4. CASE radio' = [radio EXCEPT !.quarter = UNTOLD] /\ "repowered" \in harm'
      <4>1. radio'.chan = radio.chan /\ radio'.quarter = UNTOLD
        BY <1>1, <3>4 DEF Radios
      <4> QED
        BY <1>1, <2>1, <3>2, <3>4, <4>1 DEF RadioKept, PowerAsReported
    <3> QED
      BY <2>3, <3>1, <3>3, <3>4, HookSets
  <2> QED
    BY <2>2, <2>3
<1>7. CASE promisc_cb \/ Forwards \/ UpNext
  <2>1. UNCHANGED <<radio, info, registry, boot, call, ready>>
    BY <1>7 DEF promisc_cb, Forwards, Takes, Gives, Besides, UpNext, RegisterCallback,
                RegisterContext, Emit, UpcallCheck, UpcallCall, UpOnly
  <2> QED
    BY <1>1, <2>1 DEF RadioKept, PowerAsReported
<1> QED
  BY <1>2, <1>3, <1>4, <1>5, <1>6, <1>7, Kinds, BootRadio, EventRadio, HandlerRadio

-----------------------------------------------------------------------------
(* Upcalls.                                                                *)

(* An upcall and its context belong together.                              *)
LEMMA UpcallIsKept ==
  ASSUME Basics, UpcallKept, OverlayNext
  PROVE  UpcallKept'
<1>1. up \in Ups /\ harm \subseteq harm'
  BY HarmGrows DEF Basics
<1>2. CASE UNCHANGED up
  BY <1>1, <1>2 DEF UpcallKept, UpcallMatches
<1>3. ASSUME NEW v \in 0 .. MaxFrame, RegisterCallback(v) PROVE UpcallKept'
  <2>1. /\ up'.cb = v /\ up'.reg = v /\ up'.rx = up.rx /\ up'.told = up.told
        /\ up.rx = "checked" => "overlap" \in harm'
    BY <1>1, <1>3 DEF RegisterCallback, Ups
  <2>2. v # -1
    BY OverlayAssumption
  <2> QED
    BY <1>1, <2>1, <2>2 DEF UpcallKept, UpcallMatches
<1>4. CASE RegisterContext
  <2>1. /\ up'.ctx = up.reg /\ up'.reg = -1 /\ up'.cb = up.cb /\ up'.rx = up.rx
        /\ up'.told = up.told /\ up.reg # -1
    BY <1>1, <1>4 DEF RegisterContext, Ups
  <2> QED
    BY <1>1, <2>1 DEF UpcallKept, UpcallMatches
<1>5. CASE Emit \/ UpcallCheck
  <2>1. /\ up'.cb = up.cb /\ up'.ctx = up.ctx /\ up'.reg = up.reg /\ up'.told = up.told
        /\ up'.rx = "checked" => up.cb # 0
    BY <1>1, <1>5 DEF Emit, UpcallCheck, Ups
  <2> QED
    BY <1>1, <2>1 DEF UpcallKept, UpcallMatches
<1>6. CASE UpcallCall
  <2>1. /\ up'.cb = up.cb /\ up'.ctx = up.ctx /\ up'.reg = up.reg /\ up'.rx = "idle"
        /\ up'.told = <<up.cb, up.ctx>> /\ up.rx = "checked"
        /\ up.reg # -1 => "overlap" \in harm'
    BY <1>1, <1>6 DEF UpcallCall, Ups
  <2>2. up'.told[1] = up.cb /\ up'.told[2] = up.ctx
    BY <2>1
  <2> QED
    BY <1>1, <2>1, <2>2 DEF UpcallKept, UpcallMatches
<1>7. UpNext \/ UNCHANGED up
  BY Kinds, HandlersLeave
     DEF BootApply, Reboot, Registers, phy_rpc_handlers_register, phy_rpc_extras_register,
         phy_rpc_wireless_register, Register, Calling, Call, WifiReady, on_wifi_event,
         promisc_cb, Forwards, Takes, Gives, Besides
<1> QED
  BY <1>2, <1>3, <1>4, <1>5, <1>6, <1>7 DEF UpNext

-----------------------------------------------------------------------------
(* Captured frames.                                                        *)

(* A frame at the end of a queue, ...                                      *)
LEMMA AtEnd ==
  ASSUME NEW q \in Seq(Nat), NEW e \in Nat
  PROVE  /\ Append(q, e) \in Seq(Nat)
         /\ Rising(q) /\ Under(q, e) => Rising(Append(q, e))
         /\ \A n \in Nat : Under(q, n) /\ e < n => Under(Append(q, e), n)
         /\ \A n \in Nat : Over(q, n) /\ n < e => Over(Append(q, e), n)
         /\ \A i \in 1 .. Len(Append(q, e)) :
              Append(q, e)[i] = e \/ \E j \in 1 .. Len(q) : Append(q, e)[i] = q[j]
<1> DEFINE p == Append(q, e)
<1>1. /\ p \in Seq(Nat) /\ Len(p) = Len(q) + 1 /\ Len(q) \in Nat
      /\ \A i \in 1 .. Len(q) : p[i] = q[i] /\ q[i] \in Nat
      /\ p[Len(q) + 1] = e
  OBVIOUS
<1> HIDE DEF p
<1>2. \A i \in 1 .. Len(p) : (i \in 1 .. Len(q) /\ p[i] = q[i]) \/ (i = Len(q) + 1 /\ p[i] = e)
  BY <1>1
<1>3. Rising(q) /\ Under(q, e) => Rising(p)
  <2> SUFFICES ASSUME Rising(q), Under(q, e), NEW i \in 1 .. Len(p), NEW j \in 1 .. Len(p), i < j
               PROVE  p[i] < p[j]
    BY DEF Rising
  <2>1. i \in 1 .. Len(q)
    BY <1>1
  <2> QED
    BY <1>1, <1>2, <2>1 DEF Rising, Under
<1>4. /\ \A n \in Nat : Under(q, n) /\ e < n => Under(p, n)
      /\ \A n \in Nat : Over(q, n) /\ n < e => Over(p, n)
  BY <1>2 DEF Under, Over
<1> QED
  BY <1>1, <1>2, <1>3, <1>4 DEF p

(* ... at its head.                                                        *)
LEMMA AtHead ==
  ASSUME NEW q \in Seq(Nat), q # <<>>
  PROVE  /\ Head(q) \in Nat /\ Tail(q) \in Seq(Nat)
         /\ Rising(q) => Rising(Tail(q)) /\ Over(Tail(q), Head(q))
         /\ \A n \in Nat : Under(q, n) => Under(Tail(q), n) /\ Head(q) < n
         /\ \A n \in Nat : Over(q, n) => Over(Tail(q), n) /\ n < Head(q)
<1> DEFINE p == Tail(q)
<1>1. /\ p \in Seq(Nat) /\ Len(q) \in Nat /\ Len(q) # 0 /\ Len(p) = Len(q) - 1
      /\ \A i \in 1 .. Len(p) : p[i] = q[i + 1]
      /\ Head(q) = q[1] /\ Head(q) \in Nat
  OBVIOUS
<1> HIDE DEF p
<1>2. \A i \in 1 .. Len(p) : i + 1 \in 1 .. Len(q) /\ 1 < i + 1 /\ p[i] = q[i + 1]
  BY <1>1
<1>3. 1 \in 1 .. Len(q)
  BY <1>1
<1>4. Rising(q) => Rising(p) /\ Over(p, Head(q))
  <2> SUFFICES ASSUME Rising(q) PROVE Rising(p) /\ Over(p, Head(q))
    OBVIOUS
  <2>1. ASSUME NEW i \in 1 .. Len(p), NEW j \in 1 .. Len(p), i < j PROVE p[i] < p[j]
    <3>1. i + 1 < j + 1
      BY <1>1, <2>1
    <3> QED
      BY <1>2, <3>1 DEF Rising
  <2>2. ASSUME NEW i \in 1 .. Len(p) PROVE q[1] < p[i]
    BY <1>2, <1>3 DEF Rising
  <2> QED
    BY <1>1, <2>1, <2>2 DEF Rising, Over
<1>5. /\ \A n \in Nat : Under(q, n) => Under(p, n) /\ Head(q) < n
      /\ \A n \in Nat : Over(q, n) => Over(p, n) /\ n < Head(q)
  BY <1>1, <1>2, <1>3 DEF Under, Over
<1> QED
  BY <1>1, <1>4, <1>5 DEF p

(* What the capture keeps, of its parts: queue, frame under way, arrivals. *)
InOrder(items, fwd, got, air) ==
  /\ Rising(got) /\ Rising(items)
  /\ \A i \in 1 .. Len(got) : Over(items, got[i])
  /\ Under(got, air + 1) /\ Under(items, air + 1) /\ Over(items, 0)
  /\ fwd <= air
  /\ fwd # 0 => Under(got, fwd) /\ Over(items, fwd)

(* A frame is captured, taken, and given or lost.                          *)
LEMMA Captured ==
  ASSUME NEW items \in Seq(Nat), NEW fwd \in Nat, NEW got \in Seq(Nat), NEW air \in Nat,
         InOrder(items, fwd, got, air)
  PROVE  /\ InOrder(items, fwd, got, air + 1)
         /\ InOrder(Append(items, air + 1), fwd, got, air + 1)
         /\ InOrder(items, 0, got, air)
         /\ fwd = 0 /\ items # <<>> => InOrder(Tail(items), Head(items), got, air)
         /\ fwd # 0 => InOrder(items, 0, Append(got, fwd), air)
<1>1. \A q \in Seq(Nat), n \in Nat : Under(q, n) => Under(q, n + 1)
  <2> SUFFICES ASSUME NEW q \in Seq(Nat), NEW n \in Nat, Under(q, n) PROVE Under(q, n + 1)
    OBVIOUS
  <2>1. \A i \in 1 .. Len(q) : q[i] \in Nat
    OBVIOUS
  <2> QED
    BY <2>1 DEF Under
<1>2. \A i \in 1 .. Len(got) : got[i] \in Nat /\ got[i] < air + 1
  BY DEF InOrder, Under
<1>3. air + 1 \in Nat
  OBVIOUS
<1>4. InOrder(items, fwd, got, air + 1)
  BY <1>1, <1>3 DEF InOrder
<1>5. InOrder(Append(items, air + 1), fwd, got, air + 1)
  <2> DEFINE p == Append(items, air + 1)
  <2>1. Rising(p) /\ Over(p, 0)
    BY <1>3, AtEnd DEF InOrder
  <2>2. Under(p, air + 1 + 1)
    <3>1. Under(items, air + 1 + 1) /\ air + 1 < air + 1 + 1 /\ air + 1 + 1 \in Nat
      BY <1>1, <1>3 DEF InOrder
    <3> QED
      BY <1>3, <3>1, AtEnd
  <2>3. \A i \in 1 .. Len(got) : Over(p, got[i])
    BY <1>2, <1>3, AtEnd DEF InOrder
  <2>4. fwd # 0 => Over(p, fwd)
    <3>1. fwd < air + 1
      BY DEF InOrder
    <3> QED
      BY <1>3, <3>1, AtEnd DEF InOrder
  <2> HIDE DEF p
  <2> QED
    <3>1. InOrder(p, fwd, got, air + 1)
      BY <1>4, <2>1, <2>2, <2>3, <2>4 DEF InOrder
    <3> QED
      BY <3>1 DEF p
<1>6. InOrder(items, 0, got, air)
  BY DEF InOrder
<1>7. ASSUME fwd = 0, items # <<>> PROVE InOrder(Tail(items), Head(items), got, air)
  <2> DEFINE p == Tail(items)
             e == Head(items)
  <2>1. e \in Nat /\ p \in Seq(Nat) /\ Rising(p) /\ Over(p, e)
    BY <1>7, AtHead DEF InOrder
  <2>2. /\ Under(p, air + 1) /\ e < air + 1 /\ Over(p, 0)
    BY <1>3, <1>7, AtHead DEF InOrder
  <2>3. \A i \in 1 .. Len(got) : Over(p, got[i]) /\ got[i] < e
    BY <1>2, <1>7, AtHead DEF InOrder
  <2> HIDE DEF p, e
  <2>4. Under(got, e) /\ e <= air
    BY <2>1, <2>2, <2>3 DEF Under
  <2> QED
    BY <2>1, <2>2, <2>3, <2>4 DEF InOrder, p, e
<1>8. ASSUME fwd # 0 PROVE InOrder(items, 0, Append(got, fwd), air)
  <2> DEFINE p == Append(got, fwd)
  <2>1. /\ p \in Seq(Nat) /\ Rising(p)
        /\ \A i \in 1 .. Len(p) : p[i] = fwd \/ \E j \in 1 .. Len(got) : p[i] = got[j]
    BY <1>8, AtEnd DEF InOrder
  <2>2. Under(p, air + 1)
    <3>1. fwd < air + 1
      BY DEF InOrder
    <3> QED
      BY <1>3, <3>1, AtEnd DEF InOrder
  <2>3. \A i \in 1 .. Len(p) : Over(items, p[i])
    BY <1>8, <2>1 DEF InOrder
  <2> HIDE DEF p
  <2> QED
    <3>1. InOrder(items, 0, p, air)
      BY <2>1, <2>2, <2>3 DEF InOrder
    <3> QED
      BY <3>1 DEF p
<1> QED
  BY <1>4, <1>5, <1>6, <1>7, <1>8

(* Every step of the capture keeps the order, and of the others none       *)
(* touches it.                                                             *)
LEMMA RawIsKept ==
  ASSUME Basics, RawKept, OverlayNext
  PROVE  RawKept'
<1> DEFINE F == raw.fwd[1]
<1>1. /\ raw \in Raws /\ harm \subseteq harm' /\ raw.items \in Seq(Nat) /\ raw.got \in Seq(Nat)
      /\ raw.air \in Nat /\ raw.fwd \in [1 .. 2 -> Nat] /\ F \in Nat
  BY HarmGrows DEF Basics, Raws
<1>2. SUFFICES ASSUME "no_queue" \notin harm'
               PROVE  /\ raw'.task <= 1 /\ raw'.fwd[2] = 0 /\ (raw'.task = 1 => raw'.q)
                      /\ InOrder(raw'.items, raw'.fwd[1], raw'.got, raw'.air)
  BY DEF RawKept, InOrder
<1>3. /\ raw.task <= 1 /\ raw.fwd[2] = 0 /\ (raw.task = 1 => raw.q)
      /\ InOrder(raw.items, F, raw.got, raw.air)
  BY <1>1, <1>2 DEF RawKept, InOrder
<1>4. CASE UNCHANGED raw
  BY <1>3, <1>4
<1>5. CASE Reboot
  <2>1. raw' = [Raw0 EXCEPT !.air = raw.air, !.got = raw.got]
    BY <1>5 DEF Reboot
  <2>2. PICK e \in Seq(Nat) : e = <<>> /\ Len(e) = 0
    BY EmptySeq
  <2>3. /\ raw'.task = 0 /\ raw'.fwd[1] = 0 /\ raw'.fwd[2] = 0 /\ raw'.air = raw.air
        /\ raw'.got = raw.got
    BY <2>1 DEF Raw0
  <2>4. raw'.items = e
    BY <2>1, <2>2 DEF Raw0
  <2>5. InOrder(e, 0, raw.got, raw.air)
    BY <1>1, <1>3, <2>2 DEF InOrder, Rising, Under, Over
  <2> QED
    BY <2>3, <2>4, <2>5
<1>6. CASE on_set_promisc
  <2>1. PICK made \in {TRUE, FALSE}, task \in {0, 1}, err \in {TRUE, FALSE} :
          /\ raw' = [raw EXCEPT !.q = @ \/ ((call.n # 0 /\ ~raw.q) /\ made),
                                !.task = IF (call.n # 0 /\ ~raw.q) /\ @ < 2 THEN @ + task ELSE @,
                                !.on = IF err THEN @ ELSE call.n # 0]
          /\ harm' = harm \union (IF (call.n # 0 /\ ~raw.q) /\ ~made THEN {"no_queue"} ELSE {})
                          \union (IF (call.n # 0 /\ ~raw.q) /\ task = 0 THEN {"no_task"} ELSE {})
    BY <1>6 DEF on_set_promisc
  <2>2. call.n # 0 /\ ~raw.q => made
    BY <1>2, <2>1
  <2>3. /\ raw'.items = raw.items /\ raw'.fwd = raw.fwd /\ raw'.got = raw.got /\ raw'.air = raw.air
        /\ raw'.task = IF (call.n # 0 /\ ~raw.q) /\ raw.task < 2 THEN raw.task + task ELSE raw.task
        /\ raw'.q = (raw.q \/ ((call.n # 0 /\ ~raw.q) /\ made))
    BY <1>1, <2>1 DEF Raws
  <2>4. CASE call.n # 0 /\ ~raw.q
    <3>1. raw'.q
      BY <2>2, <2>3, <2>4, Zenon
    <3>2. raw.task = 0
      BY <1>1, <1>3, <2>4 DEF Raws
    <3> QED
      BY <1>3, <2>3, <3>1, <3>2
  <2>5. CASE ~(call.n # 0 /\ ~raw.q)
    <3>1. raw'.task = raw.task
      BY <2>3, <2>5
    <3>2. raw.q => raw'.q
      BY <2>3, Zenon
    <3> QED
      BY <1>3, <2>3, <3>1, <3>2
  <2> QED
    BY <2>4, <2>5
<1>7. CASE promisc_cb
  <2>1. /\ raw'.task = raw.task /\ raw'.q = raw.q /\ raw'.fwd = raw.fwd /\ raw'.got = raw.got
        /\ raw'.air = raw.air + 1
        /\ raw'.items = raw.items \/ raw'.items = Append(raw.items, raw.air + 1)
    BY <1>1, <1>7 DEF promisc_cb, Raws
  <2> QED
    BY <1>1, <1>3, <2>1, Captured, ZenonT(60)
<1>8. ASSUME NEW t \in 1 .. 2, t <= raw.task, Takes(t) \/ Gives(t)
      PROVE  /\ raw'.task <= 1 /\ raw'.fwd[2] = 0 /\ (raw'.task = 1 => raw'.q)
             /\ InOrder(raw'.items, raw'.fwd[1], raw'.got, raw'.air)
  <2>1. t = 1
    BY <1>1, <1>3, <1>8 DEF Raws
  <2>2. CASE Takes(t)
    <3>1. /\ raw' = [raw EXCEPT !.fwd[1] = Head(raw.items), !.items = Tail(raw.items)]
          /\ F = 0 /\ raw.items # <<>>
      BY <2>1, <2>2 DEF Takes, TakeRaw
    <3>2. /\ raw'.task = raw.task /\ raw'.q = raw.q /\ raw'.got = raw.got /\ raw'.air = raw.air
          /\ raw'.items = Tail(raw.items)
          /\ raw'.fwd = [raw.fwd EXCEPT ![1] = Head(raw.items)]
      BY <1>1, <3>1 DEF Raws
    <3>3. raw'.fwd[1] = Head(raw.items) /\ raw'.fwd[2] = raw.fwd[2]
      BY <1>1, <3>2
    <3>4. InOrder(Tail(raw.items), Head(raw.items), raw.got, raw.air)
      BY <1>1, <1>3, <3>1, Captured
    <3> QED
      BY <1>3, <3>2, <3>3, <3>4
  <2>3. CASE Gives(t)
    <3>1. PICK got \in {raw.got, Append(raw.got, F)} :
            raw' = [raw EXCEPT !.fwd[1] = 0, !.got = got]
      BY <2>1, <2>3 DEF Gives
    <3>2. /\ raw'.task = raw.task /\ raw'.q = raw.q /\ raw'.items = raw.items
          /\ raw'.air = raw.air /\ raw'.got = got /\ raw'.fwd = [raw.fwd EXCEPT ![1] = 0]
      BY <1>1, <3>1 DEF Raws
    <3>3. raw'.fwd[1] = 0 /\ raw'.fwd[2] = raw.fwd[2]
      BY <1>1, <3>2
    <3>4. /\ InOrder(raw.items, 0, raw.got, raw.air)
          /\ InOrder(raw.items, 0, Append(raw.got, F), raw.air)
      BY <1>1, <1>3, <2>1, <2>3, Captured DEF Gives
    <3> QED
      BY <1>3, <3>1, <3>2, <3>3, <3>4
  <2> QED
    BY <1>8, <2>2, <2>3
<1>9. Reboot \/ on_set_promisc \/ promisc_cb \/ Forwards \/ UNCHANGED raw
  BY Kinds, HandlersLeave
     DEF BootApply, Registers, phy_rpc_handlers_register, phy_rpc_extras_register,
         phy_rpc_wireless_register, Register, Calling, Call, WifiReady, on_wifi_event,
         Other, OtherNext, on_get_info, on_get_caps, on_set_event_mask, on_hooked, on_passed,
         on_frame, handle_custom_rpc_request, Plain, Quiet, UpNext, RegisterCallback,
         RegisterContext, Emit, UpcallCheck, UpcallCall, UpOnly
<1> QED
  BY <1>4, <1>5, <1>6, <1>7, <1>8, <1>9 DEF Forwards

-----------------------------------------------------------------------------
(* The theorems.                                                           *)

(* The invariant holds at first, and is kept ...                           *)
LEMMA InvStarts ==
  ASSUME OverlayInit
  PROVE  OverlayInv
<1>1. /\ part \in Parts /\ room \in Rooms /\ links \in LinkSets
      /\ boot = [at |-> "country", runs |-> 0] /\ registry = {} /\ call = NoCall
      /\ answer = NoAnswer /\ reqs = 0 /\ told = FALSE /\ radio = Radio0 /\ info = Info0
      /\ ready = [at |-> "idle", runs |-> 0] /\ raw = Raw0 /\ up = Up0 /\ harm = {}
  BY DEF OverlayInit
<1>2. MaxReady \in Nat /\ MaxRequest \in Nat /\ RAW_QUEUE_LEN \in Nat
  BY OverlayAssumption
<1>3. Basics
  <2>1. boot \in Boots /\ ready \in Readies
    BY <1>1, <1>2 DEF Boots, Readies, ApplySteps
  <2> QED
    <3>1. call.n \in Args(call.req) /\ call \in Calls /\ answer \in Answers /\ up \in Ups
      BY <1>1, StartTyped
    <3>2. raw \in Raws /\ Len(raw.items) <= RAW_QUEUE_LEN
      BY <1>1, <1>2, StartTyped
    <3>3. radio \in Radios /\ info \in Infos
      BY <1>1, StartTyped
    <3>4. reqs \in 0 .. MaxRequest
      BY <1>1, <1>2
    <3>5. registry \subseteq Req /\ harm \subseteq Harm /\ told \in BOOLEAN
      BY <1>1
    <3> QED
      BY <1>1, <2>1, <3>1, <3>2, <3>3, <3>4, <3>5 DEF Basics
<1>4. RadioKept
  BY <1>1 DEF RadioKept, PowerAsReported, NoCall, Radio0, Info0, ApplySteps
<1>5. AnswersKept
  BY <1>1 DEF AnswersKept, Tabled, AnswerTrue, CapsHonest, FrameIntact, FrameVerbatim, NoAnswer
<1>6. RawKept
  <2>1. PICK e \in Seq(Nat) : e = <<>> /\ Len(e) = 0
    BY EmptySeq
  <2>2. /\ raw.task = 0 /\ raw.fwd[1] = 0 /\ raw.fwd[2] = 0 /\ raw.air = 0
    BY <1>1 DEF Raw0
  <2>3. raw.items = e /\ raw.got = e
    BY <1>1, <2>1 DEF Raw0
  <2> QED
    BY <2>1, <2>2, <2>3 DEF RawKept, Rising, Under, Over
<1>7. UpcallKept
  BY <1>1 DEF UpcallKept, UpcallMatches, Up0
<1> QED
  BY <1>3, <1>4, <1>5, <1>6, <1>7 DEF OverlayInv

(* ... by every step.                                                      *)
LEMMA InvKept ==
  ASSUME OverlayInv, [OverlayNext]_overlayVars
  PROVE  OverlayInv'
<1>1. CASE OverlayNext
  BY <1>1, BasicsKept, RadioIsKept, AnswersAreKept, RawIsKept, UpcallIsKept DEF OverlayInv
<1>2. CASE UNCHANGED overlayVars
  <2>1. /\ Basics' /\ RadioKept' /\ RawKept' /\ UpcallKept'
    <3>1. Basics'
      BY <1>2 DEF OverlayInv, Basics
    <3>2. RadioKept'
      BY <1>2 DEF OverlayInv, RadioKept, PowerAsReported
    <3>3. RawKept'
      BY <1>2 DEF OverlayInv, RawKept
    <3>4. UpcallKept'
      BY <1>2 DEF OverlayInv, UpcallKept, UpcallMatches
    <3> QED
      BY <3>1, <3>2, <3>3, <3>4
  <2>2. AnswersKept'
    <3>1. AnswersKept /\ Caps' = Caps
      BY <1>2, CapsStay DEF OverlayInv
    <3> QED
      BY <1>2, <3>1 DEF AnswersKept, Tabled, AnswerTrue, CapsHonest, FrameIntact,
              FrameVerbatim
  <2> QED
    BY <2>1, <2>2 DEF OverlayInv
<1> QED
  BY <1>1, <1>2

(* So it holds of every state.                                             *)
THEOREM OverlayInvariant == OverlaySpec => []OverlayInv
  BY InvStarts, InvKept, PTL DEF OverlaySpec

(* What GET_INFO reports is how the radio is set, and the radio is never   *)
(* left on the channel it is moved from, but for the named exceptions.     *)
THEOREM StateIsTrue == OverlaySpec => []StateTrue
<1>1. OverlayInv => StateTrue
  <2> SUFFICES ASSUME OverlayInv PROVE StateTrue
    OBVIOUS
  <2>1. TypeOK
    BY DEF OverlayInv, Basics, TypeOK, Boots, Calls, Answers, Radios, Infos, Readies, Raws, Ups,
           Status, Done, Chan, Harm
  <2>2. AtRest => boot.at \notin {"country", "p11"} /\ ready.at # "tune"
    BY DEF AtRest, ApplySteps
  <2>3. InfoTrue /\ TunedAtRest /\ PowerAsReported
    BY <2>2 DEF OverlayInv, RadioKept, InfoTrue, TunedAtRest, AtRest
  <2> QED
    BY <2>1, <2>3 DEF StateTrue
<1> QED
  BY <1>1, OverlayInvariant, PTL

(* An answer says what was done, and GET_CAPS what there is a function     *)
(* for, but for the named exceptions.                                      *)
THEOREM AnswersAreHonest == OverlaySpec => []AnswersHonest
<1>1. OverlayInv => AnswersHonest
  BY DEF OverlayInv, AnswersKept, AnswersHonest
<1> QED
  BY <1>1, OverlayInvariant, PTL

(* The ESP-NOW or IEEE 802.15.4 frame that is transmitted is the host's,   *)
(* and captured frames reach the host in order.                            *)
THEOREM FramesAreIntact == OverlaySpec => []FramesIntact
<1>1. OverlayInv => FramesIntact
  <2> SUFFICES ASSUME OverlayInv PROVE FramesIntact
    OBVIOUS
  <2>1. DOMAIN raw.got = 1 .. Len(raw.got)
    BY DEF OverlayInv, Basics, Raws
  <2> QED
    BY <2>1 DEF OverlayInv, AnswersKept, RawKept, Rising, RawInOrder, FramesIntact
<1> QED
  BY <1>1, OverlayInvariant, PTL

(* An upcall of the host has a callback and the context that was           *)
(* registered with it, unless a registration came under it.                *)
THEOREM UpcallsMatch == OverlaySpec => []UpcallMatches
<1>1. OverlayInv => UpcallMatches
  BY DEF OverlayInv, UpcallKept, UpcallMatches
<1> QED
  BY <1>1, OverlayInvariant, PTL

=============================================================================
