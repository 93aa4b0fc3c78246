-------------------------- MODULE SlaveWifiProofs --------------------------
(***************************************************************************)
(* Proofs about the slave's Wi-Fi control, for any builds, configurations, *)
(* numbers of requests and changes of the link.                            *)
(***************************************************************************)
EXTENDS SlaveWifi, TLAPS, SequenceTheorems

USE DEF wifiVars

-----------------------------------------------------------------------------
(* What a queue of events has in it, and what is after its i-th event.     *)
Has(q, e)      == \E k \in 1 .. Len(q) : q[k] = e
After(q, i, e) == \E k \in i + 1 .. Len(q) : q[k] = e

(* The station comes up with its i-th event, or was up before the first.   *)
Up(was, q, i)     == IF i = 0 THEN was = "up" ELSE q[i] = "connected"
ApUp(known, q, i) == IF i = 0 THEN known = "up" ELSE q[i] = "ap_start"

(* The station only comes up, or starts, when it is down.                  *)
Alternate(was, q) ==
  \A i \in 0 .. Len(q), j \in 1 .. Len(q) :
    i < j /\ Up(was, q, i) /\ q[j] \in {"connected", "sta_start"} =>
      \E k \in i + 1 .. j - 1 : q[k] = "disconnected"

(* It is up when all events have been handled.                             *)
Standing(was, q)     == \E i \in 0 .. Len(q) : Up(was, q, i) /\ ~After(q, i, "disconnected")
ApStanding(known, q) == \E i \in 0 .. Len(q) : ApUp(known, q, i) /\ ~After(q, i, "ap_stop")

(* It has stopped by then.                                                 *)
OfStation == {"connected", "disconnected", "sta_start"}
Stopping(q) == \A i \in 1 .. Len(q) : q[i] \in OfStation => After(q, i, "sta_stop")

(* The events lead from what was known of the station and the soft-AP to   *)
(* the link, and to whether the station and the soft-AP are active.        *)
Tells(q, was, known, link, station, ap) ==
  /\ Alternate(was, q)
  /\ link = "joined" <=> Standing(was, q)
  /\ station = "on" \/ Stopping(q)
  /\ ap = "on" <=> ApStanding(known, q)

(* One more event.                                                         *)
LEMMA Posted ==
  ASSUME NEW q \in Seq(Event), NEW e \in Event
  PROVE  /\ Append(q, e) \in Seq(Event) /\ Len(Append(q, e)) = Len(q) + 1 /\ Len(q) \in Nat
         /\ \A i \in 1 .. Len(q) : Append(q, e)[i] = q[i]
         /\ Append(q, e)[Len(q) + 1] = e
         /\ \A f : Has(Append(q, e), f) <=> Has(q, f) \/ e = f
         /\ \A f : \A i \in 0 .. Len(q) :
              After(Append(q, e), i, f) <=> After(q, i, f) \/ e = f
         /\ \A f : ~After(Append(q, e), Len(q) + 1, f)
<1>1. /\ Append(q, e) \in Seq(Event) /\ Len(Append(q, e)) = Len(q) + 1 /\ Len(q) \in Nat
      /\ \A i \in 1 .. Len(q) : Append(q, e)[i] = q[i]
      /\ Append(q, e)[Len(q) + 1] = e
  OBVIOUS
<1> DEFINE n == Len(q)
           r == Append(q, e)
<1>2. n \in Nat /\ Len(r) = n + 1 /\ (\A i \in 1 .. n : r[i] = q[i]) /\ r[n + 1] = e
  BY <1>1
<1> HIDE DEF n, r
<1>3. \A f : (\E k \in 1 .. n + 1 : r[k] = f) <=> (\E k \in 1 .. n : q[k] = f) \/ e = f
  BY <1>2
<1>4. \A f : \A i \in 0 .. n :
        (\E k \in i + 1 .. n + 1 : r[k] = f) <=> (\E k \in i + 1 .. n : q[k] = f) \/ e = f
  BY <1>2
<1>5. \A f : ~\E k \in n + 1 + 1 .. n + 1 : r[k] = f
  BY <1>2
<1> QED
  BY <1>1, <1>2, <1>3, <1>4, <1>5 DEF Has, After, n, r

(* The station is up after it exactly if it was and it is not an end, or   *)
(* it is the beginning; the same of the soft-AP.                           *)
LEMMA PostedStanding ==
  ASSUME NEW q \in Seq(Event), NEW e \in Event, NEW was, NEW known
  PROVE  /\ Standing(was, Append(q, e))
              <=> e = "connected" \/ (e # "disconnected" /\ Standing(was, q))
         /\ ApStanding(known, Append(q, e))
              <=> e = "ap_start" \/ (e # "ap_stop" /\ ApStanding(known, q))
<1> DEFINE n == Len(q)
           r == Append(q, e)
<1>1. /\ n \in Nat /\ Len(r) = n + 1 /\ (\A i \in 1 .. n : r[i] = q[i]) /\ r[n + 1] = e
      /\ \A f : \A i \in 0 .. n : After(r, i, f) <=> After(q, i, f) \/ e = f
      /\ \A f : ~After(r, n + 1, f)
  BY Posted
<1> HIDE DEF r
<1>2. /\ \A i \in 0 .. n : Up(was, r, i) <=> Up(was, q, i)
      /\ \A i \in 0 .. n : ApUp(known, r, i) <=> ApUp(known, q, i)
      /\ Up(was, r, n + 1) <=> e = "connected"
      /\ ApUp(known, r, n + 1) <=> e = "ap_start"
  BY <1>1 DEF Up, ApUp
<1>3. \A i : i \in 0 .. n + 1 <=> i \in 0 .. n \/ i = n + 1
  BY <1>1
<1>4. Standing(was, r) <=> e = "connected" \/ (e # "disconnected" /\ Standing(was, q))
  BY <1>1, <1>2, <1>3 DEF Standing
<1>5. ApStanding(known, r) <=> e = "ap_start" \/ (e # "ap_stop" /\ ApStanding(known, q))
  BY <1>1, <1>2, <1>3 DEF ApStanding
<1> QED
  BY <1>4, <1>5 DEF r

(* It comes up, or starts, only after having been down.                    *)
LEMMA PostedAlternate ==
  ASSUME NEW q \in Seq(Event), NEW e \in Event, NEW was, Alternate(was, q),
         e \in {"connected", "sta_start"} => ~Standing(was, q)
  PROVE  Alternate(was, Append(q, e))
<1> DEFINE n == Len(q)
           r == Append(q, e)
<1>1. /\ n \in Nat /\ Len(r) = n + 1 /\ (\A i \in 1 .. n : r[i] = q[i]) /\ r[n + 1] = e
  BY Posted
<1> HIDE DEF r
<1>2. \A i \in 0 .. n : Up(was, r, i) <=> Up(was, q, i)
  BY <1>1 DEF Up
<1>3. SUFFICES ASSUME NEW i \in 0 .. n + 1, NEW j \in 1 .. n + 1, i < j, Up(was, r, i),
                      r[j] \in {"connected", "sta_start"}
               PROVE  \E k \in i + 1 .. j - 1 : r[k] = "disconnected"
  BY <1>1 DEF Alternate, r
<1>4. i \in 0 .. n /\ Up(was, q, i)
  BY <1>1, <1>2, <1>3
<1>5. CASE j \in 1 .. n
  <2>1. PICK k \in i + 1 .. j - 1 : q[k] = "disconnected"
    BY <1>1, <1>3, <1>4, <1>5 DEF Alternate
  <2>2. k \in 1 .. n
    BY <1>1, <1>4, <1>5
  <2> QED
    BY <1>1, <2>1, <2>2
<1>6. CASE j = n + 1
  <2>1. After(q, i, "disconnected")
    BY <1>1, <1>3, <1>4, <1>6 DEF Standing
  <2>2. PICK k \in i + 1 .. n : q[k] = "disconnected"
    BY <2>1 DEF After
  <2>3. k \in 1 .. n /\ k \in i + 1 .. j - 1
    BY <1>1, <1>4, <1>6
  <2> QED
    BY <1>1, <2>2, <2>3
<1> QED
  BY <1>1, <1>5, <1>6

(* The station's stop comes after everything else.                         *)
LEMMA PostedStopping ==
  ASSUME NEW q \in Seq(Event), NEW e \in Event,
         e = "sta_stop" \/ (Stopping(q) /\ e \notin OfStation)
  PROVE  Stopping(Append(q, e))
<1> DEFINE n == Len(q)
           r == Append(q, e)
<1>1. /\ n \in Nat /\ Len(r) = n + 1 /\ (\A i \in 1 .. n : r[i] = q[i]) /\ r[n + 1] = e
      /\ \A f : \A i \in 0 .. n : After(r, i, f) <=> After(q, i, f) \/ e = f
  BY Posted
<1> HIDE DEF r
<1>2. \A i : i \in 1 .. n + 1 <=> i \in 1 .. n \/ i = n + 1
  BY <1>1
<1>3. \A i \in 1 .. n : i \in 0 .. n
  BY <1>1
<1>4. "sta_stop" \notin OfStation
  BY DEF OfStation
<1> QED
  BY <1>1, <1>2, <1>3, <1>4 DEF Stopping, r

(* What each event makes of the rest.                                      *)
LEMMA PostedTells ==
  ASSUME NEW q \in Seq(Event), NEW was, NEW known, NEW link, NEW station, NEW ap,
         Tells(q, was, known, link, station, ap)
  PROVE  /\ Tells(Append(q, "disconnected"), was, known, "idle", "on", ap)
         /\ link # "joined" => Tells(Append(q, "connected"), was, known, "joined", "on", ap)
         /\ link # "joined" => Tells(Append(q, "sta_start"), was, known, link, "on", ap)
         /\ Tells(Append(q, "sta_stop"), was, known, link, "off", ap)
         /\ Tells(Append(q, "ap_start"), was, known, link, station, "on")
         /\ Tells(Append(q, "ap_stop"), was, known, link, station, "off")
<1>1. /\ "disconnected" \in Event /\ "connected" \in Event /\ "sta_start" \in Event
      /\ "sta_stop" \in Event /\ "ap_start" \in Event /\ "ap_stop" \in Event
  BY DEF Event
<1>2. \A e \in Event :
        /\ Standing(was, Append(q, e))
             <=> e = "connected" \/ (e # "disconnected" /\ Standing(was, q))
        /\ ApStanding(known, Append(q, e))
             <=> e = "ap_start" \/ (e # "ap_stop" /\ ApStanding(known, q))
        /\ (e \in {"connected", "sta_start"} => ~Standing(was, q))
             => Alternate(was, Append(q, e))
        /\ e = "sta_stop" \/ (Stopping(q) /\ e \notin OfStation) => Stopping(Append(q, e))
  BY PostedStanding, PostedAlternate, PostedStopping DEF Tells
<1> QED
  BY <1>1, <1>2 DEF Tells, OfStation

(* What is known once an event has been handled.                           *)
Then(was, e)     == IF e = "connected" THEN "up" ELSE IF e = "disconnected" THEN "down" ELSE was
ApThen(known, e) == IF e = "ap_start" THEN "up" ELSE IF e = "ap_stop" THEN "down" ELSE known

(* The first event of a queue.                                             *)
LEMMA Taken ==
  ASSUME NEW q \in Seq(Event), q # <<>>
  PROVE  /\ Head(q) \in Event /\ Tail(q) \in Seq(Event) /\ Head(q) = q[1]
         /\ Len(q) \in Nat \ {0} /\ Len(Tail(q)) = Len(q) - 1
         /\ \A i \in 1 .. Len(q) - 1 : Tail(q)[i] = q[i + 1]
         /\ \A f : Has(q, f) <=> Head(q) = f \/ Has(Tail(q), f)
         /\ \A f : \A i \in 0 .. Len(q) - 1 : After(Tail(q), i, f) <=> After(q, i + 1, f)
         /\ \A f : After(q, 0, f) <=> Head(q) = f \/ After(q, 1, f)
<1>1. /\ Head(q) \in Event /\ Tail(q) \in Seq(Event) /\ Head(q) = q[1]
      /\ Len(q) \in Nat \ {0} /\ Len(Tail(q)) = Len(q) - 1
      /\ \A i \in 1 .. Len(q) - 1 : Tail(q)[i] = q[i + 1]
  OBVIOUS
<1> DEFINE n == Len(q) - 1
           h == Head(q)
           r == Tail(q)
<1>2. n \in Nat /\ Len(q) = n + 1 /\ Len(r) = n /\ (\A i \in 1 .. n : r[i] = q[i + 1]) /\ q[1] = h
  BY <1>1
<1> HIDE DEF n, h, r
<1>3. \A i \in 0 .. n : \A k \in i + 1 .. n : k \in 1 .. n /\ k + 1 \in i + 1 + 1 .. n + 1
  BY <1>2
<1>4. \A i \in 0 .. n : \A k \in i + 1 + 1 .. n + 1 :
        k - 1 \in 1 .. n /\ k - 1 \in i + 1 .. n /\ (k - 1) + 1 = k
  BY <1>2
<1>5. \A f : \A i \in 0 .. n :
        (\E k \in i + 1 .. n : r[k] = f) <=> (\E k \in i + 1 + 1 .. n + 1 : q[k] = f)
  <2> SUFFICES ASSUME NEW f, NEW i \in 0 .. n
               PROVE  (\E k \in i + 1 .. n : r[k] = f)
                        <=> (\E k \in i + 1 + 1 .. n + 1 : q[k] = f)
    OBVIOUS
  <2>1. ASSUME NEW k \in i + 1 .. n, r[k] = f
        PROVE  \E l \in i + 1 + 1 .. n + 1 : q[l] = f
    <3>1. k + 1 \in i + 1 + 1 .. n + 1 /\ q[k + 1] = f
      BY <1>2, <1>3, <2>1
    <3> QED
      BY <3>1
  <2>2. ASSUME NEW k \in i + 1 + 1 .. n + 1, q[k] = f
        PROVE  \E l \in i + 1 .. n : r[l] = f
    <3>1. k - 1 \in i + 1 .. n /\ r[k - 1] = f
      BY <1>2, <1>4, <2>2
    <3> QED
      BY <3>1
  <2> QED
    BY <2>1, <2>2
<1>6. \A f : \A i \in 0 .. n : After(r, i, f) <=> After(q, i + 1, f)
  <2> SUFFICES ASSUME NEW f, NEW i \in 0 .. n
               PROVE  After(r, i, f) <=> After(q, i + 1, f)
    OBVIOUS
  <2>1. (\E k \in i + 1 .. n : r[k] = f) <=> (\E k \in i + 1 + 1 .. n + 1 : q[k] = f)
    BY <1>5
  <2>2. Len(r) = n /\ Len(q) = n + 1
    BY <1>2
  <2> QED
    BY <2>1, <2>2, Zenon DEF After
<1>7. \A k : k \in 0 + 1 .. n + 1 <=> k = 1 \/ k \in 1 + 1 .. n + 1
  BY <1>2
<1>8. \A f : After(q, 0, f) <=> h = f \/ After(q, 1, f)
  BY <1>2, <1>7 DEF After
<1>9. \A f : (Has(q, f) <=> After(q, 0, f)) /\ (Has(r, f) <=> After(r, 0, f))
  <2>1. 0 + 1 = 1
    OBVIOUS
  <2> QED
    BY <2>1 DEF Has, After
<1>10. \A f : Has(q, f) <=> h = f \/ Has(r, f)
  <2>1. 0 \in 0 .. n /\ 0 + 1 = 1
    BY <1>2
  <2>2. \A f : After(r, 0, f) <=> After(q, 1, f)
    BY <1>6, <2>1
  <2> QED
    BY <1>8, <1>9, <2>2
<1> QED
  BY <1>1, <1>6, <1>8, <1>10 DEF n, h, r

(* Handling it changes what is known, not what there is to come.           *)
LEMMA TakenTells ==
  ASSUME NEW q \in Seq(Event), q # <<>>,
         NEW was, NEW known, NEW link, NEW station, NEW ap,
         Tells(q, was, known, link, station, ap)
  PROVE  /\ Tells(Tail(q), Then(was, Head(q)), ApThen(known, Head(q)), link, station, ap)
         /\ Head(q) \in {"connected", "sta_start"} => was # "up"
         /\ Head(q) = "connected" /\ link # "joined" => Has(Tail(q), "disconnected")
         /\ Head(q) \in OfStation => station = "on" \/ Has(Tail(q), "sta_stop")
<1> DEFINE n == Len(q) - 1
           h == Head(q)
           r == Tail(q)
           then == Then(was, h)
           apthen == ApThen(known, h)
<1>1. /\ n \in Nat /\ Len(q) = n + 1 /\ Len(r) = n /\ q[1] = h
      /\ \A i \in 1 .. n : r[i] = q[i + 1]
      /\ \A f : \A i \in 0 .. n : After(r, i, f) <=> After(q, i + 1, f)
      /\ \A f : After(q, 0, f) <=> h = f \/ After(q, 1, f)
      /\ \A f : Has(q, f) <=> h = f \/ Has(r, f)
  BY Taken
<1> HIDE DEF n, h, r
<1>2. /\ \A i \in 1 .. n : Up(then, r, i) <=> Up(was, q, i + 1)
      /\ \A i \in 1 .. n : ApUp(apthen, r, i) <=> ApUp(known, q, i + 1)
      /\ Up(was, q, 1) <=> h = "connected"
      /\ ApUp(known, q, 1) <=> h = "ap_start"
      /\ Up(was, q, 0) <=> was = "up"
      /\ ApUp(known, q, 0) <=> known = "up"
      /\ Up(then, r, 0) <=> then = "up"
      /\ ApUp(apthen, r, 0) <=> apthen = "up"
  <2>1. \A i \in 1 .. n : i # 0 /\ i + 1 # 0
    BY <1>1
  <2> QED
    BY <1>1, <2>1 DEF Up, ApUp
<1>3. /\ then = "up" <=> h = "connected" \/ (was = "up" /\ h # "disconnected")
      /\ apthen = "up" <=> h = "ap_start" \/ (known = "up" /\ h # "ap_stop")
  BY DEF Then, ApThen
<1>4. /\ Alternate(was, q) /\ (link = "joined" <=> Standing(was, q))
      /\ station = "on" \/ Stopping(q)
      /\ ap = "on" <=> ApStanding(known, q)
  BY DEF Tells
<1> HIDE DEF then, apthen
<1>5. /\ 0 \in 0 .. n /\ 0 + 1 = 1 /\ 0 \in 0 .. n + 1 /\ 1 \in 0 .. n + 1 /\ 1 \in 1 .. n + 1
      /\ \A i \in 0 .. n : i = 0 \/ i \in 1 .. n
      /\ \A i \in 1 .. n : i \in 0 .. n /\ i + 1 \in 0 .. n + 1 /\ i + 1 \in 1 .. n + 1
      /\ \A i \in 0 .. n + 1 : \/ i = 0 \/ i = 1
                               \/ i - 1 \in 1 .. n /\ i - 1 \in 0 .. n /\ (i - 1) + 1 = i
  BY <1>1
<1>6. Standing(then, r) <=> Standing(was, q)
  <2>1. ASSUME Standing(then, r) PROVE Standing(was, q)
    <3>1. PICK i \in 0 .. n : Up(then, r, i) /\ ~After(r, i, "disconnected")
      BY <1>1, <2>1 DEF Standing
    <3>2. ~After(q, i + 1, "disconnected")
      BY <1>1, <3>1
    <3>3. CASE i = 0
      BY <1>1, <1>2, <1>3, <1>5, <3>1, <3>2, <3>3 DEF Standing
    <3>4. CASE i \in 1 .. n
      BY <1>1, <1>2, <1>5, <3>1, <3>2, <3>4 DEF Standing
    <3> QED
      BY <1>5, <3>3, <3>4
  <2>2. ASSUME Standing(was, q) PROVE Standing(then, r)
    <3>1. PICK i \in 0 .. n + 1 : Up(was, q, i) /\ ~After(q, i, "disconnected")
      BY <1>1, <2>2 DEF Standing
    <3>2. CASE i = 0 \/ i = 1
      <4>1. then = "up" /\ ~After(q, 1, "disconnected")
        BY <1>1, <1>2, <1>3, <3>1, <3>2
      <4>2. ~After(r, 0, "disconnected")
        BY <1>1, <1>5, <4>1
      <4> QED
        BY <1>1, <1>2, <1>5, <4>1, <4>2 DEF Standing
    <3>3. CASE i - 1 \in 1 .. n
      <4>1. Up(then, r, i - 1) /\ ~After(r, i - 1, "disconnected")
        BY <1>1, <1>2, <1>5, <3>1, <3>3
      <4> QED
        BY <1>1, <1>5, <3>3, <4>1 DEF Standing
    <3> QED
      BY <1>5, <3>2, <3>3
  <2> QED
    BY <2>1, <2>2
<1>7. ApStanding(apthen, r) <=> ApStanding(known, q)
  <2>1. ASSUME ApStanding(apthen, r) PROVE ApStanding(known, q)
    <3>1. PICK i \in 0 .. n : ApUp(apthen, r, i) /\ ~After(r, i, "ap_stop")
      BY <1>1, <2>1 DEF ApStanding
    <3>2. ~After(q, i + 1, "ap_stop")
      BY <1>1, <3>1
    <3>3. CASE i = 0
      BY <1>1, <1>2, <1>3, <1>5, <3>1, <3>2, <3>3 DEF ApStanding
    <3>4. CASE i \in 1 .. n
      BY <1>1, <1>2, <1>5, <3>1, <3>2, <3>4 DEF ApStanding
    <3> QED
      BY <1>5, <3>3, <3>4
  <2>2. ASSUME ApStanding(known, q) PROVE ApStanding(apthen, r)
    <3>1. PICK i \in 0 .. n + 1 : ApUp(known, q, i) /\ ~After(q, i, "ap_stop")
      BY <1>1, <2>2 DEF ApStanding
    <3>2. CASE i = 0 \/ i = 1
      <4>1. apthen = "up" /\ ~After(q, 1, "ap_stop")
        BY <1>1, <1>2, <1>3, <3>1, <3>2
      <4>2. ~After(r, 0, "ap_stop")
        BY <1>1, <1>5, <4>1
      <4> QED
        BY <1>1, <1>2, <1>5, <4>1, <4>2 DEF ApStanding
    <3>3. CASE i - 1 \in 1 .. n
      <4>1. ApUp(apthen, r, i - 1) /\ ~After(r, i - 1, "ap_stop")
        BY <1>1, <1>2, <1>5, <3>1, <3>3
      <4> QED
        BY <1>1, <1>5, <3>3, <4>1 DEF ApStanding
    <3> QED
      BY <1>5, <3>2, <3>3
  <2> QED
    BY <2>1, <2>2
<1>8. Alternate(then, r)
  <2> SUFFICES ASSUME NEW i \in 0 .. n, NEW j \in 1 .. n, i < j, Up(then, r, i),
                      r[j] \in {"connected", "sta_start"}
               PROVE  \E k \in i + 1 .. j - 1 : r[k] = "disconnected"
    BY <1>1 DEF Alternate
  <2>1. PICK l \in 0 .. n + 1 :
          /\ Up(was, q, l) /\ l <= i + 1
          /\ l = i + 1 \/ (l = 0 /\ i = 0 /\ h # "disconnected")
    <3>1. CASE i = 0
      BY <1>2, <1>3, <1>5, <3>1
    <3>2. CASE i \in 1 .. n
      BY <1>2, <1>5, <3>2
    <3> QED
      BY <1>5, <3>1, <3>2
  <2>2. q[j + 1] \in {"connected", "sta_start"} /\ j + 1 \in 1 .. n + 1 /\ l < j + 1
    BY <1>1, <2>1
  <2>3. PICK k \in l + 1 .. j : q[k] = "disconnected"
    <3>1. \E k \in l + 1 .. (j + 1) - 1 : q[k] = "disconnected"
      BY <1>1, <1>4, <2>1, <2>2 DEF Alternate
    <3> QED
      BY <3>1
  <2>4. k # 1 \/ l # 0
    BY <1>1, <2>1, <2>3
  <2>5. k - 1 \in 1 .. n /\ k - 1 \in i + 1 .. j - 1 /\ (k - 1) + 1 = k
    BY <1>1, <2>1, <2>4
  <2> QED
    BY <1>1, <2>3, <2>5
<1>9. Stopping(q) => Stopping(r) /\ (h \in OfStation => Has(r, "sta_stop"))
  <2>1. ASSUME Stopping(q), NEW i \in 1 .. n, r[i] \in OfStation
        PROVE  After(r, i, "sta_stop")
    BY <1>1, <1>5, <2>1 DEF Stopping
  <2>2. ASSUME Stopping(q), h \in OfStation PROVE Has(r, "sta_stop")
    <3>1. After(q, 1, "sta_stop")
      BY <1>1, <1>5, <2>2 DEF Stopping
    <3>2. After(r, 0, "sta_stop")
      BY <1>1, <1>5, <3>1
    <3> QED
      BY <1>5, <3>2 DEF Has, After
  <2> QED
    BY <1>1, <2>1, <2>2 DEF Stopping
<1>10. h \in {"connected", "sta_start"} => was # "up"
  <2> SUFFICES ASSUME q[1] \in {"connected", "sta_start"}, Up(was, q, 0) PROVE FALSE
    BY <1>1, <1>2
  <2>1. \E k \in 0 + 1 .. 1 - 1 : q[k] = "disconnected"
    BY <1>1, <1>4, <1>5 DEF Alternate
  <2> QED
    BY <2>1
<1>11. h = "connected" /\ link # "joined" => Has(r, "disconnected")
  <2> SUFFICES ASSUME h = "connected", ~Standing(was, q) PROVE Has(r, "disconnected")
    BY <1>4
  <2>1. After(q, 1, "disconnected")
    BY <1>1, <1>2, <1>5 DEF Standing
  <2>2. After(r, 0, "disconnected")
    BY <1>1, <1>5, <2>1
  <2> QED
    BY <1>5, <2>2 DEF Has, After
<1> QED
  BY <1>4, <1>6, <1>7, <1>8, <1>9, <1>10, <1>11 DEF Tells, then, apthen, h, r

(* With no event to come, what is known is so.                             *)
LEMMA AllTold ==
  ASSUME NEW q, q = <<>>, NEW was, NEW known, NEW link, NEW station, NEW ap,
         Tells(q, was, known, link, station, ap)
  PROVE  /\ link = "joined" <=> was = "up"
         /\ ap = "on" <=> known = "up"
         /\ \A f : ~Has(q, f)
<1>1. Len(q) = 0 /\ 0 .. 0 = {0} /\ 1 .. 0 = {} /\ 0 + 1 = 1
  OBVIOUS
<1>2. (\A f : ~Has(q, f)) /\ (\A f : ~After(q, 0, f))
  BY <1>1 DEF Has, After
<1>3. (Standing(was, q) <=> was = "up") /\ (ApStanding(known, q) <=> known = "up")
  BY <1>1, <1>2 DEF Standing, ApStanding, Up, ApUp
<1> QED
  BY <1>2, <1>3 DEF Tells

-----------------------------------------------------------------------------
(* The driver, and what is known of it.                                    *)
Drivers == [up: {"off", "inited", "started"}, mode: Mode, cfg: AnyConfig,
            link: {"idle", "joining", "joined"}, init: InitConfig]

Active == drv.up = "started" /\ HasSta(drv.mode)
Act    == IF Active THEN "on" ELSE "off"
ApAct  == IF drv.up = "started" /\ HasAp(drv.mode) THEN "on" ELSE "off"

(* The handler is in the middle of a disconnection.                        *)
Ending == evt \in {"applied", "drop", "tell", "reconnect"}

(* What the handler has made of the events so far.                         *)
Was   == IF ~Ending /\ (told = "up" \/ s.suppress_disconnect) THEN "up" ELSE "down"
Known == IF s.softap_started THEN "up" ELSE "down"

(* The driver may change while what is known of it stays, if the events    *)
(* that say so are posted.                                                 *)
Moved(was, known) ==
  /\ evq' \in Seq(Event)
  /\ drv'.link # "idle" => Active'
  /\ Tells(evq', was, known, drv'.link, Act', ApAct')
  /\ \A f : Has(evq, f) => Has(evq', f)
  /\ Active => Active' \/ Has(evq', "sta_stop")
  /\ drv.link # "idle" /\ drv'.link # drv.link =>
       Has(evq', "disconnected") \/ (drv'.link = "joined" /\ Has(evq', "connected"))

(* What is true of it before a step, ...                                   *)
Told(was, known) ==
  /\ evq \in Seq(Event) /\ drv \in Drivers
  /\ drv.link # "idle" => Active
  /\ Tells(evq, was, known, drv.link, Act, ApAct)

(* ... and after one.                                                      *)
ToldNext(was, known) ==
  /\ evq' \in Seq(Event) /\ drv' \in Drivers
  /\ drv'.link # "idle" => Active'
  /\ Tells(evq', was, known, drv'.link, Act', ApAct')

(* Nothing has to be posted when neither link nor activity changes.        *)
LEMMA MovedNot ==
  ASSUME NEW was, NEW known, Told(was, known),
         UNCHANGED evq, drv'.up = drv.up, drv'.mode = drv.mode, drv'.link = drv.link
  PROVE  Moved(was, known)
  BY DEF Told, Moved, Active, Act, ApAct

(* Joining is not told.                                                    *)
LEMMA NotJoined ==
  ASSUME NEW q, NEW was, NEW known, NEW link, NEW station, NEW ap,
         Tells(q, was, known, link, station, ap), link # "joined"
  PROVE  Tells(q, was, known, "joining", station, ap) /\ Tells(q, was, known, "idle", station, ap)
  BY DEF Tells

(* A station that is made active is not told either.                       *)
LEMMA MadeActive ==
  ASSUME NEW q, NEW was, NEW known, NEW link, NEW station, NEW ap,
         Tells(q, was, known, link, station, ap)
  PROVE  Tells(q, was, known, link, "on", ap)
  BY DEF Tells

(* esp_wifi_connect makes an idle station join, or does nothing.           *)
LEMMA Connects ==
  ASSUME NEW d \in Drivers
  PROVE  /\ DrvConnect(d) \in Drivers
         /\ DrvConnect(d).up = d.up /\ DrvConnect(d).mode = d.mode
         /\ DrvConnect(d).cfg = d.cfg /\ DrvConnect(d).init = d.init
         /\ DrvConnectResult(d) \in {"not_started", "ssid", "conn", "ok"}
         /\ DrvConnectResult(d) = "ok" =>
              /\ d.link = "idle" /\ DrvConnect(d).link = "joining"
              /\ d.up = "started" /\ HasSta(d.mode)
         /\ DrvConnectResult(d) # "ok" => DrvConnect(d) = d
         /\ DrvConnectResult(d) = "conn" => d.link # "idle"
         /\ DrvConnectResult(d) = "not_started" => ~(d.up = "started" /\ HasSta(d.mode))
<1>1. CASE d.up # "started" \/ ~HasSta(d.mode)
  <2>1. DrvConnectResult(d) = "not_started"
    BY <1>1 DEF DrvConnectResult
  <2> QED
    BY <1>1, <2>1 DEF DrvConnect
<1>2. CASE d.up = "started" /\ HasSta(d.mode) /\ d.cfg = NoConfig
  <2>1. DrvConnectResult(d) = "ssid"
    BY <1>2 DEF DrvConnectResult
  <2> QED
    BY <2>1 DEF DrvConnect
<1>3. CASE d.up = "started" /\ HasSta(d.mode) /\ d.cfg # NoConfig /\ d.link # "idle"
  <2>1. DrvConnectResult(d) = "conn"
    BY <1>3 DEF DrvConnectResult
  <2> QED
    BY <1>3, <2>1 DEF DrvConnect
<1>4. CASE d.up = "started" /\ HasSta(d.mode) /\ d.cfg # NoConfig /\ d.link = "idle"
  <2>1. DrvConnectResult(d) = "ok"
    BY <1>4 DEF DrvConnectResult
  <2> QED
    BY <1>4, <2>1 DEF DrvConnect, Drivers
<1> QED
  BY <1>1, <1>2, <1>3, <1>4

(* Posting an event, or none.                                              *)
LEMMA WithEvent ==
  ASSUME NEW q \in Seq(Event), NEW e \in Event
  PROVE  q \o <<e>> = Append(q, e) /\ q \o <<>> = q
  OBVIOUS

(* Posting several one after another is posting them together.             *)
LEMMA WithEvents ==
  ASSUME NEW q \in Seq(Event), NEW a \in Seq(Event), NEW b \in Seq(Event), NEW c \in Seq(Event)
  PROVE  q \o (a \o b \o c) = ((q \o a) \o b) \o c
<1>1. a \o b \in Seq(Event)
  OBVIOUS
<1> QED
  BY <1>1, ConcatAssociative, SMTT(30)

(* Stopping the driver posts what has to be posted.                        *)
LEMMA Halted ==
  ASSUME NEW was, NEW known, Told(was, known)
  PROVE  /\ evq \o StopEvents \in Seq(Event)
         /\ Tells(evq \o StopEvents, was, known, "idle", "off", "off")
         /\ \A f : Has(evq, f) => Has(evq \o StopEvents, f)
         /\ Active => Has(evq \o StopEvents, "sta_stop")
         /\ drv.link # "idle" => Has(evq \o StopEvents, "disconnected")
<1>1. /\ evq \in Seq(Event) /\ drv \in Drivers
      /\ drv.link # "idle" => Active
      /\ Tells(evq, was, known, drv.link, Act, ApAct)
  BY DEF Told
<1>2. "disconnected" \in Event /\ "sta_stop" \in Event /\ "ap_stop" \in Event
  BY DEF Event
<1>3. CASE drv.up # "started"
  <2>1. StopEvents = <<>> /\ evq \o <<>> = evq
    BY <1>1, <1>3 DEF StopEvents
  <2>2. drv.link = "idle" /\ Act = "off" /\ ApAct = "off" /\ ~Active
    BY <1>1, <1>3 DEF Active, Act, ApAct
  <2> QED
    BY <1>1, <2>1, <2>2
<1>4. CASE drv.up = "started"
  <2> DEFINE a == If(HasSta(drv.mode) /\ drv.link # "idle", "disconnected")
             b == If(HasSta(drv.mode), "sta_stop")
             c == If(HasAp(drv.mode), "ap_stop")
             q1 == evq \o a
             q2 == q1 \o b
             q3 == q2 \o c
  <2>1. a \in Seq(Event) /\ b \in Seq(Event) /\ c \in Seq(Event)
    BY <1>2 DEF If
  <2>2. evq \o StopEvents = q3
    <3>1. StopEvents = a \o b \o c
      BY <1>4 DEF StopEvents, DrvStopEvents
    <3> HIDE DEF a, b, c
    <3>2. evq \o (a \o b \o c) = ((evq \o a) \o b) \o c
      <4>1. evq \in Seq(Event)
        BY <1>1
      <4> QED
        BY <2>1, <4>1, WithEvents, SMTT(30)
    <3> QED
      BY <3>1, <3>2, Zenon
  <2>3. /\ q1 \in Seq(Event) /\ Tells(q1, was, known, "idle", Act, ApAct)
        /\ \A f : Has(evq, f) => Has(q1, f)
        /\ drv.link # "idle" => Has(q1, "disconnected")
    <3>1. CASE drv.link # "idle"
      <4>1. q1 = Append(evq, "disconnected")
        BY <1>1, <1>2, <3>1, WithEvent DEF If, Active
      <4>2. Act = "on"
        BY <1>1, <3>1 DEF Act
      <4>5. /\ Append(evq, "disconnected") \in Seq(Event)
            /\ \A f : Has(Append(evq, "disconnected"), f) <=> Has(evq, f) \/ "disconnected" = f
        BY <1>1, <1>2, Posted
      <4>6. Tells(Append(evq, "disconnected"), was, known, "idle", "on", ApAct)
        BY <1>1, <1>2, <4>2, PostedTells
      <4> HIDE DEF q1
      <4> QED
        BY <4>1, <4>2, <4>5, <4>6
    <3>2. CASE drv.link = "idle"
      <4>1. q1 = evq
        BY <1>1, <1>2, <3>2, WithEvent DEF If
      <4> QED
        BY <1>1, <3>2, <4>1
    <3> QED
      BY <3>1, <3>2
  <2> HIDE DEF a, q1
  <2>4. /\ q2 \in Seq(Event) /\ Tells(q2, was, known, "idle", "off", ApAct)
        /\ \A f : Has(q1, f) => Has(q2, f)
        /\ Active => Has(q2, "sta_stop")
    <3>1. CASE HasSta(drv.mode)
      <4>1. q2 = Append(q1, "sta_stop")
        BY <1>2, <2>3, <3>1, WithEvent DEF If
      <4>5. /\ Append(q1, "sta_stop") \in Seq(Event)
            /\ \A f : Has(Append(q1, "sta_stop"), f) <=> Has(q1, f) \/ "sta_stop" = f
        BY <1>2, <2>3, Posted
      <4>6. Tells(Append(q1, "sta_stop"), was, known, "idle", "off", ApAct)
        BY <1>2, <2>3, PostedTells
      <4> QED
        BY <4>1, <4>5, <4>6
    <3>2. CASE ~HasSta(drv.mode)
      <4>1. q2 = q1
        BY <1>2, <2>3, <3>2, WithEvent DEF If
      <4>2. Act = "off" /\ ~Active
        BY <3>2 DEF Act, Active
      <4> QED
        BY <2>3, <4>1, <4>2
    <3> QED
      BY <3>1, <3>2
  <2> HIDE DEF b, q2
  <2>5. /\ q3 \in Seq(Event) /\ Tells(q3, was, known, "idle", "off", "off")
        /\ \A f : Has(q2, f) => Has(q3, f)
    <3>1. CASE HasAp(drv.mode)
      <4>1. q3 = Append(q2, "ap_stop")
        BY <1>2, <2>4, <3>1, WithEvent DEF If
      <4>5. /\ Append(q2, "ap_stop") \in Seq(Event)
            /\ \A f : Has(Append(q2, "ap_stop"), f) <=> Has(q2, f) \/ "ap_stop" = f
        BY <1>2, <2>4, Posted
      <4>6. Tells(Append(q2, "ap_stop"), was, known, "idle", "off", "off")
        BY <1>2, <2>4, PostedTells
      <4> QED
        BY <4>1, <4>5, <4>6
    <3>2. CASE ~HasAp(drv.mode)
      <4>1. q3 = q2
        BY <1>2, <2>4, <3>2, WithEvent DEF If
      <4>2. ApAct = "off"
        BY <3>2 DEF ApAct
      <4> QED
        BY <2>4, <4>1, <4>2
    <3> QED
      BY <3>1, <3>2
  <2> HIDE DEF c, q3
  <2> QED
    BY <2>2, <2>3, <2>4, <2>5
<1> QED
  BY <1>1, <1>3, <1>4 DEF Drivers

-----------------------------------------------------------------------------
(* Each step of the driver and of pserial_task posts what it has to.       *)

(* The link changes.                                                       *)
LEMMA AirMoves ==
  ASSUME NEW was, NEW known, Told(was, known), DrvAir
  PROVE  Moved(was, known) /\ drv' \in Drivers
<1>1. /\ evq \in Seq(Event) /\ drv \in Drivers /\ Active /\ Act = "on"
      /\ Tells(evq, was, known, drv.link, "on", ApAct)
  BY DEF Told, DrvAir, Act
<1>2. "disconnected" \in Event /\ "connected" \in Event
  BY DEF Event
<1>3. CASE drv.link = "joining" /\ drv' = [drv EXCEPT !.link = "joined"]
           /\ evq' = Append(evq, "connected")
  <2>1. /\ drv'.link = "joined" /\ drv'.up = drv.up /\ drv'.mode = drv.mode /\ drv' \in Drivers
    BY <1>1, <1>3 DEF Drivers
  <2>2. Active' /\ Act' = "on" /\ ApAct' = ApAct
    BY <1>1, <2>1 DEF Active, Act, ApAct
  <2>3. Tells(evq', was, known, "joined", "on", ApAct)
    BY <1>1, <1>3, PostedTells
  <2> QED
    BY <1>1, <1>2, <1>3, <2>1, <2>2, <2>3, Posted DEF Moved
<1>4. CASE drv' = [drv EXCEPT !.link = "idle"] /\ evq' = Append(evq, "disconnected")
  <2>1. /\ drv'.link = "idle" /\ drv'.up = drv.up /\ drv'.mode = drv.mode /\ drv' \in Drivers
    BY <1>1, <1>4 DEF Drivers
  <2>2. Active' /\ Act' = "on" /\ ApAct' = ApAct
    BY <1>1, <2>1 DEF Active, Act, ApAct
  <2>3. Tells(evq', was, known, "idle", "on", ApAct)
    BY <1>1, <1>4, PostedTells
  <2> QED
    BY <1>1, <1>2, <1>4, <2>1, <2>2, <2>3, Posted DEF Moved
<1> QED
  BY <1>3, <1>4 DEF DrvAir

(* A request for the link to go, ...                                       *)
LEMMA DisconnectMoves ==
  ASSUME NEW was, NEW known, Told(was, known), req_wifi_disconnect
  PROVE  Moved(was, known) /\ drv' \in Drivers
<1>1. /\ evq \in Seq(Event) /\ drv \in Drivers /\ Active /\ Act = "on"
      /\ Tells(evq, was, known, drv.link, "on", ApAct)
  BY DEF Told, req_wifi_disconnect, Act
<1>2. "disconnected" \in Event
  BY DEF Event
<1>3. drv' = [drv EXCEPT !.link = "idle"] /\ evq' = Append(evq, "disconnected")
  BY DEF req_wifi_disconnect
<1>4. /\ drv'.link = "idle" /\ drv'.up = drv.up /\ drv'.mode = drv.mode /\ drv' \in Drivers
  BY <1>1, <1>3 DEF Drivers
<1>5. Active' /\ Act' = "on" /\ ApAct' = ApAct
  BY <1>1, <1>4 DEF Active, Act, ApAct
<1>6. Tells(evq', was, known, "idle", "on", ApAct)
  BY <1>1, <1>3, PostedTells
<1> QED
  BY <1>1, <1>2, <1>3, <1>4, <1>5, <1>6, Posted DEF Moved

(* ... for the driver to stop, ...                                         *)
LEMMA StopMoves ==
  ASSUME NEW was, NEW known, Told(was, known), req_wifi_stop
  PROVE  Moved(was, known) /\ drv' \in Drivers
<1>1. drv \in Drivers /\ drv' = DrvStopped /\ evq' = evq \o StopEvents /\ drv.up = "started"
  BY DEF Told, req_wifi_stop
<1>2. drv' \in Drivers /\ drv'.up = "inited" /\ drv'.link = "idle"
  BY <1>1 DEF DrvStopped, Drivers
<1>3. ~Active' /\ Act' = "off" /\ ApAct' = "off"
  BY <1>2 DEF Active, Act, ApAct
<1> QED
  BY <1>1, <1>2, <1>3, Halted DEF Moved

(* ... or to be initialised, which may stop it, ...                        *)
LEMMA InitMoves ==
  ASSUME NEW was, NEW known, Told(was, known),
         NEW host \in InitConfigs, req_wifi_init(host)
  PROVE  Moved(was, known) /\ drv' \in Drivers
<1> DEFINE c == Merged(host)
<1>1. drv \in Drivers /\ evq \in Seq(Event)
  BY DEF Told
<1>2. c \in InitConfig
  BY WifiAssumption DEF Merged, InitConfig
<1>3. CASE UNCHANGED <<drv, evq>>
  BY <1>1, <1>3, MovedNot
<1> HIDE DEF c
<1>4. DrvOff \in Drivers /\ DrvOff.link = "idle" /\ DrvOff.mode = "sta"
  BY DEF DrvOff, Drivers, AnyConfig, Default, InitConfig, Mode
<1>5. ASSUME drv' = [DrvOff EXCEPT !.up = "inited", !.init = c, !.cfg = drv.cfg],
             evq' = evq \o StopEvents \/ (evq' = evq /\ drv.up = "off")
      PROVE  Moved(was, known) /\ drv' \in Drivers
  <2>1. drv' \in Drivers /\ drv'.up = "inited" /\ drv'.link = "idle"
    BY <1>1, <1>2, <1>4, <1>5 DEF Drivers
  <2>2. ~Active' /\ Act' = "off" /\ ApAct' = "off"
    BY <2>1 DEF Active, Act, ApAct
  <2>3. evq' = evq \o StopEvents => Moved(was, known)
    BY <1>1, <2>1, <2>2, Halted DEF Moved
  <2>4. evq' = evq /\ drv.up = "off" => Moved(was, known)
    <3> SUFFICES ASSUME evq' = evq, drv.up = "off" PROVE Moved(was, known)
      OBVIOUS
    <3>1. drv.link = "idle" /\ ~Active /\ Act = "off" /\ ApAct = "off"
      BY DEF Told, Active, Act, ApAct
    <3> QED
      BY <1>1, <2>1, <2>2, <3>1 DEF Told, Moved
  <2> QED
    BY <1>5, <2>1, <2>3, <2>4
<1>6. \/ UNCHANGED <<drv, evq>>
      \/ /\ drv' = [DrvOff EXCEPT !.up = "inited", !.init = c, !.cfg = drv.cfg]
         /\ evq' = evq \o StopEvents \/ (evq' = evq /\ drv.up = "off")
  BY DEF req_wifi_init, c
<1> QED
  BY <1>3, <1>5, <1>6

(* ... or to change its mode, whatever this starts and stops, ...          *)
LEMMA ModeMoves ==
  ASSUME NEW was, NEW known, Told(was, known), NEW m \in Mode, req_wifi_set_mode(m)
  PROVE  Moved(was, known) /\ drv' \in Drivers
<1> DEFINE on == drv.up = "started"
           l1 == IF HasSta(m) THEN drv.link ELSE "idle"
           s2 == IF on /\ HasSta(drv.mode) /\ HasSta(m) THEN "on" ELSE "off"
           a3 == IF on /\ HasAp(drv.mode) /\ HasAp(m) THEN "on" ELSE "off"
           s4 == IF on /\ HasSta(m) THEN "on" ELSE "off"
           a5 == IF on /\ HasAp(m) THEN "on" ELSE "off"
           q1 == evq \o If(on /\ HasSta(drv.mode) /\ ~HasSta(m) /\ drv.link # "idle",
                           "disconnected")
           q2 == q1 \o If(on /\ HasSta(drv.mode) /\ ~HasSta(m), "sta_stop")
           q3 == q2 \o If(on /\ HasAp(drv.mode) /\ ~HasAp(m), "ap_stop")
           q4 == q3 \o If(on /\ ~HasSta(drv.mode) /\ HasSta(m), "sta_start")
           q5 == q4 \o If(on /\ ~HasAp(drv.mode) /\ HasAp(m), "ap_start")
<1>1. /\ evq \in Seq(Event) /\ drv \in Drivers
      /\ drv.link # "idle" => on /\ HasSta(drv.mode)
      /\ Tells(evq, was, known, drv.link, Act, ApAct)
  BY DEF Told, Active
<1>2. /\ "disconnected" \in Event /\ "sta_start" \in Event /\ "sta_stop" \in Event
      /\ "ap_start" \in Event /\ "ap_stop" \in Event
  BY DEF Event
<1>3. /\ Act = IF on /\ HasSta(drv.mode) THEN "on" ELSE "off"
      /\ ApAct = IF on /\ HasAp(drv.mode) THEN "on" ELSE "off"
  BY DEF Act, ApAct, Active
<1>4. evq' = q5 /\ drv' = [drv EXCEPT !.mode = m, !.link = l1]
  BY DEF req_wifi_set_mode
<1>5. /\ drv' \in Drivers /\ drv'.mode = m /\ drv'.link = l1 /\ drv'.up = drv.up
      /\ l1 # "idle" => on /\ HasSta(m)
  BY <1>1, <1>4 DEF Drivers
<1>6. Act' = s4 /\ ApAct' = a5 /\ (Active' <=> on /\ HasSta(m))
  BY <1>5 DEF Act, ApAct, Active
<1> HIDE DEF l1, s2, a3, s4, a5, q1, q2, q3, q4, q5
<1>7. /\ q1 \in Seq(Event) /\ Tells(q1, was, known, l1, Act, ApAct)
      /\ \A f : Has(evq, f) => Has(q1, f)
      /\ on /\ HasSta(drv.mode) /\ ~HasSta(m) /\ drv.link # "idle" => Has(q1, "disconnected")
  <2>1. CASE on /\ HasSta(drv.mode) /\ ~HasSta(m) /\ drv.link # "idle"
    <3>1. q1 = Append(evq, "disconnected")
      BY <1>2, <1>1, <2>1, WithEvent DEF If, q1
    <3>2. Tells(q1, was, known, "idle", "on", ApAct)
      BY <1>1, <3>1, PostedTells
    <3>3. /\ q1 \in Seq(Event)
          /\ \A f : Has(q1, f) <=> Has(evq, f) \/ "disconnected" = f
      BY <1>2, <1>1, <3>1, Posted
    <3> QED
      BY <1>1, <1>3, <2>1, <3>2, <3>3 DEF l1
  <2>2. CASE ~(on /\ HasSta(drv.mode) /\ ~HasSta(m) /\ drv.link # "idle")
    <3>1. q1 = evq
      BY <1>2, <1>1, <2>2, WithEvent DEF If, q1
    <3>2. drv.link = l1 /\ Act = Act /\ ApAct = ApAct
      BY <1>1, <1>3, <2>2 DEF l1
    <3> QED
      BY <1>1, <2>2, <3>1, <3>2
  <2> QED
    BY <2>1, <2>2
<1>8. /\ q2 \in Seq(Event) /\ Tells(q2, was, known, l1, s2, ApAct)
      /\ \A f : Has(q1, f) => Has(q2, f)
      /\ on /\ HasSta(drv.mode) /\ ~HasSta(m) => Has(q2, "sta_stop")
  <2>1. CASE on /\ HasSta(drv.mode) /\ ~HasSta(m)
    <3>1. q2 = Append(q1, "sta_stop")
      BY <1>2, <1>7, <2>1, WithEvent DEF If, q2
    <3>2. Tells(q2, was, known, l1, "off", ApAct)
      BY <1>7, <3>1, PostedTells
    <3>3. /\ q2 \in Seq(Event)
          /\ \A f : Has(q2, f) <=> Has(q1, f) \/ "sta_stop" = f
      BY <1>2, <1>7, <3>1, Posted
    <3> QED
      BY <1>1, <1>3, <2>1, <3>2, <3>3 DEF l1, s2
  <2>2. CASE ~(on /\ HasSta(drv.mode) /\ ~HasSta(m))
    <3>1. q2 = q1
      BY <1>2, <1>7, <2>2, WithEvent DEF If, q2
    <3>2. l1 = l1 /\ Act = s2 /\ ApAct = ApAct
      BY <1>1, <1>3, <2>2 DEF l1, s2
    <3> QED
      BY <1>7, <2>2, <3>1, <3>2
  <2> QED
    BY <2>1, <2>2
<1>9. /\ q3 \in Seq(Event) /\ Tells(q3, was, known, l1, s2, a3)
      /\ \A f : Has(q2, f) => Has(q3, f)
      /\ on /\ HasAp(drv.mode) /\ ~HasAp(m) => Has(q3, "ap_stop")
  <2>1. CASE on /\ HasAp(drv.mode) /\ ~HasAp(m)
    <3>1. q3 = Append(q2, "ap_stop")
      BY <1>2, <1>8, <2>1, WithEvent DEF If, q3
    <3>2. Tells(q3, was, known, l1, s2, "off")
      BY <1>8, <3>1, PostedTells
    <3>3. /\ q3 \in Seq(Event)
          /\ \A f : Has(q3, f) <=> Has(q2, f) \/ "ap_stop" = f
      BY <1>2, <1>8, <3>1, Posted
    <3> QED
      BY <1>1, <1>3, <2>1, <3>2, <3>3 DEF a3, l1, s2
  <2>2. CASE ~(on /\ HasAp(drv.mode) /\ ~HasAp(m))
    <3>1. q3 = q2
      BY <1>2, <1>8, <2>2, WithEvent DEF If, q3
    <3>2. l1 = l1 /\ s2 = s2 /\ ApAct = a3
      BY <1>1, <1>3, <2>2 DEF a3, l1, s2
    <3> QED
      BY <1>8, <2>2, <3>1, <3>2
  <2> QED
    BY <2>1, <2>2
<1>10. /\ q4 \in Seq(Event) /\ Tells(q4, was, known, l1, s4, a3)
       /\ \A f : Has(q3, f) => Has(q4, f)
       /\ on /\ ~HasSta(drv.mode) /\ HasSta(m) => Has(q4, "sta_start")
  <2>1. CASE on /\ ~HasSta(drv.mode) /\ HasSta(m)
    <3>1. q4 = Append(q3, "sta_start")
      BY <1>2, <1>9, <2>1, WithEvent DEF If, q4
    <3>9. l1 # "joined"
      BY <1>1, <2>1 DEF l1
    <3>2. Tells(q4, was, known, l1, "on", a3)
      BY <1>9, <3>1, <3>9, PostedTells
    <3>3. /\ q4 \in Seq(Event)
          /\ \A f : Has(q4, f) <=> Has(q3, f) \/ "sta_start" = f
      BY <1>2, <1>9, <3>1, Posted
    <3> QED
      BY <1>1, <1>3, <2>1, <3>2, <3>3 DEF a3, l1, s2, s4
  <2>2. CASE ~(on /\ ~HasSta(drv.mode) /\ HasSta(m))
    <3>1. q4 = q3
      BY <1>2, <1>9, <2>2, WithEvent DEF If, q4
    <3>2. l1 = l1 /\ s2 = s4 /\ a3 = a3
      BY <1>1, <1>3, <2>2 DEF a3, l1, s2, s4
    <3> QED
      BY <1>9, <2>2, <3>1, <3>2
  <2> QED
    BY <2>1, <2>2
<1>11. /\ q5 \in Seq(Event) /\ Tells(q5, was, known, l1, s4, a5)
       /\ \A f : Has(q4, f) => Has(q5, f)
       /\ on /\ ~HasAp(drv.mode) /\ HasAp(m) => Has(q5, "ap_start")
  <2>1. CASE on /\ ~HasAp(drv.mode) /\ HasAp(m)
    <3>1. q5 = Append(q4, "ap_start")
      BY <1>2, <1>10, <2>1, WithEvent DEF If, q5
    <3>2. Tells(q5, was, known, l1, s4, "on")
      BY <1>10, <3>1, PostedTells
    <3>3. /\ q5 \in Seq(Event)
          /\ \A f : Has(q5, f) <=> Has(q4, f) \/ "ap_start" = f
      BY <1>2, <1>10, <3>1, Posted
    <3> QED
      BY <1>1, <1>3, <2>1, <3>2, <3>3 DEF a3, a5, l1, s4
  <2>2. CASE ~(on /\ ~HasAp(drv.mode) /\ HasAp(m))
    <3>1. q5 = q4
      BY <1>2, <1>10, <2>2, WithEvent DEF If, q5
    <3>2. l1 = l1 /\ s4 = s4 /\ a3 = a5
      BY <1>1, <1>3, <2>2 DEF a3, a5, l1, s4
    <3> QED
      BY <1>10, <2>2, <3>1, <3>2
  <2> QED
    BY <2>1, <2>2
<1>12. \A f : Has(evq, f) => Has(q5, f)
  BY <1>7, <1>8, <1>9, <1>10, <1>11
<1>13. Active /\ ~Active' => Has(q5, "sta_stop")
  BY <1>6, <1>8, <1>9, <1>10, <1>11 DEF Active
<1>14. drv.link # "idle" /\ l1 # drv.link => Has(q5, "disconnected")
  BY <1>1, <1>7, <1>8, <1>9, <1>10, <1>11 DEF l1
<1> QED
  BY <1>4, <1>5, <1>6, <1>11, <1>12, <1>13, <1>14 DEF Moved

(* ... to start, ...                                                       *)
LEMMA StartMoves ==
  ASSUME NEW was, NEW known, Told(was, known), req_wifi_start
  PROVE  Moved(was, known) /\ drv' \in Drivers
<1> DEFINE a == If(HasSta(drv.mode), "sta_start")
           b == If(HasAp(drv.mode), "ap_start")
           q1 == evq \o a
           q2 == q1 \o b
<1>1. /\ evq \in Seq(Event) /\ drv \in Drivers /\ drv.up = "inited" /\ ~Active
      /\ drv.link = "idle" /\ ApAct = "off" /\ Act = "off"
      /\ Tells(evq, was, known, "idle", "off", "off")
  BY DEF Told, Active, Act, ApAct, req_wifi_start
<1>2. "sta_start" \in Event /\ "ap_start" \in Event
  BY DEF Event
<1>3. evq' = q2
  <2>1. evq' = evq \o (a \o b)
    BY DEF req_wifi_start, DrvStartEvents
  <2>2. a \in Seq(Event) /\ b \in Seq(Event)
    BY <1>2 DEF If
  <2> HIDE DEF a, b
  <2>3. evq \o (a \o b) = (evq \o a) \o b
    BY <1>1, <2>2, ConcatAssociative, SMTT(60)
  <2> QED
    BY <2>1, <2>3
<1>4. drv' = [drv EXCEPT !.up = "started"]
  BY DEF req_wifi_start
<1>5. /\ drv' \in Drivers /\ drv'.up = "started" /\ drv'.mode = drv.mode /\ drv'.link = "idle"
  BY <1>1, <1>4 DEF Drivers
<1>6. /\ Act' = IF HasSta(drv.mode) THEN "on" ELSE "off"
      /\ ApAct' = IF HasAp(drv.mode) THEN "on" ELSE "off"
  BY <1>5 DEF Act, ApAct, Active
<1> HIDE DEF q1, q2
<1>7. /\ q1 \in Seq(Event) /\ Tells(q1, was, known, "idle", Act', "off")
      /\ \A f : Has(evq, f) => Has(q1, f)
  <2>1. CASE HasSta(drv.mode)
    <3>1. q1 = Append(evq, "sta_start")
      BY <1>1, <1>2, <2>1, WithEvent DEF If, q1
    <3>2. Tells(q1, was, known, "idle", "on", "off")
      BY <1>1, <3>1, PostedTells
    <3>3. /\ q1 \in Seq(Event)
          /\ \A f : Has(q1, f) <=> Has(evq, f) \/ "sta_start" = f
      BY <1>1, <1>2, <3>1, Posted
    <3> QED
      BY <1>6, <2>1, <3>2, <3>3
  <2>2. CASE ~HasSta(drv.mode)
    <3>1. q1 = evq
      BY <1>1, <1>2, <2>2, WithEvent DEF If, q1
    <3> QED
      BY <1>1, <1>6, <2>2, <3>1
  <2> QED
    BY <2>1, <2>2
<1>8. /\ q2 \in Seq(Event) /\ Tells(q2, was, known, "idle", Act', ApAct')
      /\ \A f : Has(q1, f) => Has(q2, f)
  <2>1. CASE HasAp(drv.mode)
    <3>1. q2 = Append(q1, "ap_start")
      BY <1>2, <1>7, <2>1, WithEvent DEF If, q2
    <3>2. Tells(q2, was, known, "idle", Act', "on")
      BY <1>7, <3>1, PostedTells
    <3>3. /\ q2 \in Seq(Event)
          /\ \A f : Has(q2, f) <=> Has(q1, f) \/ "ap_start" = f
      BY <1>2, <1>7, <3>1, Posted
    <3> QED
      BY <1>6, <2>1, <3>2, <3>3
  <2>2. CASE ~HasAp(drv.mode)
    <3>1. q2 = q1
      BY <1>2, <1>7, <2>2, WithEvent DEF If, q2
    <3> QED
      BY <1>6, <1>7, <2>2, <3>1
  <2> QED
    BY <2>1, <2>2
<1> QED
  BY <1>1, <1>3, <1>5, <1>7, <1>8 DEF Moved

(* ... to be given up, ...                                                 *)
LEMMA DeinitMoves ==
  ASSUME NEW was, NEW known, Told(was, known), req_wifi_deinit
  PROVE  Moved(was, known) /\ drv' \in Drivers
<1>1. drv \in Drivers /\ evq' = evq
  BY DEF Told, req_wifi_deinit
<1>2. CASE drv' = drv
  BY <1>1, <1>2, MovedNot
<1>3. CASE drv.up = "inited" /\ drv' = [drv EXCEPT !.up = "off"]
  <2>1. drv' \in Drivers /\ drv'.up = "off" /\ drv'.link = drv.link
    BY <1>1, <1>3 DEF Drivers
  <2>2. ~Active /\ ~Active' /\ Act = "off" /\ Act' = "off" /\ ApAct = "off" /\ ApAct' = "off"
    BY <1>3, <2>1 DEF Active, Act, ApAct
  <2> QED
    BY <1>1, <2>1, <2>2 DEF Told, Moved
<1> QED
  BY <1>2, <1>3 DEF req_wifi_deinit

(* ... for the station to join, ...                                        *)
LEMMA ConnectMoves ==
  ASSUME NEW was, NEW known, Told(was, known), UNCHANGED evq, drv' = DrvConnect(drv)
  PROVE  Moved(was, known) /\ drv' \in Drivers
<1>1. drv \in Drivers /\ Tells(evq, was, known, drv.link, Act, ApAct)
  BY DEF Told
<1>2. drv' \in Drivers /\ drv'.up = drv.up /\ drv'.mode = drv.mode
  BY <1>1, Connects
<1>3. CASE drv'.link = drv.link
  BY <1>2, <1>3, MovedNot
<1>4. CASE drv.link = "idle" /\ drv'.link = "joining" /\ Active
  <2>1. Tells(evq, was, known, "joining", Act, ApAct)
    BY <1>1, <1>4, NotJoined
  <2> QED
    BY <1>2, <1>4, <2>1 DEF Told, Moved, Active, Act, ApAct
<1>5. drv'.link = drv.link \/ (drv.link = "idle" /\ drv'.link = "joining" /\ Active)
  BY <1>1, Connects DEF Active
<1> QED
  BY <1>2, <1>3, <1>4, <1>5

(* ... or for its configuration.                                           *)
LEMMA ConfigMoves ==
  ASSUME NEW was, NEW known, Told(was, known), UNCHANGED evq,
         NEW c \in AnyConfig, drv' = [drv EXCEPT !.cfg = c]
  PROVE  Moved(was, known) /\ drv' \in Drivers
<1>1. /\ drv' \in Drivers /\ drv'.up = drv.up /\ drv'.mode = drv.mode /\ drv'.link = drv.link
  BY DEF Told, Drivers
<1> QED
  BY <1>1, MovedNot

(* All of them, with pserial_task's request a known one.                   *)
LEMMA AllMove ==
  ASSUME NEW was, NEW known, Told(was, known), pser.cfg \in AnyConfig,
         DrvAir \/ PserialStep
  PROVE  Moved(was, known) /\ drv' \in Drivers
<1>1. drv \in Drivers
  BY DEF Told
<1>2. UNCHANGED <<drv, evq>> => Moved(was, known) /\ drv' \in Drivers
  BY <1>1, MovedNot
<1>3. ConnectRequest => UNCHANGED <<drv, evq>>
  BY DEF ConnectRequest
<1>4. ConnectCall => UNCHANGED evq /\ drv' = DrvConnect(drv)
  BY DEF ConnectCall
<1>5. \A c \in Config : SetConfigRequest(c) => UNCHANGED <<drv, evq>>
  BY DEF SetConfigRequest
<1>6. SetConfigCache => UNCHANGED <<drv, evq>>
  BY DEF SetConfigCache
<1>7. SetConfigApply => UNCHANGED evq /\ (drv' = drv \/ drv' = [drv EXCEPT !.cfg = pser.cfg])
  BY DEF SetConfigApply
<1> QED
  BY <1>2, <1>3, <1>4, <1>5, <1>6, <1>7, AirMoves, InitMoves, DeinitMoves, ModeMoves, StartMoves,
     StopMoves, DisconnectMoves, ConnectMoves, ConfigMoves DEF PserialStep

-----------------------------------------------------------------------------
(* What the host and the flags are told.                                   *)

(* The event handler goes on only while the station is active, or its stop *)
(* is to come; a hidden disconnection is to come, and the host, which was  *)
(* not told of the connection either, knows no other; the host knows of a  *)
(* connection that the flags have, until the handler clears them.          *)
Story ==
  /\ Told(Was, Known)
  /\ evt # "idle" => Active \/ Has(evq, "sta_stop")
  /\ s.suppress_disconnect => told = "down" /\ (Ending \/ Has(evq, "disconnected"))
  /\ s.rxcb = s.station_connected
  /\ s.station_connected <=> told = "up" /\ evt \in {"idle", "applied", "drop"}
  /\ evt = "connected" => told = "up"

(* What the driver and pserial_task leave alone.                           *)
LEMMA RequestsLeave ==
  ASSUME TypeOK, Story, DrvAir \/ PserialStep
  PROVE  /\ UNCHANGED <<build, evt, told>>
         /\ s'.suppress_disconnect = s.suppress_disconnect
         /\ s'.softap_started = s.softap_started
         /\ s'.station_connected = s.station_connected
         /\ s'.rxcb = s.rxcb
<1> USE DEF TypeOK
<1>1. CASE DrvAir
  BY <1>1 DEF DrvAir
<1>2. ASSUME NEW c \in InitConfigs, req_wifi_init(c)
      PROVE  UNCHANGED <<build, evt, told>>
             /\ (s' = s \/ s' = [s EXCEPT !.cached_init = Merged(c), !.wifi_initialized = TRUE])
  BY <1>2 DEF req_wifi_init
<1>3. CASE req_wifi_deinit
  BY <1>3 DEF req_wifi_deinit
<1>4. ASSUME NEW m \in Mode, req_wifi_set_mode(m) PROVE UNCHANGED <<build, evt, told, s>>
  BY <1>4 DEF req_wifi_set_mode
<1>5. CASE req_wifi_start \/ req_wifi_stop \/ req_wifi_disconnect
  BY <1>5 DEF req_wifi_start, req_wifi_stop, req_wifi_disconnect
<1>6. CASE ConnectRequest
  BY <1>6 DEF ConnectRequest, Story
<1>7. CASE ConnectCall
  BY <1>7 DEF ConnectCall
<1>8. ASSUME NEW c \in Config, SetConfigRequest(c) PROVE UNCHANGED <<build, evt, told, s>>
  BY <1>8 DEF SetConfigRequest
<1>9. CASE SetConfigCache
  BY <1>9 DEF SetConfigCache, Cached
<1>10. CASE SetConfigApply
  BY <1>10 DEF SetConfigApply, Cached
<1> QED
  BY <1>1, <1>2, <1>3, <1>4, <1>5, <1>6, <1>7, <1>8, <1>9, <1>10 DEF PserialStep

(* So they keep the story.                                                 *)
LEMMA RequestsStory ==
  ASSUME TypeOK, Story, DrvAir \/ PserialStep
  PROVE  Story' /\ Moved(Was, Known)
<1>1. Moved(Was, Known) /\ drv' \in Drivers
  BY AllMove DEF Story, TypeOK
<1>2. Was' = Was /\ Known' = Known /\ (Ending' <=> Ending)
  BY RequestsLeave DEF Was, Known, Ending
<1>3. Told(Was, Known)'
  BY <1>1, <1>2 DEF Told, Moved
<1>4. evt' # "idle" => Active' \/ Has(evq', "sta_stop")
  BY <1>1, RequestsLeave DEF Story, Moved
<1>5. s'.suppress_disconnect => told' = "down" /\ (Ending' \/ Has(evq', "disconnected"))
  BY <1>1, <1>2, RequestsLeave DEF Story, Moved
<1> QED
  BY <1>1, <1>3, <1>4, <1>5, RequestsLeave DEF Story

(* The station joins, or not.                                              *)
Joins(d, e) ==
  /\ e \in Drivers /\ e.up = d.up /\ e.mode = d.mode /\ e.init = d.init
  /\ \/ e.link = d.link
     \/ d.link = "idle" /\ e.link = "joining" /\ d.up = "started" /\ HasSta(d.mode)

(* esp_wifi_connect makes an idle station join, and changes nothing else of it. *)
LEMMA ConnectJoins ==
  ASSUME NEW d \in Drivers
  PROVE  Joins(d, d) /\ Joins(d, DrvConnect(d)) /\ Joins(d, DrvConnect(DrvConnect(d)))
<1>1. Joins(d, d)
  BY DEF Joins
<1>2. \A e \in Drivers : Joins(e, DrvConnect(e))
  BY Connects DEF Joins
<1>3. Joins(d, DrvConnect(d)) /\ Joins(DrvConnect(d), DrvConnect(DrvConnect(d)))
  BY <1>2, Connects
<1> QED
  BY <1>1, <1>3 DEF Joins

(* With or without an event taken off the queue.                           *)
LEMMA JoinedTold ==
  ASSUME NEW was, NEW known, Told(was, known), Joins(drv, drv')
  PROVE  /\ Active' <=> Active
         /\ UNCHANGED evq => ToldNext(was, known)
         /\ evq # <<>> /\ evq' = Tail(evq) =>
              ToldNext(Then(was, Head(evq)), ApThen(known, Head(evq)))
<1>1. /\ evq \in Seq(Event) /\ drv \in Drivers /\ drv' \in Drivers
      /\ Act' = Act /\ ApAct' = ApAct /\ (Active' <=> Active)
      /\ drv'.link # "idle" => Active'
      /\ Tells(evq, was, known, drv.link, Act, ApAct)
      /\ drv'.link = drv.link \/ (drv.link = "idle" /\ drv'.link = "joining")
  BY DEF Told, Joins, Act, ApAct, Active
<1>2. CASE UNCHANGED evq
  <2>1. Tells(evq, was, known, drv'.link, Act, ApAct)
    BY <1>1, NotJoined
  <2> QED
    BY <1>1, <1>2, <2>1 DEF ToldNext
<1>3. CASE evq # <<>> /\ evq' = Tail(evq)
  <2> DEFINE w == Then(was, Head(evq))
             k == ApThen(known, Head(evq))
  <2>1. evq' \in Seq(Event)
    BY <1>1, <1>3, Taken
  <2>2. Tells(evq', w, k, drv.link, Act, ApAct)
    BY <1>1, <1>3, TakenTells
  <2> HIDE DEF w, k
  <2>3. Tells(evq', w, k, drv'.link, Act, ApAct)
    BY <1>1, <2>2, NotJoined
  <2>4. ToldNext(w, k)
    BY <1>1, <2>1, <2>3 DEF ToldNext
  <2> QED
    BY <1>1, <1>3, <2>4 DEF w, k
<1> QED
  BY <1>1, <1>2, <1>3

(* What the first event says.                                              *)
LEMMA FirstEvent ==
  ASSUME Story, NEW e, Delivered(e)
  PROVE  /\ evq # <<>> /\ Head(evq) = e /\ evq \in Seq(Event) /\ ~Ending /\ evt = "idle"
         /\ e \in {"connected", "sta_start"} => told # "up" /\ ~s.suppress_disconnect
         /\ e = "connected" /\ drv.link # "joined" => Has(Tail(evq), "disconnected")
         /\ e \in OfStation => Active \/ Has(Tail(evq), "sta_stop")
         /\ \A f : Has(evq, f) <=> f = e \/ Has(Tail(evq), f)
         /\ Joins(drv, drv') /\ evq' = Tail(evq) => ToldNext(Then(Was, e), ApThen(Known, e))
<1>1. evq # <<>> /\ Head(evq) = e /\ evq \in Seq(Event) /\ ~Ending /\ evt = "idle"
  BY DEF Delivered, Story, Told, Ending
<1>2. /\ e \in {"connected", "sta_start"} => Was # "up"
      /\ e = "connected" /\ drv.link # "joined" => Has(Tail(evq), "disconnected")
      /\ e \in OfStation => Act = "on" \/ Has(Tail(evq), "sta_stop")
  BY <1>1, TakenTells DEF Story, Told
<1>3. \A f : Has(evq, f) <=> f = e \/ Has(Tail(evq), f)
  BY <1>1, Taken
<1>4. Joins(drv, drv') /\ evq' = Tail(evq) => ToldNext(Then(Was, e), ApThen(Known, e))
  <2>1. Told(Was, Known)
    BY DEF Story
  <2> QED
    BY <1>1, <2>1, JoinedTold
<1> QED
  BY <1>1, <1>2, <1>3, <1>4 DEF Was, Act

-----------------------------------------------------------------------------
(* The event handler keeps the story.                                      *)

(* The rest of the story, for a handler that is idle after a step.         *)
LEMMA AfterEvent ==
  ASSUME NEW was, NEW known, ToldNext(was, known), Was' = was, Known' = known
  PROVE  Told(Was, Known)'
  BY DEF Told, ToldNext

(* What the driver becomes when the cached configuration is applied.       *)
LEMMA Applied ==
  ASSUME TypeOK, Story
  PROVE  /\ NewApplied(drv) \in Drivers /\ Joins(drv, NewApplied(drv))
         /\ NewApplied(drv).link = drv.link /\ NewApplied(drv).up = drv.up
         /\ NewApplied(drv).mode = drv.mode /\ NewApplied(drv).init = drv.init
         /\ NewApplied(drv).cfg = IF DrvCanSet THEN s.new_wifi_config ELSE drv.cfg
  BY DEF TypeOK, NewApplied, Joins, Drivers, AnyConfig

(* A connection that is hidden: its end is posted, or has been.            *)
LEMMA HidesStory ==
  ASSUME TypeOK, Story, ConnectedApplies
  PROVE  Story' /\ Has(evq', "disconnected")
<1> DEFINE r == Tail(evq)
           d == NewApplied(drv)
<1>1. /\ Delivered("connected") /\ drv' = [d EXCEPT !.link = "idle"]
      /\ evq' = r \o If(drv.link # "idle", "disconnected")
      /\ s' = [s EXCEPT !.suppress_disconnect = TRUE] /\ UNCHANGED <<evt, told>>
  BY DEF ConnectedApplies
<1>2. /\ evq # <<>> /\ Head(evq) = "connected" /\ evq \in Seq(Event) /\ ~Ending /\ evt = "idle"
      /\ told # "up" /\ ~s.suppress_disconnect
      /\ drv.link # "joined" => Has(r, "disconnected")
  BY <1>1, FirstEvent
<1>3. /\ d \in Drivers /\ d.link = drv.link /\ d.up = drv.up /\ d.mode = drv.mode
  BY Applied
<1>4. drv' \in Drivers /\ drv'.link = "idle" /\ drv'.up = drv.up /\ drv'.mode = drv.mode
  BY <1>1, <1>3 DEF Drivers
<1>5. (Active' <=> Active) /\ Act' = Act /\ ApAct' = ApAct
  BY <1>4 DEF Active, Act, ApAct
<1>6. r \in Seq(Event) /\ Tells(r, "up", Known, drv.link, Act, ApAct)
  BY <1>2, Taken, TakenTells DEF Story, Told, Then, ApThen
<1>7. "disconnected" \in Event
  BY DEF Event
<1> HIDE DEF r
<1>8. /\ evq' \in Seq(Event) /\ Has(evq', "disconnected")
      /\ Tells(evq', "up", Known, "idle", Act, ApAct)
  <2>1. CASE drv.link # "idle"
    <3>1. evq' = Append(r, "disconnected")
      BY <1>1, <1>6, <1>7, <2>1, WithEvent DEF If
    <3>2. Act = "on"
      BY <2>1 DEF Act, Story, Told
    <3>3. evq' \in Seq(Event) /\ Has(evq', "disconnected")
      BY <1>6, <1>7, <3>1, Posted
    <3>4. Tells(evq', "up", Known, "idle", "on", ApAct)
      BY <1>6, <3>1, PostedTells
    <3> QED
      BY <3>2, <3>3, <3>4
  <2>2. CASE drv.link = "idle"
    <3>1. evq' = r
      BY <1>1, <1>6, <1>7, <2>2, WithEvent DEF If
    <3> QED
      BY <1>2, <1>6, <2>2, <3>1
  <2> QED
    BY <2>1, <2>2
<1>9. /\ s'.suppress_disconnect = TRUE /\ s'.rxcb = s.rxcb
      /\ s'.station_connected = s.station_connected /\ s'.softap_started = s.softap_started
      /\ s.suppress_disconnect \in BOOLEAN
  BY <1>1 DEF TypeOK
<1>10. Was' = "up" /\ Known' = Known
  BY <1>1, <1>2, <1>9 DEF Was, Known, Ending
<1>11. Told(Was, Known)'
  BY <1>4, <1>5, <1>8, <1>10 DEF Told
<1>12. told = "down"
  BY <1>2 DEF TypeOK
<1> QED
  BY <1>1, <1>2, <1>8, <1>9, <1>11, <1>12 DEF Story

(* A connection the host is told of.                                       *)
LEMMA TellsStory ==
  ASSUME TypeOK, Story, ConnectedTells
  PROVE  Story'
<1>1. /\ Delivered("connected") /\ drv' = drv /\ evq' = Tail(evq)
      /\ s' = [s EXCEPT !.station_connecting = FALSE, !.reconnect_retries = 0]
      /\ told' = "up" /\ evt' = "connected"
  BY DEF ConnectedTells
<1>2. /\ ~Ending /\ evt = "idle" /\ told # "up" /\ ~s.suppress_disconnect
      /\ Active \/ Has(evq', "sta_stop")
      /\ ToldNext(Then(Was, "connected"), ApThen(Known, "connected"))
  <2>1. drv \in Drivers
    BY DEF Story, Told
  <2> QED
    BY <1>1, <2>1, FirstEvent, ConnectJoins DEF OfStation
<1>3. /\ s'.suppress_disconnect = s.suppress_disconnect /\ s'.rxcb = s.rxcb
      /\ s'.station_connected = s.station_connected /\ s'.softap_started = s.softap_started
  BY <1>1 DEF TypeOK
<1>4. Was' = Then(Was, "connected") /\ Known' = ApThen(Known, "connected")
  BY <1>1, <1>3 DEF Was, Known, Ending, Then, ApThen
<1>5. Told(Was, Known)'
  BY <1>2, <1>4 DEF Told, ToldNext
<1>6. Active' <=> Active
  BY <1>1 DEF Active
<1> QED
  BY <1>1, <1>2, <1>3, <1>5, <1>6 DEF Story

(* Frames flow from then on.                                               *)
LEMMA OpensStory ==
  ASSUME TypeOK, Story, ConnectedOpens
  PROVE  Story'
<1>1. /\ evt = "connected" /\ evt' = "idle" /\ UNCHANGED <<drv, evq, told>>
      /\ s' = [s EXCEPT !.rxcb = TRUE, !.station_connected = TRUE]
  BY DEF ConnectedOpens
<1>2. /\ s'.suppress_disconnect = s.suppress_disconnect /\ s'.rxcb = TRUE
      /\ s'.station_connected = TRUE /\ s'.softap_started = s.softap_started
  BY <1>1 DEF TypeOK
<1>3. Was' = Was /\ Known' = Known
  BY <1>1, <1>2 DEF Was, Known, Ending
<1>4. Told(Was, Known)'
  BY <1>1, <1>3 DEF Story, Told, Active, Act, ApAct
<1> QED
  BY <1>1, <1>2, <1>4 DEF Story, Ending

(* A disconnection is taken up, ...                                        *)
LEMMA AppliesStory ==
  ASSUME TypeOK, Story, DisconnectedApplies
  PROVE  Story'
<1>1. /\ Delivered("disconnected") /\ evq' = Tail(evq) /\ UNCHANGED <<s, told>>
      /\ drv' = NewApplied(drv) \/ drv' = drv
      /\ evt' \in {"applied", "drop"}
  BY DEF DisconnectedApplies
<1>2. Joins(drv, drv')
  <2>1. drv \in Drivers
    BY DEF Story, Told
  <2> QED
    BY <1>1, <2>1, Applied, ConnectJoins
<1>3. /\ ~Ending /\ evt = "idle"
      /\ Active \/ Has(evq', "sta_stop")
      /\ ToldNext(Then(Was, "disconnected"), ApThen(Known, "disconnected"))
  BY <1>1, <1>2, FirstEvent DEF OfStation
<1>4. Was' = Then(Was, "disconnected") /\ Known' = ApThen(Known, "disconnected")
  BY <1>1 DEF Was, Known, Ending, Then, ApThen
<1>5. Told(Was, Known)'
  BY <1>3, <1>4 DEF Told, ToldNext
<1>6. Active' <=> Active
  BY <1>2 DEF Active, Joins
<1> QED
  BY <1>1, <1>3, <1>5, <1>6 DEF Story, Ending

(* ... frames stop flowing, ...                                            *)
LEMMA ClearsStory ==
  ASSUME TypeOK, Story, DisconnectedClears
  PROVE  Story'
<1>1. /\ evt \in {"applied", "drop"} /\ evt' \in {"reconnect", "tell"}
      /\ UNCHANGED <<drv, evq, told>>
      /\ s'.suppress_disconnect = s.suppress_disconnect /\ s'.rxcb = FALSE
      /\ s'.station_connected = FALSE /\ s'.softap_started = s.softap_started
  BY DEF TypeOK, DisconnectedClears
<1>2. Was' = Was /\ Known' = Known
  BY <1>1 DEF Was, Known, Ending
<1>3. Told(Was, Known)'
  BY <1>1, <1>2 DEF Story, Told, Active, Act, ApAct
<1>4. Active' <=> Active
  BY <1>1 DEF Active
<1> QED
  BY <1>1, <1>3, <1>4 DEF Story, Ending

(* ... and the host is told, or would know no other.                       *)
LEMMA EndsStory ==
  ASSUME TypeOK, Story, DisconnectedTells
  PROVE  Story' /\ Joins(drv, drv') /\ told' = "down"
<1>1. /\ evt \in {"tell", "reconnect"} /\ evt' = "idle" /\ UNCHANGED evq
      /\ told' = IF s.suppress_disconnect THEN told ELSE "down"
      /\ s'.suppress_disconnect = FALSE /\ s'.rxcb = s.rxcb
      /\ s'.station_connected = s.station_connected /\ s'.softap_started = s.softap_started
  BY DEF TypeOK, DisconnectedTells
<1>2. Joins(drv, drv')
  <2>1. drv \in Drivers
    BY DEF Story, Told
  <2>2. drv' = drv \/ drv' = DrvConnect(drv) \/ drv' = DrvConnect(DrvConnect(drv))
    BY DEF DisconnectedTells
  <2> QED
    BY <2>1, <2>2, ConnectJoins
<1>3. ToldNext(Was, Known)
  BY <1>1, <1>2, JoinedTold DEF Story
<1>4. told' = "down" /\ Ending
  BY <1>1 DEF Story, Ending
<1>5. Was' = Was /\ Known' = Known
  BY <1>1, <1>4 DEF Was, Known, Ending
<1>6. Told(Was, Known)'
  BY <1>3, <1>5 DEF Told, ToldNext
<1> QED
  BY <1>1, <1>2, <1>4, <1>6 DEF Story

(* The station starts or stops.                                            *)
LEMMA StationStory ==
  ASSUME TypeOK, Story, StaStarts \/ StaStops
  PROVE  Story' /\ Joins(drv, drv')
<1>1. PICK e \in {"sta_start", "sta_stop"} :
        /\ Delivered(e) /\ evq' = Tail(evq) /\ UNCHANGED <<evt, told>>
        /\ drv' = drv \/ drv' = DrvConnect(drv)
        /\ s'.suppress_disconnect = s.suppress_disconnect /\ s'.rxcb = s.rxcb
        /\ s'.station_connected = s.station_connected /\ s'.softap_started = s.softap_started
  <2>1. CASE StaStarts
    BY <2>1 DEF TypeOK, StaStarts
  <2>2. CASE StaStops
    BY <2>2 DEF TypeOK, StaStops
  <2> QED
    BY <2>1, <2>2
<1>2. Joins(drv, drv')
  <2>1. drv \in Drivers
    BY DEF Story, Told
  <2> QED
    BY <1>1, <2>1, ConnectJoins
<1>3. /\ ~Ending /\ evt = "idle" /\ ToldNext(Then(Was, e), ApThen(Known, e))
      /\ \A f : Has(evq, f) => f = e \/ Has(evq', f)
  BY <1>1, <1>2, FirstEvent
<1>4. Was' = Was /\ Known' = Known /\ Then(Was, e) = Was /\ ApThen(Known, e) = Known
  BY <1>1 DEF Was, Known, Ending, Then, ApThen
<1>5. Told(Was, Known)'
  BY <1>3, <1>4 DEF Told, ToldNext
<1>6. s.suppress_disconnect => told = "down" /\ Has(evq', "disconnected")
  BY <1>3 DEF Story
<1> QED
  BY <1>1, <1>2, <1>3, <1>5, <1>6 DEF Story

(* So does the soft-AP.                                                    *)
LEMMA ApStory ==
  ASSUME TypeOK, Story, ApChanges
  PROVE  Story'
<1>1. PICK e \in {"ap_start", "ap_stop"} :
        /\ Delivered(e) /\ evq' = Tail(evq) /\ UNCHANGED <<evt, told, drv>>
        /\ s'.suppress_disconnect = s.suppress_disconnect /\ s'.rxcb = s.rxcb
        /\ s'.station_connected = s.station_connected
        /\ s'.softap_started = (e = "ap_start")
  <2>1. CASE Delivered("ap_start")
    BY <2>1 DEF TypeOK, ApChanges, Delivered
  <2>2. CASE Delivered("ap_stop")
    BY <2>2 DEF TypeOK, ApChanges, Delivered
  <2> QED
    BY <2>1, <2>2 DEF ApChanges
<1>2. Joins(drv, drv')
  <2>1. drv \in Drivers
    BY DEF Story, Told
  <2> QED
    BY <1>1, <2>1, ConnectJoins
<1>3. /\ ~Ending /\ evt = "idle" /\ ToldNext(Then(Was, e), ApThen(Known, e))
      /\ \A f : Has(evq, f) => f = e \/ Has(evq', f)
  BY <1>1, <1>2, FirstEvent
<1>4. Was' = Then(Was, e) /\ Known' = ApThen(Known, e)
  <2>1. Was' = Was /\ Then(Was, e) = Was
    BY <1>1 DEF Was, Ending, Then
  <2>2. s'.softap_started <=> e = "ap_start"
    BY <1>1
  <2>3. Known' = ApThen(Known, e)
    BY <2>2 DEF Known, ApThen
  <2> QED
    BY <2>1, <2>3
<1>5. Told(Was, Known)'
  BY <1>3, <1>4 DEF Told, ToldNext
<1>6. s.suppress_disconnect => told = "down" /\ Has(evq', "disconnected")
  BY <1>3 DEF Story
<1> QED
  BY <1>1, <1>3, <1>5, <1>6 DEF Story

(* All of its steps.                                                       *)
LEMMA EventsStory ==
  ASSUME TypeOK, Story, EventStep
  PROVE  Story'
  BY HidesStory, TellsStory, OpensStory, AppliesStory, ClearsStory, EndsStory, StationStory,
     ApStory DEF EventStep

-----------------------------------------------------------------------------
(* Types.                                                                  *)
Statics == [station_connecting: BOOLEAN, new_config_recvd: BOOLEAN,
            new_wifi_config: AnyConfig, suppress_disconnect: BOOLEAN,
            reconnect_retries: 0 .. MaxRetry, wifi_initialized: BOOLEAN,
            cached_init: InitConfig, station_connected: BOOLEAN,
            rxcb: BOOLEAN, softap_started: BOOLEAN]

(* No step leaves the types, of what the queue and the driver are not.     *)
LEMMA TypesKept ==
  ASSUME TypeOK, WifiNext, evq' \in Seq(Event), drv' \in Drivers
  PROVE  TypeOK'
<1> DEFINE H == {"late_cache", "set_overtaken", "connect_twice", "no_ssid", "deinit_failed", "off"}
           Rest == /\ build' \in Builds /\ s' \in Statics
                   /\ pser' \in [pc: {"idle", "connect", "cache", "set"}, cfg: AnyConfig]
                   /\ evt' \in {"idle", "connected", "applied", "drop", "tell", "reconnect"}
                   /\ told' \in {"up", "down"} /\ wanted' \in AnyConfig /\ asked' \in InitConfig
                   /\ reqs' \in 0 .. MaxReq /\ air' \in 0 .. MaxAir /\ harm' \subseteq H
<1>1. /\ build \in Builds /\ s \in Statics
      /\ pser \in [pc: {"idle", "connect", "cache", "set"}, cfg: AnyConfig]
      /\ evt \in {"idle", "connected", "applied", "drop", "tell", "reconnect"}
      /\ told \in {"up", "down"} /\ wanted \in AnyConfig /\ asked \in InitConfig
      /\ reqs \in 0 .. MaxReq /\ air \in 0 .. MaxAir /\ harm \subseteq H
  BY DEF TypeOK, Statics
<1>2. /\ NoConfig \in AnyConfig /\ Config \subseteq AnyConfig
      /\ MaxRetry \in Nat /\ MaxReq \in Nat /\ MaxAir \in Nat
      /\ Idle \in [pc: {"idle", "connect", "cache", "set"}, cfg: AnyConfig]
  BY WifiAssumption DEF AnyConfig, Idle
<1>3. reqs < MaxReq /\ reqs' = reqs + 1 => reqs' \in 0 .. MaxReq
  BY <1>1, <1>2
<1> HIDE DEF Idle
<1> SUFFICES Rest
  BY DEF TypeOK, Statics, Drivers
<1>4. CASE DrvAir
  <2>1. air' \in 0 .. MaxAir
    BY <1>1, <1>2, <1>4 DEF DrvAir
  <2> QED
    BY <1>1, <1>4, <2>1 DEF DrvAir
<1>5. ASSUME NEW c \in InitConfigs, req_wifi_init(c) PROVE Rest
  <2>1. Merged(c) \in InitConfig
    BY WifiAssumption DEF Merged, InitConfig
  <2>2. s' \in Statics
    BY <1>1, <1>5, <2>1, ZenonT(60) DEF req_wifi_init, Statics
  <2> QED
    BY <1>1, <1>3, <1>5, <2>1, <2>2 DEF req_wifi_init, Request
<1>6. CASE req_wifi_deinit
  BY <1>1, <1>3, <1>6 DEF req_wifi_deinit, Request, Statics
<1>7. ASSUME NEW m \in Mode, req_wifi_set_mode(m) PROVE Rest
  BY <1>1, <1>3, <1>7 DEF req_wifi_set_mode, Request
<1>8. CASE req_wifi_start \/ req_wifi_stop \/ req_wifi_disconnect
  BY <1>1, <1>3, <1>8 DEF req_wifi_start, req_wifi_stop, req_wifi_disconnect, Request
<1>9. CASE ConnectRequest
  <2>1. s' \in Statics
    BY <1>1, <1>9, ZenonT(60) DEF ConnectRequest, Statics
  <2>2. [Idle EXCEPT !.pc = "connect"] \in [pc: {"idle", "connect", "cache", "set"}, cfg: AnyConfig]
    BY <1>2
  <2>3. /\ pser' \in [pc: {"idle", "connect", "cache", "set"}, cfg: AnyConfig]
        /\ told' \in {"up", "down"} /\ harm' = harm /\ UNCHANGED <<build, evt, asked, wanted, air>>
    BY <1>1, <1>9, <2>2 DEF ConnectRequest
  <2>4. reqs' \in 0 .. MaxReq
    BY <1>3, <1>9 DEF ConnectRequest, Request
  <2> QED
    BY <1>1, <2>1, <2>3, <2>4
<1>10. CASE ConnectCall
  BY <1>1, <1>2, <1>10 DEF ConnectCall, Statics
<1>11. ASSUME NEW c \in Config, SetConfigRequest(c) PROVE Rest
  BY <1>1, <1>2, <1>3, <1>11 DEF SetConfigRequest, Request
<1>12. CASE SetConfigCache
  BY <1>1, <1>2, <1>12 DEF SetConfigCache, Cached, Statics
<1>13. CASE SetConfigApply
  BY <1>1, <1>2, <1>13 DEF SetConfigApply, Cached, Statics
<1>14. CASE ConnectedApplies \/ ConnectedOpens
  BY <1>1, <1>14, ZenonT(60) DEF ConnectedApplies, ConnectedOpens, Statics
<1>15. CASE ConnectedTells
  <2>1. 0 \in 0 .. MaxRetry
    BY <1>2
  <2>2. s' \in Statics
    BY <1>1, <1>15, <2>1 DEF ConnectedTells, Statics
  <2> QED
    BY <1>1, <1>15, <2>2 DEF ConnectedTells
<1>16. CASE DisconnectedApplies
  BY <1>1, <1>16 DEF DisconnectedApplies
<1>17. CASE DisconnectedClears
  BY <1>1, <1>17 DEF DisconnectedClears, Statics
<1>18. CASE DisconnectedTells
  <2>1. RetriesNext \in 0 .. MaxRetry
    BY <1>1, <1>2 DEF RetriesNext, Retry, Statics
  <2>2. s' \in Statics
    BY <1>1, <1>18, <2>1 DEF DisconnectedTells, Statics
  <2> QED
    BY <1>1, <1>18, <2>2 DEF DisconnectedTells
<1>19. CASE StaStarts
  BY <1>1, <1>19, ZenonT(60) DEF StaStarts, Statics
<1>20. CASE StaStops
  BY <1>1, <1>20 DEF StaStops, Statics
<1>21. CASE ApChanges
  BY <1>1, <1>21 DEF ApChanges, Statics
<1> QED
  BY <1>4, <1>5, <1>6, <1>7, <1>8, <1>9, <1>10, <1>11, <1>12, <1>13, <1>14, <1>15, <1>16, <1>17,
     <1>18, <1>19, <1>20, <1>21 DEF WifiNext, PserialStep, EventStep

-----------------------------------------------------------------------------
(* Joining, and what is cached meanwhile.                                  *)

(* A station that is said to join does, or something is to come that says  *)
(* otherwise; and it is not said of one the host knows to be connected.    *)
Connecting ==
  /\ s.station_connecting =>
       \/ drv.link = "joining" \/ pser.pc = "connect" \/ Ending
       \/ Has(evq, "connected") \/ Has(evq, "disconnected") \/ Has(evq, "sta_stop")
       \/ "no_ssid" \in harm \/ "connect_twice" \in harm
  /\ s.station_connecting /\ told = "up" =>
       \/ Ending \/ Has(evq, "disconnected") \/ pser.pc = "connect"
       \/ "connect_twice" \in harm
  /\ s.new_config_recvd /\ told = "up" =>
       \/ Ending \/ Has(evq, "disconnected")
       \/ "late_cache" \in harm \/ "connect_twice" \in harm

(* A link that the handler was told of, or was not, and is otherwise.      *)
LEMMA ToCome ==
  ASSUME Story
  PROVE  /\ told = "up" /\ drv.link # "joined" => Ending \/ Has(evq, "disconnected")
         /\ Was = "down" /\ drv.link = "joined" => Has(evq, "connected")
<1>1. /\ evq \in Seq(Event) /\ (drv.link = "joined" <=> Standing(Was, evq))
      /\ Len(evq) \in Nat
  BY DEF Story, Told, Tells
<1>2. Was = "up" /\ ~Standing(Was, evq) => Has(evq, "disconnected")
  <2>1. 0 \in 0 .. Len(evq) /\ 0 + 1 = 1
    BY <1>1
  <2> QED
    BY <2>1 DEF Standing, Up, After, Has
<1>3. Was = "down" /\ Standing(Was, evq) => Has(evq, "connected")
  <2> SUFFICES ASSUME Was = "down", NEW i \in 0 .. Len(evq), Up(Was, evq, i)
               PROVE  Has(evq, "connected")
    BY DEF Standing
  <2>1. i # 0 /\ evq[i] = "connected"
    BY DEF Up
  <2> QED
    BY <1>1, <2>1 DEF Has
<1> QED
  BY <1>1, <1>2, <1>3 DEF Was

(* Hazards are remembered.                                                 *)
LEMMA HarmGrows == ASSUME WifiNext PROVE harm \subseteq harm'
  BY ZenonT(60)
     DEF WifiNext, DrvAir, PserialStep, req_wifi_init, req_wifi_deinit, req_wifi_set_mode,
         req_wifi_start, req_wifi_stop, req_wifi_disconnect, ConnectRequest, ConnectCall,
         SetConfigRequest, SetConfigCache, SetConfigApply, EventStep, ConnectedApplies,
         ConnectedTells, ConnectedOpens, DisconnectedApplies, DisconnectedClears,
         DisconnectedTells, StaStarts, StaStops, ApChanges

(* Requests that leave the flags alone, but for the one to join.           *)
LEMMA OthersLeave ==
  ASSUME TypeOK, DrvAir \/ PserialStep
  PROVE  \/ ConnectCall \/ SetConfigCache \/ SetConfigApply
         \/ /\ s'.new_config_recvd = s.new_config_recvd
            /\ s'.new_wifi_config = s.new_wifi_config /\ UNCHANGED wanted
            /\ drv'.cfg = drv.cfg
            /\ \/ pser'.pc = "connect"
               \/ /\ s'.station_connecting = s.station_connecting
                  /\ pser.pc # "connect" \/ pser'.pc = pser.pc
<1> USE DEF TypeOK
<1>1. CASE DrvAir
  BY <1>1 DEF DrvAir
<1>2. ASSUME NEW c \in InitConfigs, req_wifi_init(c)
      PROVE  /\ s'.new_config_recvd = s.new_config_recvd
             /\ s'.new_wifi_config = s.new_wifi_config /\ UNCHANGED <<wanted, pser>>
             /\ drv'.cfg = drv.cfg /\ s'.station_connecting = s.station_connecting
  <2>1. s' = s \/ s' = [s EXCEPT !.cached_init = Merged(c), !.wifi_initialized = TRUE]
    BY <1>2 DEF req_wifi_init
  <2>2. drv' = drv
        \/ drv' = [DrvOff EXCEPT !.up = "inited", !.init = Merged(c), !.cfg = drv.cfg]
    BY <1>2 DEF req_wifi_init
  <2>3. drv'.cfg = drv.cfg
    BY <2>2 DEF DrvOff
  <2> QED
    BY <1>2, <2>1, <2>3 DEF req_wifi_init
<1>3. CASE req_wifi_deinit
  BY <1>3 DEF req_wifi_deinit
<1>4. ASSUME NEW m \in Mode, req_wifi_set_mode(m)
      PROVE  UNCHANGED <<s, pser, wanted>> /\ drv'.cfg = drv.cfg
  BY <1>4 DEF req_wifi_set_mode
<1>5. CASE req_wifi_start \/ req_wifi_stop \/ req_wifi_disconnect
  BY <1>5 DEF req_wifi_start, req_wifi_stop, req_wifi_disconnect, DrvStopped
<1>6. CASE ConnectRequest
  BY <1>6 DEF ConnectRequest, Idle, Request
<1>7. ASSUME NEW c \in Config, SetConfigRequest(c)
      PROVE  UNCHANGED <<s, drv, wanted>> /\ pser.pc = "idle"
  BY <1>7 DEF SetConfigRequest, Request
<1> QED
  BY <1>1, <1>2, <1>3, <1>4, <1>5, <1>6, <1>7 DEF PserialStep

(* The driver and pserial_task.                                            *)
LEMMA RequestsConnecting ==
  ASSUME TypeOK, Story, Connecting, DrvAir \/ PserialStep
  PROVE  Connecting'
<1>1. /\ UNCHANGED <<evt, told>> /\ (Ending' <=> Ending)
      /\ \A f : Has(evq, f) => Has(evq', f)
      /\ drv.link = "joining" => \/ drv'.link = "joining" \/ Has(evq', "disconnected")
                                 \/ Has(evq', "connected")
  BY RequestsStory, RequestsLeave DEF Moved, Ending
<1>2. harm \subseteq harm'
  BY HarmGrows DEF WifiNext
<1>3. CASE ConnectCall
  <2>1. /\ drv' = DrvConnect(drv) /\ evq' = evq /\ drv \in Drivers
        /\ s'.new_config_recvd = s.new_config_recvd
        /\ s'.station_connecting => DrvConnectResult(drv) \in {"ok", "conn"}
        /\ DrvConnectResult(drv) = "conn" /\ drv.link = "joined" => "connect_twice" \in harm'
    BY <1>3 DEF ConnectCall, TypeOK, Drivers
  <2>2. drv.link \in {"idle", "joining", "joined"}
    BY <2>1 DEF Drivers
  <2>3. s'.station_connecting =>
          (drv'.link = "joining" /\ drv.link # "joined") \/ "connect_twice" \in harm'
    BY <2>1, <2>2, Connects
  <2>4. told = "up" /\ drv.link # "joined" => Ending \/ Has(evq, "disconnected")
    BY ToCome
  <2> QED
    BY <1>1, <1>2, <2>1, <2>3, <2>4 DEF Connecting
<1>4. CASE SetConfigCache
  <2>1. /\ s'.station_connecting = s.station_connecting /\ pser.pc # "connect"
        /\ drv' = drv /\ evq' = evq
        /\ (s.station_connecting /\ evt = "idle") \/ "late_cache" \in harm'
    BY <1>4 DEF SetConfigCache, Cached, TypeOK
  <2> QED
    BY <1>1, <1>2, <2>1 DEF Connecting
<1>5. CASE SetConfigApply
  <2>1. /\ s'.station_connecting = s.station_connecting /\ pser.pc # "connect"
        /\ drv'.link = drv.link /\ evq' = evq
        /\ s'.new_config_recvd => ~DrvCanSet
    BY <1>5 DEF SetConfigApply, Cached, TypeOK
  <2>2. ~DrvCanSet => drv.link # "joined"
    BY DEF DrvCanSet, Story, Told, Active
  <2> QED
    BY <1>1, <1>2, <2>1, <2>2, ToCome DEF Connecting
<1> QED
  BY <1>1, <1>2, <1>3, <1>4, <1>5, OthersLeave DEF Connecting

(* What trying to join comes to.                                           *)
LEMMA Tried ==
  ASSUME Story, drv \in Drivers
  PROVE  \/ DrvConnect(drv).link = "joining"
         \/ DrvConnectResult(drv) = "ssid"
         \/ drv.link = "joined"
         \/ ~Active
<1>1. drv.link \in {"idle", "joining", "joined"}
  BY DEF Drivers
<1> QED
  BY <1>1, Connects DEF Active

(* The event handler.                                                      *)
LEMMA EventsConnecting ==
  ASSUME TypeOK, Story, Connecting, EventStep
  PROVE  Connecting'
<1>1. harm \subseteq harm'
  BY HarmGrows DEF WifiNext
<1>2. drv \in Drivers
  BY DEF Story, Told
<1>3. CASE ConnectedApplies
  BY <1>3, HidesStory DEF Connecting
<1>4. CASE ConnectedTells
  <2>1. s'.station_connecting = FALSE /\ s'.new_config_recvd = FALSE
    BY <1>4 DEF ConnectedTells, TypeOK
  <2> QED
    BY <2>1 DEF Connecting
<1>5. CASE ConnectedOpens
  <2>1. /\ s'.station_connecting = s.station_connecting /\ UNCHANGED <<drv, evq, told, pser, harm>>
        /\ s'.new_config_recvd = s.new_config_recvd /\ ~Ending
    BY <1>5 DEF ConnectedOpens, TypeOK, Ending
  <2> QED
    BY <2>1 DEF Connecting
<1>6. CASE DisconnectedApplies \/ DisconnectedClears
  <2>1. Ending'
    BY <1>6 DEF DisconnectedApplies, DisconnectedClears, Ending
  <2> QED
    BY <2>1 DEF Connecting
<1>7. CASE DisconnectedTells
  <2>1. told' = "down"
    BY <1>7, EndsStory
  <2>2. ASSUME s'.station_connecting
        PROVE  \/ drv'.link = "joining" \/ "no_ssid" \in harm'
               \/ Has(evq', "connected") \/ Has(evq', "sta_stop")
    <3>1. evt = "reconnect" /\ evq' = evq /\ Ending
      BY <1>7, <2>2 DEF DisconnectedTells, TypeOK, Ending
    <3>2. drv' = DrvConnect(drv) \/ drv' = DrvConnect(DrvConnect(drv))
      BY <1>7, <3>1 DEF DisconnectedTells
    <3>3. DrvConnectResult(drv) = "ssid" => "no_ssid" \in harm'
      BY <1>7, <3>1 DEF DisconnectedTells
    <3>4. DrvConnect(drv).link = "joining" => drv'.link = "joining"
      <4>1. DrvConnect(drv) \in Drivers
        BY <1>2, Connects
      <4>2. \A d \in Drivers : d.link = "joining" => DrvConnect(d).link = "joining"
        BY Connects
      <4> QED
        BY <3>2, <4>1, <4>2
    <3>5. drv.link = "joined" => Has(evq, "connected")
      BY <3>1, ToCome DEF Was
    <3>6. ~Active => Has(evq, "sta_stop")
      BY <3>1 DEF Story
    <3> QED
      BY <1>2, <3>1, <3>3, <3>4, <3>5, <3>6, Tried
  <2> QED
    BY <2>1, <2>2 DEF Connecting
<1>8. CASE StaStarts
  <2>1. /\ Delivered("sta_start") /\ evq' = Tail(evq) /\ UNCHANGED <<evt, told, pser>>
        /\ s'.new_config_recvd = s.new_config_recvd
    BY <1>8 DEF StaStarts, TypeOK
  <2>2. /\ told # "up" /\ ~s.suppress_disconnect /\ ~Ending
        /\ Active \/ Has(evq', "sta_stop")
        /\ \A f : Has(evq, f) <=> f = "sta_start" \/ Has(evq', f)
    BY <2>1, FirstEvent DEF OfStation
  <2>3. CASE UNCHANGED <<s, drv>>
    BY <1>1, <2>1, <2>2, <2>3 DEF Connecting
  <2>4. CASE /\ drv' = DrvConnect(drv)
             /\ DrvConnectResult(drv) = "ssid" => "no_ssid" \in harm'
    <3>1. drv.link = "joined" => Has(evq, "connected")
      BY <2>2, ToCome DEF Was
    <3>2. drv.link = "joined" => Has(evq', "connected")
      BY <2>2, <3>1
    <3>3. \/ drv'.link = "joining" \/ "no_ssid" \in harm'
          \/ Has(evq', "connected") \/ Has(evq', "sta_stop")
      BY <1>2, <2>2, <2>4, <3>2, Tried
    <3> QED
      BY <2>1, <2>2, <3>3 DEF Connecting
  <2> QED
    BY <1>8, <2>3, <2>4 DEF StaStarts
<1>9. CASE StaStops
  <2>1. /\ Delivered("sta_stop") /\ evq' = Tail(evq) /\ UNCHANGED <<evt, told, harm>>
        /\ s'.new_config_recvd = s.new_config_recvd /\ s'.station_connecting = FALSE
    BY <1>9 DEF StaStops, TypeOK
  <2>2. /\ ~Ending
        /\ \A f : Has(evq, f) <=> f = "sta_stop" \/ Has(evq', f)
    BY <2>1, FirstEvent
  <2> QED
    BY <2>1, <2>2 DEF Connecting
<1>10. CASE ApChanges
  <2>1. PICK e \in {"ap_start", "ap_stop"} : Delivered(e)
    BY <1>10 DEF ApChanges
  <2>2. /\ evq' = Tail(evq) /\ UNCHANGED <<evt, told, harm, drv, pser>>
        /\ s'.new_config_recvd = s.new_config_recvd
        /\ s'.station_connecting = s.station_connecting
    BY <1>10 DEF ApChanges, TypeOK
  <2>3. /\ ~Ending
        /\ \A f : Has(evq, f) <=> f = e \/ Has(evq', f)
    BY <2>1, <2>2, FirstEvent
  <2> QED
    BY <2>1, <2>2, <2>3 DEF Connecting
<1> QED
  BY <1>3, <1>4, <1>5, <1>6, <1>7, <1>8, <1>9, <1>10 DEF EventStep

-----------------------------------------------------------------------------
(* The configurations.                                                     *)

(* The configuration the host was last acknowledged is cached or in the    *)
(* driver, also while the handler moves it there; what the driver was      *)
(* initialised with is what was asked for.                                 *)
Configs ==
  /\ "late_cache" \notin harm /\ "set_overtaken" \notin harm =>
       /\ IF s.new_config_recvd THEN s.new_wifi_config = wanted ELSE drv.cfg = wanted
       /\ evt = "applied" => s.new_config_recvd /\ drv.cfg = s.new_wifi_config
  /\ s.wifi_initialized /\ "deinit_failed" \notin harm =>
       /\ drv.up # "off" /\ drv.init = s.cached_init
       /\ drv.init.compared = asked.compared /\ drv.init.caps = asked.caps
  /\ ~s.wifi_initialized /\ "deinit_failed" \notin harm => drv.up = "off"

(* The station's, through the driver and pserial_task, ...                 *)
LEMMA StationConfigs ==
  ASSUME TypeOK, Configs, DrvAir \/ PserialStep, UNCHANGED evt, harm \subseteq harm',
         "late_cache" \notin harm', "set_overtaken" \notin harm'
  PROVE  /\ IF s'.new_config_recvd THEN s'.new_wifi_config = wanted' ELSE drv'.cfg = wanted'
         /\ evt' = "applied" => s'.new_config_recvd /\ drv'.cfg = s'.new_wifi_config
<1>1. /\ IF s.new_config_recvd THEN s.new_wifi_config = wanted ELSE drv.cfg = wanted
      /\ evt = "applied" => s.new_config_recvd /\ drv.cfg = s.new_wifi_config
  BY DEF Configs
<1>2. CASE ConnectCall
  <2>1. /\ drv' = DrvConnect(drv) /\ UNCHANGED wanted /\ drv \in Drivers
        /\ s'.new_config_recvd = s.new_config_recvd
        /\ s'.new_wifi_config = s.new_wifi_config
    BY <1>2 DEF ConnectCall, TypeOK, Drivers
  <2>2. drv'.cfg = drv.cfg
    BY <2>1, Connects
  <2> QED
    BY <1>1, <2>1, <2>2
<1>3. CASE SetConfigCache
  <2>1. /\ s'.new_config_recvd = TRUE /\ s'.new_wifi_config = pser.cfg /\ wanted' = pser.cfg
        /\ evt = "idle"
    BY <1>3 DEF SetConfigCache, Cached, TypeOK
  <2> QED
    BY <2>1
<1>4. CASE SetConfigApply
  <2>1. wanted' = pser.cfg /\ evt = "idle"
    BY <1>4 DEF SetConfigApply
  <2>2. CASE DrvCanSet
    <3>1. drv'.cfg = pser.cfg /\ s'.new_config_recvd = FALSE
      BY <1>4, <2>2 DEF SetConfigApply, TypeOK
    <3> QED
      BY <2>1, <3>1
  <2>3. CASE ~DrvCanSet
    <3>1. s'.new_wifi_config = pser.cfg /\ s'.new_config_recvd = TRUE
      BY <1>4, <2>3 DEF SetConfigApply, Cached, TypeOK
    <3> QED
      BY <2>1, <3>1
  <2> QED
    BY <2>2, <2>3
<1> QED
  BY <1>1, <1>2, <1>3, <1>4, OthersLeave

(* ... the driver's, ...                                                   *)
DriverConfigs ==
  "deinit_failed" \notin harm =>
    IF s.wifi_initialized
    THEN /\ drv.up # "off" /\ drv.init = s.cached_init
         /\ drv.init.compared = asked.compared /\ drv.init.caps = asked.caps
    ELSE drv.up = "off"

(* ... kept by the air and by the requests' task, ...                      *)
LEMMA DriversConfigs ==
  ASSUME TypeOK, Configs, DrvAir \/ PserialStep
  PROVE  DriverConfigs'
<1>1. DriverConfigs /\ drv \in Drivers /\ s.wifi_initialized \in BOOLEAN
  BY DEF Configs, DriverConfigs, TypeOK, Drivers
<1>2. ASSUME NEW d \in Drivers, drv' = d, d.up = drv.up \/ (d.up # "off" /\ drv.up # "off"),
             d.init = drv.init, s'.wifi_initialized = s.wifi_initialized,
             s'.cached_init = s.cached_init, UNCHANGED asked, harm \subseteq harm'
      PROVE  DriverConfigs'
  BY <1>1, <1>2 DEF DriverConfigs
<1>3. harm \subseteq harm'
  BY HarmGrows DEF WifiNext
<1>4. CASE DrvAir
  BY <1>1, <1>2, <1>3, <1>4 DEF DrvAir, Drivers
<1>5. ASSUME NEW c \in InitConfigs, req_wifi_init(c) PROVE DriverConfigs'
  <2> DEFINE m == Merged(c)
  <2>1. asked' = m /\ UNCHANGED harm
    BY <1>5 DEF req_wifi_init
  <2>2. CASE s.wifi_initialized /\ ~Reinit(m)
    <3>1. UNCHANGED <<s, drv>>
      BY <1>5, <2>2 DEF req_wifi_init
    <3>2. m.compared = s.cached_init.compared /\ m.caps = s.cached_init.caps
      BY <2>2 DEF Reinit, Changed
    <3> HIDE DEF m
    <3> QED
      BY <1>1, <2>1, <2>2, <3>1, <3>2 DEF DriverConfigs
  <2>3. CASE ~(s.wifi_initialized /\ ~Reinit(m))
    <3>1. /\ s' = [s EXCEPT !.cached_init = m, !.wifi_initialized = TRUE]
          /\ drv' = IF Reinit(m) \/ drv.up = "off"
                    THEN [DrvOff EXCEPT !.up = "inited", !.init = m, !.cfg = drv.cfg]
                    ELSE drv
      BY <1>5, <2>3 DEF req_wifi_init
    <3> HIDE DEF m
    <3>2. s'.cached_init = m /\ s'.wifi_initialized = TRUE
      BY <3>1 DEF TypeOK
    <3>3. CASE Reinit(m) \/ drv.up = "off"
      <4>1. drv'.up = "inited" /\ drv'.init = m
        BY <3>1, <3>3 DEF DrvOff
      <4> QED
        BY <2>1, <3>2, <4>1 DEF DriverConfigs
    <3>4. CASE ~Reinit(m) /\ drv.up # "off"
      <4>1. "deinit_failed" \in harm
        BY <1>1, <2>3, <3>4 DEF DriverConfigs
      <4> QED
        BY <2>1, <4>1 DEF DriverConfigs
    <3> QED
      BY <3>3, <3>4
  <2> QED
    BY <2>2, <2>3
<1>6. CASE req_wifi_deinit
  <2>1. s'.wifi_initialized = FALSE
    BY <1>6 DEF req_wifi_deinit, TypeOK
  <2>2. drv.up = "started" \/ drv'.up = "off"
    BY <1>1, <1>6 DEF req_wifi_deinit, Drivers
  <2>3. drv.up = "started" => "deinit_failed" \in harm'
    BY <1>6 DEF req_wifi_deinit
  <2> QED
    BY <2>1, <2>2, <2>3 DEF DriverConfigs
<1>7. ASSUME NEW m \in Mode, req_wifi_set_mode(m) PROVE DriverConfigs'
  <2>1. /\ drv'.up = drv.up /\ drv'.init = drv.init /\ UNCHANGED <<s, asked, harm>>
    BY <1>1, <1>7 DEF req_wifi_set_mode, Drivers
  <2> QED
    BY <1>1, <2>1 DEF DriverConfigs
<1>8. CASE req_wifi_start
  BY <1>1, <1>2, <1>3, <1>8 DEF req_wifi_start, Drivers
<1>9. CASE req_wifi_stop
  <2>1. /\ drv' \in Drivers /\ drv.up = "started" /\ drv'.up = "inited"
        /\ drv'.init = drv.init /\ UNCHANGED <<s, asked, harm>>
    BY <1>1, <1>9 DEF req_wifi_stop, DrvStopped, Drivers
  <2> QED
    BY <1>2, <1>3, <2>1
<1>10. CASE req_wifi_disconnect
  BY <1>1, <1>2, <1>3, <1>10 DEF req_wifi_disconnect, Drivers
<1>11. CASE ConnectRequest
  <2>1. /\ s'.wifi_initialized = s.wifi_initialized /\ s'.cached_init = s.cached_init
        /\ UNCHANGED <<drv, asked>>
    BY <1>11 DEF ConnectRequest, TypeOK
  <2> QED
    BY <1>1, <1>3, <2>1 DEF DriverConfigs
<1>12. CASE ConnectCall
  <2>1. /\ s'.wifi_initialized = s.wifi_initialized /\ s'.cached_init = s.cached_init
        /\ drv' = DrvConnect(drv) /\ UNCHANGED asked
    BY <1>12 DEF ConnectCall, TypeOK
  <2> QED
    BY <1>1, <1>2, <1>3, <2>1, Connects
<1>13. ASSUME NEW c \in Config, SetConfigRequest(c) PROVE DriverConfigs'
  BY <1>1, <1>13 DEF SetConfigRequest, DriverConfigs
<1>14. CASE SetConfigCache
  <2>1. /\ s'.wifi_initialized = s.wifi_initialized /\ s'.cached_init = s.cached_init
        /\ UNCHANGED <<drv, asked>>
    BY <1>14 DEF SetConfigCache, Cached, TypeOK
  <2> QED
    BY <1>1, <1>3, <2>1 DEF DriverConfigs
<1>15. CASE SetConfigApply
  <2>1. /\ s'.wifi_initialized = s.wifi_initialized /\ s'.cached_init = s.cached_init
        /\ drv'.up = drv.up /\ drv'.init = drv.init /\ UNCHANGED asked
    BY <1>15 DEF SetConfigApply, Cached, TypeOK
  <2> QED
    BY <1>1, <1>3, <2>1 DEF DriverConfigs
<1> QED
  BY <1>4, <1>5, <1>6, <1>7, <1>8, <1>9, <1>10, <1>11, <1>12, <1>13, <1>14, <1>15 DEF PserialStep

(* ... and both through the event handler.                                 *)
LEMMA EventsConfigs ==
  ASSUME TypeOK, Story, Configs, EventStep
  PROVE  Configs'
<1>1. harm \subseteq harm'
  BY HarmGrows DEF WifiNext
<1>2. drv \in Drivers
  BY DEF Story, Told
<1>3. ASSUME drv'.up = drv.up, drv'.init = drv.init, UNCHANGED <<asked, wanted>>,
             s'.wifi_initialized = s.wifi_initialized, s'.cached_init = s.cached_init,
             s'.new_wifi_config = s.new_wifi_config,
             \/ /\ s'.new_config_recvd = s.new_config_recvd
                /\ drv'.cfg = drv.cfg
                   \/ (drv'.cfg = s.new_wifi_config /\ s.new_config_recvd)
                /\ evt' = "applied" => s.new_config_recvd /\ drv'.cfg = s.new_wifi_config
             \/ /\ evt = "applied" /\ evt' # "applied" /\ s'.new_config_recvd = FALSE
                /\ drv'.cfg = drv.cfg
      PROVE  Configs'
  BY <1>1, <1>3 DEF Configs
<1>4. CASE ConnectedApplies
  <2>1. /\ drv' = [NewApplied(drv) EXCEPT !.link = "idle"] /\ UNCHANGED <<asked, wanted, evt>>
        /\ evt = "idle" /\ s.new_config_recvd
        /\ s' = [s EXCEPT !.suppress_disconnect = TRUE]
    BY <1>4 DEF ConnectedApplies, Delivered
  <2>2. /\ drv'.up = drv.up /\ drv'.init = drv.init
        /\ drv'.cfg = drv.cfg \/ drv'.cfg = s.new_wifi_config
    BY <2>1, Applied DEF Drivers
  <2>3. /\ s'.wifi_initialized = s.wifi_initialized /\ s'.cached_init = s.cached_init
        /\ s'.new_wifi_config = s.new_wifi_config /\ s'.new_config_recvd = s.new_config_recvd
    BY <2>1 DEF TypeOK
  <2> QED
    BY <1>3, <2>1, <2>2, <2>3
<1>5. CASE ConnectedTells \/ ConnectedOpens \/ StaStops \/ ApChanges
  <2>1. /\ UNCHANGED <<drv, asked, wanted>> /\ evt' # "applied"
        /\ s'.wifi_initialized = s.wifi_initialized /\ s'.cached_init = s.cached_init
        /\ s'.new_wifi_config = s.new_wifi_config /\ s'.new_config_recvd = s.new_config_recvd
    BY <1>5, ZenonT(60) DEF ConnectedTells, ConnectedOpens, StaStops, ApChanges, Delivered, TypeOK
  <2> QED
    BY <1>3, <2>1
<1>6. CASE DisconnectedApplies
  <2>1. /\ UNCHANGED <<s, asked, wanted>> /\ evt = "idle"
        /\ drv' = IF s.new_config_recvd THEN NewApplied(drv) ELSE drv
        /\ evt' = IF s.new_config_recvd /\ DrvCanSet THEN "applied" ELSE "drop"
    BY <1>6 DEF DisconnectedApplies, Delivered
  <2>2. /\ drv'.up = drv.up /\ drv'.init = drv.init
        /\ drv'.cfg = IF s.new_config_recvd /\ DrvCanSet THEN s.new_wifi_config ELSE drv.cfg
    BY <2>1, Applied
  <2> QED
    BY <1>3, <2>1, <2>2
<1>7. CASE DisconnectedClears
  <2>1. /\ UNCHANGED <<drv, asked, wanted>> /\ evt' # "applied"
        /\ s'.wifi_initialized = s.wifi_initialized /\ s'.cached_init = s.cached_init
        /\ s'.new_wifi_config = s.new_wifi_config
        /\ s'.new_config_recvd = IF evt = "applied" THEN FALSE ELSE s.new_config_recvd
    BY <1>7 DEF DisconnectedClears, TypeOK
  <2> QED
    BY <1>3, <2>1
<1>8. \A d \in Drivers : /\ DrvConnect(d) \in Drivers /\ DrvConnect(d).up = d.up
                         /\ DrvConnect(d).init = d.init /\ DrvConnect(d).cfg = d.cfg
  BY Connects
<1>9. CASE DisconnectedTells
  <2>1. drv' = drv \/ drv' = DrvConnect(drv) \/ drv' = DrvConnect(DrvConnect(drv))
    BY <1>9 DEF DisconnectedTells
  <2>2. drv'.up = drv.up /\ drv'.init = drv.init /\ drv'.cfg = drv.cfg
    BY <1>2, <1>8, <2>1
  <2>3. /\ UNCHANGED <<asked, wanted>> /\ evt' # "applied"
        /\ s'.wifi_initialized = s.wifi_initialized /\ s'.cached_init = s.cached_init
        /\ s'.new_wifi_config = s.new_wifi_config /\ s'.new_config_recvd = s.new_config_recvd
    BY <1>9 DEF DisconnectedTells, TypeOK
  <2> QED
    BY <1>3, <2>2, <2>3
<1>10. CASE StaStarts
  <2>1. drv' = drv \/ drv' = DrvConnect(drv)
    BY <1>10 DEF StaStarts
  <2>2. drv'.up = drv.up /\ drv'.init = drv.init /\ drv'.cfg = drv.cfg
    BY <1>2, <1>8, <2>1
  <2>3. /\ UNCHANGED <<asked, wanted, evt>> /\ evt' # "applied"
        /\ s'.wifi_initialized = s.wifi_initialized /\ s'.cached_init = s.cached_init
        /\ s'.new_wifi_config = s.new_wifi_config /\ s'.new_config_recvd = s.new_config_recvd
    BY <1>10 DEF StaStarts, Delivered, TypeOK
  <2> QED
    BY <1>3, <2>2, <2>3
<1> QED
  BY <1>4, <1>5, <1>6, <1>7, <1>9, <1>10 DEF EventStep

-----------------------------------------------------------------------------
(* The inductive invariant.                                                *)
WifiInv == TypeOK /\ Story /\ Connecting /\ Configs

(* It holds of a slave that has booted, ...                                *)
LEMMA InitKept == WifiInit => WifiInv
<1> SUFFICES ASSUME WifiInit PROVE WifiInv
  OBVIOUS
<1>1. PICK flash \in AnyConfig : drv = Boot(build, flash) /\ wanted = flash
  BY DEF WifiInit
<1>2. /\ build \in Builds /\ build.connect_sta \in BOOLEAN
      /\ evq = If(build.connect_sta, "sta_start")
      /\ s = [station_connecting |-> FALSE, new_config_recvd |-> FALSE,
              new_wifi_config |-> NoConfig, suppress_disconnect |-> FALSE,
              reconnect_retries |-> 0, wifi_initialized |-> build.connect_sta,
              cached_init |-> Default, station_connected |-> FALSE,
              rxcb |-> FALSE, softap_started |-> FALSE]
      /\ pser = Idle /\ evt = "idle" /\ told = "down" /\ asked = Default
      /\ reqs = 0 /\ air = 0 /\ harm = {}
  BY WifiAssumption DEF WifiInit, Build
<1>3. NoConfig \in AnyConfig /\ Default \in InitConfig
  BY DEF AnyConfig, Default, InitConfig
<1>4. /\ drv \in Drivers /\ drv.link = "idle" /\ drv.mode = "sta" /\ drv.cfg = flash
      /\ drv.init = Default /\ drv.up = IF build.connect_sta THEN "started" ELSE "off"
  BY <1>1, <1>2, <1>3 DEF Boot, DrvOff, Drivers, Mode
<1>5. PICK e \in Seq(Event) : e = <<>>
  <2>1. <<>> \in Seq(Event)
    BY EmptySeq
  <2> QED
    BY <2>1
<1>6. Tells(e, "down", "down", "idle", "off", "off")
  <2>1. Len(e) = 0 /\ 1 .. 0 = {} /\ 0 .. 0 = {0} /\ 0 + 1 = 1
    BY <1>5
  <2>2. Alternate("down", e) /\ Stopping(e)
    BY <2>1 DEF Alternate, Stopping
  <2>3. ~Standing("down", e) /\ ~ApStanding("down", e)
    BY <2>1 DEF Standing, ApStanding, Up, ApUp
  <2> QED
    BY <2>2, <2>3 DEF Tells
<1>7. "sta_start" \in Event /\ HasSta("sta") /\ ~HasAp("sta")
  BY DEF Event, HasSta, HasAp
<1>8. /\ evq \in Seq(Event)
      /\ Tells(evq, "down", "down", "idle", IF build.connect_sta THEN "on" ELSE "off", "off")
  <2>1. CASE build.connect_sta
    <3>1. evq = e \o <<"sta_start">>
      BY <1>2, <1>5, <2>1 DEF If
    <3>2. evq = Append(e, "sta_start")
      BY <1>7, <3>1, WithEvent
    <3>3. evq \in Seq(Event)
      BY <1>7, <3>2, Posted
    <3>4. Tells(evq, "down", "down", "idle", "on", "off")
      BY <1>6, <3>2, PostedTells
    <3> QED
      BY <2>1, <3>3, <3>4
  <2>2. CASE ~build.connect_sta
    <3>1. evq = e
      BY <1>2, <1>5, <2>2 DEF If
    <3> QED
      BY <1>6, <2>2, <3>1
  <2> QED
    BY <2>1, <2>2
<1>9. /\ s.suppress_disconnect = FALSE /\ s.softap_started = FALSE /\ s.rxcb = FALSE
      /\ s.station_connected = FALSE /\ s.station_connecting = FALSE
      /\ s.new_config_recvd = FALSE /\ s.wifi_initialized = build.connect_sta
      /\ s.cached_init = Default
  BY <1>2
<1>10. Was = "down" /\ Known = "down" /\ ~Ending
  BY <1>2, <1>9 DEF Was, Known, Ending
<1>11. /\ Act = IF build.connect_sta THEN "on" ELSE "off"
       /\ ApAct = "off"
  BY <1>4, <1>7 DEF Act, ApAct, Active
<1>12. Story
  BY <1>2, <1>4, <1>8, <1>9, <1>10, <1>11 DEF Story, Told
<1>13. Connecting /\ Configs
  BY <1>1, <1>2, <1>4, <1>9 DEF Connecting, Configs
<1>14. TypeOK
  <2>1. s \in Statics
    BY <1>2, <1>3, WifiAssumption DEF Statics
  <2>2. pser \in [pc: {"idle", "connect", "cache", "set"}, cfg: AnyConfig]
    BY <1>2, <1>3 DEF Idle
  <2> QED
    BY <1>1, <1>2, <1>3, <1>4, <1>8, <2>1, <2>2, WifiAssumption DEF TypeOK, Statics, Drivers
<1> QED
  BY <1>12, <1>13, <1>14 DEF WifiInv

(* ... and every step keeps it.                                            *)
LEMMA StepKept == WifiInv /\ [WifiNext]_wifiVars => WifiInv'
<1> SUFFICES ASSUME WifiInv, [WifiNext]_wifiVars PROVE WifiInv'
  OBVIOUS
<1> USE DEF WifiInv
<1>1. CASE UNCHANGED wifiVars
  BY <1>1 DEF TypeOK, Story, Connecting, Configs, Told, Was, Known, Act, ApAct, Active, Ending
<1>2. CASE WifiNext
  <2>1. Story'
    BY <1>2, RequestsStory, EventsStory DEF WifiNext
  <2>2. TypeOK'
    BY <1>2, <2>1, TypesKept DEF Story, Told
  <2>3. Connecting'
    BY <1>2, RequestsConnecting, EventsConnecting DEF WifiNext
  <2>4. Configs'
    <3>1. CASE DrvAir \/ PserialStep
      <4>1. UNCHANGED evt /\ harm \subseteq harm'
        BY <3>1, RequestsLeave, HarmGrows DEF WifiNext
      <4>2. DriverConfigs'
        BY <3>1, DriversConfigs
      <4>3. "late_cache" \notin harm' /\ "set_overtaken" \notin harm' =>
              /\ IF s'.new_config_recvd THEN s'.new_wifi_config = wanted' ELSE drv'.cfg = wanted'
              /\ evt' = "applied" => s'.new_config_recvd /\ drv'.cfg = s'.new_wifi_config
        BY <3>1, <4>1, StationConfigs
      <4> QED
        BY <4>2, <4>3 DEF Configs, DriverConfigs
    <3>2. CASE EventStep
      BY <3>2, EventsConfigs
    <3> QED
      BY <1>2, <3>1, <3>2 DEF WifiNext
  <2> QED
    BY <2>1, <2>2, <2>3, <2>4
<1> QED
  BY <1>1, <1>2

(* So it always holds.                                                     *)
LEMMA WifiInvariant == WifiSpec => []WifiInv
  BY InitKept, StepKept, PTL DEF WifiSpec

(* With nothing to come, what the handler knows is so.                     *)
LEMMA QuietTold ==
  ASSUME Story, Quiet
  PROVE  /\ drv.link = "joined" <=> told = "up"
         /\ ~s.suppress_disconnect /\ ~Ending
         /\ s.softap_started <=> drv.up = "started" /\ HasAp(drv.mode)
         /\ \A f : ~Has(evq, f)
<1>1. evq = <<>> /\ evt = "idle" /\ ~Ending
  BY DEF Quiet, Ending
<1>2. /\ drv.link = "joined" <=> Was = "up"
      /\ ApAct = "on" <=> Known = "up"
      /\ \A f : ~Has(evq, f)
  BY <1>1, AllTold DEF Story, Told
<1>3. ~s.suppress_disconnect
  BY <1>1, <1>2 DEF Story
<1> QED
  BY <1>1, <1>2, <1>3 DEF Was, Known, ApAct

-----------------------------------------------------------------------------
(* Whenever no event is on its way the host knows the link, frames flow    *)
(* exactly then, and both flags say so (event_handler_wifi and the         *)
(* requests of slave_wifi_std.c), however many requests, changes of the    *)
(* link and events there are.                                              *)
THEOREM HostAlwaysKnowsLink == WifiSpec => []HostKnowsLink
<1>1. WifiInv => HostKnowsLink
  <2> SUFFICES ASSUME WifiInv, Quiet
               PROVE  /\ (told = "up") = (drv.link = "joined")
                      /\ s.station_connected = (drv.link = "joined")
                      /\ s.rxcb = s.station_connected
    BY DEF HostKnowsLink
  <2>1. Story /\ s.station_connected \in BOOLEAN /\ evt = "idle"
    BY DEF WifiInv, TypeOK, Quiet
  <2>2. (drv.link = "joined" <=> told = "up") /\ (s.station_connected <=> told = "up")
        /\ s.rxcb = s.station_connected
    BY <2>1, QuietTold DEF Story
  <2> QED
    BY <2>1, <2>2
<1> QED
  BY <1>1, WifiInvariant, PTL

(* No real disconnection is hidden from the host: one is hidden only while *)
(* the one the slave caused itself is on its way (suppress_disconnect).    *)
THEOREM SuppressedIsOwn == WifiSpec => []SuppressHasItsEvent
<1>1. WifiInv => SuppressHasItsEvent
  BY DEF WifiInv, Story, SuppressHasItsEvent, Ending, Has
<1> QED
  BY <1>1, WifiInvariant, PTL

(* Types, and the flags the requests and the handler go by: a station that *)
(* is said to join does, and the soft-AP is up exactly when it is said to  *)
(* be, but for the known exceptions.                                       *)
THEOREM FlagsAreTrue == WifiSpec => []FlagsTrue
<1>1. WifiInv => FlagsTrue
  <2> SUFFICES ASSUME WifiInv PROVE FlagsTrue
    OBVIOUS
  <2>1. ConnectingMeansJoining
    <3> SUFFICES ASSUME Quiet, s.station_connecting,
                        "no_ssid" \notin harm, "connect_twice" \notin harm
                 PROVE  drv.link = "joining"
      BY DEF ConnectingMeansJoining
    <3> QED
      BY QuietTold DEF WifiInv, Connecting, Quiet
  <2>2. SoftApKnown
    <3> SUFFICES ASSUME Quiet
                 PROVE  s.softap_started = (drv.up = "started" /\ HasAp(drv.mode))
      BY DEF SoftApKnown
    <3>1. s.softap_started \in BOOLEAN
      BY DEF WifiInv, TypeOK
    <3>2. s.softap_started <=> drv.up = "started" /\ HasAp(drv.mode)
      BY QuietTold DEF WifiInv
    <3> QED
      BY <3>1, <3>2
  <2> QED
    BY <2>1, <2>2 DEF FlagsTrue, WifiInv
<1> QED
  BY <1>1, WifiInvariant, PTL

(* No configuration that was acknowledged gets lost, neither the station's *)
(* (req_wifi_set_config, applied or cached) nor the driver's               *)
(* (__wrap_esp_wifi_init), but for the known exceptions.                   *)
THEOREM ConfigsAreApplied == WifiSpec => []ConfigsApplied
<1>1. WifiInv => ConfigsApplied
  <2> SUFFICES ASSUME WifiInv PROVE ConfigsApplied
    OBVIOUS
  <2>1. ConfigKept /\ InitConfigApplied
    BY DEF WifiInv, Configs, ConfigKept, InitConfigApplied
  <2>2. CachedConfigApplied
    <3> SUFFICES ASSUME Quiet, drv.link = "joined", s.new_config_recvd
                 PROVE  "late_cache" \in harm \/ "connect_twice" \in harm
      BY DEF CachedConfigApplied
    <3> QED
      BY QuietTold DEF WifiInv, Connecting
  <2> QED
    BY <2>1, <2>2 DEF ConfigsApplied
<1> QED
  BY <1>1, WifiInvariant, PTL

=============================================================================
