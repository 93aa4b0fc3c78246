------------------------ MODULE SlaveRequestsProofs ------------------------
(***************************************************************************)
(* Proofs about the slave's request handlers, for any number of requests   *)
(* and of records, and any families of requests.                           *)
(***************************************************************************)
EXTENDS SlaveRequests, TLAPS, SequenceTheorems, WellFoundedInduction

USE DEF reqVars

-----------------------------------------------------------------------------
(* Queues of commands, by what they hold.                                  *)
Items(q) == {q[j] : j \in 1 .. Len(q)}

(* Joining two queues.                                                     *)
LEMMA ItemsJoin ==
  ASSUME NEW S, NEW p \in Seq(S), NEW q \in Seq(S)
  PROVE  p \o q \in Seq(S) /\ Items(p \o q) = Items(p) \union Items(q)
<1>1. /\ p \o q \in Seq(S)
      /\ Len(p \o q) = Len(p) + Len(q) /\ Len(p) \in Nat /\ Len(q) \in Nat
      /\ \A k \in 1 .. Len(p) : (p \o q)[k] = p[k]
      /\ \A k \in 1 .. Len(q) : (p \o q)[Len(p) + k] = q[k]
  OBVIOUS
<1>2. \A k \in 1 .. Len(p \o q) :
        k \in 1 .. Len(p) \/ (k - Len(p) \in 1 .. Len(q)
                              /\ (p \o q)[k] = q[k - Len(p)])
  <2> SUFFICES ASSUME NEW k \in 1 .. Len(p \o q), k \notin 1 .. Len(p)
               PROVE  k - Len(p) \in 1 .. Len(q)
                      /\ (p \o q)[k] = q[k - Len(p)]
    OBVIOUS
  <2>1. k - Len(p) \in 1 .. Len(q) /\ k = Len(p) + (k - Len(p))
    BY <1>1
  <2> QED
    BY <1>1, <2>1
<1>3. /\ \A k \in 1 .. Len(p) : k \in 1 .. Len(p \o q)
      /\ \A k \in 1 .. Len(q) : Len(p) + k \in 1 .. Len(p \o q)
  BY <1>1
<1>4. Items(p \o q) \subseteq Items(p) \union Items(q)
  BY <1>1, <1>2 DEF Items
<1>5. Items(p) \subseteq Items(p \o q)
  BY <1>1, <1>3 DEF Items
<1>6. Items(q) \subseteq Items(p \o q)
  BY <1>1, <1>3 DEF Items
<1> QED
  BY <1>1, <1>4, <1>5, <1>6

(* Taking the head off a queue.                                            *)
LEMMA ItemsTail ==
  ASSUME NEW S, NEW q \in Seq(S), q # <<>>
  PROVE  /\ Head(q) \in S /\ Tail(q) \in Seq(S) /\ Head(q) \in Items(q)
         /\ Items(Tail(q)) \subseteq Items(q)
         /\ Items(q) \subseteq Items(Tail(q)) \union {Head(q)}
<1>1. /\ Head(q) \in S /\ Tail(q) \in Seq(S) /\ Head(q) = q[1]
      /\ Len(q) \in Nat \ {0} /\ Len(Tail(q)) = Len(q) - 1
      /\ \A k \in 1 .. Len(Tail(q)) : /\ k + 1 \in 1 .. Len(q)
                                      /\ Tail(q)[k] = q[k + 1]
  OBVIOUS
<1>2. 1 \in 1 .. Len(q)
  BY <1>1
<1>3. \A k \in 1 .. Len(q) :
        k = 1 \/ (k - 1 \in 1 .. Len(Tail(q)) /\ Tail(q)[k - 1] = q[k])
  <2> SUFFICES ASSUME NEW k \in 1 .. Len(q), k # 1
               PROVE  k - 1 \in 1 .. Len(Tail(q)) /\ Tail(q)[k - 1] = q[k]
    OBVIOUS
  <2>1. k - 1 \in 1 .. Len(Tail(q)) /\ (k - 1) + 1 = k
    BY <1>1
  <2> QED
    BY <1>1, <2>1
<1>4. Items(q) \subseteq Items(Tail(q)) \union {Head(q)}
  BY <1>1, <1>3 DEF Items
<1>5. Items(Tail(q)) \subseteq Items(q) /\ Head(q) \in Items(q)
  BY <1>1, <1>2 DEF Items
<1> QED
  BY <1>1, <1>4, <1>5

(* One command, or two.                                                    *)
LEMMA ItemsFew ==
  ASSUME NEW S, NEW a \in S, NEW b \in S
  PROVE  /\ <<a>> \in Seq(S) /\ Items(<<a>>) = {a}
         /\ <<a, b>> \in Seq(S) /\ Items(<<a, b>>) = {a, b}
<1>1. <<a>> \in Seq(S) /\ Items(<<a>>) = {a}
  <2>1. <<a>> \in Seq(S) /\ Len(<<a>>) = 1 /\ <<a>>[1] = a
    OBVIOUS
  <2> QED
    BY <2>1 DEF Items
<1>2. <<a, b>> \in Seq(S) /\ Items(<<a, b>>) = {a, b}
  <2>1. <<a, b>> \in Seq(S) /\ Len(<<a, b>>) = 2 /\ <<a, b>>[1] = a
        /\ <<a, b>>[2] = b
    OBVIOUS
  <2>2. 1 .. 2 = {1, 2}
    OBVIOUS
  <2> QED
    BY <2>1, <2>2 DEF Items
<1> QED
  BY <1>1, <1>2

(* One more.                                                               *)
LEMMA ItemsMore ==
  ASSUME NEW S, NEW q \in Seq(S), NEW a \in S
  PROVE  Append(q, a) \in Seq(S) /\ Items(Append(q, a)) = Items(q) \union {a}
<1>1. /\ Append(q, a) \in Seq(S) /\ Len(q) \in Nat
      /\ Len(Append(q, a)) = Len(q) + 1
      /\ \A k \in 1 .. Len(q) : Append(q, a)[k] = q[k]
      /\ Append(q, a)[Len(q) + 1] = a
  OBVIOUS
<1>2. \A k : k \in 1 .. Len(q) + 1 <=> k \in 1 .. Len(q) \/ k = Len(q) + 1
  BY <1>1
<1> QED
  BY <1>1, <1>2 DEF Items

-----------------------------------------------------------------------------
(* The timers.                                                             *)
Command == [cmd: {"start", "stop", "delete"}, id: Timer]
Timers  == [state: [Timer -> {"none", "created", "active", "deleted"}],
            use: [Timer -> Use], queue: Seq(Command),
            handle: [Use -> Timer \union {NoTimer}],
            asked: [Use -> {"on", "off", "unknown"}]]

(* Commands and handles are of timers there are, each for its own use.     *)
SoundTimers(x) ==
  /\ \A c \in Items(x.queue) : x.state[c.id] # "none"
  /\ \A u \in Use : x.handle[u] # NoTimer =>
       /\ x.use[x.handle[u]] = u
       /\ x.state[x.handle[u]] # "none"

(* A timer no handle refers to is gone, or its deletion is on its way.     *)
Orphans(x, u) ==
  \A t \in Timer : x.use[t] = u /\ t # x.handle[u] =>
    x.state[t] \in {"none", "deleted"} \/ Cmd("delete", t) \in Items(x.queue)

(* The timer a handle refers to is not on its way out.                     *)
Held(x, u) ==
  x.handle[u] # NoTimer =>
    /\ x.state[x.handle[u]] \in {"created", "active"}
    /\ Cmd("stop", x.handle[u]) \notin Items(x.queue)
    /\ Cmd("delete", x.handle[u]) \notin Items(x.queue)

WillRun(x, u) ==
  /\ x.handle[u] # NoTimer
  /\ \/ x.state[x.handle[u]] = "active"
     \/ Cmd("start", x.handle[u]) \in Items(x.queue)

Tidy(x, u) == Orphans(x, u) /\ Held(x, u) /\ (x.asked[u] = "on" <=> WillRun(x, u))

(* A number xTimerCreate can return is the least that is not in use.       *)
LEMMA FreshTimer ==
  ASSUME Unused # {}
  PROVE  Fresh \in Timer /\ tmr.state[Fresh] = "none"
<1>1. Unused \subseteq Nat
  BY RequestsAssumption DEF Unused, Timer
<1>2. \E t \in Unused : \A u \in Unused : ~(<<u, t>> \in OpToRel(<, Nat))
  BY <1>1, NatLessThanWellFounded, WFMin, Zenon
<1>3. \E t \in Unused : \A u \in Unused : t <= u
  <2>1. PICK t \in Unused : \A u \in Unused : ~(<<u, t>> \in OpToRel(<, Nat))
    BY <1>2
  <2>2. ASSUME NEW u \in Unused PROVE t <= u
    <3>1. ~(u < t)
      BY <1>1, <2>1 DEF OpToRel
    <3> QED
      BY <1>1, <3>1
  <2> QED
    BY <2>1, <2>2
<1>4. Fresh \in Unused
  BY <1>3 DEF Fresh
<1> QED
  BY <1>4 DEF Unused

(* A timer that is let go of, with its deletion on the way.                *)
LetGo(x, u, q) == [x EXCEPT !.handle[u] = NoTimer, !.queue = @ \o q]

(* Nothing else changes.                                                   *)
LEMMA Stopped ==
  ASSUME NEW x \in Timers, SoundTimers(x), NEW u \in Use, NEW w \in Use, w # u,
         NEW t \in Timer, t = x.handle[u], t # NoTimer,
         NEW q \in Seq(Command), Cmd("delete", t) \in Items(q),
         Items(q) \subseteq {Cmd("stop", t), Cmd("delete", t)}
  PROVE  /\ LetGo(x, u, q) \in Timers /\ SoundTimers(LetGo(x, u, q))
         /\ LetGo(x, u, q).handle[u] = NoTimer
         /\ LetGo(x, u, q).state = x.state /\ LetGo(x, u, q).asked = x.asked
         /\ Orphans(x, u) => Orphans(LetGo(x, u, q), u)
         /\ Tidy(x, w) => Tidy(LetGo(x, u, q), w)
<1> DEFINE y == LetGo(x, u, q)
<1>1. /\ x.queue \o q \in Seq(Command)
      /\ Items(x.queue \o q) = Items(x.queue) \union Items(q)
  BY ItemsJoin DEF Timers
<1>2. /\ y.state = x.state /\ y.use = x.use /\ y.asked = x.asked
      /\ y.queue = x.queue \o q /\ y.handle = [x.handle EXCEPT ![u] = NoTimer]
      /\ y \in Timers
  BY <1>1 DEF Timers, LetGo
<1> HIDE DEF y
<1>3. y.handle[u] = NoTimer /\ y.handle[w] = x.handle[w]
      /\ \A v \in Use : v = u \/ y.handle[v] = x.handle[v]
  BY <1>2 DEF Timers
<1>4. Cmd("stop", t).id = t /\ Cmd("delete", t).id = t
      /\ Cmd("stop", t).cmd = "stop" /\ Cmd("delete", t).cmd = "delete"
  BY DEF Cmd
<1>5. SoundTimers(y)
  <2>1. \A c \in Items(q) : c.id = t
    BY <1>4
  <2>2. x.state[t] # "none"
    BY DEF SoundTimers
  <2>3. \A c \in Items(y.queue) : y.state[c.id] # "none"
    BY <1>1, <1>2, <2>1, <2>2 DEF SoundTimers
  <2>4. \A v \in Use : y.handle[v] # NoTimer =>
          /\ y.use[y.handle[v]] = v
          /\ y.state[y.handle[v]] # "none"
    BY <1>2, <1>3 DEF SoundTimers
  <2> QED
    BY <2>3, <2>4 DEF SoundTimers
<1>6. Orphans(x, u) => Orphans(y, u)
  BY <1>1, <1>2, <1>3 DEF Orphans
<1>7. x.handle[w] # t
  BY <1>2 DEF SoundTimers
<1>8. \A c \in {"stop", "delete"} : Cmd(c, x.handle[w]) \notin Items(q)
  BY <1>7 DEF Cmd
<1>9. Cmd("start", x.handle[w]) \notin Items(q)
  BY DEF Cmd
<1>10. Tidy(x, w) => Tidy(y, w)
  BY <1>1, <1>2, <1>3, <1>8, <1>9 DEF Tidy, Orphans, Held, WillRun
<1> QED
  BY <1>2, <1>3, <1>5, <1>6, <1>10 DEF y

(* A new timer.                                                            *)
LEMMA Made ==
  ASSUME NEW x \in Timers, SoundTimers(x), NEW u \in Use, NEW w \in Use, w # u,
         Fresh \in Timer, x.state[Fresh] = "none"
  PROVE  /\ Created(x, u) \in Timers /\ SoundTimers(Created(x, u))
         /\ Created(x, u).handle[u] = Fresh /\ Fresh # NoTimer
         /\ Created(x, u).state[Fresh] = "created"
         /\ Created(x, u).queue = x.queue /\ Created(x, u).asked = x.asked
         /\ \A c \in Items(x.queue) : c.id # Fresh
         /\ x.handle[u] = NoTimer /\ Orphans(x, u) => Orphans(Created(x, u), u)
         /\ Tidy(x, w) => Tidy(Created(x, u), w)
<1> DEFINE y == Created(x, u)
<1>1. /\ y.state = [x.state EXCEPT ![Fresh] = "created"]
      /\ y.use = [x.use EXCEPT ![Fresh] = u]
      /\ y.handle = [x.handle EXCEPT ![u] = Fresh]
      /\ y.queue = x.queue /\ y.asked = x.asked /\ y \in Timers
  BY DEF Created, Timers
<1> HIDE DEF y
<1>2. /\ y.state[Fresh] = "created" /\ y.use[Fresh] = u /\ y.handle[u] = Fresh
      /\ \A s \in Timer : s = Fresh \/ (y.state[s] = x.state[s] /\ y.use[s] = x.use[s])
      /\ \A v \in Use : v = u \/ y.handle[v] = x.handle[v]
  BY <1>1 DEF Timers
<1>3. \A c \in Items(x.queue) : c.id # Fresh /\ c.id \in Timer
  <2>1. \A c \in Items(x.queue) : c \in Command
    BY DEF Items, Timers
  <2> QED
    BY <2>1 DEF SoundTimers, Command
<1>4. Fresh # NoTimer
  BY RequestsAssumption DEF Timer, NoTimer
<1>5. SoundTimers(y)
  <2>1. \A c \in Items(y.queue) : y.state[c.id] # "none"
    BY <1>1, <1>2, <1>3 DEF SoundTimers
  <2>2. ASSUME NEW v \in Use, y.handle[v] # NoTimer
        PROVE  y.use[y.handle[v]] = v /\ y.state[y.handle[v]] # "none"
    <3>1. CASE v = u
      BY <1>2, <3>1
    <3>2. CASE v # u
      <4>1. /\ y.handle[v] = x.handle[v] /\ x.handle[v] \in Timer
            /\ x.use[x.handle[v]] = v /\ x.state[x.handle[v]] # "none"
        BY <1>2, <2>2, <3>2 DEF SoundTimers, Timers
      <4> QED
        BY <1>2, <4>1
    <3> QED
      BY <3>1, <3>2
  <2> QED
    BY <2>1, <2>2 DEF SoundTimers
<1>6. x.handle[u] = NoTimer /\ Orphans(x, u) => Orphans(y, u)
  BY <1>1, <1>2 DEF Orphans, Timer, NoTimer
<1>7. Tidy(x, w) => Tidy(y, w)
  <2> SUFFICES ASSUME Tidy(x, w) PROVE Tidy(y, w)
    OBVIOUS
  <2>1. /\ y.handle[w] = x.handle[w]
        /\ x.handle[w] # NoTimer => x.handle[w] \in Timer /\ x.handle[w] # Fresh
    BY <1>2 DEF SoundTimers, Timers
  <2>2. Orphans(y, w)
    BY <1>1, <1>2, <2>1 DEF Tidy, Orphans
  <2>3. Held(y, w) /\ (WillRun(y, w) <=> WillRun(x, w))
    BY <1>1, <1>2, <2>1 DEF Tidy, Held, WillRun
  <2> QED
    BY <1>1, <2>2, <2>3 DEF Tidy
<1> QED
  BY <1>1, <1>2, <1>3, <1>4, <1>5, <1>6, <1>7 DEF y

(* It is started, ...                                                      *)
LEMMA Begun ==
  ASSUME NEW x \in Timers, SoundTimers(x), NEW u \in Use, NEW w \in Use, w # u,
         Fresh \in Timer, x.state[Fresh] = "none"
  PROVE  /\ Started(x, u) \in Timers /\ SoundTimers(Started(x, u))
         /\ x.handle[u] = NoTimer /\ Orphans(x, u) => Tidy(Started(x, u), u)
         /\ Tidy(x, w) => Tidy(Started(x, u), w)
<1> DEFINE y == Created(x, u)
           z == Started(x, u)
           e == Cmd("start", Fresh)
<1>1. /\ y \in Timers /\ SoundTimers(y)
      /\ y.handle[u] = Fresh /\ Fresh # NoTimer
      /\ y.state[Fresh] = "created"
      /\ y.queue = x.queue /\ y.asked = x.asked
      /\ \A c \in Items(x.queue) : c.id # Fresh
      /\ x.handle[u] = NoTimer /\ Orphans(x, u) => Orphans(y, u)
      /\ Tidy(x, w) => Tidy(y, w)
  BY Made
<1>2. e \in Command /\ e.cmd = "start" /\ e.id = Fresh
  BY DEF Cmd, Command
<1>3. z = [y EXCEPT !.queue = Append(@, e), !.asked[u] = "on"]
  BY DEF Started
<1> HIDE DEF y, z, e
<1>4. /\ Append(y.queue, e) \in Seq(Command)
      /\ Items(Append(y.queue, e)) = Items(y.queue) \union {e}
  <2>1. y.queue \in Seq(Command)
    BY <1>1 DEF Timers
  <2> QED
    BY <1>2, <2>1, ItemsMore
<1>5. /\ z.state = y.state /\ z.use = y.use /\ z.handle = y.handle
      /\ Items(z.queue) = Items(y.queue) \union {e}
      /\ z.asked = [y.asked EXCEPT ![u] = "on"] /\ z \in Timers
  BY <1>1, <1>3, <1>4 DEF Timers
<1>6. SoundTimers(z)
  BY <1>1, <1>2, <1>5 DEF SoundTimers
<1>7. z.asked[u] = "on" /\ z.asked[w] = y.asked[w]
  BY <1>1, <1>5 DEF Timers
<1>8. x.handle[u] = NoTimer /\ Orphans(x, u) => Tidy(z, u)
  <2> SUFFICES ASSUME Orphans(y, u) PROVE Tidy(z, u)
    BY <1>1
  <2>1. Orphans(z, u)
    BY <1>5 DEF Orphans
  <2>2. e \in Items(z.queue)
    BY <1>5
  <2>3. \A c \in Items(y.queue) : c.id # Fresh
    BY <1>1
  <2>4. /\ Cmd("stop", Fresh) \notin Items(z.queue)
        /\ Cmd("delete", Fresh) \notin Items(z.queue)
    BY <1>2, <1>5, <2>3 DEF Cmd
  <2>5. Held(z, u) /\ WillRun(z, u)
    BY <1>1, <1>5, <2>2, <2>4 DEF Held, WillRun, e
  <2> QED
    BY <1>7, <2>1, <2>5 DEF Tidy
<1>9. Tidy(x, w) => Tidy(z, w)
  <2> SUFFICES ASSUME Tidy(y, w) PROVE Tidy(z, w)
    BY <1>1
  <2>1. y.handle[w] # Fresh
    BY <1>1 DEF SoundTimers
  <2>2. \A c : Cmd(c, y.handle[w]) \in Items(z.queue)
                 <=> Cmd(c, y.handle[w]) \in Items(y.queue)
    BY <1>2, <1>5, <2>1 DEF Cmd
  <2>3. Orphans(z, w)
    BY <1>5 DEF Tidy, Orphans
  <2>4. Held(z, w) /\ (WillRun(z, w) <=> WillRun(y, w))
    BY <1>5, <2>2 DEF Tidy, Held, WillRun
  <2> QED
    BY <1>7, <2>3, <2>4 DEF Tidy
<1> QED
  BY <1>5, <1>6, <1>8, <1>9 DEF z

(* ... or nothing is to run.                                               *)
LEMMA AskedNot ==
  ASSUME NEW x \in Timers, SoundTimers(x), NEW u \in Use, NEW w \in Use, w # u,
         NEW a \in {"off", "unknown"},
         NEW y, y = [x EXCEPT !.asked[u] = a]
  PROVE  /\ y \in Timers /\ SoundTimers(y)
         /\ Orphans(x, u) /\ Held(x, u) /\ ~WillRun(x, u) => Tidy(y, u)
         /\ Tidy(x, w) => Tidy(y, w)
<1>1. /\ y.state = x.state /\ y.use = x.use /\ y.handle = x.handle
      /\ y.queue = x.queue /\ y.asked = [x.asked EXCEPT ![u] = a] /\ y \in Timers
  BY DEF Timers
<1>2. y.asked[u] # "on" /\ y.asked[w] = x.asked[w]
  BY <1>1 DEF Timers
<1> QED
  BY <1>1, <1>2 DEF SoundTimers, Tidy, Orphans, Held, WillRun

(* The invariant of the timers: without exception for the memory monitor.  *)
TimersKept ==
  /\ tmr \in Timers /\ SoundTimers(tmr)
  /\ Tidy(tmr, "mm")
  /\ "start_pending" \notin harm => Tidy(tmr, "hb")

(* stop_heartbeat, on a timer that runs or when there is none, ...         *)
LEMMA HeartbeatStopped ==
  ASSUME TimersKept, NEW y, y = StopHeartbeat(tmr.handle["hb"])
  PROVE  /\ y \in Timers /\ SoundTimers(y) /\ y.state = tmr.state
         /\ Tidy(y, "mm")
         /\ Orphans(tmr, "hb") => Orphans(y, "hb")
         /\ ~(tmr.handle["hb"] # NoTimer /\ ~Active(tmr.handle["hb"])) =>
              y.handle["hb"] = NoTimer
<1> DEFINE t == tmr.handle["hb"]
<1>1. "hb" \in Use /\ "mm" \in Use /\ "mm" # "hb"
  BY DEF Use
<1>2. CASE ~Active(t)
  BY <1>2 DEF TimersKept, StopHeartbeat
<1>3. CASE Active(t)
  <2> DEFINE q == <<Cmd("stop", t), Cmd("delete", t)>>
  <2>1. t # NoTimer /\ t \in Timer
    BY <1>1, <1>3 DEF Active, TimersKept, Timers
  <2>2. Cmd("stop", t) \in Command /\ Cmd("delete", t) \in Command
    BY <2>1 DEF Cmd, Command
  <2>3. q \in Seq(Command) /\ Items(q) = {Cmd("stop", t), Cmd("delete", t)}
    BY <2>2, ItemsFew
  <2>4. y = LetGo(tmr, "hb", q)
    BY <1>3 DEF StopHeartbeat, LetGo
  <2> HIDE DEF q
  <2>5. /\ y \in Timers /\ SoundTimers(y) /\ y.handle["hb"] = NoTimer
        /\ y.state = tmr.state
        /\ Orphans(tmr, "hb") => Orphans(y, "hb")
        /\ Tidy(tmr, "mm") => Tidy(y, "mm")
    <3>1. /\ tmr \in Timers /\ SoundTimers(tmr) /\ t = tmr.handle["hb"]
          /\ Cmd("delete", t) \in Items(q)
          /\ Items(q) \subseteq {Cmd("stop", t), Cmd("delete", t)}
      BY <2>3 DEF TimersKept
    <3> HIDE DEF t
    <3> QED
      BY <1>1, <2>1, <2>3, <2>4, <3>1, Stopped
  <2> QED
    BY <2>5 DEF TimersKept
<1> QED
  BY <1>2, <1>3

(* ... and mem_monitor_setup, in any state.                                *)
LEMMA MonitorStopped ==
  ASSUME TimersKept, NEW y, y = StopMonitor(tmr.handle["mm"])
  PROVE  /\ y \in Timers /\ SoundTimers(y) /\ y.state = tmr.state
         /\ Tidy(tmr, "hb") => Tidy(y, "hb")
         /\ Orphans(y, "mm") /\ y.handle["mm"] = NoTimer
<1> DEFINE t == tmr.handle["mm"]
<1>1. "hb" \in Use /\ "mm" \in Use /\ "mm" # "hb"
  BY DEF Use
<1>2. CASE t = NoTimer
  BY <1>2 DEF TimersKept, StopMonitor, Tidy
<1>3. CASE t # NoTimer
  <2> DEFINE p == IF Active(t) THEN <<Cmd("stop", t)>> ELSE <<>>
             d == <<Cmd("delete", t)>>
  <2>1. t \in Timer
    BY <1>1, <1>3 DEF TimersKept, Timers
  <2>2. Cmd("stop", t) \in Command /\ Cmd("delete", t) \in Command
    BY <2>1 DEF Cmd, Command
  <2>3. /\ d \in Seq(Command) /\ Items(d) = {Cmd("delete", t)}
        /\ <<Cmd("stop", t)>> \in Seq(Command)
        /\ Items(<<Cmd("stop", t)>>) = {Cmd("stop", t)}
    BY <2>2, ItemsFew
  <2>4. <<>> \in Seq(Command) /\ Items(<<>>) = {}
    BY DEF Items
  <2>5. p \in Seq(Command) /\ Items(p) \subseteq {Cmd("stop", t)}
    BY <2>3, <2>4
  <2>6. y = [tmr EXCEPT !.handle["mm"] = NoTimer, !.queue = @ \o p \o d]
    BY <1>3 DEF StopMonitor
  <2> HIDE DEF p, d
  <2>7. /\ p \o d \in Seq(Command) /\ Items(p \o d) = Items(p) \union Items(d)
    BY <2>3, <2>5, ItemsJoin
  <2>8. y = LetGo(tmr, "mm", p \o d)
    <3>1. tmr.queue \in Seq(Command)
      BY DEF TimersKept, Timers
    <3>2. \A a, b, c \in Seq(Command) : (a \o b) \o c = a \o (b \o c)
      BY ConcatAssociative, SMTT(60)
    <3>3. tmr.queue \o p \o d = tmr.queue \o (p \o d)
      BY <2>3, <2>5, <3>1, <3>2, Zenon
    <3> QED
      BY <2>6, <3>3 DEF LetGo
  <2>9. /\ y \in Timers /\ SoundTimers(y) /\ y.handle["mm"] = NoTimer
        /\ y.state = tmr.state
        /\ Orphans(tmr, "mm") => Orphans(y, "mm")
        /\ Tidy(tmr, "hb") => Tidy(y, "hb")
    <3> DEFINE q == p \o d
    <3>1. q \in Seq(Command) /\ Cmd("delete", t) \in Items(q)
          /\ Items(q) \subseteq {Cmd("stop", t), Cmd("delete", t)}
      BY <2>3, <2>5, <2>7
    <3>2. y = LetGo(tmr, "mm", q)
      BY <2>8
    <3>3. tmr \in Timers /\ SoundTimers(tmr) /\ t = tmr.handle["mm"]
      BY DEF TimersKept
    <3> HIDE DEF q, t
    <3> QED
      BY <1>1, <1>3, <2>1, <3>1, <3>2, <3>3, Stopped
  <2> QED
    BY <2>9 DEF TimersKept, Tidy
<1> QED
  BY <1>2, <1>3

(* A heartbeat request that finds a timer its task has not started yet     *)
(* says so; any other leaves one timer at most.                            *)
LEMMA HeartbeatKept ==
  ASSUME TimersKept, req_config_heartbeat
  PROVE  TimersKept'
<1> DEFINE x == StopHeartbeat(tmr.handle["hb"])
           pending == tmr.handle["hb"] # NoTimer /\ ~Active(tmr.handle["hb"])
<1>1. "hb" \in Use /\ "mm" \in Use /\ "mm" # "hb"
  BY DEF Use
<1>2. /\ x \in Timers /\ SoundTimers(x) /\ x.state = tmr.state
      /\ Tidy(x, "mm")
      /\ Orphans(tmr, "hb") => Orphans(x, "hb")
      /\ ~pending => x.handle["hb"] = NoTimer
  BY HeartbeatStopped
<1>3. \/ UNCHANGED <<tmr, harm>>
      \/ /\ harm' = IF pending THEN harm \union {"start_pending"} ELSE harm
         /\ \/ tmr' = [x EXCEPT !.asked["hb"] = "off"]
            \/ Unused # {} /\ tmr' = Started(x, "hb")
            \/ tmr' = [x EXCEPT !.asked["hb"] = "unknown", !.handle["hb"] = NoTimer]
            \/ Unused # {} /\ tmr' = [Created(x, "hb") EXCEPT !.asked["hb"] = "unknown"]
  BY DEF req_config_heartbeat, Mark
<1> HIDE DEF x, pending
<1>4. CASE UNCHANGED <<tmr, harm>>
  BY <1>4 DEF TimersKept
<1>5. SUFFICES
        ASSUME \/ tmr' = [x EXCEPT !.asked["hb"] = "off"]
               \/ Unused # {} /\ tmr' = Started(x, "hb")
               \/ tmr' = [x EXCEPT !.asked["hb"] = "unknown",
                                   !.handle["hb"] = NoTimer]
               \/ /\ Unused # {}
                  /\ tmr' = [Created(x, "hb") EXCEPT !.asked["hb"] = "unknown"]
        PROVE  /\ tmr' \in Timers /\ SoundTimers(tmr') /\ Tidy(tmr', "mm")
               /\ x.handle["hb"] = NoTimer /\ Orphans(x, "hb") =>
                    Tidy(tmr', "hb")
  <2>1. ASSUME harm' = IF pending THEN harm \union {"start_pending"} ELSE harm,
               tmr' \in Timers, SoundTimers(tmr'), Tidy(tmr', "mm"),
               x.handle["hb"] = NoTimer /\ Orphans(x, "hb") => Tidy(tmr', "hb")
        PROVE  TimersKept'
    <3>1. ASSUME "start_pending" \notin harm' PROVE Tidy(tmr', "hb")
      <4>1. ~pending /\ "start_pending" \notin harm
        BY <2>1, <3>1
      <4> QED
        BY <1>2, <2>1, <4>1 DEF TimersKept, Tidy
    <3> QED
      BY <2>1, <3>1 DEF TimersKept
  <2> QED
    BY <1>3, <1>4, <2>1
<1>6. Unused # {} => Fresh \in Timer /\ x.state[Fresh] = "none"
  BY <1>2, FreshTimer
<1>7. CASE tmr' = [x EXCEPT !.asked["hb"] = "off"]
  <2>1. /\ tmr' \in Timers /\ SoundTimers(tmr') /\ Tidy(tmr', "mm")
        /\ Orphans(x, "hb") /\ Held(x, "hb") /\ ~WillRun(x, "hb") =>
             Tidy(tmr', "hb")
    BY <1>1, <1>2, <1>7, AskedNot
  <2> QED
    BY <2>1 DEF Held, WillRun
<1>8. CASE Unused # {} /\ tmr' = Started(x, "hb")
  <2>1. Fresh \in Timer /\ x.state[Fresh] = "none"
    BY <1>6, <1>8
  <2> QED
    BY <1>1, <1>2, <1>8, <2>1, Begun
<1>9. CASE tmr' = [x EXCEPT !.asked["hb"] = "unknown", !.handle["hb"] = NoTimer]
  <2>1. /\ tmr'.state = x.state /\ tmr'.use = x.use /\ tmr'.queue = x.queue
        /\ tmr'.handle = [x.handle EXCEPT !["hb"] = NoTimer]
        /\ tmr'.asked = [x.asked EXCEPT !["hb"] = "unknown"]
        /\ tmr' \in Timers
    BY <1>2, <1>9 DEF Timers
  <2>2. /\ tmr'.handle["hb"] = NoTimer /\ tmr'.handle["mm"] = x.handle["mm"]
        /\ tmr'.asked["hb"] # "on" /\ tmr'.asked["mm"] = x.asked["mm"]
    BY <1>1, <1>2, <2>1 DEF Timers
  <2>3. \A u \in Use : u = "hb" \/ u = "mm"
    BY DEF Use
  <2>4. SoundTimers(tmr')
    BY <1>2, <2>1, <2>2, <2>3 DEF SoundTimers
  <2>5. Tidy(tmr', "mm")
    BY <1>2, <2>1, <2>2 DEF Tidy, Orphans, Held, WillRun
  <2>6. x.handle["hb"] = NoTimer /\ Orphans(x, "hb") => Tidy(tmr', "hb")
    BY <2>1, <2>2 DEF Tidy, Orphans, Held, WillRun
  <2> QED
    BY <2>1, <2>4, <2>5, <2>6
<1>10. CASE Unused # {}
            /\ tmr' = [Created(x, "hb") EXCEPT !.asked["hb"] = "unknown"]
  <2> DEFINE y == Created(x, "hb")
  <2>1. /\ y \in Timers /\ SoundTimers(y)
        /\ y.handle["hb"] = Fresh /\ Fresh # NoTimer
        /\ y.state[Fresh] = "created" /\ y.queue = x.queue
        /\ \A c \in Items(x.queue) : c.id # Fresh
        /\ x.handle["hb"] = NoTimer /\ Orphans(x, "hb") => Orphans(y, "hb")
        /\ Tidy(y, "mm")
    BY <1>1, <1>2, <1>6, <1>10, Made
  <2>2. tmr' = [y EXCEPT !.asked["hb"] = "unknown"]
    BY <1>10
  <2> HIDE DEF y
  <2>3. Held(y, "hb") /\ ~WillRun(y, "hb")
    <3>1. \A c : Cmd(c, Fresh) \notin Items(y.queue)
      BY <2>1 DEF Cmd
    <3> QED
      BY <2>1, <3>1 DEF Held, WillRun
  <2>4. /\ tmr' \in Timers /\ SoundTimers(tmr')
        /\ Orphans(y, "hb") /\ Held(y, "hb") /\ ~WillRun(y, "hb") =>
             Tidy(tmr', "hb")
        /\ Tidy(y, "mm") => Tidy(tmr', "mm")
    BY <1>1, <2>1, <2>2, AskedNot
  <2> QED
    BY <2>1, <2>3, <2>4
<1> QED
  BY <1>5, <1>7, <1>8, <1>9, <1>10

(* A memory monitor request always leaves one timer at most.               *)
LEMMA MonitorKept ==
  ASSUME TimersKept, req_mem_monitor
  PROVE  TimersKept'
<1> DEFINE x == StopMonitor(tmr.handle["mm"])
<1>1. "hb" \in Use /\ "mm" \in Use /\ "mm" # "hb"
  BY DEF Use
<1>2. /\ x \in Timers /\ SoundTimers(x) /\ x.state = tmr.state
      /\ Tidy(tmr, "hb") => Tidy(x, "hb")
      /\ Orphans(x, "mm") /\ x.handle["mm"] = NoTimer
  BY MonitorStopped
<1>3. /\ \/ tmr' = tmr
         \/ \E a \in {"off", "unknown"} : tmr' = [x EXCEPT !.asked["mm"] = a]
         \/ Unused # {} /\ tmr' = Started(x, "mm")
      /\ "start_pending" \in harm' <=> "start_pending" \in harm
  <2>1. "start_pending" \in harm' <=> "start_pending" \in harm
    BY DEF req_mem_monitor, Filled, Mark
  <2> QED
    BY <2>1 DEF req_mem_monitor
<1> HIDE DEF x
<1>4. CASE tmr' = tmr
  BY <1>3, <1>4 DEF TimersKept
<1>5. ASSUME NEW a \in {"off", "unknown"}, tmr' = [x EXCEPT !.asked["mm"] = a]
      PROVE  TimersKept'
  <2>1. Held(x, "mm") /\ ~WillRun(x, "mm")
    BY <1>2 DEF Held, WillRun
  <2>2. /\ tmr' \in Timers /\ SoundTimers(tmr') /\ Tidy(tmr', "mm")
        /\ Tidy(x, "hb") => Tidy(tmr', "hb")
    BY <1>1, <1>2, <1>5, <2>1, AskedNot
  <2> QED
    BY <1>2, <1>3, <2>2 DEF TimersKept
<1>6. CASE Unused # {} /\ tmr' = Started(x, "mm")
  <2>1. Fresh \in Timer /\ x.state[Fresh] = "none"
    BY <1>2, <1>6, FreshTimer
  <2>2. /\ tmr' \in Timers /\ SoundTimers(tmr') /\ Tidy(tmr', "mm")
        /\ Tidy(x, "hb") => Tidy(tmr', "hb")
    BY <1>1, <1>2, <1>6, <2>1, Begun
  <2> QED
    BY <1>2, <1>3, <2>2 DEF TimersKept
<1> QED
  BY <1>3, <1>4, <1>5, <1>6

(* The timer task carries out one command.                                 *)
LEMMA TimerTaskKept ==
  ASSUME TimersKept, TimerTask
  PROVE  TimersKept'
<1>1. tmr \in Timers /\ SoundTimers(tmr) /\ tmr.queue \in Seq(Command)
  BY DEF TimersKept, Timers
<1> DEFINE c == Head(tmr.queue)
           s == IF tmr.state[c.id] = "deleted" THEN "deleted" ELSE Becomes[c.cmd]
<1>2. tmr.queue # <<>> /\ UNCHANGED harm
      /\ tmr' = [tmr EXCEPT !.queue = Tail(@), !.state[c.id] = s]
  BY DEF TimerTask
<1>3. /\ c \in Command /\ Tail(tmr.queue) \in Seq(Command)
      /\ c \in Items(tmr.queue)
      /\ Items(Tail(tmr.queue)) \subseteq Items(tmr.queue)
      /\ Items(tmr.queue) \subseteq Items(Tail(tmr.queue)) \union {c}
  BY <1>1, <1>2, ItemsTail
<1>4. c.id \in Timer /\ c.cmd \in {"start", "stop", "delete"}
      /\ c = Cmd(c.cmd, c.id)
  BY <1>3 DEF Command, Cmd
<1> HIDE DEF c
<1>5. /\ s \in {"created", "active", "deleted"}
      /\ tmr.state[c.id] = "deleted" => s = "deleted"
      /\ tmr.state[c.id] # "deleted" /\ c.cmd = "start" => s = "active"
      /\ tmr.state[c.id] # "deleted" /\ c.cmd = "stop" => s = "created"
      /\ tmr.state[c.id] # "deleted" /\ c.cmd = "delete" => s = "deleted"
  <2>1. /\ Becomes["start"] = "active" /\ Becomes["stop"] = "created"
        /\ Becomes["delete"] = "deleted"
    BY DEF Becomes
  <2> QED
    BY <1>4, <2>1
<1> HIDE DEF s
<1>6. /\ tmr'.state = [tmr.state EXCEPT ![c.id] = s] /\ tmr'.use = tmr.use
      /\ tmr'.queue = Tail(tmr.queue) /\ tmr'.handle = tmr.handle
      /\ tmr'.asked = tmr.asked /\ tmr' \in Timers
  BY <1>1, <1>2, <1>3, <1>4, <1>5 DEF Timers
<1>7. /\ tmr'.state[c.id] = s
      /\ \A t \in Timer : t = c.id \/ tmr'.state[t] = tmr.state[t]
      /\ tmr.state[c.id] # "none"
  BY <1>1, <1>3, <1>4, <1>6 DEF Timers, SoundTimers
<1>8. SoundTimers(tmr')
  <2>1. \A d \in Items(tmr.queue) : d.id \in Timer
    <3>1. \A d \in Items(tmr.queue) : d \in Command
      BY <1>1 DEF Items
    <3> QED
      BY <3>1 DEF Command
  <2>2. \A d \in Items(tmr'.queue) : tmr'.state[d.id] # "none"
    BY <1>1, <1>3, <1>5, <1>6, <1>7, <2>1 DEF SoundTimers
  <2>3. ASSUME NEW u \in Use, tmr'.handle[u] # NoTimer
        PROVE  /\ tmr'.use[tmr'.handle[u]] = u
               /\ tmr'.state[tmr'.handle[u]] # "none"
    <3>1. tmr.handle[u] \in Timer
      BY <1>1, <1>6, <2>3 DEF Timers
    <3> QED
      BY <1>1, <1>5, <1>6, <1>7, <2>3, <3>1 DEF SoundTimers
  <2> QED
    BY <2>2, <2>3 DEF SoundTimers
<1>9. ASSUME NEW u \in Use, Tidy(tmr, u) PROVE Tidy(tmr', u)
  <2>1. Orphans(tmr', u)
    <3> SUFFICES ASSUME NEW t \in Timer, tmr.use[t] = u, t # tmr.handle[u]
                 PROVE  tmr'.state[t] \in {"none", "deleted"}
                        \/ Cmd("delete", t) \in Items(tmr'.queue)
      BY <1>6 DEF Orphans
    <3>1. \/ tmr.state[t] \in {"none", "deleted"}
          \/ Cmd("delete", t) \in Items(tmr.queue)
      BY <1>9 DEF Tidy, Orphans
    <3>2. CASE t = c.id
      <4>1. CASE tmr.state[t] \in {"none", "deleted"}
        BY <1>5, <1>7, <3>2, <4>1
      <4>2. CASE Cmd("delete", t) \in Items(Tail(tmr.queue))
        BY <1>6, <4>2
      <4>3. CASE Cmd("delete", t) = c
        BY <1>5, <1>7, <3>2, <4>3 DEF Cmd
      <4> QED
        BY <1>3, <3>1, <4>1, <4>2, <4>3
    <3>3. CASE t # c.id
      <4>1. Cmd("delete", t) # c
        BY <3>3 DEF Cmd
      <4> QED
        BY <1>3, <1>6, <1>7, <3>1, <3>3, <4>1
    <3> QED
      BY <3>2, <3>3
  <2>2. CASE tmr.handle[u] = NoTimer
    BY <1>6, <1>9, <2>1, <2>2 DEF Tidy, Held, WillRun
  <2>3. CASE tmr.handle[u] # NoTimer
    <3> DEFINE h == tmr.handle[u]
    <3>1. /\ h \in Timer /\ tmr.state[h] \in {"created", "active"}
          /\ Cmd("stop", h) \notin Items(tmr.queue)
          /\ Cmd("delete", h) \notin Items(tmr.queue)
      BY <1>1, <1>9, <2>3 DEF Tidy, Held, Timers
    <3> HIDE DEF h
    <3>2. tmr'.handle[u] = h /\ h # NoTimer
      BY <1>6, <2>3 DEF h
    <3>3. CASE h = c.id
      <4>1. c = Cmd("start", h)
        BY <1>3, <1>4, <3>1, <3>3
      <4>2. tmr'.state[h] = "active"
        BY <1>5, <1>7, <3>1, <3>3, <4>1 DEF Cmd
      <4>3. WillRun(tmr, u)
        BY <1>3, <2>3, <4>1 DEF WillRun, h
      <4>4. Held(tmr', u) /\ WillRun(tmr', u)
        BY <1>3, <1>6, <3>1, <3>2, <4>2 DEF Held, WillRun
      <4> QED
        BY <1>6, <1>9, <2>1, <4>3, <4>4 DEF Tidy
    <3>4. CASE h # c.id
      <4>1. \A k : Cmd(k, h) # c
        BY <3>4 DEF Cmd
      <4>2. \A k : Cmd(k, h) \in Items(tmr'.queue)
                     <=> Cmd(k, h) \in Items(tmr.queue)
        BY <1>3, <1>6, <4>1
      <4>3. tmr'.state[h] = tmr.state[h]
        BY <1>7, <3>1, <3>4
      <4>4. Held(tmr', u)
        BY <3>1, <3>2, <4>2, <4>3 DEF Held
      <4>5. WillRun(tmr', u) <=> WillRun(tmr, u)
        BY <3>2, <4>2, <4>3 DEF WillRun, h
      <4> QED
        BY <1>6, <1>9, <2>1, <4>4, <4>5 DEF Tidy
    <3> QED
      BY <3>3, <3>4
  <2> QED
    BY <2>2, <2>3
<1>10. "hb" \in Use /\ "mm" \in Use
  BY DEF Use
<1> QED
  BY <1>2, <1>6, <1>8, <1>9, <1>10 DEF TimersKept

(* With no command left, exactly the timer that was asked for runs.        *)
LEMMA OneRuns ==
  ASSUME tmr \in Timers, NEW u \in Use, Tidy(tmr, u), SoundTimers(tmr),
         tmr.queue = <<>>
  PROVE  {t \in Timer : Active(t) /\ tmr.use[t] = u}
           = IF tmr.asked[u] = "on" THEN {tmr.handle[u]} ELSE {}
<1>1. Items(tmr.queue) = {}
  BY DEF Items
<1>2. ASSUME NEW t \in Timer, Active(t), tmr.use[t] = u
      PROVE  t = tmr.handle[u] /\ tmr.asked[u] = "on"
  <2>1. t = tmr.handle[u]
    BY <1>1, <1>2 DEF Tidy, Orphans, Active
  <2> QED
    BY <1>2, <2>1 DEF Tidy, WillRun, Active
<1>3. ASSUME tmr.asked[u] = "on"
      PROVE  /\ tmr.handle[u] \in Timer /\ Active(tmr.handle[u])
             /\ tmr.use[tmr.handle[u]] = u
  BY <1>1, <1>3 DEF Tidy, WillRun, Active, SoundTimers, Timers
<1> QED
  BY <1>2, <1>3

-----------------------------------------------------------------------------
(* Every action keeps to its family's state.                               *)
LEMMA Apart ==
  /\ OtaNext => OtaOnly
  /\ TimersNext => TimersOnly
  /\ BtNext => BtOnly
  /\ EapNext => EapOnly
  /\ ScanNext => ScanOnly
  /\ PlainNext => PlainOnly
<1>1. OtaNext => OtaOnly
  BY DEF OtaNext, req_ota_begin_handler, req_ota_write_handler, req_ota_end_handler,
         req_ota_activate_handler, vTimerCallback
<1>2. TimersNext => TimersOnly
  BY DEF TimersNext, req_config_heartbeat, req_mem_monitor, TimerTask
<1>3. BtNext => BtOnly
  BY DEF BtNext, init_bluetooth, enable_bluetooth, disable_bluetooth, deinit_bluetooth,
         DeinitWaits, process_hci_rx_pkt, controller_rcv_pkt_ready
<1>4. EapNext => EapOnly
  BY DEF EapNext, req_eap_set_credential, req_eap_clear_credential,
         req_wifi_sta_enterprise_disable, req_eap_set_password,
         req_eap_clear_password, req_eap_set_new_password, req_eap_clear_new_password
<1>5. ScanNext => ScanOnly
  BY DEF ScanNext, req_wifi_scan_start, req_wifi_clear_ap_list,
         req_wifi_scan_get_ap_record, req_wifi_scan_get_ap_records,
         req_wifi_ap_get_sta_list
<1>6. PlainNext => PlainOnly
  BY DEF PlainNext, plain_request, req_iface_mac_addr_set, gpio_request
<1> QED
  BY <1>1, <1>2, <1>3, <1>4, <1>5, <1>6

(* The request counted, what it is answered, and the hazards met.          *)
Basics ==
  /\ family \in Families /\ reqs \in 0 .. MaxRequest /\ harm \subseteq Harm
  /\ answer \in [resp: {"ok", "fail", "none"}, done: BOOLEAN]

Honest(a, h) ==
  h \intersect {"not_ready", "no_list", "wrong_call", "copy_failed", "late_failure"} = {}
    => a.resp = "none" \/ (a.resp = "ok") = a.done

(* Hazards are remembered, requests are counted, and every request that is *)
(* answered otherwise than it was carried out is one of the exceptions.    *)
Truths == {[resp |-> "ok", done |-> TRUE], [resp |-> "fail", done |-> FALSE],
           [resp |-> "none", done |-> FALSE]}
Lies   == {[resp |-> "ok", done |-> FALSE], [resp |-> "fail", done |-> TRUE]}

Goes ==
  /\ harm \subseteq harm' /\ harm' \subseteq Harm /\ UNCHANGED family
  /\ reqs' = reqs \/ (reqs' = reqs + 1 /\ reqs < MaxRequest)
  /\ \/ answer' = answer
     \/ answer' \in Truths
     \/ /\ answer' \in Lies
        /\ \E h \in {"not_ready", "no_list", "wrong_call", "copy_failed", "late_failure"} : h \in harm'

(* So the answer is honest after a request.                                *)
LEMMA StaysHonest ==
  ASSUME Basics, Honest(answer, harm), Goes
  PROVE  Basics' /\ Honest(answer', harm')
<1>1. /\ Truths \subseteq [resp: {"ok", "fail", "none"}, done: BOOLEAN]
      /\ Lies \subseteq [resp: {"ok", "fail", "none"}, done: BOOLEAN]
  BY DEF Truths, Lies
<1>2. Basics'
  BY <1>1, RequestsAssumption DEF Basics, Goes
<1>3. \A a \in Truths : a.resp = "none" \/ (a.resp = "ok") = a.done
  <2>1. ASSUME NEW a, a = [resp |-> "ok", done |-> TRUE]
        PROVE  (a.resp = "ok") = a.done
    <3>1. a.resp = "ok"
      BY <2>1
    <3>2. a.done = TRUE
      BY <2>1, Zenon
    <3> QED
      BY <3>1, <3>2, Zenon
  <2>2. ASSUME NEW a, a = [resp |-> "fail", done |-> FALSE]
        PROVE  (a.resp = "ok") = a.done
    <3>1. a.resp # "ok"
      BY <2>2
    <3>2. a.done = FALSE
      BY <2>2, Zenon
    <3> QED
      BY <3>1, <3>2, Zenon
  <2>3. [resp |-> "none", done |-> FALSE].resp = "none"
    OBVIOUS
  <2> QED
    BY <2>1, <2>2, <2>3, Zenon DEF Truths
<1>4. Honest(answer', harm')
  BY <1>3 DEF Goes, Honest
<1> QED
  BY <1>2, <1>4

(* The firmware update's requests.                                         *)
LEMMA OtaGoes == ASSUME Basics, OtaNext PROVE Goes
<1> USE DEF Basics, Goes, Truths, Lies, Request, Answer, Mark, Harm
<1>1. ASSUME NEW b \in BOOLEAN, req_ota_begin_handler(b) PROVE Goes
  BY <1>1 DEF req_ota_begin_handler
<1>2. ASSUME NEW k \in Chunk, req_ota_write_handler(k) PROVE Goes
  BY <1>2 DEF req_ota_write_handler
<1>3. CASE req_ota_end_handler
  BY <1>3 DEF req_ota_end_handler
<1>4. CASE req_ota_activate_handler
  BY <1>4 DEF req_ota_activate_handler
<1>5. CASE vTimerCallback
  BY <1>5 DEF vTimerCallback
<1> QED
  BY <1>1, <1>2, <1>3, <1>4, <1>5 DEF OtaNext

(* The timers' requests, and the timer task.                               *)
LEMMA TimersGoes == ASSUME Basics, TimersNext PROVE Goes
<1> USE DEF Basics, Goes, Truths, Lies, Request, Answer, Mark, Harm
<1>1. CASE req_config_heartbeat
  BY <1>1 DEF req_config_heartbeat
<1>2. CASE req_mem_monitor
  BY <1>2 DEF req_mem_monitor, Filled
<1>3. CASE TimerTask
  BY <1>3 DEF TimerTask
<1> QED
  BY <1>1, <1>2, <1>3 DEF TimersNext

(* Bluetooth's requests, its packets and its controller.                   *)
LEMMA BtGoes == ASSUME Basics, BtNext PROVE Goes
<1> USE DEF Basics, Goes, Truths, Lies, Request, Answer, Mark, Harm
<1>1. CASE init_bluetooth
  BY <1>1 DEF init_bluetooth
<1>2. CASE enable_bluetooth
  BY <1>2 DEF enable_bluetooth
<1>3. CASE disable_bluetooth
  BY <1>3 DEF disable_bluetooth
<1>4. CASE deinit_bluetooth
  <2>1. PICK r \in DeinitResult :
          /\ answer' = [resp |-> IF r = "ok" THEN "ok" ELSE "fail", done |-> r # "failed"]
          /\ harm' = harm \union (CASE r = "failed" -> {"no_sem"}
                                    [] r = "not_released" -> {"late_failure"}
                                    [] OTHER -> {})
    BY <1>4 DEF deinit_bluetooth
  <2>2. r \in {"ok", "failed", "not_released"}
    BY DEF DeinitResult
  <2>3. /\ UNCHANGED family
        /\ reqs' = reqs \/ (reqs' = reqs + 1 /\ reqs < MaxRequest)
    BY <1>4 DEF deinit_bluetooth
  <2>4. CASE r = "ok"
    <3>1. harm' = harm
      BY <2>1, <2>4
    <3> QED
      BY <2>1, <2>3, <2>4, <3>1
  <2>5. CASE r = "failed"
    <3>1. harm' = harm \union {"no_sem"}
      BY <2>1, <2>5
    <3> QED
      BY <2>1, <2>3, <2>5, <3>1
  <2>6. CASE r = "not_released"
    <3>1. harm' = harm \union {"late_failure"}
      BY <2>1, <2>6
    <3> QED
      BY <2>1, <2>3, <2>6, <3>1
  <2> QED
    BY <2>2, <2>4, <2>5, <2>6
<1>5. CASE DeinitWaits
  BY <1>5 DEF DeinitWaits
<1>6. CASE process_hci_rx_pkt
  BY <1>6 DEF process_hci_rx_pkt
<1>7. CASE controller_rcv_pkt_ready
  BY <1>7 DEF controller_rcv_pkt_ready
<1> QED
  BY <1>1, <1>2, <1>3, <1>4, <1>5, <1>6, <1>7 DEF BtNext

(* The credentials' requests.                                              *)
LEMMA EapGoes == ASSUME Basics, EapNext PROVE Goes
<1> USE DEF Basics, Goes, Truths, Lies, Request, Answer, Mark, Harm
<1>1. ASSUME NEW c \in Cred, req_eap_set_credential(c) PROVE Goes
  BY <1>1 DEF req_eap_set_credential
<1>2. ASSUME NEW c \in Cred, req_eap_clear_credential(c) PROVE Goes
  BY <1>2 DEF req_eap_clear_credential
<1>3. CASE req_wifi_sta_enterprise_disable
  BY <1>3 DEF req_wifi_sta_enterprise_disable
<1>4. CASE req_eap_set_password
  BY <1>4 DEF req_eap_set_password
<1>5. CASE req_eap_clear_password
  BY <1>5 DEF req_eap_clear_password
<1>6. CASE req_eap_set_new_password
  BY <1>6 DEF req_eap_set_new_password
<1>7. CASE req_eap_clear_new_password
  BY <1>7 DEF req_eap_clear_new_password
<1> QED
  BY <1>1, <1>2, <1>3, <1>4, <1>5, <1>6, <1>7 DEF EapNext

(* The scan's requests.                                                    *)
LEMMA ScanGoes == ASSUME Basics, ScanNext PROVE Goes
<1> USE DEF Basics, Goes, Truths, Lies, Request, Answer, Mark, Harm
<1>1. ASSUME NEW n \in 0 .. MaxRecords, req_wifi_scan_start(n) PROVE Goes
  BY <1>1 DEF req_wifi_scan_start
<1>2. CASE req_wifi_clear_ap_list
  BY <1>2 DEF req_wifi_clear_ap_list
<1>3. CASE req_wifi_scan_get_ap_record
  BY <1>3 DEF req_wifi_scan_get_ap_record
<1>4. ASSUME NEW n \in 0 .. MaxRecords, req_wifi_scan_get_ap_records(n) PROVE Goes
  BY <1>4 DEF req_wifi_scan_get_ap_records
<1>5. CASE req_wifi_ap_get_sta_list
  BY <1>5 DEF req_wifi_ap_get_sta_list
<1> QED
  BY <1>1, <1>2, <1>3, <1>4, <1>5 DEF ScanNext

(* The plain requests.                                                     *)
LEMMA PlainGoes == ASSUME Basics, PlainNext PROVE Goes
<1> USE DEF Basics, Goes, Truths, Lies, Request, Answer, Mark, Harm
<1>1. ASSUME NEW h \in Setter \union Getter \union Encoded, plain_request(h) PROVE Goes
  BY <1>1 DEF plain_request, Called
<1>2. CASE req_iface_mac_addr_set
  BY <1>2 DEF req_iface_mac_addr_set, Filled
<1>3. ASSUME NEW p \in SUBSET Pin, gpio_request(p) PROVE Goes
  BY <1>3 DEF gpio_request
<1> QED
  BY <1>1, <1>2, <1>3 DEF PlainNext

(* All of them.                                                            *)
LEMMA AllGo == ASSUME Basics, ReqNext PROVE Goes
<1>1. CASE Undispatched
  BY <1>1 DEF Undispatched, Basics, Goes, Truths, Answer, NoResponse
<1> QED
  BY <1>1, OtaGoes, TimersGoes, BtGoes, EapGoes, ScanGoes, PlainGoes DEF ReqNext

-----------------------------------------------------------------------------
(* The invariant of the firmware update: what has been written was         *)
(* checked, and nothing is written to a partition that is booted from.     *)
Otas == [status: {"not_started", "in_progress", "failed", "completed", "activated"},
         first: BOOLEAN, written: Seq(Chunk), compatible: BOOLEAN, open: BOOLEAN,
         boot: {"running", "update"}, timer: {"none", "created", "armed"}]

OtaKept ==
  /\ ota \in Otas
  /\ Len(ota.written) <= reqs
  /\ ota.status \in {"completed", "activated"} => ~ota.open
  /\ ota.status = "completed" => Whole
  /\ ota.boot = "update" /\ "begun_again" \notin harm => Whole /\ ~ota.open
  /\ ota.written # <<>> => ota.compatible \/ "check_skipped" \in harm
  /\ ota.open /\ ~ota.first => ota.compatible \/ "check_skipped" \in harm

(* A request that begins, writes, ends or activates.                       *)
LEMMA OtaStep ==
  ASSUME Basics, OtaKept, OtaNext, Goes
  PROVE  OtaKept'
<1>1. /\ harm \subseteq harm' /\ reqs \in Nat /\ reqs' \in Nat /\ reqs <= reqs'
  BY RequestsAssumption DEF Goes, Basics
<1>2. PICK e \in Seq(Chunk) : e = <<>> /\ Len(e) = 0
  BY EmptySeq
<1>3. /\ ota \in Otas /\ ota.written \in Seq(Chunk) /\ Len(ota.written) \in Nat
  BY DEF OtaKept, Otas
<1>4. ASSUME NEW b \in BOOLEAN, req_ota_begin_handler(b) PROVE OtaKept'
  <2>1. CASE ota' = ota
    BY <1>1, <2>1 DEF OtaKept, Whole
  <2>2. CASE /\ ota' = [ota EXCEPT !.status = "in_progress", !.first = TRUE, !.open = TRUE,
                                   !.written = <<>>, !.compatible = b]
             /\ Mark("begun_again", ota.boot = "update")
    <3>1. ota' = [ota EXCEPT !.status = "in_progress", !.first = TRUE, !.open = TRUE,
                             !.written = e, !.compatible = b]
      BY <1>2, <2>2
    <3>2. /\ ota' \in Otas /\ ota'.written = e /\ ota'.first = TRUE /\ ota'.boot = ota.boot
          /\ ota'.status = "in_progress"
      BY <1>2, <1>3, <3>1 DEF Otas
    <3>3. ota'.boot = "update" => "begun_again" \in harm'
      BY <2>2, <3>2 DEF Mark
    <3>4. Len(ota'.written) <= reqs'
      BY <1>1, <1>2, <3>2
    <3> QED
      BY <1>2, <3>2, <3>3, <3>4 DEF OtaKept
  <2> QED
    BY <1>4, <2>1, <2>2 DEF req_ota_begin_handler
<1>5. ASSUME NEW k \in Chunk, req_ota_write_handler(k) PROVE OtaKept'
  <2>1. CASE ota' = [ota EXCEPT !.first = FALSE] /\ FirstCheck(k) /\ "check_skipped" \in harm'
    <3>1. /\ ota' \in Otas /\ ota'.written = ota.written /\ ota'.status = ota.status
          /\ ota'.open = ota.open /\ ota'.boot = ota.boot
          /\ ota'.compatible = ota.compatible
      BY <1>3, <2>1 DEF Otas
    <3> QED
      BY <1>1, <2>1, <3>1 DEF OtaKept, Whole
  <2>2. CASE ota' = [ota EXCEPT !.first = FALSE] /\ ~FirstCheck(k)
    <3>1. /\ ota' \in Otas /\ ota'.written = ota.written /\ ota'.status = ota.status
          /\ ota'.open = ota.open /\ ota'.boot = ota.boot
          /\ ota'.compatible = ota.compatible
      BY <1>3, <2>2 DEF Otas
    <3> QED
      BY <1>1, <2>2, <3>1 DEF OtaKept, Whole, FirstCheck
  <2>3. CASE /\ ~FirstCheck(k) /\ ota.open /\ reqs' = reqs + 1
             /\ ota' = [ota EXCEPT !.first = FALSE, !.written = Append(@, k)]
    <3>1. /\ Append(ota.written, k) \in Seq(Chunk)
          /\ Len(Append(ota.written, k)) = Len(ota.written) + 1
      BY <1>3
    <3>2. /\ ota' \in Otas /\ ota'.written = Append(ota.written, k)
          /\ ota'.status = ota.status /\ ota'.open = ota.open /\ ota'.boot = ota.boot
          /\ ota'.compatible = ota.compatible
      BY <1>3, <2>3, <3>1 DEF Otas
    <3>3. Len(ota'.written) <= reqs'
      BY <1>1, <1>3, <2>3, <3>1, <3>2 DEF OtaKept
    <3>4. ota.compatible \/ "check_skipped" \in harm
      BY <2>3 DEF OtaKept, FirstCheck
    <3>5. ota.status \notin {"completed", "activated"}
          /\ (ota.boot = "update" => "begun_again" \in harm)
      BY <2>3 DEF OtaKept
    <3> QED
      BY <1>1, <3>2, <3>3, <3>4, <3>5 DEF OtaKept
  <2> QED
    BY <1>5, <2>1, <2>2, <2>3 DEF req_ota_write_handler, Request, Mark
<1>6. CASE req_ota_end_handler
  <2>1. PICK s \in {"completed", "failed"} :
          /\ ota' = [ota EXCEPT !.open = FALSE, !.status = s]
          /\ s = "completed" => Whole
    BY <1>6 DEF req_ota_end_handler
  <2>2. /\ ota' \in Otas /\ ota'.written = ota.written /\ ota'.status = s
        /\ ota'.open = FALSE /\ ota'.boot = ota.boot /\ ota'.first = ota.first
        /\ ota'.compatible = ota.compatible
    BY <1>3, <2>1 DEF Otas
  <2> QED
    BY <1>1, <2>1, <2>2 DEF OtaKept, Whole
<1>7. CASE req_ota_activate_handler
  <2>1. CASE ota' = ota
    BY <1>1, <2>1 DEF OtaKept, Whole
  <2>2. ASSUME NEW timer \in {"none", "created", "armed"}, Ready,
               ota' = [ota EXCEPT !.boot = "update", !.status = "activated", !.timer = timer]
        PROVE  OtaKept'
    <3>1. /\ ota' \in Otas /\ ota'.written = ota.written /\ ota'.status = "activated"
          /\ ota'.open = ota.open /\ ota'.first = ota.first
          /\ ota'.compatible = ota.compatible
      BY <1>3, <2>2 DEF Otas
    <3> QED
      BY <1>1, <2>2, <3>1 DEF OtaKept, Whole, Ready
  <2> QED
    BY <1>7, <2>1, <2>2 DEF req_ota_activate_handler
<1>8. CASE vTimerCallback
  <2>1. ota' = [ota EXCEPT !.timer = "none", !.boot = "running", !.status = "not_started",
                           !.first = FALSE, !.open = FALSE, !.written = e]
    BY <1>2, <1>8 DEF vTimerCallback
  <2>2. /\ ota' \in Otas /\ ota'.written = e /\ ota'.open = FALSE /\ ota'.boot = "running"
        /\ ota'.status = "not_started"
    BY <1>2, <1>3, <2>1 DEF Otas
  <2>3. Len(ota'.written) <= reqs'
    BY <1>1, <1>2, <2>2
  <2> QED
    BY <1>2, <2>2, <2>3 DEF OtaKept
<1> QED
  BY <1>4, <1>5, <1>6, <1>7, <1>8 DEF OtaNext

-----------------------------------------------------------------------------
(* The invariant of Bluetooth: a taken semaphore will be given, or it is   *)
(* known that it will not; and an initialised controller has one.          *)
Bts == [ctrl: {"off", "inited", "enabled"}, sem: {"none", "free", "taken"},
        cb: BOOLEAN, busy: BOOLEAN, waiting: BOOLEAN]

BtKept ==
  /\ bt \in Bts
  /\ bt.sem = "taken" => (bt.busy /\ bt.cb) \/ "never_ready" \in harm
  /\ bt.cb => bt.ctrl = "enabled"
  /\ bt.ctrl # "off" => bt.sem # "none" \/ "no_sem" \in harm
  /\ bt.waiting => bt.sem # "none"

(* A request, a packet, or a controller that is ready again.               *)
LEMMA BtStep ==
  ASSUME BtKept, BtNext, harm \subseteq harm'
  PROVE  BtKept'
<1> USE DEF BtKept, Bts
<1>1. CASE init_bluetooth
  BY <1>1 DEF init_bluetooth, Mark, Request
<1>2. CASE enable_bluetooth
  BY <1>2 DEF enable_bluetooth, Mark, Request
<1>3. CASE disable_bluetooth
  BY <1>3 DEF disable_bluetooth, Mark, Request
<1>4. CASE deinit_bluetooth
  <2>1. PICK r \in DeinitResult :
          bt' = [bt EXCEPT !.sem = "none", !.waiting = FALSE,
                           !.ctrl = IF r = "failed" THEN bt.ctrl ELSE "off"]
          /\ (r = "failed" => "no_sem" \in harm')
    BY <1>4 DEF deinit_bluetooth, Deinited
  <2>2. r # "failed" => bt.ctrl = "inited"
    BY DEF DeinitResult
  <2> QED
    BY <2>1, <2>2
<1>5. CASE DeinitWaits
  BY <1>5 DEF DeinitWaits
<1>6. CASE process_hci_rx_pkt
  BY <1>6 DEF process_hci_rx_pkt, HciPacket, Mark
<1>7. CASE controller_rcv_pkt_ready
  BY <1>7 DEF controller_rcv_pkt_ready, Mark
<1> QED
  BY <1>1, <1>2, <1>3, <1>4, <1>5, <1>6, <1>7 DEF BtNext

-----------------------------------------------------------------------------
(* The invariant of the credentials.                                       *)
Eaps == [heap: [Cred -> 0 .. MaxRequest], driver: [Cred -> 0 .. MaxRequest],
         last: [Cred -> {"none", "set", "cleared", "failed", "left"}],
         password: {"unset", "old", "new"}, new_password: {"unset", "new"}]

EapKept == eap \in Eaps /\ CredentialsAsAsked

(* A credential is set or cleared, or enterprise mode is left.             *)
LEMMA EapStep ==
  ASSUME Basics, Basics', EapKept, EapNext
  PROVE  EapKept'
<1>1. eap \in Eaps /\ reqs' \in 0 .. MaxRequest /\ 0 \in 0 .. MaxRequest
  BY RequestsAssumption DEF EapKept, Basics
<1>2. /\ eap.heap \in [Cred -> 0 .. MaxRequest] /\ eap.driver \in [Cred -> 0 .. MaxRequest]
      /\ eap.last \in [Cred -> {"none", "set", "cleared", "failed", "left"}]
  BY <1>1 DEF Eaps
<1>3. ASSUME NEW c \in Cred, NEW h \in 0 .. MaxRequest, NEW d \in 0 .. MaxRequest,
             NEW how \in {"set", "cleared", "failed"},
             eap' = [eap EXCEPT !.heap[c] = h, !.driver[c] = d, !.last[c] = how],
             how = "set" => d # 0 /\ d = h,
             how = "cleared" => d = 0 /\ h = 0
      PROVE  EapKept'
  <2>1. /\ eap' \in Eaps /\ eap'.heap = [eap.heap EXCEPT ![c] = h]
        /\ eap'.driver = [eap.driver EXCEPT ![c] = d]
        /\ eap'.last = [eap.last EXCEPT ![c] = how]
    BY <1>1, <1>3 DEF Eaps
  <2>2. CredentialsAsAsked'
    BY <1>2, <1>3, <2>1 DEF EapKept, CredentialsAsAsked
  <2> QED
    BY <2>1, <2>2 DEF EapKept
<1>4. CASE eap' = eap
  BY <1>4 DEF EapKept, CredentialsAsAsked
<1>5. ASSUME NEW c \in Cred, NEW h \in 0 .. MaxRequest, eap' = NowIn(c, h, "failed")
      PROVE  EapKept'
  <2>1. eap' = [eap EXCEPT !.heap[c] = h, !.driver[c] = eap.driver[c], !.last[c] = "failed"]
    BY <1>1, <1>2, <1>5 DEF NowIn, Eaps
  <2> QED
    BY <1>2, <1>3, <2>1
<1>6. ASSUME NEW c \in Cred, req_eap_set_credential(c) PROVE EapKept'
  <2>1. reqs' # 0
    BY <1>6 DEF req_eap_set_credential, Request, Basics
  <2>2. CASE eap' = Given(c, reqs')
    <3>1. eap' = [eap EXCEPT !.heap[c] = reqs', !.driver[c] = reqs', !.last[c] = "set"]
      BY <1>1, <2>2 DEF Given, NowIn, Eaps
    <3> QED
      BY <1>1, <1>3, <2>1, <3>1
  <2> QED
    BY <1>1, <1>4, <1>5, <1>6, <2>2 DEF req_eap_set_credential
<1>7. ASSUME NEW c \in Cred, req_eap_clear_credential(c) PROVE EapKept'
  <2>1. eap' = [eap EXCEPT !.heap[c] = 0, !.driver[c] = 0, !.last[c] = "cleared"]
    BY <1>1, <1>7 DEF req_eap_clear_credential, Cleared, NowIn, Eaps
  <2> QED
    BY <1>1, <1>3, <2>1
<1>8. CASE req_wifi_sta_enterprise_disable
  <2>1. PICK kept \in SUBSET Cred :
          eap' = [eap EXCEPT !.heap = [c \in Cred |-> 0], !.last = [c \in Cred |-> "left"],
                    !.driver = [c \in Cred |-> IF c \in kept THEN eap.driver[c] ELSE 0]]
    BY <1>8 DEF req_wifi_sta_enterprise_disable
  <2>2. eap' \in Eaps /\ eap'.last = [c \in Cred |-> "left"]
    BY <1>1, <2>1 DEF Eaps
  <2> QED
    BY <2>2 DEF EapKept, CredentialsAsAsked
<1>9. ASSUME NEW p \in {"unset", "old", "new"}, eap' = [eap EXCEPT !.password = p]
      PROVE  EapKept'
  BY <1>1, <1>9 DEF EapKept, Eaps, CredentialsAsAsked
<1>10. CASE eap' = [eap EXCEPT !.new_password = "unset"]
  BY <1>1, <1>10 DEF EapKept, Eaps, CredentialsAsAsked
<1> QED
  BY <1>4, <1>6, <1>7, <1>8, <1>9, <1>10
  DEF EapNext, req_eap_set_password, req_eap_clear_password, req_eap_set_new_password,
      req_eap_clear_new_password

-----------------------------------------------------------------------------
(* The invariant of the scan: the records the driver still has are the     *)
(* ones the host has not been given, and a host told none has been given   *)
(* all of them, as long as nothing went wrong.                             *)
ScanKept ==
  /\ scan \in [driver: 0 .. MaxRecords, found: 0 .. MaxRecords, told_none: BOOLEAN]
  /\ scan.found = scan.driver \/ harm \intersect {"fetch_failed", "short_list", "no_list"} # {}
  /\ scan.driver <= scan.found
  /\ scan.told_none => scan.driver = 0 \/ "no_list" \in harm

(* A scan, or records fetched or lost.                                     *)
LEMMA ScanStep ==
  ASSUME ScanKept, ScanNext, harm \subseteq harm'
  PROVE  ScanKept'
<1> USE RequestsAssumption
<1>1. ASSUME NEW n \in 0 .. MaxRecords,
             scan' = [driver |-> n, found |-> n, told_none |-> FALSE]
      PROVE  ScanKept'
  BY <1>1 DEF ScanKept
<1>2. CASE scan' = scan
  BY <1>2 DEF ScanKept
<1>3. ASSUME NEW k \in 1 .. scan.driver,
             scan' = Delivered(k) \/ (scan' = Lost(k) /\ "fetch_failed" \in harm')
      PROVE  ScanKept'
  <2>1. /\ scan.driver \in 0 .. MaxRecords /\ scan.found \in 0 .. MaxRecords
        /\ scan.driver <= scan.found /\ k \in 1 .. scan.driver
        /\ scan.found = scan.driver
             \/ harm \intersect {"fetch_failed", "short_list", "no_list"} # {}
        /\ scan.told_none => scan.driver = 0 \/ "no_list" \in harm
    BY <1>3 DEF ScanKept
  <2>2. scan.driver - k \in 0 .. MaxRecords /\ scan.found - k \in 0 .. MaxRecords
    BY <2>1
  <2> DEFINE d == scan.driver - k
             f == scan.found - k
  <2>3. CASE scan' = Delivered(k)
    <3>1. /\ scan' = [scan EXCEPT !.driver = d, !.found = f]
          /\ (d = f <=> scan.driver = scan.found) /\ d <= f
      BY <2>1, <2>3 DEF Delivered
    <3>2. d \in 0 .. MaxRecords /\ f \in 0 .. MaxRecords
      BY <2>2
    <3> HIDE DEF d, f
    <3>3. scan'.driver = d /\ scan'.found = f /\ scan'.told_none = scan.told_none
          /\ scan' \in [driver: 0 .. MaxRecords, found: 0 .. MaxRecords, told_none: BOOLEAN]
      BY <3>1, <3>2 DEF ScanKept
    <3> QED
      BY <2>1, <3>1, <3>3 DEF ScanKept
  <2>4. CASE scan' = Lost(k) /\ "fetch_failed" \in harm'
    <3>1. scan' = [scan EXCEPT !.driver = d] /\ d <= scan.found
      BY <2>1, <2>4 DEF Lost
    <3>2. d \in 0 .. MaxRecords
      BY <2>2
    <3> HIDE DEF d
    <3>3. scan'.driver = d /\ scan'.found = scan.found /\ scan'.told_none = scan.told_none
          /\ scan' \in [driver: 0 .. MaxRecords, found: 0 .. MaxRecords, told_none: BOOLEAN]
      BY <3>1, <3>2 DEF ScanKept
    <3> QED
      BY <2>1, <2>4, <3>1, <3>3 DEF ScanKept
  <2> QED
    BY <1>3, <2>3, <2>4
<1>4. CASE \/ NoneToTell /\ scan' = [scan EXCEPT !.told_none = TRUE]
           \/ /\ "no_list" \in harm'
              /\ \E left \in {0, scan.driver} :
                   scan' = [scan EXCEPT !.told_none = TRUE, !.driver = left]
  <2>1. PICK left \in {0, scan.driver} :
          /\ scan' = [scan EXCEPT !.told_none = TRUE, !.driver = left]
          /\ (NoneToTell /\ left = scan.driver) \/ "no_list" \in harm'
    <3>1. CASE NoneToTell /\ scan' = [scan EXCEPT !.told_none = TRUE]
      BY <3>1 DEF ScanKept
    <3> QED
      BY <1>4, <3>1
  <2>2. left \in 0 .. MaxRecords
    <3>1. 0 \in 0 .. MaxRecords
      OBVIOUS
    <3> QED
      BY <3>1 DEF ScanKept
  <2>3. ASSUME NEW b \in BOOLEAN, scan' = [scan EXCEPT !.told_none = b, !.driver = left]
        PROVE  /\ scan'.driver = left /\ scan'.found = scan.found
               /\ scan' \in [driver: 0 .. MaxRecords, found: 0 .. MaxRecords,
                             told_none: BOOLEAN]
    BY <2>2, <2>3 DEF ScanKept
  <2>4. /\ scan'.driver = left /\ scan'.found = scan.found
        /\ scan' \in [driver: 0 .. MaxRecords, found: 0 .. MaxRecords, told_none: BOOLEAN]
    BY <2>1, <2>3, Zenon
  <2> QED
    BY <2>1, <2>2, <2>4 DEF ScanKept, NoneToTell
<1>10. ASSUME NEW k \in 1 .. scan.driver - 1, scan' = [Delivered(k) EXCEPT !.driver = 0],
              "short_list" \in harm'
       PROVE  ScanKept'
  <2> DEFINE f == scan.found - k
  <2>1. f \in 0 .. MaxRecords
    BY <1>10 DEF ScanKept
  <2>2. scan' = [scan EXCEPT !.driver = 0, !.found = f]
    BY <1>10 DEF Delivered, ScanKept
  <2> HIDE DEF f
  <2>3. 0 \in 0 .. MaxRecords
    OBVIOUS
  <2>4. /\ scan'.driver = 0 /\ scan'.found = f
        /\ scan' \in [driver: 0 .. MaxRecords, found: 0 .. MaxRecords, told_none: BOOLEAN]
    BY <2>1, <2>2, <2>3 DEF ScanKept
  <2> QED
    BY <1>10, <2>1, <2>4 DEF ScanKept
<1>5. ASSUME NEW n \in 0 .. MaxRecords, req_wifi_scan_start(n) PROVE ScanKept'
  BY <1>1, <1>2, <1>5 DEF req_wifi_scan_start
<1>6. CASE req_wifi_clear_ap_list
  <2>1. 0 \in 0 .. MaxRecords
    OBVIOUS
  <2> QED
    BY <1>1, <1>2, <1>6, <2>1 DEF req_wifi_clear_ap_list
<1>7. CASE req_wifi_scan_get_ap_record
  <2>1. scan.driver > 0 => 1 \in 1 .. scan.driver
    BY DEF ScanKept
  <2> QED
    BY <1>2, <1>3, <1>7, <2>1 DEF req_wifi_scan_get_ap_record, Mark
<1>8. ASSUME NEW n \in 0 .. MaxRecords, req_wifi_scan_get_ap_records(n) PROVE ScanKept'
  <2>1. /\ scan.driver \in 1 .. n => scan.driver \in 1 .. scan.driver
        /\ n \in 1 .. scan.driver - 1 => scan.driver \in 1 .. scan.driver
    BY DEF ScanKept
  <2> QED
    BY <1>2, <1>3, <1>4, <1>8, <1>10, <2>1 DEF req_wifi_scan_get_ap_records, Mark
<1>9. CASE req_wifi_ap_get_sta_list
  BY <1>2, <1>9 DEF req_wifi_ap_get_sta_list
<1> QED
  BY <1>5, <1>6, <1>7, <1>8, <1>9 DEF ScanNext

-----------------------------------------------------------------------------
(* The inductive invariant: every family's, and what was answered.         *)
RequestsInv ==
  /\ Basics /\ Honest(answer, harm)
  /\ OtaKept /\ TimersKept /\ BtKept /\ EapKept /\ ScanKept
  /\ pins \subseteq Pin /\ BusPinsKept

(* It holds of a slave that has just started, ...                          *)
LEMMA InitKept == ReqInit => RequestsInv
<1> SUFFICES ASSUME ReqInit PROVE RequestsInv
  OBVIOUS
<1>1. Basics /\ Honest(answer, harm) /\ pins \subseteq Pin /\ BusPinsKept
  BY RequestsAssumption DEF ReqInit, Basics, Honest, BusPinsKept
<1>2. PICK e \in Seq(Chunk) : e = <<>> /\ Len(e) = 0
  BY EmptySeq
<1>3. OtaKept
  <2>1. ota = [status |-> "not_started", first |-> FALSE, written |-> e, compatible |-> FALSE,
               open |-> FALSE, boot |-> "running", timer |-> "none"]
    BY <1>2 DEF ReqInit
  <2>2. ota \in Otas /\ ota.written = e /\ ota.boot = "running" /\ ota.status = "not_started"
        /\ ota.open = FALSE
    BY <2>1 DEF Otas
  <2>3. Len(ota.written) <= reqs
    BY <1>2, <2>2 DEF ReqInit
  <2> QED
    BY <1>2, <2>2, <2>3 DEF OtaKept
<1>4. TimersKept
  <2>1. PICK q \in Seq(Command) : q = <<>> /\ Items(q) = {}
    <3>1. <<>> \in Seq(Command) /\ Len(<<>>) = 0
      OBVIOUS
    <3>2. 1 .. 0 = {}
      OBVIOUS
    <3> QED
      BY <3>1, <3>2 DEF Items
  <2>2. tmr = [state |-> [t \in Timer |-> "none"], use |-> [t \in Timer |-> "hb"], queue |-> q,
               handle |-> [u \in Use |-> NoTimer], asked |-> [u \in Use |-> "off"]]
    BY <2>1 DEF ReqInit
  <2>3. tmr \in Timers /\ Items(tmr.queue) = {}
        /\ \A u \in Use : tmr.handle[u] = NoTimer /\ tmr.asked[u] = "off"
        /\ \A t \in Timer : tmr.state[t] = "none"
    BY <2>1, <2>2 DEF Timers, Use
  <2>4. SoundTimers(tmr)
    BY <2>3 DEF SoundTimers
  <2>5. \A u \in Use : Tidy(tmr, u)
    BY <2>3 DEF Tidy, Orphans, Held, WillRun
  <2> QED
    BY <2>3, <2>4, <2>5 DEF TimersKept, Use
<1>5. BtKept
  BY DEF ReqInit, BtKept, Bts
<1>6. EapKept
  BY RequestsAssumption DEF ReqInit, EapKept, Eaps, CredentialsAsAsked
<1>7. ScanKept
  BY RequestsAssumption DEF ReqInit, ScanKept
<1> QED
  BY <1>1, <1>3, <1>4, <1>5, <1>6, <1>7 DEF RequestsInv

(* ... and every step keeps it.                                            *)
LEMMA StepKept == RequestsInv /\ [ReqNext]_reqVars => RequestsInv'
<1> SUFFICES ASSUME RequestsInv, [ReqNext]_reqVars PROVE RequestsInv'
  OBVIOUS
<1> USE DEF RequestsInv
<1>1. CASE UNCHANGED reqVars
  BY <1>1 DEF Basics, Honest, OtaKept, Whole, TimersKept, BtKept, EapKept, CredentialsAsAsked,
              ScanKept, BusPinsKept
<1>2. CASE ReqNext
  <2>1. Goes
    BY <1>2, AllGo
  <2>2. /\ harm \subseteq harm' /\ Basics'
        /\ reqs \in Nat /\ reqs' \in Nat /\ reqs <= reqs'
    <3>1. Basics' /\ harm \subseteq harm'
      BY <2>1, StaysHonest DEF Goes
    <3> QED
      BY <2>1, <3>1, RequestsAssumption DEF Goes, Basics
  <2>3. Honest(answer', harm')
    BY <2>1, StaysHonest
  <2>4. UNCHANGED ota => OtaKept'
    <3> SUFFICES ASSUME UNCHANGED ota PROVE OtaKept'
      OBVIOUS
    <3>1. Len(ota.written) \in Nat
      BY DEF OtaKept, Otas
    <3>2. Len(ota'.written) <= reqs'
      BY <2>2, <3>1 DEF OtaKept
    <3> QED
      BY <2>2, <3>2 DEF OtaKept, Whole
  <2>5. UNCHANGED tmr => TimersKept'
    BY <2>2 DEF TimersKept
  <2>6. UNCHANGED bt => BtKept'
    BY <2>2 DEF BtKept
  <2>7. UNCHANGED eap => EapKept'
    BY <2>2 DEF EapKept, CredentialsAsAsked
  <2>8. UNCHANGED scan => ScanKept'
    BY <2>2 DEF ScanKept
  <2>9. UNCHANGED pins => pins' \subseteq Pin /\ BusPinsKept'
    BY DEF BusPinsKept
  <2>10. CASE OtaNext
    BY <2>1, <2>2, <2>3, <2>5, <2>6, <2>7, <2>8, <2>9, <2>10, OtaStep, Apart DEF OtaOnly
  <2>11. CASE TimersNext
    BY <2>2, <2>3, <2>4, <2>6, <2>7, <2>8, <2>9, <2>11, Apart,
       HeartbeatKept, MonitorKept, TimerTaskKept DEF TimersOnly, TimersNext
  <2>12. CASE BtNext
    BY <2>2, <2>3, <2>4, <2>5, <2>7, <2>8, <2>9, <2>12, BtStep, Apart DEF BtOnly
  <2>13. CASE EapNext
    BY <2>2, <2>3, <2>4, <2>5, <2>6, <2>8, <2>9, <2>13, EapStep, Apart DEF EapOnly
  <2>14. CASE ScanNext
    BY <2>2, <2>3, <2>4, <2>5, <2>6, <2>7, <2>9, <2>14, ScanStep, Apart DEF ScanOnly
  <2>15. CASE PlainNext
    <3>1. pins' \subseteq Pin /\ BusPinsKept'
      BY <2>9, <2>15 DEF PlainNext, plain_request, req_iface_mac_addr_set, gpio_request,
                         Eligible, Reserved, Pin, BusPinsKept
    <3> QED
      BY <2>2, <2>3, <2>4, <2>5, <2>6, <2>7, <2>8, <2>15, <3>1, Apart DEF PlainOnly
  <2>16. CASE Undispatched
    BY <2>2, <2>3, <2>4, <2>5, <2>6, <2>7, <2>8, <2>9, <2>16 DEF Undispatched
  <2> QED
    BY <1>2, <2>10, <2>11, <2>12, <2>13, <2>14, <2>15, <2>16 DEF ReqNext
<1> QED
  BY <1>1, <1>2

(* So it always holds.                                                     *)
LEMMA RequestsInvariant == ReqSpec => []RequestsInv
  BY InitKept, StepKept, PTL DEF ReqSpec

-----------------------------------------------------------------------------
(* The host is answered what was done, and told that there are no records  *)
(* only when it has them all, but for the known exceptions: whatever the   *)
(* order of its requests (the handlers of slave_control.c).                *)
THEOREM AnswersAreHonest == ReqSpec => []HonestAnswers
<1>1. RequestsInv => HonestAnswers
  BY DEF RequestsInv, ScanKept, Honest, HonestAnswers, AnswerTrue, NoneMeansDelivered
<1> QED
  BY <1>1, RequestsInvariant, PTL

(* The partition the chip boots from after an update holds the whole image *)
(* that was checked for it (the req_ota handlers).                         *)
THEOREM GoodImageBooted == ReqSpec => []BootsGoodImage
<1>1. RequestsInv => BootsGoodImage
  BY SMTT(60) DEF RequestsInv, OtaKept, BootsGoodImage, Whole
<1> QED
  BY <1>1, RequestsInvariant, PTL

(* The timers that run are the ones asked for, one of each kind at most,   *)
(* the driver's credentials are the ones set, and live, and no request     *)
(* configures a pin of the bus (configure_heartbeat, mem_monitor_setup,    *)
(* slave_wifi_enterprise.c, the GPIO handlers and their pin guard).        *)
THEOREM AskedForIsLeft == ReqSpec => []LeftAsAsked
<1>1. RequestsInv => LeftAsAsked
  <2> SUFFICES ASSUME RequestsInv PROVE LeftAsAsked
    OBVIOUS
  <2> USE DEF RequestsInv
  <2>1. tmr \in Timers /\ SoundTimers(tmr) /\ "hb" \in Use /\ "mm" \in Use
    BY DEF TimersKept, Use
  <2>2. HeartbeatAsAsked
    <3> SUFFICES ASSUME tmr.queue = <<>>, "start_pending" \notin harm
                 PROVE  {t \in Timer : Active(t) /\ tmr.use[t] = "hb"} =
                          IF tmr.asked["hb"] = "on" THEN {tmr.handle["hb"]} ELSE {}
      BY DEF HeartbeatAsAsked
    <3>1. Tidy(tmr, "hb")
      BY DEF TimersKept
    <3> QED
      BY <2>1, <3>1, OneRuns
  <2>3. MonitorAsAsked
    <3> SUFFICES ASSUME tmr.queue = <<>>
                 PROVE  {t \in Timer : Active(t) /\ tmr.use[t] = "mm"} =
                          IF tmr.asked["mm"] = "on" THEN {tmr.handle["mm"]} ELSE {}
      BY DEF MonitorAsAsked
    <3>1. Tidy(tmr, "mm")
      BY DEF TimersKept
    <3> QED
      BY <2>1, <3>1, OneRuns
  <2>4. TypeOK
    <3>1. Len(ota.written) <= MaxRequest
      BY RequestsAssumption DEF OtaKept, Otas, Basics
    <3>2. /\ tmr.state \in [Timer -> {"none", "created", "active", "deleted"}]
          /\ tmr.use \in [Timer -> Use]
          /\ tmr.queue \in Seq([cmd: {"start", "stop", "delete"}, id: Timer])
          /\ tmr.handle \in [Use -> Timer \union {NoTimer}]
          /\ tmr.asked \in [Use -> {"on", "off", "unknown"}]
      BY <2>1 DEF Timers, Command
    <3>3. /\ ota \in Otas /\ bt \in Bts /\ eap \in Eaps
          /\ scan \in [driver: 0 .. MaxRecords, found: 0 .. MaxRecords, told_none: BOOLEAN]
      BY DEF OtaKept, BtKept, EapKept, ScanKept
    <3> QED
      BY <3>1, <3>2, <3>3 DEF TypeOK, Basics, Otas, Bts, Eaps
  <2> QED
    BY <2>2, <2>3, <2>4 DEF LeftAsAsked, EapKept
<1> QED
  BY <1>1, RequestsInvariant, PTL

(* Packets for an enabled controller are served, and a deinit waits for a  *)
(* semaphore that will be given (slave_bt.c), but for the known exceptions.*)
THEOREM BluetoothServed == ReqSpec => []BluetoothGoesOn
<1>1. RequestsInv => BluetoothGoesOn
  BY DEF RequestsInv, BtKept, Bts, BluetoothGoesOn, HciServed, DeinitEnds
<1> QED
  BY <1>1, RequestsInvariant, PTL

=============================================================================
