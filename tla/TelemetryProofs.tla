--------------------------- MODULE TelemetryProofs ---------------------------
(***************************************************************************)
(* What a home tells, for every value of the constants: the reports of a   *)
(* node, the payloads they are decoded from, and the alerts the heartbeats *)
(* open and resolve.                                                       *)
(*                                                                         *)
(* The node: a step keeps books.  The runs told of as events, in summaries *)
(* and in the window under way are the runs that ended, the runs counted by *)
(* heartbeats and since the last one too, until a count of one byte is full; *)
(* and the events of the last window are among the run ends the node       *)
(* remembers, of which StormThreshold make it a storm.  Each part of a step *)
(* keeps the books, in the order of the code.                              *)
(*                                                                         *)
(* The codec: the fields of a payload fill it and do not overlap, so a     *)
(* payload of the right length encodes back byte by byte; the loop over the *)
(* gateways keeps the strongest so far.                                    *)
(*                                                                         *)
(* The heartbeat stage: whatever was lost from memory, the level window ends *)
(* in the readings applied last, as far back as they are without mains, so *)
(* the three that show a risk are the three it holds.                      *)
(***************************************************************************)
EXTENDS SumpNode, Codec, HeartbeatRules, SequenceTheorems, FiniteSetTheorems,
        WellFoundedInduction, TLAPS

------------------------------------------------------------------------------
(* Numbers.                                                                *)

\* A set of naturals that is not empty has a least member.
LEMMA LeastNatural ==
    ASSUME NEW T, T \subseteq Nat, T # {}
    PROVE  \E x \in T : \A y \in T : x <= y
<1>1. PICK x \in T : \A y \in T : ~(<<y, x>> \in OpToRel(<, Nat))
  BY WFMin, NatLessThanWellFounded, Zenon
<1>2. \A y \in T : ~(y < x)
  BY <1>1 DEF OpToRel
<1> QED
  BY <1>2

\* Induction, for a set of naturals.
LEMMA EveryNatural ==
    ASSUME NEW S, 0 \in S, \A n \in Nat : n \in S => n + 1 \in S
    PROVE  Nat \subseteq S
<1> DEFINE T == {n \in Nat : n \notin S}
<1> SUFFICES ASSUME T # {} PROVE FALSE
  OBVIOUS
<1>1. PICK x \in T : \A y \in T : x <= y
  BY LeastNatural
<1>2. x - 1 \in Nat /\ x - 1 \notin T
  BY <1>1
<1> QED
  BY <1>2

------------------------------------------------------------------------------
(* The node.                                                               *)

Ends == [at : Int, pump : {"primary", "backup"}]

Nodes ==
    [t : Nat, vol : Int, stop : Nat, health : Healths, hasBackup : BOOLEAN, mains : BOOLEAN,
     outage : BOOLEAN, on : BOOLEAN, onAt : Int, startVol : Int, raised : BOOLEAN,
     restUntil : Int, backupOn : BOOLEAN, backupAt : Int, backupVol : Int, backupRan : BOOLEAN,
     backflow : Nat, high : BOOLEAN, nextHB : Int, cyclesHB : Nat, storm : BOOLEAN,
     windowStart : Int, recentEnds : SUBSET Ends, accCount : Nat, accRun : Int,
     lastAlarm : [Codes -> Int]]

Tolds ==
    [events : Nat, recent : SUBSET Ends, summarised : Nat, beats : Nat, saturated : BOOLEAN,
     highAt : Int, alarmed : [Codes -> Int]]

\* A state of a step.
Typed(s) ==
    /\ DOMAIN s = {"n", "out", "told", "truth"}
    /\ s.n \in Nodes /\ s.told \in Tolds /\ s.truth \in Nat

\* The runs are told of, and counted.
Tally(sum, runs, saturated) == IF saturated THEN sum <= runs ELSE sum = runs
RunsTold(s) ==
    Tally(s.told.events + s.told.summarised + s.n.accCount, s.truth, s.told.saturated)
Counted(s) == Tally(s.told.beats + s.n.cyclesHB, s.truth, s.told.saturated)

\* The events of the last window are among the ends the node remembers.
Rationed(s) ==
    /\ IsFiniteSet(s.n.recentEnds)
    /\ s.told.recent \subseteq s.n.recentEnds
    /\ Cardinality(s.told.recent) <= StormThreshold
Fresh(s) ==
    /\ \A e \in s.told.recent : s.n.t - e.at < StormWindow

\* The node remembers the alarms it sent.
Remembered(s) == s.told.alarmed = s.n.lastAlarm

ClocksOK(n) ==
    /\ n.vol >= n.stop
    /\ n.nextHB \in n.t .. n.t + HeartbeatInterval
    /\ n.storm => n.t - n.windowStart <= StormWindow
    /\ ~n.storm => n.accCount = 0

Books(s) == Typed(s) /\ RunsTold(s) /\ Counted(s) /\ Rationed(s) /\ Remembered(s) /\ ClocksOK(s.n)
Whole(s) == Books(s) /\ Fresh(s)

\* What most parts of a step leave alone, or set to the time of the step.
Kept(s, r) ==
    /\ r.n.t = s.n.t /\ r.n.nextHB = s.n.nextHB /\ r.n.high = s.n.high /\ r.n.mains = s.n.mains
    /\ r.n.lastAlarm["mains_lost"] = s.n.lastAlarm["mains_lost"]
    /\ r.told.highAt = s.told.highAt \/ r.told.highAt = s.n.t

\* The same but for the memory of alarms.
SameNode(n, m) ==
    /\ m.t = n.t /\ m.nextHB = n.nextHB /\ m.high = n.high /\ m.mains = n.mains
    /\ m.vol = n.vol /\ m.stop = n.stop /\ m.storm = n.storm /\ m.windowStart = n.windowStart
    /\ m.accCount = n.accCount /\ m.cyclesHB = n.cyclesHB /\ m.recentEnds = n.recentEnds
SameTold(h, g) ==
    /\ g.events = h.events /\ g.summarised = h.summarised /\ g.beats = h.beats
    /\ g.saturated = h.saturated /\ g.recent = h.recent

\* Max and Min of two numbers.
LEMMA Max2 ==
    ASSUME NEW a \in Int, NEW b \in Int
    PROVE  Max({a, b}) \in {a, b} /\ Max({a, b}) >= a /\ Max({a, b}) >= b
BY DEF Max

\* The smaller of two.
LEMMA Min2 ==
    ASSUME NEW a \in Int, NEW b \in Int
    PROVE  Min({a, b}) \in {a, b} /\ Min({a, b}) <= a /\ Min({a, b}) <= b
BY DEF Min

\* clampDistance and its like stay numbers.
LEMMA Most0 ==
    ASSUME NEW b \in Int
    PROVE  Max({0, b}) \in Int
BY DEF Max

\* A step pumps no more than there is.
LEMMA Least1 ==
    ASSUME NEW b \in Nat
    PROVE  Min({1, b}) \in {1, b} /\ Min({1, b}) <= b
BY DEF Min

\* A count of one byte is the count, or the most it can say.
LEMMA CountIs ==
    ASSUME NEW c \in Nat, NEW m \in Nat, NEW k, k = Min({c, m})
    PROVE  k \in Nat /\ k <= c /\ (k = c \/ k = m)
BY Min2

\* What the sensor measures is a number.
LEMMA Distance ==
    ASSUME NEW vol \in Int
    PROVE  distanceMM(vol) \in Nat
BY Max2, NodeAssumption DEF distanceMM

\* An alarm is sent, or was sent in the last AlarmHoldoff; all else is as it was.
Alarmed(s, code, r) ==
    /\ Typed(r) /\ Remembered(r) /\ r.truth = s.truth
    /\ SameNode(s.n, r.n) /\ SameTold(s.told, r.told)
    /\ r.told.highAt = s.told.highAt \/ r.told.highAt = s.n.t
    /\ r.n.lastAlarm[code] # Never /\ s.n.t - r.n.lastAlarm[code] < AlarmHoldoff
    /\ \A c \in Codes : c # code => r.n.lastAlarm[c] = s.n.lastAlarm[c]

\* raiseAlarm: the alarm is sent, or was in the last AlarmHoldoff.
LEMMA AlarmIs ==
    ASSUME NEW s, Typed(s), Remembered(s), NEW code \in Codes, NEW r, r = raiseAlarm(s, code)
    PROVE  Alarmed(s, code, r)
<1> DEFINE sent == s.n.lastAlarm[code]
           n == [s.n EXCEPT !.lastAlarm[code] = s.n.t]
           up == [kind |-> "alarm", code |-> code]
           h == Heard(s.told, up, s.n.t)
<1>1. /\ s.n \in Nodes /\ s.told \in Tolds /\ DOMAIN s = {"n", "out", "told", "truth"}
      /\ s.n.lastAlarm \in [Codes -> Int] /\ s.n.t \in Nat
      /\ s.told.alarmed = s.n.lastAlarm
  BY DEF Typed, Nodes, Remembered
<1>2. CASE sent # Never /\ s.n.t - sent < AlarmHoldoff
  <2>1. r = s
    BY <1>2 DEF raiseAlarm
  <2> QED
    BY <1>2, <2>1 DEF SameNode, SameTold, Alarmed
<1>3. CASE ~(sent # Never /\ s.n.t - sent < AlarmHoldoff)
  <2>1. r = Send([s EXCEPT !.n = n], up)
    BY <1>3 DEF raiseAlarm
  <2>2. n \in Nodes /\ n.lastAlarm = [s.n.lastAlarm EXCEPT ![code] = s.n.t]
        /\ n.t = s.n.t /\ SameNode(s.n, n)
    BY <1>1 DEF Nodes, SameNode
  <2> HIDE DEF n
  <2> DEFINE x == [s EXCEPT !.n = n]
  <2>3. x.n = n /\ x.told = s.told /\ x.truth = s.truth /\ DOMAIN x = {"n", "out", "told", "truth"}
    BY <1>1
  <2> HIDE DEF x
  <2>4. h = [s.told EXCEPT !.highAt = IF code = "float_high" THEN s.n.t ELSE @, !.alarmed[code] = s.n.t]
    BY DEF Heard
  <2>5. /\ h \in Tolds /\ h.alarmed = [s.told.alarmed EXCEPT ![code] = s.n.t]
        /\ h.highAt = s.told.highAt \/ h.highAt = s.n.t
        /\ SameTold(s.told, h)
    <3> DEFINE hv == IF code = "float_high" THEN s.n.t ELSE s.told.highAt
               av == [s.told.alarmed EXCEPT ![code] = s.n.t]
    <3>1. h = [s.told EXCEPT !.highAt = hv, !.alarmed = av]
      BY <1>1, <2>4 DEF Tolds
    <3>2. av \in [Codes -> Int] /\ hv \in Int /\ (hv = s.told.highAt \/ hv = s.n.t)
      BY <1>1 DEF Tolds
    <3> HIDE DEF hv, av, h
    <3>3. h \in Tolds /\ h.alarmed = av /\ h.highAt = hv
      BY <1>1, <3>1, <3>2 DEF Tolds
    <3>4. SameTold(s.told, h)
      BY <1>1, <3>1 DEF Tolds, SameTold
    <3> QED
      BY <3>2, <3>3, <3>4 DEF av
  <2> HIDE DEF h
  <2>6. r = [x EXCEPT !.out = Append(@, up), !.told = h]
    BY <2>1, <2>2, <2>3 DEF Send, x, h
  <2>7. r.n = n /\ r.told = h /\ r.truth = s.truth /\ DOMAIN r = {"n", "out", "told", "truth"}
    BY <2>3, <2>6
  <2>8. Typed(r)
    BY <2>2, <2>5, <2>7 DEF Typed
  <2>9. Remembered(r)
    BY <1>1, <2>2, <2>5, <2>7 DEF Remembered
  <2>10. r.n.lastAlarm[code] = s.n.t
    BY <1>1, <2>2, <2>7
  <2>11. r.n.lastAlarm[code] # Never /\ s.n.t - r.n.lastAlarm[code] < AlarmHoldoff
    BY <1>1, <2>10, NodeAssumption DEF Never
  <2>12. \A c \in Codes : c # code => r.n.lastAlarm[c] = s.n.lastAlarm[c]
    BY <1>1, <2>2, <2>7
  <2> QED
    BY <2>2, <2>5, <2>7, <2>8, <2>9, <2>11, <2>12 DEF Typed, Alarmed
<1> QED
  BY <1>2, <1>3

\* An alarm about anything but the mains leaves the rest alone.
LEMMA AlarmSame ==
    ASSUME NEW s, Typed(s), Remembered(s), NEW code \in Codes \ {"mains_lost"},
           NEW r, r = raiseAlarm(s, code)
    PROVE  /\ Typed(r) /\ Remembered(r) /\ r.truth = s.truth
           /\ SameNode(s.n, r.n) /\ SameTold(s.told, r.told) /\ Kept(s, r)
<1>1. code \in Codes /\ code # "mains_lost" /\ "mains_lost" \in Codes
  BY DEF Codes
<1>2. Alarmed(s, code, r)
  BY <1>1, AlarmIs
<1> QED
  BY <1>1, <1>2 DEF Alarmed, Kept, SameNode

\* The parts of Whole, Books speak of few fields.
LEMMA WholeSame ==
    ASSUME NEW s, NEW r, Whole(s), Typed(r), Remembered(r), r.truth = s.truth,
           SameNode(s.n, r.n), SameTold(s.told, r.told)
    PROVE  Whole(r)
BY DEF Whole, Books, SameNode, SameTold, RunsTold, Counted, Rationed, Fresh, ClocksOK

\* A run ends: it is counted, and told of or added to the window.
LEMMA EndCycleWhole ==
    ASSUME NEW s, Whole(s), NEW pump \in {"primary", "backup"}, NEW run \in Int, NEW startVol \in Int,
           NEW r, r = endCycle(s, pump, run, startVol)
    PROVE  Whole(r) /\ Kept(s, r)
<1> DEFINE drop == distanceMM(s.n.vol) - distanceMM(startVol)
           n1 == [s.n EXCEPT !.cyclesHB = @ + 1]
           s1 == [s EXCEPT !.truth = @ + 1, !.n.cyclesHB = @ + 1]
           s2 == CountRun(s, run, drop)
           ends == Recent(s2.n.recentEnds, s2.n.t) \cup {[at |-> s2.n.t, pump |-> pump]}
           n3 == [s2.n EXCEPT !.recentEnds = ends]
           n4 == RememberEnd(s2.n, pump)
           up == [kind |-> "cycle", run |-> run, from |-> distanceMM(startVol), drop |-> drop,
                  pump |-> pump]
           n5 == [n4 EXCEPT !.accCount = @ + 1, !.accRun = @ + run]
           ac == n4.accCount + 1
           ar == n4.accRun + run
<1>1. r = IF n4.storm THEN [s2 EXCEPT !.n = n5] ELSE Send([s2 EXCEPT !.n = n4], up)
  BY DEF endCycle
<1>14. s2 = s1 \/ s2 = raiseAlarm(s1, "dry_run")
  BY DEF CountRun
<1>15. n4 = IF ~s2.n.storm /\ Cardinality(ends) > StormThreshold THEN EnterStorm(n3) ELSE n3
  BY DEF RememberEnd
<1> HIDE DEF s2, n4
<1>2. Typed(s) /\ s.n \in Nodes /\ s.told \in Tolds /\ DOMAIN s = {"n", "out", "told", "truth"}
      /\ s.truth \in Nat
  BY DEF Whole, Books, Typed
<1>3. /\ n1 \in Nodes /\ n1.cyclesHB = s.n.cyclesHB + 1 /\ n1.lastAlarm = s.n.lastAlarm
      /\ n1.t = s.n.t /\ n1.nextHB = s.n.nextHB /\ n1.high = s.n.high /\ n1.mains = s.n.mains
      /\ n1.vol = s.n.vol /\ n1.stop = s.n.stop /\ n1.storm = s.n.storm
      /\ n1.windowStart = s.n.windowStart
      /\ n1.accCount = s.n.accCount /\ n1.recentEnds = s.n.recentEnds
  BY <1>2 DEF Nodes
<1>4. /\ s1.n = n1 /\ s1.told = s.told /\ s1.truth = s.truth + 1
      /\ DOMAIN s1 = {"n", "out", "told", "truth"}
  BY <1>2
<1> HIDE DEF s1, n1
<1>5. Typed(s1) /\ Remembered(s1) /\ Kept(s, s1)
  BY <1>2, <1>3, <1>4 DEF Typed, Remembered, Whole, Books, Kept
<1>6. /\ Typed(s2) /\ Remembered(s2) /\ s2.truth = s1.truth
      /\ SameNode(s1.n, s2.n) /\ SameTold(s1.told, s2.told) /\ Kept(s1, s2)
  <2>1. CASE s2 = raiseAlarm(s1, "dry_run")
    <3>1. "dry_run" \in Codes \ {"mains_lost"}
      BY DEF Codes
    <3> QED
      BY <1>5, <2>1, <3>1, AlarmSame
  <2>2. CASE s2 = s1
    BY <1>5, <2>2 DEF SameNode, SameTold, Kept
  <2> QED
    BY <1>14, <2>1, <2>2
<1>7. /\ s2.n \in Nodes /\ s2.told \in Tolds /\ s2.truth = s.truth + 1
      /\ DOMAIN s2 = {"n", "out", "told", "truth"}
      /\ s2.n.cyclesHB = s.n.cyclesHB + 1 /\ s2.n.t = s.n.t /\ s2.n.nextHB = s.n.nextHB
      /\ s2.n.high = s.n.high /\ s2.n.mains = s.n.mains
      /\ s2.n.vol = s.n.vol /\ s2.n.stop = s.n.stop /\ s2.n.storm = s.n.storm
      /\ s2.n.windowStart = s.n.windowStart
      /\ s2.n.accCount = s.n.accCount /\ s2.n.recentEnds = s.n.recentEnds
      /\ s2.n.lastAlarm["mains_lost"] = s.n.lastAlarm["mains_lost"]
      /\ s2.told.highAt = s.told.highAt \/ s2.told.highAt = s.n.t
      /\ SameTold(s.told, s2.told)
  BY <1>3, <1>4, <1>6 DEF SameNode, Kept, Typed
<1>8. /\ ends \in SUBSET Ends /\ IsFiniteSet(ends)
      /\ s.told.recent \subseteq ends
      /\ [at |-> s.n.t, pump |-> pump] \in ends /\ [at |-> s.n.t, pump |-> pump] \in Ends
  <2>1. s.n.recentEnds \in SUBSET Ends /\ s.n.t \in Nat
    BY <1>2 DEF Nodes
  <2>2. [at |-> s.n.t, pump |-> pump] \in Ends
    BY <2>1 DEF Ends
  <2>3. IsFiniteSet(Recent(s.n.recentEnds, s.n.t))
    <3>1. Recent(s.n.recentEnds, s.n.t) \in SUBSET s.n.recentEnds
      BY DEF Recent
    <3>2. IsFiniteSet(s.n.recentEnds)
      BY DEF Whole, Books, Rationed
    <3> QED
      BY <3>1, <3>2, FS_Subset
  <2>4. IsFiniteSet(ends)
    BY <1>7, <2>3, FS_AddElement
  <2> QED
    BY <1>7, <2>1, <2>2, <2>4 DEF Recent, Whole, Books, Rationed, Fresh
<1> HIDE DEF ends
<1>9. /\ n3 \in Nodes /\ n3.recentEnds = ends
      /\ n3.cyclesHB = s.n.cyclesHB + 1 /\ n3.t = s.n.t /\ n3.nextHB = s.n.nextHB
      /\ n3.high = s.n.high /\ n3.mains = s.n.mains
      /\ n3.vol = s.n.vol /\ n3.stop = s.n.stop /\ n3.storm = s.n.storm
      /\ n3.windowStart = s.n.windowStart
      /\ n3.accCount = s.n.accCount /\ n3.lastAlarm = s2.n.lastAlarm
  BY <1>7, <1>8 DEF Nodes
<1> HIDE DEF n3
<1>10. /\ n4 \in Nodes /\ n4.recentEnds = ends
       /\ n4.cyclesHB = s.n.cyclesHB + 1 /\ n4.t = s.n.t /\ n4.nextHB = s.n.nextHB
       /\ n4.high = s.n.high /\ n4.mains = s.n.mains
       /\ n4.vol = s.n.vol /\ n4.stop = s.n.stop /\ n4.lastAlarm = s2.n.lastAlarm
       /\ n4.accCount = s.n.accCount
       /\ n4.storm => n4.t - n4.windowStart <= StormWindow
       /\ ~n4.storm => n4.accCount = 0 /\ Cardinality(ends) <= StormThreshold
  <2>1. ClocksOK(s.n) /\ s.n.t \in Nat /\ Cardinality(ends) \in Nat /\ StormThreshold \in Nat
        /\ StormWindow \in Nat
    BY <1>2, <1>8, FS_CardinalityType, NodeAssumption DEF Whole, Books, Nodes
  <2>2. CASE ~s2.n.storm /\ Cardinality(ends) > StormThreshold
    <3>1. s.n.accCount = 0
      BY <1>7, <2>1, <2>2 DEF ClocksOK
    <3>2. n4 = [n3 EXCEPT !.storm = TRUE, !.windowStart = n3.t, !.accCount = 0, !.accRun = 0]
      BY <1>15, <2>2 DEF EnterStorm
    <3>3. n3.t \in Int /\ TRUE \in BOOLEAN /\ 0 \in Nat /\ 0 \in Int
      BY <1>9 DEF Nodes
    <3>4. n4 \in Nodes
      BY <1>9, <3>2, <3>3 DEF Nodes
    <3>5. /\ n4.recentEnds = n3.recentEnds
          /\ n4.cyclesHB = n3.cyclesHB /\ n4.t = n3.t /\ n4.nextHB = n3.nextHB
          /\ n4.high = n3.high /\ n4.mains = n3.mains
          /\ n4.vol = n3.vol /\ n4.stop = n3.stop /\ n4.lastAlarm = n3.lastAlarm
          /\ n4.accCount = 0 /\ n4.storm /\ n4.windowStart = n3.t
      BY <1>9, <3>2 DEF Nodes
    <3> QED
      BY <1>9, <2>1, <3>1, <3>4, <3>5
  <2>3. CASE ~(~s2.n.storm /\ Cardinality(ends) > StormThreshold)
    <3>1. n4 = n3
      BY <1>15, <2>3
    <3> QED
      BY <1>7, <1>9, <2>1, <2>3, <3>1 DEF ClocksOK
  <2> QED
    BY <2>2, <2>3
<1>11. /\ s.n.t \in Nat /\ s.n.accCount \in Nat /\ s.n.cyclesHB \in Nat
       /\ s.told.events \in Nat /\ s.told.summarised \in Nat /\ s.told.beats \in Nat
       /\ s.told.recent \in SUBSET Ends
       /\ RunsTold(s) /\ Counted(s) /\ Rationed(s) /\ Fresh(s) /\ ClocksOK(s.n)
  BY <1>2 DEF Nodes, Tolds, Whole, Books
<1>12. CASE n4.storm
  <2>1. r = [s2 EXCEPT !.n = n5]
    BY <1>1, <1>12
  <2>2. /\ n5 \in Nodes /\ n5.recentEnds = ends
        /\ n5.cyclesHB = s.n.cyclesHB + 1 /\ n5.t = s.n.t /\ n5.nextHB = s.n.nextHB
        /\ n5.high = s.n.high /\ n5.mains = s.n.mains
        /\ n5.vol = s.n.vol /\ n5.stop = s.n.stop /\ n5.lastAlarm = s2.n.lastAlarm
        /\ n5.accCount = s.n.accCount + 1 /\ n5.storm = n4.storm /\ n5.windowStart = n4.windowStart
    <3>1. n5 = [n4 EXCEPT !.accCount = ac, !.accRun = ar]
      BY <1>10 DEF Nodes
    <3>2. ac \in Nat /\ ar \in Int /\ ac = s.n.accCount + 1
      BY <1>10 DEF Nodes
    <3> HIDE DEF ac, ar, n5
    <3>3. n5 \in Nodes
      BY <1>10, <3>1, <3>2 DEF Nodes
    <3>4. /\ n5.recentEnds = n4.recentEnds
          /\ n5.cyclesHB = n4.cyclesHB /\ n5.t = n4.t /\ n5.nextHB = n4.nextHB
          /\ n5.high = n4.high /\ n5.mains = n4.mains
          /\ n5.vol = n4.vol /\ n5.stop = n4.stop /\ n5.lastAlarm = n4.lastAlarm
          /\ n5.accCount = ac /\ n5.storm = n4.storm /\ n5.windowStart = n4.windowStart
      BY <1>10, <3>1, <3>2 DEF Nodes
    <3> QED
      BY <1>10, <3>2, <3>3, <3>4
  <2> HIDE DEF n5
  <2>3. r.n = n5 /\ r.told = s2.told /\ r.truth = s.truth + 1 /\ DOMAIN r = {"n", "out", "told", "truth"}
    BY <1>7, <2>1
  <2>4. Typed(r) /\ Remembered(r)
    BY <1>2, <1>6, <1>7, <2>2, <2>3 DEF Typed, Remembered
  <2>5. ClocksOK(r.n)
    BY <1>10, <1>11, <1>12, <2>2, <2>3 DEF ClocksOK
  <2>6. RunsTold(r) /\ Counted(r)
    BY <1>2, <1>7, <1>11, <2>2, <2>3 DEF RunsTold, Counted, Tally, SameTold
  <2>7. Rationed(r) /\ Fresh(r)
    BY <1>7, <1>8, <1>11, <2>2, <2>3 DEF Rationed, Fresh, SameTold
  <2>8. Kept(s, r)
    BY <1>7, <2>2, <2>3 DEF Kept
  <2> QED
    BY <2>4, <2>5, <2>6, <2>7, <2>8 DEF Whole, Books
<1>13. CASE ~n4.storm
  <2> DEFINE x == [s2 EXCEPT !.n = n4]
             h == Heard(s2.told, up, s.n.t)
  <2>1. r = Send(x, up)
    BY <1>1, <1>13
  <2>2. /\ x.n = n4 /\ x.told = s2.told /\ x.truth = s.truth + 1
        /\ DOMAIN x = {"n", "out", "told", "truth"}
    BY <1>7
  <2> HIDE DEF x
  <2>3. h = [s2.told EXCEPT !.events = @ + 1, !.recent = @ \cup {[at |-> s.n.t, pump |-> pump]}]
    BY DEF Heard
  <2>4. /\ h \in Tolds /\ h.events = s.told.events + 1 /\ h.summarised = s.told.summarised
        /\ h.beats = s.told.beats /\ h.saturated = s.told.saturated
        /\ h.recent = s.told.recent \cup {[at |-> s.n.t, pump |-> pump]}
        /\ h.alarmed = s2.told.alarmed /\ h.highAt = s2.told.highAt
    <3> HIDE DEF h
    <3> DEFINE ev == s2.told.events + 1
               rc == s2.told.recent \cup {[at |-> s.n.t, pump |-> pump]}
    <3>1. ev \in Nat /\ rc \in SUBSET Ends
      BY <1>7, <1>8 DEF Tolds
    <3>2. h = [s2.told EXCEPT !.events = ev, !.recent = rc]
      BY <1>7, <2>3 DEF Tolds
    <3> HIDE DEF ev, rc
    <3>3. /\ h \in Tolds /\ h.events = ev /\ h.recent = rc /\ h.summarised = s2.told.summarised
          /\ h.beats = s2.told.beats /\ h.saturated = s2.told.saturated
          /\ h.alarmed = s2.told.alarmed /\ h.highAt = s2.told.highAt
      BY <1>7, <3>1, <3>2 DEF Tolds
    <3> QED
      BY <1>7, <3>3 DEF ev, rc, SameTold
  <2>5. r = [x EXCEPT !.out = Append(@, up), !.told = h]
    BY <1>10, <2>1, <2>2 DEF Send
  <2> HIDE DEF h
  <2>6. r.n = n4 /\ r.told = h /\ r.truth = s.truth + 1 /\ DOMAIN r = {"n", "out", "told", "truth"}
    BY <2>2, <2>5
  <2>7. Typed(r) /\ Remembered(r)
    BY <1>2, <1>6, <1>10, <2>4, <2>6 DEF Typed, Remembered
  <2>8. ClocksOK(r.n)
    BY <1>10, <1>11, <1>13, <2>6 DEF ClocksOK
  <2>9. RunsTold(r) /\ Counted(r)
    BY <1>2, <1>10, <1>11, <2>4, <2>6 DEF RunsTold, Counted, Tally
  <2>10. Rationed(r) /\ Fresh(r)
    <3>1. r.told.recent \in SUBSET ends
      BY <1>8, <2>4, <2>6
    <3>2. Cardinality(r.told.recent) <= StormThreshold
      <4>1. /\ Cardinality(r.told.recent) <= Cardinality(ends) /\ Cardinality(r.told.recent) \in Nat
            /\ Cardinality(ends) \in Nat
        BY <1>8, <3>1, FS_Subset, FS_CardinalityType
      <4> QED
        BY <1>10, <1>13, <4>1, NodeAssumption
    <3>3. \A e \in r.told.recent : r.n.t - e.at < StormWindow
      BY <1>10, <1>11, <2>4, <2>6, NodeAssumption DEF Fresh
    <3> QED
      BY <1>8, <1>10, <2>6, <3>1, <3>2, <3>3 DEF Rationed, Fresh
  <2>11. Kept(s, r)
    BY <1>7, <1>10, <2>4, <2>6 DEF Kept
  <2> QED
    BY <2>7, <2>8, <2>9, <2>10, <2>11 DEF Whole, Books
<1> QED
  BY <1>12, <1>13

\* A change of the pit or the pumps leaves the books alone.
SameBooks(n, m) ==
    /\ m.t = n.t /\ m.nextHB = n.nextHB /\ m.storm = n.storm /\ m.windowStart = n.windowStart
    /\ m.accCount = n.accCount /\ m.cyclesHB = n.cyclesHB /\ m.recentEnds = n.recentEnds
    /\ m.lastAlarm = n.lastAlarm

\* A state whose pumps change has the same books.
LEMMA PumpChanges ==
    ASSUME NEW s, Whole(s), NEW n \in Nodes, SameBooks(s.n, n), n.vol >= n.stop,
           NEW r, r = [s EXCEPT !.n = n]
    PROVE  Whole(r) /\ r.n = n /\ r.told = s.told /\ r.truth = s.truth
<1>1. DOMAIN s = {"n", "out", "told", "truth"} /\ Typed(s)
  BY DEF Whole, Books, Typed
<1>2. /\ r.n = n /\ r.told = s.told /\ r.truth = s.truth
      /\ DOMAIN r = {"n", "out", "told", "truth"}
  BY <1>1
<1>3. Typed(r)
  BY <1>1, <1>2 DEF Typed
<1> QED
  BY <1>2, <1>3 DEF Whole, Books, SameBooks, RunsTold, Counted, Rationed, Fresh, Remembered, ClocksOK

\* What flows in and back disturbs nothing that was told.
LEMMA HydrologyWhole ==
    ASSUME NEW s, Whole(s), NEW q \in Nat, NEW r, r = Hydrology(s, q)
    PROVE  Whole(r) /\ Kept(s, r)
<1> DEFINE back == Min({1, s.n.backflow})
           v == s.n.vol + q + back
           b == s.n.backflow - back
           n == [s.n EXCEPT !.vol = v, !.backflow = b]
<1>1. s.n \in Nodes /\ s.n.backflow \in Nat /\ s.n.vol \in Int /\ s.n.stop \in Nat /\ s.n.vol >= s.n.stop
  BY DEF Whole, Books, Typed, Nodes, ClocksOK
<1>2. back \in Nat /\ b \in Nat /\ v \in Int /\ v >= s.n.stop
  <2>1. back \in {1, s.n.backflow} /\ back <= s.n.backflow
    BY <1>1, Least1
  <2> HIDE DEF back
  <2> QED
    BY <1>1, <2>1
<1>3. r = [s EXCEPT !.n = n]
  BY <1>1 DEF Hydrology, Nodes
<1> HIDE DEF back, v, b
<1>4. n \in Nodes /\ SameBooks(s.n, n) /\ n.vol = v /\ n.stop = s.n.stop /\ n.high = s.n.high
      /\ n.mains = s.n.mains
  BY <1>1, <1>2 DEF Nodes, SameBooks
<1> HIDE DEF n
<1>5. Whole(r) /\ r.n = n /\ r.told = s.told
  BY <1>2, <1>3, <1>4, PumpChanges
<1> QED
  BY <1>4, <1>5 DEF Kept, SameBooks

\* When the mains go an alarm tells, or told in the last AlarmHoldoff.
LEMMA MainsWhole ==
    ASSUME NEW s, Whole(s), NEW mains \in BOOLEAN, NEW r, r = Mains(s, mains)
    PROVE  /\ Whole(r) /\ r.n.t = s.n.t /\ r.n.nextHB = s.n.nextHB /\ r.n.high = s.n.high
           /\ r.n.mains = mains
           /\ r.told.highAt = s.told.highAt \/ r.told.highAt = s.n.t
           /\ s.n.mains /\ ~mains =>
                /\ r.n.lastAlarm["mains_lost"] # Never
                /\ s.n.t - r.n.lastAlarm["mains_lost"] < AlarmHoldoff
<1> DEFINE n == [s.n EXCEPT !.mains = mains]
           x == [s EXCEPT !.n = n]
<1>1. s.n \in Nodes /\ s.n.vol >= s.n.stop
  BY DEF Whole, Books, Typed, ClocksOK
<1>2. n \in Nodes /\ SameBooks(s.n, n) /\ n.vol = s.n.vol /\ n.stop = s.n.stop /\ n.high = s.n.high
      /\ n.mains = mains
  BY <1>1 DEF Nodes, SameBooks
<1>3. x = [s EXCEPT !.n.mains = mains]
  OBVIOUS
<1>4. r = IF s.n.mains /\ ~mains THEN raiseAlarm(x, "mains_lost") ELSE x
  BY <1>3 DEF Mains
<1> HIDE DEF n
<1>5. Whole(x) /\ x.n = n /\ x.told = s.told
  BY <1>1, <1>2, PumpChanges
<1> HIDE DEF x
<1>6. CASE s.n.mains /\ ~mains
  <2>1. "mains_lost" \in Codes /\ Typed(x) /\ Remembered(x)
    BY <1>5 DEF Codes, Whole, Books
  <2>2. Alarmed(x, "mains_lost", r)
    BY <1>4, <1>6, <2>1, AlarmIs
  <2>3. Whole(r)
    BY <1>5, <2>2, WholeSame DEF Alarmed
  <2> QED
    BY <1>2, <1>5, <2>2, <2>3 DEF Alarmed, SameNode, SameBooks
<1>7. CASE ~(s.n.mains /\ ~mains)
  <2>1. r = x
    BY <1>4, <1>7
  <2> QED
    BY <1>2, <1>5, <1>7, <2>1 DEF SameBooks
<1> QED
  BY <1>6, <1>7

\* A pump's rate is a number, whatever its health.
LEMMA RateType ==
    ASSUME NEW n \in Nodes
    PROVE  primaryRate(n) \in Int
<1> DEFINE left == Max({0, 9 * ScenarioLength - 10 * n.t})
           all == 9 * ScenarioLength
           p == PumpRate * left
<1>1. n.t \in Nat /\ PumpRate \in Nat /\ ScenarioLength \in Nat \ {0} /\ all \in Nat \ {0}
  BY NodeAssumption DEF Nodes
<1>2. left \in Int
  <2> DEFINE m == 9 * ScenarioLength - 10 * n.t
  <2>1. m \in Int
    BY <1>1
  <2> HIDE DEF m
  <2>2. Max({0, m}) \in Int
    BY <2>1, Most0
  <2> QED
    BY <2>2 DEF m
<1>3. primaryRate(n) \in {0, p \div all, PumpRate}
  BY DEF primaryRate
<1> HIDE DEF left, all
<1>4. p \in Int
  BY <1>1, <1>2
<1> HIDE DEF p
<1>5. p \div all \in Int
  BY <1>1, <1>4
<1> QED
  BY <1>1, <1>3, <1>5

\* Switching the primary pump on leaves the books alone.
LEMMA PrimaryOnIs ==
    ASSUME NEW n \in Nodes, NEW m, m = PrimaryOn(n)
    PROVE  /\ m \in Nodes /\ SameBooks(n, m) /\ m.vol = n.vol /\ m.stop = n.stop
           /\ m.high = n.high /\ m.mains = n.mains
<1>1. CASE PrimaryStarts(n)
  <2>1. m = [n EXCEPT !.on = TRUE, !.onAt = n.t, !.startVol = n.vol, !.raised = FALSE]
    BY <1>1 DEF PrimaryOn
  <2>2. n.t \in Int /\ n.vol \in Int
    BY DEF Nodes
  <2>3. m \in Nodes
    BY <2>1, <2>2 DEF Nodes
  <2> QED
    BY <2>1, <2>2, <2>3 DEF Nodes, SameBooks
<1>2. CASE ~PrimaryStarts(n)
  BY <1>2 DEF PrimaryOn, SameBooks
<1> QED
  BY <1>1, <1>2

\* Switching the backup pump on leaves the books alone.
LEMMA BackupOnIs ==
    ASSUME NEW n \in Nodes, NEW m, m = BackupOn(n)
    PROVE  /\ m \in Nodes /\ SameBooks(n, m) /\ m.vol = n.vol /\ m.stop = n.stop
           /\ m.high = n.high /\ m.mains = n.mains
<1>1. CASE ~n.backupOn /\ n.vol >= BackupVol
  <2>1. m = [n EXCEPT !.backupOn = TRUE, !.backupAt = n.t, !.backupVol = n.vol]
    BY <1>1 DEF BackupOn
  <2>2. n.t \in Int /\ n.vol \in Int
    BY DEF Nodes
  <2>3. m \in Nodes
    BY <2>1, <2>2 DEF Nodes
  <2> QED
    BY <2>1, <2>2, <2>3 DEF Nodes, SameBooks
<1>2. CASE ~(~n.backupOn /\ n.vol >= BackupVol)
  BY <1>2 DEF BackupOn, SameBooks
<1> QED
  BY <1>1, <1>2

\* What two parts of a step leave alone, both together do.
LEMMA KeptTrans ==
    ASSUME NEW a, NEW b, NEW c, Kept(a, b), Kept(b, c)
    PROVE  Kept(a, c)
BY DEF Kept

\* A setting of the pumps, on a state.
LEMMA PumpKept ==
    ASSUME NEW s, Whole(s), NEW n \in Nodes, SameBooks(s.n, n), n.vol >= n.stop,
           n.high = s.n.high, n.mains = s.n.mains, NEW r, r = [s EXCEPT !.n = n]
    PROVE  Whole(r) /\ Kept(s, r) /\ r.n = n
<1>1. Whole(r) /\ r.n = n /\ r.told = s.told
  BY PumpChanges
<1> QED
  BY <1>1 DEF Kept, SameBooks

\* The backup pump starts, runs or ends a run, which is counted.
LEMMA BackupWhole ==
    ASSUME NEW s, Whole(s), NEW r, r = Backup(s)
    PROVE  Whole(r) /\ Kept(s, r)
<1> DEFINE n1 == BackupOn(s.n)
           pumped == n1.vol - PumpRate
           v == Max({pumped, n1.stop})
           n2 == [n1 EXCEPT !.vol = v]
           s2 == [s EXCEPT !.n = n2]
           s3 == [s2 EXCEPT !.n.backupOn = FALSE, !.n.backupRan = TRUE]
           run == n1.t - n1.backupAt
<1>1. r = IF ~s.n.hasBackup \/ ~n1.backupOn THEN s
          ELSE IF pumped > n1.stop THEN s2
          ELSE endCycle(s3, "backup", run, n1.backupVol)
  BY DEF Backup
<1>2. s.n \in Nodes
  BY DEF Whole, Books, Typed
<1>3. /\ n1 \in Nodes /\ SameBooks(s.n, n1) /\ n1.vol = s.n.vol /\ n1.stop = s.n.stop
      /\ n1.high = s.n.high /\ n1.mains = s.n.mains
  BY <1>2, BackupOnIs
<1> HIDE DEF n1
<1>4. v \in Int /\ v >= n1.stop /\ run \in Int /\ n1.backupVol \in Int
  <2>1. n1.vol \in Int /\ n1.stop \in Int /\ n1.t \in Int /\ n1.backupAt \in Int /\ n1.backupVol \in Int
        /\ PumpRate \in Int
    BY <1>3, NodeAssumption DEF Nodes
  <2>2. pumped \in Int
    BY <2>1
  <2> HIDE DEF pumped
  <2>3. v \in {pumped, n1.stop} /\ v >= n1.stop
    BY <2>1, <2>2, Max2
  <2> QED
    BY <2>1, <2>2, <2>3
<1> HIDE DEF v, run
<1>5. /\ n2 \in Nodes /\ SameBooks(s.n, n2) /\ n2.vol = v /\ n2.stop = n1.stop
      /\ n2.high = s.n.high /\ n2.mains = s.n.mains
  BY <1>3, <1>4 DEF Nodes, SameBooks
<1> HIDE DEF n2
<1>6. Whole(s2) /\ Kept(s, s2) /\ s2.n = n2
  BY <1>4, <1>5, PumpKept
<1> HIDE DEF s2
<1>7. Whole(s3) /\ Kept(s2, s3)
  <2> DEFINE n3 == [n2 EXCEPT !.backupOn = FALSE, !.backupRan = TRUE]
  <2>1. s3 = [s2 EXCEPT !.n = n3]
    BY <1>5, <1>6 DEF Nodes
  <2>2. /\ n3 \in Nodes /\ SameBooks(n2, n3) /\ n3.vol = n2.vol /\ n3.stop = n2.stop
        /\ n3.high = n2.high /\ n3.mains = n2.mains
    BY <1>5 DEF Nodes, SameBooks
  <2> HIDE DEF n3, s3
  <2> QED
    BY <1>4, <1>5, <1>6, <2>1, <2>2, PumpKept
<1> HIDE DEF s3
<1>8. CASE r = endCycle(s3, "backup", run, n1.backupVol)
  <2>1. Whole(r) /\ Kept(s3, r)
    BY <1>4, <1>7, <1>8, EndCycleWhole
  <2> QED
    BY <1>6, <1>7, <2>1, KeptTrans
<1>9. CASE r = s
  BY <1>9 DEF Kept
<1> QED
  BY <1>1, <1>6, <1>8, <1>9

\* The primary pump starts, runs, trips or ends a run, which is counted; an alarm
\* tells of a run that is dry or does not end.
LEMMA PrimaryWhole ==
    ASSUME NEW s, Whole(s), NEW r, r = Primary(s)
    PROVE  Whole(r) /\ Kept(s, r)
<1> DEFINE n1 == PrimaryOn(s.n)
           pumped == n1.vol - primaryRate(n1)
           v == Max({pumped, n1.stop})
           run == n1.t - n1.onAt
           hot == n1.health = "dry_running" /\ run >= ThermalRun
           long == ~n1.raised /\ run > ContinuousRun
           stop == pumped <= n1.stop \/ ~n1.mains \/ hot
           n2 == [n1 EXCEPT !.vol = v, !.raised = @ \/ long,
                            !.restUntil = IF hot THEN n1.t + ThermalRest ELSE @]
           s2 == [s EXCEPT !.n = n2]
           s3 == IF long THEN raiseAlarm(s2, "continuous_run") ELSE s2
           x == [s3 EXCEPT !.n.on = FALSE]
           s4 == endCycle(x, "primary", run, n1.startVol)
           back == ((n1.startVol - v) * 85) \div 100
<1>1. r = IF ~n1.on THEN s
          ELSE IF ~stop THEN s3
          ELSE IF n1.health = "short_cycling" /\ n1.startVol > v
               THEN [s4 EXCEPT !.n.backflow = back]
          ELSE s4
  BY DEF Primary
<1>2. s.n \in Nodes
  BY DEF Whole, Books, Typed
<1>3. /\ n1 \in Nodes /\ SameBooks(s.n, n1) /\ n1.vol = s.n.vol /\ n1.stop = s.n.stop
      /\ n1.high = s.n.high /\ n1.mains = s.n.mains
  BY <1>2, PrimaryOnIs
<1> HIDE DEF n1
<1>4. /\ v \in Int /\ v >= n1.stop /\ run \in Int /\ n1.startVol \in Int
      /\ n1.startVol > v => back \in Nat
  <2>1. n1.vol \in Int /\ n1.stop \in Int /\ n1.t \in Int /\ n1.onAt \in Int /\ n1.startVol \in Int
    BY <1>3 DEF Nodes
  <2>2. pumped \in Int
    BY <1>3, <2>1, RateType
  <2> HIDE DEF pumped
  <2>3. v \in {pumped, n1.stop} /\ v >= n1.stop
    BY <2>1, <2>2, Max2
  <2> HIDE DEF v
  <2> QED
    BY <2>1, <2>2, <2>3
<1>5. long \in BOOLEAN
  OBVIOUS
<1> HIDE DEF v, run, back, long, stop
<1>6. /\ n2 \in Nodes /\ SameBooks(s.n, n2) /\ n2.vol = v /\ n2.stop = n1.stop
      /\ n2.high = s.n.high /\ n2.mains = s.n.mains
  <2> DEFINE ra == n1.raised \/ long
             ru == IF hot THEN n1.t + ThermalRest ELSE n1.restUntil
  <2>1. n2 = [n1 EXCEPT !.vol = v, !.raised = ra, !.restUntil = ru]
    BY <1>3 DEF Nodes
  <2>2. ra \in BOOLEAN
    BY <1>5
  <2>3. ru \in Int
    BY <1>3, NodeAssumption DEF Nodes
  <2> HIDE DEF ra, ru, n2, hot
  <2>4. n2 \in Nodes
    BY <1>3, <1>4, <2>1, <2>2, <2>3 DEF Nodes
  <2>5. SameBooks(n1, n2) /\ n2.vol = v /\ n2.stop = n1.stop
        /\ n2.high = n1.high /\ n2.mains = n1.mains
    BY <1>3, <2>1 DEF Nodes, SameBooks
  <2> QED
    BY <1>3, <2>4, <2>5 DEF SameBooks
<1> HIDE DEF n2
<1>7. Whole(s2) /\ Kept(s, s2) /\ s2.n = n2
  BY <1>4, <1>6, PumpKept
<1> HIDE DEF s2
<1>8. Whole(s3) /\ Kept(s2, s3)
  <2>1. CASE s3 = raiseAlarm(s2, "continuous_run")
    <3>1. "continuous_run" \in Codes \ {"mains_lost"} /\ Typed(s2) /\ Remembered(s2)
      BY <1>7 DEF Codes, Whole, Books
    <3> HIDE DEF s3
    <3>2. /\ Typed(s3) /\ Remembered(s3) /\ s3.truth = s2.truth
          /\ SameNode(s2.n, s3.n) /\ SameTold(s2.told, s3.told) /\ Kept(s2, s3)
      BY <2>1, <3>1, AlarmSame
    <3> QED
      BY <1>7, <3>2, WholeSame
  <2>2. CASE s3 = s2
    BY <1>7, <2>2 DEF Kept
  <2> QED
    BY <2>1, <2>2
<1> HIDE DEF s3
<1>9. Whole(x) /\ Kept(s3, x)
  <2> DEFINE n3 == [s3.n EXCEPT !.on = FALSE]
  <2>1. x = [s3 EXCEPT !.n = n3]
    OBVIOUS
  <2>2. s3.n \in Nodes /\ s3.n.vol >= s3.n.stop
    BY <1>8 DEF Whole, Books, Typed, ClocksOK
  <2>3. /\ n3 \in Nodes /\ SameBooks(s3.n, n3) /\ n3.vol = s3.n.vol /\ n3.stop = s3.n.stop
        /\ n3.high = s3.n.high /\ n3.mains = s3.n.mains
    BY <2>2 DEF Nodes, SameBooks
  <2> HIDE DEF n3, x
  <2> QED
    BY <1>8, <2>1, <2>2, <2>3, PumpKept
<1> HIDE DEF x
<1>10. Whole(s4) /\ Kept(x, s4)
  BY <1>4, <1>9, EndCycleWhole
<1> HIDE DEF s4
<1>11. Kept(s, s3) /\ Kept(s, s4)
  BY <1>7, <1>8, <1>9, <1>10, KeptTrans
<1>12. CASE n1.startVol > v /\ r = [s4 EXCEPT !.n.backflow = back]
  <2> DEFINE n5 == [s4.n EXCEPT !.backflow = back]
  <2>1. r = [s4 EXCEPT !.n = n5]
    BY <1>12
  <2>2. s4.n \in Nodes /\ s4.n.vol >= s4.n.stop /\ back \in Nat
    BY <1>4, <1>10, <1>12 DEF Whole, Books, Typed, ClocksOK
  <2>3. /\ n5 \in Nodes /\ SameBooks(s4.n, n5) /\ n5.vol = s4.n.vol /\ n5.stop = s4.n.stop
        /\ n5.high = s4.n.high /\ n5.mains = s4.n.mains
    BY <2>2 DEF Nodes, SameBooks
  <2> HIDE DEF n5
  <2>4. Whole(r) /\ Kept(s4, r)
    BY <1>10, <2>1, <2>2, <2>3, PumpKept
  <2> QED
    BY <1>11, <2>4, KeptTrans
<1>13. CASE r = s
  BY <1>13 DEF Kept
<1> QED
  BY <1>1, <1>8, <1>10, <1>11, <1>12, <1>13

\* The float follows the level, and an alarm tells when it rises.
LEMMA FloatWhole ==
    ASSUME NEW s, Whole(s), NEW r, r = Float(s)
    PROVE  /\ Whole(r) /\ r.n.t = s.n.t /\ r.n.nextHB = s.n.nextHB /\ r.n.mains = s.n.mains
           /\ r.n.lastAlarm["mains_lost"] = s.n.lastAlarm["mains_lost"]
           /\ r.told.highAt = s.told.highAt \/ r.told.highAt = s.n.t
<1> DEFINE high == s.n.vol >= FloatHigh
           x == IF high /\ ~s.n.high THEN raiseAlarm(s, "float_high") ELSE s
           n == [x.n EXCEPT !.high = high]
<1>1. r = [x EXCEPT !.n = n]
  BY DEF Float
<1>2. high \in BOOLEAN
  OBVIOUS
<1>3. Whole(x) /\ Kept(s, x)
  <2>1. CASE x = raiseAlarm(s, "float_high")
    <3>1. "float_high" \in Codes \ {"mains_lost"} /\ Typed(s) /\ Remembered(s)
      BY DEF Codes, Whole, Books
    <3> HIDE DEF x
    <3>2. /\ Typed(x) /\ Remembered(x) /\ x.truth = s.truth
          /\ SameNode(s.n, x.n) /\ SameTold(s.told, x.told) /\ Kept(s, x)
      BY <2>1, <3>1, AlarmSame
    <3> QED
      BY <3>2, WholeSame
  <2>2. CASE x = s
    BY <2>2 DEF Kept
  <2> QED
    BY <2>1, <2>2
<1> HIDE DEF x, high
<1>4. x.n \in Nodes /\ x.n.vol >= x.n.stop
  BY <1>3 DEF Whole, Books, Typed, ClocksOK
<1>5. n \in Nodes /\ SameBooks(x.n, n) /\ n.vol = x.n.vol /\ n.stop = x.n.stop /\ n.mains = x.n.mains
  BY <1>2, <1>4 DEF Nodes, SameBooks
<1> HIDE DEF n
<1>6. Whole(r) /\ r.n = n /\ r.told = x.told
  BY <1>1, <1>3, <1>4, <1>5, PumpChanges
<1> QED
  BY <1>3, <1>5, <1>6 DEF Kept, SameBooks

\* An uplink is sent with a change of the node.
LEMMA SendIs ==
    ASSUME NEW s, Typed(s), NEW n \in Nodes, NEW up, NEW h \in Tolds, h = Heard(s.told, up, n.t),
           NEW r, r = Send([s EXCEPT !.n = n], up)
    PROVE  Typed(r) /\ r.n = n /\ r.told = h /\ r.truth = s.truth
<1> DEFINE x == [s EXCEPT !.n = n]
<1>1. x.n = n /\ x.told = s.told /\ x.truth = s.truth /\ DOMAIN x = {"n", "out", "told", "truth"}
  BY DEF Typed
<1>2. r = Send(x, up)
  OBVIOUS
<1> HIDE DEF x
<1>3. r = [x EXCEPT !.out = Append(@, up), !.told = h]
  BY <1>1, <1>2 DEF Send
<1>4. /\ r.n = n /\ r.told = h /\ r.truth = s.truth /\ DOMAIN r = {"n", "out", "told", "truth"}
  BY <1>1, <1>3
<1> QED
  BY <1>4 DEF Typed

\* A window that is full is told of, and begins again.
LEMMA SummaryWhole ==
    ASSUME NEW s, Whole(s), NEW r, r = emitStormSummary(s)
    PROVE  /\ Whole(r) /\ Kept(s, r)
           /\ r.n.storm => r.n.t - r.n.windowStart < StormWindow
<1> DEFINE saying == Min({s.n.accCount, MaxCount})
           up == [kind |-> "summary", count |-> saying, run |-> s.n.accRun]
           st == s.n.accCount > StormThreshold
           n == [s.n EXCEPT !.storm = st, !.windowStart = s.n.t, !.accCount = 0, !.accRun = 0]
           su == s.told.summarised + saying
           sa == s.told.saturated \/ saying = MaxCount
           h == [s.told EXCEPT !.summarised = su, !.saturated = sa]
<1>1. /\ Typed(s) /\ s.n \in Nodes /\ s.told \in Tolds /\ Books(s) /\ Fresh(s)
      /\ s.n.accCount \in Nat /\ s.n.t \in Nat /\ s.told.summarised \in Nat /\ s.told.saturated \in BOOLEAN
      /\ s.n.windowStart \in Int /\ s.truth \in Nat /\ s.told.events \in Nat
  BY DEF Whole, Books, Typed, Nodes, Tolds
<1>2. CASE ~s.n.storm \/ s.n.t - s.n.windowStart < StormWindow
  <2>1. r = s
    BY <1>2 DEF emitStormSummary
  <2> QED
    BY <1>2, <2>1 DEF Kept
<1>3. CASE ~(~s.n.storm \/ s.n.t - s.n.windowStart < StormWindow)
  <2>1. r = Send([s EXCEPT !.n = n], up)
    BY <1>3 DEF emitStormSummary
  <2>2. saying \in Nat /\ saying <= s.n.accCount /\ (saying = s.n.accCount \/ saying = MaxCount)
    BY <1>1, CountIs, NodeAssumption
  <2>3. Heard(s.told, up, s.n.t) = h
    BY <1>1 DEF Heard, Tolds
  <2> HIDE DEF saying
  <2>4. su \in Nat /\ sa \in BOOLEAN /\ st \in BOOLEAN
    BY <1>1, <2>2
  <2> HIDE DEF up, st
  <2>5. n \in Nodes
    <3>1. n = [s.n EXCEPT !.storm = st, !.windowStart = s.n.t, !.accCount = 0, !.accRun = 0]
      OBVIOUS
    <3>2. s.n.t \in Int /\ 0 \in Nat /\ 0 \in Int
      BY <1>1
    <3> HIDE DEF n
    <3> QED
      BY <1>1, <2>4, <3>1, <3>2 DEF Nodes
  <2>6. /\ n.t = s.n.t /\ n.nextHB = s.n.nextHB /\ n.high = s.n.high /\ n.mains = s.n.mains
        /\ n.vol = s.n.vol /\ n.stop = s.n.stop /\ n.windowStart = s.n.t /\ n.accCount = 0
        /\ n.cyclesHB = s.n.cyclesHB /\ n.recentEnds = s.n.recentEnds /\ n.lastAlarm = s.n.lastAlarm
    BY <1>1 DEF Nodes
  <2> HIDE DEF n
  <2>7. h \in Tolds
    <3> HIDE DEF su, sa
    <3> QED
      BY <1>1, <2>4 DEF Tolds
  <2>8. /\ h.summarised = su /\ h.saturated = sa /\ h.events = s.told.events
        /\ h.beats = s.told.beats /\ h.recent = s.told.recent /\ h.highAt = s.told.highAt
        /\ h.alarmed = s.told.alarmed
    <3> HIDE DEF su, sa
    <3> QED
      BY <1>1 DEF Tolds
  <2> HIDE DEF h
  <2>9. Typed(r) /\ r.n = n /\ r.told = h /\ r.truth = s.truth
    BY <1>1, <2>1, <2>3, <2>5, <2>6, <2>7, SendIs
  <2>10. ClocksOK(r.n) /\ (r.n.storm => r.n.t - r.n.windowStart < StormWindow)
    BY <1>1, <2>6, <2>9, NodeAssumption DEF ClocksOK, Books
  <2>11. RunsTold(r)
    <3>1. Tally(s.told.events + s.told.summarised + s.n.accCount, s.truth, s.told.saturated)
      BY <1>1 DEF Books, RunsTold
    <3> DEFINE a == s.told.events + s.told.summarised
    <3>2. a \in Nat /\ a + s.n.accCount = s.told.events + s.told.summarised + s.n.accCount
      BY <1>1
    <3>3. r.told.events + r.told.summarised + r.n.accCount = a + saying
      BY <1>1, <2>2, <2>6, <2>8, <2>9
    <3>5. Tally(a + s.n.accCount, s.truth, s.told.saturated)
      BY <3>1
    <3> HIDE DEF a
    <3>4. Tally(a + saying, s.truth, sa)
      <4>1. a \in Nat /\ (sa <=> s.told.saturated \/ saying = MaxCount)
        BY <3>2
      <4> HIDE DEF sa
      <4> QED
        BY <1>1, <2>2, <2>4, <3>5, <4>1 DEF Tally
    <3> QED
      BY <2>8, <2>9, <3>3, <3>4 DEF RunsTold
  <2>12. Counted(r)
    <3>1. s.told.beats \in Nat /\ s.n.cyclesHB \in Nat
      BY <1>1 DEF Nodes, Tolds
    <3> QED
      BY <1>1, <2>4, <2>6, <2>8, <2>9, <3>1 DEF Counted, Tally, Books
  <2>13. Rationed(r) /\ Fresh(r) /\ Remembered(r) /\ Kept(s, r)
    BY <1>1, <2>6, <2>8, <2>9 DEF Rationed, Fresh, Remembered, Kept, Books
  <2> QED
    BY <2>9, <2>10, <2>11, <2>12, <2>13 DEF Whole, Books
<1> QED
  BY <1>2, <1>3

\* A heartbeat that is due is sent, with the float as it is.
LEMMA HeartbeatWhole ==
    ASSUME NEW s, Whole(s), NEW r, r = emitHeartbeat(s)
    PROVE  /\ Whole(r) /\ r.n.t = s.n.t /\ r.n.high = s.n.high /\ r.n.mains = s.n.mains
           /\ r.n.lastAlarm = s.n.lastAlarm /\ r.n.storm = s.n.storm
           /\ r.n.windowStart = s.n.windowStart
           /\ r.told.highAt = s.told.highAt \/ r.told.highAt = s.n.t
           /\ r.n.nextHB > r.n.t
           /\ r.n.nextHB = s.n.nextHB \/ (s.n.high => r.told.highAt = s.n.t)
<1> DEFINE saying == Min({s.n.cyclesHB, MaxCount})
           up == [kind |-> "heartbeat", cycles |-> saying,
                  high |-> s.n.high, mains |-> s.n.mains, backupRan |-> s.n.backupRan,
                  level |-> distanceMM(s.n.vol)]
           nx == s.n.nextHB + HeartbeatInterval
           n == [s.n EXCEPT !.cyclesHB = 0, !.backupRan = FALSE, !.nextHB = nx]
           be == s.told.beats + saying
           sa == s.told.saturated \/ saying = MaxCount
           hi == IF s.n.high THEN s.n.t ELSE s.told.highAt
           h == [s.told EXCEPT !.beats = be, !.saturated = sa, !.highAt = hi]
<1>1. /\ Typed(s) /\ s.n \in Nodes /\ s.told \in Tolds /\ Books(s) /\ Fresh(s)
      /\ s.n.cyclesHB \in Nat /\ s.n.t \in Nat /\ s.told.beats \in Nat /\ s.told.saturated \in BOOLEAN
      /\ s.n.nextHB \in Int /\ s.truth \in Nat /\ s.told.highAt \in Int
      /\ s.n.nextHB \in s.n.t .. s.n.t + HeartbeatInterval
      /\ HeartbeatInterval \in Nat \ {0}
  BY NodeAssumption DEF Whole, Books, Typed, Nodes, Tolds, ClocksOK
<1>2. CASE s.n.t < s.n.nextHB
  <2>1. r = s
    BY <1>2 DEF emitHeartbeat
  <2> QED
    BY <1>1, <1>2, <2>1
<1>3. CASE ~(s.n.t < s.n.nextHB)
  <2>1. r = Send([s EXCEPT !.n = n], up)
    BY <1>3 DEF emitHeartbeat, CyclesAfter, NextHeartbeat, HighFlag
  <2>2. saying \in Nat /\ saying <= s.n.cyclesHB /\ (saying = s.n.cyclesHB \/ saying = MaxCount)
    BY <1>1, CountIs, NodeAssumption
  <2>3. Heard(s.told, up, s.n.t) = h
    BY <1>1 DEF Heard, Tolds
  <2> HIDE DEF saying
  <2>4. be \in Nat /\ sa \in BOOLEAN /\ hi \in Int /\ nx \in Int
    BY <1>1, <2>2
  <2>5. s.n.nextHB = s.n.t /\ nx = s.n.t + HeartbeatInterval
    BY <1>1, <1>3
  <2> HIDE DEF up, nx
  <2>6. n \in Nodes
    BY <1>1, <2>4 DEF Nodes
  <2>7. /\ n.t = s.n.t /\ n.nextHB = nx /\ n.high = s.n.high /\ n.mains = s.n.mains
        /\ n.vol = s.n.vol /\ n.stop = s.n.stop /\ n.windowStart = s.n.windowStart
        /\ n.accCount = s.n.accCount /\ n.storm = s.n.storm
        /\ n.cyclesHB = 0 /\ n.recentEnds = s.n.recentEnds /\ n.lastAlarm = s.n.lastAlarm
    BY <1>1 DEF Nodes
  <2> HIDE DEF n
  <2>8. h \in Tolds
    <3> HIDE DEF be, sa, hi
    <3> QED
      BY <1>1, <2>4 DEF Tolds
  <2>9. /\ h.summarised = s.told.summarised /\ h.saturated = sa /\ h.events = s.told.events
        /\ h.beats = be /\ h.recent = s.told.recent /\ h.highAt = hi
        /\ h.alarmed = s.told.alarmed
    <3> HIDE DEF be, sa, hi
    <3> QED
      BY <1>1 DEF Tolds
  <2> HIDE DEF h
  <2>10. Typed(r) /\ r.n = n /\ r.told = h /\ r.truth = s.truth
    BY <1>1, <2>1, <2>3, <2>6, <2>7, <2>8, SendIs
  <2>11. ClocksOK(r.n)
    BY <1>1, <2>5, <2>7, <2>10 DEF ClocksOK, Books
  <2>12. Counted(r)
    <3>1. Tally(s.told.beats + s.n.cyclesHB, s.truth, s.told.saturated)
      BY <1>1 DEF Books, Counted
    <3>2. r.told.beats + r.n.cyclesHB = s.told.beats + saying
      BY <1>1, <2>2, <2>7, <2>9, <2>10
    <3>3. Tally(s.told.beats + saying, s.truth, sa)
      <4>1. sa <=> s.told.saturated \/ saying = MaxCount
        OBVIOUS
      <4> HIDE DEF sa
      <4> QED
        BY <1>1, <2>2, <2>4, <3>1, <4>1 DEF Tally
    <3> QED
      BY <2>9, <2>10, <3>2, <3>3 DEF Counted
  <2>13. RunsTold(r)
    <3>1. s.told.events \in Nat /\ s.told.summarised \in Nat /\ s.n.accCount \in Nat
      BY <1>1 DEF Nodes, Tolds
    <3> QED
      BY <1>1, <2>4, <2>7, <2>9, <2>10, <3>1 DEF RunsTold, Tally, Books
  <2>14. Rationed(r) /\ Fresh(r) /\ Remembered(r)
    BY <1>1, <2>7, <2>9, <2>10 DEF Rationed, Fresh, Remembered, Books
  <2>15. Whole(r)
    BY <2>10, <2>11, <2>12, <2>13, <2>14 DEF Whole, Books
  <2> QED
    BY <1>1, <2>5, <2>7, <2>9, <2>10, <2>15
<1> QED
  BY <1>2, <1>3

NodeBooks(n, h, runs) == Books([n |-> n, out |-> <<>>, truth |-> runs, told |-> h])

\* High water that lasts was told of, or is told of by the next heartbeat.
HighTold ==
    /\ highSince \in Int /\ (home.high <=> highSince # Never)
    /\ highSince # Never =>
        /\ highSince >= 0 /\ highSince <= home.t
        /\ told.highAt >= highSince \/ home.nextHB <= highSince + HeartbeatInterval

NodeInv == NodeBooks(home, told, truth) /\ HighTold

\* A step begins with the books as the last one left them: events that leave the
\* window are forgotten.
LEMMA BegunWhole ==
    ASSUME NodeBooks(home, told, truth)
    PROVE  Whole(Begun) /\ Begun.n = home /\ Begun.told.highAt = told.highAt
<1> DEFINE s == [n |-> home, out |-> <<>>, truth |-> truth, told |-> told]
           rc == {e \in told.recent : home.t - e.at < StormWindow}
           h == [told EXCEPT !.recent = rc]
<1>1. Books(s) /\ s.n = home /\ s.told = told /\ s.truth = truth
  BY DEF NodeBooks
<1>2. home \in Nodes /\ told \in Tolds /\ truth \in Nat
  BY <1>1 DEF Books, Typed
<1>3. rc \in SUBSET Ends /\ rc \in SUBSET told.recent
  BY <1>2 DEF Tolds
<1>4. Begun = [n |-> home, out |-> <<>>, truth |-> truth, told |-> h]
  BY <1>2 DEF Begun, Tolds
<1>5. IsFiniteSet(told.recent)
  <2>1. IsFiniteSet(home.recentEnds) /\ told.recent \in SUBSET home.recentEnds
    BY <1>1 DEF Books, Rationed
  <2> QED
    BY <2>1, FS_Subset
<1>6. Cardinality(rc) <= StormThreshold
  <2>1. Cardinality(rc) <= Cardinality(told.recent) /\ Cardinality(rc) \in Nat
        /\ Cardinality(told.recent) \in Nat
    BY <1>3, <1>5, FS_Subset, FS_CardinalityType
  <2>2. Cardinality(told.recent) <= StormThreshold
    BY <1>1 DEF Books, Rationed
  <2> QED
    BY <2>1, <2>2, NodeAssumption
<1>7. \A e \in rc : home.t - e.at < StormWindow
  OBVIOUS
<1> HIDE DEF rc
<1>8. /\ h \in Tolds /\ h.recent = rc /\ h.events = told.events /\ h.summarised = told.summarised
      /\ h.beats = told.beats /\ h.saturated = told.saturated /\ h.highAt = told.highAt
      /\ h.alarmed = told.alarmed
  BY <1>2, <1>3 DEF Tolds
<1> HIDE DEF h
<1>9. Begun.n = home /\ Begun.told = h /\ Begun.truth = truth
      /\ DOMAIN Begun = {"n", "out", "told", "truth"}
  BY <1>4
<1> HIDE DEF s
<1>10. Typed(Begun)
  BY <1>2, <1>8, <1>9 DEF Typed
<1> QED
  BY <1>1, <1>3, <1>6, <1>7, <1>8, <1>9, <1>10
  DEF Whole, Books, RunsTold, Counted, Rationed, Fresh, Remembered, ClocksOK

\* What a step leaves.
Done(s, mains) ==
    /\ Whole(s) /\ s.n.t = home.t /\ s.n.mains = mains
    /\ s.n.nextHB > s.n.t /\ (s.n.storm => s.n.t - s.n.windowStart < StormWindow)
    /\ s.told.highAt = told.highAt \/ s.told.highAt = home.t
    /\ s.n.nextHB = home.nextHB \/ (s.n.high => s.told.highAt = home.t)
    /\ home.mains /\ ~mains =>
        /\ s.told.alarmed["mains_lost"] # Never
        /\ home.t - s.told.alarmed["mains_lost"] < AlarmHoldoff

\* A step of the node, its parts in the order of the code.
LEMMA StepDone ==
    ASSUME NodeBooks(home, told, truth), NEW q \in Inflows, NEW mains \in BOOLEAN,
           NEW s, s = step(q, mains)
    PROVE  Done(s, mains)
<1> DEFINE s1 == Hydrology(Begun, q)
           s2 == Mains(s1, mains)
           s3 == Primary(s2)
           s4 == Backup(s3)
           s5 == Float(s4)
           s6 == emitStormSummary(s5)
<1>1. s = emitHeartbeat(s6)
  BY DEF step
<1>2. Whole(Begun) /\ Begun.n = home /\ Begun.told.highAt = told.highAt
  BY BegunWhole
<1>3. Whole(s1) /\ Kept(Begun, s1)
  <2>1. q \in Nat
    BY NodeAssumption
  <2> QED
    BY <1>2, <2>1, HydrologyWhole
<1> HIDE DEF s1
<1>4. /\ Whole(s2) /\ s2.n.t = s1.n.t /\ s2.n.nextHB = s1.n.nextHB /\ s2.n.high = s1.n.high
      /\ s2.n.mains = mains
      /\ s2.told.highAt = s1.told.highAt \/ s2.told.highAt = s1.n.t
      /\ s1.n.mains /\ ~mains =>
           /\ s2.n.lastAlarm["mains_lost"] # Never
           /\ s1.n.t - s2.n.lastAlarm["mains_lost"] < AlarmHoldoff
  BY <1>3, MainsWhole
<1> HIDE DEF s2
<1>5. Whole(s3) /\ Kept(s2, s3)
  BY <1>4, PrimaryWhole
<1> HIDE DEF s3
<1>6. Whole(s4) /\ Kept(s3, s4)
  BY <1>5, BackupWhole
<1> HIDE DEF s4
<1>7. /\ Whole(s5) /\ s5.n.t = s4.n.t /\ s5.n.nextHB = s4.n.nextHB /\ s5.n.mains = s4.n.mains
      /\ s5.n.lastAlarm["mains_lost"] = s4.n.lastAlarm["mains_lost"]
      /\ s5.told.highAt = s4.told.highAt \/ s5.told.highAt = s4.n.t
  BY <1>6, FloatWhole
<1> HIDE DEF s5
<1>8. Whole(s6) /\ Kept(s5, s6) /\ (s6.n.storm => s6.n.t - s6.n.windowStart < StormWindow)
  BY <1>7, SummaryWhole
<1> HIDE DEF s6
<1>9. /\ Whole(s) /\ s.n.t = s6.n.t /\ s.n.high = s6.n.high /\ s.n.mains = s6.n.mains
      /\ s.n.lastAlarm = s6.n.lastAlarm /\ s.n.storm = s6.n.storm
      /\ s.n.windowStart = s6.n.windowStart
      /\ s.told.highAt = s6.told.highAt \/ s.told.highAt = s6.n.t
      /\ s.n.nextHB > s.n.t
      /\ s.n.nextHB = s6.n.nextHB \/ (s6.n.high => s.told.highAt = s6.n.t)
  BY <1>1, <1>8, HeartbeatWhole
<1>10. s.told.alarmed = s.n.lastAlarm
  BY <1>9 DEF Whole, Books, Remembered
<1>11. /\ s1.n.t = home.t /\ s1.n.nextHB = home.nextHB /\ s1.n.mains = home.mains
       /\ s1.told.highAt = told.highAt \/ s1.told.highAt = home.t
  BY <1>2, <1>3 DEF Kept
<1>12. /\ s6.n.t = home.t /\ s6.n.nextHB = home.nextHB /\ s6.n.mains = mains
       /\ s6.told.highAt = told.highAt \/ s6.told.highAt = home.t
       /\ s6.n.lastAlarm["mains_lost"] = s2.n.lastAlarm["mains_lost"]
  BY <1>4, <1>5, <1>6, <1>7, <1>8, <1>11 DEF Kept
<1> QED
  BY <1>4, <1>8, <1>9, <1>10, <1>11, <1>12 DEF Done

\* A step keeps the invariant.
LEMMA NodeStep ==
    ASSUME NodeInv, NEW q \in Inflows, NEW mains \in BOOLEAN, Step(q, mains)
    PROVE  NodeInv'
<1>1. PICK s : /\ s = step(q, mains)
               /\ home' = [s.n EXCEPT !.t = @ + 1] /\ truth' = s.truth /\ told' = s.told
               /\ highSince' = IF ~s.n.high THEN Never ELSE IF highSince = Never THEN home.t ELSE highSince
  BY DEF Step
<1>2. Done(s, mains)
  BY <1>1, StepDone DEF NodeInv
<1>3. /\ Books(s) /\ Typed(s) /\ s.n \in Nodes /\ s.told \in Tolds /\ s.truth \in Nat
      /\ s.n.t \in Nat /\ s.n.t = home.t
  BY <1>2 DEF Done, Whole, Books, Typed, Nodes
<1> DEFINE t2 == s.n.t + 1
<1>4. t2 \in Nat /\ home' = [s.n EXCEPT !.t = t2]
  BY <1>1, <1>3 DEF Nodes
<1> HIDE DEF t2
<1>5. /\ home' \in Nodes /\ home'.t = t2 /\ home'.nextHB = s.n.nextHB /\ home'.high = s.n.high
      /\ home'.vol = s.n.vol /\ home'.stop = s.n.stop /\ home'.windowStart = s.n.windowStart
      /\ home'.accCount = s.n.accCount /\ home'.storm = s.n.storm /\ home'.mains = s.n.mains
      /\ home'.cyclesHB = s.n.cyclesHB /\ home'.recentEnds = s.n.recentEnds
      /\ home'.lastAlarm = s.n.lastAlarm
  BY <1>3, <1>4 DEF Nodes
<1>6. NodeBooks(home', told', truth')
  <2> DEFINE r == [n |-> home', out |-> <<>>, truth |-> truth', told |-> told']
  <2>1. r.n = home' /\ r.told = s.told /\ r.truth = s.truth /\ DOMAIN r = {"n", "out", "told", "truth"}
    BY <1>1
  <2> HIDE DEF r
  <2>2. Typed(r)
    BY <1>3, <1>5, <2>1 DEF Typed
  <2>3. ClocksOK(r.n)
    <3>1. s.n.nextHB \in Int /\ s.n.windowStart \in Int
      BY <1>3 DEF Nodes
    <3> QED
      BY <1>2, <1>3, <1>5, <2>1, <3>1, NodeAssumption DEF ClocksOK, Done, Books, t2
  <2>4. RunsTold(r) /\ Counted(r) /\ Rationed(r) /\ Remembered(r)
    BY <1>3, <1>5, <2>1 DEF RunsTold, Counted, Rationed, Remembered, Books
  <2>5. Books(r)
    BY <2>2, <2>3, <2>4 DEF Books
  <2> QED
    BY <2>5 DEF NodeBooks, r
<1>7. HighTold'
  <2>1. /\ home.t \in Nat /\ s.n.high \in BOOLEAN /\ s.n.nextHB \in Int /\ home.nextHB \in Int
        /\ told.highAt \in Int /\ s.told.highAt \in Int /\ t2 = home.t + 1
        /\ home.nextHB <= home.t + HeartbeatInterval /\ HeartbeatInterval \in Nat
    <3>1. home \in Nodes /\ told \in Tolds /\ ClocksOK(home)
      BY DEF NodeInv, NodeBooks, Books, Typed
    <3> QED
      BY <1>3, <3>1, NodeAssumption DEF Nodes, Tolds, ClocksOK, t2
  <2>2. HighTold
    BY DEF NodeInv
  <2>3. /\ s.told.highAt = told.highAt \/ s.told.highAt = home.t
        /\ s.n.nextHB = home.nextHB \/ (s.n.high => s.told.highAt = home.t)
    BY <1>2 DEF Done
  <2>4. CASE ~s.n.high
    BY <1>1, <1>5, <2>4 DEF HighTold, Never
  <2>5. CASE s.n.high /\ highSince = Never
    <3>1. highSince' = home.t
      BY <1>1, <2>5
    <3> QED
      BY <1>1, <1>5, <2>1, <2>3, <2>5, <3>1 DEF HighTold, Never
  <2>6. CASE s.n.high /\ highSince # Never
    <3>1. highSince' = highSince
      BY <1>1, <2>6
    <3> QED
      BY <1>1, <1>5, <2>1, <2>2, <2>3, <2>6, <3>1 DEF HighTold, Never
  <2> QED
    BY <2>1, <2>4, <2>5, <2>6
<1> QED
  BY <1>6, <1>7 DEF NodeInv

\* A new home has nothing to tell.
LEMMA NodeStart == NodeInit => NodeInv
<1> SUFFICES ASSUME NodeInit PROVE NodeInv
  OBVIOUS
<1>1. PICK health \in Healths, backup \in BOOLEAN, outage \in BOOLEAN, phase \in 0 .. HeartbeatInterval - 1 :
        home = newHome(health, backup, outage, phase)
  BY DEF NodeInit
<1> DEFINE stop == IF health = "short_cycling" THEN Trigger - ShortDrop ELSE Stop
           v == stop + (Trigger - stop) \div 2
<1>2. stop \in Nat /\ v \in Int /\ v >= stop /\ phase \in Int /\ 0 <= phase /\ phase <= HeartbeatInterval
      /\ Never \in Int
  BY NodeAssumption DEF Never
<1>0. home = [t |-> 0, vol |-> v, stop |-> stop,
         health |-> health, hasBackup |-> backup, mains |-> TRUE, outage |-> outage,
         on |-> FALSE, onAt |-> 0, startVol |-> 0, raised |-> FALSE, restUntil |-> 0,
         backupOn |-> FALSE, backupAt |-> 0, backupVol |-> 0, backupRan |-> FALSE,
         backflow |-> 0, high |-> FALSE, nextHB |-> phase, cyclesHB |-> 0,
         storm |-> FALSE, windowStart |-> 0, recentEnds |-> {},
         accCount |-> 0, accRun |-> 0, lastAlarm |-> [c \in Codes |-> Never]]
  BY <1>1 DEF newHome
<1> HIDE DEF v, stop
<1>3. home \in Nodes
  BY <1>0, <1>2 DEF Nodes
<1>4. told \in Tolds
  BY <1>2 DEF NodeInit, NothingTold, Tolds
<1>5. /\ home.t = 0 /\ home.vol = v /\ home.stop = stop /\ home.nextHB = phase /\ ~home.storm
      /\ home.accCount = 0 /\ home.cyclesHB = 0 /\ home.recentEnds = {} /\ ~home.high
      /\ home.lastAlarm = [c \in Codes |-> Never]
  BY <1>0
<1>6. /\ told.events = 0 /\ told.recent = {} /\ told.summarised = 0 /\ told.beats = 0
      /\ ~told.saturated /\ told.alarmed = [c \in Codes |-> Never]
  BY DEF NodeInit, NothingTold
<1> DEFINE r == [n |-> home, out |-> <<>>, truth |-> truth, told |-> told]
<1>7. r.n = home /\ r.told = told /\ r.truth = 0 /\ DOMAIN r = {"n", "out", "told", "truth"}
  BY DEF NodeInit
<1> HIDE DEF r
<1>8. Typed(r)
  BY <1>3, <1>4, <1>7 DEF Typed
<1>9. RunsTold(r) /\ Counted(r) /\ Remembered(r)
  BY <1>5, <1>6, <1>7 DEF RunsTold, Counted, Tally, Remembered
<1>10. Rationed(r)
  <2>1. IsFiniteSet({}) /\ Cardinality({}) = 0
    BY FS_EmptySet
  <2>2. r.n.recentEnds = {} /\ r.told.recent = {}
    BY <1>5, <1>6, <1>7
  <2>3. 0 <= StormThreshold
    BY NodeAssumption
  <2> QED
    BY <2>1, <2>2, <2>3 DEF Rationed
<1>11. ClocksOK(r.n)
  BY <1>2, <1>5, <1>7, NodeAssumption DEF ClocksOK
<1>12. NodeBooks(home, told, truth)
  BY <1>8, <1>9, <1>10, <1>11 DEF NodeBooks, Books, r
<1>13. HighTold
  BY <1>2, <1>5 DEF HighTold, NodeInit
<1> QED
  BY <1>12, <1>13 DEF NodeInv

\* Nothing changes between steps.
LEMMA NodeInvSame ==
    ASSUME NodeInv, UNCHANGED nodeVars
    PROVE  NodeInv'
BY DEF NodeInv, nodeVars, HighTold

\* The books of a home balance at every step.
LEMMA NodeInvHolds == NodeSpec => []NodeInv
<1>1. NodeInv /\ [NodeNext]_nodeVars => NodeInv'
  BY NodeStep, NodeInvSame DEF NodeNext
<1> QED
  BY <1>1, NodeStart, PTL DEF NodeSpec

\* Books that balance make the reports right.
LEMMA NodeInvReports == NodeInv => NodeReports
<1> SUFFICES ASSUME NodeInv PROVE NodeReports
  OBVIOUS
<1> DEFINE s == [n |-> home, out |-> <<>>, truth |-> truth, told |-> told]
<1>1. Books(s) /\ s.n = home /\ s.told = told /\ s.truth = truth /\ HighTold
  BY DEF NodeInv, NodeBooks
<1> HIDE DEF s
<1>2. home \in Nodes /\ told \in Tolds /\ truth \in Nat /\ ClocksOK(home)
  BY <1>1 DEF Books, Typed
<1>3. /\ home.t \in Nat /\ home.vol \in Int /\ home.stop \in Nat /\ home.accCount \in Nat
      /\ home.nextHB \in Int /\ told.highAt \in Int
  BY <1>2 DEF Nodes, Tolds
<1>4. NodeTypeOK
  BY <1>2, <1>3 DEF NodeTypeOK, ClocksOK
<1>5. RunsReportedOnce /\ HeartbeatsCountRuns
  BY <1>1 DEF Books, RunsTold, Counted, Tally, RunsReportedOnce, HeartbeatsCountRuns
<1>6. EventsRationed
  BY <1>1 DEF Books, Rationed, EventsRationed
<1>7. HighWaterReported
  BY <1>1, <1>2, <1>3, NodeAssumption DEF HighTold, HighWaterReported, ClocksOK, Never
<1> QED
  BY <1>4, <1>5, <1>6, <1>7 DEF NodeReports

\* home.step: every pump run is told of once, as an event or in a storm summary, and
\* counted by one heartbeat (up to the byte of a count); a window holds at most
\* StormThreshold events; and high water is told of within a heartbeat interval; for
\* every pit, pump, interval and inflow.
THEOREM NodeReportsHold == NodeSpec => []NodeReports
BY NodeInvHolds, NodeInvReports, PTL

\* home.step: when the mains go, an alarm says so in that step, or did less than
\* AlarmHoldoff ago.
THEOREM OutagesAreAlarmed == NodeSpec => OutagesAlarmed
<1> DEFINE A == home.mains /\ ~home'.mains =>
                \E at \in {told'.alarmed["mains_lost"]} : at # Never /\ home.t - at < AlarmHoldoff
<1>1. NodeInv /\ [NodeNext]_nodeVars => [A]_nodeVars
  <2> SUFFICES ASSUME NodeInv, NodeNext PROVE A
    OBVIOUS
  <2>1. PICK q \in Inflows, mains \in BOOLEAN : Step(q, mains)
    BY DEF NodeNext
  <2>2. PICK s : s = step(q, mains) /\ home' = [s.n EXCEPT !.t = @ + 1] /\ told' = s.told
    BY <2>1 DEF Step
  <2>3. Done(s, mains)
    BY <2>2, StepDone DEF NodeInv
  <2>4. s.n \in Nodes
    BY <2>3 DEF Done, Whole, Books, Typed
  <2>5. home'.mains = mains
    BY <2>2, <2>3, <2>4 DEF Done, Nodes
  <2> QED
    BY <2>2, <2>3, <2>5 DEF Done
<1> QED
  BY <1>1, NodeInvHolds, PTL DEF NodeSpec, OutagesAlarmed

------------------------------------------------------------------------------
(* Payloads.                                                               *)

Fits(port, n) ==
    \A k \in DOMAIN Layout(port) :
        LET field == Layout(port)[k]
        IN  /\ field.at \in Nat /\ field.width \in {1, 2} /\ field.at + field.width <= n
            /\ Signed(port, k) => field.width = 2
Filled(port, n) ==
    \A i \in 1 .. n : \E k \in DOMAIN Layout(port) :
        i - Layout(port)[k].at \in 1 .. Layout(port)[k].width

\* The fields of a payload fill it.
LEMMA LayoutIs ==
    ASSUME NEW port \in Ports
    PROVE  Fits(port, PayloadLen(port)) /\ Filled(port, PayloadLen(port)) /\ PayloadLen(port) \in 3 .. 11
<1>0. \A at, width : Field(at, width).at = at /\ Field(at, width).width = width
  BY DEF Field
<1>1. port \in 1 .. 5
  BY DEF Ports
<1>2. CASE port = 1
  <2> DEFINE l == Layout(port)
  <2>1. l = <<Field(0, 2), Field(2, 2), Field(4, 1), Field(5, 2), Field(7, 1), Field(8, 1), Field(9, 1)>>
    BY <1>2 DEF Layout
  <2>2. PayloadLen(port) = 10 /\ (~Signed(port, 2) \/ port = 1) /\ \A k : Signed(port, k) => k = 2
    BY <1>2 DEF PayloadLen, Signed
  <2>3. /\ DOMAIN l = 1 .. 7
        /\ l[1].at = 0 /\ l[1].width = 2
        /\ l[2].at = 2 /\ l[2].width = 2
        /\ l[3].at = 4 /\ l[3].width = 1
        /\ l[4].at = 5 /\ l[4].width = 2
        /\ l[5].at = 7 /\ l[5].width = 1
        /\ l[6].at = 8 /\ l[6].width = 1
        /\ l[7].at = 9 /\ l[7].width = 1
    BY <1>0, <2>1
  <2> HIDE DEF l
  <2>4. \A k \in DOMAIN l : /\ l[k].at \in Nat /\ l[k].width \in {1, 2} /\ l[k].at + l[k].width <= 10
                            /\ Signed(port, k) => l[k].width = 2
    BY <1>2, <2>2, <2>3 DEF Signed
  <2>5. \A i \in 1 .. 10 : \E k \in DOMAIN l : i - l[k].at \in 1 .. l[k].width
    <3> TAKE i \in 1 .. 10
    <3>1. CASE i \in 1 .. 2
      BY <2>3, <3>1
    <3>2. CASE i \in 3 .. 4
      BY <2>3, <3>2
    <3>3. CASE i \in 5 .. 5
      BY <2>3, <3>3
    <3>4. CASE i \in 6 .. 7
      BY <2>3, <3>4
    <3>5. CASE i \in 8 .. 8
      BY <2>3, <3>5
    <3>6. CASE i \in 9 .. 9
      BY <2>3, <3>6
    <3>7. CASE i \in 10 .. 10
      BY <2>3, <3>7
    <3> QED
      BY <3>1, <3>2, <3>3, <3>4, <3>5, <3>6, <3>7
  <2> QED
    BY <2>2, <2>4, <2>5 DEF Fits, Filled, l
<1>3. CASE port = 2 \/ port = 5
  <2> DEFINE l == Layout(port)
  <2>1. l = <<Field(0, 2), Field(2, 2), Field(4, 2), Field(6, 2), Field(8, 2), Field(10, 1)>>
    BY <1>3 DEF Layout
  <2>2. PayloadLen(port) = 11 /\ (~Signed(port, 2) \/ port = 1) /\ \A k : Signed(port, k) => k = 2
    BY <1>3 DEF PayloadLen, Signed
  <2>3. /\ DOMAIN l = 1 .. 6
        /\ l[1].at = 0 /\ l[1].width = 2
        /\ l[2].at = 2 /\ l[2].width = 2
        /\ l[3].at = 4 /\ l[3].width = 2
        /\ l[4].at = 6 /\ l[4].width = 2
        /\ l[5].at = 8 /\ l[5].width = 2
        /\ l[6].at = 10 /\ l[6].width = 1
    BY <1>0, <2>1
  <2> HIDE DEF l
  <2>4. \A k \in DOMAIN l : /\ l[k].at \in Nat /\ l[k].width \in {1, 2} /\ l[k].at + l[k].width <= 11
                            /\ Signed(port, k) => l[k].width = 2
    BY <1>3, <2>2, <2>3 DEF Signed
  <2>5. \A i \in 1 .. 11 : \E k \in DOMAIN l : i - l[k].at \in 1 .. l[k].width
    <3> TAKE i \in 1 .. 11
    <3>1. CASE i \in 1 .. 2
      BY <2>3, <3>1
    <3>2. CASE i \in 3 .. 4
      BY <2>3, <3>2
    <3>3. CASE i \in 5 .. 6
      BY <2>3, <3>3
    <3>4. CASE i \in 7 .. 8
      BY <2>3, <3>4
    <3>5. CASE i \in 9 .. 10
      BY <2>3, <3>5
    <3>6. CASE i \in 11 .. 11
      BY <2>3, <3>6
    <3> QED
      BY <3>1, <3>2, <3>3, <3>4, <3>5, <3>6
  <2> QED
    BY <2>2, <2>4, <2>5 DEF Fits, Filled, l
<1>4. CASE port = 3
  <2> DEFINE l == Layout(port)
  <2>1. l = <<Field(0, 1), Field(1, 2)>>
    BY <1>4 DEF Layout
  <2>2. PayloadLen(port) = 3 /\ (~Signed(port, 2) \/ port = 1) /\ \A k : Signed(port, k) => k = 2
    BY <1>4 DEF PayloadLen, Signed
  <2>3. /\ DOMAIN l = 1 .. 2
        /\ l[1].at = 0 /\ l[1].width = 1
        /\ l[2].at = 1 /\ l[2].width = 2
    BY <1>0, <2>1
  <2> HIDE DEF l
  <2>4. \A k \in DOMAIN l : /\ l[k].at \in Nat /\ l[k].width \in {1, 2} /\ l[k].at + l[k].width <= 3
                            /\ Signed(port, k) => l[k].width = 2
    BY <1>4, <2>2, <2>3 DEF Signed
  <2>5. \A i \in 1 .. 3 : \E k \in DOMAIN l : i - l[k].at \in 1 .. l[k].width
    <3> TAKE i \in 1 .. 3
    <3>1. CASE i \in 1 .. 1
      BY <2>3, <3>1
    <3>2. CASE i \in 2 .. 3
      BY <2>3, <3>2
    <3> QED
      BY <3>1, <3>2
  <2> QED
    BY <2>2, <2>4, <2>5 DEF Fits, Filled, l
<1>5. CASE port = 4
  <2> DEFINE l == Layout(port)
  <2>1. l = <<Field(0, 1), Field(1, 2), Field(3, 2), Field(5, 2), Field(7, 2)>>
    BY <1>5 DEF Layout
  <2>2. PayloadLen(port) = 9 /\ (~Signed(port, 2) \/ port = 1) /\ \A k : Signed(port, k) => k = 2
    BY <1>5 DEF PayloadLen, Signed
  <2>3. /\ DOMAIN l = 1 .. 5
        /\ l[1].at = 0 /\ l[1].width = 1
        /\ l[2].at = 1 /\ l[2].width = 2
        /\ l[3].at = 3 /\ l[3].width = 2
        /\ l[4].at = 5 /\ l[4].width = 2
        /\ l[5].at = 7 /\ l[5].width = 2
    BY <1>0, <2>1
  <2> HIDE DEF l
  <2>4. \A k \in DOMAIN l : /\ l[k].at \in Nat /\ l[k].width \in {1, 2} /\ l[k].at + l[k].width <= 9
                            /\ Signed(port, k) => l[k].width = 2
    BY <1>5, <2>2, <2>3 DEF Signed
  <2>5. \A i \in 1 .. 9 : \E k \in DOMAIN l : i - l[k].at \in 1 .. l[k].width
    <3> TAKE i \in 1 .. 9
    <3>1. CASE i \in 1 .. 1
      BY <2>3, <3>1
    <3>2. CASE i \in 2 .. 3
      BY <2>3, <3>2
    <3>3. CASE i \in 4 .. 5
      BY <2>3, <3>3
    <3>4. CASE i \in 6 .. 7
      BY <2>3, <3>4
    <3>5. CASE i \in 8 .. 9
      BY <2>3, <3>5
    <3> QED
      BY <3>1, <3>2, <3>3, <3>4, <3>5
  <2> QED
    BY <2>2, <2>4, <2>5 DEF Fits, Filled, l
<1> QED
  BY <1>1, <1>2, <1>3, <1>4, <1>5

\* A byte is below 256.
LEMMA ByteIs ==
    ASSUME NEW x \in Byte
    PROVE  x \in Int /\ 0 <= x /\ x < 256
BY DEF Byte

\* Two bytes and the number they make, little-endian.
LEMMA Bytes ==
    ASSUME NEW x \in Byte, NEW y \in Byte, NEW v, v = x + 256 * y
    PROVE  /\ v \in Int /\ 0 <= v /\ v < 65536 /\ v % 65536 = v /\ (v - 65536) % 65536 = v
           /\ v % 256 = x /\ (v \div 256) % 256 = y
<1>1. x \in Int /\ 0 <= x /\ x < 256 /\ y \in Int /\ 0 <= y /\ y < 256
  BY ByteIs
<1>2. v \in Int /\ 0 <= v /\ v < 65536
  BY <1>1
<1>3. v % 65536 = v
  BY <1>2
<1>4. (v - 65536) % 65536 = v
  <2> DEFINE w == v - 65536
  <2>1. w \in Int /\ w = v - 65536
    BY <1>2
  <2> HIDE DEF w
  <2>2. w % 65536 = v
    BY <1>2, <2>1
  <2> QED
    BY <2>2 DEF w
<1>5. v % 256 = x
  BY <1>1, <1>2
<1>6. v \div 256 = y
  BY <1>1, <1>2
<1>7. y % 256 = y
  BY <1>1
<1> QED
  BY <1>2, <1>3, <1>4, <1>5, <1>6, <1>7

Carries(b, f, u) == \A i \in 1 .. f.width : putLE(u % 65536, i) = b[f.at + i]

\* What a field decodes to: its bytes, and the number they are.
LEMMA FieldIs ==
    ASSUME NEW port \in Ports, NEW n, n = PayloadLen(port), NEW b \in [1 .. n -> Byte],
           NEW k \in DOMAIN Layout(port), NEW u, u = UnmarshalBinary(port, b)[k],
           NEW f, f = Layout(port)[k]
    PROVE  /\ InRange(port, k, u)
           /\ Carries(b, f, u)
<1>1. f.at \in Nat /\ f.width \in {1, 2} /\ f.at + f.width <= n
      /\ (Signed(port, k) => f.width = 2) /\ n \in Nat
  BY LayoutIs DEF Fits
<1> DEFINE v == getLE(b, f)
           x == b[f.at + 1]
           y == IF f.width = 1 THEN 0 ELSE b[f.at + 2]
<1>2. f.at + 1 \in 1 .. n /\ (f.width = 2 => f.at + 2 \in 1 .. n)
  BY <1>1
<1>3. u = IF Signed(port, k) /\ v >= 32768 THEN v - 65536 ELSE v
  BY DEF UnmarshalBinary
<1>11. 0 \in Byte
  BY DEF Byte
<1>4. x \in Byte /\ y \in Byte
  BY <1>1, <1>2, <1>11
<1>5. v = x + 256 * y
  <2>1. x \in Int
    BY <1>4, ByteIs
  <2>2. CASE f.width = 1
    BY <2>1, <2>2 DEF getLE
  <2>3. CASE f.width = 2
    BY <2>3 DEF getLE
  <2> QED
    BY <1>1, <2>2, <2>3
<1>6. \A i \in 1 .. f.width : b[f.at + i] = IF i = 1 THEN x ELSE y
  BY <1>1
<1> HIDE DEF v, x, y
<1>7. /\ v \in Int /\ 0 <= v /\ v < 65536 /\ v % 65536 = v /\ (v - 65536) % 65536 = v
      /\ v % 256 = x /\ (v \div 256) % 256 = y
  BY <1>4, <1>5, Bytes
<1>8. u % 65536 = v
  BY <1>3, <1>7
<1>9. Carries(b, f, u)
  BY <1>6, <1>7, <1>8 DEF putLE, Carries
<1>10. InRange(port, k, u)
  <2>1. CASE Signed(port, k) /\ v >= 32768
    BY <1>3, <1>7, <2>1 DEF InRange
  <2>2. CASE Signed(port, k) /\ ~(v >= 32768)
    BY <1>3, <1>7, <2>2 DEF InRange
  <2>3. CASE ~Signed(port, k)
    BY <1>3, <1>7, <2>3 DEF InRange
  <2> QED
    BY <2>1, <2>2, <2>3
<1> QED
  BY <1>9, <1>10

\* A payload of the right length encodes back to itself.
LEMMA RoundTrip ==
    ASSUME NEW port \in Ports, NEW n, n = PayloadLen(port), NEW b \in [1 .. n -> Byte]
    PROVE  MarshalBinary(port, UnmarshalBinary(port, b)) = b
<1> DEFINE m == MarshalBinary(port, UnmarshalBinary(port, b))
<1>1. b = [i \in 1 .. n |-> b[i]]
  OBVIOUS
<1>2. \A i \in 1 .. n : m[i] = b[i]
  <2> TAKE i \in 1 .. n
  <2>1. n \in Nat /\ \E j \in DOMAIN Layout(port) :
                       i - Layout(port)[j].at \in 1 .. Layout(port)[j].width
    BY LayoutIs DEF Filled
  <2> DEFINE k == FieldAt(port, i)
             f == Layout(port)[k]
             u == UnmarshalBinary(port, b)[k]
             j == i - f.at
  <2>2. k \in DOMAIN Layout(port) /\ j \in 1 .. f.width
    BY <2>1 DEF FieldAt
  <2>3. f.at \in Nat
    BY <2>2, LayoutIs DEF Fits
  <2>4. m[i] = putLE(u % 65536, j)
    BY DEF MarshalBinary
  <2>6. f.at + j = i
    BY <2>1, <2>3
  <2>7. u = UnmarshalBinary(port, b)[k] /\ f = Layout(port)[k]
    OBVIOUS
  <2> HIDE DEF k, m, f, u, j
  <2>8. Carries(b, f, u)
    BY <2>2, <2>7, FieldIs
  <2>5. putLE(u % 65536, j) = b[f.at + j]
    BY <2>2, <2>8 DEF Carries
  <2> QED
    BY <2>4, <2>5, <2>6
<1>3. m = [i \in 1 .. n |-> m[i]]
  BY DEF MarshalBinary
<1> HIDE DEF m
<1> QED
  BY <1>1, <1>2, <1>3 DEF m

\* Decode accepts a payload of a known port and exactly its length (checkLen).
LEMMA DecodeIs ==
    ASSUME NEW port \in Nat, NEW b \in Seq(Byte), Decode(port, b)[1] = "ok"
    PROVE  /\ port \in Ports /\ b \in [1 .. PayloadLen(port) -> Byte] /\ Len(b) <= 11
           /\ Decode(port, b)[2] = UnmarshalBinary(port, b)
<1>1. port \in Ports
  BY DEF Decode
<1>2. Len(b) = PayloadLen(port)
  BY <1>1 DEF Decode, checkLen
<1>3. Decode(port, b)[2] = UnmarshalBinary(port, b)
  BY <1>1, <1>2 DEF Decode, checkLen
<1>4. Len(b) <= 11
  BY <1>1, <1>2, LayoutIs
<1>5. b \in [1 .. Len(b) -> Byte]
  OBVIOUS
<1> QED
  BY <1>1, <1>2, <1>3, <1>4, <1>5

------------------------------------------------------------------------------
(* The loop over the gateways.                                             *)

Scans(rx, n, best) ==
    best = [i \in 0 .. n |->
              IF i = 0 THEN NoRx
              ELSE IF Stronger(i, best[i - 1], rx[i]) THEN [gateway |-> rx[i].gateway, rssi |-> rx[i].rssi]
              ELSE best[i - 1]]

\* The loop over the gateways has a run, and BestRx is where it ends.
LEMMA ScanRuns ==
    ASSUME NEW rx, NEW n \in Nat, n = Len(rx)
    PROVE  \E best : Scans(rx, n, best) /\ BestRx(rx) = best[n]
<1> DEFINE Body(g, i) ==
             IF i = 0 THEN NoRx
             ELSE IF Stronger(i, g[i - 1], rx[i]) THEN [gateway |-> rx[i].gateway, rssi |-> rx[i].rssi]
             ELSE g[i - 1]
           Upto(k, g) == g = [i \in 0 .. k |-> Body(g, i)]
           Ok == {k \in Nat : \E g : Upto(k, g)}
<1>1. 0 \in Ok
  <2> DEFINE g == [i \in 0 .. 0 |-> NoRx]
  <2>1. g = [i \in 0 .. 0 |-> Body(g, i)]
    OBVIOUS
  <2> QED
    BY <2>1
<1>2. ASSUME NEW k \in Nat, k \in Ok PROVE k + 1 \in Ok
  <2>1. PICK g : Upto(k, g)
    BY <1>2
  <2> DEFINE h == [i \in 0 .. k + 1 |-> IF i = k + 1 THEN Body(g, i) ELSE g[i]]
  <2>2. \A i \in 0 .. k + 1 : i # 0 => h[i - 1] = g[i - 1]
    OBVIOUS
  <2>3. \A i \in 0 .. k + 1 : Body(h, i) = Body(g, i)
    BY <2>2
  <2>4. \A i \in 0 .. k : g[i] = Body(g, i)
    BY <2>1
  <2>5. h = [i \in 0 .. k + 1 |-> Body(h, i)]
    BY <2>3, <2>4
  <2> HIDE DEF h, Body
  <2>6. \E e : Upto(k + 1, e)
    BY <2>5
  <2> QED
    BY <2>6
<1>3. n \in Ok
  BY <1>1, <1>2, EveryNatural
<1>4. \E best : Scans(rx, n, best)
  BY <1>3 DEF Scans
<1>5. BestRx(rx) = (CHOOSE best : Scans(rx, n, best))[n]
  BY DEF BestRx, Scans
<1> QED
  BY <1>4, <1>5

\* The loop ends with a gateway of the message, and none is stronger.
LEMMA BestIs ==
    ASSUME NEW rx, NEW N \in Nat \ {0}, NEW best, Scans(rx, N, best),
           \A i \in 1 .. N : rx[i].rssi \in Int
    PROVE  /\ \E i \in 1 .. N : best[N] = [gateway |-> rx[i].gateway, rssi |-> rx[i].rssi]
           /\ \A i \in 1 .. N : rx[i].rssi <= best[N].rssi
<1> DEFINE Of(i) == [gateway |-> rx[i].gateway, rssi |-> rx[i].rssi]
           Is(n) == /\ \E i \in 1 .. n : best[n] = Of(i)
                    /\ \A i \in 1 .. n : rx[i].rssi <= best[n].rssi
           Ok == {n \in Nat : n + 1 \in 1 .. N => Is(n + 1)}
<1>2. \A i \in 1 .. N : best[i] = IF Stronger(i, best[i - 1], rx[i]) THEN Of(i) ELSE best[i - 1]
  BY DEF Scans
<1>4. \A i \in 1 .. N : Of(i).rssi = rx[i].rssi /\ rx[i].rssi \in Int
  OBVIOUS
<1> HIDE DEF Of
<1>5. 0 \in Ok
  <2>1. Stronger(1, best[0], rx[1])
    BY DEF Stronger
  <2>2. best[1] = Of(1)
    BY <1>2, <2>1
  <2>3. Is(1)
    BY <1>4, <2>2
  <2> QED
    BY <2>3
<1>6. ASSUME NEW n \in Nat, n \in Ok PROVE n + 1 \in Ok
  <2> DEFINE k == n + 1
  <2> SUFFICES ASSUME k + 1 \in 1 .. N PROVE Is(k + 1)
    OBVIOUS
  <2>1. k \in 1 .. N /\ Is(k)
    BY <1>6
  <2>2. (k + 1) - 1 = k /\ k \in Nat /\ k + 1 # 1
    OBVIOUS
  <2>3. best[k + 1] = IF Stronger(k + 1, best[k], rx[k + 1]) THEN Of(k + 1) ELSE best[k]
    BY <1>2, <2>2
  <2>4. PICK j \in 1 .. k : best[k] = Of(j)
    BY <2>1
  <2>5. j \in 1 .. N /\ best[k].rssi = rx[j].rssi /\ best[k].rssi \in Int
    BY <1>4, <2>1, <2>4
  <2> HIDE DEF k
  <2>6. CASE Stronger(k + 1, best[k], rx[k + 1])
    <3>1. best[k + 1] = Of(k + 1) /\ best[k + 1].rssi = rx[k + 1].rssi
      BY <1>4, <2>3, <2>6
    <3>2. rx[k + 1].rssi > best[k].rssi
      BY <2>1, <2>5, <2>6 DEF Stronger
    <3>3. \A i \in 1 .. k + 1 : rx[i].rssi <= best[k + 1].rssi
      <4> TAKE i \in 1 .. k + 1
      <4>1. CASE i = k + 1
        BY <1>4, <3>1, <4>1
      <4>2. CASE i \in 1 .. k
        <5>1. rx[i].rssi <= best[k].rssi /\ rx[i].rssi \in Int /\ rx[k + 1].rssi \in Int
          BY <1>4, <2>1, <4>2
        <5> QED
          BY <2>5, <3>1, <3>2, <5>1
      <4> QED
        BY <2>2, <4>1, <4>2
    <3> QED
      BY <2>2, <3>1, <3>3
  <2>7. CASE ~Stronger(k + 1, best[k], rx[k + 1])
    <3>1. best[k + 1] = best[k]
      BY <2>3, <2>7
    <3>2. rx[k + 1].rssi <= best[k].rssi
      BY <1>4, <2>2, <2>5, <2>7 DEF Stronger
    <3>3. \A i \in 1 .. k + 1 : rx[i].rssi <= best[k + 1].rssi
      BY <2>1, <2>2, <3>1, <3>2
    <3>4. j \in 1 .. k + 1
      BY <2>2
    <3> QED
      BY <2>4, <3>1, <3>3, <3>4
  <2> QED
    BY <2>6, <2>7
<1> HIDE DEF Ok
<1>7. Nat \subseteq Ok
  BY <1>5, <1>6, EveryNatural
<1>8. N - 1 \in Nat /\ (N - 1) + 1 = N
  OBVIOUS
<1>9. Is(N)
  BY <1>7, <1>8 DEF Ok
<1> QED
  BY <1>9 DEF Of

------------------------------------------------------------------------------
(* Deliveries.                                                             *)

\* What a message decodes to, as far as a clock has no say in it.
Verdict(m, d) ==
    /\ d.outcome = "ok" =>
        /\ d.dev \in Devices /\ Decode(m.port, m.data)[1] = "ok"
        /\ d.fields = Decode(m.port, m.data)[2]
        /\ m.kind = "lora" => d.rx = BestRx(m.rx)

\* What a message that is accepted carries on.
LEMMA DecodedIs ==
    ASSUME NEW m, NEW dev, NEW t, NEW fallback, NEW rx, NEW d, d = Decoded(m, dev, t, fallback, rx)
    PROVE  /\ d.outcome = "ok" <=> Decode(m.port, m.data)[1] = "ok"
           /\ d.outcome = "ok" => /\ d.dev = dev /\ d.fallback = fallback /\ d.rx = rx
                                  /\ d.fields = Decode(m.port, m.data)[2]
BY DEF Decoded, Dropped

\* DecodeLora and DecodeNode accept only what Decode does, for a known device.
LEMMA MessageIs ==
    ASSUME NEW m \in Messages, NEW now, NEW d, d = DecodeMessage(m, now)
    PROVE  Verdict(m, d)
<1>1. m.topic \in Devices \cup {NoName}
  BY CodecAssumption
<1>2. CASE m.kind = "lora"
  <2> SUFFICES ASSUME d.outcome = "ok"
               PROVE  /\ d.dev \in Devices /\ Decode(m.port, m.data)[1] = "ok"
                      /\ d.fields = Decode(m.port, m.data)[2] /\ d.rx = BestRx(m.rx)
    BY DEF Verdict
  <2>1. d = DecodeLora(m, now)
    BY <1>2 DEF DecodeMessage
  <2>2. m.topic # NoName /\ m.dev = m.topic /\ m.json
    BY <2>1 DEF DecodeLora, Dropped
  <2> DEFINE t == NetworkTime(m)
  <2>3. d = Decoded(m, m.dev, EventTime(t, now), t = None, BestRx(m.rx))
    BY <2>1, <2>2 DEF DecodeLora
  <2> QED
    BY <1>1, <2>2, <2>3, DecodedIs
<1>3. CASE m.kind # "lora"
  <2> SUFFICES ASSUME d.outcome = "ok"
               PROVE  /\ d.dev \in Devices /\ Decode(m.port, m.data)[1] = "ok"
                      /\ d.fields = Decode(m.port, m.data)[2]
    BY <1>3 DEF Verdict
  <2>1. d = DecodeNode(m, now)
    BY <1>3 DEF DecodeMessage
  <2>2. m.topic # NoName /\ m.json /\ ~(m.port > 255)
    BY <2>1 DEF DecodeNode, Dropped
  <2>3. d = Decoded(m, m.topic, EventTime(m.time, now), m.time = None, [gateway |-> "wifi", rssi |-> 0])
    BY <2>1, <2>2 DEF DecodeNode
  <2> QED
    BY <1>1, <2>2, <2>3, DecodedIs
<1> QED
  BY <1>2, <1>3

\* Delivered later, a message is accepted as before, and decodes to the same if
\* it has a timestamp.
LEMMA SameAgain ==
    ASSUME NEW m, NEW now, NEW again, NEW d, d = DecodeMessage(m, now),
           NEW e, e = DecodeMessage(m, again), d.outcome = "ok"
    PROVE  /\ e.outcome = "ok" /\ (e.fallback <=> d.fallback) /\ (~d.fallback => e = d)
<1>2. CASE m.kind = "lora"
  <2>1. d = DecodeLora(m, now) /\ e = DecodeLora(m, again)
    BY <1>2 DEF DecodeMessage
  <2>2. m.topic # NoName /\ m.dev = m.topic /\ m.json
    BY <2>1 DEF DecodeLora, Dropped
  <2> DEFINE t == NetworkTime(m)
             none == t = None
             rx == BestRx(m.rx)
  <2>3. d = Decoded(m, m.dev, EventTime(t, now), none, rx)
        /\ e = Decoded(m, m.dev, EventTime(t, again), none, rx)
    BY <2>1, <2>2 DEF DecodeLora
  <2>4. ~none => EventTime(t, now) = EventTime(t, again)
    BY DEF EventTime
  <2>5. none \in BOOLEAN
    OBVIOUS
  <2> HIDE DEF t, none, rx
  <2>6. /\ d.fallback = none /\ Decode(m.port, m.data)[1] = "ok"
    BY <2>3, DecodedIs
  <2>7. e.outcome = "ok" /\ e.fallback = none
    BY <2>3, <2>6, DecodedIs
  <2>8. ~none => e = d
    BY <2>3, <2>4
  <2> QED
    BY <2>5, <2>6, <2>7, <2>8
<1>3. CASE m.kind # "lora"
  <2>1. d = DecodeNode(m, now) /\ e = DecodeNode(m, again)
    BY <1>3 DEF DecodeMessage
  <2>2. m.topic # NoName /\ m.json /\ ~(m.port > 255)
    BY <2>1 DEF DecodeNode, Dropped
  <2> DEFINE t == m.time
             none == t = None
             rx == [gateway |-> "wifi", rssi |-> 0]
  <2>3. d = Decoded(m, m.topic, EventTime(t, now), none, rx)
        /\ e = Decoded(m, m.topic, EventTime(t, again), none, rx)
    BY <2>1, <2>2 DEF DecodeNode
  <2>4. ~none => EventTime(t, now) = EventTime(t, again)
    BY DEF EventTime
  <2>5. none \in BOOLEAN
    OBVIOUS
  <2> HIDE DEF t, none, rx
  <2>6. /\ d.fallback = none /\ Decode(m.port, m.data)[1] = "ok"
    BY <2>3, DecodedIs
  <2>7. e.outcome = "ok" /\ e.fallback = none
    BY <2>3, <2>6, DecodedIs
  <2>8. ~none => e = d
    BY <2>3, <2>4
  <2> QED
    BY <2>5, <2>6, <2>7, <2>8
<1> QED
  BY <1>2, <1>3

CodecInv ==
    /\ msg \in Messages /\ clock \in Clocks \cup {0} /\ count \in 0 .. MaxDeliveries
    /\ \/ count = 0 /\ ~Accepted /\ rows = {}
       \/ /\ last = DecodeMessage(msg, clock)
          /\ Accepted /\ ~last.fallback => rows = {last.key}
          /\ ~Accepted => rows = {}

\* What the last delivery decoded to, and the one row it is stored under.
THEOREM CodecInvariant == CodecSpec => []CodecInv
<1>1. CodecInit(Messages) => CodecInv
  BY CodecAssumption DEF CodecInit, CodecInv, Accepted, Dropped
<1>2. CodecInv /\ [CodecNext]_cvars => CodecInv'
  <2> SUFFICES ASSUME CodecInv, [CodecNext]_cvars PROVE CodecInv'
    OBVIOUS
  <2>1. ASSUME NEW now \in Clocks, Deliver(now) PROVE CodecInv'
    <3>1. /\ count < MaxDeliveries /\ clock' = now /\ count' = count + 1 /\ msg' = msg
          /\ last' = DecodeMessage(msg, now)
          /\ rows' = rows \cup (IF last'.outcome = "ok" THEN {last'.key} ELSE {})
      BY <2>1 DEF Deliver
    <3>2. msg' \in Messages /\ clock' \in Clocks \cup {0} /\ count' \in 0 .. MaxDeliveries
      BY <3>1, CodecAssumption DEF CodecInv
    <3>3. ASSUME last'.outcome = "ok", ~last'.fallback PROVE rows' = {last'.key}
      <4>1. rows = {} \/ rows = {last'.key}
        <5>1. CASE last.outcome # "ok"
          BY <5>1 DEF CodecInv, Accepted
        <5>2. CASE last.outcome = "ok"
          <6>1. last = DecodeMessage(msg, clock)
            BY <5>2 DEF CodecInv, Accepted
          <6>2. ~last.fallback /\ last' = last
            BY <3>1, <3>3, <5>2, <6>1, SameAgain
          <6> QED
            BY <5>2, <6>2 DEF CodecInv, Accepted
        <5> QED
          BY <5>1, <5>2
      <4> QED
        BY <3>1, <3>3, <4>1
    <3>4. ASSUME last'.outcome # "ok" PROVE rows' = {}
      <4>1. last.outcome # "ok"
        <5>1. ASSUME last.outcome = "ok" PROVE FALSE
          <6>1. last = DecodeMessage(msg, clock)
            BY <5>1 DEF CodecInv, Accepted
          <6>2. last'.outcome = "ok"
            BY <3>1, <5>1, <6>1, SameAgain
          <6> QED
            BY <3>4, <6>2
        <5> QED
          BY <5>1
      <4>2. rows = {}
        BY <4>1 DEF CodecInv, Accepted
      <4> QED
        BY <3>1, <3>4, <4>2
    <3> QED
      BY <3>1, <3>2, <3>3, <3>4 DEF CodecInv, Accepted
  <2>2. CASE UNCHANGED cvars
    BY <2>2 DEF cvars, CodecInv, Accepted
  <2> QED
    BY <2>1, <2>2 DEF CodecNext
<1> QED
  BY <1>1, <1>2, PTL DEF CodecSpec

\* The codec and the bridge's decoders: an accepted payload has the length of its port
\* and encodes back to itself, each field in its range; redelivered, it is accepted
\* again and is the same row if it has a timestamp of its own; and the gateway named
\* is one of the message with the strongest signal; for every payload.
THEOREM DecodedRowsAreFaithful == CodecSpec => []RowsFaithful
<1>1. CodecInv => RowsFaithful
  <2> SUFFICES ASSUME CodecInv PROVE RowsFaithful
    OBVIOUS
  <2>1. /\ msg \in Messages /\ msg.port \in Nat /\ msg.data \in Seq(Byte)
        /\ clock \in Clocks \cup {0} /\ count \in 0 .. MaxDeliveries
    BY CodecAssumption DEF CodecInv
  <2>2. CASE ~Accepted
    BY <2>1, <2>2
       DEF RowsFaithful, CodecTypeOK, DecodeStrict, RedeliveryIsOneRow, BestGatewayNamed
  <2>3. CASE Accepted
    <3>1. last.outcome = "ok" /\ last = DecodeMessage(msg, clock)
          /\ (~last.fallback => rows = {last.key})
      BY <2>3 DEF CodecInv, Accepted
    <3>2. Verdict(msg, last)
      BY <2>1, <3>1, MessageIs
    <3>3. /\ last.dev \in Devices /\ Decode(msg.port, msg.data)[1] = "ok"
          /\ last.fields = Decode(msg.port, msg.data)[2]
          /\ msg.kind = "lora" => last.rx = BestRx(msg.rx)
      BY <3>1, <3>2 DEF Verdict
    <3>4. /\ msg.port \in Ports /\ msg.data \in [1 .. PayloadLen(msg.port) -> Byte] /\ Len(msg.data) <= 11
          /\ last.fields = UnmarshalBinary(msg.port, msg.data)
      BY <2>1, <3>3, DecodeIs
    <3>5. CodecTypeOK
      <4>1. DOMAIN last.fields = DOMAIN Layout(msg.port)
        BY <3>4 DEF UnmarshalBinary
      <4>2. \A k \in DOMAIN last.fields : InRange(msg.port, k, last.fields[k])
        BY <3>4, <4>1, FieldIs
      <4> QED
        BY <2>1, <3>3, <4>2 DEF CodecTypeOK
    <3>6. DecodeStrict
      BY <2>1, <3>4, RoundTrip DEF DecodeStrict
    <3>7. RedeliveryIsOneRow
      <4>1. ~last.fallback => Cardinality({last.key}) = 1
        BY FS_Singleton
      <4> QED
        BY <3>1, <4>1 DEF RedeliveryIsOneRow
    <3>8. BestGatewayNamed
      <4> SUFFICES ASSUME msg.kind = "lora", msg.rx # <<>>
                   PROVE  /\ \E r \in Range(msg.rx) : last.rx = [gateway |-> r.gateway, rssi |-> r.rssi]
                          /\ \A r \in Range(msg.rx) : r.rssi <= last.rx.rssi
        BY DEF BestGatewayNamed
      <4> DEFINE rx == msg.rx
      <4>1. DOMAIN rx = 1 .. Len(rx) /\ Len(rx) \in Nat
            /\ \A i \in 1 .. Len(rx) : rx[i].rssi \in Int
        BY <2>1, CodecAssumption
      <4>2. Range(rx) = {rx[i] : i \in 1 .. Len(rx)}
        BY <4>1 DEF Range
      <4>3. Len(rx) # 0
        BY <4>1
      <4> DEFINE n == Len(rx)
      <4>7. n \in Nat \ {0} /\ n = Len(rx)
        BY <4>1, <4>3
      <4> HIDE DEF rx
      <4>8. PICK best : Scans(rx, n, best) /\ BestRx(rx) = best[n]
        BY <4>7, ScanRuns
      <4>9. \A i \in 1 .. n : rx[i].rssi \in Int
        BY <4>1
      <4> HIDE DEF n
      <4>10. /\ \E i \in 1 .. n : best[n] = [gateway |-> rx[i].gateway, rssi |-> rx[i].rssi]
             /\ \A i \in 1 .. n : rx[i].rssi <= best[n].rssi
        BY <4>7, <4>8, <4>9, BestIs
      <4>4. /\ \E i \in 1 .. Len(rx) : BestRx(rx) = [gateway |-> rx[i].gateway, rssi |-> rx[i].rssi]
            /\ \A i \in 1 .. Len(rx) : rx[i].rssi <= BestRx(rx).rssi
        BY <4>8, <4>10 DEF n
      <4>5. last.rx = BestRx(rx)
        BY <3>3 DEF rx
      <4>6. /\ \E r \in Range(rx) : last.rx = [gateway |-> r.gateway, rssi |-> r.rssi]
            /\ \A r \in Range(rx) : r.rssi <= last.rx.rssi
        BY <4>2, <4>4, <4>5
      <4> QED
        BY <4>6 DEF rx
    <3> QED
      BY <3>5, <3>6, <3>7, <3>8 DEF RowsFaithful
  <2> QED
    BY <2>2, <2>3
<1> QED
  BY <1>1, CodecInvariant, PTL

------------------------------------------------------------------------------
(* The heartbeat stage.                                                    *)

Reading ==
    [ts : Nat, mains : BOOLEAN, float : BOOLEAN, fault : BOOLEAN,
     batt : Nat \cup {NoBattery}, dist : Int]

Levels == [known : BOOLEAN, samples : Seq(Reading)]
Opens == [AlertCodes -> Nat \cup {Closed}]
RuleState == [open : Opens, levels : Levels]

RulesTypes ==
    /\ readings \in Seq(Reading)
    /\ applied \in Nat /\ applied <= Len(readings)
    /\ raisedAt \in Opens
    /\ levels \in Levels
    /\ rain \in RainRecords
    /\ restarts \in Nat

\* Readings are stored in the order of their event times.
InEventOrder == \A i, j \in DOMAIN readings : i < j => readings[i].ts < readings[j].ts

\* The window ends in the readings applied last, as far as they lack mains.
RecentLevels(w, n) ==
    /\ n >= 1 /\ Len(w) \in 1 .. 3
    /\ w[Len(w)] = readings[n]
    /\ n >= 2 /\ ~readings[n - 1].mains => Len(w) >= 2 /\ w[Len(w) - 1] = readings[n - 1]

WindowInv == IF levels.known THEN RecentLevels(levels.samples, applied) ELSE levels.samples = <<>>

RulesInv ==
    /\ RulesTypes
    /\ InEventOrder
    /\ WindowInv
    /\ HeartbeatAlerts

------------------------------------------------------------------------------
(* What the helpers do to [open, levels].                                  *)

\* Raise leaves the code open, and everything else alone.
LEMMA RaiseIs ==
    ASSUME NEW s \in RuleState, NEW code \in AlertCodes, NEW at \in Nat
    PROVE  /\ Raise(s, code, at) \in RuleState
           /\ Raise(s, code, at).levels = s.levels
           /\ Raise(s, code, at).open[code] # Closed
           /\ Raise(s, code, at).open[code] \in {s.open[code], at}
           /\ \A c \in AlertCodes : c # code => Raise(s, code, at).open[c] = s.open[c]
<1>1. CASE s.open[code] # Closed
  BY <1>1 DEF Raise
<1>2. CASE s.open[code] = Closed
  <2> DEFINE t == [s EXCEPT !.open[code] = at]
  <2>1. Raise(s, code, at) = t
    BY <1>2 DEF Raise
  <2>2. t.open = [s.open EXCEPT ![code] = at] /\ t.levels = s.levels
    BY DEF RuleState
  <2>3. t \in RuleState
    BY <2>2 DEF RuleState, Opens
  <2>4. at # Closed
    BY DEF Closed
  <2> QED  BY <2>1, <2>2, <2>3, <2>4 DEF RuleState, Opens
<1> QED  BY <1>1, <1>2

\* Resolve closes the code when it was raised no later, and leaves the rest.
LEMMA ResolveIs ==
    ASSUME NEW s \in RuleState, NEW code \in AlertCodes, NEW at \in Nat
    PROVE  /\ Resolve(s, code, at) \in RuleState
           /\ Resolve(s, code, at).levels = s.levels
           /\ s.open[code] <= at => Resolve(s, code, at).open[code] = Closed
           /\ Resolve(s, code, at).open[code] \in {s.open[code], Closed}
           /\ \A c \in AlertCodes : c # code => Resolve(s, code, at).open[c] = s.open[c]
<1>1. CASE ~(s.open[code] <= at)
  BY <1>1 DEF Resolve
<1>2. CASE s.open[code] <= at
  <2> DEFINE t == [s EXCEPT !.open[code] = Closed]
  <2>1. Resolve(s, code, at) = t
    BY <1>2 DEF Resolve
  <2>2. t.open = [s.open EXCEPT ![code] = Closed] /\ t.levels = s.levels
    BY DEF RuleState
  <2>3. t \in RuleState
    BY <2>2 DEF RuleState, Opens
  <2> QED  BY <2>1, <2>2, <2>3 DEF RuleState, Opens
<1> QED  BY <1>1, <1>2

\* The battery rule opens below one threshold, closes at the other and touches
\* nothing else.
LEMMA BatteryIs ==
    ASSUME NEW s \in RuleState, NEW r \in Reading, s.open["LOW_BATTERY"] <= r.ts
    PROVE  /\ Battery(s, r) \in RuleState
           /\ Battery(s, r).levels = s.levels
           /\ Battery(s, r).open["LOW_BATTERY"] \in {s.open["LOW_BATTERY"], r.ts, Closed}
           /\ \A c \in AlertCodes : c # "LOW_BATTERY" => Battery(s, r).open[c] = s.open[c]
           /\ r.batt # NoBattery /\ r.batt < LowBattery => Battery(s, r).open["LOW_BATTERY"] # Closed
           /\ r.batt # NoBattery /\ r.batt >= BatteryClear => Battery(s, r).open["LOW_BATTERY"] = Closed
           /\ r.batt = NoBattery \/ (r.batt >= LowBattery /\ r.batt < BatteryClear) => Battery(s, r) = s
<1> "LOW_BATTERY" \in AlertCodes /\ r.ts \in Nat
  BY DEF AlertCodes, Reading
<1> LowBattery \in Nat /\ BatteryClear \in Nat /\ LowBattery <= BatteryClear
  BY RulesAssumption
<1> r.batt \in Nat \cup {NoBattery}
  BY DEF Reading
<1>1. CASE r.batt = NoBattery
  BY <1>1 DEF Battery
<1>2. CASE r.batt # NoBattery /\ r.batt < LowBattery
  <2>1. Battery(s, r) = Raise(s, "LOW_BATTERY", r.ts)
    BY <1>2 DEF Battery
  <2>2. ~(r.batt >= BatteryClear) /\ ~(r.batt >= LowBattery)
    BY <1>2
  <2> DEFINE x == Battery(s, r)
  <2>3. /\ x \in RuleState /\ x.levels = s.levels
        /\ x.open["LOW_BATTERY"] # Closed
        /\ x.open["LOW_BATTERY"] \in {s.open["LOW_BATTERY"], r.ts}
        /\ \A c \in AlertCodes : c # "LOW_BATTERY" => x.open[c] = s.open[c]
    <3> HIDE DEF x
    <3>1. x = Raise(s, "LOW_BATTERY", r.ts)
      BY <2>1 DEF x
    <3> QED  BY <3>1, RaiseIs
  <2>4. ~(r.batt = NoBattery \/ (r.batt >= LowBattery /\ r.batt < BatteryClear))
    BY <1>2, <2>2
  <2> QED  BY <1>2, <2>2, <2>3, <2>4, Zenon
<1>3. CASE r.batt # NoBattery /\ r.batt >= BatteryClear
  <2>1. Battery(s, r) = Resolve(s, "LOW_BATTERY", r.ts)
    BY <1>3 DEF Battery
  <2>2. ~(r.batt < BatteryClear) /\ ~(r.batt < LowBattery)
    BY <1>3
  <2> DEFINE x == Battery(s, r)
  <2>3. /\ x \in RuleState /\ x.levels = s.levels
        /\ x.open["LOW_BATTERY"] = Closed
        /\ \A c \in AlertCodes : c # "LOW_BATTERY" => x.open[c] = s.open[c]
    <3> HIDE DEF x
    <3>1. x = Resolve(s, "LOW_BATTERY", r.ts)
      BY <2>1 DEF x
    <3> QED  BY <3>1, ResolveIs
  <2>4. ~(r.batt = NoBattery \/ (r.batt >= LowBattery /\ r.batt < BatteryClear))
    BY <1>3, <2>2
  <2> QED  BY <1>3, <2>2, <2>3, <2>4, Zenon
<1>4. CASE r.batt # NoBattery /\ r.batt >= LowBattery /\ r.batt < BatteryClear
  <2>1. Battery(s, r) = s
    BY <1>4 DEF Battery
  <2> QED  BY <1>4, <2>1
<1> QED  BY <1>1, <1>2, <1>3, <1>4

\* When the mains are back both alerts of an outage are closed.
LEMMA MainsBackIs ==
    ASSUME NEW s \in RuleState, NEW r \in Reading,
           s.open["MAINS_LOST"] <= r.ts, s.open["OUTAGE_RISK"] <= r.ts
    PROVE  /\ MainsBack(s, r) \in RuleState
           /\ MainsBack(s, r).levels = Unknown
           /\ MainsBack(s, r).open["MAINS_LOST"] = Closed
           /\ MainsBack(s, r).open["OUTAGE_RISK"] = Closed
           /\ \A c \in AlertCodes : c \notin {"MAINS_LOST", "OUTAGE_RISK"} =>
                MainsBack(s, r).open[c] = s.open[c]
<1> DEFINE a == Resolve(s, "MAINS_LOST", r.ts)
           b == Resolve(a, "OUTAGE_RISK", r.ts)
           t == [b EXCEPT !.levels = Unknown]
<1>0. "MAINS_LOST" \in AlertCodes /\ "OUTAGE_RISK" \in AlertCodes /\ r.ts \in Nat
  BY DEF AlertCodes, Reading
<1>1. /\ a \in RuleState /\ a.open["MAINS_LOST"] = Closed
      /\ \A c \in AlertCodes : c # "MAINS_LOST" => a.open[c] = s.open[c]
  BY <1>0, ResolveIs
<1> HIDE DEF a
<1>2. a.open["OUTAGE_RISK"] <= r.ts
  BY <1>0, <1>1
<1>3. /\ b \in RuleState /\ b.open["OUTAGE_RISK"] = Closed
      /\ \A c \in AlertCodes : c # "OUTAGE_RISK" => b.open[c] = a.open[c]
  BY <1>0, <1>1, <1>2, ResolveIs
<1> HIDE DEF b
<1>4. Unknown \in Levels
  <2>1. <<>> \in Seq(Reading)
    OBVIOUS
  <2> QED  BY <2>1 DEF Unknown, Levels
<1>5. t.open = b.open /\ t.levels = Unknown /\ t \in RuleState
  BY <1>3, <1>4 DEF RuleState
<1>6. MainsBack(s, r) = t
  BY DEF MainsBack, a, b
<1> HIDE DEF t
<1> QED  BY <1>0, <1>1, <1>3, <1>5, <1>6

------------------------------------------------------------------------------
(* The level window.                                                       *)

\* The table's readings older than the next one are those applied.
LEMMA AppliedAreBefore ==
    ASSUME RulesTypes, InEventOrder, applied < Len(readings)
    PROVE  NumBefore(readings[applied + 1].ts) = applied
<1> DEFINE t == readings[applied + 1].ts
           P(n) == \A k \in DOMAIN readings : readings[k].ts < t <=> k <= n
<1>0. /\ applied \in Nat /\ Len(readings) \in Nat /\ applied + 1 \in DOMAIN readings
      /\ DOMAIN readings = 1 .. Len(readings)
      /\ \A k \in DOMAIN readings : readings[k].ts \in Nat
  <2>1. /\ readings \in Seq(Reading) /\ applied \in Nat
        /\ \A x \in Reading : x.ts \in Nat
    BY DEF RulesTypes, Reading
  <2>2. \A k \in DOMAIN readings : readings[k] \in Reading
    BY <2>1
  <2> QED  BY <2>1, <2>2
<1>1. P(applied)
  <2> SUFFICES ASSUME NEW k \in DOMAIN readings
               PROVE  readings[k].ts < t <=> k <= applied
    OBVIOUS
  <2>1. CASE k <= applied
    BY <1>0, <2>1 DEF InEventOrder
  <2>2. CASE k = applied + 1
    BY <1>0, <2>2
  <2>3. CASE k > applied + 1
    <3>1. t < readings[k].ts
      BY <1>0, <2>3 DEF InEventOrder
    <3> QED  BY <1>0, <2>3, <3>1
  <2> QED  BY <1>0, <2>1, <2>2, <2>3
<1>2. ASSUME NEW n \in 0 .. Len(readings), P(n)
      PROVE  n = applied
  <2>1. ~(n > applied)
    <3> SUFFICES ASSUME n > applied PROVE FALSE
      OBVIOUS
    <3>1. readings[applied + 1].ts < t
      BY <1>0, <1>2
    <3> QED  BY <1>0, <3>1
  <2>2. ~(n < applied)
    <3> SUFFICES ASSUME n < applied PROVE FALSE
      OBVIOUS
    <3>1. applied \in DOMAIN readings /\ readings[applied].ts < t
      BY <1>0, <1>1
    <3> QED  BY <1>0, <1>2, <3>1
  <2> QED  BY <1>0, <2>1, <2>2
<1>3. applied \in 0 .. Len(readings)
  BY <1>0
<1> HIDE DEF P
<1>4. NumBefore(t) = CHOOSE n \in 0 .. Len(readings) : P(n)
  BY DEF NumBefore, P
<1> QED  BY <1>1, <1>2, <1>3, <1>4

\* A window that the next reading can be appended to.
Behind(v) ==
    /\ v \in Seq(Reading) /\ Len(v) <= 3
    /\ \A k \in DOMAIN v : ~v[k].mains
    /\ applied >= 1 /\ ~readings[applied].mains =>
         Len(v) >= 1 /\ v[Len(v)] = readings[applied]
    /\ applied >= 2 /\ ~readings[applied].mains /\ ~readings[applied - 1].mains =>
         Len(v) >= 2 /\ v[Len(v) - 1] = readings[applied - 1]

\* What the table is seeded with is such a window.
LEMMA SeedIsBehind ==
    ASSUME RulesTypes, InEventOrder, applied < Len(readings)
    PROVE  Behind(Seed(readings[applied + 1]))
<1> DEFINE a == WithoutMains(applied - 1)
           b == WithoutMains(applied)
<1>0. /\ applied \in Nat /\ Len(readings) \in Nat
      /\ \A k \in 1 .. applied : readings[k] \in Reading
  BY DEF RulesTypes
<1>1. Seed(readings[applied + 1]) = a \o b
  BY AppliedAreBefore DEF Seed
<1>2. ASSUME NEW k \in {applied - 1, applied}
      PROVE  IF k >= 1 /\ ~readings[k].mains
             THEN /\ WithoutMains(k) \in Seq(Reading) /\ Len(WithoutMains(k)) = 1
                  /\ WithoutMains(k)[1] = readings[k]
                  /\ \A i \in DOMAIN WithoutMains(k) : ~WithoutMains(k)[i].mains
             ELSE /\ WithoutMains(k) \in Seq(Reading) /\ Len(WithoutMains(k)) = 0
                  /\ \A i \in DOMAIN WithoutMains(k) : ~WithoutMains(k)[i].mains
  <2>1. CASE k >= 1 /\ ~readings[k].mains
    <3>1. WithoutMains(k) = <<readings[k]>>
      BY <2>1 DEF WithoutMains
    <3>2. readings[k] \in Reading
      BY <1>0, <2>1
    <3> QED  BY <2>1, <3>1, <3>2
  <2>2. CASE ~(k >= 1 /\ ~readings[k].mains)
    BY <2>2 DEF WithoutMains
  <2> QED  BY <2>1, <2>2
<1>3. a \in Seq(Reading) /\ Len(a) \in 0 .. 1 /\ \A k \in DOMAIN a : ~a[k].mains
  <2>1. CASE applied - 1 >= 1 /\ ~readings[applied - 1].mains
    BY <1>2, <2>1, SMTT(20)
  <2>2. CASE ~(applied - 1 >= 1 /\ ~readings[applied - 1].mains)
    BY <1>2, <2>2
  <2> QED  BY <2>1, <2>2
<1>4. b \in Seq(Reading) /\ Len(b) \in 0 .. 1 /\ \A k \in DOMAIN b : ~b[k].mains
  <2>1. CASE applied >= 1 /\ ~readings[applied].mains
    BY <1>2, <2>1, SMTT(20)
  <2>2. CASE ~(applied >= 1 /\ ~readings[applied].mains)
    BY <1>2, <2>2
  <2> QED  BY <2>1, <2>2
<1>5. applied >= 1 /\ ~readings[applied].mains => Len(b) = 1 /\ b[1] = readings[applied]
  BY <1>2
<1>6. applied >= 2 /\ ~readings[applied - 1].mains =>
        Len(a) = 1 /\ a[1] = readings[applied - 1]
  BY <1>0, <1>2
<1> HIDE DEF a, b
<1> DEFINE v == a \o b
<1>7. /\ v \in Seq(Reading) /\ Len(v) = Len(a) + Len(b)
      /\ \A k \in 1 .. Len(a) : v[k] = a[k]
      /\ \A k \in 1 .. Len(b) : v[Len(a) + k] = b[k]
  BY <1>3, <1>4
<1> HIDE DEF v
<1>8. \A k \in DOMAIN v : ~v[k].mains
  <2> SUFFICES ASSUME NEW k \in DOMAIN v PROVE ~v[k].mains
    OBVIOUS
  <2>1. k \in 1 .. Len(a) \/ k - Len(a) \in 1 .. Len(b)
    BY <1>3, <1>4, <1>7
  <2>2. CASE k \in 1 .. Len(a)
    BY <1>3, <1>7, <2>2
  <2>3. CASE k - Len(a) \in 1 .. Len(b)
    <3>1. v[Len(a) + (k - Len(a))] = b[k - Len(a)] /\ Len(a) + (k - Len(a)) = k
      BY <1>3, <1>7, <2>3
    <3> QED  BY <1>4, <2>3, <3>1
  <2> QED  BY <2>1, <2>2, <2>3
<1>9. Behind(v)
  BY <1>0, <1>3, <1>4, <1>5, <1>6, <1>7, <1>8 DEF Behind
<1> QED  BY <1>1, <1>9 DEF v

\* So is the window in memory, when there is one.
LEMMA MemoryIsBehind ==
    ASSUME RulesInv, levels.known
    PROVE  Behind(levels.samples)
<1>1. levels.samples \in Seq(Reading) /\ applied \in Nat
  BY DEF RulesInv, RulesTypes, Levels
<1>2. /\ Len(levels.samples) <= 3 /\ \A k \in DOMAIN levels.samples : ~levels.samples[k].mains
      /\ RecentLevels(levels.samples, applied)
  BY DEF RulesInv, WindowInv, HeartbeatAlerts, RulesTypeOK
<1> DEFINE v == levels.samples
<1> HIDE DEF v
<1>3. /\ v \in Seq(Reading) /\ Len(v) <= 3 /\ Len(v) >= 1
      /\ \A k \in DOMAIN v : ~v[k].mains
      /\ v[Len(v)] = readings[applied]
      /\ applied >= 2 /\ ~readings[applied - 1].mains =>
           Len(v) >= 2 /\ v[Len(v) - 1] = readings[applied - 1]
  <2>1. \A k \in DOMAIN v : ~v[k].mains
    BY <1>2, Zenon DEF v
  <2>2. /\ Len(v) \in 1 .. 3 /\ v[Len(v)] = readings[applied]
        /\ applied >= 2 /\ ~readings[applied - 1].mains =>
             Len(v) >= 2 /\ v[Len(v) - 1] = readings[applied - 1]
    BY <1>2, Zenon DEF v, RecentLevels
  <2>3. v \in Seq(Reading)
    BY <1>1, Zenon DEF v
  <2>4. Len(v) <= 3 /\ Len(v) >= 1
    BY <2>2
  <2> QED  BY <2>1, <2>2, <2>3, <2>4, Zenon
<1> QED  BY <1>1, <1>3, Zenon DEF Behind, v

\* The window that the rule for OUTAGE_RISK looks at.
GoodWindow(w) ==
    /\ w \in Seq(Reading) /\ Len(w) \in 1 .. 3
    /\ \A k \in DOMAIN w : ~w[k].mains
    /\ w[Len(w)] = readings[applied + 1]
    /\ applied >= 1 /\ ~readings[applied].mains =>
         Len(w) >= 2 /\ w[Len(w) - 1] = readings[applied]
    /\ applied >= 2 /\ ~readings[applied].mains /\ ~readings[applied - 1].mains =>
         Len(w) = 3 /\ w[1] = readings[applied - 1]

Trimmed(all) == IF Len(all) > 3 THEN SubSeq(all, Len(all) - 2, Len(all)) ELSE all

\* The lengths of a window that holds at most three.
LEMMA Lengths ==
    ASSUME NEW n \in Nat, n <= 3
    PROVE  n \in 0 .. 3 /\ (n = 3 \/ n < 3) /\ (n >= 2 /\ n < 3 => n = 2 /\ n - 1 = 1)
OBVIOUS

\* Appending the next reading and keeping three.
LEMMA Appended ==
    ASSUME applied \in Nat, NEW r \in Reading, r = readings[applied + 1], ~r.mains,
           NEW v, Behind(v)
    PROVE  GoodWindow(Trimmed(Append(v, r)))
<1> DEFINE all == Append(v, r)
           w == Trimmed(all)
<1>3. /\ v \in Seq(Reading) /\ Len(v) \in 0 .. 3
      /\ applied >= 1 /\ ~readings[applied].mains =>
           Len(v) >= 1 /\ v[Len(v)] = readings[applied]
      /\ applied >= 2 /\ ~readings[applied].mains /\ ~readings[applied - 1].mains =>
           Len(v) >= 2 /\ v[Len(v) - 1] = readings[applied - 1]
  <2>1. v \in Seq(Reading) /\ Len(v) <= 3
    BY Zenon DEF Behind
  <2>2. Len(v) \in 0 .. 3
    <3>1. Len(v) \in Nat
      BY <2>1
    <3> QED  BY <2>1, <3>1, Lengths, Zenon
  <2> QED  BY <2>1, <2>2, Zenon DEF Behind
<1>4. \A k \in DOMAIN v : ~v[k].mains
  BY DEF Behind
<1>5. /\ all \in Seq(Reading) /\ Len(all) = Len(v) + 1 /\ all[Len(v) + 1] = r
      /\ \A k \in 1 .. Len(v) : all[k] = v[k]
  BY <1>3
<1>6. \A k \in 1 .. Len(all) : ~all[k].mains
  <2> SUFFICES ASSUME NEW k \in 1 .. Len(all) PROVE ~all[k].mains
    OBVIOUS
  <2>1. CASE k = Len(v) + 1
    BY <1>5, <2>1
  <2>2. CASE k \in 1 .. Len(v)
    <3>1. all[k] = v[k] /\ k \in DOMAIN v
      BY <1>3, <1>5, <2>2
    <3> QED  BY <1>4, <3>1
  <2> QED  BY <1>3, <1>5, <2>1, <2>2
<1> HIDE DEF all
<1>7. CASE Len(v) = 3
  <2>1. Len(all) = 4 /\ w = SubSeq(all, 2, 4)
    BY <1>5, <1>7 DEF Trimmed
  <2>2. /\ w \in Seq(Reading) /\ Len(w) = 3
        /\ w[1] = all[2] /\ w[2] = all[3] /\ w[3] = all[4]
    <3>1. \A i \in 2 .. 4 : all[i] \in Reading
      <4>1. \A i \in 1 .. Len(all) : all[i] \in Reading
        BY <1>5, ElementOfSeq
      <4>2. \A i \in 1 .. 4 : all[i] \in Reading
        BY <2>1, <4>1, Zenon
      <4> QED  BY <4>2
    <3>2. /\ w \in Seq(Reading) /\ Len(w) = 4 - 2 + 1
          /\ \A i \in 1 .. 4 - 2 + 1 : w[i] = all[2 + i - 1]
      BY <2>1, <3>1, SubSeqProperties
    <3> QED  BY <3>2
  <2> HIDE DEF w
  <2>3. \A k \in DOMAIN w : ~w[k].mains
    <3> SUFFICES ASSUME NEW k \in {1, 2, 3} PROVE ~w[k].mains
      BY <2>2
    <3> QED  BY <1>6, <2>1, <2>2
  <2>4. w[3] = r /\ w[2] = v[3] /\ w[1] = v[2]
    BY <1>3, <1>5, <1>7, <2>2
  <2>5. /\ applied >= 1 /\ ~readings[applied].mains => v[3] = readings[applied]
        /\ applied >= 2 /\ ~readings[applied].mains /\ ~readings[applied - 1].mains =>
             v[2] = readings[applied - 1]
    BY <1>3, <1>7
  <2>6. GoodWindow(w)
    BY <2>2, <2>3, <2>4, <2>5 DEF GoodWindow
  <2> QED  BY <2>6 DEF w, all
<1>8. CASE Len(v) < 3
  <2>1. w = all /\ Len(all) \in 1 .. 3
    BY <1>3, <1>5, <1>8 DEF Trimmed
  <2>2. applied >= 1 /\ ~readings[applied].mains =>
          Len(all) >= 2 /\ all[Len(all) - 1] = readings[applied]
    BY <1>3, <1>5
  <2>3. applied >= 2 /\ ~readings[applied].mains /\ ~readings[applied - 1].mains =>
          Len(all) = 3 /\ all[1] = readings[applied - 1]
    <3> SUFFICES ASSUME applied >= 2, ~readings[applied].mains, ~readings[applied - 1].mains
                 PROVE  Len(all) = 3 /\ all[1] = readings[applied - 1]
      OBVIOUS
    <3>1. Len(v) >= 2 /\ v[Len(v) - 1] = readings[applied - 1]
      BY <1>3, Zenon
    <3>2. Len(v) = 2 /\ Len(v) - 1 = 1
      <4>1. Len(v) \in Nat /\ Len(v) <= 3
        BY <1>3
      <4> QED  BY <1>8, <3>1, <4>1, Lengths, Zenon
    <3>3. v[1] = readings[applied - 1]
      BY <3>1, <3>2
    <3> QED  BY <1>5, <3>2, <3>3
  <2>4. GoodWindow(all)
    <3>1. all[Len(all)] = readings[applied + 1]
      BY <1>3, <1>5
    <3>2. \A k \in DOMAIN all : ~all[k].mains
      BY <1>5, <1>6
    <3> QED  BY <1>5, <2>1, <2>2, <2>3, <3>1, <3>2 DEF GoodWindow
  <2> QED  BY <2>1, <2>4 DEF all
<1>9. Len(v) = 3 \/ Len(v) < 3
  <2>1. Len(v) \in Nat /\ Len(v) <= 3
    BY <1>3
  <2> QED  BY <2>1, Lengths, Zenon
<1> QED  BY <1>7, <1>8, <1>9

\* The window in memory, or the one seeded, with the next reading.
LEMMA SamplesAre ==
    ASSUME RulesInv, applied < Len(readings), ~readings[applied + 1].mains,
           NEW s, s.levels = levels
    PROVE  GoodWindow(samples(s, readings[applied + 1]))
<1> DEFINE r == readings[applied + 1]
           v == IF s.levels.known THEN s.levels.samples ELSE Seed(r)
<1>0. applied \in Nat /\ r \in Reading /\ ~r.mains
  <2>1. readings \in Seq(Reading) /\ applied \in Nat
    BY DEF RulesInv, RulesTypes
  <2> QED  BY <2>1
<1>1. Behind(v)
  <2>1. CASE levels.known
    <3>1. v = levels.samples
      BY <2>1, Zenon
    <3> QED  BY <2>1, <3>1, MemoryIsBehind
  <2>2. CASE ~levels.known
    <3>1. v = Seed(r)
      BY <2>2, Zenon
    <3> QED  BY <3>1, SeedIsBehind DEF RulesInv
  <2> QED  BY <2>1, <2>2
<1>2. samples(s, r) = Trimmed(Append(v, r))
  BY DEF samples, Trimmed
<1> HIDE DEF r, v
<1>3. GoodWindow(Trimmed(Append(v, r)))
  BY <1>0, <1>1, Appended DEF r
<1> QED  BY <1>2, <1>3 DEF r

------------------------------------------------------------------------------
(* One reading through all the rules.                                      *)

\* When rain overlaps the window or nothing reaches the reading, the term holds.
LEMMA RainSeen ==
    ASSUME rain \in RainRecords, NEW at \in Nat,
           \/ \E x \in rain : /\ x.mm > 0 /\ x.interval <= ScanBack
                              /\ x.ts < at /\ x.ts + x.interval > at - RainWindow
           \/ \A x \in rain : x.ts < at => x.ts + x.interval < at - RainSlack
    PROVE  rainHolds(at)
<1>0. /\ RainWindow \in Nat /\ RainSlack \in Nat /\ ScanBack \in Nat
      /\ rain \subseteq [ts : Int, interval : Nat, mm : Nat]
  BY RulesAssumption
<1>1. CASE \E x \in rain : /\ x.mm > 0 /\ x.interval <= ScanBack
                           /\ x.ts < at /\ x.ts + x.interval > at - RainWindow
  <2>1. PICK x \in rain : /\ x.mm > 0 /\ x.interval <= ScanBack
                          /\ x.ts < at /\ x.ts + x.interval > at - RainWindow
    BY <1>1
  <2>2. x.ts \in Int /\ x.interval \in Nat
    BY <1>0
  <2>3. x.ts >= at - RainWindow - ScanBack
    BY <1>0, <2>1, <2>2
  <2> QED  BY <2>1, <2>3 DEF rainHolds, rained, RainNear
<1>2. CASE \A x \in rain : x.ts < at => x.ts + x.interval < at - RainSlack
  <2>1. ~covered(at)
    <3> SUFFICES ASSUME NEW x \in rain, x.ts < at, x.ts + x.interval >= at - RainSlack
                 PROVE  FALSE
      BY DEF covered, RainNear
    <3>1. x.ts \in Int /\ x.interval \in Nat
      BY <1>0
    <3> QED  BY <1>0, <1>2, <3>1
  <2> QED  BY <2>1 DEF rainHolds
<1> QED  BY <1>1, <1>2

\* The risk rule keeps the window, and opens the risk the window shows.
LEMMA OutageRiskIs ==
    ASSUME RulesTypes, NEW s \in RuleState, NEW r \in Reading,
           NEW w \in Seq(Reading), samples(s, r) = w, Len(w) <= 3
    PROVE  /\ OutageRisk(s, r) \in RuleState
           /\ OutageRisk(s, r).levels = [known |-> TRUE, samples |-> w]
           /\ OutageRisk(s, r).open["OUTAGE_RISK"] \in {s.open["OUTAGE_RISK"], r.ts, Closed}
           /\ \A c \in AlertCodes : c # "OUTAGE_RISK" => OutageRisk(s, r).open[c] = s.open[c]
           /\ Len(w) = 3 /\ r.ts - w[1].ts <= RiseWindow /\ LevelRising(w) /\ rainHolds(r.ts) =>
                OutageRisk(s, r).open["OUTAGE_RISK"] # Closed
<1> DEFINE l == [known |-> TRUE, samples |-> w]
           s1 == [s EXCEPT !.levels = l]
           t == OutageRisk(s, r)
           narrow == Len(w) < 3 \/ r.ts - w[1].ts > RiseWindow
<1>0. "OUTAGE_RISK" \in AlertCodes /\ r.ts \in Nat
  BY DEF AlertCodes, Reading
<1>1. s1 \in RuleState /\ s1.open = s.open /\ s1.levels = l
  BY DEF RuleState, Levels
<1>2. t = IF narrow THEN s1
          ELSE IF LevelRising(w) THEN IF rainHolds(r.ts) THEN Raise(s1, "OUTAGE_RISK", r.ts) ELSE s1
          ELSE IF LevelFalling(w) THEN Resolve(s1, "OUTAGE_RISK", r.ts) ELSE s1
  BY DEF OutageRisk
<1>3. Len(w) = 3 /\ r.ts - w[1].ts <= RiseWindow => ~narrow
  <2> SUFFICES ASSUME Len(w) = 3, r.ts - w[1].ts <= RiseWindow PROVE ~narrow
    OBVIOUS
  <2>1. w[1] \in Reading
    <3>1. 1 \in 1 .. Len(w)
      OBVIOUS
    <3> QED  BY <3>1, ElementOfSeq
  <2>2. w[1].ts \in Nat /\ RiseWindow \in Nat
    BY <2>1, RulesAssumption DEF Reading
  <2> QED  BY <1>0, <2>2
<1> HIDE DEF s1, t, narrow
<1>4. CASE t = Raise(s1, "OUTAGE_RISK", r.ts)
  <2>1. /\ t \in RuleState /\ t.levels = s1.levels /\ t.open["OUTAGE_RISK"] # Closed
        /\ t.open["OUTAGE_RISK"] \in {s1.open["OUTAGE_RISK"], r.ts}
        /\ \A c \in AlertCodes : c # "OUTAGE_RISK" => t.open[c] = s1.open[c]
    BY <1>0, <1>1, <1>4, RaiseIs
  <2> QED  BY <1>1, <2>1 DEF t
<1>5. CASE t = s1 /\ (narrow \/ ~LevelRising(w) \/ ~rainHolds(r.ts))
  BY <1>1, <1>3, <1>5 DEF t
<1>6. CASE t = Resolve(s1, "OUTAGE_RISK", r.ts) /\ ~LevelRising(w)
  <2>1. /\ t \in RuleState /\ t.levels = s1.levels
        /\ t.open["OUTAGE_RISK"] \in {s1.open["OUTAGE_RISK"], Closed}
        /\ \A c \in AlertCodes : c # "OUTAGE_RISK" => t.open[c] = s1.open[c]
    BY <1>0, <1>1, <1>6, ResolveIs
  <2> QED  BY <1>1, <1>6, <2>1 DEF t
<1> QED  BY <1>2, <1>4, <1>5, <1>6, Zenon

\* A code that follows a condition is opened, closed or left, and alone.
LEMMA FollowIs ==
    ASSUME NEW s \in RuleState, NEW code \in AlertCodes, NEW at \in Nat, NEW t,
           t = Raise(s, code, at) \/ t = Resolve(s, code, at)
    PROVE  /\ t \in RuleState /\ t.levels = s.levels
           /\ t.open[code] \in {s.open[code], at, Closed}
           /\ \A c \in AlertCodes : c # code => t.open[c] = s.open[c]
<1>1. CASE t = Raise(s, code, at)
  BY <1>1, RaiseIs
<1>2. CASE t = Resolve(s, code, at)
  BY <1>2, ResolveIs
<1> QED  BY <1>1, <1>2

\* The rules before the mains are looked at.
LEMMA FirstRules ==
    ASSUME NEW s \in RuleState, NEW r \in Reading, \A c \in AlertCodes : s.open[c] <= r.ts
    PROVE  LET t == Battery(Follow(Follow(s, "FLOAT_HIGH", r.float, r.ts),
                                   "SENSOR_FAULT", r.fault, r.ts), r)
           IN  /\ t \in RuleState /\ t.levels = s.levels
               /\ \A c \in AlertCodes : t.open[c] \in {s.open[c], r.ts, Closed}
               /\ t.open["MAINS_LOST"] = s.open["MAINS_LOST"]
               /\ t.open["OUTAGE_RISK"] = s.open["OUTAGE_RISK"]
               /\ r.batt # NoBattery /\ r.batt < LowBattery => t.open["LOW_BATTERY"] # Closed
               /\ r.batt # NoBattery /\ r.batt >= BatteryClear => t.open["LOW_BATTERY"] = Closed
               /\ r.batt = NoBattery \/ (r.batt >= LowBattery /\ r.batt < BatteryClear) =>
                    t.open["LOW_BATTERY"] = s.open["LOW_BATTERY"]
<1> DEFINE float == "FLOAT_HIGH"
           fault == "SENSOR_FAULT"
           bat == "LOW_BATTERY"
           s1 == Follow(s, float, r.float, r.ts)
           s2 == Follow(s1, fault, r.fault, r.ts)
           s3 == Battery(s2, r)
<1>0. /\ float \in AlertCodes /\ fault \in AlertCodes /\ bat \in AlertCodes
      /\ "MAINS_LOST" \in AlertCodes /\ "OUTAGE_RISK" \in AlertCodes
      /\ float # bat /\ fault # bat /\ float # fault
      /\ "MAINS_LOST" \notin {float, fault, bat} /\ "OUTAGE_RISK" \notin {float, fault, bat}
      /\ r.ts \in Nat
  BY DEF AlertCodes, Reading
<1> HIDE DEF float, fault, bat
<1>1. /\ s1 \in RuleState /\ s1.levels = s.levels
      /\ s1.open[float] \in {s.open[float], r.ts, Closed}
      /\ \A c \in AlertCodes : c # float => s1.open[c] = s.open[c]
  <2>1. s1 = Raise(s, float, r.ts) \/ s1 = Resolve(s, float, r.ts)
    BY Zenon DEF Follow
  <2> HIDE DEF s1
  <2> QED  BY <1>0, <2>1, FollowIs
<1> HIDE DEF s1
<1>2. /\ s2 \in RuleState /\ s2.levels = s1.levels
      /\ s2.open[fault] \in {s1.open[fault], r.ts, Closed}
      /\ \A c \in AlertCodes : c # fault => s2.open[c] = s1.open[c]
  <2>1. s2 = Raise(s1, fault, r.ts) \/ s2 = Resolve(s1, fault, r.ts)
    BY Zenon DEF Follow
  <2> HIDE DEF s2
  <2> QED  BY <1>0, <1>1, <2>1, FollowIs
<1> HIDE DEF s2
<1>3. s2.open[bat] = s.open[bat] /\ s2.open[bat] <= r.ts
  BY <1>0, <1>1, <1>2
<1>4. /\ s3 \in RuleState /\ s3.levels = s2.levels
      /\ s3.open[bat] \in {s2.open[bat], r.ts, Closed}
      /\ \A c \in AlertCodes : c # bat => s3.open[c] = s2.open[c]
      /\ r.batt # NoBattery /\ r.batt < LowBattery => s3.open[bat] # Closed
      /\ r.batt # NoBattery /\ r.batt >= BatteryClear => s3.open[bat] = Closed
      /\ r.batt = NoBattery \/ (r.batt >= LowBattery /\ r.batt < BatteryClear) => s3 = s2
  BY <1>2, <1>3, BatteryIs, Zenon DEF bat
<1> HIDE DEF s3
<1>5. \A c \in AlertCodes : s3.open[c] \in {s.open[c], r.ts, Closed}
  <2> SUFFICES ASSUME NEW c \in AlertCodes PROVE s3.open[c] \in {s.open[c], r.ts, Closed}
    OBVIOUS
  <2>1. CASE c = bat
    BY <1>3, <1>4, <2>1
  <2>2. CASE c = fault
    BY <1>0, <1>1, <1>2, <1>4, <2>2
  <2>3. CASE c = float
    BY <1>0, <1>1, <1>2, <1>4, <2>3
  <2>4. CASE c \notin {bat, fault, float}
    BY <1>1, <1>2, <1>4, <2>4
  <2> QED  BY <2>1, <2>2, <2>3, <2>4
<1>6. /\ s3.open["MAINS_LOST"] = s.open["MAINS_LOST"]
      /\ s3.open["OUTAGE_RISK"] = s.open["OUTAGE_RISK"]
  BY <1>0, <1>1, <1>2, <1>4
<1>7. r.batt = NoBattery \/ (r.batt >= LowBattery /\ r.batt < BatteryClear) =>
        s3.open[bat] = s.open[bat]
  BY <1>3, <1>4, Zenon
<1>8. s3.levels = s.levels
  BY <1>1, <1>2, <1>4
<1> QED  BY <1>4, <1>5, <1>6, <1>7, <1>8, Zenon DEF float, fault, bat, s1, s2, s3

\* MAINS_LOST is opened before the level is looked at.
LEMMA MainsLostIs ==
    ASSUME NEW s \in RuleState, NEW r \in Reading
    PROVE  LET t == Raise(s, "MAINS_LOST", r.ts)
           IN  /\ t \in RuleState /\ t.levels = s.levels /\ t.open["MAINS_LOST"] # Closed
               /\ t.open["MAINS_LOST"] \in {s.open["MAINS_LOST"], r.ts}
               /\ \A c \in AlertCodes : c # "MAINS_LOST" => t.open[c] = s.open[c]
<1> DEFINE code == "MAINS_LOST"
<1>1. code \in AlertCodes /\ r.ts \in Nat
  BY DEF AlertCodes, Reading
<1> HIDE DEF code
<1>2. /\ Raise(s, code, r.ts) \in RuleState
      /\ Raise(s, code, r.ts).levels = s.levels
      /\ Raise(s, code, r.ts).open[code] # Closed
      /\ Raise(s, code, r.ts).open[code] \in {s.open[code], r.ts}
      /\ \A c \in AlertCodes : c # code => Raise(s, code, r.ts).open[c] = s.open[c]
  BY <1>1, RaiseIs, Zenon
<1> QED  BY <1>2, Zenon DEF code

\* What one reading does to the alerts and to the window.
LEMMA AppliedIs ==
    ASSUME RulesInv, applied < Len(readings), NEW r \in Reading, r = readings[applied + 1],
           NEW s \in RuleState, s.open = raisedAt, s.levels = levels,
           \A c \in AlertCodes : s.open[c] <= r.ts
    PROVE  LET t == Applied(s, r)
               w == samples(s, r)
           IN  /\ t \in RuleState
               /\ \A c \in AlertCodes : t.open[c] \in {raisedAt[c], r.ts, Closed}
               /\ r.batt # NoBattery /\ r.batt < LowBattery => t.open["LOW_BATTERY"] # Closed
               /\ r.batt # NoBattery /\ r.batt >= BatteryClear => t.open["LOW_BATTERY"] = Closed
               /\ r.batt = NoBattery \/ (r.batt >= LowBattery /\ r.batt < BatteryClear) =>
                    t.open["LOW_BATTERY"] = raisedAt["LOW_BATTERY"]
               /\ r.mains => /\ t.levels = Unknown
                             /\ t.open["MAINS_LOST"] = Closed /\ t.open["OUTAGE_RISK"] = Closed
               /\ ~r.mains =>
                    /\ GoodWindow(w) /\ t.levels = [known |-> TRUE, samples |-> w]
                    /\ t.open["MAINS_LOST"] # Closed
                    /\ Len(w) = 3 /\ r.ts - w[1].ts <= RiseWindow /\ LevelRising(w) /\ rainHolds(r.ts)
                         => t.open["OUTAGE_RISK"] # Closed
<1> DEFINE s3 == Battery(Follow(Follow(s, "FLOAT_HIGH", r.float, r.ts),
                                "SENSOR_FAULT", r.fault, r.ts), r)
           s4 == Raise(s3, "MAINS_LOST", r.ts)
           t == Applied(s, r)
           w == samples(s, r)
           bat == "LOW_BATTERY"
<1>0. /\ AlertCodes = {"FLOAT_HIGH", "SENSOR_FAULT", "LOW_BATTERY", "MAINS_LOST", "OUTAGE_RISK"}
      /\ r.ts \in Nat
  BY DEF AlertCodes, Reading
<1>4. /\ s3 \in RuleState /\ s3.levels = levels
      /\ \A c \in AlertCodes : s3.open[c] \in {raisedAt[c], r.ts, Closed}
      /\ r.batt # NoBattery /\ r.batt < LowBattery => s3.open[bat] # Closed
      /\ r.batt # NoBattery /\ r.batt >= BatteryClear => s3.open[bat] = Closed
      /\ r.batt = NoBattery \/ (r.batt >= LowBattery /\ r.batt < BatteryClear) =>
           s3.open[bat] = raisedAt[bat]
  BY FirstRules, Zenon
<1>5. /\ s3.open["MAINS_LOST"] = raisedAt["MAINS_LOST"]
      /\ s3.open["OUTAGE_RISK"] = raisedAt["OUTAGE_RISK"]
  BY FirstRules, Zenon
<1>6. /\ r.mains => t = MainsBack(s3, r)
      /\ ~r.mains => t = OutageRisk(s4, r)
  BY DEF Applied
<1> HIDE DEF s3
<1>7. CASE r.mains
  <2>1. s3.open["MAINS_LOST"] <= r.ts /\ s3.open["OUTAGE_RISK"] <= r.ts
    BY <1>0, <1>5
  <2>2. /\ t \in RuleState /\ t.levels = Unknown
        /\ t.open["MAINS_LOST"] = Closed /\ t.open["OUTAGE_RISK"] = Closed
        /\ \A c \in AlertCodes : c \notin {"MAINS_LOST", "OUTAGE_RISK"} => t.open[c] = s3.open[c]
    <3>1. t = MainsBack(s3, r)
      BY <1>6, <1>7
    <3> HIDE DEF t, s4
    <3> QED  BY <1>4, <2>1, <3>1, MainsBackIs
  <2> HIDE DEF t, s4
  <2>3. /\ t.open["FLOAT_HIGH"] = s3.open["FLOAT_HIGH"]
        /\ t.open["SENSOR_FAULT"] = s3.open["SENSOR_FAULT"]
        /\ t.open[bat] = s3.open[bat]
    BY <1>0, <2>2
  <2>4. \A c \in AlertCodes : t.open[c] \in {raisedAt[c], r.ts, Closed}
    BY <1>0, <1>4, <1>5, <2>2, <2>3
  <2> QED  BY <1>4, <1>7, <2>2, <2>3, <2>4, Zenon DEF t
<1>8. CASE ~r.mains
  <2>1. /\ s4 \in RuleState /\ s4.levels = levels /\ s4.open["MAINS_LOST"] # Closed
        /\ s4.open["MAINS_LOST"] \in {raisedAt["MAINS_LOST"], r.ts}
        /\ \A c \in AlertCodes : c # "MAINS_LOST" => s4.open[c] = s3.open[c]
    BY <1>4, <1>5, MainsLostIs, Zenon
  <2>2. w = samples(s4, r)
    BY <2>1 DEF samples
  <2>3. GoodWindow(w)
    BY <1>8, SamplesAre
  <2>4. w \in Seq(Reading) /\ Len(w) <= 3
    <3>1. w \in Seq(Reading) /\ Len(w) \in 1 .. 3
      BY <2>3, Zenon DEF GoodWindow
    <3> DEFINE n == Len(w)
    <3>2. n \in 1 .. 3
      BY <3>1
    <3> HIDE DEF n, w
    <3>3. n <= 3
      BY <3>2
    <3> QED  BY <3>1, <3>3, Zenon DEF n
  <2> HIDE DEF s4, w
  <2>5. /\ t \in RuleState /\ t.levels = [known |-> TRUE, samples |-> w]
        /\ t.open["OUTAGE_RISK"] \in {s4.open["OUTAGE_RISK"], r.ts, Closed}
        /\ \A c \in AlertCodes : c # "OUTAGE_RISK" => t.open[c] = s4.open[c]
        /\ Len(w) = 3 /\ r.ts - w[1].ts <= RiseWindow /\ LevelRising(w) /\ rainHolds(r.ts) =>
             t.open["OUTAGE_RISK"] # Closed
    <3>1. RulesTypes
      BY DEF RulesInv
    <3>2. t = OutageRisk(s4, r)
      BY <1>6, <1>8
    <3> HIDE DEF t
    <3> QED  BY <2>1, <2>2, <2>4, <3>1, <3>2, OutageRiskIs, Zenon
  <2> HIDE DEF t
  <2>6. /\ t.open["FLOAT_HIGH"] = s3.open["FLOAT_HIGH"]
        /\ t.open["SENSOR_FAULT"] = s3.open["SENSOR_FAULT"]
        /\ t.open[bat] = s3.open[bat]
        /\ t.open["MAINS_LOST"] = s4.open["MAINS_LOST"]
        /\ s4.open["OUTAGE_RISK"] = raisedAt["OUTAGE_RISK"]
    BY <1>0, <1>5, <2>1, <2>5
  <2>7. \A c \in AlertCodes : t.open[c] \in {raisedAt[c], r.ts, Closed}
    BY <1>0, <1>4, <1>5, <2>1, <2>5, <2>6
  <2> QED  BY <1>4, <1>8, <2>1, <2>3, <2>5, <2>6, <2>7, Zenon DEF t, w
<1> QED  BY <1>7, <1>8

------------------------------------------------------------------------------
(* The invariant.                                                          *)

\* Nothing is open and nothing is remembered at the start.
LEMMA RulesInitInv == RulesInit => RulesInv
<1> SUFFICES ASSUME RulesInit PROVE RulesInv
  OBVIOUS
<1> USE DEF RulesInit
<1>1. RulesTypes
  <2>1. Unknown \in Levels
    <3>1. <<>> \in Seq(Reading)
      OBVIOUS
    <3> QED  BY <3>1 DEF Unknown, Levels
  <2> QED  BY <2>1 DEF RulesTypes, Opens
<1>2. readings = <<>> /\ applied = 0 /\ levels.samples = <<>> /\ levels.known = FALSE
  BY DEF Unknown
<1>3. \A c \in AlertCodes : raisedAt[c] = Closed
  OBVIOUS
<1>4. InEventOrder /\ WindowInv
  BY <1>2 DEF InEventOrder, WindowInv
<1>5. RulesTypeOK
  BY <1>2, <1>3 DEF RulesTypeOK
<1>6. OutageRiskSeen /\ RiskNeedsOutage /\ BatteryLatched
  BY <1>2, <1>3 DEF OutageRiskSeen, RiskNeedsOutage, BatteryLatched, IsOpen, AlertCodes
<1> QED  BY <1>1, <1>4, <1>5, <1>6 DEF RulesInv, HeartbeatAlerts

\* A reading that is stored changes nothing for those applied.
LEMMA ReportedInv ==
    ASSUME RulesInv, NEW b \in Beats, NEW gap \in Gaps, Reported(b, gap)
    PROVE  RulesInv'
<1> DEFINE newest == IF readings = <<>> THEN 0 ELSE readings[Len(readings)].ts
           r == [ts |-> gap + newest, mains |-> b.mains, float |-> b.float, fault |-> b.fault,
                 batt |-> b.batt, dist |-> b.dist]
<1>0. /\ readings \in Seq(Reading) /\ Len(readings) \in Nat
      /\ applied \in Nat /\ applied <= Len(readings)
      /\ \A k \in 1 .. Len(readings) : readings[k] \in Reading
      /\ \A x \in Reading : x.ts \in Nat
  <2>1. readings \in Seq(Reading) /\ applied \in Nat /\ applied <= Len(readings)
    BY DEF RulesInv, RulesTypes
  <2>2. \A x \in Reading : x.ts \in Nat
    BY DEF Reading
  <2> QED  BY <2>1, <2>2
<1>1. readings' = Append(readings, r) /\ UNCHANGED <<applied, raisedAt, levels, rain, restarts>>
  BY DEF Reported
<1>2. newest \in Nat /\ \A k \in 1 .. Len(readings) : readings[k].ts <= newest
  <2>1. CASE readings = <<>>
    BY <1>0, <2>1
  <2>2. CASE readings # <<>>
    <3>1. Len(readings) \in 1 .. Len(readings) /\ newest = readings[Len(readings)].ts
      BY <1>0, <2>2
    <3>2. newest \in Nat
      BY <1>0, <3>1
    <3>3. ASSUME NEW k \in 1 .. Len(readings) PROVE readings[k].ts <= newest
      BY <1>0, <3>1, <3>2 DEF RulesInv, InEventOrder
    <3> QED  BY <3>2, <3>3
  <2> QED  BY <2>1, <2>2
<1>3. r \in Reading /\ r.ts = gap + newest
  <2>1. gap \in Nat /\ gap > 0
    BY RulesAssumption
  <2>2. b \in [mains : BOOLEAN, float : BOOLEAN, fault : BOOLEAN,
               batt : Nat \cup {NoBattery}, dist : Int]
    BY RulesAssumption
  <2> HIDE DEF newest
  <2>3. gap + newest \in Nat
    BY <1>2, <2>1
  <2> QED  BY <2>2, <2>3 DEF Reading
<1>4. \A k \in 1 .. Len(readings) : readings[k].ts < r.ts
  <2>1. gap \in Nat /\ gap > 0
    BY RulesAssumption
  <2> HIDE DEF newest, r
  <2> QED  BY <1>0, <1>2, <1>3, <2>1
<1> HIDE DEF r, newest
<1>5. /\ readings' \in Seq(Reading) /\ Len(readings') = Len(readings) + 1
      /\ readings'[Len(readings) + 1] = r
      /\ \A k \in 1 .. Len(readings) : readings'[k] = readings[k]
  BY <1>0, <1>1, <1>3
<1>6. \A k \in 1 .. applied : readings'[k] = readings[k]
  BY <1>0, <1>5
<1>7. RulesTypes'
  BY <1>0, <1>1, <1>5 DEF RulesInv, RulesTypes
<1>8. InEventOrder'
  <2> SUFFICES ASSUME NEW i \in DOMAIN readings', NEW j \in DOMAIN readings', i < j
               PROVE  readings'[i].ts < readings'[j].ts
    BY DEF InEventOrder
  <2>1. /\ i \in 1 .. Len(readings)
        /\ j \in 1 .. Len(readings) \/ j = Len(readings) + 1
    BY <1>0, <1>5
  <2>2. CASE j \in 1 .. Len(readings)
    BY <1>0, <1>5, <2>1, <2>2 DEF RulesInv, InEventOrder
  <2>3. CASE j = Len(readings) + 1
    BY <1>4, <1>5, <2>1, <2>3
  <2> QED  BY <2>1, <2>2, <2>3
<1>9. WindowInv'
  <2>1. WindowInv /\ levels' = levels /\ applied' = applied
    BY <1>1 DEF RulesInv
  <2>2. CASE ~levels.known
    BY <2>1, <2>2 DEF WindowInv
  <2>3. CASE levels.known
    <3>1. RecentLevels(levels.samples, applied)
      BY <2>1, <2>3 DEF WindowInv
    <3>2. applied >= 1
      BY <3>1 DEF RecentLevels
    <3>3. readings'[applied] = readings[applied]
      BY <1>0, <1>6, <3>2
    <3>4. applied >= 2 => readings'[applied - 1] = readings[applied - 1]
      BY <1>0, <1>6
    <3>5. RecentLevels(levels.samples, applied)'
      BY <2>1, <3>1, <3>3, <3>4 DEF RecentLevels
    <3> QED  BY <2>1, <2>3, <3>5 DEF WindowInv
  <2> QED  BY <2>2, <2>3
<1>10. RulesTypeOK'
  BY <1>0, <1>1, <1>5, <1>6 DEF RulesInv, HeartbeatAlerts, RulesTypeOK
<1>11. RiskNeedsOutage'
  BY <1>1 DEF RulesInv, HeartbeatAlerts, RiskNeedsOutage, IsOpen
<1>12. BatteryLatched'
  <2>1. \A k \in 1 .. applied : \A i \in k + 1 .. applied : i \in 1 .. applied
    BY <1>0
  <2>2. applied' = applied /\ raisedAt' = raisedAt /\ BatteryLatched
    BY <1>1 DEF RulesInv, HeartbeatAlerts
  <2> QED  BY <1>6, <2>1, <2>2 DEF BatteryLatched, IsOpen
<1>13. OutageRiskSeen'
  <2>1. applied >= 3 => SubSeq(readings', applied - 2, applied) = SubSeq(readings, applied - 2, applied)
    <3> SUFFICES ASSUME applied >= 3
                 PROVE  SubSeq(readings', applied - 2, applied) = SubSeq(readings, applied - 2, applied)
      OBVIOUS
    <3>1. \A k \in applied - 2 .. applied : readings'[k] = readings[k] /\ readings[k] \in Reading
      BY <1>0, <1>6
    <3> QED  BY <1>0, <3>1
  <2>2. /\ applied' = applied /\ rain' = rain /\ raisedAt' = raisedAt /\ OutageRiskSeen
    BY <1>1 DEF RulesInv, HeartbeatAlerts
  <2> QED  BY <2>1, <2>2 DEF OutageRiskSeen, IsOpen
<1> QED  BY <1>7, <1>8, <1>9, <1>10, <1>11, <1>12, <1>13 DEF RulesInv, HeartbeatAlerts

\* A restart forgets the window only.
LEMMA ResetRulesInv ==
    ASSUME RulesInv, ResetRules
    PROVE  RulesInv'
<1>1. /\ restarts' = restarts + 1 /\ levels' = Unknown
      /\ UNCHANGED <<readings, applied, raisedAt, rain>>
  BY DEF ResetRules
<1>2. Unknown \in Levels /\ Unknown.known = FALSE /\ Unknown.samples = <<>>
  <2>1. <<>> \in Seq(Reading)
    OBVIOUS
  <2> QED  BY <2>1 DEF Unknown, Levels
<1>3. RulesTypes'
  BY <1>1, <1>2 DEF RulesInv, RulesTypes
<1>4. InEventOrder' /\ WindowInv'
  BY <1>1, <1>2 DEF RulesInv, InEventOrder, WindowInv
<1>5. RulesTypeOK'
  BY <1>1, <1>2 DEF RulesInv, HeartbeatAlerts, RulesTypeOK
<1>6. OutageRiskSeen' /\ RiskNeedsOutage' /\ BatteryLatched'
  BY <1>1 DEF RulesInv, HeartbeatAlerts, OutageRiskSeen, RiskNeedsOutage, BatteryLatched, IsOpen
<1> QED  BY <1>3, <1>4, <1>5, <1>6 DEF RulesInv, HeartbeatAlerts

\* Three readings that show a risk are the window, and the window raises it.
LEMMA RiskOpened ==
    ASSUME RulesTypes, applied + 1 <= Len(readings), applied >= 2,
           NEW w, GoodWindow(w), NEW r \in Reading, r = readings[applied + 1],
           ~readings[applied].mains, ~readings[applied - 1].mains,
           readings[applied - 1].dist > readings[applied].dist,
           readings[applied].dist > r.dist,
           readings[applied - 1].dist - r.dist >= RiseMin,
           r.ts - readings[applied - 1].ts <= RiseWindow
    PROVE  Len(w) = 3 /\ r.ts - w[1].ts <= RiseWindow /\ LevelRising(w)
<1>1. /\ Len(w) = 3 /\ w[1] = readings[applied - 1]
      /\ w[Len(w) - 1] = readings[applied] /\ w[Len(w)] = r
  <2>1. applied \in Nat /\ applied >= 1
    BY DEF RulesTypes
  <2> QED  BY <2>1, Zenon DEF GoodWindow
<1>2. w[2] = readings[applied] /\ w[3] = r
  BY <1>1
<1>3. \A i \in 2 .. 3 : w[i].dist < w[i - 1].dist
  <2>1. readings[applied] \in Reading /\ readings[applied - 1] \in Reading
    BY DEF RulesTypes
  <2>2. w[2].dist < w[1].dist /\ w[3].dist < w[2].dist
    BY <1>1, <1>2, <2>1 DEF Reading
  <2> QED  BY <2>2
<1> QED  BY <1>1, <1>2, <1>3 DEF LevelRising

\* A reading applied: the window moves on by it, and the alerts with it.
LEMMA HandleReadingInv ==
    ASSUME RulesInv, HandleReading
    PROVE  RulesInv'
<1> DEFINE r == readings[applied + 1]
           s == [open |-> raisedAt, levels |-> levels]
           t == Applied(s, r)
           w == samples(s, r)
<1>0. /\ readings \in Seq(Reading) /\ Len(readings) \in Nat
      /\ applied \in Nat /\ applied + 1 <= Len(readings) /\ applied < Len(readings)
      /\ \A k \in 1 .. Len(readings) : readings[k] \in Reading
  <2>1. readings \in Seq(Reading) /\ applied \in Nat /\ applied < Len(readings)
    BY DEF RulesInv, RulesTypes, HandleReading
  <2> QED  BY <2>1
<1>1. /\ applied' = applied + 1 /\ raisedAt' = t.open /\ levels' = t.levels
      /\ UNCHANGED <<readings, rain, restarts>>
  BY DEF HandleReading
<1>2. r \in Reading /\ r.ts \in Nat
  <2>1. r \in Reading
    BY <1>0
  <2> HIDE DEF r
  <2> QED  BY <2>1 DEF Reading
<1>3. s \in RuleState /\ s.open = raisedAt /\ s.levels = levels
  BY DEF RulesInv, RulesTypes, RuleState
<1>4. \A c \in AlertCodes : raisedAt[c] <= r.ts
  <2> SUFFICES ASSUME NEW c \in AlertCodes PROVE raisedAt[c] <= r.ts
    OBVIOUS
  <2>1. CASE raisedAt[c] = Closed
    BY <1>2, <2>1 DEF Closed
  <2>2. CASE raisedAt[c] # Closed
    <3>1. PICK k \in 1 .. applied : readings[k].ts = raisedAt[c]
      BY <2>2 DEF RulesInv, HeartbeatAlerts, RulesTypeOK
    <3>2. readings[k].ts < r.ts
      BY <1>0 DEF RulesInv, InEventOrder
    <3>3. raisedAt[c] \in Nat
      BY <2>2 DEF RulesInv, RulesTypes, Opens
    <3> QED  BY <1>2, <3>1, <3>2, <3>3
  <2> QED  BY <2>1, <2>2
<1>5. /\ t \in RuleState
      /\ \A c \in AlertCodes : t.open[c] \in {raisedAt[c], r.ts, Closed}
      /\ r.batt # NoBattery /\ r.batt < LowBattery => t.open["LOW_BATTERY"] # Closed
      /\ r.batt # NoBattery /\ r.batt >= BatteryClear => t.open["LOW_BATTERY"] = Closed
      /\ r.batt = NoBattery \/ (r.batt >= LowBattery /\ r.batt < BatteryClear) =>
           t.open["LOW_BATTERY"] = raisedAt["LOW_BATTERY"]
      /\ r.mains => /\ t.levels = Unknown
                    /\ t.open["MAINS_LOST"] = Closed /\ t.open["OUTAGE_RISK"] = Closed
      /\ ~r.mains =>
           /\ GoodWindow(w) /\ t.levels = [known |-> TRUE, samples |-> w]
           /\ t.open["MAINS_LOST"] # Closed
           /\ Len(w) = 3 /\ r.ts - w[1].ts <= RiseWindow /\ LevelRising(w) /\ rainHolds(r.ts)
                => t.open["OUTAGE_RISK"] # Closed
  <2>1. \A c \in AlertCodes : s.open[c] <= r.ts
    BY <1>3, <1>4
  <2> HIDE DEF s
  <2> QED  BY <1>0, <1>2, <1>3, <2>1, AppliedIs, Zenon
<1> HIDE DEF s, t, w
<1>6. RulesTypes'
  <2>1. t.open \in Opens /\ t.levels \in Levels
    BY <1>5 DEF RuleState
  <2>2. /\ readings' \in Seq(Reading) /\ applied' \in Nat /\ applied' <= Len(readings')
        /\ rain' \in RainRecords /\ restarts' \in Nat
    BY <1>0, <1>1 DEF RulesInv, RulesTypes
  <2> QED  BY <1>1, <2>1, <2>2 DEF RulesTypes
<1>7. InEventOrder'
  BY <1>1 DEF RulesInv, InEventOrder
<1>8. WindowInv' /\ Len(levels'.samples) <= 3 /\ \A k \in DOMAIN levels'.samples : ~levels'.samples[k].mains
  <2>1. CASE r.mains
    <3>1. levels' = Unknown
      BY <1>1, <1>5, <2>1
    <3>2. Unknown.known = FALSE /\ Unknown.samples = <<>>
      BY DEF Unknown
    <3> QED  BY <3>1, <3>2 DEF WindowInv
  <2>2. CASE ~r.mains
    <3>1. GoodWindow(w) /\ levels' = [known |-> TRUE, samples |-> w]
      BY <1>1, <1>5, <2>2
    <3>2. levels'.known = TRUE /\ levels'.samples = w
      BY <3>1
    <3>3. /\ Len(w) \in 1 .. 3 /\ w[Len(w)] = readings'[applied']
          /\ applied' - 1 = applied /\ applied' >= 1
      <4>1. Len(w) \in 1 .. 3 /\ w[Len(w)] = readings[applied + 1]
        BY <3>1, Zenon DEF GoodWindow
      <4>2. applied' - 1 = applied /\ applied' >= 1
        BY <1>0, <1>1
      <4> QED  BY <1>1, <4>1, <4>2, Zenon
    <3>4. applied' >= 2 /\ ~readings'[applied' - 1].mains =>
            Len(w) >= 2 /\ w[Len(w) - 1] = readings'[applied' - 1]
      <4>1. applied' >= 2 => applied >= 1
        BY <1>0, <1>1
      <4> QED  BY <1>1, <3>1, <3>3, <4>1, Zenon DEF GoodWindow
    <3>5. RecentLevels(levels.samples, applied)'
      BY <3>2, <3>3, <3>4, Zenon DEF RecentLevels
    <3>6. Len(w) <= 3 /\ \A k \in DOMAIN w : ~w[k].mains
      <4>1. \A k \in DOMAIN w : ~w[k].mains
        BY <3>1, Zenon DEF GoodWindow
      <4> DEFINE n == Len(w)
      <4>2. n \in 1 .. 3
        BY <3>3
      <4> HIDE DEF n
      <4>3. n <= 3
        BY <4>2
      <4> QED  BY <4>1, <4>3, Zenon DEF n
    <3> QED  BY <3>2, <3>5, <3>6, Zenon DEF WindowInv
  <2> QED  BY <2>1, <2>2
<1>9. RulesTypeOK'
  <2>1. ASSUME NEW c \in AlertCodes, raisedAt'[c] # Closed
        PROVE  \E k \in 1 .. applied' : readings'[k].ts = raisedAt'[c]
    <3>1. CASE raisedAt'[c] = r.ts
      BY <1>0, <1>1, <3>1
    <3>2. CASE raisedAt'[c] = raisedAt[c]
      <4>1. PICK k \in 1 .. applied : readings[k].ts = raisedAt[c]
        BY <2>1, <3>2 DEF RulesInv, HeartbeatAlerts, RulesTypeOK
      <4> QED  BY <1>0, <1>1, <3>2, <4>1
    <3> QED  BY <1>1, <1>5, <2>1, <3>1, <3>2
  <2>2. applied' \in 0 .. Len(readings')
    BY <1>0, <1>1
  <2> QED  BY <1>8, <2>1, <2>2, Zenon DEF RulesTypeOK
<1>10. RiskNeedsOutage'
  BY <1>1, <1>5 DEF RiskNeedsOutage, IsOpen
<1>11. BatteryLatched'
  <2> DEFINE Low(x) == x.batt # NoBattery /\ x.batt < LowBattery
             Clear(x) == x.batt # NoBattery /\ x.batt >= BatteryClear
             Open == \E k \in 1 .. applied :
                        Low(readings[k]) /\ \A i \in k + 1 .. applied : ~Clear(readings[i])
             Opens1 == \E k \in 1 .. applied + 1 :
                        Low(readings[k]) /\ \A i \in k + 1 .. applied + 1 : ~Clear(readings[i])
  <2>0. /\ LowBattery \in Nat /\ BatteryClear \in Nat /\ LowBattery <= BatteryClear
        /\ \A k \in 1 .. applied + 1 : readings[k].batt \in Nat \cup {NoBattery}
    <3>1. \A x \in Reading : x.batt \in Nat \cup {NoBattery}
      BY DEF Reading
    <3> QED  BY <1>0, <3>1, RulesAssumption
  <2>1. raisedAt["LOW_BATTERY"] # Closed <=> Open
    <3>1. \A k \in 1 .. applied : \A i \in k + 1 .. applied :
            (readings[i].batt # NoBattery => readings[i].batt < BatteryClear) <=> ~Clear(readings[i])
      BY <1>0, <2>0 DEF NoBattery
    <3> QED  BY <3>1 DEF RulesInv, HeartbeatAlerts, BatteryLatched, IsOpen
  <2>2. raisedAt'["LOW_BATTERY"] # Closed <=> Opens1
    <3>1. CASE Low(r)
      <4>1. raisedAt'["LOW_BATTERY"] # Closed
        BY <1>1, <1>5, <3>1
      <4>2. Opens1
        BY <1>0, <3>1
      <4> QED  BY <4>1, <4>2
    <3>2. CASE Clear(r)
      <4>1. raisedAt'["LOW_BATTERY"] = Closed
        BY <1>1, <1>5, <3>2
      <4>2. ~Low(r)
        BY <2>0, <3>2, <1>0
      <4>3. ~Opens1
        <5> SUFFICES ASSUME NEW k \in 1 .. applied + 1, Low(readings[k]),
                            \A i \in k + 1 .. applied + 1 : ~Clear(readings[i])
                     PROVE  FALSE
          OBVIOUS
        <5>1. k = applied + 1 \/ applied + 1 \in k + 1 .. applied + 1
          BY <1>0
        <5> QED  BY <3>2, <4>2, <5>1
      <4> QED  BY <4>1, <4>3
    <3>3. CASE ~Low(r) /\ ~Clear(r)
      <4>1. r.batt = NoBattery \/ (r.batt >= LowBattery /\ r.batt < BatteryClear)
        BY <1>0, <2>0, <3>3
      <4>2. raisedAt'["LOW_BATTERY"] = raisedAt["LOW_BATTERY"]
        BY <1>1, <1>5, <4>1, Zenon
      <4>3. Open => Opens1
        <5> SUFFICES ASSUME NEW k \in 1 .. applied, Low(readings[k]),
                            \A i \in k + 1 .. applied : ~Clear(readings[i])
                     PROVE  Opens1
          OBVIOUS
        <5>1. \A i \in k + 1 .. applied + 1 : i \in k + 1 .. applied \/ i = applied + 1
          BY <1>0
        <5>2. \A i \in k + 1 .. applied + 1 : ~Clear(readings[i])
          BY <3>3, <5>1
        <5> QED  BY <1>0, <5>2
      <4>4. Opens1 => Open
        <5> SUFFICES ASSUME NEW k \in 1 .. applied + 1, Low(readings[k]),
                            \A i \in k + 1 .. applied + 1 : ~Clear(readings[i])
                     PROVE  Open
          OBVIOUS
        <5>1. k # applied + 1
          BY <3>3
        <5>2. k \in 1 .. applied /\ \A i \in k + 1 .. applied : i \in k + 1 .. applied + 1
          BY <1>0, <5>1
        <5> QED  BY <5>2
      <4> QED  BY <2>1, <4>2, <4>3, <4>4
    <3> QED  BY <3>1, <3>2, <3>3
  <2>3. \A k \in 1 .. applied + 1 : \A i \in k + 1 .. applied + 1 :
          (readings[i].batt # NoBattery => readings[i].batt < BatteryClear) <=> ~Clear(readings[i])
    BY <1>0, <2>0 DEF NoBattery
  <2> QED  BY <1>1, <2>2, <2>3 DEF BatteryLatched, IsOpen
<1>12. OutageRiskSeen'
  <2> DEFINE v == SubSeq(readings, applied - 1, applied + 1)
  <2> SUFFICES ASSUME applied + 1 >= 3, \A k \in 1 .. 3 : ~v[k].mains,
                      v[3].ts - v[1].ts <= RiseWindow,
                      v[1].dist > v[2].dist, v[2].dist > v[3].dist, v[1].dist - v[3].dist >= RiseMin,
                      \/ \E x \in rain : /\ x.mm > 0 /\ x.interval <= ScanBack
                                         /\ x.ts < v[3].ts /\ x.ts + x.interval > v[3].ts - RainWindow
                      \/ \A x \in rain : x.ts < v[3].ts => x.ts + x.interval < v[3].ts - RainSlack
               PROVE  t.open["OUTAGE_RISK"] # Closed
    <3>1. applied' = applied + 1 /\ applied' - 2 = applied - 1
      BY <1>0, <1>1
    <3>2. SubSeq(readings', applied' - 2, applied') = v
      BY <1>1, <3>1
    <3> HIDE DEF v
    <3> QED  BY <1>1, <3>1, <3>2, Zenon DEF OutageRiskSeen, IsOpen
  <2>1. applied >= 2 /\ applied - 1 \in 1 .. Len(readings) /\ applied \in 1 .. Len(readings)
    <3>1. applied \in Nat /\ applied + 1 >= 3 /\ Len(readings) \in Nat /\ applied + 1 <= Len(readings)
      BY <1>0
    <3> DEFINE n == Len(readings)
    <3> HIDE DEF v, n
    <3> QED  BY <3>1 DEF n
  <2>2. v[1] = readings[applied - 1] /\ v[2] = readings[applied] /\ v[3] = r
    BY <1>0, <2>1
  <2> HIDE DEF v
  <2>3. ~readings[applied - 1].mains /\ ~readings[applied].mains /\ ~r.mains
    <3>1. ~v[1].mains /\ ~v[2].mains /\ ~v[3].mains
      OBVIOUS
    <3> QED  BY <2>2, <3>1, Zenon
  <2>4. rain \in RainRecords /\ RulesTypes
    BY DEF RulesInv, RulesTypes
  <2>5. rainHolds(r.ts)
    BY <1>2, <2>2, <2>4, RainSeen
  <2>6. GoodWindow(w)
    BY <1>5, <2>3
  <2>7. Len(w) = 3 /\ r.ts - w[1].ts <= RiseWindow /\ LevelRising(w)
    BY <1>0, <1>2, <2>1, <2>2, <2>3, <2>4, <2>6, RiskOpened
  <2> QED  BY <1>5, <2>3, <2>5, <2>7, Zenon
<1> QED  BY <1>6, <1>7, <1>8, <1>9, <1>10, <1>11, <1>12 DEF RulesInv, HeartbeatAlerts

\* What a heartbeat leaves open for a device, whatever readings it sends and
\* whenever the memory of the stage is lost: three levels that rise without mains
\* open OUTAGE_RISK unless a rainfall record that reaches them is dry, the risk
\* never outlives MAINS_LOST, and LOW_BATTERY is a latch between two thresholds.
THEOREM HeartbeatsRightlyAlert == RulesSpec => []HeartbeatAlerts
<1>1. RulesInit => RulesInv
  BY RulesInitInv
<1>2. RulesInv /\ [RulesNext]_ruleVars => RulesInv'
  <2> SUFFICES ASSUME RulesInv, [RulesNext]_ruleVars PROVE RulesInv'
    OBVIOUS
  <2>1. ASSUME NEW b \in Beats, NEW gap \in Gaps, Reported(b, gap) PROVE RulesInv'
    BY <2>1, ReportedInv
  <2>2. CASE HandleReading
    BY <2>2, HandleReadingInv
  <2>3. CASE ResetRules
    BY <2>3, ResetRulesInv
  <2>4. CASE UNCHANGED ruleVars
    BY <2>4 DEF ruleVars, RulesInv, RulesTypes, InEventOrder, WindowInv, RecentLevels, HeartbeatAlerts,
                RulesTypeOK, OutageRiskSeen, RiskNeedsOutage, BatteryLatched, IsOpen
  <2> QED  BY <2>1, <2>2, <2>3, <2>4 DEF RulesNext
<1>3. RulesInv => HeartbeatAlerts
  BY DEF RulesInv
<1> QED  BY <1>1, <1>2, <1>3, PTL DEF RulesSpec
=============================================================================
