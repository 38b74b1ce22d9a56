--------------------------- MODULE RainfallProofs ----------------------------
(***************************************************************************)
(* Rain, for every value of the constants: the poller of ECCC's hours misses *)
(* no revision, the cache of observed hours replays what the newest fetch  *)
(* read, and the rainfall table of a gauge follows from its uplinks.       *)
(*                                                                         *)
(* The poller: a revision touches an hour that ended less than Lookback ago, *)
(* and the window of the next poll never starts later than Lookback before *)
(* now; so whatever is revised lies in that window, and what an earlier page *)
(* of the poll under way read is stale only for hours that the next window *)
(* holds again.                                                            *)
(*                                                                         *)
(* The cache: the file, and the file of the import under way, hold of each *)
(* hour what the newest fetch that asked for it read.  The reach of the loop *)
(* in Covered is found by induction over the moments.                      *)
(*                                                                         *)
(* The gauge: the rows of every uplink whose own and whose predecessor's   *)
(* handling is done are in the table, and a row that one derivation would  *)
(* not give, lies over an uplink or over another row does so only beside an *)
(* uplink that is pending.  A poll replaces the rows between two uplinks of *)
(* the table, so it restores this for its own stretch.  That the rows add up *)
(* to the counter is an induction over the uplinks in order of time.       *)
(***************************************************************************)
EXTENDS EcccPoller, RainCache, GaugeRainfall, SequenceTheorems, FiniteSetTheorems,
        WellFoundedInduction, TLAPS

------------------------------------------------------------------------------
(* Numbers.                                                                *)

\* A set of naturals that is not empty has a least member.
LEMMA LeastNatural ==
    ASSUME NEW T, T \subseteq Nat, T # {}
    PROVE  \E x \in T : \A y \in T : x <= y
<1>1. PICK x \in T : \A y \in T : ~(<<y, x>> \in OpToRel(<, Nat))
  BY WFMin, NatLessThanWellFounded, Zenon
<1>2. \A y \in T : ~(y < x)
  BY <1>1 DEF OpToRel
<1> QED
  BY <1>2

\* Induction, for a set of naturals.
LEMMA EveryNatural ==
    ASSUME NEW S, 0 \in S, \A n \in Nat : n \in S => n + 1 \in S
    PROVE  Nat \subseteq S
<1> DEFINE T == {n \in Nat : n \notin S}
<1> SUFFICES ASSUME T # {} PROVE FALSE
  OBVIOUS
<1>1. PICK x \in T : \A y \in T : x <= y
  BY LeastNatural
<1>2. x - 1 \in Nat /\ x - 1 \notin T
  BY <1>1
<1> QED
  BY <1>2

\* Max and Min are what they say where there is a bound.
LEMMA MaxIs ==
    ASSUME NEW S, S \subseteq Int, S # {}, NEW N \in Int, \A x \in S : x <= N
    PROVE  Max(S) \in S /\ \A x \in S : x <= Max(S)
<1> DEFINE T == {N - x : x \in S}
<1>0. \A x \in S : N - x \in Nat
  OBVIOUS
<1>1. T \subseteq Nat /\ T # {}
  BY <1>0
<1>2. PICK y \in T : \A z \in T : y <= z
  BY <1>1, LeastNatural
<1>3. PICK x \in S : y = N - x
  OBVIOUS
<1>4. \A z \in S : N - x <= N - z
  BY <1>2, <1>3
<1>5. \A z \in S : x >= z
  <2> HIDE DEF T
  <2> TAKE z \in S
  <2>1. N - x <= N - z /\ x \in Int /\ z \in Int
    BY <1>4
  <2> QED
    BY <2>1
<1>6. \A z \in S : Max(S) >= z /\ Max(S) \in S
  BY <1>5 DEF Max
<1> QED
  BY <1>6

\* And Min, where there is a lower bound.
LEMMA MinIs ==
    ASSUME NEW S, S \subseteq Int, S # {}, NEW N \in Int, \A x \in S : N <= x
    PROVE  Min(S) \in S /\ \A x \in S : Min(S) <= x
<1> DEFINE T == {x - N : x \in S}
<1>0. \A x \in S : x - N \in Nat
  OBVIOUS
<1>1. T \subseteq Nat /\ T # {}
  BY <1>0
<1>2. PICK y \in T : \A z \in T : y <= z
  BY <1>1, LeastNatural
<1>3. PICK x \in S : y = x - N
  OBVIOUS
<1>4. \A z \in S : x - N <= z - N
  BY <1>2, <1>3
<1>5. \A z \in S : x <= z
  <2> HIDE DEF T
  <2> TAKE z \in S
  <2>1. x - N <= z - N /\ x \in Int /\ z \in Int
    BY <1>4
  <2> QED
    BY <2>1
<1>6. \A z \in S : Min(S) <= z /\ Min(S) \in S
  BY <1>5 DEF Min
<1> QED
  BY <1>6

------------------------------------------------------------------------------
(* The loop of Covered.                                                    *)

Reading == [end : HourEnds, mm : Depths]
Fetches == [from : Moments, to : Moments, read : SUBSET Reading]
Files == [kind : {"file"}, fetches : Seq(Fetches), hours : SUBSET Reading]

\* The last moment there is.
LEMMA LastMoment ==
    /\ Hour * CacheHours \in Nat
    /\ Moments = 0 .. Hour * CacheHours
    /\ 0 \in Moments /\ Hour * CacheHours \in Moments
BY CacheAssumption DEF Hour, Moments

\* The fetches of a file, as a set.
LEMMA ToSetIs ==
    ASSUME NEW T, NEW s \in Seq(T)
    PROVE  ToSet(s) = {s[i] : i \in 1 .. Len(s)} /\ ToSet(s) \subseteq T
  BY DEF ToSet

\* A fetch that the file records ends at a moment.
LEMMA EndsInMoments ==
    ASSUME NEW f \in Files, NEW start
    PROVE  EndsOf(f, start) \subseteq Moments
<1>1. f.fetches \in Seq(Fetches)
  BY DEF Files
<1>2. \A w \in ToSet(f.fetches) : w \in Fetches
  BY <1>1, ToSetIs
<1>3. \A w \in ToSet(f.fetches) : w.to \in Moments
  BY <1>2 DEF Fetches
<1> QED
  BY <1>3 DEF EndsOf

\* A turn moves the reach to the end of a fetch that starts within it, or not at all.
LEMMA TurnIs ==
    ASSUME NEW f \in Files, NEW start \in Moments, NEW r \in Moments
    PROVE  /\ Turn(f, start)[r] \in Moments
           /\ Turn(f, start)[r] >= r
           /\ start > r => Turn(f, start)[r] = r
           /\ start <= r => /\ Turn(f, start)[r] \in {r} \cup EndsOf(f, start)
                            /\ \A e \in EndsOf(f, start) : e <= Turn(f, start)[r]
<1> DEFINE S == {r} \cup EndsOf(f, start)
<1>1. S \subseteq Moments /\ S # {} /\ r \in S
  BY EndsInMoments
<1>2. Max(S) \in S /\ \A x \in S : x <= Max(S)
  <2> DEFINE N == Hour * CacheHours
  <2>1. N \in Int /\ S \subseteq Int /\ \A x \in S : x <= N
    BY <1>1, LastMoment
  <2> HIDE DEF S, N
  <2> QED
    BY <1>1, <2>1, MaxIs
<1>3. Turn(f, start)[r] = IF start > r THEN r ELSE Max(S)
  BY DEF Turn
<1> HIDE DEF S
<1>4. start \in Int /\ r \in Int
  BY LastMoment
<1>5. CASE start > r
  BY <1>3, <1>4, <1>5
<1>6. CASE start <= r
  <2>1. Turn(f, start)[r] = Max(S)
    BY <1>3, <1>4, <1>6
  <2>2. Max(S) >= r /\ \A e \in EndsOf(f, start) : e <= Max(S)
    BY <1>1, <1>2, <1>4 DEF S
  <2>3. Max(S) \in Moments
    BY <1>1, <1>2
  <2> QED
    BY <1>2, <1>4, <1>6, <2>1, <2>2, <2>3 DEF S
<1> QED
  BY <1>4, <1>5, <1>6

\* The reach of the loop after the fetches that start at or before each moment.
Runs(f, begin, reach) ==
    reach = [start \in Moments |-> Turn(f, start)[IF start = 0 THEN begin ELSE reach[start - 1]]]

\* The loop has a run.
LEMMA LoopRuns ==
    ASSUME NEW f \in Files, NEW begin \in Moments
    PROVE  \E reach : Runs(f, begin, reach) /\ Reach(f, begin) = reach[Hour * CacheHours]
<1> DEFINE N == Hour * CacheHours
           Body(g, s) == Turn(f, s)[IF s = 0 THEN begin ELSE g[s - 1]]
           Upto(n, g) == g = [s \in 0 .. n |-> Body(g, s)]
           Ok == {n \in Nat : \E g : Upto(n, g)}
<1>1. 0 \in Ok
  <2> DEFINE g == [s \in 0 .. 0 |-> Turn(f, s)[begin]]
  <2>1. g = [s \in 0 .. 0 |-> Body(g, s)]
    OBVIOUS
  <2> QED
    BY <2>1
<1>2. ASSUME NEW n \in Nat, n \in Ok PROVE n + 1 \in Ok
  <2>1. PICK g : Upto(n, g)
    BY <1>2
  <2> DEFINE h == [s \in 0 .. n + 1 |-> IF s = n + 1 THEN Body(g, s) ELSE g[s]]
  <2>2. \A s \in 0 .. n + 1 : s # 0 => h[s - 1] = g[s - 1]
    OBVIOUS
  <2>3. \A s \in 0 .. n + 1 : Body(h, s) = Body(g, s)
    BY <2>2
  <2>4. \A s \in 0 .. n : g[s] = Body(g, s)
    BY <2>1
  <2>5. h = [s \in 0 .. n + 1 |-> Body(h, s)]
    BY <2>3, <2>4
  <2> HIDE DEF h, Body
  <2>6. \E k : Upto(n + 1, k)
    BY <2>5
  <2> QED
    BY <2>6
<1>3. N \in Ok
  BY <1>1, <1>2, EveryNatural, LastMoment
<1>4. \E reach : Runs(f, begin, reach)
  BY <1>3, LastMoment DEF Runs
<1>5. Reach(f, begin) = (CHOOSE reach : Runs(f, begin, reach))[N]
  BY DEF Reach, Runs
<1> QED
  BY <1>4, <1>5

\* Every moment from the start of the loop to its reach was asked for.
LEMMA ReachAsked ==
    ASSUME NEW f \in Files, NEW begin \in Moments
    PROVE  /\ Reach(f, begin) \in Moments
           /\ \A m \in begin .. Reach(f, begin) - 1 :
                 \E w \in ToSet(f.fetches) : w.from <= m /\ m < w.to
<1> DEFINE Asked(m) == \E w \in ToSet(f.fetches) : w.from <= m /\ m < w.to
<1>1. PICK reach : Runs(f, begin, reach) /\ Reach(f, begin) = reach[Hour * CacheHours]
  BY LoopRuns
<1>2. \A s \in Moments : reach[s] = Turn(f, s)[IF s = 0 THEN begin ELSE reach[s - 1]]
  BY <1>1 DEF Runs
<1> DEFINE P(s) == reach[s] \in Moments /\ \A m \in begin .. reach[s] - 1 : Asked(m)
           Ok == {n \in Nat : n \in Moments => P(n)}
<1>3. ASSUME NEW s \in Moments, NEW r \in Moments, reach[s] = Turn(f, s)[r],
             \A m \in begin .. r - 1 : Asked(m)
      PROVE  P(s)
  <2>1. reach[s] \in Moments
    BY <1>3, TurnIs
  <2>2. CASE s > r
    BY <1>3, <2>1, <2>2, TurnIs
  <2>3. CASE s <= r
    <3>1. reach[s] \in {r} \cup EndsOf(f, s)
      BY <1>3, <2>3, TurnIs
    <3>2. CASE reach[s] = r
      BY <1>3, <2>1, <3>2
    <3>3. CASE reach[s] \in EndsOf(f, s)
      <4>1. PICK w \in ToSet(f.fetches) : w.from = s /\ w.to = reach[s]
        BY <3>3 DEF EndsOf
      <4>2. ASSUME NEW m \in begin .. reach[s] - 1 PROVE Asked(m)
        <5>1. CASE m <= r - 1
          BY <1>3, <2>1, <5>1, LastMoment
        <5>2. CASE m > r - 1
          <6>1. w.from <= m /\ m < w.to
            BY <2>1, <2>3, <4>1, <5>2, LastMoment
          <6> QED
            BY <6>1
        <5> QED
          BY <5>1, <5>2, LastMoment
      <4> QED
        BY <2>1, <4>2
    <3> QED
      BY <3>1, <3>2, <3>3
  <2> QED
    BY <2>2, <2>3, LastMoment
<1>4. P(0)
  <2>1. reach[0] = Turn(f, 0)[begin] /\ 0 \in Moments
    BY <1>2, LastMoment
  <2>2. \A m \in begin .. begin - 1 : Asked(m)
    BY LastMoment
  <2> QED
    BY <1>3, <2>1, <2>2
<1>5. ASSUME NEW n \in Nat, n \in Ok PROVE n + 1 \in Ok
  <2> SUFFICES ASSUME n + 1 \in Moments PROVE P(n + 1)
    OBVIOUS
  <2>1. n \in Moments /\ P(n)
    BY <1>5, LastMoment
  <2>2. reach[n + 1] = Turn(f, n + 1)[reach[n]]
    BY <1>2
  <2> QED
    BY <1>3, <2>1, <2>2
<1> HIDE DEF P
<1>6. Hour * CacheHours \in Ok
  <2>1. 0 \in Ok
    BY <1>4
  <2> HIDE DEF Ok
  <2> QED
    BY <1>5, <2>1, EveryNatural, LastMoment
<1>7. P(Hour * CacheHours)
  BY <1>6, LastMoment
<1> QED
  BY <1>1, <1>7 DEF P

\* More fetches reach as far, or farther.
LEMMA ReachGrows ==
    ASSUME NEW f \in Files, NEW g \in Files, ToSet(f.fetches) \subseteq ToSet(g.fetches),
           NEW begin \in Moments
    PROVE  Reach(f, begin) <= Reach(g, begin)
<1>1. PICK a : Runs(f, begin, a) /\ Reach(f, begin) = a[Hour * CacheHours]
  BY LoopRuns
<1>2. PICK b : Runs(g, begin, b) /\ Reach(g, begin) = b[Hour * CacheHours]
  BY LoopRuns
<1>3. \A s \in Moments : /\ a[s] = Turn(f, s)[IF s = 0 THEN begin ELSE a[s - 1]]
                         /\ b[s] = Turn(g, s)[IF s = 0 THEN begin ELSE b[s - 1]]
  BY <1>1, <1>2 DEF Runs
<1> DEFINE P(s) == a[s] \in Moments /\ b[s] \in Moments /\ a[s] <= b[s]
           Ok == {n \in Nat : n \in Moments => P(n)}
<1>4. ASSUME NEW s \in Moments, NEW r \in Moments, NEW q \in Moments, r <= q,
             a[s] = Turn(f, s)[r], b[s] = Turn(g, s)[q]
      PROVE  P(s)
  <2>1. a[s] \in Moments /\ b[s] \in Moments /\ q <= b[s]
    BY <1>4, TurnIs
  <2>2. s \in Int /\ r \in Int /\ q \in Int /\ a[s] \in Int /\ b[s] \in Int
    BY <2>1, LastMoment
  <2>3. CASE s > r
    BY <1>4, <2>1, <2>2, <2>3, TurnIs
  <2>4. CASE s <= r
    <3>1. EndsOf(f, s) \subseteq EndsOf(g, s)
      BY DEF EndsOf
    <3>2. s <= q
      BY <1>4, <2>2, <2>4
    <3>3. \A e \in EndsOf(g, s) : e <= b[s]
      BY <1>4, <3>2, TurnIs
    <3>4. a[s] \in {r} \cup EndsOf(f, s)
      BY <1>4, <2>4, TurnIs
    <3> QED
      BY <1>4, <2>1, <2>2, <3>1, <3>3, <3>4
  <2> QED
    BY <2>2, <2>3, <2>4
<1>5. P(0)
  BY <1>3, <1>4, LastMoment
<1>6. ASSUME NEW n \in Nat, n \in Ok PROVE n + 1 \in Ok
  <2> SUFFICES ASSUME n + 1 \in Moments PROVE P(n + 1)
    OBVIOUS
  <2>1. n \in Moments /\ P(n)
    BY <1>6, LastMoment
  <2>2. a[n + 1] = Turn(f, n + 1)[a[n]] /\ b[n + 1] = Turn(g, n + 1)[b[n]]
    BY <1>3
  <2> QED
    BY <1>4, <2>1, <2>2
<1> HIDE DEF P
<1>7. Hour * CacheHours \in Ok
  <2>1. 0 \in Ok
    BY <1>5
  <2> HIDE DEF Ok
  <2> QED
    BY <1>6, <2>1, EveryNatural, LastMoment
<1>8. P(Hour * CacheHours)
  BY <1>7, LastMoment
<1> QED
  BY <1>1, <1>2, <1>8 DEF P

------------------------------------------------------------------------------
(* The import.                                                             *)

Asked(f, i, e) == Inside(e, f.fetches[i].from, f.fetches[i].to)

Of(hours, e) == {h \in hours : h.end = e}

\* A file holds of every hour what the newest fetch that asked for it read.
Newest(f) ==
    /\ \A h, k \in f.hours : h.end = k.end => h = k
    /\ \A e \in HourEnds :
          /\ (\A i \in DOMAIN f.fetches : ~Asked(f, i, e)) => Of(f.hours, e) = {}
          /\ \A i \in DOMAIN f.fetches :
                Asked(f, i, e) /\ (\A j \in DOMAIN f.fetches : Asked(f, j, e) => j <= i)
                => Of(f.hours, e) = Of(f.fetches[i].read, e)

Imports ==
    [at : {"idle", "fetch", "write", "fill", "rename"}, from : Moments, to : Moments, file : Files]

CacheInv ==
    /\ DOMAIN disk = {"file", "tmp"}
    /\ disk.file \in Files \cup {Absent}
    /\ disk.file # Absent => Newest(disk.file)
    /\ import \in Imports
    /\ import.at = "fetch" => import.file = Load(disk.file)
    /\ import.at \in {"write", "fill", "rename"} =>
          /\ Newest(import.file)
          /\ ToSet(Load(disk.file).fetches) \subseteq ToSet(import.file.fetches)
    /\ import.at = "rename" => disk.tmp = import.file

\* A file that is absent, torn or new is told from the others (Load).
LEMMA KindsDiffer ==
    /\ New \in Files /\ Absent \notin Files /\ Torn \notin Files /\ Absent # Torn
    /\ Newest(New)
<1>1. New \in Files
  BY DEF New, Files
<1>2. New.fetches = <<>> /\ New.hours = {} /\ Absent.kind = "absent" /\ Torn.kind = "torn"
  BY DEF New, Absent, Torn
<1>3. \A f \in Files : f.kind = "file"
  BY DEF Files
<1> QED
  BY <1>1, <1>2, <1>3 DEF Newest, Of

\* Merge records the fetch, and what it read is what the file holds of its window.
LEMMA MergeIs ==
    ASSUME NEW f \in Files, Newest(f), NEW begin \in Moments, NEW to \in Moments,
           NEW read \in SUBSET Reading,
           \A r \in read : Inside(r.end, begin, to),
           \A r, q \in read : r.end = q.end => r = q
    PROVE  /\ Merge(f, begin, to, read) \in Files
           /\ Newest(Merge(f, begin, to, read))
           /\ ToSet(f.fetches) \subseteq ToSet(Merge(f, begin, to, read).fetches)
<1> DEFINE g == Merge(f, begin, to, read)
           w == [from |-> begin, to |-> to, read |-> read]
           n == Len(f.fetches)
<1>1. f.fetches \in Seq(Fetches) /\ f.hours \in SUBSET Reading /\ n \in Nat
  BY DEF Files
<1>2. w \in Fetches
  BY DEF Fetches
<1>3. /\ g.fetches = Append(f.fetches, w) /\ g.hours = Replaced(f, begin, to, read) \cup read
      /\ g.kind = "file"
  BY DEF Merge
<1>4. /\ g.fetches \in Seq(Fetches) /\ DOMAIN g.fetches = 1 .. n + 1
      /\ DOMAIN f.fetches = 1 .. n
      /\ g.fetches[n + 1] = w /\ \A i \in 1 .. n : g.fetches[i] = f.fetches[i]
  BY <1>1, <1>2, <1>3
<1>5. g.hours = {h \in f.hours : ~Inside(h.end, begin, to)} \cup read
  BY <1>3 DEF Replaced
<1>6. g.hours \in SUBSET Reading
  BY <1>1, <1>5
<1>7. g \in Files
  <2>1. g = [kind |-> "file", fetches |-> g.fetches, hours |-> g.hours]
    BY DEF Merge
  <2> QED
    BY <1>4, <1>6, <2>1 DEF Files
<1> HIDE DEF g, w, n
<1>8. ToSet(f.fetches) \subseteq ToSet(g.fetches)
  <2>1. 1 .. n \subseteq 1 .. n + 1
    BY <1>1
  <2> QED
    BY <1>4, <2>1 DEF ToSet
<1>9. \A h, k \in g.hours : h.end = k.end => h = k
  BY <1>5 DEF Newest
<1>10. ASSUME NEW e \in HourEnds
       PROVE  /\ (\A i \in DOMAIN g.fetches : ~Asked(g, i, e)) => Of(g.hours, e) = {}
              /\ \A i \in DOMAIN g.fetches :
                    Asked(g, i, e) /\ (\A j \in DOMAIN g.fetches : Asked(g, j, e) => j <= i)
                    => Of(g.hours, e) = Of(g.fetches[i].read, e)
  <2>1. \A i \in 1 .. n : Asked(g, i, e) <=> Asked(f, i, e)
    BY <1>4 DEF Asked
  <2>2. Asked(g, n + 1, e) <=> Inside(e, begin, to)
    BY <1>4 DEF Asked, w
  <2>3. CASE Inside(e, begin, to)
    <3>1. Of(g.hours, e) = Of(g.fetches[n + 1].read, e)
      BY <1>4, <1>5, <2>3 DEF Of, w
    <3>2. \A i \in DOMAIN g.fetches :
             (\A j \in DOMAIN g.fetches : Asked(g, j, e) => j <= i) => i = n + 1
      BY <1>1, <1>4, <2>2, <2>3 DEF n
    <3> QED
      BY <1>1, <1>4, <2>2, <2>3, <3>1, <3>2 DEF n
  <2>4. CASE ~Inside(e, begin, to)
    <3>1. Of(g.hours, e) = Of(f.hours, e)
      BY <1>5, <2>4 DEF Of
    <3>2. \A i \in DOMAIN g.fetches : Asked(g, i, e) => i \in 1 .. n
      BY <1>1, <1>4, <2>2, <2>4 DEF n
    <3>3. 1 .. n \subseteq DOMAIN g.fetches
      BY <1>1, <1>4 DEF n
    <3>4. (\A i \in DOMAIN g.fetches : ~Asked(g, i, e)) => Of(g.hours, e) = {}
      BY <1>4, <2>1, <3>1, <3>3 DEF Newest
    <3>5. ASSUME NEW i \in DOMAIN g.fetches, Asked(g, i, e),
                 \A j \in DOMAIN g.fetches : Asked(g, j, e) => j <= i
          PROVE  Of(g.hours, e) = Of(g.fetches[i].read, e)
      <4>1. i \in DOMAIN f.fetches /\ Asked(f, i, e)
        BY <1>4, <2>1, <3>2, <3>5
      <4>2. \A j \in DOMAIN f.fetches : Asked(f, j, e) => j <= i
        BY <1>4, <2>1, <3>3, <3>5
      <4>3. Of(f.hours, e) = Of(f.fetches[i].read, e)
        BY <4>1, <4>2 DEF Newest
      <4> QED
        BY <1>4, <3>1, <4>1, <4>3
    <3> QED
      BY <3>4, <3>5
  <2> QED
    BY <2>3, <2>4
<1> QED
  BY <1>7, <1>8, <1>9, <1>10 DEF Newest, g

\* The pages that Next hands over: readings of the window, each hour once if
\* they can be merged.
LEMMA PagesRead ==
    ASSUME NEW first \in Pages, NEW second \in Pages
    PROVE  /\ Readings(<<first, second>>) \in SUBSET Reading
           /\ \A r \in Readings(<<first, second>>) : Inside(r.end, import.from, import.to)
           /\ Mergeable(<<first, second>>) =>
                 \A r, q \in Readings(<<first, second>>) : r.end = q.end => r = q
<1> DEFINE Rd(p) == {[end |-> h, mm |-> p[h]] : h \in DOMAIN p}
<1>1. Readings(<<first, second>>) = Rd(first) \cup Rd(second)
  BY DEF Readings, ToSet
<1>2. ASSUME NEW p \in Pages
      PROVE  /\ DOMAIN p \subseteq {h \in HourEnds : Inside(h, import.from, import.to)}
             /\ \A h \in DOMAIN p : p[h] \in Depths
  BY DEF Pages
<1>3. ASSUME NEW p \in Pages, NEW r \in Rd(p)
      PROVE  /\ r \in Reading /\ Inside(r.end, import.from, import.to)
             /\ r.end \in DOMAIN p /\ r = [end |-> r.end, mm |-> p[r.end]]
  BY <1>2 DEF Reading
<1>4. Mergeable(<<first, second>>) => DOMAIN first \cap DOMAIN second = {}
  <2> SUFFICES ASSUME Mergeable(<<first, second>>) PROVE DOMAIN first \cap DOMAIN second = {}
    OBVIOUS
  <2> DEFINE s == <<first, second>>
  <2>1. 1 \in DOMAIN s /\ 2 \in DOMAIN s /\ s[1] = first /\ s[2] = second
    OBVIOUS
  <2> HIDE DEF s
  <2>2. Mergeable(s)
    BY DEF s
  <2> QED
    BY <2>1, <2>2 DEF Mergeable
<1> HIDE DEF Rd
<1>5. ASSUME DOMAIN first \cap DOMAIN second = {}, NEW r \in Rd(first) \cup Rd(second),
             NEW q \in Rd(first) \cup Rd(second), r.end = q.end
      PROVE  r = q
  BY <1>3, <1>5
<1> QED
  BY <1>1, <1>3, <1>4, <1>5

\* The import starts from what the file holds.
LEMMA Loaded ==
    ASSUME CacheInv
    PROVE  Load(disk.file) \in Files /\ Newest(Load(disk.file))
BY KindsDiffer DEF CacheInv, Load

\* There is no file, and no import.
LEMMA CacheInitInv == CacheInit => CacheInv
<1> SUFFICES ASSUME CacheInit PROVE CacheInv
  OBVIOUS
<1>1. import \in Imports
  BY KindsDiffer, LastMoment DEF CacheInit, NoImport, Imports
<1>2. import.at = "idle" /\ disk.file = Absent /\ DOMAIN disk = {"file", "tmp"}
  BY DEF CacheInit, NoImport
<1> QED
  BY <1>1, <1>2 DEF CacheInv

\* No import is under way after the step, and the file is as it was.
LEMMA ImportEnds ==
    ASSUME CacheInv, import' = NoImport, UNCHANGED disk
    PROVE  CacheInv'
<1>1. import' \in Imports
  BY KindsDiffer, LastMoment DEF NoImport, Imports
<1>2. import'.at = "idle"
  BY DEF NoImport
<1> QED
  BY <1>1, <1>2 DEF CacheInv

\* Every step of an import keeps the invariant: Write fills a file of its own and
\* renames it, so the file is never torn and never older than it was.
LEMMA CacheNextInv ==
    ASSUME CacheInv, [CacheNext]_cacheVars
    PROVE  CacheInv'
<1>0. /\ DOMAIN disk = {"file", "tmp"} /\ disk.file \in Files \cup {Absent}
      /\ disk.file # Absent => Newest(disk.file)
      /\ import \in Imports
  BY DEF CacheInv
<1>1. ASSUME NEW w \in Windows, ImportBegin(w[1], w[2]) PROVE CacheInv'
  <2>1. w[1] \in Moments /\ w[2] \in Moments
    BY DEF Windows
  <2>2. /\ import' = [at |-> "fetch", from |-> w[1], to |-> w[2], file |-> Load(disk.file)]
        /\ UNCHANGED disk
    BY <1>1 DEF ImportBegin
  <2>3. import' \in Imports /\ import'.at = "fetch" /\ import'.file = Load(disk.file)
    BY <2>1, <2>2, Loaded DEF Imports
  <2> QED
    BY <1>0, <2>2, <2>3 DEF CacheInv, Load
<1>2. ASSUME NEW first \in Pages, NEW second \in Pages, ImportFetch(<<first, second>>)
      PROVE  CacheInv'
  <2> DEFINE read == Readings(<<first, second>>)
             f == import.file
             g == Merge(f, import.from, import.to, read)
  <2>1. CASE ~Mergeable(<<first, second>>)
    BY <1>2, <2>1, ImportEnds DEF ImportFetch
  <2>2. CASE Mergeable(<<first, second>>)
    <3>1. /\ import.at = "fetch" /\ UNCHANGED disk
          /\ import' = [import EXCEPT !.at = "write", !.file = g]
      BY <1>2, <2>2 DEF ImportFetch
    <3>2. f = Load(disk.file) /\ f \in Files /\ Newest(f)
      BY <3>1, Loaded DEF CacheInv
    <3>3. import.from \in Moments /\ import.to \in Moments
      BY <1>0 DEF Imports
    <3>4. g \in Files /\ Newest(g) /\ ToSet(f.fetches) \subseteq ToSet(g.fetches)
      <4>1. /\ read \in SUBSET Reading
            /\ \A r \in read : Inside(r.end, import.from, import.to)
            /\ \A r, q \in read : r.end = q.end => r = q
        BY <2>2, PagesRead
      <4> HIDE DEF read, f
      <4> QED
        BY <3>2, <3>3, <4>1, MergeIs
    <3> HIDE DEF g, read
    <3>5. import' \in Imports /\ import'.at = "write" /\ import'.file = g
      BY <1>0, <3>1, <3>4 DEF Imports
    <3> QED
      BY <1>0, <3>1, <3>2, <3>4, <3>5 DEF CacheInv, Load
  <2> QED
    BY <2>1, <2>2
<1>3. CASE WriteOpens
  <2>1. disk' = [disk EXCEPT !.tmp = Torn] /\ import' = [import EXCEPT !.at = "fill"] /\ import.at = "write"
    BY <1>3 DEF WriteOpens, WritesTo
  <2>2. import' \in Imports /\ import'.at = "fill" /\ import'.file = import.file
    BY <1>0, <2>1 DEF Imports
  <2>3. DOMAIN disk' = {"file", "tmp"} /\ disk'.file = disk.file
    BY <1>0, <2>1
  <2> QED
    BY <2>1, <2>2, <2>3 DEF CacheInv, Load
<1>4. CASE WriteFills
  <2>1. disk' = [disk EXCEPT !.tmp = import.file] /\ import' = [import EXCEPT !.at = "rename"] /\ import.at = "fill"
    BY <1>4 DEF WriteFills, WritesTo
  <2>2. import' \in Imports /\ import'.at = "rename" /\ import'.file = import.file
    BY <1>0, <2>1 DEF Imports
  <2>3. DOMAIN disk' = {"file", "tmp"} /\ disk'.file = disk.file /\ disk'.tmp = import.file
    BY <1>0, <2>1
  <2> QED
    BY <2>1, <2>2, <2>3 DEF CacheInv, Load
<1>5. CASE WriteRenames
  <2>1. /\ disk' = [file |-> disk.tmp, tmp |-> Absent] /\ import' = NoImport
        /\ import.at = "rename"
    BY <1>5 DEF WriteRenames
  <2>2. disk'.file \in Files /\ Newest(disk'.file) /\ DOMAIN disk' = {"file", "tmp"}
    BY <1>0, <2>1 DEF CacheInv, Imports
  <2>3. import' \in Imports /\ import'.at = "idle"
    BY <2>1, KindsDiffer, LastMoment DEF NoImport, Imports
  <2> QED
    BY <2>2, <2>3 DEF CacheInv
<1>6. CASE ImportDies
  BY <1>6, ImportEnds DEF ImportDies
<1>7. CASE UNCHANGED cacheVars
  BY <1>7 DEF cacheVars, CacheInv, Load
<1> QED
  BY <1>1, <1>2, <1>3, <1>4, <1>5, <1>6, <1>7 DEF CacheNext

\* The hours of HourEnds are two half hours long and do not overlap.
LEMMA OneHour ==
    ASSUME NEW h \in HourEnds, NEW k \in HourEnds, NEW t \in Int,
           h - Hour <= t, t < h, k - Hour <= t, t < k
    PROVE  h = k
<1>1. PICK i \in 1 .. CacheHours : h = 2 * i
  BY DEF HourEnds, Hour
<1>2. PICK j \in 1 .. CacheHours : k = 2 * j
  BY DEF HourEnds, Hour
<1>3. i \in Int /\ j \in Int
  BY CacheAssumption
<1> QED
  BY <1>1, <1>2, <1>3 DEF Hour

\* What the file holds is what a replay that is accepted shows.
LEMMA ReplaysNewest ==
    ASSUME CacheInv
    PROVE  ReplayIsNewestFetch
<1> SUFFICES ASSUME NEW w \in Windows, Accepts(w[1], w[2]), NEW h \in HourEnds, Inside(h, w[1], w[2])
             PROVE  \E fetch \in NewestOf(h) : \A t \in Max({w[1], h - Hour}) .. h - 1 :
                      /\ \A r \in fetch.read : r.end = h => RainMinutes(w[1], w[2])[t] = r.mm
                      /\ (\A r \in fetch.read : r.end # h) => RainMinutes(w[1], w[2])[t] = 0
  BY DEF ReplayIsNewestFetch
<1> DEFINE f == disk.file
           of == {i \in DOMAIN f.fetches : Inside(h, f.fetches[i].from, f.fetches[i].to)}
           last == Max(of)
<1>1. w[1] \in Moments /\ w[2] \in Moments /\ w[1] < w[2]
  BY DEF Windows
<1>2. f \in Files /\ Newest(f) /\ Covered(f, w[1], w[2])
  BY KindsDiffer DEF Accepts, CacheInv
<1>3. h \in Int /\ w[1] \in Int /\ w[2] \in Int /\ w[1] < h /\ h <= w[2]
  BY <1>1, LastMoment, CacheAssumption DEF HourEnds, Hour, Inside
<1>4. f.fetches \in Seq(Fetches) /\ f.hours \in SUBSET Reading
  BY <1>2 DEF Files
<1>5. \E v \in ToSet(f.fetches) : v.from <= h - 1 /\ h - 1 < v.to
  <2>1. Reach(f, w[1]) \in Int /\ Reach(f, w[1]) >= w[2]
    BY <1>1, <1>2, ReachAsked, LastMoment DEF Covered
  <2>2. h - 1 \in w[1] .. Reach(f, w[1]) - 1
    BY <1>3, <2>1
  <2> HIDE DEF f
  <2> QED
    BY <1>1, <1>2, <2>2, ReachAsked
<1>6. of # {}
  <2>1. PICK i \in 1 .. Len(f.fetches) : f.fetches[i].from <= h - 1 /\ h - 1 < f.fetches[i].to
    BY <1>4, <1>5, ToSetIs
  <2>2. f.fetches[i] \in Fetches
    BY <1>4
  <2>3. f.fetches[i].from \in Int /\ f.fetches[i].to \in Int
    BY <2>2, LastMoment DEF Fetches
  <2>4. Inside(h, f.fetches[i].from, f.fetches[i].to)
    BY <1>3, <2>1, <2>3 DEF Inside
  <2> QED
    BY <1>4, <2>4
<1>7. last \in of /\ \A i \in of : i <= last
  <2>1. of \subseteq Int /\ Len(f.fetches) \in Int /\ \A i \in of : i <= Len(f.fetches)
    BY <1>4
  <2> HIDE DEF of
  <2> QED
    BY <1>6, <2>1, MaxIs
<1>8. f.fetches[last] \in NewestOf(h)
  <2>1. NewestOf(h) = {f.fetches[i] : i \in {j \in of : j = last}}
    BY DEF NewestOf
  <2> QED
    BY <1>7, <2>1
<1>9. Of(f.hours, h) = Of(f.fetches[last].read, h)
  <2>1. last \in DOMAIN f.fetches /\ Asked(f, last, h)
    BY <1>7 DEF Asked
  <2>2. \A j \in DOMAIN f.fetches : Asked(f, j, h) => j <= last
    BY <1>7 DEF Asked
  <2> HIDE DEF f, last
  <2> QED
    BY <1>2, <2>1, <2>2 DEF Newest
<1>10. ASSUME NEW t \in Max({w[1], h - Hour}) .. h - 1
       PROVE  /\ \A r \in f.fetches[last].read : r.end = h => RainMinutes(w[1], w[2])[t] = r.mm
              /\ (\A r \in f.fetches[last].read : r.end # h) => RainMinutes(w[1], w[2])[t] = 0
  <2> DEFINE over == {k \in Window(f, w[1], w[2]) : k.end - Hour <= t /\ t < k.end}
  <2>1. t \in Int /\ w[1] <= t /\ h - Hour <= t /\ t < h
    <3> DEFINE S == {w[1], h - Hour}
    <3>1. Max(S) \in S /\ \A x \in S : x <= Max(S)
      <4>1. S \subseteq Int /\ h \in Int /\ \A x \in S : x <= h
        BY <1>3 DEF Hour
      <4> QED
        BY <4>1, MaxIs
    <3> QED
      BY <1>3, <3>1 DEF Hour
  <2>2. RainMinutes(w[1], w[2])[t] = IF over = {} THEN 0 ELSE (CHOOSE k \in over : TRUE).mm
    BY <1>3, <2>1 DEF RainMinutes
  <2>3. over = Of(f.hours, h)
    <3>1. ASSUME NEW k \in over PROVE k \in Of(f.hours, h)
      <4>1. k \in f.hours /\ k \in Reading /\ k.end - Hour <= t /\ t < k.end
        BY <1>4 DEF Window
      <4>2. k.end \in HourEnds
        BY <4>1 DEF Reading
      <4>3. k.end = h
        BY <2>1, <4>1, <4>2, OneHour
      <4> QED
        BY <4>1, <4>3 DEF Of
    <3>2. ASSUME NEW k \in Of(f.hours, h) PROVE k \in over
      BY <2>1, <3>2 DEF Of, Window
    <3> QED
      BY <3>1, <3>2
  <2> HIDE DEF over
  <2>4. \A k, l \in over : k = l
    BY <1>2, <2>3 DEF Newest, Of
  <2>5. ASSUME NEW r \in f.fetches[last].read, r.end = h
        PROVE  RainMinutes(w[1], w[2])[t] = r.mm
    <3>1. r \in over
      BY <1>9, <2>3, <2>5 DEF Of
    <3> QED
      BY <2>2, <2>4, <3>1
  <2>6. ASSUME \A r \in f.fetches[last].read : r.end # h
        PROVE  RainMinutes(w[1], w[2])[t] = 0
    BY <1>9, <2>2, <2>3, <2>6 DEF Of
  <2> QED
    BY <2>5, <2>6
<1> QED
  BY <1>8, <1>10

\* A replay of observed rain (observedRain over raincache) shows what the
\* newest fetch of each hour read, whatever imports failed or were killed, for
\* any file size, windows and amounts.
THEOREM ReplaysAreFaithful == CacheSpec => []ReplayIsNewestFetch
<1>1. CacheInit => CacheInv
  BY CacheInitInv
<1>2. CacheInv /\ [CacheNext]_cacheVars => CacheInv'
  BY CacheNextInv
<1>3. CacheInv => ReplayIsNewestFetch
  BY ReplaysNewest
<1> QED
  BY <1>1, <1>2, <1>3, PTL DEF CacheSpec

\* A step keeps what the simulator accepts.
LEMMA AcceptedStays ==
    ASSUME CacheInv, CacheInv', [CacheNext]_cacheVars,
           NEW w \in Windows, Accepts(w[1], w[2])
    PROVE  Accepts(w[1], w[2])'
<1>1. CASE UNCHANGED disk
  BY <1>1 DEF Accepts
<1>2. CASE WriteOpens \/ WriteFills
  <2>1. disk'.file = disk.file
    BY <1>2 DEF WriteOpens, WriteFills, WritesTo, CacheInv
  <2> QED
    BY <2>1 DEF Accepts
<1>3. CASE WriteRenames
  <2>1. disk'.file = import.file /\ import.at = "rename"
    BY <1>3 DEF WriteRenames, CacheInv
  <2>2. import.file \in Files
    BY DEF CacheInv, Imports
  <2>3. disk.file \in Files /\ Load(disk.file) = disk.file
    BY DEF Accepts, CacheInv, Load
  <2>4. ToSet(disk.file.fetches) \subseteq ToSet(import.file.fetches)
    BY <2>1, <2>3 DEF CacheInv
  <2>5. w[1] \in Moments /\ w[2] \in Moments
    BY DEF Windows
  <2>6. Reach(disk.file, w[1]) <= Reach(import.file, w[1])
    BY <2>2, <2>3, <2>4, <2>5, ReachGrows
  <2>7. Reach(disk.file, w[1]) \in Int /\ Reach(import.file, w[1]) \in Int /\ w[2] \in Int
    <3>1. Reach(disk.file, w[1]) \in Moments /\ Reach(import.file, w[1]) \in Moments
      BY <2>2, <2>3, <2>5, ReachAsked, Zenon
    <3> QED
      BY <2>5, <3>1, LastMoment
  <2>8. Reach(import.file, w[1]) >= w[2]
    BY <2>6, <2>7 DEF Accepts, Covered
  <2> QED
    BY <2>1, <2>2, <2>8, KindsDiffer DEF Accepts, Covered
<1>4. UNCHANGED disk \/ WriteOpens \/ WriteFills \/ WriteRenames
  BY DEF CacheNext, cacheVars, ImportBegin, ImportFetch, ImportDies
<1> QED
  BY <1>1, <1>2, <1>3, <1>4

\* Whatever happens to an import, a run that the simulator accepted stays
\* accepted: the file is replaced at once (Write), by one with more fetches.
THEOREM CoverageNeverShrinks == CacheSpec => CoverageKept
<1>1. CacheInit => CacheInv
  BY CacheInitInv
<1>2. CacheInv /\ [CacheNext]_cacheVars => CacheInv'
  BY CacheNextInv
<1>3. CacheInv /\ CacheInv' /\ [CacheNext]_cacheVars =>
        [\A w \in Windows : Accepts(w[1], w[2]) => Accepts(w[1], w[2])']_cacheVars
  BY AcceptedStays
<1> QED
  BY <1>1, <1>2, <1>3, PTL DEF CacheSpec, CoverageKept

------------------------------------------------------------------------------
(* The poller of ECCC's hours.                                             *)

Amount == Amounts \cup {Missing}

Polls == [busy : BOOLEAN, to : Int, next : Int, page : Int, obs : [Hours -> Amount]]

EcccTypeOK ==
    /\ hour \in Int
    /\ published \in [Hours -> Amount] /\ stored \in [Hours -> Amount]
    /\ from \in Int
    /\ poll \in Polls

\* No poll is behind by less than Lookback: a revision is in its window.
WindowBehind == from <= hour - Lookback

\* The poll under way started at the window it will go on from, and the clock
\* it took is not ahead.
PollBegan ==
    poll.busy => from + 1 <= poll.next /\ poll.to <= hour /\ from <= poll.to - Lookback

\* Pages only hold hours of the window.
ReadInWindow ==
    poll.busy => \A h \in Hours : poll.obs[h] # Missing => from < h

\* What was read of an hour that can no longer be revised is what is published.
ReadSettled ==
    poll.busy => \A h \in Hours :
        from < h /\ h < poll.next /\ h <= poll.to - Lookback => poll.obs[h] = published[h]

EcccInv ==
    /\ EcccTypeOK /\ WindowBehind /\ PollBegan /\ ReadInWindow /\ ReadSettled
    /\ NoRevisionMissed

\* The poller starts with the window of the backfill and nothing published.
LEMMA EcccInitInv == EcccInit => EcccInv
<1> SUFFICES ASSUME EcccInit PROVE EcccInv
  OBVIOUS
<1> USE EcccAssumption, AmountsAssumption
<1>1. NoObs \in [Hours -> Amount]
  BY DEF NoObs, Amount, Missing
<1>2. Idle \in Polls
  BY <1>1 DEF Idle, Polls
<1>3. EcccTypeOK
  BY <1>1, <1>2 DEF EcccInit, EcccTypeOK
<1>4. ~poll.busy
  BY DEF EcccInit, Idle
<1>5. NoRevisionMissed
  BY DEF EcccInit, NoRevisionMissed, NoObs
<1> QED
  BY <1>3, <1>4, <1>5 DEF EcccInv, EcccInit, WindowBehind, PollBegan, ReadInWindow, ReadSettled

\* Every step of ECCC, the clock and the poller keeps the invariant: a late
\* revision lies in the next window, and storing a poll loses none.
LEMMA EcccStepInv == EcccInv /\ [EcccNext]_ecccVars => EcccInv'
<1> SUFFICES ASSUME EcccInv, [EcccNext]_ecccVars PROVE EcccInv'
  OBVIOUS
<1> USE EcccAssumption, AmountsAssumption
<1>0. /\ NoObs \in [Hours -> Amount] /\ Idle \in Polls
      /\ ~Idle.busy /\ Missing \in Amount /\ Hours \subseteq Int
  BY DEF NoObs, Amount, Missing, Idle, Polls, Hours
<1>1. ASSUME NEW h \in Hours, NEW mm \in Amounts \cup {Missing}, Publish(h, mm) PROVE EcccInv'
  <2>0. /\ h <= hour /\ hour - h < Lookback /\ mm \in Amount
        /\ published' = [published EXCEPT ![h] = mm]
        /\ UNCHANGED <<hour, stored, from, poll, stops>>
    BY <1>1 DEF Publish, Amount
  <2>1. EcccTypeOK'
    BY <2>0 DEF EcccInv, EcccTypeOK
  <2>2. WindowBehind' /\ PollBegan' /\ ReadInWindow'
    BY <2>0 DEF EcccInv, WindowBehind, PollBegan, ReadInWindow
  <2>3. ReadSettled'
    <3> SUFFICES ASSUME poll.busy, NEW k \in Hours, from < k, k < poll.next, k <= poll.to - Lookback
                 PROVE poll.obs[k] = published'[k]
      BY <2>0 DEF ReadSettled
    <3>1. k # h
      BY <1>0, <2>0 DEF EcccInv, EcccTypeOK, PollBegan, Polls
    <3> QED
      BY <2>0, <3>1 DEF EcccInv, ReadSettled, EcccTypeOK
  <2>4. NoRevisionMissed'
    <3>1. h > from
      BY <1>0, <2>0 DEF EcccInv, EcccTypeOK, WindowBehind
    <3> QED
      BY <2>0, <3>1 DEF EcccInv, EcccTypeOK, NoRevisionMissed
  <2> QED
    BY <2>1, <2>2, <2>3, <2>4 DEF EcccInv
<1>2. ASSUME HourPasses PROVE EcccInv'
  <2>0. /\ hour' = hour + 1
        /\ UNCHANGED <<published, stored, from, poll, stops>>
    BY <1>2 DEF HourPasses
  <2> QED
    BY <2>0 DEF EcccInv, EcccTypeOK, Polls, WindowBehind, PollBegan, ReadInWindow, ReadSettled,
                NoRevisionMissed
<1>3. ASSUME StartPoll PROVE EcccInv'
  <2>0. /\ poll' = [busy |-> TRUE, to |-> hour, next |-> from + 1, page |-> 0, obs |-> NoObs]
        /\ UNCHANGED <<hour, published, stored, from, stops>>
    BY <1>3 DEF StartPoll
  <2>1. EcccTypeOK'
    BY <1>0, <2>0 DEF EcccInv, EcccTypeOK, Polls
  <2>2. PollBegan' /\ WindowBehind'
    BY <2>0 DEF EcccInv, EcccTypeOK, PollBegan, WindowBehind
  <2>3. ReadInWindow'
    BY <2>0 DEF ReadInWindow, NoObs
  <2>4. ReadSettled'
    BY <1>0, <2>0 DEF ReadSettled, EcccInv, EcccTypeOK
  <2>5. NoRevisionMissed'
    BY <2>0 DEF EcccInv, NoRevisionMissed
  <2> QED
    BY <2>1, <2>2, <2>3, <2>4, <2>5 DEF EcccInv
<1>4. ASSUME ReadPage PROVE EcccInv'
  <2> DEFINE read == [h \in Hours |-> IF h \in PageHours THEN published[h] ELSE poll.obs[h]]
  <2>0. /\ poll.busy /\ poll.next <= poll.to
        /\ poll' = [poll EXCEPT !.next = poll.next + PageSize, !.page = poll.page + 1, !.obs = read]
        /\ UNCHANGED <<hour, published, stored, from, stops>>
    BY <1>4 DEF ReadPage
  <2>1. read \in [Hours -> Amount]
    BY DEF EcccInv, EcccTypeOK, Polls
  <2>2. \A h \in Hours : read[h] = IF h \in PageHours THEN published[h] ELSE poll.obs[h]
    OBVIOUS
  <2> HIDE DEF read
  <2>3. poll' = [busy |-> poll.busy, to |-> poll.to, next |-> poll.next + PageSize,
                 page |-> poll.page + 1, obs |-> read]
    BY <2>0 DEF EcccInv, EcccTypeOK, Polls
  <2>4. /\ poll' \in Polls
        /\ poll'.busy /\ poll'.to = poll.to /\ poll'.next = poll.next + PageSize /\ poll'.obs = read
    <3>1. /\ poll.busy \in BOOLEAN /\ poll.to \in Int /\ poll.next + PageSize \in Int
          /\ poll.page + 1 \in Int
      BY DEF EcccInv, EcccTypeOK, Polls
    <3>2. poll' \in Polls
      BY <2>1, <2>3, <3>1 DEF Polls
    <3> QED
      BY <2>0, <2>3, <3>2
  <2>5. EcccTypeOK' /\ WindowBehind' /\ PollBegan' /\ NoRevisionMissed'
    BY <2>0, <2>4 DEF EcccInv, EcccTypeOK, Polls, WindowBehind, PollBegan, NoRevisionMissed
  <2>6. ReadInWindow'
    BY <1>0, <2>0, <2>2, <2>4 DEF EcccInv, EcccTypeOK, Polls, ReadInWindow, PollBegan, PageHours
  <2>7. ReadSettled'
    BY <1>0, <2>0, <2>2, <2>4 DEF EcccInv, EcccTypeOK, Polls, ReadSettled, PageHours
  <2> QED
    BY <2>5, <2>6, <2>7 DEF EcccInv
<1>5. ASSUME StorePoll PROVE EcccInv'
  <2>0. /\ poll.busy /\ poll.next > poll.to
        /\ stored' = Upserted /\ from' = poll.to - Lookback /\ poll' = Idle
        /\ UNCHANGED <<hour, published, stops>>
    BY <1>5 DEF StorePoll, NextFrom
  <2>1. EcccTypeOK'
    BY <1>0, <2>0 DEF EcccInv, EcccTypeOK, Polls, Upserted
  <2>2. WindowBehind' /\ PollBegan' /\ ReadInWindow' /\ ReadSettled'
    BY <1>0, <2>0 DEF EcccInv, EcccTypeOK, Polls, WindowBehind, PollBegan, ReadInWindow, ReadSettled
  <2>3. NoRevisionMissed'
    <3> SUFFICES ASSUME NEW h \in Hours, published[h] # Missing, published[h] # stored'[h]
                 PROVE h > poll.to - Lookback
      BY <2>0 DEF NoRevisionMissed
    <3> SUFFICES ASSUME h <= poll.to - Lookback PROVE FALSE
      BY <1>0 DEF EcccInv, EcccTypeOK, Polls
    <3>1. CASE from < h
      <4>1. poll.obs[h] = published[h]
        BY <1>0, <2>0, <3>1 DEF EcccInv, EcccTypeOK, Polls, ReadSettled
      <4> QED
        BY <2>0, <4>1 DEF Upserted
    <3>2. CASE ~(from < h)
      <4>1. poll.obs[h] = Missing
        BY <2>0, <3>2 DEF EcccInv, ReadInWindow
      <4>2. stored'[h] = stored[h]
        BY <2>0, <4>1 DEF Upserted
      <4> QED
        BY <1>0, <3>2, <4>2 DEF EcccInv, EcccTypeOK, NoRevisionMissed
    <3> QED
      BY <3>1, <3>2
  <2> QED
    BY <2>1, <2>2, <2>3 DEF EcccInv
<1>6. ASSUME PollFails PROVE EcccInv'
  <2>0. from' = from /\ poll' = Idle /\ UNCHANGED <<hour, published, stored, stops>>
    BY <1>6 DEF PollFails, AfterFailure
  <2> QED
    BY <1>0, <2>0 DEF EcccInv, EcccTypeOK, WindowBehind, PollBegan, ReadInWindow, ReadSettled,
                      NoRevisionMissed
<1>7. ASSUME RestartPoller PROVE EcccInv'
  <2>0. /\ hour - Backfill <= from /\ from' = hour - Backfill /\ poll' = Idle
        /\ UNCHANGED <<hour, published, stored>>
    BY <1>7 DEF RestartPoller
  <2> QED
    BY <1>0, <2>0 DEF EcccInv, EcccTypeOK, WindowBehind, PollBegan, ReadInWindow, ReadSettled,
                      NoRevisionMissed
<1>8. CASE UNCHANGED ecccVars
  BY <1>8 DEF ecccVars, EcccInv, EcccTypeOK, WindowBehind, PollBegan, ReadInWindow, ReadSettled,
              NoRevisionMissed
<1> QED
  BY <1>1, <1>2, <1>3, <1>4, <1>5, <1>6, <1>7, <1>8 DEF EcccNext

\* ECCCPoller.Run: whatever ECCC publishes or revises late, while pages are
\* read, between failed polls or before a restart, is stored or lies in the
\* window of a poll to come.
THEOREM EcccNeverMisses == EcccSpec => []NoRevisionMissed
<1>1. EcccInv => NoRevisionMissed
  BY DEF EcccInv
<1> QED
  BY <1>1, EcccInitInv, EcccStepInv, PTL DEF EcccSpec

------------------------------------------------------------------------------
(* Depths of rain.                                                         *)

Some(s) == CHOOSE x \in s : TRUE

\* The sums of the subsets of a set of rows, taken one row at a time.
Summed(S, f) == f = [s \in SUBSET S |-> IF s = {} THEN 0 ELSE Some(s).mm + f[s \ {Some(s)}]]

\* Depth adds the amounts of the rows one row at a time.
LEMMA DepthIs ==
    ASSUME NEW S
    PROVE  Depth(S) = (CHOOSE f : Summed(S, f))[S]
BY DEF Depth, MapThenSumSet, MapThenFoldSet, Summed, Some

\* Counting down the rows of a set.
LEMMA OneLess ==
    ASSUME NEW S, IsFiniteSet(S), NEW s \in SUBSET S, NEW x \in s
    PROVE  /\ IsFiniteSet(s) /\ s \ {x} \in SUBSET S
           /\ Cardinality(s) \in Nat /\ Cardinality(s \ {x}) \in Nat
           /\ Cardinality(s \ {x}) = Cardinality(s) - 1
<1>1. IsFiniteSet(s)
  BY FS_Subset
<1>2. IsFiniteSet(s \ {x}) /\ Cardinality(s \ {x}) = Cardinality(s) - 1
  BY <1>1, FS_RemoveElement
<1> QED
  BY <1>1, <1>2, FS_CardinalityType

\* A set with members has some member.
LEMMA SomeIs ==
    ASSUME NEW s, s # {}
    PROVE  Some(s) \in s
BY DEF Some

\* The sums exist for any finite set of rows, by the number of rows.
LEMMA SumExists ==
    ASSUME NEW S, IsFiniteSet(S)
    PROVE  \E f : Summed(S, f)
<1> DEFINE Small(n) == {s \in SUBSET S : Cardinality(s) <= n}
           Body(g, s) == IF s = {} THEN 0 ELSE Some(s).mm + g[s \ {Some(s)}]
           Upto(n, g) == g = [s \in Small(n) |-> Body(g, s)]
           Ok == {n \in Nat : \E g : Upto(n, g)}
<1>0. \A s \in SUBSET S : Cardinality(s) \in Nat /\ (Cardinality(s) = 0 <=> s = {})
  <2> TAKE s \in SUBSET S
  <2>1. IsFiniteSet(s)
    BY FS_Subset
  <2> QED
    BY <2>1, FS_CardinalityType, FS_EmptySet
<1>1. 0 \in Ok
  <2> DEFINE g == [s \in Small(0) |-> 0]
  <2>1. \A s \in Small(0) : s = {}
    BY <1>0
  <2>2. g = [s \in Small(0) |-> Body(g, s)]
    BY <2>1
  <2> HIDE DEF g, Body, Small
  <2> QED
    BY <2>2
<1>2. ASSUME NEW n \in Nat, n \in Ok PROVE n + 1 \in Ok
  <2>1. PICK g : Upto(n, g)
    BY <1>2
  <2> DEFINE h == [s \in Small(n + 1) |-> IF Cardinality(s) = n + 1 THEN Body(g, s) ELSE g[s]]
  <2>2. \A s \in Small(n + 1) : s # {} => h[s \ {Some(s)}] = g[s \ {Some(s)}]
    <3> TAKE s \in Small(n + 1)
    <3> HAVE s # {}
    <3> DEFINE r == s \ {Some(s)}
    <3>1. r \in SUBSET S /\ Cardinality(r) \in Nat /\ Cardinality(s) \in Nat /\ Cardinality(r) = Cardinality(s) - 1
      BY SomeIs, OneLess
    <3>2. Cardinality(s) <= n + 1
      OBVIOUS
    <3> HIDE DEF r
    <3>3. r \in Small(n + 1) /\ Cardinality(r) # n + 1
      BY <3>1, <3>2
    <3>4. h[r] = g[r]
      BY <3>3
    <3> QED
      BY <3>4 DEF r
  <2>3. \A s \in Small(n + 1) : Body(h, s) = Body(g, s)
    <3> HIDE DEF h, Small
    <3> QED
      BY <2>2
  <2>4. \A s \in Small(n) : g[s] = Body(g, s)
    <3> HIDE DEF Small, Body
    <3> QED
      BY <2>1
  <2>5. \A s \in Small(n + 1) : Cardinality(s) # n + 1 => s \in Small(n)
    BY <1>0
  <2>6. \A s \in Small(n + 1) : h[s] = Body(h, s)
    <3> HIDE DEF Small, Body
    <3> QED
      BY <2>3, <2>4, <2>5
  <2>7. h = [s \in Small(n + 1) |-> Body(h, s)]
    <3>1. h = [s \in Small(n + 1) |-> h[s]]
      OBVIOUS
    <3> HIDE DEF h, Small, Body
    <3> QED
      BY <2>6, <3>1
  <2> HIDE DEF h, Body, Small
  <2>8. \E k : Upto(n + 1, k)
    BY <2>7
  <2> QED
    BY <2>8
<1>3. Cardinality(S) \in Nat
  BY <1>0
<1>4. Cardinality(S) \in Ok
  <2> HIDE DEF Ok
  <2> QED
    BY <1>1, <1>2, <1>3, EveryNatural
<1>5. Small(Cardinality(S)) = SUBSET S
  BY FS_Subset
<1>6. PICK g : Upto(Cardinality(S), g)
  BY <1>4
<1>7. Summed(S, g)
  <2> HIDE DEF Small
  <2> QED
    BY <1>5, <1>6 DEF Summed
<1> QED
  BY <1>7

WithAmounts(S) == \A r \in S : r.mm \in Nat

\* The sums, taken apart.
LEMMA SumsAt ==
    ASSUME NEW S, NEW f, Summed(S, f), NEW s \in SUBSET S
    PROVE  /\ s = {} => f[s] = 0
           /\ s # {} => f[s] = Some(s).mm + f[s \ {Some(s)}]
BY DEF Summed

\* A sum is one number more than without one of its rows, whichever it is.
LEMMA SumsAdd ==
    ASSUME NEW S, IsFiniteSet(S), WithAmounts(S), NEW f, Summed(S, f), NEW s \in SUBSET S
    PROVE  f[s] \in Nat /\ \A x \in s : f[s] = x.mm + f[s \ {x}]
<1> DEFINE P(r) == f[r] \in Nat /\ \A x \in r : f[r] = x.mm + f[r \ {x}]
           Ok == {n \in Nat : \A r \in SUBSET S : Cardinality(r) <= n => P(r)}
<1>0. \A r \in SUBSET S : Cardinality(r) \in Nat /\ (Cardinality(r) = 0 <=> r = {})
  <2> TAKE r \in SUBSET S
  <2>1. IsFiniteSet(r)
    BY FS_Subset
  <2> QED
    BY <2>1, FS_CardinalityType, FS_EmptySet
<1>6. \A q \in SUBSET S : q # {} => f[q] = Some(q).mm + f[q \ {Some(q)}]
  BY DEF Summed
<1>5. f[{}] = 0
  <2>1. {} \in SUBSET S
    OBVIOUS
  <2> QED
    BY <2>1, SumsAt
<1>1. 0 \in Ok
  <2>1. \A r \in SUBSET S : Cardinality(r) <= 0 => r = {}
    BY <1>0
  <2>2. P({})
    BY <1>5
  <2> HIDE DEF P
  <2> QED
    BY <2>1, <2>2
<1>2. ASSUME NEW n \in Nat, n \in Ok PROVE n + 1 \in Ok
  <2> SUFFICES ASSUME NEW r \in SUBSET S, Cardinality(r) <= n + 1, r # {} PROVE P(r)
    <3>1. P({})
      BY <1>5
    <3> HIDE DEF P
    <3> QED
      BY <3>1
  <2> DEFINE c == Some(r)
  <2>1. c \in r /\ c.mm \in Nat
    BY SomeIs DEF WithAmounts
  <2>2. f[r] = c.mm + f[r \ {c}]
    <3>1. r # {} => f[r] = Some(r).mm + f[r \ {Some(r)}]
      BY <1>6
    <3> QED
      BY <3>1
  <2> HIDE DEF c
  <2>3. \A y \in r : r \ {y} \in SUBSET S /\ Cardinality(r \ {y}) <= n
    BY OneLess
  <2>4. \A y \in r : P(r \ {y})
    <3> HIDE DEF P
    <3> QED
      BY <1>2, <2>3
  <2>5. f[r] \in Nat
    <3>1. f[r \ {c}] \in Nat
      BY <2>1, <2>4
    <3> HIDE DEF P, Ok
    <3> QED
      BY <2>1, <2>2, <3>1
  <2>6. ASSUME NEW x \in r PROVE f[r] = x.mm + f[r \ {x}]
    <3>1. CASE x = c
      BY <2>2, <3>1
    <3>2. CASE x # c
      <4> DEFINE both == r \ {c, x}
      <4>1. f[r \ {c}] = x.mm + f[(r \ {c}) \ {x}]
        BY <2>1, <2>4, <3>2
      <4>2. f[r \ {x}] = c.mm + f[(r \ {x}) \ {c}]
        BY <2>1, <2>4, <3>2
      <4>3. (r \ {c}) \ {x} = both /\ (r \ {x}) \ {c} = both
        OBVIOUS
      <4>4. x.mm \in Nat
        BY DEF WithAmounts
      <4>5. f[both] \in Nat
        <5>1. both \in SUBSET S /\ Cardinality(both) <= n
          <6>1. r \ {c} \in SUBSET S /\ Cardinality(r \ {c}) <= n /\ x \in r \ {c}
            BY <2>1, <2>3, <3>2
          <6>2. /\ (r \ {c}) \ {x} \in SUBSET S /\ Cardinality(r \ {c}) \in Nat
                /\ Cardinality((r \ {c}) \ {x}) = Cardinality(r \ {c}) - 1
            BY <6>1, OneLess
          <6> QED
            BY <4>3, <6>1, <6>2
        <5> HIDE DEF both
        <5>2. P(both)
          <6> HIDE DEF P
          <6> QED
            BY <1>2, <5>1
        <5> QED
          BY <5>2
      <4>6. f[r \ {c}] = x.mm + f[both] /\ f[r \ {x}] = c.mm + f[both]
        BY <4>1, <4>2, <4>3
      <4> DEFINE a == x.mm
                 b == c.mm
                 d == f[both]
      <4>7. a \in Nat /\ b \in Nat /\ d \in Nat
        BY <2>1, <4>4, <4>5
      <4>8. f[r] = b + f[r \ {c}] /\ f[r \ {c}] = a + d /\ f[r \ {x}] = b + d
        BY <2>2, <4>6
      <4> HIDE DEF both, a, b, d, P, Ok
      <4>9. f[r] = b + (a + d) /\ a + f[r \ {x}] = a + (b + d)
        BY <4>8
      <4>10. f[r] = a + f[r \ {x}]
        BY <4>7, <4>9
      <4> QED
        BY <4>10 DEF a
    <3> QED
      BY <3>1, <3>2
  <2> QED
    BY <2>5, <2>6
<1>3. Cardinality(s) \in Ok
  <2> HIDE DEF Ok
  <2> QED
    BY <1>0, <1>1, <1>2, EveryNatural
<1>4. P(s)
  <2> HIDE DEF P
  <2> QED
    BY <1>0, <1>3
<1> QED
  BY <1>4

\* The sums of a smaller set are the same.
LEMMA SumsAgree ==
    ASSUME NEW S, IsFiniteSet(S), NEW T \in SUBSET S, NEW f, NEW g, Summed(S, f), Summed(T, g)
    PROVE  f[T] = g[T]
<1> DEFINE Ok == {n \in Nat : \A r \in SUBSET T : Cardinality(r) <= n => f[r] = g[r]}
<1>0. \A r \in SUBSET T : Cardinality(r) \in Nat /\ (Cardinality(r) = 0 <=> r = {})
  <2> TAKE r \in SUBSET T
  <2>1. IsFiniteSet(r)
    BY FS_Subset
  <2> QED
    BY <2>1, FS_CardinalityType, FS_EmptySet
<1>1. f[{}] = g[{}]
  BY SumsAt
<1>2. 0 \in Ok
  <2>1. \A r \in SUBSET T : Cardinality(r) <= 0 => r = {}
    BY <1>0
  <2> QED
    BY <1>1, <2>1
<1>3. ASSUME NEW n \in Nat, n \in Ok PROVE n + 1 \in Ok
  <2> SUFFICES ASSUME NEW r \in SUBSET T, Cardinality(r) <= n + 1, r # {} PROVE f[r] = g[r]
    BY <1>1
  <2> DEFINE c == Some(r)
  <2>1. c \in r
    BY SomeIs
  <2>2. f[r] = c.mm + f[r \ {c}] /\ g[r] = c.mm + g[r \ {c}]
    BY SumsAt
  <2> HIDE DEF c
  <2>3. r \ {c} \in SUBSET T /\ Cardinality(r \ {c}) <= n
    BY <2>1, OneLess
  <2>4. f[r \ {c}] = g[r \ {c}]
    BY <1>3, <2>3
  <2> QED
    BY <2>2, <2>4
<1>4. Cardinality(T) \in Ok
  <2> HIDE DEF Ok
  <2> QED
    BY <1>0, <1>2, <1>3, EveryNatural
<1> QED
  BY <1>0, <1>4

\* No rows, no rain.
LEMMA DepthEmpty == Depth({}) = 0
<1>1. \E f : Summed({}, f)
  BY SumExists, FS_EmptySet
<1>2. Summed({}, CHOOSE f : Summed({}, f))
  BY <1>1
<1> QED
  BY <1>2, SumsAt, DepthIs

\* A row adds its amount to the depth.
LEMMA DepthAdd ==
    ASSUME NEW T, IsFiniteSet(T), NEW x, x \notin T, WithAmounts(T \cup {x})
    PROVE  Depth(T) \in Nat /\ Depth(T \cup {x}) = Depth(T) + x.mm
<1> DEFINE S == T \cup {x}
           f == CHOOSE k : Summed(S, k)
           g == CHOOSE k : Summed(T, k)
<1>1. IsFiniteSet(S) /\ T \in SUBSET S /\ S \ {x} = T /\ WithAmounts(S) /\ x \in S /\ x.mm \in Nat
  BY FS_AddElement DEF WithAmounts
<1>2. Depth(S) = f[S] /\ Depth(T) = g[T]
  BY DepthIs
<1> HIDE DEF S
<1>3. Summed(S, f) /\ Summed(T, g)
  BY <1>1, SumExists
<1> HIDE DEF f, g
<1>4. f[T] = g[T]
  BY <1>1, <1>3, SumsAgree
<1>5. f[S] = x.mm + f[S \ {x}] /\ f[T] \in Nat
  BY <1>1, <1>3, SumsAdd
<1>7. f[S] = x.mm + g[T] /\ g[T] \in Nat
  BY <1>1, <1>4, <1>5
<1>6. Depth(S) = Depth(T) + x.mm /\ Depth(T) \in Nat
  BY <1>1, <1>2, <1>7
<1> QED
  BY <1>6 DEF S

------------------------------------------------------------------------------
(* The rainfall of a gauge.                                                *)

\* The uplinks of a table, as the node numbers its wakes.
Ordered(U) ==
    /\ U \subseteq Uplink
    /\ \A u \in U : 1 <= u.interval /\ u.interval <= u.at
    /\ \A u, v \in U : u.at = v.at => u = v
    /\ \A u, v \in U : v.at < u.at => v.at <= u.at - u.interval

\* The uplink before u, and the rows of u after it.
Pred(U, u) == {x \in U : x.at < u.at /\ \A v \in U : v.at < u.at => v.at <= x.at}
RowsOf(U, u) == deriveOne(Pred(U, u), u)

EndOf(r) == r.start + r.len

\* Every row came from an uplink, on its own or after another.
Sourced(U, r) ==
    \E w \in U : r \in deriveOne({}, w) \/ \E p \in U : p.at < w.at /\ r \in deriveOne({p}, w)

\* A row that one derivation would not give lies beside an uplink that is pending.
Stale(U, waiting, r) ==
    \E v \in waiting :
        /\ \A p \in U : p.at < v.at => p.at <= r.start
        /\ \A w \in U : w.at > v.at => w.at > r.start
        /\ (\E p \in U : p.at < v.at) \/ v.at <= r.start

Present(U, waiting, R) ==
    \A u \in U : u \notin waiting /\ (\A p \in Pred(U, u) : p \notin waiting) => RowsOf(U, u) \subseteq R
Explained(U, waiting, R) ==
    \A r \in R : Sourced(U, r) /\ ((\E u \in U : r \in RowsOf(U, u)) \/ Stale(U, waiting, r))
\* Where a row lies over an uplink or over another row, an uplink is pending.
Spans(U, waiting, R) ==
    \A r \in R, x \in U : r.start < x.at /\ x.at < EndOf(r) =>
        \E v \in waiting : r.start < v.at /\ v.at <= x.at
Overlaps(waiting, R) ==
    \A r, s \in R : r.start < s.start /\ s.start < EndOf(r) =>
        \E v \in waiting : r.start < v.at /\ v.at <= s.start

Reconciled(U, waiting, R) ==
    /\ R \subseteq RainRow /\ waiting \subseteq U
    /\ Present(U, waiting, R) /\ Explained(U, waiting, R)
    /\ Spans(U, waiting, R) /\ Overlaps(waiting, R)

Aired == air \cup uplinks

\* What the uplinks count, against what fell.
Honest ==
    /\ \A u \in Aired : u.tips <= u.fell /\ u.fell <= fallen
    /\ \A p, u \in Aired : p.at < u.at =>
        /\ p.fell <= u.fell /\ u.tips - p.tips <= u.fell - p.fell
        /\ Restarted(p, u) => u.tips <= u.fell - p.fell
    /\ node.tips <= fallen
    /\ \A p \in Aired :
        \/ node.booted /\ p.tips <= node.tips /\ node.tips - p.tips <= fallen - p.fell
        \/ node.tips <= fallen - p.fell
\* A node that was never without power counts up.
FirstBoot ==
    reboots = 0 =>
        /\ \A p \in Aired : node.booted /\ p.tips <= node.tips
        /\ \A p, u \in Aired : p.at < u.at => ~u.reset /\ p.tips <= u.tips

NodeClock ==
    /\ now \in 0 .. MaxTime /\ fallen \in Nat /\ reboots \in 0 .. MaxReboots
    /\ node \in [tips : Nat, lastTx : Nat, lastTips : Nat, booted : BOOLEAN]
    /\ node.lastTx <= now /\ \A u \in Aired : u.at <= node.lastTx

GaugeInv ==
    /\ NodeClock /\ Ordered(Aired) /\ Honest /\ FirstBoot
    /\ Reconciled(uplinks, pending, rainfall)
    /\ (\A u \in uplinks : ~u.fault) => unseen = {}

------------------------------------------------------------------------------
(* Rows.                                                                   *)

\* A row over a stretch (rainRow of the stage) lies where it says.
LEMMA RowIs ==
    ASSUME NEW a \in Int, NEW b \in Int, NEW m \in Nat, a < b
    PROVE  /\ Row(a, b, m) \in RainRow /\ Row(a, b, m).start = a /\ EndOf(Row(a, b, m)) = b
           /\ Row(a, b, m).mm = m /\ Row(a, b, m).len = b - a
BY DEF Row, RainRow, EndOf

\* The rows of a stretch: one, or a dry one and the last window.
LEMMA RowsOverIs ==
    ASSUME NEW u \in Uplink, NEW a \in Int, a < u.at, NEW m \in Nat, NEW lost \in BOOLEAN
    PROVE  \/ u.fault /\ RowsOver(a, m, lost, u) = {}
           \/ /\ ~u.fault /\ RowsOver(a, m, lost, u) = {Row(a, u.at, m)}
           \/ /\ ~u.fault /\ m > 0 /\ a < u.at - 1
              /\ RowsOver(a, m, lost, u) = {Row(a, u.at - 1, 0), Row(u.at - 1, u.at, m)}
<1>1. u.at \in Nat /\ u.fault \in BOOLEAN
  BY DEF Uplink
<1> QED
  BY <1>1 DEF RowsOver, TipWindow

\* deriveOne without an uplink before: only a boot counts from zero.
LEMMA DeriveFirst ==
    ASSUME NEW u
    PROVE  deriveOne({}, u) = IF u.reset THEN RowsOver(u.at - u.interval, u.tips, FALSE, u) ELSE {}
BY DEF deriveOne

\* deriveOne after an uplink: the difference of the counters, or the counter
\* itself when the node restarted.
LEMMA DeriveNext ==
    ASSUME NEW u \in Uplink, NEW p \in Uplink, p.at <= u.at - u.interval
    PROVE  deriveOne({p}, u) =
             IF Restarted(p, u) THEN RowsOver(u.at - u.interval, u.tips, FALSE, u)
             ELSE RowsOver(p.at, u.tips - p.tips, u.at - u.interval - p.at > LossSlack, u)
<1> DEFINE ns == u.at - u.interval
<1>1. ns \in Int /\ p.at \in Int
  BY DEF Uplink
<1>2. (CHOOSE x \in {p} : TRUE) = p
  OBVIOUS
<1>3. Max({ns, p.at}) = ns
  <2> HIDE DEF ns
  <2>1. Max({ns, p.at}) \in {ns, p.at} /\ Max({ns, p.at}) >= ns /\ Max({ns, p.at}) >= p.at
    BY <1>1 DEF Max
  <2>2. p.at <= ns
    BY DEF ns
  <2> QED
    BY <1>1, <2>1, <2>2
<1>4. deriveOne({p}, u) =
        IF Restarted(p, u) THEN RowsOver(Max({ns, p.at}), u.tips, FALSE, u)
        ELSE RowsOver(p.at, u.tips - p.tips, ns - p.at > LossSlack, u)
  BY <1>2 DEF deriveOne
<1> QED
  BY <1>3, <1>4

\* The stretch of an uplink: where it starts, and how much it counted.
Stretch(q, u, a, m) ==
    /\ a \in Nat /\ m \in Nat /\ a < u.at
    /\ \/ a = u.at - u.interval /\ m = u.tips /\ \A p \in q : Restarted(p, u)
       \/ \E p \in q : a = p.at /\ m = u.tips - p.tips /\ ~Restarted(p, u)
    /\ \E lost \in BOOLEAN : deriveOne(q, u) = RowsOver(a, m, lost, u)

\* deriveOne has a stretch unless it has nothing to compare with.
LEMMA StretchIs ==
    ASSUME NEW u \in Uplink, 1 <= u.interval, u.interval <= u.at,
           NEW q, \/ q = {} /\ u.reset
                  \/ \E p \in Uplink : q = {p} /\ p.at <= u.at - u.interval
    PROVE  \E a, m : Stretch(q, u, a, m)
<1>1. /\ u.at \in Nat /\ u.interval \in Nat /\ u.tips \in Nat /\ u.reset \in BOOLEAN
      /\ u.at - u.interval \in Nat /\ u.at - u.interval < u.at
  BY DEF Uplink
<1>2. CASE q = {} /\ u.reset
  <2>1. deriveOne(q, u) = RowsOver(u.at - u.interval, u.tips, FALSE, u)
    BY <1>2, DeriveFirst
  <2>2. Stretch(q, u, u.at - u.interval, u.tips)
    BY <1>1, <1>2, <2>1 DEF Stretch
  <2> QED
    BY <2>2
<1>3. CASE \E p \in Uplink : q = {p} /\ p.at <= u.at - u.interval
  <2>1. PICK p \in Uplink : q = {p} /\ p.at <= u.at - u.interval
    BY <1>3
  <2>2. p.at \in Nat /\ p.tips \in Nat /\ p.at < u.at
    BY <1>1, <2>1 DEF Uplink
  <2>3. CASE Restarted(p, u)
    <3>1. deriveOne(q, u) = RowsOver(u.at - u.interval, u.tips, FALSE, u)
      BY <2>1, <2>3, DeriveNext
    <3>2. Stretch(q, u, u.at - u.interval, u.tips)
      BY <1>1, <2>1, <2>3, <3>1 DEF Stretch
    <3> QED
      BY <3>2
  <2>4. CASE ~Restarted(p, u)
    <3> DEFINE lost == u.at - u.interval - p.at > LossSlack
               m == u.tips - p.tips
    <3>1. deriveOne(q, u) = RowsOver(p.at, m, lost, u)
      BY <2>1, <2>4, DeriveNext
    <3>2. lost \in BOOLEAN /\ m \in Nat
      BY <1>1, <2>2, <2>4 DEF Restarted
    <3>3. m = u.tips - p.tips
      OBVIOUS
    <3> HIDE DEF lost, m
    <3>4. Stretch(q, u, p.at, m)
      BY <2>1, <2>2, <2>4, <3>1, <3>2, <3>3 DEF Stretch
    <3> QED
      BY <3>4
  <2> QED
    BY <2>3, <2>4
<1> QED
  BY <1>2, <1>3

\* The rows of a stretch lie in it, one after the other.
LEMMA ShapeIs ==
    ASSUME NEW u \in Uplink, NEW q, NEW a, NEW m, Stretch(q, u, a, m), NEW r \in deriveOne(q, u)
    PROVE  /\ r \in RainRow /\ a <= r.start /\ r.start < u.at /\ r.start < EndOf(r)
           /\ EndOf(r) \in {u.at - 1, u.at} /\ (EndOf(r) = u.at - 1 => r.start = a) /\ ~u.fault
           /\ \A s \in deriveOne(q, u) : s = r \/ Disjoint(r, s)
<1>1. u.at \in Nat /\ a \in Nat /\ m \in Nat /\ a < u.at
  BY DEF Uplink, Stretch
<1>2. PICK lost \in BOOLEAN : deriveOne(q, u) = RowsOver(a, m, lost, u)
  BY DEF Stretch
<1> DEFINE whole == Row(a, u.at, m)
           dry == Row(a, u.at - 1, 0)
           wet == Row(u.at - 1, u.at, m)
<1>3. \/ deriveOne(q, u) = {}
      \/ ~u.fault /\ deriveOne(q, u) = {whole}
      \/ ~u.fault /\ a < u.at - 1 /\ deriveOne(q, u) = {dry, wet}
  BY <1>1, <1>2, RowsOverIs
<1>4. /\ whole \in RainRow /\ whole.start = a /\ EndOf(whole) = u.at
      /\ wet \in RainRow /\ wet.start = u.at - 1 /\ EndOf(wet) = u.at
  <2>1. u.at - 1 \in Int /\ u.at \in Int /\ a \in Int /\ u.at - 1 < u.at
    BY <1>1
  <2> QED
    BY <1>1, <2>1, RowIs
<1>5. a < u.at - 1 => dry \in RainRow /\ dry.start = a /\ EndOf(dry) = u.at - 1
  <2>1. u.at - 1 \in Int /\ a \in Int /\ 0 \in Nat
    BY <1>1
  <2> QED
    BY <2>1, RowIs
<1>6. a < u.at - 1 => Disjoint(dry, wet) /\ Disjoint(wet, dry)
  BY <1>1, <1>4, <1>5 DEF Disjoint, EndOf
<1> HIDE DEF whole, dry, wet
<1>7. CASE ~u.fault /\ deriveOne(q, u) = {whole}
  BY <1>1, <1>4, <1>7
<1>8. CASE ~u.fault /\ a < u.at - 1 /\ deriveOne(q, u) = {dry, wet}
  <2>1. r = dry \/ r = wet
    BY <1>8
  <2>2. CASE r = dry
    BY <1>1, <1>5, <1>6, <1>8, <2>2
  <2>3. CASE r = wet
    BY <1>1, <1>4, <1>6, <1>8, <2>3
  <2> QED
    BY <2>1, <2>2, <2>3
<1> QED
  BY <1>3, <1>7, <1>8

\* Unless the sensor failed, some row starts the stretch and some row ends it.
LEMMA StretchFull ==
    ASSUME NEW u \in Uplink, NEW q, NEW a, NEW m, Stretch(q, u, a, m), ~u.fault
    PROVE  /\ \E s \in deriveOne(q, u) : s.start = a /\ EndOf(s) \in {u.at - 1, u.at}
           /\ \E s \in deriveOne(q, u) : EndOf(s) = u.at
<1>1. u.at \in Nat /\ a \in Nat /\ m \in Nat /\ a < u.at
  BY DEF Uplink, Stretch
<1>2. PICK lost \in BOOLEAN : deriveOne(q, u) = RowsOver(a, m, lost, u)
  BY DEF Stretch
<1> DEFINE whole == Row(a, u.at, m)
           dry == Row(a, u.at - 1, 0)
           wet == Row(u.at - 1, u.at, m)
<1>3. \/ deriveOne(q, u) = {whole}
      \/ a < u.at - 1 /\ deriveOne(q, u) = {dry, wet}
  BY <1>1, <1>2, RowsOverIs
<1>4. /\ whole.start = a /\ EndOf(whole) = u.at /\ EndOf(wet) = u.at
  <2>1. u.at - 1 \in Int /\ u.at \in Int /\ a \in Int /\ u.at - 1 < u.at
    BY <1>1
  <2> QED
    BY <1>1, <2>1, RowIs
<1>5. a < u.at - 1 => dry.start = a /\ EndOf(dry) = u.at - 1
  <2>1. u.at - 1 \in Int /\ a \in Int /\ 0 \in Nat
    BY <1>1
  <2> QED
    BY <2>1, RowIs
<1> HIDE DEF whole, dry, wet
<1> QED
  BY <1>3, <1>4, <1>5

\* What may be before an uplink of the table.
Base(U, w, q) == q = {} \/ \E p \in U : q = {p} /\ p.at < w.at

\* What deriveOne gives for an uplink lies after the one it is compared with.
LEMMA ShapeOf ==
    ASSUME NEW U, Ordered(U), NEW w \in U, NEW q, Base(U, w, q), NEW r \in deriveOne(q, w)
    PROVE  \E a, m :
             /\ Stretch(q, w, a, m)
             /\ r \in RainRow /\ a <= r.start /\ r.start < w.at /\ r.start < EndOf(r)
             /\ EndOf(r) \in {w.at - 1, w.at} /\ (EndOf(r) = w.at - 1 => r.start = a)
             /\ \A p \in q : p.at <= r.start
             /\ q = {} => w.reset /\ a = w.at - w.interval
             /\ \A s \in deriveOne(q, w) : s = r \/ Disjoint(r, s)
<1>1. w \in Uplink /\ 1 <= w.interval /\ w.interval <= w.at
  BY DEF Ordered
<1>2. q = {} => w.reset
  BY DeriveFirst
<1>3. \A p \in U : p \in Uplink /\ (p.at < w.at => p.at <= w.at - w.interval)
  BY DEF Ordered
<1>4. (q = {} /\ w.reset) \/ \E p \in Uplink : q = {p} /\ p.at <= w.at - w.interval
  BY <1>2, <1>3 DEF Base
<1>5. PICK a, m : Stretch(q, w, a, m)
  BY <1>1, <1>4, StretchIs
<1>6. /\ r \in RainRow /\ a <= r.start /\ r.start < w.at /\ r.start < EndOf(r)
      /\ EndOf(r) \in {w.at - 1, w.at} /\ (EndOf(r) = w.at - 1 => r.start = a) /\ ~w.fault
      /\ \A s \in deriveOne(q, w) : s = r \/ Disjoint(r, s)
  BY <1>1, <1>5, ShapeIs
<1>7. \A p \in q : p.at <= a
  <2> TAKE p \in q
  <2>1. q = {p} /\ p \in U /\ p.at < w.at
    BY DEF Base
  <2>2. p.at <= w.at - w.interval /\ p.at \in Nat
    BY <1>3, <2>1 DEF Uplink
  <2> QED
    BY <2>1, <2>2, <1>5 DEF Stretch
<1>8. \A p \in q : p.at <= r.start
  <2> TAKE p \in q
  <2>1. p.at \in Nat /\ a \in Nat /\ r.start \in Int
    BY <1>3, <1>5, <1>6 DEF Base, Uplink, Stretch, RainRow
  <2> QED
    BY <1>6, <1>7, <2>1
<1>9. q = {} => a = w.at - w.interval
  BY <1>5 DEF Stretch
<1> QED
  BY <1>2, <1>5, <1>6, <1>8, <1>9

\* The uplink before another.
LEMMA PredIs ==
    ASSUME NEW U, Ordered(U), NEW u, u.at \in Nat
    PROVE  \/ Pred(U, u) = {} /\ \A v \in U : ~(v.at < u.at)
           \/ \E p \in U : /\ Pred(U, u) = {p} /\ p.at < u.at
                           /\ \A v \in U : v.at < u.at => v.at <= p.at
<1> DEFINE T == {v.at : v \in {x \in U : x.at < u.at}}
<1>1. \A v \in U : v.at \in Nat
  BY DEF Ordered, Uplink
<1>2. CASE T = {}
  <2>1. \A v \in U : ~(v.at < u.at)
    BY <1>2
  <2> QED
    BY <2>1 DEF Pred
<1>3. CASE T # {}
  <2>1. T \subseteq Int /\ u.at \in Int /\ \A x \in T : x <= u.at
    BY <1>1
  <2>2. Max(T) \in T /\ \A x \in T : x <= Max(T)
    <3> HIDE DEF T
    <3> QED
      BY <1>3, <2>1, MaxIs
  <2>3. PICK p \in U : p.at < u.at /\ p.at = Max(T)
    BY <2>2
  <2>4. \A v \in U : v.at < u.at => v.at <= p.at
    BY <2>2, <2>3
  <2> HIDE DEF T
  <2>5. p \in Pred(U, u)
    BY <2>3, <2>4 DEF Pred
  <2>6. \A x \in Pred(U, u) : x = p
    <3> TAKE x \in Pred(U, u)
    <3>1. x \in U /\ x.at < u.at /\ p.at <= x.at /\ x.at <= p.at
      BY <2>3, <2>4 DEF Pred
    <3>2. x.at = p.at
      BY <1>1, <3>1
    <3> QED
      BY <3>1, <3>2 DEF Ordered
  <2> QED
    BY <2>3, <2>4, <2>5, <2>6
<1> QED
  BY <1>2, <1>3

\* The uplink before is one that deriveOne may compare with.
LEMMA PredBase ==
    ASSUME NEW U, Ordered(U), NEW u \in U
    PROVE  Base(U, u, Pred(U, u))
<1>1. u.at \in Nat
  BY DEF Ordered, Uplink
<1> QED
  BY <1>1, PredIs DEF Base

\* The rows of an uplink lie between the one before it and it.
LEMMA RowsOfIs ==
    ASSUME NEW U, Ordered(U), NEW u \in U, NEW r \in RowsOf(U, u)
    PROVE  /\ r \in RainRow /\ r.start < u.at /\ r.start < EndOf(r) /\ EndOf(r) <= u.at
           /\ \A v \in U : v.at < u.at => v.at <= r.start
           /\ Pred(U, u) = {} => u.at - u.interval <= r.start
           /\ Sourced(U, r)
           /\ \A s \in RowsOf(U, u) : s = r \/ Disjoint(r, s)
<1> DEFINE q == Pred(U, u)
<1>0. u.at \in Nat /\ u.interval \in Nat /\ \A v \in U : v.at \in Nat
  BY DEF Ordered, Uplink
<1>1. r \in deriveOne(q, u) /\ Base(U, u, q)
  BY PredBase DEF RowsOf
<1>2. \/ q = {} /\ \A v \in U : ~(v.at < u.at)
      \/ \E p \in U : /\ q = {p} /\ p.at < u.at
                      /\ \A v \in U : v.at < u.at => v.at <= p.at
  BY <1>0, PredIs
<1>3. \A s : s \in RowsOf(U, u) <=> s \in deriveOne(q, u)
  BY DEF RowsOf
<1> HIDE DEF q
<1>4. PICK a, m :
             /\ r \in RainRow /\ a <= r.start /\ r.start < u.at /\ r.start < EndOf(r)
             /\ EndOf(r) \in {u.at - 1, u.at}
             /\ \A p \in q : p.at <= r.start
             /\ q = {} => u.reset /\ a = u.at - u.interval
             /\ \A s \in deriveOne(q, u) : s = r \/ Disjoint(r, s)
  BY <1>1, ShapeOf
<1>5. r.start \in Int
  BY <1>4 DEF RainRow
<1>6. \A v \in U : v.at < u.at => v.at <= r.start
  BY <1>0, <1>2, <1>4, <1>5
<1>7. Sourced(U, r)
  BY <1>1, <1>2 DEF Sourced
<1>8. EndOf(r) <= u.at
  BY <1>0, <1>4
<1> QED
  BY <1>3, <1>4, <1>6, <1>7, <1>8 DEF q

------------------------------------------------------------------------------
(* An uplink is stored.                                                    *)

\* An uplink stored out of order changes the baseline of its successor only.
LEMMA PredKept ==
    ASSUME NEW U, NEW u, Ordered(U \cup {u}), NEW w \in U, u \notin Pred(U \cup {u}, w)
    PROVE  Pred(U \cup {u}, w) = Pred(U, w)
<1> DEFINE V == U \cup {u}
<1>0. \A v \in V : v.at \in Nat
  BY DEF Ordered, Uplink
<1>1. \/ Pred(V, w) = {} /\ \A v \in V : ~(v.at < w.at)
      \/ \E p \in V : /\ Pred(V, w) = {p} /\ p.at < w.at
                      /\ \A v \in V : v.at < w.at => v.at <= p.at
  BY <1>0, PredIs
<1>2. CASE Pred(V, w) = {} /\ \A v \in V : ~(v.at < w.at)
  BY <1>2 DEF Pred
<1>3. CASE \E p \in V : /\ Pred(V, w) = {p} /\ p.at < w.at
                        /\ \A v \in V : v.at < w.at => v.at <= p.at
  <2>1. PICK p \in V : /\ Pred(V, w) = {p} /\ p.at < w.at
                        /\ \A v \in V : v.at < w.at => v.at <= p.at
    BY <1>3
  <2>2. p \in U
    BY <2>1
  <2>3. p \in Pred(U, w)
    BY <2>1, <2>2 DEF Pred
  <2>4. \A x \in Pred(U, w) : x = p
    <3> TAKE x \in Pred(U, w)
    <3>1. x \in V /\ x.at < w.at /\ p.at <= x.at
      BY <2>1, <2>2 DEF Pred
    <3>2. x.at = p.at
      BY <1>0, <2>1, <3>1
    <3> QED
      BY <3>1, <3>2 DEF Ordered
  <2> QED
    BY <2>1, <2>3, <2>4
<1> QED
  BY <1>1, <1>2, <1>3

\* A row that is out of date stays so when an uplink is stored.
LEMMA StaleStored ==
    ASSUME NEW U, NEW u, Ordered(U \cup {u}), NEW W \in SUBSET U, NEW r \in RainRow, Stale(U, W, r)
    PROVE  Stale(U \cup {u}, W \cup {u}, r)
<1> DEFINE V == U \cup {u}
<1>0. r.start \in Int /\ \A v \in V : v.at \in Nat
  BY DEF Ordered, Uplink, RainRow
<1>1. PICK v \in W : /\ \A p \in U : p.at < v.at => p.at <= r.start
                     /\ \A w \in U : w.at > v.at => w.at > r.start
                     /\ (\E p \in U : p.at < v.at) \/ v.at <= r.start
  BY DEF Stale
<1>2. v.at \in Nat /\ u.at \in Nat /\ v \in U
  BY <1>0
<1>3. CASE u.at < v.at /\ u.at > r.start
  <2>1. \A p \in V : p.at < u.at => p.at <= r.start
    BY <1>0, <1>1, <1>2, <1>3
  <2>2. \A w \in V : w.at > u.at => w.at > r.start
    BY <1>0, <1>2, <1>3
  <2>3. \E p \in V : p.at < u.at
    BY <1>0, <1>1, <1>2, <1>3
  <2> QED
    BY <2>1, <2>2, <2>3 DEF Stale
<1>4. CASE u.at > v.at /\ u.at <= r.start
  <2>1. \A p \in V : p.at < u.at => p.at <= r.start
    BY <1>0, <1>2, <1>4
  <2>2. \A w \in V : w.at > u.at => w.at > r.start
    BY <1>0, <1>1, <1>2, <1>4
  <2>3. \E p \in V : p.at < u.at
    BY <1>2, <1>4
  <2> QED
    BY <2>1, <2>2, <2>3 DEF Stale
<1>5. CASE ~(u.at < v.at /\ u.at > r.start) /\ ~(u.at > v.at /\ u.at <= r.start)
  <2>1. \A p \in V : p.at < v.at => p.at <= r.start
    BY <1>0, <1>1, <1>2, <1>5
  <2>2. \A w \in V : w.at > v.at => w.at > r.start
    BY <1>0, <1>1, <1>2, <1>5
  <2>3. (\E p \in V : p.at < v.at) \/ v.at <= r.start
    BY <1>1
  <2> QED
    BY <2>1, <2>2, <2>3 DEF Stale
<1> QED
  BY <1>3, <1>4, <1>5

\* The rows of the uplink after the new one are out of date.
LEMMA StoredBefore ==
    ASSUME NEW U, NEW u, Ordered(U), Ordered(U \cup {u}), NEW W, u \notin U, NEW w \in U,
           u \in Pred(U \cup {u}, w), NEW r \in RowsOf(U, w)
    PROVE  Stale(U \cup {u}, W \cup {u}, r)
<1> DEFINE V == U \cup {u}
<1>0. \A v \in V : v.at \in Nat /\ v.interval \in Nat
  BY DEF Ordered, Uplink
<1>1. /\ r \in RainRow /\ r.start < w.at
      /\ \A v \in U : v.at < w.at => v.at <= r.start
      /\ Pred(U, w) = {} => w.at - w.interval <= r.start
  BY RowsOfIs
<1>2. r.start \in Int
  BY <1>1 DEF RainRow
<1>3. u.at < w.at /\ \A v \in V : v.at < w.at => v.at <= u.at
  BY DEF Pred
<1>4. \A p \in V : p.at < u.at => p.at <= r.start
  BY <1>0, <1>1, <1>3
<1>5. \A x \in V : x.at > u.at => x.at > r.start
  BY <1>0, <1>1, <1>2, <1>3
<1>6. (\E p \in V : p.at < u.at) \/ u.at <= r.start
  <2>1. SUFFICES ASSUME \A p \in V : ~(p.at < u.at) PROVE u.at <= r.start
    OBVIOUS
  <2>2. \A v \in U : v.at # u.at
    BY DEF Ordered
  <2>3. \A v \in U : ~(v.at < w.at)
    BY <1>0, <1>3, <2>1, <2>2
  <2>4. Pred(U, w) = {}
    BY <2>3 DEF Pred
  <2>5. u.at <= w.at - w.interval
    BY <1>3 DEF Ordered
  <2>6. u.at \in Nat /\ w.at \in Nat /\ w.interval \in Nat
    BY <1>0
  <2> QED
    BY <1>1, <1>2, <2>4, <2>5, <2>6
<1> QED
  BY <1>4, <1>5, <1>6 DEF Stale

\* A row that came from some uplinks came from more of them.
LEMMA SourcedKept ==
    ASSUME NEW U, NEW V, U \subseteq V, NEW r, Sourced(U, r)
    PROVE  Sourced(V, r)
BY DEF Sourced

\* Storing an uplink leaves the rows reconciled with it pending.
LEMMA Stored ==
    ASSUME NEW U, NEW u, Ordered(U), Ordered(U \cup {u}), NEW W, NEW R, Reconciled(U, W, R)
    PROVE  Reconciled(U \cup {u}, W \cup {u}, R)
<1> DEFINE V == U \cup {u}
           X == W \cup {u}
<1>1. /\ R \subseteq RainRow /\ W \in SUBSET U /\ X \subseteq V
      /\ Present(U, W, R) /\ Explained(U, W, R) /\ Spans(U, W, R) /\ Overlaps(W, R)
  BY DEF Reconciled
<1>2. Present(V, X, R)
  <2> SUFFICES ASSUME NEW w \in V, w \notin X, \A p \in Pred(V, w) : p \notin X
               PROVE  RowsOf(V, w) \subseteq R
    BY DEF Present
  <2>1. w \in U /\ w \notin W /\ u \notin Pred(V, w)
    OBVIOUS
  <2>2. Pred(V, w) = Pred(U, w)
    BY <2>1, PredKept
  <2>3. RowsOf(V, w) = RowsOf(U, w) /\ \A p \in Pred(U, w) : p \notin W
    BY <2>2 DEF RowsOf
  <2> QED
    BY <1>1, <2>1, <2>3 DEF Present
<1>3. Explained(V, X, R)
  <2> SUFFICES ASSUME NEW r \in R
               PROVE  Sourced(V, r) /\ ((\E w \in V : r \in RowsOf(V, w)) \/ Stale(V, X, r))
    BY DEF Explained
  <2>1. Sourced(U, r) /\ ((\E w \in U : r \in RowsOf(U, w)) \/ Stale(U, W, r))
    BY <1>1 DEF Explained
  <2>2. Sourced(V, r)
    BY <2>1, SourcedKept
  <2>3. CASE Stale(U, W, r)
    BY <1>1, <2>2, <2>3, StaleStored
  <2>4. ASSUME NEW w \in U, r \in RowsOf(U, w)
        PROVE  (\E y \in V : r \in RowsOf(V, y)) \/ Stale(V, X, r)
    <3>1. CASE u \in Pred(V, w) /\ u \notin U
      BY <2>4, <3>1, StoredBefore
    <3>2. CASE u \notin Pred(V, w)
      <4>1. Pred(V, w) = Pred(U, w)
        BY <3>2, PredKept
      <4> QED
        BY <2>4, <4>1 DEF RowsOf
    <3>3. CASE u \in U
      <4>1. V = U
        BY <3>3
      <4> QED
        BY <2>4, <4>1
    <3> QED
      BY <3>1, <3>2, <3>3
  <2> QED
    BY <2>1, <2>2, <2>3, <2>4
<1>4. Spans(V, X, R)
  <2> SUFFICES ASSUME NEW r \in R, NEW x \in V, r.start < x.at, x.at < EndOf(r)
               PROVE  \E v \in X : r.start < v.at /\ v.at <= x.at
    BY DEF Spans
  <2>1. CASE x \in U
    BY <1>1, <2>1 DEF Spans
  <2>2. CASE x = u
    <3>1. u.at \in Nat
      BY DEF Ordered, Uplink
    <3> QED
      BY <2>2, <3>1
  <2> QED
    BY <2>1, <2>2
<1>5. Overlaps(X, R)
  BY <1>1 DEF Overlaps
<1> QED
  BY <1>1, <1>2, <1>3, <1>4, <1>5 DEF Reconciled

------------------------------------------------------------------------------
(* A poll is handled.                                                      *)

\* The stretch of a poll: its uplinks from f to t, the rows between lo and hi.
PolledStretch(U, polled, f, t, lo, hi) ==
    /\ f \in Int /\ t \in Int /\ lo \in Int /\ hi \in Int /\ f <= t /\ t <= hi
    /\ \A v \in polled : f <= v.at /\ v.at <= t
    /\ \A u \in U : u.at <= t \/ hi <= u.at
    /\ t < hi \/ \A u \in U : u.at <= t
    /\ \E z \in U : z.at = hi
    /\ \/ \E p \in U : p.at = lo /\ lo < f /\ \A v \in U : v.at < f => v.at <= lo
       \/ lo <= f /\ \A v \in U : f <= v.at
    /\ \A u \in U : f <= u.at /\ u.at <= hi => \A r \in RowsOf(U, u) : lo <= r.start /\ r.start < hi

RowsOutside(R, lo, hi) == {r \in R : ~(lo <= r.start /\ r.start < hi)}
Between(U, f, hi) == {x \in U : f <= x.at /\ x.at <= hi}
Derived(U, f, hi) == UNION {RowsOf(U, u) : u \in Between(U, f, hi)}

\* RainGaugeUplinkAfter finds the next uplink of the table, if there is one.
LEMMA AfterIs ==
    ASSUME Ordered(uplinks), NEW t \in Nat
    PROVE  \/ RainGaugeUplinkAfter(t) = {} /\ \A u \in uplinks : u.at <= t
           \/ \E z \in uplinks : /\ RainGaugeUplinkAfter(t) = {z} /\ z.at > t
                                 /\ \A u \in uplinks : u.at > t => z.at <= u.at
<1> DEFINE later == {u \in uplinks : u.at > t}
           T == {u.at : u \in later}
<1>0. \A u \in uplinks : u.at \in Nat
  BY DEF Ordered, Uplink
<1>1. RainGaugeUplinkAfter(t) = {u \in later : \A v \in later : v.at >= u.at}
  BY DEF RainGaugeUplinkAfter
<1>2. CASE later = {}
  BY <1>0, <1>1, <1>2
<1>3. CASE later # {}
  <2>1. T \subseteq Nat /\ T # {}
    BY <1>0, <1>3
  <2>2. PICK y \in T : \A x \in T : y <= x
    <3> HIDE DEF T
    <3> QED
      BY <2>1, LeastNatural
  <2>3. PICK z \in later : z.at = y
    OBVIOUS
  <2>4. \A u \in later : z.at <= u.at
    BY <2>2, <2>3
  <2>5. z \in RainGaugeUplinkAfter(t)
    BY <1>0, <1>1, <2>4
  <2>6. \A x \in RainGaugeUplinkAfter(t) : x = z
    <3> TAKE x \in RainGaugeUplinkAfter(t)
    <3>1. x \in uplinks /\ z \in uplinks /\ z.at >= x.at /\ z.at <= x.at
      BY <1>1, <2>4
    <3>2. x.at = z.at
      BY <1>0, <3>1
    <3> QED
      BY <3>1, <3>2 DEF Ordered
  <2> QED
    BY <2>4, <2>5, <2>6
<1> QED
  BY <1>2, <1>3

\* The baseline of an uplink of the stretch is the uplink before it.
LEMMA BaselineIs ==
    ASSUME Ordered(uplinks), NEW f \in Int, NEW hi \in Int, NEW first \in uplinks, first.at = f,
           NEW u \in Between(uplinks, f, hi)
    PROVE  Baseline(RainGaugeUplinkBefore(f), Between(uplinks, f, hi), u) = Pred(uplinks, u)
<1> DEFINE ups == {x \in uplinks : f <= x.at /\ x.at <= hi}
<1>3. Between(uplinks, f, hi) = ups
  BY DEF Between
<1> SUFFICES Baseline(RainGaugeUplinkBefore(f), ups, u) = Pred(uplinks, u)
  BY <1>3
<1> DEFINE earlier == {v \in ups : v.at < u.at}
<1>0. u \in uplinks /\ f <= u.at /\ u.at <= hi /\ \A v \in uplinks : v.at \in Nat
  BY <1>3 DEF Ordered, Uplink
<1>1. CASE earlier = {}
  <2>1. first \in ups
    BY <1>0
  <2>2. u = first
    <3>1. ~(first.at < u.at)
      BY <1>1, <2>1
    <3>2. first.at = u.at
      BY <1>0, <3>1
    <3> QED
      BY <1>0, <3>2 DEF Ordered
  <2>3. RainGaugeUplinkBefore(f) = Pred(uplinks, u)
    BY <2>2 DEF RainGaugeUplinkBefore, Pred
  <2> QED
    BY <1>1, <2>3 DEF Baseline
<1>2. CASE earlier # {}
  <2>1. PICK e \in earlier : TRUE
    BY <1>2
  <2>2. Baseline(RainGaugeUplinkBefore(f), ups, u) = {v \in earlier : \A w \in earlier : w.at <= v.at}
    BY <1>2 DEF Baseline
  <2>3. ASSUME NEW x \in Pred(uplinks, u)
        PROVE  x \in earlier /\ \A w \in earlier : w.at <= x.at
    <3>1. x \in uplinks /\ x.at < u.at /\ \A v \in uplinks : v.at < u.at => v.at <= x.at
      BY DEF Pred
    <3>2. e \in uplinks /\ e.at < u.at /\ f <= e.at
      BY <2>1
    <3>3. f <= x.at /\ x.at <= hi
      BY <1>0, <3>1, <3>2
    <3> QED
      BY <3>1, <3>3
  <2>4. ASSUME NEW x \in earlier, \A w \in earlier : w.at <= x.at
        PROVE  x \in Pred(uplinks, u)
    <3>1. ASSUME NEW v \in uplinks, v.at < u.at PROVE v.at <= x.at
      <4>1. CASE v.at < f
        BY <1>0, <4>1
      <4>2. CASE f <= v.at
        BY <1>0, <2>4, <3>1, <4>2
      <4> QED
        BY <1>0, <4>1, <4>2
    <3> QED
      BY <3>1 DEF Pred
  <2> QED
    BY <2>2, <2>3, <2>4
<1> QED
  BY <1>1, <1>2

\* The rows of an uplink start at or after the first switch-on, and before it.
LEMMA RowsFromZero ==
    ASSUME NEW U, Ordered(U), NEW u \in U, NEW r \in RowsOf(U, u)
    PROVE  r.start \in Nat /\ r.start < u.at
<1>1. /\ r \in RainRow /\ r.start < u.at
      /\ \A v \in U : v.at < u.at => v.at <= r.start
      /\ Pred(U, u) = {} => u.at - u.interval <= r.start
  BY RowsOfIs
<1>2. /\ u.at \in Nat /\ u.interval \in Nat /\ u.interval <= u.at /\ r.start \in Int
      /\ \A v \in U : v.at \in Nat
  BY <1>1 DEF Ordered, Uplink, RainRow
<1>3. CASE Pred(U, u) = {}
  BY <1>1, <1>2, <1>3
<1>4. CASE Pred(U, u) # {}
  <2>1. PICK p \in U : p.at < u.at
    BY <1>4 DEF Pred
  <2> QED
    BY <1>1, <1>2, <2>1
<1> QED
  BY <1>3, <1>4

\* reconcile replaces the rows between two uplinks of the table by the rows of the
\* uplinks between them: DeleteRainfallThrough, DeleteRainfallExcept and
\* UpsertRainfall together.
LEMMA ReconcileIs ==
    ASSUME Ordered(uplinks), rainfall \subseteq RainRow,
           NEW N \in Nat, \A u \in uplinks : u.at <= N,
           NEW polled \in SUBSET uplinks, polled # {},
           NEW f, f = Min({u.at : u \in polled}), NEW t, t = Max({u.at : u \in polled})
    PROVE  \E lo, hi : /\ PolledStretch(uplinks, polled, f, t, lo, hi)
                       /\ reconcile(f, t) = RowsOutside(rainfall, lo, hi) \cup Derived(uplinks, f, hi)
<1>0. \A u \in uplinks : u.at \in Nat
  BY DEF Ordered, Uplink
<1> DEFINE ats == {u.at : u \in polled}
<1>1. f \in ats /\ t \in ats /\ \A x \in ats : f <= x /\ x <= t
  <2>1. ats \subseteq Int /\ ats # {} /\ N \in Int /\ 0 \in Int
        /\ (\A x \in ats : x <= N) /\ (\A x \in ats : 0 <= x)
    BY <1>0
  <2> HIDE DEF ats
  <2>2. f = Min(ats) /\ t = Max(ats)
    BY DEF ats
  <2>3. Max(ats) \in ats /\ \A x \in ats : x <= Max(ats)
    BY <2>1, MaxIs
  <2>4. Min(ats) \in ats /\ \A x \in ats : Min(ats) <= x
    BY <2>1, MinIs
  <2> QED
    BY <2>2, <2>3, <2>4
<1>2. f \in Nat /\ t \in Nat /\ f <= t /\ \A v \in polled : f <= v.at /\ v.at <= t
  BY <1>0, <1>1
<1>3. PICK first \in uplinks : first.at = f
  BY <1>1
<1>4. PICK last \in uplinks : last.at = t
  BY <1>1
<1> HIDE DEF ats
<1> DEFINE prev == RainGaugeUplinkBefore(f)
           ups == Affected(f, t)
           derived == DeriveGaugeRainfall(prev, ups)
           starts == {r.start : r \in derived}
           baseline == IF prev = {} THEN {u.at : u \in ups} ELSE {u.at : u \in prev}
           low == Min(baseline)
           lo == Min(starts \cup {low})
           hi == Max({u.at : u \in ups})
<1>5. reconcile(f, t) = UpsertRainfall(DeleteRainfallExcept(rainfall, lo, hi, starts), derived)
  BY DEF reconcile
<1>6. PICK top \in Int : /\ ups = Between(uplinks, f, top)
                          /\ t <= top /\ (\E u \in ups : u.at = top)
                          /\ (\A u \in uplinks : u.at <= t \/ top <= u.at)
                          /\ (t < top \/ \A u \in uplinks : u.at <= t)
  <2>1. ups = {u \in uplinks : f <= u.at /\ u.at <= t} \cup RainGaugeUplinkAfter(t)
    BY DEF Affected, ListRainGaugeUplinks
  <2> HIDE DEF ups
  <2>2. CASE RainGaugeUplinkAfter(t) = {} /\ \A u \in uplinks : u.at <= t
    <3>1. ups = {u \in uplinks : f <= u.at /\ u.at <= t}
      BY <2>1, <2>2
    <3>2. last \in ups
      BY <1>2, <1>4, <3>1
    <3>3. ups = Between(uplinks, f, t)
      BY <3>1 DEF Between
    <3>5. t \in Int /\ t <= t
      BY <1>2
    <3>6. last \in ups /\ last.at = t
      BY <1>4, <3>2
    <3>4. t \in Int /\ t <= t /\ \E u \in ups : u.at = t
      BY <3>5, <3>6, Zenon
    <3> QED
      BY <2>2, <3>3, <3>4
  <2>3. CASE \E z \in uplinks : /\ RainGaugeUplinkAfter(t) = {z} /\ z.at > t
                                /\ \A u \in uplinks : u.at > t => z.at <= u.at
    <3>1. PICK z \in uplinks : /\ RainGaugeUplinkAfter(t) = {z} /\ z.at > t
                                /\ \A u \in uplinks : u.at > t => z.at <= u.at
      BY <2>3
    <3>2. ASSUME NEW x \in uplinks, f <= x.at, x.at <= z.at PROVE x \in ups
      <4>1. CASE x.at <= t
        BY <2>1, <3>2, <4>1
      <4>2. CASE x.at > t
        <5>1. x.at = z.at
          BY <1>0, <3>1, <3>2, <4>2
        <5>2. x = z
          BY <3>1, <5>1 DEF Ordered
        <5> QED
          BY <2>1, <3>1, <5>2
      <4> QED
        BY <1>0, <1>2, <4>1, <4>2
    <3>3. ASSUME NEW x \in ups PROVE x \in uplinks /\ f <= x.at /\ x.at <= z.at
      BY <1>0, <1>2, <2>1, <3>1
    <3>4. ups = Between(uplinks, f, z.at)
      BY <3>2, <3>3 DEF Between
    <3>5. z \in ups /\ z.at \in Int /\ t <= z.at /\ t < z.at
      BY <1>0, <1>2, <2>1, <3>1
    <3>6. \A u \in uplinks : u.at <= t \/ z.at <= u.at
      BY <1>0, <1>2, <3>1
    <3> QED
      BY <3>4, <3>5, <3>6
  <2> QED
    BY <1>2, <2>2, <2>3, AfterIs
<1> HIDE DEF ups
<1>15. \A u \in ups : u \in uplinks /\ f <= u.at /\ u.at <= top
  BY <1>6 DEF Between
<1>7. hi = top
  <2> DEFINE T == {u.at : u \in ups}
  <2>1. T \subseteq Int /\ T # {} /\ top \in T /\ \A x \in T : x <= top
    <3>1. \E u \in ups : u.at = top
      BY <1>6
    <3> QED
      BY <1>0, <1>15, <3>1
  <2> HIDE DEF T
  <2>2. Max(T) \in T /\ \A x \in T : x <= Max(T)
    BY <2>1, MaxIs
  <2>4. Max(T) \in Int /\ Max(T) <= top /\ top <= Max(T)
    BY <2>1, <2>2
  <2>3. Max(T) = top
    BY <2>4
  <2> QED
    BY <2>3 DEF T
<1>8. derived = Derived(uplinks, f, top)
  <2>1. \A u \in ups : deriveOne(Baseline(prev, ups, u), u) = RowsOf(uplinks, u)
    <3> TAKE u \in ups
    <3>1. f \in Int
      BY <1>2
    <3>2. Baseline(prev, ups, u) = Pred(uplinks, u)
      <4>1. u \in Between(uplinks, f, top) /\ ups = Between(uplinks, f, top)
        BY <1>6
      <4> HIDE DEF prev
      <4>2. prev = RainGaugeUplinkBefore(f)
        BY DEF prev
      <4>3. Baseline(RainGaugeUplinkBefore(f), Between(uplinks, f, top), u) = Pred(uplinks, u)
        BY <1>3, <3>1, <4>1, BaselineIs
      <4> QED
        BY <4>1, <4>2, <4>3
    <3> QED
      BY <3>2 DEF RowsOf
  <2>2. derived = UNION {RowsOf(uplinks, u) : u \in ups}
    <3> HIDE DEF prev
    <3>1. derived = UNION {deriveOne(Baseline(prev, ups, u), u) : u \in ups}
      BY DEF DeriveGaugeRainfall
    <3> QED
      BY <2>1, <3>1
  <2> QED
    BY <1>6, <2>2 DEF Derived
<1> HIDE DEF derived
<1>9. \A r \in derived : \E u \in ups : u \in uplinks /\ r \in RowsOf(uplinks, u)
  BY <1>6, <1>8, <1>15 DEF Derived
<1>10. \A r \in derived : r.start \in Nat /\ r.start < top
  <2> TAKE r \in derived
  <2>1. PICK u \in ups : u \in uplinks /\ r \in RowsOf(uplinks, u)
    BY <1>9
  <2>2. r.start \in Nat /\ r.start < u.at /\ u.at <= top /\ u.at \in Nat
    BY <1>0, <1>15, <2>1, RowsFromZero
  <2> QED
    BY <2>2
<1>11. \A r \in derived, v \in uplinks : v.at < f => v.at <= r.start
  <2> TAKE r \in derived, v \in uplinks
  <2>1. PICK u \in ups : u \in uplinks /\ r \in RowsOf(uplinks, u)
    BY <1>9
  <2>2. \A x \in uplinks : x.at < u.at => x.at <= r.start
    BY <2>1, RowsOfIs
  <2> QED
    BY <1>0, <1>2, <1>15, <2>1, <2>2
<1>12. /\ lo \in Int
       /\ \A r \in derived : lo <= r.start
       /\ \/ \E p \in uplinks : p.at = lo /\ lo < f /\ \A v \in uplinks : v.at < f => v.at <= lo
          \/ lo <= f /\ \A v \in uplinks : f <= v.at
  <2>1. prev = Pred(uplinks, first)
    BY <1>3 DEF RainGaugeUplinkBefore, Pred
  <2>2. first.at \in Nat
    BY <1>0
  <2>3. \/ prev = {} /\ \A v \in uplinks : ~(v.at < f)
        \/ \E p \in uplinks : /\ prev = {p} /\ p.at < f
                              /\ \A v \in uplinks : v.at < f => v.at <= p.at
    <3>1. \/ Pred(uplinks, first) = {} /\ \A v \in uplinks : ~(v.at < first.at)
          \/ \E p \in uplinks : /\ Pred(uplinks, first) = {p} /\ p.at < first.at
                                /\ \A v \in uplinks : v.at < first.at => v.at <= p.at
      BY <2>2, PredIs
    <3> HIDE DEF prev
    <3> QED
      BY <1>3, <2>1, <3>1
  <2> HIDE DEF prev
  <2> DEFINE T == starts \cup {low}
  <2>4. ASSUME low \in Nat
        PROVE  lo \in T /\ lo \in Int /\ \A x \in T : lo <= x
    <3>1. T \subseteq Int /\ T # {} /\ 0 \in Int /\ \A x \in T : 0 <= x
      <4> HIDE DEF low
      <4>1. \A x \in T : x \in Nat
        BY <1>10, <2>4
      <4>2. low \in T
        OBVIOUS
      <4> HIDE DEF T
      <4> QED
        BY <4>1, <4>2
    <3> HIDE DEF T
    <3>2. Min(T) \in T /\ \A x \in T : Min(T) <= x
      BY <3>1, MinIs
    <3> QED
      BY <3>1, <3>2 DEF T
  <2>5. CASE prev = {} /\ \A v \in uplinks : ~(v.at < f)
    <3> DEFINE B == {u.at : u \in ups}
    <3>1. low = Min(B)
      BY <2>5
    <3>2. B \subseteq Int /\ f \in B /\ \A x \in B : f <= x
      <4>1. first \in ups
        BY <1>0, <1>2, <1>3, <1>6 DEF Between
      <4>2. \A u \in ups : u.at \in Int /\ f <= u.at
        BY <1>0, <1>15
      <4>3. \A x \in B : x \in Int /\ f <= x
        BY <4>2
      <4>4. f \in B
        BY <1>3, <4>1
      <4> HIDE DEF B
      <4> QED
        BY <4>3, <4>4
    <3> HIDE DEF B
    <3>3. Min(B) \in B /\ \A x \in B : Min(B) <= x
      BY <1>2, <3>2, MinIs
    <3>4. low = f
      <4>1. Min(B) \in Int /\ f <= Min(B) /\ Min(B) <= f
        BY <3>2, <3>3
      <4>2. Min(B) = f
        BY <1>2, <4>1
      <4> QED
        BY <3>1, <4>2
    <3> HIDE DEF low
    <3>5. lo \in T /\ lo \in Int /\ \A x \in T : lo <= x
      BY <1>2, <2>4, <3>4
    <3>6. \A r \in derived : r.start \in T
      OBVIOUS
    <3>7. low \in T
      OBVIOUS
    <3> HIDE DEF lo, T
    <3>8. lo <= f /\ \A r \in derived : lo <= r.start
      BY <3>4, <3>5, <3>6, <3>7
    <3>9. \A v \in uplinks : f <= v.at
      BY <1>0, <1>2, <2>5
    <3> QED
      BY <3>5, <3>8, <3>9
  <2>6. CASE \E p \in uplinks : /\ prev = {p} /\ p.at < f
                                /\ \A v \in uplinks : v.at < f => v.at <= p.at
    <3>1. PICK p \in uplinks : /\ prev = {p} /\ p.at < f
                                /\ \A v \in uplinks : v.at < f => v.at <= p.at
      BY <2>6
    <3>2. baseline = {p.at} /\ p.at \in Nat
      BY <1>0, <3>1
    <3>3. Min({p.at}) = p.at
      BY <3>2 DEF Min
    <3>4. low = p.at
      BY <3>2, <3>3
    <3> HIDE DEF low
    <3>5. lo \in T /\ lo \in Int /\ \A x \in T : lo <= x
      BY <2>4, <3>2, <3>4
    <3>6. \A x \in T : p.at <= x
      BY <1>11, <3>1, <3>2, <3>4
    <3>7. p.at \in T
      BY <3>4
    <3>8. \A r \in derived : r.start \in T
      OBVIOUS
    <3> HIDE DEF lo, T
    <3>9. lo = p.at
      BY <3>2, <3>5, <3>6, <3>7
    <3> QED
      BY <3>1, <3>5, <3>8, <3>9
  <2> QED
    BY <2>3, <2>5, <2>6
<1> HIDE DEF lo, hi, prev, low, baseline
<1>13. PolledStretch(uplinks, polled, f, t, lo, top)
  <2>1. \A u \in uplinks : f <= u.at /\ u.at <= top => \A r \in RowsOf(uplinks, u) : r \in derived
    BY <1>8 DEF Derived, Between
  <2>2. \A u \in uplinks : f <= u.at /\ u.at <= top =>
            \A r \in RowsOf(uplinks, u) : lo <= r.start /\ r.start < top
    BY <1>10, <1>12, <2>1
  <2>3. f \in Int /\ t \in Int
    BY <1>2
  <2>4. \E z \in uplinks : z.at = top
    BY <1>6, <1>15
  <2> QED
    BY <1>2, <1>6, <1>12, <2>2, <2>3, <2>4 DEF PolledStretch
<1>14. reconcile(f, t) = {r \in rainfall : ~(lo <= r.start /\ r.start < top)} \cup derived
  <2>1. \A r \in derived : r.start \in starts /\ lo <= r.start /\ r.start < top
    BY <1>10, <1>12
  <2>2. \A x \in starts : \E d \in derived : d.start = x
    OBVIOUS
  <2> HIDE DEF starts
  <2> QED
    BY <1>5, <1>7, <2>1, <2>2 DEF UpsertRainfall, DeleteRainfallExcept
<1> QED
  BY <1>8, <1>13, <1>14 DEF RowsOutside

\* A row starts before some uplink.
LEMMA SourcedBefore ==
    ASSUME NEW U, Ordered(U), NEW r, Sourced(U, r)
    PROVE  \E w \in U : r.start < w.at
<1>1. PICK w \in U : r \in deriveOne({}, w) \/ \E p \in U : p.at < w.at /\ r \in deriveOne({p}, w)
  BY DEF Sourced
<1>2. CASE r \in deriveOne({}, w)
  <2>1. Base(U, w, {})
    BY DEF Base
  <2> QED
    BY <1>2, <2>1, ShapeOf
<1>3. ASSUME NEW p \in U, p.at < w.at, r \in deriveOne({p}, w) PROVE r.start < w.at
  <2>1. Base(U, w, {p})
    BY <1>3 DEF Base
  <2> QED
    BY <1>3, <2>1, ShapeOf
<1> QED
  BY <1>1, <1>2, <1>3

\* Before the stretch of a poll that begins the table there are no rows.
LEMMA NoneBelow ==
    ASSUME NEW U, Ordered(U), NEW W, NEW R, Reconciled(U, W, R),
           NEW polled, NEW f, NEW t, NEW lo, NEW hi, PolledStretch(U, polled, f, t, lo, hi),
           lo <= f, \A v \in U : f <= v.at,
           NEW r \in R
    PROVE  lo <= r.start
<1>0. /\ \A v \in U : v.at \in Nat
      /\ r.start \in Int /\ W \subseteq U
      /\ f \in Int /\ t \in Int /\ lo \in Int /\ hi \in Int /\ lo <= hi
  BY DEF Ordered, Uplink, RainRow, Reconciled, PolledStretch
<1>1. (\E u \in U : r \in RowsOf(U, u)) \/ Stale(U, W, r)
  BY DEF Reconciled, Explained
<1>2. ASSUME NEW u \in U, r \in RowsOf(U, u) PROVE lo <= r.start
  <2>1. CASE u.at <= hi
    BY <1>2, <2>1 DEF PolledStretch
  <2>2. CASE hi < u.at
    <3>1. PICK z \in U : z.at = hi
      BY DEF PolledStretch
    <3>2. z.at < u.at => z.at <= r.start
      BY <1>2, RowsOfIs
    <3> QED
      BY <1>0, <2>2, <3>1, <3>2
  <2> QED
    BY <1>0, <2>1, <2>2
<1>3. CASE Stale(U, W, r)
  <2>1. PICK v \in W : /\ \A p \in U : p.at < v.at => p.at <= r.start
                       /\ (\E p \in U : p.at < v.at) \/ v.at <= r.start
    BY <1>3 DEF Stale
  <2>2. \E p \in U : p.at <= r.start
    BY <1>0, <2>1
  <2> QED
    BY <1>0, <2>2
<1> QED
  BY <1>1, <1>2, <1>3

\* A row that reaches into the stretch from below lies over an uplink that is
\* still pending.
LEMMA FromBelow ==
    ASSUME NEW U, Ordered(U), NEW W, NEW R, Reconciled(U, W, R),
           NEW polled, NEW f, NEW t, NEW lo, NEW hi, PolledStretch(U, polled, f, t, lo, hi),
           NEW r \in R, r.start < lo, lo < EndOf(r)
    PROVE  \E v \in W \ polled : r.start < v.at /\ v.at <= lo
<1>0. /\ \A v \in U : v.at \in Nat
      /\ r.start \in Int /\ W \subseteq U
      /\ f \in Int /\ t \in Int /\ lo \in Int /\ hi \in Int
      /\ \A v \in polled : f <= v.at
  BY DEF Ordered, Uplink, RainRow, Reconciled, PolledStretch
<1>1. ~(lo <= f /\ \A v \in U : f <= v.at)
  BY <1>0, NoneBelow
<1>2. PICK p \in U : p.at = lo /\ lo < f /\ \A v \in U : v.at < f => v.at <= lo
  BY <1>1 DEF PolledStretch
<1>3. PICK v \in W : r.start < v.at /\ v.at <= p.at
  BY <1>2 DEF Reconciled, Spans
<1>4. v \notin polled
  BY <1>0, <1>2, <1>3
<1> QED
  BY <1>2, <1>3, <1>4

\* The rows of a poll lie in its stretch.
LEMMA DerivedIs ==
    ASSUME NEW U, Ordered(U), NEW polled, NEW f, NEW t, NEW lo, NEW hi, PolledStretch(U, polled, f, t, lo, hi),
           NEW r \in Derived(U, f, hi)
    PROVE  \E u \in U : /\ r \in RowsOf(U, u) /\ f <= u.at /\ u.at <= hi
                        /\ lo <= r.start /\ r.start < hi
                        /\ r \in RainRow /\ r.start < EndOf(r) /\ EndOf(r) <= hi
<1>1. PICK u \in U : r \in RowsOf(U, u) /\ f <= u.at /\ u.at <= hi
  BY DEF Derived, Between
<1>2. lo <= r.start /\ r.start < hi
  BY <1>1 DEF PolledStretch
<1>3. r \in RainRow /\ r.start < EndOf(r) /\ EndOf(r) <= u.at
  BY <1>1, RowsOfIs
<1>4. u.at \in Nat /\ hi \in Int /\ EndOf(r) \in Int
  BY <1>3 DEF Ordered, Uplink, PolledStretch, RainRow, EndOf
<1>5. EndOf(r) <= hi
  BY <1>1, <1>3, <1>4
<1> QED
  BY <1>1, <1>2, <1>3, <1>5

\* After a poll the rows of every uplink that is not pending are there.
LEMMA HandledPresent ==
    ASSUME NEW U, Ordered(U), NEW W, NEW R, Reconciled(U, W, R),
           NEW polled, NEW f, NEW t, NEW lo, NEW hi, PolledStretch(U, polled, f, t, lo, hi)
    PROVE  Present(U, W \ polled, RowsOutside(R, lo, hi) \cup Derived(U, f, hi))
<1>0. /\ \A v \in U : v.at \in Nat
      /\ R \subseteq RainRow /\ W \subseteq U
      /\ f \in Int /\ t \in Int /\ lo \in Int /\ hi \in Int /\ t <= hi
      /\ \A v \in polled : f <= v.at /\ v.at <= t
  BY DEF Ordered, Uplink, RainRow, Reconciled, PolledStretch
<1> SUFFICES ASSUME NEW u \in U, u \notin W \ polled, \A p \in Pred(U, u) : p \notin W \ polled,
                    NEW r \in RowsOf(U, u), r \notin Derived(U, f, hi)
             PROVE  r \in R /\ ~(lo <= r.start /\ r.start < hi)
  BY DEF Present, RowsOutside
<1>1. r \in RainRow /\ r.start < u.at /\ \A v \in U : v.at < u.at => v.at <= r.start
  BY RowsOfIs
<1>2. r.start \in Int /\ u.at \in Nat
  BY <1>0, <1>1 DEF RainRow
<1>3. ~(f <= u.at /\ u.at <= hi)
  BY DEF Derived, Between
<1>4. \A p \in Pred(U, u) : p \in U /\ p.at < u.at /\ \A v \in U : v.at < u.at => v.at <= p.at
  BY DEF Pred
<1>5. ASSUME u \notin polled, \A p \in Pred(U, u) : p \notin polled PROVE r \in R
  <2>1. u \notin W /\ \A p \in Pred(U, u) : p \notin W
    BY <1>5
  <2> QED
    BY <2>1 DEF Reconciled, Present
<1>6. CASE u.at < f
  <2>1. u \notin polled /\ \A p \in Pred(U, u) : p \notin polled
    BY <1>0, <1>4, <1>6
  <2>2. PICK p \in U : p.at = lo /\ \A v \in U : v.at < f => v.at <= lo
    BY <1>0, <1>6 DEF PolledStretch
  <2>3. u.at <= lo
    BY <1>6, <2>2
  <2> QED
    BY <1>0, <1>1, <1>2, <1>5, <2>1, <2>3
<1>7. CASE hi < u.at
  <2>1. PICK z \in U : z.at = hi
    BY DEF PolledStretch
  <2>2. t < hi
    BY <1>0, <1>2, <1>7 DEF PolledStretch
  <2>3. u \notin polled
    BY <1>0, <1>2, <1>7, <2>2
  <2>4. \A p \in Pred(U, u) : hi <= p.at
    BY <1>4, <1>7, <2>1
  <2>5. \A p \in Pred(U, u) : p \notin polled
    BY <1>0, <1>4, <2>2, <2>4
  <2>6. hi <= r.start
    BY <1>1, <1>7, <2>1
  <2> QED
    BY <1>0, <1>2, <1>5, <2>3, <2>5, <2>6
<1> QED
  BY <1>0, <1>2, <1>3, <1>6, <1>7

\* After a poll a row that one derivation would not give is beside a pending uplink.
LEMMA HandledExplained ==
    ASSUME NEW U, Ordered(U), NEW W, NEW R, Reconciled(U, W, R),
           NEW polled, NEW f, NEW t, NEW lo, NEW hi, PolledStretch(U, polled, f, t, lo, hi)
    PROVE  Explained(U, W \ polled, RowsOutside(R, lo, hi) \cup Derived(U, f, hi))
<1>0. /\ \A v \in U : v.at \in Nat
      /\ R \subseteq RainRow /\ W \subseteq U
      /\ f \in Int /\ t \in Int /\ lo \in Int /\ hi \in Int /\ t <= hi
      /\ \A v \in polled : f <= v.at /\ v.at <= t
  BY DEF Ordered, Uplink, RainRow, Reconciled, PolledStretch
<1>1. ASSUME NEW r \in Derived(U, f, hi)
      PROVE  Sourced(U, r) /\ \E u \in U : r \in RowsOf(U, u)
  <2>1. PICK u \in U : r \in RowsOf(U, u)
    BY DerivedIs
  <2> QED
    BY <2>1, RowsOfIs
<1>2. ASSUME NEW r \in R, ~(lo <= r.start /\ r.start < hi)
      PROVE  Sourced(U, r) /\ ((\E u \in U : r \in RowsOf(U, u)) \/ Stale(U, W \ polled, r))
  <2>1. Sourced(U, r) /\ ((\E u \in U : r \in RowsOf(U, u)) \/ Stale(U, W, r))
    BY DEF Reconciled, Explained
  <2>2. SUFFICES ASSUME Stale(U, W, r) PROVE Stale(U, W \ polled, r)
    BY <2>1
  <2>3. PICK v \in W : /\ \A p \in U : p.at < v.at => p.at <= r.start
                       /\ \A w \in U : w.at > v.at => w.at > r.start
                       /\ (\E p \in U : p.at < v.at) \/ v.at <= r.start
    BY <2>2 DEF Stale
  <2>4. r.start \in Int /\ v.at \in Nat
    BY <1>0 DEF RainRow
  <2>5. ASSUME v \in polled PROVE FALSE
    <3>1. f <= v.at /\ v.at <= t
      BY <1>0, <2>5
    <3>2. r.start < hi
      <4>1. PICK z \in U : z.at = hi
        BY DEF PolledStretch
      <4>2. CASE t < hi
        BY <1>0, <2>3, <2>4, <3>1, <4>1, <4>2
      <4>3. CASE \A u \in U : u.at <= t
        <5>1. PICK w \in U : r.start < w.at
          BY <2>1, SourcedBefore
        <5> QED
          BY <1>0, <2>4, <4>3, <5>1
      <4> QED
        BY <4>2, <4>3 DEF PolledStretch
    <3>3. lo <= r.start
      <4>1. CASE lo <= f /\ \A x \in U : f <= x.at
        BY <4>1, NoneBelow
      <4>2. ASSUME NEW p \in U, p.at = lo, lo < f PROVE lo <= r.start
        BY <1>0, <2>3, <2>4, <3>1, <4>2
      <4> QED
        BY <4>1, <4>2 DEF PolledStretch
    <3> QED
      BY <1>2, <3>2, <3>3
  <2> QED
    BY <2>3, <2>5 DEF Stale
<1> QED
  BY <1>1, <1>2 DEF Explained, RowsOutside

\* After a poll a row lies over an uplink only if one is pending there.
LEMMA HandledSpans ==
    ASSUME NEW U, Ordered(U), NEW W, NEW R, Reconciled(U, W, R),
           NEW polled, NEW f, NEW t, NEW lo, NEW hi, PolledStretch(U, polled, f, t, lo, hi)
    PROVE  Spans(U, W \ polled, RowsOutside(R, lo, hi) \cup Derived(U, f, hi))
<1>0. /\ \A v \in U : v.at \in Nat
      /\ R \subseteq RainRow /\ W \subseteq U
      /\ f \in Int /\ t \in Int /\ lo \in Int /\ hi \in Int /\ t <= hi /\ lo <= f
      /\ \A v \in polled : f <= v.at /\ v.at <= t
  BY DEF Ordered, Uplink, RainRow, Reconciled, PolledStretch
<1>1. ASSUME NEW r \in Derived(U, f, hi), NEW x \in U, r.start < x.at, x.at < EndOf(r)
      PROVE  FALSE
  <2>1. PICK u \in U : r \in RowsOf(U, u)
    BY DerivedIs
  <2>2. /\ r \in RainRow /\ EndOf(r) <= u.at
        /\ \A v \in U : v.at < u.at => v.at <= r.start
    BY <2>1, RowsOfIs
  <2>3. r.start \in Int /\ EndOf(r) \in Int /\ u.at \in Nat /\ x.at \in Nat
    BY <1>0, <2>2 DEF RainRow, EndOf
  <2>4. x.at < u.at
    BY <1>1, <2>2, <2>3
  <2>5. x.at <= r.start
    BY <2>2, <2>4
  <2> QED
    BY <1>1, <2>3, <2>5
<1>2. ASSUME NEW r \in R, ~(lo <= r.start /\ r.start < hi),
             NEW x \in U, r.start < x.at, x.at < EndOf(r)
      PROVE  \E v \in W \ polled : r.start < v.at /\ v.at <= x.at
  <2>1. PICK v \in W : r.start < v.at /\ v.at <= x.at
    BY <1>2 DEF Reconciled, Spans
  <2>2. r.start \in Int /\ EndOf(r) \in Int /\ x.at \in Nat /\ v.at \in Nat
    BY <1>0 DEF RainRow, EndOf
  <2>3. CASE v \in polled
    <3>1. f <= v.at /\ v.at <= t
      BY <1>0, <2>3
    <3>2. r.start < lo /\ lo < EndOf(r)
      BY <1>0, <1>2, <2>1, <2>2, <3>1
    <3>3. PICK y \in W \ polled : r.start < y.at /\ y.at <= lo
      BY <3>2, FromBelow
    <3>4. y.at \in Nat
      BY <1>0
    <3>5. y.at <= x.at
      BY <1>0, <2>1, <2>2, <3>1, <3>3, <3>4
    <3> QED
      BY <3>3, <3>5
  <2> QED
    BY <2>1, <2>3
<1> QED
  BY <1>1, <1>2 DEF Spans, RowsOutside

\* After a poll two rows overlap only over a pending uplink.
LEMMA HandledOverlaps ==
    ASSUME NEW U, Ordered(U), NEW W, NEW R, Reconciled(U, W, R),
           NEW polled, NEW f, NEW t, NEW lo, NEW hi, PolledStretch(U, polled, f, t, lo, hi)
    PROVE  Overlaps(W \ polled, RowsOutside(R, lo, hi) \cup Derived(U, f, hi))
<1>0. /\ \A v \in U : v.at \in Nat
      /\ R \subseteq RainRow /\ W \subseteq U
      /\ f \in Int /\ t \in Int /\ lo \in Int /\ hi \in Int /\ t <= hi /\ lo <= f
      /\ \A v \in polled : f <= v.at /\ v.at <= t
  BY DEF Ordered, Uplink, RainRow, Reconciled, PolledStretch
<1>1. ASSUME NEW r \in Derived(U, f, hi), NEW s \in Derived(U, f, hi),
             r.start < s.start, s.start < EndOf(r)
      PROVE  FALSE
  <2>1. PICK u \in U : r \in RowsOf(U, u)
    BY DerivedIs
  <2>2. PICK w \in U : s \in RowsOf(U, w)
    BY DerivedIs
  <2>3. /\ r \in RainRow /\ EndOf(r) <= u.at /\ r.start < u.at
        /\ \A v \in U : v.at < u.at => v.at <= r.start
        /\ \A d \in RowsOf(U, u) : d = r \/ Disjoint(r, d)
    BY <2>1, RowsOfIs
  <2>4. /\ s \in RainRow /\ s.start < w.at /\ s.start < EndOf(s)
        /\ \A v \in U : v.at < w.at => v.at <= s.start
    BY <2>2, RowsOfIs
  <2>5. r.start \in Int /\ EndOf(r) \in Int /\ s.start \in Int /\ EndOf(s) \in Int
        /\ u.at \in Nat /\ w.at \in Nat
    BY <1>0, <2>3, <2>4 DEF RainRow, EndOf
  <2>6. CASE u.at < w.at
    BY <1>1, <2>3, <2>4, <2>5, <2>6
  <2>7. CASE w.at < u.at
    BY <1>1, <2>3, <2>4, <2>5, <2>7
  <2>8. CASE w.at = u.at
    <3>1. w = u
      BY <2>8 DEF Ordered
    <3>2. s = r \/ Disjoint(r, s)
      BY <2>2, <2>3, <3>1
    <3>3. s # r
      BY <1>1, <2>5
    <3>4. EndOf(r) <= s.start \/ EndOf(s) <= r.start
      BY <3>2, <3>3 DEF Disjoint, EndOf
    <3> QED
      BY <1>1, <2>4, <2>5, <3>4
  <2> QED
    BY <2>5, <2>6, <2>7, <2>8
<1>2. ASSUME NEW r \in R, r.start < lo, NEW y \in Int, lo <= y, y < EndOf(r)
      PROVE  \E v \in W \ polled : r.start < v.at /\ v.at <= y
  <2>1. r.start \in Int /\ EndOf(r) \in Int
    BY <1>0 DEF RainRow, EndOf
  <2>2. lo < EndOf(r)
    BY <1>0, <1>2, <2>1
  <2>3. PICK v \in W \ polled : r.start < v.at /\ v.at <= lo
    BY <1>2, <2>2, FromBelow
  <2>4. v.at \in Nat
    BY <1>0
  <2>5. v.at <= y
    BY <1>0, <1>2, <2>3, <2>4
  <2> QED
    BY <2>3, <2>5
<1>3. ASSUME NEW r \in Derived(U, f, hi), NEW s \in R, ~(lo <= s.start /\ s.start < hi),
             r.start < s.start, s.start < EndOf(r)
      PROVE  FALSE
  <2>1. lo <= r.start /\ r \in RainRow /\ EndOf(r) <= hi
    BY DerivedIs
  <2>2. r.start \in Int /\ EndOf(r) \in Int /\ s.start \in Int
    BY <1>0, <2>1 DEF RainRow, EndOf
  <2> QED
    BY <1>0, <1>3, <2>1, <2>2
<1>4. ASSUME NEW r \in R, ~(lo <= r.start /\ r.start < hi), NEW s \in Derived(U, f, hi),
             r.start < s.start, s.start < EndOf(r)
      PROVE  \E v \in W \ polled : r.start < v.at /\ v.at <= s.start
  <2>1. lo <= s.start /\ s.start < hi /\ s \in RainRow
    BY DerivedIs
  <2>2. r.start \in Int /\ s.start \in Int
    BY <1>0, <2>1 DEF RainRow
  <2>3. r.start < lo
    BY <1>0, <1>4, <2>1, <2>2
  <2> QED
    BY <1>2, <1>4, <2>1, <2>2, <2>3
<1>5. ASSUME NEW r \in R, ~(lo <= r.start /\ r.start < hi), NEW s \in R,
             r.start < s.start, s.start < EndOf(r)
      PROVE  \E v \in W \ polled : r.start < v.at /\ v.at <= s.start
  <2>1. PICK v \in W : r.start < v.at /\ v.at <= s.start
    BY <1>5 DEF Reconciled, Overlaps
  <2>2. r.start \in Int /\ s.start \in Int /\ v.at \in Nat
    BY <1>0 DEF RainRow
  <2>3. CASE v \in polled
    <3>1. f <= v.at /\ v.at <= t
      BY <1>0, <2>3
    <3>2. r.start < lo /\ lo <= s.start
      BY <1>0, <1>5, <2>1, <2>2, <3>1
    <3> QED
      BY <1>2, <1>5, <2>2, <3>2
  <2> QED
    BY <2>1, <2>3
<1> QED
  BY <1>1, <1>3, <1>4, <1>5 DEF Overlaps, RowsOutside

\* Handling a poll leaves the rows reconciled with what is still pending.
LEMMA Handled ==
    ASSUME NEW U, Ordered(U), NEW W, NEW R, Reconciled(U, W, R),
           NEW polled, NEW f, NEW t, NEW lo, NEW hi, PolledStretch(U, polled, f, t, lo, hi)
    PROVE  Reconciled(U, W \ polled, RowsOutside(R, lo, hi) \cup Derived(U, f, hi))
<1>1. R \subseteq RainRow /\ W \subseteq U
  BY DEF Reconciled
<1>2. \A r \in Derived(U, f, hi) : r \in RainRow
  BY DerivedIs
<1>3. RowsOutside(R, lo, hi) \cup Derived(U, f, hi) \subseteq RainRow
  BY <1>1, <1>2 DEF RowsOutside
<1> QED
  BY <1>1, <1>3, HandledPresent, HandledExplained, HandledSpans, HandledOverlaps DEF Reconciled

\* The row that a deleted one makes way for.
LEMMA Accompanied ==
    ASSUME NEW U, Ordered(U), NEW W, NEW R, Reconciled(U, W, R),
           NEW polled, NEW f, NEW t, NEW lo, NEW hi, PolledStretch(U, polled, f, t, lo, hi),
           \A u \in U : ~u.fault,
           NEW r \in R, lo <= r.start, r.start < hi,
           \A d \in Derived(U, f, hi) : d.start # r.start
    PROVE  \E s \in Derived(U, f, hi) : s \notin R /\ ~Disjoint(r, s)
<1>0. /\ \A v \in U : v \in Uplink /\ v.at \in Nat /\ v.interval \in Nat
      /\ r \in RainRow /\ r.start \in Int /\ EndOf(r) \in Int /\ W \subseteq U /\ R \subseteq RainRow
      /\ f \in Int /\ t \in Int /\ lo \in Int /\ hi \in Int
  BY DEF Ordered, Uplink, RainRow, Reconciled, PolledStretch, EndOf
<1>1. PICK z \in U : z.at > r.start /\ \A v \in U : v.at > r.start => z.at <= v.at
  <2> DEFINE T == {v.at : v \in {x \in U : x.at > r.start}}
  <2>1. PICK y \in U : y.at = hi
    BY DEF PolledStretch
  <2>2. y.at \in T
    BY <1>0, <2>1
  <2>3. T \subseteq Nat /\ T # {}
    BY <1>0, <2>2
  <2>4. PICK x \in T : \A k \in T : x <= k
    <3> HIDE DEF T
    <3> QED
      BY <2>3, LeastNatural
  <2> QED
    BY <2>4
<1>2. f <= z.at /\ z.at <= hi
  <2>1. PICK y \in U : y.at = hi
    BY DEF PolledStretch
  <2>2. z.at <= hi
    BY <1>0, <1>1, <2>1
  <2>3. ASSUME z.at < f PROVE FALSE
    BY <1>0, <1>1, <2>3 DEF PolledStretch
  <2> QED
    BY <1>0, <2>2, <2>3
<1>3. \A s \in RowsOf(U, z) : s \in Derived(U, f, hi)
  BY <1>2 DEF Derived, Between
<1>4. r \notin RowsOf(U, z)
  BY <1>3
<1> DEFINE q == Pred(U, z)
<1>5. /\ Base(U, z, q)
      /\ \/ q = {} /\ \A v \in U : ~(v.at < z.at)
         \/ \E p \in U : /\ q = {p} /\ p.at < z.at
                         /\ \A v \in U : v.at < z.at => v.at <= p.at
  BY <1>0, PredBase, PredIs
<1>6. q = {} => z.reset
  <2> SUFFICES ASSUME q = {}, ~z.reset PROVE FALSE
    OBVIOUS
  <2>1. \A v \in U : z.at <= v.at
    BY <1>0, <1>5
  <2>2. \A v \in U : ~(v.at <= r.start)
    BY <1>0, <1>1, <2>1
  <2>3. RowsOf(U, z) = {}
    BY DeriveFirst DEF RowsOf
  <2>4. ASSUME NEW u \in U, r \in RowsOf(U, u) PROVE FALSE
    <3>1. u.at # z.at
      BY <1>4, <2>4 DEF Ordered
    <3>2. z.at < u.at
      BY <1>0, <2>1, <3>1
    <3>3. z.at <= r.start
      BY <2>4, <3>2, RowsOfIs
    <3> QED
      BY <2>2, <3>3
  <2>5. Stale(U, W, r)
    BY <2>4 DEF Reconciled, Explained
  <2>6. PICK v \in W : /\ \A p \in U : p.at < v.at => p.at <= r.start
                       /\ (\E p \in U : p.at < v.at) \/ v.at <= r.start
    BY <2>5 DEF Stale
  <2> QED
    BY <1>0, <2>2, <2>6
<1>7. \A p \in U : p.at < z.at => p.at <= r.start /\ p.at <= z.at - z.interval
  BY <1>0, <1>1 DEF Ordered
<1>8. PICK a, m : Stretch(q, z, a, m)
  <2>1. z \in Uplink /\ 1 <= z.interval /\ z.interval <= z.at
    BY DEF Ordered
  <2>2. (q = {} /\ z.reset) \/ \E p \in Uplink : q = {p} /\ p.at <= z.at - z.interval
    BY <1>0, <1>5, <1>6, <1>7
  <2> HIDE DEF q
  <2> QED
    BY <2>1, <2>2, StretchIs
<1>9. PICK first \in deriveOne(q, z) : first.start = a /\ EndOf(first) \in {z.at - 1, z.at}
  <2> HIDE DEF q
  <2> QED
    BY <1>0, <1>8, StretchFull
<1>10. PICK last \in deriveOne(q, z) : EndOf(last) = z.at
  <2> HIDE DEF q
  <2> QED
    BY <1>0, <1>8, StretchFull
<1>11. first \in RowsOf(U, z) /\ last \in RowsOf(U, z)
  BY DEF RowsOf
<1>12. ASSUME NEW s \in RowsOf(U, z), r.start < EndOf(s), s.start < EndOf(r)
       PROVE  s \notin R /\ ~Disjoint(r, s)
  <2>1. s \in RainRow /\ s.start < z.at /\ s.start < EndOf(s)
        /\ \A v \in U : v.at < z.at => v.at <= s.start
    BY RowsOfIs
  <2>2. s.start \in Int /\ EndOf(s) \in Int /\ s.start # r.start
    BY <1>3, <2>1 DEF RainRow, EndOf
  <2>3. ~(EndOf(r) <= s.start \/ EndOf(s) <= r.start)
    BY <1>0, <1>12, <2>2
  <2>4. ~Disjoint(r, s)
    BY <2>3 DEF Disjoint, EndOf
  <2>5. ASSUME s \in R PROVE FALSE
    <3>1. CASE r.start < s.start
      <4>1. PICK v \in W : r.start < v.at /\ v.at <= s.start
        BY <1>12, <2>5, <3>1 DEF Reconciled, Overlaps
      <4> QED
        BY <1>0, <1>1, <2>1, <2>2, <4>1
    <3>2. CASE s.start < r.start
      <4>1. PICK v \in W : s.start < v.at /\ v.at <= r.start
        BY <1>12, <2>5, <3>2 DEF Reconciled, Overlaps
      <4> QED
        BY <1>0, <1>1, <2>1, <2>2, <4>1
    <3> QED
      BY <1>0, <2>2, <3>1, <3>2
  <2> QED
    BY <2>4, <2>5
<1>13. last.start < z.at /\ last.start \in Int /\ first.start \in Int /\ EndOf(first) \in Int
       /\ first.start < EndOf(first)
  BY <1>11, RowsOfIs DEF RainRow, EndOf
<1>14. ASSUME z.at <= EndOf(r) PROVE \E s \in RowsOf(U, z) : r.start < EndOf(s) /\ s.start < EndOf(r)
  <2>1. r.start < EndOf(last) /\ last.start < EndOf(r)
    BY <1>0, <1>1, <1>10, <1>13, <1>14
  <2> QED
    BY <1>11, <2>1
<1>15. ASSUME NEW w \in U, NEW o, Base(U, w, o), r \in deriveOne(o, w)
       PROVE  \E s \in RowsOf(U, z) : r.start < EndOf(s) /\ s.start < EndOf(r)
  <2>1. PICK b, k : /\ Stretch(o, w, b, k)
                    /\ b <= r.start /\ r.start < w.at /\ r.start < EndOf(r)
                    /\ EndOf(r) \in {w.at - 1, w.at} /\ (EndOf(r) = w.at - 1 => r.start = b)
    BY <1>15, ShapeOf
  <2>2. z.at <= w.at /\ w.at \in Nat /\ z.at \in Nat
    BY <1>0, <1>1, <2>1
  <2>3. CASE z.at < w.at \/ EndOf(r) = w.at
    <3>1. z.at <= EndOf(r)
      BY <1>0, <2>1, <2>2, <2>3
    <3> QED
      BY <1>14, <3>1
  <2>4. CASE z.at = w.at /\ EndOf(r) = z.at - 1
    <3>1. w = z /\ r.start = b
      BY <2>1, <2>4 DEF Ordered
    <3>2. CASE a <= r.start
      <4>1. r.start < EndOf(first) /\ first.start < EndOf(r)
        BY <1>0, <1>9, <1>13, <2>1, <2>2, <2>4, <3>2
      <4> QED
        BY <1>11, <4>1
    <3>3. CASE r.start < a
      <4>1. a = z.at - z.interval
        <5>1. ASSUME NEW p \in q, a = p.at PROVE FALSE
          <6>1. p.at \in Nat /\ p.at <= r.start
            BY <1>0, <1>5, <1>7
          <6> QED
            BY <1>0, <3>3, <5>1, <6>1
        <5> HIDE DEF q
        <5> QED
          BY <1>8, <5>1 DEF Stretch
      <4>2. PICK p \in o : b = p.at
        <5>1. b # z.at - z.interval
          BY <1>0, <3>1, <3>3, <4>1
        <5> QED
          BY <2>1, <3>1, <5>1 DEF Stretch
      <4>3. o = {p} /\ p \in U /\ p.at < z.at /\ p.at = r.start
        BY <1>15, <3>1, <4>2 DEF Base
      <4>4. PICK x \in U : /\ q = {x} /\ x.at < z.at
                           /\ \A v \in U : v.at < z.at => v.at <= x.at
        BY <1>5, <4>3
      <4>5. p.at <= x.at /\ x.at <= r.start
        BY <1>7, <4>3, <4>4
      <4>6. p.at = x.at
        BY <1>0, <4>3, <4>5
      <4>7. p = x
        BY <4>3, <4>6 DEF Ordered
      <4>8. r \in RowsOf(U, z)
        BY <1>15, <3>1, <4>3, <4>4, <4>7 DEF RowsOf
      <4> QED
        BY <1>4, <4>8
    <3>4. a \in Nat
      BY <1>8 DEF Stretch
    <3> QED
      BY <1>0, <3>2, <3>3, <3>4
  <2> QED
    BY <2>1, <2>2, <2>3, <2>4
<1>16. \E s \in RowsOf(U, z) : r.start < EndOf(s) /\ s.start < EndOf(r)
  <2>1. Sourced(U, r)
    BY DEF Reconciled, Explained
  <2>2. PICK w \in U : r \in deriveOne({}, w) \/ \E p \in U : p.at < w.at /\ r \in deriveOne({p}, w)
    BY <2>1 DEF Sourced
  <2>3. CASE r \in deriveOne({}, w)
    <3>1. Base(U, w, {})
      BY DEF Base
    <3> QED
      BY <1>15, <2>3, <3>1
  <2>4. ASSUME NEW p \in U, p.at < w.at, r \in deriveOne({p}, w)
        PROVE  \E s \in RowsOf(U, z) : r.start < EndOf(s) /\ s.start < EndOf(r)
    <3>1. Base(U, w, {p})
      BY <2>4 DEF Base
    <3> QED
      BY <1>15, <2>4, <3>1
  <2> QED
    BY <2>2, <2>3, <2>4
<1> QED
  BY <1>3, <1>12, <1>16

------------------------------------------------------------------------------
(* The steps.                                                              *)

\* Some of the uplinks of a node are in order too.
LEMMA OrderedPart ==
    ASSUME NEW V, Ordered(V), NEW U \in SUBSET V
    PROVE  Ordered(U)
BY DEF Ordered

\* The node is switched on for the first time.
LEMMA InitInv == GaugeInit => GaugeInv
<1> SUFFICES ASSUME GaugeInit PROVE GaugeInv
  OBVIOUS
<1>1. NodeClock
  BY GaugeAssumption DEF GaugeInit, NodeClock, Aired
<1>2. Ordered(Aired) /\ Honest /\ FirstBoot
  BY DEF GaugeInit, Ordered, Honest, FirstBoot, Aired
<1>3. Reconciled(uplinks, pending, rainfall)
  BY DEF GaugeInit, Reconciled, Present, Explained, Spans, Overlaps
<1> QED
  BY <1>1, <1>2, <1>3 DEF GaugeInv, GaugeInit

\* A node that loses its counter says so with its next uplink.
LEMMA RebootInv == GaugeInv /\ Reboot => GaugeInv'
<1> SUFFICES ASSUME GaugeInv, Reboot PROVE GaugeInv'
  OBVIOUS
<1>0. /\ Aired' = Aired /\ uplinks' = uplinks /\ pending' = pending /\ rainfall' = rainfall
      /\ unseen' = unseen /\ fallen' = fallen /\ now' = now
  BY DEF Reboot, Aired
<1>1. /\ now \in Nat /\ now <= MaxTime /\ fallen \in Nat /\ reboots \in Nat
      /\ \A u \in Aired : u.at <= node.lastTx /\ u.at \in Nat /\ u.fell \in Nat /\ u.fell <= fallen
      /\ node.lastTx \in Nat /\ node.lastTx <= now
  BY GaugeAssumption DEF GaugeInv, NodeClock, Ordered, Uplink, Honest
<1> DEFINE off == [tips |-> 0, lastTx |-> now, lastTips |-> 0, booted |-> FALSE]
<1>2. node' = off /\ reboots' = reboots + 1 /\ reboots < MaxReboots
  BY DEF Reboot
<1>3. off \in [tips : Nat, lastTx : Nat, lastTips : Nat, booted : BOOLEAN]
      /\ off.tips = 0 /\ off.lastTx = now
  BY <1>1
<1> HIDE DEF off
<1>4. NodeClock'
  <2>1. reboots' \in 0 .. MaxReboots
    BY <1>1, <1>2, GaugeAssumption
  <2>2. now' \in 0 .. MaxTime /\ fallen' \in Nat
    BY <1>0 DEF GaugeInv, NodeClock
  <2>3. node'.lastTx <= now' /\ \A u \in Aired' : u.at <= node'.lastTx
    BY <1>0, <1>1, <1>2, <1>3
  <2> QED
    BY <1>2, <1>3, <2>1, <2>2, <2>3 DEF NodeClock
<1>5. Ordered(Aired)'
  BY <1>0 DEF GaugeInv, Ordered
<1>6. Honest'
  <2>1. \A p \in Aired : node'.tips <= fallen' - p.fell
    BY <1>0, <1>1, <1>2, <1>3
  <2>2. node'.tips <= fallen'
    BY <1>0, <1>1, <1>2, <1>3
  <2> QED
    BY <1>0, <2>1, <2>2 DEF GaugeInv, Honest, Restarted
<1>7. FirstBoot'
  BY <1>1, <1>2 DEF FirstBoot
<1>8. Reconciled(uplinks', pending', rainfall')
  BY <1>0 DEF GaugeInv
<1> QED
  BY <1>0, <1>4, <1>5, <1>6, <1>7, <1>8 DEF GaugeInv

\* Ingest stores an uplink, in whatever order they arrive.
LEMMA StoreInv == ASSUME GaugeInv, NEW u \in air, StoreUplink(u) PROVE GaugeInv'
<1>0. /\ Aired' = Aired /\ node' = node /\ reboots' = reboots /\ fallen' = fallen /\ now' = now
      /\ unseen' = unseen /\ rainfall' = rainfall
      /\ uplinks' = uplinks \cup {u} /\ pending' = pending \cup {u}
  BY DEF StoreUplink, Aired
<1>1. NodeClock' /\ Ordered(Aired)' /\ FirstBoot'
  BY <1>0 DEF GaugeInv, NodeClock, Ordered, FirstBoot
<1>2. Honest'
  BY <1>0 DEF GaugeInv, Honest, Restarted
<1>3. Ordered(uplinks) /\ Ordered(uplinks \cup {u})
  <2>1. uplinks \in SUBSET Aired /\ uplinks \cup {u} \in SUBSET Aired /\ Ordered(Aired)
    BY DEF Aired, GaugeInv
  <2> QED
    BY <2>1, OrderedPart
<1>4. Reconciled(uplinks \cup {u}, pending \cup {u}, rainfall)
  BY <1>3, Stored DEF GaugeInv
<1> QED
  BY <1>0, <1>1, <1>2, <1>4 DEF GaugeInv

\* The rainfall stage handles the uplinks of a poll: every row it deletes makes way
\* for one that covers the same time.
LEMMA HandleInv == ASSUME GaugeInv, NEW polled \in SUBSET pending, polled # {}, Handle(polled) PROVE GaugeInv'
<1> DEFINE f == Min({u.at : u \in polled})
           t == Max({u.at : u \in polled})
<1>0. /\ Aired' = Aired /\ node' = node /\ reboots' = reboots /\ fallen' = fallen /\ now' = now
      /\ uplinks' = uplinks /\ pending' = pending \ polled /\ rainfall' = reconcile(f, t)
  BY DEF Handle, Aired
<1>1. NodeClock' /\ Ordered(Aired)' /\ FirstBoot'
  BY <1>0 DEF GaugeInv, NodeClock, Ordered, FirstBoot
<1>2. Honest'
  BY <1>0 DEF GaugeInv, Honest, Restarted
<1>3. Ordered(uplinks)
  <2>1. uplinks \in SUBSET Aired /\ Ordered(Aired)
    BY DEF Aired, GaugeInv
  <2> QED
    BY <2>1, OrderedPart
<1>4. Reconciled(uplinks, pending, rainfall)
  BY DEF GaugeInv
<1>5. PICK lo, hi : /\ PolledStretch(uplinks, polled, f, t, lo, hi)
                    /\ reconcile(f, t) = RowsOutside(rainfall, lo, hi) \cup Derived(uplinks, f, hi)
  <2>1. rainfall \subseteq RainRow /\ polled \in SUBSET uplinks
    BY <1>4 DEF Reconciled
  <2>2. node.lastTx \in Nat /\ \A u \in uplinks : u.at <= node.lastTx
    BY DEF GaugeInv, NodeClock, Aired
  <2>3. f = Min({u.at : u \in polled}) /\ t = Max({u.at : u \in polled})
    OBVIOUS
  <2> HIDE DEF f, t
  <2> QED
    BY <1>3, <2>1, <2>2, <2>3, ReconcileIs
<1> HIDE DEF f, t
<1>6. rainfall' = RowsOutside(rainfall, lo, hi) \cup Derived(uplinks, f, hi)
  BY <1>0, <1>5
<1>7. Reconciled(uplinks, pending \ polled, rainfall')
  BY <1>3, <1>4, <1>5, <1>6, Handled
<1>8. (\A u \in uplinks : ~u.fault) => unseen' = {}
  <2> SUFFICES ASSUME \A u \in uplinks : ~u.fault, NEW r \in unseen' PROVE FALSE
    OBVIOUS
  <2>1. unseen = {}
    BY DEF GaugeInv
  <2>2. /\ r \in rainfall /\ \A s \in rainfall' : s.start # r.start
        /\ \A s \in rainfall' \ rainfall : Disjoint(r, s)
    BY <2>1 DEF Handle
  <2>3. lo <= r.start /\ r.start < hi
    <3>1. r \notin rainfall'
      BY <2>2
    <3> QED
      BY <1>6, <2>2, <3>1 DEF RowsOutside
  <2>4. \A d \in Derived(uplinks, f, hi) : d.start # r.start
    BY <1>6, <2>2
  <2>5. PICK s \in Derived(uplinks, f, hi) : s \notin rainfall /\ ~Disjoint(r, s)
    BY <1>3, <1>4, <1>5, <2>2, <2>3, <2>4, Accompanied
  <2> QED
    BY <1>6, <2>2, <2>5
<1> QED
  BY <1>0, <1>1, <1>2, <1>7, <1>8 DEF GaugeInv

\* The node wakes, counts what fell and transmits when it is due.
LEMMA WakeInv == ASSUME GaugeInv, NEW n \in 0 .. 1, NEW fault \in BOOLEAN, Wake(n, fault) PROVE GaugeInv'
<1>0. /\ now \in Nat /\ now <= MaxTime /\ fallen \in Nat /\ n \in Nat
      /\ node.tips \in Nat /\ node.lastTx \in Nat /\ node.booted \in BOOLEAN /\ node.lastTx <= now
      /\ node \in [tips : Nat, lastTx : Nat, lastTips : Nat, booted : BOOLEAN]
      /\ \A p \in Aired : /\ p \in Uplink /\ p.at \in Nat /\ p.tips \in Nat /\ p.fell \in Nat
                          /\ p.at <= node.lastTx
  BY GaugeAssumption DEF GaugeInv, NodeClock, Ordered, Uplink
<1>1. /\ \A p \in Aired : p.tips <= p.fell /\ p.fell <= fallen
      /\ node.tips <= fallen
      /\ \A p \in Aired :
           \/ node.booted /\ p.tips <= node.tips /\ node.tips - p.tips <= fallen - p.fell
           \/ node.tips <= fallen - p.fell
  BY DEF GaugeInv, Honest
<1> DEFINE t == now + 1
           tips == node.tips + n
           after == fallen + n
           u == [at |-> t, tips |-> tips, interval |-> t - node.lastTx,
                 reset |-> ~node.booted, fault |-> fault, fell |-> after]
           sent == [tips |-> tips, lastTx |-> t, lastTips |-> tips, booted |-> TRUE]
           quiet == [node EXCEPT !.tips = tips]
<1>2. /\ now < MaxTime /\ now' = t /\ fallen' = after
      /\ uplinks' = uplinks /\ reboots' = reboots /\ pending' = pending /\ rainfall' = rainfall
      /\ unseen' = unseen
  BY DEF Wake
<1>3. \/ node' = sent /\ air' = air \cup {u}
      \/ node' = quiet /\ air' = air
  BY DEF Wake
<1>4. t \in Nat /\ t \in 0 .. MaxTime /\ node.lastTx < t /\ tips \in Nat /\ after \in Nat
      /\ t - node.lastTx \in Nat /\ 1 <= t - node.lastTx /\ t - node.lastTx <= t
      /\ t - (t - node.lastTx) = node.lastTx
      /\ tips <= after /\ fallen <= after /\ node.tips <= tips /\ now <= t
  BY <1>0, <1>1, <1>2, GaugeAssumption
<1>5. /\ u \in Uplink /\ u.at = t /\ u.tips = tips /\ u.interval = t - node.lastTx
      /\ u.reset = ~node.booted /\ u.fell = after
  <2> HIDE DEF t, tips, after
  <2> QED
    BY <1>0, <1>4 DEF Uplink
<1>6. /\ sent \in [tips : Nat, lastTx : Nat, lastTips : Nat, booted : BOOLEAN]
      /\ sent.tips = tips /\ sent.lastTx = t /\ sent.booted
      /\ quiet \in [tips : Nat, lastTx : Nat, lastTips : Nat, booted : BOOLEAN]
      /\ quiet.tips = tips /\ quiet.lastTx = node.lastTx /\ quiet.booted = node.booted
  <2> HIDE DEF t, tips
  <2> QED
    BY <1>0, <1>4
<1>14. /\ tips = node.tips + n /\ after = fallen + n
       /\ \A p \in Aired : /\ tips - p.tips = (node.tips - p.tips) + n
                           /\ after - p.fell = (fallen - p.fell) + n
  BY <1>0
<1> HIDE DEF t, tips, after, u, sent, quiet
<1>7. /\ node' \in [tips : Nat, lastTx : Nat, lastTips : Nat, booted : BOOLEAN]
      /\ node'.tips = tips /\ node.lastTx <= node'.lastTx /\ node'.lastTx <= t
      /\ node.booted => node'.booted
  BY <1>0, <1>3, <1>4, <1>6
<1>8. Aired' = Aired \/ (Aired' = Aired \cup {u} /\ node' = sent)
  BY <1>2, <1>3 DEF Aired
<1>9. NodeClock'
  <2>1. \A x \in Aired' : x.at <= node'.lastTx
    <3> TAKE x \in Aired'
    <3>1. CASE x \in Aired
      BY <1>0, <1>7, <3>1
    <3>2. CASE x = u /\ node' = sent
      BY <1>4, <1>5, <1>6, <3>2
    <3> QED
      BY <1>8, <3>1, <3>2
  <2>2. reboots' \in 0 .. MaxReboots
    BY <1>2 DEF GaugeInv, NodeClock
  <2> QED
    BY <1>2, <1>4, <1>7, <2>1, <2>2 DEF NodeClock
<1>10. Ordered(Aired)'
  <2>1. Ordered(Aired)
    BY DEF GaugeInv
  <2>2. \A p \in Aired : p.at <= u.at - u.interval /\ p.at < u.at
    BY <1>0, <1>4, <1>5
  <2>3. u.at \in Nat /\ 1 <= u.interval /\ u.interval <= u.at /\ u \in Uplink
    BY <1>4, <1>5
  <2>4. Ordered(Aired \cup {u})
    <3> DEFINE V == Aired \cup {u}
    <3>1. V \subseteq Uplink /\ \A x \in V : 1 <= x.interval /\ x.interval <= x.at
      BY <2>1, <2>3 DEF Ordered
    <3>2. \A x, y \in V : x.at = y.at => x = y
      BY <1>0, <2>1, <2>2, <2>3 DEF Ordered
    <3>3. \A x, y \in V : y.at < x.at => y.at <= x.at - x.interval
      BY <1>0, <2>1, <2>2, <2>3 DEF Ordered
    <3> QED
      BY <3>1, <3>2, <3>3 DEF Ordered
  <2> QED
    BY <1>8, <2>1, <2>4
<1>11. Honest'
  <2>1. \A p \in Aired : /\ p.fell <= after /\ tips - p.tips <= after - p.fell
                         /\ ~node.booted \/ tips < p.tips => tips <= after - p.fell
    <3> TAKE p \in Aired
    <3>1. p.tips \in Nat /\ p.fell \in Nat /\ p.fell <= fallen
      BY <1>0, <1>1
    <3>2. CASE node.booted /\ p.tips <= node.tips /\ node.tips - p.tips <= fallen - p.fell
      BY <1>0, <1>4, <1>14, <3>1, <3>2
    <3>3. CASE node.tips <= fallen - p.fell
      BY <1>0, <1>4, <1>14, <3>1, <3>3
    <3> QED
      BY <1>1, <3>2, <3>3
  <2>2. ASSUME NEW p \in Aired
        PROVE  \/ node'.booted /\ p.tips <= tips /\ tips - p.tips <= after - p.fell
               \/ tips <= after - p.fell
    <3>1. p.tips \in Nat /\ p.fell \in Nat /\ p.fell <= fallen
      BY <1>0, <1>1
    <3>2. CASE node.booted /\ p.tips <= node.tips /\ node.tips - p.tips <= fallen - p.fell
      BY <1>0, <1>4, <1>7, <1>14, <3>1, <3>2
    <3>3. CASE node.tips <= fallen - p.fell
      BY <1>0, <1>4, <1>14, <3>1, <3>3
    <3> QED
      BY <1>1, <3>2, <3>3
  <2>3. \A p, x \in Aired : p.at < x.at =>
          /\ p.fell <= x.fell /\ x.tips - p.tips <= x.fell - p.fell
          /\ Restarted(p, x) => x.tips <= x.fell - p.fell
    BY DEF GaugeInv, Honest
  <2>4. \A x \in Aired' : x.tips <= x.fell /\ x.fell <= fallen'
    <3> TAKE x \in Aired'
    <3>1. CASE x \in Aired
      <4>1. x.tips <= x.fell /\ x.fell <= fallen /\ x.fell \in Nat
        BY <1>0, <1>1, <3>1
      <4> QED
        BY <1>0, <1>2, <1>4, <4>1
    <3>2. CASE x = u
      BY <1>2, <1>4, <1>5, <3>2
    <3> QED
      BY <1>8, <3>1, <3>2
  <2>5. \A p, x \in Aired' : p.at < x.at =>
          /\ p.fell <= x.fell /\ x.tips - p.tips <= x.fell - p.fell
          /\ Restarted(p, x) => x.tips <= x.fell - p.fell
    <3> SUFFICES ASSUME NEW p \in Aired', NEW x \in Aired', p.at < x.at
                 PROVE  /\ p.fell <= x.fell /\ x.tips - p.tips <= x.fell - p.fell
                        /\ Restarted(p, x) => x.tips <= x.fell - p.fell
      OBVIOUS
    <3>1. p # u
      <4>1. ASSUME p = u PROVE FALSE
        <5>1. x \in Aired \/ x = u
          BY <1>8
        <5>2. x.at <= t /\ x.at \in Nat
          BY <1>0, <1>4, <1>5, <5>1
        <5> QED
          BY <1>4, <1>5, <4>1, <5>2
      <4> QED
        BY <4>1
    <3>2. p \in Aired
      BY <1>8, <3>1
    <3>3. CASE x \in Aired
      BY <2>3, <3>2, <3>3
    <3>4. CASE x = u
      BY <1>5, <2>1, <3>2, <3>4 DEF Restarted
    <3> QED
      BY <1>8, <3>3, <3>4
  <2>6. \A p \in Aired' :
          \/ node'.booted /\ p.tips <= node'.tips /\ node'.tips - p.tips <= fallen' - p.fell
          \/ node'.tips <= fallen' - p.fell
    <3> TAKE p \in Aired'
    <3>1. CASE p \in Aired
      BY <1>2, <1>7, <2>2, <3>1
    <3>2. CASE p = u /\ node' = sent
      BY <1>2, <1>4, <1>5, <1>6, <3>2
    <3> QED
      BY <1>8, <3>1, <3>2
  <2>7. node'.tips <= fallen'
    BY <1>2, <1>4, <1>7
  <2> QED
    BY <2>4, <2>5, <2>6, <2>7 DEF Honest, Restarted
<1>12. FirstBoot'
  <2> SUFFICES ASSUME reboots = 0
               PROVE  /\ \A p \in Aired' : node'.booted /\ p.tips <= node'.tips
                      /\ \A p, x \in Aired' : p.at < x.at => ~x.reset /\ p.tips <= x.tips
    BY <1>2 DEF FirstBoot
  <2>1. /\ \A p \in Aired : node.booted /\ p.tips <= node.tips
        /\ \A p, x \in Aired : p.at < x.at => ~x.reset /\ p.tips <= x.tips
    BY DEF GaugeInv, FirstBoot
  <2>2. \A p \in Aired : node'.booted /\ p.tips <= tips
    BY <1>0, <1>4, <1>7, <2>1
  <2>3. \A p \in Aired' : node'.booted /\ p.tips <= node'.tips
    BY <1>4, <1>5, <1>6, <1>7, <1>8, <2>2
  <2>4. ASSUME NEW p \in Aired', NEW x \in Aired', p.at < x.at
        PROVE  ~x.reset /\ p.tips <= x.tips
    <3>1. x \in Aired \/ x = u
      BY <1>8
    <3>2. x.at <= t /\ x.at \in Nat
      BY <1>0, <1>4, <1>5, <3>1
    <3>3. p # u
      BY <1>4, <1>5, <2>4, <3>2
    <3>4. p \in Aired
      BY <1>8, <3>3
    <3>5. CASE x = u
      BY <1>5, <2>1, <2>2, <3>4, <3>5
    <3>6. CASE x \in Aired
      BY <2>1, <2>4, <3>4, <3>6
    <3> QED
      BY <3>1, <3>5, <3>6
  <2> QED
    BY <2>3, <2>4
<1>13. Reconciled(uplinks', pending', rainfall')
  BY <1>2 DEF GaugeInv
<1> QED
  BY <1>2, <1>9, <1>10, <1>11, <1>12, <1>13 DEF GaugeInv

\* The rows of the rainfall table follow from the stored uplinks wherever none is
\* pending, whatever order and however often the uplinks were stored and polled.
THEOREM GaugeInvariant == GaugeSpec => []GaugeInv
<1>1. GaugeInit => GaugeInv
  BY InitInv
<1>2. GaugeInv /\ [GaugeNext]_gaugeVars => GaugeInv'
  <2> SUFFICES ASSUME GaugeInv, [GaugeNext]_gaugeVars PROVE GaugeInv'
    OBVIOUS
  <2>1. ASSUME NEW n \in 0 .. 1, NEW fault \in BOOLEAN, Wake(n, fault) PROVE GaugeInv'
    BY <2>1, WakeInv
  <2>2. CASE Reboot
    BY <2>2, RebootInv
  <2>3. ASSUME NEW u \in air, StoreUplink(u) PROVE GaugeInv'
    BY <2>3, StoreInv
  <2>4. ASSUME NEW polled \in (SUBSET pending) \ {{}}, Handle(polled) PROVE GaugeInv'
    <3>1. polled \in SUBSET pending /\ polled # {}
      OBVIOUS
    <3> QED
      BY <2>4, <3>1, HandleInv
  <2>5. CASE UNCHANGED gaugeVars
    BY <2>5 DEF gaugeVars, GaugeInv, NodeClock, Ordered, Honest, FirstBoot, Restarted, Aired
  <2> QED
    BY <2>1, <2>2, <2>3, <2>4, <2>5 DEF GaugeNext
<1> QED
  BY <1>1, <1>2, PTL DEF GaugeSpec

------------------------------------------------------------------------------
(* What the rows add up to.                                                *)

\* The rows of the uplinks up to some time.
RowsUpto(U, n) == UNION {RowsOf(U, v) : v \in {x \in U : x.at <= n}}

\* What a stretch adds to the depth of earlier rows.
LEMMA StretchDepth ==
    ASSUME NEW u \in Uplink, NEW q, NEW a, NEW m, Stretch(q, u, a, m),
           NEW G, IsFiniteSet(G), WithAmounts(G), Depth(G) \in Nat,
           \A r \in G : r.start \in Int /\ r.start < a
    PROVE  /\ IsFiniteSet(G \cup deriveOne(q, u)) /\ WithAmounts(G \cup deriveOne(q, u))
           /\ Depth(G \cup deriveOne(q, u)) \in {Depth(G), Depth(G) + m}
           /\ ~u.fault => Depth(G \cup deriveOne(q, u)) = Depth(G) + m
<1>1. u.at \in Nat /\ a \in Nat /\ m \in Nat /\ a < u.at
  BY DEF Uplink, Stretch
<1>2. PICK lost \in BOOLEAN : deriveOne(q, u) = RowsOver(a, m, lost, u)
  BY DEF Stretch
<1> DEFINE whole == Row(a, u.at, m)
           dry == Row(a, u.at - 1, 0)
           wet == Row(u.at - 1, u.at, m)
<1>3. \/ u.fault /\ deriveOne(q, u) = {}
      \/ deriveOne(q, u) = {whole}
      \/ a < u.at - 1 /\ deriveOne(q, u) = {dry, wet}
  BY <1>1, <1>2, RowsOverIs
<1>4. /\ whole.start = a /\ whole.mm = m /\ wet.start = u.at - 1 /\ wet.mm = m
  <2>1. u.at - 1 \in Int /\ u.at \in Int /\ a \in Int /\ u.at - 1 < u.at
    BY <1>1
  <2> QED
    BY <1>1, <2>1, RowIs
<1>5. a < u.at - 1 => dry.start = a /\ dry.mm = 0
  <2>1. u.at - 1 \in Int /\ a \in Int /\ 0 \in Nat
    BY <1>1
  <2> QED
    BY <2>1, RowIs
<1> HIDE DEF whole, dry, wet
<1>6. CASE u.fault /\ deriveOne(q, u) = {}
  BY <1>6
<1>7. CASE deriveOne(q, u) = {whole}
  <2>1. whole \notin G
    BY <1>1, <1>4
  <2>2. WithAmounts(G \cup {whole}) /\ IsFiniteSet(G \cup {whole})
    BY <1>1, <1>4, FS_AddElement DEF WithAmounts
  <2>3. Depth(G \cup {whole}) = Depth(G) + m
    BY <1>4, <2>1, <2>2, DepthAdd
  <2> QED
    BY <1>7, <2>2, <2>3
<1>8. CASE a < u.at - 1 /\ deriveOne(q, u) = {dry, wet}
  <2> DEFINE H == G \cup {dry}
  <2>1. dry \notin G
    BY <1>1, <1>5, <1>8
  <2>2. WithAmounts(H) /\ IsFiniteSet(H)
    BY <1>1, <1>5, <1>8, FS_AddElement DEF WithAmounts
  <2>3. Depth(H) = Depth(G) + 0
    BY <1>5, <1>8, <2>1, <2>2, DepthAdd
  <2>10. Depth(H) = Depth(G)
    <3> HIDE DEF H
    <3> QED
      BY <2>3
  <2>4. \A r \in H : r.start <= a
    BY <1>1, <1>5, <1>8
  <2>5. wet \notin H
    BY <1>1, <1>4, <1>8, <2>4
  <2> HIDE DEF H
  <2>6. WithAmounts(H \cup {wet}) /\ IsFiniteSet(H \cup {wet})
    BY <1>1, <1>4, <2>2, FS_AddElement DEF WithAmounts
  <2>7. Depth(H \cup {wet}) = Depth(H) + m
    BY <1>4, <2>2, <2>5, <2>6, DepthAdd
  <2>8. H \cup {wet} = G \cup deriveOne(q, u)
    BY <1>8 DEF H
  <2>9. Depth(G \cup deriveOne(q, u)) = Depth(G) + m
    BY <2>7, <2>8, <2>10
  <2> QED
    BY <2>6, <2>8, <2>9
<1> QED
  BY <1>3, <1>6, <1>7, <1>8

\* The stored uplinks, against what fell.
Counts(U) ==
    \A p, u \in U : p.at < u.at => /\ p.fell <= u.fell /\ u.tips - p.tips <= u.fell - p.fell
                                   /\ Restarted(p, u) => u.tips <= u.fell - p.fell
\* Nothing is lost: the first uplink of the node is stored and it was never off.
NothingLost(U) ==
    /\ \E u \in U : u.reset
    /\ \A u \in U : ~u.fault
    /\ \A p, u \in U : p.at < u.at => ~u.reset /\ p.tips <= u.tips

\* u is the last uplink up to n.
LastUpto(U, n, u) == u \in U /\ u.at <= n /\ \A v \in U : v.at <= n => v.at <= u.at

Tallied(U, n) ==
    /\ IsFiniteSet(RowsUpto(U, n)) /\ WithAmounts(RowsUpto(U, n)) /\ Depth(RowsUpto(U, n)) \in Nat
    /\ \/ (\A v \in U : ~(v.at <= n)) /\ Depth(RowsUpto(U, n)) = 0
       \/ \E u \in U : /\ LastUpto(U, n, u) /\ Depth(RowsUpto(U, n)) <= u.fell
                       /\ NothingLost(U) => Depth(RowsUpto(U, n)) = u.tips

\* The depth up to a time follows the counter of the last uplink: one more.
LEMMA TalliedNext ==
    ASSUME NEW U, Ordered(U), Counts(U), \A u \in U : u.tips <= u.fell,
           NEW n \in Nat, Tallied(U, n)
    PROVE  Tallied(U, n + 1)
<1>0. \A v \in U : /\ v \in Uplink /\ v.at \in Nat /\ v.interval \in Nat
                   /\ v.tips \in Nat /\ v.fell \in Nat
  BY DEF Ordered, Uplink
<1> DEFINE G == RowsUpto(U, n)
           k == n + 1
<1>1. k \in Nat /\ \A x \in Nat : x <= k <=> (x <= n \/ x = k)
  OBVIOUS
<1>9. n < k
  OBVIOUS
<1> HIDE DEF k
<1>2. IsFiniteSet(G) /\ WithAmounts(G) /\ Depth(G) \in Nat
  BY DEF Tallied
<1>3. CASE \A v \in U : v.at # k
  <2>1. {x \in U : x.at <= k} = {x \in U : x.at <= n}
    BY <1>0, <1>1, <1>3
  <2>2. RowsUpto(U, k) = RowsUpto(U, n)
    BY <2>1 DEF RowsUpto
  <2>3. \A v \in U : v.at <= k <=> v.at <= n
    BY <1>0, <1>1, <1>3
  <2>4. \A u \in U : LastUpto(U, n, u) => LastUpto(U, k, u)
    BY <2>3 DEF LastUpto
  <2>5. Tallied(U, k)
    BY <2>2, <2>3, <2>4 DEF Tallied
  <2> QED
    BY <2>5 DEF k
<1>4. ASSUME NEW u \in U, u.at = k PROVE Tallied(U, k)
  <2> DEFINE q == Pred(U, u)
             new == RowsOf(U, u)
  <2>1. \A x \in U : x.at <= k => x.at <= n \/ x = u
    BY <1>0, <1>1, <1>4 DEF Ordered
  <2>2. {x \in U : x.at <= k} = {x \in U : x.at <= n} \cup {u}
    BY <1>0, <1>1, <1>4, <2>1
  <2>3. RowsUpto(U, k) = G \cup new
    BY <2>2 DEF RowsUpto
  <2>4. LastUpto(U, k, u)
    BY <1>0, <1>1, <1>4 DEF LastUpto
  <2>5. \A x \in U : x.at < u.at <=> x.at <= n
    BY <1>0, <1>1, <1>4, <1>9
  <2>6. u.at \in Nat /\ Base(U, u, q)
    BY <1>0, PredBase
  <2>7. \/ q = {} /\ \A v \in U : ~(v.at < u.at)
        \/ \E p \in U : /\ q = {p} /\ p.at < u.at
                        /\ \A v \in U : v.at < u.at => v.at <= p.at
    BY <2>6, PredIs
  <2>8. \A r \in G : \E v \in U : v.at < u.at /\ r.start < v.at /\ r.start \in Int
    <3> TAKE r \in G
    <3>1. PICK v \in U : v.at <= n /\ r \in RowsOf(U, v)
      BY DEF RowsUpto
    <3>2. r.start \in Nat /\ r.start < v.at
      BY <3>1, RowsFromZero
    <3> QED
      BY <2>5, <3>1, <3>2
  <2>18. new = deriveOne(q, u)
    BY DEF RowsOf
  <2> HIDE DEF G, new
  <2>9. CASE q = {} /\ ~u.reset
    <3>1. new = {}
      BY <2>9, <2>18, DeriveFirst
    <3>2. \A v \in U : ~(v.at <= n)
      BY <2>5, <2>7, <2>9
    <3>3. Depth(G) = 0
      BY <3>2 DEF Tallied, G, LastUpto
    <3>4. ~NothingLost(U)
      <4> SUFFICES ASSUME NothingLost(U) PROVE FALSE
        OBVIOUS
      <4>1. PICK x \in U : x.reset
        BY DEF NothingLost
      <4>2. x # u
        BY <2>9, <4>1
      <4>3. x.at # u.at
        BY <4>2 DEF Ordered
      <4>4. u.at < x.at
        BY <1>0, <2>7, <2>9, <4>3
      <4> QED
        BY <4>1, <4>4 DEF NothingLost
    <3>5. G \cup new = G
      BY <3>1
    <3>6. Depth(G) <= u.fell
      BY <1>0, <3>3
    <3> QED
      BY <1>2, <2>3, <2>4, <3>4, <3>5, <3>6 DEF Tallied
  <2>10. CASE (q = {} /\ u.reset) \/ q # {}
    <3>1. PICK a, m : Stretch(q, u, a, m)
      <4>1. u \in Uplink /\ 1 <= u.interval /\ u.interval <= u.at
        BY DEF Ordered
      <4>2. \A p \in U : p.at < u.at => p.at <= u.at - u.interval
        BY DEF Ordered
      <4>3. (q = {} /\ u.reset) \/ \E p \in Uplink : q = {p} /\ p.at <= u.at - u.interval
        BY <1>0, <2>7, <2>10, <4>2
      <4> HIDE DEF q
      <4> QED
        BY <4>1, <4>3, StretchIs
    <3>2. a \in Nat /\ m \in Nat /\ a < u.at
      BY <3>1 DEF Stretch
    <3>3. \A p \in q : p \in U /\ p.at \in Nat /\ p.at <= a
      <4> TAKE p \in q
      <4>1. p \in U /\ p.at < u.at /\ q = {p}
        BY <2>7
      <4>2. p.at <= u.at - u.interval /\ p.at \in Nat
        BY <1>0, <4>1 DEF Ordered
      <4> HIDE DEF q
      <4> QED
        BY <3>1, <4>1, <4>2 DEF Stretch
    <3>4. \A r \in G : r.start \in Int /\ r.start < a
      <4> TAKE r \in G
      <4>1. PICK v \in U : v.at < u.at /\ r.start < v.at /\ r.start \in Int
        BY <2>8
      <4>2. PICK p \in U : q = {p} /\ v.at <= p.at
        BY <2>7, <4>1
      <4>3. p.at <= a /\ p.at \in Nat /\ v.at \in Nat
        BY <1>0, <3>3, <4>2
      <4> QED
        BY <3>2, <4>1, <4>2, <4>3
    <3> HIDE DEF q
    <3> DEFINE sum == G \cup new
    <3>5. /\ IsFiniteSet(sum) /\ WithAmounts(sum)
          /\ Depth(sum) \in {Depth(G), Depth(G) + m}
          /\ ~u.fault => Depth(sum) = Depth(G) + m
      BY <1>0, <1>2, <2>18, <3>1, <3>4, StretchDepth
    <3> HIDE DEF sum
    <3>6. Depth(sum) \in Nat /\ Depth(sum) <= Depth(G) + m
      BY <1>2, <3>2, <3>5
    <3>7. CASE q = {}
      <4>1. Depth(G) = 0
        BY <2>5, <2>7, <3>7 DEF Tallied, G, LastUpto
      <4>2. m = u.tips
        BY <3>1, <3>7 DEF Stretch
      <4>3. Depth(sum) <= u.fell
        BY <1>0, <3>6, <4>1, <4>2
      <4>4. NothingLost(U) => Depth(sum) = u.tips
        BY <1>0, <3>5, <4>1, <4>2 DEF NothingLost
      <4> QED
        BY <2>3, <2>4, <3>5, <3>6, <4>3, <4>4 DEF Tallied, sum
    <3>8. CASE q # {}
      <4>1. PICK p \in U : /\ q = {p} /\ p.at < u.at
                           /\ \A v \in U : v.at < u.at => v.at <= p.at
        BY <2>7, <3>8
      <4>2. PICK x \in U : /\ LastUpto(U, n, x) /\ Depth(G) <= x.fell
                           /\ NothingLost(U) => Depth(G) = x.tips
        <5>1. p.at <= n
          BY <2>5, <4>1
        <5> QED
          BY <5>1 DEF Tallied, G
      <4>3. x.at <= p.at /\ p.at <= x.at
        BY <2>5, <4>1, <4>2 DEF LastUpto
      <4>4. x.at = p.at
        BY <1>0, <4>3
      <4>5. x = p
        BY <4>4 DEF Ordered
      <4>6. /\ p.fell \in Nat /\ u.fell \in Nat /\ p.tips \in Nat /\ u.tips \in Nat
            /\ u.tips - p.tips <= u.fell - p.fell
            /\ Restarted(p, u) => u.tips <= u.fell - p.fell
        BY <1>0, <4>1 DEF Counts
      <4>7. \/ m = u.tips /\ Restarted(p, u)
            \/ m = u.tips - p.tips /\ ~Restarted(p, u)
        BY <3>1, <4>1 DEF Stretch
      <4>8. Depth(sum) <= u.fell
        BY <1>2, <3>2, <3>6, <4>2, <4>5, <4>6, <4>7
      <4>9. NothingLost(U) => Depth(sum) = u.tips
        <5> SUFFICES ASSUME NothingLost(U) PROVE Depth(sum) = u.tips
          OBVIOUS
        <5>1. ~u.reset /\ p.tips <= u.tips /\ ~u.fault
          BY <4>1 DEF NothingLost
        <5>2. ~Restarted(p, u)
          BY <4>6, <5>1 DEF Restarted
        <5>3. Depth(G) = p.tips /\ m = u.tips - p.tips /\ Depth(sum) = Depth(G) + m
          BY <3>5, <4>2, <4>5, <4>7, <5>1, <5>2
        <5> QED
          BY <4>6, <5>3
      <4> QED
        BY <2>3, <2>4, <3>5, <3>6, <4>8, <4>9 DEF Tallied, sum
    <3> QED
      BY <3>7, <3>8
  <2> QED
    BY <2>9, <2>10
<1> QED
  BY <1>3, <1>4 DEF k

\* The depth up to any time follows the counter of the last uplink.
LEMMA TalliedAll ==
    ASSUME NEW U, Ordered(U), Counts(U), \A u \in U : u.tips <= u.fell,
           NEW n \in Nat
    PROVE  Tallied(U, n)
<1> DEFINE Ok == {x \in Nat : Tallied(U, x)}
<1>1. 0 \in Ok
  <2>1. \A v \in U : ~(v.at <= 0)
    BY DEF Ordered, Uplink
  <2>2. RowsUpto(U, 0) = {}
    BY <2>1 DEF RowsUpto
  <2>3. IsFiniteSet({}) /\ WithAmounts({}) /\ Depth({}) = 0
    BY FS_EmptySet, DepthEmpty DEF WithAmounts
  <2> QED
    BY <2>1, <2>2, <2>3 DEF Tallied
<1>2. \A x \in Nat : x \in Ok => x + 1 \in Ok
  BY TalliedNext
<1> HIDE DEF Ok
<1>3. Nat \subseteq Ok
  BY <1>1, <1>2, EveryNatural
<1> QED
  BY <1>3 DEF Ok

\* With nothing pending, the rows are those of the whole table.
LEMMA SettledRows ==
    ASSUME GaugeInv, Settled
    PROVE  /\ rainfall = DeriveGaugeRainfall({}, uplinks)
           /\ rainfall = UNION {RowsOf(uplinks, u) : u \in uplinks}
           /\ Ordered(uplinks)
<1>1. Ordered(uplinks)
  <2>1. uplinks \in SUBSET Aired /\ Ordered(Aired)
    BY DEF Aired, GaugeInv
  <2> QED
    BY <2>1, OrderedPart
<1>2. Present(uplinks, {}, rainfall) /\ Explained(uplinks, {}, rainfall)
  BY DEF GaugeInv, Reconciled, Settled
<1>3. \A u \in uplinks : \A r \in RowsOf(uplinks, u) : r \in rainfall
  BY <1>2 DEF Present
<1>4. \A r \in rainfall : \E u \in uplinks : r \in RowsOf(uplinks, u)
  BY <1>2 DEF Explained, Stale
<1>5. rainfall = UNION {RowsOf(uplinks, u) : u \in uplinks}
  BY <1>3, <1>4
<1>6. \A u \in uplinks : deriveOne(Baseline({}, uplinks, u), u) = RowsOf(uplinks, u)
  <2> TAKE u \in uplinks
  <2> DEFINE earlier == {v \in uplinks : v.at < u.at}
  <2>1. Baseline({}, uplinks, u) =
          IF earlier = {} THEN {} ELSE {v \in earlier : \A w \in earlier : w.at <= v.at}
    BY DEF Baseline
  <2>2. Pred(uplinks, u) = {v \in earlier : \A w \in earlier : w.at <= v.at}
    BY DEF Pred
  <2>3. Baseline({}, uplinks, u) = Pred(uplinks, u)
    BY <2>1, <2>2
  <2> QED
    BY <2>3 DEF RowsOf
<1>7. DeriveGaugeRainfall({}, uplinks) = UNION {RowsOf(uplinks, u) : u \in uplinks}
  BY <1>6 DEF DeriveGaugeRainfall
<1> QED
  BY <1>1, <1>5, <1>7

\* The rows of the table do not overlap.
LEMMA SettledDisjoint ==
    ASSUME NEW U, Ordered(U), NEW u \in U, NEW w \in U, NEW r \in RowsOf(U, u), NEW s \in RowsOf(U, w)
    PROVE  r = s \/ Disjoint(r, s)
<1>1. /\ r \in RainRow /\ EndOf(r) <= u.at /\ r.start < u.at
      /\ \A v \in U : v.at < u.at => v.at <= r.start
      /\ \A d \in RowsOf(U, u) : d = r \/ Disjoint(r, d)
  BY RowsOfIs
<1>2. /\ s \in RainRow /\ EndOf(s) <= w.at
      /\ \A v \in U : v.at < w.at => v.at <= s.start
  BY RowsOfIs
<1>3. r.start \in Int /\ EndOf(r) \in Int /\ s.start \in Int /\ EndOf(s) \in Int
      /\ u.at \in Nat /\ w.at \in Nat
  BY <1>1, <1>2 DEF RainRow, EndOf, Ordered, Uplink
<1>4. CASE u.at < w.at
  <2>1. EndOf(r) <= s.start
    BY <1>1, <1>2, <1>3, <1>4
  <2> QED
    BY <2>1 DEF Disjoint, EndOf
<1>5. CASE w.at < u.at
  <2>1. EndOf(s) <= r.start
    BY <1>1, <1>2, <1>3, <1>5
  <2> QED
    BY <2>1 DEF Disjoint, EndOf
<1>6. CASE w.at = u.at
  <2>1. w = u
    BY <1>6 DEF Ordered
  <2> QED
    BY <1>1, <2>1
<1> QED
  BY <1>3, <1>4, <1>5, <1>6

\* The rows of the table add up to no more than fell, and to the counter when
\* nothing was lost.
LEMMA SettledDepth ==
    ASSUME GaugeInv, Settled
    PROVE  /\ Depth(rainfall) <= fallen
           /\ (/\ uplinks # {} /\ reboots = 0
               /\ \E u \in uplinks : u.reset
               /\ \A u \in uplinks : ~u.fault)
              => Depth(rainfall) = Max({u.tips : u \in uplinks})
<1>1. rainfall = UNION {RowsOf(uplinks, u) : u \in uplinks} /\ Ordered(uplinks)
  BY SettledRows
<1>2. /\ now \in Nat /\ fallen \in Nat /\ uplinks \subseteq Aired
      /\ \A u \in uplinks : /\ u.at \in Nat /\ u.tips \in Nat /\ u.fell \in Nat
                            /\ u.at <= now /\ u.fell <= fallen /\ u.tips <= u.fell
  <2>1. uplinks \subseteq Aired
    BY DEF Aired
  <2>2. now \in Nat /\ fallen \in Nat /\ node.lastTx \in Nat /\ node.lastTx <= now
        /\ \A u \in Aired : u.at <= node.lastTx /\ u.fell <= fallen /\ u.tips <= u.fell
    BY GaugeAssumption DEF GaugeInv, NodeClock, Honest
  <2>3. \A u \in uplinks : u.at \in Nat /\ u.tips \in Nat /\ u.fell \in Nat
    BY <1>1 DEF Ordered, Uplink
  <2> QED
    BY <2>1, <2>2, <2>3
<1>3. Counts(uplinks)
  BY <1>2 DEF GaugeInv, Honest, Counts
<1>4. RowsUpto(uplinks, now) = rainfall
  <2>1. {x \in uplinks : x.at <= now} = uplinks
    BY <1>2
  <2> QED
    BY <1>1, <2>1 DEF RowsUpto
<1>5. Tallied(uplinks, now)
  BY <1>1, <1>2, <1>3, TalliedAll
<1>6. CASE \A v \in uplinks : ~(v.at <= now)
  <2>1. uplinks = {}
    BY <1>2, <1>6
  <2>2. Depth(rainfall) = 0
    BY <1>4, <1>5, <2>1 DEF Tallied
  <2> QED
    BY <1>2, <2>1, <2>2
<1>7. ASSUME NEW u \in uplinks, LastUpto(uplinks, now, u), Depth(rainfall) <= u.fell,
             NothingLost(uplinks) => Depth(rainfall) = u.tips
      PROVE  /\ Depth(rainfall) <= fallen
             /\ (/\ uplinks # {} /\ reboots = 0
                 /\ \E x \in uplinks : x.reset
                 /\ \A x \in uplinks : ~x.fault)
                => Depth(rainfall) = Max({x.tips : x \in uplinks})
  <2>1. Depth(rainfall) \in Nat
    BY <1>4, <1>5 DEF Tallied
  <2>2. Depth(rainfall) <= fallen
    BY <1>2, <1>7, <2>1
  <2>3. ASSUME reboots = 0, \E x \in uplinks : x.reset, \A x \in uplinks : ~x.fault
        PROVE  Depth(rainfall) = Max({x.tips : x \in uplinks})
    <3>1. \A p, x \in uplinks : p.at < x.at => ~x.reset /\ p.tips <= x.tips
      BY <1>2, <2>3 DEF GaugeInv, FirstBoot
    <3>2. NothingLost(uplinks)
      BY <2>3, <3>1 DEF NothingLost
    <3>3. \A x \in uplinks : x.tips <= u.tips
      <4> TAKE x \in uplinks
      <4>1. x.at <= u.at
        BY <1>2, <1>7 DEF LastUpto
      <4>2. CASE x.at < u.at
        BY <3>1, <4>2
      <4>3. CASE x.at = u.at
        <5>1. x = u
          BY <1>1, <4>3 DEF Ordered
        <5> QED
          BY <1>2, <5>1
      <4> QED
        BY <1>2, <4>1, <4>2, <4>3
    <3> DEFINE T == {x.tips : x \in uplinks}
    <3>4. T \subseteq Int /\ T # {} /\ u.tips \in Int /\ u.tips \in T /\ \A y \in T : y <= u.tips
      BY <1>2, <3>3
    <3> HIDE DEF T
    <3>5. Max(T) \in T /\ \A y \in T : y <= Max(T)
      BY <3>4, MaxIs
    <3>6. Max(T) \in Int /\ Max(T) <= u.tips /\ u.tips <= Max(T)
      BY <3>4, <3>5
    <3>7. Max(T) = u.tips
      BY <3>4, <3>6
    <3> QED
      BY <1>7, <3>2, <3>7 DEF T
  <2> QED
    BY <2>2, <2>3
<1> QED
  BY <1>4, <1>5, <1>6, <1>7 DEF Tallied

\* The rainfall stage (gaugeHandler): with every uplink handled, the table is what
\* one pass over the uplinks in order gives, no time is counted twice, no more rain
\* is stored than fell and a lost uplink loses none, and no row is deleted without
\* one in its place; for every interval, loss slack, reboot and order of arrival.
THEOREM RainfallIsFaithful == GaugeSpec => []RainfallFaithful
<1>1. GaugeInv => RainfallFaithful
  <2> SUFFICES ASSUME GaugeInv PROVE RainfallFaithful
    OBVIOUS
  <2>1. GaugeTypeOK
    BY DEF GaugeInv, NodeClock, Ordered, Reconciled, Aired, GaugeTypeOK
  <2>2. OrderIndependent
    BY SettledRows DEF OrderIndependent
  <2>3. NoDoubleRain
    <3> SUFFICES ASSUME Settled
                 PROVE  /\ \A r, s \in rainfall : r = s \/ Disjoint(r, s)
                        /\ Depth(rainfall) <= fallen
      BY DEF NoDoubleRain
    <3>1. rainfall = UNION {RowsOf(uplinks, u) : u \in uplinks} /\ Ordered(uplinks)
      BY SettledRows
    <3>2. \A r \in rainfall : \E u \in uplinks : r \in RowsOf(uplinks, u)
      BY <3>1
    <3>3. \A r, s \in rainfall : r = s \/ Disjoint(r, s)
      BY <3>1, <3>2, SettledDisjoint
    <3> QED
      BY <3>3, SettledDepth
  <2>4. LossLosesNoRain
    BY SettledDepth DEF LossLosesNoRain
  <2>5. DeletionsAccompanied
    BY DEF GaugeInv, DeletionsAccompanied
  <2> QED
    BY <2>1, <2>2, <2>3, <2>4, <2>5 DEF RainfallFaithful
<1> QED
  BY <1>1, GaugeInvariant, PTL
=============================================================================
