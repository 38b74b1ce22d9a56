-------------------------- MODULE IngestStreamProofs --------------------------
(***************************************************************************)
(* What ingest promises the bridge, for any number of streams and          *)
(* replicas, any requests and any bounds on batches and queues.            *)
(*                                                                         *)
(* The argument follows the rows of a stream: each that has arrived is in  *)
(* exactly one place of the pipeline (the batch being collected, a queued  *)
(* batch, the batch being stored) or it is settled, and the counts add up  *)
(* to what is settled.  For the partitions: a month that some replica has  *)
(* seen exists, and so does one whose creation was lost to another.        *)
(***************************************************************************)
EXTENDS IngestStream, FiniteSetTheorems, SequenceTheorems, TLAPS

Places == Nat \X Nat

StreamType ==
    [received : Nat, r : {"recv", "send", "end"}, reqsClosed : BOOLEAN,
     a : {"select", "push", "pushLast", "end"}, cur : SUBSET Places,
     batches : Seq(SUBSET Places), batchesClosed : BOOLEAN,
     b : {"range", "lock", "months", "create", "txn", "end"}, batch : SUBSET Places,
     attempt : {0, 1}, month : Nat, err : {"none", "canceled", "store"},
     total : [accepted : Int, duplicates : Int, rejected : Int],
     answer : {"none", "ok", "canceled", "store"}]

IngestTypes ==
    /\ on \in [Streams -> Replicas]
    /\ st \in [Streams -> StreamType]
    /\ IsFiniteSet(table)
    /\ partitions \subseteq Nat
    /\ seen \in [Replicas -> SUBSET Nat]
    /\ mu \in [Replicas -> Streams \cup {NoOne}]
    /\ faults \in Nat

\* Every row of a stream, and those its batching goroutine has been given.
AllRows(s) == UNION {extract(s, i) : i \in DOMAIN Requests[s]}
Given(x) == IF x.r = "send" THEN x.received - 1 ELSE x.received
Arrived(s, x) == {p \in AllRows(s) : p[1] <= Given(x)}

Queued(q) == UNION {q[i] : i \in DOMAIN q}
Underway(x) == x.cur \cup x.batch \cup Queued(x.batches)
Settled(s, x) == Arrived(s, x) \ Underway(x)

\* No batch outgrows BatchMax by more than the request that filled it.
Sized(q) == Cardinality(q) < BatchMax + RequestMax
Sizes(x) ==
    /\ x.a = "select" => Cardinality(x.cur) < BatchMax
    /\ Sized(x.cur) /\ Sized(x.batch) /\ \A i \in DOMAIN x.batches : Sized(x.batches[i])
    /\ Len(x.batches) <= QueueBatches

\* A row is in one place of the pipeline.
Flow(s, x) ==
    /\ x.received <= Len(Requests[s])
    /\ x.r = "send" => x.received > 0
    /\ Underway(x) \subseteq Arrived(s, x)
    /\ x.cur \cap x.batch = {}
    /\ \A i \in DOMAIN x.batches : x.batches[i] \cap (x.cur \cup x.batch) = {}
    /\ \A i, j \in DOMAIN x.batches : i # j => x.batches[i] \cap x.batches[j] = {}

\* How far the goroutines of a stream are from each other.
Phases(s, x) ==
    /\ x.reqsClosed => x.r = "end"
    /\ x.batchesClosed => x.a = "end"
    /\ x.a = "end" => x.cur = {}
    /\ x.a = "pushLast" => x.r = "end"
    /\ x.b \in {"range", "end"} => x.batch = {}
    /\ x.err = "none" =>
         /\ x.r = "end" => x.received = Len(Requests[s])
         /\ x.a = "end" => x.r = "end"
         /\ x.b = "end" => x.a = "end" /\ x.batches = <<>>
    /\ x.answer = "ok" => x.err = "none" /\ x.r = "end" /\ x.a = "end" /\ x.b = "end"

\* As long as nothing failed, what has left the pipeline is stored and counted.
Sum(c) == c.accepted + c.duplicates + c.rejected
Stored(s, p) == AutoRegister \/ Row(s, p).dev \in DOMAIN devices => Key(Row(s, p)) \in table
Accounted(s) ==
    st[s].err = "none" =>
        /\ \A p \in Settled(s, st[s]) : Stored(s, p)
        /\ Sum(st[s].total) = Cardinality(Settled(s, st[s]))

\* The partitions a stream relies on exist.
Months(s) ==
    /\ st[s].attempt = 1 => st[s].month \in partitions
    /\ st[s].b = "create" => st[s].attempt = 0
    /\ st[s].b = "txn" =>
         \A p \in st[s].batch : Partitioned(Row(s, p).tbl) => MonthOf(Row(s, p)) \in partitions
    /\ faults = 0 => st[s].err = "none"

StreamInv(s) ==
    /\ Sizes(st[s]) /\ Flow(s, st[s]) /\ Phases(s, st[s]) /\ Accounted(s) /\ Months(s)

SeenExist == \A p \in Replicas : seen[p] \subseteq partitions

IngestInv ==
    /\ IngestTypes
    /\ \A s \in Streams : StreamInv(s)
    /\ SeenExist /\ PartitionBeforeInsert /\ AcceptedOnce

------------------------------------------------------------------------------
(* Rows.                                                                   *)

\* The rows of a request: at most RequestMax, all of them of that request.
LEMMA ExtractRows ==
    ASSUME NEW s \in Streams, NEW i \in DOMAIN Requests[s]
    PROVE  /\ extract(s, i) \subseteq Places /\ IsFiniteSet(extract(s, i))
           /\ Cardinality(extract(s, i)) <= RequestMax
           /\ extract(s, i) = {p \in AllRows(s) : p[1] = i}
<1> USE IngestAssumption
<1> DEFINE D == DOMAIN Requests[s][i]
<1>1. /\ Requests[s] \in Seq(Seq(Items)) /\ Requests[s][i] \in Seq(Items)
      /\ i \in Nat /\ D = 1 .. Len(Requests[s][i]) /\ Len(Requests[s][i]) \in Nat
      /\ Len(Requests[s][i]) <= RequestMax
  OBVIOUS
<1>2. IsFiniteSet(D) /\ Cardinality(D) = Len(Requests[s][i])
  <2>1. ASSUME NEW n \in Nat PROVE IsFiniteSet(1 .. n) /\ Cardinality(1 .. n) = n
    <3>1. IsFiniteSet(1 .. n) /\ Cardinality(1 .. n) = IF 1 > n THEN 0 ELSE n - 1 + 1
      BY FS_Interval
    <3> QED
      BY <3>1
  <2> QED
    BY <1>1, <2>1
<1>3. IsFiniteSet({i}) /\ Cardinality({i}) = 1
  BY FS_Singleton
<1> HIDE DEF D
<1>4. /\ IsFiniteSet({i} \X D)
      /\ Cardinality({i} \X D) = 1 * Len(Requests[s][i])
  BY <1>2, <1>3, FS_Product
<1>5. extract(s, i) \in SUBSET ({i} \X D)
  BY DEF extract, D
<1>6. /\ IsFiniteSet(extract(s, i))
      /\ Cardinality(extract(s, i)) <= Cardinality({i} \X D)
  BY <1>4, <1>5, FS_Subset
<1>7. Cardinality(extract(s, i)) \in Nat
  BY <1>6, FS_CardinalityType
<1>8. Cardinality(extract(s, i)) <= RequestMax
  BY <1>1, <1>4, <1>6, <1>7
<1>9. extract(s, i) \subseteq Places
  BY <1>1, <1>5 DEF Places, D
<1>10. \A j \in DOMAIN Requests[s] : \A p \in extract(s, j) : p[1] = j
  BY DEF extract
<1>11. extract(s, i) = {p \in AllRows(s) : p[1] = i}
  BY <1>10 DEF AllRows
<1> QED
  BY <1>6, <1>8, <1>9, <1>11

\* A stream has finitely many rows, each of them an item of a request.
LEMMA RowsFinite ==
    ASSUME NEW s \in Streams
    PROVE  /\ IsFiniteSet(AllRows(s)) /\ AllRows(s) \subseteq Places
           /\ \A p \in AllRows(s) : Row(s, p) \in Items /\ p[1] \in DOMAIN Requests[s]
<1> USE IngestAssumption
<1>1. \A i \in DOMAIN Requests[s] : \A p \in extract(s, i) :
         /\ p \in (1 .. Len(Requests[s])) \X (1 .. RequestMax)
         /\ Row(s, p) \in Items /\ p[1] = i
  <2> SUFFICES ASSUME NEW i \in DOMAIN Requests[s], NEW p \in extract(s, i)
               PROVE  /\ p \in (1 .. Len(Requests[s])) \X (1 .. RequestMax)
                      /\ Row(s, p) \in Items /\ p[1] = i
    OBVIOUS
  <2>1. Requests[s] \in Seq(Seq(Items)) /\ Requests[s][i] \in Seq(Items)
    OBVIOUS
  <2>2. p \in {i} \X DOMAIN Requests[s][i]
    BY DEF extract
  <2>3. p[1] = i /\ p[2] \in DOMAIN Requests[s][i] /\ p = <<p[1], p[2]>>
    BY <2>2
  <2>4. p[2] \in 1 .. RequestMax
    BY <2>1, <2>3
  <2>5. i \in 1 .. Len(Requests[s])
    BY <2>1
  <2>6. p \in (1 .. Len(Requests[s])) \X (1 .. RequestMax)
    BY <2>3, <2>4, <2>5
  <2>7. Requests[s][i][p[2]] \in Items
    BY <2>1, <2>3, ElementOfSeq
  <2> QED
    BY <2>3, <2>6, <2>7 DEF Row
<1>2. AllRows(s) \in SUBSET ((1 .. Len(Requests[s])) \X (1 .. RequestMax))
  BY <1>1 DEF AllRows
<1>3. Len(Requests[s]) \in Nat
  OBVIOUS
<1>4. IsFiniteSet(1 .. Len(Requests[s])) /\ IsFiniteSet(1 .. RequestMax)
  BY <1>3, FS_Interval
<1>5. IsFiniteSet((1 .. Len(Requests[s])) \X (1 .. RequestMax))
  BY <1>4, FS_Product
<1>6. IsFiniteSet(AllRows(s))
  BY <1>2, <1>5, FS_Subset
<1>7. AllRows(s) \subseteq Places
  BY <1>2, <1>3 DEF Places
<1> QED
  BY <1>1, <1>6, <1>7 DEF AllRows

\* The rows underway and the settled ones of a stream are finitely many.
LEMMA FlowFinite ==
    ASSUME NEW s \in Streams, NEW x \in StreamType, Flow(s, x)
    PROVE  /\ IsFiniteSet(x.cur) /\ IsFiniteSet(x.batch) /\ IsFiniteSet(Settled(s, x))
           /\ \A i \in DOMAIN x.batches : IsFiniteSet(x.batches[i])
<1>1. Underway(x) \subseteq AllRows(s)
  BY DEF Flow, Arrived
<1>2. /\ x.cur \subseteq AllRows(s) /\ x.batch \subseteq AllRows(s) /\ Settled(s, x) \subseteq AllRows(s)
      /\ \A i \in DOMAIN x.batches : x.batches[i] \subseteq AllRows(s)
  BY <1>1 DEF Underway, Queued, Settled, Arrived
<1>3. \A T \in SUBSET AllRows(s) : IsFiniteSet(T)
  BY RowsFinite, FS_Subset
<1> QED
  BY <1>2, <1>3

------------------------------------------------------------------------------
(* Steps.                                                                  *)

\* What a stream has settled stays so while others write: rows are never
\* deleted, partitions never dropped, and devices only registered by rows.
LEMMA OtherStream ==
    ASSUME IngestInv, NEW t \in Streams, st'[t] = st[t],
           partitions \subseteq partitions', table \subseteq table',
           AutoRegister \/ DOMAIN devices' = DOMAIN devices, faults' = 0 => faults = 0
    PROVE  StreamInv(t)'
<1>1. StreamInv(t)
  BY DEF IngestInv
<1>2. Sizes(st'[t]) /\ Flow(t, st'[t]) /\ Phases(t, st'[t])
  BY <1>1 DEF StreamInv
<1>3. Accounted(t)'
  BY <1>1 DEF StreamInv, Accounted, Stored
<1>4. Months(t)'
  BY <1>1 DEF StreamInv, Months
<1> QED
  BY <1>2, <1>3, <1>4 DEF StreamInv

\* A step of one stream: what is left to show of it.
LEMMA Step ==
    ASSUME IngestInv, NEW s \in Streams, NEW x \in StreamType, st' = [st EXCEPT ![s] = x],
           on' = on, mu' \in [Replicas -> Streams \cup {NoOne}], seen' \in [Replicas -> SUBSET Nat],
           partitions \subseteq partitions', partitions' \subseteq Nat, SeenExist',
           table \subseteq table', IsFiniteSet(table'), PartitionBeforeInsert', AcceptedOnce',
           AutoRegister \/ DOMAIN devices' = DOMAIN devices,
           faults' \in Nat, faults' = 0 => faults = 0,
           Sizes(x), Flow(s, x), Phases(s, x), Accounted(s)', Months(s)'
    PROVE  IngestInv'
<1>1. IngestTypes'
  BY DEF IngestInv, IngestTypes
<1>2. st'[s] = x /\ \A t \in Streams \ {s} : st'[t] = st[t]
  BY DEF IngestInv, IngestTypes
<1>3. StreamInv(s)'
  BY <1>2 DEF StreamInv
<1>4. \A t \in Streams \ {s} : StreamInv(t)'
  BY <1>2, OtherStream
<1> QED
  BY <1>1, <1>3, <1>4 DEF IngestInv

\* A step that only moves rows along a stream's goroutines.
LEMMA LocalStep ==
    ASSUME IngestInv, NEW s \in Streams, NEW x \in StreamType, st' = [st EXCEPT ![s] = x],
           UNCHANGED shared, faults' \in Nat, faults' = 0 => faults = 0,
           Sizes(x), Flow(s, x), Phases(s, x),
           x.total = st[s].total, x.attempt = st[s].attempt, x.month = st[s].month,
           x.err = "none" => st[s].err = "none" /\ Settled(s, x) = Settled(s, st[s]),
           faults' = 0 => x.err = "none",
           x.b = "create" => st[s].b = "create",
           x.b = "txn" => \/ st[s].b = "txn" /\ x.batch = st[s].batch
                          \/ \A p \in x.batch : ~Partitioned(Row(s, p).tbl)
    PROVE  IngestInv'
<1>0. /\ IngestTypes /\ StreamInv(s)
      /\ on' = on /\ table' = table /\ devices' = devices /\ partitions' = partitions
      /\ seen' = seen /\ mu' = mu
  BY DEF IngestInv, shared
<1>1. st'[s] = x /\ \A t \in Streams \ {s} : st'[t] = st[t]
  BY <1>0 DEF IngestTypes
<1>2. Accounted(s)'
  BY <1>0, <1>1 DEF StreamInv, Accounted, Stored
<1>3. Months(s)'
  BY <1>0, <1>1 DEF StreamInv, Months
<1>4. SeenExist' /\ PartitionBeforeInsert'
  BY <1>0 DEF IngestInv, SeenExist, PartitionBeforeInsert
<1>5. \A t \in Streams : st'[t].total = st[t].total
  BY <1>1
<1>6. AcceptedOnce'
  BY <1>0, <1>5 DEF IngestInv, AcceptedOnce
<1>7. /\ mu' \in [Replicas -> Streams \cup {NoOne}] /\ seen' \in [Replicas -> SUBSET Nat]
      /\ partitions' \subseteq Nat /\ IsFiniteSet(table')
  BY <1>0 DEF IngestTypes
<1> QED
  BY <1>0, <1>2, <1>3, <1>4, <1>6, <1>7, Step

\* What the invariant says of one stream.
LEMMA StreamFacts ==
    ASSUME IngestInv, NEW s \in Streams
    PROVE  /\ st \in [Streams -> StreamType] /\ st[s] \in StreamType
           /\ Sizes(st[s]) /\ Flow(s, st[s]) /\ Phases(s, st[s])
           /\ Accounted(s) /\ Months(s) /\ faults \in Nat
BY DEF IngestInv, IngestTypes, StreamInv

\* The parts of a stream's state, by who changes them.
SameR(x, y) == x.received = y.received /\ x.r = y.r /\ x.reqsClosed = y.reqsClosed
SameA(x, y) == x.a = y.a /\ x.cur = y.cur /\ x.batchesClosed = y.batchesClosed
SameB(x, y) == x.b = y.b /\ x.batch = y.batch
SameM(x, y) == x.attempt = y.attempt /\ x.month = y.month
SameE(x, y) == x.err = y.err /\ x.total = y.total /\ x.answer = y.answer

\* Where its rows are does not depend on the rest.
LEMMA SameRows ==
    ASSUME NEW s, NEW x, NEW y, Given(x) = Given(y), x.cur = y.cur, x.batch = y.batch,
           x.batches = y.batches
    PROVE  /\ Arrived(s, x) = Arrived(s, y) /\ Underway(x) = Underway(y)
           /\ Settled(s, x) = Settled(s, y)
BY DEF Arrived, Underway, Settled

\* A request is received: it is held, not yet given to the batching goroutine.
LEMMA RecvInv ==
    ASSUME IngestInv, NEW s \in Streams, Recv(s)
    PROVE  IngestInv'
<1>0. /\ st \in [Streams -> StreamType] /\ st[s] \in StreamType
      /\ Sizes(st[s]) /\ Flow(s, st[s]) /\ Phases(s, st[s]) /\ Months(s) /\ faults \in Nat
  BY StreamFacts
<1> DEFINE n == st[s].received + 1
           x == [st[s] EXCEPT !.r = "send", !.received = n]
<1>1. /\ st[s].r = "recv" /\ st[s].received < Len(Requests[s])
      /\ st' = [st EXCEPT ![s] = x] /\ UNCHANGED <<shared, faults>>
  BY <1>0 DEF Recv
<1>2. /\ Len(Requests[s]) \in Nat /\ st[s].received \in Nat
      /\ n \in Nat /\ n > 0 /\ n <= Len(Requests[s]) /\ n - 1 = st[s].received
  <2>1. Len(Requests[s]) \in Nat
    BY IngestAssumption
  <2>2. st[s].received \in Nat
    BY <1>0 DEF StreamType
  <2> QED
    BY <1>1, <2>1, <2>2
<1> HIDE DEF n
<1>3. x \in StreamType /\ x.r = "send" /\ x.received = n /\ x.reqsClosed = st[s].reqsClosed
  BY <1>0, <1>2 DEF StreamType
<1>4. /\ SameA(x, st[s]) /\ x.batches = st[s].batches /\ SameB(x, st[s]) /\ SameM(x, st[s])
      /\ SameE(x, st[s])
  BY <1>0 DEF StreamType, SameA, SameB, SameM, SameE
<1> HIDE DEF x
<1>5. Given(x) = Given(st[s])
  BY <1>1, <1>2, <1>3 DEF Given
<1>6. /\ Arrived(s, x) = Arrived(s, st[s]) /\ Underway(x) = Underway(st[s])
      /\ Settled(s, x) = Settled(s, st[s])
  BY <1>4, <1>5, SameRows DEF SameA, SameB
<1>7. Sizes(x)
  BY <1>0, <1>4 DEF Sizes, SameA, SameB
<1>8. Flow(s, x)
  BY <1>0, <1>2, <1>3, <1>4, <1>6 DEF Flow, SameA, SameB
<1>9. Phases(s, x)
  BY <1>0, <1>1, <1>3, <1>4 DEF Phases, SameA, SameB, SameE
<1>10. UNCHANGED shared /\ faults' = faults /\ (faults = 0 => st[s].err = "none")
  BY <1>0, <1>1 DEF Months
<1> QED
  BY <1>0, <1>1, <1>3, <1>4, <1>6, <1>7, <1>8, <1>9, <1>10, LocalStep DEF SameB, SameM, SameE

\* The client has closed its stream: nothing is held any more.
LEMMA RecvEOFInv ==
    ASSUME IngestInv, NEW s \in Streams, RecvEOF(s)
    PROVE  IngestInv'
<1>0. /\ st \in [Streams -> StreamType] /\ st[s] \in StreamType
      /\ Sizes(st[s]) /\ Flow(s, st[s]) /\ Phases(s, st[s]) /\ Months(s) /\ faults \in Nat
  BY StreamFacts
<1> DEFINE x == [st[s] EXCEPT !.r = "end", !.reqsClosed = TRUE]
<1>1. /\ st[s].r = "recv" /\ st[s].received = Len(Requests[s])
      /\ st' = [st EXCEPT ![s] = x] /\ UNCHANGED <<shared, faults>>
  BY <1>0 DEF RecvEOF
<1>2. x \in StreamType /\ x.r = "end" /\ x.received = st[s].received /\ x.reqsClosed
  BY <1>0 DEF StreamType
<1>3. /\ SameA(x, st[s]) /\ x.batches = st[s].batches /\ SameB(x, st[s]) /\ SameM(x, st[s])
      /\ SameE(x, st[s])
  BY <1>0 DEF StreamType, SameA, SameB, SameM, SameE
<1> HIDE DEF x
<1>4. Given(x) = Given(st[s])
  BY <1>1, <1>2 DEF Given
<1>5. /\ Arrived(s, x) = Arrived(s, st[s]) /\ Underway(x) = Underway(st[s])
      /\ Settled(s, x) = Settled(s, st[s])
  BY <1>3, <1>4, SameRows DEF SameA, SameB
<1>6. Sizes(x)
  BY <1>0, <1>3 DEF Sizes, SameA, SameB
<1>7. Flow(s, x)
  BY <1>0, <1>2, <1>3, <1>5 DEF Flow, SameA, SameB
<1>8. Phases(s, x)
  BY <1>0, <1>1, <1>2, <1>3 DEF Phases, SameA, SameB, SameE
<1>9. UNCHANGED shared /\ faults' = faults /\ (faults = 0 => st[s].err = "none")
  BY <1>0, <1>1 DEF Months
<1> QED
  BY <1>0, <1>1, <1>2, <1>3, <1>5, <1>6, <1>7, <1>8, <1>9, LocalStep DEF SameB, SameM, SameE

\* The client gives up: a fault, after which nothing is promised.
LEMMA ClientCancelsInv ==
    ASSUME IngestInv, NEW s \in Streams, ClientCancels(s)
    PROVE  IngestInv'
<1>0. /\ st \in [Streams -> StreamType] /\ st[s] \in StreamType
      /\ Sizes(st[s]) /\ Flow(s, st[s]) /\ Phases(s, st[s]) /\ Months(s) /\ faults \in Nat
  BY StreamFacts
<1> DEFINE x == [st[s] EXCEPT !.err = "canceled"]
<1>1. /\ st[s].answer = "none" /\ faults' = faults + 1
      /\ st' = [st EXCEPT ![s] = x] /\ UNCHANGED shared
  BY <1>0 DEF ClientCancels, Fault
<1>2. /\ x \in StreamType /\ x.err = "canceled"
      /\ x.total = st[s].total /\ x.answer = st[s].answer
  BY <1>0 DEF StreamType
<1>3. /\ SameR(x, st[s]) /\ SameA(x, st[s]) /\ x.batches = st[s].batches /\ SameB(x, st[s])
      /\ SameM(x, st[s])
  BY <1>0 DEF StreamType, SameR, SameA, SameB, SameM
<1> HIDE DEF x
<1>4. Given(x) = Given(st[s])
  BY <1>3 DEF Given, SameR
<1>5. /\ Arrived(s, x) = Arrived(s, st[s]) /\ Underway(x) = Underway(st[s])
      /\ Settled(s, x) = Settled(s, st[s])
  BY <1>3, <1>4, SameRows DEF SameA, SameB
<1>6. Sizes(x)
  BY <1>0, <1>3 DEF Sizes, SameA, SameB
<1>7. Flow(s, x)
  BY <1>0, <1>3, <1>5 DEF Flow, SameR, SameA, SameB
<1>8. Phases(s, x)
  BY <1>0, <1>1, <1>2, <1>3 DEF Phases, SameR, SameA, SameB
<1>9. faults' \in Nat /\ faults' # 0
  BY <1>0, <1>1
<1> QED
  BY <1>0, <1>1, <1>2, <1>3, <1>5, <1>6, <1>7, <1>8, <1>9, LocalStep DEF SameB, SameM

\* What the receiving goroutine holds when it stops is lost, after an error.
LEMMA RecvStopsInv ==
    ASSUME IngestInv, NEW s \in Streams, RecvStops(s)
    PROVE  IngestInv'
<1>0. /\ st \in [Streams -> StreamType] /\ st[s] \in StreamType
      /\ Sizes(st[s]) /\ Flow(s, st[s]) /\ Phases(s, st[s]) /\ Months(s) /\ faults \in Nat
  BY StreamFacts
<1> DEFINE x == [st[s] EXCEPT !.r = "end", !.reqsClosed = TRUE]
<1>1. /\ st[s].r \in {"send", "recv"} /\ st[s].err # "none"
      /\ st' = [st EXCEPT ![s] = x] /\ UNCHANGED <<shared, faults>>
  BY <1>0 DEF RecvStops, Cancelled
<1>2. x \in StreamType /\ x.r = "end" /\ x.received = st[s].received /\ x.reqsClosed
  BY <1>0 DEF StreamType
<1>3. /\ SameA(x, st[s]) /\ x.batches = st[s].batches /\ SameB(x, st[s]) /\ SameM(x, st[s])
      /\ SameE(x, st[s])
  BY <1>0 DEF StreamType, SameA, SameB, SameM, SameE
<1> HIDE DEF x
<1>4. Arrived(s, st[s]) \subseteq Arrived(s, x)
  <2>1. st[s].received \in Nat
    BY <1>0 DEF StreamType
  <2>2. Given(st[s]) \in Int /\ Given(st[s]) <= Given(x) /\ Given(x) \in Int
    BY <1>2, <2>1 DEF Given
  <2>3. \A p \in AllRows(s) : p[1] \in Nat
    BY RowsFinite DEF Places
  <2> QED
    BY <2>2, <2>3 DEF Arrived
<1>5. Underway(x) = Underway(st[s])
  BY <1>3 DEF Underway, SameA, SameB
<1>6. Sizes(x)
  BY <1>0, <1>3 DEF Sizes, SameA, SameB
<1>7. Flow(s, x)
  BY <1>0, <1>2, <1>3, <1>4, <1>5 DEF Flow, SameA, SameB
<1>8. Phases(s, x)
  BY <1>0, <1>1, <1>2, <1>3 DEF Phases, SameA, SameB, SameE
<1>9. UNCHANGED shared /\ faults' = faults /\ (faults = 0 => st[s].err = "none")
  BY <1>0, <1>1 DEF Months
<1> QED
  BY <1>0, <1>1, <1>2, <1>3, <1>6, <1>7, <1>8, <1>9, LocalStep DEF SameB, SameM, SameE

\* The batch under collection is due.
LEMMA BatchDueInv ==
    ASSUME IngestInv, NEW s \in Streams, BatchDue(s)
    PROVE  IngestInv'
<1>0. /\ st \in [Streams -> StreamType] /\ st[s] \in StreamType
      /\ Sizes(st[s]) /\ Flow(s, st[s]) /\ Phases(s, st[s]) /\ Months(s) /\ faults \in Nat
  BY StreamFacts
<1> DEFINE x == [st[s] EXCEPT !.a = "push"]
<1>1. /\ st[s].a = "select" /\ st' = [st EXCEPT ![s] = x] /\ UNCHANGED <<shared, faults>>
  BY <1>0 DEF BatchDue
<1>2. /\ x \in StreamType /\ x.a = "push" /\ x.cur = st[s].cur
      /\ x.batchesClosed = st[s].batchesClosed
  BY <1>0 DEF StreamType
<1>3. /\ SameR(x, st[s]) /\ x.batches = st[s].batches /\ SameB(x, st[s]) /\ SameM(x, st[s])
      /\ SameE(x, st[s])
  BY <1>0 DEF StreamType, SameR, SameB, SameM, SameE
<1> HIDE DEF x
<1>4. Given(x) = Given(st[s])
  BY <1>3 DEF Given, SameR
<1>5. /\ Arrived(s, x) = Arrived(s, st[s]) /\ Underway(x) = Underway(st[s])
      /\ Settled(s, x) = Settled(s, st[s])
  BY <1>2, <1>3, <1>4, SameRows DEF SameB
<1>6. Sizes(x)
  BY <1>0, <1>1, <1>2, <1>3 DEF Sizes, SameB
<1>7. Flow(s, x)
  BY <1>0, <1>2, <1>3, <1>5 DEF Flow, SameR, SameB
<1>8. Phases(s, x)
  BY <1>0, <1>1, <1>2, <1>3 DEF Phases, SameR, SameB, SameE
<1>9. UNCHANGED shared /\ faults' = faults /\ (faults = 0 => st[s].err = "none")
  BY <1>0, <1>1 DEF Months
<1> QED
  BY <1>0, <1>1, <1>2, <1>3, <1>5, <1>6, <1>7, <1>8, <1>9, LocalStep DEF SameB, SameM, SameE

\* The storing goroutine has drained a closed channel.
LEMMA StoreEndsInv ==
    ASSUME IngestInv, NEW s \in Streams, StoreEnds(s)
    PROVE  IngestInv'
<1>0. /\ st \in [Streams -> StreamType] /\ st[s] \in StreamType
      /\ Sizes(st[s]) /\ Flow(s, st[s]) /\ Phases(s, st[s]) /\ Months(s) /\ faults \in Nat
  BY StreamFacts
<1> DEFINE x == [st[s] EXCEPT !.b = "end"]
<1>1. /\ st[s].b = "range" /\ st[s].batches = <<>> /\ st[s].batchesClosed
      /\ st' = [st EXCEPT ![s] = x] /\ UNCHANGED <<shared, faults>>
  BY <1>0 DEF StoreEnds
<1>2. x \in StreamType /\ x.b = "end" /\ x.batch = st[s].batch
  BY <1>0 DEF StreamType
<1>3. /\ SameR(x, st[s]) /\ SameA(x, st[s]) /\ x.batches = st[s].batches /\ SameM(x, st[s])
      /\ SameE(x, st[s])
  BY <1>0 DEF StreamType, SameR, SameA, SameM, SameE
<1> HIDE DEF x
<1>4. Given(x) = Given(st[s])
  BY <1>3 DEF Given, SameR
<1>5. /\ Arrived(s, x) = Arrived(s, st[s]) /\ Underway(x) = Underway(st[s])
      /\ Settled(s, x) = Settled(s, st[s])
  BY <1>2, <1>3, <1>4, SameRows DEF SameA
<1>6. Sizes(x)
  BY <1>0, <1>2, <1>3 DEF Sizes, SameA
<1>7. Flow(s, x)
  BY <1>0, <1>2, <1>3, <1>5 DEF Flow, SameR, SameA
<1>8. Phases(s, x)
  BY <1>0, <1>1, <1>2, <1>3 DEF Phases, SameR, SameA, SameE
<1>9. UNCHANGED shared /\ faults' = faults /\ (faults = 0 => st[s].err = "none")
  BY <1>0, <1>1 DEF Months
<1> QED
  BY <1>0, <1>1, <1>2, <1>3, <1>5, <1>6, <1>7, <1>8, <1>9, LocalStep DEF SameM, SameE

\* The answer: "ok" only when the three goroutines ended without an error.
LEMMA AnswerInv ==
    ASSUME IngestInv, NEW s \in Streams, Answer(s)
    PROVE  IngestInv'
<1>0. /\ st \in [Streams -> StreamType] /\ st[s] \in StreamType
      /\ Sizes(st[s]) /\ Flow(s, st[s]) /\ Phases(s, st[s]) /\ Months(s) /\ faults \in Nat
  BY StreamFacts
<1> DEFINE v == IF st[s].err # "none" THEN st[s].err ELSE "ok"
           x == [st[s] EXCEPT !.answer = v]
<1>1. /\ st[s].r = "end" /\ st[s].a = "end" /\ st[s].b = "end"
      /\ st' = [st EXCEPT ![s] = x] /\ UNCHANGED <<shared, faults>>
  BY <1>0 DEF Answer, Cancelled
<1>2. v \in {"none", "ok", "canceled", "store"} /\ (v = "ok" => st[s].err = "none")
  <2>1. st[s].err \in {"none", "canceled", "store"}
    BY <1>0 DEF StreamType
  <2> QED
    BY <2>1
<1> HIDE DEF v
<1>3. x \in StreamType /\ x.answer = v /\ x.err = st[s].err /\ x.total = st[s].total
  BY <1>0, <1>2 DEF StreamType
<1>4. /\ SameR(x, st[s]) /\ SameA(x, st[s]) /\ x.batches = st[s].batches /\ SameB(x, st[s])
      /\ SameM(x, st[s])
  BY <1>0 DEF StreamType, SameR, SameA, SameB, SameM
<1> HIDE DEF x
<1>5. Given(x) = Given(st[s])
  BY <1>4 DEF Given, SameR
<1>6. /\ Arrived(s, x) = Arrived(s, st[s]) /\ Underway(x) = Underway(st[s])
      /\ Settled(s, x) = Settled(s, st[s])
  BY <1>4, <1>5, SameRows DEF SameA, SameB
<1>7. Sizes(x)
  BY <1>0, <1>4 DEF Sizes, SameA, SameB
<1>8. Flow(s, x)
  BY <1>0, <1>4, <1>6 DEF Flow, SameR, SameA, SameB
<1>9. Phases(s, x)
  BY <1>0, <1>1, <1>2, <1>3, <1>4 DEF Phases, SameR, SameA, SameB
<1>10. UNCHANGED shared /\ faults' = faults /\ (faults = 0 => st[s].err = "none")
  BY <1>0, <1>1 DEF Months
<1> QED
  BY <1>0, <1>1, <1>3, <1>4, <1>6, <1>7, <1>8, <1>9, <1>10, LocalStep DEF SameB, SameM

\* No more requests: what is collected is pushed, if there is anything.
LEMMA BatchEOFInv ==
    ASSUME IngestInv, NEW s \in Streams, BatchEOF(s)
    PROVE  IngestInv'
<1>0. /\ st \in [Streams -> StreamType] /\ st[s] \in StreamType
      /\ Sizes(st[s]) /\ Flow(s, st[s]) /\ Phases(s, st[s]) /\ Months(s) /\ faults \in Nat
  BY StreamFacts
<1> DEFINE x == AtEOF(st[s])
<1>1. /\ st[s].a = "select" /\ st[s].reqsClosed
      /\ st' = [st EXCEPT ![s] = x] /\ UNCHANGED <<shared, faults>>
  BY <1>0 DEF BatchEOF
<1>2. /\ x \in StreamType /\ x.cur = st[s].cur
      /\ \/ st[s].cur = {} /\ x.a = "end" /\ x.batchesClosed
         \/ x.a = "pushLast" /\ x.batchesClosed = st[s].batchesClosed
  <2>1. CASE st[s].cur = {}
    BY <1>0, <2>1 DEF StreamType, AtEOF
  <2>2. CASE st[s].cur # {}
    BY <1>0, <2>2 DEF StreamType, AtEOF
  <2> QED
    BY <2>1, <2>2
<1>3. /\ SameR(x, st[s]) /\ x.batches = st[s].batches /\ SameB(x, st[s]) /\ SameM(x, st[s])
      /\ SameE(x, st[s])
  <2>1. CASE st[s].cur = {}
    BY <1>0, <2>1 DEF StreamType, AtEOF, SameR, SameB, SameM, SameE
  <2>2. CASE st[s].cur # {}
    BY <1>0, <2>2 DEF StreamType, AtEOF, SameR, SameB, SameM, SameE
  <2> QED
    BY <2>1, <2>2
<1> HIDE DEF x
<1>4. Given(x) = Given(st[s])
  BY <1>3 DEF Given, SameR
<1>5. /\ Arrived(s, x) = Arrived(s, st[s]) /\ Underway(x) = Underway(st[s])
      /\ Settled(s, x) = Settled(s, st[s])
  BY <1>2, <1>3, <1>4, SameRows DEF SameB
<1>6. Sizes(x)
  BY <1>0, <1>1, <1>2, <1>3 DEF Sizes, SameB
<1>7. Flow(s, x)
  BY <1>0, <1>2, <1>3, <1>5 DEF Flow, SameR, SameB
<1>8. Phases(s, x)
  BY <1>0, <1>1, <1>2, <1>3 DEF Phases, SameR, SameB, SameE
<1>9. UNCHANGED shared /\ faults' = faults /\ (faults = 0 => st[s].err = "none")
  BY <1>0, <1>1 DEF Months
<1> QED
  BY <1>0, <1>1, <1>2, <1>3, <1>5, <1>6, <1>7, <1>8, <1>9, LocalStep DEF SameB, SameM, SameE

\* An empty batch is small.
LEMMA EmptySized == Sized({}) /\ Cardinality({}) < BatchMax
BY FS_EmptySet, IngestAssumption DEF Sized

\* The batching goroutine drops what it has collected, after an error.
LEMMA BatchStopsInv ==
    ASSUME IngestInv, NEW s \in Streams, BatchStops(s)
    PROVE  IngestInv'
<1>0. /\ st \in [Streams -> StreamType] /\ st[s] \in StreamType
      /\ Sizes(st[s]) /\ Flow(s, st[s]) /\ Phases(s, st[s]) /\ Months(s) /\ faults \in Nat
  BY StreamFacts
<1> DEFINE x == [st[s] EXCEPT !.a = "end", !.cur = {}, !.batchesClosed = TRUE]
<1>1. /\ st[s].err # "none" /\ st' = [st EXCEPT ![s] = x] /\ UNCHANGED <<shared, faults>>
  BY <1>0 DEF BatchStops, BatchMayStop, Cancelled
<1>2. x \in StreamType /\ x.a = "end" /\ x.cur = {} /\ x.batchesClosed
  <2>1. {} \in SUBSET Places
    OBVIOUS
  <2> QED
    BY <1>0, <2>1 DEF StreamType
<1>3. /\ SameR(x, st[s]) /\ x.batches = st[s].batches /\ SameB(x, st[s]) /\ SameM(x, st[s])
      /\ SameE(x, st[s])
  BY <1>0 DEF StreamType, SameR, SameB, SameM, SameE
<1> HIDE DEF x
<1>4. Given(x) = Given(st[s])
  BY <1>3 DEF Given, SameR
<1>5. Arrived(s, x) = Arrived(s, st[s]) /\ Underway(x) \subseteq Underway(st[s])
  BY <1>2, <1>3, <1>4 DEF Arrived, Underway, SameB
<1>6. Sizes(x)
  BY <1>0, <1>2, <1>3, EmptySized DEF Sizes, SameB
<1>7. Flow(s, x)
  BY <1>0, <1>2, <1>3, <1>5 DEF Flow, SameR, SameB
<1>8. Phases(s, x)
  BY <1>0, <1>1, <1>2, <1>3 DEF Phases, SameR, SameB, SameE
<1>9. UNCHANGED shared /\ faults' = faults /\ (faults = 0 => st[s].err = "none")
  BY <1>0, <1>1 DEF Months
<1> QED
  BY <1>0, <1>1, <1>2, <1>3, <1>6, <1>7, <1>8, <1>9, LocalStep DEF SameB, SameM, SameE

\* A queue with one more batch.
LEMMA QueuedAppend ==
    ASSUME NEW q \in Seq(SUBSET Places), NEW c \in SUBSET Places
    PROVE  /\ Append(q, c) \in Seq(SUBSET Places) /\ Len(Append(q, c)) = Len(q) + 1
           /\ Queued(Append(q, c)) = Queued(q) \cup c
           /\ \A i \in DOMAIN Append(q, c) :
                 (i \in DOMAIN q /\ Append(q, c)[i] = q[i])
                 \/ (i = Len(q) + 1 /\ i \notin DOMAIN q /\ Append(q, c)[i] = c)
<1>1. /\ Append(q, c) \in Seq(SUBSET Places) /\ Len(Append(q, c)) = Len(q) + 1
      /\ DOMAIN Append(q, c) = DOMAIN q \cup {Len(q) + 1}
      /\ \A i \in DOMAIN q : Append(q, c)[i] = q[i]
      /\ Append(q, c)[Len(q) + 1] = c /\ Len(q) + 1 \notin DOMAIN q
  OBVIOUS
<1>2. Queued(Append(q, c)) = Queued(q) \cup c
  BY <1>1 DEF Queued
<1> QED
  BY <1>1, <1>2

\* A batch is queued: its rows move from the collected ones to the queue.
LEMMA PushInv ==
    ASSUME IngestInv, NEW s \in Streams, Push(s)
    PROVE  IngestInv'
<1>0. /\ st \in [Streams -> StreamType] /\ st[s] \in StreamType
      /\ Sizes(st[s]) /\ Flow(s, st[s]) /\ Phases(s, st[s]) /\ Months(s) /\ faults \in Nat
  BY StreamFacts
<1> DEFINE q == Append(st[s].batches, st[s].cur)
           last == st[s].a = "pushLast"
           v == IF st[s].a = "push" THEN "select" ELSE "end"
           x == [st[s] EXCEPT !.batches = q, !.cur = {}, !.a = v, !.batchesClosed = last]
<1>1. /\ st[s].a \in {"push", "pushLast"} /\ Len(st[s].batches) < QueueBatches
      /\ st' = [st EXCEPT ![s] = x] /\ UNCHANGED <<shared, faults>>
  BY <1>0 DEF Push, Room
<1>2. st[s].batches \in Seq(SUBSET Places) /\ st[s].cur \in SUBSET Places
  BY <1>0 DEF StreamType
<1>3. /\ q \in Seq(SUBSET Places) /\ Len(q) = Len(st[s].batches) + 1
      /\ Queued(q) = Queued(st[s].batches) \cup st[s].cur
      /\ \A i \in DOMAIN q :
            (i \in DOMAIN st[s].batches /\ q[i] = st[s].batches[i])
            \/ (i = Len(st[s].batches) + 1 /\ i \notin DOMAIN st[s].batches /\ q[i] = st[s].cur)
  BY <1>2, QueuedAppend
<1>4. /\ last \in BOOLEAN /\ v \in {"select", "push", "pushLast", "end"}
      /\ (v = "end" <=> last) /\ (last => st[s].a = "pushLast") /\ v \in {"select", "end"}
  BY <1>1
<1> HIDE DEF q, last, v
<1>5. x \in StreamType /\ x.batches = q /\ x.cur = {} /\ x.a = v /\ x.batchesClosed = last
  <2>1. {} \in SUBSET Places
    OBVIOUS
  <2> QED
    BY <1>0, <1>3, <1>4, <2>1 DEF StreamType
<1>6. SameR(x, st[s]) /\ SameB(x, st[s]) /\ SameM(x, st[s]) /\ SameE(x, st[s])
  BY <1>0 DEF StreamType, SameR, SameB, SameM, SameE
<1> HIDE DEF x
<1>7. Given(x) = Given(st[s])
  BY <1>6 DEF Given, SameR
<1>8. /\ Arrived(s, x) = Arrived(s, st[s]) /\ Underway(x) = Underway(st[s])
      /\ Settled(s, x) = Settled(s, st[s])
  BY <1>3, <1>5, <1>6, <1>7 DEF Arrived, Underway, Settled, SameB
<1>9. Sizes(x)
  <2>1. Len(st[s].batches) \in Nat /\ QueueBatches \in Nat
    BY <1>2, IngestAssumption
  <2>2. Len(q) <= QueueBatches
    BY <1>1, <1>3, <2>1
  <2>3. \A i \in DOMAIN q : Sized(q[i])
    BY <1>0, <1>3 DEF Sizes
  <2> QED
    BY <1>0, <1>5, <1>6, <2>2, <2>3, EmptySized DEF Sizes, SameB
<1>10. Flow(s, x)
  <2>1. \A i \in DOMAIN q : q[i] \cap (x.cur \cup x.batch) = {}
    BY <1>0, <1>3, <1>5, <1>6 DEF Flow, SameB
  <2>2. \A i, j \in DOMAIN q : i # j => q[i] \cap q[j] = {}
    BY <1>0, <1>3 DEF Flow
  <2> QED
    BY <1>0, <1>5, <1>6, <1>8, <2>1, <2>2 DEF Flow, SameR
<1>11. Phases(s, x)
  <2>1. st[s].err = "none" /\ v = "end" => st[s].r = "end"
    BY <1>0, <1>4 DEF Phases
  <2>2. st[s].b # "end" \/ st[s].err # "none"
    BY <1>0, <1>1 DEF Phases
  <2>3. st[s].answer # "ok"
    BY <1>0, <1>1 DEF Phases
  <2> QED
    BY <1>0, <1>4, <1>5, <1>6, <2>1, <2>2, <2>3 DEF Phases, SameR, SameB, SameE
<1>12. UNCHANGED shared /\ faults' = faults /\ (faults = 0 => st[s].err = "none")
  BY <1>0, <1>1 DEF Months
<1> QED
  BY <1>0, <1>1, <1>5, <1>6, <1>8, <1>9, <1>10, <1>11, <1>12, LocalStep DEF SameB, SameM, SameE

\* The rows of a request are collected: they arrive, and they are underway.
LEMMA BatchReceiveInv ==
    ASSUME IngestInv, NEW s \in Streams, BatchReceive(s)
    PROVE  IngestInv'
<1>0. /\ st \in [Streams -> StreamType] /\ st[s] \in StreamType
      /\ Sizes(st[s]) /\ Flow(s, st[s]) /\ Phases(s, st[s]) /\ Months(s) /\ faults \in Nat
  BY StreamFacts
<1> DEFINE E == extract(s, st[s].received)
           c == st[s].cur \cup E
           v == IF Full(c) THEN "push" ELSE "select"
           x == [st[s] EXCEPT !.r = "recv", !.cur = c, !.a = v]
<1>1. /\ st[s].a = "select" /\ st[s].r = "send"
      /\ st' = [st EXCEPT ![s] = x] /\ UNCHANGED <<shared, faults>>
  BY <1>0 DEF BatchReceive
<1>2. /\ st[s].received \in DOMAIN Requests[s] /\ st[s].received \in Nat
      /\ st[s].cur \in SUBSET Places
  <2>1. st[s].received \in Nat /\ st[s].cur \in SUBSET Places
    BY <1>0 DEF StreamType
  <2>2. DOMAIN Requests[s] = 1 .. Len(Requests[s]) /\ Len(Requests[s]) \in Nat
    BY IngestAssumption
  <2>3. st[s].received <= Len(Requests[s]) /\ st[s].received > 0
    BY <1>0, <1>1 DEF Flow
  <2> QED
    BY <2>1, <2>2, <2>3
<1>3. /\ E \subseteq Places /\ IsFiniteSet(E) /\ Cardinality(E) <= RequestMax
      /\ E = {p \in AllRows(s) : p[1] = st[s].received}
  BY <1>2, ExtractRows
<1>4. c = st[s].cur \cup E /\ c \in SUBSET Places
  BY <1>2, <1>3
<1>5. v \in {"push", "select"} /\ (v = "select" => ~(Cardinality(c) >= BatchMax))
  BY DEF Full
<1> HIDE DEF E, c, v
<1>6. x \in StreamType /\ x.r = "recv" /\ x.cur = c /\ x.a = v
  BY <1>0, <1>4, <1>5 DEF StreamType
<1>7. /\ x.received = st[s].received /\ x.reqsClosed = st[s].reqsClosed
      /\ x.batchesClosed = st[s].batchesClosed /\ x.batches = st[s].batches
  BY <1>0 DEF StreamType
<1>8. SameB(x, st[s]) /\ SameM(x, st[s]) /\ SameE(x, st[s])
  BY <1>0 DEF StreamType, SameB, SameM, SameE
<1> HIDE DEF x
<1>9. Given(st[s]) = st[s].received - 1 /\ Given(x) = st[s].received
  BY <1>1, <1>6, <1>7 DEF Given
<1>10. Arrived(s, x) = Arrived(s, st[s]) \cup E /\ Arrived(s, st[s]) \cap E = {}
  <2>1. \A p \in AllRows(s) : p[1] \in Nat
    BY RowsFinite DEF Places
  <2> QED
    BY <1>2, <1>3, <1>9, <2>1 DEF Arrived
<1>11. Underway(x) = Underway(st[s]) \cup E
  BY <1>4, <1>6, <1>7, <1>8 DEF Underway, SameB
<1>12. Settled(s, x) = Settled(s, st[s])
  BY <1>10, <1>11 DEF Settled
<1>13. Sizes(x)
  <2>1. IsFiniteSet(st[s].cur)
    BY <1>0, FlowFinite
  <2>2. /\ IsFiniteSet(c)
        /\ Cardinality(c) = Cardinality(st[s].cur) + Cardinality(E) - Cardinality(st[s].cur \cap E)
    BY <1>3, <1>4, <2>1, FS_Union
  <2>3. /\ Cardinality(c) \in Nat /\ Cardinality(st[s].cur) \in Nat /\ Cardinality(E) \in Nat
        /\ Cardinality(st[s].cur \cap E) \in Nat
    BY <1>3, <2>1, <2>2, FS_CardinalityType, FS_Intersection
  <2>4. Cardinality(st[s].cur) < BatchMax
    BY <1>0, <1>1 DEF Sizes
  <2>5. BatchMax \in Nat /\ RequestMax \in Nat
    BY IngestAssumption
  <2>6. Sized(c)
    BY <1>3, <2>2, <2>3, <2>4, <2>5 DEF Sized
  <2>7. v = "select" => Cardinality(c) < BatchMax
    BY <1>5, <2>3, <2>5
  <2> QED
    BY <1>0, <1>6, <1>7, <1>8, <2>6, <2>7 DEF Sizes, SameB
<1>14. Flow(s, x)
  <2>1. Underway(st[s]) \cap E = {}
    BY <1>0, <1>10 DEF Flow
  <2>2. /\ st[s].batch \cap E = {}
        /\ \A i \in DOMAIN st[s].batches : st[s].batches[i] \cap E = {}
    BY <2>1 DEF Underway, Queued
  <2>3. x.cur \cap x.batch = {}
    BY <1>0, <1>4, <1>6, <1>8, <2>2 DEF Flow, SameB
  <2>4. \A i \in DOMAIN x.batches : x.batches[i] \cap (x.cur \cup x.batch) = {}
    BY <1>0, <1>4, <1>6, <1>7, <1>8, <2>2 DEF Flow, SameB
  <2>5. Underway(x) \subseteq Arrived(s, x)
    BY <1>0, <1>10, <1>11 DEF Flow
  <2> QED
    BY <1>0, <1>6, <1>7, <2>3, <2>4, <2>5 DEF Flow
<1>15. Phases(s, x)
  <2>1. st[s].b # "end" \/ st[s].err # "none"
    BY <1>0, <1>1 DEF Phases
  <2>2. st[s].answer # "ok" /\ ~st[s].reqsClosed /\ ~st[s].batchesClosed
    BY <1>0, <1>1 DEF Phases
  <2> QED
    BY <1>0, <1>5, <1>6, <1>7, <1>8, <2>1, <2>2 DEF Phases, SameB, SameE
<1>16. UNCHANGED shared /\ faults' = faults /\ (faults = 0 => st[s].err = "none")
  BY <1>0, <1>1 DEF Months
<1> QED
  BY <1>0, <1>1, <1>6, <1>8, <1>12, <1>13, <1>14, <1>15, <1>16, LocalStep DEF SameB, SameM, SameE

\* A queue without its first batch.
LEMMA QueuedTail ==
    ASSUME NEW q \in Seq(SUBSET Places), q # <<>>
    PROVE  /\ Head(q) \in SUBSET Places /\ Tail(q) \in Seq(SUBSET Places)
           /\ Len(Tail(q)) = Len(q) - 1 /\ 1 \in DOMAIN q /\ Head(q) = q[1]
           /\ \A i \in DOMAIN Tail(q) :
                 i \in Nat /\ i + 1 \in DOMAIN q /\ i + 1 # 1 /\ Tail(q)[i] = q[i + 1]
           /\ Queued(q) = Head(q) \cup Queued(Tail(q))
<1>1. /\ Head(q) \in SUBSET Places /\ Tail(q) \in Seq(SUBSET Places)
      /\ Len(Tail(q)) = Len(q) - 1 /\ 1 \in DOMAIN q /\ Head(q) = q[1]
      /\ \A i \in DOMAIN Tail(q) :
            i \in Nat /\ i + 1 \in DOMAIN q /\ i + 1 # 1 /\ Tail(q)[i] = q[i + 1]
  OBVIOUS
<1>2. \A j \in DOMAIN q : j = 1 \/ (j - 1 \in DOMAIN Tail(q) /\ Tail(q)[j - 1] = q[j])
  OBVIOUS
<1>3. Queued(q) \subseteq Head(q) \cup Queued(Tail(q))
  <2> SUFFICES ASSUME NEW p \in Queued(q), p \notin Head(q) PROVE p \in Queued(Tail(q))
    OBVIOUS
  <2>1. PICK j \in DOMAIN q : p \in q[j]
    BY DEF Queued
  <2>2. j - 1 \in DOMAIN Tail(q) /\ Tail(q)[j - 1] = q[j]
    BY <1>1, <1>2, <2>1
  <2> QED
    BY <2>1, <2>2 DEF Queued
<1>4. Head(q) \cup Queued(Tail(q)) \subseteq Queued(q)
  BY <1>1 DEF Queued
<1> QED
  BY <1>1, <1>3, <1>4

\* Where the storing goroutine goes with a batch, or with the rest of one.
LEMMA StartFacts ==
    ASSUME NEW s, NEW batch
    PROVE  /\ Start(s, batch) \in {"range", "lock", "txn"}
           /\ Start(s, batch) = "range" => batch = {}
           /\ Start(s, batch) = "txn" => \A p \in batch : ~Partitioned(Row(s, p).tbl)
BY DEF Start

\* A queued batch is taken: its rows move to the batch being stored.
LEMMA StoreTakeInv ==
    ASSUME IngestInv, NEW s \in Streams, StoreTake(s)
    PROVE  IngestInv'
<1>0. /\ st \in [Streams -> StreamType] /\ st[s] \in StreamType
      /\ Sizes(st[s]) /\ Flow(s, st[s]) /\ Phases(s, st[s]) /\ Months(s) /\ faults \in Nat
  BY StreamFacts
<1> DEFINE h == Head(st[s].batches)
           q == Tail(st[s].batches)
           v == Start(s, h)
           x == [st[s] EXCEPT !.batches = q, !.batch = h, !.b = v]
<1>1. /\ st[s].b = "range" /\ st[s].batches # <<>>
      /\ st' = [st EXCEPT ![s] = x] /\ UNCHANGED <<shared, faults>>
  BY <1>0 DEF StoreTake
<1>2. st[s].batches \in Seq(SUBSET Places) /\ st[s].batch = {}
  BY <1>0, <1>1 DEF StreamType, Phases
<1>3. /\ h \in SUBSET Places /\ q \in Seq(SUBSET Places) /\ Len(q) = Len(st[s].batches) - 1
      /\ 1 \in DOMAIN st[s].batches /\ h = st[s].batches[1]
      /\ \A i \in DOMAIN q : /\ i \in Nat /\ i + 1 \in DOMAIN st[s].batches /\ i + 1 # 1
                             /\ q[i] = st[s].batches[i + 1]
      /\ Queued(st[s].batches) = h \cup Queued(q)
  BY <1>1, <1>2, QueuedTail
<1>4. /\ v \in {"range", "lock", "txn"} /\ (v = "range" => h = {})
      /\ (v = "txn" => \A p \in h : ~Partitioned(Row(s, p).tbl))
  BY StartFacts
<1> HIDE DEF h, q, v
<1>5. x \in StreamType /\ x.batches = q /\ x.batch = h /\ x.b = v
  BY <1>0, <1>3, <1>4 DEF StreamType
<1>6. SameR(x, st[s]) /\ SameA(x, st[s]) /\ SameM(x, st[s]) /\ SameE(x, st[s])
  BY <1>0 DEF StreamType, SameR, SameA, SameM, SameE
<1> HIDE DEF x
<1>7. Given(x) = Given(st[s])
  BY <1>6 DEF Given, SameR
<1>8. /\ Arrived(s, x) = Arrived(s, st[s]) /\ Underway(x) = Underway(st[s])
      /\ Settled(s, x) = Settled(s, st[s])
  BY <1>2, <1>3, <1>5, <1>6, <1>7 DEF Arrived, Underway, Settled, SameA
<1>9. Sizes(x)
  <2>1. Len(st[s].batches) \in Nat /\ QueueBatches \in Nat
    BY <1>2, IngestAssumption
  <2>2. Len(q) <= QueueBatches
    BY <1>0, <1>3, <2>1 DEF Sizes
  <2>3. Sized(h) /\ \A i \in DOMAIN q : Sized(q[i])
    BY <1>0, <1>3 DEF Sizes
  <2> QED
    BY <1>0, <1>5, <1>6, <2>2, <2>3 DEF Sizes, SameA
<1>10. Flow(s, x)
  <2>1. \A i \in DOMAIN q : q[i] \cap (st[s].cur \cup h) = {}
    BY <1>0, <1>3 DEF Flow
  <2>2. \A i, j \in DOMAIN q : i # j => q[i] \cap q[j] = {}
    <3> SUFFICES ASSUME NEW i \in DOMAIN q, NEW j \in DOMAIN q, i # j PROVE q[i] \cap q[j] = {}
      OBVIOUS
    <3>1. /\ i + 1 \in DOMAIN st[s].batches /\ j + 1 \in DOMAIN st[s].batches /\ i + 1 # j + 1
          /\ q[i] = st[s].batches[i + 1] /\ q[j] = st[s].batches[j + 1]
      BY <1>3
    <3> QED
      BY <1>0, <3>1 DEF Flow
  <2>3. st[s].cur \cap h = {}
    BY <1>0, <1>3 DEF Flow
  <2> QED
    BY <1>0, <1>5, <1>6, <1>8, <2>1, <2>2, <2>3 DEF Flow, SameR, SameA
<1>11. Phases(s, x)
  BY <1>0, <1>1, <1>4, <1>5, <1>6 DEF Phases, SameR, SameA, SameE
<1>12. UNCHANGED shared /\ faults' = faults /\ (faults = 0 => st[s].err = "none")
  BY <1>0, <1>1 DEF Months
<1> QED
  BY <1>0, <1>1, <1>4, <1>5, <1>6, <1>8, <1>9, <1>10, <1>11, <1>12, LocalStep DEF SameM, SameE

------------------------------------------------------------------------------
(* Partitions.                                                             *)

\* A step under s.mu: the rows stay where they are, the tables are not written.
LEMMA PartitionStep ==
    ASSUME IngestInv, NEW s \in Streams, NEW x \in StreamType, st' = [st EXCEPT ![s] = x],
           on' = on, table' = table, devices' = devices, faults' = faults,
           mu' \in [Replicas -> Streams \cup {NoOne}], seen' \in [Replicas -> SUBSET Nat],
           partitions \subseteq partitions', partitions' \subseteq Nat, SeenExist',
           SameR(x, st[s]), SameA(x, st[s]), x.batches = st[s].batches, x.batch = st[s].batch,
           SameE(x, st[s]), st[s].b \notin {"range", "end"}, x.b \notin {"range", "end"}, Months(s)'
    PROVE  IngestInv'
<1>0. /\ st \in [Streams -> StreamType] /\ st[s] \in StreamType
      /\ Sizes(st[s]) /\ Flow(s, st[s]) /\ Phases(s, st[s]) /\ Accounted(s) /\ Months(s)
      /\ faults \in Nat
  BY StreamFacts
<1>1. st'[s] = x /\ \A t \in Streams \ {s} : st'[t] = st[t]
  BY <1>0
<1>2. Given(x) = Given(st[s])
  BY DEF Given, SameR
<1>3. /\ Arrived(s, x) = Arrived(s, st[s]) /\ Underway(x) = Underway(st[s])
      /\ Settled(s, x) = Settled(s, st[s])
  BY <1>2, SameRows DEF SameA
<1>4. Sizes(x)
  BY <1>0 DEF Sizes, SameA
<1>5. Flow(s, x)
  BY <1>0, <1>3 DEF Flow, SameR, SameA
<1>6. Phases(s, x)
  BY <1>0 DEF Phases, SameR, SameA, SameE
<1>7. Accounted(s)'
  BY <1>0, <1>1, <1>3 DEF Accounted, Stored, SameE
<1>8. \A t \in Streams : st'[t].total = st[t].total
  BY <1>1 DEF SameE
<1>9. AcceptedOnce'
  BY <1>8 DEF IngestInv, AcceptedOnce
<1>10. PartitionBeforeInsert' /\ IsFiniteSet(table')
  BY DEF IngestInv, IngestTypes, PartitionBeforeInsert
<1> QED
  BY <1>0, <1>4, <1>5, <1>6, <1>7, <1>9, <1>10, Step

\* s.mu is taken.
LEMMA LockInv ==
    ASSUME IngestInv, NEW s \in Streams, Lock(s)
    PROVE  IngestInv'
<1>0. /\ st \in [Streams -> StreamType] /\ st[s] \in StreamType
      /\ Sizes(st[s]) /\ Flow(s, st[s]) /\ Phases(s, st[s]) /\ Accounted(s) /\ Months(s)
      /\ faults \in Nat
  BY StreamFacts
<1> DEFINE x == [st[s] EXCEPT !.b = "months", !.attempt = 0]
<1>1. /\ st[s].b = "lock" /\ st' = [st EXCEPT ![s] = x] /\ mu' = [mu EXCEPT ![on[s]] = s]
      /\ UNCHANGED <<on, table, devices, partitions, seen, faults>>
  BY <1>0 DEF Lock
<1>2. /\ x \in StreamType /\ x.b = "months" /\ x.attempt = 0 /\ x.batch = st[s].batch
      /\ x.batches = st[s].batches
  BY <1>0 DEF StreamType
<1>3. SameR(x, st[s]) /\ SameA(x, st[s]) /\ SameE(x, st[s])
  BY <1>0 DEF StreamType, SameR, SameA, SameE
<1> HIDE DEF x
<1>4. st'[s] = x
  BY <1>0, <1>1
<1>5. Months(s)'
  BY <1>0, <1>1, <1>2, <1>3, <1>4 DEF Months, SameE
<1>6. /\ mu' \in [Replicas -> Streams \cup {NoOne}] /\ seen' \in [Replicas -> SUBSET Nat]
      /\ partitions' \subseteq Nat /\ SeenExist'
  BY <1>1 DEF IngestInv, IngestTypes, SeenExist
<1> QED
  BY <1>1, <1>2, <1>3, <1>5, <1>6, PartitionStep

\* Every month of the batch has been seen, so it exists: the insert begins.
LEMMA PartitionsReadyInv ==
    ASSUME IngestInv, NEW s \in Streams, PartitionsReady(s)
    PROVE  IngestInv'
<1>0. /\ st \in [Streams -> StreamType] /\ st[s] \in StreamType
      /\ Sizes(st[s]) /\ Flow(s, st[s]) /\ Phases(s, st[s]) /\ Accounted(s) /\ Months(s)
      /\ faults \in Nat
  BY StreamFacts
<1> DEFINE x == [st[s] EXCEPT !.b = "txn"]
<1>1. /\ st[s].b = "months" /\ Unseen(s) = {}
      /\ st' = [st EXCEPT ![s] = x] /\ mu' = [mu EXCEPT ![on[s]] = NoOne]
      /\ UNCHANGED <<on, table, devices, partitions, seen, faults>>
  BY <1>0 DEF PartitionsReady
<1>2. /\ x \in StreamType /\ x.b = "txn" /\ x.batch = st[s].batch /\ x.batches = st[s].batches
  BY <1>0 DEF StreamType
<1>3. SameR(x, st[s]) /\ SameA(x, st[s]) /\ SameM(x, st[s]) /\ SameE(x, st[s])
  BY <1>0 DEF StreamType, SameR, SameA, SameM, SameE
<1> HIDE DEF x
<1>4. st'[s] = x
  BY <1>0, <1>1
<1>5. \A p \in st[s].batch : Partitioned(Row(s, p).tbl) => MonthOf(Row(s, p)) \in partitions
  <2>1. on[s] \in Replicas /\ seen[on[s]] \subseteq partitions
    BY DEF IngestInv, IngestTypes, SeenExist
  <2>2. \A p \in RowsOf(s, "cycle_events") : MonthOf(Row(s, p)) \in seen[on[s]]
    BY <1>1 DEF Unseen
  <2> QED
    BY <2>1, <2>2 DEF RowsOf, Partitioned
<1>6. Months(s)'
  BY <1>0, <1>1, <1>2, <1>3, <1>4, <1>5 DEF Months, SameM, SameE
<1>7. /\ mu' \in [Replicas -> Streams \cup {NoOne}] /\ seen' \in [Replicas -> SUBSET Nat]
      /\ partitions' \subseteq Nat /\ SeenExist'
  BY <1>1 DEF IngestInv, IngestTypes, SeenExist
<1> QED
  BY <1>1, <1>2, <1>3, <1>6, <1>7, PartitionStep

\* The months of a stream's rows are numbers.
LEMMA MonthNat ==
    ASSUME IngestInv, NEW s \in Streams, NEW m \in Unseen(s)
    PROVE  m \in Nat
<1>1. PICK p \in st[s].batch : m = MonthOf(Row(s, p))
  BY DEF Unseen, RowsOf
<1>2. p \in AllRows(s)
  BY <1>1, StreamFacts DEF Flow, Underway, Arrived
<1>3. Row(s, p) \in Items
  BY <1>2, RowsFinite
<1>4. EventTime(Row(s, p)) \in Nat
  BY <1>3 DEF EventTime, Items
<1>5. \A n \in Nat, k \in Nat \ {0} : n \div k \in Nat
  OBVIOUS
<1> QED
  BY <1>1, <1>4, <1>5, IngestAssumption DEF MonthOf

\* A month is looked for: seen when it exists, about to be created otherwise.
LEMMA CreateBeginInv ==
    ASSUME IngestInv, NEW s \in Streams, NEW m \in Unseen(s), CreateBegin(s, m)
    PROVE  IngestInv'
<1>0. /\ st \in [Streams -> StreamType] /\ st[s] \in StreamType
      /\ Sizes(st[s]) /\ Flow(s, st[s]) /\ Phases(s, st[s]) /\ Accounted(s) /\ Months(s)
      /\ faults \in Nat
  BY StreamFacts
<1>1. /\ st[s].b = "months" /\ (st[s].attempt = 1 => m = st[s].month)
      /\ UNCHANGED <<on, table, devices, partitions, mu, faults>>
  BY DEF CreateBegin
<1>2. m \in Nat
  BY MonthNat
<1>3. mu' \in [Replicas -> Streams \cup {NoOne}] /\ partitions' \subseteq Nat /\ on[s] \in Replicas
  BY <1>1 DEF IngestInv, IngestTypes
<1>4. CASE m \in partitions
  <2> DEFINE x == [st[s] EXCEPT !.attempt = 0]
  <2>1. st' = [st EXCEPT ![s] = x] /\ seen' = [seen EXCEPT ![on[s]] = @ \cup {m}]
    BY <1>0, <1>4 DEF CreateBegin
  <2>2. /\ x \in StreamType /\ x.b = st[s].b /\ x.attempt = 0 /\ x.batch = st[s].batch
        /\ x.batches = st[s].batches
    BY <1>0 DEF StreamType
  <2>3. SameR(x, st[s]) /\ SameA(x, st[s]) /\ SameE(x, st[s])
    BY <1>0 DEF StreamType, SameR, SameA, SameE
  <2> HIDE DEF x
  <2>4. st'[s] = x
    BY <1>0, <2>1
  <2>5. Months(s)'
    BY <1>0, <1>1, <2>2, <2>3, <2>4 DEF Months, SameE
  <2>6. seen' \in [Replicas -> SUBSET Nat] /\ SeenExist'
    BY <1>1, <1>2, <1>3, <1>4, <2>1 DEF IngestInv, IngestTypes, SeenExist
  <2> QED
    BY <1>1, <1>3, <2>1, <2>2, <2>3, <2>5, <2>6, PartitionStep
<1>5. CASE m \notin partitions
  <2> DEFINE x == [st[s] EXCEPT !.b = "create", !.month = m]
  <2>1. st' = [st EXCEPT ![s] = x] /\ seen' = seen
    BY <1>0, <1>5 DEF CreateBegin, MarkedBefore
  <2>2. /\ x \in StreamType /\ x.b = "create" /\ x.month = m /\ x.attempt = st[s].attempt
        /\ x.batch = st[s].batch /\ x.batches = st[s].batches
    BY <1>0, <1>2 DEF StreamType
  <2>3. SameR(x, st[s]) /\ SameA(x, st[s]) /\ SameE(x, st[s])
    BY <1>0 DEF StreamType, SameR, SameA, SameE
  <2> HIDE DEF x
  <2>4. st'[s] = x
    BY <1>0, <2>1
  <2>5. st[s].attempt = 0
    <3>1. st[s].attempt \in {0, 1}
      BY <1>0 DEF StreamType
    <3> QED
      BY <1>0, <1>1, <1>5, <3>1 DEF Months
  <2>6. Months(s)'
    BY <1>0, <1>1, <2>2, <2>3, <2>4, <2>5 DEF Months, SameE
  <2>7. seen' \in [Replicas -> SUBSET Nat] /\ SeenExist'
    BY <1>1, <2>1 DEF IngestInv, IngestTypes, SeenExist
  <2> QED
    BY <1>1, <1>3, <2>1, <2>2, <2>3, <2>6, <2>7, PartitionStep
<1> QED
  BY <1>4, <1>5

\* A store call failed: the stream has an error and the batch is given up.
LEMMA StoreFailedFacts ==
    ASSUME NEW s \in Streams, NEW y \in StreamType, Sizes(y), Flow(s, y), Phases(s, y), y.b # "end"
    PROVE  /\ StoreFailed(y) \in StreamType /\ StoreFailed(y).err # "none"
           /\ StoreFailed(y).b = "end" /\ StoreFailed(y).total = y.total
           /\ SameM(StoreFailed(y), y)
           /\ Sizes(StoreFailed(y)) /\ Flow(s, StoreFailed(y)) /\ Phases(s, StoreFailed(y))
<1> DEFINE z == [y EXCEPT !.b = "end", !.batch = {}]
           x == StoreFailed(y)
<1>1. /\ z \in StreamType /\ z.b = "end" /\ z.batch = {} /\ z.batches = y.batches
      /\ z.err = y.err /\ z.total = y.total /\ z.answer = y.answer
  <2>1. {} \in SUBSET Places
    OBVIOUS
  <2> QED
    BY <2>1 DEF StreamType
<1>2. SameR(z, y) /\ SameA(z, y) /\ SameM(z, y)
  BY DEF StreamType, SameR, SameA, SameM
<1>3. x = Fail(z, "store")
  BY DEF StoreFailed
<1> HIDE DEF z, x
<1>4. /\ x \in StreamType /\ x.err # "none" /\ x.b = "end" /\ x.batch = {}
      /\ x.batches = y.batches /\ x.total = y.total /\ x.answer = y.answer
  <2>1. CASE z.err = "none"
    <3>1. x = [z EXCEPT !.err = "store"]
      BY <1>3, <2>1 DEF Fail
    <3> QED
      BY <1>1, <3>1 DEF StreamType
  <2>2. CASE z.err # "none"
    BY <1>1, <1>3, <2>2 DEF Fail
  <2> QED
    BY <2>1, <2>2
<1>5. SameR(x, y) /\ SameA(x, y) /\ SameM(x, y)
  <2>1. CASE z.err = "none"
    <3>1. x = [z EXCEPT !.err = "store"]
      BY <1>3, <2>1 DEF Fail
    <3>2. SameR(x, z) /\ SameA(x, z) /\ SameM(x, z)
      BY <1>1, <3>1 DEF StreamType, SameR, SameA, SameM
    <3> QED
      BY <1>2, <3>2 DEF SameR, SameA, SameM
  <2>2. CASE z.err # "none"
    BY <1>2, <1>3, <2>2 DEF Fail
  <2> QED
    BY <2>1, <2>2
<1>6. Arrived(s, x) = Arrived(s, y) /\ Underway(x) \subseteq Underway(y)
  BY <1>4, <1>5 DEF Given, Arrived, Underway, SameR, SameA
<1>7. Sizes(x)
  BY <1>4, <1>5, EmptySized DEF Sizes, SameA
<1>8. Flow(s, x)
  BY <1>4, <1>5, <1>6 DEF Flow, SameR, SameA
<1>9. Phases(s, x)
  BY <1>4, <1>5 DEF Phases, SameR, SameA
<1> QED
  BY <1>4, <1>5, <1>7, <1>8, <1>9 DEF x

\* A stream whose store call failed: what is left to show of the tables.
LEMMA FailedStep ==
    ASSUME IngestInv, NEW s \in Streams, st' = [st EXCEPT ![s] = StoreFailed(@)], st[s].b # "end",
           on' = on, mu' \in [Replicas -> Streams \cup {NoOne}], UNCHANGED <<partitions, seen>>,
           table \subseteq table', IsFiniteSet(table'), PartitionBeforeInsert',
           AutoRegister \/ DOMAIN devices' = DOMAIN devices,
           faults' \in Nat, faults' # 0
    PROVE  IngestInv'
<1>0. /\ st \in [Streams -> StreamType] /\ st[s] \in StreamType
      /\ Sizes(st[s]) /\ Flow(s, st[s]) /\ Phases(s, st[s]) /\ Accounted(s) /\ Months(s)
      /\ faults \in Nat
  BY StreamFacts
<1> DEFINE x == StoreFailed(st[s])
<1>1. /\ x \in StreamType /\ x.err # "none" /\ x.b = "end" /\ x.total = st[s].total
      /\ SameM(x, st[s]) /\ Sizes(x) /\ Flow(s, x) /\ Phases(s, x)
  BY <1>0, StoreFailedFacts
<1>2. st' = [st EXCEPT ![s] = x]
  BY <1>0
<1> HIDE DEF x
<1>3. st'[s] = x /\ \A t \in Streams \ {s} : st'[t] = st[t]
  BY <1>0, <1>2
<1>4. Accounted(s)'
  BY <1>1, <1>3 DEF Accounted
<1>5. Months(s)'
  BY <1>0, <1>1, <1>3 DEF Months, SameM
<1>6. AcceptedOnce'
  <2>1. \A t \in Streams : st'[t].total = st[t].total
    BY <1>1, <1>3
  <2>2. PICK by \in [table -> Streams \cup {NoOne}] :
           \A t \in Streams : st[t].total.accepted = Cardinality({k \in table : by[k] = t})
    BY DEF IngestInv, AcceptedOnce
  <2> DEFINE given == [k \in table' |-> IF k \in table THEN by[k] ELSE NoOne]
  <2>3. given \in [table' -> Streams \cup {NoOne}]
    OBVIOUS
  <2>4. \A t \in Streams : {k \in table' : given[k] = t} = {k \in table : by[k] = t}
    BY IngestAssumption
  <2> HIDE DEF given
  <2>5. \A t \in Streams : st'[t].total.accepted = Cardinality({k \in table' : given[k] = t})
    BY <2>1, <2>2, <2>4
  <2> QED
    BY <2>3, <2>5 DEF AcceptedOnce
<1>7. seen' \in [Replicas -> SUBSET Nat] /\ partitions' \subseteq Nat /\ SeenExist'
  BY DEF IngestInv, IngestTypes, SeenExist
<1> QED
  BY <1>1, <1>2, <1>4, <1>5, <1>6, <1>7, Step

\* The creation of a partition fails: with a fault, or after one.
LEMMA CreateFailsInv ==
    ASSUME IngestInv, NEW s \in Streams, CreateFails(s)
    PROVE  IngestInv'
<1>0. /\ st \in [Streams -> StreamType] /\ st[s] \in StreamType
      /\ Sizes(st[s]) /\ Flow(s, st[s]) /\ Phases(s, st[s]) /\ Accounted(s) /\ Months(s)
      /\ faults \in Nat
  BY StreamFacts
<1>1. /\ st[s].b = "create" /\ st' = [st EXCEPT ![s] = StoreFailed(@)]
      /\ mu' = [mu EXCEPT ![on[s]] = NoOne]
      /\ UNCHANGED <<on, table, devices, partitions, seen>>
  BY DEF CreateFails
<1>2. faults' \in Nat /\ faults' # 0
  BY <1>0 DEF CreateFails, Fault, Cancelled, Months
<1>3. /\ mu' \in [Replicas -> Streams \cup {NoOne}] /\ IsFiniteSet(table') /\ PartitionBeforeInsert'
  BY <1>1 DEF IngestInv, IngestTypes, PartitionBeforeInsert
<1> QED
  BY <1>1, <1>2, <1>3, FailedStep

\* A partition is created, or another replica has just created it: then the
\* call is repeated, and never found to exist a second time.
LEMMA CreateEndInv ==
    ASSUME IngestInv, NEW s \in Streams, CreateEnd(s)
    PROVE  IngestInv'
<1>0. /\ st \in [Streams -> StreamType] /\ st[s] \in StreamType
      /\ Sizes(st[s]) /\ Flow(s, st[s]) /\ Phases(s, st[s]) /\ Accounted(s) /\ Months(s)
      /\ faults \in Nat
  BY StreamFacts
<1>1. st[s].b = "create" /\ st[s].attempt = 0 /\ UNCHANGED <<on, table, devices, faults>>
  BY <1>0 DEF CreateEnd, Months
<1>2. /\ st[s].month \in Nat /\ on[s] \in Replicas
      /\ mu \in [Replicas -> Streams \cup {NoOne}]
  BY <1>0 DEF StreamType, IngestInv, IngestTypes
<1>3. CASE st[s].month \notin partitions
  <2> DEFINE x == [st[s] EXCEPT !.b = "months", !.attempt = 0]
  <2>1. /\ st' = [st EXCEPT ![s] = x] /\ partitions' = partitions \cup {st[s].month} /\ mu' = mu
        /\ seen' = [seen EXCEPT ![on[s]] = @ \cup {st[s].month}]
    BY <1>0, <1>3 DEF CreateEnd
  <2>2. /\ x \in StreamType /\ x.b = "months" /\ x.attempt = 0 /\ x.batch = st[s].batch
        /\ x.batches = st[s].batches
    BY <1>0 DEF StreamType
  <2>3. SameR(x, st[s]) /\ SameA(x, st[s]) /\ SameE(x, st[s])
    BY <1>0 DEF StreamType, SameR, SameA, SameE
  <2> HIDE DEF x
  <2>4. st'[s] = x
    BY <1>0, <2>1
  <2>5. Months(s)'
    BY <1>0, <1>1, <2>2, <2>3, <2>4 DEF Months, SameE
  <2>6. /\ seen' \in [Replicas -> SUBSET Nat] /\ SeenExist' /\ partitions' \subseteq Nat
    BY <1>2, <2>1 DEF IngestInv, IngestTypes, SeenExist
  <2> QED
    BY <1>1, <1>2, <2>1, <2>2, <2>3, <2>5, <2>6, PartitionStep
<1>4. CASE st[s].month \in partitions
  <2> DEFINE x == [st[s] EXCEPT !.b = "months", !.attempt = 1]
  <2>1. st' = [st EXCEPT ![s] = x] /\ UNCHANGED <<partitions, seen, mu>>
    BY <1>0, <1>1, <1>4 DEF CreateEnd, Retry
  <2>2. /\ x \in StreamType /\ x.b = "months" /\ x.month = st[s].month /\ x.batch = st[s].batch
        /\ x.batches = st[s].batches
    BY <1>0 DEF StreamType
  <2>3. SameR(x, st[s]) /\ SameA(x, st[s]) /\ SameE(x, st[s])
    BY <1>0 DEF StreamType, SameR, SameA, SameE
  <2> HIDE DEF x
  <2>4. st'[s] = x
    BY <1>0, <2>1
  <2>5. Months(s)'
    BY <1>0, <1>1, <1>4, <2>1, <2>2, <2>3, <2>4 DEF Months, SameE
  <2>6. seen' \in [Replicas -> SUBSET Nat] /\ SeenExist' /\ partitions' \subseteq Nat
    BY <2>1 DEF IngestInv, IngestTypes, SeenExist
  <2> QED
    BY <1>1, <1>2, <2>1, <2>2, <2>3, <2>5, <2>6, PartitionStep
<1> QED
  BY <1>3, <1>4

------------------------------------------------------------------------------
(* Inserts.                                                                *)

\* What a committed insert does to the tables.
LEMMA WriteFacts ==
    ASSUME IngestInv, NEW s \in Streams, st[s].b = "txn", Write(s, Inserting(s)),
           partitions' = partitions
    PROVE  /\ table' = table \cup Keys(s, Inserting(s)) /\ IsFiniteSet(Keys(s, Inserting(s)))
           /\ IsFiniteSet(table') /\ PartitionBeforeInsert'
           /\ AutoRegister \/ DOMAIN devices' = DOMAIN devices
           /\ Inserting(s) \subseteq st[s].batch
           /\ \A p \in Inserting(s) :
                 AutoRegister \/ Row(s, p).dev \in DOMAIN devices => Key(Row(s, p)) \in table'
<1>0. /\ st \in [Streams -> StreamType] /\ st[s] \in StreamType
      /\ Sizes(st[s]) /\ Flow(s, st[s]) /\ Phases(s, st[s]) /\ Accounted(s) /\ Months(s)
      /\ faults \in Nat
  BY StreamFacts
<1> DEFINE rows == Inserting(s)
           known == Known(s, rows)
<1>1. rows \subseteq st[s].batch /\ known \subseteq rows
  BY DEF Inserting, RowsOf, Known
<1>2. table' = table \cup Keys(s, rows)
  BY DEF Write
<1>3. IsFiniteSet(known)
  <2>1. IsFiniteSet(st[s].batch)
    BY <1>0, FlowFinite
  <2>2. known \in SUBSET st[s].batch
    BY <1>1
  <2> HIDE DEF known, rows
  <2> QED
    BY <2>1, <2>2, FS_Subset
<1>4. Keys(s, rows) = {Key(Row(s, p)) : p \in known}
  BY DEF Keys
<1>5. IsFiniteSet(Keys(s, rows))
  <2> HIDE DEF known, rows
  <2> DEFINE f == [p \in known |-> Key(Row(s, p))]
  <2>1. f \in Surjection(known, Keys(s, rows))
    BY <1>4 DEF Surjection
  <2> QED
    BY <1>3, <2>1, FS_Surjection
<1>6. IsFiniteSet(table')
  BY <1>2, <1>5, FS_Union DEF IngestInv, IngestTypes
<1>7. PartitionBeforeInsert'
  <2> SUFFICES ASSUME NEW k \in table', k[1] = "cycle_events" PROVE k[3] \div Month \in partitions
    BY DEF PartitionBeforeInsert
  <2>1. CASE k \in table
    BY <2>1 DEF IngestInv, PartitionBeforeInsert
  <2>2. CASE k \in Keys(s, rows)
    <3>1. PICK p \in known : k = Key(Row(s, p))
      BY <1>4, <2>2
    <3>2. k[1] = Row(s, p).tbl /\ k[3] = EventTime(Row(s, p))
      BY <3>1 DEF Key
    <3>3. MonthOf(Row(s, p)) \in partitions
      BY <1>0, <1>1, <3>2 DEF Months, Partitioned
    <3> QED
      BY <3>2, <3>3 DEF MonthOf
  <2> QED
    BY <1>2, <2>1, <2>2
<1>8. AutoRegister \/ DOMAIN devices' = DOMAIN devices
  <2>1. DOMAIN devices' = DOMAIN devices \cup {Row(s, p).dev : p \in known}
    BY DEF Write
  <2> QED
    BY <2>1 DEF Known
<1>9. \A p \in rows :
         AutoRegister \/ Row(s, p).dev \in DOMAIN devices => Key(Row(s, p)) \in table'
  BY <1>2, <1>4 DEF Known
<1> QED
  BY <1>1, <1>2, <1>5, <1>6, <1>7, <1>8, <1>9

\* An insert fails, or commits without an answer.
LEMMA TxnFailsInv ==
    ASSUME IngestInv, NEW s \in Streams, TxnFails(s)
    PROVE  IngestInv'
<1>0. /\ st \in [Streams -> StreamType] /\ st[s] \in StreamType
      /\ Sizes(st[s]) /\ Flow(s, st[s]) /\ Phases(s, st[s]) /\ Accounted(s) /\ Months(s)
      /\ faults \in Nat
  BY StreamFacts
<1>1. /\ st[s].b = "txn" /\ st' = [st EXCEPT ![s] = StoreFailed(@)]
      /\ Write(s, Inserting(s)) \/ UNCHANGED <<table, devices>>
      /\ UNCHANGED <<on, partitions, seen, mu>>
  BY DEF TxnFails
<1>2. faults' \in Nat /\ faults' # 0
  BY <1>0 DEF TxnFails, Fault, Cancelled, Months
<1>3. mu' \in [Replicas -> Streams \cup {NoOne}]
  BY <1>1 DEF IngestInv, IngestTypes
<1>4. /\ table \subseteq table' /\ IsFiniteSet(table') /\ PartitionBeforeInsert'
      /\ AutoRegister \/ DOMAIN devices' = DOMAIN devices
  <2>1. CASE Write(s, Inserting(s))
    BY <1>1, <2>1, WriteFacts
  <2>2. CASE UNCHANGED <<table, devices>>
    BY <1>1, <2>2 DEF IngestInv, IngestTypes, PartitionBeforeInsert
  <2> QED
    BY <1>1, <2>1, <2>2
<1> QED
  BY <1>1, <1>2, <1>3, <1>4, FailedStep

\* Sets that do not overlap: what they count together.
LEMMA DisjointUnion ==
    ASSUME NEW S, NEW T, IsFiniteSet(S), IsFiniteSet(T), S \cap T = {}
    PROVE  /\ IsFiniteSet(S \cup T) /\ Cardinality(S \cup T) = Cardinality(S) + Cardinality(T)
           /\ Cardinality(S) \in Nat /\ Cardinality(T) \in Nat
<1>1. Cardinality(S) \in Nat /\ Cardinality(T) \in Nat
  BY FS_CardinalityType
<1>2. /\ IsFiniteSet(S \cup T)
      /\ Cardinality(S \cup T) = Cardinality(S) + Cardinality(T) - Cardinality(S \cap T)
  BY FS_Union
<1>3. Cardinality(S \cap T) = 0
  BY FS_EmptySet
<1> QED
  BY <1>1, <1>2, <1>3

\* The counts of an insert add up to its rows, and the accepted ones are new.
LEMMA MergedFacts ==
    ASSUME NEW s, NEW rows, IsFiniteSet(rows), IsFiniteSet(Keys(s, rows)),
           NEW c \in [accepted : Int, duplicates : Int, rejected : Int]
    PROVE  /\ Plus(c, Merged(s, rows)) \in [accepted : Int, duplicates : Int, rejected : Int]
           /\ Plus(c, Merged(s, rows)).accepted = c.accepted + Cardinality(Keys(s, rows) \ table)
           /\ Sum(Plus(c, Merged(s, rows))) = Sum(c) + Cardinality(rows)
<1> DEFINE new == Cardinality(Keys(s, rows) \ table)
           all == Cardinality(rows)
           known == Cardinality(Known(s, rows))
<1>1. IsFiniteSet(Keys(s, rows) \ table)
  BY FS_Difference
<1>2. Known(s, rows) \in SUBSET rows
  BY DEF Known
<1>3. IsFiniteSet(Known(s, rows))
  BY <1>2, FS_Subset
<1>4. new \in Nat /\ all \in Nat /\ known \in Nat
  BY <1>1, <1>3, FS_CardinalityType
<1>5. Merged(s, rows) = [accepted |-> new, duplicates |-> all - new - (all - known),
                         rejected |-> all - known]
  BY DEF Merged
<1> HIDE DEF new, all, known
<1>6. c.accepted \in Int /\ c.duplicates \in Int /\ c.rejected \in Int
  OBVIOUS
<1>7. Plus(c, Merged(s, rows)) =
        [accepted |-> c.accepted + new, duplicates |-> c.duplicates + (all - new - (all - known)),
         rejected |-> c.rejected + (all - known)]
  BY <1>5 DEF Plus
<1>8. /\ Plus(c, Merged(s, rows)).accepted = c.accepted + new
      /\ Sum(Plus(c, Merged(s, rows))) =
           (c.accepted + new) + (c.duplicates + (all - new - (all - known))) + (c.rejected + (all - known))
  BY <1>7 DEF Sum
<1>9. Plus(c, Merged(s, rows)) \in [accepted : Int, duplicates : Int, rejected : Int]
  BY <1>4, <1>6, <1>7
<1>10. Sum(Plus(c, Merged(s, rows))) = Sum(c) + all
  BY <1>4, <1>6, <1>8 DEF Sum
<1> QED
  BY <1>8, <1>9, <1>10 DEF new, all

\* An insert commits: its rows leave the pipeline, stored and counted, and the
\* stream is the one to have been told of the new ones.
LEMMA TxnCommitsInv ==
    ASSUME IngestInv, NEW s \in Streams, TxnCommits(s)
    PROVE  IngestInv'
<1>0. /\ st \in [Streams -> StreamType] /\ st[s] \in StreamType
      /\ Sizes(st[s]) /\ Flow(s, st[s]) /\ Phases(s, st[s]) /\ Accounted(s) /\ Months(s)
      /\ faults \in Nat
  BY StreamFacts
<1> DEFINE rows == Inserting(s)
           rest == st[s].batch \ rows
           tot == Plus(st[s].total, Merged(s, rows))
           v == Start(s, rest)
           x == [st[s] EXCEPT !.total = tot, !.batch = rest, !.b = v]
           new == Keys(s, rows) \ table
<1>1. /\ st[s].b = "txn" /\ Write(s, rows) /\ st' = [st EXCEPT ![s] = x]
      /\ UNCHANGED <<on, partitions, seen, mu, faults>>
  <2>1. x = NextTable(s, rows)
    BY DEF NextTable
  <2> QED
    BY <2>1 DEF TxnCommits
<1>2. /\ table' = table \cup Keys(s, rows) /\ IsFiniteSet(Keys(s, rows))
      /\ IsFiniteSet(table') /\ PartitionBeforeInsert'
      /\ AutoRegister \/ DOMAIN devices' = DOMAIN devices
      /\ rows \subseteq st[s].batch
      /\ \A p \in rows : AutoRegister \/ Row(s, p).dev \in DOMAIN devices => Key(Row(s, p)) \in table'
  BY <1>1, WriteFacts
<1> HIDE DEF rows
<1>3. IsFiniteSet(st[s].batch) /\ IsFiniteSet(Settled(s, st[s])) /\ st[s].batch \in SUBSET Places
  BY <1>0, FlowFinite DEF StreamType
<1>4. IsFiniteSet(rows) /\ IsFiniteSet(rest) /\ rest \in SUBSET Places /\ rest \subseteq st[s].batch
  BY <1>2, <1>3, FS_Subset
<1>5. /\ tot \in [accepted : Int, duplicates : Int, rejected : Int]
      /\ tot.accepted = st[s].total.accepted + Cardinality(new)
      /\ Sum(tot) = Sum(st[s].total) + Cardinality(rows)
  <2>1. st[s].total \in [accepted : Int, duplicates : Int, rejected : Int]
    BY <1>0 DEF StreamType
  <2> DEFINE c == st[s].total
  <2> HIDE DEF c, new
  <2>2. tot = Plus(c, Merged(s, rows)) /\ new = Keys(s, rows) \ table
    BY DEF c, new
  <2> HIDE DEF tot
  <2>3. c \in [accepted : Int, duplicates : Int, rejected : Int]
    BY <2>1 DEF c
  <2> HIDE DEF rest, v, x
  <2>4. IsFiniteSet(rows) /\ IsFiniteSet(Keys(s, rows))
    BY <1>2, <1>4, Zenon
  <2>5. /\ Plus(c, Merged(s, rows)) \in [accepted : Int, duplicates : Int, rejected : Int]
        /\ Plus(c, Merged(s, rows)).accepted = c.accepted + Cardinality(Keys(s, rows) \ table)
        /\ Sum(Plus(c, Merged(s, rows))) = Sum(c) + Cardinality(rows)
    BY <2>3, <2>4, MergedFacts, ZenonT(60)
  <2> QED
    BY <2>2, <2>5 DEF c
<1>6. /\ v \in {"range", "lock", "txn"} /\ (v = "range" => rest = {})
      /\ (v = "txn" => \A p \in rest : ~Partitioned(Row(s, p).tbl))
  BY StartFacts
<1> HIDE DEF tot, v
<1>7. x \in StreamType /\ x.total = tot /\ x.batch = rest /\ x.b = v
  <2> HIDE DEF rest
  <2> QED
    BY <1>0, <1>4, <1>5, <1>6 DEF StreamType
<1>8. /\ SameR(x, st[s]) /\ SameA(x, st[s]) /\ SameM(x, st[s]) /\ x.batches = st[s].batches
      /\ x.err = st[s].err /\ x.answer = st[s].answer
  BY <1>0 DEF StreamType, SameR, SameA, SameM
<1> HIDE DEF x
<1>9. st'[s] = x /\ \A t \in Streams \ {s} : st'[t] = st[t]
  BY <1>0, <1>1
<1>10. Given(x) = Given(st[s]) /\ Arrived(s, x) = Arrived(s, st[s])
  BY <1>8 DEF Given, Arrived, SameR
<1>11. /\ Settled(s, x) = Settled(s, st[s]) \cup rows
       /\ Settled(s, st[s]) \cap rows = {}
  <2>1. rows \subseteq Arrived(s, st[s])
    BY <1>0, <1>2 DEF Flow, Underway
  <2>2. rows \cap (st[s].cur \cup Queued(st[s].batches)) = {}
    BY <1>0, <1>2 DEF Flow, Queued
  <2> QED
    BY <1>2, <1>7, <1>8, <1>10, <2>1, <2>2 DEF Settled, Underway, SameA
<1>12. Sizes(x)
  <2>1. Cardinality(rest) <= Cardinality(st[s].batch)
    <3>1. rest \in SUBSET st[s].batch
      BY <1>4
    <3> HIDE DEF rest
    <3> QED
      BY <1>3, <3>1, FS_Subset
  <2>2. Cardinality(rest) \in Nat /\ Cardinality(st[s].batch) \in Nat
    BY <1>3, <1>4, FS_CardinalityType
  <2>3. Sized(rest)
    BY <1>0, <2>1, <2>2, IngestAssumption DEF Sizes, Sized
  <2> QED
    BY <1>0, <1>7, <1>8, <2>3 DEF Sizes, SameA
<1>13. Flow(s, x)
  <2>1. Underway(x) \subseteq Underway(st[s])
    BY <1>4, <1>7, <1>8 DEF Underway, SameA
  <2>2. x.cur \cap x.batch = {}
    BY <1>0, <1>4, <1>7, <1>8 DEF Flow, SameA
  <2>3. \A i \in DOMAIN x.batches : x.batches[i] \cap (x.cur \cup x.batch) = {}
    BY <1>0, <1>4, <1>7, <1>8 DEF Flow, SameA
  <2> QED
    BY <1>0, <1>8, <1>10, <2>1, <2>2, <2>3 DEF Flow, SameR
<1>14. Phases(s, x)
  BY <1>0, <1>1, <1>6, <1>7, <1>8 DEF Phases, SameR, SameA
<1>15. Accounted(s)'
  <2> SUFFICES ASSUME st[s].err = "none"
               PROVE  /\ \A p \in Settled(s, x) : Stored(s, p)'
                      /\ Sum(tot) = Cardinality(Settled(s, x))
    BY <1>7, <1>8, <1>9 DEF Accounted
  <2>1. \A p \in Settled(s, st[s]) : Stored(s, p)'
    BY <1>0, <1>2 DEF Accounted, Stored
  <2>2. \A p \in rows : Stored(s, p)'
    BY <1>2 DEF Stored
  <2>3. Cardinality(Settled(s, x)) = Cardinality(Settled(s, st[s])) + Cardinality(rows)
    BY <1>3, <1>4, <1>11, DisjointUnion
  <2>4. Sum(st[s].total) = Cardinality(Settled(s, st[s]))
    BY <1>0 DEF Accounted
  <2> QED
    BY <1>5, <1>11, <2>1, <2>2, <2>3, <2>4
<1>16. Months(s)'
  BY <1>0, <1>1, <1>6, <1>7, <1>8, <1>9 DEF Months, SameM
<1>17. AcceptedOnce'
  <2>1. PICK by \in [table -> Streams \cup {NoOne}] :
           \A t \in Streams : st[t].total.accepted = Cardinality({k \in table : by[k] = t})
    BY DEF IngestInv, AcceptedOnce
  <2>2. table' = table \cup new /\ new \cap table = {} /\ IsFiniteSet(new) /\ IsFiniteSet(table)
    BY <1>2, FS_Difference DEF IngestInv, IngestTypes
  <2> HIDE DEF new
  <2> DEFINE given == [k \in table' |-> IF k \in table THEN by[k] ELSE s]
             mine == {k \in table : by[k] = s}
  <2>3. given \in [table' -> Streams \cup {NoOne}]
    OBVIOUS
  <2>4. \A t \in Streams \ {s} : {k \in table' : given[k] = t} = {k \in table : by[k] = t}
    BY <2>2
  <2>5. {k \in table' : given[k] = s} = mine \cup new
    BY <2>2
  <2>6. mine \in SUBSET table /\ mine \cap new = {}
    BY <2>2
  <2>7. st[s].total.accepted = Cardinality(mine)
    BY <2>1
  <2> HIDE DEF given, mine
  <2>8. IsFiniteSet(mine)
    BY <2>2, <2>6, FS_Subset
  <2>9. Cardinality(mine \cup new) = Cardinality(mine) + Cardinality(new)
    BY <2>2, <2>6, <2>8, DisjointUnion
  <2>10. st'[s].total.accepted = Cardinality({k \in table' : given[k] = s})
    BY <1>5, <1>7, <1>9, <2>5, <2>7, <2>9
  <2>11. \A t \in Streams \ {s} : st'[t].total.accepted = Cardinality({k \in table' : given[k] = t})
    BY <1>9, <2>1, <2>4
  <2> QED
    BY <2>3, <2>10, <2>11 DEF AcceptedOnce
<1>18. /\ mu' \in [Replicas -> Streams \cup {NoOne}] /\ seen' \in [Replicas -> SUBSET Nat]
       /\ partitions' \subseteq Nat /\ SeenExist' /\ table \subseteq table'
  BY <1>1, <1>2 DEF IngestInv, IngestTypes, SeenExist
<1> QED
  BY <1>0, <1>1, <1>2, <1>7, <1>12, <1>13, <1>14, <1>15, <1>16, <1>17, <1>18, Step

------------------------------------------------------------------------------
(* The invariant.                                                          *)

\* A stream that has not begun.
LEMMA IngestInitInv == Init => IngestInv
<1> SUFFICES ASSUME Init PROVE IngestInv
  OBVIOUS
<1>1. Stream \in StreamType
  BY DEF Stream, StreamType, Result
<1>2. \A s \in Streams : st[s] = Stream
  BY DEF Init
<1>3. IngestTypes
  BY <1>1, FS_EmptySet DEF Init, IngestTypes
<1>4. ASSUME NEW s \in Streams PROVE StreamInv(s)
  <2>1. /\ Stream.received = 0 /\ Stream.r = "recv" /\ ~Stream.reqsClosed /\ Stream.a = "select"
        /\ Stream.cur = {} /\ Stream.batches = <<>> /\ ~Stream.batchesClosed /\ Stream.b = "range"
        /\ Stream.batch = {} /\ Stream.attempt = 0 /\ Stream.err = "none"
        /\ Stream.total = Result /\ Stream.answer = "none"
    BY DEF Stream
  <2>2. Len(Requests[s]) \in Nat /\ QueueBatches \in Nat
    BY IngestAssumption
  <2>3. Underway(Stream) = {} /\ DOMAIN Stream.batches = {} /\ Len(Stream.batches) = 0
    BY <2>1 DEF Underway, Queued
  <2>4. Settled(s, Stream) = {}
    <3>1. \A p \in AllRows(s) : p[1] \in Nat /\ p[1] > 0
      <4>1. DOMAIN Requests[s] = 1 .. Len(Requests[s])
        BY IngestAssumption
      <4> QED
        BY <2>2, <4>1, RowsFinite
    <3>2. Given(Stream) = 0
      BY <2>1 DEF Given
    <3> QED
      BY <3>1, <3>2 DEF Settled, Arrived
  <2>5. Sizes(Stream)
    BY <2>1, <2>2, <2>3, EmptySized DEF Sizes
  <2>6. Flow(s, Stream)
    BY <2>1, <2>2, <2>3 DEF Flow
  <2>7. Phases(s, Stream)
    BY <2>1 DEF Phases
  <2>8. Accounted(s)
    <3>1. Sum(Stream.total) = 0
      BY <2>1 DEF Sum, Result
    <3> QED
      BY <1>2, <2>4, <3>1, FS_EmptySet DEF Accounted
  <2>9. Months(s)
    BY <1>2, <2>1 DEF Months
  <2> QED
    BY <1>2, <2>5, <2>6, <2>7, <2>8, <2>9 DEF StreamInv
<1>5. SeenExist /\ PartitionBeforeInsert
  BY DEF Init, SeenExist, PartitionBeforeInsert
<1>6. AcceptedOnce
  <2> DEFINE by == [k \in table |-> NoOne]
  <2>1. table = {} /\ by \in [table -> Streams \cup {NoOne}]
    BY DEF Init
  <2>2. \A s \in Streams : st[s].total.accepted = 0
    BY <1>2 DEF Stream, Result
  <2>3. \A s \in Streams : {k \in table : by[k] = s} = {}
    BY <2>1
  <2> HIDE DEF by
  <2>4. \A s \in Streams : st[s].total.accepted = Cardinality({k \in table : by[k] = s})
    BY <2>2, <2>3, FS_EmptySet
  <2> QED
    BY <2>1, <2>4 DEF AcceptedOnce
<1> QED
  BY <1>3, <1>4, <1>5, <1>6 DEF IngestInv

\* Every step of every goroutine, of clients and of failing calls keeps it.
LEMMA IngestStepInv == IngestInv /\ [Next]_vars => IngestInv'
<1> SUFFICES ASSUME IngestInv, [Next]_vars PROVE IngestInv'
  OBVIOUS
<1>1. ASSUME NEW s \in Streams, StreamStep(s) PROVE IngestInv'
  BY <1>1, RecvInv, RecvEOFInv, RecvStopsInv, BatchReceiveInv, BatchEOFInv, PushInv, BatchStopsInv,
     StoreTakeInv, StoreEndsInv, LockInv, PartitionsReadyInv, CreateBeginInv, CreateEndInv,
     TxnCommitsInv, AnswerInv DEF StreamStep
<1>2. ASSUME Next PROVE IngestInv'
  BY <1>1, <1>2, BatchDueInv, ClientCancelsInv, CreateFailsInv, TxnFailsInv DEF Next
<1>3. ASSUME UNCHANGED vars PROVE IngestInv'
  <2>1. /\ on' = on /\ st' = st /\ table' = table /\ devices' = devices
        /\ partitions' = partitions /\ seen' = seen /\ mu' = mu /\ faults' = faults
    BY <1>3 DEF vars
  <2>2. \A s \in Streams : StreamInv(s)'
    BY <2>1 DEF IngestInv, StreamInv, Accounted, Stored, Months
  <2>3. AcceptedOnce' /\ PartitionBeforeInsert' /\ SeenExist' /\ IngestTypes'
    BY <2>1 DEF IngestInv, AcceptedOnce, PartitionBeforeInsert, SeenExist, IngestTypes
  <2> QED
    BY <2>2, <2>3 DEF IngestInv
<1> QED
  BY <1>2, <1>3

\* When all is over, the settled rows are all there are.
LEMMA IngestSafe ==
    IngestInv => TypeOK /\ AnsweredIsStored /\ AcceptedOnce /\ PartitionRaceSafe
<1> SUFFICES ASSUME IngestInv PROVE TypeOK /\ AnsweredIsStored /\ AcceptedOnce /\ PartitionRaceSafe
  OBVIOUS
<1>1. TypeOK
  <2>1. ASSUME NEW s \in Streams
        PROVE  /\ Len(st[s].batches) <= QueueBatches
               /\ \A q \in {st[s].batches[i] : i \in DOMAIN st[s].batches} \cup {st[s].batch, st[s].cur} :
                     Cardinality(q) < BatchMax + RequestMax
               /\ st[s].err \in {"none", "canceled", "store"}
    <3>1. Sizes(st[s]) /\ st[s] \in StreamType
      BY StreamFacts
    <3> QED
      BY <3>1 DEF Sizes, Sized, StreamType
  <2> QED
    BY <2>1 DEF TypeOK, IngestInv, IngestTypes
<1>2. ASSUME NEW s \in Streams, st[s].answer = "ok"
      PROVE  /\ \A p \in AllRows(s) : Row(s, p).dev \in DOMAIN devices => Key(Row(s, p)) \in table
             /\ st[s].total.accepted + st[s].total.duplicates + st[s].total.rejected
                   = Cardinality(AllRows(s))
  <2>1. Phases(s, st[s]) /\ Accounted(s)
    BY StreamFacts
  <2>2. /\ st[s].err = "none" /\ st[s].r = "end" /\ st[s].received = Len(Requests[s])
        /\ st[s].cur = {} /\ st[s].batch = {} /\ st[s].batches = <<>>
    BY <1>2, <2>1 DEF Phases
  <2>3. Underway(st[s]) = {}
    BY <2>2 DEF Underway, Queued
  <2>4. Arrived(s, st[s]) = AllRows(s)
    <3>1. DOMAIN Requests[s] = 1 .. Len(Requests[s]) /\ Len(Requests[s]) \in Nat
      BY IngestAssumption
    <3>2. \A p \in AllRows(s) : p[1] <= Len(Requests[s])
      BY <3>1, RowsFinite
    <3> QED
      BY <2>2, <3>2 DEF Arrived, Given
  <2>5. Settled(s, st[s]) = AllRows(s)
    BY <2>3, <2>4 DEF Settled
  <2> QED
    BY <2>1, <2>2, <2>5 DEF Accounted, Stored, Sum
<1>3. AnsweredIsStored
  BY <1>2 DEF AnsweredIsStored, AllRows
<1>4. PartitionRaceSafe
  BY StreamFacts DEF IngestInv, PartitionRaceSafe, RaceIsHarmless, Cancelled, Months
<1> QED
  BY <1>1, <1>3, <1>4 DEF IngestInv

\* The invariant is inductive.
LEMMA IngestAlways == Spec => []IngestInv
<1> QED
  BY IngestInitInv, IngestStepInv, PTL DEF Spec

\* Backpressure: whatever the store does, a stream holds at most QueueBatches + 2
\* batches of less than BatchMax rows and a request's more (runStream).
THEOREM IngestBounded == Spec => []TypeOK
<1> QED
  BY IngestAlways, IngestSafe, PTL

\* A stream that is answered "ok" has stored every valid row of a known device,
\* and its counts account for every row (runStream, Store.insert).
THEOREM AnsweredStreamsStored == Spec => []AnsweredIsStored
<1> QED
  BY IngestAlways, IngestSafe, PTL

\* However streams fail, are repeated and overlap, a stored row has been
\* reported as accepted to one of them at most (Store.insert).
THEOREM RowsAcceptedOnce == Spec => []AcceptedOnce
<1> QED
  BY IngestAlways, IngestSafe, PTL

\* Replicas that race for a partition: no row without one, no error for the
\* loser (ensurePartitions, createPartition).
THEOREM PartitionRacesSafe == Spec => []PartitionRaceSafe
<1> QED
  BY IngestAlways, IngestSafe, PTL
=============================================================================
