---------------------------- MODULE IngestStream ----------------------------
(***************************************************************************)
(* IngestService.SubmitCycleEvents and the bulk store behind it: per stream *)
(* a receive, a batching and a storing goroutine joined by an errgroup,    *)
(* per replica the monthly partitions it has seen, and the tables all      *)
(* replicas share.  The other three Submit calls are the same with one     *)
(* table.                                                                  *)
(*                                                                         *)
(* A row is named by its place in its stream: <<request, item>>.  A batch  *)
(* is the set of its rows, since the merge that stores it keeps no order.  *)
(* Two streams with the same rows are a submission and its retry.          *)
(***************************************************************************)
EXTENDS Integers, Sequences, FiniteSets, FiniteSetsExt

CONSTANTS
    Streams,
    Replicas,         \* ingest processes
    Requests,         \* stream -> the requests its client sends
    RequestMax,       \* items in a request, by gRPC's limit on a message
    Registered,       \* devices known at the start
    AutoRegister,     \* store.WithAutoRegister
    BatchMax, QueueBatches, MaxFuture,   \* ingest.Config
    Now,              \* the servers' clock
    Month,            \* seconds in a month
    MaxFaults         \* bound on failed calls and cancelled streams

NoOne == "nobody"

\* A cycle event or a storm summary as its client sent it; at = 0 is no time.
Items ==
    [tbl : {"cycle_events", "storm_summaries"}, dev : STRING, at : Nat, received : Nat,
     fcnt : Nat, valid : BOOLEAN]

ASSUME IngestAssumption ==
    /\ NoOne \notin Streams
    /\ Requests \in [Streams -> Seq(Seq(Items))] /\ RequestMax \in Nat
    /\ \A s \in Streams : \A i \in DOMAIN Requests[s] : Len(Requests[s][i]) <= RequestMax
    /\ BatchMax \in Nat \ {0} /\ QueueBatches \in Nat \ {0} /\ MaxFuture \in Nat
    /\ AutoRegister \in BOOLEAN /\ Now \in Nat /\ Month \in Nat \ {0} /\ MaxFaults \in Nat

VARIABLES
    on,          \* stream -> the replica the client's balancer chose
    st,          \* the streams
    table,       \* cycle_events and storm_summaries: stored rows
    devices,     \* dev_eui -> last_seen_at
    partitions,  \* months of cycle_events that have a partition
    seen,        \* per replica: seenMonths
    mu,          \* per replica: the stream that holds s.mu
    faults

vars == <<on, st, table, devices, partitions, seen, mu, faults>>
shared == <<on, table, devices, partitions, seen, mu>>

Result == [accepted |-> 0, duplicates |-> 0, rejected |-> 0]

Stream ==
    [received |-> 0, r |-> "recv", reqsClosed |-> FALSE,
     a |-> "select", cur |-> {}, batches |-> <<>>, batchesClosed |-> FALSE,
     b |-> "range", batch |-> {}, attempt |-> 0, month |-> 0,
     err |-> "none", total |-> Result, answer |-> "none"]

Init ==
    /\ on \in [Streams -> Replicas]
    /\ st = [s \in Streams |-> Stream]
    /\ table = {} /\ devices = [d \in Registered |-> 0] /\ partitions = {}
    /\ seen = [p \in Replicas |-> {}] /\ mu = [p \in Replicas |-> NoOne]
    /\ faults = 0

\* The group's context: cancelled by the first error, or with the stream.
Cancelled(s) == st[s].err # "none"
Fail(x, err) == IF x.err = "none" THEN [x EXCEPT !.err = err] ELSE x
Fault == faults < MaxFaults /\ faults' = faults + 1

------------------------------------------------------------------------------
(* Validation and conversion.                                              *)

\* metaOf, cycleRow, summaryRow: the reason a row is rejected.
Reason(r) ==
    IF r.dev = "" THEN "bad_dev_eui"
    ELSE IF r.received > Now + MaxFuture THEN "future"
    ELSE IF r.tbl = "cycle_events" /\ r.at = 0 THEN "no_time"
    ELSE IF ~r.valid THEN "bad_value"
    ELSE ""

Valid(r) == Reason(r) = ""

\* A summary without a window end happened when it was received.
EventTime(r) == IF r.at = 0 THEN r.received ELSE r.at
MonthOf(r) == EventTime(r) \div Month
Key(r) == <<r.tbl, r.dev, EventTime(r), r.fcnt>>

Row(s, p) == Requests[s][p[1]][p[2]]

\* The rows of a stream's i-th request.
extract(s, i) == {p \in {i} \X DOMAIN Requests[s][i] : Valid(Row(s, p))}

------------------------------------------------------------------------------
(* R: receive until EOF.                                                   *)

Recv(s) ==
    /\ st[s].r = "recv" /\ st[s].received < Len(Requests[s])
    /\ st' = [st EXCEPT ![s].r = "send", ![s].received = @ + 1]
    /\ UNCHANGED <<shared, faults>>

RecvEOF(s) ==
    /\ st[s].r = "recv" /\ st[s].received = Len(Requests[s])
    /\ st' = [st EXCEPT ![s].r = "end", ![s].reqsClosed = TRUE]
    /\ UNCHANGED <<shared, faults>>

\* The client gives up: Recv fails and the stream's context ends.
ClientCancels(s) ==
    /\ st[s].answer = "none" /\ st[s].err = "none" /\ Fault
    /\ st' = [st EXCEPT ![s].err = "canceled"]
    /\ UNCHANGED shared

\* Both the failed Recv and the select on gctx.
RecvStops(s) ==
    /\ \/ st[s].r = "send" /\ Cancelled(s)
       \/ st[s].r = "recv" /\ st[s].err = "canceled"
    /\ st' = [st EXCEPT ![s].r = "end", ![s].reqsClosed = TRUE]
    /\ UNCHANGED <<shared, faults>>

------------------------------------------------------------------------------
(* A: batch by size and age.                                               *)

Full(cur) == Cardinality(cur) >= BatchMax

BatchReceive(s) ==
    /\ st[s].a = "select" /\ st[s].r = "send"
    /\ LET cur == st[s].cur \cup extract(s, st[s].received)
       IN  st' = [st EXCEPT ![s].r = "recv", ![s].cur = cur,
                            ![s].a = IF Full(cur) THEN "push" ELSE "select"]
    /\ UNCHANGED <<shared, faults>>

\* BatchDelay after the first row of a batch.
BatchDue(s) ==
    /\ st[s].a = "select" /\ st[s].cur # {}
    /\ st' = [st EXCEPT ![s].a = "push"]
    /\ UNCHANGED <<shared, faults>>

\* Faulty: what is left at the end of the stream is dropped.
AtEOFDrops(x) == [x EXCEPT !.a = "end", !.cur = {}, !.batchesClosed = TRUE]

\* reqs is closed: the rest is pushed as well.
AtEOF(x) ==
    IF x.cur = {} THEN [x EXCEPT !.a = "end", !.batchesClosed = TRUE]
    ELSE [x EXCEPT !.a = "pushLast"]

BatchEOF(s) ==
    /\ st[s].a = "select" /\ st[s].reqsClosed
    /\ st' = [st EXCEPT ![s] = AtEOF(@)]
    /\ UNCHANGED <<shared, faults>>

\* Faulty: the channel of batches has no bound.
RoomAlways(q) == TRUE

Room(q) == Len(q) < QueueBatches

Push(s) ==
    /\ st[s].a \in {"push", "pushLast"} /\ Room(st[s].batches)
    /\ st' = [st EXCEPT ![s].batches = Append(@, st[s].cur), ![s].cur = {},
                        ![s].a = IF @ = "push" THEN "select" ELSE "end",
                        ![s].batchesClosed = st[s].a = "pushLast"]
    /\ UNCHANGED <<shared, faults>>

\* Faulty: a push does not look at the group's context.
BatchMayStopLate(s) == st[s].a = "select" /\ Cancelled(s)

BatchMayStop(s) == st[s].a # "end" /\ Cancelled(s)

BatchStops(s) ==
    /\ BatchMayStop(s)
    /\ st' = [st EXCEPT ![s].a = "end", ![s].cur = {}, ![s].batchesClosed = TRUE]
    /\ UNCHANGED <<shared, faults>>

------------------------------------------------------------------------------
(* B: store batches in order, cycle events before storm summaries.         *)

Partitioned(tbl) == tbl = "cycle_events"
RowsOf(s, tbl) == {p \in st[s].batch : Row(s, p).tbl = tbl}

\* The insert the rest of a batch goes on with.
Start(s, batch) ==
    IF \E p \in batch : Partitioned(Row(s, p).tbl) THEN "lock"
    ELSE IF batch # {} THEN "txn" ELSE "range"

\* The rows of that insert.
Inserting(s) ==
    IF RowsOf(s, "cycle_events") # {} THEN RowsOf(s, "cycle_events")
    ELSE RowsOf(s, "storm_summaries")

StoreTake(s) ==
    /\ st[s].b = "range" /\ st[s].batches # <<>>
    /\ LET batch == Head(st[s].batches)
       IN  st' = [st EXCEPT ![s].batches = Tail(@), ![s].batch = batch, ![s].b = Start(s, batch)]
    /\ UNCHANGED <<shared, faults>>

StoreEnds(s) ==
    /\ st[s].b = "range" /\ st[s].batches = <<>> /\ st[s].batchesClosed
    /\ st' = [st EXCEPT ![s].b = "end"]
    /\ UNCHANGED <<shared, faults>>

StoreFailed(x) == Fail([x EXCEPT !.b = "end", !.batch = {}], "store")

------------------------------------------------------------------------------
(* ensurePartitions, under s.mu.                                           *)

Unseen(s) == {MonthOf(Row(s, p)) : p \in RowsOf(s, "cycle_events")} \ seen[on[s]]

Lock(s) ==
    /\ st[s].b = "lock" /\ mu[on[s]] = NoOne
    /\ mu' = [mu EXCEPT ![on[s]] = s]
    /\ st' = [st EXCEPT ![s].b = "months", ![s].attempt = 0]
    /\ UNCHANGED <<on, table, devices, partitions, seen, faults>>

\* No month is missing: s.mu is released and the transaction begins.
PartitionsReady(s) ==
    /\ st[s].b = "months" /\ Unseen(s) = {}
    /\ mu' = [mu EXCEPT ![on[s]] = NoOne]
    /\ st' = [st EXCEPT ![s].b = "txn"]
    /\ UNCHANGED <<on, table, devices, partitions, seen, faults>>

\* Faulty: a month counts as seen before its partition exists.
MarkedEarly(p, m) == [seen EXCEPT ![p] = @ \cup {m}]

MarkedBefore(p, m) == seen

\* create_partition_time looks for the partition ...
CreateBegin(s, m) ==
    /\ st[s].b = "months" /\ m \in Unseen(s)
    /\ st[s].attempt = 1 => m = st[s].month
    /\ IF m \in partitions
       THEN /\ seen' = [seen EXCEPT ![on[s]] = @ \cup {m}]
            /\ st' = [st EXCEPT ![s].attempt = 0]
       ELSE /\ seen' = MarkedBefore(on[s], m)
            /\ st' = [st EXCEPT ![s].b = "create", ![s].month = m]
    /\ UNCHANGED <<on, table, devices, partitions, mu, faults>>

\* Faulty: duplicate_table is an error at once.
RetryNever(s) == FALSE

\* duplicate_table: another replica won; the first time it is tried again.
Retry(s) == st[s].attempt = 0

\* ... and creates it.
CreateEnd(s) ==
    /\ st[s].b = "create"
    /\ IF st[s].month \notin partitions
       THEN /\ partitions' = partitions \cup {st[s].month}
            /\ seen' = [seen EXCEPT ![on[s]] = @ \cup {st[s].month}]
            /\ st' = [st EXCEPT ![s].b = "months", ![s].attempt = 0]
            /\ UNCHANGED mu
       ELSE /\ UNCHANGED <<partitions, seen>>
            /\ IF Retry(s)
               THEN st' = [st EXCEPT ![s].b = "months", ![s].attempt = 1] /\ UNCHANGED mu
               ELSE /\ st' = [st EXCEPT ![s] = StoreFailed(@)]
                    /\ mu' = [mu EXCEPT ![on[s]] = NoOne]
    /\ UNCHANGED <<on, table, devices, faults>>

\* The call fails, or its context is cancelled.
CreateFails(s) ==
    /\ st[s].b = "create"
    /\ Fault \/ (Cancelled(s) /\ UNCHANGED faults)
    /\ st' = [st EXCEPT ![s] = StoreFailed(@)]
    /\ mu' = [mu EXCEPT ![on[s]] = NoOne]
    /\ UNCHANGED <<on, table, devices, partitions, seen>>

------------------------------------------------------------------------------
(* insert: COPY, devices, merge, NOTIFY in one transaction.                *)

Known(s, rows) == {p \in rows : AutoRegister \/ Row(s, p).dev \in DOMAIN devices}
Keys(s, rows) == {Key(Row(s, p)) : p \in Known(s, rows)}

\* last_seen_at = GREATEST(last_seen_at, max(time)).
LastSeen(s, d, rows) ==
    Max({EventTime(Row(s, p)) : p \in {x \in rows : Row(s, x).dev = d}}
        \cup (IF d \in DOMAIN devices THEN {devices[d]} ELSE {}))

\* Faulty: everything copied counts as accepted.
MergedAll(s, rows) ==
    [accepted |-> Cardinality(Known(s, rows)), duplicates |-> 0,
     rejected |-> Cardinality(rows) - Cardinality(Known(s, rows))]

\* INSERT ... ON CONFLICT DO NOTHING, and the counts.
Merged(s, rows) ==
    LET accepted == Cardinality(Keys(s, rows) \ table)
        rejected == Cardinality(rows) - Cardinality(Known(s, rows))
    IN  [accepted |-> accepted, duplicates |-> Cardinality(rows) - accepted - rejected,
         rejected |-> rejected]

Write(s, rows) ==
    /\ table' = table \cup Keys(s, rows)
    /\ devices' = [d \in DOMAIN devices \cup {Row(s, p).dev : p \in Known(s, rows)} |->
                     IF \E p \in rows : Row(s, p).dev = d THEN LastSeen(s, d, rows) ELSE devices[d]]

Plus(x, y) ==
    [accepted |-> x.accepted + y.accepted, duplicates |-> x.duplicates + y.duplicates,
     rejected |-> x.rejected + y.rejected]

\* The counts, and the next table of the batch or the next batch.  A stream
\* that fails answers no counts, so those of a table are added at once.
NextTable(s, rows) ==
    [st[s] EXCEPT !.total = Plus(@, Merged(s, rows)), !.batch = @ \ rows,
                  !.b = Start(s, st[s].batch \ rows)]

TxnCommits(s) ==
    /\ st[s].b = "txn"
    /\ LET rows == Inserting(s)
       IN  /\ Write(s, rows)
           /\ st' = [st EXCEPT ![s] = NextTable(s, rows)]
    /\ UNCHANGED <<on, partitions, seen, mu, faults>>

\* The transaction fails, or commits and the answer is lost.
TxnFails(s) ==
    /\ st[s].b = "txn"
    /\ Fault \/ (Cancelled(s) /\ UNCHANGED faults)
    /\ st' = [st EXCEPT ![s] = StoreFailed(@)]
    /\ Write(s, Inserting(s)) \/ UNCHANGED <<table, devices>>
    /\ UNCHANGED <<on, partitions, seen, mu>>

------------------------------------------------------------------------------
\* g.Wait: the counts, or Canceled or Unavailable.
Answer(s) ==
    /\ st[s].answer = "none"
    /\ st[s].r = "end" /\ st[s].a = "end" /\ st[s].b = "end"
    /\ st' = [st EXCEPT ![s].answer = IF Cancelled(s) THEN st[s].err ELSE "ok"]
    /\ UNCHANGED <<shared, faults>>

StreamStep(s) ==
    \/ Recv(s) \/ RecvEOF(s) \/ RecvStops(s)
    \/ BatchReceive(s) \/ BatchEOF(s) \/ Push(s) \/ BatchStops(s)
    \/ StoreTake(s) \/ StoreEnds(s)
    \/ Lock(s) \/ PartitionsReady(s) \/ (\E m \in Unseen(s) : CreateBegin(s, m)) \/ CreateEnd(s)
    \/ TxnCommits(s)
    \/ Answer(s)

Next == \E s \in Streams :
    \/ StreamStep(s) \/ BatchDue(s) \/ ClientCancels(s) \/ CreateFails(s) \/ TxnFails(s)

Spec == Init /\ [][Next]_vars

\* Goroutines run, calls of the store end, a client goes on sending, closes
\* its stream or gives up, and s.mu is handed to those who wait for it.
Fairness ==
    \A s \in Streams : WF_vars(StreamStep(s)) /\ WF_vars(BatchDue(s)) /\ SF_vars(Lock(s))
FairSpec == Spec /\ Fairness

------------------------------------------------------------------------------
(* Properties.                                                             *)

\* "The bounded queue is the backpressure point": whatever the store does, a
\* stream holds at most QueueBatches + 2 batches and one request.
TypeOK ==
    /\ \A s \in Streams :
        /\ Len(st[s].batches) <= QueueBatches
        /\ \A q \in {st[s].batches[i] : i \in DOMAIN st[s].batches} \cup {st[s].batch, st[s].cur} :
              Cardinality(q) < BatchMax + RequestMax
        /\ st[s].err \in {"none", "canceled", "store"}
    /\ partitions \subseteq Nat

\* A stream that is answered without an error has stored every valid row of
\* its requests (of known devices), and its counts account for each of them:
\* this is what lets the bridge acknowledge the messages.
AnsweredIsStored ==
    \A s \in Streams :
        st[s].answer = "ok" =>
            LET rows == UNION {extract(s, i) : i \in DOMAIN Requests[s]}
            IN  /\ \A p \in rows : Row(s, p).dev \in DOMAIN devices => Key(Row(s, p)) \in table
                /\ st[s].total.accepted + st[s].total.duplicates + st[s].total.rejected
                      = Cardinality(rows)

\* However submissions are cut off and repeated, on one replica or another,
\* no row is reported as accepted twice: every stored row can be given to at
\* most one stream so that each was told just the number of its rows.
AcceptedOnce ==
    \E by \in [table -> Streams \cup {NoOne}] :
        \A s \in Streams : st[s].total.accepted = Cardinality({k \in table : by[k] = s})

\* Cycle events are only written to months that have a partition, also after a
\* call that created one failed and the batch was submitted again.
PartitionBeforeInsert ==
    \A k \in table : k[1] = "cycle_events" => k[3] \div Month \in partitions

\* Replicas that create the same partition at the same time do not fail the
\* streams: without other faults every stream is answered "ok".
RaceIsHarmless == faults = 0 => \A s \in Streams : ~Cancelled(s)

\* ensurePartitions on two replicas: rows only go to months that exist, and
\* losing the race to create one costs nothing.
PartitionRaceSafe == PartitionBeforeInsert /\ RaceIsHarmless

\* Every stream is answered: no goroutine of the group is left behind on a
\* channel or on s.mu, whichever of them fails first.
EveryStreamAnswered == \A s \in Streams : <>(st[s].answer # "none")
=============================================================================
