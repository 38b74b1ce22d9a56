-------------------------------- MODULE Bridge --------------------------------
(***************************************************************************)
(* internal/bridge with internal/ingest behind it: MQTT messages go from   *)
(* the broker's session through the decoding handler into one batcher per  *)
(* kind, from there over a gRPC stream to ingest, and are acknowledged to  *)
(* the broker once ingest has answered.                                    *)
(*                                                                         *)
(* The broker and paho are external.  An envelope is <<message, conn>>:    *)
(* its acknowledgement reaches the broker only while the connection it was *)
(* received on is up; what is unacknowledged when a connection ends is     *)
(* delivered again.                                                        *)
(***************************************************************************)
EXTENDS Integers, Sequences, FiniteSets, Functions

CONSTANTS
  Msgs,        \* the messages published to the topic
  Kinds,       \* the batchers: readings, cycle events, alarms, rain gauge
  KindOf,      \* the batcher a decodable message belongs to
  Poison,      \* messages the decoder refuses
  Invalid,     \* messages whose row ingest rejects
  MaxItems,    \* BatchConfig.MaxItems
  QueueDepth,  \* BatchConfig.QueueDepth
  ReceiveMax,  \* MQTT_RECEIVE_MAX
  MaxFaults    \* bound on crashes, lost connections, failed submits, signals

ASSUME MsgsAssumption == IsFiniteSet(Msgs)
ASSUME KindAssumption == KindOf \in [Msgs -> Kinds] /\ Poison \subseteq Msgs /\ Invalid \subseteq Msgs
ASSUME SizesAssumption == /\ MaxItems \in Nat \ {0} /\ QueueDepth \in Nat \ {0}
                          /\ ReceiveMax \in Nat \ {0} /\ MaxFaults \in Nat

VARIABLES
  broker,     \* the session: "queued", "inflight" or "acked" for each message
  connected,  \* is the connection up?
  conn,       \* the number of the current connection
  handling,   \* the envelope the handler is adding, or <<>>
  in,         \* Batcher.in for each kind
  cur,        \* the batch being collected
  batch,      \* the batch being submitted, or <<>>
  state,      \* where Batcher.Run is: "run", "drain", "done" or "failed"
  stored,     \* the messages whose row is committed
  proc,       \* bridge.Run: "up", "stopping", "closed", "waiting" or "down"
  signalled,  \* has the service's context ended?
  cancelled,  \* has the batchers' context ended?
  faults      \* how much of MaxFaults is used

session == <<broker, connected, conn>>
batchers == <<in, cur, batch, state>>
process == <<proc, signalled, cancelled>>
vars == <<broker, connected, conn, handling, in, cur, batch, state, stored,
          proc, signalled, cancelled, faults>>

Envelopes == Msgs \X (Nat \ {0})
Decoded == (Msgs \ Poison) \X (Nat \ {0})
Inflight == {m \in Msgs : broker[m] = "inflight"}
Accounted == stored \cup Invalid \cup Poison

(* The queue, the batch and the unacknowledged messages stay within their  *)
(* limits: QueueDepth, MaxItems and ReceiveMax are the backpressure.       *)
SessionOK ==
  /\ broker \in [Msgs -> {"queued", "inflight", "acked"}]
  /\ Cardinality(Inflight) <= ReceiveMax
  /\ conn \in Nat \ {0}
BatchersOK ==
  /\ in \in [Kinds -> Seq(Decoded)] /\ cur \in [Kinds -> Seq(Decoded)]
  /\ batch \in [Kinds -> Seq(Decoded)]
  /\ state \in [Kinds -> {"run", "drain", "done", "failed"}]
  /\ \A k \in Kinds : /\ Len(in[k]) <= QueueDepth /\ Len(batch[k]) <= MaxItems
                      /\ state[k] = "run" => Len(cur[k]) < MaxItems
FlagsOK == connected \in BOOLEAN /\ signalled \in BOOLEAN /\ cancelled \in BOOLEAN
TypeOK ==
  /\ SessionOK /\ BatchersOK /\ FlagsOK
  /\ handling = <<>> \/ handling \in Envelopes
  /\ stored \subseteq Msgs \ (Invalid \cup Poison)
  /\ proc \in {"up", "stopping", "closed", "waiting", "down"}
  /\ faults \in 0 .. MaxFaults

Empty == [k \in Kinds |-> <<>>]

Init ==
  /\ broker = [m \in Msgs |-> "queued"] /\ connected = TRUE /\ conn = 1
  /\ handling = <<>>
  /\ in = Empty /\ cur = Empty /\ batch = Empty /\ state = [k \in Kinds |-> "run"]
  /\ stored = {}
  /\ proc = "up" /\ signalled = FALSE /\ cancelled = FALSE
  /\ faults = 0

Fault == faults < MaxFaults /\ faults' = faults + 1

-----------------------------------------------------------------------------
(* The broker and paho (external)                                          *)

(* QoS 1 with at most ReceiveMax unacknowledged messages, handed over by   *)
(* one goroutine.                                                          *)
Deliver(m) ==
  /\ connected /\ proc \in {"up", "stopping"} /\ handling = <<>>
  /\ broker[m] = "queued" /\ Cardinality(Inflight) < ReceiveMax
  /\ broker' = [broker EXCEPT ![m] = "inflight"]
  /\ handling' = <<m, conn>>
  /\ UNCHANGED <<connected, conn, batchers, stored, process, faults>>

(* What the end of a connection leaves of the session.                     *)
Requeued == [m \in Msgs |-> IF broker[m] = "inflight" THEN "queued" ELSE broker[m]]

ConnectionLost ==
  /\ connected /\ Fault
  /\ connected' = FALSE /\ broker' = Requeued
  /\ UNCHANGED <<conn, handling, batchers, stored, process>>

(* autopaho reconnects until its context ends.                             *)
Reconnect ==
  /\ ~connected /\ proc \in {"up", "stopping"} /\ ~signalled
  /\ connected' = TRUE /\ conn' = conn + 1
  /\ UNCHANGED <<broker, handling, batchers, stored, process, faults>>

(* Ack of a set of envelopes.                                              *)
Acked(es) ==
  [m \in Msgs |-> IF connected /\ <<m, conn>> \in es THEN "acked" ELSE broker[m]]

-----------------------------------------------------------------------------
(* The handler of bridge.Run                                               *)

HandlerDrops ==
  /\ handling # <<>> /\ handling[1] \in Poison /\ proc # "down"
  /\ broker' = Acked({handling}) /\ handling' = <<>>
  /\ UNCHANGED <<connected, conn, batchers, stored, process, faults>>

(* Batcher.Add blocks while the queue is full.                             *)
HandlerAdds ==
  /\ handling # <<>> /\ handling[1] \notin Poison /\ proc # "down"
  /\ LET k == KindOf[handling[1]]
     IN  /\ Len(in[k]) < QueueDepth
         /\ in' = [in EXCEPT ![k] = Append(@, handling)]
  /\ handling' = <<>>
  /\ UNCHANGED <<session, cur, batch, state, stored, process, faults>>

(* ... or until the service's context ends.                                *)
HandlerGivesUp ==
  /\ handling # <<>> /\ signalled /\ proc # "down"
  /\ handling' = <<>>
  /\ UNCHANGED <<session, batchers, stored, process, faults>>

-----------------------------------------------------------------------------
(* Batcher.Run                                                             *)

Collects(k) == proc # "down" /\ state[k] = "run" /\ batch[k] = <<>>

(* Faulty variant of Full: one message too many.                           *)
FullLate(es) == Len(es) > MaxItems

(* MaxItems messages are collected: the batch is flushed at once.          *)
Full(es) == Len(es) >= MaxItems

Take(k) ==
  /\ Collects(k) /\ in[k] # <<>>
  /\ in' = [in EXCEPT ![k] = Tail(@)]
  /\ LET es == Append(cur[k], Head(in[k]))
     IN  /\ cur' = [cur EXCEPT ![k] = IF Full(es) THEN <<>> ELSE es]
         /\ batch' = [batch EXCEPT ![k] = IF Full(es) THEN es ELSE <<>>]
  /\ UNCHANGED <<session, handling, state, stored, process, faults>>

(* MaxDelay after the first message of the batch.                          *)
Due(k) ==
  /\ Collects(k) /\ cur[k] # <<>>
  /\ batch' = [batch EXCEPT ![k] = cur[k]] /\ cur' = [cur EXCEPT ![k] = <<>>]
  /\ UNCHANGED <<session, handling, in, state, stored, process, faults>>

(* Faulty variant of Remainder: what is queued goes before what was taken. *)
QueuedFirst(k) == in[k] \o cur[k]

(* What a drain has to flush.                                              *)
Remainder(k) == cur[k] \o in[k]

DrainStarts(k) ==
  /\ Collects(k) /\ cancelled
  /\ cur' = [cur EXCEPT ![k] = Remainder(k)] /\ in' = [in EXCEPT ![k] = <<>>]
  /\ state' = [state EXCEPT ![k] = "drain"]
  /\ UNCHANGED <<session, handling, batch, stored, process, faults>>

(* The number of messages of a drain's next batch.                         *)
DrainBatch(es) == IF Len(es) < MaxItems THEN Len(es) ELSE MaxItems

Drain(k) ==
  /\ state[k] = "drain" /\ batch[k] = <<>> /\ proc # "down"
  /\ LET n == DrainBatch(cur[k])
     IN  IF n = 0
           THEN state' = [state EXCEPT ![k] = "done"] /\ UNCHANGED <<batch, cur>>
           ELSE /\ batch' = [batch EXCEPT ![k] = SubSeq(cur[k], 1, n)]
                /\ cur' = [cur EXCEPT ![k] = SubSeq(@, n + 1, Len(@))]
                /\ UNCHANGED state
  /\ UNCHANGED <<session, handling, in, stored, process, faults>>

-----------------------------------------------------------------------------
(* Client.submit and ingest's runStream                                    *)

Submitting(k) == batch[k] # <<>> /\ proc # "down"
RowsOf(k) == {e[1] : e \in Range(batch[k])} \ Invalid

(* Ingest commits part of the stream's rows: the stream is stored in       *)
(* batches, each its own transaction, and the stream may fail in between,  *)
(* or its answer be lost; submit then tries again.  Rows already there are *)
(* left alone by ON CONFLICT DO NOTHING.                                   *)
IngestStores(k, ms) ==
  /\ Submitting(k)
  /\ ms \subseteq RowsOf(k) \ stored /\ ms # {}
  /\ stored' = stored \cup ms
  /\ UNCHANGED <<session, handling, batchers, process, faults>>

(* Faulty variant of Answerable: an answer after the first stored batch.   *)
AnswersEarly(k) == RowsOf(k) = {} \/ RowsOf(k) \cap stored # {}

(* runStream answers when the stream has ended and B has stored it all.    *)
Answerable(k) == RowsOf(k) \subseteq stored

IngestAnswers(k) ==
  /\ Submitting(k) /\ Answerable(k)
  /\ broker' = Acked(Range(batch[k]))
  /\ batch' = [batch EXCEPT ![k] = <<>>]
  /\ UNCHANGED <<connected, conn, handling, in, cur, state, stored, process, faults>>

Fails(k) ==
  /\ Submitting(k)
  /\ batch' = [batch EXCEPT ![k] = <<>>] /\ state' = [state EXCEPT ![k] = "failed"]
  /\ cancelled' = TRUE
  /\ UNCHANGED <<session, handling, in, cur, stored, proc, signalled>>

(* A status that is not retried, or the submit timeout.                    *)
SubmitFails(k) == Fails(k) /\ Fault

(* The context of a running flush is the one that stopBatchers ends.       *)
SubmitCancelled(k) == Fails(k) /\ cancelled /\ state[k] = "run" /\ UNCHANGED faults

-----------------------------------------------------------------------------
(* bridge.Run and the process                                              *)

Signal ==
  /\ proc \in {"up", "stopping"} /\ ~signalled /\ Fault
  /\ signalled' = TRUE /\ proc' = "stopping"
  /\ UNCHANGED <<session, handling, batchers, stored, cancelled>>

(* Faulty variant of BatcherFailed: Run waits for the signal only.         *)
BatcherIgnored ==
  /\ proc = "up" /\ cancelled /\ signalled
  /\ proc' = "stopping"
  /\ UNCHANGED <<session, handling, batchers, stored, signalled, cancelled, faults>>

BatcherFailed ==
  /\ proc = "up" /\ cancelled
  /\ proc' = "stopping"
  /\ UNCHANGED <<session, handling, batchers, stored, signalled, cancelled, faults>>

(* consumer.Close disconnects.                                             *)
CloseConsumer ==
  /\ proc = "stopping"
  /\ proc' = "closed" /\ connected' = FALSE /\ broker' = Requeued
  /\ UNCHANGED <<conn, handling, batchers, stored, signalled, cancelled, faults>>

StopBatchers ==
  /\ proc = "closed"
  /\ proc' = "waiting" /\ cancelled' = TRUE
  /\ UNCHANGED <<session, handling, batchers, stored, signalled, faults>>

Forget == /\ handling' = <<>> /\ in' = Empty /\ cur' = Empty /\ batch' = Empty
          /\ state' = [k \in Kinds |-> "run"] /\ signalled' = FALSE /\ cancelled' = FALSE

Exit ==
  /\ proc = "waiting" /\ \A k \in Kinds : state[k] \in {"done", "failed"}
  /\ proc' = "down" /\ Forget
  /\ UNCHANGED <<session, stored, faults>>

Crash ==
  /\ proc # "down" /\ Fault
  /\ proc' = "down" /\ connected' = FALSE /\ broker' = Requeued /\ Forget
  /\ UNCHANGED <<conn, stored>>

(* The container runtime starts it again, with the same client id.         *)
Restart ==
  /\ proc = "down"
  /\ proc' = "up" /\ connected' = TRUE /\ conn' = conn + 1
  /\ UNCHANGED <<broker, handling, batchers, stored, signalled, cancelled, faults>>

Batching(k) == Take(k) \/ Due(k) \/ DrainStarts(k) \/ Drain(k)
Submission(k) ==
  \/ \E ms \in SUBSET RowsOf(k) : IngestStores(k, ms)
  \/ IngestAnswers(k) \/ SubmitCancelled(k)
Handling == HandlerDrops \/ HandlerAdds \/ HandlerGivesUp
Lifecycle == BatcherFailed \/ CloseConsumer \/ StopBatchers \/ Exit \/ Restart

Next ==
  \/ \E m \in Msgs : Deliver(m)
  \/ ConnectionLost \/ Reconnect
  \/ Handling
  \/ \E k \in Kinds : Batching(k) \/ Submission(k) \/ SubmitFails(k)
  \/ Signal \/ Crash \/ Lifecycle

Spec == Init /\ [][Next]_vars

(***************************************************************************)
(* Fairness: the broker delivers, the client reconnects, the bridge's      *)
(* goroutines run, the runtime restarts the process, and ingest answers    *)
(* once its faults are over.                                               *)
(***************************************************************************)
Fairness ==
  /\ \A m \in Msgs : WF_vars(Deliver(m))
  /\ WF_vars(Reconnect) /\ WF_vars(Handling) /\ WF_vars(Lifecycle)
  /\ \A k \in Kinds : WF_vars(Batching(k)) /\ WF_vars(Submission(k))
FairSpec == Spec /\ Fairness

(* "A crash means redelivery, not loss": the broker forgets only messages  *)
(* whose row is committed, or that the decoder or ingest refused, whatever *)
(* crashes, connections or submits fail on the way.                        *)
NoLoss == \A m \in Msgs : broker[m] = "acked" => m \in Accounted

(* Batches leave by connection: a kind's envelopes stand in the            *)
(* pipeline by the connection they came on, and none stands there twice,   *)
(* through batching, draining and reconnects.                              *)
Pipeline(k) == batch[k] \o cur[k] \o in[k]
PipelineInOrder ==
  \A k \in Kinds : \A i, j \in DOMAIN Pipeline(k) :
    i < j => /\ Pipeline(k)[i][2] <= Pipeline(k)[j][2]
             /\ Pipeline(k)[i] # Pipeline(k)[j]

(* Every message is settled with the broker in the end: no full queue,     *)
(* dead batcher or lost connection holds it back for good.                 *)
EveryMessageSettled == \A m \in Msgs : <>(broker[m] = "acked")
=============================================================================
