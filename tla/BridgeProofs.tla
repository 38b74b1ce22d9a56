----------------------------- MODULE BridgeProofs -----------------------------
(***************************************************************************)
(* Proofs about Bridge: the limits that make the backpressure, that no     *)
(* acknowledged message is lost and that batches leave in the order of     *)
(* delivery, for every set of messages, every batch and queue size and     *)
(* every sequence of faults.                                               *)
(***************************************************************************)
EXTENDS Bridge, FiniteSetTheorems, SequenceTheorems, TLAPS

(* The session never holds more than it was allowed to: forgetting or      *)
(* requeueing messages only makes room.                                    *)
LEMMA FewerInflight ==
  ASSUME TypeOK, \A m \in Msgs : broker'[m] = "inflight" => broker[m] = "inflight"
  PROVE  Cardinality(Inflight') <= ReceiveMax
<1>1. IsFiniteSet(Inflight) /\ Inflight' \subseteq Inflight
  BY MsgsAssumption, FS_Subset DEF Inflight
<1>2. Cardinality(Inflight') <= Cardinality(Inflight) /\ IsFiniteSet(Inflight')
  BY <1>1, FS_Subset
<1>3. Cardinality(Inflight) \in Nat /\ Cardinality(Inflight') \in Nat
  BY <1>1, <1>2, FS_CardinalityType
<1> QED BY <1>2, <1>3, SizesAssumption DEF TypeOK, SessionOK

LEMMA OneMoreInflight ==
  ASSUME TypeOK, NEW m \in Msgs, Deliver(m)
  PROVE  Cardinality(Inflight') <= ReceiveMax
<1>1. IsFiniteSet(Inflight)
  BY MsgsAssumption, FS_Subset DEF Inflight
<1>2. Inflight' = Inflight \cup {m} /\ m \notin Inflight
  BY DEF Deliver, Inflight, TypeOK, SessionOK
<1>3. Cardinality(Inflight') = Cardinality(Inflight) + 1
  BY <1>1, <1>2, FS_AddElement
<1>4. Cardinality(Inflight) \in Nat
  BY <1>1, FS_CardinalityType
<1> QED BY <1>3, <1>4, SizesAssumption DEF Deliver

LEMMA TypeInit == Init => TypeOK
<1> SUFFICES ASSUME Init PROVE TypeOK
  OBVIOUS
<1>1. SessionOK
  <2>1. Inflight = {}
    BY DEF Init, Inflight
  <2>2. Cardinality(Inflight) <= ReceiveMax
    BY <2>1, FS_EmptySet, SizesAssumption
  <2> QED BY <2>2 DEF Init, SessionOK
<1>2. BatchersOK
  <2>1. Empty \in [Kinds -> Seq(Decoded)] /\ \A k \in Kinds : Len(Empty[k]) = 0
    BY DEF Empty
  <2> QED BY <2>1, SizesAssumption DEF Init, BatchersOK
<1>3. FlagsOK
  BY DEF Init, FlagsOK
<1> QED BY <1>1, <1>2, <1>3, SizesAssumption DEF Init, TypeOK

(* Acknowledging and requeueing put nothing in flight.                     *)
LEMMA AckedShape ==
  ASSUME NEW es, SessionOK
  PROVE  /\ Acked(es) \in [Msgs -> {"queued", "inflight", "acked"}]
         /\ \A m \in Msgs : Acked(es)[m] = "inflight" => broker[m] = "inflight"
  BY DEF Acked, SessionOK

LEMMA RequeuedShape ==
  ASSUME SessionOK
  PROVE  /\ Requeued \in [Msgs -> {"queued", "inflight", "acked"}]
         /\ \A m \in Msgs : Requeued[m] = "inflight" => broker[m] = "inflight"
  BY DEF Requeued, SessionOK

LEMMA SessionNext == TypeOK /\ [Next]_vars => SessionOK'
<1> SUFFICES ASSUME TypeOK, [Next]_vars PROVE SessionOK'
  OBVIOUS
<1> USE DEF TypeOK
<1>0. ASSUME UNCHANGED session PROVE SessionOK'
  BY <1>0 DEF session, SessionOK, Inflight
<1>1. ASSUME NEW m \in Msgs, Deliver(m) PROVE SessionOK'
  BY <1>1, OneMoreInflight DEF Deliver, SessionOK
<1>2. ASSUME broker' = Requeued, conn' = conn PROVE SessionOK'
  <2>1. Cardinality(Inflight') <= ReceiveMax
    BY <1>2, RequeuedShape, FewerInflight
  <2> QED BY <1>2, <2>1, RequeuedShape DEF SessionOK
<1>3. ASSUME NEW es, broker' = Acked(es), conn' = conn PROVE SessionOK'
  <2>1. Cardinality(Inflight') <= ReceiveMax
    BY <1>3, AckedShape, FewerInflight
  <2> QED BY <1>3, <2>1, AckedShape DEF SessionOK
<1>4. ASSUME broker' = broker, conn' = conn + 1 PROVE SessionOK'
  BY <1>4 DEF SessionOK, Inflight
<1>5. CASE ConnectionLost BY <1>2, <1>5 DEF ConnectionLost
<1>6. CASE Reconnect BY <1>4, <1>6 DEF Reconnect
<1>7. CASE Handling
  <2>1. CASE HandlerDrops BY <1>3, <2>1 DEF HandlerDrops
  <2>2. CASE HandlerAdds BY <1>0, <2>2 DEF HandlerAdds
  <2>3. CASE HandlerGivesUp BY <1>0, <2>3 DEF HandlerGivesUp
  <2> QED BY <1>7, <2>1, <2>2, <2>3 DEF Handling
<1>8. ASSUME NEW k \in Kinds, Batching(k) PROVE SessionOK'
  BY <1>0, <1>8 DEF Batching, Take, Due, DrainStarts, Drain
<1>9. ASSUME NEW k \in Kinds, Submission(k) PROVE SessionOK'
  <2>1. ASSUME NEW ms, IngestStores(k, ms) PROVE SessionOK'
    BY <1>0, <2>1 DEF IngestStores
  <2>2. CASE IngestAnswers(k) BY <1>3, <2>2 DEF IngestAnswers
  <2>3. CASE SubmitCancelled(k) BY <1>0, <2>3 DEF SubmitCancelled, Fails
  <2> QED BY <1>9, <2>1, <2>2, <2>3 DEF Submission
<1>10. ASSUME NEW k \in Kinds, SubmitFails(k) PROVE SessionOK'
  BY <1>0, <1>10 DEF SubmitFails, Fails
<1>11. CASE Signal BY <1>0, <1>11 DEF Signal
<1>12. CASE Crash BY <1>2, <1>12 DEF Crash
<1>13. CASE Lifecycle
  <2>1. CASE BatcherFailed BY <1>0, <2>1 DEF BatcherFailed
  <2>2. CASE CloseConsumer BY <1>2, <2>2 DEF CloseConsumer
  <2>3. CASE StopBatchers BY <1>0, <2>3 DEF StopBatchers
  <2>4. CASE Exit BY <1>0, <2>4 DEF Exit
  <2>5. CASE Restart BY <1>4, <2>5 DEF Restart
  <2> QED BY <1>13, <2>1, <2>2, <2>3, <2>4, <2>5 DEF Lifecycle
<1>14. CASE UNCHANGED vars BY <1>0, <1>14 DEF vars, session
<1> QED BY <1>1, <1>5, <1>6, <1>7, <1>8, <1>9, <1>10, <1>11, <1>12, <1>13, <1>14 DEF Next

(* The queue and the batches keep within QueueDepth and MaxItems.          *)
LEMMA BatchersNext == TypeOK /\ [Next]_vars => BatchersOK'
<1> SUFFICES ASSUME TypeOK, [Next]_vars PROVE BatchersOK'
  OBVIOUS
<1>t. BatchersOK /\ MaxItems \in Nat \ {0} /\ QueueDepth \in Nat \ {0}
  BY SizesAssumption DEF TypeOK
<1>e. <<>> \in Seq(Decoded) /\ Len(<<>>) = 0
  OBVIOUS
<1>0. ASSUME UNCHANGED batchers PROVE BatchersOK'
  BY <1>t, <1>0 DEF batchers, BatchersOK
<1>f. ASSUME Forget PROVE BatchersOK'
  <2>1. Empty \in [Kinds -> Seq(Decoded)] /\ \A k \in Kinds : Len(Empty[k]) = 0
    BY DEF Empty
  <2> QED BY <2>1, <1>t, <1>f DEF Forget, BatchersOK
<1>1. ASSUME NEW m \in Msgs, Deliver(m) PROVE BatchersOK'
  BY <1>0, <1>1 DEF Deliver
<1>2. CASE ConnectionLost BY <1>0, <1>2 DEF ConnectionLost
<1>3. CASE Reconnect BY <1>0, <1>3 DEF Reconnect
<1>4. CASE Handling
  <2>1. CASE HandlerDrops BY <1>0, <2>1 DEF HandlerDrops
  <2>2. CASE HandlerAdds
    <3> DEFINE k == KindOf[handling[1]]
    <3>1. handling \in Decoded /\ k \in Kinds
      BY <2>2, KindAssumption DEF HandlerAdds, TypeOK, Envelopes, Decoded
    <3>2. Append(in[k], handling) \in Seq(Decoded) /\ Len(Append(in[k], handling)) = Len(in[k]) + 1
      BY <3>1, <1>t DEF BatchersOK
    <3>3. Len(in[k]) \in Nat /\ Len(in[k]) < QueueDepth
      BY <3>1, <1>t, <2>2 DEF BatchersOK, HandlerAdds
    <3>4. in' = [in EXCEPT ![k] = Append(in[k], handling)]
      BY <2>2 DEF HandlerAdds
    <3> QED BY <3>1, <3>2, <3>3, <3>4, <1>t, <2>2 DEF HandlerAdds, BatchersOK
  <2>3. CASE HandlerGivesUp BY <1>0, <2>3 DEF HandlerGivesUp
  <2> QED BY <1>4, <2>1, <2>2, <2>3 DEF Handling
<1>5. ASSUME NEW k \in Kinds, Take(k) PROVE BatchersOK'
  <2> DEFINE es == Append(cur[k], Head(in[k]))
  <2>1. in[k] \in Seq(Decoded) /\ cur[k] \in Seq(Decoded) /\ in[k] # <<>>
    BY <1>5, <1>t DEF Take, BatchersOK
  <2>2. Head(in[k]) \in Decoded /\ Tail(in[k]) \in Seq(Decoded) /\ Len(Tail(in[k])) <= Len(in[k])
    BY <2>1
  <2>3. es \in Seq(Decoded) /\ Len(es) = Len(cur[k]) + 1 /\ Len(cur[k]) \in Nat
    BY <2>1, <2>2
  <2>4. Len(cur[k]) < MaxItems
    <3>1. state[k] = "run" BY <1>5 DEF Take, Collects
    <3> QED BY <3>1, <1>t DEF BatchersOK
  <2>5. in' \in [Kinds -> Seq(Decoded)] /\ \A j \in Kinds : Len(in'[j]) <= QueueDepth
    <3>1. in' = [in EXCEPT ![k] = Tail(in[k])] BY <1>5 DEF Take
    <3>2. Len(Tail(in[k])) <= QueueDepth BY <2>1, <2>2, <1>t DEF BatchersOK
    <3> QED BY <3>1, <3>2, <2>2, <1>t DEF BatchersOK
  <2>6. CASE Len(es) >= MaxItems
    <3>1. cur' = [cur EXCEPT ![k] = <<>>] /\ batch' = [batch EXCEPT ![k] = es]
      BY <1>5, <2>6 DEF Take, Full
    <3> QED BY <3>1, <2>3, <2>4, <2>5, <2>6, <1>5, <1>t, <1>e DEF Take, Full, BatchersOK
  <2>7. CASE ~(Len(es) >= MaxItems)
    <3>1. cur' = [cur EXCEPT ![k] = es] /\ batch' = [batch EXCEPT ![k] = <<>>]
      BY <1>5, <2>7 DEF Take, Full
    <3> QED BY <3>1, <2>3, <2>4, <2>5, <2>7, <1>5, <1>t, <1>e DEF Take, Full, BatchersOK
  <2> QED BY <2>6, <2>7
<1>6. ASSUME NEW k \in Kinds, Due(k) PROVE BatchersOK'
  <2>0. state[k] = "run" BY <1>6 DEF Due, Collects
  <2>1. Len(cur[k]) < MaxItems /\ cur[k] \in Seq(Decoded)
    BY <2>0, <1>t DEF BatchersOK
  <2> QED BY <2>1, <1>6, <1>t, <1>e DEF Due, BatchersOK
<1>7. ASSUME NEW k \in Kinds, DrainStarts(k) PROVE BatchersOK'
  <2>1. Remainder(k) \in Seq(Decoded)
    BY <1>t DEF BatchersOK, Remainder
  <2> QED BY <2>1, <1>7, <1>t, <1>e DEF DrainStarts, BatchersOK
<1>8. ASSUME NEW k \in Kinds, Drain(k) PROVE BatchersOK'
  <2> DEFINE n == DrainBatch(cur[k])
  <2>1. cur[k] \in Seq(Decoded) /\ Len(cur[k]) \in Nat
    BY <1>t DEF BatchersOK
  <2>2. n \in 0 .. Len(cur[k]) /\ n <= MaxItems
    BY <2>1, <1>t DEF DrainBatch
  <2>3. CASE n = 0
    <3>1. batch' = batch /\ cur' = cur /\ in' = in /\ state' = [state EXCEPT ![k] = "done"]
      BY <1>8, <2>3 DEF Drain
    <3> QED BY <3>1, <1>t DEF BatchersOK
  <2>4. CASE n # 0
    <3> DEFINE es == SubSeq(cur[k], 1, n)
               rest == SubSeq(cur[k], n + 1, Len(cur[k]))
    <3>1. es \in Seq(Decoded) /\ rest \in Seq(Decoded) /\ Len(es) = n
      BY <2>1, <2>2
    <3>2. /\ batch' = [batch EXCEPT ![k] = es] /\ cur' = [cur EXCEPT ![k] = rest]
          /\ state' = state /\ in' = in
      BY <1>8, <2>4 DEF Drain
    <3>3. state[k] = "drain"
      BY <1>8 DEF Drain
    <3> QED BY <3>1, <3>2, <3>3, <2>2, <1>t DEF BatchersOK
  <2> QED BY <2>3, <2>4
<1>9. ASSUME NEW k \in Kinds, Batching(k) PROVE BatchersOK'
  BY <1>5, <1>6, <1>7, <1>8, <1>9 DEF Batching
<1>10. ASSUME NEW k \in Kinds, Fails(k) PROVE BatchersOK'
  BY <1>10, <1>t, <1>e DEF Fails, BatchersOK
<1>11. ASSUME NEW k \in Kinds, Submission(k) PROVE BatchersOK'
  <2>1. ASSUME NEW ms, IngestStores(k, ms) PROVE BatchersOK'
    BY <1>0, <2>1 DEF IngestStores
  <2>2. CASE IngestAnswers(k)
    BY <2>2, <1>t, <1>e DEF IngestAnswers, BatchersOK
  <2>3. CASE SubmitCancelled(k) BY <1>10, <2>3 DEF SubmitCancelled
  <2> QED BY <1>11, <2>1, <2>2, <2>3 DEF Submission
<1>12. ASSUME NEW k \in Kinds, SubmitFails(k) PROVE BatchersOK'
  BY <1>10, <1>12 DEF SubmitFails
<1>13. CASE Signal BY <1>0, <1>13 DEF Signal
<1>14. CASE Crash BY <1>f, <1>14 DEF Crash
<1>15. CASE Lifecycle
  <2>1. CASE Exit BY <1>f, <2>1 DEF Exit
  <2>2. CASE BatcherFailed \/ CloseConsumer \/ StopBatchers \/ Restart
    BY <1>0, <2>2 DEF BatcherFailed, CloseConsumer, StopBatchers, Restart
  <2> QED BY <1>15, <2>1, <2>2 DEF Lifecycle
<1>16. CASE UNCHANGED vars BY <1>0, <1>16 DEF vars, batchers
<1> QED BY <1>1, <1>2, <1>3, <1>4, <1>9, <1>11, <1>12, <1>13, <1>14, <1>15, <1>16 DEF Next

LEMMA FlagsNext == TypeOK /\ [Next]_vars => FlagsOK'
<1> SUFFICES ASSUME TypeOK, [Next]_vars PROVE FlagsOK'
  OBVIOUS
<1>0. connected' \in {connected, TRUE, FALSE}
  BY DEF Next, vars, Deliver, ConnectionLost, Reconnect, Handling, HandlerDrops, HandlerAdds,
         HandlerGivesUp, Batching, Take, Due, DrainStarts, Drain, Submission, IngestStores,
         IngestAnswers, SubmitCancelled, SubmitFails, Fails, Signal, Crash, Lifecycle,
         BatcherFailed, CloseConsumer, StopBatchers, Exit, Restart, session
<1>1. signalled' \in {signalled, TRUE, FALSE}
  BY DEF Next, vars, Deliver, ConnectionLost, Reconnect, Handling, HandlerDrops, HandlerAdds,
         HandlerGivesUp, Batching, Take, Due, DrainStarts, Drain, Submission, IngestStores,
         IngestAnswers, SubmitCancelled, SubmitFails, Fails, Signal, Crash, Lifecycle,
         BatcherFailed, CloseConsumer, StopBatchers, Exit, Restart, process, Forget
<1>2. cancelled' \in {cancelled, TRUE, FALSE}
  BY DEF Next, vars, Deliver, ConnectionLost, Reconnect, Handling, HandlerDrops, HandlerAdds,
         HandlerGivesUp, Batching, Take, Due, DrainStarts, Drain, Submission, IngestStores,
         IngestAnswers, SubmitCancelled, SubmitFails, Fails, Signal, Crash, Lifecycle,
         BatcherFailed, CloseConsumer, StopBatchers, Exit, Restart, process, Forget
<1> QED BY <1>0, <1>1, <1>2, Zenon DEF TypeOK, FlagsOK

(* What a batch holds was decoded, so its rows are never poison.           *)
LEMMA RowsDecoded ==
  ASSUME BatchersOK, NEW k \in Kinds
  PROVE  RowsOf(k) \subseteq Msgs \ (Invalid \cup Poison)
<1>1. batch[k] \in Seq(Decoded)
  BY DEF BatchersOK
<1>2. \A e \in Range(batch[k]) : e \in Decoded
  BY <1>1 DEF Range
<1>3. \A e \in Decoded : e[1] \in Msgs \ Poison
  BY DEF Decoded
<1> QED BY <1>2, <1>3 DEF RowsOf

(* Rows are stored by ingest alone, and stay.                              *)
LEMMA StoredNext ==
  ASSUME TypeOK, [Next]_vars
  PROVE  stored \subseteq stored' /\ stored' \subseteq Msgs \ (Invalid \cup Poison)
<1>1. stored' = stored \/ \E k \in Kinds : \E ms : IngestStores(k, ms)
  BY DEF Next, vars, Deliver, ConnectionLost, Reconnect, Handling, HandlerDrops, HandlerAdds,
         HandlerGivesUp, Batching, Take, Due, DrainStarts, Drain, Submission, IngestStores,
         IngestAnswers, SubmitCancelled, SubmitFails, Fails, Signal, Crash, Lifecycle,
         BatcherFailed, CloseConsumer, StopBatchers, Exit, Restart
<1>2. ASSUME NEW k \in Kinds, NEW ms, IngestStores(k, ms)
      PROVE  stored \subseteq stored' /\ stored' \subseteq Msgs \ (Invalid \cup Poison)
  BY <1>2, RowsDecoded DEF IngestStores, TypeOK
<1> QED BY <1>1, <1>2 DEF TypeOK

LEMMA TypeNext == TypeOK /\ [Next]_vars => TypeOK'
<1> SUFFICES ASSUME TypeOK, [Next]_vars PROVE TypeOK'
  OBVIOUS
<1>1. (handling = <<>> \/ handling \in Envelopes)'
  <2>1. handling' \in {handling, <<>>} \/ \E m \in Msgs : handling' = <<m, conn>>
    BY DEF Next, vars, Deliver, ConnectionLost, Reconnect, Handling, HandlerDrops, HandlerAdds,
         HandlerGivesUp, Batching, Take, Due, DrainStarts, Drain, Submission, IngestStores,
         IngestAnswers, SubmitCancelled, SubmitFails, Fails, Signal, Crash, Lifecycle,
         BatcherFailed, CloseConsumer, StopBatchers, Exit, Restart,
         Forget
  <2>2. conn \in Nat \ {0}
    BY DEF TypeOK, SessionOK
  <2> QED BY <2>1, <2>2 DEF TypeOK, Envelopes
<1>2. proc' \in {"up", "stopping", "closed", "waiting", "down"}
  BY DEF TypeOK, Next, vars, Deliver, ConnectionLost, Reconnect, Handling, HandlerDrops, HandlerAdds,
         HandlerGivesUp, Batching, Take, Due, DrainStarts, Drain, Submission, IngestStores,
         IngestAnswers, SubmitCancelled, SubmitFails, Fails, Signal, Crash, Lifecycle,
         BatcherFailed, CloseConsumer, StopBatchers, Exit, Restart,
         process
<1>3. faults' \in 0 .. MaxFaults
  <2>1. faults' = faults \/ Fault
    BY DEF Next, vars, Deliver, ConnectionLost, Reconnect, Handling, HandlerDrops, HandlerAdds,
         HandlerGivesUp, Batching, Take, Due, DrainStarts, Drain, Submission, IngestStores,
         IngestAnswers, SubmitCancelled, SubmitFails, Fails, Signal, Crash, Lifecycle,
         BatcherFailed, CloseConsumer, StopBatchers, Exit, Restart
  <2> QED BY <2>1, SizesAssumption DEF TypeOK, Fault
<1> QED BY <1>1, <1>2, <1>3, SessionNext, BatchersNext, FlagsNext, StoredNext DEF TypeOK

(* Every action keeps what the broker has forgotten accounted for.  Only   *)
(* the handler and the answer of ingest acknowledge.                       *)
LEMMA NoLossNext == TypeOK /\ NoLoss /\ [Next]_vars => NoLoss'
<1> SUFFICES ASSUME TypeOK, NoLoss, [Next]_vars,
                    NEW m \in Msgs, broker'[m] = "acked"
             PROVE  m \in Accounted'
  BY DEF NoLoss
<1>1. Accounted \subseteq Accounted'
  BY StoredNext DEF Accounted
<1>2. CASE broker[m] = "acked"
  BY <1>1, <1>2 DEF NoLoss
<1>3. CASE broker[m] # "acked"
  <2>1. HandlerDrops \/ \E k \in Kinds : IngestAnswers(k)
    <3>1. broker \in [Msgs -> {"queued", "inflight", "acked"}]
      BY DEF TypeOK, SessionOK
    <3>2. broker' # broker /\ broker' # Requeued
      BY <1>3, <3>1 DEF Requeued
    <3>3. ~ \E n \in Msgs : Deliver(n)
      BY <1>3, <3>1 DEF Deliver
    <3> QED BY <3>2, <3>3 DEF Next, vars, ConnectionLost, Reconnect, Handling, HandlerAdds,
         HandlerGivesUp, Batching, Take, Due, DrainStarts, Drain, Submission, IngestStores,
         SubmitCancelled, SubmitFails, Fails, Signal, Crash, Lifecycle,
         BatcherFailed, CloseConsumer, StopBatchers, Exit, Restart, session
  <2>2. CASE HandlerDrops
    <3>1. <<m, conn>> = handling
      BY <1>3, <2>2 DEF HandlerDrops, Acked
    <3> QED BY <3>1, <2>2, <1>1 DEF HandlerDrops, Accounted
  <2>3. ASSUME NEW k \in Kinds, IngestAnswers(k) PROVE m \in Accounted'
    <3>1. <<m, conn>> \in Range(batch[k])
      BY <1>3, <2>3 DEF IngestAnswers, Acked
    <3>2. m \in RowsOf(k) \cup Invalid
      BY <3>1 DEF RowsOf
    <3> QED BY <3>2, <2>3, <1>1 DEF IngestAnswers, Answerable, Accounted
  <2> QED BY <2>1, <2>2, <2>3
<1> QED BY <1>2, <1>3

(* Every variable keeps its type, and the queues, the batches and the      *)
(* unacknowledged messages keep within QueueDepth, MaxItems and ReceiveMax:*)
(* the bounds of Batcher and of the MQTT session hold under all faults.    *)
THEOREM TypeCorrect == Spec => []TypeOK
<1> QED BY TypeInit, TypeNext, PTL DEF Spec

(* The broker forgets a message only after its row is committed, or after  *)
(* the decoder or ingest refused it: the acknowledgement that follows      *)
(* ingest's answer makes a crash a redelivery and never a loss.            *)
THEOREM NoMessageLost == Spec => []NoLoss
<1>1. Init => NoLoss
  BY DEF Init, NoLoss
<1>2. TypeOK /\ TypeOK' /\ NoLoss /\ [Next]_vars => NoLoss'
  BY NoLossNext
<1> QED BY <1>1, <1>2, TypeCorrect, PTL DEF Spec

-----------------------------------------------------------------------------
(* The order of the pipelines.  What a kind's batcher holds is one          *)
(* sequence, the batch, then what is collected, then the queue: batching    *)
(* and draining move the borders in it and only Add extends it.             *)

(* s is t without some of its first entries.                               *)
Suffix(s, t) ==
  \E d \in Nat : Len(t) = d + Len(s) /\ \A i \in 1 .. Len(s) : s[i] = t[i + d]

(* The envelopes of a kind between Add and the answer of ingest.           *)
Elements(k) == {Pipeline(k)[i] : i \in 1 .. Len(Pipeline(k))}

(* Taking the first of t to the end of s moves nothing.                    *)
LEMMA TakeConcat ==
  ASSUME NEW D, NEW s \in Seq(D), NEW t \in Seq(D), t # <<>>
  PROVE  Append(s, Head(t)) \o Tail(t) = s \o t
<1> DEFINE a == Append(s, Head(t))
           b == Tail(t)
<1>1. Len(s) \in Nat /\ Len(t) \in Nat \ {0}
  BY EmptySeq, LenProperties
<1>2. Head(t) = t[1] /\ Head(t) \in D
  BY <1>1
<1>3. a \in Seq(D) /\ Len(a) = Len(s) + 1 /\ a[Len(s) + 1] = t[1] /\ \A i \in 1 .. Len(s) : a[i] = s[i]
  BY <1>1, <1>2
<1>4. b \in Seq(D) /\ Len(b) = Len(t) - 1 /\ \A i \in 1 .. Len(b) : b[i] = t[i + 1]
  BY HeadTailProperties
<1> HIDE DEF a, b
<1>5. /\ a \o b \in Seq(D) /\ Len(a \o b) = Len(a) + Len(b)
      /\ \A i \in 1 .. Len(a) + Len(b) : (a \o b)[i] = IF i <= Len(a) THEN a[i] ELSE b[i - Len(a)]
  BY <1>3, <1>4, ConcatProperties
<1>6. /\ s \o t \in Seq(D) /\ Len(s \o t) = Len(s) + Len(t)
      /\ \A i \in 1 .. Len(s) + Len(t) : (s \o t)[i] = IF i <= Len(s) THEN s[i] ELSE t[i - Len(s)]
  BY ConcatProperties
<1>7. Len(a \o b) = Len(s \o t)
  BY <1>1, <1>3, <1>4, <1>5, <1>6
<1>8. ASSUME NEW i \in 1 .. Len(a \o b) PROVE (a \o b)[i] = (s \o t)[i]
  <2>0. i \in 1 .. Len(a) + Len(b) /\ i \in 1 .. Len(s) + Len(t) /\ i \in Nat
    BY <1>1, <1>5, <1>6, <1>7
  <2>1. CASE i <= Len(s)
    BY <1>1, <1>3, <1>5, <1>6, <2>0, <2>1
  <2>2. CASE i = Len(s) + 1
    BY <1>1, <1>3, <1>5, <1>6, <2>0, <2>2
  <2>3. CASE i > Len(s) + 1
    <3>1. (a \o b)[i] = b[i - Len(a)] /\ i - Len(a) \in 1 .. Len(b)
      BY <1>1, <1>3, <1>4, <1>5, <2>0, <2>3
    <3>2. (s \o t)[i] = t[i - Len(s)]
      BY <1>1, <1>6, <2>0, <2>3
    <3>3. b[i - Len(a)] = t[(i - Len(a)) + 1]
      BY <1>4, <3>1
    <3>4. (i - Len(a)) + 1 = i - Len(s)
      BY <1>1, <1>3, <2>0
    <3> QED BY <3>1, <3>2, <3>3, <3>4
  <2> QED BY <1>1, <2>0, <2>1, <2>2, <2>3
<1>9. a \o b = s \o t
  BY <1>5, <1>6, <1>7, <1>8, SeqEqual
<1> QED BY <1>9 DEF a, b

(* Cutting a sequence in two moves nothing either.                         *)
LEMMA SplitConcat ==
  ASSUME NEW D, NEW s \in Seq(D), NEW n \in 0 .. Len(s)
  PROVE  SubSeq(s, 1, n) \o SubSeq(s, n + 1, Len(s)) = s
<1> DEFINE a == SubSeq(s, 1, n)
           b == SubSeq(s, n + 1, Len(s))
<1>1. Len(s) \in Nat /\ n \in Nat /\ n <= Len(s) /\ \A i \in 1 .. Len(s) : s[i] \in D
  BY LenProperties, ElementOfSeq
<1>2. a \in Seq(D) /\ Len(a) = n /\ \A i \in 1 .. n : a[i] = s[i]
  <2>1. \A i \in 1 .. n : s[i] \in D
    BY <1>1
  <2>2. /\ a \in Seq(D) /\ Len(a) = IF 1 <= n THEN n - 1 + 1 ELSE 0
        /\ \A i \in 1 .. n - 1 + 1 : a[i] = s[1 + i - 1]
    BY <1>1, <2>1, SubSeqProperties
  <2> HIDE DEF a
  <2> QED BY <1>1, <2>2
<1>3. b \in Seq(D) /\ Len(b) = Len(s) - n /\ \A i \in 1 .. Len(s) - n : b[i] = s[n + i]
  <2>1. \A i \in n + 1 .. Len(s) : s[i] \in D
    BY <1>1
  <2>2. /\ b \in Seq(D) /\ Len(b) = IF n + 1 <= Len(s) THEN Len(s) - (n + 1) + 1 ELSE 0
        /\ \A i \in 1 .. Len(s) - (n + 1) + 1 : b[i] = s[(n + 1) + i - 1]
    BY <1>1, <2>1, SubSeqProperties
  <2> HIDE DEF b
  <2> QED BY <1>1, <2>2
<1> HIDE DEF a, b
<1>4. /\ a \o b \in Seq(D) /\ Len(a \o b) = Len(a) + Len(b)
      /\ \A i \in 1 .. Len(a) + Len(b) : (a \o b)[i] = IF i <= Len(a) THEN a[i] ELSE b[i - Len(a)]
  BY <1>2, <1>3, ConcatProperties
<1>5. Len(a \o b) = Len(s)
  BY <1>1, <1>2, <1>3, <1>4
<1>6. ASSUME NEW i \in 1 .. Len(a \o b) PROVE (a \o b)[i] = s[i]
  <2>1. CASE i <= n
    BY <1>1, <1>2, <1>4, <1>5, <2>1
  <2>2. CASE i > n
    <3>1. (a \o b)[i] = b[i - n] /\ i - n \in 1 .. Len(s) - n
      BY <1>1, <1>2, <1>4, <1>5, <2>2
    <3>2. b[i - n] = s[n + (i - n)] /\ n + (i - n) = i
      BY <1>1, <1>3, <1>5, <3>1
    <3> QED BY <3>1, <3>2
  <2> QED BY <1>1, <2>1, <2>2, <1>5
<1>7. a \o b = s
  BY <1>4, <1>5, <1>6, SeqEqual
<1> QED BY <1>7 DEF a, b

(* Appending to the last part appends to the whole.                        *)
LEMMA ConcatAppend ==
  ASSUME NEW D, NEW a \in Seq(D), NEW c \in Seq(D), NEW x \in D
  PROVE  a \o Append(c, x) = Append(a \o c, x)
<1>1. a \o c \in Seq(D) /\ <<x>> \in Seq(D)
  BY ConcatProperties
<1>2. Append(c, x) = c \o <<x>> /\ Append(a \o c, x) = (a \o c) \o <<x>>
  BY <1>1, AppendIsConcat
<1>3. (a \o c) \o <<x>> = a \o (c \o <<x>>)
  BY <1>1, ConcatAssociative
<1> QED BY <1>2, <1>3

(* Dropping the batch in front leaves a suffix.                            *)
LEMMA DropFront ==
  ASSUME NEW D, NEW a \in Seq(D), NEW b \in Seq(D), NEW c \in Seq(D)
  PROVE  Suffix(<<>> \o b \o c, a \o b \o c)
<1>0. Len(a) \in Nat /\ Len(b) \in Nat /\ Len(c) \in Nat
  BY LenProperties
<1>1. <<>> \o b = b
  BY ConcatEmptySeq
<1>2. a \o b \o c = a \o (b \o c) /\ b \o c \in Seq(D)
  BY ConcatAssociative, ConcatProperties
<1> DEFINE t == b \o c
<1> HIDE DEF t
<1>3. /\ Len(a \o t) = Len(a) + Len(t) /\ Len(t) \in Nat
      /\ \A i \in 1 .. Len(a) + Len(t) : (a \o t)[i] = IF i <= Len(a) THEN a[i] ELSE t[i - Len(a)]
  BY <1>2, ConcatProperties, LenProperties DEF t
<1>4. \A i \in 1 .. Len(t) : t[i] = (a \o t)[i + Len(a)]
  <2> SUFFICES ASSUME NEW i \in 1 .. Len(t) PROVE t[i] = (a \o t)[i + Len(a)]
    OBVIOUS
  <2>1. i + Len(a) \in 1 .. Len(a) + Len(t) /\ ~(i + Len(a) <= Len(a)) /\ (i + Len(a)) - Len(a) = i
    BY <1>0, <1>3
  <2> QED BY <1>3, <2>1
<1>5. Suffix(t, a \o t)
  BY <1>0, <1>3, <1>4 DEF Suffix
<1> QED BY <1>1, <1>2, <1>5 DEF t

(* The queue, the collected and the submitted batch hold decoded envelopes.*)
LEMMA PipelineIsSeq ==
  ASSUME BatchersOK, NEW k \in Kinds
  PROVE  /\ Pipeline(k) \in Seq(Decoded) /\ Len(Pipeline(k)) \in Nat
         /\ batch[k] \in Seq(Decoded) /\ cur[k] \in Seq(Decoded) /\ in[k] \in Seq(Decoded)
<1>1. batch[k] \in Seq(Decoded) /\ cur[k] \in Seq(Decoded) /\ in[k] \in Seq(Decoded)
  BY DEF BatchersOK
<1>2. batch[k] \o cur[k] \in Seq(Decoded)
  BY <1>1, ConcatProperties
<1> QED BY <1>1, <1>2, ConcatProperties, LenProperties DEF Pipeline

(* All of a sequence and nothing of it are suffixes.                       *)
LEMMA SuffixRefl ==
  ASSUME NEW D, NEW s \in Seq(D)
  PROVE  Suffix(s, s) /\ Suffix(<<>>, s)
<1>1. Len(s) \in Nat
  BY LenProperties
<1>2. Suffix(s, s)
  <2>1. Len(s) = 0 + Len(s) /\ \A i \in 1 .. Len(s) : s[i] = s[i + 0]
    BY <1>1
  <2> QED BY <2>1 DEF Suffix
<1>3. Suffix(<<>>, s)
  <2>1. Len(s) = Len(s) + Len(<<>>) /\ \A i \in 1 .. Len(<<>>) : <<>>[i] = s[i + Len(s)]
    BY <1>1
  <2> QED BY <1>1, <2>1 DEF Suffix
<1> QED BY <1>2, <1>3

(* A step that adds nothing behind a pipeline and changes no order in it.  *)
PipesKept == \A k \in Kinds : Suffix(Pipeline(k)', Pipeline(k))

(* Everything but the handler's Add leaves each pipeline as it is, or takes *)
(* its batch, or all of it, away.                                          *)
LEMMA OnlyAddExtends == TypeOK /\ [Next]_vars => PipesKept \/ HandlerAdds
<1> SUFFICES ASSUME TypeOK, [Next]_vars, ~HandlerAdds PROVE PipesKept
  OBVIOUS
<1>t. BatchersOK
  BY DEF TypeOK
<1>s. \A k \in Kinds : Pipeline(k) \in Seq(Decoded)
  BY <1>t, PipelineIsSeq
<1>e. \A s \in Seq(Decoded) : <<>> \o s = s /\ s \o <<>> = s
  BY ConcatEmptySeq
<1>0. ASSUME UNCHANGED batchers PROVE PipesKept
  BY <1>s, <1>0, SuffixRefl DEF batchers, PipesKept, Pipeline
<1>f. ASSUME Forget PROVE PipesKept
  <2>1. \A k \in Kinds : Pipeline(k)' = <<>>
    BY <1>f, ConcatEmptySeq, EmptySeq DEF Forget, Pipeline, Empty
  <2> QED BY <1>s, <2>1, SuffixRefl DEF PipesKept
<1>o. ASSUME NEW k \in Kinds, Suffix(Pipeline(k)', Pipeline(k)),
             \A j \in Kinds \ {k} : batch'[j] = batch[j] /\ cur'[j] = cur[j] /\ in'[j] = in[j]
      PROVE  PipesKept
  BY <1>s, <1>o, SuffixRefl DEF PipesKept, Pipeline
<1>q. ASSUME NEW k \in Kinds
      PROVE  batch[k] \in Seq(Decoded) /\ cur[k] \in Seq(Decoded) /\ in[k] \in Seq(Decoded)
  BY <1>t, PipelineIsSeq
<1>1. ASSUME NEW m \in Msgs, Deliver(m) PROVE PipesKept
  BY <1>0, <1>1 DEF Deliver
<1>2. CASE ConnectionLost \/ Reconnect \/ HandlerDrops \/ HandlerGivesUp \/ Signal
  BY <1>0, <1>2 DEF ConnectionLost, Reconnect, HandlerDrops, HandlerGivesUp, Signal
<1>3. ASSUME NEW k \in Kinds, Take(k) PROVE PipesKept
  <2> DEFINE es == Append(cur[k], Head(in[k]))
             rest == Tail(in[k])
  <2>0. batch[k] = <<>> /\ in[k] # <<>>
    BY <1>3 DEF Take, Collects
  <2>1. es \in Seq(Decoded) /\ rest \in Seq(Decoded)
    BY <1>q, <2>0
  <2>2. es \o rest = cur[k] \o in[k]
    BY <1>q, <2>0, TakeConcat
  <2>3. Pipeline(k) = cur[k] \o in[k]
    BY <1>q, <1>e, <2>0 DEF Pipeline
  <2>4. /\ in'[k] = rest /\ cur'[k] = IF Full(es) THEN <<>> ELSE es
        /\ batch'[k] = IF Full(es) THEN es ELSE <<>>
        /\ \A j \in Kinds \ {k} : batch'[j] = batch[j] /\ cur'[j] = cur[j] /\ in'[j] = in[j]
    BY <1>3, <1>t DEF Take, BatchersOK
  <2> HIDE DEF es, rest
  <2>5. Pipeline(k)' = es \o rest
    BY <1>e, <2>1, <2>4 DEF Pipeline
  <2>6. Suffix(Pipeline(k)', Pipeline(k))
    BY <1>s, <2>2, <2>3, <2>5, SuffixRefl
  <2> QED BY <1>o, <2>4, <2>6
<1>4. ASSUME NEW k \in Kinds, Due(k) PROVE PipesKept
  <2>1. batch[k] = <<>>
    BY <1>4 DEF Due, Collects
  <2>2. /\ in'[k] = in[k] /\ cur'[k] = <<>> /\ batch'[k] = cur[k]
        /\ \A j \in Kinds \ {k} : batch'[j] = batch[j] /\ cur'[j] = cur[j] /\ in'[j] = in[j]
    BY <1>4, <1>t DEF Due, BatchersOK
  <2>3. Pipeline(k)' = Pipeline(k)
    BY <1>q, <1>e, <2>1, <2>2 DEF Pipeline
  <2>4. Suffix(Pipeline(k)', Pipeline(k))
    BY <1>s, <2>3, SuffixRefl
  <2> QED BY <1>o, <2>2, <2>4
<1>5. ASSUME NEW k \in Kinds, DrainStarts(k) PROVE PipesKept
  <2>1. batch[k] = <<>>
    BY <1>5 DEF DrainStarts, Collects
  <2>2. /\ in'[k] = <<>> /\ cur'[k] = cur[k] \o in[k] /\ batch'[k] = <<>>
        /\ \A j \in Kinds \ {k} : batch'[j] = batch[j] /\ cur'[j] = cur[j] /\ in'[j] = in[j]
    BY <1>5, <1>t, <2>1 DEF DrainStarts, BatchersOK, Remainder
  <2>3. cur[k] \o in[k] \in Seq(Decoded)
    BY <1>q, ConcatProperties
  <2>4. Pipeline(k)' = Pipeline(k)
    BY <1>q, <1>e, <2>1, <2>2, <2>3 DEF Pipeline
  <2>5. Suffix(Pipeline(k)', Pipeline(k))
    BY <1>s, <2>4, SuffixRefl
  <2> QED BY <1>o, <2>2, <2>5
<1>6. ASSUME NEW k \in Kinds, Drain(k) PROVE PipesKept
  <2> DEFINE n == DrainBatch(cur[k])
             es == SubSeq(cur[k], 1, n)
             rest == SubSeq(cur[k], n + 1, Len(cur[k]))
  <2>0. batch[k] = <<>> /\ n \in 0 .. Len(cur[k])
    BY <1>6, <1>q, SizesAssumption DEF Drain, DrainBatch
  <2>1. CASE n = 0
    BY <1>6, <1>s, <2>1, SuffixRefl DEF Drain, PipesKept, Pipeline
  <2>2. CASE n # 0
    <3>1. /\ in'[k] = in[k] /\ cur'[k] = rest /\ batch'[k] = es
          /\ \A j \in Kinds \ {k} : batch'[j] = batch[j] /\ cur'[j] = cur[j] /\ in'[j] = in[j]
      BY <1>6, <1>t, <2>2 DEF Drain, BatchersOK
    <3>2. es \o rest = cur[k]
      BY <1>q, <2>0, SplitConcat
    <3>3. Pipeline(k)' = Pipeline(k)
      BY <1>q, <1>e, <2>0, <3>1, <3>2 DEF Pipeline
    <3>4. Suffix(Pipeline(k)', Pipeline(k))
      BY <1>s, <3>3, SuffixRefl
    <3> QED BY <1>o, <3>1, <3>4
  <2> QED BY <2>1, <2>2
<1>7. ASSUME NEW k \in Kinds, batch' = [batch EXCEPT ![k] = <<>>], UNCHANGED <<cur, in>>
      PROVE  PipesKept
  <2>1. /\ in'[k] = in[k] /\ cur'[k] = cur[k] /\ batch'[k] = <<>>
        /\ \A j \in Kinds \ {k} : batch'[j] = batch[j] /\ cur'[j] = cur[j] /\ in'[j] = in[j]
    BY <1>7, <1>t DEF BatchersOK
  <2>2. Suffix(Pipeline(k)', Pipeline(k))
    BY <1>q, <2>1, DropFront DEF Pipeline
  <2> QED BY <1>o, <2>1, <2>2
<1>8. ASSUME NEW k \in Kinds, Submission(k) \/ SubmitFails(k) PROVE PipesKept
  <2>1. ASSUME NEW ms, IngestStores(k, ms) PROVE PipesKept
    BY <1>0, <2>1 DEF IngestStores
  <2>2. CASE IngestAnswers(k)
    BY <1>7, <2>2 DEF IngestAnswers
  <2>3. CASE SubmitCancelled(k) \/ SubmitFails(k)
    BY <1>7, <2>3 DEF SubmitCancelled, SubmitFails, Fails
  <2> QED BY <1>8, <2>1, <2>2, <2>3 DEF Submission
<1>9. CASE Crash \/ Exit
  BY <1>f, <1>9 DEF Crash, Exit
<1>10. CASE BatcherFailed \/ CloseConsumer \/ StopBatchers \/ Restart
  BY <1>0, <1>10 DEF BatcherFailed, CloseConsumer, StopBatchers, Restart
<1>11. CASE UNCHANGED vars
  BY <1>0, <1>11 DEF vars, batchers
<1> QED
  BY <1>1, <1>2, <1>3, <1>4, <1>5, <1>6, <1>8, <1>9, <1>10, <1>11 DEF Next, Handling, Batching, Lifecycle

(* What is left of a pipeline in order is in order.                        *)
LEMMA KeptInOrder ==
  ASSUME BatchersOK, BatchersOK', PipelineInOrder, PipesKept
  PROVE  PipelineInOrder' /\ \A k \in Kinds : Elements(k)' \subseteq Elements(k)
<1> SUFFICES ASSUME NEW k \in Kinds
             PROVE  /\ \A i, j \in DOMAIN Pipeline(k)' :
                         i < j => /\ Pipeline(k)'[i][2] <= Pipeline(k)'[j][2]
                                  /\ Pipeline(k)'[i] # Pipeline(k)'[j]
                    /\ Elements(k)' \subseteq Elements(k)
  BY DEF PipelineInOrder
<1> DEFINE t == Pipeline(k)
           s == Pipeline(k)'
<1>1. t \in Seq(Decoded) /\ Len(t) \in Nat
  BY PipelineIsSeq
<1>2. s \in Seq(Decoded) /\ Len(s) \in Nat
  <2>1. (t \in Seq(Decoded) /\ Len(t) \in Nat)'
    BY PipelineIsSeq, PTL
  <2> QED BY <2>1
<1>3. PICK d \in Nat : Len(t) = d + Len(s) /\ \A i \in 1 .. Len(s) : s[i] = t[i + d]
  BY DEF PipesKept, Suffix
<1>4. \A i, j \in DOMAIN t : i < j => t[i][2] <= t[j][2] /\ t[i] # t[j]
  BY DEF PipelineInOrder
<1> HIDE DEF t, s
<1>5. DOMAIN t = 1 .. Len(t) /\ DOMAIN s = 1 .. Len(s)
  BY <1>1, <1>2
<1>6. \A i \in 1 .. Len(s) : i + d \in 1 .. Len(t)
  BY <1>1, <1>2, <1>3
<1>7. \A i, j \in DOMAIN s : i < j => s[i][2] <= s[j][2] /\ s[i] # s[j]
  <2> SUFFICES ASSUME NEW i \in DOMAIN s, NEW j \in DOMAIN s, i < j
               PROVE  s[i][2] <= s[j][2] /\ s[i] # s[j]
    OBVIOUS
  <2>1. i + d \in DOMAIN t /\ j + d \in DOMAIN t /\ i + d < j + d
    BY <1>2, <1>3, <1>5, <1>6
  <2> QED BY <1>3, <1>4, <1>5, <2>1
<1>8. {s[i] : i \in 1 .. Len(s)} \subseteq {t[i] : i \in 1 .. Len(t)}
  BY <1>3, <1>6
<1> QED BY <1>7, <1>8 DEF t, s, Elements

(* Add puts the envelope behind the others of its kind.                    *)
LEMMA AddAppends ==
  ASSUME TypeOK, HandlerAdds, NEW k \in Kinds
  PROVE  Pipeline(k)' = IF k = KindOf[handling[1]] THEN Append(Pipeline(k), handling) ELSE Pipeline(k)
<1>1. batch[k] \in Seq(Decoded) /\ cur[k] \in Seq(Decoded) /\ in[k] \in Seq(Decoded)
  BY PipelineIsSeq DEF TypeOK
<1>2. handling \in Decoded
  BY DEF HandlerAdds, TypeOK, Envelopes, Decoded
<1>3. /\ in'[k] = IF k = KindOf[handling[1]] THEN Append(in[k], handling) ELSE in[k]
      /\ cur'[k] = cur[k] /\ batch'[k] = batch[k]
  BY DEF HandlerAdds, TypeOK, BatchersOK
<1> DEFINE a == batch[k] \o cur[k]
<1>4. a \in Seq(Decoded)
  BY <1>1, ConcatProperties
<1> HIDE DEF a
<1>5. a \o Append(in[k], handling) = Append(a \o in[k], handling)
  BY <1>1, <1>2, <1>4, ConcatAppend
<1> QED BY <1>3, <1>5 DEF Pipeline, a

(* No envelope of a pipeline came on a connection yet to be made.          *)
ConnsPast == \A k \in Kinds : \A e \in Elements(k) : e[2] <= conn

(* The envelope in the handler came after all that were added.             *)
HandledLast ==
  handling # <<>> =>
    /\ handling[2] <= conn
    /\ \A k \in Kinds : \A e \in Elements(k) : e[2] <= handling[2] /\ e # handling

(* What the broker may deliver on this connection was not yet received on it. *)
QueuedAfresh ==
  connected => \A m \in Msgs : broker[m] = "queued" =>
    handling # <<m, conn>> /\ \A k \in Kinds : <<m, conn>> \notin Elements(k)

OrderInv == PipelineInOrder /\ ConnsPast /\ HandledLast /\ QueuedAfresh

(* A connection ends, a new one begins, or the session's queue only        *)
(* shrinks.                                                                *)
LEMMA SessionMoves ==
  ASSUME TypeOK, [Next]_vars
  PROVE  \/ conn' = conn /\ ~connected'
         \/ conn' = conn + 1 /\ broker' = broker
         \/ /\ conn' = conn /\ connected' = connected
            /\ \A m \in Msgs : broker'[m] = "queued" => broker[m] = "queued"
<1> DEFINE Shrinks == /\ conn' = conn /\ connected' = connected
                      /\ \A m \in Msgs : broker'[m] = "queued" => broker[m] = "queued"
<1>1. ASSUME NEW m \in Msgs, Deliver(m) PROVE Shrinks
  BY <1>1 DEF Deliver, TypeOK, SessionOK
<1>2. CASE HandlerDrops
  BY <1>2 DEF HandlerDrops, Acked
<1>3. ASSUME NEW k \in Kinds, IngestAnswers(k) PROVE Shrinks
  BY <1>3 DEF IngestAnswers, Acked
<1>4. CASE ConnectionLost \/ Crash \/ CloseConsumer
  BY <1>4 DEF ConnectionLost, Crash, CloseConsumer
<1>5. CASE Reconnect \/ Restart
  BY <1>5 DEF Reconnect, Restart
<1>6. CASE UNCHANGED session
  BY <1>6 DEF session
<1>7. CASE HandlerAdds \/ HandlerGivesUp \/ Signal \/ BatcherFailed \/ StopBatchers \/ Exit
  BY <1>6, <1>7 DEF HandlerAdds, HandlerGivesUp, Signal, BatcherFailed, StopBatchers, Exit
<1>8. ASSUME NEW k \in Kinds, Batching(k) \/ SubmitFails(k) \/ SubmitCancelled(k)
      PROVE  UNCHANGED session
  BY <1>8 DEF Batching, Take, Due, DrainStarts, Drain, SubmitFails, SubmitCancelled, Fails
<1>9. ASSUME NEW k \in Kinds, NEW ms, IngestStores(k, ms) PROVE UNCHANGED session
  BY <1>9 DEF IngestStores
<1>10. UNCHANGED vars => UNCHANGED session
  BY DEF vars, session
<1> QED
  BY <1>1, <1>2, <1>3, <1>4, <1>5, <1>6, <1>7, <1>8, <1>9, <1>10
  DEF Next, Handling, Submission, Lifecycle

(* The handler gets an envelope from the broker and no other way.          *)
LEMMA HandlingMoves ==
  ASSUME [Next]_vars
  PROVE  handling' \in {handling, <<>>} \/ \E m \in Msgs : Deliver(m)
  BY DEF Next, vars, ConnectionLost, Reconnect, Handling, HandlerDrops, HandlerAdds,
         HandlerGivesUp, Batching, Take, Due, DrainStarts, Drain, Submission, IngestStores,
         IngestAnswers, SubmitCancelled, SubmitFails, Fails, Signal, Crash, Lifecycle,
         BatcherFailed, CloseConsumer, StopBatchers, Exit, Restart, Forget

(* Delivery, batching, draining, answers and new connections keep the order.*)
LEMMA OrderNext == TypeOK /\ TypeOK' /\ OrderInv /\ [Next]_vars => OrderInv'
<1> SUFFICES ASSUME TypeOK, TypeOK', OrderInv, [Next]_vars PROVE OrderInv'
  OBVIOUS
<1>t. conn \in Nat /\ BatchersOK /\ BatchersOK'
  BY DEF TypeOK, SessionOK
<1>d. \A k \in Kinds : \A e \in Elements(k) : e[2] \in Nat
  <2>1. \A k \in Kinds : Pipeline(k) \in Seq(Decoded)
    BY <1>t, PipelineIsSeq
  <2> QED BY <2>1 DEF Elements, Decoded
<1>h. handling # <<>> => handling[2] \in Nat
  BY DEF TypeOK, Envelopes
<1>1. CASE HandlerAdds
  <2> DEFINE k0 == KindOf[handling[1]]
  <2>0. /\ UNCHANGED session /\ handling # <<>> /\ handling' = <<>>
    BY <1>1 DEF HandlerAdds
  <2>1. \A k \in Kinds : Elements(k)' \subseteq Elements(k) \cup {handling}
    <3> SUFFICES ASSUME NEW k \in Kinds PROVE Elements(k)' \subseteq Elements(k) \cup {handling}
      OBVIOUS
    <3>1. Pipeline(k) \in Seq(Decoded) /\ Len(Pipeline(k)) \in Nat
      BY <1>t, PipelineIsSeq
    <3>2. Pipeline(k)' = Append(Pipeline(k), handling) \/ Pipeline(k)' = Pipeline(k)
      BY <1>1, AddAppends
    <3> QED BY <3>1, <3>2 DEF Elements
  <2>2. PipelineInOrder'
    <3> SUFFICES ASSUME NEW k \in Kinds, NEW i \in DOMAIN Pipeline(k)', NEW j \in DOMAIN Pipeline(k)', i < j
                 PROVE  Pipeline(k)'[i][2] <= Pipeline(k)'[j][2] /\ Pipeline(k)'[i] # Pipeline(k)'[j]
      BY DEF PipelineInOrder
    <3> DEFINE t == Pipeline(k)
    <3>1. t \in Seq(Decoded) /\ Len(t) \in Nat
      BY <1>t, PipelineIsSeq
    <3>2. \A x, y \in DOMAIN t : x < y => t[x][2] <= t[y][2] /\ t[x] # t[y]
      BY DEF OrderInv, PipelineInOrder
    <3>3. \A x \in DOMAIN t : t[x][2] <= handling[2] /\ t[x] # handling
      <4>1. \A x \in DOMAIN t : t[x] \in Elements(k)
        BY <3>1 DEF Elements
      <4> QED BY <2>0, <4>1 DEF OrderInv, HandledLast
    <3>4. CASE Pipeline(k)' = t
      BY <3>2, <3>4
    <3>5. CASE Pipeline(k)' = Append(t, handling)
      <4> HIDE DEF t
      <4>1. /\ DOMAIN Append(t, handling) = 1 .. Len(t) + 1 /\ DOMAIN t = 1 .. Len(t)
            /\ Append(t, handling)[Len(t) + 1] = handling
            /\ \A x \in 1 .. Len(t) : Append(t, handling)[x] = t[x]
        BY <3>1
      <4>2. i \in 1 .. Len(t) /\ (j \in 1 .. Len(t) \/ j = Len(t) + 1)
        BY <3>1, <3>5, <4>1
      <4> QED BY <3>2, <3>3, <3>5, <4>1, <4>2
    <3> QED BY <1>1, <3>4, <3>5, AddAppends
  <2>3. ConnsPast' /\ HandledLast'
    BY <2>0, <2>1 DEF OrderInv, ConnsPast, HandledLast, session
  <2>4. QueuedAfresh'
    BY <2>0, <2>1 DEF OrderInv, QueuedAfresh, session
  <2> QED BY <2>2, <2>3, <2>4 DEF OrderInv
<1>2. CASE PipesKept
  <2>1. PipelineInOrder' /\ \A k \in Kinds : Elements(k)' \subseteq Elements(k)
    BY <1>t, <1>2, KeptInOrder DEF OrderInv
  <2>2. conn' \in Nat /\ conn <= conn'
    BY <1>t, SessionMoves
  <2>3. ConnsPast'
    BY <1>d, <1>t, <2>1, <2>2 DEF OrderInv, ConnsPast
  <2>4. ASSUME NEW m \in Msgs, Deliver(m) PROVE HandledLast' /\ QueuedAfresh'
    <3>0. /\ connected /\ broker[m] = "queued" /\ broker' = [broker EXCEPT ![m] = "inflight"]
          /\ handling' = <<m, conn>> /\ conn' = conn
      BY <2>4 DEF Deliver
    <3>1. HandledLast'
      BY <1>t, <2>1, <3>0 DEF OrderInv, HandledLast, ConnsPast, QueuedAfresh
    <3>2. QueuedAfresh'
      BY <2>1, <3>0 DEF OrderInv, QueuedAfresh, TypeOK, SessionOK
    <3> QED BY <3>1, <3>2
  <2>5. ASSUME handling' \in {handling, <<>>} PROVE HandledLast' /\ QueuedAfresh'
    <3>1. HandledLast'
      BY <1>h, <1>t, <2>1, <2>2, <2>5 DEF OrderInv, HandledLast
    <3>2. CASE ~connected'
      BY <3>1, <3>2 DEF QueuedAfresh
    <3>3. CASE conn' = conn + 1 /\ broker' = broker
      <4>1. \A m \in Msgs : \A k \in Kinds : <<m, conn + 1>> \notin Elements(k)
        BY <1>t DEF OrderInv, ConnsPast
      <4>2. \A m \in Msgs : handling' # <<m, conn + 1>>
        BY <1>t, <2>5 DEF OrderInv, HandledLast
      <4> QED BY <2>1, <3>1, <3>3, <4>1, <4>2 DEF QueuedAfresh
    <3>4. CASE /\ conn' = conn /\ connected' = connected
               /\ \A m \in Msgs : broker'[m] = "queued" => broker[m] = "queued"
      BY <2>1, <2>5, <3>1, <3>4 DEF OrderInv, QueuedAfresh
    <3> QED BY <3>2, <3>3, <3>4, SessionMoves
  <2> QED BY <2>1, <2>3, <2>4, <2>5, HandlingMoves DEF OrderInv
<1> QED BY <1>1, <1>2, OnlyAddExtends

(* Batcher: through batching, draining, failed submits and reconnects a    *)
(* kind's envelopes leave in the order of their connections, and none      *)
(* stands in the pipeline twice.                                           *)
THEOREM PipelinesInOrder == Spec => []PipelineInOrder
<1>1. Init => OrderInv
  <2> SUFFICES ASSUME Init PROVE OrderInv
    OBVIOUS
  <2>1. \A k \in Kinds : Pipeline(k) = <<>>
    BY ConcatEmptySeq, EmptySeq DEF Init, Empty, Pipeline
  <2>2. \A k \in Kinds : Elements(k) = {}
    BY <2>1 DEF Elements
  <2>3. handling = <<>> /\ \A m \in Msgs : <<m, conn>> # <<>>
    BY DEF Init
  <2> QED BY <2>1, <2>2, <2>3 DEF OrderInv, PipelineInOrder, ConnsPast, HandledLast, QueuedAfresh
<1>2. OrderInv => PipelineInOrder
  BY DEF OrderInv
<1> QED BY <1>1, <1>2, OrderNext, TypeCorrect, PTL DEF Spec
=============================================================================
