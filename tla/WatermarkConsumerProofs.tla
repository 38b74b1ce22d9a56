----------------------- MODULE WatermarkConsumerProofs -----------------------
(***************************************************************************)
(* For every set of batches, number of stages, lag, group limit and clock  *)
(* bound: the watermark consumer skips no row, applies none twice, keeps   *)
(* insert order and committed memory, and implements EventFeed.            *)
(***************************************************************************)
EXTENDS WatermarkConsumer, TLAPS

(* A batch's stamp lies between 1 and the clock once its transaction has   *)
(* begun, and a running transaction is younger than MaxTxn.                *)
StampInv ==
  \A b \in Batches :
    /\ batch[b] # "none" => 1 <= stamp[b] /\ stamp[b] <= now
    /\ batch[b] = "open" => now <= stamp[b] + MaxTxn

(* Every watermark is at least a lag behind the clock: no transaction that *)
(* is open, or will ever be, can have a stamp at or below it.              *)
MarkInv == \A s \in Stages : wm[s] = 0 \/ wm[s] + Lag <= now

(* What has been applied lies at or below its table's watermark.           *)
HandledInv ==
  \A b \in Batches :
    /\ handled[b] <= 1
    /\ handled[b] > 0 => Stored(b) /\ stamp[b] <= wm[TableOf[b]]

(* b is in the interval the running transaction is about to pass over.     *)
InReach(b, hi) ==
  batch[b] = "stored" /\ TableOf[b] = stage /\ after < stamp[b] /\ stamp[b] <= hi

(* The stage transaction: its clock is in the past, the watermark it read  *)
(* is the persisted one, and the rows it holds are exactly those between   *)
(* that watermark and the one it will write.                               *)
TxInv ==
  /\ pc \in InTx => start <= now
  /\ pc \in InTx \ {"getWatermark"} => after = wm[stage]
  /\ pc = "boundary" =>
       rows = {} /\ \A b \in Batches : ~ InReach(b, start - Lag)
  /\ pc \in {"handle", "commit"} =>
       /\ newMark >= after
       /\ newMark = after \/ newMark + Lag <= start
       /\ \A b \in Batches : b \in rows <=> InReach(b, newMark)

IInv ==
  /\ TypeOK /\ StampInv /\ MarkInv /\ HandledInv
  /\ NoRowSkipped /\ MemoryIsCommitted /\ TxInv

-----------------------------------------------------------------------------
(* RunOnce starts at a stage and moves from stage to stage.                *)
LEMMA StageOrder ==
  1 \in Stages /\ \A s \in Stages : s < NStages => s + 1 \in Stages
BY StagesAssumption DEF Stages

LEMMA ApplyTxType ==
  TypeOK /\ ApplyTx => wm' \in [Stages -> Nat] /\ handled' \in [Batches -> Nat]
BY DEF TypeOK, ApplyTx

(* The consumer's state always has its type: in particular a watermark is  *)
(* never negative, whatever the lag is subtracted from.                    *)
LEMMA TypeStep == TypeOK /\ [Next]_vars => TypeOK'
<1> SUFFICES ASSUME TypeOK, [Next]_vars PROVE TypeOK'
  OBVIOUS
<1> USE StageOrder, LagAssumption DEF TypeOK, InTx, env, db, tx, loop, listener
<1>1. CASE Tick
  BY <1>1 DEF Tick
<1>2. ASSUME NEW b \in Batches, BeginBatch(b) PROVE TypeOK'
  BY <1>2 DEF BeginBatch
<1>3. ASSUME NEW b \in Batches, CommitBatch(b) PROVE TypeOK'
  BY <1>3 DEF CommitBatch
<1>4. ASSUME NEW b \in Batches, AbortBatch(b) PROVE TypeOK'
  BY <1>4 DEF AbortBatch
<1>5. CASE ListenConnect
  BY <1>5 DEF ListenConnect
<1>6. ASSUME NEW b \in Batches, ListenDeliver(b) PROVE TypeOK'
  BY <1>6 DEF ListenDeliver
<1>7. CASE ListenDrop
  BY <1>7 DEF ListenDrop
<1>8. CASE Start
  BY <1>8 DEF Start
<1>9. CASE WakeUp
  BY <1>9 DEF WakeUp, NewRound
<1>10. CASE TickerFires
  BY <1>10 DEF TickerFires, NewRound
<1>11. CASE Retry
  BY <1>11 DEF Retry, NewRound
<1>12. CASE Crash
  BY <1>12 DEF Crash, LeaveRound, LeaveTx
<1>13. CASE StageBegin
  BY <1>13 DEF StageBegin
<1>14. CASE GetWatermark
  BY <1>14 DEF GetWatermark
<1>15. CASE Poll
  <2>1. CASE pc' = "boundary" /\ rows' = {} /\ newMark' = after
    BY <1>15, <2>1 DEF Poll
  <2>2. ASSUME NEW hi \in {stamp[b] : b \in Pollable},
               rows' = {b \in Pollable : stamp[b] <= hi},
               newMark' = hi, pc' = "handle"
        PROVE  TypeOK'
    BY <1>15, <2>2 DEF Poll, Pollable
  <2> QED
    BY <1>15, <2>1, <2>2 DEF Poll
<1>16. CASE LagBoundary
  BY <1>16 DEF LagBoundary
<1>17. CASE Handle
  BY <1>17 DEF Handle
<1>18. CASE StageCommit
  <2>1. wm' \in [Stages -> Nat] /\ handled' \in [Batches -> Nat]
    BY <1>18, ApplyTxType DEF StageCommit
  <2>2. total' \in BOOLEAN /\ ready' \in BOOLEAN
    BY <1>18 DEF StageCommit
  <2>3. stage' \in Stages
    BY <1>18 DEF StageCommit
  <2> QED
    BY <1>18, <2>1, <2>2, <2>3 DEF StageCommit, LeaveTx
<1>19. CASE StageFail
  BY <1>19 DEF StageFail, LeaveRound, LeaveTx
<1>20. CASE StageCommitUnknown
  BY <1>20, ApplyTxType DEF StageCommitUnknown, LeaveRound, LeaveTx
<1>21. CASE UNCHANGED vars
  BY <1>21 DEF vars
<1> QED
  BY <1>1, <1>2, <1>3, <1>4, <1>5, <1>6, <1>7, <1>8, <1>9, <1>10, <1>11,
     <1>12, <1>13, <1>14, <1>15, <1>16, <1>17, <1>18, <1>19, <1>20, <1>21
     DEF Next, Producers, Listening, Stage

LEMMA TypeInit == Init => TypeOK
<1> SUFFICES ASSUME Init PROVE TypeOK
  OBVIOUS
<1>1. total \in BOOLEAN /\ ready \in BOOLEAN /\ wake \in BOOLEAN
  BY DEF Init
<1>2. /\ now \in Nat \ {0} /\ start \in Nat /\ after \in Nat /\ newMark \in Nat
      /\ stamp \in [Batches -> Nat] /\ handled \in [Batches -> Nat]
      /\ wm \in [Stages -> Nat] /\ stage \in Stages
  BY StageOrder DEF Init
<1>3. /\ batch \in [Batches -> {"none", "open", "stored"}]
      /\ mem \in [Stages -> SUBSET Batches] /\ rows \in SUBSET Batches
      /\ pc = "down" /\ listen = "down" /\ notes \in SUBSET Batches
  BY DEF Init
<1> QED
  BY <1>1, <1>2, <1>3 DEF TypeOK

(* Type correctness of the consumer, for every value of its constants.     *)
THEOREM TypeCorrect == Spec => []TypeOK
BY TypeInit, TypeStep, PTL DEF Spec

-----------------------------------------------------------------------------
(* IInv is inductive.                                                      *)
LEMMA InvStep == IInv /\ [Next]_vars => IInv'
<1> SUFFICES ASSUME IInv, [Next]_vars PROVE IInv'
  OBVIOUS
<1>0. TypeOK'
  BY TypeStep DEF IInv
<1> USE <1>0, LagAssumption, TableAssumption
    DEF IInv, TypeOK, StampInv, MarkInv, HandledInv, NoRowSkipped,
        MemoryIsCommitted, TxInv, InReach, Stored, InTx, env, db, tx, loop, listener
<1>1. CASE Tick
  BY <1>1 DEF Tick
<1>2. ASSUME NEW b \in Batches, BeginBatch(b) PROVE IInv'
  BY <1>2 DEF BeginBatch
<1>3. ASSUME NEW b \in Batches, CommitBatch(b) PROVE IInv'
  BY <1>3 DEF CommitBatch
<1>4. ASSUME NEW b \in Batches, AbortBatch(b) PROVE IInv'
  BY <1>4 DEF AbortBatch
<1>5. CASE ListenConnect
  BY <1>5 DEF ListenConnect
<1>6. ASSUME NEW b \in Batches, ListenDeliver(b) PROVE IInv'
  BY <1>6 DEF ListenDeliver
<1>7. CASE ListenDrop
  BY <1>7 DEF ListenDrop
<1>8. CASE Start
  BY <1>8 DEF Start
<1>9. CASE WakeUp
  BY <1>9 DEF WakeUp, NewRound
<1>10. CASE TickerFires
  BY <1>10 DEF TickerFires, NewRound
<1>11. CASE Retry
  BY <1>11 DEF Retry, NewRound
<1>12. CASE Crash
  BY <1>12 DEF Crash, LeaveRound, LeaveTx
<1>13. CASE StageBegin
  BY <1>13 DEF StageBegin
<1>14. CASE GetWatermark
  BY <1>14 DEF GetWatermark
<1>15. CASE Poll
  <2>1. CASE Pollable = {} /\ pc' = "boundary" /\ rows' = {} /\ newMark' = after
    <3>1. \A b \in Batches : ~ InReach(b, start - Lag)
      BY <2>1 DEF Pollable
    <3> QED
      BY <1>15, <2>1, <3>1 DEF Poll
  <2>2. ASSUME NEW hi \in {stamp[b] : b \in Pollable},
               rows' = {b \in Pollable : stamp[b] <= hi},
               newMark' = hi, pc' = "handle"
        PROVE  IInv'
    <3>1. after < hi /\ hi + Lag <= start
      BY DEF Pollable
    <3>2. \A b \in Batches : b \in rows' <=> InReach(b, hi)
      BY <2>2, <3>1 DEF Pollable
    <3> QED
      BY <1>15, <2>2, <3>1, <3>2 DEF Poll
  <2> QED
    BY <1>15, <2>1, <2>2 DEF Poll
<1>16. CASE LagBoundary
  BY <1>16 DEF LagBoundary
<1>17. CASE Handle
  BY <1>17 DEF Handle
<1>18. CASE StageCommit
  BY <1>18 DEF StageCommit, ApplyTx, LeaveTx
<1>19. CASE StageFail
  BY <1>19 DEF StageFail, LeaveRound, LeaveTx
<1>20. CASE StageCommitUnknown
  BY <1>20 DEF StageCommitUnknown, ApplyTx, LeaveRound, LeaveTx
<1>21. CASE UNCHANGED vars
  BY <1>21 DEF vars
<1> QED
  BY <1>1, <1>2, <1>3, <1>4, <1>5, <1>6, <1>7, <1>8, <1>9, <1>10, <1>11, <1>12, <1>13, <1>14, <1>15, <1>16, <1>17, <1>18, <1>19, <1>20, <1>21
     DEF Next, Producers, Listening, Stage

LEMMA InvInit == Init => IInv
<1> SUFFICES ASSUME Init PROVE IInv
  OBVIOUS
<1>1. TypeOK
  BY TypeInit
<1>2. StampInv /\ MarkInv /\ HandledInv /\ TxInv
  BY DEF Init, StampInv, MarkInv, HandledInv, TxInv, InTx
<1>3. NoRowSkipped /\ MemoryIsCommitted
  BY DEF Init, NoRowSkipped, MemoryIsCommitted, Stored
<1> QED
  BY <1>1, <1>2, <1>3 DEF IInv

LEMMA Invariance == Spec => []IInv
BY InvInit, InvStep, PTL DEF Spec

(* No committed row at or below a persisted watermark is ever unhandled:   *)
(* advancing to the lag boundary on an empty poll, and stopping a poll at  *)
(* MaxGroups, are safe for every lag above the longest transaction.        *)
THEOREM NoRowIsSkipped == Spec => []NoRowSkipped
<1>1. IInv => NoRowSkipped
  BY DEF IInv
<1> QED
  BY <1>1, Invariance, PTL

(* No batch is applied twice, over any number of failures, crashes and     *)
(* commits whose answer was lost.                                          *)
THEOREM EachRowAppliedOnce == Spec => []AppliedAtMostOnce
<1>1. IInv => AppliedAtMostOnce
  BY DEF IInv, HandledInv, AppliedAtMostOnce
<1> QED
  BY <1>1, Invariance, PTL

(* Every table is consumed in inserted_at order, in-flight transactions    *)
(* included.                                                               *)
THEOREM InsertOrderKept == Spec => []InsertOrder
<1>1. IInv => InsertOrder
  <2> SUFFICES ASSUME IInv, NEW b \in Batches, NEW c \in Batches,
                      TableOf[b] = TableOf[c], handled[c] > 0,
                      batch[b] # "none", stamp[b] <= stamp[c]
               PROVE  handled[b] > 0
    BY DEF InsertOrder
  <2>1. TableOf[c] \in Stages /\ stamp[c] <= wm[TableOf[c]]
    BY DEF IInv, HandledInv, Stored
  <2>2. stamp[b] <= wm[TableOf[b]] /\ 1 <= stamp[b]
    BY <2>1 DEF IInv, TypeOK, StampInv
  <2>3. batch[b] # "open"
    BY <2>1, <2>2, LagAssumption DEF IInv, TypeOK, StampInv, MarkInv
  <2> QED
    BY <2>1, <2>2, <2>3 DEF IInv, TypeOK, NoRowSkipped, Stored
<1> QED
  BY <1>1, Invariance, PTL

(* The handler's memory never outlives a rolled-back transaction.          *)
THEOREM MemoryStaysCommitted == Spec => []MemoryIsCommitted
<1>1. IInv => MemoryIsCommitted
  BY DEF IInv
<1> QED
  BY <1>1, Invariance, PTL

-----------------------------------------------------------------------------
(* A step commits a stage transaction, or commits, begins or aborts a      *)
(* producer's, or touches neither the tables nor the watermarks.           *)
LEMMA StepKinds ==
  ASSUME [Next]_vars
  PROVE  \/ pc = "commit" /\ ApplyTx /\ UNCHANGED <<batch, stamp>>
         \/ UNCHANGED db /\ UNCHANGED <<batch, stamp>>
         \/ /\ UNCHANGED db
            /\ \E b \in Batches : BeginBatch(b) \/ CommitBatch(b) \/ AbortBatch(b)
<1> USE DEF env, db
<1>1. CASE StageCommit \/ StageCommitUnknown
  BY <1>1 DEF StageCommit, StageCommitUnknown
<1>2. CASE \E b \in Batches : BeginBatch(b) \/ CommitBatch(b) \/ AbortBatch(b)
  BY <1>2 DEF BeginBatch, CommitBatch, AbortBatch
<1>3. CASE Tick \/ Listening \/ Start \/ WakeUp \/ TickerFires \/ Retry \/ Crash
  BY <1>3 DEF Tick, Listening, ListenConnect, ListenDeliver, ListenDrop, Start,
              WakeUp, TickerFires, Retry, Crash
<1>4. CASE StageBegin \/ GetWatermark \/ Poll \/ LagBoundary \/ Handle \/ StageFail
  BY <1>4 DEF StageBegin, GetWatermark, Poll, LagBoundary, Handle, StageFail
<1>5. CASE UNCHANGED vars
  BY <1>5 DEF vars
<1> QED
  BY <1>1, <1>2, <1>3, <1>4, <1>5 DEF Next, Producers, Stage

(* SetWatermark never moves a watermark back.                              *)
THEOREM WatermarkMonotone == Spec => WatermarkNeverRegresses
<1>1. IInv /\ [Next]_vars => [\A s \in Stages : wm'[s] >= wm[s]]_wm
  <2> SUFFICES ASSUME IInv, [Next]_vars, NEW s \in Stages, wm' # wm
               PROVE  wm'[s] >= wm[s]
    OBVIOUS
  <2>1. pc = "commit" /\ ApplyTx
    BY StepKinds DEF db
  <2>2. newMark >= after /\ after = wm[stage]
    BY <2>1 DEF IInv, TxInv, InTx
  <2> QED
    BY <2>1, <2>2 DEF ApplyTx, IInv, TypeOK
<1> QED
  BY <1>1, Invariance, PTL DEF Spec, WatermarkNeverRegresses

(* The consumer implements the append-only, in-order, exactly-once feed    *)
(* that ADR 0003 promises its handlers.                                    *)
THEOREM Refinement == Spec => ImplementsFeed
<1> DEFINE sto == {b \in Batches : batch[b] = "stored"}
           loc == [b \in Batches |-> IF batch[b] = "stored" THEN stamp[b] ELSE 0]
           del == {b \in Batches : handled[b] > 0}
<1>1. Init => Feed!Init
  BY DEF Init, Feed!Init
<1>2. IInv /\ [Next]_vars => [Feed!Next]_(Feed!vars)
  <2> SUFFICES ASSUME IInv, [Next]_vars PROVE [Feed!Next]_(Feed!vars)
    OBVIOUS
  <2>1. CASE UNCHANGED db /\ UNCHANGED <<batch, stamp>>
    BY <2>1 DEF db, Feed!vars
  <2>2. ASSUME UNCHANGED db, NEW b \in Batches, BeginBatch(b) \/ AbortBatch(b)
        PROVE  UNCHANGED Feed!vars
    <3>1. sto' = sto /\ loc' = loc /\ del' = del
      BY <2>2 DEF BeginBatch, AbortBatch, db, IInv, TypeOK
    <3> QED
      BY <3>1 DEF Feed!vars
  <2>3. ASSUME UNCHANGED db, NEW b \in Batches, CommitBatch(b)
        PROVE  Feed!Append(b)
    <3>1. b \notin sto /\ sto' = sto \cup {b} /\ del' = del
      BY <2>3 DEF CommitBatch, db, IInv, TypeOK
    <3>2. loc'[b] \in Nat /\ loc' = [loc EXCEPT ![b] = loc'[b]]
      BY <2>3 DEF CommitBatch, db, IInv, TypeOK
    <3>3. ASSUME NEW c \in del, TableOf[c] = TableOf[b] PROVE loc[c] < loc'[b]
      <4>1. batch[c] = "stored" /\ TableOf[c] \in Stages /\ stamp[c] <= wm[TableOf[c]]
        BY DEF IInv, HandledInv, Stored
      <4>2. 1 <= stamp[b] /\ now <= stamp[b] + MaxTxn /\ loc'[b] = stamp[b]
        BY <2>3 DEF CommitBatch, IInv, StampInv, TypeOK
      <4> QED
        BY <3>3, <4>1, <4>2, LagAssumption DEF IInv, TypeOK, MarkInv
    <3> QED
      BY <3>1, <3>2, <3>3 DEF Feed!Append
  <2>4. ASSUME pc = "commit", ApplyTx, UNCHANGED <<batch, stamp>>
        PROVE  Feed!Deliver(stage, rows)
    <3>1. ASSUME NEW b \in rows PROVE b \in sto \ del /\ TableOf[b] = stage
      <4>1. b \in Batches /\ InReach(b, newMark) /\ after = wm[stage]
        BY <2>4 DEF IInv, TxInv, TypeOK, InTx
      <4> QED
        BY <4>1 DEF InReach, IInv, HandledInv, TypeOK
    <3>2. ASSUME NEW b \in rows, NEW c \in sto,
                 TableOf[c] = stage, loc[c] <= loc[b]
          PROVE  c \in del \cup rows
      <4>1. b \in Batches /\ InReach(b, newMark) /\ after = wm[stage]
        BY <2>4 DEF IInv, TxInv, TypeOK, InTx
      <4>2. stamp[c] <= newMark
        BY <3>2, <4>1 DEF InReach, IInv, TypeOK
      <4>3. CASE after < stamp[c]
        BY <2>4, <3>2, <4>2, <4>3 DEF InReach, IInv, TxInv
      <4>4. CASE stamp[c] <= after
        BY <3>2, <4>1, <4>4 DEF IInv, NoRowSkipped, Stored, TypeOK
      <4> QED
        BY <4>3, <4>4, <4>1 DEF IInv, TypeOK
    <3>3. del' = del \cup rows
      BY <2>4 DEF ApplyTx, IInv, TypeOK
    <3>4. sto' = sto /\ loc' = loc
      BY <2>4
    <3> QED
      BY <3>1, <3>2, <3>3, <3>4 DEF Feed!Deliver
  <2> QED
    <3>1. CASE pc = "commit" /\ ApplyTx /\ UNCHANGED <<batch, stamp>>
      <4>1. Feed!Deliver(stage, rows) /\ stage \in Stages /\ rows \in SUBSET Batches
        BY <2>4, <3>1 DEF IInv, TypeOK
      <4> QED
        BY <4>1 DEF Feed!Next, Feed!Deliver
    <3>2. CASE /\ UNCHANGED db
               /\ \E b \in Batches : BeginBatch(b) \/ CommitBatch(b) \/ AbortBatch(b)
      BY <2>2, <2>3, <3>2 DEF Feed!Next
    <3> QED
      BY <2>1, <3>1, <3>2, StepKinds
<1> QED
  BY <1>1, <1>2, Invariance, PTL DEF Spec, ImplementsFeed, Feed!Spec
==============================================================================
