-------------------------- MODULE WatermarkConsumer --------------------------
(***************************************************************************)
(* internal/watermark: the consumer skeleton every reacting service of     *)
(* sumpnet (cycle-detector, alerts, weather, storm-analytics) is built on. *)
(*                                                                         *)
(* Producers store batches of rows.  All rows of one batch carry           *)
(* inserted_at = now() = the START of their transaction, and become        *)
(* visible only at its COMMIT.  A batch is therefore one element of        *)
(* Batches: its rows share a table, a stamp and a fate.  The consumer      *)
(* polls each table (a stage) above a persisted watermark and below        *)
(* now() - Lag, and runs the handler, its writes and the watermark update  *)
(* in one transaction (READ COMMITTED: each statement sees what is         *)
(* committed when it runs, now() is frozen at the transaction's start).    *)
(***************************************************************************)
EXTENDS Integers, FiniteSets

CONSTANTS
  Batches,    \* the transactions that producers may store
  NStages,    \* stages 1..NStages of the consumer, in the order of Add
  TableOf,    \* the stage that reads a batch's table; 0: a table not watched
  Lag,        \* WATERMARK_LAG
  MaxTxn,     \* the longest producer transaction, in clock ticks
  MaxGroups,  \* MAX_GROUPS: distinct inserted_at values per poll
  MaxTime     \* bound on the database clock

Stages == 1 .. NStages

ASSUME StagesAssumption == NStages \in Nat \ {0}
ASSUME TableAssumption == TableOf \in [Batches -> 0 .. NStages]
ASSUME GroupsAssumption == MaxGroups \in Nat \ {0}
ASSUME TimeAssumption == MaxTime \in Nat
\* "WATERMARK_LAG: must exceed the longest ingest transaction".
ASSUME LagAssumption == Lag \in Nat /\ MaxTxn \in Nat /\ MaxTxn < Lag

VARIABLES
  now,      \* the database clock
  batch,    \* per batch: "none", "open" (transaction running), "stored"
  stamp,    \* per batch: inserted_at, once its transaction has begun
  wm,       \* consumer_watermarks.inserted_at per stage (0: no row yet)
  handled,  \* per batch: how often a COMMITTED stage transaction handled it
  mem,      \* per stage: batches folded into the handler's in-memory state
  pc,       \* where the consumer's goroutine is
  stage,    \* the stage RunOnce is at
  total,    \* did this round handle rows in an earlier stage
  ready,    \* Consumer.ready
  start,    \* now() of the stage transaction
  after,    \* the watermark read by it
  rows,     \* the batches it polled
  newMark,  \* the watermark it is going to write
  wake,     \* the one-slot wake channel
  listen,   \* the LISTEN connection: "down" or "up"
  notes     \* notifications queued on that connection

env == <<now, batch, stamp>>
db == <<wm, handled>>
tx == <<start, after, rows, newMark>>
loop == <<stage, total, ready>>
listener == <<listen, notes>>
vars == <<now, batch, stamp, wm, handled, mem, pc, stage, total, ready,
          start, after, rows, newMark, wake, listen, notes>>

InTx == {"getWatermark", "poll", "boundary", "handle", "commit"}

TypeOK ==
  /\ now \in Nat \ {0}
  /\ batch \in [Batches -> {"none", "open", "stored"}]
  /\ stamp \in [Batches -> Nat]
  /\ wm \in [Stages -> Nat]
  /\ handled \in [Batches -> Nat]
  /\ mem \in [Stages -> SUBSET Batches]
  /\ pc \in {"down", "idle", "begin", "backoff"} \cup InTx
  /\ stage \in Stages
  /\ total \in BOOLEAN /\ ready \in BOOLEAN
  /\ start \in Nat /\ after \in Nat /\ newMark \in Nat
  /\ rows \in SUBSET Batches
  /\ wake \in BOOLEAN
  /\ listen \in {"down", "up"}
  /\ notes \in SUBSET Batches

Init ==
  /\ now = 1
  /\ batch = [b \in Batches |-> "none"]
  /\ stamp = [b \in Batches |-> 0]
  /\ wm = [s \in Stages |-> 0]
  /\ handled = [b \in Batches |-> 0]
  /\ mem = [s \in Stages |-> {}]
  /\ pc = "down"
  /\ stage = 1 /\ total = FALSE /\ ready = FALSE
  /\ start = 0 /\ after = 0 /\ rows = {} /\ newMark = 0
  /\ wake = FALSE
  /\ listen = "down" /\ notes = {}

-----------------------------------------------------------------------------
(* The environment: the database clock and the producers' transactions.    *)

(* Time passes, but never beyond what a running producer transaction may   *)
(* take: the deployment's side of the WATERMARK_LAG contract.              *)
Tick ==
  /\ now < MaxTime
  /\ \A b \in Batches : batch[b] = "open" => now < stamp[b] + MaxTxn
  /\ now' = now + 1
  /\ UNCHANGED <<batch, stamp, db, mem, pc, loop, tx, wake, listener>>

(* Store.insert opens its transaction: now() is fixed for all its rows.    *)
(* (The clock's bound leaves every batch the time to outlive the lag.)     *)
BeginBatch(b) ==
  /\ batch[b] = "none"
  /\ now + Lag <= MaxTime
  /\ batch' = [batch EXCEPT ![b] = "open"]
  /\ stamp' = [stamp EXCEPT ![b] = now]
  /\ UNCHANGED <<now, db, mem, pc, loop, tx, wake, listener>>

(* It commits; the notification sent inside it goes out to a listener that *)
(* is connected, and to nobody otherwise.                                  *)
CommitBatch(b) ==
  /\ batch[b] = "open"
  /\ batch' = [batch EXCEPT ![b] = "stored"]
  /\ notes' = IF listen = "up" THEN notes \cup {b} ELSE notes
  /\ UNCHANGED <<now, stamp, db, mem, pc, loop, tx, wake, listen>>

(* It rolls back; the bridge may submit the same rows again.               *)
AbortBatch(b) ==
  /\ batch[b] = "open"
  /\ batch' = [batch EXCEPT ![b] = "none"]
  /\ stamp' = [stamp EXCEPT ![b] = 0]
  /\ UNCHANGED <<now, db, mem, pc, loop, tx, wake, listener>>

-----------------------------------------------------------------------------
(* Consumer.listen, the goroutine that owns the LISTEN connection.         *)

(* Connect, LISTEN, and Poke: the wake channel holds at most one token.    *)
ListenConnect ==
  /\ pc # "down" /\ listen = "down"
  /\ listen' = "up"
  /\ wake' = TRUE
  /\ UNCHANGED <<env, db, mem, pc, loop, tx, notes>>

(* WaitForNotification returns; only watched tables poke the loop.         *)
ListenDeliver(b) ==
  /\ listen = "up" /\ b \in notes
  /\ notes' = notes \ {b}
  /\ wake' = (wake \/ TableOf[b] \in Stages)
  /\ UNCHANGED <<env, db, mem, pc, loop, tx, listen>>

(* The connection breaks: what was queued on it is lost.                   *)
ListenDrop ==
  /\ listen = "up"
  /\ listen' = "down"
  /\ notes' = {}
  /\ UNCHANGED <<env, db, mem, pc, loop, tx, wake>>

-----------------------------------------------------------------------------
(* Consumer.Run and RunOnce.                                               *)

(* A call of RunOnce starts with its first stage and a total of zero; the  *)
(* locals of run are gone when it returns.                                 *)
NewRound == pc' = "begin" /\ stage' = 1 /\ total' = FALSE
LeaveRound == stage' = 1 /\ total' = FALSE
LeaveTx == start' = 0 /\ after' = 0 /\ rows' = {} /\ newMark' = 0

(* Run starts: the listener is started and the first round is poked.       *)
Start ==
  /\ pc = "down"
  /\ pc' = "idle"
  /\ wake' = TRUE
  /\ UNCHANGED <<env, db, mem, loop, tx, listener>>

WakeUp ==
  /\ pc = "idle" /\ wake
  /\ wake' = FALSE
  /\ NewRound
  /\ UNCHANGED <<env, db, mem, ready, tx, listener>>

(* Faulty variant: the loop waits for the wake channel alone.              *)
TickerIgnored ==
  /\ pc = "idle" /\ wake
  /\ NewRound
  /\ UNCHANGED <<env, db, mem, ready, tx, wake, listener>>

TickerFires ==
  /\ pc = "idle"
  /\ NewRound
  /\ UNCHANGED <<env, db, mem, ready, tx, wake, listener>>

(* The process dies, or ctx ends: the open transaction is rolled back by   *)
(* the server and everything in memory is gone.                            *)
Crash ==
  /\ pc # "down"
  /\ pc' = "down"
  /\ mem' = [s \in Stages |-> {}]
  /\ ready' = FALSE /\ wake' = FALSE
  /\ listen' = "down" /\ notes' = {}
  /\ LeaveRound /\ LeaveTx
  /\ UNCHANGED <<env, db>>

-----------------------------------------------------------------------------
(* typedStage.run, statement by statement.                                 *)

StageBegin ==
  /\ pc = "begin"
  /\ pc' = "getWatermark"
  /\ start' = now
  /\ UNCHANGED <<env, db, mem, loop, after, rows, newMark, wake, listener>>

GetWatermark ==
  /\ pc = "getWatermark"
  /\ pc' = "poll"
  /\ after' = wm[stage]
  /\ UNCHANGED <<env, db, mem, loop, start, rows, newMark, wake, listener>>

(* Faulty variants: inserted_at >= @after, and a poll without the lag.     *)
PollableInclusive ==
  {b \in Batches : /\ batch[b] = "stored" /\ TableOf[b] = stage
                   /\ after <= stamp[b] /\ stamp[b] <= start - Lag}
PollableNoLag ==
  {b \in Batches : /\ batch[b] = "stored" /\ TableOf[b] = stage
                   /\ after < stamp[b] /\ stamp[b] <= start}

(* What the Poll query may return: committed rows of the stage's table in  *)
(* (after, now() - lag].                                                   *)
Pollable ==
  {b \in Batches : /\ batch[b] = "stored" /\ TableOf[b] = stage
                   /\ after < stamp[b] /\ stamp[b] <= start - Lag}

(* bound.hi: the largest of the MaxGroups smallest distinct stamps.        *)
GroupBound(hi, groups) ==
  LET upTo == {g \in groups : g <= hi} IN
    /\ Cardinality(upTo) <= MaxGroups
    /\ upTo = groups \/ Cardinality(upTo) = MaxGroups

(* Faulty variant: the watermark moves to the lag boundary although        *)
(* MaxGroups cut the poll short.                                           *)
PollMarksBoundary ==
  /\ pc = "poll"
  /\ \/ /\ Pollable = {}
        /\ rows' = {}
        /\ newMark' = after
        /\ pc' = "boundary"
     \/ \E hi \in {stamp[b] : b \in Pollable} :
          /\ GroupBound(hi, {stamp[b] : b \in Pollable})
          /\ rows' = {b \in Pollable : stamp[b] <= hi}
          /\ newMark' = start - Lag
          /\ pc' = "handle"
  /\ UNCHANGED <<env, db, mem, loop, start, after, wake, listener>>

(* The Poll query: whole inserted_at groups, up to bound.hi.               *)
Poll ==
  /\ pc = "poll"
  /\ \/ /\ Pollable = {}
        /\ rows' = {}
        /\ newMark' = after
        /\ pc' = "boundary"
     \/ \E hi \in {stamp[b] : b \in Pollable} :
          /\ GroupBound(hi, {stamp[b] : b \in Pollable})
          /\ rows' = {b \in Pollable : stamp[b] <= hi}
          /\ newMark' = hi
          /\ pc' = "handle"
  /\ UNCHANGED <<env, db, mem, loop, start, after, wake, listener>>

(* Faulty variants: an empty poll moves the watermark to now() itself, or  *)
(* to a boundary that is not compared with the old watermark.              *)
LagBoundaryNow ==
  /\ pc = "boundary"
  /\ pc' = "commit"
  /\ newMark' = start
  /\ UNCHANGED <<env, db, mem, loop, start, after, rows, wake, listener>>
LagBoundaryUnchecked ==
  /\ pc = "boundary"
  /\ pc' = "commit"
  /\ newMark' = start - Lag
  /\ UNCHANGED <<env, db, mem, loop, start, after, rows, wake, listener>>

(* Nothing to read: the watermark may move to the lag boundary.            *)
LagBoundary ==
  /\ pc = "boundary"
  /\ pc' = "commit"
  /\ newMark' = IF start - Lag > after THEN start - Lag ELSE after
  /\ UNCHANGED <<env, db, mem, loop, start, after, rows, wake, listener>>

(* The handler folds the rows into its memory and writes its results.      *)
Handle ==
  /\ pc = "handle"
  /\ pc' = "commit"
  /\ mem' = [mem EXCEPT ![stage] = @ \cup rows]
  /\ UNCHANGED <<env, db, loop, tx, wake, listener>>

(* What the commit of a stage transaction makes durable.                   *)
ApplyTx ==
  /\ wm' = IF newMark > after THEN [wm EXCEPT ![stage] = newMark] ELSE wm
  /\ handled' = [b \in Batches |->
                   IF b \in rows THEN handled[b] + 1 ELSE handled[b]]

(* The stage's transaction commits; RunOnce goes on to the next stage, or  *)
(* ends the round: Run drains until a round has handled nothing.           *)
StageCommit ==
  /\ pc = "commit"
  /\ ApplyTx /\ LeaveTx
  /\ LET any == total \/ rows # {} IN
     \/ /\ stage < NStages
        /\ pc' = "begin" /\ stage' = stage + 1 /\ total' = any
        /\ UNCHANGED ready
     \/ /\ stage = NStages
        /\ ready' = TRUE
        /\ pc' = IF any THEN "begin" ELSE "idle"
        /\ stage' = 1 /\ total' = FALSE
  /\ UNCHANGED <<env, mem, wake, listener>>

(* Faulty variant: a failed stage does not Reset its handler.              *)
StageFailNoReset ==
  /\ pc \in InTx \cup {"begin"}
  /\ pc' = "backoff"
  /\ LeaveRound /\ LeaveTx
  /\ UNCHANGED <<env, db, mem, ready, wake, listener>>

(* Every error return of run: roll back, Reset the stage's handler, leave  *)
(* the round and back off.                                                 *)
StageFail ==
  /\ pc \in InTx \cup {"begin"}
  /\ pc' = "backoff"
  /\ mem' = IF pc = "begin" THEN mem ELSE [mem EXCEPT ![stage] = {}]
  /\ LeaveRound /\ LeaveTx
  /\ UNCHANGED <<env, db, ready, wake, listener>>

(* The commit reaches the server but its answer does not reach the         *)
(* consumer, which takes it for a failure.                                 *)
StageCommitUnknown ==
  /\ pc = "commit"
  /\ ApplyTx
  /\ pc' = "backoff"
  /\ mem' = [mem EXCEPT ![stage] = {}]
  /\ LeaveRound /\ LeaveTx
  /\ UNCHANGED <<env, ready, wake, listener>>

Retry ==
  /\ pc = "backoff"
  /\ NewRound
  /\ UNCHANGED <<env, db, mem, ready, tx, wake, listener>>

-----------------------------------------------------------------------------
Producers == \E b \in Batches : BeginBatch(b) \/ CommitBatch(b) \/ AbortBatch(b)

Listening ==
  \/ ListenConnect
  \/ \E b \in Batches : ListenDeliver(b)
  \/ ListenDrop

Stage ==
  \/ StageBegin \/ GetWatermark \/ Poll \/ LagBoundary \/ Handle
  \/ StageCommit \/ StageFail \/ StageCommitUnknown

Next ==
  \/ Tick \/ Producers \/ Listening
  \/ Start \/ WakeUp \/ TickerFires \/ Retry \/ Crash
  \/ Stage

Spec == Init /\ [][Next]_vars

-----------------------------------------------------------------------------
(* Properties *)

Stored(b) == batch[b] = "stored" /\ TableOf[b] \in Stages

(* No row is skipped: a committed row at or below the persisted watermark  *)
(* has been handled, although rows appear with a stamp older than their    *)
(* commit and polls, producers and crashes interleave freely (typedStage.  *)
(* run: "it is safe to advance to the lag boundary").                      *)
NoRowSkipped ==
  \A b \in Batches :
    Stored(b) /\ stamp[b] <= wm[TableOf[b]] => handled[b] > 0

(* ADR 0003: poll, handler writes and watermark commit in one transaction, *)
(* "so side effects are effectively exactly-once": over retries, crashes   *)
(* and commits whose answer is lost, no batch is ever applied twice.       *)
AppliedAtMostOnce == \A b \in Batches : handled[b] <= 1

(* A table is consumed in inserted_at order: once a batch is applied, no   *)
(* batch of its table with an earlier stamp is unhandled or still in       *)
(* flight.                                                                 *)
InsertOrder ==
  \A b, c \in Batches :
    /\ TableOf[b] = TableOf[c] /\ handled[c] > 0
    /\ batch[b] # "none" /\ stamp[b] <= stamp[c]
    => handled[b] > 0

(* "Reset is called after a rolled-back transaction so any in-memory state *)
(* derived from the failed batch is discarded": outside the transaction    *)
(* that is running, the handler's memory holds applied batches only.       *)
MemoryIsCommitted ==
  \A s \in Stages : \A b \in mem[s] :
    handled[b] > 0 \/ (pc = "commit" /\ s = stage /\ b \in rows)

(* The watermark never moves back (SetWatermark overwrites whatever is     *)
(* there: nothing but the read in the same transaction protects it).       *)
WatermarkNeverRegresses == [][\A s \in Stages : wm'[s] >= wm[s]]_wm

(* The consumer implements the log its handlers are promised.              *)
Feed == INSTANCE EventFeed WITH
  Tables <- Stages,
  stored <- {b \in Batches : batch[b] = "stored"},
  pos <- [b \in Batches |-> IF batch[b] = "stored" THEN stamp[b] ELSE 0],
  delivered <- {b \in Batches : handled[b] > 0}

(* Polling by watermark and lag looks, to the handlers, like reading an    *)
(* append-only log in order (EventFeed): no late commit ever lands behind  *)
(* a row that was handled, and no handled group leaves an earlier one out. *)
ImplementsFeed == Feed!Spec

(* Every database step that is tried again and again succeeds in the end   *)
(* (Run retries for ever, with backoff); time, the ticker and a restarting *)
(* process do not stop.  Nothing is assumed of the LISTEN connection.      *)
Fairness ==
  /\ WF_vars(Tick) /\ WF_vars(Start) /\ WF_vars(Retry)
  /\ SF_vars(TickerFires)
  /\ SF_vars(StageBegin) /\ SF_vars(GetWatermark) /\ SF_vars(Poll)
  /\ SF_vars(LagBoundary) /\ SF_vars(Handle) /\ SF_vars(StageCommit)
  /\ \A b \in Batches : WF_vars(CommitBatch(b))

FairSpec == Spec /\ Fairness

(* "A missed notification costs latency, never data": every committed row  *)
(* of a watched table is handled in the end, whatever happens to the       *)
(* notifications.                                                          *)
EveryRowHandled == \A b \in Batches : Stored(b) ~> handled[b] = 1
==============================================================================
