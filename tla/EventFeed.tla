------------------------------ MODULE EventFeed ------------------------------
(***************************************************************************)
(* What ADR 0003 promises the handlers of a consumer, without clocks,      *)
(* transactions, watermarks or polls: each watched table is a log that is  *)
(* only ever appended to behind its reader's position, and the reader      *)
(* takes the log's entries in order, each exactly once.                    *)
(***************************************************************************)
EXTENDS Integers

CONSTANTS Batches, Tables, TableOf

VARIABLES
  stored,     \* the batches in the log
  pos,        \* their positions
  delivered   \* the batches whose effects are committed

vars == <<stored, pos, delivered>>

Init ==
  /\ stored = {}
  /\ pos = [b \in Batches |-> 0]
  /\ delivered = {}

(* A batch enters its table's log, never at or behind what was delivered.  *)
Append(b) ==
  /\ b \notin stored
  /\ stored' = stored \cup {b}
  /\ pos'[b] \in Nat /\ pos' = [pos EXCEPT ![b] = pos'[b]]
  /\ \A c \in delivered : TableOf[c] = TableOf[b] => pos[c] < pos'[b]
  /\ UNCHANGED delivered

(* The handler of table t applies the next entries of the log: whatever    *)
(* lies at or before an applied entry has been applied too.                *)
Deliver(t, S) ==
  /\ S \subseteq stored \ delivered
  /\ \A b \in S : /\ TableOf[b] = t
                  /\ \A c \in stored : TableOf[c] = t /\ pos[c] <= pos[b]
                                          => c \in delivered \cup S
  /\ delivered' = delivered \cup S
  /\ UNCHANGED <<stored, pos>>

Next ==
  \/ \E b \in Batches : Append(b)
  \/ \E t \in Tables : \E S \in SUBSET Batches : Deliver(t, S)

Spec == Init /\ [][Next]_vars
==============================================================================
