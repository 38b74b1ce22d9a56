---------------------------- MODULE WatchHubProofs ----------------------------
(***************************************************************************)
(* Proofs about WatchHub: clients that are not behind are up to date,      *)
(* alerts stay with their owners and a row version is published once, for  *)
(* any rows and subscribers, any filters, every queue size and overlap,    *)
(* and every order of commits, rounds, registrations and failures.         *)
(***************************************************************************)
EXTENDS WatchHub, FiniteSetTheorems, SequenceTheorems, WellFoundedInduction, TLAPS

------------------------------------------------------------------------------
(* The inductive invariant.                                                *)

Version == [v : Nat, at : Nat, live : BOOLEAN, gone : BOOLEAN]
Txn == [row : Rows, at : Nat, n : Nat]
Update == [kind : {"status", "storm", "alert"}, row : Rows \cup {"status"}, v : Nat]
StreamType ==
    [pc : {"off", "registered", "streaming"}, ch : Seq(Update), gone : BOOLEAN,
     status : Int, told : SUBSET Rows, view : [Rows -> Nat]]
HubType ==
    [pc : {"idle", "reading", "stopped"}, ready : BOOLEAN, status : Int,
     mark : [Kinds -> Nat], seen : [Rows -> Nat]]

HubTypes ==
    /\ clock \in Overlap + 1 .. MaxTime /\ faults \in 0 .. MaxFaults
    /\ db \in [Rows -> Version] /\ txns \subseteq Txn /\ writes \in [n : Nat, last : Nat]
    /\ activity \in Nat /\ hub \in HubType
    /\ reading \in [rows : [Rows -> Version], activity : Nat]
    /\ subs \in [Subs -> StreamType] /\ sent \subseteq Rows \X Nat

\* No version is newer than the last write, no mark is ahead of the clock, and
\* of a deleted row nothing is left.
Times ==
    /\ writes.last <= clock /\ \A k \in Kinds : hub.mark[k] <= clock
    /\ \A r \in Rows :
        /\ db[r].v <= writes.n /\ db[r].at <= writes.last
        /\ db[r].gone => db[r].v = 0
        /\ db[r].v = 0 => ~db[r].live
        /\ reading.rows[r].v <= writes.n /\ reading.rows[r].at <= writes.last
        /\ hub.seen[r] <= writes.last
    /\ \A p \in sent : p[2] \in 1 .. writes.n

\* A version under way is young, and nobody has seen it.
Uncommitted ==
    \A t \in txns :
        /\ t.n \in 1 .. writes.n /\ t.at \in 1 .. writes.last /\ clock - t.at <= MaxTxn
        /\ \A u \in txns : u.n = t.n \/ u.at = t.at => u = t
        /\ db[t.row].v # t.n /\ db[t.row].at # t.at
        /\ reading.rows[t.row].v # t.n /\ reading.rows[t.row].at # t.at
        /\ hub.seen[t.row] # t.at /\ <<t.row, t.n>> \notin sent

\* The tracker would publish this version of r.
Unseen(r, x) == x.v # 0 /\ x.at > since(hub.mark[KindOf(r)]) /\ isNew(r, x.at)

Pending(r) == Unseen(r, db[r])

\* A row that changed under the round's snapshot: the next round finds it,
\* however far this one moves the mark.
Newer(r) ==
    /\ db[r].v # 0 /\ db[r].v # reading.rows[r].v
    /\ db[r].at >= 1 /\ db[r].at # reading.rows[r].at
    /\ \A k \in Kinds : db[r].at > since(hub.mark[k])
    /\ \A q \in Rows : db[r].at > since(reading.rows[q].at)

Snapshots ==
    hub.pc = "reading" =>
        \A r \in Rows : reading.rows[r] = db[r] \/ Newer(r) \/ db[r].gone

\* What was published is not looked at again, and a finished round leaves
\* nothing of its snapshot behind.
Published ==
    \A r \in Rows :
        /\ Pending(r) => <<r, db[r].v>> \notin sent
        /\ hub.pc = "reading" /\ Unseen(r, reading.rows[r]) => <<r, reading.rows[r].v>> \notin sent
        /\ hub.pc = "reading" /\ <<r, db[r].v>> \in sent => reading.rows[r] = db[r]
        /\ hub.pc = "idle" => ~Unseen(r, reading.rows[r])

StatusKnown ==
    /\ reading.activity <= activity
    /\ hub.ready => hub.status \in 0 .. activity
    /\ hub.ready /\ hub.pc = "idle" => reading.activity <= hub.status

\* The last entry about k, if the queue has one, says x.
Says(ch, k, x) ==
    \A i \in 1 .. Len(ch) :
        ch[i].row = k /\ (\A j \in i + 1 .. Len(ch) : ch[j].row # k) => ch[i].v = x

Silent(ch, k) == \A i \in 1 .. Len(ch) : ch[i].row # k

\* An entry that may be in the queue of s.
Routed(s, u) ==
    \/ u.kind = "status" /\ u.row = "status"
    \/ u.kind = "storm" /\ u.row \in Storms
    \/ u.kind = "alert" /\ u.row \in Alerts /\ s \in Owners

Live(s) == subs[s].pc # "off" /\ ~subs[s].gone

\* What the client knows or will read from its queue is the published status.
KnowsStatus(s) ==
    Live(s) /\ s \in Watching =>
        /\ Says(subs[s].ch, "status", hub.status)
        /\ Silent(subs[s].ch, "status") => subs[s].status = hub.status

\* What the client shows of a row that it is owed, or will show when it has read
\* its queue, is the current version, unless a round has still to publish that.
KnowsRow(s, r) ==
    Live(s) /\ Visible(s, r) /\ ~db[r].gone =>
        \/ Pending(r)
        \/ /\ Says(subs[s].ch, r, applyUpdate(r, db[r]))
           /\ subs[s].pc = "streaming" /\ Silent(subs[s].ch, r) /\ Owed(s, r)
                => subs[s].view[r] = applyUpdate(r, db[r])

Bounded(s) ==
    /\ Len(subs[s].ch) <= Buffer
    /\ subs[s].pc # "off" => hub.ready
    /\ \A i \in 1 .. Len(subs[s].ch) : Routed(s, subs[s].ch[i])
    /\ s \notin Owners => \A r \in Alerts : subs[s].view[r] = 0

StreamOK(s) == Bounded(s) /\ KnowsStatus(s) /\ \A r \in Rows : KnowsRow(s, r)

TrackerInv == HubTypes /\ Times /\ Uncommitted /\ Snapshots /\ Published /\ StatusKnown

HubInv == TrackerInv /\ \A s \in Subs : StreamOK(s)

------------------------------------------------------------------------------
(* The largest of some moments, and the change tracker.                    *)

LEMMA LeastNat ==
  ASSUME NEW T, T \subseteq Nat, T # {}
  PROVE  \E x \in T : \A y \in T : x <= y
<1> DEFINE Less == OpToRel(<, Nat)
<1>1. \E x \in T : \A y \in T : ~(<<y, x>> \in Less)
  <2>1. IsWellFoundedOn(Less, Nat)
    BY NatLessThanWellFounded
  <2> HIDE DEF Less
  <2> QED BY <2>1, WFMin
<1>2. \A x, y \in Nat : <<y, x>> \in Less <=> y < x
  BY DEF OpToRel
<1> HIDE DEF Less
<1>3. PICK x \in T : \A y \in T : ~(<<y, x>> \in Less)
  BY <1>1
<1>4. ASSUME NEW y \in T PROVE x <= y
  <2>1. x \in Nat /\ y \in Nat /\ ~(y < x)
    BY <1>2, <1>3
  <2> QED BY <2>1
<1> QED BY <1>4

LEMMA MaxOf ==
  ASSUME NEW S, NEW B \in Nat, S \subseteq 0 .. B, S # {}
  PROVE  Max(S) \in S /\ \A y \in S : y <= Max(S)
<1> DEFINE T == {B - x : x \in S}
<1>1. T \subseteq Nat
  OBVIOUS
<1>2. T # {}
  <2>1. PICK x \in S : TRUE
    OBVIOUS
  <2>2. B - x \in T
    OBVIOUS
  <2> QED BY <2>2
<1>3. PICK m \in T : \A y \in T : m <= y
  BY <1>1, <1>2, LeastNat
<1>4. PICK x \in S : m = B - x
  OBVIOUS
<1>5. ASSUME NEW y \in S PROVE x >= y
  <2>1. B - y \in T
    OBVIOUS
  <2> QED BY <2>1, <1>3, <1>4
<1>6. \E z \in S : \A y \in S : z >= y
  BY <1>5
<1>7. Max(S) \in S /\ \A y \in S : Max(S) >= y
  BY <1>6 DEF Max
<1> QED BY <1>7

LEMMA KindIs == \A r \in Rows : KindOf(r) \in Kinds
  BY DEF KindOf, Kinds

LEMMA ChangedIsUnseen ==
  ASSUME HubTypes
  PROVE  ChangedRows = {r \in Rows : Unseen(r, reading.rows[r])}
  BY HubAssumption DEF ChangedRows, ListStormEventsChangedSince, ListAlertsChangedSince, Unseen,
       KindOf, Rows

\* The mark moves to the time of a version it read, and never back.
LEMMA NewMarkIs ==
  ASSUME HubTypes, Times
  PROVE  /\ NewMark \in [Kinds -> Nat]
         /\ \A k \in Kinds :
              /\ hub.mark[k] <= NewMark[k] /\ NewMark[k] <= clock
              /\ NewMark[k] = hub.mark[k] \/ \E q \in Rows : NewMark[k] = reading.rows[q].at
<1> SUFFICES ASSUME NEW k \in Kinds
             PROVE  /\ NewMark[k] \in Nat
                    /\ hub.mark[k] <= NewMark[k] /\ NewMark[k] <= clock
                    /\ NewMark[k] = hub.mark[k] \/ \E q \in Rows : NewMark[k] = reading.rows[q].at
  BY DEF NewMark
<1> DEFINE S == {hub.mark[k]} \cup
                  {reading.rows[r].at : r \in {c \in ChangedRows : KindOf(c) = k}}
<1>1. NewMark[k] = Max(S)
  BY DEF NewMark
<1>2. ChangedRows \subseteq Rows
  BY ChangedIsUnseen
<1>3. clock \in Nat /\ hub.mark[k] \in 0 .. clock
  BY HubAssumption DEF HubTypes, HubType, Times
<1>4. \A r \in Rows : reading.rows[r].at \in 0 .. clock
  BY <1>3 DEF HubTypes, Version, Times
<1>5. S \subseteq 0 .. clock /\ S # {}
  BY <1>2, <1>3, <1>4
<1>6. \A x \in S : x = hub.mark[k] \/ \E q \in Rows : x = reading.rows[q].at
  BY <1>2
<1>7. hub.mark[k] \in S
  OBVIOUS
<1> HIDE DEF S
<1>8. Max(S) \in S /\ \A y \in S : y <= Max(S)
  BY <1>3, <1>5, MaxOf
<1>9. Max(S) \in 0 .. clock /\ hub.mark[k] <= Max(S)
  BY <1>5, <1>7, <1>8
<1>10. Max(S) = hub.mark[k] \/ \E q \in Rows : Max(S) = reading.rows[q].at
  BY <1>6, <1>8
<1>11. Max(S) \in Nat /\ Max(S) <= clock
  BY <1>3, <1>9
<1> QED BY <1>1, <1>9, <1>10, <1>11

\* A version is remembered until its time falls behind the mark.
LEMMA RecordIs ==
  ASSUME HubTypes, Times
  PROVE  /\ record \in [Rows -> Nat]
         /\ \A r \in Rows :
              /\ record[r] \in {0, hub.seen[r], reading.rows[r].at}
              /\ r \in ChangedRows => \/ record[r] = reading.rows[r].at
                                      \/ reading.rows[r].at < since(NewMark[KindOf(r)])
              /\ r \notin ChangedRows => \/ record[r] = hub.seen[r]
                                         \/ hub.seen[r] < since(NewMark[KindOf(r)]) /\ record[r] = 0
<1>1. \A r \in Rows : reading.rows[r].at \in Nat /\ hub.seen[r] \in Nat
  BY DEF HubTypes, HubType, Version
<1> DEFINE new == [r \in Rows |-> IF r \in ChangedRows THEN reading.rows[r].at ELSE hub.seen[r]]
<1>2. record = [r \in Rows |-> IF new[r] < since(NewMark[KindOf(r)]) THEN 0 ELSE new[r]]
  BY DEF record, Pruned
<1>3. \A r \in Rows : new[r] = IF r \in ChangedRows THEN reading.rows[r].at ELSE hub.seen[r]
  OBVIOUS
<1> HIDE DEF new
<1> QED BY <1>1, <1>2, <1>3

------------------------------------------------------------------------------
(* Queues.                                                                 *)

LEMMA TailSays ==
  ASSUME NEW ch \in Seq(Update), ch # <<>>, NEW k, NEW x, Says(ch, k, x)
  PROVE  /\ Says(Tail(ch), k, x)
         /\ Silent(Tail(ch), k) /\ Head(ch).row = k => Head(ch).v = x
         /\ Silent(Tail(ch), k) /\ Head(ch).row # k => Silent(ch, k)
<1>1. /\ Len(ch) \in Nat /\ Len(ch) >= 1 /\ Len(Tail(ch)) = Len(ch) - 1
      /\ \A i \in 1 .. Len(ch) - 1 : Tail(ch)[i] = ch[i + 1]
      /\ Head(ch) = ch[1]
  BY HeadTailProperties, EmptySeq, LenProperties
<1>2. Says(Tail(ch), k, x)
  <2> SUFFICES ASSUME NEW i \in 1 .. Len(ch) - 1, Tail(ch)[i].row = k,
                      \A j \in i + 1 .. Len(ch) - 1 : Tail(ch)[j].row # k
               PROVE  Tail(ch)[i].v = x
    BY <1>1 DEF Says
  <2>1. i + 1 \in 1 .. Len(ch) /\ ch[i + 1].row = k
    BY <1>1
  <2>2. ASSUME NEW j \in (i + 1) + 1 .. Len(ch) PROVE ch[j].row # k
    <3>1. j - 1 \in i + 1 .. Len(ch) - 1 /\ j - 1 \in 1 .. Len(ch) - 1 /\ (j - 1) + 1 = j
      BY <1>1
    <3>2. Tail(ch)[j - 1].row # k /\ Tail(ch)[j - 1] = ch[(j - 1) + 1]
      BY <1>1, <3>1
    <3> QED BY <3>1, <3>2
  <2>3. ch[i + 1].v = x
    BY <2>1, <2>2 DEF Says
  <2> QED BY <1>1, <2>3
<1>3. ASSUME Silent(Tail(ch), k), NEW j \in 2 .. Len(ch) PROVE ch[j].row # k
  <2>1. j - 1 \in 1 .. Len(ch) - 1 /\ (j - 1) + 1 = j
    BY <1>1
  <2>2. Tail(ch)[j - 1].row # k /\ Tail(ch)[j - 1] = ch[(j - 1) + 1]
    BY <1>1, <1>3, <2>1 DEF Silent
  <2> QED BY <2>1, <2>2
<1>4. Silent(Tail(ch), k) /\ Head(ch).row = k => Head(ch).v = x
  <2> SUFFICES ASSUME Silent(Tail(ch), k), Head(ch).row = k PROVE Head(ch).v = x
    OBVIOUS
  <2>1. 1 \in 1 .. Len(ch) /\ \A j \in 1 + 1 .. Len(ch) : ch[j].row # k
    BY <1>1, <1>3
  <2> QED BY <1>1, <2>1 DEF Says
<1>5. Silent(Tail(ch), k) /\ Head(ch).row # k => Silent(ch, k)
  BY <1>1, <1>3 DEF Silent
<1> QED BY <1>2, <1>4, <1>5

\* Entries behind the queue, none of them about k.
LEMMA QueuedSilent ==
  ASSUME NEW ch \in Seq(Update), NEW q \in Seq(Update), NEW k, Silent(q, k)
  PROVE  /\ \A x : Says(ch, k, x) => Says(ch \o q, k, x)
         /\ Silent(ch \o q, k) => Silent(ch, k)
<1> DEFINE n == Len(ch)
           m == Len(q)
<1>1. /\ n \in Nat /\ m \in Nat /\ Len(ch \o q) = n + m
      /\ \A i \in 1 .. n + m : (ch \o q)[i] = IF i <= n THEN ch[i] ELSE q[i - n]
  BY ConcatProperties, LenProperties
<1> HIDE DEF n, m
<1>2. ASSUME NEW i \in 1 .. n + m, (ch \o q)[i].row = k
      PROVE  i \in 1 .. n /\ (ch \o q)[i] = ch[i]
  <2>1. ASSUME i > n PROVE FALSE
    <3>1. i - n \in 1 .. m /\ (ch \o q)[i] = q[i - n]
      BY <1>1, <2>1
    <3> QED BY <1>2, <3>1 DEF Silent, m
  <2> QED BY <1>1, <2>1
<1>3. ASSUME NEW x, Says(ch, k, x) PROVE Says(ch \o q, k, x)
  <2> SUFFICES ASSUME NEW i \in 1 .. n + m, (ch \o q)[i].row = k,
                      \A j \in i + 1 .. n + m : (ch \o q)[j].row # k
               PROVE  (ch \o q)[i].v = x
    BY <1>1 DEF Says
  <2>1. i \in 1 .. n /\ (ch \o q)[i] = ch[i] /\ ch[i].row = k
    BY <1>2
  <2>2. \A j \in i + 1 .. n : ch[j].row # k
    BY <1>1
  <2> QED BY <1>3, <2>1, <2>2 DEF Says, n
<1>4. Silent(ch \o q, k) => Silent(ch, k)
  BY <1>1 DEF Silent, n
<1> QED BY <1>3, <1>4

\* Entries behind the queue, some of them about k and all these saying x.
LEMMA QueuedSays ==
  ASSUME NEW ch \in Seq(Update), NEW q \in Seq(Update), NEW k, NEW x,
         \A i \in 1 .. Len(q) : q[i].row = k => q[i].v = x,
         ~Silent(q, k)
  PROVE  Says(ch \o q, k, x) /\ ~Silent(ch \o q, k)
<1> DEFINE n == Len(ch)
           m == Len(q)
<1>1. /\ n \in Nat /\ m \in Nat /\ Len(ch \o q) = n + m
      /\ \A i \in 1 .. n + m : (ch \o q)[i] = IF i <= n THEN ch[i] ELSE q[i - n]
  BY ConcatProperties, LenProperties
<1>2. PICK i \in 1 .. m : q[i].row = k
  BY DEF Silent
<1>a. \A j \in 1 .. m : q[j].row = k => q[j].v = x
  OBVIOUS
<1> HIDE DEF n, m
<1>3. i + n \in 1 .. n + m /\ (ch \o q)[i + n].row = k
  <2>1. i + n \in 1 .. n + m /\ ~(i + n <= n) /\ (i + n) - n = i
    BY <1>1
  <2> QED BY <1>1, <1>2, <2>1
<1>4. ~Silent(ch \o q, k)
  BY <1>1, <1>3 DEF Silent
<1>5. Says(ch \o q, k, x)
  <2> SUFFICES ASSUME NEW j \in 1 .. n + m, (ch \o q)[j].row = k,
                      \A h \in j + 1 .. n + m : (ch \o q)[h].row # k
               PROVE  (ch \o q)[j].v = x
    BY <1>1 DEF Says
  <2>1. j >= i + n
    BY <1>1, <1>3
  <2>2. j - n \in 1 .. m /\ (ch \o q)[j] = q[j - n]
    BY <1>1, <2>1
  <2> QED BY <1>a, <2>2
<1> QED BY <1>4, <1>5

LEMMA ShownIsNat == \A r \in Rows, x \in Version : applyUpdate(r, x) \in Nat
  BY DEF applyUpdate, Version

\* The updates about the changed rows of one kind.
LEMMA RowUpdatesAre ==
  ASSUME HubTypes, NEW kind \in {"storm", "alert"}, NEW rows \in Changes(kind)
  PROVE  /\ RowUpdates(kind, rows) \in Seq(Update)
         /\ \A i \in 1 .. Len(RowUpdates(kind, rows)) :
              LET u == RowUpdates(kind, rows)[i]
              IN  u.kind = kind /\ u.row \in ChangedRows /\ KindOf(u.row) = kind
                    /\ u.v = applyUpdate(u.row, reading.rows[u.row])
         /\ \A r \in ChangedRows : KindOf(r) = kind => ~Silent(RowUpdates(kind, rows), r)
<1> DEFINE S == {r \in ChangedRows : KindOf(r) = kind}
           n == Cardinality(S)
           q == RowUpdates(kind, rows)
<1>1. S \subseteq Rows
  BY ChangedIsUnseen
<1>2. n \in Nat
  BY <1>1, HubAssumption, FS_Subset, FS_CardinalityType
<1>3. /\ rows \in [1 .. n -> S]
      /\ \A r \in S : \E i \in 1 .. n : rows[i] = r
  BY DEF Changes, InOrder
<1>a. \A r \in S : r \in ChangedRows /\ KindOf(r) = kind
  OBVIOUS
<1>b. \A r \in ChangedRows : KindOf(r) = kind => r \in S
  OBVIOUS
<1> HIDE DEF n, S
<1>4. q = [i \in 1 .. n |-> [kind |-> kind, row |-> rows[i], v |-> applyUpdate(rows[i], reading.rows[rows[i]])]]
  BY <1>3 DEF RowUpdates
<1> HIDE DEF q
<1>5. \A i \in 1 .. n :
        /\ q[i] = [kind |-> kind, row |-> rows[i], v |-> applyUpdate(rows[i], reading.rows[rows[i]])]
        /\ rows[i] \in S
  BY <1>3, <1>4
<1>6. ASSUME NEW i \in 1 .. n
      PROVE  /\ q[i] \in Update
             /\ q[i].kind = kind /\ q[i].row = rows[i]
             /\ q[i].v = applyUpdate(rows[i], reading.rows[rows[i]])
  <2> DEFINE v == applyUpdate(rows[i], reading.rows[rows[i]])
             r == rows[i]
  <2>1. r \in Rows /\ v \in Nat
    <3>1. r \in Rows /\ reading.rows[r] \in Version
      BY <1>1, <1>5 DEF HubTypes
    <3> QED BY <3>1, ShownIsNat
  <2>2. q[i] = [kind |-> kind, row |-> r, v |-> v]
    BY <1>5
  <2> HIDE DEF v, r
  <2>3. [kind |-> kind, row |-> r, v |-> v] \in Update
    BY <2>1 DEF Update
  <2>4. q[i].kind = kind /\ q[i].row = r /\ q[i].v = v
    BY <2>2
  <2> QED BY <2>2, <2>3, <2>4 DEF v, r
<1>c. \A i \in 1 .. n : q[i] \in Update
  BY <1>6
<1>7. q \in Seq(Update) /\ Len(q) = n
  BY <1>2, <1>4, <1>c
<1>8. \A i \in 1 .. n : /\ q[i].kind = kind /\ q[i].row = rows[i]
                        /\ q[i].v = applyUpdate(rows[i], reading.rows[rows[i]])
  BY <1>6
<1>9. \A r \in S : ~Silent(q, r)
  BY <1>3, <1>7, <1>8 DEF Silent
<1> QED BY <1>a, <1>b, <1>5, <1>7, <1>8, <1>9 DEF q

\* An entry that a round queues for s.
Queued(s, u) ==
    /\ u.kind = "status" => /\ u.row = "status" /\ u.v = reading.activity
                            /\ hub.status # reading.activity /\ s \in Watching
    /\ u.kind # "status" => /\ u.row \in ChangedRows
                            /\ u.v = applyUpdate(u.row, reading.rows[u.row])
                            /\ KindOf(u.row) = u.kind
                            /\ u.kind = "alert" => s \in Owners /\ s \in Watching

LEMMA UpdatesAre ==
  ASSUME HubTypes, NEW s \in Subs, NEW storms \in Changes("storm"), NEW alerts \in Changes("alert")
  PROVE  /\ Updates(s, storms, alerts) \in Seq(Update)
         /\ \A i \in 1 .. Len(Updates(s, storms, alerts)) : Queued(s, Updates(s, storms, alerts)[i])
         /\ \A r \in ChangedRows : Visible(s, r) => ~Silent(Updates(s, storms, alerts), r)
         /\ hub.status # reading.activity /\ s \in Watching
              => ~Silent(Updates(s, storms, alerts), "status")
<1> DEFINE st == [kind |-> "status", row |-> "status", v |-> reading.activity]
           a == IF hub.status # reading.activity /\ wants(s, "status") THEN <<st>> ELSE <<>>
           b == IF wants(s, "storm") THEN RowUpdates("storm", storms) ELSE <<>>
           c == IF wants(s, "alert") THEN RowUpdates("alert", alerts) ELSE <<>>
<1>1. Updates(s, storms, alerts) = (a \o b) \o c
  BY DEF Updates
<1>2. /\ wants(s, "storm")
      /\ wants(s, "status") <=> s \in Watching
      /\ wants(s, "alert") <=> s \in Owners /\ s \in Watching
  BY DEF wants, ListOwnersOfHomes
<1>3. /\ a \in Seq(Update)
      /\ \A i \in 1 .. Len(a) : Queued(s, a[i])
      /\ hub.status # reading.activity /\ s \in Watching => Len(a) = 1 /\ a[1].row = "status"
  <2>1. st \in Update
    BY DEF HubTypes, Update
  <2>2. st.kind = "status" /\ st.row = "status" /\ st.v = reading.activity
    OBVIOUS
  <2> HIDE DEF st
  <2>3. CASE hub.status # reading.activity /\ wants(s, "status")
    <3>1. a = <<st>>
      BY <2>3
    <3> HIDE DEF a
    <3>2. a \in Seq(Update) /\ Len(a) = 1 /\ a[1] = st
      BY <2>1, <3>1
    <3> QED BY <1>2, <2>2, <2>3, <3>2 DEF Queued
  <2>4. CASE ~(hub.status # reading.activity /\ wants(s, "status"))
    BY <1>2, <2>4
  <2> QED BY <2>3, <2>4
<1>4. /\ b \in Seq(Update)
      /\ \A i \in 1 .. Len(b) : Queued(s, b[i])
      /\ \A r \in ChangedRows : KindOf(r) = "storm" => ~Silent(b, r)
  <2>1. b = RowUpdates("storm", storms)
    BY <1>2
  <2> HIDE DEF b
  <2> QED BY <2>1, RowUpdatesAre DEF Queued
<1>5. /\ c \in Seq(Update)
      /\ \A i \in 1 .. Len(c) : Queued(s, c[i])
      /\ \A r \in ChangedRows : KindOf(r) = "alert" /\ s \in Owners /\ s \in Watching => ~Silent(c, r)
  <2>1. CASE wants(s, "alert")
    <3>1. c = RowUpdates("alert", alerts)
      BY <2>1
    <3> HIDE DEF c
    <3> QED BY <1>2, <2>1, <3>1, RowUpdatesAre DEF Queued
  <2>2. CASE ~wants(s, "alert")
    BY <1>2, <2>2
  <2> QED BY <2>1, <2>2
<1> HIDE DEF a, b, c
<1>6. /\ a \o b \in Seq(Update) /\ Len(a \o b) = Len(a) + Len(b)
      /\ Len(a) \in Nat /\ Len(b) \in Nat /\ Len(c) \in Nat
      /\ \A i \in 1 .. Len(a) + Len(b) : (a \o b)[i] = IF i <= Len(a) THEN a[i] ELSE b[i - Len(a)]
  BY <1>3, <1>4, <1>5, ConcatProperties, LenProperties
<1> DEFINE q == (a \o b) \o c
           n == Len(a) + Len(b)
<1>7. /\ q \in Seq(Update) /\ Len(q) = n + Len(c)
      /\ \A i \in 1 .. n + Len(c) : q[i] = IF i <= n THEN (a \o b)[i] ELSE c[i - n]
  BY <1>5, <1>6, ConcatProperties
<1> HIDE DEF q
<1>8. ASSUME NEW i \in 1 .. Len(q) PROVE Queued(s, q[i])
  <2>1. CASE i <= Len(a)
    BY <1>3, <1>6, <1>7, <2>1
  <2>2. CASE ~(i <= Len(a)) /\ i <= n
    <3>1. i - Len(a) \in 1 .. Len(b) /\ q[i] = b[i - Len(a)]
      BY <1>6, <1>7, <2>2
    <3> QED BY <1>4, <3>1
  <2>3. CASE ~(i <= n)
    <3>1. i - n \in 1 .. Len(c) /\ q[i] = c[i - n]
      BY <1>6, <1>7, <2>3
    <3> QED BY <1>5, <3>1
  <2> QED BY <1>6, <2>1, <2>2, <2>3
<1>9. \A k : ~Silent(b, k) \/ ~Silent(c, k) => ~Silent(q, k)
  <2>1. ASSUME NEW k, ~Silent(b, k) PROVE ~Silent(q, k)
    <3>1. PICK i \in 1 .. Len(b) : b[i].row = k
      BY <2>1 DEF Silent
    <3>2. i + Len(a) \in 1 .. Len(q) /\ q[i + Len(a)] = b[i]
      <4>1. i + Len(a) \in 1 .. n /\ ~(i + Len(a) <= Len(a)) /\ (i + Len(a)) - Len(a) = i
        BY <1>6
      <4> QED BY <1>6, <1>7, <4>1
    <3> QED BY <3>1, <3>2 DEF Silent
  <2>2. ASSUME NEW k, ~Silent(c, k) PROVE ~Silent(q, k)
    <3>1. PICK i \in 1 .. Len(c) : c[i].row = k
      BY <2>2 DEF Silent
    <3>2. i + n \in 1 .. Len(q) /\ q[i + n] = c[i]
      <4>1. i + n \in 1 .. n + Len(c) /\ ~(i + n <= n) /\ (i + n) - n = i
        BY <1>6
      <4> QED BY <1>7, <4>1
    <3> QED BY <3>1, <3>2 DEF Silent
  <2> QED BY <2>1, <2>2
<1>10. ASSUME NEW r \in ChangedRows, Visible(s, r) PROVE ~Silent(q, r)
  <2>1. KindOf(r) = "storm" \/ (KindOf(r) = "alert" /\ s \in Owners /\ s \in Watching)
    BY <1>10 DEF KindOf, Visible
  <2> QED BY <1>4, <1>5, <1>9, <2>1
<1>11. hub.status # reading.activity /\ s \in Watching => ~Silent(q, "status")
  <2> SUFFICES ASSUME hub.status # reading.activity, s \in Watching PROVE ~Silent(q, "status")
    OBVIOUS
  <2>0. Len(a) = 1 /\ a[1].row = "status"
    BY <1>3
  <2>a. 1 \in 1 .. n /\ 1 \in 1 .. n + Len(c)
    BY <1>6, <2>0
  <2>1. 1 \in 1 .. Len(q) /\ q[1] = a[1] /\ a[1].row = "status"
    BY <1>6, <1>7, <2>0, <2>a
  <2> QED BY <2>1 DEF Silent
<1> QED BY <1>1, <1>7, <1>8, <1>10, <1>11 DEF q

\* deliver: a stream that stays has the whole of the updates in its queue.
LEMMA DeliverIs ==
  ASSUME NEW x \in StreamType, NEW q \in Seq(Update), Len(x.ch) <= Buffer
  PROVE  /\ deliver(x, q) \in StreamType
         /\ deliver(x, q).pc = x.pc /\ deliver(x, q).status = x.status
         /\ deliver(x, q).view = x.view /\ deliver(x, q).told = x.told
         /\ x.gone => deliver(x, q).gone
         /\ Len(deliver(x, q).ch) <= Buffer
         /\ ~deliver(x, q).gone => deliver(x, q).ch = x.ch \o q
         /\ \A i \in 1 .. Len(deliver(x, q).ch) : \/ \E j \in 1 .. Len(x.ch) : deliver(x, q).ch[i] = x.ch[j]
                                                  \/ \E j \in 1 .. Len(q) : deliver(x, q).ch[i] = q[j]
<1> DEFINE all == x.ch \o q
           n == Len(x.ch) + Len(q)
           m == Min({Buffer, n})
           ch == SubSeq(all, 1, m)
           gone == x.gone \/ n > Buffer
<1>1. x.ch \in Seq(Update) /\ x.gone \in BOOLEAN
  BY DEF StreamType
<1>2. /\ all \in Seq(Update) /\ Len(all) = n /\ n \in Nat
      /\ Len(x.ch) \in Nat /\ Len(q) \in Nat
      /\ \A i \in 1 .. n : all[i] = IF i <= Len(x.ch) THEN x.ch[i] ELSE q[i - Len(x.ch)]
  BY <1>1, ConcatProperties, LenProperties
<1>3. m \in Nat /\ m <= Buffer /\ m <= n /\ (n <= Buffer => m = n)
  <2> HIDE DEF n
  <2>1. n \in Nat /\ Buffer \in Nat
    BY <1>2, HubAssumption
  <2>2. \E z \in {Buffer, n} : \A y \in {Buffer, n} : z <= y
    BY <2>1
  <2>3. Min({Buffer, n}) \in {Buffer, n} /\ \A y \in {Buffer, n} : Min({Buffer, n}) <= y
    BY <2>2 DEF Min
  <2> QED BY <2>1, <2>3
<1>4. deliver(x, q) = [x EXCEPT !.ch = ch, !.gone = gone]
  BY DEF deliver
<1> HIDE DEF all, m
<1>5. /\ ch \in Seq(Update) /\ Len(ch) = m
      /\ \A i \in 1 .. m : ch[i] = all[i]
  <2>1. \A i \in 1 .. m : all[i] \in Update
    BY <1>2, <1>3, ElementOfSeq
  <2>2. /\ SubSeq(all, 1, m) \in Seq(Update)
        /\ Len(SubSeq(all, 1, m)) = IF 1 <= m THEN m - 1 + 1 ELSE 0
        /\ \A i \in 1 .. m - 1 + 1 : SubSeq(all, 1, m)[i] = all[1 + i - 1]
    BY <1>3, <2>1, SubSeqProperties
  <2> QED BY <1>3, <2>2
<1>6. ASSUME ~gone PROVE ch = all
  <2>1. m = Len(all)
    BY <1>2, <1>3, <1>6, HubAssumption
  <2> QED BY <1>2, <2>1, SubSeqFull
<1> HIDE DEF ch
<1>7. ASSUME NEW i \in 1 .. Len(ch)
      PROVE  (\E j \in 1 .. Len(x.ch) : ch[i] = x.ch[j]) \/ (\E j \in 1 .. Len(q) : ch[i] = q[j])
  <2>1. i \in 1 .. n /\ ch[i] = all[i]
    BY <1>2, <1>3, <1>5
  <2>2. CASE i <= Len(x.ch)
    BY <1>2, <2>1, <2>2
  <2>3. CASE ~(i <= Len(x.ch))
    <3>1. i - Len(x.ch) \in 1 .. Len(q)
      BY <1>2, <2>1, <2>3
    <3>2. ch[i] = q[i - Len(x.ch)]
      BY <1>2, <2>1, <2>3
    <3> QED BY <3>1, <3>2
  <2> QED BY <2>2, <2>3
<1>8. gone \in BOOLEAN /\ (x.gone => gone)
  BY <1>1
<1> HIDE DEF ch, gone
<1>9. [x EXCEPT !.ch = ch, !.gone = gone] \in StreamType
  BY <1>5, <1>8 DEF StreamType
<1>10. /\ deliver(x, q).ch = ch /\ deliver(x, q).gone = gone
       /\ deliver(x, q).pc = x.pc /\ deliver(x, q).status = x.status
       /\ deliver(x, q).view = x.view /\ deliver(x, q).told = x.told
  BY <1>4 DEF StreamType
<1> QED BY <1>3, <1>4, <1>5, <1>6, <1>7, <1>8, <1>9, <1>10 DEF all

------------------------------------------------------------------------------
(* The tracker and the database.                                           *)

LEMMA TrackerInit == Init => HubInv
<1> SUFFICES ASSUME Init PROVE HubInv
  OBVIOUS
<1> USE HubAssumption
<1>1. Stream \in StreamType
  <2>1. [r \in Rows |-> 0] \in [Rows -> Nat] /\ <<>> \in Seq(Update)
    OBVIOUS
  <2> QED BY <2>1 DEF Stream, StreamType
<1>2. NoReading \in [rows : [Rows -> Version], activity : Nat]
  BY DEF NoReading, Absent, Version
<1>3. /\ hub \in HubType /\ hub.pc = "idle" /\ hub.ready = FALSE
      /\ \A k \in Kinds : hub.mark[k] = clock
      /\ \A r \in Rows : hub.seen[r] = 0
  BY DEF Init, HubType
<1>4. /\ clock = Overlap + 1 /\ faults = 0 /\ txns = {} /\ writes = [n |-> 0, last |-> 0]
      /\ activity = 0 /\ sent = {} /\ reading = NoReading /\ subs = [s \in Subs |-> Stream]
      /\ db = [r \in Rows |-> Absent]
  BY DEF Init
<1>5. \A r \in Rows : /\ db[r].v = 0 /\ db[r].at = 0 /\ db[r].live = FALSE
                      /\ reading.rows[r].v = 0 /\ reading.rows[r].at = 0
  BY <1>4 DEF NoReading, Absent
<1>6. HubTypes
  <2>1. Absent \in Version
    BY DEF Absent, Version
  <2>2. writes \in [n : Nat, last : Nat]
    BY <1>4
  <2> QED BY <1>1, <1>2, <1>3, <1>4, <2>1, <2>2 DEF HubTypes
<1>7. Times
  <2>1. writes.n = 0 /\ writes.last = 0
    BY <1>4
  <2> QED BY <1>3, <1>4, <1>5, <2>1 DEF Times
<1>8. Uncommitted /\ Snapshots
  BY <1>3, <1>4 DEF Uncommitted, Snapshots
<1>9. Published
  BY <1>3, <1>4, <1>5 DEF Published, Pending, Unseen
<1>10. StatusKnown
  BY <1>3, <1>4 DEF StatusKnown, NoReading
<1>11. ASSUME NEW s \in Subs PROVE StreamOK(s)
  <2>1. /\ subs[s].pc = "off" /\ subs[s].ch = <<>>
        /\ \A r \in Rows : subs[s].view[r] = 0
    BY <1>4 DEF Stream
  <2> QED BY <2>1 DEF StreamOK, Bounded, KnowsStatus, KnowsRow, Live, Rows
<1> QED BY <1>6, <1>7, <1>8, <1>9, <1>10, <1>11 DEF HubInv, TrackerInv

\* A step that leaves the tracker and the database alone.
LEMMA TrackerSame ==
  ASSUME TrackerInv, HubTypes',
         UNCHANGED <<clock, db, txns, writes, activity, hub, reading, sent>>
  PROVE  TrackerInv'
  BY DEF TrackerInv, Times, Uncommitted, Snapshots, Newer, Published, Pending, Unseen, since, isNew,
         StatusKnown

LEMMA TxnIs ==
  ASSUME TrackerInv, NEW t \in txns
  PROVE  /\ t \in Txn /\ t.row \in Rows /\ t.n \in Nat /\ t.at \in Nat
         /\ t.n >= 1 /\ t.n <= writes.n /\ t.at >= 1 /\ t.at <= writes.last
         /\ clock - t.at <= MaxTxn
<1>1. t \in Txn
  BY DEF TrackerInv, HubTypes
<1>2. t.row \in Rows /\ t.n \in Nat /\ t.at \in Nat
  BY <1>1 DEF Txn
<1>3. t.n \in 1 .. writes.n /\ t.at \in 1 .. writes.last /\ clock - t.at <= MaxTxn
  BY DEF TrackerInv, Uncommitted
<1> QED BY <1>1, <1>2, <1>3

LEMMA TrackerBeginWrite ==
  ASSUME TrackerInv, NEW r \in Rows, BeginWrite(r)
  PROVE  TrackerInv'
<1> USE HubAssumption
<1> DEFINE t == [row |-> r, at |-> clock, n |-> writes.n + 1]
<1>1. /\ writes.n \in Nat /\ writes.last \in Nat /\ writes.last < clock /\ clock \in Nat /\ clock >= 1
      /\ writes' = [n |-> writes.n + 1, last |-> clock]
      /\ txns' = txns \cup {t}
      /\ UNCHANGED <<clock, db, activity, hub, reading, subs, sent, faults>>
  BY DEF TrackerInv, HubTypes, BeginWrite
<1>2. t \in Txn /\ t.row = r /\ t.at = clock /\ t.n = writes.n + 1
  BY <1>1 DEF Txn
<1> HIDE DEF t
<1>3. writes'.n = writes.n + 1 /\ writes'.last = clock /\ writes' \in [n : Nat, last : Nat]
  BY <1>1
<1>4. HubTypes'
  BY <1>1, <1>2, <1>3 DEF TrackerInv, HubTypes
<1>5. \A q \in Rows : /\ db[q].v \in Nat /\ db[q].at \in Nat /\ reading.rows[q].v \in Nat
                      /\ reading.rows[q].at \in Nat /\ hub.seen[q] \in Nat
  BY DEF TrackerInv, HubTypes, Version, HubType
<1>6. \A p \in sent : p[2] \in 1 .. writes.n
  BY DEF TrackerInv, Times
<1>7. Times'
  BY <1>1, <1>3, <1>5, <1>6 DEF TrackerInv, Times
<1>8. Uncommitted'
  <2>1. ASSUME NEW u \in txns
        PROVE  u \in Txn /\ u.n <= writes.n /\ u.at <= writes.last /\ u.n \in Nat /\ u.at \in Nat
    BY TxnIs
  <2>2. <<r, t.n>> \notin sent
    BY <1>1, <1>2, <1>6
  <2>3. ASSUME NEW u \in txns
        PROVE  /\ u.n \in 1 .. writes'.n /\ u.at \in 1 .. writes'.last /\ clock - u.at <= MaxTxn
               /\ \A w \in txns' : w.n = u.n \/ w.at = u.at => w = u
    <3>1. u.n \in 1 .. writes'.n /\ u.at \in 1 .. writes'.last /\ clock - u.at <= MaxTxn
      BY <1>1, <1>3, TxnIs
    <3>2. \A w \in txns : w.n = u.n \/ w.at = u.at => w = u
      BY DEF TrackerInv, Uncommitted
    <3>3. t.n # u.n /\ t.at # u.at
      BY <1>1, <1>2, <2>1
    <3> QED BY <1>1, <3>1, <3>2, <3>3
  <2>4. /\ t.n \in 1 .. writes'.n /\ t.at \in 1 .. writes'.last /\ clock - t.at <= MaxTxn
        /\ \A w \in txns' : w.n = t.n \/ w.at = t.at => w = t
    BY <1>1, <1>2, <1>3, <2>1
  <2>5. /\ db[t.row].v # t.n /\ db[t.row].at # t.at
        /\ reading.rows[t.row].v # t.n /\ reading.rows[t.row].at # t.at
        /\ hub.seen[t.row] # t.at /\ <<t.row, t.n>> \notin sent
    BY <1>1, <1>2, <1>5, <2>2 DEF TrackerInv, Times
  <2>6. \A u \in txns : /\ db[u.row].v # u.n /\ db[u.row].at # u.at
                        /\ reading.rows[u.row].v # u.n /\ reading.rows[u.row].at # u.at
                        /\ hub.seen[u.row] # u.at /\ <<u.row, u.n>> \notin sent
    BY DEF TrackerInv, Uncommitted
  <2> QED BY <1>1, <2>3, <2>4, <2>5, <2>6 DEF Uncommitted
<1>9. Snapshots' /\ Published' /\ StatusKnown'
  BY <1>1 DEF TrackerInv, Snapshots, Newer, Published, Pending, Unseen, since, isNew, StatusKnown
<1> QED BY <1>4, <1>7, <1>8, <1>9 DEF TrackerInv

\* What a commit makes of its row: a version that the tracker will find.
LEMMA CommitIsPending ==
  ASSUME TrackerInv, NEW t \in txns, NEW live \in BOOLEAN, CommitWrite(t, live), ~db[t.row].gone
  PROVE  /\ t \in Txn /\ db'[t.row].v = t.n /\ db'[t.row].at = t.at /\ db'[t.row].gone = FALSE
         /\ db' \in [Rows -> Version]
         /\ \A r \in Rows : r # t.row => db'[r] = db[r]
         /\ \A k \in Kinds : t.at > since(hub.mark[k])
         /\ \A q \in Rows : t.at > since(reading.rows[q].at)
         /\ Pending(t.row)'
<1> USE HubAssumption
<1>1. t \in Txn
  BY DEF TrackerInv, HubTypes
<1>2. /\ t.row \in Rows /\ t.at \in Nat /\ t.n \in Nat /\ t.n >= 1 /\ clock \in Nat
      /\ clock - t.at <= MaxTxn
  <2>1. clock \in Nat
    BY DEF TrackerInv, HubTypes
  <2> QED BY <2>1, TxnIs
<1> DEFINE x == [v |-> t.n, at |-> t.at, live |-> live, gone |-> FALSE]
<1>3. db' = [db EXCEPT ![t.row] = x] /\ hub' = hub
  BY DEF CommitWrite
<1>a. x \in Version /\ x.v = t.n /\ x.at = t.at /\ x.gone = FALSE
  BY <1>2 DEF Version
<1> HIDE DEF x
<1>4. /\ db'[t.row].v = t.n /\ db'[t.row].at = t.at /\ db'[t.row].gone = FALSE
      /\ db' \in [Rows -> Version]
      /\ \A r \in Rows : r # t.row => db'[r] = db[r]
  BY <1>2, <1>3, <1>a DEF TrackerInv, HubTypes
<1>5. /\ \A k \in Kinds : hub.mark[k] \in Nat /\ hub.mark[k] <= clock
      /\ \A q \in Rows : reading.rows[q].at \in Nat /\ reading.rows[q].at <= clock
  BY DEF TrackerInv, HubTypes, HubType, Version, Times
<1>6. /\ \A k \in Kinds : t.at > since(hub.mark[k])
      /\ \A q \in Rows : t.at > since(reading.rows[q].at)
  BY <1>2, <1>5 DEF since
<1>7. hub.seen[t.row] # t.at
  BY DEF TrackerInv, Uncommitted
<1>8. Pending(t.row)'
  BY <1>2, <1>3, <1>4, <1>6, <1>7, KindIs DEF Pending, Unseen, since, isNew
<1> QED BY <1>1, <1>4, <1>6, <1>8

\* The update of a deleted row finds nothing.
LEMMA TrackerCommitNothing ==
  ASSUME TrackerInv, NEW t \in txns, NEW live \in BOOLEAN, CommitWrite(t, live), db[t.row].gone
  PROVE  TrackerInv'
<1>1. /\ txns' = txns \ {t}
      /\ UNCHANGED <<clock, db, writes, activity, hub, reading, subs, sent, faults>>
  BY DEF CommitWrite
<1>2. HubTypes' /\ Times' /\ Uncommitted'
  BY <1>1 DEF TrackerInv, HubTypes, Times, Uncommitted
<1>3. Snapshots' /\ Published' /\ StatusKnown'
  BY <1>1 DEF TrackerInv, Snapshots, Newer, Published, Pending, Unseen, since, isNew, StatusKnown
<1> QED BY <1>2, <1>3 DEF TrackerInv

LEMMA TrackerCommitWrite ==
  ASSUME TrackerInv, NEW t \in txns, NEW live \in BOOLEAN, CommitWrite(t, live), ~db[t.row].gone
  PROVE  TrackerInv'
<1> USE HubAssumption
<1>1. /\ t \in Txn /\ db'[t.row].v = t.n /\ db'[t.row].at = t.at /\ db'[t.row].gone = FALSE
      /\ db' \in [Rows -> Version]
      /\ \A r \in Rows : r # t.row => db'[r] = db[r]
      /\ \A k \in Kinds : t.at > since(hub.mark[k])
      /\ \A q \in Rows : t.at > since(reading.rows[q].at)
  BY CommitIsPending
<1>2. /\ txns' = txns \ {t}
      /\ UNCHANGED <<clock, writes, activity, hub, reading, subs, sent, faults>>
  BY DEF CommitWrite
<1>3. t.row \in Rows /\ t.at \in 1 .. writes.last /\ t.n \in 1 .. writes.n
  BY <1>1 DEF Txn, TrackerInv, Uncommitted
<1>4. HubTypes'
  BY <1>1, <1>2, <1>3 DEF TrackerInv, HubTypes
<1>5. Times'
  <2>1. \A r \in Rows : /\ db'[r].v <= writes.n /\ db'[r].at <= writes.last
                        /\ db'[r].gone => db'[r].v = 0
                        /\ db'[r].v = 0 => ~db'[r].live
    BY <1>1, <1>3 DEF TrackerInv, Times
  <2> QED BY <1>2, <2>1 DEF TrackerInv, Times
<1>6. Uncommitted'
  <2>1. ASSUME NEW u \in txns' PROVE u \in txns /\ u.n # t.n /\ u.at # t.at
    BY <1>2 DEF TrackerInv, Uncommitted
  <2>2. ASSUME NEW u \in txns' PROVE db'[u.row].v # u.n /\ db'[u.row].at # u.at
    <3>1. u \in Txn /\ u.row \in Rows
      BY <2>1 DEF TrackerInv, HubTypes, Txn
    <3>2. db[u.row].v # u.n /\ db[u.row].at # u.at
      BY <2>1 DEF TrackerInv, Uncommitted
    <3> QED BY <1>1, <2>1, <3>1, <3>2
  <2> QED BY <1>2, <2>1, <2>2 DEF TrackerInv, Uncommitted
<1>7. Snapshots'
  <2> SUFFICES ASSUME hub.pc = "reading", NEW r \in Rows
               PROVE  (reading.rows[r] = db[r] \/ Newer(r) \/ db[r].gone)'
    BY <1>2 DEF Snapshots
  <2>1. CASE r = t.row
    <3>1. reading.rows[r].v # t.n /\ reading.rows[r].at # t.at
      BY <2>1 DEF TrackerInv, Uncommitted
    <3>2. Newer(r)'
      BY <1>1, <1>2, <1>3, <2>1, <3>1 DEF Newer, since
    <3> QED BY <3>2
  <2>2. CASE r # t.row
    BY <1>1, <1>2, <2>2 DEF TrackerInv, Snapshots, Newer, since
  <2> QED BY <2>1, <2>2
<1>8. Published'
  <2> SUFFICES ASSUME NEW r \in Rows
               PROVE  (/\ Pending(r) => <<r, db[r].v>> \notin sent
                       /\ hub.pc = "reading" /\ Unseen(r, reading.rows[r]) => <<r, reading.rows[r].v>> \notin sent
                       /\ hub.pc = "reading" /\ <<r, db[r].v>> \in sent => reading.rows[r] = db[r]
                       /\ hub.pc = "idle" => ~Unseen(r, reading.rows[r]))'
    BY DEF Published
  <2>1. /\ hub.pc = "reading" /\ Unseen(r, reading.rows[r]) => <<r, reading.rows[r].v>> \notin sent
        /\ hub.pc = "idle" => ~Unseen(r, reading.rows[r])
    BY DEF TrackerInv, Published
  <2>2. CASE r = t.row
    <3>1. <<r, db'[r].v>> \notin sent
      BY <1>1, <2>2 DEF TrackerInv, Uncommitted
    <3> QED BY <1>2, <2>1, <3>1 DEF Unseen, since, isNew
  <2>3. CASE r # t.row
    <3>1. db'[r] = db[r]
      BY <1>1, <2>3
    <3> QED BY <1>2, <3>1 DEF TrackerInv, Published, Pending, Unseen, since, isNew
  <2> QED BY <2>2, <2>3
<1>9. StatusKnown'
  BY <1>2 DEF TrackerInv, StatusKnown
<1> QED BY <1>4, <1>5, <1>6, <1>7, <1>8, <1>9 DEF TrackerInv

\* A deleted row is not published any more, and what the round has read of it
\* does not matter.
LEMMA TrackerDelete ==
  ASSUME TrackerInv, NEW r \in Storms, DeleteStormEvent(r)
  PROVE  TrackerInv'
<1> USE HubAssumption
<1>1. /\ db' = [db EXCEPT ![r] = Deleted]
      /\ UNCHANGED <<clock, txns, writes, activity, hub, reading, subs, sent, faults>>
  BY DEF DeleteStormEvent
<1>2. /\ Deleted \in Version /\ Deleted.v = 0 /\ Deleted.at = 0
      /\ Deleted.live = FALSE /\ Deleted.gone = TRUE
  BY DEF Deleted, Absent, Version
<1>3. /\ db' \in [Rows -> Version] /\ db'[r] = Deleted
      /\ \A q \in Rows : q # r => db'[q] = db[q]
  BY <1>1, <1>2 DEF TrackerInv, HubTypes, Rows
<1>4. HubTypes'
  BY <1>1, <1>3 DEF TrackerInv, HubTypes
<1>5. Times'
  <2>1. writes.n \in Nat /\ writes.last \in Nat
    BY DEF TrackerInv, HubTypes
  <2>2. \A q \in Rows : /\ db'[q].v <= writes.n /\ db'[q].at <= writes.last
                        /\ db'[q].gone => db'[q].v = 0
                        /\ db'[q].v = 0 => ~db'[q].live
    BY <1>2, <1>3, <2>1 DEF TrackerInv, Times
  <2> QED BY <1>1, <2>2 DEF TrackerInv, Times
<1>6. Uncommitted'
  <2>1. ASSUME NEW u \in txns PROVE db'[u.row].v # u.n /\ db'[u.row].at # u.at
    <3>1. u.row \in Rows /\ u.n # 0 /\ u.at # 0
      BY TxnIs
    <3>2. db[u.row].v # u.n /\ db[u.row].at # u.at
      BY DEF TrackerInv, Uncommitted
    <3> QED BY <1>2, <1>3, <3>1, <3>2
  <2> QED BY <1>1, <2>1 DEF TrackerInv, Uncommitted
<1>7. Snapshots'
  BY <1>1, <1>2, <1>3 DEF TrackerInv, Snapshots, Newer, since
<1>8. Published'
  <2>1. \A p \in sent : p[2] # 0
    BY DEF TrackerInv, Times
  <2>2. <<r, 0>> \notin sent
    BY <2>1
  <2>3. ~Pending(r)'
    BY <1>2, <1>3 DEF Pending, Unseen
  <2>4. ASSUME NEW q \in Rows, q # r PROVE Pending(q)' <=> Pending(q)
    BY <1>1, <1>3, <2>4 DEF Pending, Unseen, since, isNew
  <2>5. \A q \in Rows : Unseen(q, reading.rows[q])' <=> Unseen(q, reading.rows[q])
    BY <1>1 DEF Unseen, since, isNew
  <2> QED BY <1>1, <1>2, <1>3, <2>2, <2>3, <2>4, <2>5 DEF TrackerInv, Published
<1>9. StatusKnown'
  BY <1>1 DEF TrackerInv, StatusKnown
<1> QED BY <1>4, <1>5, <1>6, <1>7, <1>8, <1>9 DEF TrackerInv

LEMMA TrackerStatusChanges ==
  ASSUME TrackerInv, StatusChanges
  PROVE  TrackerInv'
<1>1. /\ activity \in Nat /\ activity' = activity + 1
      /\ UNCHANGED <<clock, db, txns, writes, hub, reading, subs, sent, faults>>
  BY DEF TrackerInv, HubTypes, StatusChanges
<1>2. reading.activity \in Nat /\ hub.status \in Int
  BY DEF TrackerInv, HubTypes, HubType
<1>3. HubTypes'
  BY <1>1 DEF TrackerInv, HubTypes
<1>4. Times' /\ Uncommitted' /\ Snapshots' /\ Published'
  BY <1>1 DEF TrackerInv, Times, Uncommitted, Snapshots, Newer, Published, Pending, Unseen, since, isNew
<1>5. StatusKnown'
  BY <1>1, <1>2 DEF TrackerInv, StatusKnown
<1> QED BY <1>3, <1>4, <1>5 DEF TrackerInv

LEMMA TrackerTick ==
  ASSUME TrackerInv, Tick
  PROVE  TrackerInv'
<1> USE HubAssumption
<1>1. /\ clock \in Overlap + 1 .. MaxTime /\ clock < MaxTime /\ clock' = clock + 1
      /\ \A t \in txns : clock - t.at < MaxTxn
      /\ UNCHANGED <<db, txns, writes, activity, hub, reading, subs, sent, faults>>
  BY DEF TrackerInv, HubTypes, Tick
<1>2. HubTypes'
  BY <1>1 DEF TrackerInv, HubTypes
<1>3. writes.last \in Nat /\ \A k \in Kinds : hub.mark[k] \in Nat
  BY DEF TrackerInv, HubTypes, HubType
<1>4. Times'
  BY <1>1, <1>3 DEF TrackerInv, Times
<1>5. Uncommitted'
  <2>1. \A t \in txns : t.at \in Nat /\ clock' - t.at <= MaxTxn
    BY <1>1, TxnIs
  <2> QED BY <1>1, <2>1 DEF TrackerInv, Uncommitted
<1>6. Snapshots' /\ Published' /\ StatusKnown'
  BY <1>1 DEF TrackerInv, Snapshots, Newer, Published, Pending, Unseen, since, isNew, StatusKnown
<1> QED BY <1>2, <1>4, <1>5, <1>6 DEF TrackerInv

\* A step of the Run goroutine that keeps what the tracker knows.
LEMMA HubPc ==
  ASSUME HubTypes, NEW pc \in {"idle", "reading", "stopped"}, hub' = [hub EXCEPT !.pc = pc]
  PROVE  /\ hub' \in HubType /\ hub'.pc = pc
         /\ hub'.ready = hub.ready /\ hub'.status = hub.status
         /\ hub'.mark = hub.mark /\ hub'.seen = hub.seen
  BY DEF HubTypes, HubType

LEMMA TrackerRoundBegin ==
  ASSUME TrackerInv, RoundBegin
  PROVE  TrackerInv'
<1> USE HubAssumption
<1>1. /\ reading' = [rows |-> db, activity |-> activity]
      /\ UNCHANGED <<clock, db, txns, writes, activity, subs, sent, faults>>
      /\ hub' = [hub EXCEPT !.pc = "reading"]
  BY DEF RoundBegin
<1>2. /\ hub' \in HubType /\ hub'.pc = "reading" /\ hub'.ready = hub.ready /\ hub'.status = hub.status
      /\ hub'.mark = hub.mark /\ hub'.seen = hub.seen
  BY <1>1, HubPc DEF TrackerInv
<1>3. reading'.rows = db /\ reading'.activity = activity
  BY <1>1
<1>4. HubTypes'
  BY <1>1, <1>2 DEF TrackerInv, HubTypes
<1>5. Times'
  BY <1>1, <1>2, <1>3 DEF TrackerInv, Times
<1>6. Uncommitted'
  BY <1>1, <1>2, <1>3 DEF TrackerInv, Uncommitted
<1>7. Snapshots'
  BY <1>1, <1>3 DEF Snapshots
<1>8. Published'
  <2>1. \A r \in Rows : Pending(r) => <<r, db[r].v>> \notin sent
    BY DEF TrackerInv, Published
  <2> QED BY <1>1, <1>2, <1>3, <2>1 DEF Published, Pending, Unseen, since, isNew
<1>9. StatusKnown'
  <2>1. activity \in Nat
    BY DEF TrackerInv, HubTypes
  <2> QED BY <1>1, <1>2, <1>3, <2>1 DEF TrackerInv, StatusKnown
<1> QED BY <1>4, <1>5, <1>6, <1>7, <1>8, <1>9 DEF TrackerInv

LEMMA TrackerRoundFails ==
  ASSUME TrackerInv, RoundFails
  PROVE  TrackerInv'
<1> USE HubAssumption
<1>1. /\ reading' = NoReading /\ faults < MaxFaults /\ faults' = faults + 1
      /\ UNCHANGED <<clock, db, txns, writes, activity, subs, sent>>
      /\ hub' = [hub EXCEPT !.pc = "idle"]
  BY DEF RoundFails
<1>2. /\ hub' \in HubType /\ hub'.pc = "idle" /\ hub'.ready = hub.ready /\ hub'.status = hub.status
      /\ hub'.mark = hub.mark /\ hub'.seen = hub.seen
  BY <1>1, HubPc DEF TrackerInv
<1>3. /\ NoReading \in [rows : [Rows -> Version], activity : Nat] /\ NoReading.activity = 0
      /\ \A r \in Rows : NoReading.rows[r].v = 0 /\ NoReading.rows[r].at = 0
  BY DEF NoReading, Absent, Version
<1>4. HubTypes'
  <2>1. faults' \in 0 .. MaxFaults
    BY <1>1 DEF TrackerInv, HubTypes
  <2> QED BY <1>1, <1>2, <1>3, <2>1 DEF TrackerInv, HubTypes
<1>5. Times'
  <2>1. writes.n \in Nat /\ writes.last \in Nat
    BY DEF TrackerInv, HubTypes
  <2> QED BY <1>1, <1>2, <1>3, <2>1 DEF TrackerInv, Times
<1>6. Uncommitted'
  <2>1. \A t \in txns : t.row \in Rows /\ t.n # 0 /\ t.at # 0
    BY TxnIs
  <2> QED BY <1>1, <1>2, <1>3, <2>1 DEF TrackerInv, Uncommitted
<1>7. Snapshots'
  BY <1>2 DEF Snapshots
<1>8. Published'
  <2>1. \A r \in Rows : Pending(r) => <<r, db[r].v>> \notin sent
    BY DEF TrackerInv, Published
  <2> QED BY <1>1, <1>2, <1>3, <2>1 DEF Published, Pending, Unseen, since, isNew
<1>9. StatusKnown'
  <2>1. activity \in Nat /\ hub.status \in Int
    BY DEF TrackerInv, HubTypes, HubType
  <2> QED BY <1>1, <1>2, <1>3, <2>1 DEF TrackerInv, StatusKnown
<1> QED BY <1>4, <1>5, <1>6, <1>7, <1>8, <1>9 DEF TrackerInv

LEMMA TrackerShutdown ==
  ASSUME TrackerInv, Shutdown
  PROVE  TrackerInv'
<1> USE HubAssumption
<1>1. /\ faults < MaxFaults /\ faults' = faults + 1
      /\ UNCHANGED <<clock, db, txns, writes, activity, reading, subs, sent>>
      /\ hub' = [hub EXCEPT !.pc = "stopped"]
  BY DEF Shutdown
<1>2. /\ hub' \in HubType /\ hub'.pc = "stopped" /\ hub'.ready = hub.ready /\ hub'.status = hub.status
      /\ hub'.mark = hub.mark /\ hub'.seen = hub.seen
  BY <1>1, HubPc DEF TrackerInv
<1>3. HubTypes'
  <2>1. faults' \in 0 .. MaxFaults
    BY <1>1 DEF TrackerInv, HubTypes
  <2> QED BY <1>1, <1>2, <2>1 DEF TrackerInv, HubTypes
<1>4. Times' /\ Uncommitted' /\ Snapshots' /\ StatusKnown'
  BY <1>1, <1>2 DEF TrackerInv, Times, Uncommitted, Snapshots, StatusKnown
<1>5. Published'
  <2>1. \A r \in Rows : Pending(r) => <<r, db[r].v>> \notin sent
    BY DEF TrackerInv, Published
  <2> QED BY <1>1, <1>2, <2>1 DEF Published, Pending, Unseen, since, isNew
<1> QED BY <1>3, <1>4, <1>5 DEF TrackerInv

\* A round leaves nothing of its snapshot to publish, and what changed under
\* it stays to be published.
LEMMA PublishIs ==
  ASSUME TrackerInv, RoundPublish
  PROVE  /\ hub' \in HubType /\ hub'.pc = "idle" /\ hub'.ready = TRUE
         /\ hub'.status = reading.activity /\ hub'.mark = NewMark /\ hub'.seen = record
         /\ \A k \in Kinds : hub'.mark[k] \in Nat /\ hub'.mark[k] >= hub.mark[k] /\ hub'.mark[k] <= clock
         /\ \A r \in Rows : hub'.seen[r] \in {0, hub.seen[r], reading.rows[r].at}
         /\ \A r \in Rows : ~Unseen(r, reading.rows[r])'
         /\ \A r \in Rows : reading.rows[r] # db[r] /\ ~db[r].gone /\ (Pending(r) \/ r \in ChangedRows)
                            => Pending(r)'
<1> USE HubAssumption
<1>1. HubTypes /\ Times
  BY DEF TrackerInv
<1>2. /\ hub' = [pc |-> "idle", ready |-> TRUE, status |-> reading.activity,
                 mark |-> NewMark, seen |-> record]
      /\ UNCHANGED <<clock, db, txns, writes, activity, reading, faults>>
      /\ hub.pc = "reading"
  BY DEF RoundPublish
<1>3. /\ hub'.pc = "idle" /\ hub'.ready = TRUE
      /\ hub'.status = reading.activity /\ hub'.mark = NewMark /\ hub'.seen = record
  BY <1>2
<1>4. /\ NewMark \in [Kinds -> Nat]
      /\ \A k \in Kinds :
           /\ hub.mark[k] <= NewMark[k] /\ NewMark[k] <= clock
           /\ NewMark[k] = hub.mark[k] \/ \E q \in Rows : NewMark[k] = reading.rows[q].at
  BY <1>1, NewMarkIs
<1>5. /\ record \in [Rows -> Nat]
      /\ \A r \in Rows :
           /\ record[r] \in {0, hub.seen[r], reading.rows[r].at}
           /\ r \in ChangedRows => \/ record[r] = reading.rows[r].at
                                   \/ reading.rows[r].at < since(NewMark[KindOf(r)])
           /\ r \notin ChangedRows => \/ record[r] = hub.seen[r]
                                      \/ hub.seen[r] < since(NewMark[KindOf(r)]) /\ record[r] = 0
  BY <1>1, RecordIs
<1>6. hub' \in HubType
  <2>1. reading.activity \in Int
    BY <1>1 DEF HubTypes
  <2> QED BY <1>2, <1>4, <1>5, <2>1 DEF HubType
<1>7. \A k \in Kinds : hub.mark[k] \in Nat /\ NewMark[k] \in Nat
  BY <1>1, <1>4 DEF HubTypes, HubType
<1>8. \A r \in Rows : reading.rows[r].at \in Nat /\ hub.seen[r] \in Nat /\ KindOf(r) \in Kinds
  BY <1>1, KindIs DEF HubTypes, Version, HubType
<1>9. ASSUME NEW r \in Rows PROVE ~Unseen(r, reading.rows[r])'
  <2> SUFFICES ASSUME reading.rows[r].v # 0, reading.rows[r].at > since(NewMark[KindOf(r)])
               PROVE  record[r] = reading.rows[r].at
    BY <1>2, <1>3 DEF Unseen, since, isNew
  <2>1. CASE r \in ChangedRows
    BY <1>5, <1>7, <1>8, <2>1 DEF since
  <2>2. CASE r \notin ChangedRows
    <3>1. ~Unseen(r, reading.rows[r])
      BY <1>1, <2>2, ChangedIsUnseen
    <3>2. reading.rows[r].at > since(hub.mark[KindOf(r)])
      BY <1>4, <1>7, <1>8 DEF since
    <3>3. hub.seen[r] = reading.rows[r].at
      BY <3>1, <3>2 DEF Unseen, isNew
    <3> QED BY <1>5, <1>7, <1>8, <2>2, <3>3 DEF since
  <2> QED BY <2>1, <2>2
<1>10. ASSUME NEW r \in Rows, reading.rows[r] # db[r], ~db[r].gone, Pending(r) \/ r \in ChangedRows
       PROVE  Pending(r)'
  <2>1. Newer(r)
    BY <1>2, <1>10 DEF TrackerInv, Snapshots
  <2>2. db[r].at > since(NewMark[KindOf(r)])
    BY <1>4, <1>8, <2>1 DEF Newer
  <2>3. record[r] # db[r].at
    <3>1. CASE r \in ChangedRows
      <4>1. record[r] \in {0, reading.rows[r].at}
        BY <1>2, <1>5, <1>8, <3>1 DEF record, Pruned
      <4> QED BY <2>1, <4>1 DEF Newer
    <3>2. CASE r \notin ChangedRows
      <4>1. hub.seen[r] # db[r].at
        BY <1>10, <3>2 DEF Pending, Unseen, isNew
      <4> QED BY <1>5, <2>1, <3>2, <4>1 DEF Newer
    <3> QED BY <3>1, <3>2
  <2> QED BY <1>2, <1>3, <2>1, <2>2, <2>3 DEF Pending, Unseen, since, isNew, Newer
<1> QED BY <1>3, <1>4, <1>5, <1>6, <1>7, <1>9, <1>10

LEMMA TrackerRoundPublish ==
  ASSUME TrackerInv, RoundPublish, subs' \in [Subs -> StreamType]
  PROVE  TrackerInv'
<1> USE HubAssumption
<1>1. /\ hub' \in HubType /\ hub'.pc = "idle" /\ hub'.ready = TRUE
      /\ hub'.status = reading.activity
      /\ \A k \in Kinds : hub'.mark[k] \in Nat /\ hub'.mark[k] <= clock
      /\ \A r \in Rows : hub'.seen[r] \in {0, hub.seen[r], reading.rows[r].at}
      /\ \A r \in Rows : ~Unseen(r, reading.rows[r])'
  BY PublishIs
<1>2. /\ sent' = sent \cup {<<r, reading.rows[r].v>> : r \in ChangedRows}
      /\ UNCHANGED <<clock, db, txns, writes, activity, reading, faults>>
      /\ hub.pc = "reading"
  BY DEF RoundPublish
<1>3. \A r \in ChangedRows : r \in Rows /\ reading.rows[r].v # 0 /\ reading.rows[r].v \in Nat
  BY ChangedIsUnseen DEF TrackerInv, Unseen, HubTypes, Version
<1>4. HubTypes'
  <2>1. sent' \subseteq Rows \X Nat
    BY <1>2, <1>3 DEF TrackerInv, HubTypes
  <2> QED BY <1>1, <1>2, <2>1 DEF TrackerInv, HubTypes
<1>5. Times'
  <2>1. \A p \in sent' : p[2] \in 1 .. writes.n
    <3>1. \A r \in ChangedRows : reading.rows[r].v \in 1 .. writes.n
      <4>1. writes.n \in Nat
        BY DEF TrackerInv, HubTypes
      <4> QED BY <1>3, <4>1 DEF TrackerInv, Times
    <3> QED BY <1>2, <3>1 DEF TrackerInv, Times
  <2>2. \A r \in Rows : hub'.seen[r] <= writes.last
    <3>1. writes.last \in Nat
      BY DEF TrackerInv, HubTypes
    <3> QED BY <1>1, <3>1 DEF TrackerInv, Times
  <2> QED BY <1>1, <1>2, <2>1, <2>2 DEF TrackerInv, Times
<1>6. Uncommitted'
  <2>1. ASSUME NEW t \in txns PROVE hub'.seen[t.row] # t.at /\ <<t.row, t.n>> \notin sent'
    <3>1. t.row \in Rows /\ t.at # 0
      BY TxnIs
    <3>2. /\ reading.rows[t.row].v # t.n /\ reading.rows[t.row].at # t.at
          /\ hub.seen[t.row] # t.at /\ <<t.row, t.n>> \notin sent
      BY DEF TrackerInv, Uncommitted
    <3>3. hub'.seen[t.row] # t.at
      BY <1>1, <3>1, <3>2
    <3>4. \A r \in ChangedRows : <<t.row, t.n>> # <<r, reading.rows[r].v>>
      BY <3>2
    <3> QED BY <1>2, <3>2, <3>3, <3>4
  <2> QED BY <1>2, <2>1 DEF TrackerInv, Uncommitted
<1>7. Snapshots'
  BY <1>1 DEF Snapshots
<1>8. Published'
  <2>1. ASSUME NEW r \in Rows, <<r, db[r].v>> \in sent' PROVE reading.rows[r] = db[r]
    <3>1. CASE <<r, db[r].v>> \in sent
      BY <1>2, <3>1 DEF TrackerInv, Published
    <3>2. CASE <<r, db[r].v>> \notin sent
      <4>1. db[r].v = reading.rows[r].v /\ r \in ChangedRows
        BY <1>2, <2>1, <3>2
      <4>2. ~db[r].gone
        BY <1>3, <4>1 DEF TrackerInv, Times
      <4> QED BY <1>2, <4>1, <4>2 DEF TrackerInv, Snapshots, Newer
    <3> QED BY <3>1, <3>2
  <2>2. ASSUME NEW r \in Rows, Pending(r)' PROVE <<r, db[r].v>> \notin sent'
    <3> SUFFICES ASSUME <<r, db[r].v>> \in sent' PROVE FALSE
      OBVIOUS
    <3>1. reading'.rows[r] = db'[r]
      BY <1>2, <2>1
    <3> QED BY <1>1, <2>2, <3>1 DEF Pending, Unseen, isNew
  <2> QED BY <1>1, <1>2, <2>2 DEF Published
<1>9. StatusKnown'
  <2>1. activity \in Nat /\ reading.activity \in Nat /\ reading.activity <= activity
    BY DEF TrackerInv, HubTypes, StatusKnown
  <2> QED BY <1>1, <1>2, <2>1 DEF StatusKnown
<1> QED BY <1>4, <1>5, <1>6, <1>7, <1>8, <1>9 DEF TrackerInv

------------------------------------------------------------------------------
(* Streams.                                                                *)

\* A step of somebody else that commits nothing and publishes nothing.
LEMMA StreamSame ==
  ASSUME NEW s \in Subs, StreamOK(s), subs'[s] = subs[s], db' = db,
         hub'.ready = hub.ready, hub'.status = hub.status, hub'.mark = hub.mark, hub'.seen = hub.seen
  PROVE  StreamOK(s)'
  BY DEF StreamOK, Bounded, KnowsStatus, KnowsRow, Live, Pending, Unseen, since, isNew, Visible, Owed

LEMMA StreamCommitWrite ==
  ASSUME TrackerInv, NEW t \in txns, NEW live \in BOOLEAN, CommitWrite(t, live), ~db[t.row].gone,
         NEW s \in Subs, StreamOK(s)
  PROVE  StreamOK(s)'
<1>1. subs' = subs /\ hub' = hub
  BY DEF CommitWrite
<1>2. Pending(t.row)' /\ \A r \in Rows : r # t.row => db'[r] = db[r]
  BY CommitIsPending
<1>3. Bounded(s)' /\ KnowsStatus(s)'
  BY <1>1 DEF StreamOK, Bounded, KnowsStatus, Live
<1>4. ASSUME NEW r \in Rows PROVE KnowsRow(s, r)'
  <2>1. CASE r = t.row
    BY <1>2, <2>1 DEF KnowsRow
  <2>2. CASE r # t.row
    BY <1>1, <1>2, <2>2 DEF StreamOK, KnowsRow, Live, Pending, Unseen, since, isNew, Visible, Owed
  <2> QED BY <2>1, <2>2
<1> QED BY <1>3, <1>4 DEF StreamOK

LEMMA StreamDelete ==
  ASSUME TrackerInv, NEW d \in Storms, DeleteStormEvent(d), NEW s \in Subs, StreamOK(s)
  PROVE  StreamOK(s)'
<1>1. subs' = subs /\ hub' = hub /\ db' = [db EXCEPT ![d] = Deleted]
  BY DEF DeleteStormEvent
<1>2. Bounded(s)' /\ KnowsStatus(s)'
  BY <1>1 DEF StreamOK, Bounded, KnowsStatus, Live
<1>3. ASSUME NEW r \in Rows PROVE KnowsRow(s, r)'
  <2>1. CASE r = d
    <3>1. db'[r] = Deleted /\ Deleted.gone = TRUE
      BY <1>1, <2>1 DEF Deleted, Absent, TrackerInv, HubTypes
    <3> QED BY <3>1 DEF KnowsRow
  <2>2. CASE r # d
    <3>1. db'[r] = db[r]
      BY <1>1, <2>2 DEF TrackerInv, HubTypes
    <3> QED BY <1>1, <3>1 DEF StreamOK, KnowsRow, Live, Pending, Unseen, since, isNew, Visible, Owed
  <2> QED BY <2>1, <2>2
<1> QED BY <1>2, <1>3 DEF StreamOK

\* What the rounds queue.
LEMMA QueuedIsRouted ==
  ASSUME HubTypes, NEW s \in Subs, NEW u \in Update, Queued(s, u)
  PROVE  Routed(s, u)
<1>1. ChangedRows \subseteq Rows
  BY ChangedIsUnseen
<1> QED BY <1>1 DEF Queued, Routed, Update, KindOf, Rows

LEMMA StreamRoundPublish ==
  ASSUME TrackerInv, RoundPublish, NEW s \in Subs, StreamOK(s),
         NEW storms \in Changes("storm"), NEW alerts \in Changes("alert"),
         subs'[s] = IF Registered(s) THEN deliver(subs[s], Updates(s, storms, alerts)) ELSE subs[s]
  PROVE  StreamOK(s)' /\ subs'[s] \in StreamType
<1> USE HubAssumption
<1>1. HubTypes /\ subs[s] \in StreamType
  BY DEF TrackerInv, HubTypes
<1>2. /\ hub'.ready = TRUE /\ hub'.status = reading.activity
      /\ \A r \in Rows : reading.rows[r] # db[r] /\ ~db[r].gone /\ (Pending(r) \/ r \in ChangedRows)
                         => Pending(r)'
  BY PublishIs
<1>3. db' = db
  BY DEF RoundPublish
<1>4. Registered(s) <=> Live(s)
  BY <1>1 DEF Registered, Live, StreamType
<1>5. CASE ~Registered(s)
  <2>1. subs'[s] = subs[s]
    BY <1>5
  <2>2. ~Live(s)'
    BY <1>4, <1>5, <2>1 DEF Live
  <2> QED BY <1>1, <1>2, <2>1, <2>2 DEF StreamOK, Bounded, KnowsStatus, KnowsRow
<1>6. CASE Registered(s)
  <2> DEFINE q == Updates(s, storms, alerts)
             x == subs[s]
             y == deliver(x, q)
  <2>1. subs'[s] = y
    BY <1>6
  <2>2. /\ q \in Seq(Update)
        /\ \A i \in 1 .. Len(q) : Queued(s, q[i])
        /\ \A r \in ChangedRows : Visible(s, r) => ~Silent(q, r)
        /\ hub.status # reading.activity /\ s \in Watching => ~Silent(q, "status")
    BY <1>1, UpdatesAre
  <2>3. x \in StreamType /\ x.ch \in Seq(Update) /\ Len(x.ch) <= Buffer
    BY <1>1 DEF StreamOK, Bounded, StreamType
  <2>a. \A i \in 1 .. Len(q) : q[i] \in Update
    <3> HIDE DEF q
    <3> QED BY <2>2, ElementOfSeq
  <2> HIDE DEF q, x
  <2>4. /\ y \in StreamType
        /\ y.pc = x.pc /\ y.status = x.status /\ y.view = x.view /\ y.told = x.told
        /\ Len(y.ch) <= Buffer
        /\ ~y.gone => y.ch = x.ch \o q
        /\ \A i \in 1 .. Len(y.ch) : \/ \E j \in 1 .. Len(x.ch) : y.ch[i] = x.ch[j]
                                     \/ \E j \in 1 .. Len(q) : y.ch[i] = q[j]
    BY <2>2, <2>3, DeliverIs
  <2> HIDE DEF y
  <2>5. Bounded(s)'
    <3>1. \A j \in 1 .. Len(q) : Routed(s, q[j])
      BY <1>1, <2>2, <2>a, QueuedIsRouted
    <3>2. \A j \in 1 .. Len(x.ch) : Routed(s, x.ch[j])
      BY DEF StreamOK, Bounded, x
    <3>3. \A i \in 1 .. Len(y.ch) : Routed(s, y.ch[i])
      BY <2>4, <3>1, <3>2
    <3>4. s \notin Owners => \A r \in Alerts : y.view[r] = 0
      BY <2>4 DEF StreamOK, Bounded, x
    <3> QED BY <1>2, <2>1, <2>4, <3>3, <3>4 DEF Bounded
  <2>6. \A i \in 1 .. Len(q) : /\ q[i].row = "status" => /\ q[i].v = reading.activity /\ s \in Watching
                                                         /\ hub.status # reading.activity
                               /\ \A r \in Rows : q[i].row = r =>
                                    r \in ChangedRows /\ q[i].v = applyUpdate(r, reading.rows[r])
    <3>1. ChangedRows \subseteq Rows
      BY <1>1, ChangedIsUnseen
    <3> QED BY <2>2, <3>1 DEF Queued
  <2>7. ASSUME Live(s)', s \in Watching
        PROVE  Says(y.ch, "status", reading.activity) /\ (Silent(y.ch, "status") => y.status = reading.activity)
    <3>1. y.ch = x.ch \o q
      BY <2>1, <2>4, <2>7 DEF Live
    <3>2. CASE hub.status # reading.activity
      BY <2>2, <2>3, <2>6, <2>7, <3>1, <3>2, QueuedSays
    <3>3. CASE hub.status = reading.activity
      <4>1. Silent(q, "status")
        BY <2>6, <3>3 DEF Silent
      <4>2. Says(x.ch, "status", hub.status) /\ (Silent(x.ch, "status") => x.status = hub.status)
        BY <1>4, <1>6, <2>7 DEF StreamOK, KnowsStatus, x
      <4> QED BY <2>2, <2>3, <2>4, <3>1, <3>3, <4>1, <4>2, QueuedSilent
    <3> QED BY <3>2, <3>3
  <2>8. KnowsStatus(s)'
    BY <1>2, <2>1, <2>7 DEF KnowsStatus
  <2>9. ASSUME NEW r \in Rows PROVE KnowsRow(s, r)'
    <3> DEFINE v == applyUpdate(r, db[r])
    <3>0. Owed(s, r)' => Owed(s, r)
      BY <1>3, <2>1, <2>4 DEF Owed, Visible, x
    <3> SUFFICES ASSUME Live(s)', Visible(s, r), ~db[r].gone, ~Pending(r)'
                 PROVE  /\ Says(y.ch, r, v)
                        /\ y.pc = "streaming" /\ Silent(y.ch, r) /\ Owed(s, r) => y.view[r] = v
      BY <1>3, <2>1, <3>0 DEF KnowsRow, Visible
    <3>1. y.ch = x.ch \o q
      BY <2>1, <2>4 DEF Live
    <3>2. CASE r \in ChangedRows
      <4>1. db[r] = reading.rows[r]
        BY <1>2, <3>2
      <4>2. /\ \A i \in 1 .. Len(q) : q[i].row = r => q[i].v = v
            /\ ~Silent(q, r)
        BY <2>2, <2>6, <3>2, <4>1
      <4> HIDE DEF v
      <4>3. Says(x.ch \o q, r, v) /\ ~Silent(x.ch \o q, r)
        BY <2>2, <2>3, <4>2, QueuedSays
      <4> QED BY <3>1, <4>3
    <3>3. CASE r \notin ChangedRows
      <4>1. Silent(q, r)
        BY <2>6, <3>3 DEF Silent
      <4>2. ~Pending(r)
        <5>1. CASE reading.rows[r] = db[r]
          BY <1>1, <3>3, <5>1, ChangedIsUnseen DEF Pending
        <5>2. CASE reading.rows[r] # db[r]
          BY <1>2, <5>2
        <5> QED BY <5>1, <5>2
      <4>3. /\ Says(x.ch, r, v)
            /\ x.pc = "streaming" /\ Silent(x.ch, r) /\ Owed(s, r) => x.view[r] = v
        BY <1>4, <1>6, <4>2 DEF StreamOK, KnowsRow, x
      <4> HIDE DEF v
      <4> QED BY <2>2, <2>3, <2>4, <3>1, <4>1, <4>3, QueuedSilent
    <3> QED BY <3>2, <3>3
  <2> QED BY <2>1, <2>4, <2>5, <2>8, <2>9 DEF StreamOK
<1> QED BY <1>5, <1>6

\* Serve's own steps change one stream.
LEMMA ServeStep ==
  ASSUME HubInv, NEW s \in Subs,
         subs' \in [Subs -> StreamType], \A o \in Subs \ {s} : subs'[o] = subs[o],
         StreamOK(s)', faults' \in 0 .. MaxFaults,
         UNCHANGED <<clock, db, txns, writes, activity, hub, reading, sent>>
  PROVE  HubInv'
<1>1. TrackerInv'
  <2>1. HubTypes'
    BY DEF HubInv, TrackerInv, HubTypes
  <2> QED BY <2>1, TrackerSame DEF HubInv
<1>2. \A o \in Subs \ {s} : StreamOK(o)'
  BY StreamSame DEF HubInv
<1> QED BY <1>1, <1>2 DEF HubInv

LEMMA HubSubscribe ==
  ASSUME HubInv, NEW s \in Subs, Subscribe(s)
  PROVE  HubInv'
<1> USE HubAssumption
<1> DEFINE known == IF s \in Watching THEN hub.status ELSE 0
           kept == [r \in Rows |-> IF r \in Alerts THEN 0 ELSE subs[s].view[r]]
           x == [Stream EXCEPT !.pc = "registered", !.status = known, !.view = kept]
<1>1. /\ subs' = [subs EXCEPT ![s] = x] /\ hub.ready
      /\ UNCHANGED <<clock, db, txns, writes, activity, hub, reading, sent, faults>>
  BY DEF Subscribe
<1>2. known \in Int /\ (s \in Watching => known = hub.status)
  BY DEF HubInv, TrackerInv, HubTypes, HubType
<1>a. kept \in [Rows -> Nat] /\ \A r \in Alerts : kept[r] = 0
  <2>1. subs[s].view \in [Rows -> Nat]
    BY DEF HubInv, TrackerInv, HubTypes, StreamType
  <2> QED BY <2>1 DEF Rows
<1> HIDE DEF known, kept
<1>3. /\ x \in StreamType /\ x.pc = "registered" /\ x.ch = <<>> /\ x.status = known
      /\ x.view = kept
  <2>1. <<>> \in Seq(Update)
    OBVIOUS
  <2> QED BY <1>2, <1>a, <2>1 DEF Stream, StreamType
<1> HIDE DEF x
<1>4. /\ subs' \in [Subs -> StreamType] /\ subs'[s] = x
      /\ \A o \in Subs \ {s} : subs'[o] = subs[o]
  BY <1>1, <1>3 DEF HubInv, TrackerInv, HubTypes
<1>5. Bounded(s)'
  BY <1>1, <1>a, <1>3, <1>4 DEF Bounded
<1>6. KnowsStatus(s)'
  BY <1>1, <1>2, <1>3, <1>4 DEF KnowsStatus, Says
<1>7. \A r \in Rows : KnowsRow(s, r)'
  BY <1>3, <1>4 DEF KnowsRow, Says
<1>8. faults' \in 0 .. MaxFaults
  BY <1>1 DEF HubInv, TrackerInv, HubTypes
<1> QED BY <1>1, <1>4, <1>5, <1>6, <1>7, <1>8, ServeStep DEF StreamOK

\* The snapshot lists every open storm.
LEMMA OpenListed ==
  ASSUME NEW storms \in ListSnapshotStormEvents
  PROVE  storms \subseteq Storms /\ \A r \in Storms : db[r].v # 0 /\ db[r].live => r \in storms
  BY DEF ListSnapshotStormEvents

LEMMA HubSendSnapshot ==
  ASSUME HubInv, NEW s \in Subs, SendSnapshot(s)
  PROVE  HubInv'
<1> USE HubAssumption
<1>0. PICK storms \in ListSnapshotStormEvents :
        subs' = [subs EXCEPT ![s].pc = "streaming", ![s].told = storms, ![s].view = Snapshot(s, storms)]
  BY DEF SendSnapshot
<1> DEFINE view == Snapshot(s, storms)
           x == [subs[s] EXCEPT !.pc = "streaming", !.told = storms, !.view = view]
<1>1. /\ subs[s].pc = "registered"
      /\ UNCHANGED <<clock, db, txns, writes, activity, hub, reading, sent, faults>>
  BY DEF SendSnapshot
<1>a. storms \subseteq Rows /\ \A r \in Storms : db[r].v # 0 /\ db[r].live => r \in storms
  BY OpenListed DEF Rows
<1>3. subs[s] \in StreamType /\ subs \in [Subs -> StreamType] /\ StreamOK(s)
  BY DEF HubInv, TrackerInv, HubTypes
<1>2. /\ view \in [Rows -> Nat]
      /\ \A r \in Rows : r \in storms \/ r \in Alerts =>
           view[r] = IF Visible(s, r) THEN applyUpdate(r, db[r]) ELSE 0
  <2>1. \A r \in Rows : applyUpdate(r, db[r]) \in Nat /\ subs[s].view[r] \in Nat
    <3>1. \A r \in Rows : db[r] \in Version
      BY DEF HubInv, TrackerInv, HubTypes
    <3> QED BY <1>3, <3>1, ShownIsNat DEF StreamType
  <2> QED BY <2>1 DEF Snapshot
<1>5. subs' = [subs EXCEPT ![s] = x]
  BY <1>0, <1>3 DEF StreamType
<1> HIDE DEF view
<1>4. /\ x \in StreamType /\ x.pc = "streaming" /\ x.ch = subs[s].ch /\ x.status = subs[s].status
      /\ x.gone = subs[s].gone /\ x.view = view /\ x.told = storms
  BY <1>2, <1>3, <1>a DEF StreamType
<1> HIDE DEF x
<1>6. /\ subs' \in [Subs -> StreamType] /\ subs'[s] = x
      /\ \A o \in Subs \ {s} : subs'[o] = subs[o]
  BY <1>3, <1>4, <1>5
<1>7. Bounded(s)'
  <2>1. s \notin Owners => \A r \in Alerts : view[r] = 0
    BY <1>2 DEF Visible, Rows
  <2> QED BY <1>1, <1>3, <1>4, <1>6, <2>1 DEF StreamOK, Bounded
<1>8. KnowsStatus(s)'
  BY <1>1, <1>3, <1>4, <1>6 DEF StreamOK, KnowsStatus, Live
<1>9. ASSUME NEW r \in Rows PROVE KnowsRow(s, r)'
  <2>1. Live(s)' => Live(s)
    BY <1>1, <1>4, <1>6 DEF Live
  <2>2. Pending(r)' <=> Pending(r)
    BY <1>1 DEF Pending, Unseen, since, isNew
  <2>3. ASSUME Owed(s, r)' PROVE view[r] = applyUpdate(r, db[r])
    <3>1. Visible(s, r) /\ (r \in Alerts \/ db[r].live \/ r \in storms)
      BY <1>1, <1>4, <1>6, <2>3 DEF Owed, Visible
    <3>2. r \in Alerts \/ r \in storms
      BY <1>a, <3>1 DEF Rows, HubInv, TrackerInv, Times
    <3> QED BY <1>2, <3>1, <3>2
  <2> DEFINE v == applyUpdate(r, db[r])
  <2>4. /\ db' = db /\ applyUpdate(r, db'[r]) = v
        /\ subs'[s].ch = subs[s].ch /\ subs'[s].view = view
        /\ Visible(s, r)' <=> Visible(s, r)
    BY <1>1, <1>4, <1>6 DEF Visible
  <2>5. Live(s) /\ Visible(s, r) /\ ~db[r].gone => Pending(r) \/ Says(subs[s].ch, r, v)
    BY <1>3 DEF StreamOK, KnowsRow
  <2>6. Owed(s, r)' => view[r] = v
    BY <2>3
  <2> HIDE DEF v
  <2> QED BY <2>1, <2>2, <2>4, <2>5, <2>6 DEF KnowsRow
<1>10. faults' \in 0 .. MaxFaults
  BY <1>1 DEF HubInv, TrackerInv, HubTypes
<1> QED BY <1>1, <1>6, <1>7, <1>8, <1>9, <1>10, ServeStep DEF StreamOK

LEMMA HubSendNext ==
  ASSUME HubInv, NEW s \in Subs, SendNext(s)
  PROVE  HubInv'
<1> USE HubAssumption
<1> DEFINE ch == subs[s].ch
           u == Head(ch)
           st == IF u.kind = "status" THEN u.v ELSE subs[s].status
           view == IF u.kind = "status" THEN subs[s].view ELSE [subs[s].view EXCEPT ![u.row] = u.v]
           told == IF u.kind = "status" THEN subs[s].told ELSE subs[s].told \cup {u.row}
           x == [subs[s] EXCEPT !.ch = Tail(ch), !.status = st, !.view = view, !.told = told]
<1>1. /\ subs[s].pc = "streaming" /\ ch # <<>>
      /\ subs' = IF u.kind = "status" THEN [subs EXCEPT ![s].ch = Tail(@), ![s].status = u.v]
                 ELSE [subs EXCEPT ![s].ch = Tail(@), ![s].view[u.row] = u.v,
                                   ![s].told = @ \cup {u.row}]
      /\ UNCHANGED <<clock, db, txns, writes, activity, hub, reading, sent, faults>>
  BY DEF SendNext
<1>2. subs[s] \in StreamType /\ subs \in [Subs -> StreamType] /\ StreamOK(s)
  BY DEF HubInv, TrackerInv, HubTypes
<1>3. /\ ch \in Seq(Update) /\ subs[s].view \in [Rows -> Nat] /\ subs[s].status \in Int
      /\ subs[s].told \subseteq Rows
  BY <1>2 DEF StreamType
<1>4. subs' = [subs EXCEPT ![s] = x]
  <2>1. CASE u.kind = "status"
    BY <1>1, <1>2, <2>1 DEF StreamType
  <2>2. CASE u.kind # "status"
    BY <1>1, <1>2, <2>2 DEF StreamType
  <2> QED BY <2>1, <2>2
<1> HIDE DEF ch
<1>5. /\ u \in Update /\ Tail(ch) \in Seq(Update) /\ Len(ch) \in Nat /\ Len(ch) >= 1
      /\ Len(Tail(ch)) = Len(ch) - 1 /\ \A i \in 1 .. Len(ch) - 1 : Tail(ch)[i] = ch[i + 1]
      /\ u = ch[1]
  BY <1>1, <1>3, HeadTailProperties, EmptySeq, LenProperties
<1>6. Routed(s, u) /\ \A i \in 1 .. Len(ch) : Routed(s, ch[i])
  BY <1>2, <1>5 DEF StreamOK, Bounded, ch
<1> HIDE DEF u
<1>7. u.v \in Nat /\ (u.kind # "status" => u.row \in Rows) /\ (u.kind = "status" <=> u.row = "status")
  BY <1>5, <1>6 DEF Update, Routed, Rows
<1>8. /\ st \in Int /\ view \in [Rows -> Nat] /\ told \subseteq Rows
      /\ \A r \in Rows : r \in told <=> u.row = r \/ r \in subs[s].told
      /\ u.row = "status" => st = u.v /\ view = subs[s].view
      /\ u.row # "status" => st = subs[s].status
      /\ \A r \in Rows : view[r] = IF u.row = r THEN u.v ELSE subs[s].view[r]
  BY <1>3, <1>7
<1> HIDE DEF st, view, told
<1>9. /\ x \in StreamType /\ x.pc = "streaming" /\ x.ch = Tail(ch) /\ x.status = st
      /\ x.gone = subs[s].gone /\ x.view = view /\ x.told = told
  BY <1>1, <1>2, <1>5, <1>8 DEF StreamType
<1> HIDE DEF x
<1>10. /\ subs' \in [Subs -> StreamType] /\ subs'[s] = x
       /\ \A o \in Subs \ {s} : subs'[o] = subs[o]
  BY <1>2, <1>4, <1>9
<1>11. Bounded(s)'
  <2>1. \A i \in 1 .. Len(Tail(ch)) : Routed(s, Tail(ch)[i])
    BY <1>5, <1>6
  <2>2. Len(ch) <= Buffer /\ hub.ready
    BY <1>1, <1>2 DEF StreamOK, Bounded, ch
  <2>3. s \notin Owners => \A r \in Alerts : view[r] = 0
    <3> SUFFICES ASSUME s \notin Owners, NEW r \in Alerts PROVE view[r] = 0
      OBVIOUS
    <3>1. subs[s].view[r] = 0 /\ r \in Rows
      BY <1>2 DEF StreamOK, Bounded, Rows
    <3>2. u.row # r
      BY <1>6, <3>1 DEF Routed
    <3> QED BY <1>8, <3>1, <3>2
  <2>4. Len(Tail(ch)) <= Buffer
    BY <1>5, <2>2
  <2>5. hub' = hub /\ subs'[s].ch = Tail(ch) /\ subs'[s].view = view
    BY <1>1, <1>9, <1>10
  <2> QED BY <2>1, <2>2, <2>3, <2>4, <2>5 DEF Bounded
<1>12. Live(s)' => Live(s)
  BY <1>1, <1>9, <1>10 DEF Live
<1>13. KnowsStatus(s)'
  <2> SUFFICES ASSUME Live(s), s \in Watching
               PROVE  Says(Tail(ch), "status", hub.status) /\ (Silent(Tail(ch), "status") => st = hub.status)
    BY <1>1, <1>9, <1>10, <1>12 DEF KnowsStatus
  <2>1. Says(ch, "status", hub.status) /\ (Silent(ch, "status") => subs[s].status = hub.status)
    BY <1>2 DEF StreamOK, KnowsStatus, ch
  <2>2. /\ Says(Tail(ch), "status", hub.status)
        /\ Silent(Tail(ch), "status") /\ u.row = "status" => u.v = hub.status
        /\ Silent(Tail(ch), "status") /\ u.row # "status" => Silent(ch, "status")
    BY <1>1, <1>3, <2>1, TailSays DEF u, ch
  <2> QED BY <1>8, <2>1, <2>2
<1>14. ASSUME NEW r \in Rows PROVE KnowsRow(s, r)'
  <2> DEFINE v == applyUpdate(r, db[r])
  <2>0. Owed(s, r)' => u.row = r \/ Owed(s, r)
    BY <1>1, <1>8, <1>9, <1>10 DEF Owed, Visible
  <2> SUFFICES ASSUME Live(s), Visible(s, r), ~db[r].gone, ~Pending(r)
               PROVE  /\ Says(Tail(ch), r, v)
                      /\ Silent(Tail(ch), r) /\ (u.row = r \/ Owed(s, r)) => view[r] = v
    BY <1>1, <1>9, <1>10, <1>12, <2>0 DEF KnowsRow, Visible, Pending, Unseen, since, isNew
  <2>1. Says(ch, r, v) /\ (Silent(ch, r) /\ Owed(s, r) => subs[s].view[r] = v)
    BY <1>1, <1>2 DEF StreamOK, KnowsRow, ch
  <2> HIDE DEF v
  <2>2. /\ Says(Tail(ch), r, v)
        /\ Silent(Tail(ch), r) /\ u.row = r => u.v = v
        /\ Silent(Tail(ch), r) /\ u.row # r => Silent(ch, r)
    BY <1>1, <1>3, <2>1, TailSays DEF u, ch
  <2> QED BY <1>8, <2>1, <2>2
<1>15. faults' \in 0 .. MaxFaults
  BY <1>1 DEF HubInv, TrackerInv, HubTypes
<1> QED BY <1>1, <1>10, <1>11, <1>13, <1>14, <1>15, ServeStep DEF StreamOK

\* A stream that is gone, for whatever reason.
LEMMA HubDisconnected ==
  ASSUME HubInv, NEW s \in Subs, subs' = [subs EXCEPT ![s] = Disconnected(subs[s])],
         faults' \in 0 .. MaxFaults,
         UNCHANGED <<clock, db, txns, writes, activity, hub, reading, sent>>
  PROVE  HubInv'
<1> USE HubAssumption
<1> DEFINE x == Disconnected(subs[s])
<1>1. subs[s] \in StreamType /\ subs \in [Subs -> StreamType] /\ StreamOK(s)
  BY DEF HubInv, TrackerInv, HubTypes
<1>2. x \in StreamType /\ x.pc = "off" /\ x.ch = <<>> /\ x.view = subs[s].view
  <2>1. subs[s].view \in [Rows -> Nat] /\ subs[s].status \in Int /\ <<>> \in Seq(Update)
    BY <1>1 DEF StreamType
  <2> QED BY <2>1 DEF Disconnected, Stream, StreamType
<1> HIDE DEF x
<1>3. /\ subs' \in [Subs -> StreamType] /\ subs'[s] = x
      /\ \A o \in Subs \ {s} : subs'[o] = subs[o]
  BY <1>1, <1>2 DEF x
<1>4. s \notin Owners => \A r \in Alerts : x.view[r] = 0
  BY <1>1, <1>2 DEF StreamOK, Bounded
<1>5. StreamOK(s)'
  BY <1>2, <1>3, <1>4 DEF StreamOK, Bounded, KnowsStatus, KnowsRow, Live
<1> QED BY <1>3, <1>5, ServeStep

LEMMA HubEndStream ==
  ASSUME HubInv, NEW s \in Subs, EndStream(s)
  PROVE  HubInv'
<1>1. faults' \in 0 .. MaxFaults
  BY DEF HubInv, TrackerInv, HubTypes, EndStream
<1> QED BY <1>1, HubDisconnected DEF EndStream

LEMMA HubLoseStream ==
  ASSUME HubInv, NEW s \in Subs, LoseStream(s)
  PROVE  HubInv'
<1>1. faults' \in 0 .. MaxFaults
  BY HubAssumption DEF HubInv, TrackerInv, HubTypes, LoseStream
<1> QED BY <1>1, HubDisconnected DEF LoseStream

\* Steps of writers and rounds that publish nothing.
LEMMA QuietStep ==
  ASSUME HubInv, TrackerInv', subs' = subs, db' = db,
         hub'.ready = hub.ready, hub'.status = hub.status, hub'.mark = hub.mark, hub'.seen = hub.seen
  PROVE  HubInv'
<1>1. \A s \in Subs : StreamOK(s)'
  BY StreamSame DEF HubInv
<1> QED BY <1>1 DEF HubInv

LEMMA HubStep ==
  ASSUME HubInv, [Next]_vars
  PROVE  HubInv'
<1>0. TrackerInv
  BY DEF HubInv
<1>1. CASE \E r \in Rows : BeginWrite(r)
  <2>1. subs' = subs /\ db' = db /\ hub' = hub
    BY <1>1 DEF BeginWrite
  <2> QED BY <1>0, <1>1, <2>1, TrackerBeginWrite, QuietStep
<1>2. CASE \E t \in txns, live \in BOOLEAN : CommitWrite(t, live)
  <2>1. PICK t \in txns, live \in BOOLEAN : CommitWrite(t, live)
    BY <1>2
  <2>2. CASE db[t.row].gone
    <3>1. subs' = subs /\ db' = db /\ hub' = hub
      BY <2>1, <2>2 DEF CommitWrite
    <3> QED BY <1>0, <2>1, <2>2, <3>1, TrackerCommitNothing, QuietStep
  <2>3. CASE ~db[t.row].gone
    BY <1>0, <2>1, <2>3, TrackerCommitWrite, StreamCommitWrite DEF HubInv
  <2> QED BY <2>2, <2>3
<1>9. CASE \E r \in Storms : DeleteStormEvent(r)
  BY <1>0, <1>9, TrackerDelete, StreamDelete DEF HubInv
<1>3. CASE StatusChanges
  <2>1. subs' = subs /\ db' = db /\ hub' = hub
    BY <1>3 DEF StatusChanges
  <2> QED BY <1>0, <1>3, <2>1, TrackerStatusChanges, QuietStep
<1>4. CASE Tick
  <2>1. subs' = subs /\ db' = db /\ hub' = hub
    BY <1>4 DEF Tick
  <2> QED BY <1>0, <1>4, <2>1, TrackerTick, QuietStep
<1>5. CASE RoundBegin \/ RoundFails \/ Shutdown
  <2>1. subs' = subs /\ db' = db
    BY <1>5 DEF RoundBegin, RoundFails, Shutdown
  <2>2. PICK pc \in {"idle", "reading", "stopped"} : hub' = [hub EXCEPT !.pc = pc]
    BY <1>5 DEF RoundBegin, RoundFails, Shutdown
  <2>3. /\ hub'.ready = hub.ready /\ hub'.status = hub.status
        /\ hub'.mark = hub.mark /\ hub'.seen = hub.seen
    BY <1>0, <2>2, HubPc DEF TrackerInv
  <2>4. TrackerInv'
    BY <1>0, <1>5, TrackerRoundBegin, TrackerRoundFails, TrackerShutdown
  <2> QED BY <2>1, <2>3, <2>4, QuietStep
<1>6. CASE RoundPublish
  <2>1. PICK storms \in Changes("storm"), alerts \in Changes("alert") :
          subs' = [s \in Subs |-> IF Registered(s) THEN deliver(subs[s], Updates(s, storms, alerts))
                                  ELSE subs[s]]
    BY <1>6 DEF RoundPublish
  <2>2. ASSUME NEW s \in Subs PROVE StreamOK(s)' /\ subs'[s] \in StreamType
    <3>1. subs'[s] = IF Registered(s) THEN deliver(subs[s], Updates(s, storms, alerts)) ELSE subs[s]
      BY <2>1
    <3> QED BY <1>0, <1>6, <3>1, StreamRoundPublish DEF HubInv
  <2>3. subs' \in [Subs -> StreamType]
    BY <2>1, <2>2
  <2> QED BY <1>0, <1>6, <2>2, <2>3, TrackerRoundPublish DEF HubInv
<1>7. CASE \E s \in Subs : Subscribe(s) \/ SendSnapshot(s) \/ SendNext(s)
                         \/ EndStream(s) \/ LoseStream(s)
  BY <1>7, HubSubscribe, HubSendSnapshot, HubSendNext, HubEndStream, HubLoseStream
<1>8. CASE UNCHANGED vars
  <2>1. /\ subs' = subs /\ db' = db /\ hub' = hub
        /\ UNCHANGED <<clock, db, txns, writes, activity, hub, reading, sent, faults>>
    BY <1>8 DEF vars
  <2>2. TrackerInv'
    <3>1. HubTypes'
      BY <1>0, <2>1 DEF TrackerInv, HubTypes
    <3> QED BY <1>0, <2>1, <3>1, TrackerSame
  <2> QED BY <2>1, <2>2, QuietStep
<1> QED BY <1>1, <1>2, <1>3, <1>4, <1>5, <1>6, <1>7, <1>8, <1>9 DEF Next

LEMMA HubAlways == Spec => []HubInv
<1>1. Init => HubInv
  BY TrackerInit
<1>2. HubInv /\ [Next]_vars => HubInv'
  BY HubStep
<1> QED BY <1>1, <1>2, PTL DEF Spec

\* With nothing left to publish, a stream with an empty queue is up to date.
LEMMA InvConverges == HubInv => ClientsConverge
<1> SUFFICES ASSUME HubInv, CaughtUp, NEW s \in Subs,
                    subs[s].pc = "streaming", ~subs[s].gone, subs[s].ch = <<>>
             PROVE  UpToDate(s)
  BY DEF ClientsConverge
<1>1. hub.pc = "idle" /\ hub.ready /\ reading.rows = db /\ reading.activity = activity
  BY DEF CaughtUp
<1>2. Live(s) /\ \A k : Silent(subs[s].ch, k)
  BY DEF Live, Silent
<1>3. s \in Watching => subs[s].status = activity
  <2>1. hub.status = activity
    <3>1. activity \in Nat /\ hub.status \in Int
      BY DEF HubInv, TrackerInv, HubTypes, HubType
    <3> QED BY <1>1, <3>1 DEF HubInv, TrackerInv, StatusKnown
  <2> QED BY <1>2, <2>1 DEF HubInv, StreamOK, KnowsStatus
<1>4. ASSUME NEW r \in Rows, Owed(s, r) PROVE subs[s].view[r] = applyUpdate(r, db[r])
  <2>1. ~Pending(r)
    BY <1>1 DEF HubInv, TrackerInv, Published, Pending
  <2>2. Visible(s, r) /\ ~db[r].gone
    BY <1>4 DEF Owed
  <2> QED BY <1>2, <1>4, <2>1, <2>2 DEF HubInv, StreamOK, KnowsRow
<1> QED BY <1>3, <1>4 DEF UpToDate

LEMMA InvPrivate == HubInv => AlertsOnlyToOwners
  BY DEF HubInv, StreamOK, Bounded, Routed, AlertsOnlyToOwners

LEMMA InvTypeOK == HubInv => TypeOK
<1> SUFFICES ASSUME HubInv PROVE TypeOK
  OBVIOUS
<1> USE HubAssumption
<1>1. clock \in Overlap + 1 .. MaxTime /\ faults \in 0 .. MaxFaults
  BY DEF HubInv, TrackerInv, HubTypes
<1>2. hub.mark \in [Kinds -> 0 .. MaxTime]
  <2>1. hub.mark \in [Kinds -> Nat] /\ \A k \in Kinds : hub.mark[k] <= clock
    BY DEF HubInv, TrackerInv, HubTypes, HubType, Times
  <2>2. \A k \in Kinds : hub.mark[k] \in 0 .. MaxTime
    BY <1>1, <2>1
  <2> QED BY <2>1, <2>2
<1>3. \A s \in Subs : Len(subs[s].ch) <= Buffer /\ subs[s].pc \in {"off", "registered", "streaming"}
  BY DEF HubInv, TrackerInv, HubTypes, StreamType, StreamOK, Bounded
<1> QED BY <1>1, <1>2, <1>3 DEF TypeOK

(* What Serve and publish show, for any rows, subscribers, filters, queue  *)
(* size, snapshot limit and overlap longer than the writers' transactions: *)
(* queues within their bound; once the hub has caught up, clients that are *)
(* neither dropped nor behind with the current status, their unresolved    *)
(* alerts and no other, every open storm and the current version of every  *)
(* storm their connection sent that was not deleted; and alerts with their *)
(* owners.  A deleted storm stays with the clients that were sent it.       *)
THEOREM WatchersAlwaysRight == Spec => []WatchersRight
<1>1. HubInv => WatchersRight
  BY InvTypeOK, InvConverges, InvPrivate DEF WatchersRight
<1> QED BY <1>1, HubAlways, PTL

(* The change tracker publishes a row version once, although every round   *)
(* looks back over the overlap and forgets what fell behind it.            *)
THEOREM VersionsPublishedOnce == Spec => OneDeliveryPerVersion
<1>1. HubInv /\ [Next]_vars =>
        [RoundPublish => \A r \in ChangedRows : <<r, reading.rows[r].v>> \notin sent]_vars
  <2> SUFFICES ASSUME HubInv, RoundPublish, NEW r \in ChangedRows
               PROVE  <<r, reading.rows[r].v>> \notin sent
    OBVIOUS
  <2>1. r \in Rows /\ Unseen(r, reading.rows[r]) /\ hub.pc = "reading"
    BY ChangedIsUnseen DEF HubInv, TrackerInv, RoundPublish
  <2> QED BY <2>1 DEF HubInv, TrackerInv, Published
<1> QED BY <1>1, HubAlways, PTL DEF Spec, OneDeliveryPerVersion

=============================================================================
