------------------------- MODULE AlertLifecycleProofs -------------------------
(***************************************************************************)
(* Proofs about AlertLifecycle.  The inductive invariant adds to the       *)
(* stated properties what the notifier relies on between listing, sending  *)
(* and marking: a listed row is still due when it is marked, since no one  *)
(* else writes its notification columns once the row is resolved.          *)
(***************************************************************************)
EXTENDS AlertLifecycle, TLAPS

(* What is true of every row of the table.                                 *)
RowOK(c, a) ==
  /\ IsOpen(a) \/ a.raised <= a.resolved
  /\ a.notify = "pending" => a.attempts = 0
  /\ a.resolveNotify = "pending" => a.resolveAttempts = 0
  /\ a.resolveNotify # "none" => ~IsOpen(a) /\ WantsResolve(c) /\ a.notify # "suppressed"
  /\ a.resolveNotify = "none" => a.resolveAttempts = 0

RowsOK == \A c \in Codes : \A n \in DOMAIN alerts[c] : RowOK(c, alerts[c][n])

InRound == queue \cup (IF sending = <<>> THEN {} ELSE {sending[1]})

(* What the notifier has listed is still due.                              *)
RoundOK ==
  /\ round = "idle" => queue = {} /\ sending = <<>>
  /\ sending # <<>> => sending[1] \notin queue
  /\ round = "raises" => \A id \in InRound : Row(id).notify \in {"pending", "failed"}
                                               /\ Row(id).attempts < MaxAttempts
  /\ round = "resolves" => \A id \in InRound : Row(id).resolveNotify \in {"pending", "failed"}
                                                 /\ Row(id).resolveAttempts < MaxAttempts
  /\ sending # <<>> /\ sending[2] = "sent" => <<sending[1], Event>> \in mailbox

(* The inductive invariant.                                                *)
IInv == TypeOK /\ OneOpen /\ RowsOK /\ RoundOK /\ SentMeansArrived /\ MailsJustified

-----------------------------------------------------------------------------
(* How the engine, the clock and Acknowledge may change the table: a row   *)
(* keeps its notification columns, a resolved row also its event times,    *)
(* and a row is added only where none is open.                             *)
Keeps(a, b) ==
  /\ b.notify = a.notify /\ b.attempts = a.attempts
  /\ IsOpen(b) => IsOpen(a)
  /\ ~IsOpen(a) => /\ b.resolved = a.resolved /\ b.raised = a.raised
                   /\ b.resolveNotify = a.resolveNotify /\ b.resolveAttempts = a.resolveAttempts
  /\ IsOpen(a) => b.resolveNotify \in {"none", "pending"}

Fresh(a) == a.notify \in {"pending", "suppressed"} /\ a.resolveNotify = "none"

RowsStep(c, old, new) ==
  /\ new \in Seq(Alert)
  /\ DOMAIN old \subseteq DOMAIN new
  /\ \A n \in DOMAIN old : Keeps(old[n], new[n]) /\ RowOK(c, new[n])
  /\ \A n \in DOMAIN new \ DOMAIN old :
       /\ n = Len(old) + 1 /\ RowOK(c, new[n]) /\ Fresh(new[n])
       /\ \A m \in DOMAIN old : ~IsOpen(old[m])

LEMMA AlertFields ==
  ASSUME NEW a \in Alert
  PROVE  /\ a.raised \in 0 .. MaxTime /\ a.resolved \in NotYet .. MaxTime
         /\ a.notify \in {"pending", "sent", "suppressed", "failed"}
         /\ a.attempts \in 0 .. MaxAttempts /\ a.notified \in 0 .. Cooldown
         /\ a.resolveNotify \in {"none", "pending", "sent", "failed"}
         /\ a.resolveAttempts \in 0 .. MaxAttempts /\ a.updated \in 0 .. Retry + 1
         /\ a.acked \in NotYet .. MaxTime
BY DEF Alert

(* The single-row updates of the engine.                                   *)
LEMMA TouchedRow ==
  ASSUME NEW c \in Codes, NEW a \in Alert, NEW at \in 0 .. MaxTime, RowOK(c, a), IsOpen(a)
  PROVE  Touched(a, at) \in Alert /\ Keeps(a, Touched(a, at)) /\ RowOK(c, Touched(a, at))
<1>1. Touched(a, at) \in Alert
  <2> DEFINE r == IF at < a.raised THEN at ELSE a.raised
  <2>1. r \in 0 .. MaxTime
    BY AlertFields
  <2>2. 0 \in 0 .. Retry + 1
    BY TimesAssumption
  <2>3. Touched(a, at) = [a EXCEPT !.raised = r, !.updated = 0]
    BY DEF Touched
  <2> HIDE DEF r
  <2> QED BY <2>1, <2>2, <2>3 DEF Alert
<1>2. Keeps(a, Touched(a, at))
  BY AlertFields DEF Touched, Alert, Keeps, IsOpen, NotYet, RowOK
<1>3. RowOK(c, Touched(a, at))
  BY AlertFields DEF Touched, Alert, RowOK, IsOpen
<1> QED BY <1>1, <1>2, <1>3

LEMMA ClosedRow ==
  ASSUME NEW c \in Codes, NEW a \in Alert, NEW at \in 0 .. MaxTime, RowOK(c, a), Resolves(a, at)
  PROVE  Closed(c, a, at) \in Alert /\ Keeps(a, Closed(c, a, at)) /\ RowOK(c, Closed(c, a, at))
<1>1. Closed(c, a, at) \in Alert
  <2>1. at \in NotYet .. MaxTime
    BY TimesAssumption DEF NotYet
  <2>2. 0 \in 0 .. Retry + 1
    BY TimesAssumption
  <2>3. ResolveMail(c, a) \in {"none", "pending"}
    BY DEF ResolveMail
  <2> QED BY <2>1, <2>2, <2>3 DEF Alert, Closed
<1>2. Keeps(a, Closed(c, a, at))
  BY AlertFields DEF Closed, ResolveMail, Resolves, Alert, Keeps, IsOpen, NotYet
<1>3. RowOK(c, Closed(c, a, at))
  BY AlertFields DEF Closed, ResolveMail, Resolves, Alert, RowOK, IsOpen, NotYet
<1> QED BY <1>1, <1>2, <1>3

LEMMA NewRow ==
  ASSUME NEW c \in Codes, NEW at \in 0 .. MaxTime
  PROVE  NewAlert(c, at) \in Alert /\ RowOK(c, NewAlert(c, at)) /\ Fresh(NewAlert(c, at))
BY TimesAssumption, BoundsAssumption
   DEF NewAlert, FirstNotify, Alert, RowOK, IsOpen, NotYet, Fresh

LEMMA AgedRow ==
  ASSUME NEW c \in Codes, NEW a \in Alert, RowOK(c, a)
  PROVE  Aged(a) \in Alert /\ Keeps(a, Aged(a)) /\ RowOK(c, Aged(a))
<1>1. Aged(a) \in Alert
  <2>1. Older(a.updated, Retry + 1) \in 0 .. Retry + 1
    BY AlertFields, TimesAssumption DEF Older
  <2>2. Older(a.notified, Cooldown) \in 0 .. Cooldown
    BY AlertFields, TimesAssumption DEF Older
  <2> QED BY <2>1, <2>2 DEF Alert, Aged
<1>2. Keeps(a, Aged(a)) /\ RowOK(c, Aged(a))
  BY AlertFields DEF Aged, Alert, Keeps, RowOK, IsOpen, NotYet
<1> QED BY <1>1, <1>2

LEMMA AckedRow ==
  ASSUME NEW c \in Codes, NEW a \in Alert, RowOK(c, a), now \in 0 .. MaxTime
  PROVE  Acked(a) \in Alert /\ Keeps(a, Acked(a)) /\ RowOK(c, Acked(a))
<1>1. Acked(a) \in Alert
  <2> DEFINE t == IF a.acked = NotYet THEN now ELSE a.acked
  <2>1. t \in NotYet .. MaxTime
    BY AlertFields, TimesAssumption DEF NotYet
  <2>2. 0 \in 0 .. Retry + 1
    BY TimesAssumption
  <2>3. Acked(a) = [a EXCEPT !.acked = t, !.updated = 0]
    BY DEF Acked
  <2> HIDE DEF t
  <2> QED BY <2>1, <2>2, <2>3 DEF Alert
<1>2. Keeps(a, Acked(a)) /\ RowOK(c, Acked(a))
  BY AlertFields DEF Acked, Alert, Keeps, RowOK, IsOpen, NotYet
<1> QED BY <1>1, <1>2

(* The updates of one code's rows.                                         *)
LEMMA SameRows ==
  ASSUME NEW c \in Codes, TypeOK, RowsOK
  PROVE  RowsStep(c, alerts[c], alerts[c])
BY AlertFields DEF TypeOK, RowsOK, RowsStep, Keeps, RowOK

LEMMA MappedRows ==
  ASSUME NEW c \in Codes, TypeOK, NEW new, DOMAIN new = DOMAIN alerts[c],
         new = [n \in DOMAIN alerts[c] |-> new[n]],
         \A n \in DOMAIN alerts[c] :
           new[n] \in Alert /\ Keeps(alerts[c][n], new[n]) /\ RowOK(c, new[n])
  PROVE  RowsStep(c, alerts[c], new)
<1>1. alerts[c] \in Seq(Alert)
  BY DEF TypeOK
<1>2. new \in Seq(Alert)
  BY <1>1
<1> QED BY <1>1, <1>2 DEF RowsStep

LEMMA RaisedRows ==
  ASSUME NEW c \in Codes, NEW at \in 0 .. MaxTime, TypeOK, RowsOK
  PROVE  RowsStep(c, alerts[c], Raised(c, at))
<1>1. alerts[c] \in Seq(Alert) /\ \A n \in DOMAIN alerts[c] : alerts[c][n] \in Alert /\ RowOK(c, alerts[c][n])
  BY DEF TypeOK, RowsOK
<1>2. CASE OpenRows(c) = {}
  <2>1. Raised(c, at) = Append(alerts[c], NewAlert(c, at))
    BY <1>2 DEF Raised
  <2>2. \A m \in DOMAIN alerts[c] : ~IsOpen(alerts[c][m])
    BY <1>2 DEF OpenRows
  <2>3. \A n \in DOMAIN alerts[c] : Keeps(alerts[c][n], alerts[c][n]) /\ RowOK(c, alerts[c][n])
    BY <1>1, <2>2 DEF Keeps
  <2> HIDE DEF NewAlert
  <2> QED BY <1>1, <2>1, <2>2, <2>3, NewRow DEF RowsStep
<1>3. CASE OpenRows(c) # {}
  <2> DEFINE new == [n \in DOMAIN alerts[c] |->
                       IF n \in OpenRows(c) THEN Touched(alerts[c][n], at) ELSE alerts[c][n]]
  <2>1. Raised(c, at) = new
    BY <1>3 DEF Raised
  <2>2. ASSUME NEW n \in DOMAIN alerts[c]
        PROVE  new[n] \in Alert /\ Keeps(alerts[c][n], new[n]) /\ RowOK(c, new[n])
    <3>1. CASE n \in OpenRows(c)
      BY <1>1, <3>1, TouchedRow DEF OpenRows
    <3>2. CASE n \notin OpenRows(c)
      BY <1>1, <3>2 DEF OpenRows, Keeps
    <3> QED BY <3>1, <3>2
  <2>3. RowsStep(c, alerts[c], new)
    BY <2>2, MappedRows
  <2> QED BY <2>1, <2>3
<1> QED BY <1>2, <1>3

LEMMA ResolvedRows ==
  ASSUME NEW c \in Codes, NEW at \in 0 .. MaxTime, TypeOK, RowsOK
  PROVE  RowsStep(c, alerts[c], Resolved(c, at))
<1>1. alerts[c] \in Seq(Alert) /\ \A n \in DOMAIN alerts[c] : alerts[c][n] \in Alert /\ RowOK(c, alerts[c][n])
  BY DEF TypeOK, RowsOK
<1>2. ASSUME NEW n \in DOMAIN alerts[c]
      PROVE  /\ Resolved(c, at)[n] \in Alert
             /\ Keeps(alerts[c][n], Resolved(c, at)[n]) /\ RowOK(c, Resolved(c, at)[n])
  <2>1. CASE Resolves(alerts[c][n], at)
    BY <1>1, <2>1, ClosedRow DEF Resolved
  <2>2. CASE ~Resolves(alerts[c][n], at)
    <3>1. Resolved(c, at)[n] = alerts[c][n]
      BY <2>2 DEF Resolved
    <3>2. Keeps(alerts[c][n], alerts[c][n])
      BY <1>1, AlertFields DEF Keeps, RowOK
    <3> QED BY <1>1, <3>1, <3>2
  <2> QED BY <2>1, <2>2
<1>3. /\ DOMAIN Resolved(c, at) = DOMAIN alerts[c]
      /\ Resolved(c, at) = [n \in DOMAIN alerts[c] |-> Resolved(c, at)[n]]
  BY DEF Resolved
<1> HIDE DEF Resolved
<1> QED BY <1>2, <1>3, MappedRows

-----------------------------------------------------------------------------
TableStep == \A c \in Codes : RowsStep(c, alerts[c], alerts'[c])

(* A step that changes the table in this way and leaves the notifier alone *)
(* keeps the invariant.                                                    *)
LEMMA QuietStep ==
  ASSUME IInv, TableStep, alerts' \in [Codes -> Seq(Alert)],
         now' \in 0 .. MaxTime, lastSeen' \in 0 .. MaxTime, inputs' \in 0 .. MaxInputs,
         UNCHANGED <<notifier, mailbox>>
  PROVE  IInv'
<1> USE DEF IInv
<1>0. UNCHANGED <<round, queue, sending, mailbox>>
  BY DEF notifier
<1>1. ASSUME NEW id \in Existing
      PROVE  /\ id \in Existing' /\ Keeps(Row(id), Row(id)')
             /\ Row(id)' \in Alert /\ RowOK(id[1], Row(id)') /\ RowOK(id[1], Row(id)) /\ id[1] \in Codes
  <2>0. PICK c \in Codes : \E n \in DOMAIN alerts[c] : id = <<c, n>>
    BY DEF Existing
  <2>1. PICK n \in DOMAIN alerts[c] : id = <<c, n>>
    BY <2>0
  <2>2. RowsStep(c, alerts[c], alerts'[c])
    BY DEF TableStep
  <2>3. n \in DOMAIN alerts'[c] /\ Keeps(alerts[c][n], alerts'[c][n]) /\ RowOK(c, alerts'[c][n])
    BY <2>2 DEF RowsStep
  <2>4. id \in Existing'
    BY <2>1, <2>3 DEF Existing
  <2>5. alerts'[c][n] \in Alert
    BY <2>3
  <2>6. RowOK(c, alerts[c][n])
    BY DEF RowsOK
  <2> QED BY <2>1, <2>3, <2>4, <2>5, <2>6 DEF Row
<1>2. TypeOK'
  BY <1>0, <1>1 DEF TypeOK
<1>3. OneOpen'
  <2>1. SUFFICES ASSUME NEW c \in Codes, NEW m \in DOMAIN alerts'[c], NEW n \in DOMAIN alerts'[c],
                        IsOpen(alerts'[c][m]), IsOpen(alerts'[c][n])
                 PROVE  m = n
    BY DEF OneOpen, OpenRows
  <2>2. RowsStep(c, alerts[c], alerts'[c])
    BY DEF TableStep
  <2>3. CASE m \in DOMAIN alerts[c] /\ n \in DOMAIN alerts[c]
    BY <2>1, <2>2, <2>3 DEF RowsStep, Keeps, OneOpen, OpenRows
  <2>4. CASE m \notin DOMAIN alerts[c]
    BY <2>1, <2>2, <2>4 DEF RowsStep, Keeps
  <2>5. CASE n \notin DOMAIN alerts[c]
    BY <2>1, <2>2, <2>5 DEF RowsStep, Keeps
  <2> QED BY <2>3, <2>4, <2>5
<1>4. RowsOK'
  <2>1. SUFFICES ASSUME NEW c \in Codes, NEW n \in DOMAIN alerts'[c]
                 PROVE  RowOK(c, alerts'[c][n])
    BY DEF RowsOK, RowOK, IsOpen
  <2> QED BY DEF TableStep, RowsStep
<1>5. RoundOK'
  <2>1. InRound' = InRound /\ Event' = Event /\ InRound \subseteq Existing
    BY <1>0 DEF InRound, Event, TypeOK
  <2>2. ASSUME NEW id \in InRound, round = "raises"
        PROVE  Row(id)'.notify \in {"pending", "failed"} /\ Row(id)'.attempts < MaxAttempts
    BY <1>1, <2>1, <2>2 DEF RoundOK, Keeps
  <2>3. ASSUME NEW id \in InRound, round = "resolves"
        PROVE  Row(id)'.resolveNotify \in {"pending", "failed"} /\ Row(id)'.resolveAttempts < MaxAttempts
    BY <1>1, <2>1, <2>3 DEF RoundOK, Keeps, RowOK
  <2> QED BY <1>0, <2>1, <2>2, <2>3 DEF RoundOK
<1>6. SentMeansArrived'
  <2>1. SUFFICES ASSUME NEW id \in Existing'
                 PROVE  /\ Row(id)'.notify = "sent" => <<id, "raised">> \in mailbox
                        /\ Row(id)'.resolveNotify = "sent" => <<id, "resolved">> \in mailbox
    BY <1>0 DEF SentMeansArrived
  <2>2. CASE id \in Existing
    BY <1>1, <2>2 DEF SentMeansArrived, Keeps
  <2>3. CASE id \notin Existing
    <3>0. PICK c \in Codes : \E n \in DOMAIN alerts'[c] : id = <<c, n>>
      BY DEF Existing
    <3>1. PICK n \in DOMAIN alerts'[c] : id = <<c, n>>
      BY <3>0
    <3>2. n \notin DOMAIN alerts[c]
      BY <2>3, <3>1 DEF Existing
    <3>3. Fresh(alerts'[c][n])
      BY <3>2 DEF TableStep, RowsStep
    <3> QED BY <3>1, <3>3 DEF Fresh, Row
  <2> QED BY <2>2, <2>3
<1>7. MailsJustified'
  <2>1. SUFFICES ASSUME NEW m \in mailbox
                 PROVE  /\ Row(m[1])'.notify # "suppressed"
                        /\ m[2] = "resolved" => ~IsOpen(Row(m[1])') /\ WantsResolve(m[1][1])
    BY <1>0 DEF MailsJustified, WantsResolve, IsOpen
  <2>2. m[1] \in Existing
    BY DEF TypeOK
  <2> QED BY <1>1, <2>2 DEF MailsJustified, Keeps
<1> QED BY <1>2, <1>3, <1>4, <1>5, <1>6, <1>7

(* The engine, the clock, ingest and Acknowledge step the table this way.  *)
Quiet ==
  \/ Tick
  \/ \E at \in 0 .. now : Report(at)
  \/ Engine
  \/ \E id \in Existing : Acknowledge(id)

LEMMA HandlesStep ==
  ASSUME IInv, NEW up, NEW down, NEW at \in 0 .. lastSeen, Handles(up, down, at)
  PROVE  TableStep /\ alerts' \in [Codes -> Seq(Alert)] /\ IInv'
<1> USE DEF IInv
<1>1. at \in 0 .. MaxTime
  BY TimesAssumption DEF TypeOK
<1>2. ASSUME NEW c \in Codes PROVE RowsStep(c, alerts[c], alerts'[c])
  <2>1. CASE c \in up
    BY <1>1, <2>1, RaisedRows DEF Handles
  <2>2. CASE c \notin up /\ c \in down
    BY <1>1, <2>2, ResolvedRows DEF Handles
  <2>3. CASE c \notin up /\ c \notin down
    BY <2>3, SameRows DEF Handles
  <2> QED BY <2>1, <2>2, <2>3
<1>3. alerts' \in [Codes -> Seq(Alert)]
  BY <1>2 DEF RowsStep, Handles
<1>4. TableStep
  BY <1>2 DEF TableStep
<1>5. inputs' \in 0 .. MaxInputs /\ now' = now /\ lastSeen' = lastSeen /\ UNCHANGED <<notifier, mailbox>>
  BY BoundsAssumption DEF Handles, UsesInput, TypeOK
<1> QED BY <1>3, <1>4, <1>5, QuietStep DEF TypeOK

LEMMA QuietKeeps ==
  ASSUME IInv, Quiet
  PROVE  TableStep /\ IInv'
<1> USE DEF IInv
<1>1. CASE Tick
  <2>1. ASSUME NEW c \in Codes PROVE RowsStep(c, alerts[c], alerts'[c])
    <3>1. alerts'[c] = [n \in DOMAIN alerts[c] |-> Aged(alerts[c][n])]
      BY <1>1 DEF Tick
    <3>2. \A n \in DOMAIN alerts[c] : alerts[c][n] \in Alert /\ RowOK(c, alerts[c][n])
      BY DEF TypeOK, RowsOK
    <3>3. \A n \in DOMAIN alerts[c] :
            /\ alerts'[c][n] \in Alert
            /\ Keeps(alerts[c][n], alerts'[c][n]) /\ RowOK(c, alerts'[c][n])
      BY <3>1, <3>2, AgedRow
    <3>4. DOMAIN alerts'[c] = DOMAIN alerts[c] /\ alerts'[c] = [n \in DOMAIN alerts[c] |-> alerts'[c][n]]
      BY <3>1
    <3> QED BY <3>3, <3>4, MappedRows
  <2>2. TableStep /\ alerts' \in [Codes -> Seq(Alert)]
    BY <1>1, <2>1 DEF TableStep, RowsStep, Tick
  <2>3. now' \in 0 .. MaxTime /\ lastSeen' = lastSeen /\ inputs' = inputs /\ UNCHANGED <<notifier, mailbox>>
    BY <1>1, TimesAssumption DEF Tick, Older, TypeOK
  <2> QED BY <2>2, <2>3, QuietStep DEF TypeOK
<1>2. CASE \E at \in 0 .. now : Report(at)
  <2>1. alerts' = alerts /\ now' = now /\ inputs' = inputs /\ UNCHANGED <<notifier, mailbox>>
    BY <1>2 DEF Report
  <2>2. lastSeen' \in 0 .. MaxTime
    BY <1>2, TimesAssumption DEF Report, TypeOK
  <2>3. TableStep
    BY <2>1, SameRows DEF TableStep
  <2> QED BY <2>1, <2>2, <2>3, QuietStep DEF TypeOK
<1>3. CASE Engine
  <2>1. CASE \E c \in AlarmCodes, at \in 0 .. lastSeen : HandleAlarm(c, at)
    BY <2>1, HandlesStep DEF HandleAlarm
  <2>2. CASE \E r \in Readings, at \in 0 .. lastSeen : HandleReading(r, at)
    BY <2>2, HandlesStep DEF HandleReading
  <2>3. CASE \E c \in DetectionCodes, clear \in BOOLEAN, at \in 0 .. lastSeen : HandleDetection(c, clear, at)
    BY <2>3, HandlesStep DEF HandleDetection
  <2>4. CASE Sweep
    <3>1. \A c \in Codes : alerts'[c] = IF c = OFFLINE THEN Raised(c, now) ELSE alerts[c]
      BY <2>4 DEF Sweep, TypeOK
    <3>2. ASSUME NEW c \in Codes PROVE RowsStep(c, alerts[c], alerts'[c])
      BY <3>1, RaisedRows, SameRows DEF TypeOK
    <3>3. TableStep /\ alerts' \in [Codes -> Seq(Alert)]
      BY <2>4, <3>2 DEF TableStep, RowsStep, Sweep, TypeOK
    <3>4. now' = now /\ lastSeen' = lastSeen /\ inputs' = inputs /\ UNCHANGED <<notifier, mailbox>>
      BY <2>4 DEF Sweep
    <3> QED BY <3>3, <3>4, QuietStep DEF TypeOK
  <2> QED BY <1>3, <2>1, <2>2, <2>3, <2>4 DEF Engine
<1>4. CASE \E id \in Existing : Acknowledge(id)
  <2>1. PICK id \in Existing : Acknowledge(id)
    BY <1>4
  <2>2. PICK c \in Codes : \E n \in DOMAIN alerts[c] : id = <<c, n>>
    BY DEF Existing
  <2>3. PICK n \in DOMAIN alerts[c] : id = <<c, n>>
    BY <2>2
  <2>4. alerts' = [alerts EXCEPT ![c] = [alerts[c] EXCEPT ![n] = Acked(alerts[c][n])]]
    BY <2>1, <2>3 DEF Acknowledge
  <2>5. ASSUME NEW d \in Codes PROVE RowsStep(d, alerts[d], alerts'[d])
    <3>1. CASE d = c
      <4>1. alerts'[c] = [alerts[c] EXCEPT ![n] = Acked(alerts[c][n])]
        BY <2>4 DEF TypeOK
      <4>2. \A m \in DOMAIN alerts[c] : alerts[c][m] \in Alert /\ RowOK(c, alerts[c][m])
        BY DEF TypeOK, RowsOK
      <4>3. \A m \in DOMAIN alerts[c] : Keeps(alerts[c][m], alerts[c][m])
        BY SameRows DEF RowsStep
      <4>4. /\ Acked(alerts[c][n]) \in Alert /\ Keeps(alerts[c][n], Acked(alerts[c][n]))
            /\ RowOK(c, Acked(alerts[c][n]))
        BY <4>2, AckedRow DEF TypeOK
      <4>5. \A m \in DOMAIN alerts[c] : alerts'[c][m] = IF m = n THEN Acked(alerts[c][n]) ELSE alerts[c][m]
        BY <4>1
      <4>6. DOMAIN alerts'[c] = DOMAIN alerts[c] /\ alerts'[c] = [m \in DOMAIN alerts[c] |-> alerts'[c][m]]
        BY <4>1
      <4>7. RowsStep(c, alerts[c], alerts'[c])
        BY <4>2, <4>3, <4>4, <4>5, <4>6, MappedRows
      <4> QED BY <3>1, <4>7
    <3>2. CASE d # c
      BY <2>4, <3>2, SameRows DEF TypeOK
    <3> QED BY <3>1, <3>2
  <2>6. TableStep /\ alerts' \in [Codes -> Seq(Alert)]
    BY <2>4, <2>5 DEF TableStep, RowsStep, TypeOK
  <2>7. inputs' \in 0 .. MaxInputs /\ now' = now /\ lastSeen' = lastSeen /\ UNCHANGED <<notifier, mailbox>>
    BY <2>1, BoundsAssumption DEF Acknowledge, UsesInput, TypeOK
  <2> QED BY <2>6, <2>7, QuietStep DEF TypeOK
<1> QED BY <1>1, <1>2, <1>3, <1>4 DEF Quiet

-----------------------------------------------------------------------------
(* The notifier's steps other than Mark leave the table alone.             *)
LEMMA SameTable ==
  ASSUME IInv, alerts' = alerts
  PROVE  /\ Existing' = Existing /\ \A id \in Existing : Row(id)' = Row(id)
         /\ OneOpen' /\ RowsOK' /\ TableStep
<1>1. Existing' = Existing /\ \A id \in Existing : Row(id)' = Row(id)
  BY DEF Existing, Row
<1>2. OneOpen' /\ RowsOK'
  BY DEF IInv, OneOpen, OpenRows, RowsOK, RowOK, IsOpen, WantsResolve
<1>3. TableStep
  BY SameRows DEF TableStep, IInv
<1> QED BY <1>1, <1>2, <1>3

LEMMA ExistingRow ==
  ASSUME IInv, NEW id \in Existing
  PROVE  /\ id[1] \in Codes /\ id[2] \in DOMAIN alerts[id[1]] /\ id = <<id[1], id[2]>>
         /\ Row(id) \in Alert /\ RowOK(id[1], Row(id))
<1>1. PICK c \in Codes : \E n \in DOMAIN alerts[c] : id = <<c, n>>
  BY DEF Existing
<1>2. PICK n \in DOMAIN alerts[c] : id = <<c, n>>
  BY <1>1
<1>3. alerts[c][n] \in Alert /\ RowOK(c, alerts[c][n])
  BY DEF IInv, TypeOK, RowsOK
<1> QED BY <1>2, <1>3 DEF Row

LEMMA ListStep ==
  ASSUME IInv, ListRaises \/ ListResolves
  PROVE  IInv'
<1> USE DEF IInv
<1>1. alerts' = alerts /\ mailbox' = mailbox /\ sending' = <<>> /\ sending = <<>>
  BY DEF ListRaises, ListResolves, RoundOK
<1>2. queue' \subseteq Existing /\ now' = now /\ lastSeen' = lastSeen /\ inputs' = inputs
  BY DEF ListRaises, ListResolves, PendingRaises, PendingResolves
<1>3. InRound' = queue'
  BY <1>1 DEF InRound
<1>4. TypeOK'
  BY <1>1, <1>2, SameTable DEF TypeOK, ListRaises, ListResolves
<1>5. RoundOK'
  <2>1. CASE ListRaises
    <3>1. \A id \in queue' : Row(id)'.notify \in {"pending", "failed"} /\ Row(id)'.attempts < MaxAttempts
      <4>1. SUFFICES ASSUME NEW id \in PendingRaises
                     PROVE  Row(id).notify \in {"pending", "failed"} /\ Row(id).attempts < MaxAttempts
        BY <1>1, <1>2, <2>1, SameTable DEF ListRaises
      <4>2. id \in Existing /\ Due(Row(id).notify, Row(id).attempts, Row(id).updated)
        BY DEF PendingRaises
      <4> QED BY <4>2, ExistingRow, BoundsAssumption DEF Due, RowOK
    <3> QED BY <1>1, <1>3, <2>1, <3>1 DEF RoundOK, ListRaises
  <2>2. CASE ListResolves
    <3>1. \A id \in queue' : Row(id)'.resolveNotify \in {"pending", "failed"}
                               /\ Row(id)'.resolveAttempts < MaxAttempts
      <4>1. SUFFICES ASSUME NEW id \in PendingResolves
                     PROVE  Row(id).resolveNotify \in {"pending", "failed"} /\ Row(id).resolveAttempts < MaxAttempts
        BY <1>1, <1>2, <2>2, SameTable DEF ListResolves
      <4>2. id \in Existing /\ Due(Row(id).resolveNotify, Row(id).resolveAttempts, Row(id).updated)
        BY DEF PendingResolves
      <4> QED BY <4>2, ExistingRow, BoundsAssumption DEF Due, RowOK
    <3> QED BY <1>1, <1>3, <2>2, <3>1 DEF RoundOK, ListResolves
  <2> QED BY <2>1, <2>2
<1>6. SentMeansArrived' /\ MailsJustified'
  BY <1>1, SameTable DEF SentMeansArrived, MailsJustified, TypeOK, IsOpen, WantsResolve
<1> QED BY <1>1, <1>4, <1>5, <1>6, SameTable

LEMMA EndStep ==
  ASSUME IInv, EndRound \/ Interrupt
  PROVE  IInv'
<1> USE DEF IInv
<1>1. /\ alerts' = alerts /\ mailbox' = mailbox /\ sending' = <<>> /\ queue' = {} /\ round' = "idle"
      /\ now' = now /\ lastSeen' = lastSeen /\ inputs' \in 0 .. MaxInputs
  BY BoundsAssumption DEF EndRound, Interrupt, UsesInput, TypeOK
<1>2. TypeOK'
  BY <1>1, SameTable DEF TypeOK
<1>3. RoundOK'
  BY <1>1 DEF RoundOK
<1>4. SentMeansArrived' /\ MailsJustified'
  BY <1>1, SameTable DEF SentMeansArrived, MailsJustified, TypeOK, IsOpen, WantsResolve
<1> QED BY <1>1, <1>2, <1>3, <1>4, SameTable

LEMMA DeliverStep ==
  ASSUME IInv, NEW id \in queue, NEW outcome \in Outcomes, NEW arrived \in BOOLEAN,
         Deliver(id, outcome, arrived)
  PROVE  IInv'
<1> USE DEF IInv
<1>1. /\ alerts' = alerts /\ queue' = queue \ {id} /\ sending = <<>> /\ sending' = <<id, outcome>>
      /\ round' = round /\ now' = now /\ lastSeen' = lastSeen /\ inputs' = inputs /\ id \in Existing
  BY DEF Deliver, TypeOK
<1>2. /\ mailbox \subseteq mailbox' /\ mailbox' \subseteq mailbox \cup {<<id, Event>>}
      /\ outcome = "sent" => <<id, Event>> \in mailbox'
  BY DEF Deliver, Arrives
<1>3. Event' = Event /\ Event \in {"raised", "resolved"}
  BY <1>1 DEF Event
<1>4. TypeOK'
  BY <1>1, <1>2, <1>3, SameTable DEF TypeOK
<1>5. InRound' = InRound /\ id \in InRound
  BY <1>1 DEF InRound
<1>6. InRound \subseteq Existing
  BY DEF InRound, TypeOK
<1>7. round # "idle"
  BY DEF RoundOK
<1>8. RoundOK'
  BY <1>1, <1>2, <1>3, <1>5, <1>6, <1>7, SameTable DEF RoundOK
<1>9. SentMeansArrived'
  BY <1>1, <1>2, SameTable DEF SentMeansArrived
<1>10. MailsJustified'
  <2>1. SUFFICES ASSUME NEW m \in mailbox'
                 PROVE  /\ Row(m[1])'.notify # "suppressed"
                        /\ m[2] = "resolved" => ~IsOpen(Row(m[1])') /\ WantsResolve(m[1][1])
    BY DEF MailsJustified, WantsResolve, IsOpen
  <2>2. CASE m \in mailbox
    BY <1>1, <2>2, SameTable DEF MailsJustified, TypeOK
  <2>3. CASE m = <<id, Event>>
    <3>1. Row(m[1])' = Row(id)
      BY <1>1, <2>3, SameTable
    <3>2. RowOK(id[1], Row(id))
      BY <1>1, ExistingRow
    <3>3. CASE round = "raises"
      BY <1>5, <2>3, <3>1, <3>3 DEF RoundOK, Event
    <3>4. CASE round = "resolves"
      BY <1>5, <2>3, <3>1, <3>2, <3>4 DEF RoundOK, RowOK
    <3> QED BY <1>7, <3>3, <3>4 DEF TypeOK
  <2> QED BY <1>2, <2>2, <2>3
<1> QED BY <1>1, <1>4, <1>8, <1>9, <1>10, SameTable

LEMMA RaiseMarkedRow ==
  ASSUME NEW c \in Codes, NEW a \in Alert, RowOK(c, a), NEW state \in Outcomes, a.attempts < MaxAttempts
  PROVE  RaiseMarked(a, state) \in Alert /\ RowOK(c, RaiseMarked(a, state))
<1>1. RaiseMarked(a, state) \in Alert
  <2> DEFINE t == IF state = "sent" THEN 0 ELSE a.notified
  <2>1. t \in 0 .. Cooldown /\ 0 \in 0 .. Retry + 1
    BY AlertFields, TimesAssumption
  <2>2. a.attempts + 1 \in 0 .. MaxAttempts
    BY AlertFields, BoundsAssumption
  <2>3. RaiseMarked(a, state) =
          [a EXCEPT !.notify = state, !.attempts = a.attempts + 1, !.updated = 0, !.notified = t]
    BY DEF RaiseMarked
  <2> HIDE DEF t
  <2> QED BY <2>1, <2>2, <2>3 DEF Alert, Outcomes
<1>2. RowOK(c, RaiseMarked(a, state))
  BY AlertFields DEF RaiseMarked, Alert, RowOK, IsOpen, Outcomes
<1> QED BY <1>1, <1>2

LEMMA ResolveMarkedRow ==
  ASSUME NEW c \in Codes, NEW a \in Alert, RowOK(c, a), NEW state \in Outcomes,
         a.resolveNotify # "none", a.resolveAttempts < MaxAttempts
  PROVE  ResolveMarked(a, state) \in Alert /\ RowOK(c, ResolveMarked(a, state))
<1>1. ResolveMarked(a, state) \in Alert
  <2>1. 0 \in 0 .. Retry + 1 /\ a.resolveAttempts + 1 \in 0 .. MaxAttempts
    BY AlertFields, TimesAssumption, BoundsAssumption
  <2> QED BY <2>1 DEF ResolveMarked, Alert, Outcomes
<1>2. RowOK(c, ResolveMarked(a, state))
  BY AlertFields DEF ResolveMarked, Alert, RowOK, IsOpen, Outcomes
<1> QED BY <1>1, <1>2

(* Mark changes one row, in the notification columns of the running list.  *)
MarkedRow(a) == IF round = "raises" THEN RaiseMarked(a, sending[2]) ELSE ResolveMarked(a, sending[2])

LEMMA MarkRows ==
  ASSUME IInv, Mark
  PROVE  /\ sending[1] \in Existing /\ sending[2] \in Outcomes /\ round \in {"raises", "resolves"}
         /\ Existing' = Existing /\ alerts' \in [Codes -> Seq(Alert)]
         /\ \A id \in Existing : /\ Row(id)' = IF id = sending[1] THEN MarkedRow(Row(id)) ELSE Row(id)
                                 /\ Row(id)' \in Alert /\ RowOK(id[1], Row(id)')
                                 /\ Row(id)'.raised = Row(id).raised /\ Row(id)'.resolved = Row(id).resolved
<1> USE DEF IInv
<1>1. sending[1] \in Existing /\ sending[2] \in Outcomes /\ sending # <<>>
  BY DEF TypeOK, Mark
<1>2. round \in {"raises", "resolves"} /\ sending[1] \in InRound
  BY <1>1 DEF TypeOK, RoundOK, InRound
<1>3. PICK c \in Codes : \E n \in DOMAIN alerts[c] : sending[1] = <<c, n>>
  BY <1>1 DEF Existing
<1>4. PICK n \in DOMAIN alerts[c] : sending[1] = <<c, n>>
  BY <1>3
<1>5. alerts[c][n] \in Alert /\ RowOK(c, alerts[c][n]) /\ Row(sending[1]) = alerts[c][n]
  BY <1>4 DEF TypeOK, RowsOK, Row
<1>6. /\ MarkedRow(alerts[c][n]) \in Alert /\ RowOK(c, MarkedRow(alerts[c][n]))
      /\ MarkedRow(alerts[c][n]).raised = alerts[c][n].raised
      /\ MarkedRow(alerts[c][n]).resolved = alerts[c][n].resolved
  <2>1. CASE round = "raises"
    <3>1. alerts[c][n].attempts < MaxAttempts
      BY <1>2, <1>5, <2>1 DEF RoundOK
    <3>2. /\ RaiseMarked(alerts[c][n], sending[2]).raised = alerts[c][n].raised
          /\ RaiseMarked(alerts[c][n], sending[2]).resolved = alerts[c][n].resolved
      BY <1>5 DEF RaiseMarked, Alert
    <3> QED BY <1>1, <1>5, <2>1, <3>1, <3>2, RaiseMarkedRow DEF MarkedRow
  <2>2. CASE round = "resolves"
    <3>1. alerts[c][n].resolveAttempts < MaxAttempts /\ alerts[c][n].resolveNotify # "none"
      BY <1>2, <1>5, <2>2 DEF RoundOK
    <3>2. /\ ResolveMarked(alerts[c][n], sending[2]).raised = alerts[c][n].raised
          /\ ResolveMarked(alerts[c][n], sending[2]).resolved = alerts[c][n].resolved
      BY <1>5 DEF ResolveMarked, Alert
    <3> QED BY <1>1, <1>5, <2>2, <3>1, <3>2, ResolveMarkedRow DEF MarkedRow
  <2> QED BY <1>2, <2>1, <2>2
<1>7. alerts' = [alerts EXCEPT ![c] = [alerts[c] EXCEPT ![n] = MarkedRow(alerts[c][n])]]
  BY <1>4 DEF Mark, MarkedRow
<1> HIDE DEF MarkedRow
<1>8. alerts' \in [Codes -> Seq(Alert)]
  <2>1. [alerts[c] EXCEPT ![n] = MarkedRow(alerts[c][n])] \in Seq(Alert)
    BY <1>6 DEF TypeOK
  <2> QED BY <1>7, <2>1 DEF TypeOK
<1>9. \A d \in Codes : /\ DOMAIN alerts'[d] = DOMAIN alerts[d]
                       /\ \A m \in DOMAIN alerts[d] :
                            alerts'[d][m] = IF d = c /\ m = n THEN MarkedRow(alerts[d][m]) ELSE alerts[d][m]
  BY <1>7 DEF TypeOK
<1>10. Existing' = Existing
  BY <1>9 DEF Existing
<1>11. ASSUME NEW id \in Existing
       PROVE  /\ Row(id)' = IF id = sending[1] THEN MarkedRow(Row(id)) ELSE Row(id)
              /\ Row(id)' \in Alert /\ RowOK(id[1], Row(id)')
              /\ Row(id)'.raised = Row(id).raised /\ Row(id)'.resolved = Row(id).resolved
  <2>1. /\ id[1] \in Codes /\ id[2] \in DOMAIN alerts[id[1]] /\ id = <<id[1], id[2]>>
        /\ Row(id) \in Alert /\ RowOK(id[1], Row(id))
    BY ExistingRow
  <2>2. Row(id)' = alerts'[id[1]][id[2]]
    BY DEF Row
  <2>3. CASE id = sending[1]
    BY <1>4, <1>5, <1>6, <1>9, <2>2, <2>3 DEF Row
  <2>4. CASE id # sending[1]
    BY <1>4, <1>9, <2>1, <2>2, <2>4 DEF Row
  <2> QED BY <2>3, <2>4
<1> QED BY <1>1, <1>2, <1>8, <1>10, <1>11

LEMMA MarkStep ==
  ASSUME IInv, Mark
  PROVE  IInv'
<1> USE DEF IInv
<1>1. /\ sending # <<>> /\ sending' = <<>> /\ round' = round /\ queue' = queue /\ mailbox' = mailbox
      /\ now' = now /\ lastSeen' = lastSeen /\ inputs' = inputs
  BY DEF Mark
<1>2. TypeOK'
  BY <1>1, MarkRows DEF TypeOK
<1>3. ASSUME NEW c \in Codes
      PROVE  /\ DOMAIN alerts'[c] = DOMAIN alerts[c]
             /\ \A n \in DOMAIN alerts[c] : /\ RowOK(c, alerts'[c][n])
                                            /\ alerts'[c][n].resolved = alerts[c][n].resolved
  <2>1. ASSUME NEW n \in DOMAIN alerts[c]
        PROVE  RowOK(c, alerts'[c][n]) /\ alerts'[c][n].resolved = alerts[c][n].resolved
    <3>1. <<c, n>> \in Existing
      BY DEF Existing
    <3>2. RowOK(<<c, n>>[1], Row(<<c, n>>)') /\ Row(<<c, n>>)'.resolved = Row(<<c, n>>).resolved
      BY <3>1, MarkRows
    <3> QED BY <3>2 DEF Row
  <2>2. DOMAIN alerts'[c] = DOMAIN alerts[c]
    BY DEF Mark, TypeOK
  <2> QED BY <2>1, <2>2
<1>4. OneOpen'
  BY <1>3 DEF OneOpen, OpenRows, IsOpen
<1>5. RowsOK'
  <2>1. SUFFICES ASSUME NEW c \in Codes, NEW n \in DOMAIN alerts'[c] PROVE RowOK(c, alerts'[c][n])
    BY DEF RowsOK, RowOK, IsOpen
  <2> QED BY <1>3
<1>6. RoundOK'
  <2>1. InRound' = queue /\ queue \subseteq InRound /\ queue \subseteq Existing
    BY <1>1 DEF InRound, TypeOK
  <2>2. \A id \in queue : Row(id)' = Row(id)
    BY <1>1, <2>1, MarkRows DEF RoundOK
  <2> QED BY <1>1, <2>1, <2>2 DEF RoundOK
<1>7. SentMeansArrived'
  <2>1. SUFFICES ASSUME NEW id \in Existing
                 PROVE  /\ Row(id)'.notify = "sent" => <<id, "raised">> \in mailbox
                        /\ Row(id)'.resolveNotify = "sent" => <<id, "resolved">> \in mailbox
    BY <1>1, MarkRows DEF SentMeansArrived
  <2>2. CASE id # sending[1]
    BY <2>2, MarkRows DEF SentMeansArrived
  <2>3. CASE id = sending[1] /\ round = "raises"
    <3>1. Row(id)' = RaiseMarked(Row(id), sending[2]) /\ Row(id) \in Alert
      BY <2>3, MarkRows, ExistingRow DEF MarkedRow
    <3>2. Row(id)'.notify = sending[2] /\ Row(id)'.resolveNotify = Row(id).resolveNotify
      BY <3>1 DEF RaiseMarked, Alert
    <3>3. sending[2] = "sent" => <<id, "raised">> \in mailbox
      BY <1>1, <2>3 DEF RoundOK, Event
    <3> QED BY <3>2, <3>3 DEF SentMeansArrived
  <2>4. CASE id = sending[1] /\ round = "resolves"
    <3>1. Row(id)' = ResolveMarked(Row(id), sending[2]) /\ Row(id) \in Alert
      BY <2>4, MarkRows, ExistingRow DEF MarkedRow
    <3>2. Row(id)'.resolveNotify = sending[2] /\ Row(id)'.notify = Row(id).notify
      BY <3>1 DEF ResolveMarked, Alert
    <3>3. sending[2] = "sent" => <<id, "resolved">> \in mailbox
      BY <1>1, <2>4 DEF RoundOK, Event
    <3> QED BY <3>2, <3>3 DEF SentMeansArrived
  <2> QED BY <2>2, <2>3, <2>4, MarkRows
<1>8. MailsJustified'
  <2>1. SUFFICES ASSUME NEW m \in mailbox
                 PROVE  /\ Row(m[1])'.notify # "suppressed"
                        /\ m[2] = "resolved" => ~IsOpen(Row(m[1])') /\ WantsResolve(m[1][1])
    BY <1>1 DEF MailsJustified, WantsResolve, IsOpen
  <2>2. m[1] \in Existing
    BY DEF TypeOK
  <2>3. Row(m[1])'.notify \in {Row(m[1]).notify, "sent", "failed"}
    <3>1. Row(m[1]) \in Alert
      BY <2>2, ExistingRow
    <3> QED BY <2>2, <3>1, MarkRows DEF MarkedRow, RaiseMarked, ResolveMarked, Alert, Outcomes
  <2> QED BY <2>2, <2>3, MarkRows DEF MailsJustified, IsOpen
<1> QED BY <1>2, <1>4, <1>5, <1>6, <1>7, <1>8

-----------------------------------------------------------------------------
LEMMA InitInv == Init => IInv
<1> SUFFICES ASSUME Init PROVE IInv
  OBVIOUS
<1>1. \A c \in Codes : alerts[c] = <<>>
  BY DEF Init
<1>2. Existing = {}
  BY <1>1 DEF Existing
<1>3. TypeOK
  BY <1>2, TimesAssumption, BoundsAssumption DEF Init, TypeOK
<1> QED BY <1>1, <1>2, <1>3
       DEF Init, IInv, OneOpen, OpenRows, RowsOK, RoundOK, SentMeansArrived, MailsJustified

LEMMA NextInv == IInv /\ [Next]_vars => IInv'
<1> SUFFICES ASSUME IInv, [Next]_vars PROVE IInv'
  OBVIOUS
<1>1. CASE Quiet
  BY <1>1, QuietKeeps
<1>2. CASE Notifier
  BY <1>2, ListStep, EndStep, MarkStep, DeliverStep DEF Notifier
<1>3. CASE Interrupt
  BY <1>3, EndStep
<1>4. CASE UNCHANGED vars
  <2>1. alerts' = alerts /\ TableStep
    BY <1>4, SameTable DEF vars
  <2>2. /\ now' = now /\ lastSeen' = lastSeen /\ inputs' = inputs /\ UNCHANGED <<notifier, mailbox>>
    BY <1>4 DEF vars, notifier
  <2> QED BY <2>1, <2>2, QuietStep DEF IInv, TypeOK
<1> QED BY <1>1, <1>2, <1>3, <1>4 DEF Next, Quiet

THEOREM Invariance == Spec => []IInv
BY InitInv, NextInv, PTL DEF Spec

(* The columns of the alerts table keep their types and no notification is *)
(* attempted more than ALERTS_NOTIFY_MAX_ATTEMPTS times.                   *)
THEOREM TypeCorrect == Spec => []TypeOK
<1>1. IInv => TypeOK
  BY DEF IInv
<1> QED BY <1>1, Invariance, PTL

(* There is one open alert per code, whatever rows the sources deliver.    *)
THEOREM OneOpenAlert == Spec => []OneOpen
<1>1. IInv => OneOpen
  BY DEF IInv
<1> QED BY <1>1, Invariance, PTL

(* An alert is resolved no earlier than it was raised.                     *)
THEOREM ResolutionsAreOrdered == Spec => []ResolvedAfterRaised
<1>1. IInv => ResolvedAfterRaised
  BY DEF IInv, RowsOK, RowOK, ResolvedAfterRaised
<1> QED BY <1>1, Invariance, PTL

(* What the notifier marks sent has arrived, with any query failing and    *)
(* the process stopping anywhere.                                          *)
THEOREM SentMailsArrived == Spec => []SentMeansArrived
<1>1. IInv => SentMeansArrived
  BY DEF IInv
<1> QED BY <1>1, Invariance, PTL

(* Suppressed alerts are silent and only wanted resolves are mailed.       *)
THEOREM MailsAreJustified == Spec => []MailsJustified
<1>1. IInv => MailsJustified
  BY DEF IInv
<1> QED BY <1>1, Invariance, PTL

(* A resolved alert never reopens and no alert is ever removed.            *)
THEOREM NeverReopened == Spec => ResolvedForever
<1>1. IInv /\ [Next]_vars
        => [\A id \in Existing :
              /\ id[2] \in DOMAIN alerts'[id[1]]
              /\ IsOpen(Row(id)) \/ (/\ alerts'[id[1]][id[2]].resolved = Row(id).resolved
                                     /\ alerts'[id[1]][id[2]].raised = Row(id).raised)]_vars
  <2> SUFFICES ASSUME IInv, Next, NEW id \in Existing
               PROVE  /\ id[2] \in DOMAIN alerts'[id[1]]
                      /\ IsOpen(Row(id)) \/ (/\ alerts'[id[1]][id[2]].resolved = Row(id).resolved
                                             /\ alerts'[id[1]][id[2]].raised = Row(id).raised)
    OBVIOUS
  <2>1. id[1] \in Codes /\ id[2] \in DOMAIN alerts[id[1]] /\ id = <<id[1], id[2]>>
    BY ExistingRow
  <2>2. CASE TableStep
    <3>1. RowsStep(id[1], alerts[id[1]], alerts'[id[1]])
      BY <2>1, <2>2 DEF TableStep
    <3> QED BY <2>1, <3>1 DEF RowsStep, Keeps, Row
  <2>3. CASE Mark
    <3>1. /\ id \in Existing' /\ Row(id)'.resolved = Row(id).resolved /\ Row(id)'.raised = Row(id).raised
      BY <2>3, MarkRows
    <3>2. id[2] \in DOMAIN alerts'[id[1]]
      BY <2>1, <2>3 DEF Mark, IInv, TypeOK
    <3> QED BY <3>1, <3>2 DEF Row
  <2>4. TableStep \/ Mark
    <3>1. CASE Quiet
      BY <3>1, QuietKeeps
    <3>2. CASE Notifier \/ Interrupt
      <4>1. Mark \/ alerts' = alerts
        BY <3>2 DEF Notifier, Interrupt, ListRaises, ListResolves, EndRound, Deliver
      <4> QED BY <4>1, SameTable
    <3> QED BY <3>1, <3>2 DEF Next, Quiet
  <2> QED BY <2>2, <2>3, <2>4
<1> QED BY <1>1, Invariance, PTL DEF Spec, ResolvedForever
=============================================================================
