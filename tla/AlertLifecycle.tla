---------------------------- MODULE AlertLifecycle ----------------------------
(***************************************************************************)
(* internal/alerts: the alerts table of one device, written by the engine  *)
(* (node alarms, heartbeats, detections, the offline sweep), by the        *)
(* notifier loop that mails raises and resolves, and by Acknowledge.       *)
(*                                                                         *)
(* The consumer's goroutine handles one row at a time inside a stage       *)
(* transaction; a rolled back transaction leaves the table alone, so one   *)
(* action stands for one committed row.  The notifier runs concurrently:   *)
(* it lists, delivers and marks in separate steps.  Wall-clock columns     *)
(* are kept as ages, counted up to the only threshold each is compared     *)
(* with.  Severity INFO belongs to no code the rules raise.                *)
(***************************************************************************)
EXTENDS Integers, Sequences

CONSTANTS
  Codes,          \* the alert codes in play
  Mailed,         \* codes at or above ALERTS_EMAIL_MIN_SEVERITY
  NotifyResolve,  \* ALERTS_NOTIFY_RESOLVE
  Cooldown,       \* ALERTS_NOTIFY_COOLDOWN
  Retry,          \* ALERTS_NOTIFY_RETRY
  MaxAttempts,    \* ALERTS_NOTIFY_MAX_ATTEMPTS
  OfflineAfter,   \* ALERTS_OFFLINE_AFTER, 0 disables the sweep
  MaxTime,        \* bound on event time
  MaxInputs       \* bound on rows, acknowledgements and interrupted rounds

ASSUME CodesAssumption == Mailed \subseteq Codes
ASSUME ResolveAssumption == NotifyResolve \in {"critical", "all", "false"}
ASSUME TimesAssumption == /\ Cooldown \in Nat /\ Retry \in Nat
                          /\ OfflineAfter \in Nat /\ MaxTime \in Nat
ASSUME BoundsAssumption == MaxAttempts \in Nat \ {0} /\ MaxInputs \in Nat

OFFLINE == "OFFLINE"
Critical == {"FLOAT_HIGH", "DRY_RUN", "CONTINUOUS_RUN", "OUTAGE_RISK"}
AlarmCodes == Codes \cap {"FLOAT_HIGH", "MAINS_LOST", "DRY_RUN", "CONTINUOUS_RUN", "SENSOR_FAULT"}
DetectionCodes == Codes \cap {"DRY_RUN", "SHORT_CYCLING", "CONTINUOUS_RUN"}

(* notifyResolve: is a resolve of this code mailed?                        *)
WantsResolve(c) == NotifyResolve = "all" \/ (NotifyResolve = "critical" /\ c \in Critical)

VARIABLES
  now,       \* the wall clock, which is also the newest event time
  lastSeen,  \* devices.last_seen_at
  alerts,    \* per code, the rows of the table in insert order
  round,     \* where the notifier is: "idle", "raises" or "resolves"
  queue,     \* the listed alerts it has not delivered yet
  sending,   \* the delivered, unmarked alert: <<>> or <<id, outcome>>
  mailbox,   \* the mails that arrived, by Message-ID
  inputs     \* how much of MaxInputs is used

notifier == <<round, queue, sending>>
vars == <<now, lastSeen, alerts, round, queue, sending, mailbox, inputs>>

NotYet == -1
Alert == [raised : 0 .. MaxTime, resolved : NotYet .. MaxTime,
          notify : {"pending", "sent", "suppressed", "failed"}, attempts : 0 .. MaxAttempts,
          notified : 0 .. Cooldown,
          resolveNotify : {"none", "pending", "sent", "failed"}, resolveAttempts : 0 .. MaxAttempts,
          updated : 0 .. Retry + 1, acked : NotYet .. MaxTime]

Row(id) == alerts[id[1]][id[2]]
Existing == UNION {{<<c, n>> : n \in DOMAIN alerts[c]} : c \in Codes}
Outcomes == {"sent", "failed"}

(* Every column keeps its type and stays within its bound: no alert is     *)
(* attempted more than ALERTS_NOTIFY_MAX_ATTEMPTS times, and what the      *)
(* notifier has listed are rows that exist.                                *)
TypeOK ==
  /\ now \in 0 .. MaxTime /\ lastSeen \in 0 .. MaxTime
  /\ alerts \in [Codes -> Seq(Alert)]
  /\ round \in {"idle", "raises", "resolves"}
  /\ queue \subseteq Existing
  /\ sending = <<>> \/ sending \in Existing \X Outcomes
  /\ mailbox \subseteq Existing \X {"raised", "resolved"}
  /\ inputs \in 0 .. MaxInputs

Init ==
  /\ now = 0 /\ lastSeen = 0
  /\ alerts = [c \in Codes |-> <<>>]
  /\ round = "idle" /\ queue = {} /\ sending = <<>>
  /\ mailbox = {} /\ inputs = 0

IsOpen(a) == a.resolved = NotYet
OpenRows(c) == {n \in DOMAIN alerts[c] : IsOpen(alerts[c][n])}

(* LastNotifiedAt within the cooldown.                                     *)
CoolingDown(c) ==
  \E n \in DOMAIN alerts[c] : alerts[c][n].notify = "sent" /\ alerts[c][n].notified < Cooldown

FirstNotify(c) == IF c \notin Mailed \/ CoolingDown(c) THEN "suppressed" ELSE "pending"

NewAlert(c, at) ==
  [raised |-> at, resolved |-> NotYet, notify |-> FirstNotify(c), attempts |-> 0,
   notified |-> Cooldown, resolveNotify |-> "none", resolveAttempts |-> 0,
   updated |-> 0, acked |-> NotYet]

(* TouchAlert: raised_at is the earliest trigger.                          *)
Touched(a, at) == [a EXCEPT !.raised = IF at < @ THEN at ELSE @, !.updated = 0]

(* Faulty variant of Raised: inserts without looking for the open alert.   *)
AlwaysInserted(c, at) == Append(alerts[c], NewAlert(c, at))

(* Engine.Raise: touch the open alert, or insert a new one.                *)
Raised(c, at) ==
  IF OpenRows(c) = {}
    THEN Append(alerts[c], NewAlert(c, at))
    ELSE [n \in DOMAIN alerts[c] |->
            IF n \in OpenRows(c) THEN Touched(alerts[c][n], at) ELSE alerts[c][n]]

(* Faulty variant of Resolves: a stale row resolves a newer episode.       *)
ResolvesAny(a, at) == IsOpen(a)

(* ResolveOpenAlert applies to an open alert raised no later than the row. *)
Resolves(a, at) == IsOpen(a) /\ a.raised <= at

(* Faulty variant of ResolveMail: does not ask whether the raise was mailed. *)
ResolveMailAlways(c, a) == IF WantsResolve(c) THEN "pending" ELSE "none"

ResolveMail(c, a) == IF WantsResolve(c) /\ a.notify \in {"sent", "pending"} THEN "pending" ELSE "none"

(* Engine.Resolve: close the open alert, if any.                           *)
Closed(c, a, at) ==
  [a EXCEPT !.resolved = at, !.updated = 0, !.resolveNotify = ResolveMail(c, a)]
Resolved(c, at) ==
  [n \in DOMAIN alerts[c] |->
     IF Resolves(alerts[c][n], at) THEN Closed(c, alerts[c][n], at) ELSE alerts[c][n]]

(* The rows a handler sees were ingested: their event time is at most      *)
(* last_seen_at.                                                           *)
UsesInput == inputs < MaxInputs /\ inputs' = inputs + 1
Handles(up, down, at) ==
  /\ UsesInput
  /\ alerts' = [c \in Codes |-> IF c \in up THEN Raised(c, at)
                                ELSE IF c \in down THEN Resolved(c, at) ELSE alerts[c]]
  /\ UNCHANGED <<now, lastSeen, notifier, mailbox>>

(* Time passes.  Event time stops at its bound, the ages keep counting.    *)
Older(age, cap) == IF age < cap THEN age + 1 ELSE age
Aged(a) == [a EXCEPT !.updated = Older(@, Retry + 1), !.notified = Older(@, Cooldown)]
Tick ==
  /\ now' = Older(now, MaxTime)
  /\ alerts' = [c \in Codes |-> [n \in DOMAIN alerts[c] |-> Aged(alerts[c][n])]]
  /\ UNCHANGED <<lastSeen, notifier, mailbox, inputs>>

(* Ingest stores an uplink and advances devices.last_seen_at.              *)
Report(at) ==
  /\ lastSeen < at
  /\ lastSeen' = at
  /\ UNCHANGED <<now, alerts, notifier, mailbox, inputs>>

(* alarmHandler.Handle                                                     *)
HandleAlarm(c, at) == Handles({c}, {}, at)

(* readingHandler.Handle: what one heartbeat raises and resolves.  Whether *)
(* the level is rising in rain ("risk") or falling ("fall") is the input.  *)
Readings == [float : BOOLEAN, fault : BOOLEAN, battery : {"low", "between", "good"},
             mains : BOOLEAN, level : {"risk", "fall", "other"}]
RaisedBy(r) ==
  (IF r.float THEN {"FLOAT_HIGH"} ELSE {})
    \cup (IF r.fault THEN {"SENSOR_FAULT"} ELSE {})
    \cup (IF r.battery = "low" THEN {"LOW_BATTERY"} ELSE {})
    \cup (IF r.mains THEN {} ELSE {"MAINS_LOST"})
    \cup (IF ~r.mains /\ r.level = "risk" THEN {"OUTAGE_RISK"} ELSE {})
ResolvedBy(r) ==
  {OFFLINE}
    \cup (IF r.float THEN {} ELSE {"FLOAT_HIGH"})
    \cup (IF r.fault THEN {} ELSE {"SENSOR_FAULT"})
    \cup (IF r.battery = "good" THEN {"LOW_BATTERY"} ELSE {})
    \cup (IF r.mains THEN {"MAINS_LOST", "OUTAGE_RISK"} ELSE {})
    \cup (IF ~r.mains /\ r.level = "fall" THEN {"OUTAGE_RISK"} ELSE {})
HandleReading(r, at) == Handles(RaisedBy(r), ResolvedBy(r), at)

(* detectionHandler.Handle                                                 *)
HandleDetection(c, clear, at) ==
  Handles(IF clear THEN {} ELSE {c}, IF clear THEN {c} ELSE {}, at)

(* SweepOffline: after every round of the consumer.                        *)
Silent == OfflineAfter > 0 /\ lastSeen < now - OfflineAfter
Sweep ==
  /\ Silent /\ OFFLINE \in Codes
  /\ alerts' = [alerts EXCEPT ![OFFLINE] = Raised(OFFLINE, now)]
  /\ UNCHANGED <<now, lastSeen, notifier, mailbox, inputs>>

(* Server.Acknowledge: the first acknowledgement stands.                   *)
Acked(a) == [a EXCEPT !.acked = IF @ = NotYet THEN now ELSE @, !.updated = 0]
Acknowledge(id) ==
  /\ UsesInput
  /\ alerts' = [alerts EXCEPT ![id[1]][id[2]] = Acked(@)]
  /\ UNCHANGED <<now, lastSeen, notifier, mailbox>>

(* Faulty variants of Due: no limit on the attempts; no retry.             *)
DueForever(state, attempts, updated) == state = "pending" \/ (state = "failed" /\ updated > Retry)
DueOnce(state, attempts, updated) == state = "pending"

(* ListPendingRaiseNotifications and ListPendingResolveNotifications       *)
Due(state, attempts, updated) ==
  state = "pending" \/ (state = "failed" /\ attempts < MaxAttempts /\ updated > Retry)
PendingRaises == {id \in Existing : Due(Row(id).notify, Row(id).attempts, Row(id).updated)}
PendingResolves ==
  {id \in Existing : Due(Row(id).resolveNotify, Row(id).resolveAttempts, Row(id).updated)}

(* NotifierLoop.RunOnce: list the raises, deliver and mark each, then the  *)
(* resolves.                                                               *)
ListRaises ==
  /\ round = "idle"
  /\ round' = "raises" /\ queue' = PendingRaises
  /\ UNCHANGED <<now, lastSeen, alerts, sending, mailbox, inputs>>

ListResolves ==
  /\ round = "raises" /\ queue = {} /\ sending = <<>>
  /\ round' = "resolves" /\ queue' = PendingResolves
  /\ UNCHANGED <<now, lastSeen, alerts, sending, mailbox, inputs>>

EndRound ==
  /\ round = "resolves" /\ queue = {} /\ sending = <<>>
  /\ round' = "idle"
  /\ UNCHANGED <<now, lastSeen, alerts, queue, sending, mailbox, inputs>>

(* deliver: an accepted mail arrives; a failed attempt may have arrived    *)
(* too (the error came after the end of data).                             *)
Event == IF round = "raises" THEN "raised" ELSE "resolved"
(* Faulty variant of Arrives: the outcome does not tell of a lost mail.    *)
ArrivesMaybe(outcome, id, arrived) ==
  mailbox' = IF arrived THEN mailbox \cup {<<id, Event>>} ELSE mailbox
Arrives(outcome, id, arrived) ==
  mailbox' = IF outcome = "sent" \/ arrived THEN mailbox \cup {<<id, Event>>} ELSE mailbox
Deliver(id, outcome, arrived) ==
  /\ sending = <<>>
  /\ queue' = queue \ {id}
  /\ sending' = <<id, outcome>>
  /\ Arrives(outcome, id, arrived)
  /\ UNCHANGED <<now, lastSeen, alerts, round, inputs>>

(* MarkRaiseNotification, MarkResolveNotification                          *)
RaiseMarked(a, state) ==
  [a EXCEPT !.notify = state, !.attempts = @ + 1, !.updated = 0,
            !.notified = IF state = "sent" THEN 0 ELSE @]
ResolveMarked(a, state) ==
  [a EXCEPT !.resolveNotify = state, !.resolveAttempts = @ + 1, !.updated = 0]
Mark ==
  /\ sending # <<>>
  /\ alerts' = [alerts EXCEPT ![sending[1][1]][sending[1][2]] =
                  IF round = "raises" THEN RaiseMarked(@, sending[2]) ELSE ResolveMarked(@, sending[2])]
  /\ sending' = <<>>
  /\ UNCHANGED <<now, lastSeen, round, queue, mailbox, inputs>>

(* A query of the round fails, or the process stops: the rest of the round *)
(* is dropped, an unmarked delivery with it.                               *)
Interrupt ==
  /\ round # "idle" /\ UsesInput
  /\ round' = "idle" /\ queue' = {} /\ sending' = <<>>
  /\ UNCHANGED <<now, lastSeen, alerts, mailbox>>

Engine ==
  \/ \E c \in AlarmCodes, at \in 0 .. lastSeen : HandleAlarm(c, at)
  \/ \E r \in Readings, at \in 0 .. lastSeen : HandleReading(r, at)
  \/ \E c \in DetectionCodes, clear \in BOOLEAN, at \in 0 .. lastSeen : HandleDetection(c, clear, at)
  \/ Sweep
Notifier ==
  \/ ListRaises \/ ListResolves \/ EndRound \/ Mark
  \/ \E id \in queue, outcome \in Outcomes, arrived \in BOOLEAN : Deliver(id, outcome, arrived)
Next ==
  \/ Tick
  \/ \E at \in 0 .. now : Report(at)
  \/ Engine
  \/ Notifier
  \/ Interrupt
  \/ \E id \in Existing : Acknowledge(id)

Spec == Init /\ [][Next]_vars

(***************************************************************************)
(* Fairness: the clock runs, the consumer ends a round (and so sweeps) at  *)
(* least every POLL_INTERVAL, and the notifier loop goes round on its      *)
(* ticker; a delivery ends within SMTP's deadline.                         *)
(***************************************************************************)
Fairness == WF_vars(Tick) /\ WF_vars(Sweep) /\ WF_vars(Notifier)
FairSpec == Spec /\ Fairness

(* One open alert per (device, code), across every source that may raise   *)
(* it and however their rows interleave (Engine.Raise).                    *)
OneOpen == \A c \in Codes : \A m, n \in OpenRows(c) : m = n

(* No alert is resolved before it was raised, although an open alert's     *)
(* raised_at moves back as late rows touch it and a lagging source may     *)
(* report that the condition has ended (TouchAlert, ResolveOpenAlert).     *)
ResolvedAfterRaised ==
  \A c \in Codes : \A n \in DOMAIN alerts[c] :
    IsOpen(alerts[c][n]) \/ alerts[c][n].raised <= alerts[c][n].resolved

(* A row that the notifier marks sent is a mail that arrived, whatever     *)
(* query fails and wherever the process stops (NotifierLoop.RunOnce).      *)
SentMeansArrived ==
  \A id \in Existing :
    /\ Row(id).notify = "sent" => <<id, "raised">> \in mailbox
    /\ Row(id).resolveNotify = "sent" => <<id, "resolved">> \in mailbox

(* A suppressed alert sends no mail, neither when it is raised nor when it *)
(* is resolved, and a resolve is mailed only for a resolved alert whose    *)
(* severity asks for it.                                                   *)
MailsJustified ==
  \A m \in mailbox :
    /\ Row(m[1]).notify # "suppressed"
    /\ m[2] = "resolved" => ~IsOpen(Row(m[1])) /\ WantsResolve(m[1][1])

(* "A resolved alert never reopens": no step changes the event times of a  *)
(* resolved alert, or removes a row.                                       *)
ResolvedForever ==
  [][\A id \in Existing :
       /\ id[2] \in DOMAIN alerts'[id[1]]
       /\ IsOpen(Row(id)) \/ (/\ alerts'[id[1]][id[2]].resolved = Row(id).resolved
                              /\ alerts'[id[1]][id[2]].raised = Row(id).raised)]_vars

Settled(state, attempts) == state \in {"sent", "suppressed"} \/ attempts = MaxAttempts
RaiseSettled(c, n) == n \in DOMAIN alerts[c] => Settled(alerts[c][n].notify, alerts[c][n].attempts)

(* Every raise that asks for a mail is delivered or used up its attempts,  *)
(* if the rows that touch the alert leave gaps longer than the retry       *)
(* interval (here: they end).                                              *)
RaiseDelivered ==
  \A c \in Codes \ {OFFLINE} : \A n \in 1 .. MaxInputs :
    n \in DOMAIN alerts[c] ~> RaiseSettled(c, n) /\ n \in DOMAIN alerts[c]

(* Every resolve that asks for a mail is delivered or used up its          *)
(* attempts.                                                               *)
ResolveDelivered ==
  \A c \in Codes : \A n \in 1 .. MaxInputs :
    (n \in DOMAIN alerts[c] /\ alerts[c][n].resolveNotify = "pending")
      ~> /\ n \in DOMAIN alerts[c]
         /\ Settled(alerts[c][n].resolveNotify, alerts[c][n].resolveAttempts)

(* The notifier's rounds deliver, within the attempts of every mail, what  *)
(* raising and resolving asked for.                                        *)
MailsDelivered == RaiseDelivered /\ ResolveDelivered
===============================================================================
