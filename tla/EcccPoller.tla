----------------------------- MODULE EcccPoller -----------------------------
(***************************************************************************)
(* The other writer of rainfall: the poller of ECCC's hourly observations. *)
(* ECCC publishes an hour with a lag and revises recent ones; the poller   *)
(* re-reads a window page by page and upserts it, and may fail or restart  *)
(* between any two pages.                                                  *)
(***************************************************************************)
EXTENDS Integers

CONSTANTS
    Lookback,   \* WEATHER_ECCC_LOOKBACK, in hours
    Backfill,   \* WEATHER_ECCC_BACKFILL, in hours
    PageSize,   \* features per page, in hours
    MaxPages,   \* pages the client follows before it gives up
    Amounts,    \* amounts ECCC may publish
    MaxHour,    \* bound: the clock
    MaxStops    \* bound: restarts of the service

ASSUME EcccAssumption ==
    /\ Lookback \in Nat \ {0} /\ Backfill \in Nat /\ Backfill >= Lookback
    /\ PageSize \in Nat \ {0} /\ MaxPages \in Nat /\ MaxHour \in Nat
    /\ MaxStops \in Nat

Missing == 0 - 1   \* PRECIP_AMOUNT null, negative, or flagged M

ASSUME AmountsAssumption == Amounts \subseteq Nat

Hours == 1 .. MaxHour   \* an hour is named by its end

VARIABLES
    hour,       \* the clock
    published,  \* ECCC's collection: the amount of each hour
    stored,     \* rainfall rows of source eccc, by hour; Missing: no row
    from,       \* Run's variable: start of the window of the next poll
    poll,       \* the poll under way
    stops       \* restarts so far

ecccVars == <<hour, published, stored, from, poll, stops>>

NoObs == [h \in Hours |-> Missing]
Idle == [busy |-> FALSE, to |-> 0, next |-> 0, page |-> 0, obs |-> NoObs]

EcccInit ==
    /\ hour = 0 /\ stops = 0
    /\ published = NoObs /\ stored = NoObs
    /\ from = hour - Backfill
    /\ poll = Idle

\* ECCC publishes or revises an hour that ended less than Lookback ago, or
\* withdraws its amount.
Publish(h, mm) ==
    /\ h <= hour /\ hour - h < Lookback
    /\ published' = [published EXCEPT ![h] = mm]
    /\ UNCHANGED <<hour, stored, from, poll, stops>>

HourPasses ==
    /\ hour < MaxHour
    /\ hour' = hour + 1
    /\ UNCHANGED <<published, stored, from, poll, stops>>

\* Run: the wait is over; the window is (from, now].
StartPoll ==
    /\ ~poll.busy
    /\ poll' = [busy |-> TRUE, to |-> hour, next |-> from + 1, page |-> 0, obs |-> NoObs]
    /\ UNCHANGED <<hour, published, stored, from, stops>>

\* Hourly: the features of one page that lie in the window and have an amount.
PageHours == {h \in Hours : poll.next <= h /\ h < poll.next + PageSize /\ h <= poll.to}

ReadPage ==
    /\ poll.busy /\ poll.next <= poll.to
    /\ poll.page < MaxPages
    /\ poll' = [poll EXCEPT !.next = @ + PageSize, !.page = @ + 1,
                  !.obs = [h \in Hours |-> IF h \in PageHours THEN published[h] ELSE @[h]]]
    /\ UNCHANGED <<hour, published, stored, from, stops>>

\* store: one transaction upserts what was read; hours without an amount are
\* skipped, so a withdrawn amount stays stored.
Upserted == [h \in Hours |-> IF poll.obs[h] = Missing THEN stored[h] ELSE poll.obs[h]]

\* Faulty: the clock is read when the poll is over, and not when it starts.
NextFromLate == hour - Lookback
NextFrom == poll.to - Lookback

StorePoll ==
    /\ poll.busy /\ poll.next > poll.to
    /\ stored' = Upserted
    /\ from' = NextFrom
    /\ poll' = Idle
    /\ UNCHANGED <<hour, published, stops>>

\* A request, a page, the paging limit or the transaction fails: nothing is
\* stored and the same window is polled again.
AfterFailure == from

PollFails ==
    /\ poll.busy
    /\ from' = AfterFailure
    /\ poll' = Idle
    /\ UNCHANGED <<hour, published, stored, stops>>

\* The service restarts.  It may have been down for a while: no longer than
\* Backfill allows for, counted from the window it had reached.
RestartPoller ==
    /\ stops < MaxStops
    /\ hour - Backfill <= from
    /\ stops' = stops + 1
    /\ from' = hour - Backfill
    /\ poll' = Idle
    /\ UNCHANGED <<hour, published, stored>>

EcccNext ==
    \/ \E h \in Hours, mm \in Amounts \cup {Missing} : Publish(h, mm)
    \/ HourPasses \/ StartPoll \/ ReadPage \/ StorePoll \/ PollFails \/ RestartPoller

EcccSpec == EcccInit /\ [][EcccNext]_ecccVars

------------------------------------------------------------------------------
\* ECCCPoller.Run: an amount published or revised late, while pages are being
\* read, between failed polls or before a restart, is stored already or
\* lies in the window of a poll to come.
NoRevisionMissed ==
    \A h \in Hours :
        published[h] # Missing /\ published[h] # stored[h] => h > from
=============================================================================
