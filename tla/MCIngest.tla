------------------------------ MODULE MCIngest ------------------------------
(* A submission of three requests, and its retry in one request, on the     *)
(* same or on two replicas.                                                 *)
EXTENDS IngestStream

Cycle(dev, at, fcnt) ==
    [tbl |-> "cycle_events", dev |-> dev, at |-> at, received |-> at + 1, fcnt |-> fcnt, valid |-> TRUE]
Summary(dev, at, fcnt) == [Cycle(dev, 0, fcnt) EXCEPT !.tbl = "storm_summaries", !.received = at]
Bad == [Cycle("d1", 12, 9) EXCEPT !.valid = FALSE]

Submissions ==
    [first |-> << <<Cycle("d1", 11, 1), Summary("d1", 12, 2)>>,
                  <<Cycle("d1", 21, 3), Bad>>, <<Summary("d1", 22, 4)>> >>,
     retry |-> << <<Cycle("d1", 11, 1), Summary("d1", 12, 2), Cycle("d2", 12, 1)>> >>]

MCRequests == Submissions

\* The replicas are alike.
MCInit == Init /\ on["first"] = "p1"
MCSpec == MCInit /\ [][Next]_vars /\ Fairness
=============================================================================
