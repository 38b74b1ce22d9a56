--------------------------- MODULE MCStormAnalytics ---------------------------
(***************************************************************************)
(* Bounds: rain alone, with a revision; polls that hand over more than one *)
(* row; rain with a revision and the reports of a home; and enough reports *)
(* for a baseflow and a storm.                                             *)
(***************************************************************************)
EXTENDS StormAnalytics

SmallLoads ==
    { [rows |-> 3, revisions |-> 1, reports |-> 0, waiting |-> 1],
      [rows |-> 3, revisions |-> 0, reports |-> 0, waiting |-> 2],
      [rows |-> 2, revisions |-> 1, reports |-> 2, waiting |-> 1],
      [rows |-> 2, revisions |-> 0, reports |-> 4, waiting |-> 1] }

\* A storm that appears after the home's metrics of the one before.
LateStorm == {[rows |-> 2, revisions |-> 1, reports |-> 3, waiting |-> 1]}

\* Rain that appears before a storm whose baseflow the home has.
LateRain == {[rows |-> 2, revisions |-> 0, reports |-> 4, waiting |-> 1]}
==============================================================================
