------------------------- MODULE MCWatermarkConsumer -------------------------
(* Two stages; two batches of the first table, one of the second, and one  *)
(* of a table that is not watched.                                         *)
EXTENDS WatermarkConsumer

CONSTANTS b1, b2, b3, b4

MCTables == [b \in Batches |-> IF b \in {b1, b2} THEN 1 ELSE IF b = b3 THEN 2 ELSE 0]
==============================================================================
