------------------------------ MODULE MCBridge ------------------------------
EXTENDS Bridge

CONSTANTS m1, m2, m3, m4, readings, alarms

TwoKinds == [m \in Msgs |-> IF m = m3 THEN alarms ELSE readings]
=============================================================================
