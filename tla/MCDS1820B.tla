------------------------------ MODULE MCDS1820B -------------------------------
(* Three sensors on one bus.                                               *)
EXTENDS DS1820B

CONSTANTS s1, s2, s3, bus1
SensorMC == {s1, s2, s3}
BusMC == {bus1}
BusOfMC == [s \in SensorMC |-> bus1]
IfMC == <<s1, s2, s3>>
=============================================================================
