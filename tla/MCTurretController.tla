---- MODULE MCTurretController ----
(* TurretController for TLC: the angles are the two ends of the range.     *)
EXTENDS TurretController

MCAzimuth   == [min |-> 0, max |-> 1, default |-> 1, inverted |-> TRUE]
MCElevation == [min |-> 0, max |-> 1, default |-> 0, inverted |-> FALSE]
====
