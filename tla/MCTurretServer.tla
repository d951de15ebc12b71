---- MODULE MCTurretServer ----
(* TurretServer for TLC: 180 degrees in two steps, one axis inverted as in   *)
(* config.json, the pointer just outside of a corner of the picture.       *)
EXTENDS TurretServer

CONSTANTS p, q

MCPages == {p, q}

MCAzimuth   == [min |-> 0, max |-> 2, default |-> 1, inverted |-> TRUE]
MCElevation == [min |-> 0, max |-> 2, default |-> 1, inverted |-> FALSE]
MCPointer   == {[az |-> -1, el |-> 3]}
====
