---- MODULE TurretConfig ----
(* What TurretServer and TurretController share: config.json, with the      *)
(* angles of both axes in degrees 0..Span, which stands for 0..180, and the *)
(* targets of the TurretController object, which the handlers of the server *)
(* set and the timer of the controller reads.                               *)
EXTENDS Integers, Sequences

CONSTANTS
    Span,               \* 180 degrees
    Azimuth, Elevation, \* angle_min, angle_max, angle_default, inverted
    LaserDefault        \* state_default

Axis == [min : 0..Span, max : 0..Span, default : 0..Span, inverted : BOOLEAN]
Lamp == {"off", "on"}

ASSUME ConfigAssumption ==
    /\ Span \in Nat \ {0}
    /\ Azimuth \in Axis /\ Azimuth.min <= Azimuth.default /\ Azimuth.default <= Azimuth.max
    /\ Elevation \in Axis /\ Elevation.min <= Elevation.default /\ Elevation.default <= Elevation.max
    /\ LaserDefault \in Lamp

VARIABLES
    target  \* targetAzimuth, targetElevation, targetLaserState

\* What the turret can be told, and what it is told first.
Setting == [az : 0..Span, el : 0..Span, laser : Lamp]
Default == [az |-> Azimuth.default, el |-> Elevation.default, laser |-> LaserDefault]
====
