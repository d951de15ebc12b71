---- MODULE MCUvcCamera ----
(***************************************************************************)
(* UvcCamera for TLC: a client beside the camera thread, which changes the *)
(* resolution too and, as it starts, sets controls of its own.             *)
(***************************************************************************)
EXTENDS UvcCamera

CONSTANTS alice, gain, focus

MCCommanders == {alice}
MCControls   == {gain, focus}
MCUserClass  == {gain}
====
