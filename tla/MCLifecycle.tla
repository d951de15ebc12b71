---- MODULE MCLifecycle ----
(* Lifecycle for TLC: one input, two outputs of either kind, one client.   *)
EXTENDS Lifecycle

CONSTANTS carol

MCClients == {carol}
====
