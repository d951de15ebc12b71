---- MODULE MCFrameBuffer ----
(* FrameBuffer for TLC: threads as model values, one or two of a kind.     *)
EXTENDS FrameBuffer

CONSTANTS snap, strm, work

MCSnapshots == {snap}
MCStreams   == {strm}
MCWorkers   == {work}
MCNoThreads == {}
====
