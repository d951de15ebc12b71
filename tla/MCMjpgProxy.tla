---- MODULE MCMjpgProxy ----
(* MjpgProxy for TLC: every picture of up to MaxFrame bytes that are dashes,  *)
(* letters of the boundary, line ends or a byte above 127, which may hold a   *)
(* boundary; and two longer.                                                  *)
EXTENDS MjpgProxy, SequencesExt

CONSTANT MaxFrame

Fitting  == BoundedSeq({45, 98, Cr, Lf, 255}, MaxFrame)
MCFrames == Fitting \cup {[i \in 1..n |-> 255] : n \in {MaxFrame + 1, MaxFrame + 2}}
====
