---- MODULE MCOutputFile ----
(* A small instance of OutputFile. *)
EXTENDS OutputFile

MCBytes == {2, 4}
====
