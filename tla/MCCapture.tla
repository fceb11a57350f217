---- MODULE MCCapture ----
(* Three hotels and two searches over a set, so that a run may end with any   *)
(* of the loops exhausted.                                                    *)
EXTENDS Capture
====
