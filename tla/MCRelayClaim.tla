---------------------------- MODULE MCRelayClaim -----------------------------
(* Instances of RelayClaim for TLC. *)
EXTENDS RelayClaim

(* A heater that may cycle freely and a compressor that may not. *)
HeaterAndCompressor == {[on |-> 0, off |-> 1], [on |-> 3, off |-> 4]}
=============================================================================
