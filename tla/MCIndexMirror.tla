---------------------------- MODULE MCIndexMirror ----------------------------
(* Instances of IndexMirror for TLC. *)
EXTENDS IndexMirror

CONSTANTS w1, w2
=============================================================================
