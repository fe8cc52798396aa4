---------------------------- MODULE MCLineBuffer ----------------------------
(* A small instance of LineBuffer: every input of up to five bytes, read in  *)
(* chunks of every size, with a buffer shorter than the longest lines and a  *)
(* string that must grow several times.                                      *)
EXTENDS LineBuffer

CONSTANTS x

MCInputs == UNION {[1..len -> {x, Newline}] : len \in 0..5}
=============================================================================
