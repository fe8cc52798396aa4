------------------------------ MODULE MCWriter ------------------------------
(* A small instance of Writer: strings shorter than, as long as and longer   *)
(* than a buffer, so that one write can be cut by several flushes.           *)
EXTENDS Writer

CONSTANTS f, g, a, b

MCContents == {<<>>, <<a>>, <<b, a>>, <<a, b, b, a, b>>}
=============================================================================
