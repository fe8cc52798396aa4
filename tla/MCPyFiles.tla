------------------------------ MODULE MCPyFiles ------------------------------
(* A small instance of PyFiles: calls for three files, each of which may fail. *)
EXTENDS PyFiles

CONSTANTS f, g, h, a, b

MCChunks == {<<a>>, <<a, b>>}
=============================================================================
