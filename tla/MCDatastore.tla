--------------------------- MODULE MCDatastore ---------------------------
(***************************************************************************)
(* Instance of DatastoreCalls for TLC: file names are strings, the content *)
(* of the file present at start and of every write is told apart.          *)
(***************************************************************************)
EXTENDS DatastoreCalls

MCInitFiles == [f \in {"old"} |-> <<"a", "b", "c">>]
MCChunk == {<<>>, <<"x">>, <<"y", "z">>}
============================================================================
