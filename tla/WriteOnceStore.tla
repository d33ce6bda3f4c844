-------------------------- MODULE WriteOnceStore --------------------------
(***************************************************************************)
(* What the datastore of iwtftpd promises, without streams, descriptors or *)
(* buffers: a file is created by one writer, who may append to it until    *)
(* the file is sealed; after that it stays as it is for ever.              *)
(*                                                                         *)
(* DatastoreCalls implements it for arbitrary callers and TftpServer for   *)
(* the sessions of the server.                                             *)
(***************************************************************************)
EXTENDS Sequences, SequencesExt

CONSTANTS
  Name,    \* names of files
  Writer,  \* who may write
  OnStart  \* the files at the start, all sealed

VARIABLES
  text,  \* content by name
  open   \* pairs <<f, w>>: f is not sealed, w may write it

vars == <<text, open>>

Init == text = OnStart /\ open = {}

\* f, new or w's own, grows by any number of units, and stays w's or is sealed.
Write(f, w) ==
  /\ f \notin DOMAIN text \/ <<f, w>> \in open
  /\ DOMAIN text' = DOMAIN text \cup {f}
  /\ \A g \in DOMAIN text :
       IF g = f THEN IsPrefix(text[f], text'[f]) ELSE text'[g] = text[g]
  /\ \/ open' = open \cup {<<f, w>>}
     \/ open' = open \ {<<f, w>>}

Next == \E f \in Name, w \in Writer : Write(f, w)

Spec == Init /\ [][Next]_vars
============================================================================
