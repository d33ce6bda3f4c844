--------------------------- MODULE MCTftpServer ---------------------------
(***************************************************************************)
(* Instances of TftpServer for TLC.  If Stored is among the names, the     *)
(* datastore starts with that file; uploads go to the other names.  The    *)
(* stored file has its line ends at the same places as the uploads.        *)
(***************************************************************************)
EXTENDS TftpServer, TLC

CONSTANTS
  Stored,    \* name of the file present at start
  StoredLen  \* its length

MCInitFiles ==
  [f \in {Stored} \cap File |->
     [i \in 1 .. StoredLen |-> IF i \in LineEnds THEN LF ELSE <<f, i>>]]
MCUnit == ((Client \cup {Stored}) \X (1 .. 8)) \cup {CR, LF}
Symmetry == Permutations(Client)
============================================================================
