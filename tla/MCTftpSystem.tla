--------------------------- MODULE MCTftpSystem ---------------------------
(***************************************************************************)
(* Instances of TftpSystem for TLC: one client, who downloads the file     *)
(* that is there or uploads a new one of some length, in either mode.      *)
(***************************************************************************)
EXTENDS TftpSystem

CONSTANTS
  Stored,     \* name of the file present at start
  StoredLen,  \* its length
  Fresh       \* name of the file that is uploaded

MCInitFiles ==
  [f \in {Stored} |->
     [i \in 1 .. StoredLen |-> IF i \in LineEnds THEN LF ELSE <<f, i>>]]
MCUnit == ((Client \cup {Stored}) \X (1 .. 8)) \cup {CR, LF}
MCPlans ==
  [req : {"RRQ"} \cap Request, file : {Stored}, mode : Mode, size : {0}]
  \cup [req : {"WRQ"} \cap Request, file : {Fresh}, mode : Mode, size : 0 .. MaxUpload]
============================================================================
