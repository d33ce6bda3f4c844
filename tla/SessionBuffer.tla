-------------------------- MODULE SessionBuffer --------------------------
(***************************************************************************)
(* The buffer between a TFTP session and the datastore (src/src/tftp.c):   *)
(* load_data fills it from the file, save_data empties it into the file,   *)
(* and the units go through it in one of two modes.  In netascii mode a    *)
(* line end (LF) of a file is CR LF on the wire; a block may end between   *)
(* the two, and fopt remembers that.                                       *)
(*                                                                         *)
(* Like Datastore the module has no variables.  A session x is a record    *)
(* with at least clsock, filename, tftpmode, sesbuf, fopt and fin; sesbuf  *)
(* is what the buffer holds.  TftpServer runs the loops of                 *)
(* get_session_data and put_session_data over these operators, one step by *)
(* turn.                                                                   *)
(***************************************************************************)
EXTENDS Datastore, SequencesExt

CONSTANTS
  CR, LF,   \* two of the units
  DataLen   \* TFTP_DATALEN_MAX, in units

ASSUME BufferAssumption ==
  /\ CR \in Unit /\ LF \in Unit /\ CR # LF
  /\ DataLen \in Nat /\ DataLen > 1 /\ DataLen <= BufSize

close_data(s, x) == iwds_close(s, x.clsock, x.filename)

\* The session and the store after the buffer was filled; an error leaves
\* the buffer empty and the stream closed.
load_data(s, x, free) ==
  UNION {IF r.derr = "OK"
         THEN {[ds |-> r.ds, ses |-> [x EXCEPT !.sesbuf = r.data], ok |-> TRUE]}
         ELSE {[ds |-> t, ses |-> [x EXCEPT !.sesbuf = <<>>], ok |-> FALSE] :
                  t \in close_data(r.ds, x)} :
           r \in iwds_read(s, x.clsock, x.filename, free)}

\* Mutated form of save_data: the buffer is not emptied once saved.
MutSaveKeeps(s, x, free) ==
  UNION {IF r.derr = "OK" /\ r.len = Len(x.sesbuf)
         THEN {[ds |-> r.ds, ses |-> x, ok |-> TRUE]}
         ELSE {[ds |-> t, ses |-> x, ok |-> FALSE] : t \in close_data(r.ds, x)} :
           r \in iwds_write(s, x.clsock, x.filename, x.sesbuf, free)}

\* The buffer keeps its content when saving fails.
save_data(s, x, free) ==
  UNION {IF r.derr = "OK" /\ r.len = Len(x.sesbuf)
         THEN {[ds |-> r.ds, ses |-> [x EXCEPT !.sesbuf = <<>>], ok |-> TRUE]}
         ELSE {[ds |-> t, ses |-> x, ok |-> FALSE] : t \in close_data(r.ds, x)} :
           r \in iwds_write(s, x.clsock, x.filename, x.sesbuf, free)}

----------------------------------------------------------------------------

\* How many units of u, n at most, come before the first `stop`.
Before(u, stop, n) ==
  Max({i \in 0 .. Min({n, Len(u)}) : \A j \in 1 .. i : u[j] # stop})

\* Mutated form of local_to_netascii: the flag is not looked at, the LF after
\* a CR that ended a block gets another CR.
MutNetasciiTwice(buf, room, fopt) ==
  LET n     == Before(buf, LF, room)
      found == n < room /\ n < Len(buf)
      left  == room - n
  IN  [data |-> Upto(buf, n) \o
                  (IF ~found THEN <<>> ELSE IF left = 1 THEN <<CR>>
                   ELSE <<CR, LF>>),
       sesbuf |-> SubSeq(buf, (IF found /\ left > 1 THEN n + 2 ELSE n + 1),
                         Len(buf)),
       fopt |-> fopt]

\* One call: the units before the next line end, and the line end if there
\* is room for CR and LF; with room for one only CR, and fopt is set.
local_to_netascii(buf, room, fopt) ==
  LET n     == Before(buf, LF, room)
      found == n < room /\ n < Len(buf)
      left  == room - n
  IN  [data |-> Upto(buf, n) \o
                  (IF ~found THEN <<>> ELSE IF left = 1 THEN <<CR>>
                   ELSE IF fopt THEN <<LF>> ELSE <<CR, LF>>),
       sesbuf |-> SubSeq(buf, (IF found /\ left > 1 THEN n + 2 ELSE n + 1),
                         Len(buf)),
       fopt |-> IF found THEN left = 1 ELSE fopt]

\* One call: the units before the next CR, which is taken from the wire and
\* not stored.
netascii_to_local(room, wire) ==
  LET n == Before(wire, CR, room)
  IN  [kept |-> Upto(wire, n),
       used |-> IF n < room /\ n < Len(wire) THEN n + 1 ELSE n]

\* One turn of get_session_data after its load: from the buffer to a message
\* with room for so many units.
Taken(x, room) ==
  IF x.tftpmode = "netascii" THEN local_to_netascii(x.sesbuf, room, x.fopt)
  ELSE LET n == Min({Len(x.sesbuf), room})
       IN  [data |-> Upto(x.sesbuf, n), fopt |-> x.fopt,
            sesbuf |-> SubSeq(x.sesbuf, n + 1, Len(x.sesbuf))]

\* One turn of put_session_data before its save: from a message to the buffer.
Given(x, wire) ==
  LET room == BufSize - Len(x.sesbuf)
      n    == Min({Len(wire), room})
  IN  IF x.tftpmode = "netascii" THEN netascii_to_local(room, wire)
      ELSE [kept |-> Upto(wire, n), used |-> n]

----------------------------------------------------------------------------
(***************************************************************************)
(* What the modes are for, as a reference for the loops above.             *)
(***************************************************************************)

\* A text as it travels.  As in the code, a CR of the text goes without the NUL
\* that netascii puts after it.
Wire(mode, text) ==
  IF mode = "netascii"
  THEN FlattenSeq([i \in 1 .. Len(text) |->
                     IF text[i] = LF THEN <<CR, LF>> ELSE <<text[i]>>])
  ELSE text

\* What of a text is known from a beginning of it as it travels.
Known(mode, wire) ==
  IF mode = "netascii"
  THEN FlattenSeq([i \in 1 .. Len(wire) |->
                     IF wire[i] = CR THEN <<>> ELSE <<wire[i]>>])
  ELSE wire
============================================================================
