---------------------------- MODULE Datastore ----------------------------
(***************************************************************************)
(* The datastore of iwtftpd (src/src/datastore.c): files under one         *)
(* directory, opened as stdio streams that are kept in a list of datastore *)
(* sessions ("dsessions") between calls.  A dsession is found by the pair  *)
(* <<clid, filename>>, where clid is the socket descriptor of the TFTP     *)
(* session that asks (load_data, save_data and close_data of tftp.c).      *)
(*                                                                         *)
(* The module has no variables.  A store s is a record                     *)
(*    files : content by name, a function on the names that exist,         *)
(*    dhead : the dsessions, a set (get_dsession returns the first match   *)
(*            of the list; OneDsession below says there is only one).      *)
(* An operation is the SET of its outcomes, each a new store with what the *)
(* call returns, so that DatastoreCalls can drive it with arbitrary        *)
(* callers and TftpServer with the callers of tftp.c.                      *)
(*                                                                         *)
(* A call that opens a file is given `free`, the descriptors not in use.   *)
(* malloc and join_path are taken to succeed.                              *)
(***************************************************************************)
EXTENDS Integers, Sequences

CONSTANTS
  File,        \* file names a request can carry
  Unopenable,  \* names fopen refuses in either mode (permissions, no directory)
  Unit,        \* the indivisible pieces of content (bytes)
  Descriptor,  \* numbers the kernel can hand out to streams and sockets
  BufSize,     \* SESSION_BUFSIZE, in units
  StdioBlock,  \* the block in which stdio writes a stream, in units
  IoFaults     \* TRUE: reads, writes and closes may fail (a full or bad disk)

ASSUME StoreAssumption ==
  /\ Unopenable \subseteq File
  /\ Descriptor \subseteq Nat
  /\ BufSize \in Nat \ {0}
  /\ StdioBlock \in Nat \ {0}
  /\ IoFaults \in BOOLEAN

(***************************************************************************)
(* struct dsession: FILE *fp is its mode, its read position with the       *)
(* sticky end-of-file flag, the units fwrite has buffered, and its number. *)
(***************************************************************************)
DSession ==
  [clid : Int, filename : File, mode : {"r", "w"},
   pos : Nat, eof : BOOLEAN, wbuf : Seq(Unit), fd : Descriptor]

IsFiles(fs) == DOMAIN fs \subseteq File /\ fs \in [DOMAIN fs -> Seq(Unit)]

IsStore(s) ==
  /\ s = [files |-> s.files, dhead |-> s.dhead]
  /\ IsFiles(s.files)
  /\ s.dhead \subseteq DSession

Put(fs, f, v) == [g \in DOMAIN fs \cup {f} |-> IF g = f THEN v ELSE fs[g]]

Upto(u, n) == SubSeq(u, 1, n)

\* The kernel gives the lowest free number: at most one element.
Lowest(free) == {n \in free : \A m \in free : n <= m}

StreamFds(s) == {d.fd : d \in s.dhead}

\* Who writes what, for the refinement to WriteOnceStore.
Writers(s) ==
  {<<d.filename, d.clid>> : d \in {e \in s.dhead : e.mode = "w"}}

is_dsfile(s, f) == f \in DOMAIN s.files

iwds_isfile(s, f) == is_dsfile(s, f)

\* Mutated form of get_dsession: a stream at its end is not found again.
MutGetOpen(s, id, f) ==
  {d \in s.dhead : d.clid = id /\ d.filename = f /\ ~d.eof}

get_dsession(s, id, f) == {d \in s.dhead : d.clid = id /\ d.filename = f}

\* Mutated form of create_dsession: a failed fopen is not noticed.
MutCreateUnchecked(id, f, m, free) ==
  {[clid |-> id, filename |-> f, mode |-> m, pos |-> 0, eof |-> FALSE,
    wbuf |-> <<>>, fd |-> n] :
      n \in IF f \in Unopenable \/ free = {} THEN {-1} ELSE Lowest(free)}

\* The new node, or nothing when fopen fails.
create_dsession(id, f, m, free) ==
  {[clid |-> id, filename |-> f, mode |-> m, pos |-> 0, eof |-> FALSE,
    wbuf |-> <<>>, fd |-> n] :
      n \in IF f \in Unopenable THEN {} ELSE Lowest(free)}

\* What reaches the disk of the units u: all, or any prefix on a faulty disk.
Landing(u) == {Upto(u, n) : n \in IF IoFaults THEN 0 .. Len(u) ELSE {Len(u)}}

Append2(s, f, u) == [s EXCEPT !.files = Put(s.files, f, s.files[f] \o u)]

\* fopen(..., "w") creates the file empty.
Created(s, f) == [files |-> Put(s.files, f, <<>>), dhead |-> s.dhead]

\* The stream d with its position or its buffer changed.
Replaced(s, d, e) == [files |-> s.files, dhead |-> (s.dhead \ {d}) \cup {e}]

\* Unlink the node and fclose its stream; an EOF from fclose is only logged.
del_dsession(s, d) ==
  {[files |-> IF d.mode = "w" THEN Append2(s, d.filename, w).files ELSE s.files,
    dhead |-> s.dhead \ {d}] : w \in Landing(d.wbuf)}

(***************************************************************************)
(* fread: fewer units than BufSize only at the end, and then the flag is   *)
(* set and every later fread of the stream returns nothing.  It fails on a *)
(* stream opened for writing, and ferror makes iwds_read drop the dsession.*)
(* The units a failing fread did get are left out: load_data fails, the    *)
(* session is disabled, and its buffer is not looked at again.             *)
(***************************************************************************)
Fread(s, d) ==
  LET text == s.files[d.filename]
      end  == IF d.eof THEN d.pos
              ELSE IF d.pos + BufSize <= Len(text) THEN d.pos + BufSize
              ELSE Len(text)
      e    == [d EXCEPT !.pos = end, !.eof = end < d.pos + BufSize]
  IN  {[ds   |-> Replaced(s, d, e),
        data |-> SubSeq(text, d.pos + 1, end), derr |-> "OK"] :
          x \in IF d.mode = "r" THEN {0} ELSE {}}
      \cup
      {[ds |-> t, data |-> <<>>, derr |-> "READFAIL"] :
          t \in IF d.mode = "w" \/ IoFaults THEN del_dsession(s, d) ELSE {}}

\* Mutated form of Fwrite: the units short of a block are dropped.
MutFwriteTail(s, d, data) ==
  LET all == d.wbuf \o data
      n   == Len(all) - (Len(all) % StdioBlock)
      e   == [d EXCEPT !.wbuf = <<>>]
      t   == Replaced(s, d, e)
  IN  {[ds |-> Append2(t, d.filename, Upto(all, n)),
        len |-> Len(data), derr |-> "OK"]}

(***************************************************************************)
(* fwrite: whole blocks go to the file, the rest waits in the buffer.  On  *)
(* a short count iwds_write drops the dsession and still returns derr 0;   *)
(* the caller sees it in the length.                                       *)
(***************************************************************************)
Fwrite(s, d, data) ==
  LET all == d.wbuf \o data
      n   == Len(all) - (Len(all) % StdioBlock)
      e   == [d EXCEPT !.wbuf = SubSeq(all, n + 1, Len(all))]
      t   == Replaced(s, d, e)
      cut == [files |-> s.files, dhead |-> s.dhead \ {d}]
  IN  CASE d.mode = "r" -> {[ds |-> cut, len |-> 0, derr |-> "OK"]}
        [] d.mode = "w" ->
             {[ds |-> Append2(t, d.filename, Upto(all, n)),
               len |-> Len(data), derr |-> "OK"]}
             \cup
             {[ds |-> Append2(cut, d.filename, w), len |-> 0, derr |-> "OK"] :
                 w \in IF IoFaults THEN Landing(all) ELSE {}}

----------------------------------------------------------------------------

\* The caller's buffer is filled with data; derr "OK" is IW_OK.
iwds_read(s, id, f, free) ==
  LET old == get_dsession(s, id, f)
      ses == IF old # {} THEN old ELSE create_dsession(id, f, "r", free)
  IN  IF ~is_dsfile(s, f)
      THEN {[ds |-> s, data |-> <<>>, derr |-> "NOTEXIST"]}
      ELSE IF ses = {}
      THEN {[ds |-> s, data |-> <<>>, derr |-> "NOSESSION"]}
      ELSE UNION {Fread(s, d) : d \in ses}

\* Mutated form of iwds_write: the file is not looked up again before fopen.
MutWriteUnchecked(s, id, f, data, free) ==
  LET old == get_dsession(s, id, f)
      ses == IF old # {} THEN old ELSE create_dsession(id, f, "w", free)
      t   == IF old # {} THEN s ELSE Created(s, f)
  IN  IF ses = {}
      THEN {[ds |-> s, len |-> 0, derr |-> "NOSESSION"]}
      ELSE UNION {Fwrite(t, d, data) : d \in ses}

\* A name that exists is not opened for writing; no data ends the writing.
iwds_write(s, id, f, data, free) ==
  LET old == get_dsession(s, id, f)
      ses == IF old # {} THEN old ELSE create_dsession(id, f, "w", free)
      t   == IF old # {} THEN s ELSE Created(s, f)
  IN  IF old = {} /\ is_dsfile(s, f)
      THEN {[ds |-> s, len |-> 0, derr |-> "NOTPERMIT"]}
      ELSE IF ses = {}
      THEN {[ds |-> s, len |-> 0, derr |-> "NOSESSION"]}
      ELSE IF data = <<>>
      THEN {[ds |-> u, len |-> 0, derr |-> "OK"] :
               u \in UNION {del_dsession(t, d) : d \in ses}}
      ELSE UNION {Fwrite(t, d, data) : d \in ses}

\* Every caller passes dlen 0, so a missing dsession is not an error.
iwds_close(s, id, f) ==
  LET old == get_dsession(s, id, f)
  IN  IF old = {} THEN {s} ELSE UNION {del_dsession(s, d) : d \in old}

\* One turn of the loop of iwds_exit over the list.
iwds_exit_step(s) == UNION {del_dsession(s, d) : d \in s.dhead}

----------------------------------------------------------------------------
(***************************************************************************)
(* What every operation keeps true of the store.                           *)
(***************************************************************************)

\* get_dsession has one answer: a pair <<clid, filename>> has one stream.
OneDsession(s) ==
  \A d, e \in s.dhead : d.clid = e.clid /\ d.filename = e.filename => d = e

\* A file is open for writing through at most one stream, whoever asks:
\* is_dsfile is asked again by iwds_write before the file is opened.
SingleWriter(s) ==
  \A d, e \in s.dhead :
    d.mode = "w" /\ e.mode = "w" /\ d.filename = e.filename => d = e

\* Streams are over files that exist, and a reader is not past the end.
StreamsInside(s) ==
  \A d \in s.dhead :
    /\ d.filename \in DOMAIN s.files
    /\ d.mode = "r" => d.pos <= Len(s.files[d.filename]) /\ d.wbuf = <<>>

\* All of it: this is the invariant the proofs carry from call to call.
StoreSound(s) ==
  IsStore(s) /\ OneDsession(s) /\ SingleWriter(s) /\ StreamsInside(s)

\* Write-once: a step from s to t deletes no file and only appends to one,
\* and to a file only while a stream is open for writing on it.
Extends(s, t) ==
  \A f \in DOMAIN s.files :
    /\ f \in DOMAIN t.files
    /\ Len(s.files[f]) <= Len(t.files[f])
    /\ Upto(t.files[f], Len(s.files[f])) = s.files[f]
    /\ \/ t.files[f] = s.files[f]
       \/ \E d \in s.dhead : d.filename = f /\ d.mode = "w"
============================================================================
