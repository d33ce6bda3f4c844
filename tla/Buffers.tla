------------------------------ MODULE Buffers ------------------------------
(***************************************************************************)
(* The three places where iwtftpd works on bytes: the receive buffer that  *)
(* iwtftp_service hands to the parse functions of src/src/tftp.c and never *)
(* clears, the line buffer of iwlog_print_msg in src/src/logging.c, and    *)
(* the path that join_path of src/src/util.c puts together.  The three     *)
(* never meet, so a behaviour looks at one of them.                        *)
(*                                                                         *)
(* The sizes of the log are those of the program.  Those of a datagram are *)
(* scaled down, with their order kept: octet is a mode of one letter,      *)
(* netascii one of two and the longest that fits.                          *)
(***************************************************************************)
EXTENDS Integers, Sequences, FiniteSetsExt

CONSTANTS
  NWBUF_SIZE, TFTP_FILENAME_MAX, TFTP_MODENAME_MAX, TFTP_DATALEN_MAX,
  TFTP_EMSGLEN_MAX,
  Octet, Netascii,    \* the two mode names, sequences of letters
  Letter,             \* the letters: bytes that are not 0
  MessageLens,        \* lengths of what pmsg formats
  Heads, Tails        \* directories and file names for join_path

OP_RRQ == 1
OP_DATA == 3
OP_ACK == 4
OP_ERROR == 5
OpcodeByte == {OP_RRQ, OP_DATA, OP_ACK, OP_ERROR, 9}

ASSUME BuffersAssumption ==
  /\ {NWBUF_SIZE, TFTP_FILENAME_MAX, TFTP_MODENAME_MAX, TFTP_DATALEN_MAX,
      TFTP_EMSGLEN_MAX} \subseteq Nat
  /\ 0 \notin Letter /\ Octet \in Seq(Letter) /\ Netascii \in Seq(Letter)
  /\ MessageLens \subseteq Nat
  /\ \A name \in Heads \cup Tails : name \in Seq({name[i] : i \in DOMAIN name})
  /\ NWBUF_SIZE >= 2 + TFTP_FILENAME_MAX + TFTP_MODENAME_MAX
  /\ NWBUF_SIZE >= 4 + TFTP_EMSGLEN_MAX /\ NWBUF_SIZE > 4 + TFTP_DATALEN_MAX
  /\ Len(Netascii) + 1 = TFTP_MODENAME_MAX /\ Len(Octet) < Len(Netascii)
  /\ \A h \in Heads : Len(h) > 0

IW_LOGMSGLEN_MAX == 256
TIMESTRLEN_MAX == 24
LOGMSGBUF_SIZE == TIMESTRLEN_MAX + IW_LOGMSGLEN_MAX

VARIABLES
  what,      \* which of the three this behaviour is about
  rbuf,      \* rbuf of iwtftp_service, never cleared
  dlen,      \* the length of the datagram just received
  msgbuf,    \* alog->msgbuf
  line,      \* what was asked for the log, and what was written to it
  path       \* what join_path was asked for, and its buffer

vars == <<what, rbuf, dlen, msgbuf, line, path>>

Fill(symbol, n) == [i \in 1 .. n |-> symbol]

\* rbuf is not initialised in the code; here it starts as zeros, and after one
\* datagram holds any remainder.
Init ==
  /\ what \in {"datagram", "log", "path"}
  /\ rbuf = Fill(0, NWBUF_SIZE) /\ dlen = 0
  /\ msgbuf = Fill("?", LOGMSGBUF_SIZE)
  /\ line = [time |-> <<>>, msg |-> <<>>, written |-> <<"nl">>]
  /\ path = [head |-> <<>>, tail |-> <<>>, size |-> 0, ret |-> 0, buf |-> <<>>]

\* What is put at position p of a buffer, which grows when it does not fit.
Over(buf, p, bytes) ==
  SubSeq(buf \o Fill("?", Max({0, p - 1 - Len(buf)})), 1, p - 1)
    \o bytes \o SubSeq(buf, p + Len(bytes), Len(buf))

----------------------------------------------------------------------------
(***************************************************************************)
(* Datagrams                                                               *)
(***************************************************************************)
Opcode(buf) == IF buf[1] = 0 THEN buf[2] ELSE 9

\* A NUL among the first max bytes from p on, and the text in front of it.
Terminated(buf, p, max) == \E i \in p .. p + max - 1 : buf[i] = 0
Text(buf, p) ==
  SubSeq(buf, p, Min({i \in p .. Len(buf) : buf[i] = 0} \cup {Len(buf) + 1}) - 1)

Rejected == [kind |-> "rejected"]

\* Mutated form of NameTerminated: one byte too many is looked at.
MutNameTerminated(buf) == Terminated(buf, 3, TFTP_FILENAME_MAX + 1)

NameTerminated(buf) == Terminated(buf, 3, TFTP_FILENAME_MAX)

\* Mutated form of ModeAt: the NUL of the file name is not skipped.
MutModeAt(buf) == 3 + Len(Text(buf, 3))

ModeAt(buf) == 3 + Len(Text(buf, 3)) + 1

parse_tftpreq(buf, len) ==
  IF /\ len >= 2 + 2 + Len(Octet) + 1
     /\ Opcode(buf) = OP_RRQ
     /\ NameTerminated(buf)
     /\ Terminated(buf, ModeAt(buf), TFTP_MODENAME_MAX)
     /\ Text(buf, ModeAt(buf)) \in {Octet, Netascii}
  THEN [kind |-> "request", filename |-> Text(buf, 3), mode |-> Text(buf, ModeAt(buf))]
  ELSE Rejected

parse_tftpdata(buf, len) ==
  IF len >= 4 /\ len - 4 <= TFTP_DATALEN_MAX /\ Opcode(buf) = OP_DATA
  THEN [kind |-> "data", blknum |-> SubSeq(buf, 3, 4), data |-> SubSeq(buf, 5, len)]
  ELSE Rejected

\* Mutated form of parse_tftpack: a message may be longer or shorter.
MutParseAck(buf, len) ==
  IF Opcode(buf) = OP_ACK THEN [kind |-> "ack", blknum |-> SubSeq(buf, 3, 4)]
  ELSE Rejected

parse_tftpack(buf, len) ==
  IF len = 4 /\ Opcode(buf) = OP_ACK THEN [kind |-> "ack", blknum |-> SubSeq(buf, 3, 4)]
  ELSE Rejected

parse_tftperror(buf, len) ==
  IF len >= 5 /\ Opcode(buf) = OP_ERROR /\ Terminated(buf, 5, TFTP_EMSGLEN_MAX)
  THEN [kind |-> "error", errcode |-> SubSeq(buf, 3, 4), errmsg |-> Text(buf, 5)]
  ELSE Rejected

\* tftp_proc looks at the opcode before any length.
Parsed(buf, len) ==
  CASE Opcode(buf) = OP_RRQ   -> parse_tftpreq(buf, len)
    [] Opcode(buf) = OP_DATA  -> parse_tftpdata(buf, len)
    [] Opcode(buf) = OP_ACK   -> parse_tftpack(buf, len)
    [] Opcode(buf) = OP_ERROR -> parse_tftperror(buf, len)
    [] OTHER                  -> Rejected

TailOf(n) == [1 .. n -> Letter \cup {0}]
WithOpcode(op) ==
  {<<0, op>> \o t : t \in UNION {TailOf(n) : n \in 0 .. NWBUF_SIZE - 2}}
Datagram == {<<>>, <<0>>} \cup (UNION {WithOpcode(op) : op \in OpcodeByte})

\* recvfrom writes over the front of the buffer.
recvfrom ==
  /\ what = "datagram"
  /\ \E d \in Datagram : rbuf' = Over(rbuf, 1, d) /\ dlen' = Len(d)
  /\ UNCHANGED <<what, msgbuf, line, path>>

----------------------------------------------------------------------------
(***************************************************************************)
(* Log lines                                                               *)
(***************************************************************************)
strlen(buf) == Min({i \in 1 .. Len(buf) : buf[i] = "nul"} \cup {Len(buf) + 1}) - 1

\* Mutated form of Padded: a copy that leaves the rest of the buffer alone.
MutPadded(buf, text) == Over(buf, 1, Append(text, "nul"))

\* strncpy(buf, text, size) fills up with NULs.
Padded(buf, text) == Over(buf, 1, text \o Fill("nul", LOGMSGBUF_SIZE - Len(text)))

\* Mutated form of vsnprintf: the text is not cut.
MutVsnprintf(text) == text

\* pmsg formats into a buffer of IW_LOGMSGLEN_MAX.
vsnprintf(text) == SubSeq(text, 1, Min({Len(text), IW_LOGMSGLEN_MAX - 1}))

\* The line is the time, a blank, as much of the message as there is room for,
\* and the newline that replaces the first NUL; another NUL goes behind the
\* next one.
iwlog_print_msg(time, msg) ==
  LET stamped == Over(Padded(msgbuf, time), Len(time) + 1, <<"sp", "nul">>)
      timelen == Len(time) + 1
      room    == LOGMSGBUF_SIZE - timelen - 2
      part    == SubSeq(msg, 1, Min({Len(msg), room}))
      full    == Over(stamped, timelen + 1, part)
      ended   == Over(full, strlen(full) + 1, <<"nl">>)
      done    == Over(ended, strlen(ended) + 2, <<"nul">>)
  IN  /\ msgbuf' = done
      /\ line' = [time |-> time, msg |-> msg, written |-> SubSeq(done, 1, strlen(done))]

\* The time, or one of the two notes that there is none.
Time == {Fill("t", 19), Fill("e", 18)}

pmsg ==
  /\ what = "log"
  /\ \E time \in Time, n \in MessageLens, symbol \in {"a", "b"} :
       iwlog_print_msg(time, vsnprintf(Fill(symbol, n)))
  /\ UNCHANGED <<what, rbuf, dlen, path>>

----------------------------------------------------------------------------
(***************************************************************************)
(* Paths                                                                   *)
(***************************************************************************)
\* The tail without the slashes in front.
Unrooted(tail) ==
  SubSeq(tail, Min({i \in 1 .. Len(tail) : tail[i] # "/"} \cup {Len(tail) + 1}), Len(tail))

Separator(head) == IF head[Len(head)] = "/" THEN <<>> ELSE <<"/">>

\* The result and the buffer; the count in the code leaves out the slash added.
join_path(head, tail, bufsize) ==
  LET len    == Len(head) + Len(Unrooted(tail))
      joined == head \o Separator(head) \o Unrooted(tail)
  IN  IF len < bufsize THEN [ret |-> len, buf |-> Append(joined, "nul")]
      ELSE [ret |-> -1, buf |-> <<>>]

\* Mutated form of PathSize: no place for the slash.
MutPathSize(head, tail) == Len(head) + Len(tail) + 1

\* What is_dsfile and create_dsession allocate.
PathSize(head, tail) == Len(head) + Len(tail) + 2

is_dsfile ==
  /\ what = "path"
  /\ \E head \in Heads, tail \in Tails :
       LET size == PathSize(head, tail)
           r    == join_path(head, tail, size)
       IN  path' = [head |-> head, tail |-> tail, size |-> size,
                    ret |-> r.ret, buf |-> r.buf]
  /\ UNCHANGED <<what, rbuf, dlen, msgbuf, line>>

Next == recvfrom \/ pmsg \/ is_dsfile

Spec == Init /\ [][Next]_vars

----------------------------------------------------------------------------
(***************************************************************************)
(* Properties                                                              *)
(***************************************************************************)

\* Nothing is written outside the receive buffer or the line buffer, whatever
\* the lengths of the messages before: the sizes leave one byte behind the NUL
\* that iwlog_print_msg adds for good measure.
BuffersKeptWithin ==
  /\ Len(rbuf) = NWBUF_SIZE /\ dlen \in 0 .. NWBUF_SIZE
  /\ Len(msgbuf) = LOGMSGBUF_SIZE

Datagram0 == SubSeq(rbuf, 1, dlen)

\* A DATA, an ACK or an ERROR is never made out of bytes of an earlier
\* datagram: although tftp_proc takes the opcode from the buffer before it knows
\* whether two bytes arrived, a message that is accepted has its opcode, its
\* number and its data among its own bytes, so that it is accepted in the same
\* way from a clean buffer, unless it is an ERROR with no NUL of its own.
OwnBytesOnly ==
  what = "datagram" /\ Parsed(rbuf, dlen).kind \in {"data", "ack", "error"} =>
    /\ dlen >= 4
    /\ Parsed(rbuf, dlen).kind \in {"data", "ack"} \/ (\E i \in 5 .. dlen : rbuf[i] = 0) =>
         Parsed(rbuf, dlen) = Parsed(Over(Fill(0, NWBUF_SIZE), 1, Datagram0), dlen)

Request(filename, mode) == <<0, OP_RRQ>> \o filename \o <<0>> \o mode \o <<0>>
FileName == UNION {[1 .. n -> Letter] : n \in 1 .. TFTP_FILENAME_MAX - 1}

\* A request that is complete in itself is understood as it was meant, with the
\* longest names that the limits allow, whatever the buffer held before and
\* whatever follows the second NUL.
RequestsUnderstood ==
  what = "datagram" =>
    \A filename \in FileName, mode \in {Octet, Netascii} :
      LET r == Request(filename, mode)
      IN  dlen >= Len(r) /\ SubSeq(rbuf, 1, Len(r)) = r =>
            Parsed(rbuf, dlen) = [kind |-> "request", filename |-> filename, mode |-> mode]

\* A file name that parse_tftpreq accepts fits into the session with its NUL,
\* and the mode is one that add_newsession knows: also when the request is
\* completed by what an earlier datagram left in the buffer.
RequestsFit ==
  what = "datagram" /\ Parsed(rbuf, dlen).kind = "request" =>
    /\ Len(Parsed(rbuf, dlen).filename) < TFTP_FILENAME_MAX
    /\ Parsed(rbuf, dlen).mode \in {Octet, Netascii}

\* A line of the log is the time, the message and one newline: nothing of a
\* longer message that was there before, and nothing of the message missing.
LinesWhole ==
  what = "log" /\ line.time # <<>> =>
    line.written = line.time \o <<"sp">> \o line.msg \o <<"nl">>

\* The path of a file is the directory, one slash and the name without the
\* slashes in front, and it fits with its NUL into what was allocated.
PathsJoined ==
  what = "path" /\ path.size > 0 =>
    /\ path.ret # -1 /\ Len(path.buf) <= path.size
    /\ Separator(path.head) = <<>> => path.buf = path.head \o Unrooted(path.tail) \o <<"nul">>
    /\ Separator(path.head) # <<>> =>
         path.buf = path.head \o <<"/">> \o Unrooted(path.tail) \o <<"nul">>
============================================================================
