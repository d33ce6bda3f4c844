---------------------------- MODULE TftpServer ----------------------------
(***************************************************************************)
(* The TFTP module of iwtftpd (src/src/tftp.c): one thread runs            *)
(* iwtftp_service, an epoll loop that receives datagrams, lets tftp_proc   *)
(* answer each, registers the sockets of new sessions, retransmits on a    *)
(* timer and deletes finished sessions.  Every session has a socket of its *)
(* own and talks to the datastore under that socket's number.              *)
(*                                                                         *)
(* A turn of the loop is cut into steps at pc: one step by datagram of the *)
(* batch epoll_wait returned, one by turn of the loops of get_session_data *)
(* and put_session_data ("get", "put"), one for update_event, one by       *)
(* session visited by resend_allsession and by cleanup_session.  The loop  *)
(* is one thread, so only the clock, the signal and the clients interleave *)
(* with it; the order of the steps is the order of the code.               *)
(*                                                                         *)
(* A client is a transfer identifier (address and port) and keeps to the   *)
(* role its request gave it: a reader acknowledges, a writer sends data.   *)
(* Its datagrams may be lost, repeated and late.  The units of an upload   *)
(* of c are <<c, 1>>, <<c, 2>>, ..., with line ends at some places, so the *)
(* origin and the place of every stored unit can be seen.                  *)
(***************************************************************************)
EXTENDS SessionBuffer, FiniteSets

CONSTANTS
  Client,          \* address and port pairs
  SvSock,          \* server sockets (IPv4 and IPv6)
  BlkMax,          \* TFTP_BLKNUM_MAX
  RetryMax,        \* RESEND_COUNTMAX
  ResendInterval,  \* RESEND_INTERVAL
  CloseWait,       \* SESSION_CLOSEWAIT
  EventsMax,       \* EVENTS_MAX
  FreedNext,       \* what cleanup_session can read from a node it just freed
  InitFiles,       \* content of the datastore at start
  Request,         \* kinds of request the clients make
  Mode,            \* modes they ask for
  MaxUpload,       \* bound: the longest file a client uploads, in units
  LineEnds,        \* the places of uploaded files that hold a line end
  EpollFaults,     \* TRUE: epoll_ctl may refuse to add a socket that is there
  Malformed,       \* TRUE: unparsable datagrams and unknown opcodes arrive too
  Signals          \* TRUE: a terminating signal may arrive

NoSock == -1

\* The text of an upload has line ends but no CR of its own.
ASSUME ServerAssumption ==
  /\ SvSock \subseteq Nat /\ SvSock \cap Descriptor = {}
  /\ BlkMax \in Nat /\ BlkMax > 1
  /\ RetryMax \in Nat /\ ResendInterval \in Nat /\ CloseWait \in Nat
  /\ EventsMax \in Nat \ {0}
  /\ FreedNext \subseteq {"kept", "null", "fault"} /\ FreedNext # {}
  /\ IsFiles(InitFiles)
  /\ Request \subseteq {"RRQ", "WRQ"}
  /\ Mode \subseteq {"octet", "netascii"}
  /\ MaxUpload \in Nat /\ LineEnds \subseteq Nat
  /\ \A c \in Client, i \in 1 .. MaxUpload : <<c, i>> \in Unit \ {CR}
  /\ EpollFaults \in BOOLEAN /\ Malformed \in BOOLEAN /\ Signals \in BOOLEAN

\* The clock is read only in comparisons with the two intervals; from AgeMax
\* on, a session is older than both.
AgeMax == (IF ResendInterval > CloseWait THEN ResendInterval ELSE CloseWait) + 1

VARIABLES
  ds,        \* the datastore: files and dhead
  ses,       \* struct session, by the client it belongs to
  seshead,   \* order of the session list, the newest first
  epoll,     \* client sockets registered with epoll
  events,    \* sockets of the current batch not yet read
  pc,        \* where the loop is
  job,       \* the call of get_session_data or put_session_data under way
  todo,      \* sessions resend_allsession or cleanup_session has yet to visit
  sinfo,     \* the message in sinfo.msgbuf
  out,       \* datagrams sent by the last step, and what it logged
  exitflag   \* g_evloop_exit

vars == <<ds, ses, seshead, epoll, events, pc, job, todo, sinfo, out, exitflag>>

Nobody == "nobody"
Self == "self"

\* A message: whom it was built for, the opcode, the two bytes after it (block
\* number or error code), the data; k is history, the block's index in the
\* transfer.
NoMsg == [for |-> Nobody, op |-> "none", blk |-> 0, k |-> 0, data |-> <<>>]

\* enum TFTP_ERRORCODE
SEEMSG == 0
NOTFOUND == 1
ACCESSDENY == 2
ILLEGALOPE == 4
UNKNOWNID == 5
FILEEXIST == 6

make_tftperr_msg(c, code) ==
  [for |-> c, op |-> "ERROR", blk |-> code, k |-> 0, data |-> <<>>]

NoJob == [cl |-> Nobody, data |-> <<>>, k |-> 0]

----------------------------------------------------------------------------
(***************************************************************************)
(* Sessions.  The fields after `disabled` are history: the request, the    *)
(* number of blocks so far (not modulo anything), the size of the upload,  *)
(* whether the datastore already had a stream under the new socket's       *)
(* number and the requested name, and whether epoll_ctl refused to add the *)
(* socket.                                                                 *)
(***************************************************************************)
NewSession(fd, f, mode, req, n) ==
  [clsock |-> fd, regevent |-> FALSE, tftpmode |-> mode, sesbuf |-> <<>>,
   fopt |-> FALSE, filename |-> f, blknum |-> 0, fin |-> FALSE,
   lastmsg |-> NoMsg, age |-> AgeMax, retrycount |-> 0, disabled |-> FALSE,
   req |-> req, nblk |-> 0, size |-> n,
   inherited |-> get_dsession(ds, fd, f) # {}, refused |-> FALSE]

Free == Descriptor \ (StreamFds(ds) \cup {ses[c].clsock : c \in DOMAIN ses})

\* Mutated form of NextBlk: no roll-over.
MutNextBlk(b) == b + 1

NextBlk(b) == IF b < BlkMax THEN b + 1 ELSE 0

\* The k-th block of a text, from 1.
Block(text, k) ==
  SubSeq(text, (k - 1) * DataLen + 1,
         IF k * DataLen <= Len(text) THEN k * DataLen ELSE Len(text))

Upload(c, n) == [i \in 1 .. n |-> IF i \in LineEnds THEN LF ELSE <<c, i>>]

LastBlock(text) == (Len(text) \div DataLen) + 1

\* Mutated form of Remember: the message is not copied.
MutRememberTimer(x, msg) == [x EXCEPT !.age = 0, !.retrycount = 0]

\* The message is kept for resending, the timer and the count start again.
Remember(x, msg) ==
  [x EXCEPT !.lastmsg = msg, !.age = 0, !.retrycount = 0]

----------------------------------------------------------------------------
(***************************************************************************)
(* tftp_proc, one action by opcode and case, with the sendto that follows  *)
(* it in iwtftp_service.  The session is found by the sender's address, so *)
(* it does not matter on which socket a datagram comes in.                 *)
(***************************************************************************)
Receive(sock) ==
  /\ pc = "recv"
  /\ sock \in events
  /\ events' = events \ {sock}
  /\ UNCHANGED <<epoll, todo, exitflag>>

\* tftp_proc returned: on to the next datagram.
Return == pc' = "recv" /\ job' = NoJob

\* tftp_proc called get_session_data or put_session_data.
Call(p, c, data, k) ==
  /\ pc' = p
  /\ job' = [cl |-> c, data |-> data, k |-> k]
  /\ out' = {}
  /\ UNCHANGED sinfo

\* sendto to c in the name of session x: not when x is disabled, and to nobody
\* without a socket.  `completed` is the log line, written whether sendto
\* worked or not.
Sendto(c, m, x) ==
  IF x.disabled THEN {}
  ELSE {[to |-> IF x.clsock = NoSock THEN Nobody ELSE c, msg |-> m,
         completed |-> IF x.fin THEN x.filename ELSE Nobody]}

\* done, resend and errsend of tftp_proc for a client with a session.
Done(c, x, m) ==
  /\ ses' = [ses EXCEPT ![c] = x]
  /\ sinfo' = m
  /\ out' = Sendto(c, m, x)
  /\ Return
  /\ UNCHANGED seshead

\* Mutated form of Resend: one repetition too many.
MutResend(c) ==
  LET x == ses[c] IN
  \/ /\ x.retrycount <= RetryMax
     /\ Done(c, [x EXCEPT !.age = 0, !.retrycount = @ + 1], x.lastmsg)
     /\ UNCHANGED ds
  \/ /\ x.retrycount > RetryMax
     /\ ds' \in close_data(ds, x)
     /\ Done(c, [x EXCEPT !.disabled = TRUE], sinfo)

Resend(c) ==
  LET x == ses[c] IN
  \/ /\ x.retrycount < RetryMax
     /\ Done(c, [x EXCEPT !.age = 0, !.retrycount = @ + 1], x.lastmsg)
     /\ UNCHANGED ds
  \/ /\ x.retrycount >= RetryMax
     /\ ds' \in close_data(ds, x)
     /\ Done(c, [x EXCEPT !.disabled = TRUE], sinfo)

\* The dsession is not closed here.
Errsend(c, x, code) ==
  Done(c, [x EXCEPT !.fin = TRUE], make_tftperr_msg(c, code))

\* errsend without a session.
Refuse(c, code) ==
  /\ sinfo' = make_tftperr_msg(c, code)
  /\ out' = {[to |-> c, msg |-> make_tftperr_msg(c, code), completed |-> Nobody]}
  /\ Return
  /\ UNCHANGED <<ds, ses, seshead>>

\* goto done without having built a message: sinfo.msgbuf is as it was.
SendOld(c) ==
  /\ out' = IF c \in DOMAIN ses THEN Sendto(c, sinfo, ses[c])
            ELSE {[to |-> c, msg |-> sinfo, completed |-> Nobody]}
  /\ Return
  /\ UNCHANGED <<ds, ses, seshead, sinfo>>

----------------------------------------------------------------------------
(***************************************************************************)
(* make_tftpdata_msg, with the loop of get_session_data: job.data is what  *)
(* the message holds so far.  The block number moves before the data is    *)
(* read, and stays moved on error.                                         *)
(***************************************************************************)
Advanced(x) == [x EXCEPT !.blknum = NextBlk(@), !.nblk = @ + 1]

\* Mutated form of Loaded: the rest of the buffer is thrown away before it is
\* filled again.
MutLoadedEarly(s, x, free) ==
  IF Len(x.sesbuf) >= DataLen THEN {[ds |-> s, ses |-> x, ok |-> TRUE]}
  ELSE load_data(s, x, free)

Loaded(s, x, free) ==
  IF x.sesbuf # <<>> THEN {[ds |-> s, ses |-> x, ok |-> TRUE]}
  ELSE load_data(s, x, free)

make_tftpdata_msg(c, x, s, data) ==
  LET last == Len(data) < DataLen
      msg  == [for |-> c, op |-> "DATA", blk |-> x.blknum, k |-> x.nblk,
               data |-> data]
  IN  /\ ds' \in IF last THEN close_data(s, x) ELSE {s}
      /\ Done(c, Remember([x EXCEPT !.fin = @ \/ last], msg), msg)

get_session_data ==
  /\ pc = "get"
  /\ LET c == job.cl IN
     \E r \in Loaded(ds, ses[c], Free) :
       LET t    == Taken(r.ses, DataLen - Len(job.data))
           data == job.data \o t.data
           x    == [r.ses EXCEPT !.sesbuf = t.sesbuf, !.fopt = t.fopt]
       IN
       \/ ~r.ok /\ Errsend(c, r.ses, SEEMSG) /\ ds' = r.ds
       \/ /\ r.ok /\ r.ses.sesbuf = <<>>
          /\ make_tftpdata_msg(c, r.ses, r.ds, job.data)
       \/ /\ r.ok /\ r.ses.sesbuf # <<>> /\ Len(data) = DataLen
          /\ make_tftpdata_msg(c, x, r.ds, data)
       \/ /\ r.ok /\ r.ses.sesbuf # <<>> /\ Len(data) < DataLen
          /\ ds' = r.ds
          /\ ses' = [ses EXCEPT ![c] = x]
          /\ Call("get", c, data, 0)
          /\ UNCHANGED seshead
  /\ UNCHANGED <<epoll, events, todo, exitflag>>

(***************************************************************************)
(* DATA of an upload, with the loop of put_session_data: job.data is what  *)
(* is still to be taken from the message, job.k its block.  The buffer is  *)
(* saved when it is full or the transfer is finished.                      *)
(***************************************************************************)
make_tftpack_msg(c, x, k) ==
  LET blk == k % (BlkMax + 1)
      msg == [for |-> c, op |-> "ACK", blk |-> blk, k |-> k, data |-> <<>>]
  IN  Remember([x EXCEPT !.blknum = blk, !.nblk = k], msg)

Acknowledge(c, x, s, k) ==
  LET y == make_tftpack_msg(c, x, k)
  IN  /\ ds' \in IF x.fin THEN close_data(s, x) ELSE {s}
      /\ Done(c, y, y.lastmsg)

\* Mutated form of Saved: the last block does not flush the buffer.
MutSavedFullOnly(s, x, free) ==
  IF Len(x.sesbuf) = BufSize THEN save_data(s, x, free)
  ELSE {[ds |-> s, ses |-> x, ok |-> TRUE]}

Saved(s, x, free) ==
  IF Len(x.sesbuf) = BufSize \/ x.fin THEN save_data(s, x, free)
  ELSE {[ds |-> s, ses |-> x, ok |-> TRUE]}

put_session_data ==
  /\ pc = "put"
  /\ LET c    == job.cl
         t    == Given(ses[c], job.data)
         rest == SubSeq(job.data, t.used + 1, Len(job.data))
     IN
     \E r \in Saved(ds, [ses[c] EXCEPT !.sesbuf = @ \o t.kept], Free) :
       \/ ~r.ok /\ Errsend(c, r.ses, ACCESSDENY) /\ ds' = r.ds
       \/ r.ok /\ rest = <<>> /\ Acknowledge(c, r.ses, r.ds, job.k)
       \/ /\ r.ok /\ rest # <<>>
          /\ ds' = r.ds
          /\ ses' = [ses EXCEPT ![c] = r.ses]
          /\ Call("put", c, rest, job.k)
          /\ UNCHANGED seshead
  /\ UNCHANGED <<epoll, events, todo, exitflag>>

----------------------------------------------------------------------------

\* A request of a client with a session is taken for a repetition.
RecvRepeatedRequest(sock, c) ==
  /\ Receive(sock)
  /\ c \in DOMAIN ses
  /\ Resend(c)

RecvRefusedRequest(sock, c, req, f) ==
  /\ Receive(sock)
  /\ c \notin DOMAIN ses
  /\ \/ req = "RRQ" /\ ~iwds_isfile(ds, f) /\ Refuse(c, NOTFOUND)
     \/ req = "WRQ" /\ iwds_isfile(ds, f) /\ Refuse(c, FILEEXIST)

\* create_session links the node before the socket is there, and
\* add_newsession leaves it linked when the socket cannot be had.
AddSession(c, x) ==
  /\ ses' = Put(ses, c, x)
  /\ seshead' = <<c>> \o seshead

RecvRequestNoSocket(sock, c, req, f, mode, n) ==
  /\ Receive(sock)
  /\ c \notin DOMAIN ses
  /\ IF req = "RRQ" THEN iwds_isfile(ds, f) ELSE ~iwds_isfile(ds, f)
  /\ Free = {}
  /\ AddSession(c, [NewSession(NoSock, f, mode, req, n) EXCEPT
                      !.inherited = FALSE])
  /\ sinfo' = make_tftperr_msg(c, SEEMSG)
  /\ out' = {[to |-> c, msg |-> make_tftperr_msg(c, SEEMSG),
              completed |-> Nobody]}
  /\ Return
  /\ UNCHANGED ds

RecvRRQ(sock, c, f, mode) ==
  /\ Receive(sock)
  /\ c \notin DOMAIN ses
  /\ iwds_isfile(ds, f)
  /\ \E fd \in Lowest(Free) :
       AddSession(c, Advanced(NewSession(fd, f, mode, "RRQ", 0)))
  /\ Call("get", c, <<>>, 0)
  /\ UNCHANGED ds

RecvWRQ(sock, c, f, mode, n) ==
  /\ Receive(sock)
  /\ c \notin DOMAIN ses
  /\ ~iwds_isfile(ds, f)
  /\ \E fd \in Lowest(Free) :
       LET x == make_tftpack_msg(c, NewSession(fd, f, mode, "WRQ", n), 0)
       IN  /\ AddSession(c, x)
           /\ sinfo' = x.lastmsg
           /\ out' = Sendto(c, x.lastmsg, x)
  /\ Return
  /\ UNCHANGED ds

\* DATA, block k of an upload, numbered on the wire modulo BlkMax + 1.
RecvData(sock, c, k, data) ==
  LET x   == ses[c]
      blk == k % (BlkMax + 1)
      y   == [x EXCEPT !.fin = @ \/ Len(data) < DataLen]
  IN
  /\ Receive(sock)
  /\ c \in DOMAIN ses
  /\ \/ blk = x.blknum /\ Resend(c)
     \/ /\ blk # x.blknum /\ blk = NextBlk(x.blknum)
        /\ \/ /\ x.sesbuf = <<>> /\ data = <<>>
              /\ Acknowledge(c, y, ds, k)
           \/ /\ x.sesbuf # <<>> \/ data # <<>>
              /\ ses' = [ses EXCEPT ![c] = y]
              /\ Call("put", c, data, k)
              /\ UNCHANGED <<ds, seshead>>
     \/ /\ blk # x.blknum /\ blk # NextBlk(x.blknum)
        /\ Errsend(c, x, ILLEGALOPE)
        /\ UNCHANGED ds

\* ACK of block k.  blknum - 1 is computed as an int: -1 when blknum is 0.
RecvAck(sock, c, k) ==
  LET x   == ses[c]
      blk == k % (BlkMax + 1)
  IN
  /\ Receive(sock)
  /\ c \in DOMAIN ses
  /\ \/ blk = x.blknum - 1 /\ Resend(c)
     \/ /\ blk = x.blknum /\ x.fin
        /\ Done(c, [x EXCEPT !.disabled = TRUE], sinfo)
        /\ UNCHANGED ds
     \/ /\ blk = x.blknum /\ ~x.fin
        /\ ses' = [ses EXCEPT ![c] = Advanced(x)]
        /\ Call("get", c, <<>>, 0)
        /\ UNCHANGED <<ds, seshead>>
     \/ /\ blk # x.blknum - 1 /\ blk # x.blknum
        /\ SendOld(c)

RecvError(sock, c) ==
  /\ Receive(sock)
  /\ c \in DOMAIN ses
  /\ ds' \in close_data(ds, ses[c])
  /\ Done(c, [ses[c] EXCEPT !.disabled = TRUE], sinfo)

\* DATA or ACK without a session: unknown transfer identifier.
RecvStray(sock, c) ==
  /\ Receive(sock)
  /\ c \notin DOMAIN ses
  /\ Refuse(c, UNKNOWNID)

\* What resend_allsession sent to the session's own address comes in: nobody
\* has a session there.  The ERROR goes the same way and is then ignored.
RecvOwn(sock, c) ==
  /\ Receive(sock)
  /\ c \in DOMAIN ses /\ ses[c].clsock = sock
  /\ sinfo' = make_tftperr_msg(Self, UNKNOWNID)
  /\ out' = {[to |-> Self, msg |-> make_tftperr_msg(Self, UNKNOWNID),
              completed |-> Nobody]}
  /\ Return
  /\ UNCHANGED <<ds, ses, seshead>>

\* A request, DATA or ACK the parser rejects.
RecvUnparsable(sock, c) ==
  /\ Malformed
  /\ Receive(sock)
  /\ \/ c \in DOMAIN ses /\ Errsend(c, ses[c], ILLEGALOPE) /\ UNCHANGED ds
     \/ c \notin DOMAIN ses /\ Refuse(c, ILLEGALOPE)

RecvUnknownOpcode(sock, c) ==
  /\ Malformed
  /\ Receive(sock)
  /\ SendOld(c)

\* recvfrom fails, the sender's address cannot be converted, or an ERROR
\* comes from a client without a session: the event is skipped.
RecvNothing(sock) ==
  /\ Receive(sock)
  /\ out' = {}
  /\ Return
  /\ UNCHANGED <<ds, ses, seshead, sinfo>>

----------------------------------------------------------------------------
(***************************************************************************)
(* iwtftp_service                                                          *)
(***************************************************************************)
epoll_wait(batch) ==
  /\ pc = "wait"
  /\ batch # {} /\ Cardinality(batch) <= EventsMax
  /\ events' = batch
  /\ pc' = "recv"
  /\ out' = {}
  /\ UNCHANGED <<ds, ses, seshead, epoll, job, todo, sinfo, exitflag>>

\* No event within BLOCKING_TIMEOUT, or EINTR: update_event is not called.
EpollTimeout ==
  /\ pc = "wait"
  /\ pc' = "resend"
  /\ todo' = seshead
  /\ out' = {}
  /\ UNCHANGED <<ds, ses, seshead, epoll, events, job, sinfo, exitflag>>

\* The sessions among the new ones that epoll_ctl refuses to add: always those
\* without a socket, with EpollFaults any others too.
Refusals(new) ==
  LET none == {c \in new : ses[c].clsock = NoSock}
  IN  {r \in SUBSET new : none \subseteq r /\ (EpollFaults \/ r = none)}

\* Mutated form of update_event: a session that has sent its last block is
\* not registered.
MutUpdateUnfinished ==
  LET new     == {c \in DOMAIN ses : ~ses[c].disabled /\ ~ses[c].regevent
                                     /\ ~ses[c].fin}
      dropped == {c \in DOMAIN ses : ses[c].disabled /\ ses[c].regevent}
  IN
  /\ pc = "recv" /\ events = {}
  /\ \E refused \in Refusals(new) :
       /\ epoll' = (epoll \cup {ses[c].clsock : c \in new \ refused})
                      \ {ses[c].clsock : c \in dropped}
       /\ ses' = [c \in DOMAIN ses |->
                    [ses[c] EXCEPT !.regevent = ~ses[c].disabled,
                                   !.refused = @ \/ c \in refused]]
  /\ pc' = "resend"
  /\ todo' = seshead
  /\ out' = {}
  /\ UNCHANGED <<ds, job, seshead, events, sinfo, exitflag>>

\* regevent is set even when epoll_ctl refuses the socket, which is therefore
\* not tried again.  Taking such a socket out is refused as well, and only noted.
update_event ==
  LET new     == {c \in DOMAIN ses : ~ses[c].disabled /\ ~ses[c].regevent}
      dropped == {c \in DOMAIN ses : ses[c].disabled /\ ses[c].regevent}
  IN
  /\ pc = "recv" /\ events = {}
  /\ \E refused \in Refusals(new) :
       /\ epoll' = (epoll \cup {ses[c].clsock : c \in new \ refused})
                      \ {ses[c].clsock : c \in dropped}
       /\ ses' = [c \in DOMAIN ses |->
                    [ses[c] EXCEPT !.regevent = ~ses[c].disabled,
                                   !.refused = @ \/ c \in refused]]
  /\ pc' = "resend"
  /\ todo' = seshead
  /\ out' = {}
  /\ UNCHANGED <<ds, job, seshead, events, sinfo, exitflag>>

\* One session of resend_allsession.  The address comes from getsockname on
\* the session's socket, which is the server's own end.
ResendSession ==
  /\ pc = "resend" /\ todo # <<>>
  /\ LET c == Head(todo)
         x == ses[c]
         due == x.age > ResendInterval /\ ~x.fin /\ ~x.disabled
     IN
     \/ /\ due /\ x.retrycount >= RetryMax
        /\ ses' = [ses EXCEPT ![c].disabled = TRUE]
        /\ ds' \in close_data(ds, x)
        /\ out' = {}
     \/ /\ due /\ x.retrycount < RetryMax /\ x.clsock # NoSock
        /\ ses' = [ses EXCEPT ![c].retrycount = @ + 1, ![c].age = 0]
        /\ out' = {[to |-> Self, msg |-> x.lastmsg, completed |-> Nobody]}
        /\ UNCHANGED ds
     \/ /\ ~due \/ (x.retrycount < RetryMax /\ x.clsock = NoSock)
        /\ out' = {}
        /\ UNCHANGED <<ds, ses>>
  /\ todo' = Tail(todo)
  /\ UNCHANGED <<job, seshead, epoll, events, pc, sinfo, exitflag>>

ResendDone ==
  /\ pc = "resend" /\ todo = <<>>
  /\ pc' = "cleanup"
  /\ todo' = seshead
  /\ out' = {}
  /\ UNCHANGED <<ds, ses, seshead, epoll, events, job, sinfo, exitflag>>

\* Mutated form of del_session: the node stays on the list.
MutDelLinked(c) ==
  /\ ses' = [b \in DOMAIN ses \ {c} |-> ses[b]]
  /\ epoll' = epoll \ {ses[c].clsock}
  /\ UNCHANGED seshead

\* The node is unlinked; close(2) also takes the socket out of the epoll set.
del_session(c) ==
  /\ ses' = [b \in DOMAIN ses \ {c} |-> ses[b]]
  /\ \E i \in DOMAIN seshead :
       seshead[i] = c /\ seshead' = RemoveAt(seshead, i)
  /\ epoll' = epoll \ {ses[c].clsock}

\* Mutated form of Finished: only discarded sessions are cleaned up.
MutFinishedDisabled(x) == x.disabled

\* Mutated form of Finished: a session that is through is not kept for the
\* repetitions of its client.
MutFinishedAtOnce(x) == x.disabled \/ x.fin

Finished(x) == x.disabled \/ (x.fin /\ x.age > CloseWait)

\* One session of cleanup_session.  After del_session the loop reads the next
\* pointer of the node that was just freed: still there, NULL, or a fault.
CleanupSession ==
  /\ pc = "cleanup" /\ todo # <<>>
  /\ LET c == Head(todo) IN
     \/ /\ ~Finished(ses[c])
        /\ todo' = Tail(todo)
        /\ UNCHANGED <<ses, seshead, epoll, pc>>
     \/ /\ Finished(ses[c])
        /\ del_session(c)
        /\ \/ "kept" \in FreedNext /\ todo' = Tail(todo) /\ UNCHANGED pc
           \/ "null" \in FreedNext /\ todo' = <<>> /\ UNCHANGED pc
           \/ "fault" \in FreedNext /\ todo' = <<>> /\ pc' = "crashed"
  /\ out' = {}
  /\ UNCHANGED <<ds, job, events, sinfo, exitflag>>

\* Mutated form of CleanupDone: the flag is not tested.
MutCleanupForever ==
  /\ pc = "cleanup" /\ todo = <<>>
  /\ pc' = "wait"
  /\ out' = {}
  /\ UNCHANGED <<ds, job, ses, seshead, epoll, events, todo, sinfo, exitflag>>

\* The end of a turn, and the test of g_evloop_exit before the next.
CleanupDone ==
  /\ pc = "cleanup" /\ todo = <<>>
  /\ pc' = IF exitflag THEN "closing" ELSE "wait"
  /\ out' = {}
  /\ UNCHANGED <<ds, job, ses, seshead, epoll, events, todo, sinfo, exitflag>>

del_allsession ==
  /\ pc = "closing"
  /\ ses' = [c \in {} |-> 0]
  /\ seshead' = <<>>
  /\ epoll' = {}
  /\ pc' = "exiting"
  /\ out' = {}
  /\ UNCHANGED <<ds, job, events, todo, sinfo, exitflag>>

\* main calls iwds_exit, which closes the streams one by one, and exits.
iwds_exit ==
  /\ pc = "exiting"
  /\ \/ ds.dhead # {} /\ ds' \in iwds_exit_step(ds) /\ UNCHANGED pc
     \/ ds.dhead = {} /\ pc' = "exited" /\ UNCHANGED ds
  /\ out' = {}
  /\ UNCHANGED <<job, ses, seshead, epoll, events, todo, sinfo, exitflag>>

\* SIGTERM, SIGQUIT or SIGHUP, at any point of the loop.
sig_handler ==
  /\ Signals
  /\ pc \notin {"exited", "crashed"} /\ ~exitflag
  /\ exitflag' = TRUE
  /\ out' = {}
  /\ UNCHANGED <<ds, ses, seshead, epoll, events, pc, job, todo, sinfo>>

\* A second passes.  No turn of the loop is longer than that: the clock is
\* seen to move only while the server waits.
Tick ==
  /\ pc = "wait"
  /\ ses' = [c \in DOMAIN ses |->
               [ses[c] EXCEPT !.age = IF @ < AgeMax THEN @ + 1 ELSE @]]
  /\ out' = {}
  /\ UNCHANGED <<ds, job, seshead, epoll, events, pc, todo, sinfo, exitflag>>

Ended == pc \in {"exited", "crashed"} /\ UNCHANGED vars

----------------------------------------------------------------------------

Init ==
  /\ ds = [files |-> InitFiles, dhead |-> {}]
  /\ ses = [c \in {} |-> 0]
  /\ seshead = <<>>
  /\ epoll = {} /\ events = {}
  /\ pc = "wait" /\ job = NoJob /\ todo = <<>>
  /\ sinfo = NoMsg /\ out = {}
  /\ exitflag = FALSE

\* What a client uploads, as it travels, and how long it may be.
Sent(c) == Wire(ses[c].tftpmode, Upload(c, ses[c].size))

Sizes(req) == IF req = "WRQ" THEN 0 .. MaxUpload ELSE {0}

\* Datagrams: blocks around the current one, as repetition and delay allow; what
\* the timer sent to the session itself, until the next reply to the client.
Datagram(sock, c) ==
  \/ RecvRepeatedRequest(sock, c)
  \/ \E req \in Request, f \in File : RecvRefusedRequest(sock, c, req, f)
  \/ \E req \in Request, f \in File, mode \in Mode : \E n \in Sizes(req) :
       RecvRequestNoSocket(sock, c, req, f, mode, n)
  \/ /\ "RRQ" \in Request
     /\ \E f \in File, mode \in Mode : RecvRRQ(sock, c, f, mode)
  \/ /\ "WRQ" \in Request
     /\ \E f \in File, mode \in Mode, n \in 0 .. MaxUpload :
          RecvWRQ(sock, c, f, mode, n)
  \/ /\ c \in DOMAIN ses /\ ses[c].req = "WRQ"
     /\ \E k \in 1 .. LastBlock(Sent(c)) :
          k - ses[c].nblk \in -1 .. 1 /\ RecvData(sock, c, k, Block(Sent(c), k))
  \/ /\ c \in DOMAIN ses /\ ses[c].req = "RRQ"
     /\ \E k \in 1 .. ses[c].nblk : k >= ses[c].nblk - 2 /\ RecvAck(sock, c, k)
  \/ RecvError(sock, c)
  \/ RecvStray(sock, c)
  \/ c \in DOMAIN ses /\ ses[c].retrycount > 0 /\ RecvOwn(sock, c)
  \/ RecvUnparsable(sock, c)
  \/ RecvUnknownOpcode(sock, c)

Loop ==
  \/ \E batch \in SUBSET (SvSock \cup epoll) : epoll_wait(batch)
  \/ EpollTimeout
  \/ \E sock \in events : RecvNothing(sock) \/ \E c \in Client : Datagram(sock, c)
  \/ get_session_data \/ put_session_data
  \/ update_event
  \/ ResendSession \/ ResendDone
  \/ CleanupSession \/ CleanupDone
  \/ del_allsession \/ iwds_exit

Next == Loop \/ sig_handler \/ Tick \/ Ended

Spec == Init /\ [][Next]_vars

\* The process is scheduled, and time passes while it waits again and again.
FairSpec == Spec /\ WF_vars(Loop) /\ SF_vars(Tick)
----------------------------------------------------------------------------
(***************************************************************************)
(* Properties                                                              *)
(***************************************************************************)
Message ==
  [for : Client \cup {Self, Nobody}, op : {"none", "DATA", "ACK", "ERROR"}, blk : Nat,
   k : Nat, data : Seq(Unit)]

Session ==
  [clsock : Descriptor \cup {NoSock}, regevent : BOOLEAN,
   tftpmode : {"octet", "netascii"}, sesbuf : Seq(Unit), fopt : BOOLEAN,
   filename : File, blknum : 0 .. BlkMax, fin : BOOLEAN, lastmsg : Message,
   age : 0 .. AgeMax, retrycount : 0 .. RetryMax, disabled : BOOLEAN,
   req : {"RRQ", "WRQ"}, nblk : Nat, size : 0 .. MaxUpload,
   inherited : BOOLEAN, refused : BOOLEAN]

\* Type invariant.
TypeOK ==
  /\ IsStore(ds)
  /\ DOMAIN ses \subseteq Client
  /\ \A c \in DOMAIN ses : ses[c] \in Session /\ Len(ses[c].sesbuf) <= BufSize
  /\ seshead \in Seq(Client) /\ todo \in Seq(Client)
  /\ epoll \subseteq Descriptor
  /\ events \subseteq SvSock \cup Descriptor
  /\ pc \in {"wait", "recv", "get", "put", "resend", "cleanup", "closing",
             "exiting", "exited", "crashed"}
  /\ job \in [cl : Client \cup {Nobody}, data : Seq(Unit), k : Nat]
  /\ Len(job.data) <= DataLen
  /\ sinfo \in Message
  /\ out \subseteq [to : Client \cup {Self, Nobody}, msg : Message,
                    completed : File \cup {Nobody}]
  /\ exitflag \in BOOLEAN

\* The list holds every session once, a visited session is on it (the loops
\* over the list never reach a deleted one except through the freed node),
\* and no two sessions or streams share a descriptor.
Sockets == {ses[c].clsock : c \in DOMAIN ses} \ {NoSock}

SessionListSound ==
  /\ {seshead[i] : i \in 1 .. Len(seshead)} = DOMAIN ses
  /\ Len(seshead) = Cardinality(DOMAIN ses)
  /\ {todo[i] : i \in 1 .. Len(todo)} \subseteq DOMAIN ses
  /\ \A b, c \in DOMAIN ses :
       ses[b].clsock = ses[c].clsock /\ ses[b].clsock # NoSock => b = c
  /\ Sockets \cap StreamFds(ds) = {}

\* Whenever the server is about to block, it listens to every session that is
\* not discarded and whose socket epoll_ctl did not refuse, and to no socket
\* that is closed (update_event runs only after a batch, sessions change in
\* other places too).  The refused ones end by the timer (SessionsEnd), unless
\* they have no socket at all.
ListensToLiveSessions ==
  pc = "wait" =>
    /\ \A c \in DOMAIN ses :
         ~ses[c].disabled /\ ~ses[c].refused => ses[c].clsock \in epoll
    /\ epoll \subseteq Sockets

\* The k-th DATA of a download, sent or resent, carries the k-th block of the
\* file as it travels in the session's mode (in netascii with CR before every
\* LF, also when a block ends between the two) and the number k modulo
\* BlkMax + 1, through every refill of the session buffer and past the
\* roll-over; of a file that is being uploaded, what was there of that block.
\* The exception is a session that inherited a stream left open under its
\* socket's number and the same name.
Faithful(c) ==
  LET x == ses[c]
      wire == Wire(x.tftpmode, ds.files[x.filename])
      msg == x.lastmsg
  IN  msg.op = "DATA" =>
        /\ msg.blk = msg.k % (BlkMax + 1)
        /\ IF x.filename \in DOMAIN InitFiles
           THEN msg.data = Block(wire, msg.k)
           ELSE IsPrefix(msg.data, Block(wire, msg.k))

DownloadsFaithful ==
  \A c \in DOMAIN ses :
    ses[c].req = "RRQ" /\ ~ses[c].inherited /\ ~ses[c].disabled => Faithful(c)

\* As long as a transfer goes on, the message kept for resending is the one
\* for the block the session is at: a repetition never answers an older block.
ResendsCurrentBlock ==
  \A c \in DOMAIN ses :
    LET x == ses[c] IN
    ~x.fin /\ x.clsock # NoSock /\ c # job.cl =>
      /\ x.lastmsg.op = IF x.req = "RRQ" THEN "DATA" ELSE "ACK"
      /\ x.lastmsg.k = x.nblk
      /\ x.lastmsg.blk = x.blknum

\* Every unit of an upload the server acknowledged is in the file, in the
\* stream's buffer or in the session buffer, in order and exactly once, while
\* the transfer goes on; netascii line ends are stored as the local ones.
\* Sessions left without a socket share one key of the datastore, and are
\* excepted.
Own(c) == get_dsession(ds, ses[c].clsock, ses[c].filename)

AcknowledgedUnitsKept ==
  \A c \in DOMAIN ses :
    LET x == ses[c]
        stored == {ds.files[d.filename] \o d.wbuf : d \in Own(c)}
        known == Known(x.tftpmode, Upto(Sent(c), x.nblk * DataLen))
    IN  x.req = "WRQ" /\ x.clsock # NoSock /\ ~x.fin /\ ~x.disabled /\ c # job.cl =>
          IF stored = {} THEN x.sesbuf = known
          ELSE \A u \in stored : u \o x.sesbuf = known

\* A file that clients upload, even when several do at once and their
\* datagrams are repeated or late, holds a beginning of the upload of ONE of
\* them: nothing mixed, missing or doubled.
UploadsUnmixed ==
  \A f \in DOMAIN ds.files \ DOMAIN InitFiles :
    \E c \in Client : ds.files[f] = Upload(c, Len(ds.files[f]))

\* When the last block of a non-empty upload is acknowledged, the file is
\* complete and closed.
AcknowledgedUploadStored ==
  \A c \in DOMAIN ses :
    LET x == ses[c] IN
    x.req = "WRQ" /\ x.size > 0 /\ x.nblk = LastBlock(Sent(c)) =>
      /\ x.filename \in DOMAIN ds.files
      /\ ds.files[x.filename] = Upload(c, x.size)
      /\ Own(c) = {}

\* The server as a whole implements the store of WriteOnceStore for its
\* sessions' sockets: no step, retry or failure of one session touches a file
\* another one created, or any file that was closed.
Contract == INSTANCE WriteOnceStore
  WITH Name <- File, Writer <- Descriptor \cup {NoSock}, OnStart <- InitFiles,
       text <- ds.files, open <- Writers(ds)

ImplementsWriteOnceStore == Contract!Spec

\* A session that has its socket ends, whatever its client sends or does not
\* send, even when the clients use up all descriptors.
HasSocket(c) == c \in DOMAIN ses /\ ses[c].clsock # NoSock

SessionsEnd == \A c \in Client : HasSocket(c) ~> c \notin DOMAIN ses

\* After a signal the server stops, with every session and stream closed, even
\* when the signal falls between the test of the flag and epoll_wait.
StopsOnSignal ==
  exitflag ~> /\ pc = "exited"
              /\ DOMAIN ses = {} /\ ds.dhead = {}

(***************************************************************************)
(* What messages and comments of the code say, and the code does not do.   *)
(***************************************************************************)

\* "send a TFTP message to the client": a timer retransmission goes there.
RetransmitsToClient == \A m \in out : m.msg.op \in {"DATA", "ACK"} => m.to # Self

\* "send reply": the reply a client is sent was built for that client.
RepliesForReceiver == \A m \in out : m.to \in Client => m.msg.for = m.to

\* "session ID": the pair <<clsock, filename>> identifies one session, so
\* downloads are faithful without exception.
DownloadsAlwaysFaithful ==
  \A c \in DOMAIN ses :
    ses[c].req = "RRQ" /\ ~ses[c].disabled => Faithful(c)
============================================================================
