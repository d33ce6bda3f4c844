---------------------------- MODULE TftpSystem ----------------------------
(***************************************************************************)
(* TftpServer with clients and a network, so that whole transfers can be   *)
(* judged from the client's end.  The server's steps are those of          *)
(* TftpServer; here its datagrams are the ones clients really sent.        *)
(*                                                                         *)
(* A client follows RFC 1350: it makes one request, takes the sender of    *)
(* the first answer for its peer, acknowledges every block (a repeated one *)
(* again) or sends the next block when the current one is acknowledged,    *)
(* and repeats its last datagram on a time-out.  The network reorders      *)
(* datagrams.  It loses and duplicates them, and a client's timer runs out *)
(* too early, MaxFaults times altogether.                                  *)
(*                                                                         *)
(* The port of a session is new for every session, so a session is         *)
(* addressed by a number of its own, its tid; 0 is the server's port.      *)
(***************************************************************************)
EXTENDS TftpServer

CONSTANTS
  Plans,     \* what a client may set out to do: [req, file, mode, size]
  MaxTries,  \* bound: the time-outs of a client
  MaxFaults, \* bound: losses, duplicates and time-outs that come too early
  MaxTicks   \* bound: seconds that pass

ASSUME SystemAssumption ==
  /\ Plans \subseteq [req : {"RRQ", "WRQ"}, file : File, mode : Mode,
                      size : 0 .. MaxUpload]
  /\ MaxTries \in Nat /\ MaxFaults \in Nat /\ MaxTicks \in Nat
  \* Every client can have a socket and a stream at once, and leave a stray
  \* stream: that of an upload given up.  Only a read that fails leaves others.
  /\ ~IoFaults
  /\ Cardinality(Descriptor) >= 3 * Cardinality(Client)

VARIABLES
  cl,         \* the clients
  toServer,   \* datagrams on their way to the server
  toClient,   \* and to the clients
  tid,        \* by client, the number of its last session
  faults,     \* losses, duplicates and early time-outs so far
  ticks,      \* seconds passed so far
  late        \* history: a block arrived after a newer one was sent

server == vars
network == <<toServer, toClient, tid, faults, ticks, late>>
system == <<server, cl, network>>

NoPeer == -1

\* "OWN" is what the server sent to the address of c's session.
Datagrams ==
  [from : Client, dst : Nat, op : {"REQ", "DATA", "ACK", "OWN"}, k : Nat, data : Seq(Unit)]

FirstRequest(c) == [from |-> c, dst |-> 0, op |-> "REQ", k |-> 0, data |-> <<>>]

SystemInit ==
  /\ Init
  /\ cl \in [Client -> {[plan |-> p, st |-> "start", k |-> 0, got |-> <<>>,
                         last |-> {}, peer |-> NoPeer, tries |-> 0] : p \in Plans}]
  /\ toServer = {} /\ toClient = {}
  /\ tid = [c \in Client |-> 0]
  /\ faults = 0 /\ ticks = 0 /\ late = FALSE

----------------------------------------------------------------------------
(***************************************************************************)
(* The clients                                                             *)
(***************************************************************************)

Fault == faults < MaxFaults /\ faults' = faults + 1

\* A datagram leaves the network when it is delivered, or stays once more.
Leaves(bag, bag1, d, new) ==
  \/ bag1 = (bag \ {d}) \cup new /\ UNCHANGED faults
  \/ bag1 = bag \cup new /\ Fault

Send(c, x, d) ==
  /\ cl' = [cl EXCEPT ![c] = [x EXCEPT !.last = {d}]]
  /\ toServer' = toServer \cup {d}

Start(c) ==
  /\ cl[c].st = "start"
  /\ Send(c, [cl[c] EXCEPT !.st = "wait"], FirstRequest(c))
  /\ UNCHANGED <<server, toClient, tid, faults, ticks, late>>

Stay == UNCHANGED <<cl, toServer>>

Uploaded(p, c) == Wire(p.mode, Upload(c, p.size))

ClientData(c, x, m) ==
  LET ack(k) == [from |-> c, dst |-> x.peer, op |-> "ACK", k |-> k, data |-> <<>>]
      more   == m.blk = (x.k + 1) % (BlkMax + 1)
  IN
  \/ /\ x.st = "wait" /\ more
     /\ Send(c, [x EXCEPT !.got = @ \o m.data, !.k = @ + 1,
                          !.st = IF Len(m.data) < DataLen THEN "done" ELSE "wait"],
             ack(x.k + 1))
  \/ /\ ~more /\ x.k > 0 /\ m.blk = x.k % (BlkMax + 1)
     /\ Send(c, x, ack(x.k))
  \/ ~more /\ (x.k = 0 \/ m.blk # x.k % (BlkMax + 1)) /\ Stay
  \/ x.st # "wait" /\ more /\ Stay

ClientAck(c, x, m) ==
  LET wire == Uploaded(x.plan, c)
      mine == x.st = "wait" /\ m.blk = x.k % (BlkMax + 1)
  IN
  \/ /\ mine /\ x.k = LastBlock(wire)
     /\ cl' = [cl EXCEPT ![c] = [x EXCEPT !.st = "done"]]
     /\ UNCHANGED toServer
  \/ /\ mine /\ x.k < LastBlock(wire)
     /\ Send(c, [x EXCEPT !.k = @ + 1],
             [from |-> c, dst |-> x.peer, op |-> "DATA", k |-> x.k + 1,
              data |-> Block(wire, x.k + 1)])
  \/ ~mine /\ Stay

\* A datagram from somebody else than the peer is not the transfer's.
ClientReceive(d) ==
  LET c == d.to
      m == d.msg
      x == [cl[c] EXCEPT !.peer = IF @ = NoPeer THEN d.src ELSE @]
  IN
  /\ Leaves(toClient, toClient', d, {})
  /\ \/ d.src # x.peer /\ Stay
     \/ d.src = x.peer /\ m.op = "DATA" /\ x.plan.req = "RRQ" /\ ClientData(c, x, m)
     \/ d.src = x.peer /\ m.op = "ACK" /\ x.plan.req = "WRQ" /\ ClientAck(c, x, m)
     \/ /\ d.src = x.peer /\ m.op = "ERROR"
        /\ cl' = [cl EXCEPT ![c] =
                    [x EXCEPT !.st = IF @ = "wait" THEN "failed" ELSE @]]
        /\ UNCHANGED toServer
  /\ UNCHANGED <<server, tid, ticks, late>>

\* Nothing is under way and the server is not at work on anything.
Quiet == toServer = {} /\ toClient = {} /\ job = NoJob

ClientTimeout(c) ==
  /\ cl[c].st = "wait"
  /\ IF Quiet THEN UNCHANGED faults ELSE Fault
  /\ \/ /\ cl[c].tries < MaxTries
        /\ \E d \in cl[c].last : Send(c, [cl[c] EXCEPT !.tries = @ + 1], d)
     \/ /\ cl[c].tries = MaxTries
        /\ cl' = [cl EXCEPT ![c].st = "failed"]
        /\ UNCHANGED toServer
  /\ UNCHANGED <<server, toClient, tid, ticks, late>>

\* Where a datagram can be read: a closed socket is none.
SocketOf(d) ==
  IF d.dst = 0 THEN SvSock
  ELSE IF d.from \in DOMAIN ses /\ d.dst = tid[d.from] THEN {ses[d.from].clsock}
  ELSE {}

\* Not what epoll_wait has already announced.
Lose ==
  /\ Fault
  /\ \/ /\ \E d \in toServer :
             d.op # "OWN" /\ SocketOf(d) \cap events = {} /\ toServer' = toServer \ {d}
        /\ UNCHANGED toClient
     \/ \E d \in toClient : toClient' = toClient \ {d} /\ UNCHANGED toServer
  /\ UNCHANGED <<server, cl, tid, ticks, late>>

----------------------------------------------------------------------------
(***************************************************************************)
(* The server in the network                                               *)
(***************************************************************************)

\* What tftp_proc makes of a datagram.  RecvRequestNoSocket is not here: the disk
\* works and there are descriptors enough for every session to get a socket
\* (SystemAssumption).  Datagrams to a session die with its socket.
Handle(s, d) ==
  LET c == d.from
      p == cl[c].plan
  IN
  \/ /\ d.op = "REQ"
     /\ \/ RecvRepeatedRequest(s, c)
        \/ RecvRefusedRequest(s, c, p.req, p.file)
        \/ p.req = "RRQ" /\ RecvRRQ(s, c, p.file, p.mode)
        \/ p.req = "WRQ" /\ RecvWRQ(s, c, p.file, p.mode, p.size)
  \/ d.op = "DATA" /\ RecvData(s, c, d.k, d.data)
  \/ d.op = "ACK" /\ RecvAck(s, c, d.k)
  \/ d.op = "OWN" /\ RecvOwn(s, c)

\* Replies leave from the session's socket, or from the one that was read.
Replies(dst) ==
  {[to |-> m.to, msg |-> m.msg,
    src |-> IF m.to \in DOMAIN ses' THEN tid'[m.to] ELSE dst] :
      m \in {o \in out' : o.to \in Client}}

NewTid ==
  tid' = [c \in Client |->
            IF c \in DOMAIN ses' \ DOMAIN ses THEN tid[c] + 1 ELSE tid[c]]

\* A block that arrives when its sender is further on.
Late(d) == d.op = "DATA" /\ cl[d.from].last # {d}

ServerReceive(d) ==
  /\ \E s \in SocketOf(d) \cap events : Handle(s, d)
  /\ Leaves(toServer, toServer', d, {})
  /\ NewTid
  /\ toClient' = toClient \cup Replies(d.dst)
  /\ late' = (late \/ Late(d))
  /\ UNCHANGED <<cl, ticks>>

\* The loops over the session buffer end in a reply too.
ServerTransfer ==
  /\ get_session_data \/ put_session_data
  /\ NewTid
  /\ toClient' = toClient \cup Replies(0)
  /\ UNCHANGED <<cl, toServer, faults, ticks, late>>

\* What resend_allsession just sent to the session's own address.
OwnDatagrams ==
  {[from |-> m.msg.for, dst |-> tid[m.msg.for], op |-> "OWN", k |-> 0,
    data |-> <<>>] : m \in {o \in out' : o.to = Self}}

Readable(s) == \E d \in toServer : s \in SocketOf(d)

\* epoll_wait returns at once when there is something to read, one event by
\* turn (EventsMax 1).  Datagrams to a socket that was closed are gone.
ServerStep ==
  /\ \/ \E s \in SvSock \cup epoll : Readable(s) /\ epoll_wait({s})
     \/ (\A s \in SvSock \cup epoll : ~Readable(s)) /\ EpollTimeout
     \/ update_event
     \/ ResendSession \/ ResendDone
     \/ CleanupSession \/ CleanupDone
  /\ toServer' = {d \in toServer \cup OwnDatagrams :
                     d.dst = 0 \/ (d.from \in DOMAIN ses' /\ d.dst = tid[d.from])}
  /\ UNCHANGED <<cl, toClient, tid, faults, ticks, late>>

SystemTick ==
  /\ ticks < MaxTicks
  /\ Tick
  /\ ticks' = ticks + 1
  /\ UNCHANGED <<cl, toServer, toClient, tid, faults, late>>

ServerNext ==
  ServerStep \/ ServerTransfer \/ \E d \in toServer : ServerReceive(d)

ClientNext ==
  (\E c \in Client : Start(c)) \/ \E d \in toClient : ClientReceive(d)

SystemNext ==
  \/ ServerNext \/ ClientNext
  \/ \E c \in Client : ClientTimeout(c)
  \/ Lose \/ SystemTick

\* The server and the clients are scheduled, and a client repeats itself when
\* nothing is under way any more; nothing forces a second to pass, a datagram
\* to be lost or a client to give up.
SystemSpec ==
  /\ SystemInit /\ [][SystemNext]_system
  /\ WF_system(ServerNext) /\ WF_system(ClientNext)
  /\ \A c \in Client :
       WF_system(Quiet /\ ClientTimeout(c))

----------------------------------------------------------------------------
(***************************************************************************)
(* Properties                                                              *)
(***************************************************************************)

\* Type invariant.
SystemTypeOK ==
  /\ TypeOK
  /\ \A c \in Client :
       /\ cl[c].plan \in Plans
       /\ cl[c].st \in {"start", "wait", "done", "failed"}
       /\ cl[c].last \subseteq Datagrams
  /\ toServer \subseteq Datagrams
  /\ toClient \subseteq [to : Client, msg : Message, src : Nat]

\* What a client has of its download is at any time a beginning of the file as
\* it travels in the mode it asked for, and all of it when the client is done,
\* through loss, repetition, reordering and time-outs of both ends.  Of a file
\* that is not there it has nothing, and is never done.
DownloadExact ==
  \A c \in Client :
    LET x == cl[c] IN
    x.plan.req = "RRQ" =>
      IF x.plan.file \in DOMAIN ds.files
      THEN LET wire == Wire(x.plan.mode, ds.files[x.plan.file]) IN
           /\ IsPrefix(x.got, wire)
           /\ x.st = "done" => x.got = wire
      ELSE x.got = <<>> /\ x.st # "done"

\* A client whose last block was acknowledged has its file in the datastore,
\* with local line ends; what is there before is a beginning of it.
UploadExact ==
  \A c \in Client :
    LET x == cl[c]
        text == Upload(c, x.plan.size)
    IN  x.plan.req = "WRQ" =>
          /\ x.plan.file \in DOMAIN ds.files =>
               IsPrefix(ds.files[x.plan.file], text)
          /\ x.st = "done" /\ text # <<>> =>
               x.plan.file \in DOMAIN ds.files /\ ds.files[x.plan.file] = text

\* A client alone with a new name and a good disk may get out of step with the
\* server (ILLEGALOPE), but is not denied to write.  It is, by netascii.
NeverDenied ==
  \A m \in out : m.msg.op = "ERROR" => m.msg.blk # ACCESSDENY

\* A transfer succeeds in spite of losses, duplicates and repetitions that come
\* too early, as long as they are no more than RESEND_COUNTMAX, no block is
\* overtaken by the next and the timers of the server do not run.  With the
\* last acknowledgment lost, too: its session is still there.
Disturbed == late \/ ticks > 0 \/ faults > RetryMax

Completes == <>(Disturbed \/ \A c \in Client : cl[c].st = "done")
============================================================================
