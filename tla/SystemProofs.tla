--------------------------- MODULE SystemProofs ---------------------------
(***************************************************************************)
(* What holds of whole transfers, seen from the clients' end, for any      *)
(* number of clients, plans, losses, duplicates, delays and time-outs.     *)
(*                                                                         *)
(* The server in the network takes steps of TftpServer, but the datagrams  *)
(* it reads are those that clients sent, however late.  So its invariants  *)
(* are proved again for these steps, from the same lemmas on its           *)
(* operations; what is new is what the datagrams under way, the clients    *)
(* and the sessions know of each other.                                    *)
(***************************************************************************)
EXTENDS TransferProofs, TftpSystem

----------------------------------------------------------------------------
(***************************************************************************)
(* What a step of a session changes                                        *)
(***************************************************************************)

\* The acknowledgment an upload keeps is that of the block it is at.
Numbered(x) == x.req = "WRQ" /\ x.lastmsg.op = "ACK" => x.lastmsg.blk = x.blknum

\* y is x after a step: of the same request, and the message it keeps is the
\* one it kept or a new one for c.
Goes(c, x, y) ==
  /\ y.req = x.req /\ y.filename = x.filename /\ y.tftpmode = x.tftpmode
  /\ y.size = x.size /\ y.clsock = x.clsock /\ y.inherited = x.inherited
  /\ x.disabled = TRUE => y.disabled = TRUE
  /\ \/ y.lastmsg = x.lastmsg /\ (x.req = "WRQ" => y.blknum = x.blknum)
     \/ y.lastmsg.for = c /\ Numbered(y)

\* x is the session c has from its request p, with a message for c or none.
Follows(c, x, p) ==
  /\ x.req = p.req /\ x.filename = p.file /\ x.tftpmode = p.mode
  /\ p.req = "WRQ" => x.size = p.size
  /\ x.clsock # NoSock
  /\ x.lastmsg.op = "none" \/ x.lastmsg.for = c
  /\ Numbered(x)

\* What is sent is the message the session of c keeps, or an ERROR, and so is
\* what is left in sinfo, unless the message is still to be made or the session
\* is given up.
Told(c) ==
  /\ \/ sinfo'.op = "ERROR"
     \/ c \in DOMAIN ses' /\ sinfo' = ses'[c].lastmsg
     \/ sinfo' = sinfo /\ pc' \in {"get", "put"} /\ job'.cl = c
     \/ sinfo' = sinfo /\ c \in DOMAIN ses' /\ ses'[c].disabled = TRUE
  /\ \A o \in out' :
       \/ o.msg.op = "ERROR"
       \/ /\ c \in DOMAIN ses' /\ ses'[c].disabled = FALSE /\ ses'[c].clsock # NoSock
          /\ o.to = c /\ o.msg = ses'[c].lastmsg

\* A step of the session of c, which it may have just got.
Speaks(c, p) ==
  \/ /\ c \in DOMAIN ses
     /\ \E y : ses' = [ses EXCEPT ![c] = y] /\ Goes(c, ses[c], y)
     /\ Told(c)
  \/ /\ c \notin DOMAIN ses
     /\ \E y : ses' = Put(ses, c, y) /\ Follows(c, y, p)
     /\ Told(c)
  \/ ses' = ses /\ Told(c)
  \/ pc = "recv" /\ c \in DOMAIN ses /\ SendOld(c)

\* done in tftp_proc, with the session's new message, an ERROR, or nothing.
LEMMA DoneSpeaks ==
  ASSUME NEW c \in DOMAIN ses, NEW y, NEW m, NEW p, Done(c, y, m),
         Goes(c, ses[c], y), ses[c].clsock # NoSock, y.disabled \in BOOLEAN,
         \/ m = y.lastmsg \/ m.op = "ERROR"
         \/ m = sinfo /\ y.disabled = TRUE
  PROVE  Speaks(c, p)
<1>1. ses' = [ses EXCEPT ![c] = y] /\ sinfo' = m /\ out' = Sendto(c, m, y)
  BY DEF Done
<1>2. c \in DOMAIN ses' /\ ses'[c] = y /\ y.clsock # NoSock
  BY <1>1 DEF Goes
<1>3. \A o \in out' : y.disabled = FALSE /\ o.to = c /\ o.msg = m
  <2> SUFFICES ASSUME NEW o \in Sendto(c, m, y)
               PROVE  y.disabled = FALSE /\ o.to = c /\ o.msg = m
    BY <1>1
  <2> QED
    BY <1>2 DEF Sendto
<1>4. Told(c)
  BY <1>1, <1>2, <1>3 DEF Told
<1> QED
  BY <1>1, <1>4 DEF Speaks

\* A call of one of the loops says nothing yet.
LEMMA CallSpeaks ==
  ASSUME NEW c \in DOMAIN ses, NEW y, NEW p, NEW l \in {"get", "put"},
         NEW data, NEW k,
         ses' = [ses EXCEPT ![c] = y], Call(l, c, data, k), Goes(c, ses[c], y)
  PROVE  Speaks(c, p)
<1>1. Told(c)
  BY DEF Call, Told
<1> QED
  BY <1>1 DEF Speaks

\* Changes that are none of the request's.
LEMMA GoesOn ==
  ASSUME NEW c, NEW x \in Session
  PROVE  /\ Goes(c, x, x)
         /\ Goes(c, x, [x EXCEPT !.fin = TRUE])
         /\ Goes(c, x, [x EXCEPT !.disabled = TRUE])
         /\ x.req = "RRQ" => Goes(c, x, Advanced(x))
         /\ \A v : Goes(c, x, [x EXCEPT !.fin = v])
         /\ \A v, w : Goes(c, x, [x EXCEPT !.age = v, !.retrycount = w])
         /\ \A m : m.for = c /\ m.op = "DATA" => Goes(c, x, Remember(x, m))
BY DEF Goes, Numbered, Session, Advanced, Remember

LEMMA GoesTwice ==
  ASSUME NEW c, NEW x, NEW y, NEW z, Goes(c, x, y), Goes(c, y, z)
  PROVE  Goes(c, x, z)
BY DEF Goes, Numbered

\* resend in tftp_proc.
LEMMA ResendSpeaks ==
  ASSUME NEW c \in DOMAIN ses, ses[c] \in Session, ses[c].clsock # NoSock, NEW p,
         Resend(c)
  PROVE  Speaks(c, p)
<1> DEFINE x == ses[c]
           n == x.retrycount + 1
           y == [x EXCEPT !.age = 0, !.retrycount = n]
           z == [x EXCEPT !.disabled = TRUE]
<1>1. Goes(c, x, y) /\ Goes(c, x, z)
  BY GoesOn
<1>2. y.lastmsg = x.lastmsg /\ y.disabled \in BOOLEAN /\ z.disabled = TRUE
  BY DEF Session
<1>3. Done(c, y, x.lastmsg) \/ Done(c, z, sinfo)
  BY DEF Resend
<1> HIDE DEF y, z
<1>4. z.disabled \in BOOLEAN
  BY <1>2
<1> QED
  BY <1>1, <1>2, <1>3, <1>4, DoneSpeaks

\* errsend in tftp_proc, and out of the two loops.
LEMMA ErrsendSpeaks ==
  ASSUME NEW c \in DOMAIN ses, NEW x \in Session, Goes(c, ses[c], x),
         ses[c].clsock # NoSock, NEW p, NEW code, Errsend(c, x, code)
  PROVE  Speaks(c, p)
<1> DEFINE y == [x EXCEPT !.fin = TRUE]
           m == make_tftperr_msg(c, code)
<1>1. Goes(c, x, y) /\ y.disabled \in BOOLEAN
  BY GoesOn DEF Session
<1>2. m.op = "ERROR"
  BY DEF make_tftperr_msg
<1>3. Done(c, y, m)
  BY DEF Errsend
<1> HIDE DEF y, m
<1>4. Goes(c, ses[c], y)
  BY <1>1, GoesTwice
<1> QED
  BY <1>1, <1>2, <1>3, <1>4, DoneSpeaks

\* The messages of the two loops.
LEMMA DataSpeaks ==
  ASSUME NEW c \in DOMAIN ses, NEW x, Sound(x), Goes(c, ses[c], x),
         ses[c].clsock # NoSock, NEW p, NEW s, NEW data,
         make_tftpdata_msg(c, x, s, data)
  PROVE  Speaks(c, p)
<1> DEFINE last == Len(data) < DataLen
           msg == [for |-> c, op |-> "DATA", blk |-> x.blknum, k |-> x.nblk,
                   data |-> data]
           b == x.fin \/ last
           z == [x EXCEPT !.fin = b]
           y == Remember(z, msg)
<1>1. x \in Session /\ b \in BOOLEAN
  BY SessionParts DEF Sound
<1>2. Goes(c, x, z) /\ z \in Session
  BY <1>1, GoesOn DEF Session
<1>3. msg.for = c /\ msg.op = "DATA"
  OBVIOUS
<1>4. Done(c, y, msg)
  BY DEF make_tftpdata_msg
<1> HIDE DEF z, msg
<1>5. Goes(c, z, y) /\ y.lastmsg = msg /\ y.disabled \in BOOLEAN
  BY <1>2, <1>3, GoesOn DEF Remember, Session
<1> HIDE DEF y
<1>6. Goes(c, ses[c], y)
  BY <1>2, <1>5, GoesTwice
<1> QED
  BY <1>4, <1>5, <1>6, DoneSpeaks

\* What make_tftpack_msg leaves of the session.
LEMMA AckGoes ==
  ASSUME NEW c, NEW x \in Session, NEW k
  PROVE  LET y == make_tftpack_msg(c, x, k)
         IN  Goes(c, x, y) /\ y.disabled = x.disabled /\ y.lastmsg.for = c
BY DEF make_tftpack_msg, Remember, Goes, Numbered, Session

LEMMA AcknowledgeSpeaks ==
  ASSUME NEW c \in DOMAIN ses, NEW x, Sound(x), Goes(c, ses[c], x),
         ses[c].clsock # NoSock, NEW p, NEW s, NEW k, Acknowledge(c, x, s, k)
  PROVE  Speaks(c, p)
<1> DEFINE y == make_tftpack_msg(c, x, k)
<1>1. x \in Session /\ x.disabled \in BOOLEAN
  BY SessionParts DEF Sound
<1>2. Goes(c, x, y) /\ y.disabled = x.disabled
  BY <1>1, AckGoes
<1>3. Done(c, y, y.lastmsg)
  BY DEF Acknowledge
<1> HIDE DEF y
<1>4. Goes(c, ses[c], y)
  BY <1>2, GoesTwice
<1> QED
  BY <1>1, <1>2, <1>3, <1>4, DoneSpeaks

\* One turn of get_session_data.
LEMMA GetSpeaks ==
  ASSUME Inv, get_session_data, ses[job.cl].clsock # NoSock, NEW p
  PROVE  job.cl \in DOMAIN ses /\ Speaks(job.cl, p)
<1> DEFINE c == job.cl
           w == ses[c]
<1>1. /\ c \in DOMAIN ses /\ Sound(w) /\ w \in Session /\ StoreSound(ds)
      /\ job.data \in Seq(Unit) /\ Len(job.data) <= DataLen
  BY DEF Inv, TypeOK, JobInv, Sound, get_session_data
<1>2. PICK r \in Loaded(ds, w, Free) :
       LET t    == Taken(r.ses, DataLen - Len(job.data))
           data == job.data \o t.data
           x    == [r.ses EXCEPT !.sesbuf = t.sesbuf, !.fopt = t.fopt]
       IN
       \/ ~r.ok /\ Errsend(c, r.ses, SEEMSG) /\ ds' = r.ds
       \/ /\ r.ok /\ r.ses.sesbuf = <<>>
          /\ make_tftpdata_msg(c, r.ses, r.ds, job.data)
       \/ /\ r.ok /\ r.ses.sesbuf # <<>> /\ Len(data) = DataLen
          /\ make_tftpdata_msg(c, x, r.ds, data)
       \/ /\ r.ok /\ r.ses.sesbuf # <<>> /\ Len(data) < DataLen
          /\ ds' = r.ds
          /\ ses' = [ses EXCEPT ![c] = x]
          /\ Call("get", c, data, 0)
          /\ UNCHANGED seshead
  BY DEF get_session_data
<1> DEFINE z    == r.ses
           t    == Taken(z, DataLen - Len(job.data))
           data == job.data \o t.data
           x    == [z EXCEPT !.sesbuf = t.sesbuf, !.fopt = t.fopt]
<1>3. TurnOf(r, z, t, data, x)
  BY DEF TurnOf
<1>4. \E u : z = [w EXCEPT !.sesbuf = u]
  <2> HIDE DEF w, c
  <2>1. \E u \in Seq(Unit) : Len(u) <= BufSize /\ r.ses = [w EXCEPT !.sesbuf = u]
    BY ONLY <1>1, r \in Loaded(ds, w, Free), LoadedBuffer
  <2> HIDE DEF z
  <2> QED
    BY <2>1 DEF z
<1>5. \/ Errsend(c, z, SEEMSG)
      \/ make_tftpdata_msg(c, z, r.ds, job.data)
      \/ make_tftpdata_msg(c, x, r.ds, data)
      \/ ses' = [ses EXCEPT ![c] = x] /\ Call("get", c, data, 0)
  BY <1>2
<1>6. \E v, b : x = [z EXCEPT !.sesbuf = v, !.fopt = b]
  OBVIOUS
<1> HIDE DEF z, t, data, x
<1>7. Sound(z) /\ Sound(x) /\ z \in Session
  BY <1>1, <1>3, TurnTypes DEF Sound
<1>8. Goes(c, w, z) /\ Goes(c, z, x)
  <2> HIDE DEF w, c
  <2>1. Goes(c, w, z)
    BY <1>1, <1>4 DEF Goes, Session
  <2>2. Goes(c, z, x)
    BY <1>6, <1>7 DEF Goes, Session
  <2> QED
    BY <2>1, <2>2
<1>9. Goes(c, w, x)
  BY <1>8, GoesTwice
<1> QED
  BY <1>1, <1>5, <1>7, <1>8, <1>9, ErrsendSpeaks, DataSpeaks, CallSpeaks

\* One turn of put_session_data.
LEMMA PutSpeaks ==
  ASSUME Inv, put_session_data, ses[job.cl].clsock # NoSock, NEW p
  PROVE  job.cl \in DOMAIN ses /\ Speaks(job.cl, p)
<1> DEFINE c    == job.cl
           w    == ses[c]
           t    == Given(w, job.data)
           rest == SubSeq(job.data, t.used + 1, Len(job.data))
           z    == [w EXCEPT !.sesbuf = @ \o t.kept]
<1>1. /\ c \in DOMAIN ses /\ Sound(w) /\ StoreSound(ds) /\ job.data \in Seq(Unit)
  BY DEF Inv, TypeOK, JobInv, Sound, put_session_data
<1>2. PICK r \in Saved(ds, z, Free) :
       \/ ~r.ok /\ Errsend(c, r.ses, ACCESSDENY) /\ ds' = r.ds
       \/ r.ok /\ rest = <<>> /\ Acknowledge(c, r.ses, r.ds, job.k)
       \/ /\ r.ok /\ rest # <<>>
          /\ ds' = r.ds
          /\ ses' = [ses EXCEPT ![c] = r.ses]
          /\ Call("put", c, rest, job.k)
          /\ UNCHANGED seshead
  BY DEF put_session_data
<1>3. Turned(w, job.data, t, z, r)
  BY <1>1 DEF Turned
<1> HIDE DEF z, t, rest
<1>4. Sound(r.ses) /\ AsBefore(w, r.ses)
  BY <1>3, TurnedIs DEF TurnLeaves
<1>5. Goes(c, w, r.ses) /\ r.ses \in Session
  BY <1>4 DEF AsBefore, Goes, Sound
<1> QED
  BY <1>1, <1>2, <1>4, <1>5, ErrsendSpeaks, AcknowledgeSpeaks, CallSpeaks

----------------------------------------------------------------------------
(***************************************************************************)
(* The datagrams clients send                                              *)
(***************************************************************************)

\* What a client with plan p may have sent: data of an upload are its blocks,
\* acknowledgments come from a download.
Honest(p, d) ==
  /\ d \in Datagrams
  /\ d.op = "DATA" =>
       /\ p.req = "WRQ" /\ d.k \in 1 .. LastBlock(Uploaded(p, d.from))
       /\ d.data = Block(Uploaded(p, d.from), d.k)
  /\ d.op = "ACK" => p.req = "RRQ"

\* Sessions come from their clients' requests.
Asked == \A c \in DOMAIN ses : Follows(c, ses[c], cl[c].plan)

LEMMA PlanParts ==
  ASSUME NEW p \in Plans
  PROVE  /\ p.req \in {"RRQ", "WRQ"} /\ p.file \in File /\ p.mode \in Mode
         /\ p.size \in 0 .. MaxUpload
BY SystemAssumption

\* The upload of a plan, as it travels.
LEMMA UploadedType ==
  ASSUME NEW c \in Client, NEW p \in Plans
  PROVE  Uploaded(p, c) \in Seq(Unit) /\ LastBlock(Uploaded(p, c)) \in Nat \ {0}
<1> DEFINE n == p.size
           u == Upload(c, n)
<1>1. n \in Nat /\ n <= MaxUpload
  BY PlanParts, Bounds
<1>2. \A i \in 1 .. n : i \in 1 .. MaxUpload
  BY <1>1, Bounds
<1>3. \A i \in 1 .. n : (IF i \in LineEnds THEN LF ELSE <<c, i>>) \in Unit
  BY <1>2, ServerAssumption, BufferAssumption
<1>4. u \in [1 .. n -> Unit]
  BY <1>3 DEF Upload
<1> HIDE DEF n
<1>5. u \in Seq(Unit)
  BY <1>1, <1>4, SeqDef
<1> HIDE DEF u
<1>6. Wire(p.mode, u) \in Seq(Unit)
  BY <1>5, WireType
<1>7. Uploaded(p, c) \in Seq(Unit)
  BY <1>6 DEF Uploaded, u, n
<1>8. LastBlock(Uploaded(p, c)) \in Nat \ {0}
  <2> DEFINE l == Len(Uploaded(p, c))
  <2>1. l \in Nat
    BY <1>7, LenProperties
  <2>2. DataLen \in Nat \ {0}
    BY BufferAssumption
  <2> HIDE DEF l
  <2>3. l \div DataLen \in Nat
    BY <2>1, <2>2, DivRem
  <2> QED
    BY <2>3 DEF LastBlock, l
<1> QED
  BY <1>7, <1>8

\* A datagram is of the client it says, and of the client's kind.
LEMMA DatagramParts ==
  ASSUME NEW d \in Datagrams
  PROVE  /\ d.from \in Client /\ d.dst \in Nat /\ d.k \in Nat /\ d.data \in Seq(Unit)
         /\ d.op \in {"REQ", "DATA", "ACK", "OWN"}
BY DEF Datagrams

\* Refused, or unknown to the socket it came to.
LEMMA RefuseSpeaks ==
  ASSUME NEW c, NEW p, NEW code, Refuse(c, code)
  PROVE  Speaks(c, p)
<1>1. Told(c)
  BY DEF Refuse, Told, make_tftperr_msg
<1> QED
  BY <1>1 DEF Refuse, Speaks

LEMMA RRQSpeaks ==
  ASSUME NEW s, NEW c \in Client, NEW p \in Plans, p.req = "RRQ",
         RecvRRQ(s, c, p.file, p.mode)
  PROVE  Speaks(c, p)
<1>1. PICK fd \in Lowest(Free) :
        AddSession(c, Advanced(NewSession(fd, p.file, p.mode, "RRQ", 0)))
  BY DEF RecvRRQ
<1> DEFINE x == Advanced(NewSession(fd, p.file, p.mode, "RRQ", 0))
<1>2. c \notin DOMAIN ses /\ ses' = Put(ses, c, x)
  BY <1>1 DEF RecvRRQ, AddSession
<1>3. fd # NoSock
  BY <1>1, StoreAssumption DEF Lowest, Free, NoSock
<1>4. Follows(c, x, p)
  BY <1>3 DEF Follows, Numbered, Advanced, NewSession, NoMsg
<1> HIDE DEF x
<1>5. Told(c)
  BY DEF RecvRRQ, Call, Told
<1> QED
  BY <1>2, <1>4, <1>5 DEF Speaks

LEMMA WRQSpeaks ==
  ASSUME NEW s, NEW c \in Client, NEW p \in Plans, p.req = "WRQ",
         RecvWRQ(s, c, p.file, p.mode, p.size)
  PROVE  Speaks(c, p)
<1>1. PICK fd \in Lowest(Free) :
       LET x == make_tftpack_msg(c, NewSession(fd, p.file, p.mode, "WRQ", p.size), 0)
       IN  /\ AddSession(c, x)
           /\ sinfo' = x.lastmsg
           /\ out' = Sendto(c, x.lastmsg, x)
  BY DEF RecvWRQ
<1> DEFINE x == make_tftpack_msg(c, NewSession(fd, p.file, p.mode, "WRQ", p.size), 0)
<1>2. /\ c \notin DOMAIN ses /\ ses' = Put(ses, c, x)
      /\ sinfo' = x.lastmsg /\ out' = Sendto(c, x.lastmsg, x)
  BY <1>1 DEF RecvWRQ, AddSession
<1>3. fd # NoSock
  BY <1>1, StoreAssumption DEF Lowest, Free, NoSock
<1>4. Follows(c, x, p) /\ x.disabled = FALSE /\ x.clsock # NoSock
  BY <1>3 DEF Follows, Numbered, make_tftpack_msg, Remember, NewSession
<1> HIDE DEF x
<1>5. c \in DOMAIN ses' /\ ses'[c] = x
  BY <1>2 DEF Put
<1>6. Told(c)
  BY <1>2, <1>4, <1>5 DEF Told, Sendto
<1> QED
  BY <1>2, <1>4, <1>6 DEF Speaks

LEMMA DataComesSpeaks ==
  ASSUME NEW s, NEW c \in DOMAIN ses, ses[c] \in Session, Sound(ses[c]),
         ses[c].clsock # NoSock, NEW p, NEW k, NEW data, RecvData(s, c, k, data)
  PROVE  Speaks(c, p)
<1> DEFINE x == ses[c]
           b == x.fin \/ Len(data) < DataLen
           y == [x EXCEPT !.fin = b]
<1>1. b \in BOOLEAN
  BY SessionParts
<1> HIDE DEF b
<1>2. Goes(c, x, y) /\ Goes(c, x, x) /\ Sound(y)
  BY <1>1 DEF Goes, Session, Sound
<1>3. \/ Resend(c) \/ Acknowledge(c, y, ds, k)
      \/ ses' = [ses EXCEPT ![c] = y] /\ Call("put", c, data, k)
      \/ Errsend(c, x, ILLEGALOPE)
  BY DEF RecvData, b
<1> HIDE DEF y
<1> QED
  BY <1>2, <1>3, ResendSpeaks, AcknowledgeSpeaks, CallSpeaks, ErrsendSpeaks

LEMMA AckComesSpeaks ==
  ASSUME NEW s, NEW c \in DOMAIN ses, ses[c] \in Session, ses[c].req = "RRQ",
         ses[c].clsock # NoSock, NEW p, NEW k, RecvAck(s, c, k)
  PROVE  Speaks(c, p)
<1> DEFINE x == ses[c]
           y == [x EXCEPT !.disabled = TRUE]
           z == Advanced(x)
<1>1. Goes(c, x, y) /\ y.disabled = TRUE /\ y.disabled \in BOOLEAN
  BY DEF Goes, Session
<1>2. Goes(c, x, z)
  BY DEF Goes, Session, Advanced
<1>3. \/ Resend(c) \/ Done(c, y, sinfo)
      \/ ses' = [ses EXCEPT ![c] = z] /\ Call("get", c, <<>>, 0)
      \/ SendOld(c)
  BY DEF RecvAck
<1> HIDE DEF y, z
<1>4. CASE SendOld(c)
  BY <1>4 DEF Speaks, RecvAck, Receive
<1> QED
  BY <1>1, <1>2, <1>3, <1>4, ResendSpeaks, DoneSpeaks, CallSpeaks

\* tftp_proc, whatever datagram it reads.
LEMMA HandleSpeaks ==
  ASSUME Inv, Asked, NEW s, NEW d, cl[d.from].plan \in Plans,
         Honest(cl[d.from].plan, d), Handle(s, d)
  PROVE  Speaks(d.from, cl[d.from].plan)
<1> DEFINE c == d.from
           p == cl[c].plan
<1>1. c \in Client /\ p \in Plans
  BY DatagramParts DEF Honest
<1>2. c \in DOMAIN ses =>
        ses[c] \in Session /\ Sound(ses[c]) /\ ses[c].clsock # NoSock
  BY DEF Inv, TypeOK, Sound, Asked, Follows
<1>3. \/ RecvRepeatedRequest(s, c)
      \/ RecvRefusedRequest(s, c, p.req, p.file)
      \/ p.req = "RRQ" /\ RecvRRQ(s, c, p.file, p.mode)
      \/ p.req = "WRQ" /\ RecvWRQ(s, c, p.file, p.mode, p.size)
      \/ RecvData(s, c, d.k, d.data) \/ (p.req = "RRQ" /\ RecvAck(s, c, d.k))
      \/ RecvOwn(s, c)
  BY DEF Handle, Honest
<1>0. c \in DOMAIN ses => ses[c].req = p.req
  BY DEF Asked, Follows
<1> SUFFICES Speaks(c, p)
  OBVIOUS
<1> HIDE DEF c, p
<1>4. CASE RecvRepeatedRequest(s, c)
  BY <1>2, <1>4, ResendSpeaks DEF RecvRepeatedRequest
<1>5. CASE RecvRefusedRequest(s, c, p.req, p.file)
  BY <1>5, RefuseSpeaks DEF RecvRefusedRequest
<1>6. CASE p.req = "RRQ" /\ RecvRRQ(s, c, p.file, p.mode)
  BY <1>1, <1>6, RRQSpeaks
<1>7. CASE p.req = "WRQ" /\ RecvWRQ(s, c, p.file, p.mode, p.size)
  BY <1>1, <1>7, WRQSpeaks
<1>8. CASE RecvData(s, c, d.k, d.data)
  <2>1. c \in DOMAIN ses
    BY <1>8 DEF RecvData
  <2> QED
    BY <1>2, <1>8, <2>1, DataComesSpeaks
<1>9. CASE p.req = "RRQ" /\ RecvAck(s, c, d.k)
  <2>1. c \in DOMAIN ses
    BY <1>9 DEF RecvAck
  <2> QED
    BY <1>0, <1>2, <1>9, <2>1, AckComesSpeaks
<1>10. CASE RecvOwn(s, c)
  <2>1. Told(c) /\ ses' = ses
    BY <1>10 DEF RecvOwn, Told, make_tftperr_msg
  <2> QED
    BY <2>1 DEF Speaks
<1> QED
  BY <1>3, <1>4, <1>5, <1>6, <1>7, <1>8, <1>9, <1>10

----------------------------------------------------------------------------
(***************************************************************************)
(* The server's invariants in the network                                  *)
(***************************************************************************)

\* What a datagram meets: the client's plan, and its session's.
Meets(c, p, d) ==
  /\ c = d.from /\ c \in Client /\ p = cl[c].plan /\ p \in Plans /\ Honest(p, d)
  /\ c \in DOMAIN ses =>
       Sound(ses[c]) /\ ses[c].req = p.req /\ ses[c].clsock # NoSock

\* A block of an upload fits a message.
LEMMA DataFits ==
  ASSUME NEW c, NEW p, NEW d, Meets(c, p, d), d.op = "DATA"
  PROVE  p.req = "WRQ" /\ d.k \in Nat /\ d.data \in Seq(Unit) /\ Len(d.data) <= DataLen
<1>1. /\ d.from = c /\ p.req = "WRQ" /\ d.k \in 1 .. LastBlock(Uploaded(p, c))
      /\ d.data = Block(Uploaded(p, c), d.k) /\ d.data \in Seq(Unit)
      /\ d.k \in Nat \ {0} /\ c \in Client /\ p \in Plans
  <2>1. d \in Datagrams
    BY DEF Meets, Honest
  <2>2. d.k \in Nat /\ d.data \in Seq(Unit)
    BY <2>1, DatagramParts
  <2>3. d.k \in 1 .. LastBlock(Uploaded(p, c))
    BY DEF Meets, Honest
  <2> QED
    BY <2>2, <2>3 DEF Meets, Honest
<1>2. Uploaded(p, c) \in Seq(Unit)
  BY <1>1, UploadedType
<1>3. Len(Block(Uploaded(p, c), d.k)) <= DataLen
  BY <1>1, <1>2, BlockType
<1> QED
  BY <1>1, <1>3

\* Every datagram visits a session, adds one, or is answered without one.
LEMMA HandleShapes ==
  ASSUME Inv, NEW c, NEW p, NEW d, Meets(c, p, d), NEW s, Handle(s, d)
  PROVE  /\ pc = "recv" /\ (Visits(c) \/ Adds(c) \/ Answers)
         /\ Receive(s)
<1>0. /\ c = d.from /\ c \in Client /\ p = cl[c].plan /\ p \in Plans
      /\ p.file \in File /\ p.mode \in Mode /\ p.size \in 0 .. MaxUpload
      /\ d \in Datagrams /\ d.k \in Nat /\ d.data \in Seq(Unit)
      /\ c \in DOMAIN ses =>
           Sound(ses[c]) /\ ses[c].req = p.req /\ ses[c].clsock # NoSock
  BY PlanParts, DatagramParts DEF Meets, Honest
<1>1. \/ RecvRepeatedRequest(s, c)
      \/ RecvRefusedRequest(s, c, p.req, p.file)
      \/ p.req = "RRQ" /\ RecvRRQ(s, c, p.file, p.mode)
      \/ p.req = "WRQ" /\ RecvWRQ(s, c, p.file, p.mode, p.size)
      \/ d.op = "DATA" /\ RecvData(s, c, d.k, d.data)
      \/ d.op = "ACK" /\ RecvAck(s, c, d.k)
      \/ RecvOwn(s, c)
  BY <1>0 DEF Handle
<1>2. Receive(s)
  BY <1>1 DEF RecvRepeatedRequest, RecvRefusedRequest, RecvRRQ, RecvWRQ, RecvData,
              RecvAck, RecvOwn
<1>3. /\ pc = "recv" /\ Aside /\ StoreSound(ds) /\ sinfo \in Message
      /\ c \in DOMAIN ses =>
           /\ Sound(ses[c]) /\ Current(ses[c]) /\ Continues(ses[c], ses[c])
           /\ Stepped(ds, ds, Free, ses[c].filename, ses[c].clsock)
  BY <1>0, <1>2, AtReceive
<1>4. NOTFOUND \in Nat /\ FILEEXIST \in Nat /\ UNKNOWNID \in Nat
  BY DEF NOTFOUND, FILEEXIST, UNKNOWNID
<1> SUFFICES Visits(c) \/ Adds(c) \/ Answers
  BY <1>2, <1>3
<1>5. CASE RecvRepeatedRequest(s, c)
  BY <1>0, <1>3, <1>5, ResendVisits DEF RecvRepeatedRequest
<1>6. CASE RecvRefusedRequest(s, c, p.req, p.file)
  BY <1>0, <1>3, <1>4, <1>6, RefuseType DEF RecvRefusedRequest
<1>7. CASE RecvRRQ(s, c, p.file, p.mode)
  BY <1>0, <1>3, <1>7, RRQAdds
<1>8. CASE RecvWRQ(s, c, p.file, p.mode, p.size)
  BY <1>0, <1>8, WRQAdds
<1>9. CASE d.op = "DATA" /\ RecvData(s, c, d.k, d.data)
  <2>1. c \in DOMAIN ses
    BY <1>9 DEF RecvData
  <2>2. p.req = "WRQ" /\ Len(d.data) <= DataLen
    BY <1>9, DataFits
  <2> QED
    BY <1>0, <1>9, <2>1, <2>2, RecvDataVisits
<1>10. CASE d.op = "ACK" /\ RecvAck(s, c, d.k)
  <2>1. c \in DOMAIN ses /\ p.req = "RRQ"
    BY <1>10 DEF RecvAck, Meets, Honest
  <2> QED
    BY <1>0, <1>10, <2>1, RecvAckVisits
<1>11. CASE RecvOwn(s, c)
  <2>1. make_tftperr_msg(Self, UNKNOWNID) \in Message
    BY <1>4, ErrMsgType DEF Peer
  <2>2. sinfo' \in Message /\ out' \subseteq Outgoing
    BY <1>11, <2>1 DEF RecvOwn, Outgoing, Peer
  <2> QED
    BY <1>3, <1>11, <2>2 DEF RecvOwn, Return, Answers
<1> QED
  BY <1>1, <1>5, <1>6, <1>7, <1>8, <1>9, <1>10, <1>11

\* Downloads stay where they are in their files.
LEMMA HandleTransfers ==
  ASSUME Inv, TransferInv, NEW c, NEW p, NEW d, Meets(c, p, d), NEW s, Handle(s, d)
  PROVE  TransferInv'
<1>0. /\ c = d.from /\ c \in Client /\ p = cl[c].plan /\ p \in Plans
      /\ p.file \in File /\ p.mode \in Mode
      /\ d.k \in Nat
      /\ c \in DOMAIN ses =>
           Sound(ses[c]) /\ ses[c].req = p.req /\ ses[c].clsock # NoSock
  BY PlanParts, DatagramParts DEF Meets, Honest
<1>1. \/ RecvRepeatedRequest(s, c)
      \/ RecvRefusedRequest(s, c, p.req, p.file)
      \/ p.req = "RRQ" /\ RecvRRQ(s, c, p.file, p.mode)
      \/ p.req = "WRQ" /\ RecvWRQ(s, c, p.file, p.mode, p.size)
      \/ d.op = "DATA" /\ RecvData(s, c, d.k, d.data)
      \/ d.op = "ACK" /\ RecvAck(s, c, d.k)
      \/ RecvOwn(s, c)
  BY <1>0 DEF Handle
<1>2. /\ pc = "recv" /\ Receive(s) /\ (Visits(c) \/ Adds(c) \/ Answers)
  BY HandleShapes
<1>3. /\ Aside /\ StoreSound(ds) /\ sinfo \in Message
      /\ c \in DOMAIN ses => Sound(ses[c]) /\ Current(ses[c])
  BY <1>0, <1>2, AtReceive
<1>4. CASE RecvRepeatedRequest(s, c)
  <2>1. c \in DOMAIN ses /\ Resend(c)
    BY <1>4 DEF RecvRepeatedRequest
  <2>2. Visits(c)
    BY <1>0, <1>3, <2>1, ResendVisits
  <2> QED
    BY <1>2, <2>1, <2>2, ResendTransfers
<1>5. CASE RecvRefusedRequest(s, c, p.req, p.file)
  <2>1. \E code \in Nat : Refuse(c, code)
    BY <1>5 DEF RecvRefusedRequest, NOTFOUND, FILEEXIST
  <2>2. Answers
    BY <1>0, <1>3, <2>1, RefuseType
  <2> QED
    BY <1>2, <2>2, AnswerTransfers
<1>6. CASE RecvRRQ(s, c, p.file, p.mode)
  BY <1>0, <1>6, RRQTransfers
<1>7. CASE RecvWRQ(s, c, p.file, p.mode, p.size)
  BY <1>0, <1>7, WRQTransfers
<1>8. CASE d.op = "DATA" /\ RecvData(s, c, d.k, d.data)
  <2>1. c \in DOMAIN ses
    BY <1>8 DEF RecvData
  <2>2. p.req = "WRQ" /\ d.data \in Seq(Unit) /\ Len(d.data) <= DataLen
    BY <1>8, DataFits
  <2>3. Visits(c)
    BY <1>0, <1>8, <2>1, <2>2, RecvDataVisits
  <2> QED
    BY <1>0, <1>2, <2>1, <2>2, <2>3, WriterVisited
<1>9. CASE d.op = "ACK" /\ RecvAck(s, c, d.k)
  <2>1. c \in DOMAIN ses /\ p.req = "RRQ"
    BY <1>9 DEF RecvAck, Meets, Honest
  <2> QED
    BY <1>0, <1>9, <2>1, AckTransfers
<1>10. CASE RecvOwn(s, c)
  <2>1. UNCHANGED <<ds, ses>> /\ pc' = "recv"
    BY <1>10 DEF RecvOwn, Return
  <2>2. Ending'
    BY <2>1 DEF Ending
  <2> QED
    BY <1>2, <2>1, <2>2, StillTransfers
<1> QED
  BY <1>1, <1>4, <1>5, <1>6, <1>7, <1>8, <1>9, <1>10

\* The server's step leaves every session one of its client's request.
LEMMA SpeaksAsked ==
  ASSUME Inv, Asked, NEW c \in Client, Speaks(c, cl[c].plan), UNCHANGED cl
  PROVE  Asked'
<1>1. CASE c \in DOMAIN ses /\ \E y : ses' = [ses EXCEPT ![c] = y] /\ Goes(c, ses[c], y)
  BY <1>1 DEF Asked, Goes, Numbered, Follows
<1>2. CASE c \notin DOMAIN ses /\ \E y : ses' = Put(ses, c, y) /\ Follows(c, y, cl[c].plan)
  <2>1. PICK y : ses' = Put(ses, c, y) /\ Follows(c, y, cl[c].plan)
    BY <1>2
  <2>2. ASSUME NEW b \in DOMAIN ses'
        PROVE  Follows(b, ses'[b], cl[b].plan)
    <3>1. /\ b = c => ses'[b] = y
          /\ b # c => b \in DOMAIN ses /\ ses'[b] = ses[b]
      BY <2>1, <2>2 DEF Put
    <3> QED
      BY <2>1, <3>1 DEF Asked
  <2> QED
    BY <2>2 DEF Asked
<1>3. CASE ses' = ses
  BY <1>3 DEF Asked
<1> QED
  BY <1>1, <1>2, <1>3 DEF Speaks, SendOld

\* Housekeeping changes nothing of the request either.
LEMMA HousekeepingGoes ==
  ASSUME Inv,
         \/ \E batch : epoll_wait(batch)
         \/ EpollTimeout \/ update_event \/ ResendSession \/ ResendDone
         \/ CleanupSession \/ CleanupDone \/ Tick
  PROVE  \A b \in DOMAIN ses' : b \in DOMAIN ses /\ Goes(b, ses[b], ses'[b])
<1> DEFINE StillGoes(b) == b \in DOMAIN ses /\ Goes(b, ses[b], ses'[b])
<1>1. \A b \in DOMAIN ses : ses[b] \in Session
  BY DEF Inv, TypeOK
<1>2. CASE (\E batch : epoll_wait(batch)) \/ EpollTimeout \/ ResendDone \/ CleanupDone
  BY <1>2 DEF epoll_wait, EpollTimeout, ResendDone, CleanupDone, Goes
<1>3. CASE update_event
  <2>1. PICK R : ses' = [b \in DOMAIN ses |->
                          [ses[b] EXCEPT !.regevent = ~ses[b].disabled,
                                         !.refused = @ \/ b \in R]]
    BY <1>3 DEF update_event
  <2>2. ASSUME NEW b \in DOMAIN ses'
        PROVE  StillGoes(b)
    <3>1. /\ b \in DOMAIN ses /\ ses[b] \in Session
          /\ ses'[b] = [ses[b] EXCEPT !.regevent = ~ses[b].disabled,
                                      !.refused = @ \/ b \in R]
      BY <1>1, <2>1, <2>2
    <3> QED
      BY <3>1 DEF Goes, Session
  <2> QED
    BY <2>2
<1>4. CASE Tick
  <2>1. \A b \in DOMAIN ses' : b \in DOMAIN ses /\ \E v : ses'[b] = [ses[b] EXCEPT !.age = v]
    BY <1>4 DEF Tick
  <2>2. ASSUME NEW b \in DOMAIN ses'
        PROVE  StillGoes(b)
    <3>1. PICK v : /\ b \in DOMAIN ses /\ ses[b] \in Session
                   /\ ses'[b] = [ses[b] EXCEPT !.age = v]
      BY <1>1, <2>1, <2>2
    <3> QED
      BY <3>1 DEF Goes, Session
  <2> QED
    BY <2>2
<1>5. CASE ResendSession
  <2> DEFINE c == Head(todo)
  <2>1. \/ ses' = [ses EXCEPT ![c].disabled = TRUE]
        \/ ses' = [ses EXCEPT ![c].retrycount = @ + 1, ![c].age = 0]
        \/ ses' = ses
    BY <1>5 DEF ResendSession
  <2>2. ASSUME NEW b \in DOMAIN ses'
        PROVE  StillGoes(b)
    <3>1. /\ b \in DOMAIN ses /\ ses[b] \in Session
          /\ \/ ses'[b] = [ses[b] EXCEPT !.disabled = TRUE]
             \/ ses'[b] = [[ses[b] EXCEPT !.retrycount = @ + 1] EXCEPT !.age = 0]
             \/ ses'[b] = ses[b]
      BY <1>1, <2>1, <2>2
    <3> QED
      BY <3>1 DEF Goes, Session
  <2> QED
    BY <2>2
<1>6. CASE CleanupSession
  <2>1. ses' = ses \/ ses' = [b \in DOMAIN ses \ {Head(todo)} |-> ses[b]]
    BY <1>6 DEF CleanupSession, del_session
  <2> QED
    BY <2>1 DEF Goes
<1> QED
  BY <1>2, <1>3, <1>4, <1>5, <1>6

LEMMA HousekeepingAsked ==
  ASSUME Inv, Asked, UNCHANGED cl,
         \/ \E batch : epoll_wait(batch)
         \/ EpollTimeout \/ update_event \/ ResendSession \/ ResendDone
         \/ CleanupSession \/ CleanupDone \/ Tick
  PROVE  Asked'
<1>1. \A b \in DOMAIN ses' : b \in DOMAIN ses /\ Goes(b, ses[b], ses'[b])
  BY HousekeepingGoes
<1> QED
  BY <1>1 DEF Asked, Goes, Numbered, Follows

\* What resend_allsession sends to the server's own address is in the name of
\* a client with a session.
LEMMA OwnType ==
  ASSUME Inv, Asked, tid \in [Client -> Nat],
         \/ \E batch : epoll_wait(batch)
         \/ EpollTimeout \/ update_event \/ ResendSession \/ ResendDone
         \/ CleanupSession \/ CleanupDone,
         NEW d \in OwnDatagrams
  PROVE  d \in Datagrams /\ d.op = "OWN"
<1>1. PICK m \in out' :
        /\ m.to = Self
        /\ d = [from |-> m.msg.for, dst |-> tid[m.msg.for], op |-> "OWN", k |-> 0,
                data |-> <<>>]
  BY DEF OwnDatagrams
<1> DEFINE c == Head(todo)
<1>2. /\ pc = "resend" /\ todo # <<>> /\ m.msg = ses[c].lastmsg
      /\ ~ses[c].fin /\ ses[c].clsock # NoSock
  <2>1. out' # {}
    BY <1>1
  <2>2. ~update_event
    BY <2>1 DEF update_event
  <2> QED
    BY <1>1, <2>2 DEF epoll_wait, EpollTimeout, ResendSession, ResendDone,
       CleanupSession, CleanupDone
<1>3. c \in DOMAIN ses /\ c \in Client
  BY <1>2, Visited DEF Inv, TypeOK, ListInv
<1>4. Current(ses[c]) /\ Follows(c, ses[c], cl[c].plan)
  BY <1>2, <1>3 DEF Inv, ResendInv, Asked
<1>5. m.msg.for = c
  BY <1>2, <1>4 DEF Current, Follows
<1>6. tid[c] \in Nat /\ <<>> \in Seq(Unit)
  BY <1>3, EmptySeq
<1> QED
  BY <1>1, <1>3, <1>5, <1>6 DEF Datagrams

----------------------------------------------------------------------------
(***************************************************************************)
(* Clients and network                                                     *)
(***************************************************************************)

ClientState ==
  [plan : Plans, st : {"start", "wait", "done", "failed"}, k : Nat, got : Seq(Unit),
   last : SUBSET Datagrams, peer : Nat \cup {NoPeer}, tries : Nat]

\* A client's last datagram is its own.
ClientsSound ==
  /\ cl \in [Client -> ClientState]
  /\ \A c \in Client : \A d \in cl[c].last : d.from = c /\ Honest(cl[c].plan, d)

\* What is under way came from clients that exist, or from the server.
NetworkSound ==
  /\ \A d \in toServer : Honest(cl[d.from].plan, d)
  /\ toClient \subseteq [to : Client, msg : Message, src : Nat]
  /\ tid \in [Client -> Nat]

\* A client in another state, with the datagram it has now sent, if any.
LEMMA ClientMoves ==
  ASSUME ClientsSound, NetworkSound, NEW c \in Client, NEW x \in ClientState,
         x.plan = cl[c].plan, cl' = [cl EXCEPT ![c] = x],
         \A d \in x.last : d \in cl[c].last \/ (d.from = c /\ Honest(x.plan, d)),
         \A d \in toServer' : d \in toServer \/ d \in x.last,
         toClient' \subseteq toClient, UNCHANGED tid
  PROVE  ClientsSound' /\ NetworkSound' /\ \A b \in Client : cl'[b].plan = cl[b].plan
<1>1. cl \in [Client -> ClientState] /\ cl' \in [Client -> ClientState]
  BY DEF ClientsSound
<1>2. cl'[c] = x /\ \A b \in Client : b # c => cl'[b] = cl[b]
  BY <1>1
<1>3. \A b \in Client : cl'[b].plan = cl[b].plan
  BY <1>2
<1>4. \A d \in x.last : d.from = c /\ Honest(x.plan, d)
  BY DEF ClientsSound
<1>5. \A b \in Client : \A d \in cl'[b].last : d.from = b /\ Honest(cl'[b].plan, d)
  BY <1>2, <1>4 DEF ClientsSound
<1>6. ASSUME NEW d \in toServer'
      PROVE  Honest(cl'[d.from].plan, d)
  <2>1. CASE d \in toServer
    <3>1. Honest(cl[d.from].plan, d)
      BY <2>1 DEF NetworkSound
    <3>2. d.from \in Client
      BY <3>1, DatagramParts DEF Honest
    <3> QED
      BY <1>3, <3>1, <3>2
  <2>2. CASE d \in x.last
    BY <1>2, <1>4, <2>2
  <2> QED
    BY <1>6, <2>1, <2>2
<1> QED
  BY <1>1, <1>3, <1>5, <1>6 DEF ClientsSound, NetworkSound

\* What a client takes from the network is the server's.
LEMMA ArrivingType ==
  ASSUME NetworkSound, NEW d \in toClient
  PROVE  /\ d.to \in Client /\ d.msg \in Message /\ d.src \in Nat
         /\ d.msg.data \in Seq(Unit) /\ d.msg.blk \in Nat
BY DEF NetworkSound, Message

LEMMA SendMoves ==
  ASSUME ClientsSound, NetworkSound, NEW c \in Client, NEW x \in ClientState,
         x.plan = cl[c].plan, NEW d, d.from = c, Honest(x.plan, d), Send(c, x, d),
         toClient' \subseteq toClient, UNCHANGED tid
  PROVE  ClientsSound' /\ NetworkSound' /\ \A b \in Client : cl'[b].plan = cl[b].plan
<1> DEFINE y == [x EXCEPT !.last = {d}]
<1>1. /\ y \in ClientState /\ y.plan = x.plan /\ y.last = {d}
  BY DEF ClientState, Honest
<1>2. cl' = [cl EXCEPT ![c] = y] /\ toServer' = toServer \cup {d}
  BY DEF Send
<1> HIDE DEF y
<1> QED
  BY <1>1, <1>2, ClientMoves

LEMMA StartMoves ==
  ASSUME ClientsSound, NetworkSound, NEW c \in Client, Start(c)
  PROVE  ClientsSound' /\ NetworkSound' /\ \A b \in Client : cl'[b].plan = cl[b].plan
<1> DEFINE x == [cl[c] EXCEPT !.st = "wait"]
           d == FirstRequest(c)
<1>1. cl[c] \in ClientState
  BY DEF ClientsSound
<1>2. x \in ClientState /\ x.plan = cl[c].plan
  BY <1>1 DEF ClientState
<1>3. d.from = c /\ Honest(x.plan, d)
  BY EmptySeq DEF FirstRequest, Honest, Datagrams
<1>4. Send(c, x, d) /\ UNCHANGED <<toClient, tid>>
  BY DEF Start
<1> HIDE DEF x, d
<1> QED
  BY <1>2, <1>3, <1>4, SendMoves

\* A client that stays as it is but for its state, peer or count.
LEMMA TurnMoves ==
  ASSUME ClientsSound, NetworkSound, NEW c \in Client, NEW x \in ClientState,
         x.plan = cl[c].plan, x.last = cl[c].last, cl' = [cl EXCEPT ![c] = x],
         UNCHANGED toServer, toClient' \subseteq toClient, UNCHANGED tid
  PROVE  ClientsSound' /\ NetworkSound' /\ \A b \in Client : cl'[b].plan = cl[b].plan
BY ClientMoves

LEMMA StayMoves ==
  ASSUME ClientsSound, NetworkSound, Stay, toClient' \subseteq toClient, UNCHANGED tid
  PROVE  ClientsSound' /\ NetworkSound' /\ \A b \in Client : cl'[b].plan = cl[b].plan
BY DEF Stay, ClientsSound, NetworkSound

\* DATA of a download.
LEMMA ClientDataMoves ==
  ASSUME ClientsSound, NetworkSound, NEW c \in Client, NEW x \in ClientState,
         x.plan = cl[c].plan, x.last = cl[c].last, x.plan.req = "RRQ", x.peer \in Nat,
         NEW m \in Message, ClientData(c, x, m),
         toClient' \subseteq toClient, UNCHANGED tid
  PROVE  ClientsSound' /\ NetworkSound' /\ \A b \in Client : cl'[b].plan = cl[b].plan
<1> DEFINE ack(k) == [from |-> c, dst |-> x.peer, op |-> "ACK", k |-> k, data |-> <<>>]
           w == IF Len(m.data) < DataLen THEN "done" ELSE "wait"
           g == x.got \o m.data
           y == [x EXCEPT !.got = g, !.k = @ + 1, !.st = w]
<1>1. m.data \in Seq(Unit) /\ x.got \in Seq(Unit) /\ x.k \in Nat
  BY DEF Message, ClientState
<1>2. g \in Seq(Unit)
  BY <1>1, ConcatProperties
<1>3. y \in ClientState /\ y.plan = x.plan
  <2>1. w \in {"done", "wait"} /\ x.k + 1 \in Nat
    BY <1>1
  <2> HIDE DEF g, w
  <2> QED
    BY <1>2, <2>1 DEF ClientState
<1>4. \A k \in Nat : ack(k).from = c /\ Honest(x.plan, ack(k))
  BY EmptySeq DEF Honest, Datagrams
<1>5. Send(c, y, ack(x.k + 1)) \/ Send(c, x, ack(x.k)) \/ Stay
  BY DEF ClientData
<1> HIDE DEF y, ack
<1> QED
  BY <1>1, <1>3, <1>4, <1>5, SendMoves, StayMoves

\* ACK of an upload.
LEMMA ClientAckMoves ==
  ASSUME ClientsSound, NetworkSound, NEW c \in Client, NEW x \in ClientState,
         x.plan = cl[c].plan, x.last = cl[c].last, x.plan.req = "WRQ", x.peer \in Nat,
         NEW m \in Message, ClientAck(c, x, m),
         toClient' \subseteq toClient, UNCHANGED tid
  PROVE  ClientsSound' /\ NetworkSound' /\ \A b \in Client : cl'[b].plan = cl[b].plan
<1> DEFINE wire == Uploaded(x.plan, c)
           y == [x EXCEPT !.st = "done"]
           z == [x EXCEPT !.k = @ + 1]
           n == x.k + 1
           d == [from |-> c, dst |-> x.peer, op |-> "DATA", k |-> n,
                 data |-> Block(wire, n)]
<1>1. x.k \in Nat /\ x.plan \in Plans /\ n \in Nat \ {0}
  BY DEF ClientState
<1>2. wire \in Seq(Unit) /\ LastBlock(wire) \in Nat \ {0}
  BY <1>1, UploadedType
<1>3. y \in ClientState /\ y.plan = x.plan /\ y.last = x.last
  BY DEF ClientState
<1>4. z \in ClientState /\ z.plan = x.plan
  BY DEF ClientState
<1>5. \/ cl' = [cl EXCEPT ![c] = y] /\ UNCHANGED toServer
      \/ x.k < LastBlock(wire) /\ Send(c, z, d)
      \/ Stay
  BY DEF ClientAck
<1>6. d.from = c
  OBVIOUS
<1>7. ASSUME x.k < LastBlock(wire)
      PROVE  Honest(x.plan, d)
  <2>1. n \in 1 .. LastBlock(wire)
    BY <1>1, <1>2, <1>7
  <2>2. Block(wire, n) \in Seq(Unit)
    <3> HIDE DEF n, wire
    <3> QED
      BY <1>1, <1>2, BlockType
  <2>3. d \in Datagrams
    <3> HIDE DEF wire, n
    <3> QED
      BY <1>1, <2>2 DEF Datagrams
  <2> QED
    BY <2>1, <2>3 DEF Honest
<1> HIDE DEF d, y, z, wire
<1> QED
  BY <1>3, <1>4, <1>5, <1>6, <1>7, SendMoves, TurnMoves, StayMoves

LEMMA ClientReceiveMoves ==
  ASSUME ClientsSound, NetworkSound, NEW d \in toClient, ClientReceive(d)
  PROVE  ClientsSound' /\ NetworkSound' /\ \A b \in Client : cl'[b].plan = cl[b].plan
<1> DEFINE c == d.to
           m == d.msg
           v == IF cl[c].peer = NoPeer THEN d.src ELSE cl[c].peer
           x == [cl[c] EXCEPT !.peer = v]
           w == IF x.st = "wait" THEN "failed" ELSE x.st
           y == [x EXCEPT !.st = w]
<1>1. c \in Client /\ m \in Message /\ d.src \in Nat
  BY ArrivingType
<1>2. cl[c] \in ClientState
  BY <1>1 DEF ClientsSound
<1>3. x \in ClientState /\ x.plan = cl[c].plan /\ x.last = cl[c].last
  BY <1>1, <1>2 DEF ClientState
<1>4. y \in ClientState /\ y.plan = cl[c].plan /\ y.last = cl[c].last
  BY <1>3 DEF ClientState
<1>5. toClient' \subseteq toClient /\ UNCHANGED tid
  BY DEF ClientReceive, Leaves
<1>6. \/ Stay
      \/ d.src = x.peer /\ x.plan.req = "RRQ" /\ ClientData(c, x, m)
      \/ d.src = x.peer /\ x.plan.req = "WRQ" /\ ClientAck(c, x, m)
      \/ cl' = [cl EXCEPT ![c] = y] /\ UNCHANGED toServer
  BY DEF ClientReceive
<1> HIDE DEF x, y, m, c
<1> QED
  BY <1>1, <1>3, <1>4, <1>5, <1>6, ClientDataMoves, ClientAckMoves, TurnMoves,
     StayMoves

LEMMA ClientTimeoutMoves ==
  ASSUME ClientsSound, NetworkSound, NEW c \in Client, ClientTimeout(c)
  PROVE  ClientsSound' /\ NetworkSound' /\ \A b \in Client : cl'[b].plan = cl[b].plan
<1> DEFINE x == [cl[c] EXCEPT !.tries = @ + 1]
           y == [cl[c] EXCEPT !.st = "failed"]
<1>1. cl[c] \in ClientState
  BY DEF ClientsSound
<1>2. /\ x \in ClientState /\ x.plan = cl[c].plan
      /\ y \in ClientState /\ y.plan = cl[c].plan /\ y.last = cl[c].last
  BY <1>1 DEF ClientState
<1>3. UNCHANGED <<toClient, tid>>
  BY DEF ClientTimeout
<1>4. \/ \E d \in cl[c].last : Send(c, x, d)
      \/ cl' = [cl EXCEPT ![c] = y] /\ UNCHANGED toServer
  BY DEF ClientTimeout
<1>5. \A d \in cl[c].last : d.from = c /\ Honest(cl[c].plan, d)
  BY DEF ClientsSound
<1> HIDE DEF x, y
<1> QED
  BY <1>2, <1>3, <1>4, <1>5, SendMoves, TurnMoves

----------------------------------------------------------------------------
(***************************************************************************)
(* The invariant of the system                                             *)
(***************************************************************************)

\* It speaks of the server, of its sessions and their clients, and of what is
\* under way.
SystemInv == Inv /\ TransferInv /\ Asked /\ ClientsSound /\ NetworkSound

\* Steps of the clients and of the network leave the server alone.
LEMMA AsideInv ==
  ASSUME SystemInv, UNCHANGED server, ClientsSound', NetworkSound',
         \A c \in Client : cl'[c].plan = cl[c].plan
  PROVE  SystemInv'
<1>1. [Next]_vars
  BY DEF server
<1>2. Inv' /\ TransferInv'
  BY <1>1, NextInv, NextTransferInv DEF SystemInv
<1>3. DOMAIN ses \subseteq Client /\ ses' = ses
  BY DEF SystemInv, Inv, TypeOK, server, vars
<1>4. Asked'
  BY <1>3 DEF SystemInv, Asked
<1> QED
  BY <1>2, <1>4 DEF SystemInv

LEMMA ClientInv ==
  ASSUME SystemInv, ClientNext \/ \E c \in Client : ClientTimeout(c)
  PROVE  SystemInv'
<1>1. UNCHANGED server
  BY DEF ClientNext, Start, ClientReceive, ClientTimeout
<1>2. ClientsSound' /\ NetworkSound' /\ \A b \in Client : cl'[b].plan = cl[b].plan
  BY StartMoves, ClientReceiveMoves, ClientTimeoutMoves DEF ClientNext, SystemInv
<1> QED
  BY <1>1, <1>2, AsideInv

LEMMA LoseInv ==
  ASSUME SystemInv, Lose \/ UNCHANGED system
  PROVE  SystemInv'
<1>1. /\ UNCHANGED server /\ UNCHANGED <<cl, tid>>
      /\ toServer' \subseteq toServer /\ toClient' \subseteq toClient
  BY DEF Lose, system, network
<1>2. ClientsSound' /\ NetworkSound'
  BY <1>1 DEF SystemInv, ClientsSound, NetworkSound
<1> QED
  BY <1>1, <1>2, AsideInv

\* What the server sends has its type.
LEMMA RepliesType ==
  ASSUME NetworkSound, TypeOK', NewTid, NEW dst \in Nat
  PROVE  /\ Replies(dst) \subseteq [to : Client, msg : Message, src : Nat]
         /\ tid' \in [Client -> Nat]
<1>1. tid' \in [Client -> Nat]
  <2>1. \A c \in Client :
          (IF c \in DOMAIN ses' \ DOMAIN ses THEN tid[c] + 1 ELSE tid[c]) \in Nat
    BY DEF NetworkSound
  <2> QED
    BY <2>1 DEF NewTid
<1>2. ASSUME NEW o \in out', o.to \in Client
      PROVE  /\ o.msg \in Message
             /\ (IF o.to \in DOMAIN ses' THEN tid'[o.to] ELSE dst) \in Nat
  BY <1>1, <1>2 DEF TypeOK
<1> QED
  BY <1>1, <1>2 DEF Replies

LEMMA ServerStepInv ==
  ASSUME SystemInv, ServerStep
  PROVE  SystemInv'
<1>1. \/ \E s \in SvSock \cup epoll : epoll_wait({s})
      \/ EpollTimeout \/ update_event \/ ResendSession \/ ResendDone
      \/ CleanupSession \/ CleanupDone
  BY DEF ServerStep
<1>2. UNCHANGED <<cl, toClient, tid>>
  BY DEF ServerStep
<1>3. [Next]_vars
  <2>1. \A s \in SvSock \cup epoll : {s} \in SUBSET (SvSock \cup epoll)
    OBVIOUS
  <2> QED
    BY <1>1, <2>1 DEF Next, Loop
<1>4. Inv' /\ TransferInv'
  BY <1>3, NextInv, NextTransferInv DEF SystemInv
<1>5. Asked'
  BY <1>1, <1>2, HousekeepingAsked DEF SystemInv
<1>6. ClientsSound'
  BY <1>2 DEF SystemInv, ClientsSound
<1>7. NetworkSound'
  <2>1. ASSUME NEW d \in toServer'
        PROVE  Honest(cl[d.from].plan, d)
    <3>1. d \in toServer \/ d \in OwnDatagrams
      BY <2>1 DEF ServerStep
    <3>2. CASE d \in OwnDatagrams
      <4>1. d \in Datagrams /\ d.op = "OWN"
        BY <1>1, <3>2, OwnType DEF SystemInv, NetworkSound
      <4> QED
        BY <4>1 DEF Honest
    <3> QED
      BY <3>1, <3>2 DEF SystemInv, NetworkSound
  <2> QED
    BY <1>2, <2>1 DEF SystemInv, NetworkSound
<1> QED
  BY <1>4, <1>5, <1>6, <1>7 DEF SystemInv

\* A turn of one of the two loops.
LEMMA ServerTransferInv ==
  ASSUME SystemInv, ServerTransfer
  PROVE  SystemInv'
<1>1. /\ get_session_data \/ put_session_data
      /\ NewTid /\ toClient' = toClient \cup Replies(0)
      /\ UNCHANGED <<cl, toServer>>
  BY DEF ServerTransfer
<1>2. Inv' /\ TransferInv'
  <2>1. [Next]_vars
    BY <1>1 DEF Next, Loop
  <2> QED
    BY <2>1, NextInv, NextTransferInv DEF SystemInv
<1> DEFINE c == job.cl
           p == cl[c].plan
<1>3. c \in DOMAIN ses /\ c \in Client
  BY <1>1 DEF get_session_data, put_session_data, SystemInv, Inv, JobInv, TypeOK
<1>4. ses[c].clsock # NoSock
  BY <1>3 DEF SystemInv, Asked, Follows
<1>5. Speaks(c, p)
  <2> HIDE DEF p
  <2> QED
    BY <1>1, <1>4, GetSpeaks, PutSpeaks DEF SystemInv
<1>6. Asked'
  BY <1>1, <1>3, <1>5, SpeaksAsked DEF SystemInv
<1>7. /\ Replies(0) \subseteq [to : Client, msg : Message, src : Nat]
      /\ tid' \in [Client -> Nat]
  BY <1>1, <1>2, RepliesType DEF SystemInv, Inv
<1>8. ClientsSound' /\ NetworkSound'
  BY <1>1, <1>7 DEF SystemInv, ClientsSound, NetworkSound
<1> QED
  BY <1>2, <1>6, <1>8 DEF SystemInv

\* A datagram on its way meets its client's session.
LEMMA Meeting ==
  ASSUME SystemInv, NEW d \in toServer
  PROVE  Meets(d.from, cl[d.from].plan, d)
<1>1. Honest(cl[d.from].plan, d)
  BY DEF SystemInv, NetworkSound
<1>2. d.from \in Client
  BY <1>1, DatagramParts DEF Honest
<1>3. cl[d.from].plan \in Plans
  BY <1>2 DEF SystemInv, ClientsSound, ClientState
<1>4. d.from \in DOMAIN ses =>
        /\ Sound(ses[d.from]) /\ ses[d.from].req = cl[d.from].plan.req
        /\ ses[d.from].clsock # NoSock
  BY DEF SystemInv, Asked, Follows, Inv, TypeOK, Sound
<1> QED
  BY <1>1, <1>2, <1>3, <1>4 DEF Meets

LEMMA ServerReceiveInv ==
  ASSUME SystemInv, NEW d \in toServer, ServerReceive(d)
  PROVE  SystemInv'
<1> DEFINE c == d.from
           p == cl[c].plan
<1>1. PICK s \in SocketOf(d) \cap events : Handle(s, d)
  BY DEF ServerReceive
<1>2. /\ NewTid /\ toClient' = toClient \cup Replies(d.dst) /\ UNCHANGED cl
      /\ toServer' \subseteq toServer
  BY DEF ServerReceive, Leaves
<1>3. Meets(c, p, d)
  BY Meeting
<1>4. c \in Client /\ p \in Plans /\ Honest(p, d) /\ d.dst \in Nat
  BY <1>3, DatagramParts DEF Meets, Honest
<1>5. Speaks(c, p)
  BY <1>1, <1>4, HandleSpeaks DEF SystemInv
<1>6. Asked'
  BY <1>2, <1>4, <1>5, SpeaksAsked DEF SystemInv
<1> HIDE DEF c, p
<1>7. pc = "recv" /\ (Visits(c) \/ Adds(c) \/ Answers)
  BY <1>1, <1>3, HandleShapes DEF SystemInv
<1>8. Inv'
  BY <1>7, VisitKeeps, AddKeeps, AnswerKeeps DEF SystemInv
<1>9. TransferInv'
  BY <1>1, <1>3, HandleTransfers DEF SystemInv
<1>10. /\ Replies(d.dst) \subseteq [to : Client, msg : Message, src : Nat]
       /\ tid' \in [Client -> Nat]
  BY <1>2, <1>4, <1>8, RepliesType DEF SystemInv, Inv
<1>11. ClientsSound' /\ NetworkSound'
  BY <1>2, <1>10 DEF SystemInv, ClientsSound, NetworkSound
<1> QED
  BY <1>6, <1>8, <1>9, <1>11 DEF SystemInv

LEMMA TickInv ==
  ASSUME SystemInv, SystemTick
  PROVE  SystemInv'
<1>1. Tick /\ UNCHANGED <<cl, toServer, toClient, tid>>
  BY DEF SystemTick
<1>2. [Next]_vars
  BY <1>1 DEF Next
<1>3. Inv' /\ TransferInv'
  BY <1>2, NextInv, NextTransferInv DEF SystemInv
<1>4. Asked'
  BY <1>1, HousekeepingAsked DEF SystemInv
<1>5. ClientsSound' /\ NetworkSound'
  BY <1>1 DEF SystemInv, ClientsSound, NetworkSound
<1> QED
  BY <1>3, <1>4, <1>5 DEF SystemInv

LEMMA SystemInitInv == SystemInit => SystemInv
<1> SUFFICES ASSUME SystemInit PROVE SystemInv
  OBVIOUS
<1>1. Inv /\ TransferInv
  BY InitInv, InitTransferInv DEF SystemInit
<1>2. Asked
  BY DEF SystemInit, Init, Asked
<1> DEFINE Starts == {[plan |-> p, st |-> "start", k |-> 0, got |-> <<>>,
                       last |-> {}, peer |-> NoPeer, tries |-> 0] : p \in Plans}
<1>3. \A x \in Starts : x \in ClientState /\ x.last = {}
  <2>1. ASSUME NEW p \in Plans
        PROVE  [plan |-> p, st |-> "start", k |-> 0, got |-> <<>>, last |-> {},
                peer |-> NoPeer, tries |-> 0] \in ClientState
    BY EmptySeq DEF ClientState
  <2> QED
    BY <2>1
<1>4. cl \in [Client -> Starts] /\ toServer = {} /\ toClient = {}
      /\ tid = [c \in Client |-> 0]
  BY DEF SystemInit
<1> HIDE DEF Starts
<1>5. ClientsSound /\ NetworkSound
  BY <1>3, <1>4 DEF ClientsSound, NetworkSound
<1> QED
  BY <1>1, <1>2, <1>5 DEF SystemInv

LEMMA SystemNextInv == SystemInv /\ [SystemNext]_system => SystemInv'
<1> SUFFICES ASSUME SystemInv, [SystemNext]_system PROVE SystemInv'
  OBVIOUS
<1> QED
  BY ServerStepInv, ServerTransferInv, ServerReceiveInv, ClientInv, LoseInv, TickInv
     DEF SystemNext, ServerNext

\* The inductive invariant holds of the server among its clients.
THEOREM SystemInvariance == SystemSpec => []SystemInv
BY SystemInitInv, SystemNextInv, PTL DEF SystemSpec

\* Clients, datagrams and server keep their types.
THEOREM SystemTypeCorrect == SystemSpec => []SystemTypeOK
<1>1. SystemInv => SystemTypeOK
  BY DEF SystemInv, Inv, ClientsSound, ClientState, NetworkSound, Honest, SystemTypeOK
<1> QED
  BY <1>1, SystemInvariance, PTL

----------------------------------------------------------------------------
(***************************************************************************)
(* Downloads                                                               *)
(*                                                                         *)
(* A client's download is exact for downloads of files of the start that   *)
(* are short enough for their blocks to have different numbers, as long as *)
(* the server does neither of the two things it is known to do: send a     *)
(* client what it built for another one, and go on with a stream that was  *)
(* left open.                                                              *)
(***************************************************************************)

\* What clients set out to download.
PlansFit ==
  \A p \in Plans :
    p.req = "RRQ" =>
      /\ p.file \in DOMAIN InitFiles
      /\ LastBlock(Wire(p.mode, InitFiles[p.file])) <= BlkMax

\* A block a client is sent was made for it.
BlocksForReceiver ==
  \A o \in out : o.to \in Client /\ o.msg.op = "DATA" => o.msg.for = o.to

NoneInherited == \A c \in DOMAIN ses : ses[c].inherited = FALSE

\* What c downloads, as it travels.
Wanted(c) == Wire(cl[c].plan.mode, InitFiles[cl[c].plan.file])

\* m is a block of it, under its number.
Exact(wire, m) ==
  m.op = "DATA" =>
    /\ m.k \in 1 .. LastBlock(wire) /\ m.blk = m.k
    /\ m.data = Block(wire, m.k)

\* So far a client has whole blocks.
GotRight(x, wire) ==
  IF x.st = "done" THEN x.got = wire
  ELSE x.k * DataLen <= Len(wire) /\ x.got = Upto(wire, x.k * DataLen)

\* What the server may send once more.
OldExact ==
  \A c \in DOMAIN ses :
    cl[c].plan.req = "RRQ" /\ ses[c].disabled = FALSE /\ sinfo.for = c /\ ~Loading(c) =>
      Exact(Wanted(c), sinfo)

FilesStay == \A f \in DOMAIN InitFiles : ds.files[f] = InitFiles[f]

BlocksExact == \A d \in toClient : cl[d.to].plan.req = "RRQ" => Exact(Wanted(d.to), d.msg)

ClientsExact == \A c \in Client : cl[c].plan.req = "RRQ" => GotRight(cl[c], Wanted(c))

DownloadInv == FilesStay /\ OldExact /\ BlocksExact /\ ClientsExact

\* The message kept for a download of a whole file short enough.
LEMMA ShownExact ==
  ASSUME NEW x, Sound(x), NEW text \in Seq(Unit), Shown(x, text),
         Original(x.filename), NEW wire, wire = Wire(x.tftpmode, text),
         LastBlock(wire) <= BlkMax
  PROVE  Exact(wire, x.lastmsg)
<1> DEFINE m == x.lastmsg
           k == m.k
           data == m.data
           n == k - 1
<1> SUFFICES ASSUME m.op = "DATA"
             PROVE  k \in 1 .. LastBlock(wire) /\ m.blk = k /\ data = Block(wire, k)
  BY DEF Exact
<1>1. /\ wire \in Seq(Unit) /\ m \in Message /\ data \in Seq(Unit)
  BY WireType, SessionParts DEF Sound, Message
<1>2. /\ k \in Nat \ {0} /\ m.blk = k % (BlkMax + 1)
      /\ IsBlock(data, k, wire, TRUE)
  BY DEF Shown
<1> HIDE DEF k, data
<1>3. data = Block(wire, k)
  BY <1>1, <1>2, BlockExact
<1>4. n \in Nat /\ k = n + 1
  BY <1>2
<1>5. n * DataLen <= Len(wire)
  <2>1. n * DataLen + Len(data) <= Len(wire) /\ Len(data) \in Nat
    BY <1>1, <1>2, LenProperties DEF IsBlock
  <2>2. n * DataLen \in Nat /\ Len(wire) \in Nat
    BY <1>1, <1>4, Bounds, LenProperties
  <2> HIDE DEF n
  <2> QED
    BY <2>1, <2>2
<1> HIDE DEF n
<1>6. k \in 1 .. LastBlock(wire)
  BY <1>1, <1>4, <1>5, BlockCount
<1>7. LastBlock(wire) \in Int
  BY <1>1, BufferAssumption, LenProperties DEF LastBlock
<1>8. k < BlkMax + 1 /\ BlkMax + 1 \in Nat
  BY <1>2, <1>6, <1>7, Bounds
<1>9. k % (BlkMax + 1) = k
  BY <1>2, <1>8
<1> QED
  BY <1>2, <1>3, <1>6, <1>9 DEF k

\* The next block after n whole ones.
LEMMA NextBlockGot ==
  ASSUME NEW wire \in Seq(Unit), NEW n \in Nat, n * DataLen <= Len(wire)
  PROVE  LET k    == n + 1
             data == Block(wire, k)
             got  == Upto(wire, n * DataLen) \o data
         IN  IF Len(data) < DataLen THEN got = wire
             ELSE k * DataLen <= Len(wire) /\ got = Upto(wire, k * DataLen)
<1> DEFINE k == n + 1
           data == Block(wire, k)
           got == Upto(wire, n * DataLen) \o data
           L == Len(wire)
           P == n * DataLen
           Q == k * DataLen
           end == IF Q <= L THEN Q ELSE L
<1>1. L \in Nat /\ DataLen \in Nat /\ DataLen > 1
  BY LenProperties, BufferAssumption
<1>2. P \in Nat /\ Q = P + DataLen /\ P <= L /\ (k - 1) * DataLen = P
  BY <1>1
<1>3. data = SubSeq(wire, P + 1, end)
  BY <1>2 DEF Block
<1>4. got = Upto(wire, P) \o data
  OBVIOUS
<1> HIDE DEF P, Q, data, got
<1>5. end \in Nat /\ P <= end /\ end <= L /\ P \in 0 .. end /\ end \in 0 .. Len(wire)
  BY <1>1, <1>2
<1> HIDE DEF L, end
<1>6. Upto(wire, P) \o SubSeq(wire, P + 1, end) = Upto(wire, end)
  <2>1. /\ 1 \in 1 .. Len(wire) + 1 /\ P \in 1 - 1 .. Len(wire)
        /\ end \in P .. Len(wire)
    BY <1>1, <1>2, <1>5 DEF L
  <2> QED
    BY <2>1, ConcatAdjacentSubSeq DEF Upto
<1>7. got = Upto(wire, end)
  BY <1>3, <1>4, <1>6
<1>8. Len(data) = end - P
  <2>1. P + 1 \in Nat \ {0} /\ end \in Int /\ end <= Len(wire)
    BY <1>2, <1>5 DEF L
  <2>2. Len(SubSeq(wire, P + 1, end)) = IF P + 1 <= end THEN end - (P + 1) + 1 ELSE 0
    BY <2>1, PartType
  <2>3. (IF P + 1 <= end THEN end - (P + 1) + 1 ELSE 0) = end - P
    BY <1>2, <1>5
  <2> QED
    BY <1>3, <2>2, <2>3
<1>9. ASSUME Len(data) < DataLen
      PROVE  got = wire
  <2>1. end = L
    BY <1>1, <1>2, <1>5, <1>8, <1>9 DEF end
  <2> QED
    BY <1>7, <2>1, UptoAll DEF L
<1>10. ASSUME ~(Len(data) < DataLen)
      PROVE  Q <= L /\ got = Upto(wire, Q)
  <2>1. end = Q /\ Q <= L
    BY <1>1, <1>2, <1>5, <1>8, <1>10 DEF end
  <2> QED
    BY <1>7, <2>1
<1> QED
  BY <1>9, <1>10 DEF Q, L, data, got

\* What clients are after travels as sequences of units.
LEMMA WantedType ==
  ASSUME PlansFit, NEW c \in Client, cl[c].plan \in Plans,
         cl[c].plan.req = "RRQ"
  PROVE  /\ cl[c].plan.file \in DOMAIN InitFiles /\ Wanted(c) \in Seq(Unit)
         /\ LastBlock(Wanted(c)) <= BlkMax
<1> DEFINE p == cl[c].plan
           text == InitFiles[p.file]
<1>1. p.file \in DOMAIN InitFiles /\ LastBlock(Wire(p.mode, text)) <= BlkMax
  BY DEF PlansFit
<1>2. text \in Seq(Unit)
  BY <1>1, ServerAssumption DEF IsFiles
<1>3. Wire(p.mode, text) \in Seq(Unit)
  <2> HIDE DEF text
  <2> QED
    BY <1>2, WireType
<1> QED
  BY <1>1, <1>3 DEF Wanted

\* The files of the start stay as they are.
LEMMA StepFilesStay ==
  ASSUME Inv, TransferInv, FilesStay,
         (\E c : Visits(c)) \/ (\E x : ds' \in close_data(ds, x)) \/ UNCHANGED ds
  PROVE  FilesStay'
<1>1. ASSUME NEW free, NEW f, NEW w, Stepped(ds, ds', free, f, w)
      PROVE  FilesStay'
  <2>1. \A g \in DOMAIN ds.files : Original(g) => ds'.files[g] = ds.files[g]
    BY <1>1, SteppedFrozen DEF Inv, TransferInv
  <2> QED
    BY <2>1 DEF FilesStay, TransferInv, Frozen, Original
<1>2. CASE \E c : Visits(c)
  BY <1>1, <1>2 DEF Visits
<1>3. CASE \E x : ds' \in close_data(ds, x)
  <2>1. PICK x : ds' \in close_data(ds, x)
    BY <1>3
  <2>2. Stepped(ds, ds', {}, x.filename, x.clsock)
    BY <2>1, CloseSteps DEF Inv
  <2> QED
    BY <1>1, <2>2
<1>4. CASE UNCHANGED ds
  BY <1>4 DEF FilesStay
<1> QED
  BY <1>2, <1>3, <1>4

\* The session of a download keeps a block of it, after a step, too.
LEMMA KeptExact ==
  ASSUME PlansFit, Inv', TransferInv', Asked', FilesStay', NoneInherited',
         NEW c \in DOMAIN ses', c \in Client, cl'[c].plan \in Plans,
         cl'[c].plan.req = "RRQ", ses'[c].disabled = FALSE,
         NEW wire, wire = Wire(cl'[c].plan.mode, InitFiles[cl'[c].plan.file])
  PROVE  /\ Exact(wire, ses'[c].lastmsg)
         /\ ses'[c].lastmsg.op = "none" \/ ses'[c].lastmsg.for = c
<1> DEFINE x == ses'[c]
           p == cl'[c].plan
           text == InitFiles[p.file]
<1>1. Follows(c, x, p)
  BY DEF Asked
<1>2. x.inherited = FALSE /\ Reader(x)
  BY <1>1 DEF NoneInherited, Reader, Follows
<1>3. p.file \in DOMAIN InitFiles /\ LastBlock(Wire(p.mode, text)) <= BlkMax
  BY DEF PlansFit
<1>4. Shown(x, ds'.files[x.filename])
  BY <1>2 DEF TransferInv, Progresses, Progress
<1>5. x.filename = p.file /\ x.tftpmode = p.mode /\ ds'.files[p.file] = text
  BY <1>1, <1>3 DEF Follows, FilesStay
<1>6. Sound(x) /\ Original(x.filename) /\ text \in Seq(Unit)
  BY <1>3, <1>5, ServerAssumption DEF Inv, TypeOK, Sound, Original, IsFiles
<1>7. wire = Wire(x.tftpmode, text) /\ Shown(x, text) /\ LastBlock(wire) <= BlkMax
  BY <1>3, <1>4, <1>5
<1> HIDE DEF x, text
<1>8. Exact(wire, x.lastmsg)
  BY <1>6, <1>7, ShownExact
<1> QED
  BY <1>1, <1>8 DEF Follows, x

\* A step of one session, with what it leaves to be sent once more.
LEMMA SpeaksOld ==
  ASSUME PlansFit, Inv, Asked, ClientsSound, OldExact, UNCHANGED cl,
         Inv', TransferInv', Asked', FilesStay', NoneInherited',
         NEW c \in Client, Speaks(c, cl[c].plan), pc = "get" => job.cl = c
  PROVE  OldExact'
<1> SUFFICES ASSUME NEW b \in DOMAIN ses', cl[b].plan.req = "RRQ",
                    ses'[b].disabled = FALSE, sinfo'.for = b, ~Loading(b)'
             PROVE  Exact(Wanted(b), sinfo')
  BY DEF OldExact, Wanted
<1>1. b \in Client /\ cl[b].plan \in Plans
  BY DEF Inv, TypeOK, ClientsSound, ClientState
<1>2. ASSUME b \in DOMAIN ses, ses'[b] = ses[b], sinfo' = sinfo, ~Loading(b)
      PROVE  Exact(Wanted(b), sinfo')
  BY <1>2 DEF OldExact
<1>3. ASSUME sinfo' = sinfo, b # c
      PROVE  Exact(Wanted(b), sinfo')
  <2>1. b \in DOMAIN ses /\ ses'[b] = ses[b]
    <3>1. CASE \E y : ses' = Put(ses, c, y)
      BY <1>3, <3>1 DEF Put
    <3> QED
      BY <1>3, <3>1 DEF Speaks, SendOld
  <2>2. ~Loading(b)
    BY <1>3 DEF Loading
  <2> QED
    BY <1>2, <1>3, <2>1, <2>2
<1>4. CASE pc = "recv" /\ c \in DOMAIN ses /\ SendOld(c)
  BY <1>2, <1>4 DEF SendOld, Loading
<1>5. CASE Told(c)
  <2>1. CASE sinfo'.op = "ERROR"
    BY <2>1 DEF Exact
  <2>2. CASE c \in DOMAIN ses' /\ sinfo' = ses'[c].lastmsg
    <3>1. CASE b = c
      BY <1>1, <2>2, <3>1, KeptExact DEF Wanted
    <3>2. CASE b # c
      <4>1. Follows(c, ses'[c], cl[c].plan)
        BY <2>2 DEF Asked
      <4>2. sinfo'.op = "none"
        BY <2>2, <3>2, <4>1 DEF Follows
      <4> QED
        BY <4>2 DEF Exact
    <3> QED
      BY <3>1, <3>2
  <2>3. CASE sinfo' = sinfo /\ pc' \in {"get", "put"} /\ job'.cl = c
    <3>1. ASSUME b = c
          PROVE  FALSE
      <4>1. ses'[c].req = "RRQ"
        BY <3>1 DEF Asked, Follows
      <4>2. pc' = "get"
        BY <2>3, <4>1 DEF Inv, JobInv
      <4> QED
        BY <2>3, <3>1, <4>2 DEF Loading
    <3> QED
      BY <1>3, <2>3, <3>1
  <2>4. CASE sinfo' = sinfo /\ c \in DOMAIN ses' /\ ses'[c].disabled = TRUE
    <3>1. b # c
      BY <2>4
    <3> QED
      BY <1>3, <2>4, <3>1
  <2> QED
    BY <1>5, <2>1, <2>2, <2>3, <2>4 DEF Told
<1> QED
  BY <1>4, <1>5 DEF Speaks

\* And with what it sends.
LEMMA SpeaksExact ==
  ASSUME PlansFit, Inv, Asked, ClientsSound, OldExact, UNCHANGED cl,
         Inv', TransferInv', Asked', FilesStay', NoneInherited', BlocksForReceiver',
         NEW c \in Client, Speaks(c, cl[c].plan),
         NEW o \in out', o.to \in Client, cl[o.to].plan.req = "RRQ"
  PROVE  Exact(Wanted(o.to), o.msg)
<1> SUFFICES ASSUME o.msg.op = "DATA"
             PROVE  Exact(Wanted(o.to), o.msg)
  BY DEF Exact
<1>1. o.msg.for = o.to
  BY DEF BlocksForReceiver
<1>2. cl[c].plan \in Plans
  BY DEF ClientsSound, ClientState
<1>3. CASE pc = "recv" /\ c \in DOMAIN ses /\ SendOld(c)
  <2>1. o \in Sendto(c, sinfo, ses[c])
    BY <1>3 DEF SendOld
  <2>2. ses[c].clsock # NoSock /\ ses[c].disabled \in BOOLEAN
    BY <1>3 DEF Asked, Follows, Inv, TypeOK, Session
  <2>3. o.to = c /\ o.msg = sinfo /\ ses[c].disabled = FALSE
    BY <2>1, <2>2 DEF Sendto
  <2>4. ~Loading(c)
    BY <1>3 DEF Loading
  <2> QED
    BY <1>1, <1>3, <2>3, <2>4 DEF OldExact
<1>4. CASE Told(c)
  <2>1. /\ c \in DOMAIN ses' /\ ses'[c].disabled = FALSE
        /\ o.to = c /\ o.msg = ses'[c].lastmsg
    BY <1>4 DEF Told
  <2> QED
    BY <1>2, <2>1, KeptExact DEF Wanted
<1> QED
  BY <1>3, <1>4 DEF Speaks

\* A client that has as much as it had.
LEMMA GotSame ==
  ASSUME NEW x, NEW y, NEW wire, GotRight(x, wire), y.got = x.got, y.k = x.k,
         (y.st = "done") = (x.st = "done")
  PROVE  GotRight(y, wire)
BY DEF GotRight

\* One client moves.
LEMMA OneClientExact ==
  ASSUME ClientsSound, ClientsExact, NEW c \in Client, NEW y,
         cl' = [cl EXCEPT ![c] = y], y.plan = cl[c].plan,
         cl[c].plan.req = "RRQ" => GotRight(y, Wanted(c))
  PROVE  ClientsExact'
<1>1. cl'[c] = y /\ \A b \in Client : b # c => cl'[b] = cl[b]
  BY DEF ClientsSound
<1>2. ASSUME NEW b \in Client, cl'[b].plan.req = "RRQ"
      PROVE  GotRight(cl'[b], Wire(cl'[b].plan.mode, InitFiles[cl'[b].plan.file]))
  <2>1. CASE b = c
    BY <1>1, <1>2, <2>1 DEF Wanted
  <2>2. CASE b # c
    BY <1>1, <1>2, <2>2 DEF ClientsExact, Wanted
  <2> QED
    BY <2>1, <2>2
<1> QED
  BY <1>2 DEF ClientsExact, Wanted

\* A block comes in: the client takes the next one only.
LEMMA TakesNext ==
  ASSUME NEW wire \in Seq(Unit), LastBlock(wire) <= BlkMax,
         NEW x \in ClientState, GotRight(x, wire), x.st = "wait",
         NEW m \in Message, m.op = "DATA", Exact(wire, m),
         m.blk = (x.k + 1) % (BlkMax + 1),
         NEW y, y.got = x.got \o m.data, y.k = x.k + 1,
         y.st = IF Len(m.data) < DataLen THEN "done" ELSE "wait"
  PROVE  GotRight(y, wire)
<1> DEFINE n == x.k
           k == n + 1
<1>1. n \in Nat /\ n * DataLen <= Len(wire) /\ x.got = Upto(wire, n * DataLen)
  BY DEF ClientState, GotRight
<1> HIDE DEF n
<1>2. /\ k \in 1 .. LastBlock(wire) /\ k \in Nat /\ k <= LastBlock(wire)
      /\ k = n + 1
  BY <1>1, BlockCount
<1> HIDE DEF k
<1>3. LastBlock(wire) \in Int /\ BlkMax \in Nat
  BY BufferAssumption, Bounds, LenProperties DEF LastBlock
<1>4. k < BlkMax + 1 /\ BlkMax + 1 \in Nat
  BY <1>2, <1>3
<1>5. k % (BlkMax + 1) = k
  BY <1>2, <1>4
<1>6. m.k = k /\ m.data = Block(wire, k)
  BY <1>2, <1>5 DEF Exact, n
<1> DEFINE data == m.data
           got == y.got
<1>7. data = Block(wire, n + 1) /\ got = Upto(wire, n * DataLen) \o data /\ y.k = k
  BY <1>1, <1>2, <1>6 DEF n
<1> DEFINE short == Len(data) < DataLen
<1>8. y.st = IF short THEN "done" ELSE "wait"
  OBVIOUS
<1> HIDE DEF data, got
<1>9. /\ Len(data) < DataLen => got = wire
      /\ ~(Len(data) < DataLen) => k * DataLen <= Len(wire) /\ got = Upto(wire, k * DataLen)
  <2> DEFINE a == Block(wire, n + 1)
             b == Upto(wire, n * DataLen) \o a
  <2>1. IF Len(a) < DataLen THEN b = wire
        ELSE (n + 1) * DataLen <= Len(wire) /\ b = Upto(wire, (n + 1) * DataLen)
    BY <1>1, NextBlockGot
  <2>2. data = a /\ got = b
    BY <1>7
  <2> HIDE DEF a, b
  <2> QED
    BY <1>2, <2>1, <2>2
<1> HIDE DEF short
<1>10. /\ short => got = wire
       /\ ~short => k * DataLen <= Len(wire) /\ got = Upto(wire, k * DataLen)
  BY <1>9 DEF short
<1> QED
  BY <1>7, <1>8, <1>10 DEF GotRight, got

LEMMA ReceiveExact ==
  ASSUME PlansFit, ClientsSound, NetworkSound, ClientsExact, BlocksExact,
         NEW d \in toClient, ClientReceive(d)
  PROVE  ClientsExact'
<1> DEFINE c == d.to
           m == d.msg
           wire == Wanted(c)
           v == IF cl[c].peer = NoPeer THEN d.src ELSE cl[c].peer
           x == [cl[c] EXCEPT !.peer = v]
           w == IF x.st = "wait" THEN "failed" ELSE x.st
           z == [x EXCEPT !.st = w]
           g == x.got \o m.data
           s == IF Len(m.data) < DataLen THEN "done" ELSE "wait"
           y == [x EXCEPT !.got = g, !.k = @ + 1, !.st = s]
           ack(k) == [from |-> c, dst |-> x.peer, op |-> "ACK", k |-> k, data |-> <<>>]
<1>1. c \in Client /\ m \in Message /\ d.src \in Nat
  BY ArrivingType
<1>2. cl[c] \in ClientState
  BY <1>1 DEF ClientsSound
<1>3. /\ x \in ClientState /\ x.plan = cl[c].plan /\ x.got = cl[c].got
      /\ x.k = cl[c].k /\ x.st = cl[c].st
  BY <1>1, <1>2 DEF ClientState
<1>4. z.plan = x.plan /\ z.got = x.got /\ z.k = x.k /\ (z.st = "done") = (x.st = "done")
  BY <1>3 DEF ClientState
<1>5. y.plan = x.plan /\ y.got = g /\ y.k = x.k + 1 /\ y.st = s
  BY <1>3 DEF ClientState
<1>6. \A e : LET a == [x EXCEPT !.last = {e}]
                 b == [y EXCEPT !.last = {e}]
             IN  /\ a.plan = x.plan /\ a.got = x.got /\ a.k = x.k /\ a.st = x.st
                 /\ b.plan = y.plan /\ b.got = y.got /\ b.k = y.k /\ b.st = y.st
  BY <1>3 DEF ClientState
<1>7. \/ Stay
      \/ /\ x.plan.req = "RRQ" /\ m.op = "DATA"
         /\ \/ /\ x.st = "wait" /\ m.blk = (x.k + 1) % (BlkMax + 1)
               /\ Send(c, y, ack(x.k + 1))
            \/ Send(c, x, ack(x.k))
      \/ x.plan.req = "WRQ" /\ ClientAck(c, x, m)
      \/ cl' = [cl EXCEPT ![c] = z]
  BY DEF ClientReceive, ClientData
<1>8. ASSUME x.plan.req = "RRQ"
      PROVE  /\ GotRight(x, wire) /\ wire \in Seq(Unit) /\ LastBlock(wire) <= BlkMax
             /\ Exact(wire, m)
  <2>1. cl[c].plan \in Plans /\ cl[c].plan.req = "RRQ"
    BY <1>2, <1>3, <1>8 DEF ClientState
  <2>2. wire \in Seq(Unit) /\ LastBlock(wire) <= BlkMax
    BY <1>1, <2>1, WantedType
  <2>3. GotRight(cl[c], wire)
    BY <1>1, <2>1 DEF ClientsExact
  <2>4. GotRight(x, wire)
    BY <1>3, <2>3, GotSame
  <2> QED
    BY <2>1, <2>2, <2>4 DEF BlocksExact
<1>9. CASE Stay
  BY <1>9 DEF Stay, ClientsExact, Wanted
<1>10. CASE /\ x.plan.req = "RRQ" /\ m.op = "DATA" /\ x.st = "wait"
            /\ m.blk = (x.k + 1) % (BlkMax + 1) /\ Send(c, y, ack(x.k + 1))
  <2> DEFINE b == [y EXCEPT !.last = {ack(x.k + 1)}]
  <2>1. cl' = [cl EXCEPT ![c] = b]
    BY <1>10 DEF Send
  <2>2. b.plan = y.plan /\ b.got = y.got /\ b.k = y.k /\ b.st = y.st
    BY <1>6
  <2> HIDE DEF b, x, y, z, m, c, wire, ack
  <2>3. b.got = x.got \o m.data /\ b.k = x.k + 1
        /\ b.st = IF Len(m.data) < DataLen THEN "done" ELSE "wait"
    BY <1>5, <2>2
  <2>4. GotRight(b, wire)
    BY <1>1, <1>3, <1>8, <1>10, <2>3, TakesNext
  <2>5. b.plan = cl[c].plan
    BY <1>3, <1>5, <2>2
  <2> QED
    BY <1>1, <2>1, <2>4, <2>5, OneClientExact DEF wire
<1>11. CASE x.plan.req = "RRQ" /\ Send(c, x, ack(x.k))
  <2> DEFINE a == [x EXCEPT !.last = {ack(x.k)}]
  <2>1. cl' = [cl EXCEPT ![c] = a]
    BY <1>11 DEF Send
  <2>2. a.plan = x.plan /\ a.got = x.got /\ a.k = x.k /\ a.st = x.st
    BY <1>6
  <2> HIDE DEF a, x, y, z, m, c, wire, ack
  <2>3. GotRight(a, wire)
    BY <1>8, <1>11, <2>2, GotSame
  <2>4. a.plan = cl[c].plan
    BY <1>3, <2>2
  <2> QED
    BY <1>1, <2>1, <2>3, <2>4, OneClientExact DEF wire
<1>12. CASE x.plan.req = "WRQ" /\ ClientAck(c, x, m)
  <2> DEFINE n == x.k + 1
             e == [from |-> c, dst |-> x.peer, op |-> "DATA", k |-> n,
                   data |-> Block(Uploaded(x.plan, c), n)]
             f == [x EXCEPT !.st = "done"]
             h == [x EXCEPT !.k = @ + 1, !.last = {e}]
  <2>1. \/ Stay \/ cl' = [cl EXCEPT ![c] = f] \/ cl' = [cl EXCEPT ![c] = h]
    BY <1>12 DEF ClientAck, Send
  <2>2. f.plan = x.plan /\ h.plan = x.plan
    BY <1>3 DEF ClientState
  <2> HIDE DEF f, h, x, c
  <2>3. cl[c].plan.req # "RRQ" /\ f.plan = cl[c].plan /\ h.plan = cl[c].plan
    BY <1>3, <1>12, <2>2
  <2> QED
    BY <1>1, <1>9, <2>1, <2>3, OneClientExact
<1>13. CASE cl' = [cl EXCEPT ![c] = z]
  <2> HIDE DEF x, z, c, wire
  <2>1. cl[c].plan.req = "RRQ" => GotRight(z, wire)
    BY <1>3, <1>4, <1>8, GotSame
  <2>2. z.plan = cl[c].plan
    BY <1>3, <1>4
  <2> QED
    BY <1>1, <1>13, <2>1, <2>2, OneClientExact DEF wire
<1> QED
  BY <1>7, <1>9, <1>10, <1>11, <1>12, <1>13

\* A client starts, repeats itself or gives up.
LEMMA TimerExact ==
  ASSUME ClientsSound, ClientsExact, NEW c \in Client, Start(c) \/ ClientTimeout(c)
  PROVE  ClientsExact'
<1>1. cl[c] \in ClientState
  BY DEF ClientsSound
<1>2. PICK y : /\ cl' = [cl EXCEPT ![c] = y]
               /\ \/ cl[c].st = "start" /\ \E e : y = [[cl[c] EXCEPT !.st = "wait"]
                                                           EXCEPT !.last = {e}]
                  \/ \E e : y = [[cl[c] EXCEPT !.tries = @ + 1] EXCEPT !.last = {e}]
                  \/ cl[c].st = "wait" /\ y = [cl[c] EXCEPT !.st = "failed"]
  BY DEF Start, ClientTimeout, Send
<1>3. /\ y.plan = cl[c].plan /\ y.got = cl[c].got /\ y.k = cl[c].k
      /\ (y.st = "done") = (cl[c].st = "done")
  BY <1>1, <1>2 DEF ClientState
<1>4. cl[c].plan.req = "RRQ" => GotRight(y, Wanted(c))
  BY <1>3, GotSame DEF ClientsExact
<1> QED
  BY <1>2, <1>3, <1>4, OneClientExact

----------------------------------------------------------------------------
(***************************************************************************)
(* The steps of the system for downloads                                   *)
(***************************************************************************)

\* Nothing of the server or of what it has sent changes, but what is gone.
LEMMA AsideExact ==
  ASSUME SystemInv, DownloadInv, UNCHANGED server,
         \A c \in Client : cl'[c].plan = cl[c].plan, toClient' \subseteq toClient
  PROVE  FilesStay' /\ OldExact' /\ BlocksExact'
<1>1. UNCHANGED <<ds, ses, pc, job, sinfo>> /\ DOMAIN ses \subseteq Client
  BY DEF server, vars, SystemInv, Inv, TypeOK
<1>2. FilesStay'
  BY <1>1 DEF DownloadInv, FilesStay
<1>3. OldExact'
  <2> SUFFICES ASSUME NEW c \in DOMAIN ses, cl'[c].plan.req = "RRQ",
                      ses[c].disabled = FALSE, sinfo.for = c, ~Loading(c)
               PROVE  Exact(Wire(cl'[c].plan.mode, InitFiles[cl'[c].plan.file]), sinfo)
    BY <1>1 DEF OldExact, Wanted, Loading
  <2>1. cl'[c].plan = cl[c].plan
    BY <1>1
  <2> QED
    BY <2>1 DEF DownloadInv, OldExact, Wanted
<1>4. BlocksExact'
  <2> SUFFICES ASSUME NEW d \in toClient, cl'[d.to].plan.req = "RRQ"
               PROVE  Exact(Wire(cl'[d.to].plan.mode, InitFiles[cl'[d.to].plan.file]), d.msg)
    BY DEF BlocksExact, Wanted
  <2>1. cl'[d.to].plan = cl[d.to].plan
    BY ArrivingType DEF SystemInv
  <2> QED
    BY <2>1 DEF DownloadInv, BlocksExact, Wanted
<1> QED
  BY <1>2, <1>3, <1>4

LEMMA ClientExact ==
  ASSUME PlansFit, SystemInv, DownloadInv,
         ClientNext \/ \E c \in Client : ClientTimeout(c)
  PROVE  DownloadInv'
<1>1. UNCHANGED server /\ toClient' \subseteq toClient
  BY DEF ClientNext, Start, ClientReceive, ClientTimeout, Leaves
<1>2. \A b \in Client : cl'[b].plan = cl[b].plan
  BY StartMoves, ClientReceiveMoves, ClientTimeoutMoves DEF ClientNext, SystemInv
<1>3. FilesStay' /\ OldExact' /\ BlocksExact'
  BY <1>1, <1>2, AsideExact
<1>4. ClientsExact'
  BY ReceiveExact, TimerExact DEF ClientNext, SystemInv, DownloadInv
<1> QED
  BY <1>3, <1>4 DEF DownloadInv

LEMMA LoseExact ==
  ASSUME SystemInv, DownloadInv, Lose \/ UNCHANGED system
  PROVE  DownloadInv'
<1>1. UNCHANGED server /\ UNCHANGED cl /\ toClient' \subseteq toClient
  BY DEF Lose, system, network
<1>2. FilesStay' /\ OldExact' /\ BlocksExact'
  BY <1>1, AsideExact
<1>3. ClientsExact'
  BY <1>1 DEF DownloadInv, ClientsExact, Wanted
<1> QED
  BY <1>2, <1>3 DEF DownloadInv

\* What a session's step and its replies are for the clients.
LEMMA RepliesExact ==
  ASSUME PlansFit, SystemInv, SystemInv', DownloadInv, FilesStay',
         BlocksForReceiver', NoneInherited', UNCHANGED cl,
         NEW c \in Client, Speaks(c, cl[c].plan), pc = "get" => job.cl = c,
         NEW dst, toClient' = toClient \cup Replies(dst)
  PROVE  DownloadInv'
<1>1. OldExact'
  BY SpeaksOld DEF SystemInv, DownloadInv
<1>2. ASSUME NEW d \in toClient', cl[d.to].plan.req = "RRQ"
      PROVE  Exact(Wanted(d.to), d.msg)
  <2>1. CASE d \in toClient
    BY <1>2, <2>1 DEF DownloadInv, BlocksExact
  <2>2. CASE d \in Replies(dst)
    <3>1. PICK o \in out' : o.to \in Client /\ d.to = o.to /\ d.msg = o.msg
      BY <2>2 DEF Replies
    <3>2. Exact(Wanted(o.to), o.msg)
      BY <1>2, <3>1, SpeaksExact DEF SystemInv, DownloadInv
    <3> QED
      BY <3>1, <3>2
  <2> QED
    BY <1>2, <2>1, <2>2
<1>3. BlocksExact'
  BY <1>2 DEF BlocksExact, Wanted
<1>4. ClientsExact'
  BY DEF DownloadInv, ClientsExact, Wanted
<1> QED
  BY <1>1, <1>3, <1>4 DEF DownloadInv

LEMMA ServerTransferExact ==
  ASSUME PlansFit, SystemInv, SystemInv', DownloadInv,
         BlocksForReceiver', NoneInherited', ServerTransfer
  PROVE  DownloadInv'
<1> DEFINE c == job.cl
<1>1. /\ get_session_data \/ put_session_data
      /\ toClient' = toClient \cup Replies(0) /\ UNCHANGED cl
  BY DEF ServerTransfer
<1>2. c \in DOMAIN ses /\ c \in Client
  BY <1>1 DEF get_session_data, put_session_data, SystemInv, Inv, JobInv, TypeOK
<1>3. ses[c].clsock # NoSock
  BY <1>2 DEF SystemInv, Asked, Follows
<1>4. \A p : Speaks(c, p)
  BY <1>1, <1>3, GetSpeaks, PutSpeaks DEF SystemInv
<1>5. Visits(c)
  BY <1>1, GetVisits, PutVisits DEF SystemInv
<1>6. FilesStay'
  BY <1>5, StepFilesStay DEF SystemInv, DownloadInv
<1> HIDE DEF c
<1>7. pc = "get" => job.cl = c
  BY DEF c
<1> QED
  BY <1>1, <1>2, <1>4, <1>6, <1>7, RepliesExact

LEMMA ServerReceiveExact ==
  ASSUME PlansFit, SystemInv, SystemInv', DownloadInv,
         BlocksForReceiver', NoneInherited', NEW d \in toServer, ServerReceive(d)
  PROVE  DownloadInv'
<1> DEFINE c == d.from
           p == cl[c].plan
<1>1. PICK s \in SocketOf(d) \cap events : Handle(s, d)
  BY DEF ServerReceive
<1>2. toClient' = toClient \cup Replies(d.dst) /\ UNCHANGED cl
  BY DEF ServerReceive
<1>3. Meets(c, p, d)
  BY Meeting
<1>4. c \in Client /\ p \in Plans /\ Honest(p, d)
  BY <1>3, DatagramParts DEF Meets, Honest
<1>5. Speaks(c, p)
  BY <1>1, <1>4, HandleSpeaks DEF SystemInv
<1>6. pc = "recv" /\ (Visits(c) \/ Adds(c) \/ Answers)
  <2> HIDE DEF c, p
  <2> QED
    BY <1>1, <1>3, HandleShapes DEF SystemInv
<1>7. FilesStay'
  <2> HIDE DEF c, p
  <2>1. Visits(c) \/ UNCHANGED ds
    BY <1>6 DEF Adds, Answers
  <2> QED
    BY <2>1, StepFilesStay DEF SystemInv, DownloadInv
<1> QED
  BY <1>2, <1>4, <1>5, <1>6, <1>7, RepliesExact

\* Housekeeping and the clock.
LEMMA HousekeepingExact ==
  ASSUME SystemInv, DownloadInv, UNCHANGED <<cl, toClient>>,
         \/ \E batch : epoll_wait(batch)
         \/ EpollTimeout \/ update_event \/ ResendSession \/ ResendDone
         \/ CleanupSession \/ CleanupDone \/ Tick
  PROVE  DownloadInv'
<1>1. /\ sinfo' = sinfo /\ pc \notin {"get", "put"}
      /\ (\E x : ds' \in close_data(ds, x)) \/ UNCHANGED ds
  <2>1. CASE (\E batch : epoll_wait(batch)) \/ EpollTimeout \/ update_event \/ Tick
    BY <2>1 DEF epoll_wait, EpollTimeout, update_event, Tick
  <2>2. CASE ResendSession
    BY <2>2 DEF ResendSession
  <2>3. CASE ResendDone \/ CleanupSession \/ CleanupDone
    BY <2>3 DEF ResendDone, CleanupSession, CleanupDone
  <2> QED
    BY <2>1, <2>2, <2>3
<1>2. FilesStay'
  BY <1>1, StepFilesStay DEF SystemInv, DownloadInv
<1>3. \A b \in DOMAIN ses' : b \in DOMAIN ses /\ Goes(b, ses[b], ses'[b])
  BY HousekeepingGoes DEF SystemInv
<1>4. OldExact'
  <2> SUFFICES ASSUME NEW c \in DOMAIN ses', cl[c].plan.req = "RRQ",
                      ses'[c].disabled = FALSE, sinfo.for = c
               PROVE  Exact(Wanted(c), sinfo)
    BY <1>1 DEF OldExact, Wanted
  <2>1. c \in DOMAIN ses /\ Goes(c, ses[c], ses'[c])
    BY <1>3
  <2>2. ses[c].disabled \in BOOLEAN
    BY <2>1 DEF SystemInv, Inv, TypeOK, Session
  <2>3. ses[c].disabled = FALSE
    BY <2>1, <2>2 DEF Goes
  <2> QED
    BY <1>1, <2>1, <2>3 DEF DownloadInv, OldExact, Loading
<1>5. BlocksExact' /\ ClientsExact'
  BY DEF DownloadInv, BlocksExact, ClientsExact, Wanted
<1> QED
  BY <1>2, <1>4, <1>5 DEF DownloadInv

LEMMA SystemInitExact ==
  ASSUME PlansFit, SystemInit
  PROVE  DownloadInv
<1>1. ds.files = InitFiles /\ DOMAIN ses = {} /\ toClient = {}
  BY DEF SystemInit, Init
<1>2. FilesStay /\ OldExact /\ BlocksExact
  BY <1>1 DEF FilesStay, OldExact, BlocksExact
<1>3. ASSUME NEW c \in Client, cl[c].plan.req = "RRQ"
      PROVE  GotRight(cl[c], Wanted(c))
  <2>1. cl[c].st = "start" /\ cl[c].k = 0 /\ cl[c].got = <<>>
    BY DEF SystemInit
  <2>2. cl[c].plan \in Plans
    BY SystemInitInv DEF SystemInv, ClientsSound, ClientState
  <2> DEFINE wire == Wanted(c)
  <2>3. wire \in Seq(Unit)
    BY <1>3, <2>2, WantedType
  <2> HIDE DEF wire
  <2>4. Len(wire) \in Nat /\ DataLen \in Nat /\ Upto(wire, 0) = <<>>
    BY <2>3, LenProperties, BufferAssumption, SubSeqEmpty DEF Upto
  <2>5. 0 * DataLen = 0
    BY <2>4
  <2> QED
    BY <2>1, <2>4, <2>5 DEF GotRight, wire
<1>4. ClientsExact
  BY <1>3 DEF ClientsExact
<1> QED
  BY <1>2, <1>4 DEF DownloadInv

LEMMA SystemNextExact ==
  ASSUME PlansFit, SystemInv, SystemInv', DownloadInv,
         BlocksForReceiver', NoneInherited', [SystemNext]_system
  PROVE  DownloadInv'
<1>1. CASE ServerStep
  <2>1. /\ \/ \E batch : epoll_wait(batch)
           \/ EpollTimeout \/ update_event \/ ResendSession \/ ResendDone
           \/ CleanupSession \/ CleanupDone
        /\ UNCHANGED <<cl, toClient>>
    BY <1>1 DEF ServerStep
  <2> QED
    BY <2>1, HousekeepingExact
<1>2. CASE SystemTick
  BY <1>2, HousekeepingExact DEF SystemTick
<1> QED
  BY <1>1, <1>2, ServerTransferExact, ServerReceiveExact, ClientExact, LoseExact
     DEF SystemNext, ServerNext

\* A client has a beginning of the file, and all of it when it is done.
LEMMA DownloadInvExact ==
  ASSUME PlansFit, SystemInv, DownloadInv
  PROVE  DownloadExact
<1> SUFFICES ASSUME NEW c \in Client, cl[c].plan.req = "RRQ"
             PROVE  LET wire == Wire(cl[c].plan.mode, ds.files[cl[c].plan.file]) IN
                    /\ cl[c].plan.file \in DOMAIN ds.files
                    /\ IsPrefix(cl[c].got, wire)
                    /\ cl[c].st = "done" => cl[c].got = wire
  BY DEF DownloadExact
<1> DEFINE x == cl[c]
           wire == Wanted(c)
<1>1. x.plan \in Plans /\ x.k \in Nat
  BY DEF SystemInv, ClientsSound, ClientState
<1>2. x.plan.file \in DOMAIN InitFiles /\ wire \in Seq(Unit)
  BY <1>1, WantedType
<1>3. /\ wire = Wire(x.plan.mode, ds.files[x.plan.file])
      /\ x.plan.file \in DOMAIN ds.files
  BY <1>2 DEF Wanted, DownloadInv, FilesStay, SystemInv, TransferInv, Frozen
<1>4. GotRight(x, wire)
  BY DEF DownloadInv, ClientsExact
<1> HIDE DEF x, wire
<1>5. x.st = "done" => x.got = wire
  BY <1>4 DEF GotRight
<1>6. IsPrefix(x.got, wire)
  <2> DEFINE n == x.k * DataLen
  <2>1. Len(wire) \in Nat /\ DataLen \in Nat /\ n \in Nat
    BY <1>1, <1>2, LenProperties, BufferAssumption
  <2>2. CASE x.st = "done"
    BY <1>5, <2>1, <2>2 DEF IsPrefix
  <2>3. CASE x.st # "done"
    <3>1. n <= Len(wire) /\ x.got = Upto(wire, n)
      BY <1>4, <2>3 DEF GotRight
    <3> HIDE DEF n
    <3>2. n \in 0 .. Len(wire)
      BY <2>1, <3>1
    <3>3. x.got \in Seq(Unit) /\ Len(x.got) = n
      BY <1>2, <3>1, <3>2, UptoType
    <3>4. SubSeq(x.got, 1, Len(x.got)) = x.got
      BY <3>3, SubSeqFull
    <3> QED
      BY <3>1, <3>2, <3>3, <3>4, <2>1 DEF IsPrefix, Upto
  <2> QED
    BY <2>2, <2>3
<1> QED
  BY <1>3, <1>5, <1>6 DEF x

\* A client that downloads a file of the start has a beginning of it, in the
\* mode it asked for, and all of it when it is done, not less: if the blocks of the file
\* have different numbers, in every behaviour in which no client is sent a
\* block made for another and no stream is left open to a later session.
THEOREM DownloadExactHolds ==
  ASSUME PlansFit
  PROVE  SystemSpec /\ []BlocksForReceiver /\ []NoneInherited => []DownloadExact
<1>1. SystemInit => DownloadInv
  BY SystemInitExact
<1>2. /\ SystemInv /\ SystemInv' /\ DownloadInv
      /\ BlocksForReceiver' /\ NoneInherited' /\ [SystemNext]_system
      => DownloadInv'
  BY SystemNextExact
<1>3. SystemInv /\ DownloadInv => DownloadExact
  BY DownloadInvExact
<1> QED
  BY <1>1, <1>2, <1>3, SystemInvariance, PTL DEF SystemSpec

----------------------------------------------------------------------------
(***************************************************************************)
(* Uploads                                                                 *)
(*                                                                         *)
(* A client that is told its last block arrived finds its file complete:   *)
(* on a disk that works and with descriptors to spare, for new names, one  *)
(* for every client, and uploads short enough for their blocks to have     *)
(* different numbers; as long as no client is sent an acknowledgment that  *)
(* was made for another.                                                   *)
(***************************************************************************)

\* What clients set out to upload.
UploadsFit ==
  \A p \in Plans, c \in Client :
    p.req = "WRQ" =>
      p.file \notin DOMAIN InitFiles /\ LastBlock(Uploaded(p, c)) <= BlkMax

\* No two clients upload under one name.
NamesApart ==
  \A b, c \in Client :
    cl[b].plan.req = "WRQ" /\ cl[c].plan.req = "WRQ" /\ b # c =>
      cl[b].plan.file # cl[c].plan.file

\* An acknowledgment a client is sent was made for it.
AcksForReceiver ==
  \A o \in out : o.to \in Client /\ o.msg.op = "ACK" => o.msg.for = o.to

\* What c uploads with plan p is complete in store s.
UploadIn(p, c, s) == Closed(s, p.file, Upload(c, p.size))

\* m acknowledges the last block of an upload only when it is.
Confirms(p, c, m, s) ==
  /\ p.req = "WRQ" /\ p.size > 0 /\ m.op = "ACK"
  /\ Len(Uploaded(p, c)) < m.blk * DataLen
  => UploadIn(p, c, s)

\* So does what a session keeps to send once more, what sinfo still holds, and
\* what is under way.
SessionsConfirm == \A c \in DOMAIN ses : Confirms(cl[c].plan, c, ses[c].lastmsg, ds)

OldConfirms == \A c \in Client : sinfo.for = c => Confirms(cl[c].plan, c, sinfo, ds)

ArrivingConfirms == \A d \in toClient : Confirms(cl[d.to].plan, d.to, d.msg, ds)

\* A client that is done has its file there.
ClientsStored ==
  \A c \in Client :
    cl[c].plan.req = "WRQ" /\ cl[c].plan.size > 0 /\ cl[c].st = "done" =>
      UploadIn(cl[c].plan, c, ds)

\* A file under a name clients upload to has a beginning of the upload.
FilesBegun ==
  \A c \in Client :
    cl[c].plan.req = "WRQ" /\ cl[c].plan.file \in DOMAIN ds.files =>
      Begun(ds, cl[c].plan.file, Upload(c, cl[c].plan.size))

StoredInv ==
  NamesApart /\ OldConfirms /\ ArrivingConfirms /\ ClientsStored /\ FilesBegun

\* A session of an upload is of what its client uploads.
LEMMA SentUploaded ==
  ASSUME Asked, NEW c \in DOMAIN ses, NEW p, p = cl[c].plan, p.req = "WRQ"
  PROVE  Sent(c) = Uploaded(p, c) /\ ses[c].req = "WRQ"
<1>1. Follows(c, ses[c], p)
  BY DEF Asked
<1> QED
  BY <1>1 DEF Follows, Sent, Uploaded

----------------------------------------------------------------------------
(***************************************************************************)
(* What came in, in the network                                            *)
(***************************************************************************)

\* Uploads stay where they are, whatever datagram the server reads.
LEMMA HandleArrives ==
  ASSUME UploadsFit, Inv, Asked, NEW plenty \in BOOLEAN, UploadInv(plenty),
         NEW c, NEW p, NEW d, Meets(c, p, d), NEW s, Handle(s, d)
  PROVE  UploadInv(plenty)'
<1>0. /\ c = d.from /\ c \in Client /\ p = cl[c].plan /\ p \in Plans
      /\ p.file \in File /\ p.mode \in Mode /\ p.size \in 0 .. MaxUpload
      /\ d.k \in Nat
      /\ c \in DOMAIN ses =>
           Sound(ses[c]) /\ ses[c].req = p.req /\ ses[c].clsock # NoSock
  BY PlanParts, DatagramParts DEF Meets, Honest
<1>1. \/ RecvRepeatedRequest(s, c)
      \/ RecvRefusedRequest(s, c, p.req, p.file)
      \/ p.req = "RRQ" /\ RecvRRQ(s, c, p.file, p.mode)
      \/ p.req = "WRQ" /\ RecvWRQ(s, c, p.file, p.mode, p.size)
      \/ d.op = "DATA" /\ RecvData(s, c, d.k, d.data)
      \/ d.op = "ACK" /\ RecvAck(s, c, d.k)
      \/ RecvOwn(s, c)
  BY <1>0 DEF Handle
<1>2. /\ pc = "recv" /\ Receive(s) /\ (Visits(c) \/ Adds(c) \/ Answers)
  BY HandleShapes
<1>3. /\ Aside /\ StoreSound(ds) /\ sinfo \in Message
      /\ c \in DOMAIN ses => Sound(ses[c]) /\ Current(ses[c])
  BY <1>0, <1>2, AtReceive
<1>4. CASE RecvRepeatedRequest(s, c)
  <2>1. c \in DOMAIN ses /\ Resend(c)
    BY <1>4 DEF RecvRepeatedRequest
  <2>2. Visits(c)
    BY <1>0, <1>3, <2>1, ResendVisits
  <2> QED
    BY <1>2, <2>1, <2>2, ResendArrives
<1>5. CASE RecvRefusedRequest(s, c, p.req, p.file)
  <2>1. \E code \in Nat : Refuse(c, code)
    BY <1>5 DEF RecvRefusedRequest, NOTFOUND, FILEEXIST
  <2>2. Answers
    BY <1>0, <1>3, <2>1, RefuseType
  <2> QED
    BY <1>2, <2>2, AnswerArrives
<1>6. CASE RecvRRQ(s, c, p.file, p.mode)
  BY <1>0, <1>6, RRQArrives
<1>7. CASE RecvWRQ(s, c, p.file, p.mode, p.size)
  BY <1>0, <1>7, WRQArrives
<1>8. CASE d.op = "DATA" /\ RecvData(s, c, d.k, d.data)
  <2>1. c \in DOMAIN ses
    BY <1>8 DEF RecvData
  <2>2. /\ p.req = "WRQ" /\ d.k \in 1 .. LastBlock(Uploaded(p, c))
        /\ d.data = Block(Uploaded(p, c), d.k)
    BY <1>0, <1>8 DEF Meets, Honest
  <2>3. Sent(c) = Uploaded(p, c) /\ ses[c].req = "WRQ"
    BY <1>0, <2>1, <2>2, SentUploaded
  <2>4. LastBlock(Sent(c)) <= BlkMax
    BY <1>0, <2>2, <2>3 DEF UploadsFit
  <2>5. d.k \in 1 .. LastBlock(Sent(c)) /\ d.data = Block(Sent(c), d.k)
    BY <2>2, <2>3
  <2> QED
    BY <1>0, <1>8, <2>1, <2>3, <2>4, <2>5, DataArrives
<1>9. CASE d.op = "ACK" /\ RecvAck(s, c, d.k)
  <2>1. c \in DOMAIN ses /\ p.req = "RRQ"
    BY <1>9 DEF RecvAck, Meets, Honest
  <2>2. Visits(c) \/ Answers
    BY <1>0, <1>9, <2>1, RecvAckVisits
  <2> QED
    BY <1>0, <1>2, <2>1, <2>2, ReaderArrives, AnswerArrives
<1>10. CASE RecvOwn(s, c)
  <2>1. UNCHANGED <<ds, ses>> /\ pc' = "recv"
    BY <1>10 DEF RecvOwn, Return
  <2> QED
    BY <1>2, <2>1, StillArrives
<1> QED
  BY <1>1, <1>4, <1>5, <1>6, <1>7, <1>8, <1>9, <1>10

\* Steps of the system that are steps of the server on its own, or none.
LEMMA OwnSteps ==
  ASSUME [SystemNext]_system
  PROVE  [Next]_vars \/ \E d \in toServer : ServerReceive(d)
<1>1. CASE ServerStep
  <2>1. \A s \in SvSock \cup epoll : {s} \in SUBSET (SvSock \cup epoll)
    OBVIOUS
  <2> QED
    BY <1>1, <2>1 DEF ServerStep, Next, Loop
<1>2. CASE ServerTransfer
  BY <1>2 DEF ServerTransfer, Next, Loop
<1>3. CASE SystemTick
  BY <1>3 DEF SystemTick, Next
<1>4. CASE ClientNext \/ (\E c \in Client : ClientTimeout(c)) \/ Lose \/ UNCHANGED system
  <2>1. UNCHANGED server
    BY <1>4 DEF ClientNext, Start, ClientReceive, ClientTimeout, Lose, system
  <2> QED
    BY <2>1 DEF server
<1> QED
  BY <1>1, <1>2, <1>3, <1>4 DEF SystemNext, ServerNext

LEMMA SystemUploadInv ==
  ASSUME UploadsFit, SystemInv, NEW plenty \in BOOLEAN, UploadInv(plenty),
         plenty => Free # {}, [SystemNext]_system
  PROVE  UploadInv(plenty)'
<1>1. CASE [Next]_vars
  BY <1>1, NextUploadInv DEF SystemInv
<1>2. CASE \E d \in toServer : ServerReceive(d)
  <2>1. PICK d \in toServer : ServerReceive(d)
    BY <1>2
  <2>2. PICK s \in SocketOf(d) \cap events : Handle(s, d)
    BY <2>1 DEF ServerReceive
  <2>3. Meets(d.from, cl[d.from].plan, d)
    BY Meeting
  <2> QED
    BY <2>2, <2>3, HandleArrives DEF SystemInv
<1> QED
  BY <1>1, <1>2, OwnSteps

\* What a session keeps to send once more.
LEMMA ConfirmsNow ==
  ASSUME SystemInv, NEW plenty, plenty = TRUE, UploadInv(plenty), ~IoFaults
  PROVE  SessionsConfirm
<1> SUFFICES ASSUME NEW c \in DOMAIN ses, cl[c].plan.req = "WRQ", cl[c].plan.size > 0,
                    ses[c].lastmsg.op = "ACK",
                    Len(Uploaded(cl[c].plan, c)) < ses[c].lastmsg.blk * DataLen
             PROVE  UploadIn(cl[c].plan, c, ds)
  BY DEF SessionsConfirm, Confirms
<1> DEFINE x == ses[c]
           p == cl[c].plan
           wire == Sent(c)
           M == BlkMax + 1
           b == x.blknum
           n == x.nblk
           L == Len(wire)
<1>1. /\ Inv /\ Asked /\ Follows(c, x, p) /\ Sound(x) /\ n \in Nat /\ c \in Client
  <2>1. Inv /\ Asked /\ Sound(x) /\ c \in Client
    BY DEF SystemInv, Inv, TypeOK, Sound
  <2> QED
    BY <2>1, SessionParts DEF Asked
<1>2. /\ x.req = "WRQ" /\ x.filename = p.file /\ x.size = p.size
      /\ x.clsock # NoSock /\ Numbered(x) /\ wire = Uploaded(p, c)
  BY <1>1, SentUploaded DEF Follows
<1>3. wire \in Seq(Unit)
  BY <1>1, SentType
<1>4. L < b * DataLen
  BY <1>2 DEF Numbered
<1>5. b = n % M
  <2>1. Writer(x)
    BY <1>2 DEF Writer
  <2>2. Arrives(c, plenty)
    BY <2>1 DEF UploadInv
  <2> QED
    BY <2>2 DEF Arrives, Within, Between
<1> HIDE DEF b
<1>6. L \in Nat /\ DataLen \in Nat /\ M \in Nat /\ M > 0
  BY <1>3, LenProperties, BufferAssumption, Bounds
<1> HIDE DEF L, M, n
<1>7. b \in Nat /\ b <= n
  BY <1>1, <1>5, <1>6
<1>8. b * DataLen <= n * DataLen /\ b * DataLen \in Nat /\ n * DataLen \in Nat
  BY <1>1, <1>6, <1>7
<1>9. L < n * DataLen
  BY <1>4, <1>6, <1>8
<1>10. Closed(ds, x.filename, Upload(c, x.size))
  <2>1. Len(Sent(c)) < ses[c].nblk * DataLen
    BY <1>9 DEF L, n
  <2> QED
    BY <1>1, <1>2, <2>1, SessionStored
<1> QED
  BY <1>2, <1>10 DEF UploadIn

----------------------------------------------------------------------------
(***************************************************************************)
(* Complete uploads stay so                                                *)
(***************************************************************************)

\* From s to t the store takes a step of one session, or none.
StoreMoves(s, t) == s = t \/ \E free, f, w : Stepped(s, t, free, f, w)

LEMMA UploadStays ==
  ASSUME NEW s, StoreSound(s), NEW t, StoreMoves(s, t), NEW p, NEW c, UploadIn(p, c, s)
  PROVE  UploadIn(p, c, t)
BY ClosedKept DEF StoreMoves, UploadIn

LEMMA ConfirmsStill ==
  ASSUME NEW s, StoreSound(s), NEW t, StoreMoves(s, t), NEW p, NEW c, NEW m,
         Confirms(p, c, m, s)
  PROVE  Confirms(p, c, m, t)
BY UploadStays DEF Confirms

\* Every step of the system.
LEMMA SystemMoves ==
  ASSUME SystemInv, [SystemNext]_system
  PROVE  StoreMoves(ds, ds')
<1>0. StoreSound(ds)
  BY DEF SystemInv, Inv
<1>1. ASSUME NEW c, Visits(c)
      PROVE  StoreMoves(ds, ds')
  BY <1>1 DEF Visits, StoreMoves
<1>2. ASSUME UNCHANGED ds
      PROVE  StoreMoves(ds, ds')
  BY <1>2 DEF StoreMoves
<1>3. CASE ServerStep
  <2>1. CASE ResendSession
    <3>1. CASE \E x : ds' \in close_data(ds, x)
      BY <1>0, <3>1, CloseSteps DEF StoreMoves
    <3> QED
      BY <1>2, <2>1, <3>1 DEF ResendSession
  <2>2. CASE ~ResendSession
    <3>1. UNCHANGED ds
      BY <1>3, <2>2 DEF ServerStep, epoll_wait, EpollTimeout, update_event, ResendDone,
         CleanupSession, CleanupDone
    <3> QED
      BY <1>2, <3>1
  <2> QED
    BY <2>1, <2>2
<1>4. CASE ServerTransfer
  BY <1>1, <1>4, GetVisits, PutVisits DEF ServerTransfer, SystemInv
<1>5. CASE \E d \in toServer : ServerReceive(d)
  <2>1. PICK d \in toServer : ServerReceive(d)
    BY <1>5
  <2>2. PICK k \in SocketOf(d) \cap events : Handle(k, d)
    BY <2>1 DEF ServerReceive
  <2>3. Meets(d.from, cl[d.from].plan, d)
    BY Meeting
  <2>4. Visits(d.from) \/ Adds(d.from) \/ Answers
    BY <2>2, <2>3, HandleShapes DEF SystemInv
  <2> QED
    BY <1>1, <1>2, <2>4 DEF Adds, Answers
<1>6. CASE SystemTick
  BY <1>2, <1>6 DEF SystemTick, Tick
<1>7. CASE ClientNext \/ (\E c \in Client : ClientTimeout(c)) \/ Lose \/ UNCHANGED system
  <2>1. UNCHANGED server
    BY <1>7 DEF ClientNext, Start, ClientReceive, ClientTimeout, Lose, system
  <2> QED
    BY <1>2, <2>1 DEF server, vars
<1> QED
  BY <1>3, <1>4, <1>5, <1>6, <1>7 DEF SystemNext, ServerNext

\* Plans do not change.
LEMMA PlansStay ==
  ASSUME SystemInv, [SystemNext]_system
  PROVE  \A c \in Client : cl'[c].plan = cl[c].plan
<1>1. CASE ClientNext \/ \E c \in Client : ClientTimeout(c)
  BY <1>1, StartMoves, ClientReceiveMoves, ClientTimeoutMoves DEF ClientNext, SystemInv
<1>2. CASE ServerNext \/ Lose \/ SystemTick \/ UNCHANGED system
  <2>1. UNCHANGED cl
    BY <1>2 DEF ServerNext, ServerStep, ServerTransfer, ServerReceive, Lose, SystemTick,
       system
  <2> QED
    BY <2>1
<1> QED
  BY <1>1, <1>2 DEF SystemNext

LEMMA ApartStays ==
  ASSUME NamesApart, \A c \in Client : cl'[c].plan = cl[c].plan
  PROVE  NamesApart'
BY DEF NamesApart

----------------------------------------------------------------------------
(***************************************************************************)
(* Acknowledgments                                                         *)
(***************************************************************************)

\* A step of one session: what it leaves in sinfo.
LEMMA SpeaksOldConfirms ==
  ASSUME SystemInv, SystemInv', OldConfirms, SessionsConfirm', StoreMoves(ds, ds'),
         UNCHANGED cl, NEW c \in Client, Speaks(c, cl[c].plan)
  PROVE  OldConfirms'
<1> SUFFICES ASSUME NEW b \in Client, sinfo'.for = b
             PROVE  Confirms(cl[b].plan, b, sinfo', ds')
  BY DEF OldConfirms
<1>0. StoreSound(ds)
  BY DEF SystemInv, Inv
<1>1. CASE sinfo' = sinfo
  <2>1. Confirms(cl[b].plan, b, sinfo, ds)
    BY <1>1 DEF OldConfirms
  <2>2. Confirms(cl[b].plan, b, sinfo, ds')
    BY <1>0, <2>1, ConfirmsStill
  <2> QED
    BY <1>1, <2>2
<1>2. CASE sinfo'.op = "ERROR"
  BY <1>2 DEF Confirms
<1>3. CASE c \in DOMAIN ses' /\ sinfo' = ses'[c].lastmsg
  <2>1. sinfo'.op = "none" \/ sinfo'.for = c
    BY <1>3 DEF SystemInv, Asked, Follows
  <2>2. CASE sinfo'.op = "none"
    BY <2>2 DEF Confirms
  <2>3. CASE b = c
    BY <1>3, <2>3 DEF SessionsConfirm
  <2> QED
    BY <2>1, <2>2, <2>3
<1> QED
  BY <1>1, <1>2, <1>3 DEF Speaks, Told, SendOld

\* And what it sends.
LEMMA SpeaksConfirms ==
  ASSUME SystemInv, OldConfirms, SessionsConfirm', AcksForReceiver', StoreMoves(ds, ds'),
         UNCHANGED cl, NEW c \in Client, Speaks(c, cl[c].plan),
         NEW o \in out', o.to \in Client
  PROVE  Confirms(cl[o.to].plan, o.to, o.msg, ds')
<1> SUFFICES ASSUME o.msg.op = "ACK"
             PROVE  Confirms(cl[o.to].plan, o.to, o.msg, ds')
  BY DEF Confirms
<1>0. StoreSound(ds)
  BY DEF SystemInv, Inv
<1>1. o.msg.for = o.to
  BY DEF AcksForReceiver
<1>2. CASE pc = "recv" /\ c \in DOMAIN ses /\ SendOld(c)
  <2>1. o \in Sendto(c, sinfo, ses[c])
    BY <1>2 DEF SendOld
  <2>2. o.msg = sinfo
    BY <2>1 DEF Sendto
  <2>3. Confirms(cl[o.to].plan, o.to, sinfo, ds)
    BY <1>1, <2>2 DEF OldConfirms
  <2>4. Confirms(cl[o.to].plan, o.to, sinfo, ds')
    BY <1>0, <2>3, ConfirmsStill
  <2> QED
    BY <2>2, <2>4
<1>3. CASE Told(c)
  <2>1. c \in DOMAIN ses' /\ o.to = c /\ o.msg = ses'[c].lastmsg
    BY <1>3 DEF Told
  <2> QED
    BY <2>1 DEF SessionsConfirm
<1> QED
  BY <1>2, <1>3 DEF Speaks

\* What a session's step and its replies are for the clients.
LEMMA RepliesConfirm ==
  ASSUME SystemInv, SystemInv', StoredInv, SessionsConfirm', AcksForReceiver',
         StoreMoves(ds, ds'), UNCHANGED cl, NEW c \in Client, Speaks(c, cl[c].plan),
         NEW dst, toClient' = toClient \cup Replies(dst)
  PROVE  OldConfirms' /\ ArrivingConfirms' /\ ClientsStored'
<1>0. StoreSound(ds)
  BY DEF SystemInv, Inv
<1>1. OldConfirms'
  BY SpeaksOldConfirms DEF StoredInv
<1>2. ASSUME NEW d \in toClient'
      PROVE  Confirms(cl[d.to].plan, d.to, d.msg, ds')
  <2>1. CASE d \in toClient
    <3>1. Confirms(cl[d.to].plan, d.to, d.msg, ds)
      BY <2>1 DEF StoredInv, ArrivingConfirms
    <3> QED
      BY <1>0, <3>1, ConfirmsStill
  <2>2. CASE d \in Replies(dst)
    <3>1. PICK o \in out' : o.to \in Client /\ d.to = o.to /\ d.msg = o.msg
      BY <2>2 DEF Replies
    <3>2. Confirms(cl[o.to].plan, o.to, o.msg, ds')
      BY <3>1, SpeaksConfirms DEF StoredInv
    <3> QED
      BY <3>1, <3>2
  <2> QED
    BY <1>2, <2>1, <2>2
<1>3. ArrivingConfirms'
  BY <1>2 DEF ArrivingConfirms
<1>4. ClientsStored'
  BY <1>0, UploadStays DEF StoredInv, ClientsStored
<1> QED
  BY <1>1, <1>3, <1>4

\* A client is done when the last block is acknowledged.
LEMMA AckedStored ==
  ASSUME UploadsFit, NEW c \in Client, NEW p \in Plans, p.req = "WRQ", NEW m, NEW k,
         k = LastBlock(Uploaded(p, c)), m.blk = k % (BlkMax + 1), m.op = "ACK",
         NEW s, Confirms(p, c, m, s), p.size > 0
  PROVE  UploadIn(p, c, s)
<1> DEFINE wire == Uploaded(p, c)
<1>1. wire \in Seq(Unit)
  BY UploadedType
<1>2. k \in Nat \ {0} /\ Len(wire) < k * DataLen
  BY <1>1, LastBlockType
<1>3. k <= BlkMax
  BY DEF UploadsFit
<1>4. k % (BlkMax + 1) = k
  BY <1>2, <1>3, Bounds
<1> QED
  BY <1>2, <1>4 DEF Confirms

\* One client moves.
LEMMA OneClientStored ==
  ASSUME ClientsSound, ClientsStored, NEW c \in Client, NEW y, UNCHANGED ds,
         cl' = [cl EXCEPT ![c] = y], y.plan = cl[c].plan,
         \/ y.st = "done" => cl[c].st = "done"
         \/ cl[c].plan.req = "RRQ"
         \/ cl[c].plan.req = "WRQ" /\ cl[c].plan.size > 0 => UploadIn(cl[c].plan, c, ds)
  PROVE  ClientsStored'
<1>1. cl'[c] = y /\ \A b \in Client : b # c => cl'[b] = cl[b]
  BY DEF ClientsSound
<1>2. ASSUME NEW b \in Client, cl'[b].plan.req = "WRQ", cl'[b].plan.size > 0,
             cl'[b].st = "done"
      PROVE  UploadIn(cl'[b].plan, b, ds')
  <2>1. CASE b = c
    BY <1>1, <1>2, <2>1 DEF ClientsStored
  <2>2. CASE b # c
    BY <1>1, <1>2, <2>2 DEF ClientsStored
  <2> QED
    BY <2>1, <2>2
<1> QED
  BY <1>2 DEF ClientsStored

LEMMA ReceiveStored ==
  ASSUME UploadsFit, ClientsSound, NetworkSound, ClientsStored, ArrivingConfirms,
         NEW d \in toClient, ClientReceive(d)
  PROVE  ClientsStored'
<1> DEFINE c == d.to
           m == d.msg
           wire == Uploaded(cl[c].plan, c)
           v == IF cl[c].peer = NoPeer THEN d.src ELSE cl[c].peer
           x == [cl[c] EXCEPT !.peer = v]
           w == IF x.st = "wait" THEN "failed" ELSE x.st
           z == [x EXCEPT !.st = w]
           f == [x EXCEPT !.st = "done"]
           n == x.k + 1
<1>1. c \in Client /\ m \in Message /\ d.src \in Nat
  BY ArrivingType
<1>2. cl[c] \in ClientState
  BY <1>1 DEF ClientsSound
<1>3. /\ x \in ClientState /\ x.plan = cl[c].plan /\ x.k = cl[c].k /\ x.st = cl[c].st
  BY <1>1, <1>2 DEF ClientState
<1>4. z.plan = x.plan /\ z.st = w /\ f.plan = x.plan
  BY <1>3 DEF ClientState
<1>5. UNCHANGED ds
  BY DEF ClientReceive, server, vars
<1>6. \/ Stay
      \/ x.plan.req = "RRQ" /\ \E y : cl' = [cl EXCEPT ![c] = y] /\ y.plan = x.plan
      \/ /\ x.plan.req = "WRQ" /\ m.op = "ACK"
         /\ x.k = LastBlock(wire) /\ m.blk = x.k % (BlkMax + 1)
         /\ cl' = [cl EXCEPT ![c] = f]
      \/ x.plan.req = "WRQ" /\ \E y : /\ cl' = [cl EXCEPT ![c] = y] /\ y.plan = x.plan
                                      /\ y.st = x.st
      \/ cl' = [cl EXCEPT ![c] = z]
  <2> DEFINE s == IF Len(m.data) < DataLen THEN "done" ELSE "wait"
             g == x.got \o m.data
             a == [x EXCEPT !.got = g, !.k = @ + 1, !.st = s]
             h == [x EXCEPT !.k = @ + 1]
  <2>1. \A e : LET a1 == [a EXCEPT !.last = {e}]
                   x1 == [x EXCEPT !.last = {e}]
                   h1 == [h EXCEPT !.last = {e}]
               IN  /\ a1.plan = x.plan /\ x1.plan = x.plan /\ h1.plan = x.plan
                   /\ x1.st = x.st /\ h1.st = x.st
    BY <1>3 DEF ClientState
  <2>2. \/ Stay
        \/ /\ x.plan.req = "RRQ"
           /\ (\E e : Send(c, a, e)) \/ (\E e : Send(c, x, e))
        \/ /\ x.plan.req = "WRQ" /\ m.op = "ACK"
           /\ x.k = LastBlock(Uploaded(x.plan, c)) /\ m.blk = x.k % (BlkMax + 1)
           /\ cl' = [cl EXCEPT ![c] = f]
        \/ x.plan.req = "WRQ" /\ \E e : Send(c, h, e)
        \/ cl' = [cl EXCEPT ![c] = z]
    BY DEF ClientReceive, ClientData, ClientAck
  <2>3. wire = Uploaded(x.plan, c)
    BY <1>3
  <2> HIDE DEF a, h, x, z, f, wire
  <2>4. \A y, e : Send(c, y, e) => cl' = [cl EXCEPT ![c] = [y EXCEPT !.last = {e}]]
    BY DEF Send
  <2>5. CASE x.plan.req = "RRQ" /\ ((\E e : Send(c, a, e)) \/ (\E e : Send(c, x, e)))
    <3>1. PICK e : Send(c, a, e) \/ Send(c, x, e)
      BY <2>5
    <3> DEFINE a1 == [a EXCEPT !.last = {e}]
               x1 == [x EXCEPT !.last = {e}]
    <3>2. a1.plan = x.plan /\ x1.plan = x.plan
      BY <2>1
    <3>3. cl' = [cl EXCEPT ![c] = a1] \/ cl' = [cl EXCEPT ![c] = x1]
      BY <2>4, <3>1
    <3> HIDE DEF a1, x1
    <3> QED
      BY <2>5, <3>2, <3>3
  <2>6. CASE x.plan.req = "WRQ" /\ \E e : Send(c, h, e)
    <3>1. PICK e : Send(c, h, e)
      BY <2>6
    <3> DEFINE h1 == [h EXCEPT !.last = {e}]
    <3>2. h1.plan = x.plan /\ h1.st = x.st
      BY <2>1
    <3>3. cl' = [cl EXCEPT ![c] = h1]
      BY <2>4, <3>1
    <3> HIDE DEF h1
    <3> QED
      BY <2>6, <3>2, <3>3
  <2> QED
    BY <2>2, <2>3, <2>5, <2>6
<1> HIDE DEF x, z, f, m, c
<1>7. CASE Stay
  BY <1>5, <1>7 DEF Stay, ClientsStored
<1>8. CASE x.plan.req = "RRQ" /\ \E y : cl' = [cl EXCEPT ![c] = y] /\ y.plan = x.plan
  BY <1>1, <1>3, <1>5, <1>8, OneClientStored
<1>9. CASE /\ x.plan.req = "WRQ" /\ m.op = "ACK"
           /\ x.k = LastBlock(wire) /\ m.blk = x.k % (BlkMax + 1)
           /\ cl' = [cl EXCEPT ![c] = f]
  <2>1. Confirms(cl[c].plan, c, m, ds)
    BY DEF ArrivingConfirms, c, m
  <2>2. cl[c].plan \in Plans /\ cl[c].plan.req = "WRQ"
    BY <1>2, <1>3, <1>9 DEF ClientState
  <2>3. cl[c].plan.size > 0 => UploadIn(cl[c].plan, c, ds)
    BY <1>1, <1>9, <2>1, <2>2, AckedStored
  <2> QED
    BY <1>1, <1>3, <1>4, <1>5, <1>9, <2>3, OneClientStored
<1>10. CASE x.plan.req = "WRQ" /\ \E y : /\ cl' = [cl EXCEPT ![c] = y]
                                         /\ y.plan = x.plan /\ y.st = x.st
  BY <1>1, <1>3, <1>5, <1>10, OneClientStored
<1>11. CASE cl' = [cl EXCEPT ![c] = z]
  <2>1. z.st = "done" => x.st = "done"
    BY <1>4
  <2> QED
    BY <1>1, <1>3, <1>4, <1>5, <1>11, <2>1, OneClientStored
<1> QED
  BY <1>6, <1>7, <1>8, <1>9, <1>10, <1>11

\* A client starts, repeats itself or gives up.
LEMMA TimerStored ==
  ASSUME ClientsSound, ClientsStored, NEW c \in Client, Start(c) \/ ClientTimeout(c)
  PROVE  ClientsStored'
<1>1. cl[c] \in ClientState
  BY DEF ClientsSound
<1>2. PICK y : /\ cl' = [cl EXCEPT ![c] = y]
               /\ \/ cl[c].st = "start" /\ \E e : y = [[cl[c] EXCEPT !.st = "wait"]
                                                           EXCEPT !.last = {e}]
                  \/ \E e : y = [[cl[c] EXCEPT !.tries = @ + 1] EXCEPT !.last = {e}]
                  \/ cl[c].st = "wait" /\ y = [cl[c] EXCEPT !.st = "failed"]
  BY DEF Start, ClientTimeout, Send
<1>3. y.plan = cl[c].plan /\ (y.st = "done" => cl[c].st = "done")
  BY <1>1, <1>2 DEF ClientState
<1>4. UNCHANGED ds
  BY DEF Start, ClientTimeout, server, vars
<1> QED
  BY <1>2, <1>3, <1>4, OneClientStored

----------------------------------------------------------------------------
(***************************************************************************)
(* What is in the files                                                    *)
(***************************************************************************)

\* No datagram puts anything into a file.
LEMMA HandleCuts ==
  ASSUME Inv, NEW s, NEW d, Handle(s, d)
  PROVE  Cuts(ds, ds')
<1> DEFINE c == d.from
           p == cl[c].plan
<1>0. StoreSound(ds)
  BY DEF Inv
<1>1. UNCHANGED ds \/ \E y : ds' \in close_data(ds, y)
  <2>1. CASE RecvRepeatedRequest(s, c)
    BY <2>1 DEF RecvRepeatedRequest, Resend
  <2>2. CASE RecvRefusedRequest(s, c, p.req, p.file)
    BY <2>2 DEF RecvRefusedRequest, Refuse
  <2>3. CASE RecvRRQ(s, c, p.file, p.mode) \/ RecvWRQ(s, c, p.file, p.mode, p.size)
    BY <2>3 DEF RecvRRQ, RecvWRQ
  <2>4. CASE RecvData(s, c, d.k, d.data)
    <3>1. CASE Resend(c)
      BY <3>1 DEF Resend
    <3>2. CASE \E y : Acknowledge(c, y, ds, d.k)
      BY <3>2 DEF Acknowledge
    <3>3. CASE UNCHANGED ds
      BY <3>3
    <3> QED
      BY <2>4, <3>1, <3>2, <3>3 DEF RecvData
  <2>5. CASE RecvAck(s, c, d.k)
    BY <2>5 DEF RecvAck, Resend, SendOld
  <2>6. CASE RecvOwn(s, c)
    BY <2>6 DEF RecvOwn
  <2> QED
    BY <2>1, <2>2, <2>3, <2>4, <2>5, <2>6 DEF Handle
<1>2. CASE UNCHANGED ds
  BY <1>2, CutsNothing
<1>3. CASE \E y : ds' \in close_data(ds, y)
  BY <1>0, <1>3, CloseCuts
<1> QED
  BY <1>1, <1>2, <1>3

\* A store that is only cut keeps a beginning of every upload.
Beginnings(s) ==
  \A c \in Client :
    cl[c].plan.req = "WRQ" /\ cl[c].plan.file \in DOMAIN s.files =>
      Begun(s, cl[c].plan.file, Upload(c, cl[c].plan.size))

LEMMA UploadType ==
  ASSUME NEW c \in Client, NEW p \in Plans
  PROVE  Upload(c, p.size) \in Seq(Unit) /\ Len(Upload(c, p.size)) = p.size
<1>1. p.size \in 0 .. MaxUpload
  BY PlanParts
<1> QED
  BY <1>1, UploadClean DEF Clean

LEMMA CutsBeginnings ==
  ASSUME ClientsSound, NEW s, NEW t, Cuts(s, t), Beginnings(s)
  PROVE  Beginnings(t)
<1> SUFFICES ASSUME NEW c \in Client, cl[c].plan.req = "WRQ",
                    cl[c].plan.file \in DOMAIN t.files
             PROVE  Begun(t, cl[c].plan.file, Upload(c, cl[c].plan.size))
  BY DEF Beginnings
<1> DEFINE f == cl[c].plan.file
           v == Upload(c, cl[c].plan.size)
<1>1. v \in Seq(Unit)
  BY UploadType DEF ClientsSound, ClientState
<1>2. f \in DOMAIN s.files /\ Trims(s, t, f) /\ Begun(s, f, v)
  BY DEF Cuts, Beginnings
<1> HIDE DEF f, v
<1>3. Begun(t, f, v)
  BY <1>1, <1>2, TrimmedBegun
<1> QED
  BY <1>3 DEF f, v

\* A turn of put_session_data: the file of its client gets more of its upload,
\* the others have other names.
LEMMA PutBeginnings ==
  ASSUME SystemInv, NamesApart, NEW plenty, plenty = TRUE, UploadInv(plenty),
         Beginnings(ds), put_session_data
  PROVE  Beginnings(ds')
<1> DEFINE b == job.cl
           x == ses[b]
<1>1. Inv /\ ClientsSound
  BY DEF SystemInv
<1>2. /\ b \in DOMAIN ses /\ b \in Client /\ x.req = "WRQ"
      /\ \E s : /\ Stepped(ds, s, Free, x.filename, x.clsock)
                /\ s = ds \/ Begun(s, x.filename, Upload(b, x.size))
                /\ Cuts(s, ds')
  BY <1>1, PutBegun
<1>3. /\ cl[b].plan.req = "WRQ" /\ x.filename = cl[b].plan.file
      /\ x.size = cl[b].plan.size
  <2>1. Follows(b, x, cl[b].plan)
    BY <1>2 DEF SystemInv, Asked
  <2> QED
    BY <1>2, <2>1 DEF Follows
<1> HIDE DEF b, x
<1>4. PICK s : /\ Stepped(ds, s, Free, x.filename, x.clsock)
               /\ s = ds \/ Begun(s, x.filename, Upload(b, x.size))
               /\ Cuts(s, ds')
  BY <1>2
<1>5. Beginnings(s)
  <2>1. CASE s = ds
    BY <2>1
  <2>2. CASE Begun(s, x.filename, Upload(b, x.size))
    <3> SUFFICES ASSUME NEW c \in Client, cl[c].plan.req = "WRQ",
                        cl[c].plan.file \in DOMAIN s.files, c # b
                 PROVE  Begun(s, cl[c].plan.file, Upload(c, cl[c].plan.size))
      BY <1>3, <2>2 DEF Beginnings
    <3> DEFINE f == cl[c].plan.file
               v == Upload(c, cl[c].plan.size)
    <3>1. f # x.filename
      BY <1>2, <1>3 DEF NamesApart
    <3>2. v \in Seq(Unit)
      BY <1>1, UploadType DEF ClientsSound, ClientState
    <3>3. f \in DOMAIN ds.files
      BY <1>4, <3>1 DEF Stepped, Still, Wrote
    <3>4. Begun(ds, f, v)
      BY <3>3 DEF Beginnings
    <3> HIDE DEF f, v
    <3>5. Trims(ds, s, f)
      BY <1>4, <3>1, <3>3, SteppedTrims
    <3>6. Begun(s, f, v)
      BY <3>2, <3>4, <3>5, TrimmedBegun
    <3> QED
      BY <3>6 DEF f, v
  <2> QED
    BY <1>4, <2>1, <2>2
<1> QED
  BY <1>1, <1>4, <1>5, CutsBeginnings

LEMMA SystemBegun ==
  ASSUME SystemInv, NamesApart, NEW plenty, plenty = TRUE, UploadInv(plenty),
         FilesBegun, [SystemNext]_system
  PROVE  FilesBegun'
<1>1. Inv /\ ClientsSound
  BY DEF SystemInv
<1>2. Beginnings(ds)
  BY DEF FilesBegun, Beginnings
<1>3. Beginnings(ds')
  <2>1. CASE Cuts(ds, ds')
    BY <1>1, <1>2, <2>1, CutsBeginnings
  <2>2. CASE put_session_data
    BY <1>2, <2>2, PutBeginnings
  <2>3. CASE \E d \in toServer : ServerReceive(d)
    <3>1. Cuts(ds, ds')
      BY <1>1, <2>3, HandleCuts DEF ServerReceive
    <3> QED
      BY <2>1, <3>1
  <2> QED
    BY <1>1, <2>1, <2>2, <2>3, OwnSteps, NextCuts
<1>4. \A c \in Client : cl'[c].plan = cl[c].plan
  BY PlansStay
<1> QED
  BY <1>3, <1>4 DEF Beginnings, FilesBegun

----------------------------------------------------------------------------
(***************************************************************************)
(* The steps of the system for uploads                                     *)
(***************************************************************************)

\* Clients and network.
LEMMA AsideConfirms ==
  ASSUME SystemInv, StoredInv, UNCHANGED server, toClient' \subseteq toClient,
         \A c \in Client : cl'[c].plan = cl[c].plan
  PROVE  OldConfirms' /\ ArrivingConfirms'
<1>1. UNCHANGED <<ds, sinfo>>
  BY DEF server, vars
<1>2. OldConfirms'
  BY <1>1 DEF StoredInv, OldConfirms
<1>3. \A d \in toClient' : cl'[d.to].plan = cl[d.to].plan
  BY ArrivingType DEF SystemInv
<1>4. ArrivingConfirms'
  BY <1>1, <1>3 DEF StoredInv, ArrivingConfirms
<1> QED
  BY <1>2, <1>4

LEMMA ClientConfirms ==
  ASSUME UploadsFit, SystemInv, StoredInv,
         ClientNext \/ (\E c \in Client : ClientTimeout(c)) \/ Lose \/ UNCHANGED system
  PROVE  OldConfirms' /\ ArrivingConfirms' /\ ClientsStored'
<1>1. UNCHANGED server /\ toClient' \subseteq toClient
  BY DEF ClientNext, Start, ClientReceive, ClientTimeout, Leaves, Lose, system, network
<1>2. \A c \in Client : cl'[c].plan = cl[c].plan
  BY PlansStay DEF SystemNext
<1>3. OldConfirms' /\ ArrivingConfirms'
  BY <1>1, <1>2, AsideConfirms
<1>4. CASE ClientNext \/ \E c \in Client : ClientTimeout(c)
  BY <1>3, <1>4, ReceiveStored, TimerStored DEF ClientNext, SystemInv, StoredInv
<1>5. CASE Lose \/ UNCHANGED system
  <2>1. UNCHANGED <<cl, ds>>
    BY <1>1, <1>5 DEF Lose, system, server, vars
  <2> QED
    BY <1>3, <2>1 DEF StoredInv, ClientsStored
<1> QED
  BY <1>4, <1>5

LEMMA ServerTransferConfirms ==
  ASSUME SystemInv, SystemInv', StoredInv, SessionsConfirm', AcksForReceiver',
         StoreMoves(ds, ds'), ServerTransfer
  PROVE  OldConfirms' /\ ArrivingConfirms' /\ ClientsStored'
<1> DEFINE c == job.cl
<1>1. /\ get_session_data \/ put_session_data
      /\ toClient' = toClient \cup Replies(0) /\ UNCHANGED cl
  BY DEF ServerTransfer
<1>2. c \in DOMAIN ses /\ c \in Client
  BY <1>1 DEF get_session_data, put_session_data, SystemInv, Inv, JobInv, TypeOK
<1>3. ses[c].clsock # NoSock
  BY <1>2 DEF SystemInv, Asked, Follows
<1>4. \A p : Speaks(c, p)
  BY <1>1, <1>3, GetSpeaks, PutSpeaks DEF SystemInv
<1> HIDE DEF c
<1> QED
  BY <1>1, <1>2, <1>4, RepliesConfirm

LEMMA ServerReceiveConfirms ==
  ASSUME SystemInv, SystemInv', StoredInv, SessionsConfirm', AcksForReceiver',
         StoreMoves(ds, ds'), NEW d \in toServer, ServerReceive(d)
  PROVE  OldConfirms' /\ ArrivingConfirms' /\ ClientsStored'
<1> DEFINE c == d.from
           p == cl[c].plan
<1>1. PICK s \in SocketOf(d) \cap events : Handle(s, d)
  BY DEF ServerReceive
<1>2. toClient' = toClient \cup Replies(d.dst) /\ UNCHANGED cl
  BY DEF ServerReceive
<1>3. Meets(c, p, d)
  BY Meeting
<1>4. c \in Client /\ p \in Plans /\ Honest(p, d)
  BY <1>3 DEF Meets
<1>5. Speaks(c, p)
  BY <1>1, <1>4, HandleSpeaks DEF SystemInv
<1> QED
  BY <1>2, <1>4, <1>5, RepliesConfirm

\* Housekeeping and the clock.
LEMMA HousekeepingConfirms ==
  ASSUME SystemInv, StoredInv, StoreMoves(ds, ds'), ServerStep \/ SystemTick
  PROVE  OldConfirms' /\ ArrivingConfirms' /\ ClientsStored'
<1>0. StoreSound(ds)
  BY DEF SystemInv, Inv
<1>1. UNCHANGED <<sinfo, cl, toClient>>
  BY DEF ServerStep, SystemTick, Tick, epoll_wait, EpollTimeout, update_event,
         ResendSession, ResendDone, CleanupSession, CleanupDone
<1>2. OldConfirms'
  BY <1>0, <1>1, ConfirmsStill DEF StoredInv, OldConfirms
<1>3. ArrivingConfirms'
  BY <1>0, <1>1, ConfirmsStill DEF StoredInv, ArrivingConfirms
<1>4. ClientsStored'
  BY <1>0, <1>1, UploadStays DEF StoredInv, ClientsStored
<1> QED
  BY <1>2, <1>3, <1>4

LEMMA SystemNextStored ==
  ASSUME UploadsFit, SystemInv, SystemInv', NEW plenty, plenty = TRUE, UploadInv(plenty),
         StoredInv, SessionsConfirm', AcksForReceiver', [SystemNext]_system
  PROVE  StoredInv'
<1>1. StoreMoves(ds, ds')
  BY SystemMoves
<1>2. NamesApart'
  BY PlansStay, ApartStays DEF StoredInv
<1>3. FilesBegun'
  BY SystemBegun DEF StoredInv
<1>4. OldConfirms' /\ ArrivingConfirms' /\ ClientsStored'
  BY <1>1, ClientConfirms, ServerTransferConfirms, ServerReceiveConfirms,
     HousekeepingConfirms DEF SystemNext, ServerNext
<1> QED
  BY <1>2, <1>3, <1>4 DEF StoredInv

LEMMA SystemInitStored ==
  ASSUME UploadsFit, SystemInit, NamesApart
  PROVE  StoredInv
<1>1. ds.files = InitFiles /\ toClient = {} /\ sinfo = NoMsg
  BY DEF SystemInit, Init
<1>2. \A c \in Client : cl[c].st = "start" /\ cl[c].plan \in Plans
  BY DEF SystemInit
<1>3. OldConfirms /\ ArrivingConfirms /\ ClientsStored
  BY <1>1, <1>2 DEF OldConfirms, Confirms, NoMsg, ArrivingConfirms, ClientsStored
<1>4. FilesBegun
  BY <1>1, <1>2 DEF FilesBegun, UploadsFit
<1> QED
  BY <1>3, <1>4 DEF StoredInv

\* A client has a beginning of its upload in the store, and all when it is done.
LEMMA StoredInvExact ==
  ASSUME SystemInv, StoredInv
  PROVE  UploadExact
<1> SUFFICES ASSUME NEW c \in Client, cl[c].plan.req = "WRQ"
             PROVE  LET x == cl[c]
                        text == Upload(c, x.plan.size)
                    IN  /\ x.plan.file \in DOMAIN ds.files =>
                             IsPrefix(ds.files[x.plan.file], text)
                        /\ x.st = "done" /\ text # <<>> =>
                             /\ x.plan.file \in DOMAIN ds.files
                             /\ ds.files[x.plan.file] = text
  BY DEF UploadExact
<1> DEFINE x == cl[c]
           f == x.plan.file
           text == Upload(c, x.plan.size)
           b == ds.files[f]
<1>0. StoreSound(ds)
  BY DEF SystemInv, Inv
<1>1. x.plan \in Plans
  BY DEF SystemInv, ClientsSound, ClientState
<1>2. text \in Seq(Unit) /\ Len(text) = x.plan.size /\ x.plan.size \in Nat
  BY <1>1, UploadType, PlanParts, Bounds
<1>3. f \in DOMAIN ds.files => Begun(ds, f, text)
  BY DEF StoredInv, FilesBegun
<1>4. x.st = "done" /\ x.plan.size > 0 => Closed(ds, f, text)
  BY DEF StoredInv, ClientsStored, UploadIn
<1> HIDE DEF text, f
<1>5. ASSUME f \in DOMAIN ds.files
      PROVE  IsPrefix(b, text)
  <2>1. PICK w \in Seq(Unit) : Beginning(w, text) /\ Whole(ds.files, ds.dhead, f, w)
    BY <1>3, <1>5 DEF Begun
  <2>2. b \in Seq(Unit) /\ Beginning(b, w)
    BY <1>0, <1>5, <2>1, WholeBegins
  <2> HIDE DEF b
  <2>3. Beginning(b, text)
    BY <1>2, <2>1, <2>2, BeginningTransitive
  <2> QED
    BY <2>3 DEF Beginning, IsPrefix
<1>6. ASSUME x.st = "done", text # <<>>
      PROVE  f \in DOMAIN ds.files /\ b = text
  <2>1. x.plan.size > 0
    BY <1>2, <1>6, EmptySeq
  <2> QED
    BY <1>4, <1>6, <2>1 DEF Closed
<1> QED
  BY <1>5, <1>6 DEF text, f

\* A file a client uploads to is at any time a beginning of the upload, and
\* complete when the client was told so: on a disk that works, with descriptors
\* to spare, for new names and uploads whose blocks have different numbers, in
\* every behaviour in which no two clients upload under one name and no client
\* is sent an acknowledgment made for another.
THEOREM UploadExactHolds ==
  ASSUME ~IoFaults, UploadsFit
  PROVE  SystemSpec /\ NamesApart /\ []DescriptorsSuffice /\ []AcksForReceiver
         => []UploadExact
<1> DEFINE U == UploadInv(TRUE)
<1>1. SystemInit /\ NamesApart => U /\ StoredInv
  BY InitUploadInv, SystemInitStored DEF SystemInit
<1>2. SystemInv /\ U /\ DescriptorsSuffice /\ [SystemNext]_system => U'
  <2> DEFINE plenty == TRUE
  <2> HIDE DEF plenty
  <2> SUFFICES ASSUME SystemInv, UploadInv(plenty), DescriptorsSuffice,
                      [SystemNext]_system
               PROVE  UploadInv(plenty)'
    BY DEF plenty
  <2>1. plenty \in BOOLEAN /\ (plenty => Free # {})
    BY DEF plenty, DescriptorsSuffice
  <2> QED
    BY <2>1, SystemUploadInv
<1>3. SystemInv /\ U => SessionsConfirm
  BY ConfirmsNow
<1>4. /\ SystemInv /\ SystemInv' /\ U /\ StoredInv
      /\ SessionsConfirm' /\ AcksForReceiver' /\ [SystemNext]_system
      => StoredInv'
  BY SystemNextStored
<1>5. SystemInv /\ StoredInv => UploadExact
  BY StoredInvExact
<1> HIDE DEF U
<1> QED
  BY <1>1, <1>2, <1>3, <1>4, <1>5, SystemInvariance, PTL DEF SystemSpec

============================================================================
