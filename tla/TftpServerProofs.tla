------------------------- MODULE TftpServerProofs -------------------------
(***************************************************************************)
(* What holds of the server for any clients, files, sizes, bounds, modes   *)
(* and disk faults: TypeOK, SessionListSound, ListensToLiveSessions and    *)
(* ResendsCurrentBlock, and that the server implements WriteOnceStore.     *)
(*                                                                         *)
(* The actions fall into a few shapes.  A datagram of a client with a      *)
(* session, and a turn of get_session_data or put_session_data, visits     *)
(* that session (Visits): it changes the one session and makes at most     *)
(* one step of the store under that session's descriptor and name.  A      *)
(* request may add a session (Adds), any other datagram is answered        *)
(* without one (Answers).  The rest of the loop is treated action by       *)
(* action.                                                                 *)
(***************************************************************************)
EXTENDS TftpServer, SessionBufferLemmas, FiniteSetTheorems

\* No element twice.
Distinct(q) == \A i, j \in DOMAIN q : q[i] = q[j] => i = j

\* What is on it.
Elements(q) == {q[i] : i \in DOMAIN q}

\* SessionListSound counts; its inductive form names what counting means, and
\* adds that the loops over the list visit no session twice and that nothing
\* is left to visit outside them.
ListInv ==
  /\ IsFiniteSet(DOMAIN ses)
  /\ Distinct(seshead) /\ Elements(seshead) = DOMAIN ses
  /\ Len(seshead) = Cardinality(DOMAIN ses)
  /\ Distinct(todo) /\ Elements(todo) \subseteq DOMAIN ses
  /\ pc \notin {"resend", "cleanup"} => todo = <<>>

\* No two sessions, and no session and stream, share a descriptor.
SocketInv ==
  /\ \A b, c \in DOMAIN ses :
       ses[b].clsock = ses[c].clsock /\ ses[b].clsock # NoSock => b = c
  /\ Sockets \cap StreamFds(ds) = {}

\* The session under way exists and has its role.
JobInv ==
  pc \in {"get", "put"} =>
    /\ job.cl \in DOMAIN ses
    /\ ses[job.cl].req = IF pc = "get" THEN "RRQ" ELSE "WRQ"

\* A live session is registered, unless that was refused, or the batch that made
\* it is not over yet.
Listened(c) ==
  ~ses[c].disabled /\ ~ses[c].refused =>
    IF ses[c].regevent THEN ses[c].clsock \in epoll
    ELSE pc \in {"recv", "get", "put"}

\* Every live session is listened to, and no closed socket is.
ListenInv ==
  /\ epoll \subseteq Sockets
  /\ \A c \in DOMAIN ses : Listened(c)

\* The message kept for resending is the one of the block x is at.
Current(x) ==
  ~x.fin /\ x.clsock # NoSock =>
    /\ x.lastmsg.op = IF x.req = "RRQ" THEN "DATA" ELSE "ACK"
    /\ x.lastmsg.k = x.nblk
    /\ x.lastmsg.blk = x.blknum

\* Except for the session whose next message is being made.
ResendInv ==
  \A c \in DOMAIN ses : Current(ses[c]) \/ (pc \in {"get", "put"} /\ c = job.cl)

\* Every stream open for writing is some session's, present or past.
WritersKnown == Writers(ds) \subseteq File \X (Descriptor \cup {NoSock})

\* The inductive invariant.
Inv ==
  /\ TypeOK /\ StoreSound(ds) /\ WritersKnown
  /\ ListInv /\ SocketInv /\ JobInv /\ ListenInv /\ ResendInv

----------------------------------------------------------------------------
(***************************************************************************)
(* Types                                                                   *)
(***************************************************************************)

\* Where datagrams go and come from.
Peer == Client \cup {Self, Nobody}

Outgoing == [to : Peer, msg : Message, completed : File \cup {Nobody}]

\* A session that fits its type.
Sound(x) == x \in Session /\ Len(x.sesbuf) <= BufSize

\* y is x after a visit: the same request, socket and registration, and never
\* enabled again.
Continues(x, y) ==
  /\ y.clsock = x.clsock /\ y.filename = x.filename /\ y.req = x.req
  /\ y.regevent = x.regevent /\ y.refused = x.refused
  /\ x.disabled => y.disabled

\* The bounds are numbers.
LEMMA Bounds ==
  /\ AgeMax \in Nat \ {0} /\ BlkMax \in Nat /\ BlkMax > 1
  /\ RetryMax \in Nat /\ MaxUpload \in Nat
  /\ BufSize \in Nat /\ DataLen \in Nat
BY ServerAssumption, StoreAssumption, BufferAssumption DEF AgeMax

\* What is put after u where there is room fits.
LEMMA RoomConcat ==
  ASSUME NEW u \in Seq(Unit), NEW v \in Seq(Unit), NEW n \in Nat,
         Len(v) <= n - Len(u)
  PROVE  u \o v \in Seq(Unit) /\ Len(u \o v) <= n
<1>1. Len(u) \in Nat /\ Len(v) \in Nat
  BY LenProperties
<1>2. u \o v \in Seq(Unit) /\ Len(u \o v) = Len(u) + Len(v)
  BY UptoConcat
<1> QED
  BY <1>1, <1>2

\* An error message.
LEMMA ErrMsgType ==
  ASSUME NEW c \in Peer, NEW code \in Nat
  PROVE  make_tftperr_msg(c, code) \in Message
BY EmptySeq DEF make_tftperr_msg, Message, Peer

\* The empty send buffer is a message.
LEMMA NoMsgType == NoMsg \in Message
BY EmptySeq DEF NoMsg, Message

\* sendto sends a message or nothing.
LEMMA SendtoType ==
  ASSUME NEW c \in Client, NEW m \in Message, NEW x, x.filename \in File
  PROVE  Sendto(c, m, x) \subseteq Outgoing
BY DEF Sendto, Outgoing, Peer

\* What a session remembers.
LEMMA RememberType ==
  ASSUME NEW x, Sound(x), NEW m \in Message
  PROVE  /\ Sound(Remember(x, m)) /\ Continues(x, Remember(x, m))
         /\ Remember(x, m).lastmsg = m
         /\ Remember(x, m).nblk = x.nblk /\ Remember(x, m).blknum = x.blknum
         /\ Remember(x, m).fin = x.fin
         /\ Remember(x, m).disabled = x.disabled
         /\ Remember(x, m).req = x.req
<1>1. 0 \in 0 .. AgeMax /\ 0 \in 0 .. RetryMax
  BY Bounds
<1> DEFINE y == Remember(x, m)
<1>2. y = [x EXCEPT !.lastmsg = m, !.age = 0, !.retrycount = 0]
  BY DEF Remember
<1>3. x \in Session
  BY DEF Sound
<1>4. y \in Session
  BY <1>1, <1>2, <1>3 DEF Session
<1>5. /\ y.sesbuf = x.sesbuf /\ y.lastmsg = m /\ y.nblk = x.nblk
      /\ y.blknum = x.blknum /\ y.fin = x.fin /\ y.disabled = x.disabled
      /\ y.req = x.req /\ y.clsock = x.clsock /\ y.filename = x.filename
      /\ y.regevent = x.regevent /\ y.refused = x.refused
  BY <1>2, <1>3 DEF Session
<1> HIDE DEF y
<1>6. Sound(y) /\ Continues(x, y)
  BY <1>4, <1>5 DEF Sound, Continues
<1> QED
  BY <1>5, <1>6 DEF y

\* The next block number, after the highest the first again, is a block number.
LEMMA NextBlkType ==
  ASSUME NEW b \in 0 .. BlkMax
  PROVE  NextBlk(b) \in 0 .. BlkMax
BY Bounds DEF NextBlk

\* A session that goes on to its next block.
LEMMA AdvancedType ==
  ASSUME NEW x, Sound(x)
  PROVE  Sound(Advanced(x)) /\ Continues(x, Advanced(x))
<1>1. NextBlk(x.blknum) \in 0 .. BlkMax /\ x.nblk + 1 \in Nat
  BY NextBlkType DEF Sound, Session
<1> QED
  BY <1>1 DEF Advanced, Sound, Session, Continues

\* Another buffer, another end of line flag.
LEMMA BufferType ==
  ASSUME NEW x, Sound(x), NEW u \in Seq(Unit), Len(u) <= BufSize
  PROVE  /\ Sound([x EXCEPT !.sesbuf = u])
         /\ Continues(x, [x EXCEPT !.sesbuf = u])
         /\ [x EXCEPT !.sesbuf = u].fin = x.fin
         /\ [x EXCEPT !.sesbuf = u].sesbuf = u
         /\ [x EXCEPT !.sesbuf = u].disabled = x.disabled
BY DEF Sound, Session, Continues

\* A buffer some units were taken from, and the flag they leave.
LEMMA TakenBufferType ==
  ASSUME NEW x, Sound(x), NEW u \in Seq(Unit), Len(u) <= BufSize, NEW b \in BOOLEAN
  PROVE  /\ Sound([x EXCEPT !.sesbuf = u, !.fopt = b])
         /\ Continues(x, [x EXCEPT !.sesbuf = u, !.fopt = b])
BY DEF Sound, Session, Continues

----------------------------------------------------------------------------
(***************************************************************************)
(* A visit of a session                                                    *)
(***************************************************************************)

\* A call of get_session_data or put_session_data.
JobType == [cl : Client \cup {Nobody}, data : Seq(Unit), k : Nat]

\* What the session is left as, y, and where the loop goes: on with a session
\* whose kept message is the current one, or into a loop that builds it.
Outcome(c, y) ==
  /\ job' \in JobType /\ Len(job'.data) <= DataLen
  /\ \/ pc' = "recv" /\ Current(y)
     \/ pc' = "get" /\ y.req = "RRQ" /\ job'.cl = c
     \/ pc' = "put" /\ y.req = "WRQ" /\ job'.cl = c

\* What no datagram and no turn of the two loops changes.
Aside == events' \subseteq events /\ UNCHANGED <<epoll, todo, exitflag>>

\* One visit of the session of c.
Visits(c) ==
  /\ c \in DOMAIN ses
  /\ Stepped(ds, ds', Free, ses[c].filename, ses[c].clsock)
  /\ \E y : /\ ses' = [ses EXCEPT ![c] = y]
            /\ Sound(y) /\ Continues(ses[c], y) /\ Outcome(c, y)
  /\ sinfo' \in Message /\ out' \subseteq Outgoing
  /\ Aside /\ UNCHANGED seshead

\* The message kept for resending is part of a session.
LEMMA SessionParts ==
  ASSUME NEW x, Sound(x)
  PROVE  /\ x.lastmsg \in Message /\ x.filename \in File
         /\ x.clsock \in Descriptor \cup {NoSock} /\ x.clsock \in Int
         /\ x.sesbuf \in Seq(Unit) /\ Len(x.sesbuf) <= BufSize
         /\ x.fopt \in BOOLEAN /\ x.blknum \in 0 .. BlkMax /\ x.nblk \in Nat
         /\ x.retrycount \in 0 .. RetryMax /\ x.age \in 0 .. AgeMax
         /\ x.size \in 0 .. MaxUpload
         /\ x.req \in {"RRQ", "WRQ"} /\ x.fin \in BOOLEAN
         /\ x.disabled \in BOOLEAN /\ x.regevent \in BOOLEAN
<1>1. x \in Session
  BY DEF Sound
<1>2. /\ x.lastmsg \in Message /\ x.filename \in File
      /\ x.clsock \in Descriptor \cup {NoSock}
      /\ x.sesbuf \in Seq(Unit) /\ x.fopt \in BOOLEAN
      /\ x.blknum \in 0 .. BlkMax /\ x.nblk \in Nat
      /\ x.retrycount \in 0 .. RetryMax /\ x.age \in 0 .. AgeMax
      /\ x.size \in 0 .. MaxUpload
  BY <1>1 DEF Session
<1>3. /\ x.req \in {"RRQ", "WRQ"} /\ x.fin \in BOOLEAN
      /\ x.disabled \in BOOLEAN /\ x.regevent \in BOOLEAN
  BY <1>1 DEF Session
<1>4. x.clsock \in Int
  <2>1. \A n \in Descriptor : n \in Int
    BY StoreAssumption
  <2>2. NoSock \in Int
    BY DEF NoSock
  <2> QED
    BY <1>2, <2>1, <2>2
<1> QED
  BY <1>2, <1>3, <1>4 DEF Sound

\* Return leaves no job.
LEMMA NoJobType == NoJob \in JobType /\ Len(NoJob.data) <= DataLen
BY Bounds, EmptySeq DEF NoJob, JobType

\* done, resend and errsend: the session is left as x, the message is m.
LEMMA DoneVisits ==
  ASSUME NEW c \in Client, c \in DOMAIN ses, NEW x, NEW m \in Message,
         Sound(x), Continues(ses[c], x), Current(x),
         Stepped(ds, ds', Free, ses[c].filename, ses[c].clsock),
         Done(c, x, m), Aside
  PROVE  Visits(c)
<1>1. out' \subseteq Outgoing
  BY SendtoType, SessionParts DEF Done
<1>2. Outcome(c, x)
  BY NoJobType DEF Done, Return, Outcome
<1> QED
  BY <1>1, <1>2 DEF Done, Visits

\* A session that is through, or discarded, keeps what it has.
LEMMA FinishedType ==
  ASSUME NEW x, Sound(x)
  PROVE  LET y == [x EXCEPT !.fin = TRUE]
             z == [x EXCEPT !.disabled = TRUE]
         IN  /\ Sound(y) /\ Continues(x, y) /\ Current(y)
             /\ Sound(z) /\ Continues(x, z) /\ (Current(x) => Current(z))
BY DEF Sound, Session, Continues, Current


\* A stream closed after other calls of the same session.
LEMMA CloseAfter ==
  ASSUME StoreSound(ds), NEW s, NEW f, NEW w, Stepped(ds, s, Free, f, w),
         NEW x, x.filename = f, x.clsock = w, NEW t \in close_data(s, x)
  PROVE  Stepped(ds, t, Free, f, w)
<1>1. StoreSound(s)
  BY DEF Stepped
<1>2. Stepped(s, t, Free, f, w)
  BY <1>1, CloseSteps
<1> QED
  BY <1>2, SteppedTwice

\* A repetition counts.
LEMMA RepeatedType ==
  ASSUME NEW x, Sound(x), x.retrycount < RetryMax
  PROVE  LET y == [x EXCEPT !.age = 0, !.retrycount = @ + 1]
         IN  /\ Sound(y) /\ Continues(x, y) /\ (Current(x) => Current(y))
<1> DEFINE y == [x EXCEPT !.age = 0, !.retrycount = @ + 1]
<1>1. 0 \in 0 .. AgeMax /\ x.retrycount + 1 \in 0 .. RetryMax
  BY SessionParts, Bounds
<1>2. x \in Session
  BY DEF Sound
<1>3. y \in Session
  BY <1>1, <1>2 DEF Session
<1>4. /\ y.sesbuf = x.sesbuf /\ y.lastmsg = x.lastmsg /\ y.nblk = x.nblk
      /\ y.blknum = x.blknum /\ y.fin = x.fin /\ y.disabled = x.disabled
      /\ y.req = x.req /\ y.clsock = x.clsock /\ y.filename = x.filename
      /\ y.regevent = x.regevent /\ y.refused = x.refused
  BY <1>2 DEF Session
<1> HIDE DEF y
<1>5. Sound(y) /\ Continues(x, y) /\ (Current(x) => Current(y))
  BY <1>3, <1>4 DEF Sound, Continues, Current
<1> QED
  BY <1>5 DEF y

\* resend in tftp_proc: at the limit the session is discarded, and its stream
\* closed.
LEMMA ResendVisits ==
  ASSUME NEW c \in Client, c \in DOMAIN ses, Sound(ses[c]), Current(ses[c]),
         StoreSound(ds), sinfo \in Message, Resend(c), Aside
  PROVE  Visits(c)
<1> DEFINE x == ses[c]
           y == [x EXCEPT !.age = 0, !.retrycount = @ + 1]
           z == [x EXCEPT !.disabled = TRUE]
<1>1. Stepped(ds, ds, Free, x.filename, x.clsock)
  BY NotStepped
<1>2. CASE x.retrycount < RetryMax /\ Done(c, y, x.lastmsg) /\ UNCHANGED ds
  <2>1. Sound(y) /\ Continues(x, y) /\ Current(y)
    BY <1>2, RepeatedType
  <2>2. x.lastmsg \in Message
    BY SessionParts
  <2> HIDE DEF y
  <2> QED
    BY <1>1, <1>2, <2>1, <2>2, DoneVisits
<1>3. CASE ds' \in close_data(ds, x) /\ Done(c, z, sinfo)
  <2>1. Sound(z) /\ Continues(x, z) /\ Current(z)
    BY FinishedType
  <2>2. Stepped(ds, ds', Free, x.filename, x.clsock)
    BY <1>1, <1>3, CloseAfter
  <2> HIDE DEF z
  <2> QED
    BY <1>3, <2>1, <2>2, DoneVisits
<1> QED
  BY <1>2, <1>3 DEF Resend

\* errsend ends the session.
LEMMA ErrsendVisits ==
  ASSUME NEW c \in Client, c \in DOMAIN ses, NEW x, Sound(x),
         Continues(ses[c], x), NEW code \in Nat,
         Stepped(ds, ds', Free, ses[c].filename, ses[c].clsock),
         Errsend(c, x, code), Aside
  PROVE  Visits(c)
<1> DEFINE y == [x EXCEPT !.fin = TRUE]
<1>1. Sound(y) /\ Continues(x, y) /\ Current(y)
  BY FinishedType
<1>2. make_tftperr_msg(c, code) \in Message
  BY ErrMsgType DEF Peer
<1>3. Done(c, y, make_tftperr_msg(c, code))
  BY DEF Errsend
<1> HIDE DEF y
<1>4. Continues(ses[c], y)
  BY <1>1 DEF Continues
<1> QED
  BY <1>1, <1>2, <1>3, <1>4, DoneVisits

----------------------------------------------------------------------------
(***************************************************************************)
(* The loops of get_session_data and put_session_data                      *)
(***************************************************************************)

\* The DATA built is the message of the block the session is at.
LEMMA DataVisits ==
  ASSUME StoreSound(ds), NEW c \in Client, c \in DOMAIN ses, NEW x, Sound(x),
         Continues(ses[c], x), x.req = "RRQ", NEW s,
         Stepped(ds, s, Free, ses[c].filename, ses[c].clsock),
         NEW data \in Seq(Unit), make_tftpdata_msg(c, x, s, data), Aside
  PROVE  Visits(c)
<1> DEFINE last == Len(data) < DataLen
           msg == [for |-> c, op |-> "DATA", blk |-> x.blknum, k |-> x.nblk,
                   data |-> data]
           y == [x EXCEPT !.fin = @ \/ last]
           z == Remember(y, msg)
<1>1. /\ ds' \in IF last THEN close_data(s, x) ELSE {s}
      /\ Done(c, z, msg)
  BY DEF make_tftpdata_msg
<1>2. msg \in Message
  BY SessionParts DEF Message
<1>3. x \in Session
  BY DEF Sound
<1>4. (x.fin \/ last) \in BOOLEAN
  BY SessionParts
<1>5. Sound(y) /\ Continues(x, y) /\ y.req = x.req
      /\ y.blknum = x.blknum /\ y.nblk = x.nblk
  <2> DEFINE b == x.fin \/ last
  <2> HIDE DEF last
  <2>1. y = [x EXCEPT !.fin = b]
    OBVIOUS
  <2>2. b \in BOOLEAN
    BY <1>4
  <2> HIDE DEF b, y
  <2> QED
    BY <1>3, <2>1, <2>2 DEF Sound, Session, Continues
<1> HIDE DEF y, last
<1>6. msg.op = "DATA" /\ msg.k = x.nblk /\ msg.blk = x.blknum
  OBVIOUS
<1> HIDE DEF msg
<1>7. Sound(z) /\ Continues(y, z) /\ Current(z)
  BY <1>2, <1>5, <1>6, RememberType DEF Current
<1> HIDE DEF z
<1>8. Continues(ses[c], z)
  BY <1>5, <1>7 DEF Continues
<1>9. Stepped(ds, ds', Free, ses[c].filename, ses[c].clsock)
  <2>1. CASE ds' = s
    BY <2>1
  <2>2. CASE ds' \in close_data(s, x)
    BY <2>2, CloseAfter DEF Continues
  <2> QED
    BY <1>1, <2>1, <2>2
<1> QED
  BY <1>1, <1>2, <1>7, <1>8, <1>9, DoneVisits

\* The session is left in the buffer, and the loop goes on.
LEMMA LoopVisits ==
  ASSUME NEW c \in Client, c \in DOMAIN ses, NEW x, Sound(x),
         Continues(ses[c], x),
         Stepped(ds, ds', Free, ses[c].filename, ses[c].clsock),
         ses' = [ses EXCEPT ![c] = x], NEW p,
         \/ p = "get" /\ x.req = "RRQ"
         \/ p = "put" /\ x.req = "WRQ",
         NEW data \in Seq(Unit), Len(data) <= DataLen, NEW k \in Nat,
         Call(p, c, data, k), sinfo \in Message, Aside, UNCHANGED seshead
  PROVE  Visits(c)
<1>1. job' = [cl |-> c, data |-> data, k |-> k]
  BY DEF Call
<1>2. job' \in JobType /\ Len(job'.data) <= DataLen /\ job'.cl = c
  BY <1>1 DEF JobType
<1>3. pc' = p /\ out' = {} /\ sinfo' = sinfo
  BY DEF Call
<1>4. Outcome(c, x)
  BY <1>2, <1>3 DEF Outcome
<1> QED
  BY <1>3, <1>4 DEF Visits

\* What the buffer holds before a turn of get_session_data.
LEMMA LoadedSteps ==
  ASSUME StoreSound(ds), NEW x, Sound(x), NEW r \in Loaded(ds, x, Free)
  PROVE  /\ Stepped(ds, r.ds, Free, x.filename, x.clsock)
         /\ Sound(r.ses) /\ Continues(x, r.ses)
<1>1. x \in Session
  BY DEF Sound
<1>2. Continues(x, x)
  BY DEF Continues
<1>3. CASE r = [ds |-> ds, ses |-> x, ok |-> TRUE]
  BY <1>2, <1>3, NotStepped
<1>4. CASE r \in load_data(ds, x, Free)
  <2>1. Free \in SUBSET Descriptor
    BY DEF Free
  <2>2. x.clsock \in Int /\ x.filename \in File
    BY SessionParts
  <2>3. /\ Stepped(ds, r.ds, Free, x.filename, x.clsock)
        /\ \E u \in Seq(Unit) : Len(u) <= BufSize /\ r.ses = [x EXCEPT !.sesbuf = u]
    BY <1>4, <2>1, <2>2, LoadSteps
  <2> QED
    BY <2>3, BufferType
<1> QED
  BY <1>3, <1>4 DEF Loaded

\* One turn of get_session_data.
LEMMA GetVisits ==
  ASSUME Inv, get_session_data
  PROVE  Visits(job.cl)
<1> DEFINE c == job.cl
<1>1. /\ c \in DOMAIN ses /\ c \in Client /\ Sound(ses[c]) /\ ses[c].req = "RRQ"
      /\ StoreSound(ds) /\ sinfo \in Message
      /\ job.data \in Seq(Unit) /\ Len(job.data) <= DataLen
  BY DEF Inv, TypeOK, JobInv, Sound, get_session_data
<1>2. PICK r \in Loaded(ds, ses[c], Free) :
       LET t    == Taken(r.ses, DataLen - Len(job.data))
           data == job.data \o t.data
           x    == [r.ses EXCEPT !.sesbuf = t.sesbuf, !.fopt = t.fopt]
       IN
       \/ ~r.ok /\ Errsend(c, r.ses, SEEMSG) /\ ds' = r.ds
       \/ /\ r.ok /\ r.ses.sesbuf = <<>>
          /\ make_tftpdata_msg(c, r.ses, r.ds, job.data)
       \/ /\ r.ok /\ r.ses.sesbuf # <<>> /\ Len(data) = DataLen
          /\ make_tftpdata_msg(c, x, r.ds, data)
       \/ /\ r.ok /\ r.ses.sesbuf # <<>> /\ Len(data) < DataLen
          /\ ds' = r.ds
          /\ ses' = [ses EXCEPT ![c] = x]
          /\ Call("get", c, data, 0)
          /\ UNCHANGED seshead
  BY DEF get_session_data
<1> DEFINE t    == Taken(r.ses, DataLen - Len(job.data))
           data == job.data \o t.data
           x    == [r.ses EXCEPT !.sesbuf = t.sesbuf, !.fopt = t.fopt]
<1>3. Aside
  BY DEF get_session_data, Aside
<1>4. /\ Stepped(ds, r.ds, Free, ses[c].filename, ses[c].clsock)
      /\ Sound(r.ses) /\ Continues(ses[c], r.ses) /\ r.ses.req = "RRQ"
  BY <1>1, LoadedSteps DEF Continues
<1>5. /\ Len(job.data) \in Nat /\ DataLen - Len(job.data) \in Nat
  BY <1>1, LenProperties, Bounds
<1>6. r.ses.sesbuf \in Seq(Unit) /\ Len(r.ses.sesbuf) <= BufSize
      /\ r.ses.fopt \in BOOLEAN /\ Len(r.ses.sesbuf) \in Nat
  BY <1>4, SessionParts, LenProperties
<1>7. /\ t.data \in Seq(Unit) /\ Len(t.data) <= DataLen - Len(job.data)
      /\ t.sesbuf \in Seq(Unit) /\ Len(t.sesbuf) <= Len(r.ses.sesbuf)
      /\ t.fopt \in BOOLEAN
  BY <1>5, <1>6, TakenType
<1>8. data \in Seq(Unit) /\ Len(data) <= DataLen
  BY <1>1, <1>7, RoomConcat, Bounds
<1>9. Sound(x) /\ Continues(r.ses, x)
  <2>1. Len(t.sesbuf) <= BufSize
    BY <1>6, <1>7, LenProperties, Bounds
  <2> HIDE DEF t
  <2> QED
    BY <1>4, <1>7, <2>1, TakenBufferType
<1> HIDE DEF t
<1>10. Continues(ses[c], x) /\ x.req = "RRQ"
  BY <1>4, <1>9 DEF Continues
<1> HIDE DEF data, x, c
<1>11. SEEMSG \in Nat
  BY DEF SEEMSG
<1>12. CASE Errsend(c, r.ses, SEEMSG) /\ ds' = r.ds
  BY <1>1, <1>3, <1>4, <1>11, <1>12, ErrsendVisits DEF c
<1>13. CASE make_tftpdata_msg(c, r.ses, r.ds, job.data)
  BY <1>1, <1>3, <1>4, <1>13, DataVisits DEF c
<1>14. CASE make_tftpdata_msg(c, x, r.ds, data)
  BY <1>1, <1>3, <1>4, <1>8, <1>9, <1>10, <1>14, DataVisits DEF c
<1>15. CASE /\ ds' = r.ds /\ ses' = [ses EXCEPT ![c] = x]
            /\ Call("get", c, data, 0) /\ UNCHANGED seshead
  BY <1>1, <1>3, <1>4, <1>8, <1>9, <1>10, <1>15, LoopVisits DEF c
<1> QED
  BY <1>2, <1>12, <1>13, <1>14, <1>15 DEF c, x, data, t

\* The ACK built is the message of the block the session moves to.
LEMMA AckType ==
  ASSUME NEW c \in Client, NEW x, Sound(x), x.req = "WRQ", NEW k \in Nat
  PROVE  LET y == make_tftpack_msg(c, x, k)
         IN  /\ Sound(y) /\ Continues(x, y) /\ Current(y)
             /\ y.lastmsg \in Message
<1> DEFINE blk == k % (BlkMax + 1)
           msg == [for |-> c, op |-> "ACK", blk |-> blk, k |-> k, data |-> <<>>]
           z == [x EXCEPT !.blknum = blk, !.nblk = k]
           y == Remember(z, msg)
<1>1. blk \in 0 .. BlkMax
  BY Bounds
<1>2. msg \in Message
  <2>1. blk \in Nat
    BY <1>1
  <2> QED
    BY <2>1, EmptySeq DEF Message
<1>3. msg.op = "ACK" /\ msg.k = k /\ msg.blk = blk
  OBVIOUS
<1> HIDE DEF msg, blk
<1>4. x \in Session
  BY DEF Sound
<1>5. Sound(z) /\ Continues(x, z) /\ z.req = "WRQ" /\ z.nblk = k /\ z.blknum = blk
  BY <1>1, <1>4 DEF Sound, Session, Continues
<1> HIDE DEF z
<1>6. /\ Sound(y) /\ Continues(z, y) /\ y.lastmsg = msg
      /\ y.nblk = k /\ y.blknum = blk /\ y.req = "WRQ"
  BY <1>2, <1>5, RememberType
<1>7. make_tftpack_msg(c, x, k) = y
  BY DEF make_tftpack_msg, y, z, msg, blk
<1> HIDE DEF y
<1>8. Continues(x, y) /\ Current(y) /\ y.lastmsg \in Message
  BY <1>2, <1>3, <1>5, <1>6 DEF Continues, Current
<1> QED
  BY <1>6, <1>7, <1>8

\* The block is acknowledged; the last one closes the file.
LEMMA AcknowledgeVisits ==
  ASSUME StoreSound(ds), NEW c \in Client, c \in DOMAIN ses, NEW x, Sound(x),
         Continues(ses[c], x), x.req = "WRQ", NEW s,
         Stepped(ds, s, Free, ses[c].filename, ses[c].clsock),
         NEW k \in Nat, Acknowledge(c, x, s, k), Aside
  PROVE  Visits(c)
<1> DEFINE y == make_tftpack_msg(c, x, k)
<1>1. /\ ds' \in IF x.fin THEN close_data(s, x) ELSE {s}
      /\ Done(c, y, y.lastmsg)
  BY DEF Acknowledge
<1>2. Sound(y) /\ Continues(x, y) /\ Current(y) /\ y.lastmsg \in Message
  BY AckType
<1> HIDE DEF y
<1>3. Continues(ses[c], y)
  BY <1>2 DEF Continues
<1>4. Stepped(ds, ds', Free, ses[c].filename, ses[c].clsock)
  <2>1. CASE ds' = s
    BY <2>1
  <2>2. CASE ds' \in close_data(s, x)
    BY <2>2, CloseAfter DEF Continues
  <2> QED
    BY <1>1, <2>1, <2>2
<1> QED
  BY <1>1, <1>2, <1>3, <1>4, DoneVisits

\* What the buffer holds after the save of a turn of put_session_data.
LEMMA SavedSteps ==
  ASSUME StoreSound(ds), NEW x, Sound(x), NEW r \in Saved(ds, x, Free)
  PROVE  /\ Stepped(ds, r.ds, Free, x.filename, x.clsock)
         /\ Sound(r.ses) /\ Continues(x, r.ses)
<1>1. x \in Session
  BY DEF Sound
<1>2. Continues(x, x)
  BY DEF Continues
<1>3. CASE r = [ds |-> ds, ses |-> x, ok |-> TRUE]
  BY <1>2, <1>3, NotStepped
<1>4. CASE r \in save_data(ds, x, Free)
  <2>1. Free \in SUBSET Descriptor
    BY DEF Free
  <2>2. x.clsock \in Int /\ x.filename \in File /\ x.sesbuf \in Seq(Unit)
    BY SessionParts
  <2>3. /\ Stepped(ds, r.ds, Free, x.filename, x.clsock)
        /\ r.ses = x \/ r.ses = [x EXCEPT !.sesbuf = <<>>]
    BY <1>4, <2>1, <2>2, SaveSteps
  <2>4. <<>> \in Seq(Unit) /\ Len(<<>>) <= BufSize
    BY EmptySeq, Bounds
  <2> DEFINE y == [x EXCEPT !.sesbuf = <<>>]
  <2>5. Sound(y) /\ Continues(x, y)
    BY <2>4, BufferType
  <2> HIDE DEF y
  <2>6. r.ses = x \/ r.ses = y
    BY <2>3 DEF y
  <2> QED
    BY <1>2, <2>3, <2>5, <2>6
<1> QED
  BY <1>3, <1>4 DEF Saved

\* One turn of put_session_data.
LEMMA PutVisits ==
  ASSUME Inv, put_session_data
  PROVE  Visits(job.cl)
<1> DEFINE c    == job.cl
           t    == Given(ses[c], job.data)
           rest == SubSeq(job.data, t.used + 1, Len(job.data))
           x    == [ses[c] EXCEPT !.sesbuf = @ \o t.kept]
<1>1. /\ c \in DOMAIN ses /\ c \in Client /\ Sound(ses[c]) /\ ses[c].req = "WRQ"
      /\ StoreSound(ds) /\ sinfo \in Message
      /\ job.data \in Seq(Unit) /\ Len(job.data) <= DataLen /\ job.k \in Nat
  BY DEF Inv, TypeOK, JobInv, Sound, put_session_data
<1>2. PICK r \in Saved(ds, x, Free) :
       \/ ~r.ok /\ Errsend(c, r.ses, ACCESSDENY) /\ ds' = r.ds
       \/ r.ok /\ rest = <<>> /\ Acknowledge(c, r.ses, r.ds, job.k)
       \/ /\ r.ok /\ rest # <<>>
          /\ ds' = r.ds
          /\ ses' = [ses EXCEPT ![c] = r.ses]
          /\ Call("put", c, rest, job.k)
          /\ UNCHANGED seshead
  BY DEF put_session_data
<1>3. Aside
  BY DEF put_session_data, Aside
<1>4. ses[c].sesbuf \in Seq(Unit) /\ Len(ses[c].sesbuf) <= BufSize
      /\ Len(ses[c].sesbuf) \in Nat /\ Len(job.data) \in Nat
  BY <1>1, SessionParts, LenProperties
<1>5. /\ t.kept \in Seq(Unit)
      /\ Len(t.kept) <= BufSize - Len(ses[c].sesbuf)
      /\ t.used \in 0 .. Len(job.data)
  BY <1>1, <1>4, GivenType
<1>6. Sound(x) /\ Continues(ses[c], x)
  <2> DEFINE u == ses[c].sesbuf \o t.kept
  <2>1. u \in Seq(Unit) /\ Len(u) <= BufSize
    BY <1>4, <1>5, RoomConcat, Bounds
  <2>2. x = [ses[c] EXCEPT !.sesbuf = u]
    OBVIOUS
  <2> HIDE DEF u, x
  <2> QED
    BY <1>1, <2>1, <2>2, BufferType
<1>7. rest \in Seq(Unit) /\ Len(rest) <= DataLen
  <2>1. t.used + 1 \in Nat \ {0} /\ Len(job.data) \in Int
        /\ Len(job.data) <= Len(job.data)
    BY <1>4, <1>5
  <2>2. /\ rest \in Seq(Unit)
        /\ Len(rest) = IF t.used + 1 <= Len(job.data)
                       THEN Len(job.data) - (t.used + 1) + 1 ELSE 0
    BY <1>1, <2>1, PartType
  <2> HIDE DEF t, rest
  <2> QED
    BY <1>1, <1>4, <1>5, <2>2, Bounds
<1> HIDE DEF t, rest, x
<1>8. /\ Stepped(ds, r.ds, Free, ses[c].filename, ses[c].clsock)
      /\ Sound(r.ses) /\ Continues(ses[c], r.ses) /\ r.ses.req = "WRQ"
  BY <1>1, <1>6, SavedSteps DEF Continues
<1> HIDE DEF c
<1>9. ACCESSDENY \in Nat
  BY DEF ACCESSDENY
<1>10. CASE Errsend(c, r.ses, ACCESSDENY) /\ ds' = r.ds
  BY <1>1, <1>3, <1>8, <1>9, <1>10, ErrsendVisits DEF c
<1>11. CASE Acknowledge(c, r.ses, r.ds, job.k)
  BY <1>1, <1>3, <1>8, <1>11, AcknowledgeVisits DEF c
<1>12. CASE /\ ds' = r.ds /\ ses' = [ses EXCEPT ![c] = r.ses]
            /\ Call("put", c, rest, job.k) /\ UNCHANGED seshead
  BY <1>1, <1>3, <1>7, <1>8, <1>12, LoopVisits DEF c
<1> QED
  BY <1>2, <1>10, <1>11, <1>12 DEF c

----------------------------------------------------------------------------
(***************************************************************************)
(* The datagrams                                                           *)
(***************************************************************************)

\* A session added to the list, with the lowest free descriptor or none.
Adds(c) ==
  /\ c \in Client /\ c \notin DOMAIN ses
  /\ \E x : /\ ses' = Put(ses, c, x)
            /\ Sound(x) /\ ~x.regevent /\ Outcome(c, x)
            /\ x.clsock = NoSock \/ x.clsock \in Free
  /\ seshead' = <<c>> \o seshead
  /\ sinfo' \in Message /\ out' \subseteq Outgoing
  /\ Aside /\ UNCHANGED ds

\* A datagram answered from outside the sessions.
Answers ==
  /\ pc' = "recv" /\ job' = NoJob
  /\ sinfo' \in Message /\ out' \subseteq Outgoing
  /\ Aside /\ UNCHANGED <<ds, ses, seshead>>

\* The upload of a client, as it travels, is made of units.
LEMMA SentType ==
  ASSUME NEW c \in Client, Sound(ses[c])
  PROVE  Sent(c) \in Seq(Unit)
<1> DEFINE n == ses[c].size
           u == Upload(c, n)
<1>1. n \in 0 .. MaxUpload
  BY SessionParts
<1>2. n \in Nat /\ n <= MaxUpload
  BY <1>1, Bounds
<1>3. \A i \in 1 .. n : i \in 1 .. MaxUpload
  BY <1>2, Bounds
<1>4. \A i \in 1 .. n : (IF i \in LineEnds THEN LF ELSE <<c, i>>) \in Unit
  BY <1>3, ServerAssumption, BufferAssumption
<1>5. u \in [1 .. n -> Unit]
  BY <1>4 DEF Upload
<1> HIDE DEF n
<1>6. u \in Seq(Unit)
  BY <1>2, <1>5, SeqDef
<1> QED
  BY <1>6, WireType DEF Sent, n, u

\* A block of a text is no longer than a message.
LEMMA BlockType ==
  ASSUME NEW text \in Seq(Unit), NEW k \in Nat \ {0}
  PROVE  Block(text, k) \in Seq(Unit) /\ Len(Block(text, k)) <= DataLen
<1> DEFINE p == k * DataLen
           a == (k - 1) * DataLen + 1
           b == IF p <= Len(text) THEN p ELSE Len(text)
<1>1. p \in Nat /\ a = p - DataLen + 1 /\ a \in Nat \ {0}
  BY Bounds
<1>2. Len(text) \in Nat
  BY LenProperties
<1> HIDE DEF p, a
<1>3. b \in Int /\ b <= Len(text) /\ b <= p
  BY <1>1, <1>2
<1> HIDE DEF b
<1>4. /\ SubSeq(text, a, b) \in Seq(Unit)
      /\ Len(SubSeq(text, a, b)) = IF a <= b THEN b - a + 1 ELSE 0
  BY <1>1, <1>3, PartType
<1>5. Len(SubSeq(text, a, b)) <= DataLen
  BY <1>1, <1>3, <1>4, Bounds
<1> QED
  BY <1>4, <1>5 DEF Block, a, b, p

\* What the loop knows of a client with a session when it reads a datagram.
LEMMA AtReceive ==
  ASSUME Inv, NEW c \in Client, NEW sock, Receive(sock)
  PROVE  /\ pc = "recv" /\ Aside
         /\ StoreSound(ds) /\ sinfo \in Message
         /\ c \in DOMAIN ses =>
              /\ Sound(ses[c]) /\ Current(ses[c]) /\ Continues(ses[c], ses[c])
              /\ Stepped(ds, ds, Free, ses[c].filename, ses[c].clsock)
<1>1. pc = "recv" /\ Aside
  BY DEF Receive, Aside
<1>2. StoreSound(ds) /\ sinfo \in Message
  BY DEF Inv, TypeOK
<1>3. ASSUME c \in DOMAIN ses
      PROVE  Sound(ses[c]) /\ Current(ses[c])
  BY <1>1, <1>3 DEF Inv, TypeOK, ResendInv, Sound
<1>4. Continues(ses[c], ses[c])
  BY DEF Continues
<1> QED
  BY <1>1, <1>2, <1>3, <1>4, NotStepped

\* DATA of an upload.
LEMMA RecvDataVisits ==
  ASSUME Inv, NEW sock, NEW c \in Client, c \in DOMAIN ses,
         ses[c].req = "WRQ", NEW k \in Nat, NEW data \in Seq(Unit),
         Len(data) <= DataLen, RecvData(sock, c, k, data)
  PROVE  Visits(c)
<1> DEFINE x == ses[c]
           last == Len(data) < DataLen
           y == [x EXCEPT !.fin = @ \/ Len(data) < DataLen]
<1>0. Receive(sock)
  BY DEF RecvData
<1>1. /\ pc = "recv" /\ Aside /\ StoreSound(ds) /\ sinfo \in Message
      /\ Sound(x) /\ Current(x) /\ Continues(x, x)
      /\ Stepped(ds, ds, Free, x.filename, x.clsock)
  BY <1>0, AtReceive
<1>2. Sound(y) /\ Continues(x, y) /\ y.req = "WRQ"
  <2> DEFINE b == x.fin \/ Len(data) < DataLen
  <2>1. y = [x EXCEPT !.fin = b]
    OBVIOUS
  <2>2. b \in BOOLEAN
    BY <1>1, SessionParts
  <2>3. x \in Session
    BY <1>1 DEF Sound
  <2> HIDE DEF b, y
  <2> QED
    BY <1>1, <2>1, <2>2, <2>3 DEF Sound, Session, Continues
<1> HIDE DEF y
<1>3. CASE Resend(c)
  BY <1>1, <1>3, ResendVisits
<1>4. CASE Acknowledge(c, y, ds, k)
  BY <1>1, <1>2, <1>4, AcknowledgeVisits
<1>5. CASE /\ ses' = [ses EXCEPT ![c] = y]
           /\ Call("put", c, data, k)
           /\ UNCHANGED <<ds, seshead>>
  BY <1>1, <1>2, <1>5, LoopVisits
<1>6. CASE Errsend(c, x, ILLEGALOPE) /\ UNCHANGED ds
  <2>1. ILLEGALOPE \in Nat
    BY DEF ILLEGALOPE
  <2> QED
    BY <1>1, <1>6, <2>1, ErrsendVisits
<1> QED
  BY <1>3, <1>4, <1>5, <1>6 DEF RecvData, y

\* The session discarded; the message sent is the one left from before.
LEMMA DiscardVisits ==
  ASSUME StoreSound(ds), NEW c \in Client, c \in DOMAIN ses, Sound(ses[c]),
         Current(ses[c]), sinfo \in Message,
         Stepped(ds, ds', Free, ses[c].filename, ses[c].clsock),
         Done(c, [ses[c] EXCEPT !.disabled = TRUE], sinfo), Aside
  PROVE  Visits(c)
<1> DEFINE z == [ses[c] EXCEPT !.disabled = TRUE]
<1>1. Sound(z) /\ Continues(ses[c], z) /\ Current(z)
  BY FinishedType
<1> HIDE DEF z
<1> QED
  BY <1>1, DoneVisits DEF z

\* goto done with the message left from before: the sessions stay as they are.
LEMMA AnswerType ==
  ASSUME NEW c \in Client, sinfo \in Message, SendOld(c), Aside,
         c \in DOMAIN ses => Sound(ses[c])
  PROVE  Answers
<1>1. CASE c \in DOMAIN ses
  <2>1. out' \subseteq Outgoing
    BY <1>1, SendtoType, SessionParts DEF SendOld
  <2> QED
    BY <2>1 DEF SendOld, Answers, Return
<1>2. CASE c \notin DOMAIN ses
  <2>1. out' \subseteq Outgoing
    BY <1>2 DEF SendOld, Outgoing, Peer
  <2> QED
    BY <2>1 DEF SendOld, Answers, Return
<1> QED
  BY <1>1, <1>2

\* A request that is refused before it has a session.
LEMMA RefuseType ==
  ASSUME NEW c \in Client, NEW code \in Nat, Refuse(c, code), Aside
  PROVE  Answers
<1>1. make_tftperr_msg(c, code) \in Message
  BY ErrMsgType DEF Peer
<1>2. out' \subseteq Outgoing
  BY <1>1 DEF Refuse, Outgoing, Peer
<1> QED
  BY <1>1, <1>2 DEF Refuse, Answers, Return

\* ACK of a download.
LEMMA RecvAckVisits ==
  ASSUME Inv, NEW sock, NEW c \in Client, c \in DOMAIN ses,
         ses[c].req = "RRQ", NEW k \in Nat, RecvAck(sock, c, k)
  PROVE  Visits(c) \/ Answers
<1> DEFINE x == ses[c]
           y == Advanced(x)
<1>0. Receive(sock)
  BY DEF RecvAck
<1>1. /\ pc = "recv" /\ Aside /\ StoreSound(ds) /\ sinfo \in Message
      /\ Sound(x) /\ Current(x) /\ Continues(x, x)
      /\ Stepped(ds, ds, Free, x.filename, x.clsock)
  BY <1>0, AtReceive
<1>2. CASE Resend(c)
  BY <1>1, <1>2, ResendVisits
<1>3. CASE Done(c, [x EXCEPT !.disabled = TRUE], sinfo) /\ UNCHANGED ds
  BY <1>1, <1>3, DiscardVisits
<1>4. CASE /\ ses' = [ses EXCEPT ![c] = Advanced(x)]
           /\ Call("get", c, <<>>, 0)
           /\ UNCHANGED <<ds, seshead>>
  <2>1. Sound(y) /\ Continues(x, y)
    BY <1>1, AdvancedType
  <2>2. y.req = "RRQ"
    BY <2>1 DEF Continues
  <2>3. <<>> \in Seq(Unit) /\ Len(<<>>) <= DataLen
    BY EmptySeq, Bounds
  <2> HIDE DEF y
  <2> QED
    BY <1>1, <1>4, <2>1, <2>2, <2>3, LoopVisits DEF y
<1>5. CASE SendOld(c)
  BY <1>1, <1>5, AnswerType
<1> QED
  BY <1>2, <1>3, <1>4, <1>5 DEF RecvAck

\* A new session.
LEMMA NewSessionType ==
  ASSUME NEW fd \in Descriptor \cup {NoSock}, NEW f \in File, NEW mode \in Mode,
         NEW req \in {"RRQ", "WRQ"}, NEW n \in 0 .. MaxUpload
  PROVE  /\ Sound(NewSession(fd, f, mode, req, n))
         /\ Sound([NewSession(fd, f, mode, req, n) EXCEPT !.inherited = FALSE])
         /\ NewSession(fd, f, mode, req, n).clsock = fd
         /\ ~NewSession(fd, f, mode, req, n).regevent
         /\ NewSession(fd, f, mode, req, n).req = req
<1> DEFINE i == get_dsession(ds, fd, f) # {}
           x == NewSession(fd, f, mode, req, n)
<1>1. i \in BOOLEAN /\ FALSE \in BOOLEAN
  OBVIOUS
<1>2. x = [clsock |-> fd, regevent |-> FALSE, tftpmode |-> mode, sesbuf |-> <<>>,
           fopt |-> FALSE, filename |-> f, blknum |-> 0, fin |-> FALSE,
           lastmsg |-> NoMsg, age |-> AgeMax, retrycount |-> 0, disabled |-> FALSE,
           req |-> req, nblk |-> 0, size |-> n, inherited |-> i,
           refused |-> FALSE]
  BY Zenon DEF NewSession
<1> HIDE DEF i
<1>3. mode \in {"octet", "netascii"}
  BY ServerAssumption
<1>4. /\ <<>> \in Seq(Unit) /\ Len(<<>>) <= BufSize /\ 0 \in 0 .. BlkMax
      /\ AgeMax \in 0 .. AgeMax /\ 0 \in 0 .. RetryMax /\ 0 \in Nat
  BY EmptySeq, Bounds
<1>5. x \in Session
  BY <1>1, <1>2, <1>3, <1>4, NoMsgType DEF Session
<1>6. x.clsock = fd /\ ~x.regevent /\ x.req = req /\ x.sesbuf = <<>>
  BY <1>2
<1> HIDE DEF x
<1>7. /\ [x EXCEPT !.inherited = FALSE] \in Session
      /\ [x EXCEPT !.inherited = FALSE].sesbuf = x.sesbuf
  BY <1>1, <1>5 DEF Session
<1> QED
  BY <1>4, <1>5, <1>6, <1>7 DEF Sound, x

\* Without a descriptor the session is linked all the same.
LEMMA NoSocketAdds ==
  ASSUME NEW sock, NEW c \in Client, NEW req \in {"RRQ", "WRQ"}, NEW f \in File,
         NEW mode \in Mode, NEW n \in 0 .. MaxUpload,
         RecvRequestNoSocket(sock, c, req, f, mode, n)
  PROVE  Adds(c)
<1> DEFINE x == NewSession(NoSock, f, mode, req, n)
           y == [x EXCEPT !.inherited = FALSE]
<1>1. /\ c \notin DOMAIN ses /\ AddSession(c, y)
      /\ sinfo' = make_tftperr_msg(c, SEEMSG)
      /\ out' = {[to |-> c, msg |-> make_tftperr_msg(c, SEEMSG),
                  completed |-> Nobody]}
      /\ Return /\ UNCHANGED ds /\ Aside
  BY DEF RecvRequestNoSocket, Receive, Aside
<1>2. Sound(x) /\ Sound(y) /\ x.clsock = NoSock /\ ~x.regevent
  BY NewSessionType
<1>3. y.clsock = NoSock /\ ~y.regevent
  BY <1>2 DEF Sound, Session
<1> HIDE DEF y, x
<1>4. SEEMSG \in Nat
  BY DEF SEEMSG
<1>5. make_tftperr_msg(c, SEEMSG) \in Message
  BY <1>4, ErrMsgType DEF Peer
<1>6. sinfo' \in Message /\ out' \subseteq Outgoing
  BY <1>1, <1>5 DEF Outgoing, Peer
<1>7. Outcome(c, y)
  BY <1>1, <1>3, NoJobType DEF Return, Outcome, Current
<1> QED
  BY <1>1, <1>2, <1>3, <1>6, <1>7 DEF AddSession, Adds

\* A download begins.
LEMMA RRQAdds ==
  ASSUME NEW sock, NEW c \in Client, NEW f \in File, NEW mode \in Mode,
         sinfo \in Message, RecvRRQ(sock, c, f, mode)
  PROVE  Adds(c)
<1>1. PICK fd \in Lowest(Free) :
        AddSession(c, Advanced(NewSession(fd, f, mode, "RRQ", 0)))
  BY DEF RecvRRQ
<1> DEFINE x == NewSession(fd, f, mode, "RRQ", 0)
           y == Advanced(x)
<1>2. /\ c \notin DOMAIN ses /\ Call("get", c, <<>>, 0) /\ UNCHANGED ds /\ Aside
  BY DEF RecvRRQ, Receive, Aside
<1>3. fd \in Free /\ fd \in Descriptor
  BY <1>1 DEF Lowest, Free
<1>4. 0 \in 0 .. MaxUpload /\ fd \in Descriptor \cup {NoSock}
      /\ "RRQ" \in {"RRQ", "WRQ"}
  BY <1>3, Bounds
<1>5. Sound(x) /\ x.clsock = fd /\ ~x.regevent /\ x.req = "RRQ"
  <2>1. Sound(x)
    BY <1>4, NewSessionType
  <2>2. x.clsock = fd /\ ~x.regevent /\ x.req = "RRQ"
    BY DEF NewSession
  <2> QED
    BY <2>1, <2>2
<1> HIDE DEF x
<1>6. Sound(y) /\ Continues(x, y)
  BY <1>5, AdvancedType
<1>7. y.clsock = fd /\ ~y.regevent /\ y.req = "RRQ"
  BY <1>5, <1>6 DEF Continues
<1>8. AddSession(c, y)
  BY <1>1 DEF x
<1> HIDE DEF y
<1>9. job' = [cl |-> c, data |-> <<>>, k |-> 0] /\ pc' = "get"
      /\ sinfo' = sinfo /\ out' = {}
  BY <1>2 DEF Call
<1>10. job' \in JobType /\ Len(job'.data) <= DataLen /\ job'.cl = c
  BY <1>9, EmptySeq, Bounds DEF JobType
<1>11. Outcome(c, y)
  BY <1>7, <1>9, <1>10 DEF Outcome
<1> QED
  BY <1>2, <1>3, <1>6, <1>7, <1>8, <1>9, <1>11 DEF AddSession, Adds

\* An upload begins.
LEMMA WRQAdds ==
  ASSUME NEW sock, NEW c \in Client, NEW f \in File, NEW mode \in Mode,
         NEW n \in 0 .. MaxUpload, RecvWRQ(sock, c, f, mode, n)
  PROVE  Adds(c)
<1>1. PICK fd \in Lowest(Free) :
       LET x == make_tftpack_msg(c, NewSession(fd, f, mode, "WRQ", n), 0)
       IN  /\ AddSession(c, x)
           /\ sinfo' = x.lastmsg
           /\ out' = Sendto(c, x.lastmsg, x)
  BY DEF RecvWRQ
<1> DEFINE x == NewSession(fd, f, mode, "WRQ", n)
           y == make_tftpack_msg(c, x, 0)
<1>2. /\ c \notin DOMAIN ses /\ Return /\ UNCHANGED ds /\ Aside
  BY DEF RecvWRQ, Receive, Aside
<1>3. fd \in Free /\ fd \in Descriptor \cup {NoSock} /\ "WRQ" \in {"RRQ", "WRQ"}
  BY <1>1 DEF Lowest, Free
<1>4. Sound(x) /\ x.clsock = fd /\ ~x.regevent /\ x.req = "WRQ"
  <2>1. Sound(x)
    BY <1>3, NewSessionType
  <2>2. x.clsock = fd /\ ~x.regevent /\ x.req = "WRQ"
    BY DEF NewSession
  <2> QED
    BY <2>1, <2>2
<1> HIDE DEF x
<1>5. Sound(y) /\ Continues(x, y) /\ Current(y) /\ y.lastmsg \in Message
  BY <1>4, AckType
<1>6. y.clsock = fd /\ ~y.regevent /\ y.req = "WRQ"
  BY <1>4, <1>5 DEF Continues
<1>7. AddSession(c, y) /\ sinfo' = y.lastmsg /\ out' = Sendto(c, y.lastmsg, y)
  BY <1>1 DEF x
<1> HIDE DEF y
<1>8. out' \subseteq Outgoing
  BY <1>5, <1>7, SendtoType, SessionParts
<1>9. Outcome(c, y)
  BY <1>2, <1>5, NoJobType DEF Return, Outcome
<1> QED
  BY <1>2, <1>3, <1>5, <1>6, <1>7, <1>8, <1>9 DEF AddSession, Adds

\* Every datagram visits a session, adds one, or is answered without one.
LEMMA DatagramShapes ==
  ASSUME Inv, NEW sock, NEW c \in Client, Datagram(sock, c)
  PROVE  pc = "recv" /\ (Visits(c) \/ Adds(c) \/ Answers)
<1>0. Receive(sock)
  BY DEF Datagram, RecvRepeatedRequest, RecvRefusedRequest, RecvRequestNoSocket,
         RecvRRQ, RecvWRQ, RecvData, RecvAck, RecvError, RecvStray, RecvOwn,
         RecvUnparsable, RecvUnknownOpcode
<1>1. /\ pc = "recv" /\ Aside /\ StoreSound(ds) /\ sinfo \in Message
      /\ c \in DOMAIN ses =>
           /\ Sound(ses[c]) /\ Current(ses[c]) /\ Continues(ses[c], ses[c])
           /\ Stepped(ds, ds, Free, ses[c].filename, ses[c].clsock)
  BY <1>0, AtReceive
<1>2. /\ NOTFOUND \in Nat /\ FILEEXIST \in Nat /\ UNKNOWNID \in Nat
      /\ ILLEGALOPE \in Nat
  BY DEF NOTFOUND, FILEEXIST, UNKNOWNID, ILLEGALOPE
<1>3. CASE RecvRepeatedRequest(sock, c)
  BY <1>1, <1>3, ResendVisits DEF RecvRepeatedRequest
<1>4. CASE \E req \in Request, f \in File : RecvRefusedRequest(sock, c, req, f)
  BY <1>1, <1>2, <1>4, RefuseType DEF RecvRefusedRequest
<1>5. CASE \E req \in Request, f \in File, mode \in Mode : \E n \in Sizes(req) :
             RecvRequestNoSocket(sock, c, req, f, mode, n)
  <2>1. PICK req \in Request, f \in File, mode \in Mode : \E n \in Sizes(req) :
          RecvRequestNoSocket(sock, c, req, f, mode, n)
    BY <1>5
  <2>2. PICK n \in Sizes(req) : RecvRequestNoSocket(sock, c, req, f, mode, n)
    BY <2>1
  <2>3. req \in {"RRQ", "WRQ"}
    BY ServerAssumption
  <2>4. n \in 0 .. MaxUpload
    BY Bounds DEF Sizes
  <2> QED
    BY <1>1, <2>2, <2>3, <2>4, NoSocketAdds
<1>6. CASE "RRQ" \in Request /\ \E f \in File, mode \in Mode : RecvRRQ(sock, c, f, mode)
  BY <1>1, <1>6, RRQAdds
<1>7. CASE \E f \in File, mode \in Mode, n \in 0 .. MaxUpload :
             RecvWRQ(sock, c, f, mode, n)
  BY <1>1, <1>7, WRQAdds
<1>8. CASE /\ c \in DOMAIN ses /\ ses[c].req = "WRQ"
           /\ \E k \in 1 .. LastBlock(Sent(c)) :
                k - ses[c].nblk \in -1 .. 1 /\ RecvData(sock, c, k, Block(Sent(c), k))
  <2>1. PICK k \in 1 .. LastBlock(Sent(c)) : RecvData(sock, c, k, Block(Sent(c), k))
    BY <1>8
  <2>2. Sent(c) \in Seq(Unit)
    BY <1>1, <1>8, SentType
  <2>3. k \in Nat \ {0} /\ k \in Nat
    OBVIOUS
  <2>4. Block(Sent(c), k) \in Seq(Unit) /\ Len(Block(Sent(c), k)) <= DataLen
    BY <2>2, <2>3, BlockType
  <2> QED
    BY <1>1, <1>8, <2>1, <2>3, <2>4, RecvDataVisits
<1>9. CASE /\ c \in DOMAIN ses /\ ses[c].req = "RRQ"
           /\ \E k \in 1 .. ses[c].nblk : k >= ses[c].nblk - 2 /\ RecvAck(sock, c, k)
  <2>1. PICK k \in 1 .. ses[c].nblk : RecvAck(sock, c, k)
    BY <1>9
  <2>2. k \in Nat
    OBVIOUS
  <2> QED
    BY <1>1, <1>9, <2>1, <2>2, RecvAckVisits
<1>10. CASE RecvError(sock, c)
  <2>1. c \in DOMAIN ses /\ ds' \in close_data(ds, ses[c])
        /\ Done(c, [ses[c] EXCEPT !.disabled = TRUE], sinfo)
    BY <1>10 DEF RecvError
  <2>2. Stepped(ds, ds', Free, ses[c].filename, ses[c].clsock)
    BY <1>1, <2>1, CloseAfter
  <2> QED
    BY <1>1, <2>1, <2>2, DiscardVisits
<1>11. CASE RecvStray(sock, c)
  BY <1>1, <1>2, <1>11, RefuseType DEF RecvStray
<1>12. CASE RecvOwn(sock, c)
  <2>1. make_tftperr_msg(Self, UNKNOWNID) \in Message
    BY <1>2, ErrMsgType DEF Peer
  <2>2. sinfo' \in Message /\ out' \subseteq Outgoing
    BY <1>12, <2>1 DEF RecvOwn, Outgoing, Peer
  <2> QED
    BY <1>1, <1>12, <2>2 DEF RecvOwn, Return, Answers
<1>13. CASE RecvUnparsable(sock, c)
  <2>1. CASE c \in DOMAIN ses /\ Errsend(c, ses[c], ILLEGALOPE) /\ UNCHANGED ds
    BY <1>1, <1>2, <2>1, ErrsendVisits
  <2>2. CASE Refuse(c, ILLEGALOPE)
    BY <1>1, <1>2, <2>2, RefuseType
  <2> QED
    BY <1>13, <2>1, <2>2 DEF RecvUnparsable
<1>14. CASE RecvUnknownOpcode(sock, c)
  BY <1>1, <1>14, AnswerType DEF RecvUnknownOpcode
<1> QED
  BY <1>1, <1>3, <1>4, <1>5, <1>6, <1>7, <1>8, <1>9, <1>10, <1>11, <1>12, <1>13,
     <1>14 DEF Datagram

----------------------------------------------------------------------------
(***************************************************************************)
(* The session list                                                        *)
(***************************************************************************)

\* A node linked at the head.
LEMMA Linked ==
  ASSUME NEW S, NEW q \in Seq(S), Distinct(q), NEW a \in S, a \notin Elements(q)
  PROVE  LET p == <<a>> \o q
         IN  /\ p \in Seq(S) /\ Distinct(p)
             /\ Elements(p) = Elements(q) \cup {a} /\ Len(p) = Len(q) + 1
<1> DEFINE p == <<a>> \o q
<1>1. <<a>> \in Seq(S) /\ Len(<<a>>) = 1 /\ <<a>>[1] = a
  OBVIOUS
<1>2. /\ p \in Seq(S) /\ Len(p) = Len(q) + 1
      /\ \A i \in 1 .. Len(p) : p[i] = IF i <= 1 THEN <<a>>[i] ELSE q[i - 1]
  BY <1>1, ConcatProperties
<1>3. DOMAIN p = 1 .. Len(p) /\ DOMAIN q = 1 .. Len(q) /\ Len(q) \in Nat
  BY <1>2, LenProperties
<1> HIDE DEF p
<1>4. p[1] = a /\ 1 \in DOMAIN p
  BY <1>1, <1>2, <1>3
<1>5. \A i \in DOMAIN p : i # 1 => i - 1 \in DOMAIN q /\ p[i] = q[i - 1]
  BY <1>2, <1>3
<1>6. \A i \in DOMAIN q : i + 1 \in DOMAIN p /\ p[i + 1] = q[i]
  BY <1>2, <1>3
<1>7. Elements(p) = Elements(q) \cup {a}
  BY <1>3, <1>4, <1>5, <1>6 DEF Elements
<1>8. ASSUME NEW i \in DOMAIN p, NEW j \in DOMAIN p, p[i] = p[j]
      PROVE  i = j
  <2>1. \A k \in DOMAIN p : k # 1 => p[k] # a
    BY <1>5 DEF Elements
  <2>2. CASE i = 1 \/ j = 1
    BY <1>4, <1>8, <2>1, <2>2
  <2>3. CASE i # 1 /\ j # 1
    <3>1. i - 1 \in DOMAIN q /\ j - 1 \in DOMAIN q /\ q[i - 1] = q[j - 1]
      BY <1>5, <1>8, <2>3
    <3>2. i - 1 = j - 1
      BY <3>1 DEF Distinct
    <3> QED
      BY <1>3, <3>2
  <2> QED
    BY <2>2, <2>3
<1> QED
  BY <1>2, <1>7, <1>8 DEF Distinct, p

\* A node unlinked.
LEMMA Unlinked ==
  ASSUME NEW S, NEW q \in Seq(S), Distinct(q), NEW n \in DOMAIN q
  PROVE  LET p == RemoveAt(q, n)
         IN  /\ p \in Seq(S) /\ Distinct(p)
             /\ Elements(p) = Elements(q) \ {q[n]} /\ Len(p) = Len(q) - 1
<1> DEFINE u == SubSeq(q, 1, n - 1)
           v == SubSeq(q, n + 1, Len(q))
           p == u \o v
<1>1. DOMAIN q = 1 .. Len(q) /\ Len(q) \in Nat /\ n \in 1 .. Len(q)
  BY LenProperties
<1>2. \A i \in 1 .. Len(q) : q[i] \in S
  BY <1>1, ElementOfSeq
<1>3. /\ u \in Seq(S) /\ Len(u) = n - 1
      /\ \A i \in 1 .. n - 1 : u[i] = q[i]
  BY <1>1, <1>2, SubSeqProperties
<1>4. /\ v \in Seq(S) /\ Len(v) = Len(q) - n
      /\ \A i \in 1 .. Len(q) - n : v[i] = q[i + n]
  BY <1>1, <1>2, SubSeqProperties
<1> HIDE DEF u, v
<1>5. /\ p \in Seq(S) /\ Len(p) = Len(q) - 1
      /\ \A i \in 1 .. Len(p) : p[i] = IF i <= n - 1 THEN u[i] ELSE v[i - (n - 1)]
  <2>1. /\ p \in Seq(S) /\ Len(p) = Len(u) + Len(v)
        /\ \A i \in 1 .. Len(p) : p[i] = IF i <= Len(u) THEN u[i] ELSE v[i - Len(u)]
    <3>1. u \in Seq(S) /\ v \in Seq(S)
      BY <1>3, <1>4
    <3> QED
      BY <3>1, ConcatProperties, Zenon
  <2>2. Len(p) = Len(q) - 1
    BY <1>1, <1>3, <1>4, <2>1
  <2> HIDE DEF p
  <2> QED
    BY <1>3, <2>1, <2>2
<1>6. DOMAIN p = 1 .. Len(p)
  BY <1>5, LenProperties
<1> HIDE DEF p
<1>7. \A i \in DOMAIN p : i < n => i \in DOMAIN q /\ p[i] = q[i]
  BY <1>1, <1>3, <1>5, <1>6
<1>8. \A i \in DOMAIN p : ~(i < n) => i + 1 \in DOMAIN q /\ p[i] = q[i + 1]
  <2>1. SUFFICES ASSUME NEW i \in DOMAIN p, ~(i < n)
                 PROVE  i + 1 \in DOMAIN q /\ p[i] = q[i + 1]
    OBVIOUS
  <2> DEFINE j == i - (n - 1)
  <2>2. /\ j \in 1 .. Len(q) - n /\ j + n = i + 1
        /\ ~(i <= n - 1) /\ i \in 1 .. Len(p)
    BY <1>1, <1>5, <1>6, <2>1
  <2>3. p[i] = v[j]
    BY <1>5, <2>2
  <2> HIDE DEF j
  <2>4. v[j] = q[j + n]
    BY <1>4, <2>2
  <2> QED
    BY <1>1, <2>2, <2>3, <2>4
<1>9. \A j \in DOMAIN q : j # n => \E i \in DOMAIN p : p[i] = q[j]
  <2>1. SUFFICES ASSUME NEW j \in DOMAIN q, j # n
                 PROVE  \E i \in DOMAIN p : p[i] = q[j]
    OBVIOUS
  <2>2. CASE j < n
    BY <1>1, <1>5, <1>6, <1>7, <2>1, <2>2
  <2>3. CASE j > n
    <3>1. j - 1 \in DOMAIN p /\ ~(j - 1 < n) /\ (j - 1) + 1 = j
      BY <1>1, <1>5, <1>6, <2>1, <2>3
    <3> QED
      BY <1>8, <3>1
  <2> QED
    BY <1>1, <2>1, <2>2, <2>3
<1>10. ASSUME NEW i \in DOMAIN p, NEW j \in DOMAIN p, p[i] = p[j]
       PROVE  i = j
  <2> DEFINE a == IF i < n THEN i ELSE i + 1
             b == IF j < n THEN j ELSE j + 1
  <2>1. a \in DOMAIN q /\ b \in DOMAIN q /\ q[a] = q[b]
    BY <1>7, <1>8, <1>10
  <2>2. a = b
    BY <2>1 DEF Distinct
  <2> QED
    BY <1>1, <1>5, <1>6, <2>2
<1>11. \A i \in DOMAIN p : p[i] \in Elements(q) /\ p[i] # q[n]
  <2>1. SUFFICES ASSUME NEW i \in DOMAIN p
                 PROVE  p[i] \in Elements(q) /\ p[i] # q[n]
    OBVIOUS
  <2>2. CASE i < n
    BY <1>1, <1>7, <2>2 DEF Elements, Distinct
  <2>3. CASE ~(i < n)
    <3>1. i + 1 # n /\ i + 1 \in DOMAIN q /\ p[i] = q[i + 1]
      BY <1>1, <1>5, <1>6, <1>8, <2>3
    <3> QED
      BY <3>1 DEF Elements, Distinct
  <2> QED
    BY <2>2, <2>3
<1>12. Elements(p) = Elements(q) \ {q[n]}
  BY <1>9, <1>11 DEF Elements
<1> QED
  BY <1>5, <1>10, <1>12 DEF RemoveAt, Distinct, p, u, v

\* The loops over the list go on with its tail.
LEMMA Visited ==
  ASSUME NEW S, NEW q \in Seq(S), q # <<>>, Distinct(q)
  PROVE  /\ Head(q) \in Elements(q) /\ Tail(q) \in Seq(S) /\ Distinct(Tail(q))
         /\ Elements(Tail(q)) \subseteq Elements(q) \ {Head(q)}
<1>1. /\ Head(q) = q[1] /\ Tail(q) \in Seq(S) /\ Len(Tail(q)) = Len(q) - 1
      /\ \A i \in 1 .. Len(Tail(q)) : Tail(q)[i] = q[i + 1]
  BY HeadTailProperties
<1>2. /\ DOMAIN q = 1 .. Len(q) /\ Len(q) \in Nat
      /\ DOMAIN Tail(q) = 1 .. Len(Tail(q))
  BY <1>1, LenProperties
<1>3. Len(q) # 0
  BY EmptySeq
<1> DEFINE p == Tail(q)
<1> HIDE DEF p
<1>4. \A i \in DOMAIN p : i + 1 \in DOMAIN q /\ p[i] = q[i + 1] /\ i + 1 # 1
  BY <1>1, <1>2, <1>3 DEF p
<1>5. 1 \in DOMAIN q
  BY <1>2, <1>3
<1>6. Distinct(p)
  <2>1. SUFFICES ASSUME NEW i \in DOMAIN p, NEW j \in DOMAIN p, p[i] = p[j]
                 PROVE  i = j
    BY DEF Distinct
  <2>2. i + 1 = j + 1
    BY <1>4, <2>1 DEF Distinct
  <2> QED
    BY <1>1, <1>2, <2>2 DEF p
<1>7. \A i \in DOMAIN p : p[i] \in Elements(q) /\ p[i] # q[1]
  BY <1>4, <1>5 DEF Distinct, Elements
<1>8. Elements(p) \subseteq Elements(q) \ {q[1]}
  BY <1>7 DEF Elements
<1> QED
  BY <1>1, <1>5, <1>6, <1>8 DEF Elements, p

----------------------------------------------------------------------------
(***************************************************************************)
(* What the shapes keep                                                    *)
(***************************************************************************)

\* A step of the store by a session keeps the writers known.
LEMMA SteppedWriters ==
  ASSUME WritersKnown, NEW f \in File, NEW w \in Descriptor \cup {NoSock},
         NEW free, Stepped(ds, ds', free, f, w)
  PROVE  WritersKnown'
<1>1. \/ Writers(ds') = Writers(ds)
      \/ Writers(ds') = Writers(ds) \cup {<<f, w>>}
      \/ Writers(ds') = Writers(ds) \ {<<f, w>>}
  BY DEF Stepped, Still, Wrote
<1>2. <<f, w>> \in File \X (Descriptor \cup {NoSock})
  OBVIOUS
<1> QED
  BY <1>1, <1>2 DEF WritersKnown

\* One session changed: all but what is said of it alone.
LEMMA OneChanged ==
  ASSUME Inv, NEW c, c \in DOMAIN ses, NEW y, Sound(y), Continues(ses[c], y),
         ses' = [ses EXCEPT ![c] = y],
         Stepped(ds, ds', Free, ses[c].filename, ses[c].clsock)
  PROVE  /\ DOMAIN ses' = DOMAIN ses /\ ses'[c] = y
         /\ \A b \in DOMAIN ses : b # c => ses'[b] = ses[b]
         /\ \A b \in DOMAIN ses : Sound(ses'[b]) /\ Continues(ses[b], ses'[b])
         /\ StoreSound(ds') /\ IsStore(ds')
         /\ Sockets' = Sockets /\ WritersKnown' /\ SocketInv'
<1>1. /\ DOMAIN ses' = DOMAIN ses /\ ses'[c] = y
      /\ \A b \in DOMAIN ses : b # c => ses'[b] = ses[b]
  OBVIOUS
<1>2. \A b \in DOMAIN ses : Sound(ses[b])
  BY DEF Inv, TypeOK, Sound
<1>3. \A b \in DOMAIN ses : Sound(ses'[b]) /\ Continues(ses[b], ses'[b])
  BY <1>1, <1>2 DEF Continues
<1>4. \A b \in DOMAIN ses : ses'[b].clsock = ses[b].clsock
  BY <1>3 DEF Continues
<1>5. Sockets' = Sockets
  BY <1>1, <1>4 DEF Sockets
<1>6. StoreSound(ds') /\ IsStore(ds')
  BY DEF Stepped, StoreSound
<1>7. WritersKnown'
  BY <1>2, SessionParts, SteppedWriters DEF Inv
<1>8. SocketInv'
  <2>1. StreamFds(ds') \subseteq StreamFds(ds) \cup Free
    BY DEF Stepped
  <2>2. Sockets \cap Free = {}
    BY DEF Sockets, Free
  <2>3. Sockets' \cap StreamFds(ds') = {}
    BY <1>5, <2>1, <2>2 DEF Inv, SocketInv
  <2>4. \A a, b \in DOMAIN ses' :
          ses'[a].clsock = ses'[b].clsock /\ ses'[a].clsock # NoSock => a = b
    BY <1>1, <1>4 DEF Inv, SocketInv
  <2> QED
    BY <2>3, <2>4 DEF SocketInv
<1> QED
  BY <1>1, <1>3, <1>5, <1>6, <1>7, <1>8

\* A visit of the session whose turn it is.
LEMMA VisitKeeps ==
  ASSUME Inv, NEW c, Visits(c), pc \in {"recv", "get", "put"},
         pc # "recv" => c = job.cl
  PROVE  Inv'
<1>1. PICK y : /\ ses' = [ses EXCEPT ![c] = y]
               /\ Sound(y) /\ Continues(ses[c], y) /\ Outcome(c, y)
  BY DEF Visits
<1>2. /\ c \in DOMAIN ses
      /\ Stepped(ds, ds', Free, ses[c].filename, ses[c].clsock)
      /\ sinfo' \in Message /\ out' \subseteq Outgoing
      /\ events' \subseteq events
      /\ epoll' = epoll /\ todo' = todo /\ exitflag' = exitflag
      /\ seshead' = seshead
  BY DEF Visits, Aside
<1>3. /\ job' \in JobType /\ Len(job'.data) <= DataLen
      /\ pc' \in {"recv", "get", "put"}
      /\ \/ pc' = "recv" /\ Current(y)
         \/ pc' = "get" /\ y.req = "RRQ" /\ job'.cl = c
         \/ pc' = "put" /\ y.req = "WRQ" /\ job'.cl = c
  BY <1>1 DEF Outcome
<1>4. /\ DOMAIN ses' = DOMAIN ses /\ ses'[c] = y
      /\ \A b \in DOMAIN ses : b # c => ses'[b] = ses[b]
      /\ \A b \in DOMAIN ses : Sound(ses'[b]) /\ Continues(ses[b], ses'[b])
      /\ StoreSound(ds') /\ IsStore(ds')
      /\ Sockets' = Sockets /\ WritersKnown' /\ SocketInv'
  BY <1>1, <1>2, OneChanged
<1>5. TypeOK'
  <2>1. \A b \in DOMAIN ses' : ses'[b] \in Session /\ Len(ses'[b].sesbuf) <= BufSize
    BY <1>4 DEF Sound
  <2>2. DOMAIN ses' \subseteq Client
    BY <1>4 DEF Inv, TypeOK
  <2>3. /\ pc' \in {"wait", "recv", "get", "put", "resend", "cleanup", "closing",
                    "exiting", "exited", "crashed"}
        /\ job' \in [cl : Client \cup {Nobody}, data : Seq(Unit), k : Nat]
        /\ Len(job'.data) <= DataLen
    BY <1>3 DEF JobType
  <2>4. out' \subseteq [to : Client \cup {Self, Nobody}, msg : Message,
                        completed : File \cup {Nobody}]
    BY <1>2 DEF Outgoing, Peer
  <2>5. /\ seshead' \in Seq(Client) /\ todo' \in Seq(Client)
        /\ epoll' \subseteq Descriptor /\ events' \subseteq SvSock \cup Descriptor
        /\ exitflag' \in BOOLEAN
    BY <1>2 DEF Inv, TypeOK
  <2> QED
    BY <1>2, <1>4, <2>1, <2>2, <2>3, <2>4, <2>5 DEF TypeOK
<1>6. ListInv'
  BY <1>2, <1>3, <1>4 DEF Inv, ListInv
<1>7. JobInv'
  BY <1>2, <1>3, <1>4 DEF JobInv
<1>8. ListenInv'
  <2>1. epoll' \subseteq Sockets'
    BY <1>2, <1>4 DEF Inv, ListenInv
  <2>2. ASSUME NEW b \in DOMAIN ses'
        PROVE  Listened(b)'
    <3>1. Listened(b) /\ Continues(ses[b], ses'[b]) /\ epoll' = epoll
      BY <1>2, <1>4, <2>2 DEF Inv, ListenInv
    <3>2. ~ses'[b].disabled /\ ~ses'[b].refused =>
            IF ses'[b].regevent THEN ses'[b].clsock \in epoll' ELSE TRUE
      BY <3>1 DEF Listened, Continues
    <3> QED
      BY <1>3, <3>2 DEF Listened
  <2> QED
    BY <2>1, <2>2 DEF ListenInv
<1>9. ResendInv'
  <2>1. ASSUME NEW b \in DOMAIN ses'
        PROVE  Current(ses'[b]) \/ (pc' \in {"get", "put"} /\ b = job'.cl)
    <3>1. CASE b = c
      BY <1>3, <1>4, <3>1
    <3>2. CASE b # c
      <4>1. ses'[b] = ses[b] /\ b \in DOMAIN ses
        BY <1>4, <2>1, <3>2
      <4>2. Current(ses[b])
        BY <3>2, <4>1 DEF Inv, ResendInv
      <4> QED
        BY <4>1, <4>2
    <3> QED
      BY <3>1, <3>2
  <2> QED
    BY <2>1 DEF ResendInv, Current
<1> QED
  BY <1>4, <1>5, <1>6, <1>7, <1>8, <1>9 DEF Inv

\* A session added: its socket was free, and update_event is to come.
LEMMA AddKeeps ==
  ASSUME Inv, NEW c, Adds(c), pc = "recv"
  PROVE  Inv'
<1>1. PICK x : /\ ses' = Put(ses, c, x)
               /\ Sound(x) /\ ~x.regevent /\ Outcome(c, x)
               /\ x.clsock = NoSock \/ x.clsock \in Free
  BY DEF Adds
<1>2. /\ c \in Client /\ c \notin DOMAIN ses
      /\ seshead' = <<c>> \o seshead
      /\ sinfo' \in Message /\ out' \subseteq Outgoing
      /\ events' \subseteq events
      /\ epoll' = epoll /\ todo' = todo /\ exitflag' = exitflag
      /\ ds' = ds
  BY DEF Adds, Aside
<1>3. /\ job' \in JobType /\ Len(job'.data) <= DataLen
      /\ pc' \in {"recv", "get", "put"}
      /\ \/ pc' = "recv" /\ Current(x)
         \/ pc' = "get" /\ x.req = "RRQ" /\ job'.cl = c
         \/ pc' = "put" /\ x.req = "WRQ" /\ job'.cl = c
  BY <1>1 DEF Outcome
<1>4. /\ DOMAIN ses' = DOMAIN ses \cup {c} /\ ses'[c] = x
      /\ \A b \in DOMAIN ses : ses'[b] = ses[b] /\ b # c
  BY <1>1, <1>2 DEF Put
<1>5. Sockets' = Sockets \cup ({x.clsock} \ {NoSock})
  BY <1>4 DEF Sockets
<1>6. /\ seshead \in Seq(Client) /\ Distinct(seshead)
      /\ Elements(seshead) = DOMAIN ses /\ IsFiniteSet(DOMAIN ses)
      /\ Len(seshead) = Cardinality(DOMAIN ses) /\ todo = <<>>
  BY DEF Inv, TypeOK, ListInv
<1>7. /\ seshead' \in Seq(Client) /\ Distinct(seshead')
      /\ Elements(seshead') = DOMAIN ses' /\ Len(seshead') = Len(seshead) + 1
  BY <1>2, <1>4, <1>6, Linked
<1>8. TypeOK'
  <2>1. \A b \in DOMAIN ses' : ses'[b] \in Session /\ Len(ses'[b].sesbuf) <= BufSize
    BY <1>1, <1>4 DEF Sound, Inv, TypeOK
  <2>2. DOMAIN ses' \subseteq Client
    BY <1>2, <1>4 DEF Inv, TypeOK
  <2>3. /\ pc' \in {"wait", "recv", "get", "put", "resend", "cleanup", "closing",
                    "exiting", "exited", "crashed"}
        /\ job' \in [cl : Client \cup {Nobody}, data : Seq(Unit), k : Nat]
        /\ Len(job'.data) <= DataLen
    BY <1>3 DEF JobType
  <2>4. out' \subseteq [to : Client \cup {Self, Nobody}, msg : Message,
                        completed : File \cup {Nobody}]
    BY <1>2 DEF Outgoing, Peer
  <2>5. /\ todo' \in Seq(Client) /\ IsStore(ds')
        /\ epoll' \subseteq Descriptor /\ events' \subseteq SvSock \cup Descriptor
        /\ exitflag' \in BOOLEAN
    BY <1>2 DEF Inv, TypeOK
  <2> QED
    BY <1>2, <1>7, <2>1, <2>2, <2>3, <2>4, <2>5 DEF TypeOK
<1>9. StoreSound(ds') /\ WritersKnown'
  BY <1>2 DEF Inv, WritersKnown
<1>10. ListInv'
  <2>1. /\ IsFiniteSet(DOMAIN ses')
        /\ Cardinality(DOMAIN ses') = Cardinality(DOMAIN ses) + 1
    BY <1>2, <1>4, <1>6, FS_AddElement
  <2>2. Distinct(todo') /\ Elements(todo') \subseteq DOMAIN ses' /\ todo' = <<>>
    BY <1>2, <1>4, <1>6 DEF Inv, ListInv
  <2> QED
    BY <1>6, <1>7, <2>1, <2>2 DEF ListInv
<1>11. SocketInv'
  <2>1. \A b \in DOMAIN ses : ses[b].clsock \notin Free
    BY DEF Free
  <2>2. \A a, b \in DOMAIN ses' :
          ses'[a].clsock = ses'[b].clsock /\ ses'[a].clsock # NoSock => a = b
    BY <1>1, <1>4, <2>1 DEF Inv, SocketInv
  <2>3. Free \cap StreamFds(ds) = {}
    BY DEF Free
  <2>4. Sockets' \cap StreamFds(ds') = {}
    BY <1>1, <1>2, <1>5, <2>3 DEF Inv, SocketInv
  <2> QED
    BY <2>2, <2>4 DEF SocketInv
<1>12. JobInv'
  BY <1>3, <1>4 DEF JobInv
<1>13. ListenInv'
  <2>1. epoll' \subseteq Sockets'
    BY <1>2, <1>5 DEF Inv, ListenInv
  <2>2. ASSUME NEW b \in DOMAIN ses'
        PROVE  Listened(b)'
    <3>1. CASE b = c
      BY <1>1, <1>3, <1>4, <3>1 DEF Listened
    <3>2. CASE b # c
      <4>1. Listened(b) /\ ses'[b] = ses[b] /\ epoll' = epoll
        BY <1>2, <1>4, <2>2, <3>2 DEF Inv, ListenInv
      <4> QED
        BY <1>3, <4>1 DEF Listened
    <3> QED
      BY <3>1, <3>2
  <2> QED
    BY <2>1, <2>2 DEF ListenInv
<1>14. ResendInv'
  <2>1. ASSUME NEW b \in DOMAIN ses'
        PROVE  Current(ses'[b]) \/ (pc' \in {"get", "put"} /\ b = job'.cl)
    <3>1. CASE b = c
      BY <1>3, <1>4, <3>1
    <3>2. CASE b # c
      BY <1>4, <2>1, <3>2 DEF Inv, ResendInv
    <3> QED
      BY <3>1, <3>2
  <2> QED
    BY <2>1 DEF ResendInv, Current
<1> QED
  BY <1>8, <1>9, <1>10, <1>11, <1>12, <1>13, <1>14 DEF Inv

\* An answer from outside the sessions.
LEMMA AnswerKeeps ==
  ASSUME Inv, pc = "recv", Answers
  PROVE  Inv'
<1>1. /\ pc' = "recv" /\ job' = NoJob
      /\ sinfo' \in Message /\ out' \subseteq Outgoing
      /\ events' \subseteq events /\ epoll' = epoll /\ todo' = todo
      /\ exitflag' = exitflag /\ ds' = ds /\ ses' = ses /\ seshead' = seshead
  BY DEF Answers, Aside
<1>2. TypeOK'
  <2>1. job' \in [cl : Client \cup {Nobody}, data : Seq(Unit), k : Nat]
        /\ Len(job'.data) <= DataLen
    BY <1>1, NoJobType DEF JobType
  <2>2. out' \subseteq [to : Client \cup {Self, Nobody}, msg : Message,
                        completed : File \cup {Nobody}]
    BY <1>1 DEF Outgoing, Peer
  <2> QED
    BY <1>1, <2>1, <2>2 DEF Inv, TypeOK
<1>3. StoreSound(ds') /\ WritersKnown'
  BY <1>1 DEF Inv, WritersKnown
<1>4. ListInv' /\ SocketInv' /\ JobInv'
  BY <1>1 DEF Inv, ListInv, SocketInv, JobInv, Sockets
<1>5. ListenInv' /\ ResendInv'
  BY <1>1 DEF Inv, ListenInv, Listened, ResendInv, Current, Sockets
<1> QED
  BY <1>2, <1>3, <1>4, <1>5 DEF Inv

----------------------------------------------------------------------------
(***************************************************************************)
(* The rest of the loop, the signal and the clock                          *)
(***************************************************************************)

\* Steps that leave the sessions, the store and the descriptors alone keep
\* the parts that are about them.
LEMMA Unmoved ==
  ASSUME Inv, UNCHANGED <<ds, ses, seshead, epoll, sinfo, job>>,
         pc' \notin {"get", "put"}, pc \notin {"get", "put"},
         pc \in {"recv", "get", "put"} => pc' \in {"recv", "get", "put"}
  PROVE  /\ StoreSound(ds') /\ WritersKnown' /\ SocketInv' /\ JobInv'
         /\ ListenInv' /\ ResendInv'
<1>1. StoreSound(ds') /\ WritersKnown' /\ SocketInv'
  BY DEF Inv, WritersKnown, SocketInv, Sockets
<1>2. JobInv'
  BY DEF JobInv
<1>3. epoll' \subseteq Sockets'
  BY DEF Inv, ListenInv, Sockets
<1>4. \A c \in DOMAIN ses : Listened(c)'
  BY DEF Inv, ListenInv, Listened
<1>5. ListenInv'
  BY <1>3, <1>4 DEF ListenInv
<1>6. \A c \in DOMAIN ses : Current(ses[c])
  BY DEF Inv, ResendInv
<1>7. ResendInv'
  BY <1>6 DEF ResendInv, Current
<1> QED
  BY <1>1, <1>2, <1>5, <1>7

\* Steps between the turns of the loops, and inside none.
LEMMA QuietKeeps ==
  ASSUME Inv,
         \/ \E batch \in SUBSET (SvSock \cup epoll) : epoll_wait(batch)
         \/ EpollTimeout \/ ResendDone \/ CleanupDone \/ sig_handler
  PROVE  Inv'
<1>1. CASE \E batch \in SUBSET (SvSock \cup epoll) : epoll_wait(batch)
  <2>1. PICK batch \in SUBSET (SvSock \cup epoll) : epoll_wait(batch)
    BY <1>1
  <2>2. TypeOK'
    BY <2>1 DEF Inv, TypeOK, epoll_wait
  <2>3. ListInv'
    BY <2>1 DEF Inv, ListInv, epoll_wait
  <2>4. /\ UNCHANGED <<ds, ses, seshead, epoll, sinfo, job>>
        /\ pc = "wait" /\ pc' = "recv"
    BY <2>1 DEF epoll_wait
  <2> QED
    BY <2>2, <2>3, <2>4, Unmoved DEF Inv
<1>2. CASE EpollTimeout
  <2>1. TypeOK'
    BY <1>2 DEF Inv, TypeOK, EpollTimeout
  <2>2. ListInv'
    BY <1>2 DEF Inv, ListInv, EpollTimeout
  <2>3. /\ UNCHANGED <<ds, ses, seshead, epoll, sinfo, job>>
        /\ pc = "wait" /\ pc' = "resend"
    BY <1>2 DEF EpollTimeout
  <2> QED
    BY <2>1, <2>2, <2>3, Unmoved DEF Inv
<1>3. CASE ResendDone
  <2>1. TypeOK'
    BY <1>3 DEF Inv, TypeOK, ResendDone
  <2>2. ListInv'
    BY <1>3 DEF Inv, ListInv, ResendDone
  <2>3. /\ UNCHANGED <<ds, ses, seshead, epoll, sinfo, job>>
        /\ pc = "resend" /\ pc' = "cleanup"
    BY <1>3 DEF ResendDone
  <2> QED
    BY <2>1, <2>2, <2>3, Unmoved DEF Inv
<1>4. CASE CleanupDone
  <2>1. TypeOK'
    BY <1>4 DEF Inv, TypeOK, CleanupDone
  <2>2. ListInv'
    BY <1>4 DEF Inv, ListInv, CleanupDone
  <2>3. /\ UNCHANGED <<ds, ses, seshead, epoll, sinfo, job>>
        /\ pc = "cleanup" /\ pc' \in {"closing", "wait"}
    BY <1>4 DEF CleanupDone
  <2> QED
    BY <2>1, <2>2, <2>3, Unmoved DEF Inv
<1>5. CASE sig_handler
  <2>1. TypeOK'
    BY <1>5 DEF Inv, TypeOK, sig_handler
  <2>2. UNCHANGED <<ds, ses, seshead, epoll, events, pc, job, todo, sinfo>>
    BY <1>5 DEF sig_handler
  <2>3. StoreSound(ds') /\ WritersKnown' /\ ListInv' /\ SocketInv' /\ JobInv'
    BY <2>2 DEF Inv, WritersKnown, ListInv, SocketInv, Sockets, JobInv
  <2>4. ListenInv' /\ ResendInv'
    BY <2>2 DEF Inv, ListenInv, Sockets, Listened, ResendInv, Current
  <2> QED
    BY <2>1, <2>3, <2>4 DEF Inv
<1> QED
  BY <1>1, <1>2, <1>3, <1>4, <1>5

\* Every session is registered or taken out, as it should be.
LEMMA UpdateKeeps ==
  ASSUME Inv, update_event
  PROVE  Inv'
<1> DEFINE new     == {c \in DOMAIN ses : ~ses[c].disabled /\ ~ses[c].regevent}
           dropped == {c \in DOMAIN ses : ses[c].disabled /\ ses[c].regevent}
<1>0. PICK refused \in Refusals(new) :
        /\ epoll' = (epoll \cup {ses[c].clsock : c \in new \ refused})
                       \ {ses[c].clsock : c \in dropped}
        /\ ses' = [c \in DOMAIN ses |->
                     [ses[c] EXCEPT !.regevent = ~ses[c].disabled,
                                    !.refused = @ \/ c \in refused]]
  BY DEF update_event
<1>1. /\ pc = "recv" /\ pc' = "resend" /\ todo' = seshead /\ out' = {}
      /\ UNCHANGED <<ds, job, seshead, events, sinfo, exitflag>>
  BY DEF update_event
<1> DEFINE added == new \ refused
<1>a. /\ \A c \in new : ses[c].clsock = NoSock => c \in refused
      /\ epoll' = (epoll \cup {ses[c].clsock : c \in added})
                    \ {ses[c].clsock : c \in dropped}
  BY <1>0 DEF Refusals
<1>2. \A c \in DOMAIN ses : ses[c] \in Session /\ Len(ses[c].sesbuf) <= BufSize
  BY DEF Inv, TypeOK
<1>3. DOMAIN ses' = DOMAIN ses
      /\ \A c \in DOMAIN ses :
           ses'[c] = [ses[c] EXCEPT !.regevent = ~ses[c].disabled,
                                    !.refused = @ \/ c \in refused]
  BY <1>0
<1>4. ASSUME NEW c \in DOMAIN ses
      PROVE  /\ ses'[c] \in Session /\ ses'[c].sesbuf = ses[c].sesbuf
             /\ ses'[c].clsock = ses[c].clsock
             /\ ses'[c].disabled = ses[c].disabled
             /\ ses'[c].fin = ses[c].fin /\ ses'[c].req = ses[c].req
             /\ ses'[c].lastmsg = ses[c].lastmsg /\ ses'[c].nblk = ses[c].nblk
             /\ ses'[c].blknum = ses[c].blknum
             /\ ses'[c].regevent = ~ses[c].disabled
             /\ ses'[c].refused = (ses[c].refused \/ c \in refused)
  <2> DEFINE b == ~ses[c].disabled
             e == ses[c].refused \/ c \in refused
  <2>1. /\ ses'[c] = [ses[c] EXCEPT !.regevent = b, !.refused = e]
        /\ b \in BOOLEAN /\ e \in BOOLEAN
    BY <1>3
  <2>2. ses[c] \in Session
    BY <1>2
  <2> HIDE DEF b, e
  <2>3. /\ ses'[c] \in Session /\ ses'[c].sesbuf = ses[c].sesbuf
        /\ ses'[c].clsock = ses[c].clsock
        /\ ses'[c].disabled = ses[c].disabled
        /\ ses'[c].fin = ses[c].fin /\ ses'[c].req = ses[c].req
        /\ ses'[c].lastmsg = ses[c].lastmsg /\ ses'[c].nblk = ses[c].nblk
        /\ ses'[c].blknum = ses[c].blknum
    BY <2>1, <2>2 DEF Session
  <2>4. ses'[c].regevent = b /\ ses'[c].refused = e
    BY <2>1, <2>2 DEF Session
  <2> QED
    BY <2>3, <2>4 DEF b, e
<1>5. Sockets' = Sockets
  <2>1. \A c \in DOMAIN ses : ses'[c].clsock = ses[c].clsock
    BY <1>4
  <2>2. DOMAIN ses' = DOMAIN ses
    BY <1>3
  <2> QED
    BY <2>1, <2>2 DEF Sockets
<1>6. epoll' \subseteq Sockets
  <2>1. {ses[c].clsock : c \in added} \subseteq Sockets
    BY <1>a DEF Sockets
  <2> QED
    BY <1>a, <2>1 DEF Inv, ListenInv
<1>7. Sockets \subseteq Descriptor
  BY <1>2, SessionParts DEF Sockets, Sound
<1>8. TypeOK'
  <2>1. \A c \in DOMAIN ses' : ses'[c] \in Session /\ Len(ses'[c].sesbuf) <= BufSize
    BY <1>2, <1>3, <1>4
  <2>2. epoll' \subseteq Descriptor
    BY <1>6, <1>7
  <2> QED
    BY <1>1, <1>3, <2>1, <2>2 DEF Inv, TypeOK
<1>9. StoreSound(ds') /\ WritersKnown'
  BY <1>1 DEF Inv, WritersKnown
<1>10. ListInv'
  BY <1>1, <1>3 DEF Inv, ListInv
<1>11. SocketInv'
  <2>1. StreamFds(ds') = StreamFds(ds)
    BY <1>1
  <2>2. DOMAIN ses' = DOMAIN ses
    BY <1>3
  <2>3. \A c \in DOMAIN ses : ses'[c].clsock = ses[c].clsock
    BY <1>4
  <2> QED
    BY <1>5, <2>1, <2>2, <2>3 DEF Inv, SocketInv
<1>12. JobInv'
  BY <1>1 DEF JobInv
<1>13. ListenInv'
  <2>1. ASSUME NEW c \in DOMAIN ses, ~ses[c].disabled, ~ses[c].refused,
               c \notin refused
        PROVE  ses[c].clsock \in epoll'
    <3>1. ses[c].clsock \in epoll \cup {ses[b].clsock : b \in added}
      <4>1. CASE ses[c].regevent
        BY <2>1, <4>1 DEF Inv, ListenInv, Listened
      <4>2. CASE ~ses[c].regevent
        BY <2>1, <4>2
      <4> QED
        BY <4>1, <4>2
    <3>2. ses[c].clsock # NoSock
      <4>1. CASE ses[c].regevent
        BY <2>1, <4>1 DEF Inv, ListenInv, Listened, Sockets
      <4>2. CASE ~ses[c].regevent
        BY <1>a, <2>1, <4>2
      <4> QED
        BY <4>1, <4>2
    <3>3. \A b \in dropped : ses[b].clsock # ses[c].clsock
      BY <2>1, <3>2 DEF Inv, SocketInv
    <3> QED
      BY <1>a, <3>1, <3>3
  <2>2. ASSUME NEW c \in DOMAIN ses'
        PROVE  Listened(c)'
    BY <1>3, <1>4, <2>1, <2>2 DEF Listened
  <2> QED
    BY <1>5, <1>6, <2>2 DEF ListenInv
<1>14. ResendInv'
  <2>1. ASSUME NEW c \in DOMAIN ses'
        PROVE  Current(ses'[c])
    <3>1. Current(ses[c])
      BY <1>1, <1>3, <2>1 DEF Inv, ResendInv
    <3> QED
      BY <1>3, <1>4, <2>1, <3>1 DEF Current
  <2> QED
    BY <2>1 DEF ResendInv, Current
<1> QED
  BY <1>8, <1>9, <1>10, <1>11, <1>12, <1>13, <1>14 DEF Inv

\* A second makes sessions older.
LEMMA TickKeeps ==
  ASSUME Inv, Tick
  PROVE  Inv'
<1>1. /\ pc = "wait"
      /\ ses' = [c \in DOMAIN ses |->
                   [ses[c] EXCEPT !.age = IF @ < AgeMax THEN @ + 1 ELSE @]]
      /\ out' = {}
      /\ UNCHANGED <<ds, job, seshead, epoll, events, pc, todo, sinfo, exitflag>>
  BY DEF Tick
<1>2. \A c \in DOMAIN ses : ses[c] \in Session /\ Len(ses[c].sesbuf) <= BufSize
  BY DEF Inv, TypeOK
<1>3. DOMAIN ses' = DOMAIN ses
      /\ \A c \in DOMAIN ses :
           ses'[c] = [ses[c] EXCEPT !.age = IF @ < AgeMax THEN @ + 1 ELSE @]
  BY <1>1
<1>4. ASSUME NEW c \in DOMAIN ses
      PROVE  /\ ses'[c] \in Session /\ ses'[c].sesbuf = ses[c].sesbuf
             /\ ses'[c].clsock = ses[c].clsock
             /\ ses'[c].disabled = ses[c].disabled
             /\ ses'[c].fin = ses[c].fin /\ ses'[c].req = ses[c].req
             /\ ses'[c].lastmsg = ses[c].lastmsg /\ ses'[c].nblk = ses[c].nblk
             /\ ses'[c].blknum = ses[c].blknum
             /\ ses'[c].regevent = ses[c].regevent
             /\ ses'[c].refused = ses[c].refused
  <2> DEFINE n == IF ses[c].age < AgeMax THEN ses[c].age + 1 ELSE ses[c].age
  <2>1. ses'[c] = [ses[c] EXCEPT !.age = n]
    BY <1>3
  <2>2. ses[c] \in Session
    BY <1>2
  <2>3. n \in 0 .. AgeMax
    BY <1>2, SessionParts, Bounds DEF Sound
  <2> HIDE DEF n
  <2> QED
    BY <2>1, <2>2, <2>3 DEF Session
<1>5. Sockets' = Sockets
  BY <1>3, <1>4 DEF Sockets
<1>6. TypeOK'
  <2>1. \A c \in DOMAIN ses' : ses'[c] \in Session /\ Len(ses'[c].sesbuf) <= BufSize
    BY <1>2, <1>3, <1>4
  <2> QED
    BY <1>1, <1>3, <2>1 DEF Inv, TypeOK
<1>7. StoreSound(ds') /\ WritersKnown'
  BY <1>1 DEF Inv, WritersKnown
<1>8. ListInv' /\ JobInv'
  BY <1>1, <1>3 DEF Inv, ListInv, JobInv
<1>9. SocketInv'
  <2>1. StreamFds(ds') = StreamFds(ds)
    BY <1>1
  <2> QED
    BY <1>3, <1>4, <1>5, <2>1 DEF Inv, SocketInv
<1>10. ListenInv'
  <2>1. ASSUME NEW c \in DOMAIN ses'
        PROVE  Listened(c)'
    BY <1>1, <1>3, <1>4, <2>1 DEF Inv, ListenInv, Listened
  <2> QED
    BY <1>1, <1>5, <2>1 DEF Inv, ListenInv
<1>11. ResendInv'
  <2>1. ASSUME NEW c \in DOMAIN ses'
        PROVE  Current(ses'[c])
    <3>1. Current(ses[c])
      BY <1>1, <1>3, <2>1 DEF Inv, ResendInv
    <3> QED
      BY <1>3, <1>4, <2>1, <3>1 DEF Current
  <2> QED
    BY <2>1 DEF ResendInv, Current
<1> QED
  BY <1>6, <1>7, <1>8, <1>9, <1>10, <1>11 DEF Inv

\* A turn of the loop of resend_allsession.
LEMMA ResendKeeps ==
  ASSUME Inv, ResendSession
  PROVE  Inv'
<1> DEFINE c == Head(todo)
           x == ses[c]
<1>1. /\ pc = "resend" /\ todo # <<>> /\ todo' = Tail(todo)
      /\ UNCHANGED <<job, seshead, epoll, events, pc, sinfo, exitflag>>
  BY DEF ResendSession
<1>2. /\ todo \in Seq(Client) /\ Distinct(todo) /\ Elements(todo) \subseteq DOMAIN ses
  BY DEF Inv, TypeOK, ListInv
<1>3. /\ c \in DOMAIN ses /\ todo' \in Seq(Client) /\ Distinct(todo')
      /\ Elements(todo') \subseteq DOMAIN ses
  BY <1>1, <1>2, Visited
<1>4. /\ c \in Client /\ Sound(x) /\ Current(x) /\ StoreSound(ds)
  BY <1>1, <1>3 DEF Inv, TypeOK, Sound, ResendInv
<1>5. ASSUME NEW y, Sound(y), Continues(x, y), Current(y),
             ses' = [ses EXCEPT ![c] = y],
             Stepped(ds, ds', Free, x.filename, x.clsock), out' \subseteq Outgoing
      PROVE  Inv'
  <2>1. /\ DOMAIN ses' = DOMAIN ses /\ ses'[c] = y
        /\ \A b \in DOMAIN ses : b # c => ses'[b] = ses[b]
        /\ \A b \in DOMAIN ses : Sound(ses'[b]) /\ Continues(ses[b], ses'[b])
        /\ StoreSound(ds') /\ IsStore(ds')
        /\ Sockets' = Sockets /\ WritersKnown' /\ SocketInv'
    BY <1>3, <1>5, OneChanged
  <2>2. TypeOK'
    <3>1. \A b \in DOMAIN ses' : ses'[b] \in Session /\ Len(ses'[b].sesbuf) <= BufSize
      BY <2>1 DEF Sound
    <3>2. out' \subseteq [to : Client \cup {Self, Nobody}, msg : Message,
                          completed : File \cup {Nobody}]
      BY <1>5 DEF Outgoing, Peer
    <3> QED
      BY <1>1, <1>3, <2>1, <3>1, <3>2 DEF Inv, TypeOK
  <2>3. ListInv'
    BY <1>1, <1>3, <2>1 DEF Inv, ListInv
  <2>4. JobInv'
    BY <1>1 DEF JobInv
  <2>5. ListenInv'
    <3>1. ASSUME NEW b \in DOMAIN ses'
          PROVE  Listened(b)'
      BY <1>1, <2>1, <3>1 DEF Inv, ListenInv, Listened, Continues
    <3> QED
      BY <1>1, <2>1, <3>1 DEF Inv, ListenInv
  <2>6. ResendInv'
    <3>1. ASSUME NEW b \in DOMAIN ses'
          PROVE  Current(ses'[b])
      BY <1>1, <1>5, <2>1, <3>1 DEF Inv, ResendInv
    <3> QED
      BY <3>1 DEF ResendInv, Current
  <2> QED
    BY <2>1, <2>2, <2>3, <2>4, <2>5, <2>6 DEF Inv
<1>6. CASE /\ ses' = [ses EXCEPT ![c].disabled = TRUE]
           /\ ds' \in close_data(ds, x) /\ out' = {}
  <2> DEFINE z == [x EXCEPT !.disabled = TRUE]
  <2>1. Sound(z) /\ Continues(x, z) /\ Current(z)
    BY <1>4, FinishedType
  <2>2. Stepped(ds, ds', Free, x.filename, x.clsock)
    BY <1>4, <1>6, CloseSteps
  <2>3. ses' = [ses EXCEPT ![c] = z]
    BY <1>6
  <2> HIDE DEF z, x
  <2> QED
    BY <1>5, <1>6, <2>1, <2>2, <2>3
<1>7. CASE /\ x.retrycount < RetryMax
           /\ ses' = [ses EXCEPT ![c].retrycount = @ + 1, ![c].age = 0]
           /\ out' = {[to |-> Self, msg |-> x.lastmsg, completed |-> Nobody]}
           /\ UNCHANGED ds
  <2> DEFINE y == [x EXCEPT !.age = 0, !.retrycount = @ + 1]
  <2>1. Sound(y) /\ Continues(x, y) /\ Current(y)
    BY <1>4, <1>7, RepeatedType
  <2>2. Stepped(ds, ds', Free, x.filename, x.clsock)
    BY <1>4, <1>7, NotStepped
  <2>3. [[x EXCEPT !.retrycount = @ + 1] EXCEPT !.age = 0] = y
    BY <1>4 DEF Sound, Session
  <2>4. ses' = [ses EXCEPT ![c] = [[x EXCEPT !.retrycount = @ + 1] EXCEPT !.age = 0]]
    BY <1>7
  <2>5. ses' = [ses EXCEPT ![c] = y]
    BY <2>3, <2>4, Zenon
  <2>6. out' \subseteq Outgoing
    BY <1>4, <1>7, SessionParts DEF Outgoing, Peer
  <2> HIDE DEF y, x
  <2> QED
    BY <1>5, <2>1, <2>2, <2>5, <2>6
<1>8. CASE out' = {} /\ UNCHANGED <<ds, ses>>
  <2>1. TypeOK'
    BY <1>1, <1>3, <1>8 DEF Inv, TypeOK
  <2>2. ListInv'
    BY <1>1, <1>3, <1>8 DEF Inv, ListInv
  <2>3. /\ UNCHANGED <<ds, ses, seshead, epoll, sinfo, job>>
        /\ pc = "resend" /\ pc' = "resend"
    BY <1>1, <1>8
  <2> QED
    BY <2>1, <2>2, <2>3, Unmoved DEF Inv
<1> QED
  BY <1>6, <1>7, <1>8 DEF ResendSession

\* A turn of the loop of cleanup_session, whatever is read from the node that
\* was freed.
LEMMA CleanupKeeps ==
  ASSUME Inv, CleanupSession
  PROVE  Inv'
<1> DEFINE c == Head(todo)
<1>1. /\ pc = "cleanup" /\ todo # <<>> /\ out' = {}
      /\ UNCHANGED <<ds, job, events, sinfo, exitflag>>
  BY DEF CleanupSession
<1>2. /\ todo \in Seq(Client) /\ Distinct(todo) /\ Elements(todo) \subseteq DOMAIN ses
      /\ seshead \in Seq(Client) /\ Distinct(seshead)
      /\ Elements(seshead) = DOMAIN ses /\ IsFiniteSet(DOMAIN ses)
      /\ Len(seshead) = Cardinality(DOMAIN ses)
  BY DEF Inv, TypeOK, ListInv
<1>3. /\ c \in DOMAIN ses /\ Tail(todo) \in Seq(Client) /\ Distinct(Tail(todo))
      /\ Elements(Tail(todo)) \subseteq DOMAIN ses \ {c}
  BY <1>1, <1>2, Visited
<1>4. <<>> \in Seq(Client) /\ Distinct(<<>>) /\ Elements(<<>>) = {}
  BY EmptySeq DEF Distinct, Elements
<1>5. CASE /\ todo' = Tail(todo)
           /\ UNCHANGED <<ses, seshead, epoll, pc>>
  <2>1. TypeOK'
    BY <1>1, <1>3, <1>5 DEF Inv, TypeOK
  <2>2. ListInv'
    BY <1>1, <1>3, <1>5 DEF Inv, ListInv
  <2>3. /\ UNCHANGED <<ds, ses, seshead, epoll, sinfo, job>>
        /\ pc = "cleanup" /\ pc' = "cleanup"
    BY <1>1, <1>5
  <2> QED
    BY <2>1, <2>2, <2>3, Unmoved DEF Inv
<1>6. CASE /\ del_session(c)
           /\ \/ todo' = Tail(todo) /\ UNCHANGED pc
              \/ todo' = <<>> /\ UNCHANGED pc
              \/ todo' = <<>> /\ pc' = "crashed"
  <2>1. /\ ses' = [b \in DOMAIN ses \ {c} |-> ses[b]]
        /\ epoll' = epoll \ {ses[c].clsock}
    BY <1>6 DEF del_session
  <2>2. PICK n \in DOMAIN seshead : seshead[n] = c /\ seshead' = RemoveAt(seshead, n)
    BY <1>6 DEF del_session
  <2>3. /\ seshead' \in Seq(Client) /\ Distinct(seshead')
        /\ Elements(seshead') = DOMAIN ses \ {c} /\ Len(seshead') = Len(seshead) - 1
    BY <1>2, <2>2, Unlinked
  <2>4. /\ todo' \in Seq(Client) /\ Distinct(todo')
        /\ Elements(todo') \subseteq DOMAIN ses \ {c}
        /\ pc' \in {"cleanup", "crashed"} /\ (pc' = "crashed" => todo' = <<>>)
    BY <1>1, <1>3, <1>4, <1>6
  <2>5. /\ DOMAIN ses' = DOMAIN ses \ {c}
        /\ \A b \in DOMAIN ses' : b \in DOMAIN ses /\ b # c /\ ses'[b] = ses[b]
    BY <2>1
  <2>6. Sockets' = Sockets \ {ses[c].clsock}
    <3>1. \A b \in DOMAIN ses' : ses'[b].clsock # NoSock =>
            ses[b].clsock # ses[c].clsock
      BY <1>3, <2>5 DEF Inv, SocketInv
    <3>2. \A b \in DOMAIN ses' : ses'[b].clsock = ses[b].clsock
      BY <2>5
    <3>3. \A b \in DOMAIN ses : b = c \/ b \in DOMAIN ses'
      BY <2>5
    <3>4. ASSUME NEW k PROVE k \in Sockets' <=> k \in Sockets \ {ses[c].clsock}
      <4>1. k \in Sockets' <=> k # NoSock /\ \E b \in DOMAIN ses' : k = ses[b].clsock
        BY <3>2 DEF Sockets
      <4>2. k \in Sockets <=> k # NoSock /\ \E b \in DOMAIN ses : k = ses[b].clsock
        BY DEF Sockets
      <4>3. DOMAIN ses' \subseteq DOMAIN ses
        BY <2>5
      <4> QED
        BY <3>1, <3>2, <3>3, <4>1, <4>2, <4>3
    <3> QED
      BY <3>4
  <2>7. TypeOK'
    <3>1. \A b \in DOMAIN ses' : ses'[b] \in Session /\ Len(ses'[b].sesbuf) <= BufSize
      BY <2>5 DEF Inv, TypeOK
    <3>2. DOMAIN ses' \subseteq Client /\ epoll' \subseteq Descriptor
      BY <2>1, <2>5 DEF Inv, TypeOK
    <3>3. pc' \in {"wait", "recv", "get", "put", "resend", "cleanup", "closing",
                   "exiting", "exited", "crashed"}
      BY <2>4
    <3> QED
      BY <1>1, <2>3, <2>4, <3>1, <3>2, <3>3 DEF Inv, TypeOK
  <2>8. StoreSound(ds') /\ WritersKnown'
    BY <1>1 DEF Inv, WritersKnown
  <2>9. ListInv'
    <3>1. /\ IsFiniteSet(DOMAIN ses')
          /\ Cardinality(DOMAIN ses') = Cardinality(DOMAIN ses) - 1
      BY <1>2, <1>3, <2>5, FS_RemoveElement
    <3> QED
      BY <1>2, <2>3, <2>4, <2>5, <3>1 DEF ListInv
  <2>10. SocketInv'
    <3>1. StreamFds(ds') = StreamFds(ds)
      BY <1>1
    <3> QED
      BY <2>5, <2>6, <3>1 DEF Inv, SocketInv
  <2>11. JobInv'
    BY <2>4 DEF JobInv
  <2>12. ListenInv'
    <3>1. epoll' \subseteq Sockets'
      BY <2>1, <2>6 DEF Inv, ListenInv
    <3>2. ASSUME NEW b \in DOMAIN ses'
          PROVE  Listened(b)'
      <4>1. b \in DOMAIN ses /\ b # c /\ ses'[b] = ses[b] /\ Listened(b)
        BY <2>5, <3>2 DEF Inv, ListenInv
      <4>2. ses[b].clsock # NoSock => ses[b].clsock # ses[c].clsock
        BY <1>3, <4>1 DEF Inv, SocketInv
      <4>3. ses[b].clsock \in epoll => ses[b].clsock # NoSock
        BY DEF Inv, ListenInv, Sockets
      <4> QED
        BY <1>1, <2>1, <4>1, <4>2, <4>3 DEF Listened
    <3> QED
      BY <3>1, <3>2 DEF ListenInv
  <2>13. ResendInv'
    <3>1. ASSUME NEW b \in DOMAIN ses'
          PROVE  Current(ses'[b])
      BY <1>1, <2>5, <3>1 DEF Inv, ResendInv
    <3> QED
      BY <3>1 DEF ResendInv, Current
  <2> QED
    BY <2>7, <2>8, <2>9, <2>10, <2>11, <2>12, <2>13 DEF Inv
<1> QED
  BY <1>5, <1>6 DEF CleanupSession

\* The end: the sessions go, then the streams.
LEMMA EndKeeps ==
  ASSUME Inv, del_allsession \/ iwds_exit
  PROVE  Inv'
<1>1. CASE del_allsession
  <2>1. /\ pc = "closing" /\ ses' = [c \in {} |-> 0] /\ seshead' = <<>> /\ epoll' = {}
        /\ pc' = "exiting" /\ out' = {}
        /\ UNCHANGED <<ds, job, events, todo, sinfo, exitflag>>
    BY <1>1 DEF del_allsession
  <2>2. DOMAIN ses' = {}
    BY <2>1
  <2>3. /\ seshead' \in Seq(Client) /\ Distinct(seshead') /\ Elements(seshead') = {}
        /\ Len(seshead') = 0
    BY <2>1, EmptySeq DEF Distinct, Elements
  <2>4. TypeOK'
    BY <2>1, <2>2, <2>3 DEF Inv, TypeOK
  <2>5. StoreSound(ds') /\ WritersKnown'
    BY <2>1 DEF Inv, WritersKnown
  <2>6. todo = <<>>
    BY <2>1 DEF Inv, ListInv
  <2>7. ListInv'
    <3>1. IsFiniteSet({}) /\ Cardinality({}) = 0
      BY FS_EmptySet
    <3>2. Distinct(<<>>) /\ Elements(<<>>) = {}
      BY EmptySeq DEF Distinct, Elements
    <3> QED
      BY <2>1, <2>2, <2>3, <2>6, <3>1, <3>2 DEF ListInv
  <2>8. SocketInv' /\ ListenInv' /\ ResendInv' /\ JobInv'
    BY <2>1, <2>2 DEF SocketInv, Sockets, ListenInv, ResendInv, JobInv
  <2> QED
    BY <2>4, <2>5, <2>7, <2>8 DEF Inv
<1>2. CASE iwds_exit
  <2>1. /\ pc = "exiting" /\ pc' \in {"exiting", "exited"} /\ out' = {}
        /\ UNCHANGED <<job, ses, seshead, epoll, events, todo, sinfo, exitflag>>
    BY <1>2 DEF iwds_exit
  <2>2. StoreSound(ds') /\ WritersKnown' /\ StreamFds(ds') \subseteq StreamFds(ds)
    <3>1. CASE UNCHANGED ds
      BY <3>1 DEF Inv, WritersKnown
    <3>2. CASE ds' \in iwds_exit_step(ds)
      <4>1. PICK d \in ds.dhead :
              /\ Stepped(ds, ds', {}, d.filename, d.clid)
              /\ Still(ds, ds') \/ <<d.filename, d.clid>> \in Writers(ds)
        BY <3>2, ExitSteps DEF Inv
      <4>2. StoreSound(ds') /\ StreamFds(ds') \subseteq StreamFds(ds)
        BY <4>1 DEF Stepped
      <4>3. \/ Writers(ds') = Writers(ds)
            \/ Writers(ds') \subseteq Writers(ds) \cup {<<d.filename, d.clid>>}
        BY <4>1 DEF Stepped, Still, Wrote
      <4>4. WritersKnown'
        BY <4>1, <4>3 DEF Inv, WritersKnown, Still
      <4> QED
        BY <4>2, <4>4
    <3> QED
      BY <1>2, <3>1, <3>2 DEF iwds_exit
  <2>3. TypeOK'
    BY <2>1, <2>2 DEF Inv, TypeOK, StoreSound
  <2>4. ListInv' /\ JobInv'
    BY <2>1 DEF Inv, ListInv, JobInv
  <2>5. SocketInv'
    BY <2>1, <2>2 DEF Inv, SocketInv, Sockets
  <2>6. ListenInv' /\ ResendInv'
    BY <2>1 DEF Inv, ListenInv, Sockets, Listened, ResendInv, Current
  <2> QED
    BY <2>2, <2>3, <2>4, <2>5, <2>6 DEF Inv
<1> QED
  BY <1>1, <1>2

----------------------------------------------------------------------------
(***************************************************************************)
(* The theorems                                                            *)
(***************************************************************************)

\* A datagram that is skipped.
LEMMA NothingType ==
  ASSUME Inv, NEW sock, RecvNothing(sock)
  PROVE  pc = "recv" /\ Answers
BY DEF RecvNothing, Receive, Return, Aside, Answers, Inv, TypeOK

\* The server starts with no session and no stream.
LEMMA InitInv == Init => Inv
<1> SUFFICES ASSUME Init PROVE Inv
  OBVIOUS
<1>1. /\ ds = [files |-> InitFiles, dhead |-> {}]
      /\ ses = [c \in {} |-> 0] /\ seshead = <<>> /\ epoll = {} /\ events = {}
      /\ pc = "wait" /\ job = NoJob /\ todo = <<>> /\ sinfo = NoMsg /\ out = {}
      /\ exitflag = FALSE
  BY DEF Init
<1>2. DOMAIN ses = {} /\ Sockets = {}
  BY <1>1 DEF Sockets
<1>3. ds.files = InitFiles /\ ds.dhead = {} /\ IsFiles(ds.files)
  BY <1>1, ServerAssumption
<1>4. IsStore(ds)
  BY <1>1, <1>3 DEF IsStore
<1>5. StoreSound(ds)
  BY <1>3, <1>4 DEF StoreSound, OneDsession, SingleWriter, StreamsInside
<1>6. Writers(ds) = {} /\ StreamFds(ds) = {}
  BY <1>3 DEF Writers, StreamFds
<1>7. <<>> \in Seq(Client) /\ Distinct(<<>>) /\ Elements(<<>>) = {} /\ Len(<<>>) = 0
  BY EmptySeq DEF Distinct, Elements
<1>8. job \in JobType /\ Len(job.data) <= DataLen
  BY <1>1, NoJobType
<1>9. TypeOK
  BY <1>1, <1>2, <1>4, <1>7, <1>8, NoMsgType DEF TypeOK, JobType
<1>10. ListInv
  BY <1>1, <1>2, <1>7, FS_EmptySet DEF ListInv
<1>11. SocketInv /\ JobInv /\ ListenInv /\ ResendInv
  BY <1>1, <1>2, <1>6 DEF SocketInv, JobInv, ListenInv, ResendInv
<1> QED
  BY <1>5, <1>6, <1>9, <1>10, <1>11 DEF Inv, WritersKnown

\* Every step keeps the invariant.
LEMMA NextInv == Inv /\ [Next]_vars => Inv'
<1> SUFFICES ASSUME Inv, [Next]_vars PROVE Inv'
  OBVIOUS
<1>1. CASE \E batch \in SUBSET (SvSock \cup epoll) : epoll_wait(batch)
  BY <1>1, QuietKeeps
<1>2. CASE EpollTimeout \/ ResendDone \/ CleanupDone \/ sig_handler
  BY <1>2, QuietKeeps
<1>3. CASE \E sock \in events : RecvNothing(sock) \/ \E c \in Client : Datagram(sock, c)
  <2>1. PICK sock \in events : RecvNothing(sock) \/ \E c \in Client : Datagram(sock, c)
    BY <1>3
  <2>2. CASE RecvNothing(sock)
    BY <2>2, NothingType, AnswerKeeps
  <2>3. CASE \E c \in Client : Datagram(sock, c)
    <3>1. PICK c \in Client : Datagram(sock, c)
      BY <2>3
    <3>2. pc = "recv" /\ (Visits(c) \/ Adds(c) \/ Answers)
      BY <3>1, DatagramShapes
    <3> QED
      BY <3>2, VisitKeeps, AddKeeps, AnswerKeeps
  <2> QED
    BY <2>1, <2>2, <2>3
<1>4. CASE get_session_data
  <2>1. pc = "get"
    BY <1>4 DEF get_session_data
  <2>2. Visits(job.cl)
    BY <1>4, GetVisits
  <2> QED
    BY <2>1, <2>2, VisitKeeps
<1>5. CASE put_session_data
  <2>1. pc = "put"
    BY <1>5 DEF put_session_data
  <2>2. Visits(job.cl)
    BY <1>5, PutVisits
  <2> QED
    BY <2>1, <2>2, VisitKeeps
<1>6. CASE update_event
  BY <1>6, UpdateKeeps
<1>7. CASE ResendSession
  BY <1>7, ResendKeeps
<1>8. CASE CleanupSession
  BY <1>8, CleanupKeeps
<1>9. CASE del_allsession \/ iwds_exit
  BY <1>9, EndKeeps
<1>10. CASE Tick
  BY <1>10, TickKeeps
<1>11. CASE UNCHANGED vars
  <2>1. TypeOK' /\ StoreSound(ds') /\ WritersKnown'
    BY <1>11 DEF vars, Inv, TypeOK, WritersKnown
  <2>2. ListInv' /\ SocketInv' /\ JobInv'
    BY <1>11 DEF vars, Inv, ListInv, SocketInv, Sockets, JobInv
  <2>3. ListenInv' /\ ResendInv'
    BY <1>11 DEF vars, Inv, ListenInv, Sockets, Listened, ResendInv, Current
  <2> QED
    BY <2>1, <2>2, <2>3 DEF Inv
<1> QED
  BY <1>1, <1>2, <1>3, <1>4, <1>5, <1>6, <1>7, <1>8, <1>9, <1>10, <1>11
     DEF Next, Loop, Ended

\* The inductive invariant holds of the server.
THEOREM Invariance == Spec => []Inv
BY InitInv, NextInv, PTL DEF Spec

\* The server's state has its type: no buffer, message or counter leaves its
\* bounds.
THEOREM TypeCorrect == Spec => []TypeOK
<1>1. Inv => TypeOK
  BY DEF Inv
<1> QED
  BY <1>1, Invariance, PTL

\* create_session, del_session and the loops over the list: the list holds
\* every session once, the loops reach no deleted session, and no two sessions
\* or streams share a descriptor.
THEOREM SessionListSoundHolds == Spec => []SessionListSound
<1>1. Inv => SessionListSound
  <2> SUFFICES ASSUME Inv PROVE SessionListSound
    OBVIOUS
  <2>1. DOMAIN seshead = 1 .. Len(seshead) /\ DOMAIN todo = 1 .. Len(todo)
    BY LenProperties DEF Inv, TypeOK
  <2> QED
    BY <2>1 DEF Inv, ListInv, SocketInv, SessionListSound, Elements
<1> QED
  BY <1>1, Invariance, PTL

\* update_event runs only after a batch, and sessions change in other places
\* too: all the same the server listens to its live sessions, and to no socket
\* that is closed, whenever it is about to block.
THEOREM ListensToLiveSessionsHolds == Spec => []ListensToLiveSessions
<1>1. Inv => ListensToLiveSessions
  BY DEF Inv, ListenInv, Listened, ListensToLiveSessions
<1> QED
  BY <1>1, Invariance, PTL

\* A repetition, by the client's request or by the timer, never answers with
\* an older block than the one the session is at.
THEOREM ResendsCurrentBlockHolds == Spec => []ResendsCurrentBlock
<1>1. Inv => ResendsCurrentBlock
  BY DEF Inv, ResendInv, Current, ResendsCurrentBlock
<1> QED
  BY <1>1, Invariance, PTL

----------------------------------------------------------------------------
(***************************************************************************)
(* The server implements the write-once store                              *)
(***************************************************************************)

\* What a step of the abstract store is made of.
LEMMA WroteRefines ==
  ASSUME NEW f \in File, NEW w \in Descriptor \cup {NoSock}, Wrote(ds, ds', f, w)
  PROVE  Contract!Next
<1>1. Contract!Write(f, w)
  BY DEF Wrote, Beginning, Contract!Write, Contract!IsPrefix
<1> QED
  BY <1>1 DEF Contract!Next

\* A step of the store under a session's descriptor and name, in the abstract.
LEMMA SteppedRefines ==
  ASSUME NEW f \in File, NEW w \in Descriptor \cup {NoSock}, NEW free,
         Stepped(ds, ds', free, f, w)
  PROVE  Contract!Next \/ Still(ds, ds')
BY WroteRefines DEF Stepped

\* Every step of the server is a step of the abstract store by the session
\* whose turn it is, or a stutter.
LEMMA NextRefines ==
  ASSUME Inv, [Next]_vars
  PROVE  Contract!Next \/ Still(ds, ds')
<1>1. \A c \in DOMAIN ses :
        ses[c].filename \in File /\ ses[c].clsock \in Descriptor \cup {NoSock}
  BY SessionParts DEF Inv, TypeOK, Sound
<1>2. ASSUME NEW c, Visits(c)
      PROVE  Contract!Next \/ Still(ds, ds')
  <2>1. c \in DOMAIN ses /\ Stepped(ds, ds', Free, ses[c].filename, ses[c].clsock)
    BY <1>2 DEF Visits
  <2> QED
    BY <1>1, <2>1, SteppedRefines
<1>3. CASE UNCHANGED ds
  BY <1>3 DEF Still
<1>4. CASE \E sock \in events : RecvNothing(sock) \/ \E c \in Client : Datagram(sock, c)
  <2>1. PICK sock \in events : RecvNothing(sock) \/ \E c \in Client : Datagram(sock, c)
    BY <1>4
  <2>2. CASE RecvNothing(sock)
    BY <1>3, <2>2 DEF RecvNothing
  <2>3. CASE \E c \in Client : Datagram(sock, c)
    <3>1. PICK c \in Client : Visits(c) \/ Adds(c) \/ Answers
      BY <2>3, DatagramShapes
    <3> QED
      BY <1>2, <1>3, <3>1 DEF Adds, Answers
  <2> QED
    BY <2>1, <2>2, <2>3
<1>5. CASE get_session_data
  BY <1>2, <1>5, GetVisits
<1>6. CASE put_session_data
  BY <1>2, <1>6, PutVisits
<1>7. CASE ResendSession
  <2> DEFINE c == Head(todo)
  <2>1. c \in DOMAIN ses
    BY <1>7, Visited DEF ResendSession, Inv, TypeOK, ListInv
  <2>2. CASE ds' \in close_data(ds, ses[c])
    <3>1. Stepped(ds, ds', {}, ses[c].filename, ses[c].clsock)
      BY <2>2, CloseSteps DEF Inv
    <3> QED
      BY <1>1, <2>1, <3>1, SteppedRefines
  <2> QED
    BY <1>3, <1>7, <2>2 DEF ResendSession
<1>8. CASE iwds_exit
  <2>1. CASE ds' \in iwds_exit_step(ds)
    <3>1. PICK d \in ds.dhead :
            /\ Stepped(ds, ds', {}, d.filename, d.clid)
            /\ Still(ds, ds') \/ <<d.filename, d.clid>> \in Writers(ds)
      BY <2>1, ExitSteps DEF Inv
    <3>2. CASE <<d.filename, d.clid>> \in Writers(ds)
      <4>1. d.filename \in File /\ d.clid \in Descriptor \cup {NoSock}
        BY <3>2 DEF Inv, WritersKnown
      <4> QED
        BY <3>1, <4>1, SteppedRefines
    <3> QED
      BY <3>1, <3>2
  <2> QED
    BY <1>3, <1>8, <2>1 DEF iwds_exit
<1>9. CASE \/ \E batch \in SUBSET (SvSock \cup epoll) : epoll_wait(batch)
           \/ EpollTimeout \/ update_event \/ ResendDone \/ CleanupSession
           \/ CleanupDone \/ del_allsession \/ sig_handler \/ Tick
           \/ UNCHANGED vars
  <2>1. UNCHANGED ds
    BY <1>9 DEF epoll_wait, EpollTimeout, update_event, ResendDone, CleanupSession,
       CleanupDone, del_allsession, sig_handler, Tick, vars
  <2> QED
    BY <1>3, <2>1
<1> QED
  BY <1>4, <1>5, <1>6, <1>7, <1>8, <1>9 DEF Next, Loop, Ended

\* The server as a whole implements the write-once store for the sockets of
\* its sessions: no step, retry, time-out, failure or end of one session
\* touches a file another one created, or any file that was closed.
THEOREM Implements == Spec => ImplementsWriteOnceStore
<1>1. Init => Contract!Init
  BY DEF Init, Contract!Init, Writers
<1>2. Inv /\ [Next]_vars => [Contract!Next]_(Contract!vars)
  BY NextRefines DEF Still, Contract!vars
<1> QED
  BY <1>1, <1>2, Invariance, PTL DEF Spec, ImplementsWriteOnceStore, Contract!Spec
============================================================================
