-------------------------- MODULE TransferProofs --------------------------
(***************************************************************************)
(* That downloads and uploads are faithful, for any clients, files, sizes  *)
(* and modes, with disk faults or without.                                 *)
(*                                                                         *)
(* Downloads: the invariant TransferInv says of every session where in the *)
(* file it is: what has gone into its messages is the wire form of what    *)
(* lies before that place, and the session buffer and the stream hold what *)
(* comes next.                                                             *)
(*                                                                         *)
(* Uploads: the invariant UploadInv says of every session how much has     *)
(* come in: the file, the stream's buffer and the session buffer together  *)
(* hold what is known of the upload from it.  From that invariant follow   *)
(* what an acknowledgment promises while the upload goes on and at its     *)
(* end, and that no file mixes two uploads.                                *)
(***************************************************************************)
EXTENDS TftpServerProofs

\* The files of the start are not written to any more.
Original(f) == f \in DOMAIN InitFiles

\* `data` is the k-th block of the wire form, or as much of it as there was;
\* of a whole file all of it.
IsBlock(data, k, wire, whole) ==
  LET p   == (k - 1) * DataLen
      end == p + Len(data)
  IN  /\ Len(data) <= DataLen /\ end <= Len(wire)
      /\ data = SubSeq(wire, p + 1, end)
      /\ whole /\ Len(data) < DataLen => end = Len(wire)

\* The message a session keeps for resending is a block of its file.
Shown(x, text) ==
  LET msg == x.lastmsg IN
  msg.op = "DATA" =>
    /\ msg.k \in Nat \ {0} /\ msg.blk = msg.k % (BlkMax + 1)
    /\ IsBlock(msg.data, msg.k, Wire(x.tftpmode, text), Original(x.filename))

\* The streams of S, one or none, are readers at place p of the text of f; at
\* the end of a whole file it is the end.
StreamAt(S, p, f, text) ==
  /\ S = {} => p = 0
  /\ \A d \in S : d.mode = "r" /\ d.pos = p /\ (d.eof /\ Original(f) => p = Len(text))

\* How much of the transfer is in messages, counted on the wire; `data` is in
\* the one being made while the session is busy.
SentLen(x, data, busy) ==
  IF busy THEN (x.nblk - 1) * DataLen + Len(data) ELSE x.nblk * DataLen

\* What of `sent` is in the message being made.
Composed(x, data, sent) ==
  /\ Len(data) < DataLen
  /\ data = SubSeq(sent, (x.nblk - 1) * DataLen + 1, Len(sent))
  /\ x.fopt => data = <<>>

\* The session has taken q units of its file; S are its streams.
At(x, S, text, data, busy, q) ==
  LET sent == Lead(x.tftpmode, text, q, x.fopt) IN
  /\ Placed(text, x, q)
  /\ StreamAt(S, q + Len(x.sesbuf), x.filename, text)
  /\ Len(sent) = SentLen(x, data, busy)
  /\ busy => Composed(x, data, sent)

\* Where a session is.  Without a socket it has sent nothing and never will.
Progress(x, S, files, data, busy) ==
  /\ x.filename \in DOMAIN files
  /\ Shown(x, files[x.filename])
  /\ x.clsock = NoSock => ~busy /\ x.nblk = 0
  /\ x.clsock # NoSock =>
       /\ x.nblk \in Nat \ {0} /\ x.blknum = x.nblk % (BlkMax + 1)
       /\ x.fin => ~busy
       /\ ~x.fin => \E q \in 0 .. Len(files[x.filename]) :
                   At(x, S, files[x.filename], data, busy, q)

\* A reader with a stream of its own; the property is about these.
Reader(x) == x.req = "RRQ" /\ x.inherited = FALSE /\ x.disabled = FALSE

\* A message for c is being made.
Loading(c) == pc = "get" /\ job.cl = c

Progresses(c) == Progress(ses[c], Own(c), ds.files, job.data, Loading(c))

\* The files of the start stay as they are.
Frozen ==
  \A f \in DOMAIN InitFiles :
    f \in DOMAIN ds.files /\ \A p \in Writers(ds) : p[1] # f

\* iwds_exit runs without sessions.
Ending == pc \in {"exiting", "exited"} => DOMAIN ses = {}

TransferInv ==
  /\ Frozen /\ Ending
  /\ \A c \in DOMAIN ses : Reader(ses[c]) => Progresses(c)

----------------------------------------------------------------------------
(***************************************************************************)
(* Reading                                                                 *)
(***************************************************************************)

\* A stream d of the text was read up to `end`.
ReadTo(s, d, r, text, end) ==
  \E e \in DSession :
    /\ d.pos <= end /\ end <= Len(text) /\ r.data = SubSeq(text, d.pos + 1, end)
    /\ r.ds.files = s.files /\ r.ds.dhead = (s.dhead \ {d}) \cup {e}
    /\ e.clid = d.clid /\ e.filename = d.filename /\ e.mode = "r" /\ e.pos = end
    /\ ~d.eof /\ (e.eof \/ end = d.pos) => end = Len(text)
    /\ d.eof => end = d.pos

\* What a reader's fread returns, and where it leaves the stream.
LEMMA FreadIs ==
  ASSUME NEW s, StoreSound(s), NEW d, Fits(s, d), d.mode = "r",
         NEW r \in Fread(s, d), r.derr = "OK",
         NEW text, text = s.files[d.filename]
  PROVE  \E end \in Nat : ReadTo(s, d, r, text, end)
<1> DEFINE n == Len(text)
           end == IF d.eof THEN d.pos
                  ELSE IF d.pos + BufSize <= n THEN d.pos + BufSize
                  ELSE n
           b == end < d.pos + BufSize
           e == [d EXCEPT !.pos = end, !.eof = b]
           u == Replaced(s, d, e)
           data == SubSeq(text, d.pos + 1, end)
           A == {[ds |-> u, data |-> data, derr |-> "OK"] :
                   x \in IF d.mode = "r" THEN {0} ELSE {}}
           B == {[ds |-> v, data |-> <<>>, derr |-> "READFAIL"] :
                   v \in IF d.mode = "w" \/ IoFaults THEN del_dsession(s, d) ELSE {}}
<1>1. r \in A \/ r \in B
  <2> DEFINE v == s.files[d.filename]
  <2>1. v = text
    OBVIOUS
  <2> QED
    BY <2>1 DEF Fread
<1>2. r \notin B
  OBVIOUS
<1>3. r.ds = u /\ r.data = data
  BY <1>1, <1>2
<1>4. /\ text \in Seq(Unit) /\ d.pos \in Nat /\ BufSize \in Nat \ {0}
      /\ d.pos <= n /\ d \in DSession
  BY StoreAssumption DEF StoreSound, IsStore, IsFiles, Fits, DSession
<1>5. n \in Nat
  BY <1>4, LenProperties
<1> HIDE DEF n
<1>6. end \in Nat /\ d.pos <= end /\ end <= n /\ b \in BOOLEAN
  BY <1>4, <1>5
<1>7. (~d.eof /\ (b \/ end = d.pos) => end = n) /\ (d.eof => end = d.pos)
  BY <1>4, <1>5
<1> HIDE DEF end, b
<1>8. /\ e \in DSession /\ e.clid = d.clid /\ e.filename = d.filename
      /\ e.mode = "r" /\ e.pos = end /\ e.eof = b
  BY <1>4, <1>6 DEF DSession
<1> HIDE DEF e
<1>9. r.ds.files = s.files /\ r.ds.dhead = (s.dhead \ {d}) \cup {e}
  BY <1>3 DEF Replaced
<1> HIDE DEF A, B, u
<1>10. /\ d.pos <= end /\ end <= Len(text) /\ r.data = SubSeq(text, d.pos + 1, end)
       /\ ~d.eof /\ (e.eof \/ end = d.pos) => end = Len(text)
       /\ d.eof => end = d.pos
  BY <1>3, <1>6, <1>7, <1>8 DEF n
<1> QED
  BY <1>6, <1>8, <1>9, <1>10 DEF ReadTo

\* A stream of the text at p, just opened or not, was read up to `end`.
ReadFrom(s, id, f, r, text, p, end) ==
  /\ r.ds.files = s.files
  /\ p <= end /\ end <= Len(text) /\ r.data = SubSeq(text, p + 1, end)
  /\ StreamAt(get_dsession(r.ds, id, f), end, f, text)
  /\ end = p /\ Original(f) => p = Len(text)

\* iwds_read, where the stream may have to be opened first.
LEMMA ReadIs ==
  ASSUME NEW s, StoreSound(s), NEW id \in Int, NEW f \in DOMAIN s.files,
         NEW free \in SUBSET Descriptor, NEW p \in Nat,
         NEW text, text = s.files[f],
         StreamAt(get_dsession(s, id, f), p, f, text),
         NEW r \in iwds_read(s, id, f, free), r.derr = "OK"
  PROVE  \E end \in Nat : ReadFrom(s, id, f, r, text, p, end)
<1> DEFINE old == get_dsession(s, id, f)
<1>1. f \in File
  BY DEF StoreSound, IsStore, IsFiles
<1>2. PICK d : /\ Fits(s, d) /\ d.clid = id /\ d.filename = f /\ d.mode = "r"
               /\ d.pos = p /\ r \in Fread(s, d) /\ old \ {d} = {}
               /\ d.eof /\ Original(f) => p = Len(text)
  <2>1. CASE \E d \in old : r \in Fread(s, d)
    <3>1. PICK d \in old : r \in Fread(s, d)
      BY <2>1
    <3>2. Fits(s, d) /\ d.clid = id /\ d.filename = f
      BY <3>1, FitsOld DEF get_dsession
    <3>3. old \ {d} = {}
      BY <3>1 DEF StoreSound, OneDsession, get_dsession
    <3>4. d.mode = "r" /\ d.pos = p /\ (d.eof /\ Original(f) => p = Len(text))
      BY <3>1 DEF StreamAt
    <3> QED
      BY <3>1, <3>2, <3>3, <3>4
  <2>2. CASE old = {} /\ \E d \in create_dsession(id, f, "r", free) : r \in Fread(s, d)
    <3>1. PICK d \in create_dsession(id, f, "r", free) : r \in Fread(s, d)
      BY <2>2
    <3>2. Fits(s, d)
      BY <2>2, FitsNewReader
    <3>3. /\ d.clid = id /\ d.filename = f /\ d.mode = "r" /\ d.pos = 0 /\ ~d.eof
      BY <1>1, CreateType
    <3>4. p = 0
      BY <2>2 DEF StreamAt
    <3> QED
      BY <2>2, <3>1, <3>2, <3>3, <3>4
  <2>3. \/ r.derr # "OK"
        \/ \E d \in old : r \in Fread(s, d)
        \/ old = {} /\ \E d \in create_dsession(id, f, "r", free) : r \in Fread(s, d)
    BY DEF iwds_read, is_dsfile
  <2> QED
    BY <2>1, <2>2, <2>3
<1>3. PICK end \in Nat : ReadTo(s, d, r, text, end)
  BY <1>2, FreadIs
<1>4. PICK e \in DSession :
           /\ p <= end /\ end <= Len(text)
           /\ r.data = SubSeq(text, p + 1, end)
           /\ r.ds.files = s.files /\ r.ds.dhead = (s.dhead \ {d}) \cup {e}
           /\ e.clid = id /\ e.filename = f /\ e.mode = "r"
           /\ e.pos = end
           /\ ~d.eof /\ (e.eof \/ end = p) => end = Len(text)
           /\ d.eof => end = p
  BY <1>2, <1>3 DEF ReadTo
<1>5. get_dsession(r.ds, id, f) = {e}
  BY <1>2, <1>4 DEF get_dsession
<1>6. Original(f) /\ (e.eof \/ end = p) => end = Len(text)
  BY <1>2, <1>4
<1>7. StreamAt(get_dsession(r.ds, id, f), end, f, text)
  BY <1>4, <1>5, <1>6 DEF StreamAt
<1> QED
  BY <1>4, <1>6, <1>7 DEF ReadFrom

\* What a turn of get_session_data finds in the buffer: it is in its place.
LEMMA LoadedIs ==
  ASSUME StoreSound(ds), NEW x, Sound(x), NEW text,
         x.filename \in DOMAIN ds.files, text = ds.files[x.filename],
         NEW q \in Nat, Placed(text, x, q), NEW p, p = q + Len(x.sesbuf),
         StreamAt(get_dsession(ds, x.clsock, x.filename), p, x.filename, text),
         NEW r \in Loaded(ds, x, Free), r.ok
  PROVE  /\ r.ds.files = ds.files
         /\ \E u \in Seq(Unit) : r.ses = [x EXCEPT !.sesbuf = u]
         /\ Placed(text, r.ses, q)
         /\ \E m \in Nat :
              /\ m = q + Len(r.ses.sesbuf)
              /\ StreamAt(get_dsession(r.ds, x.clsock, x.filename), m, x.filename, text)
         /\ r.ses.sesbuf = <<>> =>
              ~x.fopt /\ (Original(x.filename) => q = Len(text))
<1> DEFINE f == x.filename
           id == x.clsock
<1>1. /\ x.sesbuf \in Seq(Unit) /\ Len(x.sesbuf) \in Nat /\ p \in Nat
      /\ f \in File /\ id \in Int /\ x \in Session
  BY SessionParts, LenProperties DEF Sound
<1>2. CASE x.sesbuf # <<>>
  <2>1. r = [ds |-> ds, ses |-> x, ok |-> TRUE]
    BY <1>2 DEF Loaded
  <2>2. r.ds = ds /\ r.ses = x /\ x = [x EXCEPT !.sesbuf = x.sesbuf]
    BY <1>1, <2>1 DEF Session
  <2> QED
    BY <1>1, <1>2, <2>2
<1>3. CASE x.sesbuf = <<>>
  <2>1. p = q /\ x.fopt = FALSE
    BY <1>1, <1>3, EmptySeq, SessionParts DEF Placed
  <2>2. r \in load_data(ds, x, Free)
    BY <1>3 DEF Loaded
  <2>3. PICK z \in iwds_read(ds, id, f, Free) :
          r \in IF z.derr = "OK"
                THEN {[ds |-> z.ds, ses |-> [x EXCEPT !.sesbuf = z.data], ok |-> TRUE]}
                ELSE {[ds |-> t, ses |-> [x EXCEPT !.sesbuf = <<>>], ok |-> FALSE] :
                        t \in close_data(z.ds, x)}
    BY <2>2 DEF load_data
  <2>4. z.derr = "OK" /\ r.ds = z.ds /\ r.ses = [x EXCEPT !.sesbuf = z.data]
    BY <2>3
  <2>5. Free \in SUBSET Descriptor
    BY DEF Free
  <2>6. PICK end \in Nat : ReadFrom(ds, id, f, z, text, q, end)
    BY <1>1, <2>1, <2>4, <2>5, ReadIs
  <2>7. /\ z.ds.files = ds.files
        /\ q <= end /\ end <= Len(text) /\ z.data = SubSeq(text, q + 1, end)
        /\ StreamAt(get_dsession(z.ds, id, f), end, f, text)
        /\ end = q /\ Original(f) => q = Len(text)
    BY <2>6 DEF ReadFrom
  <2>8. text \in Seq(Unit)
    BY DEF StoreSound, IsStore, IsFiles
  <2> DEFINE u == SubSeq(text, q + 1, end)
  <2>9. u \in Seq(Unit) /\ Len(u) = IF q + 1 <= end THEN end - (q + 1) + 1 ELSE 0
    BY <2>7, <2>8, PartType
  <2>10. Len(u) = end - q
    BY <2>7, <2>9
  <2>11. q + Len(u) = end /\ (u = <<>> => end = q)
    BY <2>7, <2>10, EmptySeq
  <2>12. z.data = u /\ (q + Len(u) <= Len(text)) /\ u = SubSeq(text, q + 1, q + Len(u))
    BY <2>7, <2>11
  <2> HIDE DEF u
  <2>13. /\ r.ses = [x EXCEPT !.sesbuf = u] /\ r.ses.sesbuf = u /\ r.ses.fopt = FALSE
    BY <1>1, <2>1, <2>4, <2>12 DEF Session
  <2>14. Placed(text, r.ses, q)
    BY <2>12, <2>13 DEF Placed
  <2> QED
    BY <2>1, <2>4, <2>7, <2>9, <2>11, <2>13, <2>14
<1> QED
  BY <1>2, <1>3

----------------------------------------------------------------------------
(***************************************************************************)
(* Numbers and blocks                                                      *)
(***************************************************************************)

\* Division with remainder.
LEMMA DivRem ==
  ASSUME NEW k \in Nat, NEW n \in Nat \ {0}
  PROVE  \E q \in Nat : k = q * n + (k % n) /\ k % n \in 0 .. n - 1
<1> DEFINE q == k \div n
<1>1. k % n \in 0 .. n - 1
  OBVIOUS
<1>2. q \in Int
  OBVIOUS
<1>3. k = n * q + (k % n)
  OBVIOUS
<1>4. k = q * n + (k % n)
  BY <1>2, <1>3
<1>5. q >= 0
  <2>1. CASE q < 0
    <3>1. PICK d \in Nat : q = - 1 - d
      BY <1>2, <2>1
    <3>2. q * n = - n - d * n /\ d * n >= 0
      BY <3>1
    <3> QED
      BY <1>1, <1>4, <3>2
  <2> QED
    BY <1>2, <2>1
<1> HIDE DEF q
<1>6. q \in Nat
  BY <1>2, <1>5
<1> QED
  BY <1>1, <1>4, <1>6

\* There is only one remainder.
LEMMA RemIs ==
  ASSUME NEW k \in Nat, NEW n \in Nat \ {0}, NEW q \in Nat, NEW r \in 0 .. n - 1,
         k = q * n + r
  PROVE  k % n = r
<1>1. PICK p \in Nat : k = p * n + (k % n) /\ k % n \in 0 .. n - 1
  BY DivRem
<1> DEFINE s == k % n
<1> HIDE DEF s
<1>2. s \in 0 .. n - 1 /\ p * n + s = q * n + r
  BY <1>1 DEF s
<1>3. p = q
  <2>1. CASE p > q
    <3>1. PICK d \in Nat : p = q + 1 + d
      BY <2>1
    <3>2. p * n = q * n + n + d * n /\ d * n >= 0
      BY <3>1
    <3> QED
      BY <1>2, <3>2
  <2>2. CASE q > p
    <3>1. PICK d \in Nat : q = p + 1 + d
      BY <2>2
    <3>2. q * n = p * n + n + d * n /\ d * n >= 0
      BY <3>1
    <3> QED
      BY <1>2, <3>2
  <2> QED
    BY <2>1, <2>2
<1> QED
  BY <1>2, <1>3 DEF s

\* The next block number on the wire is the one of the next block.
LEMMA NextBlkIs ==
  ASSUME NEW k \in Nat, NEW b, b = k % (BlkMax + 1), NEW m, m = k + 1
  PROVE  NextBlk(b) = m % (BlkMax + 1)
<1> DEFINE n == BlkMax + 1
<1>1. n \in Nat \ {0} /\ n > 2 /\ BlkMax = n - 1
  BY Bounds
<1> HIDE DEF n
<1>2. PICK q \in Nat : k = q * n + (k % n) /\ k % n \in 0 .. n - 1
  BY <1>1, DivRem
<1>3. b = k % n
  BY DEF n
<1>4. b \in 0 .. n - 1 /\ k = q * n + b /\ m \in Nat
  BY <1>2, <1>3
<1>5. \A a \in Nat, r \in 0 .. n - 1 : m = a * n + r => m % n = r
  BY <1>1, <1>4, RemIs
<1> DEFINE p == q + 1
           c == b + 1
           z == 0
<1>6. CASE b < n - 1
  <2>1. m = q * n + c /\ c \in 0 .. n - 1
    BY <1>1, <1>4, <1>6
  <2> HIDE DEF c
  <2>2. m % n = c
    BY <1>5, <2>1
  <2> QED
    BY <1>1, <1>6, <2>2 DEF NextBlk, n, c
<1>7. CASE b = n - 1
  <2>1. m = p * n + z /\ p \in Nat /\ z \in 0 .. n - 1
    BY <1>1, <1>4, <1>7
  <2> HIDE DEF p, z
  <2>2. m % n = z
    BY <1>5, <2>1
  <2> QED
    BY <1>1, <1>7, <2>2 DEF NextBlk, n, z
<1>8. b < n - 1 \/ b = n - 1
  BY <1>1, <1>4
<1> QED
  BY <1>6, <1>7, <1>8

\* A sequence and a longer one agree where both are.
LEMMA PartGrows ==
  ASSUME NEW u \in Seq(Unit), NEW v \in Seq(Unit), Beginning(u, v),
         NEW a \in Nat \ {0}, NEW b \in Int, b <= Len(u)
  PROVE  SubSeq(v, a, b) = SubSeq(u, a, b)
<1>1. Len(u) \in Nat /\ Len(v) \in Nat /\ Len(u) <= Len(v)
  BY LenProperties DEF Beginning
<1>2. \A i \in 1 .. Len(u) : v[i] = u[i]
  <2>1. Upto(u, Len(u)) = Upto(v, Len(u))
    BY DEF Beginning, Upto
  <2>2. Len(u) \in 0 .. Len(u) /\ Len(u) \in 0 .. Len(v)
    BY <1>1
  <2> QED
    BY <2>1, <2>2, UptoElements
<1>3. \A i \in a .. b : u[i] \in Unit /\ v[i] = u[i]
  BY <1>1, <1>2, ElementOfSeq
<1>4. /\ SubSeq(u, a, b) \in Seq(Unit)
      /\ Len(SubSeq(u, a, b)) = IF a <= b THEN b - a + 1 ELSE 0
      /\ \A i \in 1 .. b - a + 1 : SubSeq(u, a, b)[i] = u[a + i - 1]
  BY <1>3, SubSeqProperties
<1>5. /\ SubSeq(v, a, b) \in Seq(Unit)
      /\ Len(SubSeq(v, a, b)) = IF a <= b THEN b - a + 1 ELSE 0
      /\ \A i \in 1 .. b - a + 1 : SubSeq(v, a, b)[i] = v[a + i - 1]
  BY <1>3, SubSeqProperties
<1> DEFINE w == SubSeq(u, a, b)
           z == SubSeq(v, a, b)
<1> HIDE DEF w, z
<1>6. \A i \in 1 .. Len(w) : w[i] = z[i]
  <2> SUFFICES ASSUME NEW i \in 1 .. Len(w) PROVE w[i] = z[i]
    OBVIOUS
  <2>1. i \in 1 .. b - a + 1 /\ a + i - 1 \in a .. b
    BY <1>4 DEF w
  <2> QED
    BY <1>3, <1>4, <1>5, <2>1 DEF w, z
<1>7. w = z
  BY <1>4, <1>5, <1>6, SeqEqual DEF w, z
<1> QED
  BY <1>7 DEF w, z

\* Sequences that continue a third to the same are the same.
LEMMA CancelLeft ==
  ASSUME NEW h \in Seq(Unit), NEW y \in Seq(Unit), NEW z \in Seq(Unit),
         h \o y = h \o z
  PROVE  y = z
<1> DEFINE n == Len(h)
<1>1. /\ n \in Nat /\ Len(y) \in Nat /\ Len(z) \in Nat
      /\ n + Len(y) = n + Len(z)
  <2>1. Len(h \o y) = n + Len(y) /\ Len(h \o z) = n + Len(z)
    BY UptoConcat
  <2> QED
    BY <2>1, LenProperties
<1>2. /\ \A i \in 1 .. n + Len(y) : (h \o y)[i] = IF i <= n THEN h[i] ELSE y[i - n]
      /\ \A i \in 1 .. n + Len(z) : (h \o z)[i] = IF i <= n THEN h[i] ELSE z[i - n]
  BY ConcatProperties
<1> HIDE DEF n
<1>3. Len(y) = Len(z)
  BY <1>1
<1>4. \A i \in 1 .. Len(y) : y[i] = z[i]
  <2> SUFFICES ASSUME NEW i \in 1 .. Len(y) PROVE y[i] = z[i]
    OBVIOUS
  <2> DEFINE j == n + i
  <2>1. j \in 1 .. n + Len(y) /\ j \in 1 .. n + Len(z) /\ ~(j <= n) /\ j - n = i
    BY <1>1
  <2> HIDE DEF j
  <2>2. (h \o y)[j] = y[i] /\ (h \o z)[j] = z[i]
    BY <1>2, <2>1
  <2> QED
    BY <2>2
<1> QED
  BY <1>3, <1>4, SeqEqual

\* The end of a sequence that is continued.
LEMMA TailConcat ==
  ASSUME NEW s \in Seq(Unit), NEW v \in Seq(Unit), NEW a \in Nat \ {0},
         a <= Len(s) + 1
  PROVE  SubSeq(s, a, Len(s)) \o v = SubSeq(s \o v, a, Len(s \o v))
<1> DEFINE n == a - 1
           l == Len(s)
<1>1. l \in Nat /\ n \in 0 .. l /\ n \in Nat /\ a = n + 1
  <2>1. l \in Nat
    BY LenProperties
  <2>2. a <= l + 1
    OBVIOUS
  <2> HIDE DEF l
  <2> QED
    BY <2>1, <2>2
<1> HIDE DEF n
<1> DEFINE u == SubSeq(s, n + 1, l)
           h == Upto(s, n)
           w == s \o v
           z == SubSeq(w, n + 1, Len(w))
<1>2. h \in Seq(Unit) /\ Len(h) = n /\ u \in Seq(Unit) /\ s = h \o u
  BY <1>1, UptoSplit, UptoType
<1>3. w \in Seq(Unit) /\ Len(w) \in Nat /\ n <= Len(w)
  <2>1. w \in Seq(Unit) /\ Len(w) = Len(s) + Len(v) /\ Len(v) \in Nat
    BY UptoConcat, LenProperties
  <2> HIDE DEF w
  <2> QED
    BY <1>1, <2>1
<1> HIDE DEF h
<1>4. u \o v \in Seq(Unit) /\ w = h \o (u \o v)
  <2>1. u \o v \in Seq(Unit)
    BY <1>2, UptoConcat
  <2>2. h \in Seq(Unit) /\ u \in Seq(Unit)
    BY <1>2
  <2>3. Rejoins(h, u, v)
    BY <2>2, Rejoined
  <2> QED
    BY <1>2, <2>1, <2>3 DEF Rejoins
<1>5. Upto(w, n) = h
  BY <1>2, <1>4, UptoConcat
<1> HIDE DEF w
<1>6. n \in 0 .. Len(w)
  BY <1>1, <1>3
<1>7. z \in Seq(Unit) /\ h \o z = w
  BY <1>3, <1>5, <1>6, UptoSplit
<1> HIDE DEF z
<1>8. z = u \o v
  <2> DEFINE y == u \o v
  <2>1. h \in Seq(Unit) /\ y \in Seq(Unit) /\ z \in Seq(Unit) /\ h \o y = h \o z
    BY <1>2, <1>4, <1>7
  <2> HIDE DEF y
  <2>2. y = z
    BY <2>1, CancelLeft
  <2> QED
    BY <2>2 DEF y
<1> QED
  BY <1>1, <1>8 DEF z, w, u, l

\* A text that grows grows on the wire.
LEMMA WireGrows ==
  ASSUME NEW mode, NEW u \in Seq(Unit), NEW v \in Seq(Unit), Beginning(u, v)
  PROVE  Beginning(Wire(mode, u), Wire(mode, v))
<1> DEFINE q == Len(u)
           n == Len(v)
<1>1. q \in Nat /\ n \in Nat /\ q <= n /\ n <= Len(v)
  BY LenProperties DEF Beginning
<1>2. Upto(u, q) = u /\ Upto(v, n) = v /\ Upto(u, q) = Upto(v, q)
  BY UptoAll DEF Beginning, Upto
<1> HIDE DEF q, n
<1>3. Beginning(Wire(mode, Upto(v, q)), Wire(mode, Upto(v, n)))
  BY <1>1, WireBeginning
<1> QED
  BY <1>2, <1>3

\* Nothing of a text is nothing on the wire.
LEMMA LeadNone ==
  ASSUME NEW mode, NEW text
  PROVE  Upto(text, 0) = <<>> /\ Lead(mode, text, 0, FALSE) = <<>>
<1>1. Upto(text, 0) = <<>>
  BY SubSeqEmpty DEF Upto
<1>2. Wire(mode, <<>>) = <<>>
  <2> DEFINE p == [i \in 1 .. Len(<<>>) |->
                     IF <<>>[i] = LF THEN <<CR, LF>> ELSE <<<<>>[i]>>]
  <2>1. Len(<<>>) = 0 /\ <<>> \in Seq(Unit)
    BY EmptySeq
  <2>2. p = <<>>
    BY <2>1
  <2> HIDE DEF p
  <2>3. FlattenSeq(p) = p
    BY <2>1, <2>2 DEF FlattenSeq
  <2>4. Wire(mode, <<>>) = IF mode = "netascii" THEN FlattenSeq(p) ELSE <<>>
    BY DEF Wire, p
  <2> QED
    BY <2>2, <2>3, <2>4
<1>3. <<>> \o <<>> = <<>>
  BY EmptySeq, ConcatEmptySeq
<1> QED
  BY <1>1, <1>2, <1>3 DEF Lead

\* A block stays one while its file grows.
LEMMA BlockGrows ==
  ASSUME NEW data \in Seq(Unit), NEW k \in Nat \ {0},
         NEW u \in Seq(Unit), NEW v \in Seq(Unit), Beginning(u, v),
         NEW whole \in BOOLEAN, whole => u = v, IsBlock(data, k, u, whole)
  PROVE  IsBlock(data, k, v, whole)
<1> DEFINE p == (k - 1) * DataLen
           end == p + Len(data)
           a == p + 1
<1>1. p \in Nat /\ Len(data) \in Nat /\ Len(u) \in Nat /\ Len(v) \in Nat
      /\ Len(u) <= Len(v)
  BY Bounds, LenProperties DEF Beginning
<1>2. /\ Len(data) <= DataLen /\ end <= Len(u) /\ data = SubSeq(u, a, end)
      /\ whole /\ Len(data) < DataLen => end = Len(u)
  BY DEF IsBlock
<1> HIDE DEF p
<1>3. a \in Nat \ {0} /\ end \in Int
  BY <1>1
<1> HIDE DEF a, end
<1>4. SubSeq(v, a, end) = SubSeq(u, a, end)
  BY <1>2, <1>3, PartGrows
<1>5. /\ Len(data) <= DataLen /\ end <= Len(v) /\ data = SubSeq(v, a, end)
      /\ whole /\ Len(data) < DataLen => end = Len(v)
  BY <1>1, <1>2, <1>3, <1>4
<1> QED
  BY <1>5 DEF IsBlock, p, end, a

\* The message that has been made of what is `sent` is a block.
LEMMA BlockMade ==
  ASSUME NEW data \in Seq(Unit), NEW k \in Nat \ {0},
         NEW sent \in Seq(Unit), NEW wire \in Seq(Unit), Beginning(sent, wire),
         Len(data) <= DataLen,
         Len(sent) = (k - 1) * DataLen + Len(data),
         data = SubSeq(sent, (k - 1) * DataLen + 1, Len(sent)),
         NEW whole \in BOOLEAN, whole /\ Len(data) < DataLen => sent = wire
  PROVE  IsBlock(data, k, wire, whole)
<1>1. IsBlock(data, k, sent, FALSE)
  <2> DEFINE p == (k - 1) * DataLen
             l == Len(data)
             n == Len(sent)
  <2>1. p \in Nat
    BY Bounds
  <2>2. n \in Nat /\ l \in Nat
    BY LenProperties
  <2>3. n = p + l /\ data = SubSeq(sent, p + 1, n)
    OBVIOUS
  <2> HIDE DEF p, l, n
  <2>4. p + l = n /\ p + l <= n
    BY <2>1, <2>2, <2>3
  <2>5. data = SubSeq(sent, p + 1, p + l)
    BY <2>3, <2>4
  <2>6. l <= DataLen
    BY DEF l
  <2> QED
    BY <2>4, <2>5, <2>6 DEF IsBlock, p, l, n
<1>2. IsBlock(data, k, wire, FALSE)
  BY <1>1, BlockGrows
<1> QED
  BY <1>2 DEF IsBlock

\* The k-th block of a text is what it says: all of it when the file is whole,
\* a beginning of it else.
LEMMA BlockExact ==
  ASSUME NEW data \in Seq(Unit), NEW k \in Nat \ {0}, NEW wire \in Seq(Unit),
         NEW whole \in BOOLEAN, IsBlock(data, k, wire, whole)
  PROVE  /\ whole => data = Block(wire, k)
         /\ IsPrefix(data, Block(wire, k))
<1> DEFINE p == (k - 1) * DataLen
           q == k * DataLen
           n == Len(wire)
           l == Len(data)
           end == p + l
           a == p + 1
           top == IF q <= n THEN q ELSE n
           b == SubSeq(wire, a, top)
<1>1. p \in Nat /\ q = p + DataLen /\ l \in Nat /\ n \in Nat /\ DataLen \in Nat
  BY Bounds, LenProperties
<1>2. /\ l <= DataLen /\ end <= n /\ data = SubSeq(wire, a, end)
      /\ whole /\ l < DataLen => end = n
  BY DEF IsBlock
<1>3. b = Block(wire, k)
  BY DEF Block
<1> HIDE DEF p, q, n, l
<1>4. a \in Nat \ {0} /\ end \in Int /\ top \in Int /\ end <= top /\ top <= n
  BY <1>1, <1>2
<1>5. whole => end = top
  BY <1>1, <1>2
<1>6. whole => data = b
  BY <1>2, <1>5
<1>7. top - a + 1 \in Int /\ (l > 0 => a <= end /\ a <= top) /\ l = end - a + 1
  BY <1>1, <1>4
<1>8. IsPrefix(data, b)
  <2>1. CASE l = 0
    <3>1. b \in Seq(Unit)
      BY <1>4, PartType DEF n
    <3>2. Len(b) \in Nat /\ SubSeq(data, 1, 0) = <<>> /\ SubSeq(b, 1, 0) = <<>>
      BY <3>1, LenProperties, SubSeqEmpty
    <3> HIDE DEF b
    <3> QED
      BY <2>1, <3>2 DEF IsPrefix, l
  <2>2. CASE l > 0
    <3> DEFINE m == top - a + 1
    <3>1. Len(b) = m /\ l <= m /\ 1 \in 1 .. m /\ l \in 1 .. m
          /\ a + 1 - 1 = a /\ a + l - 1 = end
      <4>1. Len(b) = IF a <= top THEN top - a + 1 ELSE 0
        BY <1>4, PartType DEF n
      <4> HIDE DEF b, top, end, a
      <4> QED
        BY <1>1, <1>4, <1>7, <2>2, <4>1
    <3>2. a \in 1 .. n /\ top \in 1 .. n
      BY <1>1, <1>4, <1>7, <2>2
    <3> HIDE DEF top, end, a, n
    <3>3. SubSeq(b, 1, l) = SubSeq(wire, a + 1 - 1, a + l - 1)
      BY <3>1, <3>2, SubSeqOfSubSeq DEF n
    <3>4. SubSeq(b, 1, l) = data
      BY <1>2, <3>1, <3>3
    <3>5. SubSeq(data, 1, l) = data
      BY SubSeqFull DEF l
    <3> HIDE DEF b
    <3> QED
      BY <3>1, <3>4, <3>5 DEF IsPrefix, l
  <2> QED
    BY <1>1, <2>1, <2>2
<1> HIDE DEF b
<1> QED
  BY <1>3, <1>6, <1>8

----------------------------------------------------------------------------
(***************************************************************************)
(* What Progress depends on                                                *)
(***************************************************************************)

\* A message that was a block of the file still is when the file has grown.
LEMMA ShownGrows ==
  ASSUME NEW x, Sound(x), NEW u \in Seq(Unit), NEW v \in Seq(Unit),
         Beginning(u, v), Original(x.filename) => v = u, Shown(x, u)
  PROVE  Shown(x, v)
<1> SUFFICES ASSUME x.lastmsg.op = "DATA"
             PROVE  /\ x.lastmsg.k \in Nat \ {0}
                    /\ x.lastmsg.blk = x.lastmsg.k % (BlkMax + 1)
                    /\ IsBlock(x.lastmsg.data, x.lastmsg.k, Wire(x.tftpmode, v),
                               Original(x.filename))
  BY DEF Shown
<1> DEFINE m == x.tftpmode
           whole == Original(x.filename)
           k == x.lastmsg.k
           data == x.lastmsg.data
<1>1. /\ k \in Nat \ {0} /\ x.lastmsg.blk = k % (BlkMax + 1)
      /\ IsBlock(data, k, Wire(m, u), whole)
  BY DEF Shown
<1>2. data \in Seq(Unit) /\ whole \in BOOLEAN
  BY SessionParts DEF Message, Original
<1>3. Wire(m, u) \in Seq(Unit) /\ Wire(m, v) \in Seq(Unit)
      /\ Beginning(Wire(m, u), Wire(m, v))
  BY WireType, WireGrows
<1>4. whole => Wire(m, u) = Wire(m, v)
  OBVIOUS
<1> HIDE DEF k, data, whole, m
<1>5. IsBlock(data, k, Wire(m, v), whole)
  BY <1>1, <1>2, <1>3, <1>4, BlockGrows
<1> QED
  BY <1>1, <1>5 DEF k, data, whole, m

\* So is what a session has taken of the file.
LEMMA AtGrows ==
  ASSUME NEW x, Sound(x), NEW S, NEW u \in Seq(Unit), NEW v \in Seq(Unit),
         Beginning(u, v), Original(x.filename) => v = u,
         NEW data, NEW busy, NEW q \in 0 .. Len(u), At(x, S, u, data, busy, q)
  PROVE  q \in 0 .. Len(v) /\ At(x, S, v, data, busy, q)
<1> DEFINE buf == x.sesbuf
           p == q + Len(buf)
<1>1. /\ Len(u) \in Nat /\ Len(v) \in Nat /\ Len(u) <= Len(v)
      /\ buf \in Seq(Unit) /\ Len(buf) \in Nat /\ q \in Nat
  BY SessionParts, LenProperties DEF Beginning
<1>2. Upto(v, q) = Upto(u, q)
  <2>1. 1 \in Nat \ {0} /\ q \in Int /\ q <= Len(u)
    BY <1>1
  <2> QED
    BY <2>1, PartGrows DEF Upto
<1>3. Lead(x.tftpmode, v, q, x.fopt) = Lead(x.tftpmode, u, q, x.fopt)
  BY <1>2 DEF Lead
<1>4. /\ p <= Len(u) /\ buf = SubSeq(u, q + 1, p)
      /\ x.fopt => x.tftpmode = "netascii" /\ buf # <<>> /\ buf[1] = LF
  BY DEF At, Placed
<1>5. SubSeq(v, q + 1, p) = SubSeq(u, q + 1, p)
  <2> DEFINE a == q + 1
  <2>1. a \in Nat \ {0} /\ p \in Int /\ p <= Len(u)
    BY <1>1, <1>4
  <2> HIDE DEF a, p
  <2>2. SubSeq(v, a, p) = SubSeq(u, a, p)
    BY <2>1, PartGrows
  <2> QED
    BY <2>2 DEF a
<1>6. p <= Len(v) /\ q <= Len(v)
  BY <1>1, <1>4
<1>7. Placed(v, x, q)
  BY <1>4, <1>5, <1>6 DEF Placed
<1>8. StreamAt(S, p, x.filename, v)
  BY DEF At, StreamAt
<1>9. q \in 0 .. Len(v)
  BY <1>1, <1>6
<1> QED
  BY <1>3, <1>7, <1>8, <1>9 DEF At

\* Where a session is does not change when only its file grows.
LEMMA ProgressGrows ==
  ASSUME NEW x, Sound(x), NEW S, NEW T, x.clsock # NoSock => T = S,
         NEW F, NEW G, NEW f, f = x.filename, f \in DOMAIN G,
         F[f] \in Seq(Unit), G[f] \in Seq(Unit),
         Beginning(F[f], G[f]), Original(f) => G[f] = F[f],
         NEW data, NEW busy \in BOOLEAN, Progress(x, S, F, data, busy)
  PROVE  Progress(x, T, G, data, busy)
<1>1. Shown(x, F[f])
  BY DEF Progress
<1>2. Shown(x, G[f])
  BY <1>1, ShownGrows
<1>3. ASSUME x.clsock # NoSock, ~x.fin
      PROVE  \E q \in 0 .. Len(G[f]) : At(x, T, G[f], data, busy, q)
  <2>1. PICK q \in 0 .. Len(F[f]) : At(x, S, F[f], data, busy, q)
    BY <1>3 DEF Progress
  <2>2. q \in 0 .. Len(G[f]) /\ At(x, S, G[f], data, busy, q)
    BY <2>1, AtGrows
  <2> QED
    BY <1>3, <2>2
<1> QED
  BY <1>2, <1>3 DEF Progress

\* y has come as far as x.
Alike(x, y) ==
  /\ y.filename = x.filename /\ y.tftpmode = x.tftpmode /\ y.clsock = x.clsock
  /\ y.nblk = x.nblk /\ y.blknum = x.blknum /\ y.lastmsg = x.lastmsg
  /\ y.fin = x.fin /\ y.sesbuf = x.sesbuf /\ y.fopt = x.fopt

\* y is through, where x was.
EndsAs(x, y) ==
  /\ y.filename = x.filename /\ y.tftpmode = x.tftpmode /\ y.clsock = x.clsock
  /\ y.nblk = x.nblk /\ y.blknum = x.blknum /\ y.lastmsg = x.lastmsg
  /\ y.fin = TRUE

\* Timers, counts and registration do not matter; and while no message is
\* being made, neither does `data`.
LEMMA ProgressAlike ==
  ASSUME NEW x, NEW y, Alike(x, y), NEW S, NEW F, NEW data, NEW d,
         Progress(x, S, F, data, FALSE)
  PROVE  Progress(y, S, F, d, FALSE)
BY DEF Alike, Progress, Shown, At, Placed, SentLen

\* A session that is through needs no stream.
LEMMA ProgressEnds ==
  ASSUME NEW x, NEW y, EndsAs(x, y), NEW S, NEW T, NEW F, NEW data, NEW d,
         NEW busy, Progress(x, S, F, data, busy)
  PROVE  Progress(y, T, F, d, FALSE)
BY DEF EndsAs, Progress, Shown

\* The next block is asked for.
LEMMA ProgressAdvances ==
  ASSUME NEW x, Sound(x), NEW S, NEW F, F[x.filename] \in Seq(Unit),
         NEW data, Progress(x, S, F, data, FALSE),
         x.clsock # NoSock, x.fin = FALSE
  PROVE  Progress(Advanced(x), S, F, <<>>, TRUE)
<1> DEFINE y == Advanced(x)
           text == F[x.filename]
<1>1. x \in Session /\ x.nblk \in Nat /\ x.blknum = x.nblk % (BlkMax + 1)
  BY SessionParts DEF Sound, Progress
<1>2. /\ y.filename = x.filename /\ y.tftpmode = x.tftpmode /\ y.clsock = x.clsock
      /\ y.lastmsg = x.lastmsg /\ y.fin = x.fin /\ y.sesbuf = x.sesbuf
      /\ y.fopt = x.fopt /\ y.nblk = x.nblk + 1 /\ y.blknum = NextBlk(x.blknum)
  BY <1>1 DEF Advanced, Session
<1> HIDE DEF y
<1>3. y.nblk \in Nat \ {0} /\ y.blknum = y.nblk % (BlkMax + 1)
  <2> DEFINE m == y.nblk
             b == x.blknum
  <2>1. m = x.nblk + 1 /\ b = x.nblk % (BlkMax + 1) /\ m \in Nat \ {0}
    BY <1>1, <1>2
  <2> HIDE DEF m, b
  <2>2. NextBlk(b) = m % (BlkMax + 1)
    BY <1>1, <2>1, NextBlkIs
  <2> QED
    BY <1>2, <2>1, <2>2 DEF m, b
<1>4. PICK q \in 0 .. Len(text) : At(x, S, text, data, FALSE, q)
  BY DEF Progress
<1> DEFINE sent == Lead(x.tftpmode, text, q, x.fopt)
           n == x.nblk * DataLen
<1>5. Placed(text, x, q) /\ StreamAt(S, q + Len(x.sesbuf), x.filename, text)
      /\ Len(sent) = n
  BY <1>4 DEF At, SentLen
<1>6. y.nblk - 1 = x.nblk
  BY <1>1, <1>2
<1>7. n \in Nat /\ Len(<<>>) = 0 /\ 0 < DataLen
  BY <1>1, Bounds, BufferAssumption, EmptySeq
<1> HIDE DEF n, text
<1>8. SentLen(y, <<>>, TRUE) = n
  BY <1>6, <1>7 DEF SentLen, n
<1>9. SubSeq(sent, n + 1, Len(sent)) = <<>>
  <2> DEFINE a == n + 1
  <2>1. a \in Nat /\ n \in Int /\ n < a
    BY <1>7
  <2> HIDE DEF a
  <2>2. SubSeq(sent, a, n) = <<>>
    BY <2>1, SubSeqEmpty
  <2> QED
    BY <1>5, <2>2 DEF a
<1>10. Composed(y, <<>>, sent)
  BY <1>6, <1>7, <1>9 DEF Composed, n
<1>11. Placed(text, y, q)
  BY <1>2, <1>5 DEF Placed
<1>12. Lead(y.tftpmode, text, q, y.fopt) = sent
       /\ StreamAt(S, q + Len(y.sesbuf), y.filename, text)
  BY <1>2, <1>5
<1> HIDE DEF sent
<1>13. At(y, S, text, <<>>, TRUE, q)
  BY <1>5, <1>8, <1>10, <1>11, <1>12 DEF At
<1>14. Shown(y, text)
  BY <1>2 DEF Progress, Shown, text
<1> QED
  BY <1>2, <1>3, <1>4, <1>13, <1>14 DEF Progress, text, y

----------------------------------------------------------------------------
(***************************************************************************)
(* A turn of get_session_data                                              *)
(***************************************************************************)

\* x has taken p units, and the message being made holds `data` of them.
Made(x, text, data, p) ==
  LET sent == Lead(x.tftpmode, text, p, x.fopt) IN
  /\ Placed(text, x, p)
  /\ Len(sent) = (x.nblk - 1) * DataLen + Len(data)
  /\ data = SubSeq(sent, (x.nblk - 1) * DataLen + 1, Len(sent))

\* The same, and the streams S are where the buffer of x ends.
Placing(x, S, text, data, p) ==
  /\ p <= Len(text) /\ Made(x, text, data, p)
  /\ StreamAt(S, p + Len(x.sesbuf), x.filename, text)

Place(x, S, text, data) == \E p \in Nat : Placing(x, S, text, data, p)

\* The turn t makes `data` of `old` and y of x.
Taking(x, old, t, data, y) ==
  /\ t = Taken(x, DataLen - Len(old)) /\ data = old \o t.data
  /\ y.tftpmode = x.tftpmode /\ y.nblk = x.nblk /\ y.filename = x.filename
  /\ y.sesbuf = t.sesbuf /\ y.fopt = t.fopt

\* What a turn takes from the buffer comes next on the wire, and a CR without
\* its LF ends the block.
LEMMA TurnTakes ==
  ASSUME NEW x, Sound(x), x.sesbuf # <<>>, x.nblk \in Nat \ {0},
         NEW text \in Seq(Unit), NEW old \in Seq(Unit), Len(old) < DataLen,
         x.fopt => old = <<>>, NEW S, Place(x, S, text, old),
         NEW t, NEW data, NEW y, Taking(x, old, t, data, y)
  PROVE  (y.fopt => Len(data) = DataLen) /\ Place(y, S, text, data)
<1>0. PICK q \in Nat : Placing(x, S, text, old, q)
  BY DEF Place
<1> DEFINE room == DataLen - Len(old)
           m == x.tftpmode
           sent == Lead(m, text, q, x.fopt)
           n == (x.nblk - 1) * DataLen
<1>1. /\ x.sesbuf \in Seq(Unit) /\ x.fopt \in BOOLEAN
      /\ DataLen \in Nat /\ DataLen > 1 /\ n \in Nat
      /\ Len(old) \in Nat /\ q \in 0 .. Len(text) /\ Made(x, text, old, q)
  <2>1. q <= Len(text) /\ Made(x, text, old, q)
    BY <1>0 DEF Placing
  <2>2. x.nblk - 1 \in Nat /\ DataLen \in Nat /\ DataLen > 1
    BY Bounds, BufferAssumption
  <2>3. n \in Nat
    BY <2>2
  <2> HIDE DEF n, sent
  <2>4. x.sesbuf \in Seq(Unit) /\ x.fopt \in BOOLEAN
    BY SessionParts
  <2>5. Len(old) \in Nat /\ q \in 0 .. Len(text)
    BY <2>1, LenProperties
  <2> QED
    BY <2>1, <2>2, <2>3, <2>4, <2>5
<1>20. /\ t = Taken(x, DataLen - Len(old)) /\ data = old \o t.data
       /\ y.tftpmode = x.tftpmode /\ y.nblk = x.nblk /\ y.filename = x.filename
       /\ y.sesbuf = t.sesbuf /\ y.fopt = t.fopt
  BY DEF Taking
<1>2. room \in Nat \ {0} /\ (x.fopt => room > 1)
  BY <1>1, EmptySeq
<1>3. t.data \in Seq(Unit) /\ t.fopt \in BOOLEAN /\ t.sesbuf \in Seq(Unit)
  <2>1. room \in Nat
    BY <1>2
  <2>2. t = Taken(x, room)
    BY <1>20
  <2> HIDE DEF room
  <2> QED
    BY <1>1, <2>1, <2>2, TakenType
<1>4. /\ t.fopt => Len(t.data) = room
      /\ \E p \in Nat : Onward(x, text, q, t, y, p)
  <2>1. Placed(text, x, q) /\ Turn(x, room, t, y)
    BY <1>1, <1>2, <1>20 DEF Made, Turn
  <2>2. room \in Nat \ {0} /\ x.sesbuf \in Seq(Unit) /\ x.fopt \in BOOLEAN
    BY <1>1, <1>2
  <2> HIDE DEF room
  <2> QED
    BY <2>1, <2>2, TakenPlaced
<1>5. sent \in Seq(Unit) /\ Len(sent) \in Nat
  BY <1>1, LeadType, LenProperties
<1>6. Len(sent) = n + Len(old) /\ old = SubSeq(sent, n + 1, Len(sent))
  BY <1>1 DEF Made
<1>7. PICK p \in Nat :
           /\ Placed(text, y, p) /\ p + Len(y.sesbuf) = q + Len(x.sesbuf)
           /\ Lead(m, text, p, t.fopt) = sent \o t.data
  BY <1>4 DEF Onward
<1> HIDE DEF n, sent
<1>8. /\ Len(data) = Len(old) + Len(t.data) /\ Len(t.data) \in Nat
      /\ Len(sent \o t.data) = Len(sent) + Len(t.data)
  BY <1>3, <1>5, <1>20, UptoConcat, LenProperties
<1>9. data = SubSeq(sent \o t.data, n + 1, Len(sent \o t.data))
  <2> DEFINE a == n + 1
             v == t.data
  <2>1. a \in Nat \ {0} /\ a <= Len(sent) + 1
    BY <1>1, <1>5, <1>6
  <2>2. sent \in Seq(Unit) /\ v \in Seq(Unit)
    BY <1>3, <1>5
  <2>3. old = SubSeq(sent, a, Len(sent))
    BY <1>6
  <2> HIDE DEF a, v
  <2>4. SubSeq(sent, a, Len(sent)) \o v = SubSeq(sent \o v, a, Len(sent \o v))
    BY <2>1, <2>2, TailConcat
  <2> QED
    BY <1>20, <2>3, <2>4 DEF a, v
<1> DEFINE new == sent \o t.data
<1>10. /\ Len(new) = n + Len(data) /\ data = SubSeq(new, n + 1, Len(new))
       /\ Lead(y.tftpmode, text, p, y.fopt) = new
  <2>1. Lead(y.tftpmode, text, p, y.fopt) = new
    BY <1>7, <1>20
  <2>2. Len(new) = n + Len(data)
    <3> DEFINE b == Len(old)
               c == Len(sent)
               d == Len(new)
               e == Len(data)
               l == Len(t.data)
    <3>1. b \in Nat /\ c \in Nat /\ n \in Nat /\ l \in Nat
          /\ c = n + b /\ e = b + l /\ d = c + l
      BY <1>1, <1>5, <1>6, <1>8
    <3> HIDE DEF b, c, d, e, l
    <3>2. d = n + e
      BY <3>1
    <3> QED
      BY <3>2 DEF d, e
  <2> QED
    BY <1>9, <2>1, <2>2
<1> HIDE DEF new
<1>11. Made(y, text, data, p)
  BY <1>7, <1>10, <1>20 DEF Made, n
<1>12. y.fopt => Len(data) = DataLen
  BY <1>1, <1>4, <1>8, <1>20
<1>13. StreamAt(S, p + Len(y.sesbuf), y.filename, text)
  BY <1>0, <1>7, <1>20 DEF Placing
<1>14. p <= Len(text)
  <2> DEFINE l == Len(y.sesbuf)
             u == Len(text)
  <2>1. l \in Nat /\ u \in Nat /\ p + l <= u
    BY <1>3, <1>7, <1>20, LenProperties DEF Placed
  <2> HIDE DEF l, u
  <2>2. p <= u
    BY <2>1
  <2> QED
    BY <2>2 DEF u
<1>15. Placing(y, S, text, data, p)
  BY <1>11, <1>13, <1>14 DEF Placing
<1> QED
  BY <1>12, <1>15 DEF Place

\* The message that was made is a block of the file: when it is not full, and
\* the file is whole, there is nothing after it.
LEMMA MadeShown ==
  ASSUME NEW x, Sound(x), NEW text \in Seq(Unit),
         NEW q \in Nat, q <= Len(text), NEW data \in Seq(Unit),
         Len(data) <= DataLen, Made(x, text, data, q),
         x.nblk \in Nat \ {0}, x.blknum = x.nblk % (BlkMax + 1),
         Original(x.filename) /\ Len(data) < DataLen => x.fopt = FALSE /\ q = Len(text),
         NEW y, y.tftpmode = x.tftpmode, y.filename = x.filename,
         y.lastmsg.k = x.nblk, y.lastmsg.blk = x.blknum, y.lastmsg.data = data
  PROVE  Shown(y, text)
<1> DEFINE m == x.tftpmode
           sent == Lead(m, text, q, x.fopt)
           wire == Wire(m, text)
           k == x.nblk
           whole == Original(x.filename)
<1>1. /\ x.sesbuf \in Seq(Unit) /\ x.fopt \in BOOLEAN /\ q \in 0 .. Len(text)
      /\ whole \in BOOLEAN
  BY SessionParts, LenProperties DEF Original
<1>2. sent \in Seq(Unit) /\ wire \in Seq(Unit)
  BY <1>1, LeadType, WireType
<1>3. Beginning(sent, wire)
  BY <1>1, LeadBeginning DEF Made
<1>4. /\ Len(sent) = (k - 1) * DataLen + Len(data)
      /\ data = SubSeq(sent, (k - 1) * DataLen + 1, Len(sent))
  BY DEF Made
<1>5. whole /\ Len(data) < DataLen => sent = wire
  <2> SUFFICES ASSUME whole, Len(data) < DataLen PROVE sent = wire
    OBVIOUS
  <2>1. x.fopt = FALSE /\ q = Len(text)
    OBVIOUS
  <2>2. Upto(text, q) = text
    BY <2>1, UptoAll
  <2>3. sent = Wire(m, Upto(text, q))
    BY <1>1, <2>1, LeadType
  <2> QED
    BY <2>2, <2>3
<1>6. k \in Nat \ {0}
  OBVIOUS
<1> HIDE DEF sent, wire, k, whole
<1>7. IsBlock(data, k, wire, whole)
  BY <1>1, <1>2, <1>3, <1>4, <1>5, <1>6, BlockMade
<1> QED
  BY <1>7 DEF Shown, wire, k, whole

\* Before the turn: the place in the file, the message so far.
LEMMA TurnBegins ==
  ASSUME NEW x, Sound(x), NEW S, NEW F, NEW old \in Seq(Unit),
         Progress(x, S, F, old, TRUE), NEW text, text = F[x.filename],
         text \in Seq(Unit)
  PROVE  /\ x.clsock # NoSock /\ x.fin = FALSE /\ x.nblk \in Nat \ {0}
         /\ x.blknum = x.nblk % (BlkMax + 1)
         /\ Len(old) < DataLen /\ (x.fopt => old = <<>>)
         /\ Place(x, S, text, old)
<1>1. /\ x.clsock # NoSock /\ x.fin = FALSE /\ x.nblk \in Nat \ {0}
      /\ x.blknum = x.nblk % (BlkMax + 1)
  BY SessionParts DEF Progress
<1>2. PICK q \in 0 .. Len(text) : At(x, S, text, old, TRUE, q)
  BY <1>1 DEF Progress
<1>3. q \in Nat /\ q <= Len(text)
  BY LenProperties
<1>4. Made(x, text, old, q) /\ StreamAt(S, q + Len(x.sesbuf), x.filename, text)
  BY <1>2 DEF At, Composed, SentLen, Made
<1>5. Len(old) < DataLen /\ (x.fopt => old = <<>>)
  BY <1>2 DEF At, Composed
<1>6. Placing(x, S, text, old, q)
  BY <1>3, <1>4 DEF Placing
<1> QED
  BY <1>1, <1>3, <1>5, <1>6 DEF Place

----------------------------------------------------------------------------
(***************************************************************************)
(* A visit, for the sessions it does not visit                             *)
(***************************************************************************)

\* A step of the store keeps the files of the start, and the others grow.
LEMMA SteppedFrozen ==
  ASSUME StoreSound(ds), Frozen, NEW free, NEW f, NEW w,
         Stepped(ds, ds', free, f, w)
  PROVE  /\ Frozen'
         /\ \A g \in DOMAIN ds.files :
              /\ g \in DOMAIN ds'.files
              /\ ds.files[g] \in Seq(Unit) /\ ds'.files[g] \in Seq(Unit)
              /\ Beginning(ds.files[g], ds'.files[g])
              /\ Original(g) => ds'.files[g] = ds.files[g]
<1>1. StoreSound(ds')
  BY DEF Stepped
<1>2. CASE Still(ds, ds')
  <2>1. Frozen'
    BY <1>2 DEF Frozen, Still
  <2>2. \A g \in DOMAIN ds.files : ds.files[g] \in Seq(Unit)
    BY DEF StoreSound, IsStore, IsFiles
  <2> QED
    BY <1>2, <2>1, <2>2, BeginsSelf DEF Still
<1>3. CASE Wrote(ds, ds', f, w)
  <2>1. ~Original(f)
    BY <1>3 DEF Wrote, Frozen, Original
  <2>2. \A p \in Writers(ds') : p \in Writers(ds) \/ p = <<f, w>>
    BY <1>3 DEF Wrote
  <2>3. Frozen'
    <3> SUFFICES ASSUME NEW g \in DOMAIN InitFiles
                 PROVE  g \in DOMAIN ds'.files /\ \A p \in Writers(ds') : p[1] # g
      BY DEF Frozen
    <3>1. g \in DOMAIN ds.files /\ \A p \in Writers(ds) : p[1] # g
      BY DEF Frozen
    <3>2. g # f
      BY <2>1 DEF Original
    <3>3. g \in DOMAIN ds'.files
      BY <1>3, <3>1 DEF Wrote
    <3>4. <<f, w>>[1] # g
      BY <3>2
    <3> QED
      BY <2>2, <3>1, <3>3, <3>4
  <2>4. ASSUME NEW g \in DOMAIN ds.files
        PROVE  /\ g \in DOMAIN ds'.files
               /\ ds.files[g] \in Seq(Unit) /\ ds'.files[g] \in Seq(Unit)
               /\ Beginning(ds.files[g], ds'.files[g])
               /\ Original(g) => ds'.files[g] = ds.files[g]
    <3>1. g \in DOMAIN ds'.files
      BY <1>3 DEF Wrote
    <3>2. ds.files[g] \in Seq(Unit) /\ ds'.files[g] \in Seq(Unit)
      BY <1>1, <3>1 DEF StoreSound, IsStore, IsFiles
    <3>3. CASE g = f
      BY <1>3, <2>1, <3>1, <3>2, <3>3 DEF Wrote
    <3>4. CASE g # f
      <4>1. ds'.files[g] = ds.files[g]
        BY <1>3, <3>4 DEF Wrote
      <4> QED
        BY <3>1, <3>2, <4>1, BeginsSelf
    <3> QED
      BY <3>3, <3>4
  <2> QED
    BY <2>3, <2>4
<1> QED
  BY <1>2, <1>3 DEF Stepped

\* A step of the store is no obstacle to a session whose own stream it leaves.
LEMMA ProgressKept ==
  ASSUME StoreSound(ds), Frozen, NEW free, NEW f, NEW w,
         Stepped(ds, ds', free, f, w), NEW x, Sound(x), NEW S, NEW T,
         x.clsock # NoSock => T = S, NEW data, NEW busy \in BOOLEAN,
         Progress(x, S, ds.files, data, busy)
  PROVE  Progress(x, T, ds'.files, data, busy)
<1> DEFINE g == x.filename
           F == ds.files
           G == ds'.files
<1>1. g \in DOMAIN F
  BY DEF Progress
<1>2. /\ g \in DOMAIN G /\ F[g] \in Seq(Unit) /\ G[g] \in Seq(Unit)
      /\ Beginning(F[g], G[g])
      /\ Original(g) => G[g] = F[g]
  BY <1>1, SteppedFrozen
<1> HIDE DEF F, G, g
<1>3. g = x.filename /\ Progress(x, S, F, data, busy)
  BY DEF F, g
<1>4. Progress(x, T, G, data, busy)
  BY <1>2, <1>3, ProgressGrows
<1> QED
  BY <1>4 DEF G
\* A session that nobody visits: it is where it was.
LEMMA OtherKept ==
  ASSUME Inv, TransferInv, NEW c \in DOMAIN ses, NEW free,
         Stepped(ds, ds', free, ses[c].filename, ses[c].clsock),
         NEW b \in DOMAIN ses, b # c, ses'[b] = ses[b], Reader(ses'[b]),
         Loading(b) = FALSE, Loading(b)' = FALSE
  PROVE  Progresses(b)'
<1>0. StoreSound(ds)
  BY DEF Inv
<1>1. ses'[b] = ses[b] /\ Sound(ses[b])
  BY DEF Inv, TypeOK, Sound
<1>2. Loading(b) = FALSE /\ Loading(b)' = FALSE
  OBVIOUS
<1>3. Progress(ses[b], Own(b), ds.files, job.data, FALSE)
  BY <1>1, <1>2 DEF TransferInv, Progresses
<1>4. Progress(ses[b], Own(b), ds.files, job'.data, FALSE)
  BY <1>3, ProgressAlike DEF Alike
<1>5. ses[b].clsock # NoSock => Own(b)' = Own(b)
  <2> SUFFICES ASSUME ses[b].clsock # NoSock PROVE Own(b)' = Own(b)
    OBVIOUS
  <2>1. ses[b].clsock # ses[c].clsock
    BY DEF Inv, SocketInv
  <2>2. Apart(ds, ds', ses[c].filename, ses[c].clsock)
    BY DEF Stepped
  <2>3. get_dsession(ds', ses[b].clsock, ses[b].filename)
        = get_dsession(ds, ses[b].clsock, ses[b].filename)
    BY <2>1, <2>2 DEF Apart
  <2>4. Own(b) = get_dsession(ds, ses[b].clsock, ses[b].filename)
    BY DEF Own
  <2>5. Own(b)' = get_dsession(ds', ses'[b].clsock, ses'[b].filename)
    BY DEF Own
  <2> QED
    BY <1>1, <2>3, <2>4, <2>5
<1> DEFINE T == Own(b)'
           S == Own(b)
           d == job'.data
<1> HIDE DEF T, S, d
<1>6. Progress(ses[b], T, ds'.files, d, FALSE)
  <2>1. ses[b].clsock # NoSock => T = S
    BY <1>5 DEF T, S
  <2>2. Progress(ses[b], S, ds.files, d, FALSE)
    BY <1>4 DEF S, d
  <2>3. Frozen /\ FALSE \in BOOLEAN
    BY DEF TransferInv
  <2> QED
    BY <1>0, <1>1, <2>1, <2>2, <2>3, ProgressKept
<1> QED
  BY <1>1, <1>2, <1>6 DEF Progresses, T, d

\* The sessions that are not visited.
LEMMA VisitOthers ==
  ASSUME Inv, TransferInv, NEW c, Visits(c),
         pc = "recv" \/ (pc \in {"get", "put"} /\ job.cl = c)
  PROVE  /\ Frozen' /\ Ending' /\ DOMAIN ses' = DOMAIN ses
         /\ \A b \in DOMAIN ses : b # c => (Reader(ses'[b]) => Progresses(b)')
<1>1. PICK y : /\ ses' = [ses EXCEPT ![c] = y]
               /\ Sound(y) /\ Continues(ses[c], y) /\ Outcome(c, y)
  BY DEF Visits
<1>2. /\ c \in DOMAIN ses /\ StoreSound(ds)
      /\ Stepped(ds, ds', Free, ses[c].filename, ses[c].clsock)
  BY DEF Visits, Inv
<1>3. Frozen'
  BY <1>2, SteppedFrozen DEF TransferInv
<1>4. pc' = "recv" \/ (pc' \in {"get", "put"} /\ job'.cl = c)
  BY <1>1 DEF Outcome
<1>5. Ending'
  BY <1>4 DEF Ending
<1>6. ASSUME NEW b \in DOMAIN ses, b # c, Reader(ses'[b])
      PROVE  Progresses(b)'
  <2>1. ses'[b] = ses[b]
    BY <1>1, <1>6
  <2>2. Loading(b) = FALSE /\ Loading(b)' = FALSE
    BY <1>4, <1>6 DEF Loading
  <2> QED
    BY <1>2, <1>6, <2>1, <2>2, OtherKept
<1>7. DOMAIN ses' = DOMAIN ses
  BY <1>1
<1> QED
  BY <1>3, <1>5, <1>6, <1>7

\* So it remains to look at the session that is.
LEMMA VisitTransfers ==
  ASSUME Inv, TransferInv, NEW c, Visits(c),
         pc = "recv" \/ (pc \in {"get", "put"} /\ job.cl = c),
         Reader(ses'[c]) => Progresses(c)'
  PROVE  TransferInv'
<1>1. /\ Frozen' /\ Ending' /\ DOMAIN ses' = DOMAIN ses
      /\ \A b \in DOMAIN ses : b # c => (Reader(ses'[b]) => Progresses(b)')
  BY VisitOthers
<1>2. \A b \in DOMAIN ses' : Reader(ses'[b]) => Progresses(b)'
  BY <1>1, Zenon
<1>3. (\A b \in DOMAIN ses : Reader(ses[b]) => Progresses(b))'
  BY <1>2
<1> QED
  BY <1>1, <1>3 DEF TransferInv

----------------------------------------------------------------------------
(***************************************************************************)
(* A visit, for the session it visits                                      *)
(***************************************************************************)

\* A writer is none of the property's business.
LEMMA WriterVisited ==
  ASSUME Inv, TransferInv, NEW c, Visits(c), ses[c].req = "WRQ",
         pc = "recv" \/ (pc \in {"get", "put"} /\ job.cl = c)
  PROVE  TransferInv'
<1>1. PICK y : ses' = [ses EXCEPT ![c] = y] /\ Continues(ses[c], y)
  BY DEF Visits
<1>2. ses'[c].req = "WRQ"
  BY <1>1 DEF Visits, Continues
<1>3. ~Reader(ses'[c])
  BY <1>2 DEF Reader
<1> QED
  BY <1>3, VisitTransfers

\* Nor is a session that is discarded.
LEMMA DiscardedVisited ==
  ASSUME Inv, TransferInv, NEW c, Visits(c), NEW y, y.disabled = TRUE,
         ses' = [ses EXCEPT ![c] = y],
         pc = "recv" \/ (pc \in {"get", "put"} /\ job.cl = c)
  PROVE  TransferInv'
<1>1. ses'[c].disabled = TRUE
  BY DEF Visits
<1>2. ~Reader(ses'[c])
  BY <1>1 DEF Reader
<1> QED
  BY <1>2, VisitTransfers

\* y is the session of the same request, still enabled only if x was.
SameReader(x, y) ==
  y.req = x.req /\ y.inherited = x.inherited /\ (y.disabled = FALSE => x.disabled = FALSE)

\* The session is left as y, at `done`.
LEMMA DoneTransfers ==
  ASSUME Inv, TransferInv, NEW c, Visits(c), NEW y, NEW m, Done(c, y, m),
         pc = "recv" \/ (pc \in {"get", "put"} /\ job.cl = c),
         SameReader(ses[c], y),
         Reader(ses[c]) /\ Reader(y) => Progress(y, Own(c)', ds'.files, job'.data, FALSE)
  PROVE  TransferInv'
<1>1. c \in DOMAIN ses /\ ses' = [ses EXCEPT ![c] = y] /\ pc' = "recv"
  BY DEF Visits, Done, Return
<1>2. ses'[c] = y /\ Loading(c)' = FALSE
  BY <1>1 DEF Loading
<1>3. Reader(y) => Reader(ses[c])
  BY DEF Reader, SameReader
<1>4. Reader(ses'[c]) => Progresses(c)'
  BY <1>2, <1>3 DEF Progresses
<1> QED
  BY <1>4, VisitTransfers

\* A repetition leaves the session where it is.
LEMMA RepeatTransfers ==
  ASSUME Inv, TransferInv, NEW c, Visits(c), pc = "recv", NEW y, NEW m,
         Done(c, y, m), UNCHANGED ds, Alike(ses[c], y), SameReader(ses[c], y)
  PROVE  TransferInv'
<1>1. c \in DOMAIN ses /\ ses'[c] = y
  BY DEF Visits, Done
<1>2. Own(c)' = Own(c)
  <2>1. Own(c) = get_dsession(ds, ses[c].clsock, ses[c].filename)
    BY DEF Own
  <2>2. Own(c)' = get_dsession(ds', ses'[c].clsock, ses'[c].filename)
    BY DEF Own
  <2> QED
    BY <1>1, <2>1, <2>2 DEF Alike
<1>3. ASSUME Reader(ses[c])
      PROVE  Progress(y, Own(c)', ds'.files, job'.data, FALSE)
  <2>1. Loading(c) = FALSE
    BY DEF Loading
  <2>2. Progress(ses[c], Own(c), ds.files, job.data, FALSE)
    BY <1>1, <1>3, <2>1 DEF TransferInv, Progresses
  <2> DEFINE d == job'.data
             T == Own(c)'
  <2> HIDE DEF d, T
  <2>3. Progress(y, Own(c), ds.files, d, FALSE)
    BY <2>2, ProgressAlike
  <2> QED
    BY <1>2, <2>3 DEF d, T
<1> QED
  BY <1>3, DoneTransfers

\* A session that ends keeps its last message.
LEMMA EndTransfers ==
  ASSUME Inv, TransferInv, NEW c, Visits(c), NEW y, NEW m, Done(c, y, m),
         pc = "recv" \/ (pc = "get" /\ job.cl = c),
         EndsAs(ses[c], y), SameReader(ses[c], y)
  PROVE  TransferInv'
<1>1. /\ c \in DOMAIN ses /\ StoreSound(ds) /\ Frozen /\ Sound(ses[c])
      /\ Stepped(ds, ds', Free, ses[c].filename, ses[c].clsock)
  BY DEF Visits, Inv, TransferInv, TypeOK, Sound
<1>2. ASSUME Reader(ses[c])
      PROVE  Progress(y, Own(c)', ds'.files, job'.data, FALSE)
  <2> DEFINE d == job'.data
             T == Own(c)'
             S == Own(c)
             b == Loading(c)
             x == ses[c]
             u == [x EXCEPT !.fin = TRUE]
  <2>1. Progress(x, S, ds.files, job.data, b)
    BY <1>1, <1>2 DEF TransferInv, Progresses
  <2>2. Sound(u)
    BY <1>1, FinishedType
  <2>3. EndsAs(x, u) /\ EndsAs(u, y)
    BY <1>1 DEF EndsAs, Sound, Session
  <2> HIDE DEF d, T, S, b, u
  <2>4. Progress(u, T, ds.files, d, FALSE)
    BY <2>1, <2>3, ProgressEnds
  <2>5. FALSE \in BOOLEAN /\ (u.clsock # NoSock => T = T)
    OBVIOUS
  <2>6. Progress(u, T, ds'.files, d, FALSE)
    BY <1>1, <2>2, <2>4, <2>5, ProgressKept
  <2>7. Progress(y, T, ds'.files, d, FALSE)
    BY <2>3, <2>6, ProgressEnds
  <2> QED
    BY <2>7 DEF d, T
<1>3. pc = "recv" \/ (pc \in {"get", "put"} /\ job.cl = c)
  OBVIOUS
<1> QED
  BY <1>2, <1>3, DoneTransfers

\* resend in tftp_proc.
LEMMA ResendTransfers ==
  ASSUME Inv, TransferInv, NEW c, Visits(c), pc = "recv", Resend(c)
  PROVE  TransferInv'
<1> DEFINE x == ses[c]
           y == [x EXCEPT !.age = 0, !.retrycount = @ + 1]
           z == [x EXCEPT !.disabled = TRUE]
<1>1. x \in Session
  BY DEF Visits, Inv, TypeOK
<1>2. CASE Done(c, y, x.lastmsg) /\ UNCHANGED ds
  <2>1. Alike(x, y) /\ SameReader(x, y)
    BY <1>1 DEF Alike, SameReader, Session
  <2> HIDE DEF y
  <2> QED
    BY <1>2, <2>1, RepeatTransfers
<1>3. CASE Done(c, z, sinfo)
  <2>1. z.disabled = TRUE
    BY <1>1 DEF Session
  <2> HIDE DEF z
  <2>2. ses' = [ses EXCEPT ![c] = z]
    BY <1>3 DEF Done
  <2> QED
    BY <2>1, <2>2, DiscardedVisited
<1> QED
  BY <1>2, <1>3 DEF Resend

\* errsend, from anywhere.
LEMMA ErrsendTransfers ==
  ASSUME Inv, TransferInv, NEW c, Visits(c), NEW u \in Seq(Unit), NEW x,
         x = [ses[c] EXCEPT !.sesbuf = u], NEW code, Errsend(c, x, code),
         pc = "recv" \/ (pc = "get" /\ job.cl = c)
  PROVE  TransferInv'
<1> DEFINE y == [x EXCEPT !.fin = TRUE]
<1>1. ses[c] \in Session
  BY DEF Visits, Inv, TypeOK
<1>2. EndsAs(ses[c], y) /\ SameReader(ses[c], y)
  BY <1>1 DEF EndsAs, SameReader, Session
<1>3. Done(c, y, make_tftperr_msg(c, code))
  BY DEF Errsend
<1> HIDE DEF y
<1> QED
  BY <1>2, <1>3, EndTransfers

\* ACK of a download: the next block is asked for.
LEMMA AdvanceTransfers ==
  ASSUME Inv, TransferInv, NEW c, Visits(c), pc = "recv",
         ses[c].fin = FALSE, ses[c].nblk # 0 \/ ses[c].clsock # NoSock,
         ses' = [ses EXCEPT ![c] = Advanced(ses[c])], Call("get", c, <<>>, 0),
         UNCHANGED ds
  PROVE  TransferInv'
<1> DEFINE x == ses[c]
           y == Advanced(x)
<1>1. c \in DOMAIN ses /\ Sound(x) /\ x \in Session /\ StoreSound(ds)
  BY DEF Visits, Inv, TypeOK, Sound
<1>2. ses'[c] = y /\ pc' = "get" /\ job'.cl = c /\ job'.data = <<>>
  BY <1>1 DEF Call
<1>3. /\ y.req = x.req /\ y.inherited = x.inherited /\ y.disabled = x.disabled
      /\ y.clsock = x.clsock /\ y.filename = x.filename
  BY <1>1 DEF Advanced, Session
<1> HIDE DEF y
<1>4. Loading(c) = FALSE /\ Loading(c)' = TRUE
  BY <1>2 DEF Loading
<1>5. ASSUME Reader(y) PROVE Progresses(c)'
  <2>1. Progress(x, Own(c), ds.files, job.data, FALSE)
    BY <1>1, <1>3, <1>4, <1>5 DEF TransferInv, Progresses, Reader
  <2>2. x.clsock # NoSock /\ x.fin = FALSE
    BY <2>1 DEF Progress
  <2>3. ds.files[x.filename] \in Seq(Unit)
    BY <1>1, <2>1 DEF Progress, StoreSound, IsStore, IsFiles
  <2> DEFINE S == Own(c)
             T == Own(c)'
  <2>4. T = S
    <3>1. S = get_dsession(ds, ses[c].clsock, ses[c].filename)
      BY DEF Own
    <3>2. T = get_dsession(ds', ses'[c].clsock, ses'[c].filename)
      BY DEF Own
    <3> QED
      BY <1>2, <1>3, <3>1, <3>2
  <2> HIDE DEF S, T
  <2>5. Progress(y, S, ds.files, <<>>, TRUE)
    BY <1>1, <2>1, <2>2, <2>3, ProgressAdvances DEF y, S
  <2> QED
    BY <1>2, <1>4, <2>4, <2>5 DEF Progresses, T
<1> QED
  BY <1>2, <1>5, VisitTransfers

\* The session x with the message `data` ready; S are its streams.
TurnEnds(x, S, files, data) ==
  LET text == files[x.filename] IN
  /\ x.clsock # NoSock /\ x.nblk \in Nat \ {0} /\ x.blknum = x.nblk % (BlkMax + 1)
  /\ x.filename \in DOMAIN files
  /\ \E q \in Nat :
       /\ q <= Len(text) /\ Made(x, text, data, q)
       /\ StreamAt(S, q + Len(x.sesbuf), x.filename, text)
       /\ Original(x.filename) /\ Len(data) < DataLen => x.fopt = FALSE /\ q = Len(text)

\* A session left with its message sent.
LEMMA MessageProgress ==
  ASSUME NEW x, Sound(x), x.fin = FALSE, NEW S, NEW T, NEW F,
         F[x.filename] \in Seq(Unit), NEW data \in Seq(Unit), Len(data) <= DataLen,
         TurnEnds(x, S, F, data), NEW z,
         z.filename = x.filename, z.tftpmode = x.tftpmode, z.clsock = x.clsock,
         z.nblk = x.nblk, z.blknum = x.blknum, z.sesbuf = x.sesbuf, z.fopt = x.fopt,
         z.lastmsg.k = x.nblk, z.lastmsg.blk = x.blknum, z.lastmsg.data = data,
         z.fin = TRUE \/ (z.fin = FALSE /\ T = S /\ ~(Len(data) < DataLen)), NEW d
  PROVE  Progress(z, T, F, d, FALSE)
<1> DEFINE text == F[x.filename]
<1>1. /\ x.clsock # NoSock /\ x.nblk \in Nat \ {0}
      /\ x.blknum = x.nblk % (BlkMax + 1) /\ x.filename \in DOMAIN F
  BY DEF TurnEnds
<1>2. PICK q \in Nat :
       /\ q <= Len(text) /\ Made(x, text, data, q)
       /\ StreamAt(S, q + Len(x.sesbuf), x.filename, text)
       /\ Original(x.filename) /\ Len(data) < DataLen => x.fopt = FALSE /\ q = Len(text)
  BY DEF TurnEnds
<1>3. text \in Seq(Unit)
  OBVIOUS
<1> HIDE DEF text
<1>4. Shown(z, text)
  BY <1>1, <1>2, <1>3, MadeShown
<1>5. ASSUME z.fin = FALSE PROVE q \in 0 .. Len(text) /\ At(z, T, text, d, FALSE, q)
  <2> DEFINE sent == Lead(x.tftpmode, text, q, x.fopt)
             n == (x.nblk - 1) * DataLen
             l == Len(data)
             k == x.nblk * DataLen
  <2>1. Len(sent) = n + l /\ Placed(text, x, q)
    BY <1>2 DEF Made
  <2>2. l = DataLen /\ T = S
    <3>1. l \in Nat /\ ~(l < DataLen) /\ l <= DataLen
      BY <1>5, LenProperties
    <3> HIDE DEF l
    <3>2. l = DataLen
      BY <3>1, Bounds
    <3> QED
      BY <1>5, <3>2
  <2>3. k = n + DataLen
    BY <1>1, Bounds
  <2> HIDE DEF sent, n, l, k
  <2>4. Len(sent) = k
    BY <2>1, <2>2, <2>3
  <2>5. Len(sent) = SentLen(z, d, FALSE)
    BY <2>4 DEF SentLen, k
  <2>6. Placed(text, z, q)
    BY <2>1 DEF Placed
  <2>7. StreamAt(T, q + Len(z.sesbuf), z.filename, text)
    BY <1>2, <2>2
  <2>8. q \in 0 .. Len(text)
    BY <1>2, <1>3, LenProperties
  <2> QED
    BY <2>5, <2>6, <2>7, <2>8 DEF At, sent
<1>6. z.clsock # NoSock /\ z.nblk \in Nat \ {0} /\ z.blknum = z.nblk % (BlkMax + 1)
  BY <1>1
<1> QED
  BY <1>1, <1>4, <1>5, <1>6 DEF Progress, text

\* The message is sent, and the stream closed after the last.
LEMMA DataTransfers ==
  ASSUME Inv, TransferInv, NEW c, Visits(c), pc = "get", job.cl = c,
         NEW x, Sound(x), x.fin = FALSE, SameReader(ses[c], x),
         NEW s, s.files = ds.files,
         NEW data \in Seq(Unit), Len(data) <= DataLen,
         make_tftpdata_msg(c, x, s, data),
         Reader(ses[c]) =>
           TurnEnds(x, get_dsession(s, x.clsock, x.filename), ds.files, data)
  PROVE  TransferInv'
<1> DEFINE last == Len(data) < DataLen
           msg == [for |-> c, op |-> "DATA", blk |-> x.blknum, k |-> x.nblk,
                   data |-> data]
           y == [x EXCEPT !.fin = @ \/ last]
           z == Remember(y, msg)
<1>1. /\ ds' \in IF last THEN close_data(s, x) ELSE {s}
      /\ Done(c, z, msg)
  BY DEF make_tftpdata_msg
<1>2. c \in DOMAIN ses /\ c \in Client /\ StoreSound(ds) /\ Frozen
      /\ Stepped(ds, ds', Free, ses[c].filename, ses[c].clsock)
  BY DEF Visits, Inv, TransferInv, TypeOK
<1>3. msg \in Message /\ msg.k = x.nblk /\ msg.blk = x.blknum /\ msg.data = data
  BY <1>2, SessionParts DEF Message
<1>4. x \in Session /\ last \in BOOLEAN
  BY DEF Sound
<1> HIDE DEF msg
<1>5. z = [x EXCEPT !.fin = last, !.lastmsg = msg, !.age = 0, !.retrycount = 0]
  BY <1>4 DEF Remember, Session
<1>6. z \in Session
  <2>1. 0 \in 0 .. AgeMax /\ 0 \in 0 .. RetryMax
    BY Bounds
  <2> HIDE DEF z, last
  <2> QED
    BY <1>3, <1>4, <1>5, <2>1 DEF Session
<1> HIDE DEF y, z, last
<1>7. /\ z.filename = x.filename /\ z.tftpmode = x.tftpmode /\ z.clsock = x.clsock
      /\ z.nblk = x.nblk /\ z.blknum = x.blknum /\ z.sesbuf = x.sesbuf
      /\ z.fopt = x.fopt /\ z.lastmsg = msg /\ z.fin = last
      /\ z.req = x.req /\ z.inherited = x.inherited /\ z.disabled = x.disabled
  BY <1>4, <1>5 DEF Session
<1>8. Sound(z) /\ SameReader(ses[c], z)
  BY <1>6, <1>7 DEF Sound, SameReader
<1>9. ASSUME Reader(ses[c])
      PROVE  Progress(z, Own(c)', ds'.files, job'.data, FALSE)
  <2> DEFINE S == get_dsession(s, x.clsock, x.filename)
             T == Own(c)'
             d == job'.data
             F == ds.files
  <2>1. ds.files[x.filename] \in Seq(Unit) /\ TurnEnds(x, S, ds.files, data)
    BY <1>2, <1>9 DEF TurnEnds, StoreSound, IsStore, IsFiles
  <2>2. z.lastmsg.k = x.nblk /\ z.lastmsg.blk = x.blknum /\ z.lastmsg.data = data
    BY <1>3, <1>7
  <2>3. CASE last = TRUE
    <3>1. z.fin = TRUE
      BY <1>7, <2>3
    <3> HIDE DEF S, T, d
    <3>2. Progress(z, T, ds.files, d, FALSE)
      BY <1>7, <2>1, <2>2, <3>1, MessageProgress
    <3>3. FALSE \in BOOLEAN /\ (z.clsock # NoSock => T = T)
      OBVIOUS
    <3>4. Progress(z, T, ds'.files, d, FALSE)
      BY <1>2, <1>8, <3>2, <3>3, ProgressKept
    <3> QED
      BY <3>4 DEF T, d
  <2>4. CASE last = FALSE
    <3>1. z.fin = FALSE /\ ds' = s /\ ~(Len(data) < DataLen)
      BY <1>1, <1>7, <2>4 DEF last
    <3>2. T = S
      <4>1. T = get_dsession(ds', ses'[c].clsock, ses'[c].filename)
        BY DEF Own
      <4>2. ses'[c] = z
        BY <1>1, <1>2 DEF Done
      <4> QED
        BY <1>7, <3>1, <4>1, <4>2
    <3> HIDE DEF S, T, d
    <3>3. Progress(z, T, ds.files, d, FALSE)
      BY <1>7, <2>1, <2>2, <3>1, <3>2, MessageProgress
    <3>4. ds'.files = ds.files
      BY <3>1
    <3> QED
      BY <3>3, <3>4 DEF T, d
  <2> QED
    BY <1>4, <2>3, <2>4
<1>10. pc = "recv" \/ (pc \in {"get", "put"} /\ job.cl = c)
  OBVIOUS
<1> QED
  BY <1>1, <1>8, <1>9, <1>10, DoneTransfers

\* The buffer is filled, nothing else of the session changes.
LEMMA LoadedBuffer ==
  ASSUME StoreSound(ds), NEW x, Sound(x), NEW r \in Loaded(ds, x, Free)
  PROVE  \E u \in Seq(Unit) : Len(u) <= BufSize /\ r.ses = [x EXCEPT !.sesbuf = u]
<1>1. x \in Session /\ x.sesbuf \in Seq(Unit) /\ Len(x.sesbuf) <= BufSize
      /\ x.clsock \in Int /\ x.filename \in File
  BY SessionParts DEF Sound
<1>2. CASE r = [ds |-> ds, ses |-> x, ok |-> TRUE]
  <2>1. r.ses = x /\ x = [x EXCEPT !.sesbuf = x.sesbuf]
    BY <1>1, <1>2 DEF Session
  <2> QED
    BY <1>1, <2>1
<1>3. CASE r \in load_data(ds, x, Free)
  <2>1. Free \in SUBSET Descriptor
    BY DEF Free
  <2>2. x.clsock \in Int /\ x.filename \in File
    BY <1>1
  <2>3. /\ Stepped(ds, r.ds, Free, x.filename, x.clsock)
        /\ \E u \in Seq(Unit) : Len(u) <= BufSize /\ r.ses = [x EXCEPT !.sesbuf = u]
    BY <1>3, <2>1, <2>2, LoadSteps
  <2> QED
    BY <2>3
<1> QED
  BY <1>2, <1>3 DEF Loaded

\* What a turn finds, where the session is: x after the load.
TurnReady(x, S, text, old) ==
  \E q \in Nat :
    /\ Placing(x, S, text, old, q)
    /\ x.sesbuf = <<>> =>
         x.fopt = FALSE /\ (Original(x.filename) => q = Len(text))

\* A message of the reader x is being made; `old` is in it.
Entering(x, old) ==
  Progress(x, get_dsession(ds, x.clsock, x.filename), ds.files, old, TRUE)

\* The load left the session y and the store s ready for the turn.
Ready(y, s, old) ==
  /\ y.clsock # NoSock /\ y.fin = FALSE /\ y.nblk \in Nat \ {0}
  /\ y.blknum = y.nblk % (BlkMax + 1) /\ y.filename \in DOMAIN ds.files
  /\ ds.files[y.filename] \in Seq(Unit)
  /\ Len(old) < DataLen /\ (y.fopt => old = <<>>)
  /\ s.files = ds.files
  /\ TurnReady(y, get_dsession(s, y.clsock, y.filename), ds.files[y.filename], old)

\* After the load the message and the buffer still fit the file.
LEMMA LoadReady ==
  ASSUME StoreSound(ds), NEW x, Sound(x), NEW old \in Seq(Unit), Entering(x, old),
         NEW r \in Loaded(ds, x, Free), r.ok
  PROVE  Ready(r.ses, r.ds, old)
<1> DEFINE text == ds.files[x.filename]
           S == get_dsession(ds, x.clsock, x.filename)
           T == get_dsession(r.ds, x.clsock, x.filename)
           y == r.ses
<1>1. x.filename \in DOMAIN ds.files /\ text \in Seq(Unit)
  BY DEF Entering, Progress, StoreSound, IsStore, IsFiles
<1>2. Progress(x, S, ds.files, old, TRUE) /\ text = ds.files[x.filename]
  BY DEF Entering
<1> HIDE DEF text, S
<1>3. /\ x.clsock # NoSock /\ x.fin = FALSE /\ x.nblk \in Nat \ {0}
      /\ x.blknum = x.nblk % (BlkMax + 1)
      /\ Len(old) < DataLen /\ (x.fopt => old = <<>>)
      /\ Place(x, S, text, old)
  <2>1. Progress(x, S, ds.files, old, TRUE)
    BY <1>2
  <2>2. text = ds.files[x.filename]
    BY <1>2
  <2>3. text \in Seq(Unit)
    BY <1>1
  <2>4. Sound(x) /\ old \in Seq(Unit)
    OBVIOUS
  <2> DEFINE F == ds.files
  <2>5. Progress(x, S, F, old, TRUE) /\ text = F[x.filename]
    BY <2>1, <2>2
  <2> HIDE DEF F
  <2> QED
    BY <2>3, <2>4, <2>5, TurnBegins, Zenon
<1>4. PICK q \in Nat : /\ q <= Len(text) /\ Made(x, text, old, q)
                       /\ StreamAt(S, q + Len(x.sesbuf), x.filename, text)
  BY <1>3 DEF Place, Placing
<1>5. /\ r.ds.files = ds.files
      /\ \E u \in Seq(Unit) : y = [x EXCEPT !.sesbuf = u]
      /\ Placed(text, y, q)
      /\ \E m \in Nat :
           m = q + Len(y.sesbuf) /\ StreamAt(T, m, x.filename, text)
      /\ y.sesbuf = <<>> => ~x.fopt /\ (Original(x.filename) => q = Len(text))
  <2> DEFINE p == q + Len(x.sesbuf)
  <2>1. Placed(text, x, q)
    BY <1>4 DEF Made
  <2>2. StreamAt(S, p, x.filename, text) /\ p = q + Len(x.sesbuf)
    BY <1>4
  <2> HIDE DEF p
  <2> QED
    BY <1>1, <1>2, <2>1, <2>2, LoadedIs DEF S
<1> HIDE DEF T, y
<1>6. /\ y.clsock = x.clsock /\ y.fin = x.fin /\ y.nblk = x.nblk
      /\ y.blknum = x.blknum /\ y.filename = x.filename /\ y.fopt = x.fopt
      /\ y.tftpmode = x.tftpmode
  BY <1>5 DEF Sound, Session
<1>7. Made(y, text, old, q)
  BY <1>4, <1>5, <1>6 DEF Made
<1>8. y.sesbuf = <<>> => y.fopt = FALSE /\ (Original(y.filename) => q = Len(text))
  <2>1. x.fopt \in BOOLEAN
    BY SessionParts
  <2> QED
    BY <1>5, <1>6, <2>1
<1>9. TurnReady(y, T, text, old)
  <2>1. StreamAt(T, q + Len(y.sesbuf), y.filename, text)
    BY <1>5, <1>6
  <2>2. Placing(y, T, text, old, q)
    BY <1>4, <1>7, <2>1 DEF Placing
  <2> QED
    BY <1>8, <2>2 DEF TurnReady
<1>10. T = get_dsession(r.ds, y.clsock, y.filename) /\ text = ds.files[y.filename]
  BY <1>6 DEF T, text
<1>11. Ready(y, r.ds, old)
  BY <1>1, <1>3, <1>5, <1>6, <1>9, <1>10 DEF Ready
<1> QED
  BY <1>11 DEF y

\* With nothing left in the buffer the message is the last.
LEMMA LastTurn ==
  ASSUME NEW x, x.sesbuf = <<>>, NEW S, NEW F, NEW old, NEW text,
         text = F[x.filename], x.filename \in DOMAIN F, x.clsock # NoSock,
         x.nblk \in Nat \ {0}, x.blknum = x.nblk % (BlkMax + 1),
         TurnReady(x, S, text, old)
  PROVE  TurnEnds(x, S, F, old)
<1>1. PICK q \in Nat :
        /\ Placing(x, S, text, old, q)
        /\ x.fopt = FALSE /\ (Original(x.filename) => q = Len(text))
  BY DEF TurnReady
<1> QED
  BY <1>1 DEF TurnEnds, Placing

----------------------------------------------------------------------------
(***************************************************************************)
(* get_session_data                                                        *)
(***************************************************************************)

\* A session that is not a reader with a stream of its own does not become one.
LEMMA OutsideVisited ==
  ASSUME Inv, TransferInv, NEW c, Visits(c), ~Reader(ses[c]), NEW y,
         ses' = [ses EXCEPT ![c] = y], SameReader(ses[c], y),
         pc = "recv" \/ (pc \in {"get", "put"} /\ job.cl = c)
  PROVE  TransferInv'
<1>1. ses'[c] = y
  BY DEF Visits
<1>2. ~Reader(ses'[c])
  BY <1>1 DEF Reader, SameReader
<1> QED
  BY <1>2, VisitTransfers

\* The turn goes on to the next.
LEMMA LoopTransfers ==
  ASSUME Inv, TransferInv, NEW c, Visits(c), pc = "get", job.cl = c,
         NEW x, Sound(x), SameReader(ses[c], x), ses' = [ses EXCEPT ![c] = x],
         NEW data \in Seq(Unit), Len(data) < DataLen, Call("get", c, data, 0),
         ds'.files = ds.files,
         Reader(ses[c]) =>
           /\ x.clsock # NoSock /\ x.fin = FALSE /\ x.nblk \in Nat \ {0}
           /\ x.blknum = x.nblk % (BlkMax + 1)
           /\ x.filename \in DOMAIN ds.files
           /\ Shown(x, ds.files[x.filename])
           /\ x.fopt => Len(data) = DataLen
           /\ Place(x, get_dsession(ds', x.clsock, x.filename),
                    ds.files[x.filename], data)
  PROVE  TransferInv'
<1>1. c \in DOMAIN ses /\ StoreSound(ds)
  BY DEF Visits, Inv
<1>2. ses'[c] = x /\ pc' = "get" /\ job'.cl = c /\ job'.data = data
  BY <1>1 DEF Call
<1>3. Loading(c)' = TRUE
  BY <1>2 DEF Loading
<1>4. ASSUME Reader(x) PROVE Progresses(c)'
  <2> DEFINE S == get_dsession(ds', x.clsock, x.filename)
             text == ds.files[x.filename]
             T == Own(c)'
  <2>1. Reader(ses[c])
    BY <1>4, SessionParts DEF Reader, SameReader
  <2>2. /\ x.clsock # NoSock /\ x.fin = FALSE /\ x.nblk \in Nat \ {0}
        /\ x.blknum = x.nblk % (BlkMax + 1)
        /\ x.filename \in DOMAIN ds.files
        /\ Shown(x, text)
        /\ x.fopt => Len(data) = DataLen
        /\ Place(x, S, text, data)
    BY <2>1
  <2>3. text \in Seq(Unit)
    BY <1>1, <2>2 DEF StoreSound, IsStore, IsFiles
  <2>4. T = S
    <3>1. T = get_dsession(ds', ses'[c].clsock, ses'[c].filename)
      BY DEF Own
    <3> QED
      BY <1>2, <3>1
  <2>5. x.fopt = FALSE
    <3>1. Len(data) # DataLen
      BY LenProperties, Bounds
    <3> QED
      BY <2>2, <3>1, SessionParts
  <2> HIDE DEF S, T, text
  <2>6. PICK q \in Nat : Placing(x, S, text, data, q)
    BY <2>2 DEF Place
  <2>7. q \in 0 .. Len(text)
    BY <2>3, <2>6, LenProperties DEF Placing
  <2>8. At(x, S, text, data, TRUE, q)
    BY <2>5, <2>6 DEF At, Placing, Made, SentLen, Composed
  <2>9. Progress(x, S, ds.files, data, TRUE)
    BY <2>2, <2>7, <2>8 DEF Progress, text
  <2> QED
    BY <1>2, <1>3, <2>4, <2>9 DEF Progresses, T
<1>5. pc = "recv" \/ (pc \in {"get", "put"} /\ job.cl = c)
  OBVIOUS
<1> QED
  BY <1>2, <1>4, <1>5, VisitTransfers

\* A turn of the loop: t is taken from the session z the load left, the message
\* of job.data becomes `data`, the session x.
TurnOf(r, z, t, data, x) ==
  /\ z = r.ses /\ t = Taken(z, DataLen - Len(job.data))
  /\ data = job.data \o t.data
  /\ x = [z EXCEPT !.sesbuf = t.sesbuf, !.fopt = t.fopt]

\* What of the session w it leaves alone.
TurnKeeps(w, z, t, x) ==
  /\ SameReader(w, z) /\ SameReader(w, x)
  /\ x.tftpmode = z.tftpmode /\ x.nblk = z.nblk /\ x.filename = z.filename
  /\ x.clsock = z.clsock /\ x.fin = z.fin /\ x.blknum = z.blknum
  /\ x.lastmsg = w.lastmsg /\ x.filename = w.filename
  /\ x.tftpmode = w.tftpmode /\ x.sesbuf = t.sesbuf /\ x.fopt = t.fopt

\* A turn keeps the types, and what TurnKeeps says.
LEMMA TurnTypes ==
  ASSUME StoreSound(ds), NEW w, Sound(w), NEW r \in Loaded(ds, w, Free),
         job.data \in Seq(Unit), Len(job.data) <= DataLen,
         NEW z, NEW t, NEW data, NEW x, TurnOf(r, z, t, data, x)
  PROVE  /\ Sound(z) /\ Sound(x) /\ TurnKeeps(w, z, t, x)
         /\ data \in Seq(Unit) /\ Len(data) <= DataLen
<1> DEFINE room == DataLen - Len(job.data)
           v == t.sesbuf
           b == t.fopt
<1>1. /\ z = r.ses /\ t = Taken(z, room) /\ data = job.data \o t.data
      /\ x = [z EXCEPT !.sesbuf = v, !.fopt = b]
  BY DEF TurnOf
<1>2. Sound(z)
  BY <1>1, LoadedSteps
<1>3. PICK u \in Seq(Unit) : z = [w EXCEPT !.sesbuf = u]
  BY <1>1, LoadedBuffer
<1>4. /\ t.data \in Seq(Unit) /\ Len(t.data) <= room /\ room \in Nat
      /\ v \in Seq(Unit) /\ Len(v) <= Len(z.sesbuf) /\ b \in BOOLEAN
  <2>1. room \in Nat
    BY LenProperties, Bounds
  <2>2. z.sesbuf \in Seq(Unit) /\ z.fopt \in BOOLEAN
    BY <1>2, SessionParts
  <2> HIDE DEF room
  <2> QED
    BY <1>1, <2>1, <2>2, TakenType
<1>5. data \in Seq(Unit) /\ Len(data) <= DataLen
  BY <1>1, <1>4, RoomConcat, Bounds
<1> HIDE DEF room, v, b
<1>6. Len(v) <= BufSize
  BY <1>2, <1>4, SessionParts, LenProperties, Bounds
<1>7. /\ SameReader(w, z) /\ SameReader(w, x) /\ Sound(x)
      /\ x.tftpmode = z.tftpmode /\ x.nblk = z.nblk /\ x.filename = z.filename
      /\ x.clsock = z.clsock /\ x.fin = z.fin /\ x.blknum = z.blknum
      /\ x.lastmsg = w.lastmsg /\ x.filename = w.filename
      /\ x.tftpmode = w.tftpmode /\ x.sesbuf = v /\ x.fopt = b
  BY <1>1, <1>3, <1>4, <1>6 DEF Sound, Session, SameReader
<1> QED
  BY <1>2, <1>5, <1>7 DEF TurnKeeps, v, b

\* What follows a turn that did not fail.
TurnStep(c, s, z, data, x) ==
  \/ z.sesbuf = <<>> /\ make_tftpdata_msg(c, z, s, job.data)
  \/ z.sesbuf # <<>> /\ Len(data) = DataLen /\ make_tftpdata_msg(c, x, s, data)
  \/ /\ z.sesbuf # <<>> /\ Len(data) < DataLen /\ ds' = s
     /\ ses' = [ses EXCEPT ![c] = x] /\ Call("get", c, data, 0)

\* A turn of a reader with a stream of its own.
LEMMA ReaderTurn ==
  ASSUME Inv, TransferInv, NEW c, Visits(c), pc = "get", job.cl = c,
         Reader(ses[c]), NEW r \in Loaded(ds, ses[c], Free), r.ok,
         NEW z, NEW t, NEW data, NEW x, TurnOf(r, z, t, data, x),
         TurnStep(c, r.ds, z, data, x)
  PROVE  TransferInv'
<1> DEFINE w == ses[c]
           S == get_dsession(r.ds, z.clsock, z.filename)
           text == ds.files[z.filename]
           old == job.data
<1>1. /\ c \in DOMAIN ses /\ c \in Client /\ Sound(w) /\ StoreSound(ds)
      /\ old \in Seq(Unit) /\ Len(old) <= DataLen /\ r \in Loaded(ds, w, Free)
  BY DEF Visits, Inv, TypeOK, Sound
<1>2. Entering(w, old)
  <2>1. Loading(c) = TRUE
    BY DEF Loading
  <2> QED
    BY <1>1, <2>1 DEF TransferInv, Progresses, Own, Entering
<1>3. /\ z.clsock # NoSock /\ z.fin = FALSE /\ z.nblk \in Nat \ {0}
      /\ z.blknum = z.nblk % (BlkMax + 1) /\ z.filename \in DOMAIN ds.files
      /\ text \in Seq(Unit)
      /\ Len(old) < DataLen /\ (z.fopt => old = <<>>)
      /\ r.ds.files = ds.files
      /\ TurnReady(z, S, text, old)
  <2>1. z = r.ses
    BY DEF TurnOf
  <2> HIDE DEF w, old
  <2>2. Ready(r.ses, r.ds, old)
    BY <1>1, <1>2, LoadReady
  <2> QED
    BY <2>1, <2>2 DEF Ready
<1>4. /\ Sound(z) /\ Sound(x) /\ TurnKeeps(w, z, t, x)
      /\ data \in Seq(Unit) /\ Len(data) <= DataLen
  <2> HIDE DEF w
  <2> QED
    BY <1>1, TurnTypes DEF old
<1> HIDE DEF S, text
<1>9. /\ SameReader(w, z) /\ SameReader(w, x) /\ Sound(x)
      /\ x.tftpmode = z.tftpmode /\ x.nblk = z.nblk /\ x.filename = z.filename
      /\ x.clsock = z.clsock /\ x.fin = z.fin /\ x.blknum = z.blknum
      /\ x.lastmsg = w.lastmsg /\ x.filename = w.filename
      /\ x.tftpmode = w.tftpmode /\ x.sesbuf = t.sesbuf /\ x.fopt = t.fopt
  BY <1>4 DEF TurnKeeps
<1>10. CASE z.sesbuf = <<>> /\ make_tftpdata_msg(c, z, r.ds, old)
  <2>1. TurnEnds(z, S, ds.files, old)
    BY <1>3, <1>10, LastTurn DEF text
  <2> DEFINE s == r.ds
  <2>2. /\ s.files = ds.files /\ make_tftpdata_msg(c, z, s, old)
        /\ TurnEnds(z, get_dsession(s, z.clsock, z.filename), ds.files, old)
    BY <1>3, <1>10, <2>1 DEF S
  <2> HIDE DEF s
  <2> QED
    BY <1>1, <1>3, <1>4, <1>9, <2>2, DataTransfers
<1>11. ASSUME z.sesbuf # <<>>
       PROVE  (x.fopt => Len(data) = DataLen) /\ Place(x, S, text, data)
  <2>1. Taking(z, old, t, data, x)
    BY <1>9 DEF Taking, TurnOf
  <2>2. Place(z, S, text, old)
    BY <1>3 DEF TurnReady, Place
  <2> QED
    BY <1>1, <1>3, <1>4, <1>11, <2>1, <2>2, TurnTakes
<1>12. CASE /\ z.sesbuf # <<>> /\ Len(data) = DataLen
            /\ make_tftpdata_msg(c, x, r.ds, data)
  <2>1. TurnEnds(x, S, ds.files, data)
    <3>1. PICK q \in Nat : Placing(x, S, text, data, q)
      BY <1>11, <1>12 DEF Place
    <3>2. Len(data) = DataLen
      BY <1>12
    <3>3. ~(Len(data) < DataLen)
      BY <3>2, Bounds
    <3> QED
      BY <1>3, <1>9, <3>1, <3>3 DEF TurnEnds, Placing, text
  <2> DEFINE s == r.ds
  <2>2. /\ s.files = ds.files /\ make_tftpdata_msg(c, x, s, data)
        /\ TurnEnds(x, get_dsession(s, x.clsock, x.filename), ds.files, data)
    BY <1>3, <1>9, <1>12, <2>1 DEF S
  <2>3. x.fin = FALSE
    BY <1>3, <1>9
  <2> HIDE DEF s
  <2> QED
    BY <1>4, <1>9, <2>2, <2>3, DataTransfers
<1>13. CASE /\ z.sesbuf # <<>> /\ Len(data) < DataLen /\ ds' = r.ds
            /\ ses' = [ses EXCEPT ![c] = x] /\ Call("get", c, data, 0)
  <2>1. /\ x.clsock # NoSock /\ x.fin = FALSE /\ x.nblk \in Nat \ {0}
        /\ x.blknum = x.nblk % (BlkMax + 1)
        /\ x.filename \in DOMAIN ds.files
    BY <1>3, <1>9
  <2>2. Shown(x, ds.files[x.filename])
    BY <1>2, <1>9 DEF Entering, Progress, Shown
  <2>3. (x.fopt => Len(data) = DataLen)
        /\ Place(x, get_dsession(ds', x.clsock, x.filename),
                 ds.files[x.filename], data)
    BY <1>9, <1>11, <1>13 DEF S, text
  <2>4. ds'.files = ds.files
    BY <1>3, <1>13
  <2> QED
    BY <1>4, <1>9, <1>13, <2>1, <2>2, <2>3, <2>4, LoopTransfers
<1> QED
  BY <1>10, <1>12, <1>13 DEF TurnStep

\* A message does not change whose session it is.
LEMMA MessageSame ==
  ASSUME NEW c, NEW w, NEW x, Sound(x), SameReader(w, x), NEW s, NEW data,
         make_tftpdata_msg(c, x, s, data)
  PROVE  \E y : ses' = [ses EXCEPT ![c] = y] /\ SameReader(w, y)
<1> DEFINE msg == [for |-> c, op |-> "DATA", blk |-> x.blknum, k |-> x.nblk,
                   data |-> data]
           z == [x EXCEPT !.fin = @ \/ Len(data) < DataLen]
           y == Remember(z, msg)
<1>1. ses' = [ses EXCEPT ![c] = y]
  BY DEF make_tftpdata_msg, Done
<1>2. SameReader(w, y)
  BY DEF Sound, Session, Remember, SameReader
<1> QED
  BY <1>1, <1>2

\* One turn of get_session_data.
LEMMA GetTransfers ==
  ASSUME Inv, TransferInv, get_session_data
  PROVE  TransferInv'
<1> DEFINE c == job.cl
           w == ses[c]
<1>1. /\ pc = "get" /\ c \in DOMAIN ses /\ Sound(w) /\ StoreSound(ds)
      /\ job.data \in Seq(Unit) /\ Len(job.data) <= DataLen /\ Visits(c)
  BY GetVisits DEF Inv, TypeOK, JobInv, Sound, get_session_data
<1>2. PICK r \in Loaded(ds, w, Free) :
       LET t    == Taken(r.ses, DataLen - Len(job.data))
           data == job.data \o t.data
           x    == [r.ses EXCEPT !.sesbuf = t.sesbuf, !.fopt = t.fopt]
       IN
       \/ ~r.ok /\ Errsend(c, r.ses, SEEMSG) /\ ds' = r.ds
       \/ /\ r.ok /\ r.ses.sesbuf = <<>>
          /\ make_tftpdata_msg(c, r.ses, r.ds, job.data)
       \/ /\ r.ok /\ r.ses.sesbuf # <<>> /\ Len(data) = DataLen
          /\ make_tftpdata_msg(c, x, r.ds, data)
       \/ /\ r.ok /\ r.ses.sesbuf # <<>> /\ Len(data) < DataLen
          /\ ds' = r.ds
          /\ ses' = [ses EXCEPT ![c] = x]
          /\ Call("get", c, data, 0)
          /\ UNCHANGED seshead
  BY DEF get_session_data
<1> DEFINE z    == r.ses
           t    == Taken(z, DataLen - Len(job.data))
           data == job.data \o t.data
           x    == [z EXCEPT !.sesbuf = t.sesbuf, !.fopt = t.fopt]
<1>3. PICK u \in Seq(Unit) : z = [w EXCEPT !.sesbuf = u]
  <2> HIDE DEF w
  <2> QED
    BY <1>1, <1>2, LoadedBuffer
<1>4. CASE Errsend(c, z, SEEMSG)
  <2>1. z = [ses[c] EXCEPT !.sesbuf = u] /\ job.cl = c
    BY <1>3
  <2> HIDE DEF z, c, w
  <2> QED
    BY <1>1, <1>4, <2>1, ErrsendTransfers
<1>5. TurnOf(r, z, t, data, x)
  BY DEF TurnOf
<1> HIDE DEF z, t, data, x, c, w
<1>6. CASE r.ok /\ TurnStep(c, r.ds, z, data, x) /\ Reader(w)
  <2>1. job.cl = c /\ Reader(ses[c]) /\ r \in Loaded(ds, ses[c], Free)
    BY <1>2, <1>6 DEF c, w
  <2> QED
    BY <1>1, <1>5, <1>6, <2>1, ReaderTurn
<1>7. CASE TurnStep(c, r.ds, z, data, x) /\ ~Reader(w)
  <2>1. Sound(z) /\ Sound(x) /\ SameReader(w, z) /\ SameReader(w, x)
    BY <1>1, <1>2, <1>5, TurnTypes DEF TurnKeeps
  <2>2. PICK y : ses' = [ses EXCEPT ![c] = y] /\ SameReader(w, y)
    BY <1>7, <2>1, MessageSame DEF TurnStep
  <2> QED
    BY <1>1, <1>7, <2>2, OutsideVisited DEF c, w
<1> QED
  BY <1>2, <1>4, <1>6, <1>7 DEF TurnStep, z, t, data, x, c, w

----------------------------------------------------------------------------
(***************************************************************************)
(* The other steps                                                         *)
(***************************************************************************)

\* A turn of put_session_data: the session is a writer's.
LEMMA PutTransfers ==
  ASSUME Inv, TransferInv, put_session_data
  PROVE  TransferInv'
<1>1. pc = "put" /\ ses[job.cl].req = "WRQ"
  BY DEF put_session_data, Inv, JobInv
<1> QED
  BY <1>1, PutVisits, WriterVisited

\* A session that is as it was, or deleted, while the datastore is not touched.
LEMMA AlikeTransfers ==
  ASSUME TransferInv, UNCHANGED ds, DOMAIN ses' \subseteq DOMAIN ses,
         \A b \in DOMAIN ses' : Alike(ses[b], ses'[b]) /\ SameReader(ses[b], ses'[b]),
         \A b \in DOMAIN ses : ses[b].disabled \in BOOLEAN,
         pc # "get", pc' # "get", Ending'
  PROVE  TransferInv'
<1>1. Frozen'
  BY DEF TransferInv, Frozen
<1>2. ASSUME NEW b \in DOMAIN ses', Reader(ses'[b])
      PROVE  Progresses(b)'
  <2>1. b \in DOMAIN ses /\ Reader(ses[b]) /\ Alike(ses[b], ses'[b])
    BY <1>2 DEF Reader, SameReader
  <2>2. Loading(b) = FALSE /\ Loading(b)' = FALSE
    BY DEF Loading
  <2>3. Progress(ses[b], Own(b), ds.files, job.data, FALSE)
    BY <2>1, <2>2 DEF TransferInv, Progresses
  <2> DEFINE S == Own(b)
             d == job'.data
  <2>4. Own(b)' = S /\ ds'.files = ds.files
    <3>1. S = get_dsession(ds, ses[b].clsock, ses[b].filename)
      BY DEF Own
    <3>2. Own(b)' = get_dsession(ds', ses'[b].clsock, ses'[b].filename)
      BY DEF Own
    <3> QED
      BY <2>1, <3>1, <3>2 DEF Alike
  <2> HIDE DEF S, d
  <2>5. Progress(ses'[b], S, ds.files, d, FALSE)
    BY <2>1, <2>3, ProgressAlike DEF S
  <2> QED
    BY <2>2, <2>4, <2>5 DEF Progresses, d
<1> QED
  BY <1>1, <1>2 DEF TransferInv

\* No session is touched.
LEMMA StillTransfers ==
  ASSUME Inv, TransferInv, UNCHANGED <<ds, ses>>, pc # "get", pc' # "get", Ending'
  PROVE  TransferInv'
<1>1. \A b \in DOMAIN ses' : Alike(ses[b], ses'[b]) /\ SameReader(ses[b], ses'[b])
  BY DEF Alike, SameReader
<1>2. \A b \in DOMAIN ses : ses[b].disabled \in BOOLEAN
  BY DEF Inv, TypeOK, Session
<1> QED
  BY <1>1, <1>2, AlikeTransfers

\* A datagram that is answered without a session.
LEMMA AnswerTransfers ==
  ASSUME Inv, TransferInv, pc = "recv", Answers
  PROVE  TransferInv'
<1>1. UNCHANGED <<ds, ses>> /\ pc' # "get" /\ Ending'
  BY DEF Answers, Ending
<1> QED
  BY <1>1, StillTransfers

\* A new session: it is where it should be, or not a reader.
LEMMA AddTransfers ==
  ASSUME Inv, TransferInv, NEW c, c \notin DOMAIN ses, NEW x,
         ses' = Put(ses, c, x), UNCHANGED ds, pc = "recv",
         pc' = "recv" \/ (pc' = "get" /\ job'.cl = c),
         Reader(x) => Progress(x, get_dsession(ds, x.clsock, x.filename), ds.files,
                               job'.data, Loading(c)')
  PROVE  TransferInv'
<1>1. Frozen' /\ Ending'
  BY DEF TransferInv, Frozen, Ending
<1>2. /\ DOMAIN ses' = DOMAIN ses \cup {c} /\ ses'[c] = x
      /\ \A b \in DOMAIN ses : ses'[b] = ses[b] /\ b # c
  BY DEF Put
<1>3. ASSUME NEW b \in DOMAIN ses, Reader(ses'[b])
      PROVE  Progresses(b)'
  <2>1. Loading(b) = FALSE /\ Loading(b)' = FALSE
    BY <1>2, <1>3 DEF Loading
  <2>2. Progress(ses[b], Own(b), ds.files, job.data, FALSE)
    BY <1>2, <1>3, <2>1 DEF TransferInv, Progresses
  <2> DEFINE S == Own(b)
             d == job'.data
  <2>3. Own(b)' = S /\ ds'.files = ds.files
    BY <1>2 DEF Own
  <2> HIDE DEF S, d
  <2>4. Progress(ses[b], S, ds.files, d, FALSE)
    BY <2>2, ProgressAlike DEF S, Alike
  <2> QED
    BY <1>2, <2>1, <2>3, <2>4 DEF Progresses, d
<1>4. ASSUME Reader(x) PROVE Progresses(c)'
  <2>1. Own(c)' = get_dsession(ds, x.clsock, x.filename)
    BY <1>2 DEF Own
  <2> QED
    BY <1>2, <1>4, <2>1 DEF Progresses
<1>5. \A b \in DOMAIN ses' : Reader(ses'[b]) => Progresses(b)'
  BY <1>2, <1>3, <1>4
<1> QED
  BY <1>1, <1>5 DEF TransferInv

\* A download begins: nothing is sent, and the first message is being made.
LEMMA RRQTransfers ==
  ASSUME Inv, TransferInv, NEW sock, NEW c \in Client, NEW f \in File,
         NEW mode \in Mode, RecvRRQ(sock, c, f, mode)
  PROVE  TransferInv'
<1>1. PICK fd \in Lowest(Free) :
        AddSession(c, Advanced(NewSession(fd, f, mode, "RRQ", 0)))
  BY DEF RecvRRQ
<1> DEFINE x == Advanced(NewSession(fd, f, mode, "RRQ", 0))
           text == ds.files[f]
<1>2. /\ c \notin DOMAIN ses /\ Call("get", c, <<>>, 0) /\ UNCHANGED ds
      /\ pc = "recv" /\ f \in DOMAIN ds.files
  BY DEF RecvRRQ, Receive, iwds_isfile, is_dsfile
<1>3. fd \in Descriptor /\ fd # NoSock
  BY <1>1, StoreAssumption DEF Lowest, Free, NoSock
<1>4. /\ x.clsock = fd /\ x.filename = f /\ x.sesbuf = <<>> /\ x.fopt = FALSE
      /\ x.fin = FALSE /\ x.lastmsg = NoMsg /\ x.nblk = 1 /\ x.blknum = NextBlk(0)
      /\ x.inherited = (get_dsession(ds, fd, f) # {})
  BY DEF NewSession, Advanced
<1>5. ses' = Put(ses, c, x)
  BY <1>1 DEF AddSession
<1> HIDE DEF x
<1>6. pc' = "get" /\ job'.cl = c /\ job'.data = <<>>
  BY <1>2 DEF Call
<1>7. Loading(c)' = TRUE
  BY <1>6 DEF Loading
<1>8. ASSUME Reader(x)
      PROVE  Progress(x, get_dsession(ds, fd, f), ds.files, <<>>, TRUE)
  <2>1. get_dsession(ds, fd, f) = {}
    BY <1>4, <1>8 DEF Reader
  <2>2. text \in Seq(Unit) /\ Len(text) \in Nat
    BY <1>2, LenProperties DEF Inv, StoreSound, IsStore, IsFiles
  <2>3. x.blknum = x.nblk % (BlkMax + 1)
    <3>1. 1 = 0 * (BlkMax + 1) + 1 /\ BlkMax + 1 \in Nat \ {0}
          /\ 1 \in 0 .. (BlkMax + 1) - 1
      BY Bounds
    <3>2. 1 % (BlkMax + 1) = 1
      BY Bounds
    <3>3. NextBlk(0) = 1
      BY Bounds DEF NextBlk
    <3> QED
      BY <1>4, <3>2, <3>3
  <2> HIDE DEF text
  <2>4. Placed(text, x, 0)
    <3>1. SubSeq(text, 1, 0) = <<>>
      BY <2>2, LeadNone DEF Upto
    <3> QED
      BY <1>4, <2>2, <3>1, EmptySeq DEF Placed
  <2>5. StreamAt({}, 0 + Len(x.sesbuf), x.filename, text)
    BY <1>4, EmptySeq DEF StreamAt
  <2> DEFINE sent == Lead(x.tftpmode, text, 0, x.fopt)
  <2>6. sent = <<>>
    BY <1>4, LeadNone
  <2> HIDE DEF sent
  <2>7. Len(sent) = SentLen(x, <<>>, TRUE)
    BY <1>4, <2>6, EmptySeq, Bounds DEF SentLen
  <2>8. Composed(x, <<>>, sent)
    <3>1. (x.nblk - 1) * DataLen + 1 = 1
      BY <1>4, Bounds
    <3>2. SubSeq(<<>>, 1, 0) = <<>>
      BY EmptySeq
    <3>3. 0 < DataLen
      BY BufferAssumption
    <3> QED
      BY <2>6, <3>1, <3>2, <3>3, EmptySeq DEF Composed
  <2>9. \E q \in 0 .. Len(text) : At(x, {}, text, <<>>, TRUE, q)
    <3>1. 0 \in 0 .. Len(text)
      BY <2>2
    <3>2. At(x, {}, text, <<>>, TRUE, 0)
      BY <2>4, <2>5, <2>7, <2>8 DEF At, sent
    <3> QED
      BY <3>1, <3>2
  <2>10. Shown(x, text)
    BY <1>4 DEF Shown, NoMsg
  <2>11. /\ x.filename \in DOMAIN ds.files /\ text = ds.files[x.filename]
         /\ x.clsock # NoSock /\ x.nblk \in Nat \ {0} /\ x.fin = FALSE
    BY <1>2, <1>3, <1>4 DEF text
  <2> QED
    BY <2>1, <2>3, <2>9, <2>10, <2>11 DEF Progress
<1>9. Reader(x) => Progress(x, get_dsession(ds, x.clsock, x.filename), ds.files,
                            job'.data, Loading(c)')
  BY <1>4, <1>6, <1>7, <1>8
<1> QED
  BY <1>2, <1>5, <1>6, <1>9, AddTransfers

\* Without a descriptor the session is there, but sends nothing.
LEMMA NoSocketTransfers ==
  ASSUME Inv, TransferInv, NEW sock, NEW c \in Client, NEW req, NEW f \in File,
         NEW mode, NEW n, RecvRequestNoSocket(sock, c, req, f, mode, n)
  PROVE  TransferInv'
<1> DEFINE x == [NewSession(NoSock, f, mode, req, n) EXCEPT !.inherited = FALSE]
<1>1. /\ c \notin DOMAIN ses /\ UNCHANGED ds /\ ses' = Put(ses, c, x)
      /\ pc = "recv" /\ pc' = "recv"
      /\ req = "RRQ" => f \in DOMAIN ds.files
  BY DEF RecvRequestNoSocket, Receive, Return, AddSession, iwds_isfile, is_dsfile
<1>2. /\ x.clsock = NoSock /\ x.filename = f /\ x.lastmsg = NoMsg /\ x.nblk = 0
      /\ x.req = req
  BY DEF NewSession
<1> HIDE DEF x
<1>3. Loading(c)' = FALSE
  BY <1>1 DEF Loading
<1>4. ASSUME Reader(x)
      PROVE  Progress(x, get_dsession(ds, x.clsock, x.filename), ds.files,
                      job'.data, FALSE)
  BY <1>1, <1>2, <1>4 DEF Progress, Shown, NoMsg, Reader
<1> QED
  BY <1>1, <1>3, <1>4, AddTransfers

\* An upload begins.
LEMMA WRQTransfers ==
  ASSUME Inv, TransferInv, NEW sock, NEW c \in Client, NEW f, NEW mode, NEW n,
         RecvWRQ(sock, c, f, mode, n)
  PROVE  TransferInv'
<1>1. PICK fd \in Lowest(Free) :
        AddSession(c, make_tftpack_msg(c, NewSession(fd, f, mode, "WRQ", n), 0))
  BY DEF RecvWRQ
<1> DEFINE x == make_tftpack_msg(c, NewSession(fd, f, mode, "WRQ", n), 0)
<1>2. /\ c \notin DOMAIN ses /\ UNCHANGED ds /\ ses' = Put(ses, c, x)
      /\ pc = "recv" /\ pc' = "recv"
  BY <1>1 DEF RecvWRQ, Receive, Return, AddSession
<1>3. x.req = "WRQ"
  BY DEF NewSession, make_tftpack_msg, Remember
<1> HIDE DEF x
<1>4. ~Reader(x)
  BY <1>3 DEF Reader
<1> QED
  BY <1>2, <1>4, AddTransfers

\* An ACK: of the block before, of this block, or of none.
LEMMA AckTransfers ==
  ASSUME Inv, TransferInv, NEW sock, NEW c \in Client, c \in DOMAIN ses,
         ses[c].req = "RRQ", ses[c].nblk # 0 \/ ses[c].clsock # NoSock,
         NEW k \in Nat, RecvAck(sock, c, k)
  PROVE  TransferInv'
<1> DEFINE x == ses[c]
<1>0. Receive(sock)
  BY DEF RecvAck
<1>1. /\ pc = "recv" /\ Aside /\ StoreSound(ds) /\ sinfo \in Message
      /\ Sound(x) /\ Current(x) /\ Continues(x, x)
      /\ Stepped(ds, ds, Free, x.filename, x.clsock)
  BY <1>0, AtReceive
<1>2. Visits(c) \/ Answers
  BY <1>0, RecvAckVisits
<1>3. CASE Answers
  BY <1>1, <1>3, AnswerTransfers
<1>4. ASSUME Visits(c), Resend(c) PROVE TransferInv'
  BY <1>1, <1>4, ResendTransfers
<1>5. ASSUME Visits(c), Done(c, [x EXCEPT !.disabled = TRUE], sinfo) PROVE TransferInv'
  <2> DEFINE y == [x EXCEPT !.disabled = TRUE]
  <2>1. y.disabled = TRUE /\ ses' = [ses EXCEPT ![c] = y]
    BY <1>1, <1>5 DEF Done, Sound, Session
  <2> HIDE DEF y
  <2> QED
    BY <1>1, <1>5, <2>1, DiscardedVisited
<1>6. ASSUME Visits(c), ~x.fin, ses' = [ses EXCEPT ![c] = Advanced(x)],
             Call("get", c, <<>>, 0), UNCHANGED <<ds, seshead>>
      PROVE  TransferInv'
  <2>1. ses[c].fin = FALSE
    BY <1>1, <1>6, SessionParts
  <2> QED
    BY <1>1, <1>6, <2>1, AdvanceTransfers
<1>7. ASSUME SendOld(c) PROVE TransferInv'
  <2>1. Answers
    BY <1>1, <1>7, AnswerType
  <2> QED
    BY <1>1, <2>1, AnswerTransfers
<1> QED
  BY <1>2, <1>3, <1>4, <1>5, <1>6, <1>7 DEF RecvAck

\* Every datagram.
LEMMA DatagramTransfers ==
  ASSUME Inv, TransferInv, NEW sock, NEW c \in Client, Datagram(sock, c)
  PROVE  TransferInv'
<1>0. pc = "recv"
  BY DatagramShapes
<1>1. CASE RecvRepeatedRequest(sock, c)
  <2>1. c \in DOMAIN ses /\ Resend(c) /\ Receive(sock)
    BY <1>1 DEF RecvRepeatedRequest
  <2>2. Visits(c)
    BY <2>1, AtReceive, ResendVisits
  <2> QED
    BY <1>0, <2>1, <2>2, ResendTransfers
<1>2. CASE \E req \in Request, f \in File : RecvRefusedRequest(sock, c, req, f)
  <2>1. \E code \in Nat : Refuse(c, code)
    BY <1>2 DEF RecvRefusedRequest, NOTFOUND, FILEEXIST
  <2>2. Aside
    BY <1>2 DEF RecvRefusedRequest, Receive, Aside
  <2> QED
    BY <1>0, <2>1, <2>2, RefuseType, AnswerTransfers
<1>3. CASE \E req \in Request, f \in File, mode \in Mode : \E n \in Sizes(req) :
             RecvRequestNoSocket(sock, c, req, f, mode, n)
  BY <1>3, NoSocketTransfers
<1>4. CASE \E f \in File, mode \in Mode : RecvRRQ(sock, c, f, mode)
  BY <1>4, RRQTransfers
<1>5. CASE \E f \in File, mode \in Mode, n \in 0 .. MaxUpload :
             RecvWRQ(sock, c, f, mode, n)
  BY <1>5, WRQTransfers
<1>6. CASE /\ c \in DOMAIN ses /\ ses[c].req = "WRQ"
           /\ \E k \in 1 .. LastBlock(Sent(c)) : RecvData(sock, c, k, Block(Sent(c), k))
  <2>1. PICK k \in 1 .. LastBlock(Sent(c)) : RecvData(sock, c, k, Block(Sent(c), k))
    BY <1>6
  <2>2. Sent(c) \in Seq(Unit)
    <3>1. Sound(ses[c])
      BY <1>6 DEF Inv, TypeOK, Sound
    <3> QED
      BY <3>1, SentType
  <2>3. k \in Nat \ {0} /\ k \in Nat
    OBVIOUS
  <2>4. Block(Sent(c), k) \in Seq(Unit) /\ Len(Block(Sent(c), k)) <= DataLen
    BY <2>2, <2>3, BlockType
  <2>5. Visits(c)
    BY <1>6, <2>1, <2>3, <2>4, RecvDataVisits
  <2> QED
    BY <1>0, <1>6, <2>5, WriterVisited
<1>7. CASE /\ c \in DOMAIN ses /\ ses[c].req = "RRQ"
           /\ \E k \in 1 .. ses[c].nblk : RecvAck(sock, c, k)
  <2>1. PICK k \in 1 .. ses[c].nblk : RecvAck(sock, c, k)
    BY <1>7
  <2>2. ses[c].nblk \in Nat
    BY <1>7, SessionParts DEF Inv, TypeOK, Sound
  <2>3. k \in Nat /\ ses[c].nblk # 0
    BY <2>2
  <2> QED
    BY <1>7, <2>1, <2>3, AckTransfers
<1>8. CASE RecvError(sock, c)
  <2> DEFINE y == [ses[c] EXCEPT !.disabled = TRUE]
  <2>1. /\ c \in DOMAIN ses /\ ds' \in close_data(ds, ses[c]) /\ Done(c, y, sinfo)
        /\ Receive(sock)
    BY <1>8 DEF RecvError
  <2>2. /\ Aside /\ StoreSound(ds) /\ sinfo \in Message
        /\ Sound(ses[c]) /\ Current(ses[c])
        /\ Stepped(ds, ds, Free, ses[c].filename, ses[c].clsock)
    BY <2>1, AtReceive
  <2>3. Stepped(ds, ds', Free, ses[c].filename, ses[c].clsock)
    BY <2>1, <2>2, CloseAfter
  <2>4. Visits(c)
    BY <2>1, <2>2, <2>3, DiscardVisits
  <2>5. y.disabled = TRUE /\ ses' = [ses EXCEPT ![c] = y]
    BY <2>1, <2>2 DEF Done, Sound, Session
  <2> HIDE DEF y
  <2> QED
    BY <1>0, <2>4, <2>5, DiscardedVisited
<1>9. CASE RecvStray(sock, c)
  <2>1. Aside /\ Refuse(c, UNKNOWNID) /\ UNKNOWNID \in Nat
    BY <1>9 DEF RecvStray, Receive, Aside, UNKNOWNID
  <2> QED
    BY <1>0, <2>1, RefuseType, AnswerTransfers
<1>10. CASE RecvOwn(sock, c)
  <2>1. UNCHANGED <<ds, ses>> /\ pc' = "recv"
    BY <1>10 DEF RecvOwn, Return
  <2>2. Ending'
    BY <2>1 DEF Ending
  <2> QED
    BY <1>0, <2>1, <2>2, StillTransfers
<1>11. CASE RecvUnparsable(sock, c)
  <2>0. Receive(sock) /\ ILLEGALOPE \in Nat
    BY <1>11 DEF RecvUnparsable, ILLEGALOPE
  <2>1. CASE c \in DOMAIN ses /\ Errsend(c, ses[c], ILLEGALOPE) /\ UNCHANGED ds
    <3>1. /\ Aside /\ StoreSound(ds) /\ sinfo \in Message
          /\ Sound(ses[c]) /\ Continues(ses[c], ses[c])
          /\ Stepped(ds, ds', Free, ses[c].filename, ses[c].clsock)
      BY <2>0, <2>1, AtReceive
    <3>2. Visits(c)
      BY <2>0, <2>1, <3>1, ErrsendVisits
    <3> DEFINE u == ses[c].sesbuf
               x == ses[c]
    <3>3. u \in Seq(Unit) /\ x = [ses[c] EXCEPT !.sesbuf = u]
      BY <3>1 DEF Sound, Session
    <3>4. Errsend(c, x, ILLEGALOPE)
      BY <2>1
    <3> HIDE DEF u, x
    <3> QED
      BY <1>0, <3>2, <3>3, <3>4, ErrsendTransfers
  <2>2. CASE Refuse(c, ILLEGALOPE)
    <3>1. Aside
      BY <2>0 DEF Receive, Aside
    <3> QED
      BY <1>0, <2>0, <2>2, <3>1, RefuseType, AnswerTransfers
  <2> QED
    BY <1>11, <2>1, <2>2 DEF RecvUnparsable
<1>12. CASE RecvUnknownOpcode(sock, c)
  <2>1. /\ Receive(sock) /\ SendOld(c)
    BY <1>12 DEF RecvUnknownOpcode
  <2>2. Aside /\ sinfo \in Message /\ (c \in DOMAIN ses => Sound(ses[c]))
    BY <2>1, AtReceive
  <2> QED
    BY <1>0, <2>1, <2>2, AnswerType, AnswerTransfers
<1> QED
  BY <1>1, <1>2, <1>3, <1>4, <1>5, <1>6, <1>7, <1>8, <1>9, <1>10, <1>11, <1>12
     DEF Datagram

\* The timer sends again, or gives the session up and closes its stream.
LEMMA ResendSessionTransfers ==
  ASSUME Inv, TransferInv, ResendSession
  PROVE  TransferInv'
<1> DEFINE c == Head(todo)
           x == ses[c]
<1>1. /\ pc = "resend" /\ pc' = "resend" /\ job' = job /\ todo # <<>>
  BY DEF ResendSession
<1>2. /\ c \in DOMAIN ses /\ Sound(x) /\ StoreSound(ds)
  <2>1. /\ todo \in Seq(Client) /\ Distinct(todo) /\ Elements(todo) \subseteq DOMAIN ses
    BY DEF Inv, TypeOK, ListInv
  <2>2. c \in DOMAIN ses
    BY <1>1, <2>1, Visited
  <2> QED
    BY <2>2 DEF Inv, TypeOK, Sound
<1>3. Ending'
  BY <1>1 DEF Ending
<1>4. CASE /\ ses' = [ses EXCEPT ![c].disabled = TRUE]
           /\ ds' \in close_data(ds, x)
  <2> DEFINE y == [x EXCEPT !.disabled = TRUE]
  <2>1. ses' = [ses EXCEPT ![c] = y] /\ y.disabled = TRUE
    BY <1>2, <1>4 DEF Sound, Session
  <2> HIDE DEF y
  <2>2. Stepped(ds, ds', {}, ses[c].filename, ses[c].clsock)
    BY <1>2, <1>4, CloseSteps
  <2>3. Frozen'
    BY <1>2, <2>2, SteppedFrozen DEF TransferInv
  <2>4. ASSUME NEW b \in DOMAIN ses', Reader(ses'[b])
        PROVE  Progresses(b)'
    <3>1. b \in DOMAIN ses /\ b # c /\ ses'[b] = ses[b]
      BY <2>1, <2>4 DEF Reader
    <3>2. Loading(b) = FALSE /\ Loading(b)' = FALSE
      BY <1>1 DEF Loading
    <3> HIDE DEF c
    <3> QED
      BY <1>2, <2>2, <2>4, <3>1, <3>2, OtherKept
  <2> QED
    BY <1>3, <2>3, <2>4 DEF TransferInv
<1>5. CASE /\ ses' = [ses EXCEPT ![c].retrycount = @ + 1, ![c].age = 0]
           /\ UNCHANGED ds
  <2> DEFINE y == [[x EXCEPT !.retrycount = @ + 1] EXCEPT !.age = 0]
  <2>1. ses' = [ses EXCEPT ![c] = y]
    BY <1>5
  <2>2. Alike(x, y) /\ SameReader(x, y)
    BY <1>2 DEF Alike, SameReader, Sound, Session
  <2> HIDE DEF y
  <2>3. \A b \in DOMAIN ses' : Alike(ses[b], ses'[b]) /\ SameReader(ses[b], ses'[b])
    BY <1>2, <2>1, <2>2 DEF Alike, SameReader
  <2>4. \A b \in DOMAIN ses : ses[b].disabled \in BOOLEAN
    BY DEF Inv, TypeOK, Session
  <2>5. DOMAIN ses' \subseteq DOMAIN ses
    BY <2>1
  <2> QED
    BY <1>1, <1>3, <1>5, <2>3, <2>4, <2>5, AlikeTransfers
<1>6. CASE UNCHANGED <<ds, ses>>
  BY <1>1, <1>3, <1>6, StillTransfers
<1> QED
  BY <1>4, <1>5, <1>6 DEF ResendSession

\* Steps that touch the flags and the clocks of the sessions, or delete some.
LEMMA HousekeepingTransfers ==
  ASSUME Inv, TransferInv, update_event \/ Tick \/ CleanupSession \/ del_allsession
  PROVE  TransferInv'
<1>1. UNCHANGED ds /\ pc # "get" /\ pc' # "get" /\ Ending'
      /\ DOMAIN ses' \subseteq DOMAIN ses
  BY DEF update_event, Tick, CleanupSession, del_allsession, del_session, Ending
<1>2. \A b \in DOMAIN ses : ses[b].disabled \in BOOLEAN /\ ses[b] \in Session
  BY DEF Inv, TypeOK, Session
<1>3. ASSUME NEW b \in DOMAIN ses'
      PROVE  Alike(ses[b], ses'[b]) /\ SameReader(ses[b], ses'[b])
  <2>1. CASE \E e, r : ses'[b] = [ses[b] EXCEPT !.regevent = e, !.refused = r]
    BY <1>1, <1>2, <1>3, <2>1 DEF Alike, SameReader, Session
  <2>2. CASE \E e : ses'[b] = [ses[b] EXCEPT !.age = e]
    BY <1>1, <1>2, <1>3, <2>2 DEF Alike, SameReader, Session
  <2>3. CASE ses'[b] = ses[b]
    BY <2>3 DEF Alike, SameReader
  <2>4. CASE update_event
    <3>1. \E R : ses'[b] = [ses[b] EXCEPT !.regevent = ~ses[b].disabled,
                                          !.refused = @ \/ b \in R]
      BY <1>3, <2>4 DEF update_event
    <3> QED
      BY <2>1, <3>1
  <2>5. CASE Tick
    <3>1. ses'[b] = [ses[b] EXCEPT !.age = IF @ < AgeMax THEN @ + 1 ELSE @]
      BY <1>3, <2>5 DEF Tick
    <3> QED
      BY <2>2, <3>1
  <2>6. CASE CleanupSession \/ del_allsession
    <3>1. ses'[b] = ses[b]
      BY <1>3, <2>6 DEF CleanupSession, del_allsession, del_session
    <3> QED
      BY <2>3, <3>1
  <2> QED
    BY <2>4, <2>5, <2>6
<1> QED
  BY <1>1, <1>2, <1>3, AlikeTransfers

\* The streams that are left are closed when no session is.
LEMMA ExitTransfers ==
  ASSUME Inv, TransferInv, iwds_exit
  PROVE  TransferInv'
<1>1. /\ pc = "exiting" /\ pc' \in {"exiting", "exited"} /\ ses' = ses
      /\ ds' \in iwds_exit_step(ds) \/ ds' = ds
  BY DEF iwds_exit
<1>2. DOMAIN ses' = {}
  BY <1>1 DEF TransferInv, Ending
<1>3. Frozen'
  <2>1. CASE ds' \in iwds_exit_step(ds)
    <3>1. StoreSound(ds) /\ Frozen
      BY DEF Inv, TransferInv
    <3>2. PICK d \in ds.dhead : Stepped(ds, ds', {}, d.filename, d.clid)
      BY <2>1, <3>1, ExitSteps
    <3> QED
      BY <3>1, <3>2, SteppedFrozen
  <2>2. CASE ds' = ds
    BY <2>2 DEF TransferInv, Frozen
  <2> QED
    BY <1>1, <2>1, <2>2
<1> QED
  BY <1>2, <1>3 DEF TransferInv, Ending

\* No session yet, and no stream.
LEMMA InitTransferInv == Init => TransferInv
<1> SUFFICES ASSUME Init PROVE TransferInv
  OBVIOUS
<1>1. ds.files = InitFiles /\ ds.dhead = {} /\ DOMAIN ses = {}
  BY DEF Init
<1>2. Writers(ds) = {}
  BY <1>1 DEF Writers
<1> QED
  BY <1>1, <1>2 DEF TransferInv, Frozen, Ending

\* Every step of the server.
LEMMA NextTransferInv == Inv /\ TransferInv /\ [Next]_vars => TransferInv'
<1> SUFFICES ASSUME Inv, TransferInv, [Next]_vars PROVE TransferInv'
  OBVIOUS
<1>1. CASE \/ \E batch \in SUBSET (SvSock \cup epoll) : epoll_wait(batch)
           \/ EpollTimeout \/ ResendDone \/ CleanupDone
  <2>1. UNCHANGED <<ds, ses>> /\ pc # "get" /\ pc' \notin {"get", "exiting", "exited"}
    BY <1>1 DEF epoll_wait, EpollTimeout, ResendDone, CleanupDone
  <2>2. Ending'
    BY <2>1 DEF Ending
  <2> QED
    BY <2>1, <2>2, StillTransfers
<1>2. CASE \E sock \in events : RecvNothing(sock) \/ \E c \in Client : Datagram(sock, c)
  BY <1>2, NothingType, AnswerTransfers, DatagramTransfers
<1>3. CASE get_session_data
  BY <1>3, GetTransfers
<1>4. CASE put_session_data
  BY <1>4, PutTransfers
<1>5. CASE update_event \/ Tick \/ CleanupSession \/ del_allsession
  BY <1>5, HousekeepingTransfers
<1>6. CASE ResendSession
  BY <1>6, ResendSessionTransfers
<1>7. CASE iwds_exit
  BY <1>7, ExitTransfers
<1>8. CASE sig_handler \/ UNCHANGED vars
  <2>1. UNCHANGED <<ds, ses, pc, job>>
    BY <1>8 DEF sig_handler, vars
  <2> QED
    BY <2>1 DEF TransferInv, Frozen, Ending, Progresses, Own, Loading
<1> QED
  BY <1>1, <1>2, <1>3, <1>4, <1>5, <1>6, <1>7, <1>8 DEF Next, Loop, Ended

----------------------------------------------------------------------------
\* A reader that is where it should be keeps a block of its file for resending.
LEMMA TransferFaithful == Inv /\ TransferInv => DownloadsFaithful
<1> SUFFICES ASSUME Inv, TransferInv, NEW c \in DOMAIN ses,
                    ses[c].req = "RRQ", ~ses[c].inherited, ~ses[c].disabled
             PROVE  Faithful(c)
  BY DEF DownloadsFaithful
<1> DEFINE x == ses[c]
           text == ds.files[x.filename]
           wire == Wire(x.tftpmode, text)
           msg == x.lastmsg
           whole == Original(x.filename)
<1>1. Sound(x) /\ x \in Session /\ StoreSound(ds)
  BY DEF Inv, TypeOK, Sound
<1>2. Reader(x)
  BY <1>1 DEF Reader, Session
<1>3. x.filename \in DOMAIN ds.files /\ Shown(x, text)
  BY <1>2 DEF TransferInv, Progresses, Progress
<1>4. text \in Seq(Unit)
  BY <1>1, <1>3 DEF StoreSound, IsStore, IsFiles
<1>5. wire \in Seq(Unit)
  BY <1>4, WireType
<1>6. msg.data \in Seq(Unit)
  BY <1>1, SessionParts DEF Message
<1>7. ASSUME msg.op = "DATA"
      PROVE  /\ msg.blk = msg.k % (BlkMax + 1)
             /\ IF whole THEN msg.data = Block(wire, msg.k)
                ELSE IsPrefix(msg.data, Block(wire, msg.k))
  <2> DEFINE k == msg.k
             data == msg.data
  <2>1. /\ k \in Nat \ {0} /\ msg.blk = k % (BlkMax + 1)
        /\ IsBlock(data, k, wire, whole)
    BY <1>3, <1>7 DEF Shown
  <2>2. whole \in BOOLEAN /\ data \in Seq(Unit)
    BY <1>6 DEF Original
  <2> HIDE DEF k, data, wire, whole, msg
  <2>3. (whole => data = Block(wire, k)) /\ IsPrefix(data, Block(wire, k))
    BY <1>5, <2>1, <2>2, BlockExact
  <2> QED
    BY <2>1, <2>3 DEF k, data
<1> QED
  BY <1>7 DEF Faithful, Original

\* The k-th DATA of a download, sent or resent, carries the k-th block of the
\* file as it travels in the session's mode, for any number of clients, files
\* of any length and any sizes of block, buffer and stdio block, with disk
\* faults or without: get_session_data, netascii_from and load_data lose,
\* repeat and move nothing.
THEOREM DownloadsFaithfulHolds == Spec => []DownloadsFaithful
<1>1. Init => Inv /\ TransferInv
  BY InitInv, InitTransferInv
<1>2. Inv /\ TransferInv /\ [Next]_vars => (Inv /\ TransferInv)'
  BY NextInv, NextTransferInv
<1>3. Inv /\ TransferInv => DownloadsFaithful
  BY TransferFaithful
<1> QED
  BY <1>1, <1>2, <1>3, PTL DEF Spec

----------------------------------------------------------------------------
(***************************************************************************)
(* Uploads                                                                 *)
(***************************************************************************)

\* Block numbers of a text: those whose blocks begin in it or at its end.
LEMMA BlockCount ==
  ASSUME NEW wire \in Seq(Unit), NEW n \in Nat, n * DataLen <= Len(wire)
  PROVE  n + 1 <= LastBlock(wire) /\ n + 1 \in 1 .. LastBlock(wire)
<1> DEFINE L == Len(wire)
           q == L \div DataLen
<1>1. L \in Nat /\ DataLen \in Nat /\ DataLen > 1
  BY LenProperties, BufferAssumption
<1>2. q \in Nat /\ L < (q + 1) * DataLen
  BY <1>1
<1>3. n <= q
  <2> HIDE DEF q
  <2>1. CASE n >= q + 1
    <3> DEFINE m == q + 1
    <3>1. m \in Nat /\ n >= m
      BY <1>2, <2>1
    <3> HIDE DEF m
    <3>2. n * DataLen >= m * DataLen
      BY <1>1, <3>1
    <3> QED
      BY <1>1, <1>2, <3>1, <3>2 DEF m
  <2> QED
    BY <1>2, <2>1
<1>4. LastBlock(wire) = q + 1
  BY DEF LastBlock
<1> HIDE DEF q
<1> QED
  BY <1>2, <1>3, <1>4

LEMMA LastBlockType ==
  ASSUME NEW wire \in Seq(Unit)
  PROVE  LastBlock(wire) \in Nat \ {0} /\ Len(wire) < LastBlock(wire) * DataLen
<1> DEFINE l == Len(wire)
           q == l \div DataLen
<1>1. l \in Nat /\ DataLen \in Nat \ {0}
  BY LenProperties, BufferAssumption
<1> HIDE DEF l
<1>2. q \in Nat /\ l < (q + 1) * DataLen
  BY <1>1
<1> QED
  BY <1>2 DEF LastBlock, l

\* Where the blocks up to n end on the wire.
EndOf(wire, n) == IF n * DataLen <= Len(wire) THEN n * DataLen ELSE Len(wire)

\* What of the upload of x has come in with the first g units on the wire.
KnownTo(x, wire, g) == Known(x.tftpmode, Upto(wire, g))

\* The session's stream is closed, or never could be opened, and a session
\* that is through or discarded has to do with it no more.  With descriptors
\* to spare, what came in is in the file if nothing of it is left behind
\* (`sure`) and the disk works.
Over(x) == x.fin = TRUE \/ x.disabled = TRUE

Lost(x, s, u, plenty, sure) ==
  /\ Over(x)
  /\ plenty =>
       /\ get_dsession(s, x.clsock, x.filename) = {}
       /\ x.filename \in DOMAIN s.files \/ x.filename \in Unopenable
       /\ ~IoFaults /\ x.sesbuf = <<>> /\ sure => Closed(s, x.filename, u)

\* What came in, u, is in the file, the stream's buffer and the session's.
Stored(x, s, u) ==
  \E o \in Seq(Unit) : Written(s, x.clsock, x.filename, o) /\ o \o x.sesbuf = u

Held(x, s, u, plenty, sure) == Stored(x, s, u) \/ Lost(x, s, u, plenty, sure)

\* y differs from x in nothing the datastore is asked with, and is at least as
\* finished.
Remains(x, y) ==
  /\ y.clsock = x.clsock /\ y.filename = x.filename /\ y.sesbuf = x.sesbuf
  /\ x.fin = TRUE => y.fin = TRUE
  /\ x.disabled = TRUE => y.disabled = TRUE

\* A session with the same stream and the same buffer.
LEMMA HeldRemains ==
  ASSUME NEW x, NEW y, Remains(x, y), NEW s, NEW u,
         NEW plenty \in BOOLEAN, NEW sure \in BOOLEAN, NEW m \in BOOLEAN,
         m => sure, Held(x, s, u, plenty, sure)
  PROVE  Held(y, s, u, plenty, m)
<1>1. CASE Stored(x, s, u)
  BY <1>1 DEF Stored, Held, Remains
<1>2. CASE Lost(x, s, u, plenty, sure)
  BY <1>2 DEF Lost, Held, Remains, Over
<1> QED
  BY <1>1, <1>2 DEF Held

\* A step of the store in the name of another session.
LEMMA ClosedKept ==
  ASSUME NEW s, StoreSound(s), NEW t, NEW free, NEW f, NEW w,
         Stepped(s, t, free, f, w), NEW g, NEW u, Closed(s, g, u)
  PROVE  Closed(t, g, u)
<1>1. \A p \in Writers(s) : p[1] # g
  BY DEF Closed, Writers
<1>0. ASSUME \A p \in Writers(t) : p[1] # g, NEW d \in t.dhead, d.filename = g, d.mode = "w"
      PROVE  FALSE
  <2>1. <<d.filename, d.clid>> \in Writers(t)
    BY <1>0 DEF Writers
  <2> QED
    BY <1>0, <2>1
<1>2. CASE Still(s, t)
  <2>1. \A p \in Writers(t) : p[1] # g
    BY <1>1, <1>2 DEF Still
  <2> QED
    BY <1>0, <1>2, <2>1 DEF Closed, Still
<1>3. CASE Wrote(s, t, f, w)
  <2>1. <<f, w>> \in Writers(s) => f # g
    BY <1>1
  <2>2. g # f
    BY <1>3, <2>1 DEF Wrote, Closed
  <2>3. g \in DOMAIN t.files /\ t.files[g] = u
    BY <1>3, <2>2 DEF Wrote, Closed
  <2>4. \A p \in Writers(t) : p \in Writers(s) \/ p = <<f, w>>
    BY <1>3 DEF Wrote
  <2>5. \A p \in Writers(t) : p[1] # g
    BY <1>1, <2>2, <2>4
  <2> QED
    BY <1>0, <2>3, <2>5 DEF Closed
<1> QED
  BY <1>2, <1>3 DEF Stepped

\* A stream has what it had after a step of another session.
LEMMA StreamingKept ==
  ASSUME NEW s, StoreSound(s), NEW t, NEW free, NEW f, NEW w,
         Stepped(s, t, free, f, w), NEW id, id # w, NEW g, NEW u,
         Streaming(s, id, g, u)
  PROVE  Streaming(t, id, g, u)
<1>1. PICK d \in get_dsession(s, id, g) : d.mode = "w" /\ s.files[g] \o d.wbuf = u
  BY DEF Streaming
<1>2. d \in s.dhead /\ d.clid = id /\ d.filename = g
  BY <1>1 DEF get_dsession
<1>3. d \in get_dsession(t, id, g)
  BY <1>1 DEF Stepped, Apart
<1>4. t.files[g] = s.files[g]
  <2>1. CASE Still(s, t)
    BY <2>1 DEF Still
  <2>2. CASE Wrote(s, t, f, w)
    <3>1. g \in DOMAIN s.files
      BY <1>2 DEF StoreSound, StreamsInside
    <3>2. ASSUME g = f PROVE FALSE
      <4>1. PICK e \in s.dhead : e.mode = "w" /\ <<f, w>> = <<e.filename, e.clid>>
        BY <2>2, <3>1, <3>2, InWriters DEF Wrote
      <4>2. e = d
        BY <1>1, <1>2, <3>2, <4>1 DEF StoreSound, SingleWriter
      <4> QED
        BY <1>2, <4>1, <4>2
    <3> QED
      BY <2>2, <3>1, <3>2 DEF Wrote
  <2> QED
    BY <2>1, <2>2 DEF Stepped
<1> QED
  BY <1>1, <1>3, <1>4 DEF Streaming

\* So a session holds what it held.
LEMMA HeldKept ==
  ASSUME NEW s, StoreSound(s), NEW t, NEW free, NEW f, NEW w,
         Stepped(s, t, free, f, w), NEW x, x.clsock # w, NEW u,
         NEW plenty \in BOOLEAN, NEW sure \in BOOLEAN,
         Held(x, s, u, plenty, sure)
  PROVE  Held(x, t, u, plenty, sure)
<1> DEFINE id == x.clsock
           g == x.filename
<1>1. get_dsession(t, id, g) = get_dsession(s, id, g)
  BY DEF Stepped, Apart
<1>2. CASE Stored(x, s, u)
  <2>1. PICK o \in Seq(Unit) : Written(s, id, g, o) /\ o \o x.sesbuf = u
    BY <1>2 DEF Stored
  <2>2. Streaming(s, id, g, o) => Streaming(t, id, g, o)
    BY StreamingKept
  <2>3. Written(t, id, g, o)
    BY <1>1, <2>1, <2>2 DEF Written
  <2> QED
    BY <2>1, <2>3 DEF Stored, Held
<1>3. CASE Lost(x, s, u, plenty, sure)
  <2>1. Closed(s, g, u) => Closed(t, g, u)
    BY ClosedKept
  <2>2. DOMAIN s.files \subseteq DOMAIN t.files
    BY DEF Stepped, Still, Wrote
  <2> QED
    BY <1>1, <1>3, <2>1, <2>2 DEF Lost, Held
<1> QED
  BY <1>2, <1>3 DEF Held

\* close_data of the session's own stream, as the session ends.
LEMMA HeldCloses ==
  ASSUME NEW s, StoreSound(s), NEW x, x.sesbuf \in Seq(Unit), NEW t \in close_data(s, x), NEW u,
         NEW plenty \in BOOLEAN, NEW sure \in BOOLEAN,
         NEW y, Remains(x, y), Over(y),
         Held(x, s, u, plenty, sure)
  PROVE  Held(y, t, u, plenty, sure)
<1> DEFINE id == x.clsock
           g == x.filename
<1>0. y.clsock = id /\ y.filename = g /\ y.sesbuf = x.sesbuf
  BY DEF Remains
<1>1. /\ get_dsession(t, id, g) = {}
      /\ get_dsession(s, id, g) = {} => t = s
      /\ \A v : Streaming(s, id, g, v) => Landed(t, id, g, v)
  BY CloseLands
<1>2. CASE Stored(x, s, u)
  <2>1. PICK o \in Seq(Unit) : Written(s, id, g, o) /\ o \o x.sesbuf = u
    BY <1>2 DEF Stored
  <2>2. CASE get_dsession(s, id, g) = {}
    BY <1>0, <1>1, <2>1, <2>2 DEF Stored, Held
  <2>3. CASE get_dsession(s, id, g) # {}
    <3>1. Landed(t, id, g, o)
      BY <1>1, <2>1, <2>3 DEF Written
    <3>2. PICK w \in Seq(Unit) : Beginning(w, o) /\ (~IoFaults => w = o) /\ Closed(t, g, w)
      BY <3>1 DEF Landed
    <3>3. g \in DOMAIN t.files
      BY <3>2 DEF Closed
    <3>4. x.sesbuf = <<>> => o = u
      BY <2>1, ConcatEmptySeq
    <3>5. ~IoFaults /\ x.sesbuf = <<>> => Closed(t, g, u)
      BY <3>2, <3>4
    <3> QED
      BY <1>0, <1>1, <3>3, <3>5 DEF Lost, Held
  <2> QED
    BY <2>2, <2>3
<1>3. CASE Lost(x, s, u, plenty, sure)
  BY <1>0, <1>1, <1>3 DEF Lost, Held
<1> QED
  BY <1>2, <1>3 DEF Held

----------------------------------------------------------------------------
\* Nothing on the wire is left after what a finished session acknowledged.
Near(x, wire) == x.fin = TRUE => Len(wire) <= x.nblk * DataLen

\* An upload between two blocks.  With the last block acknowledged, the stream
\* is closed and the buffer empty.
Between(x, s, wire, plenty) ==
  /\ x.blknum = x.nblk % (BlkMax + 1) /\ x.nblk <= LastBlock(wire)
  /\ Len(wire) < x.nblk * DataLen =>
       get_dsession(s, x.clsock, x.filename) = {} /\ x.sesbuf = <<>>
  /\ x.fin = FALSE => x.nblk * DataLen <= Len(wire)
  /\ Held(x, s, KnownTo(x, wire, EndOf(wire, x.nblk)), plenty, Near(x, wire))

\* An upload with `data` of block k still to be taken: g units came in.
CameIn(x, s, wire, data, k, plenty, g) ==
  /\ x.nblk * DataLen <= g /\ Left(wire, g, EndOf(wire, k), data)
  /\ Held(x, s, KnownTo(x, wire, g), plenty, Near(x, wire))

Within(x, s, wire, data, k, plenty) ==
  /\ x.blknum = x.nblk % (BlkMax + 1)
  /\ k = x.nblk + 1
  /\ x.fin = FALSE => k * DataLen <= Len(wire)
  /\ data # <<>> \/ x.sesbuf # <<>>
  /\ \E g \in Nat : CameIn(x, s, wire, data, k, plenty, g)

\* y is where x is in the transfer.
SamePlace(x, y) ==
  /\ Remains(x, y)
  /\ y.tftpmode = x.tftpmode /\ y.nblk = x.nblk /\ y.blknum = x.blknum

\* Two sessions at the same place have as much of the upload behind them.
LEMMA NearIs ==
  ASSUME NEW x, NEW y, SamePlace(x, y), NEW wire
  PROVE  /\ Near(x, wire) \in BOOLEAN /\ Near(y, wire) \in BOOLEAN
         /\ Near(y, wire) => Near(x, wire)
BY DEF Near, SamePlace, Remains

\* Between two blocks, a step of another session.
LEMMA BetweenKept ==
  ASSUME NEW s, StoreSound(s), NEW t, NEW free, NEW f, NEW w,
         Stepped(s, t, free, f, w), NEW x, x.clsock # w, NEW wire,
         NEW plenty \in BOOLEAN, Between(x, s, wire, plenty)
  PROVE  Between(x, t, wire, plenty)
<1> DEFINE near == Near(x, wire)
           u == KnownTo(x, wire, EndOf(wire, x.nblk))
<1>1. near \in BOOLEAN
  BY DEF Near
<1>2. get_dsession(t, x.clsock, x.filename) = get_dsession(s, x.clsock, x.filename)
  BY DEF Stepped, Apart
<1>3. Held(x, s, u, plenty, near)
  BY DEF Between
<1> HIDE DEF near, u
<1>4. Held(x, t, u, plenty, near)
  BY <1>1, <1>3, HeldKept
<1> QED
  BY <1>2, <1>4 DEF Between, near, u

\* A session that stays at its place.
LEMMA BetweenRemains ==
  ASSUME NEW x, NEW y, SamePlace(x, y), x.fin \in BOOLEAN, NEW s, NEW wire,
         NEW plenty \in BOOLEAN, Between(x, s, wire, plenty)
  PROVE  Between(y, s, wire, plenty)
<1> DEFINE near == Near(x, wire)
           m == Near(y, wire)
           u == KnownTo(x, wire, EndOf(wire, x.nblk))
<1>1. near \in BOOLEAN /\ m \in BOOLEAN /\ (m => near)
  BY NearIs
<1>2. Held(x, s, u, plenty, near) /\ Remains(x, y)
  BY DEF Between, SamePlace
<1>3. u = KnownTo(y, wire, EndOf(wire, y.nblk))
  BY DEF SamePlace, KnownTo
<1> HIDE DEF near, m, u
<1>4. Held(y, s, u, plenty, m)
  BY <1>1, <1>2, HeldRemains
<1> QED
  BY <1>3, <1>4 DEF Between, SamePlace, Remains, m

Discarded(x) == x.disabled = TRUE

\* A session that is discarded and its stream closed.
LEMMA BetweenCloses ==
  ASSUME NEW s, StoreSound(s), NEW x, x.sesbuf \in Seq(Unit), x.fin \in BOOLEAN,
         NEW y, SamePlace(x, y), Discarded(y), NEW t \in close_data(s, x),
         NEW wire, NEW plenty \in BOOLEAN, Between(x, s, wire, plenty)
  PROVE  Between(y, t, wire, plenty)
<1> DEFINE near == Near(y, wire)
           u == KnownTo(y, wire, EndOf(wire, y.nblk))
<1>1. near \in BOOLEAN
  BY NearIs
<1>2. Between(y, s, wire, plenty)
  BY BetweenRemains
<1>3. Held(y, s, u, plenty, near)
  BY <1>2 DEF Between
<1>4. y.sesbuf = x.sesbuf /\ y.clsock = x.clsock /\ y.filename = x.filename
  BY DEF SamePlace, Remains
<1>5. t \in close_data(s, y)
  BY <1>4 DEF close_data
<1>6. /\ Remains(y, y) /\ y.sesbuf \in Seq(Unit)
      /\ Over(y)
  BY <1>4 DEF Remains, Over, Discarded
<1>9. StoreSound(s) /\ plenty \in BOOLEAN
  OBVIOUS
<1> HIDE DEF near, u
<1>7. Held(y, t, u, plenty, near)
  BY <1>1, <1>3, <1>5, <1>6, <1>9, HeldCloses
<1>8. get_dsession(t, y.clsock, y.filename) = {}
  BY <1>5, CloseLands
<1> QED
  BY <1>2, <1>7, <1>8 DEF Between, near, u

----------------------------------------------------------------------------
Writer(x) == x.req = "WRQ" /\ x.clsock # NoSock

Storing(c) == pc = "put" /\ job.cl = c

Arrives(c, plenty) ==
  IF Storing(c) THEN Within(ses[c], ds, Sent(c), job.data, job.k, plenty)
  ELSE Between(ses[c], ds, Sent(c), plenty)

\* With descriptors to spare, every session got its socket.
AllSockets == \A c \in DOMAIN ses : ses[c].clsock # NoSock

UploadInv(plenty) ==
  /\ \A c \in DOMAIN ses : Writer(ses[c]) => Arrives(c, plenty)
  /\ plenty => AllSockets

\* The sessions that are not visited.
LEMMA OtherArrives ==
  ASSUME Inv, NEW plenty \in BOOLEAN, UploadInv(plenty), NEW c \in DOMAIN ses, NEW free,
         Stepped(ds, ds', free, ses[c].filename, ses[c].clsock),
         NEW b \in DOMAIN ses, b # c, ses'[b] = ses[b], Writer(ses'[b]),
         Storing(b) = FALSE, Storing(b)' = FALSE
  PROVE  Arrives(b, plenty)'
<1> DEFINE x == ses[b]
           wire == Sent(b)
<1>0. StoreSound(ds)
  BY DEF Inv
<1>1. Writer(x) /\ Sent(b)' = wire
  BY DEF Sent
<1>2. x.clsock # ses[c].clsock
  BY <1>1 DEF Inv, SocketInv, Writer
<1>3. Between(x, ds, wire, plenty)
  BY <1>1 DEF UploadInv, Arrives
<1> HIDE DEF wire
<1>4. Between(x, ds', wire, plenty)
  BY <1>0, <1>2, <1>3, BetweenKept
<1> QED
  BY <1>1, <1>4 DEF Arrives

\* So it remains to look at the session that is visited.
LEMMA VisitArrives ==
  ASSUME Inv, NEW plenty \in BOOLEAN, UploadInv(plenty), NEW c, Visits(c),
         pc = "recv" \/ (pc \in {"get", "put"} /\ job.cl = c),
         Writer(ses'[c]) => Arrives(c, plenty)'
  PROVE  UploadInv(plenty)'
<1>1. PICK y : /\ ses' = [ses EXCEPT ![c] = y]
               /\ Sound(y) /\ Continues(ses[c], y) /\ Outcome(c, y)
  BY DEF Visits
<1>2. /\ c \in DOMAIN ses
      /\ Stepped(ds, ds', Free, ses[c].filename, ses[c].clsock)
  BY DEF Visits
<1>3. pc' = "recv" \/ (pc' \in {"get", "put"} /\ job'.cl = c)
  BY <1>1 DEF Outcome
<1>4. ASSUME NEW b \in DOMAIN ses, b # c, Writer(ses'[b])
      PROVE  Arrives(b, plenty)'
  <2>1. ses'[b] = ses[b]
    BY <1>1, <1>4
  <2>2. Storing(b) = FALSE /\ Storing(b)' = FALSE
    BY <1>3, <1>4 DEF Storing
  <2> QED
    BY <1>2, <1>4, <2>1, <2>2, OtherArrives
<1>5. DOMAIN ses' = DOMAIN ses
  BY <1>1
<1>6. \A b \in DOMAIN ses' : Writer(ses'[b]) => Arrives(b, plenty)'
  BY <1>4, <1>5
<1>7. (\A b \in DOMAIN ses : Writer(ses[b]) => Arrives(b, plenty))'
  BY <1>6
<1>8. plenty => AllSockets'
  BY <1>1, <1>2 DEF UploadInv, AllSockets, Continues
<1> QED
  BY <1>7, <1>8 DEF UploadInv

\* The session is left as y, at `done`.
LEMMA DoneArrives ==
  ASSUME Inv, NEW plenty \in BOOLEAN, UploadInv(plenty), NEW c, Visits(c),
         pc = "recv" \/ (pc \in {"get", "put"} /\ job.cl = c),
         NEW y, NEW m, Done(c, y, m),
         Writer(y) => Between(y, ds', Wire(y.tftpmode, Upload(c, y.size)), plenty)
  PROVE  UploadInv(plenty)'
<1>1. c \in DOMAIN ses /\ ses' = [ses EXCEPT ![c] = y] /\ pc' = "recv"
  BY DEF Visits, Done, Return
<1>2. ses'[c] = y /\ Storing(c)' = FALSE
  BY <1>1 DEF Storing
<1>3. Sent(c)' = Wire(y.tftpmode, Upload(c, y.size))
  BY <1>2 DEF Sent
<1>4. Writer(ses'[c]) => Arrives(c, plenty)'
  BY <1>2, <1>3 DEF Arrives
<1> QED
  BY <1>4, VisitArrives

\* A reader is none of the uploads' business.
LEMMA ReaderArrives ==
  ASSUME Inv, NEW plenty \in BOOLEAN, UploadInv(plenty), NEW c, Visits(c),
         pc = "recv" \/ (pc \in {"get", "put"} /\ job.cl = c),
         ses[c].req = "RRQ"
  PROVE  UploadInv(plenty)'
<1>1. PICK y : ses' = [ses EXCEPT ![c] = y] /\ Continues(ses[c], y)
  BY DEF Visits
<1>2. ses'[c].req = "RRQ"
  BY <1>1 DEF Visits, Continues
<1>3. ~Writer(ses'[c])
  BY <1>2 DEF Writer
<1> QED
  BY <1>3, VisitArrives

\* The same upload, at the same place.
SameUpload(x, y) == SamePlace(x, y) /\ y.size = x.size /\ y.req = x.req

\* The session stays between two blocks; it may be discarded and its stream
\* closed.
LEMMA StayArrives ==
  ASSUME Inv, NEW plenty \in BOOLEAN, UploadInv(plenty), NEW c, Visits(c),
         pc = "recv", NEW y, NEW m, Done(c, y, m), SameUpload(ses[c], y),
         UNCHANGED ds \/ (Discarded(y) /\ ds' \in close_data(ds, ses[c]))
  PROVE  UploadInv(plenty)'
<1> DEFINE x == ses[c]
           wire == Sent(c)
<1>1. c \in DOMAIN ses /\ StoreSound(ds) /\ Sound(x)
  BY DEF Visits, Inv, TypeOK, Sound
<1>2. x.sesbuf \in Seq(Unit) /\ x.fin \in BOOLEAN
  BY <1>1, SessionParts
<1>3. /\ SamePlace(x, y) /\ (Writer(y) => Writer(x))
      /\ Wire(y.tftpmode, Upload(c, y.size)) = wire
  BY DEF SameUpload, SamePlace, Remains, Writer, Sent
<1>4. Writer(y) => Between(x, ds, wire, plenty)
  BY <1>1, <1>3 DEF UploadInv, Arrives, Storing
<1> HIDE DEF wire
<1>5. Writer(y) => Between(y, ds', wire, plenty)
  <2> SUFFICES ASSUME Writer(y) PROVE Between(y, ds', wire, plenty)
    OBVIOUS
  <2>1. Between(x, ds, wire, plenty)
    BY <1>4
  <2>2. CASE UNCHANGED ds
    <3>1. Between(y, ds, wire, plenty)
      BY <1>2, <1>3, <2>1, BetweenRemains
    <3> QED
      BY <2>2, <3>1
  <2>3. CASE Discarded(y) /\ ds' \in close_data(ds, x)
    BY <1>1, <1>2, <1>3, <2>1, <2>3, BetweenCloses
  <2> QED
    BY <2>2, <2>3
<1> QED
  BY <1>3, <1>5, DoneArrives

\* A repetition is answered, or the session given up.
LEMMA ResendArrives ==
  ASSUME Inv, NEW plenty \in BOOLEAN, UploadInv(plenty), NEW c, Visits(c),
         pc = "recv", Resend(c)
  PROVE  UploadInv(plenty)'
<1> DEFINE x == ses[c]
           y == [x EXCEPT !.age = 0, !.retrycount = @ + 1]
           z == [x EXCEPT !.disabled = TRUE]
<1>1. x \in Session
  BY DEF Visits, Inv, TypeOK
<1>2. CASE Done(c, y, x.lastmsg) /\ UNCHANGED ds
  <2>1. SameUpload(x, y)
    BY <1>1 DEF SameUpload, SamePlace, Remains, Session
  <2> HIDE DEF y
  <2> QED
    BY <1>2, <2>1, StayArrives
<1>3. CASE Done(c, z, sinfo) /\ ds' \in close_data(ds, x)
  <2>1. Discarded(z) /\ SameUpload(x, z)
    BY <1>1 DEF Discarded, SameUpload, SamePlace, Remains, Session
  <2> HIDE DEF z
  <2> QED
    BY <1>3, <2>1, StayArrives
<1> QED
  BY <1>2, <1>3 DEF Resend

\* errsend from a session between two blocks.
LEMMA ErrsendArrives ==
  ASSUME Inv, NEW plenty \in BOOLEAN, UploadInv(plenty), NEW c, Visits(c),
         pc = "recv", NEW code, Errsend(c, ses[c], code), UNCHANGED ds
  PROVE  UploadInv(plenty)'
<1> DEFINE x == ses[c]
           y == [x EXCEPT !.fin = TRUE]
<1>1. x \in Session
  BY DEF Visits, Inv, TypeOK
<1>2. SameUpload(x, y)
  BY <1>1 DEF SameUpload, SamePlace, Remains, Session
<1>3. Done(c, y, make_tftperr_msg(c, code))
  BY DEF Errsend
<1> HIDE DEF y
<1> QED
  BY <1>2, <1>3, StayArrives

\* Sessions that are as they were, or deleted, while the datastore is not
\* touched.
LEMMA AlikeArrives ==
  ASSUME Inv, NEW plenty \in BOOLEAN, UploadInv(plenty), UNCHANGED ds,
         DOMAIN ses' \subseteq DOMAIN ses,
         \A b \in DOMAIN ses' : SameUpload(ses[b], ses'[b]),
         pc # "put", pc' # "put"
  PROVE  UploadInv(plenty)'
<1>1. ASSUME NEW b \in DOMAIN ses', Writer(ses'[b])
      PROVE  Arrives(b, plenty)'
  <2> DEFINE x == ses[b]
             y == ses'[b]
             wire == Sent(b)
  <2>1. b \in DOMAIN ses /\ SamePlace(x, y) /\ Writer(x) /\ Sent(b)' = wire
    BY <1>1 DEF SameUpload, SamePlace, Remains, Writer, Sent
  <2>2. x.fin \in BOOLEAN
    BY <2>1 DEF Inv, TypeOK, Session
  <2>3. Storing(b) = FALSE /\ Storing(b)' = FALSE
    BY DEF Storing
  <2>4. Between(x, ds, wire, plenty)
    BY <2>1, <2>3 DEF UploadInv, Arrives
  <2> HIDE DEF wire
  <2>5. Between(y, ds, wire, plenty)
    BY <2>1, <2>2, <2>4, BetweenRemains
  <2> QED
    BY <2>1, <2>3, <2>5 DEF Arrives
<1>2. (\A b \in DOMAIN ses : Writer(ses[b]) => Arrives(b, plenty))'
  BY <1>1
<1>3. plenty => AllSockets'
  BY DEF UploadInv, AllSockets, SameUpload, SamePlace, Remains
<1> QED
  BY <1>2, <1>3 DEF UploadInv

\* Neither the store nor a session changes.
LEMMA StillArrives ==
  ASSUME Inv, NEW plenty \in BOOLEAN, UploadInv(plenty), UNCHANGED <<ds, ses>>,
         pc # "put", pc' # "put"
  PROVE  UploadInv(plenty)'
<1>1. \A b \in DOMAIN ses' : SameUpload(ses[b], ses'[b])
  BY DEF SameUpload, SamePlace, Remains
<1> QED
  BY <1>1, AlikeArrives

\* A datagram that is answered from outside the sessions.
LEMMA AnswerArrives ==
  ASSUME Inv, NEW plenty \in BOOLEAN, UploadInv(plenty), pc = "recv", Answers
  PROVE  UploadInv(plenty)'
<1>1. UNCHANGED <<ds, ses>> /\ pc' # "put"
  BY DEF Answers
<1> QED
  BY <1>1, StillArrives

\* A new session.
LEMMA AddArrives ==
  ASSUME Inv, NEW plenty \in BOOLEAN, UploadInv(plenty), NEW c, c \notin DOMAIN ses, NEW x,
         ses' = Put(ses, c, x), UNCHANGED ds, pc = "recv", pc' # "put",
         plenty => x.clsock # NoSock,
         Writer(x) => Between(x, ds, Wire(x.tftpmode, Upload(c, x.size)), plenty)
  PROVE  UploadInv(plenty)'
<1>1. /\ DOMAIN ses' = DOMAIN ses \cup {c} /\ ses'[c] = x
      /\ \A b \in DOMAIN ses : ses'[b] = ses[b] /\ b # c
  BY DEF Put
<1>2. ASSUME NEW b \in DOMAIN ses, Writer(ses'[b])
      PROVE  Arrives(b, plenty)'
  <2>1. Storing(b) = FALSE /\ Storing(b)' = FALSE
    BY DEF Storing
  <2>2. Between(ses[b], ds, Sent(b), plenty) /\ Sent(b)' = Sent(b)
    BY <1>1, <1>2, <2>1 DEF UploadInv, Arrives, Sent
  <2> QED
    BY <1>1, <2>1, <2>2 DEF Arrives
<1>3. ASSUME Writer(x) PROVE Arrives(c, plenty)'
  <2>1. Storing(c)' = FALSE /\ Sent(c)' = Wire(x.tftpmode, Upload(c, x.size))
    BY <1>1 DEF Storing, Sent
  <2> QED
    BY <1>1, <1>3, <2>1 DEF Arrives
<1>4. \A b \in DOMAIN ses' : Writer(ses'[b]) => Arrives(b, plenty)'
  BY <1>1, <1>2, <1>3
<1>5. (\A b \in DOMAIN ses : Writer(ses[b]) => Arrives(b, plenty))'
  BY <1>4
<1>6. plenty => AllSockets'
  BY <1>1 DEF UploadInv, AllSockets
<1> QED
  BY <1>5, <1>6 DEF UploadInv

----------------------------------------------------------------------------
\* An upload holds no CR.
LEMMA UploadClean ==
  ASSUME NEW c \in Client, NEW n \in 0 .. MaxUpload, NEW mode
  PROVE  Clean(mode, Upload(c, n)) /\ Len(Upload(c, n)) = n
<1> DEFINE text == Upload(c, n)
<1>1. n \in Nat /\ MaxUpload \in Nat /\ n <= MaxUpload
  BY Bounds
<1>2. \A i \in 1 .. n : (IF i \in LineEnds THEN LF ELSE <<c, i>>) \in Unit \ {CR}
  <2> SUFFICES ASSUME NEW i \in 1 .. n
               PROVE  (IF i \in LineEnds THEN LF ELSE <<c, i>>) \in Unit \ {CR}
    OBVIOUS
  <2>1. i \in 1 .. MaxUpload
    BY <1>1
  <2>2. <<c, i>> \in Unit \ {CR} /\ LF \in Unit \ {CR}
    BY <2>1, ServerAssumption, BufferAssumption
  <2> QED
    BY <2>2
<1>3. text \in Seq(Unit) /\ Len(text) = n
  <2>1. text = [i \in 1 .. n |-> IF i \in LineEnds THEN LF ELSE <<c, i>>]
    BY DEF Upload
  <2> QED
    BY <1>1, <1>2, <2>1
<1>4. \A i \in 1 .. Len(text) : text[i] # CR
  BY <1>2, <1>3 DEF Upload
<1> HIDE DEF text
<1>5. Clean(mode, text)
  BY <1>3, <1>4 DEF Clean
<1> QED
  BY <1>3, <1>5 DEF text

\* A new upload: nothing has come in.
LEMMA WRQArrives ==
  ASSUME Inv, NEW plenty \in BOOLEAN, UploadInv(plenty), NEW sock, NEW c \in Client,
         NEW f \in File, NEW mode, NEW n \in 0 .. MaxUpload,
         RecvWRQ(sock, c, f, mode, n)
  PROVE  UploadInv(plenty)'
<1>1. PICK fd \in Lowest(Free) :
        AddSession(c, make_tftpack_msg(c, NewSession(fd, f, mode, "WRQ", n), 0))
  BY DEF RecvWRQ
<1> DEFINE x == make_tftpack_msg(c, NewSession(fd, f, mode, "WRQ", n), 0)
           text == Upload(c, n)
           wire == Wire(mode, text)
<1>2. /\ c \notin DOMAIN ses /\ UNCHANGED ds /\ ses' = Put(ses, c, x)
      /\ pc = "recv" /\ pc' # "put" /\ f \notin DOMAIN ds.files
  BY <1>1 DEF RecvWRQ, Receive, Return, AddSession, iwds_isfile, is_dsfile
<1>3. fd \in Descriptor /\ fd # NoSock
  BY <1>1, StoreAssumption DEF Lowest, Free, NoSock
<1>4. /\ x.req = "WRQ" /\ x.clsock = fd /\ x.filename = f /\ x.tftpmode = mode
      /\ x.size = n /\ x.sesbuf = <<>> /\ x.fin = FALSE /\ x.nblk = 0
      /\ x.blknum = 0 % (BlkMax + 1)
  BY DEF NewSession, make_tftpack_msg, Remember
<1> HIDE DEF x
<1>5. text \in Seq(Unit)
  BY UploadClean DEF Clean
<1>6. wire \in Seq(Unit) /\ Len(wire) \in Nat
  BY <1>5, WireType, LenProperties
<1> HIDE DEF text
<1>7. get_dsession(ds, fd, f) = {}
  BY <1>2 DEF Inv, StoreSound, StreamsInside, get_dsession
<1> HIDE DEF wire
<1>8. EndOf(wire, 0) = 0 /\ 0 * DataLen = 0
  BY <1>6, Bounds DEF EndOf
<1>9. KnownTo(x, wire, 0) = <<>>
  <2>1. Upto(wire, 0) = <<>>
    BY LeadNone
  <2> QED
    BY <2>1, KnownNone DEF KnownTo
<1>10. Stored(x, ds, <<>>)
  <2>1. <<>> \in Seq(Unit) /\ <<>> \o <<>> = <<>>
    BY EmptySeq, ConcatEmptySeq
  <2>2. Written(ds, fd, f, <<>>)
    BY <1>7, <2>1 DEF Written
  <2> QED
    BY <1>4, <2>1, <2>2 DEF Stored
<1>0. 0 <= LastBlock(wire)
  BY <1>6, LastBlockType
<1>11. Between(x, ds, wire, plenty)
  BY <1>0, <1>4, <1>6, <1>8, <1>9, <1>10 DEF Between, Held
<1>12. Between(x, ds, Wire(x.tftpmode, Upload(c, x.size)), plenty)
  BY <1>4, <1>11 DEF wire, text
<1>13. x.clsock # NoSock
  BY <1>3, <1>4
<1> QED
  BY <1>2, <1>12, <1>13, AddArrives

\* A download is not an upload.
LEMMA RRQArrives ==
  ASSUME Inv, NEW plenty \in BOOLEAN, UploadInv(plenty), NEW sock, NEW c \in Client,
         NEW f, NEW mode, RecvRRQ(sock, c, f, mode)
  PROVE  UploadInv(plenty)'
<1>1. PICK fd \in Lowest(Free) :
        AddSession(c, Advanced(NewSession(fd, f, mode, "RRQ", 0)))
  BY DEF RecvRRQ
<1> DEFINE x == Advanced(NewSession(fd, f, mode, "RRQ", 0))
<1>2. /\ c \notin DOMAIN ses /\ UNCHANGED ds /\ ses' = Put(ses, c, x)
      /\ pc = "recv" /\ pc' # "put"
  BY <1>1 DEF RecvRRQ, Receive, Call, AddSession
<1>3. fd # NoSock
  BY <1>1, StoreAssumption DEF Lowest, Free, NoSock
<1>4. x.req = "RRQ" /\ x.clsock = fd
  BY DEF NewSession, Advanced
<1> HIDE DEF x
<1>5. ~Writer(x) /\ x.clsock # NoSock
  BY <1>3, <1>4 DEF Writer
<1> QED
  BY <1>2, <1>5, AddArrives

\* A session without a socket, which there is none of while descriptors last.
LEMMA NoSocketArrives ==
  ASSUME Inv, NEW plenty \in BOOLEAN, UploadInv(plenty), plenty => Free # {},
         NEW sock, NEW c \in Client, NEW req, NEW f, NEW mode, NEW n,
         RecvRequestNoSocket(sock, c, req, f, mode, n)
  PROVE  UploadInv(plenty)'
<1> DEFINE x == [NewSession(NoSock, f, mode, req, n) EXCEPT !.inherited = FALSE]
<1>1. /\ c \notin DOMAIN ses /\ UNCHANGED ds /\ ses' = Put(ses, c, x)
      /\ pc = "recv" /\ pc' # "put" /\ Free = {}
  BY DEF RecvRequestNoSocket, Receive, Return, AddSession
<1>2. x.clsock = NoSock
  BY DEF NewSession
<1> HIDE DEF x
<1>3. ~Writer(x) /\ (plenty => x.clsock # NoSock)
  BY <1>1, <1>2 DEF Writer
<1> QED
  BY <1>1, <1>3, AddArrives

----------------------------------------------------------------------------
\* get_session_data is a reader's.
LEMMA GetArrives ==
  ASSUME Inv, NEW plenty \in BOOLEAN, UploadInv(plenty), get_session_data
  PROVE  UploadInv(plenty)'
<1>1. pc = "get" /\ ses[job.cl].req = "RRQ"
  BY DEF get_session_data, Inv, JobInv
<1> QED
  BY <1>1, GetVisits, ReaderArrives

\* The session that is discarded while its stream is closed.
LEMMA OwnCloses ==
  ASSUME Inv, NEW plenty \in BOOLEAN, UploadInv(plenty), NEW c \in DOMAIN ses,
         NEW y, ses'[c] = y, SameUpload(ses[c], y), Discarded(y),
         ds' \in close_data(ds, ses[c]), Storing(c) = FALSE, Storing(c)' = FALSE
  PROVE  Writer(ses'[c]) => Arrives(c, plenty)'
<1> SUFFICES ASSUME Writer(ses'[c]) PROVE Arrives(c, plenty)'
  OBVIOUS
<1> DEFINE x == ses[c]
           wire == Sent(c)
<1>1. Sound(x) /\ StoreSound(ds)
  BY DEF Inv, TypeOK, Sound
<1>2. x.sesbuf \in Seq(Unit) /\ x.fin \in BOOLEAN
  BY <1>1, SessionParts
<1>3. SamePlace(x, y) /\ Writer(x) /\ Sent(c)' = wire
  BY DEF Writer, Sent, SameUpload, SamePlace, Remains
<1>4. Between(x, ds, wire, plenty)
  BY <1>3 DEF UploadInv, Arrives
<1> HIDE DEF wire
<1>5. Between(y, ds', wire, plenty)
  BY <1>1, <1>2, <1>3, <1>4, BetweenCloses
<1> QED
  BY <1>3, <1>5 DEF Arrives

\* The timer discards the session of c.
LEMMA TimerGivesUp ==
  ASSUME Inv, NEW plenty \in BOOLEAN, UploadInv(plenty), NEW c \in DOMAIN ses,
         pc = "resend", pc' = "resend",
         ses' = [ses EXCEPT ![c].disabled = TRUE], ds' \in close_data(ds, ses[c])
  PROVE  UploadInv(plenty)'
<1> DEFINE x == ses[c]
           y == [x EXCEPT !.disabled = TRUE]
<1>1. Sound(x) /\ StoreSound(ds)
  BY DEF Inv, TypeOK, Sound
<1>2. ses' = [ses EXCEPT ![c] = y] /\ Discarded(y) /\ SameUpload(x, y)
  BY <1>1 DEF Sound, Session, Discarded, SameUpload, SamePlace, Remains
<1> HIDE DEF y
<1>3. Stepped(ds, ds', {}, ses[c].filename, ses[c].clsock)
  BY <1>1, CloseSteps
<1>4. \A b : Storing(b) = FALSE /\ Storing(b)' = FALSE
  BY DEF Storing
<1>5. DOMAIN ses' = DOMAIN ses /\ ses'[c] = y
  BY <1>2
<1>6. ASSUME NEW b \in DOMAIN ses, b # c, Writer(ses'[b])
      PROVE  Arrives(b, plenty)'
  <2>1. ses'[b] = ses[b]
    BY <1>2, <1>6
  <2> QED
    BY <1>3, <1>4, <1>6, <2>1, OtherArrives
<1>7. Writer(ses'[c]) => Arrives(c, plenty)'
  BY <1>2, <1>4, <1>5, OwnCloses
<1>8. \A b \in DOMAIN ses' : Writer(ses'[b]) => Arrives(b, plenty)'
  BY <1>5, <1>6, <1>7
<1>9. (\A b \in DOMAIN ses : Writer(ses[b]) => Arrives(b, plenty))'
  BY <1>8
<1>10. plenty => AllSockets'
  BY <1>2 DEF UploadInv, AllSockets, SameUpload, SamePlace, Remains
<1> QED
  BY <1>9, <1>10 DEF UploadInv

\* The timer sends again, or gives the session up and closes its stream.
LEMMA ResendSessionArrives ==
  ASSUME Inv, NEW plenty \in BOOLEAN, UploadInv(plenty), ResendSession
  PROVE  UploadInv(plenty)'
<1> DEFINE c == Head(todo)
           x == ses[c]
<1>1. pc = "resend" /\ pc' = "resend" /\ todo # <<>>
  BY DEF ResendSession
<1>2. c \in DOMAIN ses /\ Sound(x) /\ StoreSound(ds)
  <2>1. /\ todo \in Seq(Client) /\ Distinct(todo) /\ Elements(todo) \subseteq DOMAIN ses
    BY DEF Inv, TypeOK, ListInv
  <2>2. c \in DOMAIN ses
    BY <1>1, <2>1, Visited
  <2> QED
    BY <2>2 DEF Inv, TypeOK, Sound
<1>3. CASE /\ ses' = [ses EXCEPT ![c].disabled = TRUE]
           /\ ds' \in close_data(ds, x)
  <2>1. c \in DOMAIN ses
    BY <1>2
  <2> HIDE DEF c
  <2> QED
    BY <1>1, <1>3, <2>1, TimerGivesUp
<1>4. CASE /\ ses' = [ses EXCEPT ![c].retrycount = @ + 1, ![c].age = 0]
           /\ UNCHANGED ds
  <2> DEFINE y == [[x EXCEPT !.retrycount = @ + 1] EXCEPT !.age = 0]
  <2>1. ses' = [ses EXCEPT ![c] = y]
    BY <1>4
  <2>2. SameUpload(x, y)
    BY <1>2 DEF Sound, Session, SameUpload, SamePlace, Remains
  <2> HIDE DEF y
  <2>3. \A b \in DOMAIN ses' : SameUpload(ses[b], ses'[b])
    BY <1>2, <2>1, <2>2 DEF SameUpload, SamePlace, Remains
  <2>4. DOMAIN ses' \subseteq DOMAIN ses
    BY <2>1
  <2> QED
    BY <1>1, <1>4, <2>3, <2>4, AlikeArrives
<1>5. CASE UNCHANGED <<ds, ses>>
  BY <1>1, <1>5, StillArrives
<1> QED
  BY <1>3, <1>4, <1>5 DEF ResendSession

\* Steps that touch the flags and the clocks of the sessions, or delete some.
LEMMA HousekeepingArrives ==
  ASSUME Inv, NEW plenty \in BOOLEAN, UploadInv(plenty),
         update_event \/ Tick \/ CleanupSession \/ del_allsession
  PROVE  UploadInv(plenty)'
<1>1. UNCHANGED ds /\ pc # "put" /\ pc' # "put" /\ DOMAIN ses' \subseteq DOMAIN ses
  BY DEF update_event, Tick, CleanupSession, del_allsession, del_session
<1>2. \A b \in DOMAIN ses : ses[b] \in Session
  BY DEF Inv, TypeOK
<1>3. ASSUME NEW b \in DOMAIN ses'
      PROVE  SameUpload(ses[b], ses'[b])
  <2>1. CASE \E e, r : ses'[b] = [ses[b] EXCEPT !.regevent = e, !.refused = r]
    BY <1>1, <1>2, <1>3, <2>1 DEF SameUpload, SamePlace, Remains, Session
  <2>2. CASE \E e : ses'[b] = [ses[b] EXCEPT !.age = e]
    BY <1>1, <1>2, <1>3, <2>2 DEF SameUpload, SamePlace, Remains, Session
  <2>3. CASE ses'[b] = ses[b]
    BY <2>3 DEF SameUpload, SamePlace, Remains
  <2>4. CASE update_event
    <3>1. \E R : ses'[b] = [ses[b] EXCEPT !.regevent = ~ses[b].disabled,
                                          !.refused = @ \/ b \in R]
      BY <1>3, <2>4 DEF update_event
    <3> QED
      BY <2>1, <3>1
  <2>5. CASE Tick
    <3>1. ses'[b] = [ses[b] EXCEPT !.age = IF @ < AgeMax THEN @ + 1 ELSE @]
      BY <1>3, <2>5 DEF Tick
    <3> QED
      BY <2>2, <3>1
  <2>6. CASE CleanupSession \/ del_allsession
    <3>1. ses'[b] = ses[b]
      BY <1>3, <2>6 DEF CleanupSession, del_allsession, del_session
    <3> QED
      BY <2>3, <3>1
  <2> QED
    BY <2>4, <2>5, <2>6
<1> QED
  BY <1>1, <1>3, AlikeArrives

\* No session is left when the streams that are left are closed.
LEMMA ExitArrives ==
  ASSUME Inv, TransferInv, NEW plenty \in BOOLEAN, UploadInv(plenty), iwds_exit
  PROVE  UploadInv(plenty)'
<1>1. DOMAIN ses' = {}
  BY DEF iwds_exit, TransferInv, Ending
<1>2. (\A b \in DOMAIN ses : Writer(ses[b]) => Arrives(b, plenty))' /\ AllSockets'
  BY <1>1 DEF AllSockets
<1> QED
  BY <1>2 DEF UploadInv

\* At the start there are no sessions.
LEMMA InitUploadInv ==
  ASSUME Init, NEW plenty \in BOOLEAN
  PROVE  UploadInv(plenty)
<1>1. DOMAIN ses = {}
  BY DEF Init
<1> QED
  BY <1>1 DEF UploadInv, AllSockets

----------------------------------------------------------------------------
\* Two blocks that are two apart have different numbers.
LEMMA TwoApart ==
  ASSUME NEW k \in Nat, NEW m, m = k + 2
  PROVE  k % (BlkMax + 1) # m % (BlkMax + 1)
<1> DEFINE n == BlkMax + 1
<1>1. n \in Nat \ {0} /\ n >= 3
  BY Bounds
<1> HIDE DEF n
<1>2. PICK q \in Nat : k = q * n + (k % n) /\ k % n \in 0 .. n - 1
  BY <1>1, DivRem
<1> DEFINE r == k % n
<1>3. k = q * n + r /\ r \in 0 .. n - 1 /\ r \in Nat
  BY <1>1, <1>2
<1> HIDE DEF r
<1>4. CASE r + 2 < n
  <2> DEFINE v == r + 2
  <2>1. m = q * n + v /\ v \in 0 .. n - 1 /\ m \in Nat /\ v # r
    BY <1>1, <1>3, <1>4
  <2> HIDE DEF v
  <2>2. m % n = v
    BY <1>1, <2>1, RemIs
  <2> QED
    BY <2>1, <2>2 DEF n, r
<1>5. CASE ~(r + 2 < n)
  <2> DEFINE v == r + 2 - n
             p == q + 1
  <2>1. m = p * n + v /\ v \in 0 .. n - 1 /\ m \in Nat /\ v # r /\ p \in Nat
    BY <1>1, <1>3, <1>5
  <2> HIDE DEF v, p
  <2>2. m % n = v
    BY <1>1, <2>1, RemIs
  <2> QED
    BY <2>1, <2>2 DEF n, r
<1> QED
  BY <1>4, <1>5

\* Where block k is on the wire, the one after n blocks.
BlockHere(wire, n, k, data) ==
  /\ n * DataLen <= Len(wire) /\ EndOf(wire, n) = n * DataLen
  /\ n * DataLen \in Nat
  /\ Left(wire, n * DataLen, EndOf(wire, k), data)
  /\ ~(Len(data) < DataLen) => k * DataLen <= Len(wire)
  /\ data = <<>> => Len(wire) <= n * DataLen /\ EndOf(wire, k) = EndOf(wire, n)

\* The block after the n-th of an upload, as its client cuts it, is there.
LEMMA BlockIsHere ==
  ASSUME NEW wire \in Seq(Unit), NEW n \in Nat, NEW k, k = n + 1,
         k <= LastBlock(wire), NEW data, data = Block(wire, k)
  PROVE  BlockHere(wire, n, k, data)
<1> DEFINE L == Len(wire)
           P == n * DataLen
           Q == k * DataLen
           end == EndOf(wire, k)
<1>0. L \in Nat /\ DataLen \in Nat /\ DataLen > 1
  BY LenProperties, BufferAssumption
<1>1. P \in Nat /\ Q = P + DataLen /\ (k - 1) * DataLen = P
  BY <1>0
<1>2. P <= L
  <2> DEFINE q == L \div DataLen
  <2>1. q \in Nat /\ q * DataLen <= L
    BY <1>0
  <2>2. n <= q
    BY <2>1 DEF LastBlock
  <2> HIDE DEF q, L
  <2>3. n * DataLen <= q * DataLen
    BY <1>0, <2>1, <2>2
  <2>4. L \in Nat /\ q * DataLen \in Nat /\ n * DataLen \in Nat
    BY <1>0, <2>1
  <2> DEFINE Q1 == q * DataLen
  <2>5. P <= Q1 /\ Q1 <= L /\ P \in Nat /\ Q1 \in Nat
    BY <1>1, <2>1, <2>3, <2>4
  <2> HIDE DEF Q1, P
  <2> QED
    BY <2>4, <2>5
<1>3. EndOf(wire, n) = P
  BY <1>2 DEF EndOf
<1>4. /\ end = IF Q <= L THEN Q ELSE L
      /\ data = SubSeq(wire, P + 1, end)
  BY <1>1 DEF EndOf, Block
<1> HIDE DEF P, Q, end, L
<1>5. end \in Nat /\ P <= end /\ end <= L
  BY <1>0, <1>1, <1>2, <1>4
<1>6. Left(wire, P, end, data)
  BY <1>1, <1>4, <1>5 DEF Left, L
<1>7. Len(data) = end - P
  <2>1. P + 1 \in Nat \ {0} /\ end \in Int /\ end <= Len(wire)
    BY <1>1, <1>5 DEF L
  <2>2. Len(SubSeq(wire, P + 1, end)) = IF P + 1 <= end THEN end - (P + 1) + 1 ELSE 0
    BY <2>1, PartType
  <2>3. P \in Nat /\ end \in Nat /\ P <= end
    BY <1>1, <1>5
  <2>4. (IF P + 1 <= end THEN end - (P + 1) + 1 ELSE 0) = end - P
    BY <2>3
  <2> QED
    BY <1>4, <2>2, <2>4
<1>8. ~(Len(data) < DataLen) => Q <= L
  BY <1>0, <1>1, <1>4, <1>5, <1>7
<1>9. data = <<>> => L <= P /\ end = P
  <2> SUFFICES ASSUME data = <<>> PROVE L <= P /\ end = P
    OBVIOUS
  <2>1. Len(data) = 0
    BY EmptySeq
  <2> QED
    BY <1>0, <1>1, <1>2, <1>4, <1>5, <1>7, <2>1
<1>10. P <= Len(wire) /\ (data = <<>> => Len(wire) <= P)
       /\ (~(Len(data) < DataLen) => Q <= Len(wire))
  BY <1>2, <1>8, <1>9 DEF L
<1> QED
  BY <1>1, <1>3, <1>6, <1>9, <1>10 DEF BlockHere, P, Q, end

\* A block is acknowledged, the last one with the stream closed.
LEMMA AckBetween ==
  ASSUME NEW s, StoreSound(s), NEW x, Sound(x), NEW wire, NEW k \in Nat,
         x.fin = FALSE => k * DataLen <= Len(wire), NEW plenty \in BOOLEAN,
         Held(x, s, KnownTo(x, wire, EndOf(wire, k)), plenty, TRUE),
         x.fin = TRUE => x.sesbuf = <<>>,
         NEW t, t \in IF x.fin THEN close_data(s, x) ELSE {s},
         NEW c, NEW y, y = make_tftpack_msg(c, x, k), Len(wire) \in Nat,
         k <= LastBlock(wire)
  PROVE  Between(y, t, wire, plenty)
<1> DEFINE u == KnownTo(x, wire, EndOf(wire, k))
           near == Near(y, wire)
           sure == TRUE
<1>0. x \in Session /\ x.sesbuf \in Seq(Unit) /\ x.fin \in BOOLEAN
  BY SessionParts DEF Sound
<1>1. /\ y.clsock = x.clsock /\ y.filename = x.filename /\ y.sesbuf = x.sesbuf
      /\ y.fin = x.fin /\ y.disabled = x.disabled /\ y.tftpmode = x.tftpmode
      /\ y.nblk = k /\ y.blknum = k % (BlkMax + 1)
  BY <1>0 DEF make_tftpack_msg, Remember, Session
<1>2. Remains(x, y) /\ near \in BOOLEAN /\ sure \in BOOLEAN /\ (near => sure)
  BY <1>1 DEF Remains, Near
<1>3. u = KnownTo(y, wire, EndOf(wire, y.nblk))
  BY <1>1 DEF KnownTo
<1> HIDE DEF u, near, sure
<1>4. Held(x, s, u, plenty, sure)
  BY DEF u, sure
<1>7. k * DataLen \in Nat
  BY Bounds
<1>5. CASE x.fin = FALSE
  <2>1. Held(y, s, u, plenty, near)
    BY <1>2, <1>4, HeldRemains
  <2> QED
    BY <1>1, <1>3, <1>5, <1>7, <2>1 DEF Between, near
<1>6. CASE x.fin = TRUE
  <2>1. t \in close_data(s, x) /\ Over(y)
    BY <1>1, <1>6 DEF Over
  <2>2. Held(y, t, u, plenty, sure)
    BY <1>0, <1>2, <1>4, <2>1, HeldCloses
  <2>3. Remains(y, y)
    BY DEF Remains
  <2>4. Held(y, t, u, plenty, near)
    BY <1>2, <2>2, <2>3, HeldRemains
  <2>5. get_dsession(t, x.clsock, x.filename) = {}
    BY <2>1, CloseLands
  <2> QED
    BY <1>1, <1>3, <1>6, <2>4, <2>5 DEF Between, near
<1> QED
  BY <1>0, <1>5, <1>6

----------------------------------------------------------------------------
(***************************************************************************)
(* A block comes in                                                        *)
(***************************************************************************)

\* Of the blocks around the current one, only the next has the next number.
LEMMA BlockAhead ==
  ASSUME NEW n \in Nat, NEW k \in Nat, k - n \in -1 .. 1,
         k % (BlkMax + 1) # n % (BlkMax + 1),
         k % (BlkMax + 1) = NextBlk(n % (BlkMax + 1))
  PROVE  k = n + 1
<1>1. k # n
  OBVIOUS
<1>2. ASSUME n = k + 1 PROVE FALSE
  <2> DEFINE m == n + 1
  <2>1. m = k + 2 /\ NextBlk(n % (BlkMax + 1)) = m % (BlkMax + 1)
    BY <1>2, NextBlkIs
  <2> HIDE DEF m
  <2>2. k % (BlkMax + 1) # m % (BlkMax + 1)
    BY <2>1, TwoApart
  <2> QED
    BY <2>1, <2>2
<1> QED
  BY <1>1, <1>2

\* So has it of all blocks, where they are few enough.
LEMMA FewBlocks ==
  ASSUME NEW n \in Nat, NEW B \in Nat, n <= B, B <= BlkMax, NEW k \in 1 .. B,
         k % (BlkMax + 1) = NextBlk(n % (BlkMax + 1))
  PROVE  k = n + 1
<1> DEFINE m == n + 1
           M == BlkMax + 1
<1>1. BlkMax \in Nat
  BY Bounds
<1>2. k % M = m % M
  BY NextBlkIs
<1>3. M \in Nat /\ k \in 1 .. M - 1 /\ m \in 1 .. M
  BY <1>1
<1> HIDE DEF m, M
<1>4. k % M = k
  BY <1>3
<1>5. CASE m = M
  <2>1. m % M = 0
    BY <1>3, <1>5
  <2> QED
    BY <1>2, <1>3, <1>4, <2>1
<1>6. CASE m # M
  <2>1. m % M = m
    BY <1>3, <1>6
  <2> QED
    BY <1>2, <1>4, <2>1 DEF m
<1> QED
  BY <1>5, <1>6

\* The next block of an upload has come in, to a session between two blocks.
Incoming(x, wire, k, data, y) ==
  /\ Sound(x) /\ wire \in Seq(Unit)
  /\ k = x.nblk + 1 /\ k <= LastBlock(wire) /\ data = Block(wire, k)
  /\ y = [x EXCEPT !.fin = @ \/ Len(data) < DataLen]

\* What that means for the two sessions.
LEMMA IncomingIs ==
  ASSUME NEW x, NEW wire, NEW k, NEW data, NEW y, Incoming(x, wire, k, data, y)
  PROVE  /\ BlockHere(wire, x.nblk, k, data)
         /\ SamePlace(x, y) /\ Sound(y) /\ k \in Nat
         /\ y.fin = FALSE => ~(Len(data) < DataLen) /\ x.fin = FALSE
         /\ Len(data) < DataLen => y.fin = TRUE
<1> DEFINE n == x.nblk
           b == x.fin \/ Len(data) < DataLen
<1>1. x \in Session /\ n \in Nat /\ x.fin \in BOOLEAN /\ wire \in Seq(Unit)
  BY SessionParts DEF Incoming, Sound
<1>2. k = n + 1 /\ k <= LastBlock(wire) /\ data = Block(wire, k)
  BY DEF Incoming
<1>3. y = [x EXCEPT !.fin = b] /\ b \in BOOLEAN
  BY <1>1 DEF Incoming
<1>4. b = FALSE => ~(Len(data) < DataLen) /\ x.fin = FALSE
  BY <1>1
<1>5. (x.fin = TRUE => b = TRUE) /\ (Len(data) < DataLen => b = TRUE)
  BY <1>1
<1> HIDE DEF b
<1>6. SamePlace(x, y) /\ y.fin = b
  BY <1>1, <1>3, <1>5 DEF SamePlace, Remains, Session
<1>7. Sound(y)
  BY <1>1, <1>3 DEF Incoming, Sound, Session
<1> HIDE DEF n
<1>8. BlockHere(wire, n, k, data)
  BY <1>1, <1>2, BlockIsHere
<1> QED
  BY <1>1, <1>2, <1>4, <1>5, <1>6, <1>7, <1>8 DEF n

\* An empty last block is acknowledged at once.
LEMMA EmptyBlock ==
  ASSUME NEW x, NEW wire, NEW k, NEW data, NEW y, Incoming(x, wire, k, data, y),
         NEW s, StoreSound(s), NEW plenty \in BOOLEAN, Between(x, s, wire, plenty),
         data = <<>>, x.sesbuf = <<>>,
         NEW c, NEW z, z = make_tftpack_msg(c, y, k),
         NEW t, t \in IF y.fin THEN close_data(s, y) ELSE {s}
  PROVE  Between(z, t, wire, plenty)
<1>1. /\ BlockHere(wire, x.nblk, k, data)
      /\ SamePlace(x, y) /\ Sound(y) /\ k \in Nat
      /\ Len(data) < DataLen => y.fin = TRUE
  BY IncomingIs
<1>2. StoreSound(s) /\ Len(wire) \in Nat
  BY LenProperties DEF Incoming
<1>3. y.fin = TRUE
  BY <1>1, EmptySeq, Bounds, BufferAssumption
<1>4. EndOf(wire, k) = EndOf(wire, x.nblk) /\ Len(wire) <= x.nblk * DataLen
  BY <1>1 DEF BlockHere
<1> DEFINE u == KnownTo(x, wire, EndOf(wire, x.nblk))
           near == Near(x, wire)
           sure == TRUE
<1>5. Held(x, s, u, plenty, near)
  BY DEF Between
<1>6. near \in BOOLEAN /\ sure \in BOOLEAN /\ (sure => near)
  BY <1>4 DEF Near
<1>7. Remains(x, y) /\ y.sesbuf = <<>>
  BY <1>1 DEF SamePlace, Remains
<1>8. u = KnownTo(y, wire, EndOf(wire, k))
  BY <1>1, <1>4 DEF SamePlace, KnownTo
<1> HIDE DEF u, near, sure
<1>9. Held(y, s, u, plenty, sure)
  BY <1>5, <1>6, <1>7, HeldRemains
<1>10. Held(y, s, KnownTo(y, wire, EndOf(wire, k)), plenty, TRUE)
  BY <1>8, <1>9 DEF sure
<1>11. k <= LastBlock(wire)
  BY DEF Incoming
<1> QED
  BY <1>1, <1>2, <1>3, <1>7, <1>10, <1>11, AckBetween

\* Any other block is given to put_session_data.
LEMMA BlockComesIn ==
  ASSUME NEW x, NEW wire, NEW k, NEW data, NEW y, Incoming(x, wire, k, data, y),
         NEW s, StoreSound(s), NEW plenty \in BOOLEAN, Between(x, s, wire, plenty),
         data # <<>> \/ x.sesbuf # <<>>
  PROVE  Within(y, s, wire, data, k, plenty)
<1> DEFINE g == x.nblk * DataLen
           u == KnownTo(x, wire, g)
           near == Near(x, wire)
           m == Near(y, wire)
<1>0. /\ BlockHere(wire, x.nblk, k, data)
      /\ SamePlace(x, y)
      /\ y.fin = FALSE => ~(Len(data) < DataLen)
  BY IncomingIs
<1>1. /\ BlockHere(wire, x.nblk, k, data)
      /\ SamePlace(x, y) /\ k = x.nblk + 1
      /\ y.fin = FALSE => ~(Len(data) < DataLen)
  BY <1>0 DEF Incoming
<1>2. /\ g \in Nat /\ Left(wire, g, EndOf(wire, k), data)
      /\ EndOf(wire, x.nblk) = g
      /\ y.fin = FALSE => k * DataLen <= Len(wire)
  BY <1>1 DEF BlockHere
<1>3. x.blknum = x.nblk % (BlkMax + 1) /\ Held(x, s, u, plenty, near)
  BY <1>2 DEF Between
<1>4. near \in BOOLEAN /\ m \in BOOLEAN /\ (m => near)
  BY <1>1, NearIs
<1>5. /\ Remains(x, y) /\ y.nblk = x.nblk /\ y.blknum = x.blknum
      /\ y.sesbuf = x.sesbuf
      /\ u = KnownTo(y, wire, g)
  BY <1>1 DEF SamePlace, Remains, KnownTo
<1> HIDE DEF u, near, m
<1>6. Held(y, s, u, plenty, m)
  BY <1>3, <1>4, <1>5, HeldRemains
<1>7. y.nblk * DataLen <= g
  BY <1>2, <1>5
<1>8. CameIn(y, s, wire, data, k, plenty, g)
  BY <1>2, <1>5, <1>6, <1>7 DEF CameIn, m
<1> HIDE DEF g
<1> QED
  BY <1>1, <1>2, <1>3, <1>5, <1>8 DEF Within

\* DATA of an upload.
LEMMA DataArrives ==
  ASSUME Inv, NEW plenty \in BOOLEAN, UploadInv(plenty), NEW sock,
         NEW c \in Client, c \in DOMAIN ses, ses[c].req = "WRQ",
         NEW k \in 1 .. LastBlock(Sent(c)),
         k - ses[c].nblk \in -1 .. 1 \/ LastBlock(Sent(c)) <= BlkMax,
         NEW data, data = Block(Sent(c), k), RecvData(sock, c, k, data)
  PROVE  UploadInv(plenty)'
<1> DEFINE x == ses[c]
           wire == Sent(c)
           y == [x EXCEPT !.fin = @ \/ Len(data) < DataLen]
           z == make_tftpack_msg(c, y, k)
<1>1. Sound(x) /\ StoreSound(ds) /\ x.nblk \in Nat
  BY SessionParts DEF Inv, TypeOK, Sound
<1>2. wire \in Seq(Unit) /\ LastBlock(wire) \in Nat
  <2>1. wire \in Seq(Unit)
    BY <1>1, SentType
  <2> HIDE DEF wire
  <2>2. Len(wire) \div DataLen \in Nat
    BY <2>1, LenProperties, BufferAssumption
  <2> QED
    BY <2>1, <2>2 DEF LastBlock
<1>3. k \in Nat \ {0} /\ k \in Nat /\ k <= LastBlock(wire)
  BY <1>2
<1>4. data \in Seq(Unit) /\ Len(data) <= DataLen
  BY <1>2, <1>3, BlockType
<1>5. Visits(c)
  BY <1>3, <1>4, RecvDataVisits
<1>6. pc = "recv"
  BY DEF RecvData, Receive
<1>7. CASE Resend(c)
  BY <1>5, <1>6, <1>7, ResendArrives
<1>8. CASE Errsend(c, x, ILLEGALOPE) /\ UNCHANGED ds
  BY <1>5, <1>6, <1>8, ErrsendArrives
<1>9. ASSUME k % (BlkMax + 1) # x.blknum, k % (BlkMax + 1) = NextBlk(x.blknum),
             Writer(x)
      PROVE  Between(x, ds, wire, plenty) /\ Incoming(x, wire, k, data, y)
  <2>1. Between(x, ds, wire, plenty)
    BY <1>6, <1>9 DEF UploadInv, Arrives, Storing
  <2>2. x.blknum = x.nblk % (BlkMax + 1)
    BY <2>1 DEF Between
  <2> DEFINE n == x.nblk
             B == LastBlock(wire)
  <2>3. /\ n \in Nat /\ k \in Nat /\ (k - n \in -1 .. 1 \/ B <= BlkMax)
        /\ n <= B /\ k \in 1 .. B /\ B \in Nat
        /\ k % (BlkMax + 1) # n % (BlkMax + 1)
        /\ k % (BlkMax + 1) = NextBlk(n % (BlkMax + 1))
    BY <1>1, <1>2, <1>3, <1>9, <2>1, <2>2 DEF Between
  <2> HIDE DEF n, B
  <2>4. k = n + 1
    BY <2>3, BlockAhead, FewBlocks
  <2> QED
    BY <1>1, <1>2, <1>3, <2>1, <2>4 DEF Incoming, n
<1>10. ASSUME k % (BlkMax + 1) # x.blknum, k % (BlkMax + 1) = NextBlk(x.blknum)
       PROVE  Writer(y) => Writer(x)
  BY <1>1 DEF Writer, Sound, Session
<1>11. y.tftpmode = x.tftpmode /\ y.size = x.size
  BY <1>1 DEF Sound, Session
<1>12. Wire(y.tftpmode, Upload(c, y.size)) = wire
  BY <1>11 DEF Sent
<1> HIDE DEF y
<1>13. ASSUME k % (BlkMax + 1) # x.blknum, k % (BlkMax + 1) = NextBlk(x.blknum),
              x.sesbuf = <<>> /\ data = <<>>, Acknowledge(c, y, ds, k)
       PROVE  UploadInv(plenty)'
  <2>1. /\ Done(c, z, z.lastmsg) /\ z = make_tftpack_msg(c, y, k)
        /\ ds' \in IF y.fin THEN close_data(ds, y) ELSE {ds}
    BY <1>13 DEF Acknowledge
  <2>2. z.tftpmode = y.tftpmode /\ z.size = y.size /\ (Writer(z) => Writer(y))
    <3>1. y \in Session
      BY <1>1 DEF y, Sound, Session
    <3> QED
      BY <3>1 DEF make_tftpack_msg, Remember, Session, Writer
  <2>3. Wire(z.tftpmode, Upload(c, z.size)) = wire
    BY <1>12, <2>2
  <2> HIDE DEF z, wire
  <2>4. Writer(z) => Between(z, ds', wire, plenty)
    <3> SUFFICES ASSUME Writer(z) PROVE Between(z, ds', wire, plenty)
      OBVIOUS
    <3>1. Between(x, ds, wire, plenty) /\ Incoming(x, wire, k, data, y)
      BY <1>9, <1>10, <1>13, <2>2
    <3>2. data = <<>> /\ x.sesbuf = <<>>
      BY <1>13
    <3> HIDE DEF x
    <3> QED
      BY <1>1, <2>1, <3>1, <3>2, EmptyBlock
  <2> QED
    BY <1>5, <1>6, <2>1, <2>3, <2>4, DoneArrives
<1>14. ASSUME k % (BlkMax + 1) # x.blknum, k % (BlkMax + 1) = NextBlk(x.blknum),
              x.sesbuf # <<>> \/ data # <<>>,
              ses' = [ses EXCEPT ![c] = y], Call("put", c, data, k), UNCHANGED ds
       PROVE  UploadInv(plenty)'
  <2>1. ses'[c] = y /\ Storing(c)' /\ job'.data = data /\ job'.k = k
    BY <1>14 DEF Call, Storing
  <2>2. Sent(c)' = wire
    BY <1>12, <2>1 DEF Sent
  <2> HIDE DEF wire
  <2>3. Writer(y) => Within(y, ds, wire, data, k, plenty)
    <3> SUFFICES ASSUME Writer(y) PROVE Within(y, ds, wire, data, k, plenty)
      OBVIOUS
    <3>1. Between(x, ds, wire, plenty) /\ Incoming(x, wire, k, data, y)
      BY <1>9, <1>10, <1>14
    <3>2. data # <<>> \/ x.sesbuf # <<>>
      BY <1>14
    <3> HIDE DEF x
    <3> QED
      BY <1>1, <3>1, <3>2, BlockComesIn
  <2>4. Writer(ses'[c]) => Arrives(c, plenty)'
    BY <1>14, <2>1, <2>2, <2>3 DEF Arrives
  <2> QED
    BY <1>5, <1>6, <2>4, VisitArrives
<1> QED
  BY <1>7, <1>8, <1>13, <1>14 DEF RecvData, y

----------------------------------------------------------------------------
(***************************************************************************)
(* A turn of put_session_data                                              *)
(***************************************************************************)

\* A turn of put_session_data, up to the save.
Turned(x, data, t, z, r) ==
  /\ StoreSound(ds) /\ Sound(x) /\ data \in Seq(Unit)
  /\ t = Given(x, data) /\ z = [x EXCEPT !.sesbuf = @ \o t.kept]
  /\ r \in Saved(ds, z, Free)

\* Nothing but the buffer is another.
AsBefore(x, y) ==
  /\ y.clsock = x.clsock /\ y.filename = x.filename /\ y.tftpmode = x.tftpmode
  /\ y.nblk = x.nblk /\ y.blknum = x.blknum /\ y.fin = x.fin
  /\ y.disabled = x.disabled /\ y.size = x.size /\ y.req = x.req
  /\ y.inherited = x.inherited /\ y.lastmsg = x.lastmsg

\* What the turn leaves: the buffer saved, or not full.
TurnLeaves(x, t, z, r) ==
  /\ Sound(z) /\ AsBefore(x, z) /\ z.sesbuf = x.sesbuf \o t.kept
  /\ t.kept \in Seq(Unit) /\ x.sesbuf \in Seq(Unit)
  /\ StoreSound(r.ds) /\ Sound(r.ses) /\ AsBefore(x, r.ses)
  /\ r.ses = z \/ r.ses.sesbuf = <<>>
  /\ \/ r \in save_data(ds, z, Free) /\ (r.ok => r.ses.sesbuf = <<>>)
        /\ (z.fin = TRUE \/ z.sesbuf # <<>>)
     \/ r.ok /\ r.ds = ds /\ r.ses = z /\ z.fin = FALSE

\* And every turn leaves them so.
LEMMA TurnedIs ==
  ASSUME NEW x, NEW data, NEW t, NEW z, NEW r,
         Turned(x, data, t, z, r)
  PROVE  TurnLeaves(x, t, z, r)
<1> DEFINE u == x.sesbuf \o t.kept
<1>0. StoreSound(ds) /\ Sound(x) /\ x \in Session /\ Free \in SUBSET Descriptor
  BY DEF Turned, Sound, Free
<1>1. x.sesbuf \in Seq(Unit) /\ Len(x.sesbuf) <= BufSize /\ x.fin \in BOOLEAN
  BY <1>0, SessionParts
<1>2. t.kept \in Seq(Unit) /\ Len(t.kept) <= BufSize - Len(x.sesbuf)
  <2>1. data \in Seq(Unit) /\ t = Given(x, data)
    BY DEF Turned
  <2> QED
    BY <1>1, <2>1, GivenType
<1>3. u \in Seq(Unit) /\ Len(u) <= BufSize
  BY <1>1, <1>2, RoomConcat, Bounds
<1>4. z = [x EXCEPT !.sesbuf = u]
  BY DEF Turned
<1> HIDE DEF u
<1>5. Sound(z) /\ z.sesbuf = u /\ z.fin = x.fin
  BY <1>0, <1>3, <1>4, BufferType
<1>6. AsBefore(x, z)
  BY <1>0, <1>4 DEF AsBefore, Session
<1>7. z.clsock \in Int /\ z.filename \in File /\ z.sesbuf \in Seq(Unit)
  BY <1>5, SessionParts
<1> DEFINE e == [z EXCEPT !.sesbuf = <<>>]
<1>8. Sound(e) /\ e.sesbuf = <<>>
  <2>1. <<>> \in Seq(Unit) /\ Len(<<>>) <= BufSize
    BY EmptySeq, Bounds
  <2> QED
    BY <1>5, <2>1, BufferType
<1>9. AsBefore(x, e)
  <2>1. z \in Session
    BY <1>5 DEF Sound
  <2> QED
    BY <1>6, <2>1 DEF AsBefore, Session
<1> HIDE DEF e
<1>10. CASE r = [ds |-> ds, ses |-> z, ok |-> TRUE] /\ ~z.fin
  <2>1. r.ok /\ r.ds = ds /\ r.ses = z /\ z.fin = FALSE
    BY <1>1, <1>5, <1>10
  <2> QED
    BY <1>0, <1>1, <1>2, <1>5, <1>6, <2>1 DEF u, TurnLeaves
<1>11. CASE r \in save_data(ds, z, Free) /\ (Len(z.sesbuf) = BufSize \/ z.fin)
  <2>1. /\ Stepped(ds, r.ds, Free, z.filename, z.clsock)
        /\ r.ses = z \/ r.ses = [z EXCEPT !.sesbuf = <<>>]
    BY <1>0, <1>7, <1>11, SaveSteps
  <2>2. StoreSound(r.ds) /\ (r.ses = z \/ r.ses = e)
    BY <2>1 DEF Stepped, e
  <2>3. r.ok => r.ses = e
    BY <1>11 DEF save_data, e
  <2>4. z.fin = TRUE \/ z.sesbuf # <<>>
    <3>1. BufSize # 0 /\ Len(<<>>) = 0
      BY BufferAssumption, StoreAssumption, EmptySeq
    <3> QED
      BY <1>1, <1>5, <1>11, <3>1
  <2> QED
    BY <1>1, <1>2, <1>5, <1>6, <1>8, <1>9, <1>11, <2>2, <2>3, <2>4 DEF u, TurnLeaves
<1>12. r \in IF Len(z.sesbuf) = BufSize \/ z.fin THEN save_data(ds, z, Free)
             ELSE {[ds |-> ds, ses |-> z, ok |-> TRUE]}
  BY DEF Turned, Saved
<1> QED
  BY <1>10, <1>11, <1>12

\* What was written, followed by the session buffer, is u.
Carries(x, s, u) ==
  \E o \in Seq(Unit) : Written(s, x.clsock, x.filename, o) /\ o \o x.sesbuf = u

\* With descriptors to spare, a stream that is not there has nothing to lose.
LEMMA HeldIsWritten ==
  ASSUME NEW x, NEW s, NEW u, NEW plenty \in BOOLEAN, NEW sure \in BOOLEAN,
         Held(x, s, u, plenty, sure)
  PROVE  \/ Carries(x, s, u)
         \/ /\ Over(x) /\ ~plenty
         \/ /\ plenty /\ Lost(x, s, u, plenty, sure)
            /\ Written(s, x.clsock, x.filename, <<>>)
<1>1. CASE Stored(x, s, u)
  BY <1>1 DEF Stored, Carries
<1>2. CASE Lost(x, s, u, plenty, sure) /\ plenty
  <2>1. get_dsession(s, x.clsock, x.filename) = {} /\ <<>> \in Seq(Unit)
    BY <1>2, EmptySeq DEF Lost
  <2> QED
    BY <1>2, <2>1 DEF Written
<1>3. CASE Lost(x, s, u, plenty, sure) /\ ~plenty
  BY <1>3 DEF Lost
<1> QED
  BY <1>1, <1>2, <1>3 DEF Held

\* The save failed: the session is through.  The stream could not be opened,
\* or the disk lost what it was given.
LEMMA TurnFails ==
  ASSUME NEW x, NEW data, NEW t, NEW z, NEW r,
         Turned(x, data, t, z, r), ~r.ok,
         NEW plenty \in BOOLEAN, plenty => Free # {},
         NEW u, NEW near \in BOOLEAN, Held(x, ds, u, plenty, near),
         NEW y, y = [r.ses EXCEPT !.fin = TRUE], NEW w, NEW m \in BOOLEAN,
         m => x.sesbuf # <<>>
  PROVE  Held(y, r.ds, w, plenty, m)
<1>00. TurnLeaves(x, t, z, r)
  BY TurnedIs
<1>0. /\ Sound(z) /\ AsBefore(x, z) /\ z.sesbuf = x.sesbuf \o t.kept
      /\ t.kept \in Seq(Unit) /\ x.sesbuf \in Seq(Unit)
      /\ Sound(r.ses) /\ AsBefore(x, r.ses)
      /\ r \in save_data(ds, z, Free)
  BY <1>00 DEF TurnLeaves
<1>1. StoreSound(ds) /\ Free \in SUBSET Descriptor
  BY DEF Turned, Free
<1>2. Over(y) /\ y.clsock = x.clsock /\ y.filename = x.filename
      /\ y.sesbuf = r.ses.sesbuf
  BY <1>0 DEF Over, AsBefore, Sound, Session
<1>3. ASSUME plenty
      PROVE  /\ get_dsession(r.ds, x.clsock, x.filename) = {}
             /\ x.filename \in DOMAIN r.ds.files \/ x.filename \in Unopenable
             /\ IoFaults \/ r.ses = z
  <2>1. PICK o : Written(ds, x.clsock, x.filename, o)
    BY <1>3, HeldIsWritten DEF Carries
  <2>2. z.clsock = x.clsock /\ z.filename = x.filename
        /\ z.clsock \in Int /\ z.filename \in File /\ z.sesbuf \in Seq(Unit)
    BY <1>0, SessionParts DEF AsBefore
  <2>3. Written(ds, z.clsock, z.filename, o)
    BY <2>1, <2>2
  <2> HIDE DEF Written
  <2>4. \/ /\ ~r.ok /\ r.ses = z /\ r.ds = ds
           /\ Barred(ds, z.clsock, z.filename, Free)
        \/ /\ Creates(ds, z.clsock, z.filename)
           /\ Savings(z, r, o \o z.sesbuf)
    BY <1>0, <1>1, <2>2, <2>3, SaveLands
  <2>5. CASE r.ses = z /\ r.ds = ds /\ Barred(ds, z.clsock, z.filename, Free)
    BY <1>3, <2>2, <2>5 DEF Barred
  <2>6. CASE Savings(z, r, o \o z.sesbuf)
    BY <2>2, <2>6 DEF Savings, Landed, Closed
  <2> QED
    BY <2>4, <2>5, <2>6
<1>4. ASSUME plenty, ~IoFaults, y.sesbuf = <<>>, m PROVE FALSE
  <2>1. x.sesbuf \o t.kept = <<>>
    BY <1>0, <1>2, <1>3, <1>4
  <2>2. x.sesbuf = <<>>
    BY <1>0, <2>1, ConcatSimplifications, EmptySeq
  <2> QED
    BY <1>4, <2>2
<1>5. Lost(y, r.ds, w, plenty, m)
  BY <1>2, <1>3, <1>4 DEF Lost
<1> QED
  BY <1>5 DEF Held

\* The turn went well: what it took out of the message is held, too.
LEMMA TurnHolds ==
  ASSUME NEW x, NEW data, NEW t, NEW z, NEW r,
         Turned(x, data, t, z, r), r.ok,
         NEW plenty \in BOOLEAN, NEW u \in Seq(Unit), NEW near \in BOOLEAN,
         Held(x, ds, u, plenty, near), x.fin = FALSE => near,
         NEW v, v = u \o t.kept, NEW m \in BOOLEAN
  PROVE  Held(r.ses, r.ds, v, plenty, m)
<1> DEFINE y == r.ses
           id == x.clsock
           f == x.filename
<1>00. TurnLeaves(x, t, z, r)
  BY TurnedIs
<1>0. /\ Sound(z) /\ AsBefore(x, z) /\ z.sesbuf = x.sesbuf \o t.kept
      /\ t.kept \in Seq(Unit) /\ x.sesbuf \in Seq(Unit)
      /\ Sound(y) /\ AsBefore(x, y)
      /\ \/ r \in save_data(ds, z, Free) /\ y.sesbuf = <<>>
            /\ (z.fin = TRUE \/ z.sesbuf # <<>>)
         \/ r.ds = ds /\ y = z /\ z.fin = FALSE
  BY <1>00 DEF TurnLeaves
<1>1. StoreSound(ds) /\ Free \in SUBSET Descriptor
  BY DEF Turned, Free
<1>2. /\ y.clsock = id /\ y.filename = f /\ z.clsock = id /\ z.filename = f
      /\ y.fin = x.fin /\ y.disabled = x.disabled /\ z.fin = x.fin
  BY <1>0 DEF AsBefore
<1>3. z.clsock \in Int /\ z.filename \in File /\ z.sesbuf \in Seq(Unit)
  BY <1>0, SessionParts
<1>4. \/ \E o \in Seq(Unit) : Written(ds, id, f, o) /\ o \o x.sesbuf = u
      \/ Over(x) /\ ~plenty
      \/ plenty /\ Lost(x, ds, u, plenty, near) /\ Written(ds, id, f, <<>>)
  <2>1. \/ Carries(x, ds, u)
        \/ Over(x) /\ ~plenty
        \/ plenty /\ Lost(x, ds, u, plenty, near) /\ Written(ds, id, f, <<>>)
    BY HeldIsWritten
  <2> QED
    BY <2>1 DEF Carries
<1>5. Over(x) => Over(y)
  BY <1>2 DEF Over
<1>6. CASE r.ds = ds /\ y = z /\ z.fin = FALSE
  <2>1. CASE \E o \in Seq(Unit) : Written(ds, id, f, o) /\ o \o x.sesbuf = u
    <3>1. PICK o \in Seq(Unit) : Written(ds, id, f, o) /\ o \o x.sesbuf = u
      BY <2>1
    <3> DEFINE a == x.sesbuf
               b == t.kept
    <3>5. o \in Seq(Unit) /\ a \in Seq(Unit) /\ b \in Seq(Unit)
      BY <1>0, <3>1
    <3>6. v = (o \o a) \o b /\ z.sesbuf = a \o b
      BY <1>0, <3>1
    <3> HIDE DEF a, b
    <3>7. (o \o a) \o b = o \o (a \o b)
      BY <3>5, Associative
    <3>2. o \o z.sesbuf = v
      BY <3>6, <3>7
    <3> QED
      BY <1>2, <1>6, <3>1, <3>2 DEF Held, Stored
  <2>2. CASE Over(x) /\ ~plenty
    BY <1>5, <2>2 DEF Held, Lost
  <2>3. CASE Lost(x, ds, u, plenty, near) /\ plenty
    <3>1. near
      BY <1>2, <1>6
    <3>2. ASSUME z.sesbuf = <<>> PROVE x.sesbuf = <<>> /\ v = u
      <4>2. x.sesbuf \o t.kept = <<>>
        BY <1>0, <3>2
      <4>1. x.sesbuf = <<>> /\ t.kept = <<>>
        BY <1>0, <4>2, ConcatSimplifications, EmptySeq
      <4> QED
        BY <4>1, ConcatEmptySeq
    <3>3. Lost(y, ds, v, plenty, m)
      BY <1>2, <1>5, <1>6, <2>3, <3>1, <3>2 DEF Lost
    <3> QED
      BY <1>6, <3>3 DEF Held
  <2> QED
    BY <1>4, <2>1, <2>2, <2>3
<1>7. CASE r \in save_data(ds, z, Free) /\ y.sesbuf = <<>>
           /\ (z.fin = TRUE \/ z.sesbuf # <<>>)
  <2>1. ASSUME NEW o, Written(ds, id, f, o)
        PROVE  Creates(ds, id, f) /\ Savings(z, r, o \o z.sesbuf)
    <3>1. Written(ds, z.clsock, z.filename, o)
      BY <1>2, <2>1
    <3>2. \/ /\ ~r.ok /\ r.ses = z /\ r.ds = ds
             /\ Barred(ds, z.clsock, z.filename, Free)
          \/ /\ Creates(ds, z.clsock, z.filename)
             /\ Savings(z, r, o \o z.sesbuf)
      BY <1>1, <1>3, <1>7, <3>1, SaveLands
    <3> QED
      BY <1>2, <3>2
  <2>2. CASE \E o \in Seq(Unit) : Written(ds, id, f, o) /\ o \o x.sesbuf = u
    <3>1. PICK o \in Seq(Unit) : Written(ds, id, f, o) /\ o \o x.sesbuf = u
      BY <2>2
    <3> DEFINE a == x.sesbuf
               b == t.kept
    <3>6. o \in Seq(Unit) /\ a \in Seq(Unit) /\ b \in Seq(Unit)
      BY <1>0, <3>1
    <3>7. v = u \o b /\ u = o \o a /\ z.sesbuf = a \o b
      BY <1>0, <3>1
    <3> HIDE DEF a, b
    <3>8. (o \o a) \o b = o \o (a \o b) /\ u \o b \in Seq(Unit)
      BY <3>6, Associative, UptoConcat
    <3>2. o \o z.sesbuf = v /\ v \in Seq(Unit)
      BY <3>7, <3>8
    <3>3. Savings(z, r, v)
      BY <2>1, <3>1, <3>2
    <3>4. CASE Streaming(r.ds, z.clsock, z.filename, v)
      <4>1. Written(r.ds, y.clsock, y.filename, v)
        BY <1>2, <3>2, <3>4 DEF Written, Streaming
      <4>2. v \o y.sesbuf = v
        BY <1>7, <3>2, ConcatEmptySeq
      <4> QED
        BY <3>2, <4>1, <4>2 DEF Held, Stored
    <3>5. CASE Landed(r.ds, z.clsock, z.filename, v) /\ z.sesbuf = <<>>
      <4>1. Over(y)
        BY <1>2, <1>7, <3>5 DEF Over
      <4>2. get_dsession(r.ds, y.clsock, y.filename) = {}
            /\ y.filename \in DOMAIN r.ds.files
            /\ (~IoFaults => Closed(r.ds, y.filename, v))
        BY <1>2, <3>5 DEF Landed, Closed
      <4>3. Lost(y, r.ds, v, plenty, m)
        BY <4>1, <4>2 DEF Lost
      <4> QED
        BY <4>3 DEF Held
    <3> QED
      BY <3>3, <3>4, <3>5 DEF Savings
  <2>3. CASE Over(x) /\ ~plenty
    BY <1>5, <2>3 DEF Held, Lost
  <2>4. CASE Lost(x, ds, u, plenty, near) /\ plenty /\ Written(ds, id, f, <<>>)
    <3>1. Creates(ds, id, f)
      BY <2>1, <2>4
    <3> QED
      BY <2>4, <3>1 DEF Lost, Creates
  <2> QED
    BY <1>4, <2>2, <2>3, <2>4
<1> QED
  BY <1>0, <1>6, <1>7

\* t takes out of data what g units of the wire are followed by.
Takes(x, wire, g, end, data, t) ==
  /\ KnownTo(x, wire, g) \in Seq(Unit)
  /\ \E p \in Nat :
       /\ Left(wire, p, end, SubSeq(data, t.used + 1, Len(data)))
       /\ KnownTo(x, wire, p) = KnownTo(x, wire, g) \o t.kept
       /\ g <= p

\* The units that came in, and the ones the turn takes.
LEMMA TakesUnits ==
  ASSUME NEW x, NEW data, NEW t, NEW z, NEW r, Turned(x, data, t, z, r),
         NEW wire, NEW g, NEW end, Left(wire, g, end, data)
  PROVE  Takes(x, wire, g, end, data, t)
<1>1. x.sesbuf \in Seq(Unit) /\ Len(x.sesbuf) <= BufSize /\ t = Given(x, data)
      /\ data \in Seq(Unit)
  BY SessionParts DEF Turned
<1>2. wire \in Seq(Unit) /\ g \in Nat /\ g <= Len(wire) /\ end \in Nat
  BY LenProperties DEF Left
<1>3. KnownTo(x, wire, g) \in Seq(Unit)
  <2> DEFINE u == Upto(wire, g)
  <2>1. u \in Seq(Unit)
    BY <1>2, LenProperties, UptoType
  <2> HIDE DEF u
  <2> QED
    BY <2>1, KnownType DEF KnownTo, u
<1>4. PICK p \in Nat : Kept(x.tftpmode, wire, g, end, data, t, p)
  BY <1>1, GivenKnown
<1>5. t.used \in Nat
  BY <1>1, GivenType, LenProperties
<1>6. /\ p = g + t.used
      /\ Left(wire, p, end, SubSeq(data, t.used + 1, Len(data)))
      /\ Known(x.tftpmode, Upto(wire, p)) = Known(x.tftpmode, Upto(wire, g)) \o t.kept
  BY <1>4 DEF Kept
<1>7. g <= p
  BY <1>2, <1>5, <1>6
<1> QED
  BY <1>3, <1>6, <1>7 DEF KnownTo, Takes

\* errsend from put_session_data.
LEMMA PutFails ==
  ASSUME NEW x, NEW data, NEW t, NEW z, NEW r, Turned(x, data, t, z, r), ~r.ok,
         NEW plenty \in BOOLEAN, plenty => Free # {},
         NEW wire \in Seq(Unit), NEW k, Within(x, ds, wire, data, k, plenty),
         NEW y, y = [r.ses EXCEPT !.fin = TRUE]
  PROVE  Between(y, r.ds, wire, plenty)
<1>1. PICK g \in Nat : CameIn(x, ds, wire, data, k, plenty, g)
  BY DEF Within
<1> DEFINE u == KnownTo(x, wire, g)
           near == Near(x, wire)
           m == Near(y, wire)
           w == KnownTo(y, wire, EndOf(wire, y.nblk))
           end == EndOf(wire, k)
<1>2. /\ x.nblk * DataLen <= g /\ Left(wire, g, end, data)
      /\ Held(x, ds, u, plenty, near)
      /\ x.blknum = x.nblk % (BlkMax + 1)
      /\ data # <<>> \/ x.sesbuf # <<>>
  BY <1>1 DEF CameIn, Within
<1>3. Sound(r.ses) /\ AsBefore(x, r.ses)
  <2>1. TurnLeaves(x, t, z, r)
    BY TurnedIs
  <2> QED
    BY <2>1 DEF TurnLeaves
<1>4. /\ y.nblk = x.nblk /\ y.blknum = x.blknum /\ y.fin = TRUE
  BY <1>3 DEF AsBefore, Sound, Session
<1>5. x.nblk \in Nat /\ x.nblk * DataLen \in Nat
  <2>1. x.nblk \in Nat
    BY SessionParts DEF Turned
  <2> QED
    BY <2>1, Bounds
<1>6. Len(wire) \in Nat /\ g <= end /\ end <= Len(wire) /\ end \in Nat
      /\ data = SubSeq(wire, g + 1, end)
  BY <1>2, LenProperties DEF Left
<1> HIDE DEF u, near, w, end
<1>7. near \in BOOLEAN /\ m \in BOOLEAN
  BY DEF near, Near
<1>8. m => x.sesbuf # <<>>
  <2> SUFFICES ASSUME m PROVE data = <<>>
    BY <1>2
  <2>1. Len(wire) <= x.nblk * DataLen
    BY <1>4 DEF Near
  <2>2. end = g
    BY <1>2, <1>5, <1>6, <2>1
  <2>3. data \in Seq(Unit) /\ Len(data) = 0
    <3>1. g + 1 \in Nat \ {0} /\ end \in Int /\ end <= Len(wire) /\ ~(g + 1 <= end)
      BY <1>6, <2>2
    <3> QED
      BY <1>6, <3>1, PartType
  <2> QED
    BY <2>3, EmptySeq
<1> HIDE DEF m
<1>9. Held(y, r.ds, w, plenty, m)
  BY <1>2, <1>7, <1>8, TurnFails
<1>10. ~(Len(wire) < y.nblk * DataLen)
  BY <1>2, <1>4, <1>5, <1>6
<1>11. y.nblk <= LastBlock(wire)
  <2> DEFINE n == y.nblk
  <2>1. n \in Nat /\ n * DataLen <= Len(wire)
    BY <1>2, <1>4, <1>5, <1>6
  <2> HIDE DEF n
  <2>2. n + 1 <= LastBlock(wire) /\ n + 1 \in 1 .. LastBlock(wire)
    BY <2>1, BlockCount
  <2>3. n <= LastBlock(wire)
    BY <2>1, <2>2, LastBlockType
  <2> QED
    BY <2>3 DEF n
<1> QED
  BY <1>2, <1>4, <1>9, <1>10, <1>11 DEF Between, m, w

\* A turn that went well.
PutGoesOn(y, s, wire, rest, k, plenty) ==
  /\ y.blknum = y.nblk % (BlkMax + 1) /\ k = y.nblk + 1
  /\ y.fin = FALSE => k * DataLen <= Len(wire)
  /\ y.fin = TRUE => y.sesbuf = <<>>
  /\ \E p \in Nat :
       /\ y.nblk * DataLen <= p /\ Left(wire, p, EndOf(wire, k), rest)
       /\ \A m \in BOOLEAN : Held(y, s, KnownTo(y, wire, p), plenty, m)

\* Every turn that went well leaves the upload so.
LEMMA PutWorks ==
  ASSUME NEW x, NEW data, NEW t, NEW z, NEW r, Turned(x, data, t, z, r), r.ok,
         NEW plenty \in BOOLEAN,
         NEW wire \in Seq(Unit), NEW k, Within(x, ds, wire, data, k, plenty),
         NEW rest, rest = SubSeq(data, t.used + 1, Len(data))
  PROVE  PutGoesOn(r.ses, r.ds, wire, rest, k, plenty)
<1>1. PICK g \in Nat : CameIn(x, ds, wire, data, k, plenty, g)
  BY DEF Within
<1> DEFINE u == KnownTo(x, wire, g)
           near == Near(x, wire)
           end == EndOf(wire, k)
           y == r.ses
<1>2. /\ x.nblk * DataLen <= g /\ Left(wire, g, end, data)
      /\ Held(x, ds, u, plenty, near)
      /\ x.blknum = x.nblk % (BlkMax + 1) /\ k = x.nblk + 1
      /\ x.fin = FALSE => k * DataLen <= Len(wire)
  BY <1>1 DEF CameIn, Within
<1>3. TurnLeaves(x, t, z, r)
  BY TurnedIs
<1>4. AsBefore(x, y) /\ (y.fin = TRUE => y.sesbuf = <<>>)
  BY <1>3 DEF TurnLeaves, AsBefore
<1> HIDE DEF end, near
<1>5. /\ u \in Seq(Unit)
      /\ \E p \in Nat :
           /\ Left(wire, p, end, SubSeq(data, t.used + 1, Len(data)))
           /\ KnownTo(x, wire, p) = u \o t.kept
           /\ g <= p
  <2>1. Takes(x, wire, g, end, data, t)
    BY <1>2, TakesUnits
  <2> QED
    BY <2>1 DEF Takes
<1>6. PICK p \in Nat : /\ Left(wire, p, end, rest)
                       /\ KnownTo(x, wire, p) = u \o t.kept
                       /\ g <= p
  BY <1>5
<1> DEFINE v == KnownTo(x, wire, p)
<1> HIDE DEF u
<1>7. near \in BOOLEAN /\ (x.fin = FALSE => near)
  BY DEF near, Near
<1>8. v = u \o t.kept /\ v = KnownTo(y, wire, p)
  BY <1>4, <1>6 DEF AsBefore, KnownTo
<1> HIDE DEF v
<1>9. ASSUME NEW m \in BOOLEAN
      PROVE  Held(y, r.ds, v, plenty, m)
  BY <1>2, <1>5, <1>7, <1>8, TurnHolds
<1>10. x.nblk \in Nat /\ x.nblk * DataLen \in Nat
  <2>1. x.nblk \in Nat
    BY SessionParts DEF Turned
  <2> QED
    BY <2>1, Bounds
<1>11. y.nblk = x.nblk /\ y.blknum = x.blknum /\ y.fin = x.fin
  BY <1>4 DEF AsBefore
<1>12. y.nblk * DataLen <= p
  BY <1>2, <1>6, <1>10, <1>11
<1>13. \A m \in BOOLEAN : Held(y, r.ds, KnownTo(y, wire, p), plenty, m)
  BY <1>8, <1>9
<1> HIDE DEF y
<1>14. \E q \in Nat :
         /\ y.nblk * DataLen <= q /\ Left(wire, q, end, rest)
         /\ \A m \in BOOLEAN : Held(y, r.ds, KnownTo(y, wire, q), plenty, m)
  BY <1>6, <1>12, <1>13
<1>15. PutGoesOn(y, r.ds, wire, rest, k, plenty)
  BY <1>2, <1>4, <1>11, <1>14 DEF PutGoesOn, end
<1> QED
  BY <1>15 DEF y

\* The block is stored: it is acknowledged.
LEMMA PutEnds ==
  ASSUME NEW y, Sound(y), NEW s, StoreSound(s), NEW wire \in Seq(Unit), NEW rest,
         NEW k, NEW plenty \in BOOLEAN, PutGoesOn(y, s, wire, rest, k, plenty),
         rest = <<>>, NEW c, NEW q, q = make_tftpack_msg(c, y, k),
         NEW e, e \in IF y.fin THEN close_data(s, y) ELSE {s}
  PROVE  Between(q, e, wire, plenty)
<1> DEFINE end == EndOf(wire, k)
<1>1. PICK p \in Nat :
        /\ Left(wire, p, end, rest)
        /\ \A m \in BOOLEAN : Held(y, s, KnownTo(y, wire, p), plenty, m)
  BY DEF PutGoesOn
<1>2. k \in Nat /\ (y.fin = FALSE => k * DataLen <= Len(wire))
      /\ (y.fin = TRUE => y.sesbuf = <<>>) /\ Len(wire) \in Nat
  <2>1. y.nblk \in Nat
    BY SessionParts
  <2> QED
    BY <2>1, LenProperties DEF PutGoesOn
<1>3. p = end
  <2>1. p <= end /\ end \in Nat /\ end <= Len(wire) /\ rest = SubSeq(wire, p + 1, end)
    BY <1>1 DEF Left
  <2> HIDE DEF end
  <2>2. p + 1 \in Nat \ {0} /\ end \in Int
    BY <2>1
  <2>3. Len(rest) = IF p + 1 <= end THEN end - (p + 1) + 1 ELSE 0
    BY <2>1, <2>2, PartType
  <2>4. Len(rest) = 0
    BY EmptySeq
  <2> QED
    BY <2>1, <2>3, <2>4
<1>4. Held(y, s, KnownTo(y, wire, EndOf(wire, k)), plenty, TRUE)
  BY <1>1, <1>3
<1>5. k <= LastBlock(wire)
  <2> DEFINE n == y.nblk
  <2>1. PICK g \in Nat : n * DataLen <= g /\ Left(wire, g, end, rest)
    BY DEF PutGoesOn
  <2>2. g <= end /\ end \in Nat /\ end <= Len(wire)
    BY <2>1 DEF Left
  <2>3. n \in Nat /\ n * DataLen \in Nat
    BY SessionParts, Bounds
  <2> HIDE DEF n, end
  <2>4. n * DataLen <= Len(wire)
    BY <1>2, <2>1, <2>2, <2>3
  <2>5. n + 1 <= LastBlock(wire)
    BY <2>3, <2>4, BlockCount
  <2> QED
    BY <2>5 DEF PutGoesOn, n
<1> QED
  BY <1>2, <1>4, <1>5, AckBetween

\* Something of the block is left: on to the next turn.
LEMMA PutContinues ==
  ASSUME NEW y, NEW s, NEW wire, NEW rest, rest # <<>>,
         NEW k, NEW plenty \in BOOLEAN, PutGoesOn(y, s, wire, rest, k, plenty)
  PROVE  Within(y, s, wire, rest, k, plenty)
<1>1. PICK p \in Nat :
        /\ y.nblk * DataLen <= p /\ Left(wire, p, EndOf(wire, k), rest)
        /\ \A m \in BOOLEAN : Held(y, s, KnownTo(y, wire, p), plenty, m)
  BY DEF PutGoesOn
<1>2. Near(y, wire) \in BOOLEAN
  BY DEF Near
<1>3. CameIn(y, s, wire, rest, k, plenty, p)
  BY <1>1, <1>2 DEF CameIn
<1> QED
  BY <1>3 DEF Within, PutGoesOn

\* The session is left as y, with put_session_data to be called again.
LEMMA CallArrives ==
  ASSUME Inv, NEW plenty \in BOOLEAN, UploadInv(plenty), NEW c, Visits(c),
         pc = "put" /\ job.cl = c,
         NEW y, ses' = [ses EXCEPT ![c] = y],
         NEW rest, NEW k, Call("put", c, rest, k),
         Writer(y) =>
           Within(y, ds', Wire(y.tftpmode, Upload(c, y.size)), rest, k, plenty)
  PROVE  UploadInv(plenty)'
<1>1. ses'[c] = y /\ Storing(c)' /\ job'.data = rest /\ job'.k = k
  BY DEF Call, Storing, Visits
<1>2. Sent(c)' = Wire(y.tftpmode, Upload(c, y.size))
  BY <1>1 DEF Sent
<1>3. Writer(ses'[c]) => Arrives(c, plenty)'
  BY <1>1, <1>2 DEF Arrives
<1> QED
  BY <1>3, VisitArrives

\* One turn of put_session_data.
LEMMA PutArrives ==
  ASSUME Inv, NEW plenty \in BOOLEAN, UploadInv(plenty), plenty => Free # {},
         put_session_data
  PROVE  UploadInv(plenty)'
<1> DEFINE c    == job.cl
           x    == ses[c]
           data == job.data
           k    == job.k
           t    == Given(x, data)
           rest == SubSeq(data, t.used + 1, Len(data))
           z    == [x EXCEPT !.sesbuf = @ \o t.kept]
           wire == Sent(c)
<1>1. /\ c \in DOMAIN ses /\ c \in Client /\ Sound(x) /\ x.req = "WRQ"
      /\ StoreSound(ds) /\ data \in Seq(Unit) /\ pc = "put"
  BY DEF Inv, TypeOK, JobInv, Sound, put_session_data
<1>2. PICK r \in Saved(ds, z, Free) :
       \/ ~r.ok /\ Errsend(c, r.ses, ACCESSDENY) /\ ds' = r.ds
       \/ r.ok /\ rest = <<>> /\ Acknowledge(c, r.ses, r.ds, k)
       \/ /\ r.ok /\ rest # <<>>
          /\ ds' = r.ds
          /\ ses' = [ses EXCEPT ![c] = r.ses]
          /\ Call("put", c, rest, k)
  BY DEF put_session_data
<1>3. Visits(c)
  BY PutVisits
<1>4. wire \in Seq(Unit)
  BY <1>1, SentType
<1>5. Turned(x, data, t, z, r)
  BY <1>1, <1>2 DEF Turned
<1>6. TurnLeaves(x, t, z, r)
  BY <1>5, TurnedIs
<1> DEFINE y == r.ses
<1>7. /\ AsBefore(x, y) /\ Sound(y) /\ StoreSound(r.ds)
  BY <1>6 DEF TurnLeaves
<1>8. Writer(x) => Within(x, ds, wire, data, k, plenty)
  BY <1>1 DEF UploadInv, Arrives, Storing
<1>9. /\ y.tftpmode = x.tftpmode /\ y.size = x.size
      /\ Writer(y) <=> Writer(x)
  BY <1>7 DEF AsBefore, Writer
<1>10. Wire(y.tftpmode, Upload(c, y.size)) = wire
  BY <1>9 DEF Sent
<1> HIDE DEF t, rest, z, y
<1>11. CASE ~r.ok /\ Errsend(c, y, ACCESSDENY) /\ ds' = r.ds
  <2> DEFINE q == [y EXCEPT !.fin = TRUE]
  <2>1. /\ Done(c, q, make_tftperr_msg(c, ACCESSDENY))
        /\ q = [r.ses EXCEPT !.fin = TRUE]
    BY <1>11 DEF Errsend, y
  <2>2. q.tftpmode = y.tftpmode /\ q.size = y.size /\ (Writer(q) <=> Writer(y))
    BY <1>7 DEF Sound, Session, Writer
  <2>3. Wire(q.tftpmode, Upload(c, q.size)) = wire
    BY <1>10, <2>2
  <2> HIDE DEF q, wire, x, data, k
  <2>4. Writer(q) => Between(q, ds', wire, plenty)
    <3> SUFFICES ASSUME Writer(q) PROVE Between(q, r.ds, wire, plenty)
      BY <1>11
    <3>1. Within(x, ds, wire, data, k, plenty)
      BY <1>8, <1>9, <2>2
    <3>2. ~r.ok
      BY <1>11
    <3> QED
      BY <1>4, <1>5, <2>1, <3>1, <3>2, PutFails
  <2> HIDE DEF c
  <2> QED
    BY <1>1, <1>3, <2>1, <2>3, <2>4, DoneArrives DEF c
<1>12. ASSUME r.ok, Writer(x)
       PROVE  PutGoesOn(y, r.ds, wire, rest, k, plenty)
  <2>1. Within(x, ds, wire, data, k, plenty) /\ rest = SubSeq(data, t.used + 1, Len(data))
    BY <1>8, <1>12 DEF rest
  <2> HIDE DEF x, data, k, wire
  <2>2. PutGoesOn(r.ses, r.ds, wire, rest, k, plenty)
    BY <1>4, <1>5, <1>12, <2>1, PutWorks
  <2> QED
    BY <2>2 DEF y
<1>13. CASE r.ok /\ rest = <<>> /\ Acknowledge(c, y, r.ds, k)
  <2> DEFINE q == make_tftpack_msg(c, y, k)
  <2>1. /\ Done(c, q, q.lastmsg) /\ q = make_tftpack_msg(c, y, k)
        /\ ds' \in IF y.fin THEN close_data(r.ds, y) ELSE {r.ds}
    BY <1>13 DEF Acknowledge
  <2>2. q.tftpmode = y.tftpmode /\ q.size = y.size /\ (Writer(q) <=> Writer(y))
    BY <1>7 DEF make_tftpack_msg, Remember, Sound, Session, Writer
  <2>3. Wire(q.tftpmode, Upload(c, q.size)) = wire
    BY <1>10, <2>2
  <2> HIDE DEF q, wire, x, data, k
  <2>4. Writer(q) => Between(q, ds', wire, plenty)
    <3> SUFFICES ASSUME Writer(q) PROVE Between(q, ds', wire, plenty)
      OBVIOUS
    <3>1. PutGoesOn(y, r.ds, wire, rest, k, plenty)
      BY <1>9, <1>12, <1>13, <2>2
    <3>2. rest = <<>>
      BY <1>13
    <3> QED
      BY <1>4, <1>7, <2>1, <3>1, <3>2, PutEnds
  <2> HIDE DEF c
  <2> QED
    BY <1>1, <1>3, <2>1, <2>3, <2>4, DoneArrives DEF c
<1>14. CASE /\ r.ok /\ rest # <<>> /\ ds' = r.ds
            /\ ses' = [ses EXCEPT ![c] = y] /\ Call("put", c, rest, k)
  <2>1. Writer(y) => Within(y, r.ds, wire, rest, k, plenty)
    <3> SUFFICES ASSUME Writer(y) PROVE Within(y, r.ds, wire, rest, k, plenty)
      OBVIOUS
    <3>1. PutGoesOn(y, r.ds, wire, rest, k, plenty)
      BY <1>9, <1>12, <1>14
    <3>2. rest # <<>>
      BY <1>14
    <3> HIDE DEF wire, k
    <3> QED
      BY <3>1, <3>2, PutContinues
  <2>2. Writer(y) =>
          Within(y, ds', Wire(y.tftpmode, Upload(c, y.size)), rest, k, plenty)
    BY <1>10, <1>14, <2>1
  <2>3. pc = "put" /\ job.cl = c
    BY <1>1
  <2> HIDE DEF c, wire, k
  <2> QED
    BY <1>3, <1>14, <2>2, <2>3, CallArrives
<1> QED
  BY <1>2, <1>11, <1>13, <1>14 DEF y, rest, t, z

----------------------------------------------------------------------------
(***************************************************************************)
(* Every step keeps the place of an upload                                 *)
(***************************************************************************)

\* Every datagram.
LEMMA DatagramArrives ==
  ASSUME Inv, NEW plenty \in BOOLEAN, UploadInv(plenty), plenty => Free # {},
         NEW sock, NEW c \in Client, Datagram(sock, c)
  PROVE  UploadInv(plenty)'
<1>0. pc = "recv"
  BY DatagramShapes
<1>1. CASE RecvRepeatedRequest(sock, c)
  <2>1. c \in DOMAIN ses /\ Resend(c) /\ Receive(sock)
    BY <1>1 DEF RecvRepeatedRequest
  <2>2. /\ Aside /\ StoreSound(ds) /\ sinfo \in Message
        /\ Sound(ses[c]) /\ Current(ses[c])
    BY <2>1, AtReceive
  <2>3. Visits(c)
    BY <2>1, <2>2, ResendVisits
  <2> QED
    BY <1>0, <2>1, <2>3, ResendArrives
<1>2. CASE \E req \in Request, f \in File : RecvRefusedRequest(sock, c, req, f)
  <2>1. \E code \in Nat : Refuse(c, code)
    BY <1>2 DEF RecvRefusedRequest, NOTFOUND, FILEEXIST
  <2>2. Aside
    BY <1>2 DEF RecvRefusedRequest, Receive, Aside
  <2> QED
    BY <1>0, <2>1, <2>2, RefuseType, AnswerArrives
<1>3. CASE \E req \in Request, f \in File, mode \in Mode : \E n \in Sizes(req) :
             RecvRequestNoSocket(sock, c, req, f, mode, n)
  BY <1>3, NoSocketArrives
<1>4. CASE \E f \in File, mode \in Mode : RecvRRQ(sock, c, f, mode)
  BY <1>4, RRQArrives
<1>5. CASE \E f \in File, mode \in Mode, n \in 0 .. MaxUpload :
             RecvWRQ(sock, c, f, mode, n)
  BY <1>5, WRQArrives
<1>6. CASE /\ c \in DOMAIN ses /\ ses[c].req = "WRQ"
           /\ \E k \in 1 .. LastBlock(Sent(c)) :
                k - ses[c].nblk \in -1 .. 1 /\ RecvData(sock, c, k, Block(Sent(c), k))
  BY <1>6, DataArrives
<1>7. CASE /\ c \in DOMAIN ses /\ ses[c].req = "RRQ"
           /\ \E k \in 1 .. ses[c].nblk : RecvAck(sock, c, k)
  <2>1. PICK k \in 1 .. ses[c].nblk : RecvAck(sock, c, k)
    BY <1>7
  <2>2. k \in Nat
    BY <1>7 DEF Inv, TypeOK, Session
  <2>3. Visits(c) \/ Answers
    BY <1>7, <2>1, <2>2, RecvAckVisits
  <2> QED
    BY <1>0, <1>7, <2>3, ReaderArrives, AnswerArrives
<1>8. CASE RecvError(sock, c)
  <2> DEFINE y == [ses[c] EXCEPT !.disabled = TRUE]
  <2>1. /\ c \in DOMAIN ses /\ ds' \in close_data(ds, ses[c]) /\ Done(c, y, sinfo)
        /\ Receive(sock)
    BY <1>8 DEF RecvError
  <2>2. /\ Aside /\ StoreSound(ds) /\ sinfo \in Message
        /\ Sound(ses[c]) /\ Current(ses[c])
        /\ Stepped(ds, ds, Free, ses[c].filename, ses[c].clsock)
    BY <2>1, AtReceive
  <2>3. Stepped(ds, ds', Free, ses[c].filename, ses[c].clsock)
    BY <2>1, <2>2, CloseAfter
  <2>4. Visits(c)
    BY <2>1, <2>2, <2>3, DiscardVisits
  <2>5. Discarded(y) /\ SameUpload(ses[c], y)
    BY <2>2 DEF Discarded, SameUpload, SamePlace, Remains, Sound, Session
  <2> HIDE DEF y
  <2> QED
    BY <1>0, <2>1, <2>4, <2>5, StayArrives
<1>9. CASE RecvStray(sock, c)
  <2>1. Aside /\ Refuse(c, UNKNOWNID) /\ UNKNOWNID \in Nat
    BY <1>9 DEF RecvStray, Receive, Aside, UNKNOWNID
  <2> QED
    BY <1>0, <2>1, RefuseType, AnswerArrives
<1>10. CASE RecvOwn(sock, c)
  <2>1. UNCHANGED <<ds, ses>> /\ pc' = "recv"
    BY <1>10 DEF RecvOwn, Return
  <2> QED
    BY <1>0, <2>1, StillArrives
<1>11. CASE RecvUnparsable(sock, c)
  <2>0. Receive(sock) /\ ILLEGALOPE \in Nat
    BY <1>11 DEF RecvUnparsable, ILLEGALOPE
  <2>1. CASE c \in DOMAIN ses /\ Errsend(c, ses[c], ILLEGALOPE) /\ UNCHANGED ds
    <3>1. /\ Aside /\ StoreSound(ds) /\ sinfo \in Message
          /\ Sound(ses[c]) /\ Continues(ses[c], ses[c])
          /\ Stepped(ds, ds', Free, ses[c].filename, ses[c].clsock)
      BY <2>0, <2>1, AtReceive
    <3>2. Visits(c)
      BY <2>0, <2>1, <3>1, ErrsendVisits
    <3> QED
      BY <1>0, <2>1, <3>2, ErrsendArrives
  <2>2. CASE Refuse(c, ILLEGALOPE)
    <3>1. Aside
      BY <2>0 DEF Receive, Aside
    <3> QED
      BY <1>0, <2>0, <2>2, <3>1, RefuseType, AnswerArrives
  <2> QED
    BY <1>11, <2>1, <2>2 DEF RecvUnparsable
<1>12. CASE RecvUnknownOpcode(sock, c)
  <2>1. /\ Receive(sock) /\ SendOld(c)
    BY <1>12 DEF RecvUnknownOpcode
  <2>2. Aside /\ sinfo \in Message /\ (c \in DOMAIN ses => Sound(ses[c]))
    BY <2>1, AtReceive
  <2> QED
    BY <1>0, <2>1, <2>2, AnswerType, AnswerArrives
<1> QED
  BY <1>1, <1>2, <1>3, <1>4, <1>5, <1>6, <1>7, <1>8, <1>9, <1>10, <1>11, <1>12
     DEF Datagram

\* Every step of the server; with `plenty`, as long as a descriptor is free.
LEMMA NextUploadInv ==
  ASSUME Inv, TransferInv, NEW plenty \in BOOLEAN, UploadInv(plenty),
         plenty => Free # {}, [Next]_vars
  PROVE  UploadInv(plenty)'
<1>1. CASE \/ \E batch \in SUBSET (SvSock \cup epoll) : epoll_wait(batch)
           \/ EpollTimeout \/ ResendDone \/ CleanupDone
  <2>1. UNCHANGED <<ds, ses>> /\ pc # "put" /\ pc' # "put"
    BY <1>1 DEF epoll_wait, EpollTimeout, ResendDone, CleanupDone
  <2> QED
    BY <2>1, StillArrives
<1>2. CASE \E sock \in events : RecvNothing(sock) \/ \E c \in Client : Datagram(sock, c)
  BY <1>2, NothingType, AnswerArrives, DatagramArrives
<1>3. CASE get_session_data
  BY <1>3, GetArrives
<1>4. CASE put_session_data
  BY <1>4, PutArrives
<1>5. CASE update_event \/ Tick \/ CleanupSession \/ del_allsession
  BY <1>5, HousekeepingArrives
<1>6. CASE ResendSession
  BY <1>6, ResendSessionArrives
<1>7. CASE iwds_exit
  BY <1>7, ExitArrives
<1>8. CASE sig_handler \/ UNCHANGED vars
  <2>1. UNCHANGED <<ds, ses, pc, job>>
    BY <1>8 DEF sig_handler, vars
  <2>2. UNCHANGED AllSockets /\ \A c : /\ (Arrives(c, plenty)' <=> Arrives(c, plenty))
                                       /\ ses'[c] = ses[c]
    BY <2>1 DEF AllSockets, Arrives, Storing, Sent
  <2>3. (\A c \in DOMAIN ses : Writer(ses[c]) => Arrives(c, plenty))'
    BY <2>1, <2>2 DEF UploadInv
  <2> QED
    BY <2>2, <2>3 DEF UploadInv
<1> QED
  BY <1>1, <1>2, <1>3, <1>4, <1>5, <1>6, <1>7, <1>8 DEF Next, Loop, Ended

\* While an upload goes on, what came in is stored.
LEMMA UploadKept == Inv /\ UploadInv(FALSE) => AcknowledgedUnitsKept
<1> DEFINE plenty == FALSE
<1> HIDE DEF plenty
<1> SUFFICES ASSUME Inv, UploadInv(plenty), NEW c \in DOMAIN ses,
                    ses[c].req = "WRQ", ses[c].clsock # NoSock,
                    ~ses[c].fin, ~ses[c].disabled, c # job.cl
             PROVE  LET x == ses[c]
                        stored == {ds.files[d.filename] \o d.wbuf : d \in Own(c)}
                        known == Known(x.tftpmode, Upto(Sent(c), x.nblk * DataLen))
                    IN  IF stored = {} THEN x.sesbuf = known
                        ELSE \A u \in stored : u \o x.sesbuf = known
  BY DEF AcknowledgedUnitsKept, plenty
<1> DEFINE x == ses[c]
           f == x.filename
           wire == Sent(c)
           known == Known(x.tftpmode, Upto(wire, x.nblk * DataLen))
           near == Near(x, wire)
<1>1. Sound(x) /\ StoreSound(ds) /\ x.sesbuf \in Seq(Unit)
      /\ x.fin = FALSE /\ x.disabled = FALSE
  <2>1. Sound(x) /\ StoreSound(ds)
    BY DEF Inv, TypeOK, Sound
  <2> QED
    BY <2>1, SessionParts
<1>2. Between(x, ds, wire, plenty)
  BY DEF UploadInv, Arrives, Storing, Writer
<1>3. EndOf(wire, x.nblk) = x.nblk * DataLen
  BY <1>1, <1>2 DEF Between, EndOf
<1>4. Held(x, ds, known, plenty, near)
  BY <1>2, <1>3 DEF Between, KnownTo
<1>5. ~Over(x)
  BY <1>1 DEF Over
<1> HIDE DEF known, near, wire
<1>6. PICK o \in Seq(Unit) : Written(ds, x.clsock, f, o) /\ o \o x.sesbuf = known
  BY <1>4, <1>5 DEF Held, Lost, Stored
<1>7. CASE Own(c) = {}
  <2>1. o = <<>>
    BY <1>6, <1>7 DEF Own, Written
  <2>2. x.sesbuf = known
    BY <1>1, <1>6, <2>1, ConcatEmptySeq
  <2> QED
    BY <1>7, <2>2 DEF known, wire
<1>8. CASE Own(c) # {}
  <2>1. PICK e \in Own(c) : ds.files[f] \o e.wbuf = o
    BY <1>6, <1>8 DEF Own, Written, Streaming
  <2>2. \A d \in Own(c) : d = e /\ d.filename = f
    BY <1>1, <2>1 DEF Own, get_dsession, StoreSound, OneDsession
  <2>3. \A d \in Own(c) : (ds.files[d.filename] \o d.wbuf) \o x.sesbuf = known
    BY <1>6, <2>1, <2>2
  <2> QED
    BY <1>8, <2>3 DEF known, wire
<1> QED
  BY <1>7, <1>8

\* Every unit of an upload that was acknowledged is in the file, in the
\* stream's buffer or in the session buffer, in order and exactly once, as long
\* as the transfer goes on.
THEOREM AcknowledgedUnitsKeptHolds == Spec => []AcknowledgedUnitsKept
<1> DEFINE I == Inv /\ TransferInv /\ UploadInv(FALSE)
<1>1. Init => I
  BY InitInv, InitTransferInv, InitUploadInv
<1>2. I /\ [Next]_vars => I'
  <2> DEFINE plenty == FALSE
  <2> HIDE DEF plenty
  <2> SUFFICES ASSUME Inv, TransferInv, UploadInv(plenty), [Next]_vars
               PROVE  Inv' /\ TransferInv' /\ UploadInv(plenty)'
    BY DEF plenty
  <2>1. Inv' /\ TransferInv'
    BY NextInv, NextTransferInv
  <2>2. plenty \in BOOLEAN /\ (plenty => Free # {})
    BY DEF plenty
  <2>3. UploadInv(plenty)'
    BY <2>2, NextUploadInv
  <2> QED
    BY <2>1, <2>3
<1>3. I => AcknowledgedUnitsKept
  BY UploadKept
<1> QED
  BY <1>1, <1>2, <1>3, PTL DEF Spec

\* A descriptor is free whenever a step is taken.
DescriptorsSuffice == Free # {}

\* An upload of which more than the text is acknowledged is in the file.
LEMMA SessionStored ==
  ASSUME Inv, NEW plenty, plenty = TRUE, UploadInv(plenty), ~IoFaults,
         NEW c \in DOMAIN ses, ses[c].req = "WRQ", ses[c].size > 0,
         Len(Sent(c)) < ses[c].nblk * DataLen
  PROVE  /\ Closed(ds, ses[c].filename, Upload(c, ses[c].size))
         /\ Own(c) = {}
<1> DEFINE x == ses[c]
           f == x.filename
           wire == Sent(c)
           text == Upload(c, x.size)
           near == Near(x, wire)
           n == x.nblk
           L == Len(wire)
<1>1. /\ Sound(x) /\ StoreSound(ds) /\ x.sesbuf \in Seq(Unit)
      /\ x.fin \in BOOLEAN /\ n \in Nat /\ x.size \in 0 .. MaxUpload /\ c \in Client
  <2>1. Sound(x) /\ StoreSound(ds) /\ c \in Client
    BY DEF Inv, TypeOK, Sound
  <2> QED
    BY <2>1, SessionParts
<1>2. plenty /\ Writer(x)
  BY DEF UploadInv, AllSockets, Writer
<1>3. wire \in Seq(Unit)
  BY <1>1, SentType
<1>4. L \in Nat /\ L < n * DataLen /\ n * DataLen \in Nat
  BY <1>1, <1>3, LenProperties, BufferAssumption
<1>5. Storing(c) = FALSE
  <2> SUFFICES ASSUME Storing(c) PROVE FALSE
    BY DEF Storing
  <2>1. Within(x, ds, wire, job.data, job.k, plenty)
    BY <1>2 DEF UploadInv, Arrives
  <2> DEFINE end == EndOf(wire, job.k)
  <2>2. PICK g \in Nat : n * DataLen <= g /\ Left(wire, g, end, job.data)
    BY <2>1 DEF Within, CameIn
  <2>3. g <= end /\ end <= L /\ end \in Nat
    BY <2>2 DEF Left
  <2> HIDE DEF end, L, n
  <2> QED
    BY <1>4, <2>2, <2>3
<1>6. Between(x, ds, wire, plenty)
  BY <1>2, <1>5 DEF UploadInv, Arrives
<1>7. /\ get_dsession(ds, x.clsock, f) = {} /\ x.sesbuf = <<>>
      /\ near /\ EndOf(wire, n) = L
  BY <1>4, <1>6 DEF Between, Near, EndOf
<1>8. Held(x, ds, KnownTo(x, wire, L), plenty, near)
  BY <1>6, <1>7 DEF Between
<1>9. KnownTo(x, wire, L) = text
  <2> DEFINE mode == x.tftpmode
  <2>1. Clean(mode, text) /\ wire = Wire(mode, text)
    BY <1>1, UploadClean DEF Sent
  <2>2. L \in 0 .. Len(wire)
    BY <1>4
  <2> HIDE DEF text, wire, mode
  <2>3. Known(mode, Upto(wire, L)) = text
    BY <2>1, <2>2, KnownOfWire
  <2> QED
    BY <2>3 DEF KnownTo, mode
<1>10. text # <<>>
  <2>1. Len(text) = x.size
    BY <1>1, UploadClean
  <2> QED
    BY <2>1, EmptySeq
<1> HIDE DEF text, wire, near
<1>11. ~Stored(x, ds, text)
  <2> SUFFICES ASSUME NEW o, Written(ds, x.clsock, f, o), o \o x.sesbuf = text
               PROVE  FALSE
    BY DEF Stored
  <2>1. o = <<>>
    BY <1>7 DEF Written
  <2>2. <<>> \o <<>> = <<>>
    BY EmptySeq, ConcatEmptySeq
  <2> QED
    BY <1>7, <1>10, <2>1, <2>2
<1>12. Closed(ds, f, text)
  BY <1>2, <1>7, <1>8, <1>9, <1>11 DEF Held, Lost
<1> QED
  BY <1>7, <1>12 DEF Own, text

\* An upload whose last block was acknowledged is in the file.
LEMMA UploadStored == Inv /\ UploadInv(TRUE) /\ ~IoFaults => AcknowledgedUploadStored
<1> DEFINE plenty == TRUE
<1> HIDE DEF plenty
<1> SUFFICES ASSUME Inv, UploadInv(plenty), ~IoFaults, NEW c \in DOMAIN ses,
                    ses[c].req = "WRQ", ses[c].size > 0,
                    ses[c].nblk = LastBlock(Sent(c))
             PROVE  /\ ses[c].filename \in DOMAIN ds.files
                    /\ ds.files[ses[c].filename] = Upload(c, ses[c].size)
                    /\ Own(c) = {}
  BY DEF AcknowledgedUploadStored, plenty
<1>1. Sent(c) \in Seq(Unit)
  <2>1. c \in Client /\ Sound(ses[c])
    BY DEF Inv, TypeOK, Sound
  <2> QED
    BY <2>1, SentType
<1>2. Len(Sent(c)) < ses[c].nblk * DataLen
  BY <1>1, LastBlockType
<1>3. plenty = TRUE
  BY DEF plenty
<1>4. Closed(ds, ses[c].filename, Upload(c, ses[c].size)) /\ Own(c) = {}
  BY <1>2, <1>3, SessionStored
<1> QED
  BY <1>4 DEF Closed

\* When the last block of a non-empty upload is acknowledged, the file is
\* complete and closed, on a disk that works and as long as a descriptor is
\* free: without one, a save fails and the session goes on.
THEOREM AcknowledgedUploadStoredHolds ==
  ASSUME ~IoFaults
  PROVE  Spec /\ []DescriptorsSuffice => []AcknowledgedUploadStored
<1> DEFINE I == Inv /\ TransferInv /\ UploadInv(TRUE)
<1>1. Init => I
  BY InitInv, InitTransferInv, InitUploadInv
<1>2. I /\ DescriptorsSuffice /\ [Next]_vars => I'
  <2> DEFINE plenty == TRUE
  <2> HIDE DEF plenty
  <2> SUFFICES ASSUME Inv, TransferInv, UploadInv(plenty), DescriptorsSuffice, [Next]_vars
               PROVE  Inv' /\ TransferInv' /\ UploadInv(plenty)'
    BY DEF plenty
  <2>1. Inv' /\ TransferInv'
    BY NextInv, NextTransferInv
  <2>2. plenty \in BOOLEAN /\ (plenty => Free # {})
    BY DEF plenty, DescriptorsSuffice
  <2>3. UploadInv(plenty)'
    BY <2>2, NextUploadInv
  <2> QED
    BY <2>1, <2>3
<1>3. I => AcknowledgedUploadStored
  BY UploadStored
<1> QED
  BY <1>1, <1>2, <1>3, PTL DEF Spec

----------------------------------------------------------------------------
(***************************************************************************)
(* The files of one client                                                 *)
(***************************************************************************)

\* From s to t no file comes into being, and none gets anything new.
Cuts(s, t) ==
  DOMAIN t.files \subseteq DOMAIN s.files /\ \A g \in DOMAIN s.files : Trims(s, t, g)

\* Two such steps.
LEMMA CutsTwice ==
  ASSUME NEW s, NEW t, NEW v, Cuts(s, t), Cuts(t, v), DOMAIN s.files \subseteq DOMAIN t.files
  PROVE  Cuts(s, v)
<1>1. ASSUME NEW g \in DOMAIN s.files PROVE Trims(s, v, g)
  <2>1. Trims(s, t, g) /\ Trims(t, v, g)
    BY <1>1 DEF Cuts
  <2> QED
    BY <2>1, TrimsTwice
<1> QED
  BY <1>1 DEF Cuts

\* No step.
LEMMA CutsNothing ==
  ASSUME NEW s
  PROVE  Cuts(s, s)
<1>1. \A g : Trims(s, s, g)
  BY TrimsNothing
<1> QED
  BY <1>1 DEF Cuts

\* A stream is closed.
LEMMA CloseCuts ==
  ASSUME NEW s, StoreSound(s), NEW x, NEW t \in close_data(s, x)
  PROVE  Cuts(s, t)
<1> DEFINE f == x.filename
<1>1. Trims(s, t, f)
  BY CloseTrims
<1>2. Stepped(s, t, {}, f, x.clsock)
  BY CloseSteps
<1>3. DOMAIN t.files = DOMAIN s.files
  BY CloseKeeps DEF close_data
<1>4. ASSUME NEW g \in DOMAIN s.files, g # f PROVE Trims(s, t, g)
  BY <1>2, <1>4, SteppedTrims
<1> QED
  BY <1>1, <1>3, <1>4 DEF Cuts

\* The session buffer is filled.
LEMMA LoadCuts ==
  ASSUME NEW s, StoreSound(s), NEW x, x.clsock \in Int, x.filename \in File,
         NEW free \in SUBSET Descriptor, NEW r \in load_data(s, x, free)
  PROVE  Cuts(s, r.ds) /\ DOMAIN s.files \subseteq DOMAIN r.ds.files
<1> DEFINE f == x.filename
           id == x.clsock
<1>1. Trims(s, r.ds, f)
  BY LoadTrims
<1>2. Stepped(s, r.ds, free, f, id)
  BY LoadSteps
<1>3. DOMAIN r.ds.files = DOMAIN s.files
  <2>1. PICK q \in iwds_read(s, id, f, free) :
          r \in IF q.derr = "OK"
                THEN {[ds |-> q.ds, ses |-> [x EXCEPT !.sesbuf = q.data], ok |-> TRUE]}
                ELSE {[ds |-> t, ses |-> [x EXCEPT !.sesbuf = <<>>], ok |-> FALSE] :
                        t \in close_data(q.ds, x)}
    BY DEF load_data
  <2>2. StoreSound(q.ds) /\ DOMAIN q.ds.files = DOMAIN s.files
    BY ReadKeeps
  <2>3. r.ds = q.ds \/ r.ds \in close_data(q.ds, x)
    BY <2>1
  <2>4. CASE r.ds \in close_data(q.ds, x)
    BY <2>2, <2>4, CloseKeeps DEF close_data
  <2> QED
    BY <2>2, <2>3, <2>4
<1>4. ASSUME NEW g \in DOMAIN s.files, g # f PROVE Trims(s, r.ds, g)
  BY <1>2, <1>4, SteppedTrims
<1> QED
  BY <1>1, <1>3, <1>4 DEF Cuts

\* A turn of iwds_exit.
LEMMA ExitCuts ==
  ASSUME NEW s, StoreSound(s), NEW t \in iwds_exit_step(s)
  PROVE  Cuts(s, t)
<1>1. \A g \in DOMAIN s.files : Trims(s, t, g)
  BY ExitTrims
<1>2. PICK d \in s.dhead : Stepped(s, t, {}, d.filename, d.clid)
  BY ExitSteps
<1>3. d.filename \in DOMAIN s.files
  BY FitsOld DEF Fits
<1>4. DOMAIN t.files \subseteq DOMAIN s.files
  BY <1>2, <1>3 DEF Stepped, Still, Wrote
<1> QED
  BY <1>1, <1>4 DEF Cuts

\* A turn of get_session_data cuts at most.
LEMMA GetCuts ==
  ASSUME Inv, get_session_data
  PROVE  Cuts(ds, ds')
<1> DEFINE c == job.cl
           x == ses[c]
<1>1. Sound(x) /\ StoreSound(ds)
  BY DEF Inv, TypeOK, JobInv, Sound, get_session_data
<1>2. x.clsock \in Int /\ x.filename \in File
  BY <1>1, SessionParts
<1>3. Free \in SUBSET Descriptor
  BY DEF Free
<1>4. PICK r \in Loaded(ds, x, Free) :
        ds' = r.ds \/ \E y : ds' \in close_data(r.ds, y)
  BY DEF get_session_data, make_tftpdata_msg
<1>5. /\ Cuts(ds, r.ds) /\ StoreSound(r.ds)
      /\ DOMAIN ds.files \subseteq DOMAIN r.ds.files
  <2>1. CASE r = [ds |-> ds, ses |-> x, ok |-> TRUE]
    BY <1>1, <2>1, CutsNothing
  <2>2. CASE r \in load_data(ds, x, Free)
    <3>1. Cuts(ds, r.ds) /\ DOMAIN ds.files \subseteq DOMAIN r.ds.files
      BY <1>1, <1>2, <1>3, <2>2, LoadCuts
    <3>2. Stepped(ds, r.ds, Free, x.filename, x.clsock)
      BY <1>1, <1>4, LoadedSteps
    <3> QED
      BY <3>1, <3>2 DEF Stepped
  <2> HIDE DEF x
  <2> QED
    BY <1>4, <2>1, <2>2 DEF Loaded
<1>6. CASE \E y : ds' \in close_data(r.ds, y)
  <2>1. PICK y : ds' \in close_data(r.ds, y)
    BY <1>6
  <2>2. Cuts(r.ds, ds')
    BY <1>5, <2>1, CloseCuts
  <2> DEFINE t == ds'
             s == r.ds
  <2> HIDE DEF t, s
  <2>3. Cuts(ds, t)
    BY <1>5, <2>2, CutsTwice DEF t, s
  <2> QED
    BY <2>3 DEF t
<1> QED
  BY <1>4, <1>5, <1>6

\* So does every datagram: nothing is saved before put_session_data.
LEMMA DatagramCuts ==
  ASSUME Inv, NEW sock, NEW c \in Client, Datagram(sock, c)
  PROVE  Cuts(ds, ds')
<1>1. UNCHANGED ds \/ \E y : ds' \in close_data(ds, y)
  <2>1. CASE RecvRepeatedRequest(sock, c)
    BY <2>1 DEF RecvRepeatedRequest, Resend
  <2>2. CASE \E req \in Request, f \in File : RecvRefusedRequest(sock, c, req, f)
    BY <2>2 DEF RecvRefusedRequest, Refuse
  <2>3. CASE \E req \in Request, f \in File, mode \in Mode : \E n \in Sizes(req) :
               RecvRequestNoSocket(sock, c, req, f, mode, n)
    BY <2>3 DEF RecvRequestNoSocket
  <2>4. CASE \E f \in File, mode \in Mode : RecvRRQ(sock, c, f, mode)
    BY <2>4 DEF RecvRRQ
  <2>5. CASE \E f \in File, mode \in Mode, n \in 0 .. MaxUpload :
               RecvWRQ(sock, c, f, mode, n)
    BY <2>5 DEF RecvWRQ
  <2>6. CASE \E k, data : RecvData(sock, c, k, data)
    <3>1. PICK k, data : RecvData(sock, c, k, data)
      BY <2>6
    <3>2. CASE Resend(c)
      BY <3>2 DEF Resend
    <3>3. CASE \E y : Acknowledge(c, y, ds, k)
      BY <3>3 DEF Acknowledge
    <3>4. CASE UNCHANGED ds
      BY <3>4
    <3> QED
      BY <3>1, <3>2, <3>3, <3>4 DEF RecvData
  <2>7. CASE \E k : RecvAck(sock, c, k)
    BY <2>7 DEF RecvAck, Resend, SendOld
  <2>8. CASE RecvError(sock, c)
    BY <2>8 DEF RecvError
  <2>9. CASE RecvStray(sock, c) \/ RecvOwn(sock, c)
    BY <2>9 DEF RecvStray, RecvOwn, Refuse
  <2>10. CASE RecvUnparsable(sock, c) \/ RecvUnknownOpcode(sock, c)
    BY <2>10 DEF RecvUnparsable, RecvUnknownOpcode, Refuse, SendOld
  <2> QED
    BY <2>1, <2>2, <2>3, <2>4, <2>5, <2>6, <2>7, <2>8, <2>9, <2>10 DEF Datagram
<1>2. CASE UNCHANGED ds
  BY <1>2, CutsNothing
<1>3. CASE \E y : ds' \in close_data(ds, y)
  <2>1. StoreSound(ds)
    BY DEF Inv
  <2> QED
    BY <1>3, <2>1, CloseCuts
<1> QED
  BY <1>1, <1>2, <1>3

\* Every step but a turn of put_session_data.
LEMMA NextCuts ==
  ASSUME Inv, [Next]_vars
  PROVE  Cuts(ds, ds') \/ put_session_data
<1>0. StoreSound(ds) /\ Cuts(ds, ds)
  BY CutsNothing DEF Inv
<1>1. CASE \/ \E batch \in SUBSET (SvSock \cup epoll) : epoll_wait(batch)
           \/ EpollTimeout \/ ResendDone \/ CleanupDone \/ update_event \/ Tick
           \/ CleanupSession \/ del_allsession \/ sig_handler \/ UNCHANGED vars
           \/ \E sock \in events : RecvNothing(sock)
  <2>1. UNCHANGED ds
    BY <1>1 DEF epoll_wait, EpollTimeout, ResendDone, CleanupDone, update_event,
                Tick, CleanupSession, del_allsession, sig_handler, vars,
                RecvNothing, SendOld
  <2> QED
    BY <1>0, <2>1
<1>2. CASE \E sock \in events : \E c \in Client : Datagram(sock, c)
  BY <1>2, DatagramCuts
<1>3. CASE get_session_data
  BY <1>3, GetCuts
<1>4. CASE ResendSession
  <2>1. UNCHANGED ds \/ \E y : ds' \in close_data(ds, y)
    BY <1>4 DEF ResendSession
  <2> QED
    BY <1>0, <2>1, CloseCuts
<1>5. CASE iwds_exit
  <2>1. UNCHANGED ds \/ ds' \in iwds_exit_step(ds)
    BY <1>5 DEF iwds_exit
  <2> QED
    BY <1>0, <2>1, ExitCuts
<1> QED
  BY <1>1, <1>2, <1>3, <1>4, <1>5 DEF Next, Loop, Ended

\* What file f of the store holds, with what is buffered for it, is a
\* beginning of the upload of one client; and so is every uploaded file.
OfOne(s, f) ==
  \E c \in Client, a \in Seq(Unit) :
    Whole(s.files, s.dhead, f, a) /\ a = Upload(c, Len(a))

Unmixed(s) == \A f \in DOMAIN s.files \ DOMAIN InitFiles : OfOne(s, f)

\* A beginning of an upload is a shorter upload.
LEMMA UploadBeginning ==
  ASSUME NEW c, NEW n \in Nat, NEW b \in Seq(Unit), NEW u, u = Upload(c, n),
         u \in Seq(Unit), Beginning(b, u)
  PROVE  b = Upload(c, Len(b))
<1>1. Len(b) \in Nat /\ Len(u) = n /\ b = [i \in 1 .. Len(b) |-> b[i]]
  <2>1. u = [i \in 1 .. n |-> IF i \in LineEnds THEN LF ELSE <<c, i>>]
    BY DEF Upload
  <2> QED
    BY <2>1
<1> DEFINE m == Len(b)
<1>2. m <= n /\ SubSeq(b, 1, m) = SubSeq(u, 1, m)
  BY <1>1 DEF Beginning
<1>3. ASSUME NEW i \in 1 .. m PROVE b[i] = Upload(c, m)[i]
  <2>1. b[i] = u[i]
    <3>1. SubSeq(b, 1, m)[i] = b[i] /\ SubSeq(u, 1, m)[i] = u[i]
      BY <1>1, <1>2, <1>3
    <3> QED
      BY <1>2, <3>1
  <2>2. u[i] = IF i \in LineEnds THEN LF ELSE <<c, i>>
    BY <1>1, <1>2, <1>3 DEF Upload
  <2> QED
    BY <1>3, <2>1, <2>2 DEF Upload
<1>4. Upload(c, m) = [i \in 1 .. m |-> Upload(c, m)[i]]
  BY DEF Upload
<1> HIDE DEF m
<1>5. b = [i \in 1 .. m |-> b[i]]
  BY <1>1 DEF m
<1>6. b = Upload(c, m)
  BY <1>3, <1>4, <1>5
<1> QED
  BY <1>6 DEF m

\* A file that is cut still is of the client it was of.
LEMMA TrimmedOfOne ==
  ASSUME NEW s, NEW t, NEW f, Trims(s, t, f), OfOne(s, f)
  PROVE  OfOne(t, f)
<1>1. PICK c \in Client, a \in Seq(Unit) :
        Whole(s.files, s.dhead, f, a) /\ a = Upload(c, Len(a))
  BY DEF OfOne
<1>2. PICK b \in Seq(Unit) : Beginning(b, a) /\ Whole(t.files, t.dhead, f, b)
  BY <1>1 DEF Trims
<1>3. Len(a) \in Nat
  BY LenProperties
<1> DEFINE n == Len(a)
<1>4. n \in Nat /\ a = Upload(c, n)
  BY <1>1, <1>3
<1> HIDE DEF n
<1>5. b = Upload(c, Len(b))
  BY <1>2, <1>4, UploadBeginning
<1> QED
  BY <1>2, <1>5 DEF OfOne

\* So a step that only cuts mixes nothing.
LEMMA CutsUnmixed ==
  ASSUME NEW s, NEW t, Cuts(s, t), Unmixed(s)
  PROVE  Unmixed(t)
<1> SUFFICES ASSUME NEW f \in DOMAIN t.files \ DOMAIN InitFiles
             PROVE  OfOne(t, f)
  BY DEF Unmixed
<1>1. OfOne(s, f) /\ Trims(s, t, f)
  BY DEF Cuts, Unmixed
<1> QED
  BY <1>1, TrimmedOfOne

\* A stream that has u, or had it when it was closed, is all that file f has.
LEMMA StreamingWhole ==
  ASSUME NEW s, StoreSound(s), NEW id, NEW f, NEW u, Streaming(s, id, f, u)
  PROVE  Whole(s.files, s.dhead, f, u)
<1>1. PICK d \in get_dsession(s, id, f) : d.mode = "w" /\ s.files[f] \o d.wbuf = u
  BY DEF Streaming
<1>2. d \in s.dhead /\ d.filename = f
  BY DEF get_dsession
<1>3. \A e \in s.dhead : e.filename = f /\ e.mode = "w" => e = d
  BY <1>1, <1>2 DEF StoreSound, SingleWriter
<1> QED
  BY <1>1, <1>2, <1>3 DEF Whole

\* A stream that was closed left a beginning of what it had.
LEMMA LandedWhole ==
  ASSUME NEW s, NEW id, NEW f, NEW u, Landed(s, id, f, u)
  PROVE  \E w \in Seq(Unit) : Beginning(w, u) /\ Whole(s.files, s.dhead, f, w)
<1>1. PICK w \in Seq(Unit) : Beginning(w, u) /\ Closed(s, f, w)
  BY DEF Landed
<1>2. Whole(s.files, s.dhead, f, w)
  BY <1>1 DEF Closed, Whole
<1> QED
  BY <1>1, <1>2

\* What a turn of put_session_data leaves of file f is a beginning of v.
Begun(s, f, v) ==
  \E w \in Seq(Unit) : Beginning(w, v) /\ Whole(s.files, s.dhead, f, w)

\* A turn of put_session_data saves nothing, or what came in up to its end.
LEMMA TurnWrites ==
  ASSUME NEW x, NEW data, NEW t, NEW z, NEW r,
         Turned(x, data, t, z, r),
         NEW plenty, plenty = TRUE, NEW u \in Seq(Unit), NEW near \in BOOLEAN,
         Held(x, ds, u, plenty, near), NEW v, v = u \o t.kept
  PROVE  r.ds = ds \/ Begun(r.ds, x.filename, v)
<1> DEFINE f == x.filename
           id == x.clsock
<1>0. TurnLeaves(x, t, z, r)
  BY TurnedIs
<1>1. StoreSound(ds) /\ Free \in SUBSET Descriptor
  BY DEF Turned, Free
<1>2. /\ z.clsock = id /\ z.filename = f /\ Sound(z) /\ StoreSound(r.ds)
      /\ z.sesbuf = x.sesbuf \o t.kept
      /\ t.kept \in Seq(Unit) /\ x.sesbuf \in Seq(Unit)
  BY <1>0 DEF TurnLeaves, AsBefore
<1>3. z.clsock \in Int /\ z.filename \in File /\ z.sesbuf \in Seq(Unit)
  BY <1>2, SessionParts
<1>4. \/ \E o \in Seq(Unit) : Written(ds, id, f, o) /\ o \o x.sesbuf = u
      \/ plenty /\ Lost(x, ds, u, plenty, near) /\ Written(ds, id, f, <<>>)
  <2>1. \/ Carries(x, ds, u)
        \/ Over(x) /\ ~plenty
        \/ plenty /\ Lost(x, ds, u, plenty, near) /\ Written(ds, id, f, <<>>)
    BY HeldIsWritten
  <2> QED
    BY <2>1 DEF Carries
<1>5. r \in save_data(ds, z, Free) \/ r.ds = ds
  BY <1>0 DEF TurnLeaves
<1>6. CASE r \in save_data(ds, z, Free) /\ r.ds # ds
  <2>1. ASSUME NEW o, Written(ds, id, f, o)
        PROVE  Creates(ds, id, f) /\ Savings(z, r, o \o z.sesbuf)
    <3>1. Written(ds, z.clsock, z.filename, o)
      BY <1>2, <2>1
    <3>2. \/ /\ ~r.ok /\ r.ses = z /\ r.ds = ds
             /\ Barred(ds, z.clsock, z.filename, Free)
          \/ /\ Creates(ds, z.clsock, z.filename)
             /\ Savings(z, r, o \o z.sesbuf)
      BY <1>1, <1>3, <1>6, <3>1, SaveLands
    <3> QED
      BY <1>2, <1>6, <3>2
  <2>2. CASE \E o \in Seq(Unit) : Written(ds, id, f, o) /\ o \o x.sesbuf = u
    <3>1. PICK o \in Seq(Unit) : Written(ds, id, f, o) /\ o \o x.sesbuf = u
      BY <2>2
    <3> DEFINE a == x.sesbuf
               b == t.kept
    <3>2. o \in Seq(Unit) /\ a \in Seq(Unit) /\ b \in Seq(Unit)
      BY <1>2, <3>1
    <3>3. v = u \o b /\ u = o \o a /\ z.sesbuf = a \o b
      BY <1>2, <3>1
    <3> HIDE DEF a, b
    <3>4. (o \o a) \o b = o \o (a \o b) /\ u \o b \in Seq(Unit)
      BY <3>2, Associative, UptoConcat
    <3>5. o \o z.sesbuf = v /\ v \in Seq(Unit)
      BY <3>3, <3>4
    <3>6. Savings(z, r, v)
      BY <2>1, <3>1, <3>5
    <3>7. CASE Streaming(r.ds, z.clsock, z.filename, v)
      <4>1. Whole(r.ds.files, r.ds.dhead, f, v)
        BY <1>2, <3>7, StreamingWhole
      <4>2. Beginning(v, v)
        BY <3>5, BeginsSelf
      <4> QED
        BY <3>5, <4>1, <4>2 DEF Begun
    <3>8. CASE Landed(r.ds, z.clsock, z.filename, v)
      BY <1>2, <3>8, LandedWhole DEF Begun
    <3> QED
      BY <3>6, <3>7, <3>8 DEF Savings
  <2>3. CASE plenty /\ Lost(x, ds, u, plenty, near) /\ Written(ds, id, f, <<>>)
    <3>1. Creates(ds, id, f)
      BY <2>1, <2>3
    <3> QED
      BY <2>3, <3>1 DEF Lost, Creates
  <2> QED
    BY <1>4, <2>2, <2>3
<1> QED
  BY <1>5, <1>6

\* A step of one session on its file, after which the file is of one client.
LEMMA SteppedUnmixed ==
  ASSUME NEW s, NEW t, NEW free, NEW f, NEW w, Stepped(s, t, free, f, w),
         Unmixed(s), OfOne(t, f)
  PROVE  Unmixed(t)
<1> SUFFICES ASSUME NEW g \in DOMAIN t.files \ DOMAIN InitFiles, g # f
             PROVE  OfOne(t, g)
  BY DEF Unmixed
<1>1. g \in DOMAIN s.files
  BY DEF Stepped, Still, Wrote
<1>2. OfOne(s, g) /\ Trims(s, t, g)
  BY <1>1, SteppedTrims DEF Unmixed
<1> QED
  BY <1>2, TrimmedOfOne

\* What is known of an upload is a beginning of it.
LEMMA KnownBegun ==
  ASSUME NEW c \in Client, NEW n \in 0 .. MaxUpload, NEW mode,
         NEW wire, wire = Wire(mode, Upload(c, n)), NEW p \in 0 .. Len(wire),
         NEW s, NEW f, Begun(s, f, Known(mode, Upto(wire, p)))
  PROVE  Begun(s, f, Upload(c, n))
<1> DEFINE text == Upload(c, n)
           v    == Known(mode, Upto(wire, p))
<1>1. Clean(mode, text) /\ text \in Seq(Unit)
  BY UploadClean DEF Clean
<1>2. wire = Wire(mode, text)
  OBVIOUS
<1>3. Begun(s, f, v)
  OBVIOUS
<1> HIDE DEF text
<1>4. v \in Seq(Unit) /\ Beginning(v, text)
  BY <1>1, <1>2, KnownOfWire
<1> HIDE DEF v
<1>5. PICK w \in Seq(Unit) : Beginning(w, v) /\ Whole(s.files, s.dhead, f, w)
  BY <1>3 DEF Begun
<1>6. Beginning(w, text)
  BY <1>1, <1>4, <1>5, BeginningTransitive
<1>7. Begun(s, f, text)
  BY <1>5, <1>6 DEF Begun
<1> QED
  BY <1>7 DEF text

LEMMA BegunOfOne ==
  ASSUME NEW c \in Client, NEW n \in 0 .. MaxUpload, NEW s, NEW f,
         Begun(s, f, Upload(c, n))
  PROVE  OfOne(s, f)
<1> DEFINE text == Upload(c, n)
<1>1. text \in Seq(Unit) /\ text = Upload(c, n) /\ n \in Nat
  BY UploadClean, Bounds DEF Clean
<1>2. Begun(s, f, text)
  OBVIOUS
<1> HIDE DEF text
<1>3. PICK w \in Seq(Unit) : Beginning(w, text) /\ Whole(s.files, s.dhead, f, w)
  BY <1>2 DEF Begun
<1>4. w = Upload(c, Len(w))
  BY <1>1, <1>3, UploadBeginning
<1> QED
  BY <1>3, <1>4 DEF OfOne

\* A file that is cut still is a beginning of what it was one of.
LEMMA TrimmedBegun ==
  ASSUME NEW s, NEW t, NEW f, Trims(s, t, f), NEW v \in Seq(Unit), Begun(s, f, v)
  PROVE  Begun(t, f, v)
<1>1. PICK a \in Seq(Unit) : Beginning(a, v) /\ Whole(s.files, s.dhead, f, a)
  BY DEF Begun
<1>2. PICK b \in Seq(Unit) : Beginning(b, a) /\ Whole(t.files, t.dhead, f, b)
  BY <1>1 DEF Trims
<1>3. Beginning(b, v)
  BY <1>1, <1>2, BeginningTransitive
<1> QED
  BY <1>2, <1>3 DEF Begun

\* One turn of put_session_data up to its save.
LEMMA TurnBegun ==
  ASSUME NEW c \in Client, NEW x, Writer(x),
         NEW wire, wire = Wire(x.tftpmode, Upload(c, x.size)), wire \in Seq(Unit),
         NEW data, NEW k, NEW plenty, plenty = TRUE,
         Within(x, ds, wire, data, k, plenty),
         NEW t, NEW z, NEW r, Turned(x, data, t, z, r)
  PROVE  /\ Stepped(ds, r.ds, Free, x.filename, x.clsock)
         /\ r.ds = ds \/ Begun(r.ds, x.filename, Upload(c, x.size))
<1> DEFINE end  == EndOf(wire, k)
           near == Near(x, wire)
           mode == x.tftpmode
<1>1. PICK g \in Nat : /\ Left(wire, g, end, data)
                       /\ Held(x, ds, KnownTo(x, wire, g), plenty, near)
  BY DEF Within, CameIn
<1>2. near \in BOOLEAN
  BY DEF Near
<1> HIDE DEF end, near
<1>3. /\ KnownTo(x, wire, g) \in Seq(Unit)
      /\ \E p \in Nat :
           /\ Left(wire, p, end, SubSeq(data, t.used + 1, Len(data)))
           /\ KnownTo(x, wire, p) = KnownTo(x, wire, g) \o t.kept
           /\ g <= p
  <2>1. Takes(x, wire, g, end, data, t)
    BY <1>1, TakesUnits
  <2> QED
    BY <2>1 DEF Takes
<1>4. PICK p \in Nat :
        /\ Left(wire, p, end, SubSeq(data, t.used + 1, Len(data)))
        /\ KnownTo(x, wire, p) = KnownTo(x, wire, g) \o t.kept
  BY <1>3
<1>5. p \in 0 .. Len(wire)
  BY <1>4, LenProperties DEF Left
<1> DEFINE u == KnownTo(x, wire, g)
           v == KnownTo(x, wire, p)
<1>6. u \in Seq(Unit) /\ v = u \o t.kept /\ Held(x, ds, u, plenty, near)
  BY <1>1, <1>3, <1>4
<1> HIDE DEF u, v
<1>7. r.ds = ds \/ Begun(r.ds, x.filename, v)
  BY <1>2, <1>6, TurnWrites
<1>8. Stepped(ds, r.ds, Free, x.filename, x.clsock)
  <2>1. TurnLeaves(x, t, z, r)
    BY TurnedIs
  <2>2. Sound(z) /\ z.filename = x.filename /\ z.clsock = x.clsock
    BY <2>1 DEF TurnLeaves, AsBefore
  <2>3. Stepped(ds, r.ds, Free, z.filename, z.clsock)
    BY <2>2, SavedSteps DEF Turned
  <2> QED
    BY <2>2, <2>3
<1>9. CASE Begun(r.ds, x.filename, v)
  <2>1. x.size \in 0 .. MaxUpload
    BY SessionParts DEF Turned
  <2>2. Begun(r.ds, x.filename, Known(mode, Upto(wire, p)))
    BY <1>9 DEF v, KnownTo
  <2>3. wire = Wire(mode, Upload(c, x.size))
    OBVIOUS
  <2> HIDE DEF mode
  <2>4. Begun(r.ds, x.filename, Upload(c, x.size))
    BY <1>5, <2>1, <2>2, <2>3, KnownBegun
  <2> QED
    BY <1>8, <2>4
<1> QED
  BY <1>7, <1>8, <1>9

\* One turn of put_session_data: a save, and the stream may be closed after it.
LEMMA PutBegun ==
  ASSUME Inv, NEW plenty, plenty = TRUE, UploadInv(plenty), put_session_data
  PROVE  LET c == job.cl
             x == ses[c]
         IN  /\ c \in DOMAIN ses /\ c \in Client /\ x.req = "WRQ"
             /\ x.size \in 0 .. MaxUpload
             /\ \E s : /\ Stepped(ds, s, Free, x.filename, x.clsock)
                       /\ s = ds \/ Begun(s, x.filename, Upload(c, x.size))
                       /\ Cuts(s, ds')
<1> DEFINE c    == job.cl
           x    == ses[c]
           data == job.data
           k    == job.k
           t    == Given(x, data)
           z    == [x EXCEPT !.sesbuf = @ \o t.kept]
           wire == Sent(c)
<1>1. /\ c \in DOMAIN ses /\ c \in Client /\ Sound(x) /\ x.req = "WRQ"
      /\ StoreSound(ds) /\ data \in Seq(Unit) /\ pc = "put"
  BY DEF Inv, TypeOK, JobInv, Sound, put_session_data
<1>2. PICK r \in Saved(ds, z, Free) :
        \/ ds' = r.ds
        \/ ds' \in close_data(r.ds, r.ses)
  BY DEF put_session_data, Acknowledge
<1>3. wire \in Seq(Unit)
  BY <1>1, SentType
<1>4. Turned(x, data, t, z, r)
  BY <1>1, <1>2 DEF Turned
<1>5. Writer(x)
  BY <1>1 DEF UploadInv, AllSockets, Writer
<1>6. Within(x, ds, wire, data, k, plenty)
  BY <1>1, <1>5 DEF UploadInv, Arrives, Storing
<1>7. wire = Wire(x.tftpmode, Upload(c, x.size))
  BY DEF Sent
<1>8. StoreSound(r.ds)
  <2>1. TurnLeaves(x, t, z, r)
    BY <1>4, TurnedIs
  <2> QED
    BY <2>1 DEF TurnLeaves
<1>9. ds' = r.ds \/ ds' \in close_data(r.ds, r.ses)
  BY <1>2
<1>10. x.size \in 0 .. MaxUpload
  BY <1>1, SessionParts
<1> HIDE DEF c, x, data, k, t, z, wire
<1>11. /\ Stepped(ds, r.ds, Free, x.filename, x.clsock)
       /\ r.ds = ds \/ Begun(r.ds, x.filename, Upload(c, x.size))
  BY <1>1, <1>3, <1>4, <1>5, <1>6, <1>7, TurnBegun
<1>12. Cuts(r.ds, ds')
  BY <1>8, <1>9, CloseCuts, CutsNothing
<1>13. \E s : /\ Stepped(ds, s, Free, x.filename, x.clsock)
              /\ s = ds \/ Begun(s, x.filename, Upload(c, x.size))
              /\ Cuts(s, ds')
  BY <1>11, <1>12
<1> QED
  BY <1>1, <1>10, <1>13 DEF c, x

\* So it mixes nothing.
LEMMA PutUnmixed ==
  ASSUME Inv, NEW plenty, plenty = TRUE, UploadInv(plenty), Unmixed(ds),
         put_session_data
  PROVE  Unmixed(ds')
<1> DEFINE c == job.cl
           x == ses[c]
<1>1. /\ c \in Client /\ x.size \in 0 .. MaxUpload
      /\ \E s : /\ Stepped(ds, s, Free, x.filename, x.clsock)
                /\ s = ds \/ Begun(s, x.filename, Upload(c, x.size))
                /\ Cuts(s, ds')
  BY PutBegun
<1> HIDE DEF c, x
<1>2. PICK s : /\ Stepped(ds, s, Free, x.filename, x.clsock)
               /\ s = ds \/ Begun(s, x.filename, Upload(c, x.size))
               /\ Cuts(s, ds')
  BY <1>1
<1>3. Unmixed(s)
  <2>1. CASE s = ds
    BY <2>1
  <2>2. CASE Begun(s, x.filename, Upload(c, x.size))
    <3>1. OfOne(s, x.filename)
      BY <1>1, <2>2, BegunOfOne
    <3> QED
      BY <1>2, <3>1, SteppedUnmixed
  <2> QED
    BY <1>2, <2>1, <2>2
<1> QED
  BY <1>2, <1>3, CutsUnmixed

\* Every step.
LEMMA NextUnmixed ==
  ASSUME Inv, NEW plenty, plenty = TRUE, UploadInv(plenty), Unmixed(ds), [Next]_vars
  PROVE  Unmixed(ds')
<1>1. CASE Cuts(ds, ds')
  BY <1>1, CutsUnmixed
<1>2. CASE put_session_data
  BY <1>2, PutUnmixed
<1> QED
  BY <1>1, <1>2, NextCuts

\* What is in the file is a beginning of what was written.
LEMMA WholeBegins ==
  ASSUME NEW s, StoreSound(s), NEW f \in DOMAIN s.files, NEW a \in Seq(Unit),
         Whole(s.files, s.dhead, f, a)
  PROVE  s.files[f] \in Seq(Unit) /\ Beginning(s.files[f], a)
<1> DEFINE b == s.files[f]
<1>1. b \in Seq(Unit)
  BY DEF StoreSound, IsStore, IsFiles
<1>2. CASE \E e \in s.dhead : e.filename = f /\ e.mode = "w"
  <2>1. PICK e \in s.dhead : e.filename = f /\ e.mode = "w"
    BY <1>2
  <2>2. a = b \o e.wbuf
    BY <2>1 DEF Whole
  <2>3. e.wbuf \in Seq(Unit)
    BY <2>1 DEF StoreSound, IsStore, DSession
  <2> HIDE DEF b
  <2>4. Beginning(b, a)
    BY <1>1, <2>2, <2>3, BeginningConcat
  <2> QED
    BY <1>1, <2>4 DEF b
<1>3. CASE ~\E e \in s.dhead : e.filename = f /\ e.mode = "w"
  <2>1. a = b
    BY <1>3 DEF Whole
  <2> HIDE DEF b
  <2>2. Beginning(b, a)
    BY <1>1, <2>1, BeginsSelf
  <2> QED
    BY <1>1, <2>2 DEF b
<1> QED
  BY <1>2, <1>3

LEMMA UnmixedFiles == Inv /\ Unmixed(ds) => UploadsUnmixed
<1> SUFFICES ASSUME Inv, Unmixed(ds), NEW f \in DOMAIN ds.files \ DOMAIN InitFiles
             PROVE  \E c \in Client : ds.files[f] = Upload(c, Len(ds.files[f]))
  BY DEF UploadsUnmixed
<1>1. PICK c \in Client, a \in Seq(Unit) :
        Whole(ds.files, ds.dhead, f, a) /\ a = Upload(c, Len(a))
  BY DEF Unmixed, OfOne
<1> DEFINE b == ds.files[f]
           n == Len(a)
<1>2. StoreSound(ds)
  BY DEF Inv
<1>3. b \in Seq(Unit) /\ Beginning(b, a)
  BY <1>1, <1>2, WholeBegins
<1>4. n \in Nat /\ a = Upload(c, n)
  BY <1>1, LenProperties
<1> HIDE DEF b, n
<1>5. b = Upload(c, Len(b))
  BY <1>3, <1>4, UploadBeginning
<1> QED
  BY <1>5 DEF b

\* No uploaded file mixes two clients' uploads, or has a part of one missing
\* or doubled, whatever the disk does, as long as a descriptor is free:
\* without one, a save fails, the session goes on, and what it repeats is
\* stored again after what the session buffer kept.
THEOREM UploadsUnmixedHolds == Spec /\ []DescriptorsSuffice => []UploadsUnmixed
<1> DEFINE I == Inv /\ TransferInv /\ UploadInv(TRUE) /\ Unmixed(ds)
<1>1. Init => I
  <2>1. Init => Unmixed(ds)
    BY DEF Init, Unmixed
  <2> QED
    BY <2>1, InitInv, InitTransferInv, InitUploadInv
<1>2. I /\ DescriptorsSuffice /\ [Next]_vars => I'
  <2> DEFINE plenty == TRUE
  <2>0. plenty = TRUE
    OBVIOUS
  <2> HIDE DEF plenty
  <2> SUFFICES ASSUME Inv, TransferInv, UploadInv(plenty), Unmixed(ds),
                      DescriptorsSuffice, [Next]_vars
               PROVE  Inv' /\ TransferInv' /\ UploadInv(plenty)' /\ Unmixed(ds')
    BY <2>0
  <2>1. Inv' /\ TransferInv'
    BY NextInv, NextTransferInv
  <2>2. plenty \in BOOLEAN /\ (plenty => Free # {})
    BY <2>0 DEF DescriptorsSuffice
  <2>3. UploadInv(plenty)'
    BY <2>2, NextUploadInv
  <2>4. Unmixed(ds')
    BY <2>0, NextUnmixed
  <2> QED
    BY <2>1, <2>3, <2>4
<1>3. I => UploadsUnmixed
  BY UnmixedFiles
<1> QED
  BY <1>1, <1>2, <1>3, PTL DEF Spec

----------------------------------------------------------------------------
(***************************************************************************)
(* Descriptors                                                             *)
(***************************************************************************)

\* A step of one session opens one stream at most.
LEMMA SteppedFinite ==
  ASSUME NEW s, IsFiniteSet(s.dhead), NEW t, NEW free, NEW f, NEW w,
         Stepped(s, t, free, f, w)
  PROVE  IsFiniteSet(t.dhead)
<1> DEFINE D == s.dhead
           new == get_dsession(t, w, f)
<1>1. t.dhead \subseteq D \cup new
  <2> SUFFICES ASSUME NEW d \in t.dhead, ~(d.clid = w /\ d.filename = f)
               PROVE  d \in D
    BY DEF get_dsession
  <2>1. get_dsession(t, d.clid, d.filename) = get_dsession(s, d.clid, d.filename)
    BY DEF Stepped, Apart
  <2> QED
    BY <2>1 DEF get_dsession
<1>2. IsFiniteSet(new)
  <2>1. CASE new = {}
    BY <2>1, FS_EmptySet
  <2>2. CASE new # {}
    <3>1. PICK d : d \in new
      BY <2>2
    <3>2. new = {d}
      BY <3>1 DEF get_dsession, Stepped, StoreSound, OneDsession
    <3> QED
      BY <3>2, FS_Singleton
  <2> QED
    BY <2>1, <2>2
<1> HIDE DEF D, new
<1>3. IsFiniteSet(D \cup new)
  BY <1>2, FS_Union DEF D
<1> QED
  BY <1>1, <1>3, FS_Subset

\* So there are finitely many streams at any time.
LEMMA NextFinite ==
  ASSUME Inv, IsFiniteSet(ds.dhead), [Next]_vars
  PROVE  IsFiniteSet(ds'.dhead)
<1>1. ASSUME NEW c, Visits(c)
      PROVE  IsFiniteSet(ds'.dhead)
  BY <1>1, SteppedFinite DEF Visits
<1>2. ASSUME NEW x, ds' \in close_data(ds, x)
      PROVE  IsFiniteSet(ds'.dhead)
  <2>1. Stepped(ds, ds', {}, x.filename, x.clsock)
    BY <1>2, CloseSteps DEF Inv
  <2> QED
    BY <2>1, SteppedFinite
<1>3. CASE UNCHANGED ds
  BY <1>3
<1>4. CASE \E sock \in events : \E c \in Client : Datagram(sock, c)
  <2>1. PICK c \in Client : Visits(c) \/ Adds(c) \/ Answers
    BY <1>4, DatagramShapes
  <2> QED
    BY <1>1, <1>3, <2>1 DEF Adds, Answers
<1>5. CASE get_session_data \/ put_session_data
  BY <1>1, <1>5, GetVisits, PutVisits
<1>6. CASE ResendSession
  BY <1>2, <1>3, <1>6 DEF ResendSession
<1>7. CASE iwds_exit
  <2>1. CASE ds' \in iwds_exit_step(ds)
    <3>1. PICK d \in ds.dhead : Stepped(ds, ds', {}, d.filename, d.clid)
      BY <2>1, ExitSteps DEF Inv
    <3> QED
      BY <3>1, SteppedFinite
  <2> QED
    BY <1>3, <1>7, <2>1 DEF iwds_exit
<1>8. CASE \/ \E batch \in SUBSET (SvSock \cup epoll) : epoll_wait(batch)
           \/ EpollTimeout \/ update_event \/ ResendDone \/ CleanupSession
           \/ CleanupDone \/ del_allsession \/ sig_handler \/ Tick
           \/ (\E sock \in events : RecvNothing(sock)) \/ UNCHANGED vars
  <2>1. UNCHANGED ds
    BY <1>8 DEF epoll_wait, EpollTimeout, update_event, ResendDone, CleanupSession,
       CleanupDone, del_allsession, sig_handler, Tick, RecvNothing, vars
  <2> QED
    BY <1>3, <2>1
<1> QED
  BY <1>4, <1>5, <1>6, <1>7, <1>8 DEF Next, Loop, Ended

\* The values of a function on a finite set.
LEMMA FiniteImage ==
  ASSUME NEW S, IsFiniteSet(S), NEW f, f = [a \in S |-> f[a]],
         NEW T, T = {f[a] : a \in S}
  PROVE  IsFiniteSet(T)
<1>1. f \in Surjection(S, T)
  BY DEF Surjection
<1> QED
  BY <1>1, FS_Surjection

\* Finitely many streams and sessions hold finitely many descriptors.
LEMMA AmpleFree ==
  ASSUME ~IsFiniteSet(Descriptor), Inv, IsFiniteSet(ds.dhead)
  PROVE  DescriptorsSuffice
<1> DEFINE F == [d \in ds.dhead |-> d.fd]
           G == [c \in DOMAIN ses |-> ses[c].clsock]
           fds   == {F[d] : d \in ds.dhead}
           socks == {G[c] : c \in DOMAIN ses}
<1>1. fds = StreamFds(ds) /\ socks = {ses[c].clsock : c \in DOMAIN ses}
  BY DEF StreamFds
<1>2. /\ F = [d \in ds.dhead |-> F[d]] /\ fds = {F[d] : d \in ds.dhead}
      /\ G = [c \in DOMAIN ses |-> G[c]] /\ socks = {G[c] : c \in DOMAIN ses}
  OBVIOUS
<1> HIDE DEF F, G, fds, socks
<1>3. IsFiniteSet(fds) /\ IsFiniteSet(socks)
  <2>1. IsFiniteSet(DOMAIN ses)
    BY DEF Inv, ListInv
  <2>2. IsFiniteSet(fds)
    BY <1>2, FiniteImage
  <2>3. IsFiniteSet(socks)
    BY <1>2, <2>1, FiniteImage
  <2> QED
    BY <2>2, <2>3
<1>4. IsFiniteSet(fds \cup socks)
  BY <1>3, FS_Union
<1>5. ~(Descriptor \subseteq fds \cup socks)
  BY <1>4, FS_Subset
<1> QED
  BY <1>1, <1>5 DEF DescriptorsSuffice, Free

\* With no limit on the descriptors one is always free, however many streams
\* ended sessions leave open.
THEOREM DescriptorsSufficeHolds ==
  ASSUME ~IsFiniteSet(Descriptor)
  PROVE  Spec => []DescriptorsSuffice
<1> DEFINE I == Inv /\ IsFiniteSet(ds.dhead)
<1>1. Init => I
  BY InitInv, FS_EmptySet DEF Init
<1>2. I /\ [Next]_vars => I'
  <2> SUFFICES ASSUME Inv, IsFiniteSet(ds.dhead), [Next]_vars
               PROVE  Inv' /\ IsFiniteSet(ds'.dhead)
    OBVIOUS
  <2> QED
    BY NextInv, NextFinite
<1>3. I => DescriptorsSuffice
  BY AmpleFree
<1> QED
  BY <1>1, <1>2, <1>3, PTL DEF Spec
============================================================================
