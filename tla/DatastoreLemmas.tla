-------------------------- MODULE DatastoreLemmas --------------------------
(***************************************************************************)
(* What the operations of Datastore do to a store, for all files, callers, *)
(* buffer sizes and disk faults, whoever calls them: DatastoreProofs uses  *)
(* the lemmas for arbitrary callers, TftpServerProofs for the server.      *)
(*                                                                         *)
(* A call works on one stream d, found or just opened.  Fits(s, d) says    *)
(* that d may stand in store s; the calls then either drop d, replace it   *)
(* by an advanced copy, or append to its file, and each of the three keeps *)
(* StoreSound.                                                             *)
(*                                                                         *)
(* Seen from WriteOnceStore, a call that works on a writer is one Write of *)
(* the abstract store; any other call, a reader's or a refused one, is a   *)
(* stutter (Still and Wrote, in the second half).                          *)
(***************************************************************************)
EXTENDS Datastore, SequenceTheorems, TLAPS

\* d may stand in store s: no other stream has its key, no other writer its
\* file.
Fits(s, d) ==
  /\ d \in DSession
  /\ d.filename \in DOMAIN s.files
  /\ d.mode = "r" => d.pos <= Len(s.files[d.filename]) /\ d.wbuf = <<>>
  /\ \A e \in s.dhead \ {d} : ~(e.clid = d.clid /\ e.filename = d.filename)
  /\ d.mode = "w" =>
       \A e \in s.dhead \ {d} : ~(e.mode = "w" /\ e.filename = d.filename)

\* t has every file of s, at least as long and with the same beginning; only
\* files of W differ.
Grows(s, t, W) ==
  \A f \in DOMAIN s.files :
    /\ f \in DOMAIN t.files
    /\ Len(s.files[f]) <= Len(t.files[f])
    /\ Upto(t.files[f], Len(s.files[f])) = s.files[f]
    /\ t.files[f] = s.files[f] \/ f \in W

----------------------------------------------------------------------------
(***************************************************************************)
(* Sequences and partial functions                                         *)
(***************************************************************************)

\* What Upto returns: a beginning of the given length.
LEMMA UptoType ==
  ASSUME NEW u \in Seq(Unit), NEW n \in 0 .. Len(u)
  PROVE  Upto(u, n) \in Seq(Unit) /\ Len(Upto(u, n)) = n
<1>1. \A i \in 1 .. n : u[i] \in Unit
  BY ElementOfSeq, LenProperties
<1>2. Len(u) \in Nat
  BY LenProperties
<1> QED
  BY <1>1, <1>2, SubSeqProperties DEF Upto

\* All of a sequence is its beginning of full length.
LEMMA UptoAll ==
  ASSUME NEW u \in Seq(Unit)
  PROVE  Upto(u, Len(u)) = u
BY SubSeqFull DEF Upto

\* Appending keeps what was there.
LEMMA UptoConcat ==
  ASSUME NEW u \in Seq(Unit), NEW v \in Seq(Unit)
  PROVE  /\ u \o v \in Seq(Unit)
         /\ Len(u \o v) = Len(u) + Len(v)
         /\ Upto(u \o v, Len(u)) = u
<1>1. /\ u \o v \in Seq(Unit)
      /\ Len(u \o v) = Len(u) + Len(v)
      /\ Len(u) \in Nat /\ Len(v) \in Nat
  BY ConcatProperties, LenProperties
<1>2. CASE u = <<>>
  <2>1. Len(u) = 0
    BY <1>2, EmptySeq
  <2>2. Upto(u \o v, 0) = <<>>
    BY SubSeqEmpty DEF Upto
  <2> QED
    BY <1>1, <1>2, <2>1, <2>2
<1>3. CASE u # <<>>
  <2>1. Len(u) \in 1 .. Len(u)
    BY <1>1, <1>3, EmptySeq
  <2>2. 1 \in 1 .. Len(u)
    BY <1>1, <2>1
  <2>3. SubSeq(u \o v, 1, Len(u)) = SubSeq(u, 1, Len(u))
    BY <2>1, <2>2, SubSeqOfConcat1
  <2> QED
    BY <1>1, <2>3, SubSeqFull DEF Upto
<1> QED
  BY <1>2, <1>3

\* A sequence is its beginning and the rest.
LEMMA UptoSplit ==
  ASSUME NEW u \in Seq(Unit), NEW n \in 0 .. Len(u)
  PROVE  /\ Upto(u, n) \in Seq(Unit)
         /\ SubSeq(u, n + 1, Len(u)) \in Seq(Unit)
         /\ Upto(u, n) \o SubSeq(u, n + 1, Len(u)) = u
<1>1. Len(u) \in Nat /\ n \in Int
  BY LenProperties
<1>2. \A i \in n + 1 .. Len(u) : u[i] \in Unit
  BY <1>1, ElementOfSeq
<1>3. SubSeq(u, n + 1, Len(u)) \in Seq(Unit)
  BY <1>1, <1>2, SubSeqProperties
<1>4. SubSeq(u, 1, n) \o SubSeq(u, n + 1, Len(u)) = SubSeq(u, 1, Len(u))
  <2> DEFINE l == Len(u)
  <2>1. 1 \in 1 .. l + 1 /\ n \in 1 - 1 .. l /\ l \in n .. l
    BY <1>1
  <2> QED
    BY <2>1, ConcatAdjacentSubSeq
<1> QED
  BY <1>3, <1>4, SubSeqFull, UptoType DEF Upto

\* Appending twice is appending once.
LEMMA Associative ==
  ASSUME NEW u \in Seq(Unit), NEW v \in Seq(Unit), NEW w \in Seq(Unit)
  PROVE  (u \o v) \o w = u \o (v \o w)
BY ConcatAssociative

\* A remainder is no larger than what was divided.
LEMMA RemBound ==
  ASSUME NEW a \in Nat, NEW b \in Nat \ {0}
  PROVE  a % b \in 0 .. a
<1>1. a % b \in 0 .. b - 1
  OBVIOUS
<1>2. CASE a < b
  BY <1>1, <1>2
<1>3. CASE a >= b
  BY <1>1, <1>3
<1> QED
  BY <1>2, <1>3

\* Put changes one name and keeps the rest.
LEMMA PutFiles ==
  ASSUME NEW fs, IsFiles(fs), NEW f \in File, NEW u \in Seq(Unit)
  PROVE  /\ IsFiles(Put(fs, f, u))
         /\ DOMAIN Put(fs, f, u) = DOMAIN fs \cup {f}
         /\ Put(fs, f, u)[f] = u
         /\ \A g \in DOMAIN fs : g # f => Put(fs, f, u)[g] = fs[g]
BY DEF IsFiles, Put

\* What stdio lets through of a buffer is a beginning of it.
LEMMA LandingType ==
  ASSUME NEW u \in Seq(Unit), NEW w \in Landing(u)
  PROVE  w \in Seq(Unit)
<1>1. PICK n \in IF IoFaults THEN 0 .. Len(u) ELSE {Len(u)} : w = Upto(u, n)
  BY DEF Landing
<1>2. n \in 0 .. Len(u)
  BY <1>1, LenProperties
<1> QED
  BY <1>1, <1>2, UptoType

\* A stream whose buffer changed.
LEMMA Rebuffered ==
  ASSUME NEW d \in DSession, NEW w \in Seq(Unit),
         NEW e, e = [d EXCEPT !.wbuf = w]
  PROVE  /\ e \in DSession
         /\ e.clid = d.clid /\ e.filename = d.filename /\ e.mode = d.mode
         /\ e.wbuf = w
BY DEF DSession

----------------------------------------------------------------------------
(***************************************************************************)
(* The three things a call does to the store                               *)
(***************************************************************************)

\* A step that leaves the files alone grows nothing.
LEMMA GrowsSame ==
  ASSUME NEW s, IsStore(s), NEW t, t.files = s.files, NEW W
  PROVE  Grows(s, t, W)
<1>1. \A f \in DOMAIN s.files : s.files[f] \in Seq(Unit)
  BY DEF IsStore, IsFiles
<1>2. \A f \in DOMAIN s.files : Upto(s.files[f], Len(s.files[f])) = s.files[f]
  BY <1>1, UptoAll
<1>3. \A f \in DOMAIN s.files : Len(s.files[f]) \in Nat
  BY <1>1, LenProperties
<1> QED
  BY <1>2, <1>3 DEF Grows

\* Appending to an existing file keeps the store sound, and the streams.
LEMMA AppendKeeps ==
  ASSUME NEW s, StoreSound(s), NEW f \in DOMAIN s.files, NEW u \in Seq(Unit)
  PROVE  /\ StoreSound(Append2(s, f, u))
         /\ Append2(s, f, u).dhead = s.dhead
         /\ DOMAIN Append2(s, f, u).files = DOMAIN s.files
         /\ Grows(s, Append2(s, f, u), {f})
<1> DEFINE t == Append2(s, f, u)
           new == s.files[f] \o u
<1>1. IsFiles(s.files) /\ f \in File /\ s.files[f] \in Seq(Unit)
  BY DEF StoreSound, IsStore, IsFiles
<1>2. /\ new \in Seq(Unit)
      /\ Len(new) = Len(s.files[f]) + Len(u)
      /\ Upto(new, Len(s.files[f])) = s.files[f]
  BY <1>1, UptoConcat
<1>3. t = [files |-> Put(s.files, f, new), dhead |-> s.dhead]
  BY DEF Append2, StoreSound, IsStore
<1> HIDE DEF t, new
<1>4. /\ IsFiles(t.files)
      /\ DOMAIN t.files = DOMAIN s.files
      /\ t.files[f] = new
      /\ \A g \in DOMAIN s.files : g # f => t.files[g] = s.files[g]
  <2>1. t.files = Put(s.files, f, new)
    BY <1>3
  <2> DEFINE p == Put(s.files, f, new)
  <2>2. /\ IsFiles(p)
        /\ DOMAIN p = DOMAIN s.files \cup {f}
        /\ p[f] = new
        /\ \A g \in DOMAIN s.files : g # f => p[g] = s.files[g]
    BY <1>1, <1>2, PutFiles
  <2> HIDE DEF p
  <2> QED
    <3>1. t.files = p
      BY <2>1 DEF p
    <3>2. DOMAIN s.files \cup {f} = DOMAIN s.files
      OBVIOUS
    <3> QED
      BY <2>2, <3>1, <3>2
<1>5. \A g \in DOMAIN s.files :
        /\ Len(s.files[g]) \in Nat
        /\ Len(s.files[g]) <= Len(t.files[g])
        /\ Upto(t.files[g], Len(s.files[g])) = s.files[g]
  <2> TAKE g \in DOMAIN s.files
  <2>1. s.files[g] \in Seq(Unit)
    BY <1>1 DEF IsFiles
  <2>2. Len(s.files[g]) \in Nat /\ Len(u) \in Nat
    BY <2>1, LenProperties
  <2>3. CASE g = f
    BY <1>2, <1>4, <2>2, <2>3
  <2>4. CASE g # f
    BY <1>4, <2>1, <2>2, <2>4, UptoAll
  <2> QED
    BY <2>3, <2>4
<1>6. Grows(s, t, {f})
  BY <1>4, <1>5 DEF Grows
<1>7. IsStore(t)
  BY <1>3, <1>4 DEF IsStore, StoreSound
<1>8. OneDsession(t) /\ SingleWriter(t)
  BY <1>3 DEF OneDsession, SingleWriter, StoreSound
<1>9. StreamsInside(t)
  <2> SUFFICES ASSUME NEW d \in s.dhead
               PROVE  /\ d.filename \in DOMAIN t.files
                      /\ d.mode = "r" =>
                           d.pos <= Len(t.files[d.filename]) /\ d.wbuf = <<>>
    BY <1>3 DEF StreamsInside
  <2>1. /\ d.filename \in DOMAIN s.files
        /\ d.mode = "r" => d.pos <= Len(s.files[d.filename]) /\ d.wbuf = <<>>
    BY DEF StoreSound, StreamsInside
  <2>2. d.pos \in Nat
    BY DEF StoreSound, IsStore, DSession
  <2>3. t.files[d.filename] \in Seq(Unit)
    BY <1>4, <2>1 DEF IsFiles
  <2>4. Len(t.files[d.filename]) \in Nat
    BY <2>3, LenProperties
  <2> QED
    BY <1>4, <1>5, <2>1, <2>2, <2>4
<1> QED
  BY <1>3, <1>4, <1>6, <1>7, <1>8, <1>9 DEF StoreSound, t

\* A stream of the list fits.
LEMMA FitsOld ==
  ASSUME NEW s, StoreSound(s), NEW d \in s.dhead
  PROVE  Fits(s, d)
BY DEF StoreSound, IsStore, OneDsession, SingleWriter, StreamsInside, Fits

\* Dropping a stream from the list keeps the store sound.
LEMMA DropKeeps ==
  ASSUME NEW s, StoreSound(s), NEW d,
         NEW t, t = [files |-> s.files, dhead |-> s.dhead \ {d}]
  PROVE  StoreSound(t)
BY DEF StoreSound, IsStore, OneDsession, SingleWriter, StreamsInside

\* Replacing a stream that fits by an advanced copy keeps the store sound.
LEMMA ReplaceKeeps ==
  ASSUME NEW s, StoreSound(s), NEW d, Fits(s, d),
         NEW e \in DSession,
         e.clid = d.clid, e.filename = d.filename, e.mode = d.mode,
         e.mode = "r" => e.pos <= Len(s.files[e.filename]) /\ e.wbuf = <<>>,
         NEW t, t = [files |-> s.files, dhead |-> (s.dhead \ {d}) \cup {e}]
  PROVE  StoreSound(t)
<1>1. IsStore(t)
  BY DEF StoreSound, IsStore
<1>2. OneDsession(t)
  BY DEF StoreSound, OneDsession, Fits
<1>3. SingleWriter(t)
  BY DEF StoreSound, SingleWriter, Fits
<1>4. StreamsInside(t)
  BY DEF StoreSound, StreamsInside, Fits
<1> QED
  BY <1>1, <1>2, <1>3, <1>4 DEF StoreSound

\* del_dsession of a stream that fits.
LEMMA DelKeeps ==
  ASSUME NEW s, StoreSound(s), NEW d, Fits(s, d), NEW t \in del_dsession(s, d)
  PROVE  /\ StoreSound(t)
         /\ Grows(s, t, IF d.mode = "w" THEN {d.filename} ELSE {})
         /\ DOMAIN t.files = DOMAIN s.files
<1>1. PICK w \in Landing(d.wbuf) :
        t = [files |-> IF d.mode = "w" THEN Append2(s, d.filename, w).files
                       ELSE s.files,
             dhead |-> s.dhead \ {d}]
  BY DEF del_dsession
<1>2. d.wbuf \in Seq(Unit) /\ d.filename \in DOMAIN s.files
  BY DEF Fits, DSession
<1>3. w \in Seq(Unit)
  BY <1>2, LandingType
<1>4. CASE d.mode = "w"
  <2> DEFINE a == Append2(s, d.filename, w)
  <2>1. /\ StoreSound(a) /\ a.dhead = s.dhead /\ Grows(s, a, {d.filename})
        /\ DOMAIN a.files = DOMAIN s.files
    BY <1>2, <1>3, AppendKeeps
  <2>2. t = [files |-> a.files, dhead |-> a.dhead \ {d}]
    BY <1>1, <1>4, <2>1
  <2>3. StoreSound(t)
    <3> HIDE DEF a
    <3> QED
      BY <2>1, <2>2, DropKeeps
  <2>4. Grows(s, t, {d.filename}) /\ DOMAIN t.files = DOMAIN s.files
    BY <2>1, <2>2 DEF Grows
  <2> QED
    BY <1>4, <2>3, <2>4
<1>5. CASE d.mode # "w"
  <2>1. t = [files |-> s.files, dhead |-> s.dhead \ {d}]
    BY <1>1, <1>5
  <2>2. StoreSound(t)
    BY <2>1, DropKeeps
  <2>3. Grows(s, t, {})
    BY <2>1, GrowsSame DEF StoreSound
  <2> QED
    BY <1>5, <2>1, <2>2, <2>3
<1> QED
  BY <1>4, <1>5
----------------------------------------------------------------------------
(***************************************************************************)
(* Opening                                                                 *)
(***************************************************************************)

\* A stream just opened, field by field.
LEMMA CreateType ==
  ASSUME NEW id \in Int, NEW f \in File, NEW m \in {"r", "w"},
         NEW free \in SUBSET Descriptor,
         NEW d \in create_dsession(id, f, m, free)
  PROVE  /\ d \in DSession
         /\ d.clid = id /\ d.filename = f /\ d.mode = m
         /\ d.pos = 0 /\ d.wbuf = <<>> /\ ~d.eof
<1>1. PICK n \in IF f \in Unopenable THEN {} ELSE Lowest(free) :
        d = [clid |-> id, filename |-> f, mode |-> m, pos |-> 0,
             eof |-> FALSE, wbuf |-> <<>>, fd |-> n]
  BY DEF create_dsession
<1>2. n \in Descriptor
  BY <1>1 DEF Lowest
<1>3. <<>> \in Seq(Unit)
  BY EmptySeq
<1> QED
  BY <1>1, <1>2, <1>3 DEF DSession

\* A reader just opened on an existing file fits.
LEMMA FitsNewReader ==
  ASSUME NEW s, StoreSound(s), NEW id \in Int, NEW f \in DOMAIN s.files,
         NEW free \in SUBSET Descriptor, get_dsession(s, id, f) = {},
         NEW d \in create_dsession(id, f, "r", free)
  PROVE  Fits(s, d)
<1>1. f \in File /\ s.files[f] \in Seq(Unit)
  BY DEF StoreSound, IsStore, IsFiles
<1>2. /\ d \in DSession
      /\ d.clid = id /\ d.filename = f /\ d.mode = "r"
      /\ d.pos = 0 /\ d.wbuf = <<>>
  BY <1>1, CreateType
<1>3. Len(s.files[f]) \in Nat
  BY <1>1, LenProperties
<1>4. \A e \in s.dhead : ~(e.clid = id /\ e.filename = f)
  BY DEF get_dsession
<1> QED
  BY <1>2, <1>3, <1>4 DEF Fits

\* fopen "w" of a name that does not exist: the new empty file keeps the store
\* sound, and the new writer fits because no stream is over a missing file.
LEMMA FitsNewWriter ==
  ASSUME NEW s, StoreSound(s), NEW id \in Int, NEW f \in File,
         f \notin DOMAIN s.files, NEW free \in SUBSET Descriptor,
         NEW t, t = [files |-> Put(s.files, f, <<>>), dhead |-> s.dhead]
  PROVE  /\ StoreSound(t)
         /\ t.dhead = s.dhead
         /\ f \in DOMAIN t.files
         /\ Grows(s, t, {})
         /\ \A d \in create_dsession(id, f, "w", free) : Fits(t, d)
<1>1. <<>> \in Seq(Unit)
  BY EmptySeq
<1>2. IsFiles(s.files) /\ s.dhead \subseteq DSession
  BY DEF StoreSound, IsStore
<1> DEFINE p == Put(s.files, f, <<>>)
<1>3. /\ IsFiles(p)
      /\ DOMAIN p = DOMAIN s.files \cup {f}
      /\ \A g \in DOMAIN s.files : p[g] = s.files[g]
  <2>1. /\ IsFiles(p)
        /\ DOMAIN p = DOMAIN s.files \cup {f}
        /\ \A g \in DOMAIN s.files : g # f => p[g] = s.files[g]
    BY <1>1, <1>2, PutFiles
  <2> HIDE DEF p
  <2> QED
    BY <2>1
<1>4. /\ t = [files |-> p, dhead |-> s.dhead]
      /\ t.files = p /\ t.dhead = s.dhead
  OBVIOUS
<1> HIDE DEF p
<1>5. \A d \in s.dhead : d.filename \in DOMAIN s.files
  BY DEF StoreSound, StreamsInside
<1>6. StoreSound(t)
  <2>1. IsStore(t)
    BY <1>2, <1>3, <1>4, Zenon DEF IsStore
  <2>2. OneDsession(t) /\ SingleWriter(t)
    BY <1>4 DEF StoreSound, OneDsession, SingleWriter
  <2>3. StreamsInside(t)
    BY <1>3, <1>4, <1>5 DEF StoreSound, StreamsInside
  <2> QED
    BY <2>1, <2>2, <2>3 DEF StoreSound
<1>7. Grows(s, t, {})
  <2> SUFFICES ASSUME NEW g \in DOMAIN s.files
               PROVE  /\ g \in DOMAIN t.files
                      /\ Len(s.files[g]) <= Len(t.files[g])
                      /\ Upto(t.files[g], Len(s.files[g])) = s.files[g]
                      /\ t.files[g] = s.files[g]
    BY DEF Grows
  <2>1. g \in DOMAIN t.files /\ t.files[g] = s.files[g]
    BY <1>3, <1>4
  <2>2. s.files[g] \in Seq(Unit)
    BY <1>2 DEF IsFiles
  <2>3. Len(s.files[g]) \in Nat /\ Upto(s.files[g], Len(s.files[g])) = s.files[g]
    BY <2>2, LenProperties, UptoAll
  <2> QED
    BY <2>1, <2>3
<1>8. ASSUME NEW d \in create_dsession(id, f, "w", free)
      PROVE  Fits(t, d)
  <2>1. d \in DSession /\ d.filename = f /\ d.mode = "w"
    BY CreateType
  <2> QED
    BY <1>3, <1>4, <1>5, <2>1 DEF Fits
<1> QED
  BY <1>3, <1>4, <1>6, <1>7, <1>8

----------------------------------------------------------------------------
(***************************************************************************)
(* The operations                                                          *)
(***************************************************************************)

\* fread on a stream that fits.
LEMMA FreadKeeps ==
  ASSUME NEW s, StoreSound(s), NEW d, Fits(s, d), NEW r \in Fread(s, d)
  PROVE  /\ StoreSound(r.ds)
         /\ Grows(s, r.ds, IF d.mode = "w" THEN {d.filename} ELSE {})
         /\ DOMAIN r.ds.files = DOMAIN s.files
<1> DEFINE text == s.files[d.filename]
           end == IF d.eof THEN d.pos
                  ELSE IF d.pos + BufSize <= Len(text) THEN d.pos + BufSize
                  ELSE Len(text)
           e == [d EXCEPT !.pos = end, !.eof = end < d.pos + BufSize]
           u == Replaced(s, d, e)
<1>1. d \in DSession /\ d.filename \in DOMAIN s.files
  BY DEF Fits
<1>2. CASE d.mode = "r" /\ r.ds = u
  <2>1. text \in Seq(Unit)
    BY <1>1 DEF StoreSound, IsStore, IsFiles
  <2>2. Len(text) \in Nat
    BY <2>1, LenProperties
  <2>3. d.pos \in Nat /\ d.pos <= Len(text) /\ d.wbuf = <<>>
    BY <1>1, <1>2 DEF Fits, DSession
  <2>4. BufSize \in Nat
    BY StoreAssumption
  <2> HIDE DEF text
  <2>5. end \in Nat /\ end <= Len(text)
    BY <2>2, <2>3, <2>4
  <2> HIDE DEF end
  <2>6. /\ e \in DSession
        /\ e.clid = d.clid /\ e.filename = d.filename /\ e.mode = d.mode
        /\ e.pos = end /\ e.wbuf = d.wbuf
    <3>1. CASE end < d.pos + BufSize
      <4>1. e = [d EXCEPT !.pos = end, !.eof = TRUE]
        BY <3>1, Zenon
      <4> HIDE DEF e
      <4> QED
        BY <1>1, <2>5, <4>1 DEF DSession
    <3>2. CASE ~(end < d.pos + BufSize)
      <4>0. (end < d.pos + BufSize) = FALSE
        BY <3>2
      <4>1. e = [d EXCEPT !.pos = end, !.eof = FALSE]
        BY <4>0, Zenon
      <4> HIDE DEF e
      <4> QED
        BY <1>1, <2>5, <4>1 DEF DSession
    <3> QED
      BY <3>1, <3>2
  <2>7. u = [files |-> s.files, dhead |-> (s.dhead \ {d}) \cup {e}]
    BY DEF Replaced
  <2> HIDE DEF e, u
  <2>8. StoreSound(u)
    BY <2>3, <2>5, <2>6, <2>7, ReplaceKeeps DEF text
  <2>9. Grows(s, u, {})
    BY <2>7, GrowsSame DEF StoreSound
  <2> QED
    BY <1>2, <2>7, <2>8, <2>9
<1>3. CASE r.ds \in del_dsession(s, d)
  BY <1>3, DelKeeps
<1>4. \/ d.mode = "r" /\ r.ds = u
      \/ r.ds \in del_dsession(s, d)
  <2> DEFINE A == {[ds |-> u, data |-> SubSeq(text, d.pos + 1, end), derr |-> "OK"] :
                     x \in IF d.mode = "r" THEN {0} ELSE {}}
             B == {[ds |-> v, data |-> <<>>, derr |-> "READFAIL"] :
                     v \in IF d.mode = "w" \/ IoFaults THEN del_dsession(s, d) ELSE {}}
  <2>1. r \in A \/ r \in B
    BY Zenon DEF Fread
  <2> HIDE DEF text, end, u
  <2>2. r \in A => d.mode = "r" /\ r.ds = u
    OBVIOUS
  <2>3. r \in B => r.ds \in del_dsession(s, d)
    OBVIOUS
  <2> HIDE DEF A, B
  <2> QED
    BY <2>1, <2>2, <2>3
<1> QED
  BY <1>2, <1>3, <1>4

\* fwrite on a stream that fits.
LEMMA FwriteKeeps ==
  ASSUME NEW s, StoreSound(s), NEW d, Fits(s, d), NEW data \in Seq(Unit),
         NEW r \in Fwrite(s, d, data)
  PROVE  /\ StoreSound(r.ds)
         /\ Grows(s, r.ds, IF d.mode = "w" THEN {d.filename} ELSE {})
         /\ DOMAIN r.ds.files = DOMAIN s.files
<1> DEFINE all == d.wbuf \o data
           n == Len(all) - (Len(all) % StdioBlock)
           e == [d EXCEPT !.wbuf = SubSeq(all, n + 1, Len(all))]
           t == Replaced(s, d, e)
           cut == [files |-> s.files, dhead |-> s.dhead \ {d}]
<1>1. d \in DSession /\ d.filename \in DOMAIN s.files /\ d.mode \in {"r", "w"}
  BY DEF Fits, DSession
<1>2. all \in Seq(Unit)
  BY <1>1, UptoConcat DEF DSession
<1>3. cut = [files |-> s.files, dhead |-> s.dhead \ {d}] /\ cut.files = s.files
  OBVIOUS
<1>4. StoreSound(cut)
  BY <1>3, DropKeeps
<1>5. CASE d.mode = "r"
  <2>1. r.ds = cut
    BY <1>5 DEF Fwrite
  <2>2. Grows(s, cut, {})
    BY <1>3, GrowsSame DEF StoreSound
  <2> QED
    BY <1>3, <1>4, <1>5, <2>1, <2>2
<1>6. CASE d.mode = "w" /\ r.ds = Append2(t, d.filename, Upto(all, n))
  <2>1. Len(all) \in Nat
    BY <1>2, LenProperties
  <2>2. n \in 0 .. Len(all)
    <3>1. Len(all) % StdioBlock \in 0 .. Len(all)
      BY <2>1, StoreAssumption, RemBound
    <3> QED
      BY <2>1, <3>1
  <2> HIDE DEF all, n
  <2>3. Upto(all, n) \in Seq(Unit)
    BY <1>2, <2>2, UptoType
  <2>4. SubSeq(all, n + 1, Len(all)) \in Seq(Unit)
    <3>1. \A i \in n + 1 .. Len(all) : all[i] \in Unit
      BY <1>2, <2>1, <2>2, ElementOfSeq
    <3> QED
      BY <2>1, <2>2, <3>1, SubSeqProperties
  <2>5. /\ e \in DSession
        /\ e.clid = d.clid /\ e.filename = d.filename /\ e.mode = d.mode
    <3> DEFINE w == SubSeq(all, n + 1, Len(all))
    <3>1. e = [d EXCEPT !.wbuf = w]
      OBVIOUS
    <3>2. w \in Seq(Unit)
      BY <2>4
    <3> HIDE DEF w, e
    <3> QED
      BY <1>1, <3>1, <3>2, Rebuffered
  <2>6. t = [files |-> s.files, dhead |-> (s.dhead \ {d}) \cup {e}]
    BY DEF Replaced
  <2> HIDE DEF e, t
  <2>7. StoreSound(t)
    BY <1>6, <2>5, <2>6, ReplaceKeeps
  <2>8. t.files = s.files
    BY <2>6
  <2> DEFINE a == Append2(t, d.filename, Upto(all, n))
  <2>9. StoreSound(a) /\ Grows(t, a, {d.filename}) /\ DOMAIN a.files = DOMAIN t.files
    BY <1>1, <2>3, <2>7, <2>8, AppendKeeps
  <2>10. Grows(s, a, {d.filename})
    BY <2>8, <2>9 DEF Grows
  <2> QED
    BY <1>6, <2>8, <2>9, <2>10
<1>7. CASE d.mode = "w" /\ \E w \in Landing(all) : r.ds = Append2(cut, d.filename, w)
  <2>1. PICK w \in Landing(all) : r.ds = Append2(cut, d.filename, w)
    BY <1>7
  <2>2. w \in Seq(Unit)
    BY <1>2, LandingType
  <2>3. cut.files = s.files
    BY <1>3
  <2> HIDE DEF cut, all
  <2> DEFINE a == Append2(cut, d.filename, w)
  <2>4. /\ StoreSound(a) /\ Grows(cut, a, {d.filename})
        /\ DOMAIN a.files = DOMAIN cut.files
    <3>1. StoreSound(cut) /\ d.filename \in DOMAIN cut.files
      BY <1>1, <1>4, <2>3
    <3> QED
      BY <2>2, <3>1, AppendKeeps
  <2>5. Grows(s, a, {d.filename})
    BY <2>3, <2>4 DEF Grows
  <2> QED
    BY <1>7, <2>1, <2>3, <2>4, <2>5
<1>8. d.mode = "w" =>
        \/ r.ds = Append2(t, d.filename, Upto(all, n))
        \/ \E w \in Landing(all) : r.ds = Append2(cut, d.filename, w)
  <2> DEFINE A == {[ds |-> Append2(t, d.filename, Upto(all, n)),
                    len |-> Len(data), derr |-> "OK"]}
             B == {[ds |-> Append2(cut, d.filename, w), len |-> 0, derr |-> "OK"] :
                     w \in IF IoFaults THEN Landing(all) ELSE {}}
  <2>1. d.mode = "w" => r \in A \cup B
    BY DEF Fwrite
  <2> HIDE DEF t, all, n, cut
  <2>2. r \in A => r.ds = Append2(t, d.filename, Upto(all, n))
    OBVIOUS
  <2>3. r \in B => \E w \in Landing(all) : r.ds = Append2(cut, d.filename, w)
    OBVIOUS
  <2> HIDE DEF A, B
  <2> QED
    BY <2>1, <2>2, <2>3
<1> QED
  BY <1>1, <1>5, <1>6, <1>7, <1>8

\* Growth through a stream of the store is write-once.
LEMMA GrowsExtends ==
  ASSUME NEW s, NEW t, NEW d \in s.dhead,
         Grows(s, t, IF d.mode = "w" THEN {d.filename} ELSE {})
  PROVE  Extends(s, t)
BY DEF Grows, Extends

\* Growth of no file is write-once whoever is in the store.
LEMMA GrowsNothing ==
  ASSUME NEW s, NEW t, Grows(s, t, {})
  PROVE  Extends(s, t)
BY DEF Grows, Extends

\* iwds_read keeps the store sound and write-once, and creates no file.
LEMMA ReadKeeps ==
  ASSUME NEW s, StoreSound(s), NEW id \in Int, NEW f \in File,
         NEW free \in SUBSET Descriptor, NEW r \in iwds_read(s, id, f, free)
  PROVE  /\ StoreSound(r.ds) /\ Extends(s, r.ds)
         /\ DOMAIN r.ds.files = DOMAIN s.files
<1>1. CASE r.ds = s
  BY <1>1, GrowsSame, GrowsNothing DEF StoreSound
<1>2. CASE \E d \in get_dsession(s, id, f) : r \in Fread(s, d)
  <2>1. PICK d \in s.dhead : r \in Fread(s, d)
    BY <1>2 DEF get_dsession
  <2>2. Fits(s, d)
    BY FitsOld
  <2>3. /\ StoreSound(r.ds)
        /\ Grows(s, r.ds, IF d.mode = "w" THEN {d.filename} ELSE {})
        /\ DOMAIN r.ds.files = DOMAIN s.files
    BY <2>1, <2>2, FreadKeeps
  <2> QED
    BY <2>3, GrowsExtends
<1>3. CASE /\ f \in DOMAIN s.files
           /\ get_dsession(s, id, f) = {}
           /\ \E d \in create_dsession(id, f, "r", free) : r \in Fread(s, d)
  <2>1. PICK d \in create_dsession(id, f, "r", free) : r \in Fread(s, d)
    BY <1>3
  <2>2. Fits(s, d) /\ d.mode = "r"
    BY <1>3, FitsNewReader, CreateType
  <2>3. /\ StoreSound(r.ds) /\ Grows(s, r.ds, {})
        /\ DOMAIN r.ds.files = DOMAIN s.files
    BY <2>1, <2>2, FreadKeeps
  <2> QED
    BY <2>3, GrowsNothing
<1>4. \/ r.ds = s
      \/ \E d \in get_dsession(s, id, f) : r \in Fread(s, d)
      \/ /\ f \in DOMAIN s.files
         /\ get_dsession(s, id, f) = {}
         /\ \E d \in create_dsession(id, f, "r", free) : r \in Fread(s, d)
  BY DEF iwds_read, is_dsfile
<1> QED
  BY <1>1, <1>2, <1>3, <1>4

\* What iwds_write can come to: a refusal, the end of writing or an fwrite on
\* the caller's stream, or the same on a new stream over a new file.
LEMMA WriteOutcome ==
  ASSUME NEW s, NEW id, NEW f, NEW data, NEW free,
         NEW r \in iwds_write(s, id, f, data, free)
  PROVE  \/ r.ds = s /\ r.derr # "OK"
         \/ \E d \in get_dsession(s, id, f) :
              \/ /\ data = <<>> /\ r.derr = "OK" /\ r.len = 0
                 /\ r.ds \in del_dsession(s, d)
              \/ data # <<>> /\ r \in Fwrite(s, d, data)
         \/ /\ f \notin DOMAIN s.files
            /\ \E d \in create_dsession(id, f, "w", free) :
                 \/ /\ data = <<>> /\ r.derr = "OK" /\ r.len = 0
                    /\ r.ds \in del_dsession(Created(s, f), d)
                 \/ data # <<>> /\ r \in Fwrite(Created(s, f), d, data)
<1> DEFINE Gives(t, d) == \/ /\ data = <<>> /\ r.derr = "OK" /\ r.len = 0
                             /\ r.ds \in del_dsession(t, d)
                          \/ data # <<>> /\ r \in Fwrite(t, d, data)
           opened == Created(s, f)
<1>1. \/ r.ds = s /\ r.derr # "OK"
      \/ \E d \in get_dsession(s, id, f) : Gives(s, d)
      \/ /\ f \notin DOMAIN s.files
         /\ \E d \in create_dsession(id, f, "w", free) : Gives(opened, d)
  <2> DEFINE old == get_dsession(s, id, f)
             ses == IF old # {} THEN old ELSE create_dsession(id, f, "w", free)
             t == IF old # {} THEN s ELSE opened
  <2>1. CASE r \in {[ds |-> s, len |-> 0, derr |-> "NOTPERMIT"],
                    [ds |-> s, len |-> 0, derr |-> "NOSESSION"]}
    BY <2>1
  <2>2. CASE /\ ~(old = {} /\ f \in DOMAIN s.files)
             /\ \E d \in ses : Gives(t, d)
    <3> HIDE DEF Gives, opened
    <3> QED
      BY <2>2
  <2>3. CASE /\ ~(old = {} /\ f \in DOMAIN s.files)
             /\ data = <<>>
             /\ r \in {[ds |-> u, len |-> 0, derr |-> "OK"] :
                         u \in UNION {del_dsession(t, d) : d \in ses}}
    <3> HIDE DEF ses, t
    <3>1. r.derr = "OK" /\ r.len = 0 /\ \E d \in ses : r.ds \in del_dsession(t, d)
      BY <2>3
    <3> QED
      BY <2>2, <2>3, <3>1
  <2>4. CASE /\ ~(old = {} /\ f \in DOMAIN s.files)
             /\ data # <<>>
             /\ r \in UNION {Fwrite(t, d, data) : d \in ses}
    <3> HIDE DEF ses, t
    <3>1. \E d \in ses : r \in Fwrite(t, d, data)
      BY <2>4
    <3> QED
      BY <2>2, <2>4, <3>1
  <2> QED
    BY <2>1, <2>3, <2>4, Zenon DEF iwds_write, is_dsfile
<1> QED
  BY <1>1

\* iwds_write keeps the store sound and write-once: a name that exists is
\* opened by nobody, and through an open writer it only grows.
LEMMA WriteKeeps ==
  ASSUME NEW s, StoreSound(s), NEW id \in Int, NEW f \in File,
         NEW data \in Seq(Unit), NEW free \in SUBSET Descriptor,
         NEW r \in iwds_write(s, id, f, data, free)
  PROVE  StoreSound(r.ds) /\ Extends(s, r.ds)
<1> DEFINE Gives(t, d) == r.ds \in del_dsession(t, d) \/ r \in Fwrite(t, d, data)
           opened == Created(s, f)
<1>1. ASSUME NEW t, StoreSound(t), NEW d, Fits(t, d), Gives(t, d)
      PROVE  /\ StoreSound(r.ds)
             /\ Grows(t, r.ds, IF d.mode = "w" THEN {d.filename} ELSE {})
  BY <1>1, DelKeeps, FwriteKeeps
<1>2. CASE r.ds = s
  BY <1>2, GrowsSame, GrowsNothing DEF StoreSound
<1>3. CASE \E d \in get_dsession(s, id, f) : Gives(s, d)
  <2>1. PICK d \in s.dhead : Gives(s, d)
    BY <1>3 DEF get_dsession
  <2>2. Fits(s, d)
    BY FitsOld
  <2> HIDE DEF Gives
  <2>3. /\ StoreSound(r.ds)
        /\ Grows(s, r.ds, IF d.mode = "w" THEN {d.filename} ELSE {})
    BY <1>1, <2>1, <2>2
  <2> QED
    BY <2>3, GrowsExtends
<1>4. CASE /\ f \notin DOMAIN s.files
           /\ \E d \in create_dsession(id, f, "w", free) : Gives(opened, d)
  <2>1. PICK d \in create_dsession(id, f, "w", free) : Gives(opened, d)
    BY <1>4
  <2>2. d.filename = f
    BY CreateType
  <2>3. opened = [files |-> Put(s.files, f, <<>>), dhead |-> s.dhead]
    BY DEF Created
  <2> HIDE DEF Gives, opened
  <2>4. StoreSound(opened) /\ Fits(opened, d) /\ Grows(s, opened, {})
    BY <1>4, <2>3, FitsNewWriter
  <2>5. /\ StoreSound(r.ds)
        /\ Grows(opened, r.ds, IF d.mode = "w" THEN {d.filename} ELSE {})
    BY <1>1, <2>1, <2>4
  <2>6. Grows(s, r.ds, {})
    BY <1>4, <2>2, <2>4, <2>5 DEF Grows
  <2> QED
    BY <2>5, <2>6, GrowsNothing
<1>5. \/ r.ds = s
      \/ \E d \in get_dsession(s, id, f) : Gives(s, d)
      \/ /\ f \notin DOMAIN s.files
         /\ \E d \in create_dsession(id, f, "w", free) : Gives(opened, d)
  BY WriteOutcome
<1> QED
  BY <1>2, <1>3, <1>4, <1>5

\* iwds_close keeps the store sound and write-once, and creates no file.
LEMMA CloseKeeps ==
  ASSUME NEW s, StoreSound(s), NEW id, NEW f, NEW t \in iwds_close(s, id, f)
  PROVE  /\ StoreSound(t) /\ Extends(s, t)
         /\ DOMAIN t.files = DOMAIN s.files
<1>1. CASE t = s
  BY <1>1, GrowsSame, GrowsNothing DEF StoreSound
<1>2. CASE \E d \in s.dhead : t \in del_dsession(s, d)
  BY <1>2, FitsOld, DelKeeps, GrowsExtends
<1> QED
  BY <1>1, <1>2 DEF iwds_close, get_dsession

\* So does every turn of the loop of iwds_exit.
LEMMA ExitKeeps ==
  ASSUME NEW s, StoreSound(s), NEW t \in iwds_exit_step(s)
  PROVE  StoreSound(t) /\ Extends(s, t)
BY FitsOld, DelKeeps, GrowsExtends DEF iwds_exit_step

----------------------------------------------------------------------------
(***************************************************************************)
(* The operations as steps of WriteOnceStore                               *)
(***************************************************************************)

\* What is needed of IsPrefix without the rest of SequencesExt.
Beginning(u, v) == Len(u) <= Len(v) /\ SubSeq(u, 1, Len(u)) = SubSeq(v, 1, Len(u))

\* From s to t the abstract store stutters.
Still(s, t) == t.files = s.files /\ Writers(t) = Writers(s)

\* From s to t the abstract store takes the step Write(f, w).
Wrote(s, t, f, w) ==
  /\ f \notin DOMAIN s.files \/ <<f, w>> \in Writers(s)
  /\ DOMAIN t.files = DOMAIN s.files \cup {f}
  /\ \A g \in DOMAIN s.files :
       IF g = f THEN Beginning(s.files[f], t.files[f]) ELSE t.files[g] = s.files[g]
  /\ \/ Writers(t) = Writers(s) \cup {<<f, w>>}
     \/ Writers(t) = Writers(s) \ {<<f, w>>}

\* What a call that works on stream d does to the writers.
Moves(s, t, d) ==
  /\ d.mode = "w" => \/ Writers(t) = Writers(s) \cup {<<d.filename, d.clid>>}
                     \/ Writers(t) = Writers(s) \ {<<d.filename, d.clid>>}
  /\ d.mode # "w" => Still(s, t)

----------------------------------------------------------------------------

\* Membership in Writers.
LEMMA InWriters ==
  ASSUME NEW s, NEW p
  PROVE  p \in Writers(s) <=>
           \E d \in s.dhead : d.mode = "w" /\ p = <<d.filename, d.clid>>
BY DEF Writers

\* Without d its file has no writer: no other stream writes it.
LEMMA DropMoves ==
  ASSUME NEW s, NEW d, Fits(s, d), NEW t, t.dhead = s.dhead \ {d},
         d.mode # "w" => t.files = s.files
  PROVE  Moves(s, t, d)
<1>1. CASE d.mode = "w"
  <2>1. \A p : p \in Writers(t) <=>
                 p \in Writers(s) \ {<<d.filename, d.clid>>}
    <3> TAKE p
    <3>1. \A e \in s.dhead \ {d} : e.mode = "w" => e.filename # d.filename
      BY <1>1 DEF Fits
    <3>2. ASSUME p \in Writers(t)
          PROVE  p \in Writers(s) \ {<<d.filename, d.clid>>}
      BY <3>1, <3>2, InWriters
    <3>3. ASSUME p \in Writers(s), p # <<d.filename, d.clid>>
          PROVE  p \in Writers(t)
      BY <3>3, InWriters
    <3> QED
      BY <3>2, <3>3
  <2>2. Writers(t) = Writers(s) \ {<<d.filename, d.clid>>}
    BY <2>1
  <2> QED
    BY <1>1, <2>2 DEF Moves
<1>2. CASE d.mode # "w"
  <2>1. \A p : p \in Writers(t) <=> p \in Writers(s)
    BY <1>2, InWriters
  <2>2. Writers(t) = Writers(s)
    BY <2>1
  <2> QED
    BY <1>2, <2>2 DEF Moves, Still
<1> QED
  BY <1>1, <1>2

\* A copy of d in its place writes what d wrote.
LEMMA ReplaceMoves ==
  ASSUME NEW s, NEW d, NEW e,
         e.clid = d.clid, e.filename = d.filename, e.mode = d.mode,
         NEW t, t.dhead = (s.dhead \ {d}) \cup {e},
         d.mode # "w" => t.files = s.files
  PROVE  Moves(s, t, d)
<1>1. CASE d.mode = "w"
  <2>1. \A p : p \in Writers(t) <=>
                 p \in Writers(s) \cup {<<d.filename, d.clid>>}
    <3> TAKE p
    <3>1. ASSUME p \in Writers(t)
          PROVE  p \in Writers(s) \cup {<<d.filename, d.clid>>}
      BY <3>1, InWriters
    <3>2. ASSUME p \in Writers(s) PROVE p \in Writers(t)
      BY <1>1, <3>2, InWriters
    <3>3. <<d.filename, d.clid>> \in Writers(t)
      BY <1>1, InWriters
    <3> QED
      BY <3>1, <3>2, <3>3
  <2>2. Writers(t) = Writers(s) \cup {<<d.filename, d.clid>>}
    BY <2>1
  <2> QED
    BY <1>1, <2>2 DEF Moves
<1>2. CASE d.mode # "w"
  <2>1. \A p : p \in Writers(t) <=> p \in Writers(s)
    BY <1>2, InWriters
  <2>2. Writers(t) = Writers(s)
    BY <2>1
  <2> QED
    BY <1>2, <2>2 DEF Moves, Still
<1> QED
  BY <1>1, <1>2

\* e is d after a call: what identifies a stream is as it was.
Same(d, e) ==
  e.clid = d.clid /\ e.filename = d.filename /\ e.mode = d.mode /\ e.fd = d.fd

\* s became t by a call that worked on d: it replaced it or dropped it.
Worked(s, t, d) ==
  /\ \/ \E e : Same(d, e) /\ t.dhead = (s.dhead \ {d}) \cup {e}
     \/ t.dhead = s.dhead \ {d}
  /\ d.mode # "w" => t.files = s.files

\* Whatever a call does to its stream, it moves at most that one's writer.
LEMMA WorkedMoves ==
  ASSUME NEW s, NEW d, Fits(s, d), NEW t, Worked(s, t, d)
  PROVE  Moves(s, t, d)
<1>1. CASE t.dhead = s.dhead \ {d}
  BY <1>1, DropMoves DEF Worked
<1>2. CASE \E e : Same(d, e) /\ t.dhead = (s.dhead \ {d}) \cup {e}
  <2>1. PICK e : Same(d, e) /\ t.dhead = (s.dhead \ {d}) \cup {e}
    BY <1>2
  <2> QED
    BY <2>1, ReplaceMoves DEF Same, Worked
<1> QED
  BY <1>1, <1>2 DEF Worked

\* del_dsession drops the stream.
LEMMA DelWorks ==
  ASSUME NEW s, NEW d, NEW t \in del_dsession(s, d)
  PROVE  Worked(s, t, d)
BY DEF del_dsession, Worked

\* fread advances a reader, or drops the stream.
LEMMA FreadWorks ==
  ASSUME NEW s, NEW d \in DSession, NEW r \in Fread(s, d)
  PROVE  Worked(s, r.ds, d)
<1> DEFINE text == s.files[d.filename]
           end == IF d.eof THEN d.pos
                  ELSE IF d.pos + BufSize <= Len(text) THEN d.pos + BufSize
                  ELSE Len(text)
           e == [d EXCEPT !.pos = end, !.eof = end < d.pos + BufSize]
           u == Replaced(s, d, e)
           A == {[ds |-> u, data |-> SubSeq(text, d.pos + 1, end), derr |-> "OK"] :
                   x \in IF d.mode = "r" THEN {0} ELSE {}}
           B == {[ds |-> v, data |-> <<>>, derr |-> "READFAIL"] :
                   v \in IF d.mode = "w" \/ IoFaults THEN del_dsession(s, d) ELSE {}}
<1>1. r \in A \/ r \in B
  BY Zenon DEF Fread
<1>2. Same(d, e)
  <2> HIDE DEF end
  <2> QED
    BY DEF DSession, Same
<1>3. u.files = s.files /\ u.dhead = (s.dhead \ {d}) \cup {e}
  BY DEF Replaced
<1> HIDE DEF e, u, text, end
<1>4. CASE r \in A
  BY <1>2, <1>3, <1>4 DEF Worked
<1>5. CASE r \in B
  BY <1>5, DelWorks
<1> QED
  BY <1>1, <1>4, <1>5

\* fwrite keeps the writer, or drops the stream.
LEMMA FwriteWorks ==
  ASSUME NEW s, NEW d \in DSession, NEW data, NEW r \in Fwrite(s, d, data)
  PROVE  Worked(s, r.ds, d)
<1> DEFINE all == d.wbuf \o data
           n == Len(all) - (Len(all) % StdioBlock)
           e == [d EXCEPT !.wbuf = SubSeq(all, n + 1, Len(all))]
           t == Replaced(s, d, e)
           cut == [files |-> s.files, dhead |-> s.dhead \ {d}]
<1>1. d.mode \in {"r", "w"}
  BY DEF DSession
<1>2. Same(d, e)
  <2> HIDE DEF n, all
  <2> QED
    BY DEF DSession, Same
<1>3. t.files = s.files /\ t.dhead = (s.dhead \ {d}) \cup {e}
  BY DEF Replaced
<1>4. cut.files = s.files /\ cut.dhead = s.dhead \ {d}
  OBVIOUS
<1>5. \A w : Append2(t, d.filename, w).dhead = t.dhead
  BY <1>3 DEF Append2, Replaced
<1>6. \A w : Append2(cut, d.filename, w).dhead = cut.dhead
  BY DEF Append2
<1>7. CASE d.mode = "r"
  <2>1. r = [ds |-> cut, len |-> 0, derr |-> "OK"]
    BY <1>7 DEF Fwrite
  <2> HIDE DEF cut
  <2> QED
    BY <1>4, <2>1 DEF Worked
<1>8. CASE d.mode = "w"
  <2>1. \/ r.ds = Append2(t, d.filename, Upto(all, n))
        \/ \E w : r.ds = Append2(cut, d.filename, w)
    <3>1. r \in {[ds |-> Append2(t, d.filename, Upto(all, n)),
                  len |-> Len(data), derr |-> "OK"]}
                \cup
                {[ds |-> Append2(cut, d.filename, w), len |-> 0, derr |-> "OK"] :
                    w \in IF IoFaults THEN Landing(all) ELSE {}}
      BY <1>8, Zenon DEF Fwrite
    <3> HIDE DEF t, cut, all, n
    <3> QED
      BY <3>1
  <2> HIDE DEF t, cut, e
  <2>2. \/ r.ds.dhead = (s.dhead \ {d}) \cup {e}
        \/ r.ds.dhead = s.dhead \ {d}
    BY <1>3, <1>4, <1>5, <1>6, <2>1
  <2> QED
    BY <1>2, <1>8, <2>2 DEF Worked
<1> QED
  BY <1>1, <1>7, <1>8

----------------------------------------------------------------------------
(***************************************************************************)
(* The calls                                                               *)
(***************************************************************************)

\* A file that grew begins with what it was.
LEMMA GrownBeginning ==
  ASSUME NEW u \in Seq(Unit), NEW v, Len(u) <= Len(v), Upto(v, Len(u)) = u
  PROVE  Beginning(u, v)
BY UptoAll DEF Beginning, Upto

\* A call that worked on a stream of the list is a stutter or a step.
LEMMA WorkedOld ==
  ASSUME NEW s, StoreSound(s), NEW t, NEW d \in s.dhead, Moves(s, t, d),
         Grows(s, t, IF d.mode = "w" THEN {d.filename} ELSE {}),
         DOMAIN t.files = DOMAIN s.files
  PROVE  Still(s, t) \/ Wrote(s, t, d.filename, d.clid)
<1>1. CASE d.mode = "w"
  <2>1. <<d.filename, d.clid>> \in Writers(s)
    BY <1>1, InWriters
  <2>2. d.filename \in DOMAIN s.files
    BY DEF StoreSound, StreamsInside
  <2>3. ASSUME NEW g \in DOMAIN s.files
        PROVE  IF g = d.filename THEN Beginning(s.files[d.filename], t.files[d.filename])
               ELSE t.files[g] = s.files[g]
    <3>1. s.files[g] \in Seq(Unit)
      BY DEF StoreSound, IsStore, IsFiles
    <3> QED
      BY <1>1, <3>1, GrownBeginning DEF Grows
  <2> QED
    BY <1>1, <2>1, <2>2, <2>3 DEF Wrote, Moves
<1>2. CASE d.mode # "w"
  BY <1>2 DEF Moves
<1> QED
  BY <1>1, <1>2

\* A call of iwds_read is a stutter, or the step that ends the writing of its
\* caller (fread fails on a stream opened for writing).
LEMMA ReadRefines ==
  ASSUME NEW s, StoreSound(s), NEW id \in Int, NEW f \in File,
         NEW free \in SUBSET Descriptor, NEW r \in iwds_read(s, id, f, free)
  PROVE  Still(s, r.ds) \/ Wrote(s, r.ds, f, id)
<1>1. CASE r.ds = s
  BY <1>1 DEF Still
<1>2. CASE \E d \in get_dsession(s, id, f) : r \in Fread(s, d)
  <2>1. PICK d \in s.dhead : d.clid = id /\ d.filename = f /\ r \in Fread(s, d)
    BY <1>2 DEF get_dsession
  <2>2. Fits(s, d)
    BY FitsOld
  <2>3. Moves(s, r.ds, d)
    BY <2>1, <2>2, FreadWorks, WorkedMoves DEF Fits
  <2>4. /\ Grows(s, r.ds, IF d.mode = "w" THEN {d.filename} ELSE {})
        /\ DOMAIN r.ds.files = DOMAIN s.files
    BY <2>1, <2>2, FreadKeeps
  <2> QED
    BY <2>1, <2>3, <2>4, WorkedOld
<1>3. CASE /\ f \in DOMAIN s.files
           /\ get_dsession(s, id, f) = {}
           /\ \E d \in create_dsession(id, f, "r", free) : r \in Fread(s, d)
  <2>1. PICK d \in create_dsession(id, f, "r", free) : r \in Fread(s, d)
    BY <1>3
  <2>2. Fits(s, d) /\ d.mode = "r"
    BY <1>3, FitsNewReader, CreateType
  <2> QED
    BY <2>1, <2>2, FreadWorks, WorkedMoves DEF Moves, Fits
<1>4. \/ r.ds = s
      \/ \E d \in get_dsession(s, id, f) : r \in Fread(s, d)
      \/ /\ f \in DOMAIN s.files
         /\ get_dsession(s, id, f) = {}
         /\ \E d \in create_dsession(id, f, "r", free) : r \in Fread(s, d)
  BY DEF iwds_read, is_dsfile
<1> QED
  BY <1>1, <1>2, <1>3, <1>4

\* A call of iwds_write is refused, or creates a file for its caller or grows
\* the caller's, and leaves the caller its only writer or nobody.
LEMMA WriteRefines ==
  ASSUME NEW s, StoreSound(s), NEW id \in Int, NEW f \in File,
         NEW data \in Seq(Unit), NEW free \in SUBSET Descriptor,
         NEW r \in iwds_write(s, id, f, data, free)
  PROVE  Still(s, r.ds) \/ Wrote(s, r.ds, f, id)
<1> DEFINE Gives(t, d) == r.ds \in del_dsession(t, d) \/ r \in Fwrite(t, d, data)
           opened == Created(s, f)
<1>1. ASSUME NEW t, StoreSound(t), NEW d, Fits(t, d), Gives(t, d)
      PROVE  /\ Moves(t, r.ds, d)
             /\ Grows(t, r.ds, IF d.mode = "w" THEN {d.filename} ELSE {})
             /\ DOMAIN r.ds.files = DOMAIN t.files
  <2>1. CASE r.ds \in del_dsession(t, d)
    BY <1>1, <2>1, DelKeeps, DelWorks, WorkedMoves
  <2>2. CASE r \in Fwrite(t, d, data)
    BY <1>1, <2>2, FwriteKeeps, FwriteWorks, WorkedMoves DEF Fits
  <2> QED
    BY <1>1, <2>1, <2>2
<1>2. CASE r.ds = s
  BY <1>2 DEF Still
<1>3. CASE \E d \in get_dsession(s, id, f) : Gives(s, d)
  <2>1. PICK d \in s.dhead : d.clid = id /\ d.filename = f /\ Gives(s, d)
    BY <1>3 DEF get_dsession
  <2>2. Fits(s, d)
    BY FitsOld
  <2> HIDE DEF Gives
  <2> QED
    BY <1>1, <2>1, <2>2, WorkedOld
<1>4. CASE /\ f \notin DOMAIN s.files
           /\ \E d \in create_dsession(id, f, "w", free) : Gives(opened, d)
  <2>1. PICK d \in create_dsession(id, f, "w", free) : Gives(opened, d)
    BY <1>4
  <2>2. d.filename = f /\ d.clid = id /\ d.mode = "w"
    BY CreateType
  <2>3. opened = [files |-> Put(s.files, f, <<>>), dhead |-> s.dhead]
    BY DEF Created
  <2> HIDE DEF Gives, opened
  <2>4. /\ StoreSound(opened) /\ Fits(opened, d) /\ Grows(s, opened, {})
        /\ DOMAIN opened.files = DOMAIN s.files \cup {f}
    BY <1>4, <2>3, FitsNewWriter DEF Put
  <2>5. /\ Moves(opened, r.ds, d)
        /\ Grows(opened, r.ds, {f})
        /\ DOMAIN r.ds.files = DOMAIN opened.files
    BY <1>1, <2>1, <2>2, <2>4
  <2>6. Writers(opened) = Writers(s)
    BY <2>3 DEF Writers
  <2>7. \A g \in DOMAIN s.files : g # f /\ r.ds.files[g] = s.files[g]
    BY <1>4, <2>4, <2>5 DEF Grows
  <2> QED
    BY <1>4, <2>2, <2>4, <2>5, <2>6, <2>7 DEF Wrote, Moves
<1>5. \/ r.ds = s
      \/ \E d \in get_dsession(s, id, f) : Gives(s, d)
      \/ /\ f \notin DOMAIN s.files
         /\ \E d \in create_dsession(id, f, "w", free) : Gives(opened, d)
  BY WriteOutcome
<1> QED
  BY <1>2, <1>3, <1>4, <1>5

\* A call of iwds_close is a stutter, or ends the caller's writing.
LEMMA CloseRefines ==
  ASSUME NEW s, StoreSound(s), NEW id, NEW f, NEW t \in iwds_close(s, id, f)
  PROVE  Still(s, t) \/ Wrote(s, t, f, id)
<1>1. CASE t = s
  BY <1>1 DEF Still
<1>2. CASE \E d \in s.dhead : d.clid = id /\ d.filename = f /\ t \in del_dsession(s, d)
  <2>1. PICK d \in s.dhead :
          d.clid = id /\ d.filename = f /\ t \in del_dsession(s, d)
    BY <1>2
  <2>2. Fits(s, d)
    BY FitsOld
  <2>3. Moves(s, t, d)
    BY <2>1, <2>2, DelWorks, WorkedMoves
  <2>4. /\ Grows(s, t, IF d.mode = "w" THEN {d.filename} ELSE {})
        /\ DOMAIN t.files = DOMAIN s.files
    BY <2>1, <2>2, DelKeeps
  <2> QED
    BY <2>1, <2>3, <2>4, WorkedOld
<1> QED
  BY <1>1, <1>2 DEF iwds_close, get_dsession

----------------------------------------------------------------------------
(***************************************************************************)
(* What the files hold together with the buffers of their writers, on a    *)
(* disk without faults.                                                    *)
(***************************************************************************)

\* Once every stream of D is closed, file g of fs will hold a.
Whole(fs, D, g, a) ==
  /\ \A e \in D : e.filename = g /\ e.mode = "w" => a = fs[g] \o e.wbuf
  /\ (\A e \in D : ~(e.filename = g /\ e.mode = "w")) => a = fs[g]

\* Without faults everything that was buffered lands.
LEMMA LandingAll ==
  ASSUME ~IoFaults, NEW u \in Seq(Unit), NEW w \in Landing(u)
  PROVE  w = u
<1>1. w = Upto(u, Len(u))
  BY DEF Landing
<1> QED
  BY <1>1, UptoAll

\* A file after an append, and the others.
LEMMA AppendFile ==
  ASSUME NEW s, StoreSound(s), NEW f \in DOMAIN s.files, NEW u \in Seq(Unit)
  PROVE  /\ Append2(s, f, u).files[f] = s.files[f] \o u
         /\ \A g \in DOMAIN s.files : g # f => Append2(s, f, u).files[g] = s.files[g]
         /\ Append2(s, f, u).dhead = s.dhead
<1>1. IsFiles(s.files) /\ f \in File /\ s.files[f] \in Seq(Unit)
  BY DEF StoreSound, IsStore, IsFiles
<1>2. s.files[f] \o u \in Seq(Unit)
  BY <1>1, UptoConcat
<1>3. s = [files |-> s.files, dhead |-> s.dhead]
  BY DEF StoreSound, IsStore
<1> DEFINE new == s.files[f] \o u
           p == Put(s.files, f, new)
<1> HIDE DEF new
<1>4. Append2(s, f, u) = [files |-> p, dhead |-> s.dhead]
  BY <1>3 DEF Append2, new
<1>5. p[f] = new /\ \A g \in DOMAIN s.files : g # f => p[g] = s.files[g]
  <2>1. new \in Seq(Unit)
    BY <1>2 DEF new
  <2> QED
    BY <1>1, <2>1 DEF IsFiles, Put
<1> HIDE DEF p
<1> QED
  BY <1>4, <1>5 DEF new

\* del_dsession writes out what was buffered, and only that.
LEMMA DelWhole ==
  ASSUME ~IoFaults, NEW s, StoreSound(s), NEW d, Fits(s, d),
         NEW t \in del_dsession(s, d),
         NEW g \in DOMAIN s.files, NEW a, Whole(s.files, s.dhead \cup {d}, g, a)
  PROVE  Whole(t.files, t.dhead, g, a)
<1>1. d.wbuf \in Seq(Unit) /\ d.filename \in DOMAIN s.files /\ d.mode \in {"r", "w"}
  BY DEF Fits, DSession
<1>2. PICK w \in Landing(d.wbuf) :
        t = [files |-> IF d.mode = "w" THEN Append2(s, d.filename, w).files
                       ELSE s.files,
             dhead |-> s.dhead \ {d}]
  BY DEF del_dsession
<1>3. w = d.wbuf
  BY <1>1, LandingAll
<1>4. CASE d.mode = "w"
  <2> DEFINE b == Append2(s, d.filename, d.wbuf)
  <2>0. t.files = b.files /\ t.dhead = s.dhead \ {d}
    BY <1>2, <1>3, <1>4
  <2>1. /\ t.files[d.filename] = s.files[d.filename] \o d.wbuf
        /\ g # d.filename => t.files[g] = s.files[g]
        /\ t.dhead = s.dhead \ {d}
    <3>1. /\ b.files[d.filename] = s.files[d.filename] \o d.wbuf
          /\ \A h \in DOMAIN s.files : h # d.filename => b.files[h] = s.files[h]
      BY <1>1, AppendFile
    <3> HIDE DEF b
    <3> QED
      BY <2>0, <3>1
  <2>2. \A e \in t.dhead : e.mode = "w" => e.filename # d.filename
    BY <1>4, <2>1 DEF Fits
  <2> QED
    BY <1>4, <2>1, <2>2 DEF Whole
<1>5. CASE d.mode = "r"
  BY <1>2, <1>5 DEF Whole
<1> QED
  BY <1>1, <1>4, <1>5

\* fread changes no file, or ends the writing.
LEMMA FreadWhole ==
  ASSUME ~IoFaults, NEW s, StoreSound(s), NEW d, Fits(s, d), NEW r \in Fread(s, d),
         NEW g \in DOMAIN s.files, NEW a, Whole(s.files, s.dhead \cup {d}, g, a)
  PROVE  Whole(r.ds.files, r.ds.dhead, g, a)
<1> DEFINE text == s.files[d.filename]
           end == IF d.eof THEN d.pos
                  ELSE IF d.pos + BufSize <= Len(text) THEN d.pos + BufSize
                  ELSE Len(text)
           e == [d EXCEPT !.pos = end, !.eof = end < d.pos + BufSize]
           u == Replaced(s, d, e)
           A == {[ds |-> u, data |-> SubSeq(text, d.pos + 1, end), derr |-> "OK"] :
                   x \in IF d.mode = "r" THEN {0} ELSE {}}
           B == {[ds |-> v, data |-> <<>>, derr |-> "READFAIL"] :
                   v \in IF d.mode = "w" \/ IoFaults THEN del_dsession(s, d) ELSE {}}
<1>1. r \in A \/ r \in B
  BY Zenon DEF Fread
<1>2. e.mode = d.mode
  <2> HIDE DEF end
  <2> QED
    BY DEF Fits, DSession
<1>3. u.files = s.files /\ u.dhead = (s.dhead \ {d}) \cup {e}
  BY DEF Replaced
<1> HIDE DEF e, u, text, end
<1>4. CASE r \in A
  <2>1. r.ds = u /\ d.mode = "r"
    BY <1>4
  <2> QED
    BY <1>2, <1>3, <2>1 DEF Whole
<1>5. CASE r \in B
  <2>1. r.ds \in del_dsession(s, d)
    BY <1>5
  <2> HIDE DEF B
  <2> QED
    BY <2>1, DelWhole
<1> QED
  BY <1>1, <1>4, <1>5

\* fwrite adds what it says it has accepted; on a stream opened for reading it
\* accepts nothing.
LEMMA FwriteWhole ==
  ASSUME ~IoFaults, NEW s, StoreSound(s), NEW d, Fits(s, d),
         NEW data \in Seq(Unit), data # <<>>, NEW r \in Fwrite(s, d, data),
         NEW g \in DOMAIN s.files, NEW a, Whole(s.files, s.dhead \cup {d}, g, a)
  PROVE  /\ r.derr = "OK"
         /\ r.len = IF d.mode = "w" THEN Len(data) ELSE 0
         /\ Whole(r.ds.files, r.ds.dhead, g,
                  IF d.mode = "w" /\ g = d.filename THEN a \o data ELSE a)
<1> DEFINE all == d.wbuf \o data
           n == Len(all) - (Len(all) % StdioBlock)
           e == [d EXCEPT !.wbuf = SubSeq(all, n + 1, Len(all))]
           t == Replaced(s, d, e)
           cut == [files |-> s.files, dhead |-> s.dhead \ {d}]
<1>1. /\ d \in DSession /\ d.wbuf \in Seq(Unit) /\ d.mode \in {"r", "w"}
      /\ d.filename \in DOMAIN s.files
  BY DEF Fits, DSession
<1>2. s.files[d.filename] \in Seq(Unit) /\ all \in Seq(Unit) /\ Len(all) \in Nat
  BY <1>1, UptoConcat, LenProperties DEF StoreSound, IsStore, IsFiles
<1>3. CASE d.mode = "r"
  <2>1. r = [ds |-> cut, len |-> 0, derr |-> "OK"]
    BY <1>3 DEF Fwrite
  <2> QED
    BY <1>3, <2>1 DEF Whole
<1>4. CASE d.mode = "w"
  <2>1. r = [ds |-> Append2(t, d.filename, Upto(all, n)),
             len |-> Len(data), derr |-> "OK"]
    BY <1>4 DEF Fwrite
  <2>2. n \in 0 .. Len(all)
    <3>1. Len(all) % StdioBlock \in 0 .. Len(all)
      BY <1>2, StoreAssumption, RemBound
    <3> QED
      BY <1>2, <3>1
  <2> DEFINE rest == SubSeq(all, n + 1, Len(all))
  <2>3. rest \in Seq(Unit) /\ Upto(all, n) \in Seq(Unit) /\ Upto(all, n) \o rest = all
    <3> HIDE DEF all, n
    <3> QED
      BY <1>2, <2>2, UptoSplit
  <2> HIDE DEF n, rest
  <2>4. e.mode = "w" /\ e.filename = d.filename /\ e.wbuf = rest
        /\ e \in DSession /\ e.clid = d.clid
    <3>1. e = [d EXCEPT !.wbuf = rest]
      BY DEF rest
    <3> HIDE DEF e
    <3> QED
      BY <1>1, <1>4, <2>3, <3>1, Rebuffered
  <2>5. t = [files |-> s.files, dhead |-> (s.dhead \ {d}) \cup {e}]
    BY DEF Replaced
  <2> HIDE DEF e, t
  <2>6. StoreSound(t)
    BY <1>4, <2>4, <2>5, ReplaceKeeps
  <2>7. /\ r.ds.files[d.filename] = s.files[d.filename] \o Upto(all, n)
        /\ g # d.filename => r.ds.files[g] = s.files[g]
        /\ r.ds.dhead = (s.dhead \ {d}) \cup {e}
    <3> DEFINE b == Append2(t, d.filename, Upto(all, n))
    <3>1. r.ds = b /\ t.files = s.files /\ t.dhead = (s.dhead \ {d}) \cup {e}
      BY <2>1, <2>5
    <3> DEFINE v == Upto(all, n)
    <3>0. v \in Seq(Unit) /\ d.filename \in DOMAIN t.files /\ b = Append2(t, d.filename, v)
      BY <1>1, <2>3, <3>1
    <3> HIDE DEF all, b, v
    <3>2. /\ b.files[d.filename] = t.files[d.filename] \o v
          /\ \A h \in DOMAIN t.files : h # d.filename => b.files[h] = t.files[h]
          /\ b.dhead = t.dhead
      BY <2>6, <3>0, AppendFile
    <3> QED
      BY <3>1, <3>2 DEF v
  <2>8. a = s.files[d.filename] \o d.wbuf =>
          a \o data = (s.files[d.filename] \o Upto(all, n)) \o rest
    <3>1. (s.files[d.filename] \o Upto(all, n)) \o rest
            = s.files[d.filename] \o (Upto(all, n) \o rest)
      BY <1>2, <2>3, Associative
    <3>2. (s.files[d.filename] \o d.wbuf) \o data
            = s.files[d.filename] \o (d.wbuf \o data)
      BY <1>1, <1>2, Associative
    <3> QED
      BY <2>3, <3>1, <3>2
  <2>9. \A x \in s.dhead \ {d} : x.mode = "w" => x.filename # d.filename
    BY <1>4 DEF Fits
  <2>10. CASE g = d.filename
    BY <1>4, <2>1, <2>4, <2>7, <2>8, <2>9, <2>10 DEF Whole
  <2>11. CASE g # d.filename
    BY <1>4, <2>1, <2>4, <2>7, <2>11 DEF Whole
  <2> QED
    BY <2>10, <2>11
<1> QED
  BY <1>1, <1>3, <1>4

\* A reader leaves what there is to hold as it is.
LEMMA ReaderWhole ==
  ASSUME NEW fs, NEW D, NEW d, d \in D \/ d.mode = "r",
         NEW g, NEW a, Whole(fs, D, g, a)
  PROVE  Whole(fs, D \cup {d}, g, a)
BY DEF Whole

\* iwds_read loses nothing: what it ends the writing of is written out.
LEMMA ReadWhole ==
  ASSUME ~IoFaults, NEW s, StoreSound(s), NEW id \in Int, NEW f \in File,
         NEW free \in SUBSET Descriptor, NEW r \in iwds_read(s, id, f, free),
         NEW g \in DOMAIN s.files, NEW a, Whole(s.files, s.dhead, g, a)
  PROVE  Whole(r.ds.files, r.ds.dhead, g, a)
<1>1. CASE r.ds = s
  BY <1>1
<1>2. CASE \E d \in get_dsession(s, id, f) : r \in Fread(s, d)
  <2>1. PICK d \in s.dhead : r \in Fread(s, d)
    BY <1>2 DEF get_dsession
  <2>2. Fits(s, d) /\ Whole(s.files, s.dhead \cup {d}, g, a)
    BY FitsOld, ReaderWhole
  <2> QED
    BY <2>1, <2>2, FreadKeeps, FreadWhole
<1>3. CASE /\ f \in DOMAIN s.files
           /\ get_dsession(s, id, f) = {}
           /\ \E d \in create_dsession(id, f, "r", free) : r \in Fread(s, d)
  <2>1. PICK d \in create_dsession(id, f, "r", free) : r \in Fread(s, d)
    BY <1>3
  <2>2. Fits(s, d) /\ d.mode = "r"
    BY <1>3, FitsNewReader, CreateType
  <2>3. Whole(s.files, s.dhead \cup {d}, g, a)
    BY <2>2, ReaderWhole
  <2> QED
    BY <2>1, <2>2, <2>3, FreadKeeps, FreadWhole
<1>4. \/ r.ds = s
      \/ \E d \in get_dsession(s, id, f) : r \in Fread(s, d)
      \/ /\ f \in DOMAIN s.files
         /\ get_dsession(s, id, f) = {}
         /\ \E d \in create_dsession(id, f, "r", free) : r \in Fread(s, d)
  BY DEF iwds_read, is_dsfile
<1> QED
  BY <1>1, <1>2, <1>3, <1>4

\* iwds_close writes out what was buffered.
LEMMA CloseWhole ==
  ASSUME ~IoFaults, NEW s, StoreSound(s), NEW id, NEW f,
         NEW t \in iwds_close(s, id, f),
         NEW g \in DOMAIN s.files, NEW a, Whole(s.files, s.dhead, g, a)
  PROVE  Whole(t.files, t.dhead, g, a)
<1>1. CASE t = s
  BY <1>1
<1>2. CASE \E d \in s.dhead : t \in del_dsession(s, d)
  <2>1. PICK d \in s.dhead : t \in del_dsession(s, d)
    BY <1>2
  <2>2. Fits(s, d) /\ Whole(s.files, s.dhead \cup {d}, g, a)
    BY FitsOld, ReaderWhole
  <2> QED
    BY <2>1, <2>2, DelKeeps, DelWhole
<1> QED
  BY <1>1, <1>2 DEF iwds_close, get_dsession

\* r is what iwds_write may answer once it has the stream d.
Took(s, d, data, r) ==
  \/ data = <<>> /\ r.derr = "OK" /\ r.len = 0 /\ r.ds \in del_dsession(s, d)
  \/ data # <<>> /\ r \in Fwrite(s, d, data)

\* What one stream takes of a write, and what iwds_write then answers.
LEMMA StreamWhole ==
  ASSUME ~IoFaults, NEW s, StoreSound(s), NEW d, Fits(s, d),
         NEW data \in Seq(Unit), NEW r, Took(s, d, data, r),
         NEW g \in DOMAIN s.files, NEW a \in Seq(Unit),
         Whole(s.files, s.dhead \cup {d}, g, a)
  PROVE  /\ DOMAIN r.ds.files = DOMAIN s.files
         /\ d.mode = "w" => r.derr = "OK" /\ r.len = Len(data)
         /\ Whole(r.ds.files, r.ds.dhead, g,
                  IF g = d.filename /\ r.derr = "OK" /\ r.len = Len(data)
                  THEN a \o data ELSE a)
<1>1. CASE /\ data = <<>> /\ r.derr = "OK" /\ r.len = 0
           /\ r.ds \in del_dsession(s, d)
  <2>1. Len(data) = 0 /\ a \o data = a
    BY <1>1, EmptySeq, ConcatEmptySeq
  <2>2. Whole(r.ds.files, r.ds.dhead, g, a)
    BY <1>1, DelWhole
  <2> QED
    BY <1>1, <2>1, <2>2, DelKeeps
<1>2. CASE data # <<>> /\ r \in Fwrite(s, d, data)
  <2>1. Len(data) # 0 /\ d.mode \in {"r", "w"}
    BY <1>2, EmptySeq DEF Fits, DSession
  <2>2. /\ r.derr = "OK"
        /\ r.len = IF d.mode = "w" THEN Len(data) ELSE 0
        /\ Whole(r.ds.files, r.ds.dhead, g,
                 IF d.mode = "w" /\ g = d.filename THEN a \o data ELSE a)
    BY <1>2, FwriteWhole
  <2>3. (g = d.filename /\ r.derr = "OK" /\ r.len = Len(data))
          <=> (d.mode = "w" /\ g = d.filename)
    BY <2>1, <2>2
  <2> QED
    BY <1>2, <2>2, <2>3, FwriteKeeps
<1> QED
  BY <1>1, <1>2 DEF Took

\* A file holds a together with its buffers, a missing one nothing.
Holds(s, g, a) ==
  IF g \in DOMAIN s.files THEN Whole(s.files, s.dhead, g, a) ELSE a = <<>>

\* The answer r to a write of data to f is borne out by the store: what it
\* says was accepted was added, and no file came to be without it.
Accounted(s, r, f, data, g, a) ==
  LET took == r.derr = "OK" /\ r.len = Len(data)
  IN  /\ DOMAIN r.ds.files = DOMAIN s.files \cup (IF took THEN {f} ELSE {})
      /\ Holds(r.ds, g, IF g = f /\ took THEN a \o data ELSE a)

\* iwds_write adds to its file exactly what it says it accepted, and creates
\* no file without saying so.
LEMMA WriteWhole ==
  ASSUME ~IoFaults, NEW s, StoreSound(s), NEW id \in Int, NEW f \in File,
         NEW data \in Seq(Unit), NEW free \in SUBSET Descriptor,
         NEW r \in iwds_write(s, id, f, data, free),
         NEW g \in DOMAIN s.files \cup {f}, NEW a \in Seq(Unit),
         Holds(s, g, a)
  PROVE  Accounted(s, r, f, data, g, a)
<1> DEFINE opened == Created(s, f)
           Result(t, x) ==
             /\ DOMAIN r.ds.files = DOMAIN t.files
             /\ x.mode = "w" => r.derr = "OK" /\ r.len = Len(data)
             /\ Whole(r.ds.files, r.ds.dhead, g,
                      IF g = x.filename /\ r.derr = "OK" /\ r.len = Len(data)
                      THEN a \o data ELSE a)
<1>0. ASSUME NEW t, StoreSound(t), NEW x, Fits(t, x), Took(t, x, data, r),
             g \in DOMAIN t.files, Whole(t.files, t.dhead \cup {x}, g, a)
      PROVE  Result(t, x)
  BY <1>0, StreamWhole
<1>1. \/ r.ds = s /\ r.derr # "OK"
      \/ \E d \in get_dsession(s, id, f) : Took(s, d, data, r)
      \/ /\ f \notin DOMAIN s.files
         /\ \E d \in create_dsession(id, f, "w", free) : Took(opened, d, data, r)
  BY WriteOutcome DEF Took
<1>2. CASE r.ds = s /\ r.derr # "OK"
  BY <1>2 DEF Accounted
<1>3. CASE \E d \in get_dsession(s, id, f) : Took(s, d, data, r)
  <2>1. PICK d \in s.dhead : d.filename = f /\ Took(s, d, data, r)
    BY <1>3 DEF get_dsession
  <2>2. Fits(s, d) /\ f \in DOMAIN s.files
    BY <2>1, FitsOld DEF Fits
  <2>3. g \in DOMAIN s.files /\ Whole(s.files, s.dhead \cup {d}, g, a)
    BY <2>2, ReaderWhole DEF Holds
  <2>4. Result(s, d)
    <3> HIDE DEF Result
    <3> QED
      BY <1>0, <2>1, <2>2, <2>3
  <2> QED
    BY <2>1, <2>2, <2>3, <2>4 DEF Accounted, Holds
<1>4. CASE /\ f \notin DOMAIN s.files
           /\ \E d \in create_dsession(id, f, "w", free) : Took(opened, d, data, r)
  <2>1. PICK d \in create_dsession(id, f, "w", free) : Took(opened, d, data, r)
    BY <1>4
  <2>2. d.filename = f /\ d.mode = "w" /\ d.wbuf = <<>>
    BY CreateType
  <2>3. opened = [files |-> Put(s.files, f, <<>>), dhead |-> s.dhead]
    BY DEF Created
  <2>4. /\ DOMAIN opened.files = DOMAIN s.files \cup {f}
        /\ opened.files[f] = <<>>
        /\ \A h \in DOMAIN s.files : opened.files[h] = s.files[h]
        /\ opened.dhead = s.dhead
    BY <1>4, <2>3 DEF Put
  <2>5. \A e \in s.dhead : e.filename # f
    BY <1>4 DEF StoreSound, StreamsInside
  <2>6. <<>> \o <<>> = <<>>
    BY EmptySeq, ConcatEmptySeq
  <2>7. Whole(opened.files, opened.dhead \cup {d}, g, a)
    BY <1>4, <2>2, <2>4, <2>5, <2>6 DEF Whole, Holds
  <2>8. StoreSound(opened) /\ Fits(opened, d)
    BY <1>4, <2>1, <2>3, FitsNewWriter
  <2>9. g \in DOMAIN opened.files
    BY <2>4
  <2> HIDE DEF opened
  <2>10. Result(opened, d)
    <3> HIDE DEF Result
    <3> QED
      BY <1>0, <2>1, <2>7, <2>8, <2>9
  <2> QED
    BY <1>4, <2>2, <2>4, <2>9, <2>10 DEF Accounted, Holds
<1> QED
  BY <1>1, <1>2, <1>3, <1>4
============================================================================
