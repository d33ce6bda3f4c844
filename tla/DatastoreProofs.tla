-------------------------- MODULE DatastoreProofs --------------------------
(***************************************************************************)
(* What holds of the datastore under arbitrary callers, by the lemmas      *)
(* about its operations.                                                   *)
(***************************************************************************)
EXTENDS DatastoreCalls, DatastoreLemmas

\* The inductive invariant: no part of it is inductive alone.  That a new
\* writer is the only one of its file needs that no stream is over a missing
\* file; that a replaced stream keeps its key unique needs OneDsession; that
\* an append keeps readers inside needs the types.
Sound == TypeOK /\ StoreSound(ds)

\* What one call of any caller keeps.
LEMMA CallKeeps ==
  ASSUME Sound, NEW id \in ClId, NEW f \in File,
         \/ Read(id, f)
         \/ \E data \in Chunk : Write(id, f, data)
         \/ Close(id, f)
  PROVE  Sound' /\ Extends(ds, ds')
<1> USE DEF Sound
<1>1. id \in Int
  BY CallsAssumption
<1>2. \A free \in FreeSets : free \in SUBSET Descriptor
  BY DEF FreeSets
<1>3. CASE Read(id, f)
  <2>0. PICK free \in FreeSets : \E r \in iwds_read(ds, id, f, free) :
          ds' = r.ds /\ UNCHANGED written
    BY <1>3 DEF Read
  <2>1. PICK r \in iwds_read(ds, id, f, free) : ds' = r.ds /\ UNCHANGED written
    BY <2>0
  <2>2. StoreSound(ds') /\ Extends(ds, ds')
    BY <1>1, <1>2, <2>1, ReadKeeps
  <2> QED
    BY <2>1, <2>2 DEF TypeOK, StoreSound
<1>4. CASE \E data \in Chunk : Write(id, f, data)
  <2>1. PICK data \in Chunk : Write(id, f, data)
    BY <1>4
  <2>2. data \in Seq(Unit)
    BY CallsAssumption
  <2>0. PICK free \in FreeSets : \E r \in iwds_write(ds, id, f, data, free) :
          /\ ds' = r.ds
          /\ written' = IF r.derr = "OK" /\ r.len = Len(data)
                        THEN Put(written, f, Accepted(f) \o data)
                        ELSE written
    BY <2>1 DEF Write
  <2>3. PICK r \in iwds_write(ds, id, f, data, free) :
          /\ ds' = r.ds
          /\ written' \in {Put(written, f, Accepted(f) \o data), written}
    BY <2>0
  <2>4. StoreSound(ds') /\ Extends(ds, ds')
    BY <1>1, <1>2, <2>2, <2>3, WriteKeeps
  <2>5. Accepted(f) \in Seq(Unit)
    BY EmptySeq DEF Accepted, TypeOK, IsFiles
  <2>6. Accepted(f) \o data \in Seq(Unit)
    BY <2>2, <2>5, UptoConcat
  <2>7. IsFiles(Put(written, f, Accepted(f) \o data))
    BY <2>6, PutFiles DEF TypeOK
  <2>8. IsFiles(written')
    BY <2>3, <2>7 DEF TypeOK
  <2> QED
    BY <2>4, <2>8 DEF TypeOK, StoreSound
<1>5. CASE Close(id, f)
  <2>1. PICK t \in iwds_close(ds, id, f) : ds' = t /\ UNCHANGED written
    BY <1>5 DEF Close
  <2>2. StoreSound(ds') /\ Extends(ds, ds')
    BY <2>1, CloseKeeps
  <2> QED
    BY <2>1, <2>2 DEF TypeOK, StoreSound
<1> QED
  BY <1>3, <1>4, <1>5

\* The store starts sound: no stream is open.
LEMMA InitSound == Init => Sound
<1> SUFFICES ASSUME Init PROVE Sound
  OBVIOUS
<1>1. IsFiles(InitFiles)
  BY CallsAssumption
<1>2. ds.files = InitFiles /\ ds.dhead = {} /\ ds = [files |-> ds.files, dhead |-> ds.dhead]
  BY DEF Init
<1>3. IsStore(ds)
  BY <1>1, <1>2 DEF IsStore
<1>4. OneDsession(ds) /\ SingleWriter(ds) /\ StreamsInside(ds)
  BY <1>2 DEF OneDsession, SingleWriter, StreamsInside
<1> QED
  BY <1>1, <1>3, <1>4 DEF Init, Sound, TypeOK, StoreSound

\* Every step of the calls keeps the invariant.
LEMMA NextSound == Sound /\ [Next]_vars => Sound'
<1> SUFFICES ASSUME Sound, [Next]_vars PROVE Sound'
  OBVIOUS
<1>1. CASE Next
  BY <1>1, CallKeeps DEF Next
<1>2. CASE UNCHANGED vars
  BY <1>2 DEF vars, Sound, TypeOK
<1> QED
  BY <1>1, <1>2

\* The store stays sound whatever its callers do.
THEOREM Soundness == Spec => []Sound
BY InitSound, NextSound, PTL DEF Spec

\* The datastore's state has its type.
THEOREM TypeCorrect == Spec => []TypeOK
<1>1. Sound => TypeOK
  BY DEF Sound
<1> QED
  BY <1>1, Soundness, PTL

\* get_dsession never has two streams to choose from.
THEOREM OneStreamPerCallerHolds == Spec => []OneStreamPerCaller
<1>1. Sound => OneStreamPerCaller
  BY DEF Sound, StoreSound, OneStreamPerCaller
<1> QED
  BY <1>1, Soundness, PTL

\* However many callers race to create a file, it has one writer.
THEOREM OneWriterPerFileHolds == Spec => []OneWriterPerFile
<1>1. Sound => OneWriterPerFile
  BY DEF Sound, StoreSound, OneWriterPerFile
<1> QED
  BY <1>1, Soundness, PTL

\* Streams are over existing files and readers inside them.
THEOREM StreamsOnFilesHolds == Spec => []StreamsOnFiles
<1>1. Sound => StreamsOnFiles
  BY DEF Sound, StoreSound, StreamsOnFiles
<1> QED
  BY <1>1, Soundness, PTL

\* No call ever removes, truncates or overwrites an existing file.
THEOREM WriteOnceHolds == Spec => WriteOnce
<1>1. Sound /\ [Next]_vars => [Extends(ds, ds')]_vars
  <2> SUFFICES ASSUME Sound, Next PROVE Extends(ds, ds')
    OBVIOUS
  <2> QED
    BY CallKeeps DEF Next
<1> QED
  BY <1>1, Soundness, PTL DEF Spec, WriteOnce

----------------------------------------------------------------------------
(***************************************************************************)
(* On a disk without faults nothing accepted is lost.                      *)
(***************************************************************************)

\* NothingLost is about one writer of a file if there is one; the inductive
\* form is about every writer, and says that a name without a file was never
\* accepted anything for.
Kept ==
  /\ DOMAIN written = DOMAIN ds.files
  /\ \A f \in DOMAIN ds.files : Whole(ds.files, ds.dhead, f, Accepted(f))

\* What a write adds to the history.
LEMMA AcceptedAfter ==
  ASSUME TypeOK, NEW f \in File, NEW u
  PROVE  /\ DOMAIN Put(written, f, u) = DOMAIN written \cup {f}
         /\ \A g \in DOMAIN written \cup {f} :
              Put(written, f, u)[g] = IF g = f THEN u ELSE Accepted(g)
BY DEF Put, Accepted

\* A call adds to the files and buffers what it adds to the history.
LEMMA CallKeepsAll ==
  ASSUME ~IoFaults, Sound, Kept, NEW id \in ClId, NEW f \in File,
         \/ Read(id, f)
         \/ \E data \in Chunk : Write(id, f, data)
         \/ Close(id, f)
  PROVE  Kept'
<1>1. id \in Int /\ StoreSound(ds) /\ TypeOK
  BY CallsAssumption DEF Sound
<1>2. \A free \in FreeSets : free \in SUBSET Descriptor
  BY DEF FreeSets
<1>3. \A g \in File : Accepted(g) \in Seq(Unit)
  BY <1>1, EmptySeq DEF Accepted, TypeOK, IsFiles
<1>4. DOMAIN ds.files \subseteq File
  BY <1>1 DEF StoreSound, IsStore, IsFiles
<1>5. CASE Read(id, f)
  <2>1. PICK free \in FreeSets : \E r \in iwds_read(ds, id, f, free) :
          ds' = r.ds /\ UNCHANGED written
    BY <1>5 DEF Read
  <2>2. PICK r \in iwds_read(ds, id, f, free) : ds' = r.ds /\ UNCHANGED written
    BY <2>1
  <2>3. \A g \in DOMAIN ds.files : Whole(r.ds.files, r.ds.dhead, g, Accepted(g))
    BY <1>1, <1>2, <2>2, ReadWhole DEF Kept
  <2>4. DOMAIN r.ds.files = DOMAIN ds.files
    BY <1>1, <1>2, <2>2, ReadKeeps
  <2> QED
    BY <2>2, <2>3, <2>4 DEF Kept, Accepted
<1>6. CASE \E data \in Chunk : Write(id, f, data)
  <2>1. PICK data \in Chunk : Write(id, f, data)
    BY <1>6
  <2>2. data \in Seq(Unit)
    BY CallsAssumption
  <2>3. PICK free \in FreeSets : \E r \in iwds_write(ds, id, f, data, free) :
          /\ ds' = r.ds
          /\ written' = IF r.derr = "OK" /\ r.len = Len(data)
                        THEN Put(written, f, Accepted(f) \o data)
                        ELSE written
    BY <2>1 DEF Write
  <2>4. PICK r \in iwds_write(ds, id, f, data, free) :
          /\ ds' = r.ds
          /\ written' = IF r.derr = "OK" /\ r.len = Len(data)
                        THEN Put(written, f, Accepted(f) \o data)
                        ELSE written
    BY <2>3
  <2> DEFINE took == r.derr = "OK" /\ r.len = Len(data)
  <2>5. ASSUME NEW g \in DOMAIN ds.files \cup {f}
        PROVE  Accounted(ds, r, f, data, g, Accepted(g))
    <3>1. Accepted(g) \in Seq(Unit)
      BY <1>3, <1>4
    <3>2. Holds(ds, g, Accepted(g))
      BY DEF Kept, Accepted, Holds
    <3> QED
      BY <1>1, <1>2, <2>2, <2>4, <3>1, <3>2, WriteWhole
  <2>6. CASE took
    <3>1. written' = Put(written, f, Accepted(f) \o data)
      BY <2>4, <2>6
    <3>2. DOMAIN r.ds.files = DOMAIN ds.files \cup {f}
      BY <2>5, <2>6 DEF Accounted
    <3>3. /\ DOMAIN written' = DOMAIN written \cup {f}
          /\ \A g \in DOMAIN written \cup {f} :
               written'[g] = IF g = f THEN Accepted(f) \o data ELSE Accepted(g)
      BY <1>1, <3>1, AcceptedAfter
    <3>4. \A g \in DOMAIN ds.files \cup {f} :
            Whole(r.ds.files, r.ds.dhead, g, written'[g])
      BY <2>5, <2>6, <3>2, <3>3 DEF Kept, Accounted, Holds
    <3> QED
      BY <2>4, <3>2, <3>3, <3>4 DEF Kept, Accepted
  <2>7. CASE ~took
    <3>1. written' = written
      BY <2>4, <2>7
    <3>2. DOMAIN r.ds.files = DOMAIN ds.files
      BY <2>5, <2>7 DEF Accounted
    <3> QED
      BY <2>4, <2>5, <2>7, <3>1, <3>2 DEF Kept, Accepted, Accounted, Holds
  <2> QED
    BY <2>6, <2>7
<1>7. CASE Close(id, f)
  <2>1. PICK t \in iwds_close(ds, id, f) : ds' = t /\ UNCHANGED written
    BY <1>7 DEF Close
  <2>2. \A g \in DOMAIN ds.files : Whole(t.files, t.dhead, g, Accepted(g))
    BY <1>1, <2>1, CloseWhole DEF Kept
  <2>3. DOMAIN t.files = DOMAIN ds.files
    BY <1>1, <2>1, CloseKeeps
  <2> QED
    BY <2>1, <2>2, <2>3 DEF Kept, Accepted
<1> QED
  BY <1>5, <1>6, <1>7

\* On a disk without faults a file and the buffer of its writer hold exactly
\* what iwds_write said it accepted, for any callers, files and block sizes.
THEOREM NothingLostHolds == ~IoFaults => (Spec => []NothingLost)
<1> SUFFICES ASSUME ~IoFaults PROVE Spec => []NothingLost
  OBVIOUS
<1>1. Init => Kept
  BY DEF Init, Kept, Accepted, Whole
<1>2. Sound /\ Kept /\ [Next]_vars => Kept'
  <2> SUFFICES ASSUME Sound, Kept, [Next]_vars PROVE Kept'
    OBVIOUS
  <2>1. CASE Next
    BY <2>1, CallKeepsAll DEF Next
  <2>2. CASE UNCHANGED vars
    BY <2>2 DEF vars, Kept, Accepted
  <2> QED
    BY <2>1, <2>2
<1>3. Kept => NothingLost
  BY DEF Kept, NothingLost, Buffered, Whole
<1> QED
  BY <1>1, <1>2, <1>3, Soundness, PTL DEF Spec

----------------------------------------------------------------------------
(***************************************************************************)
(* DatastoreCalls implements WriteOnceStore.  Between calls the abstract   *)
(* store shows the files, and for every stream that is open for writing    *)
(* who may write what; every call is one Write or a stutter.               *)
(***************************************************************************)

\* A step of a store is a step of the abstract store.
LEMMA WroteRefines ==
  ASSUME NEW f \in File, NEW id \in ClId, Wrote(ds, ds', f, id)
  PROVE  Contract!Next
<1>1. Contract!Write(f, id)
  BY DEF Wrote, Beginning, Contract!Write, Contract!IsPrefix
<1> QED
  BY <1>1 DEF Contract!Next

\* Every call maps to a step of the abstract store or to a stutter.
LEMMA CallRefines ==
  ASSUME Sound, NEW id \in ClId, NEW f \in File,
         \/ Read(id, f)
         \/ \E data \in Chunk : Write(id, f, data)
         \/ Close(id, f)
  PROVE  Still(ds, ds') \/ Wrote(ds, ds', f, id)
<1>1. id \in Int /\ StoreSound(ds)
  BY CallsAssumption DEF Sound
<1>2. \A free \in FreeSets : free \in SUBSET Descriptor
  BY DEF FreeSets
<1>3. CASE Read(id, f)
  <2>1. PICK free \in FreeSets : \E r \in iwds_read(ds, id, f, free) : ds' = r.ds
    BY <1>3 DEF Read
  <2> QED
    BY <1>1, <1>2, <2>1, ReadRefines
<1>4. CASE \E data \in Chunk : Write(id, f, data)
  <2>1. PICK data \in Chunk : Write(id, f, data)
    BY <1>4
  <2>2. PICK free \in FreeSets :
          \E r \in iwds_write(ds, id, f, data, free) : ds' = r.ds
    BY <2>1 DEF Write
  <2>3. data \in Seq(Unit)
    BY CallsAssumption
  <2> QED
    BY <1>1, <1>2, <2>2, <2>3, WriteRefines
<1>5. CASE Close(id, f)
  <2>1. PICK t \in iwds_close(ds, id, f) : ds' = t
    BY <1>5 DEF Close
  <2> QED
    BY <1>1, <2>1, CloseRefines
<1> QED
  BY <1>3, <1>4, <1>5

\* The datastore implements the write-once store: whatever its callers do, a
\* file is created by one of them, grows by that one's writes only, and never
\* changes after its stream was closed.
THEOREM Implements == Spec => ImplementsWriteOnceStore
<1>1. Init => Contract!Init
  BY DEF Init, Contract!Init, Writers
<1>2. Sound /\ [Next]_vars => [Contract!Next]_(Contract!vars)
  <2> SUFFICES ASSUME Sound, [Next]_vars
               PROVE  Contract!Next \/ Still(ds, ds')
    BY DEF Still, Contract!vars
  <2>1. CASE Next
    BY <2>1, CallRefines, WroteRefines DEF Next
  <2>2. CASE UNCHANGED vars
    BY <2>2 DEF vars, Still
  <2> QED
    BY <2>1, <2>2
<1> QED
  BY <1>1, <1>2, Soundness, PTL DEF Spec, ImplementsWriteOnceStore, Contract!Spec
============================================================================
