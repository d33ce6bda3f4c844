-------------------------- MODULE DatastoreCalls --------------------------
(***************************************************************************)
(* The datastore under arbitrary callers: any identifier may read, write   *)
(* or close any file at any time, whatever sockets the rest of the process *)
(* holds.  This is more than tftp.c ever does, so what holds here holds of *)
(* the datastore inside the server.                                        *)
(***************************************************************************)
EXTENDS Datastore

CONSTANTS
  ClId,       \* identifiers of callers (descriptors of client sockets)
  InitFiles,  \* the files present at start
  Chunk,      \* what a caller may write at once (at most a session buffer)
  MaxLen      \* bound: no write once a file holds this many units

ASSUME CallsAssumption ==
  /\ ClId \subseteq Nat
  /\ IsFiles(InitFiles)
  /\ Chunk \subseteq Seq(Unit)
  /\ MaxLen \in Nat

VARIABLES
  ds,       \* the IWDS object: files and dhead
  written   \* history: by file, what iwds_write accepted since the start

vars == <<ds, written>>

Init ==
  /\ ds = [files |-> InitFiles, dhead |-> {}]
  /\ written = InitFiles

\* Sockets may hold any of the descriptors the streams do not.
FreeSets == SUBSET (Descriptor \ StreamFds(ds))

Accepted(f) == IF f \in DOMAIN written THEN written[f] ELSE <<>>

Read(id, f) ==
  \E free \in FreeSets : \E r \in iwds_read(ds, id, f, free) :
    /\ ds' = r.ds
    /\ UNCHANGED written

Write(id, f, data) ==
  /\ Len(Accepted(f)) < MaxLen
  /\ \E free \in FreeSets : \E r \in iwds_write(ds, id, f, data, free) :
       /\ ds' = r.ds
       /\ written' = IF r.derr = "OK" /\ r.len = Len(data)
                     THEN Put(written, f, Accepted(f) \o data)
                     ELSE written

Close(id, f) ==
  \E t \in iwds_close(ds, id, f) :
    /\ ds' = t
    /\ UNCHANGED written

Next ==
  \E id \in ClId, f \in File :
    \/ Read(id, f)
    \/ \E data \in Chunk : Write(id, f, data)
    \/ Close(id, f)

Spec == Init /\ [][Next]_vars

----------------------------------------------------------------------------

\* Type invariant.
TypeOK ==
  /\ IsStore(ds)
  /\ IsFiles(written)

\* One stream by caller and file: the lookup of get_dsession is unambiguous.
OneStreamPerCaller == OneDsession(ds)

\* Callers race to create one file and only one of them ever writes it.
OneWriterPerFile == SingleWriter(ds)

\* No stream over a missing file, no reader beyond the end.
StreamsOnFiles == StreamsInside(ds)

\* Without disk faults, a file holds exactly what its one writer was told was
\* accepted: what stdio has not written yet is still in the writer's buffer,
\* and once the dsession is closed nothing is missing.
Buffered(f) ==
  {d.wbuf : d \in {e \in ds.dhead : e.filename = f /\ e.mode = "w"}}

NothingLost ==
  \A f \in DOMAIN ds.files :
    \/ Buffered(f) = {} /\ Accepted(f) = ds.files[f]
    \/ \E w \in Buffered(f) : Accepted(f) = ds.files[f] \o w

\* A file that exists is never removed, truncated or overwritten, and changes
\* only by what its open writer appends (fopen "w" is guarded by is_dsfile).
WriteOnce == [][Extends(ds, ds')]_vars

\* The calls implement the store of WriteOnceStore: whatever callers do to the
\* streams, a file has the one writer who created it until that writer's stream
\* is closed, for good.
Contract == INSTANCE WriteOnceStore
  WITH Name <- File, Writer <- ClId, OnStart <- InitFiles,
       text <- ds.files, open <- Writers(ds)

ImplementsWriteOnceStore == Contract!Spec
============================================================================
