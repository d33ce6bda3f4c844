# iwtftpd: a TLA+ model and its proofs

iwtftpd is a single-threaded TFTP server for Linux (RFC 1350, octet and netascii,
no options). This directory models its start, its event loop, its protocol handler, its
datastore and the places where it works on bytes; it composes the server with clients
and a lossy network; it checks all of that with TLC, and proves with TLAPS what the
datastore, the server, the start and the handling of bytes guarantee for all values of
the constants, two refinements among it.

## 1. The system

| Component | Files | State | Operations |
|---|---|---|---|
| Datastore | `datastore.c/.h`, `iw_ds.h` | the files of one directory; a list of open streams ("dsessions"), each found by `<clid, filename>` | `iwds_init`, `iwds_set_chroot`, `iwds_read`, `iwds_write`, `iwds_close`, `iwds_isfile`, `iwds_exit` |
| TFTP handler | `tftp.c/.h` | a list of sessions: socket, file, mode, block number, `fin`, `disabled`, last message, retry count, an 8 KiB buffer | `tftp_proc` (RRQ, WRQ, DATA, ACK, ERROR), message builders |
| Session buffer | `tftp.c` | `sesbuf` with `fopt` | `get_session_data`, `put_session_data`, `load_data`, `save_data`, `close_data`, the netascii translations |
| Parsers | `tftp.c` | `rbuf`, never cleared | `parse_tftpreq`, `parse_tftpdata`, `parse_tftpack`, `parse_tftperror` |
| Event loop | `tftp.c` (`iwtftp_service`) | the epoll set, the batch, `sinfo`, `g_evloop_exit` | `epoll_wait`, `update_event`, `resend_allsession`, `cleanup_session`, shutdown |
| Startup | `iwtftpd.c`, `tftp.c` | configuration, descriptors, root, credentials | `main`, options, signals, daemon, server sockets, chroot, credentials, both ways out |
| Logging | `logging.c/.h` | the log's descriptor and its line buffer | `iwlog_init`, `iwlog_print_msg`, `iwlog_exit` |
| Util | `util.c` | none | `join_path` |

How they interact. `main` starts the log, becomes a daemon, starts the datastore and the
TFTP module, gives up root, then calls `iwtftp_service`, which does not return until a
signal sets `g_evloop_exit`. The loop takes a batch of sockets from epoll, receives one
datagram from each, has `tftp_proc` answer it and sends the reply. A request makes a
session with a socket of its own; the session's socket number is also its name ("dsid")
in the datastore. After a batch `update_event` brings epoll up to date; every turn ends
with `resend_allsession` and `cleanup_session`. There are no threads; what interleaves is
the clients' datagrams, the clock, the signal and the kernel's reuse of descriptor
numbers.

What is hard: datagrams lost, repeated, late; a client's time-out racing the answer; two
clients uploading one name; one client downloading what another is uploading; descriptor
numbers reused while a stream is still filed under them; the block number's roll-over
against the period of the buffer; a line end split between two blocks; descriptors
running out between the steps of a request; disk faults in the middle of a transfer; a
session that changes state within a batch; a list walked while its nodes are freed;
timers and retry limits; buffers that keep what was in them; the order of the calls that
start the daemon, and a failure between any two of them. `PROJECT.json` lists these at
their lines under `hazards`.

What makes it correct. Datastore: a lookup is unambiguous, a file has one writer, an
existing file is never removed, truncated or overwritten, and without disk faults nothing
accepted is lost; seen from outside it is a write-once store. Handler: block k of a
download is block k of the file; what an upload was acknowledged is kept once and in
order, from one client, and is complete at its end; a repetition is answered for the
current block. Loop: the list, the descriptors and epoll agree; every session ends; a
signal stops the server. Whole transfers: what arrives is exact, and arrives in spite of
a few faults. Start: service only when confined and unprivileged, on the sockets the
module believes it has. Bytes: no message is made of another's bytes, nothing is written
outside a buffer.

## 2. Modules

- `WriteOnceStore` - the abstract specification: a file is created by one writer, grows
  by that writer's appends and is sealed for ever. No streams, buffers or descriptors.
- `Datastore` - the datastore as operators. A store is a record of files (a function on
  the names that exist) and of streams (a set; the order of the list never matters
  because a lookup has one answer). Every operation is the set of its outcomes, so that
  two specifications can use it. A stream has its mode, its position with the sticky
  end-of-file flag, what stdio has buffered of it, and its descriptor.
- `DatastoreCalls` - the datastore under arbitrary callers, with the history `written` of
  what was accepted, and its refinement mapping to `WriteOnceStore` (`text` is the files,
  `open` the pairs of file and caller with a writing stream). `MCDatastore` instantiates it.
- `DatastoreProofs`, `TftpServerProofs`, `StartupProofs`, `BuffersProofs` - the theorems
  about the module of that name; `TransferProofs` - what a download carries and what
  becomes of an upload, over `TftpServerProofs`; and `SystemProofs`, over that, for
  `TftpSystem`. Two modules of lemmas: `DatastoreLemmas` (the operations of `Datastore`) and
  `SessionBufferLemmas` (those of `SessionBuffer`, with least elements and `FlattenSeq`).
- `SessionBuffer` - load, save and close of a session's buffer over `Datastore`, and one
  turn of each netascii translation; `Wire` and `Known` say what the modes are for.
- `TftpServer` - handler and event loop over `SessionBuffer`, with the same refinement
  mapping to `WriteOnceStore`. `MCTftpServer` instantiates it.
- `TftpSystem` - `TftpServer` with RFC 1350 clients and a network. `MCTftpSystem`
  instantiates it.
- `Startup` - `main` from the arguments to the loop and out again.
- `Buffers` - receive buffer and parsers, log line buffer, `join_path`. `MCBuffers`
  instantiates it.

`TftpServer` cuts a turn of the loop at `pc`: `wait`, `recv` (one step by datagram),
`get` and `put` (one step by turn of the loops of `get_session_data` and
`put_session_data`, `job` being the call under way), `resend` and `cleanup` (one step by
session, `todo` being the rest of the walk), then `closing`, `exiting`, `exited`;
`crashed` if the freed list node cannot be read. Its variables are the code's: `ds`,
`ses` (sessions by client), `seshead` (their order), `epoll`, `events` (the batch),
`sinfo` (for whom the message in the shared buffer was built), `exitflag`; `out` is what
the last step sent and logged. Each case of `tftp_proc` is an action: `RecvRepeatedRequest`,
`RecvRefusedRequest`, `RecvRequestNoSocket`, `RecvRRQ`, `RecvWRQ`, `RecvData`, `RecvAck`,
`RecvError`, `RecvStray`, `RecvUnparsable`, `RecvUnknownOpcode`; `Done`, `Resend` and
`Errsend` are its labels. `RecvOwn` is the datagram that the retransmission timer sends
to the session's own address; in `TftpServer` it may come in until the next reply to the client,
in `TftpSystem`, which keeps track of these datagrams, at any later time.

`TftpSystem` adds the clients (`cl`), the two directions of the network as sets, and
counts of faults, seconds and sessions by client (`tid`, the port of a session). A client
makes one request, answers what its peer sends and repeats itself on a time-out; the
server's reception is `Handle`, the disjunction of the actions above for the datagrams
that are really there. `RecvRequestNoSocket` is not among them, because `SystemAssumption` is
a disk that works and three descriptors for each client: one for a socket, one for its
stream, one for the stream that an upload given up leaves open (only a read that fails leaves
streams of downloads). TLC finds a descriptor free in every state of `transfer` in which a
client has no session. In `Startup` `pc` names the next call, `fds` is the table of
descriptors that all the calls share, `exitval` the status the process will exit with, and
`shown` what the operator's command has shown: the status of the process that was started,
which is the parent, and so `OK` from `fork` on. A behaviour of `Buffers` looks at one of its three
places, which never meet.

What is abstracted:

- Content is a sequence of units. An upload of client c consists of `<<c, 1>>, <<c, 2>>,
  ...` with line ends at `LineEnds`, so the origin and the place of what is stored can
  be seen. CR and LF are two of the units.
- `lastsending` is an age, capped one above both intervals, since time is only compared
  with them. The clock advances only while the server waits.
- In `TftpServer` a datagram is its effect: opcode, block number around the session's
  current one, data; what bytes are parsed into which of these is `Buffers`' part. It may
  come in on any registered socket; the code never looks which. An ERROR is parsed only
  to be logged. A client keeps to the role of its request.
- `FreedNext` is what `cleanup_session` may read from the node it has just freed: the old
  pointer, NULL, or a fault. In the same way `create_socket` of `Startup` may close any
  descriptor when `getaddrinfo` fails, because it closes a variable that was never set,
  and `get_ifaddress` and `iwlog_init` may crash where they use a pointer not yet set.
- `EpollFaults` is whether `epoll_ctl(EPOLL_CTL_ADD)` may fail for a socket that is open
  (`tftp.c:644`); for a session without a socket it always does. `refused` is history: the
  sessions it failed for. Taking a socket out fails only if it is not registered.
- A `fread` that fails leaves nothing in the session buffer; in the code it may leave the
  units it got, in the buffer of a session that `errsend` disables at once.
- `Wire` has no NUL after a CR that stands alone, as `local_to_netascii` has none.
- `rbuf` is not initialised in the code (`tftp.c:301`) and starts as zeros in `Buffers`; after
  one datagram it holds any remainder.
- Descriptors are numbers handed out lowest first, shared by sockets and streams.
- `malloc` succeeds, except in `iwlog_init`; in the service `create_socket` fails only
  when descriptors run out.

## 3. Runs

Bounds are the constants of each `.cfg`. In `TftpServer` a block is 2 units, a buffer 2,
3 or 4, block numbers roll over after 2, one retry is allowed (2 in `transfer`), the
resend interval is 0 and the close wait 1 or 0. These are small enough to be exhausted
and large enough that each of the cases happens: several buffers by file, several
roll-overs, a buffer that is not a multiple of the block, stdio blocks that do not match
the buffer, a line end split by the end of a block, a stream reopened after its end,
descriptors exhausted. The actions are the same for the real sizes (512, 8192, 65535, 3,
10, 15). In `Buffers` the log's sizes are the real ones; those of a datagram are scaled
down with their order kept (8 bytes of buffer, names of at most 2 letters and a NUL, so
that every datagram over every remainder can be tried).

Passing:

| Run | Instance | Shows |
|---|---|---|
| `datastore` | 2 callers, 3 names (one cannot be opened), 3 descriptors | `TypeOK`, `OneStreamPerCaller`, `OneWriterPerFile`, `StreamsOnFiles`, `NothingLost`, `WriteOnce`, `ImplementsWriteOnceStore` |
| `download` | 2 clients, both modes, a file of 4 units with 2 line ends, 3 descriptors, malformed datagrams, refused sockets, all `FreedNext` | `SessionListSound`, `ListensToLiveSessions`, `DownloadsFaithful`, `ResendsCurrentBlock` |
| `upload` | 2 clients read and write one name in both modes, up to 3 units, a buffer that is not a multiple of the block | `AcknowledgedUnitsKept`, `UploadsUnmixed`, `AcknowledgedUploadStored`, `DownloadsFaithful` of a growing file |
| `upload_faults` | uploads with disk faults | `UploadsUnmixed`, `ImplementsWriteOnceStore` |
| `liveness` | 2 clients that download, 3 descriptors, refused sockets, a signal at any step, batches of 2, fairness | `SessionsEnd`, `StopsOnSignal` |
| `transfer` | 1 client, every plan, 3 time-outs, 3 faults of the network, 1 second | `DownloadExact`, `UploadExact`, `Completes` |
| `startup` | every option and configuration, descriptors 0 to 3 inherited or not, every call failing | `ServesConfined`, `ServesOpenDescriptors`, `FailureReported`, `SignalEnds` |
| `buffers` | all datagrams over all remainders; messages of 0 to 300 characters in any order; tails of up to 4 characters | `OwnBytesOnly`, `RequestsUnderstood`, `RequestsFit`, `BuffersKeptWithin`, `LinesWhole`, `PathsJoined` |

`Symmetry` permutes clients; it is not used where a liveness property is checked.

Fairness. `FairSpec` of `TftpServer`: weak fairness of `Loop`, because the process is
scheduled and `epoll_wait` has a time-out of one second, so a turn always comes to its
end; strong fairness of `Tick`, because the clock moves while the server waits again and
again. The clients get none: they may fall silent for ever. `SessionsEnd` is for sessions
that have their socket, and is checked with `FreedNext` such that the walk of the list
goes on: with NULL an old session can be passed over as long as newer ones are deleted
before it. `SystemSpec`: weak fairness of the server, of delivery, and of a client's
time-out when nothing is under way any more (a client that waits for ever would not be
RFC 1350); nothing forces a second to pass or a datagram to be lost. `Spec` of
`Startup`: weak fairness of `Main`, because the process is scheduled and its calls
return.

Exceptions in the properties, each for a case that the code really has:

- `ListensToLiveSessions` leaves out sessions whose socket `epoll_ctl` refused. Those that
  have a socket end all the same, by the timer (`SessionsEnd`).
- `DownloadsFaithful` leaves out sessions that inherited a stream; run `inherit` shows it.
- `Completes` speaks of behaviours with at most `RESEND_COUNTMAX` faults, in which no
  block is overtaken by its successor and the server's timers do not run. A DATA that is
  late by two blocks is answered with ERROR (`tftp.c:814`), and the timers cannot help
  (run `retransmit`). Its instance has no line end at the very beginning of an upload
  (run `netascii`).
- `ServesOpenDescriptors` is for a process started with 0, 1 and 2 open and in which
  `create_socket` did not close a stranger; without the first, `daemonize` may put the
  null device where the log is.
- `UploadsUnmixed` needs descriptors enough, two for each client (see below).

Violations - places where the code does not do what its own comment, message or field
description says (quoted under `findings`):

| Run | Property | What happens |
|---|---|---|
| `retransmit` | `RetransmitsToClient` | the timer sends to the address of `getsockname`, the server's own |
| `reply` | `RepliesForReceiver` | a case that builds no message sends the previous one, of another client perhaps |
| `inherit` | `DownloadsAlwaysFaithful` | a stream left open is found by a later session with the same socket number |
| `netascii` | `NeverDenied` | an upload whose only block begins with CR LF is refused half way, because the empty piece before the CR ends the writing |

Observed while modelling and not stated as properties:

- A block whose saving failed for want of a descriptor is stored twice when the client
  repeats it: it stayed in the session buffer (`tftp.c:1559`).
- A session whose socket `epoll_ctl` refused has `regevent` set ("flag of whether epoll event is
  registered", `tftp.h:97`) and is not tried again (`tftp.c:648`).
- A session that could not be given a socket stays in the list for ever (`tftp.c:1021`).
- An upload of nothing is logged as completed and leaves no file (`tftp.c:1522`).
- When the freed node's next pointer reads as NULL, `cleanup_session` ends early and
  leaves finished sessions for the next turn (`tftp.c:1150`).
- A request whose last NUL is missing is accepted if an earlier datagram left one in the
  buffer, and a datagram of less than two bytes is taken for the opcode of the one before
  (`tftp.c:695`); `OwnBytesOnly` and `RequestsFit` say what holds nevertheless.
- `join_path` does not count the slash it adds (`util.c:57`).
- When the log file cannot be opened the process dies in `pmsg` of `logging.c`, which
  reads `alog` before it is set.
- The command exits with 0 as soon as `fork` has succeeded (`iwtftpd.c:424`): a start that fails
  after that, for want of a socket, of the user or of the directory, is seen in the log only.
  `FailureReported` says that it is there.
- The log is `/var/log/iwftpd.log` (`logging.h:40`), not the file the README removes.

## 4. Proofs

| Module | Theorem | States |
|---|---|---|
| `DatastoreProofs` | `TypeCorrect`, `OneStreamPerCallerHolds`, `OneWriterPerFileHolds`, `StreamsOnFilesHolds` | the invariants of run `datastore` |
| | `WriteOnceHolds` | the action property `WriteOnce` |
| | `NothingLostHolds` | `NothingLost`, on a disk without faults |
| | `Implements` | `DatastoreCalls` refines `WriteOnceStore` |
| `TftpServerProofs` | `TypeCorrect`, `SessionListSoundHolds`, `ListensToLiveSessionsHolds`, `ResendsCurrentBlockHolds` | the invariants of that name |
| | `Implements` | the server refines `WriteOnceStore` |
| `TransferProofs` | `DownloadsFaithfulHolds` | `DownloadsFaithful` |
| | `AcknowledgedUnitsKeptHolds` | `AcknowledgedUnitsKept` |
| | `AcknowledgedUploadStoredHolds` | `AcknowledgedUploadStored`, on a disk without faults and with descriptors enough |
| | `UploadsUnmixedHolds` | `UploadsUnmixed`, with descriptors enough |
| | `DescriptorsSufficeHolds` | the descriptors are enough where their number has no limit |
| `SystemProofs` | `SystemTypeCorrect` | `SystemTypeOK`: server, clients and network |
| | `DownloadExactHolds` | `DownloadExact`, where a client is sent only blocks made for it |
| | `UploadExactHolds` | `UploadExact`, where a client is sent only acknowledgments made for it, on a disk without faults and with descriptors enough |
| `StartupProofs` | `TypeCorrect`, `ServesConfinedHolds`, `ServesOpenDescriptorsHolds`, `FailureReportedHolds` | the safety properties of run `startup` |
| `BuffersProofs` | `BuffersKeptWithinHolds`, `OwnBytesOnlyHolds`, `RequestsFitHolds`, `RequestsUnderstoodHolds`, `LinesWholeHolds`, `PathsJoinedHolds` | the properties of run `buffers` |

Each is for every value of the constants that the assumptions of the module allow, with
disk faults or without unless it says otherwise. TLC evaluates every assumption in the
runs of the module.

- `StoreAssumption`, `CallsAssumption`, `BufferAssumption`, `ServerAssumption`: sizes are
  positive naturals, a block has at least two units and fits into a buffer, block numbers
  go beyond 1, descriptors are naturals, the files at the start have the type of files,
  and what an upload consists of are units other than CR: a line end is the only place
  where a client sends one.
- `StartupAssumption`: `FdMax >= 8`, room for what a start opens at most.
- `BuffersAssumption`: the sizes are naturals in the order the program gives them (a name
  and a mode, an ERROR and a DATA fit into the receive buffer, "netascii" is the longest mode),
  a letter is not the NUL, and names are sequences of letters.

Datastore. The inductive invariant is `Sound == TypeOK /\ StoreSound(ds)`. Its parts need
each other: a new writer is alone because it is opened only on a missing name and no
stream is over a missing name (`StreamsInside`); a replaced stream keeps its key unique
only if it was (`OneDsession`); a reader stays inside because files only grow. The
argument goes by what a call does to one stream: `Fits(s, d)` says that stream d may stand
in store s - true of the streams of a sound store (`FitsOld`), of a new reader
(`FitsNewReader`) and of a new writer once the empty file is there (`FitsNewWriter`) - and
dropping, reading or writing a stream that fits keeps the store sound and lets files of
`W` grow only (`Grows`). `ReadKeeps`, `WriteKeeps`, `CloseKeeps` and `ExitKeeps` follow for
the operations, and are about the operators of `Datastore`, so that they serve for
`TftpServer` as well. For the refinement `Moves(s, t, d)` says what work on stream d does to
the pairs of file and writer: nothing if d reads, d's pair added or taken away if it
writes. With `GrownBeginning` every call is one `Write` of the abstract store or leaves it
as it is. `NothingLost` needs `Kept`: file and history have the same names, and with the
stdio buffer of its only writer a file is `Whole`. It is proved under `~IoFaults`; with
faults it is false, since closing drops what could not be written.

Server. The inductive invariant `Inv` is `TypeOK`, `StoreSound(ds)` and, each by name, what
the properties rest on: `ListInv` replaces counting by "no element twice", and says that
the walks over the list visit only sessions that are still there, and exist only in
`resend` and `cleanup`; `SocketInv` that no two sessions or streams share a descriptor;
`JobInv` that the session under way exists and has its role; `ListenInv` that a live
session that is neither registered nor refused belongs to a batch not yet over; `ResendInv` the kept message of
every session but the one whose next is being built; `WritersKnown` the keys of writing
streams. TLC has checked it on the constants of `download` and `upload`. The proof does not
go action by action where actions are alike: every datagram of a client with a session and
every turn of the two loops has the shape `Visits(c)` - one session changes, to a sound one
that `Continues` it, and the store is `Stepped`, at most once and under that session's
descriptor and name; a request may have the shape `Adds(c)`; every other datagram
`Answers`. `DatagramShapes`, `GetVisits` and `PutVisits` bring the actions into these
shapes, `VisitKeeps`, `AddKeeps` and `AnswerKeeps` show that a shape keeps the invariant,
and the rest of the loop follows by action (`UpdateKeeps`, `ResendKeeps`, `CleanupKeeps`
and the others). `Stepped` already says that a step of the store is one `Write` or a
stutter of `WriteOnceStore`, so the refinement needs no second pass over the actions.

Downloads. `DownloadsFaithful` speaks of the message a session keeps only; what makes it
true is where the session is in its file. `TransferInv` adds, for every reader with a
stream of its own, `Progress`: a place q in the file such that what has gone into messages
- and, while `get_session_data` is at work, into the one being made - is `Lead`, the wire
form of the q units before it and, with `fopt`, the CR of a line end whose LF is still to
go; the session buffer holds the units after q (`Placed`), and the stream, if it is open,
stands behind them (`StreamAt`). `Len(sent) = SentLen` ties the place to the block number:
every message but the last is full, so block k begins at (k - 1) * `DataLen`. Two facts
about the rest of the server are needed, and are parts of the invariant: files of the start
stay as they are (`Frozen`), others grow only, so that a block shown stays a block
(`ShownGrows`); and `iwds_exit` runs without sessions (`Ending`). A session without a
socket has sent nothing and never will. `Wire` is a flattened sequence, so the lemmas
about it are about pieces (`WireGrows`, `TakenPlaced`): a turn takes units from the buffer
and appends their wire form, and a CR without its LF ends its block. The turn of
`get_session_data` is proved in three parts: what a load leaves (`LoadReady`), what is
taken (`TurnTakes`), what the message then is (`MadeShown`, `DataTransfers`). All other
steps leave the place alone (`VisitTransfers`, `AlikeTransfers`, `AddTransfers`). For a
session that inherited a stream there is no such place, which run `inherit` shows.
TLC has checked `TransferInv` on the constants of `download`, `upload` and, with readers
too, `upload_faults`.

Uploads. `UploadInv` is the counterpart for writers: of every session it says how much of
the upload has come in. Between two blocks (`Between`) this is the wire up to the end of
block `nblk`; while `put_session_data` is at work (`Within`) it is some g units of it, and
the rest of the block is in the message (`Left`). What is known of the text from so much of
the wire is `Held`: either `Stored`, that is, what was written - the file with the stdio
buffer of its stream, or nothing if there is no stream - followed by the session buffer; or
`Lost`, for a session that is finished or discarded, whose stream is closed. A turn takes
units from the message to the buffer without changing the sum (`TakesUnits`); a save moves
the buffer to the stream (`SaveLands`, `Savings`); a close moves the stream's buffer to
the disk, or a beginning of it on a disk with faults (`Landed`). `blknum = nblk % (BlkMax + 1)`
is what makes a repeated or late DATA recognisable, so that a block is taken once. That a
stream is the session's own - an upload inherits none - is not assumed: a new session's
name must be missing, and no stream is over a missing name.

The parameter of `UploadInv` is whether a descriptor is always free. Without that, a save
may fail in the middle of a transfer, the buffer stays as it is and the session goes on to
take the repeated block (`tftp.c:1559`): `UploadInv(FALSE)` claims nothing of a session that
is over, and is enough for `AcknowledgedUnitsKept`, which is proved without any hypothesis.
`UploadInv(TRUE)` adds that a session that failed has lost its stream for good - its file
exists, so no save of a late block can create it again - and that a finished one has all of
its text in a closed file. The other theorems about uploads therefore have the hypothesis
`[]DescriptorsSuffice`, a descriptor is free in every state. It is one on behaviours, and
not empty: with no limit on descriptors it always holds (`DescriptorsSufficeHolds`: there
are finitely many streams at any time), and TLC finds it true in every state of the instance of
`upload` when that is given six descriptors instead of four. `UploadsUnmixed` needs `Unmixed`,
that each file with what is buffered for it is a beginning of one upload. Only a writer's
save can add to a file, and what it leaves is a beginning of what came in (`Begun`); all
other steps can only cut off what was buffered, or close (`Cuts`).

System. In `TftpSystem` the server reads the datagrams that clients sent, however late, so
its steps are not those of `TftpServer` and its invariants are proved for them again, from
the same lemmas about its operations. `SystemInv` is `Inv` and `TransferInv` with what
sessions, clients and datagrams know of each other: a session is the one its client's
request asked for, has a socket, and keeps a message for this client (`Asked`); a datagram
under way is the request, a block of the upload or an acknowledgment of its sender, as its
plan has it (`Honest`, `ClientsSound`, `NetworkSound`). `HandleSpeaks`, `GetSpeaks` and
`PutSpeaks` give every step of a session the shape `Speaks`: the session goes on with its
request (`Goes`), and what is sent is the message it then keeps, an ERROR, or, in the case
that builds none, the last message once more.

`DownloadInv` goes from the file to the client: files of the start stay (`FilesStay`); every
message that can be sent or is on its way to a client that downloads is the block of the
wire form under whose number it goes (`OldExact`, `BlocksExact`); a client has whole blocks,
one after the other (`ClientsExact`). A message the session keeps is such a block by
`TransferInv` (`KeptExact`), and a client that takes only the next number appends the next
block (`TakesNext`). The theorem needs what the program does not check. The downloads are of files
of the start with at most `BlkMax` blocks (`PlansFit`), because over the roll-over a block
that is late by a full round of numbers looks like the next one. And it is about behaviours
in which the two observed faults do not happen: a client is sent a block made for another
(`BlocksForReceiver`, see run `reply`), or a session goes on with a stream that was left
open (`NoneInherited`, see run `inherit`). TLC finds `PlansFit`, both hypotheses and
`DownloadInv` true in every state of the instance of `transfer`, with its losses,
duplicates, time-outs and repetitions; so the theorem speaks of real transfers.
The datagrams that are lost, repeated, delayed or overtaken are unlimited there.

`UploadExactHolds` goes from the client to the file. `UploadInv(TRUE)` is proved for the
steps of the system too (`SystemUploadInv`): the block under a number that comes in is the
block of that number of what its client uploads (`Honest`), so that what was sent, in the
sense of `TransferProofs`, is what the client set out with. From `UploadInv` alone follows
that a session keeps an acknowledgment of the last block only when the upload is complete in
a closed file (`ConfirmsNow`): the last block is the one that is not full, and it is answered
after the last save and the close. `StoredInv` says the same of what was sent: of an
acknowledgment left in `sinfo` (`OldConfirms`), of one under way (`ArrivingConfirms`), and of a
client that is done (`ClientsStored`). It stays true because a file that is complete stays
as it is: only the stream of a writer adds to a file, a complete one has none, and
no stream is opened for writing on a name that is there (`SystemMoves`, `UploadStays`). Until
then the file holds a beginning of the upload (`FilesBegun`): datagrams put nothing into a
file (`HandleCuts`), and a turn of `put_session_data` adds what comes next in the upload of
its own client (`PutBeginnings`).

Its hypotheses are, of the constants, a disk that works (`~IoFaults`), and new names and
uploads of at most `BlkMax` blocks (`UploadsFit`); of the behaviour, that a descriptor is
always free (`DescriptorsSuffice`), as for the server alone, that no two clients upload under
one name (`NamesApart`; only a statement about the first state, since plans do not change), and
that a client is sent no acknowledgment made for another (`AcksForReceiver`, the fault of
run `reply` once more). TLC finds all of them true in every state of the instance of
`transfer`, so the theorem speaks of real transfers here too.

Start. `ServesConfined` speaks of the last step only, so `Secured` says by call what must
be there before it is made: the root before `chdir`, the directory before
`iwds_set_chroot`, the new path and each credential before the next one. A failure goes to
`ferr`, and nothing leads back from there. For the other three theorems `Inv` adds what
the descriptors are: how far the table may be filled by then, so that there is a free one
(`Extent`), the log and the null device while `daemonize` works on them (`Daemonizing`), the
table the loop is to find (`Table`), that a message reaches the log or the standard error
(`Heard`), the sockets still to be had (`Slots`), the exit status by then (`Status`) and what was told
at the end (`Told`). `Parted`, proved over `Inv`, is about the two processes: up to `fork` the
command is still running; from there on it has shown `OK`, the log is there and no usage is
reported any more. `FailureReported` follows from `Told` and `Parted`. TLC has checked both on
the constants of `startup`.

Bytes. `Inv` is that both buffers have their size and their type, with `LinesWhole` and
`PathsJoined`, which depend on what was in the buffer before; it is checked on the constants
of `buffers`. The other properties are of the last datagram and follow from what one
reception leaves: its bytes, then the remainder (`RecvSteps`). `EndsExists` and `TextIs` say
where a text in the buffer ends and what it is, `RequestSteps` what a parsed request can be.
`OwnBytesOnly` is proved by comparing the buffer with the one cleaned behind the datagram:
what is parsed is the same (`SameBytes`, `RequestBytes`).

The theorems of the library that take an operator as a parameter are out of reach, their
induction among them. Where an argument goes along a sequence it goes by a least
counterexample instead, which `LeastElement` gives, from the well-founded order of
finite sets; `FlattenExists` in this way gives a meaning to `FlattenSeq`, which its module
defines by a recursive function.

Only model-checked:

- liveness (`SessionsEnd`, `StopsOnSignal`, `Completes`, `SignalEnds`): fairness is out of
  this prover's reach. Every invariant and every action property of the runs is proved,
  under the hypotheses named above where there are any.

## 5. Not modelled, and what is left

Not modelled: a client that mixes the roles of reader and writer; a clock that is set
back; `malloc` failing outside `iwlog_init`; failures of `getsockname`, `getnameinfo` and
`create_socket` for a session other than descriptors running out; `epoll_ctl` failing for a
server socket after the start, or to take out a socket that is registered; the inside of popt,
`realpath` and `getifaddrs`; the wording of messages and of an IPv6 address with its
zone; debugging output (`DBG_*`).

Left: whole transfers (`TftpSystem`) and uploads short of descriptors, and uploads under one name by several clients, as runs of
their own.
