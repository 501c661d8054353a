# A TLA+ development for the V1 storage worker and its client

The repository is a storage system of which version V1 is implemented: one
worker that keeps immutable chunks in a directory, a gRPC data plane, and a
client that stores, fetches and deletes objects. These modules model that data
plane from the source; the versions that the documents describe beyond V1
(replicas, tiers, placement) have no code yet and are not modelled.

## 1. Inventory

| Component | State | Operations | Interacts with |
|---|---|---|---|
| `FileChunkStore` (`src/storage/worker/file_chunk_store.cpp`) | a directory of files `<hex id>.chunk` (header and payload) and temporary files; no state in memory and no lock | `Put`, `Get`, `Head`, `Delete`, `Size`, `Exists`, called from many gRPC threads | POSIX calls only |
| `DataPlaneService` | none | checks a request, calls the store | store |
| `WorkerService`, `RpcInputStream`, `RpcOutputStream` (`src/rpc/services.cpp`) | the frame being read | one handler per call | service, gRPC |
| `GrpcDataPlaneClient` | none beyond a call | `PutChunk`, `GetChunk`, `HeadChunk`, `DeleteChunk` with a deadline | gRPC, local files |
| `StorageClient` | a counter for temporary names | `Put` (hash, then upload), `Get` (head, download, verify, link), `Head`, `Delete` | data plane client, local files |
| status codes, ids, checksums, ranges | none | validation in 64-bit arithmetic, two encodings of a status on the wire | everywhere |
| `UniqueFd` (`include/storage/common/unique_fd.h`) | one descriptor number | constructors, destructor, moves, `release`, `reset` | the descriptor table of the process |
| control plane, configuration, logging, main programs | none that matters here | start-up, `Health` | |

What is hard:

* **Concurrency without locks.** Handler threads meet only in the directory.
  Correctness rests on which system call is atomic (`open` with `O_EXCL`,
  `link`, `unlink`) and on their order.
* **Crashes.** The worker may be killed between any two calls, and a power loss
  undoes what was not synchronized. Temporary files outlive the process that
  made them, sometimes as second names of a committed chunk.
* **Two looks at the same thing.** `Get` opens a chunk twice; `StorageClient::Put`
  reads the source twice; `StorageClient::Get` makes two calls and checks the
  destination long before it creates it.
* **Calls that break.** A client gives up while its handler goes on; a stream
  that breaks looks like one that ended.
* **Statuses** cross the wire in two encodings.
* **Numbers from the wire.** Offsets and sizes are any 64-bit values, and are added
  to each other and to the size of the header.
* **Descriptor numbers are reused.** A number closed twice, or used after its close,
  belongs by then to another thread.

The properties that make each part correct:

* store: a final name refers to a complete, verified file, at all times and after
  any crash; a chunk is never replaced; `Ok` means durable; a reader gets bytes of
  one chunk; failed operations leave nothing behind; everything returns;
* upload: an operation takes effect at most once and with the payload that was
  hashed; `Ok` means that it did, durably, and a definite failure that it did not
  and never will; an undisturbed upload is not refused; handlers end even if their
  client is gone;
* download: the destination is absent or complete, and never replaced; no
  temporary file is left, unless the client dies or its `unlink` fails; a download is refused as corrupt only if the object
  changed or the worker's disk damaged it;
* descriptors: every open number has exactly one owner.

`PROJECT.json` lists the hazards behind these, each at its line.

## 2. Modules

| Module | Models |
|---|---|
| `DataPlaneTypes` | status codes; checks on ids, checksums, ranges; the header of a chunk file; unsigned arithmetic that wraps around |
| `ChunkStore` | abstract: the store is a map; `Commit`, `Remove`, `Sync`, `PowerLoss` |
| `FileChunkStore` | the store on a file system, thread by thread and call by call; refines `ChunkStore` |
| `RpcStatus` | `ToRpcStatusCode`, `FromRpcCode`, `ToGrpcStatus`, `FromGrpcStatus` |
| `ObjectStore` | abstract: what `Put` and `Delete` promise to a caller across a network; uses `ChunkStore` |
| `ClientPut` | `StorageClient::Put`/`Delete`, `GrpcDataPlaneClient`, the handlers, and calls that break; refines `ObjectStore` |
| `ClientGet` | `StorageClient::Get`, its two calls, the handlers, and the client's file system |
| `UniqueFd` | `UniqueFd` and the descriptor table |
| `MC...` | constants for TLC |
| `DataPlaneProofs` | lemmas about the operators of `DataPlaneTypes` and `RpcStatus` |
| `FileChunkStoreProofs`, `FileChunkStoreOutcomes` | the invariants of `FileChunkStore` |
| `FileChunkStoreRefinement` | `FileChunkStore` implements `ChunkStore` |
| `ClientPutProofs`, `ClientPutRefinement` | the invariants of `ClientPut`; it implements `ObjectStore` |
| `ClientGetProofs` | the invariants of `ClientGet` |
| `UniqueFdProofs` | the invariant of `UniqueFd` |

`ClientPut` and `ClientGet` work on a map rather than on the file system:
`FileChunkStore` is shown to implement the map of `ChunkStore`, so what they need to
know of the store is in its abstract specification. Together the refinements lead
from the promise of `ObjectStore` down to the system calls. `ClientGet` maps an id to
a whole chunk file, because the worker's disk may damage header and payload
separately.

### DataPlaneTypes

A `std::uint64_t` is a number below `Word`; `Plus` and `Minus` wrap around.
`ValidateByteRange`, `ReadHeader` and the position that `Get` gives to `pread` use
them where the code uses unsigned arithmetic. `Pread` takes a position in the file,
header included, so that a position that wrapped would really return header bytes;
`GetExact` says that it never does. `Word` is 8 for TLC, larger than the largest
file and small enough for requests near the top of the range; the proofs hold for
every `Word` greater than the length of a file.

### FileChunkStore

The file system is `dir` (name to inode), `disk` (for each name the inodes it may
refer to after a power loss), `file` (header and payload of an inode) and
`synced`. A name is a record, final or temporary; that the hexadecimal encoding is
injective and contains no dot is built in. A directory change adds to `disk`, an
`fsync` of the directory settles it, and a power loss picks for every name one of
the possibilities and tears files that were not synchronized (header lost, payload
cut). A process crash loses no file system state.

A thread has a program counter, its request, the suffix (`token`) of its temporary
name, the inode its descriptor is open on, and the bytes received or sent. One
action is what the code does around one system call:

| Code of `Put` | Actions |
|---|---|
| validation, `create_directories`, `open(O_EXCL)`, header | `PutRefuse`, `PutCollides`, `PutCreate` |
| loop: `input.Read`, size check, hash, write | `PutRead`, `PutTooLong`, `PutReadFails`, `PutWriteFails` |
| byte count and checksum | `PutEof`, `PutMismatch` |
| `fdatasync`, close | `PutSync`, `PutSyncFails` |
| `link` | `PutLink`, `PutLinkExists`, `PutLinkFails` |
| `unlink` of the temporary name | `PutCleanup` |
| `fsync` of the directory, reply | `PutDirSync`, `PutDirSyncFails` |

Creating the temporary file and writing its header is one action: nobody else can
open the file, and a power loss may lose the header of any file not synchronized.
The stream is arbitrary: `Read` may hand over any bytes, an end or an error,
whatever the request announced; `MaxSize` bounds what is received for a request that
announces more than that, and the code's own comparison with the announced size is
what `TypeOK` checks beside the types. `Get` is `GetHead`, `GetOpen`, `GetRead`* and
`GetEnd` with their failures; `Head` and `Delete` are one action each. A system
call fails for an unmodelled reason only if its kind is in `Faults`.

A token is fresh among the Puts that run (two live streams have different
addresses) and may be one that a dead process or an earlier stream had.

The storage root has no variable of its own. `create_directories` makes it without
an fsync of its parent; until the root itself is fsynced every `disk[n]` still
contains `NoFile`, so that a power loss which takes the whole root away is one of the
power losses of the model. That the fsync of the root makes its own entry durable is
an assumption about the file system (ext4 behaves so); where it does not hold, an
acknowledged chunk can be lost with its root, whatever the store does afterwards.

### ObjectStore and ClientPut

In `ObjectStore` an operation that was asked for takes effect on the map at one
instant (`TakeEffect`), is decided by the worker (`Decide`), and its caller is told
the decision or something indefinite (`Tell`): `Timeout`, `Unavailable` and `IoError`
leave it open whether the operation has taken effect or will. `Lose` and `Crash` are
the ways in which an answer reaches nobody; `Leave` lets the operation go on alone.

In `ClientPut` a record `cl[c]` is a client thread and a record `call[k]` a gRPC call
with the handler on its other side: `wire` (frames in flight), `closed`
(`WritesDone`), `broken` (deadline, lost connection, cancellation), `answer`, and the
handler's program counter, request, current frame (`rest`, as `RpcInputStream` keeps
it) and bytes received. The handler does not look at the call except by reading
frames, so after a break it goes on by itself until it has committed or failed, while
the client may start another call. The source file may be edited between the hash and
the last read. The worker may be started without a data plane (`configured`), be
killed, and lose power. Besides `StorageClient`, a raw user of the stub sends
frames in any order: metadata twice, data first, empty frames.

The refinement mapping (`StateOf`, `ToldOf`) reads the state of an operation off its
call. `asked` and the field `code` of an answer are history variables: the payload
that has the size and checksum of the metadata, which `CollisionFree` makes unique,
and the status before it was encoded.

### ClientGet

The client's file system has inodes, a destination and temporary names. `Get` ignores
the result of every `unlink` of its temporary file, so `Fails`, which ends each of its
paths once the file exists, has two outcomes: the file is gone, or it stays and the
status is the same. A client that was killed or whose `unlink` failed leaves its
temporary file, which may be a second link to the destination; the history variable
`left` has the names left in these ways, and `NoStrayTemps` excuses these names and no
others. A power loss may drop names and cuts files that were not synced; it does not bring
back names that were unlinked. Handlers follow `FileChunkStore::Get` (look up,
check the range, open, send in pieces) on a map that other clients change freely.
`Damage` lets the worker's disk return other bytes than were written, in the header,
in the payload or under an open descriptor. A worker that dies is a call that breaks.
`StorageClient::Head` is the first call of `Get` and has no action of its own; its
errors pass through `NormalizeError`, as they are put in a `StatusOr`.

### UniqueFd

The kernel's table says which thread opened a number. Every operation of the class is
an action; `reset` is two, because other threads run between `close` and the
assignment of the member, and may be given the number just closed. Threads do not
share objects, but they share the table.

## 3. Runs

| Run | Expect | Instance | Shows |
|---|---|---|---|
| `StoreCrash` | pass | 2 threads, 1 id, 2 inodes, 2 tokens, 2 crashes, payloads up to 2 bytes in 1-byte buffers | `TypeOK`, `CommittedIntact`, `AckedSurvives`, refinement of `ChunkStore` |
| `StoreRace` | pass | 2 threads, 3 inodes, ranges that wrap around among others, failing writes, syncs and links, no crash | `CommittedIntact`, `GetExact`, `RefusedPutLeavesNothing`, `NoOrphanTemps`, refinement |
| `StoreFaults` | pass | every system call may fail; malformed requests; an id with a name too long, an empty one; fair | `CommittedIntact`, refinement, `Terminates` |
| `StoreFailedPut` | violation | 2 threads, the directory fsync may fail | a failed Put leaves a chunk |
| `StoreReput` | violation | 2 threads, no failure | `kCorruption` without damage |
| `StoreLongId` | violation | an id of 200 bytes | `kIoError` for an absent chunk |
| `PutUpload` | pass | 1 client, 1 call, 3 ids, 3 raw frames, 1 crash of the worker, fair | `TypeOK`, `StatusArrives`, `UnchangedSourceIsAccepted`, refinement of `ObjectStore` (`KeepsPromise`), `OperationsEnd` |
| `PutLate` | pass | 1 client, 2 calls, 1 crash of the worker | `KeepsPromise` with a handler left behind beside the retry |
| `PutEof` | violation | 1 client, 2 calls | a broken stream is reported as ended |
| `GetDownload` | pass | 2 clients, 2 temporary names, 3 inodes, 2 payloads | `TypeOK`, `DestComplete`, `DestNotReplaced`, `NoStrayTemps`, `CorruptionMeansChange`, `GetStatusArrives` |
| `GetLive` | pass | 1 client, 1 damage of the worker's disk, fair | `DestComplete`, `GetEnds` |
| `Fd` | pass | 2 threads with 2 objects each, 3 numbers | `OneOwner` |

Why the bounds are enough. Operations on different ids touch different names and
inodes, so one id suffices wherever ids are not themselves the question. Two
threads are what a race needs, as no operation looks at more than one other file.
Two tokens let a Put meet the leftover of a killed one while another runs; three
inodes are a committed chunk, a reader's deleted chunk and a file being written.
Two crashes are a crash and one during what follows it. Payloads of two bytes in
one-byte buffers make the loops turn twice and let a stream end in the middle. The
sources and payloads `<<1, 2>>` and `<<2>>` differ in size, and edits and
truncation make of them a third payload of the right size, so that size checks and
checksums are needed separately. One client with two calls gives two handlers at
once, the one it gave up on and the one of its next call; a second client would
add only another such pair. In `StoreFaults` one token is enough, and more of a trap:
with `unlink` failing, the next Put always meets the leftover name. A raw user needs
three frames (`MaxRaw`) for metadata, data and one frame too many; one damage
(`MaxDamage`) is enough to defeat a check that is missing. Three numbers for four
objects make the kernel reuse each of them. Symmetry is used in runs without
liveness.

`Blake3` is a parameter assumed injective on payloads (`CollisionFree`); TLC uses
the value in base 3.

### Fairness

`StoreFaults`: weak fairness of each thread's own steps: the scheduler runs it, and
its input stream sends or ends, since a call ends at its deadline at the latest. No
failing system call is part of these steps (`Progress`), and neither are new requests:
that a Get returns when its file is shorter than expected rests on `GetShort`, the
answer to a `pread` of zero bytes, not on an assumed error. `GetLive` likewise: weak
fairness of `Progress`, the steps that the state of the client determines, without the
system calls that fail for no modelled reason, and of `Break` with `DEADLINE_EXCEEDED`,
because every call of the client sets a deadline; `HeadChunk`, a single step, answers
or ends by its own. `PutUpload`: weak fairness of the steps of clients and handlers,
and of the same `Break`. A raw user is
not assumed to send anything, but its calls are assumed to have a deadline too:
without one a handler waits for the next frame as long as the connection lives, as
the worker sets no limit of its own. A handler that fails, a source that cannot be
read, a kill or another edit is never assumed to happen.

### Mutants

Next to a definition, `...Mutant` and similarly named operators are versions of
it with a plausible mistake (no `O_EXCL`, no `fdatasync`, `rename` in the place of
`link`, a missing cleanup, an offset that does not advance, a range check that adds). No specification uses
them. Each passing property is violated when its mutant takes the place of the
original, as `PROJECT.json` lists.

### Where code and documents disagree

* `StoreFailedPut`: the directory is synchronized after `link`, and the failure of
  that step is returned with the chunk in place (a unit test is named
  "...FailedWritesLeaveNoChunk"). A retry is told `kAlreadyExists`. The written
  interface forbids only half-finished chunks, and this one is complete.
* `StoreReput`: `Get` reports `kCorruption` for a chunk that was deleted and put
  again between its two opens; the interface reserves the code for damaged data.
* `StoreLongId`: ids of 125 to 1024 bytes are accepted by validation, but no file
  name can hold them; `Head` answers `kIoError` where the interface says
  `kNotFound`.
* `PutEof`: `RpcInputStream::Read` turns a failed read into end of file; the
  interface of `ChunkInputStream` asks for an error. Size and checksum catch it, so
  nothing wrong is stored, but the store reports `kCorruption`.

## 4. Proofs

Every safety property that a passing run checks is also a theorem: for every set of
threads, clients, calls, ids, tokens and inodes, every size of payloads, buffers and
frames, every width of the integers, every set of failing calls and any number of
crashes and damages.

| Module | Theorem | States |
|---|---|---|
| `FileChunkStoreProofs` | `TypeCorrect` | `Spec => []TypeOK` |
| | `OnlyIntactChunks` | `Spec => []CommittedIntact` |
| | `AcknowledgedChunksSurvive` | `Spec => []AckedSurvives` |
| | `Invariance` | `Spec => []IInv`, from which they follow |
| `FileChunkStoreOutcomes` | `GetStreamsOneChunk` | `Spec => []GetExact` |
| | `RefusedPutsAreInvisible` | `Spec => []RefusedPutLeavesNothing` |
| | `TempsHaveOwners` | `Spec => []NoOrphanTemps` |
| `FileChunkStoreRefinement` | `StoreImplementsMap` | `Spec => Implements`: the store implements `ChunkStore` |
| `ClientPutProofs` | `PutTypes` | `Spec => []TypeOK` |
| | `PutStatusCrosses` | `Spec => []StatusArrives` |
| | `UnchangedUploadsPass` | `Spec => []UnchangedSourceIsAccepted` |
| `ClientPutRefinement` | `PutKeepsPromise` | `Spec => KeepsPromise`: uploads and deletes implement `ObjectStore` |
| `ClientGetProofs` | `GetTypes` | `Spec => []TypeOK` |
| | `DestinationsAreComplete` | `Spec => []DestComplete` |
| | `DestinationsAreKept` | `Spec => DestNotReplaced`, an action property |
| | `GetLeavesNoTemps` | `Spec => []NoStrayTemps` |
| | `CorruptionIsReal` | `Spec => []CorruptionMeansChange` |
| | `GetStatusCrosses` | `Spec => []GetStatusArrives` |
| `UniqueFdProofs` | `EveryDescriptorHasOneOwner` | `Spec => []OneOwner` |

`DataPlaneProofs` holds the lemmas about the operators of `DataPlaneTypes` and
`RpcStatus` that the others share.

### Assumptions

They are the ones of the modules, which TLC evaluates in each run: sizes are natural
numbers and a file has a length of 64 bits (`SizeAssumption`), digests are checksums
(`DigestAssumption`), buffers and frames are not empty, there is an id, and the special
values are outside their sets (`StoreAssumption`, `PutAssumption`, `GetAssumption`,
`FdAssumption`).

`CollisionFree` is used twice: in `VerifyStep` of `ClientGetProofs`, where a file with
the checksum of a stored payload is that payload, and in `AsksPayload` of
`ClientPutProofs`, where the bytes that pass the handler's comparison are the ones
that were hashed. The proofs about `FileChunkStore` do without it: that a committed
file has the checksum of its payload needs no injectivity.

### FileChunkStore

`CommittedIntact` alone is not inductive, because a Put writes to its inode in one
step and links it in another. The invariant `IInv` adds:

* `DirOnDisk`: what a name refers to is among what it may refer to after a power
  loss;
* `TokensApart`: running Puts have different tokens, so different temporary names;
* `Locals`, `OwnsTemp`: a thread that writes has a token and an inode, and its
  temporary name can only refer to that inode; a Get that passed the range check has
  `offset + size <= MaxSize`, in unbounded integers;
* `Exclusive`: while a Put writes, no final name, no other temporary name and no
  other thread refers to its inode. This is what `O_EXCL` buys, and it is the heart
  of the argument: a leftover temporary name may be a link to a committed chunk, but
  no Put ever opens it for writing;
* `Written`: the file holds the header of the request and the bytes received so far,
  never more than were announced;
* `Verified`: after the comparison the byte count and checksum match, and after
  `fdatasync` the inode is synchronized, until `link` has made it final;
* `AckedStable`: the entry of an acknowledged chunk is the only one that a power
  loss may leave, and it has the acknowledged payload.

There is one lemma per step of `Next`; `ReplyStep` and `PutFailsStep` serve the many
failing ones. The lemmas about operators carry the arithmetic: `RangeInside` shows
that an accepted range lies inside the payload although the check is made of wrapping
subtractions, `PositionInside` that the position of a read then does not wrap, and
`PreadContents` that what is read there are bytes of the payload and not of the
header.

`FileChunkStoreOutcomes` puts three more conjuncts on top of `IInv`. `GetExact` and
`NoOrphanTemps` are preserved as they stand once `IInv` says that nobody writes to the
file of a reader. `RefusedPutLeavesNothing` is not: it speaks of a Put that has
returned, whose inode could by then be linked by someone else. `HiddenApart` says that
no other thread has the inode of a Put and no final name may refer to it, from the
creation of the file until the link, and for a refused Put until the thread's next
request.

`FileChunkStoreRefinement` maps `chunks` to the payloads under the final names and
`stable` to those that may be there after a power loss. `PutLink` is `Commit`, the
unlink of `Delete` is `Remove`, a directory fsync is `Sync`, a power loss is
`PowerLoss`, and everything else stutters. That writing to a file stutters, and that a
power loss tears no chunk, is again `Exclusive` and `CommittedIntact`.

### ClientPut

The invariant is stated of the record of a client and the record of its call:

* `ChansApart`: no call has two clients;
* `CallOK`: bounds; a handler that runs has not answered; only a call that is not
  broken has an answer, and the answer's encodings say what its `code` says
  (`AnswerFits`); the operation `asked` is the one that the request, still in transit
  or already read, stands for (`AsksFor`);
* `ClientOK`: what a client knows by itself, such as that until the first send the
  metadata of an unedited source is that of the source;
* `Attends`: a client and its call together. For an upload that is not edited and not
  broken, `Uploads` says that there is one payload of which the bytes the handler has,
  the rest of its current frame and the frames in transit are, in this order, the bytes
  sent so far. The positions of the frames are an existentially quantified function
  `cut`, because a sum over a sequence would need induction over data: a frame that is
  sent extends `cut` at its end, a frame that is read shortens it at its beginning.

`PutKeepsPromise` takes every step to a step of `ObjectStore` or to a stutter. Sending
the metadata, by `PutMetadata` or by a raw user, and `DeleteStart` are `Ask`;
`HandlerLink` and `HandlerUnlink` are `TakeEffect`, where `AsksPayload` makes the bytes
received the payload that was asked for; an answer to a call that is attended and not
broken is `Decide`, any other answer `Lose`; the return of the client is `Tell`, and
its departure `Leave`; the death of the worker is `Crash`. What happens to a call that
never carried a request stutters.

`ClientPut` works on the map of `ChunkStore`, and `StoreImplementsMap` shows that the
file system implements this map: the two refinement theorems lead from the promise of
`ObjectStore` to system calls.

### ClientGet

* `TokensApart`, `TempsApart`: running clients have different temporary names, and no
  two names share a file; `FreeEmpty`: a file without a name is empty;
* `DestSafe`: the destination is synchronized and complete;
* `ChunksKnown`: a checksum in a header is that of a payload that was stored under the
  id, or, after damage, of nothing at all; without damage the chunk is intact;
* `Holding`: which client has a temporary file and a call, that before the link its
  file is not the destination, and that after the fsync it is synchronized. As with
  the store, a leftover temporary name may be a link to the destination, and `O_EXCL`
  keeps a new Get from writing to it;
* `Checked`: the metadata came from such a header, and after the comparison the file
  is a payload that was stored;
* `Downloading`: for an object that was neither changed nor damaged since `HeadChunk`,
  the file is a prefix of it, and the frames in transit continue the file up to what
  the handler has sent (`Frames`, again with a function `cut`).

`CorruptionMeansChange` follows from `Downloading`, `DestComplete` from `Checked`.
`NoStrayTemps` is preserved as it stands: a temporary name in use is that of one
running client, and the step in which this client goes away unlinks the name or puts
it in `left`.

### UniqueFd

`OneOwner` becomes inductive with the types, with `DeadHoldsNothing` (an object outside
its lifetime holds no number) and with `ResetLocals` (between the `close` and the
assignment in `reset` the argument is owned by the locals of this thread, and an
object in `reset` is alive and belongs to it).

### Only model-checked

Liveness: `Terminates`, `OperationsEnd` and `GetEnds` rest on fairness, which is out of
the prover's reach. The four runs that show where code and documents disagree are
counterexamples, and TLC's.

## 5. Not modelled

* `Health` and the control plane answer with constants and keep no state. The main
  programs, configuration and logging run once at start: they parse arguments and
  build the objects that are modelled. The worker has no orderly shutdown: it ends by
  being killed, which is modelled.
* The enumerations of object, replica and worker states, and their ids, are used by
  no code of this version.
* Of `Status` and `StatusOr` only the codes and `NormalizeError` are modelled; the
  rest is the storage of a value.
* Writes cut short and `EINTR` are loops inside one system call of the models; the
  wording of messages is left out.
* Processes in different pid namespaces that share a directory could choose the same
  temporary name at the same time; the models assume that they do not. In
  `StorageClient::Get` that is the one case in which a temporary file of another
  client could be unlinked (`storage_client.cpp:89`).

## 6. Plan

Done, in this order: `DataPlaneTypes`, `ChunkStore`, `FileChunkStore` with its runs
and first theorems, `RpcStatus`, `ClientPut`, `ClientGet`; then wrapped integers, the
storage root, protocol errors, restarts and damage, `ObjectStore` and its refinement,
and `UniqueFd`; then the proofs of everything but liveness: `OneOwner`, the outcomes of
the store's operations, the refinement of `ChunkStore`, the properties of `ClientGet`
and of `ClientPut`, and the refinement of `ObjectStore`. The parts of the system that
keep state are modelled.

Left: shorter proofs, where steps of several actions repeat the same argument (the
handlers of `ClientPut` above all).
