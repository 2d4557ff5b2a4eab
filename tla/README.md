# A TLA+ model of hackpadfs

hackpadfs is a library of file systems behind a set of small Go interfaces. Most of
its file systems keep shared state that several goroutines use at once, and most of
its operations take several steps on that state. This project models those parts,
checks them with TLC on small instances and proves the most important facts with
TLAPS for every size.

`PROJECT.json` has the exact correspondence: which definition models which source
lines, which run checks which property, what can go wrong in the code (hazards), and
where the code disagrees with its own comments (findings).

## 1. Inventory

| Component | State | Operations | What is hard, what makes it correct |
|---|---|---|---|
| key-value file system, `keyvalue/fs.go`, `file.go` | none but the store | Stat, Open, OpenFile, Mkdir, MkdirAll, Remove, Rename, Chmod, Chtimes | Each call is several store transactions and what it read may be stale when it writes. Created entries have ancestors and stay; Rename neither loses nor doubles a file; every call returns. |
| memory store, `mem/store.go` | records by path, one mutex | Transaction, Get, Set, Commit, Abort, ReadDirNames | The mutex is held from the first operation of a transaction to Commit or Abort; ReadDirNames takes no lock at all. |
| open files, `keyvalue/file.go`, `file_rwonly.go` | offset, flags, a cached record, a blob shared by all handles | Read, Write, Seek, Truncate, ReadDir, Close | Sizes read outside the blob's lock, offsets at boundaries, a write that saves an old path again. |
| records and blobs, `keyvalue/record.go`, `blob/`, `indexeddb/idbblob/` | bytes under a mutex, a JavaScript array with a Go copy, answers asked for once | View, Slice, Set, Grow, Truncate | Bounds, a view that shares its blob's mutex, two representations that must agree, an answer that has failed and is remembered. |
| serial transaction, `keyvalue/txn_store.go` | list of results | the transaction interface over a plain Store | No isolation, no rollback: one failing operation of several. |
| tar buffer pool, `tar/bufferpool.go` | counter, channel of buffers | Wait, Done | An atomic counter raced by several goroutines and a channel that must never be full on a send. |
| tar pubsub, `tar/pubsub.go` | visited keys, subscribers per key, context | Wait, Emit | No lost wake-up, no wake-up without reason. |
| tar reader, `tar/fs.go` | unarchive file system, error channel, WaitGroup, contexts, the two above | NewReaderFS, Open, Done, UnarchiveErr | One reader, many writers and callers; errors, cancellation and completion race. Open shows only unpacked files, Done means done, nobody waits for ever. |
| cache, `cache/`, with `internal/pathlock` | cache file system, infos, a mutex per path | Open, Stat, ReadDir of a directory's handle | A copy that fails half way; two Opens of one file; offsets of a listing in pieces. |
| mount, `mount/`, `mount.go` | a `sync.Map` of mount points and a mutex | AddMount, Open, Rename, and every call of package hackpadfs through `Mount` | Check then store; a lookup while mounts are added; a Rename across mounts that fails half way. |
| IndexedDB store, `indexeddb/` | the browser's database | a transaction store, Clear | Callbacks that abort a transaction after its puts. |
| S3 store, `examples/s3` | the bucket | a plain store | Each request may fail by itself. |
| interfaces and fallbacks, `fs.go`, `file.go`, `sub.go` | none | dispatch to an interface or to a fallback | Fallbacks of several steps: RemoveAll, MkdirAll, Sub, WriteFullFile. |
| `os/`, `fstest/`, `internal/` | none | forwarding, tests, helpers | Nothing to model. |

How they interact: a call on `keyvalue.FS` becomes transactions of its store. The
default store is `mem`, whose mutex is the only thing that callers share. `tar.ReaderFS`
unpacks into such a file system from its own goroutines, announces each written file
through the pubsub and bounds its memory by two buffer pools. The cache and the mount
file system call other file systems from under their own locks.

## 2. Modules

```
TreeFS  <--refines--  KVFSClients --> KVFS           KVFSProofs <-- KVFSClientsProofs
                      MCKVFSClients   MCKVFS
BufferPool  BufferPoolProofs      PubSub  PubSubProofs
TarReader   MCTarReader           TarReaderProofs
Blobs <-- KVFile <-- MCKVFile     KVFileProofs
CacheFS <-- MountFS <-- MCMountFS
CacheFSProofs <-- MountFSProofs
```

**KVFS** is `keyvalue.FS` over the memory store. `store` is the map of records, `mu` its
mutex, `pc[p]` the place of goroutine `p` in its call, `at[p]` the local variables of the
invocation, `susp[p]` the stack of the recursive Rename. One action is one transaction,
because the code holds the mutex from one end to the other and nothing else happens in
it. Two places are finer. The scan of `ReadDirNames` reads the map without the mutex, so
it looks up one name per step, in any order. The transaction of a file's Rename has two
writes, so it is split into lock, write, delete and commit or abort: an error path out of
it that forgets the mutex is then visible. Paths are sequences of names, with one path
that `ValidPath` rejects. A record is `Dir` or the identity of a file's contents.

**KVFSClients** adds clients that own disjoint subtrees, **TreeFS** is what they should
see: a tree on which each call takes effect at once. The refinement mapping shows, for
each client, the subtree as it was before its unfinished call (`before`, a history
variable). A client makes only calls that the os would not reject for a reason the file
system never looks at (`Polite`): it stays below its own names, creates nothing below a
file, and moves nothing into a missing directory, into itself, or a file onto a directory.
Everything else, failing calls included, it may try. Without these conditions the
properties of this module fail: `Polite` is what the file system leaves to its callers
(section 5).

**BufferPool** is the pool at the grain of the atomic load, the compare-and-swap and the
channel operations: `count` is the atomic counter, `buffers` what is in the channel. The
code makes a fresh `&buffer{}` for each slot that it provisions; here the buffer has the
slot's number, so `BufferInOnePlace` also says that no slot is provisioned twice.

**PubSub** is Wait and Emit at the grain of their critical sections and selects. A
subscription's context is done when it is canceled or when the reader's context is.

**TarReader** is `tar.ReaderFS`: the reader (`rpc`, `pos`, `mkdirCache`), one goroutine
per archive entry (`wpc`), the error channel of capacity one (`errs`), the pubsub's
visited set, the two flags by which the context ends, and callers of Open. The pool and
the pubsub appear as what their own modules show of them. The unarchive file system is a
function from names to "missing", "directory with mode 0700", "directory with its mode",
"partial file", "cut file" and "whole file"; its Mkdir and MkdirAll look and save in two
steps, as in KVFS. An archive may end within any of its files (`cut`): `fullReader` turns
the `io.ErrUnexpectedEOF` into `io.EOF`, so what there is of the file goes the way of a
whole one, is written, emitted and returned by Open, until the next `Next` reports the
truncation. Any other failing read is an error of the entry. A large file is written by
the reader itself, which waits for its `wpc` to end.
Entries have one parent directory: the longer chains that MkdirAll can make are KVFS's
matter. Archives have no path twice and no entry below a file (`ArchivesAssumption`).

**Blobs** is the contents of a file: `blob.Bytes`, and the JavaScript blob with the Go
copy of its bytes that it has once somebody asked for them. Pure operators.

**KVFile** is the handles of `keyvalue.FS` (`file.go`, `file_rwonly.go`, `record.go`) over
three kinds of store. `kind` chooses one: the memory store, whose records share one blob
per file; IndexedDB, where each transaction puts info and contents and is aborted by a
callback when the parent is no directory; and a plain `Store` such as `examples/s3`
behind `unsafeSerialTransaction`, whose requests fail one by one. `files` and `dirs` are
the store, `blob` and `mu` the blobs in memory with their mutexes, `h[p]` the handle of
goroutine `p`: offset, flags, and what its record remembers (data, that data failed, size,
names). `pc`, `call`, `loc` are the call in progress. A step ends where another goroutine
can get in: at an answer of the store, at a lock of a blob's mutex, at a length read
without it. So a Write is: the size, the data, the growth and its amount, Grow, Set with
its own lock and then the source's lock, and the save. A panic is a place (`"panic"`) in
which the goroutine stays with whatever mutex it held. `want`, `last` and `disturbed` are
history: what one atomic call would have given, the bytes a goroutine has written that are
still its own, and whether anything else has changed the handle's file or the store has
failed it. A view that ReadBlob returned shares the memory of its blob until that is
reallocated, so a later WriteBlob of it writes the bytes it was made from or the ones that
are there now (`Viewed`); if they differ, the call counts as disturbed. Seek answers an
unknown whence with an error. A blob is new if nothing refers to it (`Unused`). Offsets
and sizes may be negative, as callers may pass them: Set refuses a negative offset after
`writeBlobAt` has grown the data, and then the handle's copy is longer than `want` says
and the handle counts as disturbed. Over S3 the save of a directory's handle asks its
record for data, which remembers the ErrIsDir (`SaveDir`). S3's refusal to put a file
where a directory is comes from the code and is no failure of the store: it disturbs
nobody. A request to IndexedDB may also fail in the call itself; that error is only among
the results, and Commit succeeds without the put. Abstractions: OpenFile's two Gets over a serial transaction are one step;
ReadBlob and WriteBlob are modelled for `blob.Bytes`; what S3's RemoveObject of a directory
removes follows the comment in the code; directories exist from the start, as making them
is KVFS's matter.

**CacheFS** is `cache.ReadOnlyFS` with `pathlock`. `cacheInfo` is the map of infos,
`pathLocks` and `locked` the map of mutexes (LoadOrStore may drop the mutex just made, so
a path's mutex is named by the goroutine that made it), `cached` how many 512-byte chunks
of each file the cache's file system has. Open goes from `stat` through `lock`, `acquire`,
`look`, `source`, `mkdir`, `create`, `copy` and `seek` to `unlock`. Every call on the
source or the cache's file system may fail. `mkdirAll` says whether the latter has a
MkdirAll of its own: without one, the fallback of `fs.go:220` answers ErrExist for a
directory that exists, so a second file of one directory is never cached.

**MountFS** is `mount.FS` with what package hackpadfs does on it (Sub, RemoveAll with its
recursion, WriteFullFile, Rename), over a root `R`, a writable `W` and the cache `C` of
CacheFS, whose actions are taken by the calls that reach it. `mounts` is the `sync.Map`,
whose Range visits the entries one by one in any order (`rt[p]` is the lookup in progress
and what it has found), `tree` and `data` the writable file systems, whose own calls are
atomic, `stack[p]` what `removeAll` still has to do. That a call has failed is kept, which
error it was is not. The Stat of RemoveAll and Rename on the cache is one step. Every call
into `R` and `W` may fail for a reason of their own and then changes nothing. A file
system may be mounted at any number of points, as AddMount does not ask where else it is.
`rt[p].dropped` is history: the directories whose last Remove was refused in a RemoveAll,
with an error that `removeAll` drops.

Bounds are in the MC modules and the cfg files; the component modules have none, except
that in TarReader every opener calls Open once and that KVFile and MountFS count the
calls that are left (`Budget`, `MBudget`).

## 3. Runs

| Run | Instance | Shows |
|---|---|---|
| `kvfs_creators` | 3 goroutines on one branch, 2 names, depth 3; Mkdir, MkdirAll, OpenFile, Chmod | `PrefixClosed`, `CreatedStays`: checks made in earlier transactions stay true until the write, as long as nobody deletes. |
| `kvfs_all` | 2 goroutines that create, remove and rename the same paths, one also to an invalid name | `MutexHeldExactlyInRename`, `CallsReturn`, `TypeOK`. |
| `kvfs_clients` | 2 clients, one builds, moves and removes a directory with a file and a directory in it, the other replaces a file; 4 contents | `ImplementsTree` (refinement), `FileAtOnePlace`, `ParentsAreDirectories`. |
| `kvfs_create` | 2 goroutines | Finding: concurrent creations overwrite each other. |
| `bufferpool` | 4 goroutines, 3 buffers | `BufferInOnePlace`, `SendNeverBlocks`, `WaitReturns`. |
| `pubsub` | 2 waiters, 2 emitters, 2 keys | `WaitReturnsOnlyReady`, `NoLostWakeup`, `EmitUnblocksWait`. |
| `tar` | 4 archives of 3 entries, whole or truncated within any file, 1 small buffer, failures and cancellation, 1 opener | `OpenReturnsUnpacked`, `DoneMeansUnpacked`, `OpensReturn`, `TypeOK`. |
| `tar_error` | 1 directory and 1 file | Finding: the last select can lose an error. |
| `kvfile` | 2 goroutines, 4 calls, each kind of store, failures; a file of 2 bytes in a directory, a free name | `UndisturbedIsByteFile`, `PanicsExplained`, `DisjointWritesKept`, `MirrorAgrees`, `RenameKeepsFile`, `IDBSetKeepsParent`, `AppearsByCreation`, `CallsReturn`, `TypeOK`. |
| `kvfile_rename` | the same | Finding: over S3 a Rename onto a directory loses the file. |
| `mount` | 2 goroutines, 2 calls and 1, every file system may fail; root with `a`, `a/b`, `f`; on `a/b` the cache of `d/x` (kept) and `y` (not kept), or `W` on `a` and on `a/b`; `W` or the cache to be mounted on `a` | `ServedWhole`, `CopiedOnce`, `DirEOFComplete`, `RoutedToLongest`, `MountedOnce`, `MountPointKept`, `MountRenameKeepsFile`, `RemoveAllRemoves`, `CallsEnd`, `MTypeOK`. |
| `mount_rename` | 1 goroutine, the same mounts | Finding: a Rename between two mounts of one file system loses the file. |

Why the bounds are enough to be of use. In KVFS every race is between the look and the
write of one call and the write of another, so two or three goroutines reach it; depth
three gives MkdirAll a proper middle, and an entry with a file and a directory makes
Rename recurse. `Blobs` has as many members as contents can be alive at once. The pool
has more goroutines than buffers and more than one slot in its channel, so load and swap
race and a goroutine can lose the buffer it has added. Two keys tell a wrong wake-up from
a right one. In `tar` one small buffer makes the reader wait for a writer, three entries
give two failing writers and an error channel with room for one, and the archives have a
directory before its file, after it, missing, and the root itself.

In `kvfile` four calls are an Open and two uses of the handle with one call of the other
goroutine between their steps, or an Open and one use on each side: every pair of calls on
one file races at every grain, once over each store. Files have up to six bytes, so
writes lie inside, across and beyond the end. Six blobs are as many as can be alive. In
`mount` goroutine 1 mounts, opens a file through the cache, renames within and between
mounts, removes a tree and calls through Sub, goroutine 2 mounts on the same point, renames
the same file out of the cache, or a file onto itself through the other mount, writes and
removes. The directory handles of the cache are read in steps of
-1, 1, 2 and 3, more than a directory has entries.

What a property excepts is what the code really does, and the comment on each one says it:
over a plain store that fails, a write or a Rename can be lost without an error; a handle
saves under the path it was opened with, also after Remove; two growing writes grow a
file twice or panic with the blob's mutex held; a copy that failed half way is served as
the file; the directory of a mount can be removed through Sub, from above, or through
another mount of its file system. Where the repository promises otherwise, section 5 says
so.

Deadlock is checked except where the system may stop: in the `tar` runs everybody has
returned in the end, and failed writers may stay blocked on the error channel when the
reader has stopped; in `kvfile` and `mount` the calls are used up.

Every property of a passing run has a mutant in the modules (the definitions whose
comment begins with "Mutant of"): a plausible bug under which TLC finds that property
violated. They are not part of any specification.

### Fairness

* KVFS, BufferPool: strong fairness of each goroutine's steps. The Go scheduler runs
  runnable goroutines; `sync.Mutex` hands itself to a starving waiter, and a channel's
  receivers are served in order, so that a step that is enabled again and again happens.
  New calls are under no fairness.
* PubSub, TarReader: weak fairness of each goroutine's steps. In TarReader this includes
  that the archive's `io.Reader` and the unarchive file system return from every call.
  Nobody has to call Open or to cancel.
* KVFile, MountFS: weak fairness of each goroutine's steps; a request to a store, the
  source or a mounted file system is answered, perhaps with an error. Calls are finite in
  number, so a mutex cannot be passed by for ever and strong fairness is not needed.

## 4. Proofs

| Theorem | States |
|---|---|
| `KVFSProofs!TypeCorrect`, `MutexDiscipline` | `TypeOK` and `MutexHeldExactlyInRename` for any goroutines, names and calls |
| `KVFSProofs!CreatorsKeepTree`, `CreatorsKeepCreated` | `PrefixClosed` and `CreatedStays` for any goroutines, if no call deletes |
| `KVFSClientsProofs!ClientsImplementTree` | `ImplementsTree`: for any clients, names and depth of tree, KVFSClients refines TreeFS |
| `KVFSClientsProofs!OnePlace`, `ParentsStayDirectories` | `FileAtOnePlace`, `ParentsAreDirectories` for the same clients |
| `BufferPoolProofs!BuffersBounded`, `BuffersNotShared`, `DoneNeverBlocks` | `TypeOK`, `BufferInOnePlace`, `SendNeverBlocks` for any number of goroutines and buffers |
| `PubSubProofs!ReturnsOnlyReady`, `WakeupNotLost` | `WaitReturnsOnlyReady`, `NoLostWakeup` for any waiters, emitters and keys |
| `CacheFSProofs!HandlesAreWhole`, `CopyBegunOnce` | `ServedWhole`, `CopiedOnce` for any goroutines, source and failures, the cache called with any names |
| `CacheFSProofs!EOFIsComplete` | `DirEOFComplete` for directories of any size and any counts |
| `TarReaderProofs!TypeCorrect`, `OpenIsUnpacked`, `DoneIsUnpacked` | `TypeOK`, `OpenReturnsUnpacked`, `DoneMeansUnpacked` for any archives, buffers and openers |
| `MountFSProofs!MountTypeCorrect`, `CallsGoToLongest`, `MountsStay` | `MTypeOK`, `RoutedToLongest`, `MountedOnce` for any goroutines, mounts, trees and calls |
| `MountFSProofs!MountPointsStay`, `RenameIsSafe`, `RemoveAllIsWhole` | `MountPointKept`, `MountRenameKeepsFile`, `RemoveAllRemoves`, for trees of any size |
| `MountFSProofs!MountedHandlesAreWhole`, `MountedCopyBegunOnce`, `MountedEOFIsComplete` | the cache's three properties again, in the composition with the mounts |
| `KVFileProofs!FileTypeCorrect`, `CopiesAgree`, `ParentsKept` | `TypeOK`, `MirrorAgrees`, `IDBSetKeepsParent` for any goroutines, paths, contents, stores and calls. `MirrorAgrees` is about the blob of a handle under Set, Grow, Truncate and reads; views of JavaScript blobs that outlive the call are not in the model |
| `KVFileProofs!HandleIsByteFile` | `UndisturbedIsByteFile`: an undisturbed handle is a file of bytes |
| `KVFileProofs!NoPanicAlone`, `FilesAppearByCreation`, `RenameLosesNothing` | `PanicsExplained`, `AppearsByCreation`, `RenameKeepsFile` |
| `KVFileProofs!WritesBesideKept` | `DisjointWritesKept` for any number of writers of one file |

Assumptions are only those named in the modules: special values differ from the
ordinary ones, calls are well formed, limits are at least one, archives as above, the
initial trees are trees, counts of Read and Write are not negative (offsets and sizes may
be), Rename's first path is no directory of the start (KVFS has the renaming of
directories), Rename and AddMount are not called through Sub, there is a client and no two clients own the same name.

The inductive invariants.

* *KVFS*. Which operation can be at which place (`ControlInv`), which arguments are valid
  there (`ArgsInv`: from the check at the beginning of a call on, a path that is written
  is valid) and that a suspended Rename has valid names (`SuspInv`). The mutex clause is
  inductive with them, because only the four places of Rename's transaction change `mu`.
* *Creators*. `PrefixClosed` alone is not inductive: it needs what each goroutine in
  progress relies on (`Relies`): at the write of Mkdir and OpenFile the parent exists, in
  MkdirAll all shorter prefixes than `level` do, and after a success the whole path does.
  Without deletions the set of paths only grows, so no step of another goroutine
  falsifies this (lemma `OthersInv`), and each goroutine establishes it for itself.
* *KVFSClients*. `CInv` says of each client what its part of the store is, compared with
  `before`, at every place of its call (`ClientInv`). Most calls have not changed anything
  until their one write, and what they have looked at is still so, as nobody else writes
  there (`QuietInv`). MkdirAll has added the prefixes above `level` (`MkdirAllInv`). A
  Rename of a directory is described by two sets of old paths: what is still to be moved
  (`Pending`: the subtrees of the names that the suspended invocations have left) and the
  directories that are at both places (`Opened`); all else has arrived at its new path, and
  the store is `Halfway` between the two trees. The stack of invocations is the chain of
  directories from the Rename's path to the one at work (`Deep`), which is what makes these
  sets come out right when an invocation begins and ends. `OnePlaceInv` allows the contents
  of a file at two paths only inside the transaction. The argument has three layers: pure
  lemmas about paths, trees and `Halfway` (what one write does to it); one lemma per action,
  that it keeps the client's invariant and nobody else's part, or returns with a result and
  a tree that are right for the call (`Outcome`, `GoodStep`); and the refinement, in which
  the abstract tree is put together from the clients' parts (`AbsFacts`, `Glue`), a step
  that goes on is a stutter (`RanStutters`) and one that returns is the call's operation in
  TreeFS (`CallEffect`, `AnswerResponds`). For `ParentsAreDirectories`, what is pending is
  shown to be whole subtrees below open directories (`PendingShape`), so that even a
  half-moved directory hangs together (`HalfwayRooted`).
* *BufferPool*. A goroutine has a buffer in hand exactly between making or receiving it
  and sending it (`InHand`), buffers are numbered by the slots provisioned so far, so a
  new one is new (`Provisioned`), and a goroutine about to swap has seen a value below the
  limit (`BelowLimit`); a swap that succeeds has seen the current value.
* *PubSub*. A blocked waiter is subscribed, or in the hands of an Emit that has yet to
  cancel it, or canceled (`WakeupPending`); visited keys have no subscribers, because both
  sides look at `visited` under the same lock (`VisitedHasNoSubscribers`); and only
  waiters of visited keys are canceled (`CancelMeansVisited`).
* *TarReader*. The reader has started exactly the entries before `pos` (`ReaderInv`); a
  goroutine past its writes that has not failed has unpacked its entry (`WriterInv`), and
  no other entry can undo it because names differ and MkdirAll never names a file;
  emitted names belong to such goroutines (`VisitedInv`); a buffer that is out is with a
  goroutine that will give it back, or the reader has stopped (`BufferInv`); a reader that
  returned without an error has waited for all, and came past every entry, so the archive
  was not truncated (`FinalInv`; `ReaderInv` has the reader go on past `Next` only while
  no entry was cut short). `OpenInv` says why a caller
  is past Wait: its file was emitted, or the reader has stored its error before it
  canceled the context. `WriterFrameInv` reduces each of the eight writer steps to what
  it does to its own entry.
* *CacheFS*. Between LoadOrStore and Unlock a goroutine waits for or holds the mutex the
  map has for its path, so at most one is past `acquire` for a file (`OpenInv`, lemma
  `Exclusion`); what it has found stays true: the file is missing from `source` to
  `create`, as long as what was copied in `copy`, whole in `seek`. A file of the cache is
  missing, whole, failed, or held by a goroutine in `copy` (`FileInv`), and a handle given
  out stays whole because no later step shrinks a whole file (`HandleInv`). For listings
  (`DirInv`): a handle has returned all entries, or exactly those before its offset and no
  io.EOF; once it has returned all, its offset may be any integer.
* *MountFS*. Four parts. Where a call can be and that a lookup has the longest of the mount
  points it has seen, which at its end are all that were there at its beginning, as mounts
  only grow (`CallInv`, `LookInv`, `OldInv`, `WaitInv`, with the types `MTypes`); that the
  file systems stay trees and each file stays at one place (`TreeInv`). For Rename between
  mounts, `MoveInv`: as long as nobody else has been at the two paths and they are not the
  same file of a file system that is mounted twice (`SameFile`), the file is at the old path with the contents it had, the handles are
  those of the files at the two paths, and after the copy the contents are at the new path
  too; one place per file is what makes the copy unable to change its own source. For
  RemoveAll, `RemoveInv`: its tasks are at or below the path, in an order in which what is
  below comes first (`Ordered`, `DirsLast`), and everything still there below the path is
  covered by a task, or is a directory at or above one that the file system has refused
  to remove (`Covered`, `Refused`).
  The cache: a step of MountFS is a step of CacheFS, or a Stat in one step, which adds an
  info at most (`InfoKept`), or leaves the cache alone; the invariants of CacheFSProofs
  survive all three (`BehindMount`).
* *KVFile*. `KInv` is types and what a goroutine at each place knows of itself: which call
  it is in (`ControlInv`), what its handle has fetched (`HandleInv`), which bytes it is
  writing and whose mutex it holds (`WriteInv`). It carries `TypeOK`, `MirrorAgrees` (a
  good blob's Go copy is its value) and `IDBSetKeepsParent`. `FInv` says, of every
  goroutine that is not disturbed, where its call is on the way to its result: what the
  handle sees is what the store has, and the sizes it remembers are right (`FileInv`); at
  each place, what is still to be done to the bytes gives `want` (`CallInv`), and at the
  end it is done (`ResultInv`); a file being renamed is where the place says, unless it goes
  onto a directory in S3 (`RenameInv`); and what would make a panic inexplicable has not
  happened: only the record of an undisturbed handle of a directory in S3 can remember
  that its data failed (`PanicInv`). The proof has two
  halves. Every step says which paths and blobs it touches and disturbs who uses them, so
  whoever stays undisturbed sees what it saw before (`SharedStep`, `OthersA`). And a
  goroutine's own step takes it from one place to the next (one lemma per action, collected
  in `OwnA`); the arithmetic of Grow, Set and Truncate against one splice or one resize is in
  `SplicedFacts` and `ResizedFacts`. `LInv`, for the writes beside each other, needs only
  `KInv`: bytes that were written are in the blob of the writer's handle, a new blob is
  nobody's, Grow keeps every byte, and Set changes no byte outside of its range.

The invariants of KVFSClients, KVFile and MountFS were checked with TLC on the instances of the runs
before they were proved. The theorems of CacheFSProofs are about `CSpec`, the cache called
by anyone with any name, those of MountFSProofs about the cache as the mounts call it.

Only model-checked: the liveness properties (`CallsReturn`, `WaitReturns`,
`EmitUnblocksWait`, `OpensReturn`, `CallsEnd`), which need fairness and `ENABLED`, out of
the prover's reach. Every other property of a passing run is a theorem.

## 5. Findings

Four disagreements between the code and a sentence of the repository have a run in which
TLC shows them:

1. `kvfs_create`: Mkdir and a creating OpenFile look in one transaction and write in
   another, so concurrent creations of a path replace each other, both reporting success;
   `fs.go:23` and `fs.go:35` speak of the behavior of os.OpenFile and os.Mkdir.
2. `tar_error`: a failed background write and the end of the WaitGroup are ready together
   at the reader's last select, which may take the latter; `UnarchiveErr` is then nil.
   `OpenReturnsUnpacked` and `DoneMeansUnpacked` except exactly this case.
3. `mount_rename`: AddMount lets one file system be mounted at two points. A Rename from
   one to the other whose two paths are the same file truncates it, copies nothing and
   removes it, and returns nil; "Should match the behavior of os.Rename()" (`fs.go:59`).
   `MountRenameKeepsFile` excepts exactly this case (`SameFile`).
4. `kvfile_rename`: over S3, Set refuses to put a file where a directory is; the serial
   transaction deletes the old name all the same and Rename returns nil. The same sentence
   of `fs.go:59` is about it. `RenameKeepsFile` excepts exactly this case (`OntoDir`).

Further ones are part of the models. The passing properties name each of them as an
exception, or say nothing about it; what they show is that there is no other:

* An archive that ends within a file: Open may return a part of the file without an error
  before the reader finds out (`tar/fs.go:284-290`), where `tar/fs.go:24` says "that file's
  operation will block until it is unpacked". Excepted in `OpenReturnsUnpacked`
  (`OpenedCut`); `DoneMeansUnpacked` shows that Done never calls such an archive a success.
* RemoveAll drops the error of its last Remove (`fs.go:279-282`), where `fstest/fs.go:622`
  says that it "returns the first error it encounters". `RemoveAllRemoves` says what can be
  left behind a success: directories whose removal was refused, and those above them.
* A WriteAt before the beginning of a file is refused after the data has been grown for it
  (`keyvalue/file.go:271-277`, `keyvalue/blob/bytes.go:91`): the file becomes longer, over
  IndexedDB and S3 with the handle's next save. `fs.go:23` speaks of os.OpenFile, whose
  files stay as they were; `fstest/file.go:348-369` tests the refusal and does not look at
  the file. `UndisturbedIsByteFile` takes such a handle for disturbed.
* Appending leaves the offset where it was plus the count (`keyvalue/file.go:254`), not at
  the end of the file as os does. Excepted in `UndisturbedIsByteFile` (`Appends`).
* Over S3, Chmod of a directory's handle and then Seek from the end panics with nobody
  else about (`keyvalue/record.go:158`). Excepted in `PanicsExplained`.
* OpenFile and Mkdir accept a regular file as the parent of a new entry
  (`keyvalue/fs.go:208`), although the comment above it says "require parent directory".
  `Polite` keeps the clients of `ParentsAreDirectories` from it.
* The reader's `MkdirAll(dir, 0700)` (`tar/fs.go:194`) can overwrite the directory that the
  background Mkdir has made with the archive's mode; the comment at `tar/fs.go:200` says
  "assume dir does not exist yet, then chmod if it does exist". No property is about modes.
* The fallback of MkdirAll ends with a Mkdir and fails for a directory that exists
  (`fs.go:220`), where `fs.go:41` says "Should match the behavior of os.MkdirAll()". The
  cache cannot open a second file of a directory over a file system that needs it.
* ReadDir of a directory's handle of the cache (`cache/dir.go:36`) panics after ReadDir(-1),
  repeats entries and may never answer io.EOF, where `file.go:74` says "Mirrors
  io/fs.ReadDirFile." `DirEOFComplete` shows that io.EOF does not come too early.

Seen and in no model, as nothing calls it so: `Bytes.Slice` (`keyvalue/blob/bytes.go:84`)
copies from the beginning whatever its start is. `fstest/fs_concurrent.go:20` runs the first
of its concurrent tasks to its end before the others start, which hides the race of two
growing writers.

## 6. Plan

Done: the key-value file system and the memory store with their abstract specification;
its handles, records and blobs over all three kinds of store; the tar buffer pool, pubsub
and reader; the cache with the path lock; the mount file system with the fallbacks that
are used on it; and proofs of every safety property, the refinement of TreeFS included.
What would be worth adding:

1. Abstract specifications of the pool and the pubsub, as TarReader uses them, with
   refinement checked and proved.
2. Clients that only read in each other's subtrees: what a Stat or a ReadDir may see of a
   directory that somebody else is moving.

## 7. Not modelled

* Modes, times and owners; ownership calls (Chown) have no implementation of interest.
* `os`: forwards to package os after rewriting paths; no state of its own.
* `fstest` and `internal` (but for `pathlock`): tests, assertions, JavaScript glue.
* Functions of `fs.go` and `file.go` that only choose an interface and forward to it.
* `Slice` of the two blobs beyond what `Bytes` uses, and views of JavaScript blobs: over
  IndexedDB ReadBlob is left out, as it is the one call that leaves such a view with its
  caller. A view whose bytes were read has a Go copy of its own that a later Set of its
  blob does not reach (`indexeddb/idbblob/blob.go:159-183` and `214-237`), so there the two
  representations do diverge, and `MirrorAgrees` claims nothing of it.
* The encoding of a record in IndexedDB and S3. What the two services do themselves is
  modelled by what the code expects of them.
* Error texts and wrapping; error kinds are kept where the code distinguishes them.

What happens when a caller cancels during unpacking is modelled, but nothing is promised
then: Open may return a file that is missing or half written.
