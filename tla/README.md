# TLA+ model of kvbfs

kvbfs is a FUSE file system that keeps everything in a key-value store (RocksDB,
or an NVMe-KV device or its simulator), with per-file versions, change events,
semantic search and LLM sessions on top. This directory holds TLA+ modules of
its parts, TLC configurations that check them on small instances, and TLAPS
proofs of what matters most about them for every instance.

Paths below are relative to the repository root (`src/inode.c`); in
`PROJECT.json` they are prefixed with `src/`.

## The system

| component | state | operations | talks to |
|---|---|---|---|
| inode cache, `src/inode.c` | hash `icache` of heap entries (inode, refcount, dirty, deleted, rwlock) under `icache_lock`; the `i:` records | inode_get, inode_put, inode_create, inode_delete, inode_sync, inode_sync_all, inode_cache_clear | called by every handler and both worker threads; the store |
| superblock and inode numbers, `src/super.c`, inode_alloc | `next_ino` in memory under `alloc_lock`; the `sb` record | super_load, super_save, super_create_root, inode_alloc | ctx_init, ctx_destroy, inode_create |
| namespace, `src/fuse_ops.c` | `d:` records, cached nlink | mkdir, rmdir, create, unlink, rename, symlink, link, lookup, readdir | inode cache, file data, versions, xattrs, embeddings, events, session set |
| file data, `src/fuse_ops.c` | `b:` records, cached size and blocks | read, write, truncate in setattr, fsync | inode cache |
| extended attributes, `src/fuse_ops.c` | `x:` records | setxattr, getxattr, listxattr, removexattr, xattr_delete_all | deleted with the file |
| versions, `src/version.c` | `vc:` counter, `vm:` and `vb:` records | version_snapshot at release, pruning beyond 64, version_delete_all, reads | file data, inode cache, called by release, unlink, rmdir, rename |
| version tree, `src/vfs_versions.c` | virtual inodes by number and by (parent, name), under its lock | vtree_alloc, vtree_get | lookup, readdir, open, read of `/.versions` |
| change events, `src/events.c` | byte ring, head, tail, seq, one poll handle, under one lock; a position per open file | events_emit; open, read, poll, release of `/.events` | every changing handler emits |
| memory index, `src/mem.c` | task queue under a lock; `m:` records with a sequence per file | mem_index_file, mem_memorize, worker, mem_search, mem_delete_embeddings | release, unlink, the control file, LLM worker |
| session inference, `src/llm.c` | task queue; generation state and up to 16 poll waiters per session; `session_set` | llm_submit, worker, process_session, file_append, compression, llm_gen_* | release and poll handlers, file data, memory index |
| store, `src/kv_rocksdb.c`, `src/kv_nvme.c`, `sim/` | keys and values; for NVMe one socket under `send_lock` | kv_get, kv_put, kv_delete, iterators | everything |
| session daemon and client, `cfs/` | queue, sentinel files | inotify loop, worker, cleanup; send, stream, wait | the mounted file system |
| life cycle, `src/main.c`, `src/context.c` | `g_ctx` | ctx_init*, session loop, kvbfs_destroy, ctx_destroy | all of the above |

What is hard about it, and what makes each part correct:

- *Inode cache.* Look-ups, loads, deletions and puts by many threads interleave
  between critical sections. Correct: no entry is freed while held, none leaks,
  one entry per inode, exact counts, a deleted inode stays deleted.
- *Superblock.* The number is taken under a lock, the superblock is written
  outside it, and a crash may follow either. Correct: a number is never issued
  again once an inode was stored under it.
- *Namespace.* One request is several store calls without a transaction, any of
  which may fail or be the last before a crash. Correct: a name leads to an
  inode, an inode in use has a name, link counts count names, acknowledged
  changes stay.
- *Events.* Byte arithmetic modulo the ring size, readers overtaken between two
  calls, one slot for a poll handle. Correct: whole lines are dropped, readers
  see bytes in order and without gaps, a poller is woken.
- *Versions, memory index, sessions.* Background work on a file that is
  unlinked, rewritten or re-indexed meanwhile; counters read and written
  without a lock; queues at shutdown. Correct: background work leaves nothing
  behind for a file that is gone, loses no user's data, and every message is
  answered once.
- *NVMe-KV.* Requests and answers over one stream, broken in the middle.
  Correct: an answer belongs to its request.

`PROJECT.json` lists every such hazard at its line with the properties that
would catch it.

## Modules

| module | models | abstract specification |
|---|---|---|
| `InodeCache` | `src/inode.c`; `MCInodeCache` adds symmetry | |
| `InodeCacheProofs` | theorems about it | |
| `InoAllocator` | what allocating inode numbers promises | yes |
| `Superblock` | `src/super.c`, inode_alloc, start and end of a process | implements `InoAllocator` |
| `Namespace` | the changing handlers of `src/fuse_ops.c`: seven of the directory tree, two of extended attributes; `MCNamespace` gives the uses and symmetry | |
| `NamespaceProofs` | theorems about it | |
| `EventRing` | `src/events.c` and the four handlers of `/.events` | |
| `SharedStateProofs` | theorems about `Superblock`, `EventRing` and `LlmSession` | |
| `FileData` | the contents of one file: read, write, setattr of the size, open with O_TRUNC in `src/fuse_ops.c` | a history of what POSIX lets a reader see |
| `Versions` | `src/version.c` over `FileData`, as release and unlink call it; `MCVersions` gives the ranges written and symmetry | |
| `VersionsProofs` | theorems about both | |
| `VersionTree` | `src/vfs_versions.c`, look-up and readdir of `/.versions`; `MCVersionTree` gives the names and symmetry | |
| `VersionTreeProofs` | theorems about it | |
| `LlmSession` | `src/llm.c` and the write, release and poll handlers of a session | |
| `MemIndex` | `src/mem.c`, as release, unlink and the inference worker call it; `MCMemIndex` gives contents and messages | |
| `MemIndexProofs` | theorems about it | |
| `KvStore` | what `src/kv_store.h` promises: the store calls that all modules above take as one step | yes |
| `KvNvme` | `src/kv_nvme.c` and the simulator in `sim/` | implements `KvStore` |
| `KvNvmeProofs` | theorems about it | |
| `CfsDaemon` | `cfs/daemon.py` and the sending client of `cfs/client.py` | |
| `CfsDaemonProofs` | theorems about it | |

### InodeCache

An entry is a heap address: `inum[a]` is the inode it caches (0: free memory),
`refcount[a]`, `val[a]` the mutable part of the inode, and the sets `dirty` and
`deleted` are its flags. `icache` is the hash, `kv` the store. Each thread has
a place `pc`, the locals `ino` and `ic` of the call it is in, and `refs`, the
entries it owes an inode_put.

One action is one stretch of code nothing can interleave with. inode_get is
three: the first critical section (`InodeGet`), the load and calloc outside the
lock (`InodeLoad`), the second critical section (`InodeGetPublish`).
inode_create is three (`InodeCreate`, `InodeCreateSave`, `InodeCreateAdd`),
inode_delete two (`InodeDelete`, and `InodeDeleteKv` after the unlock). A
handler's change under the entry's rwlock followed by inode_sync is
`ModifyInode` and `InodeSync`. The free after an unlock belongs to the critical
section before it: the entry has left the hash. `KvbfsDestroy` and `CtxDestroy`
are the two flushes at shutdown. With `Faults`, calloc, inode_save and
kv_delete may fail at every call; inode_sync's save is never reached by the
code, so its failure is not a step of its own.

FUSE threads create and delete; the two workers only get, change and put. The
model lets any FUSE thread ask for any number that was handed out, and deletes
an inode once, as the callers do. A handler that already holds an inode does
not get it again in the model: `refs` is a set, not a bag.

### Superblock

`next` is `super.next_ino`, `kvNext` the value in the store (0: no record),
`stored` the numbers an inode was ever stored under. `kv_put` is handed the
live superblock and copies it, so `SaveCopy` and `SavePut` are two steps.
`Crash` ends the process at any point and keeps the store (RocksDB writes
survive the death of the process; the loss of the machine's page cache is not
modelled). A superblock with a wrong magic number is not modelled.

`InoAllocator` is the promise: a number is issued to one caller at a time and
never after an inode was stored under it. The mapping is `used <- stored`,
`held <- num`.

### Namespace

`dirent`, `kind` and `data` are the `d:`, `i:` and `b:` records; `nlink` and
`sized` are the parts of the cached inodes that never reach the store (see
below), and are reset by a restart. A file has at most one block. One action is
one store call, or one change of a cached inode, so `Crash` can fall between any
two; with `Faults` every kv_put and kv_delete may fail, and whether the code
looks at the result is part of the action.

The Linux VFS serialises requests: it holds the locks of the directories and of
the inodes a request touches, and sends a request only for names its look-ups
found (or did not find). `Grant`, `CanSend`, `Below` and the guards of the
`...Start` actions model that; they are external assumptions. The repeated
checks of the handlers (EEXIST, ENOENT, EISDIR) then change nothing.
inode_create is one step here, and its numbers are fresh: `InodeCache` and
`Superblock` look inside it. `acked` records what the replies told the users.
After a crash users look again at the entries of the requests that were running,
and after a failed rename at its two entries.

`use`, chosen at the start from `Uses`, says which requests the users make,
whether calls may fail, and how many inodes and mounts there are: the uses keep
apart what the code does not survive together (see below).

`xattr` is the set of inodes with `x:` records: `SetXattr` and `RemoveXattr` are
one step each, xattr_delete_all is part of `Purge`.

Not in it: versions and embeddings that are deleted with a file (see `Versions`
and `MemIndex`), the session set, events; symlinks are files with a block.
`flags` of rename is ignored by the code; RENAME_EXCHANGE is not modelled.

### EventRing

The ring holds bytes; a byte is the number of its line, its place in it and
whether it is the newline. `head` and `tail` grow without bound and are reduced
modulo `Size`, as in the code (their 64-bit wrap is out of reach). Each handler
runs under the one lock and is one action. Events exist only when the
embedding model is configured (`ctx_init_mem`); a file opened otherwise stays
empty, which is the initial state.

### FileData and Versions

`FileData` is one file: `block` its `b:` records, `size` the cached size. A
write or a truncation is an `op` that takes one store call per step and may
fail or be cut off by a restart between any two. The VFS holds the inode's lock
during a change, so two changes of a file do not overlap. Every write writes its
own number, so a byte tells which write it came from; `content` is what POSIX
lets a reader see at each offset: the last write, zeros after a truncation, and
both the old and the new where a call failed or the process ended.

`Versions` EXTENDS it, so its behaviours are those of both. RELEASE is sent
after close returned and holds no lock of the VFS: version_snapshot of one
handle runs between the steps of a write, a truncation, an unlink, or another
handle's snapshot. Its places are its store calls: the size, the counter, get
and put of each block, the metadata, the counter again, and the pruning.
`image` and `expected` record what the file was when a snapshot began that
nothing overlapped; `upset` records that two of snapshot, unlink and restart
overlapped, which the code does not survive (see below).

Not in it: what holds the inode alive during the snapshot (`InodeCache`), a
failing store call inside version.c (ignored there, like the rest of its
results), the reading of versions beyond their length.

### VersionTree

`node` and `entry` are the hashes by_ino and by_parent, `nextVino` the counter;
0 stands for `AGENTFS_VERSIONS_INO` as a directory and, as in the code, for no
number. `Prefix` is what the key's 80 bytes keep of a name, and `Number` the
version a name spells. A handler reads the real entry, or the iterator's view of
a directory (`Lookup`, `Readdir`), and then takes vtree.lock for vtree_alloc
(`LookupReply`, `ReaddirEntry`): between the two the real tree may change, and
another thread may give the name a number. With `Faults` either calloc fails.
`known` are the numbers the kernel was told, which it may ask about at any time;
`named` records what every real directory ever had.

The real tree changes as a whole (`Create`, `Remove`, `Move`, `Link`,
`Snapshot`): `Namespace` and `Versions` look inside these. A look at the tree
finds their outcome only. getattr, opendir, open, read and release of virtual
inodes read a node and change no table, so they are no actions.

### LlmSession

A session is a file of lines of one length, in one block: `block` and `size` as
in `FileData`, `archive` the `m:a:` records. `fh[h]` is a user's open file with
the place and locals of kvbfs_write (get, put, size), `w` the worker with the
place and locals of process_session, file_append and file_overwrite: every
store call and every critical section is one action. `known` is the size the
kernel has cached for a second (`attr_timeout`): it sends an appended line
there, and is not told of lines the worker appends. The model succeeds, fails or
answers nothing; a summary succeeds or fails; with `PutFails` kv_put fails.

RELEASE submits a session also for a file that was only read (`ReleaseReader`):
the kernel adds O_LARGEFILE to the flags, which are then not O_RDONLY.
needs_response and parse_conversation are operators on lines; a hole in the
file reads as zeros, which end the conversation for the one and hide the last
line from the other. `hurt` records the sessions in which a write met the
worker's rewriting or a stale size, or in which a rewrite failed.

Not in it: unlinking a session, the session set and who is in it, memorizing
messages (`MemIndex`), O_TRUNC of a session (README.md:376 asks for `>>`), what the worker
does to memory that kvbfs_destroy freed.

### MemIndex

A file is at most one block: `data[f]`, a sequence of bytes of which the model
tells ordinary ones, newlines and zeros apart. `vec`, `txt`, `hdr` and `seq` are
the `m:v`, `m:t`, `m:h` and `m:seq` records; the vector of a text is the text
itself, so a vector stored under another text's number shows. `queue`, `asleep`,
`task` and `wpc` are the queue and its worker; `pc[t]` and `loc[t]` the place
and the locals of a caller. mem_index_file is `Release`, which reads the size,
`ReadContent`, the four deletions, and per chunk `CutChunk`, `PutNumber` and
`Enqueue`: each is one store call or one critical section. `MemorizeUser` and
`MemorizeAnswer` are the two calls of process_session. `Forget` is the deletion
by unlink, rmdir or rename. Embedding fails at will.

`ChunkEnd`, `NextPos` and `CString` are the arithmetic of the chunk loop;
`MemSearch` is the insertion sort of mem_search over the stored vectors, for a
score of each and an order of the iterator that the property ranges over.

`told` records what was queued since the last deletion, and `mixed` the files
whose index the code does not answer for: two calls overlapped, or a deletion or
a crash met queued tasks. A later indexing on its own clears the mark.

### KvNvme and KvStore

`up` and `down` are the two directions of the TCP connection, in parts: header,
key and value of a command, header and data of an answer. A part is sent or
received in one action; `got` and `out` are what the simulator has received of
a command and has still to send of an answer. The simulator serves connections
in turn (`served`), and keeps `table` from one to the next. `Break` loses the
connection with any of the answers on it, and what was on the way up;
`ProcessEnds` is an unmount or the death of the client; `KvOpen` the next mount,
which the simulator accepts only when it has finished with the last connection,
so commands of a dead client are still performed before it. `RecvInterrupted` is
a receive that returns EINTR, which recv_exact takes for a failure and leaves
the answer on the connection (`outOfStep`).

`KvStore` is a linearizable store with callers that may crash: a call takes
effect at one moment between its start and its return, at most once; one that
failed may take effect late (`limbo`), before any later call. The mapping
computes from the parts under way which result a call is going to have. The
other modules take a put, get or delete for one step: this is why they may.
After an interrupted receive a call may return the answer to another
(`trusted`), as cmd_id is sent and never compared.

### CfsDaemon

`file[s]` is the sequence of lines of a session, `sentinel` the set of sessions
with a sentinel file, `events` the inotify queue, `queue` and `unfinished` the
`gen_queue`. `main` is the place of the main thread, `worker` and `busy` those
of the worker, `client`, `session`, `mine` and `before` the place and locals of
send. A stop by signal, a crash at any point, and another run of the daemon are
actions. The backend always answers; an exception of it is an answer too. With
`Faults` the append of an answer fails.

`disturbed` records the clients in whose session somebody else wrote or deleted;
`missed` the sessions whose message nobody watched for; `stuck` the sentinels a
failing append left.

Not in it: stream(), MOVED_TO events (nothing moves files there), the trimming
of the prompt to the context.

## Runs

Fairness. In `LlmSession` it is weak fairness of the worker: a thread of its
own that waits for nothing but the queue, and takes each lock for one action. In
`MemIndex`, of the worker, of every call under way (a FUSE thread does not stop
inside a handler) and of mem_destroy once the worker has gone. In `KvNvme`, of
the client's call under way and of the simulator; nothing makes a broken
connection likely or unlikely. In `CfsDaemon`, of the two threads of a running
daemon; not of its start, nor of signals or crashes, nor of the clients. Nothing
is assumed of users anywhere, who may stop inside a write or never close a file.
The other runs use no fairness: their properties are safety properties.

`CHECK_DEADLOCK FALSE` stands in every configuration because the bounded
counters end every behaviour, and because a file system that nobody uses stops.

| run | instance | shows |
|---|---|---|
| `InodeCache` | 2 FUSE threads, 1 worker, 3 entries, inodes 1-2, failures | `MemorySafe`: no use after free, exact counts, one entry per inode, no leak; `NoNewRefToDeleted`, `DeletedStaysOffDisk` |
| `Superblock` | 1 creating thread, 6 numbers, 3 crashes | `ImplementsAllocator`, `WasteBound` |
| `Namespace` | 2 threads, 2 names, in four uses: renames, 4 inodes, one restart or crash; hard links, symlinks, blocks and attributes, 4 inodes; hard links without directories, 3 inodes, one restart or crash; renames and symlinks, 3 inodes, failing writes, one restart or crash (create and unlink in each, mkdir and rmdir in three) | `NamesInv` (names lead to inodes), `ParentsExist`, `NlinkExact`, `NoOrphans`, `RecordsOwned`, `Durable`, `OneName` |
| `EventRing` | 1 reader, ring of 5, lines of 2 and 3, reads of 1 and 4, 5 events | `RingInv` (whole lines are dropped), `ReadsInOrder`, `NoMissedWakeup` |
| `Versions` | 2 handles, 2 blocks of 2 bytes, 1 version kept, 3 changes, 3 opens, failing writes, 1 restart | `FilesInv` (a file reads as written), `VersionFaithful`, `KeepsLastVersions` |
| `VersionTree` | 2 threads, 3 inodes, 2 numbers, 2 names of one key and one that spells a number, 3 changes of the real tree, 1 version kept, failing callocs, 1 unmount | `TreeInv`, `NumbersStay` |
| `LlmSession` | 2 sessions, 2 writers, 1 poller, 2 messages, compression from 2 lines on, failures, an unmount | `SessionsInv` (no message is lost), `AnsweredOnce`, `Answered`, `PollersWoken` |
| `KvNvme` | 2 threads, 2 keys, a short value and one too long, 2 connections of 2 commands, 1 interrupted receive | `StreamInv`, `ImplementsStore`, `CallsReturn` |
| `MemIndex` | 1 file, 3 contents (chunks of 4 bytes, overlap 1), a FUSE thread and the inference worker, 2 calls, 1 crash | `ChunksCover`, `IndexFaithful`, `SearchRanks`, `DrainsFirst`, `Progress` |
| `CfsDaemon` | 2 clients, 1 session, 2 messages, 1 deletion, 2 runs of the daemon, failing appends | `SentinelInv`, `OneAnswerPerTurn`, `SendAnswered`, `Answered`, `StopsWhenDrained` |

Bounds. Two getters and a deleter of one inode are all the parties a race on an
entry can have; three entries are one published and two private ones, the most
three threads need for it. Six numbers and three crashes let the superblock be
lost and reloaded at every point of a creation and again after it. Four inodes
are the root, a directory, and a file or directory to move into it or to
replace: two directories below each other and a rename between them. Five
events of two or three bytes fill a ring of five more than twice, with lines
ending on and off the boundary; a reader can be overtaken twice. Two blocks of
two bytes are enough for a write across a boundary and one inside a block, and
for a truncation that ends on or off a boundary; three changes are a write, a
truncation and an extension or write over the gap. Three opens with one version
kept prune twice; two handles release at once. Two messages, with a
compression from two lines on, are a message that arrives in every phase of the
answer to the other one, in its session or the other, and one that is compressed
away before the next is answered; three messages in one session were checked
too, without the second session. Two commands on each of two connections are a
command that was given up, the next one on its connection, and the first ones of
the next process. A file of six bytes with chunks of four ends its first chunk
behind a newline at the very end of its room; two calls are an indexing and a
message, two indexings, or an indexing and a deletion, with a crash in between;
three stored vectors for two results make a search drop one. (`ChunksCover` is
proved for every content and chunk size.) Two messages of two clients in one
session are a second one in every phase of the answer to the first, and two runs
of the daemon a crash in each of them with the clean-up after it.

A directory with a file below it, the
file and its versions are the three levels of a virtual tree; two numbers are one
that is given and one that is given at the same time or lost to a failed calloc,
and three changes let a file be created, renamed away and replaced between two
looks (`VersionTreeProofs` needs none of these bounds).

Every property has a mutant in `PROJECT.json`: a plausible mistake in the code
(a missing second look, a count that is not taken, an emptiness check skipped)
under which TLC finds it violated.

## What does not hold

Two runs show the code disagreeing with what the repository says of it:

- `InodeCacheSync`: no handler marks an inode dirty, so inode_sync and the
  flush at unmount save nothing: size, blocks, nlink, mode and times stay as
  inode_create stored them, and a file is empty after a remount.
- `VersionTreeStale`: the version tree keeps the number a name was given first.
  When the file is renamed away or deleted and another takes its name,
  `/.versions/<name>/` lists the versions of the former one, or none, until the
  unmount.

Further limits appear as preconditions of the properties and the theorems, and
each is needed; without it TLC finds a counterexample within seconds:

- `MemorySafe` speaks of the mounted phase: kvbfs_destroy clears the cache
  before ctx_destroy joins the workers, and a worker may hold an entry.
- `WasteBound` and `ImplementsAllocator` are about one creating thread: with two,
  a crash wastes two numbers, and a stale superblock may be written last. Thread
  A copies next_ino = 3, B allocates, writes next_ino = 4 and stores its inode 3,
  A writes 3 over it; after a crash inode 3 is issued again
  (docs/plans/2026-02-02-kvbfs-design.md:51 calls the stored number the next
  usable one).
- Rename over one name of a hard-linked file deletes the inode under the other
  name: `NamesInv` asks nothing of names where both are used.
- A crash between super_save and super_create_root leaves a store whose next
  mount finds a superblock and never creates the root; no property says the
  root exists.
- A failing kv_get of the superblock is taken for a missing one, and next_ino
  starts again from 2: `ImplementsAllocator` assumes calls of the store succeed.
- A restart resets nlink and blocks: `NlinkExact` and `RecordsOwned` hold until
  the first one, and without failing calls. A file with two links that is unlinked
  once after a restart is deleted under its other name: with hard links `NamesInv`
  asks nothing of names after the first restart or crash.
- A failed rename has already deleted its target (`Durable` excludes the two
  entries of a failed rename), and ignores a failed removal of the target's
  name (`NamesInv` asks nothing of names where renames may fail).
- The poll slot of `/.events` holds one handle: with two pollers the first is
  forgotten (`NoMissedWakeup` is checked with one reader).
- A reader of `/.events` that is overtaken inside a line continues at another
  line's start: it gets bytes in order (`ReadsInOrder`), not whole lines.
- A write or setxattr on a file that is open and unlinked stores records under
  an inode that is gone: `RecordsOwned` is about files that have a name.

- A deletion between the load and the publication of inode_get puts the deleted
  inode back in the cache, where it stays until unmount: `DeletedStaysOffDisk`
  speaks of the store, `NoNewRefToDeleted` of entries that are marked.
- rename removes the old name before it stores the new one: a crash in between
  leaves an inode without a name, so no property asks for a name after a crash.
- Snapshots that overlap each other take the same number, one that is overtaken
  by unlink leaves versions of a file that is gone, and a crash between the
  counter and the pruning leaves one version too many for good:
  `KeepsLastVersions` asks for `~upset`.
- A snapshot reads a file without a lock: overlapped by a write it mixes old and
  new blocks. `VersionFaithful` speaks of snapshots that were not.
- kvbfs_read of a version takes no notice of the version's size: it returns
  whole blocks, with the zeros that pad the last one, and ends at the first hole
  of a sparse file. A copy made from `/.versions` is longer than the file was
  (docs/plans/2026-02-19-versions-virtual-directory-design.md:124 expects it to
  be the same).
- A version left unfinished by a crash is written over, not cleaned: its blocks
  show through the holes of the next version with this number.

- A message written to a session while the worker rewrites it or appends to it
  is lost, or cuts off the answer; so is one that the kernel sends to a size it
  cached before an answer; a kv_put that fails inside a compression loses the
  recent messages. `SessionsInv` excludes such sessions (`hurt`).
- A message written while the previous one is being answered is followed by
  that answer and never answered itself: needs_response looks at the last line
  only. `Answered` speaks of the last line.
- A poller that registers after llm_gen_finish, having looked before it, and
  one that finds all 16 places taken are answered "not ready" and not woken:
  `PollersWoken` speaks of those registered while the session is generating.
- At unmount the queue is drained, but kvbfs_destroy has dropped the cached
  sizes, which were never saved: the remaining sessions read as empty and are
  not answered.
- A session file replaced by a rename stays in session_set, and its number is
  never removed from it.

- Tasks that are queued when their file is indexed again, or unlinked, are stored
  after the deletion: a new chunk is overwritten by an old one of its number, or
  embeddings of a file that is gone stay. mem_next_seq is not atomic: a message
  memorized while a file is indexed may take a chunk's number. `IndexFaithful`
  excludes the files where that happened (`mixed`).
- A file truncated to nothing, or turned binary, keeps its old embeddings:
  mem_index_file returns before it deletes them. `IndexFaithful` compares with
  what was queued last, not with the file.
- Text behind a zero byte beyond the probe is not indexed: strdup ends at it.
  `ChunksCover` is about text.
- A message memorized after mem_destroy began is queued for a worker that has
  gone, or after it meets a destroyed mutex: `DrainsFirst` and `Progress` exclude
  it.
- A search result whose text is missing shows the summary of another one.
  `SearchRanks` is about results with a text.
- README.md:253-257 says that the attribute agentfs.noindex keeps a file out of
  the index, but setxattr refuses names that begin with "agentfs."
  (`src/fuse_ops.c:2215`).

- recv_exact takes EINTR for a lost connection and leaves the answer where the
  next command reads it for its own: the modules that use the store assume that
  no signal interrupts a receive.
- A value longer than the simulator accepts ends the connection, and every later
  call of this mount fails.

- A message written while the daemon generates lands before the answer, and is
  never answered: needs_response compares the last lines. One written while no
  daemon watches is not answered until the next one (`missed`).
- A client that takes the size after the answer is there already sees no growth
  and waits until its timeout; `SendAnswered` is about those that return. In a
  session with two clients, one may be told of the answer to the other.
- At shutdown the worker takes no further task while gen_queue.join() waits for
  all of them: with tasks in the queue the daemon hangs, unlike
  `StopsWhenDrained` with an empty one.
- An append that fails leaves its sentinel until the next start; a crash between
  the answer and the removal of its sentinel makes the next daemon append an
  error behind the answer; an answer to a deleted session creates its file anew.

- Two names in one virtual directory that differ only behind the 80 bytes of the
  key share a number: `TreeInv` asks that a node belongs to a name of the same
  key.
- A number whose calloc failed in readdir is listed as inode 0; in lookup the
  answer is ENOMEM. Neither is in the tables.
- Without `-f`, fuse_daemonize forks after the worker threads were started
  (`src/main.c:152`): nobody serves their queues. The modules model a process
  that runs in the foreground.

## Proofs

The eight modules `InodeCacheProofs`, `SharedStateProofs`, `NamespaceProofs`,
`VersionsProofs`, `VersionTreeProofs`, `MemIndexProofs`, `KvNvmeProofs` and
`CfsDaemonProofs` hold the theorems below. tlapm checks them for all values of the
constants, under the assumptions each modelling module states on its constants
(finite sets of threads, names and files, no line longer than the ring, the FUSE
threads and the workers two disjoint sets, ...).

`InodeCacheProofs`. `TypeCorrect` is first. `CacheInvariant` is the core: the
four memory properties are not inductive, because whether a count is exact
depends on who may hold an entry that is not in the hash yet. `MountedInv` adds
that every reference is to a hashed entry or to the one entry a thread is about
to publish (`RefsInv`, `PrivateInv`), that a thread asking for an inode does not
hold it already (`LocalsInv`), that a number in creation is nobody else's
(`NumbersInv`), and that an entry marked deleted has a holder who will free it
(`OwnedInv`). The proof has a step per action and lemmas on how a reference
changes the set of holders and its cardinality. `MemorySafety` derives `MemorySafe`, which is
`NoUseAfterFree`, `RefcountExact`, `OneEntryPerInode` and `NoLeak`;
`DeletedIsFinal` derives the action property `NoNewRefToDeleted`.
`DeletedStaysDeleted` is about every phase, the two flushes at shutdown
included: it adds `SaveInv`, that the only dirty entry is one in creation, so
that inode_sync and the flushes find nothing to write, and takes from
`CacheInvariant` that a number in creation is not one that was deleted. All hold
with failures.

`SharedStateProofs`, of `Superblock`. `FlightCorrect` (distinct numbers in flight) needs no
assumption on failures: numbers are taken under the lock and are below `next`.
`InvCorrect`, `NumbersFresh` and `Implements` assume `Benign`: no call of the
store fails, and either one thread creates inodes or nothing crashes. That is
as far as the code goes: see the stale superblock above. The
invariant `AllocInv` relates the numbers in flight, the copies on their way to
the store, what the store would bring back after a crash, and the numbers
already used. `WasteBounded` proves under the same assumption what the comment
at `src/inode.c:16` says of a crash: only a crash turns numbers in flight into
lost ones, and the single creator has at most one. The proof follows the set
`Wasted` through each action and bounds its cardinality.

`SharedStateProofs`, of `EventRing`. The invariant `IndInv` says that the log of emitted bytes is
in order and that a line begins only behind a newline (`LogInv`); that the ring
holds the window between the cursors, byte for byte, and starts with a whole line
(`Whole`); and for each reader (`ReadInv`) that what it got begins and ends
between its open and its position, is ordered, and is exactly the log between the
two unless it was overtaken. The step of events_emit is the hard one: it
needs that two positions less than `Size` apart never share a slot, which is
proved from the definition of `%`, and that the skip to the next newline ends at
the first line start not overwritten, which takes the least such position. The
state after it is written with operators of the unprimed variables (`NewRing`,
`NewLog`, ...), each with its lemmas. `RingCorrect` and `ReadsCorrect` need
nothing on the number of readers; `WakeupsCorrect` assumes one reader, because
the poll handle is one for the whole ring (see `PollersWoken`).

`SharedStateProofs`, of `LlmSession`. `SessionsInv` says of a session at rest that no
message written to it is lost. In between, a message is in the block, behind the
size, in what the worker has read, in the rewritten text it carries, or in the
block it is about to put. `SessionInd` says how these agree, for every session that
nothing has hurt (`Sound`): the text has no hole but while it is rewritten
(`TextShape`); a worker that will rewrite has read the session as it is now, and
what it read ends with a message to answer (`ReadShape`, `ChosenShape`); the text it
carries is the summary, the recent lines and that message (`DataShape`); a worker
that appends, and a user that writes, hold the block and the size as they are, and a
half-done append is what they will make of it (`PutShape`, `WriteShape`); and every
message is in the archive, in the text, or in the text to come (`KeepInv`). That
old and recent lines together are all lines is proved of `Split`, and of `Picked`,
the recursive function behind parse_conversation, by the least place at which it
would fail (`PickedSound`).

`AnsweredOnce` is in the same invariant: a message the worker may still answer
(`Due`), be it at the end of the text, of what was read or of the rewritten text,
has no answer yet. That needs that a message belongs to one session (`OwnInv`:
otherwise the answer of one session would count in the other), that a session is
queued once, and that the rewritten text ends with the last line of the text it
replaces (`SummaryAndRecent`). Each step is shown to keep the types and the worker's record
(`StepSettled`), `OwnInv` (`StepOwn`) and `SoundInv` (`StepSound`); for the sessions
the step does not touch, `SoundNext` does the last of these once. `SessionsKeep` and
`AnswersOnce` hold for any sessions, users, pollers, messages, lines, threshold and
number of waiters, and with failing summaries, answers and puts. They say nothing of
a session that was hurt: see "What does not hold". TLC has checked `SessionInd` as
an invariant of the configuration `LlmSession.cfg`, without pollers and with files
of six lines.

`VersionTreeProofs`. `TreeInv` is not inductive: that a number given now belongs
below its directory depends on what the handler found earlier. `IndInv` adds that
every real entry was noted in `named` (`NamedInv`), that a number not yet given
out has no node (`FreshInv`), and that what a handler under way has still to give
a number belongs into its directory (`CallInv`). It is kept because nothing
removes a node or a note: `DirectoryKept` carries a whole directory over a step
that only adds, `AllocFacts` says that vtree_alloc is one. `TreeCorrect` and
`NumbersKept` hold for any threads, names, key lengths and failing allocations.

`CfsDaemonProofs`. `IndInv` joins the types with the exact value of
`unfinished`; that before the watch all sentinels are the stale ones and later
none is stale (`StaleInv`); that from its check of the last line to its append
the worker's session does not end in an answer (`AnswerInv`: only the worker
writes answers, so the check stays true while clients append); and where the
message of an undisturbed client stands in its file, with nothing but the
daemon's lines behind it (`ClientInv`). `SentinelsCorrect`, `AnswersCorrect` and
`SendsCorrect` follow, for any number of clients, sessions, messages, failed
appends and runs of the daemon.

`MemIndexProofs`. Six theorems. The inductive invariant `IndInv` has seven parts:
the types of the callers' places and locals (`TypeInv`); where the chunk loop stands
(`ChunkInv`: what is covered is everything before the end of the last chunk, and
the next one starts no later than that); the stored records (`StoreInv`, and
`FiniteInv`: each file has finitely many); the queue and the worker (`QueueInv`);
that a worker that left has seen the shutdown flag and an empty queue (`ExitInv`);
and the index of a file that no two calls worked on at once (`FaithInv`). The
lemmas on `ChunkEnd` and `CString` need that a non-empty set of numbers has a least
and a greatest element, which follows from the well-foundedness of `<` on the
naturals; with them `ChunksCorrect` shows for any content, chunk size and overlap of
at most half a chunk that the loop skips no byte. `DrainsCorrect` shows that every
task left behind was queued after mem_destroy began.

`IndexCorrect` is about many tasks in flight: `IndexFaithful` only speaks of files at
which nothing is at work. `FileInv` says what holds in between: one call at most is
at work on the file (`Alone`); a deletion meets no task of it and leaves behind it
what it is through with empty (`Emptied`); the counter is the number of texts
queued, and the number a caller is about to use is the next one (`Numbered`); every
task, queued or in the worker's hand, is one of these texts and no two are the same
(`Tasked`); and vectors, texts and headers are exactly those of the texts that are
past that stage of the worker (`Stored`). While embeddings are being deleted only the
first two hold, and the deletion of the counter establishes the others. A crash marks
every file with a task or a call as `mixed`, until it is next indexed on its own, and
finds the index of the others complete. TLC has checked `IndInv` as an invariant of the configuration
`MemIndex.cfg`, and with two files and two FUSE threads.

`SearchCorrect` states what `SearchRanks` checks for `TopK + 1` vectors and three
scores for any number of vectors and any scores; `SearchBoundedCorrect` derives
`SearchRanks`. Its core is the lemma `RankStep`: if the results are the best of the
first n vectors (`Ranked`), then after the insertion of the next one they are the
best of the first n + 1, whether there was room, the last result was dropped, or
nothing was inserted. The loop of mem_search is a recursive function; that there is
one (`LoopExists`) and that it stays `Ranked` is shown by the least number at which
it would fail, instead of an induction. It is used that `Files` is finite, as inode
numbers are: every search sees a finite number of vectors.

`NamespaceProofs`. Seven theorems, for any threads, names, requests and numbers of
inodes, with failing calls, restarts and crashes. `IndInv` says that a thread has
locked the directories of its entries and that no other thread has (`LockInv`), and
what the entries of a request hold at each place of its handler (`Stage`): so a
step changes entries of its own thread only, and `AcknowledgedStays` derives
`Durable`. `NameInv` adds that an inode which is to get a name has none yet, is
nobody else's, and is below the next number; rename gets there by removing the
old name first: `NamesUnique` derives `OneName`. `ParentInv` is what `ParentsStay`
needs for `ParentsExist`: an inode that is removed or replaced is locked and empty
(`WorkInv`), so that nobody can make a name in it meanwhile, and nobody has an
entry in an inode that has no name yet (`FreshInv`), which an error path may
delete. The locks are the kernel's: `Grant` is the assumption all of this rests on.

The other four are about names and counts. `NlinkExact` and `NoOrphans` speak of
the moments when no request is at work, and say nothing inductive about the rest:
a new name is stored before or after it is counted, depending on the handler. `due`
gives every slot what the counts owe it at each place of each handler: the new
inode before its name is stored, the removed one until nlink goes down, nothing
while a link is stored but not counted, and the moved inode under the old name until
both parents are counted. Of `due`, unlike of `dirent`, the invariant `Links` holds
at every step: an inode that can have one name is owed one slot at most
(`UniqueInv`), one about to be deleted none (`GoneInv`), what a slot is owed is
there (`AliveInv`), an inode that is there is owed a slot or about to be deleted
(`OrphanInv`), nlink of a file is the number of slots owed it (`UpperInv` needs no
crash, `LowerInv` no mount), nlink of a directory counts those in it (`SubsInv`).
`WorksInv` and `AloneInv` are what each request relies on. A step does to `due` one
of a few things, each with a lemma on `Links` (`LosesLinks`, `MakesLinks`,
`MovesLinks`, ...); the steps of the handlers are then shown to be one of these. A
crash is the hard case: `due` falls back to `dirent`, and between the two names of
a rename `UniqueInv` is what keeps one of them (`CrashLinks`).

`LinkInv` is proved for stores on which a rename does not fail (`Clean`): its handler
ignores what dirent_remove returns, and the count is then wrong for good (see "What does not hold").
Each property is stated under conditions that imply `Clean`, so the theorems
`NamesLead`, `InodesReached`, `LinksCounted` and `RecordsBelong` have no further
hypothesis; the types in `NamesInv` hold without any. `RecordInv` is separate: blocks
and attributes are those of inodes that are there, and an inode about to be deleted
has none left. The cardinalities need that `Names` is finite, which it is: a name is
part of a key of at most KVBFS_KEY_MAX bytes (`src/kvbfs.h:30`). TLC has checked
`IndInv`, `ParentInv` and `CountInv`, the conjunction of the last three, as
invariants of the configuration `Namespace.cfg`.

`VersionsProofs`. Three theorems, for any block size, ranges written, sizes and
number of versions kept. `ContentInv` says of every byte of a file how far the
running change has got with it (`Writing`, `Truncating`, `Removing`), and that
whatever lies past the end may read as zero (`ZerosPast`): the arithmetic is that
of offsets, blocks and the one block a truncation keeps a part of (`CutOff`). With
`CountInv`, by which every version to come has an open of its own, `FilesSound`
derives `FilesInv`. `CopyInv` is what a snapshot has copied, if its image is still
known: it is then the only one, and its version was empty when it began. `KeptInv`
says that after a version that is right only later ones are made, and that blocks
are deleted only of versions that are not listed; `VersionsAreFaithful` derives
`VersionFaithful`. `StoredInv` gives for each place in version_snapshot and
version_delete_all what is stored, as long as `~upset`; `LastVersionsKept` derives
`KeepsLastVersions`.

`KvNvmeProofs`. Three theorems, for any threads, keys, values, prefixes, connections
and commands; the one assumption on the data is that what stands for no data is
not a value or a listing. `IndInv` says what may be in each pipe. `LockInv`: one
thread holds send_lock, and its command has the last number given. `PipeInv`: the
parts that the simulator has received of a command, followed by those on their way
up, are a chain, in which a part follows the one before it or starts a command
after a whole one or on a new connection, and in which the holder of send_lock has
got as far as `sent` says. `GotInv`: what was received is of one command, of the
connection that is served. `FlowInv`: answers come in the order of the commands and
before those of whatever is still in the pipe, a header before its data. `StepInv`:
without an interrupted receive all of this is of the current command. `InvHolds`
proves it inductive, a lemma per action; a lost connection is the hard case, because
it cuts out of the pipe the parts of one connection and may cut an answer anywhere:
`Only`, the loop that does so, is a recursive function, and what it leaves of a
sequence, of its parts and of a sequence extended by one is shown by the least
length at which it would not be so (`OnlyConcat`, `OnlyFront`, `OnlyRear`, ...).
`StreamCorrect` derives `StreamInv`.

`StoreImplemented` is the refinement: `Spec => ImplementsStore`, without further
hypotheses. Two things are computed from a state and have to be followed through
each step. The result of a call: `ResultKnown` says that it is that of the one last
part of an answer to it in the flow, or failure if the connection is lost. The
requests nobody waits for: `LimboSent` and its companions say what becomes of them
when parts are sent, received or lost. Then each action is a step of `KvStore`:
CmdDispatch is `Perform` for a command that is waited for and `PerformLate` for
another one, which is then the first in limbo; HangUp and Break are `Lose`; a return
is `Return` or, interrupted, `Interrupt`; ProcessEnds is `Crash`; sending, accepting
and receiving a part are stutters. `RetInv` is needed for one detail: no call
returns what stands for a call that has not returned.

Every property of a passing run but the liveness ones is that of a theorem, some
under the hypotheses named above. Out of the prover's reach and left to TLC:
liveness under fairness (`Answered`, `PollersWoken`, `Progress`, `CallsReturn`,
`StopsWhenDrained`) and ENABLED, and recursive operators; where the proofs need a recursion over data, it is a recursive
function and the argument a least counterexample.

## Not modelled

The session set: a table under one lock with one critical section per operation;
its defect is named above. Within the modelled
parts: a malloc that fails in the client between the header and the data of an
answer, a send that is cut off while the connection lives, the end of the
simulator, which loses its table; files of more than one block in `MemIndex`,
read while they are written; stream() of the client; a superblock with a wrong
magic number; the flags of rename.

Left out on purpose: the embedding and language models (external libraries), the
MCP server, backends and scripts (adapters without state), option parsing, key
formatting, `uthash.h` (vendored), and the RocksDB calls themselves, whose
effect every module assumes: a single put or delete is atomic and survives the
death of the process.

## Running

    tlc -workers 2 -config InodeCache.cfg MCInodeCache.tla
    tlc -workers 2 -config Superblock.cfg MCSuperblock.tla
    tlc -workers 2 -config Namespace.cfg MCNamespace.tla
    tlc -workers 2 -config EventRing.cfg EventRing.tla
    tlc -workers 2 -config Versions.cfg MCVersions.tla
    tlc -workers 2 -config VersionTree.cfg MCVersionTree.tla
    tlc -workers 2 -config LlmSession.cfg LlmSession.tla
    tlc -workers 2 -config KvNvme.cfg KvNvme.tla
    tlc -workers 2 -config MemIndex.cfg MCMemIndex.tla
    tlc -workers 2 -config CfsDaemon.cfg CfsDaemon.tla
    tlapm InodeCacheProofs.tla
    tlapm SharedStateProofs.tla
    tlapm NamespaceProofs.tla
    tlapm VersionsProofs.tla
    tlapm VersionTreeProofs.tla
    tlapm MemIndexProofs.tla
    tlapm KvNvmeProofs.tla
    tlapm CfsDaemonProofs.tla

The module of each configuration is in `PROJECT.json`. `Namespace`,
`Versions`, `VersionTree`, `LlmSession`, `KvNvme`, `MemIndex` and `CfsDaemon` take
one to two minutes, the other runs seconds; the proofs about a minute or less each,
those about `Namespace` three and those of `SharedStateProofs` and about `KvNvme`
five.
