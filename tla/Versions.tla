------------------------------ MODULE Versions ------------------------------
(***************************************************************************)
(* The versions of one file: src/src/version.c over the file's contents    *)
(* (module FileData), called by kvbfs_release and kvbfs_unlink.            *)
(*                                                                         *)
(* The kernel does not wait for a RELEASE: a snapshot runs while others    *)
(* write, truncate, close or unlink the same file, and takes no lock but   *)
(* for the moment it reads the size.  One action is one store call.  The   *)
(* results of the calls in version.c are ignored by the code; Faults is    *)
(* about those of FileData only.                                           *)
(***************************************************************************)
EXTENDS FileData

CONSTANTS
  Handles,     \* file handles, each open at most once at a time
  Writes,      \* the ranges <<from, to>> users write
  Sizes,       \* the sizes users truncate or extend the file to
  MaxVersions, \* KVBFS_MAX_VERSIONS
  MaxOpens,    \* bound: opens
  MaxRestarts  \* bound: restarts of the process

ASSUME VersionsAssumption ==
  /\ IsFiniteSet(Handles) /\ NULL \notin Handles
  /\ Writes \subseteq {r \in Offsets \X (1 .. MaxBlocks * BlockSize) : r[1] < r[2]}
  /\ Sizes \subseteq 0 .. MaxBlocks * BlockSize
  /\ MaxVersions \in Nat \ {0}
  /\ MaxOpens \in Nat
  /\ MaxRestarts \in Nat

VARIABLES
  state,    \* "live", "unlinking", "gone", or "lost": unlinked before a restart
  pc,       \* Handles -> where its release is
  written,  \* the handles with fh->written
  counter,  \* the vc: record, 0: none
  vmeta,    \* the vm: records: Numbers -> size, or NULL
  vblock,   \* the vb: records: Numbers -> Blocks -> bytes, or NULL
  sz, ver, idx, buf, \* Handles -> the locals of version_snapshot
  opens, restarts,   \* the bounded counters
  image,    \* history: Handles -> the file when its snapshot began, NULL once
            \* a change of the file or another snapshot has overlapped it
  expected, \* history: Numbers -> the image it is a version of, or NULL
  upset     \* history: two of snapshot, unlink and restart have overlapped

snapVars == <<pc, written, sz, ver, idx, buf>>
versVars == <<counter, vmeta, vblock>>
histVars == <<image, expected, upset>>
vars == <<dataVars, state, snapVars, versVars, opens, restarts, histVars>>

Numbers == 0 .. MaxOpens - 1
None    == [b \in Blocks |-> NULL]
Unknown == [h \in Handles |-> NULL]

Snapshotting(h) == pc[h] \notin {"closed", "open"}
Busy == \E h \in Handles : Snapshotting(h)

\* What op may be besides NULL.
Changes == [kind : {"write", "truncate", "unlink", "deleteall"}, by : Handles \cup {NULL},
            from : Nat, to : Nat, next : Nat, failed : BOOLEAN]

ASSUME ChangesAssumption == NULL \notin Changes

-----------------------------------------------------------------------------
(* Users.  A change that starts spoils the image of running snapshots.     *)

Open(h) ==
  /\ pc[h] = "closed" /\ state = "live" /\ opens < MaxOpens
  /\ pc'      = [pc EXCEPT ![h] = "open"]
  /\ opens'   = opens + 1
  /\ UNCHANGED <<dataVars, state, written, sz, ver, idx, buf, versVars, restarts, histVars>>

\* kvbfs_open with O_TRUNC; the rest of it is TruncateBlock and TruncateSize.
OpenTrunc(h) ==
  /\ pc[h] = "closed" /\ state = "live" /\ opens < MaxOpens
  /\ \/ TruncateStart(h, 0)
     \/ op = NULL /\ size = 0 /\ Change /\ UNCHANGED <<block, size, op, content>>
  /\ pc'      = [pc EXCEPT ![h] = "open"]
  /\ written' = written \cup {h}
  /\ opens'   = opens + 1
  /\ image'   = Unknown
  /\ UNCHANGED <<state, sz, ver, idx, buf, versVars, restarts, expected, upset>>

Write(h, range) ==
  /\ pc[h] = "open" /\ state = "live"
  /\ WriteStart(h, range[1], range[2])
  /\ written' = written \cup {h}
  /\ image'   = Unknown
  /\ UNCHANGED <<state, pc, sz, ver, idx, buf, versVars, opens, restarts, expected, upset>>

SetSize(n) ==
  /\ state = "live"
  /\ TruncateStart(NULL, n) \/ Extend(n)
  /\ image' = Unknown
  /\ UNCHANGED <<state, snapVars, versVars, opens, restarts, expected, upset>>

ChangeStep ==
  /\ \/ \E ok \in Results : WriteBlock(ok) \/ TruncateBlock(ok) \/ TruncateSize(ok)
     \/ WriteSize
  /\ UNCHANGED <<state, snapVars, versVars, opens, restarts, histVars>>

\* kvbfs_release: the last close of h.
Release(h) ==
  /\ pc[h] = "open"
  /\ ~(op # NULL /\ op.by = h)
  /\ pc' = [pc EXCEPT ![h] = IF h \in written THEN "size" ELSE "closed"]
  /\ UNCHANGED <<dataVars, state, written, sz, ver, idx, buf, versVars, opens, restarts, histVars>>

-----------------------------------------------------------------------------
(* version_snapshot                                                        *)

GoTo(h, place) ==
  /\ pc' = [pc EXCEPT ![h] = place]
  /\ UNCHANGED <<written, sz, ver>>

\* The handle and the locals are gone.
Finish(h) ==
  /\ pc'      = [pc EXCEPT ![h] = "closed"]
  /\ written' = written \ {h}
  /\ sz'      = [sz EXCEPT ![h] = 0]
  /\ ver'     = [ver EXCEPT ![h] = 0]
  /\ idx'     = [idx EXCEPT ![h] = 0]

\* inode_get fails when the file is gone; empty files are skipped.
SnapshotSize(h) ==
  LET alone == \A x \in Handles \ {h} : pc[x] \in {"closed", "open", "size"} IN
  /\ pc[h] = "size"
  /\ ~Running("truncate")    \* which holds the inode's lock
  /\ \/ /\ state = "gone" \/ size = 0
        /\ Finish(h)
        /\ UNCHANGED <<image, upset>>
     \/ /\ state # "gone" /\ size > 0
        /\ pc' = [pc EXCEPT ![h] = "counter"]
        /\ sz' = [sz EXCEPT ![h] = size]
        /\ image' = IF op = NULL /\ alone
                    THEN [Unknown EXCEPT ![h] = [o \in 0 .. size - 1 |-> FileByte(o)]]
                    ELSE Unknown
        /\ upset' = (upset \/ ~alone \/ state = "unlinking")
        /\ UNCHANGED <<written, ver, idx>>
  /\ UNCHANGED <<dataVars, state, buf, versVars, opens, restarts, expected>>

\* A version that a crash left unfinished is written over, not cleaned.
SnapshotCounter(h) ==
  /\ pc[h] = "counter"
  /\ pc'    = [pc EXCEPT ![h] = "get"]
  /\ ver'   = [ver EXCEPT ![h] = counter]
  /\ image' = IF vblock[counter] = None THEN image ELSE Unknown
  /\ UNCHANGED <<dataVars, state, written, sz, idx, buf, versVars, opens, restarts, expected, upset>>

\* The blocks of a file of n bytes that are copied.
AllButLast(n) == n \div BlockSize
Copied(n)     == BlocksOf(n)

\* kv_get of the next block; a missing one is skipped.
SnapshotGet(h) ==
  /\ pc[h] = "get"
  /\ \/ /\ idx[h] = Copied(sz[h])
        /\ GoTo(h, "meta")
        /\ UNCHANGED <<idx, buf>>
     \/ /\ idx[h] < Copied(sz[h]) /\ block[idx[h]] = NULL
        /\ idx' = [idx EXCEPT ![h] = @ + 1]
        /\ UNCHANGED <<pc, written, sz, ver, buf>>
     \/ /\ idx[h] < Copied(sz[h]) /\ block[idx[h]] # NULL
        /\ GoTo(h, "put")
        /\ buf' = [buf EXCEPT ![h] = block[idx[h]]]
        /\ UNCHANGED idx
  /\ UNCHANGED <<dataVars, state, versVars, opens, restarts, histVars>>

SnapshotPut(h) ==
  /\ pc[h] = "put"
  /\ GoTo(h, "get")
  /\ vblock' = [vblock EXCEPT ![ver[h]][idx[h]] = buf[h]]
  /\ idx'    = [idx EXCEPT ![h] = @ + 1]
  /\ buf'    = [buf EXCEPT ![h] = NULL]
  /\ UNCHANGED <<dataVars, state, counter, vmeta, opens, restarts, histVars>>

SnapshotMeta(h) ==
  /\ pc[h] = "meta"
  /\ GoTo(h, "count")
  /\ vmeta'    = [vmeta EXCEPT ![ver[h]] = sz[h]]
  /\ expected' = [expected EXCEPT ![ver[h]] = NULL]
  /\ UNCHANGED <<dataVars, state, idx, buf, counter, vblock, opens, restarts, image, upset>>

\* The version to prune when version v has been added: the one that is not
\* among the last MaxVersions any more.
TooMany(v)    == v > MaxVersions
OverLimit(v)  == v + 1 > MaxVersions
Oldest(v)     == v - MaxVersions

SnapshotCount(h) ==
  /\ pc[h] = "count"
  /\ counter' = ver[h] + 1
  /\ \/ OverLimit(ver[h]) /\ GoTo(h, "prune") /\ UNCHANGED idx
     \/ ~OverLimit(ver[h]) /\ Finish(h)
  /\ expected' = [expected EXCEPT ![ver[h]] = image[h]]
  /\ UNCHANGED <<dataVars, state, buf, vmeta, vblock, opens, restarts, image, upset>>

\* version_delete_one: the metadata first, then what blocks there are.
DeleteMeta(v)     == vmeta' = [vmeta EXCEPT ![v] = NULL] /\ UNCHANGED vblock
DeleteBlock(v, b) == vblock' = [vblock EXCEPT ![v][b] = NULL] /\ UNCHANGED vmeta

Prune(h) ==
  /\ pc[h] = "prune"
  /\ GoTo(h, "pruneblocks")
  /\ DeleteMeta(Oldest(ver[h]))
  /\ UNCHANGED <<dataVars, state, idx, buf, counter, opens, restarts, histVars>>

PruneBlocks(h) ==
  LET v == Oldest(ver[h]) IN
  /\ pc[h] = "pruneblocks"
  /\ \/ \E b \in Blocks : vblock[v][b] # NULL /\ DeleteBlock(v, b)
        /\ UNCHANGED <<pc, written, sz, ver, idx>>
     \/ vblock[v] = None /\ Finish(h) /\ UNCHANGED <<vmeta, vblock>>
  /\ UNCHANGED <<dataVars, state, buf, counter, opens, restarts, histVars>>

-----------------------------------------------------------------------------
(* The part of kvbfs_unlink after the last name was removed:               *)
(* delete_file_blocks, version_delete_all, inode_delete.                   *)

UnlinkStart ==
  /\ state = "live" /\ op = NULL
  /\ state' = "unlinking"
  /\ op'    = [kind |-> "unlink", by |-> NULL, from |-> 0, to |-> BlocksOf(size),
               next |-> 0, failed |-> FALSE]
  /\ image' = Unknown
  /\ upset' = (upset \/ \E h \in Handles : pc[h] \notin {"closed", "open", "size"})
  /\ UNCHANGED <<block, size, stamp, content, snapVars, versVars, opens, restarts, expected>>

UnlinkBlock ==
  /\ Running("unlink") /\ op.next < op.to
  /\ block' = [block EXCEPT ![op.next] = NULL]
  /\ op'    = [op EXCEPT !.next = @ + 1]
  /\ UNCHANGED <<size, stamp, content, state, snapVars, versVars, opens, restarts, histVars>>

\* The first version version_delete_all looks at when the counter is c.
First(c) == IF c > MaxVersions THEN c - MaxVersions ELSE 0

\* Afterwards op.next is the version to delete and op.to the end.
UnlinkCounter ==
  /\ Running("unlink") /\ op.next = op.to
  /\ op' = [op EXCEPT !.kind = "deleteall", !.next = First(counter), !.to = counter]
  /\ counter' = 0
  /\ UNCHANGED <<block, size, stamp, content, state, snapVars, vmeta, vblock, opens, restarts, histVars>>

UnlinkVersion ==
  /\ Running("deleteall") /\ op.next < op.to
  /\ \/ vmeta[op.next] # NULL /\ DeleteMeta(op.next) /\ UNCHANGED op
     \/ /\ vmeta[op.next] = NULL
        /\ \E b \in Blocks : vblock[op.next][b] # NULL /\ DeleteBlock(op.next, b)
        /\ UNCHANGED op
     \/ /\ vmeta[op.next] = NULL /\ vblock[op.next] = None
        /\ op' = [op EXCEPT !.next = @ + 1]
        /\ UNCHANGED <<vmeta, vblock>>
  /\ UNCHANGED <<block, size, stamp, content, state, snapVars, counter, opens, restarts, histVars>>

UnlinkInode ==
  /\ Running("deleteall") /\ op.next = op.to
  /\ state' = "gone"
  /\ op'    = NULL
  /\ size'  = 0             \* the cached inode goes too
  /\ UNCHANGED <<block, stamp, content, snapVars, versVars, opens, restarts, histVars>>

-----------------------------------------------------------------------------
Remount ==
  /\ restarts < MaxRestarts
  /\ restarts' = restarts + 1
  /\ Restart
  /\ state'   = IF state = "unlinking" THEN "lost" ELSE state
  /\ pc'      = [h \in Handles |-> "closed"]
  /\ written' = {}
  /\ sz'  = [h \in Handles |-> 0]
  /\ ver' = [h \in Handles |-> 0]
  /\ idx' = [h \in Handles |-> 0]
  /\ buf' = Unknown
  /\ image'   = Unknown
  /\ upset'   = (upset \/ \E h \in Handles : pc[h] \notin {"closed", "open", "size"})
  /\ UNCHANGED <<versVars, opens, expected>>

Init ==
  /\ DataInit
  /\ state    = "live"
  /\ pc       = [h \in Handles |-> "closed"]
  /\ written  = {}
  /\ counter  = 0
  /\ vmeta    = [v \in Numbers |-> NULL]
  /\ vblock   = [v \in Numbers |-> None]
  /\ sz       = [h \in Handles |-> 0]
  /\ ver      = [h \in Handles |-> 0]
  /\ idx      = [h \in Handles |-> 0]
  /\ buf      = Unknown
  /\ opens    = 0
  /\ restarts = 0
  /\ image    = Unknown
  /\ expected = [v \in Numbers |-> NULL]
  /\ upset    = FALSE

Snapshot(h) ==
  \/ SnapshotSize(h) \/ SnapshotCounter(h) \/ SnapshotGet(h) \/ SnapshotPut(h)
  \/ SnapshotMeta(h) \/ SnapshotCount(h) \/ Prune(h) \/ PruneBlocks(h)

Next ==
  \/ \E h \in Handles : Open(h) \/ OpenTrunc(h) \/ Release(h) \/ Snapshot(h)
  \/ \E h \in Handles, range \in Writes : Write(h, range)
  \/ \E n \in Sizes : SetSize(n)
  \/ ChangeStep
  \/ UnlinkStart \/ UnlinkBlock \/ UnlinkCounter \/ UnlinkVersion \/ UnlinkInode
  \/ Remount

Spec == Init /\ [][Next]_vars

-----------------------------------------------------------------------------
(* Properties                                                              *)

TypeOK ==
  /\ DataTypeOK
  /\ state    \in {"live", "unlinking", "gone", "lost"}
  /\ pc       \in [Handles -> {"closed", "open", "size", "counter", "get", "put",
                               "meta", "count", "prune", "pruneblocks"}]
  /\ written  \subseteq Handles
  /\ counter  \in 0 .. MaxOpens
  /\ vmeta    \in [Numbers -> (0 .. MaxBlocks * BlockSize) \cup {NULL}]
  /\ vblock   \in [Numbers -> [Blocks -> Bytes \cup {NULL}]]
  /\ \A h \in Handles : Snapshotting(h) => ver[h] \in Numbers /\ idx[h] \in 0 .. MaxBlocks

\* The file under the snapshots: of its type, and read as it was written
\* (FileContent of module FileData).
FilesInv == TypeOK /\ FileContent

Listed == {v \in Numbers : vmeta[v] # NULL}

\* README.md:195-196.  After releases, truncations, unlinks and restarts that
\* did not overlap inside a snapshot, the versions stored are exactly the last
\* MaxVersions ones, with nothing left of older ones, and nothing at all once
\* the file is gone.
KeepsLastVersions ==
  (~upset /\ ~Busy /\ op = NULL /\ state # "lost") =>
    /\ Listed = First(counter) .. counter - 1
    /\ \A v \in Numbers \ Listed : vblock[v] = None

\* README.md:185.  A version whose snapshot was not overlapped holds what was
\* in the file, and goes on to, whatever overlaps later, until it is deleted
\* or the file unlinked.
VersionFaithful ==
  \A v \in Listed :
    (state = "live" /\ v < counter /\ expected[v] # NULL) =>
      /\ vmeta[v] = Cardinality(DOMAIN expected[v])
      /\ \A o \in DOMAIN expected[v] : ByteIn(vblock[v], o) = expected[v][o]

=============================================================================
