----------------------------- MODULE Namespace -----------------------------
(***************************************************************************)
(* The directory tree of src/src/fuse_ops.c: mkdir, create, symlink,       *)
(* unlink, rmdir, link, rename and xattrs over a key-value store without   *)
(* transactions.  One action is one call of the store (or one update of a  *)
(* cached inode), so a crash or a failure may fall between any two.        *)
(*                                                                         *)
(* The kernel sends a request that changes a directory only while it holds *)
(* the locks of the directories and of the existing inodes involved, and   *)
(* only for names that its own lookups found to exist, or not to: that is  *)
(* `Grant' and the guards of the Start actions.  The checks the handlers   *)
(* repeat (EEXIST, ENOENT, ENOTDIR) then leave the state alone and are not *)
(* actions.                                                                *)
(***************************************************************************)
EXTENDS Integers, FiniteSets

CONSTANTS
  Threads,     \* threads of the FUSE session loop
  Names,       \* names in a directory
  Uses,        \* what users and the store may do, see the variable `use'
  MaxIno       \* bound: inode numbers

RootIno == 1
Inos    == 1 .. MaxIno
Slots   == Inos \X Names   \* the keys d:<parent>:<name>

ASSUME ConstantsAssumption ==
  /\ IsFiniteSet(Threads)
  /\ IsFiniteSet(Names)      \* a name is part of a key of KVBFS_KEY_MAX bytes
  /\ MaxIno \in Nat \ {0}
  /\ \A u \in Uses :
       /\ u.ops \subseteq {"mkdir", "create", "symlink", "unlink", "rmdir", "link", "rename",
                          "write", "xattr"}
       /\ u.faults \in BOOLEAN /\ u.inos \in 1 .. MaxIno /\ u.remounts \in Nat

VARIABLES
  use,     \* a member of Uses: the requests users make (ops), whether kv_put and
           \* kv_delete may fail (faults), and bounds on inode numbers (inos) and
           \* on mounts after an unmount or a crash (remounts)
  kind,    \* Inos -> the type in the stored inode record, "none": no record
  dirent,  \* Slots -> the inode number of the stored directory entry, 0: none
  data,    \* the inodes with a block in the store (a file has one block)
  xattr,   \* the inodes with an extended attribute in the store
  sized,   \* the inodes whose cached `blocks' counts it
  nlink,   \* Inos -> nlink of the cached inode
  nextIno, \* the next inode number
  pc,      \* where each thread is in its handler
  op,      \* the request it handles
  at,      \* the entry the request is about: <<parent, name>>
  to,      \* the entry link and rename make
  ino,     \* the inode the request makes, removes, links or moves
  dst,     \* the inode a rename replaces, or 0
  locks,   \* the inodes the kernel has locked for the request
  acked,   \* history: Slots -> what the replies so far told the users
  restarts, crashes

request == <<op, at, to, ino, dst, locks>>
vars    == <<kind, dirent, data, xattr, sized, nlink, nextIno, pc, op, at, to, ino, dst, locks,
             acked, restarts, crashes, use>>

Ops         == use.ops
Faults      == use.faults
MaxRemounts == use.remounts

NoSlot == <<0, 0>>

\* What inode_load finds in nlink.  inode_create stores 1, and no handler
\* stores an inode again: none of them marks it dirty before inode_sync.
StoredNlink(i) == IF i = RootIno THEN 2 ELSE 1

NamesOf(i) == {s \in Slots : dirent[s] = i}
IsDir(i)   == kind[i] = "dir"
Named(i)   == i = RootIno \/ NamesOf(i) # {}

\* The kernel's lookup finds the name, and the inode it stands for.
Resolves(s) == dirent[s] # 0 /\ kind[dirent[s]] # "none"

\* dirent_is_empty
AlwaysEmpty(i) == TRUE
Empty(i) == \A n \in Names : dirent[<<i, n>>] = 0

\* if (nlink > 0) nlink--
Less(n) == IF n > 0 THEN n - 1 ELSE 0

\* unlink deletes the inode when this was its last name.
ChecksTooEarly(i) == nlink[i] = 0
AnyLink(i) == TRUE
LastLink(i) == Less(nlink[i]) = 0

\* mkdir and link count the new name.
Uncounted(i) == nlink[i]
Counted(i) == nlink[i] + 1

\* The type inode_create stores.
SavedKind(name) == IF name = "mkdir" THEN "dir" ELSE "file"

\* What delete_file_blocks leaves: it deletes as many blocks as the cached
\* inode counts.
BlocksKept(i) == data
BlocksLeft(i) == IF i \in sized THEN data \ {i} ELSE data

\* xattr_delete_all
XattrsLeft(i) == xattr \ {i}

\* What a rename leaves under the old name.
OldNameKept(t) == ino[t]
OldName(t) == 0

\* The inodes under directory d, and d itself.
Below(d) ==
  LET f[k \in 0 .. MaxIno] ==
        IF k = 0 THEN {d}
        ELSE LET above == f[k - 1]
             IN  above \cup {dirent[s] : s \in {s \in Slots : s[1] \in above /\ dirent[s] # 0}}
  IN  f[MaxIno]

-----------------------------------------------------------------------------
(* Requests                                                                *)

CanSend(t, name) == pc[t] = "idle" /\ name \in Ops

\* The kernel takes the locks and sends the request.
Grant(t, name, S, first) ==
  /\ \A u \in Threads : locks[u] \cap S = {}
  /\ locks' = [locks EXCEPT ![t] = S]
  /\ op'    = [op EXCEPT ![t] = name]
  /\ pc'    = [pc EXCEPT ![t] = first]

Goto(t, l) == pc' = [pc EXCEPT ![t] = l]

\* fuse_reply: the request is over, the kernel releases its locks.
Reply(t) ==
  /\ pc'    = [pc    EXCEPT ![t] = "idle"]
  /\ op'    = [op    EXCEPT ![t] = "none"]
  /\ at'    = [at    EXCEPT ![t] = NoSlot]
  /\ to'    = [to    EXCEPT ![t] = NoSlot]
  /\ ino'   = [ino   EXCEPT ![t] = 0]
  /\ dst'   = [dst   EXCEPT ![t] = 0]
  /\ locks' = [locks EXCEPT ![t] = {}]

\* What a successful reply tells about the entries of the request.
Replied(t) ==
  CASE op[t] \in {"mkdir", "create", "symlink"} -> [acked EXCEPT ![at[t]] = ino[t]]
    [] op[t] \in {"unlink", "rmdir"} -> [acked EXCEPT ![at[t]] = 0]
    [] op[t] = "link"   -> [acked EXCEPT ![to[t]] = ino[t]]
    [] op[t] = "rename" -> [acked EXCEPT ![at[t]] = 0, ![to[t]] = ino[t]]

ReplyOk(t)    == Reply(t) /\ acked' = Replied(t)
ReplyError(t) == Reply(t) /\ UNCHANGED acked

\* A rename that fails may have deleted its target, and the old name when it
\* could not be restored: the users look again.
RenameError(t) ==
  /\ Reply(t)
  /\ acked' = [acked EXCEPT ![at[t]] = dirent'[at[t]], ![to[t]] = dirent'[to[t]]]

store   == <<kind, dirent, data, sized>>
history == <<restarts, crashes>>

-----------------------------------------------------------------------------
(* mkdir, create, symlink                                                  *)

MakeStart(t, name, s) ==
  /\ name \in {"mkdir", "create", "symlink"}
  /\ CanSend(t, name)
  /\ IsDir(s[1]) /\ Named(s[1]) /\ dirent[s] = 0
  /\ Grant(t, name, {s[1]}, "make")
  /\ at' = [at EXCEPT ![t] = s]
  /\ UNCHANGED <<store, nlink, nextIno, to, ino, dst, acked, xattr, history>>

\* inode_create.  mkdir sets nlink to 2 in the cached inode only.
MakeInode(t) ==
  /\ pc[t] = "make"
  /\ nextIno <= use.inos
  /\ nextIno' = nextIno + 1
  /\ \/ /\ kind'  = [kind  EXCEPT ![nextIno] = SavedKind(op[t])]
        /\ nlink' = [nlink EXCEPT ![nextIno] = IF op[t] = "mkdir" THEN 2 ELSE 1]
        /\ ino'   = [ino EXCEPT ![t] = nextIno]
        /\ Goto(t, IF op[t] = "symlink" THEN "target" ELSE "name")
        /\ UNCHANGED <<op, at, to, dst, locks, acked>>
     \/ /\ Faults
        /\ ReplyError(t)
        /\ UNCHANGED <<kind, nlink>>
  /\ UNCHANGED <<dirent, data, sized, xattr, history>>

\* inode_delete on an error path, whose kv_delete may fail unnoticed.
UndoInode(t) == kind' \in {[kind EXCEPT ![ino[t]] = "none"], kind}

\* A symlink's target is its block 0.
SymlinkTarget(t) ==
  /\ pc[t] = "target"
  /\ \/ /\ data'  = data \cup {ino[t]}
        /\ sized' = sized \cup {ino[t]}
        /\ Goto(t, "name")
        /\ UNCHANGED <<kind, request, acked>>
     \/ /\ Faults
        /\ UndoInode(t)
        /\ ReplyError(t)
        /\ UNCHANGED <<data, sized>>
  /\ UNCHANGED <<dirent, nlink, nextIno, xattr, history>>

\* dirent_add; when it fails the inode is deleted again.
MakeName(t) ==
  /\ pc[t] = "name"
  /\ \/ /\ dirent' = [dirent EXCEPT ![at[t]] = ino[t]]
        /\ IF op[t] = "mkdir"
             THEN Goto(t, "parent") /\ UNCHANGED <<request, acked>>
             ELSE ReplyOk(t)
        /\ UNCHANGED <<kind, data>>
     \/ /\ Faults
        /\ UndoInode(t)
        /\ data' \in {data \ {ino[t]}, data}
        /\ ReplyError(t)
        /\ UNCHANGED dirent
  /\ UNCHANGED sized
  /\ UNCHANGED <<nlink, nextIno, xattr, history>>

MkdirParent(t) ==
  /\ pc[t] = "parent"
  /\ nlink' = [nlink EXCEPT ![at[t][1]] = Counted(at[t][1])]
  /\ ReplyOk(t)
  /\ UNCHANGED <<store, nextIno, xattr, history>>

-----------------------------------------------------------------------------
(* unlink and rmdir.  The kernel holds the lock of the inode that loses    *)
(* its name.                                                               *)

UnlinkStart(t, s) ==
  LET i == dirent[s]
  IN
  /\ CanSend(t, "unlink")
  /\ i # 0 /\ kind[i] = "file"
  /\ Grant(t, "unlink", {s[1], i}, "unname")
  /\ at'  = [at  EXCEPT ![t] = s]
  /\ ino' = [ino EXCEPT ![t] = i]
  /\ UNCHANGED <<store, nlink, nextIno, to, dst, acked, xattr, history>>

RmdirStart(t, s) ==
  LET i == dirent[s]
  IN
  /\ CanSend(t, "rmdir")
  /\ i # 0 /\ IsDir(i) /\ Empty(i)               \* else ENOTEMPTY
  /\ Grant(t, "rmdir", {s[1], i}, "unname")
  /\ at'  = [at  EXCEPT ![t] = s]
  /\ ino' = [ino EXCEPT ![t] = i]
  /\ UNCHANGED <<store, nlink, nextIno, to, dst, acked, xattr, history>>

\* dirent_remove
RemoveNameUnchecked(t) ==
  /\ pc[t] = "unname"
  /\ \/ dirent' = [dirent EXCEPT ![at[t]] = 0]
     \/ Faults /\ UNCHANGED dirent
  /\ Goto(t, "unlink")
  /\ UNCHANGED <<kind, data, sized, nlink, nextIno, request, acked, xattr, history>>
RemoveName(t) ==
  /\ pc[t] = "unname"
  /\ \/ /\ dirent' = [dirent EXCEPT ![at[t]] = 0]
        /\ Goto(t, "unlink")
        /\ UNCHANGED <<request, acked>>
     \/ Faults /\ ReplyError(t) /\ UNCHANGED dirent
  /\ UNCHANGED <<kind, data, sized, nlink, nextIno, xattr, history>>

\* The file's own nlink for unlink, the parent's for rmdir.
DropLink(t) ==
  /\ pc[t] = "unlink"
  /\ \/ /\ op[t] = "unlink"
        /\ nlink' = [nlink EXCEPT ![ino[t]] = Less(@)]
        /\ IF LastLink(ino[t])
             THEN Goto(t, "purge") /\ UNCHANGED <<request, acked>>
             ELSE ReplyOk(t)
     \/ /\ op[t] = "rmdir"
        /\ nlink' = [nlink EXCEPT ![at[t][1]] = Less(@)]
        /\ Goto(t, "purge")
        /\ UNCHANGED <<request, acked>>
  /\ UNCHANGED <<store, nextIno, xattr, history>>

\* delete_file_blocks and xattr_delete_all, whose calls of kv_delete may fail
\* unnoticed.  The versions and the embeddings go with them.
Purge(t) ==
  /\ pc[t] = "purge"
  /\ \/ data' = BlocksLeft(ino[t])
     \/ Faults /\ UNCHANGED data
  /\ sized' = sized \ {ino[t]}
  /\ \/ xattr' = XattrsLeft(ino[t])
     \/ Faults /\ UNCHANGED xattr
  /\ Goto(t, "delete")
  /\ UNCHANGED <<kind, dirent, nlink, nextIno, request, acked, history>>

\* inode_delete, whose kv_delete may fail unnoticed.
DeleteInode(t) ==
  /\ pc[t] = "delete"
  /\ \/ kind' = [kind EXCEPT ![ino[t]] = "none"]
     \/ Faults /\ UNCHANGED kind
  /\ ReplyOk(t)
  /\ UNCHANGED <<dirent, data, sized, nlink, nextIno, xattr, history>>

\* A write stores the block and counts it in the cached inode; the kernel
\* holds the inode's lock.
WriteData(i) ==
  /\ "write" \in Ops
  /\ kind[i] = "file" /\ Named(i)
  /\ \A u \in Threads : i \notin locks[u]
  /\ data'  = data \cup {i}
  /\ sized' = sized \cup {i}
  /\ UNCHANGED <<kind, dirent, nlink, nextIno, pc, request, acked, xattr, history>>

\* setxattr, which does not look at the inode, and removexattr.
SetXattr(i) ==
  /\ "xattr" \in Ops
  /\ kind[i] # "none" /\ Named(i)
  /\ \A u \in Threads : i \notin locks[u]
  /\ xattr' = xattr \cup {i}
  /\ UNCHANGED <<store, nlink, nextIno, pc, request, acked, history>>

RemoveXattr(i) ==
  /\ "xattr" \in Ops
  /\ i \in xattr /\ Named(i)                    \* else ENODATA
  /\ \A u \in Threads : i \notin locks[u]
  /\ xattr' = xattr \ {i}
  /\ UNCHANGED <<store, nlink, nextIno, pc, request, acked, history>>

-----------------------------------------------------------------------------
(* link                                                                    *)

LinkStart(t, i, s) ==
  /\ CanSend(t, "link")
  /\ kind[i] = "file" /\ Named(i)
  /\ IsDir(s[1]) /\ Named(s[1]) /\ dirent[s] = 0
  /\ Grant(t, "link", {s[1], i}, "linkname")
  /\ to'  = [to  EXCEPT ![t] = s]
  /\ ino' = [ino EXCEPT ![t] = i]
  /\ UNCHANGED <<store, nlink, nextIno, at, dst, acked, xattr, history>>

LinkName(t) ==
  /\ pc[t] = "linkname"
  /\ \/ /\ dirent' = [dirent EXCEPT ![to[t]] = ino[t]]
        /\ Goto(t, "count")
        /\ UNCHANGED <<request, acked>>
     \/ Faults /\ ReplyError(t) /\ UNCHANGED dirent
  /\ UNCHANGED <<kind, data, sized, nlink, nextIno, xattr, history>>

LinkCount(t) ==
  /\ pc[t] = "count"
  /\ nlink' = [nlink EXCEPT ![ino[t]] = Counted(ino[t])]
  /\ ReplyOk(t)
  /\ UNCHANGED <<store, nextIno, xattr, history>>

-----------------------------------------------------------------------------
(* rename                                                                  *)

\* The kernel handles a rename onto another name of the same inode, never
\* replaces a directory by a file or the reverse, and moves no directory
\* below itself; renames between two directories are serialised.  A name
\* without an inode does not exist for it, and is overwritten.
RenameStart(t, s, d) ==
  LET i   == dirent[s]
      old == IF Resolves(d) THEN dirent[d] ELSE 0
  IN
  /\ CanSend(t, "rename")
  /\ s # d /\ Resolves(s) /\ old # i
  /\ IsDir(d[1]) /\ Named(d[1])
  /\ old # 0 => kind[old] = kind[i]
  /\ IsDir(i) => d[1] \notin Below(i)
  /\ old # 0 /\ IsDir(old) => s[1] \notin Below(old) /\ Empty(old)   \* else ENOTEMPTY
  /\ s[1] # d[1] => \A u \in Threads : op[u] = "rename" => at[u][1] = to[u][1]
  /\ Grant(t, "rename",
           {s[1], d[1]} \cup ({old} \ {0}) \cup (IF IsDir(i) THEN {} ELSE {i}),
           IF old = 0 THEN "oldname" ELSE "replace")
  /\ at'  = [at  EXCEPT ![t] = s]
  /\ to'  = [to  EXCEPT ![t] = d]
  /\ ino' = [ino EXCEPT ![t] = i]
  /\ dst' = [dst EXCEPT ![t] = old]
  /\ UNCHANGED <<store, nlink, nextIno, acked, xattr, history>>

\* dirent_remove of the target's name: its result is not looked at.
RenameReplace(t) ==
  /\ pc[t] = "replace"
  /\ \/ dirent' = [dirent EXCEPT ![to[t]] = 0]
     \/ Faults /\ UNCHANGED dirent
  /\ Goto(t, "purgedst")
  /\ UNCHANGED <<kind, data, sized, nlink, nextIno, request, acked, xattr, history>>

\* The target's blocks, or its parent's nlink; its xattrs and versions.
RenamePurge(t) ==
  /\ pc[t] = "purgedst"
  /\ \/ data' = IF IsDir(dst[t]) THEN data ELSE BlocksLeft(dst[t])
     \/ Faults /\ UNCHANGED data
  /\ sized' = sized \ {dst[t]}
  /\ nlink' = IF IsDir(dst[t]) THEN [nlink EXCEPT ![to[t][1]] = Less(@)] ELSE nlink
  /\ \/ xattr' = XattrsLeft(dst[t])
     \/ Faults /\ UNCHANGED xattr
  /\ Goto(t, "deletedst")
  /\ UNCHANGED <<kind, dirent, nextIno, request, acked, history>>

\* inode_delete of the target, however many names it still has.
RenameDelete(t) ==
  /\ pc[t] = "deletedst"
  /\ \/ kind' = [kind EXCEPT ![dst[t]] = "none"]
     \/ Faults /\ UNCHANGED kind
  /\ Goto(t, "oldname")
  /\ UNCHANGED <<dirent, data, sized, nlink, nextIno, request, acked, xattr, history>>

RenameOldName(t) ==
  /\ pc[t] = "oldname"
  /\ \/ /\ dirent' = [dirent EXCEPT ![at[t]] = OldName(t)]
        /\ Goto(t, "newname")
        /\ UNCHANGED <<request, acked>>
     \/ Faults /\ UNCHANGED dirent /\ RenameError(t)
  /\ UNCHANGED <<kind, data, sized, nlink, nextIno, xattr, history>>

RenameNewName(t) ==
  /\ pc[t] = "newname"
  /\ \/ /\ dirent' = [dirent EXCEPT ![to[t]] = ino[t]]
        /\ IF IsDir(ino[t]) /\ at[t][1] # to[t][1]
             THEN Goto(t, "parents") /\ UNCHANGED <<request, acked>>
             ELSE ReplyOk(t)
     \/ Faults /\ Goto(t, "restore") /\ UNCHANGED <<dirent, request, acked>>
  /\ UNCHANGED <<kind, data, sized, nlink, nextIno, xattr, history>>

\* The handler tries to put the old name back.
RenameRestore(t) ==
  /\ pc[t] = "restore"
  /\ \/ dirent' = [dirent EXCEPT ![at[t]] = ino[t]]
     \/ Faults /\ UNCHANGED dirent
  /\ RenameError(t)
  /\ UNCHANGED <<kind, data, sized, nlink, nextIno, xattr, history>>

RenameParents(t) ==
  /\ pc[t] = "parents"
  /\ nlink' = [nlink EXCEPT ![at[t][1]] = Less(@), ![to[t][1]] = @ + 1]
  /\ ReplyOk(t)
  /\ UNCHANGED <<store, nextIno, xattr, history>>

-----------------------------------------------------------------------------
(* Restart                                                                 *)

ClearRequests ==
  /\ pc'    = [t \in Threads |-> "idle"]
  /\ op'    = [t \in Threads |-> "none"]
  /\ at'    = [t \in Threads |-> NoSlot]
  /\ to'    = [t \in Threads |-> NoSlot]
  /\ ino'   = [t \in Threads |-> 0]
  /\ dst'   = [t \in Threads |-> 0]
  /\ locks' = [t \in Threads |-> {}]

\* The cached inodes are gone; what inode_load finds has nlink as inode_create
\* stored it, and no blocks.
Remount ==
  /\ nlink' = [i \in Inos |-> StoredNlink(i)]
  /\ sized' = {}
  /\ UNCHANGED <<kind, dirent, data, xattr>>

Restart ==
  /\ restarts + crashes < MaxRemounts
  /\ \A t \in Threads : pc[t] = "idle"
  /\ restarts' = restarts + 1
  /\ Remount
  /\ UNCHANGED <<nextIno, pc, request, acked, crashes>>

InFlight == {at[t] : t \in Threads} \cup {to[t] : t \in Threads}

\* The users of an interrupted request look again, and see what is there.
Crash ==
  /\ restarts + crashes < MaxRemounts
  /\ crashes' = crashes + 1
  /\ Remount
  /\ acked' = [s \in Slots |-> IF s \in InFlight THEN dirent[s] ELSE acked[s]]
  /\ ClearRequests
  /\ UNCHANGED <<nextIno, restarts>>

Init ==
  /\ use \in Uses
  /\ kind     = [i \in Inos |-> IF i = RootIno THEN "dir" ELSE "none"]
  /\ dirent   = [s \in Slots |-> 0]
  /\ data     = {}
  /\ xattr    = {}
  /\ sized    = {}
  /\ nlink    = [i \in Inos |-> StoredNlink(i)]
  /\ nextIno  = RootIno + 1
  /\ pc       = [t \in Threads |-> "idle"]
  /\ op       = [t \in Threads |-> "none"]
  /\ at       = [t \in Threads |-> NoSlot]
  /\ to       = [t \in Threads |-> NoSlot]
  /\ ino      = [t \in Threads |-> 0]
  /\ dst      = [t \in Threads |-> 0]
  /\ locks    = [t \in Threads |-> {}]
  /\ acked    = [s \in Slots |-> 0]
  /\ restarts = 0
  /\ crashes  = 0

Begin(t) ==
  \/ \E name \in Ops, s \in Slots : MakeStart(t, name, s)
  \/ \E s \in Slots : UnlinkStart(t, s) \/ RmdirStart(t, s)
  \/ \E i \in Inos, s \in Slots : LinkStart(t, i, s)
  \/ \E s, d \in Slots : RenameStart(t, s, d)

Continue(t) ==
  \/ MakeInode(t) \/ SymlinkTarget(t) \/ MakeName(t) \/ MkdirParent(t)
  \/ RemoveName(t) \/ DropLink(t) \/ Purge(t) \/ DeleteInode(t)
  \/ LinkName(t) \/ LinkCount(t)
  \/ RenameReplace(t) \/ RenamePurge(t) \/ RenameDelete(t)
  \/ RenameOldName(t) \/ RenameNewName(t) \/ RenameRestore(t) \/ RenameParents(t)

Next ==
  /\ \/ \E t \in Threads : Begin(t) \/ Continue(t)
     \/ \E i \in Inos : WriteData(i) \/ SetXattr(i) \/ RemoveXattr(i)
     \/ Restart
     \/ Crash
  /\ UNCHANGED use

Spec == Init /\ [][Next]_vars

-----------------------------------------------------------------------------
(* Properties                                                              *)

PCs == {"idle", "make", "target", "name", "parent", "unname", "unlink", "purge", "delete",
        "linkname", "count", "replace", "purgedst", "deletedst", "oldname", "newname",
        "restore", "parents"}

TypeOK ==
  /\ kind     \in [Inos -> {"none", "dir", "file"}]
  /\ dirent   \in [Slots -> 0 .. MaxIno]
  /\ data     \subseteq Inos /\ xattr \subseteq Inos /\ sized \subseteq Inos
  /\ nlink    \in [Inos -> Nat]
  /\ nextIno  \in 2 .. MaxIno + 1
  /\ pc       \in [Threads -> PCs]
  /\ op       \in [Threads -> Ops \cup {"none"}]
  /\ at       \in [Threads -> Slots \cup {NoSlot}]
  /\ to       \in [Threads -> Slots \cup {NoSlot}]
  /\ ino      \in [Threads -> 0 .. MaxIno]
  /\ dst      \in [Threads -> 0 .. MaxIno]
  /\ locks    \in [Threads -> SUBSET Inos]
  /\ acked    \in [Slots -> 0 .. MaxIno]
  /\ restarts \in 0 .. MaxRemounts
  /\ crashes  \in 0 .. MaxRemounts
  /\ use      \in Uses

\* Every name leads to an inode, at every moment and so after any crash: the
\* handlers store an inode before its name and remove the name before it.  (A
\* name that leads nowhere can be neither opened, unlinked nor created again.)
\* A rename that replaces does not look at the result of the first, nor whether
\* its target has another name; and a link is forgotten at the next mount, after
\* which the first unlink deletes the inode.
NamesInv ==
  /\ TypeOK
  /\ /\ "rename" \in Ops => ~Faults /\ "link" \notin Ops
     /\ "link" \in Ops => restarts + crashes = 0
     => \A s \in Slots : dirent[s] # 0 => kind[dirent[s]] # "none"

\* Nothing is ever stored under a directory that is gone: a removed or
\* replaced directory was empty to the end.
ParentsExist ==
  \A s \in Slots : dirent[s] # 0 => IsDir(s[1])

\* What was acknowledged is what is stored, for every entry that no request
\* is changing: nothing acknowledged is undone by a crash, and a request that
\* failed changed nothing.
Durable ==
  \A s \in Slots \ InFlight : dirent[s] = acked[s]

\* Without hard links an inode never has two names, not even after a crash in
\* the middle of a rename.
OneName ==
  "link" \notin Ops => \A i \in Inos : Cardinality(NamesOf(i)) <= 1

Undisturbed == restarts = 0 /\ crashes = 0 /\ ~Faults

Busy(i) == \E t \in Threads : i \in {ino[t], dst[t], at[t][1], to[t][1]}
Subdirs(d) == {s \in Slots : s[1] = d /\ dirent[s] # 0 /\ IsDir(dirent[s])}

\* A file's nlink is the number of its names, a directory's is 2 plus the
\* number of its subdirectories, whenever no request is at work on it.
NlinkExact ==
  Undisturbed =>
    \A i \in Inos : (kind[i] # "none" /\ ~Busy(i)) =>
      nlink[i] = IF IsDir(i) THEN 2 + Cardinality(Subdirs(i)) ELSE Cardinality(NamesOf(i))

\* Unless the process crashed, an inode without a name belongs to a request
\* that is about to name or to delete it, also after a restart.
NoOrphans ==
  (crashes = 0 /\ ~Faults) =>
    \A i \in Inos : kind[i] # "none" => Named(i) \/ Busy(i)

\* No block and no extended attribute stays in the store without its inode:
\* they would belong to nobody, or to whoever gets the number again.
RecordsOwned ==
  Undisturbed => \A i \in data \cup xattr : kind[i] # "none"

=============================================================================
