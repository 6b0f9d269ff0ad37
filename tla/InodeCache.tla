----------------------------- MODULE InodeCache -----------------------------
(***************************************************************************)
(* The inode cache of src/src/inode.c: reference-counted heap entries in   *)
(* the hash `icache', the store behind them, and the threads that call     *)
(* inode_get, inode_put, inode_create, inode_delete and inode_sync while   *)
(* they run a FUSE handler or a background task.                           *)
(*                                                                         *)
(* One action is one stretch of code that no other thread can interleave   *)
(* with: a critical section of icache_lock, a critical section of an       *)
(* entry's rwlock, or one call of the key-value store.  What happens       *)
(* between two such stretches (the unlocked load of inode_get, the         *)
(* unlocked kv_delete of inode_delete) is where other threads may run.     *)
(***************************************************************************)
EXTENDS Integers, FiniteSets

CONSTANTS
  FuseThreads,  \* threads of fuse_session_loop_mt, one FUSE request each
  Workers,      \* the LLM and memory worker threads, which the kernel does not know
  Addr,         \* heap addresses calloc can return for an inode entry
  NULL,         \* the null pointer
  Vals,         \* values of the mutable part of an inode (size, nlink, times)
  NewVal,       \* the value inode_create gives it
  Absent,       \* "no such key" in the store
  MaxIno,       \* bound: inode numbers issued in one behaviour
  Faults        \* TRUE: calloc and the calls of the store may fail

Threads == FuseThreads \cup Workers
RootIno == 1
Inos    == 1 .. MaxIno

ASSUME ConstantsAssumption ==
  /\ IsFiniteSet(FuseThreads) /\ IsFiniteSet(Workers)
  /\ FuseThreads \cap Workers = {}
  /\ NULL \notin Addr
  /\ NewVal \in Vals
  /\ Absent \notin Vals
  /\ MaxIno \in Nat \ {0}
  /\ Faults \in BOOLEAN

VARIABLES
  inum,     \* Addr -> the number of the inode an entry caches; 0: free memory
  refcount, \* Addr -> its reference count
  val,      \* Addr -> the mutable part of its inode
  dirty,    \* the entries whose dirty flag is set
  deleted,  \* the entries whose deleted flag is set
  icache,   \* the addresses the hash table holds
  kv,       \* the inode records of the store
  nextIno,  \* super.next_ino
  known,    \* inode numbers handed to callers (kernel, dirents): those that can be asked for
  doomed,   \* history: inode numbers inode_delete was called on
  pc,       \* where each thread is
  ino,      \* the local `ino' of the call a thread is in, 0 when unused
  ic,       \* the local `ic' of the call a thread is in, NULL when unused
  refs,     \* the entries a thread owes an inode_put (or free)
  phase     \* "mounted", "destroyed" (after kvbfs_destroy) or "closed" (after ctx_destroy)

entries == <<inum, refcount, val, dirty, deleted>>
vars    == <<inum, refcount, val, dirty, deleted,
             icache, kv, nextIno, known, doomed, pc, ino, ic, refs, phase>>

PCs == {"idle", "load", "publish", "save", "hash", "kvdel", "sync"}

Allocated == {a \in Addr : inum[a] # 0}
FreeAddr  == Addr \ Allocated

\* HASH_FIND on the inode number.
Find(i) == {a \in icache : inum[a] = i}

\* inode_load finds a record.
LoadsAnything(i) == TRUE
Loaded(i) == kv[i] # Absent

\* A deleted entry is treated as absent by both lookups of inode_get.
VisibleAlways(a) == TRUE
Visible(a) == a \notin deleted

\* refcount++
NotReferenced(a) == refcount[a]
Referenced(a) == refcount[a] + 1

\* What inode_get finds when it looks a second time, before it adds its entry.
NoRecheck(i) == {}
Recheck(i) == Find(i)

\* inode_put frees the entry when the count it leaves is 0 and the inode is deleted.
NeverFreedByPut(a, left) == FALSE
FreedByPut(a, left) == left = 0 /\ a \in deleted

\* inode_delete frees the entry itself when nobody holds it.
FreesHeldEntry(i) == Find(i)
FreedByDelete(i) == {a \in Find(i) : refcount[a] = 0}

\* inode_sync writes the record only when the entry is dirty.
SyncsAlways(a) == TRUE
SyncWrites(a) == a \in dirty

\* calloc and the initialisation of an entry for inode i.
NewEntry(a, i, v) ==
  /\ inum'     = [inum     EXCEPT ![a] = i]
  /\ refcount' = [refcount EXCEPT ![a] = 1]
  /\ val'      = [val      EXCEPT ![a] = v]

\* free: the contents of freed memory are of no interest.
FreeContents(S) ==
  /\ inum'    = [a \in Addr |-> IF a \in S THEN 0 ELSE inum[a]]
  /\ val'     = [a \in Addr |-> IF a \in S THEN NewVal ELSE val[a]]
  /\ dirty'   = dirty \ S
FreeEntries(S) ==
  /\ FreeContents(S)
  /\ refcount' = [a \in Addr |-> IF a \in S THEN 0 ELSE refcount[a]]
  /\ deleted'  = deleted \ S

\* A reference was left behind when the memory was freed under it.
Dangling(t) == ~ refs[t] \subseteq Allocated

\* Threads that may take a step.  After kvbfs_destroy the FUSE threads are
\* gone; a worker left with a dangling pointer is undefined behaviour and is
\* not followed further.
Running(t) ==
  \/ phase = "mounted"
  \/ phase = "destroyed" /\ t \in Workers /\ ~Dangling(t)

At(t, l) == Running(t) /\ pc[t] = l

\* The call returns: its locals go out of scope.
Return(t) ==
  /\ pc'  = [pc  EXCEPT ![t] = "idle"]
  /\ ino' = [ino EXCEPT ![t] = 0]
  /\ ic'  = [ic  EXCEPT ![t] = NULL]

Drop(t, a)  == refs' = [refs EXCEPT ![t] = @ \ {a}]
Hold(t, a)  == refs' = [refs EXCEPT ![t] = @ \cup {a}]

-----------------------------------------------------------------------------
(* inode_get                                                               *)

\* The first critical section.  A handler never asks for an inode it already
\* holds a reference to.
InodeGet(t, i) ==
  /\ At(t, "idle")
  /\ i \in known
  /\ \A a \in refs[t] : inum[a] # i
  /\ \/ \E a \in Find(i) :                       \* hit on a deleted entry: NULL
          /\ ~Visible(a)
          /\ UNCHANGED <<refcount, pc, ino, refs>>
     \/ \E a \in Find(i) :                       \* hit
          /\ Visible(a)
          /\ refcount' = [refcount EXCEPT ![a] = Referenced(a)]
          /\ Hold(t, a)
          /\ UNCHANGED <<pc, ino>>
     \/ /\ Find(i) = {}                          \* miss: go on without the lock
        /\ pc'  = [pc  EXCEPT ![t] = "load"]
        /\ ino' = [ino EXCEPT ![t] = i]
        /\ UNCHANGED <<refcount, refs>>
  /\ UNCHANGED <<inum, val, dirty, deleted, icache, kv, nextIno, known, doomed, ic, phase>>

\* inode_load and calloc, outside the lock.
InodeLoad(t) ==
  /\ At(t, "load")
  /\ \/ /\ ~Loaded(ino[t]) \/ Faults \/ FreeAddr = {}
        /\ Return(t)
        /\ UNCHANGED <<inum, refcount, val, refs>>
     \/ /\ Loaded(ino[t])
        /\ \E a \in FreeAddr :
             /\ NewEntry(a, ino[t], kv[ino[t]])
             /\ Hold(t, a)
             /\ ic' = [ic EXCEPT ![t] = a]
        /\ pc'  = [pc  EXCEPT ![t] = "publish"]
        /\ ino' = [ino EXCEPT ![t] = 0]
  /\ UNCHANGED <<dirty, deleted, icache, kv, nextIno, known, doomed, phase>>

\* The second critical section: another thread may have loaded the inode, or
\* deleted it, since the first.
InodeGetPublish(t) ==
  LET mine == ic[t]
      i    == inum[mine]
  IN
  /\ At(t, "publish")
  /\ \/ /\ Recheck(i) = {}
        /\ icache' = icache \cup {mine}
        /\ UNCHANGED <<entries, refs>>
     \/ \E existing \in Recheck(i) :
          /\ ~Visible(existing)
          /\ FreeEntries({mine})
          /\ Drop(t, mine)
          /\ UNCHANGED icache
     \/ \E existing \in Recheck(i) :
          /\ Visible(existing)
          /\ FreeContents({mine})
          /\ refcount' = [refcount EXCEPT ![mine] = 0, ![existing] = Referenced(existing)]
          /\ refs'     = [refs EXCEPT ![t] = (@ \ {mine}) \cup {existing}]
          /\ UNCHANGED <<deleted, icache>>
  /\ Return(t)
  /\ UNCHANGED <<kv, nextIno, known, doomed, phase>>

(* inode_put.  The free that follows the unlock is part of the step: the   *)
(* entry has just left the hash and its last counted reference is the      *)
(* caller's.                                                               *)
InodePut(t, a) ==
  LET left == IF refcount[a] > 0 THEN refcount[a] - 1 ELSE 0
  IN
  /\ At(t, "idle")
  /\ a \in refs[t]
  /\ \/ /\ FreedByPut(a, left)
        /\ icache' = icache \ {a}
        /\ FreeEntries({a})
     \/ /\ ~FreedByPut(a, left)
        /\ refcount' = [refcount EXCEPT ![a] = left]
        /\ UNCHANGED <<inum, val, dirty, deleted, icache>>
  /\ Drop(t, a)
  /\ UNCHANGED <<kv, nextIno, known, doomed, pc, ino, ic, phase>>

-----------------------------------------------------------------------------
(* inode_create: the number, the record in the store, the cache entry.     *)

InodeCreate(t) ==
  /\ At(t, "idle")
  /\ nextIno <= MaxIno
  /\ nextIno' = nextIno + 1
  /\ \/ /\ Faults \/ FreeAddr = {}               \* calloc fails: the number is wasted
        /\ UNCHANGED <<entries, pc, ic, refs>>
     \/ \E a \in FreeAddr :
          /\ NewEntry(a, nextIno, NewVal)
          /\ dirty' = dirty \cup {a}
          /\ UNCHANGED deleted
          /\ Hold(t, a)
          /\ ic' = [ic EXCEPT ![t] = a]
          /\ pc' = [pc EXCEPT ![t] = "save"]
  /\ UNCHANGED <<icache, kv, known, doomed, ino, phase>>

InodeCreateSave(t) ==
  LET a == ic[t]
  IN
  /\ At(t, "save")
  /\ \/ /\ kv'    = [kv EXCEPT ![inum[a]] = val[a]]
        /\ dirty' = dirty \ {a}
        /\ pc'    = [pc EXCEPT ![t] = "hash"]
        /\ UNCHANGED <<inum, refcount, val, deleted, ino, ic, refs>>
     \/ /\ Faults                                \* inode_save fails: free, return NULL
        /\ FreeEntries({a})
        /\ Drop(t, a)
        /\ Return(t)
        /\ UNCHANGED kv
  /\ UNCHANGED <<icache, nextIno, known, doomed, phase>>

\* HASH_ADD, and the number becomes known to the caller.
InodeCreateAdd(t) ==
  /\ At(t, "hash")
  /\ icache' = icache \cup {ic[t]}
  /\ known'  = known \cup {inum[ic[t]]}
  /\ Return(t)
  /\ UNCHANGED <<entries, kv, nextIno, doomed, refs, phase>>

-----------------------------------------------------------------------------
(* inode_delete                                                            *)

\* The critical section.  The callers (unlink, rmdir, rename, the error
\* paths of the creating handlers) delete an inode once.
InodeDelete(t, i) ==
  LET freed == FreedByDelete(i)
  IN
  /\ At(t, "idle")
  /\ i \in known \ (doomed \cup {RootIno})
  /\ FreeContents(freed)
  /\ deleted' = (deleted \cup Find(i)) \ freed
  /\ icache'  = icache \ freed
  /\ doomed'  = doomed \cup {i}
  /\ pc'      = [pc  EXCEPT ![t] = "kvdel"]
  /\ ino'     = [ino EXCEPT ![t] = i]
  /\ UNCHANGED <<refcount, kv, nextIno, known, ic, refs, phase>>

\* kv_delete, after the lock was released.
InodeDeleteKv(t) ==
  /\ At(t, "kvdel")
  /\ \/ kv' = [kv EXCEPT ![ino[t]] = Absent]
     \/ Faults /\ UNCHANGED kv
  /\ Return(t)
  /\ UNCHANGED <<entries, icache, nextIno, known, doomed, refs, phase>>

-----------------------------------------------------------------------------
(* A handler changes the inode under the entry's rwlock and then calls     *)
(* inode_sync.  No caller sets the dirty flag: inode_mark_dirty is never   *)
(* called.                                                                 *)

ModifyInode(t, a) ==
  /\ At(t, "idle")
  /\ a \in refs[t]
  /\ \E v \in Vals : val' = [val EXCEPT ![a] = v]
  /\ pc' = [pc EXCEPT ![t] = "sync"]
  /\ ic' = [ic EXCEPT ![t] = a]
  /\ UNCHANGED <<inum, refcount, dirty, deleted, icache, kv, nextIno, known, doomed,
                 ino, refs, phase>>

InodeSync(t) ==
  LET a == ic[t]
  IN
  /\ At(t, "sync")
  /\ kv'    = IF SyncWrites(a) THEN [kv EXCEPT ![inum[a]] = val[a]] ELSE kv
  /\ dirty' = dirty \ {a}
  /\ Return(t)
  /\ UNCHANGED <<inum, refcount, val, deleted, icache, nextIno, known, doomed, refs, phase>>

-----------------------------------------------------------------------------
(* Shutdown                                                                *)

Quiet(S) == \A t \in S : pc[t] = "idle" /\ refs[t] = {}

\* inode_sync_all with no other reader: the dirty entries that are not deleted.
Unsaved(i) == {a \in Find(i) : a \in dirty /\ a \notin deleted}
Flushed ==
  [i \in Inos |-> IF Unsaved(i) = {} THEN kv[i] ELSE val[CHOOSE a \in Unsaved(i) : TRUE]]

\* inode_cache_clear: every entry of the hash is freed, referenced or not.
ClearCache == FreeEntries(icache) /\ icache' = {}

\* fuse_session_destroy calls kvbfs_destroy when the session loop has
\* returned: no FUSE request is running, but the workers still are.
KvbfsDestroy ==
  /\ phase = "mounted"
  /\ Quiet(FuseThreads)
  /\ kv' = Flushed
  /\ ClearCache
  /\ phase' = "destroyed"
  /\ UNCHANGED <<nextIno, known, doomed, pc, ino, ic, refs>>

\* ctx_destroy joins the workers, then flushes and clears again.
CtxDestroy ==
  /\ phase = "destroyed"
  /\ Quiet(Workers)
  /\ kv' = Flushed
  /\ ClearCache
  /\ phase' = "closed"
  /\ UNCHANGED <<nextIno, known, doomed, pc, ino, ic, refs>>

-----------------------------------------------------------------------------
\* ctx_init on a store that already holds some inodes, none of them cached.
Init ==
  /\ inum     = [a \in Addr |-> 0]
  /\ refcount = [a \in Addr |-> 0]
  /\ val      = [a \in Addr |-> NewVal]
  /\ dirty    = {}
  /\ deleted  = {}
  /\ icache  = {}
  /\ \E n \in 1 .. MaxIno, S \in SUBSET Inos :
       /\ RootIno \in S /\ S \subseteq 1 .. n
       /\ nextIno = n + 1
       /\ known   = S
       /\ kv      = [i \in Inos |-> IF i \in S THEN NewVal ELSE Absent]
  /\ doomed  = {}
  /\ pc      = [t \in Threads |-> "idle"]
  /\ ino     = [t \in Threads |-> 0]
  /\ ic      = [t \in Threads |-> NULL]
  /\ refs    = [t \in Threads |-> {}]
  /\ phase   = "mounted"

\* Only the FUSE handlers create and delete; the workers get, change and put.
Step(t) ==
  \/ \E i \in Inos : InodeGet(t, i)
  \/ InodeLoad(t)
  \/ InodeGetPublish(t)
  \/ \E a \in Addr : InodePut(t, a)
  \/ t \in FuseThreads /\ InodeCreate(t)
  \/ InodeCreateSave(t)
  \/ InodeCreateAdd(t)
  \/ \E i \in Inos : t \in FuseThreads /\ InodeDelete(t, i)
  \/ InodeDeleteKv(t)
  \/ \E a \in Addr : ModifyInode(t, a)
  \/ InodeSync(t)

Next ==
  \/ \E t \in Threads : Step(t)
  \/ KvbfsDestroy
  \/ CtxDestroy

Spec == Init /\ [][Next]_vars

-----------------------------------------------------------------------------
(* Properties                                                              *)

LocalsOK ==
  \A t \in Threads :
    /\ pc[t] \in {"load", "kvdel"} => ino[t] \in Inos
    /\ pc[t] \in {"publish", "save", "hash", "sync"} => ic[t] \in Addr

TypeOK ==
  /\ inum     \in [Addr -> 0 .. MaxIno]
  /\ refcount \in [Addr -> Nat]
  /\ val      \in [Addr -> Vals]
  /\ dirty    \subseteq Addr
  /\ deleted  \subseteq Addr
  /\ icache  \subseteq Addr
  /\ kv      \in [Inos -> Vals \cup {Absent}]
  /\ nextIno \in 1 .. MaxIno + 1
  /\ known   \subseteq 0 .. MaxIno
  /\ doomed  \subseteq known
  /\ pc      \in [Threads -> PCs]
  /\ ino     \in [Threads -> 0 .. MaxIno]
  /\ ic      \in [Threads -> Addr \cup {NULL}]
  /\ refs    \in [Threads -> SUBSET Addr]
  /\ phase   \in {"mounted", "destroyed", "closed"}
  /\ LocalsOK

Holders(a) == {t \in Threads : a \in refs[t]}

\* While the file system is mounted, no thread holds a pointer to freed
\* memory: neither inode_put, inode_delete nor the double check of inode_get
\* ever frees an entry another thread still uses.
NoUseAfterFree ==
  phase = "mounted" => \A t \in Threads : ~Dangling(t)

\* While mounted, the reference count of a live entry is exactly the number
\* of threads that owe it an inode_put; inode_put's guard `refcount > 0'
\* never hides a missing reference.
RefcountExact ==
  phase = "mounted" =>
    \A a \in Allocated : refcount[a] = Cardinality(Holders(a))

\* The hash never holds two entries for one inode, although HASH_ADD does not
\* look: two handlers always share one lock and one copy of an inode.
OneEntryPerInode ==
  phase = "mounted" =>
    \A a, b \in icache : inum[a] = inum[b] => a = b

\* No entry leaks: what is allocated is in the hash or private to the one
\* thread that is about to publish or free it; and an entry marked deleted
\* stays in the hash only while somebody holds it, who will free it.
NoLeak ==
  phase = "mounted" =>
    \A a \in Allocated :
      \/ a \in icache /\ (a \in deleted => Holders(a) # {})
      \/ a \notin icache /\ \E t \in Threads : Holders(a) = {t} /\ ic[t] = a

\* Whatever get, put, create, delete and sync interleave, and whatever fails
\* in them, the cache neither frees an entry in use nor loses one.
MemorySafe == NoUseAfterFree /\ RefcountExact /\ OneEntryPerInode /\ NoLeak

\* Once an entry is marked deleted nobody gets a new reference to it: not
\* inode_get's fast path, and not a getter that raced with the deletion.
NoNewRefToDeleted ==
  [][\A a \in Allocated :
       (a \in deleted /\ inum'[a] = inum[a])
         => refcount'[a] <= refcount[a]]_vars

\* A deleted inode is never written back: once inode_delete has removed the
\* record, no inode_sync of a handler that still holds the entry, and no flush
\* at unmount, stores it again.
DeletedStaysOffDisk ==
  [][\A i \in doomed : kv[i] = Absent => kv'[i] = Absent]_vars

\* The inductive invariant behind the four properties above.

\* A thread in one of these places owns an entry nobody else can see.
Private(t)  == pc[t] \in {"publish", "save", "hash"}
Creating(t) == pc[t] \in {"save", "hash"}

\* Every reference is to an entry of the hash, or to the thread's private one.
RefsInv ==
  \A t \in Threads : \A a \in refs[t] : a \in icache \/ (Private(t) /\ ic[t] = a)

PrivateInv ==
  \A t \in Threads : Private(t) =>
    /\ ic[t] \in Allocated \ icache
    /\ Holders(ic[t]) = {t}
    /\ ic[t] \notin deleted

LocalsInv ==
  \A t \in Threads :
    /\ pc[t] = "load"    => /\ ino[t] \in known
                            /\ \A a \in refs[t] : inum[a] # ino[t]
    /\ pc[t] = "publish" => /\ inum[ic[t]] \in known
                            /\ \A a \in refs[t] \ {ic[t]} : inum[a] # inum[ic[t]]
    /\ pc[t] = "sync"    => ic[t] \in refs[t]

\* A number is in use by one creator only, and by nobody else until it is known.
NumbersInv ==
  /\ \A i \in known : i < nextIno
  /\ \A a \in icache : inum[a] \in known
  /\ \A t \in Threads : Creating(t) =>
       /\ inum[ic[t]] \notin known
       /\ inum[ic[t]] < nextIno
       /\ \A u \in Threads : (Creating(u) /\ inum[ic[u]] = inum[ic[t]]) => u = t

OwnedInv ==
  /\ icache \subseteq Allocated
  /\ \A a \in Allocated : a \in icache \/ \E t \in Threads : Private(t) /\ ic[t] = a
  /\ deleted \subseteq icache
  /\ \A a \in deleted : Holders(a) # {}

CountsInv == \A a \in Allocated : refcount[a] = Cardinality(Holders(a))
UniqueInv == \A a, b \in icache : inum[a] = inum[b] => a = b

MountedInv ==
  /\ RefsInv /\ PrivateInv /\ LocalsInv /\ NumbersInv /\ OwnedInv
  /\ CountsInv /\ UniqueInv

\* While mounted: references, private entries, numbers and counts agree.  It
\* is what every step of inode.c relies on and re-establishes.
CacheInv == phase = "mounted" => MountedInv

\* docs/plans/2026-02-02-kvbfs-design.md:122: destroy flushes the cache.
\* When nobody runs, what kvbfs_destroy would leave in the store is the
\* inode every cached entry holds.
DestroyFlushesCache ==
  (phase = "mounted" /\ Quiet(Threads)) =>
    \A a \in icache : a \notin deleted => Flushed[inum[a]] = val[a]

=============================================================================
