----------------------------- MODULE Superblock -----------------------------
(***************************************************************************)
(* The superblock of src/src/super.c and the inode numbers it hands out    *)
(* (inode_alloc of src/src/inode.c), across mounts, unmounts and crashes.  *)
(*                                                                         *)
(* inode_alloc takes a number under alloc_lock, but writes the superblock  *)
(* after it has released it.  kv_put is given a pointer to the live        *)
(* superblock and rocksdb copies it before it queues the write, so what a  *)
(* thread writes is what it found when it copied: copy and write are two   *)
(* steps here.  A crash ends the process; the store keeps the writes that  *)
(* were applied.                                                           *)
(***************************************************************************)
EXTENDS Integers, FiniteSets

CONSTANTS
  Threads,     \* the threads that create inodes; one with the -s option
  MaxIno,      \* bound: inode numbers issued
  MaxCrashes,  \* bound: crashes in one behaviour
  Faults       \* the calls of the store that may fail: a subset of {"read", "write"}

RootIno == 1

ASSUME ConstantsAssumption ==
  /\ IsFiniteSet(Threads)
  /\ MaxIno \in Nat \ {0}
  /\ MaxCrashes \in Nat
  /\ Faults \subseteq {"read", "write"}

VARIABLES
  next,    \* ctx->super.next_ino in memory
  kvNext,  \* next_ino of the record `sb' in the store, 0 when there is none
  stored,  \* history: numbers under which an inode record was ever stored
  phase,   \* "down", "newsuper" and "newroot" (in super_load), "mounted"
  pc,      \* where each thread is in inode_create
  num,     \* its number, 0 when it has none
  snap,    \* the next_ino it copied for kv_put
  crashes  \* crashes so far

vars == <<next, kvNext, stored, phase, pc, num, snap, crashes>>

\* The in-memory state a process starts with.
Volatile ==
  /\ next' = 0
  /\ pc'   = [t \in Threads |-> "idle"]
  /\ num'  = [t \in Threads |-> 0]
  /\ snap' = [t \in Threads |-> 0]

\* super.next_ino++
Stuck(n) == n
After(n) == n + 1

\* The superblock super_save writes.
OneBehind(n) == n - 1
Saved(n) == n

\* super_load finds a superblock.
NeverFound(n) == FALSE
Found(n) == n # 0

\* The next_ino super_load takes over from it.
SkipsOne(n) == n + 1
Restored(n) == n

-----------------------------------------------------------------------------
(* super_load                                                              *)

\* Any failure of kv_get is taken for a missing superblock.
SuperLoad ==
  /\ phase = "down"
  /\ \/ /\ Found(kvNext)
        /\ next'  = Restored(kvNext)
        /\ phase' = "mounted"
     \/ /\ ~Found(kvNext) \/ "read" \in Faults
        /\ next'  = RootIno + 1
        /\ phase' = "newsuper"
  /\ UNCHANGED <<kvNext, stored, pc, num, snap, crashes>>

\* When a write fails ctx_init gives up, and the process with it.
GivesUp == "write" \in Faults /\ phase' = "down" /\ Volatile

SaveNewSuper ==
  /\ phase = "newsuper"
  /\ \/ /\ kvNext' = Saved(next)
        /\ phase'  = "newroot"
        /\ UNCHANGED <<next, pc, num, snap>>
     \/ GivesUp /\ UNCHANGED kvNext
  /\ UNCHANGED <<stored, crashes>>

SuperCreateRoot ==
  /\ phase = "newroot"
  /\ \/ /\ stored' = stored \cup {RootIno}
        /\ phase'  = "mounted"
        /\ UNCHANGED <<next, pc, num, snap>>
     \/ GivesUp /\ UNCHANGED stored
  /\ UNCHANGED <<kvNext, crashes>>

-----------------------------------------------------------------------------
(* inode_alloc, and the record inode_create stores                         *)

At(t, l) == phase = "mounted" /\ pc[t] = l

\* The critical section of alloc_lock.
Alloc(t) ==
  /\ At(t, "idle")
  /\ next <= MaxIno
  /\ num'  = [num EXCEPT ![t] = next]
  /\ next' = After(next)
  /\ pc'   = [pc EXCEPT ![t] = "copy"]
  /\ UNCHANGED <<kvNext, stored, phase, snap, crashes>>

\* super_save: kv_put copies the superblock ...
SaveCopy(t) ==
  /\ At(t, "copy")
  /\ snap' = [snap EXCEPT ![t] = Saved(next)]
  /\ pc'   = [pc EXCEPT ![t] = "put"]
  /\ UNCHANGED <<next, kvNext, stored, phase, num, crashes>>

\* ... and writes the copy.  inode_alloc does not look at the result.
SavePut(t) ==
  /\ At(t, "put")
  /\ \/ kvNext' = snap[t]
     \/ "write" \in Faults /\ UNCHANGED kvNext
  /\ snap' = [snap EXCEPT ![t] = 0]
  /\ pc'   = [pc EXCEPT ![t] = "record"]
  /\ UNCHANGED <<next, stored, phase, num, crashes>>

\* inode_save; without it the creation fails and the number is lost.
SaveRecord(t) ==
  /\ At(t, "record")
  /\ \/ stored' = stored \cup {num[t]}
     \/ "write" \in Faults /\ UNCHANGED stored
  /\ num' = [num EXCEPT ![t] = 0]
  /\ pc'  = [pc EXCEPT ![t] = "idle"]
  /\ UNCHANGED <<next, kvNext, phase, snap, crashes>>

-----------------------------------------------------------------------------
\* ctx_destroy saves the superblock once more, when no handler runs.
CtxDestroy ==
  /\ phase = "mounted"
  /\ \A t \in Threads : pc[t] = "idle"
  /\ \/ kvNext' = Saved(next)
     \/ "write" \in Faults /\ UNCHANGED kvNext
  /\ phase' = "down"
  /\ Volatile
  /\ UNCHANGED <<stored, crashes>>

Crash ==
  /\ phase # "down"
  /\ crashes < MaxCrashes
  /\ crashes' = crashes + 1
  /\ phase' = "down"
  /\ Volatile
  /\ UNCHANGED <<kvNext, stored>>

Init ==
  /\ next    = 0
  /\ kvNext  = 0
  /\ stored  = {}
  /\ phase   = "down"
  /\ pc      = [t \in Threads |-> "idle"]
  /\ num     = [t \in Threads |-> 0]
  /\ snap    = [t \in Threads |-> 0]
  /\ crashes = 0

Step(t) == Alloc(t) \/ SaveCopy(t) \/ SavePut(t) \/ SaveRecord(t)

Next ==
  \/ SuperLoad \/ SaveNewSuper \/ SuperCreateRoot
  \/ \E t \in Threads : Step(t)
  \/ CtxDestroy
  \/ Crash

Spec == Init /\ [][Next]_vars

-----------------------------------------------------------------------------
(* Properties                                                              *)

TypeOK ==
  /\ next    \in 0 .. MaxIno + 1
  /\ kvNext  \in 0 .. MaxIno + 1
  /\ stored  \subseteq 0 .. MaxIno
  /\ phase   \in {"down", "newsuper", "newroot", "mounted"}
  /\ pc      \in [Threads -> {"idle", "copy", "put", "record"}]
  /\ num     \in [Threads -> 0 .. MaxIno]
  /\ snap    \in [Threads -> 0 .. MaxIno + 1]
  /\ crashes \in 0 .. MaxCrashes

\* inode_alloc never issues a number an inode was stored under, in this mount
\* or in an earlier one: two files never share an inode record.
NoReissue ==
  [][\A t \in Threads : (num[t] = 0 /\ num'[t] # 0) => num'[t] \notin stored]_vars

\* Two creations that run at the same time never have the same number, not
\* even after a failed read made super_load start from 2 again.
DistinctInFlight ==
  \A t, u \in Threads : (num[t] # 0 /\ num[t] = num[u]) => t = u

\* inode.c:16, "crash wastes at most one ino": with one creating thread, of the
\* numbers ever issued those that are neither stored nor in flight are at most
\* one per crash.
Issued == 2 .. (IF phase = "down" THEN kvNext ELSE next) - 1
Wasted == {i \in Issued : i \notin stored /\ \A t \in Threads : num[t] # i}
WasteBound == Cardinality(Wasted) <= crashes

\* inode_create over the superblock implements the abstract allocator.
Allocator == INSTANCE InoAllocator WITH
               Numbers <- 1 .. MaxIno,
               used    <- stored,
               held    <- num
ImplementsAllocator == Allocator!Spec

\* The inductive invariant: it needs that the store's calls succeed and that
\* either one thread creates inodes or nothing crashes.
Serial == \A t, u \in Threads : t = u
Benign == Faults = {} /\ (Serial \/ MaxCrashes = 0)

NumbersInv ==
  phase = "mounted" =>
    /\ RootIno < next
    /\ \A i \in stored : i < next
    /\ kvNext <= next
    /\ \A t \in Threads : num[t] < next /\ snap[t] <= next /\ num[t] \notin stored
    /\ DistinctInFlight

PcInv ==
  \A t \in Threads :
    /\ num[t] # 0 <=> pc[t] # "idle"
    /\ phase # "mounted" => pc[t] = "idle"
    /\ num[t] # RootIno
    /\ IF pc[t] = "put" THEN snap[t] > RootIno ELSE snap[t] = 0

\* What a crash would bring back is ahead of what is stored.
DurableInv ==
  /\ phase # "mounted" \/ Serial => \A i \in stored : i < kvNext
  /\ Serial => \A t \in Threads :
       /\ pc[t] = "put"    => snap[t] = next
       /\ pc[t] = "record" => num[t] < kvNext

LoadInv ==
  /\ phase = "newsuper" => stored = {} /\ next = 2
  /\ phase = "newroot"  => stored = {} /\ next = 2 /\ kvNext = 2
  /\ kvNext # 1
  /\ 0 \notin stored

AllocInv == Benign => NumbersInv /\ PcInv /\ DurableInv /\ LoadInv

=============================================================================
