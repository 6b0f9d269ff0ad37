-------------------------- MODULE NamespaceProofs --------------------------
(***************************************************************************)
(* Proofs about Namespace, for any threads, names, requests and numbers of *)
(* inodes, with failing writes, restarts and crashes between any two store *)
(* calls.  In three parts, each on the invariant of the one before:        *)
(*   IndInv     the requests in progress: what was acknowledged is stored; *)
(*   ParentInv  the inodes: nothing is stored under a directory that is    *)
(*              gone;                                                      *)
(*   CountInv   names, link counts and records: every name leads to an     *)
(*              inode, every inode is reached, nlink is exact, and nothing *)
(*              is stored for an inode that is gone.                       *)
(***************************************************************************)
EXTENDS Namespace, FiniteSetTheorems, TLAPS

AllOps == {"mkdir", "create", "symlink", "unlink", "rmdir", "link", "rename", "none"}

TypeInv ==
  /\ dirent \in [Slots -> 0 .. MaxIno] /\ acked \in [Slots -> 0 .. MaxIno]
  /\ nextIno \in 2 .. MaxIno + 1
  /\ pc \in [Threads -> PCs] /\ op \in [Threads -> AllOps]
  /\ at \in [Threads -> Slots \cup {NoSlot}] /\ to \in [Threads -> Slots \cup {NoSlot}]
  /\ ino \in [Threads -> 0 .. MaxIno] /\ locks \in [Threads -> SUBSET Inos]
  /\ use \in Uses

\* A thread has locked the directories of its entries, and no other thread has.
LockInv ==
  /\ \A t \in Threads : /\ at[t] # NoSlot => at[t][1] \in locks[t]
                        /\ to[t] # NoSlot => to[t][1] \in locks[t]
  /\ \A t, u \in Threads : t # u => locks[t] \cap locks[u] = {}

\* How far a request is, and what its entries hold by then.
MakeStage(t) ==
  /\ op[t] \in {"mkdir", "create", "symlink"} /\ at[t] \in Slots /\ to[t] = NoSlot
  /\ \/ pc[t] \in {"make", "target", "name"} /\ dirent[at[t]] = acked[at[t]]
     \/ pc[t] = "parent" /\ dirent[at[t]] = ino[t]
UnlinkStage(t) ==
  /\ op[t] \in {"unlink", "rmdir"} /\ at[t] \in Slots /\ to[t] = NoSlot
  /\ \/ pc[t] = "unname" /\ dirent[at[t]] = acked[at[t]]
     \/ pc[t] \in {"unlink", "purge", "delete"} /\ dirent[at[t]] = 0
LinkStage(t) ==
  /\ op[t] = "link" /\ "link" \in Ops /\ at[t] = NoSlot /\ to[t] \in Slots
  /\ \/ pc[t] = "linkname" /\ dirent[to[t]] = acked[to[t]]
     \/ pc[t] = "count" /\ dirent[to[t]] = ino[t]
RenameStage(t) ==
  /\ op[t] = "rename" /\ at[t] \in Slots /\ to[t] \in Slots /\ at[t] # to[t]
  /\ \/ /\ pc[t] \in {"replace", "purgedst", "deletedst", "oldname"}
        /\ dirent[at[t]] = ino[t] /\ ino[t] # 0
     \/ pc[t] \in {"newname", "restore"} /\ dirent[at[t]] = 0
     \/ pc[t] = "parents" /\ dirent[at[t]] = 0 /\ dirent[to[t]] = ino[t]
IdleStage(t) ==
  pc[t] = "idle" /\ at[t] = NoSlot /\ to[t] = NoSlot /\ locks[t] = {}

Stage(t) == IdleStage(t) \/ MakeStage(t) \/ UnlinkStage(t) \/ LinkStage(t) \/ RenameStage(t)

IndInv == TypeInv /\ LockInv /\ (\A t \in Threads : Stage(t)) /\ Durable

LEMMA SlotFacts == NoSlot \notin Slots /\ \A s \in Slots : s[1] \in Inos
BY ConstantsAssumption DEF NoSlot, Slots, Inos

-----------------------------------------------------------------------------
(* One thread's step                                                       *)

OthersKept(t) ==
  \A u \in Threads : u # t =>
    /\ pc'[u] = pc[u] /\ op'[u] = op[u] /\ at'[u] = at[u] /\ to'[u] = to[u]
    /\ ino'[u] = ino[u] /\ locks'[u] = locks[u]

SlotsKept(t) ==
  \A s \in Slots : s # at[t] /\ s # to[t] => dirent'[s] = dirent[s] /\ acked'[s] = acked[s]

\* Two requests have no entry in common.
LEMMA EntriesApart ==
  ASSUME IndInv, NEW t \in Threads, NEW u \in Threads, t # u
  PROVE  /\ at[u] \in Slots => at[u] # at[t] /\ at[u] # to[t]
         /\ to[u] \in Slots => to[u] # at[t] /\ to[u] # to[t]
BY SlotFacts DEF IndInv, LockInv, TypeInv

LEMMA OtherStage ==
  ASSUME IndInv, NEW t \in Threads, OthersKept(t), SlotsKept(t), use' = use,
         NEW u \in Threads, u # t
  PROVE  Stage(u)'
<1>1. /\ pc'[u] = pc[u] /\ op'[u] = op[u] /\ at'[u] = at[u] /\ to'[u] = to[u]
      /\ ino'[u] = ino[u] /\ locks'[u] = locks[u]
  BY DEF OthersKept
<1>2. /\ at[u] \in Slots => dirent'[at[u]] = dirent[at[u]] /\ acked'[at[u]] = acked[at[u]]
      /\ to[u] \in Slots => dirent'[to[u]] = dirent[to[u]] /\ acked'[to[u]] = acked[to[u]]
  BY EntriesApart DEF SlotsKept
<1>3. Stage(u)
  BY DEF IndInv
<1>4. QED
  BY <1>1, <1>2, <1>3
     DEF Stage, IdleStage, MakeStage, UnlinkStage, LinkStage, RenameStage, Ops

\* A request that goes on keeps its entries and locks.
LEMMA GoesOn ==
  ASSUME IndInv, NEW t \in Threads, OthersKept(t), SlotsKept(t), TypeInv', use' = use,
         at'[t] = at[t], to'[t] = to[t], locks'[t] = locks[t], Stage(t)'
  PROVE  IndInv'
<1>1. \A u \in Threads : Stage(u)'
  BY OtherStage
<1>2. \A u \in Threads : at'[u] = at[u] /\ to'[u] = to[u] /\ locks'[u] = locks[u]
  BY DEF OthersKept
<1>3. LockInv'
  BY <1>2 DEF IndInv, LockInv
<1>4. Durable'
  <2> SUFFICES ASSUME NEW s \in Slots, s \notin InFlight'
               PROVE  dirent'[s] = acked'[s]
    BY DEF Durable
  <2>1. s \notin InFlight /\ s # at[t] /\ s # to[t]
    BY <1>2 DEF InFlight
  <2>2. QED
    BY <2>1 DEF SlotsKept, IndInv, Durable
<1>5. QED
  BY <1>1, <1>3, <1>4 DEF IndInv

\* A request that ends leaves in its entries what its users were told.
LEMMA Ends ==
  ASSUME IndInv, NEW t \in Threads, Reply(t), SlotsKept(t), use' = use,
         dirent' \in [Slots -> 0 .. MaxIno], acked' \in [Slots -> 0 .. MaxIno],
         nextIno' \in 2 .. MaxIno + 1,
         at[t] \in Slots => dirent'[at[t]] = acked'[at[t]],
         to[t] \in Slots => dirent'[to[t]] = acked'[to[t]]
  PROVE  IndInv'
<1>0. 0 \in 0 .. MaxIno
  BY ConstantsAssumption
<1>1. TypeInv' /\ OthersKept(t)
  BY <1>0 DEF IndInv, TypeInv, Reply, OthersKept, PCs, AllOps
<1>2. IdleStage(t)'
  BY DEF IdleStage, Reply, IndInv, TypeInv
<1>3. \A u \in Threads : Stage(u)'
  BY <1>1, <1>2, OtherStage DEF Stage
<1>4. LockInv'
  BY <1>1, <1>2 DEF OthersKept, IdleStage, IndInv, LockInv
<1>5. Durable'
  <2> SUFFICES ASSUME NEW s \in Slots, s \notin InFlight'
               PROVE  dirent'[s] = acked'[s]
    BY DEF Durable
  <2>1. CASE s = at[t] \/ s = to[t]
    BY <2>1
  <2>2. CASE s # at[t] /\ s # to[t]
    <3>1. s \notin InFlight
      BY <1>1, <2>2 DEF InFlight, OthersKept
    <3>2. QED
      BY <2>2, <3>1 DEF SlotsKept, IndInv, Durable
  <2>3. QED
    BY <2>1, <2>2
<1>6. QED
  BY <1>1, <1>3, <1>4, <1>5 DEF IndInv

\* A request that begins has its entries to itself, which hold what was told.
LEMMA Begins ==
  ASSUME IndInv, NEW t \in Threads, NEW name \in AllOps, NEW S \in SUBSET Inos,
         NEW first \in PCs, pc[t] = "idle", Grant(t, name, S, first),
         UNCHANGED <<dirent, acked, nextIno, use>>,
         at' \in [Threads -> Slots \cup {NoSlot}], to' \in [Threads -> Slots \cup {NoSlot}],
         ino' \in [Threads -> 0 .. MaxIno],
         \A u \in Threads : u # t => at'[u] = at[u] /\ to'[u] = to[u] /\ ino'[u] = ino[u],
         at'[t] # NoSlot => at'[t][1] \in S, to'[t] # NoSlot => to'[t][1] \in S,
         (\A s \in Slots : s \in {at'[t], to'[t]} => dirent[s] = acked[s]) => Stage(t)'
  PROVE  IndInv'
<1>1. TypeInv' /\ OthersKept(t) /\ SlotsKept(t)
  BY DEF IndInv, TypeInv, Grant, OthersKept, SlotsKept
<1>2. locks'[t] = S /\ \A u \in Threads : locks[u] \cap S = {}
  BY DEF Grant, IndInv, TypeInv
<1>3. LockInv'
  BY <1>1, <1>2 DEF OthersKept, IndInv, LockInv
<1>4. IdleStage(t)
  BY DEF IndInv, Stage, IdleStage, MakeStage, UnlinkStage, LinkStage, RenameStage
<1>5. \A s \in Slots : s \in {at'[t], to'[t]} => s \notin InFlight
  BY <1>2, <1>4, SlotFacts DEF InFlight, IdleStage, IndInv, LockInv, TypeInv
<1>6. \A s \in Slots : s \in {at'[t], to'[t]} => dirent[s] = acked[s]
  BY <1>5 DEF IndInv, Durable
<1>7. \A u \in Threads : Stage(u)'
  BY <1>1, <1>6, OtherStage
<1>8. Durable'
  <2> SUFFICES ASSUME NEW s \in Slots, s \notin InFlight'
               PROVE  dirent'[s] = acked'[s]
    BY DEF Durable
  <2>1. s \notin InFlight
    BY <1>1, <1>4, SlotFacts DEF InFlight, OthersKept, IdleStage
  <2>2. QED
    BY <2>1 DEF IndInv, Durable
<1>9. QED
  BY <1>1, <1>3, <1>7, <1>8 DEF IndInv

-----------------------------------------------------------------------------
(* The requests                                                            *)

LEMMA RepliedFacts ==
  ASSUME NEW t \in Threads
  PROVE  /\ op[t] \in {"mkdir", "create", "symlink"} =>
              Replied(t) = [acked EXCEPT ![at[t]] = ino[t]]
         /\ op[t] \in {"unlink", "rmdir"} => Replied(t) = [acked EXCEPT ![at[t]] = 0]
         /\ op[t] = "link"   => Replied(t) = [acked EXCEPT ![to[t]] = ino[t]]
         /\ op[t] = "rename" => Replied(t) = [acked EXCEPT ![at[t]] = 0, ![to[t]] = ino[t]]
BY DEF Replied

\* What a thread at a place is doing.
LEMMA AtPlace ==
  ASSUME IndInv, NEW t \in Threads
  PROVE  /\ pc[t] \in {"make", "target", "name", "parent"} => MakeStage(t)
         /\ pc[t] \in {"unname", "unlink", "purge", "delete"} => UnlinkStage(t)
         /\ pc[t] \in {"linkname", "count"} => LinkStage(t)
         /\ pc[t] \in {"replace", "purgedst", "deletedst", "oldname", "newname", "restore",
                       "parents"} => RenameStage(t)
BY DEF IndInv, Stage, IdleStage, MakeStage, UnlinkStage, LinkStage, RenameStage

LEMMA BeginInv ==
  ASSUME IndInv, NEW t \in Threads, Begin(t), UNCHANGED use
  PROVE  IndInv'
<1> USE DEF store, history
<1>0. TypeInv /\ 0 \in 0 .. MaxIno
  BY ConstantsAssumption DEF IndInv
<1>1. ASSUME NEW name \in Ops, NEW s \in Slots, MakeStart(t, name, s) PROVE IndInv'
  <2>1. /\ name \in {"mkdir", "create", "symlink"} /\ pc[t] = "idle"
        /\ Grant(t, name, {s[1]}, "make") /\ at' = [at EXCEPT ![t] = s]
        /\ UNCHANGED <<dirent, acked, nextIno, to, ino>>
    BY <1>1 DEF MakeStart, CanSend
  <2>2. to[t] = NoSlot
    BY <2>1 DEF IndInv, Stage, IdleStage, MakeStage, UnlinkStage, LinkStage, RenameStage
  <2>3. /\ at' \in [Threads -> Slots \cup {NoSlot}] /\ at'[t] = s /\ to'[t] = NoSlot
        /\ \A u \in Threads : u # t => at'[u] = at[u] /\ to'[u] = to[u] /\ ino'[u] = ino[u]
        /\ op'[t] = name /\ pc'[t] = "make"
    BY <1>0, <2>1, <2>2 DEF TypeInv, Grant
  <2>4. dirent[s] = acked[s] => MakeStage(t)'
    BY <2>1, <2>3 DEF MakeStage
  <2>5. {s[1]} \in SUBSET Inos
    BY SlotFacts
  <2>6. name \in AllOps /\ "make" \in PCs /\ ino' \in [Threads -> 0 .. MaxIno]
        /\ to' \in [Threads -> Slots \cup {NoSlot}]
    BY <1>0, <2>1, <2>3 DEF AllOps, PCs, TypeInv
  <2>7. at'[t][1] \in {s[1]} /\ s \in {at'[t], to'[t]}
    BY <2>3
  <2>8. QED
    BY <2>1, <2>3, <2>4, <2>5, <2>6, <2>7, Begins DEF Stage
<1>2. ASSUME NEW s \in Slots, UnlinkStart(t, s) \/ RmdirStart(t, s) PROVE IndInv'
  <2>1. PICK name \in {"unlink", "rmdir"} :
        /\ pc[t] = "idle" /\ dirent[s] # 0
        /\ Grant(t, name, {s[1], dirent[s]}, "unname") /\ at' = [at EXCEPT ![t] = s]
        /\ ino' = [ino EXCEPT ![t] = dirent[s]]
        /\ UNCHANGED <<dirent, acked, nextIno, to>>
    BY <1>2 DEF UnlinkStart, RmdirStart, CanSend
  <2>2. to[t] = NoSlot
    BY <2>1 DEF IndInv, Stage, IdleStage, MakeStage, UnlinkStage, LinkStage, RenameStage
  <2>3. /\ at' \in [Threads -> Slots \cup {NoSlot}] /\ at'[t] = s /\ to'[t] = NoSlot
        /\ ino' \in [Threads -> 0 .. MaxIno]
        /\ \A u \in Threads : u # t => at'[u] = at[u] /\ to'[u] = to[u] /\ ino'[u] = ino[u]
        /\ op'[t] = name /\ pc'[t] = "unname"
    BY <1>0, <2>1, <2>2 DEF TypeInv, Grant
  <2>4. dirent[s] = acked[s] => UnlinkStage(t)'
    BY <2>1, <2>3 DEF UnlinkStage
  <2>5. {s[1], dirent[s]} \in SUBSET Inos
    BY <1>0, <2>1, SlotFacts, ConstantsAssumption DEF TypeInv, Inos
  <2>6. name \in AllOps /\ "unname" \in PCs /\ ino' \in [Threads -> 0 .. MaxIno]
        /\ to' \in [Threads -> Slots \cup {NoSlot}]
    BY <1>0, <2>1, <2>3 DEF AllOps, PCs, TypeInv
  <2>7. at'[t][1] \in {s[1], dirent[s]} /\ s \in {at'[t], to'[t]}
    BY <2>3
  <2>8. QED
    BY <2>1, <2>3, <2>4, <2>5, <2>6, <2>7, Begins DEF Stage
<1>3. ASSUME NEW i \in Inos, NEW s \in Slots, LinkStart(t, i, s) PROVE IndInv'
  <2>1. /\ "link" \in Ops /\ pc[t] = "idle" /\ Grant(t, "link", {s[1], i}, "linkname")
        /\ to' = [to EXCEPT ![t] = s] /\ ino' = [ino EXCEPT ![t] = i]
        /\ UNCHANGED <<dirent, acked, nextIno, at>>
    BY <1>3 DEF LinkStart, CanSend
  <2>2. at[t] = NoSlot
    BY <2>1 DEF IndInv, Stage, IdleStage, MakeStage, UnlinkStage, LinkStage, RenameStage
  <2>3. /\ to' \in [Threads -> Slots \cup {NoSlot}] /\ to'[t] = s /\ at'[t] = NoSlot
        /\ ino' \in [Threads -> 0 .. MaxIno]
        /\ \A u \in Threads : u # t => at'[u] = at[u] /\ to'[u] = to[u] /\ ino'[u] = ino[u]
        /\ op'[t] = "link" /\ pc'[t] = "linkname"
    BY <1>0, <2>1, <2>2 DEF TypeInv, Grant, Inos
  <2>4. dirent[s] = acked[s] => LinkStage(t)'
    BY <2>1, <2>3 DEF LinkStage, Ops
  <2>5. {s[1], i} \in SUBSET Inos
    BY SlotFacts
  <2>6. "link" \in AllOps /\ "linkname" \in PCs
        /\ at' \in [Threads -> Slots \cup {NoSlot}]
    BY <1>0, <2>1 DEF AllOps, PCs, TypeInv
  <2>7. to'[t][1] \in {s[1], i} /\ s \in {at'[t], to'[t]}
    BY <2>3
  <2>8. QED
    BY <2>1, <2>3, <2>4, <2>5, <2>6, <2>7, Begins DEF Stage
<1>4. ASSUME NEW s \in Slots, NEW d \in Slots, RenameStart(t, s, d) PROVE IndInv'
  <2> DEFINE old == IF Resolves(d) THEN dirent[d] ELSE 0
             S   == {s[1], d[1]} \cup ({old} \ {0})
                      \cup (IF IsDir(dirent[s]) THEN {} ELSE {dirent[s]})
             first == IF old = 0 THEN "oldname" ELSE "replace"
  <2>1. /\ pc[t] = "idle" /\ s # d /\ dirent[s] # 0
        /\ Grant(t, "rename", S, first)
        /\ at' = [at EXCEPT ![t] = s] /\ to' = [to EXCEPT ![t] = d]
        /\ ino' = [ino EXCEPT ![t] = dirent[s]]
        /\ UNCHANGED <<dirent, acked, nextIno>>
    BY <1>4 DEF RenameStart, CanSend, Resolves
  <2>2. first \in {"oldname", "replace"} /\ s[1] \in S /\ d[1] \in S
    OBVIOUS
  <2>3. old \in 0 .. MaxIno /\ dirent[s] \in 0 .. MaxIno
    BY <1>0 DEF TypeInv
  <2>4. S \in SUBSET Inos
    BY <2>1, <2>3, SlotFacts, ConstantsAssumption DEF Inos
  <2> HIDE DEF old, S, first
  <2>5. /\ at' \in [Threads -> Slots \cup {NoSlot}] /\ at'[t] = s
        /\ to' \in [Threads -> Slots \cup {NoSlot}] /\ to'[t] = d
        /\ ino' \in [Threads -> 0 .. MaxIno] /\ ino'[t] = dirent[s]
        /\ \A u \in Threads : u # t => at'[u] = at[u] /\ to'[u] = to[u] /\ ino'[u] = ino[u]
        /\ op'[t] = "rename" /\ pc'[t] = first
    BY <1>0, <2>1, <2>3 DEF TypeInv, Grant
  <2>6. RenameStage(t)'
    BY <2>1, <2>2, <2>5 DEF RenameStage
  <2>7. first \in PCs /\ "rename" \in AllOps
    BY <2>2 DEF PCs, AllOps
  <2>8. QED
    BY <2>1, <2>2, <2>4, <2>5, <2>6, <2>7, Begins DEF Stage
<1>5. QED
  BY <1>1, <1>2, <1>3, <1>4 DEF Begin

\* A handler goes to its next place, having changed one of its entries at most.
OneEntry(t) ==
  \/ dirent' = dirent
  \/ \E s \in Slots, v \in 0 .. MaxIno : s \in {at[t], to[t]} /\ dirent' = [dirent EXCEPT ![s] = v]

LEMMA Advances ==
  ASSUME IndInv, NEW t \in Threads, NEW l \in PCs, Goto(t, l), OneEntry(t),
         ino' = ino \/ (\E i \in 0 .. MaxIno : ino' = [ino EXCEPT ![t] = i]),
         nextIno' \in 2 .. MaxIno + 1, UNCHANGED <<op, at, to, locks, acked, use>>, Stage(t)'
  PROVE  IndInv'
<1>1. TypeInv' /\ OthersKept(t) /\ SlotsKept(t)
  <2>1. dirent' \in [Slots -> 0 .. MaxIno] /\ SlotsKept(t)
    BY DEF OneEntry, SlotsKept, IndInv, TypeInv
  <2>2. ino' \in [Threads -> 0 .. MaxIno] /\ \A u \in Threads : u # t => ino'[u] = ino[u]
    BY DEF IndInv, TypeInv
  <2>3. QED
    BY <2>1, <2>2 DEF IndInv, TypeInv, OthersKept, Goto
<1>2. QED
  BY <1>1, GoesOn

\* A handler ends with an error, having changed nothing.
LEMMA EndsUnchanged ==
  ASSUME IndInv, NEW t \in Threads, ReplyError(t), dirent' = dirent,
         nextIno' \in 2 .. MaxIno + 1, use' = use,
         at[t] \in Slots => dirent[at[t]] = acked[at[t]],
         to[t] \in Slots => dirent[to[t]] = acked[to[t]]
  PROVE  IndInv'
BY Ends DEF ReplyError, SlotsKept, IndInv, TypeInv

LEMMA MakeContinues ==
  ASSUME IndInv, NEW t \in Threads, UNCHANGED use,
         MakeInode(t) \/ SymlinkTarget(t) \/ MakeName(t) \/ MkdirParent(t)
  PROVE  IndInv'
<1> USE DEF store, history, request
<1>0. TypeInv /\ MakeStage(t) /\ NoSlot \notin Slots
  BY AtPlace, SlotFacts DEF IndInv, MakeInode, SymlinkTarget, MakeName, MkdirParent
<1>1. CASE MakeInode(t)
  <2>1. nextIno \in 0 .. MaxIno /\ nextIno + 1 \in 2 .. MaxIno + 1 /\ nextIno' = nextIno + 1
    BY <1>0, <1>1, ConstantsAssumption DEF MakeInode, TypeInv
  <2>2. CASE ReplyError(t)
    BY <1>0, <1>1, <2>1, <2>2, EndsUnchanged DEF MakeInode, MakeStage
  <2>3. CASE /\ ino' = [ino EXCEPT ![t] = nextIno]
             /\ Goto(t, IF op[t] = "symlink" THEN "target" ELSE "name")
             /\ UNCHANGED <<op, at, to, locks, acked>>
    <3>1. PICK l \in {"target", "name"} : Goto(t, l)
      BY <2>3
    <3>2. dirent' = dirent /\ pc[t] = "make"
      BY <1>1 DEF MakeInode
    <3>3. Stage(t)' /\ l \in PCs
      BY <1>0, <2>3, <3>1, <3>2 DEF Stage, MakeStage, Goto, TypeInv, PCs
    <3>4. QED
      BY <2>1, <2>3, <3>1, <3>2, <3>3, Advances DEF OneEntry
  <2>4. QED
    BY <1>1, <2>2, <2>3 DEF MakeInode
<1>2. CASE SymlinkTarget(t)
  <2>0. dirent' = dirent /\ nextIno' = nextIno /\ pc[t] = "target"
    BY <1>2 DEF SymlinkTarget
  <2>1. CASE ReplyError(t)
    BY <1>0, <2>0, <2>1, EndsUnchanged DEF MakeStage, TypeInv
  <2>2. CASE Goto(t, "name") /\ UNCHANGED <<request, acked>>
    <3>1. Stage(t)' /\ "name" \in PCs
      BY <1>0, <2>0, <2>2 DEF Stage, MakeStage, Goto, TypeInv, PCs
    <3>2. QED
      BY <1>0, <2>0, <2>2, <3>1, Advances DEF OneEntry, TypeInv
  <2>3. QED
    BY <1>2, <2>1, <2>2 DEF SymlinkTarget
<1>3. CASE MakeName(t)
  <2>0. nextIno' = nextIno /\ pc[t] = "name" /\ ino[t] \in 0 .. MaxIno
    BY <1>0, <1>3 DEF MakeName, TypeInv
  <2>1. CASE ReplyError(t) /\ dirent' = dirent
    BY <1>0, <2>0, <2>1, EndsUnchanged DEF MakeStage, TypeInv
  <2>2. CASE dirent' = [dirent EXCEPT ![at[t]] = ino[t]] /\ ReplyOk(t)
    <3>1. acked' = [acked EXCEPT ![at[t]] = ino[t]]
      BY <1>0, <2>2, RepliedFacts DEF ReplyOk, MakeStage
    <3>2. /\ dirent' \in [Slots -> 0 .. MaxIno] /\ acked' \in [Slots -> 0 .. MaxIno]
          /\ SlotsKept(t) /\ dirent'[at[t]] = acked'[at[t]]
      BY <1>0, <2>0, <2>2, <3>1 DEF TypeInv, SlotsKept, MakeStage
    <3>3. QED
      BY <1>0, <2>0, <2>2, <3>2, Ends DEF ReplyOk, MakeStage, TypeInv
  <2>3. CASE /\ dirent' = [dirent EXCEPT ![at[t]] = ino[t]]
             /\ Goto(t, "parent") /\ UNCHANGED <<request, acked>>
    <3>1. Stage(t)' /\ "parent" \in PCs
      BY <1>0, <2>3 DEF Stage, MakeStage, Goto, TypeInv, PCs
    <3>2. OneEntry(t)
      BY <1>0, <2>0, <2>3 DEF OneEntry, MakeStage
    <3>3. QED
      BY <1>0, <2>0, <2>3, <3>1, <3>2, Advances DEF TypeInv
  <2>4. QED
    BY <1>3, <2>1, <2>2, <2>3 DEF MakeName
<1>4. CASE MkdirParent(t)
  <2>1. ReplyOk(t) /\ dirent' = dirent /\ nextIno' = nextIno /\ dirent[at[t]] = ino[t]
    BY <1>0, <1>4 DEF MkdirParent, MakeStage
  <2>2. acked' = [acked EXCEPT ![at[t]] = ino[t]]
    BY <1>0, <2>1, RepliedFacts DEF ReplyOk, MakeStage
  <2>3. acked' \in [Slots -> 0 .. MaxIno] /\ SlotsKept(t) /\ dirent'[at[t]] = acked'[at[t]]
    BY <1>0, <2>1, <2>2 DEF TypeInv, SlotsKept, MakeStage
  <2>4. QED
    BY <1>0, <2>1, <2>3, Ends DEF ReplyOk, MakeStage, TypeInv
<1>5. QED
  BY <1>1, <1>2, <1>3, <1>4

LEMMA UnlinkContinues ==
  ASSUME IndInv, NEW t \in Threads, UNCHANGED use,
         RemoveName(t) \/ DropLink(t) \/ Purge(t) \/ DeleteInode(t)
  PROVE  IndInv'
<1> USE DEF store, history, request
<1>0. TypeInv /\ UnlinkStage(t) /\ NoSlot \notin Slots /\ 0 \in 0 .. MaxIno
  BY AtPlace, SlotFacts, ConstantsAssumption DEF IndInv, RemoveName, DropLink, Purge, DeleteInode
<1>a. nextIno' = nextIno
  BY DEF RemoveName, DropLink, Purge, DeleteInode
<1>1. CASE RemoveName(t)
  <2>1. CASE ReplyError(t) /\ dirent' = dirent
    BY <1>0, <1>a, <1>1, <2>1, EndsUnchanged DEF RemoveName, UnlinkStage, TypeInv
  <2>2. CASE /\ dirent' = [dirent EXCEPT ![at[t]] = 0]
             /\ Goto(t, "unlink") /\ UNCHANGED <<request, acked>>
    <3>1. Stage(t)' /\ "unlink" \in PCs
      BY <1>0, <2>2 DEF Stage, UnlinkStage, Goto, TypeInv, PCs
    <3>2. OneEntry(t)
      BY <1>0, <2>2 DEF OneEntry, UnlinkStage
    <3>3. QED
      BY <1>0, <1>a, <2>2, <3>1, <3>2, Advances DEF TypeInv
  <2>3. QED
    BY <1>1, <2>1, <2>2 DEF RemoveName
<1>2. ASSUME NEW l \in {"purge", "delete"}, Goto(t, l), UNCHANGED <<dirent, request, acked>>,
             pc[t] \in {"unlink", "purge"}
      PROVE  IndInv'
  <2>1. Stage(t)' /\ l \in PCs
    BY <1>0, <1>2 DEF Stage, UnlinkStage, Goto, TypeInv, PCs
  <2>2. QED
    BY <1>0, <1>a, <1>2, <2>1, Advances DEF TypeInv, OneEntry
<1>3. ASSUME ReplyOk(t), dirent' = dirent, pc[t] \in {"unlink", "delete"} PROVE IndInv'
  <2>1. dirent[at[t]] = 0 /\ acked' = [acked EXCEPT ![at[t]] = 0]
    BY <1>0, <1>3, RepliedFacts DEF ReplyOk, UnlinkStage
  <2>2. acked' \in [Slots -> 0 .. MaxIno] /\ SlotsKept(t) /\ dirent'[at[t]] = acked'[at[t]]
    BY <1>0, <1>3, <2>1 DEF TypeInv, SlotsKept, UnlinkStage
  <2>3. QED
    BY <1>0, <1>a, <1>3, <2>2, Ends DEF ReplyOk, UnlinkStage, TypeInv
<1>4. CASE DropLink(t)
  BY <1>2, <1>3, <1>4 DEF DropLink
<1>5. CASE Purge(t)
  BY <1>2, <1>5 DEF Purge
<1>6. CASE DeleteInode(t)
  BY <1>3, <1>6 DEF DeleteInode
<1>7. QED
  BY <1>1, <1>4, <1>5, <1>6

LEMMA LinkContinues ==
  ASSUME IndInv, NEW t \in Threads, UNCHANGED use, LinkName(t) \/ LinkCount(t)
  PROVE  IndInv'
<1> USE DEF store, history, request
<1>0. TypeInv /\ LinkStage(t) /\ NoSlot \notin Slots /\ ino[t] \in 0 .. MaxIno
  BY AtPlace, SlotFacts DEF IndInv, LinkName, LinkCount, TypeInv
<1>a. nextIno' = nextIno
  BY DEF LinkName, LinkCount
<1>1. CASE LinkName(t)
  <2>1. CASE ReplyError(t) /\ dirent' = dirent
    BY <1>0, <1>a, <1>1, <2>1, EndsUnchanged DEF LinkName, LinkStage, TypeInv
  <2>2. CASE /\ dirent' = [dirent EXCEPT ![to[t]] = ino[t]]
             /\ Goto(t, "count") /\ UNCHANGED <<request, acked>>
    <3>1. LinkStage(t)' /\ "count" \in PCs
      BY <1>0, <2>2 DEF LinkStage, Goto, TypeInv, PCs, Ops
    <3>2. OneEntry(t)
      BY <1>0, <2>2 DEF OneEntry, LinkStage
    <3>3. QED
      BY <1>0, <1>a, <2>2, <3>1, <3>2, Advances DEF TypeInv, Stage
  <2>3. QED
    BY <1>1, <2>1, <2>2 DEF LinkName
<1>2. CASE LinkCount(t)
  <2>1. ReplyOk(t) /\ dirent' = dirent /\ dirent[to[t]] = ino[t]
    BY <1>0, <1>2 DEF LinkCount, LinkStage
  <2>2. acked' = [acked EXCEPT ![to[t]] = ino[t]]
    BY <1>0, <2>1, RepliedFacts DEF ReplyOk, LinkStage
  <2>3. acked' \in [Slots -> 0 .. MaxIno] /\ SlotsKept(t) /\ dirent'[to[t]] = acked'[to[t]]
    BY <1>0, <2>1, <2>2 DEF TypeInv, SlotsKept, LinkStage
  <2>4. QED
    BY <1>0, <1>a, <2>1, <2>3, Ends DEF ReplyOk, LinkStage, TypeInv
<1>3. QED
  BY <1>1, <1>2

LEMMA RenameContinues ==
  ASSUME IndInv, NEW t \in Threads, UNCHANGED use,
         \/ RenameReplace(t) \/ RenamePurge(t) \/ RenameDelete(t)
         \/ RenameOldName(t) \/ RenameNewName(t) \/ RenameRestore(t) \/ RenameParents(t)
  PROVE  IndInv'
<1> USE DEF store, history, request
<1>0. TypeInv /\ RenameStage(t) /\ 0 \in 0 .. MaxIno /\ ino[t] \in 0 .. MaxIno
  BY AtPlace, ConstantsAssumption
     DEF IndInv, RenameReplace, RenamePurge, RenameDelete, RenameOldName, RenameNewName,
         RenameRestore, RenameParents, TypeInv
<1>a. nextIno' = nextIno /\ at[t] \in Slots /\ to[t] \in Slots /\ at[t] # to[t]
  BY <1>0 DEF RenameReplace, RenamePurge, RenameDelete, RenameOldName, RenameNewName,
              RenameRestore, RenameParents, RenameStage
\* Everything up to the removal of the old name.
<1>1. ASSUME NEW l \in {"purgedst", "deletedst", "oldname"}, Goto(t, l),
             dirent' = dirent \/ dirent' = [dirent EXCEPT ![to[t]] = 0],
             UNCHANGED <<request, acked>>,
             pc[t] \in {"replace", "purgedst", "deletedst"}
      PROVE  IndInv'
  <2>1. RenameStage(t)' /\ l \in PCs
    BY <1>0, <1>a, <1>1 DEF RenameStage, Goto, TypeInv, PCs
  <2>2. OneEntry(t)
    BY <1>0, <1>a, <1>1 DEF OneEntry
  <2>3. QED
    BY <1>0, <1>a, <1>1, <2>1, <2>2, Advances DEF TypeInv, Stage
<1>2. ASSUME RenameError(t), dirent' = dirent \/ dirent' = [dirent EXCEPT ![at[t]] = ino[t]]
      PROVE  IndInv'
  <2>1. acked' = [acked EXCEPT ![at[t]] = dirent'[at[t]], ![to[t]] = dirent'[to[t]]]
    BY <1>2 DEF RenameError
  <2>2. dirent' \in [Slots -> 0 .. MaxIno]
    BY <1>0, <1>2 DEF TypeInv
  <2>3. /\ acked' \in [Slots -> 0 .. MaxIno] /\ SlotsKept(t)
        /\ dirent'[at[t]] = acked'[at[t]] /\ dirent'[to[t]] = acked'[to[t]]
    BY <1>0, <1>2, <1>a, <2>1, <2>2 DEF TypeInv, SlotsKept
  <2>4. QED
    BY <1>0, <1>2, <1>a, <2>2, <2>3, Ends DEF RenameError, TypeInv
<1>3. ASSUME ReplyOk(t), dirent' \in [Slots -> 0 .. MaxIno],
             dirent'[at[t]] = 0, dirent'[to[t]] = ino[t],
             \A s \in Slots : s # at[t] /\ s # to[t] => dirent'[s] = dirent[s]
      PROVE  IndInv'
  <2>1. acked' = [acked EXCEPT ![at[t]] = 0, ![to[t]] = ino[t]]
    BY <1>0, <1>3, RepliedFacts DEF ReplyOk, RenameStage
  <2>2. /\ acked' \in [Slots -> 0 .. MaxIno] /\ SlotsKept(t)
        /\ dirent'[at[t]] = acked'[at[t]] /\ dirent'[to[t]] = acked'[to[t]]
    BY <1>0, <1>3, <1>a, <2>1 DEF TypeInv, SlotsKept
  <2>3. QED
    BY <1>0, <1>3, <1>a, <2>2, Ends DEF ReplyOk, TypeInv
<1>4. CASE RenameReplace(t) \/ RenamePurge(t) \/ RenameDelete(t)
  BY <1>1, <1>4 DEF RenameReplace, RenamePurge, RenameDelete
<1>5. CASE RenameOldName(t)
  <2>1. CASE dirent' = dirent /\ RenameError(t)
    BY <1>2, <2>1
  <2>2. CASE /\ dirent' = [dirent EXCEPT ![at[t]] = 0]
             /\ Goto(t, "newname") /\ UNCHANGED <<request, acked>>
    <3>1. RenameStage(t)' /\ "newname" \in PCs
      BY <1>0, <1>a, <2>2 DEF RenameStage, Goto, TypeInv, PCs
    <3>2. OneEntry(t)
      BY <1>0, <1>a, <2>2 DEF OneEntry
    <3>3. QED
      BY <1>0, <1>a, <2>2, <3>1, <3>2, Advances DEF TypeInv, Stage
  <2>3. QED
    BY <1>5, <2>1, <2>2 DEF RenameOldName, OldName
<1>6. CASE RenameNewName(t)
  <2>0. pc[t] = "newname" /\ dirent[at[t]] = 0
    BY <1>0, <1>6 DEF RenameNewName, RenameStage
  <2>1. CASE Goto(t, "restore") /\ UNCHANGED <<dirent, request, acked>>
    <3>1. RenameStage(t)' /\ "restore" \in PCs
      BY <1>0, <2>0, <2>1 DEF RenameStage, Goto, TypeInv, PCs
    <3>2. QED
      BY <1>0, <1>a, <2>1, <3>1, Advances DEF TypeInv, Stage, OneEntry
  <2>2. CASE dirent' = [dirent EXCEPT ![to[t]] = ino[t]] /\ ReplyOk(t)
    BY <1>0, <1>3, <1>a, <2>0, <2>2 DEF TypeInv
  <2>3. CASE /\ dirent' = [dirent EXCEPT ![to[t]] = ino[t]]
             /\ Goto(t, "parents") /\ UNCHANGED <<request, acked>>
    <3>1. RenameStage(t)' /\ "parents" \in PCs
      BY <1>0, <1>a, <2>0, <2>3 DEF RenameStage, Goto, TypeInv, PCs
    <3>2. OneEntry(t)
      BY <1>0, <1>a, <2>3 DEF OneEntry
    <3>3. QED
      BY <1>0, <1>a, <2>3, <3>1, <3>2, Advances DEF TypeInv, Stage
  <2>4. QED
    BY <1>6, <2>1, <2>2, <2>3 DEF RenameNewName
<1>7. CASE RenameRestore(t)
  BY <1>2, <1>7 DEF RenameRestore
<1>8. CASE RenameParents(t)
  <2>1. ReplyOk(t) /\ dirent' = dirent /\ dirent[at[t]] = 0 /\ dirent[to[t]] = ino[t]
    BY <1>0, <1>8 DEF RenameParents, RenameStage
  <2>2. QED
    BY <1>0, <1>3, <2>1 DEF TypeInv
<1>9. QED
  BY <1>4, <1>5, <1>6, <1>7, <1>8

-----------------------------------------------------------------------------
(* The rest                                                                *)

\* A step that leaves the requests and the names alone.
LEMMA NamesKept ==
  ASSUME IndInv, UNCHANGED <<dirent, acked, nextIno, pc, op, at, to, ino, locks, use>>
  PROVE  IndInv'
<1>1. TypeInv' /\ LockInv'
  BY DEF IndInv, TypeInv, LockInv
<1>2. \A t \in Threads : Stage(t)'
  BY DEF IndInv, Stage, IdleStage, MakeStage, UnlinkStage, LinkStage, RenameStage, Ops
<1>3. Durable'
  BY DEF IndInv, Durable, InFlight
<1>4. QED
  BY <1>1, <1>2, <1>3 DEF IndInv

LEMMA CrashInv ==
  ASSUME IndInv, Crash, UNCHANGED use
  PROVE  IndInv'
<1>1. /\ dirent' = dirent /\ nextIno' = nextIno /\ 0 \in 0 .. MaxIno
      /\ acked' = [s \in Slots |-> IF s \in InFlight THEN dirent[s] ELSE acked[s]]
  BY ConstantsAssumption DEF Crash, Remount
<1>2. TypeInv'
  BY <1>1 DEF IndInv, TypeInv, Crash, ClearRequests, PCs, AllOps
<1>3. LockInv' /\ \A t \in Threads : Stage(t)'
  BY DEF Crash, ClearRequests, LockInv, Stage, IdleStage
<1>4. Durable'
  <2>1. \A s \in Slots : s \notin InFlight => dirent[s] = acked[s]
    BY DEF IndInv, Durable
  <2>2. \A s \in Slots : dirent'[s] = acked'[s]
    BY <1>1, <2>1
  <2>3. QED
    BY <2>2 DEF Durable
<1>5. QED
  BY <1>2, <1>3, <1>4 DEF IndInv

LEMMA IndInvHolds == Spec => []IndInv
<1>1. Init => IndInv
  <2> SUFFICES ASSUME Init PROVE IndInv
    OBVIOUS
  <2>1. TypeInv
    BY ConstantsAssumption DEF Init, TypeInv, PCs, AllOps, RootIno
  <2>2. LockInv /\ \A t \in Threads : Stage(t)
    BY DEF Init, LockInv, Stage, IdleStage
  <2>3. Durable
    BY DEF Init, Durable
  <2>4. QED
    BY <2>1, <2>2, <2>3 DEF IndInv
<1>2. IndInv /\ [Next]_vars => IndInv'
  <2> SUFFICES ASSUME IndInv, [Next]_vars PROVE IndInv'
    OBVIOUS
  <2>1. ASSUME NEW t \in Threads, Begin(t), UNCHANGED use PROVE IndInv'
    BY <2>1, BeginInv
  <2>2. ASSUME NEW t \in Threads, Continue(t), UNCHANGED use PROVE IndInv'
    BY <2>2, MakeContinues, UnlinkContinues, LinkContinues, RenameContinues DEF Continue
  <2>3. ASSUME NEW i \in Inos, WriteData(i) \/ SetXattr(i) \/ RemoveXattr(i), UNCHANGED use
        PROVE  IndInv'
    BY <2>3, NamesKept DEF WriteData, SetXattr, RemoveXattr, store, request
  <2>4. CASE Restart /\ UNCHANGED use
    BY <2>4, NamesKept DEF Restart, Remount, request
  <2>5. CASE Crash /\ UNCHANGED use
    BY <2>5, CrashInv
  <2>6. CASE UNCHANGED vars
    BY <2>6, NamesKept DEF vars
  <2>7. QED
    BY <2>1, <2>2, <2>3, <2>4, <2>5, <2>6 DEF Next
<1>3. QED
  BY <1>1, <1>2, PTL DEF Spec

\* Of every entry that no request is changing, the store holds what the users
\* were told: the handlers change nothing but their own entries, in an order in
\* which a failed call leaves them as they were or the users look again.
THEOREM AcknowledgedStays == Spec => []Durable
<1>1. IndInv => Durable
  BY DEF IndInv
<1>2. QED
  BY <1>1, IndInvHolds, PTL

-----------------------------------------------------------------------------
(* One name                                                                *)

\* A thread has an inode that is to get a name.
Pending(t) == pc[t] \in {"target", "name", "newname", "restore"}

NameInv ==
  "link" \notin Ops =>
    /\ \A s \in Slots : dirent[s] < nextIno
    /\ \A r, s \in Slots : dirent[r] = dirent[s] /\ dirent[r] # 0 => r = s
    /\ \A t \in Threads : Pending(t) => /\ ino[t] # 0 /\ ino[t] < nextIno
                                        /\ \A s \in Slots : dirent[s] # ino[t]
    /\ \A t, u \in Threads : t # u /\ Pending(t) /\ Pending(u) => ino[t] # ino[u]

\* Steps that name nothing, and begin no naming.
LEMMA NothingNamed ==
  ASSUME NameInv, TypeInv, use' = use, nextIno' \in Nat, nextIno <= nextIno',
         \A s \in Slots : dirent'[s] \in {dirent[s], 0},
         \A t \in Threads : Pending(t)' => Pending(t) /\ ino'[t] = ino[t]
  PROVE  NameInv'
<1> SUFFICES ASSUME "link" \notin Ops'
             PROVE  NameInv'
  BY DEF NameInv
<1>1. "link" \notin Ops
  BY DEF Ops
<1>2. /\ nextIno \in Nat /\ nextIno > 0
      /\ \A s \in Slots : dirent[s] \in Nat
      /\ \A t \in Threads : ino[t] \in Nat
  BY ConstantsAssumption DEF TypeInv
<1>3. \A s \in Slots : dirent'[s] < nextIno'
  BY <1>1, <1>2 DEF NameInv
<1>4. \A r, s \in Slots : dirent'[r] = dirent'[s] /\ dirent'[r] # 0 => r = s
  BY <1>1 DEF NameInv
<1>5. ASSUME NEW t \in Threads, Pending(t)'
      PROVE  ino'[t] # 0 /\ ino'[t] < nextIno' /\ \A s \in Slots : dirent'[s] # ino'[t]
  <2>1. ino'[t] = ino[t] /\ ino[t] # 0 /\ ino[t] < nextIno /\ \A s \in Slots : dirent[s] # ino[t]
    BY <1>1, <1>5 DEF NameInv
  <2>2. ino[t] \in Nat
    BY <1>2
  <2>3. ino[t] < nextIno'
    BY <1>2, <2>1, <2>2
  <2>4. QED
    BY <2>1, <2>3
<1>6. \A t, u \in Threads : t # u /\ Pending(t)' /\ Pending(u)' => ino'[t] # ino'[u]
  BY <1>1 DEF NameInv
<1>7. QED
  BY <1>3, <1>4, <1>5, <1>6 DEF NameInv

\* A pending inode gets its name.
LEMMA Naming ==
  ASSUME NameInv, TypeInv, use' = use, nextIno' = nextIno, NEW t \in Threads, Pending(t),
         NEW s \in Slots, dirent' = [dirent EXCEPT ![s] = ino[t]], ~Pending(t)',
         \A u \in Threads : u # t => pc'[u] = pc[u] /\ ino'[u] = ino[u]
  PROVE  NameInv'
<1> SUFFICES ASSUME "link" \notin Ops'
             PROVE  NameInv'
  BY DEF NameInv
<1>1. "link" \notin Ops
  BY DEF Ops
<1>2. \A r \in Slots : dirent'[r] = IF r = s THEN ino[t] ELSE dirent[r]
  BY DEF TypeInv
<1>3. \A r \in Slots : dirent[r] # ino[t]
  BY <1>1 DEF NameInv
<1>4. ino[t] < nextIno /\ ino[t] # 0
  BY <1>1 DEF NameInv
<1>5. \A r \in Slots : dirent'[r] < nextIno'
  BY <1>1, <1>2, <1>4 DEF NameInv
<1>6. \A q, r \in Slots : dirent'[q] = dirent'[r] /\ dirent'[q] # 0 => q = r
  BY <1>1, <1>2, <1>3 DEF NameInv
<1>7. ASSUME NEW u \in Threads, Pending(u)'
      PROVE  /\ u # t /\ Pending(u) /\ ino'[u] = ino[u]
             /\ ino'[u] # 0 /\ ino'[u] < nextIno'
             /\ \A r \in Slots : dirent'[r] # ino'[u]
  <2>1. u # t /\ Pending(u) /\ ino'[u] = ino[u]
    BY <1>7 DEF Pending
  <2>2. ino[u] # ino[t]
    BY <1>1, <2>1 DEF NameInv
  <2>3. QED
    BY <1>1, <1>2, <2>1, <2>2 DEF NameInv
<1>8. \A u, w \in Threads : u # w /\ Pending(u)' /\ Pending(w)' => ino'[u] # ino'[w]
  BY <1>1, <1>7 DEF NameInv
<1>9. QED
  BY <1>5, <1>6, <1>7, <1>8 DEF NameInv

\* An inode that has no name becomes pending: a new one, or one that has just
\* lost its only name.
LEMMA BecomesPending ==
  ASSUME NameInv, TypeInv, use' = use, NEW t \in Threads,
         \/ nextIno' = nextIno + 1 /\ ino'[t] = nextIno /\ dirent' = dirent
         \/ /\ nextIno' = nextIno /\ ino'[t] = ino[t] /\ ino[t] # 0
            /\ \E s \in Slots : dirent[s] = ino[t] /\ dirent' = [dirent EXCEPT ![s] = 0],
         \A u \in Threads : u # t => pc'[u] = pc[u] /\ ino'[u] = ino[u]
  PROVE  NameInv'
<1> SUFFICES ASSUME "link" \notin Ops'
             PROVE  NameInv'
  BY DEF NameInv
<1>1. "link" \notin Ops
  BY DEF Ops
<1>2. nextIno \in Nat /\ nextIno > 0 /\ nextIno' \in Nat /\ nextIno <= nextIno'
      /\ \A s \in Slots : dirent[s] \in Nat
  BY ConstantsAssumption DEF TypeInv
<1>3. \A s \in Slots : dirent'[s] \in {dirent[s], 0}
  BY DEF TypeInv
<1>4. ino'[t] # 0 /\ ino'[t] < nextIno' /\ \A s \in Slots : dirent'[s] # ino'[t]
  <2>1. CASE nextIno' = nextIno + 1 /\ ino'[t] = nextIno /\ dirent' = dirent
    BY <1>1, <1>2, <2>1 DEF NameInv
  <2>2. ASSUME NEW s \in Slots, dirent[s] = ino[t], dirent' = [dirent EXCEPT ![s] = 0],
               nextIno' = nextIno, ino'[t] = ino[t], ino[t] # 0
        PROVE  ino'[t] # 0 /\ ino'[t] < nextIno' /\ \A r \in Slots : dirent'[r] # ino'[t]
    <3>1. \A r \in Slots : dirent'[r] = IF r = s THEN 0 ELSE dirent[r]
      BY <2>2 DEF TypeInv
    <3>2. ino[t] < nextIno
      BY <1>1, <2>2 DEF NameInv
    <3>3. \A r \in Slots : r # s => dirent[r] # ino[t]
      BY <1>1, <2>2 DEF NameInv
    <3>4. QED
      BY <2>2, <3>1, <3>2, <3>3
  <2>3. QED
    BY <2>1, <2>2
<1>5. \A u \in Threads : u # t /\ Pending(u)' => Pending(u) /\ ino'[u] = ino[u]
  BY DEF Pending
<1>6. ASSUME NEW u \in Threads, u # t, Pending(u)'
      PROVE  /\ ino'[u] # 0 /\ ino'[u] < nextIno' /\ \A s \in Slots : dirent'[s] # ino'[u]
             /\ ino'[u] # ino'[t]
  <2>1. ino[u] # 0 /\ ino[u] < nextIno /\ \A s \in Slots : dirent[s] # ino[u]
    BY <1>1, <1>5, <1>6 DEF NameInv
  <2>2. ino[u] \in Nat
    BY DEF TypeInv
  <2>3. ino[u] # ino'[t]
    BY <1>2, <2>1, <2>2
  <2>4. QED
    BY <1>2, <1>3, <1>5, <1>6, <2>1, <2>2, <2>3
<1>7. \A s \in Slots : dirent'[s] < nextIno'
  BY <1>1, <1>2, <1>3 DEF NameInv
<1>8. \A r, s \in Slots : dirent'[r] = dirent'[s] /\ dirent'[r] # 0 => r = s
  BY <1>1, <1>3 DEF NameInv
<1>9. \A u, w \in Threads : u # w /\ Pending(u)' /\ Pending(w)' => ino'[u] # ino'[w]
  BY <1>1, <1>5, <1>6 DEF NameInv
<1>10. QED
  BY <1>4, <1>6, <1>7, <1>8, <1>9 DEF NameInv

LEMMA NameStep ==
  ASSUME IndInv, NameInv, [Next]_vars
  PROVE  NameInv'
<1> USE DEF store, history, request
<1>0. TypeInv /\ nextIno \in Nat
  BY ConstantsAssumption DEF IndInv, TypeInv
<1>1. ASSUME NEW t \in Threads, Begin(t), UNCHANGED use PROVE NameInv'
  <2>1. /\ nextIno' = nextIno /\ dirent' = dirent
        /\ pc'[t] \notin {"target", "name", "newname", "restore"}
        /\ \A u \in Threads : u # t => pc'[u] = pc[u] /\ ino'[u] = ino[u]
    BY <1>0, <1>1
       DEF Begin, MakeStart, UnlinkStart, RmdirStart, LinkStart, RenameStart, Grant, TypeInv
  <2>2. QED
    BY <1>0, <1>1, <2>1, NothingNamed DEF Pending
<1>2. ASSUME NEW t \in Threads, UNCHANGED use,
             \A s \in Slots : dirent'[s] \in {dirent[s], 0},
             nextIno' = nextIno \/ nextIno' = nextIno + 1,
             \/ Reply(t)
             \/ \E l \in PCs : Goto(t, l) /\ ino' = ino
                               /\ (l \in {"target", "name", "newname", "restore"} => Pending(t))
      PROVE  NameInv'
  <2>1. ASSUME NEW u \in Threads, Pending(u)' PROVE Pending(u) /\ ino'[u] = ino[u]
    BY <1>0, <1>2, <2>1 DEF Pending, Reply, Goto, TypeInv
  <2>2. nextIno' \in Nat /\ nextIno <= nextIno'
    BY <1>0, <1>2
  <2>3. QED
    BY <1>0, <1>2, <2>1, <2>2, NothingNamed
<1>3. ASSUME NEW t \in Threads, UNCHANGED use, nextIno' = nextIno, Pending(t),
             NEW s \in Slots, dirent' = [dirent EXCEPT ![s] = ino[t]],
             Reply(t) \/ (\E l \in {"parent", "parents"} : Goto(t, l) /\ ino' = ino)
      PROVE  NameInv'
  <2>1. ~Pending(t)' /\ \A u \in Threads : u # t => pc'[u] = pc[u] /\ ino'[u] = ino[u]
    BY <1>0, <1>3 DEF Pending, Reply, Goto, TypeInv
  <2>2. QED
    BY <1>0, <1>3, <2>1, Naming
<1>4. ASSUME NEW t \in Threads, MakeInode(t), UNCHANGED use PROVE NameInv'
  <2>1. nextIno' = nextIno + 1 /\ dirent' = dirent
    BY <1>4 DEF MakeInode
  <2>2. CASE Reply(t)
    BY <1>2, <1>4, <2>1, <2>2
  <2>3. CASE ino' = [ino EXCEPT ![t] = nextIno] /\ (\E l \in PCs : Goto(t, l))
    <3>1. /\ ino'[t] = nextIno
          /\ \A u \in Threads : u # t => pc'[u] = pc[u] /\ ino'[u] = ino[u]
      BY <1>0, <2>3 DEF Goto, TypeInv
    <3>2. QED
      BY <1>0, <1>4, <2>1, <3>1, BecomesPending
  <2>4. QED
    BY <1>4, <2>2, <2>3 DEF MakeInode, ReplyError, PCs
<1>5. ASSUME NEW t \in Threads, SymlinkTarget(t), UNCHANGED use PROVE NameInv'
  BY <1>2, <1>5 DEF SymlinkTarget, ReplyError, Pending, PCs
<1>6. ASSUME NEW t \in Threads, MakeName(t), UNCHANGED use PROVE NameInv'
  <2>1. at[t] \in Slots /\ Pending(t) /\ nextIno' = nextIno
    BY <1>6, AtPlace DEF MakeName, MakeStage, Pending
  <2>2. CASE dirent' = dirent /\ ReplyError(t)
    BY <1>2, <1>6, <2>1, <2>2 DEF ReplyError
  <2>3. CASE /\ dirent' = [dirent EXCEPT ![at[t]] = ino[t]]
             /\ ReplyOk(t) \/ (Goto(t, "parent") /\ ino' = ino)
    BY <1>3, <1>6, <2>1, <2>3 DEF ReplyOk
  <2>4. QED
    BY <1>6, <2>2, <2>3 DEF MakeName
<1>7. ASSUME NEW t \in Threads, UNCHANGED use,
             MkdirParent(t) \/ DropLink(t) \/ Purge(t) \/ DeleteInode(t) \/ LinkCount(t)
               \/ RenamePurge(t) \/ RenameDelete(t) \/ RenameParents(t)
      PROVE  NameInv'
  <2>1. dirent' = dirent /\ nextIno' = nextIno
    BY <1>7 DEF MkdirParent, DropLink, Purge, DeleteInode, LinkCount, RenamePurge, RenameDelete,
                RenameParents
  <2>2. \/ Reply(t)
        \/ \E l \in {"purge", "delete", "deletedst", "oldname"} : Goto(t, l) /\ ino' = ino
    BY <1>7 DEF MkdirParent, DropLink, Purge, DeleteInode, LinkCount, RenamePurge, RenameDelete,
                RenameParents, ReplyOk
  <2>3. QED
    BY <1>2, <1>7, <2>1, <2>2 DEF PCs
<1>8. ASSUME NEW t \in Threads, UNCHANGED use, RemoveName(t) \/ RenameReplace(t)
      PROVE  NameInv'
  <2>1. \A s \in Slots : dirent'[s] \in {dirent[s], 0}
    BY <1>0, <1>8 DEF RemoveName, RenameReplace, TypeInv
  <2>2. \/ Reply(t)
        \/ \E l \in {"unlink", "purgedst"} : Goto(t, l) /\ ino' = ino
    BY <1>8 DEF RemoveName, RenameReplace, ReplyError
  <2>3. nextIno' = nextIno
    BY <1>8 DEF RemoveName, RenameReplace
  <2>4. QED
    BY <1>2, <1>8, <2>1, <2>2, <2>3 DEF PCs
<1>9. ASSUME NEW t \in Threads, LinkName(t), UNCHANGED use PROVE NameInv'
  <2>1. "link" \in Ops'
    BY <1>9, AtPlace DEF LinkName, LinkStage, Ops
  <2>2. QED
    BY <2>1 DEF NameInv
<1>10. ASSUME NEW t \in Threads, RenameOldName(t), UNCHANGED use PROVE NameInv'
  <2>1. /\ at[t] \in Slots /\ dirent[at[t]] = ino[t] /\ ino[t] # 0 /\ nextIno' = nextIno
    BY <1>10, AtPlace DEF RenameOldName, RenameStage
  <2>2. CASE dirent' = dirent /\ RenameError(t)
    BY <1>2, <1>10, <2>1, <2>2 DEF RenameError
  <2>3. CASE dirent' = [dirent EXCEPT ![at[t]] = 0] /\ Goto(t, "newname") /\ ino' = ino
    <3>1. \A u \in Threads : u # t => pc'[u] = pc[u] /\ ino'[u] = ino[u]
      BY <1>0, <2>3 DEF Goto, TypeInv
    <3>2. QED
      BY <1>0, <1>10, <2>1, <2>3, <3>1, BecomesPending
  <2>4. QED
    BY <1>10, <2>2, <2>3 DEF RenameOldName, OldName
<1>11. ASSUME NEW t \in Threads, RenameNewName(t), UNCHANGED use PROVE NameInv'
  <2>1. to[t] \in Slots /\ Pending(t) /\ nextIno' = nextIno
    BY <1>11, AtPlace DEF RenameNewName, RenameStage, Pending
  <2>2. CASE dirent' = dirent /\ Goto(t, "restore") /\ ino' = ino
    BY <1>2, <1>11, <2>1, <2>2 DEF PCs
  <2>3. CASE /\ dirent' = [dirent EXCEPT ![to[t]] = ino[t]]
             /\ ReplyOk(t) \/ (Goto(t, "parents") /\ ino' = ino)
    BY <1>3, <1>11, <2>1, <2>3 DEF ReplyOk
  <2>4. QED
    BY <1>11, <2>2, <2>3 DEF RenameNewName
<1>12. ASSUME NEW t \in Threads, RenameRestore(t), UNCHANGED use PROVE NameInv'
  <2>1. at[t] \in Slots /\ Pending(t) /\ nextIno' = nextIno /\ Reply(t)
    BY <1>12, AtPlace DEF RenameRestore, RenameStage, Pending, RenameError
  <2>2. CASE dirent' = dirent
    BY <1>2, <1>12, <2>1, <2>2
  <2>3. CASE dirent' = [dirent EXCEPT ![at[t]] = ino[t]]
    BY <1>3, <1>12, <2>1, <2>3
  <2>4. QED
    BY <1>12, <2>2, <2>3 DEF RenameRestore
<1>13. ASSUME dirent' = dirent, nextIno' = nextIno, use' = use,
              \/ pc' = pc /\ ino' = ino
              \/ \A t \in Threads : pc'[t] = "idle"
       PROVE  NameInv'
  BY <1>0, <1>13, NothingNamed DEF Pending
<1>14. CASE Restart /\ UNCHANGED use
  BY <1>13, <1>14 DEF Restart, Remount
<1>15. CASE Crash /\ UNCHANGED use
  BY <1>13, <1>15 DEF Crash, Remount, ClearRequests
<1>16. ASSUME NEW i \in Inos, WriteData(i) \/ SetXattr(i) \/ RemoveXattr(i), UNCHANGED use
       PROVE  NameInv'
  BY <1>13, <1>16 DEF WriteData, SetXattr, RemoveXattr
<1>17. CASE UNCHANGED vars
  BY <1>13, <1>17 DEF vars
<1>18. QED
  BY <1>1, <1>4, <1>5, <1>6, <1>7, <1>8, <1>9, <1>10, <1>11, <1>12, <1>14, <1>15, <1>16, <1>17
     DEF Next, Continue

\* Without hard links no inode ever has two names, not even after a crash in the
\* middle of a rename: it removes the old name before it stores the new one.
THEOREM NamesUnique == Spec => []OneName
<1>1. Init => NameInv
  BY ConstantsAssumption DEF Init, NameInv, Pending, RootIno
<1>2. NameInv => OneName
  <2> SUFFICES ASSUME NameInv, "link" \notin Ops, NEW i \in Inos
               PROVE  Cardinality(NamesOf(i)) <= 1
    BY DEF OneName
  <2>1. i # 0
    BY ConstantsAssumption DEF Inos
  <2>2. CASE NamesOf(i) = {}
    BY <2>2, FS_EmptySet
  <2>3. CASE NamesOf(i) # {}
    <3>1. PICK s \in Slots : dirent[s] = i
      BY <2>3 DEF NamesOf
    <3>2. NamesOf(i) = {s}
      BY <2>1, <3>1 DEF NamesOf, NameInv
    <3>3. QED
      BY <3>2, FS_Singleton
  <2>4. QED
    BY <2>2, <2>3
<1>3. IndInv /\ NameInv /\ [Next]_vars => NameInv'
  BY NameStep
<1>4. QED
  BY <1>1, <1>2, <1>3, IndInvHolds, PTL DEF Spec

-----------------------------------------------------------------------------
(* No entry without its directory                                          *)

\* A thread has made an inode and not named it; moves or links a named one;
\* removes one; removes the target of a rename.
Fresh(t)     == pc[t] \in {"target", "name"}
Moving(t)    == pc[t] \in {"linkname", "count", "replace", "purgedst", "deletedst", "oldname",
                           "newname", "restore", "parents"}
Removing(t)  == pc[t] \in {"unname", "unlink", "purge", "delete"}
Replacing(t) == pc[t] \in {"replace", "purgedst", "deletedst"}

\* Inode i is not the directory of an entry that thread u works on.
NotParent(i, u) ==
  (at[u] \in Slots => at[u][1] # i) /\ (to[u] \in Slots => to[u][1] # i)

KindType == /\ kind \in [Inos -> {"none", "dir", "file"}]
            /\ dst \in [Threads -> 0 .. MaxIno]

NumberInv ==
  /\ \A i \in Inos : i >= nextIno => kind[i] = "none"
  /\ \A s \in Slots : dirent[s] < nextIno
  /\ \A t \in Threads : Moving(t) => ino[t] < nextIno

\* The directories of entries in work are there; what is removed is locked and
\* empty.
WorkInv ==
  \A t \in Threads :
    /\ at[t] \in Slots => IsDir(at[t][1])
    /\ to[t] \in Slots => IsDir(to[t][1])
    /\ Removing(t)  => \E i \in Inos : i = ino[t] /\ i \in locks[t] /\ Empty(i)
    /\ Replacing(t) => \E i \in Inos : /\ i = dst[t] /\ i \in locks[t] /\ Empty(i)
                                      /\ NotParent(i, t)

\* Nobody works on or below an inode that has no name yet.
FreshInv ==
  \A t \in Threads : Fresh(t) => \E i \in Inos :
    /\ i = ino[t] /\ i < nextIno /\ i # RootIno /\ Empty(i)
    /\ \A s \in Slots : dirent[s] # i
    /\ \A u \in Threads : /\ NotParent(i, u)
                          /\ Moving(u) => ino[u] # i
                          /\ Fresh(u) /\ u # t => ino[u] # i

ParentInv == KindType /\ NumberInv /\ WorkInv /\ FreshInv /\ ParentsExist

LEMMA SlotPairs == /\ \A s \in Slots : s[2] \in Names /\ s = <<s[1], s[2]>>
                   /\ \A i \in Inos, n \in Names : <<i, n>> \in Slots /\ <<i, n>>[1] = i
BY DEF Slots

\* An empty directory has no entry.
LEMMA EmptyFacts ==
  ASSUME NEW i \in Inos
  PROVE  Empty(i) <=> \A s \in Slots : s[1] = i => dirent[s] = 0
BY SlotPairs DEF Empty

\* A thread goes on or ends: it works on no new entry, names only what it was to
\* name, and removes only an inode nobody works in.
GoesOnOrEnds(t) ==
  /\ at'[t] \in {at[t], NoSlot} /\ to'[t] \in {to[t], NoSlot}
  /\ Moving(t)'    => Moving(t) /\ ino'[t] = ino[t]
  /\ Removing(t)'  => Removing(t) /\ ino'[t] = ino[t] /\ locks'[t] = locks[t]
  /\ Replacing(t)' => Replacing(t) /\ dst'[t] = dst[t] /\ locks'[t] = locks[t]
  /\ Fresh(t)'     => Fresh(t) /\ ino'[t] = ino[t] /\ dirent' = dirent

NamesOwn(t) ==
  \A s \in Slots : \/ dirent'[s] \in {dirent[s], 0}
                   \/ s \in {at[t], to[t]} /\ dirent'[s] = ino[t] /\ (Fresh(t) \/ Moving(t))

RemovesEmpty ==
  \/ kind' = kind
  \/ /\ dirent' = dirent
     /\ \E i \in Inos : /\ kind' = [kind EXCEPT ![i] = "none"] /\ Empty(i)
                        /\ \A u \in Threads : NotParent(i, u)'

LEMMA ParentsKept ==
  ASSUME IndInv, ParentInv, TypeInv', NEW t \in Threads, OthersKept(t), GoesOnOrEnds(t),
         dst' \in [Threads -> 0 .. MaxIno], \A u \in Threads : u # t => dst'[u] = dst[u],
         nextIno' \in {nextIno, nextIno + 1}, NamesOwn(t), RemovesEmpty
  PROVE  ParentInv'
<1> USE DEF ParentInv
<1>0. /\ TypeInv /\ LockInv /\ nextIno \in Nat /\ nextIno' \in Nat /\ nextIno <= nextIno'
      /\ \A i \in Inos : i \in Nat
      /\ NoSlot \notin Slots
  BY SlotFacts, ConstantsAssumption DEF IndInv, TypeInv, Inos
<1>1. /\ kind' \in [Inos -> {"none", "dir", "file"}]
      /\ \A i \in Inos : kind'[i] \in {kind[i], "none"}
  BY DEF RemovesEmpty, KindType
\* The directory of an entry that is there, or in work, stays.
<1>2. ASSUME NEW i \in Inos, IsDir(i),
             \/ \E s \in Slots : s[1] = i /\ dirent'[s] # 0
             \/ \E u \in Threads : ~NotParent(i, u)'
      PROVE  IsDir(i)'
  <2>1. CASE kind' = kind
    BY <1>2, <2>1 DEF IsDir
  <2>2. ASSUME NEW j \in Inos, kind' = [kind EXCEPT ![j] = "none"], Empty(j), dirent' = dirent,
               \A u \in Threads : NotParent(j, u)'
        PROVE  IsDir(i)'
    <3>1. i # j
      BY <1>2, <2>2, EmptyFacts
    <3>2. QED
      BY <1>2, <2>2, <3>1 DEF IsDir, KindType
  <2>3. QED
    BY <2>1, <2>2 DEF RemovesEmpty
<1>3. ParentsExist'
  <2> SUFFICES ASSUME NEW s \in Slots, dirent'[s] # 0
               PROVE  IsDir(s[1])'
    BY DEF ParentsExist
  <2>1. IsDir(s[1])
    BY <1>0 DEF NamesOwn, ParentsExist, WorkInv
  <2>2. QED
    BY <1>2, <2>1, SlotFacts
<1>4. NumberInv'
  <2>1. \A i \in Inos : i >= nextIno' => kind'[i] = "none"
    BY <1>0, <1>1 DEF NumberInv
  <2>2. ASSUME NEW s \in Slots PROVE dirent'[s] < nextIno'
    <3>1. dirent'[s] \in {dirent[s], 0, ino[t]} /\ dirent[s] \in Nat /\ ino[t] \in Nat
      BY <1>0, ConstantsAssumption DEF NamesOwn, TypeInv
    <3>2. dirent'[s] < nextIno
      BY <1>0, <3>1, ConstantsAssumption DEF NamesOwn, NumberInv, FreshInv, TypeInv
    <3>3. QED
      BY <1>0, <3>1, <3>2
  <2>3. ASSUME NEW u \in Threads, Moving(u)' PROVE ino'[u] < nextIno'
    <3>1. Moving(u) /\ ino'[u] = ino[u]
      BY <2>3 DEF GoesOnOrEnds, OthersKept, Moving
    <3>2. ino[u] < nextIno /\ ino[u] \in Nat
      BY <1>0, <3>1, ConstantsAssumption DEF NumberInv, TypeInv
    <3>3. QED
      BY <1>0, <3>1, <3>2
  <2>4. QED
    BY <2>1, <2>2, <2>3 DEF NumberInv
<1>5. ASSUME NEW u \in Threads
      PROVE  /\ at'[u] \in {at[u], NoSlot} /\ to'[u] \in {to[u], NoSlot}
             /\ \A i \in Inos : NotParent(i, u) => NotParent(i, u)'
  BY <1>0 DEF GoesOnOrEnds, OthersKept, NotParent
\* Nobody else puts an entry into an inode a thread holds.
<1>6. ASSUME NEW i \in Inos, Empty(i), NotParent(i, t) \/ ~(Fresh(t) \/ Moving(t))
      PROVE  Empty(i)'
  BY <1>6, EmptyFacts, SlotPairs DEF NamesOwn, NotParent, Empty
<1>7. ASSUME NEW u \in Threads, u # t, NEW i \in Inos, i \in locks[u]
      PROVE  NotParent(i, t)
  BY <1>0, <1>7, SlotFacts DEF LockInv, NotParent
<1>8. WorkInv'
  <2>1. ASSUME NEW u \in Threads
        PROVE  /\ at'[u] \in Slots => kind'[at'[u][1]] = "dir"
               /\ to'[u] \in Slots => kind'[to'[u][1]] = "dir"
    BY <1>0, <1>2, <1>5, SlotFacts DEF WorkInv, NotParent, IsDir
  <2>2. ASSUME NEW u \in Threads, Removing(u)'
        PROVE  \E i \in Inos : i = ino'[u] /\ i \in locks'[u] /\ Empty(i)'
    <3>1. Removing(u) /\ ino'[u] = ino[u] /\ locks'[u] = locks[u]
      BY <2>2 DEF GoesOnOrEnds, OthersKept, Removing
    <3>2. PICK i \in Inos : i = ino[u] /\ i \in locks[u] /\ Empty(i)
      BY <3>1 DEF WorkInv
    <3>3. NotParent(i, t) \/ ~(Fresh(t) \/ Moving(t))
      BY <1>7, <3>1, <3>2 DEF Removing, Fresh, Moving
    <3>4. Empty(i)'
      BY <1>6, <3>2, <3>3
    <3>5. QED
      BY <3>1, <3>2, <3>4
  <2>3. ASSUME NEW u \in Threads, Replacing(u)'
        PROVE  \E i \in Inos : /\ i = dst'[u] /\ i \in locks'[u] /\ Empty(i)'
                              /\ NotParent(i, u)'
    <3>1. Replacing(u) /\ dst'[u] = dst[u] /\ locks'[u] = locks[u]
      BY <2>3 DEF GoesOnOrEnds, OthersKept, Replacing
    <3>2. PICK i \in Inos : i = dst[u] /\ i \in locks[u] /\ Empty(i) /\ NotParent(i, u)
      BY <3>1 DEF WorkInv
    <3>3. NotParent(i, t)
      BY <1>7, <3>2
    <3>4. Empty(i)' /\ NotParent(i, u)'
      BY <1>5, <1>6, <3>2, <3>3
    <3>5. QED
      BY <3>1, <3>2, <3>4
  <2>4. QED
    BY <2>1, <2>2, <2>3 DEF WorkInv, IsDir
<1>9. FreshInv'
  <2> SUFFICES ASSUME NEW u \in Threads, Fresh(u)'
               PROVE  \E i \in Inos :
                        /\ i = ino'[u] /\ i < nextIno' /\ i # RootIno /\ Empty(i)'
                        /\ \A s \in Slots : dirent'[s] # i
                        /\ \A w \in Threads : /\ NotParent(i, w)'
                                              /\ Moving(w)' => ino'[w] # i
                                              /\ Fresh(w)' /\ w # u => ino'[w] # i
    BY DEF FreshInv
  <2>1. Fresh(u) /\ ino'[u] = ino[u]
    BY DEF GoesOnOrEnds, OthersKept, Fresh
  <2>2. PICK i \in Inos :
          /\ i = ino[u] /\ i < nextIno /\ i # RootIno /\ Empty(i)
          /\ \A s \in Slots : dirent[s] # i
          /\ \A w \in Threads : /\ NotParent(i, w)
                                /\ Moving(w) => ino[w] # i
                                /\ Fresh(w) /\ w # u => ino[w] # i
    BY <2>1 DEF FreshInv
  <2>3. i < nextIno' /\ i # 0
    BY <1>0, <2>2, ConstantsAssumption DEF Inos
  <2>4. Empty(i)' /\ \A w \in Threads : NotParent(i, w)'
    BY <1>5, <1>6, <2>2
  <2>5. \A s \in Slots : dirent'[s] # i
    <3>1. CASE u = t
      BY <2>2, <3>1 DEF GoesOnOrEnds
    <3>2. CASE u # t
      BY <2>2, <2>3, <3>2 DEF NamesOwn
    <3>3. QED
      BY <3>1, <3>2
  <2>6. ASSUME NEW w \in Threads
        PROVE  /\ Moving(w)' => ino'[w] # i
               /\ Fresh(w)' /\ w # u => ino'[w] # i
    <3>1. /\ Moving(w)' => Moving(w) /\ ino'[w] = ino[w]
          /\ Fresh(w)' => Fresh(w) /\ ino'[w] = ino[w]
      BY DEF GoesOnOrEnds, OthersKept, Moving, Fresh
    <3>2. QED
      BY <2>2, <3>1
  <2>7. QED
    BY <2>1, <2>2, <2>3, <2>4, <2>5, <2>6
<1>10. QED
  BY <1>1, <1>3, <1>4, <1>8, <1>9 DEF KindType

\* An inode that is in the tree is no new one.
InTree(i) == Named(i) \/ ~Empty(i)

LEMMA ParentsBegin ==
  ASSUME IndInv, ParentInv, NEW t \in Threads, OthersKept(t),
         dst' \in [Threads -> 0 .. MaxIno], \A u \in Threads : u # t => dst'[u] = dst[u],
         UNCHANGED <<dirent, kind, nextIno>>, ~Fresh(t)',
         \A s \in Slots : s \in {at'[t], to'[t]} => IsDir(s[1]) /\ InTree(s[1]),
         Moving(t)' => \E i \in Inos : i = ino'[t] /\ i < nextIno /\ Named(i),
         Removing(t)' => \E i \in Inos : i = ino'[t] /\ i \in locks'[t] /\ Empty(i),
         Replacing(t)' => \E i \in Inos : /\ i = dst'[t] /\ i \in locks'[t] /\ Empty(i)
                                          /\ NotParent(i, t)'
  PROVE  ParentInv'
<1> USE DEF ParentInv
<1>1. KindType' /\ ParentsExist'
  BY DEF KindType, ParentsExist, IsDir
<1>2. NumberInv'
  BY DEF NumberInv, OthersKept, Moving
<1>3. WorkInv'
  <2>1. ASSUME NEW u \in Threads
        PROVE  /\ at'[u] \in Slots => kind'[at'[u][1]] = "dir"
               /\ to'[u] \in Slots => kind'[to'[u][1]] = "dir"
    <3>1. CASE u = t
      BY <3>1 DEF IsDir
    <3>2. CASE u # t
      BY <3>2 DEF OthersKept, WorkInv, IsDir
    <3>3. QED
      BY <3>1, <3>2
  <2>2. ASSUME NEW u \in Threads, Removing(u)'
        PROVE  \E i \in Inos : i = ino'[u] /\ i \in locks'[u] /\ Empty(i)'
    <3>1. CASE u = t
      BY <2>2, <3>1 DEF Empty
    <3>2. CASE u # t
      BY <2>2, <3>2 DEF OthersKept, WorkInv, Removing, Empty
    <3>3. QED
      BY <3>1, <3>2
  <2>3. ASSUME NEW u \in Threads, Replacing(u)'
        PROVE  \E i \in Inos : /\ i = dst'[u] /\ i \in locks'[u] /\ Empty(i)'
                              /\ NotParent(i, u)'
    <3>1. CASE u = t
      BY <2>3, <3>1 DEF Empty
    <3>2. CASE u # t
      BY <2>3, <3>2 DEF OthersKept, WorkInv, Replacing, Empty, NotParent
    <3>3. QED
      BY <3>1, <3>2
  <2>4. QED
    BY <2>1, <2>2, <2>3 DEF WorkInv, IsDir
<1>4. FreshInv'
  <2> SUFFICES ASSUME NEW u \in Threads, Fresh(u)'
               PROVE  \E i \in Inos :
                        /\ i = ino'[u] /\ i < nextIno' /\ i # RootIno /\ Empty(i)'
                        /\ \A s \in Slots : dirent'[s] # i
                        /\ \A w \in Threads : /\ NotParent(i, w)'
                                              /\ Moving(w)' => ino'[w] # i
                                              /\ Fresh(w)' /\ w # u => ino'[w] # i
    BY DEF FreshInv
  <2>1. u # t /\ Fresh(u) /\ ino'[u] = ino[u]
    BY DEF OthersKept, Fresh
  <2>2. PICK i \in Inos :
          /\ i = ino[u] /\ i < nextIno /\ i # RootIno /\ Empty(i)
          /\ \A s \in Slots : dirent[s] # i
          /\ \A w \in Threads : /\ NotParent(i, w)
                                /\ Moving(w) => ino[w] # i
                                /\ Fresh(w) /\ w # u => ino[w] # i
    BY <2>1 DEF FreshInv
  <2>3. ~InTree(i)
    BY <2>2 DEF InTree, Named, NamesOf
  <2>4. ASSUME NEW w \in Threads
        PROVE  /\ NotParent(i, w)'
               /\ Moving(w)' => ino'[w] # i
               /\ Fresh(w)' /\ w # u => ino'[w] # i
    <3>1. CASE w = t
      BY <2>3, <3>1 DEF NotParent, InTree
    <3>2. CASE w # t
      BY <2>2, <3>2 DEF OthersKept, NotParent, Moving, Fresh
    <3>3. QED
      BY <3>1, <3>2
  <2>5. QED
    BY <2>1, <2>2, <2>4 DEF Empty
<1>5. QED
  BY <1>1, <1>2, <1>3, <1>4

LEMMA BeginParents ==
  ASSUME IndInv, ParentInv, NEW t \in Threads, Begin(t), UNCHANGED use
  PROVE  ParentInv'
<1> USE DEF store, history, ParentInv
<1>0. /\ TypeInv /\ KindType /\ 0 \in 0 .. MaxIno
      /\ \A s \in Slots : dirent[s] # 0 => dirent[s] \in Inos
      /\ \A i \in Inos : i \in Nat
  BY ConstantsAssumption DEF IndInv, TypeInv, Inos
<1>1. pc[t] = "idle" /\ at[t] = NoSlot /\ to[t] = NoSlot
  BY <1>0 DEF Begin, MakeStart, UnlinkStart, RmdirStart, LinkStart, RenameStart, CanSend,
              IndInv, Stage, IdleStage, MakeStage, UnlinkStage, LinkStage, RenameStage
\* A name is in a directory of the tree, and leads into the tree.
<1>2. ASSUME NEW s \in Slots, dirent[s] # 0
      PROVE  IsDir(s[1]) /\ InTree(s[1]) /\ dirent[s] < nextIno /\ Named(dirent[s])
  BY <1>2, EmptyFacts, SlotFacts DEF ParentsExist, InTree, NumberInv, Named, NamesOf
\* A file, and a directory that is to go, is empty.
<1>3. ASSUME NEW i \in Inos, ~IsDir(i) PROVE Empty(i)
  BY <1>3, EmptyFacts DEF ParentsExist
<1>4. ASSUME NEW name \in Ops, NEW s \in Slots, MakeStart(t, name, s) PROVE ParentInv'
  <2>1. /\ OthersKept(t) /\ at'[t] = s /\ to'[t] = NoSlot /\ pc'[t] = "make"
        /\ UNCHANGED <<dirent, kind, nextIno, dst>>
    BY <1>0, <1>1, <1>4 DEF MakeStart, Grant, OthersKept, TypeInv
  <2>2. IsDir(s[1]) /\ InTree(s[1])
    BY <1>4 DEF MakeStart, InTree
  <2>3. ~Fresh(t)' /\ ~Moving(t)' /\ ~Removing(t)' /\ ~Replacing(t)'
    BY <2>1 DEF Fresh, Moving, Removing, Replacing
  <2>4. QED
    BY <1>0, <2>1, <2>2, <2>3, ParentsBegin, SlotFacts DEF KindType
<1>5. ASSUME NEW s \in Slots, UnlinkStart(t, s) \/ RmdirStart(t, s) PROVE ParentInv'
  <2>1. /\ OthersKept(t) /\ at'[t] = s /\ to'[t] = NoSlot /\ pc'[t] = "unname"
        /\ ino'[t] = dirent[s] /\ locks'[t] = {s[1], dirent[s]}
        /\ UNCHANGED <<dirent, kind, nextIno, dst>>
    BY <1>0, <1>1, <1>5 DEF UnlinkStart, RmdirStart, Grant, OthersKept, TypeInv
  <2>2. dirent[s] # 0 /\ (kind[dirent[s]] = "file" \/ Empty(dirent[s]))
    BY <1>5 DEF UnlinkStart, RmdirStart
  <2>3. dirent[s] \in Inos /\ Empty(dirent[s])
    BY <1>0, <1>3, <2>2 DEF IsDir
  <2>4. ~Fresh(t)' /\ ~Moving(t)' /\ ~Replacing(t)'
    BY <2>1 DEF Fresh, Moving, Replacing
  <2>5. QED
    BY <1>0, <1>2, <2>1, <2>2, <2>3, <2>4, ParentsBegin, SlotFacts DEF KindType
<1>6. ASSUME NEW i \in Inos, NEW s \in Slots, LinkStart(t, i, s) PROVE ParentInv'
  <2>1. /\ OthersKept(t) /\ to'[t] = s /\ at'[t] = NoSlot /\ pc'[t] = "linkname"
        /\ ino'[t] = i /\ UNCHANGED <<dirent, kind, nextIno, dst>>
    BY <1>0, <1>1, <1>6 DEF LinkStart, Grant, OthersKept, TypeInv
  <2>2. IsDir(s[1]) /\ InTree(s[1]) /\ Named(i) /\ kind[i] = "file"
    BY <1>6 DEF LinkStart, InTree
  <2>3. i < nextIno
    BY <1>0, <2>2 DEF NumberInv, TypeInv
  <2>4. ~Fresh(t)' /\ ~Removing(t)' /\ ~Replacing(t)'
    BY <2>1 DEF Fresh, Removing, Replacing
  <2>5. QED
    BY <1>0, <2>1, <2>2, <2>3, <2>4, ParentsBegin, SlotFacts DEF KindType
<1>7. ASSUME NEW s \in Slots, NEW d \in Slots, RenameStart(t, s, d) PROVE ParentInv'
  <2> DEFINE old == IF Resolves(d) THEN dirent[d] ELSE 0
             S   == {s[1], d[1]} \cup ({old} \ {0})
                      \cup (IF IsDir(dirent[s]) THEN {} ELSE {dirent[s]})
  <2>1. /\ OthersKept(t) /\ at'[t] = s /\ to'[t] = d /\ ino'[t] = dirent[s]
        /\ pc'[t] = IF old = 0 THEN "oldname" ELSE "replace"
        /\ locks'[t] = S /\ dst' = [dst EXCEPT ![t] = old]
        /\ UNCHANGED <<dirent, kind, nextIno>>
    BY <1>0, <1>7 DEF RenameStart, Grant, OthersKept, TypeInv
  <2>2. /\ dirent[s] # 0 /\ IsDir(d[1]) /\ InTree(d[1])
        /\ old # 0 /\ IsDir(old) => Empty(old)
    BY <1>7 DEF RenameStart, Resolves, InTree
  <2>3. old # 0 => dirent[d] = old /\ old \in S
    OBVIOUS
  <2>4. old \in 0 .. MaxIno
    BY <1>0 DEF TypeInv
  <2> HIDE DEF old, S
  <2>5. /\ dst' \in [Threads -> 0 .. MaxIno] /\ dst'[t] = old
        /\ \A u \in Threads : u # t => dst'[u] = dst[u]
    BY <1>0, <2>1, <2>4 DEF KindType
  <2>6. ASSUME Replacing(t)'
        PROVE  \E i \in Inos : i = dst'[t] /\ i \in locks'[t] /\ Empty(i) /\ NotParent(i, t)'
    <3>1. old # 0 /\ old \in Inos /\ dirent[d] = old /\ old \in S
      BY <1>0, <2>1, <2>3, <2>6 DEF Replacing
    <3>2. Empty(old)
      BY <1>3, <2>2, <3>1
    <3>3. s[1] # old /\ d[1] # old
      BY <2>2, <3>1, <3>2, EmptyFacts
    <3>4. \A i \in Inos : i = old => NotParent(i, t)'
      BY <2>1, <3>3 DEF NotParent
    <3>5. QED
      BY <2>1, <2>5, <3>1, <3>2, <3>4
  <2>7. ~Fresh(t)' /\ ~Removing(t)'
    BY <2>1 DEF Fresh, Removing
  <2>8. QED
    BY <1>0, <1>2, <2>1, <2>2, <2>5, <2>6, <2>7, ParentsBegin
<1>8. QED
  BY <1>4, <1>5, <1>6, <1>7 DEF Begin

\* A new inode has the next number, under which nothing is stored.
LEMMA ParentsMake ==
  ASSUME IndInv, ParentInv, NEW t \in Threads, MakeInode(t), ~Reply(t), UNCHANGED use
  PROVE  ParentInv'
<1> USE DEF ParentInv, history
<1>0. /\ TypeInv /\ LockInv /\ KindType /\ nextIno \in Nat /\ nextIno \in Inos
      /\ nextIno # RootIno
      /\ \A i \in Inos : i \in Nat
  BY ConstantsAssumption DEF IndInv, TypeInv, Inos, MakeInode, RootIno
<1>1. /\ pc[t] = "make" /\ OthersKept(t) /\ at' = at /\ to' = to /\ dst' = dst
      /\ locks' = locks /\ dirent' = dirent /\ nextIno' = nextIno + 1
      /\ pc'[t] \in {"target", "name"} /\ ino'[t] = nextIno
      /\ kind' = [kind EXCEPT ![nextIno] = SavedKind(op[t])]
  BY <1>0 DEF MakeInode, Goto, ReplyError, OthersKept, TypeInv
<1>2. /\ \A i \in Inos : i # nextIno => kind'[i] = kind[i]
      /\ kind[nextIno] = "none" /\ ~IsDir(nextIno)
  BY <1>0, <1>1 DEF NumberInv, IsDir, KindType
<1>3. KindType'
  BY <1>1 DEF KindType, SavedKind
<1>4. ParentsExist' /\ Empty(nextIno)
  BY <1>0, <1>1, <1>2, SlotFacts, EmptyFacts DEF ParentsExist, IsDir
<1>5. NumberInv'
  <2>1. \A i \in Inos : i >= nextIno' => kind'[i] = "none"
    BY <1>0, <1>1, <1>2 DEF NumberInv
  <2>2. \A s \in Slots : dirent'[s] < nextIno'
    BY <1>0, <1>1 DEF NumberInv, TypeInv
  <2>3. ASSUME NEW u \in Threads, Moving(u)' PROVE ino'[u] < nextIno'
    <3>1. u # t /\ Moving(u) /\ ino'[u] = ino[u] /\ ino[u] \in 0 .. MaxIno
      BY <1>0, <1>1, <2>3 DEF Moving, OthersKept, TypeInv
    <3>2. QED
      BY <1>0, <1>1, <3>1 DEF NumberInv
  <2>4. QED
    BY <2>1, <2>2, <2>3 DEF NumberInv
\* Nobody works in it.
<1>6. ASSUME NEW u \in Threads
      PROVE  /\ NotParent(nextIno, u)
             /\ \A i \in Inos : NotParent(i, u) => NotParent(i, u)'
  BY <1>1, <1>2 DEF WorkInv, NotParent
<1>7. WorkInv'
  <2>1. ASSUME NEW u \in Threads
        PROVE  /\ at'[u] \in Slots => kind'[at'[u][1]] = "dir"
               /\ to'[u] \in Slots => kind'[to'[u][1]] = "dir"
    BY <1>1, <1>2, <1>6, SlotFacts DEF WorkInv, IsDir, NotParent
  <2>2. ASSUME NEW u \in Threads, Removing(u)'
        PROVE  \E i \in Inos : i = ino'[u] /\ i \in locks'[u] /\ Empty(i)'
    BY <1>1, <2>2 DEF OthersKept, WorkInv, Removing, Empty
  <2>3. ASSUME NEW u \in Threads, Replacing(u)'
        PROVE  \E i \in Inos : /\ i = dst'[u] /\ i \in locks'[u] /\ Empty(i)'
                              /\ NotParent(i, u)'
    BY <1>1, <1>6, <2>3 DEF OthersKept, WorkInv, Replacing, Empty
  <2>4. QED
    BY <2>1, <2>2, <2>3 DEF WorkInv, IsDir
<1>8. FreshInv'
  <2> SUFFICES ASSUME NEW u \in Threads, Fresh(u)'
               PROVE  \E i \in Inos :
                        /\ i = ino'[u] /\ i < nextIno' /\ i # RootIno /\ Empty(i)'
                        /\ \A s \in Slots : dirent'[s] # i
                        /\ \A w \in Threads : /\ NotParent(i, w)'
                                              /\ Moving(w)' => ino'[w] # i
                                              /\ Fresh(w)' /\ w # u => ino'[w] # i
    BY DEF FreshInv
  <2>1. /\ Moving(t)' = FALSE
        /\ \A w \in Threads : w # t => /\ Moving(w)' => Moving(w) /\ ino'[w] = ino[w]
                                       /\ Fresh(w)'  => Fresh(w) /\ ino'[w] = ino[w]
    BY <1>1 DEF OthersKept, Moving, Fresh
  <2>2. CASE u = t
    <3>1. \A s \in Slots : dirent'[s] # nextIno
      BY <1>0, <1>1 DEF NumberInv
    <3>2. ASSUME NEW w \in Threads, w # t, Moving(w)' \/ Fresh(w)' PROVE ino'[w] # nextIno
      <4>1. ino'[w] = ino[w] /\ ino[w] < nextIno
        BY <2>1, <3>2 DEF NumberInv, FreshInv
      <4>2. QED
        BY <1>0, <4>1
    <3>3. PICK n \in Inos : n = nextIno
      BY <1>0
    <3>4. nextIno < nextIno' /\ nextIno = ino'[u]
      BY <1>0, <1>1, <2>2
    <3>5. \A w \in Threads : /\ Moving(w)' => ino'[w] # nextIno
                             /\ Fresh(w)' /\ w # u => ino'[w] # nextIno
      BY <2>1, <2>2, <3>2
    <3>6. Empty(n)' /\ \A w \in Threads : NotParent(n, w)'
      BY <1>1, <1>4, <1>6, <3>3 DEF Empty
    <3>7. n = ino'[u] /\ n < nextIno' /\ n # RootIno /\ \A s \in Slots : dirent'[s] # n
      BY <1>0, <3>1, <3>3, <3>4
    <3>8. QED
      BY <3>3, <3>5, <3>6, <3>7
  <2>3. CASE u # t
    <3>1. PICK i \in Inos :
            /\ i = ino[u] /\ i < nextIno /\ i # RootIno /\ Empty(i)
            /\ \A s \in Slots : dirent[s] # i
            /\ \A w \in Threads : /\ NotParent(i, w)
                                  /\ Moving(w) => ino[w] # i
                                  /\ Fresh(w) /\ w # u => ino[w] # i
      BY <2>1, <2>3 DEF FreshInv
    <3>2. i < nextIno' /\ i # nextIno /\ ino'[u] = i
      <4>1. i \in Nat /\ i < nextIno
        BY <1>0, <3>1
      <4>2. ino'[u] = i
        BY <2>1, <2>3, <3>1
      <4>3. QED
        BY <1>0, <1>1, <4>1, <4>2
    <3>3. Empty(i)' /\ \A s \in Slots : dirent'[s] # i
      BY <1>1, <3>1 DEF Empty
    <3>4. ASSUME NEW w \in Threads
          PROVE  /\ NotParent(i, w)'
                 /\ Moving(w)' => ino'[w] # i
                 /\ Fresh(w)' /\ w # u => ino'[w] # i
      BY <1>1, <1>6, <2>1, <3>1, <3>2
    <3>5. QED
      BY <3>1, <3>2, <3>3, <3>4
  <2>4. QED
    BY <2>2, <2>3
<1>9. QED
  BY <1>3, <1>4, <1>5, <1>7, <1>8

\* A step that touches neither the tree nor a request's entries.
LEMMA ParentsSame ==
  ASSUME ParentInv, UNCHANGED <<dirent, kind, nextIno>>,
         \/ UNCHANGED <<pc, at, to, ino, dst, locks>>
         \/ /\ ClearRequests /\ dst' \in [Threads -> 0 .. MaxIno]
            /\ \A t \in Threads : ~Fresh(t)' /\ ~Moving(t)' /\ ~Removing(t)' /\ ~Replacing(t)'
            /\ \A t \in Threads : at'[t] \notin Slots /\ to'[t] \notin Slots
  PROVE  ParentInv'
<1> USE DEF ParentInv
<1>1. KindType' /\ ParentsExist'
  BY DEF KindType, ParentsExist, IsDir
<1>2. CASE UNCHANGED <<pc, at, to, ino, dst, locks>>
  BY <1>1, <1>2 DEF NumberInv, WorkInv, FreshInv, Moving, Removing, Replacing, Fresh, Empty,
                    IsDir, NotParent
<1>3. CASE /\ \A t \in Threads : ~Fresh(t)' /\ ~Moving(t)' /\ ~Removing(t)' /\ ~Replacing(t)'
           /\ \A t \in Threads : at'[t] \notin Slots /\ to'[t] \notin Slots
  BY <1>1, <1>3 DEF NumberInv, WorkInv, FreshInv
<1>4. QED
  BY <1>2, <1>3

LEMMA ParentsContinue ==
  ASSUME IndInv, ParentInv, TypeInv', NEW t \in Threads,
         Reply(t) \/ (\E l \in PCs : Goto(t, l) /\ UNCHANGED request),
         Fresh(t)' => Fresh(t) /\ dirent' = dirent, Moving(t)' => Moving(t),
         Removing(t)' => Removing(t), Replacing(t)' => Replacing(t),
         nextIno' \in {nextIno, nextIno + 1}, NamesOwn(t), RemovesEmpty
  PROVE  ParentInv'
<1>0. TypeInv /\ KindType /\ 0 \in 0 .. MaxIno
  BY ConstantsAssumption DEF IndInv, ParentInv
<1>1. OthersKept(t) /\ \A u \in Threads : u # t => dst'[u] = dst[u]
  BY <1>0 DEF Reply, Goto, request, OthersKept, TypeInv, KindType
<1>2. dst' \in [Threads -> 0 .. MaxIno]
  BY <1>0 DEF Reply, request, KindType
<1>3. CASE Reply(t)
  <2>1. at'[t] = NoSlot /\ to'[t] = NoSlot /\ pc'[t] = "idle"
    BY <1>0, <1>3 DEF Reply, TypeInv
  <2>2. GoesOnOrEnds(t)
    BY <2>1 DEF GoesOnOrEnds, Fresh, Moving, Removing, Replacing
  <2>3. QED
    BY <1>1, <1>2, <2>2, ParentsKept
<1>4. CASE \E l \in PCs : Goto(t, l) /\ UNCHANGED request
  <2>1. GoesOnOrEnds(t)
    BY <1>4 DEF GoesOnOrEnds, request
  <2>2. QED
    BY <1>1, <1>2, <2>1, ParentsKept
<1>5. QED
  BY <1>3, <1>4

\* An inode that is removed is empty, and no request has an entry in it.
LEMMA FreshRemoved ==
  ASSUME IndInv, ParentInv, NEW t \in Threads, Fresh(t), UndoInode(t), Reply(t),
         dirent' = dirent
  PROVE  RemovesEmpty
<1>1. PICK i \in Inos : i = ino[t] /\ Empty(i) /\ \A u \in Threads : NotParent(i, u)
  BY DEF ParentInv, FreshInv
<1>2. \A u \in Threads : NotParent(i, u)'
  BY <1>1, SlotFacts DEF NotParent, Reply, IndInv, TypeInv
<1>3. QED
  BY <1>1, <1>2 DEF RemovesEmpty, UndoInode

LEMMA LockedRemoved ==
  ASSUME IndInv, ParentInv, NEW t \in Threads, NEW i \in Inos, i \in locks[t], Empty(i),
         \/ Reply(t)
         \/ NotParent(i, t) /\ UNCHANGED <<at, to>>,
         kind' = [kind EXCEPT ![i] = "none"], dirent' = dirent
  PROVE  RemovesEmpty
<1>1. TypeInv /\ LockInv
  BY DEF IndInv
<1>2. ASSUME NEW u \in Threads, u # t PROVE NotParent(i, u)
  BY <1>1, <1>2, SlotFacts DEF LockInv, NotParent
<1>3. \A u \in Threads : NotParent(i, u)'
  BY <1>1, <1>2, SlotFacts DEF NotParent, Reply, TypeInv
<1>4. QED
  BY <1>3 DEF RemovesEmpty

LEMMA ParentStep ==
  ASSUME IndInv, ParentInv, IndInv', [Next]_vars
  PROVE  ParentInv'
<1> USE DEF store, history
<1>0. /\ TypeInv /\ TypeInv' /\ KindType /\ \A t \in Threads : dst[t] \in 0 .. MaxIno
      /\ 0 \in 0 .. MaxIno
  BY ConstantsAssumption DEF IndInv, ParentInv, KindType
<1> DEFINE Goes(t, l) == Goto(t, l) /\ UNCHANGED request
<1>1. ASSUME NEW t \in Threads, nextIno' = nextIno, NamesOwn(t), RemovesEmpty,
             \/ Reply(t)
             \/ pc[t] = "target" /\ Goes(t, "name") /\ dirent' = dirent
             \/ pc[t] = "name" /\ Goes(t, "parent")
             \/ Removing(t) /\ (\E l \in {"unlink", "purge", "delete"} : Goes(t, l))
             \/ Moving(t) /\ (\E l \in {"count", "oldname", "newname", "restore", "parents"} :
                                Goes(t, l))
             \/ Replacing(t) /\ (\E l \in {"purgedst", "deletedst"} : Goes(t, l))
      PROVE  ParentInv'
  <2>1. Reply(t) \/ (\E l \in PCs : Goto(t, l) /\ UNCHANGED request)
    BY <1>1 DEF PCs
  <2>2. /\ Fresh(t)' => Fresh(t) /\ dirent' = dirent
        /\ Moving(t)' => Moving(t)
        /\ Removing(t)' => Removing(t)
        /\ Replacing(t)' => Replacing(t)
    BY <1>0, <1>1 DEF Reply, Goto, TypeInv, Fresh, Moving, Removing, Replacing
  <2>3. QED
    BY <1>0, <1>1, <2>1, <2>2, ParentsContinue
<1>2. ASSUME dirent' = dirent, kind' = kind
      PROVE  RemovesEmpty /\ \A t \in Threads : NamesOwn(t)
  BY <1>2 DEF RemovesEmpty, NamesOwn
<1>3. ASSUME NEW t \in Threads, MakeInode(t), UNCHANGED use PROVE ParentInv'
  <2>1. CASE ~Reply(t)
    BY <1>3, <2>1, ParentsMake
  <2>2. CASE Reply(t)
    <3>1. /\ pc'[t] = "idle" /\ nextIno' = nextIno + 1 /\ dirent' = dirent
      BY <1>0, <1>3, <2>2 DEF MakeInode, Reply, TypeInv
    <3>2. kind' = kind
      BY <1>0, <1>3, <3>1 DEF MakeInode, Goto, TypeInv
    <3>3. ~Fresh(t)' /\ ~Moving(t)' /\ ~Removing(t)' /\ ~Replacing(t)'
      BY <3>1 DEF Fresh, Moving, Removing, Replacing
    <3>4. QED
      BY <1>0, <1>2, <2>2, <3>1, <3>2, <3>3, ParentsContinue
  <2>3. QED
    BY <2>1, <2>2
<1>4. ASSUME NEW t \in Threads, SymlinkTarget(t), UNCHANGED use PROVE ParentInv'
  <2>1. pc[t] = "target" /\ Fresh(t) /\ dirent' = dirent /\ nextIno' = nextIno
    BY <1>4 DEF SymlinkTarget, Fresh
  <2>2. CASE Goes(t, "name") /\ kind' = kind
    BY <1>1, <1>2, <2>1, <2>2
  <2>3. CASE UndoInode(t) /\ Reply(t)
    <3>1. RemovesEmpty /\ NamesOwn(t)
      BY <2>1, <2>3, FreshRemoved DEF NamesOwn
    <3>2. QED
      BY <1>1, <2>1, <2>3, <3>1
  <2>4. QED
    BY <1>4, <2>2, <2>3 DEF SymlinkTarget, ReplyError
<1>5. ASSUME NEW t \in Threads, MakeName(t), UNCHANGED use PROVE ParentInv'
  <2>1. pc[t] = "name" /\ Fresh(t) /\ nextIno' = nextIno /\ at[t] \in Slots
    BY <1>5, AtPlace DEF MakeName, Fresh, MakeStage
  <2>2. CASE dirent' = [dirent EXCEPT ![at[t]] = ino[t]] /\ kind' = kind
             /\ (Goes(t, "parent") \/ Reply(t))
    <3>1. NamesOwn(t) /\ RemovesEmpty
      BY <1>0, <2>1, <2>2 DEF NamesOwn, RemovesEmpty, TypeInv
    <3>2. QED
      BY <1>1, <2>1, <2>2, <3>1
  <2>3. CASE UndoInode(t) /\ Reply(t) /\ dirent' = dirent
    <3>1. RemovesEmpty /\ NamesOwn(t)
      BY <2>1, <2>3, FreshRemoved DEF NamesOwn
    <3>2. QED
      BY <1>1, <2>1, <2>3, <3>1
  <2>4. QED
    BY <1>5, <2>2, <2>3 DEF MakeName, ReplyError, ReplyOk
<1>6. ASSUME NEW t \in Threads, UNCHANGED use,
             MkdirParent(t) \/ DropLink(t) \/ Purge(t) \/ LinkCount(t) \/ RenamePurge(t)
               \/ RenameParents(t)
      PROVE  ParentInv'
  <2>1. dirent' = dirent /\ kind' = kind /\ nextIno' = nextIno
    BY <1>6 DEF MkdirParent, DropLink, Purge, LinkCount, RenamePurge, RenameParents
  <2>2. \/ Reply(t)
        \/ Removing(t) /\ (\E l \in {"unlink", "purge", "delete"} : Goes(t, l))
        \/ Replacing(t) /\ (\E l \in {"purgedst", "deletedst"} : Goes(t, l))
    BY <1>6 DEF MkdirParent, DropLink, Purge, LinkCount, RenamePurge, RenameParents, ReplyOk,
                Removing, Replacing
  <2>3. QED
    BY <1>1, <1>2, <2>1, <2>2
<1>7. ASSUME NEW t \in Threads, DeleteInode(t), UNCHANGED use PROVE ParentInv'
  <2>1. dirent' = dirent /\ nextIno' = nextIno /\ Reply(t) /\ Removing(t)
    BY <1>7 DEF DeleteInode, ReplyOk, Removing
  <2>2. PICK i \in Inos : i = ino[t] /\ i \in locks[t] /\ Empty(i)
    BY <2>1 DEF ParentInv, WorkInv
  <2>3. RemovesEmpty /\ NamesOwn(t)
    BY <1>7, <2>1, <2>2, LockedRemoved DEF DeleteInode, RemovesEmpty, NamesOwn
  <2>4. QED
    BY <1>1, <2>1, <2>3
<1>8. ASSUME NEW t \in Threads, RenameDelete(t), UNCHANGED use PROVE ParentInv'
  <2>1. /\ dirent' = dirent /\ nextIno' = nextIno /\ Goes(t, "oldname")
        /\ Replacing(t) /\ Moving(t)
    BY <1>8 DEF RenameDelete, Replacing, Moving
  <2>2. PICK i \in Inos : i = dst[t] /\ i \in locks[t] /\ Empty(i) /\ NotParent(i, t)
    BY <2>1 DEF ParentInv, WorkInv
  <2>3. RemovesEmpty /\ NamesOwn(t)
    BY <1>8, <2>1, <2>2, LockedRemoved DEF RenameDelete, RemovesEmpty, NamesOwn, request
  <2>4. QED
    BY <1>1, <2>1, <2>3
\* Names come and go only in the entries of the thread.
<1>9. ASSUME NEW t \in Threads, NEW s \in Slots, s \in {at[t], to[t]}, kind' = kind,
             \/ dirent' = dirent
             \/ dirent' = [dirent EXCEPT ![s] = 0]
             \/ dirent' = [dirent EXCEPT ![s] = ino[t]] /\ Moving(t)
      PROVE  NamesOwn(t) /\ RemovesEmpty
  BY <1>0, <1>9 DEF NamesOwn, RemovesEmpty, TypeInv
<1>10. ASSUME NEW t \in Threads, RemoveName(t), UNCHANGED use PROVE ParentInv'
  <2>1. at[t] \in Slots /\ Removing(t) /\ kind' = kind /\ nextIno' = nextIno
    BY <1>10, AtPlace DEF RemoveName, Removing, UnlinkStage
  <2>2. NamesOwn(t) /\ RemovesEmpty
    BY <1>9, <1>10, <2>1 DEF RemoveName
  <2>3. Reply(t) \/ Goes(t, "unlink")
    BY <1>10 DEF RemoveName, ReplyError, request
  <2>4. QED
    BY <1>1, <2>1, <2>2, <2>3
<1>11. ASSUME NEW t \in Threads, LinkName(t), UNCHANGED use PROVE ParentInv'
  <2>1. to[t] \in Slots /\ Moving(t) /\ kind' = kind /\ nextIno' = nextIno
    BY <1>11, AtPlace DEF LinkName, Moving, LinkStage
  <2>2. NamesOwn(t) /\ RemovesEmpty
    BY <1>9, <1>11, <2>1 DEF LinkName
  <2>3. Reply(t) \/ Goes(t, "count")
    BY <1>11 DEF LinkName, ReplyError, request
  <2>4. QED
    BY <1>1, <2>1, <2>2, <2>3
<1>12. ASSUME NEW t \in Threads, RenameReplace(t), UNCHANGED use PROVE ParentInv'
  <2>1. to[t] \in Slots /\ Replacing(t) /\ kind' = kind /\ nextIno' = nextIno
    BY <1>12, AtPlace DEF RenameReplace, Replacing, RenameStage
  <2>2. NamesOwn(t) /\ RemovesEmpty
    BY <1>9, <1>12, <2>1 DEF RenameReplace
  <2>3. Goes(t, "purgedst")
    BY <1>12 DEF RenameReplace, request
  <2>4. QED
    BY <1>1, <2>1, <2>2, <2>3
<1>13. ASSUME NEW t \in Threads, UNCHANGED use,
              RenameOldName(t) \/ RenameNewName(t) \/ RenameRestore(t)
       PROVE  ParentInv'
  <2>1. /\ at[t] \in Slots /\ to[t] \in Slots /\ Moving(t) /\ kind' = kind
        /\ nextIno' = nextIno
    BY <1>13, AtPlace DEF RenameOldName, RenameNewName, RenameRestore, Moving, RenameStage
  <2>2. NamesOwn(t) /\ RemovesEmpty
    BY <1>9, <1>13, <2>1 DEF RenameOldName, RenameNewName, RenameRestore, OldName
  <2>3. Reply(t) \/ (\E l \in {"newname", "restore", "parents"} : Goes(t, l))
    BY <1>13 DEF RenameOldName, RenameNewName, RenameRestore, RenameError, ReplyOk, request
  <2>4. QED
    BY <1>1, <2>1, <2>2, <2>3
<1>14. CASE Restart /\ UNCHANGED use
  BY <1>14, ParentsSame DEF Restart, Remount, request
<1>15. CASE Crash /\ UNCHANGED use
  <2>1. ClearRequests /\ UNCHANGED <<dirent, kind, nextIno>>
    BY <1>15 DEF Crash, Remount
  <2>2. dst' \in [Threads -> 0 .. MaxIno] /\ \A t \in Threads : at'[t] \notin Slots
                                                              /\ to'[t] \notin Slots
    BY <1>0, <2>1, SlotFacts DEF ClearRequests
  <2>3. \A t \in Threads : ~Fresh(t)' /\ ~Moving(t)' /\ ~Removing(t)' /\ ~Replacing(t)'
    BY <2>1 DEF ClearRequests, Fresh, Moving, Removing, Replacing
  <2>4. QED
    BY <2>1, <2>2, <2>3, ParentsSame
<1>16. ASSUME NEW i \in Inos, WriteData(i) \/ SetXattr(i) \/ RemoveXattr(i), UNCHANGED use
       PROVE  ParentInv'
  BY <1>16, ParentsSame DEF WriteData, SetXattr, RemoveXattr, request
<1>17. CASE UNCHANGED vars
  BY <1>17, ParentsSame DEF vars
<1>18. ASSUME NEW t \in Threads, Begin(t), UNCHANGED use PROVE ParentInv'
  BY <1>18, BeginParents
<1>19. QED
  BY <1>3, <1>4, <1>5, <1>6, <1>7, <1>8, <1>10, <1>11, <1>12, <1>13, <1>14, <1>15, <1>16, <1>17,
     <1>18
     DEF Next, Continue

LEMMA ParentInvHolds == Spec => []ParentInv
<1>1. Init => ParentInv
  <2> SUFFICES ASSUME Init PROVE ParentInv
    OBVIOUS
  <2>1. KindType /\ NumberInv
    BY ConstantsAssumption DEF Init, KindType, NumberInv, RootIno, Moving, Inos
  <2>2. WorkInv /\ FreshInv /\ ParentsExist
    BY SlotFacts DEF Init, WorkInv, FreshInv, ParentsExist, Removing, Replacing, Fresh
  <2>3. QED
    BY <2>1, <2>2 DEF ParentInv
<1>2. IndInv /\ ParentInv /\ IndInv' /\ [Next]_vars => ParentInv'
  BY ParentStep
<1>3. QED
  BY <1>1, <1>2, IndInvHolds, PTL DEF Spec

\* Nothing is ever stored under a directory that is gone, whatever requests the
\* threads have in progress and wherever a call fails or the process crashes.
THEOREM ParentsStay == Spec => []ParentsExist
<1>1. ParentInv => ParentsExist
  BY DEF ParentInv
<1>2. QED
  BY <1>1, ParentInvHolds, PTL

-----------------------------------------------------------------------------
(* Names and link counts                                                   *)

\* A rename does not look at the result of the first removal; what follows is
\* about stores on which it does not fail.
Clean == "rename" \in Ops => ~Faults

\* What slot s stands for in the link counts: a name is counted before it is
\* stored or afterwards, and is counted until nlink goes down.
AtDue(t) ==
  IF pc[t] \in {"target", "name", "unlink", "newname", "restore", "parents"}
    THEN ino[t] ELSE dirent[at[t]]
ToDue(t) ==
  CASE pc[t] = "purgedst" -> dst[t]
    [] pc[t] \in {"count", "deletedst", "parents"} -> 0
    [] OTHER -> dirent[to[t]]
due == [s \in Slots |->
          IF \E t \in Threads : at[t] = s THEN AtDue(CHOOSE t \in Threads : at[t] = s)
          ELSE IF \E t \in Threads : to[t] = s THEN ToDue(CHOOSE t \in Threads : to[t] = s)
          ELSE dirent[s]]

Claims(i) == {s \in Slots : due[s] = i}

\* A directory that its parent does not count yet.
NewDir(s) == \E t \in Threads : at[t] = s /\ op[t] = "mkdir" /\ pc[t] \in {"name", "parent"}
Subs(d)   == {s \in Slots : s[1] = d /\ due[s] # 0 /\ IsDir(due[s]) /\ ~NewDir(s)}

\* The inode that a thread is about to delete, which lost its name.
Held(t) == CASE pc[t] \in {"purge", "delete"} -> ino[t]
             [] pc[t] = "deletedst" -> dst[t]
             [] OTHER -> 0
IsHeld(i) == \E t \in Threads : Held(t) = i

\* An inode that has one name at most.
Single(i) == "link" \notin Ops \/ kind[i] = "dir"

\* Where no name is ever left without its inode.
Resolving == /\ "rename" \in Ops => "link" \notin Ops
             /\ "link" \in Ops => restarts + crashes = 0

Work(t) ==
  /\ op[t] = "rename" => "rename" \in Ops
  /\ pc[t] \in {"make", "target", "name"} => dirent[at[t]] = 0
  /\ pc[t] \in {"target", "name", "parent"} => kind[ino[t]] = SavedKind(op[t])
  /\ pc[t] = "target" => op[t] = "symlink"
  /\ pc[t] = "parent" => op[t] = "mkdir"
  /\ pc[t] \in {"parent", "newname", "parents"} => ino[t] # 0
  /\ pc[t] = "unname" => dirent[at[t]] = ino[t]
  /\ Removing(t) => /\ ino[t] < nextIno
                    /\ kind[ino[t]] = IF op[t] = "rmdir" THEN "dir" ELSE "file"
  /\ pc[t] = "linkname" => dirent[to[t]] = 0
  /\ pc[t] \in {"linkname", "count"} => ino[t] \in locks[t] /\ kind[ino[t]] = "file"
  /\ Replacing(t) => dst[t] < nextIno /\ kind[dst[t]] # "none"
  /\ pc[t] = "replace" => dirent[to[t]] = dst[t]
  /\ pc[t] \in {"purgedst", "deletedst"} => dirent[to[t]] = 0
  /\ pc[t] \in {"oldname", "newname"} => dirent[to[t]] = 0 \/ kind[dirent[to[t]]] = "none"
  /\ pc[t] # "restore"
  /\ pc[t] = "parents" => kind[ino[t]] = "dir" /\ at[t][1] # to[t][1]

WorksInv == \A t \in Threads : Work(t)

\* A new inode belongs to its request alone.
AloneInv ==
  \A t \in Threads : Fresh(t) =>
    /\ \A s \in Slots : due[s] = ino[t] => s = at[t]
    /\ \A u \in Threads : /\ Removing(u)  => ino[u] # ino[t]
                          /\ Replacing(u) => dst[u] # ino[t]

UniqueInv ==
  \A r, s \in Slots : due[r] = due[s] /\ due[r] # 0 /\ Single(due[r]) => r = s
GoneInv ==
  \A t \in Threads : Held(t) # 0 /\ (Single(Held(t)) \/ Resolving) =>
    \A s \in Slots : due[s] # Held(t)
AliveInv ==
  Resolving => \A s \in Slots : due[s] # 0 => kind[due[s]] # "none"
OrphanInv ==
  crashes = 0 /\ ~Faults =>
    \A i \in Inos : kind[i] # "none" => i = RootIno \/ IsHeld(i) \/ \E s \in Slots : due[s] = i
UpperInv ==
  crashes = 0 /\ ~Faults =>
    \A i \in Inos : kind[i] = "file" /\ ~IsHeld(i) => nlink[i] <= Cardinality(Claims(i))
LowerInv ==
  restarts + crashes = 0 =>
    \A i \in Inos : kind[i] = "file" => Cardinality(Claims(i)) <= nlink[i]
SubsInv ==
  Undisturbed => \A d \in Inos : kind[d] = "dir" => nlink[d] = 2 + Cardinality(Subs(d))

\* Blocks and attributes belong to inodes, and go before them.
Records ==
  /\ data \subseteq sized
  /\ \A i \in data : kind[i] = "file"
  /\ \A i \in xattr : kind[i] # "none"
  /\ \A t \in Threads : pc[t] \in {"delete", "deletedst"} => Held(t) \notin data \cup xattr
RecordInv == Undisturbed => Records

Links   == /\ kind[RootIno] # "file" /\ nlink \in [Inos -> Nat]
           /\ UniqueInv /\ GoneInv /\ AliveInv /\ OrphanInv /\ UpperInv /\ LowerInv /\ SubsInv
RemountInv ==
  restarts \in Nat /\ crashes \in Nat /\ restarts + crashes <= MaxRemounts
LinkInv == RemountInv /\ WorksInv /\ AloneInv /\ Links

-----------------------------------------------------------------------------

\* What the counts stand for, slot by slot.
DueFacts ==
  /\ due \in [Slots -> 0 .. MaxIno]
  /\ \A t \in Threads : /\ at[t] \in Slots => due[at[t]] = AtDue(t)
                        /\ to[t] \in Slots => due[to[t]] = ToDue(t)
  /\ \A s \in Slots : s \notin InFlight => due[s] = dirent[s]

LEMMA DueIs == IndInv /\ ParentInv => DueFacts
<1> SUFFICES ASSUME IndInv, ParentInv PROVE DueFacts
  OBVIOUS
<1>1. ASSUME NEW t \in Threads, at[t] \in Slots PROVE due[at[t]] = AtDue(t)
  <2>1. \A u \in Threads : at[u] = at[t] => u = t
    BY <1>1, EntriesApart
  <2>2. (CHOOSE u \in Threads : at[u] = at[t]) = t
    BY <2>1
  <2>3. QED
    BY <1>1, <2>2 DEF due
<1>2. ASSUME NEW t \in Threads, to[t] \in Slots PROVE due[to[t]] = ToDue(t)
  <2>1. at[t] # to[t]
    BY <1>2, SlotFacts
       DEF IndInv, Stage, IdleStage, MakeStage, UnlinkStage, LinkStage, RenameStage
  <2>2. \A u \in Threads : (to[u] = to[t] => u = t) /\ at[u] # to[t]
    BY <1>2, <2>1, EntriesApart
  <2>3. (CHOOSE u \in Threads : to[u] = to[t]) = t
    BY <2>2
  <2>4. QED
    BY <1>2, <2>2, <2>3 DEF due
<1>3. ASSUME NEW s \in Slots, s \notin InFlight PROVE due[s] = dirent[s]
  BY <1>3 DEF due, InFlight
<1>4. due \in [Slots -> 0 .. MaxIno]
  <2>1. \A t \in Threads : /\ at[t] \in Slots => AtDue(t) \in 0 .. MaxIno
                           /\ to[t] \in Slots => ToDue(t) \in 0 .. MaxIno
    BY ConstantsAssumption DEF AtDue, ToDue, IndInv, TypeInv, ParentInv, KindType
  <2>2. \A s \in Slots : due[s] \in 0 .. MaxIno
    BY <1>1, <1>2, <1>3, <2>1 DEF InFlight, IndInv, TypeInv
  <2>3. QED
    BY <2>2 DEF due
<1>5. QED
  BY <1>1, <1>2, <1>3, <1>4 DEF DueFacts

LEMMA DueIsNext == (IndInv /\ ParentInv)' => DueFacts'
BY DueIs, PTL

NamesApart(t) == \A s \in Slots : s # at[t] /\ s # to[t] => dirent'[s] = dirent[s]

\* Every slot of another thread, and of none, is counted as it was.
LEMMA DueStep ==
  ASSUME IndInv, ParentInv, IndInv', ParentInv', NEW t \in Threads, OthersKept(t),
         \A u \in Threads : u # t => dst'[u] = dst[u], NamesApart(t),
         at'[t] \in {at[t], NoSlot}, to'[t] \in {to[t], NoSlot}
  PROVE  /\ \A s \in Slots : s # at[t] /\ s # to[t] => due'[s] = due[s]
         /\ at[t] \in Slots => due'[at[t]] = IF at'[t] = at[t] THEN AtDue(t)' ELSE dirent'[at[t]]
         /\ to[t] \in Slots => due'[to[t]] = IF to'[t] = to[t] THEN ToDue(t)' ELSE dirent'[to[t]]
<1>1. DueFacts /\ DueFacts'
  BY DueIs, DueIsNext
<1>2. ASSUME NEW u \in Threads, u # t
      PROVE  /\ at'[u] = at[u] /\ to'[u] = to[u]
             /\ at[u] \in Slots => at[u] # at[t] /\ at[u] # to[t] /\ AtDue(u)' = AtDue(u)
             /\ to[u] \in Slots => to[u] # at[t] /\ to[u] # to[t] /\ ToDue(u)' = ToDue(u)
  <2>1. /\ at[u] \in Slots => at[u] # at[t] /\ at[u] # to[t]
        /\ to[u] \in Slots => to[u] # at[t] /\ to[u] # to[t]
    BY <1>2, EntriesApart
  <2>2. at'[u] = at[u] /\ to'[u] = to[u] /\ pc'[u] = pc[u] /\ ino'[u] = ino[u] /\ dst'[u] = dst[u]
    BY <1>2 DEF OthersKept
  <2>3. /\ at[u] \in Slots => dirent'[at[u]] = dirent[at[u]]
        /\ to[u] \in Slots => dirent'[to[u]] = dirent[to[u]]
    BY <2>1 DEF NamesApart
  <2>4. /\ at[u] \in Slots => AtDue(u)' = AtDue(u)
        /\ to[u] \in Slots => ToDue(u)' = ToDue(u)
    BY <2>2, <2>3 DEF AtDue, ToDue
  <2>5. QED
    BY <2>1, <2>2, <2>4
<1>3. ASSUME NEW s \in Slots, s # at[t], s # to[t] PROVE due'[s] = due[s]
  <2>1. CASE \E u \in Threads : u # t /\ s = at[u]
    BY <1>1, <1>2, <2>1 DEF DueFacts
  <2>2. CASE \E u \in Threads : u # t /\ s = to[u]
    BY <1>1, <1>2, <2>2 DEF DueFacts
  <2>3. CASE \A u \in Threads : s # at[u] /\ s # to[u]
    <3>1. s \notin InFlight /\ s \notin InFlight'
      BY <1>2, <2>3, SlotFacts DEF InFlight
    <3>2. dirent'[s] = dirent[s]
      BY <1>3 DEF NamesApart
    <3>3. QED
      BY <1>1, <3>1, <3>2 DEF DueFacts
  <2>4. QED
    BY <1>3, <2>1, <2>2, <2>3
<1>4. ASSUME at[t] \in Slots
      PROVE  due'[at[t]] = IF at'[t] = at[t] THEN AtDue(t)' ELSE dirent'[at[t]]
  <2>1. CASE at'[t] = at[t]
    BY <1>1, <1>4, <2>1 DEF DueFacts
  <2>2. CASE at'[t] # at[t]
    <3>1. at'[t] = NoSlot /\ to'[t] # at[t]
      BY <1>4, <2>2, SlotFacts
         DEF IndInv, Stage, IdleStage, MakeStage, UnlinkStage, LinkStage, RenameStage
    <3>2. at[t] \notin InFlight'
      BY <1>2, <1>4, <3>1, SlotFacts DEF InFlight
    <3>3. QED
      BY <1>1, <1>4, <2>2, <3>2 DEF DueFacts
  <2>3. QED
    BY <2>1, <2>2
<1>5. ASSUME to[t] \in Slots
      PROVE  due'[to[t]] = IF to'[t] = to[t] THEN ToDue(t)' ELSE dirent'[to[t]]
  <2>1. CASE to'[t] = to[t]
    BY <1>1, <1>5, <2>1 DEF DueFacts
  <2>2. CASE to'[t] # to[t]
    <3>1. to'[t] = NoSlot /\ at'[t] # to[t]
      BY <1>5, <2>2, SlotFacts
         DEF IndInv, Stage, IdleStage, MakeStage, UnlinkStage, LinkStage, RenameStage
    <3>2. to[t] \notin InFlight'
      BY <1>2, <1>5, <3>1, SlotFacts DEF InFlight
    <3>3. QED
      BY <1>1, <1>5, <2>2, <3>2 DEF DueFacts
  <2>3. QED
    BY <2>1, <2>2
<1>6. QED
  BY <1>3, <1>4, <1>5

\* A request that begins changes no count.
LEMMA DueBegin ==
  ASSUME IndInv, ParentInv, IndInv', ParentInv', NEW t \in Threads, OthersKept(t),
         \A u \in Threads : u # t => dst'[u] = dst[u], dirent' = dirent,
         at[t] = NoSlot, to[t] = NoSlot,
         pc'[t] \in {"make", "unname", "linkname", "oldname", "replace"}
  PROVE  due' = due
<1>1. DueFacts /\ DueFacts'
  BY DueIs, DueIsNext
<1>2. ASSUME NEW u \in Threads, u # t
      PROVE  /\ at'[u] = at[u] /\ to'[u] = to[u]
             /\ AtDue(u)' = AtDue(u) /\ ToDue(u)' = ToDue(u)
  BY <1>2 DEF OthersKept, AtDue, ToDue
<1>3. AtDue(t)' = dirent[at'[t]] /\ ToDue(t)' = dirent[to'[t]]
  BY DEF AtDue, ToDue
<1>4. ASSUME NEW s \in Slots PROVE due'[s] = due[s]
  <2>1. CASE \E u \in Threads : u # t /\ s = at[u]
    BY <1>1, <1>2, <2>1 DEF DueFacts
  <2>2. CASE \E u \in Threads : u # t /\ s = to[u]
    BY <1>1, <1>2, <2>2 DEF DueFacts
  <2>3. CASE \A u \in Threads : u # t => s # at[u] /\ s # to[u]
    <3>1. due[s] = dirent[s]
      BY <1>1, <2>3, SlotFacts DEF DueFacts, InFlight
    <3>2. CASE s = at'[t]
      BY <1>1, <1>3, <3>1, <3>2 DEF DueFacts
    <3>3. CASE s = to'[t]
      BY <1>1, <1>3, <3>1, <3>3 DEF DueFacts
    <3>4. CASE s # at'[t] /\ s # to'[t]
      <4>1. s \notin InFlight'
        BY <1>2, <2>3, <3>4 DEF InFlight
      <4>2. QED
        BY <1>1, <3>1, <4>1 DEF DueFacts
    <3>5. QED
      BY <3>2, <3>3, <3>4
  <2>4. QED
    BY <2>1, <2>2, <2>3
<1>5. QED
  BY <1>1, <1>4 DEF DueFacts

LEMMA DueSame ==
  ASSUME UNCHANGED <<dirent, pc, op, at, to, ino, dst>>
  PROVE  due' = due /\ \A s : NewDir(s)' = NewDir(s)
BY DEF due, AtDue, ToDue, NewDir

\* What is counted has a number that was given, in a directory.
LEMMA DueRange ==
  ASSUME IndInv, ParentInv, WorksInv, NEW s \in Slots
  PROVE  /\ due[s] \in 0 .. MaxIno /\ due[s] < nextIno
         /\ due[s] # 0 => due[s] \in Inos /\ IsDir(s[1])
<1> USE DEF ParentInv
<1>1. DueFacts
  BY DueIs
<1>2. due[s] \in 0 .. MaxIno /\ 0 < nextIno /\ nextIno \in Nat
  BY <1>1, ConstantsAssumption DEF DueFacts, IndInv, TypeInv
<1>3. due[s] # 0 => due[s] \in Inos
  BY <1>2, ConstantsAssumption DEF Inos
<1>4. ASSUME NEW t \in Threads, s = at[t] PROVE due[s] < nextIno /\ IsDir(s[1])
  <2>1. due[s] = AtDue(t) /\ IsDir(s[1])
    BY <1>1, <1>4 DEF DueFacts, WorkInv
  <2>2. \/ AtDue(t) = dirent[s]
        \/ AtDue(t) = ino[t] /\ (Fresh(t) \/ Removing(t) \/ Moving(t))
    BY <1>4 DEF AtDue, Fresh, Removing, Moving
  <2>3. QED
    BY <2>1, <2>2 DEF NumberInv, FreshInv, WorksInv, Work
<1>5. ASSUME NEW t \in Threads, s = to[t] PROVE due[s] < nextIno /\ IsDir(s[1])
  <2>1. due[s] = ToDue(t) /\ IsDir(s[1])
    BY <1>1, <1>5 DEF DueFacts, WorkInv
  <2>2. ToDue(t) = 0 \/ ToDue(t) = dirent[s] \/ (ToDue(t) = dst[t] /\ Replacing(t))
    BY <1>5 DEF ToDue, Replacing
  <2>3. QED
    BY <1>2, <2>1, <2>2 DEF NumberInv, WorksInv, Work
<1>6. s \notin InFlight => due[s] < nextIno /\ (due[s] # 0 => IsDir(s[1]))
  BY <1>1 DEF DueFacts, NumberInv, ParentsExist
<1>7. due[s] < nextIno /\ (due[s] # 0 => IsDir(s[1]))
  BY <1>4, <1>5, <1>6 DEF InFlight
<1>8. QED
  BY <1>2, <1>3, <1>7

\* A name is counted, unless a link or a rename is about to count it.
LEMMA NameCounted ==
  ASSUME IndInv, ParentInv, WorksInv, NEW s \in Slots, dirent[s] # 0, due[s] # dirent[s]
  PROVE  \E t \in Threads : /\ s = to[t] /\ ino[t] = dirent[s]
                            /\ \/ pc[t] = "count"
                               \/ /\ pc[t] = "parents" /\ at[t] \in Slots
                                  /\ dirent[at[t]] = 0 /\ due[at[t]] = ino[t]
<1>1. DueFacts
  BY DueIs
<1>2. PICK t \in Threads : s = at[t] \/ s = to[t]
  BY <1>1 DEF DueFacts, InFlight
<1>3. CASE s = at[t]
  <2>1. AtDue(t) # dirent[s]
    BY <1>1, <1>3 DEF DueFacts
  <2>2. pc[t] \in {"target", "name", "unlink", "newname", "restore", "parents"}
    BY <1>3, <2>1 DEF AtDue
  <2>3. dirent[s] = 0
    BY <1>3, <2>2, AtPlace DEF WorksInv, Work, UnlinkStage, RenameStage
  <2>4. QED
    BY <2>3
<1>4. CASE s = to[t]
  <2>1. ToDue(t) # dirent[s]
    BY <1>1, <1>4 DEF DueFacts
  <2>2. pc[t] \in {"purgedst", "count", "deletedst", "parents"}
    BY <1>4, <2>1 DEF ToDue
  <2>3. pc[t] \notin {"purgedst", "deletedst"}
    BY <1>4, <2>2 DEF WorksInv, Work
  <2>4. CASE pc[t] = "count"
    BY <1>4, <2>4, AtPlace DEF LinkStage
  <2>5. CASE pc[t] = "parents"
    <3>1. at[t] \in Slots /\ dirent[at[t]] = 0 /\ dirent[to[t]] = ino[t]
      BY <2>5, AtPlace DEF RenameStage
    <3>2. due[at[t]] = ino[t]
      BY <1>1, <2>5, <3>1 DEF DueFacts, AtDue
    <3>3. QED
      BY <1>4, <2>5, <3>1, <3>2
  <2>6. QED
    BY <2>2, <2>3, <2>4, <2>5
<1>5. QED
  BY <1>2, <1>3, <1>4

\* An inode that a request needs as it is.
Needs(u, i) ==
  \/ ino[u] = i /\ pc[u] \in {"target", "name", "parent", "unname", "unlink", "purge", "delete",
                              "linkname", "count", "parents"}
  \/ dst[u] = i /\ Replacing(u)

\* An inode is new, or is deleted while no other request needs it.
KindStep(t) ==
  \A i \in Inos : \/ kind'[i] = kind[i]
                  \/ i = nextIno
                  \/ kind'[i] = "none" /\ \A u \in Threads : u # t => ~Needs(u, i)

LEMMA OtherWork ==
  ASSUME IndInv, ParentInv, WorksInv, NEW t \in Threads, OthersKept(t), NamesApart(t),
         use' = use, nextIno' \in {nextIno, nextIno + 1}, KindStep(t),
         NEW u \in Threads, u # t, dst'[u] = dst[u]
  PROVE  Work(u)'
<1> USE DEF ParentInv
<1>1. /\ pc'[u] = pc[u] /\ op'[u] = op[u] /\ at'[u] = at[u] /\ to'[u] = to[u]
      /\ ino'[u] = ino[u] /\ locks'[u] = locks[u] /\ dst'[u] = dst[u]
  BY DEF OthersKept
<1>2. /\ at[u] \in Slots => dirent'[at[u]] = dirent[at[u]]
      /\ to[u] \in Slots => dirent'[to[u]] = dirent[to[u]]
  BY EntriesApart DEF NamesApart
<1>3. Work(u) /\ TypeInv /\ KindType /\ Ops' = Ops
  BY DEF WorksInv, IndInv, Ops
<1>4. ASSUME NEW i \in 0 .. MaxIno, Needs(u, i), i # 0, i < nextIno PROVE kind'[i] = kind[i]
  <2>1. i \in Inos /\ i # nextIno
    BY <1>3, <1>4, ConstantsAssumption DEF Inos, TypeInv
  <2>2. QED
    BY <1>4, <2>1 DEF KindStep
<1>5. ASSUME Fresh(u) \/ Removing(u) \/ pc[u] \in {"linkname", "count", "parents"}
      PROVE  kind'[ino[u]] = kind[ino[u]] /\ ino[u] < nextIno'
  <2>1. ino[u] \in 0 .. MaxIno /\ nextIno \in Nat
    BY <1>3 DEF TypeInv
  <2>2. ino[u] # 0 /\ ino[u] < nextIno
    <3>1. CASE Fresh(u)
      BY <3>1, ConstantsAssumption DEF FreshInv, Inos
    <3>2. CASE Removing(u)
      BY <1>3, <3>2, ConstantsAssumption DEF WorkInv, Work, Inos
    <3>3. CASE pc[u] \in {"linkname", "count", "parents"}
      <4>1. ino[u] < nextIno
        BY <3>3 DEF NumberInv, Moving
      <4>2. ino[u] # 0
        <5>1. CASE pc[u] \in {"linkname", "count"}
          BY <1>3, <5>1 DEF Work, TypeInv, Inos
        <5>2. CASE pc[u] = "parents"
          BY <1>3, <5>2 DEF Work
        <5>3. QED
          BY <3>3, <5>1, <5>2
      <4>3. QED
        BY <4>1, <4>2
    <3>4. QED
      BY <1>5, <3>1, <3>2, <3>3
  <2>3. QED
    BY <1>4, <1>5, <2>1, <2>2 DEF Needs, Fresh, Removing
<1>6. ASSUME NEW s \in Slots, s = to[u], dirent[s] # 0, kind[dirent[s]] = "none"
      PROVE  kind'[dirent[s]] = "none"
  <2>1. dirent[s] \in Inos /\ dirent[s] # nextIno
    BY <1>3, <1>6, ConstantsAssumption DEF Inos, TypeInv, NumberInv
  <2>2. QED
    BY <1>6, <2>1 DEF KindStep
<1>7. /\ pc[u] \in {"make", "target", "name", "unname"} => at[u] \in Slots
      /\ pc[u] \in {"linkname", "replace", "purgedst", "deletedst", "oldname", "newname"} =>
           to[u] \in Slots
  BY AtPlace DEF MakeStage, UnlinkStage, LinkStage, RenameStage
<1>8. nextIno \in Nat /\ nextIno' \in Nat /\ nextIno <= nextIno' /\ dst[u] \in Nat
  BY <1>3 DEF TypeInv, KindType
<1>9. /\ op'[u] = "rename" => "rename" \in Ops'
      /\ pc'[u] \in {"make", "target", "name"} => dirent'[at'[u]] = 0
      /\ pc'[u] = "target" => op'[u] = "symlink"
      /\ pc'[u] = "parent" => op'[u] = "mkdir"
      /\ pc'[u] \in {"parent", "newname", "parents"} => ino'[u] # 0
      /\ pc'[u] = "unname" => dirent'[at'[u]] = ino'[u]
      /\ pc'[u] = "linkname" => dirent'[to'[u]] = 0
      /\ pc'[u] = "replace" => dirent'[to'[u]] = dst'[u]
      /\ pc'[u] \in {"purgedst", "deletedst"} => dirent'[to'[u]] = 0
      /\ pc'[u] # "restore"
  BY <1>1, <1>2, <1>3, <1>7 DEF Work
<1>10. /\ Fresh(u) => kind'[ino'[u]] = SavedKind(op'[u])
       /\ Removing(u) => /\ ino'[u] < nextIno'
                         /\ kind'[ino'[u]] = IF op'[u] = "rmdir" THEN "dir" ELSE "file"
       /\ pc[u] \in {"linkname", "count"} => ino'[u] \in locks'[u] /\ kind'[ino'[u]] = "file"
       /\ pc[u] = "parents" => kind'[ino'[u]] = "dir" /\ at'[u][1] # to'[u][1]
  BY <1>1, <1>3, <1>5 DEF Work, Fresh
<1>11. pc[u] = "parent" => kind'[ino'[u]] = SavedKind(op'[u])
  <2> SUFFICES ASSUME pc[u] = "parent" PROVE kind'[ino[u]] = kind[ino[u]]
    BY <1>1, <1>3 DEF Work
  <2>1. at[u] \in Slots /\ dirent[at[u]] = ino[u] /\ kind[ino[u]] = "dir"
    BY <1>3, AtPlace DEF MakeStage, Work, SavedKind
  <2>2. QED
    BY <1>3, <1>4, <2>1 DEF Needs, NumberInv, TypeInv, Work
<1>12. Replacing(u) => dst'[u] < nextIno' /\ kind'[dst'[u]] # "none"
  <2> SUFFICES ASSUME Replacing(u) PROVE dst[u] < nextIno' /\ kind'[dst[u]] # "none"
    BY <1>1
  <2>1. dst[u] \in Inos /\ dst[u] < nextIno /\ kind[dst[u]] # "none"
    BY <1>3 DEF Work, WorkInv
  <2>2. kind'[dst[u]] = kind[dst[u]]
    BY <1>4, <2>1 DEF Needs, Inos
  <2>3. QED
    BY <1>8, <2>1, <2>2
<1>13. pc[u] \in {"oldname", "newname"} => dirent'[to'[u]] = 0 \/ kind'[dirent'[to'[u]]] = "none"
  BY <1>1, <1>2, <1>3, <1>6, <1>7 DEF Work
<1>14. /\ Removing(u)' = Removing(u) /\ Replacing(u)' = Replacing(u)
       /\ pc'[u] \in {"target", "name", "parent"} => Fresh(u) \/ pc[u] = "parent"
  BY <1>1 DEF Removing, Replacing, Fresh
<1>15. QED
  BY <1>1, <1>9, <1>10, <1>11, <1>12, <1>13, <1>14 DEF Work

-----------------------------------------------------------------------------
(* Steps of the counts                                                     *)

LEMMA SlotsFinite == IsFiniteSet(Slots)
<1>1. 1 \in Int /\ MaxIno \in Int
  BY ConstantsAssumption
<1>2. IsFiniteSet(Inos)
  BY <1>1, FS_Interval DEF Inos
<1>3. QED
  BY <1>2, ConstantsAssumption, FS_Product DEF Slots

LEMMA SlotCounts ==
  ASSUME NEW S \in SUBSET Slots
  PROVE  /\ Cardinality(S) \in Nat
         /\ Cardinality(S) = 0 <=> S = {}
         /\ \A s \in S : Cardinality(S \ {s}) = Cardinality(S) - 1
         /\ \A s \in Slots \ S : Cardinality(S \cup {s}) = Cardinality(S) + 1
         /\ \A T \in SUBSET S : Cardinality(T) <= Cardinality(S)
<1>1. IsFiniteSet(S)
  BY SlotsFinite, FS_Subset
<1>2. Cardinality(S) \in Nat /\ (Cardinality(S) = 0 <=> S = {})
  BY <1>1, FS_CardinalityType, FS_EmptySet
<1>3. \A s \in S : Cardinality(S \ {s}) = Cardinality(S) - 1
  BY <1>1, FS_RemoveElement
<1>4. \A s \in Slots \ S : Cardinality(S \cup {s}) = Cardinality(S) + 1
  BY <1>1, FS_AddElement
<1>5. \A T \in SUBSET S : Cardinality(T) <= Cardinality(S)
  BY <1>1, FS_Subset
<1>6. QED
  BY <1>2, <1>3, <1>4, <1>5

\* A slot moves from one place to another.
LEMMA SlotMoved ==
  ASSUME NEW S \in SUBSET Slots, NEW a \in S, NEW b \in Slots, b \notin S
  PROVE  Cardinality((S \ {a}) \cup {b}) = Cardinality(S)
<1>1. Cardinality(S \ {a}) = Cardinality(S) - 1 /\ Cardinality(S) \in Nat
  BY SlotCounts
<1>2. S \ {a} \in SUBSET Slots /\ b \in Slots \ (S \ {a})
  OBVIOUS
<1>3. Cardinality((S \ {a}) \cup {b}) = Cardinality(S \ {a}) + 1
  BY <1>2, SlotCounts
<1>4. QED
  BY <1>1, <1>3

LEMMA ClaimFacts ==
  /\ \A i : Claims(i) \in SUBSET Slots /\ Subs(i) \in SUBSET Slots
  /\ \A i, s : s \in Claims(i) <=> s \in Slots /\ due[s] = i
BY DEF Claims, Subs

LEMMA ClaimFactsNext ==
  /\ \A i : Claims(i)' \in SUBSET Slots /\ Subs(i)' \in SUBSET Slots
  /\ \A i, s : s \in Claims(i)' <=> s \in Slots /\ due'[s] = i
BY DEF Claims, Subs

SameUse == UNCHANGED <<use, restarts, crashes>>

LEMMA SameFlags ==
  ASSUME SameUse
  PROVE  /\ Resolving' <=> Resolving
         /\ Undisturbed' <=> Undisturbed
         /\ Faults' <=> Faults
         /\ Ops' = Ops
BY DEF SameUse, Resolving, Undisturbed, Faults, Ops

\* The counts stay, and what they are about.
Quiet ==
  /\ due' = due /\ kind' = kind /\ nlink' = nlink
  /\ \A u \in Threads : Held(u)' = Held(u)
  /\ \A s \in Slots : NewDir(s)' <=> NewDir(s)

LEMMA QuietLinks ==
  ASSUME Links, Quiet, SameUse
  PROVE  Links'
<1>1. /\ \A i : Claims(i)' = Claims(i) /\ Subs(i)' = Subs(i) /\ (Single(i)' <=> Single(i))
      /\ \A i : IsHeld(i)' <=> IsHeld(i)
  BY SameFlags DEF Quiet, Claims, Subs, Single, IsHeld, IsDir
<1>2. UniqueInv' /\ GoneInv' /\ AliveInv'
  BY <1>1, SameFlags DEF Quiet, Links, UniqueInv, GoneInv, AliveInv
<1>3. OrphanInv' /\ UpperInv' /\ LowerInv' /\ SubsInv'
  BY <1>1, SameFlags DEF Quiet, SameUse, Links, OrphanInv, UpperInv, LowerInv, SubsInv
<1>4. QED
  BY <1>2, <1>3 DEF Links, Quiet

\* A request loses a name, of a file or of an empty directory.
Loses(t, s, i) ==
  /\ due' = [due EXCEPT ![s] = 0] /\ due[s] = i /\ kind' = kind
  /\ \A u \in Threads : u # t => Held(u)' = Held(u)
  /\ Held(t) = 0 /\ ~IsHeld(i) /\ ~NewDir(s)
  /\ \A r \in Slots : NewDir(r)' <=> NewDir(r)
  /\ \/ /\ kind[i] = "file" /\ nlink' = [nlink EXCEPT ![i] = Less(@)]
        /\ Held(t)' = IF Less(nlink[i]) = 0 THEN i ELSE 0
     \/ kind[i] = "file" /\ nlink' = nlink /\ Held(t)' = i /\ (Resolving => Single(i))
     \/ kind[i] = "dir" /\ nlink' = [nlink EXCEPT ![s[1]] = Less(@)] /\ Held(t)' = i

LEMMA LosesLinks ==
  ASSUME Links, SameUse, NEW t \in Threads, NEW s \in Slots, NEW i \in Inos, IsDir(s[1]),
         due \in [Slots -> 0 .. MaxIno], Loses(t, s, i)
  PROVE  Links'
<1>0. /\ s[1] \in Inos /\ i # 0 /\ nlink \in [Inos -> Nat] /\ due[s] = i
      /\ \A r \in Slots : due'[r] = IF r = s THEN 0 ELSE due[r]
      /\ \A j \in Inos : j # 0
  BY SlotFacts DEF Loses, Links, Inos
<1>1. /\ \A j : (Single(j)' <=> Single(j)) /\ (IsDir(j)' <=> IsDir(j)) /\ kind'[j] = kind[j]
      /\ \A j \in Inos : IsHeld(j)' <=> IsHeld(j) \/ j = Held(t)'
  <2>1. \A j : (Single(j)' <=> Single(j)) /\ (IsDir(j)' <=> IsDir(j)) /\ kind'[j] = kind[j]
    BY SameFlags DEF Loses, Single, IsDir
  <2>2. \A u \in Threads : Held(u)' = IF u = t THEN Held(t)' ELSE Held(u)
    BY DEF Loses
  <2>3. Held(t) = 0
    BY DEF Loses
  <2>4. \A j \in Inos : IsHeld(j)' <=> IsHeld(j) \/ j = Held(t)'
    BY <1>0, <2>2, <2>3 DEF IsHeld
  <2>5. QED
    BY <2>1, <2>4
<1>2. /\ Claims(i)' = Claims(i) \ {s} /\ s \in Claims(i)
      /\ \A j \in Inos : j # i => Claims(j)' = Claims(j)
  BY <1>0 DEF Loses, Claims
<1>3. /\ nlink' \in [Inos -> Nat]
      /\ \A j \in Inos : kind[j] = "file" /\ j # i => nlink'[j] = nlink[j]
      /\ Held(t)' \in {0, i}
      /\ kind[i] = "file" => nlink'[i] \in {nlink[i], Less(nlink[i])}
  BY <1>0 DEF Loses, Less, IsDir
<1>4. UniqueInv'
  BY <1>0, <1>1 DEF Links, UniqueInv
<1>5. LowerInv'
  <2> SUFFICES ASSUME restarts + crashes = 0, NEW j \in Inos, kind[j] = "file"
               PROVE  Cardinality(Claims(j)') <= nlink'[j]
    BY <1>1 DEF LowerInv, SameUse
  <2>1. Cardinality(Claims(j)) <= nlink[j]
    BY DEF Links, LowerInv
  <2>2. CASE j # i
    BY <1>2, <1>3, <2>1, <2>2
  <2>3. CASE j = i
    <3>1. Cardinality(Claims(i)') = Cardinality(Claims(i)) - 1 /\ Cardinality(Claims(i)) \in Nat
      BY <1>2, ClaimFacts, SlotCounts
    <3>2. QED
      BY <1>0, <1>3, <2>1, <2>3, <3>1 DEF Less
  <2>4. QED
    BY <2>2, <2>3
<1>6. GoneInv'
  <2> SUFFICES ASSUME NEW u \in Threads, Held(u)' # 0, Single(Held(u)') \/ Resolving,
                      NEW r \in Slots, due'[r] = Held(u)'
               PROVE  FALSE
    BY <1>1, SameFlags DEF GoneInv, Single
  <2>1. due[r] = due'[r] /\ r # s
    BY <1>0
  <2>2. CASE u # t
    BY <2>1, <2>2 DEF Loses, Links, GoneInv
  <2>3. CASE u = t
    <3>1. Held(t)' = i /\ due[r] = i /\ due[s] = i
      BY <1>3, <2>1, <2>3 DEF Loses
    <3>2. ~Single(i)
      BY <1>0, <2>1, <3>1 DEF Links, UniqueInv
    <3>3. Resolving /\ kind[i] = "file" /\ "link" \in Ops /\ Less(nlink[i]) = 0
      BY <1>0, <2>3, <3>1, <3>2 DEF Loses, Single
    <3>4. Cardinality(Claims(i)) <= nlink[i]
      BY <3>3 DEF Links, LowerInv, Resolving
    <3>5. Cardinality(Claims(i)) <= 1
      BY <1>0, <3>3, <3>4, ClaimFacts, SlotCounts DEF Less
    <3>6. Cardinality(Claims(i) \ {s}) = Cardinality(Claims(i)) - 1 /\ Cardinality(Claims(i)) \in Nat
      BY <1>2, ClaimFacts, SlotCounts
    <3>7. r \in Claims(i) \ {s} /\ Claims(i) \ {s} \in SUBSET Slots
      BY <2>1, <3>1, ClaimFacts
    <3>8. Cardinality(Claims(i) \ {s}) # 0 /\ Cardinality(Claims(i) \ {s}) \in Nat
      BY <3>7, SlotCounts
    <3>9. QED
      BY <3>5, <3>6, <3>8
  <2>4. QED
    BY <2>2, <2>3
<1>7. AliveInv'
  BY <1>0, <1>1, SameFlags DEF Links, AliveInv
<1>8. OrphanInv'
  <2> SUFFICES ASSUME crashes = 0, ~Faults, NEW j \in Inos, kind[j] # "none", j # RootIno,
                      ~IsHeld(j)'
               PROVE  \E r \in Slots : due'[r] = j
    BY <1>1, SameFlags DEF OrphanInv, SameUse
  <2>1. ~IsHeld(j) /\ j # Held(t)'
    BY <1>1
  <2>2. CASE j # i
    <3>1. PICK r \in Slots : due[r] = j
      BY <2>1 DEF Links, OrphanInv
    <3>2. QED
      BY <1>0, <2>2, <3>1
  <2>3. CASE j = i
    <3>1. kind[i] = "file" /\ Less(nlink[i]) # 0
      BY <2>1, <2>3 DEF Loses
    <3>2. nlink[i] <= Cardinality(Claims(i))
      BY <2>1, <2>3, <3>1 DEF Links, UpperInv
    <3>3. Cardinality(Claims(i) \ {s}) = Cardinality(Claims(i)) - 1 /\ Cardinality(Claims(i)) \in Nat
          /\ Claims(i) \ {s} \in SUBSET Slots
      BY <1>2, ClaimFacts, SlotCounts
    <3>4. Cardinality(Claims(i) \ {s}) # 0
      BY <1>0, <3>1, <3>2, <3>3 DEF Less
    <3>5. Claims(i) \ {s} # {}
      BY <3>3, <3>4, SlotCounts
    <3>6. PICK r \in Slots : r # s /\ due[r] = i
      BY <3>5, ClaimFacts
    <3>7. QED
      BY <1>0, <2>3, <3>6
  <2>4. QED
    BY <2>2, <2>3
<1>9. UpperInv'
  <2> SUFFICES ASSUME crashes = 0, ~Faults, NEW j \in Inos, kind[j] = "file", ~IsHeld(j)'
               PROVE  nlink'[j] <= Cardinality(Claims(j)')
    BY <1>1, SameFlags DEF UpperInv, SameUse
  <2>1. ~IsHeld(j) /\ j # Held(t)'
    BY <1>1
  <2>2. nlink[j] <= Cardinality(Claims(j))
    BY <2>1 DEF Links, UpperInv
  <2>3. CASE j # i
    BY <1>2, <1>3, <2>2, <2>3
  <2>4. CASE j = i
    <3>1. nlink'[i] = Less(nlink[i])
      BY <1>0, <2>1, <2>4 DEF Loses
    <3>2. Cardinality(Claims(i)') = Cardinality(Claims(i)) - 1 /\ Cardinality(Claims(i)) \in Nat
      BY <1>2, ClaimFacts, SlotCounts
    <3>3. Cardinality(Claims(i)) # 0
      BY <1>2, ClaimFacts, SlotCounts
    <3>4. nlink[i] <= Cardinality(Claims(i)) /\ nlink[i] \in Nat
      BY <1>0, <2>2, <2>4
    <3>5. nlink'[i] <= Cardinality(Claims(i)')
      BY <3>1, <3>2, <3>3, <3>4 DEF Less
    <3>6. QED
      BY <2>4, <3>5
  <2>5. QED
    BY <2>3, <2>4
<1>10. SubsInv'
  <2> SUFFICES ASSUME Undisturbed, NEW d \in Inos, kind[d] = "dir"
               PROVE  nlink'[d] = 2 + Cardinality(Subs(d)')
    BY <1>1, SameFlags DEF SubsInv
  <2>1. nlink[d] = 2 + Cardinality(Subs(d))
    BY DEF Links, SubsInv
  <2>2. \A r \in Slots : NewDir(r)' <=> NewDir(r)
    BY DEF Loses
  <2>3. CASE kind[i] = "dir" /\ d = s[1]
    <3>1. Subs(d)' = Subs(d) \ {s} /\ s \in Subs(d)
      BY <1>0, <1>1, <2>2, <2>3 DEF Subs, Loses, IsDir
    <3>2. Cardinality(Subs(d)') = Cardinality(Subs(d)) - 1 /\ Cardinality(Subs(d)) \in Nat
      BY <3>1, ClaimFacts, SlotCounts
    <3>3. nlink'[d] = Less(nlink[d])
      BY <1>0, <2>3 DEF Loses
    <3>4. QED
      BY <2>1, <3>2, <3>3 DEF Less
  <2>4. CASE kind[i] = "file" \/ d # s[1]
    <3>1. Subs(d)' = Subs(d)
      BY <1>0, <1>1, <2>2, <2>4 DEF Subs, Loses, IsDir
    <3>2. nlink'[d] = nlink[d]
      BY <1>0, <2>4 DEF Loses
    <3>3. QED
      BY <2>1, <3>1, <3>2
  <2>5. QED
    BY <2>3, <2>4 DEF Loses
<1>11. QED
  BY <1>3, <1>4, <1>5, <1>6, <1>7, <1>8, <1>9, <1>10 DEF Links, Loses

\* A request deletes the inode it holds, or fails to.
Kills(t, i) ==
  /\ due' = due /\ nlink' = nlink
  /\ kind' = [kind EXCEPT ![i] = "none"] \/ (Faults /\ kind' = kind)
  /\ \A u \in Threads : u # t => Held(u)' = Held(u)
  /\ Held(t) = i /\ Held(t)' = 0
  /\ \A r \in Slots : NewDir(r)' <=> NewDir(r)

LEMMA KillsLinks ==
  ASSUME Links, SameUse, kind \in [Inos -> {"none", "dir", "file"}],
         due \in [Slots -> 0 .. MaxIno], NEW t \in Threads, NEW i \in Inos, Kills(t, i)
  PROVE  Links'
<1>1. /\ \A j \in Inos : kind'[j] \in {kind[j], "none"}
      /\ \A j \in Inos : j # i => kind'[j] = kind[j]
      /\ ~Faults => kind'[i] = "none"
      /\ i # 0 /\ 0 \notin Inos
      /\ \A r \in Slots : due[r] # 0 => due[r] \in Inos
  BY ConstantsAssumption DEF Kills, Inos
<1>2. \A r \in Slots : (Single(i) \/ Resolving) => due[r] # i
  BY <1>1 DEF Kills, Links, GoneInv
<1>3. \A j \in Inos : j # i => (IsHeld(j)' <=> IsHeld(j))
  BY <1>1 DEF Kills, IsHeld
<1>4. \A j \in Inos : Single(j)' => Single(j)
  BY <1>1, SameFlags DEF Single
<1>5. UniqueInv'
  BY <1>1, <1>4 DEF Kills, Links, UniqueInv
<1>6. GoneInv'
  <2> SUFFICES ASSUME NEW u \in Threads, Held(u)' # 0,
                      "link" \notin Ops \/ kind'[Held(u)'] = "dir" \/ Resolving,
                      NEW r \in Slots, due[r] = Held(u)'
               PROVE  FALSE
    BY SameFlags DEF Single, GoneInv, Kills
  <2>1. u # t /\ Held(u)' = Held(u) /\ Held(u) \in Inos
    BY <1>1 DEF Kills
  <2>2. Single(Held(u)) \/ Resolving
    BY <1>1, <2>1 DEF Single
  <2>3. QED
    BY <2>1, <2>2 DEF Links, GoneInv
<1>7. AliveInv'
  BY <1>1, <1>2, SameFlags DEF Kills, Links, AliveInv
<1>8. OrphanInv'
  BY <1>1, <1>3, SameFlags DEF Kills, SameUse, Links, OrphanInv
<1>9. \A j \in Inos : Claims(j)' = Claims(j)
  BY DEF Kills, Claims
<1>10. UpperInv' /\ LowerInv'
  BY <1>1, <1>3, <1>9, SameFlags DEF Kills, SameUse, Links, UpperInv, LowerInv
<1>11. SubsInv'
  <2> SUFFICES ASSUME Undisturbed, NEW d \in Inos, kind'[d] = "dir"
               PROVE  nlink'[d] = 2 + Cardinality(Subs(d)')
    BY SameFlags DEF SubsInv
  <2>1. ~Faults /\ kind[d] = "dir" /\ nlink'[d] = nlink[d]
    BY <1>1 DEF Undisturbed, Kills
  <2>2. \A r \in Slots : due[r] # 0 => (kind'[due[r]] = "dir" <=> kind[due[r]] = "dir")
    BY <1>1, <1>2 DEF Single
  <2>3. Subs(d)' = Subs(d)
    BY <2>2 DEF Subs, Kills, IsDir
  <2>4. QED
    BY <2>1, <2>3 DEF Links, SubsInv
<1>12. QED
  BY <1>1, <1>5, <1>6, <1>7, <1>8, <1>10, <1>11, ConstantsAssumption DEF Links, Kills, RootIno, Inos

\* A request that fails gives up its new inode.
Undoes(s, i) ==
  /\ Faults /\ due' = [due EXCEPT ![s] = 0] /\ due[s] = i /\ nlink' = nlink
  /\ kind' \in {kind, [kind EXCEPT ![i] = "none"]}
  /\ \A u \in Threads : Held(u)' = Held(u)
  /\ \A r \in Slots : due[r] = i => r = s

LEMMA UndoesLinks ==
  ASSUME Links, SameUse, kind \in [Inos -> {"none", "dir", "file"}],
         due \in [Slots -> 0 .. MaxIno], NEW s \in Slots, NEW i \in Inos, Undoes(s, i)
  PROVE  Links'
<1>1. /\ \A j \in Inos : kind'[j] \in {kind[j], "none"}
      /\ \A j \in Inos : j # i => kind'[j] = kind[j]
      /\ i # 0 /\ 0 \notin Inos
      /\ \A r \in Slots : due[r] # 0 => due[r] \in Inos
      /\ \A r \in Slots : due'[r] = IF r = s THEN 0 ELSE due[r]
      /\ RootIno \in Inos
  BY ConstantsAssumption DEF Undoes, Inos, RootIno
<1>2. \A j \in Inos : Single(j)' => Single(j)
  BY <1>1, SameFlags DEF Single
<1>3. UniqueInv'
  BY <1>1, <1>2 DEF Links, UniqueInv
<1>4. GoneInv'
  <2> SUFFICES ASSUME NEW u \in Threads, Held(u)' # 0,
                      "link" \notin Ops \/ kind'[Held(u)'] = "dir" \/ Resolving,
                      NEW r \in Slots, due'[r] = Held(u)'
               PROVE  FALSE
    BY SameFlags DEF Single, GoneInv
  <2>1. Held(u)' = Held(u) /\ Held(u) \in Inos /\ due[r] = Held(u)
    BY <1>1 DEF Undoes
  <2>2. Single(Held(u)) \/ Resolving
    BY <1>1, <2>1 DEF Single
  <2>3. QED
    BY <2>1, <2>2 DEF Links, GoneInv
<1>5. AliveInv'
  BY <1>1, SameFlags DEF Undoes, Links, AliveInv
<1>6. OrphanInv' /\ UpperInv' /\ SubsInv'
  BY SameFlags DEF Undoes, OrphanInv, UpperInv, SubsInv, Undisturbed
<1>7. LowerInv'
  <2> SUFFICES ASSUME restarts + crashes = 0, NEW j \in Inos, kind'[j] = "file"
               PROVE  Cardinality(Claims(j)') <= nlink[j]
    BY DEF LowerInv, SameUse, Undoes
  <2>1. Cardinality(Claims(j)) <= nlink[j] /\ nlink[j] \in Nat
    BY <1>1 DEF Links, LowerInv
  <2>2. Claims(j)' \in SUBSET Claims(j)
    BY <1>1 DEF Claims
  <2>3. Cardinality(Claims(j)') <= Cardinality(Claims(j)) /\ Cardinality(Claims(j)) \in Nat
        /\ Cardinality(Claims(j)') \in Nat
    BY <2>2, ClaimFacts, ClaimFactsNext, SlotCounts
  <2>4. QED
    BY <2>1, <2>3
<1>8. QED
  BY <1>1, <1>3, <1>4, <1>5, <1>6, <1>7 DEF Links, Undoes

\* A request makes an inode, whose name it counts.
Makes(s, i, k) ==
  /\ due' = [due EXCEPT ![s] = i] /\ due[s] = 0 /\ s[1] # i /\ i # RootIno
  /\ k \in {"dir", "file"} /\ kind' = [kind EXCEPT ![i] = k]
  /\ nlink' = [nlink EXCEPT ![i] = IF k = "dir" THEN 2 ELSE 1]
  /\ \A r \in Slots : due[r] # i /\ (r[1] = i => due[r] = 0)
  /\ \A u \in Threads : Held(u)' = Held(u) /\ Held(u) # i
  /\ \A r \in Slots : NewDir(r)' <=> NewDir(r) \/ (r = s /\ k = "dir")

LEMMA MakesLinks ==
  ASSUME Links, SameUse, kind \in [Inos -> {"none", "dir", "file"}],
         due \in [Slots -> 0 .. MaxIno], NEW s \in Slots, NEW i \in Inos, NEW k, Makes(s, i, k)
  PROVE  Links'
<1>1. /\ \A j \in Inos : j # i => kind'[j] = kind[j] /\ nlink'[j] = nlink[j]
      /\ kind'[i] = k /\ nlink' \in [Inos -> Nat]
      /\ nlink'[i] = IF k = "dir" THEN 2 ELSE 1
      /\ i # 0 /\ 0 \notin Inos
      /\ \A r \in Slots : due[r] # 0 => due[r] \in Inos /\ due[r] # i
      /\ \A r \in Slots : due'[r] = IF r = s THEN i ELSE due[r]
      /\ RootIno \in Inos /\ due[s] = 0
  BY ConstantsAssumption DEF Makes, Inos, RootIno, Links
<1>2. \A j \in Inos : j # i => (Single(j)' <=> Single(j))
  BY <1>1, SameFlags DEF Single
<1>3. UniqueInv'
  BY <1>1, <1>2 DEF Links, UniqueInv
<1>4. GoneInv'
  <2> SUFFICES ASSUME NEW u \in Threads, Held(u)' # 0,
                      "link" \notin Ops \/ kind'[Held(u)'] = "dir" \/ Resolving,
                      NEW r \in Slots, due'[r] = Held(u)'
               PROVE  FALSE
    BY SameFlags DEF Single, GoneInv
  <2>1. Held(u)' = Held(u) /\ Held(u) \in Inos /\ due[r] = Held(u) /\ Held(u) # i
    BY <1>1 DEF Makes
  <2>2. Single(Held(u)) \/ Resolving
    BY <1>1, <2>1 DEF Single
  <2>3. QED
    BY <2>1, <2>2 DEF Links, GoneInv
<1>5. AliveInv'
  BY <1>1, SameFlags DEF Makes, Links, AliveInv
<1>6. \A j \in Inos : IsHeld(j)' <=> IsHeld(j)
  BY DEF Makes, IsHeld
<1>7. OrphanInv'
  <2> SUFFICES ASSUME crashes = 0, ~Faults, NEW j \in Inos, kind'[j] # "none", j # RootIno,
                      ~IsHeld(j)
               PROVE  \E r \in Slots : due'[r] = j
    BY <1>6, SameFlags DEF OrphanInv, SameUse
  <2>1. CASE j = i
    BY <1>1, <2>1
  <2>2. CASE j # i
    <3>1. PICK r \in Slots : due[r] = j
      BY <1>1, <2>2 DEF Links, OrphanInv
    <3>2. QED
      BY <1>1, <3>1
  <2>3. QED
    BY <2>1, <2>2
<1>8. /\ \A j \in Inos : j # i => Claims(j)' = Claims(j)
      /\ Claims(i)' = {s}
  BY <1>1 DEF Claims
<1>9. Cardinality(Claims(i)') = 1
  BY <1>8, FS_Singleton
<1>10. UpperInv'
  <2> SUFFICES ASSUME crashes = 0, ~Faults, NEW j \in Inos, kind'[j] = "file", ~IsHeld(j)
               PROVE  nlink'[j] <= Cardinality(Claims(j)')
    BY <1>6, SameFlags DEF UpperInv, SameUse
  <2>1. CASE j = i
    BY <1>1, <1>9, <2>1
  <2>2. CASE j # i
    BY <1>1, <1>8, <2>2 DEF Links, UpperInv
  <2>3. QED
    BY <2>1, <2>2
<1>11. LowerInv'
  <2> SUFFICES ASSUME restarts + crashes = 0, NEW j \in Inos, kind'[j] = "file"
               PROVE  Cardinality(Claims(j)') <= nlink'[j]
    BY DEF LowerInv, SameUse
  <2>1. CASE j = i
    BY <1>1, <1>9, <2>1
  <2>2. CASE j # i
    BY <1>1, <1>8, <2>2 DEF Links, LowerInv
  <2>3. QED
    BY <2>1, <2>2
<1>12. SubsInv'
  <2> SUFFICES ASSUME Undisturbed, NEW d \in Inos, kind'[d] = "dir"
               PROVE  nlink'[d] = 2 + Cardinality(Subs(d)')
    BY SameFlags DEF SubsInv
  <2>1. CASE d # i
    <3>1. \A r \in Slots : r # s /\ due[r] # 0 => (kind'[due'[r]] = "dir" <=> kind[due[r]] = "dir")
      BY <1>1
    <3>2. s \notin Subs(d) /\ s \notin Subs(d)'
      BY <1>1 DEF Subs, Makes, IsDir
    <3>3. Subs(d)' = Subs(d)
      BY <1>1, <3>1, <3>2 DEF Subs, Makes, IsDir
    <3>4. QED
      BY <1>1, <2>1, <3>3 DEF Links, SubsInv
  <2>2. CASE d = i
    <3>1. Subs(i)' = {}
      BY <1>1 DEF Subs, Makes
    <3>2. QED
      BY <1>1, <2>2, <3>1, FS_EmptySet
  <2>3. QED
    BY <2>1, <2>2
<1>13. QED
  BY <1>1, <1>3, <1>4, <1>5, <1>7, <1>10, <1>11, <1>12 DEF Links, Makes

\* A link counts the name it made.
Gains(s, i) ==
  /\ due' = [due EXCEPT ![s] = i] /\ due[s] = 0 /\ kind' = kind
  /\ kind[i] = "file" /\ "link" \in Ops /\ ~IsHeld(i)
  /\ nlink' = [nlink EXCEPT ![i] = @ + 1]
  /\ \A u \in Threads : Held(u)' = Held(u)
  /\ \A r \in Slots : NewDir(r)' <=> NewDir(r)

LEMMA GainsLinks ==
  ASSUME Links, SameUse, due \in [Slots -> 0 .. MaxIno], NEW s \in Slots, NEW i \in Inos,
         Gains(s, i)
  PROVE  Links'
<1>1. /\ \A j \in Inos : j # i => nlink'[j] = nlink[j]
      /\ nlink' \in [Inos -> Nat] /\ nlink'[i] = nlink[i] + 1 /\ nlink \in [Inos -> Nat]
      /\ due[s] = 0 /\ kind[i] = "file" /\ \A j \in Inos : j # 0
      /\ \A r \in Slots : due'[r] = IF r = s THEN i ELSE due[r]
  BY DEF Gains, Inos, Links
<1>2. /\ \A j : (Single(j)' <=> Single(j)) /\ (IsHeld(j)' <=> IsHeld(j)) /\ kind'[j] = kind[j]
      /\ ~Single(i)
  BY SameFlags DEF Gains, Single, IsHeld
<1>3. UniqueInv'
  BY <1>1, <1>2 DEF Links, UniqueInv
<1>4. GoneInv'
  BY <1>1, SameFlags DEF Gains, Single, IsHeld, Links, GoneInv
<1>5. AliveInv' /\ OrphanInv'
  <2>1. AliveInv'
    BY <1>1, <1>2, SameFlags DEF Links, AliveInv
  <2>2. \A j \in Inos, r \in Slots : due[r] = j => due'[r] = j
    BY <1>1
  <2>3. OrphanInv'
    BY <1>2, <2>2, SameFlags DEF SameUse, Links, OrphanInv
  <2>4. QED
    BY <2>1, <2>3
<1>6. /\ \A j \in Inos : j # i => Claims(j)' = Claims(j)
      /\ Claims(i)' = Claims(i) \cup {s} /\ s \in Slots \ Claims(i)
  BY <1>1 DEF Claims
<1>7. Cardinality(Claims(i)') = Cardinality(Claims(i)) + 1 /\ Cardinality(Claims(i)) \in Nat
  BY <1>6, ClaimFacts, SlotCounts
<1>8. UpperInv'
  <2> SUFFICES ASSUME crashes = 0, ~Faults, NEW j \in Inos, kind[j] = "file", ~IsHeld(j)
               PROVE  nlink'[j] <= Cardinality(Claims(j)')
    BY <1>2, SameFlags DEF UpperInv, SameUse
  <2>1. nlink[j] <= Cardinality(Claims(j))
    BY DEF Links, UpperInv
  <2>2. CASE j = i
    BY <1>1, <1>7, <2>1, <2>2
  <2>3. CASE j # i
    BY <1>1, <1>6, <2>1, <2>3
  <2>4. QED
    BY <2>2, <2>3
<1>9. LowerInv'
  <2> SUFFICES ASSUME restarts + crashes = 0, NEW j \in Inos, kind[j] = "file"
               PROVE  Cardinality(Claims(j)') <= nlink'[j]
    BY <1>2 DEF LowerInv, SameUse
  <2>1. Cardinality(Claims(j)) <= nlink[j]
    BY DEF Links, LowerInv
  <2>2. CASE j = i
    BY <1>1, <1>7, <2>1, <2>2
  <2>3. CASE j # i
    BY <1>1, <1>6, <2>1, <2>3
  <2>4. QED
    BY <2>2, <2>3
<1>10. SubsInv'
  <2>1. \A d \in Inos : Subs(d)' = Subs(d)
    BY <1>1, <1>2 DEF Subs, Gains, IsDir
  <2>2. QED
    BY <1>1, <1>2, <2>1, SameFlags DEF Links, SubsInv
<1>11. QED
  BY <1>1, <1>2, <1>3, <1>4, <1>5, <1>8, <1>9, <1>10 DEF Links

\* mkdir counts the new directory in its parent.
Enters(s) ==
  /\ due' = due /\ kind' = kind /\ IsDir(s[1])
  /\ NewDir(s) /\ due[s] # 0 /\ IsDir(due[s])
  /\ nlink' = [nlink EXCEPT ![s[1]] = @ + 1]
  /\ \A u \in Threads : Held(u)' = Held(u)
  /\ \A r \in Slots : NewDir(r)' <=> NewDir(r) /\ r # s

LEMMA EntersLinks ==
  ASSUME Links, SameUse, NEW s \in Slots, Enters(s)
  PROVE  Links'
<1>1. /\ nlink \in [Inos -> Nat] /\ nlink' \in [Inos -> Nat] /\ s[1] \in Inos
      /\ \A j \in Inos : nlink'[j] = IF j = s[1] THEN nlink[j] + 1 ELSE nlink[j]
      /\ \A j : kind[j] = "file" => j # s[1]
  BY SlotFacts DEF Enters, Links, IsDir
<1>2. \A j : /\ (Single(j)' <=> Single(j)) /\ (IsHeld(j)' <=> IsHeld(j)) /\ kind'[j] = kind[j]
             /\ Claims(j)' = Claims(j)
  BY SameFlags DEF Enters, Single, IsHeld, Claims
<1>3. UniqueInv' /\ GoneInv' /\ AliveInv' /\ OrphanInv'
  BY <1>2, SameFlags DEF Enters, SameUse, Single, Links, UniqueInv, GoneInv, AliveInv, OrphanInv
<1>4. UpperInv' /\ LowerInv'
  BY <1>1, <1>2, SameFlags DEF SameUse, Links, UpperInv, LowerInv
<1>5. SubsInv'
  <2> SUFFICES ASSUME Undisturbed, NEW d \in Inos, kind[d] = "dir"
               PROVE  nlink'[d] = 2 + Cardinality(Subs(d)')
    BY <1>2, SameFlags DEF SubsInv
  <2>1. nlink[d] = 2 + Cardinality(Subs(d))
    BY DEF Links, SubsInv
  <2>2. CASE d = s[1]
    <3>1. Subs(d)' = Subs(d) \cup {s} /\ s \in Slots \ Subs(d)
      BY <1>2, <2>2 DEF Subs, Enters, IsDir
    <3>2. Cardinality(Subs(d)') = Cardinality(Subs(d)) + 1 /\ Cardinality(Subs(d)) \in Nat
      BY <3>1, ClaimFacts, SlotCounts
    <3>3. QED
      BY <1>1, <2>1, <2>2, <3>2
  <2>3. CASE d # s[1]
    <3>1. Subs(d)' = Subs(d)
      BY <1>2, <2>3 DEF Subs, Enters, IsDir
    <3>2. QED
      BY <1>1, <2>1, <2>3, <3>1
  <2>4. QED
    BY <2>2, <2>3
<1>6. QED
  BY <1>1, <1>2, <1>3, <1>4, <1>5 DEF Links

\* A slot whose inode is gone is written over.
Clears(b) ==
  /\ due' = [due EXCEPT ![b] = 0] /\ kind' = kind /\ nlink' = nlink
  /\ due[b] = 0 \/ kind[due[b]] = "none"
  /\ \A u \in Threads : Held(u)' = Held(u)
  /\ \A r \in Slots : NewDir(r)' <=> NewDir(r)

LEMMA ClearsLinks ==
  ASSUME Links, SameUse, due \in [Slots -> 0 .. MaxIno], NEW b \in Slots, Clears(b)
  PROVE  Links'
<1>1. /\ \A r \in Slots : due'[r] = IF r = b THEN 0 ELSE due[r]
      /\ due[b] = 0 \/ kind[due[b]] = "none"
      /\ \A j \in Inos : j # 0
  BY DEF Clears, Inos
<1>2. \A j : (Single(j)' <=> Single(j)) /\ (IsHeld(j)' <=> IsHeld(j)) /\ kind'[j] = kind[j]
  BY SameFlags DEF Clears, Single, IsHeld
<1>3. \A j \in Inos : kind[j] # "none" => Claims(j)' = Claims(j)
  BY <1>1 DEF Claims
<1>4. \A j : Subs(j)' = Subs(j)
  BY <1>1, <1>2 DEF Subs, Clears, IsDir
<1>5. UniqueInv'
  BY <1>1, <1>2, SameFlags DEF Links, UniqueInv
<1>6. GoneInv'
  BY <1>1, <1>2, SameFlags DEF Clears, Single, Links, GoneInv
<1>7. AliveInv' /\ OrphanInv'
  BY <1>1, <1>2, SameFlags DEF SameUse, Links, AliveInv, OrphanInv
<1>8. UpperInv' /\ LowerInv' /\ SubsInv'
  BY <1>2, <1>3, <1>4, SameFlags DEF Clears, SameUse, Links, UpperInv, LowerInv, SubsInv
<1>9. QED
  BY <1>2, <1>5, <1>6, <1>7, <1>8 DEF Links, Clears

\* A name moves to a slot that counts nothing that is there.
Moves(a, b, i) ==
  /\ due' = [due EXCEPT ![a] = 0, ![b] = i] /\ due[a] = i /\ a # b /\ kind' = kind
  /\ due[b] = 0 \/ kind[due[b]] = "none"
  /\ IsDir(a[1]) /\ IsDir(b[1])
  /\ nlink' = IF IsDir(i) /\ a[1] # b[1]
                THEN [nlink EXCEPT ![a[1]] = Less(@), ![b[1]] = @ + 1] ELSE nlink
  /\ ~NewDir(a) /\ ~NewDir(b)
  /\ \A u \in Threads : Held(u)' = Held(u)
  /\ \A r \in Slots : NewDir(r)' <=> NewDir(r)

LEMMA MovesLinks ==
  ASSUME Links, SameUse, due \in [Slots -> 0 .. MaxIno], NEW a \in Slots, NEW b \in Slots,
         NEW i \in Inos, Moves(a, b, i)
  PROVE  Links'
<1>1. /\ \A r \in Slots : due'[r] = IF r = b THEN i ELSE IF r = a THEN 0 ELSE due[r]
      /\ due[a] = i /\ (due[b] = 0 \/ kind[due[b]] = "none") /\ a # b
      /\ \A j \in Inos : j # 0
      /\ nlink \in [Inos -> Nat] /\ a[1] \in Inos /\ b[1] \in Inos
  BY SlotFacts DEF Moves, Inos, Links
<1>2. \A j : (Single(j)' <=> Single(j)) /\ (IsHeld(j)' <=> IsHeld(j)) /\ kind'[j] = kind[j]
  BY SameFlags DEF Moves, Single, IsHeld
<1>3. /\ \A j \in Inos : nlink'[j] = IF ~IsDir(i) \/ a[1] = b[1] THEN nlink[j]
                                     ELSE IF j = b[1] THEN nlink[j] + 1
                                     ELSE IF j = a[1] THEN Less(nlink[j])
                                     ELSE nlink[j]
      /\ nlink' \in [Inos -> Nat]
      /\ \A j \in Inos : kind[j] = "file" => nlink'[j] = nlink[j]
  BY <1>1 DEF Moves, Less, IsDir
<1>4. UniqueInv'
  BY <1>1, <1>2 DEF Links, UniqueInv
<1>5. GoneInv'
  BY <1>1, <1>2, SameFlags DEF Moves, Single, Links, GoneInv
<1>6. AliveInv'
  BY <1>1, <1>2, SameFlags DEF Links, AliveInv
<1>7. OrphanInv'
  <2> SUFFICES ASSUME crashes = 0, ~Faults, NEW j \in Inos, kind[j] # "none", j # RootIno,
                      ~IsHeld(j)
               PROVE  \E r \in Slots : due'[r] = j
    BY <1>2, SameFlags DEF OrphanInv, SameUse
  <2>1. PICK r \in Slots : due[r] = j
    BY DEF Links, OrphanInv
  <2>2. due'[b] = i /\ (r # a => due'[r] = due[r])
    BY <1>1, <2>1
  <2>3. QED
    BY <1>1, <2>1, <2>2
<1>8. /\ \A j \in Inos : j # i /\ kind[j] # "none" => Claims(j)' = Claims(j)
      /\ kind[i] # "none" =>
           Claims(i)' = (Claims(i) \ {a}) \cup {b} /\ a \in Claims(i) /\ b \notin Claims(i)
  BY <1>1 DEF Claims
<1>9. \A j \in Inos : kind[j] # "none" => Cardinality(Claims(j)') = Cardinality(Claims(j))
  BY <1>8, ClaimFacts, SlotMoved
<1>10. UpperInv' /\ LowerInv'
  BY <1>2, <1>3, <1>9, SameFlags DEF SameUse, Links, UpperInv, LowerInv
<1>11. SubsInv'
  <2> SUFFICES ASSUME Undisturbed, NEW d \in Inos, kind[d] = "dir"
               PROVE  nlink'[d] = 2 + Cardinality(Subs(d)')
    BY <1>2, SameFlags DEF SubsInv
  <2>1. nlink[d] = 2 + Cardinality(Subs(d)) /\ nlink[d] \in Nat
    BY <1>1 DEF Links, SubsInv
  <2>2. \A r \in Slots : r \in Subs(d)' <=> /\ r[1] = d
                                           /\ \/ r = b /\ IsDir(i)
                                              \/ r # a /\ r \in Subs(d)
    BY <1>1, <1>2 DEF Subs, Moves, IsDir
  <2>3. /\ b \notin Subs(d)
        /\ a \in Subs(d) <=> a[1] = d /\ IsDir(i)
        /\ \A r \in Subs(d) : r[1] = d
    BY <1>1 DEF Subs, Moves, IsDir
  <2>4. Subs(d) \in SUBSET Slots /\ Subs(d)' \in SUBSET Slots
    BY ClaimFacts, ClaimFactsNext
  <2>5. CASE ~IsDir(i) \/ (d # a[1] /\ d # b[1])
    <3>1. Subs(d)' = Subs(d)
      BY <2>2, <2>3, <2>4, <2>5
    <3>2. QED
      BY <1>3, <2>1, <2>5, <3>1
  <2>6. CASE IsDir(i) /\ d = a[1] /\ d = b[1]
    <3>1. Subs(d)' = (Subs(d) \ {a}) \cup {b}
      BY <2>2, <2>3, <2>4, <2>6
    <3>2. Cardinality(Subs(d)') = Cardinality(Subs(d))
      BY <2>3, <2>4, <2>6, <3>1, SlotMoved
    <3>3. QED
      BY <1>3, <2>1, <2>6, <3>2
  <2>7. CASE IsDir(i) /\ d = a[1] /\ d # b[1]
    <3>1. Subs(d)' = Subs(d) \ {a} /\ a \in Subs(d)
      BY <2>2, <2>3, <2>4, <2>7
    <3>2. Cardinality(Subs(d)') = Cardinality(Subs(d)) - 1 /\ Cardinality(Subs(d)) \in Nat
      BY <2>4, <3>1, SlotCounts
    <3>3. nlink'[d] = Less(nlink[d])
      BY <1>3, <2>7
    <3>4. QED
      BY <2>1, <3>2, <3>3 DEF Less
  <2>8. CASE IsDir(i) /\ d # a[1] /\ d = b[1]
    <3>1. Subs(d)' = Subs(d) \cup {b} /\ b \in Slots \ Subs(d)
      BY <2>2, <2>3, <2>4, <2>8
    <3>2. Cardinality(Subs(d)') = Cardinality(Subs(d)) + 1 /\ Cardinality(Subs(d)) \in Nat
      BY <2>4, <3>1, SlotCounts
    <3>3. QED
      BY <1>3, <2>1, <2>8, <3>2
  <2>9. QED
    BY <2>5, <2>6, <2>7, <2>8
<1>12. QED
  BY <1>2, <1>3, <1>4, <1>5, <1>6, <1>7, <1>10, <1>11 DEF Links

LEMMA RestartLinks ==
  ASSUME IndInv, ParentInv, LinkInv, Restart, UNCHANGED use
  PROVE  LinkInv'
<1> USE DEF LinkInv
<1>1. /\ UNCHANGED <<kind, dirent, pc, op, at, to, ino, dst, locks, nextIno, crashes, use>>
      /\ nlink' = [i \in Inos |-> StoredNlink(i)] /\ restarts' = restarts + 1
      /\ \A t \in Threads : pc[t] = "idle"
      /\ restarts + crashes < MaxRemounts
  BY DEF Restart, Remount, request
<1>2. due' = due
  BY <1>1, DueSame
<1>3. \A t \in Threads : Held(t) = 0 /\ Held(t)' = 0 /\ ~Fresh(t)'
  BY <1>1 DEF Held, Fresh
<1>4. use.remounts \in Nat
  BY ConstantsAssumption DEF IndInv, TypeInv
<1>5. /\ RemountInv' /\ restarts' + crashes' # 0 /\ restarts' # 0
      /\ Resolving' => Resolving
      /\ Ops' = Ops /\ Faults' = Faults
  BY <1>1, <1>4 DEF RemountInv, Resolving, Ops, Faults, MaxRemounts
<1>6. WorksInv'
  BY <1>1 DEF WorksInv, Work, Ops, Removing, Replacing
<1>7. AloneInv' /\ GoneInv'
  BY <1>3 DEF AloneInv, GoneInv
<1>8. UniqueInv' /\ AliveInv'
  BY <1>1, <1>2, <1>5 DEF Links, UniqueInv, AliveInv, Single
<1>9. \A i \in Inos : i # 0 /\ ~IsHeld(i)
  BY <1>3 DEF IsHeld, Inos
<1>10. OrphanInv'
  BY <1>1, <1>2, <1>5, <1>9 DEF Links, OrphanInv
<1>11. LowerInv' /\ SubsInv'
  BY <1>5 DEF LowerInv, SubsInv, Undisturbed
<1>12. UpperInv'
  <2> SUFFICES ASSUME crashes = 0, ~Faults, NEW i \in Inos, kind[i] = "file"
               PROVE  nlink'[i] <= Cardinality(Claims(i)')
    BY <1>1, <1>5 DEF UpperInv
  <2>1. nlink'[i] = 1
    BY <1>1 DEF Links, StoredNlink
  <2>2. PICK s \in Slots : due[s] = i
    BY <1>9 DEF Links, OrphanInv
  <2>3. s \in Claims(i)'
    BY <1>2, <2>2 DEF Claims
  <2>4. Cardinality(Claims(i)') # 0 /\ Cardinality(Claims(i)') \in Nat
    BY <2>3, ClaimFactsNext, SlotCounts
  <2>5. QED
    BY <2>1, <2>4
<1>13. nlink' \in [Inos -> Nat] /\ kind'[RootIno] # "file"
  BY <1>1 DEF Links, StoredNlink
<1>14. QED
  BY <1>5, <1>6, <1>7, <1>8, <1>10, <1>11, <1>12, <1>13 DEF Links

LEMMA CrashLinks ==
  ASSUME IndInv, ParentInv, LinkInv, IndInv', ParentInv', Crash, UNCHANGED use
  PROVE  LinkInv'
<1> USE DEF LinkInv
<1>1. /\ UNCHANGED <<kind, dirent, nextIno, restarts, use>>
      /\ nlink' = [i \in Inos |-> StoredNlink(i)] /\ crashes' = crashes + 1
      /\ restarts + crashes < MaxRemounts
      /\ \A t \in Threads : /\ pc'[t] = "idle" /\ op'[t] = "none"
                            /\ at'[t] = NoSlot /\ to'[t] = NoSlot
  BY DEF Crash, Remount, ClearRequests
<1>2. \A s \in Slots : due'[s] = dirent[s]
  <2>1. \A s \in Slots : s \notin InFlight'
    BY <1>1, SlotFacts DEF InFlight
  <2>2. QED
    BY <1>1, <2>1, DueIsNext DEF DueFacts
<1>3. \A t \in Threads : Held(t)' = 0 /\ ~Fresh(t)'
  BY <1>1 DEF Held, Fresh
<1>4. use.remounts \in Nat
  BY ConstantsAssumption DEF IndInv, TypeInv
<1>5. /\ RemountInv' /\ restarts' + crashes' # 0 /\ crashes' # 0
      /\ Resolving' => Resolving /\ "link" \notin Ops
      /\ Ops' = Ops /\ Faults' = Faults
  BY <1>1, <1>4 DEF RemountInv, Resolving, Ops, Faults, MaxRemounts
<1>6. WorksInv'
  BY <1>1 DEF WorksInv, Work, Removing, Replacing
<1>7. AloneInv' /\ GoneInv'
  BY <1>3 DEF AloneInv, GoneInv
<1>8. OrphanInv' /\ UpperInv' /\ LowerInv' /\ SubsInv'
  BY <1>5 DEF OrphanInv, UpperInv, LowerInv, SubsInv, Undisturbed
\* What a name was counted for before the crash.
<1>9. ASSUME NEW s \in Slots, dirent[s] # 0, Single(dirent[s])
      PROVE  \/ due[s] = dirent[s]
             \/ \E t \in Threads : /\ s = to[t] /\ at[t] \in Slots
                                   /\ dirent[at[t]] = 0 /\ due[at[t]] = dirent[s]
  <2> SUFFICES ASSUME due[s] # dirent[s]
               PROVE  \E t \in Threads : /\ s = to[t] /\ at[t] \in Slots
                                         /\ dirent[at[t]] = 0 /\ due[at[t]] = dirent[s]
    OBVIOUS
  <2>1. PICK t \in Threads : /\ s = to[t] /\ ino[t] = dirent[s]
                             /\ \/ pc[t] = "count"
                                \/ /\ pc[t] = "parents" /\ at[t] \in Slots
                                   /\ dirent[at[t]] = 0 /\ due[at[t]] = ino[t]
    BY <1>9, NameCounted
  <2>2. pc[t] # "count"
    BY <1>9, <2>1, AtPlace DEF LinkStage, Single, WorksInv, Work
  <2>3. QED
    BY <2>1, <2>2
<1>10. UniqueInv'
  <2> SUFFICES ASSUME NEW r \in Slots, NEW s \in Slots, dirent[r] = dirent[s], dirent[r] # 0,
                      Single(dirent[r])
               PROVE  r = s
    BY <1>1, <1>2, <1>5 DEF UniqueInv, Single
  <2>1. \A q, v \in Slots : due[q] = dirent[r] /\ due[v] = dirent[r] => q = v
    BY DEF Links, UniqueInv
  <2>2. CASE due[r] = dirent[r] /\ due[s] = dirent[r]
    BY <2>1, <2>2
  <2>3. CASE due[r] # dirent[r] /\ due[s] = dirent[r]
    BY <1>9, <2>1, <2>3
  <2>4. CASE due[r] = dirent[r] /\ due[s] # dirent[r]
    BY <1>9, <2>1, <2>4
  <2>5. CASE due[r] # dirent[r] /\ due[s] # dirent[r]
    <3>1. PICK t \in Threads : r = to[t] /\ at[t] \in Slots /\ due[at[t]] = dirent[r]
      BY <1>9, <2>5
    <3>2. PICK u \in Threads : s = to[u] /\ at[u] \in Slots /\ due[at[u]] = dirent[r]
      BY <1>9, <2>5
    <3>3. at[t] = at[u]
      BY <2>1, <3>1, <3>2
    <3>4. t = u
      BY <3>1, <3>3, EntriesApart
    <3>5. QED
      BY <3>1, <3>2, <3>4
  <2>6. QED
    BY <2>2, <2>3, <2>4, <2>5
<1>11. AliveInv'
  <2> SUFFICES ASSUME Resolving, "link" \notin Ops, NEW s \in Slots, dirent[s] # 0
               PROVE  kind[dirent[s]] # "none"
    BY <1>1, <1>2, <1>5 DEF AliveInv
  <2>1. Single(dirent[s])
    BY DEF Single
  <2>2. \E r \in Slots : due[r] = dirent[s]
    BY <1>9, <2>1
  <2>3. QED
    BY <2>2 DEF Links, AliveInv
<1>12. nlink' \in [Inos -> Nat] /\ kind'[RootIno] # "file"
  BY <1>1 DEF Links, StoredNlink
<1>13. QED
  BY <1>5, <1>6, <1>7, <1>8, <1>10, <1>11, <1>12 DEF Links

-----------------------------------------------------------------------------
(* What a request does to the counts                                       *)

LEMMA AloneKept ==
  ASSUME IndInv, ParentInv, AloneInv, NEW t \in Threads, OthersKept(t),
         \A u \in Threads : u # t => dst'[u] = dst[u],
         Fresh(t)' => Fresh(t) /\ ino'[t] = ino[t] /\ at'[t] = at[t],
         Removing(t)' => \/ Removing(t) /\ ino'[t] = ino[t]
                         \/ \E s \in Slots : dirent[s] = ino'[t],
         Replacing(t)' => \/ Replacing(t) /\ dst'[t] = dst[t]
                          \/ \E s \in Slots : dirent[s] = dst'[t],
         \A s \in Slots : due'[s] \in {due[s], 0} \/ (Moving(t) /\ due'[s] = ino[t])
  PROVE  AloneInv'
<1> SUFFICES ASSUME NEW w \in Threads, Fresh(w)'
             PROVE  /\ \A s \in Slots : due'[s] = ino'[w] => s = at'[w]
                    /\ \A u \in Threads : /\ Removing(u)'  => ino'[u] # ino'[w]
                                          /\ Replacing(u)' => dst'[u] # ino'[w]
  BY DEF AloneInv
<1>1. Fresh(w) /\ ino'[w] = ino[w] /\ at'[w] = at[w]
  BY DEF OthersKept, Fresh
<1>2. PICK i \in Inos :
        /\ i = ino[w] /\ \A s \in Slots : dirent[s] # i
        /\ \A u \in Threads : Moving(u) => ino[u] # i
  BY <1>1 DEF ParentInv, FreshInv
<1>3. i # 0
  BY DEF Inos
<1>4. /\ \A s \in Slots : due[s] = i => s = at[w]
      /\ \A u \in Threads : /\ Removing(u)  => ino[u] # i
                            /\ Replacing(u) => dst[u] # i
  BY <1>1, <1>2 DEF AloneInv
<1>5. \A s \in Slots : due'[s] = i => s = at[w]
  BY <1>2, <1>3, <1>4
<1>6. ASSUME NEW u \in Threads
      PROVE  /\ Removing(u)'  => ino'[u] # i
             /\ Replacing(u)' => dst'[u] # i
  <2>1. CASE u = t
    BY <1>2, <1>4, <2>1
  <2>2. CASE u # t
    <3>1. /\ Removing(u)' => Removing(u) /\ ino'[u] = ino[u]
          /\ Replacing(u)' => Replacing(u) /\ dst'[u] = dst[u]
      BY <2>2 DEF OthersKept, Removing, Replacing
    <3>2. QED
      BY <1>4, <3>1
  <2>3. QED
    BY <2>1, <2>2
<1>7. QED
  BY <1>1, <1>2, <1>5, <1>6

LEMMA AloneMade ==
  ASSUME IndInv, ParentInv, WorksInv, AloneInv, NEW t \in Threads, OthersKept(t), dst' = dst,
         nextIno \in Inos, ino'[t] = nextIno, pc'[t] \in {"target", "name"}, at'[t] = at[t],
         due' = [due EXCEPT ![at[t]] = nextIno]
  PROVE  AloneInv'
<1> SUFFICES ASSUME NEW w \in Threads, Fresh(w)'
             PROVE  /\ \A s \in Slots : due'[s] = ino'[w] => s = at'[w]
                    /\ \A u \in Threads : /\ Removing(u)'  => ino'[u] # ino'[w]
                                          /\ Replacing(u)' => dst'[u] # ino'[w]
  BY DEF AloneInv
<1>1. DueFacts
  BY DueIs
<1>2. \A s \in Slots : due'[s] = IF s = at[t] THEN nextIno ELSE due[s]
  BY <1>1 DEF DueFacts
<1>3. ASSUME NEW u \in Threads
      PROVE  /\ Removing(u)' => Removing(u) /\ u # t /\ ino'[u] = ino[u] /\ ino[u] < nextIno
             /\ Replacing(u)' => Replacing(u) /\ u # t /\ dst'[u] = dst[u] /\ dst[u] < nextIno
  BY DEF OthersKept, Removing, Replacing, WorksInv, Work
<1>4. nextIno \in Nat
  BY DEF Inos
<1>5. CASE w = t
  <2>1. \A s \in Slots : due[s] \in 0 .. MaxIno /\ due[s] < nextIno
    BY DueRange
  <2>2. \A s \in Slots : due[s] # nextIno
    BY <1>4, <2>1
  <2>3. \A u \in Threads : /\ Removing(u)'  => ino'[u] # nextIno
                           /\ Replacing(u)' => dst'[u] # nextIno
    BY <1>3, <1>4
  <2>4. QED
    BY <1>2, <1>5, <2>2, <2>3
<1>6. CASE w # t
  <2>1. Fresh(w) /\ ino'[w] = ino[w] /\ at'[w] = at[w]
    BY <1>6 DEF OthersKept, Fresh
  <2>2. ino[w] \in Inos /\ ino[w] < nextIno
    BY <2>1 DEF ParentInv, FreshInv
  <2>3. ino[w] # nextIno
    BY <1>4, <2>2
  <2>4. QED
    BY <1>2, <1>3, <2>1, <2>3 DEF AloneInv
<1>7. QED
  BY <1>5, <1>6

\* A request that goes on to its next place, or ends.
GoesTo(t, l) == l \in PCs /\ Goto(t, l) /\ UNCHANGED request
Carries(t)   == Reply(t) \/ \E l \in PCs : GoesTo(t, l)

NewAt(t) == op[t] = "mkdir" /\ pc[t] \in {"name", "parent"}

LEMMA NewDirs ==
  ASSUME IndInv, NEW t \in Threads, at[t] \in Slots
  PROVE  NewDir(at[t]) <=> NewAt(t)
BY EntriesApart DEF NewDir, NewAt

LEMMA CarriesFacts ==
  ASSUME IndInv, ParentInv, NEW t \in Threads, Carries(t)
  PROVE  /\ OthersKept(t) /\ \A u \in Threads : u # t => dst'[u] = dst[u] /\ Held(u)' = Held(u)
         /\ at'[t] \in {at[t], NoSlot} /\ to'[t] \in {to[t], NoSlot}
         /\ Reply(t) => /\ pc'[t] = "idle" /\ op'[t] = "none" /\ at'[t] = NoSlot
                        /\ to'[t] = NoSlot /\ ino'[t] = 0 /\ dst'[t] = 0
                        /\ Held(t)' = 0 /\ Work(t)'
         /\ \A l \in PCs : GoesTo(t, l) =>
              /\ pc'[t] = l /\ op'[t] = op[t] /\ at'[t] = at[t] /\ to'[t] = to[t]
              /\ ino'[t] = ino[t] /\ dst'[t] = dst[t] /\ locks'[t] = locks[t]
         /\ \A s \in Slots : s # at[t] => (NewDir(s)' <=> NewDir(s))
<1>1. TypeInv /\ KindType
  BY DEF IndInv, ParentInv
<1>2. OthersKept(t) /\ \A u \in Threads : u # t => dst'[u] = dst[u]
  BY <1>1 DEF Carries, GoesTo, Reply, Goto, request, OthersKept, TypeInv, KindType
<1>3. \A u \in Threads : u # t => Held(u)' = Held(u)
  BY <1>2 DEF OthersKept, Held
<1>4. Reply(t) => /\ pc'[t] = "idle" /\ op'[t] = "none" /\ at'[t] = NoSlot
                  /\ to'[t] = NoSlot /\ ino'[t] = 0 /\ dst'[t] = 0
  BY <1>1 DEF Reply, TypeInv, KindType
<1>5. Reply(t) => Held(t)' = 0 /\ Work(t)'
  BY <1>4 DEF Held, Work, Removing, Replacing
<1>6. \A l \in PCs : GoesTo(t, l) =>
        /\ pc'[t] = l /\ op'[t] = op[t] /\ at'[t] = at[t] /\ to'[t] = to[t]
        /\ ino'[t] = ino[t] /\ dst'[t] = dst[t] /\ locks'[t] = locks[t]
  BY <1>1 DEF GoesTo, Goto, request, TypeInv
<1>7. at'[t] \in {at[t], NoSlot} /\ to'[t] \in {to[t], NoSlot}
  BY <1>4, <1>6 DEF Carries
<1>8. \A s \in Slots : s # at[t] => (NewDir(s)' <=> NewDir(s))
  <2>1. ASSUME NEW s \in Slots, s # at[t] PROVE NewDir(s)' <=> NewDir(s)
    <3>1. s # at'[t]
      BY <1>7, <2>1, SlotFacts
    <3>2. QED
      BY <1>2, <2>1, <3>1 DEF NewDir, OthersKept
  <2>2. QED
    BY <2>1
<1>9. QED
  BY <1>2, <1>3, <1>4, <1>5, <1>6, <1>7, <1>8

\* A step of a request, by what it does to its own entries.
LEMMA CarriesLinks ==
  ASSUME IndInv, ParentInv, LinkInv, SameUse, NEW t \in Threads, Carries(t),
         NamesApart(t), nextIno' \in {nextIno, nextIno + 1}, KindStep(t), Work(t)',
         Fresh(t)' => Fresh(t), Removing(t)' => Removing(t), Replacing(t)' => Replacing(t),
         \A s \in Slots : due'[s] \in {due[s], 0} \/ (Moving(t) /\ due'[s] = ino[t]),
         Links'
  PROVE  LinkInv'
<1>1. /\ OthersKept(t) /\ \A u \in Threads : u # t => dst'[u] = dst[u]
      /\ Reply(t) => pc'[t] = "idle"
      /\ \A l \in PCs : GoesTo(t, l) => at'[t] = at[t] /\ ino'[t] = ino[t] /\ dst'[t] = dst[t]
  BY CarriesFacts
<1>2. pc'[t] = "idle" \/ (at'[t] = at[t] /\ ino'[t] = ino[t] /\ dst'[t] = dst[t])
  BY <1>1 DEF Carries
<1>3. AloneInv'
  BY <1>1, <1>2, AloneKept DEF LinkInv, Fresh, Removing, Replacing
<1>4. \A u \in Threads : u # t => Work(u)'
  BY <1>1, OtherWork DEF LinkInv, SameUse
<1>5. WorksInv'
  BY <1>4 DEF WorksInv
<1>6. RemountInv'
  BY DEF SameUse, LinkInv, RemountInv, MaxRemounts
<1>7. QED
  BY <1>3, <1>5, <1>6 DEF LinkInv

LEMMA CarriesDue ==
  ASSUME IndInv, ParentInv, IndInv', ParentInv', NEW t \in Threads, Carries(t), NamesApart(t)
  PROVE  /\ due \in [Slots -> 0 .. MaxIno] /\ due' \in [Slots -> 0 .. MaxIno]
         /\ \A s \in Slots : s # at[t] /\ s # to[t] => due'[s] = due[s]
         /\ at[t] \in Slots => /\ due[at[t]] = AtDue(t)
                               /\ due'[at[t]] = IF at'[t] = at[t] THEN AtDue(t)' ELSE dirent'[at[t]]
         /\ to[t] \in Slots => /\ due[to[t]] = ToDue(t)
                               /\ due'[to[t]] = IF to'[t] = to[t] THEN ToDue(t)' ELSE dirent'[to[t]]
<1>1. DueFacts /\ DueFacts'
  BY DueIs, DueIsNext
<1>2. /\ OthersKept(t) /\ \A u \in Threads : u # t => dst'[u] = dst[u]
      /\ at'[t] \in {at[t], NoSlot} /\ to'[t] \in {to[t], NoSlot}
  BY CarriesFacts
<1>3. QED
  BY <1>1, <1>2, DueStep DEF DueFacts

\* Whether the directory at the slot of a request is new, after a step.
LEMMA NewDirsNext ==
  ASSUME IndInv, IndInv', ParentInv, NEW t \in Threads, Carries(t), NEW s \in Slots, s = at[t]
  PROVE  NewDir(s)' <=> at'[t] = s /\ NewAt(t)'
<1>1. OthersKept(t)
  BY CarriesFacts
<1>2. \A u \in Threads : u # t => at'[u] # s
  BY <1>1, EntriesApart DEF OthersKept
<1>3. QED
  BY <1>2 DEF NewDir, NewAt

LEMMA QuietCarries ==
  ASSUME IndInv, ParentInv, IndInv', ParentInv', LinkInv, SameUse, NEW t \in Threads,
         Carries(t), NamesApart(t), nextIno' \in {nextIno, nextIno + 1},
         kind' = kind, nlink' = nlink, Work(t)', Held(t)' = Held(t),
         Fresh(t)' => Fresh(t), Removing(t)' => Removing(t), Replacing(t)' => Replacing(t),
         at[t] \in Slots => due'[at[t]] = due[at[t]]
                           /\ (NewAt(t) <=> at'[t] = at[t] /\ NewAt(t)'),
         to[t] \in Slots => due'[to[t]] = due[to[t]]
  PROVE  LinkInv'
<1>1. due' = due
  BY CarriesDue
<1>2. \A s \in Slots : NewDir(s)' <=> NewDir(s)
  <2>1. ASSUME NEW s \in Slots, s = at[t] PROVE NewDir(s)' <=> NewDir(s)
    BY <2>1, NewDirs, NewDirsNext
  <2>2. QED
    BY <2>1, CarriesFacts
<1>3. \A u \in Threads : Held(u)' = Held(u)
  BY CarriesFacts
<1>4. Links'
  BY <1>1, <1>2, <1>3, QuietLinks DEF Quiet, LinkInv
<1>5. KindStep(t)
  BY DEF KindStep
<1>6. QED
  BY <1>1, <1>4, <1>5, CarriesLinks

\* What the lemmas on the steps of a request start from.
Before(t) ==
  /\ t \in Threads /\ IndInv /\ ParentInv /\ IndInv' /\ ParentInv' /\ LinkInv /\ SameUse

LEMMA TargetLinks ==
  ASSUME NEW t, Before(t), pc[t] = "target", GoesTo(t, "name"),
         UNCHANGED <<kind, dirent, nlink, nextIno>>
  PROVE  LinkInv'
<1> USE DEF Before
<1>1. MakeStage(t) /\ Work(t) /\ Carries(t) /\ NamesApart(t) /\ "name" \in PCs
  BY AtPlace DEF LinkInv, WorksInv, Carries, PCs, NamesApart
<1>2. /\ pc'[t] = "name" /\ op'[t] = op[t] /\ at'[t] = at[t] /\ ino'[t] = ino[t]
      /\ to[t] \notin Slots /\ at[t] \in Slots
  BY <1>1, CarriesFacts, SlotFacts DEF MakeStage
<1>3. Work(t)'
  BY <1>1, <1>2 DEF Work, MakeStage, Removing, Replacing
<1>4. /\ Held(t)' = Held(t) /\ Fresh(t)
      /\ ~Removing(t)' /\ ~Replacing(t)'
  BY <1>2 DEF Held, Fresh, Removing, Replacing
<1>5. due'[at[t]] = due[at[t]]
  BY <1>1, <1>2, CarriesDue DEF AtDue
<1>6. ~NewAt(t) /\ ~NewAt(t)'
  BY <1>1, <1>2 DEF NewAt, Work
<1>7. QED
  BY <1>1, <1>2, <1>3, <1>4, <1>5, <1>6, QuietCarries

LEMMA NotMadeLinks ==
  ASSUME NEW t, Before(t), pc[t] = "make", Reply(t), nextIno' = nextIno + 1,
         UNCHANGED <<kind, dirent, nlink>>
  PROVE  LinkInv'
<1> USE DEF Before
<1>1. MakeStage(t) /\ Work(t) /\ Carries(t) /\ NamesApart(t)
  BY AtPlace DEF LinkInv, WorksInv, Carries, NamesApart
<1>2. /\ pc'[t] = "idle" /\ at'[t] = NoSlot /\ Work(t)' /\ Held(t)' = 0 /\ at'[t] # at[t]
      /\ to[t] \notin Slots /\ at[t] \in Slots
  BY <1>1, CarriesFacts, SlotFacts DEF MakeStage
<1>3. Held(t)' = Held(t) /\ ~Fresh(t)' /\ ~Removing(t)' /\ ~Replacing(t)'
  BY <1>2 DEF Held, Fresh, Removing, Replacing
<1>4. due'[at[t]] = due[at[t]]
  BY <1>1, <1>2, CarriesDue DEF AtDue
<1>5. ~NewAt(t)
  BY DEF NewAt
<1>6. QED
  BY <1>1, <1>2, <1>3, <1>4, <1>5, QuietCarries

LEMMA NamedLinks ==
  ASSUME NEW t, Before(t), pc[t] = "name", dirent' = [dirent EXCEPT ![at[t]] = ino[t]],
         IF op[t] = "mkdir" THEN GoesTo(t, "parent") ELSE Reply(t),
         UNCHANGED <<kind, nlink, nextIno>>
  PROVE  LinkInv'
<1> USE DEF Before
<1>1. MakeStage(t) /\ Work(t) /\ Carries(t) /\ "parent" \in PCs /\ TypeInv
  BY AtPlace DEF LinkInv, WorksInv, Carries, PCs, IndInv
<1>2. at[t] \in Slots /\ to[t] \notin Slots /\ at[t] # NoSlot
  BY <1>1, SlotFacts DEF MakeStage
<1>3. NamesApart(t) /\ dirent'[at[t]] = ino[t]
  BY <1>1, <1>2 DEF NamesApart, TypeInv
<1>4. Fresh(t) /\ ino[t] # 0
  BY DEF Fresh, ParentInv, FreshInv, Inos
<1>5. due[at[t]] = ino[t] /\ Held(t) = 0
  BY <1>1, <1>2, <1>3, CarriesDue DEF AtDue, Held
<1>6. CASE op[t] = "mkdir"
  <2>1. /\ pc'[t] = "parent" /\ op'[t] = op[t] /\ at'[t] = at[t] /\ to'[t] = to[t]
        /\ ino'[t] = ino[t]
    BY <1>1, <1>6, CarriesFacts
  <2>2. Work(t)'
    BY <1>1, <1>4, <1>6, <2>1 DEF Work, Removing, Replacing
  <2>3. Held(t)' = 0 /\ ~Fresh(t)' /\ ~Removing(t)' /\ ~Replacing(t)'
    BY <2>1 DEF Held, Fresh, Removing, Replacing
  <2>4. due'[at[t]] = ino[t]
    BY <1>1, <1>2, <1>3, <2>1, CarriesDue DEF AtDue
  <2>5. NewAt(t) /\ NewAt(t)'
    BY <1>6, <2>1 DEF NewAt
  <2>6. QED
    BY <1>1, <1>2, <1>3, <1>5, <2>1, <2>2, <2>3, <2>4, <2>5, QuietCarries
<1>7. CASE op[t] # "mkdir"
  <2>1. pc'[t] = "idle" /\ at'[t] # at[t] /\ Work(t)' /\ Held(t)' = 0
    BY <1>1, <1>2, <1>7, CarriesFacts
  <2>2. ~Fresh(t)' /\ ~Removing(t)' /\ ~Replacing(t)'
    BY <2>1 DEF Fresh, Removing, Replacing
  <2>3. due'[at[t]] = ino[t]
    BY <1>1, <1>2, <1>3, <2>1, CarriesDue
  <2>4. ~NewAt(t)
    BY <1>7 DEF NewAt
  <2>5. QED
    BY <1>1, <1>2, <1>3, <1>5, <2>1, <2>2, <2>3, <2>4, QuietCarries
<1>8. QED
  BY <1>6, <1>7

LEMMA UnnamedLinks ==
  ASSUME NEW t, Before(t), pc[t] = "unname",
         \/ dirent' = [dirent EXCEPT ![at[t]] = 0] /\ GoesTo(t, "unlink")
         \/ dirent' = dirent /\ Reply(t),
         UNCHANGED <<kind, nlink, nextIno>>
  PROVE  LinkInv'
<1> USE DEF Before
<1>1. UnlinkStage(t) /\ Work(t) /\ Carries(t) /\ "unlink" \in PCs /\ TypeInv
  BY AtPlace DEF LinkInv, WorksInv, Carries, PCs, IndInv, GoesTo
<1>2. at[t] \in Slots /\ to[t] \notin Slots /\ at[t] # NoSlot /\ dirent[at[t]] = ino[t]
      /\ op[t] \in {"unlink", "rmdir"}
  BY <1>1, SlotFacts DEF UnlinkStage, Work
<1>3. NamesApart(t)
  BY <1>1 DEF NamesApart, TypeInv
<1>4. due[at[t]] = ino[t] /\ Held(t) = 0 /\ Removing(t) /\ ~NewAt(t)
  BY <1>1, <1>2, <1>3, CarriesDue DEF AtDue, Held, Removing, NewAt
<1>5. CASE dirent' = [dirent EXCEPT ![at[t]] = 0] /\ GoesTo(t, "unlink")
  <2>1. /\ pc'[t] = "unlink" /\ op'[t] = op[t] /\ at'[t] = at[t] /\ to'[t] = to[t]
        /\ ino'[t] = ino[t]
    BY <1>1, <1>5, CarriesFacts
  <2>2. Work(t)'
    BY <1>1, <1>2, <1>4, <1>5, <2>1 DEF Work, Replacing
  <2>3. Held(t)' = 0 /\ ~Fresh(t)' /\ ~Replacing(t)' /\ ~NewAt(t)'
    BY <2>1 DEF Held, Fresh, Replacing, NewAt
  <2>4. due'[at[t]] = ino[t]
    BY <1>1, <1>2, <1>3, <2>1, CarriesDue DEF AtDue
  <2>5. QED
    BY <1>1, <1>2, <1>3, <1>4, <1>5, <2>2, <2>3, <2>4, QuietCarries
<1>6. CASE dirent' = dirent /\ Reply(t)
  <2>1. pc'[t] = "idle" /\ at'[t] # at[t] /\ Work(t)' /\ Held(t)' = 0
    BY <1>1, <1>2, <1>6, CarriesFacts
  <2>2. ~Fresh(t)' /\ ~Removing(t)' /\ ~Replacing(t)'
    BY <2>1 DEF Fresh, Removing, Replacing
  <2>3. due'[at[t]] = ino[t]
    BY <1>1, <1>2, <1>3, <1>6, <2>1, CarriesDue
  <2>4. QED
    BY <1>1, <1>2, <1>3, <1>4, <2>1, <2>2, <2>3, QuietCarries
<1>7. QED
  BY <1>5, <1>6

LEMMA PurgeLinks ==
  ASSUME NEW t, Before(t), pc[t] = "purge", GoesTo(t, "delete"),
         UNCHANGED <<kind, dirent, nlink, nextIno>>
  PROVE  LinkInv'
<1> USE DEF Before
<1>1. UnlinkStage(t) /\ Work(t) /\ Carries(t) /\ NamesApart(t) /\ "delete" \in PCs
  BY AtPlace DEF LinkInv, WorksInv, Carries, PCs, NamesApart
<1>2. /\ pc'[t] = "delete" /\ op'[t] = op[t] /\ at'[t] = at[t] /\ ino'[t] = ino[t]
      /\ to[t] \notin Slots /\ at[t] \in Slots
  BY <1>1, CarriesFacts, SlotFacts DEF UnlinkStage
<1>3. Work(t)'
  BY <1>1, <1>2 DEF Work, UnlinkStage, Removing, Replacing
<1>4. Held(t)' = Held(t) /\ Removing(t) /\ ~Fresh(t)' /\ ~Replacing(t)' /\ ~NewAt(t) /\ ~NewAt(t)'
  BY <1>2 DEF Held, Fresh, Removing, Replacing, NewAt
<1>5. due'[at[t]] = due[at[t]]
  BY <1>1, <1>2, CarriesDue DEF AtDue
<1>6. QED
  BY <1>1, <1>2, <1>3, <1>4, <1>5, QuietCarries

LEMMA LinkNameLinks ==
  ASSUME NEW t, Before(t), pc[t] = "linkname",
         \/ dirent' = [dirent EXCEPT ![to[t]] = ino[t]] /\ GoesTo(t, "count")
         \/ dirent' = dirent /\ Reply(t),
         UNCHANGED <<kind, nlink, nextIno>>
  PROVE  LinkInv'
<1> USE DEF Before
<1>1. LinkStage(t) /\ Work(t) /\ Carries(t) /\ "count" \in PCs /\ TypeInv
  BY AtPlace DEF LinkInv, WorksInv, Carries, PCs, IndInv, GoesTo
<1>2. to[t] \in Slots /\ at[t] \notin Slots /\ to[t] # NoSlot /\ dirent[to[t]] = 0
      /\ op[t] = "link"
  BY <1>1, SlotFacts DEF LinkStage, Work
<1>3. NamesApart(t)
  BY <1>1 DEF NamesApart, TypeInv
<1>4. due[to[t]] = 0 /\ Held(t) = 0
  BY <1>1, <1>2, <1>3, CarriesDue DEF ToDue, Held
<1>5. CASE dirent' = [dirent EXCEPT ![to[t]] = ino[t]] /\ GoesTo(t, "count")
  <2>1. /\ pc'[t] = "count" /\ op'[t] = op[t] /\ at'[t] = at[t] /\ to'[t] = to[t]
        /\ ino'[t] = ino[t] /\ locks'[t] = locks[t]
    BY <1>1, <1>5, CarriesFacts
  <2>2. Work(t)'
    BY <1>1, <1>2, <1>4, <1>5, <2>1 DEF Work, Removing, Replacing
  <2>3. Held(t)' = 0 /\ ~Fresh(t)' /\ ~Removing(t)' /\ ~Replacing(t)'
    BY <2>1 DEF Held, Fresh, Removing, Replacing
  <2>4. due'[to[t]] = 0
    BY <1>1, <1>2, <1>3, <2>1, CarriesDue DEF ToDue
  <2>5. QED
    BY <1>1, <1>2, <1>3, <1>4, <1>5, <2>2, <2>3, <2>4, QuietCarries
<1>6. CASE dirent' = dirent /\ Reply(t)
  <2>1. pc'[t] = "idle" /\ to'[t] # to[t] /\ Work(t)' /\ Held(t)' = 0
    BY <1>1, <1>2, <1>6, CarriesFacts
  <2>2. ~Fresh(t)' /\ ~Removing(t)' /\ ~Replacing(t)'
    BY <2>1 DEF Fresh, Removing, Replacing
  <2>3. due'[to[t]] = 0
    BY <1>1, <1>2, <1>3, <1>6, <2>1, CarriesDue
  <2>4. QED
    BY <1>1, <1>2, <1>3, <1>4, <2>1, <2>2, <2>3, QuietCarries
<1>7. QED
  BY <1>5, <1>6

LEMMA ReplaceLinks ==
  ASSUME NEW t, Before(t), pc[t] = "replace", dirent' = [dirent EXCEPT ![to[t]] = 0],
         GoesTo(t, "purgedst"), UNCHANGED <<kind, nlink, nextIno>>
  PROVE  LinkInv'
<1> USE DEF Before
<1>1. RenameStage(t) /\ Work(t) /\ Carries(t) /\ "purgedst" \in PCs /\ TypeInv
  BY AtPlace DEF LinkInv, WorksInv, Carries, PCs, IndInv
<1>2. to[t] \in Slots /\ at[t] \in Slots /\ at[t] # to[t] /\ dirent[to[t]] = dst[t]
      /\ op[t] = "rename"
  BY <1>1 DEF RenameStage, Work
<1>3. NamesApart(t) /\ dirent'[to[t]] = 0 /\ dirent'[at[t]] = dirent[at[t]]
  BY <1>1, <1>2 DEF NamesApart, TypeInv
<1>4. /\ pc'[t] = "purgedst" /\ op'[t] = op[t] /\ at'[t] = at[t] /\ to'[t] = to[t]
      /\ ino'[t] = ino[t] /\ dst'[t] = dst[t]
  BY <1>1, CarriesFacts
<1>5. Replacing(t) /\ Replacing(t)' /\ ~Removing(t)' /\ ~Fresh(t)' /\ Held(t) = 0 /\ Held(t)' = 0
      /\ ~NewAt(t) /\ ~NewAt(t)'
  BY <1>4 DEF Held, Fresh, Removing, Replacing, NewAt
<1>6. Work(t)'
  BY <1>1, <1>2, <1>3, <1>4, <1>5, SameFlags DEF Work
<1>7. due'[to[t]] = due[to[t]] /\ due'[at[t]] = due[at[t]]
  BY <1>1, <1>2, <1>3, <1>4, CarriesDue DEF ToDue, AtDue
<1>8. QED
  BY <1>1, <1>2, <1>3, <1>4, <1>5, <1>6, <1>7, QuietCarries

LEMMA OldNameLinks ==
  ASSUME NEW t, Before(t), pc[t] = "oldname", dirent' = [dirent EXCEPT ![at[t]] = 0],
         GoesTo(t, "newname"), UNCHANGED <<kind, nlink, nextIno>>
  PROVE  LinkInv'
<1> USE DEF Before
<1>1. RenameStage(t) /\ Work(t) /\ Carries(t) /\ "newname" \in PCs /\ TypeInv
  BY AtPlace DEF LinkInv, WorksInv, Carries, PCs, IndInv
<1>2. /\ to[t] \in Slots /\ at[t] \in Slots /\ at[t] # to[t] /\ op[t] = "rename"
      /\ dirent[at[t]] = ino[t] /\ ino[t] # 0
      /\ dirent[to[t]] = 0 \/ kind[dirent[to[t]]] = "none"
  BY <1>1 DEF RenameStage, Work
<1>3. NamesApart(t) /\ dirent'[to[t]] = dirent[to[t]]
  BY <1>1, <1>2 DEF NamesApart, TypeInv
<1>4. /\ pc'[t] = "newname" /\ op'[t] = op[t] /\ at'[t] = at[t] /\ to'[t] = to[t]
      /\ ino'[t] = ino[t] /\ dst'[t] = dst[t]
  BY <1>1, CarriesFacts
<1>5. ~Replacing(t)' /\ ~Removing(t)' /\ ~Fresh(t)' /\ Held(t) = 0 /\ Held(t)' = 0
      /\ ~NewAt(t) /\ ~NewAt(t)'
  BY <1>4 DEF Held, Fresh, Removing, Replacing, NewAt
<1>6. Work(t)'
  BY <1>1, <1>2, <1>3, <1>4, <1>5, SameFlags DEF Work
<1>7. due'[to[t]] = due[to[t]] /\ due'[at[t]] = due[at[t]]
  BY <1>1, <1>2, <1>3, <1>4, CarriesDue DEF ToDue, AtDue
<1>8. QED
  BY <1>1, <1>2, <1>3, <1>4, <1>5, <1>6, <1>7, QuietCarries

\* What is removed is locked.
LEMMA HeldLocked ==
  ASSUME IndInv, ParentInv, LinkInv, NEW t \in Threads, Held(t) # 0
  PROVE  /\ Held(t) \in Inos /\ Held(t) \in locks[t] /\ Held(t) < nextIno
         /\ \/ Removing(t) /\ Held(t) = ino[t] /\ UnlinkStage(t)
            \/ Replacing(t) /\ Held(t) = dst[t] /\ RenameStage(t)
<1>1. CASE pc[t] \in {"purge", "delete"}
  <2>1. Removing(t) /\ Held(t) = ino[t] /\ UnlinkStage(t)
    BY <1>1, AtPlace DEF Removing, Held
  <2>2. QED
    BY <2>1 DEF ParentInv, WorkInv, LinkInv, WorksInv, Work
<1>2. CASE pc[t] = "deletedst"
  <2>1. Replacing(t) /\ Held(t) = dst[t] /\ RenameStage(t)
    BY <1>2, AtPlace DEF Replacing, Held
  <2>2. QED
    BY <2>1 DEF ParentInv, WorkInv, LinkInv, WorksInv, Work
<1>3. QED
  BY <1>1, <1>2 DEF Held

\* No other request removes a locked inode.
LEMMA LockedUnheld ==
  ASSUME IndInv, ParentInv, LinkInv, NEW t \in Threads, NEW i \in Inos, i \in locks[t],
         Held(t) # i
  PROVE  ~IsHeld(i)
<1> SUFFICES ASSUME NEW u \in Threads, Held(u) = i PROVE FALSE
  BY DEF IsHeld
<1>1. u # t /\ i # 0
  BY DEF Inos
<1>2. i \in locks[u]
  BY <1>1, HeldLocked
<1>3. QED
  BY <1>1, <1>2 DEF IndInv, LockInv

LEMMA KilledAlone ==
  ASSUME IndInv, ParentInv, LinkInv, NEW t \in Threads, NEW i \in Inos, Held(t) = i,
         NEW u \in Threads, u # t
  PROVE  ~Needs(u, i)
<1> SUFFICES ASSUME Needs(u, i) PROVE FALSE
  OBVIOUS
<1>0. i # 0 /\ Work(u)
  BY DEF Inos, LinkInv, WorksInv
<1>1. i \in locks[t] /\ i \notin locks[u]
  BY <1>0, HeldLocked DEF IndInv, LockInv
<1>2. ino[u] = i /\ ~Removing(u) /\ ~Replacing(u)
  BY <1>1 DEF Needs, ParentInv, WorkInv, Removing, Replacing
<1>3. ~Fresh(u)
  BY <1>0, <1>2, HeldLocked DEF LinkInv, AloneInv
<1>4. pc[u] \in {"parent", "parents"}
  BY <1>0, <1>1, <1>2, <1>3 DEF Needs, Fresh, Removing, Work
<1>5. /\ at[u] \in Slots /\ AtDue(u) = i
      /\ kind[i] = "dir"
  <2>1. CASE pc[u] = "parent"
    BY <1>0, <1>2, <2>1, AtPlace DEF MakeStage, AtDue, Work, SavedKind
  <2>2. CASE pc[u] = "parents"
    BY <1>0, <1>2, <2>2, AtPlace DEF RenameStage, AtDue, Work
  <2>3. QED
    BY <1>4, <2>1, <2>2
<1>6. due[at[u]] = i
  BY <1>5, DueIs DEF DueFacts
<1>7. QED
  BY <1>0, <1>5, <1>6 DEF LinkInv, Links, GoneInv, Single

LEMMA FreshAlone ==
  ASSUME IndInv, ParentInv, LinkInv, NEW t \in Threads, Fresh(t),
         NEW u \in Threads, u # t
  PROVE  ~Needs(u, ino[t])
<1> SUFFICES ASSUME Needs(u, ino[t]) PROVE FALSE
  OBVIOUS
<1>1. ino[u] = ino[t] /\ ~Removing(u)
  BY DEF Needs, LinkInv, AloneInv
<1>2. ~Moving(u) /\ ~Fresh(u) /\ \A s \in Slots : dirent[s] # ino[t]
  BY <1>1 DEF ParentInv, FreshInv
<1>3. pc[u] = "parent"
  BY <1>1, <1>2 DEF Needs, Moving, Fresh, Removing, Replacing
<1>4. at[u] \in Slots /\ dirent[at[u]] = ino[u]
  BY <1>3, AtPlace DEF MakeStage
<1>5. QED
  BY <1>1, <1>2, <1>4

LEMMA UnlinkedLinks ==
  ASSUME NEW t, Before(t), pc[t] = "unlink", op[t] = "unlink",
         nlink' = [nlink EXCEPT ![ino[t]] = Less(@)],
         IF LastLink(ino[t]) THEN GoesTo(t, "purge") ELSE Reply(t),
         UNCHANGED <<kind, dirent, nextIno>>
  PROVE  LinkInv'
<1> USE DEF Before
<1>1. UnlinkStage(t) /\ Work(t) /\ Carries(t) /\ NamesApart(t) /\ "purge" \in PCs /\ Removing(t)
  BY AtPlace DEF LinkInv, WorksInv, Carries, PCs, NamesApart, Removing, GoesTo
<1>2. /\ at[t] \in Slots /\ to[t] \notin Slots /\ at[t] # NoSlot /\ dirent[at[t]] = 0
      /\ Held(t) = 0
  BY <1>1, SlotFacts DEF UnlinkStage, Held
<1>3. PICK i \in Inos : i = ino[t] /\ i \in locks[t]
  BY <1>1 DEF ParentInv, WorkInv
<1>4. kind[i] = "file" /\ i # 0 /\ ~IsHeld(i)
  BY <1>1, <1>2, <1>3, LockedUnheld DEF Work, Inos
<1>5. due[at[t]] = i /\ due'[at[t]] = 0
  <2>1. due[at[t]] = i
    BY <1>1, <1>2, <1>3, CarriesDue DEF AtDue
  <2>2. CASE GoesTo(t, "purge")
    BY <1>1, <1>2, <2>1, <2>2, CarriesFacts, CarriesDue DEF AtDue
  <2>3. CASE Reply(t)
    BY <1>1, <1>2, <2>1, <2>3, CarriesFacts, CarriesDue
  <2>4. QED
    BY <2>1, <2>2, <2>3
<1>6. due' = [due EXCEPT ![at[t]] = 0]
  BY <1>1, <1>2, <1>5, CarriesDue
<1>7. /\ Held(t)' = IF Less(nlink[i]) = 0 THEN i ELSE 0
      /\ Work(t)' /\ ~Fresh(t)' /\ ~Replacing(t)' /\ ~NewAt(t) /\ ~NewAt(t)'
  <2>1. CASE LastLink(ino[t])
    <3>1. /\ pc'[t] = "purge" /\ op'[t] = op[t] /\ at'[t] = at[t] /\ to'[t] = to[t]
          /\ ino'[t] = ino[t]
      BY <1>1, <2>1, CarriesFacts
    <3>2. Work(t)'
      BY <1>1, <1>2, <3>1 DEF Work, Removing, Replacing
    <3>3. QED
      BY <1>3, <2>1, <3>1, <3>2 DEF Held, LastLink, Fresh, Replacing, NewAt
  <2>2. CASE ~LastLink(ino[t])
    <3>1. pc'[t] = "idle" /\ Work(t)' /\ Held(t)' = 0
      BY <1>1, <2>2, CarriesFacts
    <3>2. QED
      BY <1>3, <2>2, <3>1 DEF LastLink, Fresh, Replacing, NewAt
  <2>3. QED
    BY <2>1, <2>2
<1>8. \A r \in Slots : (NewDir(r)' <=> NewDir(r)) /\ (r = at[t] => ~NewDir(r))
  <2>1. ASSUME NEW r \in Slots, r = at[t] PROVE ~NewDir(r)' /\ ~NewDir(r)
    BY <1>1, <1>7, <2>1, NewDirs, NewDirsNext
  <2>2. QED
    BY <1>1, <2>1, CarriesFacts
<1>9. Loses(t, at[t], i)
  BY <1>1, <1>2, <1>3, <1>4, <1>5, <1>6, <1>7, <1>8, CarriesFacts DEF Loses
<1>10. Links'
  BY <1>1, <1>2, <1>9, CarriesDue, LosesLinks DEF LinkInv, ParentInv, WorkInv
<1>11. \A s \in Slots : due'[s] \in {due[s], 0}
  BY <1>6, <1>1, CarriesDue
<1>12. KindStep(t)
  BY DEF KindStep
<1>13. QED
  BY <1>1, <1>7, <1>10, <1>11, <1>12, CarriesLinks

LEMMA RmdirLinks ==
  ASSUME NEW t, Before(t), pc[t] = "unlink", op[t] = "rmdir",
         nlink' = [nlink EXCEPT ![at[t][1]] = Less(@)], GoesTo(t, "purge"),
         UNCHANGED <<kind, dirent, nextIno>>
  PROVE  LinkInv'
<1> USE DEF Before
<1>1. UnlinkStage(t) /\ Work(t) /\ Carries(t) /\ NamesApart(t) /\ "purge" \in PCs /\ Removing(t)
  BY AtPlace DEF LinkInv, WorksInv, Carries, PCs, NamesApart, Removing, GoesTo
<1>2. /\ at[t] \in Slots /\ to[t] \notin Slots /\ at[t] # NoSlot /\ dirent[at[t]] = 0
      /\ Held(t) = 0
  BY <1>1, SlotFacts DEF UnlinkStage, Held
<1>3. PICK i \in Inos : i = ino[t] /\ i \in locks[t]
  BY <1>1 DEF ParentInv, WorkInv
<1>4. kind[i] = "dir" /\ i # 0 /\ ~IsHeld(i)
  BY <1>1, <1>2, <1>3, LockedUnheld DEF Work, Inos
<1>5. /\ pc'[t] = "purge" /\ op'[t] = op[t] /\ at'[t] = at[t] /\ to'[t] = to[t]
      /\ ino'[t] = ino[t]
  BY <1>1, CarriesFacts
<1>6. due[at[t]] = i /\ due'[at[t]] = 0
  BY <1>1, <1>2, <1>3, <1>5, CarriesDue DEF AtDue
<1>7. due' = [due EXCEPT ![at[t]] = 0]
  BY <1>1, <1>2, <1>6, CarriesDue
<1>8. Work(t)'
  BY <1>1, <1>2, <1>5 DEF Work, Removing, Replacing
<1>9. Held(t)' = i /\ ~Fresh(t)' /\ ~Replacing(t)' /\ ~NewAt(t) /\ ~NewAt(t)'
  BY <1>3, <1>5 DEF Held, Fresh, Replacing, NewAt
<1>10. \A r \in Slots : (NewDir(r)' <=> NewDir(r)) /\ (r = at[t] => ~NewDir(r))
  <2>1. ASSUME NEW r \in Slots, r = at[t] PROVE ~NewDir(r)' /\ ~NewDir(r)
    BY <1>1, <1>9, <2>1, NewDirs, NewDirsNext
  <2>2. QED
    BY <1>1, <2>1, CarriesFacts
<1>11. Loses(t, at[t], i)
  BY <1>1, <1>2, <1>4, <1>6, <1>7, <1>9, <1>10, CarriesFacts DEF Loses
<1>12. Links'
  BY <1>1, <1>2, <1>11, CarriesDue, LosesLinks DEF LinkInv, ParentInv, WorkInv
<1>13. \A s \in Slots : due'[s] \in {due[s], 0}
  BY <1>1, <1>7, CarriesDue
<1>14. KindStep(t)
  BY DEF KindStep
<1>15. QED
  BY <1>1, <1>8, <1>9, <1>12, <1>13, <1>14, CarriesLinks

\* The inode that has lost its last name goes.
LEMMA DeletedLinks ==
  ASSUME NEW t, Before(t), NEW i \in Inos, Held(t) = i, Held(t)' = 0, Carries(t),
         kind' = [kind EXCEPT ![i] = "none"] \/ (Faults /\ kind' = kind),
         UNCHANGED <<dirent, nlink, nextIno>>, due' = due, Work(t)',
         ~Fresh(t)', ~Removing(t)', ~Replacing(t)', ~NewAt(t), ~NewAt(t)'
  PROVE  LinkInv'
<1> USE DEF Before
<1>1. KindType /\ NamesApart(t) /\ \A s \in Slots : due'[s] \in {due[s], 0}
  BY DEF ParentInv, NamesApart
<1>2. KindStep(t)
  BY <1>1, KilledAlone DEF KindStep, KindType
<1>3. at[t] \in Slots
  BY HeldLocked DEF Inos, UnlinkStage, RenameStage
<1>4. \A r \in Slots : NewDir(r)' <=> NewDir(r)
  <2>1. ASSUME NEW r \in Slots, r = at[t] PROVE ~NewDir(r)' /\ ~NewDir(r)
    BY <2>1, NewDirs, NewDirsNext
  <2>2. QED
    BY <2>1, CarriesFacts
<1>5. Kills(t, i)
  BY <1>4, CarriesFacts DEF Kills
<1>6. due \in [Slots -> 0 .. MaxIno]
  BY DueIs DEF DueFacts
<1>7. Links'
  BY <1>1, <1>5, <1>6, KillsLinks DEF LinkInv, KindType
<1>8. QED
  BY <1>1, <1>2, <1>7, CarriesLinks

LEMMA DeleteLinks ==
  ASSUME NEW t, Before(t), pc[t] = "delete", Reply(t),
         kind' = [kind EXCEPT ![ino[t]] = "none"] \/ (Faults /\ kind' = kind),
         UNCHANGED <<dirent, nlink, nextIno>>
  PROVE  LinkInv'
<1> USE DEF Before
<1>1. UnlinkStage(t) /\ Carries(t) /\ NamesApart(t) /\ Removing(t)
  BY AtPlace DEF Carries, NamesApart, Removing
<1>2. /\ at[t] \in Slots /\ to[t] \notin Slots /\ at[t] # NoSlot /\ dirent[at[t]] = 0
      /\ Held(t) = ino[t] /\ ~NewAt(t)
  BY <1>1, SlotFacts DEF UnlinkStage, Held, NewAt
<1>3. PICK i \in Inos : i = ino[t]
  BY <1>1 DEF ParentInv, WorkInv
<1>4. pc'[t] = "idle" /\ at'[t] # at[t] /\ Work(t)' /\ Held(t)' = 0
  BY <1>1, <1>2, CarriesFacts
<1>5. ~Fresh(t)' /\ ~Removing(t)' /\ ~Replacing(t)' /\ ~NewAt(t)'
  BY <1>4 DEF Fresh, Removing, Replacing, NewAt
<1>6. due'[at[t]] = due[at[t]]
  BY <1>1, <1>2, <1>4, CarriesDue DEF AtDue
<1>7. due' = due
  BY <1>1, <1>2, <1>6, CarriesDue
<1>8. QED
  BY <1>1, <1>2, <1>3, <1>4, <1>5, <1>7, DeletedLinks

LEMMA RenameDeleteLinks ==
  ASSUME NEW t, Before(t), pc[t] = "deletedst", GoesTo(t, "oldname"),
         kind' = [kind EXCEPT ![dst[t]] = "none"], UNCHANGED <<dirent, nlink, nextIno>>
  PROVE  LinkInv'
<1> USE DEF Before
<1>1. RenameStage(t) /\ Work(t) /\ Carries(t) /\ NamesApart(t) /\ Replacing(t)
      /\ "oldname" \in PCs
  BY AtPlace DEF LinkInv, WorksInv, Carries, PCs, NamesApart, Replacing
<1>2. /\ at[t] \in Slots /\ to[t] \in Slots /\ dirent[to[t]] = 0
      /\ Held(t) = dst[t] /\ ~NewAt(t) /\ op[t] = "rename"
  BY <1>1 DEF RenameStage, Held, NewAt, Work
<1>3. PICK i \in Inos : i = dst[t]
  BY <1>1 DEF ParentInv, WorkInv
<1>4. /\ pc'[t] = "oldname" /\ op'[t] = op[t] /\ at'[t] = at[t] /\ to'[t] = to[t]
      /\ ino'[t] = ino[t]
  BY <1>1, CarriesFacts
<1>5. ~Fresh(t)' /\ ~Removing(t)' /\ ~Replacing(t)' /\ ~NewAt(t)' /\ Held(t)' = 0
  BY <1>4 DEF Fresh, Removing, Replacing, NewAt, Held
<1>6. Work(t)'
  BY <1>1, <1>2, <1>4, <1>5, SameFlags DEF Work
<1>7. due'[at[t]] = due[at[t]] /\ due'[to[t]] = due[to[t]]
  BY <1>1, <1>2, <1>4, CarriesDue DEF AtDue, ToDue
<1>8. due' = due
  BY <1>1, <1>2, <1>7, CarriesDue
<1>9. QED
  BY <1>1, <1>2, <1>3, <1>5, <1>6, <1>8, DeletedLinks

LEMMA LinkCountLinks ==
  ASSUME NEW t, Before(t), pc[t] = "count", Reply(t),
         nlink' = [nlink EXCEPT ![ino[t]] = @ + 1], UNCHANGED <<kind, dirent, nextIno>>
  PROVE  LinkInv'
<1> USE DEF Before
<1>1. LinkStage(t) /\ Work(t) /\ Carries(t) /\ NamesApart(t) /\ TypeInv
  BY AtPlace DEF LinkInv, WorksInv, Carries, NamesApart, IndInv
<1>2. /\ to[t] \in Slots /\ at[t] \notin Slots /\ to[t] # NoSlot /\ dirent[to[t]] = ino[t]
      /\ Held(t) = 0 /\ Moving(t) /\ "link" \in Ops
  BY <1>1, SlotFacts DEF LinkStage, Held, Moving
<1>3. PICK i \in Inos : i = ino[t] /\ i \in locks[t] /\ kind[i] = "file"
  BY <1>1 DEF Work, TypeInv
<1>4. i # 0 /\ ~IsHeld(i)
  BY <1>2, <1>3, LockedUnheld DEF Inos
<1>5. pc'[t] = "idle" /\ to'[t] # to[t] /\ Work(t)' /\ Held(t)' = 0
  BY <1>1, <1>2, CarriesFacts
<1>6. due[to[t]] = 0 /\ due'[to[t]] = i
  BY <1>1, <1>2, <1>3, <1>5, CarriesDue DEF ToDue
<1>7. due' = [due EXCEPT ![to[t]] = i]
  BY <1>1, <1>2, <1>6, CarriesDue
<1>8. \A r \in Slots : NewDir(r)' <=> NewDir(r)
  BY <1>1, <1>2, CarriesFacts
<1>9. Gains(to[t], i)
  BY <1>1, <1>2, <1>3, <1>4, <1>5, <1>6, <1>7, <1>8, CarriesFacts DEF Gains
<1>10. Links'
  BY <1>1, <1>2, <1>9, CarriesDue, GainsLinks DEF LinkInv
<1>11. \A s \in Slots : due'[s] \in {due[s], 0} \/ (Moving(t) /\ due'[s] = ino[t])
  BY <1>1, <1>2, <1>3, <1>6, <1>7, CarriesDue
<1>12. KindStep(t) /\ ~Fresh(t)' /\ ~Removing(t)' /\ ~Replacing(t)'
  BY <1>5 DEF KindStep, Fresh, Removing, Replacing
<1>13. QED
  BY <1>1, <1>5, <1>10, <1>11, <1>12, CarriesLinks

LEMMA RenamePurgeLinks ==
  ASSUME NEW t, Before(t), pc[t] = "purgedst", GoesTo(t, "deletedst"), ~Faults,
         nlink' = IF IsDir(dst[t]) THEN [nlink EXCEPT ![to[t][1]] = Less(@)] ELSE nlink,
         UNCHANGED <<kind, dirent, nextIno>>
  PROVE  LinkInv'
<1> USE DEF Before
<1>1. RenameStage(t) /\ Work(t) /\ Carries(t) /\ NamesApart(t) /\ Replacing(t)
      /\ "deletedst" \in PCs
  BY AtPlace DEF LinkInv, WorksInv, Carries, PCs, NamesApart, Replacing
<1>2. /\ at[t] \in Slots /\ to[t] \in Slots /\ at[t] # to[t] /\ dirent[to[t]] = 0
      /\ Held(t) = 0 /\ op[t] = "rename"
  BY <1>1 DEF RenameStage, Held, Work
<1>3. PICK i \in Inos : i = dst[t] /\ i \in locks[t]
  BY <1>1 DEF ParentInv, WorkInv
<1>4. /\ pc'[t] = "deletedst" /\ op'[t] = op[t] /\ at'[t] = at[t] /\ to'[t] = to[t]
      /\ ino'[t] = ino[t] /\ dst'[t] = dst[t]
  BY <1>1, CarriesFacts
<1>5. /\ ~Fresh(t)' /\ ~Removing(t)' /\ Replacing(t)' /\ ~NewAt(t) /\ ~NewAt(t)'
      /\ Held(t)' = i /\ i # 0 /\ ~IsHeld(i)
  BY <1>2, <1>3, <1>4, LockedUnheld DEF Fresh, Removing, Replacing, NewAt, Held, Inos
<1>6. Work(t)'
  BY <1>1, <1>2, <1>4, <1>5, SameFlags DEF Work
<1>7. due'[at[t]] = due[at[t]] /\ due'[to[t]] = 0 /\ due[to[t]] = i
  BY <1>1, <1>2, <1>3, <1>4, CarriesDue DEF AtDue, ToDue
<1>8. due' = [due EXCEPT ![to[t]] = 0]
  BY <1>1, <1>2, <1>7, CarriesDue
<1>9. \A r \in Slots : (NewDir(r)' <=> NewDir(r)) /\ (r = to[t] => ~NewDir(r))
  <2>1. ASSUME NEW r \in Slots, r = at[t] PROVE ~NewDir(r)' /\ ~NewDir(r)
    BY <1>1, <1>5, <2>1, NewDirs, NewDirsNext
  <2>2. \A u \in Threads : u # t => at[u] # to[t]
    BY <1>2, EntriesApart
  <2>3. ~NewDir(to[t])
    BY <1>2, <2>2 DEF NewDir
  <2>4. QED
    BY <1>1, <2>1, <2>3, CarriesFacts
<1>10. kind[i] \in {"dir", "file"} => Loses(t, to[t], i)
  <2>1. Resolving => Single(i)
    BY <1>1, <1>2 DEF Resolving, Single, Work
  <2>2. QED
    BY <1>1, <1>2, <1>3, <1>5, <1>7, <1>8, <1>9, <2>1, CarriesFacts DEF Loses, IsDir
<1>11. Links'
  <2>1. kind[i] \in {"dir", "file"}
    BY <1>1, <1>3 DEF Work, ParentInv, KindType
  <2>2. QED
    BY <1>1, <1>2, <1>10, <2>1, CarriesDue, LosesLinks DEF LinkInv, ParentInv, WorkInv
<1>12. \A s \in Slots : due'[s] \in {due[s], 0}
  BY <1>1, <1>8, CarriesDue
<1>13. KindStep(t)
  BY DEF KindStep
<1>14. QED
  BY <1>1, <1>5, <1>6, <1>11, <1>12, <1>13, CarriesLinks

LEMMA NewNameLinks ==
  ASSUME NEW t, Before(t), pc[t] = "newname", dirent' = [dirent EXCEPT ![to[t]] = ino[t]],
         IF IsDir(ino[t]) /\ at[t][1] # to[t][1] THEN GoesTo(t, "parents") ELSE Reply(t),
         UNCHANGED <<kind, nlink, nextIno>>
  PROVE  LinkInv'
<1> USE DEF Before
<1>1. RenameStage(t) /\ Work(t) /\ Carries(t) /\ TypeInv /\ "parents" \in PCs /\ Moving(t)
  BY AtPlace DEF LinkInv, WorksInv, Carries, PCs, IndInv, GoesTo, Moving
<1>2. /\ at[t] \in Slots /\ to[t] \in Slots /\ at[t] # to[t] /\ dirent[at[t]] = 0
      /\ at[t] # NoSlot /\ to[t] # NoSlot /\ op[t] = "rename" /\ Held(t) = 0
      /\ dirent[to[t]] = 0 \/ kind[dirent[to[t]]] = "none"
  BY <1>1, SlotFacts DEF RenameStage, Held, Work
<1>3. PICK i \in Inos : i = ino[t] /\ i # 0
  BY <1>1 DEF Work, TypeInv, Inos
<1>4. NamesApart(t) /\ dirent'[to[t]] = i /\ dirent'[at[t]] = 0
  BY <1>1, <1>2, <1>3 DEF NamesApart, TypeInv
<1>5. /\ due \in [Slots -> 0 .. MaxIno] /\ due' \in [Slots -> 0 .. MaxIno]
      /\ due[at[t]] = i /\ (due[to[t]] = 0 \/ kind[due[to[t]]] = "none")
      /\ \A s \in Slots : s # at[t] /\ s # to[t] => due'[s] = due[s]
  BY <1>1, <1>2, <1>3, <1>4, CarriesDue DEF AtDue, ToDue
<1>6. KindStep(t) /\ ~NewAt(t)
  BY <1>2 DEF KindStep, NewAt
<1>7. ~NewDir(at[t]) /\ ~NewDir(to[t])
  <2>1. \A u \in Threads : u # t => at[u] # to[t]
    BY <1>2, EntriesApart
  <2>2. QED
    BY <1>2, <1>6, <2>1, NewDirs DEF NewDir
<1>8. ASSUME ~NewAt(t)' PROVE \A r \in Slots : NewDir(r)' <=> NewDir(r)
  <2>1. ASSUME NEW r \in Slots, r = at[t] PROVE ~NewDir(r)' /\ ~NewDir(r)
    BY <1>1, <1>7, <1>8, <2>1, NewDirsNext
  <2>2. QED
    BY <1>1, <2>1, CarriesFacts
<1>9. CASE IsDir(ino[t]) /\ at[t][1] # to[t][1]
  <2>1. /\ pc'[t] = "parents" /\ op'[t] = op[t] /\ at'[t] = at[t] /\ to'[t] = to[t]
        /\ ino'[t] = ino[t]
    BY <1>1, <1>9, CarriesFacts
  <2>2. ~Fresh(t)' /\ ~Removing(t)' /\ ~Replacing(t)' /\ ~NewAt(t)' /\ Held(t)' = 0
    BY <2>1 DEF Fresh, Removing, Replacing, NewAt, Held
  <2>3. Work(t)'
    BY <1>1, <1>2, <1>3, <1>9, <2>1, <2>2, SameFlags DEF Work, IsDir
  <2>4. due'[at[t]] = i /\ due'[to[t]] = 0
    BY <1>1, <1>2, <1>3, <1>4, <2>1, CarriesDue DEF AtDue, ToDue
  <2>5. due' = [due EXCEPT ![to[t]] = 0]
    BY <1>2, <1>5, <2>4
  <2>6. Clears(to[t])
    BY <1>1, <1>2, <1>5, <1>8, <2>2, <2>5, CarriesFacts DEF Clears
  <2>7. Links'
    BY <1>2, <1>5, <2>6, ClearsLinks DEF LinkInv
  <2>8. \A s \in Slots : due'[s] \in {due[s], 0}
    BY <1>5, <2>5
  <2>9. QED
    BY <1>1, <1>4, <1>6, <2>2, <2>3, <2>7, <2>8, CarriesLinks
<1>10. CASE ~(IsDir(ino[t]) /\ at[t][1] # to[t][1])
  <2>1. pc'[t] = "idle" /\ at'[t] # at[t] /\ to'[t] # to[t] /\ Work(t)' /\ Held(t)' = 0
    BY <1>1, <1>2, <1>10, CarriesFacts
  <2>2. ~Fresh(t)' /\ ~Removing(t)' /\ ~Replacing(t)' /\ ~NewAt(t)'
    BY <2>1 DEF Fresh, Removing, Replacing, NewAt
  <2>3. due'[at[t]] = 0 /\ due'[to[t]] = i
    BY <1>1, <1>2, <1>3, <1>4, <2>1, CarriesDue
  <2>4. due' = [due EXCEPT ![at[t]] = 0, ![to[t]] = i]
    BY <1>2, <1>5, <2>3
  <2>5. IsDir(at[t][1]) /\ IsDir(to[t][1])
    BY <1>2 DEF ParentInv, WorkInv
  <2>6. Moves(at[t], to[t], i)
    BY <1>1, <1>2, <1>3, <1>5, <1>7, <1>8, <1>10, <2>1, <2>2, <2>4, <2>5, CarriesFacts DEF Moves
  <2>7. Links'
    BY <1>2, <1>5, <2>6, MovesLinks DEF LinkInv
  <2>8. \A s \in Slots : due'[s] \in {due[s], 0} \/ (Moving(t) /\ due'[s] = ino[t])
    BY <1>1, <1>3, <1>5, <2>4
  <2>9. QED
    BY <1>1, <1>4, <1>6, <2>1, <2>2, <2>7, <2>8, CarriesLinks
<1>11. QED
  BY <1>9, <1>10

LEMMA ParentsLinks ==
  ASSUME NEW t, Before(t), pc[t] = "parents", Reply(t),
         nlink' = [nlink EXCEPT ![at[t][1]] = Less(@), ![to[t][1]] = @ + 1],
         UNCHANGED <<kind, dirent, nextIno>>
  PROVE  LinkInv'
<1> USE DEF Before
<1>1. RenameStage(t) /\ Work(t) /\ Carries(t) /\ TypeInv /\ Moving(t) /\ NamesApart(t)
  BY AtPlace DEF LinkInv, WorksInv, Carries, IndInv, Moving, NamesApart
<1>2. /\ at[t] \in Slots /\ to[t] \in Slots /\ at[t] # to[t] /\ dirent[at[t]] = 0
      /\ at[t] # NoSlot /\ to[t] # NoSlot /\ op[t] = "rename" /\ Held(t) = 0
      /\ dirent[to[t]] = ino[t] /\ at[t][1] # to[t][1] /\ kind[ino[t]] = "dir"
  BY <1>1, SlotFacts DEF RenameStage, Held, Work
<1>3. PICK i \in Inos : i = ino[t] /\ i # 0
  BY <1>1 DEF Work, TypeInv, Inos
<1>4. /\ due \in [Slots -> 0 .. MaxIno] /\ due' \in [Slots -> 0 .. MaxIno]
      /\ due[at[t]] = i /\ due[to[t]] = 0
      /\ \A s \in Slots : s # at[t] /\ s # to[t] => due'[s] = due[s]
  BY <1>1, <1>2, <1>3, CarriesDue DEF AtDue, ToDue
<1>5. KindStep(t) /\ ~NewAt(t)
  BY <1>2 DEF KindStep, NewAt
<1>6. pc'[t] = "idle" /\ at'[t] # at[t] /\ to'[t] # to[t] /\ Work(t)' /\ Held(t)' = 0
  BY <1>1, <1>2, CarriesFacts
<1>7. ~Fresh(t)' /\ ~Removing(t)' /\ ~Replacing(t)' /\ ~NewAt(t)'
  BY <1>6 DEF Fresh, Removing, Replacing, NewAt
<1>8. ~NewDir(at[t]) /\ ~NewDir(to[t])
  <2>1. \A u \in Threads : u # t => at[u] # to[t]
    BY <1>2, EntriesApart
  <2>2. QED
    BY <1>2, <1>5, <2>1, NewDirs DEF NewDir
<1>9. \A r \in Slots : NewDir(r)' <=> NewDir(r)
  <2>1. ASSUME NEW r \in Slots, r = at[t] PROVE ~NewDir(r)' /\ ~NewDir(r)
    BY <1>1, <1>7, <1>8, <2>1, NewDirsNext
  <2>2. QED
    BY <1>1, <2>1, CarriesFacts
<1>10. due'[at[t]] = 0 /\ due'[to[t]] = i
  BY <1>1, <1>2, <1>3, <1>6, CarriesDue
<1>11. due' = [due EXCEPT ![at[t]] = 0, ![to[t]] = i]
  BY <1>2, <1>4, <1>10
<1>12. IsDir(at[t][1]) /\ IsDir(to[t][1]) /\ IsDir(i)
  BY <1>2, <1>3 DEF ParentInv, WorkInv, IsDir
<1>13. Moves(at[t], to[t], i)
  BY <1>1, <1>2, <1>3, <1>4, <1>6, <1>8, <1>9, <1>11, <1>12, CarriesFacts DEF Moves
<1>14. Links'
  BY <1>2, <1>4, <1>13, MovesLinks DEF LinkInv
<1>15. \A s \in Slots : due'[s] \in {due[s], 0} \/ (Moving(t) /\ due'[s] = ino[t])
  BY <1>1, <1>3, <1>4, <1>11
<1>16. QED
  BY <1>1, <1>5, <1>6, <1>7, <1>14, <1>15, CarriesLinks

LEMMA MkdirParentLinks ==
  ASSUME NEW t, Before(t), pc[t] = "parent", Reply(t),
         nlink' = [nlink EXCEPT ![at[t][1]] = @ + 1], UNCHANGED <<kind, dirent, nextIno>>
  PROVE  LinkInv'
<1> USE DEF Before
<1>1. MakeStage(t) /\ Work(t) /\ Carries(t) /\ NamesApart(t)
  BY AtPlace DEF LinkInv, WorksInv, Carries, NamesApart
<1>2. /\ at[t] \in Slots /\ to[t] \notin Slots /\ at[t] # NoSlot /\ dirent[at[t]] = ino[t]
      /\ Held(t) = 0 /\ op[t] = "mkdir" /\ ino[t] # 0 /\ kind[ino[t]] = "dir"
  BY <1>1, SlotFacts DEF MakeStage, Held, Work, SavedKind
<1>3. pc'[t] = "idle" /\ at'[t] # at[t] /\ Work(t)' /\ Held(t)' = 0
  BY <1>1, <1>2, CarriesFacts
<1>4. due[at[t]] = ino[t] /\ due'[at[t]] = ino[t]
  BY <1>1, <1>2, <1>3, CarriesDue DEF AtDue
<1>5. due' = due
  BY <1>1, <1>2, <1>4, CarriesDue
<1>6. ~Fresh(t)' /\ ~Removing(t)' /\ ~Replacing(t)' /\ NewAt(t) /\ KindStep(t)
  BY <1>2, <1>3 DEF Fresh, Removing, Replacing, NewAt, KindStep
<1>7. NewDir(at[t]) /\ \A r \in Slots : NewDir(r)' <=> NewDir(r) /\ r # at[t]
  <2>1. ASSUME NEW r \in Slots, r = at[t] PROVE ~NewDir(r)' /\ NewDir(r)
    BY <1>1, <1>2, <1>3, <1>6, <2>1, NewDirs, NewDirsNext
  <2>2. QED
    BY <1>1, <1>2, <2>1, CarriesFacts
<1>8. IsDir(at[t][1]) /\ IsDir(due[at[t]])
  BY <1>2, <1>4 DEF ParentInv, WorkInv, IsDir
<1>9. Enters(at[t])
  BY <1>1, <1>2, <1>3, <1>4, <1>5, <1>7, <1>8, CarriesFacts DEF Enters
<1>10. Links'
  BY <1>2, <1>9, EntersLinks DEF LinkInv
<1>11. \A s \in Slots : due'[s] \in {due[s], 0}
  BY <1>5
<1>12. QED
  BY <1>1, <1>3, <1>6, <1>10, <1>11, CarriesLinks

LEMMA UndoneLinks ==
  ASSUME NEW t, Before(t), Fresh(t), UndoInode(t), Reply(t), Faults,
         UNCHANGED <<dirent, nlink, nextIno>>
  PROVE  LinkInv'
<1> USE DEF Before
<1>1. MakeStage(t) /\ Work(t) /\ Carries(t) /\ NamesApart(t) /\ KindType
  BY AtPlace DEF LinkInv, WorksInv, Carries, NamesApart, Fresh, ParentInv
<1>2. /\ at[t] \in Slots /\ to[t] \notin Slots /\ at[t] # NoSlot /\ dirent[at[t]] = 0
      /\ Held(t) = 0
  BY <1>1, SlotFacts DEF MakeStage, Held, Work, Fresh
<1>3. PICK i \in Inos : i = ino[t]
  BY DEF ParentInv, FreshInv
<1>4. pc'[t] = "idle" /\ at'[t] # at[t] /\ Work(t)' /\ Held(t)' = 0
  BY <1>1, <1>2, CarriesFacts
<1>5. due[at[t]] = i /\ due'[at[t]] = 0
  BY <1>1, <1>2, <1>3, <1>4, CarriesDue DEF AtDue, Fresh
<1>6. due' = [due EXCEPT ![at[t]] = 0]
  BY <1>1, <1>2, <1>5, CarriesDue
<1>7. Undoes(at[t], i)
  BY <1>1, <1>2, <1>3, <1>4, <1>5, <1>6, CarriesFacts DEF Undoes, UndoInode, LinkInv, AloneInv
<1>8. Links'
  BY <1>1, <1>2, <1>7, CarriesDue, UndoesLinks DEF LinkInv, KindType
<1>9. KindStep(t)
  BY <1>1, <1>3, FreshAlone DEF KindStep, UndoInode, KindType
<1>10. ~Fresh(t)' /\ ~Removing(t)' /\ ~Replacing(t)' /\ \A s \in Slots : due'[s] \in {due[s], 0}
  BY <1>1, <1>4, <1>6, CarriesDue DEF Fresh, Removing, Replacing
<1>11. QED
  BY <1>1, <1>4, <1>8, <1>9, <1>10, CarriesLinks

LEMMA MadeLinks ==
  ASSUME NEW t, Before(t), pc[t] = "make", nextIno \in Inos, nextIno' = nextIno + 1,
         kind' = [kind EXCEPT ![nextIno] = SavedKind(op[t])],
         nlink' = [nlink EXCEPT ![nextIno] = IF op[t] = "mkdir" THEN 2 ELSE 1],
         ino' = [ino EXCEPT ![t] = nextIno],
         Goto(t, IF op[t] = "symlink" THEN "target" ELSE "name"),
         UNCHANGED <<dirent, op, at, to, dst, locks>>
  PROVE  LinkInv'
<1> USE DEF Before
<1>1. MakeStage(t) /\ Work(t) /\ NamesApart(t) /\ KindType /\ TypeInv
  BY AtPlace DEF LinkInv, WorksInv, NamesApart, ParentInv, IndInv
<1>2. /\ at[t] \in Slots /\ to[t] \notin Slots /\ dirent[at[t]] = 0
      /\ op[t] \in {"mkdir", "create", "symlink"}
  BY <1>1, SlotFacts DEF MakeStage, Work
<1>3. /\ OthersKept(t) /\ \A u \in Threads : u # t => dst'[u] = dst[u] /\ Held(u)' = Held(u)
      /\ ino'[t] = nextIno
      /\ pc'[t] = IF op[t] = "symlink" THEN "target" ELSE "name"
  BY <1>1 DEF OthersKept, TypeInv, Goto, Held
<1>4. /\ Fresh(t)' /\ ~Removing(t)' /\ ~Replacing(t)' /\ Held(t) = 0 /\ Held(t)' = 0
  BY <1>3 DEF Fresh, Removing, Replacing, Held
<1>5. nextIno # 0 /\ nextIno \in Nat /\ nextIno # RootIno
  BY <1>1 DEF Inos, RootIno, TypeInv
<1>6. /\ due \in [Slots -> 0 .. MaxIno] /\ due[at[t]] = 0
      /\ due' = [due EXCEPT ![at[t]] = nextIno]
  <2>1. DueFacts /\ DueFacts'
    BY DueIs, DueIsNext
  <2>2. due[at[t]] = 0
    BY <1>2, <2>1 DEF DueFacts, AtDue
  <2>3. due'[at[t]] = nextIno
    BY <1>2, <1>3, <1>4, <2>1 DEF DueFacts, AtDue, Fresh
  <2>4. \A s \in Slots : s # at[t] => due'[s] = due[s]
    BY <1>1, <1>2, <1>3, DueStep
  <2>5. QED
    BY <2>1, <2>2, <2>3, <2>4 DEF DueFacts
<1>7. kind[nextIno] = "none" /\ kind'[nextIno] = SavedKind(op[t])
      /\ SavedKind(op[t]) \in {"dir", "file"}
  BY <1>1, <1>5 DEF ParentInv, NumberInv, KindType, SavedKind
<1>8. KindStep(t)
  BY <1>1 DEF KindStep, KindType
<1>9. IsDir(at[t][1])
  BY <1>2 DEF ParentInv, WorkInv
<1>10. \A r \in Slots : due[r] # nextIno /\ (r[1] = nextIno => due[r] = 0)
  <2>1. ASSUME NEW r \in Slots PROVE due[r] # nextIno /\ (r[1] = nextIno => due[r] = 0)
    <3>1. due[r] \in 0 .. MaxIno /\ due[r] < nextIno /\ (due[r] # 0 => IsDir(r[1]))
      BY DueRange DEF LinkInv
    <3>2. QED
      BY <1>5, <1>7, <3>1 DEF IsDir
  <2>2. QED
    BY <2>1
<1>11. \A u \in Threads : Held(u)' = Held(u) /\ Held(u) # nextIno
  <2>1. ASSUME NEW u \in Threads, Held(u) # 0 PROVE Held(u) # nextIno
    <3>1. Held(u) \in Inos /\ Held(u) < nextIno
      BY <2>1, HeldLocked
    <3>2. QED
      BY <1>5, <3>1 DEF Inos
  <2>2. QED
    BY <1>3, <1>4, <1>5, <2>1
<1>12. \A r \in Slots : NewDir(r)' <=> NewDir(r) \/ (r = at[t] /\ SavedKind(op[t]) = "dir")
  <2>1. ASSUME NEW r \in Slots, r # at[t] PROVE NewDir(r)' <=> NewDir(r)
    BY <1>3, <2>1 DEF NewDir, OthersKept
  <2>2. ASSUME NEW r \in Slots, r = at[t] PROVE ~NewDir(r) /\ (NewDir(r)' <=> op[t] = "mkdir")
    <3>1. \A u \in Threads : u # t => at[u] # r /\ at'[u] # r
      BY <1>2, <2>2, EntriesApart
    <3>2. QED
      BY <1>2, <1>3, <2>2, <3>1 DEF NewDir
  <2>3. QED
    BY <1>2, <2>1, <2>2 DEF SavedKind
<1>13. at[t][1] # nextIno
  BY <1>7, <1>9 DEF IsDir
<1>14. Makes(at[t], nextIno, SavedKind(op[t]))
  <2>1. SavedKind(op[t]) = "dir" <=> op[t] = "mkdir"
    BY <1>2 DEF SavedKind
  <2>2. QED
    BY <1>5, <1>6, <1>7, <1>10, <1>11, <1>12, <1>13, <2>1 DEF Makes
<1>15. Links'
  BY <1>1, <1>2, <1>6, <1>14, MakesLinks DEF LinkInv, KindType
<1>16. AloneInv'
  BY <1>3, <1>6, AloneMade DEF LinkInv
<1>17. Work(t)'
  BY <1>2, <1>3, <1>4, <1>7 DEF Work, Removing, Replacing
<1>18. \A u \in Threads : u # t => Work(u)'
  BY <1>1, <1>3, <1>8, OtherWork DEF LinkInv, SameUse
<1>19. WorksInv' /\ RemountInv'
  BY <1>17, <1>18 DEF WorksInv, SameUse, LinkInv, RemountInv, MaxRemounts
<1>20. QED
  BY <1>15, <1>16, <1>19 DEF LinkInv

\* A request that begins finds what it is about, and changes no count.
LEMMA BegunLinks ==
  ASSUME NEW t, Before(t), OthersKept(t), \A u \in Threads : u # t => dst'[u] = dst[u],
         UNCHANGED <<dirent, kind, nlink, nextIno>>,
         pc[t] = "idle", at[t] = NoSlot, to[t] = NoSlot,
         pc'[t] \in {"make", "unname", "linkname", "oldname", "replace"}, Work(t)',
         Removing(t)' => \E s \in Slots : dirent[s] = ino'[t],
         Replacing(t)' => \E s \in Slots : dirent[s] = dst'[t]
  PROVE  LinkInv'
<1> USE DEF Before
<1>1. due' = due
  BY DueBegin
<1>2. Held(t) = 0 /\ Held(t)' = 0 /\ ~Fresh(t)'
  BY DEF Held, Fresh
<1>3. \A u \in Threads : Held(u)' = Held(u)
  <2>1. \A u \in Threads : u # t => Held(u)' = Held(u)
    BY DEF OthersKept, Held
  <2>2. QED
    BY <1>2, <2>1
<1>4. \A s \in Slots : NewDir(s)' <=> NewDir(s)
  <2>1. ASSUME NEW u \in Threads, NEW s \in Slots
        PROVE  (at[u] = s /\ op[u] = "mkdir" /\ pc[u] \in {"name", "parent"})
               <=> (at'[u] = s /\ op'[u] = "mkdir" /\ pc'[u] \in {"name", "parent"})
    BY SlotFacts DEF OthersKept
  <2>2. QED
    BY <2>1 DEF NewDir
<1>5. Links'
  BY <1>1, <1>3, <1>4, QuietLinks DEF Quiet, LinkInv
<1>6. AloneInv'
  BY <1>1, <1>2, AloneKept DEF LinkInv
<1>7. KindStep(t) /\ NamesApart(t)
  BY DEF KindStep, NamesApart
<1>8. \A u \in Threads : u # t => Work(u)'
  BY <1>7, OtherWork DEF LinkInv, SameUse
<1>9. WorksInv' /\ RemountInv'
  BY <1>8 DEF WorksInv, SameUse, LinkInv, RemountInv, MaxRemounts
<1>10. QED
  BY <1>5, <1>6, <1>9 DEF LinkInv

LEMMA BeginLinks ==
  ASSUME NEW t, Before(t), Begin(t)
  PROVE  LinkInv'
<1> USE DEF Before, store, history
<1>0. /\ TypeInv /\ KindType /\ 0 \in 0 .. MaxIno /\ NumberInv /\ Ops' = Ops
      /\ \A s \in Slots : dirent[s] # 0 => dirent[s] \in Inos
      /\ \A i \in Inos : i \in Nat
  BY ConstantsAssumption, SameFlags DEF IndInv, TypeInv, Inos, ParentInv
<1>1. pc[t] = "idle" /\ at[t] = NoSlot /\ to[t] = NoSlot
  BY <1>0 DEF Begin, MakeStart, UnlinkStart, RmdirStart, LinkStart, RenameStart, CanSend,
              IndInv, Stage, IdleStage, MakeStage, UnlinkStage, LinkStage, RenameStage
<1>2. ASSUME NEW name \in Ops, NEW s \in Slots, MakeStart(t, name, s) PROVE LinkInv'
  <2>1. /\ OthersKept(t) /\ at'[t] = s /\ pc'[t] = "make" /\ op'[t] = name
        /\ name \in {"mkdir", "create", "symlink"} /\ dirent[s] = 0
        /\ UNCHANGED <<dirent, kind, nlink, nextIno, dst>>
    BY <1>0, <1>1, <1>2 DEF MakeStart, Grant, OthersKept, TypeInv
  <2>2. ~Removing(t)' /\ ~Replacing(t)'
    BY <2>1 DEF Removing, Replacing
  <2>3. Work(t)'
    BY <2>1, <2>2 DEF Work
  <2>4. QED
    BY <1>1, <2>1, <2>2, <2>3, BegunLinks
<1>3. ASSUME NEW s \in Slots, UnlinkStart(t, s) \/ RmdirStart(t, s) PROVE LinkInv'
  <2>1. /\ OthersKept(t) /\ at'[t] = s /\ pc'[t] = "unname" /\ ino'[t] = dirent[s]
        /\ UNCHANGED <<dirent, kind, nlink, nextIno, dst>>
        /\ \/ op'[t] = "unlink" /\ kind[dirent[s]] = "file"
           \/ op'[t] = "rmdir" /\ kind[dirent[s]] = "dir"
    BY <1>0, <1>1, <1>3 DEF UnlinkStart, RmdirStart, Grant, OthersKept, TypeInv, IsDir
  <2>2. ~Replacing(t)'
    BY <2>1 DEF Replacing
  <2>3. Work(t)'
    BY <1>0, <2>1, <2>2 DEF Work, NumberInv
  <2>4. QED
    BY <1>1, <2>1, <2>2, <2>3, BegunLinks
<1>4. ASSUME NEW i \in Inos, NEW s \in Slots, LinkStart(t, i, s) PROVE LinkInv'
  <2>1. /\ OthersKept(t) /\ to'[t] = s /\ pc'[t] = "linkname" /\ op'[t] = "link"
        /\ ino'[t] = i /\ dirent[s] = 0 /\ kind[i] = "file" /\ i \in locks'[t]
        /\ UNCHANGED <<dirent, kind, nlink, nextIno, dst>>
    BY <1>0, <1>1, <1>4 DEF LinkStart, Grant, OthersKept, TypeInv
  <2>2. ~Removing(t)' /\ ~Replacing(t)'
    BY <2>1 DEF Removing, Replacing
  <2>3. Work(t)'
    BY <2>1, <2>2 DEF Work
  <2>4. QED
    BY <1>1, <2>1, <2>2, <2>3, BegunLinks
<1>5. ASSUME NEW s \in Slots, NEW d \in Slots, RenameStart(t, s, d) PROVE LinkInv'
  <2> DEFINE old == IF Resolves(d) THEN dirent[d] ELSE 0
  <2>1. /\ OthersKept(t) /\ to'[t] = d /\ op'[t] = "rename" /\ "rename" \in Ops
        /\ pc'[t] = IF old = 0 THEN "oldname" ELSE "replace"
        /\ dst' = [dst EXCEPT ![t] = old]
        /\ UNCHANGED <<dirent, kind, nlink, nextIno>>
    BY <1>0, <1>1, <1>5 DEF RenameStart, CanSend, Grant, OthersKept, TypeInv
  <2>2. /\ old # 0 => dirent[d] = old /\ kind[old] # "none"
        /\ old = 0 => dirent[d] = 0 \/ kind[dirent[d]] = "none"
    BY DEF Resolves
  <2> HIDE DEF old
  <2>3. dst'[t] = old /\ \A u \in Threads : u # t => dst'[u] = dst[u]
    BY <1>0, <2>1 DEF KindType
  <2>4. ~Removing(t)' /\ (Replacing(t)' => old # 0)
    BY <2>1 DEF Removing, Replacing
  <2>5. Work(t)'
    <3>1. CASE old = 0
      BY <1>0, <2>1, <2>2, <2>3, <2>4, <3>1 DEF Work
    <3>2. CASE old # 0
      BY <1>0, <2>1, <2>2, <2>3, <2>4, <3>2 DEF Work, NumberInv
    <3>3. QED
      BY <3>1, <3>2
  <2>6. QED
    BY <1>1, <2>1, <2>2, <2>3, <2>4, <2>5, BegunLinks
<1>6. QED
  BY <1>2, <1>3, <1>4, <1>5 DEF Begin

LEMMA SameLinks ==
  ASSUME LinkInv, SameUse, UNCHANGED <<kind, dirent, nlink, nextIno, pc, request>>
  PROVE  LinkInv'
<1> USE DEF request
<1>1. due' = due /\ \A s : NewDir(s)' = NewDir(s)
  BY DueSame
<1>2. \A u \in Threads : Held(u)' = Held(u)
  BY DEF Held
<1>3. Links'
  BY <1>1, <1>2, QuietLinks DEF Quiet, LinkInv
<1>4. WorksInv'
  BY DEF SameUse, LinkInv, WorksInv, Work, Ops, Removing, Replacing
<1>5. AloneInv'
  BY <1>1 DEF LinkInv, AloneInv, Fresh, Removing, Replacing
<1>6. RemountInv'
  BY DEF SameUse, LinkInv, RemountInv, MaxRemounts
<1>7. QED
  BY <1>3, <1>4, <1>5, <1>6 DEF LinkInv

LEMMA LinkStep ==
  ASSUME IndInv, ParentInv, LinkInv, IndInv', ParentInv', Clean, [Next]_vars
  PROVE  LinkInv'
<1> USE DEF store, history
<1>1. ASSUME NEW t \in Threads, RenameStage(t) PROVE ~Faults
  BY <1>1 DEF LinkInv, WorksInv, Work, RenameStage, Clean
<1>2. ASSUME NEW t \in Threads, NEW l \in PCs, Goto(t, l), UNCHANGED request PROVE GoesTo(t, l)
  BY <1>2 DEF GoesTo
<1>3. \A l \in {"name", "parent", "unlink", "purge", "delete", "count", "purgedst", "deletedst",
                "oldname", "newname", "parents"} : l \in PCs
  BY DEF PCs
<1>4. ASSUME NEW t \in Threads, SameUse PROVE Before(t)
  BY <1>4 DEF Before
<1>5. ASSUME NEW t \in Threads, MakeInode(t), UNCHANGED use PROVE LinkInv'
  <2>1. /\ pc[t] = "make" /\ nextIno \in Inos /\ nextIno' = nextIno + 1 /\ dirent' = dirent
        /\ Before(t)
    <3>1. nextIno \in Inos
      BY <1>5, ConstantsAssumption DEF MakeInode, IndInv, TypeInv, Inos
    <3>2. QED
      BY <1>4, <1>5, <3>1 DEF MakeInode, SameUse
  <2>2. CASE ReplyError(t) /\ UNCHANGED <<kind, nlink>>
    BY <2>1, <2>2, NotMadeLinks DEF ReplyError
  <2>3. CASE ~(ReplyError(t) /\ UNCHANGED <<kind, nlink>>)
    BY <1>5, <2>1, <2>3, MadeLinks DEF MakeInode
  <2>4. QED
    BY <2>2, <2>3
<1>6. ASSUME NEW t \in Threads, SymlinkTarget(t), UNCHANGED use PROVE LinkInv'
  <2>1. pc[t] = "target" /\ Fresh(t) /\ UNCHANGED <<dirent, nlink, nextIno>> /\ Before(t)
    BY <1>4, <1>6 DEF SymlinkTarget, Fresh, SameUse
  <2>2. CASE GoesTo(t, "name") /\ kind' = kind
    BY <2>1, <2>2, TargetLinks
  <2>3. CASE Faults /\ UndoInode(t) /\ Reply(t)
    BY <2>1, <2>3, UndoneLinks
  <2>4. QED
    BY <1>2, <1>3, <1>6, <2>2, <2>3 DEF SymlinkTarget, ReplyError
<1>7. ASSUME NEW t \in Threads, MakeName(t), UNCHANGED use PROVE LinkInv'
  <2>1. pc[t] = "name" /\ Fresh(t) /\ UNCHANGED <<nlink, nextIno>> /\ Before(t)
    BY <1>4, <1>7 DEF MakeName, Fresh, SameUse
  <2>2. CASE /\ dirent' = [dirent EXCEPT ![at[t]] = ino[t]] /\ kind' = kind
             /\ IF op[t] = "mkdir" THEN GoesTo(t, "parent") ELSE Reply(t)
    BY <2>1, <2>2, NamedLinks
  <2>3. CASE Faults /\ UndoInode(t) /\ Reply(t) /\ dirent' = dirent
    BY <2>1, <2>3, UndoneLinks
  <2>4. QED
    BY <1>2, <1>3, <1>7, <2>2, <2>3 DEF MakeName, ReplyError, ReplyOk
<1>8. ASSUME NEW t \in Threads, MkdirParent(t), UNCHANGED use PROVE LinkInv'
  <2>1. /\ pc[t] = "parent" /\ Reply(t) /\ UNCHANGED <<kind, dirent, nextIno>> /\ Before(t)
        /\ nlink' = [nlink EXCEPT ![at[t][1]] = Counted(at[t][1])]
    BY <1>4, <1>8 DEF MkdirParent, ReplyOk, SameUse
  <2>2. nlink' = [nlink EXCEPT ![at[t][1]] = @ + 1]
    BY <2>1 DEF Counted
  <2>3. QED
    BY <2>1, <2>2, MkdirParentLinks
<1>9. ASSUME NEW t \in Threads, RemoveName(t), UNCHANGED use PROVE LinkInv'
  <2>1. pc[t] = "unname" /\ UNCHANGED <<kind, nlink, nextIno>> /\ Before(t)
    BY <1>4, <1>9 DEF RemoveName, SameUse
  <2>2. \/ dirent' = [dirent EXCEPT ![at[t]] = 0] /\ GoesTo(t, "unlink")
        \/ dirent' = dirent /\ Reply(t)
    BY <1>2, <1>3, <1>9 DEF RemoveName, ReplyError
  <2>3. QED
    BY <2>1, <2>2, UnnamedLinks
<1>10. ASSUME NEW t \in Threads, DropLink(t), UNCHANGED use PROVE LinkInv'
  <2>1. pc[t] = "unlink" /\ UNCHANGED <<kind, dirent, nextIno>> /\ Before(t)
    BY <1>4, <1>10 DEF DropLink, SameUse
  <2>2. CASE /\ op[t] = "unlink" /\ nlink' = [nlink EXCEPT ![ino[t]] = Less(@)]
             /\ IF LastLink(ino[t]) THEN GoesTo(t, "purge") ELSE Reply(t)
    BY <2>1, <2>2, UnlinkedLinks
  <2>3. CASE /\ op[t] = "rmdir" /\ nlink' = [nlink EXCEPT ![at[t][1]] = Less(@)]
             /\ GoesTo(t, "purge")
    BY <2>1, <2>3, RmdirLinks
  <2>4. QED
    BY <1>2, <1>3, <1>10, <2>2, <2>3 DEF DropLink, ReplyOk
<1>11. ASSUME NEW t \in Threads, Purge(t), UNCHANGED use PROVE LinkInv'
  <2>1. /\ pc[t] = "purge" /\ UNCHANGED <<kind, dirent, nlink, nextIno>> /\ Before(t)
        /\ GoesTo(t, "delete")
    BY <1>2, <1>3, <1>4, <1>11 DEF Purge, SameUse
  <2>2. QED
    BY <2>1, PurgeLinks
<1>12. ASSUME NEW t \in Threads, DeleteInode(t), UNCHANGED use PROVE LinkInv'
  <2>1. /\ pc[t] = "delete" /\ Reply(t) /\ UNCHANGED <<dirent, nlink, nextIno>> /\ Before(t)
        /\ kind' = [kind EXCEPT ![ino[t]] = "none"] \/ (Faults /\ kind' = kind)
    BY <1>4, <1>12 DEF DeleteInode, ReplyOk, SameUse
  <2>2. QED
    BY <2>1, DeleteLinks
<1>13. ASSUME NEW t \in Threads, LinkName(t), UNCHANGED use PROVE LinkInv'
  <2>1. pc[t] = "linkname" /\ UNCHANGED <<kind, nlink, nextIno>> /\ Before(t)
    BY <1>4, <1>13 DEF LinkName, SameUse
  <2>2. \/ dirent' = [dirent EXCEPT ![to[t]] = ino[t]] /\ GoesTo(t, "count")
        \/ dirent' = dirent /\ Reply(t)
    BY <1>2, <1>3, <1>13 DEF LinkName, ReplyError
  <2>3. QED
    BY <2>1, <2>2, LinkNameLinks
<1>14. ASSUME NEW t \in Threads, LinkCount(t), UNCHANGED use PROVE LinkInv'
  <2>1. /\ pc[t] = "count" /\ Reply(t) /\ UNCHANGED <<kind, dirent, nextIno>> /\ Before(t)
        /\ nlink' = [nlink EXCEPT ![ino[t]] = Counted(ino[t])]
    BY <1>4, <1>14 DEF LinkCount, ReplyOk, SameUse
  <2>2. nlink' = [nlink EXCEPT ![ino[t]] = @ + 1]
    BY <2>1 DEF Counted
  <2>3. QED
    BY <2>1, <2>2, LinkCountLinks
<1>15. ASSUME NEW t \in Threads, RenameReplace(t), UNCHANGED use PROVE LinkInv'
  <2>1. /\ pc[t] = "replace" /\ UNCHANGED <<kind, nlink, nextIno>> /\ Before(t)
        /\ GoesTo(t, "purgedst") /\ RenameStage(t)
    BY <1>2, <1>3, <1>4, <1>15, AtPlace DEF RenameReplace, SameUse
  <2>2. dirent' = [dirent EXCEPT ![to[t]] = 0]
    BY <1>1, <1>15, <2>1 DEF RenameReplace
  <2>3. QED
    BY <2>1, <2>2, ReplaceLinks
<1>16. ASSUME NEW t \in Threads, RenamePurge(t), UNCHANGED use PROVE LinkInv'
  <2>1. /\ pc[t] = "purgedst" /\ UNCHANGED <<kind, dirent, nextIno>> /\ Before(t)
        /\ GoesTo(t, "deletedst") /\ RenameStage(t)
        /\ nlink' = IF IsDir(dst[t]) THEN [nlink EXCEPT ![to[t][1]] = Less(@)] ELSE nlink
    BY <1>2, <1>3, <1>4, <1>16, AtPlace DEF RenamePurge, SameUse
  <2>2. QED
    BY <1>1, <2>1, RenamePurgeLinks
<1>17. ASSUME NEW t \in Threads, RenameDelete(t), UNCHANGED use PROVE LinkInv'
  <2>1. /\ pc[t] = "deletedst" /\ UNCHANGED <<dirent, nlink, nextIno>> /\ Before(t)
        /\ GoesTo(t, "oldname") /\ RenameStage(t)
    BY <1>2, <1>3, <1>4, <1>17, AtPlace DEF RenameDelete, SameUse
  <2>2. kind' = [kind EXCEPT ![dst[t]] = "none"]
    BY <1>1, <1>17, <2>1 DEF RenameDelete
  <2>3. QED
    BY <2>1, <2>2, RenameDeleteLinks
<1>18. ASSUME NEW t \in Threads, RenameOldName(t), UNCHANGED use PROVE LinkInv'
  <2>1. /\ pc[t] = "oldname" /\ UNCHANGED <<kind, nlink, nextIno>> /\ Before(t) /\ RenameStage(t)
    BY <1>4, <1>18, AtPlace DEF RenameOldName, SameUse
  <2>2. dirent' = [dirent EXCEPT ![at[t]] = 0] /\ GoesTo(t, "newname")
    BY <1>1, <1>2, <1>3, <1>18, <2>1 DEF RenameOldName, OldName
  <2>3. QED
    BY <2>1, <2>2, OldNameLinks
<1>19. ASSUME NEW t \in Threads, RenameNewName(t), UNCHANGED use PROVE LinkInv'
  <2>1. /\ pc[t] = "newname" /\ UNCHANGED <<kind, nlink, nextIno>> /\ Before(t) /\ RenameStage(t)
    BY <1>4, <1>19, AtPlace DEF RenameNewName, SameUse
  <2>2. /\ dirent' = [dirent EXCEPT ![to[t]] = ino[t]]
        /\ IF IsDir(ino[t]) /\ at[t][1] # to[t][1] THEN GoesTo(t, "parents") ELSE Reply(t)
    BY <1>1, <1>2, <1>3, <1>19, <2>1 DEF RenameNewName, ReplyOk
  <2>3. QED
    BY <2>1, <2>2, NewNameLinks
<1>20. ASSUME NEW t \in Threads, RenameRestore(t) PROVE LinkInv'
  BY <1>20 DEF RenameRestore, LinkInv, WorksInv, Work
<1>21. ASSUME NEW t \in Threads, RenameParents(t), UNCHANGED use PROVE LinkInv'
  <2>1. /\ pc[t] = "parents" /\ Reply(t) /\ UNCHANGED <<kind, dirent, nextIno>> /\ Before(t)
        /\ nlink' = [nlink EXCEPT ![at[t][1]] = Less(@), ![to[t][1]] = @ + 1]
    BY <1>4, <1>21 DEF RenameParents, ReplyOk, SameUse
  <2>2. QED
    BY <2>1, ParentsLinks
<1>22. ASSUME NEW t \in Threads, Begin(t), UNCHANGED use PROVE LinkInv'
  <2>1. SameUse
    BY <1>22 DEF Begin, MakeStart, UnlinkStart, RmdirStart, LinkStart, RenameStart, SameUse
  <2>2. QED
    BY <1>4, <1>22, <2>1, BeginLinks
<1>23. ASSUME NEW i \in Inos, WriteData(i) \/ SetXattr(i) \/ RemoveXattr(i), UNCHANGED use
       PROVE  LinkInv'
  BY <1>23, SameLinks DEF WriteData, SetXattr, RemoveXattr, SameUse
<1>24. CASE Restart /\ UNCHANGED use
  BY <1>24, RestartLinks
<1>25. CASE Crash /\ UNCHANGED use
  BY <1>25, CrashLinks
<1>26. CASE UNCHANGED vars
  BY <1>26, SameLinks DEF vars, SameUse, request
<1>27. QED
  BY <1>5, <1>6, <1>7, <1>8, <1>9, <1>10, <1>11, <1>12, <1>13, <1>14, <1>15, <1>16, <1>17, <1>18,
     <1>19, <1>20, <1>21, <1>22, <1>23, <1>24, <1>25, <1>26
     DEF Next, Continue

LEMMA InitLinks ==
  ASSUME Init, IndInv, ParentInv
  PROVE  LinkInv
<1>1. \A t \in Threads : /\ pc[t] = "idle" /\ op[t] = "none" /\ at[t] = NoSlot /\ to[t] = NoSlot
  BY DEF Init
<1>2. \A s \in Slots : due[s] = 0
  <2>1. \A s \in Slots : s \notin InFlight /\ dirent[s] = 0
    BY <1>1, SlotFacts DEF InFlight, Init
  <2>2. QED
    BY <2>1, DueIs DEF DueFacts
<1>3. \A t \in Threads : Held(t) = 0 /\ ~Fresh(t) /\ ~Removing(t) /\ ~Replacing(t)
  BY <1>1 DEF Held, Fresh, Removing, Replacing
<1>4. /\ \A i \in Inos : kind[i] = IF i = RootIno THEN "dir" ELSE "none"
      /\ \A i \in Inos : nlink[i] = IF i = RootIno THEN 2 ELSE 1
      /\ nlink \in [Inos -> Nat] /\ RootIno \in Inos
      /\ restarts = 0 /\ crashes = 0 /\ use.remounts \in Nat
  BY ConstantsAssumption DEF Init, StoredNlink, RootIno, Inos
<1>5. RemountInv
  BY <1>4 DEF RemountInv, MaxRemounts
<1>6. WorksInv /\ AloneInv
  BY <1>1, <1>3 DEF WorksInv, AloneInv, Work
<1>7. UniqueInv /\ GoneInv /\ AliveInv
  BY <1>2, <1>3 DEF UniqueInv, GoneInv, AliveInv
<1>8. OrphanInv /\ UpperInv /\ LowerInv
  BY <1>4 DEF OrphanInv, UpperInv, LowerInv
<1>9. SubsInv
  <2>1. \A d : Subs(d) = {}
    BY <1>2 DEF Subs
  <2>2. QED
    BY <1>4, <2>1, FS_EmptySet DEF SubsInv
<1>10. QED
  BY <1>4, <1>5, <1>6, <1>7, <1>8, <1>9 DEF LinkInv, Links

-----------------------------------------------------------------------------
(* Blocks and attributes                                                   *)

LEMMA SameRecords ==
  ASSUME Records, UNCHANGED <<kind, data, xattr, sized>>, NEW t \in Threads,
         \A u \in Threads : u # t => pc'[u] = pc[u] /\ Held(u)' = Held(u),
         pc'[t] \notin {"delete", "deletedst"}
  PROVE  Records'
BY DEF Records

\* An inode loses its blocks and attributes before its record.
LEMMA PurgedRecords ==
  ASSUME Records, UNCHANGED kind, NEW t \in Threads, NEW i, Held(t)' = i,
         \A u \in Threads : u # t => pc'[u] = pc[u] /\ Held(u)' = Held(u),
         data' = BlocksLeft(i) \/ (kind[i] = "dir" /\ data' = data),
         sized' = sized \ {i}, xattr' = xattr \ {i}
  PROVE  Records'
<1>1. data' = data \ {i}
  BY DEF Records, BlocksLeft
<1>2. QED
  BY <1>1 DEF Records

LEMMA DeletedRecords ==
  ASSUME Records, UNCHANGED <<data, xattr, sized>>, NEW t \in Threads, NEW i, Held(t) = i,
         kind \in [Inos -> {"none", "dir", "file"}], kind' = [kind EXCEPT ![i] = "none"],
         \A j \in data \cup xattr : j \in Inos,
         pc[t] \in {"delete", "deletedst"}, pc'[t] \notin {"delete", "deletedst"},
         \A u \in Threads : u # t => pc'[u] = pc[u] /\ Held(u)' = Held(u)
  PROVE  Records'
<1>1. i \notin data \cup xattr
  BY DEF Records
<1>2. \A j \in data \cup xattr : kind'[j] = kind[j]
  BY <1>1
<1>3. QED
  BY <1>2 DEF Records

-----------------------------------------------------------------------------
(* Types                                                                   *)

RecordTypes ==
  /\ data \subseteq Inos /\ xattr \subseteq Inos /\ sized \subseteq Inos
  /\ nlink \in [Inos -> Nat] /\ op \in [Threads -> Ops \cup {"none"}]
  /\ RemountInv

LEMMA RecordTypesStep ==
  ASSUME IndInv, ParentInv, RecordTypes, [Next]_vars
  PROVE  RecordTypes'
<1> USE DEF RecordTypes, store, history, request, RemountInv
<1>0. /\ TypeInv /\ \A n \in Nat : Less(n) \in Nat /\ n + 1 \in Nat
      /\ use.remounts \in Nat
  BY ConstantsAssumption DEF IndInv, Less, TypeInv
<1>1. ASSUME UNCHANGED <<data, xattr, sized, nlink, op, restarts, crashes, use>>
      PROVE  RecordTypes'
  BY <1>1 DEF Ops, MaxRemounts
\* The parts that a step of a request changes.
<1>2. ASSUME data' \subseteq Inos, xattr' \subseteq Inos, sized' \subseteq Inos,
             nlink' \in [Inos -> Nat], op' \in [Threads -> Ops \cup {"none"}], SameUse
      PROVE  RecordTypes'
  BY <1>2 DEF SameUse, Ops, MaxRemounts
<1>3. ASSUME NEW t \in Threads, Reply(t) PROVE op' \in [Threads -> Ops \cup {"none"}]
  BY <1>3 DEF Reply
<1>4. ASSUME NEW t \in Threads, Begin(t), UNCHANGED use PROVE RecordTypes'
  <2>1. /\ UNCHANGED <<data, xattr, sized, nlink>> /\ SameUse
    BY <1>4 DEF Begin, MakeStart, UnlinkStart, RmdirStart, LinkStart, RenameStart, SameUse
  <2>2. op' \in [Threads -> Ops \cup {"none"}]
    BY <1>4 DEF Begin, MakeStart, UnlinkStart, RmdirStart, LinkStart, RenameStart, CanSend, Grant
  <2>3. QED
    BY <1>2, <2>1, <2>2
<1>5. ASSUME NEW t \in Threads, MakeInode(t), UNCHANGED use PROVE RecordTypes'
  <2>1. op' \in [Threads -> Ops \cup {"none"}] /\ nlink' \in [Inos -> Nat]
    BY <1>3, <1>5 DEF MakeInode, ReplyError
  <2>2. QED
    BY <1>2, <1>5, <2>1 DEF MakeInode, SameUse
<1>6. ASSUME NEW t \in Threads, SymlinkTarget(t), UNCHANGED use PROVE RecordTypes'
  <2>1. ino[t] \in Inos
    BY <1>6 DEF SymlinkTarget, Fresh, ParentInv, FreshInv
  <2>2. op' \in [Threads -> Ops \cup {"none"}]
    BY <1>3, <1>6 DEF SymlinkTarget, ReplyError
  <2>3. QED
    BY <1>2, <1>6, <2>1, <2>2 DEF SymlinkTarget, SameUse
<1>7. ASSUME NEW t \in Threads, MakeName(t), UNCHANGED use PROVE RecordTypes'
  <2>1. op' \in [Threads -> Ops \cup {"none"}] /\ data' \subseteq Inos
    BY <1>3, <1>7 DEF MakeName, ReplyError, ReplyOk
  <2>2. QED
    BY <1>2, <1>7, <2>1 DEF MakeName, SameUse
<1>8. ASSUME NEW t \in Threads, UNCHANGED use,
             \/ MkdirParent(t) \/ DropLink(t) \/ LinkCount(t) \/ RenameParents(t)
      PROVE  RecordTypes'
  <2>1. op' \in [Threads -> Ops \cup {"none"}]
    BY <1>3, <1>8 DEF MkdirParent, DropLink, LinkCount, RenameParents, ReplyOk
  <2>2. nlink' \in [Inos -> Nat]
    BY <1>0, <1>8 DEF MkdirParent, DropLink, LinkCount, RenameParents, Counted
  <2>3. QED
    BY <1>2, <1>8, <2>1, <2>2 DEF MkdirParent, DropLink, LinkCount, RenameParents, SameUse
<1>9. ASSUME NEW t \in Threads, Purge(t) \/ RenamePurge(t), UNCHANGED use PROVE RecordTypes'
  <2>1. data' \subseteq Inos /\ xattr' \subseteq Inos /\ sized' \subseteq Inos
    BY <1>9 DEF Purge, RenamePurge, BlocksLeft, XattrsLeft
  <2>2. nlink' \in [Inos -> Nat]
    BY <1>0, <1>9 DEF Purge, RenamePurge
  <2>3. QED
    BY <1>2, <1>9, <2>1, <2>2 DEF Purge, RenamePurge, SameUse
<1>10. ASSUME NEW t \in Threads, UNCHANGED use,
              \/ RemoveName(t) \/ DeleteInode(t) \/ LinkName(t) \/ RenameReplace(t)
              \/ RenameDelete(t) \/ RenameOldName(t) \/ RenameNewName(t) \/ RenameRestore(t)
       PROVE  RecordTypes'
  <2>1. op' \in [Threads -> Ops \cup {"none"}]
    BY <1>3, <1>10 DEF RemoveName, DeleteInode, LinkName, RenameReplace, RenameDelete,
                       RenameOldName, RenameNewName, RenameRestore, ReplyOk, ReplyError, RenameError
  <2>2. UNCHANGED <<data, xattr, sized, nlink>> /\ SameUse
    BY <1>10 DEF RemoveName, DeleteInode, LinkName, RenameReplace, RenameDelete,
                 RenameOldName, RenameNewName, RenameRestore, SameUse
  <2>3. QED
    BY <1>2, <2>1, <2>2
<1>11. ASSUME NEW i \in Inos, WriteData(i) \/ SetXattr(i) \/ RemoveXattr(i), UNCHANGED use
       PROVE  RecordTypes'
  BY <1>2, <1>11 DEF WriteData, SetXattr, RemoveXattr, SameUse
<1>12. CASE (Restart \/ Crash) /\ UNCHANGED use
  <2>1. /\ nlink' = [i \in Inos |-> StoredNlink(i)] /\ UNCHANGED <<data, xattr>> /\ sized' = {}
        /\ op' \in [Threads -> Ops \cup {"none"}] /\ restarts + crashes < MaxRemounts
        /\ \/ restarts' = restarts + 1 /\ crashes' = crashes
           \/ crashes' = crashes + 1 /\ restarts' = restarts
    BY <1>12 DEF Restart, Crash, Remount, ClearRequests
  <2>2. nlink' \in [Inos -> Nat]
    BY <2>1 DEF StoredNlink
  <2>3. QED
    BY <1>0, <1>12, <2>1, <2>2 DEF Ops, MaxRemounts
<1>13. CASE UNCHANGED vars
  BY <1>1, <1>13 DEF vars
<1>14. QED
  BY <1>4, <1>5, <1>6, <1>7, <1>8, <1>9, <1>10, <1>11, <1>12, <1>13 DEF Next, Continue

LEMMA RecordStep ==
  ASSUME IndInv, ParentInv, RecordTypes, LinkInv, RecordInv, [Next]_vars
  PROVE  RecordInv'
<1> USE DEF store, history
<1>0. KindType /\ TypeInv
  BY DEF ParentInv, IndInv
<1>1. CASE (Restart \/ Crash) /\ UNCHANGED use
  <2>1. restarts \in Nat /\ crashes \in Nat
    BY DEF RecordTypes, RemountInv
  <2>2. ~Undisturbed'
    BY <1>1, <2>1 DEF Restart, Crash, Undisturbed
  <2>3. QED
    BY <2>2 DEF RecordInv
<1>2. ASSUME SameUse, Undisturbed /\ ~Faults /\ Records => Records' PROVE RecordInv'
  BY <1>2, SameFlags DEF RecordInv, Undisturbed
<1>3. ASSUME NEW t \in Threads, Carries(t)
      PROVE  /\ \A u \in Threads : u # t => pc'[u] = pc[u] /\ Held(u)' = Held(u)
             /\ Reply(t) => pc'[t] = "idle"
             /\ \A l \in PCs : GoesTo(t, l) => /\ pc'[t] = l /\ ino'[t] = ino[t]
                                               /\ dst'[t] = dst[t]
  BY <1>3, CarriesFacts DEF OthersKept
<1>4. ASSUME NEW t \in Threads, NEW l \in PCs, Goto(t, l), UNCHANGED request PROVE GoesTo(t, l)
  BY <1>4 DEF GoesTo
<1>5. \A l \in {"name", "parent", "unlink", "purge", "delete", "count", "purgedst", "deletedst",
                "oldname", "newname", "restore", "parents"} : l \in PCs
  BY DEF PCs
\* Nobody holds an inode that is not removed, or not locked.
<1>6. ASSUME NEW i \in Inos, NEW u \in Threads, pc[u] \in {"delete", "deletedst"}, Held(u) = i
      PROVE  i \in locks[u] /\ ((Removing(u) /\ i = ino[u]) \/ (Replacing(u) /\ i = dst[u]))
  <2>1. Held(u) # 0
    BY <1>6 DEF Inos
  <2>2. QED
    BY <1>6, <2>1, HeldLocked
<1>7. ASSUME NEW t \in Threads, Begin(t), UNCHANGED use PROVE RecordInv'
  <2>1. /\ UNCHANGED <<kind, data, xattr, sized>> /\ SameUse
        /\ pc'[t] \in {"make", "unname", "linkname", "oldname", "replace"}
        /\ \A u \in Threads : u # t => pc'[u] = pc[u] /\ ino'[u] = ino[u] /\ dst'[u] = dst[u]
    BY <1>0, <1>7 DEF Begin, MakeStart, UnlinkStart, RmdirStart, LinkStart, RenameStart, Grant,
                      SameUse, TypeInv, KindType
  <2>2. \A u \in Threads : u # t => pc'[u] = pc[u] /\ Held(u)' = Held(u)
    BY <2>1 DEF Held
  <2>3. QED
    BY <1>2, <2>1, <2>2, SameRecords
<1>8. ASSUME NEW t \in Threads, MakeInode(t), UNCHANGED use PROVE RecordInv'
  <2> SUFFICES ASSUME ~Faults, Records PROVE Records'
    BY <1>2, <1>8 DEF MakeInode, SameUse
  <2>1. /\ kind' = [kind EXCEPT ![nextIno] = SavedKind(op[t])] /\ UNCHANGED <<data, xattr, sized>>
        /\ pc'[t] \in {"target", "name"} /\ nextIno \in Inos
        /\ \A u \in Threads : u # t => pc'[u] = pc[u] /\ ino'[u] = ino[u] /\ dst'[u] = dst[u]
    BY <1>0, <1>8, ConstantsAssumption DEF MakeInode, Goto, TypeInv, KindType, Inos
  <2>2. \A u \in Threads : u # t => pc'[u] = pc[u] /\ Held(u)' = Held(u)
    BY <2>1 DEF Held
  <2>3. kind[nextIno] = "none"
    BY <1>0, <2>1 DEF ParentInv, NumberInv, TypeInv
  <2>4. \A i \in data \cup xattr : kind'[i] = kind[i]
    BY <2>1, <2>3 DEF Records
  <2>5. QED
    BY <2>1, <2>2, <2>4 DEF Records
<1>9. ASSUME NEW t \in Threads, SymlinkTarget(t), UNCHANGED use PROVE RecordInv'
  <2> SUFFICES ASSUME ~Faults, Records PROVE Records'
    BY <1>2, <1>9 DEF SymlinkTarget, SameUse
  <2>1. /\ data' = data \cup {ino[t]} /\ sized' = sized \cup {ino[t]} /\ GoesTo(t, "name")
        /\ UNCHANGED <<kind, xattr>> /\ pc[t] = "target" /\ Fresh(t)
    BY <1>4, <1>5, <1>9 DEF SymlinkTarget, Fresh
  <2>2. \A u \in Threads : u # t => pc'[u] = pc[u] /\ Held(u)' = Held(u)
    BY <1>3, <1>5, <2>1 DEF Carries
  <2>3. pc'[t] = "name"
    BY <1>3, <1>5, <2>1 DEF Carries
  <2>4. PICK i \in Inos : i = ino[t]
    BY <2>1 DEF ParentInv, FreshInv
  <2>5. kind[i] = "file"
    BY <2>1, <2>4 DEF LinkInv, WorksInv, Work, SavedKind
  <2>6. \A u \in Threads : pc[u] \in {"delete", "deletedst"} => Held(u) # i
    BY <1>6, <2>1, <2>4 DEF LinkInv, AloneInv
  <2>7. QED
    BY <2>1, <2>2, <2>3, <2>4, <2>5, <2>6 DEF Records
<1>10. ASSUME NEW t \in Threads, MakeName(t), UNCHANGED use PROVE RecordInv'
  <2> SUFFICES ASSUME ~Faults, Records PROVE Records'
    BY <1>2, <1>10 DEF MakeName, SameUse
  <2>1. UNCHANGED <<kind, data, xattr, sized>> /\ (Reply(t) \/ GoesTo(t, "parent"))
    BY <1>4, <1>5, <1>10 DEF MakeName, ReplyOk
  <2>2. QED
    BY <1>3, <1>5, <2>1, SameRecords DEF Carries
<1>11. ASSUME NEW t \in Threads, UNCHANGED use,
              \/ MkdirParent(t) \/ DropLink(t) \/ LinkCount(t) \/ RenameParents(t)
              \/ RemoveName(t) \/ LinkName(t) \/ RenameReplace(t)
              \/ RenameOldName(t) \/ RenameNewName(t) \/ RenameRestore(t)
       PROVE  RecordInv'
  <2>1. UNCHANGED <<kind, data, xattr, sized>> /\ SameUse
    BY <1>11 DEF MkdirParent, DropLink, LinkCount, RenameParents, RemoveName, LinkName,
                 RenameReplace, RenameOldName, RenameNewName, RenameRestore, SameUse
  <2>2. \/ Reply(t)
        \/ \E l \in {"unlink", "purge", "count", "purgedst", "newname", "restore", "parents"} :
             Goto(t, l) /\ UNCHANGED request
    BY <1>11 DEF MkdirParent, DropLink, LinkCount, RenameParents, RemoveName, LinkName,
                 RenameReplace, RenameOldName, RenameNewName, RenameRestore, ReplyOk, ReplyError,
                 RenameError, request
  <2>3. \/ Reply(t)
        \/ \E l \in PCs \ {"delete", "deletedst"} : GoesTo(t, l)
    BY <1>4, <1>5, <2>2
  <2>4. QED
    BY <1>2, <1>3, <2>1, <2>3, SameRecords DEF Carries
<1>12. ASSUME NEW t \in Threads, Purge(t), UNCHANGED use PROVE RecordInv'
  <2> SUFFICES ASSUME ~Faults, Records PROVE Records'
    BY <1>2, <1>12 DEF Purge, SameUse
  <2>1. /\ data' = BlocksLeft(ino[t]) /\ sized' = sized \ {ino[t]} /\ xattr' = xattr \ {ino[t]}
        /\ kind' = kind /\ GoesTo(t, "delete")
    BY <1>4, <1>5, <1>12 DEF Purge, XattrsLeft
  <2>2. /\ \A u \in Threads : u # t => pc'[u] = pc[u] /\ Held(u)' = Held(u)
        /\ Held(t)' = ino[t]
    BY <1>3, <1>5, <2>1 DEF Carries, Held
  <2>3. QED
    BY <2>1, <2>2, PurgedRecords
<1>13. ASSUME NEW t \in Threads, RenamePurge(t), UNCHANGED use PROVE RecordInv'
  <2> SUFFICES ASSUME ~Faults, Records PROVE Records'
    BY <1>2, <1>13 DEF RenamePurge, SameUse
  <2>1. /\ data' = BlocksLeft(dst[t]) \/ (kind[dst[t]] = "dir" /\ data' = data)
        /\ sized' = sized \ {dst[t]} /\ xattr' = xattr \ {dst[t]}
        /\ kind' = kind /\ GoesTo(t, "deletedst")
    BY <1>4, <1>5, <1>13 DEF RenamePurge, XattrsLeft, IsDir
  <2>2. /\ \A u \in Threads : u # t => pc'[u] = pc[u] /\ Held(u)' = Held(u)
        /\ Held(t)' = dst[t]
    BY <1>3, <1>5, <2>1 DEF Carries, Held
  <2>3. QED
    BY <2>1, <2>2, PurgedRecords
<1>14. ASSUME NEW t \in Threads, DeleteInode(t), UNCHANGED use PROVE RecordInv'
  <2> SUFFICES ASSUME ~Faults, Records PROVE Records'
    BY <1>2, <1>14 DEF DeleteInode, SameUse
  <2>1. /\ kind' = [kind EXCEPT ![ino[t]] = "none"] /\ UNCHANGED <<data, xattr, sized>>
        /\ Reply(t) /\ pc[t] = "delete" /\ Held(t) = ino[t]
    BY <1>14 DEF DeleteInode, ReplyOk, Held
  <2>2. /\ \A u \in Threads : u # t => pc'[u] = pc[u] /\ Held(u)' = Held(u)
        /\ pc'[t] = "idle"
    BY <1>3, <2>1 DEF Carries
  <2>3. QED
    BY <1>0, <2>1, <2>2, DeletedRecords DEF RecordTypes, KindType
<1>15. ASSUME NEW t \in Threads, RenameDelete(t), UNCHANGED use PROVE RecordInv'
  <2> SUFFICES ASSUME ~Faults, Records PROVE Records'
    BY <1>2, <1>15 DEF RenameDelete, SameUse
  <2>1. /\ kind' = [kind EXCEPT ![dst[t]] = "none"] /\ UNCHANGED <<data, xattr, sized>>
        /\ GoesTo(t, "oldname") /\ pc[t] = "deletedst" /\ Held(t) = dst[t]
    BY <1>4, <1>5, <1>15 DEF RenameDelete, Held
  <2>2. /\ \A u \in Threads : u # t => pc'[u] = pc[u] /\ Held(u)' = Held(u)
        /\ pc'[t] = "oldname"
    BY <1>3, <1>5, <2>1 DEF Carries
  <2>3. QED
    BY <1>0, <2>1, <2>2, DeletedRecords DEF RecordTypes, KindType
<1>16. ASSUME NEW i \in Inos, WriteData(i) \/ SetXattr(i) \/ RemoveXattr(i), UNCHANGED use
       PROVE  RecordInv'
  <2>1. SameUse /\ UNCHANGED <<kind, pc, request>>
    BY <1>16 DEF WriteData, SetXattr, RemoveXattr, SameUse
  <2>2. \A u \in Threads : Held(u)' = Held(u) /\ pc'[u] = pc[u]
    BY <2>1 DEF Held, request
  <2> SUFFICES ASSUME Records PROVE Records'
    BY <1>2, <2>1
  <2>3. (\A u \in Threads : i \notin locks[u]) =>
          \A u \in Threads : pc[u] \in {"delete", "deletedst"} => Held(u) # i
    BY <1>6
  <2>4. CASE WriteData(i)
    BY <2>1, <2>2, <2>3, <2>4 DEF WriteData, Records
  <2>5. CASE SetXattr(i)
    BY <2>1, <2>2, <2>3, <2>5 DEF SetXattr, Records
  <2>6. CASE RemoveXattr(i)
    BY <2>1, <2>2, <2>6 DEF RemoveXattr, Records
  <2>7. QED
    BY <1>16, <2>4, <2>5, <2>6
<1>17. CASE UNCHANGED vars
  <2>1. \A u \in Threads : Held(u)' = Held(u) /\ pc'[u] = pc[u]
    BY <1>17 DEF vars, Held
  <2>2. UNCHANGED <<kind, data, xattr, sized>> /\ SameUse
    BY <1>17 DEF vars, SameUse
  <2>3. Records => Records'
    BY <2>1, <2>2 DEF Records
  <2>4. QED
    BY <1>2, <2>2, <2>3
<1>18. QED
  BY <1>1, <1>7, <1>8, <1>9, <1>10, <1>11, <1>12, <1>13, <1>14, <1>15, <1>16, <1>17
     DEF Next, Continue

-----------------------------------------------------------------------------
(* The properties                                                          *)

CountInv == RecordTypes /\ (Clean => LinkInv /\ RecordInv)

LEMMA CountInvHolds == Spec => []CountInv
<1>1. ASSUME Init, IndInv, ParentInv PROVE CountInv
  <2>1. LinkInv
    BY <1>1, InitLinks
  <2>2. RecordTypes
    BY <1>1, <2>1 DEF RecordTypes, LinkInv, Links, Init, Ops
  <2>3. RecordInv
    BY <1>1 DEF Init, RecordInv, Records
  <2>4. QED
    BY <2>1, <2>2, <2>3 DEF CountInv
<1>2. ASSUME CountInv, IndInv, ParentInv, IndInv', ParentInv', [Next]_vars PROVE CountInv'
  <2>1. RecordTypes'
    BY <1>2, RecordTypesStep DEF CountInv
  <2>2. Clean' <=> Clean
    BY <1>2 DEF Next, vars, Clean, Ops, Faults
  <2>3. Clean => LinkInv' /\ RecordInv'
    BY <1>2, LinkStep, RecordStep DEF CountInv
  <2>4. QED
    BY <2>1, <2>2, <2>3 DEF CountInv
<1>3. QED
  BY <1>1, <1>2, IndInvHolds, ParentInvHolds, PTL DEF Spec

LEMMA TypesHold ==
  ASSUME IndInv, ParentInv, RecordTypes
  PROVE  TypeOK
<1>1. use.remounts \in Nat
  BY ConstantsAssumption DEF IndInv, TypeInv
<1>2. restarts \in 0 .. MaxRemounts /\ crashes \in 0 .. MaxRemounts
  BY <1>1 DEF RecordTypes, RemountInv, MaxRemounts
<1>3. /\ dirent \in [Slots -> 0 .. MaxIno] /\ acked \in [Slots -> 0 .. MaxIno]
      /\ nextIno \in 2 .. MaxIno + 1 /\ pc \in [Threads -> PCs]
      /\ at \in [Threads -> Slots \cup {NoSlot}] /\ to \in [Threads -> Slots \cup {NoSlot}]
      /\ ino \in [Threads -> 0 .. MaxIno] /\ locks \in [Threads -> SUBSET Inos] /\ use \in Uses
  BY DEF IndInv, TypeInv
<1>4. kind \in [Inos -> {"none", "dir", "file"}] /\ dst \in [Threads -> 0 .. MaxIno]
  BY DEF ParentInv, KindType
<1>5. QED
  BY <1>2, <1>3, <1>4 DEF RecordTypes, TypeOK

\* Every name leads to an inode, at every moment and after any crash, where no
\* rename fails or meets a hard link and no hard link meets a mount.
THEOREM NamesLead == Spec => []NamesInv
<1>1. ASSUME IndInv, ParentInv, CountInv PROVE NamesInv
  <2>1. TypeOK
    BY <1>1, TypesHold DEF CountInv
  <2>2. ASSUME "rename" \in Ops => ~Faults /\ "link" \notin Ops,
               "link" \in Ops => restarts + crashes = 0,
               NEW s \in Slots, dirent[s] # 0
        PROVE  kind[dirent[s]] # "none"
    <3>1. LinkInv /\ Resolving
      BY <1>1, <2>2 DEF CountInv, Clean, Resolving
    <3>2. CASE due[s] = dirent[s]
      BY <2>2, <3>1, <3>2 DEF LinkInv, Links, AliveInv
    <3>3. CASE due[s] # dirent[s]
      <4>1. PICK t \in Threads : ino[t] = dirent[s] /\ pc[t] \in {"count", "parents"}
        BY <1>1, <2>2, <3>1, <3>3, NameCounted DEF LinkInv
      <4>2. QED
        BY <3>1, <4>1 DEF LinkInv, WorksInv, Work
    <3>4. QED
      BY <3>2, <3>3
  <2>3. QED
    BY <2>1, <2>2 DEF NamesInv
<1>2. QED
  BY <1>1, IndInvHolds, ParentInvHolds, CountInvHolds, PTL

\* A slot stands for the name it has, or for the inode its request works on.
LEMMA DueBusy ==
  ASSUME IndInv, ParentInv, NEW s \in Slots, due[s] # dirent[s], due[s] # 0
  PROVE  Busy(due[s])
<1>1. PICK t \in Threads : s = at[t] \/ s = to[t]
  BY DueIs DEF DueFacts, InFlight
<1>2. due[s] \in {ino[t], dst[t]}
  BY <1>1, DueIs DEF DueFacts, AtDue, ToDue
<1>3. QED
  BY <1>2 DEF Busy

\* Unless the process crashed or a write failed, an inode without a name belongs
\* to a request that is about to name or to delete it.
THEOREM InodesReached == Spec => []NoOrphans
<1>1. ASSUME IndInv, ParentInv, CountInv PROVE NoOrphans
  <2> SUFFICES ASSUME crashes = 0, ~Faults, NEW i \in Inos, kind[i] # "none", i # RootIno,
                      ~Busy(i)
               PROVE  NamesOf(i) # {}
    BY DEF NoOrphans, Named
  <2>1. LinkInv
    BY <1>1 DEF CountInv, Clean
  <2>2. i # 0
    BY DEF Inos
  <2>3. ~IsHeld(i)
    BY <2>2 DEF IsHeld, Held, Busy
  <2>4. PICK s \in Slots : due[s] = i
    BY <2>1, <2>3 DEF LinkInv, Links, OrphanInv
  <2>5. dirent[s] = i
    BY <1>1, <2>2, <2>4, DueBusy
  <2>6. QED
    BY <2>5 DEF NamesOf
<1>2. QED
  BY <1>1, IndInvHolds, ParentInvHolds, CountInvHolds, PTL

\* A file's nlink is the number of its names and a directory's is 2 plus the
\* number of its subdirectories, as long as nothing failed and nothing was
\* mounted again, whenever no request is at work on the inode.
THEOREM LinksCounted == Spec => []NlinkExact
<1>1. ASSUME IndInv, ParentInv, CountInv PROVE NlinkExact
  <2> SUFFICES ASSUME Undisturbed, NEW i \in Inos, kind[i] # "none", ~Busy(i)
               PROVE  nlink[i] = IF IsDir(i) THEN 2 + Cardinality(Subdirs(i))
                                 ELSE Cardinality(NamesOf(i))
    BY DEF NlinkExact
  <2>1. LinkInv /\ restarts = 0 /\ crashes = 0 /\ ~Faults
    BY <1>1 DEF CountInv, Clean, Undisturbed
  <2>2. i # 0 /\ ~IsHeld(i)
    BY DEF Inos, IsHeld, Held, Busy
  <2>3. CASE IsDir(i)
    <3>1. ASSUME NEW s \in Slots, s[1] = i PROVE due[s] = dirent[s] /\ ~NewDir(s)
      <4>1. s \notin InFlight
        BY <3>1 DEF InFlight, Busy
      <4>2. QED
        BY <1>1, <4>1, DueIs DEF DueFacts, NewDir, InFlight
    <3>2. Subs(i) = Subdirs(i)
      BY <3>1 DEF Subs, Subdirs
    <3>3. QED
      BY <2>1, <2>3, <3>2 DEF LinkInv, Links, SubsInv, IsDir
  <2>4. CASE ~IsDir(i)
    <3>1. kind[i] = "file"
      BY <1>1, <2>4 DEF IsDir, ParentInv, KindType
    <3>2. ASSUME NEW s \in Slots, dirent[s] = i PROVE due[s] = i
      BY <1>1, <2>1, <2>2, <3>2, NameCounted DEF LinkInv, Busy
    <3>3. ASSUME NEW s \in Slots, due[s] = i PROVE dirent[s] = i
      BY <1>1, <2>2, <3>3, DueBusy
    <3>4. Claims(i) = NamesOf(i)
      BY <3>2, <3>3 DEF Claims, NamesOf
    <3>5. nlink[i] <= Cardinality(Claims(i)) /\ Cardinality(Claims(i)) <= nlink[i]
          /\ nlink[i] \in Nat
      BY <2>1, <2>2, <3>1 DEF LinkInv, Links, UpperInv, LowerInv
    <3>6. Cardinality(Claims(i)) \in Nat
      BY ClaimFacts, SlotCounts
    <3>7. nlink[i] = Cardinality(NamesOf(i))
      BY <3>4, <3>5, <3>6
    <3>8. QED
      BY <2>4, <3>7
  <2>5. QED
    BY <2>3, <2>4
<1>2. QED
  BY <1>1, IndInvHolds, ParentInvHolds, CountInvHolds, PTL

\* No block and no extended attribute stays in the store without its inode, as
\* long as nothing failed and nothing was mounted again.
THEOREM RecordsBelong == Spec => []RecordsOwned
<1>1. CountInv => RecordsOwned
  <2> SUFFICES ASSUME CountInv, Undisturbed, NEW i \in data \cup xattr PROVE kind[i] # "none"
    BY DEF RecordsOwned
  <2>1. Records
    BY DEF CountInv, Clean, Undisturbed, RecordInv
  <2>2. QED
    BY <2>1 DEF Records
<1>2. QED
  BY <1>1, CountInvHolds, PTL
=============================================================================
