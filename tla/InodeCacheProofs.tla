-------------------------- MODULE InodeCacheProofs --------------------------
(***************************************************************************)
(* Proofs about InodeCache for any number of threads, addresses and inode  *)
(* numbers, with and without failures of calloc and of the store.          *)
(***************************************************************************)
EXTENDS InodeCache, FiniteSetTheorems, TLAPS

-----------------------------------------------------------------------------
(* Types                                                                   *)

\* The prover reasons about Inos as a set of numbers better than as an interval.
LEMMA InosType == Inos \subseteq 0 .. MaxIno /\ 0 \notin Inos /\ \A n \in 1 .. MaxIno : n \in Inos
BY ConstantsAssumption DEF Inos

LEMMA FlushedType == TypeOK => Flushed \in [Inos -> Vals \cup {Absent}]
<1> SUFFICES ASSUME TypeOK, NEW i \in Inos
             PROVE  (IF Unsaved(i) = {} THEN kv[i] ELSE val[CHOOSE a \in Unsaved(i) : TRUE])
                       \in Vals \cup {Absent}
  BY DEF Flushed
<1>1. CASE Unsaved(i) = {}
  BY <1>1 DEF TypeOK
<1>2. CASE Unsaved(i) # {}
  <2>1. (CHOOSE a \in Unsaved(i) : TRUE) \in Unsaved(i)
    BY <1>2
  <2>2. QED
    BY <1>2, <2>1 DEF TypeOK, Find, Unsaved
<1>3. QED
  BY <1>1, <1>2

LEMMA FreeType ==
  ASSUME TypeOK, NEW S, FreeEntries(S)
  PROVE  /\ inum'     \in [Addr -> 0 .. MaxIno]
         /\ refcount' \in [Addr -> Nat]
         /\ val'      \in [Addr -> Vals]
         /\ dirty'    \subseteq Addr
         /\ deleted'  \subseteq Addr
BY ConstantsAssumption DEF TypeOK, FreeEntries, FreeContents

\* The type invariant holds in every state, whatever the constants.
THEOREM TypeCorrect == Spec => []TypeOK
<1>1. Init => TypeOK
  BY ConstantsAssumption DEF Init, Inos, TypeOK, LocalsOK, PCs
<1>2. TypeOK /\ [Next]_vars => TypeOK'
  <2> SUFFICES ASSUME TypeOK, [Next]_vars PROVE TypeOK'
    OBVIOUS
  <2> USE ConstantsAssumption, InosType
  <2> USE DEF TypeOK, PCs, At, Return, Drop, Hold, entries
  <2>1. ASSUME NEW t \in Threads, NEW i \in Inos, InodeGet(t, i) PROVE TypeOK'
    <3>1. refcount' \in [Addr -> Nat]
      BY <2>1 DEF InodeGet, Find, Referenced
    <3>2. pc' \in [Threads -> PCs]
      BY <2>1 DEF InodeGet, Find, Referenced
    <3>3. ino' \in [Threads -> 0 .. MaxIno]
      BY <2>1 DEF InodeGet, Find, Referenced
    <3>4. refs' \in [Threads -> SUBSET Addr]
      BY <2>1 DEF InodeGet, Find, Referenced
    <3>5. UNCHANGED <<inum, val, dirty, deleted, icache, kv, nextIno, known, doomed, ic, phase>>
      BY <2>1 DEF InodeGet, Find, Referenced
    <3>6. LocalsOK'
      BY <2>1 DEF LocalsOK, InodeGet, Find, Referenced
    <3>7. QED
      BY <3>1, <3>2, <3>3, <3>4, <3>5, <3>6
  <2>2. ASSUME NEW t \in Threads, InodeLoad(t) PROVE TypeOK'
    <3>1. inum' \in [Addr -> 0 .. MaxIno]
      BY <2>2 DEF LocalsOK, InodeLoad, Loaded, NewEntry, FreeAddr
    <3>2. refcount' \in [Addr -> Nat]
      BY <2>2 DEF LocalsOK, InodeLoad, Loaded, NewEntry, FreeAddr
    <3>3. val' \in [Addr -> Vals]
      BY <2>2 DEF LocalsOK, InodeLoad, Loaded, NewEntry, FreeAddr
    <3>4. pc' \in [Threads -> PCs]
      BY <2>2 DEF LocalsOK, InodeLoad, Loaded, NewEntry, FreeAddr
    <3>5. ino' \in [Threads -> 0 .. MaxIno]
      BY <2>2 DEF LocalsOK, InodeLoad, Loaded, NewEntry, FreeAddr
    <3>6. ic' \in [Threads -> Addr \cup {NULL}]
      BY <2>2 DEF LocalsOK, InodeLoad, Loaded, NewEntry, FreeAddr
    <3>7. refs' \in [Threads -> SUBSET Addr]
      BY <2>2 DEF LocalsOK, InodeLoad, Loaded, NewEntry, FreeAddr
    <3>8. UNCHANGED <<dirty, deleted, icache, kv, nextIno, known, doomed, phase>>
      BY <2>2 DEF LocalsOK, InodeLoad, Loaded, NewEntry, FreeAddr
    <3>9. LocalsOK'
      BY <2>2 DEF LocalsOK, InodeLoad, Loaded, NewEntry, FreeAddr
    <3>10. QED
      BY <3>1, <3>2, <3>3, <3>4, <3>5, <3>6, <3>7, <3>8, <3>9
  <2>3. ASSUME NEW t \in Threads, InodeGetPublish(t) PROVE TypeOK'
    BY <2>3, FreeType DEF LocalsOK, InodeGetPublish, Recheck, Find, Visible, Referenced, FreeContents
  <2>4. ASSUME NEW t \in Threads, NEW a \in Addr, InodePut(t, a) PROVE TypeOK'
    BY <2>4, FreeType DEF LocalsOK, InodePut, FreedByPut
  <2>5. ASSUME NEW t \in Threads, InodeCreate(t) PROVE TypeOK'
    <3>1. inum' \in [Addr -> 0 .. MaxIno]
      BY <2>5 DEF InodeCreate, NewEntry, FreeAddr
    <3>2. refcount' \in [Addr -> Nat]
      BY <2>5 DEF InodeCreate, NewEntry, FreeAddr
    <3>3. val' \in [Addr -> Vals]
      BY <2>5 DEF InodeCreate, NewEntry, FreeAddr
    <3>4. dirty' \subseteq Addr
      BY <2>5 DEF InodeCreate, NewEntry, FreeAddr
    <3>5. nextIno' \in 1 .. MaxIno + 1
      BY <2>5 DEF InodeCreate, NewEntry, FreeAddr
    <3>6. pc' \in [Threads -> PCs]
      BY <2>5 DEF InodeCreate, NewEntry, FreeAddr
    <3>7. ic' \in [Threads -> Addr \cup {NULL}]
      BY <2>5 DEF InodeCreate, NewEntry, FreeAddr
    <3>8. refs' \in [Threads -> SUBSET Addr]
      BY <2>5 DEF InodeCreate, NewEntry, FreeAddr
    <3>9. UNCHANGED <<deleted, icache, kv, known, doomed, ino, phase>>
      BY <2>5 DEF InodeCreate, NewEntry, FreeAddr
    <3>10. LocalsOK'
      BY <2>5 DEF LocalsOK, InodeCreate, NewEntry, FreeAddr
    <3>11. QED
      BY <3>1, <3>2, <3>3, <3>4, <3>5, <3>6, <3>7, <3>8, <3>9, <3>10
  <2>6. ASSUME NEW t \in Threads, InodeCreateSave(t) PROVE TypeOK'
    BY <2>6, FreeType, SMTT(60) DEF LocalsOK, InodeCreateSave
  <2>7. ASSUME NEW t \in Threads, InodeCreateAdd(t) PROVE TypeOK'
    <3>1. icache' \subseteq Addr
      BY <2>7 DEF LocalsOK, InodeCreateAdd
    <3>2. known' \subseteq 0 .. MaxIno
      <4>1. inum[ic[t]] \in 0 .. MaxIno
        BY <2>7 DEF LocalsOK, InodeCreateAdd
      <4>2. known' = known \cup {inum[ic[t]]}
        BY <2>7 DEF InodeCreateAdd
      <4>3. QED
        BY <4>1, <4>2
    <3>3. doomed' \subseteq known'
      BY <2>7 DEF LocalsOK, InodeCreateAdd
    <3>4. pc' \in [Threads -> PCs]
      BY <2>7 DEF LocalsOK, InodeCreateAdd
    <3>5. ino' \in [Threads -> 0 .. MaxIno]
      BY <2>7 DEF LocalsOK, InodeCreateAdd
    <3>6. ic' \in [Threads -> Addr \cup {NULL}]
      BY <2>7 DEF LocalsOK, InodeCreateAdd
    <3>7. UNCHANGED <<inum, refcount, val, dirty, deleted, kv, nextIno, refs, phase>>
      BY <2>7 DEF LocalsOK, InodeCreateAdd
    <3>8. LocalsOK'
      BY <2>7 DEF LocalsOK, InodeCreateAdd
    <3>9. QED
      BY <3>1, <3>2, <3>3, <3>4, <3>5, <3>6, <3>7, <3>8
  <2>8. ASSUME NEW t \in Threads, NEW i \in Inos, InodeDelete(t, i) PROVE TypeOK'
    BY <2>8 DEF LocalsOK, InodeDelete, FreedByDelete, Find, FreeContents
  <2>9. ASSUME NEW t \in Threads, InodeDeleteKv(t) PROVE TypeOK'
    BY <2>9 DEF LocalsOK, InodeDeleteKv
  <2>10. ASSUME NEW t \in Threads, NEW a \in Addr, ModifyInode(t, a) PROVE TypeOK'
    BY <2>10 DEF LocalsOK, ModifyInode
  <2>11. ASSUME NEW t \in Threads, InodeSync(t) PROVE TypeOK'
    <3>1. dirty' \subseteq Addr
      BY <2>11 DEF LocalsOK, InodeSync
    <3>2. kv' \in [Inos -> Vals \cup {Absent}]
      BY <2>11 DEF LocalsOK, InodeSync
    <3>3. pc' \in [Threads -> PCs]
      BY <2>11 DEF LocalsOK, InodeSync
    <3>4. ino' \in [Threads -> 0 .. MaxIno]
      BY <2>11 DEF LocalsOK, InodeSync
    <3>5. ic' \in [Threads -> Addr \cup {NULL}]
      BY <2>11 DEF LocalsOK, InodeSync
    <3>6. UNCHANGED <<inum, refcount, val, deleted, icache, nextIno, known, doomed, refs, phase>>
      BY <2>11 DEF LocalsOK, InodeSync
    <3>7. LocalsOK'
      BY <2>11 DEF LocalsOK, InodeSync
    <3>8. QED
      BY <3>1, <3>2, <3>3, <3>4, <3>5, <3>6, <3>7
  <2>12. ASSUME KvbfsDestroy PROVE TypeOK'
    BY <2>12, FlushedType, FreeType DEF KvbfsDestroy, ClearCache, LocalsOK
  <2>13. ASSUME CtxDestroy PROVE TypeOK'
    BY <2>13, FlushedType, FreeType DEF CtxDestroy, ClearCache, LocalsOK
  <2>14. CASE UNCHANGED vars
    BY <2>14 DEF vars, LocalsOK
  <2>15. QED
    BY <2>1, <2>2, <2>3, <2>4, <2>5, <2>6, <2>7, <2>8, <2>9, <2>10, <2>11,
       <2>12, <2>13, <2>14 DEF Next, Step
<1>3. QED
  BY <1>1, <1>2, PTL DEF Spec
-----------------------------------------------------------------------------
(* The inductive invariant                                                 *)

LEMMA ThreadsFinite == IsFiniteSet(Threads)
BY ConstantsAssumption, FS_Union DEF Threads

LEMMA CountAdd ==
  ASSUME NEW S \in SUBSET Threads, NEW t \in Threads, t \notin S
  PROVE  Cardinality(S \cup {t}) = Cardinality(S) + 1
<1>1. IsFiniteSet(S)
  BY ThreadsFinite, FS_Subset
<1>2. QED
  BY <1>1, FS_AddElement

LEMMA CountRemove ==
  ASSUME NEW S \in SUBSET Threads, NEW t \in S
  PROVE  /\ Cardinality(S \ {t}) = Cardinality(S) - 1
         /\ Cardinality(S) \in Nat \ {0}
         /\ Cardinality(S) = 1 => S = {t}
<1>1. IsFiniteSet(S)
  BY ThreadsFinite, FS_Subset
<1>2. Cardinality(S \ {t}) = Cardinality(S) - 1
  BY <1>1, FS_RemoveElement
<1>3. Cardinality(S) \in Nat /\ Cardinality(S) # 0
  BY <1>1, FS_CardinalityType, FS_EmptySet
<1>4. ASSUME Cardinality(S) = 1 PROVE S = {t}
  <2>1. IsFiniteSet(S \ {t}) /\ Cardinality(S \ {t}) = 0
    BY <1>1, <1>2, <1>4, FS_RemoveElement
  <2>2. S \ {t} = {}
    BY <2>1, FS_EmptySet
  <2>3. QED
    BY <2>2
<1>5. QED
  BY <1>2, <1>3, <1>4

LEMMA CountNone == Cardinality({}) = 0
BY FS_EmptySet

\* Whatever a thread holds is allocated, and free memory is held by nobody.
LEMMA HeldAllocated ==
  ASSUME TypeOK, MountedInv
  PROVE  /\ \A t \in Threads : refs[t] \subseteq Allocated
         /\ \A a \in Addr : a \notin Allocated => Holders(a) = {}
BY DEF TypeOK, MountedInv, RefsInv, PrivateInv, OwnedInv, Holders

\* A count of 0 means that nobody holds the entry.
LEMMA UnheldFree ==
  ASSUME TypeOK, MountedInv, NEW a \in Allocated, refcount[a] = 0
  PROVE  Holders(a) = {}
<1> SUFFICES ASSUME NEW t \in Holders(a) PROVE FALSE
  OBVIOUS
<1>1. Cardinality(Holders(a)) # 0
  BY CountRemove DEF Holders
<1>2. QED
  BY <1>1 DEF MountedInv, CountsInv

\* Taking and dropping one reference changes the number of holders of one entry.
LEMMA HoldCounts ==
  ASSUME TypeOK, NEW t \in Threads, NEW a \in Addr, a \notin refs[t], Hold(t, a)
  PROVE  /\ Cardinality(Holders(a))' = Cardinality(Holders(a)) + 1
         /\ \A b \in Addr : b # a => Holders(b)' = Holders(b)
<1>1. Holders(a)' = Holders(a) \cup {t} /\ t \notin Holders(a)
  BY DEF TypeOK, Hold, Holders
<1>2. \A b \in Addr : b # a => Holders(b)' = Holders(b)
  BY DEF TypeOK, Hold, Holders
<1>3. Holders(a) \in SUBSET Threads
  BY DEF Holders
<1>4. QED
  BY <1>1, <1>2, <1>3, CountAdd

LEMMA DropCounts ==
  ASSUME TypeOK, NEW t \in Threads, NEW a \in refs[t], Drop(t, a)
  PROVE  /\ Cardinality(Holders(a))' = Cardinality(Holders(a)) - 1
         /\ Cardinality(Holders(a)) \in Nat \ {0}
         /\ Cardinality(Holders(a)) = 1 => Holders(a) = {t}
         /\ Holders(a)' = Holders(a) \ {t}
         /\ \A b \in Addr : b # a => Holders(b)' = Holders(b)
<1>1. Holders(a)' = Holders(a) \ {t} /\ t \in Holders(a)
  BY DEF TypeOK, Drop, Holders
<1>2. \A b \in Addr : b # a => Holders(b)' = Holders(b)
  BY DEF TypeOK, Drop, Holders
<1>3. Holders(a) \in SUBSET Threads
  BY DEF Holders
<1>4. QED
  BY <1>1, <1>2, <1>3, CountRemove

\* NumbersInv is kept by a step that creates nothing and publishes only known numbers.
LEMMA NumbersKept ==
  ASSUME NumbersInv, known' = known, nextIno' = nextIno,
         \A a \in icache' : inum'[a] \in known,
         \A u \in Threads : Creating(u)' =>
           Creating(u) /\ ic'[u] = ic[u] /\ inum'[ic[u]] = inum[ic[u]]
  PROVE  NumbersInv'
<1>1. \A i \in known' : i < nextIno'
  BY DEF NumbersInv
<1>2. \A a \in icache' : inum'[a] \in known'
  OBVIOUS
<1>3. \A t \in Threads : Creating(t)' =>
        /\ inum'[ic'[t]] \notin known' /\ inum'[ic'[t]] < nextIno'
        /\ \A u \in Threads : (Creating(u)' /\ inum'[ic'[u]] = inum'[ic'[t]]) => u = t
  BY DEF NumbersInv
<1>4. QED
  BY <1>1, <1>2, <1>3 DEF NumbersInv

LEMMA InodeGetInv ==
  ASSUME TypeOK, MountedInv, NEW t \in Threads, NEW i \in Inos, InodeGet(t, i)
  PROVE  MountedInv'
<1> USE InosType, HeldAllocated, UnheldFree DEF TypeOK, At, PCs, Private, Creating, Allocated, entries
<1>1. RefsInv'
  BY DEF MountedInv, RefsInv, Holders, InodeGet, Find, Visible, Referenced, Hold
<1>2. PrivateInv'
  BY DEF MountedInv, PrivateInv, RefsInv, OwnedInv, Holders, InodeGet, Find, Visible, Referenced, Hold
<1>3. LocalsInv'
  BY DEF MountedInv, LocalsInv, PrivateInv, RefsInv, OwnedInv, Holders, InodeGet, Find, Visible, Referenced, Hold
<1>4. NumbersInv'
  <2>1. known' = known /\ nextIno' = nextIno
    BY DEF InodeGet
  <2>2. \A b \in icache' : inum'[b] \in known
    BY DEF MountedInv, NumbersInv, PrivateInv, LocalsInv, OwnedInv, Holders, InodeGet, Find, Visible, Referenced, Hold
  <2>3. \A u \in Threads : Creating(u)' =>
          Creating(u) /\ ic'[u] = ic[u] /\ inum'[ic[u]] = inum[ic[u]]
    BY DEF MountedInv, PrivateInv, OwnedInv, Holders, InodeGet, Find, Visible, Referenced, Hold
  <2>4. QED
    BY <2>1, <2>2, <2>3, NumbersKept DEF MountedInv
<1>5. OwnedInv'
  BY DEF MountedInv, OwnedInv, PrivateInv, RefsInv, Holders, InodeGet, Find, Visible, Referenced, Hold
<1>6. CountsInv'
  <2>1. CASE \E a \in Find(i) : /\ Visible(a)
                                /\ refcount' = [refcount EXCEPT ![a] = Referenced(a)]
                                /\ Hold(t, a)
    <3>1. PICK a \in Find(i) : /\ refcount' = [refcount EXCEPT ![a] = Referenced(a)]
                               /\ Hold(t, a)
      BY <2>1
    <3>2. a \in Allocated /\ a \notin refs[t] /\ inum' = inum
      BY <3>1 DEF InodeGet, Find, MountedInv, OwnedInv
    <3>3. refcount'[a] = refcount[a] + 1 /\ \A b \in Addr : b # a => refcount'[b] = refcount[b]
      BY <3>1, <3>2 DEF Referenced
    <3>4. QED
      BY <3>1, <3>2, <3>3, HoldCounts DEF MountedInv, CountsInv
  <2>2. CASE UNCHANGED <<refcount, refs>>
    BY <2>2 DEF InodeGet, MountedInv, CountsInv, Holders
  <2>3. QED
    BY <2>1, <2>2 DEF InodeGet
<1>7. UniqueInv'
  BY DEF MountedInv, UniqueInv, NumbersInv, OwnedInv, Holders, InodeGet, Find, Visible, Referenced, Hold
<1>8. QED
  BY <1>1, <1>2, <1>3, <1>4, <1>5, <1>6, <1>7 DEF MountedInv

LEMMA InodeLoadInv ==
  ASSUME TypeOK, MountedInv, NEW t \in Threads, InodeLoad(t)
  PROVE  MountedInv'
<1> USE InosType, HeldAllocated, UnheldFree DEF TypeOK, At, PCs, Private, Creating, Allocated, entries
<1>1. RefsInv'
  BY DEF MountedInv, RefsInv, Holders, InodeLoad, Loaded, NewEntry, FreeAddr, Hold, Return
<1>2. PrivateInv'
  <2>1. CASE \E a \in FreeAddr : NewEntry(a, ino[t], kv[ino[t]]) /\ Hold(t, a) /\ ic' = [ic EXCEPT ![t] = a]
    <3>1. PICK a \in FreeAddr : NewEntry(a, ino[t], kv[ino[t]]) /\ Hold(t, a) /\ ic' = [ic EXCEPT ![t] = a]
      BY <2>1
    <3>2. a \in Addr /\ a \notin Allocated /\ a \notin icache /\ Holders(a) = {} /\ a \notin deleted
      BY <3>1 DEF FreeAddr, MountedInv, OwnedInv
    <3>3. Holders(a)' = {t} /\ inum'[a] # 0
      <4>1. Holders(a)' = {t}
        BY <3>1, <3>2 DEF Holders, Hold
      <4>2. inum'[a] = ino[t] /\ ino[t] # 0
        BY <3>1, <3>2, ConstantsAssumption DEF NewEntry, InodeLoad, Loaded, LocalsOK
      <4>3. QED
        BY <4>1, <4>2
    <3>4. ASSUME NEW u \in Threads, u # t, Private(u)
          PROVE  /\ ic'[u] = ic[u] /\ ic[u] # a /\ inum'[ic[u]] = inum[ic[u]]
                 /\ Holders(ic[u])' = Holders(ic[u])
      BY <3>1, <3>2, <3>4 DEF MountedInv, PrivateInv, NewEntry, Hold, Holders
    <3>5. QED
      BY <3>1, <3>2, <3>3, <3>4 DEF MountedInv, PrivateInv, InodeLoad, Loaded
  <2>2. CASE UNCHANGED <<inum, refs>> /\ pc'[t] = "idle"
    BY <2>2 DEF InodeLoad, Loaded, Return, MountedInv, PrivateInv, Holders
  <2>3. QED
    BY <2>1, <2>2 DEF InodeLoad, Loaded, Return
<1>3. LocalsInv'
  BY DEF MountedInv, LocalsInv, PrivateInv, RefsInv, OwnedInv, Holders, InodeLoad, Loaded, NewEntry, FreeAddr, Hold, Return
<1>4. NumbersInv'
  <2>1. \A a \in Allocated : inum'[a] = inum[a]
    BY DEF InodeLoad, Loaded, NewEntry, FreeAddr
  <2>2. UNCHANGED <<known, nextIno, icache>>
    BY DEF InodeLoad, Loaded
  <2>3. \A u \in Threads : Creating(u)' => u # t /\ Creating(u) /\ ic'[u] = ic[u] /\ ic[u] \in Allocated
    BY DEF InodeLoad, Loaded, Return, MountedInv, PrivateInv
  <2>4. QED
    BY <2>1, <2>2, <2>3 DEF MountedInv, NumbersInv, OwnedInv
<1>5. OwnedInv'
  BY DEF MountedInv, OwnedInv, PrivateInv, RefsInv, Holders, InodeLoad, Loaded, NewEntry, FreeAddr, Hold, Return
<1>6. CountsInv'
  <2>1. CASE \E a \in FreeAddr : NewEntry(a, ino[t], kv[ino[t]]) /\ Hold(t, a)
    <3>1. PICK a \in FreeAddr : NewEntry(a, ino[t], kv[ino[t]]) /\ Hold(t, a)
      BY <2>1
    <3>2. a \in Addr /\ a \notin Allocated /\ Cardinality(Holders(a)) = 0 /\ a \notin refs[t]
      BY <3>1, CountNone DEF FreeAddr
    <3>3. refcount'[a] = 1 /\ Cardinality(Holders(a))' = 1
      BY <3>1, <3>2, HoldCounts DEF NewEntry
    <3>4. \A b \in Addr : b # a =>
            refcount'[b] = refcount[b] /\ inum'[b] = inum[b] /\ Holders(b)' = Holders(b)
      BY <3>1, <3>2, HoldCounts DEF NewEntry
    <3>5. QED
      BY <3>3, <3>4 DEF MountedInv, CountsInv
  <2>2. CASE UNCHANGED <<inum, refcount, refs>>
    BY <2>2 DEF MountedInv, CountsInv, Holders
  <2>3. QED
    BY <2>1, <2>2 DEF InodeLoad, Loaded
<1>7. UniqueInv'
  BY DEF MountedInv, UniqueInv, NumbersInv, OwnedInv, Holders, InodeLoad, Loaded, NewEntry, FreeAddr, Hold, Return
<1>8. QED
  BY <1>1, <1>2, <1>3, <1>4, <1>5, <1>6, <1>7 DEF MountedInv

LEMMA InodeGetPublishInv ==
  ASSUME TypeOK, MountedInv, NEW t \in Threads, InodeGetPublish(t)
  PROVE  MountedInv'
<1> USE InosType, HeldAllocated, UnheldFree DEF TypeOK, At, PCs, Private, Creating, Allocated, entries
<1>1. RefsInv'
  BY DEF MountedInv, RefsInv, Holders, InodeGetPublish, Recheck, Find, Visible, Referenced, Drop, Return, FreeEntries, FreeContents
<1>2. PrivateInv'
  BY DEF MountedInv, PrivateInv, RefsInv, OwnedInv, Holders, InodeGetPublish, Recheck, Find, Visible, Referenced, Drop, Return, FreeEntries, FreeContents
<1>3. LocalsInv'
  BY DEF MountedInv, LocalsInv, PrivateInv, RefsInv, OwnedInv, Holders, InodeGetPublish, Recheck, Find, Visible, Referenced, Drop, Return, FreeEntries, FreeContents
<1>4. NumbersInv'
  <2>1. known' = known /\ nextIno' = nextIno
    BY DEF InodeGetPublish
  <2>2. \A b \in icache' : inum'[b] \in known
    BY DEF MountedInv, NumbersInv, PrivateInv, LocalsInv, OwnedInv, Holders, InodeGetPublish, Recheck, Find, Visible, Referenced, Drop, Return, FreeEntries, FreeContents
  <2>3. \A u \in Threads : Creating(u)' =>
          Creating(u) /\ ic'[u] = ic[u] /\ inum'[ic[u]] = inum[ic[u]]
    BY DEF MountedInv, PrivateInv, OwnedInv, Holders, InodeGetPublish, Recheck, Find, Visible, Referenced, Drop, Return, FreeEntries, FreeContents
  <2>4. QED
    BY <2>1, <2>2, <2>3, NumbersKept DEF MountedInv
<1>5. OwnedInv'
  BY DEF MountedInv, OwnedInv, PrivateInv, RefsInv, Holders, InodeGetPublish, Recheck, Find, Visible, Referenced, Drop, Return, FreeEntries, FreeContents
<1>6. CountsInv'
  <2> DEFINE mine == ic[t]
  <2>0. mine \in Addr /\ mine \in refs[t] /\ Holders(mine) = {t}
    BY DEF InodeGetPublish, MountedInv, PrivateInv, LocalsOK, Holders
  <2>1. CASE UNCHANGED <<inum, refcount, refs>>
    BY <2>1 DEF MountedInv, CountsInv, Holders
  <2>2. CASE FreeEntries({mine}) /\ Drop(t, mine)
    BY <2>0, <2>2, DropCounts DEF FreeEntries, FreeContents, MountedInv, CountsInv
  <2>3. CASE \E e \in Find(inum[mine]) :
               /\ FreeContents({mine})
               /\ refcount' = [refcount EXCEPT ![mine] = 0, ![e] = Referenced(e)]
               /\ refs' = [refs EXCEPT ![t] = (@ \ {mine}) \cup {e}]
    <3>1. PICK e \in Find(inum[mine]) :
               /\ FreeContents({mine})
               /\ refcount' = [refcount EXCEPT ![mine] = 0, ![e] = Referenced(e)]
               /\ refs' = [refs EXCEPT ![t] = (@ \ {mine}) \cup {e}]
      BY <2>3
    <3>2. e \in Allocated /\ e # mine
      BY <3>1 DEF Find, InodeGetPublish, MountedInv, OwnedInv, PrivateInv
    <3>3. e \notin refs[t]
      BY <3>1, <3>2 DEF Find, InodeGetPublish, MountedInv, LocalsInv
    <3>4. Holders(e)' = Holders(e) \cup {t} /\ t \notin Holders(e) /\ Holders(e) \in SUBSET Threads
      BY <3>1, <3>2, <3>3 DEF Holders
    <3>5. Cardinality(Holders(e))' = Cardinality(Holders(e)) + 1
      BY <3>4, CountAdd
    <3>6. \A b \in Addr : b # e /\ b # mine => Holders(b)' = Holders(b)
      BY <3>1, <3>2 DEF Holders
    <3>7. QED
      BY <3>1, <3>2, <3>5, <3>6 DEF FreeContents, Referenced, MountedInv, CountsInv
  <2>4. QED
    BY <2>1, <2>2, <2>3 DEF InodeGetPublish, Recheck
<1>7. UniqueInv'
  BY DEF MountedInv, UniqueInv, NumbersInv, OwnedInv, Holders, InodeGetPublish, Recheck, Find, Visible, Referenced, Drop, Return, FreeEntries, FreeContents
<1>8. QED
  BY <1>1, <1>2, <1>3, <1>4, <1>5, <1>6, <1>7 DEF MountedInv

LEMMA InodePutInv ==
  ASSUME TypeOK, MountedInv, NEW t \in Threads, NEW a \in Addr, InodePut(t, a)
  PROVE  MountedInv'
<1> USE InosType, HeldAllocated, UnheldFree DEF TypeOK, At, PCs, Private, Creating, Allocated, entries
<1>1. RefsInv'
  <2>1. CASE FreedByPut(a, IF refcount[a] > 0 THEN refcount[a] - 1 ELSE 0)
    <3>1. a \in Allocated /\ Drop(t, a)
      BY DEF InodePut
    <3>2. refcount[a] = Cardinality(Holders(a)) /\ refcount[a] = 1
      BY <2>1, <3>1, DropCounts DEF InodePut, FreedByPut, MountedInv, CountsInv
    <3>3. Holders(a) = {t}
      BY <3>1, <3>2, DropCounts DEF InodePut
    <3>4. QED
      BY <2>1, <3>1, <3>3 DEF InodePut, Drop, MountedInv, RefsInv, Holders
  <2>2. CASE ~FreedByPut(a, IF refcount[a] > 0 THEN refcount[a] - 1 ELSE 0)
    BY <2>2 DEF InodePut, Drop, MountedInv, RefsInv
  <2>3. QED
    BY <2>1, <2>2
<1>2. PrivateInv'
  BY DEF MountedInv, PrivateInv, RefsInv, OwnedInv, Holders, InodePut, FreedByPut, FreeEntries, FreeContents, Drop
<1>3. LocalsInv'
  <2>1. \A u \in Threads : \A b \in refs'[u] : inum'[b] = inum[b] /\ b \in refs[u]
    <3>1. CASE UNCHANGED inum
      BY <3>1 DEF InodePut, Drop
    <3>2. CASE FreedByPut(a, IF refcount[a] > 0 THEN refcount[a] - 1 ELSE 0) /\ FreeEntries({a})
      <4>1. a \in Allocated /\ refcount[a] = 1 /\ Holders(a) = {t}
        BY <3>2, DropCounts DEF InodePut, FreedByPut, MountedInv, CountsInv
      <4>2. QED
        BY <3>2, <4>1 DEF InodePut, Drop, FreeEntries, FreeContents, Holders
    <3>3. QED
      BY <3>1, <3>2 DEF InodePut
  <2>2. \A u \in Threads : pc[u] = "publish" => inum'[ic[u]] = inum[ic[u]] /\ ic[u] \in refs'[u]
    BY <2>1 DEF InodePut, Drop, MountedInv, PrivateInv, RefsInv, Holders
  <2>3. \A u \in Threads : pc[u] = "sync" => ic[u] \in refs'[u]
    BY DEF InodePut, Drop, MountedInv, LocalsInv
  <2>4. UNCHANGED <<pc, ino, ic, known>>
    BY DEF InodePut
  <2>5. QED
    BY <2>1, <2>2, <2>3, <2>4 DEF MountedInv, LocalsInv
<1>4. NumbersInv'
  <2>1. known' = known /\ nextIno' = nextIno
    BY DEF InodePut
  <2>2. \A b \in icache' : inum'[b] \in known
    BY DEF MountedInv, NumbersInv, PrivateInv, LocalsInv, OwnedInv, Holders, InodePut, FreedByPut, FreeEntries, FreeContents, Drop
  <2>3. \A u \in Threads : Creating(u)' =>
          Creating(u) /\ ic'[u] = ic[u] /\ inum'[ic[u]] = inum[ic[u]]
    BY DEF MountedInv, PrivateInv, OwnedInv, Holders, InodePut, FreedByPut, FreeEntries, FreeContents, Drop
  <2>4. QED
    BY <2>1, <2>2, <2>3, NumbersKept DEF MountedInv
<1>5. OwnedInv'
  <2> DEFINE left == IF refcount[a] > 0 THEN refcount[a] - 1 ELSE 0
  <2>1. /\ refcount[a] = Cardinality(Holders(a)) /\ left = Cardinality(Holders(a))'
        /\ \A b \in Addr : b # a => Holders(b)' = Holders(b)
    BY DropCounts DEF InodePut, MountedInv, CountsInv
  <2>2. CASE FreedByPut(a, left)
    BY <2>1, <2>2 DEF InodePut, FreeEntries, FreeContents, MountedInv, OwnedInv, PrivateInv
  <2>3. CASE ~FreedByPut(a, left)
    <3>1. UNCHANGED <<inum, icache, deleted, pc, ic>>
      BY <2>3 DEF InodePut
    <3>2. a \in deleted => Holders(a)' # {}
      BY <2>1, <2>3, CountNone DEF FreedByPut
    <3>3. QED
      BY <2>1, <3>1, <3>2 DEF MountedInv, OwnedInv
  <2>4. QED
    BY <2>2, <2>3
<1>6. CountsInv'
  <2> DEFINE left == IF refcount[a] > 0 THEN refcount[a] - 1 ELSE 0
  <2>1. /\ refcount[a] = Cardinality(Holders(a)) /\ left = Cardinality(Holders(a))'
        /\ \A b \in Addr : b # a => Holders(b)' = Holders(b)
    BY DropCounts DEF InodePut, MountedInv, CountsInv
  <2>2. CASE FreedByPut(a, left)
    BY <2>1, <2>2 DEF InodePut, FreeEntries, FreeContents, MountedInv, CountsInv
  <2>3. CASE ~FreedByPut(a, left)
    BY <2>1, <2>3 DEF InodePut, MountedInv, CountsInv
  <2>4. QED
    BY <2>2, <2>3
<1>7. UniqueInv'
  BY DEF MountedInv, UniqueInv, NumbersInv, OwnedInv, Holders, InodePut, FreedByPut, FreeEntries, FreeContents, Drop
<1>8. QED
  BY <1>1, <1>2, <1>3, <1>4, <1>5, <1>6, <1>7 DEF MountedInv

LEMMA InodeCreateInv ==
  ASSUME TypeOK, MountedInv, NEW t \in Threads, InodeCreate(t)
  PROVE  MountedInv'
<1> USE InosType, HeldAllocated, UnheldFree DEF TypeOK, At, PCs, Private, Creating, Allocated, entries
<1>1. RefsInv'
  BY DEF MountedInv, RefsInv, Holders, InodeCreate, NewEntry, FreeAddr, Hold
<1>2. PrivateInv'
  <2>1. CASE \E a \in FreeAddr : /\ NewEntry(a, nextIno, NewVal) /\ Hold(t, a)
                                 /\ ic' = [ic EXCEPT ![t] = a] /\ pc' = [pc EXCEPT ![t] = "save"]
                                 /\ UNCHANGED <<icache, deleted>>
    <3>1. PICK a \in FreeAddr : /\ NewEntry(a, nextIno, NewVal) /\ Hold(t, a)
                               /\ ic' = [ic EXCEPT ![t] = a] /\ pc' = [pc EXCEPT ![t] = "save"]
                               /\ UNCHANGED <<icache, deleted>>
      BY <2>1
    <3>2. a \in Addr /\ a \notin Allocated /\ a \notin icache /\ Holders(a) = {} /\ a \notin deleted
      BY <3>1 DEF FreeAddr, MountedInv, OwnedInv
    <3>3. Holders(a)' = {t} /\ inum'[a] # 0
      <4>1. Holders(a)' = {t}
        BY <3>1, <3>2 DEF Holders, Hold
      <4>2. inum'[a] = nextIno /\ nextIno # 0
        BY <3>1, <3>2, ConstantsAssumption DEF NewEntry, InodeCreate, LocalsOK
      <4>3. QED
        BY <4>1, <4>2
    <3>4. ASSUME NEW u \in Threads, u # t, Private(u)
          PROVE  /\ ic'[u] = ic[u] /\ ic[u] # a /\ inum'[ic[u]] = inum[ic[u]]
                 /\ Holders(ic[u])' = Holders(ic[u])
      BY <3>1, <3>2, <3>4 DEF MountedInv, PrivateInv, NewEntry, Hold, Holders
    <3>5. ASSUME NEW u \in Threads, Private(u)'
          PROVE  /\ ic'[u] \in Addr /\ inum'[ic'[u]] # 0 /\ ic'[u] \notin icache'
                 /\ Holders(ic[u])' = {u} /\ ic'[u] \notin deleted'
      <4>1. CASE u = t
        <5>1. ic'[u] = a
          BY <3>1, <4>1
        <5>2. Holders(ic[u])' = Holders(a)'
          BY <5>1 DEF Holders
        <5>3. QED
          BY <3>1, <3>2, <3>3, <4>1, <5>1, <5>2
      <4>2. CASE u # t
        <5>1. Private(u)
          BY <3>1, <3>5, <4>2
        <5>2. ic[u] \in Addr /\ inum[ic[u]] # 0 /\ ic[u] \notin icache /\ Holders(ic[u]) = {u} /\ ic[u] \notin deleted
          BY <5>1 DEF MountedInv, PrivateInv
        <5>3. ic'[u] = ic[u] /\ inum'[ic[u]] = inum[ic[u]] /\ Holders(ic[u])' = Holders(ic[u])
          BY <3>4, <4>2, <5>1
        <5>4. QED
          BY <3>1, <5>2, <5>3
      <4>3. QED
        BY <4>1, <4>2
    <3>6. QED
      BY <3>5 DEF PrivateInv
  <2>2. CASE UNCHANGED <<inum, refs, icache, deleted, ic, pc>>
    BY <2>2 DEF MountedInv, PrivateInv, Holders
  <2>3. QED
    BY <2>1, <2>2 DEF InodeCreate
<1>3. LocalsInv'
  BY DEF MountedInv, LocalsInv, PrivateInv, RefsInv, OwnedInv, Holders, InodeCreate, NewEntry, FreeAddr, Hold
<1>4. NumbersInv'
  <2>1. nextIno' = nextIno + 1 /\ nextIno \in Nat /\ icache' = icache /\ known' = known
    BY ConstantsAssumption DEF InodeCreate
  <2>2. known \subseteq Nat /\ \A i \in known : i < nextIno
    BY ConstantsAssumption DEF MountedInv, NumbersInv
  <2>3. \A i \in known' : i < nextIno'
    BY <2>1, <2>2
  <2>4. CASE UNCHANGED <<entries, pc, ic, refs>>
    <3>1. \A u \in Threads : Creating(u) =>
             /\ ic[u] \in Addr /\ inum[ic[u]] \in Nat /\ inum[ic[u]] < nextIno
      BY ConstantsAssumption DEF MountedInv, NumbersInv, LocalsOK
    <3>2. QED
      BY <2>1, <2>3, <2>4, <3>1 DEF MountedInv, NumbersInv
  <2>5. CASE \E a \in FreeAddr : /\ NewEntry(a, nextIno, NewVal)
                                 /\ ic' = [ic EXCEPT ![t] = a]
                                 /\ pc' = [pc EXCEPT ![t] = "save"]
    <3>1. PICK a \in FreeAddr : /\ NewEntry(a, nextIno, NewVal)
                               /\ ic' = [ic EXCEPT ![t] = a]
                               /\ pc' = [pc EXCEPT ![t] = "save"]
      BY <2>5
    <3>2. a \in Addr /\ a \notin icache /\ inum[a] = 0
      BY <3>1 DEF FreeAddr, MountedInv, OwnedInv
    <3>3. inum' = [inum EXCEPT ![a] = nextIno]
      BY <3>1 DEF NewEntry
    <3>4. \A b \in icache : inum'[b] = inum[b]
      BY <3>2, <3>3
    <3>5. \A b \in icache' : inum'[b] \in known'
      BY <2>1, <3>4 DEF MountedInv, NumbersInv
    <3>6. Creating(t)' /\ ic'[t] = a /\ inum'[a] = nextIno
      BY <3>1, <3>2, <3>3
    <3>7. ASSUME NEW u \in Threads, u # t, Creating(u)'
          PROVE  /\ Creating(u) /\ ic'[u] = ic[u] /\ inum'[ic[u]] = inum[ic[u]]
                 /\ inum[ic[u]] \notin known /\ inum[ic[u]] \in Nat /\ inum[ic[u]] < nextIno
      <4>1. Creating(u) /\ ic'[u] = ic[u]
        BY <3>1, <3>7
      <4>2. ic[u] \in Addr /\ inum[ic[u]] \in Nat /\ inum[ic[u]] # 0
        BY <4>1, ConstantsAssumption DEF MountedInv, PrivateInv, LocalsOK
      <4>3. inum'[ic[u]] = inum[ic[u]]
        BY <3>2, <3>3, <4>2
      <4>4. QED
        BY <4>1, <4>2, <4>3 DEF MountedInv, NumbersInv
    <3>8. ASSUME NEW u \in Threads, Creating(u)'
          PROVE  /\ inum'[ic'[u]] \notin known' /\ inum'[ic'[u]] < nextIno'
                 /\ \A w \in Threads : (Creating(w)' /\ inum'[ic'[w]] = inum'[ic'[u]]) => w = u
      <4>1. CASE u = t
        BY <2>1, <2>2, <3>6, <3>7, <4>1
      <4>2. CASE u # t
        <5>1. /\ Creating(u) /\ inum'[ic'[u]] = inum[ic[u]]
              /\ inum[ic[u]] \notin known /\ inum[ic[u]] \in Nat /\ inum[ic[u]] < nextIno
          BY <3>7, <3>8, <4>2
        <5>2. ASSUME NEW w \in Threads, Creating(w)', inum'[ic'[w]] = inum'[ic'[u]]
              PROVE  w = u
          <6>1. w # t
            BY <2>1, <3>6, <5>1, <5>2
          <6>2. Creating(w) /\ inum'[ic'[w]] = inum[ic[w]]
            BY <3>7, <5>2, <6>1
          <6>3. QED
            BY <5>1, <5>2, <6>2 DEF MountedInv, NumbersInv
        <5>3. QED
          BY <2>1, <5>1, <5>2
      <4>3. QED
        BY <4>1, <4>2
    <3>9. QED
      BY <2>3, <3>5, <3>8 DEF NumbersInv
  <2>6. QED
    BY <2>4, <2>5 DEF InodeCreate
<1>5. OwnedInv'
  BY DEF MountedInv, OwnedInv, PrivateInv, RefsInv, Holders, InodeCreate, NewEntry, FreeAddr, Hold
<1>6. CountsInv'
  <2>1. CASE \E a \in FreeAddr : NewEntry(a, nextIno, NewVal) /\ Hold(t, a)
    <3>1. PICK a \in FreeAddr : NewEntry(a, nextIno, NewVal) /\ Hold(t, a)
      BY <2>1
    <3>2. a \in Addr /\ a \notin Allocated /\ Cardinality(Holders(a)) = 0 /\ a \notin refs[t]
      BY <3>1, CountNone DEF FreeAddr
    <3>3. refcount'[a] = 1 /\ Cardinality(Holders(a))' = 1
      BY <3>1, <3>2, HoldCounts DEF NewEntry
    <3>4. \A b \in Addr : b # a =>
            refcount'[b] = refcount[b] /\ inum'[b] = inum[b] /\ Holders(b)' = Holders(b)
      BY <3>1, <3>2, HoldCounts DEF NewEntry
    <3>5. QED
      BY <3>3, <3>4 DEF MountedInv, CountsInv
  <2>2. CASE UNCHANGED <<inum, refcount, refs>>
    BY <2>2 DEF MountedInv, CountsInv, Holders
  <2>3. QED
    BY <2>1, <2>2 DEF InodeCreate
<1>7. UniqueInv'
  BY DEF MountedInv, UniqueInv, NumbersInv, OwnedInv, Holders, InodeCreate, NewEntry, FreeAddr, Hold
<1>8. QED
  BY <1>1, <1>2, <1>3, <1>4, <1>5, <1>6, <1>7 DEF MountedInv

LEMMA InodeCreateSaveInv ==
  ASSUME TypeOK, MountedInv, NEW t \in Threads, InodeCreateSave(t)
  PROVE  MountedInv'
<1> USE InosType, HeldAllocated, UnheldFree DEF TypeOK, At, PCs, Private, Creating, Allocated, entries
<1>1. RefsInv'
  BY DEF MountedInv, RefsInv, Holders, InodeCreateSave, FreeEntries, FreeContents, Drop, Return
<1>2. PrivateInv'
  BY DEF MountedInv, PrivateInv, RefsInv, OwnedInv, Holders, InodeCreateSave, FreeEntries, FreeContents, Drop, Return
<1>3. LocalsInv'
  BY DEF MountedInv, LocalsInv, PrivateInv, RefsInv, OwnedInv, Holders, InodeCreateSave, FreeEntries, FreeContents, Drop, Return
<1>4. NumbersInv'
  <2>1. known' = known /\ nextIno' = nextIno
    BY DEF InodeCreateSave
  <2>2. \A b \in icache' : inum'[b] \in known
    BY DEF MountedInv, NumbersInv, PrivateInv, LocalsInv, OwnedInv, Holders, InodeCreateSave, FreeEntries, FreeContents, Drop, Return
  <2>3. \A u \in Threads : Creating(u)' =>
          Creating(u) /\ ic'[u] = ic[u] /\ inum'[ic[u]] = inum[ic[u]]
    BY DEF MountedInv, PrivateInv, OwnedInv, Holders, InodeCreateSave, FreeEntries, FreeContents, Drop, Return
  <2>4. QED
    BY <2>1, <2>2, <2>3, NumbersKept DEF MountedInv
<1>5. OwnedInv'
  BY DEF MountedInv, OwnedInv, PrivateInv, RefsInv, Holders, InodeCreateSave, FreeEntries, FreeContents, Drop, Return
<1>6. CountsInv'
  <2> DEFINE mine == ic[t]
  <2>1. CASE UNCHANGED <<inum, refcount, refs>>
    BY <2>1 DEF MountedInv, CountsInv, Holders
  <2>2. CASE FreeEntries({mine}) /\ Drop(t, mine)
    <3>1. mine \in Addr /\ mine \in refs[t]
      BY DEF InodeCreateSave, MountedInv, PrivateInv, LocalsOK, Holders
    <3>2. \A b \in Addr : b # mine => Holders(b)' = Holders(b)
      BY <2>2, <3>1, DropCounts
    <3>3. inum'[mine] = 0 /\ \A b \in Addr : b # mine => inum'[b] = inum[b] /\ refcount'[b] = refcount[b]
      BY <2>2, <3>1 DEF FreeEntries, FreeContents
    <3>4. QED
      BY <3>2, <3>3 DEF MountedInv, CountsInv
  <2>3. QED
    BY <2>1, <2>2 DEF InodeCreateSave
<1>7. UniqueInv'
  BY DEF MountedInv, UniqueInv, NumbersInv, OwnedInv, Holders, InodeCreateSave, FreeEntries, FreeContents, Drop, Return
<1>8. QED
  BY <1>1, <1>2, <1>3, <1>4, <1>5, <1>6, <1>7 DEF MountedInv

LEMMA InodeCreateAddInv ==
  ASSUME TypeOK, MountedInv, NEW t \in Threads, InodeCreateAdd(t)
  PROVE  MountedInv'
<1> USE InosType, HeldAllocated, UnheldFree DEF TypeOK, At, PCs, Private, Creating, Allocated, entries
<1>1. RefsInv'
  BY DEF MountedInv, RefsInv, Holders, InodeCreateAdd, Return
<1>2. PrivateInv'
  BY DEF MountedInv, PrivateInv, RefsInv, OwnedInv, Holders, InodeCreateAdd, Return
<1>3. LocalsInv'
  BY DEF MountedInv, LocalsInv, PrivateInv, RefsInv, OwnedInv, Holders, InodeCreateAdd, Return
<1>4. NumbersInv'
  BY DEF MountedInv, NumbersInv, PrivateInv, LocalsInv, OwnedInv, Holders, InodeCreateAdd, Return
<1>5. OwnedInv'
  BY DEF MountedInv, OwnedInv, PrivateInv, RefsInv, Holders, InodeCreateAdd, Return
<1>6. CountsInv'
  BY DEF MountedInv, CountsInv, PrivateInv, OwnedInv, Holders, InodeCreateAdd, Return
<1>7. UniqueInv'
  BY DEF MountedInv, UniqueInv, NumbersInv, OwnedInv, Holders, InodeCreateAdd, Return
<1>8. QED
  BY <1>1, <1>2, <1>3, <1>4, <1>5, <1>6, <1>7 DEF MountedInv

LEMMA InodeDeleteInv ==
  ASSUME TypeOK, MountedInv, NEW t \in Threads, NEW i \in Inos, InodeDelete(t, i)
  PROVE  MountedInv'
<1> USE InosType, HeldAllocated, UnheldFree DEF TypeOK, At, PCs, Private, Creating, Allocated, entries
<1>1. RefsInv'
  BY DEF MountedInv, RefsInv, Holders, InodeDelete, FreedByDelete, Find, FreeContents
<1>2. PrivateInv'
  BY DEF MountedInv, PrivateInv, RefsInv, OwnedInv, Holders, InodeDelete, FreedByDelete, Find, FreeContents
<1>3. LocalsInv'
  BY DEF MountedInv, LocalsInv, PrivateInv, RefsInv, OwnedInv, Holders, InodeDelete, FreedByDelete, Find, FreeContents
<1>4. NumbersInv'
  <2>1. known' = known /\ nextIno' = nextIno
    BY DEF InodeDelete
  <2>2. \A b \in icache' : inum'[b] \in known
    BY DEF MountedInv, NumbersInv, PrivateInv, LocalsInv, OwnedInv, Holders, InodeDelete, FreedByDelete, Find, FreeContents
  <2>3. \A u \in Threads : Creating(u)' =>
          Creating(u) /\ ic'[u] = ic[u] /\ inum'[ic[u]] = inum[ic[u]]
    BY DEF MountedInv, PrivateInv, OwnedInv, Holders, InodeDelete, FreedByDelete, Find, FreeContents
  <2>4. QED
    BY <2>1, <2>2, <2>3, NumbersKept DEF MountedInv
<1>5. OwnedInv'
  <2>1. \A b \in Addr : Holders(b)' = Holders(b)
    BY DEF InodeDelete, Holders
  <2>2. \A b \in Find(i) : refcount[b] # 0 => Holders(b) # {}
    BY CountNone DEF Find, MountedInv, OwnedInv, CountsInv
  <2>3. \A b \in Addr : b \notin FreedByDelete(i) => inum'[b] = inum[b]
    BY DEF InodeDelete, FreeContents
  <2>4. icache' \subseteq Allocated'
    BY <2>3 DEF InodeDelete, MountedInv, OwnedInv
  <2>5. \A b \in Allocated' : b \in icache' \/ \E u \in Threads : Private(u)' /\ ic'[u] = b
    BY <2>3 DEF InodeDelete, FreeContents, MountedInv, OwnedInv
  <2>6. deleted' \subseteq icache' /\ \A b \in deleted' : Holders(b)' # {}
    BY <2>1, <2>2 DEF InodeDelete, FreedByDelete, Find, MountedInv, OwnedInv
  <2>7. QED
    BY <2>4, <2>5, <2>6 DEF OwnedInv
<1>6. CountsInv'
  BY DEF MountedInv, CountsInv, PrivateInv, OwnedInv, Holders, InodeDelete, FreedByDelete, Find, FreeContents
<1>7. UniqueInv'
  BY DEF MountedInv, UniqueInv, NumbersInv, OwnedInv, Holders, InodeDelete, FreedByDelete, Find, FreeContents
<1>8. QED
  BY <1>1, <1>2, <1>3, <1>4, <1>5, <1>6, <1>7 DEF MountedInv

LEMMA InodeDeleteKvInv ==
  ASSUME TypeOK, MountedInv, NEW t \in Threads, InodeDeleteKv(t)
  PROVE  MountedInv'
<1> USE InosType, HeldAllocated, UnheldFree DEF TypeOK, At, PCs, Private, Creating, Allocated, entries
<1>1. RefsInv'
  BY DEF MountedInv, RefsInv, Holders, InodeDeleteKv, Return
<1>2. PrivateInv'
  BY DEF MountedInv, PrivateInv, RefsInv, OwnedInv, Holders, InodeDeleteKv, Return
<1>3. LocalsInv'
  BY DEF MountedInv, LocalsInv, PrivateInv, RefsInv, OwnedInv, Holders, InodeDeleteKv, Return
<1>4. NumbersInv'
  <2>1. known' = known /\ nextIno' = nextIno
    BY DEF InodeDeleteKv
  <2>2. \A b \in icache' : inum'[b] \in known
    BY DEF MountedInv, NumbersInv, PrivateInv, LocalsInv, OwnedInv, Holders, InodeDeleteKv, Return
  <2>3. \A u \in Threads : Creating(u)' =>
          Creating(u) /\ ic'[u] = ic[u] /\ inum'[ic[u]] = inum[ic[u]]
    BY DEF MountedInv, PrivateInv, OwnedInv, Holders, InodeDeleteKv, Return
  <2>4. QED
    BY <2>1, <2>2, <2>3, NumbersKept DEF MountedInv
<1>5. OwnedInv'
  BY DEF MountedInv, OwnedInv, PrivateInv, RefsInv, Holders, InodeDeleteKv, Return
<1>6. CountsInv'
  BY DEF MountedInv, CountsInv, PrivateInv, OwnedInv, Holders, InodeDeleteKv, Return
<1>7. UniqueInv'
  BY DEF MountedInv, UniqueInv, NumbersInv, OwnedInv, Holders, InodeDeleteKv, Return
<1>8. QED
  BY <1>1, <1>2, <1>3, <1>4, <1>5, <1>6, <1>7 DEF MountedInv

LEMMA ModifyInodeInv ==
  ASSUME TypeOK, MountedInv, NEW t \in Threads, NEW a \in Addr, ModifyInode(t, a)
  PROVE  MountedInv'
<1> USE InosType, HeldAllocated, UnheldFree DEF TypeOK, At, PCs, Private, Creating, Allocated, entries
<1>1. RefsInv'
  BY DEF MountedInv, RefsInv, Holders, ModifyInode
<1>2. PrivateInv'
  BY DEF MountedInv, PrivateInv, RefsInv, OwnedInv, Holders, ModifyInode
<1>3. LocalsInv'
  BY DEF MountedInv, LocalsInv, PrivateInv, RefsInv, OwnedInv, Holders, ModifyInode
<1>4. NumbersInv'
  <2>1. known' = known /\ nextIno' = nextIno
    BY DEF ModifyInode
  <2>2. \A b \in icache' : inum'[b] \in known
    BY DEF MountedInv, NumbersInv, PrivateInv, LocalsInv, OwnedInv, Holders, ModifyInode
  <2>3. \A u \in Threads : Creating(u)' =>
          Creating(u) /\ ic'[u] = ic[u] /\ inum'[ic[u]] = inum[ic[u]]
    BY DEF MountedInv, PrivateInv, OwnedInv, Holders, ModifyInode
  <2>4. QED
    BY <2>1, <2>2, <2>3, NumbersKept DEF MountedInv
<1>5. OwnedInv'
  BY DEF MountedInv, OwnedInv, PrivateInv, RefsInv, Holders, ModifyInode
<1>6. CountsInv'
  BY DEF MountedInv, CountsInv, PrivateInv, OwnedInv, Holders, ModifyInode
<1>7. UniqueInv'
  BY DEF MountedInv, UniqueInv, NumbersInv, OwnedInv, Holders, ModifyInode
<1>8. QED
  BY <1>1, <1>2, <1>3, <1>4, <1>5, <1>6, <1>7 DEF MountedInv

LEMMA InodeSyncInv ==
  ASSUME TypeOK, MountedInv, NEW t \in Threads, InodeSync(t)
  PROVE  MountedInv'
<1> USE InosType, HeldAllocated, UnheldFree DEF TypeOK, At, PCs, Private, Creating, Allocated, entries
<1>1. RefsInv'
  BY DEF MountedInv, RefsInv, Holders, InodeSync, Return
<1>2. PrivateInv'
  BY DEF MountedInv, PrivateInv, RefsInv, OwnedInv, Holders, InodeSync, Return
<1>3. LocalsInv'
  BY DEF MountedInv, LocalsInv, PrivateInv, RefsInv, OwnedInv, Holders, InodeSync, Return
<1>4. NumbersInv'
  <2>1. known' = known /\ nextIno' = nextIno
    BY DEF InodeSync
  <2>2. \A b \in icache' : inum'[b] \in known
    BY DEF MountedInv, NumbersInv, PrivateInv, LocalsInv, OwnedInv, Holders, InodeSync, Return
  <2>3. \A u \in Threads : Creating(u)' =>
          Creating(u) /\ ic'[u] = ic[u] /\ inum'[ic[u]] = inum[ic[u]]
    BY DEF MountedInv, PrivateInv, OwnedInv, Holders, InodeSync, Return
  <2>4. QED
    BY <2>1, <2>2, <2>3, NumbersKept DEF MountedInv
<1>5. OwnedInv'
  BY DEF MountedInv, OwnedInv, PrivateInv, RefsInv, Holders, InodeSync, Return
<1>6. CountsInv'
  BY DEF MountedInv, CountsInv, PrivateInv, OwnedInv, Holders, InodeSync, Return
<1>7. UniqueInv'
  BY DEF MountedInv, UniqueInv, NumbersInv, OwnedInv, Holders, InodeSync, Return
<1>8. QED
  BY <1>1, <1>2, <1>3, <1>4, <1>5, <1>6, <1>7 DEF MountedInv
\* The cache invariant holds as long as the file system is mounted.
THEOREM CacheInvariant == Spec => []CacheInv
<1>1. Init => CacheInv
  <2> SUFFICES ASSUME Init PROVE MountedInv
    BY DEF CacheInv
  <2>1. Allocated = {}
    BY DEF Init, Allocated
  <2>2. \A i \in known : i < nextIno
    BY ConstantsAssumption DEF Init, Inos
  <2>3. QED
    BY <2>1, <2>2 DEF Init, MountedInv, RefsInv, PrivateInv, LocalsInv, NumbersInv,
                      OwnedInv, CountsInv, UniqueInv, Private, Creating
<1>2. TypeOK /\ CacheInv /\ [Next]_vars => CacheInv'
  <2> SUFFICES ASSUME TypeOK, CacheInv, [Next]_vars, phase' = "mounted"
               PROVE  MountedInv'
    BY DEF CacheInv
  <2>1. CASE UNCHANGED vars
    BY <2>1 DEF vars, CacheInv, MountedInv, RefsInv, PrivateInv, LocalsInv, NumbersInv, OwnedInv,
                CountsInv, UniqueInv, Private, Creating, Allocated, Holders
  <2>2. CASE Next
    <3>1. ~KvbfsDestroy /\ ~CtxDestroy
      BY DEF KvbfsDestroy, CtxDestroy
    <3>2. PICK t \in Threads : Step(t)
      BY <2>2, <3>1 DEF Next
    <3>3. phase = "mounted"
      BY <3>2 DEF Step, InodeGet, InodeLoad, Loaded, InodeGetPublish, InodePut, InodeCreate, InodeCreateSave,
                  InodeCreateAdd, InodeDelete, InodeDeleteKv, ModifyInode, InodeSync
    <3>4. MountedInv
      BY <3>3 DEF CacheInv
    <3>5. QED
      BY <3>2, <3>4, InodeGetInv, InodeLoadInv, InodeGetPublishInv, InodePutInv, InodeCreateInv,
         InodeCreateSaveInv, InodeCreateAddInv, InodeDeleteInv, InodeDeleteKvInv,
         ModifyInodeInv, InodeSyncInv DEF Step
  <2>3. QED
    BY <2>1, <2>2
<1>3. QED
  BY <1>1, <1>2, TypeCorrect, PTL DEF Spec

\* While mounted, no thread ever holds a pointer to freed memory, reference
\* counts are exact, an inode has one entry, and no entry is lost: the
\* protocol of inode_get, inode_put and inode_delete is memory safe for any
\* number of threads.
THEOREM MemorySafety == Spec => []MemorySafe
<1>1. TypeOK /\ CacheInv => NoUseAfterFree
  BY HeldAllocated DEF CacheInv, NoUseAfterFree, Dangling
<1>2. CacheInv => RefcountExact /\ OneEntryPerInode
  BY DEF CacheInv, MountedInv, CountsInv, UniqueInv, RefcountExact, OneEntryPerInode
<1>3. CacheInv => NoLeak
  BY DEF CacheInv, MountedInv, OwnedInv, PrivateInv, NoLeak
<1>4. TypeOK /\ CacheInv => MemorySafe
  BY <1>1, <1>2, <1>3 DEF MemorySafe
<1>5. QED
  BY <1>4, TypeCorrect, CacheInvariant, PTL

\* A deleted entry is handed out to nobody, in any phase of the program.
THEOREM DeletedIsFinal == Spec => NoNewRefToDeleted
<1> DEFINE NoRise == \A a \in Allocated :
                       (a \in deleted /\ inum'[a] = inum[a]) => refcount'[a] <= refcount[a]
<1>1. TypeOK /\ [Next]_vars => [NoRise]_vars
  <2> SUFFICES ASSUME TypeOK, Next PROVE NoRise
    OBVIOUS
  <2> USE DEF TypeOK, Allocated, entries
  <2>1. ASSUME NEW t \in Threads, NEW i \in Inos, InodeGet(t, i) PROVE NoRise
    BY <2>1 DEF InodeGet, Visible, Referenced, Find
  <2>2. ASSUME NEW t \in Threads, InodeLoad(t) PROVE NoRise
    BY <2>2 DEF InodeLoad, Loaded, NewEntry, FreeAddr
  <2>3. ASSUME NEW t \in Threads, InodeGetPublish(t) PROVE NoRise
    BY <2>3 DEF InodeGetPublish, Recheck, Find, Visible, Referenced, FreeEntries, FreeContents,
                At, LocalsOK
  <2>4. ASSUME NEW t \in Threads, NEW a \in Addr, InodePut(t, a) PROVE NoRise
    BY <2>4 DEF InodePut, FreeEntries
  <2>5. ASSUME NEW t \in Threads, InodeCreate(t) PROVE NoRise
    BY <2>5 DEF InodeCreate, NewEntry, FreeAddr
  <2>6. ASSUME NEW t \in Threads, InodeCreateSave(t) PROVE NoRise
    BY <2>6 DEF InodeCreateSave, FreeEntries
  <2>7. ASSUME KvbfsDestroy \/ CtxDestroy PROVE NoRise
    BY <2>7 DEF KvbfsDestroy, CtxDestroy, ClearCache, FreeEntries
  <2>8. ASSUME UNCHANGED refcount PROVE NoRise
    BY <2>8
  <2>9. QED
    BY <2>1, <2>2, <2>3, <2>4, <2>5, <2>6, <2>7, <2>8
       DEF Next, Step, InodeCreateAdd, InodeDelete, InodeDeleteKv, ModifyInode, InodeSync
<1>2. QED
  BY <1>1, TypeCorrect, PTL DEF Spec, NoNewRefToDeleted

-----------------------------------------------------------------------------
(* What is written back                                                    *)

\* Only an entry in creation is dirty, and only while the file system is
\* mounted: its creator writes it before anybody else sees it.
SaveInv ==
  /\ doomed \subseteq Inos
  /\ \A t \in Threads : Creating(t) => t \in FuseThreads /\ phase = "mounted"
  /\ \A a \in dirty : \E t \in Threads : pc[t] = "save" /\ ic[t] = a

LEMMA QuietClean ==
  ASSUME SaveInv, phase # "mounted" \/ Quiet(FuseThreads)
  PROVE  dirty = {} /\ \A t \in Threads : ~Creating(t)
BY DEF SaveInv, Quiet, Creating

LEMMA SaveStep ==
  ASSUME TypeOK, SaveInv, [Next]_vars
  PROVE  SaveInv'
<1> USE DEF TypeOK, SaveInv, Creating, Return, At, entries
<1>1. ASSUME NEW t \in Threads, NEW i \in Inos, InodeGet(t, i) PROVE SaveInv'
  BY <1>1 DEF InodeGet
<1>2. ASSUME NEW t \in Threads, InodeLoad(t) PROVE SaveInv'
  BY <1>2 DEF InodeLoad
<1>3. ASSUME NEW t \in Threads, InodeGetPublish(t) PROVE SaveInv'
  <2>1. /\ dirty' \subseteq dirty /\ pc[t] = "publish" /\ pc'[t] = "idle"
        /\ \A u \in Threads \ {t} : pc'[u] = pc[u] /\ ic'[u] = ic[u]
        /\ UNCHANGED <<doomed, phase>>
    BY <1>3 DEF InodeGetPublish, FreeEntries, FreeContents
  <2>2. QED
    BY <2>1
<1>4. ASSUME NEW t \in Threads, NEW a \in Addr, InodePut(t, a) PROVE SaveInv'
  <2>1. dirty' \subseteq dirty /\ UNCHANGED <<doomed, phase, pc, ic>>
    BY <1>4 DEF InodePut, FreeEntries, FreeContents
  <2>2. QED
    BY <2>1
<1>5. ASSUME NEW t \in FuseThreads, InodeCreate(t) PROVE SaveInv'
  <2>1. t \in Threads /\ phase = "mounted" /\ phase' = phase
    BY <1>5, ConstantsAssumption DEF InodeCreate, Running, Threads
  <2>2. CASE UNCHANGED <<dirty, pc, ic>>
    BY <1>5, <2>1, <2>2 DEF InodeCreate
  <2>3. CASE \E a \in FreeAddr : /\ dirty' = dirty \cup {a}
                                 /\ ic' = [ic EXCEPT ![t] = a]
                                 /\ pc' = [pc EXCEPT ![t] = "save"]
    BY <1>5, <2>1, <2>3 DEF InodeCreate
  <2>4. QED
    BY <1>5, <2>2, <2>3 DEF InodeCreate
<1>6. ASSUME NEW t \in Threads, InodeCreateSave(t) PROVE SaveInv'
  <2>1. /\ dirty' = dirty \ {ic[t]} /\ pc[t] = "save" /\ pc'[t] \in {"idle", "hash"}
        /\ \A u \in Threads \ {t} : pc'[u] = pc[u] /\ ic'[u] = ic[u]
        /\ UNCHANGED <<doomed, phase>>
    BY <1>6 DEF InodeCreateSave, FreeEntries, FreeContents
  <2>2. QED
    BY <2>1
<1>7. ASSUME NEW t \in Threads, InodeCreateAdd(t) PROVE SaveInv'
  BY <1>7 DEF InodeCreateAdd
<1>8. ASSUME NEW t \in Threads, NEW i \in Inos, InodeDelete(t, i) PROVE SaveInv'
  <2>1. /\ dirty' \subseteq dirty /\ pc[t] = "idle" /\ pc'[t] = "kvdel" /\ doomed' = doomed \cup {i}
        /\ \A u \in Threads \ {t} : pc'[u] = pc[u]
        /\ UNCHANGED <<ic, phase>>
    BY <1>8 DEF InodeDelete, FreeContents
  <2>2. QED
    BY <2>1
<1>9. ASSUME NEW t \in Threads, InodeDeleteKv(t) PROVE SaveInv'
  BY <1>9 DEF InodeDeleteKv
<1>10. ASSUME NEW t \in Threads, NEW a \in Addr, ModifyInode(t, a) PROVE SaveInv'
  BY <1>10 DEF ModifyInode
<1>11. ASSUME NEW t \in Threads, InodeSync(t) PROVE SaveInv'
  BY <1>11 DEF InodeSync
<1>12. ASSUME KvbfsDestroy \/ CtxDestroy PROVE SaveInv'
  <2>1. dirty = {} /\ \A t \in Threads : ~Creating(t)
    BY <1>12, QuietClean DEF KvbfsDestroy, CtxDestroy
  <2>2. dirty' \subseteq dirty /\ UNCHANGED <<doomed, pc, ic>>
    BY <1>12 DEF KvbfsDestroy, CtxDestroy, ClearCache, FreeEntries, FreeContents
  <2>3. QED
    BY <2>1, <2>2
<1>13. ASSUME UNCHANGED vars PROVE SaveInv'
  BY <1>13 DEF vars
<1>14. QED
  BY <1>1, <1>2, <1>3, <1>4, <1>5, <1>6, <1>7, <1>8, <1>9, <1>10, <1>11, <1>12, <1>13 DEF Next, Step

\* A flush of a clean cache leaves the store as it is.
LEMMA CleanFlush ==
  ASSUME TypeOK, dirty = {}
  PROVE  \A i \in Inos : Flushed[i] = kv[i]
BY DEF Flushed, Unsaved

\* inode_sync and the flushes at unmount never store a deleted inode again, in
\* any phase of the program.
THEOREM DeletedStaysDeleted == Spec => DeletedStaysOffDisk
<1> DEFINE Stays == \A i \in doomed : kv[i] = Absent => kv'[i] = Absent
<1>1. Init => SaveInv
  BY DEF Init, SaveInv, Creating
<1>2. TypeOK /\ CacheInv /\ SaveInv /\ [Next]_vars => [Stays]_vars
  <2> SUFFICES ASSUME TypeOK, CacheInv, SaveInv, Next PROVE Stays
    OBVIOUS
  <2>1. doomed \subseteq Inos /\ doomed \subseteq known
    BY DEF SaveInv, TypeOK
  <2>2. ASSUME NEW t \in Threads, InodeCreateSave(t) PROVE Stays
    <3>1. inum[ic[t]] \notin known
      BY <2>2 DEF InodeCreateSave, At, Creating, SaveInv, CacheInv, MountedInv, NumbersInv
    <3>2. QED
      BY <2>1, <2>2, <3>1 DEF InodeCreateSave, TypeOK
  <2>3. ASSUME NEW t \in Threads, InodeDeleteKv(t) PROVE Stays
    BY <2>1, <2>3 DEF InodeDeleteKv, TypeOK
  <2>4. ASSUME NEW t \in Threads, InodeSync(t) PROVE Stays
    <3>1. ic[t] \notin dirty
      <4> SUFFICES ASSUME ic[t] \in dirty PROVE FALSE
        OBVIOUS
      <4>1. PICK u \in Threads : pc[u] = "save" /\ ic[u] = ic[t]
        BY DEF SaveInv
      <4>2. MountedInv /\ u # t
        BY <2>4, <4>1 DEF InodeSync, At, SaveInv, Creating, CacheInv
      <4>3. ic[t] \in refs[t]
        BY <2>4, <4>2 DEF InodeSync, At, MountedInv, LocalsInv
      <4>4. Holders(ic[t]) = {u}
        BY <4>1, <4>2 DEF MountedInv, PrivateInv, Private
      <4>5. QED
        BY <4>2, <4>3, <4>4 DEF Holders
    <3>2. QED
      BY <2>4, <3>1 DEF InodeSync, SyncWrites
  <2>5. ASSUME KvbfsDestroy \/ CtxDestroy PROVE Stays
    <3>1. dirty = {}
      BY <2>5, QuietClean DEF KvbfsDestroy, CtxDestroy
    <3>2. QED
      BY <2>1, <2>5, <3>1, CleanFlush DEF KvbfsDestroy, CtxDestroy
  <2>6. ASSUME UNCHANGED kv PROVE Stays
    BY <2>6
  <2>7. QED
    BY <2>2, <2>3, <2>4, <2>5, <2>6
       DEF Next, Step, InodeGet, InodeLoad, InodeGetPublish, InodePut, InodeCreate, InodeCreateAdd,
           InodeDelete, ModifyInode
<1>3. QED
  BY <1>1, <1>2, SaveStep, TypeCorrect, CacheInvariant, PTL DEF Spec, DeletedStaysOffDisk

=============================================================================
